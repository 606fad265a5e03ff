---------------------------- MODULE LoggingProofs ----------------------------
(***************************************************************************)
(* Proofs about Logging, for every set of threads, streams and tags and    *)
(* for every number of calls: lines never mix and are in the order of      *)
(* their times, and all tags take the same space.                          *)
(***************************************************************************)
EXTENDS Logging, SequenceTheorems, TLAPS

Stage == {"idle", "waiting", "locked", "time", "text"}
Call == [stage : Stage, number : 0..MaxCalls]

\* What TypeOK leaves open: the functions, and the numbers of the calls.
Shape ==
  /\ call \in [Threads -> Call]
  /\ \A t \in Threads : call[t].stage # "idle" => call[t].number # 0
  /\ written \in [Outputs -> Seq(Piece)]

\* The thread that holds the lock is between the time and the text of its
\* line, or has taken the time and not written it.
Writing == mutex_ # NoThread /\ call[mutex_].stage = "text"
Timing == mutex_ # NoThread /\ call[mutex_].stage = "time"

\* The last piece in a stream.
Newest(o) == written[o][Len(written[o])]

Odd(n) == n % 2 = 1

\* As long as output() does not race: only the thread with the lock leaves a
\* line unfinished, in the stream in use, and it is its own.
OneUnfinished ==
  /\ \A o \in Outputs : Odd(Len(written[o])) <=> o = output_ /\ Writing
  /\ Writing => Newest(output_).number = call[mutex_].number

\* No line is from the future, nor later than a time that was taken under the
\* lock and is still to be written.
NoneLater ==
  \A o \in Outputs : \A i \in DOMAIN written[o] :
    /\ written[o][i].time <= clock
    /\ Timing => written[o][i].time <= tm

IInv ==
  /\ TypeOK
  /\ Shape
  /\ LinesWhole
  /\ fate = "running" => OneUnfinished /\ NoneLater

-----------------------------------------------------------------------------
LEMMA Parity ==
  ASSUME NEW n \in Nat
  PROVE  /\ n % 2 = 1 <=> Odd(n)
         /\ n % 2 = 0 <=> ~Odd(n)
         /\ Odd(n + 1) <=> ~Odd(n)
         /\ Odd(n) => n > 0
         /\ ~Odd(0)
BY DEF Odd

\* What is in the streams.
LEMMA Pieces ==
  ASSUME Shape, NEW o \in Outputs
  PROVE  /\ written[o] \in Seq(Piece)
         /\ DOMAIN written[o] = 1..Len(written[o]) /\ Len(written[o]) \in Nat
         /\ \A i \in DOMAIN written[o] :
              written[o][i] \in Piece /\ written[o][i].time \in Nat
<1>1. written[o] \in Seq(Piece)
  BY DEF Shape
<1>2. \A i \in DOMAIN written[o] : written[o][i] \in Piece
  BY <1>1
<1>3. \A p \in Piece : p.time \in Nat
  BY LoggingAssumption DEF Piece
<1>4. QED
  BY <1>1, <1>2, <1>3

LEMMA InitIInv == Init => IInv
<1> SUFFICES ASSUME Init PROVE IInv
  OBVIOUS
<1>1. Shape
  <2>1. <<>> \in Seq(Piece)
    BY EmptySeq
  <2>2. Idle \in Call
    BY LoggingAssumption DEF Idle, Call, Stage
  <2>3. QED
    BY <2>1, <2>2 DEF Init, Shape, Idle
<1>2. TypeOK
  BY <1>1, LoggingAssumption DEF Init, TypeOK, Shape, Idle
<1>3. \A o \in Outputs : written[o] = <<>> /\ DOMAIN written[o] = {}
                                           /\ Len(written[o]) = 0
  BY DEF Init
<1>4. LinesWhole /\ NoneLater
  BY <1>3 DEF LinesWhole, NoneLater
<1>5. OneUnfinished
  BY <1>3, Parity DEF OneUnfinished, Writing, Init
<1>6. QED
  BY <1>1, <1>2, <1>4, <1>5 DEF IInv

\* Steps that write nothing and leave the lock and its holder alone.
LEMMA AsideStep ==
  ASSUME IInv, fate = "running",
         UNCHANGED <<mutex_, written, tm, fate>>,
         output_' = output_ \/ (mutex_ = NoThread /\ output_' \in Outputs),
         level_' \in 0..3, clock' \in clock..MaxTime, calls' \in 0..MaxCalls,
         call' \in [Threads -> Call],
         \A t \in Threads :
           \/ call'[t] = call[t]
           \/ /\ call[t].stage = "idle"
              /\ call'[t].stage = "waiting" /\ call'[t].number # 0
  PROVE  IInv'
<1> USE DEF IInv
<1>1. Shape'
  BY DEF Shape
<1>2. TypeOK'
  BY <1>1 DEF TypeOK, Shape
<1>3. LinesWhole'
  BY DEF LinesWhole
<1>4. mutex_ # NoThread => mutex_ \in Threads /\ call'[mutex_] = call[mutex_]
  BY DEF TypeOK
<1>5. OneUnfinished'
  BY <1>4 DEF OneUnfinished, Writing, Newest
<1>6. NoneLater'
  <2>1. clock \in Nat /\ clock' \in Nat /\ clock <= clock'
    BY LoggingAssumption DEF TypeOK
  <2>2. QED
    BY <1>4, <2>1, Pieces DEF NoneLater, Timing
<1>7. QED
  BY <1>1, <1>2, <1>3, <1>5, <1>6

\* A stream that is replaced while a line is being written.
LEMMA RaceStep ==
  ASSUME IInv, NEW o \in Outputs, Output(o), mutex_ # NoThread
  PROVE  IInv'
BY DEF IInv, Output, TypeOK, Shape, LinesWhole

LEMMA AsideSteps ==
  ASSUME IInv, \/ \E level \in Levels : Threshold(level)
               \/ \E o \in Outputs : Output(o)
               \/ Tick
               \/ \E t \in Threads, level \in Levels : Log(t, level)
  PROVE  IInv'
<1> USE DEF IInv
<1>1. ASSUME NEW level \in Levels, Threshold(level) PROVE IInv'
  BY <1>1, AsideStep, LoggingAssumption DEF Threshold, TypeOK, Shape
<1>2. ASSUME NEW o \in Outputs, Output(o) PROVE IInv'
  <2>1. CASE mutex_ = NoThread
    BY <1>2, <2>1, AsideStep, LoggingAssumption DEF Output, TypeOK, Shape
  <2>2. QED
    BY <1>2, <2>1, RaceStep
<1>3. CASE Tick
  <2>1. clock' \in clock..MaxTime
    BY <1>3, LoggingAssumption DEF Tick, TypeOK
  <2>2. QED
    BY <1>3, <2>1, AsideStep DEF Tick, TypeOK, Shape
<1>4. ASSUME NEW t \in Threads, NEW level \in Levels, Log(t, level)
      PROVE  IInv'
  <2> DEFINE c == [stage |-> "waiting", number |-> calls + 1]
  <2>1. /\ calls + 1 \in 0..MaxCalls /\ calls + 1 # 0
        /\ clock \in clock..MaxTime
    BY <1>4, LoggingAssumption DEF Log, TypeOK
  <2>2. c \in Call
    BY <2>1 DEF Call, Stage
  <2>3. call[t].stage = "idle" /\ call' = [call EXCEPT ![t] = c]
    BY <1>4 DEF Log, Idle
  <2>4. /\ call' \in [Threads -> Call]
        /\ \A s \in Threads :
             \/ call'[s] = call[s]
             \/ /\ call[s].stage = "idle"
                /\ call'[s].stage = "waiting" /\ call'[s].number # 0
    BY <2>1, <2>2, <2>3 DEF Shape
  <2>5. QED
    BY <1>4, <2>1, <2>4, AsideStep DEF Log, TypeOK
<1>5. QED
  BY <1>1, <1>2, <1>3, <1>4

-----------------------------------------------------------------------------
\* A thread goes on with its call.
LEMMA GoesOn ==
  ASSUME IInv, NEW t \in Threads, NEW from \in Stage \ {"idle"},
         NEW to \in Stage, Goes(t, from, to)
  PROVE  /\ call' \in [Threads -> Call]
         /\ call'[t].stage = to /\ call'[t].number = call[t].number
         /\ call[t].stage = from /\ call[t].number \in 1..MaxCalls
         /\ \A s \in Threads : s # t => call'[s] = call[s]
<1>1. /\ call[t] \in Call /\ call[t].stage = from /\ call[t].number # 0
      /\ call \in [Threads -> Call]
      /\ call' = [call EXCEPT ![t].stage = to]
  BY DEF Goes, IInv, Shape
<1>2. call'[t] = [call[t] EXCEPT !.stage = to]
  BY <1>1
<1>3. /\ call'[t] \in Call /\ call'[t].stage = to
      /\ call'[t].number = call[t].number
  BY <1>1, <1>2 DEF Call
<1>4. call[t].number \in 1..MaxCalls
  BY <1>1, LoggingAssumption DEF Call
<1>5. QED
  BY <1>1, <1>3, <1>4

\* The lock is free, so no line is unfinished.
LEMMA AcquireStep ==
  ASSUME IInv, NEW t \in Threads, Acquire(t)
  PROVE  IInv'
<1> USE DEF IInv
<1>1. /\ mutex_ = NoThread /\ mutex_' = t /\ fate = "running"
      /\ UNCHANGED <<level_, output_, clock, calls, fate, written, tm>>
      /\ t # NoThread
  BY LoggingAssumption DEF Acquire, Goes
<1>2. /\ call' \in [Threads -> Call]
      /\ call'[t].stage = "locked" /\ call'[t].number = call[t].number
      /\ call[t].stage = "waiting" /\ call[t].number \in 1..MaxCalls
      /\ \A s \in Threads : s # t => call'[s] = call[s]
  BY GoesOn DEF Acquire, Stage
<1>3. Shape'
  BY <1>1, <1>2 DEF Shape
<1>4. TypeOK'
  <2>1. ASSUME NEW s \in Threads
        PROVE  /\ call'[s].stage \in Stage
               /\ call'[s].stage \in {"locked", "time", "text"} <=> mutex_' = s
    BY <1>1, <1>2, LoggingAssumption DEF TypeOK, Stage
  <2>2. QED
    BY <1>1, <2>1 DEF TypeOK, Stage
<1>5. LinesWhole'
  BY <1>1 DEF LinesWhole
<1>6. ~Writing /\ ~Writing' /\ ~Timing'
  BY <1>1, <1>2 DEF Writing, Timing
<1>7. OneUnfinished' /\ NoneLater'
  BY <1>1, <1>6 DEF OneUnfinished, NoneLater
<1>8. QED
  BY <1>3, <1>4, <1>5, <1>7

LEMMA TakeTimeStep ==
  ASSUME IInv, NEW t \in Threads, TakeTime(t)
  PROVE  IInv'
<1> USE DEF IInv
<1>1. /\ tm' = clock /\ fate = "running"
      /\ UNCHANGED <<level_, output_, mutex_, clock, calls, fate, written>>
  BY DEF TakeTime, Goes
<1>2. /\ call' \in [Threads -> Call]
      /\ call'[t].stage = "time" /\ call'[t].number = call[t].number
      /\ call[t].stage = "locked" /\ call[t].number \in 1..MaxCalls
      /\ \A s \in Threads : s # t => call'[s] = call[s]
  BY GoesOn DEF TakeTime, Stage
<1>3. Shape'
  BY <1>1, <1>2 DEF Shape
<1>4. mutex_ = t
  BY <1>2 DEF TypeOK
<1>5. TypeOK'
  BY <1>1, <1>2, <1>4, LoggingAssumption DEF TypeOK
<1>6. LinesWhole'
  BY <1>1 DEF LinesWhole
<1>7. ~Writing /\ ~Writing'
  BY <1>1, <1>2, <1>4 DEF Writing
<1>8. OneUnfinished' /\ NoneLater'
  BY <1>1, <1>7 DEF OneUnfinished, NoneLater
<1>9. QED
  BY <1>3, <1>5, <1>6, <1>8

-----------------------------------------------------------------------------
\* A piece is written to the stream in use.
LEMMA Written ==
  ASSUME IInv, NEW p \in Piece, Write(p)
  PROVE  /\ written' \in [Outputs -> Seq(Piece)]
         /\ \A o \in Outputs : o # output_ => written'[o] = written[o]
         /\ Len(written'[output_]) = Len(written[output_]) + 1
         /\ DOMAIN written'[output_] = 1..(Len(written[output_]) + 1)
         /\ written'[output_][Len(written[output_]) + 1] = p
         /\ \A i \in DOMAIN written[output_] :
              i \in DOMAIN written'[output_]
                /\ written'[output_][i] = written[output_][i]
<1>1. /\ written \in [Outputs -> Seq(Piece)] /\ output_ \in Outputs
      /\ written[output_] \in Seq(Piece)
  BY DEF IInv, Shape, TypeOK
<1>2. written' = [written EXCEPT ![output_] = Append(written[output_], p)]
  BY DEF Write
<1>3. written'[output_] = Append(written[output_], p)
  BY <1>1, <1>2
<1>4. Append(written[output_], p) \in Seq(Piece)
  BY <1>1
<1>5. /\ written' \in [Outputs -> Seq(Piece)]
      /\ \A o \in Outputs : o # output_ => written'[o] = written[o]
  BY <1>1, <1>2, <1>4
<1>6. QED
  BY <1>1, <1>3, <1>5

\* A piece that goes on with the n pieces of the stream in use.
Fits(p, n) ==
  /\ p.part = IF Odd(n) THEN "text" ELSE "time"
  /\ Odd(n) => p.number = written[output_][n].number
  /\ n > 0 => written[output_][n].time <= p.time

LEMMA WrittenKeeps ==
  ASSUME IInv, fate = "running", NEW p \in Piece, Write(p),
         NEW n, n = Len(written[output_]), Fits(p, n),
         ~Odd(n) => mutex_' # NoThread
  PROVE  LinesWhole'
<1>1. /\ \A o \in Outputs : o # output_ => written'[o] = written[o]
      /\ Len(written'[output_]) = n + 1
      /\ DOMAIN written'[output_] = 1..(n + 1)
      /\ written'[output_][n + 1] = p
      /\ \A i \in DOMAIN written[output_] :
           i \in DOMAIN written'[output_]
             /\ written'[output_][i] = written[output_][i]
  BY Written
<1>2. /\ output_ \in Outputs /\ n \in Nat
      /\ DOMAIN written[output_] = 1..n
      /\ \A o \in Outputs : DOMAIN written[o] \subseteq Nat
  BY Pieces DEF IInv, TypeOK
<1>3. SUFFICES
        ASSUME NEW o \in Outputs, NEW i \in DOMAIN written'[o]
        PROVE  /\ written'[o][i].part = IF i % 2 = 1 THEN "time" ELSE "text"
               /\ i % 2 = 0 =>
                    written'[o][i].number = written'[o][i - 1].number
               /\ i % 2 = 1 /\ i = Len(written'[o]) =>
                    mutex_' # NoThread \/ fate' = "undefined"
               /\ i > 1 => written'[o][i - 1].time <= written'[o][i].time
  BY DEF LinesWhole
<1>4. CASE o # output_
  <2>1. /\ written'[o] = written[o] /\ ~Odd(Len(written[o]))
        /\ i \in Nat /\ (i % 2 = 1 <=> Odd(i))
    BY <1>1, <1>2, <1>4, Parity DEF IInv, OneUnfinished
  <2>2. i \in DOMAIN written[o] /\ ~(i % 2 = 1 /\ i = Len(written'[o]))
    BY <2>1
  <2>3. QED
    BY <2>1, <2>2 DEF IInv, LinesWhole
<1>5. CASE o = output_ /\ i \in DOMAIN written[o]
  <2>1. /\ i \in 1..n /\ i # Len(written'[o])
        /\ i > 1 => i - 1 \in DOMAIN written[o]
    BY <1>1, <1>2, <1>5
  <2>2. i % 2 = 0 => i > 1
    BY <2>1, <1>2
  <2>3. /\ written'[o][i] = written[o][i]
        /\ i > 1 => written'[o][i - 1] = written[o][i - 1]
    BY <1>1, <1>5, <2>1
  <2>4. /\ written[o][i].part = IF i % 2 = 1 THEN "time" ELSE "text"
        /\ i % 2 = 0 => written[o][i].number = written[o][i - 1].number
        /\ i > 1 => written[o][i - 1].time <= written[o][i].time
    BY <1>5 DEF IInv, LinesWhole
  <2>5. QED
    BY <2>1, <2>2, <2>3, <2>4
<1>6. CASE o = output_ /\ i = n + 1
  <2>1. /\ i \in Nat /\ i - 1 = n
        /\ i > 1 => n > 0 /\ n \in DOMAIN written[o]
    BY <1>2, <1>6
  <2>2. /\ i % 2 = 1 <=> ~Odd(n)
        /\ i % 2 = 0 <=> Odd(n)
        /\ Odd(n) => i > 1
    <3>1. /\ i % 2 = 1 <=> Odd(i)
          /\ i % 2 = 0 <=> ~Odd(i)
      BY <2>1, Parity
    <3>2. Odd(n + 1) <=> ~Odd(n)
      BY <1>2, Parity
    <3>3. Odd(i) <=> ~Odd(n)
      BY <1>6, <3>2, Zenon
    <3>4. Odd(n) => n > 0
      BY <1>2, Parity
    <3>5. n > 0 => i > 1
      BY <1>2, <1>6
    <3>6. QED
      BY <3>1, <3>3, <3>4, <3>5
  <2>3. /\ written'[o][i] = p /\ Len(written'[o]) = n + 1
        /\ i > 1 => written'[o][i - 1] = written[o][n]
    BY <1>1, <1>6, <2>1
  <2>4. QED
    BY <1>2, <1>6, <2>1, <2>2, <2>3 DEF Fits
<1>7. QED
  BY <1>1, <1>2, <1>4, <1>5, <1>6

\* The time of a line follows whole lines, none of them later.
LEMMA WriteTimeStep ==
  ASSUME IInv, NEW t \in Threads, WriteTime(t)
  PROVE  IInv'
<1> DEFINE n == Len(written[output_])
           p == [number |-> call[t].number, part |-> "time", time |-> tm]
<1> USE DEF IInv
<1>1. /\ fate = "running" /\ Write(p)
      /\ UNCHANGED <<level_, output_, mutex_, clock, calls, fate, tm>>
  BY DEF WriteTime, Goes
<1>2. /\ call' \in [Threads -> Call]
      /\ call'[t].stage = "text" /\ call'[t].number = call[t].number
      /\ call[t].stage = "time" /\ call[t].number \in 1..MaxCalls
      /\ \A s \in Threads : s # t => call'[s] = call[s]
  BY GoesOn DEF WriteTime, Stage
<1>3. mutex_ = t /\ t # NoThread
  BY <1>2, LoggingAssumption DEF TypeOK
<1>4. Timing /\ ~Writing /\ ~Timing' /\ Writing'
  BY <1>1, <1>2, <1>3 DEF Timing, Writing
<1>5. output_ \in Outputs /\ n \in Nat /\ DOMAIN written[output_] = 1..n
  BY Pieces DEF TypeOK
<1>6. tm \in 0..MaxTime /\ tm <= clock
  BY LoggingAssumption DEF TypeOK
<1>7. p \in Piece
  BY <1>2, <1>6 DEF Piece
<1>8. ~Odd(n) /\ Odd(n + 1)
  BY <1>1, <1>4, <1>5, Parity DEF OneUnfinished
<1>9. /\ written' \in [Outputs -> Seq(Piece)]
      /\ \A o \in Outputs : o # output_ => written'[o] = written[o]
      /\ Len(written'[output_]) = n + 1
      /\ DOMAIN written'[output_] = 1..(n + 1)
      /\ written'[output_][n + 1] = p
      /\ \A i \in DOMAIN written[output_] :
           i \in DOMAIN written'[output_]
             /\ written'[output_][i] = written[output_][i]
  BY <1>1, <1>7, Written
<1>10. p.part = "time" /\ p.time = tm /\ p.number = call[t].number
  OBVIOUS
<1> HIDE DEF p
<1>11. LinesWhole'
  <2>1. n > 0 => written[output_][n].time <= p.time
    BY <1>1, <1>4, <1>5, <1>10 DEF NoneLater
  <2>2. Fits(p, n)
    BY <1>5, <1>8, <1>10, <2>1 DEF Fits
  <2> HIDE DEF IInv
  <2>3. QED
    BY <1>1, <1>3, <2>2, <1>7, WrittenKeeps
<1>12. Shape'
  BY <1>2, <1>9 DEF Shape
<1>13. TypeOK'
  <2>1. ASSUME NEW s \in Threads
        PROVE  /\ call'[s].stage \in Stage
               /\ call'[s].stage \in {"locked", "time", "text"} <=> mutex_' = s
    BY <1>1, <1>2, <1>3 DEF TypeOK, Stage
  <2>2. QED
    BY <1>1, <1>9, <2>1 DEF TypeOK, Stage
<1> HIDE DEF n
<1>14. OneUnfinished'
  <2>1. \A o \in Outputs : o # output_ => ~Odd(Len(written'[o]))
    BY <1>1, <1>9 DEF OneUnfinished
  <2>2. Newest(output_)' = p
    BY <1>1, <1>9 DEF Newest
  <2>3. Odd(Len(written'[output_]))
    BY <1>8, <1>9
  <2>4. QED
    BY <1>1, <1>2, <1>3, <1>4, <1>10, <2>1, <2>2, <2>3 DEF OneUnfinished
<1>15. NoneLater'
  <2>1. \A i \in DOMAIN written'[output_] :
          i = n + 1 \/ i \in DOMAIN written[output_]
    BY <1>5, <1>9
  <2>2. QED
    BY <1>1, <1>4, <1>6, <1>9, <1>10, <2>1 DEF NoneLater
<1>16. QED
  BY <1>11, <1>12, <1>13, <1>14, <1>15

\* The text completes the line, and the lock is released.
LEMMA WriteTextStep ==
  ASSUME IInv, NEW t \in Threads, WriteText(t)
  PROVE  IInv'
<1> DEFINE n == Len(written[output_])
           p == [number |-> call[t].number, part |-> "text", time |-> clock]
<1> USE DEF IInv
<1>1. /\ fate = "running" /\ Write(p) /\ mutex_' = NoThread
      /\ call[t].stage = "text" /\ call' = [call EXCEPT ![t] = Idle]
      /\ UNCHANGED <<level_, output_, clock, calls, fate, tm>>
  BY DEF WriteText
<1>2. mutex_ = t /\ t # NoThread
  BY <1>1, LoggingAssumption DEF TypeOK
<1>3. call[t].number \in 1..MaxCalls /\ Idle \in Call /\ Idle.stage = "idle"
  BY <1>1, LoggingAssumption DEF Shape, Call, Idle, Stage
<1>4. Writing /\ ~Writing' /\ ~Timing'
  BY <1>1, <1>2 DEF Timing, Writing
<1>5. output_ \in Outputs /\ n \in Nat /\ DOMAIN written[output_] = 1..n
  BY Pieces DEF TypeOK
<1>6. clock \in 0..MaxTime /\ clock <= clock
  BY LoggingAssumption DEF TypeOK
<1>7. p \in Piece
  BY <1>3, <1>6 DEF Piece
<1>8. Odd(n) /\ ~Odd(n + 1) /\ n > 0
  <2>1. Odd(n)
    BY <1>1, <1>4, <1>5 DEF OneUnfinished
  <2>2. QED
    BY <1>5, <2>1, Parity
<1>9. /\ written' \in [Outputs -> Seq(Piece)]
      /\ \A o \in Outputs : o # output_ => written'[o] = written[o]
      /\ Len(written'[output_]) = n + 1
      /\ DOMAIN written'[output_] = 1..(n + 1)
      /\ written'[output_][n + 1] = p
      /\ \A i \in DOMAIN written[output_] :
           i \in DOMAIN written'[output_]
             /\ written'[output_][i] = written[output_][i]
  BY <1>1, <1>7, Written
<1>10. p.part = "text" /\ p.time = clock /\ p.number = call[t].number
  OBVIOUS
<1> HIDE DEF p
<1>11. LinesWhole'
  <2>1. written[output_][n].time <= p.time
    BY <1>1, <1>5, <1>8, <1>10 DEF NoneLater
  <2>2. p.number = written[output_][n].number
    BY <1>1, <1>2, <1>4, <1>10 DEF OneUnfinished, Newest
  <2>3. Fits(p, n)
    BY <1>5, <1>8, <1>10, <2>1, <2>2 DEF Fits
  <2> HIDE DEF IInv
  <2>4. QED
    BY <1>1, <1>5, <1>7, <1>8, <2>3, WrittenKeeps
<1>12. /\ call' \in [Threads -> Call] /\ call'[t] = Idle
       /\ \A s \in Threads : s # t => call'[s] = call[s]
  BY <1>1, <1>3 DEF Shape
<1>13. Shape'
  BY <1>3, <1>9, <1>12 DEF Shape
<1>14. TypeOK'
  <2>1. ASSUME NEW s \in Threads
        PROVE  /\ call'[s].stage \in Stage
               /\ call'[s].stage \in {"locked", "time", "text"} <=> mutex_' = s
    BY <1>1, <1>2, <1>3, <1>12, LoggingAssumption DEF TypeOK, Stage
  <2>2. QED
    BY <1>1, <1>9, <2>1 DEF TypeOK, Stage
<1> HIDE DEF n
<1>15. OneUnfinished'
  <2>1. \A o \in Outputs : o # output_ => ~Odd(Len(written'[o]))
    BY <1>1, <1>9 DEF OneUnfinished
  <2>2. ~Odd(Len(written'[output_]))
    BY <1>8, <1>9
  <2>3. QED
    BY <1>1, <1>4, <2>1, <2>2 DEF OneUnfinished
<1>16. NoneLater'
  <2>1. \A i \in DOMAIN written'[output_] :
          i = n + 1 \/ i \in DOMAIN written[output_]
    BY <1>5, <1>9
  <2>2. QED
    BY <1>1, <1>4, <1>6, <1>9, <1>10, <2>1 DEF NoneLater
<1>17. QED
  BY <1>11, <1>13, <1>14, <1>15, <1>16

LEMMA NextIInv == IInv /\ [Next]_vars => IInv'
<1> SUFFICES ASSUME IInv, [Next]_vars PROVE IInv'
  OBVIOUS
<1>1. CASE UNCHANGED vars
  BY <1>1 DEF vars, IInv, TypeOK, Shape, LinesWhole, OneUnfinished, NoneLater,
              Writing, Timing, Newest
<1>2. CASE \/ \E level \in Levels : Threshold(level)
           \/ \E o \in Outputs : Output(o)
           \/ Tick
           \/ \E t \in Threads, level \in Levels : Log(t, level)
  BY <1>2, AsideSteps
<1>3. CASE \E t \in Threads :
             Acquire(t) \/ TakeTime(t) \/ WriteTime(t) \/ WriteText(t)
  BY <1>3, AcquireStep, TakeTimeStep, WriteTimeStep, WriteTextStep
<1>4. QED
  BY <1>1, <1>2, <1>3 DEF Next

\* The invariant from which the next two are concluded.
THEOREM Invariance == Spec => []IInv
<1>1. Init => IInv
  BY InitIInv
<1>2. IInv /\ [Next]_vars => IInv'
  BY NextIInv
<1>3. QED
  BY <1>1, <1>2, PTL DEF Spec

\* The variables have their types; a thread is at its line exactly while it
\* holds the lock.
THEOREM TypeCorrect == Spec => []TypeOK
<1>1. IInv => TypeOK
  BY DEF IInv
<1>2. QED
  BY <1>1, Invariance, PTL

\* The lines of different threads never mix, and are in the order of their
\* times.
THEOREM WholeLines == Spec => []LinesWhole
<1>1. IInv => LinesWhole
  BY DEF IInv
<1>2. QED
  BY <1>1, Invariance, PTL

-----------------------------------------------------------------------------
(***************************************************************************)
(* detail::buildTag                                                        *)
(***************************************************************************)

Blank == " "

\* What TagsLineUp asks of a built tag; n is the length of the tag.
LinesUp(built, tag, n) ==
  LET left == (TagLength - n) \div 2
      kept == TagLength - 3
  IN /\ Len(built) = TagLength
     /\ n <= TagLength =>
          \A i \in DOMAIN built :
            /\ i - left \in DOMAIN tag => built[i] = tag[i - left]
            /\ i - left \notin DOMAIN tag => built[i] = Blank
     /\ n > TagLength =>
          \A i \in 1..kept : built[3 + i] = tag[n - kept + i]

Shown(S) == S \cup {Blank, "."}

LEMMA BlanksType ==
  ASSUME NEW n \in Nat, NEW S
  PROVE  /\ Blanks(n) \in Seq(Shown(S)) /\ Len(Blanks(n)) = n
         /\ \A i \in 1..n : Blanks(n)[i] = Blank
<1>1. Blanks(n) \in [1..n -> Shown(S)]
  BY DEF Blanks, Shown, Blank
<1>2. Blanks(n) \in Seq(Shown(S))
  BY <1>1, SeqDef
<1>3. Len(Blanks(n)) \in Nat /\ 1..Len(Blanks(n)) = 1..n
  BY <1>1, <1>2
<1>4. ASSUME NEW k \in Nat, 1..k = 1..n PROVE k = n
  <2>1. \A i \in Nat : i \in 1..k <=> i \in 1..n
    BY <1>4
  <2>2. (k \in 1..k <=> k \in 1..n) /\ (n \in 1..k <=> n \in 1..n)
    BY <2>1
  <2>3. QED
    BY <2>2
<1>5. QED
  BY <1>2, <1>3, <1>4 DEF Blanks, Blank

LEMMA ThreeInARow ==
  ASSUME NEW S, NEW a \in Seq(S), NEW b \in Seq(S), NEW c \in Seq(S)
  PROVE  /\ Len(a \o b \o c) = Len(a) + Len(b) + Len(c)
         /\ \A i \in 1..Len(a) + Len(b) + Len(c) :
              (a \o b \o c)[i] =
                IF i <= Len(a) THEN a[i]
                ELSE IF i <= Len(a) + Len(b) THEN b[i - Len(a)]
                ELSE c[i - Len(a) - Len(b)]
OBVIOUS

LEMMA BuiltTagsLineUp ==
  ASSUME NEW S, NEW tag \in Seq(S)
  PROVE  LinesUp(BuildTag(tag), tag, Len(tag))
<1> DEFINE n == Len(tag)
<1>1. TagLength \in Nat /\ TagLength >= 3 /\ n \in Nat
  BY LoggingAssumption
<1>2. tag \in Seq(Shown(S))
  BY SeqMonotonic DEF Shown
<1>3. DOMAIN tag = 1..n
  OBVIOUS
<1>4. /\ n = TagLength => BuildTag(tag) = tag
      /\ n < TagLength =>
           BuildTag(tag) = Blanks((TagLength - n) \div 2) \o tag
             \o Blanks(TagLength - n - (TagLength - n) \div 2)
      /\ n > TagLength =>
           BuildTag(tag) = <<".", ".", ".">> \o
             SubSeq(tag, 4 - (TagLength - n), n)
  <2> HIDE DEF n
  <2>1. /\ n = TagLength => ~(n < TagLength) /\ ~(n > TagLength)
        /\ n < TagLength => n # TagLength /\ ~(n > TagLength)
        /\ n > TagLength => n # TagLength /\ ~(n < TagLength)
    BY <1>1
  <2>2. QED
    BY <2>1, Zenon DEF BuildTag, n
<1>5. /\ \A i \in 1..n : tag[i] \in Shown(S)
      /\ \A a, c \in Seq(Shown(S)) :
           /\ Len(a \o tag \o c) = Len(a) + n + Len(c)
           /\ DOMAIN (a \o tag \o c) = 1..(Len(a) + n + Len(c))
           /\ \A i \in 1..Len(a) + n + Len(c) :
                (a \o tag \o c)[i] =
                  IF i <= Len(a) THEN a[i]
                  ELSE IF i <= Len(a) + n THEN tag[i - Len(a)]
                  ELSE c[i - Len(a) - n]
  BY <1>2, ThreeInARow
<1> SUFFICES LinesUp(BuildTag(tag), tag, n)
  OBVIOUS
<1>6. \A m \in 1..(n + 1) :
        /\ SubSeq(tag, m, n) \in Seq(Shown(S))
        /\ Len(SubSeq(tag, m, n)) = n - m + 1
        /\ \A i \in 1..(n - m + 1) : SubSeq(tag, m, n)[i] = tag[m + i - 1]
  BY <1>2
<1> HIDE DEF n
<1>7. CASE n = TagLength
  <2>1. (TagLength - n) \div 2 = 0
    BY <1>1, <1>7
  <2>2. \A i \in 1..n : i - 0 = i
    BY <1>1
  <2>3. Len(tag) = TagLength
    BY <1>7 DEF n
  <2>4. QED
    BY <1>1, <1>3, <1>4, <1>7, <2>1, <2>2, <2>3 DEF LinesUp
<1>8. CASE n < TagLength
  <2> DEFINE left == (TagLength - n) \div 2
             right == TagLength - n - left
             a == Blanks(left)
             c == Blanks(right)
             built == a \o tag \o c
  <2>1. left \in Nat /\ right \in Nat /\ left + n + right = TagLength
    BY <1>1, <1>8
  <2>2. BuildTag(tag) = built
    BY <1>4, <1>8
  <2>3. /\ a \in Seq(Shown(S)) /\ Len(a) = left
        /\ c \in Seq(Shown(S)) /\ Len(c) = right
    BY <2>1, BlanksType
  <2>4. /\ \A i \in 1..left : a[i] = Blank
        /\ \A i \in 1..right : c[i] = Blank
    BY <2>1, BlanksType
  <2> HIDE DEF a, c, left, right
  <2>5. /\ Len(built) = left + n + right
        /\ DOMAIN built = 1..(left + n + right)
    BY <1>5, <2>3
  <2>6. \A i \in 1..left + n + right :
          built[i] = IF i <= left THEN a[i]
                     ELSE IF i <= left + n THEN tag[i - left]
                     ELSE c[i - left - n]
    BY <1>5, <2>3
  <2> HIDE DEF built
  <2>7. Len(built) = TagLength
    BY <2>1, <2>5
  <2>8. DOMAIN built = 1..TagLength
    BY <2>1, <2>5
  <2>9. ASSUME NEW i \in 1..TagLength
        PROVE  /\ i - left \in 1..n => built[i] = tag[i - left]
               /\ i - left \notin 1..n => built[i] = Blank
    <3>1. i \in 1..left + n + right /\ i \in Nat
      BY <1>1, <2>1
    <3>2. CASE i <= left
      <4>1. i \in 1..left /\ i - left \notin 1..n
        BY <1>1, <2>1, <3>1, <3>2
      <4>2. QED
        BY <2>4, <2>6, <3>1, <3>2, <4>1
    <3>3. CASE i > left /\ i <= left + n
      <4>1. ~(i <= left) /\ i - left \in 1..n
        BY <1>1, <2>1, <3>1, <3>3
      <4>2. QED
        BY <2>6, <3>1, <3>3, <4>1
    <3>4. CASE i > left + n
      <4>1. /\ ~(i <= left) /\ ~(i <= left + n)
            /\ i - left - n \in 1..right /\ i - left \notin 1..n
        BY <1>1, <2>1, <3>1, <3>4
      <4>2. QED
        BY <2>4, <2>6, <3>1, <4>1
    <3>5. QED
      BY <1>1, <2>1, <3>1, <3>2, <3>3, <3>4
  <2>10. QED
    BY <1>1, <1>3, <1>8, <2>2, <2>7, <2>8, <2>9 DEF LinesUp, left
<1>9. CASE n > TagLength
  <2> DEFINE kept == TagLength - 3
             from == 4 - (TagLength - n)
             dots == <<".", ".", ".">>
             rest == SubSeq(tag, from, n)
  <2>1. /\ from \in 1..(n + 1) /\ kept \in Nat
        /\ n - from + 1 = kept
        /\ \A i \in 1..kept : from + i - 1 = n - kept + i
    BY <1>1, <1>9
  <2>2. BuildTag(tag) = dots \o rest
    BY <1>4, <1>9
  <2> HIDE DEF from
  <2>3. /\ rest \in Seq(Shown(S)) /\ Len(rest) = kept
        /\ \A i \in 1..kept : rest[i] = tag[n - kept + i]
    <3>1. /\ rest \in Seq(Shown(S))
          /\ Len(rest) = n - from + 1
          /\ \A i \in 1..(n - from + 1) : rest[i] = tag[from + i - 1]
      BY <1>6, <2>1, Zenon
    <3> HIDE DEF rest, kept
    <3>2. QED
      BY <2>1, <3>1
  <2>4. dots \in Seq(Shown(S)) /\ Len(dots) = 3
    BY DEF Shown
  <2> HIDE DEF rest, dots, kept
  <2>5. /\ Len(dots \o rest) = 3 + kept
        /\ \A i \in 1..3 + kept :
             (dots \o rest)[i] = IF i <= 3 THEN dots[i] ELSE rest[i - 3]
    <3>1. /\ Len(dots \o rest) = Len(dots) + Len(rest)
          /\ \A i \in 1..Len(dots) + Len(rest) :
               (dots \o rest)[i] =
                 IF i <= Len(dots) THEN dots[i] ELSE rest[i - Len(dots)]
      <4>1. dots \in Seq(Shown(S)) /\ rest \in Seq(Shown(S))
        BY <2>3, <2>4
      <4>2. QED
        BY <4>1, ConcatProperties
    <3>2. Len(dots) = 3 /\ Len(rest) = kept
      BY <2>3, <2>4
    <3>3. QED
      BY <3>1, <3>2
  <2>6. ASSUME NEW i \in 1..kept
        PROVE  (dots \o rest)[3 + i] = tag[n - kept + i]
    <3>1. 3 + i \in 1..3 + kept /\ ~(3 + i <= 3) /\ (3 + i) - 3 = i
      BY <2>1
    <3>2. (dots \o rest)[3 + i] = rest[i]
      BY <2>5, <3>1
    <3>3. QED
      BY <2>3, <3>2
  <2>7. 3 + kept = TagLength /\ ~(n <= TagLength)
    BY <1>1, <1>9 DEF kept
  <2>8. QED
    BY <1>9, <2>2, <2>5, <2>6, <2>7 DEF LinesUp, kept
<1>10. QED
  BY <1>1, <1>7, <1>8, <1>9

\* All tags take the same space: short ones whole and centred, of long ones the
\* end is kept.
THEOREM LoggersLineUp == Spec => []TagsLineUp
<1> DEFINE Built == tag_ = [tag \in Tags |-> BuildTag(tag)]
<1>1. Init => Built
  BY DEF Init
<1>2. Built /\ [Next]_vars => Built'
  BY DEF vars, Next, Threshold, Output, Tick, Log, Acquire, TakeTime,
         WriteTime, WriteText, Goes
<1>3. Built => TagsLineUp
  <2>1. SUFFICES ASSUME Built, NEW tag \in Tags
                 PROVE  LinesUp(tag_[tag], tag, Len(tag))
    BY Zenon DEF TagsLineUp, LinesUp, Blank
  <2>2. tag_[tag] = BuildTag(tag)
    BY <2>1
  <2>3. QED
    BY <2>2, BuiltTagsLineUp, LoggingAssumption
<1>4. QED
  BY <1>1, <1>2, <1>3, PTL DEF Spec
==============================================================================
