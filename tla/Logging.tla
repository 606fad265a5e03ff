------------------------------- MODULE Logging -------------------------------
(***************************************************************************)
(* Logger (logging.hpp, logging.cpp): static members that all loggers of   *)
(* the process share, used from any thread.  log() asks for the threshold  *)
(* without a lock and writes its line with one, in several pieces; the     *)
(* time is taken while the line is written, into the buffer of localtime() *)
(* which the whole process shares.                                         *)
(*                                                                         *)
(* threshold() and output() take no lock.  A pointer is read and written   *)
(* as a whole, so a racing threshold() counts for a call or does not; a    *)
(* racing output() has no defined behaviour: the model stops there.        *)
(***************************************************************************)
EXTENDS Integers, Sequences, FiniteSets

CONSTANTS
  Threads, NoThread,
  Levels,      \* the levels in use, out of 0..3, the lower the more severe
  Outputs,     \* the streams output() is called with
  Tags,        \* the tags of the loggers, sequences of characters
  TagLength,   \* tagLength
  MaxCalls,    \* bound: calls of log()
  MaxTime      \* bound: the clock

ASSUME LoggingAssumption ==
  /\ NoThread \notin Threads
  /\ Levels \subseteq 0..3
  /\ \A tag \in Tags : tag \in Seq(STRING)
  /\ TagLength \in Nat /\ TagLength >= 3
  /\ MaxCalls \in Nat /\ MaxTime \in Nat

Idle == [stage |-> "idle", number |-> 0]

VARIABLES
  level_,   \* level_->level
  output_,  \* *output_
  tag_,     \* the tag_ of each logger
  mutex_,   \* the thread that holds mutex_, or NoThread
  call,     \* the call of log() each thread is in: "waiting" for the mutex,
            \*   "locked", about to write its "time", its "text"
  written,  \* the pieces in each stream
  clock,    \* the time
  tm,       \* the static buffer of localtime()
  calls,    \* history: calls of log() that passed is()
  fate      \* "running", or "undefined" after a race of output()

vars ==
  <<level_, output_, tag_, mutex_, call, written, clock, tm, calls, fate>>

-----------------------------------------------------------------------------

Blanks(n) == [i \in 1..n |-> " "]

\* Seeded fault: half of the blanks on either side.
BuildTagHalved(tag) ==
  LET blanks == TagLength - Len(tag)
  IN CASE Len(tag) = TagLength -> tag
       [] Len(tag) < TagLength ->
            Blanks(blanks \div 2) \o tag \o Blanks(blanks \div 2)
       [] Len(tag) > TagLength ->
            <<".", ".", ".">> \o SubSeq(tag, 4 - blanks, Len(tag))

\* detail::buildTag: centred, or the end of it.
BuildTag(tag) ==
  LET blanks == TagLength - Len(tag)
  IN CASE Len(tag) = TagLength -> tag
       [] Len(tag) < TagLength ->
            Blanks(blanks \div 2) \o tag \o Blanks(blanks - blanks \div 2)
       [] Len(tag) > TagLength ->
            <<".", ".", ".">> \o SubSeq(tag, 4 - blanks, Len(tag))

\* All loggers of the library are static.
Init ==
  /\ level_ = 1
  /\ output_ \in Outputs
  /\ tag_ = [tag \in Tags |-> BuildTag(tag)]
  /\ mutex_ = NoThread
  /\ call = [t \in Threads |-> Idle]
  /\ written = [o \in Outputs |-> <<>>]
  /\ clock = 0
  /\ tm = 0
  /\ calls = 0
  /\ fate = "running"

\* threshold()
Threshold(level) ==
  /\ fate = "running"
  /\ level_' = level
  /\ UNCHANGED <<output_, tag_, mutex_, call, written, clock, tm, calls, fate>>

\* output(): the stream that was replaced may be gone.
Output(o) ==
  /\ fate = "running"
  /\ output_' = o
  /\ fate' = IF mutex_ = NoThread THEN "running" ELSE "undefined"
  /\ UNCHANGED <<level_, tag_, mutex_, call, written, clock, tm, calls>>

Tick ==
  /\ fate = "running"
  /\ clock < MaxTime
  /\ clock' = clock + 1
  /\ UNCHANGED <<level_, output_, tag_, mutex_, call, written, tm, calls,
                 fate>>

\* debug(), info(), warning() or error(), when is() says yes.
Log(t, level) ==
  /\ fate = "running"
  /\ call[t] = Idle
  /\ level_ >= level
  /\ calls < MaxCalls
  /\ calls' = calls + 1
  /\ call' = [call EXCEPT ![t] =
                [stage |-> "waiting", number |-> calls + 1]]
  /\ UNCHANGED <<level_, output_, tag_, mutex_, written, clock, tm, fate>>

Goes(t, from, to) ==
  /\ fate = "running"
  /\ call[t].stage = from
  /\ call' = [call EXCEPT ![t].stage = to]
  /\ UNCHANGED <<level_, output_, tag_, clock, calls, fate>>

\* Seeded fault: the line is written without the lock.
AcquireNothing(t) ==
  Goes(t, "waiting", "locked") /\ UNCHANGED <<mutex_, written, tm>>

Acquire(t) ==
  /\ mutex_ = NoThread
  /\ mutex_' = t
  /\ Goes(t, "waiting", "locked")
  /\ UNCHANGED <<written, tm>>

\* logTimestamp() up to localtime().
TakeTime(t) ==
  /\ Goes(t, "locked", "time")
  /\ tm' = clock
  /\ UNCHANGED <<mutex_, written>>

Write(piece) == written' = [written EXCEPT ![output_] = Append(@, piece)]

\* The rest of it.
WriteTime(t) ==
  /\ Goes(t, "time", "text")
  /\ Write([number |-> call[t].number, part |-> "time", time |-> tm])
  /\ UNCHANGED <<mutex_, tm>>

\* Seeded fault: the mutex is not released.
WriteTextKeepsLock(t) ==
  /\ call[t].stage = "text"
  /\ fate = "running"
  /\ call' = [call EXCEPT ![t] = Idle]
  /\ Write([number |-> call[t].number, part |-> "text", time |-> clock])
  /\ UNCHANGED <<level_, output_, tag_, mutex_, clock, tm, calls, fate>>

\* Process, tag, level and message up to endl; the lock goes out of scope.
WriteText(t) ==
  /\ call[t].stage = "text"
  /\ fate = "running"
  /\ call' = [call EXCEPT ![t] = Idle]
  /\ Write([number |-> call[t].number, part |-> "text", time |-> clock])
  /\ mutex_' = NoThread
  /\ UNCHANGED <<level_, output_, tag_, clock, tm, calls, fate>>

Next ==
  \/ \E level \in Levels : Threshold(level)
  \/ \E o \in Outputs : Output(o)
  \/ Tick
  \/ \E t \in Threads :
       \/ \E level \in Levels : Log(t, level)
       \/ Acquire(t) \/ TakeTime(t) \/ WriteTime(t) \/ WriteText(t)

Spec == Init /\ [][Next]_vars

\* Every thread runs on.
Fairness ==
  \A t \in Threads :
    WF_vars(Acquire(t) \/ TakeTime(t) \/ WriteTime(t) \/ WriteText(t))

FairSpec == Spec /\ Fairness

-----------------------------------------------------------------------------
(***************************************************************************)
(* Properties                                                              *)
(***************************************************************************)

Piece == [number : 1..MaxCalls, part : {"time", "text"}, time : 0..MaxTime]

\* The types of the variables, and of the lines.
TypeOK ==
  /\ level_ \in 0..3
  /\ output_ \in Outputs
  /\ mutex_ \in Threads \cup {NoThread}
  /\ \A t \in Threads :
       /\ call[t].stage \in {"idle", "waiting", "locked", "time", "text"}
       /\ call[t].stage \in {"locked", "time", "text"} <=> mutex_ = t
  /\ \A o \in Outputs : written[o] \in Seq(Piece)
  /\ tm \in 0..clock /\ clock \in 0..MaxTime
  /\ calls \in 0..MaxCalls
  /\ fate \in {"running", "undefined"}

\* The lines of two threads never mix, although all threads share the buffer
\* the time is taken to: what follows the time of a line is its own text, only
\* a line that is being written lacks it, and the lines are in the order of
\* their times.
LinesWhole ==
  \A o \in Outputs : \A i \in DOMAIN written[o] :
    /\ written[o][i].part = IF i % 2 = 1 THEN "time" ELSE "text"
    /\ i % 2 = 0 => written[o][i].number = written[o][i - 1].number
    /\ i % 2 = 1 /\ i = Len(written[o]) =>
         mutex_ # NoThread \/ fate = "undefined"
    /\ i > 1 => written[o][i - 1].time <= written[o][i].time

\* A call that passed the threshold ends, and it wrote one line.
EveryCallLogged ==
  \A n \in 1..MaxCalls :
    calls >= n ~>
      \/ Cardinality({p \in Outputs \X (1..2 * MaxCalls) :
                        /\ p[2] \in DOMAIN written[p[1]]
                        /\ written[p[1]][p[2]].number = n}) = 2
      \/ fate = "undefined"

\* The tags of all loggers take the same space (buildTag): a short one is
\* there whole, in the middle, and of a long one at least the end.
TagsLineUp ==
  \A tag \in Tags :
    LET built == tag_[tag]
        left  == (TagLength - Len(tag)) \div 2
        kept  == TagLength - 3
    IN /\ Len(built) = TagLength
       /\ Len(tag) <= TagLength =>
            \A i \in DOMAIN built :
              built[i] = IF i - left \in DOMAIN tag THEN tag[i - left] ELSE " "
       /\ Len(tag) > TagLength =>
            \A i \in 1..kept : built[3 + i] = tag[Len(tag) - kept + i]
=============================================================================
