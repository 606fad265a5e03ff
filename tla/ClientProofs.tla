----------------------------- MODULE ClientProofs -----------------------------
(***************************************************************************)
(* Proofs about Client, for every number of requests and messages: its     *)
(* type invariant and safety invariants, and that it keeps the promise     *)
(* that Service relies on (ClientPromise).                                 *)
(***************************************************************************)
EXTENDS Client, SequenceTheorems, FiniteSetTheorems, FunctionTheorems,
        TLAPS

\* The client is of no use any more: dropped in the error handler, or closed.
Over == ~alive \/ closing = "done"

\* A completion that changes nothing but by a timeout.
Quiet(c) == c.op.kind = "timer" \/ c.result = "aborted"

\* Nothing is started any more once the client is dropped or closed, and what
\* a closed client still has to run is quiet.
OverIsOver ==
  /\ Over => /\ ops = {} /\ ~connected_
             /\ pending_ = None /\ outstanding = None
  /\ alive /\ closing = "done" => \A i \in DOMAIN ready : Quiet(ready[i])

\* Until the handshake is done there is nothing else, afterwards no dial.
DialFirst ==
  /\ ~Over /\ ~connected_ =>
       /\ closing = "no" /\ pending_ = None /\ outstanding = None
       /\ \A o \in Unfinished : o = DialOp
  /\ ~Over /\ connected_ => DialOp \notin Unfinished

\* The owner's request is the last one that was sent, and pending_ is that.
LastIsOutstanding ==
  /\ outstanding \in {None, lastCallbackId_}
  /\ pending_ \in {None, outstanding}
  /\ \A i \in DOMAIN answered :
       /\ answered[i].request <= lastCallbackId_
       /\ outstanding # None => answered[i].request < outstanding

\* Only the outstanding request is being written, and it is not pending yet.
WriteIsOutstanding ==
  ~Over => \A o \in Unfinished :
             o.kind = "write" => o.id = outstanding /\ pending_ = None

\* A dial, a write or a closing handshake is in flight or completed, once.
Single(o) == o.kind \in {"dial", "write", "close"}
Once ==
  ~Over =>
    /\ \A i \in DOMAIN ready : Single(ready[i].op) => ready[i].op \notin ops
    /\ \A i, j \in DOMAIN ready :
         Single(ready[i].op) /\ ready[i].op = ready[j].op => i = j

\* There is one read at a time, which is in flight or completed.
OneRead ==
  ~Over =>
    /\ \A i \in DOMAIN ready : ready[i].op = ReadOp => ReadOp \notin ops
    /\ \A i, j \in DOMAIN ready :
         ready[i].op = ReadOp /\ ready[j].op = ReadOp => i = j

\* close() is asked for before its handshake, and what completes after it, or
\* is still in flight then, is quiet or a read.
CloseLast ==
  ~Over =>
    /\ closing = "no" => CloseOp \notin Unfinished
    /\ \A i \in DOMAIN ready : ready[i].op = CloseOp =>
         /\ \A o \in ops : ~Single(o)
         /\ \A j \in DOMAIN ready : i < j => Quiet(ready[j])

\* While the client is of use, timers are aborted, the read that the closing
\* handshake cancels, and a close() that comes after an error.
AbortedTimers ==
  ~Over => \A i \in DOMAIN ready : ready[i].result = "aborted" =>
             \/ ready[i].op.kind = "timer"
             \/ /\ ready[i].op = ReadOp
                /\ \E j \in DOMAIN ready : j < i /\ ready[j].op = CloseOp
             \/ /\ ready[i].op = CloseOp
                /\ \E j \in DOMAIN ready : j < i /\ ready[j].result = "error"

Control ==
  /\ OverIsOver
  /\ DialFirst
  /\ LastIsOutstanding
  /\ WriteIsOutstanding
  /\ Once
  /\ OneRead
  /\ CloseLast
  /\ AbortedTimers
  /\ CallbackMatches
  /\ PendingIsTimed

IInv == TypeOK /\ IsFiniteSet(ops) /\ Control

-----------------------------------------------------------------------------
(***************************************************************************)
(* Facts about operations and completions.                                 *)
(***************************************************************************)

LEMMA OpFacts ==
  /\ DialOp \in Op /\ ReadOp \in Op /\ CloseOp \in Op
  /\ \A n \in CallbackId : WriteOp(n) \in Op /\ TimerOp(n) \in Op
  /\ \A o \in Op : o.kind \in {"dial", "read", "write", "close", "timer"}
  /\ \A o \in Op : o.kind = "dial" <=> o = DialOp
  /\ \A o \in Op : o.kind = "read" <=> o = ReadOp
  /\ \A o \in Op : o.kind = "close" <=> o = CloseOp
  /\ \A o \in Op : o.kind = "write" =>
       o.id \in CallbackId /\ o = WriteOp(o.id)
  /\ \A o \in Op : o.kind = "timer" =>
       o.id \in CallbackId /\ o = TimerOp(o.id)
BY DEF Op, DialOp, ReadOp, CloseOp, WriteOp, TimerOp

LEMMA CompletedType ==
  ASSUME NEW o \in Op, NEW r \in {"ok", "error", "aborted"}
  PROVE  /\ Completed(o, r) \in Completion
         /\ Completed(o, r).op = o /\ Completed(o, r).result = r
BY DEF Completed, Completion, NoMessage, Message

LEMMA IdFacts == /\ CallbackId \subseteq Nat \ {None}
                 /\ None \in Nat /\ NoMessage \in Message
BY ClientAssumption DEF CallbackId, None, NoMessage, Message

\* SetToSeq() of a finite set is a sequence of its elements.
LEMMA SetToSeqType ==
  ASSUME NEW S, IsFiniteSet(S)
  PROVE  SetToSeq(S) \in Seq(S)
<1>1. PICK f : f \in Bijection(1..Cardinality(S), S)
  BY FS_CardinalityType DEF ExistsBijection
<1>2. f \in [1..Cardinality(S) -> S] /\ IsInjective(f)
  BY <1>1 DEF Bijection, Injection
<1>3. SetToSeq(S) \in [1..Cardinality(S) -> S]
  BY <1>2 DEF SetToSeq
<1>4. Cardinality(S) \in Nat
  BY FS_CardinalityType
<1>5. QED
  BY <1>3, <1>4, SeqDef

LEMMA AbortedType ==
  ASSUME NEW cancelled \in SUBSET Op, IsFiniteSet(cancelled)
  PROVE  /\ Aborted(cancelled) \in Seq(Completion)
         /\ \A i \in 1..Len(Aborted(cancelled)) :
              \E o \in cancelled :
                Aborted(cancelled)[i] = Completed(o, "aborted")
<1> DEFINE T == {Completed(o, "aborted") : o \in cancelled}
           f == [o \in cancelled |-> Completed(o, "aborted")]
<1>1. f \in Bijection(cancelled, T)
  <2>1. f \in [cancelled -> T] /\ \A t \in T : \E o \in cancelled : f[o] = t
    OBVIOUS
  <2>2. \A a, b \in cancelled : f[a] = f[b] => a = b
    BY CompletedType
  <2> HIDE DEF f, T
  <2>3. QED
    BY <2>1, <2>2, Fun_IsBij
<1>2. IsFiniteSet(T)
  BY <1>1, FS_Bijection DEF ExistsBijection
<1>3. T \subseteq Completion
  BY CompletedType
<1>4. Aborted(cancelled) \in Seq(T)
  BY <1>2, SetToSeqType DEF Aborted
<1>5. Aborted(cancelled) \in Seq(Completion)
  BY <1>3, <1>4, SeqMonotonic
<1>6. \A i \in 1..Len(Aborted(cancelled)) : Aborted(cancelled)[i] \in T
  BY <1>4, ElementOfSeq
<1>7. QED
  BY <1>5, <1>6

-----------------------------------------------------------------------------
(***************************************************************************)
(* What happens to the queue of completions.                               *)
(***************************************************************************)

\* Proceed: the head is gone, and aborted completions follow.
Advances(cancelled) ==
  /\ ready' \in Seq(Completion)
  /\ \A i \in DOMAIN ready' :
       \/ i + 1 \in DOMAIN ready /\ ready'[i] = ready[i + 1]
       \/ /\ i >= Len(ready)
          /\ \E o \in cancelled : ready'[i] = Completed(o, "aborted")
  /\ \A i \in DOMAIN ready : i > 1 =>
       i - 1 \in DOMAIN ready' /\ ready'[i - 1] = ready[i]

LEMMA AbortedFollow ==
  ASSUME NEW cancelled, NEW t \in Seq(Completion),
         ready \in Seq(Completion), ready # <<>>, ready' = Tail(ready) \o t,
         \A j \in 1..Len(t) :
           \E o \in cancelled : t[j] = Completed(o, "aborted")
  PROVE  Advances(cancelled)
<1>1. /\ ready' \in Seq(Completion)
      /\ \A i \in DOMAIN ready' :
           \/ i + 1 \in DOMAIN ready /\ ready'[i] = ready[i + 1]
           \/ i >= Len(ready) /\ \E j \in 1..Len(t) : ready'[i] = t[j]
  OBVIOUS
<1>2. \A i \in DOMAIN ready : i > 1 =>
        i - 1 \in DOMAIN ready' /\ ready'[i - 1] = ready[i]
  OBVIOUS
<1>3. QED
  BY <1>1, <1>2 DEF Advances

LEMMA ProceedAdvances ==
  ASSUME TypeOK, IsFiniteSet(ops), ready # <<>>,
         NEW started \in SUBSET Op, IsFiniteSet(started),
         NEW cancelled \in SUBSET ops, Proceed(started, cancelled)
  PROVE  /\ Advances(cancelled)
         /\ ops' \in SUBSET Op /\ IsFiniteSet(ops')
<1>1. cancelled \in SUBSET Op /\ IsFiniteSet(cancelled)
  BY FS_Subset DEF TypeOK
<1>2. /\ Aborted(cancelled) \in Seq(Completion)
      /\ \A i \in 1..Len(Aborted(cancelled)) :
           \E o \in cancelled : Aborted(cancelled)[i] = Completed(o, "aborted")
  BY <1>1, AbortedType
<1>3. ready' = Tail(ready) \o Aborted(cancelled) /\ ready \in Seq(Completion)
  BY DEF Proceed, TypeOK
<1>4. Advances(cancelled)
  BY <1>2, <1>3, AbortedFollow
<1>5. ops' = (ops \ cancelled) \cup started
  BY DEF Proceed
<1>6. IsFiniteSet(ops')
  BY <1>5, FS_Difference, FS_Union
<1>7. QED
  BY <1>4, <1>5, <1>6 DEF TypeOK

-----------------------------------------------------------------------------
LEMMA Elements ==
  ASSUME TypeOK
  PROVE  /\ Unfinished \subseteq Op
         /\ DOMAIN ready = 1..Len(ready) /\ Len(ready) \in Nat
         /\ \A i \in DOMAIN ready :
              ready[i] \in Completion /\ ready[i].op \in Op
         /\ \A i \in DOMAIN answered :
              answered[i].request \in CallbackId
                /\ answered[i].request \in Nat \ {0}
<1>1. \A i \in DOMAIN ready : ready[i] \in Completion
  BY DEF TypeOK
<1>2. \A i \in DOMAIN ready : ready[i].op \in Op
  BY <1>1 DEF Completion
<1>3. \A i \in DOMAIN answered :
        answered[i].request \in CallbackId
  <2> DEFINE A == [request : CallbackId, response : CallbackId]
  <2>1. answered \in Seq(A)
    BY DEF TypeOK
  <2>2. \A a \in A : a.request \in CallbackId
    OBVIOUS
  <2> HIDE DEF A
  <2>3. QED
    BY <2>1, <2>2
<1>4. ready \in Seq(Completion) /\ ops \subseteq Op
  BY DEF TypeOK
<1>5. Unfinished \subseteq Op
  BY <1>2, <1>4 DEF Unfinished
<1>6. DOMAIN ready = 1..Len(ready) /\ Len(ready) \in Nat
  BY <1>4
<1>7. QED
  BY <1>1, <1>2, <1>3, <1>5, <1>6, IdFacts DEF None

LEMMA InitIInv == Init => IInv
<1> SUFFICES ASSUME Init PROVE IInv
  OBVIOUS
<1>1. TypeOK
  <2>1. {DialOp} \subseteq Op
    BY OpFacts
  <2>2. answered \in Seq([request : CallbackId, response : CallbackId])
    BY EmptySeq DEF Init
  <2>3. ready \in Seq(Completion) /\ net \in Seq(Message)
    BY EmptySeq DEF Init
  <2>4. lastCallbackId_ \in 0..MaxSends /\ spoken \in 0..MaxMessages
    BY ClientAssumption DEF Init
  <2>5. QED
    BY <2>1, <2>2, <2>3, <2>4 DEF Init, TypeOK
<1>2. IsFiniteSet(ops)
  BY FS_Singleton DEF Init
<1>3. ready = <<>> /\ Unfinished = {DialOp} /\ DOMAIN ready = {}
  BY DEF Init, Unfinished
<1>4. OverIsOver /\ DialFirst /\ LastIsOutstanding
  BY <1>3 DEF Init, OverIsOver, Over, DialFirst, LastIsOutstanding, None
<1>5. WriteIsOutstanding /\ Once /\ OneRead /\ CloseLast /\ AbortedTimers
  BY <1>3 DEF Init, WriteIsOutstanding, Once, OneRead, CloseLast,
              AbortedTimers, DialOp, CloseOp
<1>6. CallbackMatches /\ PendingIsTimed
  BY DEF Init, CallbackMatches, PendingIsTimed
<1>7. QED
  BY <1>1, <1>2, <1>4, <1>5, <1>6 DEF IInv, Control

-----------------------------------------------------------------------------
(***************************************************************************)
(* The owner, the server, the network and the kernel                       *)
(***************************************************************************)

\* The owner may use the client only while it is of use.
LEMMA SendStep ==
  ASSUME IInv, NEW encodable \in BOOLEAN, Send(encodable)
  PROVE  IInv'
<1> DEFINE n == lastCallbackId_ + 1
<1> USE DEF IInv, Control
<1>1. /\ n \in CallbackId /\ n # None /\ WriteOp(n) \in Op
      /\ ~Over /\ connected_ /\ closing = "no" /\ pending_ = None
  BY OpFacts, ClientAssumption
    DEF Send, MayUse, Over, TypeOK, CallbackId, None, LastIsOutstanding
<1> HIDE DEF n
<1>2. /\ lastCallbackId_' = n /\ outstanding' = n
      /\ ops' \subseteq ops \cup {WriteOp(n)} /\ ops \subseteq ops'
      /\ UNCHANGED <<alive, connected_, pending_, ready, network, closing,
                     answered, reported, fate>>
  BY DEF Send, n
<1>3. TypeOK'
  BY <1>1, <1>2, ClientAssumption DEF TypeOK, network, CallbackId
<1>4. IsFiniteSet(ops')
  BY FS_AddElement DEF Send
<1>5. Unfinished' \subseteq Unfinished \cup {WriteOp(n)} /\ ~Over'
  BY <1>1, <1>2 DEF Unfinished, Over
<1>6. OverIsOver' /\ DialFirst'
  BY <1>1, <1>2, <1>5 DEF OverIsOver, DialFirst, WriteOp, DialOp
<1>7. LastIsOutstanding' /\ CallbackMatches'
  <2>1. \A i \in DOMAIN answered :
          answered[i].request \in Nat /\ answered[i].request < n
    <3>1. lastCallbackId_ \in Nat
      BY ClientAssumption DEF TypeOK
    <3>2. \A i \in DOMAIN answered :
            /\ answered[i].request \in Nat
            /\ answered[i].request <= lastCallbackId_
      BY Elements DEF LastIsOutstanding
    <3>3. QED
      BY <3>1, <3>2 DEF n
  <2>2. LastIsOutstanding'
    <3>1. n \in Nat
      BY <1>1, IdFacts
    <3>2. \A i \in DOMAIN answered : answered[i].request <= n
      BY <2>1, <3>1
    <3>3. QED
      BY <1>1, <1>2, <2>1, <3>2 DEF LastIsOutstanding
  <2>3. CallbackMatches'
    BY <1>2 DEF CallbackMatches
  <2>4. QED
    BY <2>2, <2>3
<1>8. \A o \in Unfinished : o.kind # "write"
  BY <1>1, Elements, OpFacts, IdFacts DEF WriteIsOutstanding, Send
<1>9. WriteIsOutstanding'
  BY <1>1, <1>2, <1>5, <1>8 DEF WriteIsOutstanding, WriteOp
<1>10. Once' /\ OneRead'
  <2>1. \A i \in DOMAIN ready : ready[i].op # WriteOp(n)
    BY <1>8 DEF Unfinished, WriteOp
  <2>2. WriteOp(n) # ReadOp
    BY DEF WriteOp, ReadOp
  <2>3. QED
    BY <1>1, <1>2, <2>1, <2>2 DEF Once, OneRead
<1>11. CloseLast' /\ AbortedTimers'
  <2>1. CloseOp \notin Unfinished'
    BY <1>1, <1>5 DEF CloseLast, CloseOp, WriteOp
  <2>2. CloseLast'
    BY <2>1 DEF CloseLast, Unfinished
  <2>3. AbortedTimers'
    BY <1>1, <1>2 DEF AbortedTimers
  <2>4. QED
    BY <2>2, <2>3
<1>12. PendingIsTimed'
  BY <1>1, <1>2 DEF PendingIsTimed
<1>13. QED
  BY <1>3, <1>4, <1>6, <1>7, <1>9, <1>10, <1>11, <1>12

LEMMA CloseStep ==
  ASSUME IInv, Close
  PROVE  IInv'
<1> USE DEF IInv, Control
<1>1. /\ ~Over /\ connected_ /\ CloseOp \in Op /\ CloseOp \notin Unfinished
  BY OpFacts DEF Close, MayUse, Over, CloseLast
<1>2. TypeOK' /\ IsFiniteSet(ops')
  BY <1>1, FS_AddElement DEF Close, TypeOK, network
<1>3. Unfinished' = Unfinished \cup {CloseOp} /\ ~Over'
  BY <1>1 DEF Close, Unfinished, Over
<1>4. OverIsOver' /\ DialFirst'
  BY <1>1, <1>3 DEF Close, OverIsOver, DialFirst, CloseOp, DialOp
<1>5. LastIsOutstanding' /\ CallbackMatches' /\ PendingIsTimed'
  BY DEF Close, LastIsOutstanding, CallbackMatches, PendingIsTimed
<1>6. WriteIsOutstanding'
  BY <1>1, <1>3 DEF Close, WriteIsOutstanding, CloseOp
<1>7. Once' /\ OneRead' /\ CloseLast' /\ AbortedTimers'
  BY <1>1, <1>3 DEF Close, Once, OneRead, CloseLast, AbortedTimers,
                    Unfinished, CloseOp, ReadOp
<1>8. QED
  BY <1>2, <1>4, <1>5, <1>6, <1>7

LEMMA ServerSendsStep ==
  ASSUME IInv, NEW m \in Message, ServerSends(m)
  PROVE  IInv'
<1> USE DEF IInv, ServerSends, owner
<1>1. TypeOK'
  BY ClientAssumption DEF TypeOK
<1>2. Control'
  BY DEF Control, OverIsOver, Over, DialFirst, Unfinished, LastIsOutstanding,
         WriteIsOutstanding, Once, OneRead, CloseLast, AbortedTimers,
         CallbackMatches, PendingIsTimed
<1>3. QED
  BY <1>1, <1>2

\* An operation completes.
LEMMA CompletesKeeps ==
  ASSUME IInv, NEW op \in Op, NEW result \in {"ok", "error", "aborted"},
         NEW msg \in Message, Completes(op, result, msg),
         op # CloseOp => result # "aborted",
         op = CloseOp => /\ \A o \in ops : o.kind # "write"
                         /\ \E i \in DOMAIN ready : ready[i].result = "error",
         op.kind = "read" => StreamOpen,
         op.kind = "timer" => result = "ok" /\ msg = NoMessage
  PROVE  /\ ops' \in SUBSET Op /\ ready' \in Seq(Completion)
         /\ IsFiniteSet(ops') /\ Control'
         /\ Unfinished' = Unfinished
<1> DEFINE c == [op |-> op, result |-> result, msg |-> msg]
           n == Len(ready) + 1
<1> USE DEF IInv, Control
<1>1. /\ op \in ops /\ ops' = ops \ {op} /\ ready' = Append(ready, c)
      /\ UNCHANGED <<alive, connected_, pending_, lastCallbackId_, owner,
                     reported, fate>>
  BY DEF Completes
<1>2. c \in Completion /\ c.op = op /\ c.result = result
  BY DEF Completion
<1>3. c.op.kind = "timer" => c = Completed(op, "ok")
  BY DEF Completed
<1> HIDE DEF c
<1>4. /\ n \in Nat /\ n > Len(ready)
      /\ DOMAIN ready = 1..Len(ready) /\ DOMAIN ready' = 1..n
      /\ ready' \in Seq(Completion)
      /\ \A i \in DOMAIN ready : i \in DOMAIN ready' /\ i < n
                                   /\ ready'[i] = ready[i]
      /\ n \in DOMAIN ready' /\ ready'[n] = c
      /\ \A i \in DOMAIN ready' : i \in DOMAIN ready \/ i = n
  BY <1>1, <1>2 DEF TypeOK
<1> HIDE DEF n
<1>5. ~Over /\ ~Over'
  BY <1>1 DEF OverIsOver, Over, owner
<1>6. Unfinished' = Unfinished
  BY <1>1, <1>2, <1>4 DEF Unfinished
<1>7. op.kind # "timer" => \A i \in DOMAIN ready : ready[i].op # CloseOp
  BY <1>1, <1>5, OpFacts DEF CloseLast, Single, StreamOpen
<1>8. ops' \in SUBSET Op /\ IsFiniteSet(ops')
  BY <1>1, FS_RemoveElement DEF TypeOK
<1>9. OverIsOver' /\ DialFirst' /\ WriteIsOutstanding'
  BY <1>1, <1>5, <1>6 DEF OverIsOver, Over, DialFirst, WriteIsOutstanding,
                          owner
<1>10. LastIsOutstanding' /\ CallbackMatches'
  BY <1>1 DEF LastIsOutstanding, CallbackMatches, owner
<1>11. Once'
  <2>1. ASSUME NEW i \in DOMAIN ready', Single(ready'[i].op)
        PROVE  ready'[i].op \notin ops'
    BY <1>1, <1>2, <1>4, <1>5, <2>1 DEF Once
  <2>2. ASSUME NEW i \in DOMAIN ready', NEW j \in DOMAIN ready',
               Single(ready'[i].op), ready'[i].op = ready'[j].op
        PROVE  i = j
    BY <1>1, <1>2, <1>4, <1>5, <2>2 DEF Once
  <2>3. QED
    BY <2>1, <2>2 DEF Once, Single
<1>16. OneRead'
  <2>1. ASSUME NEW i \in DOMAIN ready', ready'[i].op = ReadOp
        PROVE  ReadOp \notin ops'
    BY <1>1, <1>2, <1>4, <1>5, <2>1 DEF OneRead
  <2>2. ASSUME NEW i \in DOMAIN ready', NEW j \in DOMAIN ready',
               ready'[i].op = ReadOp, ready'[j].op = ReadOp
        PROVE  i = j
    BY <1>1, <1>2, <1>4, <1>5, <2>2 DEF OneRead
  <2>3. QED
    BY <2>1, <2>2 DEF OneRead
<1>12. CloseLast'
  <2>1. closing' = "no" => CloseOp \notin Unfinished'
    BY <1>1, <1>5, <1>6 DEF CloseLast, owner
  <2>2. ASSUME NEW i \in DOMAIN ready', ready'[i].op = CloseOp
        PROVE  /\ \A o \in ops' : ~Single(o)
               /\ \A j \in DOMAIN ready' : i < j => Quiet(ready'[j])
    <3>1. CASE i \in DOMAIN ready
      <4>1. ready[i].op = CloseOp /\ i < n
        BY <1>4, <2>2, <3>1
      <4>2. \A o \in ops' : ~Single(o)
        BY <1>1, <1>5, <3>1, <4>1 DEF CloseLast
      <4>3. Quiet(c)
        BY <1>2, <1>7, <3>1, <4>1 DEF Quiet
      <4>4. QED
        BY <1>4, <1>5, <3>1, <4>1, <4>2, <4>3 DEF CloseLast
    <3>2. CASE i = n
      <4>1. op = CloseOp /\ \A j \in DOMAIN ready' : ~(i < j)
        BY <1>2, <1>4, <2>2, <3>2
      <4>2. DialOp \notin ops
        BY <1>1, <1>5, <4>1 DEF DialFirst, Unfinished, DialOp, CloseOp
      <4>3. \A o \in ops' : ~Single(o)
        <5>1. SUFFICES ASSUME NEW o \in ops', Single(o)
                       PROVE  FALSE
          OBVIOUS
        <5>2. o \in ops /\ o # CloseOp /\ o \in Op
          BY <1>1, <4>1, <5>1 DEF TypeOK
        <5>3. o.kind # "write" /\ o.kind # "dial" /\ o.kind # "close"
          BY <4>1, <4>2, <5>2, OpFacts
        <5>4. QED
          BY <5>1, <5>3 DEF Single
      <4>4. QED
        BY <4>1, <4>3
    <3>3. QED
      BY <1>4, <3>1, <3>2
  <2>3. QED
    BY <2>1, <2>2 DEF CloseLast, Quiet, Single
<1>13. AbortedTimers'
  <2>1. SUFFICES ASSUME NEW i \in DOMAIN ready', ready'[i].result = "aborted"
                 PROVE  \/ ready'[i].op.kind = "timer"
                        \/ /\ ready'[i].op = ReadOp
                           /\ \E j \in DOMAIN ready' :
                                j < i /\ ready'[j].op = CloseOp
                        \/ /\ ready'[i].op = CloseOp
                           /\ \E j \in DOMAIN ready' :
                                j < i /\ ready'[j].result = "error"
    BY DEF AbortedTimers
  <2>2. CASE i \in DOMAIN ready
    BY <1>4, <1>5, <2>1, <2>2 DEF AbortedTimers
  <2>3. CASE i = n
    BY <1>2, <1>4, <2>1, <2>3
  <2>4. QED
    BY <1>4, <2>2, <2>3
<1>14. PendingIsTimed'
  <2>1. SUFFICES ASSUME pending_ # None, TimerOp(pending_) \notin ops'
                 PROVE  \E i \in DOMAIN ready' :
                          ready'[i] = Completed(TimerOp(pending_), "ok")
    BY <1>1 DEF PendingIsTimed, Completed, TimerOp, NoMessage
  <2>2. CASE op = TimerOp(pending_)
    BY <1>2, <1>3, <1>4, <2>2 DEF TimerOp
  <2>3. CASE op # TimerOp(pending_)
    BY <1>1, <1>4, <2>1, <2>3 DEF PendingIsTimed
  <2>4. QED
    BY <2>2, <2>3
<1>15. QED
  BY <1>4, <1>6, <1>8, <1>9, <1>10, <1>11, <1>12, <1>13, <1>14, <1>16

LEMMA CompletionStep ==
  ASSUME IInv,
         \/ \E result \in {"ok", "error"} :
              \/ DialEnds(result)
              \/ \E n \in CallbackId, arrived \in BOOLEAN :
                   WriteEnds(n, result, arrived)
         \/ CloseAborts
         \/ ReadEnds
         \/ ReadFails
         \/ \E n \in CallbackId : TimerFires(n)
  PROVE  IInv' /\ UNCHANGED <<Unfinished, alive, connected_, owner>>
<1> USE OpFacts, IdFacts DEF IInv
<1>1. ASSUME NEW result \in {"ok", "error"}, DialEnds(result)
      PROVE  IInv' /\ UNCHANGED <<Unfinished, alive, connected_, owner>>
  <2>1. DialOp # CloseOp /\ DialOp.kind = "dial"
    BY DEF DialOp, CloseOp
  <2>2. /\ ops' \in SUBSET Op /\ ready' \in Seq(Completion)
        /\ IsFiniteSet(ops') /\ Control' /\ Unfinished' = Unfinished
    BY <1>1, <2>1, CompletesKeeps DEF DialEnds
  <2>3. QED
    BY <1>1, <2>2 DEF DialEnds, Completes, TypeOK, network, owner
<1>2. ASSUME NEW result \in {"ok", "error"}, NEW n \in CallbackId,
             NEW arrived \in BOOLEAN, WriteEnds(n, result, arrived)
      PROVE  IInv' /\ UNCHANGED <<Unfinished, alive, connected_, owner>>
  <2>1. WriteOp(n) # CloseOp /\ WriteOp(n).kind = "write"
    BY DEF WriteOp, CloseOp
  <2>2. /\ ops' \in SUBSET Op /\ ready' \in Seq(Completion)
        /\ IsFiniteSet(ops') /\ Control' /\ Unfinished' = Unfinished
    BY <1>2, <2>1, CompletesKeeps DEF WriteEnds
  <2>3. QED
    BY <1>2, <2>2 DEF WriteEnds, Completes, TypeOK, owner
<1>3. CASE ReadEnds
  <2>1. ReadOp # CloseOp /\ ReadOp.kind = "read"
    BY DEF ReadOp, CloseOp
  <2>2. Head(net) \in Message /\ Tail(net) \in Seq(Message)
    BY <1>3, HeadTailProperties DEF ReadEnds, TypeOK
  <2>3. /\ ops' \in SUBSET Op /\ ready' \in Seq(Completion)
        /\ IsFiniteSet(ops') /\ Control' /\ Unfinished' = Unfinished
    BY <1>3, <2>1, <2>2, CompletesKeeps DEF ReadEnds
  <2>4. QED
    BY <1>3, <2>2, <2>3 DEF ReadEnds, Completes, TypeOK, owner
<1>4. CASE ReadFails
  <2>1. ReadOp # CloseOp /\ ReadOp.kind = "read"
    BY DEF ReadOp, CloseOp
  <2>2. /\ ops' \in SUBSET Op /\ ready' \in Seq(Completion)
        /\ IsFiniteSet(ops') /\ Control' /\ Unfinished' = Unfinished
    BY <1>4, <2>1, CompletesKeeps DEF ReadFails
  <2>3. QED
    BY <1>4, <2>2 DEF ReadFails, Completes, TypeOK, network, owner
<1>5. ASSUME NEW n \in CallbackId, TimerFires(n)
      PROVE  IInv' /\ UNCHANGED <<Unfinished, alive, connected_, owner>>
  <2>1. TimerOp(n) # CloseOp /\ TimerOp(n).kind = "timer"
    BY DEF TimerOp, CloseOp
  <2>2. /\ ops' \in SUBSET Op /\ ready' \in Seq(Completion)
        /\ IsFiniteSet(ops') /\ Control' /\ Unfinished' = Unfinished
    BY <1>5, <2>1, CompletesKeeps DEF TimerFires
  <2>3. QED
    BY <1>5, <2>2 DEF TimerFires, Completes, TypeOK, network, owner
<1>6. CASE CloseAborts
  <2>1. CloseOp.kind = "close" /\ CloseOp \in Op
    BY DEF CloseOp, Op
  <2>2. /\ ops' \in SUBSET Op /\ ready' \in Seq(Completion)
        /\ IsFiniteSet(ops') /\ Control' /\ Unfinished' = Unfinished
    BY <1>6, <2>1, CompletesKeeps DEF CloseAborts
  <2>3. QED
    BY <1>6, <2>2 DEF CloseAborts, Completes, TypeOK, network, owner
<1>7. QED
  BY <1>1, <1>2, <1>3, <1>4, <1>5, <1>6

\* The closing handshake is over: its read completes with it.
LEMMA CloseEndsStep ==
  ASSUME IInv, NEW result \in {"ok", "error"}, NEW received \in BOOLEAN,
         CloseEnds(result, received)
  PROVE  IInv' /\ UNCHANGED <<Unfinished, alive, connected_, owner>>
<1> DEFINE head == IF received THEN <<Completed(ReadOp, "error")>> ELSE <<>>
           last == IF ReadOp \in ops /\ ~received
                   THEN <<Completed(ReadOp, "aborted")>> ELSE <<>>
           c == Completed(CloseOp, result)
           more == head \o <<c>> \o last
           n == Len(ready) + Len(head) + 1
<1> USE DEF IInv, Control
<1>1. /\ CloseOp \in ops /\ ops' = ops \ {CloseOp, ReadOp}
      /\ \A o \in ops : o.kind # "write"
      /\ received => ReadOp \in ops
      /\ ready' = ready \o head \o <<c>> \o last
      /\ UNCHANGED <<alive, connected_, pending_, lastCallbackId_, network,
                     owner, reported, fate>>
  BY DEF CloseEnds
<1>2. /\ c \in Completion /\ c.op = CloseOp /\ c.result \in {"ok", "error"}
      /\ Completed(ReadOp, "error") \in Completion
      /\ Completed(ReadOp, "aborted") \in Completion
  BY OpFacts, CompletedType
<1>3. /\ head \in Seq(Completion) /\ last \in Seq(Completion)
      /\ Len(head) \in 0..1 /\ Len(last) \in 0..1
      /\ \A i \in DOMAIN head : head[i] = Completed(ReadOp, "error")
      /\ \A i \in DOMAIN last : last[i] = Completed(ReadOp, "aborted")
      /\ Len(head) + Len(last) <= 1 /\ ~(Len(head) = 1 /\ Len(last) = 1)
      /\ Len(head) + Len(last) = 1 <=> ReadOp \in ops
  BY <1>1, <1>2
<1>4. n \in Nat /\ n > Len(ready) /\ DOMAIN ready = 1..Len(ready)
  BY <1>3 DEF TypeOK
<1> HIDE DEF head, last, c
<1>5. /\ ready' \in Seq(Completion)
      /\ DOMAIN ready' = 1..(n + Len(last))
      /\ \A i \in 1..Len(ready) : ready'[i] = ready[i]
      /\ \A i \in 1..Len(head) : ready'[Len(ready) + i] = head[i]
      /\ ready'[n] = c
      /\ \A i \in 1..Len(last) : ready'[n + i] = last[i]
  <2>1. ready \in Seq(Completion)
    BY DEF TypeOK
  <2>2. ready' = ready \o head \o <<c>> \o last
    BY <1>1
  <2>3. n = Len(ready) + Len(head) + 1
    OBVIOUS
  <2> DEFINE a == ready \o head
             b == Append(a, c)
  <2>4. /\ a \in Seq(Completion) /\ Len(a) = Len(ready) + Len(head)
        /\ \A i \in 1..Len(ready) : a[i] = ready[i]
        /\ \A i \in 1..Len(head) : a[Len(ready) + i] = head[i]
    BY <1>3, <2>1
  <2>5. a \o <<c>> = b
    BY <1>2, <2>4, AppendIsConcat
  <2>6. ready' = b \o last
    BY <2>2, <2>5
  <2>7. /\ Len(ready) \in Nat /\ Len(head) \in Nat
        /\ n = Len(a) + 1
    BY <1>3, <2>1, <2>3, <2>4
  <2> HIDE DEF a, n
  <2>8. /\ b \in Seq(Completion) /\ Len(b) = n /\ b[n] = c
        /\ \A i \in 1..Len(a) : b[i] = a[i]
    <3>1. a \in Seq(Completion) /\ c \in Completion
      BY <1>2, <2>4
    <3>2. /\ b \in Seq(Completion) /\ Len(b) = Len(a) + 1 /\ b[Len(a) + 1] = c
          /\ \A i \in 1..Len(a) : b[i] = a[i]
      BY <3>1
    <3>3. QED
      BY <2>7, <3>2
  <2> HIDE DEF b
  <2>9. /\ ready' \in Seq(Completion)
        /\ DOMAIN ready' = 1..(n + Len(last))
        /\ \A i \in 1..n : ready'[i] = b[i]
        /\ \A i \in 1..Len(last) : ready'[n + i] = last[i]
    BY <1>3, <2>6, <2>8
  <2>10. /\ n \in 1..n
         /\ \A i \in 1..Len(ready) : i \in 1..Len(a) /\ i \in 1..n
         /\ \A i \in 1..Len(head) :
              Len(ready) + i \in 1..Len(a) /\ Len(ready) + i \in 1..n
    BY <2>4, <2>7
  <2>11. QED
    BY <2>4, <2>8, <2>9, <2>10
<1>6. ASSUME NEW i \in DOMAIN ready'
      PROVE  \/ i \in DOMAIN ready /\ i < n /\ ready'[i] = ready[i]
             \/ /\ i < n /\ i = n - 1
                /\ ready'[i] = Completed(ReadOp, "error")
                /\ ReadOp \in ops /\ Len(head) = 1
             \/ i = n
             \/ /\ i > n /\ i = n + 1
                /\ ready'[i] = Completed(ReadOp, "aborted")
                /\ ReadOp \in ops /\ Len(last) = 1
  <2>1. Len(ready) \in Nat /\ i \in 1..(n + Len(last))
    BY <1>5 DEF TypeOK
  <2>2. CASE i \in 1..Len(ready)
    BY <1>4, <1>5, <2>1, <2>2
  <2>3. CASE i > Len(ready) /\ i < n
    <3>1. i - Len(ready) \in 1..Len(head) /\ Len(ready) + (i - Len(ready)) = i
      BY <1>3, <2>1, <2>3
    <3>2. ready'[i] = head[i - Len(ready)]
      BY <1>5, <3>1
    <3>3. Len(head) = 1
      BY <1>3, <3>1
    <3>4. QED
      BY <1>3, <2>3, <3>1, <3>2, <3>3
  <2>4. CASE i > n
    <3>1. i - n \in 1..Len(last) /\ n + (i - n) = i
      BY <1>3, <1>4, <2>1, <2>4
    <3>2. ready'[i] = last[i - n]
      BY <1>5, <3>1
    <3>3. Len(last) = 1
      BY <1>3, <3>1
    <3>4. QED
      BY <1>3, <2>4, <3>1, <3>2, <3>3
  <2>5. QED
    BY <1>4, <2>1, <2>2, <2>3, <2>4
<1>7. n \in DOMAIN ready' /\ \A i \in DOMAIN ready : i \in DOMAIN ready'
  BY <1>3, <1>4, <1>5 DEF TypeOK
<1>8. ReadOp \in ops => \E i \in DOMAIN ready' : ready'[i].op = ReadOp
  <2>1. SUFFICES ASSUME ReadOp \in ops
                 PROVE  \E i \in DOMAIN ready' : ready'[i].op = ReadOp
    OBVIOUS
  <2>2. Completed(ReadOp, "error").op = ReadOp
          /\ Completed(ReadOp, "aborted").op = ReadOp
    BY DEF Completed
  <2>3. CASE Len(head) = 1
    <3>1. Len(ready) + 1 \in DOMAIN ready' /\ 1 \in 1..Len(head)
      BY <1>3, <1>4, <1>5, <2>3 DEF TypeOK
    <3>2. ready'[Len(ready) + 1] = Completed(ReadOp, "error")
      BY <1>3, <1>5, <3>1
    <3>3. QED
      BY <2>2, <3>1, <3>2
  <2>4. CASE Len(last) = 1
    <3>1. n + 1 \in DOMAIN ready' /\ 1 \in 1..Len(last)
      BY <1>3, <1>4, <1>5, <2>4
    <3>2. ready'[n + 1] = Completed(ReadOp, "aborted")
      BY <1>3, <1>5, <3>1
    <3>3. QED
      BY <2>2, <3>1, <3>2
  <2>5. QED
    BY <1>3, <2>1, <2>3, <2>4
<1>9. \A i \in DOMAIN ready' :
        ready'[i] \in {Completed(ReadOp, "error"),
                       Completed(ReadOp, "aborted")}
          => ready'[i].op = ReadOp /\ ~Single(ready'[i].op)
  BY DEF Completed, ReadOp, Single
<1> HIDE DEF n
<1>10. ~Over /\ ~Over' /\ DialOp \notin ops
  BY <1>1 DEF OverIsOver, Over, owner, DialFirst, Unfinished, CloseOp, DialOp
<1>11. \A o \in ops' : o \in ops /\ o \in Op /\ ~Single(o)
  BY <1>1, <1>10, OpFacts DEF Single, TypeOK
<1>12. Unfinished' = Unfinished
  <2>1. ASSUME NEW o \in Unfinished' PROVE o \in Unfinished
    <3>1. ops' \subseteq ops /\ CloseOp \in ops /\ c.op = CloseOp
      BY <1>1, <1>2
    <3>2. ASSUME NEW i \in DOMAIN ready'
          PROVE  ready'[i].op \in ops \cup {ready[j].op : j \in DOMAIN ready}
      <4>1. CASE i \in DOMAIN ready /\ ready'[i] = ready[i]
        BY <4>1
      <4>2. CASE i = n
        BY <1>5, <3>1, <4>2
      <4>3. CASE /\ ReadOp \in ops
                 /\ ready'[i] \in {Completed(ReadOp, "error"),
                                  Completed(ReadOp, "aborted")}
        BY <1>9, <4>3
      <4>4. QED
        BY <1>6, <4>1, <4>2, <4>3
    <3>3. QED
      BY <3>1, <3>2 DEF Unfinished
  <2>2. ASSUME NEW o \in ops PROVE o \in Unfinished'
    <3>1. CASE o = CloseOp
      <4>1. n \in DOMAIN ready' /\ ready'[n].op = o
        BY <1>2, <1>5, <1>7, <3>1
      <4>2. QED
        BY <4>1 DEF Unfinished
    <3>2. CASE o = ReadOp
      <4>1. \E i \in DOMAIN ready' : ready'[i].op = o
        BY <1>8, <3>2
      <4>2. QED
        BY <4>1 DEF Unfinished
    <3>3. CASE o \notin {CloseOp, ReadOp}
      <4>1. o \in ops'
        BY <1>1, <3>3
      <4>2. QED
        BY <4>1 DEF Unfinished
    <3>4. QED
      BY <3>1, <3>2, <3>3
  <2>3. ASSUME NEW i \in DOMAIN ready PROVE ready[i].op \in Unfinished'
    BY <1>4, <1>5, <1>7 DEF Unfinished
  <2>4. QED
    BY <2>1, <2>2, <2>3 DEF Unfinished
<1>13. TypeOK' /\ IsFiniteSet(ops')
  BY <1>1, <1>5, <1>11, FS_Difference DEF TypeOK, network, owner
<1>14. /\ OverIsOver' /\ DialFirst' /\ WriteIsOutstanding'
       /\ LastIsOutstanding' /\ CallbackMatches'
  BY <1>1, <1>10, <1>12
    DEF OverIsOver, Over, DialFirst, WriteIsOutstanding, LastIsOutstanding,
        CallbackMatches, owner
<1>15. \A i \in DOMAIN ready : ready[i].op # CloseOp
  BY <1>1, <1>10 DEF Once, Single, CloseOp
<1>16. ASSUME NEW i \in DOMAIN ready', Single(ready'[i].op)
       PROVE  \/ i \in DOMAIN ready /\ ready'[i] = ready[i]
              \/ i = n
  BY <1>6, <1>9, <1>16
<1>17. Once'
  <2>1. ASSUME NEW i \in DOMAIN ready', Single(ready'[i].op)
        PROVE  ready'[i].op \notin ops'
    BY <1>11, <2>1
  <2>2. ASSUME NEW i \in DOMAIN ready', NEW j \in DOMAIN ready',
               Single(ready'[i].op), ready'[i].op = ready'[j].op
        PROVE  i = j
    <3>1. Single(ready'[j].op)
      BY <2>2
    <3>2. QED
      BY <1>2, <1>5, <1>10, <1>15, <1>16, <2>2, <3>1 DEF Once
  <2>3. QED
    BY <2>1, <2>2 DEF Once, Single
<1>22. OneRead'
  <2>1. ReadOp \notin ops' /\ c.op # ReadOp
    BY <1>1, <1>2 DEF CloseOp, ReadOp
  <2>2. ASSUME NEW i \in DOMAIN ready', NEW j \in DOMAIN ready',
               ready'[i].op = ReadOp, ready'[j].op = ReadOp
        PROVE  i = j
    <3>1. CASE ReadOp \in ops
      <4>1. \A k \in DOMAIN ready : ready[k].op # ReadOp
        BY <1>10, <3>1 DEF OneRead
      <4>2. ~(Len(head) = 1 /\ Len(last) = 1)
        BY <1>3
      <4>3. \/ i = n - 1 /\ Len(head) = 1
            \/ i = n + 1 /\ Len(last) = 1
        BY <1>5, <1>6, <2>1, <2>2, <4>1
      <4>5. \/ j = n - 1 /\ Len(head) = 1
            \/ j = n + 1 /\ Len(last) = 1
        BY <1>5, <1>6, <2>1, <2>2, <4>1
      <4>4. QED
        BY <4>2, <4>3, <4>5
    <3>2. CASE ReadOp \notin ops
      BY <1>5, <1>6, <1>10, <2>1, <2>2, <3>2 DEF OneRead
    <3>3. QED
      BY <3>1, <3>2
  <2>3. QED
    BY <2>1, <2>2 DEF OneRead
<1>18. CloseLast'
  <2>1. closing' = "no" => CloseOp \notin Unfinished'
    BY <1>1, <1>10, <1>12 DEF CloseLast, owner
  <2>2. ASSUME NEW i \in DOMAIN ready', ready'[i].op = CloseOp,
               NEW j \in DOMAIN ready', i < j
        PROVE  Quiet(ready'[j])
    <3>1. i = n
      BY <1>15, <1>16, <2>2 DEF Single, CloseOp
    <3>2. ready'[j] = Completed(ReadOp, "aborted")
      BY <1>4, <1>6, <2>2, <3>1
    <3>3. QED
      BY <3>2 DEF Quiet, Completed
  <2>3. QED
    BY <1>11, <2>1, <2>2 DEF CloseLast, Quiet, Single
<1>19. AbortedTimers'
  <2>1. SUFFICES ASSUME NEW i \in DOMAIN ready', ready'[i].result = "aborted"
                 PROVE  \/ ready'[i].op.kind = "timer"
                        \/ /\ ready'[i].op = ReadOp
                           /\ \E j \in DOMAIN ready' :
                                j < i /\ ready'[j].op = CloseOp
                        \/ /\ ready'[i].op = CloseOp
                           /\ \E j \in DOMAIN ready' :
                                j < i /\ ready'[j].result = "error"
    BY DEF AbortedTimers
  <2>2. CASE i \in DOMAIN ready /\ ready'[i] = ready[i]
    BY <1>4, <1>5, <1>7, <1>10, <2>1, <2>2 DEF AbortedTimers
  <2>3. CASE i > n /\ ready'[i] = Completed(ReadOp, "aborted")
    BY <1>2, <1>5, <1>7, <1>9, <2>3
  <2>4. QED
    BY <1>2, <1>5, <1>6, <2>1, <2>2, <2>3 DEF Completed
<1>20. PendingIsTimed'
  <2>1. SUFFICES ASSUME pending_ # None, TimerOp(pending_) \notin ops'
                 PROVE  \E i \in DOMAIN ready' :
                          ready'[i] = Completed(TimerOp(pending_), "ok")
    BY <1>1 DEF PendingIsTimed, Completed, TimerOp, NoMessage
  <2>2. TimerOp(pending_) \notin ops
    BY <1>1, <2>1 DEF TimerOp, CloseOp, ReadOp
  <2>3. QED
    BY <1>4, <1>5, <1>7, <2>1, <2>2 DEF PendingIsTimed
<1>21. QED
  BY <1>1, <1>12, <1>13, <1>14, <1>17, <1>18, <1>19, <1>20, <1>22

-----------------------------------------------------------------------------
(***************************************************************************)
(* The io thread                                                           *)
(***************************************************************************)

LEMMA HeadIsFirst ==
  ASSUME TypeOK, ready # <<>>
  PROVE  /\ 1 \in DOMAIN ready /\ Head(ready) = ready[1]
         /\ Head(ready) \in Completion /\ Head(ready).op \in Op
         /\ Head(ready).msg \in Message
         /\ Head(ready).op \in Unfinished
<1>1. ready \in Seq(Completion)
  BY DEF TypeOK
<1>2. 1 \in DOMAIN ready /\ Head(ready) = ready[1]
  BY <1>1
<1>3. Head(ready) \in Completion
  BY <1>1, <1>2
<1>4. QED
  BY <1>2, <1>3 DEF Completion, Unfinished

\* A handler that keeps the client may start reads and timers and cancel
\* timers.
LEMMA ProceedKeeps ==
  ASSUME IInv, alive, ready # <<>>,
         NEW started \in SUBSET Op, IsFiniteSet(started),
         NEW cancelled \in SUBSET Timers, Proceed(started, cancelled),
         \A o \in started : ~Single(o),
         ReadOp \in started =>
           Head(ready).op = ReadOp \/ ReadOp \notin Unfinished,
         Over => started = {},
         Over \/ Head(ready).op # CloseOp,
         Over \/ Head(ready).result # "error",
         alive' = alive, closing' = closing
  PROVE  /\ ready' \in Seq(Completion) /\ ops' \in SUBSET Op
         /\ IsFiniteSet(ops')
         /\ Once' /\ OneRead' /\ CloseLast' /\ AbortedTimers'
         /\ ~Over /\ Head(ready).op = ReadOp =>
              \A i \in DOMAIN ready' : ready'[i].op # ReadOp
         /\ Over => ops' = {} /\ \A i \in DOMAIN ready' : Quiet(ready'[i])
         /\ Unfinished' \subseteq Unfinished \cup started
         /\ ~Over /\ Single(Head(ready).op) =>
              Head(ready).op \notin Unfinished'
         /\ \A i \in DOMAIN ready : i > 1 =>
              i - 1 \in DOMAIN ready' /\ ready'[i - 1] = ready[i]
<1> USE DEF IInv, Control
<1> DEFINE Old(i) == i + 1 \in DOMAIN ready /\ ready'[i] = ready[i + 1]
<1>1. cancelled \in SUBSET ops /\ \A o \in cancelled : o.kind = "timer"
  BY DEF Timers
<1>2. Advances(cancelled) /\ ops' \in SUBSET Op /\ IsFiniteSet(ops')
  BY <1>1, ProceedAdvances
<1>3. ops' = (ops \ cancelled) \cup started
  BY DEF Proceed
<1>4. ASSUME NEW i \in DOMAIN ready'
      PROVE  \/ Old(i)
             \/ /\ ready'[i].op \in ops /\ ready'[i].op.kind = "timer"
                /\ ready'[i].result = "aborted"
  BY <1>1, <1>2 DEF Advances, Completed
<1>5. /\ \A i \in DOMAIN ready' : i \in Nat \ {0}
      /\ \A i \in DOMAIN ready : i \in Nat \ {0}
      /\ 1 \in DOMAIN ready /\ Head(ready) = ready[1]
  BY <1>2, HeadIsFirst DEF Advances, TypeOK
<1>6. Over' = Over
  BY DEF Over
<1>7. \A o \in ops' : Single(o) => o \in ops
  BY <1>3
<1>8. ASSUME NEW i \in DOMAIN ready', Single(ready'[i].op) PROVE Old(i)
  BY <1>4, <1>8 DEF Single
<1>9. Unfinished' \subseteq Unfinished \cup started
  BY <1>3, <1>4 DEF Unfinished
<1>10. Once'
  <2>1. ASSUME ~Over, NEW i \in DOMAIN ready', Single(ready'[i].op)
        PROVE  ready'[i].op \notin ops'
    BY <1>7, <1>8, <2>1 DEF Once
  <2>2. ASSUME ~Over, NEW i \in DOMAIN ready', NEW j \in DOMAIN ready',
               Single(ready'[i].op), ready'[i].op = ready'[j].op
        PROVE  i = j
    <3>1. Old(i) /\ Old(j)
      BY <1>8, <2>2
    <3>2. i + 1 = j + 1
      BY <2>2, <3>1 DEF Once
    <3>3. QED
      BY <1>5, <3>2
  <2>3. QED
    BY <1>6, <2>1, <2>2 DEF Once, Single
<1>16. ASSUME NEW i \in DOMAIN ready', ready'[i].op = ReadOp
       PROVE  Old(i) /\ i + 1 # 1
  BY <1>4, <1>5, <1>16 DEF ReadOp
<1>17. ~Over /\ Head(ready).op = ReadOp =>
         /\ \A i \in DOMAIN ready' : ready'[i].op # ReadOp
         /\ ReadOp \notin ops
  BY <1>5, <1>16 DEF OneRead
<1>18. OneRead'
  <2>1. ASSUME ~Over, NEW i \in DOMAIN ready', ready'[i].op = ReadOp
        PROVE  ReadOp \notin ops'
    <3>1. ReadOp \in Unfinished /\ Head(ready).op # ReadOp
      BY <1>16, <1>17, <2>1 DEF Unfinished
    <3>2. ReadOp \notin ops
      BY <1>16, <2>1 DEF OneRead
    <3>3. QED
      BY <1>3, <3>1, <3>2
  <2>2. ASSUME ~Over, NEW i \in DOMAIN ready', NEW j \in DOMAIN ready',
               ready'[i].op = ReadOp, ready'[j].op = ReadOp
        PROVE  i = j
    <3>1. i + 1 = j + 1
      BY <1>16, <2>2 DEF OneRead
    <3>2. QED
      BY <1>5, <3>1
  <2>3. QED
    BY <1>6, <2>1, <2>2 DEF OneRead
<1>11. CloseLast'
  <2>1. ~Over /\ closing' = "no" => CloseOp \notin Unfinished'
    BY <1>9 DEF CloseLast, Single, CloseOp
  <2>2. ASSUME ~Over, NEW i \in DOMAIN ready', ready'[i].op = CloseOp
        PROVE  /\ \A o \in ops' : ~Single(o)
               /\ \A j \in DOMAIN ready' : i < j => Quiet(ready'[j])
    <3>1. Old(i)
      BY <1>8, <2>2 DEF Single, CloseOp
    <3>2. \A o \in ops' : ~Single(o)
      BY <1>7, <2>2, <3>1 DEF CloseLast
    <3>3. ASSUME NEW j \in DOMAIN ready', i < j PROVE Quiet(ready'[j])
      <4>1. CASE Old(j)
        <5>1. i + 1 < j + 1
          BY <1>5, <3>3
        <5>2. QED
          BY <2>2, <3>1, <4>1, <5>1 DEF CloseLast
      <4>2. CASE ~Old(j)
        BY <1>4, <4>2 DEF Quiet
      <4>3. QED
        BY <4>1, <4>2
    <3>4. QED
      BY <3>2, <3>3
  <2>3. QED
    BY <1>6, <2>1, <2>2 DEF CloseLast, Single, Quiet
<1>12. AbortedTimers'
  <2>1. SUFFICES ASSUME ~Over, NEW i \in DOMAIN ready',
                        ready'[i].result = "aborted"
                 PROVE  \/ ready'[i].op.kind = "timer"
                        \/ /\ ready'[i].op = ReadOp
                           /\ \E j \in DOMAIN ready' :
                                j < i /\ ready'[j].op = CloseOp
                        \/ /\ ready'[i].op = CloseOp
                           /\ \E j \in DOMAIN ready' :
                                j < i /\ ready'[j].result = "error"
    BY <1>6 DEF AbortedTimers
  <2>2. CASE Old(i) /\ ready[i + 1].op.kind # "timer"
    <3>1. PICK j \in DOMAIN ready :
            /\ j < i + 1
            /\ \/ ready[i + 1].op = ReadOp /\ ready[j].op = CloseOp
               \/ ready[i + 1].op = CloseOp /\ ready[j].result = "error"
      BY <2>1, <2>2 DEF AbortedTimers
    <3>2. j > 1 /\ j - 1 < i
      BY <1>5, <2>1, <3>1
    <3>3. j - 1 \in DOMAIN ready' /\ ready'[j - 1] = ready[j]
      BY <1>2, <3>2 DEF Advances
    <3>4. QED
      BY <2>2, <3>1, <3>2, <3>3
  <2>3. CASE ~(Old(i) /\ ready[i + 1].op.kind # "timer")
    BY <1>4, <2>3
  <2>4. QED
    BY <2>2, <2>3
<1>13. Over => ops' = {} /\ \A i \in DOMAIN ready' : Quiet(ready'[i])
  BY <1>3, <1>4 DEF OverIsOver, Over, Quiet
<1>14. ~Over /\ Single(Head(ready).op) => Head(ready).op \notin Unfinished'
  <2>1. SUFFICES ASSUME ~Over, Single(Head(ready).op)
                 PROVE  Head(ready).op \notin Unfinished'
    OBVIOUS
  <2>2. Head(ready).op \notin ops'
    BY <1>5, <1>7, <2>1 DEF Once
  <2>3. ASSUME NEW i \in DOMAIN ready', ready'[i].op = Head(ready).op
        PROVE  FALSE
    <3>1. Old(i)
      BY <1>8, <2>1, <2>3
    <3>2. i + 1 = 1
      BY <1>5, <2>1, <2>3, <3>1 DEF Once
    <3>3. QED
      BY <1>5, <3>2
  <2>4. QED
    BY <2>2, <2>3 DEF Unfinished
<1>15. QED
  BY <1>2, <1>9, <1>10, <1>11, <1>12, <1>13, <1>14, <1>17, <1>18
    DEF Advances

LEMMA TimedStays ==
  ASSUME IInv, ready # <<>>, pending_' = pending_, ops \subseteq ops',
         \A i \in DOMAIN ready : i > 1 =>
           i - 1 \in DOMAIN ready' /\ ready'[i - 1] = ready[i],
         Head(ready).op.kind # "timer" \/ Head(ready).result # "ok"
  PROVE  PendingIsTimed'
<1> SUFFICES ASSUME pending_ # None, TimerOp(pending_) \notin ops
             PROVE  \E i \in DOMAIN ready' :
                      ready'[i] = Completed(TimerOp(pending_), "ok")
  BY DEF PendingIsTimed, Completed, TimerOp, NoMessage
<1>1. PICK i \in DOMAIN ready : ready[i] = Completed(TimerOp(pending_), "ok")
  BY DEF IInv, Control, PendingIsTimed
<1>2. i # 1
  BY <1>1, HeadIsFirst DEF IInv, Completed, TimerOp
<1>3. i > 1
  BY <1>2, Elements DEF IInv
<1>4. QED
  BY <1>1, <1>3

\* A completion that is not quiet belongs to a client that is of use.
LEMMA LoudIsOfUse ==
  ASSUME IInv, alive, ready # <<>>, ~Quiet(Head(ready))
  PROVE  /\ ~Over
         /\ Head(ready).op.kind = "dial" => ~connected_
         /\ Head(ready).op.kind # "dial" => connected_
<1>1. /\ 1 \in DOMAIN ready /\ Head(ready) = ready[1]
      /\ Head(ready).op \in Op /\ Head(ready).op \in Unfinished
  BY HeadIsFirst DEF IInv
<1>2. ~Over
  BY <1>1 DEF IInv, Control, OverIsOver, Over, Quiet
<1>3. QED
  BY <1>1, <1>2, OpFacts DEF IInv, Control, DialFirst, DialOp

\* Handlers that leave the owner's view of the client alone.
LEMMA AsideKeeps ==
  ASSUME IInv, alive, ready # <<>>,
         NEW started \in {{}, {ReadOp}}, Proceed(started, {}),
         started = {ReadOp} =>
           ~Over /\ connected_ /\ Head(ready).op = ReadOp,
         Over \/ Head(ready).op # CloseOp,
         Head(ready).result # "error",
         Head(ready).op.kind # "timer" \/ Head(ready).result # "ok",
         UNCHANGED <<alive, connected_, pending_, lastCallbackId_, network,
                     owner, reported, fate>>
  PROVE  IInv'
<1> USE DEF IInv, Control
<1>1. /\ started \in SUBSET Op /\ IsFiniteSet(started)
      /\ {} \in SUBSET Timers
      /\ \A o \in started : ~Single(o) /\ o = ReadOp
      /\ Over => started = {}
  <2>1. ReadOp \in Op /\ ~Single(ReadOp)
    BY OpFacts DEF ReadOp, Single
  <2>2. CASE started = {}
    BY <2>2, FS_EmptySet
  <2>3. CASE started = {ReadOp}
    BY <2>1, <2>3, FS_Singleton
  <2>4. QED
    BY <2>2, <2>3
<1>2. /\ ready' \in Seq(Completion) /\ ops' \in SUBSET Op
      /\ IsFiniteSet(ops')
      /\ Once' /\ OneRead' /\ CloseLast' /\ AbortedTimers'
      /\ Over => ops' = {} /\ \A i \in DOMAIN ready' : Quiet(ready'[i])
      /\ Unfinished' \subseteq Unfinished \cup started
      /\ \A i \in DOMAIN ready : i > 1 =>
           i - 1 \in DOMAIN ready' /\ ready'[i - 1] = ready[i]
  BY <1>1, ProceedKeeps DEF owner
<1>3. TypeOK'
  BY <1>2 DEF TypeOK, network, owner
<1>4. OverIsOver'
  BY <1>2 DEF OverIsOver, Over, Quiet, owner
<1>5. DialFirst' /\ WriteIsOutstanding'
  BY <1>1, <1>2 DEF DialFirst, WriteIsOutstanding, Over, owner, ReadOp, DialOp
<1>6. LastIsOutstanding' /\ CallbackMatches'
  BY DEF LastIsOutstanding, CallbackMatches, owner
<1>7. PendingIsTimed'
  <2>1. ops \subseteq ops'
    BY DEF Proceed
  <2>2. QED
    BY <1>2, <2>1, TimedStays
<1>8. QED
  BY <1>2, <1>3, <1>4, <1>5, <1>6, <1>7

LEMMA AsideSteps ==
  ASSUME IInv, HandleAborted \/ HandleGarbledEvent \/ HandleOther
  PROVE  IInv'
<1>1. CASE HandleAborted
  <2>1. /\ alive /\ ready # <<>> /\ Head(ready).result = "aborted"
        /\ Proceed({}, {})
    BY <1>1 DEF HandleAborted, Handles
  <2>2. Over \/ Head(ready).op # CloseOp
    <3>1. \A j \in DOMAIN ready : ~(j < 1)
      BY Elements DEF IInv
    <3>2. QED
      BY <2>1, <3>1, HeadIsFirst
        DEF IInv, Control, AbortedTimers, CloseOp, ReadOp
  <2>3. QED
    BY <1>1, <2>1, <2>2, AsideKeeps DEF HandleAborted
<1>2. CASE HandleGarbledEvent
  <2>1. /\ alive /\ ready # <<>> /\ Head(ready).op.kind = "read"
        /\ Head(ready).result = "ok" /\ Proceed({}, {})
    BY <1>2 DEF HandleGarbledEvent, Handles
  <2>2. QED
    BY <1>2, <2>1, AsideKeeps DEF HandleGarbledEvent, CloseOp
<1>3. CASE HandleOther
  <2>1. /\ alive /\ ready # <<>> /\ Head(ready).op.kind = "read"
        /\ Head(ready).result = "ok" /\ Proceed({ReadOp}, {})
    BY <1>3 DEF HandleOther, Handles
  <2>2. ~Over /\ connected_ /\ Head(ready).op = ReadOp
    BY <2>1, LoudIsOfUse, HeadIsFirst, OpFacts DEF Quiet, IInv
  <2>3. QED
    BY <1>3, <2>1, <2>2, AsideKeeps DEF HandleOther, CloseOp
<1>4. QED
  BY <1>1, <1>2, <1>3

LEMMA HandleDialStep ==
  ASSUME IInv, HandleDial
  PROVE  IInv'
<1> USE DEF IInv, Control
<1>1. /\ alive /\ ready # <<>> /\ Head(ready).op.kind = "dial"
      /\ Head(ready).result = "ok" /\ Proceed({ReadOp}, {})
      /\ connected_' = TRUE
      /\ UNCHANGED <<alive, pending_, lastCallbackId_, network, owner,
                     reported, fate>>
  BY DEF HandleDial, Handles
<1>2. /\ ~Over /\ ~connected_ /\ Head(ready).op = DialOp
      /\ closing = "no" /\ pending_ = None /\ outstanding = None
      /\ \A o \in Unfinished : o = DialOp
  BY <1>1, LoudIsOfUse, HeadIsFirst, OpFacts DEF Quiet, DialFirst
<1>3. /\ {ReadOp} \in SUBSET Op /\ IsFiniteSet({ReadOp})
      /\ {} \in SUBSET Timers /\ ~Single(ReadOp) /\ Single(DialOp)
      /\ DialOp # CloseOp /\ DialOp # ReadOp /\ ReadOp \notin Unfinished
  BY <1>2, OpFacts, FS_Singleton DEF ReadOp, Single, DialOp, CloseOp
<1>4. /\ ready' \in Seq(Completion) /\ ops' \in SUBSET Op
      /\ IsFiniteSet(ops')
      /\ Once' /\ OneRead' /\ CloseLast' /\ AbortedTimers'
      /\ Unfinished' \subseteq Unfinished \cup {ReadOp}
      /\ DialOp \notin Unfinished'
  BY <1>1, <1>2, <1>3, ProceedKeeps DEF owner
<1>5. TypeOK'
  BY <1>1, <1>4 DEF TypeOK, network, owner
<1>6. OverIsOver' /\ DialFirst' /\ WriteIsOutstanding'
  BY <1>1, <1>2, <1>4
    DEF OverIsOver, DialFirst, WriteIsOutstanding, Over, owner, ReadOp
<1>7. LastIsOutstanding' /\ CallbackMatches' /\ PendingIsTimed'
  BY <1>1, <1>2 DEF LastIsOutstanding, CallbackMatches, PendingIsTimed, owner
<1>8. QED
  BY <1>4, <1>5, <1>6, <1>7

\* The request that was written is the outstanding one.
LEMMA HandleWrittenStep ==
  ASSUME IInv, HandleWritten
  PROVE  IInv'
<1> DEFINE n == Head(ready).op.id
<1> USE DEF IInv, Control
<1>1. /\ alive /\ ready # <<>> /\ Head(ready).op.kind = "write"
      /\ Head(ready).result = "ok" /\ Proceed({TimerOp(n)}, Timers)
      /\ pending_' = n
      /\ UNCHANGED <<alive, connected_, lastCallbackId_, network, owner,
                     reported, fate>>
  BY DEF HandleWritten, Handles
<1>2. /\ ~Over /\ connected_ /\ n \in CallbackId
      /\ Head(ready).op = WriteOp(n) /\ Head(ready).op \in Unfinished
  BY <1>1, LoudIsOfUse, HeadIsFirst, OpFacts DEF Quiet
<1>3. n = outstanding /\ pending_ = None
  BY <1>1, <1>2 DEF WriteIsOutstanding
<1> HIDE DEF n
<1>4. /\ {TimerOp(n)} \in SUBSET Op /\ IsFiniteSet({TimerOp(n)})
      /\ Timers \in SUBSET Timers /\ ~Single(TimerOp(n)) /\ Single(WriteOp(n))
      /\ WriteOp(n) # CloseOp /\ ReadOp \notin {TimerOp(n)}
  BY <1>2, OpFacts, FS_Singleton
    DEF TimerOp, Single, WriteOp, CloseOp, ReadOp
<1>5. /\ ready' \in Seq(Completion) /\ ops' \in SUBSET Op
      /\ IsFiniteSet(ops')
      /\ Once' /\ OneRead' /\ CloseLast' /\ AbortedTimers'
      /\ Unfinished' \subseteq Unfinished \cup {TimerOp(n)}
      /\ WriteOp(n) \notin Unfinished'
  BY <1>1, <1>2, <1>4, ProceedKeeps DEF owner
<1>6. TypeOK'
  BY <1>1, <1>2, <1>5 DEF TypeOK, network, owner
<1>7. OverIsOver' /\ DialFirst'
  BY <1>1, <1>2, <1>5 DEF OverIsOver, DialFirst, Over, owner, TimerOp, DialOp
<1>8. WriteIsOutstanding'
  <2>1. SUFFICES ASSUME NEW o \in Unfinished', o.kind = "write"
                 PROVE  FALSE
    BY DEF WriteIsOutstanding
  <2>2. o \in Unfinished
    BY <1>5, <2>1 DEF TimerOp
  <2>3. o.id = n
    BY <1>2, <1>3, <2>1, <2>2 DEF WriteIsOutstanding
  <2>4. o = WriteOp(n)
    BY <2>1, <2>2, <2>3, Elements, OpFacts
  <2>5. QED
    BY <1>5, <2>1, <2>4
<1>9. LastIsOutstanding' /\ CallbackMatches'
  BY <1>1, <1>3 DEF LastIsOutstanding, CallbackMatches, owner
<1>10. PendingIsTimed'
  BY <1>1 DEF PendingIsTimed, Proceed
<1>11. QED
  BY <1>5, <1>6, <1>7, <1>8, <1>9, <1>10

\* The callback of the pending request is used up, whether it ran or threw.
LEMMA AnsweredKeeps ==
  ASSUME IInv, Handles("read", "ok"), Matches(Head(ready).msg),
         NEW started \in {{}, {ReadOp}}, Proceed(started, Timers),
         pending_' = None, outstanding' = None,
         \/ answered' = answered
         \/ answered' = Append(answered, [request  |-> pending_,
                                          response |-> Head(ready).msg.id]),
         UNCHANGED <<alive, connected_, lastCallbackId_, network, closing,
                     reported, fate>>
  PROVE  IInv'
<1> DEFINE m == Head(ready).msg
           r == [request |-> pending_, response |-> m.id]
<1> USE DEF IInv, Control
<1>1. /\ alive /\ ready # <<>> /\ Head(ready).op.kind = "read"
      /\ Head(ready).result = "ok"
  BY DEF Handles
<1>2. /\ ~Over /\ connected_ /\ Head(ready).op # CloseOp
      /\ Head(ready).op = ReadOp
  BY <1>1, LoudIsOfUse, HeadIsFirst, OpFacts DEF Quiet, CloseOp
<1>3. /\ pending_ # None /\ pending_ = outstanding /\ m.id = pending_
      /\ pending_ = lastCallbackId_ /\ pending_ \in CallbackId
  BY DEF Matches, LastIsOutstanding, TypeOK
<1>4. /\ started \in SUBSET Op /\ IsFiniteSet(started)
      /\ \A o \in started : ~Single(o) /\ o = ReadOp
  <2>1. ReadOp \in Op /\ ~Single(ReadOp)
    BY OpFacts DEF ReadOp, Single
  <2>2. CASE started = {}
    BY <2>2, FS_EmptySet
  <2>3. CASE started = {ReadOp}
    BY <2>1, <2>3, FS_Singleton
  <2>4. QED
    BY <2>2, <2>3
<1>5. /\ ready' \in Seq(Completion) /\ ops' \in SUBSET Op
      /\ IsFiniteSet(ops')
      /\ Once' /\ OneRead' /\ CloseLast' /\ AbortedTimers'
      /\ Unfinished' \subseteq Unfinished \cup started
  BY <1>1, <1>2, <1>4, ProceedKeeps
<1>6. answered' \in Seq([request : CallbackId, response : CallbackId])
  <2> DEFINE A == [request : CallbackId, response : CallbackId]
  <2>1. r \in A
    BY <1>3
  <2>2. answered \in Seq(A)
    BY DEF TypeOK
  <2> HIDE DEF A, r
  <2>3. Append(answered, r) \in Seq(A)
    BY <2>1, <2>2
  <2>4. QED
    BY <2>2, <2>3 DEF A, r
<1>7. TypeOK'
  BY <1>5, <1>6 DEF TypeOK, network
<1>8. OverIsOver' /\ DialFirst' /\ WriteIsOutstanding' /\ PendingIsTimed'
  BY <1>2, <1>3, <1>4, <1>5
    DEF OverIsOver, DialFirst, WriteIsOutstanding, PendingIsTimed, Over,
        ReadOp, DialOp
<1>9. LastIsOutstanding' /\ CallbackMatches'
  <2>1. CASE answered' = answered
    BY <2>1 DEF LastIsOutstanding, CallbackMatches
  <2>2. CASE answered' = Append(answered, r)
    <3>1. /\ DOMAIN answered' = 1..(Len(answered) + 1)
          /\ DOMAIN answered = 1..Len(answered) /\ Len(answered) \in Nat
          /\ \A i \in DOMAIN answered : answered'[i] = answered[i]
          /\ answered'[Len(answered) + 1] = r
      <4> DEFINE A == [request : CallbackId, response : CallbackId]
      <4>1. answered \in Seq(A)
        BY DEF TypeOK
      <4> HIDE DEF A, r
      <4>2. QED
        BY <2>2, <4>1
    <3>2. /\ r.request = pending_ /\ r.response = pending_
          /\ \A i \in DOMAIN answered :
               answered[i].request \in Nat /\ answered[i].request < pending_
      BY <1>3, Elements DEF LastIsOutstanding
    <3>3. pending_ \in Nat
      BY <1>3, IdFacts
    <3> HIDE DEF r
    <3>4. \A i \in DOMAIN answered' :
            \/ i \in DOMAIN answered /\ answered'[i] = answered[i]
            \/ i = Len(answered) + 1 /\ answered'[i] = r
      BY <3>1
    <3>5. LastIsOutstanding'
      BY <1>3, <3>2, <3>3, <3>4 DEF LastIsOutstanding
    <3>6. \A i \in DOMAIN answered' :
            answered'[i].request = answered'[i].response
      BY <3>2, <3>4 DEF CallbackMatches
    <3>7. ASSUME NEW i \in DOMAIN answered', NEW j \in DOMAIN answered',
                 i < j
          PROVE  answered'[i].request < answered'[j].request
      <4>1. i \in DOMAIN answered /\ answered'[i] = answered[i]
        BY <3>1, <3>4, <3>7
      <4>2. QED
        BY <3>2, <3>4, <3>7, <4>1 DEF CallbackMatches
    <3>8. QED
      BY <3>5, <3>6, <3>7 DEF CallbackMatches
  <2>3. QED
    BY <2>1, <2>2
<1>10. QED
  BY <1>5, <1>7, <1>8, <1>9

\* The client is dropped or closed: everything it waits for is cancelled.
LEMMA GivenUpKeeps ==
  ASSUME IInv, alive, ready # <<>>, Proceed({}, ops),
         connected_' = FALSE, pending_' = None, outstanding' = None,
         \/ alive' = FALSE /\ closing' = closing
         \/ /\ alive' = TRUE /\ closing' = "done"
            /\ ~Over /\ Head(ready).op = CloseOp,
         reported' \in Nat,
         UNCHANGED <<lastCallbackId_, network, answered, fate>>
  PROVE  IInv'
<1> USE DEF IInv, Control
<1>1. {} \in SUBSET Op /\ IsFiniteSet({}) /\ ops \in SUBSET ops
  BY FS_EmptySet
<1>2. Advances(ops) /\ ops' \in SUBSET Op /\ IsFiniteSet(ops')
  BY <1>1, ProceedAdvances
<1>3. ops' = {} /\ Over'
  BY DEF Proceed, Over
<1>4. TypeOK'
  BY <1>2 DEF Advances, TypeOK, network
<1>5. alive' => \A i \in DOMAIN ready' : Quiet(ready'[i])
  <2>1. SUFFICES ASSUME alive', NEW i \in DOMAIN ready'
                 PROVE  Quiet(ready'[i])
    OBVIOUS
  <2>2. CASE i + 1 \in DOMAIN ready /\ ready'[i] = ready[i + 1]
    <3>1. 1 \in DOMAIN ready /\ ready[1].op = CloseOp
      BY <2>1, HeadIsFirst
    <3>2. 1 < i + 1
      BY <1>4 DEF TypeOK
    <3>3. QED
      BY <2>1, <2>2, <3>1, <3>2 DEF CloseLast
  <2>3. CASE \E o \in ops : ready'[i] = Completed(o, "aborted")
    BY <2>3 DEF Completed, Quiet
  <2>4. QED
    BY <1>2, <2>2, <2>3 DEF Advances
<1>6. OverIsOver'
  BY <1>3, <1>5 DEF OverIsOver, Quiet
<1>7. /\ DialFirst' /\ WriteIsOutstanding' /\ Once' /\ OneRead'
      /\ CloseLast' /\ AbortedTimers'
  BY <1>3 DEF DialFirst, WriteIsOutstanding, Once, OneRead, CloseLast,
              AbortedTimers
<1>8. LastIsOutstanding' /\ CallbackMatches' /\ PendingIsTimed'
  BY DEF LastIsOutstanding, CallbackMatches, PendingIsTimed
<1>9. QED
  BY <1>2, <1>4, <1>6, <1>7, <1>8

LEMMA GivenUpSteps ==
  ASSUME IInv,
         HandleError \/ HandleTimeout \/ HandleRefusal \/ HandleClosed
  PROVE  IInv'
<1>1. CASE HandleError \/ HandleTimeout \/ HandleRefusal
  <2>1. /\ alive /\ ready # <<>> /\ Report
        /\ UNCHANGED <<lastCallbackId_, network, closing, answered, fate>>
    BY <1>1 DEF HandleError, HandleTimeout, HandleRefusal, Handles
  <2>2. reported' \in Nat
    BY <2>1 DEF Report, IInv, TypeOK
  <2>3. QED
    BY <2>1, <2>2, GivenUpKeeps DEF Report
<1>2. CASE HandleClosed
  <2>1. /\ alive /\ ready # <<>> /\ Head(ready).op.kind = "close"
        /\ Head(ready).result = "ok"
    BY <1>2 DEF HandleClosed, Handles
  <2>2. ~Over /\ Head(ready).op = CloseOp
    BY <2>1, LoudIsOfUse, HeadIsFirst, OpFacts DEF Quiet, IInv
  <2>3. alive' = TRUE /\ reported' \in Nat
    BY <1>2, <2>1 DEF HandleClosed, Over, IInv, TypeOK
  <2>4. /\ Proceed({}, ops) /\ closing' = "done"
        /\ connected_' = FALSE /\ pending_' = None /\ outstanding' = None
        /\ UNCHANGED <<lastCallbackId_, network, answered, fate>>
    BY <1>2 DEF HandleClosed
  <2>5. QED
    BY <2>1, <2>2, <2>3, <2>4, GivenUpKeeps
<1>3. QED
  BY <1>1, <1>2

LEMMA AnsweredSteps ==
  ASSUME IInv, HandleCallback \/ HandleGarbledReply
  PROVE  IInv'
<1>1. CASE HandleCallback
  BY <1>1, AnsweredKeeps DEF HandleCallback
<1>2. CASE HandleGarbledReply
  BY <1>2, AnsweredKeeps DEF HandleGarbledReply
<1>3. QED
  BY <1>1, <1>2

LEMMA HandleOrphanStep ==
  ASSUME IInv, HandleOrphan
  PROVE  IInv'
<1> USE DEF IInv, Control
<1>1. Over /\ Over' /\ ~alive
  BY DEF HandleOrphan, Over
<1>2. Tail(ready) \in Seq(Completion)
  BY HeadTailProperties DEF HandleOrphan, TypeOK
<1>3. TypeOK' /\ IsFiniteSet(ops')
  BY <1>2 DEF HandleOrphan, TypeOK, network, owner
<1>4. OverIsOver'
  BY <1>1 DEF HandleOrphan, OverIsOver, owner
<1>5. /\ DialFirst' /\ WriteIsOutstanding' /\ Once' /\ OneRead'
      /\ CloseLast' /\ AbortedTimers'
  BY <1>1 DEF DialFirst, WriteIsOutstanding, Once, OneRead, CloseLast,
              AbortedTimers
<1>6. LastIsOutstanding' /\ CallbackMatches' /\ PendingIsTimed'
  BY <1>1 DEF HandleOrphan, OverIsOver, LastIsOutstanding, CallbackMatches,
              PendingIsTimed, owner
<1>7. QED
  BY <1>3, <1>4, <1>5, <1>6

-----------------------------------------------------------------------------
LEMMA NextIInv == IInv /\ [Next]_vars => IInv'
<1> SUFFICES ASSUME IInv, [Next]_vars PROVE IInv'
  OBVIOUS
<1>1. CASE UNCHANGED vars
  BY <1>1 DEF vars, IInv, Control, TypeOK, OverIsOver, Over, DialFirst,
    LastIsOutstanding, WriteIsOutstanding, Once, OneRead, CloseLast,
    AbortedTimers, CallbackMatches, PendingIsTimed, Unfinished
<1>2. CASE \/ \E encodable \in BOOLEAN : Send(encodable)
           \/ Close
           \/ \E m \in Message : ServerSends(m)
  BY <1>2, SendStep, CloseStep, ServerSendsStep
<1>3. CASE \E result \in {"ok", "error"} :
             \/ DialEnds(result)
             \/ \E n \in CallbackId, arrived \in BOOLEAN :
                  WriteEnds(n, result, arrived)
  BY <1>3, CompletionStep
<1>4. CASE \E result \in {"ok", "error"}, received \in BOOLEAN :
             CloseEnds(result, received)
  BY <1>4, CloseEndsStep
<1>5. CASE \/ CloseAborts \/ ReadEnds \/ ReadFails
           \/ \E n \in CallbackId : TimerFires(n)
  BY <1>5, CompletionStep
<1>6. CASE IoThread
  BY <1>6, AsideSteps, HandleDialStep, HandleWrittenStep, AnsweredSteps,
     GivenUpSteps, HandleOrphanStep DEF IoThread
<1>7. QED
  BY <1>1, <1>2, <1>3, <1>4, <1>5, <1>6 DEF Next

\* The invariant from which all of the following are concluded.
THEOREM Invariance == Spec => []IInv
<1>1. Init => IInv
  BY InitIInv
<1>2. IInv /\ [Next]_vars => IInv'
  BY NextIInv
<1>3. QED
  BY <1>1, <1>2, PTL DEF Spec

\* The variables have their types.
THEOREM TypeCorrect == Spec => []TypeOK
<1>1. IInv => TypeOK
  BY DEF IInv
<1>2. QED
  BY <1>1, Invariance, PTL

\* When the owner may send, nothing is pending and no write is unfinished: the
\* assertions of send() hold.
THEOREM SendAsserts == Spec => []SendPrecondition
<1>1. IInv => SendPrecondition
  <2>1. SUFFICES ASSUME IInv, MayUse, outstanding = None
                 PROVE  /\ pending_ = None
                        /\ \A o \in Unfinished : o.kind # "write"
    BY DEF SendPrecondition
  <2>2. ~Over
    BY <2>1 DEF MayUse, Over
  <2>3. pending_ = None
    BY <2>1 DEF IInv, Control, LastIsOutstanding
  <2>4. ASSUME NEW o \in Unfinished, o.kind = "write" PROVE FALSE
    <3>1. o.id = None
      BY <2>1, <2>2, <2>4 DEF IInv, Control, WriteIsOutstanding
    <3>2. o.id \in CallbackId
      BY <2>1, <2>4, Elements, OpFacts DEF IInv
    <3>3. QED
      BY <3>1, <3>2, IdFacts
  <2>5. QED
    BY <2>3, <2>4
<1>2. QED
  BY <1>1, Invariance, PTL

\* Callbacks run in the order of the requests, each at most once and with its
\* own response.
THEOREM CallbacksMatch == Spec => []CallbackMatches
<1>1. IInv => CallbackMatches
  BY DEF IInv, Control
<1>2. QED
  BY <1>1, Invariance, PTL

\* A pending request has a timer that runs, or has fired and is about to be
\* noticed.
THEOREM PendingTimed == Spec => []PendingIsTimed
<1>1. IInv => PendingIsTimed
  BY DEF IInv, Control
<1>2. QED
  BY <1>1, Invariance, PTL

\* After close() nothing is in flight and nothing is pending.
THEOREM ClosedQuiet == Spec => []ClosedIsQuiet
<1>1. IInv => ClosedIsQuiet
  BY DEF IInv, Control, OverIsOver, Over, ClosedIsQuiet
<1>2. QED
  BY <1>1, Invariance, PTL

-----------------------------------------------------------------------------
(***************************************************************************)
(* The client implements ClientPromise.                                    *)
(***************************************************************************)

LEMMA ViewNow ==
  ASSUME OverIsOver
  PROVE  /\ ~alive => View = "null"
         /\ alive /\ closing = "done" => View = "closed"
         /\ ~Over /\ connected_ /\ Reading => View = "up"
         /\ ~Over /\ connected_ /\ ~Reading => View = "deaf"
         /\ ~Over /\ ~connected_ => View = "connecting"
BY DEF OverIsOver, Over, View

LEMMA ViewThen ==
  ASSUME OverIsOver'
  PROVE  /\ ~alive' => View' = "null"
         /\ alive' /\ closing' = "done" => View' = "closed"
         /\ ~Over' /\ connected_' /\ Reading' => View' = "up"
         /\ ~Over' /\ connected_' /\ ~Reading' => View' = "deaf"
         /\ ~Over' /\ ~connected_' => View' = "connecting"
BY DEF OverIsOver, Over, View

\* A handler of something else than a read leaves the receive loop alone.
LEMMA ReadingStays ==
  ASSUME IInv, alive, ready # <<>>,
         NEW started \in SUBSET Op, IsFiniteSet(started),
         NEW cancelled \in SUBSET Timers, Proceed(started, cancelled),
         \A o \in started : ~Single(o) /\ o # ReadOp,
         Over => started = {},
         Over \/ Head(ready).op # CloseOp,
         Head(ready).op.kind # "read", Head(ready).result # "error",
         alive' = alive, closing' = closing
  PROVE  Reading' <=> Reading
<1>1. /\ Unfinished' \subseteq Unfinished \cup started
      /\ \A i \in DOMAIN ready : i > 1 =>
           i - 1 \in DOMAIN ready' /\ ready'[i - 1] = ready[i]
  BY ProceedKeeps
<1>2. Reading' => Reading
  BY <1>1 DEF Reading
<1>3. ASSUME ReadOp \in ops PROVE Reading'
  BY <1>3 DEF Proceed, Timers, ReadOp, Reading, Unfinished
<1>4. ASSUME NEW i \in DOMAIN ready, ready[i].op = ReadOp PROVE Reading'
  <2>1. i # 1
    BY <1>4, HeadIsFirst DEF IInv, ReadOp
  <2>2. i > 1
    BY <2>1, Elements DEF IInv
  <2>3. QED
    BY <1>1, <1>4, <2>2 DEF Reading, Unfinished
<1>5. QED
  BY <1>2, <1>3, <1>4 DEF Reading, Unfinished

\* A handler of a read finds the client up, and leaves it up or deaf.
LEMMA ReadHandled ==
  ASSUME IInv, IInv', Handles("read", "ok"),
         NEW started \in {{}, {ReadOp}}, NEW cancelled \in SUBSET Timers,
         Proceed(started, cancelled),
         alive' = alive, closing' = closing, connected_' = connected_
  PROVE  View = "up" /\ View' \in {"up", "deaf"}
                     /\ (View' = "up" <=> ReadOp \in ops')
<1>1. /\ alive /\ ready # <<>> /\ Head(ready).op.kind = "read"
      /\ Head(ready).result = "ok"
  BY DEF Handles
<1>2. ~Over /\ connected_ /\ ~Over'
  BY <1>1, LoudIsOfUse DEF Quiet, Over
<1>3. Reading
  BY <1>1, HeadIsFirst, OpFacts DEF IInv, Reading
<1>4. Reading' <=> ReadOp \in ops'
  <2>1. /\ started \in SUBSET Op /\ IsFiniteSet(started)
        /\ \A o \in started : ~Single(o)
    <3>1. ReadOp \in Op /\ ~Single(ReadOp)
      BY OpFacts DEF ReadOp, Single
    <3>2. CASE started = {}
      BY <3>2, FS_EmptySet
    <3>3. CASE started = {ReadOp}
      BY <3>1, <3>3, FS_Singleton
    <3>4. QED
      BY <3>2, <3>3
  <2>2. Head(ready).op = ReadOp /\ Head(ready).op # CloseOp
    BY <1>1, HeadIsFirst, OpFacts DEF IInv, CloseOp
  <2>3. \A i \in DOMAIN ready' : ready'[i].op # ReadOp
    BY <1>1, <1>2, <2>1, <2>2, ProceedKeeps
  <2>4. QED
    BY <2>3 DEF Reading, Unfinished
<1>5. QED
  BY <1>2, <1>3, <1>4, ViewNow, ViewThen DEF IInv, Control

\* What the owner does not see.
Aside == UNCHANGED <<View, outstanding>>

LEMMA AsideRefines ==
  ASSUME IInv, IInv', UNCHANGED <<alive, connected_, owner>>,
         Reading' <=> Reading
  PROVE  Aside
<1>1. /\ Over' <=> Over
      /\ outstanding' = outstanding /\ closing' = closing
  BY DEF Over, owner
<1>2. View' = View
  BY <1>1, ViewNow, ViewThen DEF IInv, Control, Over
<1>3. QED
  BY <1>1, <1>2 DEF Aside

\* A step of the client is a step of the promise, or nothing the owner sees.
Kept == [Promise!Next]_(Promise!vars)

LEMMA AsideIsKept == Aside => Kept
BY DEF Aside, Kept, Promise!vars

\* The owner sends and closes.
LEMMA OwnerRefines ==
  ASSUME IInv, IInv', (\E encodable \in BOOLEAN : Send(encodable)) \/ Close
  PROVE  Kept /\ UNCHANGED View
<1>1. /\ ~Over /\ connected_
      /\ UNCHANGED <<alive, connected_>> /\ ~Over'
      /\ ReadOp \in Op /\ WriteOp(lastCallbackId_ + 1) # ReadOp
      /\ CloseOp # ReadOp
  BY OpFacts DEF Send, Close, MayUse, Over, WriteOp, CloseOp, ReadOp
<1>2. Reading' <=> Reading
  BY <1>1 DEF Reading, Unfinished, Send, Close
<1>3. View' = View /\ View \in {"up", "deaf"}
  BY <1>1, <1>2, ViewNow, ViewThen DEF IInv, Control
<1>4. ASSUME NEW encodable \in BOOLEAN, Send(encodable) PROVE Kept
  <2>1. outstanding = None /\ outstanding' # None
        /\ outstanding' \in CallbackId
    BY <1>4, ClientAssumption DEF Send, TypeOK, IInv, CallbackId, None
  <2>2. Promise!Post(outstanding')
    BY <1>3, <2>1 DEF Promise!Post
  <2>3. QED
    BY <2>1, <2>2 DEF Kept, Promise!Next
<1>5. CASE Close
  BY <1>3, <1>5, AsideIsKept DEF Aside, Close
<1>6. QED
  BY <1>3, <1>4, <1>5

\* The server, the network and the kernel do nothing that the owner sees.
LEMMA OutsideRefines ==
  ASSUME IInv, IInv', Unfinished' = Unfinished,
         UNCHANGED <<alive, connected_, owner>>
  PROVE  Kept /\ Aside
BY AsideRefines, AsideIsKept DEF Reading

LEMMA ServerSendsRefines ==
  ASSUME IInv, IInv', NEW m \in Message, ServerSends(m)
  PROVE  Kept /\ Aside
BY OutsideRefines DEF ServerSends, Unfinished

\* The handshake is done and the receive loop begins.
LEMMA HandleDialRefines ==
  ASSUME IInv, IInv', HandleDial
  PROVE  Kept /\ View' = "up" /\ outstanding' = None
<1>1. /\ alive /\ ready # <<>> /\ Head(ready).op.kind = "dial"
      /\ Head(ready).result = "ok" /\ Proceed({ReadOp}, {})
      /\ connected_' = TRUE /\ UNCHANGED <<alive, owner>>
  BY DEF HandleDial, Handles
<1>2. ~Over /\ ~connected_ /\ ~Over'
  BY <1>1, LoudIsOfUse DEF Quiet, Over, owner
<1>3. Reading'
  BY <1>1 DEF Proceed, Reading, Unfinished
<1>4. View = "connecting" /\ View' = "up"
  BY <1>1, <1>2, <1>3, ViewNow, ViewThen DEF IInv, Control
<1>5. outstanding' \in Promise!Offer
  BY DEF IInv, TypeOK, Promise!Offer
<1>6. Promise!Established(outstanding')
  BY <1>4 DEF Promise!Established
<1>7. outstanding' = None
  BY <1>1, <1>2 DEF IInv, Control, DialFirst, owner
<1>8. QED
  BY <1>4, <1>5, <1>6, <1>7 DEF Kept, Promise!Next

\* A completed write, or an aborted operation.
LEMMA HandleWrittenRefines ==
  ASSUME IInv, IInv', HandleWritten
  PROVE  Kept /\ Aside
<1> DEFINE n == Head(ready).op.id
<1>1. /\ alive /\ ready # <<>> /\ Head(ready).op.kind = "write"
      /\ Head(ready).result = "ok" /\ Proceed({TimerOp(n)}, Timers)
      /\ UNCHANGED <<alive, connected_, owner>>
  BY DEF HandleWritten, Handles
<1>2. /\ ~Over /\ Head(ready).op = WriteOp(n) /\ n \in CallbackId
  BY <1>1, LoudIsOfUse, HeadIsFirst, OpFacts DEF Quiet, IInv
<1> HIDE DEF n
<1>3. /\ {TimerOp(n)} \in SUBSET Op /\ IsFiniteSet({TimerOp(n)})
      /\ ~Single(TimerOp(n)) /\ TimerOp(n) # ReadOp
      /\ WriteOp(n) # CloseOp /\ WriteOp(n).kind # "read"
      /\ Timers \in SUBSET Timers
  BY <1>2, OpFacts, FS_Singleton
    DEF TimerOp, Single, ReadOp, WriteOp, CloseOp
<1>4. Reading' <=> Reading
  BY <1>1, <1>2, <1>3, ReadingStays DEF owner
<1>5. QED
  BY <1>1, <1>4, AsideRefines, AsideIsKept

LEMMA HandleAbortedRefines ==
  ASSUME IInv, IInv', HandleAborted
  PROVE  Kept /\ Aside
<1>1. /\ alive /\ ready # <<>> /\ Head(ready).result = "aborted"
      /\ Proceed({}, {}) /\ UNCHANGED <<alive, connected_, owner>>
  BY DEF HandleAborted, Handles
<1>2. CASE Over
  <2>1. View' = View
    BY <1>1, <1>2, ViewNow, ViewThen DEF IInv, Control, Over, owner
  <2>2. QED
    BY <1>1, <2>1, AsideIsKept DEF Aside, owner
<1>3. CASE ~Over
  <2>1. \A j \in DOMAIN ready : ~(j < 1)
    BY Elements DEF IInv
  <2>2. Head(ready).op.kind = "timer"
    BY <1>1, <1>3, <2>1, HeadIsFirst DEF IInv, Control, AbortedTimers
  <2>3. Head(ready).op # CloseOp /\ Head(ready).op.kind # "read"
    BY <2>2 DEF CloseOp
  <2>4. {} \in SUBSET Op /\ IsFiniteSet({}) /\ {} \in SUBSET Timers
    BY FS_EmptySet
  <2>5. Reading' <=> Reading
    BY <1>1, <1>3, <2>3, <2>4, ReadingStays DEF owner
  <2>6. QED
    BY <1>1, <2>5, AsideRefines, AsideIsKept
<1>4. QED
  BY <1>2, <1>3

\* What has been read: the response that was waited for, something else, or
\* something that ends the receive loop.
LEMMA ReadRefines ==
  ASSUME IInv, IInv', \/ HandleCallback \/ HandleGarbledReply
                      \/ HandleGarbledEvent \/ HandleOther
  PROVE  /\ Kept
         /\ View = "up"
         /\ HandleCallback \/ HandleOther => View' = "up"
         /\ HandleGarbledReply \/ HandleGarbledEvent => View' = "deaf"
         /\ HandleCallback \/ HandleGarbledReply => outstanding' = None
         /\ HandleOther \/ HandleGarbledEvent => outstanding' = outstanding
<1>1. /\ Handles("read", "ok")
      /\ UNCHANGED <<alive, closing, connected_>>
  BY DEF HandleCallback, HandleGarbledReply, HandleGarbledEvent, HandleOther,
         owner
<1>2. ASSUME HandleCallback \/ HandleOther
      PROVE  View = "up" /\ View' = "up"
  <2>1. PICK cancelled \in SUBSET Timers : Proceed({ReadOp}, cancelled)
    BY <1>2 DEF HandleCallback, HandleOther
  <2>2. ReadOp \in ops'
    BY <2>1 DEF Proceed
  <2>3. QED
    BY <1>1, <2>1, <2>2, ReadHandled
<1>3. ASSUME HandleGarbledReply \/ HandleGarbledEvent
      PROVE  View = "up" /\ View' = "deaf"
  <2>1. PICK cancelled \in SUBSET Timers : Proceed({}, cancelled)
    BY <1>3 DEF HandleGarbledReply, HandleGarbledEvent
  <2>2. ReadOp \notin ops
    <3>1. 1 \in DOMAIN ready /\ ready[1].op = ReadOp /\ ~Over
      BY <1>1, LoudIsOfUse, HeadIsFirst, OpFacts DEF IInv, Handles, Quiet
    <3>2. QED
      BY <3>1 DEF IInv, Control, OneRead
  <2>3. ReadOp \notin ops'
    BY <2>1, <2>2 DEF Proceed
  <2>4. QED
    BY <1>1, <2>1, <2>3, ReadHandled
<1>4. outstanding \in Promise!Offer /\ None \in Promise!Offer
  BY DEF IInv, TypeOK, Promise!Offer
<1>5. ASSUME HandleCallback \/ HandleGarbledReply
      PROVE  outstanding # None /\ outstanding' = None
  BY <1>5 DEF HandleCallback, HandleGarbledReply, Matches, IInv, Control,
              LastIsOutstanding
<1>6. ASSUME HandleOther \/ HandleGarbledEvent
      PROVE  outstanding' = outstanding
  BY <1>6 DEF HandleGarbledEvent, HandleOther, owner
<1>7. ASSUME HandleCallback PROVE Kept
  <2>1. Promise!Answered(None)
    BY <1>2, <1>5, <1>7 DEF Promise!Answered
  <2>2. QED
    BY <1>4, <2>1 DEF Kept, Promise!Next
<1>8. ASSUME HandleOther PROVE Kept
  BY <1>2, <1>6, <1>8, AsideIsKept DEF Aside
<1>9. ASSUME HandleGarbledReply PROVE Kept
  <2>1. Promise!Garbled(None)
    BY <1>3, <1>5, <1>9 DEF Promise!Garbled
  <2>2. QED
    BY <1>4, <2>1 DEF Kept, Promise!Next
<1>10. ASSUME HandleGarbledEvent PROVE Kept
  <2>1. Promise!Garbled(outstanding)
    BY <1>3, <1>6, <1>10 DEF Promise!Garbled
  <2>2. QED
    BY <1>4, <2>1 DEF Kept, Promise!Next
<1>11. QED
  BY <1>2, <1>3, <1>5, <1>6, <1>7, <1>8, <1>9, <1>10

\* An error ends the client; close() ends the connection.
LEMMA GivenUpRefines ==
  ASSUME IInv, IInv',
         HandleError \/ HandleTimeout \/ HandleRefusal \/ HandleClosed
  PROVE  /\ Kept
         /\ ~HandleClosed => View' = "null" /\ outstanding' = None
<1>1. CASE HandleError \/ HandleTimeout \/ HandleRefusal
  <2>1. alive /\ alive' = FALSE /\ outstanding' = None
    BY <1>1 DEF HandleError, HandleTimeout, HandleRefusal, Handles, Report
  <2>2. View # "null" /\ View' = "null"
    BY <2>1, ViewNow, ViewThen DEF IInv, Control, Over
  <2>3. Promise!Failed
    BY <2>1, <2>2 DEF Promise!Failed
  <2>4. QED
    BY <2>1, <2>2, <2>3 DEF Kept, Promise!Next
<1>2. CASE HandleClosed
  <2>1. /\ alive /\ ready # <<>> /\ Head(ready).op.kind = "close"
        /\ Head(ready).result = "ok"
        /\ alive' = alive /\ closing' = "done" /\ outstanding' = None
    BY <1>2 DEF HandleClosed, Handles
  <2>2. ~Over /\ connected_
    BY <2>1, LoudIsOfUse DEF Quiet
  <2>3. View \in {"up", "deaf"} /\ View' = "closed"
    BY <2>1, <2>2, ViewNow, ViewThen DEF IInv, Control, Over
  <2>4. Promise!Closed
    BY <2>1, <2>3 DEF Promise!Closed
  <2>5. QED
    BY <1>2, <2>4 DEF Kept, Promise!Next
<1>3. QED
  BY <1>1, <1>2

LEMMA HandleOrphanRefines ==
  ASSUME IInv, IInv', HandleOrphan
  PROVE  Kept /\ Aside
<1>1. View' = View
  BY ViewNow, ViewThen DEF IInv, Control, HandleOrphan, Over
<1>2. QED
  BY <1>1, AsideIsKept DEF Aside, HandleOrphan, owner

LEMMA InitRefines == Init => Promise!Init
<1> SUFFICES ASSUME Init PROVE Promise!Init
  OBVIOUS
<1>1. ~Over /\ ~connected_ /\ outstanding = None
  BY DEF Init, Over
<1>2. View = "connecting"
  BY <1>1, InitIInv, ViewNow DEF IInv, Control
<1>3. QED
  BY <1>1, <1>2 DEF Promise!Init

LEMMA NextRefines == IInv /\ IInv' /\ [Next]_vars => Kept
<1> SUFFICES ASSUME IInv, IInv', [Next]_vars PROVE Kept
  OBVIOUS
<1>1. CASE UNCHANGED vars
  BY <1>1, OutsideRefines DEF vars, owner, Unfinished
<1>2. CASE (\E encodable \in BOOLEAN : Send(encodable)) \/ Close
  BY <1>2, OwnerRefines
<1>3. CASE \E m \in Message : ServerSends(m)
  BY <1>3, ServerSendsRefines
<1>4. CASE \E result \in {"ok", "error"} :
             \/ DialEnds(result)
             \/ \E n \in CallbackId, arrived \in BOOLEAN :
                  WriteEnds(n, result, arrived)
  BY <1>4, CompletionStep, OutsideRefines
<1>5. CASE \E result \in {"ok", "error"}, received \in BOOLEAN :
             CloseEnds(result, received)
  BY <1>5, CloseEndsStep, OutsideRefines
<1>6. CASE \/ CloseAborts \/ ReadEnds \/ ReadFails
           \/ \E n \in CallbackId : TimerFires(n)
  BY <1>6, CompletionStep, OutsideRefines
<1>7. CASE IoThread
  BY <1>7, HandleDialRefines, HandleWrittenRefines, HandleAbortedRefines,
     ReadRefines, GivenUpRefines, HandleOrphanRefines DEF IoThread
<1>8. QED
  BY <1>1, <1>2, <1>3, <1>4, <1>5, <1>6, <1>7 DEF Next

\* The client keeps its promise: to its owner it looks like one that has at
\* most one request outstanding, runs its callback at most once and is gone
\* after the error handler.
THEOREM KeepsPromise == Spec => PromiseSpec
<1>1. Init => Promise!Init
  BY InitRefines
<1>2. IInv /\ IInv' /\ [Next]_vars => [Promise!Next]_(Promise!vars)
  BY NextRefines DEF Kept
<1>3. QED
  BY <1>1, <1>2, Invariance, PTL DEF Spec, PromiseSpec, Promise!Spec

-----------------------------------------------------------------------------
(***************************************************************************)
(* What Stack needs besides: the server answers only what it received, and *)
(* what each step of the client means to its owner.                        *)
(***************************************************************************)

\* A request the server received was sent before, and what arrives from the
\* server is an answer to one of them or no answer at all.
AskedOnly ==
  /\ \A n \in got : n <= lastCallbackId_
  /\ \A i \in DOMAIN net : net[i].id \in got \cup {None}
  /\ \A i \in DOMAIN ready : ready[i].msg.id \in got \cup {None}

LEMMA InitAskedOnly == Init => AskedOnly
BY DEF Init, AskedOnly

\* The head of the queue was handled.
LEMMA TailAsked ==
  ASSUME IInv, AskedOnly, ready # <<>>, NEW cancelled \in SUBSET ops,
         \/ ready' = Tail(ready)
         \/ ready' = Tail(ready) \o Aborted(cancelled),
         UNCHANGED <<lastCallbackId_, network>>
  PROVE  AskedOnly'
<1>1. ready \in Seq(Completion)
  BY DEF IInv, TypeOK
<1>2. ASSUME NEW i \in DOMAIN ready'
      PROVE  \/ i + 1 \in DOMAIN ready /\ ready'[i] = ready[i + 1]
             \/ ready'[i].msg = NoMessage
  <2>1. CASE ready' = Tail(ready)
    BY <1>1, <2>1
  <2>2. CASE ready' = Tail(ready) \o Aborted(cancelled)
    <3>1. cancelled \in SUBSET Op /\ IsFiniteSet(cancelled)
      BY FS_Subset DEF IInv, TypeOK
    <3>2. Advances(cancelled)
      BY <1>1, <2>2, <3>1, AbortedType, AbortedFollow
    <3>3. QED
      BY <3>2 DEF Advances, Completed
  <2>3. QED
    BY <2>1, <2>2
<1>3. \A i \in DOMAIN ready' : ready'[i].msg.id \in got \cup {None}
  BY <1>2 DEF AskedOnly, NoMessage
<1>4. QED
  BY <1>3 DEF AskedOnly, network

LEMMA IoThreadAsked ==
  ASSUME IInv, AskedOnly, IoThread
  PROVE  AskedOnly'
<1>1. ready # <<>> /\ UNCHANGED <<lastCallbackId_, network>>
  BY DEF IoThread, HandleDial, HandleError, HandleAborted, HandleWritten,
         HandleTimeout, HandleClosed, HandleCallback, HandleRefusal,
         HandleGarbledReply, HandleGarbledEvent, HandleOther, HandleOrphan,
         Handles
<1>2. {} \in SUBSET ops /\ Timers \in SUBSET ops /\ ops \in SUBSET ops
  BY DEF Timers
<1>3. \/ ready' = Tail(ready)
      \/ \E cancelled \in {{}, Timers, ops} :
           ready' = Tail(ready) \o Aborted(cancelled)
  BY DEF IoThread, HandleDial, HandleError, HandleAborted, HandleWritten,
         HandleTimeout, HandleClosed, HandleCallback, HandleRefusal,
         HandleGarbledReply, HandleGarbledEvent, HandleOther, HandleOrphan,
         Report, Proceed
<1>4. QED
  BY <1>1, <1>2, <1>3, TailAsked

\* An operation completes with a message that has arrived, if any.
LEMMA CompletesAsked ==
  ASSUME IInv, AskedOnly, NEW op, NEW result, NEW msg,
         Completes(op, result, msg), msg.id \in got \cup {None},
         got \subseteq got', \A n \in got' : n <= lastCallbackId_,
         \A i \in DOMAIN net' : net'[i].id \in got \cup {None}
  PROVE  AskedOnly'
<1> DEFINE c == [op |-> op, result |-> result, msg |-> msg]
<1>1. /\ ready \in Seq(Completion) /\ ready' = Append(ready, c)
      /\ lastCallbackId_' = lastCallbackId_
  BY DEF Completes, IInv, TypeOK
<1>2. c.msg = msg
  OBVIOUS
<1> HIDE DEF c
<1>3. \A i \in DOMAIN ready' :
        \/ i \in DOMAIN ready /\ ready'[i] = ready[i]
        \/ ready'[i] = c
  BY <1>1
<1>4. QED
  BY <1>1, <1>2, <1>3 DEF AskedOnly

LEMMA NextAskedOnly == IInv /\ AskedOnly /\ [Next]_vars => AskedOnly'
<1> SUFFICES ASSUME IInv, AskedOnly, [Next]_vars PROVE AskedOnly'
  OBVIOUS
<1>1. CASE UNCHANGED vars
  BY <1>1 DEF vars, AskedOnly
<1>2. ASSUME NEW encodable \in BOOLEAN, Send(encodable) PROVE AskedOnly'
  <2>1. \A n \in got : n \in Nat
    BY IdFacts DEF IInv, TypeOK
  <2>2. lastCallbackId_ \in Nat
    BY ClientAssumption DEF IInv, TypeOK
  <2>3. \A n \in got : n <= lastCallbackId_ + 1
    BY <2>1, <2>2 DEF AskedOnly
  <2>4. QED
    BY <1>2, <2>3 DEF AskedOnly, Send, network
<1>3. CASE Close
  BY <1>3 DEF AskedOnly, Close, network
<1>4. ASSUME NEW m \in Message, ServerSends(m) PROVE AskedOnly'
  <2>1. net \in Seq(Message) /\ net' = Append(net, m)
    BY <1>4 DEF ServerSends, IInv, TypeOK
  <2>2. \A i \in DOMAIN net' : net'[i].id \in got \cup {None}
    <3>1. \A i \in DOMAIN net' :
            \/ i \in DOMAIN net /\ net'[i] = net[i]
            \/ net'[i] = m
      BY <2>1
    <3>2. QED
      BY <1>4, <3>1 DEF ServerSends, AskedOnly
  <2>3. QED
    BY <1>4, <2>2 DEF ServerSends, AskedOnly
<1>5. ASSUME NEW result \in {"ok", "error"}, DialEnds(result) PROVE AskedOnly'
  BY <1>5, CompletesAsked DEF DialEnds, AskedOnly, NoMessage, network
<1>6. ASSUME NEW result \in {"ok", "error"}, NEW n \in CallbackId,
             NEW arrived \in BOOLEAN, WriteEnds(n, result, arrived)
      PROVE  AskedOnly'
  <2>1. WriteOp(n) \in ops /\ WriteOp(n).id = n /\ WriteOp(n).kind = "write"
    BY <1>6 DEF WriteEnds, Completes, WriteOp
  <2>2. ~Over /\ n = outstanding
    BY <2>1 DEF IInv, Control, OverIsOver, WriteIsOutstanding, Unfinished
  <2>3. n = lastCallbackId_
    BY <2>2, IdFacts DEF IInv, Control, LastIsOutstanding
  <2>4. n <= lastCallbackId_
    BY <2>3, IdFacts
  <2>5. QED
    BY <1>6, <2>4, CompletesAsked DEF WriteEnds, AskedOnly, NoMessage
<1>7. CASE ReadEnds
  <2>1. net \in Seq(Message) /\ net # <<>> /\ net' = Tail(net)
    BY <1>7 DEF ReadEnds, IInv, TypeOK
  <2>2. /\ 1 \in DOMAIN net /\ Head(net) = net[1]
        /\ \A i \in DOMAIN net' : i + 1 \in DOMAIN net /\ net'[i] = net[i + 1]
    BY <2>1
  <2>3. QED
    BY <1>7, <2>2, CompletesAsked DEF ReadEnds, AskedOnly
<1>8. CASE ReadFails
  BY <1>8, CompletesAsked DEF ReadFails, AskedOnly, NoMessage, network
<1>9. ASSUME NEW n \in CallbackId, TimerFires(n) PROVE AskedOnly'
  BY <1>9, CompletesAsked DEF TimerFires, AskedOnly, NoMessage, network
<1>10. ASSUME NEW result \in {"ok", "error"}, NEW received \in BOOLEAN,
              CloseEnds(result, received)
       PROVE  AskedOnly'
  <2> DEFINE first == IF received THEN <<Completed(ReadOp, "error")>> ELSE <<>>
             final == IF ReadOp \in ops /\ ~received
                      THEN <<Completed(ReadOp, "aborted")>> ELSE <<>>
  <2>1. /\ ready \in Seq(Completion)
        /\ first \in Seq(Completion) /\ final \in Seq(Completion)
        /\ Completed(CloseOp, result) \in Completion
    BY OpFacts, CompletedType DEF IInv, TypeOK
  <2>2. /\ \A i \in DOMAIN first : first[i].msg = NoMessage
        /\ \A i \in DOMAIN final : final[i].msg = NoMessage
        /\ Completed(CloseOp, result).msg = NoMessage
    BY DEF Completed
  <2>3. ready' = ready \o first \o <<Completed(CloseOp, result)>> \o final
    BY <1>10 DEF CloseEnds
  <2> HIDE DEF first, final
  <2>4. \A i \in DOMAIN ready' :
          \/ i \in DOMAIN ready /\ ready'[i] = ready[i]
          \/ \E j \in DOMAIN first : ready'[i] = first[j]
          \/ ready'[i] = Completed(CloseOp, result)
          \/ \E j \in DOMAIN final : ready'[i] = final[j]
    BY <2>1, <2>3
  <2>5. \A i \in DOMAIN ready' :
          \/ i \in DOMAIN ready /\ ready'[i] = ready[i]
          \/ ready'[i].msg = NoMessage
    BY <2>2, <2>4
  <2>6. lastCallbackId_' = lastCallbackId_ /\ net' = net /\ got' = got
    BY <1>10 DEF CloseEnds, network
  <2>7. \A i \in DOMAIN ready' : ready'[i].msg.id \in got \cup {None}
    BY <2>5 DEF AskedOnly, NoMessage
  <2>8. QED
    BY <2>6, <2>7 DEF AskedOnly
<1>11. CASE IoThread
  BY <1>11, IoThreadAsked
<1>12. CASE CloseAborts
  BY <1>12, CompletesAsked DEF CloseAborts, AskedOnly, NoMessage, network
<1>13. QED
  BY <1>1, <1>2, <1>3, <1>4, <1>5, <1>6, <1>7, <1>8, <1>9, <1>10, <1>11, <1>12
     DEF Next

\* What each step means to the owner.
LEMMA OwnerSees ==
  ASSUME IInv, IInv'
  PROVE  /\ \A encodable \in BOOLEAN : Send(encodable) => View' = View
         /\ (\E m \in Message : ServerSends(m)) => Aside
         /\ \A result \in {"ok", "error"} :
              /\ DialEnds(result) => Aside
              /\ \A n \in CallbackId, arrived \in BOOLEAN :
                   WriteEnds(n, result, arrived) => Aside
         /\ ReadEnds \/ ReadFails => Aside
         /\ \A n \in CallbackId : TimerFires(n) => Aside
         /\ HandleWritten \/ HandleAborted \/ HandleOther \/ HandleOrphan =>
              Aside
         /\ HandleDial => View' = "up" /\ outstanding' = None
         /\ HandleError \/ HandleTimeout \/ HandleRefusal =>
              View' = "null" /\ outstanding' = None
         /\ HandleCallback => View' = "up" /\ outstanding' = None
         /\ HandleGarbledReply => View' = "deaf" /\ outstanding' = None
         /\ HandleGarbledEvent => View' = "deaf" /\ outstanding' = outstanding
<1>1. \A encodable \in BOOLEAN : Send(encodable) => View' = View
  BY OwnerRefines
<1>2. (\E m \in Message : ServerSends(m)) => Aside
  BY ServerSendsRefines
<1>3. \A result \in {"ok", "error"} :
        /\ DialEnds(result) => Aside
        /\ \A n \in CallbackId, arrived \in BOOLEAN :
             WriteEnds(n, result, arrived) => Aside
  BY CompletionStep, OutsideRefines
<1>4. /\ ReadEnds \/ ReadFails => Aside
      /\ \A n \in CallbackId : TimerFires(n) => Aside
  BY CompletionStep, OutsideRefines
<1>5. HandleWritten \/ HandleAborted \/ HandleOrphan => Aside
  BY HandleWrittenRefines, HandleAbortedRefines, HandleOrphanRefines
<1>6. HandleDial => View' = "up" /\ outstanding' = None
  BY HandleDialRefines
<1>7. HandleError \/ HandleTimeout \/ HandleRefusal =>
        View' = "null" /\ outstanding' = None
  <2>1. HandleError \/ HandleTimeout \/ HandleRefusal => outstanding' = None
    BY DEF HandleError, HandleTimeout, HandleRefusal, Report
  <2>2. HandleError \/ HandleTimeout \/ HandleRefusal => ~alive'
    BY DEF HandleError, HandleTimeout, HandleRefusal, Report
  <2>3. QED
    BY <2>1, <2>2, ViewThen DEF IInv, Control
<1>8. /\ HandleCallback => View' = "up" /\ outstanding' = None
      /\ HandleOther => Aside
      /\ HandleGarbledReply => View' = "deaf" /\ outstanding' = None
      /\ HandleGarbledEvent => View' = "deaf" /\ outstanding' = outstanding
  BY ReadRefines DEF Aside
<1>9. QED
  BY <1>1, <1>2, <1>3, <1>4, <1>5, <1>6, <1>7, <1>8

\* send() may be called whenever nothing is outstanding.
LEMMA Accepting ==
  ASSUME IInv, View \in {"up", "deaf"}, outstanding = None
  PROVE  /\ alive /\ connected_ /\ pending_ = None
         /\ \A o \in Unfinished : o.kind # "write"
<1>1. alive /\ connected_ /\ ~Over
  BY ViewNow DEF Over, IInv, Control
<1>2. pending_ = None
  BY DEF IInv, Control, LastIsOutstanding
<1>3. \A o \in Unfinished : o.kind # "write"
  BY <1>1, Elements, OpFacts, IdFacts DEF IInv, Control, WriteIsOutstanding
<1>4. QED
  BY <1>1, <1>2, <1>3

\* A request is outstanding from send() until its callback or the end, and
\* in between the server receives it.
LEMMA Outstanding ==
  ASSUME IInv, AskedOnly
  PROVE  /\ \A encodable \in BOOLEAN : Send(encodable) =>
              outstanding' # None /\ outstanding' \notin got /\ got' = got
         /\ \A n, result, arrived : WriteEnds(n, result, arrived) =>
              n = outstanding
         /\ HandleCallback => outstanding # None /\ outstanding \in got
<1>1. ASSUME NEW encodable \in BOOLEAN, Send(encodable)
      PROVE  outstanding' # None /\ outstanding' \notin got /\ got' = got
  <2>1. lastCallbackId_ \in Nat
    BY ClientAssumption DEF IInv, TypeOK
  <2>2. outstanding' = lastCallbackId_ + 1 /\ got' = got
    BY <1>1 DEF Send, network
  <2>3. outstanding' \notin got
    BY <2>1, <2>2 DEF AskedOnly
  <2>4. QED
    BY <2>1, <2>2, <2>3 DEF None
<1>2. ASSUME NEW n, NEW result, NEW arrived, WriteEnds(n, result, arrived)
      PROVE  n = outstanding
  <2>1. WriteOp(n) \in ops /\ WriteOp(n).id = n /\ WriteOp(n).kind = "write"
    BY <1>2 DEF WriteEnds, Completes, WriteOp
  <2>2. QED
    BY <2>1 DEF IInv, Control, OverIsOver, WriteIsOutstanding, Unfinished
<1>3. ASSUME HandleCallback
      PROVE  outstanding # None /\ outstanding \in got
  <2>1. /\ ready # <<>> /\ Head(ready).msg.id # None
        /\ Head(ready).msg.id = pending_
    BY <1>3 DEF HandleCallback, Handles, Matches
  <2>2. 1 \in DOMAIN ready /\ Head(ready) = ready[1]
    BY <2>1, HeadIsFirst DEF IInv
  <2>3. QED
    BY <2>1, <2>2 DEF IInv, Control, LastIsOutstanding, AskedOnly
<1>4. QED
  BY <1>1, <1>2, <1>3

\* The messages that have not been handled yet, and the requests that were
\* written or are being written.
Arriving ==
  {net[i] : i \in DOMAIN net} \cup {ready[i].msg : i \in DOMAIN ready}
Submitted == got \cup {n \in CallbackId : WriteOp(n) \in Unfinished}

\* No step but the server's makes a message, and none but send() writes.
NothingNew ==
  /\ Arriving' \subseteq Arriving \cup {NoMessage}
  /\ Submitted' \subseteq Submitted

\* An operation completes.
LEMMA CompletesNothingNew ==
  ASSUME IInv, NEW op, NEW result, NEW msg, Completes(op, result, msg),
         msg \in Arriving \cup {NoMessage},
         net' = net \/ (net # <<>> /\ net' = Tail(net)),
         got' \subseteq Submitted, UNCHANGED Unfinished
  PROVE  NothingNew
<1> DEFINE c == [op |-> op, result |-> result, msg |-> msg]
<1>1. /\ ready \in Seq(Completion) /\ ready' = Append(ready, c)
      /\ net \in Seq(Message)
  BY DEF Completes, IInv, TypeOK
<1>2. c.msg = msg
  OBVIOUS
<1> HIDE DEF c
<1>3. \A i \in DOMAIN ready' :
        \/ i \in DOMAIN ready /\ ready'[i] = ready[i]
        \/ ready'[i] = c
  BY <1>1
<1>4. \A i \in DOMAIN net' : \E j \in DOMAIN net : net'[i] = net[j]
  <2>1. CASE net' = net
    BY <2>1
  <2>2. CASE net # <<>> /\ net' = Tail(net)
    <3>1. \A i \in DOMAIN net' : i + 1 \in DOMAIN net /\ net'[i] = net[i + 1]
      BY <1>1, <2>2
    <3>2. QED
      BY <3>1
  <2>3. QED
    BY <2>1, <2>2
<1>5. \A i \in DOMAIN ready' : ready'[i].msg \in Arriving \cup {NoMessage}
  BY <1>2, <1>3 DEF Arriving
<1>6. \A i \in DOMAIN net' : net'[i] \in Arriving
  BY <1>4 DEF Arriving
<1>7. Arriving' \subseteq Arriving \cup {NoMessage}
  BY <1>5, <1>6 DEF Arriving
<1>8. Submitted' \subseteq Submitted
  BY DEF Submitted
<1>9. QED
  BY <1>7, <1>8 DEF NothingNew

LEMMA CompletionNothingNew ==
  ASSUME IInv,
         \/ \E result \in {"ok", "error"} :
              \/ DialEnds(result)
              \/ \E n \in CallbackId, arrived \in BOOLEAN :
                   WriteEnds(n, result, arrived)
         \/ ReadEnds
         \/ ReadFails
         \/ \E n \in CallbackId : TimerFires(n)
  PROVE  NothingNew
<1>1. UNCHANGED Unfinished
  BY CompletionStep
<1>2. got \subseteq Submitted /\ NoMessage \in Arriving \cup {NoMessage}
  BY DEF Submitted
<1>3. ASSUME NEW result \in {"ok", "error"}, DialEnds(result)
      PROVE  NothingNew
  BY <1>1, <1>2, <1>3, CompletesNothingNew DEF DialEnds, network
<1>4. ASSUME NEW result \in {"ok", "error"}, NEW n \in CallbackId,
             NEW arrived \in BOOLEAN, WriteEnds(n, result, arrived)
      PROVE  NothingNew
  <2>1. WriteOp(n) \in Unfinished
    BY <1>4 DEF WriteEnds, Completes, Unfinished
  <2>2. got' \subseteq Submitted
    BY <1>4, <2>1 DEF WriteEnds, Submitted
  <2>3. QED
    BY <1>1, <1>2, <1>4, <2>2, CompletesNothingNew DEF WriteEnds
<1>5. CASE ReadEnds
  <2>1. net \in Seq(Message) /\ net # <<>>
    BY <1>5 DEF ReadEnds, IInv, TypeOK
  <2>2. 1 \in DOMAIN net /\ Head(net) = net[1]
    BY <2>1
  <2>3. Head(net) \in Arriving
    BY <2>2 DEF Arriving
  <2>4. QED
    BY <1>1, <1>2, <1>5, <2>3, CompletesNothingNew DEF ReadEnds
<1>6. CASE ReadFails
  BY <1>1, <1>2, <1>6, CompletesNothingNew DEF ReadFails, network
<1>7. ASSUME NEW n \in CallbackId, TimerFires(n)
      PROVE  NothingNew
  BY <1>1, <1>2, <1>7, CompletesNothingNew DEF TimerFires, network
<1>8. QED
  BY <1>3, <1>4, <1>5, <1>6, <1>7

\* A handler starts reads and timers, and what it cancels has no message.
LEMMA HandlerNothingNew ==
  ASSUME IInv, IoThread
  PROVE  NothingNew
<1>1. ready # <<>> /\ UNCHANGED network
  BY DEF IoThread, HandleDial, HandleError, HandleAborted, HandleWritten,
         HandleTimeout, HandleClosed, HandleCallback, HandleRefusal,
         HandleGarbledReply, HandleGarbledEvent, HandleOther, HandleOrphan,
         Handles
<1>2. \/ ready' = Tail(ready) /\ ops' = ops
      \/ \E n : \E cancelled \in {{}, Timers, ops},
                started \in {{}, {ReadOp}, {TimerOp(n)}} :
           Proceed(started, cancelled)
  BY DEF IoThread, HandleDial, HandleError, HandleAborted, HandleWritten,
         HandleTimeout, HandleClosed, HandleCallback, HandleRefusal,
         HandleGarbledReply, HandleGarbledEvent, HandleOther, HandleOrphan,
         Report
<1>3. /\ \A o \in ops' : o \in ops \/ o.kind # "write"
      /\ \/ ready' = Tail(ready)
         \/ \E cancelled \in SUBSET ops :
              ready' = Tail(ready) \o Aborted(cancelled)
  <2>1. CASE ready' = Tail(ready) /\ ops' = ops
    BY <2>1
  <2>2. ASSUME NEW cancelled \in {{}, Timers, ops}, NEW n,
               NEW started \in {{}, {ReadOp}, {TimerOp(n)}},
               Proceed(started, cancelled)
        PROVE  /\ \A o \in ops' : o \in ops \/ o.kind # "write"
               /\ \E c \in SUBSET ops : ready' = Tail(ready) \o Aborted(c)
    <3>1. \A o \in started : o.kind # "write"
      BY DEF ReadOp, TimerOp
    <3>2. cancelled \in SUBSET ops
      BY DEF Timers
    <3>3. QED
      BY <2>2, <3>1, <3>2 DEF Proceed
  <2>3. QED
    BY <1>2, <2>1, <2>2
<1>4. ready \in Seq(Completion)
  BY DEF IInv, TypeOK
<1>5. ASSUME NEW i \in DOMAIN ready'
      PROVE  \/ \E j \in DOMAIN ready : ready'[i] = ready[j]
             \/ \E o \in ops : ready'[i] = Completed(o, "aborted")
  <2>1. CASE ready' = Tail(ready)
    <3>1. i + 1 \in DOMAIN ready /\ ready'[i] = ready[i + 1]
      BY <1>1, <1>4, <2>1
    <3>2. QED
      BY <3>1
  <2>2. CASE \E c \in SUBSET ops : ready' = Tail(ready) \o Aborted(c)
    <3>1. PICK c \in SUBSET ops : ready' = Tail(ready) \o Aborted(c)
      BY <2>2
    <3>2. c \in SUBSET Op /\ IsFiniteSet(c)
      BY FS_Subset DEF IInv, TypeOK
    <3>3. Advances(c)
      BY <1>1, <1>4, <3>1, <3>2, AbortedType, AbortedFollow
    <3>4. QED
      BY <3>3 DEF Advances
  <2>3. QED
    BY <1>3, <2>1, <2>2
<1>6. \A i \in DOMAIN ready' : ready'[i].msg \in Arriving \cup {NoMessage}
  BY <1>5 DEF Arriving, Completed
<1>7. Arriving' \subseteq Arriving \cup {NoMessage}
  BY <1>1, <1>6 DEF Arriving, network
<1>8. \A i \in DOMAIN ready' : ready'[i].op \in Unfinished
  BY <1>5 DEF Completed, Unfinished
<1>9. \A n \in CallbackId : WriteOp(n) \in Unfinished' =>
        WriteOp(n) \in Unfinished
  BY <1>3, <1>8 DEF Unfinished, WriteOp
<1>10. Submitted' \subseteq Submitted
  BY <1>1, <1>9 DEF Submitted, network
<1>11. QED
  BY <1>7, <1>10 DEF NothingNew

\* The server's message is the only new one, and send() writes its request if
\* it can be encoded.
LEMMA ServerSendsMessage ==
  ASSUME IInv, NEW m \in Message, ServerSends(m)
  PROVE  Arriving' \subseteq Arriving \cup {m} /\ Submitted' = Submitted
<1>1. net \in Seq(Message) /\ net' = Append(net, m)
  BY DEF ServerSends, IInv, TypeOK
<1>2. \A i \in DOMAIN net' :
        \/ i \in DOMAIN net /\ net'[i] = net[i]
        \/ net'[i] = m
  BY <1>1
<1>3. UNCHANGED <<ready, ops, got>>
  BY DEF ServerSends
<1>4. QED
  BY <1>2, <1>3 DEF Arriving, Submitted, Unfinished

LEMMA SendWrites ==
  ASSUME IInv, AskedOnly, NEW encodable \in BOOLEAN, Send(encodable)
  PROVE  /\ \A m \in Arriving' : m.id # outstanding'
         /\ outstanding' \in Submitted' => encodable
<1>1. /\ outstanding' # None /\ outstanding' \notin got /\ got' = got
      /\ outstanding = None
  BY Outstanding DEF Send
<1>2. UNCHANGED <<net, ready>>
  BY DEF Send, network
<1>3. \A m \in Arriving' : m.id \in got \cup {None}
  BY <1>2 DEF Arriving, AskedOnly
<1>4. \A m \in Arriving' : m.id # outstanding'
  BY <1>1, <1>3
<1>5. ASSUME outstanding' \in Submitted', ~encodable
      PROVE  FALSE
  <2>1. ops' = ops
    BY <1>5 DEF Send
  <2>2. PICK n \in CallbackId : n = outstanding' /\ WriteOp(n) \in Unfinished
    BY <1>1, <1>2, <1>5, <2>1 DEF Submitted, Unfinished
  <2>3. ~Over
    BY DEF Send, MayUse, Over
  <2>4. n = outstanding
    BY <2>2, <2>3 DEF IInv, Control, WriteIsOutstanding, WriteOp
  <2>5. QED
    BY <1>1, <2>2, <2>4
<1>6. QED
  BY <1>4, <1>5

\* What the head of the completions is when close() was not called.
LEMMA HeadFits ==
  ASSUME IInv, closing = "no"
  PROVE  /\ alive => View # "null"
         /\ \A result : ~Handles("close", result)
         /\ \A kind : Handles(kind, "aborted") => kind = "timer"
         /\ Handles("dial", "ok") => View = "connecting"
         /\ Handles("timer", "ok") => View \in {"up", "deaf"}
         /\ Handles("read", "ok") => View = "up"
         /\ Handles("read", "ok") /\ Matches(Head(ready).msg) =>
              /\ outstanding # None /\ Head(ready).msg.id = outstanding
              /\ Head(ready).msg \in Arriving
<1>0. alive => View # "null"
  BY DEF View
<1>1. SUFFICES ASSUME alive, ready # <<>>
               PROVE  /\ \A result : ~Handles("close", result)
                      /\ \A kind : Handles(kind, "aborted") => kind = "timer"
                      /\ Handles("dial", "ok") => View = "connecting"
                      /\ Handles("timer", "ok") => View \in {"up", "deaf"}
                      /\ Handles("read", "ok") => View = "up"
                      /\ Handles("read", "ok") /\ Matches(Head(ready).msg) =>
                           /\ outstanding # None
                           /\ Head(ready).msg.id = outstanding
                           /\ Head(ready).msg \in Arriving
  BY <1>0 DEF Handles
<1>2. /\ ~Over /\ 1 \in DOMAIN ready /\ Head(ready) = ready[1]
      /\ Head(ready).op \in Op /\ Head(ready).op \in Unfinished
  BY <1>1, HeadIsFirst DEF IInv, Over
<1>3. CASE Handles("dial", "ok")
  <2>1. ~connected_
    BY <1>1, <1>3, LoudIsOfUse DEF Handles, Quiet
  <2>2. QED
    BY <1>2, <1>3, <2>1, ViewNow DEF IInv, Control, Handles
<1>4. CASE Handles("timer", "ok")
  <2>1. connected_
    <3>1. Head(ready).op # DialOp
      BY <1>4 DEF Handles, DialOp
    <3>2. QED
      BY <1>2, <3>1 DEF IInv, Control, DialFirst
  <2>2. QED
    BY <1>2, <1>4, <2>1, ViewNow DEF IInv, Control, Handles
<1>5. CASE Handles("read", "ok")
  <2>1. connected_
    BY <1>1, <1>5, LoudIsOfUse DEF Handles, Quiet
  <2>2. Reading
    BY <1>2, <1>5, OpFacts DEF Handles, Reading
  <2>3. View = "up"
    BY <1>2, <2>1, <2>2, ViewNow DEF IInv, Control
  <2>4. ASSUME Matches(Head(ready).msg)
        PROVE  outstanding # None /\ Head(ready).msg.id = outstanding
    BY <2>4 DEF Matches, IInv, Control, LastIsOutstanding
  <2>5. Head(ready).msg \in Arriving
    BY <1>2 DEF Arriving
  <2>6. QED
    BY <1>5, <2>3, <2>4, <2>5 DEF Handles
<1>6. CloseOp \notin Unfinished
  BY <1>2 DEF IInv, Control, CloseLast
<1>7. \A result : ~Handles("close", result)
  BY <1>2, <1>6, OpFacts DEF Handles
<1>8. \A j \in DOMAIN ready : ready[j].op # CloseOp
  BY <1>6 DEF Unfinished
<1>9. Head(ready).result = "aborted" => Head(ready).op.kind = "timer"
  BY <1>2, <1>8 DEF IInv, Control, AbortedTimers
<1>10. \A kind : Handles(kind, "aborted") => kind = "timer"
  BY <1>9 DEF Handles
<1>11. QED
  BY <1>3, <1>4, <1>5, <1>7, <1>10
=============================================================================
