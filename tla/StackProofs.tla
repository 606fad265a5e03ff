----------------------------- MODULE StackProofs -----------------------------
(***************************************************************************)
(* Proofs about Stack, for every number of calls, requests, messages and   *)
(* errors: Service over Client behaves as Service does over the promise of *)
(* its client, what each believes of the other is so, and the server gets  *)
(* every call in order.                                                    *)
(*                                                                         *)
(* The invariants of the two are those of ServiceProofs and ClientProofs,  *)
(* whose lemmas are used here: every step is a step of Service or leaves   *)
(* it alone, and a step of Client or the making of a new one.              *)
(***************************************************************************)
EXTENDS Stack, SequenceTheorems, TLAPS

SP == INSTANCE ServiceProofs WITH
  MaxFaults     <- MaxErrors,
  Misbehaviours <- {"lost", "rejected", "garbledEvent", "garbledReply"}
CP == INSTANCE ClientProofs

-----------------------------------------------------------------------------
(***************************************************************************)
(* The definitions of Service and Client as the proofs about them see them *)
(***************************************************************************)

LEMMA ServiceConstants ==
  /\ Kinds \subseteq SP!Queries \cup SP!Commands
  /\ Refused \subseteq Kinds \cap SP!Checked
  /\ Undumpable \subseteq Kinds \ Refused
  /\ MaxCalls \in Nat
  /\ MaxErrors \in Nat
BY StackAssumption DEF S!ConstantsAssumption, S!Queries, SP!Queries,
   S!Commands, SP!Commands, S!Checked, SP!Checked

LEMMA ClientConstants == MaxSends \in Nat /\ MaxMessages \in Nat
BY StackAssumption DEF C!ClientAssumption

LEMMA SameEntries == S!Call = SP!Call /\ S!NoEntry = SP!NoEntry
BY DEF S!Call, SP!Call, S!NoEntry, SP!NoEntry

LEMMA SameService ==
  /\ S!Init => SP!Init
  /\ [S!Next]_(S!vars) => [SP!Next]_(SP!vars)
BY DEF
  S!Queries, SP!Queries, S!Commands, SP!Commands, S!Checked, SP!Checked,
  S!Unread, SP!Unread, S!EventQuery, SP!EventQuery, S!Login, SP!Login,
  S!Call, SP!Call, S!Entry, SP!Entry, S!NoEntry, SP!NoEntry, S!vars, SP!vars,
  S!RetryTimeout, SP!RetryTimeout, S!NextSend, SP!NextSend, S!Start, SP!Start,
  S!HandleSent, SP!HandleSent, S!HandleError, SP!HandleError,
  S!Written, SP!Written, S!Misbehave, SP!Misbehave, S!Init, SP!Init,
  S!Subscribe, SP!Subscribe, S!Send, SP!Send,
  S!RequestQuery, SP!RequestQuery, S!RequestCommand, SP!RequestCommand,
  S!HandleEvent, SP!HandleEvent, S!Reconnect, SP!Reconnect,
  S!HandleConnected, SP!HandleConnected, S!HandleLogin, SP!HandleLogin,
  S!HandleReply, SP!HandleReply, S!HandleRefusal, SP!HandleRefusal,
  S!ConnectionLost, SP!ConnectionLost, S!DeafTimeout, SP!DeafTimeout,
  S!GarbledEvent, SP!GarbledEvent, S!GarbledReply, SP!GarbledReply,
  S!Next, SP!Next, S!Link!Init, SP!Link!Init, S!Link!Dial, SP!Link!Dial,
  S!Link!Established, SP!Link!Established, S!Link!Post, SP!Link!Post,
  S!Link!Answered, SP!Link!Answered, S!Link!Garbled, SP!Link!Garbled,
  S!Link!Failed, SP!Link!Failed

LEMMA SameView == /\ C!View = CP!View /\ C!None = CP!None
                  /\ C!CallbackId = CP!CallbackId
                  /\ C!Unfinished = CP!Unfinished
BY DEF C!View, CP!View, C!Reading, CP!Reading, C!Unfinished, CP!Unfinished,
  C!ReadOp, CP!ReadOp, C!None, CP!None, C!CallbackId, CP!CallbackId

LEMMA SameClient ==
  /\ C!Init <=> CP!Init
  /\ \A encodable \in BOOLEAN : C!Send(encodable) => CP!Send(encodable)
  /\ \A m : C!ServerSends(m) => CP!ServerSends(m)
  /\ \A result : C!DialEnds(result) => CP!DialEnds(result)
  /\ \A n, result, arrived :
       C!WriteEnds(n, result, arrived) => CP!WriteEnds(n, result, arrived)
  /\ C!ReadEnds => CP!ReadEnds
  /\ C!ReadFails => CP!ReadFails
  /\ \A n : C!TimerFires(n) => CP!TimerFires(n)
  /\ C!HandleDial => CP!HandleDial
  /\ C!HandleError => CP!HandleError
  /\ C!HandleAborted => CP!HandleAborted
  /\ C!HandleWritten => CP!HandleWritten
  /\ C!HandleTimeout => CP!HandleTimeout
  /\ C!HandleCallback => CP!HandleCallback
  /\ C!HandleRefusal => CP!HandleRefusal
  /\ C!HandleGarbledReply => CP!HandleGarbledReply
  /\ C!HandleGarbledEvent => CP!HandleGarbledEvent
  /\ C!HandleOther => CP!HandleOther
  /\ C!HandleOrphan => CP!HandleOrphan
BY DEF
  C!None, CP!None, C!NoMessage, CP!NoMessage, C!DialOp, CP!DialOp,
  C!ReadOp, CP!ReadOp, C!CloseOp, CP!CloseOp, C!WriteOp, CP!WriteOp,
  C!TimerOp, CP!TimerOp, C!network, CP!network, C!owner, CP!owner,
  C!Completed, CP!Completed, C!Timers, CP!Timers, C!Aborted, CP!Aborted,
  C!SetToSeq, CP!SetToSeq, C!IsInjective, CP!IsInjective,
  C!Cardinality, CP!Cardinality, C!Proceed, CP!Proceed, C!Report, CP!Report,
  C!Handles, CP!Handles, C!MayUse, CP!MayUse, C!Completes, CP!Completes,
  C!StreamOpen, CP!StreamOpen, C!Matches, CP!Matches, C!Init, CP!Init,
  C!Send, CP!Send, C!ServerSends, CP!ServerSends, C!DialEnds, CP!DialEnds,
  C!WriteEnds, CP!WriteEnds, C!ReadEnds, CP!ReadEnds,
  C!ReadFails, CP!ReadFails, C!TimerFires, CP!TimerFires,
  C!HandleDial, CP!HandleDial, C!HandleError, CP!HandleError,
  C!HandleAborted, CP!HandleAborted, C!HandleWritten, CP!HandleWritten,
  C!HandleTimeout, CP!HandleTimeout, C!HandleCallback, CP!HandleCallback,
  C!HandleRefusal, CP!HandleRefusal,
  C!HandleGarbledReply, CP!HandleGarbledReply,
  C!HandleGarbledEvent, CP!HandleGarbledEvent,
  C!HandleOther, CP!HandleOther, C!HandleOrphan, CP!HandleOrphan

-----------------------------------------------------------------------------
(***************************************************************************)
(* Every step is a step of Service.                                        *)
(***************************************************************************)

LEMMA ServiceSteps == [Next]_vars => [S!Next]_(S!vars)
<1> SUFFICES ASSUME [Next]_vars PROVE S!Next \/ UNCHANGED svars
  BY DEF S!vars, svars
<1>1. CASE UNCHANGED vars
  BY <1>1 DEF vars
<1>2. CASE Application
  BY <1>2 DEF Application, S!Next
<1>3. CASE Reconnect
  BY <1>3 DEF Reconnect, S!Next
<1>4. CASE \E result \in {"ok", "error"} :
             \/ DialEnds(result)
             \/ \E arrived \in BOOLEAN : WriteEnds(result, arrived)
  BY <1>4 DEF DialEnds, WriteEnds
<1>5. CASE ReadEnds \/ ReadFails \/ TimerFires
  BY <1>5 DEF ReadEnds, ReadFails, TimerFires
<1>6. CASE \E verdict \in {"ok", "nok", "malformed"} :
             Answers(verdict) \/ Notifies(verdict)
  BY <1>6 DEF Answers, Notifies
<1>7. CASE IoThread
  <2>1. CASE SendOwed
    BY <2>1 DEF SendOwed
  <2>2. CASE Handler
    BY <2>2 DEF Handler, S!Next
  <2>3. QED
    BY <1>7, <2>1, <2>2 DEF IoThread
<1>8. QED
  BY <1>1, <1>2, <1>3, <1>4, <1>5, <1>6, <1>7 DEF Next

\* The actions of Stack are made of those of Service, so that what was proved of
\* Service holds here.
LEMMA ImplementsService == Spec => S!Spec
<1>1. Init => S!Init
  BY DEF Init
<1>2. QED
  BY <1>1, ServiceSteps, PTL DEF Spec, S!Spec

-----------------------------------------------------------------------------
(***************************************************************************)
(* The invariant                                                           *)
(***************************************************************************)

\* What each believes of the other (ViewsAgree).
Views ==
  /\ client = CP!View
  /\ outstanding # CP!None => inflight # S!NoEntry
  /\ inflight # S!NoEntry => outstanding # CP!None \/ client \in {"up", "deaf"}

\* The server received the completed calls and at most the next one, and that
\* one if it is the call in flight and the server has it.
Received ==
  /\ served \in Seq(Nat)
  /\ ServedInOrder
  /\ done \in Seq(Nat)
  /\ Len(served) \in {Len(done), Len(done) + 1}
  /\ inflight \in S!Call /\ outstanding \in got =>
       Len(served) = Len(done) + 1

IInv ==
  /\ SP!IInv
  /\ CP!IInv
  /\ CP!AskedOnly
  /\ Views
  /\ Received

LEMMA ServiceInit == SP!Init => SP!IInv
BY ServiceConstants, SP!InitIInv

LEMMA ServiceNext == SP!IInv /\ [SP!Next]_(SP!vars) => SP!IInv'
BY ServiceConstants, SP!NextIInv

LEMMA ClientInit == CP!Init => CP!IInv /\ CP!AskedOnly
BY ClientConstants, CP!InitIInv, CP!InitAskedOnly

LEMMA ClientNext ==
  CP!IInv /\ CP!AskedOnly /\ [CP!Next]_(CP!vars) => CP!IInv' /\ CP!AskedOnly'
BY ClientConstants, CP!NextIInv, CP!NextAskedOnly

\* The types that matter here.
LEMMA Types ==
  /\ CP!IInv => outstanding \in CP!CallbackId \cup {CP!None}
                  /\ got \subseteq CP!CallbackId /\ CP!None \notin got
  /\ SP!IInv => done \in Seq(Nat)
BY DEF CP!IInv, CP!TypeOK, CP!CallbackId, CP!None, SP!IInv, SP!TypeOK

LEMMA InitIInv == Init => IInv
<1> SUFFICES ASSUME Init PROVE IInv
  OBVIOUS
<1>1. SP!Init /\ CP!Init
  BY SameService, SameClient DEF Init
<1>2. SP!IInv /\ CP!IInv /\ CP!AskedOnly
  BY <1>1, ServiceInit, ClientInit
<1>3. Views
  BY DEF Init, S!Init, S!Link!Init, C!Init, C!None, Views, CP!View, CP!None
<1>4. Received
  <2>1. <<>> \in Seq(Nat) /\ Len(<<>>) = 0 /\ DOMAIN <<>> = {}
    OBVIOUS
  <2>2. served = <<>> /\ done = <<>> /\ got = {}
    BY DEF Init, S!Init, C!Init
  <2>3. QED
    BY <2>1, <2>2 DEF Received, ServedInOrder
<1>5. QED
  BY <1>2, <1>3, <1>4 DEF IInv

-----------------------------------------------------------------------------
(***************************************************************************)
(* The steps of the client, and a new one                                  *)
(***************************************************************************)

LEMMA AnswerIsMessage ==
  ASSUME CP!IInv, NEW verdict \in {"ok", "nok", "malformed"}
  PROVE  /\ [id |-> outstanding, verdict |-> verdict] \in CP!Message
         /\ [id |-> C!None, verdict |-> verdict] \in CP!Message
BY Types, SameView DEF CP!Message

LEMMA ClientSteps ==
  ASSUME IInv, [Next]_vars, ~Reconnect
  PROVE  [CP!Next]_(CP!vars)
<1> USE SameClient
<1>1. CASE UNCHANGED cvars
  BY <1>1 DEF cvars, CP!vars
<1>2. CASE UNCHANGED vars
  BY <1>1, <1>2 DEF vars
<1>3. CASE Application
  BY <1>1, <1>3 DEF Application
<1>4. ASSUME NEW result \in {"ok", "error"}, DialEnds(result)
      PROVE  CP!Next
  BY <1>4 DEF DialEnds, CP!Next
<1>5. ASSUME NEW result \in {"ok", "error"}, NEW arrived \in BOOLEAN,
             WriteEnds(result, arrived)
      PROVE  CP!Next
  BY <1>5, SameView DEF WriteEnds, CP!Next
<1>6. CASE ReadEnds \/ ReadFails \/ TimerFires
  BY <1>6, SameView DEF ReadEnds, ReadFails, TimerFires, CP!Next
<1>7. ASSUME NEW verdict \in {"ok", "nok", "malformed"},
             Answers(verdict) \/ Notifies(verdict)
      PROVE  CP!Next
  <2>1. \E m \in CP!Message : CP!ServerSends(m)
    BY <1>7, AnswerIsMessage DEF Answers, Notifies, IInv
  <2>2. QED
    BY <2>1 DEF CP!Next
<1>8. CASE IoThread
  <2>1. CASE SendOwed
    <3>1. \E encodable \in BOOLEAN : CP!Send(encodable)
      BY <2>1 DEF SendOwed
    <3>2. QED
      BY <3>1 DEF CP!Next
  <2>2. CASE Handler
    <3>1. CP!IoThread
      BY <2>2 DEF Handler, CP!IoThread
    <3>2. QED
      BY <3>1 DEF CP!Next
  <2>3. QED
    BY <1>8, <2>1, <2>2 DEF IoThread
<1>9. QED
  BY <1>2, <1>3, <1>4, <1>5, <1>6, <1>7, <1>8 DEF Next

\* A new client starts as the first one did.
LEMMA NewClient == Reconnect => CP!Init'
BY DEF Reconnect, Running, CP!Init, C!None, CP!None, C!DialOp, CP!DialOp

LEMMA ClientStep ==
  ASSUME IInv, [Next]_vars
  PROVE  CP!IInv' /\ CP!AskedOnly'
<1>1. CASE Reconnect
  <2>1. CP!Init' => CP!IInv' /\ CP!AskedOnly'
    BY ClientInit, PTL
  <2>2. QED
    BY <1>1, <2>1, NewClient
<1>2. CASE ~Reconnect
  BY <1>2, ClientSteps, ClientNext DEF IInv
<1>3. QED
  BY <1>1, <1>2

-----------------------------------------------------------------------------
(***************************************************************************)
(* What the two do together.                                               *)
(***************************************************************************)

\* Service may have handed a request to a client that has nothing to do.
Asks ==
  /\ UNCHANGED <<client, done>>
  /\ \/ UNCHANGED inflight
     \/ /\ inflight = S!NoEntry
        /\ inflight' # S!NoEntry
        /\ client \in {"up", "deaf"}

LEMMA AsksWhen ==
  /\ UNCHANGED svars => Asks
  /\ \A k : S!Subscribe(k) \/ S!RequestQuery(k) \/ S!RequestCommand(k) => Asks
  /\ \A e : S!HandleEvent(e) => Asks
<1>1. ASSUME NEW k, S!Send(k) PROVE Asks
  BY <1>1 DEF S!Send, S!Link!Post, Asks
<1>2. QED
  BY <1>1 DEF svars, S!Subscribe, S!RequestQuery, S!RequestCommand,
              S!HandleEvent, Asks

\* The client goes on as before.
LEMMA AsideStep ==
  ASSUME IInv, Asks, CP!Aside, UNCHANGED <<got, served>>
  PROVE  Views' /\ Received'
<1>1. CP!View' = CP!View /\ outstanding' = outstanding
  BY DEF CP!Aside
<1>2. Views'
  BY <1>1 DEF IInv, Views, Asks
<1>3. inflight' \in S!Call /\ outstanding \in got => inflight' = inflight
  BY Types, SameView DEF IInv, Views, Asks
<1>4. Received'
  BY <1>1, <1>3 DEF IInv, Received, ServedInOrder, Asks
<1>5. QED
  BY <1>2, <1>4

\* Nothing is outstanding any more, or not yet.
LEMMA SettledStep ==
  ASSUME IInv, CP!IInv', SP!IInv', outstanding' = CP!None,
         client' = CP!View',
         inflight' = S!NoEntry \/ client' \in {"up", "deaf"},
         served' = served,
         Len(served) \in {Len(done'), Len(done') + 1}
  PROVE  Views' /\ Received'
<1>1. Views'
  BY DEF Views
<1>2. outstanding' \notin got' /\ done' \in Seq(Nat)
  BY Types DEF CP!IInv, CP!TypeOK, CP!CallbackId, CP!None, SP!IInv, SP!TypeOK
<1>3. Received'
  BY <1>2 DEF IInv, Received, ServedInOrder
<1>4. QED
  BY <1>1, <1>3

\* A call that is completed was received.
LEMMA ReplyWasServed ==
  ASSUME IInv, SP!IInv', CP!HandleCallback, S!HandleLogin \/ S!HandleReply
  PROVE  Len(served) \in {Len(done'), Len(done') + 1}
<1>1. outstanding \in got
  BY ClientConstants, CP!Outstanding DEF IInv
<1>2. CASE S!HandleLogin
  BY <1>2 DEF S!HandleLogin, IInv, Received
<1>3. CASE S!HandleReply
  <2>1. inflight \in S!Call /\ done' = Append(done, inflight.id)
    BY <1>3 DEF S!HandleReply
  <2>2. Len(served) = Len(done) + 1
    BY <1>1, <2>1 DEF IInv, Received
  <2>3. Len(done') = Len(done) + 1
    BY <2>1 DEF IInv, Received
  <2>4. QED
    BY <2>2, <2>3
<1>4. QED
  BY <1>2, <1>3

LEMMA HandlerStep ==
  ASSUME IInv, SP!IInv', CP!IInv', Handler, UNCHANGED served
  PROVE  Views' /\ Received'
<1>1. /\ CP!HandleWritten \/ CP!HandleAborted \/ CP!HandleOther
            \/ CP!HandleOrphan => CP!Aside
      /\ CP!HandleDial => CP!View' = "up" /\ outstanding' = CP!None
      /\ CP!HandleError \/ CP!HandleTimeout \/ CP!HandleRefusal =>
           CP!View' = "null" /\ outstanding' = CP!None
      /\ CP!HandleCallback => CP!View' = "up" /\ outstanding' = CP!None
      /\ CP!HandleGarbledReply => CP!View' = "deaf" /\ outstanding' = CP!None
      /\ CP!HandleGarbledEvent =>
           CP!View' = "deaf" /\ outstanding' = outstanding
  BY ClientConstants, CP!OwnerSees DEF IInv
<1>2. Len(served) \in {Len(done), Len(done) + 1}
  BY DEF IInv, Received
<1>3. CASE C!HandleDial /\ S!HandleConnected
  <2>1. client' = "up" /\ done' = done
    BY <1>3 DEF S!HandleConnected, S!Link!Established
  <2>2. QED
    BY <1>1, <1>2, <1>3, <2>1, SameClient, SettledStep
<1>4. CASE \/ C!HandleError /\ S!ConnectionLost
           \/ C!HandleTimeout /\ (S!DeafTimeout \/ S!ConnectionLost)
           \/ C!HandleRefusal /\ S!HandleRefusal
  <2>1. S!HandleError
    BY <1>4 DEF S!ConnectionLost, S!DeafTimeout, S!HandleRefusal
  <2>2. client' = "null" /\ inflight' = S!NoEntry /\ done' = done
    BY <2>1 DEF S!HandleError, S!Link!Failed
  <2>3. CP!View' = "null" /\ outstanding' = CP!None
    BY <1>1, <1>4, SameClient
  <2>4. QED
    BY <1>2, <2>2, <2>3, SettledStep
<1>5. CASE C!HandleCallback /\ (S!HandleLogin \/ S!HandleReply)
  <2>1. client' = "up"
    BY <1>5 DEF S!HandleLogin, S!HandleReply, S!HandleSent, S!Link!Answered
  <2>2. QED
    BY <1>1, <1>5, <2>1, SameClient, ReplyWasServed, SettledStep
<1>6. CASE C!HandleGarbledReply /\ S!GarbledReply
  <2>1. client' = "deaf" /\ done' = done
    BY <1>6 DEF S!GarbledReply, S!Link!Garbled
  <2>2. QED
    BY <1>1, <1>2, <1>6, <2>1, SameClient, SettledStep
<1>7. CASE C!HandleGarbledEvent /\ S!GarbledEvent
  <2>1. client' = "deaf" /\ done' = done /\ inflight' = inflight
    BY <1>7 DEF S!GarbledEvent, S!Link!Garbled
  <2>2. CP!View' = "deaf" /\ outstanding' = outstanding /\ got' = got
    BY <1>1, <1>7, SameClient
       DEF CP!HandleGarbledEvent, CP!network
  <2>3. QED
    BY <2>1, <2>2 DEF IInv, Views, Received, ServedInOrder
<1>8. CASE \/ C!HandleOther /\ (UNCHANGED svars
                  \/ \E e \in DOMAIN S!EventQuery : S!HandleEvent(e))
           \/ (C!HandleWritten \/ C!HandleAborted \/ C!HandleOrphan)
                /\ UNCHANGED svars
  <2>1. Asks
    BY <1>8, AsksWhen
  <2>2. CP!Aside /\ got' = got
    BY <1>1, <1>8, SameClient
       DEF CP!HandleOther, CP!HandleWritten, CP!HandleAborted,
           CP!HandleOrphan, CP!network
  <2>3. QED
    BY <2>1, <2>2, AsideStep
<1>9. QED
  BY <1>3, <1>4, <1>5, <1>6, <1>7, <1>8 DEF Handler

-----------------------------------------------------------------------------
(***************************************************************************)
(* The steps of the composition                                            *)
(***************************************************************************)

LEMMA ClientSleeps == UNCHANGED cvars => CP!Aside /\ got' = got
BY DEF cvars, CP!Aside, CP!View, CP!Reading, CP!Unfinished, CP!ReadOp

LEMMA ApplicationStep ==
  ASSUME IInv, Application
  PROVE  Views' /\ Received'
<1>1. Asks
  BY AsksWhen DEF Application
<1>2. CP!Aside /\ UNCHANGED <<got, served>>
  BY ClientSleeps DEF Application
<1>3. QED
  BY <1>1, <1>2, AsideStep

LEMMA ReconnectStep ==
  ASSUME IInv, SP!IInv', CP!IInv', Reconnect
  PROVE  Views' /\ Received'
<1>1. client' = "connecting" /\ inflight' = S!NoEntry /\ done' = done
  BY DEF Reconnect, S!Reconnect, S!Link!Dial
<1>2. served' = served /\ outstanding' = CP!None
  BY SameView DEF Reconnect
<1>3. CP!View' = "connecting"
  BY NewClient DEF CP!Init, CP!View
<1>4. Len(served) \in {Len(done'), Len(done') + 1}
  BY <1>1 DEF IInv, Received
<1>5. QED
  BY <1>1, <1>2, <1>3, <1>4, SettledStep

\* The network and the timer leave the owner's view alone.
LEMMA OutsideStep ==
  ASSUME IInv, CP!IInv',
         \/ \E result \in {"ok", "error"} : DialEnds(result)
         \/ ReadEnds \/ ReadFails \/ TimerFires
         \/ \E verdict \in {"ok", "nok", "malformed"} :
              Answers(verdict) \/ Notifies(verdict)
  PROVE  Views' /\ Received'
<1> USE SameClient, SameView
<1>1. UNCHANGED svars /\ UNCHANGED served
  BY DEF DialEnds, ReadEnds, ReadFails, TimerFires, Answers, Notifies
<1>2. \/ \E result \in {"ok", "error"} : CP!DialEnds(result)
      \/ CP!ReadEnds \/ CP!ReadFails
      \/ \E n \in CP!CallbackId : CP!TimerFires(n)
      \/ \E m \in CP!Message : CP!ServerSends(m)
  BY AnswerIsMessage
     DEF DialEnds, ReadEnds, ReadFails, TimerFires, Answers, Notifies, IInv
<1>3. CP!Aside
  BY <1>2, ClientConstants, CP!OwnerSees DEF IInv
<1>4. got' = got
  BY <1>2 DEF CP!DialEnds, CP!ReadEnds, CP!ReadFails, CP!TimerFires,
              CP!ServerSends, CP!network
<1>5. Asks
  BY <1>1, AsksWhen
<1>6. QED
  BY <1>1, <1>3, <1>4, <1>5, AsideStep

LEMMA SendOwedStep ==
  ASSUME IInv, CP!IInv', SendOwed, UNCHANGED served
  PROVE  Views' /\ Received'
<1>1. PICK encodable \in BOOLEAN : CP!Send(encodable)
  BY SameClient DEF SendOwed
<1>2. /\ CP!View' = CP!View
      /\ outstanding' # CP!None /\ outstanding' \notin got'
  BY <1>1, ClientConstants, CP!OwnerSees, CP!Outstanding DEF IInv
<1>3. client' = client /\ inflight' = inflight /\ done' = done
  BY DEF SendOwed, svars
<1>4. inflight # S!NoEntry
  BY DEF SendOwed, Owed
<1>5. Views'
  BY <1>2, <1>3, <1>4 DEF IInv, Views
<1>6. Received'
  BY <1>2, <1>3 DEF IInv, Received, ServedInOrder
<1>7. QED
  BY <1>5, <1>6

\* The server receives a call for the first time or once more.
LEMMA ServedOnce ==
  ASSUME NEW s \in Seq(Nat), NEW d \in Nat,
         \A i \in DOMAIN s : s[i] = i, Len(s) \in {d, d + 1}
  PROVE  LET t == IF s # <<>> /\ Last(s) = d + 1 THEN s ELSE Append(s, d + 1)
         IN  /\ t \in Seq(Nat)
             /\ \A i \in DOMAIN t : t[i] = i
             /\ Len(t) = d + 1
<1>1. DOMAIN s = 1..Len(s) /\ Last(s) = s[Len(s)]
  BY DEF Last
<1>2. Len(s) \in Nat /\ (s # <<>> => Len(s) # 0)
  OBVIOUS
<1>3. s # <<>> => Last(s) = Len(s)
  <2>1. s # <<>> => Len(s) \in 1..Len(s)
    BY <1>2
  <2>2. QED
    BY <1>1, <2>1, Zenon
<1>4. CASE Len(s) = d + 1
  <2>1. s # <<>>
    BY <1>2, <1>4
  <2>2. QED
    BY <1>3, <1>4, <2>1
<1>5. CASE Len(s) = d
  <2>1. ~(s # <<>> /\ Last(s) = d + 1)
    BY <1>3, <1>5
  <2>2. Append(s, d + 1) \in Seq(Nat) /\ Len(Append(s, d + 1)) = d + 1
    BY <1>5
  <2>3. \A i \in DOMAIN Append(s, d + 1) : Append(s, d + 1)[i] = i
    BY <1>1, <1>2, <1>5
  <2>4. QED
    BY <2>1, <2>2, <2>3
<1>6. QED
  BY <1>4, <1>5

LEMMA WriteEndsStep ==
  ASSUME IInv, CP!IInv', NEW result \in {"ok", "error"},
         NEW arrived \in BOOLEAN, WriteEnds(result, arrived)
  PROVE  Views' /\ Received'
<1>1. PICK n \in CP!CallbackId : CP!WriteEnds(n, result, arrived)
  BY SameClient, SameView DEF WriteEnds
<1>2. CP!Aside
  BY <1>1, ClientConstants, CP!OwnerSees DEF IInv
<1>3. n = outstanding
  BY <1>1, ClientConstants, CP!Outstanding DEF IInv
<1>4. got' = IF arrived THEN got \cup {n} ELSE got
  BY <1>1 DEF CP!WriteEnds
<1>5. UNCHANGED <<client, inflight, done>>
  BY DEF WriteEnds, svars
<1>6. CASE arrived /\ inflight \in S!Call
  <2>1. inflight.id = Len(done) + 1 /\ Len(done) \in Nat
    BY <1>6, ServiceConstants, SameEntries, SP!CallInFlight DEF IInv
  <2>2. served' = IF served # <<>> /\ Last(served) = Len(done) + 1
                  THEN served ELSE Append(served, Len(done) + 1)
    BY <1>6, <2>1 DEF WriteEnds, Again
  <2>3. /\ served' \in Seq(Nat)
        /\ \A i \in DOMAIN served' : served'[i] = i
        /\ Len(served') = Len(done) + 1
    BY <2>1, <2>2, ServedOnce DEF IInv, Received, ServedInOrder
  <2>4. Received'
    BY <1>5, <2>3 DEF IInv, Received, ServedInOrder
  <2>5. Views'
    BY <1>2, <1>5 DEF CP!Aside, IInv, Views
  <2>6. QED
    BY <2>4, <2>5
<1>7. CASE ~(arrived /\ inflight \in S!Call)
  <2>1. served' = served
    BY <1>7 DEF WriteEnds
  <2>2. Views'
    BY <1>2, <1>5 DEF CP!Aside, IInv, Views
  <2>3. outstanding' = outstanding
    BY <1>2 DEF CP!Aside
  <2>4. inflight \in S!Call => got' = got
    BY <1>4, <1>7
  <2>5. Received'
    BY <1>5, <2>1, <2>3, <2>4 DEF IInv, Received, ServedInOrder
  <2>6. QED
    BY <2>2, <2>5
<1>8. QED
  BY <1>6, <1>7

LEMMA NextIInv == IInv /\ [Next]_vars => IInv'
<1> SUFFICES ASSUME IInv, [Next]_vars PROVE IInv'
  OBVIOUS
<1>1. SP!IInv'
  BY ServiceSteps, SameService, ServiceNext DEF IInv
<1>2. CP!IInv' /\ CP!AskedOnly'
  BY ClientStep
<1>3. CASE UNCHANGED vars
  <2>1. UNCHANGED <<svars, cvars, served>>
    BY <1>3 DEF vars
  <2>2. Asks /\ CP!Aside /\ got' = got
    BY <2>1, AsksWhen, ClientSleeps
  <2>3. QED
    BY <1>1, <1>2, <2>1, <2>2, AsideStep DEF IInv
<1>4. CASE Application
  BY <1>1, <1>2, <1>4, ApplicationStep DEF IInv
<1>5. CASE Reconnect
  BY <1>1, <1>2, <1>5, ReconnectStep DEF IInv
<1>6. ASSUME NEW result \in {"ok", "error"}, NEW arrived \in BOOLEAN,
             WriteEnds(result, arrived)
      PROVE  Views' /\ Received'
  BY <1>2, <1>6, WriteEndsStep
<1>7. CASE \/ \E result \in {"ok", "error"} : DialEnds(result)
           \/ ReadEnds \/ ReadFails \/ TimerFires
           \/ \E verdict \in {"ok", "nok", "malformed"} :
                Answers(verdict) \/ Notifies(verdict)
  BY <1>1, <1>2, <1>7, OutsideStep DEF IInv
<1>8. CASE IoThread
  <2>1. UNCHANGED served /\ (SendOwed \/ Handler)
    BY <1>8 DEF IoThread
  <2>2. Views' /\ Received'
    BY <1>1, <1>2, <2>1, SendOwedStep, HandlerStep
  <2>3. QED
    BY <1>1, <1>2, <2>2 DEF IInv
<1>9. Views' /\ Received' => IInv'
  BY <1>1, <1>2 DEF IInv
<1>10. QED
  BY <1>3, <1>4, <1>5, <1>6, <1>7, <1>8, <1>9 DEF Next

-----------------------------------------------------------------------------
(***************************************************************************)
(* The theorems                                                            *)
(***************************************************************************)

\* The invariant holds in every reachable state.
THEOREM Invariance == Spec => []IInv
BY InitIInv, NextIInv, PTL DEF Spec

\* What Service believes of its client is what the client is.
THEOREM ViewsAgreed == Spec => []ViewsAgree
<1>1. IInv => ViewsAgree
  BY SameView DEF IInv, Views, ViewsAgree, Owed
<1>2. QED
  BY <1>1, Invariance, PTL

\* send_next() calls send() only when send()'s assertions hold and the write
\* before has ended.
THEOREM OwedAccepted == Spec => []OwedIsAccepted
<1>1. ASSUME IInv, Owed
      PROVE  /\ alive /\ connected_ /\ pending_ = CP!None
             /\ \A o \in CP!Unfinished : o.kind # "write"
  <2>1. CP!View \in {"up", "deaf"} /\ outstanding = CP!None
    BY <1>1, SameView DEF IInv, Views, Owed
  <2>2. QED
    BY <1>1, <2>1, ClientConstants, CP!Accepting DEF IInv
<1>2. IInv => OwedIsAccepted
  BY <1>1, SameView DEF OwedIsAccepted
<1>3. QED
  BY <1>2, Invariance, PTL

\* The server receives the calls in order, none left out and none but the
\* latest again, over all connections and whatever is lost.
THEOREM ServedOnceInOrder == Spec => []ServedInOrder
<1>1. IInv => ServedInOrder
  BY DEF IInv, Received
<1>2. QED
  BY <1>1, Invariance, PTL

\* So the queue of calls that Service promises the application is kept over
\* the client it really uses.
THEOREM KeepsQueue == Spec => S!InOrderSpec
<1>1. Spec => SP!Spec
  BY ImplementsService, SameService, PTL DEF S!Spec, SP!Spec
<1>2. SP!Spec => SP!InOrderSpec
  BY ServiceConstants, SP!ImplementsQueue
<1>3. SP!InOrderSpec => S!InOrderSpec
  BY PTL DEF SP!InOrderSpec, S!InOrderSpec, SP!InOrder!Spec, S!InOrder!Spec,
     SP!InOrder!Init, S!InOrder!Init, SP!InOrder!Next, S!InOrder!Next,
     SP!InOrder!Issue, S!InOrder!Issue, SP!InOrder!Complete,
     S!InOrder!Complete, SP!InOrder!vars, S!InOrder!vars
<1>4. QED
  BY <1>1, <1>2, <1>3
-----------------------------------------------------------------------------
(***************************************************************************)
(* Answers and the requests they find                                      *)
(***************************************************************************)

\* Service does not close its client.  What the client has written, or the
\* server has received, could be encoded; and an answer to the outstanding
\* request, wherever it is, is one that this request can be given.
Fitting ==
  /\ closing = "no"
  /\ outstanding \in CP!Submitted => S!Written
  /\ outstanding # CP!None =>
       \A m \in CP!Arriving : m.id = outstanding => Fits(m.verdict)

LEMMA InitFitting == CP!Init => Fitting
<1> SUFFICES ASSUME CP!Init
             PROVE  Fitting
  OBVIOUS
<1>1. closing = "no" /\ outstanding = CP!None /\ got = {}
  BY DEF CP!Init
<1>2. outstanding \notin CP!Submitted
  BY <1>1, ClientConstants DEF CP!Submitted, CP!CallbackId, CP!None
<1>3. QED
  BY <1>1, <1>2 DEF Fitting

\* Nothing is outstanding.
LEMMA NoneFits ==
  ASSUME closing' = "no", outstanding' = CP!None, CP!IInv'
  PROVE  Fitting'
<1>1. CP!None \notin CP!CallbackId /\ got' \subseteq CP!CallbackId
  BY ClientConstants
     DEF CP!CallbackId, CP!None, CP!IInv, CP!TypeOK
<1>2. outstanding' \notin CP!Submitted'
  BY <1>1 DEF CP!Submitted
<1>3. QED
  BY <1>2 DEF Fitting

\* The request is the same, and only messages arrive that are no answer to it
\* or fit.
LEMMA StillFits ==
  ASSUME IInv, Fitting, UNCHANGED <<closing, outstanding>>,
         outstanding # CP!None => inflight' = inflight,
         CP!Submitted' \subseteq CP!Submitted,
         \A m \in CP!Arriving' :
           m \in CP!Arriving \/ m.id = CP!None
             \/ (m.id = outstanding => Fits(m.verdict))
  PROVE  Fitting'
<1>1. CASE outstanding = CP!None
  <2>1. CP!None \notin CP!Submitted
    BY ClientConstants
       DEF CP!CallbackId, CP!None, IInv, CP!IInv, CP!TypeOK, CP!Submitted
  <2>2. QED
    BY <1>1, <2>1 DEF Fitting
<1>2. CASE outstanding # CP!None
  <2>1. inflight' = inflight
    BY <1>2
  <2>2. (S!Written <=> S!Written') /\ \A v : Fits(v) <=> Fits(v)'
    BY <2>1 DEF S!Written, Fits
  <2>3. \A m \in CP!Arriving' : m.id = outstanding => Fits(m.verdict)
    BY <1>2 DEF Fitting
  <2>4. QED
    BY <2>2, <2>3 DEF Fitting
<1>3. QED
  BY <1>1, <1>2

\* Steps that bring nothing new, while Service at most asks for something.
LEMMA QuietFits ==
  ASSUME IInv, Fitting, Asks, CP!NothingNew,
         UNCHANGED <<closing, outstanding>>
  PROVE  Fitting'
<1>1. outstanding # CP!None => inflight' = inflight
  BY DEF Asks, IInv, Views
<1>2. CP!NoMessage.id = CP!None
  BY DEF CP!NoMessage, CP!None
<1>3. QED
  BY <1>1, <1>2, StillFits DEF CP!NothingNew

LEMMA SleepsNothingNew == UNCHANGED cvars => CP!NothingNew
BY DEF cvars, CP!NothingNew, CP!Arriving, CP!Submitted, CP!Unfinished

\* The kernel and the network: they complete operations.
LEMMA CompletionFits ==
  ASSUME IInv, Fitting,
         \/ \E result \in {"ok", "error"} :
              DialEnds(result) \/ \E arrived \in BOOLEAN :
                                    WriteEnds(result, arrived)
         \/ ReadEnds \/ ReadFails \/ TimerFires
  PROVE  Fitting'
<1> USE SameClient, SameView
<1>1. UNCHANGED svars
  BY DEF DialEnds, WriteEnds, ReadEnds, ReadFails, TimerFires
<1>2. \/ \E result \in {"ok", "error"} :
           \/ CP!DialEnds(result)
           \/ \E n \in CP!CallbackId, arrived \in BOOLEAN :
                CP!WriteEnds(n, result, arrived)
      \/ CP!ReadEnds \/ CP!ReadFails
      \/ \E n \in CP!CallbackId : CP!TimerFires(n)
  BY DEF DialEnds, WriteEnds, ReadEnds, ReadFails, TimerFires
<1>3. CP!NothingNew
  BY <1>2, ClientConstants, CP!CompletionNothingNew DEF IInv
<1>4. UNCHANGED CP!owner
  BY <1>2, ClientConstants, CP!CompletionStep DEF IInv
<1>5. QED
  BY <1>1, <1>3, <1>4, AsksWhen, QuietFits DEF CP!owner

\* The server: what it answers fits the request it received.
LEMMA ServerFits ==
  ASSUME IInv, Fitting, NEW verdict \in {"ok", "nok", "malformed"},
         Answers(verdict) \/ Notifies(verdict)
  PROVE  Fitting'
<1>1. UNCHANGED svars
  BY DEF Answers, Notifies
<1>2. PICK m \in CP!Message :
        /\ CP!ServerSends(m) /\ m.verdict = verdict
        /\ \/ m.id = CP!None
           \/ m.id = outstanding /\ Answers(verdict)
  <2>1. CASE Answers(verdict)
    BY <2>1, AnswerIsMessage, SameClient DEF Answers, IInv
  <2>2. CASE Notifies(verdict)
    BY <2>2, AnswerIsMessage, SameClient, SameView DEF Notifies, IInv
  <2>3. QED
    BY <2>1, <2>2
<1>3. /\ CP!Arriving' \subseteq CP!Arriving \cup {m}
      /\ CP!Submitted' = CP!Submitted
  BY <1>2, ClientConstants, CP!ServerSendsMessage DEF IInv
<1>4. UNCHANGED <<closing, outstanding, inflight>>
  BY <1>1, <1>2 DEF CP!ServerSends, CP!owner, svars
<1>5. m.id = CP!None \/ Fits(m.verdict)
  <2>1. SUFFICES ASSUME Answers(verdict)
                 PROVE  Fits(verdict)
    BY <1>2
  <2>2. S!Written
    BY <2>1 DEF Answers, Unanswered, Fitting, CP!Submitted
  <2>3. Refused \subseteq S!Checked
    BY ServiceConstants DEF S!Checked, SP!Checked
  <2>4. /\ verdict = "ok" => inflight.kind \notin Refused
        /\ verdict = "nok" => inflight.kind \in S!Checked
        /\ verdict = "malformed" => inflight.kind \notin S!Unread
    BY <2>1, <2>3 DEF Answers
  <2>5. QED
    BY <2>2, <2>4 DEF Fits
<1>6. QED
  BY <1>3, <1>4, <1>5, StillFits

\* send() writes the request unless it cannot be encoded.
LEMMA SendOwedFits ==
  ASSUME IInv, Fitting, SendOwed
  PROVE  Fitting'
<1>1. CP!Send(inflight.kind \notin Undumpable)
  BY SameClient DEF SendOwed
<1>2. PICK encodable \in BOOLEAN :
        /\ CP!Send(encodable)
        /\ encodable <=> inflight.kind \notin Undumpable
  BY <1>1
<1>3. /\ \A m \in CP!Arriving' : m.id # outstanding'
      /\ outstanding' \in CP!Submitted' => encodable
  BY <1>2, ClientConstants, CP!SendWrites DEF IInv
<1>4. inflight # S!NoEntry /\ inflight' = inflight /\ closing' = closing
  BY <1>2 DEF SendOwed, Owed, svars, CP!Send
<1>5. outstanding' \in CP!Submitted' => S!Written'
  BY <1>2, <1>3, <1>4 DEF S!Written
<1>6. QED
  BY <1>3, <1>4, <1>5 DEF Fitting

\* A handler ends the request, or leaves it and its answers as they are.
LEMMA HandlerFits ==
  ASSUME IInv, CP!IInv', Fitting, Handler
  PROVE  Fitting'
<1> USE SameClient
<1>1. closing' = closing
  BY DEF Handler, CP!HandleDial, CP!HandleError, CP!HandleTimeout,
         CP!HandleCallback, CP!HandleRefusal, CP!HandleGarbledReply,
         CP!HandleGarbledEvent, CP!HandleOther, CP!HandleWritten,
         CP!HandleAborted, CP!HandleOrphan, CP!owner
<1>2. CASE \/ C!HandleDial \/ C!HandleError \/ C!HandleTimeout
           \/ C!HandleCallback \/ C!HandleRefusal \/ C!HandleGarbledReply
  <2>1. outstanding' = CP!None
    BY <1>2, ClientConstants, CP!OwnerSees DEF IInv
  <2>2. QED
    BY <1>1, <2>1, NoneFits DEF Fitting
<1>3. CASE \/ C!HandleGarbledEvent /\ S!GarbledEvent
           \/ C!HandleOther /\ (UNCHANGED svars
                \/ \E e \in DOMAIN S!EventQuery : S!HandleEvent(e))
           \/ (C!HandleWritten \/ C!HandleAborted \/ C!HandleOrphan)
                /\ UNCHANGED svars
  <2>1. CP!IoThread
    BY <1>3 DEF CP!IoThread
  <2>2. CP!NothingNew
    BY <2>1, ClientConstants, CP!HandlerNothingNew DEF IInv
  <2>3. outstanding' = outstanding
    BY <1>3 DEF CP!HandleGarbledEvent, CP!HandleOther, CP!HandleWritten,
                CP!HandleAborted, CP!HandleOrphan, CP!owner
  <2>4. Asks \/ inflight' = inflight
    <3>1. CASE S!GarbledEvent
      BY <3>1 DEF S!GarbledEvent, S!Link!Garbled
    <3>2. CASE ~S!GarbledEvent
      BY <1>3, <3>2, AsksWhen
    <3>3. QED
      BY <3>1, <3>2
  <2>5. outstanding # CP!None => inflight' = inflight
    BY <2>4 DEF Asks, IInv, Views
  <2>6. CP!NoMessage.id = CP!None
    BY DEF CP!NoMessage, CP!None
  <2>7. QED
    BY <1>1, <2>2, <2>3, <2>5, <2>6, StillFits DEF CP!NothingNew
<1>4. QED
  BY <1>2, <1>3 DEF Handler

LEMMA NextFitting == IInv /\ IInv' /\ Fitting /\ [Next]_vars => Fitting'
<1> SUFFICES ASSUME IInv, IInv', Fitting, [Next]_vars
             PROVE  Fitting'
  OBVIOUS
<1>1. CASE UNCHANGED vars
  <2>1. UNCHANGED svars /\ UNCHANGED cvars
    BY <1>1 DEF vars
  <2>2. QED
    BY <2>1, AsksWhen, SleepsNothingNew, QuietFits DEF cvars
<1>2. CASE Application
  <2>1. Asks /\ UNCHANGED cvars
    BY <1>2, AsksWhen DEF Application
  <2>2. QED
    BY <2>1, SleepsNothingNew, QuietFits DEF cvars
<1>3. CASE Reconnect
  <2>1. outstanding' = CP!None /\ closing' = "no"
    BY <1>3, SameView DEF Reconnect
  <2>2. QED
    BY <2>1, NoneFits DEF IInv
<1>4. CASE \/ \E result \in {"ok", "error"} :
                DialEnds(result) \/ \E arrived \in BOOLEAN :
                                      WriteEnds(result, arrived)
           \/ ReadEnds \/ ReadFails \/ TimerFires
  BY <1>4, CompletionFits
<1>5. CASE \E verdict \in {"ok", "nok", "malformed"} :
             Answers(verdict) \/ Notifies(verdict)
  BY <1>5, ServerFits
<1>6. CASE IoThread
  BY <1>6, SendOwedFits, HandlerFits DEF IoThread, IInv
<1>7. QED
  BY <1>1, <1>2, <1>3, <1>4, <1>5, <1>6 DEF Next

\* Whatever the client runs next, Service is in the state the code relies on:
\* no answer reaches the callback of another request, however late it comes
\* and whatever connections there were before.
THEOREM HandlersExpected == Spec => []EveryHandlerExpected
<1>1. Init => Fitting
  BY SameClient, InitFitting DEF Init
<1>2. IInv /\ Fitting => EveryHandlerExpected
  <2>1. SUFFICES ASSUME IInv, Fitting
                 PROVE  EveryHandlerExpected
    OBVIOUS
  <2>2. /\ \A kind, result : C!Handles(kind, result) <=>
             CP!Handles(kind, result)
        /\ \A m : C!Matches(m) <=> CP!Matches(m)
    BY DEF C!Handles, CP!Handles, C!Matches, CP!Matches, C!None, CP!None
  <2>3. /\ \A kind, result : CP!Handles(kind, result) => client # "null"
        /\ \A result : ~CP!Handles("close", result)
        /\ \A kind : CP!Handles(kind, "aborted") => kind = "timer"
        /\ CP!Handles("dial", "ok") => client = "connecting"
        /\ CP!Handles("timer", "ok") => client \in {"up", "deaf"}
        /\ CP!Handles("read", "ok") => client = "up"
        /\ CP!Handles("read", "ok") /\ CP!Matches(Head(ready).msg) =>
             /\ outstanding # CP!None /\ Head(ready).msg.id = outstanding
             /\ Head(ready).msg \in CP!Arriving
    BY <2>1, ClientConstants, CP!HeadFits
       DEF IInv, Views, Fitting, CP!Handles
  <2>4. ASSUME CP!Handles("read", "ok"), CP!Matches(Head(ready).msg)
        PROVE  /\ pending /\ queued # <<>> /\ Head(queued) = inflight
               /\ Fits(Head(ready).msg.verdict)
    <3>1. inflight # S!NoEntry
      BY <2>1, <2>3, <2>4 DEF IInv, Views
    <3>2. pending /\ queued # <<>> /\ Head(queued) = inflight
      BY <2>1, <3>1, SameEntries DEF IInv, SP!IInv, SP!FrontIsPending
    <3>3. Fits(Head(ready).msg.verdict)
      BY <2>1, <2>3, <2>4 DEF Fitting
    <3>4. QED
      BY <3>2, <3>3
  <2>5. QED
    BY <2>2, <2>3, <2>4 DEF EveryHandlerExpected
<1>3. Spec => []Fitting
  BY <1>1, NextFitting, Invariance, PTL DEF Spec
<1>4. QED
  BY <1>2, <1>3, Invariance, PTL
=============================================================================
