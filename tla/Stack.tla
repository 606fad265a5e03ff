-------------------------------- MODULE Stack --------------------------------
(***************************************************************************)
(* Service over the Client it really uses, one after the other, on one io  *)
(* thread.  Service assumes of its client what ClientPromise says; here    *)
(* every step of its client is a handler of Client, together with the      *)
(* action of Service that the handler calls: the error handler, the        *)
(* success handler of connect(), a callback, a subscription.               *)
(*                                                                         *)
(* A handler that makes Service send leaves the client with a request to   *)
(* write; client.cpp does that before the io thread runs anything else, so *)
(* here it is the io thread's next step.  The server answers each request  *)
(* once (Client is checked with late and repeated answers).                *)
(***************************************************************************)
EXTENDS Naturals, Sequences, SequencesExt

CONSTANTS
  Kinds, Refused, Undumpable,  \* see Service
  MaxCalls,                    \* bound: calls of the application
  MaxSends, MaxMessages,       \* bounds for each connection, see Client
  MaxErrors                    \* bound: errors of network and server

VARIABLES
  connected, pending, retry, queued, slots, timer, client, inflight, calls,
  done, sent, faults,          \* see Service
  alive, connected_, pending_, lastCallbackId_, ops, ready, net, got, spoken,
  outstanding, closing, answered, reported, fate,  \* see Client
  errors,  \* history: errors so far
  served   \* history: the calls the server received on all connections, one
           \*   that it receives several times in a row listed once

svars == <<connected, pending, retry, queued, slots, timer, client, inflight,
           calls, done, sent, faults>>
cvars == <<alive, connected_, pending_, lastCallbackId_, ops, ready, net, got,
           spoken, outstanding, closing, answered, reported, fate>>
vars == <<svars, cvars, errors, served>>

S == INSTANCE Service WITH
  MaxFaults     <- MaxErrors,
  Misbehaviours <- {"lost", "rejected", "garbledEvent", "garbledReply"}
C == INSTANCE Client

ASSUME StackAssumption == S!ConstantsAssumption /\ C!ClientAssumption

Init == S!Init /\ C!Init /\ errors = 0 /\ served = <<>>

Running == fate = "running"

\* Service handed a request to its client that the client has not seen yet.
Owed ==
  /\ client \in {"up", "deaf"}
  /\ inflight # S!NoEntry
  /\ outstanding = C!None

Error == errors < MaxErrors /\ errors' = errors + 1

\* The error an environment step is, if any.
ErrorIf(bad) == IF bad THEN Error ELSE UNCHANGED errors

-----------------------------------------------------------------------------
(***************************************************************************)
(* The application and the reconnect timer                                 *)
(***************************************************************************)

Application ==
  /\ Running /\ ~Owed
  /\ \E k \in Kinds :
       S!Subscribe(k) \/ S!RequestQuery(k) \/ S!RequestCommand(k)
  /\ UNCHANGED <<cvars, errors, served>>

\* Client::Client() and connect().  The timer's completion is queued behind
\* those of the client that was destroyed when the timer was armed.
Reconnect ==
  /\ Running
  /\ S!Reconnect
  /\ ready = <<>>
  /\ alive' = TRUE
  /\ connected_' = FALSE
  /\ pending_' = C!None
  /\ lastCallbackId_' = 0
  /\ ops' = {C!DialOp}
  /\ ready' = <<>>
  /\ net' = <<>>
  /\ got' = {}
  /\ spoken' = 0
  /\ outstanding' = C!None
  /\ closing' = "no"
  /\ answered' = <<>>
  /\ reported' = 0
  /\ UNCHANGED <<fate, errors, served>>

-----------------------------------------------------------------------------
(***************************************************************************)
(* The kernel, the network and the server                                  *)
(***************************************************************************)

DialEnds(result) ==
  /\ C!DialEnds(result)
  /\ ErrorIf(result = "error")
  /\ UNCHANGED <<svars, served>>

ReadEnds == C!ReadEnds /\ UNCHANGED <<svars, errors, served>>

ReadFails == C!ReadFails /\ Error /\ UNCHANGED <<svars, served>>

Again(n) == served # <<>> /\ Last(served) = n

WriteEnds(result, arrived) ==
  /\ \E n \in C!CallbackId : C!WriteEnds(n, result, arrived)
  /\ ErrorIf(result = "error")
  /\ served' = IF arrived /\ inflight \in S!Call /\ ~Again(inflight.id)
               THEN Append(served, inflight.id) ELSE served
  /\ UNCHANGED svars

\* A timeout is an error of a server that is too slow, unless nobody is
\* listening to its answer.
TimerFires ==
  /\ \E n \in C!CallbackId : C!TimerFires(n)
  /\ ErrorIf(client = "up")
  /\ UNCHANGED <<svars, served>>

Unanswered ==
  /\ outstanding \in got
  /\ \A i \in DOMAIN net : net[i].id # outstanding
  /\ \A i \in DOMAIN ready : ready[i].msg.id # outstanding

\* The answer to the request in flight: what Service makes of it depends on
\* the kind of the request.
Answers(verdict) ==
  /\ Unanswered
  /\ \/ verdict = "ok" /\ inflight.kind \notin Refused /\ UNCHANGED errors
     \/ verdict = "nok" /\ inflight.kind \in Refused /\ UNCHANGED errors
     \/ verdict = "nok" /\ inflight.kind \in S!Checked \ Refused /\ Error
     \/ verdict = "malformed" /\ inflight.kind \notin S!Unread /\ Error
  /\ C!ServerSends([id |-> outstanding, verdict |-> verdict])
  /\ UNCHANGED <<svars, served>>

\* Bound: on a connection, not many more messages than requests, so that
\* MaxMessages leaves room for all answers.
Notifies(verdict) ==
  /\ connected_
  /\ spoken <= lastCallbackId_
  /\ ErrorIf(verdict = "malformed")
  /\ C!ServerSends([id |-> C!None, verdict |-> verdict])
  /\ UNCHANGED <<svars, served>>

-----------------------------------------------------------------------------
(***************************************************************************)
(* The io thread                                                           *)
(***************************************************************************)

\* Client::send(), called by send_next().
SendOwed ==
  /\ Owed
  /\ C!Send(inflight.kind \notin Undumpable)
  /\ UNCHANGED svars

\* A handler of the client, and what it calls in the service.
Handler ==
  \/ C!HandleDial /\ S!HandleConnected
  \/ C!HandleError /\ S!ConnectionLost
  \/ C!HandleTimeout /\ IF client = "deaf" /\ S!Written THEN S!DeafTimeout
                                                        ELSE S!ConnectionLost
  \/ C!HandleCallback /\ (S!HandleLogin \/ S!HandleReply)
  \/ C!HandleRefusal /\ S!HandleRefusal
       /\ (inflight.kind \in Refused => faults' = faults)
  \/ C!HandleGarbledReply /\ S!GarbledReply
  \/ C!HandleGarbledEvent /\ S!GarbledEvent
  \/ C!HandleOther /\ (UNCHANGED svars
                         \/ \E e \in DOMAIN S!EventQuery : S!HandleEvent(e))
  \/ (C!HandleWritten \/ C!HandleAborted \/ C!HandleOrphan) /\ UNCHANGED svars

IoThread ==
  /\ SendOwed \/ (~Owed /\ Handler)
  /\ UNCHANGED <<errors, served>>

Next ==
  \/ Application
  \/ Reconnect
  \/ \E result \in {"ok", "error"} :
       DialEnds(result) \/ \E arrived \in BOOLEAN : WriteEnds(result, arrived)
  \/ ReadEnds
  \/ ReadFails
  \/ TimerFires
  \/ \E verdict \in {"ok", "nok", "malformed"} :
       Answers(verdict) \/ Notifies(verdict)
  \/ IoThread

Spec == Init /\ [][Next]_vars

\* run() is executing, timers fire, what was sent arrives, and the server
\* answers.
Fairness ==
  /\ WF_vars(IoThread)
  /\ WF_vars(Reconnect)
  /\ WF_vars(TimerFires)
  /\ WF_vars(\E result \in {"ok", "error"} : DialEnds(result))
  /\ WF_vars(\E result \in {"ok", "error"}, arrived \in BOOLEAN :
               WriteEnds(result, arrived))
  /\ WF_vars(ReadEnds)
  /\ WF_vars(\E verdict \in {"ok", "nok"} : Answers(verdict))

FairSpec == Spec /\ Fairness

-----------------------------------------------------------------------------
(***************************************************************************)
(* Properties                                                              *)
(***************************************************************************)

\* What Service believes of its client is what the client is: connected or
\* not, reading or not, gone; and the one owes a callback exactly when the
\* other expects one.
ViewsAgree ==
  Running =>
    /\ client = C!View
    /\ outstanding # C!None => inflight # S!NoEntry
    /\ inflight # S!NoEntry => outstanding # C!None \/ Owed

\* send() asserts that the client is connected and has no pending request:
\* send_next() calls it only then, and only when the write before has ended.
OwedIsAccepted ==
  Owed /\ Running =>
    /\ alive /\ connected_ /\ pending_ = C!None
    /\ \A o \in C!Unfinished : o.kind # "write"

\* The server may have given this answer to the request in flight, which it
\* received.
Fits(verdict) ==
  /\ S!Written
  /\ CASE verdict = "ok"        -> inflight.kind \notin Refused
       [] verdict = "nok"       -> inflight.kind \in S!Checked
       [] verdict = "malformed" -> inflight.kind \notin S!Unread

\* Whatever completion the io thread runs next, Service is in a state that
\* expects what the client calls.  A connect() ends while Service waits for
\* it, a timer expires while Service is connected, an error finds a client that
\* was not dropped; a message comes while Service believes its client to be
\* reading, and the answer that finds a callback belongs to the front of the
\* queue, whose pending mark is set, and is one that this request can be given,
\* however long it was on its way.  Only timers were cancelled.
EveryHandlerExpected ==
  /\ C!Handles("dial", "ok") => client = "connecting"
  /\ C!Handles("timer", "ok") => client \in {"up", "deaf"}
  /\ \A kind \in {"dial", "read", "write"} :
       /\ C!Handles(kind, "error") => client # "null"
       /\ ~C!Handles(kind, "aborted")
  /\ \A result \in {"ok", "error", "aborted"} : ~C!Handles("close", result)
  /\ C!Handles("read", "ok") =>
       /\ client = "up"
       /\ C!Matches(Head(ready).msg) =>
            /\ pending /\ queued # <<>> /\ Head(queued) = inflight
            /\ Fits(Head(ready).msg.verdict)

\* The server receives the calls in order and none is left out: over all
\* connections, what it receives again is only ever the latest.
ServedInOrder == \A i \in DOMAIN served : served[i] = i

\* The fairness that Service is checked under is that of its client, the
\* server and the network: it follows from theirs, up to the first use of a
\* destroyed client.
FairnessJustified == <>~Running \/ S!Fairness
=============================================================================
