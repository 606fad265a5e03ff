------------------------------- MODULE Client -------------------------------
(***************************************************************************)
(* Client::Impl (client.cpp): one connection to the server, from connect() *)
(* to the error or the close() that ends it, on one io thread.             *)
(*                                                                         *)
(* Every operation the coroutines and the timer wait for is in ops until   *)
(* the kernel or the library completes it; its completion then waits in    *)
(* ready, first in first out, for the io thread.  An operation whose       *)
(* socket or timer is destroyed completes as aborted, but a completion     *)
(* that is already in ready keeps its result: this is where most of the    *)
(* difficulty of this class lies.                                          *)
(*                                                                         *)
(* The owner uses the client as Service does: it sends one request at a    *)
(* time, from the io thread, and drops the client in the error handler; it *)
(* may also close() the connection, after which it sends no more.  A send  *)
(* from inside a handler leaves the same state as one right after it, so   *)
(* Send is an action of its own.  A run of a handler on a client that no   *)
(* longer exists has no defined behaviour: the model stops there.          *)
(***************************************************************************)
EXTENDS Naturals, Sequences, FiniteSets, SequencesExt

CONSTANTS
  MaxSends,     \* bound: requests the owner sends
  MaxMessages   \* bound: messages the server sends

ASSUME ClientAssumption ==
  /\ MaxSends \in Nat
  /\ MaxMessages \in Nat

None == 0
CallbackId == 1..MaxSends

\* Id None stands for an event list, or for what is no message at all.
\* "nok" makes the callback throw a system_error, "malformed" makes the
\* callback or the parser throw a json::exception.
Message == [id : CallbackId \cup {None}, verdict : {"ok", "nok", "malformed"}]
NoMessage == [id |-> None, verdict |-> "ok"]

Op == [kind : {"dial", "read", "close"}, id : {None}]
        \cup [kind : {"write", "timer"}, id : CallbackId]
Completion == [op : Op, result : {"ok", "error", "aborted"}, msg : Message]

DialOp == [kind |-> "dial", id |-> None]
ReadOp == [kind |-> "read", id |-> None]
CloseOp == [kind |-> "close", id |-> None]
WriteOp(n) == [kind |-> "write", id |-> n]
TimerOp(n) == [kind |-> "timer", id |-> n]

VARIABLES
  alive,            \* impl_ exists
  connected_,
  pending_,         \* the callback id of pending_, or None
  lastCallbackId_,
  ops,              \* operations in flight
  ready,            \* completions the io thread has not run yet
  net,              \* messages on their way from the server
  got,              \* the requests the server received
  spoken,           \* how many messages the server sent
  outstanding,      \* the owner's view: the request whose handler is due
  closing,          \* the owner's view: close() was not called, asked, done
  answered,         \* history: handlers run, and by which response
  reported,         \* history: runs of the error handler
  fate              \* "running", or "undefined" after a use of a dead client

vars == <<alive, connected_, pending_, lastCallbackId_, ops, ready, net, got,
          spoken, outstanding, closing, answered, reported, fate>>

network == <<net, got, spoken>>
owner == <<outstanding, closing, answered>>

-----------------------------------------------------------------------------

Completed(op, result) == [op |-> op, result |-> result, msg |-> NoMessage]

Timers == {o \in ops : o.kind = "timer"}

\* The completions of operations that are cancelled.  They do nothing when
\* they run, so their order is of no consequence.
Aborted(cancelled) == SetToSeq({Completed(o, "aborted") : o \in cancelled})

\* Starting operations and cancelling others while the head of ready runs.
Proceed(started, cancelled) ==
  /\ ops' = (ops \ cancelled) \cup started
  /\ ready' = Tail(ready) \o Aborted(cancelled)

\* The error handler runs: the owner drops the client, which destroys its
\* socket and its timer.
Report ==
  /\ reported' = reported + 1
  /\ alive' = FALSE
  /\ connected_' = FALSE
  /\ pending_' = None
  /\ outstanding' = None
  /\ Proceed({}, ops)

\* The head of ready belongs to this client.
Handles(kind, result) ==
  /\ alive
  /\ fate = "running"
  /\ ready # <<>>
  /\ Head(ready).op.kind = kind
  /\ Head(ready).result = result

-----------------------------------------------------------------------------
(***************************************************************************)
(* The owner                                                               *)
(***************************************************************************)

\* The client is constructed and connect() is called.
Init ==
  /\ alive = TRUE
  /\ connected_ = FALSE
  /\ pending_ = None
  /\ lastCallbackId_ = 0
  /\ ops = {DialOp}
  /\ ready = <<>>
  /\ net = <<>>
  /\ got = {}
  /\ spoken = 0
  /\ outstanding = None
  /\ closing = "no"
  /\ answered = <<>>
  /\ reported = 0
  /\ fate = "running"

MayUse == alive /\ connected_ /\ closing = "no" /\ fate = "running"

\* send(): the request is written; pending_ is set when that is done.  If
\* dump() throws, the coroutine ends before anything is written.
Send(encodable) ==
  /\ MayUse
  /\ outstanding = None
  /\ lastCallbackId_ < MaxSends
  /\ lastCallbackId_' = lastCallbackId_ + 1
  /\ outstanding' = lastCallbackId_ + 1
  /\ ops' = IF encodable THEN ops \cup {WriteOp(lastCallbackId_ + 1)} ELSE ops
  /\ UNCHANGED <<alive, connected_, pending_, ready, network, closing,
                 answered, reported, fate>>

\* close()
Close ==
  /\ MayUse
  /\ closing' = "asked"
  /\ ops' = ops \cup {CloseOp}
  /\ UNCHANGED <<alive, connected_, pending_, lastCallbackId_, ready, network,
                 outstanding, answered, reported, fate>>

-----------------------------------------------------------------------------
(***************************************************************************)
(* The server, the network and the kernel                                  *)
(***************************************************************************)

\* An answer to a request, late, repeated or refusing, or an event list.
ServerSends(m) ==
  /\ fate = "running"
  /\ spoken < MaxMessages
  /\ m.id \in got \cup {None}
  /\ m.id = None => m.verdict # "nok"
  /\ net' = Append(net, m)
  /\ spoken' = spoken + 1
  /\ UNCHANGED <<alive, connected_, pending_, lastCallbackId_, ops, ready,
                 got, owner, reported, fate>>

\* An operation completes; the io thread will run what waits for it.
Completes(op, result, msg) ==
  /\ fate = "running"
  /\ op \in ops
  /\ ops' = ops \ {op}
  /\ ready' = Append(ready, [op |-> op, result |-> result, msg |-> msg])
  /\ UNCHANGED <<alive, connected_, pending_, lastCallbackId_, owner,
                 reported, fate>>

\* Resolving, connecting and the handshake, one after the other.
DialEnds(result) ==
  Completes(DialOp, result, NoMessage) /\ UNCHANGED network

\* Nothing is read any more once the closing handshake is over.
StreamOpen == \A i \in DOMAIN ready : ready[i].op # CloseOp

ReadEnds ==
  /\ StreamOpen
  /\ net # <<>>
  /\ Completes(ReadOp, "ok", Head(net))
  /\ net' = Tail(net)
  /\ UNCHANGED <<got, spoken>>

\* A failed write may have reached the server all the same.
WriteEnds(n, result, arrived) ==
  /\ result = "ok" => arrived
  /\ Completes(WriteOp(n), result, NoMessage)
  /\ got' = IF arrived THEN got \cup {n} ELSE got
  /\ UNCHANGED <<net, spoken>>

ReadFails ==
  StreamOpen /\ Completes(ReadOp, "error", NoMessage) /\ UNCHANGED network

\* Five seconds have passed since the request was written.
TimerFires(n) == Completes(TimerOp(n), "ok", NoMessage) /\ UNCHANGED network

\* The closing handshake is over; the library starts it after the write in
\* flight.  A read that received the other side's close frame has failed by
\* then, and one that did not is cancelled.
CloseEnds(result, received) ==
  /\ fate = "running"
  /\ CloseOp \in ops
  /\ \A o \in ops : o.kind # "write"
  /\ received => ReadOp \in ops
  /\ ops' = ops \ {CloseOp, ReadOp}
  /\ ready' = ready
       \o (IF received THEN <<Completed(ReadOp, "error")>> ELSE <<>>)
       \o <<Completed(CloseOp, result)>>
       \o (IF ReadOp \in ops /\ ~received
           THEN <<Completed(ReadOp, "aborted")>> ELSE <<>>)
  /\ UNCHANGED <<alive, connected_, pending_, lastCallbackId_, network, owner,
                 reported, fate>>

\* The stream failed, or the other side closed it, before the handshake began:
\* the read or the write that found out has ended, and close() is aborted.
CloseAborts ==
  /\ \A o \in ops : o.kind # "write"
  /\ \E i \in DOMAIN ready : ready[i].result = "error"
  /\ Completes(CloseOp, "aborted", NoMessage)
  /\ UNCHANGED network

-----------------------------------------------------------------------------
(***************************************************************************)
(* The io thread                                                           *)
(***************************************************************************)

\* connect() after the handshake: the success handler, then receive().
HandleDial ==
  /\ Handles("dial", "ok")
  /\ connected_' = TRUE
  /\ Proceed({ReadOp}, {})
  /\ UNCHANGED <<alive, pending_, lastCallbackId_, network, owner, reported,
                 fate>>

\* Seeded fault: handle_error() forgets to call the error handler.
HandleErrorSilently ==
  /\ \E kind \in {"dial", "read", "write", "close"} : Handles(kind, "error")
  /\ connected_' = FALSE
  /\ Proceed({}, {})
  /\ UNCHANGED <<alive, pending_, lastCallbackId_, network, owner, reported,
                 fate>>

\* handle_error(): a coroutine ends with the error of what it waited for.
HandleError ==
  /\ \E kind \in {"dial", "read", "write", "close"} : Handles(kind, "error")
  /\ Report
  /\ UNCHANGED <<lastCallbackId_, network, closing, answered, fate>>

\* handle_error() and handle_timeout() ignore what was aborted.
HandleAborted ==
  /\ \E kind \in {"read", "write", "close", "timer"} : Handles(kind, "aborted")
  /\ Proceed({}, {})
  /\ UNCHANGED <<alive, connected_, pending_, lastCallbackId_, network, owner,
                 reported, fate>>

\* Seeded fault: send() does not start the timer.
HandleWrittenUntimed ==
  /\ Handles("write", "ok")
  /\ pending_' = Head(ready).op.id
  /\ Proceed({}, Timers)
  /\ UNCHANGED <<alive, connected_, lastCallbackId_, network, owner, reported,
                 fate>>

\* send() after the write: the request is pending for five seconds from now.
HandleWritten ==
  /\ Handles("write", "ok")
  /\ pending_' = Head(ready).op.id
  /\ Proceed({TimerOp(Head(ready).op.id)}, Timers)
  /\ UNCHANGED <<alive, connected_, lastCallbackId_, network, owner, reported,
                 fate>>

\* Seeded fault: a timeout is logged and not reported.
HandleTimeoutSilently ==
  /\ Handles("timer", "ok")
  /\ pending_' = None
  /\ Proceed({}, Timers)
  /\ UNCHANGED <<alive, connected_, lastCallbackId_, network, owner, reported,
                 fate>>

\* handle_timeout(): it does not ask whether its request is still pending.
HandleTimeout ==
  /\ Handles("timer", "ok")
  /\ Report
  /\ UNCHANGED <<lastCallbackId_, network, closing, answered, fate>>

\* Seeded fault: close() leaves the pending request alone.
HandleClosedStillPending ==
  /\ Handles("close", "ok")
  /\ closing' = "done"
  /\ connected_' = FALSE
  /\ outstanding' = None
  /\ Proceed({}, ops \ Timers)
  /\ UNCHANGED <<alive, pending_, lastCallbackId_, network, answered, reported,
                 fate>>

\* close() after the closing handshake: the socket is closed as well.
HandleClosed ==
  /\ Handles("close", "ok")
  /\ closing' = "done"
  /\ connected_' = FALSE
  /\ pending_' = None
  /\ outstanding' = None
  /\ Proceed({}, ops)
  /\ UNCHANGED <<alive, lastCallbackId_, network, answered, reported, fate>>

\* Seeded faults: handle_callback() does not compare the ids, or does not ask
\* whether a request is pending.
MatchesAnyPending(m) == m.id # None /\ pending_ # None
MatchesAlways(m) == m.id # None

\* handle_message() finds the response to the pending request.
Matches(m) == m.id # None /\ m.id = pending_

\* Seeded fault: the pending request is not reset.
HandleCallbackStillPending ==
  LET m == Head(ready).msg
  IN /\ Handles("read", "ok")
     /\ Matches(m)
     /\ m.verdict = "ok"
     /\ outstanding' = None
     /\ answered' = Append(answered, [request |-> pending_, response |-> m.id])
     /\ Proceed({ReadOp}, {})
     /\ UNCHANGED <<alive, connected_, pending_, lastCallbackId_, network,
                    closing, reported, fate>>

\* The callback runs with its response; then the next receive().
HandleCallback ==
  LET m == Head(ready).msg
  IN /\ Handles("read", "ok")
     /\ Matches(m)
     /\ m.verdict = "ok"
     /\ pending_' = None
     /\ outstanding' = None
     /\ answered' = Append(answered, [request |-> pending_, response |-> m.id])
     /\ Proceed({ReadOp}, Timers)
     /\ UNCHANGED <<alive, connected_, lastCallbackId_, network, closing,
                    reported, fate>>

\* The callback throws a system_error, which ends as any other error does.
HandleRefusal ==
  /\ Handles("read", "ok")
  /\ Matches(Head(ready).msg)
  /\ Head(ready).msg.verdict = "nok"
  /\ Report
  /\ UNCHANGED <<lastCallbackId_, network, closing, answered, fate>>

\* The callback throws a json::exception: a warning, and no further receive().
HandleGarbledReply ==
  /\ Handles("read", "ok")
  /\ Matches(Head(ready).msg)
  /\ Head(ready).msg.verdict = "malformed"
  /\ pending_' = None
  /\ outstanding' = None
  /\ Proceed({}, Timers)
  /\ UNCHANGED <<alive, connected_, lastCallbackId_, network, closing,
                 answered, reported, fate>>

\* So does an event handler, or the parser.
HandleGarbledEvent ==
  /\ Handles("read", "ok")
  /\ Head(ready).msg = [id |-> None, verdict |-> "malformed"]
  /\ Proceed({}, {})
  /\ UNCHANGED <<alive, connected_, pending_, lastCallbackId_, network, owner,
                 reported, fate>>

\* Events go to their subscribers; a response nobody waits for is dropped.
HandleOther ==
  LET m == Head(ready).msg
  IN /\ Handles("read", "ok")
     /\ ~Matches(m)
     /\ m # [id |-> None, verdict |-> "malformed"]
     /\ Proceed({ReadOp}, {})
     /\ UNCHANGED <<alive, connected_, pending_, lastCallbackId_, network,
                    owner, reported, fate>>

\* A completion of a client that was destroyed: harmless if aborted.
HandleOrphan ==
  /\ ~alive
  /\ fate = "running"
  /\ ready # <<>>
  /\ ready' = Tail(ready)
  /\ fate' = IF Head(ready).result = "aborted" THEN "running" ELSE "undefined"
  /\ UNCHANGED <<alive, connected_, pending_, lastCallbackId_, ops, network,
                 owner, reported>>

IoThread ==
  \/ HandleDial \/ HandleError \/ HandleAborted \/ HandleWritten
  \/ HandleTimeout \/ HandleClosed \/ HandleCallback \/ HandleRefusal
  \/ HandleGarbledReply \/ HandleGarbledEvent \/ HandleOther \/ HandleOrphan

Next ==
  \/ \E encodable \in BOOLEAN : Send(encodable)
  \/ Close
  \/ \E m \in Message : ServerSends(m)
  \/ \E result \in {"ok", "error"} :
       \/ DialEnds(result)
       \/ \E n \in CallbackId, arrived \in BOOLEAN :
            WriteEnds(n, result, arrived)
       \/ \E received \in BOOLEAN : CloseEnds(result, received)
  \/ CloseAborts
  \/ ReadEnds
  \/ ReadFails
  \/ \E n \in CallbackId : TimerFires(n)
  \/ IoThread

Spec == Init /\ [][Next]_vars

\* run() is executing, so ready completions are run, and time passes.
Fairness ==
  /\ WF_vars(IoThread)
  /\ \A n \in CallbackId : WF_vars(TimerFires(n))

FairSpec == Spec /\ Fairness

-----------------------------------------------------------------------------
(***************************************************************************)
(* Properties                                                              *)
(***************************************************************************)

\* The types of the variables.
TypeOK ==
  /\ alive \in BOOLEAN
  /\ connected_ \in BOOLEAN
  /\ pending_ \in CallbackId \cup {None}
  /\ lastCallbackId_ \in 0..MaxSends
  /\ ops \subseteq Op
  /\ ready \in Seq(Completion)
  /\ net \in Seq(Message)
  /\ got \subseteq CallbackId
  /\ spoken \in 0..MaxMessages
  /\ outstanding \in CallbackId \cup {None}
  /\ closing \in {"no", "asked", "done"}
  /\ answered \in Seq([request : CallbackId, response : CallbackId])
  /\ reported \in Nat
  /\ fate \in {"running", "undefined"}

\* What is in flight, or completed and not yet run.
Unfinished == ops \cup {ready[i].op : i \in DOMAIN ready}

\* The two assertions of send() hold whenever the owner may send, and no
\* write is unfinished: the callback of a request runs after all that its
\* send() set in motion.
SendPrecondition ==
  MayUse /\ outstanding = None =>
    /\ pending_ = None
    /\ \A o \in Unfinished : o.kind # "write"

\* A callback runs at most once, in the order of the requests and with the
\* response to its own request, whatever late or repeated responses arrive.
CallbackMatches ==
  /\ \A i \in DOMAIN answered : answered[i].request = answered[i].response
  /\ \A i, j \in DOMAIN answered :
       i < j => answered[i].request < answered[j].request

\* A pending request never waits without a clock: its timer is running, or
\* has fired and waits for the io thread.
PendingIsTimed ==
  pending_ # None =>
    \/ TimerOp(pending_) \in ops
    \/ \E i \in DOMAIN ready : ready[i] = Completed(TimerOp(pending_), "ok")

\* The receive loop is alive.
Reading == ReadOp \in Unfinished

\* The client as its owner sees it.
View ==
  CASE ~alive                   -> "null"
    [] alive /\ closing = "done" -> "closed"
    [] connected_ /\ Reading     -> "up"
    [] connected_ /\ ~Reading    -> "deaf"
    [] OTHER                     -> "connecting"

\* The client keeps its promise to an owner that drops it on error.
Promise == INSTANCE ClientPromise WITH
  Request   <- CallbackId,
  NoRequest <- None,
  client    <- View,
  inflight  <- outstanding
PromiseSpec == Promise!Spec

\* A pending request is answered or reported, unless its response turned out
\* to be undecodable and took the receive loop with it, or the owner closed the
\* connection.
PendingEnds ==
  \A n \in CallbackId :
    pending_ = n ~> \/ reported > 0
                    \/ \E i \in DOMAIN answered : answered[i].request = n
                    \/ pending_ # n /\ ~Reading
                    \/ closing = "done"

\* After close() nothing is in flight any more, so run() can return.
ClosedIsQuiet == closing = "done" => ops = {} /\ pending_ = None

\* "The handler will be called whenever there is an error during
\* communication" (client.hpp): a receive loop that ended was reported.
ErrorsReported == connected_ /\ closing = "no" /\ ~Reading => reported > 0

\* "timeout waiting for callback": a timeout is reported only while the
\* request it is about is waiting (handle_timeout()).
TimeoutOnlyWhileWaiting ==
  [][HandleTimeout => pending_ = Head(ready).op.id]_vars

\* "Using the client after the handler has been called results in undefined
\* behaviour" (client.hpp): the client's own completions do not do it either.
NoUseAfterErrorHandler == fate = "running"
=============================================================================
