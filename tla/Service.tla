------------------------------- MODULE Service -------------------------------
(***************************************************************************)
(* Service::ServiceImpl (service.cpp): one queue of requests, sent one at  *)
(* a time over a client that is replaced after every error.  A request     *)
(* stays at the front of the queue until its callback has run, so it       *)
(* survives the connection it was sent on; a login request is put before   *)
(* all others whenever a connection is established.                        *)
(*                                                                         *)
(* The client is the one ClientPromise describes.  All handlers run to     *)
(* completion on the one io thread, so each is one action here.  Calls an  *)
(* application makes from inside a handler leave the same state as calls   *)
(* made right after it, because the front request is still marked pending  *)
(* while its handler runs.                                                 *)
(***************************************************************************)
EXTENDS Naturals, Sequences, FiniteSets

CONSTANTS
  Kinds,          \* the kinds of request the application makes
  Refused,        \* those the server answers with "ok": false every time
  Undumpable,     \* those with a name dump() cannot encode (client.cpp:93)
  Misbehaviours,  \* what may go wrong: "lost", "rejected", "garbledEvent",
                  \*   "garbledReply"
  MaxCalls,       \* bound: calls of the application
  MaxFaults       \* bound: misbehaviours of server and network

\* request_printers, request_config, request_groups, request_models
Queries == {"listPrinter", "getPrinterConfig", "listModelGroups", "listModels"}

\* the other members of the service's interface that send a request
Commands == {"addModelGroup", "delModelGroup", "removeModel",
             "moveModelFileToGroup", "send"}

\* requests whose callback calls checkResponseOk
Checked == {"login", "listModelGroups", "addModelGroup", "delModelGroup",
            "moveModelFileToGroup"}

\* requests whose callback does not look at the response
Unread == {"removeModel", "send"}

\* server events that make the service send a query of its own
EventQuery == [modelGroupListChanged |-> "listModelGroups",
               jobsChanged           |-> "listModels",
               jobFinished           |-> "listPrinter"]

ASSUME ConstantsAssumption ==
  /\ Kinds \subseteq Queries \cup Commands
  /\ Refused \subseteq Kinds \cap Checked
  /\ Undumpable \subseteq Kinds \ Refused
  /\ MaxCalls \in Nat
  /\ MaxFaults \in Nat

\* struct Action: the calls are numbered as they are made; a login is no call.
Login == [id |-> 0, kind |-> "login"]
Call == [id : Nat \ {0}, kind : Kinds]
Entry == Call \cup {Login}
NoEntry == [id |-> 0, kind |-> "none"]

VARIABLES
  connected,  \* connected_: the login on the current connection succeeded
  pending,    \* pending_: the front request was handed to the client
  retry,      \* retry_: failed attempts since the last login
  queued,     \* queued_
  slots,      \* the signals of queries that have a slot
  timer,      \* the reconnect timer: is it armed, and its last delay
  client,     \* client_ and
  inflight,   \*   the request it owes a callback (see ClientPromise)
  calls,      \* history: calls made so far
  done,       \* history: calls whose handler has run
  sent,       \* history: calls handed to the current client
  faults      \* history: misbehaviours so far

vars == <<connected, pending, retry, queued, slots, timer, client, inflight,
          calls, done, sent, faults>>

Link == INSTANCE ClientPromise WITH Request <- Entry, NoRequest <- NoEntry

-----------------------------------------------------------------------------

\* detail::retryTimeout
RetryTimeout(n) ==
  CASE n = 0 -> 0 [] n = 1 -> 2 [] n = 2 -> 5 [] n = 3 -> 10 [] OTHER -> 30

\* send_next( force ): the entry that is handed to the client now, if any.
NextSend(force, conn, pend, q) ==
  IF (conn \/ force) /\ ~pend /\ q # <<>> THEN Head(q) ELSE NoEntry

\* The service's own side of that hand-over.
Start(next, pend) ==
  /\ pending' = (pend \/ next # NoEntry)
  /\ sent' = IF next.id > 0 THEN Append(sent, next.id) ELSE sent

\* handle_sent(), with the client's side of the callback it ends.
HandleSent(conn) ==
  LET rest == Tail(queued)
      next == NextSend(FALSE, conn, FALSE, rest)
  IN /\ queued' = rest
     /\ Link!Answered(next)
     /\ Start(next, FALSE)

\* Seeded faults of handle_error(): it counts down, takes the request in
\* flight for done, queues it twice, moves it to the back, leaves pending_ set,
\* or does not arm the timer.
AfterError(pend, tries, armed, q) ==
  /\ Link!Failed
  /\ connected' = FALSE
  /\ pending' = pend
  /\ retry' = tries
  /\ timer' = [armed |-> armed, delay |-> RetryTimeout(retry)]
  /\ sent' = <<>>
  /\ queued' = IF pending THEN q ELSE queued
  /\ UNCHANGED <<slots, calls, done>>

HandleErrorCountsDown   == AfterError(FALSE, retry - 1, TRUE, queued)
HandleErrorDropsFront   == AfterError(FALSE, retry + 1, TRUE, Tail(queued))
HandleErrorRequeues     ==
  AfterError(FALSE, retry + 1, TRUE, <<Head(queued)>> \o queued)
HandleErrorToTheBack    ==
  AfterError(FALSE, retry + 1, TRUE, Append(Tail(queued), Head(queued)))
HandleErrorKeepsPending == AfterError(pending, retry + 1, TRUE, queued)
HandleErrorArmsNoTimer  == AfterError(FALSE, retry + 1, FALSE, queued)

\* handle_error( ec ): forget the connection, keep the queue, arm the timer.
HandleError ==
  /\ Link!Failed
  /\ connected' = FALSE
  /\ pending' = FALSE
  /\ retry' = retry + 1
  /\ timer' = [armed |-> TRUE, delay |-> RetryTimeout(retry)]
  /\ sent' = <<>>
  /\ UNCHANGED <<queued, slots, calls, done>>

\* The request in flight was written: an undumpable one waits for ever, for
\* neither write, timer nor response was started.
Written == inflight # NoEntry /\ inflight.kind \notin Undumpable

Misbehave(how) ==
  /\ how \in Misbehaviours
  /\ faults < MaxFaults
  /\ faults' = faults + 1

-----------------------------------------------------------------------------

\* The constructor calls connect() at once.
Init ==
  /\ connected = FALSE
  /\ pending = FALSE
  /\ retry = 0
  /\ queued = <<>>
  /\ slots = {}
  /\ timer = [armed |-> FALSE, delay |-> 0]
  /\ Link!Init
  /\ calls = 0
  /\ done = <<>>
  /\ sent = <<>>
  /\ faults = 0

\* on_printers, on_config, on_groups, on_models: connect a slot.
Subscribe(k) ==
  /\ k \in Kinds \cap Queries
  /\ slots' = slots \cup {k}
  /\ UNCHANGED <<connected, pending, retry, queued, timer, client, inflight,
                 calls, done, sent, faults>>

\* Seeded fault: every request goes to the front of the queue.
SendFirst(k) ==
  LET q    == <<[id |-> calls + 1, kind |-> k]>> \o queued
      next == NextSend(FALSE, connected, pending, q)
  IN /\ calls < MaxCalls
     /\ calls' = calls + 1
     /\ queued' = q
     /\ Start(next, pending)
     /\ IF next = NoEntry THEN UNCHANGED <<client, inflight>>
                          ELSE Link!Post(next)
     /\ UNCHANGED <<connected, retry, slots, timer, done, faults>>

\* send( request, handler ): append the request, send the front if idle.
Send(k) ==
  LET q    == Append(queued, [id |-> calls + 1, kind |-> k])
      next == NextSend(FALSE, connected, pending, q)
  IN /\ calls < MaxCalls
     /\ calls' = calls + 1
     /\ queued' = q
     /\ Start(next, pending)
     /\ IF next = NoEntry THEN UNCHANGED <<client, inflight>>
                          ELSE Link!Post(next)
     /\ UNCHANGED <<connected, retry, slots, timer, done, faults>>

\* request_printers() and its kin do nothing while nobody listens.
RequestQuery(k) == k \in Kinds \cap slots /\ Send(k)

\* addModelGroup() and the other commands.
RequestCommand(k) == k \in Kinds \cap Commands /\ Send(k)

\* A server event; the others only forward their data to a signal.
HandleEvent(e) == client = "up" /\ RequestQuery(EventQuery[e])

\* connect(), from the reconnect timer.
Reconnect ==
  /\ timer.armed
  /\ timer' = [timer EXCEPT !.armed = FALSE]
  /\ Link!Dial
  /\ UNCHANGED <<connected, pending, retry, queued, slots, calls, done, sent,
                 faults>>

\* Seeded fault: the login has no priority.
HandleConnectedLoginLast ==
  LET q    == Append(queued, Login)
      next == NextSend(TRUE, connected, pending, q)
  IN /\ queued' = q
     /\ Link!Established(next)
     /\ Start(next, pending)
     /\ UNCHANGED <<connected, retry, slots, timer, calls, done, faults>>

\* Seeded fault: retry_ is reset before the login succeeded.
HandleConnectedResetsRetry ==
  LET q    == <<Login>> \o queued
      next == NextSend(TRUE, connected, pending, q)
  IN /\ queued' = q
     /\ retry' = 0
     /\ Link!Established(next)
     /\ Start(next, pending)
     /\ UNCHANGED <<connected, slots, timer, calls, done, faults>>

\* handle_connected(): the login goes first and may be sent unconnected.
HandleConnected ==
  LET q    == <<Login>> \o queued
      next == NextSend(TRUE, connected, pending, q)
  IN /\ queued' = q
     /\ Link!Established(next)
     /\ Start(next, pending)
     /\ UNCHANGED <<connected, retry, slots, timer, calls, done, faults>>

\* The login succeeded: handle_login(), then handle_sent().
HandleLogin ==
  /\ inflight = Login
  /\ connected' = TRUE
  /\ retry' = 0
  /\ HandleSent(TRUE)
  /\ UNCHANGED <<slots, timer, calls, done, faults>>

\* Seeded fault: a call that was answered is not popped.
HandleReplyKeepsFront ==
  /\ inflight \in Call
  /\ Written
  /\ inflight.kind \notin Refused
  /\ done' = Append(done, inflight.id)
  /\ Link!Answered(inflight)
  /\ Start(inflight, FALSE)
  /\ UNCHANGED <<connected, retry, queued, slots, timer, calls, faults>>

\* A call was answered: its handler runs, then handle_sent().
HandleReply ==
  /\ inflight \in Call
  /\ Written
  /\ inflight.kind \notin Refused
  /\ done' = Append(done, inflight.id)
  /\ HandleSent(connected)
  /\ UNCHANGED <<connected, retry, slots, timer, calls, faults>>

\* The server said no: checkResponseOk throws, the client reports not_ok.
HandleRefusal ==
  /\ client = "up"
  /\ Written
  /\ inflight.kind \in Checked
  /\ \/ inflight.kind \in Refused /\ UNCHANGED faults
     \/ Misbehave("rejected")
  /\ HandleError

\* A read or write failed, the dial failed, or the response took too long.
ConnectionLost == Misbehave("lost") /\ HandleError

\* A client that stopped reading still times out what it was sent.
DeafTimeout ==
  /\ client = "deaf"
  /\ Written
  /\ HandleError
  /\ UNCHANGED faults

\* An undecodable event list, or a message that is no JSON at all.
GarbledEvent ==
  /\ Misbehave("garbledEvent")
  /\ Link!Garbled(inflight)
  /\ UNCHANGED <<connected, pending, retry, queued, slots, timer, calls, done,
                 sent>>

\* A response its callback cannot decode: handle_sent() is never reached.
GarbledReply ==
  /\ Written
  /\ inflight.kind \notin Unread
  /\ Misbehave("garbledReply")
  /\ Link!Garbled(NoEntry)
  /\ UNCHANGED <<connected, pending, retry, queued, slots, timer, calls, done,
                 sent>>

Next ==
  \/ \E k \in Kinds : Subscribe(k) \/ RequestQuery(k) \/ RequestCommand(k)
  \/ \E e \in DOMAIN EventQuery : HandleEvent(e)
  \/ Reconnect
  \/ HandleConnected
  \/ HandleLogin
  \/ HandleReply
  \/ HandleRefusal
  \/ ConnectionLost
  \/ DeafTimeout
  \/ GarbledEvent
  \/ GarbledReply

Spec == Init /\ [][Next]_vars

\* The reconnect timer fires, a reachable server lets the client connect and
\* answers what it is asked, and the client's five second timer fires.
Fairness ==
  /\ WF_vars(Reconnect)
  /\ WF_vars(HandleConnected)
  /\ WF_vars(HandleLogin \/ HandleReply \/ HandleRefusal)
  /\ WF_vars(DeafTimeout)

FairSpec == Spec /\ Fairness

-----------------------------------------------------------------------------
(***************************************************************************)
(* Properties                                                              *)
(***************************************************************************)

\* The types of the variables (the members declared at the end of
\* ServiceImpl).
TypeOK ==
  /\ connected \in BOOLEAN
  /\ pending \in BOOLEAN
  /\ retry \in Nat
  /\ queued \in Seq(Entry)
  /\ slots \subseteq Kinds \cap Queries
  /\ timer \in [armed : BOOLEAN, delay : Nat]
  /\ Link!TypeOK
  /\ calls \in Nat
  /\ done \in Seq(Nat)
  /\ sent \in Seq(Nat)
  /\ faults \in Nat

\* The callback send_next() gives the client refers to the front entry and
\* handle_sent() pops "the front": whenever the client owes a callback, the
\* request it belongs to is still the front of the queue, and marked pending.
FrontIsPending ==
  inflight # NoEntry =>
    pending /\ queued # <<>> /\ Head(queued) = inflight

\* No call of the application reaches the server on a connection that is not
\* logged in, neither after a reconnect nor while logins of earlier attempts
\* are still queued.
LoginBeforeCalls ==
  /\ inflight \in Call => connected
  /\ sent # <<>> => connected
  /\ connected => client \in {"up", "deaf"}

\* A call is either completed or still in the queue, never neither and never
\* both: handle_error() keeps the queue, handle_sent() removes what it should.
NothingLost ==
  \A n \in 1..calls :
    (\E i \in DOMAIN done : done[i] = n)
      # (\E j \in DOMAIN queued : queued[j].id = n)

\* An attempt that fails before its login is answered leaves that login in
\* the queue, in front of the next one.  The queue holds no more of them than
\* attempts have failed, besides the current one.
LoginsBounded ==
  Cardinality({i \in DOMAIN queued : queued[i] = Login}) <= faults + 1

\* On one connection a call is sent at most once, and calls are sent in order;
\* only handle_error() makes the service send a call again.
SentOncePerConnection ==
  \A i, j \in DOMAIN sent : i < j => sent[i] < sent[j]

\* The delay before a reconnect never shrinks from one failure to the next
\* unless a login succeeded in between (handle_error(), handle_login()).
BackoffNeverShrinks ==
  [][timer'.armed /\ ~timer.armed /\ ~connected
       => timer'.delay >= timer.delay]_vars

\* The service implements the queue of calls the application relies on:
\* every handler runs once, in the order of the calls.
InOrder == INSTANCE RequestQueue WITH issued <- calls, completed <- done
InOrderSpec == InOrder!Spec

\* The front request is pending but no callback and no timeout will come:
\* its response was undecodable, or it could not be encoded.  Only a loss of
\* the connection helps, and an undumpable request gets stuck again after it.
Stuck ==
  /\ pending
  /\ \/ client = "deaf" /\ inflight = NoEntry
     \/ inflight # NoEntry /\ inflight.kind \in Undumpable

\* Every call is completed once failures stop, however many requests the
\* connection losses and rejections before that sent twice, unless it is behind
\* one the server always refuses, or the service got stuck.
RefusedUpTo(n) ==
  \E j \in DOMAIN queued : queued[j].id <= n /\ queued[j].kind \in Refused
EveryCallCompletes ==
  \A n \in 1..MaxCalls :
    calls >= n ~> \/ \E i \in DOMAIN done : done[i] = n
                  \/ RefusedUpTo(n)
                  \/ Stuck

\* After every failure the service is eventually connected and logged in
\* again (handle_error() arms the timer, connect() dials), unless the response
\* to the login itself is undecodable.
Reconnects == ~connected ~> connected \/ Stuck

\* A call the server always refuses stays at the front: handle_error() does
\* not pop it, the login before it resets retry_, so the service reconnects
\* without a delay for as long as it lives.
RefusedCall ==
  connected /\ inflight \in Call /\ inflight.kind \in Refused
RefusedIsRetriedForever ==
  RefusedCall ~> Stuck \/ []<>(timer = [armed |-> TRUE, delay |-> 0])
=============================================================================
