---------------------------- MODULE ClientPromise ----------------------------
(***************************************************************************)
(* What rep::Client promises the object that owns it (client.hpp): at most *)
(* one request is outstanding; its callback runs at most once, with the    *)
(* matching response; the error handler runs once and ends the client's    *)
(* life, because the owner drops the client in that handler.               *)
(*                                                                         *)
(* Service is written against these actions, and Client is shown to        *)
(* implement them.  Each action is one run of a handler on the io thread,  *)
(* with the request that the owner sends from inside it, if any.           *)
(***************************************************************************)
CONSTANTS
  Request,    \* what can be handed to Client::send
  NoRequest   \* stands for "nothing is outstanding"

VARIABLES
  client,     \* "null", "connecting", "up", "deaf": connected but not
              \*   reading, or "closed" by the owner
  inflight    \* the request whose callback the client still owes, or NoRequest

vars == <<client, inflight>>

Offer == Request \cup {NoRequest}

TypeOK == /\ client \in {"null", "connecting", "up", "deaf", "closed"}
          /\ inflight \in Offer

Init == client = "connecting" /\ inflight = NoRequest

\* A new client is created and told to connect.
Dial ==
  /\ client = "null"
  /\ client' = "connecting"
  /\ inflight' = NoRequest

\* The success handler of connect() runs and may send a first request.
Established(next) ==
  /\ client = "connecting"
  /\ client' = "up"
  /\ inflight' = next

\* send() while nothing is outstanding.  A client that no longer reads still
\* accepts it.
Post(r) ==
  /\ client \in {"up", "deaf"}
  /\ inflight = NoRequest
  /\ inflight' = r
  /\ UNCHANGED client

\* The callback of the outstanding request runs and may send the next one.
Answered(next) ==
  /\ client = "up"
  /\ inflight # NoRequest
  /\ inflight' = next
  /\ UNCHANGED client

\* A message that cannot be decoded ends the receive loop without a word to
\* the owner.  It may have been the response to the outstanding request, whose
\* callback is used up then.
Garbled(left) ==
  /\ client = "up"
  /\ client' = "deaf"
  /\ left \in {inflight, NoRequest}
  /\ inflight' = left

\* close() is done; the outstanding request is forgotten.
Closed ==
  /\ client \in {"up", "deaf"}
  /\ client' = "closed"
  /\ inflight' = NoRequest

\* The error handler runs; the owner drops the client.
Failed ==
  /\ client # "null"
  /\ client' = "null"
  /\ inflight' = NoRequest

Next == \/ Dial
        \/ \E next \in Offer : Established(next) \/ Answered(next)
        \/ \E r \in Request : Post(r)
        \/ \E left \in Offer : Garbled(left)
        \/ Closed
        \/ Failed

Spec == Init /\ [][Next]_vars
=============================================================================
