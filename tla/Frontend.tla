------------------------------ MODULE Frontend ------------------------------
(***************************************************************************)
(* Frontend::FrontendImpl (frontend.cpp): a cache of the printers, their   *)
(* model groups and their models, kept up to date by the answers to the    *)
(* queries and the events of a Service.                                    *)
(*                                                                         *)
(* The service is the queue that RequestQueue describes: the front query   *)
(* is sent when there is a connection, answered once, and sent again after *)
(* a connection was lost.  The server's answers and events arrive in the   *)
(* order it sent them.  What a list of groups or models contains is        *)
(* abstracted to a version, the number of the change at the server that    *)
(* made it so; 0 stands for the list of a printer as it was when the       *)
(* server started, and for the empty one a new printer has in the cache.   *)
(*                                                                         *)
(* The slug in a list of printers is converted before anybody sees it, the *)
(* slug of an event is not, and neither is that of a request: the cache    *)
(* has the first for its key and looks for whichever it is given.          *)
(*                                                                         *)
(* The handlers run on the io thread and hold mutex_, so every handler is  *)
(* one action.  The request methods run on the threads of the application: *)
(* they read the cache and call its slots under mutex_, which takes two    *)
(* steps here, and the io thread goes on meanwhile with what needs no      *)
(* lock.  An exception no coroutine catches leaves run(): the model stops  *)
(* there.                                                                  *)
(***************************************************************************)
EXTENDS Naturals, Sequences, FiniteSets, SequencesExt, TLC, Functions

CONSTANTS
  Slugs,       \* the printers there may be
  ToUtf8,      \* what the slug of each becomes in the list of printers
  Removals,    \* whether the server may lose a printer again
  MaxChanges,  \* bound: changes at the server
  MaxLosses,   \* bound: connections lost or refused an answer
  MaxRequests  \* bound: calls of the request methods

\* No two slugs become the same one (TypesProofs!RoundTrip).
ASSUME FrontendAssumption ==
  /\ IsFiniteSet(Slugs)
  /\ DOMAIN ToUtf8 = Slugs
  /\ IsInjective(ToUtf8)
  /\ Removals \in BOOLEAN
  /\ MaxChanges \in Nat
  /\ MaxLosses \in Nat
  /\ MaxRequests \in Nat

\* enc::convert< enc::ToUtf8 > takes the UTF-8 of the server for Latin-1, which
\* changes every slug that is not ASCII, maybe into that of another printer.
Converted(known) == {ToUtf8[p] : p \in known}
Names == Slugs \cup Converted(Slugs)

\* The lists kept for a printer, and the requests and events about them:
\* request_groups() and modelGroupListChanged, request_models() and
\* jobsChanged.
Lists == {"groups", "models"}

\* queued_: request_printers() and the queries for a list of one printer.
PrintersQuery == [of |-> "printers"]
ListQuery(k, p) == [of |-> k, slug |-> p]
Query == {PrintersQuery} \cup {ListQuery(k, p) : k \in Lists, p \in Names}

Version == 0..MaxChanges
Contents == [Lists -> Version]
NoContents == [k \in Lists |-> 0]

\* What the server sends: answers, and the events the service subscribes to.
\* It may refuse the groups of a printer it does not have.
PrintersAnswer(known) == [of |-> "printers", reply |-> TRUE, known |-> known]
PrintersEvent(known) == [of |-> "printers", reply |-> FALSE, known |-> known]
ListAnswer(k, p, v) == [of |-> k, reply |-> TRUE, slug |-> p, version |-> v]
ListEvent(k, p) == [of |-> k, reply |-> FALSE, slug |-> p]
JobFinished == [of |-> "job", reply |-> FALSE]
Refusal == [of |-> "refusal", reply |-> TRUE]
Message ==
  {PrintersAnswer(s) : s \in SUBSET Slugs}
    \cup {PrintersEvent(s) : s \in SUBSET Slugs}
    \cup {ListAnswer(k, p, v) : k \in Lists, p \in Names, v \in Version}
    \cup {ListEvent(k, p) : k \in Lists, p \in Slugs}
    \cup {JobFinished, Refusal}

VARIABLES
  printers_,        \* {} for nullopt as well, of which nobody is told
  allPrinterData_,
  asking,           \* what the thread that holds mutex_ read for its slots,
                    \*   or Nobody
  told,             \* the printers and lists the slots were given last
  queue,            \* the queries not completed
  answered,         \* the server has answered the front of the queue
  online,           \* logged in
  wire,             \* messages on their way from the server
  server,           \* the server's printers and their lists
  changes,          \* history: changes at the server
  losses,           \* history: connections lost or refused an answer
  requests,         \* history: calls of the request methods
  fate              \* "running", or "escaped": an exception left run()

cache == <<printers_, allPrinterData_>>
application == <<asking, told, requests>>
vars == <<cache, application, queue, answered, online, wire, server, changes,
          losses, fate>>

Nobody == [of |-> "nothing"]

-----------------------------------------------------------------------------
(***************************************************************************)
(* The server and the connection                                           *)
(***************************************************************************)

\* The constructor subscribes and asks for the printers.
Init ==
  /\ printers_ = {}
  /\ allPrinterData_ = <<>>
  /\ asking = Nobody
  /\ told = <<>>
  /\ requests = 0
  /\ queue = <<PrintersQuery>>
  /\ answered = FALSE
  /\ online = FALSE
  /\ wire = <<>>
  /\ server \in UNION {[known -> {NoContents}] : known \in SUBSET Slugs}
  /\ changes = 0
  /\ losses = 0
  /\ fate = "running"

\* Something changes at the server, which sends an event if it can.
Change(now, event) ==
  /\ fate = "running"
  /\ changes < MaxChanges
  /\ changes' = changes + 1
  /\ server' = now
  /\ wire' = IF online THEN Append(wire, event) ELSE wire
  /\ UNCHANGED <<cache, application, queue, answered, online, losses, fate>>

ListChanges(k, p) ==
  /\ p \in DOMAIN server
  /\ Change([server EXCEPT ![p][k] = changes + 1], ListEvent(k, p))

\* A printer that was there before starts over, later than what it had then.
PrinterAppears(p) ==
  /\ p \notin DOMAIN server
  /\ Change([q \in DOMAIN server \cup {p} |->
               IF q = p THEN [k \in Lists |-> changes + 1] ELSE server[q]],
            PrintersEvent(DOMAIN server \cup {p}))

PrinterDisappears(p) ==
  /\ Removals
  /\ p \in DOMAIN server
  /\ Change(Restrict(server, DOMAIN server \ {p}),
            PrintersEvent(DOMAIN server \ {p}))

JobFinishes == Change(server, JobFinished)

\* The answer to a query, as things are now at the server; a printer it does
\* not have has no list now.
Has(k, p) == IF p \in DOMAIN server THEN server[p][k] ELSE changes
Answer(q) ==
  IF q = PrintersQuery THEN PrintersAnswer(DOMAIN server)
  ELSE ListAnswer(q.of, q.slug, Has(q.of, q.slug))

ServerAnswers ==
  /\ fate = "running"
  /\ online
  /\ ~answered
  /\ queue # <<>>
  /\ wire' = Append(wire, Answer(Head(queue)))
  /\ answered' = TRUE
  /\ UNCHANGED <<cache, application, queue, online, server, changes, losses,
                 fate>>

\* What checkResponseOk looks for; nothing of it is in the answer to a query
\* for models, which the server always answers with a list.
ServerRefuses ==
  /\ fate = "running"
  /\ online
  /\ ~answered
  /\ queue # <<>>
  /\ Head(queue).of = "groups"
  /\ Head(queue).slug \notin DOMAIN server
  /\ losses < MaxLosses
  /\ losses' = losses + 1
  /\ wire' = Append(wire, Refusal)
  /\ answered' = TRUE
  /\ UNCHANGED <<cache, application, queue, online, server, changes, fate>>

\* What was on its way is lost; the front of the queue will be sent again.
ConnectionLost ==
  /\ fate = "running"
  /\ online
  /\ losses < MaxLosses
  /\ losses' = losses + 1
  /\ online' = FALSE
  /\ answered' = FALSE
  /\ wire' = <<>>
  /\ UNCHANGED <<cache, application, queue, server, changes, fate>>

\* The service is logged in (again).  The frontend does not listen to that.
LoggedIn ==
  /\ fate = "running"
  /\ ~online
  /\ online' = TRUE
  /\ UNCHANGED <<cache, application, queue, answered, wire, server, changes,
                 losses, fate>>

-----------------------------------------------------------------------------
(***************************************************************************)
(* The threads of the application                                          *)
(***************************************************************************)

\* on_printers_ is given the printers, on_groups_ or on_models_ a list.
Knowing(old, known) ==
  [p \in known |-> IF p \in DOMAIN old THEN old[p] ELSE NoContents]
Learning(old, p, k, v) == [old EXCEPT ![p][k] = v]

Asks(what) ==
  /\ fate = "running"
  /\ requests < MaxRequests
  /\ asking = Nobody
  /\ asking' = what
  /\ requests' = requests + 1
  /\ UNCHANGED <<cache, told, queue, answered, online, wire, server, changes,
                 losses, fate>>

\* requestPrinters(): takes the lock and reads the printers.
RequestPrinters == Asks([of |-> "printers", known |-> printers_])

\* requestModelGroups() and requestModels(), of a printer in the cache.
RequestList(k, p) ==
  /\ p \in DOMAIN allPrinterData_
  /\ Asks([of |-> k, slug |-> p, version |-> allPrinterData_[p][k]])

\* Its slots return, and it gives the lock back.
Told ==
  /\ fate = "running"
  /\ asking # Nobody
  /\ asking' = Nobody
  /\ told' = IF asking.of = "printers" THEN Knowing(told, asking.known)
             ELSE Learning(told, asking.slug, asking.of, asking.version)
  /\ UNCHANGED <<cache, requests, queue, answered, online, wire, server,
                 changes, losses, fate>>

-----------------------------------------------------------------------------
(***************************************************************************)
(* The io thread: one message from the server                              *)
(***************************************************************************)

Receives(of, reply) ==
  /\ fate = "running"
  /\ wire # <<>>
  /\ Head(wire).of \in of
  /\ Head(wire).reply = reply

\* The queue after a handler that made new requests; the request it answers,
\* if it is an answer, is popped after that.
Requeue(new, reply) ==
  /\ queue' = IF reply THEN Tail(queue \o new) ELSE queue \o new
  /\ answered' = (answered /\ ~reply)
  /\ wire' = Tail(wire)

\* A handler that holds mutex_ calls a slot of the application.
Tells(new) ==
  /\ asking = Nobody
  /\ told' = new
  /\ UNCHANGED <<asking, requests>>

\* Seeded fault: only the groups are asked for.
RefreshGroups(known) ==
  LET slugs == SetToSeq(known)
  IN [i \in 1..Cardinality(known) |-> ListQuery("groups", slugs[i])]

\* The requests handlePrinters() makes for every printer in the list: its
\* groups, then its models.
Refresh(known) ==
  LET slugs == SetToSeq(known)
  IN [i \in 1..2 * Cardinality(known) |->
        ListQuery(IF i % 2 = 1 THEN "groups" ELSE "models",
                  slugs[(i + 1) \div 2])]

\* Seeded fault: what is cached of printers that are gone stays.
HandlePrintersKeepsData(reply) ==
  LET known == Converted(Head(wire).known)
  IN /\ Receives({"printers"}, reply)
     /\ allPrinterData_' = allPrinterData_ @@ [p \in known |-> NoContents]
     /\ printers_' = known
     /\ Tells(Knowing(told, known))
     /\ Requeue(Refresh(known), reply)
     /\ UNCHANGED <<online, server, changes, losses, fate>>

\* Seeded fault: the list of printers only grows.
HandlePrintersAddsOnly(reply) ==
  LET known == Converted(Head(wire).known)
  IN /\ Receives({"printers"}, reply)
     /\ allPrinterData_' = allPrinterData_ @@ [p \in known |-> NoContents]
     /\ printers_' = printers_ \cup known
     /\ Tells(Knowing(told, known))
     /\ Requeue(Refresh(known), reply)
     /\ UNCHANGED <<online, server, changes, losses, fate>>

\* handlePrinters(): known printers keep their data until the answers come.
HandlePrinters(reply) ==
  LET known == Converted(Head(wire).known)
  IN /\ Receives({"printers"}, reply)
     /\ allPrinterData_' = Knowing(allPrinterData_, known)
     /\ printers_' = known
     /\ Tells(Knowing(told, known))
     /\ Requeue(Refresh(known), reply)
     /\ UNCHANGED <<online, server, changes, losses, fate>>

\* Seeded fault: the handler does not take the lock.
HandleListUnlocked ==
  LET m == Head(wire)
  IN /\ Receives(Lists, TRUE)
     /\ m.slug \in DOMAIN allPrinterData_
     /\ allPrinterData_' = Learning(allPrinterData_, m.slug, m.of, m.version)
     /\ told' = Learning(told, m.slug, m.of, m.version)
     /\ Requeue(<<>>, TRUE)
     /\ UNCHANGED <<printers_, asking, requests, online, server, changes,
                    losses, fate>>

\* handleModelGroups() and handleModels() of a printer in the cache.
HandleList ==
  LET m == Head(wire)
  IN /\ Receives(Lists, TRUE)
     /\ m.slug \in DOMAIN allPrinterData_
     /\ allPrinterData_' = Learning(allPrinterData_, m.slug, m.of, m.version)
     /\ Tells(Learning(told, m.slug, m.of, m.version))
     /\ Requeue(<<>>, TRUE)
     /\ UNCHANGED <<printers_, online, server, changes, losses, fate>>

\* at() throws for any other; out_of_range is not caught by the coroutine.
HandleUnknownPrinter ==
  /\ Receives(Lists, TRUE)
  /\ Head(wire).slug \notin DOMAIN allPrinterData_
  /\ asking = Nobody
  /\ fate' = "escaped"
  /\ wire' = Tail(wire)
  /\ UNCHANGED <<cache, application, queue, answered, online, server, changes,
                 losses>>

\* checkResponseOk throws, and the service reconnects and asks again.
HandleRefusal ==
  /\ Receives({"refusal"}, TRUE)
  /\ online' = FALSE
  /\ answered' = FALSE
  /\ wire' = <<>>
  /\ UNCHANGED <<cache, application, queue, server, changes, losses, fate>>

\* modelGroupListChanged and jobsChanged make the service ask for the list, by
\* the slug of the event.
HandleListEvent ==
  LET m == Head(wire)
  IN /\ Receives(Lists, FALSE)
     /\ Requeue(<<ListQuery(m.of, m.slug)>>, FALSE)
     /\ UNCHANGED <<cache, application, online, server, changes, losses, fate>>

\* jobFinished makes it ask for the printers.
HandleJobFinished ==
  /\ Receives({"job"}, FALSE)
  /\ Requeue(<<PrintersQuery>>, FALSE)
  /\ UNCHANGED <<cache, application, online, server, changes, losses, fate>>

HandleMessage ==
  \/ \E reply \in BOOLEAN : HandlePrinters(reply)
  \/ HandleList \/ HandleUnknownPrinter \/ HandleRefusal
  \/ HandleListEvent \/ HandleJobFinished

Next ==
  \/ \E p \in Slugs :
       \/ \E k \in Lists : ListChanges(k, p)
       \/ PrinterAppears(p)
       \/ PrinterDisappears(p)
  \/ JobFinishes
  \/ ServerAnswers
  \/ ServerRefuses
  \/ ConnectionLost
  \/ LoggedIn
  \/ RequestPrinters
  \/ \E k \in Lists, p \in Names : RequestList(k, p)
  \/ Told
  \/ HandleMessage

Spec == Init /\ [][Next]_vars

\* The service connects and logs in (Service!Reconnects), the server answers
\* what it is asked, run() is executing, and the application's slots return.
Fairness ==
  /\ WF_vars(LoggedIn)
  /\ WF_vars(ServerAnswers)
  /\ WF_vars(HandleMessage)
  /\ WF_vars(Told)

FairSpec == Spec /\ Fairness

-----------------------------------------------------------------------------
(***************************************************************************)
(* Properties                                                              *)
(***************************************************************************)

\* The types of the variables; the two parts of the cache know the same
\* printers.
TypeOK ==
  /\ printers_ \subseteq Converted(Slugs)
  /\ allPrinterData_ \in [printers_ -> Contents]
  /\ told \in [printers_ -> Contents]
  /\ asking \in {Nobody}
       \cup [of : {"printers"}, known : {printers_}]
       \cup [of : Lists, slug : printers_, version : Version]
  /\ requests \in 0..MaxRequests
  /\ queue \in Seq(Query)
  /\ answered \in BOOLEAN
  /\ online \in BOOLEAN
  /\ wire \in Seq(Message)
  /\ DOMAIN server \subseteq Slugs /\ server \in [DOMAIN server -> Contents]
  /\ changes \in 0..MaxChanges
  /\ losses \in 0..MaxLosses
  /\ fate \in {"running", "escaped"}

\* The queries the server has yet to answer, and the messages on the wire.
Unanswered == ToSet(IF answered THEN Tail(queue) ELSE queue)
Coming == ToSet(wire)

\* Whatever the cache does not know is on its way: a printer it does not list is
\* in a message to come, and a list that is out of date is about to be asked for
\* or answered.  The lists are those of a printer that keeps its slug: for
\* another one Refresh asks by a slug the server does not know.
StaleIsNoticed ==
  \A p \in DOMAIN server :
    \/ PrintersQuery \in Unanswered
    \/ \E m \in Coming : m.of = "printers" /\ p \in m.known
    \/ /\ ToUtf8[p] \in printers_
       /\ ToUtf8[p] = p =>
            \A k \in Lists :
              \/ allPrinterData_[p][k] = server[p][k]
              \/ ListQuery(k, p) \in Unanswered
              \/ ListEvent(k, p) \in Coming
              \/ ListAnswer(k, p, server[p][k]) \in Coming

\* A printer the server no longer has does not stay in the cache: the next list,
\* asked for or on its way, is without it.
GoneIsNoticed ==
  \A p \in Slugs \ DOMAIN server :
    ToUtf8[p] \in printers_ =>
      \/ PrintersQuery \in Unanswered
      \/ \E m \in Coming : m.of = "printers" /\ p \notin m.known

\* What is out of date is noticed, what is gone too, while the first connection
\* lasts: no connection was lost, and none is about to be for a refusal.
Noticed == StaleIsNoticed /\ GoneIsNoticed
OutdatedIsNoticed == losses = 0 => Noticed

\* What the slots are given of a printer is never followed by something older,
\* whatever is lost, refused, asked again or answered twice, and whichever
\* threads they are called on: handlers and request methods read and tell under
\* one lock.
ToldNeverOlder ==
  [][\A p \in DOMAIN told \cap DOMAIN told', k \in Lists :
       told[p][k] <= told'[p][k]]_vars

\* When the server comes to rest and no connection was lost, the cache ends up
\* with what it has, and so does what the application was told: the events, the
\* queries they cause, the answers to them and the calls on other threads
\* settle.  The printers are all there, the lists are right of those that keep
\* their slug, and an exception ends it.
UpToDate(known) ==
  /\ DOMAIN known = Converted(DOMAIN server)
  /\ \A p \in DOMAIN server : ToUtf8[p] = p => known[p] = server[p]
Converges ==
  <>[](\/ UpToDate(allPrinterData_) /\ UpToDate(told)
       \/ losses # 0
       \/ fate = "escaped")

\* handleModelGroups() and handleModels() look up their printer with at(): an
\* answer always finds it.  While the first connection lasts, no printer is
\* removed and every printer keeps its slug, it does: the list of printers comes
\* first.  But one added during an outage is not in the cache, and when
\* something changes about it later, at() throws; so it does for the first
\* event about a printer whose slug is not ASCII.
AnswersFindTheirPrinter == fate = "running"
=============================================================================
