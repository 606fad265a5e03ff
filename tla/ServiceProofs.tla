---------------------------- MODULE ServiceProofs ----------------------------
(***************************************************************************)
(* Proofs about Service, for every number of calls and faults and every    *)
(* set of kinds.  Everything rests on the shape of the queue: some logins, *)
(* then exactly the calls that are not completed, in order.                *)
(***************************************************************************)
EXTENDS Service, SequenceTheorems, FiniteSetTheorems, TLAPS

\* q is l logins followed by the calls d+1, d+2, ..., in this order.
LoginsThenCalls(q, d, l) ==
  /\ l \in 0..Len(q)
  /\ \A i \in 1..l : q[i] = Login
  /\ \A i \in (l + 1)..Len(q) : q[i] \in Call /\ q[i].id = d + i - l

\* The calls in the queue are those that are not completed; its logins, but
\* for one of the current connection, are paid for by faults.
Shape(l) ==
  /\ LoginsThenCalls(queued, Len(done), l)
  /\ calls = Len(done) + Len(queued) - l
  /\ l <= faults \/ (client = "up" /\ l <= faults + 1)

QueueShape == \E l \in Nat : Shape(l)

\* The completed calls are the first ones.
DoneInOrder == \A i \in DOMAIN done : done[i] = i

\* What was sent on this connection is completed, or waits at the front.
SentBound ==
  \A i \in DOMAIN sent :
    \/ sent[i] <= Len(done)
    \/ pending /\ queued # <<>> /\ Head(queued).id = sent[i]

\* The delay of the next failure is at least the last one.
BackoffBound == ~connected => timer.delay <= RetryTimeout(retry)

IInv ==
  /\ TypeOK
  /\ FrontIsPending
  /\ LoginBeforeCalls
  /\ QueueShape
  /\ DoneInOrder
  /\ SentBound
  /\ SentOncePerConnection
  /\ BackoffBound

-----------------------------------------------------------------------------

LEMMA EntryFacts ==
  /\ Login \in Entry /\ NoEntry \notin Entry /\ Login \notin Call
  /\ Call \subseteq Entry
  /\ Login.id = 0 /\ NoEntry.id = 0 /\ Login # NoEntry
  /\ \A e \in Call : e.id \in Nat \ {0} /\ e.kind \in Kinds /\ e # NoEntry
  /\ \A e \in Entry : e.id \in Nat /\ (e.id > 0 <=> e \in Call)
  /\ \A k \in Kinds, n \in Nat \ {0} : [id |-> n, kind |-> k] \in Call
<1>1. "login" \notin Kinds /\ "none" \notin Kinds
  BY ConstantsAssumption DEF Queries, Commands
<1>2. QED
  BY <1>1 DEF Login, NoEntry, Call, Entry

LEMMA RetryTimeoutMonotone ==
  ASSUME NEW n \in Nat
  PROVE  RetryTimeout(n) \in Nat /\ RetryTimeout(n) <= RetryTimeout(n + 1)
BY DEF RetryTimeout

\* What the front of a queue of entries is worth to send_next().
LEMMA NextSendType ==
  ASSUME NEW q \in Seq(Entry), NEW force \in BOOLEAN, NEW conn \in BOOLEAN,
         NEW pend \in BOOLEAN
  PROVE  LET next == NextSend(force, conn, pend, q)
         IN  /\ next \in Entry \cup {NoEntry}
             /\ next # NoEntry =>
                  (conn \/ force) /\ ~pend /\ q # <<>> /\ next = Head(q)
BY EntryFacts, HeadTailProperties DEF NextSend

-----------------------------------------------------------------------------
(***************************************************************************)
(* What the operations on the queue do to its shape.                       *)
(***************************************************************************)

LEMMA HeadFacts ==
  ASSUME NEW q \in Seq(Entry), NEW d \in Nat, NEW l \in Nat,
         LoginsThenCalls(q, d, l), q # <<>>
  PROVE  /\ Head(q) \in Call => l = 0 /\ Head(q).id = d + 1
         /\ Head(q) = Login => l > 0
<1>1. Len(q) \in Nat /\ Len(q) > 0 /\ Head(q) = q[1]
  OBVIOUS
<1>2. l > 0 => Head(q) = Login
  BY <1>1 DEF LoginsThenCalls
<1>3. l = 0 => Head(q) \in Call /\ Head(q).id = d + 1
  BY <1>1 DEF LoginsThenCalls
<1>4. QED
  BY <1>2, <1>3, EntryFacts

LEMMA AppendCall ==
  ASSUME NEW q \in Seq(Entry), NEW d \in Nat, NEW l \in Nat,
         LoginsThenCalls(q, d, l),
         NEW e \in Call, e.id = d + Len(q) + 1 - l
  PROVE  LoginsThenCalls(Append(q, e), d, l)
<1> DEFINE a == Append(q, e)
<1>1. /\ Len(q) \in Nat /\ Len(a) = Len(q) + 1
      /\ \A i \in 1..Len(q) : a[i] = q[i]
      /\ a[Len(q) + 1] = e
  OBVIOUS
<1>2. l \in 0..Len(a) /\ \A i \in 1..l : a[i] = Login
  BY <1>1 DEF LoginsThenCalls
<1>3. ASSUME NEW i \in (l + 1)..Len(a)
      PROVE  a[i] \in Call /\ a[i].id = d + i - l
  <2> HIDE DEF a
  <2>1. CASE i = Len(q) + 1
    BY <1>1, <2>1
  <2>2. CASE i \in (l + 1)..Len(q)
    <3>1. i \in 1..Len(q)
      BY <1>1, <2>2
    <3>2. q[i] \in Call /\ q[i].id = d + i - l
      BY <2>2 DEF LoginsThenCalls
    <3>3. QED
      BY <1>1, <3>1, <3>2
  <2>3. QED
    BY <1>1, <2>1, <2>2
<1>4. QED
  BY <1>2, <1>3 DEF LoginsThenCalls

LEMMA PushLogin ==
  ASSUME NEW q \in Seq(Entry), NEW d \in Nat, NEW l \in Nat,
         LoginsThenCalls(q, d, l)
  PROVE  LET p == <<Login>> \o q
         IN  /\ p \in Seq(Entry) /\ p # <<>> /\ Head(p) = Login
             /\ Len(p) = Len(q) + 1
             /\ LoginsThenCalls(p, d, l + 1)
<1> DEFINE p == <<Login>> \o q
<1>1. /\ Len(q) \in Nat /\ Len(p) = Len(q) + 1
      /\ p[1] = Login
      /\ \A i \in 1..Len(q) : p[i + 1] = q[i]
  OBVIOUS
<1>2. p \in Seq(Entry) /\ p # <<>> /\ Head(p) = Login
  BY EntryFacts
<1>3. LoginsThenCalls(p, d, l + 1)
  <2> HIDE DEF p
  <2>1. \A i \in 2..Len(p) : i - 1 \in 1..Len(q) /\ p[i] = q[i - 1]
    <3>1. SUFFICES ASSUME NEW i \in 2..Len(p)
                   PROVE  i - 1 \in 1..Len(q) /\ p[i] = q[i - 1]
      OBVIOUS
    <3>2. i - 1 \in 1..Len(q) /\ (i - 1) + 1 = i
      BY <1>1
    <3>3. QED
      BY <1>1, <3>2
  <2>2. l + 1 \in 0..Len(p)
    BY <1>1 DEF LoginsThenCalls
  <2>3. ASSUME NEW i \in 1..(l + 1) PROVE p[i] = Login
    <3>1. CASE i = 1
      BY <1>1, <3>1
    <3>2. CASE i # 1
      <4>1. i \in 2..Len(p) /\ i - 1 \in 1..l
        BY <2>2, <3>2 DEF LoginsThenCalls
      <4>2. q[i - 1] = Login
        BY <4>1 DEF LoginsThenCalls
      <4>3. QED
        BY <2>1, <4>1, <4>2
    <3>3. QED
      BY <3>1, <3>2
  <2>4. ASSUME NEW i \in ((l + 1) + 1)..Len(p)
        PROVE  p[i] \in Call /\ p[i].id = d + i - (l + 1)
    <3>1. i \in 2..Len(p) /\ i - 1 \in (l + 1)..Len(q)
      BY <1>1
    <3>2. q[i - 1] \in Call /\ q[i - 1].id = d + (i - 1) - l
      BY <3>1 DEF LoginsThenCalls
    <3>3. p[i] = q[i - 1]
      BY <2>1, <3>1
    <3>4. d + (i - 1) - l = d + i - (l + 1)
      BY <1>1, <3>1
    <3>5. QED
      BY <3>2, <3>3, <3>4
  <2>5. QED
    BY <2>2, <2>3, <2>4 DEF LoginsThenCalls
<1>4. QED
  BY <1>1, <1>2, <1>3

\* handle_sent() pops what was at the front.
LEMMA PopFront ==
  ASSUME NEW q \in Seq(Entry), NEW d \in Nat, NEW l \in Nat,
         LoginsThenCalls(q, d, l), q # <<>>
  PROVE  /\ Tail(q) \in Seq(Entry) /\ Len(Tail(q)) = Len(q) - 1
         /\ l > 0 => LoginsThenCalls(Tail(q), d, l - 1)
         /\ l = 0 => LoginsThenCalls(Tail(q), d + 1, 0)
<1> DEFINE t == Tail(q)
<1>1. /\ Len(q) \in Nat /\ Len(q) > 0 /\ Len(t) = Len(q) - 1
      /\ t \in Seq(Entry)
      /\ \A i \in 1..Len(t) : t[i] = q[i + 1]
  OBVIOUS
<1> HIDE DEF t
<1>2. l > 0 => LoginsThenCalls(t, d, l - 1)
  <2>1. SUFFICES ASSUME l > 0 PROVE LoginsThenCalls(t, d, l - 1)
    OBVIOUS
  <2>2. l - 1 \in 0..Len(t)
    BY <1>1, <2>1 DEF LoginsThenCalls
  <2>3. \A i \in 1..(l - 1) : t[i] = Login
    BY <1>1, <2>2 DEF LoginsThenCalls
  <2>4. ASSUME NEW i \in ((l - 1) + 1)..Len(t)
        PROVE  t[i] \in Call /\ t[i].id = d + i - (l - 1)
    <3>1. i \in 1..Len(t) /\ i + 1 \in (l + 1)..Len(q)
      BY <1>1, <2>1
    <3>2. q[i + 1] \in Call /\ q[i + 1].id = d + (i + 1) - l
      BY <3>1 DEF LoginsThenCalls
    <3>3. QED
      BY <1>1, <3>1, <3>2
  <2>5. QED
    BY <2>2, <2>3, <2>4 DEF LoginsThenCalls
<1>3. l = 0 => LoginsThenCalls(t, d + 1, 0)
  <2>1. SUFFICES ASSUME l = 0 PROVE LoginsThenCalls(t, d + 1, 0)
    OBVIOUS
  <2>2. ASSUME NEW i \in (0 + 1)..Len(t)
        PROVE  t[i] \in Call /\ t[i].id = (d + 1) + i - 0
    <3>1. i \in 1..Len(t) /\ i + 1 \in (0 + 1)..Len(q)
      BY <1>1
    <3>2. q[i + 1] \in Call /\ q[i + 1].id = d + (i + 1) - 0
      BY <2>1, <3>1 DEF LoginsThenCalls
    <3>3. QED
      BY <1>1, <3>1, <3>2
  <2>3. QED
    BY <1>1, <2>2 DEF LoginsThenCalls
<1>4. QED
  BY <1>1, <1>2, <1>3 DEF t

\* Handing the front to the client keeps the sent calls in order, when all
\* that was sent before is completed.
LEMMA AppendSent ==
  ASSUME NEW s \in Seq(Nat), NEW d \in Nat, NEW n \in Nat, n > d,
         \A i \in DOMAIN s : s[i] <= d,
         \A i, j \in DOMAIN s : i < j => s[i] < s[j]
  PROVE  LET a == Append(s, n)
         IN  /\ a \in Seq(Nat)
             /\ \A i \in DOMAIN a : a[i] <= d \/ a[i] = n
             /\ \A i, j \in DOMAIN a : i < j => a[i] < a[j]
<1> DEFINE a == Append(s, n)
<1>1. /\ Len(s) \in Nat /\ DOMAIN s = 1..Len(s)
      /\ DOMAIN a = 1..(Len(s) + 1)
      /\ \A i \in 1..Len(s) : a[i] = s[i] /\ s[i] \in Nat
      /\ a[Len(s) + 1] = n
      /\ a \in Seq(Nat)
  OBVIOUS
<1> HIDE DEF a
<1>2. \A i \in DOMAIN a : a[i] <= d \/ a[i] = n
  BY <1>1
<1>3. ASSUME NEW i \in DOMAIN a, NEW j \in DOMAIN a, i < j PROVE a[i] < a[j]
  <2>1. i \in 1..Len(s)
    BY <1>1, <1>3
  <2>2. CASE j = Len(s) + 1
    BY <1>1, <2>1, <2>2
  <2>3. CASE j \in 1..Len(s)
    BY <1>1, <1>3, <2>1, <2>3
  <2>4. QED
    BY <1>1, <2>2, <2>3
<1>4. QED
  BY <1>1, <1>2, <1>3 DEF a

-----------------------------------------------------------------------------
LEMMA InitIInv == Init => IInv
<1> SUFFICES ASSUME Init PROVE IInv
  OBVIOUS
<1>1. TypeOK
  BY EmptySeq DEF Init, TypeOK, Link!Init, Link!TypeOK, Link!Offer
<1>2. QueueShape
  <2>1. Shape(0)
    BY ConstantsAssumption DEF Init, Shape, LoginsThenCalls
  <2>2. QED
    BY <2>1 DEF QueueShape
<1>3. BackoffBound
  BY DEF Init, BackoffBound, RetryTimeout
<1>4. FrontIsPending /\ LoginBeforeCalls
  BY EntryFacts DEF Init, Link!Init, FrontIsPending, LoginBeforeCalls
<1>5. DoneInOrder /\ SentBound /\ SentOncePerConnection
  BY DEF Init, DoneInOrder, SentBound, SentOncePerConnection
<1>6. QED
  BY <1>1, <1>2, <1>3, <1>4, <1>5 DEF IInv

-----------------------------------------------------------------------------
(***************************************************************************)
(* Each action preserves the invariant.                                    *)
(***************************************************************************)

LEMMA SubscribeStep ==
  ASSUME IInv, NEW k \in Kinds, Subscribe(k)
  PROVE  IInv'
<1> USE DEF IInv, Subscribe
<1>1. TypeOK'
  BY DEF TypeOK, Link!TypeOK
<1>2. FrontIsPending' /\ LoginBeforeCalls'
  BY DEF FrontIsPending, LoginBeforeCalls
<1>3. QueueShape'
  BY DEF QueueShape, Shape
<1>4. DoneInOrder' /\ SentBound' /\ SentOncePerConnection' /\ BackoffBound'
  BY DEF DoneInOrder, SentBound, SentOncePerConnection, BackoffBound
<1>5. QED
  BY <1>1, <1>2, <1>3, <1>4

LEMMA ReconnectStep ==
  ASSUME IInv, Reconnect
  PROVE  IInv'
<1> USE DEF IInv, Reconnect, Link!Dial
<1>1. TypeOK'
  BY DEF TypeOK, Link!TypeOK, Link!Offer
<1>2. FrontIsPending' /\ LoginBeforeCalls'
  BY EntryFacts DEF FrontIsPending, LoginBeforeCalls
<1>3. QueueShape'
  BY DEF QueueShape, Shape
<1>4. DoneInOrder' /\ SentBound' /\ SentOncePerConnection'
  BY DEF DoneInOrder, SentBound, SentOncePerConnection
<1>5. BackoffBound'
  BY DEF BackoffBound, TypeOK
<1>6. QED
  BY <1>1, <1>2, <1>3, <1>4, <1>5

LEMMA GarbledStep ==
  ASSUME IInv, NEW left \in {inflight, NoEntry}, Link!Garbled(left),
         faults' = faults + 1,
         UNCHANGED <<connected, pending, retry, queued, slots, timer, calls,
                     done, sent>>
  PROVE  IInv'
<1> USE DEF IInv, Link!Garbled
<1>1. TypeOK'
  BY DEF TypeOK, Link!TypeOK, Link!Offer
<1>2. FrontIsPending' /\ LoginBeforeCalls'
  BY EntryFacts DEF FrontIsPending, LoginBeforeCalls
<1>3. QueueShape'
  <2>1. PICK l \in Nat : Shape(l)
    BY DEF QueueShape
  <2>2. l <= faults'
    BY <2>1 DEF Shape, TypeOK
  <2>3. Shape(l)'
    BY <2>1, <2>2 DEF Shape
  <2>4. QED
    BY <2>3 DEF QueueShape
<1>4. DoneInOrder' /\ SentBound' /\ SentOncePerConnection' /\ BackoffBound'
  BY DEF DoneInOrder, SentBound, SentOncePerConnection, BackoffBound
<1>5. QED
  BY <1>1, <1>2, <1>3, <1>4

\* An error keeps the queue; its logins are paid for by the fault, or by the
\* earlier one that made the client deaf, or there are none left.
LEMMA ErrorStep ==
  ASSUME IInv, HandleError,
         \/ faults' = faults + 1
         \/ faults' = faults /\ (client # "up" \/ inflight \in Call)
  PROVE  IInv'
<1> USE DEF IInv, HandleError, Link!Failed
<1>1. TypeOK'
  <2>1. retry \in Nat /\ RetryTimeout(retry) \in Nat
    BY RetryTimeoutMonotone DEF TypeOK
  <2>2. timer' \in [armed : BOOLEAN, delay : Nat] /\ retry' \in Nat
    BY <2>1
  <2>3. faults' \in Nat /\ sent' \in Seq(Nat)
    BY EmptySeq DEF TypeOK
  <2>4. Link!TypeOK'
    BY DEF Link!TypeOK, Link!Offer
  <2>5. QED
    BY <2>2, <2>3, <2>4 DEF TypeOK
<1>2. FrontIsPending' /\ LoginBeforeCalls'
  BY EntryFacts DEF FrontIsPending, LoginBeforeCalls
<1>3. QueueShape'
  <2>1. PICK l \in Nat : Shape(l)
    BY DEF QueueShape
  <2>2. faults' \in Nat
    BY DEF TypeOK
  <2>3. l <= faults'
    <3>1. CASE faults' = faults + 1
      BY <2>1, <3>1 DEF Shape, TypeOK
    <3>2. CASE faults' = faults /\ client # "up"
      BY <2>1, <3>2 DEF Shape, TypeOK
    <3>3. CASE inflight \in Call
      <4>1. queued # <<>> /\ Head(queued) \in Call
        BY <3>3, EntryFacts DEF FrontIsPending
      <4>2. l = 0
        BY <2>1, <4>1, HeadFacts DEF Shape, TypeOK
      <4>3. QED
        BY <2>2, <4>2
    <3>4. QED
      BY <3>1, <3>2, <3>3
  <2>4. Shape(l)'
    BY <2>1, <2>3 DEF Shape
  <2>5. QED
    BY <2>4 DEF QueueShape
<1>4. DoneInOrder' /\ SentBound' /\ SentOncePerConnection'
  BY DEF DoneInOrder, SentBound, SentOncePerConnection
<1>5. BackoffBound'
  BY RetryTimeoutMonotone DEF BackoffBound, TypeOK
<1>6. QED
  BY <1>1, <1>2, <1>3, <1>4, <1>5

\* A hand-over of the front of the new queue, when nothing is pending.
LEMMA StartFacts ==
  ASSUME TypeOK,
         NEW q \in Seq(Entry), NEW d \in Nat, NEW l \in Nat,
         LoginsThenCalls(q, d, l),
         NEW force \in BOOLEAN, NEW conn \in BOOLEAN,
         \A i \in DOMAIN sent : sent[i] <= d, SentOncePerConnection,
         queued' = q,
         Start(NextSend(force, conn, FALSE, q), FALSE),
         inflight' = NextSend(force, conn, FALSE, q)
  PROVE  /\ pending' \in BOOLEAN /\ sent' \in Seq(Nat)
         /\ FrontIsPending' /\ SentOncePerConnection'
         /\ \A i \in DOMAIN sent' :
              \/ sent'[i] <= d
              \/ pending' /\ queued' # <<>> /\ Head(queued').id = sent'[i]
<1> DEFINE next == NextSend(force, conn, FALSE, q)
<1>1. /\ next \in Entry \cup {NoEntry}
      /\ next # NoEntry => q # <<>> /\ next = Head(q)
  BY NextSendType
<1>2. pending' = (next # NoEntry)
  BY DEF Start
<1>3. sent' = IF next.id > 0 THEN Append(sent, next.id) ELSE sent
  BY DEF Start
<1> HIDE DEF next
<1>4. inflight' = next
  BY DEF next
<1>5. FrontIsPending'
  BY <1>1, <1>2, <1>4 DEF FrontIsPending
<1>6. CASE next.id > 0
  <2>1. next \in Call /\ next # NoEntry
    BY <1>1, <1>6, EntryFacts
  <2>2. next.id \in Nat /\ next.id = d + 1
    BY <1>1, <2>1, HeadFacts, EntryFacts
  <2>3. sent \in Seq(Nat) /\ sent' = Append(sent, next.id)
    BY <1>3, <1>6 DEF TypeOK
  <2>4. next.id > d
    BY <2>2
  <2>5. /\ sent' \in Seq(Nat)
        /\ \A i \in DOMAIN sent' : sent'[i] <= d \/ sent'[i] = next.id
        /\ \A i, j \in DOMAIN sent' : i < j => sent'[i] < sent'[j]
    BY <2>2, <2>3, <2>4, AppendSent DEF SentOncePerConnection
  <2>6. pending' /\ queued' # <<>> /\ Head(queued').id = next.id
    BY <1>1, <1>2, <2>1
  <2>7. QED
    BY <1>2, <1>5, <2>5, <2>6 DEF SentOncePerConnection
<1>7. CASE ~(next.id > 0)
  BY <1>2, <1>3, <1>5, <1>7 DEF TypeOK, SentOncePerConnection
<1>8. QED
  BY <1>6, <1>7

LEMMA SendStep ==
  ASSUME IInv, NEW k \in Kinds, Send(k)
  PROVE  IInv'
<1> DEFINE e    == [id |-> calls + 1, kind |-> k]
           q    == Append(queued, e)
           next == NextSend(FALSE, connected, pending, q)
<1>1. PICK l \in Nat : Shape(l)
  BY DEF IInv, QueueShape
<1>2. /\ queued \in Seq(Entry) /\ Len(queued) \in Nat
      /\ calls \in Nat /\ Len(done) \in Nat /\ faults \in Nat
      /\ connected \in BOOLEAN /\ pending \in BOOLEAN
      /\ sent \in Seq(Nat)
  BY DEF IInv, TypeOK
<1>3. /\ calls' = calls + 1 /\ queued' = q /\ Start(next, pending)
      /\ IF next = NoEntry THEN UNCHANGED <<client, inflight>>
                           ELSE Link!Post(next)
      /\ UNCHANGED <<connected, retry, slots, timer, done, faults>>
  BY DEF Send
<1>4. e \in Call /\ e.id = Len(done) + Len(queued) + 1 - l
  <2>1. calls + 1 \in Nat \ {0}
    BY <1>2
  <2>2. e \in Call /\ e.id = calls + 1
    BY <2>1, EntryFacts
  <2>3. calls = Len(done) + Len(queued) - l
    BY <1>1 DEF Shape
  <2>4. QED
    BY <1>2, <2>2, <2>3
<1>5. LoginsThenCalls(q, Len(done), l)
  BY <1>1, <1>2, <1>4, AppendCall DEF Shape
<1>6. q \in Seq(Entry) /\ Len(q) = Len(queued) + 1 /\ q # <<>>
  <2>1. e \in Entry
    BY <1>4, EntryFacts
  <2> HIDE DEF e
  <2>2. QED
    BY <1>2, <2>1
<1>7. queued # <<>> => Head(q) = Head(queued)
  BY <1>2, <1>4, EntryFacts
<1> HIDE DEF e, q
<1>8. client' = client
  BY <1>3 DEF Link!Post
<1>9. QueueShape'
  <2>1. Shape(l)'
    BY <1>1, <1>2, <1>3, <1>5, <1>6, <1>8 DEF Shape
  <2>2. QED
    BY <2>1 DEF QueueShape
<1>10. /\ pending' \in BOOLEAN /\ sent' \in Seq(Nat)
       /\ FrontIsPending' /\ SentOncePerConnection' /\ SentBound'
       /\ inflight' \in Entry \cup {NoEntry}
       /\ inflight' = inflight \/ (pending' /\ inflight' = next)
       /\ sent' = sent \/ next # NoEntry
  <2>1. CASE pending
    <3>1. next = NoEntry
      BY <2>1, <1>2 DEF NextSend
    <3>2. pending' = TRUE /\ sent' = sent /\ inflight' = inflight
      BY <2>1, <1>3, <3>1, EntryFacts DEF Start
    <3>3. QED
      BY <1>2, <1>3, <1>6, <1>7, <3>2
         DEF IInv, TypeOK, Link!TypeOK, Link!Offer, FrontIsPending,
             SentOncePerConnection, SentBound
  <2>2. CASE ~pending
    <3>1. inflight = NoEntry
      BY <2>2 DEF IInv, FrontIsPending
    <3>2. next = NextSend(FALSE, connected, FALSE, q)
      BY <2>2 DEF NextSend
    <3>3. inflight' = NextSend(FALSE, connected, FALSE, q)
      BY <1>3, <3>1, <3>2 DEF Link!Post
    <3>4. Start(NextSend(FALSE, connected, FALSE, q), FALSE)
      BY <1>3, <2>2, <3>2 DEF Start
    <3>5. \A i \in DOMAIN sent : sent[i] <= Len(done)
      BY <2>2 DEF IInv, SentBound
    <3>6. /\ pending' \in BOOLEAN /\ sent' \in Seq(Nat)
          /\ FrontIsPending' /\ SentOncePerConnection'
          /\ \A i \in DOMAIN sent' :
              \/ sent'[i] <= Len(done)
              \/ pending' /\ queued' # <<>> /\ Head(queued').id = sent'[i]
      BY <1>2, <1>3, <1>5, <1>6, <3>3, <3>4, <3>5, StartFacts DEF IInv
    <3>7. SentBound'
      BY <1>3, <3>6 DEF SentBound
    <3>8. inflight' \in Entry \cup {NoEntry}
      BY <1>2, <1>6, <3>3, NextSendType
    <3>9. pending' = (next # NoEntry) /\ (next = NoEntry => sent' = sent)
      BY <1>3, <2>2, EntryFacts DEF Start
    <3>10. QED
      BY <3>1, <3>2, <3>3, <3>6, <3>7, <3>8, <3>9
  <2>3. QED
    BY <1>2, <2>1, <2>2
<1>11. TypeOK'
  BY <1>2, <1>3, <1>6, <1>8, <1>10
     DEF IInv, TypeOK, Link!TypeOK, Link!Offer
<1>12. LoginBeforeCalls'
  <2>1. next # NoEntry => connected
    BY <1>2, <1>6, NextSendType
  <2>2. QED
    BY <1>3, <1>8, <1>10, <2>1, EntryFacts DEF IInv, LoginBeforeCalls
<1>13. DoneInOrder' /\ BackoffBound'
  BY <1>3 DEF IInv, DoneInOrder, BackoffBound
<1>14. QED
  BY <1>9, <1>10, <1>11, <1>12, <1>13 DEF IInv

LEMMA HandleConnectedStep ==
  ASSUME IInv, HandleConnected
  PROVE  IInv'
<1> DEFINE q    == <<Login>> \o queued
           next == NextSend(TRUE, connected, pending, q)
<1>1. PICK l \in Nat : Shape(l)
  BY DEF IInv, QueueShape
<1>2. /\ queued \in Seq(Entry) /\ Len(queued) \in Nat
      /\ Len(done) \in Nat /\ faults \in Nat /\ calls \in Nat
      /\ connected \in BOOLEAN /\ pending \in BOOLEAN
      /\ sent \in Seq(Nat)
  BY DEF IInv, TypeOK
<1>3. /\ queued' = q /\ Start(next, pending)
      /\ client = "connecting" /\ client' = "up" /\ inflight' = next
      /\ UNCHANGED <<connected, retry, slots, timer, calls, done, faults>>
  BY DEF HandleConnected, Link!Established
<1>4. /\ q \in Seq(Entry) /\ q # <<>> /\ Head(q) = Login
      /\ Len(q) = Len(queued) + 1
      /\ LoginsThenCalls(q, Len(done), l + 1)
  BY <1>1, <1>2, PushLogin DEF Shape
<1>5. connected = FALSE /\ sent = <<>>
  BY <1>2, <1>3 DEF IInv, LoginBeforeCalls
<1> HIDE DEF q
<1>6. QueueShape'
  <2>1. l <= faults
    BY <1>1, <1>3 DEF Shape
  <2>2. l + 1 <= faults' + 1 /\ l + 1 \in Nat
    BY <1>2, <1>3, <2>1
  <2>3. calls' = Len(done') + Len(queued') - (l + 1)
    BY <1>1, <1>2, <1>3, <1>4 DEF Shape
  <2>4. LoginsThenCalls(queued', Len(done'), l + 1)
    BY <1>3, <1>4
  <2>5. Shape(l + 1)'
    BY <1>3, <2>2, <2>3, <2>4 DEF Shape
  <2>6. QED
    BY <2>2, <2>5 DEF QueueShape
<1>7. next \in {Login, NoEntry}
  BY <1>2, <1>4, NextSendType
<1>8. sent' = <<>>
  BY <1>3, <1>5, <1>7, EntryFacts DEF Start
<1>9. /\ pending' \in BOOLEAN /\ FrontIsPending'
  <2>1. next # NoEntry => next = Head(q) /\ q # <<>>
    BY <1>2, <1>4, NextSendType
  <2>2. pending' = (pending \/ next # NoEntry)
    BY <1>3 DEF Start
  <2>3. QED
    BY <1>2, <1>3, <2>1, <2>2 DEF FrontIsPending
<1>10. TypeOK'
  <2>1. inflight' \in Entry \cup {NoEntry}
    BY <1>3, <1>7, EntryFacts
  <2>2. sent' \in Seq(Nat)
    BY <1>8
  <2> HIDE DEF next
  <2>3. QED
    BY <1>3, <1>4, <1>9, <2>1, <2>2
       DEF IInv, TypeOK, Link!TypeOK, Link!Offer
<1>11. LoginBeforeCalls'
  BY <1>3, <1>5, <1>7, <1>8, EntryFacts DEF LoginBeforeCalls
<1>12. SentBound' /\ SentOncePerConnection'
  BY <1>8 DEF SentBound, SentOncePerConnection
<1>13. DoneInOrder' /\ BackoffBound'
  BY <1>3 DEF IInv, DoneInOrder, BackoffBound
<1>14. QED
  BY <1>6, <1>9, <1>10, <1>11, <1>12, <1>13 DEF IInv

\* handle_sent(): what a callback leaves behind, whatever it completed.
LEMMA HandleSentFacts ==
  ASSUME TypeOK, SentOncePerConnection, queued # <<>>,
         NEW d \in Nat, NEW l \in Nat,
         LoginsThenCalls(Tail(queued), d, l),
         \A i \in DOMAIN sent : sent[i] <= d,
         NEW conn \in BOOLEAN, HandleSent(conn)
  PROVE  /\ queued' = Tail(queued) /\ queued' \in Seq(Entry)
         /\ pending' \in BOOLEAN /\ sent' \in Seq(Nat)
         /\ client = "up" /\ client' = "up"
         /\ inflight' \in Entry \cup {NoEntry}
         /\ inflight' # NoEntry => conn
         /\ sent' = sent \/ conn
         /\ FrontIsPending' /\ SentOncePerConnection'
         /\ \A i \in DOMAIN sent' :
              \/ sent'[i] <= d
              \/ pending' /\ queued' # <<>> /\ Head(queued').id = sent'[i]
<1> DEFINE q    == Tail(queued)
           next == NextSend(FALSE, conn, FALSE, q)
<1>1. /\ queued' = q /\ inflight' = next /\ Start(next, FALSE)
      /\ client = "up" /\ client' = "up"
  BY DEF HandleSent, Link!Answered
<1>2. q \in Seq(Entry)
  BY DEF TypeOK
<1> HIDE DEF q
<1>3. next \in Entry \cup {NoEntry} /\ (next # NoEntry => conn)
  BY <1>2, NextSendType
<1>4. sent' = sent \/ conn
  BY <1>1, <1>3, EntryFacts DEF Start
<1>5. LoginsThenCalls(q, d, l)
  BY DEF q
<1>6. /\ pending' \in BOOLEAN /\ sent' \in Seq(Nat)
      /\ FrontIsPending' /\ SentOncePerConnection'
      /\ \A i \in DOMAIN sent' :
           \/ sent'[i] <= d
           \/ pending' /\ queued' # <<>> /\ Head(queued').id = sent'[i]
  BY <1>1, <1>2, <1>5, StartFacts
<1>7. QED
  BY <1>1, <1>2, <1>3, <1>4, <1>6 DEF q

LEMMA HandleLoginStep ==
  ASSUME IInv, HandleLogin
  PROVE  IInv'
<1>1. PICK l \in Nat : Shape(l)
  BY DEF IInv, QueueShape
<1>2. /\ queued \in Seq(Entry) /\ Len(queued) \in Nat
      /\ Len(done) \in Nat /\ faults \in Nat /\ calls \in Nat
      /\ sent \in Seq(Nat)
  BY DEF IInv, TypeOK
<1>3. /\ inflight = Login /\ connected' = TRUE /\ retry' = 0
      /\ HandleSent(TRUE)
      /\ UNCHANGED <<slots, timer, calls, done, faults>>
  BY DEF HandleLogin
<1>4. queued # <<>> /\ Head(queued) = Login
  BY <1>3, EntryFacts DEF IInv, FrontIsPending
<1>5. l > 0 /\ l - 1 \in Nat
  BY <1>1, <1>2, <1>4, HeadFacts DEF Shape
<1>6. /\ Len(Tail(queued)) = Len(queued) - 1
      /\ LoginsThenCalls(Tail(queued), Len(done), l - 1)
  BY <1>1, <1>2, <1>4, <1>5, PopFront DEF Shape
<1>7. \A i \in DOMAIN sent : sent[i] <= Len(done)
  <2>1. SUFFICES ASSUME NEW i \in DOMAIN sent PROVE sent[i] <= Len(done)
    OBVIOUS
  <2>2. sent[i] <= Len(done) \/ Head(queued).id = sent[i]
    BY DEF IInv, SentBound
  <2>3. sent[i] <= Len(done) \/ sent[i] = 0
    BY <1>4, <2>2, EntryFacts
  <2>4. QED
    BY <1>2, <2>3
<1>8. /\ queued' = Tail(queued) /\ queued' \in Seq(Entry)
      /\ pending' \in BOOLEAN /\ sent' \in Seq(Nat)
      /\ client = "up" /\ client' = "up"
      /\ inflight' \in Entry \cup {NoEntry}
      /\ FrontIsPending' /\ SentOncePerConnection'
      /\ \A i \in DOMAIN sent' :
           \/ sent'[i] <= Len(done)
           \/ pending' /\ queued' # <<>> /\ Head(queued').id = sent'[i]
  BY <1>2, <1>3, <1>4, <1>5, <1>6, <1>7, HandleSentFacts DEF IInv
<1>9. TypeOK'
  BY <1>3, <1>8 DEF IInv, TypeOK, Link!TypeOK, Link!Offer
<1>10. LoginBeforeCalls'
  BY <1>3, <1>8 DEF LoginBeforeCalls
<1>11. QueueShape'
  <2>1. calls' = Len(done') + Len(queued') - (l - 1)
    BY <1>1, <1>2, <1>3, <1>6, <1>8 DEF Shape
  <2>2. l - 1 <= faults'
    BY <1>1, <1>2, <1>3 DEF Shape
  <2>3. LoginsThenCalls(queued', Len(done'), l - 1)
    BY <1>3, <1>6, <1>8
  <2>4. Shape(l - 1)'
    BY <2>1, <2>2, <2>3 DEF Shape
  <2>5. QED
    BY <1>5, <2>4 DEF QueueShape
<1>12. SentBound' /\ DoneInOrder' /\ BackoffBound'
  BY <1>3, <1>8 DEF IInv, SentBound, DoneInOrder, BackoffBound
<1>13. QED
  BY <1>8, <1>9, <1>10, <1>11, <1>12 DEF IInv

\* The call in flight is the next one to complete: it is the first in the
\* queue, and no login is before it.
LEMMA CallInFlight ==
  ASSUME IInv, inflight \in Call
  PROVE  /\ Shape(0) /\ queued # <<>> /\ Head(queued) = inflight
         /\ inflight.id = Len(done) + 1 /\ Len(done) \in Nat
<1>1. PICK l \in Nat : Shape(l)
  BY DEF IInv, QueueShape
<1>2. inflight \in Call
  OBVIOUS
<1>3. queued # <<>> /\ Head(queued) = inflight
  BY <1>2, EntryFacts DEF IInv, FrontIsPending
<1>4. queued \in Seq(Entry) /\ Len(queued) \in Nat /\ Len(done) \in Nat
  BY DEF IInv, TypeOK
<1>5. l = 0 /\ inflight.id = Len(done) + 1
  BY <1>1, <1>2, <1>3, <1>4, HeadFacts DEF Shape
<1>6. QED
  BY <1>1, <1>3, <1>4, <1>5

\* A reply completes it.
LEMMA HandleReplyFacts ==
  ASSUME IInv, HandleReply
  PROVE  /\ Shape(0) /\ queued # <<>> /\ Head(queued).id = Len(done) + 1
         /\ done' = Append(done, Len(done) + 1)
         /\ Len(done) < calls
<1>1. inflight \in Call /\ done' = Append(done, inflight.id)
  BY DEF HandleReply
<1>2. /\ Shape(0) /\ queued # <<>> /\ Head(queued) = inflight
      /\ inflight.id = Len(done) + 1 /\ Len(done) \in Nat
  BY <1>1, CallInFlight
<1>3. queued \in Seq(Entry) /\ Len(queued) > 0
  BY <1>2 DEF IInv, TypeOK
<1>4. calls = Len(done) + Len(queued)
  BY <1>2, <1>3 DEF Shape
<1>5. QED
  BY <1>1, <1>2, <1>3, <1>4

LEMMA HandleReplyStep ==
  ASSUME IInv, HandleReply
  PROVE  IInv'
<1> DEFINE d == Len(done)
<1>1. /\ Shape(0) /\ queued # <<>> /\ Head(queued).id = d + 1
      /\ done' = Append(done, d + 1)
  BY HandleReplyFacts
<1>2. /\ queued \in Seq(Entry) /\ Len(queued) \in Nat
      /\ done \in Seq(Nat) /\ d \in Nat /\ faults \in Nat
      /\ calls \in Nat /\ sent \in Seq(Nat) /\ connected \in BOOLEAN
  BY DEF IInv, TypeOK
<1>3. /\ inflight \in Call /\ HandleSent(connected)
      /\ UNCHANGED <<connected, retry, slots, timer, calls, faults>>
  BY DEF HandleReply
<1>4. /\ Len(Tail(queued)) = Len(queued) - 1
      /\ LoginsThenCalls(Tail(queued), d + 1, 0)
  BY <1>1, <1>2, PopFront DEF Shape
<1>5. done' \in Seq(Nat) /\ Len(done') = d + 1 /\ DoneInOrder'
  <2>1. DoneInOrder
    BY DEF IInv
  <2>2. QED
    BY <1>1, <1>2, <2>1 DEF DoneInOrder
<1> HIDE DEF d
<1>6. \A i \in DOMAIN sent : sent[i] <= d + 1
  <2>1. SUFFICES ASSUME NEW i \in DOMAIN sent PROVE sent[i] <= d + 1
    OBVIOUS
  <2>2. sent[i] <= d \/ sent[i] = d + 1
    BY <1>1 DEF IInv, SentBound, d
  <2>3. sent[i] \in Nat
    BY <1>2
  <2>4. QED
    BY <1>2, <2>2, <2>3
<1>7. connected
  BY <1>3 DEF IInv, LoginBeforeCalls
<1>8. /\ queued' = Tail(queued) /\ queued' \in Seq(Entry)
      /\ pending' \in BOOLEAN /\ sent' \in Seq(Nat)
      /\ client = "up" /\ client' = "up"
      /\ inflight' \in Entry \cup {NoEntry}
      /\ FrontIsPending' /\ SentOncePerConnection'
      /\ \A i \in DOMAIN sent' :
           \/ sent'[i] <= d + 1
           \/ pending' /\ queued' # <<>> /\ Head(queued').id = sent'[i]
  <2>1. d + 1 \in Nat /\ 0 \in Nat
    BY <1>2
  <2>2. QED
    BY <1>1, <1>2, <1>3, <1>4, <1>6, <2>1, HandleSentFacts DEF IInv
<1>9. TypeOK'
  BY <1>3, <1>5, <1>8 DEF IInv, TypeOK, Link!TypeOK, Link!Offer
<1>10. LoginBeforeCalls'
  BY <1>3, <1>7, <1>8 DEF LoginBeforeCalls
<1>11. QueueShape'
  <2>1. calls = d + Len(queued)
    BY <1>1, <1>2 DEF Shape, d
  <2>2. calls' = Len(done') + Len(queued') - 0
    BY <1>2, <1>3, <1>4, <1>5, <1>8, <2>1
  <2>3. LoginsThenCalls(queued', Len(done'), 0)
    BY <1>4, <1>5, <1>8
  <2>4. 0 <= faults'
    BY <1>2, <1>3
  <2>5. Shape(0)'
    BY <2>2, <2>3, <2>4 DEF Shape
  <2>6. QED
    BY <2>5 DEF QueueShape
<1>12. SentBound'
  BY <1>5, <1>8 DEF SentBound
<1>13. BackoffBound'
  BY <1>3 DEF IInv, BackoffBound
<1>14. QED
  BY <1>5, <1>8, <1>9, <1>10, <1>11, <1>12, <1>13 DEF IInv

-----------------------------------------------------------------------------
(***************************************************************************)
(* The theorems.                                                           *)
(***************************************************************************)

\* The actions of Next by what they do to the queue.
LEMMA NextCases ==
  ASSUME TypeOK, Next
  PROVE  \/ \E k \in Kinds : Subscribe(k) \/ Send(k)
         \/ Reconnect \/ HandleConnected \/ HandleLogin \/ HandleReply
         \/ HandleError /\ (\/ faults' = faults + 1
                            \/ /\ faults' = faults
                               /\ client # "up" \/ inflight \in Call)
         \/ /\ \E left \in {inflight, NoEntry} : Link!Garbled(left)
            /\ faults' = faults + 1
            /\ UNCHANGED <<connected, pending, retry, queued, slots, timer,
                           calls, done, sent>>
<1>1. CASE \E k \in Kinds :
             Subscribe(k) \/ RequestQuery(k) \/ RequestCommand(k)
  BY <1>1 DEF RequestQuery, RequestCommand
<1>2. CASE \E e \in DOMAIN EventQuery : HandleEvent(e)
  BY <1>2 DEF HandleEvent, RequestQuery
<1>3. CASE HandleRefusal
  <2>1. inflight.kind \in Refused => inflight \in Call
    BY ConstantsAssumption
       DEF TypeOK, Link!TypeOK, Link!Offer, Entry, Login, NoEntry, Queries,
           Commands
  <2>2. QED
    BY <1>3, <2>1 DEF HandleRefusal, Misbehave
<1>4. CASE ConnectionLost
  BY <1>4 DEF ConnectionLost, Misbehave
<1>5. CASE DeafTimeout
  BY <1>5 DEF DeafTimeout
<1>6. CASE GarbledEvent
  BY <1>6 DEF GarbledEvent, Misbehave
<1>7. CASE GarbledReply
  BY <1>7 DEF GarbledReply, Misbehave
<1>8. QED
  BY <1>1, <1>2, <1>3, <1>4, <1>5, <1>6, <1>7 DEF Next

LEMMA NextIInv == IInv /\ [Next]_vars => IInv'
<1> SUFFICES ASSUME IInv, [Next]_vars PROVE IInv'
  OBVIOUS
<1>1. CASE UNCHANGED vars
  BY <1>1
     DEF vars, IInv, TypeOK, Link!TypeOK, FrontIsPending, LoginBeforeCalls,
         QueueShape, Shape, DoneInOrder, SentBound, SentOncePerConnection,
         BackoffBound
<1>2. CASE Next
  BY <1>2, NextCases, SubscribeStep, SendStep, ReconnectStep,
     HandleConnectedStep, HandleLoginStep, HandleReplyStep, ErrorStep,
     GarbledStep DEF IInv
<1>3. QED
  BY <1>1, <1>2

\* The inductive invariant holds in every reachable state of the service.
THEOREM Invariance == Spec => []IInv
BY InitIInv, NextIInv, PTL DEF Spec

\* Type correctness: the members of ServiceImpl keep their types.
THEOREM TypeCorrect == Spec => []TypeOK
<1>1. IInv => TypeOK
  BY DEF IInv
<1>2. QED
  BY <1>1, Invariance, PTL

\* The request a callback belongs to is the front of the queue when the
\* callback runs, so handle_sent() pops the right one and the reference the
\* callback holds is valid.
THEOREM FrontSafe == Spec => []FrontIsPending
<1>1. IInv => FrontIsPending
  BY DEF IInv
<1>2. QED
  BY <1>1, Invariance, PTL

\* No call is sent before the login of its connection succeeded.
THEOREM LoginFirst == Spec => []LoginBeforeCalls
<1>1. IInv => LoginBeforeCalls
  BY DEF IInv
<1>2. QED
  BY <1>1, Invariance, PTL

\* On one connection no call is sent twice, and calls are sent in order.
THEOREM SentOnce == Spec => []SentOncePerConnection
<1>1. IInv => SentOncePerConnection
  BY DEF IInv
<1>2. QED
  BY <1>1, Invariance, PTL

\* Every call made is either completed or in the queue.
THEOREM CallsKept == Spec => []NothingLost
<1>1. IInv => NothingLost
  <2> SUFFICES ASSUME IInv, NEW n \in 1..calls
               PROVE  (\E i \in DOMAIN done : done[i] = n)
                        # (\E j \in DOMAIN queued : queued[j].id = n)
    BY DEF NothingLost
  <2>1. PICK l \in Nat : Shape(l)
    BY DEF IInv, QueueShape
  <2>2. /\ Len(queued) \in Nat /\ Len(done) \in Nat /\ calls \in Nat
        /\ DOMAIN queued = 1..Len(queued) /\ DOMAIN done = 1..Len(done)
        /\ n \in Nat /\ n > 0 /\ n <= calls
    BY DEF IInv, TypeOK
  <2>3. (\E i \in DOMAIN done : done[i] = n) <=> n <= Len(done)
    BY <2>2 DEF IInv, DoneInOrder
  <2>4. ASSUME n > Len(done)
        PROVE  \E j \in DOMAIN queued : queued[j].id = n
    <3>1. n - Len(done) + l \in (l + 1)..Len(queued)
      BY <2>1, <2>2, <2>4 DEF Shape
    <3>2. queued[n - Len(done) + l].id = Len(done) + (n - Len(done) + l) - l
      BY <2>1, <3>1 DEF Shape, LoginsThenCalls
    <3>3. Len(done) + (n - Len(done) + l) - l = n
      BY <2>2
    <3>4. n - Len(done) + l \in DOMAIN queued
      BY <2>2, <3>1
    <3>5. QED
      BY <3>2, <3>3, <3>4
  <2>5. ASSUME NEW j \in DOMAIN queued, queued[j].id = n
        PROVE  n > Len(done)
    <3>1. j \in 1..l \/ j \in (l + 1)..Len(queued)
      BY <2>2
    <3>2. j \notin 1..l
      BY <2>1, <2>2, <2>5, EntryFacts DEF Shape, LoginsThenCalls
    <3>3. n = Len(done) + j - l
      BY <2>1, <2>5, <3>1, <3>2 DEF Shape, LoginsThenCalls
    <3>4. QED
      BY <2>2, <3>1, <3>2, <3>3
  <2>6. QED
    BY <2>2, <2>3, <2>4, <2>5
<1>2. QED
  BY <1>1, Invariance, PTL

\* Stale logins do not pile up faster than attempts fail.
THEOREM LoginsPaidFor == Spec => []LoginsBounded
<1>1. IInv => LoginsBounded
  <2> SUFFICES ASSUME IInv PROVE LoginsBounded
    OBVIOUS
  <2> DEFINE logins == {i \in DOMAIN queued : queued[i] = Login}
  <2>1. PICK l \in Nat : Shape(l)
    BY DEF IInv, QueueShape
  <2>2. Len(queued) \in Nat /\ DOMAIN queued = 1..Len(queued) /\ faults \in Nat
    BY DEF IInv, TypeOK
  <2>3. l \in 0..Len(queued) /\ l <= faults + 1
    BY <2>1, <2>2 DEF Shape, LoginsThenCalls
  <2>4. \A i \in 1..l : queued[i] = Login
    BY <2>1 DEF Shape, LoginsThenCalls
  <2>5. \A i \in (l + 1)..Len(queued) : queued[i] # Login
    BY <2>1, EntryFacts DEF Shape, LoginsThenCalls
  <2>6. logins = 1..l
    BY <2>2, <2>3, <2>4, <2>5
  <2>7. Cardinality(1..l) = l
    BY FS_Interval
  <2>8. QED
    BY <2>3, <2>6, <2>7 DEF LoginsBounded
<1>2. QED
  BY <1>1, Invariance, PTL

\* The delay before a reconnect grows until a login succeeds.
THEOREM BackoffMonotone == Spec => BackoffNeverShrinks
<1> DEFINE Grows == timer'.armed /\ ~timer.armed /\ ~connected
                      => timer'.delay >= timer.delay
<1>1. IInv /\ [Next]_vars => [Grows]_vars
  <2> SUFFICES ASSUME IInv, Next, timer'.armed, ~timer.armed, ~connected
               PROVE  timer'.delay >= timer.delay
    OBVIOUS
  <2>1. timer \in [armed : BOOLEAN, delay : Nat] /\ retry \in Nat
    BY DEF IInv, TypeOK
  <2>2. timer' # timer
    OBVIOUS
  <2>3. ~Reconnect
    BY <2>1 DEF Reconnect
  <2>4. HandleError
    BY <2>2, <2>3, NextCases
       DEF IInv, Subscribe, Send, HandleConnected, HandleLogin, HandleReply
  <2>5. timer'.delay = RetryTimeout(retry)
    BY <2>4 DEF HandleError
  <2>6. timer.delay <= RetryTimeout(retry)
    BY DEF IInv, BackoffBound
  <2>7. RetryTimeout(retry) \in Nat
    BY <2>1, RetryTimeoutMonotone
  <2>8. QED
    BY <2>1, <2>5, <2>6, <2>7
<1>2. QED
  BY <1>1, Invariance, PTL DEF Spec, BackoffNeverShrinks

\* The service implements the queue of calls: whatever the connection does,
\* each call completes at most once and in the order it was made.
THEOREM ImplementsQueue == Spec => InOrderSpec
<1>1. Init => InOrder!Init
  BY DEF Init, InOrder!Init
<1>2. IInv /\ [Next]_vars => [InOrder!Next]_(InOrder!vars)
  <2> SUFFICES ASSUME IInv, [Next]_vars
               PROVE  InOrder!Next \/ UNCHANGED <<calls, done>>
    BY DEF InOrder!vars
  <2>1. ASSUME NEW k \in Kinds, Send(k) PROVE InOrder!Next
    BY <2>1 DEF Send, InOrder!Next, InOrder!Issue
  <2>2. ASSUME HandleReply PROVE InOrder!Next
    <3>1. done' = Append(done, Len(done) + 1) /\ Len(done) < calls
      BY <2>2, HandleReplyFacts
    <3>2. UNCHANGED calls
      BY <2>2 DEF HandleReply
    <3>3. QED
      BY <3>1, <3>2 DEF InOrder!Next, InOrder!Complete
  <2>3. CASE UNCHANGED vars
    BY <2>3 DEF vars
  <2>4. CASE Next
    BY <2>1, <2>2, <2>4, NextCases
       DEF IInv, Subscribe, Reconnect, HandleConnected, HandleLogin,
           HandleError
  <2>5. QED
    BY <2>3, <2>4
<1>3. QED
  BY <1>1, <1>2, Invariance, PTL DEF Spec, InOrderSpec, InOrder!Spec
=============================================================================
