---------------------------- MODULE FrontendProofs ----------------------------
(***************************************************************************)
(* Proofs about Frontend, for every set of printers and all its bounds.    *)
(*                                                                         *)
(* The invariant IInv says what the order of the messages gives: the last  *)
(* message about a printer or a list that is still on its way is up to     *)
(* date, or something that comes after it asks again.                      *)
(***************************************************************************)
EXTENDS Frontend, SequenceTheorems, FiniteSetTheorems, TLAPS

\* No version is larger than the number of changes.
Versions == \A p \in DOMAIN server, k \in Lists : server[p][k] <= changes

\* The server answers one query at a time, and only over a connection.  Until
\* it was lost for the first time nobody added to the query of the constructor.
\* A refusal on the wire is counted as a loss already.
Replies ==
  /\ \A i, j \in 1..Len(wire) : wire[i].reply /\ wire[j].reply => i = j
  /\ \A i \in 1..Len(wire) : wire[i].reply => answered
  /\ fate = "running" /\ answered => queue # <<>>
  /\ ~online => wire = <<>> /\ ~answered
  /\ ~online /\ losses = 0 => queue = <<PrintersQuery>>
  /\ \A i \in 1..Len(wire) : wire[i].of = "refusal" => losses # 0

\* A list of printers on the wire that is wrong about one of them is followed
\* by one that is right.
LastList ==
  \A i \in 1..Len(wire), p \in Slugs :
    /\ wire[i].of = "printers"
    /\ (p \in wire[i].known) # (p \in DOMAIN server)
    => \E j \in 1..Len(wire) :
         /\ i < j
         /\ wire[j].of = "printers"
         /\ (p \in wire[j].known) = (p \in DOMAIN server)

\* An answer on the wire that is out of date is followed by an event, or by a
\* list of printers with its printer, which makes the frontend ask again.
LastVersion ==
  \A i \in 1..Len(wire), k \in Lists, p \in DOMAIN server :
    /\ wire[i].of = k /\ wire[i].reply /\ wire[i].slug = p
    /\ wire[i].version # server[p][k]
    => \E j \in 1..Len(wire) :
         /\ i < j
         /\ \/ wire[j] = ListEvent(k, p)
            \/ wire[j].of = "printers" /\ p \in wire[j].known

\* The application was told what is cached, and a thread that holds the lock
\* read what still is.
ToldIsCached ==
  /\ told = allPrinterData_
  /\ asking.of \in Lists =>
       asking.version = allPrinterData_[asking.slug][asking.of]

IInv ==
  /\ TypeOK
  /\ Versions
  /\ Replies
  /\ LastList
  /\ LastVersion
  /\ ToldIsCached
  /\ losses = 0 => Noticed

\* The cache is behind the server, and behind the answers that are on their
\* way.
NotAhead(m) ==
  m.of \in Lists /\ m.reply =>
    /\ m.version <= Has(m.of, m.slug)
    /\ m.slug \in printers_ => allPrinterData_[m.slug][m.of] <= m.version

Behind ==
  /\ \A p \in printers_, k \in Lists : allPrinterData_[p][k] <= Has(k, p)
  /\ \A i \in 1..Len(wire) : NotAhead(wire[i])

-----------------------------------------------------------------------------
(***************************************************************************)
(* Sequences                                                               *)
(***************************************************************************)

LEMMA AppendParts ==
  ASSUME NEW S, NEW s \in Seq(S), NEW e \in S
  PROVE  /\ Append(s, e) \in Seq(S)
         /\ Len(Append(s, e)) = Len(s) + 1
         /\ \A i \in 1..Len(s) : Append(s, e)[i] = s[i]
         /\ Append(s, e)[Len(s) + 1] = e
         /\ ToSet(Append(s, e)) = ToSet(s) \cup {e}
<1>1. /\ Append(s, e) \in Seq(S)
      /\ Len(Append(s, e)) = Len(s) + 1
      /\ \A i \in 1..Len(s) : Append(s, e)[i] = s[i]
      /\ Append(s, e)[Len(s) + 1] = e
  OBVIOUS
<1>2. Len(s) \in Nat /\ DOMAIN s = 1..Len(s)
      /\ DOMAIN Append(s, e) = 1..Len(s) + 1
  OBVIOUS
<1>3. ToSet(Append(s, e)) = ToSet(s) \cup {e}
  BY <1>1, <1>2 DEF ToSet
<1>4. QED
  BY <1>1, <1>3

LEMMA TailParts ==
  ASSUME NEW S, NEW s \in Seq(S), s # <<>>
  PROVE  /\ Tail(s) \in Seq(S)
         /\ Len(s) \in Nat /\ Len(s) >= 1
         /\ Len(Tail(s)) = Len(s) - 1
         /\ Head(s) \in S /\ Head(s) = s[1]
         /\ \A i \in 1..Len(Tail(s)) : Tail(s)[i] = s[i + 1]
         /\ ToSet(s) = {Head(s)} \cup ToSet(Tail(s))
<1>1. /\ Tail(s) \in Seq(S)
      /\ Len(s) \in Nat /\ Len(s) >= 1
      /\ Len(Tail(s)) = Len(s) - 1
      /\ Head(s) \in S /\ Head(s) = s[1]
      /\ \A i \in 1..Len(Tail(s)) : Tail(s)[i] = s[i + 1]
  OBVIOUS
<1>2. DOMAIN s = 1..Len(s) /\ DOMAIN Tail(s) = 1..Len(s) - 1
  BY <1>1
<1>3. ToSet(s) \subseteq {Head(s)} \cup ToSet(Tail(s))
  <2>1. SUFFICES ASSUME NEW i \in 1..Len(s)
                 PROVE  s[i] \in {Head(s)} \cup ToSet(Tail(s))
    BY <1>2 DEF ToSet
  <2>2. CASE i = 1
    BY <1>1, <2>2
  <2>3. CASE i # 1
    <3>1. i - 1 \in 1..Len(s) - 1 /\ i = (i - 1) + 1
      BY <1>1, <2>3
    <3>2. s[i] = Tail(s)[i - 1]
      BY <1>1, <3>1
    <3>3. QED
      BY <1>2, <3>1, <3>2 DEF ToSet
  <2>4. QED
    BY <2>2, <2>3
<1>4. ToSet(Tail(s)) \subseteq ToSet(s)
  <2>1. SUFFICES ASSUME NEW i \in 1..Len(s) - 1
                 PROVE  Tail(s)[i] \in ToSet(s)
    BY <1>2 DEF ToSet
  <2>2. i + 1 \in 1..Len(s) /\ Tail(s)[i] = s[i + 1]
    BY <1>1
  <2>3. QED
    BY <1>2, <2>2 DEF ToSet
<1>5. Head(s) \in ToSet(s)
  BY <1>1, <1>2 DEF ToSet
<1>6. QED
  BY <1>1, <1>3, <1>4, <1>5

LEMMA ConcatParts ==
  ASSUME NEW S, NEW s \in Seq(S), NEW t \in Seq(S)
  PROVE  /\ s \o t \in Seq(S)
         /\ Len(s \o t) = Len(s) + Len(t)
         /\ ToSet(s \o t) = ToSet(s) \cup ToSet(t)
<1>1. /\ s \o t \in Seq(S)
      /\ Len(s \o t) = Len(s) + Len(t)
      /\ \A i \in 1..Len(s) : (s \o t)[i] = s[i]
      /\ \A i \in 1..Len(t) : (s \o t)[Len(s) + i] = t[i]
      /\ \A i \in 1..Len(s) + Len(t) : i \notin 1..Len(s) =>
           (s \o t)[i] = t[i - Len(s)]
  OBVIOUS
<1>2. /\ Len(s) \in Nat /\ Len(t) \in Nat
      /\ DOMAIN s = 1..Len(s) /\ DOMAIN t = 1..Len(t)
      /\ DOMAIN (s \o t) = 1..Len(s) + Len(t)
  OBVIOUS
<1>3. ToSet(s \o t) \subseteq ToSet(s) \cup ToSet(t)
  <2>1. SUFFICES ASSUME NEW i \in 1..Len(s) + Len(t)
                 PROVE  (s \o t)[i] \in ToSet(s) \cup ToSet(t)
    BY <1>2 DEF ToSet
  <2>2. CASE i \in 1..Len(s)
    BY <1>1, <1>2, <2>2 DEF ToSet
  <2>3. CASE i \notin 1..Len(s)
    <3>1. i - Len(s) \in 1..Len(t)
      BY <1>2, <2>3
    <3>2. QED
      BY <1>1, <1>2, <2>3, <3>1 DEF ToSet
  <2>4. QED
    BY <2>2, <2>3
<1>4. ToSet(s) \subseteq ToSet(s \o t)
  <2>1. \A i \in 1..Len(s) : i \in 1..Len(s) + Len(t)
    BY <1>2
  <2>2. QED
    BY <1>1, <1>2, <2>1 DEF ToSet
<1>5. ToSet(t) \subseteq ToSet(s \o t)
  <2>1. SUFFICES ASSUME NEW i \in 1..Len(t)
                 PROVE  t[i] \in ToSet(s \o t)
    BY <1>2 DEF ToSet
  <2>2. Len(s) + i \in 1..Len(s) + Len(t)
    BY <1>2
  <2>3. t[i] = (s \o t)[Len(s) + i]
    BY <1>1
  <2>4. QED
    BY <1>2, <2>2, <2>3 DEF ToSet
<1>6. ToSet(s \o t) = ToSet(s) \cup ToSet(t)
  BY <1>3, <1>4, <1>5
<1>7. s \o t \in Seq(S) /\ Len(s \o t) = Len(s) + Len(t)
  OBVIOUS
<1>8. QED
  BY <1>6, <1>7

\* Queries appended to a queue: the front is popped after that.
LEMMA PopAfterConcat ==
  ASSUME NEW S, NEW s \in Seq(S), NEW t \in Seq(S), s # <<>>
  PROVE  /\ Tail(s \o t) \in Seq(S)
         /\ ToSet(Tail(s \o t)) = ToSet(Tail(s)) \cup ToSet(t)
<1>1. Tail(s \o t) = Tail(s) \o t
  OBVIOUS
<1>2. Tail(s) \in Seq(S)
  BY TailParts
<1>3. /\ Tail(s) \o t \in Seq(S)
      /\ ToSet(Tail(s) \o t) = ToSet(Tail(s)) \cup ToSet(t)
  BY <1>2, ConcatParts, Zenon
<1>4. QED
  BY <1>1, <1>3, Zenon

-----------------------------------------------------------------------------
(***************************************************************************)
(* The queries of handlePrinters()                                         *)
(***************************************************************************)

\* Every printer has one name, and no two printers have the same.
LEMMA NamesFinite == IsFiniteSet(Names)
<1> DEFINE f == [p \in Slugs |-> ToUtf8[p]]
<1>1. f \in Surjection(Slugs, Converted(Slugs))
  BY DEF Converted, Surjection
<1> HIDE DEF f
<1>2. IsFiniteSet(Converted(Slugs))
  BY <1>1, FS_Surjection, FrontendAssumption
<1>3. QED
  BY <1>2, FS_Union, FrontendAssumption DEF Names

LEMMA ConvertedParts ==
  ASSUME NEW known \in SUBSET Slugs
  PROVE  /\ Converted(known) \in SUBSET Names
         /\ Converted(known) \in SUBSET Converted(Slugs)
         /\ \A p \in Slugs : ToUtf8[p] \in Converted(known) <=> p \in known
<1>1. \A p, q \in Slugs : ToUtf8[p] = ToUtf8[q] => p = q
  BY FrontendAssumption DEF IsInjective
<1>2. QED
  BY <1>1 DEF Converted, Names

\* SetToSeq is some order of a finite set: it reaches every member.
LEMMA SetToSeqReaches ==
  ASSUME NEW known \in SUBSET Names
  PROVE  /\ Cardinality(known) \in Nat
         /\ SetToSeq(known) \in [1..Cardinality(known) -> known]
         /\ \A p \in known : \E i \in 1..Cardinality(known) :
              SetToSeq(known)[i] = p
<1> DEFINE n == Cardinality(known)
           D == 1..n
           f == SetToSeq(known)
<1>1. IsFiniteSet(known)
  BY NamesFinite, FS_Subset
<1>2. n \in Nat /\ ExistsBijection(D, known)
  BY <1>1, FS_CardinalityType
<1>3. \E g \in [D -> known] : IsInjective(g)
  BY <1>2 DEF ExistsBijection, Bijection, Injection
<1>4. f \in [D -> known] /\ IsInjective(f)
  BY <1>3 DEF SetToSeq
<1>5. f \in Injection(D, known)
  BY <1>4 DEF Injection
<1>6. Cardinality(D) = Cardinality(known)
  BY <1>2, FS_Interval
<1>7. f \in Surjection(D, known)
  <2> HIDE DEF D, f
  <2>1. QED
    BY <1>1, <1>5, <1>6, FS_Injection
<1>8. QED
  BY <1>2, <1>4, <1>7 DEF Surjection

LEMMA Halves ==
  ASSUME NEW n \in Nat
  PROVE  /\ \A i \in 1..2 * n : (i + 1) \div 2 \in 1..n
         /\ \A i \in 1..n :
              /\ 2 * i - 1 \in 1..2 * n
              /\ (2 * i - 1) % 2 = 1
              /\ (2 * i - 1 + 1) \div 2 = i
              /\ 2 * i \in 1..2 * n
              /\ (2 * i) % 2 # 1
              /\ (2 * i + 1) \div 2 = i
OBVIOUS

\* Every printer in the list has both its lists asked for.
LEMMA RefreshQueries ==
  ASSUME NEW known \in SUBSET Names
  PROVE  /\ Refresh(known) \in Seq(Query)
         /\ \A k \in Lists, p \in known :
              ListQuery(k, p) \in ToSet(Refresh(known))
<1> DEFINE n == Cardinality(known)
           f == SetToSeq(known)
           kind(i) == IF i % 2 = 1 THEN "groups" ELSE "models"
           r == [i \in 1..2 * n |-> ListQuery(kind(i), f[(i + 1) \div 2])]
<1>1. /\ n \in Nat
      /\ f \in [1..n -> known]
      /\ \A p \in known : \E i \in 1..n : f[i] = p
  BY SetToSeqReaches
<1>2. Refresh(known) = r
  BY DEF Refresh
<1> HIDE DEF n, f
<1>3. \A i \in 1..2 * n : ListQuery(kind(i), f[(i + 1) \div 2]) \in Query
  <2>1. SUFFICES ASSUME NEW i \in 1..2 * n
                 PROVE  ListQuery(kind(i), f[(i + 1) \div 2]) \in Query
    OBVIOUS
  <2>2. f[(i + 1) \div 2] \in Names
    BY <1>1, Halves
  <2>3. kind(i) \in Lists
    BY DEF Lists
  <2> HIDE DEF kind
  <2>4. QED
    BY <2>2, <2>3 DEF Query
<1>4. r \in Seq(Query)
  <2>1. 2 * n \in Nat
    BY <1>1
  <2>2. r \in [1..2 * n -> Query]
    BY <1>3
  <2> HIDE DEF r
  <2>3. QED
    BY <2>1, <2>2, SeqDef
<1>5. \A k \in Lists, p \in known : ListQuery(k, p) \in ToSet(r)
  <2>1. SUFFICES ASSUME NEW p \in known
                 PROVE  /\ ListQuery("groups", p) \in ToSet(r)
                        /\ ListQuery("models", p) \in ToSet(r)
    BY DEF Lists
  <2>2. PICK i \in 1..n : f[i] = p
    BY <1>1
  <2>3. /\ 2 * i - 1 \in DOMAIN r /\ 2 * i \in DOMAIN r
        /\ r[2 * i - 1] = ListQuery("groups", p)
        /\ r[2 * i] = ListQuery("models", p)
    BY <1>1, <2>2, Halves
  <2> HIDE DEF r
  <2>4. QED
    BY <2>3 DEF ToSet
<1>6. QED
  BY <1>2, <1>4, <1>5

\* It asks about the printers in the list only.
LEMMA RefreshAbout ==
  ASSUME NEW known \in SUBSET Names
  PROVE  \A q \in ToSet(Refresh(known)) : q.slug \in known
<1> DEFINE n == Cardinality(known)
           f == SetToSeq(known)
           kind(i) == IF i % 2 = 1 THEN "groups" ELSE "models"
           r == [i \in 1..2 * n |-> ListQuery(kind(i), f[(i + 1) \div 2])]
<1>1. n \in Nat /\ f \in [1..n -> known]
  BY SetToSeqReaches
<1>2. Refresh(known) = r
  BY DEF Refresh
<1> HIDE DEF n, f
<1>3. \A i \in 1..2 * n : r[i].slug \in known
  <2>1. \A i \in 1..2 * n : f[(i + 1) \div 2] \in known
    BY <1>1, Halves
  <2>2. QED
    BY <2>1 DEF ListQuery
<1>4. DOMAIN r = 1..2 * n
  OBVIOUS
<1> HIDE DEF r
<1>5. QED
  BY <1>2, <1>3, <1>4 DEF ToSet

-----------------------------------------------------------------------------
(***************************************************************************)
(* Messages and queries                                                    *)
(***************************************************************************)

\* What the messages to the frontend have in them.
LEMMA MessageType ==
  ASSUME NEW m \in Message
  PROVE  /\ m.of \in {"printers", "job", "refusal"} \cup Lists
         /\ m.reply \in BOOLEAN
         /\ m.of = "printers" => m.known \in SUBSET Slugs
         /\ m.of \in Lists => m.slug \in Names
         /\ m.of \in Lists /\ m.reply =>
              /\ m.version \in Version
              /\ m = ListAnswer(m.of, m.slug, m.version)
         /\ m.of \in Lists /\ ~m.reply =>
              m.slug \in Slugs /\ m = ListEvent(m.of, m.slug)
         /\ m.of = "job" => ~m.reply
         /\ m.of = "refusal" => m.reply
<1>1. CASE \E s \in SUBSET Slugs : m = PrintersAnswer(s)
  BY <1>1 DEF PrintersAnswer, Lists
<1>2. CASE \E s \in SUBSET Slugs : m = PrintersEvent(s)
  BY <1>2 DEF PrintersEvent, Lists
<1>3. CASE \E k \in Lists, p \in Names, v \in Version :
             m = ListAnswer(k, p, v)
  BY <1>3 DEF ListAnswer, Lists
<1>4. CASE \E k \in Lists, p \in Slugs : m = ListEvent(k, p)
  BY <1>4 DEF ListEvent, Lists, Names
<1>5. CASE m = JobFinished
  BY <1>5 DEF JobFinished, Lists
<1>6. CASE m = Refusal
  BY <1>6 DEF Refusal, Lists
<1>7. QED
  BY <1>1, <1>2, <1>3, <1>4, <1>5, <1>6 DEF Message

LEMMA PrintersMessages ==
  ASSUME NEW known \in SUBSET Slugs
  PROVE  /\ PrintersAnswer(known) \in Message
         /\ PrintersAnswer(known).of = "printers"
         /\ PrintersAnswer(known).reply = TRUE
         /\ PrintersAnswer(known).known = known
         /\ PrintersEvent(known) \in Message
         /\ PrintersEvent(known).of = "printers"
         /\ PrintersEvent(known).reply = FALSE
         /\ PrintersEvent(known).known = known
<1>1. PrintersAnswer(known) \in Message
  BY DEF Message
<1>2. PrintersEvent(known) \in Message
  BY DEF Message
<1>3. QED
  BY <1>1, <1>2 DEF PrintersAnswer, PrintersEvent

LEMMA ListMessages ==
  ASSUME NEW k \in Lists, NEW p \in Names
  PROVE  /\ p \in Slugs => ListEvent(k, p) \in Message
         /\ ListEvent(k, p).of = k
         /\ ListEvent(k, p).reply = FALSE
         /\ ListEvent(k, p).slug = p
         /\ \A v \in Version : ListAnswer(k, p, v) \in Message
         /\ \A v : /\ ListAnswer(k, p, v).of = k
                   /\ ListAnswer(k, p, v).reply = TRUE
                   /\ ListAnswer(k, p, v).slug = p
                   /\ ListAnswer(k, p, v).version = v
<1>1. p \in Slugs => ListEvent(k, p) \in Message
  BY DEF Message
<1>2. \A v \in Version : ListAnswer(k, p, v) \in Message
  BY DEF Message
<1>3. QED
  BY <1>1, <1>2 DEF ListAnswer, ListEvent

LEMMA JobMessage ==
  /\ JobFinished \in Message
  /\ JobFinished.of = "job"
  /\ JobFinished.reply = FALSE
BY DEF Message, JobFinished

LEMMA RefusalMessage ==
  /\ Refusal \in Message
  /\ Refusal.of = "refusal"
  /\ Refusal.reply = TRUE
BY DEF Message, Refusal

LEMMA KindsDiffer ==
  "printers" \notin Lists /\ "job" \notin Lists /\ "refusal" \notin Lists
BY DEF Lists

LEMMA QueryType ==
  ASSUME NEW q \in Query
  PROVE  \/ q = PrintersQuery
         \/ /\ q.of \in Lists /\ q.slug \in Names
            /\ q = ListQuery(q.of, q.slug)
            /\ q # PrintersQuery
<1>1. CASE q = PrintersQuery
  BY <1>1
<1>2. CASE \E k \in Lists, p \in Names : q = ListQuery(k, p)
  <2>1. PICK k \in Lists, p \in Names : q = ListQuery(k, p)
    BY <1>2
  <2>2. q.of = k /\ q.slug = p
    BY <2>1 DEF ListQuery
  <2>3. PrintersQuery.of = "printers"
    BY DEF PrintersQuery
  <2>4. QED
    BY <2>1, <2>2, <2>3, KindsDiffer
<1>3. QED
  BY <1>1, <1>2 DEF Query

\* An answer is a reply, and says what the server has.
LEMMA AnswerType ==
  ASSUME TypeOK, NEW q \in Query
  PROVE  /\ Answer(q) \in Message
         /\ Answer(q).reply = TRUE
         /\ q = PrintersQuery => /\ Answer(q).of = "printers"
                                 /\ Answer(q).known = DOMAIN server
         /\ q # PrintersQuery =>
              /\ q.of \in Lists /\ q.slug \in Names
              /\ Answer(q).of = q.of /\ Answer(q).slug = q.slug
              /\ Answer(q).version = Has(q.of, q.slug)
<1>1. CASE q = PrintersQuery
  BY <1>1, PrintersMessages DEF TypeOK, Answer
<1>2. CASE q # PrintersQuery
  <2> DEFINE v == Has(q.of, q.slug)
  <2>1. q.of \in Lists /\ q.slug \in Names
    BY <1>2, QueryType
  <2>2. v \in Version
    BY <2>1, FrontendAssumption DEF TypeOK, Has, Contents, Version
  <2>3. Answer(q) = ListAnswer(q.of, q.slug, v)
    BY <1>2 DEF Answer
  <2> HIDE DEF v
  <2>4. ListAnswer(q.of, q.slug, v) \in Message
    BY <2>1, <2>2, ListMessages
  <2>5. /\ Answer(q).reply = TRUE /\ Answer(q).of = q.of
        /\ Answer(q).slug = q.slug /\ Answer(q).version = v
    BY <2>3 DEF ListAnswer
  <2>6. QED
    BY <1>2, <2>1, <2>3, <2>4, <2>5 DEF v
<1>3. QED
  BY <1>1, <1>2

-----------------------------------------------------------------------------
(***************************************************************************)
(* What is cached, and what the server has                                 *)
(***************************************************************************)

LEMMA NoContentsType ==
  NoContents \in Contents /\ \A k \in Lists : NoContents[k] = 0
BY FrontendAssumption DEF NoContents, Contents, Version

LEMMA KnowingParts ==
  ASSUME NEW P, NEW old \in [P -> Contents], NEW known
  PROVE  /\ Knowing(old, known) \in [known -> Contents]
         /\ \A p \in known \cap P : Knowing(old, known)[p] = old[p]
         /\ \A p \in known \ P : Knowing(old, known)[p] = NoContents
BY NoContentsType DEF Knowing

LEMMA LearningParts ==
  ASSUME NEW P, NEW old \in [P -> Contents],
         NEW p \in P, NEW k \in Lists, NEW v \in Version
  PROVE  /\ Learning(old, p, k, v) \in [P -> Contents]
         /\ Learning(old, p, k, v)[p][k] = v
         /\ \A q \in P, l \in Lists : q # p \/ l # k =>
              Learning(old, p, k, v)[q][l] = old[q][l]
<1>1. old[p] \in [Lists -> Version]
  BY DEF Contents
<1>2. [old[p] EXCEPT ![k] = v] \in Contents
  BY <1>1 DEF Contents
<1>3. Learning(old, p, k, v) = [old EXCEPT ![p] = [old[p] EXCEPT ![k] = v]]
  BY DEF Learning
<1>4. /\ Learning(old, p, k, v) \in [P -> Contents]
      /\ Learning(old, p, k, v)[p] = [old[p] EXCEPT ![k] = v]
      /\ \A q \in P : q # p => Learning(old, p, k, v)[q] = old[q]
  BY <1>2, <1>3
<1>5. QED
  BY <1>1, <1>4

\* The server's lists after a change of one of them.
LEMMA ListChangesServer ==
  ASSUME TypeOK, Versions, NEW k \in Lists, NEW p \in Slugs,
         ListChanges(k, p)
  PROVE  /\ DOMAIN server' = DOMAIN server
         /\ server' \in [DOMAIN server -> Contents]
         /\ p \in DOMAIN server
         /\ server[p][k] <= changes /\ server'[p][k] = changes + 1
         /\ \A q \in DOMAIN server, l \in Lists : q # p \/ l # k =>
              server'[q][l] = server[q][l]
<1> DEFINE v == changes + 1
<1>1. /\ p \in DOMAIN server
      /\ server \in [DOMAIN server -> Contents]
      /\ server' = [server EXCEPT ![p][k] = v]
      /\ changes < MaxChanges /\ changes \in Nat
  BY DEF TypeOK, ListChanges, Change
<1>2. server[p][k] \in Version /\ server[p][k] <= changes
  BY <1>1 DEF Contents, Versions
<1>3. v \in Version
  BY <1>1, <1>2, FrontendAssumption DEF Version
<1> HIDE DEF v
<1>4. server' = Learning(server, p, k, v)
  BY <1>1 DEF Learning
<1>5. /\ server' \in [DOMAIN server -> Contents]
      /\ server'[p][k] = v
      /\ \A q \in DOMAIN server, l \in Lists : q # p \/ l # k =>
           server'[q][l] = server[q][l]
  <2> DEFINE P == DOMAIN server
  <2>1. p \in P /\ server \in [P -> Contents]
    BY <1>1
  <2> HIDE DEF P
  <2>2. /\ Learning(server, p, k, v) \in [P -> Contents]
        /\ Learning(server, p, k, v)[p][k] = v
        /\ \A q \in P, l \in Lists : q # p \/ l # k =>
             Learning(server, p, k, v)[q][l] = server[q][l]
    BY <1>3, <2>1, LearningParts
  <2>3. QED
    BY <1>4, <2>2 DEF P
<1>6. QED
  BY <1>1, <1>2, <1>5 DEF v

LEMMA PrinterAppearsServer ==
  ASSUME TypeOK, NEW p \in Slugs, PrinterAppears(p)
  PROVE  /\ DOMAIN server' = DOMAIN server \cup {p}
         /\ server' \in [DOMAIN server' -> Contents]
         /\ p \notin DOMAIN server
         /\ server'[p] = [k \in Lists |-> changes + 1]
         /\ \A q \in DOMAIN server : server'[q] = server[q]
<1>1. /\ p \notin DOMAIN server
      /\ server \in [DOMAIN server -> Contents]
      /\ server' = [q \in DOMAIN server \cup {p} |->
                      IF q = p THEN [k \in Lists |-> changes + 1]
                               ELSE server[q]]
      /\ changes \in Nat /\ changes < MaxChanges
  BY DEF TypeOK, PrinterAppears, Change
<1>2. /\ DOMAIN server' = DOMAIN server \cup {p}
      /\ server'[p] = [k \in Lists |-> changes + 1]
      /\ \A q \in DOMAIN server : server'[q] = server[q]
      /\ server' = [q \in DOMAIN server' |-> server'[q]]
  BY <1>1
<1>3. [k \in Lists |-> changes + 1] \in Contents
  BY <1>1, FrontendAssumption DEF Contents, Version
<1>4. \A q \in DOMAIN server' : server'[q] \in Contents
  BY <1>1, <1>2, <1>3
<1>5. QED
  BY <1>1, <1>2, <1>4

LEMMA PrinterDisappearsServer ==
  ASSUME TypeOK, NEW p \in Slugs, PrinterDisappears(p)
  PROVE  /\ DOMAIN server' = DOMAIN server \ {p}
         /\ server' \in [DOMAIN server' -> Contents]
         /\ \A q \in DOMAIN server \ {p} : server'[q] = server[q]
<1>1. /\ server \in [DOMAIN server -> Contents]
      /\ server' = Restrict(server, DOMAIN server \ {p})
  BY DEF TypeOK, PrinterDisappears, Change
<1>2. server' = [q \in DOMAIN server \ {p} |-> server[q]]
  BY <1>1 DEF Restrict
<1>3. QED
  BY <1>1, <1>2

-----------------------------------------------------------------------------
(***************************************************************************)
(* The invariant: the initial states                                       *)
(***************************************************************************)

\* A query for the printers finds out all there is.
LEMMA PrintersAsked == PrintersQuery \in Unanswered => Noticed
BY DEF Noticed, StaleIsNoticed, GoneIsNoticed

LEMMA InitInvariant == Init => IInv
<1> SUFFICES ASSUME Init
             PROVE  IInv
  OBVIOUS
<1>1. PICK known \in SUBSET Slugs : server \in [known -> {NoContents}]
  BY DEF Init
<1>2. /\ DOMAIN server = known
      /\ \A p \in DOMAIN server : server[p] = NoContents
      /\ server \in [DOMAIN server -> Contents]
  BY <1>1, NoContentsType
<1>3. PrintersQuery \in Query /\ <<PrintersQuery>> \in Seq(Query)
  BY DEF Query
<1>4. TypeOK
  <2>1. <<>> \in [{} -> Contents] /\ <<>> \in Seq(Message)
    OBVIOUS
  <2>2. /\ 0 \in 0..MaxRequests /\ 0 \in 0..MaxChanges
        /\ 0 \in 0..MaxLosses
    BY FrontendAssumption
  <2>3. /\ printers_ \subseteq Slugs
        /\ allPrinterData_ \in [printers_ -> Contents]
        /\ told \in [printers_ -> Contents]
        /\ asking \in {Nobody}
    BY <2>1 DEF Init
  <2>4. QED
    BY <1>1, <1>2, <1>3, <2>1, <2>2, <2>3 DEF Init, TypeOK
<1>5. Versions
  BY <1>2, NoContentsType DEF Init, Versions
<1>6. wire = <<>> /\ Len(wire) = 0 /\ 1..Len(wire) = {}
  BY DEF Init
<1>7. Replies /\ LastList /\ LastVersion
  BY <1>6 DEF Init, Replies, LastList, LastVersion
<1>8. ToldIsCached
  BY DEF Init, ToldIsCached, Nobody, Lists
<1>9. Noticed
  <2>1. PrintersQuery \in ToSet(queue)
    BY DEF Init, ToSet
  <2>2. QED
    BY <2>1, PrintersAsked DEF Init, Unanswered
<1>10. QED
  BY <1>4, <1>5, <1>7, <1>8, <1>9 DEF IInv

-----------------------------------------------------------------------------
(***************************************************************************)
(* The connection and the threads of the application                       *)
(***************************************************************************)

LEMMA SameWire ==
  ASSUME LastList, LastVersion, UNCHANGED <<wire, server>>
  PROVE  LastList' /\ LastVersion'
BY DEF LastList, LastVersion

\* What was noticed still is when there is more to come.
LEMMA MoreToCome ==
  ASSUME Noticed, UNCHANGED <<cache, server>>,
         Unanswered \subseteq Unanswered', Coming \subseteq Coming'
  PROVE  Noticed'
<1>1. StaleIsNoticed'
  BY DEF Noticed, StaleIsNoticed, cache
<1>2. GoneIsNoticed'
  BY DEF Noticed, GoneIsNoticed, cache
<1>3. QED
  BY <1>1, <1>2 DEF Noticed

LEMMA LoggedInKeeps == ASSUME IInv, LoggedIn PROVE IInv'
<1>1. TypeOK'
  BY DEF IInv, LoggedIn, TypeOK, cache, application
<1>2. Versions' /\ Replies' /\ ToldIsCached'
  BY DEF IInv, LoggedIn, Versions, Replies, ToldIsCached, cache, application
<1>3. LastList' /\ LastVersion'
  BY SameWire DEF IInv, LoggedIn
<1>4. losses' = 0 => Noticed'
  BY MoreToCome DEF IInv, LoggedIn, Unanswered, Coming
<1>5. QED
  BY <1>1, <1>2, <1>3, <1>4 DEF IInv

LEMMA ConnectionLostKeeps == ASSUME IInv, ConnectionLost PROVE IInv'
<1>1. TypeOK'
  <2>1. losses' \in 0..MaxLosses
    BY FrontendAssumption DEF IInv, ConnectionLost, TypeOK
  <2>2. <<>> \in Seq(Message)
    OBVIOUS
  <2>3. QED
    BY <2>1, <2>2 DEF IInv, ConnectionLost, TypeOK, cache, application
<1>2. Versions' /\ ToldIsCached'
  BY DEF IInv, ConnectionLost, Versions, ToldIsCached, cache, application
<1>3. wire' = <<>> /\ Len(wire') = 0 /\ 1..Len(wire') = {}
  BY DEF ConnectionLost
<1>4. losses' # 0
  BY DEF IInv, TypeOK, ConnectionLost
<1>5. Replies' /\ LastList' /\ LastVersion'
  BY <1>3, <1>4 DEF ConnectionLost, Replies, LastList, LastVersion
<1>6. QED
  BY <1>1, <1>2, <1>4, <1>5 DEF IInv

\* A thread that holds the lock has read what is cached, and cannot change it.
LEMMA AsksKeeps ==
  ASSUME IInv, NEW what, Asks(what),
         \/ what = [of |-> "printers", known |-> printers_]
         \/ \E k \in Lists, p \in printers_ :
              what = [of |-> k, slug |-> p,
                      version |-> allPrinterData_[p][k]]
  PROVE  IInv'
<1>1. /\ what \in [of : {"printers"}, known : {printers_}]
              \cup [of : Lists, slug : printers_, version : Version]
      /\ what.of \in Lists =>
           what.version = allPrinterData_[what.slug][what.of]
  <2>1. CASE what = [of |-> "printers", known |-> printers_]
    BY <2>1, KindsDiffer
  <2>2. CASE \E k \in Lists, p \in printers_ :
               what = [of |-> k, slug |-> p,
                       version |-> allPrinterData_[p][k]]
    BY <2>2 DEF IInv, TypeOK, Contents
  <2>3. QED
    BY <2>1, <2>2
<1>2. /\ UNCHANGED <<cache, told, queue, answered, online, wire, server,
                     changes, losses, fate>>
      /\ asking' = what /\ requests' = requests + 1 /\ requests < MaxRequests
  BY DEF Asks
<1>3. TypeOK'
  BY <1>1, <1>2, FrontendAssumption DEF IInv, TypeOK, cache
<1>4. Versions' /\ Replies' /\ ToldIsCached'
  BY <1>1, <1>2 DEF IInv, Versions, Replies, ToldIsCached, cache
<1>5. LastList' /\ LastVersion'
  BY <1>2, SameWire DEF IInv
<1>6. losses' = 0 => Noticed'
  BY <1>2, MoreToCome DEF IInv, Unanswered, Coming
<1>7. QED
  BY <1>3, <1>4, <1>5, <1>6 DEF IInv

\* So the slots are told what they were told before.
LEMMA ToldAgain ==
  ASSUME IInv, Told
  PROVE  told' = told
<1>1. /\ told = allPrinterData_
      /\ told \in [printers_ -> Contents]
      /\ asking \in [of : {"printers"}, known : {printers_}]
             \cup [of : Lists, slug : printers_, version : Version]
  BY DEF IInv, ToldIsCached, TypeOK, Told
<1>2. CASE asking \in [of : {"printers"}, known : {printers_}]
  <2>1. told' = Knowing(told, printers_)
    BY <1>2 DEF Told
  <2>2. QED
    BY <1>1, <2>1 DEF Knowing
<1>3. CASE asking \in [of : Lists, slug : printers_, version : Version]
  <2>1. /\ asking.of \in Lists /\ asking.of # "printers"
        /\ asking.slug \in printers_
        /\ asking.version = told[asking.slug][asking.of]
    BY <1>1, <1>3, KindsDiffer DEF IInv, ToldIsCached
  <2>2. told' = Learning(told, asking.slug, asking.of, asking.version)
    BY <2>1 DEF Told
  <2>3. told[asking.slug] \in [Lists -> Version]
    BY <1>1, <2>1 DEF Contents
  <2>4. [told[asking.slug] EXCEPT ![asking.of] = asking.version]
          = told[asking.slug]
    BY <2>1, <2>3
  <2>5. told' = [told EXCEPT ![asking.slug] = told[asking.slug]]
    BY <2>2, <2>4 DEF Learning
  <2>6. QED
    BY <1>1, <2>5
<1>4. QED
  BY <1>1, <1>2, <1>3

LEMMA ToldKeeps == ASSUME IInv, Told PROVE IInv'
<1>1. /\ UNCHANGED <<cache, told, requests, queue, answered, online, wire,
                     server, changes, losses, fate>>
      /\ asking' = Nobody
  BY ToldAgain DEF Told
<1>2. TypeOK'
  BY <1>1 DEF IInv, TypeOK, cache
<1>3. Versions' /\ Replies' /\ ToldIsCached'
  BY <1>1
    DEF IInv, Versions, Replies, ToldIsCached, Nobody, Lists, cache
<1>4. LastList' /\ LastVersion'
  BY <1>1, SameWire DEF IInv
<1>5. losses' = 0 => Noticed'
  BY <1>1, MoreToCome DEF IInv, Unanswered, Coming
<1>6. QED
  BY <1>2, <1>3, <1>4, <1>5 DEF IInv

-----------------------------------------------------------------------------
(***************************************************************************)
(* Changes at the server                                                   *)
(***************************************************************************)

\* Where the messages are when one more was sent.
Sent(old, new, e) ==
  /\ Len(old) \in Nat
  /\ Len(new) = Len(old) + 1
  /\ \A i \in 1..Len(old) : new[i] = old[i]
  /\ new[Len(old) + 1] = e
  /\ \A i \in 1..Len(new) : i \in 1..Len(old) \/ i = Len(old) + 1
  /\ \A i \in 1..Len(old) : i \in 1..Len(new) /\ i < Len(old) + 1
  /\ Len(old) + 1 \in 1..Len(new)
  /\ ToSet(new) = ToSet(old) \cup {e}

LEMMA SentParts ==
  ASSUME NEW e \in Message, wire \in Seq(Message), wire' = Append(wire, e)
  PROVE  Sent(wire, wire', e) /\ wire' \in Seq(Message)
<1>1. /\ Append(wire, e) \in Seq(Message)
      /\ Len(Append(wire, e)) = Len(wire) + 1
      /\ \A i \in 1..Len(wire) : Append(wire, e)[i] = wire[i]
      /\ Append(wire, e)[Len(wire) + 1] = e
      /\ ToSet(Append(wire, e)) = ToSet(wire) \cup {e}
  BY AppendParts
<1>2. Len(wire) \in Nat
  OBVIOUS
<1>3. QED
  BY <1>1, <1>2 DEF Sent

LEMMA EmptyWire ==
  ASSUME wire' = <<>>
  PROVE  LastList' /\ LastVersion'
<1>1. 1..Len(wire') = {}
  OBVIOUS
<1>2. QED
  BY <1>1 DEF LastList, LastVersion

\* The types and counts that every change keeps, and what was on its way.
LEMMA ChangeKeeps ==
  ASSUME IInv, NEW e \in Message, e.reply = FALSE, Change(server', e),
         DOMAIN server' \subseteq Slugs,
         server' \in [DOMAIN server' -> Contents]
  PROVE  /\ TypeOK' /\ Replies' /\ ToldIsCached'
         /\ changes' = changes + 1
         /\ online => Sent(wire, wire', e)
         /\ ~online => wire' = <<>>
         /\ Unanswered' = Unanswered
         /\ ~online /\ losses' = 0 => Noticed'
<1>1. /\ wire' = IF online THEN Append(wire, e) ELSE wire
      /\ changes' = changes + 1 /\ changes < MaxChanges
      /\ UNCHANGED <<cache, application, queue, answered, online, losses,
                     fate>>
  BY DEF Change
<1>2. wire \in Seq(Message) /\ queue \in Seq(Query)
  BY DEF IInv, TypeOK
<1>3. /\ online => Sent(wire, wire', e)
      /\ ~online => wire' = <<>>
      /\ wire' \in Seq(Message)
  BY <1>1, <1>2, SentParts DEF IInv, Replies
<1>4. changes' \in 0..MaxChanges
  BY <1>1, FrontendAssumption DEF IInv, TypeOK
<1>5. TypeOK'
  BY <1>1, <1>3, <1>4 DEF IInv, TypeOK, cache, application
<1>6. Replies'
  <2>1. CASE online
    <3>1. \A i, j \in 1..Len(wire') : wire'[i].reply /\ wire'[j].reply => i = j
      BY <1>3, <2>1 DEF IInv, Replies, Sent
    <3>2. \A i \in 1..Len(wire') : wire'[i].reply => answered
      BY <1>3, <2>1 DEF IInv, Replies, Sent
    <3>3. \A i \in 1..Len(wire') : wire'[i].of = "refusal" => losses' # 0
      BY <1>1, <1>3, <2>1, MessageType DEF IInv, Replies, Sent
    <3>4. QED
      BY <1>1, <2>1, <3>1, <3>2, <3>3 DEF IInv, Replies
  <2>2. CASE ~online
    BY <1>1, <2>2 DEF IInv, Replies
  <2>3. QED
    BY <2>1, <2>2
<1>7. ToldIsCached'
  BY <1>1 DEF IInv, ToldIsCached, cache, application
<1>8. Unanswered' = Unanswered
  BY <1>1 DEF Unanswered
<1>9. ASSUME ~online, losses' = 0 PROVE Noticed'
  <2>1. queue = <<PrintersQuery>> /\ ~answered
    BY <1>1, <1>9 DEF IInv, Replies
  <2>2. PrintersQuery \in ToSet(<<PrintersQuery>>)
    BY DEF ToSet
  <2>3. PrintersQuery \in Unanswered'
    BY <1>8, <2>1, <2>2 DEF Unanswered
  <2>4. QED
    BY <2>3 DEF Noticed, StaleIsNoticed, GoneIsNoticed
<1>10. QED
  BY <1>1, <1>3, <1>5, <1>6, <1>7, <1>8, <1>9

LEMMA ListChangesKeeps ==
  ASSUME IInv, NEW k \in Lists, NEW p \in Slugs, ListChanges(k, p)
  PROVE  IInv'
<1> DEFINE e == ListEvent(k, p)
<1>1. /\ DOMAIN server' = DOMAIN server
      /\ server' \in [DOMAIN server -> Contents]
      /\ p \in DOMAIN server
      /\ server[p][k] <= changes /\ server'[p][k] = changes + 1
      /\ \A q \in DOMAIN server, l \in Lists : q # p \/ l # k =>
           server'[q][l] = server[q][l]
  BY ListChangesServer DEF IInv
<1>2. /\ e \in Message /\ e.of = k /\ e.reply = FALSE /\ e.slug = p
  <2>1. e \in Message
    BY ListMessages DEF Names
  <2>2. QED
    BY <2>1 DEF ListEvent
<1>3. Change(server', e)
  BY DEF ListChanges, Change
<1> HIDE DEF e
<1>4. /\ TypeOK' /\ Replies' /\ ToldIsCached'
      /\ changes' = changes + 1
      /\ online => Sent(wire, wire', e)
      /\ ~online => wire' = <<>>
      /\ Unanswered' = Unanswered
      /\ ~online /\ losses' = 0 => Noticed'
  BY <1>1, <1>2, <1>3, ChangeKeeps DEF IInv, TypeOK
<1>5. Versions'
  <2>1. SUFFICES ASSUME NEW q \in DOMAIN server, NEW l \in Lists
                 PROVE  server'[q][l] <= changes + 1
    BY <1>1, <1>4 DEF Versions
  <2>2. server[q][l] \in Nat /\ changes \in Nat /\ server[q][l] <= changes
    BY DEF IInv, TypeOK, Versions, Contents, Version
  <2>3. server'[q][l] \in {server[q][l], changes + 1}
    BY <1>1
  <2>4. QED
    BY <2>2, <2>3
<1>6. CASE ~online
  BY <1>4, <1>5, <1>6, EmptyWire DEF IInv
<1>7. CASE online
  <2>1. Sent(wire, wire', e)
    BY <1>4, <1>7
  <2>2. LastList'
    BY <1>1, <1>2, <2>1, KindsDiffer DEF IInv, LastList, Sent
  <2>3. LastVersion'
    <3>1. SUFFICES ASSUME NEW i \in 1..Len(wire'), NEW l \in Lists,
                          NEW q \in DOMAIN server,
                          wire'[i].of = l, wire'[i].reply, wire'[i].slug = q,
                          wire'[i].version # server'[q][l]
                   PROVE  \E j \in 1..Len(wire') :
                            /\ i < j
                            /\ \/ wire'[j] = ListEvent(l, q)
                               \/ /\ wire'[j].of = "printers"
                                  /\ q \in wire'[j].known
      BY <1>1 DEF LastVersion
    <3>2. i \in 1..Len(wire) /\ wire'[i] = wire[i] /\ i < Len(wire) + 1
      BY <1>2, <2>1, <3>1 DEF Sent
    <3>3. CASE q = p /\ l = k
      BY <2>1, <3>2, <3>3 DEF Sent, e
    <3>4. CASE q # p \/ l # k
      <4>1. wire[i].version # server[q][l]
        BY <1>1, <3>1, <3>2, <3>4
      <4>2. PICK j \in 1..Len(wire) :
              /\ i < j
              /\ \/ wire[j] = ListEvent(l, q)
                 \/ wire[j].of = "printers" /\ q \in wire[j].known
        <5>1. LastVersion
          BY DEF IInv
        <5>2. wire[i].of = l /\ wire[i].reply /\ wire[i].slug = q
          BY <3>1, <3>2
        <5>3. QED
          BY <3>2, <4>1, <5>1, <5>2 DEF LastVersion
      <4>3. QED
        BY <2>1, <4>2 DEF Sent
    <3>5. QED
      BY <3>3, <3>4
  <2>4. ASSUME losses' = 0 PROVE Noticed'
    <3>1. Noticed /\ UNCHANGED cache
      BY <2>4 DEF IInv, ListChanges, Change
    <3>2. Coming' = Coming \cup {ListEvent(k, p)}
      BY <2>1 DEF Coming, Sent, e
    <3>3. StaleIsNoticed'
      BY <1>1, <1>4, <3>1, <3>2
        DEF Noticed, StaleIsNoticed, cache
    <3>4. GoneIsNoticed'
      BY <1>1, <1>4, <3>1, <3>2
        DEF Noticed, GoneIsNoticed, cache
    <3>5. QED
      BY <3>3, <3>4 DEF Noticed
  <2>5. QED
    BY <1>4, <1>5, <2>2, <2>3, <2>4 DEF IInv
<1>8. QED
  BY <1>6, <1>7

\* A list of printers that was just sent is right about all.
LEMMA NewListWire ==
  ASSUME NEW e, Sent(wire, wire', e),
         e.of = "printers", e.known = DOMAIN server'
  PROVE  LastList'
<1>1. SUFFICES ASSUME NEW i \in 1..Len(wire'), NEW p \in Slugs,
                      wire'[i].of = "printers",
                      (p \in wire'[i].known) # (p \in DOMAIN server')
               PROVE  \E j \in 1..Len(wire') :
                        /\ i < j
                        /\ wire'[j].of = "printers"
                        /\ (p \in wire'[j].known) = (p \in DOMAIN server')
  BY DEF LastList
<1>2. i # Len(wire) + 1
  BY <1>1 DEF Sent
<1>3. i < Len(wire) + 1
  BY <1>1, <1>2 DEF Sent
<1>4. QED
  BY <1>3 DEF Sent

LEMMA PrintersChangeKeeps ==
  ASSUME IInv, Versions',
         DOMAIN server' \subseteq Slugs,
         server' \in [DOMAIN server' -> Contents],
         Change(server', PrintersEvent(DOMAIN server'))
  PROVE  IInv'
<1> DEFINE e == PrintersEvent(DOMAIN server')
<1>1. e \in Message
  BY PrintersMessages
<1>2. e.of = "printers" /\ e.reply = FALSE /\ e.known = DOMAIN server'
  BY DEF PrintersEvent
<1>3. Change(server', e)
  OBVIOUS
<1> HIDE DEF e
<1>4. /\ TypeOK' /\ Replies' /\ ToldIsCached'
      /\ online => Sent(wire, wire', e)
      /\ ~online => wire' = <<>>
      /\ ~online /\ losses' = 0 => Noticed'
  BY <1>1, <1>2, <1>3, ChangeKeeps
<1>5. CASE ~online
  BY <1>4, <1>5, EmptyWire DEF IInv
<1>6. CASE online
  <2>1. Sent(wire, wire', e)
    BY <1>4, <1>6
  <2>2. LastList'
    BY <1>2, <2>1, NewListWire
  <2>3. LastVersion'
    <3>1. SUFFICES ASSUME NEW i \in 1..Len(wire'), NEW l \in Lists,
                          NEW q \in DOMAIN server',
                          wire'[i].of = l, wire'[i].reply, wire'[i].slug = q,
                          wire'[i].version # server'[q][l]
                   PROVE  \E j \in 1..Len(wire') :
                            /\ i < j
                            /\ \/ wire'[j] = ListEvent(l, q)
                               \/ /\ wire'[j].of = "printers"
                                  /\ q \in wire'[j].known
      BY DEF LastVersion
    <3>2. i \in 1..Len(wire) /\ wire'[i] = wire[i] /\ i < Len(wire) + 1
      BY <1>2, <2>1, <3>1 DEF Sent
    <3>3. QED
      BY <1>2, <2>1, <3>2 DEF Sent
  <2>4. Noticed'
    <3>1. e \in Coming'
      BY <2>1 DEF Coming, Sent
    <3>2. StaleIsNoticed' /\ GoneIsNoticed'
      BY <1>2, <3>1 DEF StaleIsNoticed, GoneIsNoticed
    <3>3. QED
      BY <3>2 DEF Noticed
  <2>5. QED
    BY <1>4, <2>2, <2>3, <2>4 DEF IInv
<1>7. QED
  BY <1>5, <1>6

LEMMA PrinterAppearsKeeps ==
  ASSUME IInv, NEW p \in Slugs, PrinterAppears(p)
  PROVE  IInv'
<1>1. /\ DOMAIN server' = DOMAIN server \cup {p}
      /\ server' \in [DOMAIN server' -> Contents]
      /\ server'[p] = [k \in Lists |-> changes + 1]
      /\ \A q \in DOMAIN server : server'[q] = server[q]
  BY PrinterAppearsServer DEF IInv
<1>2. DOMAIN server' \subseteq Slugs /\ changes \in Nat
      /\ changes' = changes + 1
  <2>1. DOMAIN server \subseteq Slugs /\ changes \in Nat
    BY DEF IInv, TypeOK
  <2>2. changes' = changes + 1
    BY DEF PrinterAppears, Change
  <2>3. QED
    BY <1>1, <2>1, <2>2
<1>3. Change(server', PrintersEvent(DOMAIN server'))
  BY <1>1 DEF PrinterAppears, Change
<1>4. Versions'
  <2>1. SUFFICES ASSUME NEW q \in DOMAIN server', NEW l \in Lists
                 PROVE  server'[q][l] <= changes + 1
    BY <1>2 DEF Versions
  <2>2. CASE q = p
    BY <1>1, <1>2, <2>2
  <2>3. CASE q # p
    <3>1. q \in DOMAIN server /\ server'[q][l] = server[q][l]
      BY <1>1, <2>3
    <3>2. server[q][l] \in Nat /\ server[q][l] <= changes
      BY <3>1 DEF IInv, TypeOK, Versions, Contents, Version
    <3>3. QED
      BY <1>2, <3>1, <3>2
  <2>4. QED
    BY <2>2, <2>3
<1>5. QED
  BY <1>1, <1>2, <1>3, <1>4, PrintersChangeKeeps

LEMMA PrinterDisappearsKeeps ==
  ASSUME IInv, NEW p \in Slugs, PrinterDisappears(p)
  PROVE  IInv'
<1>1. /\ DOMAIN server' = DOMAIN server \ {p}
      /\ server' \in [DOMAIN server' -> Contents]
      /\ \A q \in DOMAIN server \ {p} : server'[q] = server[q]
  BY PrinterDisappearsServer DEF IInv
<1>2. DOMAIN server' \subseteq Slugs /\ changes \in Nat
      /\ changes' = changes + 1
  <2>1. DOMAIN server \subseteq Slugs /\ changes \in Nat
    BY DEF IInv, TypeOK
  <2>2. changes' = changes + 1
    BY DEF PrinterDisappears, Change
  <2>3. QED
    BY <1>1, <2>1, <2>2
<1>3. Change(server', PrintersEvent(DOMAIN server'))
  BY <1>1 DEF PrinterDisappears, Change
<1>4. Versions'
  <2>1. SUFFICES ASSUME NEW q \in DOMAIN server', NEW l \in Lists
                 PROVE  server'[q][l] <= changes + 1
    BY <1>2 DEF Versions
  <2>2. q \in DOMAIN server /\ server'[q][l] = server[q][l]
    BY <1>1
  <2>3. server[q][l] \in Nat /\ server[q][l] <= changes
    BY <2>2 DEF IInv, TypeOK, Versions, Contents, Version
  <2>4. QED
    BY <1>2, <2>2, <2>3
<1>5. QED
  BY <1>1, <1>2, <1>3, <1>4, PrintersChangeKeeps

LEMMA JobFinishesKeeps == ASSUME IInv, JobFinishes PROVE IInv'
<1>1. Change(server', JobFinished) /\ server' = server
  BY DEF JobFinishes, Change
<1>2. /\ DOMAIN server' \subseteq Slugs
      /\ server' \in [DOMAIN server' -> Contents]
  BY <1>1 DEF IInv, TypeOK
<1>3. /\ TypeOK' /\ Replies' /\ ToldIsCached'
      /\ changes' = changes + 1
      /\ online => Sent(wire, wire', JobFinished)
      /\ ~online => wire' = <<>>
      /\ Unanswered' = Unanswered
      /\ ~online /\ losses' = 0 => Noticed'
  BY <1>1, <1>2, JobMessage, ChangeKeeps
<1>4. Versions'
  <2>1. SUFFICES ASSUME NEW q \in DOMAIN server, NEW l \in Lists
                 PROVE  server[q][l] <= changes + 1
    BY <1>1, <1>3 DEF Versions
  <2>2. /\ server[q][l] \in Nat /\ server[q][l] <= changes
        /\ changes \in Nat
    BY DEF IInv, TypeOK, Versions, Contents, Version
  <2>3. QED
    BY <2>2
<1>5. CASE ~online
  BY <1>3, <1>4, <1>5, EmptyWire DEF IInv
<1>6. CASE online
  <2>1. Sent(wire, wire', JobFinished)
    BY <1>3, <1>6
  <2>2. LastList'
    BY <1>1, <2>1, JobMessage DEF IInv, LastList, Sent
  <2>3. LastVersion'
    BY <1>1, <2>1, JobMessage DEF IInv, LastVersion, Sent
  <2>4. ASSUME losses' = 0 PROVE Noticed'
    <3>1. Noticed /\ UNCHANGED cache
      BY <2>4 DEF IInv, JobFinishes, Change
    <3>2. Coming \subseteq Coming'
      BY <2>1 DEF Coming, Sent
    <3>3. QED
      BY <1>1, <1>3, <3>1, <3>2, MoreToCome
  <2>5. QED
    BY <1>3, <1>4, <2>2, <2>3, <2>4 DEF IInv
<1>7. QED
  BY <1>5, <1>6

\* The answer to the query in front, after all that was sent before.
LEMMA ServerAnswersKeeps == ASSUME IInv, ServerAnswers PROVE IInv'
<1> DEFINE q == Head(queue)
           e == Answer(q)
<1>1. /\ UNCHANGED <<cache, application, queue, online, server, changes,
                     losses, fate>>
      /\ online /\ ~answered /\ queue # <<>>
      /\ answered' = TRUE
      /\ wire' = Append(wire, e)
  BY DEF ServerAnswers
<1>2. /\ queue \in Seq(Query) /\ wire \in Seq(Message) /\ q \in Query
      /\ ToSet(queue) = {q} \cup ToSet(Tail(queue))
  BY <1>1, TailParts DEF IInv, TypeOK
<1> HIDE DEF q
<1>3. /\ e \in Message
      /\ e.reply = TRUE
      /\ q = PrintersQuery => e.of = "printers" /\ e.known = DOMAIN server
      /\ q # PrintersQuery =>
           /\ q.of \in Lists /\ q.slug \in Names
           /\ e.of = q.of /\ e.slug = q.slug
           /\ e.version = Has(q.of, q.slug)
  BY <1>2, AnswerType DEF IInv
<1> HIDE DEF e
<1>4. Sent(wire, wire', e) /\ wire' \in Seq(Message)
  BY <1>1, <1>2, <1>3, SentParts
<1>5. TypeOK'
  BY <1>1, <1>4 DEF IInv, TypeOK, cache, application
<1>6. Versions' /\ ToldIsCached'
  BY <1>1 DEF IInv, Versions, ToldIsCached, cache, application
<1>7. Replies'
  <2>1. \A i \in 1..Len(wire) : ~wire[i].reply
    BY <1>1 DEF IInv, Replies
  <2>2. \A i, j \in 1..Len(wire') : wire'[i].reply /\ wire'[j].reply => i = j
    BY <1>4, <2>1 DEF Sent
  <2>3. \A i \in 1..Len(wire') : wire'[i].of = "refusal" => losses' # 0
    BY <1>1, <1>3, <1>4, KindsDiffer DEF IInv, Replies, Sent
  <2>4. QED
    BY <1>1, <2>2, <2>3 DEF Replies
<1>8. LastList'
  <2>1. CASE q = PrintersQuery
    BY <1>1, <1>3, <1>4, <2>1, NewListWire
  <2>2. CASE q # PrintersQuery
    BY <1>1, <1>3, <1>4, <2>2, KindsDiffer DEF IInv, LastList, Sent
  <2>3. QED
    BY <2>1, <2>2
<1>9. LastVersion'
  <2>1. SUFFICES ASSUME NEW i \in 1..Len(wire'), NEW l \in Lists,
                        NEW p \in DOMAIN server,
                        wire'[i].of = l, wire'[i].reply, wire'[i].slug = p,
                        wire'[i].version # server[p][l]
                 PROVE  \E j \in 1..Len(wire') :
                          /\ i < j
                          /\ \/ wire'[j] = ListEvent(l, p)
                             \/ /\ wire'[j].of = "printers"
                                /\ p \in wire'[j].known
    BY <1>1 DEF LastVersion
  <2>2. i # Len(wire) + 1
    BY <1>3, <1>4, <2>1, KindsDiffer DEF Sent, Has
  <2>3. i \in 1..Len(wire) /\ wire'[i] = wire[i]
    BY <1>4, <2>2 DEF Sent
  <2>4. FALSE
    BY <1>1, <2>1, <2>3 DEF IInv, Replies
  <2>5. QED
    BY <2>4
<1>10. ASSUME losses' = 0 PROVE Noticed'
  <2>1. Noticed /\ printers_' = printers_
        /\ allPrinterData_' = allPrinterData_ /\ server' = server
    BY <1>1, <1>10 DEF IInv, cache
  <2>2. Coming' = Coming \cup {e}
    BY <1>4 DEF Coming, Sent
  <2>3. Unanswered = Unanswered' \cup {q}
    BY <1>1, <1>2 DEF Unanswered
  <2>4. CASE q = PrintersQuery
    <3>1. StaleIsNoticed' /\ GoneIsNoticed'
      BY <1>3, <2>1, <2>2, <2>4 DEF StaleIsNoticed, GoneIsNoticed
    <3>2. QED
      BY <3>1 DEF Noticed
  <2>5. CASE q # PrintersQuery
    <3>1. \A k \in Lists, p \in DOMAIN server :
            q = ListQuery(k, p) => e = ListAnswer(k, p, server[p][k])
      <4>1. SUFFICES ASSUME NEW k \in Lists, NEW p \in DOMAIN server,
                            q = ListQuery(k, p)
                     PROVE  e = ListAnswer(k, p, server[p][k])
        OBVIOUS
      <4>2. q.of = k /\ q.slug = p
        BY <4>1 DEF ListQuery
      <4>3. e.of = k /\ e.slug = p /\ e.version = server[p][k]
        BY <1>3, <2>5, <4>2 DEF Has
      <4>4. e = ListAnswer(e.of, e.slug, e.version)
        BY <1>3, <4>3, MessageType
      <4>5. QED
        BY <4>3, <4>4
    <3>2. StaleIsNoticed'
      BY <2>1, <2>2, <2>3, <2>5, <3>1
        DEF Noticed, StaleIsNoticed
    <3>3. GoneIsNoticed'
      BY <2>1, <2>2, <2>3, <2>5 DEF Noticed, GoneIsNoticed
    <3>4. QED
      BY <3>2, <3>3 DEF Noticed
  <2>6. QED
    BY <2>4, <2>5
<1>11. QED
  BY <1>5, <1>6, <1>7, <1>8, <1>9, <1>10 DEF IInv

\* A refusal is a loss to come.
LEMMA ServerRefusesKeeps == ASSUME IInv, ServerRefuses PROVE IInv'
<1>1. /\ UNCHANGED <<cache, application, queue, online, server, changes, fate>>
      /\ online /\ ~answered /\ queue # <<>>
      /\ answered' = TRUE
      /\ losses < MaxLosses /\ losses' = losses + 1
      /\ wire' = Append(wire, Refusal)
  BY DEF ServerRefuses
<1>2. wire \in Seq(Message) /\ losses' \in 0..MaxLosses /\ losses' # 0
  BY <1>1, FrontendAssumption DEF IInv, TypeOK
<1>3. Sent(wire, wire', Refusal) /\ wire' \in Seq(Message)
  BY <1>1, <1>2, RefusalMessage, SentParts
<1>4. TypeOK'
  BY <1>1, <1>2, <1>3 DEF IInv, TypeOK, cache, application
<1>5. Versions' /\ ToldIsCached'
  BY <1>1 DEF IInv, Versions, ToldIsCached, cache, application
<1>6. Replies'
  <2>1. \A i \in 1..Len(wire) : ~wire[i].reply
    BY <1>1 DEF IInv, Replies
  <2>2. \A i, j \in 1..Len(wire') : wire'[i].reply /\ wire'[j].reply => i = j
    BY <1>3, <2>1 DEF Sent
  <2>3. QED
    BY <1>1, <1>2, <2>2 DEF Replies
<1>7. LastList'
  BY <1>1, <1>3, RefusalMessage DEF IInv, LastList, Sent
<1>8. LastVersion'
  BY <1>1, <1>3, RefusalMessage, KindsDiffer DEF IInv, LastVersion, Sent
<1>9. QED
  BY <1>2, <1>4, <1>5, <1>6, <1>7, <1>8 DEF IInv

-----------------------------------------------------------------------------
(***************************************************************************)
(* The handlers                                                            *)
(***************************************************************************)

\* Where the messages are when the first was taken.
Taken(old, new) ==
  /\ Len(old) \in Nat /\ Len(old) >= 1 /\ 1 \in 1..Len(old)
  /\ Len(new) = Len(old) - 1
  /\ \A i \in 1..Len(new) :
       /\ new[i] = old[i + 1]
       /\ i \in 1..Len(old) /\ i + 1 \in 1..Len(old) /\ i + 1 > 1
  /\ \A j \in 1..Len(old) : j > 1 =>
       /\ j - 1 \in 1..Len(new) /\ new[j - 1] = old[j]
       /\ \A i \in 1..Len(new) : i + 1 < j => i < j - 1
  /\ ToSet(old) = {old[1]} \cup ToSet(new)

LEMMA TakenParts ==
  ASSUME wire \in Seq(Message), wire # <<>>, wire' = Tail(wire)
  PROVE  /\ Taken(wire, wire') /\ wire' \in Seq(Message)
         /\ Head(wire) = wire[1] /\ Head(wire) \in Message
<1>1. /\ wire' \in Seq(Message)
      /\ Len(wire) \in Nat /\ Len(wire) >= 1
      /\ Len(wire') = Len(wire) - 1
      /\ Head(wire) \in Message /\ Head(wire) = wire[1]
      /\ \A i \in 1..Len(wire') : wire'[i] = wire[i + 1]
      /\ ToSet(wire) = {Head(wire)} \cup ToSet(wire')
  <2> DEFINE t == Tail(wire)
  <2>1. /\ t \in Seq(Message)
        /\ Len(wire) \in Nat /\ Len(wire) >= 1
        /\ Len(t) = Len(wire) - 1
        /\ Head(wire) \in Message /\ Head(wire) = wire[1]
        /\ \A i \in 1..Len(t) : t[i] = wire[i + 1]
        /\ ToSet(wire) = {Head(wire)} \cup ToSet(t)
    BY TailParts
  <2>2. wire' = t
    OBVIOUS
  <2> HIDE DEF t
  <2>3. QED
    BY <2>1, <2>2
<1> DEFINE m == Len(wire)
           n == Len(wire')
<1>2. m \in Nat /\ m >= 1 /\ n = m - 1
  BY <1>1
<1> HIDE DEF m, n
<1>3. /\ 1 \in 1..m
      /\ \A i \in 1..n : i \in 1..m /\ i + 1 \in 1..m /\ i + 1 > 1
      /\ \A j \in 1..m : j > 1 =>
           /\ j - 1 \in 1..n
           /\ j = (j - 1) + 1
           /\ \A i \in 1..n : i + 1 < j => i < j - 1
  BY <1>2
<1>4. \A j \in 1..m : j > 1 => wire'[j - 1] = wire[j]
  BY <1>1, <1>3 DEF n
<1>5. QED
  BY <1>1, <1>3, <1>4 DEF Taken, m, n

\* What follows a message still follows it.
LEMMA TakenWire ==
  ASSUME Taken(wire, wire'), LastList, LastVersion, server' = server
  PROVE  LastList' /\ LastVersion'
<1>1. LastList'
  <2>1. SUFFICES ASSUME NEW i \in 1..Len(wire'), NEW p \in Slugs,
                        wire'[i].of = "printers",
                        (p \in wire'[i].known) # (p \in DOMAIN server)
                 PROVE  \E j \in 1..Len(wire') :
                          /\ i < j
                          /\ wire'[j].of = "printers"
                          /\ (p \in wire'[j].known) = (p \in DOMAIN server)
    BY DEF LastList
  <2>2. i + 1 \in 1..Len(wire) /\ wire'[i] = wire[i + 1] /\ i + 1 > 1
    BY DEF Taken
  <2>3. PICK j \in 1..Len(wire) :
          /\ i + 1 < j
          /\ wire[j].of = "printers"
          /\ (p \in wire[j].known) = (p \in DOMAIN server)
    BY <2>1, <2>2 DEF LastList
  <2>4. /\ j - 1 \in 1..Len(wire') /\ wire'[j - 1] = wire[j]
        /\ i < j - 1
    <3>1. j > 1
      BY <2>3
    <3>2. QED
      BY <2>3, <3>1 DEF Taken
  <2>5. QED
    BY <2>3, <2>4
<1>2. LastVersion'
  <2>1. SUFFICES ASSUME NEW i \in 1..Len(wire'), NEW l \in Lists,
                        NEW p \in DOMAIN server,
                        wire'[i].of = l, wire'[i].reply, wire'[i].slug = p,
                        wire'[i].version # server[p][l]
                 PROVE  \E j \in 1..Len(wire') :
                          /\ i < j
                          /\ \/ wire'[j] = ListEvent(l, p)
                             \/ /\ wire'[j].of = "printers"
                                /\ p \in wire'[j].known
    BY DEF LastVersion
  <2>2. i + 1 \in 1..Len(wire) /\ wire'[i] = wire[i + 1] /\ i + 1 > 1
    BY DEF Taken
  <2>3. PICK j \in 1..Len(wire) :
          /\ i + 1 < j
          /\ \/ wire[j] = ListEvent(l, p)
             \/ wire[j].of = "printers" /\ p \in wire[j].known
    BY <2>1, <2>2 DEF LastVersion
  <2>4. /\ j - 1 \in 1..Len(wire') /\ wire'[j - 1] = wire[j]
        /\ i < j - 1
    <3>1. j > 1
      BY <2>3
    <3>2. QED
      BY <2>3, <3>1 DEF Taken
  <2>5. QED
    BY <2>3, <2>4
<1>3. QED
  BY <1>1, <1>2

\* A list of printers that is wrong, or an answer that is out of date, is not
\* the last word.
LEMMA Followed ==
  ASSUME IInv, wire # <<>>, wire' = Tail(wire)
  PROVE  /\ Head(wire).of = "printers" =>
              \A p \in Slugs :
                (p \in Head(wire).known) # (p \in DOMAIN server) =>
                  \E m \in Coming' :
                    /\ m.of = "printers"
                    /\ (p \in m.known) = (p \in DOMAIN server)
         /\ \A k \in Lists, p \in DOMAIN server :
              /\ Head(wire).of = k /\ Head(wire).reply
              /\ Head(wire).slug = p /\ Head(wire).version # server[p][k]
              => \/ ListEvent(k, p) \in Coming'
                 \/ \E m \in Coming' : m.of = "printers" /\ p \in m.known
<1>1. /\ Taken(wire, wire') /\ Head(wire) = wire[1]
      /\ wire' \in Seq(Message)
  BY TakenParts DEF IInv, TypeOK
<1>2. \A j \in 1..Len(wire) : 1 < j => wire[j] \in Coming'
  <2>1. SUFFICES ASSUME NEW j \in 1..Len(wire), 1 < j
                 PROVE  wire[j] \in Coming'
    OBVIOUS
  <2>2. j > 1
    BY <2>1
  <2>3. j - 1 \in 1..Len(wire') /\ wire'[j - 1] = wire[j]
    BY <1>1, <2>2 DEF Taken
  <2>4. 1..Len(wire') = DOMAIN wire'
    BY <1>1
  <2>5. QED
    BY <2>3, <2>4 DEF Coming, ToSet
<1>3. 1 \in 1..Len(wire)
  BY <1>1 DEF Taken
<1>4. ASSUME Head(wire).of = "printers", NEW p \in Slugs,
             (p \in Head(wire).known) # (p \in DOMAIN server)
      PROVE  \E m \in Coming' : /\ m.of = "printers"
                                /\ (p \in m.known) = (p \in DOMAIN server)
  <2>1. PICK j \in 1..Len(wire) :
          /\ 1 < j
          /\ wire[j].of = "printers"
          /\ (p \in wire[j].known) = (p \in DOMAIN server)
    BY <1>1, <1>3, <1>4 DEF IInv, LastList
  <2>2. QED
    BY <1>2, <2>1
<1>5. ASSUME NEW k \in Lists, NEW p \in DOMAIN server,
             Head(wire).of = k, Head(wire).reply, Head(wire).slug = p,
             Head(wire).version # server[p][k]
      PROVE  \/ ListEvent(k, p) \in Coming'
             \/ \E m \in Coming' : m.of = "printers" /\ p \in m.known
  <2>1. PICK j \in 1..Len(wire) :
          /\ 1 < j
          /\ \/ wire[j] = ListEvent(k, p)
             \/ wire[j].of = "printers" /\ p \in wire[j].known
    BY <1>1, <1>3, <1>5 DEF IInv, LastVersion
  <2>2. wire[j] \in Coming'
    BY <1>2, <2>1
  <2>3. QED
    BY <2>1, <2>2
<1>6. QED
  BY <1>4, <1>5

\* What a handler does to the queue and the wire, whatever it asks for.
LEMMA RequeueKeeps ==
  ASSUME IInv, fate = "running", wire # <<>>,
         NEW new \in Seq(Query), NEW reply \in BOOLEAN,
         Head(wire).reply = reply, Requeue(new, reply),
         UNCHANGED <<online, server, changes, losses, fate>>
  PROVE  /\ queue' \in Seq(Query) /\ answered' \in BOOLEAN
         /\ wire' \in Seq(Message)
         /\ Versions' /\ Replies' /\ LastList' /\ LastVersion'
         /\ Unanswered' = Unanswered \cup ToSet(new)
         /\ Head(wire) \in Message
         /\ Coming = {Head(wire)} \cup Coming'
<1>1. /\ Taken(wire, wire') /\ wire' \in Seq(Message)
      /\ Head(wire) = wire[1] /\ Head(wire) \in Message
  BY TakenParts DEF Requeue, IInv, TypeOK
<1>2. LastList' /\ LastVersion'
  BY <1>1, TakenWire DEF IInv
<1>3. Versions'
  BY DEF IInv, Versions
<1>4. Coming = {Head(wire)} \cup Coming'
  BY <1>1 DEF Coming, Taken
<1>5. queue \in Seq(Query) /\ answered \in BOOLEAN /\ online
  BY DEF IInv, TypeOK, Replies
<1>6. 1 \in 1..Len(wire)
  BY <1>1 DEF Taken
<1>7. \A i \in 1..Len(wire') : wire'[i].of = "refusal" => losses' # 0
  BY <1>1 DEF IInv, Replies, Taken
<1>8. CASE reply
  <2>1. answered /\ queue # <<>>
    BY <1>1, <1>6, <1>8 DEF IInv, Replies
  <2>2. queue' = Tail(queue \o new) /\ answered' = FALSE
    BY <1>8 DEF Requeue
  <2>3. /\ queue' \in Seq(Query)
        /\ ToSet(queue') = ToSet(Tail(queue)) \cup ToSet(new)
    BY <1>5, <2>1, <2>2, PopAfterConcat
  <2>4. \A i \in 1..Len(wire') : ~wire'[i].reply
    <3>1. SUFFICES ASSUME NEW i \in 1..Len(wire'), wire'[i].reply
                   PROVE  FALSE
      OBVIOUS
    <3>2. i + 1 \in 1..Len(wire) /\ wire[i + 1].reply /\ i + 1 > 1
      BY <1>1, <3>1 DEF Taken
    <3>3. i + 1 = 1
      BY <1>1, <1>6, <1>8, <3>2 DEF IInv, Replies
    <3>4. QED
      BY <3>2, <3>3
  <2>5. Replies'
    BY <1>5, <1>7, <2>2, <2>4 DEF Replies
  <2>6. Unanswered' = Unanswered \cup ToSet(new)
    BY <2>1, <2>2, <2>3 DEF Unanswered
  <2>7. QED
    BY <1>1, <1>2, <1>3, <1>4, <2>2, <2>3, <2>5, <2>6
<1>9. CASE ~reply
  <2>1. queue' = queue \o new /\ answered' = answered
    BY <1>5, <1>9 DEF Requeue
  <2>2. /\ queue' \in Seq(Query)
        /\ ToSet(queue') = ToSet(queue) \cup ToSet(new)
    BY <1>5, <2>1, ConcatParts
  <2>3. queue # <<>> => queue' # <<>> /\ Tail(queue') = Tail(queue) \o new
    BY <1>5, <2>1
  <2>4. answered => ToSet(Tail(queue')) = ToSet(Tail(queue)) \cup ToSet(new)
    <3>1. SUFFICES ASSUME queue # <<>>
                   PROVE  ToSet(Tail(queue) \o new)
                            = ToSet(Tail(queue)) \cup ToSet(new)
      BY <2>3 DEF IInv, Replies
    <3>2. Tail(queue) \in Seq(Query)
      BY <1>5, <3>1
    <3>3. QED
      BY <3>2, ConcatParts, Zenon
  <2>5. Replies'
    <3>1. \A i \in 1..Len(wire') : wire'[i].reply => answered'
      BY <1>1, <2>1 DEF IInv, Replies, Taken
    <3>2. \A i, j \in 1..Len(wire') :
            wire'[i].reply /\ wire'[j].reply => i = j
      <4>1. SUFFICES ASSUME NEW i \in 1..Len(wire'), NEW j \in 1..Len(wire'),
                            wire'[i].reply, wire'[j].reply
                     PROVE  i = j
        OBVIOUS
      <4>2. /\ i + 1 \in 1..Len(wire) /\ wire[i + 1].reply
            /\ j + 1 \in 1..Len(wire) /\ wire[j + 1].reply
        BY <1>1, <4>1 DEF Taken
      <4>3. i + 1 = j + 1
        BY <4>2 DEF IInv, Replies
      <4>4. QED
        BY <4>3
    <3>3. answered' => queue' # <<>>
      BY <2>1, <2>3 DEF IInv, Replies
    <3>4. QED
      BY <1>5, <1>7, <3>1, <3>2, <3>3 DEF Replies
  <2>6. Unanswered' = Unanswered \cup ToSet(new)
    BY <2>1, <2>2, <2>4 DEF Unanswered
  <2>7. QED
    BY <1>1, <1>2, <1>3, <1>4, <1>5, <2>1, <2>2, <2>5, <2>6
<1>10. QED
  BY <1>8, <1>9

\* A list of printers: both lists of each are asked for, and what it is wrong
\* about is put right by one that comes later.
LEMMA HandlePrintersKeeps ==
  ASSUME IInv, NEW reply \in BOOLEAN, HandlePrinters(reply)
  PROVE  IInv'
<1> DEFINE listed == Head(wire).known
           known == Converted(listed)
<1>1. /\ fate = "running" /\ wire # <<>> /\ asking = Nobody
      /\ Head(wire).of = "printers" /\ Head(wire).reply = reply
      /\ allPrinterData_' = Knowing(allPrinterData_, known)
      /\ printers_' = known
      /\ told' = Knowing(told, known)
      /\ Requeue(Refresh(known), reply)
      /\ UNCHANGED <<asking, requests, online, server, changes, losses, fate>>
  BY DEF HandlePrinters, Receives, Tells
<1>2. Head(wire) \in Message /\ wire' = Tail(wire)
  BY <1>1, TakenParts DEF Requeue, IInv, TypeOK
<1>3. listed \in SUBSET Slugs
  BY <1>1, <1>2, MessageType
<1>4. \A p \in Slugs : (p \in listed) # (p \in DOMAIN server) =>
        \E m \in Coming' : /\ m.of = "printers"
                           /\ (p \in m.known) = (p \in DOMAIN server)
  BY <1>1, <1>2, Followed
<1> HIDE DEF listed
<1>5. /\ known \in SUBSET Names /\ known \in SUBSET Converted(Slugs)
      /\ \A p \in Slugs : ToUtf8[p] \in known <=> p \in listed
  BY <1>3, ConvertedParts
<1> HIDE DEF known
<1>6. /\ Refresh(known) \in Seq(Query)
      /\ \A k \in Lists, p \in known :
           ListQuery(k, p) \in ToSet(Refresh(known))
  BY <1>5, RefreshQueries
<1>7. /\ queue' \in Seq(Query) /\ answered' \in BOOLEAN
      /\ wire' \in Seq(Message)
      /\ Versions' /\ Replies' /\ LastList' /\ LastVersion'
      /\ Unanswered' = Unanswered \cup ToSet(Refresh(known))
  BY <1>1, <1>6, RequeueKeeps
<1>8. Knowing(allPrinterData_, known) \in [known -> Contents]
  BY KnowingParts DEF IInv, TypeOK
<1>9. told' = allPrinterData_'
  BY <1>1 DEF IInv, ToldIsCached
<1>10. TypeOK'
  BY <1>1, <1>5, <1>7, <1>8, <1>9 DEF IInv, TypeOK
<1>11. ToldIsCached'
  BY <1>1, <1>9 DEF ToldIsCached, Nobody, Lists
<1>12. Noticed'
  <2>1. DOMAIN server \subseteq Slugs
    BY DEF IInv, TypeOK
  <2>2. StaleIsNoticed'
    BY <1>1, <1>5, <1>4, <1>6, <1>7, <2>1 DEF StaleIsNoticed
  <2>3. GoneIsNoticed'
    BY <1>1, <1>5, <1>4 DEF GoneIsNoticed
  <2>4. QED
    BY <2>2, <2>3 DEF Noticed
<1>13. QED
  BY <1>7, <1>10, <1>11, <1>12 DEF IInv

\* An answer: what it is not up to date about is asked for again.
LEMMA HandleListKeeps == ASSUME IInv, HandleList PROVE IInv'
<1> DEFINE m == Head(wire)
<1>1. /\ fate = "running" /\ wire # <<>> /\ asking = Nobody
      /\ m.of \in Lists /\ m.reply = TRUE
      /\ m.slug \in DOMAIN allPrinterData_
      /\ allPrinterData_' = Learning(allPrinterData_, m.slug, m.of, m.version)
      /\ told' = Learning(told, m.slug, m.of, m.version)
      /\ Requeue(<<>>, TRUE)
      /\ UNCHANGED <<printers_, asking, requests, online, server, changes,
                     losses, fate>>
  BY DEF HandleList, Receives, Tells
<1>2. <<>> \in Seq(Query) /\ ToSet(<<>>) = {}
  BY DEF ToSet
<1>3. /\ queue' \in Seq(Query) /\ answered' \in BOOLEAN
      /\ wire' \in Seq(Message)
      /\ Versions' /\ Replies' /\ LastList' /\ LastVersion'
      /\ Unanswered' = Unanswered
      /\ m \in Message
      /\ Coming = {m} \cup Coming'
  BY <1>1, <1>2, RequeueKeeps
<1>4. \A k \in Lists, p \in DOMAIN server :
        m.of = k /\ m.slug = p /\ m.version # server[p][k]
        => \/ ListEvent(k, p) \in Coming'
           \/ \E n \in Coming' : n.of = "printers" /\ p \in n.known
  BY <1>1, Followed DEF Requeue
<1> HIDE DEF m
<1>5. m.version \in Version
  BY <1>1, <1>3, MessageType
<1>6. /\ allPrinterData_ \in [printers_ -> Contents]
      /\ told = allPrinterData_ /\ m.slug \in printers_
  BY <1>1 DEF IInv, TypeOK, ToldIsCached
<1>7. /\ allPrinterData_' \in [printers_ -> Contents]
      /\ allPrinterData_'[m.slug][m.of] = m.version
      /\ \A q \in printers_, l \in Lists : q # m.slug \/ l # m.of =>
           allPrinterData_'[q][l] = allPrinterData_[q][l]
  BY <1>1, <1>5, <1>6, LearningParts
<1>8. told' = allPrinterData_'
  BY <1>1, <1>6
<1>9. TypeOK'
  BY <1>1, <1>3, <1>7, <1>8 DEF IInv, TypeOK
<1>10. ToldIsCached'
  BY <1>1, <1>8 DEF ToldIsCached, Nobody, Lists
<1>11. ASSUME losses' = 0 PROVE Noticed'
  <2>1. StaleIsNoticed /\ GoneIsNoticed
    BY <1>1, <1>11 DEF IInv, Noticed
  <2>2. \A n \in Coming : n.of = "printers" => n \in Coming'
    BY <1>1, <1>3, KindsDiffer
  <2>3. \A k \in Lists : \A p : ListEvent(k, p) \in Coming =>
          ListEvent(k, p) \in Coming'
    BY <1>1, <1>3 DEF ListEvent
  <2>4. \A k \in Lists : \A p, v : k # m.of \/ p # m.slug =>
          (ListAnswer(k, p, v) \in Coming => ListAnswer(k, p, v) \in Coming')
    BY <1>3 DEF ListAnswer
  <2>5. ASSUME NEW p \in DOMAIN server,
               PrintersQuery \notin Unanswered,
               ~ \E n \in Coming' : n.of = "printers" /\ p \in n.known
        PROVE  /\ ToUtf8[p] \in printers_
               /\ ToUtf8[p] = p => \A k \in Lists :
                    \/ allPrinterData_'[p][k] = server[p][k]
                    \/ ListQuery(k, p) \in Unanswered
                    \/ ListEvent(k, p) \in Coming'
                    \/ ListAnswer(k, p, server[p][k]) \in Coming'
    <3>1. /\ ToUtf8[p] \in printers_
          /\ ToUtf8[p] = p => \A k \in Lists :
               \/ allPrinterData_[p][k] = server[p][k]
               \/ ListQuery(k, p) \in Unanswered
               \/ ListEvent(k, p) \in Coming
               \/ ListAnswer(k, p, server[p][k]) \in Coming
      BY <2>1, <2>2, <2>5 DEF StaleIsNoticed
    <3>2. ASSUME ToUtf8[p] = p, NEW k \in Lists
          PROVE  \/ allPrinterData_'[p][k] = server[p][k]
                 \/ ListQuery(k, p) \in Unanswered
                 \/ ListEvent(k, p) \in Coming'
                 \/ ListAnswer(k, p, server[p][k]) \in Coming'
      <4>1. CASE k = m.of /\ p = m.slug
        BY <1>4, <1>7, <2>5, <4>1
      <4>2. CASE k # m.of \/ p # m.slug
        BY <1>7, <2>3, <2>4, <3>1, <3>2, <4>2
      <4>3. QED
        BY <4>1, <4>2
    <3>3. QED
      BY <3>1, <3>2
  <2>6. StaleIsNoticed'
    BY <1>1, <1>3, <2>5 DEF StaleIsNoticed
  <2>7. GoneIsNoticed'
    BY <1>1, <1>3, <2>1, <2>2 DEF GoneIsNoticed
  <2>8. QED
    BY <2>6, <2>7 DEF Noticed
<1>12. QED
  BY <1>3, <1>9, <1>10, <1>11 DEF IInv

\* The exception leaves all as it is, but for the answer, which is gone.
LEMMA HandleUnknownPrinterKeeps ==
  ASSUME IInv, HandleUnknownPrinter
  PROVE  IInv'
<1> DEFINE m == Head(wire)
<1>1. /\ fate = "running" /\ fate' = "escaped" /\ wire # <<>>
      /\ m.of \in Lists /\ m.reply = TRUE
      /\ m.slug \notin DOMAIN allPrinterData_
      /\ wire' = Tail(wire)
      /\ UNCHANGED <<cache, application, queue, answered, online, server,
                     changes, losses>>
  BY DEF HandleUnknownPrinter, Receives
<1>2. /\ Taken(wire, wire') /\ wire' \in Seq(Message) /\ m = wire[1]
  BY <1>1, TakenParts DEF IInv, TypeOK
<1> HIDE DEF m
<1>3. TypeOK'
  BY <1>1, <1>2 DEF IInv, TypeOK, cache, application
<1>4. Versions' /\ ToldIsCached'
  BY <1>1 DEF IInv, Versions, ToldIsCached, cache, application
<1>5. LastList' /\ LastVersion'
  BY <1>1, <1>2, TakenWire DEF IInv
<1>6. Replies'
  <2>1. \A i \in 1..Len(wire') : wire'[i].reply => answered'
    BY <1>1, <1>2 DEF IInv, Replies, Taken
  <2>2. \A i, j \in 1..Len(wire') : wire'[i].reply /\ wire'[j].reply => i = j
    <3>1. SUFFICES ASSUME NEW i \in 1..Len(wire'), NEW j \in 1..Len(wire'),
                          wire'[i].reply, wire'[j].reply
                   PROVE  i = j
      OBVIOUS
    <3>2. /\ i + 1 \in 1..Len(wire) /\ wire[i + 1].reply
          /\ j + 1 \in 1..Len(wire) /\ wire[j + 1].reply
      BY <1>2, <3>1 DEF Taken
    <3>3. i + 1 = j + 1
      BY <3>2 DEF IInv, Replies
    <3>4. QED
      BY <3>3
  <2>3. online
    BY <1>1 DEF IInv, Replies
  <2>4. \A i \in 1..Len(wire') : wire'[i].of = "refusal" => losses' # 0
    BY <1>1, <1>2 DEF IInv, Replies, Taken
  <2>5. QED
    BY <1>1, <2>1, <2>2, <2>3, <2>4 DEF Replies
<1>7. ASSUME losses' = 0 PROVE Noticed'
  <2>1. /\ StaleIsNoticed /\ GoneIsNoticed
        /\ DOMAIN allPrinterData_ = printers_
    BY <1>1, <1>7 DEF IInv, Noticed, TypeOK
  <2>2. Coming = {m} \cup Coming' /\ Unanswered' = Unanswered
    BY <1>1, <1>2 DEF Coming, Taken, Unanswered
  <2>3. \A n \in Coming : n.of = "printers" => n \in Coming'
    BY <1>1, <2>2, KindsDiffer
  <2>4. \A k \in Lists : \A p : ListEvent(k, p) \in Coming =>
          ListEvent(k, p) \in Coming'
    BY <1>1, <2>2 DEF ListEvent
  <2>5. \A k \in Lists, p \in printers_ : \A v :
          ListAnswer(k, p, v) \in Coming => ListAnswer(k, p, v) \in Coming'
    BY <1>1, <2>1, <2>2 DEF ListAnswer
  <2>6. StaleIsNoticed'
    BY <1>1, <2>1, <2>2, <2>3, <2>4, <2>5 DEF StaleIsNoticed, cache
  <2>7. GoneIsNoticed'
    BY <1>1, <2>1, <2>2, <2>3 DEF GoneIsNoticed, cache
  <2>8. QED
    BY <2>6, <2>7 DEF Noticed
<1>8. QED
  BY <1>3, <1>4, <1>5, <1>6, <1>7 DEF IInv

\* The connection is lost, as it is in ConnectionLost.
LEMMA HandleRefusalKeeps == ASSUME IInv, HandleRefusal PROVE IInv'
<1>1. /\ wire # <<>> /\ Head(wire).of = "refusal"
      /\ online' = FALSE /\ answered' = FALSE /\ wire' = <<>>
      /\ UNCHANGED <<cache, application, queue, server, changes, losses, fate>>
  BY DEF HandleRefusal, Receives
<1>2. losses # 0
  <2>1. wire \in Seq(Message)
    BY DEF IInv, TypeOK
  <2>2. 1 \in 1..Len(wire) /\ wire[1].of = "refusal"
    BY <1>1, <2>1
  <2>3. QED
    BY <2>2 DEF IInv, Replies
<1>3. wire' \in Seq(Message) /\ Len(wire') = 0 /\ 1..Len(wire') = {}
  BY <1>1
<1>4. TypeOK'
  BY <1>1, <1>3 DEF IInv, TypeOK, cache, application
<1>5. Versions' /\ ToldIsCached'
  BY <1>1 DEF IInv, Versions, ToldIsCached, cache, application
<1>6. Replies' /\ LastList' /\ LastVersion'
  BY <1>1, <1>2, <1>3 DEF Replies, LastList, LastVersion
<1>7. QED
  BY <1>1, <1>2, <1>4, <1>5, <1>6 DEF IInv

\* An event: the query it causes is due from then on.
LEMMA HandleListEventKeeps == ASSUME IInv, HandleListEvent PROVE IInv'
<1> DEFINE m == Head(wire)
           new == <<ListQuery(m.of, m.slug)>>
<1>1. /\ fate = "running" /\ wire # <<>>
      /\ m.of \in Lists /\ m.reply = FALSE
      /\ Requeue(new, FALSE)
      /\ UNCHANGED <<cache, application, online, server, changes, losses,
                     fate>>
  BY DEF HandleListEvent, Receives
<1>2. m \in Message
  BY <1>1, TakenParts DEF Requeue, IInv, TypeOK
<1> HIDE DEF m
<1>3. m.slug \in Slugs /\ m = ListEvent(m.of, m.slug)
  BY <1>1, <1>2, MessageType
<1>4. /\ ListQuery(m.of, m.slug) \in Query
      /\ new \in Seq(Query)
      /\ ToSet(new) = {ListQuery(m.of, m.slug)}
  BY <1>1, <1>3 DEF Query, Names, ToSet
<1> HIDE DEF new
<1>5. /\ queue' \in Seq(Query) /\ answered' \in BOOLEAN
      /\ wire' \in Seq(Message)
      /\ Versions' /\ Replies' /\ LastList' /\ LastVersion'
      /\ Unanswered' = Unanswered \cup ToSet(new)
      /\ Coming = {m} \cup Coming'
  BY <1>1, <1>4, RequeueKeeps DEF m
<1>6. TypeOK'
  BY <1>1, <1>5 DEF IInv, TypeOK, cache, application
<1>7. ToldIsCached'
  BY <1>1 DEF IInv, ToldIsCached, cache, application
<1>8. ASSUME losses' = 0 PROVE Noticed'
  <2>1. StaleIsNoticed /\ GoneIsNoticed
    BY <1>1, <1>8 DEF IInv, Noticed
  <2>2. \A n \in Coming : n.of = "printers" => n \in Coming'
    BY <1>1, <1>5, KindsDiffer
  <2>3. \A k \in Lists : \A p : ListEvent(k, p) \in Coming =>
          ListEvent(k, p) \in Coming' \/ ListQuery(k, p) \in Unanswered'
    <3>1. \A k \in Lists : \A p : m = ListEvent(k, p) => m.of = k /\ m.slug = p
      BY DEF ListEvent
    <3>2. QED
      BY <1>4, <1>5, <3>1
  <2>4. \A k \in Lists : \A p, v : ListAnswer(k, p, v) \in Coming =>
          ListAnswer(k, p, v) \in Coming'
    BY <1>1, <1>5 DEF ListAnswer
  <2>5. StaleIsNoticed'
    BY <1>1, <1>5, <2>1, <2>2, <2>3, <2>4 DEF StaleIsNoticed, cache
  <2>6. GoneIsNoticed'
    BY <1>1, <1>5, <2>1, <2>2 DEF GoneIsNoticed, cache
  <2>7. QED
    BY <2>5, <2>6 DEF Noticed
<1>9. QED
  BY <1>5, <1>6, <1>7, <1>8 DEF IInv

LEMMA HandleJobFinishedKeeps == ASSUME IInv, HandleJobFinished PROVE IInv'
<1> DEFINE new == <<PrintersQuery>>
<1>1. /\ fate = "running" /\ wire # <<>> /\ Head(wire).reply = FALSE
      /\ Requeue(new, FALSE)
      /\ UNCHANGED <<cache, application, online, server, changes, losses,
                     fate>>
  BY DEF HandleJobFinished, Receives
<1>2. PrintersQuery \in Query /\ new \in Seq(Query)
      /\ ToSet(new) = {PrintersQuery}
  BY DEF Query, ToSet
<1> HIDE DEF new
<1>3. /\ queue' \in Seq(Query) /\ answered' \in BOOLEAN
      /\ wire' \in Seq(Message)
      /\ Versions' /\ Replies' /\ LastList' /\ LastVersion'
      /\ Unanswered' = Unanswered \cup ToSet(new)
  BY <1>1, <1>2, RequeueKeeps
<1>4. TypeOK'
  BY <1>1, <1>3 DEF IInv, TypeOK, cache, application
<1>5. ToldIsCached'
  BY <1>1 DEF IInv, ToldIsCached, cache, application
<1>6. Noticed'
  BY <1>2, <1>3 DEF Noticed, StaleIsNoticed, GoneIsNoticed
<1>7. QED
  BY <1>3, <1>4, <1>5, <1>6 DEF IInv

-----------------------------------------------------------------------------
(***************************************************************************)
(* The invariant, and what it implies                                      *)
(***************************************************************************)

LEMMA NextInvariant == IInv /\ [Next]_vars => IInv'
<1> SUFFICES ASSUME IInv, [Next]_vars
             PROVE  IInv'
  OBVIOUS
<1>1. ASSUME NEW p \in Slugs, NEW k \in Lists, ListChanges(k, p) PROVE IInv'
  BY <1>1, ListChangesKeeps
<1>2. ASSUME NEW p \in Slugs, PrinterAppears(p) PROVE IInv'
  BY <1>2, PrinterAppearsKeeps
<1>3. ASSUME NEW p \in Slugs, PrinterDisappears(p) PROVE IInv'
  BY <1>3, PrinterDisappearsKeeps
<1>4. CASE JobFinishes
  BY <1>4, JobFinishesKeeps
<1>5. CASE ServerAnswers
  BY <1>5, ServerAnswersKeeps
<1>6. CASE ConnectionLost
  BY <1>6, ConnectionLostKeeps
<1>7. CASE LoggedIn
  BY <1>7, LoggedInKeeps
<1>8. CASE RequestPrinters
  BY <1>8, AsksKeeps DEF RequestPrinters
<1>9. ASSUME NEW k \in Lists, NEW p \in Names, RequestList(k, p) PROVE IInv'
  <2>1. p \in printers_
    BY <1>9 DEF RequestList, IInv, TypeOK
  <2>2. QED
    BY <1>9, <2>1, AsksKeeps DEF RequestList
<1>10. CASE Told
  BY <1>10, ToldKeeps
<1>11. ASSUME NEW reply \in BOOLEAN, HandlePrinters(reply) PROVE IInv'
  BY <1>11, HandlePrintersKeeps
<1>12. CASE HandleList
  BY <1>12, HandleListKeeps
<1>13. CASE HandleUnknownPrinter
  BY <1>13, HandleUnknownPrinterKeeps
<1>14. CASE HandleListEvent
  BY <1>14, HandleListEventKeeps
<1>15. CASE HandleJobFinished
  BY <1>15, HandleJobFinishedKeeps
<1>16. CASE UNCHANGED vars
  <2>1. /\ UNCHANGED <<printers_, allPrinterData_, asking, told, requests>>
        /\ UNCHANGED <<queue, answered, online, wire, server, changes>>
        /\ UNCHANGED <<losses, fate>>
    BY <1>16 DEF vars, cache, application
  <2>2. TypeOK'
    BY <2>1 DEF IInv, TypeOK
  <2>3. Versions' /\ Replies' /\ ToldIsCached'
    BY <2>1 DEF IInv, Versions, Replies, ToldIsCached
  <2>4. LastList' /\ LastVersion'
    BY <2>1, SameWire DEF IInv
  <2>5. losses' = 0 => Noticed'
    BY <2>1, MoreToCome DEF IInv, Unanswered, Coming, cache
  <2>6. QED
    BY <2>2, <2>3, <2>4, <2>5 DEF IInv
<1>17. CASE ServerRefuses
  BY <1>17, ServerRefusesKeeps
<1>18. CASE HandleRefusal
  BY <1>18, HandleRefusalKeeps
<1>19. QED
  BY <1>1, <1>2, <1>3, <1>4, <1>5, <1>6, <1>7, <1>8, <1>9, <1>10, <1>11,
     <1>12, <1>13, <1>14, <1>15, <1>16, <1>17, <1>18 DEF Next, HandleMessage

\* The inductive invariant: it holds initially and every step keeps it.
THEOREM Invariance == Spec => []IInv
BY InitInvariant, NextInvariant, PTL DEF Spec

\* The variables keep their types; the two parts of the cache, and what the
\* application was told, are about the same printers.
THEOREM TypeCorrect == Spec => []TypeOK
<1>1. IInv => TypeOK
  BY DEF IInv
<1>2. QED
  BY <1>1, Invariance, PTL

\* As long as no connection was lost, whatever is out of date in the cache is
\* on its way or asked for, and what is gone will be noticed: the queries that
\* handlePrinters() and the events make the service ask are enough, whatever the
\* conversion does to the slugs; only the lists of a printer whose slug it
\* changes may stay out of date.
THEOREM OutdatedNoticed == Spec => []OutdatedIsNoticed
<1>1. IInv => OutdatedIsNoticed
  BY DEF IInv, OutdatedIsNoticed
<1>2. QED
  BY <1>1, Invariance, PTL

-----------------------------------------------------------------------------
(***************************************************************************)
(* What the application is told only gets newer                            *)
(***************************************************************************)

LEMMA HasType ==
  ASSUME TypeOK, NEW k \in Lists, NEW p
  PROVE  Has(k, p) \in Nat
BY DEF TypeOK, Has, Contents, Version

LEMMA HasBound ==
  ASSUME TypeOK, Versions, NEW k \in Lists, NEW p
  PROVE  Has(k, p) <= changes
BY DEF TypeOK, Versions, Has

LEMMA HasTypeNext ==
  ASSUME TypeOK', NEW k \in Lists, NEW p
  PROVE  Has(k, p)' \in Nat
BY DEF TypeOK, Has, Contents, Version

\* A step of the server and the connection: nothing gets older there.
LEMMA SendsBehind ==
  ASSUME Behind, TypeOK, TypeOK', UNCHANGED cache,
         \A p \in Names, k \in Lists : Has(k, p) <= Has(k, p)',
         \/ wire' = wire
         \/ wire' = <<>>
         \/ \E e : Sent(wire, wire', e) /\ NotAhead(e)'
  PROVE  Behind'
<1>1. UNCHANGED <<printers_, allPrinterData_>>
  BY DEF cache
<1>2. printers_ \subseteq Names /\ allPrinterData_ \in [printers_ -> Contents]
      /\ wire \in Seq(Message)
  BY DEF TypeOK, Names
<1>4. ASSUME NEW p \in printers_, NEW k \in Lists
      PROVE  allPrinterData_[p][k] <= Has(k, p)'
  <2>1. /\ allPrinterData_[p][k] \in Nat /\ Has(k, p) \in Nat
        /\ allPrinterData_[p][k] <= Has(k, p)
    BY <1>2, HasType DEF Behind, Contents, Version
  <2>2. Has(k, p)' \in Nat /\ Has(k, p) <= Has(k, p)'
    <3>1. Has(k, p)' \in Nat
      BY DEF TypeOK, Has, Contents, Version
    <3>2. QED
      BY <1>2, <3>1
  <2>3. QED
    BY <2>1, <2>2
<1>5. ASSUME NEW m \in Message, NotAhead(m)
      PROVE  NotAhead(m)'
  <2>2. ASSUME m.of \in Lists, m.reply
        PROVE  /\ m.version <= Has(m.of, m.slug)'
               /\ m.slug \in printers_ =>
                    allPrinterData_[m.slug][m.of] <= m.version
    <3>1. /\ m.slug \in Names /\ m.version \in Nat
          /\ m.version <= Has(m.of, m.slug)
          /\ m.slug \in printers_ =>
               allPrinterData_[m.slug][m.of] <= m.version
      BY <1>5, <2>2, MessageType DEF NotAhead, Version
    <3>2. Has(m.of, m.slug) \in Nat
      BY <2>2, HasType
    <3>3. Has(m.of, m.slug)' \in Nat
      BY <2>2, HasTypeNext
    <3>4. Has(m.of, m.slug) <= Has(m.of, m.slug)'
      BY <2>2, <3>1
    <3>5. QED
      BY <3>1, <3>2, <3>3, <3>4
  <2>3. QED
    BY <1>1, <2>2 DEF NotAhead
<1>6. ASSUME NEW i \in 1..Len(wire')
      PROVE  NotAhead(wire[i])'
  <2>1. PICK m : m = wire'[i]
    OBVIOUS
  <2>2. NotAhead(m)'
    <3>1. CASE i \in 1..Len(wire) /\ wire'[i] = wire[i]
      <4>1. m \in Message /\ NotAhead(m)
        BY <1>2, <2>1, <3>1 DEF Behind
      <4>2. QED
        BY <1>5, <4>1
    <3>2. CASE wire' = wire
      BY <3>1, <3>2
    <3>3. CASE wire' = <<>>
      BY <3>3
    <3>4. CASE \E e : Sent(wire, wire', e) /\ NotAhead(e)'
      <4>1. PICK e : Sent(wire, wire', e) /\ NotAhead(e)'
        BY <3>4
      <4>2. CASE i \in 1..Len(wire)
        BY <3>1, <4>1, <4>2 DEF Sent
      <4>3. CASE i = Len(wire) + 1
        BY <2>1, <4>1, <4>3 DEF Sent
      <4>4. QED
        BY <4>1, <4>2, <4>3 DEF Sent
    <3>5. QED
      BY <3>2, <3>3, <3>4
  <2>3. QED
    BY <2>1, <2>2 DEF NotAhead
<1>7. QED
  BY <1>1, <1>4, <1>6 DEF Behind

\* A handler: what was on its way stays as it was, up to what is cached.
LEMMA TakenBehind ==
  ASSUME Behind, TypeOK, UNCHANGED <<server, changes>>, Taken(wire, wire'),
         \A p \in printers_', k \in Lists :
           allPrinterData_'[p][k] <= Has(k, p),
         \A i \in 1..Len(wire') :
           /\ wire'[i].of \in Lists /\ wire'[i].reply
           /\ wire'[i].slug \in printers_'
           => allPrinterData_'[wire'[i].slug][wire'[i].of]
                <= wire'[i].version
  PROVE  Behind'
<1>1. \A k, p : Has(k, p)' = Has(k, p)
  BY DEF Has
<1>2. ASSUME NEW i \in 1..Len(wire')
      PROVE  NotAhead(wire[i])'
  <2>1. NotAhead(wire[i + 1]) /\ wire'[i] = wire[i + 1]
    BY DEF Behind, Taken
  <2>2. QED
    BY <1>1, <2>1 DEF NotAhead
<1>3. QED
  BY <1>1, <1>2 DEF Behind

LEMMA InitBehind == Init => Behind
<1> SUFFICES ASSUME Init
             PROVE  Behind
  OBVIOUS
<1>1. 1..Len(wire) = {} /\ printers_ = {}
  BY DEF Init
<1>2. QED
  BY <1>1 DEF Behind

\* The server's part of a step that is no handler.
LEMMA ServerBehind ==
  ASSUME IInv, IInv', Behind,
         \/ \E p \in Slugs, k \in Lists : ListChanges(k, p)
         \/ \E p \in Slugs : PrinterAppears(p) \/ PrinterDisappears(p)
         \/ JobFinishes
         \/ ServerAnswers
         \/ ServerRefuses
         \/ ConnectionLost
         \/ LoggedIn
         \/ RequestPrinters
         \/ \E k \in Lists, p \in Names : RequestList(k, p)
         \/ Told
  PROVE  Behind'
<1>0. /\ TypeOK /\ TypeOK' /\ Versions /\ wire \in Seq(Message)
      /\ \A k \in Lists : \A p :
           Has(k, p) \in Nat /\ Has(k, p) <= changes
      /\ changes \in Nat
  BY HasType, HasBound DEF IInv, TypeOK
<1>1. ASSUME NEW p \in Slugs, NEW k \in Lists, ListChanges(k, p)
      PROVE  Behind'
  <2>1. /\ DOMAIN server' = DOMAIN server
        /\ server[p][k] <= changes /\ server'[p][k] = changes + 1
        /\ changes' = changes + 1
        /\ \A q \in DOMAIN server, l \in Lists : q # p \/ l # k =>
             server'[q][l] = server[q][l]
    BY <1>0, <1>1, ListChangesServer DEF ListChanges, Change
  <2>2. \A q \in Names, l \in Lists : Has(l, q) <= Has(l, q)'
    <3>1. SUFFICES ASSUME NEW q \in Names, NEW l \in Lists
                   PROVE  Has(l, q) <= Has(l, q)'
      OBVIOUS
    <3>2. Has(l, q)' \in {Has(l, q), changes + 1}
      BY <2>1 DEF Has
    <3>3. QED
      BY <1>0, <3>2
  <2>3. /\ ListEvent(k, p) \in Message
        /\ ListEvent(k, p).of = k /\ ListEvent(k, p).reply = FALSE
    <3>1. p \in Names
      BY DEF Names
    <3>2. QED
      BY <3>1, ListMessages DEF ListEvent
  <2>4. NotAhead(ListEvent(k, p))'
    BY <2>3, KindsDiffer DEF NotAhead
  <2>5. UNCHANGED cache
    BY <1>1 DEF ListChanges, Change
  <2>6. wire' = wire \/ Sent(wire, wire', ListEvent(k, p))
    BY <1>0, <1>1, <2>3, SentParts DEF ListChanges, Change
  <2>7. QED
    BY <1>0, <2>1, <2>2, <2>4, <2>5, <2>6, SendsBehind
<1>2. ASSUME NEW p \in Slugs, PrinterAppears(p)
      PROVE  Behind'
  <2>1. /\ DOMAIN server' = DOMAIN server \cup {p}
        /\ DOMAIN server' \in SUBSET Slugs
        /\ p \notin DOMAIN server
        /\ server'[p] = [k \in Lists |-> changes + 1]
        /\ \A q \in DOMAIN server : server'[q] = server[q]
        /\ changes' = changes + 1
    BY <1>0, <1>2, PrinterAppearsServer DEF TypeOK, PrinterAppears, Change
  <2>2. \A q \in Names, l \in Lists : Has(l, q) <= Has(l, q)'
    <3>1. SUFFICES ASSUME NEW q \in Names, NEW l \in Lists
                   PROVE  Has(l, q) <= Has(l, q)'
      OBVIOUS
    <3>2. Has(l, q)' \in {Has(l, q), changes + 1}
      BY <2>1 DEF Has
    <3>3. QED
      BY <1>0, <3>2
  <2>3. PICK e : e = PrintersEvent(DOMAIN server \cup {p})
    OBVIOUS
  <2>4. e \in Message /\ e.of = "printers" /\ e.known = DOMAIN server'
    BY <2>1, <2>3, PrintersMessages
  <2>5. NotAhead(e)'
    BY <2>4, KindsDiffer DEF NotAhead
  <2>6. UNCHANGED cache /\ (wire' = wire \/ wire' = Append(wire, e))
    BY <1>2, <2>3 DEF PrinterAppears, Change
  <2>7. wire' = wire \/ Sent(wire, wire', e)
    BY <1>0, <2>4, <2>6, SentParts
  <2>8. QED
    BY <1>0, <2>1, <2>2, <2>5, <2>6, <2>7, SendsBehind
<1>3. ASSUME NEW p \in Slugs, PrinterDisappears(p)
      PROVE  Behind'
  <2>1. /\ DOMAIN server' = DOMAIN server \ {p}
        /\ DOMAIN server' \in SUBSET Slugs
        /\ \A q \in DOMAIN server \ {p} : server'[q] = server[q]
        /\ changes' = changes + 1
    BY <1>0, <1>3, PrinterDisappearsServer
      DEF TypeOK, PrinterDisappears, Change
  <2>2. \A q \in Names, l \in Lists : Has(l, q) <= Has(l, q)'
    <3>1. SUFFICES ASSUME NEW q \in Names, NEW l \in Lists
                   PROVE  Has(l, q) <= Has(l, q)'
      OBVIOUS
    <3>2. Has(l, q)' \in {Has(l, q), changes + 1}
      BY <2>1 DEF Has
    <3>3. QED
      BY <1>0, <3>2
  <2>3. PICK e : e = PrintersEvent(DOMAIN server \ {p})
    OBVIOUS
  <2>4. e \in Message /\ e.of = "printers"
    BY <2>1, <2>3, PrintersMessages
  <2>5. NotAhead(e)'
    BY <2>4, KindsDiffer DEF NotAhead
  <2>6. UNCHANGED cache /\ (wire' = wire \/ wire' = Append(wire, e))
    BY <1>3, <2>3 DEF PrinterDisappears, Change
  <2>7. wire' = wire \/ Sent(wire, wire', e)
    BY <1>0, <2>4, <2>6, SentParts
  <2>8. QED
    BY <1>0, <2>1, <2>2, <2>5, <2>6, <2>7, SendsBehind
<1>4. ASSUME server' = server, changes' \in {changes, changes + 1}
      PROVE  \A q \in Names, l \in Lists : Has(l, q) <= Has(l, q)'
  <2>1. SUFFICES ASSUME NEW q \in Names, NEW l \in Lists
                 PROVE  Has(l, q) <= Has(l, q)'
    BY <1>4
  <2>2. Has(l, q)' \in {Has(l, q), changes, changes + 1}
    BY <1>4 DEF Has
  <2>3. Has(l, q)' = Has(l, q) \/ changes <= Has(l, q)'
    BY <1>0, <1>4 DEF Has
  <2>4. QED
    BY <1>0, <2>2, <2>3
<1>5. CASE JobFinishes
  <2>1. server' = server /\ UNCHANGED cache /\ changes' = changes + 1
    BY <1>5 DEF JobFinishes, Change
  <2>2. wire' = wire \/ Sent(wire, wire', JobFinished)
    BY <1>0, <1>5, JobMessage, SentParts DEF JobFinishes, Change
  <2>3. NotAhead(JobFinished)'
    BY JobMessage, KindsDiffer DEF NotAhead
  <2>4. QED
    BY <1>0, <1>4, <2>1, <2>2, <2>3, SendsBehind
<1>6. CASE ServerAnswers
  <2> DEFINE q == Head(queue)
  <2>0. PICK e : e = Answer(q)
    OBVIOUS
  <2>1. /\ UNCHANGED <<server, changes, cache>>
        /\ wire' = Append(wire, e) /\ queue # <<>>
    BY <1>6, <2>0 DEF ServerAnswers
  <2>2. q \in Query
    BY <2>1, TailParts DEF IInv, TypeOK
  <2> HIDE DEF q
  <2>3. /\ e \in Message
        /\ e.reply = TRUE
        /\ q = PrintersQuery => e.of = "printers" /\ e.known = DOMAIN server
        /\ q # PrintersQuery =>
             /\ q.of \in Lists /\ q.slug \in Names
             /\ e.of = q.of /\ e.slug = q.slug
             /\ e.version = Has(q.of, q.slug)
    BY <1>0, <2>0, <2>2, AnswerType
  <2>4. Sent(wire, wire', e)
    BY <1>0, <2>1, <2>3, SentParts
  <2>5. UNCHANGED <<printers_, allPrinterData_>>
    BY <2>1 DEF cache
  <2>6. \A k, p : Has(k, p)' = Has(k, p)
    BY <2>1 DEF Has
  <2>7. CASE q = PrintersQuery
    <3>1. NotAhead(e)'
      BY <2>1, <2>3, <2>7, KindsDiffer DEF NotAhead
    <3>2. QED
      BY <1>0, <1>4, <2>1, <2>4, <3>1, SendsBehind
  <2>8. CASE q # PrintersQuery
    <3>1. e.of \in Lists /\ e.version = Has(e.of, e.slug)
      BY <2>3, <2>8
    <3>2. e.version \in Nat
      BY <1>0, <3>1
    <3>3. NotAhead(e)'
      BY <2>5, <2>6, <3>1, <3>2, KindsDiffer DEF NotAhead, Behind
    <3>4. QED
      BY <1>0, <1>4, <2>1, <2>4, <3>3, SendsBehind
  <2>9. QED
    BY <2>7, <2>8
<1>7. CASE \/ ConnectionLost \/ LoggedIn \/ RequestPrinters
           \/ \E k \in Lists, p \in Names : RequestList(k, p)
           \/ Told
  <2>1. /\ UNCHANGED <<server, changes, cache>>
        /\ wire' = wire \/ wire' = <<>>
    BY <1>7 DEF ConnectionLost, LoggedIn, RequestPrinters, RequestList, Asks,
                Told
  <2>2. QED
    BY <1>0, <1>4, <2>1, SendsBehind
<1>8. CASE ServerRefuses
  <2>1. UNCHANGED <<server, changes, cache>> /\ wire' = Append(wire, Refusal)
    BY <1>8 DEF ServerRefuses
  <2>2. Sent(wire, wire', Refusal)
    BY <1>0, <2>1, RefusalMessage, SentParts
  <2>3. NotAhead(Refusal)'
    BY RefusalMessage, KindsDiffer DEF NotAhead
  <2>4. QED
    BY <1>0, <1>4, <2>1, <2>2, <2>3, SendsBehind
<1>9. QED
  BY <1>1, <1>2, <1>3, <1>5, <1>6, <1>7, <1>8

\* What a message says when a handler takes it.
LEMMA HeadBehind ==
  ASSUME IInv, Behind, wire # <<>>, wire' = Tail(wire)
  PROVE  /\ Taken(wire, wire') /\ NotAhead(Head(wire))
         /\ Head(wire) \in Message
         /\ \A i \in 1..Len(wire') : wire'[i] \in Message
         /\ \A i \in 1..Len(wire') : NotAhead(wire'[i])
<1>1. /\ Taken(wire, wire') /\ Head(wire) = wire[1]
      /\ Head(wire) \in Message /\ wire' \in Seq(Message)
  BY TakenParts DEF IInv, TypeOK
<1>2. NotAhead(wire[1])
  BY <1>1 DEF Behind, Taken
<1>3. \A i \in 1..Len(wire') : NotAhead(wire[i + 1]) /\ wire'[i] = wire[i + 1]
  BY <1>1 DEF Behind, Taken
<1>4. \A i \in 1..Len(wire') : wire'[i] \in Message
  BY <1>1
<1>5. QED
  BY <1>1, <1>2, <1>3, <1>4

LEMMA HandlePrintersBehind ==
  ASSUME IInv, Behind, NEW reply \in BOOLEAN, HandlePrinters(reply)
  PROVE  Behind'
<1> DEFINE known == Converted(Head(wire).known)
<1>1. /\ wire # <<>> /\ wire' = Tail(wire) /\ UNCHANGED <<server, changes>>
      /\ Head(wire).of = "printers"
      /\ allPrinterData_' = Knowing(allPrinterData_, known)
      /\ printers_' = known
  BY DEF HandlePrinters, Receives, Requeue
<1>2. /\ Taken(wire, wire') /\ NotAhead(Head(wire))
      /\ Head(wire) \in Message
      /\ \A i \in 1..Len(wire') : wire'[i] \in Message
      /\ \A i \in 1..Len(wire') : NotAhead(wire'[i])
  BY <1>1, HeadBehind
<1> HIDE DEF known
<1>4. \A p \in known, k \in Lists :
        allPrinterData_'[p][k] =
          IF p \in printers_ THEN allPrinterData_[p][k] ELSE 0
  <2>1. /\ \A p \in known \cap printers_ :
             allPrinterData_'[p] = allPrinterData_[p]
        /\ \A p \in known \ printers_ : allPrinterData_'[p] = NoContents
    BY <1>1, KnowingParts DEF IInv, TypeOK
  <2>2. QED
    BY <2>1, NoContentsType
<1>5. ASSUME NEW p \in known, NEW k \in Lists
      PROVE  allPrinterData_'[p][k] <= Has(k, p)
  <2>1. Has(k, p) \in Nat
    BY HasType DEF IInv
  <2>2. QED
    BY <1>4, <2>1 DEF Behind
<1>6. ASSUME NEW i \in 1..Len(wire'),
             wire'[i].of \in Lists, wire'[i].reply, wire'[i].slug \in known
      PROVE  allPrinterData_'[wire'[i].slug][wire'[i].of] <= wire'[i].version
  <2>1. wire'[i].version \in Nat
    BY <1>2, <1>6, MessageType DEF Version
  <2>2. wire'[i].slug \in printers_ =>
          allPrinterData_[wire'[i].slug][wire'[i].of] <= wire'[i].version
    BY <1>2, <1>6 DEF NotAhead
  <2>3. QED
    BY <1>4, <1>6, <2>1, <2>2
<1>7. TypeOK
  BY DEF IInv
<1>8. QED
  BY <1>1, <1>2, <1>5, <1>6, <1>7, TakenBehind

LEMMA HandleListBehind ==
  ASSUME IInv, Behind, HandleList
  PROVE  /\ Behind'
         /\ \A p \in printers_, k \in Lists :
              allPrinterData_[p][k] <= allPrinterData_'[p][k]
<1> DEFINE m == Head(wire)
<1>1. /\ wire # <<>> /\ wire' = Tail(wire) /\ UNCHANGED <<server, changes>>
      /\ m.of \in Lists /\ m.reply
      /\ m.slug \in DOMAIN allPrinterData_
      /\ allPrinterData_' = Learning(allPrinterData_, m.slug, m.of, m.version)
      /\ printers_' = printers_
  BY DEF HandleList, Receives, Requeue
<1>2. /\ Taken(wire, wire') /\ NotAhead(m) /\ m \in Message /\ m = wire[1]
      /\ \A i \in 1..Len(wire') : NotAhead(wire'[i])
  BY <1>1, HeadBehind, TakenParts DEF IInv, TypeOK
<1> HIDE DEF m
<1>3. /\ allPrinterData_ \in [printers_ -> Contents] /\ m.slug \in printers_
      /\ TypeOK
  BY <1>1 DEF IInv, TypeOK
<1>4. m.version \in Version
  BY <1>1, <1>2, MessageType
<1>5. /\ allPrinterData_'[m.slug][m.of] = m.version
      /\ \A q \in printers_, l \in Lists : q # m.slug \/ l # m.of =>
           allPrinterData_'[q][l] = allPrinterData_[q][l]
  BY <1>1, <1>3, <1>4, LearningParts
<1>6. /\ m.version <= Has(m.of, m.slug)
      /\ allPrinterData_[m.slug][m.of] <= m.version
  BY <1>1, <1>2, <1>3 DEF NotAhead
<1>7. \A p \in printers_, k \in Lists : allPrinterData_'[p][k] <= Has(k, p)
  BY <1>5, <1>6 DEF Behind
<1>8. \A i \in 1..Len(wire') : ~wire'[i].reply
  <2>1. SUFFICES ASSUME NEW i \in 1..Len(wire'), wire'[i].reply
                 PROVE  FALSE
    OBVIOUS
  <2>2. /\ i + 1 \in 1..Len(wire) /\ wire[i + 1].reply /\ i + 1 > 1
        /\ 1 \in 1..Len(wire) /\ wire[1].reply
    BY <1>1, <1>2, <2>1 DEF Taken
  <2>3. i + 1 = 1
    BY <2>2 DEF IInv, Replies
  <2>4. QED
    BY <2>2, <2>3
<1>9. Behind'
  BY <1>1, <1>2, <1>3, <1>7, <1>8, TakenBehind
<1>10. ASSUME NEW p \in printers_, NEW k \in Lists
       PROVE  allPrinterData_[p][k] <= allPrinterData_'[p][k]
  <2>1. allPrinterData_[p][k] \in Nat
    BY <1>3 DEF Contents, Version
  <2>2. CASE p = m.slug /\ k = m.of
    BY <1>5, <1>6, <2>2
  <2>3. CASE p # m.slug \/ k # m.of
    BY <1>5, <2>1, <2>3
  <2>4. QED
    BY <2>2, <2>3
<1>11. QED
  BY <1>9, <1>10

LEMMA NextBehind ==
  ASSUME IInv, IInv', Behind, [Next]_vars
  PROVE  Behind'
<1>1. CASE \/ \E p \in Slugs, k \in Lists : ListChanges(k, p)
           \/ \E p \in Slugs : PrinterAppears(p) \/ PrinterDisappears(p)
           \/ JobFinishes
           \/ ServerAnswers
           \/ ServerRefuses
           \/ ConnectionLost
           \/ LoggedIn
           \/ RequestPrinters
           \/ \E k \in Lists, p \in Names : RequestList(k, p)
           \/ Told
  BY <1>1, ServerBehind
<1>2. ASSUME NEW reply \in BOOLEAN, HandlePrinters(reply) PROVE Behind'
  BY <1>2, HandlePrintersBehind
<1>3. CASE HandleList
  BY <1>3, HandleListBehind
<1>4. CASE HandleUnknownPrinter \/ HandleListEvent \/ HandleJobFinished
  <2>1. /\ wire # <<>> /\ wire' = Tail(wire)
        /\ UNCHANGED <<printers_, allPrinterData_, server, changes>>
    BY <1>4 DEF HandleUnknownPrinter, HandleListEvent, HandleJobFinished,
                Receives, Requeue, cache
  <2>2. /\ Taken(wire, wire') /\ TypeOK
        /\ \A i \in 1..Len(wire') : NotAhead(wire'[i])
    BY <2>1, HeadBehind DEF IInv
  <2>3. \A i \in 1..Len(wire') :
          /\ wire'[i].of \in Lists /\ wire'[i].reply
          /\ wire'[i].slug \in printers_
          => allPrinterData_[wire'[i].slug][wire'[i].of] <= wire'[i].version
    BY <2>2 DEF NotAhead
  <2>4. QED
    BY <2>1, <2>2, <2>3, TakenBehind DEF Behind
<1>5. CASE UNCHANGED vars
  <2>1. UNCHANGED <<printers_, allPrinterData_, wire, server, changes>>
    BY <1>5 DEF vars, cache
  <2>2. QED
    BY <2>1 DEF Behind, NotAhead, Has
<1>6. CASE HandleRefusal
  <2>1. UNCHANGED <<server, changes, cache>> /\ wire' = <<>>
    BY <1>6 DEF HandleRefusal
  <2>2. \A p, k : Has(k, p)' = Has(k, p)
    BY <2>1 DEF Has
  <2>3. QED
    BY <2>1, <2>2 DEF Behind, cache
<1>7. QED
  BY <1>1, <1>2, <1>3, <1>4, <1>5, <1>6 DEF Next, HandleMessage

\* Whatever the server does and however many connections are lost, what the
\* slots are given of a printer is never followed by something older.  The
\* cache is never ahead of an answer that is still to come.
THEOREM NeverOlder == Spec => ToldNeverOlder
<1> DEFINE NotOlder ==
      \A p \in DOMAIN told \cap DOMAIN told', k \in Lists :
        told[p][k] <= told'[p][k]
<1>1. Spec => []Behind
  <2>1. IInv /\ IInv' /\ Behind /\ [Next]_vars => Behind'
    BY NextBehind
  <2>2. QED
    BY <2>1, InitBehind, Invariance, PTL DEF Spec
<1>2. IInv /\ Behind /\ [Next]_vars => NotOlder
  <2>1. SUFFICES ASSUME IInv, Behind, [Next]_vars,
                        NEW p \in DOMAIN told \cap DOMAIN told',
                        NEW k \in Lists
                 PROVE  told[p][k] <= told'[p][k]
    OBVIOUS
  <2>2. /\ told = allPrinterData_ /\ told \in [printers_ -> Contents]
        /\ p \in printers_ /\ told[p][k] \in Nat
    BY <2>1 DEF IInv, ToldIsCached, TypeOK, Contents, Version
  <2>3. ASSUME NEW reply \in BOOLEAN, HandlePrinters(reply)
        PROVE  told'[p][k] = told[p][k]
    <3>1. told' = Knowing(told, Converted(Head(wire).known))
      BY <2>3 DEF HandlePrinters, Tells
    <3>2. DOMAIN told' = Converted(Head(wire).known)
      BY <3>1 DEF Knowing
    <3>3. QED
      BY <2>1, <2>2, <3>1, <3>2 DEF Knowing
  <2>4. CASE HandleList
    <3>1. told' = allPrinterData_'
      BY <2>2, <2>4 DEF HandleList, Tells
    <3>2. QED
      BY <2>1, <2>2, <2>4, <3>1, HandleListBehind
  <2>5. CASE told' = told
    BY <2>2, <2>5
  <2>6. \/ \E reply \in BOOLEAN : HandlePrinters(reply)
        \/ HandleList
        \/ told' = told
    <3>1. Told => told' = told
      BY <2>1, ToldAgain
    <3>2. UNCHANGED vars => told' = told
      BY DEF vars, application
    <3>3. (\/ HandleUnknownPrinter \/ HandleRefusal
           \/ HandleListEvent \/ HandleJobFinished) => told' = told
      BY DEF HandleUnknownPrinter, HandleRefusal, HandleListEvent,
             HandleJobFinished, application
    <3>4. (\/ \E q \in Slugs : \/ \E l \in Lists : ListChanges(l, q)
                               \/ PrinterAppears(q)
                               \/ PrinterDisappears(q)
           \/ JobFinishes) => told' = told
      BY DEF ListChanges, PrinterAppears, PrinterDisappears, JobFinishes,
             Change, application
    <3>5. (\/ ServerAnswers \/ ServerRefuses
           \/ ConnectionLost \/ LoggedIn) => told' = told
      BY DEF ServerAnswers, ServerRefuses, ConnectionLost, LoggedIn,
             application
    <3>6. (RequestPrinters
             \/ \E l \in Lists, q \in Names : RequestList(l, q))
            => told' = told
      BY DEF RequestPrinters, RequestList, Asks
    <3>7. QED
      BY <2>1, <3>1, <3>2, <3>3, <3>4, <3>5, <3>6 DEF Next, HandleMessage
  <2>7. QED
    BY <2>2, <2>3, <2>4, <2>5, <2>6
<1>3. QED
  <2>1. Spec => [][NotOlder]_vars
    BY <1>1, <1>2, Invariance, PTL DEF Spec
  <2>2. QED
    BY <2>1 DEF ToldNeverOlder

-----------------------------------------------------------------------------
(***************************************************************************)
(* Answers find their printer                                              *)
(***************************************************************************)

\* Every printer keeps its slug: none has a letter that is not ASCII.
Plain == \A p \in Slugs : ToUtf8[p] = p

LEMMA PlainNames ==
  ASSUME Plain
  PROVE  /\ Names = Slugs
         /\ \A known \in SUBSET Slugs : Converted(known) = known
<1>1. \A known \in SUBSET Slugs : Converted(known) = known
  BY DEF Plain, Converted
<1>2. QED
  BY <1>1 DEF Names

\* While no connection was lost and no printer removed, the lists of printers
\* only grow, from the one in the cache to the last one sent.
ListsGrow ==
  /\ printers_ \subseteq DOMAIN server
  /\ \A i \in 1..Len(wire) : wire[i].of = "printers" =>
       /\ printers_ \subseteq wire[i].known
       /\ wire[i].known \subseteq DOMAIN server
  /\ \A i, j \in 1..Len(wire) :
       i < j /\ wire[i].of = "printers" /\ wire[j].of = "printers"
       => wire[i].known \subseteq wire[j].known

\* Messages and queries are about printers the server has.
MessagesExist ==
  \A i \in 1..Len(wire) :
    wire[i].of \in Lists => wire[i].slug \in DOMAIN server
QueriesExist ==
  \A q \in ToSet(queue) : q.of \in Lists => q.slug \in DOMAIN server

\* The printer of an answer is in the cache, or in a list that comes before.
AnswersListed ==
  \A i \in 1..Len(wire) : wire[i].of \in Lists /\ wire[i].reply =>
    \/ wire[i].slug \in printers_
    \/ \E j \in 1..Len(wire) :
         j < i /\ wire[j].of = "printers" /\ wire[i].slug \in wire[j].known

\* That of a query will be when it is answered: the list of printers is on its
\* way, or the server will be asked for it first.
Open(i) == i > 1 \/ ~answered
Announced(p) == \E m \in Coming : m.of = "printers" /\ p \in m.known
QueriesListed ==
  \A i \in 1..Len(queue) : queue[i].of \in Lists /\ Open(i) =>
    \/ queue[i].slug \in printers_
    \/ Announced(queue[i].slug)
    \/ \E j \in 1..Len(queue) : j < i /\ Open(j) /\ queue[j] = PrintersQuery

Steady ==
  /\ ListsGrow
  /\ MessagesExist
  /\ QueriesExist
  /\ AnswersListed
  /\ QueriesListed
  /\ fate = "running"

LEMMA InitSteady == Init => Steady
<1> SUFFICES ASSUME Init
             PROVE  Steady
  OBVIOUS
<1>1. 1..Len(wire) = {} /\ printers_ = {} /\ fate = "running"
  BY DEF Init
<1>2. PrintersQuery.of \notin Lists
  BY KindsDiffer DEF PrintersQuery
<1>3. ToSet(queue) = {PrintersQuery}
  BY DEF Init, ToSet
<1>4. \A i \in 1..Len(queue) : queue[i] = PrintersQuery
  BY DEF Init
<1>5. QED
  BY <1>1, <1>2, <1>3, <1>4
    DEF Steady, ListsGrow, MessagesExist, QueriesExist, AnswersListed,
        QueriesListed

\* The server sends one more message, or could not.
LEMMA SentListed ==
  ASSUME Steady, wire \in Seq(Message), UNCHANGED printers_,
         DOMAIN server \subseteq DOMAIN server', NEW e,
         wire' = wire \/ Sent(wire, wire', e),
         e.of = "printers" => e.known = DOMAIN server',
         e.of \in Lists => e.slug \in DOMAIN server',
         e.of \in Lists /\ e.reply =>
           e.slug \in printers_ \/ Announced(e.slug)
  PROVE  /\ ListsGrow' /\ MessagesExist' /\ AnswersListed'
         /\ Coming \subseteq Coming'
<1>1. CASE wire' = wire
  <2>1. ListsGrow'
    BY <1>1 DEF Steady, ListsGrow
  <2>2. MessagesExist' /\ AnswersListed' /\ Coming' = Coming
    BY <1>1 DEF Steady, MessagesExist, AnswersListed, Coming
  <2>3. QED
    BY <2>1, <2>2
<1>2. CASE Sent(wire, wire', e)
  <2>1. \A i \in 1..Len(wire') :
          \/ i \in 1..Len(wire) /\ wire'[i] = wire[i]
          \/ i = Len(wire) + 1 /\ wire'[i] = e
    BY <1>2 DEF Sent
  <2>2. ListsGrow'
    <3>1. ASSUME NEW i \in 1..Len(wire'), wire'[i].of = "printers"
          PROVE  /\ printers_ \subseteq wire'[i].known
                 /\ wire'[i].known \subseteq DOMAIN server'
      BY <2>1, <3>1 DEF Steady, ListsGrow
    <3>2. ASSUME NEW i \in 1..Len(wire'), NEW j \in 1..Len(wire'), i < j,
                 wire'[i].of = "printers", wire'[j].of = "printers"
          PROVE  wire'[i].known \subseteq wire'[j].known
      <4>1. CASE wire'[j] = e
        BY <3>1, <3>2, <4>1
      <4>2. CASE j \in 1..Len(wire) /\ wire'[j] = wire[j]
        <5>1. i \in 1..Len(wire) /\ wire'[i] = wire[i]
          BY <1>2, <2>1, <3>2, <4>2 DEF Sent
        <5>2. QED
          BY <3>2, <4>2, <5>1 DEF Steady, ListsGrow
      <4>3. QED
        BY <2>1, <4>1, <4>2
    <3>3. QED
      BY <3>1, <3>2 DEF Steady, ListsGrow
  <2>3. MessagesExist'
    BY <2>1 DEF Steady, MessagesExist
  <2>4. AnswersListed'
    <3>1. SUFFICES ASSUME NEW i \in 1..Len(wire'),
                          wire'[i].of \in Lists, wire'[i].reply,
                          wire'[i].slug \notin printers_
                   PROVE  \E j \in 1..Len(wire') :
                            /\ j < i /\ wire'[j].of = "printers"
                            /\ wire'[i].slug \in wire'[j].known
      BY DEF AnswersListed
    <3>2. CASE i \in 1..Len(wire) /\ wire'[i] = wire[i]
      <4>1. PICK j \in 1..Len(wire) :
              /\ j < i /\ wire[j].of = "printers"
              /\ wire[i].slug \in wire[j].known
        BY <3>1, <3>2 DEF Steady, AnswersListed
      <4>2. QED
        BY <1>2, <3>2, <4>1 DEF Sent
    <3>3. CASE i = Len(wire) + 1 /\ wire'[i] = e
      <4>1. Announced(e.slug)
        BY <3>1, <3>3
      <4>2. PICK j \in 1..Len(wire) :
              wire[j].of = "printers" /\ e.slug \in wire[j].known
        BY <4>1 DEF Announced, Coming, ToSet
      <4>3. QED
        BY <1>2, <3>3, <4>2 DEF Sent
    <3>4. QED
      BY <2>1, <3>2, <3>3
  <2>5. Coming \subseteq Coming'
    BY <1>2 DEF Coming, Sent
  <2>6. QED
    BY <2>2, <2>3, <2>4, <2>5
<1>3. QED
  BY <1>1, <1>2

\* The queue stays as it was, and more is on its way.
LEMMA SameQueue ==
  ASSUME Steady, UNCHANGED <<queue, answered>>,
         DOMAIN server \subseteq DOMAIN server',
         printers_ \subseteq printers_',
         Coming \subseteq Coming'
  PROVE  QueriesExist' /\ QueriesListed'
<1>1. QueriesExist'
  BY DEF Steady, QueriesExist
<1>2. \A p : Announced(p) => Announced(p)'
  BY DEF Announced
<1>3. \A i : Open(i)' <=> Open(i)
  BY DEF Open
<1>4. QED
  BY <1>1, <1>2, <1>3 DEF Steady, QueriesListed

\* The steps that are no handler.
LEMMA ServerSteady ==
  ASSUME ~Removals, Plain, IInv, Steady, losses' = 0,
         \/ \E p \in Slugs, k \in Lists : ListChanges(k, p)
         \/ \E p \in Slugs : PrinterAppears(p) \/ PrinterDisappears(p)
         \/ JobFinishes
         \/ ServerAnswers
         \/ ServerRefuses
         \/ ConnectionLost
         \/ LoggedIn
         \/ RequestPrinters
         \/ \E k \in Lists, p \in Names : RequestList(k, p)
         \/ Told
  PROVE  Steady'
<1>0. /\ TypeOK /\ Versions
      /\ wire \in Seq(Message) /\ queue \in Seq(Query)
      /\ DOMAIN server \subseteq Slugs /\ losses \in Nat
  BY DEF IInv, TypeOK
<1>1. ASSUME NEW e \in Message, e.reply = FALSE,
             UNCHANGED <<printers_, queue, answered, fate>>,
             wire' = wire \/ wire' = Append(wire, e),
             DOMAIN server \subseteq DOMAIN server',
             e.of = "printers" => e.known = DOMAIN server',
             e.of \in Lists => e.slug \in DOMAIN server'
      PROVE  Steady'
  <2>1. wire' = wire \/ Sent(wire, wire', e)
    BY <1>0, <1>1, SentParts
  <2>2. /\ ListsGrow' /\ MessagesExist' /\ AnswersListed'
        /\ Coming \subseteq Coming'
    BY <1>0, <1>1, <2>1, SentListed
  <2>3. QueriesExist' /\ QueriesListed'
    BY <1>1, <2>2, SameQueue
  <2>4. QED
    BY <1>1, <2>2, <2>3 DEF Steady
<1>2. ASSUME NEW p \in Slugs, NEW k \in Lists, ListChanges(k, p)
      PROVE  Steady'
  <2>1. DOMAIN server' = DOMAIN server /\ p \in DOMAIN server
    BY <1>0, <1>2, ListChangesServer
  <2>2. PICK e : e = ListEvent(k, p)
    OBVIOUS
  <2>3. /\ e \in Message /\ e.of = k /\ e.reply = FALSE /\ e.slug = p
    <3>1. /\ ListEvent(k, p) \in Message /\ ListEvent(k, p).of = k
          /\ ListEvent(k, p).reply = FALSE /\ ListEvent(k, p).slug = p
      <4>1. p \in Names
        BY DEF Names
      <4>2. QED
        BY <4>1, ListMessages DEF ListEvent
    <3>2. QED
      BY <2>2, <3>1
  <2>4. /\ UNCHANGED <<printers_, queue, answered, fate>>
        /\ wire' = wire \/ wire' = Append(wire, e)
    BY <1>2, <2>2 DEF ListChanges, Change, cache
  <2>5. QED
    BY <1>1, <2>1, <2>3, <2>4, KindsDiffer
<1>3. ASSUME NEW p \in Slugs, PrinterAppears(p)
      PROVE  Steady'
  <2>1. DOMAIN server' = DOMAIN server \cup {p}
    BY <1>0, <1>3, PrinterAppearsServer
  <2>2. PICK e : e = PrintersEvent(DOMAIN server')
    OBVIOUS
  <2>3. /\ e \in Message /\ e.of = "printers" /\ e.reply = FALSE
        /\ e.known = DOMAIN server'
    BY <1>0, <2>1, <2>2, PrintersMessages
  <2>4. /\ UNCHANGED <<printers_, queue, answered, fate>>
        /\ wire' = wire \/ wire' = Append(wire, e)
    BY <1>3, <2>1, <2>2 DEF PrinterAppears, Change, cache
  <2>5. QED
    BY <1>1, <2>1, <2>3, <2>4, KindsDiffer
<1>4. ASSUME NEW p \in Slugs, PrinterDisappears(p)
      PROVE  Steady'
  BY <1>4 DEF PrinterDisappears
<1>5. CASE JobFinishes
  <2>1. /\ UNCHANGED <<printers_, queue, answered, fate, server>>
        /\ wire' = wire \/ wire' = Append(wire, JobFinished)
    BY <1>5 DEF JobFinishes, Change, cache
  <2>2. QED
    BY <1>1, <2>1, JobMessage, KindsDiffer
<1>6. CASE ServerAnswers
  <2> DEFINE q == Head(queue)
  <2>0. PICK e : e = Answer(q)
    OBVIOUS
  <2>1. /\ UNCHANGED <<printers_, queue, server, fate>>
        /\ wire' = Append(wire, e) /\ queue # <<>>
        /\ ~answered /\ answered' = TRUE
    BY <1>6, <2>0 DEF ServerAnswers, cache
  <2>2. /\ q \in Query /\ q = queue[1] /\ q \in ToSet(queue)
        /\ 1 \in 1..Len(queue)
    BY <1>0, <2>1, TailParts
  <2> HIDE DEF q
  <2>3. /\ e \in Message
        /\ e.reply = TRUE
        /\ q = PrintersQuery => e.of = "printers" /\ e.known = DOMAIN server
        /\ q # PrintersQuery =>
             q.of \in Lists /\ e.of = q.of /\ e.slug = q.slug
    BY <1>0, <2>0, <2>2, AnswerType
  <2>4. Sent(wire, wire', e)
    BY <1>0, <2>1, <2>3, SentParts
  <2>5. e.of = "printers" => q = PrintersQuery
    BY <2>3, KindsDiffer
  <2>6. ASSUME e.of \in Lists
        PROVE  /\ e.slug \in DOMAIN server'
               /\ e.slug \in printers_ \/ Announced(e.slug)
    <3>1. q # PrintersQuery
      BY <2>3, <2>6, KindsDiffer
    <3>2. queue[1].of \in Lists /\ queue[1].slug = e.slug
      BY <2>2, <2>3, <3>1
    <3>3. e.slug \in DOMAIN server
      BY <2>2, <3>2 DEF Steady, QueriesExist
    <3>4. Open(1) /\ \A j \in 1..Len(queue) : ~(j < 1)
      BY <2>1 DEF Open
    <3>5. \/ queue[1].slug \in printers_
          \/ Announced(queue[1].slug)
      BY <2>2, <3>2, <3>4 DEF Steady, QueriesListed
    <3>6. QED
      BY <2>1, <3>2, <3>3, <3>5
  <2>7. /\ ListsGrow' /\ MessagesExist' /\ AnswersListed'
        /\ Coming \subseteq Coming'
    BY <1>0, <2>1, <2>3, <2>4, <2>5, <2>6, SentListed
  <2>8. QueriesExist'
    BY <2>1 DEF Steady, QueriesExist
  <2>9. QueriesListed'
    <3>1. SUFFICES ASSUME NEW i \in 1..Len(queue), queue[i].of \in Lists,
                          i > 1, NEW p, p = queue[i].slug, p \notin printers_,
                          ~Announced(p)'
                   PROVE  \E j \in 1..Len(queue) :
                            j < i /\ j > 1 /\ queue[j] = PrintersQuery
      BY <2>1 DEF QueriesListed, Open, Announced
    <3>2. ~Announced(p)
      BY <2>7, <3>1 DEF Announced
    <3>3. PICK j \in 1..Len(queue) :
            j < i /\ Open(j) /\ queue[j] = PrintersQuery
      BY <3>1, <3>2 DEF Steady, QueriesListed, Open
    <3>4. j # 1
      <4>1. SUFFICES ASSUME q = PrintersQuery
                     PROVE  FALSE
        BY <2>2, <3>3
      <4>2. queue[i] \in ToSet(queue)
        BY <1>0 DEF ToSet
      <4>3. p \in DOMAIN server
        BY <3>1, <4>2 DEF Steady, QueriesExist
      <4>4. e \in Coming'
        BY <2>4 DEF Coming, Sent
      <4>5. QED
        BY <2>3, <3>1, <4>1, <4>3, <4>4 DEF Announced
    <3>5. QED
      BY <3>3, <3>4
  <2>10. QED
    BY <2>1, <2>7, <2>8, <2>9 DEF Steady
<1>7. CASE ConnectionLost \/ ServerRefuses
  BY <1>0, <1>7 DEF ConnectionLost, ServerRefuses
<1>8. CASE \/ LoggedIn \/ RequestPrinters
           \/ \E k \in Lists, p \in Names : RequestList(k, p)
           \/ Told
  <2>1. UNCHANGED <<printers_, queue, answered, fate, server, wire>>
    BY <1>8 DEF LoggedIn, RequestPrinters, RequestList, Asks, Told, cache
  <2>2. QED
    BY <1>1, <2>1, JobMessage, KindsDiffer
<1>9. QED
  BY <1>2, <1>3, <1>4, <1>5, <1>6, <1>7, <1>8

\* A handler takes a message; a list of printers takes the place of the cache.
LEMMA TakenListed ==
  ASSUME Steady, Taken(wire, wire'), server' = server,
         IF wire[1].of = "printers" THEN printers_' = wire[1].known
                                    ELSE printers_' = printers_
  PROVE  /\ ListsGrow' /\ MessagesExist' /\ AnswersListed'
         /\ printers_ \subseteq printers_'
<1>1. \A i \in 1..Len(wire') :
        /\ wire'[i] = wire[i + 1] /\ i + 1 \in 1..Len(wire)
        /\ i + 1 > 1 /\ 1 < i + 1
  BY DEF Taken
<1>2. 1 \in 1..Len(wire)
  BY DEF Taken
<1>3. printers_ \subseteq printers_' /\ printers_' \subseteq DOMAIN server
  BY <1>2 DEF Steady, ListsGrow
<1>4. ListsGrow'
  <2>1. ASSUME NEW i \in 1..Len(wire'), wire'[i].of = "printers"
        PROVE  /\ printers_' \subseteq wire'[i].known
               /\ wire'[i].known \subseteq DOMAIN server
    BY <1>1, <1>2, <2>1 DEF Steady, ListsGrow
  <2>2. ASSUME NEW i \in 1..Len(wire'), NEW j \in 1..Len(wire'), i < j,
               wire'[i].of = "printers", wire'[j].of = "printers"
        PROVE  wire'[i].known \subseteq wire'[j].known
    <3>1. i + 1 < j + 1
      BY <2>2
    <3>2. QED
      BY <1>1, <2>2, <3>1 DEF Steady, ListsGrow
  <2>3. QED
    BY <1>3, <2>1, <2>2 DEF ListsGrow
<1>5. MessagesExist'
  BY <1>1 DEF Steady, MessagesExist
<1>6. AnswersListed'
  <2>1. SUFFICES ASSUME NEW i \in 1..Len(wire'),
                        wire'[i].of \in Lists, wire'[i].reply,
                        wire'[i].slug \notin printers_'
                 PROVE  \E j \in 1..Len(wire') :
                          /\ j < i /\ wire'[j].of = "printers"
                          /\ wire'[i].slug \in wire'[j].known
    BY DEF AnswersListed
  <2>2. PICK j \in 1..Len(wire) :
          /\ j < i + 1 /\ wire[j].of = "printers"
          /\ wire'[i].slug \in wire[j].known
    BY <1>1, <1>3, <2>1 DEF Steady, AnswersListed
  <2>3. j > 1
    BY <2>1, <2>2
  <2>4. j - 1 \in 1..Len(wire') /\ wire'[j - 1] = wire[j]
    BY <2>3 DEF Taken
  <2>5. j - 1 < i
    BY <2>2
  <2>6. QED
    BY <2>2, <2>4, <2>5
<1>7. QED
  BY <1>3, <1>4, <1>5, <1>6

\* The queries that are still to be answered after a handler: the old ones
\* behind the same ones as before, then the new ones behind all of them.
Requeued(new) ==
  \A i \in 1..Len(queue') : Open(i)' =>
    \/ \E a \in 1..Len(queue) :
         /\ Open(a) /\ queue'[i] = queue[a]
         /\ \A b \in 1..Len(queue) : b < a /\ Open(b) =>
              \E c \in 1..Len(queue') :
                c < i /\ Open(c)' /\ queue'[c] = queue[b]
    \/ /\ queue'[i] \in ToSet(new)
       /\ \A b \in 1..Len(queue) : Open(b) =>
            \E c \in 1..Len(queue') :
              c < i /\ Open(c)' /\ queue'[c] = queue[b]

LEMMA RequeueOrder ==
  ASSUME queue \in Seq(Query), NEW new \in Seq(Query), NEW reply \in BOOLEAN,
         reply => answered /\ queue # <<>>, Requeue(new, reply)
  PROVE  Requeued(new) /\ ToSet(queue') \subseteq ToSet(queue) \cup ToSet(new)
<1> DEFINE all == queue \o new
           n == Len(queue)
           d == IF reply THEN 1 ELSE 0
<1>1. /\ n \in Nat /\ Len(new) \in Nat /\ d \in {0, 1}
      /\ all \in Seq(Query) /\ Len(all) = n + Len(new)
      /\ \A i \in 1..n : all[i] = queue[i]
      /\ \A i \in 1..Len(all) : i > n =>
           i - n \in 1..Len(new) /\ all[i] = new[i - n]
      /\ DOMAIN new = 1..Len(new) /\ DOMAIN queue = 1..n
  OBVIOUS
<1>2. d <= n
  BY <1>1
<1>3. /\ queue' \in Seq(Query)
      /\ Len(queue') = Len(all) - d
      /\ \A i \in 1..Len(queue') : queue'[i] = all[i + d]
  <2>1. CASE reply
    <3>1. queue' = Tail(all) /\ d = 1 /\ all # <<>>
      BY <1>1, <1>2, <2>1 DEF Requeue
    <3> HIDE DEF all, d
    <3>2. QED
      BY <1>1, <3>1, TailParts
  <2>2. CASE ~reply
    <3>1. queue' = all /\ d = 0
      BY <2>2 DEF Requeue
    <3> HIDE DEF all, d
    <3>2. QED
      BY <1>1, <3>1
  <2>3. QED
    BY <2>1, <2>2
<1>4. /\ \A i \in 1..Len(queue') : Open(i)' => Open(i + d)
      /\ \A b \in 1..n : Open(b) => b > d /\ Open(b - d)'
  <2>1. answered' <=> (answered /\ ~reply)
    BY DEF Requeue
  <2>2. CASE reply
    <3>1. d = 1 /\ answered /\ ~answered'
      BY <2>1, <2>2
    <3>2. \A i \in Int : Open(i)' /\ (Open(i) <=> i > 1)
      BY <3>1 DEF Open
    <3>3. \A i \in 1..n : i > 0 /\ i \in Int
      BY <1>1
    <3> HIDE DEF d, n
    <3>4. QED
      BY <1>1, <3>1, <3>2, <3>3
  <2>3. CASE ~reply
    <3>1. d = 0 /\ (answered' <=> answered)
      BY <2>1, <2>3
    <3>2. \A i \in Int : Open(i)' <=> Open(i)
      BY <3>1 DEF Open
    <3> HIDE DEF d, n
    <3>3. QED
      BY <1>1, <3>1, <3>2
  <2>4. QED
    BY <2>2, <2>3
<1>5. \A i \in 1..n : queue[i] \in ToSet(queue)
  BY <1>1 DEF ToSet
<1>6. \A i \in 1..Len(new) : new[i] \in ToSet(new)
  BY <1>1 DEF ToSet
<1> HIDE DEF all, n, d
<1>7. ASSUME NEW b \in 1..n, Open(b)
      PROVE  /\ b - d \in 1..Len(queue') /\ Open(b - d)'
             /\ queue'[b - d] = queue[b]
  <2>1. b > d /\ Open(b - d)'
    BY <1>4, <1>7
  <2>2. b - d \in 1..Len(queue') /\ (b - d) + d = b
    BY <1>1, <1>3, <2>1
  <2>3. QED
    BY <1>1, <1>3, <2>1, <2>2
<1>8. ASSUME NEW i \in 1..Len(queue')
      PROVE  \/ i + d \in 1..n /\ queue'[i] = queue[i + d]
             \/ i + d > n /\ queue'[i] \in ToSet(new)
  <2>1. i + d \in 1..Len(all) /\ queue'[i] = all[i + d]
    BY <1>1, <1>3
  <2>2. CASE i + d > n
    <3>1. i + d - n \in 1..Len(new) /\ all[i + d] = new[i + d - n]
      BY <1>1, <2>1, <2>2
    <3>2. QED
      BY <1>6, <2>1, <2>2, <3>1
  <2>3. CASE ~(i + d > n)
    <3>1. i + d \in 1..n
      BY <1>1, <2>1, <2>3
    <3>2. QED
      BY <1>1, <2>1, <3>1
  <2>4. QED
    BY <2>2, <2>3
<1>9. Requeued(new)
  <2>1. SUFFICES ASSUME NEW i \in 1..Len(queue'), Open(i)'
                 PROVE  \/ \E a \in 1..n :
                             /\ Open(a) /\ queue'[i] = queue[a]
                             /\ \A b \in 1..n : b < a /\ Open(b) =>
                                  \E c \in 1..Len(queue') :
                                    /\ c < i /\ Open(c)'
                                    /\ queue'[c] = queue[b]
                        \/ /\ queue'[i] \in ToSet(new)
                           /\ \A b \in 1..n : Open(b) =>
                                \E c \in 1..Len(queue') :
                                  c < i /\ Open(c)' /\ queue'[c] = queue[b]
    BY DEF Requeued, n
  <2>2. \A b \in 1..n : b < i + d => b - d < i
    BY <1>1
  <2>3. CASE i + d \in 1..n /\ queue'[i] = queue[i + d]
    <3>1. Open(i + d)
      BY <1>4, <2>1
    <3>2. \A b \in 1..n : b < i + d /\ Open(b) =>
            \E c \in 1..Len(queue') :
              c < i /\ Open(c)' /\ queue'[c] = queue[b]
      BY <1>7, <2>2
    <3>3. QED
      BY <2>3, <3>1, <3>2
  <2>4. CASE i + d > n /\ queue'[i] \in ToSet(new)
    <3>1. \A b \in 1..n : b < i + d
      BY <1>1, <2>4
    <3>2. \A b \in 1..n : Open(b) =>
            \E c \in 1..Len(queue') :
              c < i /\ Open(c)' /\ queue'[c] = queue[b]
      BY <1>7, <2>2, <3>1
    <3>3. QED
      BY <2>4, <3>2
  <2>5. QED
    BY <1>8, <2>3, <2>4
<1>10. ToSet(queue') \subseteq ToSet(queue) \cup ToSet(new)
  <2>1. DOMAIN queue' = 1..Len(queue')
    BY <1>3
  <2>2. \A i \in 1..Len(queue') : queue'[i] \in ToSet(queue) \cup ToSet(new)
    BY <1>5, <1>8
  <2>3. QED
    BY <2>1, <2>2 DEF ToSet
<1>11. QED
  BY <1>9, <1>10

\* A handler, whose new queries are about printers that are in the cache, or
\* announced, or after a query for the printers.
LEMMA HandlerSteady ==
  ASSUME IInv, Steady, wire # <<>>, fate' = "running", server' = server,
         IF Head(wire).of = "printers" THEN printers_' = Head(wire).known
                                       ELSE printers_' = printers_,
         NEW new \in Seq(Query), Requeue(new, Head(wire).reply),
         \A q \in ToSet(new) : q.of \in Lists =>
           /\ q.slug \in DOMAIN server
           /\ \/ q.slug \in printers_'
              \/ Announced(q.slug)'
              \/ PrintersQuery \in Unanswered
  PROVE  Steady'
<1>1. /\ wire \in Seq(Message) /\ queue \in Seq(Query) /\ wire' = Tail(wire)
  BY DEF IInv, TypeOK, Requeue
<1>2. /\ Taken(wire, wire') /\ Head(wire) = wire[1]
      /\ Head(wire) \in Message
  BY <1>1, TakenParts
<1>3. Head(wire).reply \in BOOLEAN
      /\ (Head(wire).reply => answered /\ queue # <<>>)
  <2>1. 1 \in 1..Len(wire)
    BY <1>2 DEF Taken
  <2>2. Head(wire).reply \in BOOLEAN
    BY <1>2, MessageType
  <2>3. QED
    BY <1>2, <2>1, <2>2 DEF IInv, Replies, Steady
<1>4. Requeued(new) /\ ToSet(queue') \subseteq ToSet(queue) \cup ToSet(new)
  BY <1>1, <1>3, RequeueOrder
<1>5. /\ ListsGrow' /\ MessagesExist' /\ AnswersListed'
      /\ printers_ \subseteq printers_'
  BY <1>2, TakenListed
<1>6. QueriesExist'
  BY <1>4 DEF Steady, QueriesExist
<1>7. \A p : Announced(p) => p \in printers_' \/ Announced(p)'
  <2>1. Coming = {Head(wire)} \cup Coming'
    BY <1>2 DEF Coming, Taken
  <2>2. QED
    BY <2>1 DEF Announced
<1>8. PrintersQuery \in Unanswered =>
        \E b \in 1..Len(queue) : Open(b) /\ queue[b] = PrintersQuery
  <2>1. SUFFICES ASSUME PrintersQuery \in Unanswered
                 PROVE  \E b \in 1..Len(queue) :
                          Open(b) /\ queue[b] = PrintersQuery
    OBVIOUS
  <2>2. CASE ~answered
    <3>1. PrintersQuery \in ToSet(queue)
      BY <2>1, <2>2 DEF Unanswered
    <3>2. QED
      BY <1>1, <2>2, <3>1 DEF ToSet, Open
  <2>3. CASE answered
    <3>1. queue # <<>>
      BY <2>3 DEF IInv, Replies, Steady
    <3>2. /\ Len(queue) \in Nat /\ Tail(queue) \in Seq(Query)
          /\ Len(Tail(queue)) = Len(queue) - 1
          /\ \A i \in 1..Len(Tail(queue)) : Tail(queue)[i] = queue[i + 1]
      BY <1>1, <3>1, TailParts
    <3>3. PICK i \in 1..Len(Tail(queue)) : Tail(queue)[i] = PrintersQuery
      BY <2>1, <2>3, <3>2 DEF Unanswered, ToSet
    <3>4. i + 1 \in 1..Len(queue) /\ i + 1 > 1
      BY <3>2, <3>3
    <3>5. QED
      BY <3>2, <3>3, <3>4 DEF Open
  <2>4. QED
    BY <2>2, <2>3
<1>9. QueriesListed'
  <2>1. SUFFICES ASSUME NEW i \in 1..Len(queue'), queue'[i].of \in Lists,
                        Open(i)', NEW p, p = queue'[i].slug,
                        p \notin printers_', ~Announced(p)'
                 PROVE  \E j \in 1..Len(queue') :
                          j < i /\ Open(j)' /\ queue'[j] = PrintersQuery
    BY DEF QueriesListed, Announced
  <2>2. CASE \E a \in 1..Len(queue) :
               /\ Open(a) /\ queue'[i] = queue[a]
               /\ \A b \in 1..Len(queue) : b < a /\ Open(b) =>
                    \E c \in 1..Len(queue') :
                      c < i /\ Open(c)' /\ queue'[c] = queue[b]
    <3>1. PICK a \in 1..Len(queue) :
            /\ Open(a) /\ queue'[i] = queue[a]
            /\ \A b \in 1..Len(queue) : b < a /\ Open(b) =>
                 \E c \in 1..Len(queue') :
                   c < i /\ Open(c)' /\ queue'[c] = queue[b]
      BY <2>2
    <3>2. p \notin printers_ /\ ~Announced(p)
      BY <1>5, <1>7, <2>1
    <3>3. queue[a].of \in Lists /\ queue[a].slug = p
      BY <2>1, <3>1
    <3>4. PICK b \in 1..Len(queue) :
            b < a /\ Open(b) /\ queue[b] = PrintersQuery
      BY <3>1, <3>2, <3>3 DEF Steady, QueriesListed
    <3>5. QED
      BY <3>1, <3>4
  <2>3. CASE /\ queue'[i] \in ToSet(new)
             /\ \A b \in 1..Len(queue) : Open(b) =>
                  \E c \in 1..Len(queue') :
                    c < i /\ Open(c)' /\ queue'[c] = queue[b]
    <3>1. PICK q \in ToSet(new) : q = queue'[i]
      BY <2>3
    <3>2. q.of \in Lists /\ q.slug = p
      BY <2>1, <3>1
    <3>3. \/ p \in printers_' \/ Announced(p)'
          \/ PrintersQuery \in Unanswered
      BY <3>1, <3>2 DEF Announced
    <3>4. PICK b \in 1..Len(queue) : Open(b) /\ queue[b] = PrintersQuery
      BY <1>8, <2>1, <3>3
    <3>5. QED
      BY <2>3, <3>4
  <2>4. QED
    BY <1>4, <2>1, <2>2, <2>3 DEF Requeued
<1>10. QED
  BY <1>5, <1>6, <1>9 DEF Steady

LEMMA NextSteady ==
  ASSUME ~Removals, Plain, IInv, Steady, losses' = 0, Noticed, [Next]_vars
  PROVE  Steady'
<1>1. wire \in Seq(Message)
  BY DEF IInv, TypeOK
<1>2. CASE \/ \E p \in Slugs, k \in Lists : ListChanges(k, p)
           \/ \E p \in Slugs : PrinterAppears(p) \/ PrinterDisappears(p)
           \/ JobFinishes
           \/ ServerAnswers
           \/ ServerRefuses
           \/ ConnectionLost
           \/ LoggedIn
           \/ RequestPrinters
           \/ \E k \in Lists, p \in Names : RequestList(k, p)
           \/ Told
  BY <1>2, ServerSteady
<1>3. ASSUME NEW reply \in BOOLEAN, HandlePrinters(reply) PROVE Steady'
  <2> DEFINE known == Converted(Head(wire).known)
  <2>1. /\ wire # <<>> /\ Head(wire).of = "printers"
        /\ Head(wire).reply = reply /\ printers_' = known
        /\ Requeue(Refresh(known), reply) /\ UNCHANGED <<server, fate>>
    BY <1>3 DEF HandlePrinters, Receives
  <2>2. Head(wire) = wire[1] /\ Head(wire) \in Message /\ 1 \in 1..Len(wire)
    BY <1>1, <2>1, TailParts
  <2>3. /\ known = Head(wire).known /\ known \subseteq DOMAIN server
        /\ known \in SUBSET Slugs /\ known \in SUBSET Names
    <3>1. /\ Head(wire).known \in SUBSET Slugs
          /\ Head(wire).known \subseteq DOMAIN server
      BY <2>1, <2>2, MessageType DEF Steady, ListsGrow
    <3>2. QED
      BY <3>1, PlainNames
  <2> HIDE DEF known
  <2>4. /\ Refresh(known) \in Seq(Query)
        /\ \A q \in ToSet(Refresh(known)) : q.slug \in known
    BY <2>3, RefreshQueries, RefreshAbout
  <2>5. fate' = "running"
    BY <2>1 DEF Steady
  <2>6. QED
    BY <2>1, <2>3, <2>4, <2>5, HandlerSteady
<1>4. CASE HandleList
  <2>1. /\ wire # <<>> /\ Head(wire).of \in Lists /\ Head(wire).reply = TRUE
        /\ Requeue(<<>>, TRUE) /\ UNCHANGED <<printers_, server, fate>>
    BY <1>4 DEF HandleList, Receives
  <2>2. <<>> \in Seq(Query) /\ ToSet(<<>>) = {}
    BY DEF ToSet
  <2>3. Requeue(<<>>, Head(wire).reply) /\ Head(wire).of # "printers"
    BY <2>1, KindsDiffer
  <2>4. fate' = "running"
    BY <2>1 DEF Steady
  <2>5. QED
    BY <2>1, <2>2, <2>3, <2>4, HandlerSteady
<1>5. CASE HandleUnknownPrinter
  <2>1. /\ wire # <<>> /\ Head(wire).of \in Lists /\ Head(wire).reply
        /\ Head(wire).slug \notin printers_
    BY <1>5 DEF HandleUnknownPrinter, Receives, IInv, TypeOK
  <2>2. Head(wire) = wire[1] /\ 1 \in 1..Len(wire)
    BY <1>1, <2>1, TailParts
  <2>3. FALSE
    BY <2>1, <2>2 DEF Steady, AnswersListed
  <2>4. QED
    BY <2>3
<1>6. CASE HandleListEvent
  <2> DEFINE m == Head(wire)
  <2>0. PICK q : q = ListQuery(m.of, m.slug)
    OBVIOUS
  <2>1. /\ wire # <<>> /\ m.of \in Lists /\ m.reply = FALSE
        /\ Requeue(<<q>>, FALSE)
        /\ UNCHANGED <<printers_, server, fate>>
    BY <1>6, <2>0 DEF HandleListEvent, Receives, cache
  <2>2. /\ m = wire[1] /\ m \in Message /\ 1 \in 1..Len(wire)
        /\ Coming = {m} \cup Coming'
    <3>1. m = wire[1] /\ m \in Message /\ 1 \in 1..Len(wire)
      BY <1>1, <2>1, TailParts
    <3>2. wire' = Tail(wire)
      BY <2>1 DEF Requeue
    <3>3. QED
      BY <1>1, <2>1, <3>1, <3>2, TailParts DEF Coming
  <2>3. /\ m.slug \in Slugs /\ m.slug \in DOMAIN server
        /\ m.of # "printers"
    BY <2>1, <2>2, MessageType, KindsDiffer DEF Steady, MessagesExist
  <2>4. /\ q \in Query /\ q.slug = m.slug
        /\ <<q>> \in Seq(Query) /\ ToSet(<<q>>) = {q}
    BY <2>0, <2>1, <2>3 DEF Query, ListQuery, ToSet, Names
  <2> HIDE DEF m
  <2>9. PICK p : p = m.slug
    OBVIOUS
  <2>5. \/ p \in printers_
        \/ Announced(p)
        \/ PrintersQuery \in Unanswered
    <3>1. StaleIsNoticed /\ p \in DOMAIN server
      BY <2>3, <2>9 DEF Noticed
    <3>2. ToUtf8[p] = p
      BY <2>3, <2>9 DEF Plain
    <3>3. QED
      BY <3>1, <3>2 DEF StaleIsNoticed, Announced
  <2>6. Announced(p) => Announced(p)'
    BY <2>2, <2>3 DEF Announced
  <2>7. fate' = "running" /\ Requeue(<<q>>, m.reply)
    BY <2>1 DEF Steady
  <2>8. \A r \in ToSet(<<q>>) :
          /\ r.slug \in DOMAIN server
          /\ r.slug \in printers_' \/ Announced(r.slug)'
               \/ PrintersQuery \in Unanswered
    <3>1. \A r \in ToSet(<<q>>) : r.slug = p
      BY <2>4, <2>9
    <3>2. p \in DOMAIN server /\ printers_' = printers_
      BY <2>1, <2>3, <2>9
    <3>3. QED
      BY <2>5, <2>6, <3>1, <3>2 DEF Announced
  <2>10. wire # <<>> /\ server' = server /\ printers_' = printers_
    BY <2>1
  <2>11. QED
    BY <2>3, <2>4, <2>7, <2>8, <2>10, HandlerSteady DEF m
<1>7. CASE HandleJobFinished
  <2>1. /\ wire # <<>> /\ Head(wire).of = "job" /\ Head(wire).reply = FALSE
        /\ Requeue(<<PrintersQuery>>, FALSE)
        /\ UNCHANGED <<printers_, server, fate>>
    BY <1>7 DEF HandleJobFinished, Receives, cache
  <2>2. /\ <<PrintersQuery>> \in Seq(Query)
        /\ ToSet(<<PrintersQuery>>) = {PrintersQuery}
        /\ PrintersQuery.of \notin Lists
    BY KindsDiffer DEF ToSet, Query, PrintersQuery
  <2>3. fate' = "running" /\ Requeue(<<PrintersQuery>>, Head(wire).reply)
    BY <2>1 DEF Steady
  <2>4. QED
    BY <2>1, <2>2, <2>3, HandlerSteady
<1>8. CASE UNCHANGED vars
  <2>1. UNCHANGED <<printers_, queue, answered, fate, server, wire>>
    BY <1>8 DEF vars, cache
  <2>2. /\ ListsGrow' /\ MessagesExist' /\ AnswersListed'
        /\ Coming \subseteq Coming'
    BY <1>1, <2>1, JobMessage, KindsDiffer, SentListed
  <2>3. QueriesExist' /\ QueriesListed'
    BY <2>1, <2>2, SameQueue
  <2>4. QED
    BY <2>1, <2>2, <2>3 DEF Steady
<1>9. CASE HandleRefusal
  <2>1. /\ wire # <<>> /\ Head(wire).of = "refusal" /\ losses' = losses
    BY <1>9 DEF HandleRefusal, Receives
  <2>2. Head(wire) = wire[1] /\ 1 \in 1..Len(wire)
    BY <1>1, <2>1, TailParts
  <2>3. losses # 0
    BY <2>1, <2>2 DEF IInv, Replies
  <2>4. QED
    BY <2>1, <2>3
<1>10. QED
  BY <1>2, <1>3, <1>4, <1>5, <1>6, <1>7, <1>8, <1>9 DEF Next, HandleMessage

\* While the first connection lasts, the server loses no printer, and the
\* conversion changes no slug, the printer of every answer is in the cache:
\* at() does not throw, whatever is added and changed, and whatever was asked
\* before the first list came.  Each of the three is needed.
THEOREM AnswersExpected ==
  ASSUME ~Removals, \A p \in Slugs : ToUtf8[p] = p
  PROVE  Spec => [](losses = 0 => AnswersFindTheirPrinter)
<1> DEFINE Calm == losses = 0 => Steady
<1>0. Plain
  BY DEF Plain
<1>1. Init => Calm
  BY InitSteady
<1>2. IInv /\ IInv' /\ Calm /\ [Next]_vars => Calm'
  <2>1. SUFFICES ASSUME IInv, Calm, [Next]_vars, losses' = 0
                 PROVE  Steady'
    OBVIOUS
  <2>2. losses' = losses \/ losses' = losses + 1
    BY <2>1
      DEF Next, ListChanges, PrinterAppears, PrinterDisappears, JobFinishes,
          Change, ServerAnswers, ServerRefuses, ConnectionLost, LoggedIn,
          RequestPrinters, RequestList, Asks, Told, HandleMessage,
          HandlePrinters, HandleList, HandleUnknownPrinter, HandleRefusal,
          HandleListEvent, HandleJobFinished, vars
  <2>3. losses \in Nat
    BY <2>1 DEF IInv, TypeOK
  <2>4. losses = 0
    BY <2>1, <2>2, <2>3
  <2>5. Noticed
    BY <2>1, <2>4 DEF IInv
  <2>6. QED
    BY <1>0, <2>1, <2>4, <2>5, NextSteady
<1>3. Calm => (losses = 0 => AnswersFindTheirPrinter)
  BY DEF Steady, AnswersFindTheirPrinter
<1> HIDE DEF Calm
<1>4. Spec => []Calm
  BY <1>1, <1>2, Invariance, PTL DEF Spec
<1>5. QED
  BY <1>3, <1>4, PTL
=============================================================================
