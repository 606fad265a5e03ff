----------------------------- MODULE UploadProofs -----------------------------
(***************************************************************************)
(* Proofs about Upload, for every set of fields and files of every length: *)
(* get() hands out the body in order, and success means all of it.         *)
(***************************************************************************)
EXTENDS Upload, SequenceTheorems, FiniteSetTheorems, FunctionTheorems, TLAPS

\* The parts that were handed out are the first ones of the body.
Same ==
  /\ Len(body) <= Len(WholeBody)
  /\ \A i \in 1..Len(body) : body[i] = WholeBody[i]

\* How many they are follows from the writer's cursors, unless a read error
\* ended the upload in the middle of the file.
Counted ==
  /\ state = 0 => Len(body) = field /\ block = 0
  /\ state = 2 => field = Len(fields) /\ Len(body) = Len(fields) + 1 + block
  /\ state = 3 => phase \in {"reading", "ended"}

\* The response is awaited when everything was handed out.
Complete ==
  phase = "reading" \/ result = "ok" => Len(body) = Len(WholeBody)

Progress ==
  /\ phase # "ended" => result = "none"
  /\ phase = "reading" => state = 3

IInv == TypeOK /\ Same /\ Counted /\ Complete /\ Progress

-----------------------------------------------------------------------------
(***************************************************************************)
(* The whole body, part by part.                                           *)
(***************************************************************************)

\* A function on 1..n is a sequence of that length.
LEMMA FunctionAsSeq ==
  ASSUME NEW n \in Nat, NEW S, NEW f \in [1..n -> S]
  PROVE  f \in Seq(S) /\ Len(f) = n
<1>1. f \in Seq(S)
  BY SeqDef
<1>2. Len(f) \in Nat /\ 1..Len(f) = 1..n
  BY <1>1
<1>3. \A i \in Nat : i \in 1..Len(f) <=> i \in 1..n
  BY <1>2
<1>4. /\ Len(f) \in 1..Len(f) <=> Len(f) \in 1..n
      /\ n \in 1..Len(f) <=> n \in 1..n
  BY <1>2, <1>3
<1>5. QED
  BY <1>1, <1>2, <1>4

LEMMA FieldsType ==
  ASSUME fields \in SetToSeqs(Fields)
  PROVE  /\ fields \in Seq(Fields)
         /\ Len(fields) \in Nat /\ Len(fields) = Cardinality(Fields)
         /\ \A i \in 1..Len(fields) : fields[i] \in Fields
         /\ \A i, j \in 1..Len(fields) : i # j => fields[i] # fields[j]
<1>1. Cardinality(Fields) \in Nat
  BY FS_CardinalityType, UploadAssumption
<1>2. /\ fields \in [1..Cardinality(Fields) -> Fields]
      /\ \A i, j \in 1..Cardinality(Fields) : i # j => fields[i] # fields[j]
  BY DEF SetToSeqs
<1>3. fields \in Seq(Fields) /\ Len(fields) = Cardinality(Fields)
  BY <1>1, <1>2, FunctionAsSeq
<1>4. QED
  BY <1>1, <1>2, <1>3

\* Where the elements of four sequences are in their concatenation s.
InARow(s, a, b, c, d) ==
  /\ Len(s) = Len(a) + Len(b) + Len(c) + Len(d)
  /\ \A i \in 1..Len(a) : s[i] = a[i]
  /\ \A i \in 1..Len(b) : s[Len(a) + i] = b[i]
  /\ \A i \in 1..Len(c) : s[Len(a) + Len(b) + i] = c[i]
  /\ \A i \in 1..Len(d) : s[Len(a) + Len(b) + Len(c) + i] = d[i]

LEMMA FourInARow ==
  ASSUME NEW S, NEW a \in Seq(S), NEW b \in Seq(S), NEW c \in Seq(S),
         NEW d \in Seq(S)
  PROVE  a \o b \o c \o d \in Seq(S) /\ InARow(a \o b \o c \o d, a, b, c, d)
BY DEF InARow

LEMMA PartTypes ==
  /\ \A f \in Fields : FieldPart(f) \in Part
  /\ FilePart \in Part /\ EndPart \in Part
  /\ \A n \in 1..MaxBlocks : BlockPart(n) \in Part
BY DEF Part

LEMMA Parts ==
  ASSUME TypeOK
  PROVE  /\ WholeBody \in Seq(Part)
         /\ Len(WholeBody) = Len(fields) + 1 + blocks + 1
         /\ \A i \in 1..Len(fields) : WholeBody[i] = FieldPart(fields[i])
         /\ WholeBody[Len(fields) + 1] = FilePart
         /\ \A n \in 1..blocks : WholeBody[Len(fields) + 1 + n] = BlockPart(n)
         /\ WholeBody[Len(fields) + 1 + blocks + 1] = EndPart
<1> DEFINE F == Len(fields)
           a == [i \in 1..Len(fields) |-> FieldPart(fields[i])]
           b == <<FilePart>>
           c == [n \in 1..blocks |-> BlockPart(n)]
           d == <<EndPart>>
<1>1. F \in Nat /\ \A i \in 1..F : fields[i] \in Fields
  BY FieldsType DEF TypeOK
<1>2. blocks \in Nat /\ \A n \in 1..blocks : n \in 1..MaxBlocks
  BY UploadAssumption DEF TypeOK
<1>3. /\ a \in Seq(Part) /\ Len(a) = F
      /\ \A i \in 1..F : a[i] = FieldPart(fields[i])
  <2>1. a \in [1..F -> Part]
    BY <1>1, PartTypes
  <2>2. \A i \in 1..F : a[i] = FieldPart(fields[i])
    OBVIOUS
  <2> HIDE DEF a, F
  <2>3. QED
    BY <1>1, <2>1, <2>2, FunctionAsSeq
<1>4. /\ c \in Seq(Part) /\ Len(c) = blocks
      /\ \A n \in 1..blocks : c[n] = BlockPart(n)
  <2>1. c \in [1..blocks -> Part]
    BY <1>2, PartTypes
  <2>2. \A n \in 1..blocks : c[n] = BlockPart(n)
    OBVIOUS
  <2> HIDE DEF c
  <2>3. QED
    BY <1>2, <2>1, <2>2, FunctionAsSeq
<1>5. /\ b \in Seq(Part) /\ Len(b) = 1 /\ b[1] = FilePart
      /\ d \in Seq(Part) /\ Len(d) = 1 /\ d[1] = EndPart
  BY PartTypes
<1>6. WholeBody = a \o b \o c \o d
  BY DEF WholeBody
<1> HIDE DEF a, b, c, d, F
<1>7. /\ WholeBody \in Seq(Part)
      /\ Len(WholeBody) = F + 1 + blocks + 1
      /\ \A i \in 1..F : WholeBody[i] = a[i]
      /\ \A i \in 1..1 : WholeBody[F + i] = b[i]
      /\ \A i \in 1..blocks : WholeBody[F + 1 + i] = c[i]
      /\ \A i \in 1..1 : WholeBody[F + 1 + blocks + i] = d[i]
  <2>1. /\ a \in Seq(Part) /\ b \in Seq(Part)
        /\ c \in Seq(Part) /\ d \in Seq(Part)
    BY <1>3, <1>4, <1>5
  <2>2. WholeBody \in Seq(Part) /\ InARow(WholeBody, a, b, c, d)
    BY <1>6, <2>1, FourInARow, Zenon
  <2>3. Len(a) = F /\ Len(b) = 1 /\ Len(c) = blocks /\ Len(d) = 1
    BY <1>3, <1>4, <1>5
  <2>4. QED
    BY <2>2, <2>3 DEF InARow
<1>8. WholeBody[F + 1] = FilePart /\ WholeBody[F + 1 + blocks + 1] = EndPart
  BY <1>5, <1>7
<1>9. QED
  BY <1>3, <1>4, <1>7, <1>8 DEF F

-----------------------------------------------------------------------------
LEMMA InitIInv == Init => IInv
<1> SUFFICES ASSUME Init PROVE IInv
  OBVIOUS
<1>1. Len(fields) \in Nat
  BY FieldsType DEF Init
<1>2. blocks \in Nat /\ MaxBlocks \in Nat
  BY UploadAssumption DEF Init
<1>3. body = <<>> /\ body \in Seq(Part) /\ Len(body) = 0
  BY EmptySeq DEF Init
<1>4. TypeOK
  BY <1>1, <1>2, <1>3 DEF Init, TypeOK, Phases, Results
<1>5. Same
  <2>1. Len(WholeBody) \in Nat
    BY <1>4, Parts, LenProperties
  <2>2. \A i \in 1..Len(body) : FALSE
    BY <1>3
  <2>3. QED
    BY <1>3, <2>1, <2>2 DEF Same
<1>6. Counted /\ Complete /\ Progress
  BY <1>3 DEF Init, Counted, Complete, Progress
<1>7. QED
  BY <1>4, <1>5, <1>6 DEF IInv

\* Steps that hand out nothing.
LEMMA AsideStep ==
  ASSUME IInv, UNCHANGED <<file, body>>,
         \/ UNCHANGED writer /\ phase # "reading"
              /\ phase' \in {"connecting", "writing", "undefined"}
              /\ UNCHANGED <<result, runs>>
         \/ state' \in {state, 3} /\ UNCHANGED <<field, block>>
              /\ phase' = "ended" /\ runs' = runs + 1
              /\ \/ result' \in {"system", "server_error"}
                 \/ result' = "ok" /\ phase = "reading",
         Running
  PROVE  IInv'
<1> USE DEF IInv
<1>1. TypeOK'
  BY DEF TypeOK, file, writer, Phases, Results, Running
<1>2. Same'
  BY DEF Same, WholeBody, file
<1>3. WholeBody' = WholeBody /\ fields' = fields
  BY DEF WholeBody, file
<1>4. Counted' /\ Progress'
  BY <1>3 DEF Counted, Progress, writer, Running
<1>5. Complete'
  BY <1>3 DEF Complete, Progress, Running
<1>6. QED
  BY <1>1, <1>2, <1>4, <1>5

\* The next part of the body is handed out.
LEMMA AppendedIsNext ==
  ASSUME IInv, NEW p \in Part, body' = Append(body, p), UNCHANGED file,
         Len(body) < Len(WholeBody), p = WholeBody[Len(body) + 1]
  PROVE  /\ body' \in Seq(Part) /\ Same'
         /\ Len(body') = Len(body) + 1
         /\ WholeBody' = WholeBody
<1>1. /\ body \in Seq(Part) /\ Len(body) \in Nat
      /\ Len(WholeBody) \in Nat
  BY Parts, LenProperties DEF IInv, TypeOK
<1>2. WholeBody' = WholeBody
  BY DEF WholeBody, file
<1>3. /\ body' \in Seq(Part) /\ Len(body') = Len(body) + 1
      /\ \A i \in 1..Len(body) : body'[i] = body[i]
      /\ body'[Len(body) + 1] = p
  BY <1>1
<1>4. \A i \in 1..Len(body') : i \in 1..Len(body) \/ i = Len(body) + 1
  BY <1>1, <1>3
<1>5. Same'
  BY <1>1, <1>2, <1>3, <1>4 DEF IInv, Same
<1>6. QED
  BY <1>2, <1>3, <1>5

LEMMA GetFieldStep ==
  ASSUME IInv, GetField
  PROVE  IInv'
<1>1. /\ Len(fields) \in Nat /\ field \in Nat /\ field < Len(fields)
      /\ blocks \in Nat /\ Len(body) = field /\ block = 0
      /\ field + 1 \in 1..Len(fields) /\ fields[field + 1] \in Fields
      /\ state = 0 /\ phase = "writing" /\ TypeOK
  BY FieldsType DEF IInv, TypeOK, GetField, Get, Counted
<1>2. FieldPart(fields[field + 1]) \in Part
  BY <1>1, PartTypes
<1>3. /\ Len(body) < Len(WholeBody)
      /\ FieldPart(fields[field + 1]) = WholeBody[Len(body) + 1]
  BY <1>1, Parts
<1>4. /\ body' = Append(body, FieldPart(fields[field + 1]))
      /\ field' = field + 1
      /\ UNCHANGED <<file, phase, state, block, result, runs>>
  BY DEF GetField
<1>5. /\ body' \in Seq(Part) /\ Same' /\ Len(body') = field + 1
  BY <1>1, <1>2, <1>3, <1>4, AppendedIsNext
<1>6. TypeOK'
  BY <1>1, <1>4, <1>5 DEF TypeOK, file
<1>7. Counted' /\ Complete' /\ Progress'
  BY <1>1, <1>4, <1>5 DEF IInv, Counted, Complete, Progress, file
<1>8. QED
  BY <1>5, <1>6, <1>7 DEF IInv

LEMMA GetFilePartStep ==
  ASSUME IInv, GetFilePart
  PROVE  IInv'
<1>1. /\ Len(fields) \in Nat /\ field = Len(fields)
      /\ blocks \in Nat /\ Len(body) = field /\ block = 0
      /\ state = 0 /\ phase = "writing" /\ TypeOK
  BY FieldsType DEF IInv, TypeOK, GetFilePart, Get, Counted
<1>2. /\ Len(body) < Len(WholeBody) /\ FilePart = WholeBody[Len(body) + 1]
  BY <1>1, Parts
<1>3. /\ body' = Append(body, FilePart) /\ state' = 2
      /\ UNCHANGED <<file, phase, field, block, result, runs>>
  BY DEF GetFilePart
<1>4. body' \in Seq(Part) /\ Same' /\ Len(body') = Len(fields) + 1
  BY <1>1, <1>2, <1>3, PartTypes, AppendedIsNext
<1>5. TypeOK'
  BY <1>3, <1>4 DEF IInv, TypeOK, file
<1>6. Counted' /\ Complete' /\ Progress'
  BY <1>1, <1>3, <1>4 DEF IInv, Counted, Complete, Progress, file
<1>7. QED
  BY <1>4, <1>5, <1>6 DEF IInv

LEMMA GetBlockStep ==
  ASSUME IInv, GetBlock
  PROVE  IInv'
<1>1. /\ Len(fields) \in Nat /\ blocks \in Nat
      /\ block \in Nat /\ block < blocks /\ block + 1 \in 1..blocks
      /\ Len(body) = Len(fields) + 1 + block
      /\ block + 1 \in 1..MaxBlocks
      /\ state = 2 /\ phase = "writing" /\ TypeOK
  BY FieldsType, UploadAssumption DEF IInv, TypeOK, GetBlock, Get, Counted
<1>2. /\ Len(body) < Len(WholeBody)
      /\ BlockPart(block + 1) = WholeBody[Len(body) + 1]
  <2>1. /\ Len(WholeBody) = Len(fields) + 1 + blocks + 1
        /\ BlockPart(block + 1) = WholeBody[Len(fields) + 1 + (block + 1)]
    BY <1>1, Parts
  <2>2. Len(body) + 1 = Len(fields) + 1 + (block + 1)
    BY <1>1
  <2>3. Len(body) < Len(fields) + 1 + blocks + 1
    BY <1>1
  <2>4. QED
    BY <2>1, <2>2, <2>3
<1>3. /\ body' = Append(body, BlockPart(block + 1)) /\ block' = block + 1
      /\ UNCHANGED <<file, phase, state, field, result, runs>>
  BY DEF GetBlock
<1>4. /\ body' \in Seq(Part) /\ Same' /\ Len(body') = Len(body) + 1
  BY <1>1, <1>2, <1>3, PartTypes, AppendedIsNext
<1>5. TypeOK'
  BY <1>1, <1>3, <1>4 DEF TypeOK, file
<1>6. Counted' /\ Complete' /\ Progress'
  BY <1>1, <1>3, <1>4 DEF IInv, Counted, Complete, Progress, file
<1>7. QED
  BY <1>4, <1>5, <1>6 DEF IInv

LEMMA GetEndStep ==
  ASSUME IInv, GetEnd
  PROVE  IInv'
<1>1. /\ Len(fields) \in Nat /\ blocks \in Nat /\ block = blocks
      /\ Len(body) = Len(fields) + 1 + blocks
      /\ state = 2 /\ phase = "writing" /\ TypeOK
  BY FieldsType, UploadAssumption DEF IInv, TypeOK, GetEnd, Get, Counted
<1>2. /\ Len(body) < Len(WholeBody) /\ EndPart = WholeBody[Len(body) + 1]
      /\ Len(body) + 1 = Len(WholeBody)
  <2>1. /\ Len(WholeBody) = Len(fields) + 1 + blocks + 1
        /\ EndPart = WholeBody[Len(fields) + 1 + blocks + 1]
    BY <1>1, Parts
  <2>2. QED
    BY <1>1, <2>1
<1>3. /\ body' = Append(body, EndPart) /\ state' = 3 /\ phase' = "reading"
      /\ UNCHANGED <<file, field, block, result, runs>>
  BY DEF GetEnd
<1>4. /\ body' \in Seq(Part) /\ Same' /\ Len(body') = Len(body) + 1
      /\ WholeBody' = WholeBody
  BY <1>2, <1>3, PartTypes, AppendedIsNext
<1>5. TypeOK'
  BY <1>1, <1>3, <1>4 DEF TypeOK, file, Phases
<1>6. Counted' /\ Complete' /\ Progress'
  BY <1>1, <1>2, <1>3, <1>4 DEF IInv, Counted, Complete, Progress, file
<1>7. QED
  BY <1>4, <1>5, <1>6 DEF IInv

LEMMA NextIInv == IInv /\ [Next]_vars => IInv'
<1> SUFFICES ASSUME IInv, [Next]_vars PROVE IInv'
  OBVIOUS
<1>1. CASE UNCHANGED vars
  BY <1>1 DEF vars, IInv, TypeOK, Same, Counted, Complete, Progress, WholeBody
<1>2. CASE Resolve \/ Connect \/ SystemError \/ GetFails
             \/ GetFieldUndefined
             \/ \E ok \in BOOLEAN : Respond(ok)
  <2>1. CASE Resolve \/ Connect
    BY <2>1, AsideStep DEF Resolve, Connect, Running
  <2>2. CASE SystemError
    BY <2>2, AsideStep DEF SystemError, Finish, writer
  <2>3. CASE GetFails
    BY <2>3, AsideStep DEF GetFails, Finish, Get, Running
  <2>4. ASSUME NEW ok \in BOOLEAN, Respond(ok) PROVE IInv'
    BY <2>4, AsideStep DEF Respond, Finish, writer, Running
  <2>5. CASE GetFieldUndefined
    BY <2>5, AsideStep DEF GetFieldUndefined, Get, Running
  <2>6. QED
    BY <1>2, <2>1, <2>2, <2>3, <2>4, <2>5
<1>3. CASE GetField \/ GetFilePart \/ GetBlock \/ GetEnd
  BY <1>3, GetFieldStep, GetFilePartStep, GetBlockStep, GetEndStep
<1>4. QED
  BY <1>1, <1>2, <1>3 DEF Next

\* The invariant from which the following are concluded.
THEOREM Invariance == Spec => []IInv
<1>1. Init => IInv
  BY InitIInv
<1>2. IInv /\ [Next]_vars => IInv'
  BY NextIInv
<1>3. QED
  BY <1>1, <1>2, PTL DEF Spec

\* The variables have their types.
THEOREM TypeCorrect == Spec => []TypeOK
<1>1. IInv => TypeOK
  BY DEF IInv
<1>2. QED
  BY <1>1, Invariance, PTL

\* get() hands out nothing but the next part of the body, whatever the order
\* of the fields, the length of the file and the failures.
THEOREM InOrder == Spec => []BodyInOrder
<1>1. IInv => BodyInOrder
  <2>1. SUFFICES ASSUME IInv PROVE BodyInOrder
    OBVIOUS
  <2>2. /\ body \in Seq(Part) /\ WholeBody \in Seq(Part)
        /\ Len(body) \in Nat /\ Len(WholeBody) \in Nat
    BY <2>1, Parts, LenProperties DEF IInv, TypeOK
  <2>3. /\ Len(body) <= Len(WholeBody)
        /\ \A i \in 1..Len(body) : body[i] = WholeBody[i]
    BY <2>1 DEF IInv, Same
  <2> DEFINE s == SubSeq(body, 1, Len(body))
             t == SubSeq(WholeBody, 1, Len(body))
  <2>4. /\ s \in Seq(Part) /\ Len(s) = Len(body)
        /\ \A i \in 1..Len(body) : s[i] = body[i]
    BY <2>2
  <2>5. /\ t \in Seq(Part) /\ Len(t) = Len(body)
        /\ \A i \in 1..Len(body) : t[i] = WholeBody[i]
    BY <2>2, <2>3
  <2>6. s = t
    <3> HIDE DEF s, t
    <3>1. QED
      BY <2>3, <2>4, <2>5, SeqEqual
  <2>7. QED
    BY <2>3, <2>6 DEF BodyInOrder, IsPrefix
<1>2. QED
  BY <1>1, Invariance, PTL

\* Success is reported for whole files only.
THEOREM CompleteOnSuccess == Spec => []SuccessIsComplete
<1>1. IInv => SuccessIsComplete
  <2>1. SUFFICES ASSUME IInv, result = "ok" PROVE body = WholeBody
    BY DEF SuccessIsComplete
  <2>2. body \in Seq(Part) /\ WholeBody \in Seq(Part)
    BY <2>1, Parts DEF IInv, TypeOK
  <2>3. /\ Len(body) = Len(WholeBody)
        /\ \A i \in 1..Len(body) : body[i] = WholeBody[i]
    BY <2>1 DEF IInv, Complete, Same
  <2>4. QED
    BY <2>2, <2>3, SeqEqual
<1>2. QED
  BY <1>1, Invariance, PTL

\* A success tells that every field was sent, and only once.
FieldsSent ==
  result = "ok" =>
    \A f \in Fields : \E i \in DOMAIN body :
      /\ body[i] = FieldPart(f)
      /\ \A j \in DOMAIN body : body[j] = FieldPart(f) => j = i

\* fields_ names every field: as many different ones as there are.
LEMMA EveryField ==
  ASSUME fields \in SetToSeqs(Fields), NEW f \in Fields
  PROVE  \E i \in 1..Len(fields) : fields[i] = f
<1> DEFINE D == 1..Cardinality(Fields)
<1>1. Cardinality(Fields) \in Nat /\ Len(fields) = Cardinality(Fields)
  BY FieldsType
<1>2. fields \in Injection(D, Fields)
  BY DEF SetToSeqs, Injection, IsInjective
<1>3. Cardinality(D) = Cardinality(Fields)
  BY <1>1, FS_Interval
<1> HIDE DEF D
<1>4. fields \in Surjection(D, Fields)
  BY <1>2, <1>3, FS_Injection, UploadAssumption
<1>5. \A t \in Fields : \E i \in D : fields[i] = t
  BY <1>4 DEF Surjection
<1>6. QED
  BY <1>1, <1>5 DEF D

\* Whatever order the iteration of fields_ has, the server gets every field.
THEOREM FieldsSentOnSuccess == Spec => []FieldsSent
<1>1. IInv => FieldsSent
  <2>1. SUFFICES ASSUME IInv, result = "ok", NEW f \in Fields
                 PROVE  \E i \in DOMAIN body :
                          /\ body[i] = FieldPart(f)
                          /\ \A j \in DOMAIN body :
                               body[j] = FieldPart(f) => j = i
    BY DEF FieldsSent
  <2>2. /\ DOMAIN body = 1..Len(WholeBody)
        /\ \A i \in 1..Len(WholeBody) : body[i] = WholeBody[i]
        /\ TypeOK /\ Len(fields) \in Nat /\ blocks \in Nat
    BY <2>1, LenProperties, FieldsType, UploadAssumption
      DEF IInv, Complete, Same, TypeOK
  <2>3. PICK i \in 1..Len(fields) : fields[i] = f
    BY <2>2, EveryField DEF TypeOK
  <2>4. i \in DOMAIN body /\ body[i] = FieldPart(f)
    BY <2>2, <2>3, Parts
  <2>5. ASSUME NEW j \in DOMAIN body, body[j] = FieldPart(f) PROVE j = i
    <3>1. WholeBody[j] = FieldPart(f)
      BY <2>2, <2>5
    <3>2. \/ j \in 1..Len(fields)
          \/ j = Len(fields) + 1
          \/ \E n \in 1..blocks : j = Len(fields) + 1 + n
          \/ j = Len(fields) + 1 + blocks + 1
      <4>1. j \in 1..(Len(fields) + 1 + blocks + 1)
        BY <2>2, <2>5, Parts
      <4>2. j > Len(fields) + 1 /\ j < Len(fields) + 1 + blocks + 1 =>
              j - (Len(fields) + 1) \in 1..blocks
        BY <2>2, <4>1
      <4>3. j - (Len(fields) + 1) \in 1..blocks =>
              \E n \in 1..blocks : j = Len(fields) + 1 + n
        <5>1. j = Len(fields) + 1 + (j - (Len(fields) + 1))
          BY <2>2, <4>1
        <5>2. QED
          BY <5>1
      <4>4. QED
        BY <2>2, <4>1, <4>2, <4>3
    <3>3. CASE j \in 1..Len(fields)
      <4>1. FieldPart(fields[j]) = FieldPart(f)
        BY <2>2, <3>1, <3>3, Parts
      <4>2. fields[j] = f
        BY <4>1 DEF FieldPart
      <4>3. QED
        BY <2>2, <2>3, <3>3, <4>2, FieldsType DEF TypeOK
    <3>4. CASE j = Len(fields) + 1
      BY <2>2, <3>1, <3>4, Parts DEF FilePart, FieldPart
    <3>5. ASSUME NEW n \in 1..blocks, j = Len(fields) + 1 + n PROVE FALSE
      <4>1. WholeBody[Len(fields) + 1 + n] = BlockPart(n)
        BY <2>2, Parts
      <4>2. BlockPart(n) = FieldPart(f)
        BY <3>1, <3>5, <4>1, Zenon
      <4>3. QED
        BY <4>2 DEF BlockPart, FieldPart
    <3>6. CASE j = Len(fields) + 1 + blocks + 1
      BY <2>2, <3>1, <3>6, Parts DEF EndPart, FieldPart
    <3>7. QED
      BY <3>2, <3>3, <3>4, <3>5, <3>6
  <2>6. QED
    BY <2>4, <2>5
<1>2. QED
  BY <1>1, Invariance, PTL
===============================================================================
