----------------------------- MODULE TypesProofs -----------------------------
(***************************************************************************)
(* Lemmas about Types, for every string and number: the conversion of      *)
(* strings keeps what it converts, the one to int keeps what fits, and a   *)
(* decoder yields a value of its class or throws what it may throw.        *)
(***************************************************************************)
EXTENDS Types, SequenceTheorems, WellFoundedInduction, TLAPS

-----------------------------------------------------------------------------
(***************************************************************************)
(* Induction, about sets instead of predicates                             *)
(***************************************************************************)

Less == {p \in Nat \X Nat : p[1] < p[2]}

LEMMA LessWellFounded == IsWellFoundedOn(Less, Nat)
BY NatLessThanWellFounded DEF OpToRel, Less

\* What holds of 0, and of n + 1 if of n, holds of every number.
LEMMA Induction ==
  ASSUME NEW T, 0 \in T, \A n \in Nat : n \in T => n + 1 \in T
  PROVE  Nat \subseteq T
<1> DEFINE Rest == Nat \ T
<1>1. SUFFICES ASSUME Rest # {} PROVE FALSE
  OBVIOUS
<1>2. PICK n \in Rest : \A m \in Rest : <<m, n>> \notin Less
  BY <1>1, LessWellFounded, WFMin
<1>3. n \in Nat /\ n # 0
  OBVIOUS
<1>4. n - 1 \in Nat /\ <<n - 1, n>> \in Less
  BY <1>3 DEF Less
<1>5. n - 1 \in T
  BY <1>2, <1>4
<1>6. (n - 1) + 1 = n
  BY <1>3
<1>7. QED
  BY <1>4, <1>5, <1>6

\* What holds of the empty sequence, and of one more element, holds of all.
LEMMA SeqInduction ==
  ASSUME NEW S, NEW T, <<>> \in T,
         \A s \in Seq(S), e \in S : s \in T => Append(s, e) \in T
  PROVE  Seq(S) \subseteq T
<1> DEFINE N == {n \in Nat : \A s \in Seq(S) : Len(s) = n => s \in T}
<1>1. 0 \in N
  <2>1. \A s \in Seq(S) : Len(s) = 0 => s = <<>>
    OBVIOUS
  <2>2. QED
    BY <2>1
<1>2. ASSUME NEW n \in Nat, n \in N PROVE n + 1 \in N
  <2>1. SUFFICES ASSUME NEW s \in Seq(S), Len(s) = n + 1 PROVE s \in T
    OBVIOUS
  <2>2. s # <<>>
    BY <2>1
  <2>3. PICK t \in Seq(S), e \in S : s = Append(t, e)
    BY <2>2, SequenceEmptyOrAppend
  <2>4. Len(t) = n
    BY <2>1, <2>3
  <2>5. QED
    BY <1>2, <2>3, <2>4
<1>3. Nat \subseteq N
  <2> HIDE DEF N
  <2>1. QED
    BY <1>1, <1>2, Induction
<1>4. \A s \in Seq(S) : Len(s) \in N
  BY <1>3
<1>5. QED
  BY <1>4

LEMMA AppendFcn ==
  ASSUME NEW S, NEW s \in Seq(S), NEW e \in S
  PROVE  Append(s, e) =
           [i \in 1..Len(s) + 1 |-> IF i <= Len(s) THEN s[i] ELSE e]
<1> DEFINE t == Append(s, e)
<1>1. /\ t \in Seq(S) /\ Len(t) = Len(s) + 1
      /\ \A i \in 1..Len(s) : t[i] = s[i]
      /\ t[Len(s) + 1] = e
  BY AppendProperties
<1>2. Len(s) \in Nat
  OBVIOUS
<1> HIDE DEF t
<1>3. t = [i \in 1..Len(t) |-> t[i]]
  BY <1>1
<1>4. \A i \in 1..Len(s) + 1 : t[i] = IF i <= Len(s) THEN s[i] ELSE e
  BY <1>1, <1>2
<1>5. QED
  BY <1>1, <1>3, <1>4 DEF t

-----------------------------------------------------------------------------
(***************************************************************************)
(* FlattenSeq                                                              *)
(***************************************************************************)

\* The functions FlattenSeq chooses from.
Flattens(f, ss, n) ==
  f = [i \in 1..n |-> IF i = 1 THEN ss[i] ELSE f[i - 1] \o ss[i]]

LEMMA FlattensExists ==
  ASSUME NEW ss, NEW n \in Nat
  PROVE  \E f : Flattens(f, ss, n)
<1> DEFINE T == {m \in Nat : \E f : Flattens(f, ss, m)}
<1>1. 0 \in T
  <2>1. 1..0 = {}
    OBVIOUS
  <2>2. Flattens([i \in {} |-> i], ss, 0)
    BY <2>1 DEF Flattens
  <2>3. QED
    BY <2>2
<1>2. ASSUME NEW m \in Nat, m \in T PROVE m + 1 \in T
  <2>1. PICK f : Flattens(f, ss, m)
    BY <1>2
  <2> DEFINE last == IF m = 0 THEN ss[1] ELSE f[m] \o ss[m + 1]
             g == [i \in 1..m + 1 |-> IF i = m + 1 THEN last ELSE f[i]]
  <2>2. ASSUME NEW i \in 1..m
        PROVE  g[i] = IF i = 1 THEN ss[i] ELSE g[i - 1] \o ss[i]
    <3>1. i \in 1..m + 1 /\ i # m + 1 /\ g[i] = f[i]
      OBVIOUS
    <3>2. f[i] = IF i = 1 THEN ss[i] ELSE f[i - 1] \o ss[i]
      BY <2>1 DEF Flattens
    <3>3. i # 1 => i - 1 \in 1..m + 1 /\ i - 1 # m + 1
      OBVIOUS
    <3>4. QED
      BY <3>1, <3>2, <3>3
  <2>3. g[m + 1] = IF m + 1 = 1 THEN ss[m + 1] ELSE g[m] \o ss[m + 1]
    <3>1. g[m + 1] = last
      OBVIOUS
    <3>2. m # 0 => g[m] = f[m]
      OBVIOUS
    <3>3. QED
      BY <3>1, <3>2
  <2>4. ASSUME NEW i \in 1..m + 1
        PROVE  g[i] = IF i = 1 THEN ss[i] ELSE g[i - 1] \o ss[i]
    <3>1. i \in 1..m \/ i = m + 1
      OBVIOUS
    <3> HIDE DEF g
    <3>2. i = m + 1 => i - 1 = m
      OBVIOUS
    <3>3. QED
      BY <2>2, <2>3, <3>1, <3>2
  <2>5. g = [i \in 1..m + 1 |-> g[i]]
    OBVIOUS
  <2>6. Flattens(g, ss, m + 1)
    <3> HIDE DEF g
    <3>1. QED
      BY <2>4, <2>5 DEF Flattens
  <2>7. QED
    BY <2>6
<1>3. n \in T
  <2> HIDE DEF T
  <2>1. QED
    BY <1>1, <1>2, Induction
<1>4. QED
  BY <1>3

Agree(f, g, n) == \A i \in 1..n : f[i] = g[i]

\* A longer one starts like a shorter one.
LEMMA FlattensUnique ==
  ASSUME NEW ss, NEW tt, NEW f, NEW g, NEW m \in Nat, NEW n \in Nat, m <= n,
         Flattens(f, ss, m), Flattens(g, tt, n), Agree(ss, tt, m)
  PROVE  Agree(f, g, m)
<1> DEFINE T == {k \in Nat : k \in 1..m => f[k] = g[k]}
<1>1. 0 \in T
  OBVIOUS
<1>2. ASSUME NEW k \in Nat, k \in T PROVE k + 1 \in T
  <2>1. SUFFICES ASSUME k + 1 \in 1..m PROVE f[k + 1] = g[k + 1]
    OBVIOUS
  <2>2. k + 1 \in 1..n /\ (k + 1) - 1 = k /\ (k + 1 # 1 => k \in 1..m)
    BY <2>1
  <2>3. f[k + 1] = IF k + 1 = 1 THEN ss[k + 1] ELSE f[k] \o ss[k + 1]
    BY <2>1, <2>2 DEF Flattens
  <2>4. g[k + 1] = IF k + 1 = 1 THEN tt[k + 1] ELSE g[k] \o tt[k + 1]
    BY <2>2 DEF Flattens
  <2>5. ss[k + 1] = tt[k + 1]
    BY <2>1 DEF Agree
  <2>6. QED
    BY <1>2, <2>2, <2>3, <2>4, <2>5
<1>3. Nat \subseteq T
  <2> HIDE DEF T
  <2>1. QED
    BY <1>1, <1>2, Induction
<1>4. QED
  BY <1>3 DEF Agree

LEMMA FlattenDef ==
  ASSUME NEW ss, Len(ss) \in Nat, Len(ss) # 0
  PROVE  \E f : Flattens(f, ss, Len(ss)) /\ FlattenSeq(ss) = f[Len(ss)]
<1> DEFINE f == CHOOSE f : Flattens(f, ss, Len(ss))
<1>1. Flattens(f, ss, Len(ss))
  BY FlattensExists
<1>2. FlattenSeq(ss) = f[Len(ss)]
  BY DEF FlattenSeq, Flattens
<1>3. QED
  BY <1>1, <1>2

\* FlattenSeq takes one sequence after the other.
LEMMA FlattenAppend ==
  ASSUME NEW S, NEW ss \in Seq(Seq(S)), NEW s \in Seq(S)
  PROVE  /\ FlattenSeq(<<>>) = <<>>
         /\ FlattenSeq(ss) \in Seq(S)
         /\ FlattenSeq(Append(ss, s)) = FlattenSeq(ss) \o s
<1>1. FlattenSeq(<<>>) = <<>>
  BY DEF FlattenSeq
<1>2. ASSUME NEW tt \in Seq(Seq(S)), NEW t \in Seq(S)
      PROVE  FlattenSeq(Append(tt, t)) =
               IF tt = <<>> THEN t ELSE FlattenSeq(tt) \o t
  <2> DEFINE n == Len(tt)
             uu == Append(tt, t)
  <2>1. /\ n \in Nat /\ Len(uu) = n + 1
        /\ \A i \in 1..n : tt[i] = uu[i]
        /\ uu[n + 1] = t
        /\ n = 0 <=> tt = <<>>
    OBVIOUS
  <2> HIDE DEF n, uu
  <2>2. PICK g : Flattens(g, uu, n + 1) /\ FlattenSeq(uu) = g[n + 1]
    <3>1. Len(uu) \in Nat /\ Len(uu) # 0
      BY <2>1
    <3>2. \E f : Flattens(f, uu, Len(uu)) /\ FlattenSeq(uu) = f[Len(uu)]
      BY <3>1, FlattenDef, Zenon
    <3>3. QED
      BY <2>1, <3>2
  <2>3. g[n + 1] = IF n + 1 = 1 THEN uu[n + 1] ELSE g[n] \o uu[n + 1]
    <3>1. n + 1 \in 1..n + 1 /\ (n + 1) - 1 = n
      BY <2>1
    <3>2. QED
      BY <2>2, <3>1 DEF Flattens
  <2>4. CASE n = 0
    BY <2>1, <2>2, <2>3, <2>4 DEF uu
  <2>5. CASE n # 0
    <3>1. PICK f : Flattens(f, tt, n) /\ FlattenSeq(tt) = f[n]
      BY <2>1, <2>5, FlattenDef DEF n
    <3>2. n <= n + 1 /\ n \in 1..n /\ n + 1 \in Nat /\ n + 1 # 1
      BY <2>1, <2>5
    <3>3. f[n] = g[n]
      <4>1. n \in Nat /\ n + 1 \in Nat /\ n <= n + 1
        BY <2>1
      <4>2. Agree(tt, uu, n)
        BY <2>1 DEF Agree
      <4>3. Flattens(f, tt, n) /\ Flattens(g, uu, n + 1)
        BY <2>2, <3>1
      <4>4. Agree(f, g, n)
        BY <4>1, <4>2, <4>3, FlattensUnique
      <4>5. QED
        BY <3>2, <4>4 DEF Agree
    <3>4. QED
      BY <2>1, <2>2, <2>3, <2>5, <3>1, <3>2, <3>3 DEF uu
  <2>6. QED
    BY <2>4, <2>5
<1> DEFINE T == {tt \in Seq(Seq(S)) : FlattenSeq(tt) \in Seq(S)}
<1>3. Seq(Seq(S)) \subseteq T
  <2>1. <<>> \in T
    BY <1>1, EmptySeq
  <2>2. ASSUME NEW tt \in Seq(Seq(S)), NEW t \in Seq(S), tt \in T
        PROVE  Append(tt, t) \in T
    <3>1. FlattenSeq(tt) \in Seq(S) /\ Append(tt, t) \in Seq(Seq(S))
      BY <2>2
    <3>2. \A a, b \in Seq(S) : a \o b \in Seq(S)
      OBVIOUS
    <3>3. FlattenSeq(tt) \o t \in Seq(S)
      BY <3>1, <3>2
    <3>4. FlattenSeq(Append(tt, t)) \in Seq(S)
      BY <1>2, <3>3
    <3>5. QED
      BY <3>1, <3>4
  <2> HIDE DEF T
  <2>3. QED
    BY <2>1, <2>2, SeqInduction
<1>4. FlattenSeq(ss) \in Seq(S)
  BY <1>3
<1>5. <<>> \o s = s
  OBVIOUS
<1>6. FlattenSeq(Append(ss, s)) = FlattenSeq(ss) \o s
  BY <1>1, <1>2, <1>5
<1>7. QED
  BY <1>1, <1>4, <1>6

-----------------------------------------------------------------------------
(***************************************************************************)
(* encoding.cpp                                                            *)
(***************************************************************************)

Byte == 0..255

\* A character in UTF-8.
Utf8(b) == IF b < 128 THEN <<b>> ELSE <<192 + b \div 64, 128 + (b % 64)>>

\* A byte beyond ASCII becomes a leading byte and a continuation.
LEMMA Utf8Parts ==
  ASSUME NEW b \in Byte
  PROVE  /\ b < 128 => Utf8(b) = <<b>>
         /\ b >= 128 => \E hi \in 194..195, lo \in 128..191 :
              Utf8(b) = <<hi, lo>> /\ (hi - 192) * 64 + (lo - 128) = b
         /\ Utf8(b) \in Bytes
<1>1. CASE b < 128
  BY <1>1 DEF Utf8, Bytes, Byte
<1>2. CASE b >= 128
  <2> DEFINE high == b \div 64
             low == b % 64
  <2>1. high \in 2..3 /\ low \in 0..63 /\ high * 64 + low = b
    <3>1. CASE b < 192
      <4>1. b \in 128..191
        BY <1>2, <3>1 DEF Byte
      <4>2. high = 2
        BY <4>1
      <4>3. low = b - 128
        BY <4>1
      <4> HIDE DEF high, low
      <4>4. QED
        BY <4>1, <4>2, <4>3
    <3>2. CASE b >= 192
      <4>1. b \in 192..255
        BY <3>2 DEF Byte
      <4>2. high = 3
        BY <4>1
      <4>3. low = b - 192
        BY <4>1
      <4> HIDE DEF high, low
      <4>4. QED
        BY <4>1, <4>2, <4>3
    <3>3. QED
      BY <3>1, <3>2 DEF Byte
  <2> DEFINE hi == 192 + high
             lo == 128 + low
  <2>2. hi \in 194..195 /\ lo \in 128..191 /\ (hi - 192) * 64 + (lo - 128) = b
    <3> HIDE DEF high, low
    <3>1. QED
      BY <2>1
  <2>3. Utf8(b) = <<hi, lo>>
    BY <1>2 DEF Utf8, Byte
  <2> HIDE DEF hi, lo
  <2>4. ~(b < 128)
    BY <1>2 DEF Byte
  <2>5. <<hi, lo>> \in Bytes
    BY <2>2 DEF Bytes
  <2>6. QED
    BY <2>2, <2>3, <2>4, <2>5
<1>3. QED
  BY <1>1, <1>2 DEF Byte

\* toUtf8 goes character by character.
LEMMA ToUtf8Append ==
  /\ ToUtf8(<<>>) = <<>>
  /\ \A s \in Bytes, b \in Byte :
       /\ ToUtf8(s) \in Bytes
       /\ ToUtf8(Append(s, b)) = ToUtf8(s) \o Utf8(b)
<1> DEFINE Pieces(s) == [i \in DOMAIN s |-> Utf8(s[i])]
<1>1. \A s : ToUtf8(s) = FlattenSeq(Pieces(s))
  BY DEF ToUtf8, Utf8
<1>2. ToUtf8(<<>>) = <<>>
  <2>1. Pieces(<<>>) = <<>>
    OBVIOUS
  <2>2. FlattenSeq(<<>>) = <<>>
    BY DEF FlattenSeq
  <2> HIDE DEF Pieces
  <2>3. QED
    BY <1>1, <2>1, <2>2
<1>3. ASSUME NEW s \in Bytes, NEW b \in Byte
      PROVE  /\ Pieces(s) \in Seq(Seq(Byte)) /\ Utf8(b) \in Seq(Byte)
             /\ Pieces(Append(s, b)) = Append(Pieces(s), Utf8(b))
  <2>1. \A c \in Byte : Utf8(c) \in Seq(Byte)
    BY Utf8Parts DEF Bytes, Byte
  <2>2. s \in Seq(Byte)
    BY DEF Bytes, Byte
  <2>3. Pieces(s) \in Seq(Seq(Byte)) /\ Len(Pieces(s)) = Len(s)
    <3>1. \A i \in 1..Len(s) : s[i] \in Byte
      BY <2>2
    <3>2. \A i \in 1..Len(s) : Utf8(s[i]) \in Seq(Byte)
      BY <2>1, <3>1
    <3>3. Pieces(s) = [i \in 1..Len(s) |-> Utf8(s[i])] /\ Len(s) \in Nat
      BY <2>2
    <3> HIDE DEF Pieces
    <3>4. QED
      BY <3>2, <3>3
  <2> DEFINE t == Append(s, b)
             n == Len(s)
  <2>4. Pieces(t) = Append(Pieces(s), Utf8(b))
    <3>1. n \in Nat /\ DOMAIN t = 1..n + 1 /\ t[n + 1] = b
            /\ \A i \in 1..n : t[i] = s[i]
      BY <2>2
    <3>2. Pieces(t) = [i \in 1..n + 1 |-> Utf8(t[i])]
      BY <3>1
    <3>3. Pieces(s) = [i \in 1..n |-> Utf8(s[i])]
      BY <2>2
    <3>4. Append(Pieces(s), Utf8(b)) =
            [i \in 1..n + 1 |-> IF i <= n THEN Pieces(s)[i] ELSE Utf8(b)]
      BY <2>3
    <3> HIDE DEF t, n
    <3>5. \A i \in 1..n + 1 :
            Utf8(t[i]) = IF i <= n THEN Pieces(s)[i] ELSE Utf8(b)
      <4>1. \A i \in 1..n + 1 : i <= n => Pieces(s)[i] = Utf8(s[i])
        BY <3>1, <3>3
      <4>2. \A i \in 1..n + 1 : ~(i <= n) => i = n + 1
        BY <3>1
      <4>3. QED
        BY <3>1, <4>1, <4>2
    <3>6. QED
      BY <3>2, <3>4, <3>5
  <2>5. QED
    BY <2>1, <2>3, <2>4
<1>4. QED
  <2> HIDE DEF Pieces
  <2>1. SUFFICES ASSUME NEW s \in Bytes, NEW b \in Byte
                 PROVE  /\ ToUtf8(s) \in Seq(Byte)
                        /\ ToUtf8(Append(s, b)) = ToUtf8(s) \o Utf8(b)
    BY <1>2 DEF Bytes, Byte
  <2>2. /\ FlattenSeq(Pieces(s)) \in Seq(Byte)
        /\ FlattenSeq(Append(Pieces(s), Utf8(b))) =
             FlattenSeq(Pieces(s)) \o Utf8(b)
    BY <1>3, FlattenAppend
  <2>3. QED
    BY <1>1, <1>3, <2>2

LEMMA ToUtf8Typed == \A s \in Bytes : ToUtf8(s) \in Bytes
<1>1. 0 \in Byte
  BY DEF Byte
<1>2. QED
  BY <1>1, ToUtf8Append

\* What FromUtf8 makes of the byte at i.
Char(u, i) ==
  CASE u[i] < 128  -> <<u[i]>>
    [] u[i] >= 196 -> <<95>>
    [] u[i] >= 192 -> <<>>
    [] OTHER       -> IF u[i - 1] \in 192..195
                      THEN <<(u[i - 1] - 192) * 64 + (u[i] - 128)>>
                      ELSE <<>>
Chars(u) == [i \in DOMAIN u |-> Char(u, i)]

LEMMA CharsDef == \A u : FromUtf8(u) = FlattenSeq(Chars(u))
BY DEF FromUtf8, Chars, Char

\* A string starts with a character.
Starts(u) == u # <<>> => u[1] \notin 128..191

\* More bytes do not change what becomes of those before them.
LEMMA CharsAppend ==
  ASSUME NEW u \in Bytes, Starts(u), Chars(u) \in Seq(Bytes), NEW c \in Byte,
         c \in 128..191 => u # <<>>
  PROVE  /\ Append(u, c) \in Bytes /\ Starts(Append(u, c))
         /\ Chars(Append(u, c)) =
              Append(Chars(u), Char(Append(u, c), Len(u) + 1))
<1> DEFINE v == Append(u, c)
           n == Len(u)
<1>1. u \in Seq(Byte) /\ v \in Seq(Byte)
  BY DEF Bytes, Byte
<1>2. /\ n \in Nat /\ DOMAIN u = 1..n /\ DOMAIN v = 1..n + 1
      /\ v[n + 1] = c /\ \A i \in 1..n : v[i] = u[i] /\ u[i] \in Byte
  <2>1. n \in Nat /\ DOMAIN u = 1..n /\ DOMAIN v = 1..n + 1
    BY <1>1
  <2>2. v[n + 1] = c
    BY <1>1
  <2>3. \A i \in 1..n : v[i] = u[i] /\ u[i] \in Byte
    BY <1>1
  <2>4. QED
    BY <2>1, <2>2, <2>3
<1>3. Starts(v)
  <2>1. CASE n = 0
    <3>1. u = <<>> /\ v[1] = c
      BY <1>1, <1>2, <2>1
    <3>2. QED
      BY <3>1 DEF Starts
  <2>2. CASE n # 0
    <3>1. u # <<>> /\ v[1] = u[1]
      BY <1>1, <1>2, <2>2
    <3>2. QED
      BY <3>1 DEF Starts
  <2>3. QED
    BY <2>1, <2>2
<1>4. Chars(v) = [i \in 1..n + 1 |-> Char(v, i)]
  BY <1>2 DEF Chars
<1>5. Chars(u) = [i \in 1..n |-> Char(u, i)]
  BY <1>2 DEF Chars
<1>6. Append(Chars(u), Char(v, n + 1)) =
        [i \in 1..n + 1 |-> IF i <= n THEN Chars(u)[i] ELSE Char(v, n + 1)]
  <2>1. Len(Chars(u)) = n
    BY <1>2, <1>5
  <2> DEFINE x == Char(v, n + 1)
             All == Bytes \cup {x}
  <2>2. Chars(u) \in Seq(All) /\ x \in All
    OBVIOUS
  <2> HIDE DEF x, All
  <2>3. Append(Chars(u), x) =
          [i \in 1..Len(Chars(u)) + 1 |->
             IF i <= Len(Chars(u)) THEN Chars(u)[i] ELSE x]
    BY <2>2, AppendFcn
  <2>4. QED
    BY <2>1, <2>3 DEF x
<1>7. ASSUME NEW i \in 1..n PROVE Char(v, i) = Char(u, i)
  <2>1. v[i] = u[i] /\ u[i] \in Byte
    BY <1>2
  <2>2. CASE u[i] \in 128..191
    <3>1. i # 1
      <4>1. u # <<>>
        BY <1>1, <1>2
      <4>2. QED
        BY <2>2, <4>1 DEF Starts
    <3>2. i - 1 \in 1..n
      BY <1>2, <3>1
    <3>3. v[i - 1] = u[i - 1]
      BY <1>2, <3>2
    <3>4. QED
      BY <2>1, <3>3 DEF Char
  <2>3. CASE u[i] \notin 128..191
    <3>1. \A x \in Byte : x \notin 128..191 => x < 128 \/ x >= 192
      BY DEF Byte
    <3>2. u[i] < 128 \/ u[i] >= 192
      BY <2>1, <2>3, <3>1
    <3>3. QED
      BY <2>1, <3>2 DEF Char, Byte
  <2>4. QED
    BY <2>2, <2>3
<1>8. \A i \in 1..n + 1 :
        Char(v, i) = IF i <= n THEN Chars(u)[i] ELSE Char(v, n + 1)
  <2> HIDE DEF v, n
  <2>1. \A i \in 1..n : Chars(u)[i] = Char(u, i)
    BY <1>5
  <2>2. \A i \in 1..n + 1 : ~(i <= n) => i = n + 1
    BY <1>2
  <2>3. \A i \in 1..n + 1 : i <= n => i \in 1..n
    BY <1>2
  <2>4. QED
    BY <1>7, <2>1, <2>2, <2>3
<1>9. QED
  <2> HIDE DEF v, n
  <2>1. Chars(v) = Append(Chars(u), Char(v, n + 1))
    BY <1>4, <1>6, <1>8
  <2>2. QED
    BY <1>1, <1>3, <2>1 DEF v, n, Bytes, Byte

LEMMA FlattenBytes ==
  ASSUME NEW ss \in Seq(Bytes), NEW s \in Bytes
  PROVE  /\ Append(ss, s) \in Seq(Bytes)
         /\ FlattenSeq(ss) \in Bytes
         /\ FlattenSeq(Append(ss, s)) = FlattenSeq(ss) \o s
BY FlattenAppend DEF Bytes

LEMMA ConcatSnoc ==
  ASSUME NEW S, NEW s \in Seq(S), NEW c \in S, NEW d \in S
  PROVE  /\ s \o <<c>> = Append(s, c)
         /\ s \o <<c, d>> = Append(Append(s, c), d)
<1>1. s \o <<c>> = Append(s, c)
  BY AppendIsConcat
<1>2. s \o <<c, d>> = Append(Append(s, c), d)
  OBVIOUS
<1>3. QED
  BY <1>1, <1>2

\* What the service tells the application stands for what the server sent:
\* toUtf8 takes no two strings of Latin-1 to the same one.
THEOREM RoundTrip == \A s \in Bytes : FromUtf8(ToUtf8(s)) = s
<1> DEFINE Told(s) == LET u == ToUtf8(s)
                      IN /\ Starts(u) /\ Chars(u) \in Seq(Bytes)
                         /\ FlattenSeq(Chars(u)) = s
           T == {s \in Bytes : Told(s)}
<1>1. <<>> \in T
  <2>1. ToUtf8(<<>>) = <<>> /\ FlattenSeq(<<>>) = <<>>
    BY ToUtf8Append DEF FlattenSeq
  <2>2. Chars(<<>>) = <<>> /\ Starts(<<>>)
    BY DEF Chars, Starts
  <2>3. <<>> \in Bytes /\ <<>> \in Seq(Bytes)
    BY DEF Bytes
  <2>4. QED
    BY <2>1, <2>2, <2>3
<1>2. ASSUME NEW s \in Seq(Byte), NEW b \in Byte, s \in T
      PROVE  Append(s, b) \in T
  <2> DEFINE u == ToUtf8(s)
             t == Append(s, b)
  <2>1. /\ s \in Bytes /\ t \in Bytes /\ u \in Bytes
        /\ Starts(u) /\ Chars(u) \in Seq(Bytes) /\ FlattenSeq(Chars(u)) = s
        /\ ToUtf8(t) = u \o Utf8(b)
    <3>1. s \in Bytes /\ t \in Bytes
      BY DEF Bytes, Byte
    <3>2. QED
      BY <1>2, <3>1, ToUtf8Append
  <2>2. u \in Seq(Byte)
    BY <2>1 DEF Bytes, Byte
  <2>3. t = s \o <<b>>
    BY AppendIsConcat
  <2> HIDE DEF u, t
  <2>4. CASE b < 128
    <3> DEFINE v == Append(u, b)
    <3>1. ToUtf8(t) = v
      <4>1. u \o <<b>> = v
        BY <2>2, ConcatSnoc
      <4>2. QED
        BY <2>1, <2>4, <4>1, Utf8Parts
    <3>2. Starts(v) /\ v \in Bytes
            /\ Chars(v) = Append(Chars(u), Char(v, Len(u) + 1))
      <4>1. b \notin 128..191
        BY <2>4 DEF Byte
      <4>2. QED
        BY <2>1, <4>1, CharsAppend
    <3>3. v[Len(u) + 1] = b
      BY <2>2
    <3> HIDE DEF v
    <3>4. Char(v, Len(u) + 1) = <<b>>
      <4>1. /\ v[Len(u) + 1] < 128
            /\ ~(v[Len(u) + 1] >= 192) /\ ~(v[Len(u) + 1] >= 196)
        BY <2>4, <3>3 DEF Byte
      <4>2. QED
        BY <3>3, <4>1 DEF Char
    <3>5. <<b>> \in Bytes
      BY DEF Bytes, Byte
    <3>6. /\ Append(Chars(u), <<b>>) \in Seq(Bytes)
          /\ FlattenSeq(Append(Chars(u), <<b>>)) = t
      BY <2>1, <2>3, <3>5, FlattenBytes
    <3>7. QED
      BY <2>1, <3>1, <3>2, <3>4, <3>6 DEF t
  <2>5. CASE b >= 128
    <3>1. PICK hi \in 194..195, lo \in 128..191 :
            Utf8(b) = <<hi, lo>> /\ (hi - 192) * 64 + (lo - 128) = b
      BY <2>5, Utf8Parts
    <3>2. hi \in Byte /\ lo \in Byte /\ hi \notin 128..191
      BY DEF Byte
    <3> DEFINE v == Append(u, hi)
               w == Append(v, lo)
    <3>3. ToUtf8(t) = w
      <4>1. u \o <<hi, lo>> = w
        BY <2>2, <3>2, ConcatSnoc
      <4>2. QED
        BY <2>1, <3>1, <4>1
    <3>4. Starts(v) /\ v \in Bytes
            /\ Chars(v) = Append(Chars(u), Char(v, Len(u) + 1))
      BY <2>1, <3>2, CharsAppend
    <3>5. v[Len(u) + 1] = hi /\ v # <<>> /\ Len(v) = Len(u) + 1
            /\ v \in Seq(Byte) /\ Len(u) \in Nat
      BY <2>2, <3>2
    <3>6. w[Len(v) + 1] = lo /\ w[Len(v)] = hi /\ Len(v) \in Nat
      BY <3>2, <3>5
    <3> HIDE DEF v, w
    <3>7. Char(v, Len(u) + 1) = <<>>
      BY <3>5 DEF Char
    <3>8. Chars(v) \in Seq(Bytes) /\ FlattenSeq(Chars(v)) = s
      <4>1. <<>> \in Bytes
        BY DEF Bytes
      <4>2. FlattenSeq(Append(Chars(u), <<>>)) = s \o <<>>
        BY <2>1, <4>1, FlattenBytes
      <4>3. s \o <<>> = s
        OBVIOUS
      <4>4. Append(Chars(u), <<>>) \in Seq(Bytes)
        BY <2>1, <4>1
      <4>5. QED
        BY <3>4, <3>7, <4>2, <4>3, <4>4
    <3>9. Starts(w) /\ w \in Bytes
            /\ Chars(w) = Append(Chars(v), Char(w, Len(v) + 1))
      <4>1. v \in Bytes /\ Starts(v) /\ Chars(v) \in Seq(Bytes) /\ v # <<>>
        BY <3>4, <3>5, <3>8
      <4>2. QED
        BY <3>2, <4>1, CharsAppend DEF w
    <3>10. Char(w, Len(v) + 1) = <<b>>
      <4>1. (Len(v) + 1) - 1 = Len(v)
        BY <3>6
      <4>2. ~(lo < 128) /\ ~(lo >= 192) /\ ~(lo >= 196) /\ hi \in 192..195
        OBVIOUS
      <4>3. QED
        BY <3>1, <3>6, <4>1, <4>2 DEF Char
    <3>11. <<b>> \in Bytes
      BY DEF Bytes, Byte
    <3>12. /\ Append(Chars(v), <<b>>) \in Seq(Bytes)
           /\ FlattenSeq(Append(Chars(v), <<b>>)) = t
      BY <2>3, <3>8, <3>11, FlattenBytes
    <3>13. QED
      BY <2>1, <3>3, <3>9, <3>10, <3>12 DEF t
  <2>6. QED
    BY <2>4, <2>5 DEF Byte
<1>3. Seq(Byte) \subseteq T
  <2> HIDE DEF T
  <2>1. QED
    BY <1>1, <1>2, SeqInduction
<1>4. \A s \in Bytes : Told(s)
  BY <1>3 DEF Bytes, Byte
<1>5. QED
  BY <1>4, CharsDef

\* Only ASCII becomes ASCII, and it becomes itself.
LEMMA AsciiKept ==
  \A s \in Bytes : /\ Ascii(ToUtf8(s)) => Ascii(s)
                   /\ Ascii(s) => ToUtf8(s) = s
<1> DEFINE T == {s \in Bytes : /\ Ascii(ToUtf8(s)) => Ascii(s)
                               /\ Ascii(s) => ToUtf8(s) = s}
<1>1. <<>> \in T
  <2>1. Ascii(<<>>) /\ <<>> \in Bytes
    BY DEF Ascii, Bytes
  <2>2. QED
    BY <2>1, ToUtf8Append
<1>2. ASSUME NEW s \in Seq(Byte), NEW b \in Byte, s \in T
      PROVE  Append(s, b) \in T
  <2> DEFINE u == ToUtf8(s)
             t == Append(s, b)
  <2>1. /\ s \in Bytes /\ t \in Bytes /\ u \in Seq(Byte)
        /\ ToUtf8(t) = u \o Utf8(b)
    <3>1. s \in Bytes /\ t \in Bytes
      BY DEF Bytes, Byte
    <3>2. QED
      BY <1>2, <3>1, ToUtf8Append DEF Bytes, Byte
  <2>2. Ascii(t) <=> Ascii(s) /\ b < 128
    <3>1. /\ Len(s) \in Nat /\ DOMAIN s = 1..Len(s)
          /\ DOMAIN t = 1..Len(s) + 1 /\ t[Len(s) + 1] = b
          /\ \A i \in 1..Len(s) : t[i] = s[i]
      OBVIOUS
    <3> HIDE DEF t
    <3>2. \A i \in 1..Len(s) + 1 : i \in 1..Len(s) \/ i = Len(s) + 1
      BY <3>1
    <3>3. \A i \in 1..Len(s) : i \in 1..Len(s) + 1
      BY <3>1
    <3>4. Len(s) + 1 \in 1..Len(s) + 1
      BY <3>1
    <3>5. QED
      BY <3>1, <3>2, <3>3, <3>4 DEF Ascii
  <2> HIDE DEF u
  <2>3. CASE b < 128
    <3>1. Utf8(b) = <<b>>
      BY <2>3, Utf8Parts
    <3>2. ToUtf8(t) = Append(u, b)
      BY <2>1, <3>1, AppendIsConcat
    <3>3. Ascii(Append(u, b)) => Ascii(u)
      <4>1. DOMAIN u = 1..Len(u) /\ DOMAIN Append(u, b) = 1..Len(u) + 1
              /\ Len(u) \in Nat /\ \A i \in 1..Len(u) : Append(u, b)[i] = u[i]
        BY <2>1
      <4> DEFINE v == Append(u, b)
      <4> HIDE DEF v
      <4>2. QED
        BY <4>1 DEF Ascii, v
    <3>4. QED
      BY <1>2, <2>1, <2>2, <2>3, <3>2, <3>3 DEF u, t
  <2>4. CASE b >= 128
    <3>1. PICK hi \in 194..195, lo \in 128..191 :
            Utf8(b) = <<hi, lo>> /\ (hi - 192) * 64 + (lo - 128) = b
      BY <2>4, Utf8Parts
    <3>2. hi \in Byte /\ lo \in Byte
      BY DEF Byte
    <3>3. ToUtf8(t) = Append(Append(u, hi), lo)
      BY <2>1, <3>1, <3>2, ConcatSnoc
    <3> DEFINE v == Append(u, hi)
               w == Append(v, lo)
    <3>4. v \in Seq(Byte)
      BY <2>1, <3>2
    <3> HIDE DEF v
    <3>5. Len(v) + 1 \in DOMAIN w /\ w[Len(v) + 1] = lo
      BY <3>2, <3>4
    <3> HIDE DEF w
    <3>6. ~Ascii(w)
      BY <3>5 DEF Ascii
    <3>7. ~(b < 128)
      BY <2>4 DEF Byte
    <3>8. QED
      BY <2>1, <2>2, <3>3, <3>6, <3>7 DEF v, w
  <2>5. QED
    BY <2>3, <2>4 DEF Byte
<1>3. Seq(Byte) \subseteq T
  <2> HIDE DEF T
  <2>1. QED
    BY <1>1, <1>2, SeqInduction
<1>4. QED
  BY <1>3 DEF Bytes, Byte

\* What is well formed in a string stays so when the string is continued.
LEMMA DumpableKept ==
  ASSUME NEW u, NEW v, Dumpable(u),
         \A j \in DOMAIN u : j \in DOMAIN v /\ v[j] = u[j],
         NEW i \in DOMAIN u
  PROVE  InCharacter(v, i)
<1>1. InCharacter(u, i)
  BY DEF Dumpable
<1>2. v[i] = u[i]
  OBVIOUS
<1>3. CASE u[i] < 128
  BY <1>2, <1>3 DEF InCharacter
<1>4. CASE u[i] \in 194..223 /\ i + 1 \in DOMAIN u /\ u[i + 1] \in 128..191
  <2>1. i + 1 \in DOMAIN v /\ v[i + 1] = u[i + 1]
    BY <1>4
  <2>2. QED
    BY <1>2, <1>4, <2>1 DEF InCharacter
<1>5. CASE u[i] \in 128..191 /\ i - 1 \in DOMAIN u /\ u[i - 1] \in 194..223
  <2>1. i - 1 \in DOMAIN v /\ v[i - 1] = u[i - 1]
    BY <1>5
  <2>2. QED
    BY <1>2, <1>5, <2>1 DEF InCharacter
<1>6. QED
  BY <1>1, <1>3, <1>4, <1>5 DEF InCharacter

\* One more character, of one byte or of two, leaves a string well formed.
LEMMA DumpableAppend ==
  ASSUME NEW u \in Seq(Byte), Dumpable(u)
  PROVE  /\ \A b \in Byte : b < 128 => Dumpable(Append(u, b))
         /\ \A hi \in 194..195, lo \in 128..191 :
              Dumpable(Append(Append(u, hi), lo))
<1>1. ASSUME NEW b \in Byte, b < 128
      PROVE  Dumpable(Append(u, b))
  <2> DEFINE v == Append(u, b)
  <2>1. /\ v \in Seq(Byte) /\ Len(v) = Len(u) + 1 /\ v[Len(u) + 1] = b
        /\ \A i \in 1..Len(u) : v[i] = u[i]
    OBVIOUS
  <2> HIDE DEF v
  <2>2. DOMAIN v = 1..Len(u) + 1 /\ Len(u) \in Nat /\ Len(u) <= Len(v)
    BY <2>1
  <2>3. DOMAIN u = 1..Len(u) /\ 1..Len(u) \subseteq DOMAIN v
    BY <2>2
  <2>4. ASSUME NEW i \in DOMAIN v
        PROVE  InCharacter(v, i)
    <3>1. i \in 1..Len(u) \/ i = Len(u) + 1
      BY <2>2
    <3>2. CASE i \in 1..Len(u)
      BY <2>1, <2>3, <3>2, DumpableKept
    <3>3. CASE i = Len(u) + 1
      BY <1>1, <2>1, <3>3 DEF InCharacter
    <3>4. QED
      BY <3>1, <3>2, <3>3
  <2>5. QED
    BY <2>4 DEF Dumpable, v
<1>2. ASSUME NEW hi \in 194..195, NEW lo \in 128..191
      PROVE  Dumpable(Append(Append(u, hi), lo))
  <2> DEFINE v == Append(u, hi)
             w == Append(v, lo)
             n == Len(u)
  <2>1. hi \in Byte /\ lo \in Byte
    BY DEF Byte
  <2>2. /\ v \in Seq(Byte) /\ Len(v) = n + 1 /\ v[n + 1] = hi
        /\ \A i \in 1..n : v[i] = u[i]
    BY <2>1
  <2> HIDE DEF v
  <2>3. /\ w \in Seq(Byte) /\ Len(w) = Len(v) + 1 /\ w[Len(v) + 1] = lo
        /\ \A i \in 1..Len(v) : w[i] = v[i]
    BY <2>1, <2>2
  <2> HIDE DEF w
  <2>4. n \in Nat
    OBVIOUS
  <2> HIDE DEF n
  <2>5. /\ DOMAIN w = 1..n + 2 /\ n <= Len(w)
        /\ w[n + 1] = hi /\ w[n + 2] = lo
        /\ \A i \in 1..n : w[i] = u[i]
    <3>1. (n + 1) + 1 = n + 2
      BY <2>4
    <3>2. Len(w) = n + 2 /\ w[n + 2] = lo
      BY <2>2, <2>3, <3>1
    <3>3. n + 1 \in 1..Len(v) /\ \A i \in 1..n : i \in 1..Len(v)
      BY <2>2, <2>4
    <3>4. QED
      BY <2>2, <2>3, <2>4, <3>2, <3>3
  <2>6. DOMAIN u = 1..n /\ 1..n \subseteq DOMAIN w
    BY <2>4, <2>5 DEF n
  <2>7. ASSUME NEW i \in DOMAIN w
        PROVE  InCharacter(w, i)
    <3>1. i \in 1..n \/ i = n + 1 \/ i = n + 2
      BY <2>4, <2>5
    <3>2. CASE i \in 1..n
      BY <2>5, <2>6, <3>2, DumpableKept
    <3>3. CASE i = n + 1
      <4>1. i + 1 = n + 2 /\ n + 2 \in DOMAIN w
        BY <2>4, <2>5, <3>3
      <4>2. w[i] = hi /\ w[i + 1] = lo /\ hi \in 194..223
        BY <2>5, <3>3, <4>1
      <4>3. QED
        BY <4>1, <4>2 DEF InCharacter
    <3>4. CASE i = n + 2
      <4>1. i - 1 = n + 1 /\ n + 1 \in DOMAIN w
        BY <2>4, <2>5, <3>4
      <4>2. w[i] = lo /\ w[i - 1] = hi /\ hi \in 194..223
        BY <2>5, <3>4, <4>1
      <4>3. QED
        BY <4>1, <4>2 DEF InCharacter
    <3>5. QED
      BY <3>1, <3>2, <3>3, <3>4
  <2>8. QED
    BY <2>7 DEF Dumpable, w, v
<1>3. QED
  BY <1>1, <1>2

\* What toUtf8 returns is well-formed UTF-8 for every string of bytes: a
\* request that carries it can be written, dump() does not throw.
THEOREM ConvertedIsDumpable == \A s \in Bytes : Dumpable(ToUtf8(s))
<1> DEFINE T == {s \in Bytes : Dumpable(ToUtf8(s))}
<1>1. <<>> \in T
  <2>1. Dumpable(<<>>) /\ <<>> \in Bytes
    BY DEF Dumpable, Bytes
  <2>2. QED
    BY <2>1, ToUtf8Append
<1>2. ASSUME NEW s \in Seq(Byte), NEW b \in Byte, s \in T
      PROVE  Append(s, b) \in T
  <2> DEFINE u == ToUtf8(s)
             t == Append(s, b)
  <2>1. /\ t \in Bytes /\ u \in Seq(Byte) /\ Dumpable(u)
        /\ ToUtf8(t) = u \o Utf8(b)
    <3>1. s \in Bytes /\ t \in Bytes
      BY DEF Bytes, Byte
    <3>2. QED
      BY <1>2, <3>1, ToUtf8Append DEF Bytes, Byte
  <2> HIDE DEF u, t
  <2>2. CASE b < 128
    <3>1. Utf8(b) = <<b>>
      BY <2>2, Utf8Parts
    <3>2. ToUtf8(t) = Append(u, b)
      BY <2>1, <3>1, AppendIsConcat
    <3>3. Dumpable(Append(u, b))
      BY <2>1, <2>2, DumpableAppend
    <3>4. QED
      BY <2>1, <3>2, <3>3 DEF t
  <2>3. CASE b >= 128
    <3>1. PICK hi \in 194..195, lo \in 128..191 :
            Utf8(b) = <<hi, lo>> /\ (hi - 192) * 64 + (lo - 128) = b
      BY <2>3, Utf8Parts
    <3>2. hi \in Byte /\ lo \in Byte
      BY DEF Byte
    <3>3. ToUtf8(t) = Append(Append(u, hi), lo)
      BY <2>1, <3>1, <3>2, ConcatSnoc
    <3>4. Dumpable(Append(Append(u, hi), lo))
      BY <2>1, DumpableAppend
    <3>5. QED
      BY <2>1, <3>3, <3>4 DEF t
  <2>4. QED
    BY <2>2, <2>3 DEF Byte
<1>3. Seq(Byte) \subseteq T
  <2> HIDE DEF T
  <2>1. QED
    BY <1>1, <1>2, SeqInduction
<1>4. QED
  BY <1>3 DEF Bytes, Byte

-----------------------------------------------------------------------------
(***************************************************************************)
(* Numbers                                                                 *)
(***************************************************************************)

\* A number that fits an int is kept.
LEMMA ToIntFits ==
  ASSUME NEW n \in Int
  PROVE  /\ ToInt(n) \in Int
         /\ ToInt(n) \in -(MaxInt + 1)..MaxInt
         /\ n \in -(MaxInt + 1)..MaxInt => ToInt(n) = n
<1> DEFINE m == MaxInt + 1
           k == n + m
<1>1. m \in Nat /\ m > 0 /\ MaxInt = m - 1 /\ 2 * m \in Nat /\ 2 * m > 0
        /\ k \in Int
  BY TypesAssumption
<1>2. n + MaxInt + 1 = k
  BY TypesAssumption
<1> HIDE DEF k
<1>3. ToInt(n) = (k % (2 * m)) - m
  BY <1>2 DEF ToInt
<1> HIDE DEF m
<1>4. k % (2 * m) \in 0..(2 * m - 1)
  BY <1>1
<1>5. k \in 0..(2 * m - 1) => k % (2 * m) = k
  BY <1>1
<1>6. QED
  BY <1>1, <1>3, <1>4, <1>5 DEF k, m

LEMMA ToSizeFits == \A n \in Int : ToSize(n) \in Size
BY TypesAssumption DEF ToSize, Size

\* A time is shown a millisecond too short at most, and never too long.
LEMMA PrintTimesClose ==
  ASSUME NEW t \in Nat, NEW time \in PrintTimes(t)
  PROVE  time \in Nat /\ t * 100 - 1000 <= time /\ time <= t * 100
<1>1. t \div 10 \in Nat /\ t % 10 \in 0..9 /\ t = (t \div 10) * 10 + (t % 10)
  OBVIOUS
<1>2. PICK ms : /\ time = ms * 1000
                /\ ms = t \div 10
                     \/ (t > 0 /\ t % 10 = 0 /\ ms = (t \div 10) - 1)
  <2> DEFINE S == {t \div 10} \cup (IF t > 0 /\ t % 10 = 0
                                   THEN {(t \div 10) - 1} ELSE {})
  <2>1. PrintTimes(t) = {ms * 1000 : ms \in S}
    BY DEF PrintTimes
  <2>2. \A ms \in S :
          ms = t \div 10 \/ (t > 0 /\ t % 10 = 0 /\ ms = (t \div 10) - 1)
    OBVIOUS
  <2> HIDE DEF S
  <2>3. QED
    BY <2>1, <2>2
<1> DEFINE q == t \div 10
           r == t % 10
<1> HIDE DEF q, r
<1>3. q \in Nat /\ r \in 0..9 /\ t = q * 10 + r
  BY <1>1 DEF q, r
<1>4. ms = q \/ (t > 0 /\ r = 0 /\ ms = q - 1)
  BY <1>2 DEF q, r
<1>5. ms \in Nat
  BY <1>3, <1>4
<1>6. QED
  BY <1>2, <1>3, <1>4, <1>5

LEMMA MaxOfTwo ==
  ASSUME NEW n \in Int
  PROVE  Max({0, n}) = IF n > 0 THEN n ELSE 0
<1> DEFINE top == IF n > 0 THEN n ELSE 0
<1>1. top \in {0, n} /\ \A y \in {0, n} : top >= y
  OBVIOUS
<1>2. \A x \in {0, n} : (\A y \in {0, n} : x >= y) => x = top
  OBVIOUS
<1> HIDE DEF top
<1>3. Max({0, n}) = top
  BY <1>1, <1>2 DEF Max
<1>4. QED
  BY <1>3 DEF top

-----------------------------------------------------------------------------
(***************************************************************************)
(* JSON                                                                    *)
(***************************************************************************)

Tags == {"number", "string", "bool", "array", "word", "null"}

\* The members of an object are JSON, and scalars have their type.
LEMMA Members ==
  ASSUME NEW d \in Json, NEW k \in DOMAIN d, k \notin Tags
  PROVE  d[k] \in Json
<1>1. \A t \in Tags : DOMAIN d # {t}
  OBVIOUS
<1>2. QED
  BY <1>1, TypesAssumption DEF Tags

LEMMA Typed ==
  ASSUME NEW v \in Json
  PROVE  /\ DOMAIN v = {"number"} => v.number \in Int
         /\ DOMAIN v = {"string"} => v.string \in Bytes
         /\ DOMAIN v = {"bool"} => v.bool \in BOOLEAN
         /\ DOMAIN v = {"array"} => v.array \in Seq(Json)
<1>1. \A s, t : s # t => {s} # {t}
  OBVIOUS
<1>2. /\ {"string"} # {"number"}
      /\ {"bool"} # {"number"} /\ {"bool"} # {"string"}
      /\ {"array"} # {"number"} /\ {"array"} # {"string"}
      /\ {"array"} # {"bool"}
  BY <1>1
<1>3. QED
  BY <1>2, TypesAssumption

LEMMA IsATyped ==
  ASSUME NEW d \in Json, NEW k, k \notin Tags
  PROVE  /\ IsA(d, k, "number") => d[k].number \in Int
         /\ IsA(d, k, "string") => d[k].string \in Bytes
         /\ IsA(d, k, "bool") => d[k].bool \in BOOLEAN
         /\ IsA(d, k, "array") => d[k].array \in Seq(Json)
<1>1. \A t : IsA(d, k, t) => d[k] \in Json /\ DOMAIN d[k] = {t}
  BY Members DEF IsA
<1>2. QED
  BY <1>1, Typed

LEMMA Outcomes ==
  /\ \A v, e : Yields(v) # Throws(e)
  /\ \A v : "throws" \notin DOMAIN Yields(v) /\ Yields(v).yields = v
  /\ \A e : "throws" \in DOMAIN Throws(e) /\ Throws(e).throws = e
<1>1. \A v : DOMAIN Yields(v) = {"yields"} /\ Yields(v).yields = v
  BY DEF Yields
<1>2. \A e : DOMAIN Throws(e) = {"throws"} /\ Throws(e).throws = e
  BY DEF Throws
<1>3. "throws" \notin {"yields"} /\ {"yields"} # {"throws"}
  OBVIOUS
<1>4. QED
  BY <1>1, <1>2, <1>3

-----------------------------------------------------------------------------
(***************************************************************************)
(* types.cpp                                                               *)
(***************************************************************************)

\* A temperature belongs to an extruder or to the heatbed.
LEMMA TemperatureDecoded ==
  ASSUME NEW d \in Json
  PROVE  \/ \E v \in Temperature : ToTemperature(d) = Yields(v)
         \/ ToTemperature(d) \in {Throws("json"), Throws("invalid_argument")}
<1> DEFINE index == ToInt(d.id.number)
           v == [controller      |-> IF index = -1 THEN "heatbed"
                                                   ELSE "extruder",
                 controllerIndex |-> IF index = -1 THEN 0 ELSE index,
                 wanted          |-> d.S.number,
                 actual          |-> d.T.number]
           readable == IsA(d, "S", "number") /\ IsA(d, "T", "number")
<1>1. CASE ~IsA(d, "id", "number")
  BY <1>1 DEF ToTemperature
<1>2. CASE IsA(d, "id", "number") /\ index < -1
  BY <1>2 DEF ToTemperature
<1>3. CASE IsA(d, "id", "number") /\ ~(index < -1) /\ ~readable
  BY <1>3 DEF ToTemperature, Decoded
<1>4. CASE IsA(d, "id", "number") /\ ~(index < -1) /\ readable
  <2>1. ToTemperature(d) = Yields(v)
    BY <1>4 DEF ToTemperature, Decoded
  <2>2. "id" \notin Tags /\ "S" \notin Tags /\ "T" \notin Tags
    BY DEF Tags
  <2>3. d.id.number \in Int /\ d.S.number \in Int /\ d.T.number \in Int
    BY <1>4, <2>2, IsATyped
  <2>4. index \in Int
    BY <2>3, ToIntFits
  <2> HIDE DEF index
  <2>5. v \in Temperature
    BY <1>4, <2>3, <2>4 DEF Temperature
  <2>6. QED
    BY <2>1, <2>5
<1>5. QED
  BY <1>1, <1>2, <1>3, <1>4

\* What p, as the application sees it, tells of the printer d.
Tells(p, d) ==
  /\ IsA(d, "slug", "string") /\ IsA(d, "name", "string")
  /\ IsA(d, "job", "string") /\ IsA(d, "active", "bool")
  /\ p.active = d.active.bool
  /\ p.name = ToUtf8(d.name.string)
  /\ p.slug = ToUtf8(d.slug.string)
  /\ p.online = (d.online # Number(0))
  /\ p.job = ToUtf8(d.job.string)

\* A printer is converted as a whole, or an exception or undefined behaviour
\* ends the conversion.
LEMMA PrinterDecoded ==
  ASSUME NEW d \in Json, NEW o \in ToPrinter(d)
  PROVE  \/ \E p \in Printer : o = Yields(p) /\ Tells(p, d)
         \/ o \in {Throws("json"), Undefined}
<1> DEFINE p == [active |-> d.active.bool,
                 name   |-> ToUtf8(d.name.string),
                 slug   |-> ToUtf8(d.slug.string),
                 online |-> d.online # Number(0),
                 job    |-> ToUtf8(d.job.string)]
           first == IsA(d, "active", "bool") /\ IsA(d, "name", "string")
           rest == /\ IsA(d, "slug", "string")
                   /\ "online" \in DOMAIN d
                   /\ IsA(d, "job", "string")
<1>1. o \in Converting(first, {Decoded(rest, p)})
  BY DEF ToPrinter
<1>2. CASE first /\ rest
  <2>1. o = Undefined \/ o = Yields(p)
    BY <1>1, <1>2 DEF Converting, Decoded
  <2>2. \A k \in {"active", "name", "slug", "job"} : k \notin Tags
    BY DEF Tags
  <2>3. /\ d.active.bool \in BOOLEAN /\ d.name.string \in Bytes
        /\ d.slug.string \in Bytes /\ d.job.string \in Bytes
    BY <1>2, <2>2, IsATyped
  <2>4. /\ ToUtf8(d.name.string) \in Bytes /\ ToUtf8(d.slug.string) \in Bytes
        /\ ToUtf8(d.job.string) \in Bytes
    BY <2>3, ToUtf8Typed
  <2>5. p \in Printer
    BY <2>3, <2>4 DEF Printer
  <2>6. Tells(p, d)
    BY <1>2 DEF Tells
  <2>7. QED
    BY <2>1, <2>5, <2>6
<1>3. CASE ~(first /\ rest)
  BY <1>1, <1>3 DEF Converting, Decoded
<1>4. QED
  BY <1>2, <1>3

\* The same holds of a configuration, of a group and of a model.
LEMMA ConfigDecoded ==
  ASSUME NEW d \in Json, NEW o \in ToPrinterConfig(d)
  PROVE  \/ \E c \in PrinterConfig : o = Yields(c)
         \/ o \in {Throws("json"), Undefined}
<1> DEFINE bed == /\ d.general.heatedBed.bool
                  /\ "heatedBed" \in DOMAIN d
                  /\ d.heatedBed.installed.bool
           list == d.extruders.array
           c == [active       |-> d.general.active.bool,
                 slug         |-> ToUtf8(d.general.slug.string),
                 name         |-> ToUtf8(d.general.name.string),
                 firmwareName |-> ToUtf8(d.general.firmwareName.string),
                 extruders    |-> [i \in DOMAIN list |->
                                     ToInt(list[i].maxTemp.number)],
                 heatbed      |-> IF bed
                                  THEN {ToInt(d.heatedBed.maxTemp.number)}
                                  ELSE {}]
           first == /\ "general" \in DOMAIN d
                    /\ IsA(d.general, "active", "bool")
                    /\ IsA(d.general, "slug", "string")
           rest == /\ IsA(d.general, "name", "string")
                   /\ IsA(d.general, "firmwareName", "string")
                   /\ IsA(d, "extruders", "array")
                   /\ \A i \in DOMAIN list : IsA(list[i], "maxTemp", "number")
                   /\ HeatedBedReadable(d)
<1>1. o \in Converting(first, {Decoded(rest, c)})
  BY Zenon DEF ToPrinterConfig
<1>2. CASE first /\ rest
  <2>1. o = Undefined \/ o = Yields(c)
    <3> HIDE DEF c, first, rest
    <3>1. QED
      BY <1>1, <1>2 DEF Converting, Decoded
  <2>2. \A k \in {"general", "active", "slug", "name", "firmwareName",
                  "extruders", "maxTemp", "heatedBed"} : k \notin Tags
    BY DEF Tags
  <2>3. d.general \in Json
    BY <1>2, <2>2, Members
  <2>4. /\ d.general.active.bool \in BOOLEAN /\ d.general.slug.string \in Bytes
        /\ d.general.name.string \in Bytes
        /\ d.general.firmwareName.string \in Bytes
    BY <1>2, <2>2, <2>3, IsATyped
  <2>5. list \in Seq(Json)
    BY <1>2, <2>2, IsATyped
  <2>6. \A i \in DOMAIN list : ToInt(list[i].maxTemp.number) \in Int
    <3>1. \A i \in DOMAIN list : list[i] \in Json
      BY <2>5
    <3>2. \A i \in DOMAIN list : list[i].maxTemp.number \in Int
      BY <1>2, <2>2, <3>1, IsATyped
    <3>3. QED
      BY <3>2, ToIntFits
  <2>7. [i \in DOMAIN list |-> ToInt(list[i].maxTemp.number)] \in Seq(Int)
    BY <2>5, <2>6
  <2>8. bed => ToInt(d.heatedBed.maxTemp.number) \in Int
    <3>1. bed => /\ IsA(d.heatedBed, "maxTemp", "number")
                 /\ "heatedBed" \in DOMAIN d
      BY <1>2 DEF HeatedBedReadable
    <3>2. bed => d.heatedBed \in Json
      BY <2>2, <3>1, Members
    <3>3. bed => d.heatedBed.maxTemp.number \in Int
      BY <2>2, <3>1, <3>2, IsATyped
    <3>4. QED
      BY <3>3, ToIntFits
  <2>9. /\ ToUtf8(d.general.slug.string) \in Bytes
        /\ ToUtf8(d.general.name.string) \in Bytes
        /\ ToUtf8(d.general.firmwareName.string) \in Bytes
    BY <2>4, ToUtf8Typed
  <2> HIDE DEF bed, list
  <2>10. c \in PrinterConfig
    BY <2>4, <2>7, <2>8, <2>9 DEF PrinterConfig
  <2>11. QED
    BY <2>1, <2>10
<1>3. CASE ~(first /\ rest)
  <2> HIDE DEF c, first, rest
  <2>1. QED
    BY <1>1, <1>3 DEF Converting, Decoded
<1>4. QED
  BY <1>2, <1>3

LEMMA GroupDecoded ==
  ASSUME NEW d \in Json, NEW o \in ToModelGroup(d)
  PROVE  \/ \E g \in ModelGroup : o = Yields(g)
         \/ o \in {Throws("json"), Undefined}
<1>1. CASE DOMAIN d = {"string"}
  <2>1. [name |-> ToUtf8(d.string)] \in ModelGroup
    <3>1. d.string \in Bytes
      BY <1>1, Typed
    <3>2. ToUtf8(d.string) \in Bytes
      BY <3>1, ToUtf8Typed
    <3>3. QED
      BY <3>2 DEF ModelGroup
  <2>2. o = Undefined \/ o = Yields([name |-> ToUtf8(d.string)])
    BY <1>1 DEF ToModelGroup, Converting
  <2>3. QED
    BY <2>1, <2>2
<1>2. CASE DOMAIN d # {"string"}
  BY <1>2 DEF ToModelGroup, Converting
<1>3. QED
  BY <1>1, <1>2

\* How the print time the application is shown relates to the one sent.
Timed(m, d) ==
  /\ IsA(d, "printTime", "number") /\ d.printTime.number \in Int
  /\ m.printTime \in PrintTimes(Max({0, d.printTime.number}))

LEMMA ModelDecoded ==
  ASSUME NEW d \in Json, NEW o \in ToModel(d)
  PROVE  \/ \E m \in Model : o = Yields(m) /\ Timed(m, d)
         \/ o \in {Throws("json"), Undefined}
<1> DEFINE first == IsA(d, "id", "number") /\ IsA(d, "name", "string")
           rest == /\ IsA(d, "group", "string")
                   /\ \A k \in {"created", "length", "layer", "lines",
                               "printTime"} : IsA(d, k, "number")
           m(time) == [id         |-> ToSize(d.id.number),
                       name       |-> ToUtf8(d.name.string),
                       modelGroup |-> ToUtf8(d.group.string),
                       created    |-> ToSize(d.created.number) \div 1000,
                       length     |-> ToSize(d.length.number),
                       layers     |-> ToSize(d.layer.number),
                       lines      |-> ToSize(d.lines.number),
                       printTime  |-> time]
           times == PrintTimes(Max({0, d.printTime.number}))
           fits == d.printTime.number \in -9..MaxTime
<1>1. o \in Converting(first, IF ~rest THEN {Throws("json")}
                              ELSE IF ~fits THEN {Undefined}
                              ELSE {Yields(m(time)) : time \in times})
  BY Zenon DEF ToModel
<1>2. CASE first /\ rest /\ fits
  <2>1. o = Undefined \/ \E time \in times : o = Yields(m(time))
    <3> HIDE DEF m, first, rest, fits, times
    <3>1. QED
      BY <1>1, <1>2 DEF Converting
  <2>2. \A k \in {"id", "name", "group", "created", "length", "layer", "lines",
                  "printTime"} : k \notin Tags
    BY DEF Tags
  <2>3. /\ d.id.number \in Int /\ d.created.number \in Int
        /\ d.length.number \in Int /\ d.layer.number \in Int
        /\ d.lines.number \in Int /\ d.printTime.number \in Int
        /\ d.name.string \in Bytes /\ d.group.string \in Bytes
    BY <1>2, <2>2, IsATyped
  <2>4. /\ ToSize(d.id.number) \in Size /\ ToSize(d.created.number) \in Size
        /\ ToSize(d.length.number) \in Size /\ ToSize(d.layer.number) \in Size
        /\ ToSize(d.lines.number) \in Size
    BY <2>3, ToSizeFits
  <2>5. ToSize(d.created.number) \div 1000 \in Size
    <3>1. \A n \in Size : n \div 1000 \in Size
      BY TypesAssumption DEF Size
    <3>2. QED
      BY <2>4, <3>1
  <2>6. ToUtf8(d.name.string) \in Bytes /\ ToUtf8(d.group.string) \in Bytes
    BY <2>3, ToUtf8Typed
  <2>7. \A time \in times : time \in Nat
    <3>1. Max({0, d.printTime.number}) \in Nat
      BY <2>3, MaxOfTwo
    <3>2. QED
      BY <3>1, PrintTimesClose
  <2>8. ASSUME NEW time \in times PROVE m(time) \in Model /\ Timed(m(time), d)
    <3>1. time \in Nat
      BY <2>7
    <3>2. m(time) \in Model
      BY <2>4, <2>5, <2>6, <3>1 DEF Model
    <3>3. m(time).printTime = time
      OBVIOUS
    <3>4. IsA(d, "printTime", "number")
      BY <1>2
    <3> HIDE DEF m
    <3>5. QED
      BY <2>3, <3>2, <3>3, <3>4 DEF Timed
  <2> HIDE DEF m, times
  <2>9. QED
    BY <2>1, <2>8
<1>3. CASE ~(first /\ rest /\ fits)
  <2> HIDE DEF m, first, rest, fits, times
  <2>1. QED
    BY <1>1, <1>3 DEF Converting
<1>4. QED
  BY <1>2, <1>3
=============================================================================
