---------------------------- MODULE MessagesProofs ----------------------------
(***************************************************************************)
(* Theorems about Messages, for every set of messages, every width of int  *)
(* and size_t and any number of messages.                                  *)
(***************************************************************************)
EXTENDS Messages, TypesProofs

-----------------------------------------------------------------------------
(***************************************************************************)
(* Outcomes                                                                *)
(***************************************************************************)

\* One more thing is done, which may turn out in the ways of "next".
More(ways, next) == {Append(outs, o) : outs \in ways, o \in next}

\* The functions Each chooses from.
Ways(ways, cs) ==
  ways = [n \in 0..Len(cs) |-> IF n = 0 THEN {<<>>}
                               ELSE More(ways[n - 1], cs[n])]

\* The same, of the first n things.
WaysUpTo(ways, cs, n) ==
  /\ DOMAIN ways = 0..n /\ ways = [i \in 0..n |-> ways[i]]
  /\ ways[0] = {<<>>}
  /\ \A i \in 1..n : ways[i] = More(ways[i - 1], cs[i])

LEMMA WaysExist ==
  ASSUME NEW cs, Len(cs) \in Nat
  PROVE  \E ways : Ways(ways, cs)
<1> DEFINE T == {m \in Nat : \E f : WaysUpTo(f, cs, m)}
<1>1. 0 \in T
  <2> DEFINE f == [n \in 0..0 |-> {<<>>}]
  <2>1. WaysUpTo(f, cs, 0)
    <3>1. DOMAIN f = 0..0 /\ f[0] = {<<>>} /\ 1..0 = {}
      OBVIOUS
    <3>2. f = [i \in 0..0 |-> f[i]]
      OBVIOUS
    <3> HIDE DEF f
    <3>3. QED
      BY <3>1, <3>2 DEF WaysUpTo
  <2>2. QED
    BY <2>1
<1>2. ASSUME NEW m \in Nat, m \in T PROVE m + 1 \in T
  <2>1. PICK f : WaysUpTo(f, cs, m)
    BY <1>2
  <2> DEFINE last == More(f[m], cs[m + 1])
             g == [n \in 0..m + 1 |-> IF n = m + 1 THEN last ELSE f[n]]
  <2> HIDE DEF last
  <2>2. DOMAIN g = 0..m + 1 /\ g[m + 1] = last
    OBVIOUS
  <2>3. \A n \in 0..m : g[n] = f[n]
    OBVIOUS
  <2>4. g = [i \in 0..m + 1 |-> g[i]]
    OBVIOUS
  <2> HIDE DEF g
  <2>5. g[0] = {<<>>}
    <3>1. 0 \in 0..m
      OBVIOUS
    <3>2. QED
      BY <2>1, <2>3, <3>1 DEF WaysUpTo
  <2>6. ASSUME NEW n \in 1..m + 1 PROVE g[n] = More(g[n - 1], cs[n])
    <3>1. CASE n = m + 1
      <4>1. n - 1 = m /\ m \in 0..m
        BY <3>1
      <4>2. g[n - 1] = f[m]
        BY <2>3, <4>1
      <4>3. QED
        BY <2>2, <3>1, <4>2 DEF last
    <3>2. CASE n # m + 1
      <4>1. n \in 1..m /\ n \in 0..m /\ n - 1 \in 0..m
        BY <3>2
      <4>2. g[n] = f[n] /\ g[n - 1] = f[n - 1]
        BY <2>3, <4>1
      <4>3. f[n] = More(f[n - 1], cs[n])
        BY <2>1, <4>1 DEF WaysUpTo
      <4>4. QED
        BY <4>2, <4>3
    <3>3. QED
      BY <3>1, <3>2
  <2>7. WaysUpTo(g, cs, m + 1)
    BY <2>2, <2>4, <2>5, <2>6 DEF WaysUpTo
  <2>8. QED
    BY <2>7
<1>3. Len(cs) \in T
  <2> HIDE DEF T
  <2>1. QED
    BY <1>1, <1>2, Induction
<1>4. PICK f : WaysUpTo(f, cs, Len(cs))
  BY <1>3
<1>5. ASSUME NEW n \in 0..Len(cs)
      PROVE  f[n] = IF n = 0 THEN {<<>>} ELSE More(f[n - 1], cs[n])
  <2>1. n # 0 => n \in 1..Len(cs)
    OBVIOUS
  <2>2. QED
    BY <1>4, <2>1 DEF WaysUpTo
<1>6. Ways(f, cs)
  BY <1>4, <1>5 DEF Ways, WaysUpTo
<1>7. QED
  BY <1>6

\* What can be said of the ways n things turn out together.
Fits(ways, cs, n, All) ==
  \A o \in ways : /\ o \in Seq(All) /\ Len(o) = n
                  /\ \A i \in 1..n : o[i] \in cs[i]

\* Of things done one after the other, each has turned out one of its ways.
LEMMA EachOutcome ==
  ASSUME NEW cs, Len(cs) \in Nat, NEW outs \in Each(cs)
  PROVE  /\ DOMAIN outs = 1..Len(cs) /\ Len(outs) = Len(cs)
         /\ \A i \in 1..Len(cs) : outs[i] \in cs[i]
<1> DEFINE ways == CHOOSE ways : Ways(ways, cs)
           N == Len(cs)
           All == UNION {cs[i] : i \in 1..N}
           T == {n \in Nat : n <= N => Fits(ways[n], cs, n, All)}
<1>1. Ways(ways, cs)
  BY WaysExist
<1>2. Each(cs) = ways[N]
  BY DEF Each, Ways, More
<1> HIDE DEF ways
<1>3. ASSUME NEW n \in 0..N
      PROVE  ways[n] = IF n = 0 THEN {<<>>} ELSE More(ways[n - 1], cs[n])
  BY <1>1 DEF Ways
<1>4. ASSUME NEW n \in 1..N, NEW c \in cs[n] PROVE c \in All
  OBVIOUS
<1> HIDE DEF All
<1>5. 0 \in T
  <2>1. ways[0] = {<<>>}
    <3>1. 0 \in 0..N
      OBVIOUS
    <3>2. QED
      BY <1>3, <3>1
  <2>2. <<>> \in Seq(All) /\ Len(<<>>) = 0 /\ 1..0 = {}
    OBVIOUS
  <2>3. Fits(ways[0], cs, 0, All)
    BY <2>1, <2>2 DEF Fits
  <2>4. QED
    BY <2>3
<1>6. ASSUME NEW n \in Nat, n \in T PROVE n + 1 \in T
  <2>1. SUFFICES ASSUME n + 1 <= N PROVE Fits(ways[n + 1], cs, n + 1, All)
    OBVIOUS
  <2>2. /\ n + 1 \in 0..N /\ n + 1 \in 1..N /\ n + 1 # 0
        /\ (n + 1) - 1 = n /\ n <= N
    BY <2>1
  <2>3. ways[n + 1] = More(ways[n], cs[n + 1])
    <3>1. ways[n + 1] = IF n + 1 = 0 THEN {<<>>}
                        ELSE More(ways[(n + 1) - 1], cs[n + 1])
      BY <1>3, <2>2
    <3>2. QED
      BY <2>2, <3>1
  <2>4. Fits(ways[n], cs, n, All)
    BY <1>6, <2>2
  <2>5. ASSUME NEW o \in ways[n], NEW c \in cs[n + 1]
        PROVE  /\ Append(o, c) \in Seq(All)
               /\ Len(Append(o, c)) = n + 1
               /\ \A i \in 1..n + 1 : Append(o, c)[i] \in cs[i]
    <3>1. c \in All
      BY <1>4, <2>2
    <3>2. o \in Seq(All) /\ Len(o) = n /\ \A i \in 1..n : o[i] \in cs[i]
      BY <2>4 DEF Fits
    <3>3. /\ Append(o, c) \in Seq(All) /\ Len(Append(o, c)) = n + 1
          /\ \A i \in 1..n : Append(o, c)[i] = o[i]
          /\ Append(o, c)[n + 1] = c
      BY <3>1, <3>2
    <3>4. \A i \in 1..n + 1 : i \in 1..n \/ i = n + 1
      OBVIOUS
    <3>5. QED
      BY <3>2, <3>3, <3>4
  <2>6. \A w \in ways[n + 1] :
          \E o \in ways[n], c \in cs[n + 1] : w = Append(o, c)
    BY <2>3 DEF More
  <2>7. \A w \in ways[n + 1] : /\ w \in Seq(All) /\ Len(w) = n + 1
                              /\ \A i \in 1..n + 1 : w[i] \in cs[i]
    BY <2>5, <2>6
  <2>8. QED
    BY <2>7 DEF Fits
<1>7. N \in T
  <2> HIDE DEF T
  <2>1. QED
    BY <1>5, <1>6, Induction
<1>8. outs \in Seq(All) /\ Len(outs) = N /\ \A i \in 1..N : outs[i] \in cs[i]
  BY <1>2, <1>7 DEF Fits
<1>9. QED
  BY <1>8

\* The least of the positions at which something failed.
LEMMA LeastOf ==
  ASSUME NEW S \in SUBSET Nat, S # {}
  PROVE  Min(S) \in S /\ \A x \in S : Min(S) <= x
<1>1. PICK n \in S : \A x \in S : <<x, n>> \notin Less
  BY LessWellFounded, WFMin
<1>2. ASSUME NEW x \in S PROVE n <= x
  <2>1. n \in Nat /\ x \in Nat /\ <<x, n>> \notin Less
    BY <1>1
  <2>2. ~(x < n)
    BY <2>1 DEF Less
  <2>3. QED
    BY <2>1, <2>2
<1>3. QED
  BY <1>2 DEF Min

\* An outcome either yields a value or throws, as each of these does.
IsOutcome(o) == (\E v : o = Yields(v)) \/ (\E e : o = Throws(e))

\* A vector has a converted element for every element of the array, or its
\* conversion ends like that of one of them.
Gathered(cs) == {IF Failed(outs) = {}
                 THEN Yields([i \in DOMAIN outs |-> outs[i].yields])
                 ELSE outs[Min(Failed(outs))] : outs \in Each(cs)}

\* All elements are converted, or one of them ended the conversion.
LEMMA GatheredOutcome ==
  ASSUME NEW cs, Len(cs) \in Nat, NEW o \in Gathered(cs),
         \A i \in 1..Len(cs) : \A c \in cs[i] : IsOutcome(c)
  PROVE  \/ \E v : /\ o = Yields(v) /\ v = [i \in 1..Len(cs) |-> v[i]]
                   /\ \A i \in 1..Len(cs) : Yields(v[i]) \in cs[i]
         \/ \E i \in 1..Len(cs) : \E e : o = Throws(e) /\ o \in cs[i]
<1>1. PICK outs \in Each(cs) :
        o = IF Failed(outs) = {}
            THEN Yields([i \in DOMAIN outs |-> outs[i].yields])
            ELSE outs[Min(Failed(outs))]
  BY DEF Gathered
<1>2. DOMAIN outs = 1..Len(cs) /\ \A i \in 1..Len(cs) : outs[i] \in cs[i]
  BY EachOutcome
<1>3. \A i \in 1..Len(cs) : IsOutcome(outs[i])
  BY <1>2
<1>4. CASE Failed(outs) = {}
  <2> DEFINE v == [i \in 1..Len(cs) |-> outs[i].yields]
  <2>1. ASSUME NEW i \in 1..Len(cs) PROVE Yields(v[i]) = outs[i]
    <3>1. "throws" \notin DOMAIN outs[i]
      BY <1>2, <1>4 DEF Failed
    <3>2. PICK w : outs[i] = Yields(w)
      BY <1>3, <3>1, Outcomes DEF IsOutcome
    <3>3. v[i] = w
      BY <3>2, Outcomes
    <3>4. QED
      BY <3>2, <3>3
  <2>2. o = Yields(v)
    BY <1>1, <1>2, <1>4
  <2>3. v = [i \in 1..Len(cs) |-> v[i]]
    OBVIOUS
  <2> HIDE DEF v
  <2>4. QED
    BY <1>2, <2>1, <2>2, <2>3
<1>5. CASE Failed(outs) # {}
  <2>1. Failed(outs) \in SUBSET Nat /\ Failed(outs) \subseteq 1..Len(cs)
    BY <1>2 DEF Failed
  <2>2. Min(Failed(outs)) \in Failed(outs)
    BY <1>5, <2>1, LeastOf
  <2> DEFINE k == Min(Failed(outs))
  <2>3. k \in 1..Len(cs) /\ "throws" \in DOMAIN outs[k]
    BY <2>1, <2>2 DEF Failed
  <2>4. o = outs[k]
    BY <1>1, <1>5
  <2> HIDE DEF k
  <2>5. PICK e : outs[k] = Throws(e)
    BY <1>3, <2>3, Outcomes DEF IsOutcome
  <2>6. QED
    BY <1>2, <2>3, <2>4, <2>5
<1>6. QED
  BY <1>4, <1>5

-----------------------------------------------------------------------------
(***************************************************************************)
(* Conversions                                                             *)
(***************************************************************************)

\* What throws although the data is well-formed throws something else.
LEMMA TemperatureFormed ==
  ASSUME NEW d \in Json, TemperatureForm(d)
  PROVE  ToTemperature(d) \notin {Throws("json"), Throws("invalid_argument")}
<1>1. IsA(d, "id", "number") /\ IsA(d, "S", "number") /\ IsA(d, "T", "number")
  BY DEF TemperatureForm
<1>2. ToInt(d.id.number) = d.id.number /\ ~(d.id.number < -1)
  <2>1. d.id.number \in -1..MaxInt
    BY DEF TemperatureForm
  <2>2. d.id.number \in Int /\ d.id.number \in -(MaxInt + 1)..MaxInt
    BY <2>1, TypesAssumption
  <2>3. QED
    BY <2>1, <2>2, ToIntFits
<1>3. \E v : ToTemperature(d) = Yields(v)
  BY <1>1, <1>2 DEF ToTemperature, Decoded
<1>4. QED
  BY <1>3, Outcomes

\* An exception of json is not taken for undefined behaviour.
LEMMA JsonThrown == Throws("json") # Undefined
<1>1. Throws("json").throws # Undefined.throws
  BY DEF Throws, Undefined
<1>2. QED
  BY <1>1

LEMMA PrinterFormed ==
  ASSUME NEW d, PrinterForm(d), NEW o \in ToPrinter(d)
  PROVE  o # Throws("json")
<1>1. /\ IsA(d, "active", "bool") /\ IsA(d, "name", "string")
      /\ IsA(d, "slug", "string") /\ IsA(d, "job", "string")
      /\ "online" \in DOMAIN d
  BY DEF PrinterForm, IsA
<1>2. o = Undefined \/ \E p : o = Yields(p)
  BY <1>1 DEF ToPrinter, Converting, Decoded
<1>3. QED
  BY <1>2, JsonThrown, Outcomes

LEMMA ConfigFormed ==
  ASSUME NEW d, ConfigForm(d), NEW o \in ToPrinterConfig(d)
  PROVE  o # Throws("json")
<1>1. /\ "general" \in DOMAIN d /\ IsA(d.general, "active", "bool")
      /\ IsA(d.general, "slug", "string") /\ IsA(d.general, "name", "string")
      /\ IsA(d.general, "firmwareName", "string")
      /\ IsA(d, "extruders", "array")
      /\ \A i \in DOMAIN d.extruders.array :
           IsA(d.extruders.array[i], "maxTemp", "number")
  BY DEF ConfigForm, ExtruderForm
<1>2. HeatedBedReadable(d)
  BY DEF ConfigForm, HeatbedForm, HeatedBedReadable
<1>3. o = Undefined \/ \E c : o = Yields(c)
  BY <1>1, <1>2 DEF ToPrinterConfig, Converting, Decoded
<1>4. QED
  BY <1>3, JsonThrown, Outcomes

LEMMA GroupFormed ==
  ASSUME NEW d, GroupForm(d), NEW o \in ToModelGroup(d)
  PROVE  o # Throws("json")
<1>1. o = Undefined \/ \E g : o = Yields(g)
  BY DEF GroupForm, ToModelGroup, Converting
<1>2. QED
  BY <1>1, JsonThrown, Outcomes

LEMMA ModelFormed ==
  ASSUME NEW d, ModelForm(d), NEW o \in ToModel(d)
  PROVE  o # Throws("json")
<1>1. /\ IsA(d, "id", "number") /\ IsA(d, "name", "string")
      /\ IsA(d, "group", "string")
      /\ \A k \in {"created", "length", "layer", "lines", "printTime"} :
           IsA(d, k, "number")
  BY DEF ModelForm
<1> DEFINE dst(time) ==
             [id         |-> ToSize(d.id.number),
              name       |-> ToUtf8(d.name.string),
              modelGroup |-> ToUtf8(d.group.string),
              created    |-> ToSize(d.created.number) \div 1000,
              length     |-> ToSize(d.length.number),
              layers     |-> ToSize(d.layer.number),
              lines      |-> ToSize(d.lines.number),
              printTime  |-> time]
           times == PrintTimes(Max({0, d.printTime.number}))
           Full == {Yields(dst(time)) : time \in times}
           far == d.printTime.number \notin -9..MaxTime
<1>2. ToModel(d) = Converting(TRUE, IF far THEN {Undefined} ELSE Full)
  BY <1>1 DEF ToModel
<1> HIDE DEF dst, times, far
<1>3. o = Undefined \/ \E m : o = Yields(m)
  BY <1>2 DEF Converting
<1>4. QED
  BY <1>3, JsonThrown, Outcomes

\* A list is converted element by element, R saying of each what it tells of
\* its original.
LEMMA ListConverted ==
  ASSUME NEW cs, Len(cs) \in Nat, NEW o \in Gathered(cs), NEW Class, NEW R,
         \A i \in 1..Len(cs) : \A c \in cs[i] :
           \/ \E p \in Class : c = Yields(p) /\ <<i, p>> \in R
           \/ c \in {Throws("json"), Undefined}
  PROVE  \/ \E v \in Seq(Class) : /\ o = Yields(v) /\ DOMAIN v = 1..Len(cs)
                                  /\ \A i \in 1..Len(cs) : <<i, v[i]>> \in R
         \/ /\ o \in {Throws("json"), Undefined}
            /\ \E i \in 1..Len(cs) : o \in cs[i]
<1> DEFINE n == Len(cs)
<1>1. \A i \in 1..n : \A c \in cs[i] : IsOutcome(c)
  BY DEF IsOutcome, Undefined
<1>2. \/ \E v : /\ o = Yields(v) /\ v = [i \in 1..n |-> v[i]]
                /\ \A i \in 1..n : Yields(v[i]) \in cs[i]
      \/ \E i \in 1..n : \E e : o = Throws(e) /\ o \in cs[i]
  BY <1>1, GatheredOutcome
<1> HIDE DEF n
<1>3. ASSUME NEW v, o = Yields(v), v = [i \in 1..n |-> v[i]],
             \A i \in 1..n : Yields(v[i]) \in cs[i]
      PROVE  /\ v \in Seq(Class) /\ DOMAIN v = 1..n
             /\ \A i \in 1..n : <<i, v[i]>> \in R
  <2>1. ASSUME NEW i \in 1..n PROVE v[i] \in Class /\ <<i, v[i]>> \in R
    <3>1. Yields(v[i]) \notin {Throws("json"), Undefined}
      BY Outcomes DEF Undefined
    <3>2. PICK p \in Class : Yields(v[i]) = Yields(p) /\ <<i, p>> \in R
      BY <1>3, <3>1 DEF n
    <3>3. v[i] = p
      BY <3>2, Outcomes
    <3>4. QED
      BY <3>2, <3>3
  <2>2. n \in Nat
    BY DEF n
  <2>3. \A w : w = [i \in 1..n |-> w[i]] /\ (\A i \in 1..n : w[i] \in Class)
                => w \in Seq(Class) /\ DOMAIN w = 1..n
    BY <2>2
  <2>4. QED
    BY <1>3, <2>1, <2>3
<1>4. ASSUME NEW i \in 1..n, NEW e, o = Throws(e), o \in cs[i]
      PROVE  o \in {Throws("json"), Undefined}
  BY <1>4, Outcomes DEF n
<1>5. QED
  BY <1>2, <1>3, <1>4 DEF n

\* So are lists of printers, of models and of groups.
LEMMA PrintersConverted ==
  ASSUME NEW d \in Json, NEW o \in ArrayOf(d, ToPrinter)
  PROVE  \/ \E v \in Seq(Printer) :
              /\ o = Yields(v)
              /\ DOMAIN d = {"array"} /\ DOMAIN v = DOMAIN d.array
              /\ \A i \in DOMAIN v : Tells(v[i], d.array[i])
         \/ /\ o \in {Throws("json"), Undefined}
            /\ o = Throws("json") => ~ListForm(d, PrinterForm)
<1>1. CASE DOMAIN d # {"array"}
  BY <1>1 DEF ArrayOf, ListForm
<1>2. CASE DOMAIN d = {"array"}
  <2> DEFINE cs == [i \in DOMAIN d.array |-> ToPrinter(d.array[i])]
             n == Len(d.array)
             R == {q \in (1..n) \X Printer : Tells(q[2], d.array[q[1]])}
  <2>1. o \in Gathered(cs)
    BY <1>2 DEF ArrayOf, Gathered
  <2>2. d.array \in Seq(Json)
    BY <1>2, Typed
  <2>3. Len(cs) = n /\ n \in Nat /\ DOMAIN d.array = 1..n
    BY <2>2
  <2>4. \A i \in 1..n : cs[i] = ToPrinter(d.array[i]) /\ d.array[i] \in Json
    BY <2>2, <2>3
  <2> HIDE DEF cs, n
  <2>5. ASSUME NEW i \in 1..n, NEW c \in cs[i]
        PROVE  \/ \E p \in Printer : c = Yields(p) /\ <<i, p>> \in R
               \/ c \in {Throws("json"), Undefined}
    BY <2>4, PrinterDecoded
  <2>6. \A i \in 1..n : \A p : <<i, p>> \in R => Tells(p, d.array[i])
    OBVIOUS
  <2> HIDE DEF R
  <2>7. \/ \E v \in Seq(Printer) : /\ o = Yields(v) /\ DOMAIN v = 1..n
                                   /\ \A i \in 1..n : <<i, v[i]>> \in R
        \/ /\ o \in {Throws("json"), Undefined}
           /\ \E i \in 1..n : o \in cs[i]
    BY <2>1, <2>3, <2>5, ListConverted
  <2>8. ASSUME NEW i \in 1..n, o \in cs[i], ListForm(d, PrinterForm)
        PROVE  o # Throws("json")
    BY <2>3, <2>4, <2>8, PrinterFormed DEF ListForm
  <2>9. QED
    BY <1>2, <2>3, <2>6, <2>7, <2>8
<1>3. QED
  BY <1>1, <1>2

LEMMA ModelsConverted ==
  ASSUME NEW d \in Json, NEW o \in ArrayOf(d, ToModel)
  PROVE  \/ \E v \in Seq(Model) :
              /\ o = Yields(v) /\ DOMAIN v = DOMAIN d.array
              /\ \A i \in DOMAIN v : Timed(v[i], d.array[i])
         \/ /\ o \in {Throws("json"), Undefined}
            /\ o = Throws("json") => ~ListForm(d, ModelForm)
<1>1. CASE DOMAIN d # {"array"}
  BY <1>1 DEF ArrayOf, ListForm
<1>2. CASE DOMAIN d = {"array"}
  <2> DEFINE cs == [i \in DOMAIN d.array |-> ToModel(d.array[i])]
             n == Len(d.array)
             R == {q \in (1..n) \X Model : Timed(q[2], d.array[q[1]])}
  <2>1. o \in Gathered(cs)
    BY <1>2 DEF ArrayOf, Gathered
  <2>2. d.array \in Seq(Json)
    BY <1>2, Typed
  <2>3. Len(cs) = n /\ n \in Nat /\ DOMAIN d.array = 1..n
    BY <2>2
  <2>4. \A i \in 1..n : cs[i] = ToModel(d.array[i]) /\ d.array[i] \in Json
    BY <2>2, <2>3
  <2> HIDE DEF cs, n
  <2>5. ASSUME NEW i \in 1..n, NEW c \in cs[i]
        PROVE  \/ \E m \in Model : c = Yields(m) /\ <<i, m>> \in R
               \/ c \in {Throws("json"), Undefined}
    BY <2>4, ModelDecoded
  <2>6. \A i \in 1..n : \A m : <<i, m>> \in R => Timed(m, d.array[i])
    OBVIOUS
  <2> HIDE DEF R
  <2>7. \/ \E v \in Seq(Model) : /\ o = Yields(v) /\ DOMAIN v = 1..n
                                 /\ \A i \in 1..n : <<i, v[i]>> \in R
        \/ /\ o \in {Throws("json"), Undefined}
           /\ \E i \in 1..n : o \in cs[i]
    BY <2>1, <2>3, <2>5, ListConverted
  <2>8. ASSUME NEW i \in 1..n, o \in cs[i], ListForm(d, ModelForm)
        PROVE  o # Throws("json")
    BY <2>3, <2>4, <2>8, ModelFormed DEF ListForm
  <2>9. QED
    BY <2>3, <2>6, <2>7, <2>8
<1>3. QED
  BY <1>1, <1>2

LEMMA GroupsConverted ==
  ASSUME NEW d \in Json, NEW o \in ArrayOf(d, ToModelGroup)
  PROVE  \/ \E v \in Seq(ModelGroup) : o = Yields(v)
         \/ /\ o \in {Throws("json"), Undefined}
            /\ o = Throws("json") => ~ListForm(d, GroupForm)
<1>1. CASE DOMAIN d # {"array"}
  BY <1>1 DEF ArrayOf, ListForm
<1>2. CASE DOMAIN d = {"array"}
  <2> DEFINE cs == [i \in DOMAIN d.array |-> ToModelGroup(d.array[i])]
             n == Len(d.array)
             R == (1..n) \X ModelGroup
  <2>1. o \in Gathered(cs)
    BY <1>2 DEF ArrayOf, Gathered
  <2>2. d.array \in Seq(Json)
    BY <1>2, Typed
  <2>3. Len(cs) = n /\ n \in Nat /\ DOMAIN d.array = 1..n
    BY <2>2
  <2>4. \A i \in 1..n : cs[i] = ToModelGroup(d.array[i]) /\ d.array[i] \in Json
    BY <2>2, <2>3
  <2> HIDE DEF cs, n
  <2>5. ASSUME NEW i \in 1..n, NEW c \in cs[i]
        PROVE  \/ \E g \in ModelGroup : c = Yields(g) /\ <<i, g>> \in R
               \/ c \in {Throws("json"), Undefined}
    BY <2>4, GroupDecoded
  <2> HIDE DEF R
  <2>6. \/ \E v \in Seq(ModelGroup) : o = Yields(v)
        \/ /\ o \in {Throws("json"), Undefined}
           /\ \E i \in 1..n : o \in cs[i]
    BY <2>1, <2>3, <2>5, ListConverted
  <2>7. ASSUME NEW i \in 1..n, o \in cs[i], ListForm(d, GroupForm)
        PROVE  o # Throws("json")
    BY <2>3, <2>4, <2>7, GroupFormed DEF ListForm
  <2>8. QED
    BY <2>6, <2>7
<1>3. QED
  BY <1>1, <1>2

-----------------------------------------------------------------------------
(***************************************************************************)
(* Handlers                                                                *)
(***************************************************************************)

Signals == DOMAIN ValueType
Slug == Slugs \cup Bytes

\* What a handler is to pass on, and what it has passed on.
Due == [signal : Signals, slug : Slug, data : Json] \cup {Unreadable}
Delivery ==
  UNION {[signal : {s}, slug : Slug, value : ValueType[s]] : s \in Signals}

\* What the value v tells of the data that h was given.
Conveys(v, h) ==
  /\ h.signal = "printers" =>
       /\ DOMAIN h.data = {"array"} /\ DOMAIN v = DOMAIN h.data.array
       /\ \A i \in DOMAIN v : Tells(v[i], h.data.array[i])
  /\ h.signal = "models" =>
       /\ DOMAIN v = DOMAIN h.data.data.array
       /\ \A i \in DOMAIN v : Timed(v[i], h.data.data.array[i])

\* Why h can have ended the loop with the exception e.
Reason(e, h) ==
  /\ e \in DOMAIN Ends
  /\ e \in {"json", "invalid_argument"} => ~WellFormed(h.signal, h.data)
  /\ e = "invalid_argument" => h.signal = "temperature"

LEMMA SignalNames ==
  Signals =
    {"temperature", "printers", "config", "groups", "models", "refresh"}
BY DEF Signals, ValueType

LEMMA EndNames ==
  DOMAIN Ends = {"json", "system_error", "invalid_argument", "undefined"}
BY DEF Ends

\* Whatever the data of a handler is, it yields a value of the class the slots
\* expect, telling of the data, or there is a reason why it throws.
LEMMA ConvertedOutcome ==
  ASSUME NEW h \in Due, NEW o \in Converted(h)
  PROVE  \/ \E v \in ValueType[h.signal] :
              o = Yields(v) /\ Conveys(v, h) /\ h.signal \in Signals
         \/ \E e : o = Throws(e) /\ Reason(e, h)
<1>1. CASE h = Unreadable
  <2>1. h.signal = "unreadable"
    BY <1>1 DEF Unreadable, Handler
  <2>2. o = Throws("json")
    BY <2>1 DEF Converted
  <2>3. Reason("json", h)
    BY <2>1, EndNames DEF Reason, WellFormed
  <2>4. QED
    BY <2>2, <2>3
<1>2. CASE h \in [signal : Signals, slug : Slug, data : Json]
  <2>1. h.data \in Json /\ h.signal \in Signals
    BY <1>2
  <2> DEFINE d == h.data
             Goal == \/ \E v \in ValueType[h.signal] :
                          /\ o = Yields(v) /\ Conveys(v, h)
                          /\ h.signal \in Signals
                     \/ \E e : o = Throws(e) /\ Reason(e, h)
  <2>2. ASSUME h.signal = "temperature" PROVE Goal
    <3>1. o = ToTemperature(d)
      BY <2>2 DEF Converted
    <3>2. CASE \E v \in Temperature : o = Yields(v)
      BY <2>1, <2>2, <3>2 DEF ValueType, Conveys
    <3>3. CASE o \in {Throws("json"), Throws("invalid_argument")}
      <4>1. ~WellFormed(h.signal, d)
        BY <2>1, <2>2, <3>1, <3>3, TemperatureFormed DEF WellFormed
      <4>2. Reason("json", h) /\ Reason("invalid_argument", h)
        BY <2>2, <4>1, EndNames DEF Reason
      <4>3. QED
        BY <3>3, <4>2
    <3>4. QED
      BY <2>1, <3>1, <3>2, <3>3, TemperatureDecoded
  <2>3. ASSUME h.signal # "temperature", o = Undefined PROVE Goal
    <3>1. Reason("undefined", h)
      BY EndNames DEF Reason
    <3>2. QED
      BY <2>3, <3>1 DEF Undefined
  <2>4. ASSUME h.signal # "temperature", o = Throws("json"),
               ~WellFormed(h.signal, d)
        PROVE  Goal
    <3>1. Reason("json", h)
      BY <2>4, EndNames DEF Reason
    <3>2. QED
      BY <2>4, <3>1
  <2>5. ASSUME h.signal = "printers" PROVE Goal
    <3>1. o \in ArrayOf(d, ToPrinter)
      BY <2>5 DEF Converted
    <3>2. WellFormed(h.signal, d) <=> ListForm(d, PrinterForm)
      BY <2>5 DEF WellFormed
    <3>3. ASSUME NEW v \in Seq(Printer), o = Yields(v),
                 DOMAIN d = {"array"}, DOMAIN v = DOMAIN d.array,
                 \A i \in DOMAIN v : Tells(v[i], d.array[i])
          PROVE  Goal
      BY <2>1, <2>5, <3>3 DEF ValueType, Conveys
    <3> HIDE DEF Goal
    <3>4. QED
      BY <2>1, <2>3, <2>4, <2>5, <3>1, <3>2, <3>3, PrintersConverted
  <2>6. ASSUME h.signal = "config" PROVE Goal
    <3>1. o \in ToPrinterConfig(d)
      BY <2>6 DEF Converted
    <3>2. WellFormed(h.signal, d) <=> ConfigForm(d)
      BY <2>6 DEF WellFormed
    <3>3. ASSUME NEW c \in PrinterConfig, o = Yields(c) PROVE Goal
      BY <2>1, <2>6, <3>3 DEF ValueType, Conveys
    <3> HIDE DEF Goal
    <3>4. QED
      BY <2>1, <2>3, <2>4, <2>6, <3>1, <3>2, <3>3, ConfigDecoded, ConfigFormed
  <2>7. ASSUME h.signal = "groups" PROVE Goal
    <3>1. o \in ToModelGroups(d)
      BY <2>7 DEF Converted
    <3>2. CASE ~IsA(d, "ok", "bool")
      <4>1. ~WellFormed(h.signal, d) /\ o = Throws("json")
        BY <2>7, <3>1, <3>2 DEF WellFormed, ToModelGroups
      <4>2. QED
        BY <2>4, <2>7, <4>1
    <3>3. CASE IsA(d, "ok", "bool") /\ ~d.ok.bool
      <4>1. o = Throws("system_error")
        BY <3>1, <3>3 DEF ToModelGroups
      <4>2. Reason("system_error", h)
        BY EndNames DEF Reason
      <4>3. QED
        BY <4>1, <4>2
    <3>4. CASE /\ IsA(d, "ok", "bool") /\ d.ok.bool
               /\ "groupNames" \notin DOMAIN d
      <4>1. ~WellFormed(h.signal, d) /\ o = Throws("json")
        BY <2>7, <3>1, <3>4 DEF WellFormed, ToModelGroups
      <4>2. QED
        BY <2>4, <2>7, <4>1
    <3>5. CASE IsA(d, "ok", "bool") /\ d.ok.bool /\ "groupNames" \in DOMAIN d
      <4>1. o \in ArrayOf(d.groupNames, ToModelGroup)
        BY <3>1, <3>5 DEF ToModelGroups
      <4>2. WellFormed(h.signal, d) <=> ListForm(d.groupNames, GroupForm)
        BY <2>7, <3>5 DEF WellFormed
      <4>3. d.groupNames \in Json
        BY <2>1, <3>5, Members DEF Tags
      <4>4. ASSUME NEW v \in Seq(ModelGroup), o = Yields(v) PROVE Goal
        BY <2>1, <2>7, <4>4 DEF ValueType, Conveys
      <4> HIDE DEF Goal
      <4>5. QED
        BY <2>3, <2>4, <2>7, <4>1, <4>2, <4>3, <4>4, GroupsConverted
    <3>6. QED
      BY <3>2, <3>3, <3>4, <3>5
  <2>8. ASSUME h.signal = "models" PROVE Goal
    <3>1. o \in ToModels(d)
      BY <2>8 DEF Converted
    <3>2. CASE "data" \notin DOMAIN d
      <4>1. ~WellFormed(h.signal, d) /\ o = Throws("json")
        BY <2>8, <3>1, <3>2 DEF WellFormed, ToModels
      <4>2. QED
        BY <2>4, <2>8, <4>1
    <3>3. CASE "data" \in DOMAIN d
      <4>1. o \in ArrayOf(d.data, ToModel)
        BY <3>1, <3>3 DEF ToModels
      <4>2. WellFormed(h.signal, d) <=> ListForm(d.data, ModelForm)
        BY <2>8, <3>3 DEF WellFormed
      <4>3. d.data \in Json
        BY <2>1, <3>3, Members DEF Tags
      <4>4. ASSUME NEW v \in Seq(Model), o = Yields(v),
                   DOMAIN v = DOMAIN d.data.array,
                   \A i \in DOMAIN v : Timed(v[i], d.data.array[i])
            PROVE  Goal
        BY <2>1, <2>8, <4>4 DEF ValueType, Conveys
      <4> HIDE DEF Goal
      <4>5. QED
        BY <2>3, <2>4, <2>8, <4>1, <4>2, <4>3, <4>4, ModelsConverted
    <3>4. QED
      BY <3>2, <3>3
  <2>9. ASSUME h.signal = "refresh" PROVE Goal
    <3>1. o = Yields(Null)
      BY <2>9 DEF Converted
    <3>2. QED
      BY <2>1, <2>9, <3>1 DEF ValueType, Conveys
  <2>10. QED
    BY <2>1, <2>2, <2>5, <2>6, <2>7, <2>8, <2>9, SignalNames
<1>3. QED
  BY <1>1, <1>2 DEF Due

\* The handlers of an event list are typed, whatever the list.
LEMMA EventHandlersTyped ==
  ASSUME NEW list \in Seq(Json)
  PROVE  EventHandlers(list) \in Seq(Due)
<1> DEFINE own(e) == CASE Heard(e)               -> <<EventHandler(e)>>
                       [] Named(e) /\ ~Heard(e) -> <<>>
                       [] ~Named(e)              -> <<Unreadable>>
           parts == [i \in DOMAIN list |-> own(list[i])]
<1>1. Unreadable \in Due
  BY DEF Due
<1>2. ASSUME NEW e \in Json PROVE own(e) \in Seq(Due)
  <2>1. CASE Heard(e)
    <3>1. "event" \in DOMAIN e /\ e.event.word \in DOMAIN Subscriptions
      BY <2>1 DEF Heard, IsA
    <3>2. Subscriptions[e.event.word] \in Signals
      BY <3>1, SignalNames DEF Subscriptions
    <3>3. ASSUME "printer" \in DOMAIN e => IsA(e, "printer", "string"),
                 "data" \in DOMAIN e
          PROVE  EventHandler(e) \in Due
      <4>1. e.data \in Json
        BY <3>3, Members DEF Tags
      <4> DEFINE slug == IF "printer" \in DOMAIN e THEN e.printer.string
                                                ELSE <<>>
      <4>2. slug \in Slug
        <5>1. "printer" \in DOMAIN e => e.printer.string \in Bytes
          BY <3>3, IsATyped DEF Tags
        <5>2. <<>> \in Bytes
          BY DEF Bytes
        <5>3. QED
          BY <5>1, <5>2 DEF Slug
      <4>3. EventHandler(e) =
              Handler(Subscriptions[e.event.word], slug, e.data)
        BY <3>3 DEF EventHandler
      <4> HIDE DEF slug
      <4>4. QED
        BY <3>2, <4>1, <4>2, <4>3 DEF Handler, Due
    <3>4. EventHandler(e) \in Due
      BY <1>1, <3>3 DEF EventHandler
    <3>5. own(e) = <<EventHandler(e)>>
      BY <2>1 DEF Heard, Named
    <3>6. QED
      BY <3>4, <3>5
  <2>2. CASE Named(e) /\ ~Heard(e)
    <3>1. own(e) = <<>>
      BY <2>2
    <3>2. <<>> \in Seq(Due)
      OBVIOUS
    <3>3. QED
      BY <3>1, <3>2
  <2>3. CASE ~Named(e)
    <3>1. ~Heard(e)
      BY <2>3 DEF Heard, Named
    <3>2. own(e) = <<Unreadable>>
      BY <2>3, <3>1
    <3>3. QED
      BY <1>1, <3>2
  <2>4. QED
    BY <2>1, <2>2, <2>3
<1>3. EventHandlers(list) = FlattenSeq(parts)
  BY DEF EventHandlers
<1> HIDE DEF own
<1>4. parts \in Seq(Seq(Due))
  <2>1. /\ Len(list) \in Nat /\ DOMAIN list = 1..Len(list)
        /\ \A i \in 1..Len(list) : list[i] \in Json
    OBVIOUS
  <2>2. \A i \in 1..Len(list) : own(list[i]) \in Seq(Due)
    BY <1>2, <2>1
  <2>3. QED
    BY <2>1, <2>2
<1> HIDE DEF parts
<1>5. QED
  BY <1>1, <1>3, <1>4, FlattenAppend

Awaited ==
  {NoQuery} \cup [id : Nat, signal : {"printers", "config", "groups", "models"},
                  slug : Slugs]

\* So are those of every message.
LEMMA HandlersTyped ==
  ASSUME NEW m \in Messages, pending \in Awaited
  PROVE  Handlers(m) \in Seq(Due)
<1>1. Unreadable \in Due
  BY DEF Due
<1>2. <<>> \in Seq(Due) /\ <<Unreadable>> \in Seq(Due)
  BY <1>1
<1>3. m \in Json
  BY MessagesAssumption
<1>4. CASE ~IsMessage(m)
  BY <1>2, <1>4 DEF Handlers, IsResponse
<1>5. CASE IsMessage(m)
  <2>1. m.data \in Json
    BY <1>3, <1>5, Members DEF IsMessage, Tags
  <2>2. CASE IsResponse(m) /\ ~IsAwaited(m)
    BY <1>2, <1>5, <2>2 DEF Handlers
  <2>3. CASE IsResponse(m) /\ IsAwaited(m)
    <3>1. Handlers(m) = <<Handler(pending.signal, pending.slug, m.data)>>
      BY <1>5, <2>3 DEF Handlers
    <3>2. pending.signal \in Signals /\ pending.slug \in Slug
      BY <2>3, SignalNames DEF IsAwaited, Awaited, Slug
    <3>3. Handler(pending.signal, pending.slug, m.data) \in Due
      BY <2>1, <3>2 DEF Due, Handler
    <3>4. QED
      BY <3>1, <3>3
  <2>4. CASE ~IsResponse(m)
    <3>1. Elements(m.data) \in Seq(Json)
      <4>1. CASE DOMAIN m.data = {"array"}
        <5>1. m.data.array \in Seq(Json)
          BY <2>1, <4>1, Typed
        <5>2. Elements(m.data) = m.data.array \/ Elements(m.data) = <<>>
          BY <4>1 DEF Elements, Null
        <5>3. <<>> \in Seq(Json)
          OBVIOUS
        <5>4. QED
          BY <5>1, <5>2, <5>3
      <4>2. CASE DOMAIN m.data # {"array"}
        <5>1. Elements(m.data) = <<>> \/ Elements(m.data) = <<m.data>>
          BY <4>2 DEF Elements
        <5>2. <<>> \in Seq(Json) /\ <<m.data>> \in Seq(Json)
          BY <2>1
        <5>3. QED
          BY <5>1, <5>2
      <4>3. QED
        BY <4>1, <4>2
    <3>2. EventHandlers(Elements(m.data)) \in Seq(Due)
      BY <3>1, EventHandlersTyped
    <3>3. Handlers(m) \in
            {<<>>, <<Unreadable>>, EventHandlers(Elements(m.data))}
      BY <1>5, <2>4 DEF Handlers
    <3>4. QED
      BY <1>2, <3>2, <3>3
  <2>5. QED
    BY <2>2, <2>3, <2>4
<1>6. QED
  BY <1>4, <1>5

\* What a handler passed on is what it was to pass on.
Passed(g, h) == g.signal = h.signal /\ g.slug = h.slug /\ Conveys(g.value, h)

LinesUp(gs, hs) == /\ Len(gs) <= Len(hs)
                   /\ \A i \in 1..Len(gs) : Passed(gs[i], hs[i])

\* The handlers that run up to the first exception.
Good(outs) == IF Failed(outs) = {} THEN Len(outs) ELSE Min(Failed(outs)) - 1

\* They pass on what their data conveys, up to one that had a reason to end
\* the loop.
LEMMA RunOutcome ==
  ASSUME NEW hs \in Seq(Due), NEW outs \in Each(Conversions(hs))
  PROVE  LET run == Run(hs, outs, Good(outs))
         IN /\ run \in Seq(Delivery) /\ LinesUp(run, hs)
            /\ Len(run) = Good(outs)
            /\ Failed(outs) = {} => Len(run) = Len(hs)
            /\ Failed(outs) # {} =>
                 /\ Len(run) < Len(hs)
                 /\ \E e : /\ outs[Len(run) + 1] = Throws(e)
                           /\ Reason(e, hs[Len(run) + 1])
<1> DEFINE n == Len(hs)
           g == Good(outs)
           run == Run(hs, outs, g)
<1>1. n \in Nat /\ \A i \in 1..n : hs[i] \in Due
  OBVIOUS
<1>2. /\ DOMAIN outs = 1..n /\ Len(outs) = n
      /\ \A i \in 1..n : outs[i] \in Converted(hs[i])
  <2>1. Len(Conversions(hs)) = n
          /\ \A i \in 1..n : Conversions(hs)[i] = Converted(hs[i])
    BY DEF Conversions
  <2>2. QED
    BY <1>1, <2>1, EachOutcome
<1> HIDE DEF n
<1>3. \A i \in 1..n :
        \/ \E v \in ValueType[hs[i].signal] :
             /\ outs[i] = Yields(v) /\ Conveys(v, hs[i])
             /\ hs[i].signal \in Signals
        \/ \E e : outs[i] = Throws(e) /\ Reason(e, hs[i])
  BY <1>1, <1>2, ConvertedOutcome
<1>4. Failed(outs) \in SUBSET Nat /\ Failed(outs) \subseteq 1..n
  BY <1>1, <1>2 DEF Failed
<1>5. /\ g \in 0..n
      /\ Failed(outs) = {} => g = n
      /\ Failed(outs) # {} => g < n /\ g + 1 \in Failed(outs)
      /\ \A i \in 1..g : i \notin Failed(outs)
  <2>1. CASE Failed(outs) = {}
    BY <1>1, <1>2, <2>1 DEF Good
  <2>2. CASE Failed(outs) # {}
    <3> DEFINE k == Min(Failed(outs))
    <3>1. k \in Failed(outs) /\ \A x \in Failed(outs) : k <= x
      BY <1>4, <2>2, LeastOf
    <3>2. g = k - 1
      BY <2>2 DEF Good
    <3> HIDE DEF k, g
    <3>3. k \in 1..n /\ g + 1 = k
      BY <1>1, <1>4, <3>1, <3>2
    <3>4. \A i \in 1..g : ~(k <= i)
      BY <1>1, <3>2, <3>3
    <3>5. QED
      BY <1>1, <2>2, <3>1, <3>2, <3>3, <3>4
  <2>3. QED
    BY <2>1, <2>2
<1> HIDE DEF g
<1>6. ASSUME NEW i \in 1..g
      PROVE  /\ run[i] \in Delivery
             /\ Passed(run[i], hs[i])
  <2>1. i \in 1..n
    BY <1>1, <1>5
  <2>2. "throws" \notin DOMAIN outs[i]
    BY <1>2, <1>5, <2>1 DEF Failed
  <2>3. PICK v \in ValueType[hs[i].signal] :
          /\ outs[i] = Yields(v) /\ Conveys(v, hs[i])
          /\ hs[i].signal \in Signals
    BY <1>3, <2>1, <2>2, Outcomes
  <2>4. run[i] = [signal |-> hs[i].signal, slug |-> hs[i].slug, value |-> v]
    <3>1. run[i] = [signal |-> hs[i].signal, slug |-> hs[i].slug,
                    value |-> outs[i].yields]
      BY DEF Run
    <3>2. outs[i].yields = v
      BY <2>3, Outcomes
    <3>3. QED
      BY <3>1, <3>2
  <2>5. hs[i].slug \in Slug
    <3>1. hs[i] \in Due
      BY <1>1, <2>1
    <3>2. <<>> \in Slug
      BY DEF Slug, Bytes
    <3>3. QED
      BY <3>1, <3>2 DEF Due, Unreadable, Handler
  <2> HIDE DEF run
  <2>6. run[i] \in Delivery
    BY <2>3, <2>4, <2>5 DEF Delivery
  <2>7. Passed(run[i], hs[i])
    BY <2>3, <2>4 DEF Passed
  <2>8. QED
    BY <2>6, <2>7
<1>7. run \in Seq(Delivery) /\ Len(run) = g
  <2>1. g \in Nat
    BY <1>1, <1>5
  <2>2. run = [i \in 1..g |-> run[i]]
    BY DEF Run
  <2> HIDE DEF run
  <2>3. QED
    BY <1>6, <2>1, <2>2
<1>8. ASSUME Failed(outs) # {}
      PROVE  \E e : outs[g + 1] = Throws(e) /\ Reason(e, hs[g + 1])
  <2>1. g + 1 \in Failed(outs) /\ g + 1 \in 1..n
    BY <1>4, <1>5, <1>8
  <2>2. "throws" \in DOMAIN outs[g + 1]
    BY <2>1 DEF Failed
  <2>3. QED
    BY <1>3, <2>1, <2>2, Outcomes
<1> HIDE DEF run
<1>9. /\ run \in Seq(Delivery) /\ Len(run) <= n
      /\ \A i \in 1..Len(run) : Passed(run[i], hs[i])
      /\ Len(run) = g
      /\ Failed(outs) = {} => Len(run) = n
      /\ Failed(outs) # {} =>
           /\ Len(run) < n
           /\ \E e : /\ outs[Len(run) + 1] = Throws(e)
                     /\ Reason(e, hs[Len(run) + 1])
  BY <1>1, <1>5, <1>6, <1>7, <1>8
<1>10. QED
  BY <1>9 DEF run, g, n, LinesUp

-----------------------------------------------------------------------------
(***************************************************************************)
(* The inductive invariant                                                 *)
(***************************************************************************)

\* The handlers that ran are the first of those that were to run, each with
\* what its data conveys; the loop goes on when all of them ran, and otherwise
\* the next one had a reason to end it.
WellTyped ==
  /\ loop \in {"reading", "stopped", "reported", "escaped", "undefined"}
  /\ received \in 0..MaxMessages
  /\ lastCallbackId_ \in Nat
  /\ pending \in Awaited
  /\ due \in Seq(Due)
  /\ delivered \in Seq(Delivery)
Lined == LinesUp(delivered, due)
Ended ==
  /\ loop = "reading" => Len(delivered) = Len(due)
  /\ loop # "reading" =>
       /\ Len(delivered) < Len(due)
       /\ \E e : loop = Ends[e] /\ Reason(e, due[Len(delivered) + 1])
Inductive == WellTyped /\ Lined /\ Ended

LEMMA InitInductive == Init => Inductive
<1>1. SUFFICES ASSUME Init PROVE Inductive
  OBVIOUS
<1>2. <<>> \in Seq(Due) /\ <<>> \in Seq(Delivery) /\ Len(<<>>) = 0 /\ 1..0 = {}
  OBVIOUS
<1>3. /\ loop = "reading" /\ pending = NoQuery /\ delivered = <<>>
      /\ due = <<>> /\ received = 0 /\ lastCallbackId_ \in Nat
  BY <1>1 DEF Init
<1>4. WellTyped
  <2>1. received \in 0..MaxMessages
    <3>1. 0 \in 0..MaxMessages
      BY MessagesAssumption
    <3>2. QED
      BY <1>3, <3>1
  <2>2. pending \in Awaited
    BY <1>3 DEF Awaited
  <2>3. delivered \in Seq(Delivery) /\ due \in Seq(Due)
    BY <1>2, <1>3
  <2>4. QED
    BY <1>3, <2>1, <2>2, <2>3 DEF WellTyped
<1>5. Lined /\ Ended
  <2>1. Len(delivered) = 0 /\ Len(due) = 0
    BY <1>2, <1>3
  <2>2. 1..Len(delivered) = {}
    BY <1>2, <2>1
  <2>3. QED
    BY <1>3, <2>1, <2>2 DEF Lined, LinesUp, Ended
<1>6. QED
  BY <1>4, <1>5 DEF Inductive

LEMMA RequestInductive ==
  ASSUME Inductive, NEW k \in DOMAIN Queries, NEW slug \in Slugs,
         Request(k, slug)
  PROVE  Inductive'
<1>1. UNCHANGED <<loop, delivered, due, received>>
  BY DEF Request
<1>2. pending' \in Awaited
  <2>1. Queries[k] \in {"printers", "config", "groups", "models"}
    BY DEF Queries
  <2>2. /\ pending' = [id |-> lastCallbackId_', signal |-> Queries[k],
                       slug |-> slug]
        /\ lastCallbackId_' \in Nat
    BY DEF Request, Inductive, WellTyped
  <2>3. QED
    BY <2>1, <2>2 DEF Awaited
<1>3. WellTyped'
  BY <1>1, <1>2 DEF Inductive, WellTyped, Request
<1>4. Lined' /\ Ended'
  BY <1>1 DEF Inductive, Lined, Ended
<1>5. QED
  BY <1>3, <1>4 DEF Inductive

\* What a run of handlers adds lines up with what it was given.
LEMMA Lengthened ==
  ASSUME NEW ds \in Seq(Delivery), NEW hs \in Seq(Due),
         NEW run \in Seq(Delivery), NEW new \in Seq(Due),
         Len(ds) = Len(hs), LinesUp(ds, hs), LinesUp(run, new)
  PROVE  /\ ds \o run \in Seq(Delivery) /\ hs \o new \in Seq(Due)
         /\ Len(ds \o run) = Len(ds) + Len(run)
         /\ Len(hs \o new) = Len(hs) + Len(new)
         /\ LinesUp(ds \o run, hs \o new)
         /\ Len(run) < Len(new) =>
              (hs \o new)[Len(ds \o run) + 1] = new[Len(run) + 1]
<1> DEFINE d == ds \o run
           h == hs \o new
           n == Len(ds)
           m == Len(run)
<1>1. n \in Nat /\ m \in Nat /\ Len(new) \in Nat
  OBVIOUS
<1>2. d \in Seq(Delivery) /\ Len(d) = n + m
  BY ConcatProperties
<1>3. h \in Seq(Due) /\ Len(h) = n + Len(new)
  BY ConcatProperties
<1>4. \A i \in 1..n : d[i] = ds[i] /\ h[i] = hs[i]
  <2>1. \A i \in 1..Len(ds) : (ds \o run)[i] = ds[i]
    BY ConcatProperties
  <2>2. \A i \in 1..Len(hs) : (hs \o new)[i] = hs[i]
    BY ConcatProperties
  <2>3. QED
    BY <2>1, <2>2
<1>5. \A i \in 1..m : d[n + i] = run[i]
  BY ConcatProperties
<1>6. \A i \in 1..Len(new) : h[n + i] = new[i]
  BY ConcatProperties
<1> HIDE DEF d, h, n, m
<1>7. ASSUME NEW i \in 1..n + m PROVE Passed(d[i], h[i])
  <2>1. CASE i \in 1..n
    BY <1>4, <2>1 DEF n, LinesUp
  <2>2. CASE i \notin 1..n
    <3>1. i - n \in 1..m /\ i - n \in 1..Len(new) /\ n + (i - n) = i
      BY <1>1, <2>2 DEF m, LinesUp
    <3>2. d[i] = run[i - n] /\ h[i] = new[i - n]
      BY <1>5, <1>6, <3>1
    <3>3. QED
      BY <3>1, <3>2 DEF m, LinesUp
  <2>3. QED
    BY <2>1, <2>2
<1>8. m < Len(new) => h[(n + m) + 1] = new[m + 1]
  <2>1. SUFFICES ASSUME m < Len(new) PROVE h[(n + m) + 1] = new[m + 1]
    OBVIOUS
  <2>2. m + 1 \in 1..Len(new) /\ n + (m + 1) = (n + m) + 1
    BY <1>1, <2>1
  <2>3. QED
    BY <1>6, <2>2
<1>9. /\ d \in Seq(Delivery) /\ h \in Seq(Due)
      /\ Len(d) = n + m /\ Len(h) = n + Len(new)
      /\ LinesUp(d, h)
      /\ m < Len(new) => h[Len(d) + 1] = new[m + 1]
  <2>1. n + m <= n + Len(new)
    BY <1>1 DEF m, LinesUp
  <2>2. QED
    BY <1>2, <1>3, <1>7, <1>8, <2>1 DEF LinesUp
<1>10. QED
  BY <1>9 DEF d, h, n, m

LEMMA ReceiveInductive ==
  ASSUME Inductive, NEW m \in Messages, Receive(m)
  PROVE  Inductive'
<1> DEFINE hs == Handlers(m)
<1>1. PICK outs \in Each(Conversions(hs)) :
        /\ loop = "reading"
        /\ received < MaxMessages
        /\ received' = received + 1
        /\ delivered' = delivered \o Run(hs, outs, Good(outs))
        /\ due' = due \o hs
        /\ pending' = IF IsAwaited(m) THEN NoQuery ELSE pending
        /\ lastCallbackId_' = lastCallbackId_
        /\ loop' = IF Failed(outs) = {} THEN "reading"
                                        ELSE Ends[outs[Good(outs) + 1].throws]
  BY DEF Receive, Good
<1>2. hs \in Seq(Due)
  BY HandlersTyped DEF Inductive, WellTyped
<1> HIDE DEF hs
<1> DEFINE run == Run(hs, outs, Good(outs))
<1>3. /\ run \in Seq(Delivery) /\ LinesUp(run, hs)
      /\ Len(run) = Good(outs)
      /\ Failed(outs) = {} => Len(run) = Len(hs)
      /\ Failed(outs) # {} =>
           /\ Len(run) < Len(hs)
           /\ \E e : /\ outs[Len(run) + 1] = Throws(e)
                     /\ Reason(e, hs[Len(run) + 1])
  BY <1>2, RunOutcome
<1> HIDE DEF run
<1>4. /\ delivered \in Seq(Delivery) /\ due \in Seq(Due)
      /\ Len(delivered) = Len(due) /\ LinesUp(delivered, due)
  BY <1>1 DEF Inductive, WellTyped, Lined, Ended
<1>5. delivered' = delivered \o run /\ due' = due \o hs
  BY <1>1 DEF run
<1>6. /\ delivered' \in Seq(Delivery) /\ due' \in Seq(Due)
      /\ Len(delivered') = Len(delivered) + Len(run)
      /\ Len(due') = Len(due) + Len(hs)
      /\ LinesUp(delivered', due')
      /\ Len(run) < Len(hs) => due'[Len(delivered') + 1] = hs[Len(run) + 1]
  <2>1. /\ delivered \o run \in Seq(Delivery) /\ due \o hs \in Seq(Due)
        /\ Len(delivered \o run) = Len(delivered) + Len(run)
        /\ Len(due \o hs) = Len(due) + Len(hs)
        /\ LinesUp(delivered \o run, due \o hs)
        /\ Len(run) < Len(hs) =>
             (due \o hs)[Len(delivered \o run) + 1] = hs[Len(run) + 1]
    <3>1. run \in Seq(Delivery) /\ LinesUp(run, hs)
      BY <1>3
    <3>2. QED
      BY <1>2, <1>4, <3>1, Lengthened, Zenon
  <2>2. QED
    BY <1>5, <2>1, Zenon
<1>7. Len(delivered) \in Nat /\ Len(run) \in Nat /\ Len(hs) \in Nat
  BY <1>2, <1>3, <1>4
<1>8. CASE Failed(outs) = {}
  <2>1. loop' = "reading" /\ Len(delivered') = Len(due')
    BY <1>1, <1>3, <1>4, <1>6, <1>8
  <2>2. QED
    <3>1. WellTyped'
      <4>1. received' \in 0..MaxMessages
        BY <1>1, MessagesAssumption DEF Inductive, WellTyped
      <4>2. pending' \in Awaited
        BY <1>1 DEF Inductive, WellTyped, Awaited
      <4>3. QED
        BY <1>1, <1>6, <2>1, <4>1, <4>2 DEF Inductive, WellTyped
    <3>2. Lined'
      BY <1>6 DEF Lined
    <3>3. Ended'
      BY <2>1 DEF Ended
    <3>4. QED
      BY <3>1, <3>2, <3>3 DEF Inductive
<1>9. CASE Failed(outs) # {}
  <2>1. PICK e : /\ outs[Len(run) + 1] = Throws(e)
                 /\ Reason(e, hs[Len(run) + 1])
    BY <1>3, <1>9
  <2>2. loop' = Ends[e]
    <3>1. outs[Good(outs) + 1] = Throws(e)
      BY <1>3, <2>1
    <3>2. QED
      BY <1>1, <1>9, <3>1, Outcomes
  <2>3. e \in DOMAIN Ends /\ loop' # "reading"
          /\ loop' \in {"stopped", "reported", "escaped", "undefined"}
    <3>1. e \in DOMAIN Ends
      BY <2>1 DEF Reason
    <3>2. QED
      BY <2>2, <3>1 DEF Ends
  <2>4. WellTyped'
    <3>1. received' \in 0..MaxMessages
      BY <1>1, MessagesAssumption DEF Inductive, WellTyped
    <3>2. pending' \in Awaited
      BY <1>1 DEF Inductive, WellTyped, Awaited
    <3>3. QED
      BY <1>1, <1>6, <2>3, <3>1, <3>2 DEF Inductive, WellTyped
  <2>5. Lined'
    BY <1>6 DEF Lined
  <2>6. Ended'
    <3>1. Len(delivered') < Len(due')
      BY <1>3, <1>4, <1>6, <1>7, <1>9
    <3>2. loop' = Ends[e] /\ Reason(e, due'[Len(delivered') + 1])
      BY <1>3, <1>6, <1>9, <2>1, <2>2
    <3>3. QED
      BY <2>3, <3>1, <3>2 DEF Ended
  <2>7. QED
    BY <2>4, <2>5, <2>6 DEF Inductive
<1>10. QED
  BY <1>8, <1>9

\* The invariant holds in every state the loop of receive() reaches.
THEOREM Invariance == Spec => []Inductive
<1>1. Inductive /\ UNCHANGED vars => Inductive'
  BY DEF Inductive, WellTyped, Lined, Ended, vars
<1>2. Inductive /\ [Next]_vars => Inductive'
  BY <1>1, RequestInductive, ReceiveInductive DEF Next
<1>3. QED
  BY InitInductive, <1>2, PTL DEF Spec

-----------------------------------------------------------------------------
(***************************************************************************)
(* The properties of Messages                                              *)
(***************************************************************************)

\* A list of printers tells of the data that was sent what PrintersTold says.
LEMMA PrinterTold ==
  ASSUME NEW p, NEW d \in Json, Tells(p, d)
  PROVE  /\ FromUtf8(p.slug) = d.slug.string
         /\ FromUtf8(p.name) = d.name.string
         /\ Dumpable(p.slug)
         /\ State(p) = "printing" <=> /\ d.active.bool
                                      /\ d.online # Number(0)
                                      /\ d.job.string # NoJob
         /\ \A slug : Ascii(slug) => (slug = p.slug <=> slug = d.slug.string)
<1>1. /\ d.slug.string \in Bytes /\ d.name.string \in Bytes
      /\ d.job.string \in Bytes /\ d.active.bool \in BOOLEAN
  BY IsATyped DEF Tells, Tags
<1>2. FromUtf8(p.slug) = d.slug.string /\ FromUtf8(p.name) = d.name.string
        /\ Dumpable(p.slug)
  BY <1>1, RoundTrip, ConvertedIsDumpable DEF Tells
<1>3. p.job = NoJob <=> d.job.string = NoJob
  <2>1. NoJob \in Bytes /\ Ascii(NoJob)
    BY DEF NoJob, Bytes, Ascii
  <2>2. ToUtf8(NoJob) = NoJob
    BY <2>1, AsciiKept
  <2>3. ToUtf8(d.job.string) = NoJob => d.job.string = NoJob
    BY <1>1, <2>1, <2>2, RoundTrip
  <2>4. QED
    BY <2>2, <2>3 DEF Tells
<1>4. State(p) = "printing" <=> p.active /\ p.online /\ p.job # NoJob
  <2>1. p.active \in BOOLEAN /\ p.online \in BOOLEAN
    BY <1>1 DEF Tells
  <2>2. QED
    BY <2>1 DEF State
<1>5. ASSUME NEW slug, Ascii(slug)
      PROVE  slug = p.slug <=> slug = d.slug.string
  <2>1. p.slug = ToUtf8(d.slug.string)
    BY DEF Tells
  <2>2. QED
    BY <1>1, <1>5, <2>1, AsciiKept
<1>6. QED
  BY <1>2, <1>3, <1>4, <1>5 DEF Tells

LEMMA InductiveTyped ==
  ASSUME Inductive
  PROVE  /\ DOMAIN delivered = 1..Len(delivered) /\ Len(delivered) <= Len(due)
         /\ \A i \in DOMAIN delivered :
              /\ delivered[i] \in Delivery /\ due[i] \in Due
              /\ Passed(delivered[i], due[i])
<1>1. /\ delivered \in Seq(Delivery) /\ due \in Seq(Due)
      /\ LinesUp(delivered, due)
  BY DEF Inductive, WellTyped, Lined
<1>2. QED
  BY <1>1 DEF LinesUp

\* Whatever JSON the server sends, the slots are called with values of the
\* classes of types.hpp only.
THEOREM TypeCorrect == Spec => []TypeOK
<1>1. Inductive => TypeOK
  <2>1. SUFFICES ASSUME Inductive, NEW i \in DOMAIN delivered
                 PROVE  delivered[i].value \in ValueType[delivered[i].signal]
    BY DEF Inductive, WellTyped, TypeOK
  <2>2. delivered[i] \in Delivery
    BY <2>1, InductiveTyped
  <2>3. QED
    BY <2>2 DEF Delivery
<1>2. QED
  BY Invariance, <1>1, PTL

\* The slots run in the order of what the server sent, and none is left out
\* before the exception that ends the loop.
THEOREM InOrder == Spec => []HandledInOrder
<1>1. Inductive => HandledInOrder
  BY InductiveTyped DEF Inductive, Ended, Passed, HandledInOrder
<1>2. QED
  BY Invariance, <1>1, PTL

\* No well-formed message, of any content, ends the loop of receive(), and only
\* the controller of a temperature lets an exception out of run().
THEOREM EndedForAReason == Spec => []EndsForAReason
<1>1. Inductive => EndsForAReason
  <2>1. SUFFICES ASSUME Inductive, loop \in {"stopped", "escaped"}
                 PROVE  LET h == due[Len(delivered) + 1]
                        IN /\ ~WellFormed(h.signal, h.data)
                           /\ loop = "escaped" => h.signal = "temperature"
    BY DEF EndsForAReason
  <2>2. PICK e : loop = Ends[e] /\ Reason(e, due[Len(delivered) + 1])
    BY <2>1 DEF Inductive, Ended
  <2>3. e \in {"json", "invalid_argument"}
          /\ (loop = "escaped" => e = "invalid_argument")
    BY <2>1, <2>2, EndNames DEF Reason, Ends
  <2>4. QED
    BY <2>2, <2>3 DEF Reason
<1>2. QED
  BY Invariance, <1>1, PTL

\* The printers in a list that was due are JSON.
LEMMA ListedInJson ==
  ASSUME NEW h \in Due, h.signal = "printers", DOMAIN h.data = {"array"},
         NEW j \in DOMAIN h.data.array
  PROVE  h.data.array[j] \in Json
<1>1. h # Unreadable
  BY DEF Unreadable, Handler
<1>2. h.data \in Json
  BY <1>1 DEF Due
<1>3. h.data.array \in Seq(Json)
  BY <1>2, Typed
<1>4. QED
  BY <1>3

\* Whatever the bytes of its names, the application can tell a printer from
\* every other, and shows it as printing when the server says so.
THEOREM Told == Spec => []PrintersTold
<1>1. Inductive => PrintersTold
  <2>1. SUFFICES ASSUME Inductive, NEW i \in PrinterLists,
                        NEW j \in DOMAIN delivered[i].value
                 PROVE  LET p    == delivered[i].value[j]
                            sent == due[i].data.array[j]
                        IN /\ FromUtf8(p.slug) = sent.slug.string
                           /\ FromUtf8(p.name) = sent.name.string
                           /\ Dumpable(p.slug)
                           /\ State(p) = "printing" <=>
                                /\ sent.active.bool
                                /\ sent.online # Number(0)
                                /\ sent.job.string # NoJob
                           /\ \A e \in DOMAIN delivered :
                                Ascii(delivered[e].slug) =>
                                  (delivered[e].slug = p.slug
                                     <=> delivered[e].slug = sent.slug.string)
    BY DEF PrintersTold
  <2> DEFINE p    == delivered[i].value[j]
             sent == due[i].data.array[j]
  <2>2. i \in DOMAIN delivered /\ delivered[i].signal = "printers"
    BY DEF PrinterLists
  <2>3. due[i] \in Due /\ due[i].signal = "printers"
          /\ Conveys(delivered[i].value, due[i])
    BY <2>1, <2>2, InductiveTyped DEF Passed
  <2>4. /\ DOMAIN due[i].data = {"array"}
        /\ DOMAIN delivered[i].value = DOMAIN due[i].data.array
        /\ Tells(p, sent)
    BY <2>3 DEF Conveys
  <2>5. sent \in Json
    BY <2>3, <2>4, ListedInJson
  <2>6. QED
    BY <2>4, <2>5, PrinterTold
<1>2. QED
  BY Invariance, <1>1, PTL

\* Whatever print time the server sends, the one shown is at most a millisecond
\* too short.
THEOREM TimesExact == Spec => []PrintTimesExact
<1>1. Inductive => PrintTimesExact
  <2>1. SUFFICES ASSUME Inductive, NEW i \in DOMAIN delivered,
                        delivered[i].signal = "models",
                        NEW j \in DOMAIN delivered[i].value
                 PROVE  LET sent  == due[i].data.data.array[j]
                            exact == Max({0, sent.printTime.number}) * 100
                            shown == delivered[i].value[j].printTime
                        IN exact - 1000 <= shown /\ shown <= exact
    BY DEF PrintTimesExact
  <2> DEFINE d == due[i].data.data.array[j]
  <2>2. Timed(delivered[i].value[j], d)
    BY <2>1, InductiveTyped DEF Passed, Conveys
  <2>3. d.printTime.number \in Int
    BY <2>2 DEF Timed
  <2>4. Max({0, d.printTime.number}) \in Nat
    BY <2>3, MaxOfTwo
  <2>5. delivered[i].value[j].printTime
          \in PrintTimes(Max({0, d.printTime.number}))
    BY <2>2 DEF Timed
  <2> DEFINE n == Max({0, d.printTime.number})
             shown == delivered[i].value[j].printTime
  <2>6. n * 100 - 1000 <= shown /\ shown <= n * 100
    <3> HIDE DEF n, shown
    <3>1. n \in Nat /\ shown \in PrintTimes(n)
      BY <2>4, <2>5 DEF n, shown
    <3>2. QED
      BY <3>1, PrintTimesClose
  <2>7. QED
    BY <2>6, Zenon
<1>2. QED
  BY Invariance, <1>1, PTL
=============================================================================
