-------------------------------- MODULE Types --------------------------------
(***************************************************************************)
(* The from_json functions of types.cpp and the conversion of strings they *)
(* call (encoding.cpp).                                                    *)
(*                                                                         *)
(* A JSON scalar or array is a record with one field that names its type,  *)
(* an object is a function from member names to JSON.  A string is the     *)
(* sequence of its bytes, or a word if it is only compared with others.    *)
(* What a function does is an outcome: it yields a value or throws;        *)
(* "undefined" stands for undefined behaviour, which both operators << of  *)
(* encoding.cpp have because they do not return a value.                   *)
(***************************************************************************)
EXTENDS Integers, Sequences, FiniteSetsExt, SequencesExt

CONSTANTS
  MaxInt,   \* the largest int
  MaxSize,  \* the largest std::size_t
  MaxTime,  \* the longest printTime that fits chrono::microseconds, in tenths
            \*   of a millisecond
  Json      \* what a message consists of, down to the scalars

Bytes == Seq(0..255)

\* A value is a scalar, or has its elements or members in Json too; no object
\* has the name of a type for its only member.
ASSUME TypesAssumption ==
  /\ MaxInt \in Nat /\ MaxSize \in Nat /\ MaxTime \in Nat
  /\ \A v \in Json :
       CASE DOMAIN v = {"number"} -> v.number \in Int
         [] DOMAIN v = {"string"} -> v.string \in Bytes
         [] DOMAIN v = {"bool"}   -> v.bool \in BOOLEAN
         [] DOMAIN v = {"array"}  -> v.array \in Seq(Json)
         [] DOMAIN v = {"word"}   -> v.word \in STRING
         [] DOMAIN v = {"null"}   -> TRUE
         [] OTHER                 -> \A k \in DOMAIN v : v[k] \in Json

Number(n) == [number |-> n]
String(s) == [string |-> s]
Word(w) == [word |-> w]
Bool(b) == [bool |-> b]
Array(a) == [array |-> a]
Null == [null |-> TRUE]

IsA(json, key, type) == key \in DOMAIN json /\ DOMAIN json[key] = {type}

Yields(v) == [yields |-> v]
Throws(e) == [throws |-> e]
Undefined == Throws("undefined")

-----------------------------------------------------------------------------
(***************************************************************************)
(* encoding.cpp                                                            *)
(***************************************************************************)

\* Seeded faults: characters beyond ASCII are replaced, or the first of the two
\* bytes is not shifted.
ToUtf8Ascii(s) == [i \in DOMAIN s |-> IF s[i] < 128 THEN s[i] ELSE 95]
ToUtf8Unshifted(s) ==
  FlattenSeq([i \in DOMAIN s |->
    IF s[i] < 128 THEN <<s[i]>> ELSE <<192 + s[i], 128 + (s[i] % 64)>>])

\* Every byte is taken for a character of Latin-1, whatever it was.
ToUtf8(s) ==
  FlattenSeq([i \in DOMAIN s |->
    IF s[i] < 128 THEN <<s[i]>>
                  ELSE <<192 + s[i] \div 64, 128 + (s[i] % 64)>>])

\* Well-formed UTF-8, as far as characters of one or two bytes go: what
\* dump() accepts when it writes a request.
InCharacter(s, i) ==
  \/ s[i] < 128
  \/ s[i] \in 194..223 /\ i + 1 \in DOMAIN s /\ s[i + 1] \in 128..191
  \/ s[i] \in 128..191 /\ i - 1 \in DOMAIN s /\ s[i - 1] \in 194..223
Dumpable(s) == \A i \in DOMAIN s : InCharacter(s, i)

\* The inverse, for well-formed UTF-8: a character of Latin-1 has one byte, or
\* two that start with 192..195; every other character, of however many bytes,
\* becomes '_'.
FromUtf8(s) ==
  FlattenSeq([i \in DOMAIN s |->
    CASE s[i] < 128  -> <<s[i]>>
      [] s[i] >= 196 -> <<95>>
      [] s[i] >= 192 -> <<>>
      [] OTHER       -> IF s[i - 1] \in 192..195
                        THEN <<(s[i - 1] - 192) * 64 + (s[i] - 128)>>
                        ELSE <<>>])

Ascii(s) == \A i \in DOMAIN s : s[i] < 128

\* A from_json whose members are all there, or not.
Decoded(readable, value) == IF readable THEN Yields(value) ELSE Throws("json")

\* A from_json that calls convert() as soon as "first" is there.
Converting(first, outcomes) ==
  IF first THEN {Undefined} \cup outcomes ELSE {Throws("json")}

-----------------------------------------------------------------------------
(***************************************************************************)
(* types.cpp                                                               *)
(***************************************************************************)

\* What a number becomes in an int, and in a size_t.
ToInt(n) == ((n + MaxInt + 1) % (2 * (MaxInt + 1))) - (MaxInt + 1)
ToSize(n) == n % (MaxSize + 1)

Temperature == [controller : {"extruder", "heatbed"}, controllerIndex : Nat,
                wanted : Int, actual : Int]

\* The id comes first, so an unknown one throws before S or T is missed.
ToTemperature(d) ==
  IF ~IsA(d, "id", "number") THEN Throws("json")
  ELSE LET index == ToInt(d.id.number) IN
    IF index < -1 THEN Throws("invalid_argument")
    ELSE Decoded(IsA(d, "S", "number") /\ IsA(d, "T", "number"),
           [controller      |-> IF index = -1 THEN "heatbed" ELSE "extruder",
            controllerIndex |-> IF index = -1 THEN 0 ELSE index,
            wanted          |-> d.S.number,
            actual          |-> d.T.number])

Printer == [active : BOOLEAN, name : Bytes, slug : Bytes, online : BOOLEAN,
            job : Bytes]

\* Any "online" but the number 0 counts, also FALSE.
ToPrinter(d) ==
  Converting(IsA(d, "active", "bool") /\ IsA(d, "name", "string"),
    {Decoded(
      /\ IsA(d, "slug", "string")
      /\ "online" \in DOMAIN d
      /\ IsA(d, "job", "string"),
      [active |-> d.active.bool,
       name   |-> ToUtf8(d.name.string),
       slug   |-> ToUtf8(d.slug.string),
       online |-> d.online # Number(0),
       job    |-> ToUtf8(d.job.string)])})

NoJob == <<110, 111, 110, 101>>   \* "none"

State(p) == CASE ~p.active                              -> "disabled"
              [] p.active /\ ~p.online                  -> "offline"
              [] p.active /\ p.online /\ p.job = NoJob  -> "idle"
              [] p.active /\ p.online /\ p.job # NoJob  -> "printing"

PrinterConfig == [active : BOOLEAN, slug : Bytes, name : Bytes,
                  firmwareName : Bytes, extruders : Seq(Int),
                  heatbed : SUBSET Int]

\* Seeded fault: the heated bed is looked at whether there is one or not.
HeatedBedAlways(d) ==
  IsA(d.general, "heatedBed", "bool") /\ "heatedBed" \in DOMAIN d
    /\ IsA(d.heatedBed, "installed", "bool")

\* The heated bed is looked at only when the general part says there is one.
HeatedBedReadable(d) ==
  /\ IsA(d.general, "heatedBed", "bool")
  /\ d.general.heatedBed.bool /\ "heatedBed" \in DOMAIN d =>
       /\ IsA(d.heatedBed, "installed", "bool")
       /\ d.heatedBed.installed.bool => IsA(d.heatedBed, "maxTemp", "number")

ToPrinterConfig(d) ==
  Converting("general" \in DOMAIN d /\ IsA(d.general, "active", "bool")
               /\ IsA(d.general, "slug", "string"),
    {Decoded(
      /\ IsA(d.general, "name", "string")
      /\ IsA(d.general, "firmwareName", "string")
      /\ IsA(d, "extruders", "array")
      /\ \A i \in DOMAIN d.extruders.array :
           IsA(d.extruders.array[i], "maxTemp", "number")
      /\ HeatedBedReadable(d),
      [active       |-> d.general.active.bool,
       slug         |-> ToUtf8(d.general.slug.string),
       name         |-> ToUtf8(d.general.name.string),
       firmwareName |-> ToUtf8(d.general.firmwareName.string),
       extruders    |-> [i \in DOMAIN d.extruders.array |->
                           ToInt(d.extruders.array[i].maxTemp.number)],
       heatbed      |-> IF /\ d.general.heatedBed.bool
                           /\ "heatedBed" \in DOMAIN d
                           /\ d.heatedBed.installed.bool
                        THEN {ToInt(d.heatedBed.maxTemp.number)} ELSE {}])})

ModelGroup == [name : Bytes]

ToModelGroup(d) ==
  Converting(DOMAIN d = {"string"}, {Yields([name |-> ToUtf8(d.string)])})

Size == 0..MaxSize
Model == [id : Size, name : Bytes, modelGroup : Bytes, created : Size,
          length : Size, layers : Size, lines : Size, printTime : Nat]

\* Seeded fault: only whole seconds count.
PrintTimesInSeconds(t) == {(t \div 10000) * 1000000}

\* A double of seconds, here in tenths of a millisecond, becomes whole
\* milliseconds and then microseconds.  A product that should be whole may
\* have been rounded to just below it.
PrintTimes(t) ==
  {ms * 1000 : ms \in {t \div 10} \cup (IF t > 0 /\ t % 10 = 0
                                        THEN {(t \div 10) - 1} ELSE {})}

\* Out of range, one of the two conversions of printTime is undefined.
ToModel(d) ==
  LET readable ==
        /\ IsA(d, "group", "string")
        /\ \A k \in {"created", "length", "layer", "lines", "printTime"} :
             IsA(d, k, "number")
  IN Converting(IsA(d, "id", "number") /\ IsA(d, "name", "string"),
       IF ~readable THEN {Throws("json")}
       ELSE IF d.printTime.number \notin -9..MaxTime THEN {Undefined}
       ELSE {Yields([id         |-> ToSize(d.id.number),
                     name       |-> ToUtf8(d.name.string),
                     modelGroup |-> ToUtf8(d.group.string),
                     created    |-> ToSize(d.created.number) \div 1000,
                     length     |-> ToSize(d.length.number),
                     layers     |-> ToSize(d.layer.number),
                     lines      |-> ToSize(d.lines.number),
                     printTime  |-> time]) :
               time \in PrintTimes(Max({0, d.printTime.number}))})
=============================================================================
