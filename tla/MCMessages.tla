----------------------------- MODULE MCMessages -----------------------------
(***************************************************************************)
(* Messages built from well-formed data, from the same data with one       *)
(* member missing or null, and from numbers at the boundaries.             *)
(***************************************************************************)
EXTENDS Messages

A == <<97>>            \* "a"
Umlaut == <<195, 164>> \* "ä" in UTF-8
Dashes == <<95, 95>>   \* "__"
MCSlugs == {A}

Without(o, f) == [k \in DOMAIN o \ {f} |-> o[k]]
Broken(o) == {Without(o, f) : f \in DOMAIN o}
               \cup {[o EXCEPT ![f] = Null] : f \in DOMAIN o}

Temp(id) == [id |-> Number(id), S |-> Number(60), T |-> Number(58)]
Temps == {Temp(id) : id \in {-1, 0, 1}}
\* Beyond int, 2 * MaxInt + 1 is the heatbed and MaxInt + 1 is negative.
OddTemps == Broken(Temp(0))
  \cup {Temp(id) : id \in {-2, 2 * MaxInt + 1, MaxInt + 1}}

PrinterOf(slug, online, job) ==
  [active |-> Bool(TRUE), name |-> String(slug), slug |-> String(slug),
   online |-> Number(online), job |-> String(job)]
Lists == {Array(<<>>),
          Array(<<PrinterOf(A, 0, NoJob), PrinterOf(Umlaut, 1, Umlaut)>>),
          Array(<<PrinterOf(Umlaut, 1, NoJob), PrinterOf(Dashes, 2, A)>>)}
OddLists == {Null} \cup
  {Array(<<PrinterOf(A, 1, A), p>>) : p \in Broken(PrinterOf(A, 1, A))}

General(bed) ==
  [active |-> Bool(TRUE), slug |-> String(A), name |-> String(Umlaut),
   firmwareName |-> String(A), heatedBed |-> Bool(bed)]
Bed == [installed |-> Bool(TRUE), maxTemp |-> Number(100)]
ConfigOf(bed, block) ==
  [general |-> General(bed), heatedBed |-> block,
   extruders |-> Array(<<[maxTemp |-> Number(200)]>>)]
Configs == {ConfigOf(TRUE, Bed),
            ConfigOf(FALSE, Null),
            ConfigOf(TRUE, [installed |-> Bool(FALSE)]),
            Without(ConfigOf(FALSE, Null), "heatedBed"),
            Without(ConfigOf(TRUE, Null), "heatedBed")}
OddConfigs ==
  Broken(ConfigOf(TRUE, Bed))
    \cup {ConfigOf(TRUE, b) : b \in Broken(Bed)}
    \cup {[ConfigOf(TRUE, Bed) EXCEPT !.general = g] :
             g \in Broken(General(TRUE))}

GroupsOf(a) == [ok |-> Bool(TRUE), groupNames |-> a]
Groups == {[ok |-> Bool(FALSE)],
           GroupsOf(Array(<<String(<<35>>), String(Umlaut)>>))}
OddGroups == Broken(GroupsOf(Array(<<>>))) \cup {GroupsOf(Array(<<Null>>))}

ModelOf(time) ==
  [id |-> Number(1), name |-> String(Umlaut), group |-> String(A),
   created |-> Number(1999), length |-> Number(2), layer |-> Number(0),
   lines |-> Number(3), printTime |-> Number(time)]
ModelsOf(m) == [data |-> Array(<<m>>)]
Models == {ModelsOf(ModelOf(t)) : t \in {0, 9, 10, 12345, MaxTime}}
OddModels == Broken(ModelsOf(ModelOf(0)))
  \cup {ModelsOf(ModelOf(t)) : t \in {-10, -9, MaxTime + 1}}
  \cup {ModelsOf(m) : m \in Broken(ModelOf(0))}

Event(type, slug, data) ==
  [event |-> Word(type), printer |-> String(slug), data |-> data]
Events == {Event("temp", A, d) : d \in Temps \cup OddTemps}
  \cup {Event("printerListChanged", A, d) : d \in Lists \cup OddLists}
  \cup {Event("config", A, d) : d \in Configs \cup OddConfigs}
  \cup {Event(t, A, Null) :
           t \in {"jobsChanged", "jobFinished", "layerChanged"}}
  \cup Broken(Event("jobsChanged", A, Null))
  \cup {Without(Event("layerChanged", A, Null), "data")}

\* Events that meet in one list: other slugs, data that cannot be decoded.
Together == {Event("temp", Umlaut, Temp(1)), Event("temp", Dashes, Temp(0)),
             Event("temp", A, Temp(-2)), Event("temp", A, Null),
             Event("printerListChanged", A,
                   Array(<<PrinterOf(Umlaut, 1, A)>>)),
             Without(Event("layerChanged", A, Null), "data")}

EventList(list) == [callback_id |-> Number(-1), eventList |-> Bool(TRUE),
                    data |-> Array(list)]
Response(id, data) == [callback_id |-> Number(id), data |-> data]

MCMessages ==
  {EventList(<<e>>) : e \in Events}
    \cup {EventList(<<e, f>>) : e, f \in Together}
    \cup {Response(1, d) : d \in Lists \cup OddLists \cup Configs \cup Groups
                                 \cup OddGroups \cup Models \cup OddModels}
    \cup {Response(id, d) : id \in {0, 2}, d \in Lists \cup Groups}
    \cup {[EventList(<<>>) EXCEPT !.eventList = j] : j \in {Bool(FALSE), Null}}
    \cup Broken(EventList(<<>>))

\* The messages and what they consist of.
Parts(v) == CASE DOMAIN v = {"array"} -> ToSet(v.array)
              [] DOMAIN v \in {{t} : t \in {"number", "string", "word", "bool",
                                          "null"}} -> {}
              [] OTHER -> {v[k] : k \in DOMAIN v}
WithParts(S) == S \cup UNION {Parts(v) : v \in S}
MCJson ==
  WithParts(WithParts(WithParts(WithParts(WithParts(WithParts(WithParts(
    MCMessages)))))))
=============================================================================
