------------------------------ MODULE Messages ------------------------------
(***************************************************************************)
(* From the text of a message to the slots of the application:             *)
(* Client::Impl::handle_message() with its callers and callees, and the    *)
(* subscriptions and callbacks of ServiceImpl, which convert the data of a *)
(* message as they pass it to a signal, whether the signal has slots or    *)
(* not.  The handlers run one after the other on the io thread, inside the *)
(* coroutine of receive(), and the first exception ends the loop.          *)
(***************************************************************************)
EXTENDS Types

CONSTANTS
  Messages,     \* what the server may send, as JSON
  Slugs,        \* the slugs of printers
  MaxMessages   \* bound: messages the server sends

ASSUME MessagesAssumption == Messages \subseteq Json /\ MaxMessages \in Nat

\* The signal that passes on the data of an event.  "refresh" stands for the
\* events that only make the service send a query of its own.
Subscriptions == [temp                  |-> "temperature",
                  printerListChanged    |-> "printers",
                  config                |-> "config",
                  modelGroupListChanged |-> "refresh",
                  jobsChanged           |-> "refresh",
                  jobFinished           |-> "refresh"]

\* The signal that passes on the response to a query.
Queries == [listPrinter      |-> "printers",
            getPrinterConfig |-> "config",
            listModelGroups  |-> "groups",
            listModels       |-> "models"]

NoQuery == [id |-> 0, signal |-> "none", slug |-> <<>>]

VARIABLES
  loop,       \* the receive loop: "reading", "stopped" by a json::exception,
              \*   "reported" as an error, "escaped" from run(), "undefined"
  lastCallbackId_,
  pending,    \* the query whose response is awaited, or NoQuery
  delivered,  \* the handlers that ran, with the value each was given
  due,        \* history: the handlers that were to run, with their data
  received    \* history: messages received

vars == <<loop, lastCallbackId_, pending, delivered, due, received>>

-----------------------------------------------------------------------------

\* Things done one after the other, each with the ways it can turn out: the
\* ways all of them can.
Each(outcomes) ==
  LET ways[n \in 0..Len(outcomes)] ==
        IF n = 0 THEN {<<>>}
        ELSE {Append(outs, o) : outs \in ways[n - 1], o \in outcomes[n]}
  IN ways[Len(outcomes)]

Failed(outs) == {i \in DOMAIN outs : "throws" \in DOMAIN outs[i]}

\* json::get< vector >
ArrayOf(json, From(_)) ==
  IF DOMAIN json # {"array"} THEN {Throws("json")}
  ELSE {IF Failed(outs) = {}
        THEN Yields([i \in DOMAIN outs |-> outs[i].yields])
        ELSE outs[Min(Failed(outs))] :
          outs \in Each([i \in DOMAIN json.array |-> From(json.array[i])])}

\* The groups of a printer, after checkResponseOk.
ToModelGroups(d) ==
  CASE ~IsA(d, "ok", "bool")          -> {Throws("json")}
    [] IsA(d, "ok", "bool") /\ ~d.ok.bool -> {Throws("system_error")}
    [] IsA(d, "ok", "bool") /\ d.ok.bool  ->
         IF "groupNames" \in DOMAIN d THEN ArrayOf(d.groupNames, ToModelGroup)
                                      ELSE {Throws("json")}

ToModels(d) ==
  IF "data" \in DOMAIN d THEN ArrayOf(d.data, ToModel) ELSE {Throws("json")}

\* The argument of a signal, converted from the data of a message.
Converted(h) ==
  CASE h.signal = "temperature" -> {ToTemperature(h.data)}
    [] h.signal = "printers"    -> ArrayOf(h.data, ToPrinter)
    [] h.signal = "config"      -> ToPrinterConfig(h.data)
    [] h.signal = "groups"      -> ToModelGroups(h.data)
    [] h.signal = "models"      -> ToModels(h.data)
    [] h.signal = "refresh"     -> {Yields(Null)}
    [] h.signal = "unreadable"  -> {Throws("json")}

Handler(signal, slug, data) ==
  [signal |-> signal, slug |-> slug, data |-> data]
Unreadable == Handler("unreadable", <<>>, Null)

\* handle_event(): data is looked for only when somebody subscribed.
EventHandler(e) ==
  IF /\ "printer" \in DOMAIN e => IsA(e, "printer", "string")
     /\ "data" \in DOMAIN e
  THEN Handler(Subscriptions[e.event.word],
               IF "printer" \in DOMAIN e THEN e.printer.string ELSE <<>>,
               e.data)
  ELSE Unreadable

\* The name of an event is a string; words are the names the code spells.
Named(e) == IsA(e, "event", "string") \/ IsA(e, "event", "word")
Heard(e) == IsA(e, "event", "word") /\ e.event.word \in DOMAIN Subscriptions

EventHandlers(list) ==
  FlattenSeq([i \in DOMAIN list |->
    CASE Heard(list[i])                     -> <<EventHandler(list[i])>>
      [] Named(list[i]) /\ ~Heard(list[i]) -> <<>>
      [] ~Named(list[i])                    -> <<Unreadable>>])

\* What iterating over data visits; for an object, left out here, that would
\* be its members.
Elements(data) == CASE DOMAIN data = {"array"} -> data.array
                    [] data = Null             -> <<>>
                    [] OTHER                   -> <<data>>

IsMessage(m) == IsA(m, "callback_id", "number") /\ "data" \in DOMAIN m
IsResponse(m) == IsMessage(m) /\ m.callback_id.number >= 0

\* The response to the query that is pending; any other is dropped.
IsAwaited(m) ==
  IsResponse(m) /\ pending # NoQuery /\ m.callback_id.number = pending.id

\* handle_message() and handle_callback(): the handlers a message calls for.
Handlers(m) ==
  CASE ~IsMessage(m) -> <<Unreadable>>
    [] IsResponse(m) ->
         IF IsAwaited(m)
         THEN <<Handler(pending.signal, pending.slug, m.data)>>
         ELSE <<>>
    [] IsMessage(m) /\ ~IsResponse(m) ->
         IF "eventList" \notin DOMAIN m THEN <<>>
         ELSE IF ~IsA(m, "eventList", "bool") THEN <<Unreadable>>
         ELSE IF m.eventList.bool THEN EventHandlers(Elements(m.data))
         ELSE <<>>

\* checked_spawn(): what becomes of the loop after an exception.
Ends == [json             |-> "stopped",
         system_error     |-> "reported",
         invalid_argument |-> "escaped",
         undefined        |-> "undefined"]

-----------------------------------------------------------------------------

Init ==
  /\ loop = "reading"
  /\ lastCallbackId_ = 0
  /\ pending = NoQuery
  /\ delivered = <<>>
  /\ due = <<>>
  /\ received = 0

\* One of the service's queries was sent.
Request(k, slug) ==
  /\ loop = "reading"
  /\ received < MaxMessages
  /\ pending = NoQuery
  /\ lastCallbackId_' = lastCallbackId_ + 1
  /\ pending' = [id     |-> lastCallbackId_ + 1,
                 signal |-> Queries[k],
                 slug   |-> slug]
  /\ UNCHANGED <<loop, delivered, due, received>>

Conversions(handlers) == [i \in DOMAIN handlers |-> Converted(handlers[i])]

Run(handlers, outs, n) ==
  [i \in 1..n |-> [signal |-> handlers[i].signal,
                   slug   |-> handlers[i].slug,
                   value  |-> outs[i].yields]]

\* Seeded fault: an event that cannot be handled is skipped.
ReceiveSkips(m) ==
  \E outs \in Each(Conversions(Handlers(m))) :
    LET handlers == Handlers(m)
        good     == SelectSeq([i \in DOMAIN outs |-> i],
                              LAMBDA i : i \notin Failed(outs))
    IN /\ loop = "reading"
       /\ received < MaxMessages
       /\ received' = received + 1
       /\ delivered' = delivered \o
            Run([i \in DOMAIN good |-> handlers[good[i]]],
                [i \in DOMAIN good |-> outs[good[i]]], Len(good))
       /\ due' = due \o handlers
       /\ pending' = IF IsAwaited(m) THEN NoQuery ELSE pending
       /\ UNCHANGED <<loop, lastCallbackId_>>

\* A message arrives: its handlers run up to the first exception.
Receive(m) ==
  \E outs \in Each(Conversions(Handlers(m))) :
    LET handlers == Handlers(m)
        failed   == Failed(outs)
        good     == IF failed = {} THEN Len(outs) ELSE Min(failed) - 1
    IN /\ loop = "reading"
       /\ received < MaxMessages
       /\ received' = received + 1
       /\ delivered' = delivered \o Run(handlers, outs, good)
       /\ due' = due \o handlers
       /\ pending' = IF IsAwaited(m) THEN NoQuery ELSE pending
       /\ UNCHANGED lastCallbackId_
       /\ loop' = IF failed = {} THEN "reading"
                                 ELSE Ends[outs[good + 1].throws]

Next ==
  \/ \E k \in DOMAIN Queries, slug \in Slugs : Request(k, slug)
  \/ \E m \in Messages : Receive(m)

Spec == Init /\ [][Next]_vars

-----------------------------------------------------------------------------
(***************************************************************************)
(* Properties                                                              *)
(***************************************************************************)

\* The slots get values of the classes of types.hpp.
ValueType ==
  [temperature |-> Temperature, printers |-> Seq(Printer),
   config |-> PrinterConfig, groups |-> Seq(ModelGroup), models |-> Seq(Model),
   refresh |-> {Null}]
TypeOK ==
  /\ loop \in {"reading", "stopped", "reported", "escaped", "undefined"}
  /\ \A i \in DOMAIN delivered :
       delivered[i].value \in ValueType[delivered[i].signal]
  /\ lastCallbackId_ \in Nat
  /\ received \in 0..MaxMessages

\* The handlers run in the order the server sent what they handle, those of
\* one event list before an undecodable event included; while the loop goes on,
\* none is left out.
HandledInOrder ==
  /\ \A i \in DOMAIN delivered :
       /\ delivered[i].signal = due[i].signal
       /\ delivered[i].slug = due[i].slug
  /\ loop = "reading" => Len(delivered) = Len(due)

\* The data that a server of the protocol sends with each signal.
TemperatureForm(d) ==
  /\ \A k \in {"id", "S", "T"} : IsA(d, k, "number")
  /\ d.id.number \in -1..MaxInt
PrinterForm(d) ==
  /\ IsA(d, "active", "bool")
  /\ IsA(d, "online", "number")
  /\ \A k \in {"name", "slug", "job"} : IsA(d, k, "string")
ExtruderForm(d) == IsA(d, "maxTemp", "number")
HeatbedForm(d) ==
  /\ IsA(d, "installed", "bool")
  /\ d.installed.bool => IsA(d, "maxTemp", "number")
ConfigForm(d) ==
  /\ "general" \in DOMAIN d
  /\ \A k \in {"active", "heatedBed"} : IsA(d.general, k, "bool")
  /\ \A k \in {"slug", "name", "firmwareName"} : IsA(d.general, k, "string")
  /\ IsA(d, "extruders", "array")
  /\ \A i \in DOMAIN d.extruders.array : ExtruderForm(d.extruders.array[i])
  /\ d.general.heatedBed.bool /\ "heatedBed" \in DOMAIN d =>
       HeatbedForm(d.heatedBed)
GroupForm(d) == DOMAIN d = {"string"}
ModelForm(d) ==
  /\ \A k \in {"name", "group"} : IsA(d, k, "string")
  /\ \A k \in {"id", "created", "length", "layer", "lines", "printTime"} :
       IsA(d, k, "number")
ListForm(d, Form(_)) ==
  DOMAIN d = {"array"} /\ \A i \in DOMAIN d.array : Form(d.array[i])
WellFormed(signal, d) ==
  CASE signal = "temperature" -> TemperatureForm(d)
    [] signal = "printers"    -> ListForm(d, PrinterForm)
    [] signal = "config"      -> ConfigForm(d)
    [] signal = "groups"      ->
         /\ IsA(d, "ok", "bool")
         /\ d.ok.bool => /\ "groupNames" \in DOMAIN d
                         /\ ListForm(d.groupNames, GroupForm)
    [] signal = "models"      ->
         "data" \in DOMAIN d /\ ListForm(d.data, ModelForm)
    [] signal = "refresh"     -> TRUE
    [] signal = "unreadable"  -> FALSE

\* A server that keeps to the protocol never ends the loop, whatever the
\* optional members and the events nobody subscribed to: the handler that ended
\* it had data of another form, and only a temperature escapes from run().
EndsForAReason ==
  loop \in {"stopped", "escaped"} =>
    LET h == due[Len(delivered) + 1]
    IN /\ ~WellFormed(h.signal, h.data)
       /\ loop = "escaped" => h.signal = "temperature"

\* The lists of printers that were delivered.
PrinterLists == {i \in DOMAIN delivered : delivered[i].signal = "printers"}

\* The names and slugs given to the application stand for those the server
\* sent, so different printers stay different; a printer is shown as printing
\* when the server says it is.  The slug of an event is not converted, that of
\* a printer is: the two meet in the application's cache when the slug is
\* ASCII, and then only for the printer that was meant.  Frontend asks for the
\* lists of the printer at once (frontend.cpp:108), and its slug can be written
\* into that request whatever bytes the server sent: dump() does not throw.
PrintersTold ==
  \A i \in PrinterLists : \A j \in DOMAIN delivered[i].value :
    LET p    == delivered[i].value[j]
        sent == due[i].data.array[j]
    IN /\ FromUtf8(p.slug) = sent.slug.string
       /\ FromUtf8(p.name) = sent.name.string
       /\ Dumpable(p.slug)
       /\ State(p) = "printing" <=>
            /\ sent.active.bool
            /\ sent.online # Number(0)
            /\ sent.job.string # NoJob
       /\ \A e \in DOMAIN delivered :
            Ascii(delivered[e].slug) =>
              (delivered[e].slug = p.slug
                 <=> delivered[e].slug = sent.slug.string)

\* A print time is less than a millisecond or a rounded one below the one that
\* was sent, and never above it.
PrintTimesExact ==
  \A i \in DOMAIN delivered : delivered[i].signal = "models" =>
    \A j \in DOMAIN delivered[i].value :
      LET exact == Max({0, due[i].data.data.array[j].printTime.number}) * 100
          shown == delivered[i].value[j].printTime
      IN exact - 1000 <= shown /\ shown <= exact
=============================================================================
