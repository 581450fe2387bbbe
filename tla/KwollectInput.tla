---------------------------- MODULE KwollectInput ----------------------------
(***************************************************************************)
(* The kwollect-input plugin: its metrics get their units from their       *)
(* names, and the measures are asked to a service at the end of the        *)
(* measurement, by a source that is created and triggered then.            *)
(***************************************************************************)
EXTENDS Units, Integers

CONSTANTS
    KwNames,       \* names of metrics, as sequences of texts (see Units)
    KwMetrics,     \* bound: number of metrics
    KwMeasures     \* measures that the service may answer with: [device, readable]

ASSUME KwollectAssumption ==
    /\ KwNames \subseteq Seq([head : STRING, rest : STRING]) \ {<<>>}
    /\ KwMetrics \in Nat

VARIABLES
    kwNames,     \* the metrics of the configuration
    kwUnits,     \* units of the metrics created
    kwRequests,  \* requests sent to the control loop of the pipeline
    kwHandler,   \* of the event: "none", "adding", "triggering", "done" or "failed"
    kwTask,      \* of the source: "none", "spawned", "waiting", "polling", "updating", "ended"
                 \* or "failed"
    kwPermit,    \* the permit of the manual trigger
    kwStop,      \* the pipeline shuts down
    kwPolls      \* history: number of polls

kwVars == <<kwNames, kwUnits, kwRequests, kwHandler, kwTask, kwPermit, kwStop, kwPolls>>

Text(head, rest) == [head |-> head, rest |-> rest]
Word(word) == Text("", word)

NormalizedUnits ==
    [watt |-> "W", watthour |-> "W.h", celsius |-> "Cel", percent |-> "%", VA |-> "V.A",
     VAr |-> "V.A_r", amp |-> "A", ampere |-> "A", volt |-> "V", hertz |-> "Hz", lux |-> "lx",
     deg |-> "degree", cfm |-> "[cft_i]/min", bytes |-> "By", packets |-> "1"]

NormalizeUnit(text) ==
    CASE text = Text("kilo", "watt") -> Text("k", "W")
      [] text.head = "" /\ text.rest \in DOMAIN NormalizedUnits -> Word(NormalizedUnits[text.rest])
      [] OTHER -> text

\* Mutant of UnitOfName: what comes before "total" is always the unit.
UnitOfNameBeforeTotal(name) ==
    LET n == Len(name) IN
    NormalizeUnit(IF n >= 3 /\ name[n] = Word("total") THEN name[n - 1] ELSE name[n])

\* extract_unit_from_metric_name.
UnitOfName(name) ==
    LET n == Len(name) IN
    NormalizeUnit(IF n < 3 \/ name[n] # Word("total") THEN name[n]
                  ELSE IF name[n - 1] \in {Word("discard"), Word("error")} THEN name[n - 2]
                  ELSE name[n - 1])

\* A text that is not a unit of Alumet becomes a custom unit.
UnitOf(text) ==
    IF ParsePrefixedUnit(text) # Invalid THEN ParsePrefixedUnit(text)
    ELSE WithPrefix(CustomUnit(text, text), "Plain")

KwollectInit ==
    /\ kwNames \in UNION {[1..n -> KwNames] : n \in 1..KwMetrics} /\ IsInjective(kwNames)
    /\ kwUnits = <<>> /\ kwRequests = <<>> /\ kwHandler = "none" /\ kwTask = "none"
    /\ kwPermit = FALSE /\ kwStop = FALSE /\ kwPolls = 0

\* start.
CreateMetrics ==
    /\ kwUnits = <<>>
    /\ kwUnits' = [i \in DOMAIN kwNames |-> UnitOf(UnitOfName(kwNames[i]))]
    /\ UNCHANGED <<kwNames, kwRequests, kwHandler, kwTask, kwPermit, kwStop, kwPolls>>

unitsOnly == <<kwNames, kwUnits>>

\* The end of the measurement: its handler asks for the creation of the source.
EndConsumerMeasurement ==
    /\ kwUnits # <<>> /\ kwHandler = "none"
    /\ kwHandler' = "adding" /\ kwRequests' = <<"add">>
    /\ UNCHANGED <<unitsOnly, kwTask, kwPermit, kwStop, kwPolls>>

\* Mutant of Trigger: a task that does not wait yet misses the call.
TriggerIfWaiting == kwTask = "waiting"

\* ManualTrigger::trigger_now stores a permit.
Trigger == TRUE

\* The control loop handles a request, and answers.  An answer that the handler no more waits
\* for is lost.
HandleAdd ==
    /\ kwRequests # <<>> /\ Head(kwRequests) = "add" /\ ~kwStop
    /\ kwTask' = "spawned"
    /\ IF kwHandler = "adding"
       THEN kwHandler' = "triggering" /\ kwRequests' = Append(Tail(kwRequests), "trigger")
       ELSE kwRequests' = Tail(kwRequests) /\ UNCHANGED kwHandler
    /\ UNCHANGED <<unitsOnly, kwPermit, kwStop, kwPolls>>

HandleTrigger ==
    /\ kwRequests # <<>> /\ Head(kwRequests) = "trigger" /\ ~kwStop
    /\ kwRequests' = Tail(kwRequests)
    /\ kwPermit' = Trigger
    /\ kwHandler' = "done"
    /\ UNCHANGED <<unitsOnly, kwTask, kwStop, kwPolls>>

\* send_wait gives up after five seconds: the request stays in the channel.
RequestTimeout ==
    /\ kwHandler \in {"adding", "triggering"}
    /\ kwHandler' = "failed"
    /\ UNCHANGED <<unitsOnly, kwRequests, kwTask, kwPermit, kwStop, kwPolls>>

\* The agent stops the pipeline after the event.
ShutdownPipeline ==
    /\ kwHandler \in {"done", "failed"} /\ ~kwStop
    /\ kwStop' = TRUE
    /\ UNCHANGED <<unitsOnly, kwRequests, kwHandler, kwTask, kwPermit, kwPolls>>

\* The task looks at its state before its first wait and after each poll.  The trigger cannot
\* be interrupted: a task that waits does not hear of the shutdown.
LookAtState ==
    /\ kwTask \in {"spawned", "updating"}
    /\ kwTask' = IF kwStop THEN "ended" ELSE "waiting"
    /\ UNCHANGED <<unitsOnly, kwRequests, kwHandler, kwPermit, kwStop, kwPolls>>

Triggered ==
    /\ kwTask = "waiting" /\ kwPermit
    /\ kwPermit' = FALSE /\ kwTask' = "polling"
    /\ UNCHANGED <<unitsOnly, kwRequests, kwHandler, kwStop, kwPolls>>

\* KwollectSource::poll: a measure that cannot be read ends the source, and what was pushed
\* before is lost.
PollKwollect(measures) ==
    /\ kwTask = "polling"
    /\ kwPolls' = kwPolls + 1
    /\ kwTask' = IF \A m \in measures : m.readable THEN "updating" ELSE "failed"
    /\ UNCHANGED <<unitsOnly, kwRequests, kwHandler, kwPermit, kwStop>>

\* The service does not answer, or its answer is not a list of measures.
PollKwollectFails ==
    /\ kwTask = "polling"
    /\ kwPolls' = kwPolls + 1 /\ kwTask' = "failed"
    /\ UNCHANGED <<unitsOnly, kwRequests, kwHandler, kwPermit, kwStop>>

KwollectNext ==
    \/ CreateMetrics \/ EndConsumerMeasurement
    \/ HandleAdd \/ HandleTrigger \/ RequestTimeout \/ ShutdownPipeline
    \/ LookAtState \/ Triggered
    \/ \E measures \in SUBSET KwMeasures : PollKwollect(measures)
    \/ PollKwollectFails

KwollectSpec == KwollectInit /\ [][KwollectNext]_kwVars

(* Once the source has been told to measure, it has measured or it will: only a  *)
(* shutdown that comes before its task has looked at its state for the first     *)
(* time, or a failure of the service, loses the measurement.                     *)
EventIsMeasured ==
    /\ kwHandler = "done" =>
         kwPolls = 1 \/ kwTask \in {"spawned", "polling"} \/ (kwTask = "waiting" /\ kwPermit)
                     \/ (kwTask = "ended" /\ kwStop)
    /\ kwPolls <= 1
    /\ kwTask \in {"ended", "failed"} => kwStop \/ kwPolls = 1

StandardUnits == {WithPrefix(StandardUnit(u), p) : u \in DOMAIN UnitNames, p \in DOMAIN PrefixNames}

SameUnit(u, v) ==
    u.prefix = v.prefix /\ u.base.type = v.base.type /\ (u.base.type = "Custom" => u = v)

(* A metric whose name ends with the unique name of a unit of Alumet has this unit, *)
(* and a metric that counts the total of another, or what was discarded or wrong in *)
(* it, has the unit of the other, unless the other is such a count itself.          *)
UnitsFollowNames ==
    \A i \in DOMAIN kwUnits : LET name == kwNames[i] IN
        /\ \A p \in StandardUnits : Last(name) = UniqueName(p) => SameUnit(kwUnits[i], p)
        /\ \A j \in DOMAIN kwUnits : LET other == kwNames[j] IN
             /\ Len(other) >= 2 /\ Last(other) \notin {Word("total"), Word("error"), Word("discard")}
             /\ name \in {other \o more : more \in {<<Word("total")>>, <<Word("error"), Word("total")>>,
                                                   <<Word("discard"), Word("total")>>}}
             => SameUnit(kwUnits[i], kwUnits[j])

(* Both, for the composition of the sources. *)
EventsAreTold == EventIsMeasured /\ UnitsFollowNames

===============================================================================
