-------------------- MODULE MCCore --------------------
(*****************************************************************************)
(* The parts of the agent that do not share any state with the pipeline, on  *)
(* small instances: an initial state chooses the one that runs, and the      *)
(* others do not move.                                                       *)
(*****************************************************************************)
EXTENDS TriggerCoop, MetricRegistry, Relay, Agent, Commands, TriggerSpecs, CsvOutput,
        RemoteOutputs, Aggregation, Attribution, PointTransforms, RelayFormat

CONSTANTS letter, suffix, csv, rapl, alien

VARIABLE part    \* the component that runs

Definition(n, k, t) == [name |-> n, kind |-> k, text |-> t]
MCInitial == <<Definition(<<letter>>, "W", "t")>>
MCBatches ==
    {<<Definition(<<letter>>, "J", "t"), Definition(<<letter>>, "W", "u")>>,
     <<Definition(<<letter>>, "J", "t")>>,
     <<Definition(<<letter, suffix>>, "W", "t")>>}
MCMetrics == {MCInitial[1]} \union UNION {{b[i] : i \in DOMAIN b} : b \in MCBatches}

\* Bound of the relay: a failure is the first one, or a consequence of it.
NoFailureYet == ~faulty
FirstOrCaused == faulty => \E k \in DOMAIN conn : conn[k].reset
\* Bound of the relay: the stream is stopped with all the points made, sent or not.
AllMeasured == made = MaxPoints

Table(p, e) == [name |-> p, enabled |-> e]
MCBundled == <<csv, rapl>>
MCConfigFiles ==
    {<<>>, <<Table(rapl, TRUE), Table(csv, TRUE)>>, <<Table(csv, FALSE), Table(rapl, TRUE)>>,
     <<Table(rapl, TRUE), Table(alien, TRUE)>>, <<Table(rapl, TRUE)>>}
MCSelections == {NoSelection, {csv}}
MCBehaviours == {Nothing, [pre |-> 1, post |-> 2, subscribes |-> TRUE]}

Line(selector, op, period) ==
    [command |-> "control", selector |-> selector, op |-> op, period |-> period]
MCManaged == {<< <<"p">>, <<"a", "b">> >>}
MCAutonomous == {<< <<"q">>, <<"b">> >>}
MCLate == {<< <<"p">>, <<"b", "a">> >>}
MCTransforms == << << <<"p">>, <<"b">> >>, << <<"q">>, <<"a">> >> >>
MCOutputs == {<< <<"p">>, <<"a">> >>}
MCLines ==
    {Line(<<"sources", <<"*">>, <<"a", "*">> >>, "pause", "none"),
     Line(<<"any">>, "disable", "none"),
     Line(<<"*", <<"p">>, <<"*", "b">> >>, "enable", "none"),
     Line(<<"out", <<"p">>, <<"a">> >>, "stop", "none"),
     Line(<<"src">>, "stop", "none"),
     Line(<<"tra", <<"q">>, <<"*">> >>, "pause", "none"),
     Line(<<"tra">>, "stop", "none"),
     Line(<<"src">>, "set-period", "zero"),
     Line(<<"src">>, "set-period", "ok")}

MCConstraints == {[max |-> 2, manual |-> FALSE], [max |-> 3, manual |-> TRUE]}

MCCsvValues == {<<>>, <<"newline">>, <<LateDelimiter, QuoteMark>>, <<LateDelimiter, Delimiter>>}

Sent(m, v, k) == [metric |-> m, value |-> v, attrs |-> [key \in k |-> IF key = "job" THEN "" ELSE "x"]]
MCRemoteBuffers ==
    {<<>>, <<Sent("m1", "v1", {}), Sent("m2", "v1", {"value", "job"})>>,
     <<Sent("m1", "v2", {"consumer"})>>,
     <<Sent("m1", "v3", {}), Sent("m2", "v2", {"measurement"}), Sent("m2", "v3", {"timestamp"})>>}

Setup(consumers, metrics, retention, max, points, failing) ==
    [consumers |-> consumers, metrics |-> metrics, retention |-> retention, max |-> max,
     points |-> points, failing |-> failing]
MCAttributionSetups ==
    {Setup({"c1", "c2"}, {"load"}, 2, 3, 2, {}), Setup({"c1", "c2"}, {"load"}, 2, 2, 2, {2}),
     Setup({"c1"}, {"load", "memory"}, 2, 4, 1, {}), Setup({"c1"}, {"load", "memory"}, 1, 3, 1, {2}),
     Setup({"c1"}, {"load"}, 1, 4, 2, {})}

MCPointOrders ==
    {<<"filter", "carbon", "tdp">>, <<"tdp", "filter", "carbon">>, <<"tdp", "carbon", "filter">>}

AllUnits ==
    {WithPrefix(StandardUnit(u), p) : u \in DOMAIN UnitNames, p \in DOMAIN PrefixNames}
      \union {WithPrefix(CustomUnit("g_CO2", "gCO2"), "Plain")}
MCRelayedUnits == UNION {{<<u>>, <<WithPrefix(StandardUnit("Joule"), "Plain"), u>>} : u \in AllUnits}
MCPerimeters ==
    {Resource("LocalMachine", <<>>), Resource("Gpu", <<"x">>), Resource("GpuPartition", <<"x", "1">>),
     CustomOf("disk", <<"x">>), CustomOf("dram", <<"x">>)}
      \union {Resource(t, <<"0">>) : t \in {"CpuPackage", "CpuCore", "Dram"}}
MCUsers ==
    {Consumer("LocalMachine", <<>>), Consumer("Process", <<"1">>), Consumer("ControlGroup", <<"x">>),
     CustomOf("process", <<"x">>), CustomOf("job", <<"x">>)}
Relayed(r, c, k) == [resource |-> r, consumer |-> c, attr |-> k]
NothingToRelay == [kind |-> "points", items |-> <<>>]
MCRelayedPoints ==
    {<<>>} \union
    {<<Relayed(r, Consumer("LocalMachine", <<>>), "Str"), Relayed(Resource("Dram", <<"1">>), c, k)>> :
        r \in MCPerimeters, c \in MCUsers, k \in {"U64", "Bool", "String"}}

coreVars == <<part, vars, registryVars, relayVars, agentVars, commandsVars, triggerSpecVars,
    csvVars, remoteVars, aggVars, attrVars, pointVars, relayFormatVars>>

OnlyCoop == part = "coop" /\ UNCHANGED <<part, registryVars, relayVars, agentVars,
    commandsVars, triggerSpecVars, csvVars, remoteVars, aggVars, attrVars, pointVars,
    relayFormatVars>>

OnlyRegistry == part = "registry" /\ UNCHANGED <<part, vars, relayVars, agentVars,
    commandsVars, triggerSpecVars, csvVars, remoteVars, aggVars, attrVars, pointVars,
    relayFormatVars>>

OnlyRelay == part = "relay" /\ UNCHANGED <<part, vars, registryVars, agentVars,
    commandsVars, triggerSpecVars, csvVars, remoteVars, aggVars, attrVars, pointVars,
    relayFormatVars>>

OnlyAgent == part = "agent" /\ UNCHANGED <<part, vars, registryVars, relayVars,
    commandsVars, triggerSpecVars, csvVars, remoteVars, aggVars, attrVars, pointVars,
    relayFormatVars>>

OnlyCommands == part = "commands" /\ UNCHANGED <<part, vars, registryVars, relayVars,
    agentVars, triggerSpecVars, csvVars, remoteVars, aggVars, attrVars, pointVars,
    relayFormatVars>>

OnlyTriggers == part = "triggers" /\ UNCHANGED <<part, vars, registryVars, relayVars,
    agentVars, commandsVars, csvVars, remoteVars, aggVars, attrVars, pointVars,
    relayFormatVars>>

OnlyCsv == part = "csv" /\ UNCHANGED <<part, vars, registryVars, relayVars, agentVars,
    commandsVars, triggerSpecVars, remoteVars, aggVars, attrVars, pointVars,
    relayFormatVars>>

OnlyRemote == part = "remote" /\ UNCHANGED <<part, vars, registryVars, relayVars, agentVars,
    commandsVars, triggerSpecVars, csvVars, aggVars, attrVars, pointVars, relayFormatVars>>

OnlyAggregation == part = "aggregation" /\ UNCHANGED <<part, vars, registryVars, relayVars,
    agentVars, commandsVars, triggerSpecVars, csvVars, remoteVars, attrVars, pointVars,
    relayFormatVars>>

OnlyAttribution == part = "attribution" /\ UNCHANGED <<part, vars, registryVars, relayVars,
    agentVars, commandsVars, triggerSpecVars, csvVars, remoteVars, aggVars, pointVars,
    relayFormatVars>>

OnlyPoints == part = "points" /\ UNCHANGED <<part, vars, registryVars, relayVars, agentVars,
    commandsVars, triggerSpecVars, csvVars, remoteVars, aggVars, attrVars, relayFormatVars>>

OnlyFormat == part = "format" /\ UNCHANGED <<part, vars, registryVars, relayVars, agentVars,
    commandsVars, triggerSpecVars, csvVars, remoteVars, aggVars, attrVars, pointVars>>

CoreInit ==
    /\ part \in {"coop", "registry", "relay", "agent", "commands", "triggers", "csv", "remote", "aggregation", "attribution", "points", "format"}
    /\ Init
    /\ RegistryInit
    /\ RelayInit
    /\ AgentInit
    /\ CommandsInit
    /\ part # "triggers" => constraints = [max |-> 2, manual |-> FALSE]
    /\ TriggerSpecsInit
    /\ CsvInit
    /\ part # "remote" => remote = [kind |-> "mongodb", state |-> "new", tags |-> {}]
    /\ RemoteInit
    /\ part # "aggregation" => aggFunction = "sum"
    /\ AggregationInit
    /\ AttributionInit
    /\ part # "attribution" => attrSetup.retention = 1 /\ attrSetup.failing = {}
    /\ part # "points" => pointSetup = [order |-> <<"tdp", "filter", "carbon">>, second |-> TRUE, keep |-> {"cpu", "carbon"}]
    /\ PointTransformsInit
    /\ part # "format" => relaySent = NothingToRelay
    /\ RelayFormatInit

RunCoop ==
    \/ OnlyCoop /\ \E r \in Reasons : PollReady(r)
    \/ OnlyCoop /\ PollPreviouslyReady
    \/ OnlyCoop /\ PollPending
    \/ OnlyCoop /\ PollError

RunRegistry ==
    \/ OnlyRegistry /\ \E c \in Clients, b \in Batches, k \in Criteria, d \in RenameSuffixes \union {Error} :
          SendRegister(c, b, k, d)
    \/ OnlyRegistry /\ \E l \in Listeners : SendSubscribe(l)
    \/ OnlyRegistry /\ BeginRegister
    \/ OnlyRegistry /\ RegisterOne
    \/ OnlyRegistry /\ Publish
    \/ OnlyRegistry /\ CallListener
    \/ OnlyRegistry /\ Reply
    \/ OnlyRegistry /\ Subscribe
    \/ OnlyRegistry /\ RegistryEnd

RunRelay ==
    \/ OnlyRelay /\ PublishMetric
    \/ OnlyRelay /\ LateMetricsHook
    \/ OnlyRelay /\ AnswerSource
    \/ OnlyRelay /\ Measure
    \/ OnlyRelay /\ AllMeasured /\ StopStream
    \/ OnlyRelay /\ Connect
    \/ OnlyRelay /\ SendMetrics
    \/ OnlyRelay /\ PollMetrics
    \/ OnlyRelay /\ ReceivePoints
    \/ OnlyRelay /\ NothingReady
    \/ OnlyRelay /\ NoFailureYet /\ Lagged
    \/ OnlyRelay /\ EndOutput
    \/ OnlyRelay /\ Written
    \/ OnlyRelay /\ FirstOrCaused /\ WriteError
    \/ OnlyRelay /\ Reconnect
    \/ OnlyRelay /\ \E k \in DOMAIN conn : Read(k)
    \/ OnlyRelay /\ \E k \in DOMAIN conn : ReadEof(k)
    \/ OnlyRelay /\ NoFailureYet /\ \E k \in DOMAIN conn : ReadError(k)

RunAgent ==
    \/ OnlyAgent /\ \E c \in {"run", "exec", "watch"}, names \in Selections : ParseArgs(c, names)
    \/ OnlyAgent /\ LoadError
    \/ OnlyAgent /\ \E f \in ConfigFiles : LoadConfig(f)
    \/ OnlyAgent /\ SkipPhase
    \/ OnlyAgent /\ InitPlugin
    \/ OnlyAgent /\ \E b \in Behaviours : StartPlugin(b)
    \/ OnlyAgent /\ PreStart
    \/ OnlyAgent /\ Build
    \/ OnlyAgent /\ PostStart
    \/ OnlyAgent /\ PipelineEnds
    \/ OnlyAgent /\ Ready
    \/ OnlyAgent /\ Spawn
    \/ OnlyAgent /\ ChildExits
    \/ OnlyAgent /\ AfterChild
    \/ OnlyAgent /\ WaitPipeline
    \/ OnlyAgent /\ StopPlugin
    \/ OnlyAgent /\ ExitCode

RunCommands ==
    \/ OnlyCommands /\ \E line \in Lines : ReadLine(line)
    \/ OnlyCommands /\ DispatchMessage
    \/ OnlyCommands /\ DispatchTimeout
    \/ OnlyCommands /\ HandleCommand
    \/ OnlyCommands /\ \E name \in LateSources : CreateSource(name)
    \/ OnlyCommands /\ \E name \in AnySources : SourceEnds(name)

RunTriggers ==
    \/ OnlyTriggers /\ \E poll \in Intervals : NewBuilder("time", poll)
    \/ OnlyTriggers /\ NewBuilder("manual", 0)
    \/ OnlyTriggers /\ \E time \in Intervals : StartingAt(time)
    \/ OnlyTriggers /\ \E rounds \in Rounds : FlushRounds(rounds)
    \/ OnlyTriggers /\ \E rounds \in Rounds : UpdateRounds(rounds)
    \/ OnlyTriggers /\ \E interval \in Intervals : FlushInterval(interval)
    \/ OnlyTriggers /\ \E interval \in Intervals : UpdateInterval(interval)
    \/ OnlyTriggers /\ RealtimePriority
    \/ OnlyTriggers /\ AllowManualTrigger
    \/ OnlyTriggers /\ \E interruptible \in BOOLEAN : SetInterruptible(interruptible)
    \/ OnlyTriggers /\ BuildSpec
    \/ OnlyTriggers /\ CreateManaged
    \/ OnlyTriggers /\ TimerTick
    \/ OnlyTriggers /\ ManualTick
    \/ OnlyTriggers /\ Interruption
    \/ OnlyTriggers /\ Elapse
    \/ OnlyTriggers /\ Command
    \/ OnlyTriggers /\ \E poll \in Intervals : SetTriggerAt(poll)
    \/ OnlyTriggers /\ TriggerManually

RunCsv ==
    \/ OnlyCsv /\ \E n \in 0..MaxCsvLines : \E points \in [1..n -> CsvPoints] : WriteCsv(points)

RunRemote ==
    \/ OnlyRemote /\ \E answers \in BOOLEAN : StartOutput(answers)
    \/ OnlyRemote /\ \E points \in RemoteBuffers, answer \in {"ok", "down", "error"} : SendPoints(points, answer)
    \/ OnlyRemote /\ \E points \in RemoteBuffers : PromWrite(points)
    \/ OnlyRemote /\ PromSet
    \/ OnlyRemote /\ Scrape
    \/ OnlyRemote /\ StopPrometheus

RunAggregation ==
    \/ OnlyAggregation /\ \E batch \in AggBatches : StoreBatch(batch)
    \/ OnlyAggregation /\ BounceBuffer
    \/ OnlyAggregation /\ \E k \in AggKeys : AskToWrite(k)
    \/ OnlyAggregation /\ FillTable

RunAttribution ==
    \/ OnlyAttribution /\ \E reference \in After(attrGeneral), batch \in AttributionBatches :
          \E order \in UNION {Orders(S) : S \in SUBSET attrSetup.consumers} :
            ApplyAttribution(reference, batch, order)

RunPoints ==
    \/ OnlyPoints /\ \E metrics \in UNION {[1..n -> PointMetrics] : n \in 0..MaxPointsIn} : TakeBuffer(metrics)
    \/ OnlyPoints /\ RunTransform
    \/ OnlyPoints /\ SendBuffer
    \/ OnlyPoints /\ \E t \in {"filter", "carbon", "tdp"} : ToggleTransform(t)

RunFormat ==
    \/ OnlyFormat /\ RelayMetrics
    \/ OnlyFormat /\ RelayPoints

CoreNext == RunCoop \/ RunRegistry \/ RunRelay \/ RunAgent \/ RunCommands \/ RunTriggers \/ RunCsv \/ RunRemote \/ RunAggregation \/ RunAttribution \/ RunPoints \/ RunFormat

CoreSpec == CoreInit /\ [][CoreNext]_coreVars

\* No point has a metric that its reader does not know: the listeners of the registry have been
\* told of each metric before its creator uses it (MetricRegistry), and a server of a relay knows
\* each metric of the points that a client sends, but for one told and measured within one turn
\* of the client (Relay).
MetricsAreKnown == KnownEverywhere /\ MetricsKnown

\* What is written can be read again: a line of the CSV file (CsvOutput), a row, a line of the
\* line protocol or a page of gauges that a service has been given (RemoteOutputs), whatever
\* the attributes are and whenever they come; and the agents after a relay tell the same as the
\* first one (RelayFormat).
PointsAreTold ==
    CsvIsReadable /\ RowsAreRight /\ LinesAreRight /\ ScrapesAreWhole /\ RelayKeepsMeanings

\* The transforms count each point once, whatever the buffers in which it comes: in a window of
\* time (Aggregation), in what each consumer is given of it (Attribution), and in the points
\* that are made from it (PointTransforms).
PointsCountOnce == WindowsAreWhole /\ AttributedOnce /\ NothingOwedIsLost /\ BuffersAreConsistent
===============================================================================
