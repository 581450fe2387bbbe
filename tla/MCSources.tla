-------------------- MODULE MCSources --------------------
(*****************************************************************************)
(* The sources of the plugins, each on a small instance: an initial state    *)
(* chooses the one that runs, and the others do not move.                    *)
(*****************************************************************************)
EXTENDS CgroupDetection, CgroupProbe, Rapl, Nvml, AmdGpu, CgroupReactor, K8sPods,
        ProcWatcher, ProcProbes, Quarch, KwollectInput

CONSTANTS a, b, h1, h2, h3

VARIABLE part    \* the component that runs

MCCgroups == {<<a>>, <<a, b>>}

Everything == [c \in GpuCalls |-> "ok"]
Nowhere == [c \in GpuCalls |-> "no"]
MCGpuAnswers ==
    {Everything,
     [Everything EXCEPT !["memory"] = "no"],
     [Everything EXCEPT !["compute"] = "nosymbol", !["graphics"] = "no"],
     [Everything EXCEPT !["power"] = "error"],
     [Nowhere EXCEPT !["stats"] = "ok"],
     [Everything EXCEPT !["power"] = "no"]}

MCProcessors == <<"p1", "p2">>
MCAmdAnswers ==
    LET all == [c \in AmdCalls |-> "ok"] IN
    {all, [all EXCEPT !["energy"] = "no"], [all EXCEPT !["management"] = "no"],
     [all EXCEPT !["voltage"] = "error"], [c \in AmdCalls |-> "no"]}

MCHierarchies == {[h \in {h1} |-> 2], [h \in {h2, h3} |-> 1]}
Group(h, j, steps) == [h |-> h, job |-> j, steps |-> steps]
MCGroups ==
    {Group(h1, 1, <<>>), Group(h1, 1, <<"s">>), Group(h1, 2, <<>>),
     Group(h2, 1, <<>>), Group(h2, 2, <<>>), Group(h3, 1, <<>>)}
MCPlugins ==
    {[kind |-> k, jobsOnly |-> TRUE, level |-> 0, annotate |-> k = "slurm"] :
        k \in {"raw", "oar", "slurm"}}

MCPodPaths == {<<"p1", "pod">>, <<"p1", "container">>, <<"p2", "pod">>}

\* Bounds: the process that starts first is the one that runs, and one pid is adopted.
FirstProcess == 1
AdoptedPid == 3
MCProcFilters == {<<"exe", "child">>}
MemLine(k, u) == [key |-> k, value |-> 3, unit |-> u]
MCMemLines ==
    {<<MemLine("MemTotal", "kB"), MemLine("HugePages", "none")>>,
     <<MemLine("MemTotal", "kB"), MemLine("Other", "parsec"), MemLine("MemFree", "kB")>>}

PacketsName == <<Word("net"), Word("packets")>>
MCPlainNames ==
    {PacketsName} \union {<<Word("net"), u>> :
        u \in {Word("watt"), Text("kilo", "watt"), Text("m", "/s"), Text("mega", "W"), Text("milli", "1")}}
MCKwNames ==
    MCPlainNames \union
    {n \o more : n \in MCPlainNames, more \in {<<Word("total")>>, <<Word("error"), Word("total")>>}}
MCKwMeasures == {[device |-> "d1", readable |-> TRUE], [device |-> "d2", readable |-> FALSE]}

sourcesVars == <<part, detectionVars, cgroupProbeVars, raplVars, nvmlVars, amdVars,
    reactorVars, k8sVars, procWatcherVars, procProbeVars, quarchVars, kwVars>>

OnlyDetection == part = "detection" /\ UNCHANGED <<part, cgroupProbeVars, raplVars,
    nvmlVars, amdVars, reactorVars, k8sVars, procWatcherVars, procProbeVars, quarchVars,
    kwVars>>

OnlyProbe == part = "probe" /\ UNCHANGED <<part, detectionVars, raplVars, nvmlVars, amdVars,
    reactorVars, k8sVars, procWatcherVars, procProbeVars, quarchVars, kwVars>>

OnlyRapl == part = "rapl" /\ UNCHANGED <<part, detectionVars, cgroupProbeVars, nvmlVars,
    amdVars, reactorVars, k8sVars, procWatcherVars, procProbeVars, quarchVars, kwVars>>

OnlyNvml == part = "nvml" /\ UNCHANGED <<part, detectionVars, cgroupProbeVars, raplVars,
    amdVars, reactorVars, k8sVars, procWatcherVars, procProbeVars, quarchVars, kwVars>>

OnlyAmd == part = "amd" /\ UNCHANGED <<part, detectionVars, cgroupProbeVars, raplVars,
    nvmlVars, reactorVars, k8sVars, procWatcherVars, procProbeVars, quarchVars, kwVars>>

OnlyReactor == part = "reactor" /\ UNCHANGED <<part, detectionVars, cgroupProbeVars,
    raplVars, nvmlVars, amdVars, k8sVars, procWatcherVars, procProbeVars, quarchVars,
    kwVars>>

OnlyK8s == part = "k8s" /\ UNCHANGED <<part, detectionVars, cgroupProbeVars, raplVars,
    nvmlVars, amdVars, reactorVars, procWatcherVars, procProbeVars, quarchVars, kwVars>>

OnlyProcwatch == part = "procwatch" /\ UNCHANGED <<part, detectionVars, cgroupProbeVars,
    raplVars, nvmlVars, amdVars, reactorVars, k8sVars, procProbeVars, quarchVars, kwVars>>

OnlyProcprobe == part = "procprobe" /\ UNCHANGED <<part, detectionVars, cgroupProbeVars,
    raplVars, nvmlVars, amdVars, reactorVars, k8sVars, procWatcherVars, quarchVars, kwVars>>

OnlyQuarch == part = "quarch" /\ UNCHANGED <<part, detectionVars, cgroupProbeVars, raplVars,
    nvmlVars, amdVars, reactorVars, k8sVars, procWatcherVars, procProbeVars, kwVars>>

OnlyKwollect == part = "kwollect" /\ UNCHANGED <<part, detectionVars, cgroupProbeVars,
    raplVars, nvmlVars, amdVars, reactorVars, k8sVars, procWatcherVars, procProbeVars,
    quarchVars>>

SourcesInit ==
    /\ part \in {"detection", "probe", "rapl", "nvml", "amd", "reactor", "k8s", "procwatch", "procprobe", "quarch", "kwollect"}
    /\ part # "detection" => mode = "inotify"
    /\ DetectionInit
    /\ CgroupProbeInit
    /\ RaplInit
    /\ NvmlInit
    /\ AmdInit
    /\ ReactorInit
    /\ part # "reactor" => plugin.kind = "raw" /\ DOMAIN versions = {h1}
    /\ part # "k8s" => annotateContainers = FALSE
    /\ K8sInit
    /\ ProcWatcherInit
    /\ part # "procwatch" => slowMem = FALSE /\ strategy = "event"
    /\ part # "procprobe" => sysProbe = "memory"
    /\ ProcProbesInit
    /\ part # "quarch" => qis = "none"
    /\ QuarchInit
    /\ part # "kwollect" => kwNames = <<PacketsName>>
    /\ KwollectInit

RunDetection ==
    \/ OnlyDetection /\ \E p \in Cgroups : CreateCgroup(p)
    \/ OnlyDetection /\ \E p \in Cgroups : RemoveCgroup(p)
    \/ OnlyDetection /\ \E d \in Cgroups \X (1..MaxCreations) : SourceStops(d)
    \/ OnlyDetection /\ WalkStat
    \/ OnlyDetection /\ WalkAdd
    \/ OnlyDetection /\ WalkList
    \/ OnlyDetection /\ StartThread
    \/ OnlyDetection /\ ReadEvents
    \/ OnlyDetection /\ ProcessCreate
    \/ OnlyDetection /\ ProcessDelete
    \/ OnlyDetection /\ ProcessDeleteSelf
    \/ OnlyDetection /\ ProcessOverflow
    \/ OnlyDetection /\ EndBatch
    \/ OnlyDetection /\ HandleDeleted
    \/ OnlyDetection /\ HandleCreated
    \/ OnlyDetection /\ Rescan
    \/ OnlyDetection /\ FullScan
    \/ OnlyDetection /\ RegisterFound
    \/ OnlyDetection /\ PollingRefresh

RunProbe ==
    \/ OnlyProbe /\ \E files \in SUBSET ToSet(V1Files) : NewProbe(1, files)
    \/ OnlyProbe /\ NewProbe(2, ToSet(V2Files))
    \/ OnlyProbe /\ \E missing \in BOOLEAN, settings \in [StatKeys -> BOOLEAN], lines \in StatLines :
          OpenNext(missing, settings, lines)
    \/ OnlyProbe /\ OpenRemoved
    \/ OnlyProbe /\ PollProbe
    \/ OnlyProbe /\ ResetProbe
    \/ OnlyProbe /\ RemoveGroup
    \/ OnlyProbe /\ GrowStat
    \/ OnlyProbe /\ \E ran \in 0..1 : TimePasses(ran)
    \/ OnlyProbe /\ SetClockBack

RunRapl ==
    \/ OnlyRapl /\ \E perfDomains, zones \in (SUBSET RaplDomains) \union {CannotList}, noPerf, perf, powercap \in BOOLEAN :
          StartRapl(perfDomains, zones, noPerf, perf, powercap)
    \/ OnlyRapl /\ \E c \in Counters : Consume(c)
    \/ OnlyRapl /\ \E n \in 0..Cardinality(Counters) : RaplPoll(n)
    \/ OnlyRapl /\ ResetRapl

RunNvml ==
    \/ OnlyNvml /\ \E mode0 \in {"full", "minimal"}, skipFailed \in BOOLEAN, given \in [Gpus -> GpuAnswers] :
          StartNvml(mode0, skipFailed, given)
    \/ OnlyNvml /\ \E d \in Gpus, broken \in GpuCalls \union {"lists", "none"}, flush \in BOOLEAN :
          PollGpu(d, broken, flush)
    \/ OnlyNvml /\ \E d \in Gpus : ResetGpu(d)
    \/ OnlyNvml /\ \E d \in Gpus : GpuConsumes(d)

RunAmd ==
    \/ OnlyAmd /\ \E given \in [DOMAIN Processors -> AmdAnswers], ids \in [DOMAIN Processors -> AmdIds \union {0}],
          skipFailed \in BOOLEAN : StartAmd(given, ids, skipFailed)
    \/ OnlyAmd /\ \E failing \in SUBSET (AmdIds \X {"energy", "management"}), flush \in BOOLEAN :
          PollAmd(failing, flush)
    \/ OnlyAmd /\ \E i \in AmdIds : AmdConsumes(i)

RunReactor ==
    \/ OnlyReactor /\ \E h \in DOMAIN versions : Mount(h)
    \/ OnlyReactor /\ MountEvent
    \/ OnlyReactor /\ CoalesceDelay
    \/ OnlyReactor /\ StartDetector
    \/ OnlyReactor /\ DetectorFails
    \/ OnlyReactor /\ EndCallback
    \/ OnlyReactor /\ \E g \in Groups : CreateGroup(g)
    \/ OnlyReactor /\ \E g \in Groups : DeleteGroup(g)
    \/ OnlyReactor /\ \E h \in DOMAIN versions : Detect(h)
    \/ OnlyReactor /\ \E h \in DOMAIN versions : SetupProbe(h)
    \/ OnlyReactor /\ \E h \in DOMAIN versions : NoUserName(h)
    \/ OnlyReactor /\ \E h \in DOMAIN versions : Dispatch(h)
    \/ OnlyReactor /\ \E h \in DOMAIN versions : DetectRemoval(h)
    \/ OnlyReactor /\ CloseControl
    \/ OnlyReactor /\ \E g \in Groups, own \in BOOLEAN : Apply(g, own)

RunK8s ==
    \/ OnlyK8s /\ StartK8s
    \/ OnlyK8s /\ \E r \in Registries, g \in PodPaths : Lookup(r, g)
    \/ OnlyK8s /\ \E r \in Registries : CheckToken(r)
    \/ OnlyK8s /\ \E r \in Registries : ReadToken(r)
    \/ OnlyK8s /\ \E r \in Registries : WriteToken(r)
    \/ OnlyK8s /\ \E r \in Registries : ServiceFails(r)
    \/ OnlyK8s /\ \E r \in Registries : AnswerPods(r)
    \/ OnlyK8s /\ \E p \in Pods : SchedulePod(p)
    \/ OnlyK8s /\ \E g \in PodPaths : CreatePodGroup(g)
    \/ OnlyK8s /\ \E p \in Pods : RemovePodGroups(p)
    \/ OnlyK8s /\ \E p \in Pods : ForgetPod(p)
    \/ OnlyK8s /\ K8sTime

RunProcwatch ==
    \/ OnlyProcwatch /\ StartRefresh
    \/ OnlyProcwatch /\ \E p \in ProcPids : ListEntry(p)
    \/ OnlyProcwatch /\ ReadProcStat
    \/ OnlyProcwatch /\ ApplyFilter
    \/ OnlyProcwatch /\ OpenProcess
    \/ OnlyProcwatch /\ EndRefresh
    \/ OnlyProcwatch /\ \E p \in ProcPids : StartMonitoring(p)
    \/ OnlyProcwatch /\ HandleOrder
    \/ OnlyProcwatch /\ \E i \in Incarnations : PollStat(i)
    \/ OnlyProcwatch /\ \E i \in Incarnations : PollMemory(i)
    \/ OnlyProcwatch /\ \E p \in ProcPids, k \in ProcKinds : ForkProcess(p, k)
    \/ OnlyProcwatch /\ \E p \in ProcPids : ExitProcess(p)
    \/ OnlyProcwatch /\ \E p \in ProcPids \intersect {AdoptedPid} : AdoptProcess(p)
    \/ OnlyProcwatch /\ \E i \in Incarnations \intersect {FirstProcess} : RunProcess(i)

RunProcprobe ==
    \/ OnlyProcprobe /\ \E broken \in BOOLEAN : PollKernel(broken)
    \/ OnlyProcprobe /\ KernelWorks
    \/ OnlyProcprobe /\ PollNetwork
    \/ OnlyProcprobe /\ PollNetworkFails
    \/ OnlyProcprobe /\ \E i \in Interfaces : PlugInterface(i)
    \/ OnlyProcprobe /\ \E i \in Interfaces : UnplugInterface(i)
    \/ OnlyProcprobe /\ \E i \in Interfaces : Transmit(i)
    \/ OnlyProcprobe /\ \E lines \in MemLines : PollMemoryOf(lines)

RunQuarch ==
    \/ OnlyQuarch /\ \E launched, listens \in BOOLEAN : StartQuarch(launched, listens)
    \/ OnlyQuarch /\ PollConnects
    \/ OnlyQuarch /\ PollCannotConnect
    \/ OnlyQuarch /\ PollMeasures
    \/ OnlyQuarch /\ PollCannotWrite
    \/ OnlyQuarch /\ \E n \in 1..(MaxQuestions * MaxPackets) : ReadPackets(n)
    \/ OnlyQuarch /\ ReadTimeout
    \/ OnlyQuarch /\ ReadError
    \/ OnlyQuarch /\ \E last \in BOOLEAN : DeviceAnswers(last)
    \/ OnlyQuarch /\ DeviceCloses
    \/ OnlyQuarch /\ StopQuarch

RunKwollect ==
    \/ OnlyKwollect /\ CreateMetrics
    \/ OnlyKwollect /\ EndConsumerMeasurement
    \/ OnlyKwollect /\ HandleAdd
    \/ OnlyKwollect /\ HandleTrigger
    \/ OnlyKwollect /\ RequestTimeout
    \/ OnlyKwollect /\ ShutdownPipeline
    \/ OnlyKwollect /\ LookAtState
    \/ OnlyKwollect /\ Triggered
    \/ OnlyKwollect /\ \E measures \in SUBSET KwMeasures : PollKwollect(measures)
    \/ OnlyKwollect /\ PollKwollectFails

SourcesNext == RunDetection \/ RunProbe \/ RunRapl \/ RunNvml \/ RunAmd \/ RunReactor \/ RunK8s \/ RunProcwatch \/ RunProcprobe \/ RunQuarch \/ RunKwollect

SourcesSpec == SourcesInit /\ [][SourcesNext]_sourcesVars

\* What can be measured is measured: a cgroup that a detector has told has a source
\* (CgroupReactor), the pod of a cgroup is found (K8sPods), a process that a group accepts
\* and that a complete refresh has read has one source (ProcWatcher), the source of the end of a measurement is polled once
\* (KwollectInput), unless something failed for it; and the jobs told on the
\* points are those that run.
MeasuredUnlessFailed ==
    /\ NoGroupForgotten /\ PodsAreMeasured /\ ProcessesAreMeasured /\ EventsAreTold
    /\ RunningJobsAreTracked /\ OwnPointsAreAnnotated

\* What a source pushes is what its counter has counted, once, whatever pauses come between
\* and counters wrap around: the energy of the processors (Rapl) and of the GPUs (Nvml,
\* AmdGpu), the processor time of a cgroup and its statistics (CgroupProbe), the processor
\* time of a process (ProcWatcher) and of the kernel, and the traffic of the network
\* (ProcProbes); and the power of a disk is computed from the answer to the question of its
\* own poll (Quarch).  A poll that fails for good loses what the buffer of its source holds,
\* what it has pushed itself and what the polls before have: the GPUs tell no more than that.
CountersAreTold ==
    /\ EnergyIsConserved
    /\ GpuEnergyIsTold /\ AmdEnergyIsTold
    /\ CpuTimeIsTold /\ StatsAreRight
    /\ ProcessTimeIsTold /\ KernelTimeIsTold /\ TrafficIsTold
    /\ MeasureIsOwn

\* A source ends with an error only after a failure that its component cannot absorb: the
\* end of a cgroup (CgroupProbe) or of a process (ProcWatcher) is a normal end of its
\* source, the watcher of the processes fails only for one that it cannot examine, and the
\* source of a GPU for the reasons that OnlyFaultsEndGpus states (Nvml).
EndsForAReason ==
    RemovalIsNormal /\ OnlyFaultsEndGpus /\ ExitIsNormal /\ WatcherFailsForOne
===============================================================================
