SPECIFICATION SourcesSpec
CONSTANTS
    a = a
    b = b
    Cgroups <- MCCgroups
    MaxCreations = 2
    EventQueueSize = 3
    ReadSize = 1
    Modes = {"inotify", "poll"}
    StatKeys = {"anon", "file"}
    LineLimit = 3
    StatGrowth = 4
    ClockMax = 1
    RaplDomains = {"package", "platform"}
    Sockets = 2
    CounterMax = 1
    Gpus = {"gpu1"}
    GpuAnswers <- MCGpuAnswers
    GpuEnergyMax = 3
    Processors <- MCProcessors
    AmdIds = {1, 2}
    AmdAnswers <- MCAmdAnswers
    AmdEnergyMax = 3
    h1 = h1
    h2 = h2
    h3 = h3
    NoJob = 0
    Hierarchies <- MCHierarchies
    Groups <- MCGroups
    Plugins <- MCPlugins
    Pods = {"p1", "p2"}
    PodPaths <- MCPodPaths
    Lifetime = 1
    LastTime = 1
    ProcPids = {2, 3}
    ProcKinds = {"foreign", "kernel"}
    ProcFilters <- MCProcFilters
    MaxForks = 2
    TicksMax = 1
    Interfaces = {"eth0"}
    TrafficMax = 2
    MaxPlugs = 3
    MemLines <- MCMemLines
    MemWanted = {"MemTotal", "MemFree"}
    MaxQuestions = 7
    MaxPackets = 2
    KwNames <- MCKwNames
    KwMetrics = 2
    KwMeasures <- MCKwMeasures
INVARIANTS
    KnownIsAlive
    MeasuredUnlessFailed
    CountersAreTold
    EndsForAReason
CHECK_DEADLOCK FALSE
