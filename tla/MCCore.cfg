SPECIFICATION CoreSpec
CONSTANTS
    letter = letter
    suffix = suffix
    csv = csv
    rapl = rapl
    alien = alien
    NoSelection = NoSelection
    BUDGET_SAME_TRIGGER = 2
    BUDGET_ANY_TRIGGER = 5
    MaxFired = 8
    Clients = {c1, c2}
    Metrics <- MCMetrics
    Initial <- MCInitial
    Batches <- MCBatches
    RenameSuffixes = {suffix}
    Listeners = {l1, l2}
    EarlyListeners = {l1}
    QueueSize = 2
    HeaderSize = 1
    BodySize = 1
    MaxLength = 1
    MaxRetries = 0
    InitialMetrics = 0
    MaxMetrics = 1
    MaxPoints = 2
    MaxConnections = 2
    Bundled <- MCBundled
    ConfigFiles <- MCConfigFiles
    Selections <- MCSelections
    Behaviours <- MCBehaviours
    ManagedSources <- MCManaged
    AutonomousSources <- MCAutonomous
    LateSources <- MCLate
    TransformOrder <- MCTransforms
    OutputNames <- MCOutputs
    FlagBits = 4
    Lines <- MCLines
    MaxLines = 2
    Intervals = {0, 1, 2, 4}
    Rounds = {0, 3}
    Constraints <- MCConstraints
    RealtimeLimit = 1
    MaxCalls = 2
    MaxManual = 1
    MaxCommands = 1
    EndOfTime = 5
    CsvKeys = {"core", "job"}
    CsvValues <- MCCsvValues
    MaxCsvLines = 2
    RemoteKinds = {"influxdb", "mongodb", "elasticsearch", "kwollect", "opentelemetry", "prometheus"}
    RemoteKeys = {"consumer", "value", "timestamp", "measurement", "job"}
    RemoteTags = {{}, {"consumer", "value", "job"}}
    RemoteBuffers <- MCRemoteBuffers
    MaxRemoteWrites = 2
    AggKeys = {"k"}
    AggInterval = 2
    AggValues = {1, 2}
    MaxAggTime = 3
    MaxAggPoints = 4
    AttributionSetups <- MCAttributionSetups
    PointOrders <- MCPointOrders
    PointMetrics = {"energy", "cpu", "other"}
    MaxPointBatches = 2
    MaxPointsIn = 1
    MaxToggles = 1
    RelayedUnits <- MCRelayedUnits
    RelayedPoints <- MCRelayedPoints
    Hops = 2
INVARIANTS
    BoundedTurn
    NoReasonLost
    AnswersTrue
    MetricsAreKnown
    NothingLost
    Schedule
    StoppedAndTold
    CommandsReachTheNamed
    TriggersInTime
    PointsAreTold
    PointsCountOnce
PROPERTIES
    ImplementsGrowing
CHECK_DEADLOCK FALSE
