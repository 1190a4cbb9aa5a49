SPECIFICATION Spec
CONSTANTS
    k1 = k1
    alarm = alarm
    d1 = d1
    NoKey = NoKey
    NoTemplate = NoTemplate
    NoBody = NoBody
    NoOwner = NoOwner
    Requests = {r1, r2}
    Keys = {k1}
    Channels <- AppAndBot
    Templates = {alarm}
    Bodies <- OnlyAlarm
    Configs <- AlwaysOn
    EngineFaults = {"db"}
    Tasks <- AppTasks
    MaxRetry <- RetryOnce
    Dispatchers = {d1}
    RetryBackoffSeconds <- NoBackoff
    LeaseTimeout = 1
    BatchSize = 1
    Webhooks = {}
    Replicas = 1
    DispatcherFaults = {}
SYMMETRY RequestSymmetry
INVARIANTS
    TypeOK
    KeyDeliveredOnce
    RecipientFound
    RenderedForItsChannel
    QuerySound
PROPERTIES
    ServesDispatcher
    ImplementsService
CHECK_DEADLOCK FALSE
