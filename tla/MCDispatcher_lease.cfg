SPECIFICATION Spec
CONSTANTS
    t1 = t1
    t2 = t2
    n1 = n1
    d1 = d1
    d2 = d2
    NoOwner = NoOwner
    Dispatchers = {d1, d2}
    Tasks <- OneTask
    Notifications = {n1}
    NotificationOf <- Together
    MaxRetry <- RetryOnce
    RetryBackoffSeconds <- ShortBackoff
    LeaseTimeout = 1
    BatchSize = 1
    Webhooks = {}
    Replicas = 2
    Faults = {"delay", "db", "crash"}
SYMMETRY DispatcherSymmetry
INVARIANTS
    TypeOK
    NoStrandedRow
    ClaimAccounting
    DeadOnlyAfterBudget
    RetriesBounded
    AttemptNumbersUnique
    SuccessWasDelivered
PROPERTIES
    LeaseHandover
    TerminalIsFinal
    ImplementsQueue
CHECK_DEADLOCK FALSE
