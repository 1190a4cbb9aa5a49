SPECIFICATION Spec
CONSTANTS
    t1 = t1
    t2 = t2
    n1 = n1
    d1 = d1
    d2 = d2
    NoOwner = NoOwner
    Dispatchers = {d1}
    Tasks <- TwoTasks
    Notifications = {n1}
    NotificationOf <- Together
    MaxRetry <- RetryOnce
    RetryBackoffSeconds <- NoBackoff
    LeaseTimeout = 1
    BatchSize = 2
    Webhooks = {t1}
    Replicas = 2
    Faults = {}
INVARIANTS
    VerdictSound
    SuccessWasDelivered
PROPERTIES
    ImplementsQueue
    VerdictStands
