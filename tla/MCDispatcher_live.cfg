SPECIFICATION FairSpec
CONSTANTS
    t1 = t1
    t2 = t2
    n1 = n1
    d1 = d1
    d2 = d2
    NoOwner = NoOwner
    Dispatchers = {d1, d2}
    Tasks <- OneTask
    Notifications = {n1}
    NotificationOf <- Together
    MaxRetry <- RetryOnce
    RetryBackoffSeconds <- NoBackoff
    LeaseTimeout = 0
    BatchSize = 1
    Webhooks = {}
    Replicas = 1
    Faults = {"sigterm"}
PROPERTIES
    EveryTaskSettles
    StopTerminates
CHECK_DEADLOCK FALSE
