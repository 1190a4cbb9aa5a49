SPECIFICATION Spec
CONSTANTS
    t1 = t1
    t2 = t2
    n1 = n1
    d1 = d1
    d2 = d2
    NoOwner = NoOwner
    Dispatchers = {d1}
    Tasks <- OneTask
    Notifications = {n1}
    NotificationOf <- Together
    MaxRetry <- RetryOnce
    RetryBackoffSeconds <- NoBackoff
    LeaseTimeout = 1
    BatchSize = 1
    Webhooks = {}
    Replicas = 2
    Faults = {"sigterm"}
INVARIANTS
    StopLeavesNoTaskBehind
CHECK_DEADLOCK FALSE
