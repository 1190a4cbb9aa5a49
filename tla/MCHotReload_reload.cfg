SPECIFICATION FairSpec
CONSTANTS
    p1 = p1
    p2 = p2
    bot = bot
    app = app
    broken = broken
    Broken = Broken
    None = None
    Paths = {p1, p2}
    Secrets = {s1, s2}
    Configs <- AllConfigs
    Providers = {bot, app, broken}
    Unusable = {broken}
    Unknown = {app}
    RetryCounts = {1}
    MaxEdits = 2
INVARIANTS
    TypeOK
    AdaptersWhole
    AllOrNothing
    ConfigSettles
    CredentialsSettle
    BackoffInList
PROPERTIES
    StopTerminates
CHECK_DEADLOCK FALSE
