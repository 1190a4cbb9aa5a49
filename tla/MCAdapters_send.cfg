SPECIFICATION FairSpec
CONSTANTS
    u1 = u1
    u2 = u2
    id = id
    Urls = {u1, u2}
    Ids = {id}
    None = None
    Data <- AllData
    Requests <- AllRequests
    MaxTries = 3
INVARIANTS
    TypeOK
    SuccessIsTaken
    ResentOnlyIfUntold
    NamedBotOnly
    UrgentFollowsMessage
PROPERTIES
    WebhookReturns
