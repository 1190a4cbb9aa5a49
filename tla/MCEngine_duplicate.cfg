SPECIFICATION Spec
CONSTANTS
    r1 = r1
    r2 = r2
    k1 = k1
    k2 = k2
    mail = mail
    chat = chat
    NoKey = NoKey
    NoTemplate = NoTemplate
    NoBody = NoBody
    Channels <- TwoChannels
    Templates = {mail, chat}
    Requests = {r1, r2}
    Keys = {k1}
    Bodies <- OnlyResend
    Configs <- AlwaysOn
    Faults = {}
SYMMETRY RequestSymmetry
INVARIANTS
    DuplicateReturnsExisting
CHECK_DEADLOCK FALSE
