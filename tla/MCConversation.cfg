SPECIFICATION Spec
CONSTANTS
    m1 = m1
    m2 = m2
    j1 = j1
    chat = chat
    other = other
    ann = ann
    Unknown = Unknown
    Messages <- BothMessages
    Jobs = {j1}
    Addresses = {chat, other}
    Senders = {ann, Unknown}
    OpenTo = {chat}
    OpenFor = {}
    MaxIterations = 2
    MaxRetries = 1
    MaxActive = 2
    MaxBatch = 1
    MaxFaults = 1
CONSTRAINT Scope
CHECK_DEADLOCK FALSE
INVARIANT IndInv
INVARIANT PolicyHolds
INVARIANT HistoryFollowsRun
INVARIANT PromptIsHistory
INVARIANT SplitOnlyAtFirstContact
INVARIANT OwnerIsToldOnce
