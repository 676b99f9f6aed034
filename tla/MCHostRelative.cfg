SPECIFICATION HostSpec
CONSTANTS
    MaxCalls = 3
    MaxActive = 2
    Sizes = {2}
    MaxRead = 3
    MaxWrite = 4
    MinTimeout = 1
    MaxTimeout = 2
    MinOutput = 1
    MaxOutput = 2
    Bots <- TwoBots
    Clients <- TwoClients
    Limit = 1
    MaxStarts = 2
CHECK_DEADLOCK FALSE
INVARIANT WrittenIsInside
