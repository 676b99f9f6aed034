SPECIFICATION ChannelsSpec
CONSTANTS
    Texts <- OneWideOneBlank
    Limit = 6
    MaxLength = 8
    ZulipLimit = 7
    PrefixLength = 2
    ann = ann
    ben = ben
    People <- Two
    Bot = Bot
    MaxBytes = 2
    MaxFiles = 2
    Names = {"", "a", "b"}
    Batches <- SomeBatches
    Histories <- SomeHistories
    Sizes = {1, 7}
    Label = 1
    Window = 7
    Reserved = 1
    Fixed = 1
    SnapshotRows = 2
    Preserve = 1
    MaxIterations = 2
    MaxRows = 5
CHECK_DEADLOCK FALSE
INVARIANT EveryTextIsWhole
