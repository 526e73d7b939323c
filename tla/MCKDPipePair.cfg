SPECIFICATION PairFairSpec
CONSTANTS
    BufferSize = 3
    ReadSizes <- MCReadSizes
    MaxStream = 3
    ReadMayFail = FALSE
    Policies = {"events"}
    WriteBufferSize = 2
    WriteSizes <- MCWriteSizes
    MaxAccepted = 3
    PipeCapacity = 1
    WriteMayFail = FALSE
PROPERTIES
    PairIsAChannel
    PairDelivers
