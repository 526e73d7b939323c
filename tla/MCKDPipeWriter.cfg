\* every call at every moment; ::write() may fail, the peer may go away
SPECIFICATION FairSpec
CONSTANTS
    WriteBufferSize = 2
    WriteSizes <- MCWriteSizes
    MaxAccepted = 5
    PipeCapacity = 2
    WriteMayFail = TRUE
INVARIANTS
    WrittenInOrder
    ClosedIsFlushed
    AssertionsHold
    NobodySleepsForever
PROPERTIES
    CallsReturn
