\* every legal call at every moment, and clients that read on until they see the
\* end; ::read() may fail
SPECIFICATION FairSpec
CONSTANTS
    BufferSize = 3
    ReadSizes <- MCReadSizes
    MaxStream = 3
    ReadMayFail = TRUE
    Policies = {"any", "events", "blocking"}
INVARIANTS
    StreamIsIntact
    EndIsTheEnd
    NobodySleepsForever
PROPERTIES
    CallsReturn
    ClientFinishes
