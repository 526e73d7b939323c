\* everything may happen, in any order
SPECIFICATION FairSpec
CONSTANTS
    OpenPGP = OpenPGP
    CMS = CMS
    pgp1 = pgp1
    cms1 = cms1
    Protocols <- MCProtocols
    Keys <- MCKeys
    ProtocolOf <- MCProtocolOf
    Delay = TRUE
    AutoRefresh = TRUE
    ListenersRead = TRUE
    MaxChanges = 2
    MaxFailures = 2
    MaxCancels = 1
    MaxLoops = 2
INVARIANTS
    WatchersFollowRefresh
    OverlookedOnlyInRefresh
PROPERTIES
    RefreshIsFaithful
    CallersReturn
    CacheCatchesUp
