\* a slot of keysMayHaveChanged() reads the cache
SPECIFICATION FairSpec
CONSTANTS
    OpenPGP = OpenPGP
    CMS = CMS
    pgp1 = pgp1
    cms1 = cms1
    Protocols <- MCProtocols
    Keys <- MCKeys
    ProtocolOf <- MCProtocolOf
    Delay = FALSE
    AutoRefresh = TRUE
    ListenersRead = TRUE
    MaxChanges = 1
    MaxFailures = 0
    MaxCancels = 0
    MaxLoops = 1
PROPERTY
    EveryCallerReturns
