SPECIFICATION FairSpec
CONSTANTS
    j1 = j1
    j2 = j2
    p = p
    q = q
    s = s
    None = None
    Job = {j1, j2}
    Object = {p, q, s}
    Chain <- RepeatedChain
    SealOf <- RepeatedSeals
    JobBound = 1
    SyncBound = 2
    WithFabric = TRUE
    MaxDeaths = 2
INVARIANTS
    TypeOK
    SealIsBacked
    EveryJobAccounted
    EveryPutAccounted
    RemoteSealIsBacked
    GracefulShutdown
PROPERTIES
    ImplementsAuditTrail
    EveryJobSettled
    ShutdownEnds
