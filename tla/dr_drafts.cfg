SPECIFICATION FairSpec
CONSTANTS
    r1 = r1
    r2 = r2
    witness = witness
    None = None
    Synth = Synth
    Req = {r1, r2}
    Token = {1, 2}
    Stream <- Twins
    PromptLen <- TwinPrompts
    MaxStep = 2
    MaxLen = 7
    TreeDepth = 2
    MinSeal = 2
    KeyTokens = 3
    QueueBound = 1
    WarmMax = 2
    Others = {witness}
    MaxStarts = 1
    MaxFaults = 1
INVARIANTS
    TypeOK
    DraftsAreGenuine
    EveryTokenAccounted
    TrackedIsActive
    TreeIsGrounded
PROPERTIES
    ImplementsDraftLog
    RestartRecalls
    MainGoesOn
