SPECIFICATION Spec
CONSTANTS
    r1 = r1
    r2 = r2
    r3 = r3
    e1 = e1
    e2 = e2
    base = base
    lora = lora
    None = None
    Idle = Idle
    Wrong = Wrong
    Junk = Junk
    Rotten = Rotten
    Req = {r1, r2, r3}
    Engine = {e1, e2}
    Prompt <- Deep
    Key <- DeepKeys
    Home <- TwoHomes3
    Ctx = {base}
    CtxOf <- AllBase
    MaxBlocks = 3
    Layout = "native"
    Fabric = FALSE
    Faults = {"crash"}
    MaxFaults = 2
INVARIANTS
    TypeOK
    IndexedIsOnDisk
    ClaimsAreExact
PROPERTIES
    ImplementsPrefixCache
