SPECIFICATION Spec
CONSTANTS
    r1 = r1
    r2 = r2
    r3 = r3
    e1 = e1
    e2 = e2
    base = base
    lora = lora
    None = None
    Idle = Idle
    Wrong = Wrong
    Junk = Junk
    Rotten = Rotten
    Req = {r1, r2}
    Engine = {e1,e2}
    Prompt <- Same
    Key <- SameKeys
    Home <- TwoHomes
    Ctx = {base}
    CtxOf <- AllBase2
    MaxBlocks = 2
    Layout = "native"
    Fabric = FALSE
    Faults = {"preempt"}
    MaxFaults = 1
INVARIANT
    NoSilentGap
