SPECIFICATION FairSpec
CONSTANTS
    t1 = t1
    t2 = t2
    t3 = t3
    one = one
    two = two
    x = x
    y = y
    k = k
    Absent = Absent
    Torn = Torn
    Thread = {t1, t2, t3}
    Process = {one, two}
    ProcessOf <- Homes
    Object = {x, y}
    Key = {k}
    Work <- Puts
    MaxDrops = 1
INVARIANTS
    TypeOK
    KeyIsBacked
    RaiseHasACause
PROPERTIES
    ImplementsAtomicFiles
    ClashHeals
