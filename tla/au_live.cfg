SPECIFICATION Spec
CONSTANTS
    None = None
    Label <- Labels
    Bytes <- Objects
    Foreign <- Left
    Request <- TwoRequests
    Wanted <- EveryOrOne
    MaxFaults = 1
INVARIANTS
    TypeOK
    RefusalHasACause
    ZeroIsACleanBill
    PassedIsWitnessed
    KeysFollow
    OneLabelPerInference
