SPECIFICATION Spec
CONSTANTS
    a = a
    b = b
    None = None
    Absent = Absent
    Short = Short
    NoFile = NoFile
    Unreadable = Unreadable
    File <- File2
    Tensor <- Tensor2
    Bytes = {a, b}
    Start <- Directories
    MaxChanges = 3
INVARIANTS
    TypeOK
    ManifestIsTheDirectory
    AlteredIsNeverCertified
    RefusalIsGrounded
