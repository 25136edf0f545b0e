SPECIFICATION Spec
CONSTANTS
    Ids = {i0}
    Addr = {a1, a2, a3, a4, a5, a6}
    Resources = {"uri", "secretKey", "serverPublicKey"}
    NewModes = {"psk", "other"}
    Text = {d1, d2}
    Binary = {k0}
    Cut = cut
    Free = free
    Null = null
    NoInst = noinst
CONSTRAINT Duplicated
SYMMETRY CellSymmetry
INVARIANTS TypeOK MemorySafe BackupIntact RestoredWhole
CHECK_DEADLOCK FALSE
