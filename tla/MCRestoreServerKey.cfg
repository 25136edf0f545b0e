SPECIFICATION Spec
CONSTANTS
    Ids = {i0}
    Addr = {a1, a2, a3, a4, a5, a6}
    Resources = {"uri", "serverPublicKey"}
    NewModes = {}
    Text = {d1, d2}
    Binary = {}
    Cut = cut
    Free = free
    Null = null
    NoInst = noinst
SYMMETRY CellSymmetry
INVARIANTS RestoredExactly
CHECK_DEADLOCK FALSE
