CONSTANTS
    Ids = {i0}
    Requests <- OneOrTwo
    MaxShort = 5
    MaxInt = 3
    MaxUint = 7
    Char = {"U", "Q", "S"}
    Nul = "nul"
    FactoryId = 5
    FactoryLifetime = 7
    FactoryBinding <- MCFactoryBinding
    NoInst = NoInst
SPECIFICATION Spec
INVARIANTS TypeOK BindingTerminated FullReadSucceeds DiscoverAgreesWithRead
PROPERTIES OptionalStays
