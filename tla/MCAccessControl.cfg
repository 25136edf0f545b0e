CONSTANTS
    Ids = {i0}
    Requests <- OneOrTwo
    Reads <- UpToThree
    NoInst = NoInst
SPECIFICATION Spec
INVARIANTS TypeOK  AclWriteAsAsked RefusedKeepsRights ReadGivesWhatIsThere
PROPERTIES IdentityFixed DoubledByOneList
