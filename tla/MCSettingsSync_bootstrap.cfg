SPECIFICATION Spec
CONSTANTS
    Setting = {"environment"}
    Rule = {"r1"}
    Text = {1, 2}
    MaxMs = 1
    MaxSeq = 0
    Default <- MCDefault
    Budget = 9
    NoReplica = NoReplica
    NoSave = NoSave
    Device = {d1, d2}
    Account = {a1}
    Usable <- MCMixedUsable
    InitialStored <- MCMixedStored
    FirstAccount <- MCFirstAccount
    ForeignTexts <- MCForeign
    Orderly = TRUE
    Allowed <- MCBootstrap
INVARIANTS
    SaveBeatsItsBase
    StoredIsUsable
PROPERTIES
    SharedSpec
