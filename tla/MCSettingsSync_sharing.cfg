SPECIFICATION Spec
CONSTANTS
    Setting = {"environment"}
    Rule = {"r1"}
    Text = {1, 2}
    MaxMs = 0
    MaxSeq = 1
    Default <- MCDefault
    Budget = 9
    NoReplica = NoReplica
    NoSave = NoSave
    Device = {d1, d2}
    Account = {a1, a2}
    Usable <- MCUsable
    InitialStored <- MCSameStored
    FirstAccount <- MCFirstAccount
    ForeignTexts <- MCNoForeign
    Orderly = TRUE
    Allowed <- MCSharing
SYMMETRY Symmetry
INVARIANTS
    StoredMatchesReplica
    AccountsSeparate
    NoLostSave
    PublishedIsPersisted
PROPERTIES
    SavesMeanWhatTheySay
