SPECIFICATION FairSpec
CONSTANTS
    Setting = {"environment"}
    Rule = {"r1"}
    Text = {1}
    MaxMs = 0
    MaxSeq = 2
    Default <- MCDefault
    Budget = 9
    NoReplica = NoReplica
    NoSave = NoSave
    Device = {d1, d2}
    Account = {a1}
    Usable <- MCUsable
    InitialStored <- MCNothingStored
    FirstAccount <- MCFirstAccount
    ForeignTexts <- MCNoForeign
    Orderly = TRUE
    Allowed <- MCTwoSaves
PROPERTIES
    Converges
