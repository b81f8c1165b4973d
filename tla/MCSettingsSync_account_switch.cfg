SPECIFICATION Spec
CONSTANTS
    Setting = {"environment"}
    Rule = {"r1"}
    Text = {1}
    MaxMs = 1
    MaxSeq = 1
    Default <- MCDefault
    Budget = 9
    NoReplica = NoReplica
    NoSave = NoSave
    Device = {d1, d2}
    Account = {a1, a2}
    Usable <- MCUsable
    InitialStored <- MCNothingStored
    FirstAccount <- MCFirstAccount
    ForeignTexts <- MCNoForeign
    Orderly = FALSE
    Allowed <- MCOneSwitch
INVARIANTS
    AccountsSeparate
