SPECIFICATION Spec
CONSTANTS
    f1 = f1 f2 = f2
    Fids <- MCTwoFids
    Users <- MCTwoUsers
    Owner = "glenda"
    Names <- MCNames
    Modes <- MCAppendExcl
    OpenModes <- MCTrunc
    Paths <- MCStepwise
    Ops <- MCDataOps
    Nram = 3
    MaxPath = 1
    Maxsize = 3
SYMMETRY MCTwoSymmetry
INVARIANTS  ExclOnce
