SPECIFICATION Spec
CONSTANTS
    f1 = f1 f2 = f2
    Fids <- MCTwoFids
    Users <- MCUsers
    Owner = "glenda"
    Names <- MCNames
    Modes <- MCSecret
    OpenModes <- MCRclose
    Paths <- MCStepwise
    Ops <- MCTreeOps
    Nram = 4
    MaxPath = 2
    Maxsize = 1
SYMMETRY MCTwoSymmetry
INVARIANTS TreeKept OpenCount DirReadExact
