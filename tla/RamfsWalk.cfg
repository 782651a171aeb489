SPECIFICATION Spec
CONSTANTS
    f1 = f1 f2 = f2
    Fids <- MCTwoFids
    Users <- MCUsers
    Owner = "glenda"
    Names <- MCNames
    Modes <- MCOpenToAll
    OpenModes <- MCReadOnly
    Paths <- MCPaths
    Ops <- MCNoOps
    Nram = 3
    MaxPath = 1
    Maxsize = 1
INVARIANTS WalkAssert
