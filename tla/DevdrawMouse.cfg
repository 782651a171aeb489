SPECIFICATION Spec
CONSTANTS
    t1 = t1 t2 = t2
    Tags <- MCTwoTags
    Requests <- MCMouseRequests
    Keys <- MCNoKeys
    Nring = 3
    Ntags = 3
    Nchan = 2
    MAXWMSG = 2
    Big = 2
    Window = 2
    MaxReads = 2
    MaxKeys = 0
    MaxMoves = 3
    MaxSizes = 2
SYMMETRY MCTwoSymmetry
INVARIANTS Answered ScreenBeforeShow ResizeKept
