SPECIFICATION Spec
CONSTANTS
    t1 = t1 t2 = t2
    Tags <- MCTwoTags
    Requests <- MCKbdRequests
    Keys <- MCChars
    Nring = 3
    Ntags = 3
    Nchan = 2
    MAXWMSG = 4
    Big = 2
    Window = 2
    MaxReads = 2
    MaxKeys = 5
    MaxMoves = 0
    MaxSizes = 0
SYMMETRY MCTwoSymmetry
INVARIANTS KbdMatched
