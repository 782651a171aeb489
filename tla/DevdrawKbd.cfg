SPECIFICATION Spec
CONSTANTS
    t1 = t1 t2 = t2
    Tags <- MCTwoTags
    Requests <- MCMixed
    Keys <- MCAllKeys
    Nring = 2
    Ntags = 3
    Nchan = 1
    MAXWMSG = 4
    Big = 2
    Window = 2
    MaxReads = 2
    MaxKeys = 3
    MaxMoves = 0
    MaxSizes = 0
SYMMETRY MCTwoSymmetry
INVARIANTS KbdDelivered NoFatal
