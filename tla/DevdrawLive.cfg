SPECIFICATION Spec
CONSTANTS
    t1 = t1 t2 = t2
    Tags <- MCTwoTags
    Requests <- MCCalls
    Keys <- MCNoKeys
    Nring = 2
    Ntags = 3
    Nchan = 1
    MAXWMSG = 2
    Big = 2
    Window = 3
    MaxReads = 2
    MaxKeys = 0
    MaxMoves = 0
    MaxSizes = 0
PROPERTIES EveryCallAnswered
