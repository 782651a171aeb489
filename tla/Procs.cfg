SPECIFICATION ProcsSpec
CONSTANTS
    t1 = t1 t2 = t2 p1 = p1 p2 = p2 p3 = p3
    Threads <- MCThreads
    Spawners <- MCSpawners
    Waiters <- MCWaiters
    Pids <- MCPids
    Nil = Nil
    Nchild = 2
    Runner = "runner"
    Wakers = {"w1", "w2"}
    MaxReady = 3
    IoProcs = {"q1", "q2", "q3"}
    MaxIo = 1
    RcPids = {1, 2}
    Codes = {"ok", "bad"}
    MaxThreads = 2
INVARIANTS ChildrenKept RendezOK TransfersApart
PROPERTIES EveryWaitEnds
CHECK_DEADLOCK FALSE
