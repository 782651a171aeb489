SPECIFICATION Spec
CONSTANTS
    t1 = t1 t2 = t2
    f1 = f1 f2 = f2 f3 = f3 f4 = f4
    Threads <- MCMainOnly
    Main = t1
    Allocators <- MCMainOnly
    Fds <- MCFewFds
    Nil = Nil
    MaxFd = 3
    Chunk = 3
    Kinds <- MCPipes
    Calls <- MCAllCalls
    SelfDup = TRUE
    Quiet = TRUE
SYMMETRY MCFewSymmetry
INVARIANTS NoFatal
