SPECIFICATION Spec
CONSTANTS
    t1 = t1 t2 = t2
    f1 = f1 f2 = f2 f3 = f3 f4 = f4
    Threads <- MCThreads
    Main = t1
    Allocators <- MCBoth
    Fds <- MCThreeFds
    Nil = Nil
    MaxFd = 2
    Chunk = 2
    Kinds <- MCPipes
    Calls <- MCAllGive
    SelfDup = FALSE
    Quiet = TRUE
SYMMETRY MCThreeSymmetry
INVARIANTS TableOK HandlesKept NoFatal
PROPERTIES DescriptorsAreStable ImplementsDescMap
