SPECIFICATION ToolsSpec
CONSTANTS
    Members <- MCMembers
    Blockings = {2, 3}
    MaxVerbs = 3
    MaxMembers = 2
    Size = 4
    Bound = 2
    MaxErrs = 1
    MaxLoop = 2
    Kept = {1, 3, 4}
    MaxTries = 3
    PartNames = {"data", "a", "b"}
    NPART = 3
    DiskSize = 3
    PartFids = {"x"}
    MaxPath = 5
    Extents <- MCExtents
    Dirs = {"d", "e"}
    Elems = {"x", "X", "y"}
    Same <- MCSame
    Blocks <- MCBlocks
    Dialogues <- MCDialogues
    AuthRpcMax = 3
    MaxGetkey = 2
    READBUFSIZE = 8
    PlumbMsgs <- MCPlumbMsgs
    MaxMsgs = 3
    Texts <- MCTexts
    Outputs <- MCOutputs
    PipeChunk = 2
    EchoSize = 2
    MaxTyped = 3
    MaxOut = 3
    Threads = {"a", "b", "k"}
    ProcOf <- MCProcOf
    Painters = {"a", "b"}
    Tags = {1, 2}
    MaxCalls = 3
    MaxCmds = 2
    RcPids = {1, 2, 3}
    Codes = {"ok", "bad"}
    MaxThreads = 2
    SpawnProcs = {"s1", "s2"}
    Calls <- MCCalls
    FdNums = {3, 4}
    MaxData = 1
INVARIANTS 
    ArchiveOK    PostedRight
    BuffersOK TextKept CallsApart StatusKept EndsClosed
CHECK_DEADLOCK FALSE
