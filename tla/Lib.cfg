SPECIFICATION LibSpec
CONSTANTS
    ArgChars <- MCArgChars
    MaxArg = 3
    MaxArgs = 2
    PathDirs <- MCPath
    Files <- MCFiles
    EnvIds = {1, 2, 3}
    EnvValues = {"v", "w"}
    Inherit0 <- MCInherit0
    Nmore = 1
    PathId = 2
    MaxEnv = 4
    ConsTexts <- MCConsTexts
    ConsKeys <- MCConsKeys
    ConsWidths <- MCConsWidths
    MaxConsWrite = 3
    ReadSizes = {1, 2, 3, 8}
    Chars <- MCChars
    BufLen = 2
    MaxLen = 3
    HttpInputs <- MCHttpInputs
    MaxRead = 3
    VarNames = {"path", "PATH", "x"}
    RcWords <- MCRcWords
    RcTexts <- MCRcTexts
    MaxWords = 2
    MaxWd = 2
    TestPrims <- MCTestPrims
    MaxAnds = 1
    MaxOrs = 1
    Truth <- MCTruth
    FileNames <- MCFileNames
    PerBlock = 2
    MaxChanges = 2
    u1 = u1 u2 = u2 h1 = h1 h2 = h2 h3 = h3
    Users = {u1, u2}
    Handlers <- MCHandlers
    Inherited = {"g"}
    Nexit = 2
    Sigs <- MCSigs
    Unlisted = {"hup"}
INVARIANTS 
      ConsoleOK  
    ValueOfExpression DirReadOK HandlersCalled NotesOK
 
CHECK_DEADLOCK FALSE
