------------------------------ MODULE CmdLine ------------------------------
(***************************************************************************)
(* lib9/mingw/spawn.c, main.c: Windows hands a program one command line.  *)
(* proccmd() quotes the arguments into it; in the new program             *)
(* CommandLineToArgvW(), called by utfargv(), takes it apart again.       *)
(* lookupexe() finds the program, or the interpreter of a script.         *)
(***************************************************************************)
EXTENDS Integers, Sequences, SequencesExt, FiniteSetsExt

CONSTANTS
    ArgChars,   \* characters of arguments; ' ', '"', '\' matter
    MaxArg,     \* bound: characters of an argument
    MaxArgs,    \* bound: arguments
    PathDirs,   \* PATH, as a sequence of directories
    Files       \* what exists: [dir, name, interp]: interp is the interpreter
                \* of a script, "" for a program, "dir" of a full path ""

VARIABLES args,     \* the arguments proccmd() is given, after argv[0]
          prog      \* the file p9exec() or p9spawn() is given

clvars == <<args, prog>>

Q == "\""
BS == "\\"
Blank == {" ", "\t", "\n", "\r"}
Many(c, n) == [i \in 1..n |-> c]

-----------------------------------------------------------------------------
(* dblquote() and proccmd()                                               *)

\* A character of a quoted argument, after nb backslashes: a quote doubles
\* them, and is escaped by one more.
NoDoubling(acc, c) ==
    IF c = BS THEN [cmd |-> Append(acc.cmd, c), nb |-> acc.nb + 1]
    ELSE IF c = Q THEN [cmd |-> acc.cmd \o <<BS, Q>>, nb |-> 0]
    ELSE [cmd |-> Append(acc.cmd, c), nb |-> 0]
Quoted(acc, c) ==
    IF c = BS THEN [cmd |-> Append(acc.cmd, c), nb |-> acc.nb + 1]
    ELSE IF c = Q THEN [cmd |-> acc.cmd \o Many(BS, acc.nb) \o <<BS, Q>>, nb |-> 0]
    ELSE [cmd |-> Append(acc.cmd, c), nb |-> 0]

dblquote(s) ==
    IF ~\E i \in DOMAIN s : s[i] \in Blank \cup {Q} THEN s
    ELSE LET a == FoldLeft(Quoted, [cmd |-> <<Q>>, nb |-> 0], s)
         IN a.cmd \o Many(BS, a.nb) \o <<Q>>       \* trailing backslashes -> 2N

proccmd(argv) == FlattenSeq([i \in DOMAIN argv |->
                    IF i = 1 THEN dblquote(argv[i]) ELSE <<" ">> \o dblquote(argv[i])])

\* The size proccmd() allocates, with the terminating zero.
CmdSize(argv) == FoldLeft(LAMBDA n, s : n + 2 * Len(s), 0, argv) + 1

-----------------------------------------------------------------------------
(* CommandLineToArgvW(), from its description at the top of spawn.c: 2N   *)
(* backslashes and a quote are N and a quote that opens or ends quoting,  *)
(* 2N+1 are N and a literal quote, others stand for themselves.           *)

ArgvChar(acc, c) ==
    IF c = BS THEN [acc EXCEPT !.nb = @ + 1]
    ELSE IF c = Q
    THEN LET w == [acc EXCEPT !.word = @ \o Many(BS, acc.nb \div 2), !.nb = 0, !.in = TRUE]
         IN IF acc.nb % 2 = 1 THEN [w EXCEPT !.word = Append(@, Q)] ELSE [w EXCEPT !.quoting = ~@]
    ELSE LET w == [acc EXCEPT !.word = @ \o Many(BS, acc.nb), !.nb = 0, !.in = @ \/ acc.nb > 0]
         IN IF c \in {" ", "\t"} /\ ~w.quoting
            THEN IF w.in THEN [w EXCEPT !.argv = Append(@, w.word), !.word = <<>>, !.in = FALSE] ELSE w
            ELSE [w EXCEPT !.word = Append(@, c), !.in = TRUE]

CommandLineToArgv(cmd) ==
    FoldLeft(ArgvChar, [argv |-> <<>>, word |-> <<>>, nb |-> 0, quoting |-> FALSE, in |-> FALSE],
             Append(cmd, " ")).argv

-----------------------------------------------------------------------------
(* lookupexe()                                                            *)

Exists(dir, name) == \E x \in Files : x.dir = dir /\ x.name = name
FileAt(dir, name) == CHOOSE x \in Files : x.dir = dir /\ x.name = name

\* The directories of PATH that have the file, the first one first.
FirstOfPath(name) == LET n == {i \in DOMAIN PathDirs : Exists(PathDirs[i], name)}
                     IN IF n = {} THEN {} ELSE {Min(n)}

\* winexecpath() of the name itself, then along PATH; a script is replaced by
\* its interpreter, which has to be found where it is named.
lookupexe(file, full) ==
    LET there == IF Exists("", file) THEN {""}
                 ELSE IF full THEN {} ELSE {PathDirs[i] : i \in FirstOfPath(file)}
    IN IF there = {} THEN [ok |-> FALSE, path |-> <<>>, shift |-> 0]
       ELSE LET x == FileAt(CHOOSE d \in there : TRUE, file) IN
            IF x.interp = "" THEN [ok |-> TRUE, path |-> <<x.dir, x.name>>, shift |-> 0]
            ELSE IF Exists("", x.interp) THEN [ok |-> TRUE, path |-> <<"", x.interp>>, shift |-> 1]
            ELSE [ok |-> FALSE, path |-> <<>>, shift |-> 0]

\* getshargs(): interpreter, script, and the arguments without argv[0].
getshargs(interp, script, argv) == <<interp, script>> \o Tail(argv)

-----------------------------------------------------------------------------
ArgSet == UNION {[1..n -> ArgChars] : n \in 1..MaxArg}

CmdLineInit == args = <<>> /\ prog = "none"
OneMoreArg == Len(args) < MaxArgs /\ \E a \in ArgSet : args' = Append(args, a) /\ UNCHANGED prog
NameProg == prog = "none" /\ \E x \in Files : prog' = x.name /\ UNCHANGED args
CmdLineNext == OneMoreArg \/ NameProg
CmdLineSpec == CmdLineInit /\ [][CmdLineNext]_clvars

\* The argument vector of the process that is created.
RunArgv == LET r == lookupexe(prog, FALSE)
               argv == <<<<"p">>>> \o args
           IN IF prog # "none" /\ r.ok /\ r.shift = 1 THEN getshargs(<<"i">>, <<"p">>, argv) ELSE argv

\* The arguments arrive as they were given, whatever blanks, quotes and
\* backslashes are in them, at their ends and before quotes, if none is
\* empty, in a program as in a script; argv[0] follows other rules, and is
\* a plain word here.
ArgsArrive == LET a == CommandLineToArgv(proccmd(RunArgv))
              IN a = RunArgv /\ SubSeq(a, Len(a) - Len(args) + 1, Len(a)) = args

\* An argument grows to at most twice its length and two quotes, and takes a
\* blank; the length that proccmd() allocates allows for the first of these.
QuotingBounded ==
    args # <<>> => Len(proccmd(<<<<"p">>>> \o args)) + 1 < CmdSize(<<<<"p">>>> \o args) + 3 * Len(args)

\* What is run is the first file of the name along PATH, or the interpreter
\* that this one names, and never one of a directory further behind.
FirstInPath ==
    LET r == lookupexe(prog, FALSE) IN
    (prog # "none" /\ r.ok /\ r.shift = 0 /\ r.path[1] # "") =>
        \A i \in DOMAIN PathDirs : PathDirs[i] = r.path[1] =>
            \A j \in 1..(i - 1) : ~Exists(PathDirs[j], prog)

\* The program that was asked for is started, with the arguments it was given,
\* from a command line that fits.
StartedAsAsked == ArgsArrive /\ QuotingBounded /\ FirstInPath
=============================================================================
