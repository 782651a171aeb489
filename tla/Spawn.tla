-------------------------------- MODULE Spawn --------------------------------
(***************************************************************************)
(* Starting a process with given descriptors (lib9/mingw/spawn.c,         *)
(* rxtxproc.c, exec.c): winspawne() gives the child handles for its       *)
(* standard input and output.  A file's handle is duplicated; for a pipe  *)
(* or a socket of lib9, and for /dev/null, there is an anonymous pipe and *)
(* a helper proc between the child and the descriptor.  Who closes which  *)
(* descriptor, and who holds which end of an anonymous pipe for how long, *)
(* is the subject; CreateProcess() hands every inheritable handle of the  *)
(* program to the child, those of other spawns in progress included.      *)
(***************************************************************************)
EXTENDS Integers, FiniteSets, Sequences

CONSTANTS
    SpawnProcs,   \* procs that start one process each
    Calls,      \* Calls[s]: the calls s may make: the descriptors fd, numbers
                \* or -1 (three in the code; bound: two), and from where,
                \* winspawn() or winexecve(), which makes its numbers with dup()
    FdNums,     \* the numbers in use
    MaxData     \* bound: what a child writes to its output

ASSUME FdNumsAssumption == FdNums \subseteq Nat
ASSUME CallsAssumption == \A s \in SpawnProcs : \A c \in Calls[s] :
    /\ c.fd \in Seq(FdNums \cup {-1}) /\ Len(c.fd) <= 3 /\ c.from \in {"spawn", "exec"}
    /\ c.from = "exec" => \A i, j \in DOMAIN c.fd : c.fd[i] = c.fd[j] /\ c.fd[i] # -1 => i = j
\* A descriptor is given to one spawn, which closes it.
NumsOf(s) == (UNION {{c.fd[i] : i \in DOMAIN c.fd} : c \in Calls[s]}) \ {-1}
ASSUME OneSpawnAssumption == \A s, t \in SpawnProcs : s # t => NumsOf(s) \cap NumsOf(t) = {}

VARIABLES
    tab,        \* descriptors: kind, and gen, which counts their reuse
    call,       \* call[s]: pc, fd, the gen of each fd, used, i, and the caller
    pipe,       \* pipe[x]: ends l and r of the anonymous pipe of export x,
                \* whether l is still inheritable, whether the helper has the
                \* descriptor (not -1), and the data in the pipe
    helper,     \* helper[x]: "none", "run", "closing" or "done"
    kid,        \* the processes
    holds,      \* the ends a process has inherited
    wrote,      \* what it has written to its standard output
    arrived,    \* what the helper has passed on
    foreign,    \* a number has been used or closed on behalf of a call that
                \* had lost it to a later open
    excused     \* ... which cannot be held against the library

spvars == <<tab, call, pipe, helper, kid, holds, wrote, arrived, foreign, excused>>

Nfd(s) == Len(call[s].fd)
Exports == {<<s, i>> : s \in SpawnProcs, i \in 1..3}
End(x, side) == <<x[1], x[2], side>>
NoPipe == [l |-> FALSE, r |-> FALSE, linh |-> FALSE, fd |-> FALSE, data |-> 0]

SpawnInit ==
    /\ tab \in [FdNums -> [kind : {"file", "pipe", "null"}, gen : {0}]]
    /\ call = [s \in SpawnProcs |-> [pc |-> "idle", fd |-> <<>>, used |-> {}, i |-> 1, from |-> "spawn"]]
    /\ pipe = [x \in Exports |-> NoPipe]
    /\ helper = [x \in Exports |-> "none"]
    /\ kid = [s \in SpawnProcs |-> "none"] /\ holds = [s \in SpawnProcs |-> {}]
    /\ wrote = [s \in SpawnProcs |-> 0] /\ arrived = [s \in SpawnProcs |-> 0]
    /\ foreign = FALSE /\ excused = FALSE

SGoto(s, l) == call' = [call EXCEPT ![s].pc = l]
SNext(s, l) == call' = [call EXCEPT ![s].pc = l, ![s].i = @ + 1]
FdOf(x) == call[x[1]].fd[x[2]]
KindOf(n) == IF n = -1 THEN "none" ELSE tab[n].kind

\* close(n), by somebody to whom n was given.
CloseNum(n) == /\ tab' = [tab EXCEPT ![n].kind = "closed"]
               /\ foreign' = (foreign \/ (tab[n].kind # "closed" /\ tab[n].gen # 0))

\* Another proc opens a file and gets a number that has become free.
OtherOpen(n) == /\ tab[n] = [kind |-> "closed", gen |-> 0]
                /\ tab' = [tab EXCEPT ![n] = [kind |-> "file", gen |-> 1]]
                /\ UNCHANGED <<call, pipe, helper, kid, holds, wrote, arrived, foreign, excused>>

-----------------------------------------------------------------------------
(* winspawne()                                                            *)

\* lookupexe() may find no program.
PipeTwice(fd) == \E i, j \in DOMAIN fd : i # j /\ fd[i] = fd[j] /\ KindOf(fd[i]) = "pipe"

Begin(s) ==
    /\ call[s].pc = "idle"
    /\ \E c \in Calls[s], l \in {"export", "fail"} :
        /\ call' = [call EXCEPT ![s] = [pc |-> l, fd |-> c.fd, used |-> {}, i |-> 1, from |-> c.from]]
        /\ excused' = (excused \/ PipeTwice(c.fd))
    /\ UNCHANGED <<tab, pipe, helper, kid, holds, wrote, arrived, foreign>>

\* fdexport() of the i-th descriptor.  For a file, a duplicate; nothing for a
\* number that is not open, or when CreatePipe() fails.
ExportPlain(s) ==
    /\ call[s].pc = "export" /\ call[s].i <= Nfd(s)
    /\ SNext(s, "export")
    /\ UNCHANGED <<tab, pipe, helper, kid, holds, wrote, arrived, foreign, excused>>

\* CreatePipe(): both ends can be inherited ...
ExportPipe(s) ==
    /\ call[s].pc = "export" /\ call[s].i <= Nfd(s)
    /\ KindOf(call[s].fd[call[s].i]) \in {"pipe", "null"}
    /\ pipe' = [pipe EXCEPT ![<<s, call[s].i>>] = 
            [l |-> TRUE, r |-> TRUE, linh |-> TRUE, data |-> 0,
             fd |-> KindOf(call[s].fd[call[s].i]) # "null"]]
    /\ SGoto(s, "helper")
    /\ UNCHANGED <<tab, helper, kid, holds, wrote, arrived, foreign, excused>>

\* ... until SetHandleInformation().  The helper gets the descriptor, or -1
\* in place of /dev/null, which stays with the caller.
EveryFd(s) == {call[s].i}
UsedNow(s) == IF pipe[<<s, call[s].i>>].fd THEN {call[s].i} ELSE {}

Inherit == FALSE

ExportHelper(s) ==
    /\ call[s].pc = "helper"
    /\ LET x == <<s, call[s].i>> IN
        /\ pipe' = [pipe EXCEPT ![x].linh = Inherit]
        /\ helper' = [helper EXCEPT ![x] = "run"]
    /\ call' = [call EXCEPT ![s].used = @ \cup UsedNow(s), ![s].i = @ + 1, ![s].pc = "export"]
    /\ UNCHANGED <<tab, kid, holds, wrote, arrived, foreign, excused>>

Inheritable == {End(x, "r") : x \in {y \in Exports : pipe[y].r}}
                 \cup {End(x, "l") : x \in {y \in Exports : pipe[y].l /\ pipe[y].linh}}

CreateProcess(s) ==
    /\ call[s].pc = "export" /\ call[s].i > Nfd(s)
    /\ \/ /\ kid' = [kid EXCEPT ![s] = "run"]
          /\ holds' = [holds EXCEPT ![s] = Inheritable]
       \/ UNCHANGED <<kid, holds>>
    /\ SGoto(s, "closeh")
    /\ UNCHANGED <<tab, pipe, helper, wrote, arrived, foreign, excused>>

\* The three CloseHandle() calls.
EndsToClose(s) == {<<s, i>> : i \in 1..3}

CloseHandles(s) ==
    /\ call[s].pc = "closeh"
    /\ pipe' = [x \in Exports |-> IF x \in EndsToClose(s) THEN [pipe[x] EXCEPT !.r = FALSE] ELSE pipe[x]]
    /\ call' = [call EXCEPT ![s].pc = IF kid[s] = "none" THEN "fail" ELSE "add", ![s].i = 1]
    /\ UNCHANGED <<tab, helper, kid, holds, wrote, arrived, foreign, excused>>

\* winaddchild() fails when the table of children is full.
AddChild(s) == /\ call[s].pc = "add"
               /\ \E l \in {"closefd", "fail"} : SGoto(s, l)
               /\ UNCHANGED <<tab, pipe, helper, kid, holds, wrote, arrived, foreign, excused>>

\* The descriptors that no helper uses are closed, each once.
ClosesHere(s) == LET i == call[s].i IN
    /\ call[s].fd[i] # -1
    /\ i \notin call[s].used
    /\ \A j \in 1..(i-1) : call[s].fd[j] # call[s].fd[i]

CloseFd(s) ==
    /\ call[s].pc = "closefd" /\ call[s].i <= Nfd(s)
    /\ IF ClosesHere(s) THEN CloseNum(call[s].fd[call[s].i]) ELSE UNCHANGED <<tab, foreign>>
    /\ SNext(s, "closefd")
    /\ UNCHANGED <<pipe, helper, kid, holds, wrote, arrived, excused>>

SpawnReturns(s) ==
    /\ call[s].pc = "closefd" /\ call[s].i > Nfd(s)
    /\ SGoto(s, "ok")
    /\ UNCHANGED <<tab, pipe, helper, kid, holds, wrote, arrived, foreign, excused>>

\* -1.  winexecve() closes its descriptors again, although helpers that were
\* started for some of them will do so, too; the others leave it at that.
SpawnFails(s) ==
    /\ call[s].pc = "fail"
    /\ call' = [call EXCEPT ![s].pc = IF call[s].from = "exec" THEN "closeall" ELSE "failed", ![s].i = 1]
    /\ excused' = (excused \/ call[s].used # {})
    /\ UNCHANGED <<tab, pipe, helper, kid, holds, wrote, arrived, foreign>>

winexecve(s) ==
    /\ call[s].pc = "closeall"
    /\ IF call[s].i > Nfd(s) THEN SGoto(s, "failed") ELSE SNext(s, "closeall")
    /\ IF call[s].i <= Nfd(s) /\ call[s].fd[call[s].i] # -1
       THEN CloseNum(call[s].fd[call[s].i]) ELSE UNCHANGED <<tab, foreign>>
    /\ UNCHANGED <<pipe, helper, kid, holds, wrote, arrived, excused>>

-----------------------------------------------------------------------------
(* The helpers, and the processes.                                        *)

TakesOutput(x) == x[2] > 1        \* rxhelper(), for the output; else txhelper()
HasFd(x) == pipe[x].fd

Held(x, side) == \E s \in SpawnProcs : End(x, side) \in holds[s]

\* rxhelper() passes the child's output on, until it cannot be written.
RxData(x) ==
    /\ helper[x] = "run" /\ TakesOutput(x) /\ pipe[x].data > 0
    /\ pipe' = [pipe EXCEPT ![x].data = @ - 1]
    /\ IF HasFd(x) /\ tab[FdOf(x)].kind = "closed"
       THEN helper' = [helper EXCEPT ![x] = "closing"] /\ UNCHANGED <<arrived, foreign>>
       ELSE /\ arrived' = [arrived EXCEPT ![x[1]] = @ + 1]
            /\ foreign' = (foreign \/ (HasFd(x) /\ tab[FdOf(x)].gen # 0))
            /\ UNCHANGED helper
    /\ UNCHANGED <<tab, call, kid, holds, wrote, excused>>

\* Nobody can write to the pipe any more, and it is empty.
Abandoned(x) == ~pipe[x].r /\ ~Held(x, "r")
Drained(x) == Abandoned(x) /\ pipe[x].data = 0

RxEnds(x) == /\ helper[x] = "run" /\ TakesOutput(x) /\ Drained(x)
             /\ helper' = [helper EXCEPT ![x] = "closing"]
             /\ UNCHANGED <<tab, call, pipe, kid, holds, wrote, arrived, foreign, excused>>

\* txhelper() ends at the end of its input, or when the child is gone.
TxEnds(x) == /\ helper[x] = "run" /\ ~TakesOutput(x)
             /\ helper' = [helper EXCEPT ![x] = "closing"]
             /\ UNCHANGED <<tab, call, pipe, kid, holds, wrote, arrived, foreign, excused>>

HelperCloses(x) ==
    /\ helper[x] = "closing"
    /\ IF HasFd(x) THEN CloseNum(FdOf(x)) ELSE UNCHANGED <<tab, foreign>>
    /\ pipe' = [pipe EXCEPT ![x].l = FALSE]
    /\ helper' = [helper EXCEPT ![x] = "done"]
    /\ UNCHANGED <<call, kid, holds, wrote, arrived, excused>>

KidWrites(s) ==
    /\ kid[s] = "run" /\ End(<<s, 2>>, "r") \in holds[s] /\ wrote[s] < MaxData
    /\ wrote' = [wrote EXCEPT ![s] = @ + 1]
    /\ pipe' = [pipe EXCEPT ![<<s, 2>>].data = @ + 1]
    /\ UNCHANGED <<tab, call, helper, kid, holds, arrived, foreign, excused>>

KidExits(s) == /\ kid[s] = "run"
               /\ kid' = [kid EXCEPT ![s] = "gone"] /\ holds' = [holds EXCEPT ![s] = {}]
               /\ UNCHANGED <<tab, call, pipe, helper, wrote, arrived, foreign, excused>>

SpawnerStep(s) == \/ ExportPlain(s) \/ ExportPipe(s) \/ ExportHelper(s) \/ CreateProcess(s)
                  \/ CloseHandles(s) \/ AddChild(s) \/ CloseFd(s) \/ SpawnReturns(s)
                  \/ SpawnFails(s) \/ winexecve(s)
HelperStep(x) == RxData(x) \/ RxEnds(x) \/ HelperCloses(x)

SpawnNext ==
    \/ \E s \in SpawnProcs : Begin(s) \/ SpawnerStep(s) \/ KidWrites(s) \/ KidExits(s)
    \/ \E x \in Exports : HelperStep(x) \/ TxEnds(x)
    \/ \E n \in FdNums : OtherOpen(n)

SpawnSpec == SpawnInit /\ [][SpawnNext]_spvars

-----------------------------------------------------------------------------
(* Properties.                                                            *)

\* A number that winspawne() has passed to a helper is the helper's: nobody
\* else closes it, so that no helper and no call ever writes to or closes a
\* descriptor that a later open has received under the same number.  Excused
\* are a spawn that fails after helpers were started, and a number given as
\* input and output at the same time, where two hold it.
NoForeignClose == foreign => excused

\* Nothing is left open: when a spawn has succeeded and the helpers of its
\* descriptors are done, each descriptor has been closed by one of them or
\* by winspawne(), /dev/null included.
NothingLeftOpen ==
    \A s \in SpawnProcs :
        (call[s].pc = "ok" /\ \A i \in call[s].used : helper[<<s, i>>] = "done")
        => \A i \in 1..Nfd(s) : call[s].fd[i] # -1 =>
              tab[call[s].fd[i]].kind = "closed" \/ tab[call[s].fd[i]].gen # 0

\* The output of a process has been passed on in full when its helper is
\* done, unless the descriptor was closed before its end.
OutputArrives ==
    \A s \in SpawnProcs :
        (helper[<<s, 2>>] = "done" /\ ~excused) => arrived[s] = wrote[s]

\* Both sides of an anonymous pipe come to see the end of the other: once
\* winspawne() has created the process, the program keeps no handle to the
\* child's end, or the helper would wait for ever for the end of the output;
\* and no child holds the helper's end of its own input, or it would wait for
\* ever itself.  (A process started at the same time may hold either until
\* it ends.)
EndIsSeen ==
    \A s \in SpawnProcs : \A i \in 1..3 :
        /\ call[s].pc \in {"add", "closefd", "ok", "fail", "closeall", "failed"} => ~pipe[<<s, i>>].r
        /\ End(<<s, i>>, "l") \notin holds[s]

\* Every descriptor and every end of a pipe is closed by one of caller, helper
\* and child, after its last use and not a second time.
EndsClosed == NoForeignClose /\ NothingLeftOpen /\ OutputArrives /\ EndIsSeen
=============================================================================
