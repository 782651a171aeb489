--------------------------------- MODULE Rc ---------------------------------
(***************************************************************************)
(* The shell rc where there is no fork(): cmd/rc/haventfork.c, the parts  *)
(* of plan9ish.c that wait for processes, and ForkExecute() of mingw.c.   *)
(* rc's interpreter (exec.c, simple.c of plan9port) is external: it calls *)
(* these operations one after the other, and runs the right side of a     *)
(* pipeline in a thread of its own on the stack runq (here rcq).          *)
(***************************************************************************)
EXTENDS Integers, Sequences

CONSTANTS
    RcPids,     \* process ids; a pid is used again when its process was waited for
    Codes,      \* exit statuses
    MaxThreads  \* bound: depth of rcq

ASSUME RcPidAssumption == RcPids \subseteq Nat \ {0}

VARIABLES
    kids,       \* [RcPids -> [st, code, role]]; role is a history variable
    waitpids,   \* the set of processes to be waited for; a failed start adds -1
    rcq,        \* threads, the running one last: [pid, status]; truth: history,
                \* the status the process of the left side ended with
    rcstatus,   \* $status; of a pipeline's, the part of its last command
    rcpc,       \* [at, pid, saved]: "run", "read" of `{...}, "waitfor", "pipewait"
    wrend,      \* is rc's copy of the write end of the pipe of `{...} open?
    piped       \* history: got and true status of the left side, when a pipeline ends

rcvars == <<kids, waitpids, rcq, rcstatus, rcpc, wrend, piped>>

NoStatus == ""
NoKid == [st |-> "none", code |-> NoStatus, role |-> "fg"]
NoPipeline == [got |-> NoStatus, truth |-> NoStatus]
Run == [at |-> "run", pid |-> 0, saved |-> NoStatus]
NewThread == [pid |-> 0, status |-> NoStatus, truth |-> NoStatus, ran |-> FALSE]

RcInit ==
    /\ kids = [p \in RcPids |-> NoKid] /\ waitpids = {}
    /\ rcq = <<NewThread>> /\ rcstatus = NoStatus /\ rcpc = Run
    /\ wrend = FALSE /\ piped = NoPipeline

Top == Len(rcq)
HasRun(q) == [q EXCEPT ![Len(q)].ran = TRUE]

\* addwaitpid(), delwaitpid(), havewaitpid()
addwaitpid(pid) == waitpids' = waitpids \cup {pid}
delwaitpid(pid) == waitpids' = waitpids \ {pid}
havewaitpid(pid) == pid \in waitpids

\* ForkExecute(): the pid, or -1; its copies of the descriptors are closed.
\* A pid is used again as soon as it can be.
ForkExecute(pid, role) ==
    \/ pid = -1 /\ UNCHANGED kids
    \/ /\ pid \in RcPids /\ kids[pid].st = "none" /\ (\A p \in RcPids : p < pid => kids[p].st # "none")
       /\ kids' = [kids EXCEPT ![pid] = [st |-> "running", code |-> NoStatus, role |-> role]]

\* Xerror(): back to the thread that reads commands; the left sides of
\* pipelines that are given up go on like background processes.
Xerror ==
    /\ rcq' = <<NewThread>> /\ rcstatus' = NoStatus /\ rcpc' = Run
    /\ kids' = [p \in RcPids |-> IF kids[p].st = "none" THEN NoKid
                               ELSE [kids[p] EXCEPT !.role = "bg"]]

-----------------------------------------------------------------------------
(* Commands.                                                              *)

\* cmd &.  A failure is -1, which the test for 0 does not see.
Xasync(pid) ==
    /\ rcpc.at = "run" /\ ForkExecute(pid, "bg") /\ addwaitpid(pid)
    /\ piped' = NoPipeline /\ UNCHANGED <<rcq, rcstatus, rcpc, wrend>>

\* @{...} and, with execforkexec(), a simple command: started, waited for.
Xsubshell(pid) ==
    /\ rcpc.at = "run"
    /\ \/ pid = -1 /\ Xerror /\ UNCHANGED waitpids
       \/ /\ pid # -1 /\ ForkExecute(pid, "fg") /\ addwaitpid(pid)
          /\ rcpc' = [at |-> "waitfor", pid |-> pid, saved |-> NoStatus]
          /\ rcq' = HasRun(rcq) /\ UNCHANGED rcstatus
    /\ piped' = NoPipeline /\ UNCHANGED wrend

\* `{...}: rc closes its write end, reads to the end of file, then waits.
CloseWriteEnd == wrend' = FALSE
Xbackq(pid) ==
    /\ rcpc.at = "run" /\ ForkExecute(pid, "fg") /\ addwaitpid(pid)
    /\ CloseWriteEnd
    /\ rcpc' = [at |-> "read", pid |-> pid, saved |-> NoStatus]
    /\ piped' = NoPipeline /\ UNCHANGED <<rcq, rcstatus>>
BackqEof ==
    /\ rcpc.at = "read" /\ ~wrend
    /\ rcpc.pid # -1 => kids[rcpc.pid].st # "running"
    /\ rcpc' = [rcpc EXCEPT !.at = "waitfor"]
    /\ piped' = NoPipeline /\ UNCHANGED <<kids, waitpids, rcq, rcstatus, wrend>>

\* left | right: left is started, right runs in a new thread.
Xpipe(pid) ==
    /\ rcpc.at = "run" /\ Top < MaxThreads /\ ForkExecute(pid, "left") /\ addwaitpid(pid)
    /\ rcq' = Append([rcq EXCEPT ![Top].pid = pid, ![Top].truth = IF pid = -1 THEN "failed" ELSE NoStatus], NewThread)
    /\ piped' = NoPipeline /\ UNCHANGED <<rcstatus, rcpc, wrend>>

\* <{...} and >{...}: the pipe is handed to the command by its name.
Xpipefd(pid) ==
    /\ rcpc.at = "run" /\ ForkExecute(pid, "bg") /\ addwaitpid(pid)
    /\ piped' = NoPipeline /\ UNCHANGED <<rcq, rcstatus, rcpc, wrend>>

\* The right side's thread returns; Xpipewait (external, exec.c).  What the
\* thread keeps of a pipeline that is over does not matter to the next one.
PipeDone(st, q, rest) ==
    /\ rcstatus' = rest /\ rcpc' = Run
    /\ rcq' = HasRun([q EXCEPT ![Len(q)] = NewThread])
    /\ piped' = [got |-> st, truth |-> q[Len(q)].truth]
Xpipewait ==
    LET q == SubSeq(rcq, 1, Top - 1)
        p == q[Len(q)]
    IN /\ rcpc.at = "run" /\ Top > 1 /\ rcq[Top].ran
       /\ \/ p.pid = -1 /\ PipeDone(p.status, q, rcstatus)
          \/ /\ p.pid # -1 /\ rcq' = q
             /\ rcpc' = [at |-> "pipewait", pid |-> p.pid, saved |-> rcstatus]
             /\ piped' = NoPipeline /\ UNCHANGED rcstatus
       /\ UNCHANGED <<kids, waitpids, wrend>>

\* The command wait, without a pid or with one that $apid has told.
execwait(pid) ==
    /\ rcpc.at = "run" /\ (pid # -1 => kids[pid].st = "none" \/ kids[pid].role = "bg")
    /\ rcpc' = [at |-> "waitfor", pid |-> pid, saved |-> NoStatus]
    /\ piped' = NoPipeline /\ UNCHANGED <<kids, waitpids, rcq, rcstatus, wrend>>

-----------------------------------------------------------------------------
(* Waitfor(pid): ends at once when pid is not in waitpids, otherwise with *)
(* pid or when there are no more processes.                               *)

WaitOver(q, status) ==
    \/ /\ rcpc.at = "waitfor" /\ rcpc' = Run /\ rcq' = q /\ rcstatus' = status
       /\ piped' = NoPipeline
    \/ /\ rcpc.at = "pipewait"
       /\ PipeDone(status, q, rcpc.saved)

\* The status of another process is kept for the thread that will ask for it.
LosesStatus(z, code) == rcq
NotedInThreads(z, code) ==
    [i \in DOMAIN rcq |-> IF i < Top /\ rcq[i].pid = z
                           THEN [rcq[i] EXCEPT !.pid = -1, !.status = code] ELSE rcq[i]]

WaitforNothing ==
    /\ rcpc.at \in {"waitfor", "pipewait"}
    /\ \/ rcpc.pid >= 0 /\ ~havewaitpid(rcpc.pid)
       \/ \A p \in RcPids : kids[p].st = "none"
    /\ WaitOver(rcq, rcstatus)
    /\ UNCHANGED <<kids, waitpids, wrend>>

Waitfor(z) ==
    /\ rcpc.at \in {"waitfor", "pipewait"} /\ (rcpc.pid >= 0 => havewaitpid(rcpc.pid))
    /\ kids[z].st = "ended"
    /\ kids' = [kids EXCEPT ![z] = NoKid]
    /\ delwaitpid(z)
    /\ \/ z = rcpc.pid /\ WaitOver(rcq, kids[z].code)
       \/ /\ z # rcpc.pid /\ rcq' = NotedInThreads(z, kids[z].code)
          /\ piped' = NoPipeline /\ UNCHANGED <<rcstatus, rcpc>>
    /\ UNCHANGED wrend

\* External: a process ends; nobody asks for the status of one in the background.
KidEnds(p, code) ==
    /\ kids[p].st = "running" /\ (kids[p].role = "bg" => code = CHOOSE c \in Codes : TRUE)
    /\ kids' = [kids EXCEPT ![p].st = "ended", ![p].code = code]
    /\ rcq' = [i \in DOMAIN rcq |-> IF rcq[i].pid = p THEN [rcq[i] EXCEPT !.truth = code]
                                      ELSE rcq[i]]
    /\ piped' = NoPipeline /\ UNCHANGED <<waitpids, rcstatus, rcpc, wrend>>

RcStep == \/ BackqEof \/ WaitforNothing \/ \E z \in RcPids : Waitfor(z)
SomeKidEnds == \E p \in RcPids, code \in Codes : KidEnds(p, code)

RcNext ==
    \/ \E pid \in RcPids \cup {-1} :
          Xasync(pid) \/ Xsubshell(pid) \/ Xbackq(pid) \/ Xpipe(pid) \/ Xpipefd(pid)
    \/ \E pid \in RcPids \cup {-1} : execwait(pid)
    \/ Xpipewait \/ RcStep \/ SomeKidEnds

\* Processes end, and rc goes on when it can.
RcFairness == /\ WF_rcvars(RcStep)
              /\ \A p \in RcPids : WF_rcvars(\E code \in Codes : KidEnds(p, code))

RcSpec == RcInit /\ [][RcNext]_rcvars /\ RcFairness

-----------------------------------------------------------------------------
(* Properties.                                                            *)

\* When rc reads the next command, the command before it has ended: a
\* foreground process was waited for, and the left side of a pipeline is there
\* only as long as its right side runs.  Waitfor() returns at once for a
\* process that is not in waitpids, whatever order the others ended in.
CommandsWaitedFor ==
    rcpc.at = "run" =>
        \A p \in RcPids : kids[p].st # "none" =>
            \/ kids[p].role = "bg"
            \/ kids[p].role = "left" /\ \E i \in 1..(Top - 1) : rcq[i].pid = p

\* The status of a pipeline holds the status of its left side's process,
\* whether it ended before or after the right side, and whichever Waitfor()
\* came by it; unless that process could not be started.
PipeStatus == piped.truth # "failed" => piped.got = piped.truth

\* rc knows of every command it has to wait for, and the status of a
\* pipeline's parts, in whichever order they end.
StatusKept == CommandsWaitedFor /\ PipeStatus

\* rc reads the next command some time: `{...} comes to the end of its file.
EveryCommandEnds == (rcpc.at # "run") ~> (rcpc.at = "run")
=============================================================================
