------------------------------ MODULE ChildTab ------------------------------
(***************************************************************************)
(* The table of child processes (lib9/mingw/await.c).  winspawne() enters *)
(* the handle of a process it has created; await(), awaitnohang() and     *)
(* awaitfor() take the handle of a child that has exited out again.       *)
(*                                                                        *)
(* The loops over the table look at one slot after the other without the  *)
(* lock and take it only to change the slot they have found, so each look *)
(* and each change is a step.  A pid stands for the process, its entry    *)
(* and the handle that CreateProcess() returned for it.                   *)
(***************************************************************************)
EXTENDS Integers

CONSTANTS
    Threads,    \* procs of the program
    Spawners,   \* those that start processes
    Waiters,    \* those that wait for them
    Pids,       \* the processes (each is started once: bound)
    Nil,        \* the handle 0
    Nchild      \* slots of the table (64 in await.c)

ASSUME RolesAssumption == Spawners \subseteq Threads /\ Waiters \subseteq Threads
ASSUME NchildAssumption == Nchild \in Nat \ {0}
ASSUME PidAssumption == Nil \notin Pids

VARIABLES
    child,      \* child[i]: the process entered in slot i
    proc,       \* what has become of each process
    added,      \* the processes that winaddchild() has accepted
    reported,   \* the processes whose end some call has returned
    pc,         \* where a thread is
    idx,        \* its variables: the loop index i,
    hdl,        \* the handle h,
    cpid,       \* the pid,
    hwait       \* and the handles that wait3() waits for

locals == <<idx, hdl, cpid, hwait>>
vars == <<child, proc, added, reported, pc, locals>>

Slots == 0..(Nchild - 1)
NoHandles == [i \in Slots |-> Nil]

Goto(t, l) == pc' = [pc EXCEPT ![t] = l]
Locals(t, i, h, p, hs) ==
    /\ idx' = [idx EXCEPT ![t] = i] /\ hdl' = [hdl EXCEPT ![t] = h]
    /\ cpid' = [cpid EXCEPT ![t] = p] /\ hwait' = [hwait EXCEPT ![t] = hs]
Return(t) == Goto(t, "idle") /\ Locals(t, 0, Nil, Nil, NoHandles)

\* The loops go from slot to slot.
NextSlot(i) == i + 1
Advance(t) == idx' = [idx EXCEPT ![t] = NextSlot(@)] /\ UNCHANGED <<pc, hdl, cpid, hwait>>

Init == /\ child = [i \in Slots |-> Nil]
        /\ proc = [p \in Pids |-> "none"]
        /\ added = {} /\ reported = {}
        /\ pc = [t \in Threads |-> "idle"]
        /\ idx = [t \in Threads |-> 0] /\ hdl = [t \in Threads |-> Nil]
        /\ cpid = [t \in Threads |-> Nil] /\ hwait = [t \in Threads |-> NoHandles]

-----------------------------------------------------------------------------
(* winspawne() and winaddchild().                                         *)

\* CreateProcess() has succeeded; winaddchild() starts at slot 0.
Spawn(t, p) == /\ pc[t] = "idle" /\ t \in Spawners
               /\ proc[p] = "none"
               /\ proc' = [proc EXCEPT ![p] = "running"]
               /\ Locals(t, 0, Nil, p, NoHandles)
               /\ Goto(t, "add")
               /\ UNCHANGED <<child, added, reported>>

\* The test of the loop: is slot i free?  Not under the lock.
TakesAnySlot(i) == TRUE
Free(i) == child[i] = Nil

AddLook(t) ==
    /\ pc[t] = "add"
    /\ \/ /\ idx[t] = Nchild    \* "child table full": the process runs on, unknown
          /\ Return(t)
       \/ idx[t] < Nchild /\ Free(idx[t]) /\ Goto(t, "put") /\ UNCHANGED locals
       \/ idx[t] < Nchild /\ ~Free(idx[t]) /\ Advance(t)
    /\ UNCHANGED <<child, proc, added, reported>>

AddPut(t) == /\ pc[t] = "put"
             /\ child' = [child EXCEPT ![idx[t]] = cpid[t]]
             /\ added' = added \cup {cpid[t]}
             /\ Return(t)
             /\ UNCHANGED <<proc, reported>>

\* A child comes to its end.
Exit(p) == /\ proc[p] = "running"
           /\ proc' = [proc EXCEPT ![p] = "exited"]
           /\ UNCHANGED <<child, added, reported, pc, locals>>

-----------------------------------------------------------------------------
(* wait3(): await() and awaitnohang().                                    *)

\* The handles of all children, in the order of their slots: hwait keeps
\* them at the places they had in the table.
Handles == child

\* Under the lock.  No children: the call fails.
Await(t) == /\ pc[t] = "idle" /\ t \in Waiters
            /\ IF \A i \in Slots : Handles[i] = Nil
               THEN UNCHANGED <<pc, locals>>
               ELSE Locals(t, 0, Nil, Nil, Handles) /\ Goto(t, "wait")
            /\ UNCHANGED <<child, proc, added, reported>>

\* WaitForMultipleObjects() returns the first handle that is signalled.
Signalled(t) == {k \in Slots : hwait[t][k] # Nil /\ proc[hwait[t][k]] = "exited"}

WaitMany(t) ==
    /\ pc[t] = "wait"
    /\ \E k \in Signalled(t) :
        /\ \A j \in Signalled(t) : k <= j
        /\ Locals(t, 0, hwait[t][k], Nil, NoHandles)
    /\ Goto(t, "find")
    /\ UNCHANGED <<child, proc, added, reported>>

\* awaitnohang(): nothing has ended yet.
Timeout(t) == /\ pc[t] = "wait" /\ Signalled(t) = {}
              /\ Return(t)
              /\ UNCHANGED <<child, proc, added, reported>>

\* The search for the slot of h, without the lock; not finding it, wait3()
\* returns the status with pid -1.
Matches(i, h) == child[i] = h

FindLook(t) ==
    /\ pc[t] = "find"
    /\ \/ idx[t] = Nchild /\ Goto(t, "reap") /\ UNCHANGED locals
       \/ idx[t] < Nchild /\ Matches(idx[t], hdl[t]) /\ Goto(t, "take") /\ UNCHANGED locals
       \/ idx[t] < Nchild /\ ~Matches(idx[t], hdl[t]) /\ Advance(t)
    /\ UNCHANGED <<child, proc, added, reported>>

FindTake(t) == /\ pc[t] = "take"
               /\ cpid' = [cpid EXCEPT ![t] = child[idx[t]]]
               /\ child' = [child EXCEPT ![idx[t]] = Nil]
               /\ Goto(t, "reap")
               /\ UNCHANGED <<proc, added, reported, idx, hdl, hwait>>

-----------------------------------------------------------------------------
(* wait4(): awaitfor() a process that winspawne() has started, with or    *)
(* without an entry for it.                                               *)

Started(p) == proc[p] # "none" /\ \A t \in Threads : pc[t] \in {"add", "put"} => cpid[t] # p

Awaitfor(t, p) == /\ pc[t] = "idle" /\ t \in Waiters
                  /\ Started(p)
                  /\ Locals(t, 0, Nil, p, NoHandles)
                  /\ Goto(t, "find4")
                  /\ UNCHANGED <<child, proc, added, reported>>

\* OpenProcess() finds a process as long as somebody holds a handle to it:
\* those of reported children are closed, that of a process for which the
\* table had no room never is.
OpenProcess(p) == p \in added => p \notin reported

Find4Look(t) ==
    /\ pc[t] = "find4"
    /\ \/ idx[t] = Nchild /\ ~OpenProcess(cpid[t]) /\ Return(t)
       \/ /\ idx[t] = Nchild /\ OpenProcess(cpid[t])
          /\ Locals(t, Nchild, cpid[t], cpid[t], NoHandles) /\ Goto(t, "wait4")
       \/ idx[t] < Nchild /\ Matches(idx[t], cpid[t]) /\ Goto(t, "take4") /\ UNCHANGED locals
       \/ idx[t] < Nchild /\ ~Matches(idx[t], cpid[t]) /\ Advance(t)
    /\ UNCHANGED <<child, proc, added, reported>>

\* If the slot has been emptied meanwhile, OpenProcess() is tried as well.
Find4Take(t) == /\ pc[t] = "take4"
                /\ child' = [child EXCEPT ![idx[t]] = Nil]
                /\ Locals(t, Nchild, child[idx[t]], cpid[t], NoHandles)
                /\ Goto(t, IF child[idx[t]] = Nil THEN "find4" ELSE "wait4")
                /\ UNCHANGED <<proc, added, reported>>

WaitOne(t) == /\ pc[t] = "wait4" /\ proc[hdl[t]] = "exited"
              /\ Goto(t, "reap")
              /\ UNCHANGED <<child, proc, added, reported, locals>>

\* The end of both: the exit code is read through h, h is closed, the pid
\* is returned (_await() turns one that is not positive into an error).
Reap(t) == /\ pc[t] = "reap"
           /\ reported' = IF cpid[t] = Nil THEN reported ELSE reported \cup {cpid[t]}
           /\ Return(t)
           /\ UNCHANGED <<child, proc, added>>

-----------------------------------------------------------------------------
Adds(t) == AddLook(t) \/ AddPut(t)
Collects(t) == \/ FindLook(t) \/ FindTake(t) \/ Find4Look(t) \/ Find4Take(t)
               \/ WaitOne(t) \/ Reap(t)

Next == \/ \E t \in Threads : \/ \E p \in Pids : Spawn(t, p) \/ Awaitfor(t, p)
                              \/ Adds(t) \/ Await(t) \/ WaitMany(t) \/ Timeout(t) \/ Collects(t)
        \/ \E p \in Pids : Exit(p)

\* The threads are scheduled and every child comes to its end.  A waiting
\* thread calls await() again and again, whatever else it calls, and not
\* only awaitnohang(): an await() that can return does so at last.
Fairness ==
    /\ \A t \in Threads : WF_vars(Adds(t)) /\ WF_vars(Collects(t))
    /\ \A t \in Waiters : SF_vars(Await(t)) /\ SF_vars(WaitMany(t))
    /\ \A p \in Pids : WF_vars(Exit(p))

Spec == Init /\ [][Next]_vars /\ Fairness

-----------------------------------------------------------------------------
(* Correctness.                                                           *)

PCs == {"idle", "add", "put", "wait", "find", "take", "find4", "take4", "wait4", "reap"}

\* Every variable has its type.
TypeOK == /\ child \in [Slots -> Pids \cup {Nil}]
          /\ proc \in [Pids -> {"none", "running", "exited"}]
          /\ added \subseteq Pids /\ reported \subseteq Pids
          /\ pc \in [Threads -> PCs]
          /\ idx \in [Threads -> 0..Nchild]
          /\ hdl \in [Threads -> Pids \cup {Nil}] /\ cpid \in [Threads -> Pids \cup {Nil}]
          /\ hwait \in [Threads -> [Slots -> Pids \cup {Nil}]]

\* The child a thread has taken out of the table and not yet reported.
InHand(t, p) == pc[t] \in {"wait4", "reap"} /\ cpid[t] = p

\* A child that winaddchild() has accepted stays known until its end is
\* reported: no entry is overwritten and none is thrown away, although the
\* loops look at the table without the lock.
NoChildLost == \A p \in added \ reported :
    (\E i \in Slots : child[i] = p) \/ (\E t \in Threads : InHand(t, p))

\* What a call returns is the truth: the pid is that of the process whose
\* handle was waited for and whose exit code is read, and it has ended.
TrueReport == \A t \in Threads :
    pc[t] = "reap" /\ cpid[t] # Nil => cpid[t] = hdl[t] /\ proc[hdl[t]] = "exited"

\* A child is in one slot at most, and not any more when it is reported: its
\* handle is closed then, and a later wait would use a closed handle.
EnteredOnce == \A i, j \in Slots :
    child[i] # Nil => child[i] \notin reported /\ (child[i] = child[j] => i = j)

\* No child is lost, reported for another one or reported twice, although
\* winaddchild(), await() and awaitfor() walk the table without its lock.
ChildrenKept == TypeOK /\ NoChildLost /\ TrueReport /\ EnteredOnce

\* A program that keeps waiting hears of every child it has entered, those
\* that end while it is waiting for others included.
EveryChildReported == \A p \in Pids : p \in added ~> p \in reported
=============================================================================
