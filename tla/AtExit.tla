------------------------------- MODULE AtExit -------------------------------
(***************************************************************************)
(* The exit handlers of lib9 (lib9/mingw/atexit.c, lib9/linux/atexit.c)   *)
(* and threadexitsall() of libthread/mingw.c.  atexit() searches the      *)
(* table with the lock held; atexitdont() and the loop of exits() and     *)
(* p9exit() look at a slot and clear it without the lock, so these are    *)
(* separate steps.  A process that was forked on Linux begins with the    *)
(* entries of its parent, under the parent's pid.                         *)
(***************************************************************************)
EXTENDS Integers

CONSTANTS
    Users,      \* procs that register and remove handlers of their own
    Handlers,   \* the handlers (functions); Handlers[u] are those of proc u
    Inherited,  \* handlers that the parent had registered before the fork
    Nexit       \* slots of the table (33 in atexit.c)

ASSUME NexitAssumption == Nexit \in Nat \ {0}
ASSUME InheritedAssumption == \A u \in Users : Handlers[u] \cap Inherited = {}
ASSUME OwnAssumption == \A u, v \in Users : u # v => Handlers[u] \cap Handlers[v] = {}

VARIABLES
    onexf,      \* onex[i].f: the handler in slot i
    onexpid,    \* onex[i].pid: the process that has registered it
    onexlock,   \* who holds onexlock
    locking,    \* FALSE once threadexitsall() has cleared _lock
    upc, uf, ui,    \* where a user is; its handler f and its slot i
    epc, ef, ei,    \* where the proc that exits is; its handler f and its slot i
    registered, \* the handlers for which atexit() has returned 1
    due,        \* those registered when exits() was called and not removed since
    calls       \* how often each handler has been called

xvars == <<onexf, onexpid, onexlock, locking, upc, uf, ui, epc, ef, ei, registered, due, calls>>

Zero == "0"
Unlocked == "unlocked"
AllHandlers == (UNION {Handlers[u] : u \in Users}) \cup Inherited
OnexSlots == 0..(Nexit - 1)

ASSUME ZeroAssumption == Zero \notin AllHandlers /\ Unlocked \notin Users

\* The table of a new program, or that of a forked one.
AtExitInit ==
    /\ onexf \in [OnexSlots -> Inherited \cup {Zero}]
    /\ \A i, j \in OnexSlots : onexf[i] = onexf[j] /\ onexf[i] # Zero => i = j
    /\ onexpid = [i \in OnexSlots |-> IF onexf[i] = Zero THEN "none" ELSE "parent"]
    /\ onexlock = Unlocked /\ locking = TRUE
    /\ upc = [u \in Users |-> "idle"]
    /\ uf = [u \in Users |-> Zero] /\ ui = [u \in Users |-> 0]
    /\ epc = "running" /\ ef = Zero /\ ei = Nexit - 1
    /\ registered = {} /\ due = {}
    /\ calls = [f \in AllHandlers |-> 0]

UGoto(u, l) == upc' = [upc EXCEPT ![u] = l]
UWith(u, f, i) == uf' = [uf EXCEPT ![u] = f] /\ ui' = [ui EXCEPT ![u] = i]
UReturn(u) == UGoto(u, "idle") /\ UWith(u, Zero, 0)
ELeft == <<epc, ef, ei, calls>>

-----------------------------------------------------------------------------
(* atexit() and atexitdont()                                              *)

NeverWaits == TRUE
MayEnter == onexlock = Unlocked \/ ~locking

AtexitLock(u, f) ==
    /\ upc[u] = "idle" /\ f \in Handlers[u] \ registered
    /\ MayEnter
    /\ onexlock' = IF locking THEN u ELSE onexlock
    /\ UWith(u, f, 0)
    /\ UGoto(u, "search")
    /\ UNCHANGED <<onexf, onexpid, locking, registered, due, ELeft>>

\* The first free slot; the pid is stored before the function that makes
\* the slot valid.
FreeSlots == {i \in OnexSlots : onexf[i] = Zero}
FirstFreeSlot(i) == i \in FreeSlots /\ \A j \in FreeSlots : i <= j

\* unlock(); a proc that came by without the lock has nothing to release.
OnexUnlock(u) == onexlock' = IF onexlock = u THEN Unlocked ELSE onexlock

AtexitSearch(u) ==
    /\ upc[u] = "search"
    /\ \/ /\ FreeSlots = {}
          /\ OnexUnlock(u)
          /\ UReturn(u)
          /\ UNCHANGED onexpid
       \/ \E i \in OnexSlots :
            /\ FirstFreeSlot(i)
            /\ onexpid' = [onexpid EXCEPT ![i] = "self"]
            /\ UWith(u, uf[u], i)
            /\ UGoto(u, "store")
            /\ UNCHANGED onexlock
    /\ UNCHANGED <<onexf, locking, registered, due, ELeft>>

AtexitStore(u) ==
    /\ upc[u] = "store"
    /\ onexf' = [onexf EXCEPT ![ui[u]] = uf[u]]
    /\ OnexUnlock(u)
    /\ registered' = registered \cup {uf[u]}
    /\ UReturn(u)
    /\ UNCHANGED <<onexpid, locking, due, ELeft>>

\* atexitdont() begins: from here on nobody may rely on the handler.
Atexitdont(u, f) ==
    /\ upc[u] = "idle" /\ f \in registered \cap Handlers[u]
    /\ registered' = registered \ {f}
    /\ due' = due \ {f}
    /\ UWith(u, f, 0)
    /\ UGoto(u, "dont")
    /\ UNCHANGED <<onexf, onexpid, onexlock, locking, ELeft>>

IsMine(u, i) == onexf[i] = uf[u] /\ onexpid[i] = "self"

DontLook(u) ==
    /\ upc[u] = "dont"
    /\ \/ ui[u] = Nexit /\ UReturn(u)
       \/ ui[u] < Nexit /\ IsMine(u, ui[u]) /\ UGoto(u, "clear") /\ UNCHANGED <<uf, ui>>
       \/ ui[u] < Nexit /\ ~IsMine(u, ui[u]) /\ UWith(u, uf[u], ui[u] + 1) /\ UNCHANGED upc
    /\ UNCHANGED <<onexf, onexpid, onexlock, locking, registered, due, ELeft>>

DontClear(u) ==
    /\ upc[u] = "clear"
    /\ onexf' = [onexf EXCEPT ![ui[u]] = Zero]
    /\ UWith(u, uf[u], ui[u] + 1)
    /\ UGoto(u, "dont")
    /\ UNCHANGED <<onexpid, onexlock, locking, registered, due, ELeft>>

-----------------------------------------------------------------------------
(* exits(), p9exit() and threadexitsall()                                 *)

Exiting == /\ epc = "running"
           /\ epc' = "loop"
           /\ due' = registered
           /\ UNCHANGED <<onexf, onexpid, onexlock, upc, uf, ui, ef, ei, registered, calls>>

CallExits == Exiting /\ UNCHANGED locking
threadexitsall == Exiting /\ locking' = FALSE

ULeft == <<onexpid, onexlock, locking, upc, uf, ui, registered, due>>

\* The test of the loop: is there a handler of this process in the slot?
OwnHandler(i) == onexf[i] # Zero /\ onexpid[i] = "self"

ExitLook ==
    /\ epc = "loop" /\ ei >= 0
    /\ \/ OwnHandler(ei) /\ ef' = onexf[ei] /\ epc' = "clear" /\ UNCHANGED ei
       \/ ~OwnHandler(ei) /\ ei' = ei - 1 /\ UNCHANGED <<ef, epc>>
    /\ UNCHANGED <<onexf, calls, ULeft>>

ExitClear == /\ epc = "clear"
             /\ onexf' = [onexf EXCEPT ![ei] = Zero]
             /\ epc' = "call"
             /\ UNCHANGED <<ef, ei, calls, ULeft>>

ExitCall == /\ epc = "call"
            /\ calls' = [calls EXCEPT ![ef] = @ + 1]
            /\ ef' = Zero /\ ei' = ei - 1
            /\ epc' = "loop"
            /\ UNCHANGED <<onexf, ULeft>>

ExitProcess == /\ epc = "loop" /\ ei = -1
               /\ epc' = "gone"
               /\ UNCHANGED <<onexf, ef, ei, calls, ULeft>>

UserStep(u) == \/ \E f \in Handlers[u] : AtexitLock(u, f) \/ Atexitdont(u, f)
               \/ AtexitSearch(u) \/ AtexitStore(u) \/ DontLook(u) \/ DontClear(u)

\* ExitProcess() ends the other procs.
AtExitNext == \/ epc # "gone" /\ \E u \in Users : UserStep(u)
              \/ CallExits \/ threadexitsall
              \/ ExitLook \/ ExitClear \/ ExitCall \/ ExitProcess

AtExitSpec == AtExitInit /\ [][AtExitNext]_xvars

-----------------------------------------------------------------------------
(* Properties.                                                            *)

\* When the process is gone, every handler that was registered when exits()
\* was called and that nobody has removed since has been called: none was
\* overwritten in the table, or cleared out of it for another one, although
\* only atexit() takes the lock.
EveryDueCalled == epc = "gone" => \A f \in due : calls[f] >= 1

\* Until the process exits, the handlers of the table are the registered
\* ones, each in one slot.
RegisteredOnce ==
    epc = "running" =>
        \A f \in registered : \E i \in OnexSlots :
            /\ onexf[i] = f /\ onexpid[i] = "self"
            /\ \A j \in OnexSlots : onexf[j] = f => j = i

\* A forked process calls none of the handlers of its parent: their pid is
\* not its own.
ParentsNotCalled == \A f \in Inherited : calls[f] = 0

\* At exit the registered handlers of this process are called, each once.
HandlersCalled == EveryDueCalled /\ RegisteredOnce /\ ParentsNotCalled
=============================================================================
