-------------------------------- MODULE FdIo --------------------------------
(***************************************************************************)
(* Transfers on one Fd by several procs at a time (lib9/mingw/read.c,     *)
(* write.c, winovresult() of misc.c, fdtget() and initovev() of fdtab.c). *)
(* On a pipe they are overlapped: ReadFile() and WriteFile() may return   *)
(* at once with the transfer pending, and GetOverlappedResult() waits for *)
(* the event of the Fd's readers or writers, which the completion sets.   *)
(* On a file they are synchronous and move the shared file pointer.       *)
(***************************************************************************)
EXTENDS Naturals, FiniteSets

CONSTANTS
    IoProcs,    \* procs that use the Fd
    MaxIo       \* bound: transfers of each

ASSUME MaxIoAssumption == MaxIo \in Nat

VARIABLES
    fdtype,     \* "pipe" or "file"
    ev,         \* f->ev: the events "r" and "w", 0 for nil
    nevents,    \* events created so far; an event is its number
    signalled,  \* the events that are set
    tablock,    \* who holds lk of fdtab.c
    lk,         \* f->lk: who holds "r", "w" and "rw"
    ipc,        \* where a proc is
    dir,        \* what it does: "r" or "w"
    ovev,       \* ov.hEvent of its OVERLAPPED
    io,         \* its transfer: "none", "pending" or "done"
    left,       \* transfers it may still make
    early       \* a call has returned while its transfer was pending

iovars == <<fdtype, ev, nevents, signalled, tablock, lk, ipc, dir, ovev, io, left, early>>
iocall == <<dir, ovev, io, left, early>>

Idle == "idle"
NoProc == "nobody"
ASSUME NoProcAssumption == NoProc \notin IoProcs

Dirs == {"r", "w"}
IGoto(p, l) == ipc' = [ipc EXCEPT ![p] = l]

FdIoInit ==
    /\ fdtype \in {"pipe", "file"}
    /\ ev = [d \in Dirs |-> 0] /\ nevents = 0 /\ signalled = {}
    /\ tablock = NoProc /\ lk = [k \in Dirs \cup {"rw"} |-> NoProc]
    /\ ipc = [p \in IoProcs |-> Idle] /\ dir = [p \in IoProcs |-> "r"]
    /\ ovev = [p \in IoProcs |-> 0] /\ io = [p \in IoProcs |-> "none"]
    /\ left = [p \in IoProcs |-> MaxIo] /\ early = FALSE

\* p9read() or p9write(): fdtget() looks for the events of a pipe.
Call(p, d) ==
    /\ ipc[p] = Idle /\ left[p] > 0
    /\ dir' = [dir EXCEPT ![p] = d] /\ left' = [left EXCEPT ![p] = @ - 1]
    /\ IGoto(p, IF fdtype = "pipe" THEN "evr" ELSE "lock")
    /\ UNCHANGED <<fdtype, ev, nevents, signalled, tablock, lk, ovev, io, early>>

\* The first look, without the lock; then ov.hEvent is taken from the Fd.
LookEvent(p) ==
    /\ \/ ipc[p] = "evr" /\ IGoto(p, IF ev["r"] = 0 THEN "initr" ELSE "evw") /\ UNCHANGED ovev
       \/ ipc[p] = "evw" /\ ev["w"] = 0 /\ IGoto(p, "initw") /\ UNCHANGED ovev
       \/ /\ ipc[p] = "evw" /\ ev["w"] # 0 /\ IGoto(p, "lock")
          /\ ovev' = [ovev EXCEPT ![p] = ev[dir[p]]]
    /\ UNCHANGED <<fdtype, ev, nevents, signalled, tablock, lk, dir, io, left, early>>

\* initovev(): the second look, with the lock.
NoLook(d) == TRUE
StillNil(d) == ev[d] = 0

InitovLock(p) ==
    /\ ipc[p] \in {"initr", "initw"} /\ tablock = NoProc
    /\ tablock' = p
    /\ IGoto(p, IF ipc[p] = "initr" THEN "creater" ELSE "createw")
    /\ UNCHANGED <<fdtype, ev, nevents, signalled, lk, iocall>>

initovev(p) ==
    /\ \E d \in Dirs :
        /\ ipc[p] = IF d = "r" THEN "creater" ELSE "createw"
        /\ IF StillNil(d)
           THEN nevents' = nevents + 1 /\ ev' = [ev EXCEPT ![d] = nevents + 1]
           ELSE UNCHANGED <<ev, nevents>>
        /\ IGoto(p, IF d = "r" THEN "evw" ELSE "take")
    /\ tablock' = NoProc
    /\ UNCHANGED <<fdtype, signalled, lk, iocall>>

TakeEvent(p) == /\ ipc[p] = "take"
                /\ ovev' = [ovev EXCEPT ![p] = ev[dir[p]]]
                /\ IGoto(p, "lock")
                /\ UNCHANGED <<fdtype, ev, nevents, signalled, tablock, lk, dir, io, left, early>>

\* The lock of a transfer: r or w for a pipe, rw for a file.
LockOf(p) == IF fdtype = "file" THEN "rw" ELSE dir[p]

LockIsFree(p) == lk[LockOf(p)] = NoProc

Qlock(p) == /\ ipc[p] = "lock" /\ LockIsFree(p)
            /\ lk' = [lk EXCEPT ![LockOf(p)] = p]
            /\ IGoto(p, "issue")
            /\ UNCHANGED <<fdtype, ev, nevents, signalled, tablock, iocall>>

\* ReadFile() or WriteFile(): the call may complete the transfer at once,
\* which sets the event as well.
Issue(p) ==
    /\ ipc[p] = "issue"
    /\ signalled' = signalled \ {ovev[p]}
    /\ \/ /\ io' = [io EXCEPT ![p] = "done"]
          /\ IGoto(p, "reset")
       \/ /\ fdtype = "pipe"
          /\ io' = [io EXCEPT ![p] = "pending"]
          /\ IGoto(p, "result")
    /\ UNCHANGED <<fdtype, ev, nevents, tablock, lk, dir, ovev, left, early>>

\* The system completes a pending transfer.
CompleteIo(p) == /\ io[p] = "pending"
                 /\ io' = [io EXCEPT ![p] = "done"]
                 /\ signalled' = signalled \cup {ovev[p]}
                 /\ UNCHANGED <<fdtype, ev, nevents, tablock, lk, ipc, dir, ovev, left, early>>

\* GetOverlappedResult() returns when the event is set.
winovresult(p) ==
    /\ ipc[p] = "result" /\ ovev[p] \in signalled
    /\ early' = (early \/ io[p] = "pending")
    /\ IGoto(p, "reset")
    /\ UNCHANGED <<fdtype, ev, nevents, signalled, tablock, lk, dir, ovev, io, left>>

ResetEvent(p) == /\ ipc[p] = "reset"
                 /\ signalled' = signalled \ {ovev[p]}
                 /\ IGoto(p, "unlock")
                 /\ UNCHANGED <<fdtype, ev, nevents, tablock, lk, iocall>>

Qunlock(p) == /\ ipc[p] = "unlock"
              /\ lk' = [lk EXCEPT ![LockOf(p)] = NoProc]
              /\ IGoto(p, Idle)
              /\ io' = [io EXCEPT ![p] = "none"] /\ ovev' = [ovev EXCEPT ![p] = 0]
              /\ UNCHANGED <<fdtype, ev, nevents, signalled, tablock, dir, left, early>>

IoStep(p) == \/ LookEvent(p) \/ InitovLock(p) \/ initovev(p) \/ TakeEvent(p) \/ Qlock(p)
             \/ Issue(p) \/ CompleteIo(p) \/ winovresult(p) \/ ResetEvent(p) \/ Qunlock(p)

FdIoNext == \E p \in IoProcs : IoStep(p) \/ \E d \in Dirs : Call(p, d)

\* The system completes every transfer, and a proc that can go on does.
FdIoFairness == \A p \in IoProcs : WF_iovars(IoStep(p))
FdIoSpec == FdIoInit /\ [][FdIoNext]_iovars /\ FdIoFairness

-----------------------------------------------------------------------------
\* A call returns when its own transfer has been completed, not when that of
\* another proc has: the event it waits for is not set by any other.
NoEarlyReturn == ~early

\* A pipe gets one event for its readers and one for its writers, although
\* two procs may both find that they are missing; nobody waits for an event
\* that the Fd does not know.
EventsOnce ==
    /\ nevents <= 2
    /\ \A p \in IoProcs : ipc[p] \in {"issue", "result", "reset"} /\ fdtype = "pipe" =>
          ovev[p] # 0 /\ ovev[p] = ev[dir[p]]

\* Transfers on one Fd do not take each other for their own: nobody returns
\* before his transfer has ended, and there is one pair of events.
TransfersApart == NoEarlyReturn /\ EventsOnce

\* Every call comes back: nobody clears the event that another proc is
\* waiting for.
EveryTransferEnds == \A p \in IoProcs : (ipc[p] # Idle) ~> (ipc[p] = Idle)
=============================================================================
