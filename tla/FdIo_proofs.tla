---------------------------- MODULE FdIo_proofs ----------------------------
(***************************************************************************)
(* Proofs about FdIo, for any number of procs that use one Fd and any     *)
(* number of transfers.                                                   *)
(***************************************************************************)
EXTENDS FdIo, TLAPS

-----------------------------------------------------------------------------
(* The inductive invariant.                                               *)

Looking == {"evr", "initr", "creater"}              \* for the event "r"
LookingAgain == {"evw", "initw", "createw"}         \* for the event "w"
Locked == {"issue", "result", "reset", "unlock"}    \* between qlock() and qunlock()

\* Every variable has its type.
FdIoTypeOK ==
    /\ fdtype \in {"pipe", "file"}
    /\ ev \in [Dirs -> Nat] /\ nevents \in Nat /\ signalled \subseteq Nat
    /\ tablock \in IoProcs \cup {NoProc}
    /\ lk \in [Dirs \cup {"rw"} -> IoProcs \cup {NoProc}]
    /\ ipc \in [IoProcs -> {Idle, "take", "lock"} \cup Looking \cup LookingAgain \cup Locked]
    /\ dir \in [IoProcs -> Dirs] /\ ovev \in [IoProcs -> Nat]
    /\ io \in [IoProcs -> {"none", "pending", "done"}]
    /\ left \in [IoProcs -> Nat]

\* A proc with a transfer holds the lock of its direction, or that of the file.
LocksHeld == \A p \in IoProcs : ipc[p] \in Locked => lk[LockOf(p)] = p

\* The events that were created are those of the Fd, and they differ.
EventsCounted ==
    /\ nevents = (IF ev["r"] = 0 THEN 0 ELSE 1) + (IF ev["w"] = 0 THEN 0 ELSE 1)
    /\ ev["r"] <= nevents /\ ev["w"] <= nevents
    /\ ev["r"] # 0 => ev["r"] # ev["w"]

\* A proc that has gone by a look for an event finds the event there, and
\* what it took for its OVERLAPPED is still the event of the Fd.
EventsFound ==
    fdtype = "pipe" => \A p \in IoProcs :
        /\ ipc[p] \notin {Idle} \cup Looking => ev["r"] # 0
        /\ ipc[p] \notin {Idle} \cup Looking \cup LookingAgain => ev["w"] # 0
        /\ ipc[p] \in {"lock"} \cup Locked => ovev[p] = ev[dir[p]]

\* Only who waits for its result has a transfer pending, and its event is not
\* set until the transfer has ended.
PendingUnsignalled ==
    \A p \in IoProcs : io[p] = "pending" =>
        /\ fdtype = "pipe" /\ ipc[p] = "result"
        /\ ovev[p] \notin signalled

FdIoIInv == /\ FdIoTypeOK /\ LocksHeld /\ EventsCounted /\ EventsFound /\ PendingUnsignalled
            /\ NoEarlyReturn

-----------------------------------------------------------------------------
USE NoProcAssumption, MaxIoAssumption DEF Dirs, Looking, LookingAgain, Locked, Idle

\* The initial states satisfy the invariant.
LEMMA FdIoInitInv == FdIoInit => FdIoIInv
BY DEF FdIoInit, FdIoIInv, FdIoTypeOK, LocksHeld, EventsCounted, EventsFound,
       PendingUnsignalled, NoEarlyReturn

\* Every step keeps it.
LEMMA FdIoStepInv == FdIoIInv /\ [FdIoNext]_iovars => FdIoIInv'
<1> SUFFICES ASSUME FdIoIInv, [FdIoNext]_iovars PROVE FdIoIInv'
  OBVIOUS
<1> USE DEF FdIoIInv, FdIoTypeOK, LocksHeld, EventsCounted, EventsFound, PendingUnsignalled,
            NoEarlyReturn, LockOf, IGoto, iocall
<1>1. ASSUME NEW p \in IoProcs, NEW d \in Dirs, Call(p, d) PROVE FdIoIInv'
  BY <1>1 DEF Call
<1>2. ASSUME NEW p \in IoProcs, LookEvent(p) PROVE FdIoIInv'
  BY <1>2 DEF LookEvent
<1>3. ASSUME NEW p \in IoProcs, InitovLock(p) PROVE FdIoIInv'
  BY <1>3 DEF InitovLock
<1>4. ASSUME NEW p \in IoProcs, initovev(p) PROVE FdIoIInv'
  BY <1>4 DEF initovev, StillNil
<1>5. ASSUME NEW p \in IoProcs, TakeEvent(p) PROVE FdIoIInv'
  BY <1>5 DEF TakeEvent
<1>6. ASSUME NEW p \in IoProcs, Qlock(p) PROVE FdIoIInv'
  BY <1>6 DEF Qlock, LockIsFree
<1>7. ASSUME NEW p \in IoProcs, Issue(p) PROVE FdIoIInv'
  <2>1. signalled' \subseteq Nat /\ (ovev[p] \notin signalled')
        /\ \A q \in IoProcs : ovev[q] \in signalled' => ovev[q] \in signalled
    BY <1>7 DEF Issue
  <2>2. CASE io' = [io EXCEPT ![p] = "done"] /\ IGoto(p, "reset")
    BY <1>7, <2>1, <2>2 DEF Issue
  <2>3. CASE fdtype = "pipe" /\ io' = [io EXCEPT ![p] = "pending"] /\ IGoto(p, "result")
    BY <1>7, <2>1, <2>3 DEF Issue
  <2> QED BY <1>7, <2>2, <2>3 DEF Issue
<1>8. ASSUME NEW p \in IoProcs, CompleteIo(p) PROVE FdIoIInv'
  <2>1. signalled' \subseteq Nat
    <3>1. ovev[p] \in Nat /\ signalled \subseteq Nat
      OBVIOUS
    <3>2. signalled' = signalled \cup {ovev[p]}
      BY <1>8, Zenon DEF CompleteIo
    <3> HIDE DEF FdIoIInv
    <3> QED BY <3>1, <3>2, Zenon
  <2>4. FdIoTypeOK'
    BY <1>8, <2>1 DEF CompleteIo
  <2>5. LocksHeld' /\ EventsCounted' /\ EventsFound' /\ NoEarlyReturn'
    BY <1>8 DEF CompleteIo
  \* Another pending transfer goes the other way, so it has the other event.
  <2>2. ASSUME NEW q \in IoProcs, io'[q] = "pending" PROVE ovev[q] # ovev[p]
    <3>1. q # p /\ io[q] = "pending" /\ io[p] = "pending"
      BY <1>8, <2>2 DEF CompleteIo
    <3>2. lk[dir[p]] = p /\ lk[dir[q]] = q
      BY <3>1
    <3>3. dir[p] # dir[q]
      BY <3>1, <3>2
    <3>4. ovev[p] = ev[dir[p]] /\ ovev[q] = ev[dir[q]] /\ ev["r"] # 0
      BY <3>1
    <3> QED BY <3>3, <3>4
  <2>3. PendingUnsignalled'
    BY <1>8, <2>2 DEF CompleteIo
  <2> QED BY <2>3, <2>4, <2>5
<1>9. ASSUME NEW p \in IoProcs, winovresult(p) PROVE FdIoIInv'
  <2>1. io[p] # "pending"
    BY <1>9 DEF winovresult
  <2>2. ~early'
    BY <1>9, <2>1, Zenon DEF winovresult
  <2> QED BY <1>9, <2>2 DEF winovresult
<1>10. ASSUME NEW p \in IoProcs, ResetEvent(p) PROVE FdIoIInv'
  BY <1>10 DEF ResetEvent
<1>11. ASSUME NEW p \in IoProcs, Qunlock(p) PROVE FdIoIInv'
  BY <1>11 DEF Qunlock
<1>12. CASE UNCHANGED iovars
  BY <1>12 DEF iovars
<1> QED BY <1>1, <1>2, <1>3, <1>4, <1>5, <1>6, <1>7, <1>8, <1>9, <1>10, <1>11, <1>12
        DEF FdIoNext, IoStep

-----------------------------------------------------------------------------
(* The theorems.                                                          *)

\* The inductive invariant holds in every state of every behaviour.
THEOREM FdIoInvariance == FdIoSpec => []FdIoIInv
BY FdIoInitInv, FdIoStepInv, PTL DEF FdIoSpec

\* However many procs read and write one Fd at a time, no call returns before
\* its own transfer has ended, and the Fd gets one pair of events, which all
\* of them use.
THEOREM FdIoCorrect == FdIoSpec => []TransfersApart
<1>1. FdIoIInv => TransfersApart
  BY DEF FdIoIInv, TransfersApart, EventsOnce, FdIoTypeOK, EventsCounted, EventsFound
<1> QED BY <1>1, FdIoInvariance, PTL
=============================================================================
