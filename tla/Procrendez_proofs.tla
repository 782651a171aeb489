------------------------- MODULE Procrendez_proofs -------------------------
(***************************************************************************)
(* Proofs about Procrendez, for any number of procs that wake the runner  *)
(* and any number of wake-ups, on Windows and on Linux.                   *)
(***************************************************************************)
EXTENDS Procrendez, TLAPS

-----------------------------------------------------------------------------
(* The inductive invariant.                                               *)

LockLabels == {"test", "lockinit", "look", "setup", "setinit", "leave", "enter"}
WakerLabels == {"idle", "add", "wake", "release", "unlock"} \cup LockLabels
RunnerLabels == {"unborn", "sched", "run", "sunlock", "wait", "cunlock", "cwait", "woken", "gone"}
                \cup LockLabels

\* Every variable has its type.
RendezTypeOK ==
    /\ os \in {"mingw", "linux"} /\ lkinit \in BOOLEAN
    /\ mutex \in [up : BOOLEAN, owner : Procs \cup {Nobody}]
    /\ initmutex \in Procs \cup {Nobody}
    /\ at \in [Procs -> [l : WakerLabels \cup RunnerLabels, k : {"idle", "add", "sched", "woken"}]]
    /\ asleep \in BOOLEAN /\ cond \in {"null", "open", "closed"} /\ sem \in {0, 1}
    /\ runq \in Nat /\ asked \in Nat /\ ready \in Nat /\ ran \in Nat

\* Wakers and the runner keep to their own code, and come back from the lock
\* to it; the ways to sleep of the two systems are not mixed.
Places ==
    /\ at[Runner].l \in RunnerLabels
    /\ at[Runner].l \in LockLabels => at[Runner].k \in {"sched", "woken"}
    /\ \A w \in Wakers : /\ at[w].l \in WakerLabels
                         /\ at[w].l \in LockLabels => at[w].k = "add"
    /\ at[Runner].l \in {"sunlock", "wait"} => os = "mingw"
    /\ at[Runner].l \in {"cunlock", "cwait"} => os = "linux"

\* Who is between EnterCriticalSection() and LeaveCriticalSection() of
\* initmutex holds it, the lock is set up before lk->init says so, and nobody
\* enters the lock, or sets it up again, at the wrong time.
LockSetUp ==
    /\ \A p \in Procs : at[p].l \in {"look", "setup", "setinit", "leave"} => initmutex = p
    /\ \A p \in Procs : at[p].l \in {"setup", "setinit"} => ~lkinit
    /\ \A p \in Procs : at[p].l = "setinit" => mutex.up
    /\ \A p \in Procs : at[p].l \in {"leave", "enter", "cwait"} => lkinit
    /\ lkinit => mutex.up
    /\ ~lkinit => mutex.owner = Nobody

\* Exactly the owner of the lock is in its section.
OwnerIsIn == \A p \in Procs : InSection(p) <=> mutex.owner = p

Sleeping == at[Runner].l \in {"sunlock", "wait", "cunlock", "cwait"}

\* If the runner sleeps while its queue is not empty, or while the flag is
\* clear, then the semaphore is released, or the one who is in the section is
\* about to do that.
SomebodyWakes ==
    /\ Sleeping /\ runq > 0 /\ sem = 0 =>
         /\ mutex.owner \in Wakers
         /\ \/ at[mutex.owner].l = "release"
            \/ at[mutex.owner].l = "wake" /\ asleep
    /\ Sleeping /\ ~asleep /\ sem = 0 =>
         mutex.owner \in Wakers /\ at[mutex.owner].l = "release"

\* A wake-up belongs to the sleep that is going on.
WakeupsMatch ==
    /\ asleep => cond = "open"
    /\ os = "mingw" /\ sem = 1 => at[Runner].l = "wait" /\ ~asleep
    /\ os = "mingw" /\ asleep => at[Runner].l \in {"sunlock", "wait"}
    /\ \A w \in Wakers : at[w].l = "release" =>
         /\ cond = "open" /\ ~asleep
         /\ os = "mingw" => at[Runner].l = "wait" /\ sem = 0

RendezIInv ==
    RendezTypeOK /\ Places /\ LockSetUp /\ OwnerIsIn /\ SomebodyWakes /\ WakeupsMatch

-----------------------------------------------------------------------------

USE NobodyAssumption, RunnerAssumption

\* The initial states satisfy the invariant.
LEMMA RendezInitInv == RendezInit => RendezIInv
<1> SUFFICES ASSUME RendezInit PROVE RendezIInv
  OBVIOUS
<1> USE DEF RendezInit, Procs, LockLabels, WakerLabels, RunnerLabels
<1>1. RendezTypeOK
  BY DEF RendezTypeOK
<1>2. Places
  BY DEF Places
<1>3. LockSetUp
  BY DEF LockSetUp
<1>4. OwnerIsIn
  BY DEF OwnerIsIn, InSection
<1>5. SomebodyWakes
  BY DEF SomebodyWakes, Sleeping
<1>6. WakeupsMatch
  BY DEF WakeupsMatch
<1> QED BY <1>1, <1>2, <1>3, <1>4, <1>5, <1>6 DEF RendezIInv

\* Every step keeps it.
LEMMA RendezStepInv == RendezIInv /\ [RendezNext]_rvars => RendezIInv'
<1> SUFFICES ASSUME RendezIInv, [RendezNext]_rvars PROVE RendezIInv'
  OBVIOUS
<1> USE DEF RendezIInv, RendezTypeOK, Places, LockSetUp, OwnerIsIn, SomebodyWakes, WakeupsMatch,
            Sleeping, InSection, Procs, LockLabels, WakerLabels, RunnerLabels,
            lockvars, rendezvars, queuevars, To, Lock, Unlock
<1>1. ASSUME NEW p \in Procs, Test(p) PROVE RendezIInv'
  BY <1>1 DEF Test
<1>2. ASSUME NEW p \in Procs, EnterInit(p) PROVE RendezIInv'
  BY <1>2 DEF EnterInit
<1>3. ASSUME NEW p \in Procs, LookAgain(p) PROVE RendezIInv'
  BY <1>3 DEF LookAgain, SomebodyWasFaster
<1>4. ASSUME NEW p \in Procs, SetUp(p) PROVE RendezIInv'
  BY <1>4 DEF SetUp
<1>5. ASSUME NEW p \in Procs, SetInit(p) PROVE RendezIInv'
  BY <1>5 DEF SetInit
<1>6. ASSUME NEW p \in Procs, LeaveInit(p) PROVE RendezIInv'
  BY <1>6 DEF LeaveInit
<1>7. ASSUME NEW p \in Procs, Enter(p) PROVE RendezIInv'
  BY <1>7 DEF Enter
<1>8. ASSUME NEW w \in Wakers, procstart(w) PROVE RendezIInv'
  BY <1>8 DEF procstart
<1>9. ASSUME NEW w \in Wakers, Add(w) PROVE RendezIInv'
  BY <1>9 DEF Add
<1>10. ASSUME NEW w \in Wakers, procwakeup(w) PROVE RendezIInv'
  <2>1. RendezTypeOK'
    <3>1. asleep' \in BOOLEAN
      BY <1>10, Zenon DEF procwakeup, Awake
    <3> QED BY <1>10, <3>1 DEF procwakeup
  <2>2. Places'
    BY <1>10 DEF procwakeup, Awake
  <2>3. LockSetUp'
    BY <1>10 DEF procwakeup, Awake
  <2>4. OwnerIsIn'
    BY <1>10 DEF procwakeup, Awake
  <2>5. SomebodyWakes'
    BY <1>10 DEF procwakeup, Awake
  <2>6. WakeupsMatch'
    BY <1>10 DEF procwakeup, Awake
  <2> QED BY <2>1, <2>2, <2>3, <2>4, <2>5, <2>6
<1>11. ASSUME NEW w \in Wakers, Release(w) PROVE RendezIInv'
  BY <1>11 DEF Release, Released
<1>12. ASSUME NEW w \in Wakers, WakerUnlocks(w) PROVE RendezIInv'
  BY <1>12 DEF WakerUnlocks
<1>13. ASSUME NEW w \in Wakers, Ready(w) PROVE RendezIInv'
  BY <1>13 DEF Ready
<1>14. ASSUME NEW w \in Wakers, TryFails(w) PROVE RendezIInv'
  BY <1>14 DEF TryFails
<1>15. CASE Take
  BY <1>15 DEF Take
<1>16. CASE Ran
  BY <1>16 DEF Ran
<1>17. CASE procsleep
  BY <1>17 DEF procsleep, SaysItSleeps
<1>18. CASE SleepUnlocks
  BY <1>18 DEF SleepUnlocks
<1>19. CASE WaitForSemaphore
  BY <1>19 DEF WaitForSemaphore
<1>20. CASE CondWait
  BY <1>20 DEF CondWait
<1>21. CASE Woken
  <2>1. RendezTypeOK'
    <3>1. asleep' \in BOOLEAN
      BY <1>21, Zenon DEF Woken
    <3>2. cond' \in {"null", "open", "closed"} /\ sem' \in {0, 1}
      BY <1>21 DEF Woken
    <3>3. at' \in [Procs -> [l : WakerLabels \cup RunnerLabels, k : {"idle", "add", "sched", "woken"}]]
      BY <1>21 DEF Woken
    <3> QED BY <1>21, <3>1, <3>2, <3>3 DEF Woken
  <2>2. Places'
    BY <1>21 DEF Woken
  <2>3. LockSetUp'
    BY <1>21 DEF Woken
  <2>4. OwnerIsIn'
    BY <1>21 DEF Woken
  <2>5. SomebodyWakes'
    BY <1>21 DEF Woken
  <2>6. WakeupsMatch'
    BY <1>21 DEF Woken
  <2> QED BY <2>1, <2>2, <2>3, <2>4, <2>5, <2>6
<1>22. CASE ProcEnds
  BY <1>22 DEF ProcEnds
<1>23. CASE CondReturns
  BY <1>23 DEF CondReturns
<1>24. CASE UNCHANGED rvars
  BY <1>24 DEF rvars
<1> QED
  BY <1>1, <1>2, <1>3, <1>4, <1>5, <1>6, <1>7, <1>8, <1>9, <1>10, <1>11, <1>12,
     <1>13, <1>14, <1>15, <1>16, <1>17, <1>18, <1>19, <1>20, <1>21, <1>22, <1>23, <1>24
  DEF RendezNext, LockStep, WakerStep, RunnerStep

-----------------------------------------------------------------------------
(* The theorems.                                                          *)

\* The inductive invariant holds in every state of every behaviour.
THEOREM RendezInvariance == RendezSpec => []RendezIInv
BY RendezInitInv, RendezStepInv, PTL DEF RendezSpec

\* The lock of libthread/mingw.c excludes from its first use on, no wake-up is
\* lost between unlock() and the wait of _procsleep(), and none is left over
\* for a later sleep: for any number of procs.
THEOREM RendezCorrect == RendezSpec => []RendezOK
<1>1. RendezIInv => RendezOK
  <2> SUFFICES ASSUME RendezIInv PROVE RendezOK
    OBVIOUS
  <2> USE DEF RendezIInv, RendezTypeOK, Procs
  <2>1. LockExcludes
    BY DEF LockExcludes, OwnerIsIn, LockSetUp
  <2>2. NoLostWakeup
    BY DEF NoLostWakeup, SomebodyWakes, Sleeping
  <2>3. OneWakeupPerSleep
    BY DEF OneWakeupPerSleep, WakeupsMatch
  <2> QED BY <2>1, <2>2, <2>3 DEF RendezOK
<1> QED BY <1>1, RendezInvariance, PTL
=============================================================================
