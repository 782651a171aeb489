----------------------------- MODULE Procrendez -----------------------------
(***************************************************************************)
(* How a proc of libthread waits for threads to run, and how other procs  *)
(* wake it (libthread/mingw.c and libthread/linux.c).  The proc Runner    *)
(* looks into its run queue with its lock held and calls _procsleep()     *)
(* when the queue is empty; the others put threads into the queue and     *)
(* call _procwakeupandunlock().  The scheduler itself is plan9port's      *)
(* thread.c, which is not in this repository.                             *)
(*                                                                        *)
(* On Windows the lock is a critical section set up by the first one who  *)
(* needs it, and the rendezvous a semaphore; on Linux they are a mutex    *)
(* and a condition variable, whose waiter may also return without cause.  *)
(* Which of the two it is, is chosen in the initial state.                *)
(***************************************************************************)
EXTENDS Naturals, FiniteSets

CONSTANTS
    Runner,     \* the proc with the run queue
    Wakers,     \* the procs that make its threads ready
    MaxReady    \* bound: how often a waker asks for the lock

ASSUME RunnerAssumption == Runner \notin Wakers
ASSUME MaxReadyAssumption == MaxReady \in Nat

VARIABLES
    os,         \* "mingw" or "linux"
    lkinit,     \* lk->init of the lock of Runner
    mutex,      \* its critical section: set up?, and who is in it
    initmutex,  \* who is in the critical section initmutex
    at,         \* where a proc is: l, and k, where it goes on with the lock
    asleep,     \* r->asleep
    cond,       \* r->cond: "null", "open" or "closed"
    sem,        \* the count of the semaphore, or 1 if the condition variable
                \* has been signalled since the wait began
    runq,       \* length of the run queue
    asked,      \* calls made by the wakers so far
    ready,      \* threads they have made ready so far
    ran         \* threads Runner has run

rvars == <<os, lkinit, mutex, initmutex, at, asleep, cond, sem, runq, asked, ready, ran>>
lockvars == <<lkinit, mutex, initmutex>>
rendezvars == <<asleep, cond, sem>>
queuevars == <<runq, asked, ready, ran>>

Procs == Wakers \cup {Runner}
Nobody == "nobody"
ASSUME NobodyAssumption == Nobody \notin Procs

RendezInit ==
    /\ os \in {"mingw", "linux"}
    /\ lkinit = FALSE
    /\ mutex = [up |-> FALSE, owner |-> Nobody]
    /\ initmutex = Nobody
    /\ at = [p \in Procs |-> [l |-> IF p = Runner THEN "unborn" ELSE "idle", k |-> "idle"]]
    /\ asleep = FALSE /\ cond = "null" /\ sem = 0
    /\ runq = 0 /\ asked = 0 /\ ready = 0 /\ ran = 0

To(p, l) == at' = [at EXCEPT ![p].l = l]
Lock(p, k) == at' = [at EXCEPT ![p] = [l |-> "test", k |-> k]]

-----------------------------------------------------------------------------
(* _threadlock(), lockinit() and _threadunlock().                         *)

\* lk->init is read outside initmutex.
Test(p) == /\ at[p].l = "test"
           /\ To(p, IF lkinit THEN "enter" ELSE "lockinit")
           /\ UNCHANGED <<os, lockvars, rendezvars, queuevars>>

EnterInit(p) == /\ at[p].l = "lockinit" /\ initmutex = Nobody
                /\ initmutex' = p
                /\ To(p, "look")
                /\ UNCHANGED <<os, lkinit, mutex, rendezvars, queuevars>>

\* The second look, in initmutex.
NeverLooks == FALSE
SomebodyWasFaster == lkinit

LookAgain(p) == /\ at[p].l = "look"
                /\ To(p, IF SomebodyWasFaster THEN "leave" ELSE "setup")
                /\ UNCHANGED <<os, lockvars, rendezvars, queuevars>>

SetUp(p) == /\ at[p].l = "setup"
            /\ mutex' = [up |-> TRUE, owner |-> Nobody]
            /\ To(p, "setinit")
            /\ UNCHANGED <<os, lkinit, initmutex, rendezvars, queuevars>>

SetInit(p) == /\ at[p].l = "setinit"
              /\ lkinit' = TRUE
              /\ To(p, "leave")
              /\ UNCHANGED <<os, mutex, initmutex, rendezvars, queuevars>>

LeaveInit(p) == /\ at[p].l = "leave"
                /\ initmutex' = Nobody
                /\ To(p, "enter")
                /\ UNCHANGED <<os, lkinit, mutex, rendezvars, queuevars>>

\* lock()
Enter(p) == /\ at[p].l = "enter"
            /\ mutex.owner = Nobody
            /\ mutex' = [mutex EXCEPT !.owner = p]
            /\ To(p, at[p].k)
            /\ UNCHANGED <<os, lkinit, initmutex, rendezvars, queuevars>>

\* canlock(), which only the wakers use, and which has found the lock held.
TryFails(p) == /\ at[p].l = "enter" /\ at[p].k = "add"
               /\ mutex.owner # Nobody
               /\ To(p, "idle")
               /\ UNCHANGED <<os, lockvars, rendezvars, queuevars>>

Unlock(p, l) == mutex' = [mutex EXCEPT !.owner = Nobody] /\ To(p, l)

-----------------------------------------------------------------------------
(* The wakers: _threadready() of thread.c, then _procwakeupandunlock().   *)

\* proccreate(): the proc starts after its first thread was created.
procstart(w) == /\ at[w].l = "idle" /\ at[Runner].l = "unborn" /\ ready > 0
                /\ at' = [at EXCEPT ![Runner] = [l |-> "test", k |-> "sched"]]
                /\ UNCHANGED <<os, lockvars, rendezvars, queuevars>>

Ready(w) == /\ at[w].l = "idle" /\ asked < MaxReady
            /\ asked' = asked + 1
            /\ Lock(w, "add")
            /\ UNCHANGED <<os, lockvars, rendezvars, runq, ready, ran>>

Add(w) == /\ at[w].l = "add"
          /\ runq' = runq + 1 /\ ready' = ready + 1
          /\ To(w, "wake")
          /\ UNCHANGED <<os, lockvars, rendezvars, asked, ran>>

\* The flag that decides whether there is anybody to wake.
Awake == FALSE

procwakeup(w) == /\ at[w].l = "wake"
                 /\ asleep' = IF asleep THEN Awake ELSE asleep
                 /\ To(w, IF asleep THEN "release" ELSE "unlock")
                 /\ UNCHANGED <<os, lockvars, cond, sem, queuevars>>

\* ReleaseSemaphore() of a semaphore whose limit is 1; or
\* pthread_cond_signal(), which is lost if nobody waits.
Released == IF os = "linux" /\ at[Runner].l # "cwait" THEN sem ELSE 1

Release(w) == /\ at[w].l = "release"
              /\ sem' = Released
              /\ To(w, "unlock")
              /\ UNCHANGED <<os, lockvars, asleep, cond, queuevars>>

WakerUnlocks(w) == /\ at[w].l = "unlock"
                   /\ Unlock(w, "idle")
                   /\ UNCHANGED <<os, lkinit, initmutex, rendezvars, queuevars>>

-----------------------------------------------------------------------------
(* The runner: the loop of thread.c's scheduler, with _procsleep().       *)

Take == /\ at[Runner].l = "sched" /\ runq > 0
        /\ runq' = runq - 1 /\ ran' = ran + 1
        /\ Unlock(Runner, "run")
        /\ UNCHANGED <<os, lkinit, initmutex, rendezvars, asked, ready>>

Ran == /\ at[Runner].l = "run"
       /\ Lock(Runner, "sched")
       /\ UNCHANGED <<os, lockvars, rendezvars, queuevars>>

\* The run queue is empty: _procsleep() makes sure of its semaphore, or
\* initialises its condition variable, and says that it sleeps.
OnlyTheFirstTime == asleep \/ cond = "null"
SaysItSleeps == TRUE

procsleep ==
    /\ at[Runner].l = "sched" /\ runq = 0
    /\ cond' = "open"
    /\ asleep' = SaysItSleeps
    /\ sem' = IF os = "linux" THEN 0 ELSE sem
    /\ To(Runner, IF os = "mingw" THEN "sunlock" ELSE "cunlock")
    /\ UNCHANGED <<os, lockvars, queuevars>>

SleepUnlocks == /\ at[Runner].l = "sunlock"
                /\ Unlock(Runner, "wait")
                /\ UNCHANGED <<os, lkinit, initmutex, rendezvars, queuevars>>

WaitForSemaphore == /\ at[Runner].l = "wait" /\ sem = 1
                    /\ sem' = 0
                    /\ Lock(Runner, "woken")
                    /\ UNCHANGED <<os, lockvars, asleep, cond, queuevars>>

\* pthread_cond_wait(): waits and unlocks in one step ...
CondWait == /\ at[Runner].l = "cunlock"
            /\ Unlock(Runner, "cwait")
            /\ UNCHANGED <<os, lkinit, initmutex, rendezvars, queuevars>>

\* ... and enters the mutex again when signalled, or without cause.
CondReturns == /\ at[Runner].l = "cwait"
               /\ at' = [at EXCEPT ![Runner] = [l |-> "enter", k |-> "woken"]]
               /\ UNCHANGED <<os, lockvars, rendezvars, queuevars>>

Woken == /\ at[Runner].l = "woken"
         /\ asleep' = FALSE
         /\ cond' = IF os = "linux" THEN "closed" ELSE cond
         /\ sem' = IF os = "linux" THEN 0 ELSE sem
         /\ To(Runner, "sched")
         /\ UNCHANGED <<os, lockvars, queuevars>>

\* startprocfn(): the last thread has ended; the queue is looked at no more.
ProcEnds == /\ at[Runner].l = "run" /\ ran = MaxReady
            /\ cond' = IF os = "mingw" /\ cond = "open" THEN "closed" ELSE cond
            /\ To(Runner, "gone")
            /\ UNCHANGED <<os, lockvars, asleep, sem, queuevars>>

-----------------------------------------------------------------------------
LockStep(p) == \/ Test(p) \/ EnterInit(p) \/ LookAgain(p) \/ SetUp(p) \/ SetInit(p)
               \/ LeaveInit(p) \/ Enter(p)
WakerStep(w) == \/ procstart(w) \/ Add(w) \/ procwakeup(w) \/ Release(w) \/ WakerUnlocks(w)
RunnerStep == \/ Take \/ Ran \/ procsleep \/ SleepUnlocks \/ WaitForSemaphore
              \/ CondWait \/ Woken \/ ProcEnds

RendezNext == \/ \E p \in Procs : LockStep(p)
              \/ \E w \in Wakers : WakerStep(w) \/ Ready(w) \/ TryFails(w)
              \/ RunnerStep
              \/ CondReturns

\* A proc that can go on does.  A return of pthread_cond_wait() is only due
\* when the condition has been signalled.
SignalledReturn == CondReturns /\ sem = 1
RendezFairness == /\ \A p \in Procs : WF_rvars(LockStep(p))
                  /\ \A w \in Wakers : WF_rvars(WakerStep(w))
                  /\ WF_rvars(RunnerStep)
                  /\ WF_rvars(SignalledReturn)

RendezSpec == RendezInit /\ [][RendezNext]_rvars /\ RendezFairness

-----------------------------------------------------------------------------
(* Properties.                                                            *)

InSection(p) == at[p].l \in {"add", "wake", "release", "unlock", "sched", "sunlock", "cunlock", "woken"}

\* Whoever is between lock() and unlock() is there alone, although lk->init
\* is tested without initmutex: the critical section is set up once only,
\* before anybody enters it.
LockExcludes ==
    /\ \A p, q \in Procs : InSection(p) /\ InSection(q) => p = q
    /\ \A p \in Procs : InSection(p) => mutex.up /\ mutex.owner = p

\* No wake-up is lost between unlock() and the wait of _procsleep(): with a
\* thread in the queue and nobody in the section who will still see to it, a
\* waiting runner has its semaphore released or its condition signalled.
NoLostWakeup ==
    (at[Runner].l \in {"wait", "cwait"} /\ runq > 0 /\ mutex.owner = Nobody) => sem = 1

\* A wake-up is meant for one sleep: when _procsleep() begins, the semaphore
\* is not left over from an earlier one, and the one who releases it finds it
\* at 0 and open.
OneWakeupPerSleep ==
    /\ (os = "mingw" /\ at[Runner].l \in {"sched", "run"}) => sem = 0
    /\ \A w \in Wakers : at[w].l = "release" =>
           cond = "open" /\ (os = "mingw" => sem = 0)

\* The lock excludes from its first use on, no wake-up is lost, and none is
\* left over for a later sleep.
RendezOK == LockExcludes /\ NoLostWakeup /\ OneWakeupPerSleep

\* Every thread that was made ready is run: the proc does not sleep through it.
EveryReadyRuns == \A n \in 1..MaxReady : (ready >= n) ~> (ran >= n)
=============================================================================
