------------------------------ MODULE MCProcs ------------------------------
(***************************************************************************)
(* Instances for TLC of the components whose liveness is checked with     *)
(* their safety: the table of children, the procs of libthread,           *)
(* overlapped transfers and rc's waiting.  They share no state: a         *)
(* behaviour is one of one component, the one that "which" names, and the *)
(* others stay as they begin.                                             *)
(***************************************************************************)
EXTENDS ChildTab, Procrendez, FdIo, Rc

CONSTANTS t1, t2, p1, p2, p3

VARIABLE which

MCThreads == {t1, t2}
MCSpawners == {t1}
MCWaiters == {t2}
MCPids == {p1, p2, p3}

Parts == {"child", "rendez", "fdio", "rc"}

\* Only the component that runs begins in each of its initial states.
ProcsInit ==
    /\ which \in Parts
    /\ Init /\ RendezInit /\ FdIoInit /\ RcInit
    /\ which # "rendez" => os = "linux"
    /\ which # "fdio" => fdtype = "pipe"

ProcsNext ==
    /\ UNCHANGED which
    /\ \/ which = "child" /\ Next /\ UNCHANGED <<rvars, iovars, rcvars>>
       \/ which = "rendez" /\ RendezNext /\ UNCHANGED <<vars, iovars, rcvars>>
       \/ which = "fdio" /\ FdIoNext /\ UNCHANGED <<vars, rvars, rcvars>>
       \/ which = "rc" /\ RcNext /\ UNCHANGED <<vars, rvars, iovars>>

\* Fairness, RendezFairness, FdIoFairness and RcFairness, each for the
\* behaviours of its component.
ProcsSpec ==
    /\ ProcsInit
    /\ [][ProcsNext]_<<which, vars, rvars, iovars, rcvars>>
    /\ \A t \in Threads :
          WF_vars(which = "child" /\ Adds(t)) /\ WF_vars(which = "child" /\ Collects(t))
    /\ \A t \in Waiters :
          SF_vars(which = "child" /\ Await(t)) /\ SF_vars(which = "child" /\ WaitMany(t))
    /\ \A p \in Pids : WF_vars(which = "child" /\ Exit(p))
    /\ \A p \in Procs : WF_rvars(which = "rendez" /\ LockStep(p))
    /\ \A w \in Wakers : WF_rvars(which = "rendez" /\ WakerStep(w))
    /\ WF_rvars(which = "rendez" /\ RunnerStep)
    /\ WF_rvars(which = "rendez" /\ SignalledReturn)
    /\ \A p \in IoProcs : WF_iovars(which = "fdio" /\ IoStep(p))
    /\ WF_rcvars(which = "rc" /\ RcStep)
    /\ \A p \in RcPids : WF_rcvars(which = "rc" /\ \E code \in Codes : KidEnds(p, code))

\* Whatever a proc waits for comes: the report of a child (await()), the run of
\* a thread made ready (_procsleep()), the end of a transfer (winovresult()),
\* the end of a command of rc (Waitfor(), Xbackq()).
EveryWaitEnds == EveryChildReported /\ EveryReadyRuns /\ EveryTransferEnds /\ EveryCommandEnds
=============================================================================
