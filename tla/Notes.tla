-------------------------------- MODULE Notes --------------------------------
(***************************************************************************)
(* Notes on Windows (lib9/mingw/notify.c): Plan 9 notes on top of the     *)
(* signals of the C library, whose delivery sets the handler of a signal  *)
(* back to SIG_DFL and may happen in a thread of its own, hence between   *)
(* any two steps of notify() and noteinit().  One note is handled at a    *)
(* time, since noted() jumps through the single onejmp.                   *)
(***************************************************************************)
EXTENDS Naturals, Sequences

CONSTANTS
    Sigs,       \* the table sigs[], a sequence of signals
    Unlisted    \* signals that the program knows, but that are not in sigs[]

ASSUME SigsAssumption == Sigs \in Seq({Sigs[i] : i \in DOMAIN Sigs})

VARIABLES
    handler,    \* what signal() has installed
    notifyf,    \* is a Plan 9 handler set?
    npc,        \* "run", or a step of noteinit(): "probe", "restore", "install"
    nsig,       \* its loop index
    saved,      \* the handler that handler() has read
    inited,     \* the static init of notify()
    note,       \* the signal whose handler runs, and how far it is
    alive,      \* the process has not been ended by a signal
    on, off,    \* signals that are to be notified; that are to be ignored
    wrong       \* the Plan 9 handler was called for an ignored signal

nvars == <<handler, notifyf, npc, nsig, saved, inited, note, alive, on, off, wrong>>

NoNote == [sig |-> "none", at |-> "none"]
Signals == {Sigs[i] : i \in DOMAIN Sigs} \cup Unlisted

\* Somebody may have installed a handler before the program's main() runs.
NotesInit ==
    /\ handler \in [Signals -> {"dfl", "other"}]
    /\ notifyf = FALSE /\ npc = "run" /\ nsig = 1 /\ saved = "dfl" /\ inited = FALSE
    /\ note = NoNote /\ alive = TRUE
    /\ on = {} /\ off = {} /\ wrong = FALSE

Live == alive /\ npc = "run"

\* notify(f), with f nil or not.
Notify(f) ==
    /\ Live
    /\ notifyf' = f
    /\ inited' = TRUE
    /\ npc' = IF inited THEN "run" ELSE "probe"
    /\ nsig' = 1
    /\ UNCHANGED <<handler, saved, note, alive, on, off, wrong>>

\* handler(): the only way to read the handler is to replace it.
Probe == /\ alive /\ npc = "probe" /\ nsig <= Len(Sigs)
         /\ saved' = handler[Sigs[nsig]]
         /\ handler' = [handler EXCEPT ![Sigs[nsig]] = "dfl"]
         /\ npc' = "restore"
         /\ UNCHANGED <<notifyf, nsig, inited, note, alive, on, off, wrong>>

\* noteinit() leaves a handler alone that somebody has installed.
LeftAlone(h) == h # "dfl"

Restore == /\ alive /\ npc = "restore"
           /\ handler' = [handler EXCEPT ![Sigs[nsig]] = saved]
           /\ IF LeftAlone(saved)
              THEN npc' = "probe" /\ nsig' = nsig + 1
              ELSE npc' = "install" /\ UNCHANGED nsig
           /\ UNCHANGED <<notifyf, saved, inited, note, alive, on, off, wrong>>

Install == /\ alive /\ npc = "install"
           /\ handler' = [handler EXCEPT ![Sigs[nsig]] = "notify"]
           /\ on' = on \cup {Sigs[nsig]}
           /\ npc' = "probe" /\ nsig' = nsig + 1
           /\ UNCHANGED <<notifyf, saved, inited, note, alive, off, wrong>>

NoteinitDone == /\ alive /\ npc = "probe" /\ nsig > Len(Sigs)
                /\ npc' = "run" /\ nsig' = 1 /\ saved' = "dfl"
                /\ UNCHANGED <<handler, notifyf, inited, note, alive, on, off, wrong>>

\* notifyon() and notifyoff(); a signal that is not in sigs[] is refused.
findsig(s) == \E i \in DOMAIN Sigs : Sigs[i] = s

Reinstalling(s) == note.at = "entry" /\ note.sig = s

notifyseton(s, isOn) ==
    /\ Live /\ findsig(s)
    /\ handler' = [handler EXCEPT ![s] = IF isOn THEN "notify" ELSE "nonotify"]
    /\ on' = IF isOn THEN on \cup {s} ELSE on \ {s}
    /\ off' = IF isOn \/ Reinstalling(s) THEN off \ {s} ELSE off \cup {s}
    /\ UNCHANGED <<notifyf, npc, nsig, saved, inited, note, alive, wrong>>

\* The C library delivers a signal (CTRL_BREAK, too: ctrlhandler() raises
\* SIGINT).  signonotify() returns at once, with the handler used up.
Deliver(s) ==
    /\ alive /\ note = NoNote
    /\ alive' = (handler[s] # "dfl")
    /\ handler' = [handler EXCEPT ![s] = "dfl"]
    /\ note' = IF handler[s] = "notify" THEN [sig |-> s, at |-> "entry"] ELSE note
    /\ off' = off \ {s}
    /\ on' = IF handler[s] = "notify" THEN on ELSE on \ {s}
    /\ wrong' = (wrong \/ (handler[s] = "notify" /\ s \in off))
    /\ UNCHANGED <<notifyf, npc, nsig, saved, inited>>

\* signotify() installs itself again before it does anything else.
LeavesDefault == "dfl"
Reinstalled == "notify"

signotify == /\ alive /\ note.at = "entry"
             /\ handler' = [handler EXCEPT ![note.sig] = Reinstalled]
             /\ note' = [note EXCEPT !.at = "call"]
             /\ UNCHANGED <<notifyf, npc, nsig, saved, inited, alive, on, off, wrong>>

\* notifyf calls noted(NCONT).
Continue == /\ alive /\ note.at = "call" /\ notifyf
            /\ note' = NoNote
            /\ UNCHANGED <<handler, notifyf, npc, nsig, saved, inited, alive, on, off, wrong>>

\* It calls noted(NDFLT), or returns, or there is none.
Default == /\ alive /\ note.at = "call"
           /\ handler' = [handler EXCEPT ![note.sig] = "dfl"]
           /\ alive' = FALSE
           /\ UNCHANGED <<notifyf, npc, nsig, saved, inited, note, on, off, wrong>>

NotesNext ==
    \/ \E f \in BOOLEAN : Notify(f)
    \/ Probe \/ Restore \/ Install \/ NoteinitDone
    \/ \E s \in Signals, isOn \in BOOLEAN : notifyseton(s, isOn)
    \/ \E s \in Signals : Deliver(s)
    \/ signotify \/ Continue \/ Default

NotesSpec == NotesInit /\ [][NotesNext]_nvars

\* A note that was turned off, before or after the first notify(), does not
\* reach the Plan 9 handler; turning it off serves for one delivery, which
\* the C library follows with SIG_DFL.
OffIsOff == ~wrong

\* A note that is on stays on, however many have been handled: the handler
\* that the delivery has removed is back before the Plan 9 handler runs, and
\* a concurrent noteinit() does not take it away for good.
OnStaysOn == \A s \in on :
    alive /\ npc = "run" /\ ~Reinstalling(s) => handler[s] = "notify"

\* A note that is on stays on over its deliveries, and one that is off is left
\* alone.
NotesOK == OffIsOff /\ OnStaysOn
=============================================================================
