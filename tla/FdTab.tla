------------------------------- MODULE FdTab -------------------------------
(***************************************************************************)
(* The descriptor table of lib9/mingw (fdtab.c) and the calls that work   *)
(* on it: open, create, pipe, dial, announce, listen and recvfd allocate  *)
(* an Fd structure and a slot for it, dup shares it, close, sendfd and    *)
(* the exit handler drop it.  Threads are the procs of a program; the     *)
(* table is shared by all of them.                                        *)
(*                                                                        *)
(* Each section that fdtab.c runs under the QLock lk is one step.  What   *)
(* it does without the lock, fdtget's look into the table before every    *)
(* operation, the filling of a fresh Fd by open, and releasef, are steps  *)
(* of their own, so other threads act in between.                         *)
(***************************************************************************)
EXTENDS Integers, FiniteSets

CONSTANTS
    Threads,    \* procs
    Main,       \* the proc that calls exits()
    Allocators, \* procs that open, create, dup, ...
    Fds,        \* addresses of Fd structures (bound on the heap)
    Nil,        \* nil
    MaxFd,      \* bound: the highest descriptor number used
    Chunk,      \* fdtabsz grows in steps of this size (32 in need())
    Kinds,      \* the types of Fd that open() and its like produce
    Calls,      \* the calls on descriptors that the programs make
    SelfDup,    \* TRUE: callers may dup a number onto itself
    Quiet       \* TRUE: no other proc is active any more when Main exits

\* The Fdtype... constants of fdtab.h.
Types == {"none", "sock", "pipecl", "pipesrv", "file", "std", "cons", "dir", "null"}
Pipes == {"pipecl", "pipesrv"}

\* The types of the Fds that the calls leave in the table when they succeed.
OpenKinds     == {"null", "pipecl", "dir", "cons", "file"}
CreateKinds   == {"null", "cons", "file"}
PipeKinds     == {"pipecl", "pipesrv"}
DialKinds     == {"sock", "pipecl"} \cup OpenKinds
AnnounceKinds == {"sock", "none"}
ListenKinds   == {"sock", "pipesrv"}
RecvfdKinds   == {"pipecl"}

\* The types for which releasef() closes an OS handle.
Closed == {"pipesrv", "file", "cons", "pipecl", "sock", "dir"}

Slots == 0..MaxFd

ASSUME ThreadsAssumption == Main \in Threads /\ Allocators \subseteq Threads
ASSUME SlotsAssumption == MaxFd \in Nat /\ MaxFd >= 2
ASSUME ChunkAssumption == Chunk \in Nat \ {0}
ASSUME NilAssumption == Nil \notin Fds
ASSUME KindsAssumption ==
    Kinds \subseteq UNION {OpenKinds, CreateKinds, PipeKinds, DialKinds, AnnounceKinds,
                          ListenKinds, RecvfdKinds}
ASSUME FlagsAssumption == SelfDup \in BOOLEAN /\ Quiet \in BOOLEAN

VARIABLES
    fdtab,      \* Fd *fdtab[]
    fdtabsz,    \* its size
    nfd,        \* the number of slots in use
    live,       \* the Fd structures that are allocated
    users,      \* f->users
    type,       \* f->type
    h,          \* the OS handle of f: nil (none), open, or sent away
    evs,        \* event pairs created for f (f->ev)
    hooked,     \* the Fds with an onclose hook
    held,       \* the descriptor numbers that belong to each thread
    ci,         \* the index of cleanup()'s loop, -1 before exits()
    pc,         \* where a thread is
    loc         \* its call: operation, arguments fd (oldfd), newfd and
                \* closehandle, the Fd from fdtget(), the type to release

tabvars == <<fdtab, fdtabsz, nfd>>
fdvars  == <<live, users, type, h, evs, hooked>>
vars    == <<tabvars, fdvars, held, ci, pc, loc>>

Occupied == {i \in Slots : fdtab[i] # Nil}
Refs(f)  == {i \in Slots : fdtab[i] = f}

NoCall == [op |-> "none", fd |-> 0, new |-> 0, closeh |-> TRUE, f |-> Nil, type |-> "none"]

Goto(t, l) == pc' = [pc EXCEPT ![t] = l]

\* The call of t returns; cleanup() goes on with its loop.
Return(t) == /\ Goto(t, IF t = Main /\ ci # -1 THEN "cleanup" ELSE "idle")
             /\ loc' = [loc EXCEPT ![t] = NoCall]

-----------------------------------------------------------------------------
(* fdtabinit(): three standard descriptors, one Fd each.                  *)

Init ==
    /\ \E f0, f1, f2 \in Fds :
        /\ f0 # f1 /\ f1 # f2 /\ f0 # f2
        /\ fdtab = [i \in Slots |-> CASE i = 0 -> f0 [] i = 1 -> f1
                                      [] i = 2 -> f2 [] OTHER -> Nil]
        /\ live = {f0, f1, f2}
        /\ \E ty \in {"std", "cons"} :
            /\ type = [f \in Fds |-> IF f \in {f0, f1, f2} THEN ty ELSE "none"]
            /\ h = [f \in Fds |-> IF f \in {f0, f1, f2} /\ ty = "cons" THEN "open" ELSE "nil"]
        /\ users = [f \in Fds |-> IF f \in {f0, f1, f2} THEN 1 ELSE 0]
    /\ \E k \in 0..3 : fdtabsz = Chunk * k /\ fdtabsz >= 3 /\ fdtabsz - Chunk < 3
    /\ nfd = 3
    /\ evs = [f \in Fds |-> 0]
    /\ hooked = {}
    /\ held = [t \in Threads |-> IF t = Main THEN {0, 1, 2} ELSE {}]
    /\ ci = -1
    /\ pc = [t \in Threads |-> "idle"]
    /\ loc = [t \in Threads |-> NoCall]

-----------------------------------------------------------------------------
(* The sections under the lock.                                           *)

\* need(n): grow the table chunk by chunk until it has n slots.
need(n) == \E k \in 0..(MaxFd + 1) : /\ fdtabsz' = fdtabsz + Chunk * k
                                     /\ n <= fdtabsz'
                                     /\ k > 0 => fdtabsz' - Chunk < n

\* The slot fdtalloc() takes: the first nil one of the first nfd, else
\* slot nfd, into which it does not look.
AlwaysLast(i) == i = nfd
AnyFree(i) == i \in 0..nfd /\ (i < nfd => fdtab[i] = Nil)
FreeSlot(i) == /\ i \in 0..nfd
               /\ \A j \in 0..(i-1) : fdtab[j] # Nil
               /\ i < nfd => fdtab[i] = Nil

\* fdtalloc(): slot i now refers to f, and thread t has a new number.
fdtalloc(t, i, f) == /\ FreeSlot(i)
                     /\ need(nfd + 1)
                     /\ fdtab' = [fdtab EXCEPT ![i] = f]
                     /\ nfd' = nfd + 1
                     /\ held' = [held EXCEPT ![t] = @ \cup {i}]

\* Bound: a call that needs a slot starts only when there is one for it.
Room == nfd + Cardinality({t \in Threads : loc[t].op \in {"dup", "dup2"}}) <= MaxFd

\* open(), create(), pipe(), dial(), ...: fdtalloc(nil), a fresh zeroed Fd.
Open(t, i, f) ==
    /\ pc[t] = "idle" /\ t \in Allocators /\ Room /\ (Quiet => ci = -1)
    /\ f \in Fds \ live
    /\ fdtalloc(t, i, f)
    /\ live' = live \cup {f}
    /\ users' = [users EXCEPT ![f] = 1]
    /\ type' = [type EXCEPT ![f] = "none"]
    /\ h' = [h EXCEPT ![f] = "nil"]
    /\ loc' = [loc EXCEPT ![t] = [NoCall EXCEPT !.op = "open", !.fd = i]]
    /\ Goto(t, "fill")
    /\ UNCHANGED <<evs, hooked, ci>>

\* The new Fd, found again through the table without the lock, gets its
\* type and its handle.
Fill(t, ty) ==
    /\ pc[t] = "fill"
    /\ LET f == fdtab[loc[t].fd] IN
        /\ f # Nil
        /\ type' = [type EXCEPT ![f] = ty]
        /\ h' = [h EXCEPT ![f] = IF ty \in Closed THEN "open" ELSE "nil"]
    /\ Return(t)
    /\ UNCHANGED <<tabvars, live, users, evs, hooked, held, ci>>

\* open() or create() fails after fdtalloc(): the number is closed again.
\* The type is unset unless the name was that of a pipe; there is no handle.
FillFails(t, ty) ==
    /\ pc[t] = "fill" /\ ty \in {"none", "pipecl"}
    /\ LET f == fdtab[loc[t].fd] IN
        /\ f # Nil
        /\ type' = [type EXCEPT ![f] = ty]
    /\ loc' = [loc EXCEPT ![t].op = "close"]
    /\ Goto(t, "get")
    /\ UNCHANGED <<tabvars, live, users, h, evs, hooked, held, ci>>

-----------------------------------------------------------------------------
(* Calls on a descriptor.  A thread names a number that is its own; one   *)
(* that allocates alone may also name a number nobody uses.               *)

Unused(i) == \A t \in Threads : i \notin held[t]
May(t, i) == i \in held[t] \/ (Allocators \subseteq {t} /\ Unused(i))

Call(t, o, i, j, c) ==
    /\ pc[t] = "idle" /\ o \in Calls /\ (Quiet => ci = -1)
    /\ May(t, i)
    /\ loc' = [loc EXCEPT ![t] = [NoCall EXCEPT !.op = o, !.fd = i, !.new = j, !.closeh = c]]
    /\ Goto(t, "get")
    /\ UNCHANGED <<tabvars, fdvars, held, ci>>

CallClose(t, i)   == Call(t, "close", i, 0, TRUE)
CallDup(t, i)     == t \in Allocators /\ Room /\ Call(t, "dup", i, 0, TRUE)
CallDup2(t, i, j) == /\ t \in Allocators /\ Room /\ May(t, j) /\ (SelfDup \/ i # j)
                     /\ Call(t, "dup2", i, j, TRUE)
CallIo(t, i)      == Call(t, "io", i, 0, TRUE)
CallOnclose(t, i) == Call(t, "onclose", i, 0, TRUE)

\* sendfd() is called on a number that is the only one of its Fd.
CallSend(t, i)    == /\ fdtab[i] # Nil /\ users[fdtab[i]] = 1
                     /\ Call(t, "send", i, 0, FALSE)

\* A number is passed on to another proc (proccreate(helper, fd)).
Give(t, u, i) ==
    /\ pc[t] = "idle" /\ pc[u] = "idle" /\ u # t /\ (Quiet => ci = -1)
    /\ i \in held[t] /\ "give" \in Calls
    /\ held' = [held EXCEPT ![t] = @ \ {i}, ![u] = @ \cup {i}]
    /\ UNCHANGED <<tabvars, fdvars, ci, pc, loc>>

-----------------------------------------------------------------------------
(* The steps of a call.                                                   *)

\* fdtget(): without the lock.  nil makes the caller return an error.
fdtget(t) ==
    /\ pc[t] = "get"
    /\ LET f == IF loc[t].fd < fdtabsz THEN fdtab[loc[t].fd] ELSE Nil IN
        IF f = Nil
        THEN Return(t)
        ELSE /\ loc' = [loc EXCEPT ![t].f = f]
             /\ Goto(t, IF type[f] \in Pipes /\ evs[f] = 0 THEN "initev" ELSE "act")
    /\ UNCHANGED <<tabvars, fdvars, held, ci>>

\* initovev(): looks again under the lock before it creates the events.
EventsAfter(f) == [evs EXCEPT ![f] = IF @ = 0 THEN 1 ELSE @]

initovev(t) ==
    /\ pc[t] = "initev"
    /\ evs' = EventsAfter(loc[t].f)
    /\ Goto(t, "act")
    /\ UNCHANGED <<tabvars, live, users, type, h, hooked, held, ci, loc>>

Acts(t, o) == pc[t] = "act" /\ loc[t].op = o

\* The user that goes is the last one: f is to be released.
LastUserTooEarly(f) == users[f] <= 2
LastUser(f) == users[f] = 1

\* What releasef() will be told of f: its type, read before it is cleared.
SavedTypeTooLate(f) == "none"
SavedType(f) == type[f]

\* The critical section of fdtclose().
fdtclose(t) ==
    /\ Acts(t, "close")
    /\ LET f == loc[t].f
           i == loc[t].fd
       IN  /\ fdtab' = [fdtab EXCEPT ![i] = Nil]
           /\ nfd' = nfd - 1
           /\ users' = [users EXCEPT ![f] = @ - 1]
           /\ type' = [type EXCEPT ![f] = IF LastUser(f) THEN "none" ELSE @]
           /\ held' = [u \in Threads |-> held[u] \ {i}]
           /\ \/ /\ LastUser(f)
                 /\ loc' = [loc EXCEPT ![t].type = SavedType(f)]
                 /\ Goto(t, "release")
              \/ /\ ~LastUser(f) /\ Refs(f) \ {i} # {}
                 /\ Return(t)
              \/ /\ ~LastUser(f) /\ Refs(f) \ {i} = {}
                 /\ Goto(t, "fatal")
                 /\ UNCHANGED loc
    /\ UNCHANGED <<fdtabsz, live, h, evs, hooked, ci>>

\* fdtdup(old, -1): fdtalloc(oldf).
fdtdup(t, i) ==
    /\ Acts(t, "dup")
    /\ fdtalloc(t, i, loc[t].f)
    /\ users' = [users EXCEPT ![loc[t].f] = @ + 1]
    /\ Return(t)
    /\ UNCHANGED <<live, type, h, evs, hooked, ci>>

\* fdtdup(old, new) on a slot that referred to f: f loses its user and the
\* slot, oldf gets both.
NfdAfterDup(f) == IF f = Nil THEN nfd + 1 ELSE nfd

UsersAfterDupOmitsNew(f, oldf) == IF f = Nil THEN users ELSE [users EXCEPT ![f] = @ - 1]
UsersAfterDup(f, oldf) ==
    LET less == IF f = Nil THEN users ELSE [users EXCEPT ![f] = @ - 1]
    IN  [less EXCEPT ![oldf] = @ + 1]

fdtdup2(t) ==
    /\ Acts(t, "dup2")
    /\ LET oldf == loc[t].f
           j    == loc[t].new
           f    == IF j < fdtabsz THEN fdtab[j] ELSE Nil
           last == f # Nil /\ LastUser(f)
       IN  /\ IF j >= fdtabsz THEN need(j + 1) ELSE UNCHANGED fdtabsz
           /\ fdtab' = [fdtab EXCEPT ![j] = oldf]
           /\ nfd' = NfdAfterDup(f)
           /\ users' = UsersAfterDup(f, oldf)
           /\ type' = IF last THEN [type EXCEPT ![f] = "none"] ELSE type
           /\ held' = [held EXCEPT ![t] = @ \cup {j}]
           /\ IF last
              THEN /\ loc' = [loc EXCEPT ![t].type = SavedType(f), ![t].f = f]
                   /\ Goto(t, "release")
              ELSE Return(t)
    /\ UNCHANGED <<live, h, evs, hooked, ci>>

\* releasef(): no lock.  Closes the handle, by the saved type, and the
\* events, runs the hook and frees the structure.
releasef(t) ==
    /\ pc[t] = "release"
    /\ LET f == loc[t].f IN
        /\ h' = [h EXCEPT ![f] = IF \/ loc[t].closeh /\ loc[t].type \in Closed
                                    \/ @ = "sent"
                                 THEN "nil" ELSE @]
        /\ evs' = [evs EXCEPT ![f] = IF @ > 0 THEN @ - 1 ELSE @]
        /\ hooked' = hooked \ {f}
        /\ live' = live \ {f}
    /\ Return(t)
    /\ UNCHANGED <<tabvars, users, type, held, ci>>

\* read(), write(), seek(): the transfer itself, on the handle of the Fd.
io(t) == /\ Acts(t, "io")
         /\ Return(t)
         /\ UNCHANGED <<tabvars, fdvars, held, ci>>

fdtonclose(t) == /\ Acts(t, "onclose")
                 /\ hooked' = hooked \cup {loc[t].f}
                 /\ Return(t)
                 /\ UNCHANGED <<tabvars, live, users, type, h, evs, held, ci>>

\* sendfd(): the handle of a pipe is left to the receiver, which closes it
\* in this process; then fdtclose(fd, 0).
sendfd(t) ==
    /\ Acts(t, "send")
    /\ IF type[loc[t].f] \in Pipes
       THEN /\ h' = [h EXCEPT ![loc[t].f] = "sent"]
            /\ loc' = [loc EXCEPT ![t].op = "close"]
            /\ Goto(t, "get")
       ELSE /\ Return(t)
            /\ UNCHANGED h
    /\ UNCHANGED <<tabvars, live, users, type, evs, hooked, held, ci>>

-----------------------------------------------------------------------------
(* exits(): the handler cleanup() closes every number but 2, then 2.      *)

Exits ==
    /\ pc[Main] = "idle" /\ ci = -1
    /\ Quiet => \A t \in Threads : pc[t] = "idle"
    /\ ci' = 0
    /\ Goto(Main, "cleanup")
    /\ UNCHANGED <<tabvars, fdvars, held, loc>>

CloseFromCleanup(i) == /\ loc' = [loc EXCEPT ![Main] = [NoCall EXCEPT !.op = "close", !.fd = i]]
                       /\ Goto(Main, "get")

InLoop == ci < fdtabsz /\ ci \in Slots

cleanup ==
    /\ pc[Main] = "cleanup"
    /\ \/ /\ InLoop
          /\ ci' = ci + 1
          /\ IF fdtab[ci] # Nil /\ ci # 2 THEN CloseFromCleanup(ci) ELSE UNCHANGED <<pc, loc>>
       \/ /\ ~InLoop
          /\ UNCHANGED ci
          /\ \/ fdtab[2] = Nil /\ Goto(Main, "done") /\ UNCHANGED loc
             \/ fdtab[2] # Nil /\ nfd # 1 /\ Goto(Main, "fatal") /\ UNCHANGED loc
             \/ fdtab[2] # Nil /\ nfd = 1 /\ CloseFromCleanup(2)
    /\ UNCHANGED <<tabvars, fdvars, held>>

\* The process is gone.
Done == pc[Main] = "done" /\ UNCHANGED vars

-----------------------------------------------------------------------------
Step(t) ==
    \/ \E i \in Slots, f \in Fds : Open(t, i, f)
    \/ \E ty \in Kinds : Fill(t, ty) \/ FillFails(t, ty)
    \/ \E i \in Slots : \/ CallClose(t, i) \/ CallDup(t, i) \/ CallIo(t, i)
                        \/ CallOnclose(t, i) \/ CallSend(t, i)
                        \/ \E j \in Slots : CallDup2(t, i, j)
                        \/ \E u \in Threads : Give(t, u, i)
                        \/ fdtdup(t, i)
    \/ fdtget(t) \/ initovev(t) \/ fdtclose(t) \/ fdtdup2(t) \/ releasef(t)
    \/ io(t) \/ fdtonclose(t) \/ sendfd(t)

Next == (\E t \in Threads : Step(t)) \/ Exits \/ cleanup \/ Done

Spec == Init /\ [][Next]_vars

-----------------------------------------------------------------------------
(* Correctness.                                                           *)

PCs == {"idle", "fill", "get", "initev", "act", "release", "cleanup", "done", "fatal"}
CallRecs == [op : {"none", "open", "close", "dup", "dup2", "io", "onclose", "send"},
             fd : Slots, new : Slots, closeh : BOOLEAN, f : Fds \cup {Nil}, type : Types]

\* Every variable has its type.
TypeOK ==
    /\ fdtab \in [Slots -> Fds \cup {Nil}]
    /\ fdtabsz \in Nat
    /\ nfd \in Nat
    /\ live \subseteq Fds
    /\ users \in [Fds -> Int]
    /\ type \in [Fds -> Types]
    /\ h \in [Fds -> {"nil", "open", "sent"}]
    /\ evs \in [Fds -> Nat]
    /\ hooked \subseteq Fds
    /\ held \in [Threads -> SUBSET Slots]
    /\ ci \in -1..(MaxFd + 1)
    /\ pc \in [Threads -> PCs]
    /\ loc \in [Threads -> CallRecs]

\* nfd counts the slots in use: fdtalloc() trusts it to find a free slot
\* among the first nfd + 1, and cleanup() to see that everything is closed.
NfdIsCount == nfd = Cardinality(Occupied)

\* f->users is the number of slots that refer to f, for every Fd a slot
\* refers to, whatever the threads are doing in the meantime.
UsersAreRefs == \A f \in live : users[f] = Cardinality(Refs(f))

\* No slot refers to a freed structure, no thread works on one, and the one
\* that a thread is about to free is out of everybody's reach.
NoDangling ==
    /\ \A i \in Occupied : fdtab[i] \in live
    /\ \A t \in Threads :
        /\ pc[t] \in {"initev", "act", "release"} => loc[t].f \in live
        /\ pc[t] = "fill" => fdtab[loc[t].fd] # Nil
        /\ pc[t] = "release" =>
            /\ \A i \in Slots : fdtab[i] # loc[t].f
            /\ \A u \in Threads \ {t} :
                pc[u] \in {"initev", "act", "release"} => loc[u].f # loc[t].f

\* The table is as its functions rely on it: nfd counts the slots in use,
\* users the slots that refer to an Fd, and no slot and no call in progress
\* has an Fd that releasef() freed.
TableOK == TypeOK /\ NfdIsCount /\ UsersAreRefs /\ NoDangling

\* A thread is still filling slot i, or closing it.
Filling(i) == \E t \in Threads :
    /\ loc[t].fd = i
    /\ \/ pc[t] = "fill"
       \/ loc[t].op = "close" /\ pc[t] \in {"get", "initev", "act"}

\* A descriptor in use has its handle: closing one of two descriptors of a
\* file never closes the file.
HandleWhileUsed ==
    \A i \in Occupied : type[fdtab[i]] \in Closed /\ ~Filling(i) => h[fdtab[i]] = "open"

\* releasef() leaves nothing behind: the handle of a freed Fd is closed (or
\* belongs to another process by now), so are its events, its hook has run.
NothingLeaks ==
    \A f \in Fds \ live : h[f] # "open" /\ evs[f] = 0 /\ f \notin hooked

\* A handle lives as long as a descriptor refers to it, and no longer; with it
\* go its events and its onclose function (releasef()).
HandlesKept == HandleWhileUsed /\ NothingLeaks

\* The checks that fdtclose() and cleanup() make on the table never fail:
\* neither "no %d users" nor "nfd still %d" is ever reported.
NoFatal == \A t \in Threads : pc[t] # "fatal"

\* A descriptor refers to the same Fd until its own thread closes it or
\* puts another one in its place (or the process exits): no allocation and
\* no close of another thread ever touches it.
DescriptorsAreStable ==
    [][\A t \in Threads : \A i \in held[t] :
        fdtab'[i] # fdtab[i] =>
            \/ pc[t] = "act" /\ loc[t].op = "close" /\ loc[t].fd = i
            \/ pc[t] = "act" /\ loc[t].op = "dup2" /\ loc[t].new = i
            \/ ci # -1]_vars

\* FdTab implements the descriptor map that callers rely on.
Abstract == INSTANCE DescMap WITH Files <- Fds, tab <- fdtab, open <- live
ImplementsDescMap == Abstract!DSpec

-----------------------------------------------------------------------------
(* The inductive strengthening of the above (FdTab_proofs).               *)

Exiting(t) == t = Main /\ ci # -1

\* The numbers in use are shared out among the threads.
Ownership ==
    /\ \A i \in Slots : fdtab[i] # Nil <=> \E t \in Threads : i \in held[t]
    /\ \A t, u \in Threads : t # u => held[t] \cap held[u] = {}

\* The slots in use lie within the table.
WithinTable == \A i \in Occupied : i < fdtabsz

\* What a thread knows of its descriptors stays true while it works on them.
CallsAreValid ==
    \A t \in Threads :
        /\ pc[t] = "fill" => loc[t].fd \in held[t]
        /\ pc[t] \in {"get", "initev", "act"} =>
            /\ May(t, loc[t].fd) \/ Exiting(t)
            /\ loc[t].op \in {"dup", "dup2"} => t \in Allocators
            /\ loc[t].op = "dup2" => May(t, loc[t].new) /\ loc[t].fd # loc[t].new
        /\ pc[t] \in {"initev", "act"} =>
            /\ loc[t].f # Nil /\ fdtab[loc[t].fd] = loc[t].f
            /\ loc[t].fd \in held[t] \/ Exiting(t)

\* When Main exits the other threads are idle; cleanup() has closed
\* everything below its index but 2 and the number it is at.
ExitIsQuiet ==
    /\ \A t \in Threads : ci # -1 /\ t # Main => pc[t] = "idle"
    /\ \A t \in Threads : pc[t] \in {"cleanup", "done"} => Exiting(t)
    /\ ci # -1 =>
        /\ pc[Main] \in {"get", "initev", "act", "release", "cleanup", "done"}
        /\ pc[Main] \in {"get", "initev", "act"} => loc[Main].op = "close"
        /\ \A i \in Occupied :
            i < ci /\ i # 2 => pc[Main] \in {"get", "initev", "act"} /\ loc[Main].fd = i

IInv == /\ TypeOK /\ NfdIsCount /\ UsersAreRefs /\ NoDangling
        /\ Ownership /\ WithinTable /\ CallsAreValid /\ ExitIsQuiet /\ NoFatal
=============================================================================
