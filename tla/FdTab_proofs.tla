---------------------------- MODULE FdTab_proofs ----------------------------
(***************************************************************************)
(* Proofs about FdTab, for any number of threads, descriptors and Fd      *)
(* structures.  The assumption of the theorems, SelfDup = FALSE and       *)
(* Quiet = TRUE, is that of the passing runs: no caller dups a number     *)
(* onto itself, and procs are quiet when the program exits.               *)
(***************************************************************************)
EXTENDS FdTab, FiniteSetTheorems, TLAPS

-----------------------------------------------------------------------------
(* How the counts change with the table.                                  *)

\* The slots, hence all sets of slots, are finite.
LEMMA SlotsFinite == /\ IsFiniteSet(Slots)
                     /\ \A S \in SUBSET Slots : IsFiniteSet(S) /\ Cardinality(S) \in Nat
<1>1. IsFiniteSet(Slots)
  BY SlotsAssumption, FS_Interval DEF Slots
<1>2. ASSUME NEW S \in SUBSET Slots PROVE IsFiniteSet(S) /\ Cardinality(S) \in Nat
  BY <1>1, <1>2, FS_Subset, FS_CardinalityType
<1> QED BY <1>1, <1>2

\* The kinds of Fd that open() and its like produce are types.
LEMMA KindsAreTypes == Kinds \subseteq Types
BY KindsAssumption DEF Types, OpenKinds, CreateKinds, PipeKinds, DialKinds, AnnounceKinds,
                       ListenKinds, RecvfdKinds

\* Two different numbers are two.
LEMMA PairCounts ==
    ASSUME NEW a, NEW b, a # b
    PROVE  Cardinality({a, b}) = 2
<1>1. IsFiniteSet({a}) /\ Cardinality({a}) = 1
  BY FS_Singleton
<1>2. b \notin {a}
  OBVIOUS
<1>3. Cardinality({a} \cup {b}) = Cardinality({a}) + 1
  BY <1>1, <1>2, FS_AddElement
<1>4. {a, b} = {a} \cup {b}
  OBVIOUS
<1> QED BY <1>1, <1>3, <1>4

\* The pigeonhole argument behind fdtalloc(): if the first nfd slots are all
\* taken, no other slot is, so slot nfd is free although nobody looked.
LEMMA FreeSlotIsFree ==
  ASSUME TypeOK, NfdIsCount, NEW i \in Slots, FreeSlot(i)
  PROVE  fdtab[i] = Nil
<1>1. CASE i < nfd
  BY <1>1 DEF FreeSlot
<1>2. CASE i = nfd
  <2> SUFFICES ASSUME fdtab[i] # Nil PROVE FALSE
    OBVIOUS
  <2> DEFINE First == 0..(i-1)
  <2>1. i \in Nat
    BY SlotsAssumption DEF Slots
  <2>2. First \subseteq Slots /\ i \notin First
    BY <2>1, SlotsAssumption DEF Slots
  <2>3. First \cup {i} \subseteq Occupied
    BY <2>2 DEF FreeSlot, Occupied
  <2>4. IsFiniteSet(First) /\ Cardinality(First) = i
    BY <2>1, FS_Interval
  <2>5. Cardinality(First \cup {i}) = i + 1
    BY <2>2, <2>4, FS_AddElement
  <2>6. IsFiniteSet(Occupied)
    BY SlotsFinite DEF Occupied
  <2>7. Cardinality(First \cup {i}) <= Cardinality(Occupied)
    BY <2>3, <2>6, FS_Subset
  <2> QED BY <1>2, <2>1, <2>5, <2>7 DEF NfdIsCount
<1> QED BY <1>1, <1>2, SlotsAssumption DEF FreeSlot, Slots, TypeOK

\* The sets whose sizes fdtab.c keeps, as functions of the table.
Table == [Slots -> Fds \cup {Nil}]
Occ(a) == {j \in Slots : a[j] # Nil}
RefsIn(a, f) == {j \in Slots : a[j] = f}

\* They are finite.
LEMMA CountsAreNat ==
  \A a, f : /\ IsFiniteSet(Occ(a)) /\ Cardinality(Occ(a)) \in Nat
            /\ IsFiniteSet(RefsIn(a, f)) /\ Cardinality(RefsIn(a, f)) \in Nat
            /\ Cardinality(RefsIn(a, f)) = 0 <=> RefsIn(a, f) = {}
<1> SUFFICES ASSUME NEW a, NEW f
             PROVE  /\ IsFiniteSet(Occ(a)) /\ Cardinality(Occ(a)) \in Nat
                    /\ IsFiniteSet(RefsIn(a, f)) /\ Cardinality(RefsIn(a, f)) \in Nat
                    /\ Cardinality(RefsIn(a, f)) = 0 <=> RefsIn(a, f) = {}
  OBVIOUS
<1>1. Occ(a) \in SUBSET Slots /\ RefsIn(a, f) \in SUBSET Slots
  BY DEF Occ, RefsIn
<1> QED BY <1>1, SlotsFinite, FS_EmptySet

\* A free slot is taken.
LEMMA PutCounts ==
  ASSUME NEW a \in Table, NEW b \in Table, NEW i \in Slots, NEW f \in Fds,
         a[i] = Nil, b[i] = f, \A j \in Slots \ {i} : b[j] = a[j]
  PROVE  /\ Cardinality(Occ(b)) = Cardinality(Occ(a)) + 1
         /\ Cardinality(RefsIn(b, f)) = Cardinality(RefsIn(a, f)) + 1
         /\ \A g \in Fds \ {f} : RefsIn(b, g) = RefsIn(a, g)
<1>1. Occ(b) = Occ(a) \cup {i} /\ i \notin Occ(a)
  BY NilAssumption DEF Occ, Table
<1>2. RefsIn(b, f) = RefsIn(a, f) \cup {i} /\ i \notin RefsIn(a, f)
  BY NilAssumption DEF RefsIn, Table
<1>3. \A g \in Fds \ {f} : RefsIn(b, g) = RefsIn(a, g)
  BY NilAssumption DEF RefsIn, Table
<1>4. Cardinality(Occ(b)) = Cardinality(Occ(a)) + 1
  BY <1>1, CountsAreNat, FS_AddElement
<1>5. Cardinality(RefsIn(b, f)) = Cardinality(RefsIn(a, f)) + 1
  BY ZenonT(40), <1>2, CountsAreNat, FS_AddElement
<1> QED BY <1>3, <1>4, <1>5

\* A slot is cleared.
LEMMA DropCounts ==
  ASSUME NEW a \in Table, NEW b \in Table, NEW i \in Slots, NEW f \in Fds,
         a[i] = f, b[i] = Nil, \A j \in Slots \ {i} : b[j] = a[j]
  PROVE  /\ Cardinality(Occ(b)) = Cardinality(Occ(a)) - 1
         /\ Cardinality(RefsIn(b, f)) = Cardinality(RefsIn(a, f)) - 1
         /\ RefsIn(b, f) = RefsIn(a, f) \ {i}
         /\ \A g \in Fds \ {f} : RefsIn(b, g) = RefsIn(a, g)
<1>1. Occ(b) = Occ(a) \ {i} /\ i \in Occ(a)
  BY NilAssumption DEF Occ, Table
<1>2. RefsIn(b, f) = RefsIn(a, f) \ {i} /\ i \in RefsIn(a, f)
  BY NilAssumption DEF RefsIn, Table
<1>3. \A g \in Fds \ {f} : RefsIn(b, g) = RefsIn(a, g)
  BY NilAssumption DEF RefsIn, Table
<1>4. Cardinality(Occ(b)) = Cardinality(Occ(a)) - 1
  BY <1>1, CountsAreNat, FS_RemoveElement
<1>5. Cardinality(RefsIn(b, f)) = Cardinality(RefsIn(a, f)) - 1
  BY <1>2, CountsAreNat, FS_RemoveElement
<1> QED BY <1>2, <1>3, <1>4, <1>5

\* A slot in use is given another Fd.
LEMMA SwapCounts ==
  ASSUME NEW a \in Table, NEW b \in Table, NEW i \in Slots, NEW f \in Fds, NEW g \in Fds,
         a[i] = g, b[i] = f, f # g, \A j \in Slots \ {i} : b[j] = a[j]
  PROVE  /\ Occ(b) = Occ(a)
         /\ Cardinality(RefsIn(b, f)) = Cardinality(RefsIn(a, f)) + 1
         /\ Cardinality(RefsIn(b, g)) = Cardinality(RefsIn(a, g)) - 1
         /\ RefsIn(b, g) = RefsIn(a, g) \ {i}
         /\ \A e \in Fds \ {f, g} : RefsIn(b, e) = RefsIn(a, e)
<1>1. Occ(b) = Occ(a)
  BY NilAssumption DEF Occ, Table
<1>2. RefsIn(b, f) = RefsIn(a, f) \cup {i} /\ i \notin RefsIn(a, f)
  BY DEF RefsIn, Table
<1>3. RefsIn(b, g) = RefsIn(a, g) \ {i} /\ i \in RefsIn(a, g)
  BY DEF RefsIn, Table
<1>4. \A e \in Fds \ {f, g} : RefsIn(b, e) = RefsIn(a, e)
  BY DEF RefsIn, Table
<1>5. Cardinality(RefsIn(b, f)) = Cardinality(RefsIn(a, f)) + 1
  BY ZenonT(40), <1>2, CountsAreNat, FS_AddElement
<1>6. Cardinality(RefsIn(b, g)) = Cardinality(RefsIn(a, g)) - 1
  BY ZenonT(40), <1>3, CountsAreNat, FS_RemoveElement
<1> QED BY <1>1, <1>3, <1>4, <1>5, <1>6

\* The record of a thread that is in no call has its type.
LEMMA NoCallType == NoCall \in CallRecs
  BY SlotsAssumption DEF NoCall, CallRecs, Slots, Types

-----------------------------------------------------------------------------
(* Every step preserves the invariant.                                    *)

Disciplined == SelfDup = FALSE /\ Quiet = TRUE

\* The counters of the invariant in terms of Occ and RefsIn.
LEMMA CountsInTable ==
  /\ Occupied = Occ(fdtab) /\ Occupied' = Occ(fdtab')
  /\ \A f : Refs(f) = RefsIn(fdtab, f)
  /\ NfdIsCount <=> nfd = Cardinality(Occ(fdtab))
  /\ NfdIsCount' <=> nfd' = Cardinality(Occ(fdtab'))
  /\ UsersAreRefs <=> \A f \in live : users[f] = Cardinality(RefsIn(fdtab, f))
  /\ UsersAreRefs' <=> \A f \in live' : users'[f] = Cardinality(RefsIn(fdtab', f))
BY DEF Occupied, Refs, Occ, RefsIn, NfdIsCount, UsersAreRefs

\* fdtclose() under the lock.
LEMMA CloseInv ==
  ASSUME IInv, Disciplined, NEW t \in Threads, fdtclose(t)
  PROVE  IInv'
<1> DEFINE i == loc[t].fd
           f == loc[t].f
<1>0. TypeOK /\ UsersAreRefs /\ NfdIsCount
  BY DEF IInv
<1>1. i \in Slots /\ f \in Fds /\ fdtab[i] = f /\ f \in live
  BY <1>0 DEF IInv, fdtclose, Acts, TypeOK, CallRecs, CallsAreValid, NoDangling
<1>2. fdtab \in Table /\ fdtab' = [fdtab EXCEPT ![i] = Nil]
  BY <1>0 DEF fdtclose, Table, TypeOK
<1>3. /\ Cardinality(Occ(fdtab')) = Cardinality(Occ(fdtab)) - 1
      /\ Cardinality(RefsIn(fdtab', f)) = Cardinality(RefsIn(fdtab, f)) - 1
      /\ RefsIn(fdtab', f) = RefsIn(fdtab, f) \ {i}
      /\ \A g \in Fds \ {f} : RefsIn(fdtab', g) = RefsIn(fdtab, g)
  <2>1. fdtab' \in Table /\ fdtab'[i] = Nil /\ \A j \in Slots \ {i} : fdtab'[j] = fdtab[j]
    BY <1>1, <1>2 DEF Table
  <2>2. fdtab \in Table
    BY <1>2
  <2> HIDE DEF i, f
  <2>3. i \in Slots /\ f \in Fds /\ fdtab[i] = f
    BY <1>1
  <2> QED BY <2>1, <2>2, <2>3, DropCounts
<1>4. /\ nfd' = nfd - 1 /\ users' = [users EXCEPT ![f] = @ - 1]
      /\ live' = live /\ fdtabsz' = fdtabsz /\ ci' = ci
      /\ held' = [u \in Threads |-> held[u] \ {i}]
      /\ \A u \in Threads \ {t} : pc'[u] = pc[u] /\ loc'[u] = loc[u]
  BY <1>0 DEF fdtclose, Goto, Return, TypeOK
<1>5. NfdIsCount'
  BY <1>0, <1>3, <1>4, CountsInTable
<1>6. nfd' \in Nat
  BY <1>5, CountsInTable, CountsAreNat
<1>7. UsersAreRefs'
  <2>1. \A g \in live : users[g] = Cardinality(RefsIn(fdtab, g))
    BY <1>0, CountsInTable
  <2> HIDE DEF i, f
  <2>2. \A g \in live : users'[g] = IF g = f THEN users[g] - 1 ELSE users[g]
    BY <1>0, <1>4 DEF TypeOK
  <2>3. \A g \in live : users'[g] = Cardinality(RefsIn(fdtab', g))
    BY <1>0, <1>1, <1>3, <2>1, <2>2 DEF TypeOK
  <2> QED BY <1>4, <2>3, CountsInTable
<1>8. pc' \in [Threads -> PCs] /\ loc' \in [Threads -> CallRecs]
  <2>1. CASE loc' = [loc EXCEPT ![t].type = type[f]] /\ pc' = [pc EXCEPT ![t] = "release"]
    BY <1>0, <1>1, <2>1 DEF TypeOK, CallRecs, PCs
  <2>2. CASE Return(t)
    BY <1>0, <2>2, NoCallType DEF TypeOK, Goto, Return, PCs
  <2>3. CASE loc' = loc /\ pc' = [pc EXCEPT ![t] = "fatal"]
    BY <1>0, <2>3 DEF TypeOK, PCs
  <2> QED BY <2>1, <2>2, <2>3 DEF fdtclose, Goto, SavedType
<1>9. type' \in [Fds -> Types]
  BY <1>0, <1>1 DEF TypeOK, fdtclose, Types
<1>10. TypeOK'
  BY <1>0, <1>1, <1>2, <1>4, <1>6, <1>8, <1>9 DEF TypeOK, fdtclose, Table
<1>11. users[f] = Cardinality(RefsIn(fdtab', f)) + 1
  <2>1. users[f] = Cardinality(RefsIn(fdtab, f))
    BY <1>0, <1>1, CountsInTable
  <2>2. Cardinality(RefsIn(fdtab, f)) \in Nat /\ Cardinality(RefsIn(fdtab', f)) \in Nat
    BY CountsAreNat
  <2> QED BY <1>3, <2>1, <2>2
<1>12. users[f] = 1 <=> RefsIn(fdtab', f) = {}
  <2>1. /\ Cardinality(RefsIn(fdtab', f)) \in Nat
        /\ Cardinality(RefsIn(fdtab', f)) = 0 <=> RefsIn(fdtab', f) = {}
    BY CountsAreNat
  <2> QED BY <1>11, <2>1
<1>13. /\ pc'[t] \in {"release", "cleanup", "idle"}
       /\ pc'[t] = "release" => users[f] = 1 /\ loc'[t].f = f
       /\ pc'[t] = "cleanup" => Exiting(t)
       /\ pc'[t] = "idle" => ~Exiting(t)
  <2>1. CASE users[f] = 1
    BY <1>0, <2>1 DEF fdtclose, LastUser, Goto, TypeOK, CallRecs
  <2>2. CASE users[f] # 1
    <3>1. Return(t)
      BY <1>3, <1>12, <2>2, CountsInTable DEF fdtclose, LastUser
    <3> QED BY <1>0, <3>1 DEF Return, Goto, Exiting, TypeOK
  <2> QED BY <2>1, <2>2
<1>14. NoFatal'
  BY <1>4, <1>13 DEF IInv, NoFatal
<1>15. i \in held[t] \/ Exiting(t)
  BY <1>1 DEF IInv, fdtclose, Acts, CallsAreValid, May, Unused, Ownership, Exiting
<1> HIDE DEF i, f
\* The other threads work on other descriptors.
<1>16. \A u \in Threads \ {t} : pc[u] # "idle" => i \in held[t] /\ i \notin held[u] /\ ~Exiting(u)
  BY <1>15 DEF IInv, Ownership, ExitIsQuiet, Exiting, fdtclose, Acts
<1>17. NoDangling'
  <2>1. \A j \in Occupied' : fdtab'[j] \in live'
    BY <1>0, <1>1, <1>2, <1>4 DEF IInv, NoDangling, Occupied, TypeOK
  <2>2. ASSUME NEW u \in Threads, pc'[u] = "fill" PROVE fdtab'[loc'[u].fd] # Nil
    <3>1. u # t /\ pc[u] = "fill" /\ loc'[u].fd = loc[u].fd
      BY <1>4, <1>13, <2>2
    <3>2. loc[u].fd \in held[u] /\ loc[u].fd # i
      BY <1>16, <3>1 DEF IInv, CallsAreValid
    <3> QED BY <1>0, <1>2, <3>1, <3>2 DEF IInv, NoDangling, TypeOK, CallRecs
  <2>3. ASSUME NEW u \in Threads, pc'[u] \in {"initev", "act", "release"}
        PROVE  loc'[u].f \in live'
    BY <1>1, <1>4, <1>13, <2>3 DEF IInv, NoDangling
  <2>4. ASSUME NEW u \in Threads, pc'[u] = "release"
        PROVE  \A j \in Slots : fdtab'[j] # loc'[u].f
    <3>1. CASE u = t
      BY <1>12, <1>13, <2>4, <3>1 DEF RefsIn
    <3>2. CASE u # t
      BY <1>0, <1>1, <1>2, <1>4, <2>4, <3>2, NilAssumption DEF IInv, NoDangling, TypeOK
    <3> QED BY <3>1, <3>2
  <2>5. ASSUME NEW u \in Threads, pc'[u] = "release", NEW w \in Threads \ {u},
               pc'[w] \in {"initev", "act", "release"}
        PROVE  loc'[w].f # loc'[u].f
    <3>1. CASE u = t
      <4>1. pc[w] = "release" => loc[w].f # f
        BY <1>1, <3>1 DEF IInv, NoDangling
      <4>2. pc[w] \in {"initev", "act"} => loc[w].f # f
        <5> SUFFICES ASSUME pc[w] \in {"initev", "act"} PROVE loc[w].f # f
          OBVIOUS
        <5>1. loc[w].fd \in Slots /\ loc[w].fd # i /\ fdtab[loc[w].fd] = loc[w].f
          BY <1>0, <1>16, <3>1 DEF IInv, CallsAreValid, TypeOK, CallRecs
        <5>2. fdtab'[loc[w].fd] = loc[w].f
          BY <1>0, <1>2, <5>1 DEF TypeOK
        <5> QED BY <1>12, <1>13, <2>5, <3>1, <5>1, <5>2 DEF RefsIn
      <4> QED BY <1>4, <1>13, <2>5, <3>1, <4>1, <4>2
    <3>2. CASE w = t
      BY <1>1, <1>4, <1>13, <2>5, <3>2 DEF IInv, NoDangling
    <3>3. CASE u # t /\ w # t
      BY <1>4, <2>5, <3>3 DEF IInv, NoDangling
    <3> QED BY <3>1, <3>2, <3>3
  <2> QED BY <2>1, <2>2, <2>3, <2>4, <2>5 DEF NoDangling
<1>18. Ownership'
  BY <1>0, <1>1, <1>2, <1>4 DEF IInv, Ownership, TypeOK
<1>19. WithinTable'
  BY <1>0, <1>2, <1>4 DEF IInv, WithinTable, Occupied, TypeOK
<1>20. CallsAreValid'
  <2> SUFFICES ASSUME NEW u \in Threads PROVE
        /\ pc'[u] = "fill" => loc'[u].fd \in held'[u]
        /\ pc'[u] \in {"get", "initev", "act"} =>
            /\ May(u, loc[u].fd)' \/ Exiting(u)'
            /\ loc'[u].op \in {"dup", "dup2"} => u \in Allocators
            /\ loc'[u].op = "dup2" => May(u, loc[u].new)' /\ loc'[u].fd # loc'[u].new
        /\ pc'[u] \in {"initev", "act"} =>
            /\ loc'[u].f # Nil /\ fdtab'[loc'[u].fd] = loc'[u].f
            /\ loc'[u].fd \in held'[u] \/ Exiting(u)'
    BY DEF CallsAreValid
  <2>1. CASE u = t
    BY <1>13, <2>1
  <2>2. CASE u # t /\ pc[u] # "idle"
    <3>1. i \notin held[u] /\ held'[u] = held[u] /\ pc'[u] = pc[u] /\ loc'[u] = loc[u]
      BY <1>0, <1>4, <1>16, <2>2 DEF TypeOK
    <3>2. \A j \in held[u] : fdtab'[j] = fdtab[j]
      BY <1>0, <1>2, <3>1 DEF TypeOK
    <3>3. May(u, loc[u].fd) => May(u, loc[u].fd)'
      BY <1>4, <3>1 DEF May, Unused
    <3>4. May(u, loc[u].new) => May(u, loc[u].new)'
      BY <1>4, <3>1 DEF May, Unused
    <3>5. ~Exiting(u)
      BY <1>16, <2>2
    <3> QED BY <2>2, <3>1, <3>2, <3>3, <3>4, <3>5 DEF IInv, CallsAreValid
  <2> QED BY <1>4, <2>1, <2>2
<1>21. ExitIsQuiet'
  <2>1. CASE ci = -1
    BY <1>4, <1>13, <2>1 DEF IInv, ExitIsQuiet, Exiting
  <2>2. CASE ci # -1
    <3>1. t = Main
      BY <2>2 DEF IInv, ExitIsQuiet, fdtclose, Acts
    <3>2. \A j \in Occupied' : j \in Occupied /\ j # i
      BY <1>0, <1>2 DEF Occupied, TypeOK
    <3>3. \A j \in Occupied' : ~(j < ci /\ j # 2)
      BY <2>2, <3>1, <3>2 DEF IInv, ExitIsQuiet, i
    <3> QED BY <1>4, <1>13, <2>2, <3>1, <3>3 DEF IInv, ExitIsQuiet, Exiting
  <2> QED BY <2>1, <2>2
<1> QED BY <1>5, <1>7, <1>10, <1>14, <1>17, <1>18, <1>19, <1>20, <1>21 DEF IInv

-----------------------------------------------------------------------------
(* Steps that leave the table alone and only move one thread on.          *)

\* What the invariant says of a thread that is not about to free an Fd.
LocalOK(t) ==
    /\ pc[t] \notin {"release", "fatal"}
    /\ pc[t] = "fill" => loc[t].fd \in held[t]
    /\ pc[t] \in {"get", "initev", "act"} =>
        /\ May(t, loc[t].fd) \/ Exiting(t)
        /\ loc[t].op \in {"dup", "dup2"} => t \in Allocators
        /\ loc[t].op = "dup2" => May(t, loc[t].new) /\ loc[t].fd # loc[t].new
    /\ pc[t] \in {"initev", "act"} =>
        /\ loc[t].f # Nil /\ fdtab[loc[t].fd] = loc[t].f
        /\ loc[t].fd \in held[t] \/ Exiting(t)
    /\ ci # -1 /\ t # Main => pc[t] = "idle"
    /\ pc[t] \in {"cleanup", "done"} => Exiting(t)
    /\ ci # -1 /\ t = Main =>
        /\ pc[t] \notin {"idle", "fill"}
        /\ pc[t] \in {"get", "initev", "act"} => loc[t].op = "close"
        /\ \A i \in Occupied :
            i < ci /\ i # 2 => pc[t] \in {"get", "initev", "act"} /\ loc[t].fd = i

\* Nothing but the state of one thread changes, apart from what nobody
\* depends on: structures that are out of reach may be freed.
LEMMA LocalStepFreeing ==
  ASSUME IInv, NEW t \in Threads, TypeOK', LocalOK(t)',
         fdtab' = fdtab, fdtabsz' = fdtabsz, nfd' = nfd, users' = users,
         held' = held, ci' = ci \/ t = Main,
         ci' # -1 => \A u \in Threads \ {t} : u = Main \/ pc[u] = "idle",
         \A u \in Threads \ {t} : pc'[u] = pc[u] /\ loc'[u] = loc[u],
         live' \subseteq live,
         \A j \in Slots : fdtab[j] \in live => fdtab[j] \in live',
         \A u \in Threads \ {t} :
            pc[u] \in {"initev", "act", "release"} /\ loc[u].f \in live => loc[u].f \in live'
  PROVE  IInv'
<1>1. NfdIsCount' /\ UsersAreRefs' /\ WithinTable' /\ Ownership'
  BY DEF IInv, NfdIsCount, UsersAreRefs, WithinTable, Ownership, Occupied, Refs
<1>2. NoFatal'
  BY DEF IInv, NoFatal, LocalOK
<1>3. NoDangling'
  <2>1. \A j \in Occupied' : fdtab'[j] \in live'
    BY DEF IInv, NoDangling, Occupied
  <2>2. pc'[t] \in {"initev", "act"} => /\ loc'[t].fd \in Slots
                                        /\ fdtab[loc'[t].fd] = loc'[t].f
                                        /\ loc'[t].f \in live'
    BY DEF IInv, LocalOK, NoDangling, Occupied, TypeOK, CallRecs
  <2>3. ASSUME NEW u \in Threads, pc'[u] = "fill" PROVE fdtab'[loc'[u].fd] # Nil
    <3>1. CASE u = t
      BY <2>3, <3>1 DEF IInv, LocalOK, Ownership, TypeOK, CallRecs
    <3>2. CASE u # t
      BY <2>3, <3>2 DEF IInv, NoDangling
    <3> QED BY <3>1, <3>2
  <2>4. ASSUME NEW u \in Threads, pc'[u] \in {"initev", "act", "release"}
        PROVE  loc'[u].f \in live'
    BY <2>2, <2>4 DEF IInv, NoDangling, LocalOK
  <2>5. ASSUME NEW u \in Threads, pc'[u] = "release"
        PROVE  u # t /\ \A j \in Slots : fdtab'[j] # loc'[u].f
    BY <2>5 DEF IInv, NoDangling, LocalOK
  <2>6. ASSUME NEW u \in Threads, pc'[u] = "release", NEW w \in Threads \ {u},
               pc'[w] \in {"initev", "act", "release"}
        PROVE  loc'[w].f # loc'[u].f
    <3>1. CASE w = t
      BY <2>2, <2>5, <2>6, <3>1 DEF LocalOK
    <3>2. CASE w # t
      BY <2>5, <2>6, <3>2 DEF IInv, NoDangling
    <3> QED BY <3>1, <3>2
  <2> QED BY <2>1, <2>3, <2>4, <2>5, <2>6 DEF NoDangling
<1>4. CallsAreValid'
  <2>1. \A u \in Threads \ {t} : Exiting(u) => Exiting(u)'
    BY DEF Exiting
  <2>2. \A u \in Threads, j \in Slots : May(u, j)' <=> May(u, j)
    BY DEF May, Unused
  <2> SUFFICES ASSUME NEW u \in Threads PROVE
        /\ pc'[u] = "fill" => loc'[u].fd \in held'[u]
        /\ pc'[u] \in {"get", "initev", "act"} =>
            /\ May(u, loc[u].fd)' \/ Exiting(u)'
            /\ loc'[u].op \in {"dup", "dup2"} => u \in Allocators
            /\ loc'[u].op = "dup2" => May(u, loc[u].new)' /\ loc'[u].fd # loc'[u].new
        /\ pc'[u] \in {"initev", "act"} =>
            /\ loc'[u].f # Nil /\ fdtab'[loc'[u].fd] = loc'[u].f
            /\ loc'[u].fd \in held'[u] \/ Exiting(u)'
    BY DEF CallsAreValid
  <2>3. CASE u = t
    BY <2>3 DEF LocalOK
  <2>4. CASE u # t
    <3>1. pc'[u] = pc[u] /\ loc'[u] = loc[u] /\ held'[u] = held[u]
      BY <2>4
    <3>2. May(u, loc[u].fd)' <=> May(u, loc[u].fd)
      BY <3>1 DEF May, Unused
    <3>3. May(u, loc[u].new)' <=> May(u, loc[u].new)
      BY <3>1 DEF May, Unused
    <3> QED BY <2>1, <2>4, <3>1, <3>2, <3>3 DEF IInv, CallsAreValid
  <2> QED BY <2>3, <2>4
<1>5. ExitIsQuiet'
  <2>1. Occupied' = Occupied
    BY DEF Occupied
  <2>2. \A u \in Threads : ci' # -1 /\ u # Main => pc'[u] = "idle"
    BY DEF LocalOK
  <2>3. \A u \in Threads : pc'[u] \in {"cleanup", "done"} => Exiting(u)'
    <3>1. \A u \in Threads \ {t} : Exiting(u) => Exiting(u)'
      BY DEF Exiting
    <3>2. pc'[t] \in {"cleanup", "done"} => Exiting(t)'
      BY DEF LocalOK
    <3> QED BY <3>1, <3>2 DEF IInv, ExitIsQuiet
  <2>4. ASSUME ci' # -1
        PROVE  /\ pc'[Main] \in {"get", "initev", "act", "release", "cleanup", "done"}
               /\ pc'[Main] \in {"get", "initev", "act"} => loc'[Main].op = "close"
               /\ \A i \in Occupied' : i < ci' /\ i # 2 =>
                    pc'[Main] \in {"get", "initev", "act"} /\ loc'[Main].fd = i
    <3>1. CASE t = Main
      BY <2>4, <3>1 DEF LocalOK, TypeOK, PCs
    <3>2. CASE t # Main
      BY <2>1, <2>4, <3>2, ThreadsAssumption DEF IInv, ExitIsQuiet
    <3> QED BY <3>1, <3>2
  <2> QED BY <2>2, <2>3, <2>4 DEF ExitIsQuiet
<1> QED BY <1>1, <1>2, <1>3, <1>4, <1>5 DEF IInv

\* The usual case: nothing is freed.
LEMMA LocalStep ==
  ASSUME IInv, NEW t \in Threads, TypeOK', LocalOK(t)',
         fdtab' = fdtab, fdtabsz' = fdtabsz, nfd' = nfd, users' = users,
         live' = live, held' = held, ci' = ci \/ t = Main,
         ci' # -1 => \A u \in Threads \ {t} : u = Main \/ pc[u] = "idle",
         \A u \in Threads \ {t} : pc'[u] = pc[u] /\ loc'[u] = loc[u]
  PROVE  IInv'
BY LocalStepFreeing

\* The types of the variables that a step of one thread leaves alone.
LEMMA TypeStep ==
  ASSUME TypeOK, NEW t \in Threads, UNCHANGED <<tabvars, live, users, held>>,
         type' \in [Fds -> Types], h' \in [Fds -> {"nil", "open", "sent"}],
         evs' \in [Fds -> Nat], hooked' \subseteq Fds, ci' \in -1..(MaxFd + 1),
         NEW l \in PCs, pc' = [pc EXCEPT ![t] = l],
         NEW r \in CallRecs, loc' = [loc EXCEPT ![t] = r]
  PROVE  TypeOK'
BY DEF TypeOK, tabvars

\* Calls on a descriptor start.
LEMMA CallInv ==
  ASSUME IInv, Disciplined, NEW t \in Threads, NEW i \in Slots, NEW j \in Slots,
         NEW o \in {"close", "dup", "dup2", "io", "onclose", "send"}, NEW c \in BOOLEAN,
         Call(t, o, i, j, c), o \in {"dup", "dup2"} => t \in Allocators,
         o = "dup2" => May(t, j) /\ i # j
  PROVE  IInv'
<1> DEFINE r == [NoCall EXCEPT !.op = o, !.fd = i, !.new = j, !.closeh = c]
<1>1. r \in CallRecs /\ r.op = o /\ r.fd = i /\ r.new = j
  BY NoCallType DEF CallRecs, NoCall
<1>2. TypeOK /\ pc' = [pc EXCEPT ![t] = "get"] /\ loc' = [loc EXCEPT ![t] = r]
  BY DEF IInv, Call, Goto
<1>3. UNCHANGED <<tabvars, fdvars, held, ci>> /\ ci = -1 /\ May(t, i) /\ pc[t] = "idle"
  BY DEF Call, Disciplined
<1> HIDE DEF r
<1>4. TypeOK'
  BY <1>1, <1>2, <1>3, TypeStep DEF TypeOK, PCs, fdvars, tabvars
<1>5. pc'[t] = "get" /\ loc'[t] = r
  BY <1>2 DEF TypeOK
<1>6. May(t, loc[t].fd)' /\ (o = "dup2" => May(t, loc[t].new)')
  BY <1>1, <1>3, <1>5 DEF May, Unused
<1>7. LocalOK(t)'
  BY <1>1, <1>3, <1>5, <1>6 DEF LocalOK, Exiting
<1>8. \A u \in Threads \ {t} : pc'[u] = pc[u] /\ loc'[u] = loc[u]
  BY <1>2 DEF TypeOK
<1> QED BY <1>3, <1>4, <1>7, <1>8, LocalStep DEF tabvars, fdvars

\* A call returns.
LEMMA ReturnLocal ==
  ASSUME TypeOK, NEW t \in Threads, Return(t), ci' = ci, fdtab' = fdtab,
         ci # -1 => t = Main /\ \A i \in Occupied : ~(i < ci /\ i # 2)
  PROVE  /\ LocalOK(t)'
         /\ \A u \in Threads \ {t} : pc'[u] = pc[u] /\ loc'[u] = loc[u]
<1>1. pc'[t] = IF ci # -1 THEN "cleanup" ELSE "idle"
  BY DEF TypeOK, Return, Goto
<1>2. \A u \in Threads \ {t} : pc'[u] = pc[u] /\ loc'[u] = loc[u]
  BY DEF TypeOK, Return, Goto
<1>3. Occupied' = Occupied
  BY DEF Occupied
<1> QED BY <1>1, <1>2, <1>3 DEF LocalOK, Exiting

\* Its record and its place have their types then.
LEMMA ReturnType ==
  ASSUME TypeOK, NEW t \in Threads, Return(t)
  PROVE  pc' \in [Threads -> PCs] /\ loc' \in [Threads -> CallRecs]
BY NoCallType DEF TypeOK, Return, Goto, PCs

\* A call that only a thread outside cleanup() makes returns.
LEMMA PlainReturn ==
  ASSUME IInv, NEW t \in Threads, Return(t), TypeOK',
         UNCHANGED <<tabvars, live, users, held, ci>>, ci = -1
  PROVE  IInv'
<1>1. TypeOK
  BY DEF IInv
<1>2. fdtab' = fdtab /\ fdtabsz' = fdtabsz /\ nfd' = nfd
  BY DEF tabvars
<1>3. /\ LocalOK(t)'
      /\ \A u \in Threads \ {t} : pc'[u] = pc[u] /\ loc'[u] = loc[u]
  BY <1>1, <1>2, ReturnLocal
<1> QED BY <1>2, <1>3, LocalStep

\* A thread in the middle of a call other than close is not in cleanup().
LEMMA NotExiting ==
  ASSUME IInv, NEW t \in Threads,
         pc[t] = "fill" \/ (pc[t] = "act" /\ loc[t].op # "close")
  PROVE  ci = -1
BY DEF IInv, ExitIsQuiet

\* A transfer ends.
LEMMA IoInv ==
  ASSUME IInv, NEW t \in Threads, io(t)
  PROVE  IInv'
<1>1. TypeOK /\ Return(t) /\ UNCHANGED <<tabvars, fdvars, held, ci>>
  BY DEF IInv, io
<1>2. TypeOK'
  BY <1>1, ReturnType DEF TypeOK, tabvars, fdvars
<1>3. ci = -1
  BY NotExiting DEF io, Acts
<1> QED BY <1>1, <1>2, <1>3, PlainReturn DEF fdvars

\* fdtonclose() sets the hook of an Fd.
LEMMA OncloseInv ==
  ASSUME IInv, NEW t \in Threads, fdtonclose(t)
  PROVE  IInv'
<1>1. TypeOK /\ Return(t) /\ UNCHANGED <<tabvars, live, users, type, h, evs, held, ci>>
  BY DEF IInv, fdtonclose
<1>2. loc[t].f \in Fds /\ hooked' = hooked \cup {loc[t].f}
  BY <1>1 DEF IInv, fdtonclose, Acts, CallsAreValid, TypeOK, CallRecs
<1>3. TypeOK'
  BY <1>1, <1>2, ReturnType DEF TypeOK, tabvars
<1>4. ci = -1
  BY NotExiting DEF fdtonclose, Acts
<1> QED BY <1>1, <1>3, <1>4, PlainReturn

\* open() and its like fill the new Fd.
LEMMA FillInv ==
  ASSUME IInv, NEW t \in Threads, NEW ty \in Kinds, Fill(t, ty)
  PROVE  IInv'
<1>1. TypeOK /\ Return(t) /\ UNCHANGED <<tabvars, live, users, evs, hooked, held, ci>>
  BY DEF IInv, Fill
<1>2. fdtab[loc[t].fd] \in Fds
  BY <1>1 DEF Fill, TypeOK, CallRecs
<1>3. type' \in [Fds -> Types] /\ h' \in [Fds -> {"nil", "open", "sent"}]
  BY <1>1, <1>2, KindsAreTypes DEF Fill, TypeOK
<1>4. TypeOK'
  BY <1>1, <1>3, ReturnType DEF TypeOK, tabvars
<1>5. ci = -1
  BY NotExiting DEF Fill
<1> QED BY <1>1, <1>4, <1>5, PlainReturn

\* initovev() under the lock.
LEMMA InitovevInv ==
  ASSUME IInv, NEW t \in Threads, initovev(t)
  PROVE  IInv'
<1>1. /\ TypeOK /\ pc' = [pc EXCEPT ![t] = "act"] /\ loc' = loc
      /\ UNCHANGED <<tabvars, live, users, type, h, hooked, held, ci>>
  BY DEF IInv, initovev, Goto
<1>2. loc[t].f \in Fds /\ pc[t] = "initev"
  BY <1>1 DEF IInv, initovev, CallsAreValid, TypeOK, CallRecs
<1>3. TypeOK'
  BY <1>1, <1>2 DEF TypeOK, PCs, initovev, EventsAfter, tabvars
<1>4. pc'[t] = "act" /\ \A u \in Threads \ {t} : pc'[u] = pc[u] /\ loc'[u] = loc[u]
  BY <1>1 DEF TypeOK
<1>5. May(t, loc[t].fd)' <=> May(t, loc[t].fd)
  BY <1>1 DEF May, Unused
<1>6. May(t, loc[t].new)' <=> May(t, loc[t].new)
  BY <1>1 DEF May, Unused
<1>7. LocalOK(t)'
  BY <1>1, <1>2, <1>4, <1>5, <1>6 DEF IInv, LocalOK, CallsAreValid, ExitIsQuiet, Exiting, Occupied, tabvars
<1> QED BY <1>1, <1>3, <1>4, <1>7, LocalStep DEF tabvars, IInv, ExitIsQuiet

\* fdtget(): an empty slot ends the call, else the Fd is that of the slot.
LEMMA GetInv ==
  ASSUME IInv, NEW t \in Threads, fdtget(t)
  PROVE  IInv'
<1>1. /\ TypeOK /\ pc[t] = "get" /\ loc[t] \in CallRecs
      /\ UNCHANGED <<tabvars, fdvars, held, ci>>
  BY DEF IInv, fdtget, TypeOK
<1>2. fdtab' = fdtab /\ fdtabsz' = fdtabsz /\ nfd' = nfd /\ live' = live /\ users' = users
  BY <1>1 DEF tabvars, fdvars
<1>3. loc[t].fd \in Slots
  BY <1>1 DEF CallRecs
<1> DEFINE f == IF loc[t].fd < fdtabsz THEN fdtab[loc[t].fd] ELSE Nil
<1>4. f = fdtab[loc[t].fd]
  BY <1>1, <1>3 DEF IInv, WithinTable, Occupied, TypeOK
<1>5. CASE f = Nil
  <2>1. Return(t)
    BY <1>5 DEF fdtget
  <2>2. TypeOK'
    BY <1>1, <2>1, ReturnType DEF TypeOK, tabvars, fdvars
  <2>3. ci # -1 => t = Main /\ \A i \in Occupied : ~(i < ci /\ i # 2)
    BY <1>1, <1>3, <1>4, <1>5 DEF IInv, ExitIsQuiet, Occupied
  <2>4. /\ LocalOK(t)'
        /\ \A u \in Threads \ {t} : pc'[u] = pc[u] /\ loc'[u] = loc[u]
    BY <1>1, <1>2, <2>1, <2>3, ReturnLocal
  <2> QED BY <1>1, <1>2, <2>2, <2>3, <2>4, LocalStep DEF IInv, ExitIsQuiet
<1>6. CASE f # Nil
  <2> DEFINE l == IF type[f] \in Pipes /\ evs[f] = 0 THEN "initev" ELSE "act"
             r == [loc[t] EXCEPT !.f = f]
  <2>1. pc' = [pc EXCEPT ![t] = l] /\ loc' = [loc EXCEPT ![t] = r]
    BY <1>1, <1>6 DEF fdtget, Goto, TypeOK
  <2>2. l \in {"initev", "act"} /\ l \in PCs
    BY DEF PCs
  <2>3. f \in Fds
    BY <1>1, <1>3, <1>4, <1>6 DEF TypeOK
  <2>4. /\ r \in CallRecs
        /\ r.f = f /\ r.fd = loc[t].fd /\ r.op = loc[t].op /\ r.new = loc[t].new
    BY <1>1, <2>3 DEF CallRecs
  <2> HIDE DEF f, l, r
  <2>5. TypeOK'
    BY <1>1, <2>1, <2>2, <2>4, TypeStep DEF TypeOK, tabvars, fdvars
  <2>6. pc'[t] = l /\ loc'[t] = r /\ \A u \in Threads \ {t} : pc'[u] = pc[u] /\ loc'[u] = loc[u]
    BY <1>1, <2>1 DEF TypeOK
  <2>7. May(t, loc[t].fd)' <=> May(t, loc[t].fd)
    BY <1>1, <2>4, <2>6 DEF May, Unused
  <2>8. May(t, loc[t].new)' <=> May(t, loc[t].new)
    BY <1>1, <2>4, <2>6 DEF May, Unused
  <2>9. loc[t].fd \in held[t] \/ Exiting(t)
    BY <1>1, <1>3, <1>4, <1>6 DEF IInv, CallsAreValid, May, Unused, Ownership
  <2>10. Occupied' = Occupied
    BY <1>2 DEF Occupied
  <2>11. LocalOK(t)'
    BY <1>1, <1>2, <1>4, <1>6, <2>2, <2>4, <2>6, <2>7, <2>8, <2>9, <2>10
       DEF IInv, LocalOK, CallsAreValid, ExitIsQuiet, Exiting
  <2> QED BY <1>1, <1>2, <2>5, <2>6, <2>11, LocalStep DEF IInv, ExitIsQuiet
<1> QED BY <1>5, <1>6

\* A call goes back to its start with another operation: open() that fails
\* and sendfd() that has sent the handle both close the descriptor.
LEMMA RestartInv ==
  ASSUME IInv, NEW t \in Threads, TypeOK',
         UNCHANGED <<tabvars, live, users, held, ci>>, ci = -1,
         pc[t] = "fill" \/ pc[t] = "act",
         pc' = [pc EXCEPT ![t] = "get"], loc' = [loc EXCEPT ![t].op = "close"]
  PROVE  IInv'
<1>1. TypeOK
  BY DEF IInv
<1>2. fdtab' = fdtab /\ fdtabsz' = fdtabsz /\ nfd' = nfd
  BY DEF tabvars
<1>3. /\ pc'[t] = "get" /\ loc'[t].op = "close" /\ loc'[t].fd = loc[t].fd
      /\ \A u \in Threads \ {t} : pc'[u] = pc[u] /\ loc'[u] = loc[u]
  BY <1>1 DEF TypeOK, CallRecs
<1>4. loc[t].fd \in held[t]
  BY DEF IInv, CallsAreValid, Exiting
<1>5. May(t, loc[t].fd)'
  BY <1>3, <1>4 DEF May
<1>6. LocalOK(t)'
  BY <1>3, <1>5 DEF LocalOK
<1> QED BY <1>2, <1>3, <1>6, LocalStep

\* open() fails and closes the new descriptor again.
LEMMA FillFailsInv ==
  ASSUME IInv, NEW t \in Threads, NEW ty \in Kinds, FillFails(t, ty)
  PROVE  IInv'
<1>1. /\ TypeOK /\ pc[t] = "fill"
      /\ UNCHANGED <<tabvars, live, users, h, evs, hooked, held, ci>>
      /\ pc' = [pc EXCEPT ![t] = "get"] /\ loc' = [loc EXCEPT ![t].op = "close"]
  BY DEF IInv, FillFails, Goto
<1>2. fdtab[loc[t].fd] \in Fds
  BY <1>1 DEF FillFails, TypeOK, CallRecs
<1>3. type' \in [Fds -> Types]
  BY <1>1, <1>2, KindsAreTypes DEF FillFails, TypeOK
<1>4. pc' \in [Threads -> PCs] /\ loc' \in [Threads -> CallRecs]
  BY SMTT(30), <1>1 DEF TypeOK, PCs, CallRecs
<1>5. TypeOK'
  BY <1>1, <1>3, <1>4 DEF TypeOK, tabvars
<1>6. ci = -1
  BY <1>1, NotExiting
<1> QED BY <1>1, <1>5, <1>6, RestartInv

\* sendfd() hands a pipe over and closes the descriptor, or fails.
LEMMA SendfdInv ==
  ASSUME IInv, NEW t \in Threads, sendfd(t)
  PROVE  IInv'
<1>1. /\ TypeOK /\ pc[t] = "act" /\ loc[t].op = "send"
      /\ UNCHANGED <<tabvars, live, users, type, evs, hooked, held, ci>>
  BY DEF IInv, sendfd, Acts
<1>2. ci = -1
  BY <1>1, NotExiting
<1>3. CASE type[loc[t].f] \in Pipes
  <2>1. /\ pc' = [pc EXCEPT ![t] = "get"] /\ loc' = [loc EXCEPT ![t].op = "close"]
        /\ h' = [h EXCEPT ![loc[t].f] = "sent"]
    BY <1>3 DEF sendfd, Goto
  <2>2. pc' \in [Threads -> PCs] /\ loc' \in [Threads -> CallRecs]
    BY ZenonT(40), <1>1, <2>1 DEF TypeOK, PCs, CallRecs
  <2>3. TypeOK'
    BY <1>1, <2>1, <2>2 DEF TypeOK, tabvars
  <2> QED BY <1>1, <1>2, <2>1, <2>3, RestartInv
<1>4. CASE type[loc[t].f] \notin Pipes
  <2>1. Return(t) /\ h' = h
    BY <1>4 DEF sendfd
  <2>2. TypeOK'
    BY <1>1, <2>1, ReturnType DEF TypeOK, tabvars
  <2> QED BY <1>1, <1>2, <2>1, <2>2, PlainReturn
<1> QED BY <1>3, <1>4
\* releasef(): the structure that is freed is out of everybody's reach.
LEMMA ReleasefInv ==
  ASSUME IInv, NEW t \in Threads, releasef(t)
  PROVE  IInv'
<1>1. /\ TypeOK /\ pc[t] = "release" /\ Return(t) /\ loc[t].f \in Fds
      /\ UNCHANGED <<tabvars, users, type, held, ci>>
      /\ live' = live \ {loc[t].f}
  BY DEF IInv, releasef, NoDangling, TypeOK
<1>2. fdtab' = fdtab /\ fdtabsz' = fdtabsz /\ nfd' = nfd
  BY <1>1 DEF tabvars
<1>3. h' \in [Fds -> {"nil", "open", "sent"}] /\ evs' \in [Fds -> Nat] /\ hooked' \subseteq Fds
  BY <1>1 DEF releasef, TypeOK
<1>4. TypeOK'
  BY <1>1, <1>3, ReturnType DEF TypeOK, tabvars
<1>5. ci # -1 => t = Main /\ \A i \in Occupied : ~(i < ci /\ i # 2)
  BY <1>1 DEF IInv, ExitIsQuiet
<1>6. /\ LocalOK(t)'
      /\ \A u \in Threads \ {t} : pc'[u] = pc[u] /\ loc'[u] = loc[u]
  BY <1>1, <1>2, <1>5, ReturnLocal
<1>7. \A j \in Slots : fdtab[j] \in live => fdtab[j] \in live'
  BY <1>1 DEF IInv, NoDangling
<1>8. \A u \in Threads \ {t} :
        pc[u] \in {"initev", "act", "release"} /\ loc[u].f \in live => loc[u].f \in live'
  BY <1>1 DEF IInv, NoDangling
<1>9. ci' # -1 => \A u \in Threads \ {t} : u = Main \/ pc[u] = "idle"
  BY <1>1 DEF IInv, ExitIsQuiet
<1> QED BY <1>1, <1>2, <1>4, <1>6, <1>7, <1>8, <1>9, LocalStepFreeing

\* exits() calls the handler.
LEMMA ExitsInv ==
  ASSUME IInv, Disciplined, Exits
  PROVE  IInv'
<1>1. /\ TypeOK /\ pc' = [pc EXCEPT ![Main] = "cleanup"] /\ loc' = loc /\ ci' = 0
      /\ UNCHANGED <<tabvars, fdvars, held>> /\ \A t \in Threads : pc[t] = "idle"
  BY DEF IInv, Exits, Goto, Disciplined
<1>2. TypeOK'
  <2>1. pc' \in [Threads -> PCs] /\ loc' \in [Threads -> CallRecs]
    BY <1>1 DEF TypeOK, PCs
  <2>2. ci' \in -1..(MaxFd + 1)
    BY <1>1, SlotsAssumption
  <2> QED BY <1>1, <2>1, <2>2 DEF TypeOK, tabvars, fdvars
<1>3. /\ pc'[Main] = "cleanup"
      /\ \A u \in Threads \ {Main} : pc'[u] = pc[u] /\ loc'[u] = loc[u]
  BY <1>1, ThreadsAssumption DEF TypeOK
<1>4. \A i \in Occupied' : ~(i < ci')
  BY <1>1, SlotsAssumption DEF Occupied, Slots
<1>5. LocalOK(Main)'
  BY <1>1, <1>3, <1>4 DEF LocalOK, Exiting
<1> QED BY <1>1, <1>2, <1>3, <1>5, ThreadsAssumption, LocalStep DEF tabvars, fdvars

\* cleanup(): a step of its loop, and what comes after it.
LEMMA CleanupInv ==
  ASSUME IInv, cleanup
  PROVE  IInv'
<1>1. TypeOK /\ pc[Main] = "cleanup" /\ UNCHANGED <<tabvars, fdvars, held>> /\ Main \in Threads
  BY ThreadsAssumption DEF IInv, cleanup
<1>2. /\ fdtab' = fdtab /\ fdtabsz' = fdtabsz /\ nfd' = nfd /\ live' = live /\ users' = users
      /\ Occupied' = Occupied
  BY <1>1 DEF tabvars, fdvars, Occupied
<1>3. ci # -1 /\ ci \in Nat /\ \A i \in Occupied : ~(i < ci /\ i # 2)
  BY <1>1 DEF IInv, ExitIsQuiet, Exiting, TypeOK
<1>4. \A u \in Threads \ {Main} : pc[u] = "idle"
  BY <1>3 DEF IInv, ExitIsQuiet
<1>5. ASSUME NEW i \in Slots, CloseFromCleanup(i), ci' \in -1..(MaxFd + 1), ci' # -1,
             \A j \in Occupied : j < ci' /\ j # 2 => j = i
      PROVE  IInv'
  <2> DEFINE r == [NoCall EXCEPT !.op = "close", !.fd = i]
  <2>1. r \in CallRecs /\ r.op = "close" /\ r.fd = i
    BY NoCallType DEF CallRecs, NoCall
  <2>2. pc' = [pc EXCEPT ![Main] = "get"] /\ loc' = [loc EXCEPT ![Main] = r]
    BY <1>5 DEF CloseFromCleanup, Goto
  <2> HIDE DEF r
  <2>3. TypeOK'
    BY <1>1, <1>5, <2>1, <2>2, TypeStep DEF TypeOK, PCs, fdvars, tabvars
  <2>4. pc'[Main] = "get" /\ loc'[Main] = r
    BY <1>1, <2>2 DEF TypeOK
  <2>5. \A u \in Threads \ {Main} : pc'[u] = pc[u] /\ loc'[u] = loc[u]
    BY <1>1, <2>2 DEF TypeOK
  <2>6. LocalOK(Main)'
    BY <1>2, <1>5, <2>1, <2>4 DEF LocalOK, Exiting
  <2> QED BY <1>1, <1>2, <1>4, <2>3, <2>5, <2>6, LocalStep
<1>6. CASE InLoop /\ ci' = ci + 1 /\ fdtab[ci] # Nil /\ ci # 2 /\ CloseFromCleanup(ci)
  <2>1. ci \in Slots /\ ci' \in -1..(MaxFd + 1) /\ ci' # -1
    BY <1>3, <1>6, SlotsAssumption DEF InLoop, Slots
  <2>2. \A j \in Occupied : j < ci' /\ j # 2 => j = ci
    BY <1>3, <1>6, SlotsAssumption DEF Occupied, Slots
  <2> QED BY <1>5, <1>6, <2>1, <2>2
<1>7. CASE InLoop /\ ci' = ci + 1 /\ ~(fdtab[ci] # Nil /\ ci # 2) /\ UNCHANGED <<pc, loc>>
  <2>1. ci \in Slots /\ ci' \in -1..(MaxFd + 1) /\ ci' # -1
    BY <1>3, <1>7, SlotsAssumption DEF InLoop, Slots
  <2>2. TypeOK'
    BY <1>1, <1>7, <2>1 DEF TypeOK, tabvars, fdvars
  <2>3. \A j \in Occupied : ~(j < ci' /\ j # 2)
    BY <1>3, <1>7, SlotsAssumption DEF Occupied, Slots
  <2>4. LocalOK(Main)'
    BY <1>1, <1>2, <1>7, <2>1, <2>3 DEF LocalOK, Exiting
  <2> QED BY <1>1, <1>2, <1>4, <1>7, <2>2, <2>4, LocalStep
<1>8. CASE ~InLoop /\ ci' = ci /\ fdtab[2] = Nil /\ Goto(Main, "done") /\ loc' = loc
  <2>1. TypeOK'
    BY <1>1, <1>8 DEF TypeOK, tabvars, fdvars, Goto, PCs
  <2>2. /\ pc'[Main] = "done"
        /\ \A u \in Threads \ {Main} : pc'[u] = pc[u] /\ loc'[u] = loc[u]
    BY <1>1, <1>8 DEF TypeOK, Goto
  <2>3. LocalOK(Main)'
    BY <1>2, <1>3, <1>8, <2>2 DEF LocalOK, Exiting
  <2> QED BY <1>1, <1>2, <1>4, <1>8, <2>1, <2>2, <2>3, LocalStep
\* The check of cleanup() succeeds: only 2 is left.
<1>9. CASE ~InLoop /\ ci' = ci /\ fdtab[2] # Nil
  <2>1. \A j \in Occupied : j < ci
    BY <1>1, <1>3, <1>9, SlotsAssumption DEF IInv, WithinTable, InLoop, Occupied, Slots, TypeOK
  <2>2. 2 \in Slots
    BY SlotsAssumption DEF Slots
  <2>3. Occupied = {2}
    BY <1>3, <1>9, <2>1, <2>2 DEF Occupied
  <2>4. nfd = 1
    BY <2>3, FS_Singleton DEF IInv, NfdIsCount
  <2>5. CloseFromCleanup(2)
    BY <1>9, <2>4 DEF cleanup
  <2>6. ci' \in -1..(MaxFd + 1)
    BY <1>1, <1>9 DEF TypeOK
  <2> QED BY <1>3, <1>5, <1>9, <2>2, <2>5, <2>6
<1> QED BY <1>6, <1>7, <1>8, <1>9 DEF cleanup
\* A number changes hands between two threads that are in no call.
LEMMA GiveInv ==
  ASSUME IInv, Disciplined, NEW t \in Threads, NEW u \in Threads, NEW i \in Slots, Give(t, u, i)
  PROVE  IInv'
<1>1. /\ TypeOK /\ pc[t] = "idle" /\ pc[u] = "idle" /\ u # t /\ i \in held[t] /\ ci = -1
      /\ held' = [held EXCEPT ![t] = @ \ {i}, ![u] = @ \cup {i}]
      /\ UNCHANGED <<tabvars, fdvars, ci, pc, loc>>
  BY DEF IInv, Give, Disciplined
<1>2. /\ held'[t] = held[t] \ {i} /\ held'[u] = held[u] \cup {i}
      /\ \A w \in Threads \ {t, u} : held'[w] = held[w]
      /\ held' \in [Threads -> SUBSET Slots]
  BY <1>1 DEF TypeOK
<1>3. /\ fdtab' = fdtab /\ fdtabsz' = fdtabsz /\ nfd' = nfd /\ live' = live /\ users' = users
      /\ pc' = pc /\ loc' = loc /\ ci' = ci
  BY <1>1 DEF tabvars, fdvars
<1>4. TypeOK'
  BY <1>1, <1>2, <1>3 DEF TypeOK, fdvars
<1>5. NfdIsCount' /\ UsersAreRefs' /\ WithinTable' /\ NoDangling' /\ NoFatal' /\ ExitIsQuiet'
  BY <1>3 DEF IInv, NfdIsCount, UsersAreRefs, WithinTable, NoDangling, NoFatal, ExitIsQuiet,
              Exiting, Occupied, Refs
<1>6. Ownership'
  <2>1. \A j \in Slots : (\E w \in Threads : j \in held'[w]) <=> (\E w \in Threads : j \in held[w])
    BY <1>1, <1>2
  <2>2. \A w, x \in Threads : w # x => held'[w] \cap held'[x] = {}
    BY <1>1, <1>2 DEF IInv, Ownership
  <2> QED BY <1>3, <2>1, <2>2 DEF IInv, Ownership
<1>7. CallsAreValid'
  <2>1. \A j \in Slots : Unused(j)' <=> Unused(j)
    BY <1>1, <1>2 DEF Unused
  <2>2. \A w \in Threads \ {t, u}, j \in Slots : May(w, j) => j \in held'[w] \/ (Allocators \subseteq {w} /\ Unused(j)')
    BY <1>2, <2>1 DEF May
  <2>3. \A w \in Threads : loc[w].fd \in Slots /\ loc[w].new \in Slots
    BY <1>1 DEF TypeOK, CallRecs
  <2>4. \A w \in Threads \ {t, u} : /\ May(w, loc[w].fd) => May(w, loc[w].fd)'
                                    /\ May(w, loc[w].new) => May(w, loc[w].new)'
    BY <1>3, <2>2, <2>3 DEF May
  <2>5. \A w \in Threads : pc[w] # "idle" => w \notin {t, u}
    BY <1>1
  <2> QED BY <1>2, <1>3, <2>4, <2>5 DEF IInv, CallsAreValid, Exiting
<1> QED BY <1>4, <1>5, <1>6, <1>7 DEF IInv

-----------------------------------------------------------------------------
(* Steps that put an Fd into a slot: open, dup and dup2.                  *)

\* A slot that is free or that belongs to t refers to g from now on.
LEMMA AssignStep ==
  ASSUME IInv, NEW t \in Allocators, NEW i \in Slots, NEW g \in Fds, ci = -1, ci' = ci,
         fdtab[i] = Nil \/ i \in held[t],
         fdtab'[i] = g, \A j \in Slots \ {i} : fdtab'[j] = fdtab[j],
         held'[t] = held[t] \cup {i}, \A u \in Threads \ {t} : held'[u] = held[u],
         fdtabsz' >= fdtabsz, i < fdtabsz',
         \A u \in Threads \ {t} : pc'[u] = pc[u] /\ loc'[u] = loc[u],
         live \subseteq live', g \in live',
         TypeOK', NfdIsCount', UsersAreRefs',
         \A u \in Threads \ {t} : pc[u] = "release" => loc[u].f # g,
         pc'[t] \in {"idle", "fill", "release"}, pc'[t] = "fill" => loc'[t].fd = i,
         pc'[t] = "release" => /\ loc'[t].f = fdtab[i] /\ fdtab[i] # Nil
                               /\ \A j \in Slots : fdtab'[j] # loc'[t].f
  PROVE  IInv'
<1>1. TypeOK /\ t \in Threads
  BY ThreadsAssumption DEF IInv
<1>2. \A u \in Threads \ {t} : i \notin held[u]
  BY <1>1 DEF IInv, Ownership
<1>3. \A u \in Threads \ {t} : \A j \in held[u] : fdtab'[j] = fdtab[j]
  BY <1>1, <1>2 DEF TypeOK
<1>4. NoFatal' /\ ExitIsQuiet'
  BY <1>1 DEF IInv, NoFatal, ExitIsQuiet, Exiting
<1>5. Ownership'
  <2>1. ASSUME NEW j \in Slots
        PROVE  fdtab'[j] # Nil <=> \E u \in Threads : j \in held'[u]
    <3>1. CASE j = i
      BY <1>1, <3>1, NilAssumption
    <3>2. CASE j # i
      BY <1>1, <3>2 DEF IInv, Ownership
    <3> QED BY <3>1, <3>2
  <2>2. \A u, w \in Threads : u # w => held'[u] \cap held'[w] = {}
    BY <1>1, <1>2 DEF IInv, Ownership
  <2> QED BY <2>1, <2>2 DEF Ownership
<1>6. WithinTable'
  <2>1. \A j \in Occupied : j < fdtabsz /\ j \in Int
    BY DEF IInv, WithinTable, Occupied, Slots
  <2>2. fdtabsz \in Nat /\ fdtabsz' \in Nat
    BY <1>1 DEF TypeOK
  <2>3. \A j \in Occupied' : j \in Occupied \/ j = i
    BY DEF Occupied
  <2> QED BY <2>1, <2>2, <2>3 DEF WithinTable
\* The other threads are sure of their numbers: t allocates as well.
<1>7. \A u \in Threads \ {t}, j \in Slots : May(u, j) => j \in held[u]
  BY DEF May
<1>8. CallsAreValid'
  <2> SUFFICES ASSUME NEW u \in Threads PROVE
        /\ pc'[u] = "fill" => loc'[u].fd \in held'[u]
        /\ pc'[u] \in {"get", "initev", "act"} =>
            /\ May(u, loc[u].fd)' \/ Exiting(u)'
            /\ loc'[u].op \in {"dup", "dup2"} => u \in Allocators
            /\ loc'[u].op = "dup2" => May(u, loc[u].new)' /\ loc'[u].fd # loc'[u].new
        /\ pc'[u] \in {"initev", "act"} =>
            /\ loc'[u].f # Nil /\ fdtab'[loc'[u].fd] = loc'[u].f
            /\ loc'[u].fd \in held'[u] \/ Exiting(u)'
    BY DEF CallsAreValid
  <2>1. CASE u = t
    BY <2>1
  <2>2. CASE u # t
    <3>1. /\ pc'[u] = pc[u] /\ loc'[u] = loc[u] /\ held'[u] = held[u]
          /\ loc[u].fd \in Slots /\ loc[u].new \in Slots /\ ~Exiting(u)
      BY <1>1, <2>2 DEF TypeOK, CallRecs, Exiting
    <3>2. May(u, loc[u].fd) => May(u, loc[u].fd)'
      BY <1>7, <2>2, <3>1 DEF May
    <3>3. May(u, loc[u].new) => May(u, loc[u].new)'
      BY <1>7, <2>2, <3>1 DEF May
    <3> QED BY <1>3, <2>2, <3>1, <3>2, <3>3 DEF IInv, CallsAreValid
  <2> QED BY <2>1, <2>2
<1>9. NoDangling'
  <2>1. \A j \in Occupied' : fdtab'[j] \in live'
    BY DEF IInv, NoDangling, Occupied
  <2>2. ASSUME NEW u \in Threads, pc'[u] = "fill" PROVE fdtab'[loc'[u].fd] # Nil
    <3>1. CASE u = t
      BY <2>2, <3>1, NilAssumption
    <3>2. CASE u # t
      <4>1. loc[u].fd \in held[u] /\ fdtab[loc[u].fd] # Nil
        BY <2>2, <3>2 DEF IInv, CallsAreValid, NoDangling
      <4> QED BY <1>3, <3>2, <4>1
    <3> QED BY <3>1, <3>2
  <2>3. pc'[t] = "release" => loc'[t].f \in live
    BY DEF IInv, NoDangling, Occupied
  <2>4. ASSUME NEW u \in Threads, pc'[u] \in {"initev", "act", "release"}
        PROVE  loc'[u].f \in live'
    BY <2>3, <2>4 DEF IInv, NoDangling
  <2>5. ASSUME NEW u \in Threads, pc'[u] = "release"
        PROVE  \A j \in Slots : fdtab'[j] # loc'[u].f
    BY <2>5 DEF IInv, NoDangling
  <2>6. ASSUME NEW u \in Threads, pc'[u] = "release", NEW w \in Threads \ {u},
               pc'[w] \in {"initev", "act", "release"}
        PROVE  loc'[w].f # loc'[u].f
    <3>1. CASE u # t /\ w # t
      BY <2>6, <3>1 DEF IInv, NoDangling
    <3>2. CASE w = t
      BY <2>6, <3>2 DEF IInv, NoDangling
    <3>3. CASE u = t /\ pc[w] = "release"
      BY <2>6, <3>3 DEF IInv, NoDangling
    <3>4. CASE u = t /\ pc[w] \in {"initev", "act"}
      <4>1. /\ loc'[w] = loc[w] /\ loc[w].fd \in held[w] /\ fdtab[loc[w].fd] = loc[w].f
            /\ loc[w].fd \in Slots
        BY <1>1, <2>6, <3>4 DEF IInv, CallsAreValid, Exiting, TypeOK, CallRecs
      <4> QED BY <1>3, <2>5, <2>6, <3>4, <4>1
    <3> QED BY <2>6, <3>1, <3>2, <3>3, <3>4
  <2> QED BY <2>1, <2>2, <2>4, <2>5, <2>6 DEF NoDangling
<1> QED BY <1>4, <1>5, <1>6, <1>8, <1>9 DEF IInv
\* need() only grows the table.
LEMMA NeedGrows ==
  ASSUME TypeOK, NEW n \in Nat, need(n)
  PROVE  fdtabsz' \in Nat /\ fdtabsz' >= fdtabsz /\ n <= fdtabsz'
<1>1. PICK k \in 0..(MaxFd + 1) : fdtabsz' = fdtabsz + Chunk * k /\ n <= fdtabsz'
  BY DEF need
<1>2. k \in Nat /\ Chunk \in Nat /\ fdtabsz \in Nat
  BY SlotsAssumption, ChunkAssumption DEF TypeOK
<1>3. Chunk * k \in Nat
  BY <1>2
<1> HIDE DEF need
<1> QED BY <1>1, <1>2, <1>3

\* What fdtalloc() does to the table and to its counters.
LEMMA AllocCounts ==
  ASSUME IInv, NEW t \in Threads, NEW i \in Slots, NEW f \in Fds, fdtalloc(t, i, f)
  PROVE  /\ fdtab[i] = Nil /\ fdtab'[i] = f /\ \A j \in Slots \ {i} : fdtab'[j] = fdtab[j]
         /\ fdtab' \in Table /\ nfd' \in Nat /\ NfdIsCount'
         /\ fdtabsz' \in Nat /\ fdtabsz' >= fdtabsz /\ i < fdtabsz'
         /\ held' \in [Threads -> SUBSET Slots] /\ held'[t] = held[t] \cup {i}
         /\ \A u \in Threads \ {t} : held'[u] = held[u]
         /\ Cardinality(RefsIn(fdtab', f)) = Cardinality(RefsIn(fdtab, f)) + 1
         /\ \A g \in Fds \ {f} : RefsIn(fdtab', g) = RefsIn(fdtab, g)
<1>1. /\ TypeOK /\ NfdIsCount /\ FreeSlot(i) /\ need(nfd + 1) /\ nfd' = nfd + 1
      /\ fdtab' = [fdtab EXCEPT ![i] = f] /\ held' = [held EXCEPT ![t] = @ \cup {i}]
  BY DEF IInv, fdtalloc
<1>2. fdtab[i] = Nil
  BY <1>1, FreeSlotIsFree
<1>3. /\ fdtab \in Table /\ fdtab' \in Table /\ fdtab'[i] = f
      /\ \A j \in Slots \ {i} : fdtab'[j] = fdtab[j]
  BY <1>1 DEF TypeOK, Table
<1>4. /\ Cardinality(Occ(fdtab')) = Cardinality(Occ(fdtab)) + 1
      /\ Cardinality(RefsIn(fdtab', f)) = Cardinality(RefsIn(fdtab, f)) + 1
      /\ \A g \in Fds \ {f} : RefsIn(fdtab', g) = RefsIn(fdtab, g)
  BY <1>2, <1>3, PutCounts
<1>5. NfdIsCount'
  BY <1>1, <1>4, CountsInTable
<1>6. nfd \in Nat /\ nfd + 1 \in Nat /\ nfd' \in Nat
  BY <1>1 DEF TypeOK
<1>7. fdtabsz' \in Nat /\ fdtabsz' >= fdtabsz /\ nfd + 1 <= fdtabsz'
  BY <1>1, <1>6, NeedGrows
<1>8. i < fdtabsz'
  <2>1. i \in Int /\ i <= nfd
    BY <1>1, <1>6 DEF FreeSlot
  <2> QED BY <1>6, <1>7, <2>1
<1>9. /\ held' \in [Threads -> SUBSET Slots] /\ held'[t] = held[t] \cup {i}
      /\ \A u \in Threads \ {t} : held'[u] = held[u]
  BY <1>1 DEF TypeOK
<1> QED BY <1>2, <1>3, <1>4, <1>5, <1>6, <1>7, <1>8, <1>9

\* open(): a fresh Fd in a free slot.
LEMMA OpenInv ==
  ASSUME IInv, Disciplined, NEW t \in Threads, NEW i \in Slots, NEW f \in Fds, Open(t, i, f)
  PROVE  IInv'
<1> DEFINE r == [NoCall EXCEPT !.op = "open", !.fd = i]
<1>1. /\ TypeOK /\ UsersAreRefs /\ pc[t] = "idle" /\ t \in Allocators /\ ci = -1
      /\ f \in Fds \ live /\ fdtalloc(t, i, f) /\ live' = live \cup {f}
      /\ users' = [users EXCEPT ![f] = 1] /\ type' = [type EXCEPT ![f] = "none"]
      /\ h' = [h EXCEPT ![f] = "nil"] /\ UNCHANGED <<evs, hooked, ci>>
      /\ loc' = [loc EXCEPT ![t] = r] /\ pc' = [pc EXCEPT ![t] = "fill"]
  BY DEF IInv, Open, Goto, Disciplined
<1>2. r \in CallRecs /\ r.fd = i
  BY NoCallType DEF CallRecs, NoCall
<1> HIDE DEF r
<1>3. /\ fdtab[i] = Nil /\ fdtab'[i] = f /\ \A j \in Slots \ {i} : fdtab'[j] = fdtab[j]
      /\ fdtab' \in Table /\ nfd' \in Nat /\ NfdIsCount'
      /\ fdtabsz' \in Nat /\ fdtabsz' >= fdtabsz /\ i < fdtabsz'
      /\ held' \in [Threads -> SUBSET Slots] /\ held'[t] = held[t] \cup {i}
      /\ \A u \in Threads \ {t} : held'[u] = held[u]
      /\ Cardinality(RefsIn(fdtab', f)) = Cardinality(RefsIn(fdtab, f)) + 1
      /\ \A g \in Fds \ {f} : RefsIn(fdtab', g) = RefsIn(fdtab, g)
  BY <1>1, AllocCounts
<1>4. UsersAreRefs'
  <2>1. RefsIn(fdtab, f) = {}
    BY <1>1, NilAssumption DEF IInv, NoDangling, Occupied, RefsIn
  <2>2. Cardinality(RefsIn(fdtab', f)) = 1
    BY <1>3, <2>1, FS_EmptySet
  <2>3. \A g \in live : users[g] = Cardinality(RefsIn(fdtab, g))
    BY <1>1, CountsInTable
  <2>4. \A g \in live : users'[g] = users[g] /\ g \in Fds \ {f}
    BY <1>1 DEF TypeOK
  <2>5. users'[f] = 1
    BY <1>1 DEF TypeOK
  <2>6. \A g \in live' : users'[g] = Cardinality(RefsIn(fdtab', g))
    BY <1>1, <1>3, <2>2, <2>3, <2>4, <2>5
  <2> QED BY <2>6, CountsInTable
<1>5. pc' \in [Threads -> PCs] /\ loc' \in [Threads -> CallRecs]
  BY <1>1, <1>2 DEF TypeOK, PCs
<1>6. /\ users' \in [Fds -> Int] /\ type' \in [Fds -> Types]
      /\ h' \in [Fds -> {"nil", "open", "sent"}]
  BY <1>1 DEF TypeOK, Types
<1>7. TypeOK'
  BY <1>1, <1>3, <1>5, <1>6 DEF TypeOK, Table
<1>8. pc'[t] = "fill" /\ loc'[t].fd = i /\ \A u \in Threads \ {t} : pc'[u] = pc[u] /\ loc'[u] = loc[u]
  BY <1>1, <1>2 DEF TypeOK
<1>9. \A u \in Threads \ {t} : pc[u] = "release" => loc[u].f # f
  BY <1>1 DEF IInv, NoDangling
<1>10. /\ ci = -1 /\ ci' = ci /\ live \subseteq live' /\ f \in live' /\ t \in Allocators
  BY <1>1
<1> QED BY <1>3, <1>4, <1>7, <1>8, <1>9, <1>10, AssignStep

\* dup(): one more slot for an Fd that has one.
LEMMA DupInv ==
  ASSUME IInv, NEW t \in Threads, NEW i \in Slots, fdtdup(t, i)
  PROVE  IInv'
<1> DEFINE f == loc[t].f
<1>1. /\ TypeOK /\ UsersAreRefs /\ pc[t] = "act" /\ loc[t].op = "dup"
      /\ fdtalloc(t, i, f) /\ users' = [users EXCEPT ![f] = @ + 1] /\ Return(t)
      /\ UNCHANGED <<live, type, h, evs, hooked, ci>>
  BY DEF IInv, fdtdup, Acts
<1>2. f \in Fds /\ f \in live /\ t \in Allocators
  BY <1>1 DEF IInv, CallsAreValid, NoDangling, TypeOK
<1>3. ci = -1
  BY <1>1, NotExiting
<1>4. \A u \in Threads \ {t} : pc[u] = "release" => loc[u].f # f
  BY <1>1 DEF IInv, NoDangling
<1> HIDE DEF f
<1>5. /\ fdtab[i] = Nil /\ fdtab'[i] = f /\ \A j \in Slots \ {i} : fdtab'[j] = fdtab[j]
      /\ fdtab' \in Table /\ nfd' \in Nat /\ NfdIsCount'
      /\ fdtabsz' \in Nat /\ fdtabsz' >= fdtabsz /\ i < fdtabsz'
      /\ held' \in [Threads -> SUBSET Slots] /\ held'[t] = held[t] \cup {i}
      /\ \A u \in Threads \ {t} : held'[u] = held[u]
      /\ Cardinality(RefsIn(fdtab', f)) = Cardinality(RefsIn(fdtab, f)) + 1
      /\ \A g \in Fds \ {f} : RefsIn(fdtab', g) = RefsIn(fdtab, g)
  BY <1>1, <1>2, AllocCounts
<1>6. UsersAreRefs'
  <2>1. \A g \in live : users[g] = Cardinality(RefsIn(fdtab, g)) /\ g \in Fds
    BY <1>1, CountsInTable DEF TypeOK
  <2>2. \A g \in live : users'[g] = IF g = f THEN users[g] + 1 ELSE users[g]
    BY <1>1 DEF TypeOK
  <2>3. \A g \in live' : users'[g] = Cardinality(RefsIn(fdtab', g))
    BY <1>1, <1>2, <1>5, <2>1, <2>2
  <2> QED BY <2>3, CountsInTable
<1>7. pc' \in [Threads -> PCs] /\ loc' \in [Threads -> CallRecs]
  BY <1>1, ReturnType
<1>8. users' \in [Fds -> Int]
  <2>1. users[f] \in Int /\ users[f] + 1 \in Int
    BY <1>1, <1>2 DEF TypeOK
  <2> QED BY <1>1, <2>1 DEF TypeOK
<1>9. TypeOK'
  BY <1>1, <1>5, <1>7, <1>8 DEF TypeOK, Table
<1>10. pc'[t] = "idle" /\ \A u \in Threads \ {t} : pc'[u] = pc[u] /\ loc'[u] = loc[u]
  BY <1>1, <1>3 DEF TypeOK, Return, Goto
<1>11. ci' = ci /\ live \subseteq live' /\ f \in live'
  BY <1>1, <1>2
<1> QED BY <1>2, <1>3, <1>4, <1>5, <1>6, <1>9, <1>10, <1>11, AssignStep
\* dup2(): slot j refers to oldf; the Fd it referred to may go.
LEMMA Dup2Inv ==
  ASSUME IInv, NEW t \in Threads, fdtdup2(t)
  PROVE  IInv'
<1> DEFINE oldf == loc[t].f
           j == loc[t].new
           f == IF j < fdtabsz THEN fdtab[j] ELSE Nil
           last == f # Nil /\ users[f] = 1
<1>1. /\ TypeOK /\ UsersAreRefs /\ NfdIsCount /\ pc[t] = "act" /\ loc[t].op = "dup2"
      /\ fdtab' = [fdtab EXCEPT ![j] = oldf] /\ held' = [held EXCEPT ![t] = @ \cup {j}]
      /\ UNCHANGED <<live, h, evs, hooked, ci>>
  BY DEF IInv, fdtdup2, Acts
<1>2. /\ j \in Slots /\ oldf \in Fds /\ oldf \in live /\ t \in Allocators /\ ci = -1
      /\ loc[t].fd \in Slots /\ loc[t].fd # j /\ fdtab[loc[t].fd] = oldf /\ May(t, j)
  BY <1>1, NotExiting DEF IInv, CallsAreValid, NoDangling, TypeOK, CallRecs
<1>3. f = fdtab[j] /\ f \in Fds \cup {Nil}
  BY <1>1, <1>2 DEF IInv, WithinTable, Occupied, TypeOK
<1>4. /\ nfd' = NfdAfterDup(f) /\ users' = UsersAfterDup(f, oldf)
      /\ type' = IF last THEN [type EXCEPT ![f] = "none"] ELSE type
      /\ IF last THEN /\ loc' = [loc EXCEPT ![t].type = type[f], ![t].f = f]
                      /\ pc' = [pc EXCEPT ![t] = "release"]
         ELSE Return(t)
  BY DEF fdtdup2, LastUser, SavedType, Goto
<1>5. \A u \in Threads \ {t} : pc[u] = "release" => loc[u].f # oldf
  BY <1>1 DEF IInv, NoDangling
<1>6. fdtabsz' \in Nat /\ fdtabsz' >= fdtabsz /\ j < fdtabsz'
  <2>1. fdtabsz \in Nat /\ j \in Nat /\ j + 1 \in Nat
    BY <1>1, <1>2, SlotsAssumption DEF TypeOK, Slots
  <2>2. CASE j >= fdtabsz
    <3>1. need(j + 1)
      BY <2>2 DEF fdtdup2
    <3> HIDE DEF j
    <3> QED BY <1>1, <2>1, <3>1, NeedGrows
  <2>3. CASE ~(j >= fdtabsz)
    <3>1. fdtabsz' = fdtabsz
      BY <2>3 DEF fdtdup2
    <3> QED BY <2>1, <2>3, <3>1
  <2> QED BY <2>2, <2>3
<1>7. /\ f # Nil => f \in live
      /\ \A g \in live : users[g] = Cardinality(RefsIn(fdtab, g)) /\ g \in Fds
  BY <1>1, <1>2, <1>3, CountsInTable DEF IInv, NoDangling, Occupied, TypeOK
<1>8. fdtab[j] = Nil \/ j \in held[t]
  BY <1>2 DEF IInv, Ownership, May, Unused
<1>9. loc[t].fd \in RefsIn(fdtab', oldf) /\ loc[t].fd \in RefsIn(fdtab, oldf)
  BY <1>1, <1>2 DEF RefsIn, TypeOK
<1>10. loc' \in [Threads -> CallRecs] /\ pc' \in [Threads -> PCs]
  <2>1. CASE last
    <3>1. loc' = [loc EXCEPT ![t].type = type[f], ![t].f = f] /\ type[f] \in Types /\ f \in Fds
      BY <1>1, <1>3, <1>4, <2>1 DEF TypeOK
    <3>2. pc' = [pc EXCEPT ![t] = "release"]
      BY <1>4, <2>1
    <3> HIDE DEF f
    <3>3. loc' \in [Threads -> CallRecs]
      <4> DEFINE r == [loc[t] EXCEPT !.type = type[f], !.f = f]
      <4>1. loc[t] \in CallRecs /\ loc' = [loc EXCEPT ![t] = r]
        BY <1>1, <3>1 DEF TypeOK
      <4>2. r \in CallRecs
        BY <3>1, <4>1 DEF CallRecs
      <4> HIDE DEF r
      <4> QED BY <1>1, <4>1, <4>2 DEF TypeOK
    <3> QED BY <1>1, <3>2, <3>3 DEF TypeOK, PCs
  <2>2. CASE ~last
    BY <1>1, <1>4, <2>2, ReturnType
  <2> QED BY <2>1, <2>2
<1>11. /\ \A u \in Threads \ {t} : pc'[u] = pc[u] /\ loc'[u] = loc[u]
       /\ last => pc'[t] = "release" /\ loc'[t].f = f
       /\ ~last => pc'[t] = "idle"
  <2>1. CASE last
    <3>1. loc' = [loc EXCEPT ![t].type = type[f], ![t].f = f] /\ pc' = [pc EXCEPT ![t] = "release"]
      BY <1>4, <2>1
    <3> HIDE DEF f
    <3> QED BY <1>1, <2>1, <3>1 DEF TypeOK, CallRecs
  <2>2. CASE ~last
    BY <1>1, <1>2, <1>4, <2>2 DEF TypeOK, Return, Goto
  <2> QED BY <2>1, <2>2
<1> HIDE DEF oldf, j, f, last
<1>12. /\ fdtab \in Table /\ fdtab' \in Table /\ fdtab'[j] = oldf
       /\ \A i \in Slots \ {j} : fdtab'[i] = fdtab[i]
  BY <1>1, <1>2 DEF Table, TypeOK
<1>13. /\ held' \in [Threads -> SUBSET Slots] /\ held'[t] = held[t] \cup {j}
       /\ \A u \in Threads \ {t} : held'[u] = held[u]
  BY <1>1, <1>2 DEF TypeOK
<1>14. ci' = ci /\ live \subseteq live' /\ oldf \in live'
  BY <1>1, <1>2
<1>15. type' \in [Fds -> Types]
  BY <1>1, <1>4 DEF TypeOK, Types
\* The three kinds of slots: free, of another Fd, of oldf itself.
<1>16. ASSUME NfdIsCount', UsersAreRefs', nfd' \in Nat, users' \in [Fds -> Int],
              last => fdtab[j] # Nil /\ \A i \in Slots : fdtab'[i] # f
       PROVE  IInv'
  <2>1. TypeOK'
    BY <1>1, <1>6, <1>10, <1>12, <1>13, <1>15, <1>16 DEF TypeOK, Table
  <2>2. pc'[t] = "release" => /\ loc'[t].f = fdtab[j] /\ fdtab[j] # Nil
                              /\ \A i \in Slots : fdtab'[i] # loc'[t].f
    BY <1>3, <1>11, <1>16
  <2>3. pc'[t] \in {"idle", "fill", "release"} /\ (pc'[t] = "fill" => loc'[t].fd = j)
    BY <1>11
  <2> QED BY <1>2, <1>5, <1>6, <1>8, <1>11, <1>12, <1>13, <1>14, <1>16, <2>1, <2>2, <2>3, AssignStep
<1>17. CASE f = Nil
  <2>1. fdtab[j] = Nil
    BY <1>3, <1>17
  <2>2. /\ Cardinality(Occ(fdtab')) = Cardinality(Occ(fdtab)) + 1
        /\ Cardinality(RefsIn(fdtab', oldf)) = Cardinality(RefsIn(fdtab, oldf)) + 1
        /\ \A g \in Fds \ {oldf} : RefsIn(fdtab', g) = RefsIn(fdtab, g)
    BY <1>2, <1>12, <2>1, PutCounts
  <2>3. nfd' = nfd + 1 /\ users' = [users EXCEPT ![oldf] = @ + 1] /\ ~last
    BY <1>4, <1>17 DEF NfdAfterDup, UsersAfterDup, last
  <2>4. NfdIsCount' /\ nfd' \in Nat
    BY <1>1, <2>2, <2>3, CountsInTable DEF TypeOK
  <2>5. users[oldf] \in Int /\ users[oldf] + 1 \in Int
    BY <1>1, <1>2 DEF TypeOK
  <2>6. users' \in [Fds -> Int]
    BY <1>1, <2>3, <2>5 DEF TypeOK
  <2>7. \A g \in live : users'[g] = IF g = oldf THEN users[g] + 1 ELSE users[g]
    BY <1>1, <2>3 DEF TypeOK
  <2>8. \A g \in live' : users'[g] = Cardinality(RefsIn(fdtab', g))
    BY <1>1, <1>2, <1>7, <2>2, <2>7
  <2>9. UsersAreRefs'
    BY <2>8, CountsInTable
  <2> QED BY <1>16, <2>3, <2>4, <2>6, <2>9
<1>18. CASE f # Nil /\ f # oldf
  <2>1. fdtab[j] = f /\ f \in Fds /\ f \in live
    BY <1>3, <1>7, <1>18
  <2>2. /\ Occ(fdtab') = Occ(fdtab)
        /\ Cardinality(RefsIn(fdtab', oldf)) = Cardinality(RefsIn(fdtab, oldf)) + 1
        /\ Cardinality(RefsIn(fdtab', f)) = Cardinality(RefsIn(fdtab, f)) - 1
        /\ RefsIn(fdtab', f) = RefsIn(fdtab, f) \ {j}
        /\ \A e \in Fds \ {oldf, f} : RefsIn(fdtab', e) = RefsIn(fdtab, e)
    BY <1>2, <1>12, <1>18, <2>1, SwapCounts
  <2>3. nfd' = nfd /\ users' = [[users EXCEPT ![f] = @ - 1] EXCEPT ![oldf] = @ + 1]
    BY <1>4, <1>18 DEF NfdAfterDup, UsersAfterDup
  <2>4. NfdIsCount' /\ nfd' \in Nat
    BY <1>1, <2>2, <2>3, CountsInTable DEF TypeOK
  <2>5. \A g \in Fds : users[g] \in Int /\ users[g] + 1 \in Int /\ users[g] - 1 \in Int
    BY <1>1 DEF TypeOK
  <2>6. \A g \in Fds : users'[g] = CASE g = oldf -> users[g] + 1 [] g = f -> users[g] - 1
                                     [] OTHER -> users[g]
    BY <1>1, <1>2, <1>18, <2>1, <2>3 DEF TypeOK
  <2>7. users' \in [Fds -> Int]
    BY <1>1, <1>2, <2>1, <2>3, <2>5 DEF TypeOK
  <2>8. \A g \in live' : users'[g] = Cardinality(RefsIn(fdtab', g))
    BY <1>1, <1>2, <1>7, <1>18, <2>1, <2>2, <2>6
  <2>9. UsersAreRefs'
    BY <2>8, CountsInTable
  <2>10. last => \A i \in Slots : fdtab'[i] # f
    <3>1. last => users[f] = 1
      BY DEF last
    <3>2. users[f] = Cardinality(RefsIn(fdtab, f))
      BY <1>7, <2>1
    <3>3. last => Cardinality(RefsIn(fdtab', f)) = 0
      BY <2>2, <3>1, <3>2
    <3>4. last => RefsIn(fdtab', f) = {}
      BY <3>3, CountsAreNat
    <3> QED BY <3>4 DEF RefsIn
  <2> QED BY <1>16, <1>18, <2>1, <2>4, <2>7, <2>9, <2>10
\* oldf is in two slots, its own and j: it cannot be the last user that goes.
<1>19. CASE f # Nil /\ f = oldf
  <2>1. fdtab[j] = oldf
    BY <1>3, <1>19
  <2>2. \A i \in Slots : fdtab'[i] = fdtab[i]
    BY <1>12, <2>1
  <2>3. Occ(fdtab') = Occ(fdtab) /\ \A g \in Fds : RefsIn(fdtab', g) = RefsIn(fdtab, g)
    BY <2>2 DEF Occ, RefsIn
  <2>4. nfd' = nfd /\ users' = [[users EXCEPT ![oldf] = @ - 1] EXCEPT ![oldf] = @ + 1]
    BY <1>4, <1>19 DEF NfdAfterDup, UsersAfterDup
  <2>5. NfdIsCount' /\ nfd' \in Nat
    BY <1>1, <2>3, <2>4, CountsInTable DEF TypeOK
  <2>6. users[oldf] \in Int /\ users[oldf] - 1 + 1 = users[oldf]
    BY <1>1, <1>2 DEF TypeOK
  <2>7. users' = users
    BY <1>1, <1>2, <2>4, <2>6 DEF TypeOK
  <2>8. \A g \in live' : users'[g] = Cardinality(RefsIn(fdtab', g))
    BY <1>1, <1>7, <2>3, <2>7
  <2>9. UsersAreRefs' /\ users' \in [Fds -> Int]
    BY <1>1, <2>7, <2>8, CountsInTable DEF TypeOK
  <2>10. ~last
    <3>1. users[f] = Cardinality(RefsIn(fdtab, f))
      BY <1>7, <1>19
    <3>2. {loc[t].fd, j} \subseteq RefsIn(fdtab, f)
      BY <1>2, <1>9, <1>19, <2>1 DEF RefsIn
    <3>3. Cardinality({loc[t].fd, j}) = 2
      <4>1. loc[t].fd # j
        BY <1>2
      <4> QED BY <4>1, PairCounts
    <3>4. Cardinality({loc[t].fd, j}) <= Cardinality(RefsIn(fdtab, f))
      BY <3>2, CountsAreNat, FS_Subset
    <3> QED BY <3>1, <3>3, <3>4 DEF last
  <2> QED BY <1>16, <2>5, <2>9, <2>10
<1> QED BY <1>17, <1>18, <1>19
-----------------------------------------------------------------------------
(* The theorems.                                                          *)

\* fdtabinit() establishes the invariant.
LEMMA InitInv == Init => IInv
<1> SUFFICES ASSUME Init PROVE IInv
  OBVIOUS
<1>1. PICK f0, f1, f2 \in Fds :
        /\ f0 # f1 /\ f1 # f2 /\ f0 # f2
        /\ fdtab = [i \in Slots |-> CASE i = 0 -> f0 [] i = 1 -> f1 [] i = 2 -> f2 [] OTHER -> Nil]
        /\ live = {f0, f1, f2}
        /\ \E ty \in {"std", "cons"} :
            /\ type = [f \in Fds |-> IF f \in {f0, f1, f2} THEN ty ELSE "none"]
            /\ h = [f \in Fds |-> IF f \in {f0, f1, f2} /\ ty = "cons" THEN "open" ELSE "nil"]
        /\ users = [f \in Fds |-> IF f \in {f0, f1, f2} THEN 1 ELSE 0]
  BY DEF Init
<1>2. 0 \in Slots /\ 1 \in Slots /\ 2 \in Slots /\ Slots \subseteq Int
  BY SlotsAssumption DEF Slots
<1>3. /\ fdtab[0] = f0 /\ fdtab[1] = f1 /\ fdtab[2] = f2
      /\ \A i \in Slots \ {0, 1, 2} : fdtab[i] = Nil
  BY <1>1, <1>2
<1>4. /\ nfd = 3 /\ evs = [f \in Fds |-> 0] /\ hooked = {} /\ ci = -1
      /\ held = [t \in Threads |-> IF t = Main THEN {0, 1, 2} ELSE {}]
      /\ pc = [t \in Threads |-> "idle"] /\ loc = [t \in Threads |-> NoCall]
  BY DEF Init
<1>5. fdtabsz \in Nat /\ fdtabsz >= 3
  <2>1. PICK k \in 0..3 : fdtabsz = Chunk * k /\ fdtabsz >= 3
    BY DEF Init
  <2>2. Chunk * k \in Nat
    BY ChunkAssumption
  <2> QED BY <2>1, <2>2
<1>6. TypeOK
  <2>1. fdtab \in [Slots -> Fds \cup {Nil}] /\ live \subseteq Fds /\ users \in [Fds -> Int]
    BY <1>1
  <2>2. type \in [Fds -> Types] /\ h \in [Fds -> {"nil", "open", "sent"}]
    BY <1>1 DEF Types
  <2>3. held \in [Threads -> SUBSET Slots] /\ ci \in -1..(MaxFd + 1)
    BY <1>2, <1>4, SlotsAssumption
  <2>4. pc \in [Threads -> PCs] /\ loc \in [Threads -> CallRecs]
    BY <1>4, NoCallType DEF PCs
  <2> QED BY <1>4, <1>5, <2>1, <2>2, <2>3, <2>4 DEF TypeOK
<1>7. Occupied = 0..2
  BY <1>1, <1>2, <1>3, NilAssumption DEF Occupied
<1>8. NfdIsCount
  <2>1. Cardinality(0..2) = 3
    <3>1. 0 \in Int /\ 2 \in Int /\ ~(0 > 2) /\ 2 - 0 + 1 = 3
      OBVIOUS
    <3>2. Cardinality(0..2) = IF 0 > 2 THEN 0 ELSE 2 - 0 + 1
      BY <3>1, FS_Interval, Zenon
    <3> QED BY <3>1, <3>2
  <2> QED BY <1>4, <1>7, <2>1 DEF NfdIsCount
<1>9. UsersAreRefs
  <2>1. Refs(f0) = {0} /\ Refs(f1) = {1} /\ Refs(f2) = {2}
    BY <1>1, <1>2, <1>3, NilAssumption DEF Refs
  <2>2. Cardinality({0}) = 1 /\ Cardinality({1}) = 1 /\ Cardinality({2}) = 1
    BY FS_Singleton
  <2>3. users[f0] = 1 /\ users[f1] = 1 /\ users[f2] = 1
    BY <1>1
  <2> QED BY <1>1, <2>1, <2>2, <2>3 DEF UsersAreRefs
<1>10. NoDangling
  BY <1>1, <1>3, <1>4, <1>7 DEF NoDangling
<1>11. Ownership
  <2>1. \A i \in Slots : fdtab[i] # Nil <=> i \in {0, 1, 2}
    BY <1>1, <1>3, NilAssumption
  <2> QED BY <1>4, <2>1, ThreadsAssumption DEF Ownership
<1>12. WithinTable
  BY <1>5, <1>7 DEF WithinTable
<1>13. CallsAreValid /\ ExitIsQuiet /\ NoFatal
  BY <1>4 DEF CallsAreValid, ExitIsQuiet, NoFatal
<1> QED BY <1>6, <1>8, <1>9, <1>10, <1>11, <1>12, <1>13 DEF IInv

\* A step that changes nothing.
LEMMA StutterInv ==
  ASSUME IInv, UNCHANGED vars
  PROVE  IInv'
BY DEF vars, tabvars, fdvars, IInv, TypeOK, NfdIsCount, UsersAreRefs, NoDangling, Ownership,
       WithinTable, CallsAreValid, ExitIsQuiet, NoFatal, Occupied, Refs, Exiting, May, Unused

\* A step of a thread, one case per action.
LEMMA StepInv ==
  ASSUME IInv, Disciplined, NEW t \in Threads, Step(t)
  PROVE  IInv'
<1>1. ASSUME NEW i \in Slots, NEW f \in Fds, Open(t, i, f) PROVE IInv'
  BY <1>1, OpenInv
<1>2. ASSUME NEW ty \in Kinds, Fill(t, ty) PROVE IInv'
  BY <1>2, FillInv
<1>3. ASSUME NEW ty \in Kinds, FillFails(t, ty) PROVE IInv'
  BY <1>3, FillFailsInv
<1>4. 0 \in Slots
  BY SlotsAssumption DEF Slots
<1>5. ASSUME NEW i \in Slots, CallClose(t, i) \/ CallIo(t, i) \/ CallOnclose(t, i) PROVE IInv'
  BY <1>4, <1>5, CallInv DEF CallClose, CallIo, CallOnclose
<1>6. ASSUME NEW i \in Slots, CallSend(t, i) PROVE IInv'
  BY <1>4, <1>6, CallInv DEF CallSend
<1>7. ASSUME NEW i \in Slots, CallDup(t, i) PROVE IInv'
  BY <1>4, <1>7, CallInv DEF CallDup
<1>8. ASSUME NEW i \in Slots, NEW j \in Slots, CallDup2(t, i, j) PROVE IInv'
  BY <1>8, CallInv DEF CallDup2, Disciplined
<1>9. ASSUME NEW i \in Slots, NEW u \in Threads, Give(t, u, i) PROVE IInv'
  BY <1>9, GiveInv
<1>10. ASSUME NEW i \in Slots, fdtdup(t, i) PROVE IInv'
  BY <1>10, DupInv
<1>11. CASE fdtget(t)
  BY <1>11, GetInv
<1>12. CASE initovev(t)
  BY <1>12, InitovevInv
<1>13. CASE fdtclose(t)
  BY <1>13, CloseInv
<1>14. CASE fdtdup2(t)
  BY <1>14, Dup2Inv
<1>15. CASE releasef(t)
  BY <1>15, ReleasefInv
<1>16. CASE io(t)
  BY <1>16, IoInv
<1>17. CASE fdtonclose(t)
  BY <1>17, OncloseInv
<1>18. CASE sendfd(t)
  BY <1>18, SendfdInv
<1> QED BY <1>1, <1>2, <1>3, <1>5, <1>6, <1>7, <1>8, <1>9, <1>10, <1>11, <1>12, <1>13,
           <1>14, <1>15, <1>16, <1>17, <1>18 DEF Step

\* Every step preserves the invariant.
LEMMA NextInv ==
  ASSUME IInv, Disciplined, [Next]_vars
  PROVE  IInv'
<1>1. ASSUME NEW t \in Threads, Step(t) PROVE IInv'
  BY <1>1, StepInv
<1>2. CASE Exits
  BY <1>2, ExitsInv
<1>3. CASE cleanup
  BY <1>3, CleanupInv
<1>4. CASE UNCHANGED vars
  BY <1>4, StutterInv
<1> QED BY <1>1, <1>2, <1>3, <1>4 DEF Next, Done

\* The invariant holds in every state of every run of a program whose
\* callers never dup a number onto itself and whose procs are quiet when it
\* exits.
THEOREM Invariance == ASSUME Disciplined PROVE Spec => []IInv
<1>1. Init => IInv
  BY InitInv
<1>2. IInv /\ [Next]_vars => IInv'
  BY NextInv
<1> QED BY <1>1, <1>2, PTL DEF Spec

\* The variables of the descriptor table keep their types: nfd in
\* particular never goes below zero.
THEOREM TypeCorrect == ASSUME Disciplined PROVE Spec => []TypeOK
<1>1. IInv => TypeOK
  BY DEF IInv
<1> QED BY <1>1, Invariance, PTL

\* nfd is always the number of slots in use, which fdtalloc()'s search and
\* cleanup()'s check rely on.
THEOREM NfdCorrect == ASSUME Disciplined PROVE Spec => []NfdIsCount
<1>1. IInv => NfdIsCount
  BY DEF IInv
<1> QED BY <1>1, Invariance, PTL

\* f->users is always the number of slots that refer to f.
THEOREM UsersCorrect == ASSUME Disciplined PROVE Spec => []UsersAreRefs
<1>1. IInv => UsersAreRefs
  BY DEF IInv
<1> QED BY <1>1, Invariance, PTL

\* No Fd is used after releasef() has freed it, although fdtget() and
\* releasef() run without the lock.
THEOREM NeverDangling == ASSUME Disciplined PROVE Spec => []NoDangling
<1>1. IInv => NoDangling
  BY DEF IInv
<1> QED BY <1>1, Invariance, PTL

\* All of that together: the table is as fdtalloc(), fdtdup(), fdtclose() and
\* cleanup() rely on it.
THEOREM TableCorrect == ASSUME Disciplined PROVE Spec => []TableOK
<1>1. TypeOK /\ NfdIsCount /\ UsersAreRefs /\ NoDangling => TableOK
  BY DEF TableOK
<1> QED BY <1>1, TypeCorrect, NfdCorrect, UsersCorrect, NeverDangling, PTL

\* The consistency checks of fdtclose() and cleanup() never fail.
THEOREM NeverFatal == ASSUME Disciplined PROVE Spec => []NoFatal
<1>1. IInv => NoFatal
  BY DEF IInv
<1> QED BY <1>1, Invariance, PTL
-----------------------------------------------------------------------------
(* What the steps do to the table, for the two theorems on steps.         *)

\* The steps that change the table, and how.
LEMMA TableChanges ==
  ASSUME Next, fdtab' # fdtab
  PROVE  \E t \in Threads :
            \/ \E i \in Slots, f \in Fds : Open(t, i, f)
            \/ \E i \in Slots : fdtdup(t, i)
            \/ fdtdup2(t)
            \/ fdtclose(t)
<1>1. ASSUME NEW t \in Threads, Step(t)
      PROVE  \/ \E i \in Slots, f \in Fds : Open(t, i, f)
             \/ \E i \in Slots : fdtdup(t, i)
             \/ fdtdup2(t)
             \/ fdtclose(t)
  BY <1>1 DEF Step, Fill, FillFails, CallClose, CallDup, CallIo, CallOnclose, CallSend,
              CallDup2, Call, Give, fdtget, initovev, releasef, io, fdtonclose, sendfd, tabvars
<1>2. ~Exits /\ ~cleanup /\ ~Done
  BY DEF Exits, cleanup, Done, vars, tabvars
<1> QED BY <1>1, <1>2 DEF Next

\* Only the thread a number belongs to changes what the number refers to.
LEMMA StableStep ==
  ASSUME IInv, Disciplined, Next, NEW t \in Threads, NEW i \in held[t], fdtab'[i] # fdtab[i]
  PROVE  \/ pc[t] = "act" /\ loc[t].op = "close" /\ loc[t].fd = i
         \/ pc[t] = "act" /\ loc[t].op = "dup2" /\ loc[t].new = i
         \/ ci # -1
<1>1. /\ TypeOK /\ i \in Slots /\ fdtab[i] # Nil
      /\ \A u \in Threads : i \in held[u] => u = t
  BY DEF IInv, TypeOK, Ownership
<1>2. PICK u \in Threads : \/ \E k \in Slots, f \in Fds : Open(u, k, f)
                           \/ \E k \in Slots : fdtdup(u, k)
                           \/ fdtdup2(u)
                           \/ fdtclose(u)
  BY TableChanges
<1>3. ASSUME NEW k \in Slots, NEW f, fdtalloc(u, k, f) PROVE FALSE
  <2>1. fdtab[k] = Nil
    BY <1>3, FreeSlotIsFree DEF IInv, fdtalloc
  <2>2. fdtab' = [fdtab EXCEPT ![k] = f]
    BY <1>3 DEF fdtalloc
  <2> QED BY <1>1, <2>1, <2>2 DEF TypeOK
<1>4. CASE fdtdup2(u)
  <2>1. pc[u] = "act" /\ loc[u].op = "dup2" /\ fdtab' = [fdtab EXCEPT ![loc[u].new] = loc[u].f]
    BY <1>4 DEF fdtdup2, Acts
  <2>2. loc[u].new = i
    BY <1>1, <2>1 DEF TypeOK
  <2>3. May(u, i)
    BY <2>1, <2>2 DEF IInv, CallsAreValid
  <2> QED BY <1>1, <2>1, <2>2, <2>3 DEF May, Unused
<1>5. CASE fdtclose(u)
  <2>1. pc[u] = "act" /\ loc[u].op = "close" /\ fdtab' = [fdtab EXCEPT ![loc[u].fd] = Nil]
    BY <1>5 DEF fdtclose, Acts
  <2>2. loc[u].fd = i
    BY <1>1, <2>1 DEF TypeOK
  <2>3. i \in held[u] \/ Exiting(u)
    BY <2>1, <2>2 DEF IInv, CallsAreValid
  <2> QED BY <1>1, <2>1, <2>2, <2>3 DEF Exiting
<1> QED BY <1>2, <1>3, <1>4, <1>5 DEF Open, fdtdup

\* No other thread's open, dup or close ever touches a number that a thread
\* holds, until the process exits.
THEOREM Stability == ASSUME Disciplined PROVE Spec => DescriptorsAreStable
<1>1. IInv /\ [Next]_vars =>
        [\A t \in Threads : \A i \in held[t] :
            fdtab'[i] # fdtab[i] =>
                \/ pc[t] = "act" /\ loc[t].op = "close" /\ loc[t].fd = i
                \/ pc[t] = "act" /\ loc[t].op = "dup2" /\ loc[t].new = i
                \/ ci # -1]_vars
  BY StableStep
<1> QED BY <1>1, Invariance, PTL DEF Spec, DescriptorsAreStable

-----------------------------------------------------------------------------
(* FdTab implements DescMap.                                              *)

\* The first table is one of DescMap.
LEMMA InitRefines == Init => Abstract!DInit
<1> SUFFICES ASSUME Init PROVE Abstract!DInit
  OBVIOUS
<1>1. IInv
  BY InitInv
<1>2. \A f \in live : Refs(f) # {}
  <2>1. PICK f0, f1, f2 \in Fds :
          /\ fdtab = [i \in Slots |-> CASE i = 0 -> f0 [] i = 1 -> f1 [] i = 2 -> f2 [] OTHER -> Nil]
          /\ live = {f0, f1, f2}
    BY DEF Init
  <2>2. 0 \in Slots /\ 1 \in Slots /\ 2 \in Slots
    BY SlotsAssumption DEF Slots
  <2>3. fdtab[0] = f0 /\ fdtab[1] = f1 /\ fdtab[2] = f2
    BY <2>1, <2>2
  <2> QED BY <2>1, <2>2, <2>3 DEF Refs
<1>3. \A i \in Slots : fdtab[i] # Nil => fdtab[i] \in live
  BY <1>1 DEF IInv, NoDangling, Occupied
<1>4. live = {f \in Fds : \E i \in Slots : fdtab[i] = f}
  BY <1>1, <1>2, <1>3, NilAssumption DEF IInv, TypeOK, Refs
<1> QED BY <1>1, <1>4 DEF IInv, TypeOK, Abstract!DInit, Abstract!Named

\* fdtalloc() takes the lowest free number.
LEMMA AllocTakesLowest ==
  ASSUME IInv, NEW t, NEW i \in Slots, NEW f, fdtalloc(t, i, f)
  PROVE  Abstract!Lowest(i) /\ fdtab' = [fdtab EXCEPT ![i] = f]
<1>1. fdtab[i] = Nil
  BY FreeSlotIsFree DEF IInv, fdtalloc
<1>2. \A j \in Slots : j < i => j \in 0..(i-1)
  BY SlotsAssumption DEF Slots
<1>3. \A j \in Slots : j < i => fdtab[j] # Nil
  BY <1>2 DEF fdtalloc, FreeSlot
<1> QED BY <1>1, <1>3 DEF Abstract!Lowest, fdtalloc

\* Every step is one of DescMap, or leaves the table as it is.
LEMMA StepRefines ==
  ASSUME IInv, Disciplined, [Next]_vars
  PROVE  [Abstract!DNext]_(Abstract!dvars)
<1>0. TypeOK
  BY DEF IInv
<1>1. ASSUME NEW t \in Threads, pc[t] = "act"
      PROVE  /\ loc[t].f \in live /\ loc[t].f \in Fds /\ loc[t].fd \in Slots /\ loc[t].new \in Slots
             /\ fdtab[loc[t].fd] = loc[t].f /\ loc[t].f # Nil
  BY <1>0, <1>1 DEF IInv, NoDangling, CallsAreValid, TypeOK, CallRecs
<1>2. ASSUME NEW t \in Threads, NEW i \in Slots, NEW f \in Fds, Open(t, i, f)
      PROVE  Abstract!DNext
  <2>1. fdtalloc(t, i, f) /\ f \in Fds \ live /\ live' = live \cup {f}
    BY <1>2 DEF Open
  <2>2. Abstract!Lowest(i) /\ fdtab' = [fdtab EXCEPT ![i] = f]
    BY <2>1, AllocTakesLowest
  <2> QED BY <2>1, <2>2 DEF Abstract!DNext, Abstract!DOpen
<1>3. ASSUME NEW t \in Threads, NEW i \in Slots, fdtdup(t, i)
      PROVE  Abstract!DNext
  <2>1. fdtalloc(t, i, loc[t].f) /\ live' = live /\ pc[t] = "act"
    BY <1>3 DEF fdtdup, Acts
  <2>2. Abstract!Lowest(i) /\ fdtab' = [fdtab EXCEPT ![i] = loc[t].f]
    BY <2>1, AllocTakesLowest
  <2>3. Abstract!Named(loc[t].f)
    BY <1>1, <2>1 DEF Abstract!Named
  <2>4. Abstract!DDup(loc[t].f, i)
    BY <1>1, <2>1, <2>2, <2>3 DEF Abstract!DDup
  <2> QED BY <1>1, <2>1, <2>4 DEF Abstract!DNext
<1>4. ASSUME NEW t \in Threads, fdtdup2(t)
      PROVE  Abstract!DNext
  <2>1. fdtab' = [fdtab EXCEPT ![loc[t].new] = loc[t].f] /\ live' = live /\ pc[t] = "act"
    BY <1>4 DEF fdtdup2, Acts
  <2>2. Abstract!Named(loc[t].f)
    BY <1>1, <2>1 DEF Abstract!Named
  <2>3. Abstract!DDup2(loc[t].f, loc[t].new)
    BY <1>1, <2>1, <2>2 DEF Abstract!DDup2
  <2> QED BY <1>1, <2>1, <2>3 DEF Abstract!DNext
<1>5. ASSUME NEW t \in Threads, fdtclose(t)
      PROVE  Abstract!DNext
  <2>1. fdtab' = [fdtab EXCEPT ![loc[t].fd] = Nil] /\ live' = live /\ pc[t] = "act"
    BY <1>5 DEF fdtclose, Acts
  <2>2. Abstract!DClose(loc[t].fd)
    BY <1>1, <2>1 DEF Abstract!DClose
  <2> QED BY <1>1, <2>1, <2>2 DEF Abstract!DNext
<1>6. ASSUME NEW t \in Threads, releasef(t)
      PROVE  Abstract!DNext
  <2>1. /\ fdtab' = fdtab /\ live' = live \ {loc[t].f} /\ loc[t].f \in live /\ loc[t].f \in Fds
        /\ \A i \in Slots : fdtab[i] # loc[t].f
    BY <1>0, <1>6 DEF releasef, tabvars, IInv, NoDangling, TypeOK
  <2>2. Abstract!DReap(loc[t].f)
    BY <2>1 DEF Abstract!DReap, Abstract!Named
  <2> QED BY <2>1, <2>2 DEF Abstract!DNext
<1>7. ASSUME NEW t \in Threads, Step(t), ~releasef(t), fdtab' = fdtab
      PROVE  live' = live \/ Abstract!DNext
  BY <1>2, <1>7 DEF Step, Fill, FillFails, CallClose, CallDup, CallIo, CallOnclose, CallSend,
              CallDup2, Call, Give, fdtget, initovev, io, fdtonclose, sendfd, tabvars, fdvars,
              fdtclose, fdtdup, fdtdup2
<1>8. CASE UNCHANGED vars \/ Exits \/ cleanup \/ Done
  BY <1>8 DEF vars, tabvars, fdvars, Exits, cleanup, Done, Abstract!dvars
<1>9. CASE \E t \in Threads : Step(t)
  <2>1. CASE fdtab' # fdtab
    BY <1>2, <1>3, <1>4, <1>5, <1>9, <2>1, TableChanges DEF Next
  <2>2. CASE fdtab' = fdtab
    BY <1>6, <1>7, <1>9, <2>2 DEF Abstract!dvars
  <2> QED BY <2>1, <2>2
<1> QED BY <1>8, <1>9 DEF Next

\* The table of fdtab.c, with its counters, its chunks and its unlocked
\* steps, is to its callers the plain descriptor map of DescMap: the lowest
\* free number is given out and a file is closed after its last number.
THEOREM Refinement == ASSUME Disciplined PROVE Spec => ImplementsDescMap
<1>1. Init => Abstract!DInit
  BY InitRefines
<1>2. IInv /\ [Next]_vars => [Abstract!DNext]_(Abstract!dvars)
  BY StepRefines
<1> QED BY <1>1, <1>2, Invariance, PTL DEF Spec, ImplementsDescMap, Abstract!DSpec

-----------------------------------------------------------------------------
(* Handles, events and hooks: what has to be known of them besides.       *)

\* Thread t is filling slot i, or closing it: the cases of Filling(i).
ClosesSlot(t, i) ==
    /\ loc[t].fd = i
    /\ \/ pc[t] = "fill"
       \/ loc[t].op = "close" /\ pc[t] \in {"get", "initev", "act"}

\* The number that t works on is its own and the only one of its Fd.
OnlyOne(t) ==
    /\ loc[t].fd \in held[t] /\ fdtab[loc[t].fd] # Nil
    /\ \A i \in Slots : fdtab[i] = fdtab[loc[t].fd] => i = loc[t].fd

\* Nobody shares an Fd that open() is still filling.
FillsAlone(t) == pc[t] = "fill" => OnlyOne(t) /\ h[fdtab[loc[t].fd]] = "nil"

\* Nobody shares an Fd that sendfd() gives away; before it is closed its
\* handle has been sent.
SendsAlone(t) ==
    pc[t] \in {"get", "initev", "act"} /\ (loc[t].op = "send" \/ loc[t].closeh = FALSE) =>
        /\ OnlyOne(t)
        /\ loc[t].op = "send" \/ (loc[t].op = "close" /\ h[fdtab[loc[t].fd]] # "open")

\* An open handle that is to be released is closed.
ClosesHandle(t) ==
    pc[t] = "release" /\ h[loc[t].f] = "open" => loc[t].closeh = TRUE /\ loc[t].type \in Closed

\* There is one pair of events for an Fd at most.
OneEventPair == \A f \in Fds : evs[f] \in {0, 1}

\* An Fd with an open handle has a type that tells so, until releasef() has
\* been told.
OpenIsTyped == \A f \in live :
    h[f] = "open" => type[f] \in Closed \/ \E t \in Threads : pc[t] = "release" /\ loc[t].f = f

HInv == /\ HandleWhileUsed /\ NothingLeaks /\ OneEventPair /\ OpenIsTyped
        /\ \A t \in Threads : FillsAlone(t) /\ SendsAlone(t) /\ ClosesHandle(t)

\* Only t moves.
OthersStay(t) == \A u \in Threads \ {t} : pc'[u] = pc[u] /\ loc'[u] = loc[u]

\* Filling, thread by thread.
LEMMA FillingByThreads ==
  /\ \A i : Filling(i) <=> \E t \in Threads : ClosesSlot(t, i)
  /\ \A i : Filling(i)' <=> \E t \in Threads : ClosesSlot(t, i)'
BY DEF Filling, ClosesSlot

\* A thread that has its Fd, and another one that is in a call as well, work
\* on different numbers.
LEMMA NumbersApart ==
  ASSUME IInv, NEW t \in Threads, NEW u \in Threads, t # u, pc[t] \in {"initev", "act"},
         pc[u] \in {"fill", "get", "initev", "act"}
  PROVE  loc[t].fd \in held[t] /\ loc[t].fd # loc[u].fd
<1>1. ci = -1
  BY DEF IInv, ExitIsQuiet
<1>2. loc[t].fd \in held[t]
  BY <1>1 DEF IInv, CallsAreValid, Exiting
<1>3. CASE pc[u] = "fill"
  BY <1>2, <1>3 DEF IInv, CallsAreValid, Ownership
<1>4. CASE pc[u] \in {"get", "initev", "act"}
  <2>1. May(u, loc[u].fd)
    BY <1>1, <1>4 DEF IInv, CallsAreValid, Exiting
  <2> QED BY <1>2, <2>1 DEF IInv, Ownership, May, Unused
<1> QED BY <1>2, <1>3, <1>4

\* A thread is on the way to close the Fd of no slot of the table.
LEMMA ReleasedIsOut ==
  ASSUME IInv, NEW t \in Threads, pc[t] = "release", NEW i \in Slots
  PROVE  fdtab[i] # loc[t].f
BY DEF IInv, NoDangling

\* Nothing happens to the table, the types and the handles.
LEMMA HLocal ==
  ASSUME IInv, HInv, NEW t \in Threads, OthersStay(t),
         fdtab' = fdtab, held' = held, live' = live, type' = type, h' = h,
         OneEventPair', \A f \in Fds \ live : evs'[f] = 0 /\ f \notin hooked',
         pc[t] # "release", pc'[t] \notin {"release", "fill"}, SendsAlone(t)',
         \A i \in Slots : fdtab[i] # Nil /\ ClosesSlot(t, i) => ClosesSlot(t, i)'
  PROVE  HInv'
<1>1. HandleWhileUsed'
  <2> SUFFICES ASSUME NEW i \in Slots, fdtab[i] # Nil, type[fdtab[i]] \in Closed, ~Filling(i)'
               PROVE  h[fdtab[i]] = "open"
    BY DEF HandleWhileUsed, Occupied
  <2>1. \A u \in Threads : ~ClosesSlot(u, i)'
    BY FillingByThreads
  <2>2. \A u \in Threads : ~ClosesSlot(u, i)
    BY <2>1 DEF OthersStay, ClosesSlot
  <2> QED BY <2>2, FillingByThreads DEF HInv, HandleWhileUsed, Occupied
<1>2. NothingLeaks'
  BY DEF HInv, NothingLeaks
<1>3. OpenIsTyped'
  BY DEF HInv, OpenIsTyped, OthersStay
<1>4. ASSUME NEW u \in Threads PROVE FillsAlone(u)' /\ SendsAlone(u)' /\ ClosesHandle(u)'
  <2>1. CASE u = t
    BY <2>1 DEF FillsAlone, ClosesHandle
  <2>2. CASE u # t
    BY <2>2 DEF HInv, OthersStay, FillsAlone, SendsAlone, ClosesHandle, OnlyOne
  <2> QED BY <2>1, <2>2
<1> QED BY <1>1, <1>2, <1>3, <1>4 DEF HInv

\* The type or the handle of an Fd changes that has one number only.
LEMMA HAlone ==
  ASSUME IInv, HInv, NEW t \in Threads, OthersStay(t), OnlyOne(t),
         NEW f \in Fds, f = fdtab[loc[t].fd], loc[t].fd \in Slots,
         UNCHANGED <<fdtab, held, live, evs, hooked>>,
         \A g \in Fds \ {f} : type'[g] = type[g] /\ h'[g] = h[g],
         pc[t] # "release", pc'[t] \notin {"release", "fill"}, SendsAlone(t)',
         type'[f] \in Closed =>
            h'[f] = "open" \/ (loc'[t].fd = loc[t].fd /\ loc'[t].op = "close" /\ pc'[t] = "get"),
         h'[f] = "open" => type'[f] \in Closed
  PROVE  HInv'
<1>0. TypeOK /\ f \in live
  BY DEF IInv, NoDangling, Occupied, OnlyOne
<1>1. HandleWhileUsed'
  <2> SUFFICES ASSUME NEW i \in Slots, fdtab[i] # Nil, type'[fdtab[i]] \in Closed, ~Filling(i)'
               PROVE  h'[fdtab[i]] = "open"
    BY DEF HandleWhileUsed, Occupied
  <2>1. \A u \in Threads : ~ClosesSlot(u, i)'
    BY FillingByThreads
  <2>2. CASE fdtab[i] = f
    BY <2>1, <2>2 DEF OnlyOne, ClosesSlot
  <2>3. CASE fdtab[i] # f
    <3>1. \A u \in Threads : ~ClosesSlot(u, i)
      BY <2>1, <2>3 DEF OthersStay, ClosesSlot
    <3>2. fdtab[i] \in Fds \ {f}
      BY <1>0, <2>3 DEF TypeOK
    <3> QED BY <3>1, <3>2, FillingByThreads DEF HInv, HandleWhileUsed, Occupied
  <2> QED BY <2>2, <2>3
<1>2. NothingLeaks'
  BY <1>0 DEF HInv, NothingLeaks
<1>3. OpenIsTyped'
  <2>1. live \subseteq Fds
    BY <1>0 DEF TypeOK
  <2> QED BY <2>1 DEF HInv, OpenIsTyped, OthersStay
<1>4. ASSUME NEW u \in Threads PROVE FillsAlone(u)' /\ SendsAlone(u)' /\ ClosesHandle(u)'
  <2>1. CASE u = t
    BY <2>1 DEF FillsAlone, ClosesHandle
  <2>2. CASE u # t
    <3>1. pc'[u] = pc[u] /\ loc'[u] = loc[u]
      BY <2>2 DEF OthersStay
    <3>2. OnlyOne(u) => OnlyOne(u)' /\ h'[fdtab[loc[u].fd]] = h[fdtab[loc[u].fd]]
      <4> SUFFICES ASSUME OnlyOne(u) PROVE OnlyOne(u)' /\ h'[fdtab[loc[u].fd]] = h[fdtab[loc[u].fd]]
        OBVIOUS
      <4>1. loc[u].fd \in Slots /\ fdtab[loc[u].fd] \in Fds
        BY <1>0 DEF TypeOK, CallRecs, OnlyOne
      <4>2. loc[u].fd # loc[t].fd
        BY <2>2 DEF IInv, Ownership, OnlyOne
      <4>3. fdtab[loc[u].fd] # f
        BY <4>1, <4>2 DEF OnlyOne
      <4> QED BY <3>1, <4>1, <4>3 DEF OnlyOne
    <3>3. pc[u] = "release" => loc[u].f \in Fds \ {f}
      BY <1>0, ReleasedIsOut DEF IInv, NoDangling, TypeOK
    <3> QED BY <3>1, <3>2, <3>3 DEF HInv, FillsAlone, SendsAlone, ClosesHandle
  <2> QED BY <2>1, <2>2
<1>5. OneEventPair'
  BY DEF HInv, OneEventPair
<1> QED BY <1>1, <1>2, <1>3, <1>4, <1>5 DEF HInv

\* Calls on a descriptor start.
LEMMA CallHandles ==
  ASSUME IInv, HInv, NEW t \in Threads, NEW i \in Slots, NEW j \in Slots,
         NEW o \in {"close", "dup", "dup2", "io", "onclose", "send"}, NEW c \in BOOLEAN,
         Call(t, o, i, j, c),
         o = "send" <=> c = FALSE, o = "send" => fdtab[i] # Nil /\ users[fdtab[i]] = 1
  PROVE  HInv'
<1> DEFINE r == [NoCall EXCEPT !.op = o, !.fd = i, !.new = j, !.closeh = c]
<1>1. r \in CallRecs /\ r.op = o /\ r.fd = i /\ r.closeh = c
  BY NoCallType DEF CallRecs, NoCall
<1>2. /\ TypeOK /\ pc' = [pc EXCEPT ![t] = "get"] /\ loc' = [loc EXCEPT ![t] = r]
      /\ UNCHANGED <<tabvars, fdvars, held, ci>> /\ May(t, i) /\ pc[t] = "idle"
  BY DEF IInv, Call, Goto
<1> HIDE DEF r
<1>3. pc'[t] = "get" /\ loc'[t] = r /\ OthersStay(t)
  BY <1>2 DEF TypeOK, OthersStay
<1>4. SendsAlone(t)'
  <2> SUFFICES ASSUME c = FALSE PROVE SendsAlone(t)'
    BY <1>1, <1>3 DEF SendsAlone
  <2>1. i \in held[t]
    BY <1>2 DEF IInv, Ownership, May, Unused
  <2>2. fdtab[i] \in Fds /\ fdtab[i] \in live
    BY <1>2 DEF IInv, NoDangling, Occupied, TypeOK
  <2>3. Cardinality(RefsIn(fdtab, fdtab[i])) = 1 /\ IsFiniteSet(RefsIn(fdtab, fdtab[i]))
    BY <2>2, CountsInTable, CountsAreNat DEF IInv
  <2>4. ASSUME NEW k \in Slots, fdtab[k] = fdtab[i] PROVE k = i
    <3> SUFFICES ASSUME k # i PROVE FALSE
      OBVIOUS
    <3>1. {k, i} \subseteq RefsIn(fdtab, fdtab[i])
      BY <2>4 DEF RefsIn
    <3>2. Cardinality({k, i}) <= 1
      BY <2>3, <3>1, FS_Subset
    <3>3. Cardinality({k, i}) = 2
      BY PairCounts
    <3> QED BY <3>2, <3>3
  <2>5. fdtab' = fdtab /\ held' = held
    BY <1>2 DEF tabvars
  <2>6. loc'[t].fd = i /\ loc'[t].op = "send"
    BY <1>1, <1>3
  <2> QED BY <2>1, <2>4, <2>5, <2>6 DEF SendsAlone, OnlyOne
<1>5. \A k \in Slots : ~ClosesSlot(t, k)
  BY <1>2 DEF ClosesSlot
<1>6. OneEventPair' /\ \A f \in Fds \ live : evs'[f] = 0 /\ f \notin hooked'
  BY <1>2 DEF HInv, OneEventPair, NothingLeaks, fdvars
<1> QED BY <1>2, <1>3, <1>4, <1>5, <1>6, HLocal DEF tabvars, fdvars

\* A call returns: where it was is over.
LEMMA ReturnsTo ==
  ASSUME TypeOK, NEW t \in Threads, Return(t)
  PROVE  pc'[t] \in {"cleanup", "idle"} /\ OthersStay(t) /\ SendsAlone(t)'
BY DEF TypeOK, Return, Goto, OthersStay, SendsAlone

\* read() and its like, and the setting of a hook.
LEMMA IoHandles ==
  ASSUME IInv, HInv, NEW t \in Threads, io(t) \/ fdtonclose(t)
  PROVE  HInv'
<1>1. /\ TypeOK /\ Return(t) /\ UNCHANGED <<tabvars, live, users, type, h, evs, held, ci>>
      /\ pc[t] = "act" /\ loc[t].op \in {"io", "onclose"}
      /\ hooked' = hooked \/ hooked' = hooked \cup {loc[t].f}
  BY DEF IInv, io, fdtonclose, fdvars, Acts
<1>2. loc[t].f \in live
  BY <1>1 DEF IInv, NoDangling
<1>3. OneEventPair' /\ \A f \in Fds \ live : evs'[f] = 0 /\ f \notin hooked'
  BY <1>1, <1>2 DEF HInv, OneEventPair, NothingLeaks
<1>4. \A k \in Slots : ~ClosesSlot(t, k)
  BY <1>1 DEF ClosesSlot
<1> QED BY <1>1, <1>3, <1>4, ReturnsTo, HLocal DEF tabvars

\* initovev() makes the first pair of events.
LEMMA InitovevHandles ==
  ASSUME IInv, HInv, NEW t \in Threads, initovev(t)
  PROVE  HInv'
<1>1. /\ TypeOK /\ pc' = [pc EXCEPT ![t] = "act"] /\ loc' = loc /\ pc[t] = "initev"
      /\ UNCHANGED <<tabvars, live, users, type, h, hooked, held, ci>>
      /\ evs' = EventsAfter(loc[t].f)
  BY DEF IInv, initovev, Goto
<1>2. loc[t].f \in live /\ loc[t].f \in Fds
  BY <1>1 DEF IInv, NoDangling, TypeOK
<1>3. OneEventPair' /\ \A f \in Fds \ live : evs'[f] = 0 /\ f \notin hooked'
  BY <1>1, <1>2 DEF HInv, OneEventPair, NothingLeaks, EventsAfter, TypeOK
<1>4. pc'[t] = "act" /\ OthersStay(t)
  BY <1>1 DEF TypeOK, OthersStay
<1>5. SendsAlone(t)'
  BY <1>1, <1>4 DEF HInv, SendsAlone, OnlyOne, tabvars
<1>6. \A k \in Slots : ClosesSlot(t, k) => ClosesSlot(t, k)'
  BY <1>1, <1>4 DEF ClosesSlot
<1> QED BY <1>1, <1>3, <1>4, <1>5, <1>6, HLocal DEF tabvars

\* fdtget(): the Fd of the slot, or the end of the call.
LEMMA GetHandles ==
  ASSUME IInv, HInv, NEW t \in Threads, fdtget(t)
  PROVE  HInv'
<1>1. /\ TypeOK /\ pc[t] = "get" /\ loc[t] \in CallRecs /\ loc[t].fd \in Slots
      /\ UNCHANGED <<tabvars, fdvars, held, ci>>
  BY DEF IInv, fdtget, TypeOK, CallRecs
<1>2. OneEventPair' /\ \A f \in Fds \ live : evs'[f] = 0 /\ f \notin hooked'
  BY <1>1 DEF HInv, OneEventPair, NothingLeaks, fdvars
<1>3. fdtab[loc[t].fd] # Nil => loc[t].fd < fdtabsz
  BY <1>1 DEF IInv, WithinTable, Occupied
<1>4. CASE Return(t) /\ fdtab[loc[t].fd] = Nil
  <2>1. \A k \in Slots : ~(fdtab[k] # Nil /\ ClosesSlot(t, k))
    BY <1>4 DEF ClosesSlot
  <2> QED BY <1>1, <1>2, <1>4, <2>1, ReturnsTo, HLocal DEF tabvars, fdvars
<1>5. CASE ~(Return(t) /\ fdtab[loc[t].fd] = Nil)
  <2> DEFINE f == fdtab[loc[t].fd]
             l == IF type[f] \in Pipes /\ evs[f] = 0 THEN "initev" ELSE "act"
  <2>1. loc' = [loc EXCEPT ![t].f = f] /\ pc' = [pc EXCEPT ![t] = l]
    BY <1>1, <1>3, <1>5 DEF fdtget, Goto
  <2>2. l \in {"initev", "act"}
    OBVIOUS
  <2> HIDE DEF f, l
  <2>3. /\ pc'[t] \in {"initev", "act"} /\ OthersStay(t)
        /\ loc'[t].fd = loc[t].fd /\ loc'[t].op = loc[t].op /\ loc'[t].closeh = loc[t].closeh
    BY <1>1, <2>1, <2>2 DEF TypeOK, OthersStay, CallRecs
  <2>4. SendsAlone(t)'
    BY <1>1, <2>3 DEF HInv, SendsAlone, OnlyOne, tabvars, fdvars
  <2>5. \A k \in Slots : ClosesSlot(t, k) => ClosesSlot(t, k)'
    BY <1>1, <2>3 DEF ClosesSlot
  <2> QED BY <1>1, <1>2, <2>3, <2>4, <2>5, HLocal DEF tabvars, fdvars
<1> QED BY <1>4, <1>5

\* exits() and cleanup().
LEMMA CleanupHandles ==
  ASSUME IInv, HInv, Exits \/ cleanup
  PROVE  HInv'
<1>1. TypeOK /\ pc[Main] \in {"idle", "cleanup"} /\ UNCHANGED <<tabvars, fdvars, held>> /\ Main \in Threads
  BY ThreadsAssumption DEF IInv, cleanup, Exits
<1>2. OneEventPair' /\ \A f \in Fds \ live : evs'[f] = 0 /\ f \notin hooked'
  BY <1>1 DEF HInv, OneEventPair, NothingLeaks, fdvars
<1>3. \A k \in Slots : ~ClosesSlot(Main, k)
  BY <1>1 DEF ClosesSlot
<1>4. ASSUME NEW i, CloseFromCleanup(i) PROVE pc'[Main] = "get" /\ SendsAlone(Main)' /\ OthersStay(Main)
  BY <1>1, <1>4 DEF CloseFromCleanup, Goto, TypeOK, SendsAlone, NoCall, OthersStay
<1>5. ASSUME NEW l \in {"cleanup", "done", "fatal"}, pc' = [pc EXCEPT ![Main] = l], loc' = loc
      PROVE  pc'[Main] = l /\ SendsAlone(Main)' /\ OthersStay(Main)
  BY <1>1, <1>5 DEF TypeOK, SendsAlone, OthersStay
<1>6. ASSUME pc' = pc, loc' = loc
      PROVE  pc'[Main] = pc[Main] /\ SendsAlone(Main)' /\ OthersStay(Main)
  BY <1>1, <1>6 DEF TypeOK, SendsAlone, OthersStay
<1>7. /\ pc'[Main] \in {"get", "idle", "cleanup", "done", "fatal"}
      /\ SendsAlone(Main)' /\ OthersStay(Main)
  BY <1>1, <1>4, <1>5, <1>6 DEF Exits, cleanup, Goto
<1> QED BY <1>1, <1>2, <1>3, <1>7, HLocal DEF tabvars, fdvars

\* A step that changes nothing.
LEMMA StutterHandles ==
  ASSUME HInv, UNCHANGED vars
  PROVE  HInv'
BY DEF vars, tabvars, fdvars, HInv, HandleWhileUsed, NothingLeaks, OneEventPair, OpenIsTyped, Filling,
       FillsAlone, SendsAlone, ClosesHandle, OnlyOne, Occupied

\* open() and its like fill the new Fd.
LEMMA FillHandles ==
  ASSUME IInv, HInv, NEW t \in Threads, NEW ty \in Kinds, Fill(t, ty)
  PROVE  HInv'
<1> DEFINE f == fdtab[loc[t].fd]
<1>1. /\ TypeOK /\ pc[t] = "fill" /\ Return(t) /\ UNCHANGED <<tabvars, live, users, evs, hooked, held, ci>>
      /\ type' = [type EXCEPT ![f] = ty] /\ h' = [h EXCEPT ![f] = IF ty \in Closed THEN "open" ELSE "nil"]
      /\ f # Nil
  BY DEF IInv, Fill
<1>2. f \in Fds /\ loc[t].fd \in Slots
  BY <1>1 DEF TypeOK, CallRecs
<1>3. OnlyOne(t)
  BY <1>1 DEF HInv, FillsAlone
<1>4. f = fdtab[loc[t].fd]
  OBVIOUS
<1> HIDE DEF f
<1>5. /\ \A g \in Fds \ {f} : type'[g] = type[g] /\ h'[g] = h[g]
      /\ type'[f] = ty /\ h'[f] = IF ty \in Closed THEN "open" ELSE "nil"
  BY <1>1, <1>2 DEF TypeOK
<1> QED BY <1>1, <1>2, <1>3, <1>4, <1>5, ReturnsTo, HAlone DEF tabvars

\* open() fails: the Fd has no handle.
LEMMA FillFailsHandles ==
  ASSUME IInv, HInv, NEW t \in Threads, NEW ty \in Kinds, FillFails(t, ty)
  PROVE  HInv'
<1> DEFINE f == fdtab[loc[t].fd]
<1>1. /\ TypeOK /\ pc[t] = "fill" /\ UNCHANGED <<tabvars, live, users, h, evs, hooked, held, ci>>
      /\ type' = [type EXCEPT ![f] = ty] /\ f # Nil
      /\ pc' = [pc EXCEPT ![t] = "get"] /\ loc' = [loc EXCEPT ![t].op = "close"]
  BY DEF IInv, FillFails, Goto
<1>2. f \in Fds /\ loc[t].fd \in Slots
  BY <1>1 DEF TypeOK, CallRecs
<1>3. OnlyOne(t) /\ h[f] = "nil"
  BY <1>1 DEF HInv, FillsAlone
<1>4. f = fdtab[loc[t].fd]
  OBVIOUS
<1>5. pc'[t] = "get" /\ loc'[t].op = "close" /\ loc'[t].fd = loc[t].fd /\ OthersStay(t)
  BY <1>1 DEF TypeOK, CallRecs, OthersStay
<1>6. SendsAlone(t)'
  BY <1>1, <1>3, <1>5 DEF SendsAlone, OnlyOne, tabvars
<1> HIDE DEF f
<1>7. (\A g \in Fds \ {f} : type'[g] = type[g] /\ h'[g] = h[g]) /\ h'[f] = "nil"
  BY <1>1, <1>2, <1>3 DEF TypeOK
<1> QED BY <1>1, <1>2, <1>3, <1>4, <1>5, <1>6, <1>7, HAlone DEF tabvars

\* sendfd() gives the handle away.
LEMMA SendfdHandles ==
  ASSUME IInv, HInv, NEW t \in Threads, sendfd(t)
  PROVE  HInv'
<1>1. /\ TypeOK /\ pc[t] = "act" /\ loc[t].op = "send"
      /\ UNCHANGED <<tabvars, live, users, type, evs, hooked, held, ci>>
  BY DEF IInv, sendfd, Acts
<1>2. loc[t].f \in Fds /\ loc[t].fd \in Slots /\ loc[t].f = fdtab[loc[t].fd] /\ loc[t].f # Nil
  BY <1>1 DEF IInv, CallsAreValid, TypeOK, CallRecs
<1>3. CASE type[loc[t].f] \notin Pipes
  <2>1. Return(t) /\ h' = h
    BY <1>3 DEF sendfd
  <2>2. \A k \in Slots : ~ClosesSlot(t, k)
    BY <1>1 DEF ClosesSlot
  <2>3. OneEventPair' /\ \A f \in Fds \ live : evs'[f] = 0 /\ f \notin hooked'
    BY <1>1 DEF HInv, OneEventPair, NothingLeaks
  <2> QED BY <1>1, <2>1, <2>2, <2>3, ReturnsTo, HLocal DEF tabvars
<1>4. CASE type[loc[t].f] \in Pipes
  <2> DEFINE f == loc[t].f
  <2>1. /\ pc' = [pc EXCEPT ![t] = "get"] /\ loc' = [loc EXCEPT ![t].op = "close"]
        /\ h' = [h EXCEPT ![f] = "sent"]
    BY <1>4 DEF sendfd, Goto
  <2>2. /\ pc'[t] = "get" /\ loc'[t].op = "close" /\ loc'[t].fd = loc[t].fd
        /\ loc'[t].closeh = loc[t].closeh /\ OthersStay(t)
    BY <1>1, <2>1 DEF TypeOK, CallRecs, OthersStay
  <2>3. OnlyOne(t)
    BY <1>1 DEF HInv, SendsAlone
  <2>4. f \in Fds /\ f = fdtab[loc[t].fd]
    BY <1>2
  <2> HIDE DEF f
  <2>5. (\A g \in Fds \ {f} : type'[g] = type[g] /\ h'[g] = h[g]) /\ h'[f] = "sent"
    BY <1>1, <2>1, <2>4 DEF TypeOK
  <2>6. SendsAlone(t)'
    BY <1>1, <2>2, <2>3, <2>4, <2>5 DEF SendsAlone, OnlyOne, tabvars
  <2> QED BY <1>1, <1>2, <2>2, <2>3, <2>4, <2>5, <2>6, HAlone DEF tabvars
<1> QED BY <1>3, <1>4

\* open(): a fresh Fd, which nobody else has.
LEMMA OpenHandles ==
  ASSUME IInv, HInv, NEW t \in Threads, NEW i \in Slots, NEW f \in Fds, Open(t, i, f)
  PROVE  HInv'
<1> DEFINE r == [NoCall EXCEPT !.op = "open", !.fd = i]
<1>1. /\ TypeOK /\ pc[t] = "idle" /\ f \in Fds \ live /\ fdtalloc(t, i, f) /\ live' = live \cup {f}
      /\ type' = [type EXCEPT ![f] = "none"] /\ h' = [h EXCEPT ![f] = "nil"]
      /\ UNCHANGED <<evs, hooked, ci>>
      /\ loc' = [loc EXCEPT ![t] = r] /\ pc' = [pc EXCEPT ![t] = "fill"]
  BY DEF IInv, Open, Goto
<1>2. r.fd = i /\ r.op = "open"
  BY DEF NoCall
<1> HIDE DEF r
<1>3. /\ fdtab[i] = Nil /\ fdtab'[i] = f /\ \A j \in Slots \ {i} : fdtab'[j] = fdtab[j]
      /\ held'[t] = held[t] \cup {i} /\ \A u \in Threads \ {t} : held'[u] = held[u]
  BY <1>1, AllocCounts
<1>4. pc'[t] = "fill" /\ loc'[t] = r /\ OthersStay(t)
  BY <1>1 DEF TypeOK, OthersStay
<1>5. /\ \A g \in Fds \ {f} : type'[g] = type[g] /\ h'[g] = h[g]
      /\ type'[f] = "none" /\ h'[f] = "nil"
  BY <1>1 DEF TypeOK
<1>6. \A j \in Slots : fdtab[j] # f
  BY <1>1, NilAssumption DEF IInv, NoDangling, Occupied
<1>7. HandleWhileUsed'
  <2> SUFFICES ASSUME NEW k \in Slots, fdtab'[k] # Nil, type'[fdtab'[k]] \in Closed, ~Filling(k)'
               PROVE  h'[fdtab'[k]] = "open"
    BY DEF HandleWhileUsed, Occupied
  <2>1. k # i
    BY <1>3, <1>5 DEF Closed
  <2>2. fdtab'[k] = fdtab[k] /\ fdtab[k] \in Fds \ {f}
    BY <1>1, <1>3, <1>6, <2>1 DEF TypeOK
  <2>3. \A u \in Threads : ~ClosesSlot(u, k)
    BY <1>1, <1>4, FillingByThreads DEF OthersStay, ClosesSlot
  <2> QED BY <1>5, <2>2, <2>3, FillingByThreads DEF HInv, HandleWhileUsed, Occupied
<1>8. NothingLeaks' /\ OneEventPair'
  BY <1>1, <1>5 DEF HInv, NothingLeaks, OneEventPair
<1>9. OpenIsTyped'
  <2> SUFFICES ASSUME NEW g \in live', h'[g] = "open"
               PROVE  type'[g] \in Closed \/ \E u \in Threads : pc'[u] = "release" /\ loc'[u].f = g
    BY DEF OpenIsTyped
  <2>1. g \in live /\ g \in Fds \ {f}
    BY <1>1, <1>5 DEF TypeOK
  <2>2. type[g] \in Closed \/ \E u \in Threads : pc[u] = "release" /\ loc[u].f = g
    BY <1>5, <2>1 DEF HInv, OpenIsTyped
  <2> QED BY <1>1, <1>4, <1>5, <2>1, <2>2 DEF OthersStay
<1>10. ASSUME NEW u \in Threads PROVE FillsAlone(u)' /\ SendsAlone(u)' /\ ClosesHandle(u)'
  <2>1. CASE u = t
    <3>1. fdtab'[i] # Nil /\ \A j \in Slots : fdtab'[j] = fdtab'[i] => j = i
      BY <1>1, <1>3, <1>6, NilAssumption
    <3> QED BY <1>2, <1>3, <1>4, <1>5, <2>1, <3>1 DEF FillsAlone, SendsAlone, ClosesHandle, OnlyOne
  <2>2. CASE u # t
    <3>1. pc'[u] = pc[u] /\ loc'[u] = loc[u] /\ held'[u] = held[u]
      BY <1>3, <1>4, <2>2 DEF OthersStay
    <3>2. OnlyOne(u) => OnlyOne(u)' /\ h'[fdtab'[loc'[u].fd]] = h[fdtab[loc[u].fd]]
      <4> SUFFICES ASSUME OnlyOne(u)
                   PROVE  OnlyOne(u)' /\ h'[fdtab'[loc'[u].fd]] = h[fdtab[loc[u].fd]]
        OBVIOUS
      <4>1. loc[u].fd \in Slots \ {i} /\ fdtab[loc[u].fd] \in Fds \ {f}
        BY <1>1, <1>3, <1>6 DEF TypeOK, CallRecs, OnlyOne
      <4>2. fdtab'[loc[u].fd] = fdtab[loc[u].fd]
        BY <1>3, <4>1
      <4>3. \A j \in Slots : fdtab'[j] = fdtab[loc[u].fd] => j = loc[u].fd
        BY <1>3, <4>1 DEF OnlyOne
      <4>4. OnlyOne(u)'
        BY <3>1, <4>1, <4>2, <4>3 DEF OnlyOne
      <4> QED BY <1>5, <3>1, <4>1, <4>2, <4>4
    <3>3. pc[u] = "release" => loc[u].f \in Fds \ {f}
      BY <1>1 DEF IInv, NoDangling, TypeOK
    <3> QED BY <1>5, <3>1, <3>2, <3>3 DEF HInv, FillsAlone, SendsAlone, ClosesHandle
  <2> QED BY <2>1, <2>2
<1> QED BY <1>7, <1>8, <1>9, <1>10 DEF HInv

\* releasef(): the handle, the events and the hook go with the Fd.
LEMMA ReleasefHandles ==
  ASSUME IInv, HInv, NEW t \in Threads, releasef(t)
  PROVE  HInv'
<1> DEFINE f == loc[t].f
<1>1. /\ TypeOK /\ pc[t] = "release" /\ Return(t) /\ f \in Fds /\ f \in live
      /\ UNCHANGED <<tabvars, users, type, held, ci>>
      /\ live' = live \ {f} /\ hooked' = hooked \ {f}
      /\ h' = [h EXCEPT ![f] = IF (loc[t].closeh /\ loc[t].type \in Closed) \/ @ = "sent" THEN "nil" ELSE @]
      /\ evs' = [evs EXCEPT ![f] = IF @ > 0 THEN @ - 1 ELSE @]
  BY DEF IInv, releasef, NoDangling, TypeOK
<1>2. h'[f] # "open"
  <2>1. h[f] = "open" => loc[t].closeh = TRUE /\ loc[t].type \in Closed
    BY <1>1 DEF HInv, ClosesHandle
  <2>2. CASE h[f] = "open"
    BY <1>1, <2>1, <2>2 DEF TypeOK
  <2>3. CASE h[f] # "open"
    BY <1>1, <2>3 DEF TypeOK
  <2> QED BY <2>2, <2>3
<1>3. evs'[f] = 0
  <2>1. evs[f] \in {0, 1}
    BY <1>1 DEF HInv, OneEventPair
  <2> QED BY <1>1, <2>1 DEF TypeOK
<1>4. /\ pc'[t] \in {"cleanup", "idle"} /\ OthersStay(t) /\ SendsAlone(t)'
  BY <1>1, ReturnsTo
<1>5. (\A i \in Slots : fdtab[i] # f) /\ \A u \in Threads \ {t} : pc[u] = "release" => loc[u].f # f
  BY <1>1 DEF IInv, NoDangling
<1> HIDE DEF f
<1>6. \A g \in Fds \ {f} : h'[g] = h[g] /\ evs'[g] = evs[g]
  BY <1>1 DEF TypeOK
<1>7. HandleWhileUsed'
  <2> SUFFICES ASSUME NEW k \in Slots, fdtab[k] # Nil, type[fdtab[k]] \in Closed, ~Filling(k)'
               PROVE  h'[fdtab[k]] = "open"
    BY <1>1 DEF HandleWhileUsed, Occupied, tabvars
  <2>1. fdtab[k] \in Fds \ {f}
    BY <1>1, <1>5 DEF TypeOK
  <2>2. \A u \in Threads : ~ClosesSlot(u, k)
    BY <1>1, <1>4, FillingByThreads DEF OthersStay, ClosesSlot
  <2> QED BY <1>6, <2>1, <2>2, FillingByThreads DEF HInv, HandleWhileUsed, Occupied
<1>8. NothingLeaks' /\ OneEventPair'
  BY <1>1, <1>2, <1>3, <1>6 DEF HInv, NothingLeaks, OneEventPair
<1>9. OpenIsTyped'
  <2> SUFFICES ASSUME NEW g \in live', h'[g] = "open"
               PROVE  type'[g] \in Closed \/ \E u \in Threads : pc'[u] = "release" /\ loc'[u].f = g
    BY DEF OpenIsTyped
  <2>1. g \in live /\ g \in Fds \ {f}
    BY <1>1 DEF TypeOK
  <2>2. type[g] \in Closed \/ \E u \in Threads : pc[u] = "release" /\ loc[u].f = g
    BY <1>6, <2>1 DEF HInv, OpenIsTyped
  <2> QED BY <1>1, <1>4, <2>1, <2>2 DEF OthersStay, f
<1>10. ASSUME NEW u \in Threads PROVE FillsAlone(u)' /\ SendsAlone(u)' /\ ClosesHandle(u)'
  <2>1. CASE u = t
    BY <1>4, <2>1 DEF FillsAlone, ClosesHandle
  <2>2. CASE u # t
    <3>1. pc'[u] = pc[u] /\ loc'[u] = loc[u] /\ held'[u] = held[u] /\ fdtab' = fdtab
      BY <1>1, <1>4, <2>2 DEF OthersStay, tabvars
    <3>2. OnlyOne(u) => OnlyOne(u)' /\ h'[fdtab'[loc'[u].fd]] = h[fdtab[loc[u].fd]]
      <4> SUFFICES ASSUME OnlyOne(u)
                   PROVE  OnlyOne(u)' /\ h'[fdtab'[loc'[u].fd]] = h[fdtab[loc[u].fd]]
        OBVIOUS
      <4>1. fdtab[loc[u].fd] \in Fds \ {f}
        BY <1>1, <1>5 DEF TypeOK, CallRecs, OnlyOne
      <4> QED BY <1>6, <3>1, <4>1 DEF OnlyOne
    <3>3. pc[u] = "release" => loc[u].f \in Fds \ {f}
      BY <1>1, <1>5, <2>2 DEF IInv, NoDangling, TypeOK
    <3> QED BY <1>6, <3>1, <3>2, <3>3 DEF HInv, FillsAlone, SendsAlone, ClosesHandle
  <2> QED BY <2>1, <2>2
<1> QED BY <1>7, <1>8, <1>9, <1>10 DEF HInv

\* fdtclose(): the slot is emptied; with the last one, releasef() is told.
LEMMA CloseHandles ==
  ASSUME IInv, HInv, NEW t \in Threads, fdtclose(t), IInv'
  PROVE  HInv'
<1> DEFINE i == loc[t].fd
           f == loc[t].f
<1>1. /\ TypeOK /\ TypeOK' /\ pc[t] = "act" /\ loc[t].op = "close"
      /\ fdtab' = [fdtab EXCEPT ![i] = Nil]
      /\ type' = [type EXCEPT ![f] = IF users[f] = 1 THEN "none" ELSE @]
      /\ held' = [u \in Threads |-> held[u] \ {i}]
      /\ UNCHANGED <<live, h, evs, hooked, ci>>
  BY DEF IInv, fdtclose, Acts, LastUser
<1>2. i \in Slots /\ f \in Fds /\ fdtab[i] = f /\ f \in live
  BY <1>1 DEF IInv, TypeOK, CallRecs, CallsAreValid, NoDangling
<1>3. /\ OthersStay(t) /\ pc'[t] \in {"release", "cleanup", "idle", "fatal"}
      /\ users[f] = 1 => pc'[t] = "release"
      /\ pc'[t] = "release" => /\ users[f] = 1 /\ loc'[t].f = f /\ loc'[t].type = type[f]
                               /\ loc'[t].closeh = loc[t].closeh
  <2>1. CASE users[f] = 1
    <3>1. loc' = [loc EXCEPT ![t].type = type[f]] /\ pc' = [pc EXCEPT ![t] = "release"]
      BY <2>1 DEF fdtclose, LastUser, SavedType, Goto
    <3> QED BY <1>1, <2>1, <3>1 DEF TypeOK, CallRecs, OthersStay
  <2>2. CASE users[f] # 1
    <3>1. Return(t) \/ (pc' = [pc EXCEPT ![t] = "fatal"] /\ loc' = loc)
      BY <2>2 DEF fdtclose, LastUser, Goto
    <3> QED BY <1>1, <2>2, <3>1, ReturnsTo DEF TypeOK, OthersStay
  <2> QED BY <2>1, <2>2
<1> HIDE DEF i, f
<1>4. /\ fdtab'[i] = Nil /\ \A j \in Slots \ {i} : fdtab'[j] = fdtab[j]
      /\ \A g \in Fds \ {f} : type'[g] = type[g]
      /\ type'[f] = "none" \/ type'[f] = type[f]
      /\ users[f] # 1 => type'[f] = type[f]
      /\ \A u \in Threads : held'[u] = held[u] \ {i}
  BY <1>1, <1>2 DEF TypeOK
<1>5. \A k : ClosesSlot(t, k) => k = i
  BY DEF ClosesSlot, i
<1>6. HandleWhileUsed'
  <2> SUFFICES ASSUME NEW k \in Slots, fdtab'[k] # Nil, type'[fdtab'[k]] \in Closed, ~Filling(k)'
               PROVE  h'[fdtab'[k]] = "open"
    BY DEF HandleWhileUsed, Occupied
  <2>1. k # i /\ fdtab'[k] = fdtab[k] /\ fdtab[k] \in Fds
    BY <1>1, <1>4 DEF TypeOK
  <2>2. type[fdtab[k]] \in Closed
    BY <1>4, <2>1 DEF Closed
  <2>3. \A u \in Threads : ~ClosesSlot(u, k)
    BY <1>3, <1>5, <2>1, FillingByThreads DEF OthersStay, ClosesSlot
  <2> QED BY <1>1, <2>1, <2>2, <2>3, FillingByThreads DEF HInv, HandleWhileUsed, Occupied
<1>7. NothingLeaks' /\ OneEventPair'
  BY <1>1 DEF HInv, NothingLeaks, OneEventPair
<1>8. h[f] = "open" => type[f] \in Closed
  BY <1>2, ReleasedIsOut DEF HInv, OpenIsTyped
<1>9. OpenIsTyped'
  <2> SUFFICES ASSUME NEW g \in live, h[g] = "open"
               PROVE  type'[g] \in Closed \/ \E u \in Threads : pc'[u] = "release" /\ loc'[u].f = g
    BY <1>1 DEF OpenIsTyped
  <2>1. CASE g = f
    BY <1>3, <1>4, <1>8, <2>1
  <2>2. CASE g # f
    <3>1. type[g] \in Closed \/ \E u \in Threads : pc[u] = "release" /\ loc[u].f = g
      BY DEF HInv, OpenIsTyped
    <3>2. g \in Fds
      BY <1>1 DEF TypeOK
    <3> QED BY <1>1, <1>3, <1>4, <2>2, <3>1, <3>2 DEF OthersStay
  <2> QED BY <2>1, <2>2
<1>10. ASSUME NEW u \in Threads PROVE FillsAlone(u)' /\ SendsAlone(u)' /\ ClosesHandle(u)'
  <2>1. CASE u = t
    <3>1. ClosesHandle(t)'
      <4> SUFFICES ASSUME pc'[t] = "release", h'[f] = "open"
                   PROVE  loc[t].closeh = TRUE /\ type[f] \in Closed
        BY <1>3 DEF ClosesHandle
      <4>1. loc[t].closeh = FALSE => h[fdtab[loc[t].fd]] # "open"
        BY <1>1 DEF HInv, SendsAlone
      <4>2. loc[t].closeh \in BOOLEAN
        BY <1>1 DEF TypeOK, CallRecs
      <4> QED BY <1>1, <1>2, <1>8, <4>1, <4>2 DEF i
    <3> QED BY <1>3, <2>1, <3>1 DEF FillsAlone, SendsAlone
  <2>2. CASE u # t
    <3>1. pc'[u] = pc[u] /\ loc'[u] = loc[u] /\ held'[u] = held[u] \ {i}
      BY <1>3, <1>4, <2>2 DEF OthersStay
    <3>2. pc[u] \in {"fill", "get", "initev", "act"} /\ OnlyOne(u) =>
             OnlyOne(u)' /\ h'[fdtab'[loc'[u].fd]] = h[fdtab[loc[u].fd]]
      <4> SUFFICES ASSUME pc[u] \in {"fill", "get", "initev", "act"}, OnlyOne(u)
                   PROVE  OnlyOne(u)' /\ h'[fdtab'[loc'[u].fd]] = h[fdtab[loc[u].fd]]
        OBVIOUS
      <4>1. loc[u].fd \in Slots \ {i}
        BY <1>1, <2>2, NumbersApart DEF i, TypeOK, CallRecs
      <4>2. fdtab'[loc[u].fd] = fdtab[loc[u].fd]
        BY <1>4, <4>1
      <4>3. \A j \in Slots : fdtab'[j] = fdtab[loc[u].fd] => j = loc[u].fd
        BY <1>4, <4>1 DEF OnlyOne
      <4>4. OnlyOne(u)'
        BY <3>1, <4>1, <4>2, <4>3 DEF OnlyOne
      <4> QED BY <1>1, <3>1, <4>2, <4>4
    <3> QED BY <1>1, <3>1, <3>2 DEF HInv, FillsAlone, SendsAlone, ClosesHandle
  <2> QED BY <2>1, <2>2
<1> QED BY <1>6, <1>7, <1>9, <1>10 DEF HInv

\* dup() and dup2(): slot j becomes another one for the Fd of t; the Fd g it
\* had before may be released.
LEMMA AssignHandles ==
  ASSUME IInv, HInv, NEW t \in Threads, OthersStay(t), pc[t] = "act", loc[t].op \in {"dup", "dup2"},
         NEW j \in Slots, loc[t].fd # j, fdtab[j] = Nil \/ j \in held[t],
         fdtab'[j] = loc[t].f, \A i \in Slots \ {j} : fdtab'[i] = fdtab[i],
         held'[t] = held[t] \cup {j}, \A u \in Threads \ {t} : held'[u] = held[u],
         UNCHANGED <<live, h, evs, hooked>>,
         \/ type' = type /\ pc'[t] = "idle"
         \/ \E g \in Fds :
               /\ g = fdtab[j] /\ (\A i \in Slots : fdtab'[i] # g) /\ type' = [type EXCEPT ![g] = "none"]
               /\ pc'[t] = "release" /\ loc'[t].f = g /\ loc'[t].type = type[g] /\ loc'[t].closeh = TRUE
  PROVE  HInv'
<1> DEFINE f == loc[t].f
<1>1. TypeOK /\ f \in Fds /\ f \in live /\ loc[t].fd \in Slots /\ fdtab[loc[t].fd] = f
  BY DEF IInv, TypeOK, CallRecs, CallsAreValid, NoDangling
<1>2. ~Filling(loc[t].fd)
  <2>1. ~ClosesSlot(t, loc[t].fd)
    BY DEF ClosesSlot
  <2>2. ASSUME NEW u \in Threads \ {t} PROVE ~ClosesSlot(u, loc[t].fd)
    BY <2>2, NumbersApart DEF ClosesSlot
  <2> QED BY <2>1, <2>2, FillingByThreads
<1>3. \A k : ~ClosesSlot(t, k)
  BY DEF ClosesSlot
<1>4. \A k \in Slots : type'[fdtab'[k]] = type[fdtab'[k]]
  <2> SUFFICES ASSUME NEW k \in Slots PROVE type'[fdtab'[k]] = type[fdtab'[k]]
    OBVIOUS
  <2>1. CASE type' = type
    BY <2>1
  <2>2. CASE type' # type
    <3>1. PICK g \in Fds : (\A i \in Slots : fdtab'[i] # g) /\ type' = [type EXCEPT ![g] = "none"]
      BY <2>2
    <3> QED BY <1>1, <3>1 DEF TypeOK
  <2> QED BY <2>1, <2>2
<1> HIDE DEF f
<1>5. HandleWhileUsed'
  <2> SUFFICES ASSUME NEW k \in Slots, fdtab'[k] # Nil, type[fdtab'[k]] \in Closed, ~Filling(k)'
               PROVE  h[fdtab'[k]] = "open"
    BY <1>4 DEF HandleWhileUsed, Occupied
  <2>1. CASE k = j
    <3>1. fdtab'[k] = f /\ type[f] \in Closed
      BY <2>1 DEF f
    <3> QED BY <1>1, <1>2, <3>1, NilAssumption DEF HInv, HandleWhileUsed, Occupied
  <2>2. CASE k # j
    <3>1. fdtab'[k] = fdtab[k]
      BY <2>2
    <3>2. \A u \in Threads : ~ClosesSlot(u, k)
      BY <1>3, FillingByThreads DEF OthersStay, ClosesSlot
    <3> QED BY <3>1, <3>2, FillingByThreads DEF HInv, HandleWhileUsed, Occupied
  <2> QED BY <2>1, <2>2
<1>6. NothingLeaks' /\ OneEventPair'
  BY DEF HInv, NothingLeaks, OneEventPair
<1>7. ASSUME NEW g \in live, h[g] = "open"
      PROVE  type[g] \in Closed \/ \E u \in Threads \ {t} : pc[u] = "release" /\ loc[u].f = g
  BY <1>7 DEF HInv, OpenIsTyped
<1>8. OpenIsTyped'
  <2> SUFFICES ASSUME NEW g \in live, h[g] = "open"
               PROVE  type'[g] \in Closed \/ \E u \in Threads : pc'[u] = "release" /\ loc'[u].f = g
    BY DEF OpenIsTyped
  <2>1. CASE type' = type
    BY <1>7, <2>1 DEF OthersStay
  <2>2. CASE type' # type
    <3>1. PICK e \in Fds : type' = [type EXCEPT ![e] = "none"] /\ pc'[t] = "release" /\ loc'[t].f = e
      BY <2>2
    <3>2. CASE g = e
      BY <3>1, <3>2
    <3>3. CASE g # e
      <4>1. type'[g] = type[g]
        BY <1>1, <3>1, <3>3 DEF TypeOK
      <4> QED BY <1>7, <4>1 DEF OthersStay
    <3> QED BY <3>2, <3>3
  <2> QED BY <2>1, <2>2
<1>9. ASSUME NEW u \in Threads PROVE FillsAlone(u)' /\ SendsAlone(u)' /\ ClosesHandle(u)'
  <2>1. CASE u = t
    <3>1. pc'[t] \in {"idle", "release"}
      OBVIOUS
    <3>2. ASSUME pc'[t] = "release", h'[loc'[t].f] = "open"
          PROVE  loc'[t].closeh = TRUE /\ loc'[t].type \in Closed
      <4>1. PICK g \in Fds : g = fdtab[j] /\ loc'[t].f = g /\ loc'[t].type = type[g] /\ loc'[t].closeh = TRUE
        BY <3>2
      <4>2. g \in live
        BY <4>1, NilAssumption DEF IInv, NoDangling, Occupied
      <4>3. type[g] \in Closed
        BY <1>7, <3>2, <4>1, <4>2, ReleasedIsOut
      <4> QED BY <4>1, <4>3
    <3> QED BY <2>1, <3>1, <3>2 DEF FillsAlone, SendsAlone, ClosesHandle
  <2>2. CASE u # t
    <3>1. pc'[u] = pc[u] /\ loc'[u] = loc[u] /\ held'[u] = held[u]
      BY <2>2 DEF OthersStay
    <3>2. pc[u] \in {"fill", "get", "initev", "act"} /\ OnlyOne(u) =>
             OnlyOne(u)' /\ h'[fdtab'[loc'[u].fd]] = h[fdtab[loc[u].fd]]
      <4> SUFFICES ASSUME pc[u] \in {"fill", "get", "initev", "act"}, OnlyOne(u)
                   PROVE  OnlyOne(u)' /\ h'[fdtab'[loc'[u].fd]] = h[fdtab[loc[u].fd]]
        OBVIOUS
      <4>1. loc[u].fd \in Slots \ {j}
        BY <1>1, <2>2 DEF IInv, Ownership, TypeOK, CallRecs, OnlyOne
      <4>2. fdtab'[loc[u].fd] = fdtab[loc[u].fd]
        BY <4>1
      <4>3. loc[t].fd # loc[u].fd
        BY <2>2, NumbersApart
      <4>4. fdtab[loc[u].fd] # f
        BY <1>1, <4>3 DEF OnlyOne
      <4>5. \A k \in Slots : fdtab'[k] = fdtab[loc[u].fd] => k = loc[u].fd
        BY <4>1, <4>4 DEF OnlyOne, f
      <4>6. OnlyOne(u)'
        BY <3>1, <4>1, <4>2, <4>5 DEF OnlyOne
      <4> QED BY <3>1, <4>2, <4>6
    <3> QED BY <3>1, <3>2 DEF HInv, FillsAlone, SendsAlone, ClosesHandle
  <2> QED BY <2>1, <2>2
<1> QED BY <1>5, <1>6, <1>8, <1>9 DEF HInv

\* dup().
LEMMA DupHandles ==
  ASSUME IInv, HInv, NEW t \in Threads, NEW i \in Slots, fdtdup(t, i)
  PROVE  HInv'
<1>1. /\ TypeOK /\ pc[t] = "act" /\ loc[t].op = "dup" /\ fdtalloc(t, i, loc[t].f) /\ Return(t)
      /\ UNCHANGED <<live, type, h, evs, hooked, ci>>
  BY DEF IInv, fdtdup, Acts
<1>2. loc[t].f \in Fds /\ loc[t].fd \in Slots /\ fdtab[loc[t].fd] = loc[t].f
  BY <1>1 DEF IInv, CallsAreValid, TypeOK, CallRecs
<1>3. /\ fdtab[i] = Nil /\ fdtab'[i] = loc[t].f /\ \A j \in Slots \ {i} : fdtab'[j] = fdtab[j]
      /\ held'[t] = held[t] \cup {i} /\ \A u \in Threads \ {t} : held'[u] = held[u]
  BY <1>1, <1>2, AllocCounts
<1>4. loc[t].fd # i
  BY <1>2, <1>3, NilAssumption
<1>5. ci = -1
  BY <1>1, NotExiting
<1>6. pc'[t] = "idle" /\ OthersStay(t)
  BY <1>1, <1>5 DEF TypeOK, Return, Goto, OthersStay
<1> QED BY <1>1, <1>3, <1>4, <1>6, AssignHandles

\* A number goes to another thread while both are in no call.
LEMMA GiveHandles ==
  ASSUME IInv, HInv, NEW t \in Threads, NEW u \in Threads, NEW i \in Slots, Give(t, u, i)
  PROVE  HInv'
<1>1. /\ TypeOK /\ pc[t] = "idle" /\ pc[u] = "idle"
      /\ held' = [held EXCEPT ![t] = @ \ {i}, ![u] = @ \cup {i}]
      /\ UNCHANGED <<tabvars, fdvars, ci, pc, loc>>
  BY DEF IInv, Give
<1>2. \A w \in Threads \ {t, u} : held'[w] = held[w]
  BY <1>1 DEF TypeOK
<1>3. HandleWhileUsed' /\ NothingLeaks' /\ OneEventPair' /\ OpenIsTyped'
  BY <1>1 DEF HInv, HandleWhileUsed, NothingLeaks, OneEventPair, OpenIsTyped, Occupied, Filling, tabvars, fdvars
<1>4. ASSUME NEW w \in Threads PROVE FillsAlone(w)' /\ SendsAlone(w)' /\ ClosesHandle(w)'
  <2>1. CASE w \in {t, u}
    BY <1>1, <2>1 DEF FillsAlone, SendsAlone, ClosesHandle
  <2>2. CASE w \notin {t, u}
    BY <1>1, <1>2, <2>2 DEF HInv, FillsAlone, SendsAlone, ClosesHandle, OnlyOne, tabvars, fdvars
  <2> QED BY <2>1, <2>2
<1> QED BY <1>3, <1>4 DEF HInv

\* dup2().
LEMMA Dup2Handles ==
  ASSUME IInv, HInv, NEW t \in Threads, fdtdup2(t), IInv'
  PROVE  HInv'
<1> DEFINE oldf == loc[t].f
           j == loc[t].new
           f == IF j < fdtabsz THEN fdtab[j] ELSE Nil
           last == f # Nil /\ users[f] = 1
<1>1. /\ TypeOK /\ pc[t] = "act" /\ loc[t].op = "dup2"
      /\ fdtab' = [fdtab EXCEPT ![j] = oldf] /\ held' = [held EXCEPT ![t] = @ \cup {j}]
      /\ UNCHANGED <<live, h, evs, hooked, ci>>
  BY DEF IInv, fdtdup2, Acts
<1>2. /\ j \in Slots /\ oldf \in Fds /\ ci = -1 /\ loc[t].fd \in Slots /\ loc[t].fd # j /\ May(t, j)
  BY <1>1, NotExiting DEF IInv, CallsAreValid, TypeOK, CallRecs
<1>3. f = fdtab[j] /\ f \in Fds \cup {Nil}
  BY <1>1, <1>2 DEF IInv, WithinTable, Occupied, TypeOK
<1>4. /\ type' = IF last THEN [type EXCEPT ![f] = "none"] ELSE type
      /\ IF last THEN /\ loc' = [loc EXCEPT ![t].type = type[f], ![t].f = f]
                      /\ pc' = [pc EXCEPT ![t] = "release"]
         ELSE Return(t)
  BY DEF fdtdup2, LastUser, SavedType, Goto
<1>5. fdtab[j] = Nil \/ j \in held[t]
  BY <1>2 DEF IInv, Ownership, May, Unused
<1>6. loc[t].closeh = TRUE
  BY <1>1 DEF HInv, SendsAlone, TypeOK, CallRecs
<1>7. CASE last
  <2>1. loc' = [loc EXCEPT ![t].type = type[f], ![t].f = f] /\ pc' = [pc EXCEPT ![t] = "release"]
        /\ type' = [type EXCEPT ![f] = "none"] /\ f \in Fds
    BY <1>3, <1>4, <1>7
  <2> HIDE DEF f, j, oldf, last
  <2>2. /\ pc'[t] = "release" /\ loc'[t].f = f /\ loc'[t].type = type[f] /\ loc'[t].closeh = TRUE
        /\ OthersStay(t)
    BY <1>1, <1>6, <2>1 DEF TypeOK, CallRecs, OthersStay
  <2>3. \A i \in Slots : fdtab'[i] # f
    BY <2>2 DEF IInv, NoDangling
  <2>4. fdtab'[j] = oldf /\ \A i \in Slots \ {j} : fdtab'[i] = fdtab[i]
    BY <1>1, <1>2 DEF TypeOK
  <2>5. held'[t] = held[t] \cup {j} /\ \A u \in Threads \ {t} : held'[u] = held[u]
    BY <1>1 DEF TypeOK
  <2>6. \E g \in Fds :
               /\ g = fdtab[j] /\ (\A i \in Slots : fdtab'[i] # g) /\ type' = [type EXCEPT ![g] = "none"]
               /\ pc'[t] = "release" /\ loc'[t].f = g /\ loc'[t].type = type[g] /\ loc'[t].closeh = TRUE
    BY <1>3, <2>1, <2>2, <2>3
  <2>7. PICK k \in Slots : k = j
    BY <1>2
  <2> QED BY <1>1, <1>2, <1>5, <2>2, <2>4, <2>5, <2>6, <2>7, AssignHandles DEF oldf
<1>8. CASE ~last
  <2>1. Return(t) /\ type' = type
    BY <1>4, <1>8
  <2> HIDE DEF f, j, oldf, last
  <2>2. pc'[t] = "idle" /\ OthersStay(t)
    BY <1>1, <1>2, <2>1 DEF TypeOK, Return, Goto, OthersStay
  <2>3. fdtab'[j] = oldf /\ \A i \in Slots \ {j} : fdtab'[i] = fdtab[i]
    BY <1>1, <1>2 DEF TypeOK
  <2>4. held'[t] = held[t] \cup {j} /\ \A u \in Threads \ {t} : held'[u] = held[u]
    BY <1>1 DEF TypeOK
  <2>5. PICK k \in Slots : k = j
    BY <1>2
  <2> QED BY <1>1, <1>2, <1>5, <2>1, <2>2, <2>3, <2>4, <2>5, AssignHandles DEF oldf
<1> QED BY <1>7, <1>8

\* The standard descriptors: consoles have a handle that cleanup() closes.
LEMMA InitHandles == Init => HInv
<1> SUFFICES ASSUME Init PROVE HInv
  OBVIOUS
<1>0. PICK f0, f1, f2 \in Fds :
        /\ live = {f0, f1, f2}
        /\ \E ty \in {"std", "cons"} :
            /\ type = [f \in Fds |-> IF f \in {f0, f1, f2} THEN ty ELSE "none"]
            /\ h = [f \in Fds |-> IF f \in {f0, f1, f2} /\ ty = "cons" THEN "open" ELSE "nil"]
  BY SMTT(30) DEF Init
<1>1. PICK ty \in {"std", "cons"} :
        /\ live = {f0, f1, f2}
        /\ type = [f \in Fds |-> IF f \in {f0, f1, f2} THEN ty ELSE "none"]
        /\ h = [f \in Fds |-> IF f \in {f0, f1, f2} /\ ty = "cons" THEN "open" ELSE "nil"]
  BY <1>0
<1>2. /\ evs = [f \in Fds |-> 0] /\ hooked = {} /\ pc = [t \in Threads |-> "idle"]
  BY DEF Init
<1>3. \A f \in Fds : type[f] \in Closed <=> h[f] = "open"
  BY <1>1 DEF Closed
<1>4. \A f \in Fds \ live : h[f] # "open"
  BY <1>1
<1>5. \A i \in Slots : fdtab[i] # Nil => fdtab[i] \in Fds
  BY InitInv DEF IInv, TypeOK
<1>6. live \subseteq Fds
  BY <1>1
<1>7. HandleWhileUsed /\ NothingLeaks /\ OneEventPair /\ OpenIsTyped
  BY <1>2, <1>3, <1>4, <1>5, <1>6 DEF HandleWhileUsed, NothingLeaks, OneEventPair, OpenIsTyped, Occupied
<1>8. \A t \in Threads : FillsAlone(t) /\ SendsAlone(t) /\ ClosesHandle(t)
  BY <1>2 DEF FillsAlone, SendsAlone, ClosesHandle
<1> QED BY <1>7, <1>8 DEF HInv

\* A step of a thread, one case per action.
LEMMA StepHandles ==
  ASSUME IInv, HInv, IInv', NEW t \in Threads, Step(t)
  PROVE  HInv'
<1>1. ASSUME NEW i \in Slots, NEW f \in Fds, Open(t, i, f) PROVE HInv'
  BY <1>1, OpenHandles
<1>2. ASSUME NEW ty \in Kinds, Fill(t, ty) PROVE HInv'
  BY <1>2, FillHandles
<1>3. ASSUME NEW ty \in Kinds, FillFails(t, ty) PROVE HInv'
  BY <1>3, FillFailsHandles
<1>4. 0 \in Slots
  BY SlotsAssumption DEF Slots
<1>5. ASSUME NEW i \in Slots, CallClose(t, i) \/ CallIo(t, i) \/ CallOnclose(t, i) PROVE HInv'
  BY <1>4, <1>5, CallHandles DEF CallClose, CallIo, CallOnclose
<1>6. ASSUME NEW i \in Slots, CallSend(t, i) PROVE HInv'
  BY <1>4, <1>6, CallHandles DEF CallSend
<1>7. ASSUME NEW i \in Slots, CallDup(t, i) PROVE HInv'
  BY <1>4, <1>7, CallHandles DEF CallDup
<1>8. ASSUME NEW i \in Slots, NEW j \in Slots, CallDup2(t, i, j) PROVE HInv'
  BY <1>8, CallHandles DEF CallDup2
<1>9. ASSUME NEW i \in Slots, NEW u \in Threads, Give(t, u, i) PROVE HInv'
  BY <1>9, GiveHandles
<1>10. ASSUME NEW i \in Slots, fdtdup(t, i) PROVE HInv'
  BY <1>10, DupHandles
<1>11. CASE fdtget(t)
  BY <1>11, GetHandles
<1>12. CASE initovev(t)
  BY <1>12, InitovevHandles
<1>13. CASE fdtclose(t)
  BY <1>13, CloseHandles
<1>14. CASE fdtdup2(t)
  BY <1>14, Dup2Handles
<1>15. CASE releasef(t)
  BY <1>15, ReleasefHandles
<1>16. CASE io(t) \/ fdtonclose(t)
  BY <1>16, IoHandles
<1>17. CASE sendfd(t)
  BY <1>17, SendfdHandles
<1> QED BY <1>1, <1>2, <1>3, <1>5, <1>6, <1>7, <1>8, <1>9, <1>10, <1>11, <1>12, <1>13,
           <1>14, <1>15, <1>16, <1>17 DEF Step

\* The invariant of the handles holds in every state of every behaviour.
THEOREM HandlesInvariance == ASSUME Disciplined PROVE Spec => [](IInv /\ HInv)
<1>1. Init => IInv /\ HInv
  BY InitInv, InitHandles
<1>2. IInv /\ HInv /\ [Next]_vars => IInv' /\ HInv'
  <2> SUFFICES ASSUME IInv, HInv, [Next]_vars PROVE IInv' /\ HInv'
    OBVIOUS
  <2>1. IInv'
    BY NextInv
  <2>2. ASSUME NEW t \in Threads, Step(t) PROVE HInv'
    BY <2>1, <2>2, StepHandles
  <2>3. CASE Exits \/ cleanup
    BY <2>1, <2>3, CleanupHandles
  <2>4. CASE UNCHANGED vars
    BY <2>1, <2>4, StutterHandles
  <2> QED BY <2>1, <2>2, <2>3, <2>4 DEF Next, Done
<1> QED BY <1>1, <1>2, PTL DEF Spec

\* A handle lives as long as a descriptor refers to it and no longer, and its
\* events and its hook go with it, although releasef() runs without the lock
\* and on a type that fdtclose() has cleared before.
THEOREM HandlesCorrect == ASSUME Disciplined PROVE Spec => []HandlesKept
<1>1. IInv /\ HInv => HandlesKept
  BY DEF HInv, HandlesKept
<1> QED BY <1>1, HandlesInvariance, PTL
=============================================================================
