---------------------------- MODULE Ramfs_proofs ----------------------------
(***************************************************************************)
(* Proofs about Ramfs, for any number of fids and slots, any bound on the *)
(* files created and files of any size: the open counts are right, the    *)
(* files are a tree, no byte that was not written is read, and a file for *)
(* exclusive use is open once.                                            *)
(***************************************************************************)
EXTENDS Ramfs, FiniteSetTheorems, NaturalsInduction, WellFoundedInduction, TLAPS

-----------------------------------------------------------------------------
(* Induction.  The provers cannot instantiate the induction rules of the  *)
(* library, which are about operators; they can use that a set of natural *)
(* numbers has a least element.                                           *)

\* A set of natural numbers that is not empty has a least element.
LEMMA Least ==
    ASSUME NEW T \in SUBSET Nat, T # {}
    PROVE  \E n \in T : \A m \in T : n <= m
<1> DEFINE R == OpToRel(<, Nat)
<1>1. IsWellFoundedOn(R, Nat) BY NatLessThanWellFounded
<1>2. \A x, y \in Nat : y < x => <<y, x>> \in R BY DEF OpToRel
<1> HIDE DEF R
<1>3. PICK x \in T : \A y \in T : ~(<<y, x>> \in R) BY <1>1, WFMin
<1>4. \A y \in T : ~(y < x) BY <1>2, <1>3
<1> QED BY <1>4

\* Induction up to n, for a property given as the set P of numbers that have it.
LEMMA UpTo ==
    ASSUME NEW n \in Nat, NEW P, 0 \in P, \A i \in 1..n : i - 1 \in P => i \in P
    PROVE  \A i \in 0..n : i \in P
<1> DEFINE T == {i \in 0..n : i \notin P}
<1>1. SUFFICES ASSUME T # {} PROVE FALSE OBVIOUS
<1>2. T \in SUBSET Nat OBVIOUS
<1>3. PICK k \in T : \A m \in T : k <= m
  <2> HIDE DEF T
  <2> QED BY <1>1, <1>2, Least
<1>4. k \in 1..n /\ k - 1 \in 0..n BY <1>3
<1>5. k - 1 \in T BY <1>3, <1>4
<1> QED BY <1>3, <1>4, <1>5

\* g starts with a, and F[i] leads from its element i-1 to its element i.
Steps(g, n, a, F) == g[0] = a /\ \A i \in 1..n : g[i] = F[i][g[i-1]]

\* Such a function exists, however long it is: what a recursive definition
\* on 0..n needs to mean anything.
LEMMA StepsExist ==
    ASSUME NEW S, NEW a \in S, NEW F \in [Nat -> [S -> S]], NEW n \in Nat
    PROVE  \E g \in [0..n -> S] : Steps(g, n, a, F)
<1> DEFINE P == {k \in Nat : \E g \in [0..k -> S] : Steps(g, k, a, F)}
<1>1. 0 \in P
  <2>1. [i \in 0..0 |-> a] \in [0..0 -> S] /\ Steps([i \in 0..0 |-> a], 0, a, F) BY DEF Steps
  <2> QED BY <2>1
<1>2. ASSUME NEW k \in 1..n, k - 1 \in P PROVE k \in P
  <2>1. PICK g \in [0..(k-1) -> S] : Steps(g, k - 1, a, F) BY <1>2
  <2> DEFINE g1 == [i \in 0..k |-> IF i = k THEN F[k][g[k-1]] ELSE g[i]]
  <2>2. g1 \in [0..k -> S] BY <2>1
  <2>3. Steps(g1, k, a, F) BY <2>1 DEF Steps
  <2> HIDE DEF g1
  <2> QED BY <2>2, <2>3
<1>3. \A i \in 0..n : i \in P
  <2> HIDE DEF P
  <2> QED BY <1>1, <1>2, UpTo
<1>4. n \in 0..n OBVIOUS
<1> QED BY <1>3, <1>4

-----------------------------------------------------------------------------
(* Types.                                                                 *)

Perms == [other : SUBSET rwx, group : SUBSET rwx, owner : SUBSET rwx,
          excl : BOOLEAN, append : BOOLEAN]
Bytes == {"byte", "zero", "junk"}
Rams == [busy : BOOLEAN, open : Nat, parent : Slots, dir : BOOLEAN, path : Nat,
         mode : Perms, name : Names \cup {"", "."}, user : Users \cup {NoUser},
         group : Users \cup {NoUser}, data : Seq(Bytes), ndata : Nat]
FidRecs == [busy : BOOLEAN, open : BOOLEAN, rclose : BOOLEAN, user : Users \cup {NoUser},
            ram : Slots \cup {-1}]

\* The variables are of their types; a fid in use refers to a slot, and one
\* that is not is not open.
Typed ==
    /\ ram \in [Slots -> Rams]
    /\ nram \in 2..Nram
    /\ path \in 0..MaxPath
    /\ fid \in [Fids -> FidRecs]
    /\ status \in {"up", "version", "aborted", "exited"}
    /\ \A f \in Fids : IF fid[f].busy THEN fid[f].ram \in Slots
                       ELSE ~fid[f].open /\ fid[f].ram \in {-1, 0}

-----------------------------------------------------------------------------
(* Walking.                                                               *)

\* How far a walk has come.
Walks == [at : Slots, n : Nat, err : BOOLEAN, stop : BOOLEAN]

\* Looking for one name leads to a slot.
LEMMA StepLeadsToSlot ==
    ASSUME Typed, NEW fd, NEW s \in Walks, NEW name
    PROVE  WalkStep(fd, s, name) \in Walks
<1> USE NramAssumption
<1> DEFINE hit == Named(s.at, name)
<1>1. ram[s.at].parent \in Slots BY DEF Typed, Rams, Walks
<1>2. hit \in SUBSET Nat /\ hit \subseteq Slots BY DEF Named, Index, Slots, Typed
<1>3. hit # {} => (CHOOSE i \in hit : \A j \in hit : i <= j) \in Slots
  <2> HIDE DEF hit
  <2>1. SUFFICES ASSUME hit # {} PROVE (CHOOSE i \in hit : \A j \in hit : i <= j) \in hit BY <1>2
  <2> QED BY <2>1, <1>2, Least
<1>4. ASSUME NEW i \in Slots PROVE [s EXCEPT !.at = i, !.n = @ + 1] \in Walks
  <2>1. s.n + 1 \in Nat BY DEF Walks
  <2> QED BY <2>1 DEF Walks
<1>5. [s EXCEPT !.err = TRUE] \in Walks /\ [s EXCEPT !.stop = TRUE] \in Walks BY DEF Walks
<1>6. s.at \in Slots BY DEF Walks
<1> DEFINE c == CHOOSE i \in hit : \A j \in hit : i <= j
<1> HIDE DEF hit
<1>7. hit # {} => c \in Slots BY <1>3
<1> HIDE DEF c
<1> QED BY <1>1, <1>4, <1>5, <1>6, <1>7 DEF WalkStep, hit, c

\* So does a walk along any path, by induction on its length.
LEMMA WalkLeadsToSlot ==
    ASSUME Typed, NEW fd, NEW start \in Slots, NEW names, Len(names) \in Nat
    PROVE  WalkFrom(fd, start, names) \in Walks
<1> DEFINE n == Len(names)
           st == [at |-> start, n |-> 0, err |-> FALSE, stop |-> FALSE]
           Body(g, i) == IF i = 0 THEN st
                         ELSE IF g[i-1].err \/ g[i-1].stop THEN g[i-1]
                              ELSE WalkStep(fd, g[i-1], names[i])
           F == [i \in Nat |-> [s \in Walks |-> IF s.err \/ s.stop THEN s ELSE WalkStep(fd, s, names[i])]]
           W == CHOOSE g : g = [i \in 0..n |-> Body(g, i)]
<1>1. n \in Nat OBVIOUS
<1>2. st \in Walks BY DEF Walks
<1>3. F \in [Nat -> [Walks -> Walks]] BY StepLeadsToSlot
<1> HIDE DEF st
<1>4. \E g \in [0..n -> Walks] : Steps(g, n, st, F)
  <2> HIDE DEF F, n, W, Body
  <2> QED BY <1>1, <1>2, <1>3, StepsExist
<1>5. PICK g \in [0..n -> Walks] : Steps(g, n, st, F) BY <1>4
<1>6. g = [i \in 0..n |-> Body(g, i)]
  <2>1. ASSUME NEW i \in 1..n PROVE F[i][g[i-1]] = Body(g, i)
    <3>1. i \in Nat /\ i - 1 \in 0..n /\ i # 0 BY <1>1
    <3>2. g[i-1] \in Walks BY <3>1, <1>5
    <3> QED BY <3>1, <3>2
  <2>2. g[0] = Body(g, 0) BY <1>5 DEF Steps
  <2> HIDE DEF F, Body
  <2>3. \A i \in 0..n : g[i] = Body(g, i) BY <2>1, <2>2, <1>5, <1>1 DEF Steps
  <2> QED BY <2>3
<1>7. W = [i \in 0..n |-> Body(W, i)]
  <2> HIDE DEF Body
  <2> QED BY <1>6
<1> HIDE DEF W
<1>8. \A i \in 0..n : W[i] \in Walks
  <2> DEFINE P == {i \in 0..n : W[i] \in Walks}
  <2>1. 0 \in P BY <1>7, <1>1, <1>2
  <2>2. ASSUME NEW i \in 1..n, i - 1 \in P PROVE i \in P
    <3>1. W[i-1] \in Walks /\ i # 0 /\ i \in 0..n BY <2>2, <1>1
    <3>2. W[i] = Body(W, i)
      <4> HIDE DEF Body
      <4> QED BY <3>1, <1>7
    <3>3. Body(W, i) \in Walks BY <3>1, StepLeadsToSlot
    <3> QED BY <3>1, <3>2, <3>3
  <2>3. \A i \in 0..n : i \in P
    <3> HIDE DEF P, n
    <3> QED BY <2>1, <2>2, UpTo, <1>1
  <2> QED BY <2>3
<1>9. WalkFrom(fd, start, names) = W[n] BY DEF WalkFrom, W, st
<1> QED BY <1>1, <1>8, <1>9

-----------------------------------------------------------------------------
(* Open counts.                                                           *)

\* The fids that are open on slot i, the fids being fd.
Openers(fd, i) == {f \in Fids : fd[f].open /\ fd[f].ram = i}

\* There are finitely many.
LEMMA OpenersFinite ==
    ASSUME NEW fd, NEW i
    PROVE  IsFiniteSet(Openers(fd, i)) /\ Cardinality(Openers(fd, i)) \in Nat
<1>1. Openers(fd, i) \subseteq Fids BY DEF Openers
<1>2. IsFiniteSet(Openers(fd, i)) BY <1>1, FidsAssumption, FS_Subset
<1> QED BY <1>2, FS_CardinalityType

\* Nothing is counted anew if what is open stays open on its slot.
LEMMA SameOpeners ==
    ASSUME NEW fd, NEW fe, NEW j,
           \A g \in Fids : fe[g].open = fd[g].open /\ (fd[g].open => fe[g].ram = fd[g].ram)
    PROVE  Openers(fe, j) = Openers(fd, j)
BY DEF Openers

\* A fid f that is opened on slot i counts there, and nowhere else.
LEMMA OneMoreOpener ==
    ASSUME NEW fd, NEW fe, NEW f \in Fids, NEW i, NEW j,
           ~fd[f].open, fe[f].open, fe[f].ram = i,
           \A g \in Fids \ {f} : fe[g] = fd[g]
    PROVE  Cardinality(Openers(fe, j)) = Cardinality(Openers(fd, j)) + IF j = i THEN 1 ELSE 0
<1>1. CASE j = i
  <2>1. Openers(fe, j) = Openers(fd, j) \cup {f} BY <1>1 DEF Openers
  <2>2. f \notin Openers(fd, j) BY DEF Openers
  <2>3. Cardinality(Openers(fd, j) \cup {f}) = Cardinality(Openers(fd, j)) + 1
    BY <2>2, OpenersFinite, FS_AddElement
  <2> QED BY <1>1, <2>1, <2>3
<1>2. CASE j # i
  <2>1. Openers(fe, j) = Openers(fd, j) BY <1>2 DEF Openers
  <2> QED BY <1>2, <2>1, OpenersFinite
<1> QED BY <1>1, <1>2

\* A fid f that is not open any more does not count.
LEMMA OneOpenerLess ==
    ASSUME NEW fd, NEW fe, NEW f \in Fids, NEW j, ~fe[f].open,
           \A g \in Fids \ {f} : fe[g] = fd[g]
    PROVE  IF fd[f].open /\ fd[f].ram = j
           THEN Cardinality(Openers(fe, j)) = Cardinality(Openers(fd, j)) - 1
           ELSE Cardinality(Openers(fe, j)) = Cardinality(Openers(fd, j))
<1>1. CASE fd[f].open /\ fd[f].ram = j
  <2>1. Openers(fe, j) = Openers(fd, j) \ {f} BY <1>1 DEF Openers
  <2>2. f \in Openers(fd, j) BY <1>1 DEF Openers
  <2>3. Cardinality(Openers(fd, j) \ {f}) = Cardinality(Openers(fd, j)) - 1
    BY <2>2, OpenersFinite, FS_RemoveElement
  <2> QED BY <1>1, <2>1, <2>3
<1>2. CASE ~(fd[f].open /\ fd[f].ram = j)
  <2>1. Openers(fe, j) = Openers(fd, j) BY <1>2 DEF Openers
  <2> QED BY <1>2, <2>1
<1> QED BY <1>1, <1>2

\* The open counts, said with Openers.
LEMMA CountsOpeners == OpenCount <=> \A i \in Slots : ram[i].open = Cardinality(Openers(fid, i))
BY DEF OpenCount, Openers

-----------------------------------------------------------------------------
(* Types and open counts are kept by every request.                       *)

CInv == Typed /\ OpenCount

\* Neither changes the files: attaching gives the root, and
LEMMA AttachCounts ==
    ASSUME CInv, NEW f \in Fids, NEW u \in Users, rattach(f, u)
    PROVE  CInv'
<1> USE DEF CInv, rattach
<1> DEFINE x == [fid[f] EXCEPT !.busy = TRUE, !.rclose = FALSE, !.ram = 0, !.user = u]
<1>1. 0 \in Slots BY NramAssumption DEF Slots
<1>2. fid[f] \in FidRecs /\ fid[f].open = FALSE BY DEF Typed, FidRecs
<1>3. x \in FidRecs /\ x.open = FALSE /\ x.busy /\ x.ram = 0 BY <1>1, <1>2 DEF FidRecs
<1>4. fid' = [fid EXCEPT ![f] = x] OBVIOUS
<1> HIDE DEF x
<1>5. Typed' BY <1>1, <1>3, <1>4 DEF Typed, Slots
<1>6. \A j : Openers(fid', j) = Openers(fid, j)
  <2>1. \A g \in Fids : fid'[g].open = fid[g].open /\ (fid[g].open => fid'[g].ram = fid[g].ram)
    BY <1>2, <1>3, <1>4 DEF Typed
  <2> QED BY ZenonT(40), <2>1, SameOpeners
<1> QED BY <1>5, <1>6, CountsOpeners DEF OpenCount, Openers, Slots

\* a walk leads to another slot, of a fid that is not open,
LEMMA WalkCounts ==
    ASSUME CInv, NEW f \in Fids, NEW p \in Paths, ~fid[f].open, rwalk(f, p)
    PROVE  CInv'
<1> USE DEF CInv, rwalk
<1> DEFINE w == WalkFrom(fid[f], fid[f].ram, p)
<1>1. Len(p) \in Nat BY PathsAssumption
<1>2. fid[f] \in FidRecs /\ fid[f].ram \in Slots /\ fid[f].open = FALSE BY DEF Typed, FidRecs
<1>3. w.at \in Slots
  <2>1. w \in Walks BY <1>1, <1>2, WalkLeadsToSlot
  <2> QED BY <2>1 DEF Walks
<1>4. fid' = fid \/ fid' = [fid EXCEPT ![f].ram = w.at] OBVIOUS
<1> HIDE DEF w
<1>5. CASE fid' = fid
  <2>1. Typed' BY <1>5 DEF Typed
  <2> QED BY <1>5, <2>1 DEF OpenCount, Slots
<1>6. CASE fid' = [fid EXCEPT ![f].ram = w.at]
  <2> DEFINE x == [fid[f] EXCEPT !.ram = w.at]
  <2>1. x \in FidRecs /\ x.open = FALSE /\ x.busy /\ x.ram \in Slots BY <1>2, <1>3 DEF FidRecs
  <2>2. fid' = [fid EXCEPT ![f] = x] BY <1>6
  <2> HIDE DEF x
  <2>3. Typed' BY <2>1, <2>2 DEF Typed, Slots
  <2>4. \A j : Openers(fid', j) = Openers(fid, j)
    <3>1. \A g \in Fids : fid'[g].open = fid[g].open /\ (fid[g].open => fid'[g].ram = fid[g].ram)
      BY <1>2, <2>1, <2>2 DEF Typed
    <3> HIDE DEF rwalk, CInv
    <3> QED BY <3>1, SameOpeners
  <2> QED BY <2>3, <2>4 DEF OpenCount, Openers, Slots
<1> QED BY <1>4, <1>5, <1>6

\* also when the walk is to a new fid, whether it succeeds or not.
LEMMA WalkNewCounts ==
    ASSUME CInv, NEW f \in Fids, NEW nf \in Fids, NEW p \in Paths, rwalknew(f, nf, p)
    PROVE  CInv'
<1> USE DEF CInv, rwalknew
<1> DEFINE w == WalkFrom(xclone(f, nf), fid[f].ram, p)
           x == [xclone(f, nf) EXCEPT !.ram = w.at]
           y == [xclone(f, nf) EXCEPT !.busy = FALSE, !.ram = -1]
<1>1. Len(p) \in Nat BY PathsAssumption
<1>2. fid[f] \in FidRecs /\ fid[f].ram \in Slots /\ fid[nf].open = FALSE BY DEF Typed, FidRecs
<1>3. w.at \in Slots
  <2>1. w \in Walks BY <1>1, <1>2, WalkLeadsToSlot
  <2> QED BY <2>1 DEF Walks
<1>4. \/ fid' = [fid EXCEPT ![nf] = x] /\ status' = status
      \/ fid' = [fid EXCEPT ![nf] = y] /\ status' = "aborted"
  OBVIOUS
<1> HIDE DEF w
<1>5. x \in FidRecs /\ x.open = FALSE /\ x.busy /\ x.ram \in Slots
  BY <1>2, <1>3 DEF FidRecs, xclone, FreeFid
<1>6. y \in FidRecs /\ y.open = FALSE /\ ~y.busy /\ y.ram = -1 BY <1>2 DEF FidRecs, xclone, FreeFid
<1> HIDE DEF x, y
<1>7. Typed'
  <2>1. ram' = ram /\ nram' = nram /\ path' = path OBVIOUS
  <2>2. status' \in {"up", "version", "aborted", "exited"} BY <1>4 DEF Typed
  <2>3. fid' \in [Fids -> FidRecs] BY <1>4, <1>5, <1>6 DEF Typed
  <2>4. ASSUME NEW g \in Fids
        PROVE  IF fid'[g].busy THEN fid'[g].ram \in Slots ELSE ~fid'[g].open /\ fid'[g].ram \in {-1, 0}
    BY <1>4, <1>5, <1>6 DEF Typed
  <2> QED BY <2>1, <2>2, <2>3, <2>4 DEF Typed, Slots
<1>8. \A j : Openers(fid', j) = Openers(fid, j)
  <2>1. \A g \in Fids : fid'[g].open = fid[g].open /\ (fid[g].open => fid'[g].ram = fid[g].ram)
    BY <1>2, <1>4, <1>5, <1>6 DEF Typed
  <2> QED BY <2>1, SameOpeners
<1> QED BY <1>7, <1>8 DEF OpenCount, Openers, Slots

\* An open that is granted counts.
LEMMA OpenCounts ==
    ASSUME CInv, NEW f \in Fids, NEW m \in OpenModes, ropen(f, m)
    PROVE  CInv'
<1> DEFINE i == fid[f].ram
           r == ram[i]
           ok == \A p \in Needs(m) : perm(fid[f], r, p)
           x == OpenedRam(r, m)
           y == [fid[f] EXCEPT !.rclose = @ \/ m.rclose, !.open = ok]
<1>1. fid[f] \in FidRecs /\ fid[f].open = FALSE /\ fid[f].busy /\ i \in Slots /\ r \in Rams
  BY DEF CInv, Typed, FidRecs, ropen
<1>2. ok \in BOOLEAN /\ m.rclose \in BOOLEAN BY OpenModesAssumption
<1>3. /\ fid' = [fid EXCEPT ![f] = y]
      /\ ram' = IF ok THEN [ram EXCEPT ![i] = x] ELSE ram
      /\ UNCHANGED <<nram, path, status>>
  <2> HIDE DEF ok
  <2>1. fid' = [fid EXCEPT ![f].rclose = @ \/ m.rclose, ![f].open = ok] BY DEF ropen, ok
  <2>2. fid \in [Fids -> FidRecs] BY DEF CInv, Typed
  <2>3. fid' = [fid EXCEPT ![f] = y] BY <2>1, <2>2
  <2>4. ram' = IF ok THEN [ram EXCEPT ![i] = x] ELSE ram BY DEF ropen, ok
  <2> QED BY <2>3, <2>4 DEF ropen
<1> HIDE DEF ok
<1>4. y \in FidRecs /\ y.open = ok /\ y.busy /\ y.ram = i BY <1>1, <1>2 DEF FidRecs
<1>5. x \in Rams /\ x.open = r.open + 1
  <2> HIDE DEF r
  <2>1. <<>> \in Seq(Bytes) OBVIOUS
  <2>2. r.open \in Nat BY <1>1 DEF Rams
  <2>3. r.open + 1 \in Nat BY <2>2
  <2> QED BY <1>1, <2>1, <2>3 DEF Rams, OpenedRam
<1> HIDE DEF x, y
<1>6. Typed'
  <2>1. ram' \in [Slots -> Rams] BY <1>1, <1>3, <1>5 DEF CInv, Typed
  <2>2. fid' \in [Fids -> FidRecs] BY <1>3, <1>4 DEF CInv, Typed
  <2> QED BY <2>1, <2>2, <1>1, <1>3, <1>4 DEF CInv, Typed
<1>7. CASE ok
  <2>1. /\ fid'[f].open /\ fid'[f].ram = i
        /\ \A g \in Fids \ {f} : fid'[g] = fid[g]
    BY <1>3, <1>4, <1>7 DEF CInv, Typed
  <2>2. ASSUME NEW j \in Slots PROVE ram'[j].open = Cardinality(Openers(fid', j))
    <3>1. Cardinality(Openers(fid', j)) = Cardinality(Openers(fid, j)) + IF j = i THEN 1 ELSE 0
      <4> HIDE DEF i
      <4> QED BY <1>1, <2>1, OneMoreOpener
    <3>2. ram[j].open = Cardinality(Openers(fid, j)) BY CountsOpeners DEF CInv
    <3>3. ram'[j] = IF j = i THEN x ELSE ram[j] BY <1>1, <1>3, <1>7 DEF CInv, Typed
    <3> QED BY <3>1, <3>2, <3>3, <1>5, OpenersFinite
  <2> QED BY <1>6, <2>2 DEF CInv, OpenCount, Openers, Slots
<1>8. CASE ~ok
  <2>1. \A g \in Fids : fid'[g].open = fid[g].open /\ (fid[g].open => fid'[g].ram = fid[g].ram)
    BY <1>1, <1>2, <1>3, <1>4, <1>8 DEF CInv, Typed
  <2>2. \A j : Openers(fid', j) = Openers(fid, j) BY <2>1, SameOpeners
  <2> QED BY <1>3, <1>6, <1>8, <2>2 DEF CInv, OpenCount, Openers, Slots
<1> QED BY <1>7, <1>8

\* A file that is created is open through f; what other fids to a file that
\* was in its slot count stays.
LEMMA CreateCounts ==
    ASSUME CInv, NEW f \in Fids, NEW name \in Names, NEW c \in Modes, NEW isdir \in BOOLEAN,
           NEW rclose \in BOOLEAN, rcreate(f, name, c, isdir, rclose)
    PROVE  CInv'
<1> DEFINE d == fid[f].ram
           X(i) == NewRam(ram[i], d, fid[f], name, c, isdir)
<1>1. fid[f] \in FidRecs /\ fid[f].open = FALSE /\ fid[f].busy /\ d \in Slots /\ ram[d] \in Rams
  BY DEF CInv, Typed, FidRecs, rcreate
<1>2. PICK i \in FirstFree :
        /\ ram' = [ram EXCEPT ![i] = X(i)]
        /\ nram' = IF i >= nram THEN i + 1 ELSE nram
        /\ fid' = [fid EXCEPT ![f].ram = i, ![f].open = TRUE, ![f].rclose = @ \/ rclose]
  BY DEF rcreate
<1> DEFINE x == X(i)
           y == [fid[f] EXCEPT !.ram = i, !.open = TRUE, !.rclose = @ \/ rclose]
<1>3. i \in Slots /\ ram[i] \in Rams BY DEF FirstFree, CInv, Typed
<1>4. path' \in 0..MaxPath /\ path + 1 \in Nat /\ status' = status
  BY BoundsAssumption DEF rcreate, CInv, Typed
<1>5. Masked(d, c, isdir) \in Perms
  <2>1. c \in Perms /\ ram[d].mode \in Perms BY ModesAssumption, <1>1 DEF Perms, rwx, Rams
  <2> DEFINE mask(k) == IF isdir THEN c[k] \cap ram[d].mode[k]
                        ELSE (c[k] \cap {"exec"}) \cup (c[k] \cap ram[d].mode[k] \cap rw)
  <2>2. mask("other") \in SUBSET rwx /\ mask("group") \in SUBSET rwx /\ mask("owner") \in SUBSET rwx
    BY <2>1 DEF Perms
  <2>3. Masked(d, c, isdir) = [c EXCEPT !.other = mask("other"), !.group = mask("group"), !.owner = mask("owner")]
    BY DEF Masked
  <2> HIDE DEF mask
  <2> QED BY <2>1, <2>2, <2>3 DEF Perms
<1>6. x \in Rams /\ x.open = ram[i].open + 1
  <2>0. ram[i].open \in Nat BY <1>3 DEF Rams
  <2>1. ram[i].open + 1 \in Nat /\ (ram[i].dir \/ isdir) \in BOOLEAN BY <2>0
  <2>2. fid[f].user \in Users \cup {NoUser} BY <1>1 DEF FidRecs
  <2>3. ram[d].group \in Users \cup {NoUser} BY <1>1 DEF Rams
  <2> HIDE DEF d
  <2> QED BY <2>1, <2>2, <2>3, <1>1, <1>3, <1>4, <1>5 DEF Rams, NewRam
<1>7. fid' = [fid EXCEPT ![f] = y] /\ ram' = [ram EXCEPT ![i] = x]
  <2>1. fid \in [Fids -> FidRecs] BY DEF CInv, Typed
  <2> QED BY <1>2, <2>1
<1>8. y \in FidRecs /\ y.open = TRUE /\ y.busy /\ y.ram = i BY <1>1, <1>3 DEF FidRecs
<1> HIDE DEF x, y, X
<1>9. Typed'
  <2>1. ram' \in [Slots -> Rams] BY <1>3, <1>7, <1>6 DEF CInv, Typed
  <2>2. fid' \in [Fids -> FidRecs] BY <1>7, <1>8 DEF CInv, Typed
  <2>3. nram' \in 2..Nram BY <1>2, <1>3, NramAssumption DEF CInv, Typed, Slots
  <2> QED BY <2>1, <2>2, <2>3, <1>3, <1>4, <1>7, <1>8 DEF CInv, Typed
<1>10. /\ fid'[f].open /\ fid'[f].ram = i
       /\ \A g \in Fids \ {f} : fid'[g] = fid[g]
  BY <1>7, <1>8 DEF CInv, Typed
<1>11. ASSUME NEW j \in Slots PROVE ram'[j].open = Cardinality(Openers(fid', j))
  <2>1. Cardinality(Openers(fid', j)) = Cardinality(Openers(fid, j)) + IF j = i THEN 1 ELSE 0
    BY <1>1, <1>10, OneMoreOpener
  <2>2. ram[j].open = Cardinality(Openers(fid, j)) BY CountsOpeners DEF CInv
  <2>3. ram'[j] = IF j = i THEN x ELSE ram[j] BY <1>3, <1>7 DEF CInv, Typed
  <2> QED BY <2>1, <2>2, <2>3, <1>6, OpenersFinite
<1> QED BY <1>9, <1>11 DEF CInv, OpenCount, Openers, Slots

\* The data a write leaves is data.
LEMMA WriteIsData ==
    ASSUME NEW r \in Rams, NEW off \in Nat, NEW cnt \in Nat
    PROVE  AfterWrite(r, off, cnt) \in Seq(Bytes)
<1> DEFINE d == IF off + cnt > r.ndata THEN erealloc(r.data, off + cnt) ELSE r.data
           z == IF off > r.ndata THEN memset(d, r.ndata, off) ELSE d
<1>0. r.data \in Seq(Bytes) BY DEF Rams
<1>1. r.data \in Seq(Bytes) /\ off + cnt \in Nat BY <1>0
<1>2. d \in Seq(Bytes)
  <2>1. erealloc(r.data, off + cnt) \in Seq(Bytes) BY <1>1 DEF erealloc, Bytes
  <2> QED BY <1>1, <2>1
<1> HIDE DEF d
<1>3. z \in Seq(Bytes)
  <2>1. memset(d, r.ndata, off) \in Seq(Bytes) BY <1>2 DEF memset, Bytes
  <2> QED BY <1>2, <2>1
<1>4. AfterWrite(r, off, cnt) = [i \in DOMAIN z |-> IF off < i /\ i <= off + cnt THEN "byte" ELSE z[i]]
  BY DEF AfterWrite, d
<1> HIDE DEF z
<1> QED BY <1>3, <1>4 DEF Bytes

\* So is what a change of the length leaves.
LEMMA ResizedIsData ==
    ASSUME NEW r \in Rams, NEW len \in Nat
    PROVE  Resized(r, len) \in Seq(Bytes)
<1>1. r.data \in Seq(Bytes) BY DEF Rams
<1>2. erealloc(r.data, len) \in Seq(Bytes) BY <1>1 DEF erealloc, Bytes
<1>3. memset(erealloc(r.data, len), r.ndata, len) \in Seq(Bytes) BY <1>2 DEF memset, Bytes
<1> QED BY <1>2, <1>3 DEF Resized

\* A request that changes one Ram, and neither its open count nor a fid.
LEMMA NoCountChanges ==
    ASSUME CInv, NEW i \in Slots, NEW x \in Rams, x.open = ram[i].open,
           ram' = [ram EXCEPT ![i] = x],
           status' \in {"up", "version", "aborted", "exited"},
           UNCHANGED <<nram, path, fid>>
    PROVE  CInv'
<1>1. ram' \in [Slots -> Rams] BY DEF CInv, Typed
<1>2. Typed' BY <1>1 DEF CInv, Typed
<1>3. \A j \in Slots : ram'[j].open = ram[j].open BY DEF CInv, Typed
<1> QED BY <1>2, <1>3 DEF CInv, OpenCount, Slots

\* A write does that,
LEMMA WriteCounts ==
    ASSUME CInv, NEW f \in Fids, NEW offset \in Nat, NEW cnt \in Nat, rwrite(f, offset, cnt)
    PROVE  CInv'
<1> DEFINE i == fid[f].ram
           r == ram[i]
           off == IF r.mode.append THEN r.ndata ELSE offset
           x == [r EXCEPT !.data = AfterWrite(r, off, cnt),
                          !.ndata = IF off + cnt > @ THEN off + cnt ELSE @]
<1>1. i \in Slots /\ r \in Rams BY DEF CInv, Typed, rwrite
<1>2. off \in Nat /\ off + cnt \in Nat
  <2>1. r.ndata \in Nat BY <1>1 DEF Rams
  <2> QED BY <2>1
<1>3. ram' = [ram EXCEPT ![i].data = AfterWrite(r, off, cnt),
                         ![i].ndata = IF off + cnt > @ THEN off + cnt ELSE @]
  BY DEF rwrite
<1>4. ram' = [ram EXCEPT ![i] = x] BY <1>1, <1>3 DEF CInv, Typed
<1>5. AfterWrite(r, off, cnt) \in Seq(Bytes)
  <2> HIDE DEF off, r
  <2> QED BY <1>1, <1>2, WriteIsData
<1>6. x \in Rams /\ x.open = r.open
  <2> HIDE DEF off, r
  <2> QED BY <1>1, <1>2, <1>5 DEF Rams
<1> HIDE DEF x
<1>7. status' \in {"up", "version", "aborted", "exited"} /\ UNCHANGED <<nram, path, fid>>
  BY DEF rwrite, CInv, Typed
<1> HIDE DEF i
<1> QED BY <1>1, <1>4, <1>6, <1>7, NoCountChanges

\* and a change of the status,
LEMMA WstatCounts ==
    ASSUME CInv, NEW f \in Fids, NEW name \in Names \cup {""}, NEW c \in SUBSET Modes,
           NEW gid \in Users \cup {""}, NEW len \in Nat \cup {-1},
           rwstat(f, name, c, gid, len)
    PROVE  CInv'
<1> DEFINE i == fid[f].ram
           r == ram[i]
           n == IF len # -1 /\ len # r.ndata THEN len ELSE -1
           x == NewStat(r, name, c, gid, n)
<1>1. i \in Slots /\ r \in Rams BY DEF CInv, Typed, rwstat
<1>2. n \in Nat \cup {-1} OBVIOUS
<1>3. /\ UNCHANGED <<nram, path, fid>>
      /\ \/ status' = "exited" /\ ram' = ram
         \/ status' = status /\ ram' = [ram EXCEPT ![i] = x]
  BY DEF rwstat
<1>4. x \in Rams /\ x.open = r.open
  <2> HIDE DEF n, r
  <2> DEFINE m == CHOOSE m \in c : TRUE
  <2>1. c # {} => m \in Perms BY ModesAssumption DEF Perms, rwx
  <2>2. n # -1 => Resized(r, n) \in Seq(Bytes) /\ n \in Nat BY <1>1, <1>2, ResizedIsData
  <2>3. x = [r EXCEPT !.mode = IF c = {} THEN @ ELSE m, !.name = IF name = "" THEN @ ELSE name,
                      !.group = IF gid = "" THEN @ ELSE gid,
                      !.data = IF n = -1 THEN @ ELSE Resized(r, n), !.ndata = IF n = -1 THEN @ ELSE n]
    BY DEF NewStat
  <2> HIDE DEF x, m
  <2> QED BY ZenonT(40), <1>1, <2>1, <2>2, <2>3 DEF Rams
<1> HIDE DEF x
<1>5. CASE status' = "exited" /\ ram' = ram
  <2>1. ram' = [ram EXCEPT ![i] = r] BY <1>1, <1>5 DEF CInv, Typed
  <2> QED BY <1>1, <1>3, <1>5, <2>1, NoCountChanges
<1>6. CASE status' = status /\ ram' = [ram EXCEPT ![i] = x]
  BY <1>1, <1>3, <1>4, <1>6, NoCountChanges DEF CInv, Typed
<1> QED BY <1>3, <1>5, <1>6

\* A request that gives up a fid: what both Tclunk and Tremove do.
GivesUp(f) ==
    /\ fid[f].busy
    /\ ram' \in {Closed(f), [realremove(fid[f].ram) EXCEPT ![fid[f].ram].open = Closed(f)[fid[f].ram].open]}
    /\ fid' = [fid EXCEPT ![f] = [@ EXCEPT !.busy = FALSE, !.open = FALSE, !.ram = -1]]
    /\ UNCHANGED <<nram, path, status>>

\* The Ram r of a file that is removed, but for its open count n.
RemovedRam(r, n) == [r EXCEPT !.ndata = 0, !.data = <<>>, !.parent = 0, !.path = 0,
                              !.dir = FALSE, !.name = "", !.busy = FALSE, !.open = n]

\* One Ram changes: its open count, and its file is removed if it may be.
LEMMA GivesUpOne ==
    ASSUME CInv, NEW f \in Fids, GivesUp(f)
    PROVE  LET i == fid[f].ram
               n == IF fid[f].open THEN ram[i].open - 1 ELSE ram[i].open
           IN  /\ i \in Slots
               /\ n \in Nat
               /\ \/ ram' = [ram EXCEPT ![i] = [ram[i] EXCEPT !.open = n]]
                  \/ ~(ram[i].dir /\ ~emptydir(i)) /\ ram' = [ram EXCEPT ![i] = RemovedRam(ram[i], n)]
<1> DEFINE i == fid[f].ram
           n == IF fid[f].open THEN ram[i].open - 1 ELSE ram[i].open
<1>1. i \in Slots /\ ram \in [Slots -> Rams] /\ ram[i] \in Rams BY DEF CInv, Typed, GivesUp
<1>2. ram[i].open \in Nat BY <1>1 DEF Rams
<1>3. n \in Nat
  <2>1. CASE fid[f].open
    <3>1. f \in Openers(fid, i) BY <2>1 DEF Openers
    <3>2. ram[i].open = Cardinality(Openers(fid, i)) BY <1>1, CountsOpeners DEF CInv
    <3>3. Cardinality(Openers(fid, i)) # 0 BY <3>1, OpenersFinite, FS_EmptySet
    <3> QED BY <1>2, <3>2, <3>3
  <2> QED BY <2>1, <1>2
<1>4. Closed(f) = [ram EXCEPT ![i] = [ram[i] EXCEPT !.open = n]]
  <2>1. CASE fid[f].open BY <2>1, <1>1 DEF Closed
  <2>2. CASE ~fid[f].open
    <3>1. ram[i] = [ram[i] EXCEPT !.open = ram[i].open] BY <1>1 DEF Rams
    <3> QED BY <2>2, <3>1, <1>1 DEF Closed
  <2> QED BY <2>1, <2>2
<1>5. Closed(f)[i].open = n BY <1>1, <1>4 DEF Rams
<1>6. CASE ram' = Closed(f) BY <1>1, <1>3, <1>4, <1>6
<1>7. CASE ram' = [realremove(i) EXCEPT ![i].open = n]
  <2>1. CASE ram[i].dir /\ ~emptydir(i)
    <3>1. realremove(i) = ram BY <2>1 DEF realremove
    <3>2. ram' = [ram EXCEPT ![i] = [ram[i] EXCEPT !.open = n]] BY <1>1, <1>7, <3>1
    <3> QED BY <1>1, <1>3, <3>2
  <2>2. CASE ~(ram[i].dir /\ ~emptydir(i))
    <3> DEFINE y == [ram[i] EXCEPT !.ndata = 0, !.data = <<>>, !.parent = 0, !.path = 0,
                                   !.dir = FALSE, !.name = "", !.busy = FALSE]
    <3>1. realremove(i) = [ram EXCEPT ![i] = y]
      <4> HIDE DEF i
      <4> QED BY <2>2 DEF realremove
    <3>2. RemovedRam(ram[i], n) = [y EXCEPT !.open = n] BY DEF RemovedRam
    <3> HIDE DEF y, n, i
    <3>3. ram' = [ram EXCEPT ![i] = RemovedRam(ram[i], n)] BY <1>1, <1>7, <3>1, <3>2
    <3> QED BY <2>2, <1>1, <1>3, <3>3 DEF n, i
  <2> QED BY <2>1, <2>2
<1> QED BY <1>5, <1>6, <1>7 DEF GivesUp

\* The fid does not count any more.
LEMMA GivesUpCounts ==
    ASSUME CInv, NEW f \in Fids, GivesUp(f)
    PROVE  CInv'
<1> DEFINE i == fid[f].ram
           n == IF fid[f].open THEN ram[i].open - 1 ELSE ram[i].open
           y == [fid[f] EXCEPT !.busy = FALSE, !.open = FALSE, !.ram = -1]
<1>1. PICK x \in Rams : x.open = n /\ ram' = [ram EXCEPT ![i] = x]
  <2>1. /\ n \in Nat /\ i \in Slots
        /\ \/ ram' = [ram EXCEPT ![i] = [ram[i] EXCEPT !.open = n]]
           \/ ram' = [ram EXCEPT ![i] = RemovedRam(ram[i], n)]
    BY GivesUpOne
  <2>2. ram[i] \in Rams BY <2>1 DEF CInv, Typed
  <2> HIDE DEF n, i
  <2>3. [ram[i] EXCEPT !.open = n] \in Rams /\ [ram[i] EXCEPT !.open = n].open = n BY <2>1, <2>2 DEF Rams
  <2>4. 0 \in Slots /\ <<>> \in Seq(Bytes) BY NramAssumption DEF Slots
  <2>5. RemovedRam(ram[i], n) \in Rams /\ RemovedRam(ram[i], n).open = n
    BY <2>1, <2>2, <2>4 DEF Rams, RemovedRam
  <2> QED BY <2>1, <2>3, <2>5
<1>2. i \in Slots /\ fid[f] \in FidRecs BY DEF CInv, Typed, GivesUp
<1>3. fid' = [fid EXCEPT ![f] = y] BY DEF GivesUp
<1>4. y \in FidRecs /\ y.open = FALSE /\ ~y.busy /\ y.ram = -1 BY <1>2 DEF FidRecs
<1> HIDE DEF y
<1>5. Typed'
  <2>1. ram' \in [Slots -> Rams] BY <1>1, <1>2 DEF CInv, Typed
  <2>2. fid' \in [Fids -> FidRecs] BY <1>3, <1>4 DEF CInv, Typed
  <2> QED BY <2>1, <2>2, <1>3, <1>4 DEF CInv, Typed, GivesUp
<1>6. ~fid'[f].open /\ \A g \in Fids \ {f} : fid'[g] = fid[g] BY <1>3, <1>4 DEF CInv, Typed
<1>7. ASSUME NEW j \in Slots PROVE ram'[j].open = Cardinality(Openers(fid', j))
  <2>1. IF fid[f].open /\ fid[f].ram = j
        THEN Cardinality(Openers(fid', j)) = Cardinality(Openers(fid, j)) - 1
        ELSE Cardinality(Openers(fid', j)) = Cardinality(Openers(fid, j))
    BY <1>6, OneOpenerLess
  <2>2. ram[j].open = Cardinality(Openers(fid, j)) BY CountsOpeners DEF CInv
  <2>3. ram'[j] = IF j = i THEN x ELSE ram[j] BY <1>1, <1>2 DEF CInv, Typed
  <2> QED BY <2>1, <2>2, <2>3, <1>1
<1> QED BY <1>5, <1>7 DEF CInv, OpenCount, Openers, Slots

\* Tclunk is such a request.
LEMMA ClunkGivesUp == ASSUME NEW f \in Fids, rclunk(f) PROVE GivesUp(f)
BY DEF rclunk, GivesUp

\* Tremove is one too.
LEMMA RemoveGivesUp == ASSUME NEW f \in Fids, rremove(f) PROVE GivesUp(f)
BY DEF rremove, GivesUp

\* No request, and the start of Tversion and its end, leave all as it is.
Rests == /\ UNCHANGED <<ram, nram, path, fid>>
         /\ status' \in {status, "up", "version"}

\* The requests a step may be.
LEMMA Requests ==
    ASSUME [Next]_vars
    PROVE  \/ Rests
           \/ \E f \in Fids, u \in Users : rattach(f, u)
           \/ \E f \in Fids, p \in Paths : ~fid[f].open /\ rwalk(f, p)
           \/ \E f \in Fids, nf \in Fids, p \in Paths : rwalknew(f, nf, p)
           \/ \E f \in Fids, m \in OpenModes : ropen(f, m)
           \/ \E f \in Fids, n \in Names, c \in Modes, d \in BOOLEAN, m \in OpenModes :
                rcreate(f, n, c, d, m.rclose)
           \/ \E f \in Fids, off \in Nat, cnt \in Nat : rwrite(f, off, cnt)
           \/ \E f \in Fids : rclunk(f)
           \/ "remove" \in Ops /\ \E f \in Fids : rremove(f)
           \/ \E f \in Fids, n \in Names \cup {""}, c \in SUBSET Modes, g \in Users \cup {""},
                 len \in Nat \cup {-1} : ("chmod" \notin Ops => c = {}) /\ rwstat(f, n, c, g, len)
<1>1. CASE UNCHANGED vars BY <1>1 DEF vars, Rests
<1>2. CASE Version \/ VersionEnds BY <1>2 DEF Version, VersionStarts, VersionEnds, Rests
<1>3. ASSUME NEW f \in Fids, Attach(f) \/ Walk(f) \/ Open(f) \/ rclunk(f) \/ Remove(f)
      PROVE  \/ \E u \in Users : rattach(f, u)
             \/ \E p \in Paths : ~fid[f].open /\ rwalk(f, p)
             \/ \E nf \in Fids, p \in Paths : rwalknew(f, nf, p)
             \/ \E m \in OpenModes : ropen(f, m)
             \/ rclunk(f)
             \/ "remove" \in Ops /\ rremove(f)
  BY <1>3 DEF Attach, Walk, Open, Remove
<1>4. ASSUME NEW f \in Fids, Create(f)
      PROVE  \E n \in Names, c \in Modes, d \in BOOLEAN, m \in OpenModes :
                rcreate(f, n, c, d, m.rclose)
  <2>1. PICK n \in Names, c \in Modes, d \in {FALSE, "dir" \in Ops}, m \in OpenModes :
          rcreate(f, n, c, d, m.rclose)
    BY <1>4 DEF Create
  <2>2. CASE d = FALSE BY <2>1, <2>2
  <2>3. CASE d = ("dir" \in Ops)
    <3>1. ("dir" \in Ops) \in BOOLEAN OBVIOUS
    <3>2. d \in BOOLEAN BY <2>3, <3>1, Zenon
    <3> QED BY <2>1, <3>2
  <2> QED BY <2>1, <2>2, <2>3, Zenon
<1>5. ASSUME NEW f \in Fids, Write(f)
      PROVE  \E off \in Nat, cnt \in Nat : rwrite(f, off, cnt)
  <2>1. PICK off \in 0..Maxsize, cnt \in 0..1 : rwrite(f, off, cnt) BY <1>5 DEF Write
  <2>2. off \in Nat /\ cnt \in Nat BY <2>1, BoundsAssumption
  <2> QED BY <2>1, <2>2
<1>6. ASSUME NEW f \in Fids, Wstat(f)
      PROVE  \E n \in Names \cup {""}, c \in SUBSET Modes, g \in Users \cup {""}, len \in Nat \cup {-1} :
                ("chmod" \notin Ops => c = {}) /\ rwstat(f, n, c, g, len)
  <2>1. CASE "chmod" \in Ops /\ \E c \in Modes : rwstat(f, "", {c}, "", -1)
    <3>1. PICK c \in Modes : rwstat(f, "", {c}, "", -1) BY <2>1
    <3>2. {c} \in SUBSET Modes BY <3>1
    <3> QED BY <2>1, <3>1, <3>2
  <2>2. CASE \E n \in Names : rwstat(f, n, {}, "", -1) BY <2>2
  <2>3. CASE \E g \in Users : rwstat(f, "", {}, g, -1) BY <2>3
  <2>4. CASE \E len \in 0..(Maxsize - 1) : rwstat(f, "", {}, "", len)
    <3>1. PICK len \in 0..(Maxsize - 1) : rwstat(f, "", {}, "", len) BY <2>4
    <3>2. len \in Nat BY BoundsAssumption
    <3> QED BY <3>1, <3>2
  <2> QED BY <1>6, <2>1, <2>2, <2>3, <2>4 DEF Wstat
<1>7. CASE \E f \in Fids : \/ Attach(f) \/ Walk(f) \/ Open(f) \/ Create(f) \/ Write(f)
                           \/ rclunk(f) \/ Remove(f) \/ Wstat(f)
  <2>1. PICK f \in Fids : \/ Attach(f) \/ Walk(f) \/ Open(f) \/ Create(f) \/ Write(f)
                          \/ rclunk(f) \/ Remove(f) \/ Wstat(f)
    BY <1>7
  <2>2. CASE Attach(f) \/ Walk(f) \/ Open(f) \/ rclunk(f) \/ Remove(f) BY <2>2, <1>3
  <2>3. CASE Create(f) BY <2>3, <1>4
  <2>4. CASE Write(f) BY <2>4, <1>5
  <2>5. CASE Wstat(f) BY <2>5, <1>6
  <2> QED BY <2>1, <2>2, <2>3, <2>4, <2>5
<1> QED BY <1>1, <1>2, <1>7 DEF Next

\* The counts are right, and all variables of their types, at any time: however
\* fids are cloned, opened, clunked and removed, and slots used again while
\* fids are open on them.
THEOREM CountInvariance == Spec => []CInv
<1>1. Init => CInv
  <2> SUFFICES ASSUME Init PROVE CInv OBVIOUS
  <2> USE NramAssumption
  <2>1. 0 \in Slots /\ <<>> \in Seq(Bytes) BY DEF Slots
  <2>2. \A o, g, u \in SUBSET rwx : Mode(o, g, u) \in Perms BY DEF Mode, Perms
  <2>3. FreeRam \in Rams /\ FreeRam.open = 0 /\ FreeRam.parent = 0 BY <2>1, <2>2 DEF FreeRam, Rams
  <2>4. ASSUME NEW i \in Slots PROVE ram[i] \in Rams /\ ram[i].open = 0
    <3>1. rw \in SUBSET rwx /\ {"read", "exec"} \in SUBSET rwx /\ rwx \in SUBSET rwx BY DEF rw, rwx
    <3>2. Mode({"read", "exec"}, rwx, rwx) \in Perms /\ Mode(rw, rw, rw) \in Perms BY <2>2, <3>1
    <3>3. "file" \in Names /\ Owner \in Users BY NamesAssumption, UsersAssumption
    <3>4. CASE i = 0
      <4>1. ram[i] = [FreeRam EXCEPT !.busy = TRUE, !.dir = TRUE, !.name = ".", !.user = Owner,
                          !.group = Owner, !.mode = Mode({"read", "exec"}, rwx, rwx)]
        BY <3>4 DEF Init
      <4>2. ASSUME NEW md \in Perms
            PROVE  LET x == [FreeRam EXCEPT !.busy = TRUE, !.dir = TRUE, !.name = ".", !.user = Owner,
                                            !.group = Owner, !.mode = md]
                   IN  x \in Rams /\ x.open = 0
        BY <2>3, <3>3 DEF Rams
      <4> QED BY <4>1, <4>2, <3>2
    <3>5. CASE i = 1
      <4>1. ram[i] = [FreeRam EXCEPT !.busy = TRUE, !.path = 1, !.name = "file", !.user = Owner,
                          !.group = Owner, !.mode = Mode(rw, rw, rw)]
        BY <3>5 DEF Init
      <4>2. ASSUME NEW md \in Perms
            PROVE  LET x == [FreeRam EXCEPT !.busy = TRUE, !.path = 1, !.name = "file", !.user = Owner,
                                            !.group = Owner, !.mode = md]
                   IN  x \in Rams /\ x.open = 0
        BY <2>3, <3>3 DEF Rams
      <4> QED BY <4>1, <4>2, <3>2
    <3>6. CASE i # 0 /\ i # 1
      <4>1. ram[i] = FreeRam BY <3>6 DEF Init
      <4> QED BY <4>1, <2>3
    <3> QED BY <3>4, <3>5, <3>6
  <2>5. ram \in [Slots -> Rams]
    <3>1. \E e : ram = [i \in Slots |-> e[i]] BY DEF Init
    <3> QED BY <2>4, <3>1
  <2>6. FreeFid \in FidRecs /\ FreeFid.open = FALSE /\ ~FreeFid.busy /\ FreeFid.ram = -1
    BY DEF FreeFid, FidRecs
  <2>7. fid = [f \in Fids |-> FreeFid] BY DEF Init
  <2>8. Typed BY <2>5, <2>6, <2>7, BoundsAssumption DEF Typed, Init
  <2>9. \A i : Openers(fid, i) = {} BY <2>6, <2>7 DEF Openers
  <2>10. OpenCount BY <2>4, <2>9, FS_EmptySet, CountsOpeners
  <2> QED BY <2>8, <2>10 DEF CInv
<1>2. CInv /\ [Next]_vars => CInv'
  <2> SUFFICES ASSUME CInv, [Next]_vars PROVE CInv' OBVIOUS
  <2>1. CASE Rests
    <3>1. Typed' BY <2>1 DEF Rests, CInv, Typed
    <3> QED BY <3>1, <2>1 DEF Rests, CInv, OpenCount, Slots
  <2>2. \A f \in Fids, m \in OpenModes : m.rclose \in BOOLEAN BY OpenModesAssumption
  <2> QED
    BY <2>1, <2>2, Requests, AttachCounts, WalkCounts, WalkNewCounts, OpenCounts, CreateCounts,
       WriteCounts, WstatCounts, ClunkGivesUp, RemoveGivesUp, GivesUpCounts
<1> QED BY <1>1, <1>2, PTL DEF Spec

\* The count in a Ram is the number of fids that are open on its slot.
THEOREM OpenCountCorrect == Spec => []OpenCount
<1>1. CInv => OpenCount BY DEF CInv
<1> QED BY <1>1, CountInvariance, PTL

-----------------------------------------------------------------------------
(* The tree.  A directory is older than what is in it, so that the path   *)
(* numbers fall on the way to the root: with this the tree is inductive.  *)

Tree ==
    /\ ram[0].busy /\ ram[0].dir /\ ram[0].parent = 0 /\ ram[0].path = 0
    /\ \A i \in Slots : ram[i].busy =>
        /\ i < nram
        /\ ram[ram[i].parent].busy /\ ram[ram[i].parent].dir
        /\ i # 0 => ram[ram[i].parent].path < ram[i].path
        /\ ram[i].dir => ram[i].path <= path
        /\ \A j \in Slots : ram[j].busy /\ ram[j].parent = ram[i].parent
                             /\ ram[j].name = ram[i].name => i = j

TInv == CInv /\ Tree

\* A request that leaves a file where it is, and gives it a new name at most
\* if no other file in the directory has it, keeps the tree.
LEMMA StaysInTree ==
    ASSUME TInv, NEW i \in Slots, NEW x \in Rams, ram' = [ram EXCEPT ![i] = x],
           x.busy = ram[i].busy, x.parent = ram[i].parent, x.dir = ram[i].dir, x.path = ram[i].path,
           x.name = ram[i].name \/ ~Taken(ram[i].parent, x.name),
           nram' = nram, path' = path
    PROVE  Tree'
<1>1. ram \in [Slots -> Rams] /\ 0 \in Slots BY NramAssumption DEF TInv, CInv, Typed, Slots
<1>2. \A j \in Slots : ram'[j] = IF j = i THEN x ELSE ram[j] BY <1>1
<1>3. \A j \in Slots : /\ ram'[j].busy = ram[j].busy /\ ram'[j].parent = ram[j].parent
                       /\ ram'[j].dir = ram[j].dir /\ ram'[j].path = ram[j].path
  BY <1>2
<1>4. \A j \in Slots : ram[j].parent \in Slots BY <1>1 DEF Rams
<1>5. ASSUME NEW j \in Slots, NEW k \in Slots, ram[j].busy, ram[k].busy,
             ram[j].parent = ram[k].parent, ram'[j].name = ram'[k].name
      PROVE  j = k
  <2>1. CASE ram[j].name = ram[k].name BY <2>1, <1>5 DEF TInv, Tree
  <2>2. CASE x.name # ram[i].name
    <3>1. \A l \in Slots : ram[l].busy /\ ram[l].parent = ram[i].parent => ram[l].name # x.name
      <4>1. \A l \in Slots : ram[l].busy => l \in Index
        BY DEF TInv, Tree, CInv, Typed, Index, Slots
      <4> QED BY <2>2, <4>1 DEF Taken, Named
    <3> QED BY <3>1, <1>2, <1>5 DEF TInv, Tree
  <2> QED BY <2>1, <2>2, <1>2, <1>5
<1> QED BY <1>1, <1>3, <1>4, <1>5 DEF TInv, Tree, Slots

\* Neither a removed directory nor a removed file had files in it.
LEMMA RemovalKeepsTree ==
    ASSUME TInv, NEW i \in Slots, NEW n \in Nat, ~(ram[i].dir /\ ~emptydir(i)),
           ram' = [ram EXCEPT ![i] = RemovedRam(ram[i], n)], nram' = nram, path' = path
    PROVE  Tree'
<1>1. ram \in [Slots -> Rams] /\ 0 \in Slots BY NramAssumption DEF TInv, CInv, Typed, Slots
<1>2. ram[i] \in Rams BY <1>1
<1>3. ~RemovedRam(ram[i], n).busy BY <1>2 DEF RemovedRam, Rams
<1>4. \A j \in Slots : ram[j].busy => j \in Index BY DEF TInv, Tree, CInv, Typed, Index, Slots
<1>5. \A j \in Slots : ram[j].busy => ram[j].parent # i
  BY <1>4 DEF emptydir, TInv, Tree
<1>6. i # 0 BY <1>1, <1>5 DEF TInv, Tree
<1>7. \A j \in Slots : IF j = i THEN ~ram'[j].busy ELSE ram'[j] = ram[j] BY <1>1, <1>3
<1>8. \A j \in Slots : ram[j].parent \in Slots BY <1>1 DEF Rams
<1> QED BY <1>1, <1>5, <1>6, <1>7, <1>8 DEF TInv, Tree, Slots

\* A new file has a name of its own in its directory, and is younger than it.
LEMMA CreateKeepsTree ==
    ASSUME TInv, NEW f \in Fids, NEW name \in Names, NEW c \in Modes, NEW isdir \in BOOLEAN,
           NEW rclose \in BOOLEAN, rcreate(f, name, c, isdir, rclose)
    PROVE  Tree'
<1> DEFINE d == fid[f].ram
<1>1. PICK i \in FirstFree : /\ ram' = [ram EXCEPT ![i] = NewRam(ram[i], d, fid[f], name, c, isdir)]
                             /\ nram' = IF i >= nram THEN i + 1 ELSE nram
  BY DEF rcreate
<1> DEFINE x == NewRam(ram[i], d, fid[f], name, c, isdir)
<1>2. ram \in [Slots -> Rams] /\ 0 \in Slots BY NramAssumption DEF TInv, CInv, Typed, Slots
<1>3. i \in Slots /\ ~ram[i].busy /\ ram[i] \in Rams BY <1>2 DEF FirstFree
<1>4. d \in Slots /\ ram[d].busy /\ ram[d].dir /\ ~Taken(d, name) /\ path' = path + 1
  BY DEF rcreate, TInv, CInv, Typed
<1>5. i # d /\ i # 0 BY <1>3, <1>4 DEF TInv, Tree
<1>6. x.busy /\ x.parent = d /\ x.path = path + 1 /\ x.name = name
  BY <1>3 DEF NewRam, Rams
<1> HIDE DEF x
<1>7. \A j \in Slots : ram'[j] = IF j = i THEN x ELSE ram[j] BY <1>1, <1>2 DEF x
<1>8. \A j \in Slots : ram[j].busy => ram[j].parent \in Slots \ {i}
  BY <1>2, <1>3 DEF TInv, Tree, Rams
<1>9. \A j \in Slots : ram[j].busy => j \in Index BY DEF TInv, Tree, CInv, Typed, Index, Slots
<1>10. \A j \in Slots : ram[j].busy /\ ram[j].parent = d => ram[j].name # name
  BY <1>4, <1>9 DEF Taken, Named
<1>11. path \in Nat /\ nram \in Nat /\ nram' \in Nat /\ nram <= nram' /\ i < nram'
  BY <1>1, <1>3, BoundsAssumption, NramAssumption DEF TInv, CInv, Typed, Slots
<1>12. \A j \in Slots : ram[j].path \in Nat BY <1>2 DEF Rams
<1> HIDE DEF d
<1>13. ram'[0].busy /\ ram'[0].dir /\ ram'[0].parent = 0 /\ ram'[0].path = 0
  BY <1>2, <1>5, <1>7 DEF TInv, Tree
<1>14. ASSUME NEW j \in Slots, ram'[j].busy
       PROVE  /\ j < nram'
              /\ ram'[ram'[j].parent].busy /\ ram'[ram'[j].parent].dir
              /\ j # 0 => ram'[ram'[j].parent].path < ram'[j].path
              /\ ram'[j].dir => ram'[j].path <= path'
  <2>1. CASE j = i
    <3>1. ram'[j] = x /\ ram'[d] = ram[d] BY <1>4, <1>5, <1>7, <2>1
    <3>2. ram[d].path <= path BY <1>4 DEF TInv, Tree
    <3> QED BY <2>1, <3>1, <3>2, <1>4, <1>6, <1>11, <1>12
  <2>2. CASE j # i
    <3>1. ram'[j] = ram[j] /\ ram[j].busy BY <1>7, <2>2, <1>14
    <3>2. ram'[ram[j].parent] = ram[ram[j].parent] /\ ram[j].parent \in Slots BY <1>7, <1>8, <3>1
    <3>3. j \in Nat BY DEF Slots
    <3> QED BY <3>1, <3>2, <3>3, <1>4, <1>11, <1>12 DEF TInv, Tree
  <2> QED BY <2>1, <2>2
<1>15. ASSUME NEW j \in Slots, NEW k \in Slots, ram'[j].busy, ram'[k].busy,
              ram'[k].parent = ram'[j].parent, ram'[k].name = ram'[j].name
       PROVE  j = k
  <2>1. CASE j = i \/ k = i BY <2>1, <1>15, <1>6, <1>7, <1>10
  <2>2. CASE j # i /\ k # i BY <2>2, <1>15, <1>7 DEF TInv, Tree
  <2> QED BY <2>1, <2>2
<1> QED BY <1>13, <1>14, <1>15 DEF Tree, Slots

\* What is younger than the file in slot s.
Younger(s) == {j \in Slots : ram[j].path > ram[s].path}

\* There are finitely many slots, and a file is not younger than itself.
LEMMA YoungerThan ==
    ASSUME CInv, NEW s \in Slots
    PROVE  /\ IsFiniteSet(Younger(s)) /\ Cardinality(Younger(s)) \in Nat
           /\ s \notin Younger(s)
           /\ Cardinality(Younger(s)) < Nram
<1>1. IsFiniteSet(Slots) /\ Cardinality(Slots) = Nram
  <2>1. 0 \in Int /\ Nram - 1 \in Int /\ ~(0 > Nram - 1) /\ Nram - 1 - 0 + 1 = Nram BY NramAssumption
  <2> QED BY <2>1, FS_Interval DEF Slots
<1>2. Younger(s) \subseteq Slots /\ s \notin Younger(s)
  <2>1. ram[s].path \in Nat BY DEF CInv, Typed, Rams
  <2> QED BY <2>1 DEF Younger
<1>3. IsFiniteSet(Younger(s)) /\ Cardinality(Younger(s)) <= Nram BY <1>1, <1>2, FS_Subset
<1>4. Cardinality(Younger(s)) \in Nat BY <1>3, FS_CardinalityType
<1>5. Cardinality(Younger(s)) # Nram
  <2>1. SUFFICES ASSUME Cardinality(Younger(s)) = Cardinality(Slots) PROVE FALSE BY <1>1
  <2>2. Younger(s) = Slots BY <2>1, <1>1, <1>2, FS_Subset
  <2> QED BY <1>2, <2>2
<1> QED BY <1>2, <1>3, <1>4, <1>5, NramAssumption

\* On the way up there is one more that is younger.
LEMMA OneMoreYounger ==
    ASSUME TInv, NEW s \in Slots, ram[s].busy, s # 0
    PROVE  /\ ram[s].parent \in Slots /\ ram[ram[s].parent].busy
           /\ Cardinality(Younger(ram[s].parent)) >= Cardinality(Younger(s)) + 1
<1> DEFINE p == ram[s].parent
<1>1. p \in Slots /\ ram[p].busy /\ ram[p].path < ram[s].path
  BY DEF TInv, Tree, CInv, Typed, Rams
<1>2. \A j \in Slots : ram[j].path \in Nat BY DEF TInv, CInv, Typed, Rams
<1>3. Younger(s) \cup {s} \subseteq Younger(p) BY <1>1, <1>2 DEF Younger
<1>4. CInv BY DEF TInv
<1>5. IsFiniteSet(Younger(s)) /\ s \notin Younger(s) /\ Cardinality(Younger(s)) \in Nat BY <1>4, YoungerThan
<1>6. Cardinality(Younger(s) \cup {s}) = Cardinality(Younger(s)) + 1 BY <1>5, FS_AddElement
<1> HIDE DEF p
<1>7. IsFiniteSet(Younger(p)) /\ Cardinality(Younger(p)) \in Nat BY <1>1, <1>4, YoungerThan
<1>8. Cardinality(Younger(s) \cup {s}) <= Cardinality(Younger(p)) BY <1>3, <1>7, FS_Subset
<1> QED BY <1>1, <1>5, <1>6, <1>7, <1>8 DEF p

\* Following the parents leads to the root in as many steps as there are slots:
\* every step up makes one more slot younger, and there are not that many.
LEMMA LeadsToRoot ==
    ASSUME TInv, NEW i \in Slots, ram[i].busy
    PROVE  LET Up[k \in 0..Nram] == IF k = 0 THEN i ELSE ram[Up[k-1]].parent IN Up[Nram] = 0
<1> DEFINE Body(g, k) == IF k = 0 THEN i ELSE ram[g[k-1]].parent
           F == [k \in Nat |-> [s \in Slots |-> ram[s].parent]]
           W == CHOOSE g : g = [k \in 0..Nram |-> Body(g, k)]
<1>1. Nram \in Nat /\ 0 \in Slots BY NramAssumption DEF Slots
<1>2. F \in [Nat -> [Slots -> Slots]]
  <2>1. \A s \in Slots : ram[s].parent \in Slots BY DEF TInv, CInv, Typed, Rams
  <2> QED BY <2>1
<1>3. \E g \in [0..Nram -> Slots] : Steps(g, Nram, i, F)
  <2> HIDE DEF F, W, Body
  <2> QED BY <1>1, <1>2, StepsExist
<1>4. PICK g \in [0..Nram -> Slots] : Steps(g, Nram, i, F) BY <1>3
<1>5. g = [k \in 0..Nram |-> Body(g, k)]
  <2>1. ASSUME NEW k \in 1..Nram PROVE F[k][g[k-1]] = Body(g, k)
    <3>1. k \in Nat /\ k - 1 \in 0..Nram /\ k # 0 BY <1>1
    <3>2. g[k-1] \in Slots BY <3>1, <1>4
    <3> QED BY <3>1, <3>2
  <2>2. g[0] = Body(g, 0) BY <1>4 DEF Steps
  <2> HIDE DEF F, Body
  <2>3. \A k \in 0..Nram : g[k] = Body(g, k) BY <2>1, <2>2, <1>4, <1>1 DEF Steps
  <2> QED BY <2>3
<1>6. W = [k \in 0..Nram |-> Body(W, k)]
  <2> HIDE DEF Body
  <2> QED BY <1>5
<1> HIDE DEF W, F
<1> DEFINE P == {k \in 0..Nram : /\ W[k] \in Slots /\ ram[W[k]].busy
                                 /\ W[k] = 0 \/ Cardinality(Younger(W[k])) >= k}
<1>7. 0 \in P
  <2>1. W[0] = i BY <1>6, <1>1
  <2>2. Cardinality(Younger(i)) \in Nat BY YoungerThan DEF TInv
  <2> QED BY <1>1, <2>1, <2>2
<1>8. ASSUME NEW k \in 1..Nram, k - 1 \in P PROVE k \in P
  <2> DEFINE s == W[k-1]
  <2>1. s \in Slots /\ ram[s].busy /\ (s = 0 \/ Cardinality(Younger(s)) >= k - 1) BY <1>8
  <2>2. k \in 0..Nram /\ k # 0 BY <1>1
  <2>3. W[k] = ram[s].parent BY <1>6, <2>2
  <2>4. CASE s = 0
    <3>1. ram[0].parent = 0 /\ ram[0].busy BY DEF TInv, Tree
    <3> QED BY <2>2, <2>3, <2>4, <3>1, <1>1
  <2>5. CASE s # 0
    <3> HIDE DEF s, P
    <3>1. /\ ram[s].parent \in Slots /\ ram[ram[s].parent].busy
          /\ Cardinality(Younger(ram[s].parent)) >= Cardinality(Younger(s)) + 1
      BY <2>1, <2>5, OneMoreYounger
    <3>2. Cardinality(Younger(s)) \in Nat /\ Cardinality(Younger(ram[s].parent)) \in Nat
      BY <2>1, <3>1, YoungerThan DEF TInv
    <3>3. Cardinality(Younger(ram[s].parent)) >= k BY <2>1, <2>5, <3>1, <3>2
    <3> QED BY <2>2, <2>3, <3>1, <3>3 DEF P
  <2> QED BY <2>4, <2>5
<1>9. \A k \in 0..Nram : k \in P
  <2> HIDE DEF P
  <2> QED BY <1>1, <1>7, <1>8, UpTo
<1>10. W[Nram] \in Slots /\ (W[Nram] = 0 \/ Cardinality(Younger(W[Nram])) >= Nram) BY <1>1, <1>9
<1>11. W[Nram] = 0
  <2>1. Cardinality(Younger(W[Nram])) < Nram /\ Cardinality(Younger(W[Nram])) \in Nat
    BY <1>10, YoungerThan DEF TInv
  <2> QED BY <1>1, <1>10, <2>1
<1> QED BY <1>11 DEF W

\* The tree is kept by every request.
THEOREM TreeInvariance == Spec => []TInv
<1>1. Init => Tree
  <2> SUFFICES ASSUME Init PROVE Tree OBVIOUS
  <2>1. \A i \in Slots : /\ ram[i].parent = 0
                         /\ ram[i].busy <=> i \in {0, 1}
                         /\ i = 0 => ram[i].dir /\ ram[i].path = 0 /\ ram[i].name = "."
                         /\ i = 1 => ~ram[i].dir /\ ram[i].path = 1 /\ ram[i].name = "file"
    <3>1. ASSUME NEW i \in Slots, i = 0
          PROVE  ram[i].parent = 0 /\ ram[i].busy /\ ram[i].dir /\ ram[i].path = 0 /\ ram[i].name = "."
      <4>1. ram[i] = [FreeRam EXCEPT !.busy = TRUE, !.dir = TRUE, !.name = ".", !.user = Owner,
                          !.group = Owner, !.mode = Mode({"read", "exec"}, rwx, rwx)]
        BY <3>1 DEF Init
      <4> QED BY <4>1 DEF FreeRam
    <3>2. ASSUME NEW i \in Slots, i = 1
          PROVE  ram[i].parent = 0 /\ ram[i].busy /\ ~ram[i].dir /\ ram[i].path = 1 /\ ram[i].name = "file"
      <4>1. ram[i] = [FreeRam EXCEPT !.busy = TRUE, !.path = 1, !.name = "file", !.user = Owner,
                          !.group = Owner, !.mode = Mode(rw, rw, rw)]
        BY <3>2 DEF Init
      <4> QED BY <4>1 DEF FreeRam
    <3>3. ASSUME NEW i \in Slots, i # 0, i # 1
          PROVE  ram[i].parent = 0 /\ ~ram[i].busy
      <4>1. ram[i] = FreeRam BY <3>3 DEF Init
      <4>2. FreeRam.parent = 0 /\ FreeRam.busy = FALSE BY DEF FreeRam
      <4> QED BY <4>1, <4>2
    <3> QED BY <3>1, <3>2, <3>3
  <2>2. 0 \in Slots /\ nram = 2 /\ path = 0 BY NramAssumption DEF Slots, Init
  <2> QED BY <2>1, <2>2 DEF Tree
<1>2. TInv /\ [Next]_vars /\ CInv' => Tree'
  <2> SUFFICES ASSUME TInv, [Next]_vars, CInv' PROVE Tree' OBVIOUS
  <2>1. CInv BY DEF TInv
  <2>2. CASE UNCHANGED <<ram, nram, path>> BY <2>2 DEF TInv, Tree, Slots
  <2>3. ASSUME NEW f \in Fids, NEW m \in OpenModes, ropen(f, m) PROVE Tree'
    <3> DEFINE i == fid[f].ram
    <3>1. i \in Slots /\ ram[i] \in Rams /\ ram \in [Slots -> Rams]
      BY <2>3 DEF TInv, CInv, Typed, ropen
    <3>2. CASE ram' = [ram EXCEPT ![i] = OpenedRam(ram[i], m)]
      <4> DEFINE x == OpenedRam(ram[i], m)
      <4>1. x = ram'[i] /\ ram'[i] \in Rams BY <3>1, <3>2 DEF CInv, Typed
      <4>2. /\ x.busy = ram[i].busy /\ x.parent = ram[i].parent /\ x.dir = ram[i].dir
            /\ x.path = ram[i].path /\ x.name = ram[i].name
        BY <3>1 DEF OpenedRam, Rams
      <4> HIDE DEF x, i
      <4> QED BY <3>1, <3>2, <4>1, <4>2, <2>3, StaysInTree DEF ropen, x
    <3>3. CASE ram' = ram BY <2>3, <3>3, <2>2 DEF ropen
    <3> QED BY <2>3, <3>2, <3>3 DEF ropen
  <2>4. ASSUME NEW f \in Fids, NEW off \in Nat, NEW cnt \in Nat, rwrite(f, off, cnt) PROVE Tree'
    <3> DEFINE i == fid[f].ram
    <3>1. i \in Slots /\ ram[i] \in Rams /\ ram \in [Slots -> Rams]
      BY <2>4 DEF TInv, CInv, Typed, rwrite
    <3>2. PICK a, b : ram' = [ram EXCEPT ![i].data = a, ![i].ndata = b] BY <2>4 DEF rwrite
    <3> DEFINE x == [ram[i] EXCEPT !.data = a, !.ndata = b]
    <3>3. ram' = [ram EXCEPT ![i] = x] BY <3>1, <3>2
    <3>4. x = ram'[i] /\ ram'[i] \in Rams BY <3>1, <3>3 DEF CInv, Typed
    <3>5. /\ x.busy = ram[i].busy /\ x.parent = ram[i].parent /\ x.dir = ram[i].dir
          /\ x.path = ram[i].path /\ x.name = ram[i].name
      BY <3>1 DEF Rams
    <3> HIDE DEF x, i
    <3> QED BY ZenonT(40), <3>1, <3>3, <3>4, <3>5, <2>4, StaysInTree DEF rwrite
  <2>5. ASSUME NEW f \in Fids, NEW n \in Names \cup {""}, NEW c \in SUBSET Modes,
               NEW g \in Users \cup {""}, NEW len \in Nat \cup {-1}, rwstat(f, n, c, g, len)
        PROVE  Tree'
    <3> DEFINE i == fid[f].ram
               l == IF len # -1 /\ len # ram[i].ndata THEN len ELSE -1
               x == NewStat(ram[i], n, c, g, l)
    <3>1. i \in Slots /\ ram[i] \in Rams /\ ram \in [Slots -> Rams]
      BY <2>5 DEF TInv, CInv, Typed, rwstat
    <3>2. nram' = nram /\ path' = path /\ (ram' = ram \/ ram' = [ram EXCEPT ![i] = x])
      BY <2>5 DEF rwstat
    <3>3. CASE ram' = ram BY <3>2, <3>3, <2>2
    <3>4. CASE ram' = [ram EXCEPT ![i] = x]
      <4>1. n = "" \/ n = ram[i].name \/ ~Taken(ram[i].parent, n) BY <2>5 DEF rwstat
      <4>2. x = ram'[i] /\ ram'[i] \in Rams BY <3>1, <3>4 DEF CInv, Typed
      <4>3. /\ x.busy = ram[i].busy /\ x.parent = ram[i].parent /\ x.dir = ram[i].dir
            /\ x.path = ram[i].path /\ x.name = IF n = "" THEN ram[i].name ELSE n
        BY <3>1 DEF NewStat, Rams
      <4> HIDE DEF x, i
      <4> QED BY <3>1, <3>2, <3>4, <4>1, <4>2, <4>3, StaysInTree
    <3> QED BY <3>2, <3>3, <3>4
  <2>6. ASSUME NEW f \in Fids, GivesUp(f) PROVE Tree'
    <3> DEFINE i == fid[f].ram
               n == IF fid[f].open THEN ram[i].open - 1 ELSE ram[i].open
    <3>1. /\ i \in Slots /\ n \in Nat
          /\ \/ ram' = [ram EXCEPT ![i] = [ram[i] EXCEPT !.open = n]]
             \/ ~(ram[i].dir /\ ~emptydir(i)) /\ ram' = [ram EXCEPT ![i] = RemovedRam(ram[i], n)]
      BY <2>1, <2>6, GivesUpOne
    <3>2. nram' = nram /\ path' = path BY <2>6 DEF GivesUp
    <3>3. ram[i] \in Rams /\ ram \in [Slots -> Rams] BY <3>1 DEF TInv, CInv, Typed
    <3> HIDE DEF n, i
    <3>4. CASE ram' = [ram EXCEPT ![i] = [ram[i] EXCEPT !.open = n]]
      <4> DEFINE x == [ram[i] EXCEPT !.open = n]
      <4>1. x = ram'[i] /\ ram'[i] \in Rams BY <3>1, <3>3, <3>4 DEF CInv, Typed
      <4>2. /\ x.busy = ram[i].busy /\ x.parent = ram[i].parent /\ x.dir = ram[i].dir
            /\ x.path = ram[i].path /\ x.name = ram[i].name
        BY <3>3 DEF Rams
      <4> HIDE DEF x
      <4> QED BY ZenonT(40), <3>1, <3>2, <3>4, <4>1, <4>2, StaysInTree DEF x
    <3>5. CASE ~(ram[i].dir /\ ~emptydir(i)) /\ ram' = [ram EXCEPT ![i] = RemovedRam(ram[i], n)]
      BY <3>1, <3>2, <3>5, RemovalKeepsTree
    <3> QED BY <3>1, <3>4, <3>5
  <2>7. \A m \in OpenModes : m.rclose \in BOOLEAN BY OpenModesAssumption
  <2>8. ASSUME \/ Rests
               \/ \E f \in Fids, u \in Users : rattach(f, u)
               \/ \E f \in Fids, p \in Paths : ~fid[f].open /\ rwalk(f, p)
               \/ \E f \in Fids, nf \in Fids, p \in Paths : rwalknew(f, nf, p)
        PROVE  Tree'
    BY <2>2, <2>8 DEF Rests, rattach, rwalk, rwalknew
  <2> QED BY <2>3, <2>4, <2>5, <2>6, <2>7, <2>8, Requests, CreateKeepsTree, ClunkGivesUp, RemoveGivesUp
<1>3. CInv /\ Tree <=> TInv BY DEF TInv
<1> QED BY <1>1, <1>2, <1>3, CountInvariance, PTL DEF Spec

\* The files are a tree with its root, whatever fids do to slots that are used
\* again.
THEOREM TreeCorrect == Spec => []TreeKept
<1>1. TInv => TreeKept
  <2> SUFFICES ASSUME TInv PROVE TreeKept OBVIOUS
  <2>1. TypeOK
    <3>1. \A i \in Slots : ram[i].parent \in Slots /\ ram[i].open \in Nat /\ ram[i].ndata \in Nat
      BY DEF TInv, CInv, Typed, Rams
    <3>2. \A f \in Fids : fid[f].ram \in IF fid[f].busy THEN Slots ELSE {-1, 0}
      BY DEF TInv, CInv, Typed
    <3>3. DOMAIN ram = Slots BY DEF TInv, CInv, Typed
    <3> QED BY <3>1, <3>2, <3>3 DEF TypeOK, TInv, CInv, Typed
  <2>2. TreeOK
    <3>1. ASSUME NEW i \in Slots, ram[i].busy
          PROVE  /\ i < nram
                 /\ ram[ram[i].parent].busy /\ ram[ram[i].parent].dir
                 /\ \A j \in Slots : ram[j].busy /\ ram[j].parent = ram[i].parent
                                      /\ ram[j].name = ram[i].name => i = j
      BY <3>1 DEF TInv, Tree
    <3>2. ASSUME NEW i \in Slots, ram[i].busy
          PROVE  LET Up[k \in 0..Nram] == IF k = 0 THEN i ELSE ram[Up[k-1]].parent IN Up[Nram] = 0
      BY <3>2, LeadsToRoot
    <3> QED BY <3>1, <3>2, Zenon DEF TreeOK
  <2>3. RootStays BY DEF RootStays, TInv, Tree
  <2> QED BY <2>1, <2>2, <2>3 DEF TreeKept
<1> QED BY <1>1, TreeInvariance, PTL

-----------------------------------------------------------------------------
(* The data.                                                              *)

\* What a read of r can return was written or is zero.
Defined(r) == r.ndata <= Len(r.data) /\ \A k \in 1..r.ndata : r.data[k] # "junk"

DInv == CInv /\ \A i \in Slots : Defined(ram[i])

\* A write leaves no gap, wherever it starts.
LEMMA WriteDefines ==
    ASSUME NEW r \in Rams, Defined(r), NEW off \in Nat, NEW cnt \in Nat
    PROVE  LET n == IF off + cnt > r.ndata THEN off + cnt ELSE r.ndata
           IN  /\ n <= Len(AfterWrite(r, off, cnt))
               /\ \A k \in 1..n : AfterWrite(r, off, cnt)[k] # "junk"
<1> DEFINE n == IF off + cnt > r.ndata THEN off + cnt ELSE r.ndata
           d == IF off + cnt > r.ndata THEN erealloc(r.data, off + cnt) ELSE r.data
           z == IF off > r.ndata THEN memset(d, r.ndata, off) ELSE d
<1>1. r.data \in Seq(Bytes) /\ r.ndata \in Nat BY DEF Rams
<1>2. d \in Seq(Bytes) /\ n <= Len(d) /\ \A k \in 1..r.ndata : d[k] # "junk"
  <2>1. CASE off + cnt > r.ndata
    <3>1. off + cnt \in Nat OBVIOUS
    <3>2. d = [k \in 1..(off + cnt) |-> IF k <= Len(r.data) THEN r.data[k] ELSE "junk"]
      BY <2>1 DEF erealloc
    <3>3. d \in Seq(Bytes) /\ Len(d) = off + cnt BY <1>1, <3>1, <3>2 DEF Bytes
    <3>4. \A k \in 1..r.ndata : d[k] = r.data[k] BY <1>1, <2>1, <3>2 DEF Defined
    <3> QED BY <2>1, <3>1, <3>3, <3>4, <1>1 DEF Defined
  <2>2. CASE ~(off + cnt > r.ndata) BY <1>1, <2>2 DEF Defined
  <2> QED BY <2>1, <2>2
<1> HIDE DEF d
<1>3. /\ z \in Seq(Bytes) /\ Len(z) = Len(d)
      /\ \A k \in 1..n : k <= off \/ k <= r.ndata => z[k] # "junk"
  <2>1. CASE off > r.ndata
    <3>0. DOMAIN d = 1..Len(d) BY <1>2
    <3>1. z = [k \in 1..Len(d) |-> IF r.ndata < k /\ k <= off THEN "zero" ELSE d[k]]
      BY <2>1, <3>0, Zenon DEF memset
    <3>2. z \in Seq(Bytes) /\ Len(z) = Len(d) BY <1>2, <3>1 DEF Bytes
    <3>3. ASSUME NEW k \in 1..n, k <= off \/ k <= r.ndata PROVE z[k] # "junk"
      <4>1. k \in 1..Len(d) /\ k \in Nat BY <1>1, <1>2
      <4>2. CASE r.ndata < k /\ k <= off BY <3>1, <4>1, <4>2
      <4>3. CASE k <= r.ndata BY <1>1, <1>2, <3>1, <4>1, <4>3
      <4> QED BY <1>1, <3>3, <4>1, <4>2, <4>3
    <3> QED BY <3>2, <3>3
  <2>2. CASE ~(off > r.ndata)
    <3>1. z = d BY <2>2
    <3>2. ASSUME NEW k \in 1..n, k <= off \/ k <= r.ndata PROVE z[k] # "junk"
      <4>1. k \in 1..r.ndata BY <1>1, <2>2, <3>2
      <4> QED BY <4>1, <3>1, <1>2
    <3> QED BY <1>2, <3>1, <3>2
  <2> QED BY <2>1, <2>2
<1>4. AfterWrite(r, off, cnt) = [k \in DOMAIN z |-> IF off < k /\ k <= off + cnt THEN "byte" ELSE z[k]]
  BY DEF AfterWrite, d
<1> HIDE DEF z
<1> DEFINE a == AfterWrite(r, off, cnt)
<1>5. Len(a) = Len(d) BY <1>3, <1>4 DEF Bytes
<1>6. ASSUME NEW k \in 1..n PROVE a[k] # "junk"
  <2>1. k \in 1..Len(z) /\ k \in DOMAIN z /\ k \in Nat BY <1>1, <1>2, <1>3
  <2>2. a[k] = IF off < k /\ k <= off + cnt THEN "byte" ELSE z[k] BY <1>4, <2>1
  <2>3. CASE off < k /\ k <= off + cnt BY <2>2, <2>3
  <2>4. CASE k <= off \/ k <= r.ndata BY <2>2, <2>4, <1>3
  <2> QED BY <1>1, <2>1, <2>3, <2>4
<1> HIDE DEF n, a
<1> QED BY <1>2, <1>5, <1>6 DEF n, a

\* Neither does a change of the length.
LEMMA ResizeDefines ==
    ASSUME NEW r \in Rams, Defined(r), NEW len \in Nat
    PROVE  Len(Resized(r, len)) = len /\ \A k \in 1..len : Resized(r, len)[k] # "junk"
<1> DEFINE d == erealloc(r.data, len)
<1>1. r.data \in Seq(Bytes) /\ r.ndata \in Nat BY DEF Rams
<1>2. d = [k \in 1..len |-> IF k <= Len(r.data) THEN r.data[k] ELSE "junk"] BY DEF erealloc
<1>3. d \in Seq(Bytes) /\ Len(d) = len BY <1>1, <1>2 DEF Bytes
<1>4. \A k \in 1..len : k <= r.ndata => d[k] # "junk"
  <2>1. ASSUME NEW k \in 1..len, k <= r.ndata PROVE d[k] # "junk"
    <3>1. k \in 1..r.ndata /\ k <= Len(r.data) BY <1>1, <2>1 DEF Defined
    <3> QED BY <1>2, <3>1 DEF Defined
  <2> QED BY <2>1
<1> HIDE DEF d
<1>5. CASE r.ndata < len
  <2>1. Resized(r, len) = [k \in 1..len |-> IF r.ndata < k /\ k <= len THEN "zero" ELSE d[k]]
    BY <1>3, <1>5 DEF Resized, memset, d
  <2>2. Len(Resized(r, len)) = len BY <2>1
  <2> QED BY <1>1, <1>4, <2>1, <2>2
<1>6. CASE ~(r.ndata < len)
  <2>1. Resized(r, len) = d BY <1>6 DEF Resized, d
  <2> QED BY <1>1, <1>3, <1>4, <1>6, <2>1
<1> QED BY <1>5, <1>6

\* So the Ram with the new length is defined.
LEMMA ResizedIsDefined ==
    ASSUME NEW r \in Rams, Defined(r), NEW len \in Nat, NEW x, x.data = Resized(r, len), x.ndata = len
    PROVE  Defined(x)
<1>1. Len(x.data) = len BY ResizeDefines
<1>2. \A k \in 1..len : x.data[k] # "junk" BY ResizeDefines
<1> QED BY <1>1, <1>2 DEF Defined

\* If the Ram that changes has defined data, all have.
LEMMA OneDefined ==
    ASSUME DInv, NEW i \in Slots, NEW x, Defined(x), ram' = [ram EXCEPT ![i] = x], CInv'
    PROVE  DInv'
<1>1. \A j \in Slots : ram'[j] = x \/ ram'[j] = ram[j] BY DEF DInv, CInv, Typed
<1> QED BY <1>1 DEF DInv, Slots

\* No byte below the length of a file is left over from the allocator or lies
\* outside of what is allocated.
THEOREM DataCorrect == Spec => []DataDefined
<1>1. Init => \A i \in Slots : Defined(ram[i])
  <2> SUFFICES ASSUME Init, NEW i \in Slots PROVE Defined(ram[i]) OBVIOUS
  <2>1. FreeRam.ndata = 0 /\ FreeRam.data = <<>> BY DEF FreeRam
  <2>2. ram[i].ndata = 0 /\ ram[i].data = <<>>
    <3>1. CASE i = 0
      <4>1. ram[i] = [FreeRam EXCEPT !.busy = TRUE, !.dir = TRUE, !.name = ".", !.user = Owner,
                          !.group = Owner, !.mode = Mode({"read", "exec"}, rwx, rwx)]
        BY <3>1 DEF Init
      <4> QED BY <4>1 DEF FreeRam
    <3>2. CASE i = 1
      <4>1. ram[i] = [FreeRam EXCEPT !.busy = TRUE, !.path = 1, !.name = "file", !.user = Owner,
                          !.group = Owner, !.mode = Mode(rw, rw, rw)]
        BY <3>2 DEF Init
      <4> QED BY <4>1 DEF FreeRam
    <3>3. CASE i # 0 /\ i # 1
      <4>1. ram[i] = FreeRam BY <3>3 DEF Init
      <4> QED BY <4>1, <2>1
    <3> QED BY <3>1, <3>2, <3>3
  <2> QED BY <2>2 DEF Defined
<1>2. DInv /\ [Next]_vars /\ CInv' => DInv'
  <2> SUFFICES ASSUME DInv, [Next]_vars, CInv' PROVE DInv' OBVIOUS
  <2>1. CInv BY DEF DInv
  <2>2. CASE ram' = ram BY <2>2 DEF DInv, Slots
  <2>3. \A i \in Slots : ram[i] \in Rams /\ Defined(ram[i]) BY DEF DInv, CInv, Typed
  <2>4. ASSUME NEW f \in Fids, NEW m \in OpenModes, ropen(f, m) PROVE DInv'
    <3> DEFINE i == fid[f].ram
    <3>1. i \in Slots BY <2>4 DEF DInv, CInv, Typed, ropen
    <3>2. Defined(OpenedRam(ram[i], m))
      <4>1. ram[i] \in Rams /\ Defined(ram[i]) BY <2>3, <3>1
      <4> DEFINE x == OpenedRam(ram[i], m)
      <4>2. (x.data = ram[i].data /\ x.ndata = ram[i].ndata) \/ (x.data = <<>> /\ x.ndata = 0)
        BY <4>1 DEF OpenedRam, Rams
      <4> HIDE DEF x
      <4> QED BY <4>1, <4>2 DEF Defined, x
    <3>3. ram' = ram \/ ram' = [ram EXCEPT ![i] = OpenedRam(ram[i], m)] BY <2>4 DEF ropen
    <3> HIDE DEF i
    <3> QED BY <3>1, <3>2, <3>3, <2>2, OneDefined
  <2>5. ASSUME NEW f \in Fids, NEW n \in Names, NEW c \in Modes, NEW d \in BOOLEAN,
               NEW rclose, rcreate(f, n, c, d, rclose)
        PROVE  DInv'
    <3>1. PICK i \in Slots : ram' = [ram EXCEPT ![i] = NewRam(ram[i], fid[f].ram, fid[f], n, c, d)]
      BY <2>5 DEF rcreate, FirstFree
    <3> DEFINE x == NewRam(ram[i], fid[f].ram, fid[f], n, c, d)
    <3>2. x.ndata = 0 /\ x.data = ram[i].data /\ ram[i].data \in Seq(Bytes)
      <4>1. ram[i] \in Rams BY <2>3
      <4>2. ram[i].data \in Seq(Bytes) BY <4>1 DEF Rams
      <4>3. x.ndata = 0 BY <4>1 DEF NewRam, Rams
      <4>4. x.data = ram[i].data BY <4>1 DEF NewRam, Rams
      <4> QED BY <4>2, <4>3, <4>4
    <3>3. Defined(x)
      <4> HIDE DEF x
      <4> QED BY <3>2 DEF Defined
    <3> QED BY <3>1, <3>3, OneDefined
  <2>6. ASSUME NEW f \in Fids, NEW offset \in Nat, NEW cnt \in Nat, rwrite(f, offset, cnt)
        PROVE  DInv'
    <3> DEFINE i == fid[f].ram
               r == ram[i]
               off == IF r.mode.append THEN r.ndata ELSE offset
               x == [r EXCEPT !.data = AfterWrite(r, off, cnt),
                              !.ndata = IF off + cnt > @ THEN off + cnt ELSE @]
    <3>1. i \in Slots /\ r \in Rams /\ Defined(r) BY <2>3, <2>6 DEF DInv, CInv, Typed, rwrite
    <3>2. off \in Nat
      <4>1. r.ndata \in Nat BY <3>1 DEF Rams
      <4> QED BY <4>1
    <3>3. ram' = [ram EXCEPT ![i].data = AfterWrite(r, off, cnt),
                             ![i].ndata = IF off + cnt > @ THEN off + cnt ELSE @]
      BY <2>6 DEF rwrite
    <3>4. ram' = [ram EXCEPT ![i] = x] BY <3>1, <3>3 DEF DInv, CInv, Typed
    <3>5. Defined(x)
      <4> HIDE DEF off, r
      <4>1. x.data = AfterWrite(r, off, cnt) /\ x.ndata = IF off + cnt > r.ndata THEN off + cnt ELSE r.ndata
        BY <3>1 DEF Rams
      <4> HIDE DEF x
      <4> QED BY <4>1, <3>1, <3>2, WriteDefines DEF Defined
    <3> HIDE DEF i, x
    <3> QED BY <3>1, <3>4, <3>5, OneDefined
  <2>7. ASSUME NEW f \in Fids, NEW n \in Names \cup {""}, NEW c \in SUBSET Modes,
               NEW g \in Users \cup {""}, NEW len \in Nat \cup {-1}, rwstat(f, n, c, g, len)
        PROVE  DInv'
    <3> DEFINE i == fid[f].ram
               r == ram[i]
               l == IF len # -1 /\ len # r.ndata THEN len ELSE -1
               x == NewStat(r, n, c, g, l)
    <3>1. i \in Slots /\ r \in Rams /\ Defined(r) BY <2>3, <2>7 DEF DInv, CInv, Typed, rwstat
    <3>2. ram' = ram \/ ram' = [ram EXCEPT ![i] = x] BY <2>7 DEF rwstat
    <3>3. l \in Nat \cup {-1} OBVIOUS
    <3>4. Defined(x)
      <4> HIDE DEF l, r
      <4>1. IF l = -1 THEN x.data = r.data /\ x.ndata = r.ndata ELSE x.data = Resized(r, l) /\ x.ndata = l
        BY <3>1 DEF NewStat, Rams
      <4>2. l # -1 => l \in Nat BY <3>3
      <4> HIDE DEF x
      <4>4. CASE l = -1 BY <4>1, <4>4, <3>1 DEF Defined
      <4>5. CASE l # -1 BY <4>1, <4>2, <4>5, <3>1, ResizedIsDefined
      <4> QED BY <4>4, <4>5
    <3> HIDE DEF i, x
    <3> QED BY <3>1, <3>2, <3>4, <2>2, OneDefined
  <2>8. ASSUME NEW f \in Fids, GivesUp(f) PROVE DInv'
    <3> DEFINE i == fid[f].ram
               n == IF fid[f].open THEN ram[i].open - 1 ELSE ram[i].open
    <3>1. /\ i \in Slots /\ n \in Nat
          /\ \/ ram' = [ram EXCEPT ![i] = [ram[i] EXCEPT !.open = n]]
             \/ ram' = [ram EXCEPT ![i] = RemovedRam(ram[i], n)]
      BY <2>1, <2>8, GivesUpOne
    <3> HIDE DEF n, i
    <3>2. ram[i] \in Rams /\ Defined(ram[i]) BY <2>3, <3>1
    <3>3. Defined([ram[i] EXCEPT !.open = n])
      <4>1. [ram[i] EXCEPT !.open = n].data = ram[i].data /\ [ram[i] EXCEPT !.open = n].ndata = ram[i].ndata
        BY <3>2 DEF Rams
      <4> QED BY <3>2, <4>1 DEF Defined
    <3>4. Defined(RemovedRam(ram[i], n))
      <4>1. RemovedRam(ram[i], n).data = <<>> /\ RemovedRam(ram[i], n).ndata = 0
        BY <3>2 DEF Rams, RemovedRam
      <4> QED BY <4>1 DEF Defined
    <3> QED BY <3>1, <3>3, <3>4, OneDefined
  <2>9. ASSUME \/ Rests
               \/ \E f \in Fids, u \in Users : rattach(f, u)
               \/ \E f \in Fids, p \in Paths : ~fid[f].open /\ rwalk(f, p)
               \/ \E f \in Fids, nf \in Fids, p \in Paths : rwalknew(f, nf, p)
        PROVE  DInv'
    BY <2>2, <2>9 DEF Rests, rattach, rwalk, rwalknew
  <2> QED BY <2>4, <2>5, <2>6, <2>7, <2>8, <2>9, Requests, ClunkGivesUp, RemoveGivesUp
<1>3. DInv => DataDefined BY DEF DInv, Defined, DataDefined
<1>4. CInv /\ (\A i \in Slots : Defined(ram[i])) <=> DInv BY DEF DInv
<1> QED BY <1>1, <1>2, <1>3, <1>4, CountInvariance, PTL DEF Spec

-----------------------------------------------------------------------------
(* Exclusive use.                                                         *)

\* The clients remove no file, neither by Tremove nor by ORCLOSE, and change no
\* mode: a fid that is open on a file that was removed counts for the next file
\* in the slot, and one that became exclusive may be open more than once.
OnlyAdds == /\ "remove" \notin Ops /\ "chmod" \notin Ops
            /\ \A m \in OpenModes : ~m.rclose

\* What the count allows.
OpenOnce(r) == IF r.busy THEN r.mode.excl => r.open <= 1 ELSE r.open = 0

EInv == /\ CInv
        /\ \A f \in Fids : ~fid[f].rclose
        /\ \A i \in Slots : OpenOnce(ram[i])

\* If the Ram that changes allows one open at most, all do.
LEMMA OneOnce ==
    ASSUME EInv, NEW i \in Slots, NEW x, OpenOnce(x), ram' = [ram EXCEPT ![i] = x], CInv',
           \A f \in Fids : ~fid'[f].rclose
    PROVE  EInv'
<1>1. \A j \in Slots : ram'[j] = x \/ ram'[j] = ram[j] BY DEF EInv, CInv, Typed
<1> QED BY <1>1 DEF EInv, Slots

\* A file for exclusive use is open through one fid at most, if no file is
\* removed and no mode changed.
THEOREM ExclCorrect == ASSUME OnlyAdds PROVE Spec => []ExclOnce
<1>1. Init /\ CInv => EInv
  <2> SUFFICES ASSUME Init, CInv PROVE EInv OBVIOUS
  <2>1. \A f \in Fids : ~fid[f].rclose /\ ~fid[f].open BY DEF Init, FreeFid
  <2>2. \A i \in Slots : Openers(fid, i) = {} BY <2>1 DEF Openers
  <2>3. \A i \in Slots : ram[i].open = 0 BY <2>2, FS_EmptySet, CountsOpeners DEF CInv
  <2> QED BY <2>1, <2>3 DEF EInv, OpenOnce
<1>2. EInv /\ [Next]_vars /\ CInv' => EInv'
  <2> SUFFICES ASSUME EInv, [Next]_vars, CInv' PROVE EInv' OBVIOUS
  <2>1. CInv BY DEF EInv
  <2>2. \A i \in Slots : ram[i] \in Rams /\ OpenOnce(ram[i]) BY DEF EInv, CInv, Typed
  <2>3. fid \in [Fids -> FidRecs] BY DEF EInv, CInv, Typed
  <2>4. CASE ram' = ram /\ \A f \in Fids : ~fid'[f].rclose BY <2>4 DEF EInv, Slots
  <2>5. ASSUME NEW f \in Fids, NEW m \in OpenModes, ropen(f, m) PROVE EInv'
    <3> DEFINE i == fid[f].ram
    <3>1. i \in Slots BY <2>5 DEF EInv, CInv, Typed, ropen
    <3>2. \A g \in Fids : ~fid'[g].rclose
      <4>1. ~m.rclose BY DEF OnlyAdds
      <4>2. \A ok : \A g \in Fids :
              [fid EXCEPT ![f].rclose = @ \/ m.rclose, ![f].open = ok][g].rclose = fid[g].rclose
                \/ (g = f /\ [fid EXCEPT ![f].rclose = @ \/ m.rclose, ![f].open = ok][g].rclose = (fid[f].rclose \/ m.rclose))
        BY <2>3 DEF FidRecs
      <4> QED BY ZenonT(40), <2>5, <4>1, <4>2 DEF ropen, EInv
    <3>3. ram[i].busy /\ ~(ram[i].mode.excl /\ ram[i].open > 0) BY <2>5 DEF ropen, InUse
    <3>4. OpenOnce(OpenedRam(ram[i], m))
      <4> DEFINE r == ram[i]
                 x == OpenedRam(r, m)
      <4>1. r \in Rams BY <2>2, <3>1
      <4>2. r.open \in Nat BY <4>1 DEF Rams
      <4>3. x.busy = r.busy /\ x.mode = r.mode /\ x.open = r.open + 1 BY <4>1 DEF OpenedRam, Rams
      <4> HIDE DEF x
      <4> QED BY <3>3, <4>2, <4>3 DEF OpenOnce, x
    <3>5. ram' = ram \/ ram' = [ram EXCEPT ![i] = OpenedRam(ram[i], m)] BY <2>5 DEF ropen
    <3> HIDE DEF i
    <3> QED BY <3>1, <3>2, <3>4, <3>5, <2>4, OneOnce
  <2>6. ASSUME NEW f \in Fids, NEW n \in Names, NEW c \in Modes, NEW d \in BOOLEAN,
               NEW m \in OpenModes, rcreate(f, n, c, d, m.rclose)
        PROVE  EInv'
    <3>1. PICK i \in FirstFree :
            /\ ram' = [ram EXCEPT ![i] = NewRam(ram[i], fid[f].ram, fid[f], n, c, d)]
            /\ fid' = [fid EXCEPT ![f].ram = i, ![f].open = TRUE, ![f].rclose = @ \/ m.rclose]
      BY <2>6 DEF rcreate
    <3>2. i \in Slots /\ ~ram[i].busy BY DEF FirstFree
    <3>3. ~m.rclose BY DEF OnlyAdds
    <3>4. \A g \in Fids : ~fid'[g].rclose BY <3>1, <3>3, <2>3 DEF EInv, FidRecs
    <3> DEFINE x == NewRam(ram[i], fid[f].ram, fid[f], n, c, d)
    <3>5. x.open = 1
      <4>1. ram[i] \in Rams /\ ram[i].open = 0 BY <2>2, <3>2 DEF OpenOnce
      <4>2. x.open = ram[i].open + 1 BY <4>1 DEF NewRam, Rams
      <4> QED BY <4>1, <4>2
    <3>6. x.busy
      <4>1. ram[i] \in Rams BY <2>2, <3>2
      <4> QED BY <4>1 DEF NewRam, Rams
    <3>7. OpenOnce(x)
      <4> HIDE DEF x
      <4> QED BY <3>5, <3>6 DEF OpenOnce
    <3> HIDE DEF x
    <3> QED BY <3>1, <3>2, <3>4, <3>7, OneOnce DEF x
  <2>7. ASSUME NEW f \in Fids, NEW off \in Nat, NEW cnt \in Nat, rwrite(f, off, cnt) PROVE EInv'
    <3> DEFINE i == fid[f].ram
    <3>1. i \in Slots /\ ram[i] \in Rams /\ ram \in [Slots -> Rams]
      BY <2>7 DEF EInv, CInv, Typed, rwrite
    <3>2. PICK a, b : ram' = [ram EXCEPT ![i].data = a, ![i].ndata = b] BY <2>7 DEF rwrite
    <3> DEFINE x == [ram[i] EXCEPT !.data = a, !.ndata = b]
    <3>3. ram' = [ram EXCEPT ![i] = x] BY <3>1, <3>2
    <3>4. x.busy = ram[i].busy /\ x.mode = ram[i].mode /\ x.open = ram[i].open BY <3>1 DEF Rams
    <3> HIDE DEF x, i
    <3>5. OpenOnce(x) BY <2>2, <3>1, <3>4 DEF OpenOnce
    <3>6. \A g \in Fids : ~fid'[g].rclose BY <2>7 DEF rwrite, EInv
    <3> QED BY <3>1, <3>3, <3>5, <3>6, OneOnce
  <2>8. ASSUME NEW f \in Fids, NEW n \in Names \cup {""}, NEW g \in Users \cup {""},
               NEW len \in Nat \cup {-1}, rwstat(f, n, {}, g, len)
        PROVE  EInv'
    <3> DEFINE i == fid[f].ram
               r == ram[i]
               l == IF len # -1 /\ len # r.ndata THEN len ELSE -1
               x == NewStat(r, n, {}, g, l)
    <3>1. i \in Slots /\ r \in Rams /\ OpenOnce(r) BY <2>2, <2>8 DEF EInv, CInv, Typed, rwstat
    <3>2. ram' = ram \/ ram' = [ram EXCEPT ![i] = x] BY <2>8 DEF rwstat
    <3>3. x.busy = r.busy /\ x.mode = r.mode /\ x.open = r.open
      <4> HIDE DEF l, r
      <4> QED BY <3>1 DEF NewStat, Rams
    <3> HIDE DEF x, i
    <3>4. OpenOnce(x) BY <3>1, <3>3 DEF OpenOnce
    <3>5. \A h \in Fids : ~fid'[h].rclose BY <2>8 DEF rwstat, EInv
    <3> QED BY <3>1, <3>2, <3>4, <3>5, <2>4, OneOnce
  <2>9. ASSUME NEW f \in Fids, rclunk(f) PROVE EInv'
    <3> DEFINE i == fid[f].ram
               n == IF fid[f].open THEN ram[i].open - 1 ELSE ram[i].open
               x == [ram[i] EXCEPT !.open = n]
    <3>1. i \in Slots /\ n \in Nat BY <2>1, <2>9, ClunkGivesUp, GivesUpOne
    <3>2. ram' = Closed(f) BY <2>9 DEF rclunk, EInv
    <3>3. ram[i] \in Rams /\ OpenOnce(ram[i]) /\ ram \in [Slots -> Rams] BY <2>2, <3>1 DEF EInv, CInv, Typed
    <3>4. ram[i].open \in Nat BY <3>3 DEF Rams
    <3>5. x.busy = ram[i].busy /\ x.mode = ram[i].mode /\ x.open <= ram[i].open /\ x.open \in Nat
      <4>1. n <= ram[i].open BY <3>4
      <4> HIDE DEF n, i
      <4> QED BY <3>1, <3>3, <4>1 DEF Rams
    <3>6. ram' = ram \/ ram' = [ram EXCEPT ![i] = x] BY <3>2, <3>3 DEF Closed
    <3> HIDE DEF x, i
    <3>7. OpenOnce(x) BY <3>3, <3>4, <3>5 DEF OpenOnce
    <3>8. \A g \in Fids : ~fid'[g].rclose BY <2>3, <2>9 DEF rclunk, EInv, FidRecs
    <3> QED BY <3>1, <3>6, <3>7, <3>8, <2>4, OneOnce
  <2>10. ASSUME NEW f \in Fids, NEW u \in Users, rattach(f, u) PROVE EInv'
    <3>1. \A g \in Fids : ~fid'[g].rclose BY <2>3, <2>10 DEF rattach, EInv, FidRecs
    <3> QED BY <2>4, <2>10, <3>1 DEF rattach
  <2>11. ASSUME NEW f \in Fids, NEW p \in Paths, rwalk(f, p) PROVE EInv'
    <3>1. \A a : \A g \in Fids : [fid EXCEPT ![f].ram = a][g].rclose = fid[g].rclose
      BY <2>3 DEF FidRecs
    <3>2. \A g \in Fids : ~fid'[g].rclose BY <2>11, <3>1 DEF rwalk, EInv
    <3> QED BY <2>4, <2>11, <3>2 DEF rwalk
  <2>12. ASSUME NEW f \in Fids, NEW nf \in Fids, NEW p \in Paths, rwalknew(f, nf, p) PROVE EInv'
    <3> DEFINE x(a) == [xclone(f, nf) EXCEPT !.ram = a]
               y == [xclone(f, nf) EXCEPT !.busy = FALSE, !.ram = -1]
    <3>1. (\A a : ~x(a).rclose) /\ ~y.rclose BY DEF xclone, FreeFid
    <3>2. (\E a : fid' = [fid EXCEPT ![nf] = x(a)]) \/ fid' = [fid EXCEPT ![nf] = y]
      BY <2>12 DEF rwalknew
    <3> HIDE DEF x, y
    <3>3. \A g \in Fids : ~fid'[g].rclose BY <2>3, <3>1, <3>2 DEF EInv
    <3> QED BY <2>4, <2>12, <3>3 DEF rwalknew
  <2>13. CASE Rests BY <2>4, <2>13 DEF Rests, EInv
  <2>14. "remove" \notin Ops /\ "chmod" \notin Ops BY DEF OnlyAdds
  <2> QED BY <2>5, <2>6, <2>7, <2>8, <2>9, <2>10, <2>11, <2>12, <2>13, <2>14, Requests
<1>3. EInv => ExclOnce
  <2> SUFFICES ASSUME EInv, NEW i \in Slots, ram[i].busy, ram[i].mode.excl
               PROVE  Cardinality({f \in Fids : fid[f].open /\ fid[f].ram = i}) <= 1
    BY DEF ExclOnce
  <2> QED BY DEF EInv, CInv, OpenCount, OpenOnce
<1> QED BY <1>1, <1>2, <1>3, CountInvariance, PTL DEF Spec
=============================================================================
