------------------------------- MODULE Partfs -------------------------------
(***************************************************************************)
(* cmd/partfs.c: a disk served over 9P as a file "data" and as files for  *)
(* parts of it, which commands written to the file "ctl" define and       *)
(* delete.  Offsets and lengths are counted in sectors.                   *)
(***************************************************************************)
EXTENDS Integers, Sequences, FiniteSets

CONSTANTS
    PartNames,  \* names in commands, "data" among them
    NPART,      \* entries of ptab
    DiskSize,   \* sectors of the disk
    Extents,    \* <<base, end>> in commands
    PartFids,   \* fids of the clients
    MaxPath     \* bound: newpath

VARIABLES
    ptab,       \* [0..NPART-1 -> [path, name, base, length]]
    nparts, newpath,
    fidpath,    \* the qid.path of each fid: Qdata or more; 0: it is at the root
    presp,      \* the last response: "ok" or an error
    pio,        \* the sectors the last read or write went to: [path, from, n]
    made,       \* history: what a path stands for: [base, length]
    spoilt,     \* history: paths whose entry a refused command has changed
    defined     \* history: names defined and not deleted

pvars == <<ptab, nparts, newpath, fidpath, presp, pio, made, spoilt, defined>>

Qdata == 2
NoName == "nil"     \* of an entry that is not used
ASSUME PartAssumption == NPART \in Nat \ {0} /\ DiskSize \in Nat /\ MaxPath \in Nat /\ MaxPath >= Qdata
ASSUME ExtentAssumption == \A ext \in Extents : ext[1] \in Int /\ ext[2] \in Int
ASSUME PartNameAssumption == NoName \notin PartNames
NoPart == [path |-> -1, name |-> NoName, base |-> 0, length |-> 0]
NoIo == [path |-> 0, from |-> 0, n |-> 0]

\* initptab0()
PartfsInit ==
    /\ ptab = [i \in 0..(NPART - 1) |->
                  IF i = 0 THEN [path |-> Qdata, name |-> "data", base |-> 0, length |-> DiskSize]
                  ELSE NoPart]
    /\ nparts = 1 /\ newpath = Qdata
    /\ fidpath = [x \in PartFids |-> 0]
    /\ presp = "ok" /\ pio = NoIo
    /\ made = [p \in Qdata..MaxPath |-> [base |-> 0, length |-> IF p = Qdata THEN DiskSize ELSE 0]]
    /\ spoilt = {} /\ defined = {"data"}

\* The entries lookuppart() comes by: those before the nparts-th that is used.
Named(i) == ptab[i].name # NoName
UsedUpTo(i) == Cardinality({j \in 0..i : Named(j)})
Scanned == {i \in 0..(NPART - 1) : IF Named(i) THEN UsedUpTo(i) <= nparts ELSE UsedUpTo(i) < nparts}

\* lookuppart(): by name, or by path; -1 for nil.  A name that is unknown gets
\* the last free entry it came by, or the one behind.
BehindAll(holes) == nparts
FreeEntry(holes) == IF holes = {} THEN nparts ELSE CHOOSE i \in holes : \A j \in holes : j <= i
lookupname(name) ==
    LET hit == {i \in Scanned : ptab[i].name = name}
    IN IF hit # {} THEN CHOOSE i \in hit : \A j \in hit : i <= j
       ELSE IF nparts = NPART THEN -1
       ELSE FreeEntry({i \in Scanned : ~Named(i)})
lookuppath(path) ==
    LET hit == {i \in Scanned : Named(i) /\ ptab[i].path = path}
    IN IF hit = {} THEN -1 ELSE CHOOSE i \in hit : \A j \in hit : i <= j

\* updatefwin(): how much of a request there is; it may be negative.
updatefwin(p, offset, count) ==
    IF offset >= p.base + p.length THEN 0
    ELSE IF offset + count > p.length THEN p.length - offset ELSE count

-----------------------------------------------------------------------------
\* rattach()
Rattach(x) == /\ fidpath' = [fidpath EXCEPT ![x] = 0] /\ presp' = "ok" /\ pio' = NoIo
              /\ UNCHANGED <<ptab, nparts, newpath, made, spoilt, defined>>

\* rwalk1(): "data" is always the entry Qdata of dirtab.
Rwalk1(x, name) ==
    LET i == lookupname(name) IN
    /\ fidpath[x] = 0
    /\ \/ name = "data" /\ fidpath' = [fidpath EXCEPT ![x] = Qdata] /\ presp' = "ok"
       \/ /\ name # "data" /\ i # -1 /\ Named(i)
          /\ fidpath' = [fidpath EXCEPT ![x] = ptab[i].path] /\ presp' = "ok"
       \/ /\ name # "data" /\ (i = -1 \/ ~Named(i))
          /\ presp' = "error" /\ UNCHANGED fidpath
    /\ pio' = NoIo
    /\ UNCHANGED <<ptab, nparts, newpath, made, spoilt, defined>>

\* rread() and rwrite() of a part; the disk is not read-only.
Rio(x, offset, count) ==
    LET i == lookuppath(fidpath[x])
        n == updatefwin(ptab[i], offset, count)
    IN /\ fidpath[x] # 0
       /\ \/ i = -1 /\ presp' = "error" /\ pio' = NoIo
          \/ /\ i # -1 /\ presp' = "ok"
             /\ pio' = IF n > 0 THEN [path |-> fidpath[x], from |-> ptab[i].base + offset, n |-> n]
                       ELSE NoIo
       /\ UNCHANGED <<ptab, nparts, newpath, fidpath, made, spoilt, defined>>

\* The command "part name base end": the entry is changed, then checked.
Cmpart(name, base, end) ==
    LET i == lookupname(name)
        e == [ptab[i] EXCEPT !.base = base, !.length = end - base]
        size == IF i = 0 THEN end - base ELSE ptab[0].length
        exceeds == base < 0 \/ base >= size \/ end > size
    IN /\ newpath < MaxPath
       /\ \/ /\ i = -1 /\ presp' = "error"
             /\ UNCHANGED <<ptab, nparts, newpath, made, spoilt, defined>>
          \/ /\ i # -1 /\ exceeds /\ presp' = "error"
             /\ ptab' = [ptab EXCEPT ![i] = e]
             /\ spoilt' = IF Named(i) THEN spoilt \cup {ptab[i].path} ELSE spoilt
             /\ UNCHANGED <<nparts, newpath, made, defined>>
          \/ /\ i # -1 /\ ~exceeds /\ presp' = "ok"
             /\ ptab' = [ptab EXCEPT ![i] = [e EXCEPT !.name = name, !.path = newpath + 1]]
             /\ nparts' = IF Named(i) THEN nparts ELSE nparts + 1
             /\ newpath' = newpath + 1 /\ defined' = defined \cup {name}
             /\ made' = [made EXCEPT ![newpath + 1] = [base |-> base, length |-> end - base]]
             /\ spoilt' = IF i = 0 THEN spoilt \cup {Qdata} ELSE spoilt
       /\ pio' = NoIo /\ UNCHANGED fidpath

\* The command "delpart name": releasepart().
Cmdelpart(name) ==
    LET i == lookupname(name) IN
    /\ \/ /\ i # -1 /\ Named(i) /\ ptab[i].path # Qdata
          /\ ptab' = [ptab EXCEPT ![i].name = NoName, ![i].path = -1]
          /\ nparts' = nparts - 1 /\ defined' = defined \ {name}
       \/ /\ ~(i # -1 /\ Named(i) /\ ptab[i].path # Qdata)
          /\ UNCHANGED <<ptab, nparts, defined>>
    /\ presp' = "ok" /\ pio' = NoIo
    /\ UNCHANGED <<newpath, fidpath, made, spoilt>>

\* dirgen() and dostat(): the n-th part that is used.
dirgen(n) == LET hit == {i \in Scanned : Named(i) /\ UsedUpTo(i) = n + 1}
             IN IF n >= nparts \/ hit = {} THEN NoName ELSE ptab[CHOOSE i \in hit : TRUE].name

PartfsNext ==
    \/ \E x \in PartFids : Rattach(x) \/ \E name \in PartNames : Rwalk1(x, name)
    \/ \E x \in PartFids, offset \in 0..DiskSize, count \in 1..2 : Rio(x, offset, count)
    \/ \E name \in PartNames, ext \in Extents : Cmpart(name, ext[1], ext[2])
    \/ \E name \in PartNames : Cmdelpart(name)

PartfsSpec == PartfsInit /\ [][PartfsNext]_pvars

-----------------------------------------------------------------------------
(* Properties.                                                            *)

\* However parts are defined, defined again and deleted, nparts counts the
\* entries in use, no name and no path has two of them, and a scan of the
\* directory finds each part that was defined and not deleted: lookuppart(),
\* which runs until it has seen nparts entries, never runs off the table.
PartTableOK ==
    /\ nparts = Cardinality({i \in DOMAIN ptab : Named(i)})
    /\ \A i, j \in DOMAIN ptab : (Named(i) /\ Named(j) /\ i # j) =>
          ptab[i].name # ptab[j].name /\ ptab[i].path # ptab[j].path
    /\ {dirgen(n) : n \in 0..(nparts - 1)} = defined

\* A read or write through a fid reaches the sectors of the part that the fid
\* was walked to and no other, although the part may have been deleted, or
\* its name and its entry used for another one, in the meantime; unless a
\* command that was refused has changed the entry all the same.
OnlyItsSectors ==
    (pio # NoIo /\ pio.path \notin spoilt) =>
        /\ pio.from >= made[pio.path].base
        /\ pio.from + pio.n <= made[pio.path].base + made[pio.path].length
        /\ (Qdata \notin spoilt) => pio.from + pio.n <= DiskSize

\* The table of parts is consistent, and a part gives access to its own
\* sectors only.
PartsOK == PartTableOK /\ OnlyItsSectors
=============================================================================
