------------------------------- MODULE Ramfs -------------------------------
(***************************************************************************)
(* cmd/ramfs.c: a file server that keeps a tree of files in an array and  *)
(* answers one 9P request after the other, so each handler is one step.   *)
(* The difficulty is in the sequences of requests: fids that refer to the *)
(* same file, and slots of the array that are used again while fids still *)
(* refer to them.                                                         *)
(*                                                                        *)
(* The client keeps to 9P: it attaches and clones to fids that are not in *)
(* use, makes its other requests on fids that are, and does not walk one  *)
(* that is open (rwalk() does not look).  Permissions are sets of "read", *)
(* "write", "exec" per class; of the data the model knows which bytes     *)
(* were written, which were zeroed and which are whatever realloc() found *)
(* there.  Times, muid and qid.vers are left out.                         *)
(***************************************************************************)
EXTENDS Integers, Sequences, FiniteSets

CONSTANTS
    Fids,       \* the numbers of fids
    Users,      \* the users that attach
    Owner,      \* getuser()
    Names,      \* names of files
    Modes,      \* permissions: [other, group, owner, excl, append]
    OpenModes,  \* the modes of open
    Paths,      \* the lists of names the client walks
    Ops,        \* the optional requests the client makes
    Nram,       \* slots (2048)
    MaxPath,    \* bound: files created
    Maxsize     \* bytes a file may have, less one (512 M)

ASSUME NamesAssumption == {".", ".."} \cap Names = {} /\ "file" \in Names
ASSUME NramAssumption == Nram \in Nat /\ Nram >= 2
ASSUME BoundsAssumption == MaxPath \in Nat /\ Maxsize \in Nat \ {0}
ASSUME UsersAssumption == Owner \in Users
ASSUME FidsAssumption == IsFiniteSet(Fids)
ASSUME ModesAssumption ==
    Modes \subseteq [other : SUBSET {"read", "write", "exec"}, group : SUBSET {"read", "write", "exec"},
                     owner : SUBSET {"read", "write", "exec"}, excl : BOOLEAN, append : BOOLEAN]
ASSUME OpenModesAssumption ==
    OpenModes \subseteq [op : {"read", "write", "rdwr", "exec"}, trunc : BOOLEAN, rclose : BOOLEAN]
ASSUME PathsAssumption == Paths \subseteq Seq(Names \cup {".", ".."})
ASSUME OpsAssumption == Ops \subseteq {"version", "write", "wstat", "chmod", "remove", "dir"}

VARIABLES
    ram,        \* Ram ram[Nram]
    nram,       \* slots that were ever used
    path,       \* ulong path
    fid,        \* the Fid of each number
    status      \* of the server: up, aborted (an assertion), exited (error())

vars == <<ram, nram, path, fid, status>>

Slots == 0..(Nram - 1)
Index == 0..(nram - 1)
NoUser == "nobody"
Mode(o, g, u) == [other |-> o, group |-> g, owner |-> u, excl |-> FALSE, append |-> FALSE]

FreeRam == [busy |-> FALSE, open |-> 0, parent |-> 0, dir |-> FALSE, path |-> 0,
            mode |-> Mode({}, {}, {}), name |-> "", user |-> NoUser,
            group |-> NoUser, data |-> <<>>, ndata |-> 0]
FreeFid == [busy |-> FALSE, open |-> FALSE, rclose |-> FALSE, user |-> NoUser, ram |-> -1]

rw  == {"read", "write"}
rwx == {"read", "write", "exec"}

\* main(): the root (0775) and a file "file" (0666).
Init ==
    /\ ram = [i \in Slots |->
         CASE i = 0 -> [FreeRam EXCEPT !.busy = TRUE, !.dir = TRUE, !.name = ".", !.user = Owner,
                          !.group = Owner, !.mode = Mode({"read", "exec"}, rwx, rwx)]
           [] i = 1 -> [FreeRam EXCEPT !.busy = TRUE, !.path = 1, !.name = "file", !.user = Owner,
                          !.group = Owner, !.mode = Mode(rw, rw, rw)]
           [] OTHER -> FreeRam]
    /\ nram = 2
    /\ path = 0
    /\ fid = [f \in Fids |-> FreeFid]
    /\ status = "up"

-----------------------------------------------------------------------------
(* Helpers of the handlers.                                               *)

\* perm(f, r, p), f being a Fid and r a Ram.
perm(f, r, p) == \/ p \in r.mode.other
                 \/ f.user = r.group /\ p \in r.mode.group
                 \/ f.user = r.user /\ p \in r.mode.owner

Named(d, n) == {i \in Index : ram[i].busy /\ ram[i].parent = d /\ ram[i].name = n}

\* The root, being its own parent, is never empty.
emptydir(d) == {i \in Index : ram[i].busy /\ ram[i].parent = d} = {}

\* realremove(r): what becomes of the array.  A directory that is not empty
\* stays; slot i is free else, but for its open count.
RemovesAnyway(i) == [ram EXCEPT ![i] = [FreeRam EXCEPT !.open = ram[i].open]]
realremove(i) ==
    IF ram[i].dir /\ ~emptydir(i)
    THEN ram
    ELSE [ram EXCEPT ![i] = [@ EXCEPT !.ndata = 0, !.data = <<>>, !.parent = 0, !.path = 0,
                                      !.dir = FALSE, !.name = "", !.busy = FALSE]]

\* The array once f's open is not counted any more.
KeepsOpen(f) == ram
Closed(f) == IF fid[f].open THEN [ram EXCEPT ![fid[f].ram].open = @ - 1] ELSE ram

-----------------------------------------------------------------------------
(* The handlers.  A request that fails with an error message changes      *)
(* nothing, unless a handler says otherwise.                              *)

rattach(f, u) ==
    /\ ~fid[f].busy
    /\ fid' = [fid EXCEPT ![f] = [@ EXCEPT !.busy = TRUE, !.rclose = FALSE, !.ram = 0, !.user = u]]
    /\ UNCHANGED <<ram, nram, path, status>>

\* One name of the loop of rwalk(), at slot s.at.  err stands for any of
\* Enotdir, Enotexist and Eperm.
WalkStep(f, s, name) ==
    LET r == ram[s.at]
        up == ram[r.parent]
        hit == Named(s.at, name)
        Found(i) == [s EXCEPT !.at = i, !.n = @ + 1]
    IN  CASE ~r.dir \/ ~r.busy -> [s EXCEPT !.err = TRUE]
          [] r.dir /\ r.busy /\ name = "." -> Found(s.at)
          [] r.dir /\ r.busy /\ name # "." /\ ~perm(f, up, "exec") -> [s EXCEPT !.err = TRUE]
          [] r.dir /\ r.busy /\ name = ".." /\ perm(f, up, "exec") -> Found(r.parent)
          [] OTHER -> IF hit = {} THEN [s EXCEPT !.stop = TRUE]
                      ELSE Found(CHOOSE i \in hit : \A j \in hit : i <= j)

\* The loop of rwalk(): from slot `start' as many of the names as exist.
WalkFrom(f, start, names) ==
    LET Walk[i \in 0..Len(names)] ==
            IF i = 0 THEN [at |-> start, n |-> 0, err |-> FALSE, stop |-> FALSE]
            ELSE LET s == Walk[i-1] IN IF s.err \/ s.stop THEN s ELSE WalkStep(f, s, names[i])
    IN  Walk[Len(names)]

\* Twalk with newfid = fid: the fid moves if all names were found.
rwalk(f, names) ==
    /\ fid[f].busy
    /\ LET w == WalkFrom(fid[f], fid[f].ram, names) IN
        fid' = IF w.n = Len(names) THEN [fid EXCEPT ![f].ram = w.at] ELSE fid
    /\ UNCHANGED <<ram, nram, path, status>>

\* Twalk to a new fid: xclone(), the walk; the new fid is given up if not
\* all names were found, and then assert(f->busy) fails.
xclone(f, nf) == [FreeFid EXCEPT !.busy = TRUE, !.ram = fid[f].ram, !.user = fid[f].user]

rwalknew(f, nf, names) ==
    /\ fid[f].busy /\ ~fid[nf].busy
    /\ ~fid[f].open /\ ram[fid[f].ram].busy
    /\ LET w == WalkFrom(xclone(f, nf), fid[f].ram, names) IN
        IF w.n = Len(names)
        THEN fid' = [fid EXCEPT ![nf] = [xclone(f, nf) EXCEPT !.ram = w.at]] /\ UNCHANGED status
        ELSE /\ fid' = [fid EXCEPT ![nf] = [xclone(f, nf) EXCEPT !.busy = FALSE, !.ram = -1]]
             /\ status' = "aborted"
    /\ UNCHANGED <<ram, nram, path>>

\* The permissions that an open for writing, reading or executing needs.
Wants(m) == CASE m.op = "write" -> {"write"} [] m.op = "rdwr" -> rw
              [] m.op = "exec" -> {"exec"}  [] OTHER -> {"read"}
Needs(m) == Wants(m) \cup (IF m.trunc THEN {"write"} ELSE {})

\* The test that keeps a second open away from an exclusive-use file.
NeverInUse(r) == FALSE
InUse(r) == r.mode.excl /\ r.open > 0

\* A Ram r once it is open in mode m.
OpenedRam(r, m) ==
    LET cut == m.trunc /\ ~r.mode.append
    IN  [r EXCEPT !.open = @ + 1, !.data = IF cut THEN <<>> ELSE @, !.ndata = IF cut THEN 0 ELSE @]

\* Topen.  ORCLOSE is noted before the permissions are checked, and remains
\* when they are refused; a directory is not marked as open.
ropen(f, m) ==
    /\ fid[f].busy /\ ~fid[f].open
    /\ LET i == fid[f].ram
           r == ram[i]
           mayclose == r.path # 0 /\ perm(fid[f], ram[r.parent], "write")
           ok == \A p \in Needs(m) : perm(fid[f], r, p)
       IN  /\ r.busy /\ ~InUse(r) /\ ~r.dir
           /\ m.rclose => mayclose
           /\ fid' = [fid EXCEPT ![f].rclose = @ \/ m.rclose, ![f].open = ok]
           /\ ram' = IF ok THEN [ram EXCEPT ![i] = OpenedRam(r, m)] ELSE ram
    /\ UNCHANGED <<nram, path, status>>

\* The permissions a new file in d gets when c are asked for.
Masked(d, c, isdir) ==
    LET mask(k) == IF isdir THEN c[k] \cap ram[d].mode[k]
                   ELSE (c[k] \cap {"exec"}) \cup (c[k] \cap ram[d].mode[k] \cap rw)
    IN  [c EXCEPT !.other = mask("other"), !.group = mask("group"), !.owner = mask("owner")]

\* The name is taken in directory d.
Taken(d, n) == Named(d, n) # {}

FirstFree == {i \in Slots : ~ram[i].busy /\ \A j \in 0..(i-1) : ram[j].busy}

\* The Ram of a file that fd creates in directory d.  It starts without
\* data, but with the open count that fids to the file before it in the
\* slot, r, have left.
NewRam(r, d, fd, name, c, isdir) ==
    [r EXCEPT !.busy = TRUE, !.path = path + 1, !.dir = @ \/ isdir, !.parent = d,
              !.name = name, !.user = fd.user, !.group = ram[d].group,
              !.mode = Masked(d, c, isdir), !.ndata = 0, !.open = @ + 1]

rcreate(f, name, c, isdir, rclose) ==
    /\ fid[f].busy /\ ~fid[f].open
    /\ LET d == fid[f].ram IN
        /\ ram[d].busy /\ ram[d].dir
        /\ perm(fid[f], ram[d], "write")
        /\ name \in Names /\ ~Taken(d, name)
        /\ path < MaxPath
        /\ path' = path + 1
        /\ \E i \in FirstFree :
            /\ ram' = [ram EXCEPT ![i] = NewRam(ram[i], d, fid[f], name, c, isdir)]
            /\ nram' = IF i >= nram THEN i + 1 ELSE nram
            /\ fid' = [fid EXCEPT ![f].ram = i, ![f].open = TRUE, ![f].rclose = @ \/ rclose]
    /\ UNCHANGED status

\* realloc(): what lies beyond the old size is anything.
erealloc(d, n) == [i \in 1..n |-> IF i <= Len(d) THEN d[i] ELSE "junk"]

\* memset(data + from, 0, to - from)
memset(d, from, to) == [i \in DOMAIN d |-> IF from < i /\ i <= to THEN "zero" ELSE d[i]]

\* The data of r after cnt bytes at off: enlarge, fill the gap, copy.
KeepsGap(r, off, cnt) ==
    LET d == IF off + cnt > r.ndata THEN erealloc(r.data, off + cnt) ELSE r.data
    IN  [i \in DOMAIN d |-> IF off < i /\ i <= off + cnt THEN "byte" ELSE d[i]]
AfterWrite(r, off, cnt) ==
    LET d == IF off + cnt > r.ndata THEN erealloc(r.data, off + cnt) ELSE r.data
        z == IF off > r.ndata THEN memset(d, r.ndata, off) ELSE d
    IN  [i \in DOMAIN z |-> IF off < i /\ i <= off + cnt THEN "byte" ELSE z[i]]

\* Twrite.  Neither the open mode nor a permission is looked at.
rwrite(f, offset, cnt) ==
    /\ fid[f].busy
    /\ LET i == fid[f].ram
           r == ram[i]
           off == IF r.mode.append THEN r.ndata ELSE offset
       IN  /\ r.busy /\ ~r.dir /\ off + cnt < Maxsize
           /\ ram' = [ram EXCEPT ![i].data = AfterWrite(r, off, cnt),
                                 ![i].ndata = IF off + cnt > @ THEN off + cnt ELSE @]
    /\ UNCHANGED <<nram, path, fid, status>>

\* Tread of a directory at offset off, an entry counting as one byte: two
\* loops over the array, from slot 1 on since the root is its own parent.
FirstSlotIsRoot == 0
FirstSlot == 1

DirRead(d, off, cnt) ==
    LET Is(i) == ram[i].busy /\ ram[i].parent = d
        \* The first loop: the slot it ends at, nram if it returns.
        Past[k \in FirstSlot..nram] ==
            IF k = FirstSlot THEN [at |-> k, off |-> off]
            ELSE LET s == Past[k-1] IN
                 IF s.off <= 0 \/ s.at = nram THEN s
                 ELSE [at  |-> IF s.at = nram - 1 THEN nram ELSE s.at + 1,
                       off |-> IF Is(s.at) THEN s.off - 1 ELSE s.off]
        from == Past[nram].at
        rest == SelectSeq([k \in 1..(nram - from) |-> from + k - 1], Is)
    IN  SubSeq(rest, 1, IF cnt < Len(rest) THEN cnt ELSE Len(rest))

\* Tclunk: remove on close does not ask who else refers to the file.
rclunk(f) ==
    /\ fid[f].busy
    /\ LET r == Closed(f)
           i == fid[f].ram
       IN  ram' = IF fid[f].rclose
                  THEN [realremove(i) EXCEPT ![i].open = r[i].open]
                  ELSE r
    /\ fid' = [fid EXCEPT ![f] = [@ EXCEPT !.busy = FALSE, !.open = FALSE, !.ram = -1]]
    /\ UNCHANGED <<nram, path, status>>

\* Tremove: the fid is gone, whether the file is removed or not.
rremove(f) ==
    /\ fid[f].busy
    /\ LET r == Closed(f)
           i == fid[f].ram
           may == r[i].path # 0 /\ perm(fid[f], r[r[i].parent], "write")
       IN  ram' = IF may THEN [realremove(i) EXCEPT ![i].open = r[i].open] ELSE r
    /\ fid' = [fid EXCEPT ![f] = [@ EXCEPT !.busy = FALSE, !.open = FALSE, !.ram = -1]]
    /\ UNCHANGED <<nram, path, status>>

\* Tversion: every fid that is in use is clunked, one by one.
VersionStarts == status = "up" /\ status' = "version" /\ UNCHANGED <<ram, nram, path, fid>>
VersionEnds == /\ status = "version" /\ \A f \in Fids : ~fid[f].busy
               /\ status' = "up" /\ UNCHANGED <<ram, nram, path, fid>>

\* The data of r, cut or filled with zeros to len bytes.
Resized(r, len) == LET d == erealloc(r.data, len)
                   IN  IF r.ndata < len THEN memset(d, r.ndata, len) ELSE d

\* r with a new name, new permissions c (of no or one element), a new group, a
\* new length; "" and -1 keep the old ones.
NewStat(r, name, c, gid, len) ==
    [r EXCEPT !.mode = IF c = {} THEN @ ELSE CHOOSE m \in c : TRUE,
              !.name = IF name = "" THEN @ ELSE name,
              !.group = IF gid = "" THEN @ ELSE gid,
              !.data = IF len = -1 THEN @ ELSE Resized(r, len),
              !.ndata = IF len = -1 THEN @ ELSE len]

\* Twstat: all is checked before anything changes.  realloc() to no bytes at
\* all returns nil, and error("out of memory") ends the server.
rwstat(f, name, c, gid, len) ==
    /\ fid[f].busy
    /\ LET i == fid[f].ram
           r == ram[i]
           newlen == len # -1 /\ len # r.ndata
           leads(g) == fid[f].user = g
       IN  /\ r.busy
           /\ newlen => perm(fid[f], r, "write")
           /\ name # "" /\ name # r.name =>
                perm(fid[f], ram[r.parent], "write") /\ ~Taken(r.parent, name)
           /\ c # {} /\ c # {r.mode} => leads(r.user) \/ leads(r.group)
           /\ gid # "" /\ gid # r.group => leads(r.user) \/ (leads(r.group) /\ leads(gid))
           /\ IF newlen /\ len = 0
              THEN status' = "exited" /\ UNCHANGED ram
              ELSE /\ UNCHANGED status
                   /\ ram' = [ram EXCEPT ![i] = NewStat(r, name, c, gid, IF newlen THEN len ELSE -1)]
    /\ UNCHANGED <<nram, path, fid>>

-----------------------------------------------------------------------------
(* The client.                                                            *)

Attach(f)  == \E u \in Users : rattach(f, u)
Walk(f)    == \E p \in Paths : (~fid[f].open /\ rwalk(f, p)) \/ \E nf \in Fids : rwalknew(f, nf, p)
Open(f)    == \E m \in OpenModes : ropen(f, m)
Create(f)  == \E n \in Names, c \in Modes, d \in {FALSE, "dir" \in Ops}, m \in OpenModes :
                rcreate(f, n, c, d, m.rclose)
Write(f)   == "write" \in Ops /\ \E off \in 0..Maxsize, cnt \in 0..1 : rwrite(f, off, cnt)
Remove(f)  == "remove" \in Ops /\ rremove(f)
Wstat(f)   == \/ "chmod" \in Ops /\ \E c \in Modes : rwstat(f, "", {c}, "", -1)
              \/ "wstat" \in Ops /\ \/ \E n \in Names : rwstat(f, n, {}, "", -1)
                                    \/ \E g \in Users : rwstat(f, "", {}, g, -1)
                                    \/ \E len \in 0..(Maxsize - 1) : rwstat(f, "", {}, "", len)
Version    == "version" \in Ops /\ VersionStarts

Next == \/ /\ status = "up"
           /\ \/ Version
              \/ \E f \in Fids : \/ Attach(f) \/ Walk(f) \/ Open(f) \/ Create(f) \/ Write(f)
                                 \/ rclunk(f) \/ Remove(f) \/ Wstat(f)
        \/ status = "version" /\ (VersionEnds \/ \E f \in Fids : rclunk(f))
        \/ status \in {"aborted", "exited"} /\ UNCHANGED vars

Spec == Init /\ [][Next]_vars

-----------------------------------------------------------------------------
(* Correctness.                                                           *)

\* Every variable has its type.
TypeOK ==
    /\ DOMAIN ram = Slots /\ nram \in 2..Nram /\ path \in 0..MaxPath
    /\ status \in {"up", "version", "aborted", "exited"}
    /\ \A i \in Slots : ram[i].parent \in Slots /\ ram[i].open \in Nat /\ ram[i].ndata \in Nat
    /\ \A f \in Fids : fid[f].ram \in IF fid[f].busy THEN Slots ELSE {-1, 0}

\* The files form a tree with unique names in each directory: the parent of
\* a file is a directory that exists, and following the parents leads to the
\* root, however files are created, renamed and removed, also through fids
\* whose slot holds another file by now.
TreeOK ==
    \A i \in Slots : ram[i].busy =>
        /\ i < nram
        /\ ram[ram[i].parent].busy /\ ram[ram[i].parent].dir
        /\ LET Up[k \in 0..Nram] == IF k = 0 THEN i ELSE ram[Up[k-1]].parent IN Up[Nram] = 0
        /\ \A j \in Slots : ram[j].busy /\ ram[j].parent = ram[i].parent
                             /\ ram[j].name = ram[i].name => i = j

\* The count in a Ram is the number of fids that are open on its slot.
OpenCount == \A i \in Slots :
    ram[i].open = Cardinality({f \in Fids : fid[f].open /\ fid[f].ram = i})

\* What a read can return was written or is zero: no byte below ndata lies
\* outside the allocated data or is left over from the allocator.
DataDefined == \A i \in Slots :
    /\ ram[i].ndata <= Len(ram[i].data)
    /\ \A k \in 1..ram[i].ndata : ram[i].data[k] # "junk"

\* As long as no file is removed and no mode changed, a file for exclusive
\* use is open through one fid at most.
ExclOnce == \A i \in Slots : ram[i].busy /\ ram[i].mode.excl =>
    Cardinality({f \in Fids : fid[f].open /\ fid[f].ram = i}) <= 1

\* Reading a directory entry by entry gives each of its files once, in the
\* order of the slots, and then nothing.
DirReadExact ==
    \A d \in Index :
        LET all == SelectSeq([k \in 1..(Nram - 1) |-> k], LAMBDA i : ram[i].busy /\ ram[i].parent = d)
        IN  \A off \in 0..Nram, cnt \in 1..2 :
                DirRead(d, off, cnt) = SubSeq(all, off + 1,
                                              IF off + cnt < Len(all) THEN off + cnt ELSE Len(all))

\* The root stays.  An open with ORCLOSE that is refused leaves its mark on the
\* fid; when the slot is used again for a directory, the fid can be walked up
\* to the root and clunked.
RootStays == ram[0].busy /\ ram[0].dir

\* The files are a tree with its root, whatever fids do to slots that are used
\* again.
TreeKept == TypeOK /\ TreeOK /\ RootStays

\* assert(f->busy) at the end of rwalk().
WalkAssert == status # "aborted"
=============================================================================
