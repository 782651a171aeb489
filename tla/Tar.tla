--------------------------------- MODULE Tar ---------------------------------
(***************************************************************************)
(* cmd/tar.c: an archive is written (c), appended to (r), listed or       *)
(* extracted (t, x) through a buffer of nblock blocks.  Lengths are       *)
(* counted in blocks of Tblock bytes; a block is a header, a block of a   *)
(* member's data, a zeroed one, or one whose content is left over.        *)
(***************************************************************************)
EXTENDS Integers, Sequences

CONSTANTS
    Members,    \* what can be archived: [name, len, dir, long, shrunk]; long:
                \* putfullname() cannot store the name; shrunk: the file turns
                \* out to be a block shorter than dirfstat() said
    Blockings,  \* values of nblock
    MaxVerbs,   \* bound: invocations of tar
    MaxMembers  \* bound: members of the archive

VARIABLES
    arch,       \* the blocks of the archive file
    pos,        \* the file offset, in blocks
    buf,        \* tpblk: the blocks of the buffer
    cur,        \* curblk - tpblk; -1 for a nil curblk
    nblock,     \* size of the buffer
    first, done,\* the static variables of refill()
    nexthdr, blkoff,
    verb,       \* what this invocation does: "none", "c", "r", "x" or "t"
    tpc,        \* where it is
    blksleft,   \* the loop counter of the data loops
    member,     \* the member it deals with: its header
    want,       \* the names given as arguments; none: every member
    sel,        \* the data of this member are wanted
    put,        \* the members that were archived, oldest first
    got,        \* those this invocation has extracted or listed
    runs        \* invocations so far

tarvars == <<arch, pos, buf, cur, nblock, first, done, nexthdr, blkoff, verb, tpc, blksleft,
             member, want, sel, put, got, runs>>
bufvars == <<buf, cur, nblock, first, done, blkoff>>
TarIdle == UNCHANGED <<nexthdr, verb, want, runs>>

ZeroBlk == [t |-> "zero"]
StaleBlk == [t |-> "stale"]
HdrBlk(m) == [t |-> "hdr", name |-> IF m.long THEN "" ELSE m.name, len |-> m.len, dir |-> m.dir]
DataBlk(m, k) == [t |-> "data", name |-> m.name, k |-> k]
NoMember == [t |-> "none", name |-> "", len |-> 0, dir |-> FALSE]

TarInit ==
    /\ arch = <<>> /\ pos = 0 /\ buf = <<>> /\ cur = -1 /\ nblock = 0
    /\ first = TRUE /\ done = FALSE /\ nexthdr = 0 /\ blkoff = 0
    /\ verb = "none" /\ tpc = "exit" /\ blksleft = 0 /\ member = NoMember /\ want = {} /\ sel = FALSE
    /\ put = <<>> /\ got = <<>> /\ runs = 0

\* threadmain(): the keyletters, and initblks(), whose memory is not cleared.
Main(v, nb, names) ==
    /\ tpc = "exit" /\ runs < MaxVerbs
    /\ v = "c" \/ put # <<>>
    /\ v \in {"c", "r"} => names = {}
    /\ verb' = v /\ nblock' = nb /\ want' = names
    /\ buf' = [i \in 1..nb |-> StaleBlk] /\ cur' = -1
    /\ first' = TRUE /\ done' = FALSE /\ nexthdr' = 0 /\ blkoff' = 0 /\ pos' = 0
    /\ arch' = IF v = "c" THEN <<>> ELSE arch
    /\ put' = IF v = "c" THEN <<>> ELSE put
    /\ got' = <<>> /\ blksleft' = 0 /\ member' = NoMember /\ sel' = FALSE
    /\ tpc' = IF v = "c" THEN "add" ELSE "readhdr"
    /\ runs' = runs + 1

-----------------------------------------------------------------------------
(* The buffer                                                             *)

Least(a, b) == IF a < b THEN a ELSE b
Exhausted == cur = -1 \/ cur >= nblock

\* The optimisation of refill(): nothing of the next nblock blocks is needed.
SeeksTooEarly(justhdr) == justhdr /\ nexthdr > pos
SeeksOver(justhdr) == justhdr /\ nexthdr - pos >= nblock

\* refill(); tpc' = "fatal" is a sysfatal().
refill(justhdr, l) ==
    LET n == Least(nblock, Len(arch) - pos) IN
    /\ blkoff' = pos
    /\ first' = FALSE
    /\ \/ /\ ~first /\ SeeksOver(justhdr)
          /\ pos' = pos + nblock
          /\ tpc' = l
          /\ UNCHANGED <<buf, nblock, done>>
       \/ /\ first \/ ~SeeksOver(justhdr)
          /\ nblock' = IF first THEN n ELSE nblock
          /\ buf' = [i \in 1..nblock' |-> IF i <= n THEN arch[pos + i] ELSE ZeroBlk]
          /\ done' = (n < nblock')
          /\ pos' = pos + n
          /\ tpc' = IF n = 0 THEN "fatal" ELSE l

\* getblkrd(): the block read is number RdCur' of the buffer.
getblkrd(justhdr, l) ==
    \/ ~Exhausted /\ cur' = cur + 1 /\ tpc' = l /\ UNCHANGED <<buf, nblock, first, done, blkoff, pos>>
    \/ Exhausted /\ ~done /\ cur' = 1 /\ refill(justhdr, l)
    \/ Exhausted /\ done /\ tpc' = "fatal" /\ UNCHANGED <<bufvars, pos>>

\* getblke(): the index of the next block to fill.
WrCur == IF Exhausted THEN 0 ELSE cur

\* gothowmany(): how much of the buffer is left, from the block just got.
gothowmany(at, max) == Least(nblock - at, max)

\* write() of the whole buffer at pos.
Written(b) == [i \in 1..(IF pos + nblock > Len(arch) THEN pos + nblock ELSE Len(arch)) |->
                  IF i > pos /\ i <= pos + nblock THEN b[i - pos] ELSE arch[i]]

\* putblk(): b is the buffer with curblk at c; written out when it is full.
Full(c) == c >= nblock

putblk(b, c) ==
    /\ buf' = b /\ cur' = c
    /\ IF Full(c) THEN arch' = Written(b) /\ pos' = pos + nblock ELSE UNCHANGED <<arch, pos>>
    /\ UNCHANGED <<nblock, first, done, blkoff>>

-----------------------------------------------------------------------------
(* replace(): tar c and tar r                                             *)

\* addtoar(): the header.  The result of putfullname() is not looked at.
AddMember(m) ==
    /\ tpc = "add" /\ Len(put) < MaxMembers
    /\ putblk([buf EXCEPT ![WrCur + 1] = HdrBlk(m)], WrCur + 1)
    /\ member' = m
    /\ blksleft' = IF m.dir THEN 0 ELSE m.len
    /\ put' = Append(put, m)
    /\ tpc' = IF m.dir \/ m.len = 0 THEN "add" ELSE "adddata"
    /\ TarIdle /\ UNCHANGED <<sel, got>>

\* As many blocks as the buffer has room for; past the end of a file that
\* became shorter, blocks are left as they were, unless it ends at once.
AddData ==
    /\ tpc = "adddata"
    /\ LET c == WrCur
           n == gothowmany(c, blksleft)
           k0 == member.len - blksleft          \* blocks of the file read so far
           avail == IF member.shrunk THEN member.len - 1 ELSE member.len
           Blk(i) == IF k0 + i <= avail THEN DataBlk(member, k0 + i)
                     ELSE IF avail <= k0 THEN ZeroBlk ELSE buf[c + i]
       IN /\ putblk([j \in 1..nblock |-> IF j > c /\ j <= c + n THEN Blk(j - c) ELSE buf[j]], c + n)
          /\ blksleft' = blksleft - n
          /\ tpc' = IF n = blksleft THEN "add" ELSE "adddata"
    /\ TarIdle /\ UNCHANGED <<member, sel, put, got>>

\* The end-of-archive marker: two zeroed blocks, and the rest of the buffer.
EndMark1 == /\ tpc = "add"
            /\ put # <<>>
            /\ putblk([buf EXCEPT ![WrCur + 1] = ZeroBlk], WrCur + 1)
            /\ tpc' = "end"
            /\ TarIdle /\ UNCHANGED <<blksleft, member, sel, put, got>>

putlastblk == /\ tpc = "end"
              /\ LET b == [j \in 1..nblock |-> IF j > WrCur THEN ZeroBlk ELSE buf[j]]
                 IN /\ arch' = Written(b) /\ buf' = b
              /\ pos' = pos + nblock /\ cur' = WrCur + 1
              /\ tpc' = "exit"
              /\ TarIdle /\ UNCHANGED <<nblock, first, done, blkoff, blksleft, member, sel, put, got>>

-----------------------------------------------------------------------------
(* Reading: readhdr(), and what replace() and extract() do with a member  *)

ReadHdr == /\ tpc = "readhdr"
           /\ getblkrd(FALSE, "hdr")
           /\ TarIdle /\ UNCHANGED <<arch, blksleft, member, sel, put, got>>

Hdr == buf[cur]
eotar(h) == h = ZeroBlk \/ (h.t = "hdr" /\ h.name = "")
arsize(h) == IF h.dir THEN 0 ELSE h.len
StaleHdr == Hdr.t \in {"data", "stale"}        \* the checksum does not match

\* The next header starts after the data of this one.
NextHdr(h) == nexthdr + 1 + arsize(h)

\* match(): every member if no names are given.
match(name) == want = {} \/ name \in want

\* match() takes a member or not; t wants its name only, x its data.  A
\* block that is no header has a wrong checksum: sysfatal().
GotHdr ==
    /\ tpc = "hdr" /\ ~eotar(Hdr)
    /\ LET h == IF StaleHdr THEN NoMember ELSE Hdr IN
        /\ nexthdr' = NextHdr(h)
        /\ member' = h
        /\ blksleft' = arsize(h)
        /\ sel' = (verb = "x" /\ match(h.name))
        /\ got' = IF verb \in {"x", "t"} /\ match(h.name)
                  THEN Append(got, [name |-> h.name, data |-> <<>>]) ELSE got
        /\ tpc' = IF StaleHdr THEN "fatal" ELSE IF arsize(h) = 0 THEN "readhdr" ELSE "rddata"
    /\ UNCHANGED <<arch, pos, bufvars, verb, want, put, runs>>

\* History: the members up to one whose name did not fit, where readers stop.
Readable == LET n == {i \in DOMAIN put : put[i].long}
            IN IF n = {} THEN put ELSE SubSeq(put, 1, (CHOOSE i \in n : \A j \in n : i <= j) - 1)

\* End of archive: r goes back to the big block with the mark in it.
GotEnd ==
    /\ tpc = "hdr" /\ eotar(Hdr)
    /\ \/ /\ verb = "r"
          /\ pos' = blkoff /\ cur' = cur - 1
          /\ tpc' = "add" /\ put' = Readable
       \/ /\ verb # "r"
          /\ tpc' = "exit" /\ UNCHANGED <<pos, cur, put>>
    /\ TarIdle /\ UNCHANGED <<arch, buf, nblock, first, done, blkoff, blksleft, member, sel, got>>

\* extract1(), skip() or the loop of replace(): getblkrd() ...
ReadData == /\ tpc = "rddata"
            /\ getblkrd(~sel, "gotdata")
            /\ TarIdle /\ UNCHANGED <<arch, blksleft, member, sel, put, got>>

\* ... then gothowmany(), the write to the file, and putreadblks().
CopyData ==
    /\ tpc = "gotdata"
    /\ LET n == gothowmany(cur - 1, blksleft) IN
        /\ cur' = cur + n - 1
        /\ blksleft' = blksleft - n
        /\ got' = IF sel
                  THEN [got EXCEPT ![Len(got)].data = @ \o SubSeq(buf, cur, cur + n - 1)]
                  ELSE got
        /\ tpc' = IF n = blksleft THEN "readhdr" ELSE "rddata"
    /\ TarIdle /\ UNCHANGED <<arch, pos, buf, nblock, first, done, blkoff, member, sel, put>>

TarNext ==
    \/ \E v \in {"c", "r", "x", "t"}, nb \in Blockings, names \in {{}} \cup {{m.name} : m \in Members} :
          Main(v, nb, names)
    \/ \E m \in Members : AddMember(m)
    \/ AddData \/ EndMark1 \/ putlastblk
    \/ ReadHdr \/ GotHdr \/ GotEnd \/ ReadData \/ CopyData

TarSpec == TarInit /\ [][TarNext]_tarvars

-----------------------------------------------------------------------------
(* Properties.                                                            *)

\* What a file's data come to: its blocks; the last one, if the file became
\* shorter while it was read, may hold anything.
DataOf(m, d) == \A k \in DOMAIN d : d[k] = DataBlk(m, k) \/ (m.shrunk /\ k = m.len)

\* Whatever was written with one blocking factor and appended to with another
\* is read back as it was with a third: the members extracted or listed are
\* those of the archive that were asked for, in order and with all their data.
ReadsBack ==
    (tpc = "exit" /\ verb \in {"x", "t"}) =>
        LET wanted == SelectSeq(Readable, LAMBDA m : match(m.name)) IN
        /\ Len(got) = Len(wanted)
        /\ \A i \in DOMAIN got :
              /\ got[i].name = wanted[i].name
              /\ (verb = "x" /\ ~wanted[i].dir) =>
                    Len(got[i].data) = wanted[i].len /\ DataOf(wanted[i], got[i].data)

\* An archive that tar has written can be read to its end and appended to:
\* no end of file or checksum error, although headers are found in a buffer
\* that the seek over unwanted data has not filled, and although the mark of
\* the end may begin a big block or end one.
NoTarFatal == tpc # "fatal"

\* An archive reads back as it was written, in any blocking, and no seek or
\* read ends tar.
ArchiveOK == ReadsBack /\ NoTarFatal
=============================================================================
