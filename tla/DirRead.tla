------------------------------ MODULE DirRead ------------------------------
(***************************************************************************)
(* lib9/mingw/dirread.c, _p9dir.c and winreplacews() of misc.c: reading a *)
(* directory, whose entries are looked at twice, once to find out how     *)
(* much room their strings need and once to fill it, in the directory     *)
(* itself as the working directory.  Other programs create and remove     *)
(* files meanwhile.  A name is a sequence of characters; with             *)
(* P9FILEWSCHAR set, spaces in it are shown as another character.         *)
(***************************************************************************)
EXTENDS Integers, Sequences, FiniteSets, FiniteSetsExt

CONSTANTS
    FileNames,  \* names of files
    PerBlock,   \* entries that go into BLKSIZE bytes
    MaxChanges  \* bound: files created or removed

VARIABLES
    wsset,      \* P9FILEWSCHAR is set: wschar > 0
    files,      \* the files that are in the directory
    listing,    \* what _wreaddir() will still deliver
    all,        \* dirreadall(), not dirread()
    dpc,        \* what comes next
    dents,      \* the entries read; the empty name: passed over
    ent,        \* the entry at hand
    nstr,       \* the bytes counted in the first pass
    str,        \* the bytes used in the second
    dirs,       \* the Dirs made: [name, of, cut: a string did not fit]
    ret,        \* what the call returned
    inside,     \* the working directory is the one being read
    wdopen,     \* descriptors for "." that are open
    listed,     \* history: what was read
    everGone,   \* history: files that were missing at some time
    changes

ddvars == <<wsset, files, listing, all, dpc, dents, ent, nstr, str, dirs, ret, inside, wdopen,
            listed, everGone, changes>>

Dot == <<".">>
DotDot == <<".", ".">>

\* runelen(): wschar is U+00B7 and wsesc U+2022, as dist/mingw/pf9.bat has it.
runelen == [c \in {".", "a", "space", "wschar", "wsesc", "fffd"} |->
               CASE c = "wschar" -> 2 [] c \in {"wsesc", "fffd"} -> 3 [] OTHER -> 1]
RECURSIVE utflen(_)
utflen(name) == IF name = << >> THEN 0 ELSE runelen[Head(name)] + utflen(Tail(name))

\* winreplacews(): to what programs see, and back (utf2wpath()).
Forward == [c \in DOMAIN runelen |->
    CASE c = "wsesc" -> "fffd" [] c = "wschar" -> "wsesc" [] c = "space" -> "wschar" [] OTHER -> c]
Backward == [c \in DOMAIN runelen |->
    CASE c = "wschar" -> "space" [] c = "wsesc" -> "wschar" [] c = "fffd" -> "wsesc" [] OTHER -> c]
winreplacews(name, tab) == IF wsset THEN [j \in DOMAIN name |-> tab[name[j]]] ELSE name

\* _p9dir(): the bytes of the strings: a name, "glenda", "users".
WithoutZero(name) == utflen(name) + 7 + 6
Needed(name) == utflen(name) + 1 + 7 + 6

DirReadInit ==
    /\ wsset \in BOOLEAN /\ all \in BOOLEAN
    /\ files = FileNames /\ listing = << >> /\ dpc = "open" /\ dents = << >> /\ ent = 1
    /\ nstr = 0 /\ str = 0 /\ dirs = << >> /\ ret = -2
    /\ inside = FALSE /\ wdopen = 0 /\ listed = {} /\ everGone = {} /\ changes = 0

Same == UNCHANGED <<wsset, files, all, everGone, changes>>
DirReturns(n) == dpc' = "end" /\ ret' = n

\* fd2dir(): the directory is open; the system delivers its names in some order.
FdDir ==
    /\ dpc = "open" /\ dpc' = "getdents"
    /\ \E order \in [1..(Cardinality(files) + 2) -> files \cup {Dot, DotDot}] :
          /\ \A a, b \in DOMAIN order : order[a] = order[b] => a = b
          /\ listing' = order
    /\ UNCHANGED <<dents, ent, nstr, str, dirs, ret, inside, wdopen, listed>> /\ Same

\* mygetdents(): once for dirread(), until there is no more for dirreadall().
\* countde() clears the names of "." and "..".
countde(name) == IF name \in {Dot, DotDot} THEN << >> ELSE name
mygetdents ==
    LET n == Min({PerBlock, Len(listing)})
    IN /\ dpc = "getdents"
       /\ dents' = dents \o [j \in 1..n |-> countde(listing[j])]
       /\ listed' = listed \cup {listing[j] : j \in 1..n}
       /\ listing' = SubSeq(listing, n + 1, Len(listing))
       /\ IF all /\ n > 0 THEN UNCHANGED <<dpc, ret>>
          ELSE IF dents' = << >> THEN DirReturns(0)
          ELSE dpc' = "chdir" /\ UNCHANGED ret
       /\ UNCHANGED <<ent, nstr, str, dirs, inside, wdopen>> /\ Same

\* dirpackage(): remembers the working directory and goes to the one it reads;
\* a failure of fchdir() leaves the descriptor open.
dirpackage ==
    /\ dpc = "chdir"
    /\ \/ DirReturns(-1) /\ UNCHANGED <<inside, wdopen>>
       \/ DirReturns(-1) /\ wdopen' = wdopen + 1 /\ UNCHANGED inside
       \/ wdopen' = wdopen + 1 /\ inside' = TRUE /\ dpc' = "count" /\ UNCHANGED ret
    /\ UNCHANGED <<listing, dents, ent, nstr, str, dirs, listed>> /\ Same

\* _wstat()
There(name) == name \in files \cup {Dot, DotDot}

\* fchdir(oldwd), close(oldwd)
GoesBack == inside' = FALSE /\ wdopen' = wdopen - 1

\* The first pass: an entry whose file is gone is passed over from now on.
CountEntry ==
    /\ dpc = "count" /\ ent <= Len(dents)
    /\ IF There(dents[ent]) THEN nstr' = nstr + Needed(dents[ent]) /\ UNCHANGED dents
       ELSE dents' = [dents EXCEPT ![ent] = << >>] /\ UNCHANGED nstr
    /\ ent' = ent + 1
    /\ UNCHANGED <<listing, dpc, str, dirs, ret, inside, wdopen, listed>> /\ Same
Counted ==
    /\ dpc = "count" /\ ent > Len(dents)
    /\ \/ dpc' = "fill" /\ ent' = 1 /\ UNCHANGED <<ret, inside, wdopen>>
       \/ DirReturns(-1) /\ GoesBack /\ UNCHANGED ent    \* malloc() fails
    /\ UNCHANGED <<listing, dents, nstr, str, dirs, listed>> /\ Same

\* The second pass: the name is replaced, then _p9dir() puts the strings where
\* there is room for them.
FillEntry ==
    /\ dpc = "fill" /\ ent <= Len(dents)
    /\ IF There(dents[ent])
       THEN LET name == winreplacews(dents[ent], Forward)
                s1 == str + utflen(name) + 1
                f1 == s1 <= nstr
                s2 == (IF f1 THEN s1 ELSE str) + 7
                f2 == s2 <= nstr
                s3 == (IF f2 THEN s2 ELSE s2 - 7) + 6
                f3 == s3 <= nstr
            IN /\ dirs' = Append(dirs, [name |-> IF f1 THEN name ELSE << >>, of |-> dents[ent],
                                          cut |-> ~(f1 /\ f2 /\ f3)])
               /\ str' = IF f3 THEN s3 ELSE s3 - 6
       ELSE UNCHANGED <<dirs, str>>
    /\ ent' = ent + 1
    /\ UNCHANGED <<listing, dpc, dents, nstr, ret, inside, wdopen, listed>> /\ Same
Filled ==
    /\ dpc = "fill" /\ ent > Len(dents)
    /\ GoesBack /\ DirReturns(Len(dirs))
    /\ UNCHANGED <<listing, dents, ent, nstr, str, dirs, listed>> /\ Same

\* Another program removes a file or creates it again.
Change(f) ==
    /\ dpc \notin {"open", "end"} /\ changes < MaxChanges
    /\ files' = (files \ {f}) \cup ({f} \ files)
    /\ everGone' = everGone \cup {f} /\ changes' = changes + 1
    /\ UNCHANGED <<wsset, listing, all, dpc, dents, ent, nstr, str, dirs, ret, inside, wdopen, listed>>

DirReadNext ==
    \/ FdDir \/ mygetdents \/ dirpackage
    \/ CountEntry \/ Counted \/ FillEntry \/ Filled
    \/ \E f \in FileNames : Change(f)

DirReadSpec == DirReadInit /\ [][DirReadNext]_ddvars

----------------------------------------------------------------------------
\* A call that succeeds tells of each file it has read and that was there all
\* the time once, of no other file twice, and not of "." and "..", even if
\* files come and go between the two passes.
EachFileOnce ==
    dpc = "end" /\ ret >= 0 =>
       /\ \A f \in (listed \cap FileNames) \ everGone :
             Cardinality({j \in DOMAIN dirs : dirs[j].of = f}) = 1
       /\ \A a, b \in DOMAIN dirs : dirs[a].of = dirs[b].of => a = b
       /\ \A j \in DOMAIN dirs : dirs[j].of \in listed \ {Dot, DotDot}

Grown(name) == utflen(winreplacews(name, Forward)) > utflen(name)

\* The room counted in the first pass is enough for the second; a string is
\* left out only after a name has grown by the replacement of its spaces, which
\* the first pass does not see (winreplacews() at dirread.c:151).
StringsFit ==
    \A j \in DOMAIN dirs : dirs[j].cut => \E a \in 1..j : Grown(dirs[a].of)

\* A name that was returned leads back to its file when it is opened
\* (utf2wpath()), unless the file's own name has U+FFFD in it.
NameLeadsBack ==
    \A j \in DOMAIN dirs :
       dirs[j].name # << >> /\ (\A c \in DOMAIN dirs[j].of : dirs[j].of[c] # "fffd")
          => winreplacews(dirs[j].name, Backward) = dirs[j].of

\* When a call ends, the program is where it was, and a descriptor is left open
\* only by a call that fails.
BackAgain == dpc = "end" => ~inside /\ (ret >= 0 => wdopen = 0)

\* A directory read delivers each file once with its strings, under a name
\* that leads to it, and ends in the directory it began in.
DirReadOK == EachFileOnce /\ StringsFit /\ NameLeadsBack /\ BackAgain
=============================================================================
