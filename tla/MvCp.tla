-------------------------------- MODULE MvCp --------------------------------
(***************************************************************************)
(* cmd/mv.c and cmd/cp.c moving or copying one file, step by step: any    *)
(* call to the system may fail, and the program may be killed between two *)
(* steps.  A file system is a function from names <<directory, element>>  *)
(* to files; no file has two names, except that names may differ in case  *)
(* only, which is how the two arguments can be one file.                  *)
(***************************************************************************)
EXTENDS Integers, Sequences

CONSTANTS
    Dirs, Elems,    \* directories and last elements of names
    Same(_),        \* the element that stands for all its spellings
    Blocks          \* contents of a file: a sequence of blocks

ASSUME BlocksAssumption == Blocks \in Seq({Blocks[k] : k \in DOMAIN Blocks})

VARIABLES
    fs,         \* [Dirs \X elements -> [data, append] or None]
    job,        \* [prog, from, to]
    jpc,        \* what comes next
    nread,      \* blocks read so far
    exited      \* "": running, "ok", "failed"

mvvars == <<fs, job, jpc, nread, exited>>

None == [data |-> << >>, append |-> FALSE, there |-> FALSE]
File(data, append) == [data |-> data, append |-> append, there |-> TRUE]
Names == Dirs \X Elems
At(name) == <<name[1], Same(name[2])>>      \* the file a name leads to
from == At(job.from)
to == At(job.to)

\* main(): one source; todir and toelem are told apart by split().
MvInit ==
    /\ \E prog \in {"mv", "cp"}, a, b \in Names : job = [prog |-> prog, from |-> a, to |-> b]
    /\ \E there, append \in BOOLEAN :
          fs = [n \in {At(m) : m \in Names} |->
                   IF n = from THEN File(Blocks, FALSE)
                   ELSE IF n = to /\ there THEN File(<<"old">>, append) ELSE None]
    /\ jpc = "start" /\ nread = 0 /\ exited = ""

Goes(where) == jpc' = where /\ UNCHANGED exited
Ends(how) == jpc' = "end" /\ exited' = how
Stays == UNCHANGED <<fs, nread>>

\* samefile(): the same file whatever it is called.
SameName == job.from = job.to
samefile == from = to

\* mv(): in one directory the target is removed and the file renamed.
MvStart ==
    /\ jpc = "start" /\ job.prog = "mv" /\ Stays
    /\ \/ job.from[1] = job.to[1] /\ samefile /\ Ends("failed")
       \/ job.from[1] = job.to[1] /\ ~samefile /\ fs[to].there /\ Goes("hardremove")
       \/ job.from[1] = job.to[1] /\ ~samefile /\ ~fs[to].there /\ Goes("rename")
       \/ job.from[1] # job.to[1] /\ Goes("open")

\* copy() of cp.c
CpStart ==
    /\ jpc = "start" /\ job.prog = "cp" /\ Stays
    /\ \/ samefile /\ Ends("failed")
       \/ ~samefile /\ Goes("open")

\* hardremove(): exits when it cannot.
HardRemove(next) ==
    \/ fs' = [fs EXCEPT ![to] = None] /\ Goes(next) /\ UNCHANGED nread
    \/ Ends("failed") /\ Stays
Remove == jpc = "hardremove" /\ HardRemove("rename")

\* dirwstat(); when it fails, the file is copied.
Rename ==
    /\ jpc = "rename"
    /\ \/ /\ fs' = [fs EXCEPT ![to] = fs[from], ![from] = None]
          /\ Ends("ok") /\ UNCHANGED nread
       \/ Goes("open") /\ Stays

OpenFrom ==
    /\ jpc = "open" /\ Stays
    /\ \/ Goes(IF job.prog = "mv" /\ fs[to].there /\ fs[to].append THEN "unappend" ELSE "create")
       \/ Ends("failed")
Unappend == jpc = "unappend" /\ HardRemove("create")

\* create(): an append-only file is not truncated.
Create ==
    /\ jpc = "create"
    /\ \/ /\ fs' = [fs EXCEPT ![to] = IF fs[to].there /\ fs[to].append THEN fs[to]
                                      ELSE File(<< >>, FALSE)]
          /\ Goes("copy") /\ UNCHANGED nread
       \/ Ends("failed") /\ Stays

\* copy1(): read and write until the end; a write may be short.  When a read
\* fails cp gives up, mv reads again.
CopyBlock ==
    /\ jpc = "copy" /\ nread < Len(Blocks)
    /\ \/ /\ fs' = [fs EXCEPT ![to].data = Append(fs[to].data, Blocks[nread + 1])]
          /\ nread' = nread + 1 /\ UNCHANGED <<jpc, exited>>
       \/ fs' = [fs EXCEPT ![to].data = Append(fs[to].data, "part")] /\ Ends("failed") /\ UNCHANGED nread
       \/ job.prog = "cp" /\ Ends("failed") /\ Stays
AtEnd == nread = Len(Blocks)
CopyEnd ==
    /\ jpc = "copy" /\ AtEnd /\ Stays
    /\ IF job.prog = "mv" THEN Goes("remove") ELSE Ends("ok")
RemoveFrom ==
    /\ jpc = "remove"
    /\ \/ fs' = [fs EXCEPT ![from] = None] /\ Ends("ok") /\ UNCHANGED nread
       \/ Ends("failed") /\ Stays

MvNext ==
    /\ \/ MvStart \/ CpStart \/ Remove \/ Rename \/ OpenFrom \/ Unappend \/ Create
       \/ CopyBlock \/ CopyEnd \/ RemoveFrom
    /\ UNCHANGED job

MvSpec == MvInit /\ [][MvNext]_mvvars

-----------------------------------------------------------------------------
(* Properties.                                                            *)

\* Whatever fails, and wherever the program is stopped, the contents of the
\* source are there: all of them under its old name or all under the new.
SourceKept == \E name \in {from, to} : fs[name].data = Blocks

\* When the program says that it has succeeded the new name has exactly the
\* contents of the source, unless cp has added them to an append-only file,
\* and only cp has left the old name.
ExitIsTrue ==
    exited = "ok" =>
        /\ fs[to].data = IF fs[to].append THEN <<"old">> \o Blocks ELSE Blocks
        /\ fs[to].append => job.prog = "cp"
        /\ fs[from].there <=> job.prog = "cp"

\* No contents are lost by mv or cp, and their exit status tells what they
\* did.
NothingLost == SourceKept /\ ExitIsTrue
=============================================================================
