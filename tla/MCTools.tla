------------------------------ MODULE MCTools ------------------------------
(***************************************************************************)
(* Instances for TLC of the programs and of the draw client.  They share  *)
(* no state: a behaviour is one of one component, the one that "which"    *)
(* names, and the others stay as they begin.                              *)
(***************************************************************************)
EXTENDS Tar, Uhget, Partfs, MvCp, Srv, Samterm, NineTerm, DrawClient, Rc, Spawn, TLC

VARIABLE which

\* Tar: empty, short and longer files, a directory, a file with a long name, a
\* file that has become shorter since its size was taken.
TarMember(n, l, d, lg, s) == [name |-> n, len |-> l, dir |-> d, long |-> lg, shrunk |-> s]
MCMembers == {TarMember("a", 0, FALSE, FALSE, FALSE), TarMember("b", 1, FALSE, FALSE, FALSE),
              TarMember("c", 3, FALSE, FALSE, FALSE), TarMember("d", 1, TRUE, FALSE, FALSE),
              TarMember("e", 1, FALSE, TRUE, FALSE), TarMember("f", 2, FALSE, FALSE, TRUE)}
\* Partfs: parts within the disk, next to one another, and beyond its ends.
MCExtents == {<<0, 1>>, <<1, 3>>, <<2, 4>>, <<-1, 1>>}
\* MvCp: names that differ in case only.
MCSame(name) == IF name = "X" THEN "x" ELSE name
MCBlocks == <<"b1", "b2">>
\* Srv: factotum's part begins with a question or with data; the last wants
\* more than AuthRpcMax bytes.
Tell == [is |-> "tell", k |-> 1]
Ask(n) == [is |-> "ask", k |-> n]
MCDialogues == {<<Ask(2), Tell, Ask(3), Tell>>, <<Tell, Ask(3), Ask(2)>>, <<Tell, Ask(4)>>}
MCPlumbMsgs == [ndata : 0..4, nl : BOOLEAN, addr : -1..3, act : BOOLEAN]
\* NineTerm: more than the echo buffer holds, and an interrupt.
MCTexts == {<<"a">>, <<"b">>, <<"a", "b", "nl">>, <<"a", "intr">>}
MCOutputs == {<<"a">>, <<"b">>, <<"cr", "nl">>, <<"bs", "sp", "bs">>}
\* DrawClient: a proc of its own reads the keyboard.
MCProcOf == [t \in Threads |-> IF t = "k" THEN "kbd" ELSE "main"]

\* Spawn: numbers that differ, one number twice, an exec; and a second caller.
MCCalls ==
    "s1" :> {[fd |-> <<3, 4>>, from |-> "spawn"], [fd |-> <<3, 3>>, from |-> "spawn"],
             [fd |-> <<3, 4>>, from |-> "exec"]}
    @@ "s2" :> {[fd |-> <<-1>>, from |-> "spawn"]}

\* Only the component that runs begins in each of its initial states.
ToolsInit ==
    /\ which \in {"tar", "hget", "uhget", "partfs", "mvcp", "srv", "samterm", "9term", "draw", "rc",
                  "spawn"}
    /\ TarInit /\ PartfsInit /\ NineTermInit /\ DrawClientInit /\ RcInit
    /\ SpawnInit
    /\ which # "spawn" => \A n \in FdNums : tab[n].kind = "file"
    /\ HgetInit
    /\ which \notin {"hget", "uhget"} => scheme = "http" /\ ~ofile /\ mtime = 0 /\ ~tags
    /\ MvInit
    /\ which # "mvcp" => job.prog = "mv" /\ job.from = <<"d", "x">> /\ job.to = <<"d", "x">>
    /\ SrvInit
    /\ which # "srv" => doauth = 0 /\ todo = <<Tell, Ask(4)>>
    /\ SamtermInit
    /\ which # "samterm" => spc["extproc"] = "off" /\ spc["plumbproc"] = "off"

ToolsNext ==
    /\ UNCHANGED which
    /\ \/ which = "tar" /\ TarNext
          /\ UNCHANGED <<hvars, pvars, mvvars, srvvars, stvars, termvars, dcvars, rcvars, spvars>>
       \/ which = "hget" /\ HgetNext
          /\ UNCHANGED <<tarvars, pvars, mvvars, srvvars, stvars, termvars, dcvars, rcvars, spvars>>
       \/ which = "uhget" /\ UhgetNext
          /\ UNCHANGED <<tarvars, pvars, mvvars, srvvars, stvars, termvars, dcvars, rcvars, spvars>>
       \/ which = "partfs" /\ PartfsNext
          /\ UNCHANGED <<tarvars, hvars, mvvars, srvvars, stvars, termvars, dcvars, rcvars, spvars>>
       \/ which = "mvcp" /\ MvNext
          /\ UNCHANGED <<tarvars, hvars, pvars, srvvars, stvars, termvars, dcvars, rcvars, spvars>>
       \/ which = "srv" /\ SrvNext
          /\ UNCHANGED <<tarvars, hvars, pvars, mvvars, stvars, termvars, dcvars, rcvars, spvars>>
       \/ which = "samterm" /\ SamtermNext
          /\ UNCHANGED <<tarvars, hvars, pvars, mvvars, srvvars, termvars, dcvars, rcvars, spvars>>
       \/ which = "9term" /\ NineTermNext
          /\ UNCHANGED <<tarvars, hvars, pvars, mvvars, srvvars, stvars, dcvars, rcvars, spvars>>
       \/ which = "draw" /\ DrawClientNext
          /\ UNCHANGED <<tarvars, hvars, pvars, mvvars, srvvars, stvars, termvars, rcvars, spvars>>
       \/ which = "rc" /\ RcNext
          /\ UNCHANGED <<tarvars, hvars, pvars, mvvars, srvvars, stvars, termvars, dcvars, spvars>>
       \/ which = "spawn" /\ SpawnNext
          /\ UNCHANGED <<tarvars, hvars, pvars, mvvars, srvvars, stvars, termvars, dcvars, rcvars>>

ToolsSpec ==
    ToolsInit /\ [][ToolsNext]_<<which, tarvars, hvars, pvars, mvvars, srvvars, stvars, termvars, dcvars, rcvars, spvars>>
=============================================================================
