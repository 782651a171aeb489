------------------------------ MODULE MCRamfs ------------------------------
(***************************************************************************)
(* Instances of Ramfs for TLC.                                            *)
(***************************************************************************)
EXTENDS Ramfs, TLC

CONSTANTS f1, f2

MCTwoFids == {f1, f2}
MCTwoSymmetry == Permutations(MCTwoFids)

MCUsers == {"glenda"}
MCTwoUsers == {"glenda", "rob"}
MCNames == {"file", "tmp"}

MCElems == MCNames \cup {".", ".."}
MCStepwise == {<<>>} \cup {<<n>> : n \in MCElems}
MCPaths == MCStepwise \cup {<<m, n>> : m, n \in MCElems}

MCAll == Mode(rwx, rwx, rwx)
MCOpenToAll == {MCAll}
MCSecret == {MCAll, Mode({}, {}, {})}
MCAppendExcl == {[MCAll EXCEPT !.append = TRUE], [MCAll EXCEPT !.excl = TRUE]}

OpenMode(o, t, c) == [op |-> o, trunc |-> t, rclose |-> c]
MCReadOnly == {OpenMode("read", FALSE, FALSE)}
MCRclose == {OpenMode("write", FALSE, FALSE), OpenMode("read", FALSE, TRUE)}
MCTrunc == {OpenMode("rdwr", TRUE, FALSE), OpenMode("exec", FALSE, FALSE)}

MCTreeOps == {"version", "remove", "wstat", "chmod", "dir"}
MCDataOps == {"version", "write", "wstat"}
MCNoOps == {}
=============================================================================
