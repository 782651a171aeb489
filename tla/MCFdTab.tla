------------------------------ MODULE MCFdTab ------------------------------
(***************************************************************************)
(* Instances of FdTab for TLC.                                            *)
(***************************************************************************)
EXTENDS FdTab, TLC

CONSTANTS t1, t2, f1, f2, f3, f4

MCThreads == {t1, t2}
MCBoth == {t1, t2}
MCMainOnly == {t1}
MCFewFds == {f1, f2, f3, f4}
MCPipes == {"pipecl", "none"}
MCAllCalls == {"close", "dup", "dup2", "io", "onclose", "send"}
MCAllGive == MCAllCalls \cup {"give"}
MCThreeFds == {f1, f2, f3}
MCThreeSymmetry == Permutations(MCThreeFds)
MCFewSymmetry == Permutations(MCFewFds)
=============================================================================
