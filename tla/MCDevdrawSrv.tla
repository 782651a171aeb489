---------------------------- MODULE MCDevdrawSrv ----------------------------
(***************************************************************************)
(* Instances of DevdrawSrv for TLC.                                       *)
(***************************************************************************)
EXTENDS DevdrawSrv, TLC

CONSTANTS t1, t2

MCTwoTags == {t1, t2}
MCTwoSymmetry == Permutations(MCTwoTags)

MCKbdRequests == {"init", "rdkbd"}
MCMouseRequests == {"init", "rdmouse"}
MCCalls == {"init", "rddraw", "moveto"}
MCMixed == {"init", "rdkbd", "rddraw"}

MCNoKeys == {}
MCChars == {"char"}
MCAllKeys == {"char", "alt", "ctl"}
=============================================================================
