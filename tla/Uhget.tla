-------------------------------- MODULE Uhget --------------------------------
(***************************************************************************)
(* cmd/uhget.c is hget for systems without TLS and factotum: its own copy *)
(* of hget.c without https: and without hhauth().  A 401 is therefore     *)
(* never the end of it by itself; the rest behaves as module Hget says,   *)
(* here by the functions of uhget.c.                                      *)
(***************************************************************************)
EXTENDS Hget

\* dohttp(): the connection and the request
UhgetRequest == Attempt \/ ConnectFails \/ EmptyReply

\* dohttp(): the response; there is no case that WWW-Authenticate: makes fatal.
UhgetAuth == Answered("auth", NoHeaders, OtherPage)
UhgetResponse ==
    \/ ServerOk \/ ServerPartial \/ ServerMoved \/ UhgetAuth \/ ServerNotModified \/ ServerRefuses

\* dohttp(): "transfer whatever you get", with output()
UhgetTransfer == Transfer \/ ConnEnds \/ Abort

\* threadmain(): what the method returned
UhgetReturn == EndHttp

\* hello(), ftprestart(), logon(), xfertype()
UhgetLogin == \E ok \in BOOLEAN : Login(ok)
UhgetRestart == \E mdtm, size, rest \in BOOLEAN : ftprestart(mdtm, size, rest)

\* passive(), active()
UhgetData == FtpData

\* ftpxferproc()
UhgetXfer == XferRead \/ XferEnds

\* doftp(): the last reply, and recvul(cwait)
UhgetJoin == (\E rv \in {"success", "tempfail", "other"} : FtpReply(rv)) \/ Join

UhgetNext ==
    \/ PageChanges \/ UhgetRequest \/ UhgetResponse \/ UhgetTransfer \/ UhgetReturn
    \/ UhgetLogin \/ UhgetRestart \/ UhgetData \/ UhgetXfer \/ UhgetJoin
=============================================================================
