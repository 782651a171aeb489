-------------------------------- MODULE Srv --------------------------------
(***************************************************************************)
(* cmd/srv.c: dials a file server, with -a proxies the authentication     *)
(* between factotum and the server's authentication file, and has 9pserve *)
(* post the connection.  The server's answers may be errors, have a wrong *)
(* type or tag, or be missing.  Bytes the server sends are numbered.      *)
(***************************************************************************)
EXTENDS Integers, Sequences

CONSTANTS
    Dialogues,  \* what factotum will go through: sequences of [is: "tell" or "ask", k: bytes]
    AuthRpcMax,
    MaxGetkey   \* bound: keys factotum asks for

ASSUME DialoguesAssumption == Dialogues \subseteq Seq([is : {"tell", "ask"}, k : Nat])
ASSUME RpcAssumption == AuthRpcMax \in Nat

VARIABLES
    srvpc,      \* what comes next; "done" and "fatal" are the ends
    doauth,     \* 1: -a, 0, -1: -n
    noafid,     \* afid is NOFID
    abuf,       \* the first n bytes of buf in xfauth_proxy()
    need,       \* atoi(rpc->arg)
    todo,       \* factotum: what is left of the dialogue
    fgot,       \* factotum: the bytes it was given
    sent,       \* server: how many bytes it has sent
    told,       \* server: messages it was given
    ntold,      \* history: messages factotum gave out
    nkeys

srvvars == <<srvpc, doauth, noafid, abuf, need, todo, fgot, sent, told, ntold, nkeys>>

SrvInit ==
    /\ srvpc = "dial" /\ doauth \in {-1, 0, 1} /\ noafid = TRUE
    /\ abuf = << >> /\ need = 0 /\ todo \in Dialogues
    /\ fgot = << >> /\ sent = 0 /\ told = 0 /\ ntold = 0 /\ nkeys = 0

Goto(where) == srvpc' = where
PeersOnly == UNCHANGED <<fgot, sent, told, ntold>>
Peers == UNCHANGED <<abuf, need, todo, nkeys>> /\ PeersOnly

\* threadmain()
Dial ==
    /\ srvpc = "dial"
    /\ Goto("fatal") \/ Goto(IF doauth > 0 THEN "version" ELSE "post")
    /\ UNCHANGED <<doauth, noafid>> /\ Peers

\* do9p(): what the caller sees of an exchange.
Rmsgs == {"R", "Rerror", "type", "tag", "eof", "lost"}
AnyReply(reply) == IF reply \in {"Rerror", "eof", "lost"} THEN "Rerror" ELSE "R"
do9p(reply) == IF reply = "R" THEN "R" ELSE "Rerror"

\* xauth(): Tversion, then Tauth; a server that wants no authentication is fine.
AuthFails == Goto("fatal")
Version ==
    /\ srvpc = "version"
    /\ \E reply \in Rmsgs : IF do9p(reply) = "R" THEN Goto("auth") ELSE Goto("fatal")
    /\ noafid' = FALSE /\ UNCHANGED doauth /\ Peers
Auth ==
    /\ srvpc = "auth"
    /\ \E reply \in Rmsgs :
          IF do9p(reply) = "R" THEN Goto("start") /\ UNCHANGED noafid
          ELSE Goto("post") /\ noafid' = TRUE
    /\ UNCHANGED doauth /\ Peers

\* dorpc(): factotum may want a key before it answers; getkey() may fail.
NeedKey ==
    /\ srvpc \in {"start", "read", "write"} /\ nkeys < MaxGetkey /\ nkeys' = nkeys + 1
    /\ UNCHANGED srvpc \/ AuthFails
    /\ UNCHANGED <<doauth, noafid, abuf, need, todo>> /\ PeersOnly
\* Any call of factotum or of malloc() may fail.
RpcFails ==
    /\ srvpc \in {"start", "read", "write"} /\ AuthFails
    /\ UNCHANGED <<doauth, noafid>> /\ Peers
RpcStart ==
    /\ srvpc = "start" /\ Goto("read")
    /\ UNCHANGED <<doauth, noafid>> /\ Peers

\* xfauth_proxy(): "read" tells who is to speak; ARok comes with data for the
\* server, which xwrite() delivers.
RpcDone ==
    /\ srvpc = "read" /\ todo = << >> /\ (Goto("post") \/ AuthFails)     \* auth_getinfo()
    /\ UNCHANGED <<doauth, noafid>> /\ Peers
Xwrite ==
    /\ srvpc = "read" /\ todo # << >> /\ Head(todo).is = "tell"
    /\ todo' = Tail(todo) /\ ntold' = ntold + 1
    /\ \E reply \in Rmsgs :
          /\ IF do9p(reply) = "R" THEN UNCHANGED srvpc ELSE AuthFails
          /\ told' = IF reply = "R" THEN told + 1 ELSE told
    /\ UNCHANGED <<doauth, noafid, abuf, need, nkeys, fgot, sent>>
RpcPhase ==
    /\ srvpc = "read" /\ todo # << >> /\ Head(todo).is = "ask"
    /\ abuf' = << >> /\ Goto("write")
    /\ UNCHANGED <<doauth, noafid, need, todo, nkeys>> /\ PeersOnly

\* ARphase: "write" is repeated with more of the server's bytes until factotum
\* has enough.
TooLarge(n) == n > AuthRpcMax
RpcTooSmall ==
    /\ srvpc = "write" /\ Len(abuf) < Head(todo).k
    /\ \E n \in (Len(abuf) + 1)..Head(todo).k :
          need' = n /\ IF TooLarge(n) THEN AuthFails ELSE Goto("xread")
    /\ UNCHANGED <<doauth, noafid, abuf, todo, nkeys>> /\ PeersOnly
RpcTaken ==
    /\ srvpc = "write" /\ Len(abuf) >= Head(todo).k
    /\ fgot' = fgot \o abuf
    /\ todo' = Tail(todo) /\ Goto("read")
    /\ UNCHANGED <<doauth, noafid, abuf, need, nkeys, sent, told, ntold>>

\* xread(buf+n, atoi(rpc->arg)-n): fewer bytes than asked for are fine, more
\* or none are not.  An answer to something else carries other bytes.
StillNeeded(n) == n - Len(abuf)
SrvBytes(from, n) == [j \in 1..n |-> from + j]
Others(n) == [j \in 1..n |-> 0]
Xread ==
    /\ srvpc = "xread"
    /\ \E reply \in Rmsgs, n \in 0..(need + 1) :
          IF do9p(reply) = "Rerror" \/ n > StillNeeded(need) \/ n = 0
          THEN AuthFails /\ UNCHANGED <<abuf, sent>>
          ELSE /\ Goto("write")
               /\ sent' = IF reply = "R" THEN sent + n ELSE sent
               /\ abuf' = abuf \o IF reply = "R" THEN SrvBytes(sent, n) ELSE Others(n)
    /\ UNCHANGED <<doauth, noafid, need, todo, nkeys, fgot, told, ntold>>

\* post9p(): waits for 9pserve to have gone into the background or failed.
Post ==
    /\ srvpc = "post" /\ (Goto("wait") \/ Goto("fatal"))
    /\ UNCHANGED <<doauth, noafid>> /\ Peers
WaitServe ==
    /\ srvpc = "wait" /\ (Goto("done") \/ Goto("fatal"))
    /\ UNCHANGED <<doauth, noafid>> /\ Peers

SrvNext ==
    \/ Dial \/ Version \/ Auth
    \/ NeedKey \/ RpcFails \/ RpcStart \/ RpcDone \/ Xwrite \/ RpcPhase
    \/ RpcTooSmall \/ RpcTaken \/ Xread
    \/ Post \/ WaitServe

SrvSpec == SrvInit /\ [][SrvNext]_srvvars

----------------------------------------------------------------------------
\* What factotum gets is what the server sent for it, byte for byte, however
\* the answers are cut: no byte is left over from one message, is missing, or
\* comes from an answer to something else, and the buffer is large enough
\* (do9p(), xread(), the loop on ARtoosmall).
ServerBytesArrive ==
    LET kept == fgot \o IF srvpc \in {"write", "xread"} THEN abuf ELSE << >>
    IN /\ \A j \in DOMAIN kept : kept[j] = j
       /\ srvpc \in {"write", "xread"} => Len(abuf) <= Head(todo).k
       /\ Len(abuf) <= AuthRpcMax

\* A connection is posted after -a only when factotum is satisfied and the
\* server was given all that factotum had for it, or when the server has no
\* authentication.
AuthBeforePost ==
    srvpc \in {"wait", "done"} /\ doauth = 1 /\ ~noafid => todo = << >> /\ told = ntold

\* A connection is posted after authentication only, and factotum has got what
\* the server sent.
PostedRight == ServerBytesArrive /\ AuthBeforePost
=============================================================================
