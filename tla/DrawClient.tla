----------------------------- MODULE DrawClient -----------------------------
(***************************************************************************)
(* libdraw/drawclient.c: threads of a program that share one connection   *)
(* to devdraw.  A call is a packet with a tag, libmux (not in this        *)
(* repository) gives out the tags, lets one of the waiting threads read   *)
(* and hands each answer to the thread that has its tag.  While a thread  *)
(* is in a call it is pinned: no other thread of its proc runs.           *)
(***************************************************************************)
EXTENDS Integers, Sequences

CONSTANTS
    Threads,
    ProcOf,     \* [Threads -> procs]
    Painters,   \* the threads, of one proc, that draw
    Tags,       \* mintag..maxtag
    MaxCalls, MaxCmds   \* bounds: calls, drawing commands

VARIABLES
    srvfd,      \* "none", "open", "eof", "failed"
    rpc,        \* [Threads -> [pc, type, id, tag, data]]
    dreply,     \* [Threads -> the packet libmux has for it, or NoPkt]
    muxer,      \* the thread that reads, or NoThread
    header,     \* it has read the length of the packet that comes next
    wire,       \* requests devdraw has not answered
    stream,     \* packets from devdraw that were not read
    pin,        \* [procs -> the thread that is pinned, or NoThread]
    dbuf,       \* Display.buf up to bufp: numbers of drawing commands
    ncmd, ncall,
    painted,    \* history: the commands sent
    result      \* history: [Threads -> [id, of, rc]] of the last call

dcvars == <<srvfd, rpc, dreply, muxer, header, wire, stream, pin, dbuf, ncmd, ncall, painted, result>>

NoThread == "none"
ASSUME ThreadAssumption == NoThread \notin Threads
\* threadpin() holds back the threads of the proc only: one proc draws.
ASSUME PainterAssumption == \A s, t \in Painters : ProcOf[s] = ProcOf[t]

DcProcs == {ProcOf[t] : t \in Threads}
NoPkt == [tag |-> 0, type |-> "none", id |-> 0]
Eof == [tag |-> 0, type |-> "eof", id |-> 0]
Idle == [pc |-> "idle", type |-> "none", id |-> 0, tag |-> 0, data |-> << >>]

DrawClientInit ==
    /\ srvfd = "none" /\ rpc = [t \in Threads |-> Idle] /\ dreply = [t \in Threads |-> NoPkt]
    /\ muxer = NoThread /\ header = FALSE /\ wire = {} /\ stream = << >>
    /\ pin = [p \in DcProcs |-> NoThread]
    /\ dbuf = << >> /\ ncmd = 0 /\ ncall = 0 /\ painted = << >>
    /\ result = [t \in Threads |-> [id |-> 0, of |-> 0, rc |-> 0]]

\* _displayconnect(): a pipe, devdraw, then its descriptor over the pipe; any
\* of them may fail.  _displaymux()
Connect ==
    /\ srvfd = "none" /\ srvfd' \in {"open", "failed"}
    /\ UNCHANGED <<rpc, dreply, muxer, header, wire, stream, pin, dbuf, ncmd, ncall, painted, result>>

\* The threads of a proc take turns; a pinned thread keeps the turn.
EveryTurn(t) == TRUE
MyTurn(t) == pin[ProcOf[t]] \in {NoThread, t}

\* displayrpc() up to muxrpc()
Rpc(t, type, data) ==
    /\ srvfd \in {"open", "eof"} /\ MyTurn(t) /\ ncall < MaxCalls
    /\ ncall' = ncall + 1
    /\ rpc' = [rpc EXCEPT ![t] = [pc |-> "send", type |-> type, id |-> ncall', tag |-> 0, data |-> data]]
    /\ pin' = [pin EXCEPT ![ProcOf[t]] = t]
    /\ UNCHANGED <<srvfd, dreply, muxer, header, wire, stream, dbuf, ncmd, painted, result>>

\* _displayinit(), _displaycursor(), _displaylabel() and so on: an answer
\* without contents.
PlainCall(t) == rpc[t].pc = "idle" /\ Rpc(t, "Tplain", << >>)
\* _displayrdmouse(), _displayrdkbd(): what is read is in the answer.
ReadCall(t) == rpc[t].pc = "idle" /\ Rpc(t, "Tread", << >>)
\* _displayrdsnarf(), _displayrddraw(): the answer is kept until it was copied.
CopyCall(t) == rpc[t].pc = "idle" /\ Rpc(t, "Tcopy", << >>)
\* _displaymoveto(): flushes afterwards.
MoveCall(t) == t \in Painters /\ rpc[t].pc = "idle" /\ Rpc(t, "Tmoveto", << >>)

\* Drawing, and flushimage() which sends the buffer with _displaywrdraw() and
\* then starts it anew (libdraw).
Paint(t) ==
    /\ t \in Painters /\ MyTurn(t) /\ rpc[t].pc = "idle" /\ ncmd < MaxCmds
    /\ ncmd' = ncmd + 1 /\ dbuf' = Append(dbuf, ncmd')
    /\ UNCHANGED <<srvfd, rpc, dreply, muxer, header, wire, stream, pin, ncall, painted, result>>
WrDraw(t) ==
    /\ t \in Painters /\ dbuf # << >> /\ rpc[t].pc \in {"idle", "flush"}
    /\ Rpc(t, "Twrdraw", dbuf)
NothingToFlush(t) ==
    /\ rpc[t].pc = "flush" /\ dbuf = << >> /\ MyTurn(t)
    /\ rpc' = [rpc EXCEPT ![t] = Idle]
    /\ UNCHANGED <<srvfd, dreply, muxer, header, wire, stream, pin, dbuf, ncmd, ncall, painted, result>>

\* muxrpc(): a free tag, drawsettag() puts it into the packet, drawsend().
drawsettag(tag) == tag
MuxSend(t) ==
    /\ rpc[t].pc = "send"
    /\ \E tag \in Tags :
          /\ \A u \in Threads : rpc[u].tag # tag
          /\ rpc' = [rpc EXCEPT ![t].pc = "wait", ![t].tag = tag]
          /\ wire' = IF srvfd = "open"
                     THEN wire \cup {[tag |-> drawsettag(tag), type |-> rpc[t].type, id |-> rpc[t].id]}
                     ELSE wire
    /\ painted' = painted \o rpc[t].data
    /\ UNCHANGED <<srvfd, dreply, muxer, header, stream, pin, dbuf, ncmd, ncall, result>>

\* devdraw answers in any order; it may go away.
RepliesTo == [Tplain |-> "Rplain", Tread |-> "Rread", Tcopy |-> "Rcopy", Tmoveto |-> "Rmoveto", Twrdraw |-> "Rwrdraw"]
Serve(req) ==
    /\ srvfd = "open" /\ wire' = wire \ {req}
    /\ \E type \in {RepliesTo[req.type], "Rerror"} : stream' = Append(stream, [req EXCEPT !.type = type])
    /\ UNCHANGED <<srvfd, rpc, dreply, muxer, header, pin, dbuf, ncmd, ncall, painted, result>>
ServerGone ==
    /\ srvfd = "open" /\ srvfd' = "eof" /\ wire' = {}
    /\ UNCHANGED <<rpc, dreply, muxer, header, stream, pin, dbuf, ncmd, ncall, painted, result>>

\* drawrecv(): one of those that wait reads the four bytes of the length, then
\* the rest of the packet; drawgettag() tells whose it is.
Waits(t) == rpc[t].pc = "wait" /\ dreply[t] = NoPkt
RecvLength(t) ==
    /\ Waits(t) /\ muxer \in {NoThread, t} /\ ~header /\ stream # << >>
    /\ muxer' = t /\ header' = TRUE
    /\ UNCHANGED <<srvfd, rpc, dreply, wire, stream, pin, dbuf, ncmd, ncall, painted, result>>
drawgettag(pkt) == pkt.tag
RecvPacket(t) ==
    /\ muxer = t /\ header
    /\ dreply' = [u \in Threads |-> IF rpc[u].pc = "wait" /\ rpc[u].tag = drawgettag(Head(stream))
                                   THEN Head(stream) ELSE dreply[u]]
    /\ stream' = Tail(stream) /\ header' = FALSE
    /\ muxer' = IF dreply'[t] = NoPkt THEN t ELSE NoThread
    /\ UNCHANGED <<srvfd, rpc, wire, pin, dbuf, ncmd, ncall, painted, result>>
RecvEof(t) ==
    /\ Waits(t) /\ muxer \in {NoThread, t} /\ ~header /\ srvfd = "eof" /\ stream = << >>
    /\ dreply' = [dreply EXCEPT ![t] = Eof] /\ muxer' = NoThread
    /\ UNCHANGED <<srvfd, rpc, header, wire, stream, pin, dbuf, ncmd, ncall, painted, result>>

\* displayrpc() after muxrpc(): no answer, an error or an answer of another
\* type is -1.
Refused(t) == dreply[t].type # RepliesTo[rpc[t].type]
RpcReturns(t) ==
    /\ rpc[t].pc = "wait" /\ dreply[t] # NoPkt
    /\ result' = [result EXCEPT ![t] = [id |-> rpc[t].id, of |-> dreply[t].id, rc |-> IF Refused(t) THEN -1 ELSE 0]]
    /\ dbuf' = IF rpc[t].type = "Twrdraw" THEN << >> ELSE dbuf
    /\ rpc' = [rpc EXCEPT ![t] = IF @.type = "Tmoveto" /\ ~Refused(t) THEN [Idle EXCEPT !.pc = "flush"] ELSE Idle]
    /\ dreply' = [dreply EXCEPT ![t] = NoPkt]
    /\ pin' = [pin EXCEPT ![ProcOf[t]] = NoThread]
    /\ UNCHANGED <<srvfd, muxer, header, wire, stream, ncmd, ncall, painted>>

DrawClientNext ==
    \/ Connect
    \/ \E t \in Threads :
          \/ PlainCall(t) \/ ReadCall(t) \/ CopyCall(t) \/ MoveCall(t)
          \/ Paint(t) \/ WrDraw(t) \/ NothingToFlush(t)
          \/ MuxSend(t) \/ RecvLength(t) \/ RecvPacket(t) \/ RecvEof(t) \/ RpcReturns(t)
    \/ \E req \in wire : Serve(req)
    \/ ServerGone

DrawClientSpec == DrawClientInit /\ [][DrawClientNext]_dcvars

----------------------------------------------------------------------------
\* A call that succeeds has the answer to its own request, also when answers
\* come in another order and another thread has read them.
OwnReply == \A t \in Threads : result[t].rc = 0 => result[t].of = result[t].id

\* Each drawing command is sent once: no two threads of the proc send the same
\* buffer, and no command put into it during a call is thrown away with those
\* that were sent.  This is what threadpin() is for (comment in displayrpc()).
PaintedOnce ==
    /\ \A a, b \in DOMAIN painted : painted[a] = painted[b] => a = b
    /\ \A c \in 1..ncmd : \E k \in DOMAIN (painted \o dbuf) : (painted \o dbuf)[k] = c

\* Threads that share the connection to devdraw do not disturb each other's
\* calls and drawing.
CallsApart == OwnReply /\ PaintedOnce
=============================================================================
