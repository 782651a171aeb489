------------------------------ MODULE Samterm ------------------------------
(***************************************************************************)
(* cmd/samterm/plan9.c: a proc reads what the host, sam, sends and        *)
(* another what the plumber or other programs send; each has two buffers, *)
(* fills them in turn and gives the number of the full one to the main    *)
(* thread over a channel without a buffer, so that send() returns when    *)
(* the main thread has received.  The main thread (samterm's io.c, not in *)
(* this repository) uses a buffer until it receives from the channel      *)
(* again.                                                                 *)
(***************************************************************************)
EXTENDS Integers, Sequences

CONSTANTS
    READBUFSIZE,
    PlumbMsgs,  \* [ndata, nl: data end in a newline, addr: its length or -1, act: action is nil or showfile]
    MaxMsgs     \* bound: messages a proc reads

ASSUME SizeAssumption == READBUFSIZE \in Nat
ASSUME PlumbAssumption == PlumbMsgs \subseteq [ndata : Nat, nl : BOOLEAN, addr : Int, act : BOOLEAN]

Bufs == {"host", "plumb"}           \* hostbuf with hostc, plumbbuf with plumbc
Procs == {"hostproc", "extproc", "plumbproc"}
BufOf == [p \in Procs |-> IF p = "hostproc" THEN "host" ELSE "plumb"]

VARIABLES
    sbuf,       \* [Bufs -> [0..1 -> number of the message in it; 0: none]]
    turn,       \* [Procs -> 0..1]
    spc,        \* [Procs -> "off", "read", "send", "exited"]
    extfd,      \* extproc is connected
    inuse,      \* [Bufs -> the buffer the main thread is reading, or -1]
    samexit,    \* "", "host", "listen": how the program ended
    exiting,    \* the flag of the main thread
    nmsg,       \* history: [Bufs -> messages that were sent]
    taken,      \* history: [Bufs -> the messages the main thread received]
    gap,        \* history: extproc lost a connection since its last send
    touched     \* history: the bytes of plumbbuf the last plumbformat() wrote

stvars == <<sbuf, turn, spc, extfd, inuse, samexit, exiting, nmsg, taken, gap, touched>>

\* hoststart(); plumbstart(), or extstart() if there is no plumber, or neither.
SamtermInit ==
    /\ sbuf = [b \in Bufs |-> [n \in 0..1 |-> 0]] /\ turn = [p \in Procs |-> 0]
    /\ \E on \in SUBSET {"extproc", "plumbproc"} :
          /\ on # {"extproc", "plumbproc"}
          /\ spc = [p \in Procs |-> IF p \in on \cup {"hostproc"} THEN "read" ELSE "off"]
    /\ extfd = FALSE /\ inuse = [b \in Bufs |-> -1] /\ samexit = "" /\ exiting = FALSE
    /\ nmsg = [b \in Bufs |-> 0] /\ taken = [b \in Bufs |-> << >>] /\ gap = FALSE /\ touched = 0

Running(p, where) == samexit = "" /\ spc[p] = where
NotToggled(p) == turn[p]
Toggled(p) == 1 - turn[p]

\* The proc has read a message into buffer k and is about to send its number.
Fills(p, k) ==
    /\ nmsg[BufOf[p]] < MaxMsgs
    /\ nmsg' = [nmsg EXCEPT ![BufOf[p]] = @ + 1]
    /\ sbuf' = [sbuf EXCEPT ![BufOf[p]][k] = nmsg'[BufOf[p]]]
    /\ turn' = [turn EXCEPT ![p] = k]
    /\ spc' = [spc EXCEPT ![p] = "send"]

\* hostproc(): toggle, then read; an end that is not expected ends the program.
HostRead ==
    /\ Running("hostproc", "read") /\ Fills("hostproc", Toggled("hostproc"))
    /\ UNCHANGED <<extfd, inuse, samexit, exiting, taken, gap, touched>>
HostEnd ==
    /\ Running("hostproc", "read")
    /\ \/ exiting /\ spc' = [spc EXCEPT !["hostproc"] = "exited"] /\ UNCHANGED samexit
       \/ samexit' = "host" /\ UNCHANGED spc
    /\ UNCHANGED <<sbuf, turn, extfd, inuse, exiting, nmsg, taken, gap, touched>>

\* extproc(): toggles each time round, also after a read that failed.
ExtListen ==
    /\ Running("extproc", "read") /\ ~extfd
    /\ \/ extfd' = TRUE /\ UNCHANGED samexit
       \/ samexit' = "listen" /\ UNCHANGED extfd
    /\ UNCHANGED <<sbuf, turn, spc, inuse, exiting, nmsg, taken, gap, touched>>
ExtRead ==
    /\ Running("extproc", "read") /\ extfd
    /\ Fills("extproc", Toggled("extproc"))
    /\ UNCHANGED <<extfd, inuse, samexit, exiting, taken, gap, touched>>
ExtEof ==
    /\ Running("extproc", "read") /\ extfd
    /\ extfd' = FALSE /\ turn' = [turn EXCEPT !["extproc"] = Toggled("extproc")] /\ gap' = TRUE
    /\ UNCHANGED <<sbuf, spc, inuse, samexit, exiting, nmsg, taken, touched>>

\* plumbformat(): the length of what it puts in the buffer, and the bytes it
\* writes, sprint()'s closing zero among them; <<0, 0>> if it refuses.
RoomForAddr(n, addr) == n + addr + 1 + 1 <= READBUFSIZE
plumbformat(m) ==
    LET n == 2 + m.ndata + (IF m.nl THEN 0 ELSE 1)
    IN IF m.ndata = 0 \/ 2 + m.ndata + 2 >= READBUFSIZE \/ ~m.act THEN <<0, 0>>
       ELSE IF m.addr > 0 /\ RoomForAddr(n, m.addr) THEN <<n + m.addr + 1, n + m.addr + 2>>
       ELSE <<n, n>>

\* plumbproc(): the buffer is changed only after a send.
PlumbRecv ==
    /\ Running("plumbproc", "read")
    /\ \E m \in PlumbMsgs :
          IF plumbformat(m)[1] > 0
          THEN Fills("plumbproc", turn["plumbproc"]) /\ touched' = plumbformat(m)[2]
          ELSE UNCHANGED <<sbuf, turn, spc, nmsg, touched>>
    /\ UNCHANGED <<extfd, inuse, samexit, exiting, taken, gap>>
PlumbError ==
    /\ Running("plumbproc", "read") /\ spc' = [spc EXCEPT !["plumbproc"] = "exited"]
    /\ UNCHANGED <<sbuf, turn, extfd, inuse, samexit, exiting, nmsg, taken, gap, touched>>

\* The channel has no buffer: the receiver takes the number when it is ready
\* for it, and only then the sender goes on.
Receive(p) ==
    LET b == BufOf[p]
    IN /\ Running(p, "send") /\ inuse[b] = -1
       /\ inuse' = [inuse EXCEPT ![b] = turn[p]]
       /\ taken' = [taken EXCEPT ![b] = Append(@, sbuf[b][turn[p]])]
       /\ spc' = [spc EXCEPT ![p] = "read"]
       /\ turn' = IF p = "plumbproc" THEN [turn EXCEPT ![p] = Toggled(p)] ELSE turn
       /\ gap' = (gap /\ b = "host")
       /\ UNCHANGED <<sbuf, extfd, samexit, exiting, nmsg, touched>>
UsedUp(b) ==
    /\ samexit = "" /\ inuse[b] # -1 /\ inuse' = [inuse EXCEPT ![b] = -1]
    /\ UNCHANGED <<sbuf, turn, spc, extfd, samexit, exiting, nmsg, taken, gap, touched>>
UserExits ==
    /\ samexit = "" /\ ~exiting /\ exiting' = TRUE
    /\ UNCHANGED <<sbuf, turn, spc, extfd, inuse, samexit, nmsg, taken, gap, touched>>

SamtermNext ==
    \/ HostRead \/ HostEnd
    \/ ExtListen \/ ExtRead \/ ExtEof
    \/ PlumbRecv \/ PlumbError
    \/ \E p \in Procs : Receive(p)
    \/ \E b \in Bufs : UsedUp(b)
    \/ UserExits

SamtermSpec == SamtermInit /\ [][SamtermNext]_stvars

----------------------------------------------------------------------------
\* While the main thread reads a buffer, the message in it stays the one that
\* was sent: no proc reads into it.  extproc() breaks this after the end of a
\* connection only, as it changes the buffer also when it has sent nothing.
BufferStays ==
    \A b \in Bufs : inuse[b] # -1 =>
       \/ sbuf[b][inuse[b]] = taken[b][Len(taken[b])]
       \/ b = "plumb" /\ spc["extproc"] # "off" /\ gap

\* plumbformat() stays within its buffer.
PlumbFits == touched <= READBUFSIZE

\* The buffer in use is not written, and no buffer is written beyond its end.
BuffersOK == BufferStays /\ PlumbFits
=============================================================================
