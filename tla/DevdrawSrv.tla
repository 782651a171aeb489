----------------------------- MODULE DevdrawSrv -----------------------------
(***************************************************************************)
(* The server of the window system protocol (cmd/devdraw/w32/srv.c) with  *)
(* the proc of its window (screen.c) and the keyboard translation         *)
(* (itrans.c).                                                            *)
(*                                                                        *)
(* The threads of srv.c share one proc and give way only in recv(), in    *)
(* ioread() and in iowrite(); what one does between two of them is one    *)
(* step, except that the reader runs its messages one per step (no other  *)
(* thread acts meanwhile).  The window is a proc of its own and acts at   *)
(* any time, as does the client.  A message is in fdin, and a reply has   *)
(* reached the client, once its last byte has; the room that replies take *)
(* in fdout is counted in cells.                                          *)
(***************************************************************************)
EXTENDS Integers, Sequences, FiniteSets, FiniteSetsExt

CONSTANTS
    Tags,       \* the tags the client uses
    Requests,   \* the types of request it makes
    Keys,       \* the kinds of key that are hit
    Nring,      \* nelem(kbd.r) and nelem(mouse.m), 32
    Ntags,      \* nelem(kbdtags.t) and nelem(mousetags.t), 32
    Nchan,      \* the capacity of ckbd and cmouse, 32
    MAXWMSG,    \* cells in the largest message
    Big,        \* cells in the reply to a rddraw or rdsnarf
    Window,     \* bound: cells of replies the client waits for at a time
    MaxReads,   \* bound: reads of the keyboard (mouse) it waits for
    MaxKeys,    \* bound: characters typed
    MaxMoves,   \* bound: mouse events
    MaxSizes    \* bound: changes of the window's size

\* The requests that are answered at once: all but the reads of events.
Reads == {"rdkbd", "rdmouse"}
Sync  == {"init", "moveto", "cursor", "bouncemouse", "label", "rdsnarf", "wrsnarf",
          "rddraw", "wrdraw", "top", "resize"}

ASSUME RequestsAssumption == Requests \subseteq Reads \cup Sync
ASSUME TagsAssumption == IsFiniteSet(Tags)
ASSUME KeysAssumption == Keys \subseteq {"char", "alt", "ctl"}
ASSUME SizesAssumption == {Nring, Ntags, Nchan, MAXWMSG, Big, MaxReads} \subseteq Nat \ {0}
ASSUME RingAssumption == Nring > 1
ASSUME BoundsAssumption == {Window, MaxKeys, MaxMoves, MaxSizes} \subseteq Nat

VARIABLES
    status,     \* of the process: up, exited, fatal
    reader,     \* where the main thread is
    writer,     \* where writethread() is; cells given to or written by iowrite()
    win,        \* where the window's proc is
    gscreen,    \* there is a screen image
    ckbd,       \* the channels from the window's proc
    cmouse,
    kbd,        \* Kbdbuf
    mouse,      \* Mousebuf
    mresized,
    kbdtags,    \* Tagbufs
    mousetags,
    alting,     \* utoplan9latin1(): -1, or the first character after Alt (0: none yet)
    wasctl,     \* kbdputc()
    fdin,       \* messages read and not yet run
    fdout,      \* the cells from fdout.buf to fdout.wp
    rp,         \* fdout.rp: how many of them are written
    pipe,       \* messages the client has sent
    out,        \* the client's requests: a type, or "free", for each tag
    hist        \* what happened: typed and moved count the events, key and move
                \* are the last ones the client got, sized counts changes of
                \* size, owed is TRUE when one has not been announced,
                \* queued holds the characters in kbd that no reply carried

evvars == <<ckbd, cmouse, alting, wasctl>>
vars == <<status, reader, writer, win, gscreen, evvars, kbd, mouse, mresized, kbdtags,
          mousetags, fdin, fdout, rp, pipe, out, hist>>

-----------------------------------------------------------------------------
(* Rings.                                                                 *)

Index(n) == 0..(n - 1)
Ring(n) == [b |-> [i \in Index(n) |-> 0], ri |-> 0, wi |-> 0, stall |-> FALSE]

\* One value more, k values less; ri = wi means empty, even if it is full.
\* A place that has been read is not read again before it is written: 0.
Put(q, n, v) == [q EXCEPT !.b[q.wi] = v, !.wi = (q.wi + 1) % n]
Waiting(q, n) == (q.wi - q.ri) % n
Item(q, n, k) == q.b[(q.ri + k - 1) % n]
SkipNothing(q, n, k) == q
Skip(q, n, k) == [q EXCEPT !.ri = (q.ri + k) % n,
                           !.b = [i \in Index(n) |-> IF (i - q.ri) % n < k THEN 0 ELSE @[i]]]

Init ==
    /\ status = "up" /\ reader = "check" /\ win = "none"
    /\ writer = [at |-> "start", n |-> 0]
    /\ gscreen = FALSE /\ mresized = FALSE /\ wasctl = FALSE /\ alting = -1
    /\ ckbd = <<>> /\ cmouse = <<>> /\ fdin = <<>> /\ fdout = <<>> /\ pipe = <<>>
    /\ kbd = Ring(Nring) /\ mouse = Ring(Nring)
    /\ kbdtags = Ring(Ntags) /\ mousetags = Ring(Ntags)
    /\ rp = 0
    /\ out = [t \in Tags |-> "free"]
    /\ hist = [typed |-> 0, moved |-> 0, key |-> 0, move |-> 0, sized |-> 0,
               owed |-> FALSE, queued |-> {}]

-----------------------------------------------------------------------------
(* replymsg(), and the two functions that match reads with events.        *)

Reply(ty, tag, v) == [type |-> ty, tag |-> tag, val |-> v]
ReplySize(ty) == IF ty \in {"rddraw", "rdsnarf"} THEN Big ELSE 1

\* The reply in cells; the last one stands for all of it.
Cells(r) == [i \in 1..ReplySize(r.type) |->
                IF i = ReplySize(r.type) THEN r ELSE Reply("part", r.tag, 0)]

\* nbsendul(cwaitmore, 1): wakes the writer only if it waits already.
Woken(w) == IF w.at = "waitmore" THEN [w EXCEPT !.at = "start"] ELSE w

\* The cells are added; the writer is told.  Nothing is added if cs = <<>>.
replymsg(cs) ==
    IF Len(fdout) + Len(cs) > 2 * MAXWMSG
    THEN status' = "fatal" /\ UNCHANGED <<fdout, writer>>
    ELSE /\ fdout' = fdout \o cs
         /\ writer' = IF cs = <<>> THEN writer ELSE Woken(writer)
         /\ UNCHANGED status

\* The number of pairs that matchkbd() makes of k and tg.
MatchesButLast(k, tg) ==
    IF k.stall THEN 0 ELSE Min({Max({0, Waiting(k, Nring) - 1}), Waiting(tg, Ntags)})
Matches(k, tg) == IF k.stall THEN 0 ELSE Min({Waiting(k, Nring), Waiting(tg, Ntags)})

\* matchkbd() on the new contents k and tg of kbd and kbdtags, more being the
\* character that has just come.
matchkbd(k, tg, more) ==
    LET n == Matches(k, tg)
        replied == {Item(k, Nring, j) : j \in 1..n}
    IN  /\ kbd' = Skip(k, Nring, n)
        /\ kbdtags' = Skip(tg, Ntags, n)
        /\ replymsg([j \in 1..n |-> Reply("rdkbd", Item(tg, Ntags, j), Item(k, Nring, j))])
        /\ hist' = [hist EXCEPT !.queued = (@ \cup more) \ replied]

\* A change of the size whose store falls between the two uses of mresized:
\* the client is not told of it.
Torn == /\ win = "idle" /\ hist.sized < MaxSizes
        /\ win' = "size"

\* matchmouse() on m and tg: the first reply carries mresized.
matchmouse(m, tg) ==
    LET n == Min({Waiting(m, Nring), Waiting(tg, Ntags)})
        ty(j) == IF j = 1 /\ mresized THEN "resized" ELSE "rdmouse"
    IN  /\ mouse' = Skip(m, Nring, n)
        /\ mousetags' = Skip(tg, Ntags, n)
        /\ replymsg([j \in 1..n |-> Reply(ty(j), Item(tg, Ntags, j), Item(m, Nring, j))])
        /\ mresized' = (mresized /\ n = 0)
        /\ \/ /\ UNCHANGED win
              /\ hist' = [hist EXCEPT !.owed = @ /\ (n = 0 \/ ~mresized)]
           \/ /\ n > 0 /\ Torn
              /\ hist' = [hist EXCEPT !.owed = FALSE, !.sized = @ + 1]

-----------------------------------------------------------------------------
(* kbdthread() and mousethread().                                         *)

\* No thread of the server's proc is in the middle of its step.
CpuFree == reader # "run"

\* utoplan9kbd(c): the character it returns (0 for -1) and its new state.
\* _latin1() may take the characters since Alt for one, want more of them or
\* know none such; then the first one is returned and the others are lost.
utoplan9kbd(c) ==
    CASE c = 0 -> {<<0, IF alting = -1 THEN 0 ELSE -1>>}
      [] c # 0 /\ alting = -1 -> {<<c, -1>>}
      [] OTHER -> LET first == IF alting = 0 THEN c ELSE alting
                  IN  {<<c, -1>>, <<first, -1>>, <<0, first>>}

\* The ring is full now: ri = wi.
Stalls(k) == [k EXCEPT !.stall = (k.ri = k.wi)]

kbdthread ==
    /\ CpuFree /\ ckbd # <<>>
    /\ ckbd' = Tail(ckbd)
    /\ IF kbd.stall
       THEN UNCHANGED <<status, writer, alting, kbd, kbdtags, fdout, hist>>
       ELSE \E u \in utoplan9kbd(Head(ckbd)) :
            /\ alting' = u[2]
            /\ IF u[1] = 0
               THEN UNCHANGED <<status, writer, kbd, kbdtags, fdout, hist>>
               ELSE matchkbd(Stalls(Put(kbd, Nring, u[1])), kbdtags, {u[1]})
    /\ UNCHANGED <<reader, win, gscreen, cmouse, wasctl, mouse, mresized, mousetags, fdin, rp,
                   pipe, out>>

\* A full ring keeps the latest event only.
DropsAll(m, e) == IF m.ri = m.wi THEN [m EXCEPT !.stall = TRUE] ELSE m
KeepsLatest(m, e) ==
    IF m.ri = m.wi THEN [Put(Ring(Nring), Nring, e) EXCEPT !.stall = TRUE] ELSE m

mousethread ==
    /\ CpuFree /\ cmouse # <<>>
    /\ cmouse' = Tail(cmouse)
    /\ IF mouse.stall
       THEN UNCHANGED <<status, writer, win, mouse, mousetags, mresized, fdout, hist>>
       ELSE matchmouse(KeepsLatest(Put(mouse, Nring, Head(cmouse)), Head(cmouse)), mousetags)
    /\ UNCHANGED <<reader, gscreen, ckbd, alting, wasctl, kbd, kbdtags, fdin, rp, pipe, out>>

-----------------------------------------------------------------------------
(* The main thread: reads messages and runs them.                         *)

\* while(fdout.wp > fdout.buf+MAXWMSG) recvul(cnotew)
NeverTooMuch == FALSE
TooMuch == Len(fdout) > MAXWMSG

ReaderUnchanged == UNCHANGED <<status, win, gscreen, evvars, kbd, mouse, mresized, kbdtags,
                               mousetags, fdout, rp, out, hist>>

Check == /\ reader = "check"
         /\ reader' = IF TooMuch THEN "notew" ELSE "reading"
         /\ ReaderUnchanged /\ UNCHANGED <<writer, fdin, pipe>>

\* ioread() returns.  The bytes it got complete k messages, none maybe.
ioread(k) == /\ reader = "reading" /\ k <= Len(pipe)
             /\ fdin' = fdin \o SubSeq(pipe, 1, k)
             /\ pipe' = SubSeq(pipe, k + 1, Len(pipe))
             /\ reader' = "run"
             /\ ReaderUnchanged /\ UNCHANGED writer

\* n == 0: the client has hung up.
Eof == /\ reader = "reading" /\ pipe = <<>>
       /\ status' = "exited"
       /\ UNCHANGED <<reader, writer, win, gscreen, evvars, kbd, mouse, mresized, kbdtags,
                      mousetags, fdin, fdout, rp, pipe, out, hist>>

\* No complete message is left: fdslide(&fdin).
Slide == /\ reader = "run" /\ fdin = <<>>
         /\ reader' = "check"
         /\ ReaderUnchanged /\ UNCHANGED <<writer, fdin, pipe>>

\* runmsg() for the next message.
Runs(ty) == reader = "run" /\ fdin # <<>> /\ Head(fdin).type = ty
Full(tg) == tg.ri = tg.wi

KbdUnstalled(k) == [k EXCEPT !.stall = FALSE]

Trdkbd ==
    /\ Runs("rdkbd")
    /\ fdin' = Tail(fdin)
    /\ LET tg == Put(kbdtags, Ntags, Head(fdin).tag) IN
        IF Full(tg)
        THEN status' = "fatal" /\ UNCHANGED <<writer, kbd, kbdtags, fdout, hist>>
        ELSE matchkbd(KbdUnstalled(kbd), tg, {})
    /\ UNCHANGED <<reader, win, gscreen, evvars, mouse, mresized, mousetags, rp, pipe, out>>

Trdmouse ==
    /\ Runs("rdmouse")
    /\ fdin' = Tail(fdin)
    /\ LET tg == Put(mousetags, Ntags, Head(fdin).tag) IN
        IF Full(tg)
        THEN status' = "fatal" /\ UNCHANGED <<writer, win, mouse, mousetags, mresized, fdout, hist>>
        ELSE matchmouse([mouse EXCEPT !.stall = FALSE], tg)
    /\ UNCHANGED <<reader, gscreen, evvars, kbd, kbdtags, rp, pipe, out>>

\* All the others but Tinit: replymsg(m), or replyerror(m) if drawing fails.
Tother(ty) ==
    /\ ty \in Sync \ {"init"} /\ Runs(ty)
    /\ fdin' = Tail(fdin)
    /\ \E r \in {ty} \cup (IF ty \in {"rddraw", "wrdraw"} THEN {"error"} ELSE {}) :
        replymsg(Cells(Reply(r, Head(fdin).tag, 0)))
    /\ UNCHANGED <<reader, win, gscreen, evvars, kbd, mouse, mresized, kbdtags, mousetags, rp,
                   pipe, out, hist>>

AttachUnchanged == UNCHANGED <<evvars, kbd, mouse, mresized, kbdtags, mousetags, rp, pipe, out,
                               hist>>

\* Tinit: _xattach() starts the window's proc and waits for it on csync ...
Tinit == /\ Runs("init")
         /\ win' = "creating"
         /\ reader' = "attach"
         /\ AttachUnchanged /\ UNCHANGED <<status, writer, gscreen, fdin, fdout>>

\* ... makes the screen image when the window is there ...
mkgscreen == /\ reader = "attach" /\ win = "created"
             /\ gscreen' = TRUE
             /\ reader' = "screen"
             /\ AttachUnchanged /\ UNCHANGED <<status, writer, win, fdin, fdout>>

\* ... and replies when it is shown.
Attached == /\ reader = "screen" /\ win = "shown"
            /\ win' = "idle"
            /\ fdin' = Tail(fdin)
            /\ replymsg(Cells(Reply("init", Head(fdin).tag, 0)))
            /\ reader' = "run"
            /\ AttachUnchanged /\ UNCHANGED gscreen

-----------------------------------------------------------------------------
(* writethread().                                                         *)

WriterUnchanged == UNCHANGED <<status, win, gscreen, evvars, kbd, mouse, mresized, kbdtags,
                               mousetags, fdin, pipe>>

\* There is something to write: iowrite() of all of it is started ...
iowrite == /\ CpuFree /\ writer.at = "start" /\ rp < Len(fdout)
           /\ writer' = [at |-> "writing", n |-> Len(fdout) - rp]
           /\ WriterUnchanged /\ UNCHANGED <<reader, fdout, rp, out, hist>>

\* ... k of the cells reach the client, which knows a reply by its tag ...
Written(k) ==
    /\ writer.at = "writing" /\ k <= writer.n
    /\ writer' = [at |-> "written", n |-> k]
    /\ LET sent == {i \in (rp + 1)..(rp + k) : fdout[i].type # "part"}
           last(tys, v) == Max({v} \cup {fdout[i].val : i \in {j \in sent : fdout[j].type \in tys}})
       IN  /\ out' = [t \in Tags |-> IF \E i \in sent : fdout[i].tag = t THEN "free" ELSE out[t]]
           /\ hist' = [hist EXCEPT !.key = last({"rdkbd"}, @),
                                   !.move = last({"rdmouse", "resized"}, @)]
    /\ WriterUnchanged /\ UNCHANGED <<reader, fdout, rp>>

\* ... and the thread goes on.
WriteMore == /\ CpuFree /\ writer.at = "written"
             /\ rp' = rp + writer.n
             /\ writer' = [at |-> "start", n |-> 0]
             /\ WriterUnchanged /\ UNCHANGED <<reader, fdout, out, hist>>

\* All is written: fdslide(), nbsendul(cnotew), recvul(cwaitmore).
NeverNoted == reader
Noted == IF reader = "notew" THEN "check" ELSE reader

WaitMore == /\ CpuFree /\ writer.at = "start" /\ rp = Len(fdout)
            /\ fdout' = <<>> /\ rp' = 0
            /\ reader' = Noted
            /\ writer' = [at |-> "waitmore", n |-> 0]
            /\ WriterUnchanged /\ UNCHANGED <<out, hist>>

-----------------------------------------------------------------------------
(* The window's proc.                                                     *)

WinUnchanged == UNCHANGED <<status, reader, writer, kbd, mouse, kbdtags, mousetags, alting,
                            fdin, fdout, rp, pipe, out>>

\* winproc(): the window is created; its proc waits for the screen image
\* before the window is shown.
DoesNotWait == win = "created"
ScreenIsThere == win = "created" /\ reader = "screen"

CreateWindow == /\ win = "creating" /\ win' = "created"
                /\ WinUnchanged /\ UNCHANGED <<gscreen, ckbd, cmouse, mresized, wasctl, hist>>
ShowWindow == /\ ScreenIsThere
              /\ win' = "showing"
              /\ WinUnchanged /\ UNCHANGED <<gscreen, ckbd, cmouse, mresized, wasctl, hist>>
Shown == /\ win = "showing" /\ win' = "shown"
         /\ WinUnchanged /\ UNCHANGED <<gscreen, ckbd, cmouse, mresized, wasctl, hist>>

\* kbdputc(): Ctrl is not sent, and neither is the Alt that follows it
\* (AltGr).  0 stands for Kalt.  A full channel blocks the window's proc.
kbdputc(k) ==
    /\ win = "idle" /\ Len(ckbd) < Nchan /\ hist.typed < MaxKeys
    /\ wasctl' = (k = "ctl")
    /\ LET c == hist.typed + 1 IN
        ckbd' = CASE k = "ctl" -> ckbd
                  [] k = "alt" -> IF wasctl THEN ckbd ELSE Append(ckbd, 0)
                  [] OTHER -> Append(ckbd, c)
    /\ hist' = [hist EXCEPT !.typed = @ + 1]
    /\ WinUnchanged /\ UNCHANGED <<win, gscreen, cmouse, mresized>>

\* WM_MOUSEMOVE and its like.
MouseMove == /\ win = "idle" /\ Len(cmouse) < Nchan /\ hist.moved < MaxMoves
             /\ cmouse' = Append(cmouse, hist.moved + 1)
             /\ hist' = [hist EXCEPT !.moved = @ + 1]
             /\ WinUnchanged /\ UNCHANGED <<win, gscreen, ckbd, mresized, wasctl>>

\* WM_SIZE: the flag, then the new image, then the latest event once more.
WindowSize == /\ win \in {"showing", "idle"} /\ hist.sized < MaxSizes
              /\ win' = "size"
              /\ mresized' = TRUE
              /\ hist' = [hist EXCEPT !.sized = @ + 1, !.owed = TRUE]
              /\ WinUnchanged /\ UNCHANGED <<gscreen, ckbd, cmouse, wasctl>>

SizeSent == /\ win = "size" /\ Len(cmouse) < Nchan
            /\ cmouse' = Append(cmouse, hist.moved)
            /\ win' = IF reader = "screen" THEN "showing" ELSE "idle"
            /\ WinUnchanged /\ UNCHANGED <<gscreen, ckbd, mresized, wasctl, hist>>

\* WM_CLOSE, WM_DESTROY: threadexitsall().
CloseWindow == /\ win = "idle"
               /\ status' = "exited"
               /\ UNCHANGED <<reader, writer, win, gscreen, evvars, kbd, mouse, mresized, kbdtags,
                              mousetags, fdin, fdout, rp, pipe, out, hist>>

-----------------------------------------------------------------------------
(* The client (libdraw/drawclient.c): Tinit first, then requests with     *)
(* tags that are not in use.                                              *)

Outstanding(tys) == {t \in Tags : out[t] \in tys}
Load == Cardinality(Outstanding(Reads \cup Sync))
        + (Big - 1) * Cardinality(Outstanding({"rddraw", "rdsnarf"}))

Send(ty, t) ==
    /\ out[t] = "free"
    /\ IF gscreen THEN ty \in Requests \ {"init"}
                  ELSE ty = "init" /\ Outstanding({"init"}) = {}
    /\ Load + ReplySize(ty) <= Window
    /\ ty \in Reads => Cardinality(Outstanding({ty})) < MaxReads
    /\ out' = [out EXCEPT ![t] = ty]
    /\ pipe' = Append(pipe, [type |-> ty, tag |-> t])
    /\ UNCHANGED <<status, reader, writer, win, gscreen, evvars, kbd, mouse, mresized, kbdtags,
                   mousetags, fdin, fdout, rp, hist>>

-----------------------------------------------------------------------------
Client == \E ty \in Requests, t \in Tags : Send(ty, t)
Read   == \E k \in 0..Len(pipe) : pipe # <<>> /\ ioread(k)
Run    == Trdkbd \/ Trdmouse \/ (\E ty \in Sync : Tother(ty)) \/ Tinit \/ Slide
Attach == mkgscreen \/ Attached
Write  == iowrite \/ (\E k \in 1..writer.n : Written(k)) \/ WriteMore \/ WaitMore
Starts == CreateWindow \/ ShowWindow \/ Shown
Events == (\E k \in Keys : kbdputc(k)) \/ MouseMove \/ WindowSize

Next == \/ /\ status = "up"
           /\ \/ Client \/ Check \/ Read \/ Eof \/ Run \/ Attach \/ Write
              \/ kbdthread \/ mousethread
              \/ Starts \/ Events \/ SizeSent \/ CloseWindow
        \/ status # "up" /\ UNCHANGED vars

\* The threads are scheduled, the client takes its replies, and the pipe
\* brings a message in a finite number of reads.
Fairness == /\ WF_vars(status = "up" /\ Check) /\ WF_vars(status = "up" /\ Run)
            /\ WF_vars(status = "up" /\ Attach) /\ WF_vars(status = "up" /\ Starts)
            /\ SF_vars(status = "up" /\ Write)
            /\ SF_vars(status = "up" /\ \E k \in 1..Len(pipe) : ioread(k))
            /\ SF_vars(status = "up" /\ kbdthread) /\ SF_vars(status = "up" /\ mousethread)

Spec == Init /\ [][Next]_vars /\ Fairness

-----------------------------------------------------------------------------
(* Correctness.                                                           *)

IsRing(q, n) == /\ DOMAIN q.b = Index(n) /\ {q.ri, q.wi} \subseteq Index(n)
                /\ q.stall \in BOOLEAN

\* Every variable has its type.
TypeOK ==
    /\ status \in {"up", "exited", "fatal"}
    /\ reader \in {"check", "notew", "reading", "run", "attach", "screen"}
    /\ writer.at \in {"start", "writing", "written", "waitmore"} /\ writer.n \in Nat
    /\ win \in {"none", "creating", "created", "showing", "shown", "idle", "size"}
    /\ IsRing(kbd, Nring) /\ IsRing(mouse, Nring)
    /\ IsRing(kbdtags, Ntags) /\ IsRing(mousetags, Ntags)
    /\ {gscreen, mresized, wasctl, hist.owed} \subseteq BOOLEAN
    /\ rp \in 0..Len(fdout)
    /\ alting \in -1..MaxKeys
    /\ out \in [Tags -> Reads \cup Sync \cup {"free"}]

Up == status = "up"

\* A client that never waits for more than half a message's worth of replies
\* never meets "out of space for reply message", one that keeps its reads
\* below the size of the tag rings never "too many queued ... reads",
\* although the events are answered without looking at the room in fdout.
NoFatal == status # "fatal"

\* The part of fdout that has still to reach the client.
Unsent == LET from == rp + (IF writer.at = "written" THEN writer.n ELSE 0)
          IN  {i \in (from + 1)..Len(fdout) : fdout[i].type # "part"}

TagsOf(tg) == {Item(tg, Ntags, j) : j \in 1..Waiting(tg, Ntags)}
Answers(ty) == CASE ty = "resized" -> {"rdmouse"} [] ty = "error" -> {"rddraw", "wrdraw"}
                 [] OTHER -> {ty}

\* Each request is in one place: still to be run, queued for an event, or
\* answered once, with a reply of its own type.
OneAnswer ==
    Up =>
    /\ \A i \in Unsent : out[fdout[i].tag] \in Answers(fdout[i].type)
    /\ \A t \in Tags : out[t] # "free" =>
        1 = Cardinality({i \in DOMAIN pipe : pipe[i].tag = t})
            + Cardinality({i \in DOMAIN fdin : fdin[i].tag = t})
            + Cardinality({i \in Unsent : fdout[i].tag = t})
            + (IF t \in TagsOf(kbdtags) THEN 1 ELSE 0)
            + (IF t \in TagsOf(mousetags) THEN 1 ELSE 0)

\* The client gets characters and mouse events in the order in which they
\* happened, each character once.
InOrder ==
    \A i, j \in Unsent :
        /\ fdout[i].type = "rdkbd" =>
            /\ fdout[i].val > hist.key
            /\ i < j /\ fdout[j].type = "rdkbd" => fdout[i].val < fdout[j].val
        /\ fdout[i].type \in {"rdmouse", "resized"} =>
            /\ fdout[i].val >= hist.move
            /\ i < j /\ fdout[j].type \in {"rdmouse", "resized"} => fdout[i].val <= fdout[j].val

\* Every request is answered once and with a reply of its own, and events are
\* told in the order in which they happened.
Answered == OneAnswer /\ InOrder

\* As long as fewer characters are queued than the ring has places, the ring
\* holds all of them, and none waits when a read does.
KbdConserved ==
    Up /\ Cardinality(hist.queued) < Nring =>
        /\ hist.queued = {Item(kbd, Nring, j) : j \in 1..Waiting(kbd, Nring)}
        /\ Waiting(kbdtags, Ntags) > 0 => hist.queued = {}

\* Characters reach the client once, in order and as soon as it reads, as long
\* as the ring (of 32 in the code) does not overflow.
KbdDelivered == TypeOK /\ Answered /\ KbdConserved

\* What the comment on matchkbd() promises: queued reads are matched with
\* queued characters, so never are there both.
KbdMatched == Up /\ Waiting(kbdtags, Ntags) > 0 => hist.queued = {}

\* A change of the window's size that the client has not been told of, unless
\* its store to mresized fell between the two uses in matchmouse(), will
\* be told with the next mouse event, and there is one, or one on its way,
\* also when the ring has overflowed and drops events.
ResizeKept == Up /\ hist.owed =>
    /\ mresized
    /\ Waiting(mouse, Nring) > 0 \/ cmouse # <<>> \/ win = "size"

\* WindowProc() compares sizes with the screen image, so it sees WM_SIZE only
\* when there is one: the handshake of _xattach() and winproc().
ScreenBeforeShow == win \in {"showing", "shown", "idle", "size"} => gscreen

\* Every request that does not wait for an event is answered, whatever the
\* two threads' wake-ups of each other race with.
EveryCallAnswered ==
    \A t \in Tags : out[t] \in Sync ~> (out[t] = "free" \/ ~Up)
=============================================================================
