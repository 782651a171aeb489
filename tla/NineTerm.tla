------------------------------ MODULE NineTerm ------------------------------
(***************************************************************************)
(* cmd/9term: on Windows the pseudo terminal is two pipes and two procs   *)
(* that copy between them, turning the interrupt character into an event  *)
(* (9term/mingw.c); and win's buffer of typed text that is to be removed  *)
(* from the shell's output when it comes back as an echo (rcstart.c).     *)
(* The shell may write anything.  The echo buffer has a lock that both    *)
(* its users hold throughout, so that each use is one step.               *)
(***************************************************************************)
EXTENDS Integers, Sequences

CONSTANTS
    Texts,      \* what a user may type at a time: sequences of characters
    Outputs,    \* what the shell may write at a time
    PipeChunk,  \* sizeof buf in the copying procs and in the window's reader
    EchoSize,   \* sizeof echo.buf
    MaxTyped, MaxOut    \* bounds: characters typed, characters written

VARIABLES
    term,       \* "new", "running", "exited", "failed", "crashed"
    mpipe,      \* from the window to copymasterproc
    mbuf,       \* what copymasterproc has read and not dealt with: p0..ep
    tosh,       \* what copymasterproc has done, in order: text written, interrupts sent
    spipe,      \* from the shell to copyslaveproc
    wpipe,      \* from copyslaveproc to the window
    shell,      \* "none", "running", "gone"
    echo,       \* [buf, r]: echo.buf up to echo.w, echo.r
    typed,      \* history: what was typed
    sout,       \* history: what the shell wrote
    seen,       \* history: ordinary characters the window got: <<character, shown>>
    nseen       \* history: characters of sout the window got

termvars == <<term, mpipe, mbuf, tosh, spipe, wpipe, shell, echo, typed, sout, seen, nseen>>

Intr == "intr"      \* 0x7F
CR == "cr"
NL == "nl"
BS == "bs"
SP == "sp"
Ordinary(c) == c \notin {CR, BS, SP}
Chunk(pipe, n) == SubSeq(pipe, 1, n)
Rest(pipe, n) == SubSeq(pipe, n + 1, Len(pipe))

NineTermInit ==
    /\ term = "new" /\ shell = "none"
    /\ mpipe = << >> /\ mbuf = << >> /\ tosh = << >> /\ spipe = << >> /\ wpipe = << >>
    /\ echo = [buf |-> << >>, r |-> 0]
    /\ typed = << >> /\ sout = << >> /\ seen = << >> /\ nseen = 0

\* rcstart(): getpts() makes the pipes and the procs, then the shell is spawned.
rcstart ==
    /\ term = "new"
    /\ \/ term' = "running" /\ shell' = "running"
       \/ term' = "failed" /\ UNCHANGED shell
    /\ UNCHANGED <<mpipe, mbuf, tosh, spipe, wpipe, echo, typed, sout, seen, nseen>>

\* echoed(): text that has come back makes room, then all that is left.
MovedDown == [buf |-> Rest(echo.buf, echo.r), r |-> 0]
Room(e, n) == Len(e.buf) + n <= EchoSize
echoed(text) ==
    LET e == IF echo.r > 0 THEN MovedDown ELSE echo
        f == IF Room(e, Len(text)) THEN e ELSE [buf |-> << >>, r |-> 0]
    IN echo' = IF Room(f, Len(text)) THEN [f EXCEPT !.buf = @ \o text] ELSE f

\* The window: text goes into the echo buffer and to the master.
Type(text) ==
    /\ term = "running" /\ Len(typed) + Len(text) <= MaxTyped
    /\ echoed(SelectSeq(text, LAMBDA c : c # Intr))
    /\ mpipe' = mpipe \o text /\ typed' = typed \o text
    /\ UNCHANGED <<term, mbuf, tosh, spipe, wpipe, shell, sout, seen, nseen>>

\* copymasterproc(): read(), then a write for each piece between interrupts.
MasterRead ==
    /\ term = "running" /\ mbuf = << >>
    /\ \E n \in 1..PipeChunk :
          /\ n <= Len(mpipe)
          /\ mbuf' = Chunk(mpipe, n) /\ mpipe' = Rest(mpipe, n)
    /\ UNCHANGED <<term, tosh, spipe, wpipe, shell, echo, typed, sout, seen, nseen>>

AtIntr(p) == p
AfterIntr(p) == p + 1
Intrs == {i \in 1..Len(mbuf) : mbuf[i] = Intr}
MasterWrite ==
    /\ term = "running" /\ mbuf # << >>
    /\ IF Intrs = {}
       THEN tosh' = tosh \o mbuf /\ mbuf' = << >>
       ELSE LET p == CHOOSE i \in Intrs : \A j \in Intrs : i <= j
            IN /\ tosh' = tosh \o Chunk(mbuf, p - 1) \o <<Intr>>
               /\ mbuf' = SubSeq(mbuf, AfterIntr(p), Len(mbuf))
    /\ UNCHANGED <<term, mpipe, spipe, wpipe, shell, echo, typed, sout, seen, nseen>>

ShellWrites(text) ==
    /\ term = "running" /\ shell = "running" /\ Len(sout) + Len(text) <= MaxOut
    /\ spipe' = spipe \o text /\ sout' = sout \o text
    /\ UNCHANGED <<term, mpipe, mbuf, tosh, wpipe, shell, echo, typed, seen, nseen>>

ShellExits ==
    /\ term = "running" /\ shell = "running" /\ shell' = "gone"
    /\ UNCHANGED <<term, mpipe, mbuf, tosh, spipe, wpipe, echo, typed, sout, seen, nseen>>

\* copyslaveproc(): what it reads it writes; at the end of the shell's output
\* it ends the program.
AllRead == spipe = << >>
SlaveCopies ==
    /\ term = "running"
    /\ \/ \E n \in 1..PipeChunk :
             /\ n <= Len(spipe)
             /\ wpipe' = wpipe \o Chunk(spipe, n) /\ spipe' = Rest(spipe, n)
             /\ UNCHANGED term
       \/ shell = "gone" /\ AllRead /\ term' = "exited" /\ UNCHANGED <<wpipe, spipe>>
    /\ UNCHANGED <<mpipe, mbuf, tosh, shell, echo, typed, sout, seen, nseen>>

\* "\b \b" at i; the test of i+2 lets it look at the byte behind the buffer,
\* which is whatever was there before.
Erase(p, i, stale) ==
    /\ i + 2 <= Len(p) /\ p[i + 2] = SP
    /\ IF i + 2 < Len(p) THEN p[i + 3] = BS ELSE stale

\* echocancel(): how much of p is the echo of typed text: <<i, echo.r>>.
echocancel(p, stale) ==
    LET e == echo.buf
        w == Len(e)
        c[s \in (0..Len(p) + 1) \X (0..w)] ==
            LET i == s[1]
                r == s[2]
            IN IF i >= Len(p) THEN s
               ELSE IF r = w THEN <<i, w>>
               ELSE IF e[r + 1] = p[i + 1] THEN c[<<i + 1, r + 1>>]
               ELSE IF e[r + 1] = NL /\ p[i + 1] = CR THEN c[<<i + 1, r>>]
               ELSE IF p[i + 1] = BS THEN c[<<i + (IF Erase(p, i, stale) THEN 3 ELSE 1), r>>]
               ELSE <<i, w>>
    IN c[<<0, echo.r>>]

\* dropcrnl(): the characters it keeps, by their places.
dropcrnl(p, stale) ==
    LET d[i \in 0..Len(p) + 1] ==
            IF i >= Len(p) THEN {}
            ELSE IF p[i + 1] = CR /\ i + 1 < Len(p) /\ p[i + 2] = NL THEN d[i + 1]
            ELSE IF p[i + 1] = BS THEN d[i + (IF Erase(p, i, stale) THEN 3 ELSE 1)]
            ELSE {i + 1} \cup d[i + 1]
    IN d[0]

\* The window reads, removes the echo and shows the rest.  echocancel() may
\* count a byte behind the buffer; memmove() is then asked for -1 bytes.
Marked(text, shown) ==
    [i \in 1..Len(SelectSeq(text, Ordinary)) |-> <<SelectSeq(text, Ordinary)[i], shown>>]
Window ==
    /\ term = "running"
    /\ \E n \in 1..PipeChunk, stale \in BOOLEAN :
          /\ n <= Len(wpipe)
          /\ LET p == Chunk(wpipe, n)
                 done == echocancel(p, stale)
                 rest == Rest(p, done[1])
                 kept == dropcrnl(rest, stale)
                 left == SelectSeq([i \in 1..Len(rest) |-> IF i \in kept THEN rest[i] ELSE SP], Ordinary)
             IN IF done[1] > n
                THEN term' = "crashed" /\ UNCHANGED <<seen, echo>>
                ELSE /\ seen' = seen \o Marked(Chunk(p, done[1]), FALSE) \o Marked(left, TRUE)
                     /\ echo' = [echo EXCEPT !.r = done[2]]
                     /\ UNCHANGED term
          /\ wpipe' = Rest(wpipe, n) /\ nseen' = nseen + n
    /\ UNCHANGED <<mpipe, mbuf, tosh, spipe, shell, typed, sout>>

NineTermNext ==
    \/ rcstart
    \/ \E text \in Texts : Type(text)
    \/ MasterRead
    \/ MasterWrite
    \/ \E text \in Outputs : ShellWrites(text)
    \/ ShellExits
    \/ SlaveCopies
    \/ Window

NineTermSpec == NineTermInit /\ [][NineTermNext]_termvars

----------------------------------------------------------------------------
\* Of what is typed nothing is lost, doubled or passed by: text and interrupts
\* reach the shell's side in the order of typing, however the reads cut it
\* (copymasterproc's p0 and p).
TypedInOrder == tosh \o mbuf \o mpipe = typed

Cancelled == SelectSeq(seen, LAMBDA x : ~x[2])

\* The window removes from the output no more than has been typed: the
\* characters taken for an echo are a part of the typed text, in order, and no
\* typed character is used twice, whatever the shell writes and however the
\* reads cut it (echoed() moving the buffer, echocancel()).
NoMoreThanTyped ==
    \E f \in [1..Len(Cancelled) -> 1..Len(typed)] :
       /\ \A i \in DOMAIN f : Cancelled[i][1] = typed[f[i]]
       /\ \A i, j \in DOMAIN f : i < j => f[i] < f[j]

\* All the ordinary characters of the output are shown or are an echo, in
\* order; and the program ends only after copyslaveproc has passed on all that
\* the shell wrote.
OutputKept ==
    /\ term # "crashed" =>
          [i \in DOMAIN seen |-> seen[i][1]] = SelectSeq(Chunk(sout, nseen), Ordinary)
    /\ Rest(sout, nseen) = wpipe \o spipe
    /\ term = "exited" => spipe = << >>

\* Neither what is typed nor what the shell writes is lost between the window
\* and the shell; only echoes are removed.
TextKept == TypedInOrder /\ NoMoreThanTyped /\ OutputKept
=============================================================================
