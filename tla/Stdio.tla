-------------------------------- MODULE Stdio --------------------------------
(***************************************************************************)
(* libstdio: one FILE on a file, through all of its buffering modes.      *)
(* Pointers are offsets into f->buf; the buffer holds BufLen bytes, or    *)
(* one if the stream is unbuffered.  The program keeps to the rules of    *)
(* ANSI C: between output and input it flushes or seeks, between input    *)
(* and output it seeks or has seen the end, one byte at most is pushed    *)
(* back.                                                                  *)
(***************************************************************************)
EXTENDS Integers, Sequences

CONSTANTS
    Chars,      \* bytes; "\n" ends a line
    BufLen,     \* BUFSIZ; half of it is BIGN
    MaxLen      \* bound: length of the file

VARIABLES
    f,          \* the FILE: [st, mode, buf, rp, wp, lp, file, pos]: pos is the
                \* offset of f->fd in file
    sret,       \* what the last call returned
    unread      \* a byte has been pushed back and not been read since

svars == <<f, sret, unread>>

Num(op, arg, k) == [op |-> op, arg |-> arg, n |-> k, d |-> <<>>]
Got(op, arg, x) == [op |-> op, arg |-> arg, n |-> Len(x), d |-> x]
Modes == {"full", "line", "un"}
NoBuf == [i \in 0..(BufLen - 1) |-> "0"]

StdioInit == /\ f = [st |-> "OPEN", mode |-> "full", buf |-> NoBuf, rp |-> 0, wp |-> 0, lp |-> 0,
                     file |-> <<>>, pos |-> 0]
             /\ sret = Num("other", 0, 0) /\ unread = FALSE

-----------------------------------------------------------------------------
(* The functions, as what they make of a FILE; r is the returned value    *)

bufl(s) == IF s.mode = "un" THEN 0 ELSE BufLen
Buffered(s, n) == [i \in 1..n |-> s.buf[i - 1]]
Patch(b, p, d) ==
    [i \in 1..(IF p + Len(d) > Len(b) /\ d # <<>> THEN p + Len(d) ELSE Len(b)) |->
        IF i > p /\ i <= p + Len(d) THEN d[i - p] ELSE IF i <= Len(b) THEN b[i] ELSE "0"]
WriteFd(s, d) == [s EXCEPT !.file = Patch(@, s.pos, d), !.pos = @ + Len(d)]

\* setvbuf(), setbuf(), _IO_setvbuf()
setvbuf(s, m) == [s EXCEPT !.st = "RDWR", !.mode = m, !.rp = 0, !.wp = 0, !.lp = 0]
Opened(s) == IF s.st = "OPEN" THEN setvbuf(s, s.mode) ELSE s

\* _IO_putc()
ForWriting(s) ==
    LET o == Opened(s) IN
    IF o.st \in {"RDWR", "END"}
    THEN [o EXCEPT !.rp = bufl(o), !.wp = IF o.mode = "line" THEN bufl(o) ELSE 0, !.lp = 0]
    ELSE o
PutLine(s, c) ==
    LET e == IF s.lp = s.rp THEN [WriteFd(s, Buffered(s, s.lp)) EXCEPT !.lp = 0] ELSE s
        p == [e EXCEPT !.buf[e.lp] = c, !.lp = @ + 1]
    IN IF c = "\n" THEN [WriteFd(p, Buffered(p, p.lp)) EXCEPT !.lp = 0] ELSE p
PutFull(s, c) ==
    LET e == IF s.wp = s.rp THEN [WriteFd(s, Buffered(s, s.wp)) EXCEPT !.wp = 0, !.rp = BufLen] ELSE s
    IN [e EXCEPT !.buf[e.wp] = c, !.wp = @ + 1]
IO_putc(s, c) ==
    LET w == ForWriting(s)
    IN [ (CASE w.mode = "line" -> PutLine(w, c)
            [] w.mode = "un" -> WriteFd([w EXCEPT !.buf[0] = c], <<c>>)
            [] w.mode = "full" -> PutFull(w, c)) EXCEPT !.st = "WR"]

\* The macro putc() of Stdio.h.
putc(s, c) == IF s.wp >= s.rp THEN IO_putc(s, c)
              ELSE [s EXCEPT !.buf[s.wp] = c, !.wp = @ + 1]

\* _IO_getc(): fills the buffer; r is <<c>> or <<>> at the end.
Avail(s, n) == LET left == Len(s.file) - s.pos IN IF left < 0 THEN 0 ELSE IF left < n THEN left ELSE n
IO_getc(s) ==
    LET o == Opened(s)
        n == Avail(o, IF o.mode = "un" THEN 1 ELSE BufLen)
    IN IF o.st \notin {"RDWR", "RD"} THEN [s |-> o, r |-> <<>>]
       ELSE IF n = 0 THEN [s |-> [o EXCEPT !.st = "END"], r |-> <<>>]
       ELSE [s |-> [o EXCEPT !.st = "RD", !.rp = 1, !.wp = n, !.pos = @ + n,
                             !.buf = [i \in 0..(BufLen - 1) |-> IF i < n THEN o.file[o.pos + i + 1] ELSE @[i]]],
             r |-> <<o.file[o.pos + 1]>>]
getc(s) == IF s.rp >= s.wp THEN IO_getc(s)
           ELSE [s |-> [s EXCEPT !.rp = @ + 1], r |-> <<s.buf[s.rp]>>]

\* _fflush()
fflush(s) ==
    IF s.st # "WR" THEN s
    ELSE [WriteFd(s, Buffered(s, IF s.mode = "line" THEN s.lp ELSE s.wp))
            EXCEPT !.rp = 0, !.wp = 0, !.st = "RDWR"]

\* fwrite(): into the room that is left, else many bytes at once past the
\* buffer, else a byte with _IO_putc().
RECURSIVE fwrite(_, _)
fwrite(s, d) ==
    LET n == Len(d)
        room == s.rp - s.wp
        k == IF room > n THEN n ELSE room
        fits == [s EXCEPT !.wp = @ + k, !.buf = [i \in 0..(BufLen - 1) |->
                     IF i >= s.wp /\ i < s.wp + k THEN d[i - s.wp + 1] ELSE @[i]]]
        past == IF s.wp > 0 THEN [WriteFd(s, Buffered(s, s.wp)) EXCEPT !.wp = 0, !.rp = 0] ELSE s
    IN IF n = 0 THEN s
       ELSE IF room > 0 THEN fwrite(fits, SubSeq(d, k + 1, n))
       ELSE IF 2 * n >= BufLen /\ s.st = "WR" /\ s.mode = "full" THEN WriteFd(past, d)
       ELSE fwrite(IO_putc(s, d[1]), Tail(d))

\* fread(), which likewise reads many bytes at once into the caller's memory.
RECURSIVE fread(_, _)
fread(s, n) ==
    LET k == IF s.wp - s.rp > n THEN n ELSE s.wp - s.rp
        big == Avail(s, n)
        More(t, d) == LET x == fread(t, n - Len(d)) IN [s |-> x.s, r |-> d \o x.r]
    IN IF n = 0 THEN [s |-> s, r |-> <<>>]
       ELSE IF k > 0 THEN More([s EXCEPT !.rp = @ + k], [i \in 1..k |-> s.buf[s.rp + i - 1]])
       ELSE IF 2 * n >= BufLen /\ s.st = "RD" /\ s.mode # "un"
       THEN IF big = 0 THEN [s |-> [s EXCEPT !.st = "END"], r |-> <<>>]
            ELSE More([s EXCEPT !.pos = @ + big], SubSeq(s.file, s.pos + 1, s.pos + big))
       ELSE LET x == IO_getc(s) IN IF x.r = <<>> THEN x ELSE More(x.s, x.r)

\* ungetc(); r is <<>> if the byte cannot be put back.
ungetc(s, c) ==
    LET o == Opened(s)
        top == IF bufl(o) = 0 THEN 1 ELSE bufl(o)
        q == IF o.st \in {"RDWR", "END"} THEN [o EXCEPT !.rp = top, !.wp = top, !.st = "RD"] ELSE o
    IN IF q.rp = 0 THEN [s |-> q, r |-> <<>>]
       ELSE [s |-> [q EXCEPT !.rp = @ - 1, !.buf[q.rp - 1] = c], r |-> <<c>>]

\* fseek(), fseeko(): where the offset counts from, and what was read ahead.
ForgetsAhead(s, offs, type) ==
    CASE type = 0 -> offs [] type = 1 -> s.pos + offs [] type = 2 -> Len(s.file) + offs
Target(s, offs, type) ==
    CASE type = 0 -> offs
      [] type = 1 -> s.pos + offs - (IF s.st = "RD" /\ s.mode # "un" THEN s.wp - s.rp ELSE 0)
      [] type = 2 -> Len(s.file) + offs
fseek(s, offs, type) ==
    LET w == IF s.st = "WR" THEN fflush(s) ELSE s
        p == Target(w, offs, type)
        e == [w EXCEPT !.pos = p,
                       !.rp = IF w.st = "RD" THEN 0 ELSE @, !.wp = IF w.st = "RD" THEN 0 ELSE @,
                       !.st = IF @ = "OPEN" THEN @ ELSE "RDWR"]
    IN IF p < 0 THEN [s |-> w, r |-> <<-1>>] ELSE [s |-> e, r |-> <<0>>]

\* ftell(), ftello()
ftell(s) == CASE s.st = "RD" -> s.pos - (s.wp - s.rp)
              [] s.st = "WR" -> (IF s.mode = "line" THEN s.lp ELSE s.wp) + s.pos
              [] OTHER -> s.pos

clearerr(s) == IF s.st = "END" THEN [s EXCEPT !.st = "RDWR"] ELSE s

\* fclose(), then freopen() in the same FILE, for update.
fclose(s) == fflush(s)
freopen(s) == [fclose(s) EXCEPT !.st = "OPEN", !.rp = 0, !.wp = 0, !.lp = 0, !.pos = 0, !.buf = NoBuf]

-----------------------------------------------------------------------------
(* The calls of a program                                                 *)

MayWrite == f.st \in {"OPEN", "RDWR", "WR", "END"} /\ ~unread
MayRead == f.st # "WR"

Setvbuf == \E m \in Modes : /\ f.st = "OPEN"
                            /\ f' = setvbuf(f, m) /\ sret' = Num("other", 0, 0) /\ unread' = FALSE
Fputc == \E c \in Chars : /\ MayWrite /\ ftell(f) < MaxLen
                          /\ f' = putc(f, c) /\ sret' = Num("write", 1, 1) /\ unread' = FALSE
Fwrite == \E n \in 2..MaxLen : \E d \in [1..n -> Chars] :
              /\ MayWrite /\ ftell(f) + n <= MaxLen
              /\ f' = fwrite(f, d) /\ sret' = Num("write", n, n) /\ unread' = FALSE
Fgetc == /\ MayRead
         /\ f' = getc(f).s /\ sret' = Got("read", 1, getc(f).r) /\ unread' = FALSE
Fread == \E n \in 2..MaxLen : /\ MayRead
                              /\ f' = fread(f, n).s /\ sret' = Got("read", n, fread(f, n).r) /\ unread' = FALSE
Ungetc == \E c \in Chars : /\ MayRead /\ ~unread /\ ftell(f) > 0
                           /\ ungetc(f, c).r # <<>>
                           /\ f' = ungetc(f, c).s /\ sret' = Got("unread", 1, <<c>>) /\ unread' = TRUE
Fflush == /\ f.st \in {"OPEN", "RDWR", "WR"}
          /\ f' = fflush(f) /\ sret' = Num("other", 0, 0) /\ UNCHANGED unread
Fseek == \E type \in 0..2, offs \in -1..MaxLen :
            /\ type = 1 => ~(unread /\ f.mode = "un")
            /\ LET x == fseek(f, offs, type) IN
                /\ x.s.pos <= MaxLen /\ x.r = <<0>>
                /\ f' = x.s /\ sret' = Num(<<"set", "cur", "end">>[type + 1], offs, 0) /\ unread' = FALSE
Ftell == f' = f /\ sret' = Num("tell", 0, ftell(f)) /\ UNCHANGED unread
Clearerr == f' = clearerr(f) /\ sret' = Num("other", 0, 0) /\ UNCHANGED unread
Freopen == f' = freopen(f) /\ sret' = Num("reopen", 0, 0) /\ unread' = FALSE

StdioNext == Setvbuf \/ Fputc \/ Fwrite \/ Fgetc \/ Fread \/ Ungetc \/ Fflush \/ Fseek \/ Ftell
             \/ Clearerr \/ Freopen

StdioSpec == StdioInit /\ [][StdioNext]_svars

-----------------------------------------------------------------------------
(* Properties.                                                            *)

\* The comment on FILE in Stdio.h: if rp < wp the state is RD, if wp < rp it
\* is WR, so that the macros getc and putc work correctly.
PointersTellState == /\ f.rp < f.wp => f.st = "RD"
                     /\ f.wp < f.rp => f.st = "WR"

\* The file and the position behind the buffer.
SeenBytes == IF f.st = "WR" THEN Patch(f.file, f.pos, Buffered(f, ftell(f) - f.pos)) ELSE f.file
SeenBack == IF /\ f.st = "RD" /\ f.rp < f.wp
               /\ ~(ftell(f) < Len(f.file) /\ f.buf[f.rp] = f.file[ftell(f) + 1])
            THEN <<f.buf[f.rp]>> ELSE <<>>

Abstract == INSTANCE ByteStream WITH bytes <- SeenBytes, at <- ftell(f), back <- SeenBack, ret <- sret

\* A stream implements a file with one position, in every buffering mode and
\* however reads, writes, seeks and pushed back bytes follow each other: every
\* call returns and changes what it would without a buffer; and the pointers
\* always tell the macros getc and putc what they may do.
StreamIsFile == Abstract!ByteStreamSpec /\ []PointersTellState
=============================================================================
