------------------------------ MODULE Console ------------------------------
(***************************************************************************)
(* lib9/mingw/cons.c: text for the console is UTF-8 that may be cut       *)
(* anywhere by write(); text from it is UTF-16 with \r\n ends of lines.   *)
(* A byte is [rune, k, n]: byte k of the n bytes of a rune; bytes that    *)
(* belong to no rune have rune "bad".                                     *)
(***************************************************************************)
EXTENDS Integers, Sequences, SequencesExt

CONSTANTS
    ConsTexts,      \* byte strings to be written
    ConsKeys,       \* strings of wide characters typed at the console
    ConsWidths,     \* bytes of each wide character in UTF-8
    MaxConsWrite,   \* bytes of one write() at most
    ReadSizes       \* what a read() asks for

VARIABLES
    ctext,      \* the text being written
    cdone,      \* bytes of it that were written
    cutf,       \* utf, nutf: the beginning of a rune that was cut
    cshown,     \* what WriteConsoleW() got
    ctyped,     \* what is typed, all of it
    ckeys,      \* what of it ReadConsoleW() has not returned yet
    cbuf,       \* wbuf: wide characters not yet delivered
    ceof,       \* the static eof
    cread       \* what winreadcons() has delivered

cvars == <<ctext, cdone, cutf, cshown, ctyped, ckeys, cbuf, ceof, cread>>

ConsoleInit ==
    /\ ctext \in ConsTexts /\ cdone = 0 /\ cutf = <<>> /\ cshown = <<>>
    /\ ctyped \in ConsKeys /\ ckeys = ctyped /\ cbuf = <<>> /\ ceof = FALSE /\ cread = <<>>

-----------------------------------------------------------------------------
(* winwritecons()                                                         *)

\* fullrune(): the bytes at hand decide what the next rune is.
fullrune(b) == b[1].rune = "bad" \/ b[1].k # 1 \/ Len(b) >= b[1].n
               \/ \E i \in 2..Len(b) : b[i].rune # b[1].rune \/ b[i].k # i

\* chartorune(): a whole rune, or one byte that is an error.
RuneLen(b) == IF b[1].k = 1 /\ b[1].rune # "bad" /\ Len(b) >= b[1].n
                 /\ \A i \in 1..b[1].n : b[i].rune = b[1].rune /\ b[i].k = i
              THEN b[1].n ELSE 1
Shown(b) == IF RuneLen(b) = b[1].n /\ b[1].rune # "bad" /\ b[1].k = 1 THEN <<b[1].rune>> ELSE <<>>

\* The loop: what is shown of the bytes, and what is kept of them.
RECURSIVE Decode(_)
Decode(b) == IF b = <<>> THEN [shown |-> <<>>, kept |-> <<>>]
             ELSE IF ~fullrune(b) THEN [shown |-> <<>>, kept |-> b]
             ELSE LET d == Decode(SubSeq(b, RuneLen(b) + 1, Len(b)))
                  IN [shown |-> Shown(b) \o d.shown, kept |-> d.kept]

DropsCut(b) == b
WithCut(b) == cutf \o b
winwritecons(n) ==
    /\ n \in 1..(Len(ctext) - cdone)
    /\ LET d == Decode(WithCut(SubSeq(ctext, cdone + 1, cdone + n)))
       IN cshown' = cshown \o d.shown /\ cutf' = d.kept
    /\ cdone' = cdone + n
    /\ UNCHANGED <<ctext, ctyped, ckeys, cbuf, ceof, cread>>

-----------------------------------------------------------------------------
(* winreadcons()                                                          *)

\* One read(): r is [buf, keys, n, out, cr, calls, eof, stop].  A character
\* that does not fit any more stays where it is.
StaysThere(b, t) == <<t>> \o Tail(b)
RECURSIVE ReadLoop(_, _)
ReadLoop(r, nwant) ==
    IF r.n >= nwant \/ r.stop THEN r
    ELSE IF r.buf = <<>>
    THEN IF (r.calls > 0 /\ r.n > 0) \/ r.keys = <<>> THEN [r EXCEPT !.stop = TRUE]
         ELSE ReadLoop([r EXCEPT !.buf = r.keys[1], !.keys = Tail(@), !.calls = @ + 1], nwant)
    ELSE LET c == Head(r.buf)
             t == IF c = "\r" THEN "\n" ELSE c
             next == [r EXCEPT !.buf = Tail(@), !.cr = (c = "\r")]
         IN IF c = "^Z" THEN [r EXCEPT !.eof = TRUE, !.stop = TRUE]
            ELSE IF c = "\n" /\ r.cr THEN ReadLoop([next EXCEPT !.cr = FALSE], nwant)
            ELSE IF ConsWidths[t] > nwant - r.n
            THEN [r EXCEPT !.stop = TRUE, !.buf = StaysThere(@, t)]
            ELSE ReadLoop([next EXCEPT !.n = @ + ConsWidths[t], !.out = Append(@, t)], nwant)

winreadcons(nwant) ==
    /\ ~ceof /\ (cbuf # <<>> \/ ckeys # <<>>)
    /\ LET r == ReadLoop([buf |-> cbuf, keys |-> ckeys, n |-> 0, out |-> <<>>, cr |-> FALSE,
                          calls |-> 0, eof |-> FALSE, stop |-> FALSE], nwant)
       IN /\ cbuf' = r.buf /\ ckeys' = r.keys /\ ceof' = r.eof
          /\ cread' = cread \o r.out
    /\ UNCHANGED <<ctext, cdone, cutf, cshown, ctyped>>

ConsoleNext == (\E n \in 1..MaxConsWrite : winwritecons(n)) \/ (\E n \in ReadSizes : winreadcons(n))

ConsoleSpec == ConsoleInit /\ [][ConsoleNext]_cvars

-----------------------------------------------------------------------------
(* Properties.                                                            *)

\* However write() cuts a text, in the middle of a rune as well, the console
\* shows what it would if the text were written at once; a rune that is not
\* complete yet is kept, and nothing else.
CutsDontShow == LET d == Decode(SubSeq(ctext, 1, cdone)) IN cshown = d.shown /\ cutf = d.kept

Typed == LET all == FlattenSeq(ctyped)
             z == {i \in DOMAIN all : all[i] = "^Z"}
         IN IF z = {} THEN all ELSE SubSeq(all, 1, (CHOOSE i \in z : \A j \in z : i <= j) - 1)
Left == cbuf \o FlattenSeq(ckeys)
IsText(c) == c \notin {"\r", "\n", "^Z"}
Newlines(s) == Len(SelectSeq(s, LAMBDA c : c = "\n"))
Returns(s) == Len(SelectSeq(s, LAMBDA c : c = "\r"))

\* Whatever sizes read() asks for, every character typed before ^Z is
\* delivered once and in order; only of a \r\n that falls between two calls
\* are both delivered, as ends of lines.
KeysDelivered ==
    LET end == ceof \/ Left = <<>> IN
    /\ IsPrefix(SelectSeq(cread, IsText), SelectSeq(Typed, IsText))
    /\ end => /\ SelectSeq(cread, IsText) = SelectSeq(Typed, IsText)
              /\ Newlines(cread) \in Returns(Typed)..(Returns(Typed) + Newlines(Typed))

\* The sizes of reads and writes do not show in the text.
ConsoleOK == CutsDontShow /\ KeysDelivered
=============================================================================
