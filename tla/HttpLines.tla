----------------------------- MODULE HttpLines -----------------------------
(***************************************************************************)
(* The buffered input of cmd/hget.c: the header of a response is read     *)
(* line by line from a connection that delivers it in pieces, a line too  *)
(* many is put back, and what follows the header is the body.             *)
(***************************************************************************)
EXTENDS Integers, Sequences, SequencesExt

CONSTANTS
    HttpInputs,     \* responses: [lines, body], lines without their newline
    MaxRead         \* what one read() delivers at most

VARIABLES
    netw,       \* what the connection still delivers
    inbuf,      \* the bytes of b between rp and wp
    rdline,     \* the line readline() is collecting
    hdrbuf,     \* the header getheader() is collecting
    nlines,     \* lines in it
    hdrs,       \* the headers httpheaders() has got
    lpc,        \* "line", "body" or "done"
    body,       \* what readibuf() has returned
    httpin      \* the response, as it was chosen

lvars == <<netw, inbuf, rdline, hdrbuf, nlines, hdrs, lpc, body, httpin>>

IsWhite(c) == c \in {" ", "\t", "\r", "\n"}
HasColon(l) == Contains(l, ":")
Flat(r) == FlattenSeq([i \in DOMAIN r.lines |-> r.lines[i] \o <<"\r", "\n">>]) \o r.body

\* readline() drops the white space a line ends with.
Chop(l) == LET n == {i \in DOMAIN l : ~IsWhite(l[i])}
           IN IF n = {} THEN <<>> ELSE SubSeq(l, 1, CHOOSE i \in n : \A j \in n : j <= i)

HttpLinesInit ==
    /\ httpin \in HttpInputs /\ netw = Flat(httpin)
    /\ inbuf = <<>> /\ rdline = <<>> /\ hdrbuf = <<>> /\ nlines = 0 /\ hdrs = <<>>      \* initibuf()
    /\ lpc = "line" /\ body = <<>>

\* unreadline(): the line, with a newline, goes before what is buffered.
Forgotten(l, b) == b
unreadline(l, b) == l \o <<"\n">> \o b

\* read() when rp has reached wp.
Fill == /\ lpc = "line" /\ inbuf = <<>>
        /\ \E k \in 1..MaxRead : /\ k <= Len(netw)
                                 /\ inbuf' = SubSeq(netw, 1, k)
                                 /\ netw' = SubSeq(netw, k + 1, Len(netw))
        /\ UNCHANGED <<rdline, hdrbuf, nlines, hdrs, lpc, body, httpin>>

\* readline() takes a byte that ends no line.
NextByte == /\ lpc = "line" /\ inbuf # <<>> /\ Head(inbuf) # "\n"
            /\ rdline' = Append(rdline, Head(inbuf))
            /\ inbuf' = Tail(inbuf)
            /\ UNCHANGED <<netw, hdrbuf, nlines, hdrs, lpc, body, httpin>>

\* getheader() looks at the line: it begins a header, continues it, or is one
\* line too many and goes back.
EndOfLine ==
    LET l == Chop(rdline) IN
    /\ lpc = "line" /\ inbuf # <<>> /\ Head(inbuf) = "\n"
    /\ rdline' = <<>>
    /\ \/ /\ nlines = 0 /\ ~HasColon(l)
          /\ lpc' = "body"
          /\ inbuf' = Tail(inbuf)
          /\ UNCHANGED <<hdrbuf, nlines, hdrs>>
       \/ /\ nlines = 0 /\ HasColon(l)
          /\ hdrbuf' = l /\ nlines' = 1
          /\ inbuf' = Tail(inbuf)
          /\ UNCHANGED <<hdrs, lpc>>
       \/ /\ nlines > 0 /\ l # <<>> /\ l[1] \in {" ", "\t"}
          /\ hdrbuf' = hdrbuf \o l /\ nlines' = nlines + 1
          /\ inbuf' = Tail(inbuf)
          /\ UNCHANGED <<hdrs, lpc>>
       \/ /\ nlines > 0 /\ ~(l # <<>> /\ l[1] \in {" ", "\t"})
          /\ inbuf' = unreadline(l, Tail(inbuf))
          /\ hdrs' = Append(hdrs, hdrbuf)
          /\ hdrbuf' = <<>> /\ nlines' = 0
          /\ UNCHANGED lpc
    /\ UNCHANGED <<netw, body, httpin>>

\* readibuf(): what is buffered first.
readibuf == /\ lpc = "body"
            /\ \/ /\ inbuf # <<>>
                  /\ \E k \in 1..MaxRead : /\ k = IF Len(inbuf) > MaxRead THEN MaxRead ELSE Len(inbuf)
                                           /\ body' = body \o SubSeq(inbuf, 1, k)
                                           /\ inbuf' = SubSeq(inbuf, k + 1, Len(inbuf))
                  /\ UNCHANGED <<netw, lpc>>
               \/ /\ inbuf = <<>> /\ netw # <<>>
                  /\ \E k \in 1..MaxRead : /\ k <= Len(netw)
                                           /\ body' = body \o SubSeq(netw, 1, k)
                                           /\ netw' = SubSeq(netw, k + 1, Len(netw))
                  /\ UNCHANGED <<inbuf, lpc>>
               \/ inbuf = <<>> /\ netw = <<>> /\ lpc' = "done" /\ UNCHANGED <<netw, inbuf, body>>
            /\ UNCHANGED <<rdline, hdrbuf, nlines, hdrs, httpin>>

HttpLinesNext == Fill \/ NextByte \/ EndOfLine \/ readibuf

HttpLinesSpec == HttpLinesInit /\ [][HttpLinesNext]_lvars

-----------------------------------------------------------------------------
(* Properties.                                                            *)

\* Every line that begins with white space continues the header before it.
RefHdrs(lines) ==
    FoldLeft(LAMBDA hs, l : IF l[1] \in {" ", "\t"} THEN [hs EXCEPT ![Len(hs)] = @ \o Chop(l)]
                            ELSE Append(hs, Chop(l)),
             <<>>, SelectSeq(lines, LAMBDA l : l # <<>>))

\* However the response is cut into pieces, the headers come out whole, in
\* order and with their continuations, and the body is what follows the
\* blank line: the line that was read too far, which getheader() puts back
\* in front of the buffer, neither hides nor repeats anything.
HeaderThenBody == lpc = "done" => hdrs = RefHdrs(httpin.lines) /\ body = httpin.body
=============================================================================
