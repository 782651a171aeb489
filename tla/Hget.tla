-------------------------------- MODULE Hget --------------------------------
(***************************************************************************)
(* cmd/hget.c: a page is fetched with HTTP or FTP, over as many           *)
(* connections as it takes.  What was written already is skipped, and     *)
(* checked by its digest, when a server sends it again.  A byte of the    *)
(* page is <<v, i>>: number i of the version v; bytes of other documents  *)
(* are <<0, i>>.                                                          *)
(***************************************************************************)
EXTENDS Integers, Sequences

CONSTANTS
    Size,       \* bytes of the page, in both of its versions
    Bound,      \* the 512 bytes to whose multiples dohttp() moves back
    MaxErrs,    \* the 10 errors without progress that threadmain() accepts
    MaxLoop,    \* the 32 redirects of dohttp()
    Kept,       \* sizes of an output file that exists when hget starts
    MaxTries    \* bound: connections

VARIABLES
    hpc,        \* where threadmain() is, or "ok", "fatal", "abort"
    scheme,     \* "http" or "ftp"
    ofile,      \* output goes to a file, not to standard output
    mtime,      \* version of the existing file; 0: there was none
    page,       \* the version the server has at present
    tags,       \* the server sends etags
    rstart, rend, errs, loop, etag,
    out,        \* Out: [offset, written, curr, hiwat]; a digest is what it digests
    file,       \* the bytes written to the output
    conn,       \* the bytes the (data) connection still delivers
    tot,        \* bytes this connection has brought
    xfer,       \* ftpxferproc(): "none", "run", "sent" or "err"
    reply,      \* the server's last reply on the FTP control connection
    tries,      \* connections made
    lost        \* history: the redirects ran out

hvars == <<hpc, scheme, ofile, mtime, page, tags, rstart, rend, errs, loop, etag, out, file,
           conn, tot, xfer, reply, tries, lost>>
hsetup == <<scheme, ofile, mtime, tags>>

nildigest == "nil"
Bytes(v, from) == [i \in 1..(Size - from) |-> <<v, from + i>>]
OtherPage == <<<<0, 1>>>>

HgetInit ==
    /\ hpc = "top" /\ scheme \in {"http", "ftp"} /\ ofile \in BOOLEAN /\ mtime \in {0, 1}
    /\ mtime # 0 => ofile
    /\ page = 1 /\ tags \in BOOLEAN
    /\ rstart \in (IF mtime = 0 THEN {0} ELSE Kept) /\ rend = -1
    /\ errs = 0 /\ loop = 0 /\ etag = 0
    /\ out = [offset |-> 0, written |-> 0, curr |-> nildigest, hiwat |-> <<>>]
    /\ file = <<>> /\ conn = <<>> /\ tot = 0 /\ xfer = "none" /\ reply = "none" /\ tries = 0
    /\ lost = FALSE

\* The server gets a new version of the page, between two connections.
PageChanges == /\ page = 1 /\ hpc = "top"
               /\ page' = 2
               /\ UNCHANGED <<hpc, hsetup, rstart, rend, errs, loop, etag, out, file, conn, tot,
                              xfer, reply, tries, lost>>

-----------------------------------------------------------------------------
(* setoffset() and output()                                               *)

setoffset(o, n) == [o EXCEPT !.offset = n, !.curr = IF n = 0 THEN <<>> ELSE nildigest]

\* How much of what comes next has been written already.
Behind(o) == o.written - o.offset

\* The bytes sent again are those of the first time.
SameAgain(o, buf) == o.curr = nildigest \/ o.curr \o SubSeq(buf, 1, Behind(o)) = o.hiwat

\* What output() makes of out; short: write() takes a byte less than it should.
Output(o, buf, short) ==
    LET n == Len(buf)
        d == Behind(o)
        new == SubSeq(buf, d + 1, n)
        w == IF short /\ n > d THEN n - d - 1 ELSE n - d
        caught == [o EXCEPT !.offset = @ + d, !.curr = IF d > 0 THEN nildigest ELSE @]
    IN IF n < d
       THEN [ok |-> TRUE, add |-> <<>>,
             out |-> [o EXCEPT !.offset = @ + n,
                               !.curr = IF @ = nildigest THEN @ ELSE @ \o buf]]
       ELSE IF d > 0 /\ ~SameAgain(o, buf)
       THEN [ok |-> FALSE, add |-> <<>>, out |-> [o EXCEPT !.curr = nildigest]]
       ELSE [ok |-> w = n - d, add |-> SubSeq(new, 1, w),
             out |-> [caught EXCEPT !.offset = @ + w, !.written = @ + w, !.hiwat = @ \o new]]

\* k bytes are read from the connection and put out.
Reads(k) == k <= Len(conn) /\ Behind(out) >= 0           \* assert(d >= 0)
PutsOut(k, r) == /\ out' = r.out
                 /\ file' = file \o r.add
                 /\ conn' = SubSeq(conn, k + 1, Len(conn))

\* The assertion of output() fails.
Aborts == /\ conn # <<>> /\ Behind(out) < 0
          /\ hpc' = "abort"

-----------------------------------------------------------------------------
(* threadmain()                                                           *)

ReturnsError == /\ errs' = errs + 1
                /\ hpc' = IF errs < MaxErrs THEN "top" ELSE "fatal"

\* dohttp() always moves back to a multiple of 512 bytes.
Attempt ==
    /\ hpc = "top" /\ tries < MaxTries
    /\ out' = setoffset(out, 0)
    /\ rstart' = IF scheme = "http" /\ rstart > 0 THEN ((rstart - 1) \div Bound) * Bound ELSE rstart
    /\ loop' = 0 /\ tot' = 0 /\ xfer' = "none" /\ reply' = "none"
    /\ tries' = tries + 1
    /\ hpc' = IF scheme = "http" THEN "request" ELSE "login"
    /\ UNCHANGED <<hsetup, page, rend, errs, etag, file, conn, lost>>

\* No connection, no TLS session, or none that answers; HTTP headers cut off.
ConnectFails == /\ hpc \in {"request", "login"}
                /\ ReturnsError
                /\ UNCHANGED <<hsetup, page, rstart, rend, loop, etag, out, file, conn, tot, xfer,
                               reply, tries, lost>>

\* httprcode(): an empty line where the response should be counts as Eof.
EmptyReply == /\ hpc = "request"
              /\ hpc' = "ok"
              /\ UNCHANGED <<hsetup, page, rstart, rend, errs, loop, etag, out, file, conn, tot, xfer,
                             reply, tries, lost>>

-----------------------------------------------------------------------------
(* dohttp()                                                               *)

\* The switch on the response code, and httpheaders(); h: the headers.  An
\* etag that differs from the one seen before is a changed file.
ChangedUnderfoot(h) == etag # 0 /\ h.etag # 0 /\ etag # h.etag

\* hhclen() and hhcrange() both set r->end: the last one of them counts.
EndOf(h) == IF h.crange # 0 /\ h.lastcrange THEN h.crange
            ELSE IF h.clen # -1 THEN h.clen
            ELSE IF h.crange # 0 THEN h.crange ELSE rend

Again(code) == code \in {"moved", "auth"}
Fatal(code, h) == \/ code = "ok" /\ ~ofile /\ rstart # 0      \* page changed underfoot
                  \/ ChangedUnderfoot(h)
                  \/ code = "moved" /\ ~h.location
                  \/ code = "auth" /\ h.badauth                \* hhauth()
                  \/ code = "refused"

Answered(code, h, body) ==
    /\ hpc = "request"
    /\ etag' = IF etag = 0 THEN h.etag ELSE etag
    /\ rend' = EndOf(h)
    /\ out' = IF code = "partial" THEN setoffset(out, rstart) ELSE out
    /\ \/ Fatal(code, h) /\ hpc' = "fatal" /\ UNCHANGED <<loop, conn, lost>>
       \/ /\ ~Fatal(code, h)
          /\ loop' = IF Again(code) THEN loop + 1 ELSE loop
          /\ hpc' = IF Again(code) /\ loop' < MaxLoop THEN "request" ELSE "transfer"
          /\ lost' = (Again(code) /\ loop' = MaxLoop)
          /\ conn' = IF hpc' = "transfer" THEN body ELSE <<>>
    /\ UNCHANGED <<hsetup, page, rstart, errs, file, tot, xfer, reply, tries>>

NoHeaders == [etag |-> 0, clen |-> -1, crange |-> 0, lastcrange |-> FALSE, location |-> FALSE,
              badauth |-> FALSE]
WithTag(h) == IF tags THEN [h EXCEPT !.etag = page] ELSE h

\* The server answers as HTTP wants it: a part only if it is asked for, and
\* If-range: names the version that it has.
ServerOk == \E clen \in {-1, Size} :
                Answered("ok", WithTag([NoHeaders EXCEPT !.clen = clen]), Bytes(page, 0))
ServerPartial ==
    /\ rstart # 0 /\ rstart < Size
    /\ page = IF etag # 0 THEN etag ELSE mtime
    /\ \E last \in BOOLEAN :
          Answered("partial",
                   WithTag([NoHeaders EXCEPT !.clen = Size - rstart, !.crange = Size, !.lastcrange = last]),
                   Bytes(page, rstart))
ServerMoved == \E l \in BOOLEAN : Answered("moved", [NoHeaders EXCEPT !.location = l], OtherPage)
ServerAuth == \E bad \in BOOLEAN : Answered("auth", [NoHeaders EXCEPT !.badauth = bad], OtherPage)
ServerNotModified == rstart # 0 /\ Answered("notmodified", NoHeaders, <<>>)
ServerRefuses == Answered("refused", NoHeaders, <<>>)

\* readibuf() and output(): a short write ends the transfer as well.
Transfer ==
    /\ hpc = "transfer"
    /\ \E k \in 1..2, short \in BOOLEAN :
          /\ Reads(k)
          /\ LET r == Output(out, SubSeq(conn, 1, k), short) IN
              /\ PutsOut(k, r)
              /\ tot' = IF r.ok THEN tot + k ELSE tot
              /\ hpc' = IF r.ok THEN "transfer" ELSE "endhttp"
    /\ UNCHANGED <<hsetup, page, rstart, rend, errs, loop, etag, xfer, reply, tries, lost>>

\* The connection ends, in its time or before it.
ConnEnds == /\ hpc = "transfer"
            /\ hpc' = "endhttp"
            /\ UNCHANGED <<hsetup, page, rstart, rend, errs, loop, etag, out, file, conn, tot, xfer,
                           reply, tries, lost>>

Abort == /\ hpc = "transfer" \/ (hpc \in {"reply", "join"} /\ xfer = "run")
         /\ Aborts
         /\ UNCHANGED <<hsetup, page, rstart, rend, errs, loop, etag, out, file, conn, tot, xfer,
                        reply, tries, lost>>

\* dohttp() returns tot, which is Eof if it is zero.
EndHttp ==
    /\ hpc = "endhttp"
    /\ \/ tot = 0 /\ hpc' = "ok" /\ UNCHANGED <<rstart, errs>>
       \/ /\ tot > 0
          /\ errs' = 0
          /\ rstart' = rstart + tot
          /\ hpc' = IF rstart' >= rend THEN "ok" ELSE "top"
    /\ UNCHANGED <<hsetup, page, rend, loop, etag, out, file, conn, tot, xfer, reply, tries, lost>>

-----------------------------------------------------------------------------
(* doftp()                                                                *)

\* A reply of the server, by the class of its code.
Replies == {"extra", "success", "incomplete", "tempfail", "other"}
hello(rc) == rc = "success"
logon(user, pass) == user = "success" \/ (user = "incomplete" /\ pass = "success")
xfertype(rc) == rc = "success"

\* Anything but success here is a server's failure.
Login(ok) == /\ hpc = "login"
             /\ \E rc \in [1..4 -> Replies] : ok = (hello(rc[1]) /\ logon(rc[2], rc[3]) /\ xfertype(rc[4]))
             /\ hpc' = IF ok THEN "restart" ELSE "fatal"
             /\ UNCHANGED <<hsetup, page, rstart, rend, errs, loop, etag, out, file, conn, tot, xfer,
                            reply, tries, lost>>

\* ftprestart(): the time and the size of the page decide where to begin.
ftprestart(mdtm, size, rest) ==
    LET s == IF mdtm /\ page <= mtime THEN rstart ELSE 0
        uptodate == mdtm /\ size /\ s = Size
    IN /\ hpc = "restart"
       /\ rend' = IF mdtm /\ size /\ ~uptodate THEN Size ELSE rend
       /\ rstart' = IF uptodate \/ s = 0 \/ rest THEN s ELSE 0
       /\ out' = IF ~uptodate /\ s > 0 /\ rest THEN setoffset(out, s) ELSE out
       /\ hpc' = IF uptodate THEN "ok" ELSE "data"
       /\ UNCHANGED <<hsetup, page, errs, loop, etag, file, conn, tot, xfer, reply, tries, lost>>

\* A data connection: the address is told or asked for, one side calls the
\* other, and the server agrees to send the file.
passive(pasv, dialled, retr) == pasv = "success" /\ dialled /\ retr = "extra"
active(announced, port, retr, accepted) ==
    announced /\ port = "success" /\ retr = "extra" /\ accepted

\* If neither comes about doftp() returns Error; else ftpxferproc() is started.
FtpData ==
    /\ hpc = "data"
    /\ \/ /\ \E p, r \in Replies, d \in BOOLEAN : passive(p, d, r) \/ active(d, p, r, d)
          /\ hpc' = "reply" /\ xfer' = "run" /\ conn' = Bytes(page, rstart)
          /\ UNCHANGED errs
       \/ ReturnsError /\ UNCHANGED <<xfer, conn>>
    /\ UNCHANGED <<hsetup, page, rstart, rend, loop, etag, out, file, tot, reply, tries, lost>>

\* ftpxferproc()
XferRead ==
    /\ xfer = "run"
    /\ \E k \in 1..2, short \in BOOLEAN :
          /\ Reads(k)
          /\ LET r == Output(out, SubSeq(conn, 1, k), short) IN
              /\ PutsOut(k, r)
              /\ rstart' = IF r.ok THEN rstart + k ELSE rstart
              /\ xfer' = IF r.ok THEN "run" ELSE "err"
    /\ UNCHANGED <<hpc, hsetup, page, rend, errs, loop, etag, tot, reply, tries, lost>>

\* It has read everything, or the connection broke: it sends on cwait.  A
\* server that closes the connection too early does not report success.
CutOff(x) == x = "sent" /\ conn # <<>>
XferEnds ==
    /\ xfer = "run"
    /\ xfer' \in {"sent", "err"}
    /\ CutOff(xfer') => reply # "success"
    /\ UNCHANGED <<hpc, hsetup, page, rstart, rend, errs, loop, etag, out, file, conn, tot, reply,
                   tries, lost>>

\* The server has sent all, or gives up; its reply may overtake the data.
FtpReply(rv) ==
    /\ hpc = "reply"
    /\ rv = "success" => ~CutOff(xfer)
    /\ reply' = rv /\ hpc' = "join"
    /\ UNCHANGED <<hsetup, page, rstart, rend, errs, loop, etag, out, file, conn, tot, xfer, tries,
                   lost>>

\* recvul(cwait), then the reply counts, and not what ftpxferproc() sent.
NoRecvul == TRUE
XferOver == xfer \in {"sent", "err"}
Join ==
    /\ hpc = "join" /\ XferOver
    /\ \/ reply = "success" /\ hpc' = "ok" /\ UNCHANGED errs
       \/ reply = "tempfail" /\ hpc' = "fatal" /\ UNCHANGED errs
       \/ reply = "other" /\ ReturnsError
    /\ UNCHANGED <<hsetup, page, rstart, rend, loop, etag, out, file, conn, tot, xfer, reply, tries,
                   lost>>

HgetNext ==
    \/ PageChanges \/ Attempt \/ ConnectFails \/ EmptyReply
    \/ ServerOk \/ ServerPartial \/ ServerMoved \/ ServerAuth \/ ServerNotModified \/ ServerRefuses
    \/ Transfer \/ ConnEnds \/ Abort \/ EndHttp
    \/ \E ok \in BOOLEAN : Login(ok)
    \/ \E a, b, c \in BOOLEAN : ftprestart(a, b, c)
    \/ FtpData \/ XferRead \/ XferEnds
    \/ \E rv \in {"success", "tempfail", "other"} : FtpReply(rv)
    \/ Join

HgetSpec == HgetInit /\ [][HgetNext]_hvars

-----------------------------------------------------------------------------
(* Properties.                                                            *)

\* Whatever the connections bring, and although the page may change between
\* two of them, the output is the beginning of one version of the page, each
\* byte once and in its place; unless the redirects ran out, after which the
\* last redirecting document is taken for the page.
OnePage == ~lost => \A i \in DOMAIN file : file[i] = <<file[1][1], i>>

\* An FTP transfer that ended well has brought the page to its end: the reply
\* on the control connection, which may overtake the data, does not cut off
\* what ftpxferproc() still has to write.
FtpComplete ==
    (hpc = "ok" /\ scheme = "ftp" /\ reply = "success" /\ xfer # "err") => out.offset = Size

\* What hget calls a success is one page, complete, over any number of
\* connections.
PageComplete == OnePage /\ FtpComplete
=============================================================================
