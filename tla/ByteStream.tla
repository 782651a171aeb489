----------------------------- MODULE ByteStream -----------------------------
(***************************************************************************)
(* What a stdio stream promises a program that keeps to the rules of ANSI *)
(* C: a file with one position, at which bytes are read and written.      *)
(***************************************************************************)
EXTENDS Integers, Sequences

CONSTANTS Chars, MaxLen

VARIABLES
    bytes,      \* the file as the program sees it
    at,         \* the position
    back,       \* a byte pushed back that differs from the file's: <<c>>, or <<>>
    ret         \* what the last call returned

bsvars == <<bytes, at, back, ret>>

\* A call, its argument, and the number or the bytes it returns.
Number(op, arg, k) == [op |-> op, arg |-> arg, n |-> k, d |-> <<>>]
Data(op, arg, x) == [op |-> op, arg |-> arg, n |-> Len(x), d |-> x]

\* bytes with the sequence d at offset p; a hole is filled with zeros.
Overlay(b, p, d) ==
    [i \in 1..(IF p + Len(d) > Len(b) /\ d # <<>> THEN p + Len(d) ELSE Len(b)) |->
        IF i > p /\ i <= p + Len(d) THEN d[i - p] ELSE IF i <= Len(b) THEN b[i] ELSE "0"]

\* The next n bytes, beginning with the one that was pushed back.
Ahead(n) == LET f == SubSeq(bytes, at + 1, IF at + n < Len(bytes) THEN at + n ELSE Len(bytes))
            IN IF back = <<>> \/ n = 0 THEN f ELSE back \o SubSeq(f, 2, Len(f))

ByteStreamInit == bytes = <<>> /\ at = 0 /\ back = <<>> /\ ret = Number("other", 0, 0)

Write(d) == /\ bytes' = Overlay(bytes, at, d) /\ at' = at + Len(d) /\ back' = <<>>
            /\ ret' = Number("write", Len(d), Len(d))
Read(n) == /\ at' = at + Len(Ahead(n)) /\ back' = <<>>
           /\ ret' = Data("read", n, Ahead(n)) /\ UNCHANGED bytes
Unread(c) == /\ at > 0
             /\ at' = at - 1
             /\ back' = IF at <= Len(bytes) /\ bytes[at] = c THEN <<>> ELSE <<c>>
             /\ ret' = Data("unread", 1, <<c>>) /\ UNCHANGED bytes
Seek(from, base, offs) == /\ at' = base + offs /\ back' = <<>>
                          /\ ret' = Number(from, offs, 0) /\ UNCHANGED bytes
Tell == ret' = Number("tell", 0, at) /\ UNCHANGED <<bytes, at, back>>
Other == ret' = Number("other", 0, 0) /\ UNCHANGED <<bytes, at, back>>
Reopen == ret' = Number("reopen", 0, 0) /\ at' = 0 /\ back' = <<>> /\ UNCHANGED bytes

ByteStreamNext ==
    \/ \E n \in 1..MaxLen : \E d \in [1..n -> Chars] : Write(d)
    \/ \E n \in 1..MaxLen : Read(n)
    \/ \E c \in Chars : Unread(c)
    \/ \E offs \in -MaxLen..MaxLen :
          Seek("set", 0, offs) \/ Seek("cur", at, offs) \/ Seek("end", Len(bytes), offs)
    \/ Tell \/ Other \/ Reopen

ByteStreamSpec == ByteStreamInit /\ [][ByteStreamNext]_bsvars
=============================================================================
