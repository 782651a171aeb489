------------------------- MODULE DevdrawSrv_proofs -------------------------
(***************************************************************************)
(* Proofs about DevdrawSrv, for rings and buffers of any size and any     *)
(* number of tags, events and requests.                                   *)
(***************************************************************************)
EXTENDS DevdrawSrv, FiniteSetTheorems, NaturalsInduction, WellFoundedInduction, TLAPS

-----------------------------------------------------------------------------
(* Rings.                                                                 *)

Rings(n, V) == [b : [Index(n) -> V], ri : Index(n), wi : Index(n), stall : BOOLEAN]

\* An index is its own remainder.
LEMMA ModSmall == ASSUME NEW n \in Nat \ {0}, NEW x \in 0..(n-1) PROVE x % n = x
OBVIOUS

\* % on numbers just below 0, as the difference of two indexes may be.
LEMMA ModNegative == ASSUME NEW n \in Nat \ {0}, NEW x \in Int, -n <= x, x < 0 PROVE x % n = x + n
OBVIOUS

\* % on numbers just above the modulus, as the sum of two indexes may be.
LEMMA ModLarge == ASSUME NEW n \in Nat \ {0}, NEW x \in n..(2*n - 1) PROVE x % n = x - n
OBVIOUS

\* Any number becomes an index.
LEMMA ModIndex == ASSUME NEW n \in Nat \ {0}, NEW x \in Int PROVE x % n \in Index(n)
BY DEF Index

\* How many values wait in a ring.
LEMMA WaitingIs ==
    ASSUME NEW n \in Nat \ {0}, NEW V, NEW q \in Rings(n, V)
    PROVE  /\ Waiting(q, n) = IF q.wi >= q.ri THEN q.wi - q.ri ELSE q.wi - q.ri + n
           /\ Waiting(q, n) \in 0..(n - 1)
<1>1. q.wi \in 0..(n-1) /\ q.ri \in 0..(n-1) BY DEF Rings, Index
<1> DEFINE x == q.wi - q.ri
<1>2. x \in Int /\ (q.wi >= q.ri => x \in 0..(n-1)) /\ (q.wi < q.ri => -n <= x /\ x < 0) BY <1>1
<1>3. CASE q.wi >= q.ri
  <2>1. x % n = x BY <1>2, <1>3, ModSmall
  <2> QED BY <1>1, <1>3, <2>1 DEF Waiting
<1>4. CASE q.wi < q.ri
  <2>1. x % n = x + n BY <1>2, <1>4, ModNegative
  <2> QED BY <1>1, <1>4, <2>1 DEF Waiting
<1> QED BY <1>1, <1>3, <1>4

\* A value more: the ring is full then, which looks as if it were empty, or one
\* more waits.
LEMMA PutRing ==
    ASSUME NEW n \in Nat \ {0}, NEW V, NEW q \in Rings(n, V), NEW v \in V
    PROVE  LET p == Put(q, n, v)
           IN  /\ p \in Rings(n, V) /\ p.ri = q.ri /\ p.stall = q.stall
               /\ p.ri = p.wi <=> Waiting(q, n) = n - 1
               /\ p.ri # p.wi => Waiting(p, n) = Waiting(q, n) + 1
               /\ \A i \in Index(n) : p.b[i] = IF i = q.wi THEN v ELSE q.b[i]
<1> DEFINE w == (q.wi + 1) % n
           p == Put(q, n, v)
<1>1. q.wi \in 0..(n-1) /\ q.ri \in 0..(n-1) BY DEF Rings, Index
<1>2. w = IF q.wi = n - 1 THEN 0 ELSE q.wi + 1
  <2>1. CASE q.wi = n - 1
    <3>1. (q.wi + 1) \in n..(2*n - 1) BY <2>1, <1>1
    <3> QED BY <2>1, <3>1, ModLarge
  <2>2. CASE q.wi # n - 1
    <3>1. (q.wi + 1) \in 0..(n - 1) BY <2>2, <1>1
    <3> QED BY <2>2, <3>1, ModSmall
  <2> QED BY <2>1, <2>2
<1>3. w \in Index(n) BY <1>1, <1>2 DEF Index
<1> HIDE DEF w
<1>4. p = [b |-> [q.b EXCEPT ![q.wi] = v], ri |-> q.ri, wi |-> w, stall |-> q.stall]
  <2>1. q = [b |-> q.b, ri |-> q.ri, wi |-> q.wi, stall |-> q.stall] BY DEF Rings
  <2>2. p = [q EXCEPT !.b = [q.b EXCEPT ![q.wi] = v], !.wi = w] BY DEF Put, w
  <2> QED BY <2>1, <2>2
<1> HIDE DEF p
<1>5. p \in Rings(n, V) /\ p.ri = q.ri /\ p.stall = q.stall /\ p.wi = w BY <1>3, <1>4 DEF Rings
<1>6. \A i \in Index(n) : p.b[i] = IF i = q.wi THEN v ELSE q.b[i] BY <1>4 DEF Rings
<1>7. /\ Waiting(q, n) = IF q.wi >= q.ri THEN q.wi - q.ri ELSE q.wi - q.ri + n
      /\ Waiting(p, n) = IF p.wi >= p.ri THEN p.wi - p.ri ELSE p.wi - p.ri + n
  BY <1>5, WaitingIs
<1>8. /\ p.ri = p.wi <=> Waiting(q, n) = n - 1
      /\ p.ri # p.wi => Waiting(p, n) = Waiting(q, n) + 1
  BY <1>1, <1>2, <1>5, <1>7
<1> QED BY <1>5, <1>6, <1>8 DEF p

\* k values less.
LEMMA SkipRing ==
    ASSUME NEW n \in Nat \ {0}, NEW V, 0 \in V, NEW q \in Rings(n, V), NEW k \in 0..Waiting(q, n)
    PROVE  LET s == Skip(q, n, k)
           IN  /\ s \in Rings(n, V) /\ s.wi = q.wi /\ s.stall = q.stall
               /\ Waiting(s, n) = Waiting(q, n) - k
<1> DEFINE r == (q.ri + k) % n
           s == Skip(q, n, k)
<1>1. q.wi \in 0..(n-1) /\ q.ri \in 0..(n-1) BY DEF Rings, Index
<1>2. /\ Waiting(q, n) = IF q.wi >= q.ri THEN q.wi - q.ri ELSE q.wi - q.ri + n
      /\ Waiting(q, n) \in 0..(n - 1)
  BY WaitingIs
<1>3. k \in 0..(n-1) BY <1>2
<1>4. r = IF q.ri + k >= n THEN q.ri + k - n ELSE q.ri + k
  <2>1. CASE q.ri + k >= n
    <3>1. (q.ri + k) \in n..(2*n - 1) BY <2>1, <1>1, <1>3
    <3> DEFINE x == q.ri + k
    <3> HIDE DEF x
    <3>2. x % n = x - n BY <3>1, ModLarge DEF x
    <3> HIDE DEF r
    <3>3. r = x % n BY Zenon DEF r, x
    <3>4. r = x - n BY <3>2, <3>3
    <3> QED BY <1>1, <1>3, <2>1, <3>4 DEF x
  <2>2. CASE ~(q.ri + k >= n)
    <3>1. (q.ri + k) \in 0..(n - 1) BY <2>2, <1>1, <1>3
    <3> QED BY <2>2, <3>1, ModSmall
  <2> QED BY <2>1, <2>2
<1>5. r \in Index(n) BY <1>1, <1>3, <1>4 DEF Index
<1> DEFINE b == [i \in Index(n) |-> IF (i - q.ri) % n < k THEN 0 ELSE q.b[i]]
<1>6. b \in [Index(n) -> V]
  <2>1. \A i \in Index(n) : q.b[i] \in V BY DEF Rings
  <2>2. ASSUME NEW i \in Index(n) PROVE (IF (i - q.ri) % n < k THEN 0 ELSE q.b[i]) \in V BY <2>1
  <2> QED BY <2>2
<1>7. s = [b |-> b, ri |-> r, wi |-> q.wi, stall |-> q.stall]
  <2>1. q = [b |-> q.b, ri |-> q.ri, wi |-> q.wi, stall |-> q.stall] BY DEF Rings
  <2>2. s = [q EXCEPT !.ri = r, !.b = b] BY DEF Skip
  <2> HIDE DEF s, b, r
  <2> QED BY <2>1, <2>2
<1> HIDE DEF s, b, r
<1>8. s \in Rings(n, V) /\ s.wi = q.wi /\ s.stall = q.stall /\ s.ri = r BY <1>5, <1>6, <1>7 DEF Rings
<1>9. Waiting(s, n) = IF s.wi >= s.ri THEN s.wi - s.ri ELSE s.wi - s.ri + n BY <1>8, WaitingIs
<1>10. Waiting(s, n) = Waiting(q, n) - k BY <1>1, <1>2, <1>3, <1>4, <1>8, <1>9
<1> QED BY <1>8, <1>10 DEF s

\* What is read of a ring is one of its values.
LEMMA ItemOfRing ==
    ASSUME NEW n \in Nat \ {0}, NEW V, NEW q \in Rings(n, V), NEW k \in Int
    PROVE  Item(q, n, k) \in V
<1>1. q.ri \in Int /\ q.b \in [Index(n) -> V] BY DEF Rings, Index
<1>2. (q.ri + k - 1) % n \in Index(n) BY <1>1, ModIndex
<1> QED BY <1>1, <1>2 DEF Item

\* The lesser of two numbers, as matchkbd() and matchmouse() take it.
LEMMA MinOfTwo ==
    ASSUME NEW a \in Nat, NEW b \in Nat
    PROVE  Min({a, b}) = IF a <= b THEN a ELSE b
<1> DEFINE m == IF a <= b THEN a ELSE b
<1>1. m \in {a, b} /\ \A y \in {a, b} : m <= y OBVIOUS
<1>2. \A x \in {a, b} : (\A y \in {a, b} : x <= y) => x = m OBVIOUS
<1> HIDE DEF m
<1>3. Min({a, b}) = m BY <1>1, <1>2 DEF Min
<1> QED BY <1>3 DEF m

\* What matchmouse() and matchkbd() do to the two rings: one of them is empty
\* afterwards, unless matchkbd() finds the first one stalled.
LEMMA MatchedRings ==
    ASSUME NEW n1 \in Nat \ {0}, NEW n2 \in Nat \ {0}, NEW V1, NEW V2, 0 \in V1, 0 \in V2,
           NEW q1 \in Rings(n1, V1), NEW q2 \in Rings(n2, V2)
    PROVE  LET n == Min({Waiting(q1, n1), Waiting(q2, n2)})
               s1 == Skip(q1, n1, n)
               s2 == Skip(q2, n2, n)
           IN  /\ n \in 0..Waiting(q1, n1) /\ n \in 0..Waiting(q2, n2)
               /\ n = 0 <=> Waiting(q1, n1) = 0 \/ Waiting(q2, n2) = 0
               /\ s1 \in Rings(n1, V1) /\ s1.stall = q1.stall /\ Waiting(s1, n1) = Waiting(q1, n1) - n
               /\ s2 \in Rings(n2, V2) /\ s2.stall = q2.stall /\ Waiting(s2, n2) = Waiting(q2, n2) - n
               /\ Waiting(s1, n1) = 0 \/ Waiting(s2, n2) = 0
<1> DEFINE w1 == Waiting(q1, n1)
           w2 == Waiting(q2, n2)
           n == Min({w1, w2})
<1>1. w1 \in Nat /\ w2 \in Nat BY WaitingIs
<1> HIDE DEF w1, w2
<1>2. n = IF w1 <= w2 THEN w1 ELSE w2 BY <1>1, MinOfTwo
<1>3. n \in 0..w1 /\ n \in 0..w2 BY <1>1, <1>2
<1> HIDE DEF n
<1>4. Skip(q1, n1, n) \in Rings(n1, V1) /\ Skip(q1, n1, n).stall = q1.stall
      /\ Waiting(Skip(q1, n1, n), n1) = w1 - n
  BY <1>3, SkipRing DEF w1
<1>5. Skip(q2, n2, n) \in Rings(n2, V2) /\ Skip(q2, n2, n).stall = q2.stall
      /\ Waiting(Skip(q2, n2, n), n2) = w2 - n
  BY <1>3, SkipRing DEF w2
<1>6. w1 - n = 0 \/ w2 - n = 0 BY <1>1, <1>2
<1>7. n = 0 <=> w1 = 0 \/ w2 = 0 BY <1>1, <1>2
<1> QED BY <1>3, <1>4, <1>5, <1>6, <1>7 DEF n, w1, w2

-----------------------------------------------------------------------------
(* The types of the variables.                                            *)

\* The characters.
Chars == 0..MaxKeys

Messages == [type : Reads \cup Sync, tag : Tags]
Replies  == [type : Reads \cup Sync \cup {"part", "error", "resized"}, tag : Tags \cup {0}, val : Int]
Writers  == [at : {"start", "writing", "written", "waitmore"}, n : Nat]

\* What is given to iowrite() is in fdout.
WritesWithin == /\ rp \in Nat /\ rp <= Len(fdout)
                /\ writer.at \in {"writing", "written"} => rp + writer.n <= Len(fdout)

Queues == /\ ckbd \in Seq(Chars) /\ cmouse \in Seq(Nat)
          /\ pipe \in Seq(Messages) /\ fdin \in Seq(Messages)
          /\ reader \in {"attach", "screen"} => fdin # <<>>

History == [typed : Chars, moved : Nat, key : {hist.key}, move : {hist.move},
            sized : Nat, owed : BOOLEAN, queued : SUBSET Chars]

Typed ==
    /\ status \in {"up", "exited", "fatal"}
    /\ reader \in {"check", "notew", "reading", "run", "attach", "screen"}
    /\ win \in {"none", "creating", "created", "showing", "shown", "idle", "size"}
    /\ writer \in Writers /\ fdout \in Seq(Replies) /\ WritesWithin
    /\ kbd \in Rings(Nring, Chars) /\ mouse \in Rings(Nring, Nat)
    /\ kbdtags \in Rings(Ntags, Tags \cup {0}) /\ mousetags \in Rings(Ntags, Tags \cup {0})
    /\ gscreen \in BOOLEAN /\ mresized \in BOOLEAN /\ wasctl \in BOOLEAN
    /\ alting \in -1..MaxKeys
    /\ out \in [Tags -> Reads \cup Sync \cup {"free"}]
    /\ hist \in History
    /\ Queues

\* The sizes and bounds are numbers.
LEMMA Sizes == /\ Nring \in Nat \ {0, 1} /\ Ntags \in Nat \ {0} /\ Nchan \in Nat \ {0}
               /\ MAXWMSG \in Nat \ {0} /\ Big \in Nat \ {0} /\ MaxReads \in Nat \ {0}
               /\ Window \in Nat /\ MaxKeys \in Nat /\ MaxMoves \in Nat /\ MaxSizes \in Nat
BY SizesAssumption, RingAssumption, BoundsAssumption

\* An empty ring is a ring, with no value waiting.
LEMMA EmptyRing ==
    ASSUME NEW n \in Nat \ {0}, NEW V, 0 \in V
    PROVE  Ring(n) \in Rings(n, V) /\ Waiting(Ring(n), n) = 0 /\ ~Ring(n).stall
<1>1. Ring(n) \in Rings(n, V) /\ Ring(n).ri = 0 /\ Ring(n).wi = 0 /\ ~Ring(n).stall
  BY DEF Ring, Rings, Index
<1> HIDE DEF Ring
<1> QED BY <1>1, WaitingIs

\* What replymsg() does.
LEMMA Replied ==
    ASSUME Typed, NEW cs \in Seq(Replies), replymsg(cs), UNCHANGED rp
    PROVE  /\ fdout' \in Seq(Replies) /\ writer' \in Writers /\ WritesWithin'
           /\ status' \in {status, "fatal"}
<1>1. CASE Len(fdout) + Len(cs) > 2 * MAXWMSG
  BY <1>1 DEF Typed, replymsg, WritesWithin
<1>2. CASE ~(Len(fdout) + Len(cs) > 2 * MAXWMSG)
  <2>1. /\ fdout' = fdout \o cs /\ status' = status
        /\ writer' = writer \/ (writer.at = "waitmore" /\ writer' = [writer EXCEPT !.at = "start"])
    BY <1>2 DEF replymsg, Woken
  <2>2. fdout' \in Seq(Replies) /\ Len(fdout') >= Len(fdout) BY <2>1 DEF Typed
  <2>3. writer' \in Writers /\ (writer'.at \in {"writing", "written"} => writer' = writer)
    BY <2>1 DEF Typed, Writers
  <2>4. WritesWithin' BY <2>2, <2>3 DEF WritesWithin, Typed, Writers
  <2> QED BY <2>1, <2>2, <2>3, <2>4
<1> QED BY <1>1, <1>2

\* The cells of a reply.
LEMMA CellsSeq ==
    ASSUME NEW ty \in Sync \cup {"error"}, NEW t \in Tags
    PROVE  Cells(Reply(ty, t, 0)) \in Seq(Replies)
<1> DEFINE r == Reply(ty, t, 0)
           m == ReplySize(r.type)
<1>1. r \in Replies /\ r.tag = t BY DEF Reply, Replies
<1>2. Reply("part", t, 0) \in Replies BY DEF Reply, Replies
<1>3. m \in Nat BY Sizes DEF ReplySize
<1> HIDE DEF r
<1>4. Cells(r) = [i \in 1..m |-> IF i = m THEN r ELSE Reply("part", t, 0)] BY <1>1 DEF Cells
<1> HIDE DEF m
<1> QED BY <1>1, <1>2, <1>3, <1>4 DEF r

\* What matchkbd() leaves behind.
LEMMA MatchkbdTyped ==
    ASSUME Typed, NEW k \in Rings(Nring, Chars), NEW tg \in Rings(Ntags, Tags \cup {0}),
           NEW more \in SUBSET Chars, matchkbd(k, tg, more), UNCHANGED rp
    PROVE  /\ kbd' \in Rings(Nring, Chars) /\ kbdtags' \in Rings(Ntags, Tags \cup {0})
           /\ fdout' \in Seq(Replies) /\ writer' \in Writers /\ WritesWithin'
           /\ status' \in {status, "fatal"} /\ hist' \in History' /\ hist'.owed = hist.owed
<1> DEFINE n == Matches(k, tg)
           cs == [j \in 1..n |-> Reply("rdkbd", Item(tg, Ntags, j), Item(k, Nring, j))]
<1>1. 0 \in Chars /\ 0 \in Tags \cup {0} /\ Nring \in Nat \ {0} /\ Ntags \in Nat \ {0} BY Sizes DEF Chars
<1>2. n \in 0..Waiting(k, Nring) /\ n \in 0..Waiting(tg, Ntags)
  <2>1. CASE k.stall
    <3>1. n = 0 BY <2>1 DEF Matches
    <3>2. Waiting(k, Nring) \in Nat /\ Waiting(tg, Ntags) \in Nat BY <1>1, WaitingIs
    <3> QED BY <3>1, <3>2
  <2>2. CASE ~k.stall
    <3>1. n = Min({Waiting(k, Nring), Waiting(tg, Ntags)}) BY <2>2 DEF Matches
    <3> QED BY <3>1, <1>1, MatchedRings
  <2> QED BY <2>1, <2>2
<1>3. n \in Nat BY <1>1, <1>2, WaitingIs
<1> HIDE DEF n
<1>4. kbd' \in Rings(Nring, Chars) /\ kbdtags' \in Rings(Ntags, Tags \cup {0})
  BY <1>1, <1>2, SkipRing DEF matchkbd, n
<1>5. cs \in Seq(Replies)
  <2>1. ASSUME NEW j \in 1..n PROVE Reply("rdkbd", Item(tg, Ntags, j), Item(k, Nring, j)) \in Replies
    <3>2. Item(tg, Ntags, j) \in Tags \cup {0} /\ Item(k, Nring, j) \in Chars
      BY <1>1, <1>3, ItemOfRing
    <3>3. Item(k, Nring, j) \in Int BY <3>2, Sizes DEF Chars
    <3> QED BY <3>2, <3>3 DEF Reply, Replies, Reads
  <2> QED BY <1>3, <2>1
<1>6. replymsg(cs) BY DEF matchkbd, n
<1> HIDE DEF cs
<1>7. PICK x \in SUBSET Chars : hist' = [hist EXCEPT !.queued = x]
  <2>1. hist.queued \in SUBSET Chars BY DEF Typed, History
  <2> QED BY <2>1 DEF matchkbd
<1>8. hist' \in History' /\ hist'.owed = hist.owed BY <1>7 DEF Typed, History
<1> QED BY <1>4, <1>5, <1>6, <1>8, Replied

\* What matchmouse() leaves behind: nothing waits on one of the two sides, and
\* a change of size that is still owed met no read.
LEMMA MatchmouseTyped ==
    ASSUME Typed, NEW m \in Rings(Nring, Nat), NEW tg \in Rings(Ntags, Tags \cup {0}),
           matchmouse(m, tg), UNCHANGED rp
    PROVE  /\ mouse' \in Rings(Nring, Nat) /\ mousetags' \in Rings(Ntags, Tags \cup {0})
           /\ fdout' \in Seq(Replies) /\ writer' \in Writers /\ WritesWithin'
           /\ status' \in {status, "fatal"} /\ hist' \in History'
           /\ mresized' \in BOOLEAN
           /\ win' = win \/ (win = "idle" /\ win' = "size")
           /\ Waiting(mouse', Nring) = 0 \/ Waiting(mousetags', Ntags) = 0
           /\ mouse'.stall = m.stall
           /\ Waiting(tg, Ntags) = 0 => Waiting(mouse', Nring) = Waiting(m, Nring)
           /\ hist'.owed /\ (hist.owed => mresized) =>
                hist.owed /\ mresized' /\ Waiting(mouse', Nring) = Waiting(m, Nring)
<1> DEFINE n == Min({Waiting(m, Nring), Waiting(tg, Ntags)})
           ty(j) == IF j = 1 /\ mresized THEN "resized" ELSE "rdmouse"
           cs == [j \in 1..n |-> Reply(ty(j), Item(tg, Ntags, j), Item(m, Nring, j))]
<1>1. 0 \in Nat /\ 0 \in Tags \cup {0} /\ Nring \in Nat \ {0} /\ Ntags \in Nat \ {0} BY Sizes
<1>2. n \in 0..Waiting(m, Nring) /\ n \in 0..Waiting(tg, Ntags)
  BY <1>1, MatchedRings
<1>3. n \in Nat /\ Waiting(m, Nring) \in Nat /\ Waiting(tg, Ntags) \in Nat BY <1>1, <1>2, WaitingIs
<1>4. /\ mouse' \in Rings(Nring, Nat) /\ mousetags' \in Rings(Ntags, Tags \cup {0})
      /\ mouse'.stall = m.stall /\ Waiting(mouse', Nring) = Waiting(m, Nring) - n
      /\ Waiting(mouse', Nring) = 0 \/ Waiting(mousetags', Ntags) = 0
  BY <1>1, MatchedRings DEF matchmouse
<1>5. replymsg(cs) BY DEF matchmouse
<1>6. /\ mresized' = (mresized /\ n = 0)
      /\ \/ /\ win' = win
            /\ hist' = [hist EXCEPT !.owed = @ /\ (n = 0 \/ ~mresized)]
         \/ /\ win = "idle" /\ win' = "size"
            /\ hist' = [hist EXCEPT !.owed = FALSE, !.sized = @ + 1]
  BY DEF matchmouse, Torn
<1> HIDE DEF n
<1>7. cs \in Seq(Replies)
  <2>1. ASSUME NEW j \in 1..n PROVE Reply(ty(j), Item(tg, Ntags, j), Item(m, Nring, j)) \in Replies
    <3>1. Item(tg, Ntags, j) \in Tags \cup {0} /\ Item(m, Nring, j) \in Nat
      BY <1>1, <1>3, ItemOfRing
    <3> QED BY <3>1 DEF Reply, Replies, Reads
  <2> QED BY <1>3, <2>1
<1> HIDE DEF cs
<1>8. hist' \in History' /\ (hist'.owed => hist.owed /\ (n = 0 \/ ~mresized))
  <2>1. hist \in History BY DEF Typed
  <2>2. CASE hist' = [hist EXCEPT !.owed = @ /\ (n = 0 \/ ~mresized)]
    <3>1. hist'.owed = (hist.owed /\ (n = 0 \/ ~mresized)) BY <2>1, <2>2 DEF History
    <3>2. hist'.owed \in BOOLEAN BY <3>1
    <3> QED BY <2>1, <2>2, <3>1, <3>2 DEF History
  <2>3. CASE hist' = [hist EXCEPT !.owed = FALSE, !.sized = @ + 1]
    <3>1. hist.sized + 1 \in Nat /\ hist'.owed = FALSE BY <2>1, <2>3 DEF History
    <3>2. hist' \in History' BY <2>1, <2>3, <3>1 DEF History
    <3> QED BY <3>1, <3>2
  <2> QED BY <2>2, <2>3, <1>6
<1>9. Waiting(tg, Ntags) = 0 => n = 0 BY <1>2, <1>3
<1>10. mresized' \in BOOLEAN BY <1>6
<1>11. fdout' \in Seq(Replies) /\ writer' \in Writers /\ WritesWithin' /\ status' \in {status, "fatal"}
  BY <1>5, <1>7, Replied
<1>12. win' = win \/ (win = "idle" /\ win' = "size") BY <1>6
<1>13. n = 0 => Waiting(mouse', Nring) = Waiting(m, Nring) BY <1>3, <1>4
<1>14. hist'.owed /\ (hist.owed => mresized) => hist.owed /\ mresized' /\ n = 0 BY <1>6, <1>8
<1> QED BY <1>4, <1>8, <1>9, <1>10, <1>11, <1>12, <1>13, <1>14

\* The requests that a step may be, status being "up".
LEMMA Steps ==
    ASSUME [Next]_vars
    PROVE  \/ UNCHANGED vars
           \/ \E ty \in Reads \cup Sync, t \in Tags : Send(ty, t)
           \/ Check
           \/ \E k \in 0..Len(pipe) : ioread(k)
           \/ Eof \/ Slide \/ Trdkbd \/ Trdmouse
           \/ \E ty \in Sync : Tother(ty)
           \/ Tinit \/ mkgscreen \/ Attached
           \/ iowrite
           \/ \E k \in 1..writer.n : Written(k)
           \/ WriteMore \/ WaitMore
           \/ kbdthread \/ mousethread
           \/ CreateWindow \/ ShowWindow \/ Shown
           \/ \E k \in Keys : kbdputc(k)
           \/ MouseMove \/ WindowSize \/ SizeSent \/ CloseWindow
<1>1. Client => \E ty \in Reads \cup Sync, t \in Tags : Send(ty, t)
  BY RequestsAssumption DEF Client
<1>2. Read => \E k \in 0..Len(pipe) : ioread(k) BY DEF Read
<1> QED BY <1>1, <1>2 DEF Next, Run, Attach, Write, Starts, Events

\* utoplan9kbd() returns characters.
LEMMA Utoplan9 ==
    ASSUME Typed, NEW c \in Chars, NEW u \in utoplan9kbd(c)
    PROVE  u[1] \in Chars /\ u[2] \in -1..MaxKeys
<1>1. alting \in -1..MaxKeys /\ MaxKeys \in Nat /\ c \in 0..MaxKeys BY Sizes DEF Typed, Chars
<1>2. CASE c = 0
  <2>1. u = <<0, IF alting = -1 THEN 0 ELSE -1>> BY <1>2 DEF utoplan9kbd
  <2> QED BY <2>1, <1>1 DEF Chars
<1>3. CASE c # 0 /\ alting = -1
  <2>1. u = <<c, -1>> BY <1>3 DEF utoplan9kbd
  <2> QED BY <2>1, <1>1 DEF Chars
<1>4. CASE c # 0 /\ alting # -1
  <2>1. PICK first \in {c, alting} : /\ first = IF alting = 0 THEN c ELSE alting
                                     /\ u \in {<<c, -1>>, <<first, -1>>, <<0, first>>}
    BY <1>4 DEF utoplan9kbd
  <2>2. first \in 0..MaxKeys BY <1>1, <1>4, <2>1
  <2> QED BY <2>1, <2>2, <1>1 DEF Chars
<1> QED BY <1>2, <1>3, <1>4

\* The rings that matchkbd() and matchmouse() are given.
LEMMA GivenRings ==
    ASSUME Typed
    PROVE  /\ \A c \in Chars : Stalls(Put(kbd, Nring, c)) \in Rings(Nring, Chars)
           /\ KbdUnstalled(kbd) \in Rings(Nring, Chars)
           /\ [mouse EXCEPT !.stall = FALSE] \in Rings(Nring, Nat)
           /\ Waiting([mouse EXCEPT !.stall = FALSE], Nring) = Waiting(mouse, Nring)
           /\ \A t \in Tags : Put(kbdtags, Ntags, t) \in Rings(Ntags, Tags \cup {0})
           /\ \A t \in Tags : Put(mousetags, Ntags, t) \in Rings(Ntags, Tags \cup {0})
<1> USE Sizes
<1>1. ASSUME NEW c \in Chars PROVE Stalls(Put(kbd, Nring, c)) \in Rings(Nring, Chars)
  <2> DEFINE p == Put(kbd, Nring, c)
  <2>1. p \in Rings(Nring, Chars) BY PutRing DEF Typed
  <2> HIDE DEF p
  <2>2. (p.ri = p.wi) \in BOOLEAN OBVIOUS
  <2>3. [p EXCEPT !.stall = (p.ri = p.wi)] \in Rings(Nring, Chars) BY <2>1, <2>2 DEF Rings
  <2> QED BY <2>3 DEF Stalls, p
<1>2. KbdUnstalled(kbd) \in Rings(Nring, Chars) BY DEF Typed, Rings, KbdUnstalled
<1>3. [mouse EXCEPT !.stall = FALSE] \in Rings(Nring, Nat) BY DEF Typed, Rings
<1>4. Waiting([mouse EXCEPT !.stall = FALSE], Nring) = Waiting(mouse, Nring)
  BY DEF Typed, Rings, Waiting
<1>5. /\ \A t \in Tags : Put(kbdtags, Ntags, t) \in Rings(Ntags, Tags \cup {0})
      /\ \A t \in Tags : Put(mousetags, Ntags, t) \in Rings(Ntags, Tags \cup {0})
  BY PutRing DEF Typed
<1> QED BY <1>1, <1>2, <1>3, <1>4, <1>5

\* mousethread()'s event is in the ring, alone if it has filled it.
LEMMA LatestKept ==
    ASSUME Typed, ~mouse.stall, NEW e \in Nat
    PROVE  LET m == KeepsLatest(Put(mouse, Nring, e), e)
           IN  /\ m \in Rings(Nring, Nat) /\ Waiting(m, Nring) > 0
               /\ m.stall => Waiting(mouse, Nring) > 0
<1> USE Sizes
<1> DEFINE p == Put(mouse, Nring, e)
           r == Put(Ring(Nring), Nring, e)
<1>1. /\ p \in Rings(Nring, Nat) /\ p.stall = mouse.stall
      /\ p.ri = p.wi <=> Waiting(mouse, Nring) = Nring - 1
      /\ p.ri # p.wi => Waiting(p, Nring) = Waiting(mouse, Nring) + 1
  BY PutRing DEF Typed
<1>2. /\ r \in Rings(Nring, Nat) /\ Waiting(r, Nring) = 1
  <2>1. Ring(Nring) \in Rings(Nring, Nat) /\ Waiting(Ring(Nring), Nring) = 0 BY EmptyRing
  <2> HIDE DEF Ring
  <2>2. /\ r \in Rings(Nring, Nat)
        /\ r.ri = r.wi <=> Waiting(Ring(Nring), Nring) = Nring - 1
        /\ r.ri # r.wi => Waiting(r, Nring) = Waiting(Ring(Nring), Nring) + 1
    BY <2>1, PutRing
  <2> QED BY <2>1, <2>2
<1>3. [r EXCEPT !.stall = TRUE] \in Rings(Nring, Nat) /\ Waiting([r EXCEPT !.stall = TRUE], Nring) = 1
  BY <1>2 DEF Rings, Waiting
<1>4. Waiting(mouse, Nring) \in 0..(Nring - 1) BY WaitingIs DEF Typed
<1> HIDE DEF p, r
<1>5. KeepsLatest(p, e) = IF p.ri = p.wi THEN [r EXCEPT !.stall = TRUE] ELSE p
  BY DEF KeepsLatest, r
<1>6. CASE p.ri = p.wi
  <2>1. KeepsLatest(p, e) = [r EXCEPT !.stall = TRUE] BY <1>5, <1>6
  <2>2. Waiting(mouse, Nring) > 0 BY <1>1, <1>4, <1>6
  <2> QED BY <1>3, <2>1, <2>2 DEF p
<1>7. CASE p.ri # p.wi
  <2>1. KeepsLatest(p, e) = p /\ ~p.stall BY <1>1, <1>5, <1>7
  <2>2. Waiting(p, Nring) > 0 BY <1>1, <1>4, <1>7
  <2> QED BY <1>1, <2>1, <2>2 DEF p
<1> QED BY <1>6, <1>7

\* Init gives the variables their types.
LEMMA InitTyped == Init => Typed
<1> SUFFICES ASSUME Init PROVE Typed
  OBVIOUS
<1> USE Sizes
<1>1. 0 \in Chars BY DEF Chars
<1>2. /\ kbd \in Rings(Nring, Chars) /\ mouse \in Rings(Nring, Nat)
      /\ kbdtags \in Rings(Ntags, Tags \cup {0}) /\ mousetags \in Rings(Ntags, Tags \cup {0})
  BY <1>1, EmptyRing DEF Init
<1>3. writer \in Writers /\ fdout \in Seq(Replies) /\ WritesWithin
  BY DEF Init, Writers, WritesWithin
<1>4. hist \in History BY <1>1 DEF Init, History
<1>5. Queues BY DEF Init, Queues
<1>6. alting \in -1..MaxKeys BY DEF Init
<1>7. out \in [Tags -> Reads \cup Sync \cup {"free"}] BY DEF Init
<1> QED BY <1>2, <1>3, <1>4, <1>5, <1>6, <1>7 DEF Init, Typed

\* The reader's steps keep the types.
LEMMA ReaderTyped ==
    ASSUME Typed,
           \/ Check \/ (\E k \in 0..Len(pipe) : ioread(k)) \/ Eof \/ Slide \/ Trdkbd \/ Trdmouse
           \/ (\E ty \in Sync : Tother(ty)) \/ Tinit \/ mkgscreen \/ Attached
    PROVE  Typed'
<1> USE Sizes
<1>0. fdin # <<>> => Tail(fdin) \in Seq(Messages) /\ Head(fdin) \in Messages /\ Head(fdin).tag \in Tags
  <2>1. fdin # <<>> => Tail(fdin) \in Seq(Messages) /\ Head(fdin) \in Messages
    BY DEF Typed, Queues
  <2> QED BY <2>1 DEF Messages
<1>1. CASE Check \/ Eof \/ Slide \/ Tinit \/ mkgscreen
  <2>1. reader' \in {"attach", "screen"} => fdin # <<>>
    BY <1>1 DEF Check, Eof, Slide, Tinit, mkgscreen, Typed, Queues, Runs
  <2>2. /\ status' \in {"up", "exited", "fatal"} /\ gscreen' \in BOOLEAN
        /\ reader' \in {"check", "notew", "reading", "run", "attach", "screen"}
        /\ win' \in {"none", "creating", "created", "showing", "shown", "idle", "size"}
    BY <1>1 DEF Check, Eof, Slide, Tinit, mkgscreen, Typed, ReaderUnchanged
  <2>3. UNCHANGED <<writer, evvars, kbd, mouse, mresized, kbdtags, mousetags, fdin, fdout, rp, pipe,
                    out, hist>>
    BY <1>1 DEF Check, Eof, Slide, Tinit, mkgscreen, ReaderUnchanged, AttachUnchanged
  <2> QED BY <2>1, <2>2, <2>3 DEF Typed, Queues, WritesWithin, History, evvars
<1>2. ASSUME NEW k \in 0..Len(pipe), ioread(k) PROVE Typed'
  <2>1. fdin' \in Seq(Messages) /\ pipe' \in Seq(Messages)
    BY <1>2 DEF Typed, Queues, ioread
  <2>2. reader' = "run" /\ UNCHANGED <<status, win, gscreen, evvars, kbd, mouse, mresized, kbdtags,
                               mousetags, fdout, rp, out, hist, writer>>
    BY <1>2 DEF ioread, ReaderUnchanged
  <2> QED BY <2>1, <2>2 DEF Typed, Queues, WritesWithin, History, evvars
<1>3. CASE Trdkbd
  <2> DEFINE tg == Put(kbdtags, Ntags, Head(fdin).tag)
  <2>1. /\ fdin # <<>> /\ fdin' = Tail(fdin) /\ reader = "run"
        /\ UNCHANGED <<reader, win, gscreen, evvars, mouse, mresized, mousetags, rp, pipe, out>>
        /\ \/ status' = "fatal" /\ UNCHANGED <<writer, kbd, kbdtags, fdout, hist>>
           \/ matchkbd(KbdUnstalled(kbd), tg, {})
    BY <1>3 DEF Trdkbd, Runs
  <2>2. KbdUnstalled(kbd) \in Rings(Nring, Chars) /\ tg \in Rings(Ntags, Tags \cup {0})
    BY <1>0, <2>1, GivenRings
  <2> HIDE DEF tg
  <2>3. /\ kbd' \in Rings(Nring, Chars) /\ kbdtags' \in Rings(Ntags, Tags \cup {0})
        /\ fdout' \in Seq(Replies) /\ writer' \in Writers /\ WritesWithin'
        /\ status' \in {status, "fatal"} /\ hist' \in History'
    <3>0. {} \in SUBSET Chars /\ UNCHANGED rp BY <2>1
    <3>1. CASE matchkbd(KbdUnstalled(kbd), tg, {}) BY <2>2, <3>0, <3>1, MatchkbdTyped
    <3>2. CASE status' = "fatal" /\ UNCHANGED <<writer, kbd, kbdtags, fdout, hist>>
      BY <2>1, <3>2 DEF Typed, WritesWithin, History
    <3> QED BY <2>1, <3>1, <3>2
  <2> QED BY <1>0, <2>1, <2>3 DEF Typed, Queues, evvars
<1>4. CASE Trdmouse
  <2> DEFINE tg == Put(mousetags, Ntags, Head(fdin).tag)
             m == [mouse EXCEPT !.stall = FALSE]
  <2>1. /\ fdin # <<>> /\ fdin' = Tail(fdin) /\ reader = "run"
        /\ UNCHANGED <<reader, gscreen, evvars, kbd, kbdtags, rp, pipe, out>>
        /\ \/ status' = "fatal" /\ UNCHANGED <<writer, win, mouse, mousetags, mresized, fdout, hist>>
           \/ matchmouse(m, tg)
    BY <1>4 DEF Trdmouse, Runs
  <2>2. m \in Rings(Nring, Nat) /\ tg \in Rings(Ntags, Tags \cup {0})
    BY <1>0, <2>1, GivenRings
  <2> HIDE DEF tg, m
  <2>3. /\ mouse' \in Rings(Nring, Nat) /\ mousetags' \in Rings(Ntags, Tags \cup {0})
        /\ fdout' \in Seq(Replies) /\ writer' \in Writers /\ WritesWithin'
        /\ status' \in {status, "fatal"} /\ hist' \in History' /\ mresized' \in BOOLEAN
        /\ win' \in {win, "size"}
    <3>1. CASE matchmouse(m, tg) BY <2>1, <2>2, <3>1, MatchmouseTyped
    <3>2. CASE status' = "fatal" /\ UNCHANGED <<writer, win, mouse, mousetags, mresized, fdout, hist>>
      BY <2>1, <3>2 DEF Typed, WritesWithin, History
    <3> QED BY <2>1, <3>1, <3>2
  <2> QED BY <1>0, <2>1, <2>3 DEF Typed, Queues, evvars
<1>5. ASSUME NEW ty \in Sync, Tother(ty) PROVE Typed'
  <2>1. /\ fdin # <<>> /\ fdin' = Tail(fdin) /\ reader = "run"
        /\ UNCHANGED <<reader, win, gscreen, evvars, kbd, mouse, mresized, kbdtags, mousetags, rp,
                   pipe, out, hist>>
    BY <1>5 DEF Tother, Runs
  <2>2. PICK r \in Sync \cup {"error"} : replymsg(Cells(Reply(r, Head(fdin).tag, 0)))
    BY <1>5 DEF Tother
  <2>3. Cells(Reply(r, Head(fdin).tag, 0)) \in Seq(Replies) BY <1>0, <2>1, CellsSeq
  <2>4. /\ fdout' \in Seq(Replies) /\ writer' \in Writers /\ WritesWithin'
        /\ status' \in {status, "fatal"}
    BY <2>1, <2>2, <2>3, Replied
  <2> QED BY <1>0, <2>1, <2>4 DEF Typed, Queues, evvars, History
<1>6. CASE Attached
  <2>1. /\ fdin # <<>> /\ fdin' = Tail(fdin) /\ reader' = "run" /\ win' = "idle"
        /\ replymsg(Cells(Reply("init", Head(fdin).tag, 0)))
        /\ UNCHANGED <<gscreen, evvars, kbd, mouse, mresized, kbdtags, mousetags, rp, pipe, out, hist>>
    BY <1>6 DEF Attached, AttachUnchanged, Typed, Queues
  <2>3. Cells(Reply("init", Head(fdin).tag, 0)) \in Seq(Replies) BY <1>0, <2>1, CellsSeq DEF Sync
  <2>4. /\ fdout' \in Seq(Replies) /\ writer' \in Writers /\ WritesWithin'
        /\ status' \in {status, "fatal"}
    BY <2>1, <2>3, Replied
  <2> QED BY <1>0, <2>1, <2>4 DEF Typed, Queues, evvars, History
<1> QED BY <1>1, <1>2, <1>3, <1>4, <1>5, <1>6

\* The steps of kbdthread() and mousethread() keep the types.
LEMMA ThreadsTyped == ASSUME Typed, kbdthread \/ mousethread PROVE Typed'
<1> USE Sizes
<1>1. CASE kbdthread
  <2>1. /\ ckbd # <<>> /\ ckbd' = Tail(ckbd)
        /\ UNCHANGED <<reader, win, gscreen, cmouse, wasctl, mouse, mresized, mousetags, fdin, rp, pipe, out>>
    BY <1>1 DEF kbdthread
  <2>2. ckbd' \in Seq(Chars) /\ Head(ckbd) \in Chars BY <2>1 DEF Typed, Queues
  <2>3. /\ kbd' \in Rings(Nring, Chars) /\ kbdtags' \in Rings(Ntags, Tags \cup {0})
        /\ fdout' \in Seq(Replies) /\ writer' \in Writers /\ WritesWithin'
        /\ status' \in {status, "fatal"} /\ hist' \in History' /\ alting' \in -1..MaxKeys
    <3>1. CASE UNCHANGED <<status, writer, alting, kbd, kbdtags, fdout, hist>>
      BY <2>1, <3>1 DEF Typed, WritesWithin, History
    <3>2. CASE ~kbd.stall
      <4>1. PICK u \in utoplan9kbd(Head(ckbd)) :
              /\ alting' = u[2]
              /\ IF u[1] = 0
                 THEN UNCHANGED <<status, writer, kbd, kbdtags, fdout, hist>>
                 ELSE matchkbd(Stalls(Put(kbd, Nring, u[1])), kbdtags, {u[1]})
        BY <1>1, <3>2 DEF kbdthread
      <4>2. u[1] \in Chars /\ alting' \in -1..MaxKeys BY <2>2, <4>1, Utoplan9
      <4>3. CASE u[1] = 0 BY <2>1, <4>1, <4>2, <4>3 DEF Typed, WritesWithin, History
      <4>4. CASE u[1] # 0
        <5>1. Stalls(Put(kbd, Nring, u[1])) \in Rings(Nring, Chars) /\ {u[1]} \in SUBSET Chars
          BY <4>2, GivenRings
        <5>2. kbdtags \in Rings(Ntags, Tags \cup {0}) BY DEF Typed
        <5>3. matchkbd(Stalls(Put(kbd, Nring, u[1])), kbdtags, {u[1]}) /\ UNCHANGED rp BY <2>1, <4>1, <4>4
        <5> QED BY <4>2, <5>1, <5>2, <5>3, MatchkbdTyped
      <4> QED BY <4>3, <4>4
    <3> QED BY <1>1, <3>1, <3>2 DEF kbdthread
  <2> QED BY <2>1, <2>2, <2>3 DEF Typed, Queues
<1>2. CASE mousethread
  <2> DEFINE m == KeepsLatest(Put(mouse, Nring, Head(cmouse)), Head(cmouse))
  <2>1. /\ cmouse # <<>> /\ cmouse' = Tail(cmouse)
        /\ UNCHANGED <<reader, gscreen, ckbd, alting, wasctl, kbd, kbdtags, fdin, rp, pipe, out>>
        /\ \/ UNCHANGED <<status, writer, win, mouse, mousetags, mresized, fdout, hist>>
           \/ ~mouse.stall /\ matchmouse(m, mousetags)
    BY <1>2 DEF mousethread
  <2>2. cmouse' \in Seq(Nat) /\ Head(cmouse) \in Nat BY <2>1 DEF Typed, Queues
  <2>3. /\ mouse' \in Rings(Nring, Nat) /\ mousetags' \in Rings(Ntags, Tags \cup {0})
        /\ fdout' \in Seq(Replies) /\ writer' \in Writers /\ WritesWithin'
        /\ status' \in {status, "fatal"} /\ hist' \in History' /\ mresized' \in BOOLEAN
        /\ win' \in {win, "size"}
    <3>1. CASE ~mouse.stall /\ matchmouse(m, mousetags)
      <4>1. m \in Rings(Nring, Nat) BY <2>2, <3>1, LatestKept
      <4>2. mousetags \in Rings(Ntags, Tags \cup {0}) /\ UNCHANGED rp BY <2>1 DEF Typed
      <4> HIDE DEF m
      <4> QED BY <3>1, <4>1, <4>2, MatchmouseTyped
    <3>2. CASE UNCHANGED <<status, writer, win, mouse, mousetags, mresized, fdout, hist>>
      BY <2>1, <3>2 DEF Typed, WritesWithin, History
    <3> QED BY <2>1, <3>1, <3>2
  <2> QED BY <2>1, <2>2, <2>3 DEF Typed, Queues
<1> QED BY <1>1, <1>2

\* The steps of writethread() keep the types.
LEMMA WriterTyped ==
    ASSUME Typed, iowrite \/ (\E k \in 1..writer.n : Written(k)) \/ WriteMore \/ WaitMore
    PROVE  Typed'
<1>0. writer.at \in {"start", "writing", "written", "waitmore"} /\ writer.n \in Nat BY DEF Typed, Writers
<1>1. CASE iowrite
  <2>1. writer' \in Writers /\ WritesWithin'
    <3>1. writer' = [at |-> "writing", n |-> Len(fdout) - rp] /\ UNCHANGED <<fdout, rp>> /\ rp < Len(fdout)
      BY <1>1 DEF iowrite
    <3>2. Len(fdout) \in Nat /\ rp \in Nat BY DEF Typed, WritesWithin
    <3>3. Len(fdout) - rp \in Nat BY <3>1, <3>2
    <3> QED BY <3>1, <3>2, <3>3 DEF Writers, WritesWithin
  <2>2. UNCHANGED <<status, win, gscreen, evvars, kbd, mouse, mresized, kbdtags, mousetags, fdin, pipe,
                    reader, fdout, out, hist>>
    BY <1>1 DEF iowrite, WriterUnchanged
  <2> QED BY <2>1, <2>2 DEF Typed, Queues, evvars, History
<1>2. ASSUME NEW k \in 1..writer.n, Written(k) PROVE Typed'
  <2>1. writer' \in Writers /\ WritesWithin'
    <3>1. writer' = [at |-> "written", n |-> k] /\ UNCHANGED <<fdout, rp>> /\ writer.at = "writing"
      BY <1>2 DEF Written
    <3>2. Len(fdout) \in Nat /\ rp \in Nat /\ rp + writer.n <= Len(fdout) /\ rp <= Len(fdout)
      BY <3>1 DEF Typed, WritesWithin
    <3>3. k \in Nat /\ rp + k <= Len(fdout) BY <3>2, <1>0
    <3> QED BY <3>1, <3>2, <3>3 DEF Writers, WritesWithin
  <2>2. /\ UNCHANGED <<status, win, gscreen, evvars, kbd, mouse, mresized, kbdtags, mousetags, fdin, pipe,
                       reader, fdout>>
        /\ \E x, y : hist' = [hist EXCEPT !.key = x, !.move = y]
    BY <1>2 DEF Written, WriterUnchanged
  <2>3. out' \in [Tags -> Reads \cup Sync \cup {"free"}]
    <3>1. PICK s : out' = [t \in Tags |-> IF \E i \in s : fdout[i].tag = t THEN "free" ELSE out[t]]
      BY <1>2 DEF Written
    <3> QED BY <3>1 DEF Typed
  <2>4. hist' \in History' BY <2>2 DEF Typed, History
  <2> QED BY <2>1, <2>2, <2>3, <2>4 DEF Typed, Queues, evvars
<1>3. CASE WriteMore
  <2>1. writer' \in Writers /\ WritesWithin'
    <3>1. writer' = [at |-> "start", n |-> 0] /\ UNCHANGED fdout /\ rp' = rp + writer.n /\ writer.at = "written"
      BY <1>3 DEF WriteMore
    <3>2. rp' \in Nat /\ rp' <= Len(fdout) BY <3>1, <1>0 DEF Typed, WritesWithin
    <3> QED BY <3>1, <3>2 DEF Writers, WritesWithin
  <2>2. UNCHANGED <<status, win, gscreen, evvars, kbd, mouse, mresized, kbdtags, mousetags, fdin, pipe,
                    reader, fdout, out, hist>>
    BY <1>3 DEF WriteMore, WriterUnchanged
  <2> QED BY <2>1, <2>2 DEF Typed, Queues, evvars, History
<1>4. CASE WaitMore
  <2>1. writer' \in Writers /\ WritesWithin' /\ fdout' \in Seq(Replies)
    BY <1>4 DEF WaitMore, Writers, WritesWithin
  <2>2. reader' = reader \/ reader' = "check" BY <1>4 DEF WaitMore, Noted
  <2>3. UNCHANGED <<status, win, gscreen, evvars, kbd, mouse, mresized, kbdtags, mousetags, fdin, pipe,
                    out, hist>>
    BY <1>4 DEF WaitMore, WriterUnchanged
  <2> QED BY <2>1, <2>2, <2>3 DEF Typed, Queues, evvars, History
<1> QED BY <1>1, <1>2, <1>3, <1>4

\* The steps of the window's proc and of the client keep the types.
LEMMA OthersTyped ==
    ASSUME Typed, \/ UNCHANGED vars
                  \/ \E ty \in Reads \cup Sync, t \in Tags : Send(ty, t)
                  \/ CreateWindow \/ ShowWindow \/ Shown
                  \/ \E k \in Keys : kbdputc(k)
                  \/ MouseMove \/ WindowSize \/ SizeSent \/ CloseWindow
    PROVE  Typed'
<1>0. hist \in History /\ hist.typed \in 0..MaxKeys /\ hist.moved \in Nat /\ hist.sized \in Nat
  BY DEF Typed, History, Chars
<1>1. CASE UNCHANGED vars
  <2>1. hist' \in History' BY <1>0, <1>1 DEF vars, History
  <2>2. Queues' /\ WritesWithin' BY <1>1 DEF vars, evvars, Typed, Queues, WritesWithin
  <2> QED BY <1>1, <2>1, <2>2 DEF vars, evvars, Typed
<1>2. ASSUME NEW ty \in Reads \cup Sync, NEW t \in Tags, Send(ty, t) PROVE Typed'
  <2>1. [type |-> ty, tag |-> t] \in Messages BY DEF Messages
  <2>2. pipe' \in Seq(Messages) BY <1>2, <2>1 DEF Send, Typed, Queues
  <2>3. out' \in [Tags -> Reads \cup Sync \cup {"free"}] BY <1>2 DEF Send, Typed
  <2>4. UNCHANGED <<status, reader, writer, win, gscreen, evvars, kbd, mouse, mresized, kbdtags,
                    mousetags, fdin, fdout, rp, hist>>
    BY <1>2 DEF Send
  <2>5. hist' \in History' BY <1>0, <2>4 DEF History
  <2>6. Queues' /\ WritesWithin' BY <2>2, <2>4 DEF evvars, Typed, Queues, WritesWithin
  <2> QED BY <2>3, <2>4, <2>5, <2>6 DEF Typed, evvars
<1>3. CASE CreateWindow \/ ShowWindow \/ Shown \/ CloseWindow
  <2>1. /\ win' \in {"created", "showing", "shown", win} /\ status' \in {status, "exited"}
        /\ UNCHANGED <<reader, writer, kbd, mouse, kbdtags, mousetags, alting, fdin, fdout, rp, pipe, out,
                       gscreen, ckbd, cmouse, mresized, wasctl, hist>>
    BY <1>3 DEF CreateWindow, ShowWindow, Shown, CloseWindow, WinUnchanged, evvars
  <2> QED BY <2>1 DEF Typed, Queues, History, WritesWithin
<1>4. ASSUME NEW k \in Keys, kbdputc(k) PROVE Typed'
  <2>1. /\ wasctl' \in BOOLEAN /\ hist.typed < MaxKeys
        /\ ckbd' \in {ckbd, Append(ckbd, 0), Append(ckbd, hist.typed + 1)}
        /\ hist' = [hist EXCEPT !.typed = @ + 1]
        /\ UNCHANGED <<status, reader, writer, kbd, mouse, kbdtags, mousetags, alting, fdin, fdout, rp, pipe,
                       out, win, gscreen, cmouse, mresized>>
    BY <1>4 DEF kbdputc, WinUnchanged
  <2>2. hist.typed + 1 \in Chars /\ 0 \in Chars BY SMTT(30), <1>0, <2>1, Sizes DEF Chars
  <2>3. ckbd' \in Seq(Chars)
    <3>1. ckbd \in Seq(Chars) BY DEF Typed, Queues
    <3>2. \A c \in Chars : Append(ckbd, c) \in Seq(Chars) BY <3>1
    <3> QED BY <2>1, <2>2, <3>1, <3>2
  <2>4. hist' \in History' BY <1>0, <2>1, <2>2 DEF History
  <2> QED BY <2>1, <2>3, <2>4 DEF Typed, Queues, WritesWithin
<1>5. CASE MouseMove
  <2>1. /\ cmouse' = Append(cmouse, hist.moved + 1)
        /\ hist' = [hist EXCEPT !.moved = @ + 1]
        /\ UNCHANGED <<status, reader, writer, kbd, mouse, kbdtags, mousetags, alting, fdin, fdout, rp, pipe,
                       out, win, gscreen, ckbd, mresized, wasctl>>
    BY <1>5 DEF MouseMove, WinUnchanged
  <2>2. cmouse' \in Seq(Nat)
    <3>1. cmouse \in Seq(Nat) BY DEF Typed, Queues
    <3>2. \A c \in Nat : Append(cmouse, c) \in Seq(Nat) BY <3>1
    <3> QED BY <1>0, <2>1, <3>1, <3>2
  <2>3. hist.moved + 1 \in Nat BY <1>0
  <2>4. hist' \in History' BY <1>0, <2>1, <2>3 DEF History
  <2> QED BY <2>1, <2>2, <2>4 DEF Typed, Queues, WritesWithin
<1>6. CASE WindowSize
  <2>1. /\ win' = "size" /\ mresized' = TRUE
        /\ hist' = [hist EXCEPT !.sized = @ + 1, !.owed = TRUE]
        /\ UNCHANGED <<status, reader, writer, kbd, mouse, kbdtags, mousetags, alting, fdin, fdout, rp, pipe,
                       out, gscreen, ckbd, cmouse, wasctl>>
    BY <1>6 DEF WindowSize, WinUnchanged
  <2>2. hist.sized + 1 \in Nat BY <1>0
  <2>3. hist' \in History' BY <1>0, <2>1, <2>2 DEF History
  <2> QED BY <2>1, <2>3 DEF Typed, Queues, WritesWithin
<1>7. CASE SizeSent
  <2>1. /\ win' \in {"showing", "idle"} /\ cmouse' = Append(cmouse, hist.moved)
        /\ UNCHANGED <<status, reader, writer, kbd, mouse, kbdtags, mousetags, alting, fdin, fdout, rp, pipe,
                       out, gscreen, ckbd, mresized, wasctl, hist>>
    BY <1>7 DEF SizeSent, WinUnchanged
  <2>2. cmouse' \in Seq(Nat) BY <1>0, <2>1 DEF Typed, Queues
  <2> QED BY <2>1, <2>2 DEF Typed, Queues, WritesWithin, History
<1> QED BY <1>1, <1>2, <1>3, <1>4, <1>5, <1>6, <1>7

\* Every step keeps the types.
LEMMA StepTyped == Typed /\ [Next]_vars => Typed'
<1> SUFFICES ASSUME Typed, [Next]_vars PROVE Typed'
  OBVIOUS
<1> QED BY Steps, ReaderTyped, ThreadsTyped, WriterTyped, OthersTyped

-----------------------------------------------------------------------------
(* The window: the screen image is there before the window is shown, and  *)
(* a change of size is not forgotten.                                     *)

\* Events wait for reads or reads for events, not both; a ring that drops
\* events has one; a change of size that is owed has its flag, and an event
\* to go with or the window's proc about to send one.
MouseInv ==
    /\ Waiting(mouse, Nring) = 0 \/ Waiting(mousetags, Ntags) = 0
    /\ mouse.stall => Waiting(mouse, Nring) > 0
    /\ hist.owed => /\ mresized
                    /\ Waiting(mouse, Nring) > 0 \/ cmouse # <<>> \/ win = "size"

\* The reader has come as far as "screen" only with the image made.
ScreenInv == ScreenBeforeShow /\ (reader = "screen" => gscreen)

\* Until there is an image the client has sent Tinit alone, and waits for its
\* answer; afterwards no other Tinit is on its way.
OnlyInit == /\ fdout = <<>> /\ ckbd = <<>> /\ cmouse = <<>>
            /\ win # "none" => reader = "attach"
            /\ \/ fdin = <<>> /\ pipe = <<>>
               \/ /\ fdin = <<>> /\ Len(pipe) = 1 /\ pipe[1].type = "init"
                  /\ \E t \in Tags : out[t] = "init"
               \/ /\ pipe = <<>> /\ Len(fdin) = 1 /\ fdin[1].type = "init"
                  /\ \E t \in Tags : out[t] = "init"
NoInit   == /\ \A i \in 1..Len(pipe) : pipe[i].type # "init"
            /\ \A i \in 1..Len(fdin) : fdin[i].type = "init" => i = 1 /\ reader = "screen"
AttachInv == IF gscreen THEN NoInit ELSE OnlyInit

WInv == Typed /\ MouseInv /\ ScreenInv /\ AttachInv

\* The initial states satisfy the invariant.
LEMMA InitWInv == Init => WInv
<1> SUFFICES ASSUME Init PROVE WInv
  OBVIOUS
<1>1. Waiting(mouse, Nring) = 0 /\ ~mouse.stall BY Sizes, EmptyRing DEF Init
<1>2. ~hist.owed BY DEF Init
<1> QED BY <1>1, <1>2, InitTyped
     DEF Init, WInv, MouseInv, ScreenInv, ScreenBeforeShow, AttachInv, OnlyInit

\* Every step keeps what is said of the screen image, which is never undone.
LEMMA StepScreen == WInv /\ [Next]_vars => ScreenInv'
<1> SUFFICES ASSUME WInv, [Next]_vars PROVE ScreenInv'
  OBVIOUS
<1> USE DEF WInv, ScreenInv, ScreenBeforeShow
<1>1. CASE UNCHANGED vars BY <1>1 DEF vars
<1>2. ASSUME NEW ty \in Reads \cup Sync, NEW t \in Tags, Send(ty, t) PROVE ScreenInv' BY <1>2 DEF Send
<1>3. CASE Check BY <1>3 DEF Check, ReaderUnchanged
<1>4. ASSUME NEW k \in 0..Len(pipe), ioread(k) PROVE ScreenInv' BY <1>4 DEF ioread, ReaderUnchanged
<1>5. CASE Eof \/ Slide BY <1>5 DEF Eof, Slide, ReaderUnchanged
<1>6. CASE Trdkbd BY <1>6 DEF Trdkbd
<1>7. CASE Trdmouse
  <2>1. UNCHANGED <<reader, gscreen>> /\ (win' = win \/ (win = "idle" /\ win' = "size"))
    BY <1>7 DEF Trdmouse, matchmouse, Torn
  <2> QED BY <2>1
<1>8. ASSUME NEW ty \in Sync, Tother(ty) PROVE ScreenInv' BY <1>8 DEF Tother
<1>9. CASE Tinit BY <1>9 DEF Tinit
<1>10. CASE mkgscreen BY <1>10 DEF mkgscreen
<1>11. CASE Attached BY <1>11 DEF Attached
<1>12. CASE iowrite \/ WriteMore BY <1>12 DEF iowrite, WriteMore, WriterUnchanged
<1>13. ASSUME NEW k \in 1..writer.n, Written(k) PROVE ScreenInv' BY <1>13 DEF Written, WriterUnchanged
<1>14. CASE WaitMore BY <1>14 DEF WaitMore, WriterUnchanged, Noted
<1>15. CASE kbdthread BY <1>15 DEF kbdthread
<1>16. CASE mousethread
  <2>1. UNCHANGED <<reader, gscreen>> /\ (win' = win \/ (win = "idle" /\ win' = "size"))
    BY <1>16 DEF mousethread, matchmouse, Torn
  <2> QED BY <2>1
<1>17. CASE CreateWindow BY <1>17 DEF CreateWindow, WinUnchanged
<1>18. CASE ShowWindow BY <1>18 DEF ShowWindow, ScreenIsThere, WinUnchanged
<1>19. CASE Shown BY <1>19 DEF Shown, WinUnchanged
<1>20. ASSUME NEW k \in Keys, kbdputc(k) PROVE ScreenInv' BY <1>20 DEF kbdputc, WinUnchanged
<1>21. CASE MouseMove BY <1>21 DEF MouseMove, WinUnchanged
<1>22. CASE WindowSize BY <1>22 DEF WindowSize, WinUnchanged
<1>23. CASE SizeSent BY <1>23 DEF SizeSent, WinUnchanged
<1>24. CASE CloseWindow BY <1>24 DEF CloseWindow
<1> QED
  BY <1>1, <1>2, <1>3, <1>4, <1>5, <1>6, <1>7, <1>8, <1>9, <1>10, <1>11, <1>12, <1>13, <1>14, <1>15,
     <1>16, <1>17, <1>18, <1>19, <1>20, <1>21, <1>22, <1>23, <1>24, Steps

\* Tinit is run once: the window's proc has not been started.
LEMMA InitOnce == ASSUME WInv, Tinit PROVE win = "none" /\ ~gscreen
<1>1. reader = "run" /\ fdin # <<>> /\ Head(fdin).type = "init" BY DEF Tinit, Runs
<1>2. 1 \in 1..Len(fdin) /\ fdin[1].type = "init" BY <1>1 DEF WInv, Typed, Queues
<1>3. ~gscreen BY <1>1, <1>2 DEF WInv, AttachInv, NoInit
<1> QED BY <1>1, <1>3 DEF WInv, AttachInv, OnlyInit

\* A message from fdin has been run.
LEMMA RunNoInit ==
    ASSUME Typed, NoInit, fdin # <<>>, fdin' = Tail(fdin), UNCHANGED pipe
    PROVE  NoInit'
<1>1. /\ fdin \in Seq(Messages) /\ Len(fdin') = Len(fdin) - 1 /\ Len(fdin) \in Nat
      /\ \A i \in 1..Len(fdin') : fdin'[i] = fdin[i + 1]
  BY DEF Typed, Queues
<1>2. ASSUME NEW i \in 1..Len(fdin') PROVE fdin'[i].type # "init"
  <2>1. i + 1 \in 1..Len(fdin) /\ i + 1 # 1 BY <1>1
  <2> QED BY <1>1, <2>1 DEF NoInit
<1> QED BY <1>2 DEF NoInit

\* Every step keeps what is said of Tinit.
LEMMA StepAttach == WInv /\ [Next]_vars => AttachInv'
<1> SUFFICES ASSUME WInv, [Next]_vars PROVE AttachInv'
  OBVIOUS
<1>0. /\ Typed /\ AttachInv /\ gscreen \in BOOLEAN
      /\ pipe \in Seq(Messages) /\ fdin \in Seq(Messages) /\ Len(pipe) \in Nat /\ Len(fdin) \in Nat
  BY DEF WInv, Typed, Queues
<1>1. CASE UNCHANGED <<reader, win, gscreen, fdin, fdout, pipe, out, ckbd, cmouse>>
  BY <1>0, <1>1 DEF AttachInv, NoInit, OnlyInit
<1>2. CASE UNCHANGED vars BY <1>1, <1>2 DEF vars, evvars
<1>3. ASSUME NEW ty \in Reads \cup Sync, NEW t \in Tags, Send(ty, t) PROVE AttachInv'
  <2>1. /\ UNCHANGED <<reader, win, gscreen, fdin, fdout, ckbd, cmouse>>
        /\ pipe' = Append(pipe, [type |-> ty, tag |-> t])
        /\ out' = [out EXCEPT ![t] = ty]
        /\ IF gscreen THEN ty # "init" ELSE ty = "init" /\ Outstanding({"init"}) = {}
    BY <1>3 DEF Send, evvars
  <2>2. CASE gscreen BY <1>0, <2>1, <2>2 DEF AttachInv, NoInit
  <2>3. CASE ~gscreen
    <3>1. pipe = <<>> /\ fdin = <<>> BY <1>0, <2>1, <2>3 DEF AttachInv, OnlyInit, Outstanding
    <3>2. Len(pipe') = 1 /\ pipe'[1].type = "init" BY <2>1, <2>3, <3>1
    <3>3. out'[t] = "init" BY <1>0, <2>1, <2>3 DEF Typed
    <3> QED BY <1>0, <2>1, <2>3, <3>1, <3>2, <3>3 DEF AttachInv, OnlyInit
  <2> QED BY <2>2, <2>3
<1>4. CASE Check \/ Eof \/ Slide
  <2>1. UNCHANGED <<win, gscreen, fdin, fdout, pipe, out, ckbd, cmouse>>
        /\ (reader' = reader \/ reader \in {"check", "run"})
    BY <1>4 DEF Check, Eof, Slide, ReaderUnchanged, evvars
  <2> QED BY <1>0, <2>1 DEF AttachInv, NoInit, OnlyInit
<1>5. ASSUME NEW k \in 0..Len(pipe), ioread(k) PROVE AttachInv'
  <2>1. /\ reader = "reading" /\ reader' = "run" /\ UNCHANGED <<win, gscreen, fdout, out, ckbd, cmouse>>
        /\ fdin' = fdin \o SubSeq(pipe, 1, k)
        /\ pipe' = SubSeq(pipe, k + 1, Len(pipe))
    BY <1>5 DEF ioread, ReaderUnchanged, evvars
  <2>2. /\ Len(fdin') = Len(fdin) + k /\ Len(pipe') = Len(pipe) - k /\ k \in Nat
        /\ \A i \in 1..Len(fdin') : fdin'[i] = IF i <= Len(fdin) THEN fdin[i] ELSE pipe[i - Len(fdin)]
        /\ \A i \in 1..Len(pipe') : pipe'[i] = pipe[k + i]
    BY <1>0, <2>1
  <2>3. CASE gscreen
    <3>1. \A i \in 1..Len(fdin) : fdin[i].type # "init" BY <1>0, <2>1, <2>3 DEF AttachInv, NoInit
    <3>2. \A i \in 1..Len(pipe) : pipe[i].type # "init" BY <1>0, <2>3 DEF AttachInv, NoInit
    <3>3. ASSUME NEW i \in 1..Len(fdin') PROVE fdin'[i].type # "init"
      <4>1. CASE i <= Len(fdin)
        <5>1. i \in 1..Len(fdin) /\ fdin'[i] = fdin[i] BY <1>0, <2>2, <4>1
        <5> QED BY <3>1, <5>1
      <4>2. CASE ~(i <= Len(fdin))
        <5>1. i - Len(fdin) \in 1..Len(pipe) /\ fdin'[i] = pipe[i - Len(fdin)] BY <1>0, <2>2, <4>2
        <5> QED BY <3>2, <5>1
      <4> QED BY <4>1, <4>2
    <3>4. \A i \in 1..Len(pipe') : pipe'[i].type # "init" BY SMTT(30), <1>0, <2>2, <3>2
    <3> QED BY <2>1, <2>3, <3>3, <3>4 DEF AttachInv, NoInit
  <2>4. CASE ~gscreen
    <3>1. CASE k = 0 BY <1>0, <2>1, <2>2, <2>4, <3>1 DEF AttachInv, OnlyInit
    <3>2. CASE k # 0
      <4>1. fdin = <<>> /\ Len(pipe) = 1 /\ k = 1 /\ pipe[1].type = "init" /\ \E t \in Tags : out[t] = "init"
        <5>1. Len(pipe) # 0 /\ k \in 1..Len(pipe) BY <1>0, <2>2, <3>2
        <5>2. pipe # <<>> BY <5>1
        <5>3. fdin = <<>> /\ Len(pipe) = 1 /\ pipe[1].type = "init" /\ \E t \in Tags : out[t] = "init"
          BY <1>0, <2>4, <5>2 DEF AttachInv, OnlyInit
        <5> QED BY <5>1, <5>3
      <4>2. Len(fdin') = 1 /\ pipe' = <<>> /\ fdin'[1].type = "init" BY <2>1, <2>2, <4>1, <1>0
      <4> QED BY <1>0, <2>1, <2>4, <4>1, <4>2 DEF AttachInv, OnlyInit
    <3> QED BY <3>1, <3>2
  <2> QED BY <2>3, <2>4
<1>6. ASSUME fdin # <<>>, reader = "run", Head(fdin).type # "init" PROVE gscreen
  <2>1. fdin[1].type # "init" BY <1>6, <1>0
  <2> QED BY <1>0, <1>6, <2>1 DEF AttachInv, OnlyInit
<1>7. CASE Trdkbd \/ Trdmouse
  <2>1. gscreen BY <1>6, <1>7 DEF Trdkbd, Trdmouse, Runs
  <2>2. fdin # <<>> /\ fdin' = Tail(fdin) /\ UNCHANGED <<pipe, gscreen>>
    BY <1>7 DEF Trdkbd, Trdmouse, Runs
  <2> QED BY <1>0, <2>1, <2>2, RunNoInit DEF AttachInv
<1>8. ASSUME NEW ty \in Sync, Tother(ty) PROVE AttachInv'
  <2>1. gscreen BY <1>6, <1>8 DEF Tother, Runs
  <2>2. fdin # <<>> /\ fdin' = Tail(fdin) /\ UNCHANGED <<pipe, gscreen>>
    BY <1>8 DEF Tother, Runs
  <2> QED BY <1>0, <2>1, <2>2, RunNoInit DEF AttachInv
<1>9. CASE Tinit
  <2>1. ~gscreen BY <1>9, InitOnce
  <2>2. reader' = "attach" /\ UNCHANGED <<gscreen, fdin, fdout, pipe, out, ckbd, cmouse>>
    BY <1>9 DEF Tinit, AttachUnchanged, evvars
  <2> QED BY <1>0, <2>1, <2>2 DEF AttachInv, OnlyInit
<1>10. CASE mkgscreen
  <2>1. reader = "attach" /\ reader' = "screen" /\ gscreen' = TRUE /\ UNCHANGED <<fdin, pipe>>
    BY <1>10 DEF mkgscreen, AttachUnchanged
  <2>2. CASE gscreen BY <1>0, <2>1, <2>2 DEF AttachInv, NoInit
  <2>3. CASE ~gscreen
    <3>1. fdin # <<>> BY <1>0, <2>1 DEF Typed, Queues
    <3>2. Len(pipe) = 0 /\ Len(fdin) = 1 BY <1>0, <2>3, <3>1 DEF AttachInv, OnlyInit
    <3> QED BY <2>1, <3>2 DEF AttachInv, NoInit
  <2> QED BY <2>2, <2>3
<1>11. CASE Attached
  <2>1. reader = "screen" /\ fdin' = Tail(fdin) /\ UNCHANGED <<pipe, gscreen>>
    BY <1>11 DEF Attached, AttachUnchanged
  <2>2. gscreen /\ fdin # <<>> BY <1>0, <2>1 DEF WInv, ScreenInv, Typed, Queues
  <2> QED BY <1>0, <2>1, <2>2, RunNoInit DEF AttachInv
<1>12. CASE iowrite \/ WriteMore BY <1>1, <1>12 DEF iowrite, WriteMore, WriterUnchanged, evvars
<1>13. ASSUME NEW k \in 1..writer.n, Written(k) PROVE AttachInv'
  <2>1. gscreen
    <3>1. rp \in Nat /\ rp + writer.n <= Len(fdout) /\ writer.n \in Nat
      BY <1>0, <1>13 DEF Typed, WritesWithin, Written, Writers
    <3>2. Len(fdout) # 0 BY <3>1
    <3> QED BY <1>0, <3>2 DEF AttachInv, OnlyInit
  <2>2. UNCHANGED <<reader, pipe, fdin, gscreen>> BY <1>13 DEF Written, WriterUnchanged
  <2> QED BY <1>0, <2>1, <2>2 DEF AttachInv, NoInit
<1>14. CASE WaitMore
  <2>1. /\ UNCHANGED <<win, gscreen, fdin, pipe, out, ckbd, cmouse>> /\ fdout' = <<>>
        /\ (reader' = reader \/ reader = "notew")
    BY <1>14 DEF WaitMore, WriterUnchanged, Noted, evvars
  <2> QED BY <1>0, <2>1 DEF AttachInv, NoInit, OnlyInit
<1>15. CASE kbdthread \/ mousethread
  <2>1. UNCHANGED <<reader, pipe, fdin, gscreen>> /\ (ckbd # <<>> \/ cmouse # <<>>)
    BY <1>15 DEF kbdthread, mousethread
  <2> QED BY <1>0, <2>1 DEF AttachInv, NoInit, OnlyInit
<1>16. CASE CreateWindow \/ CloseWindow \/ ShowWindow \/ Shown
  <2>1. /\ UNCHANGED <<reader, gscreen, fdin, fdout, pipe, out, ckbd, cmouse>>
        /\ win' = win \/ win # "none"
    BY <1>16 DEF CreateWindow, CloseWindow, ShowWindow, ScreenIsThere, Shown, WinUnchanged, evvars
  <2> QED BY <1>0, <2>1 DEF AttachInv, NoInit, OnlyInit
<1>17. CASE (\E k \in Keys : kbdputc(k)) \/ MouseMove \/ WindowSize \/ SizeSent
  <2>1. win \in {"idle", "showing", "size"} /\ UNCHANGED <<reader, gscreen, fdin, pipe>>
    BY <1>17 DEF kbdputc, MouseMove, WindowSize, SizeSent, WinUnchanged
  <2>2. gscreen BY <2>1 DEF WInv, ScreenInv, ScreenBeforeShow
  <2> QED BY <1>0, <2>1, <2>2 DEF AttachInv, NoInit
<1> QED
  BY <1>2, <1>3, <1>4, <1>5, <1>7, <1>8, <1>9, <1>10, <1>11, <1>12, <1>13, <1>14, <1>15, <1>16, <1>17,
     Steps

\* Every step keeps what is said of the mouse.
LEMMA StepMouse == WInv /\ [Next]_vars => MouseInv'
<1> SUFFICES ASSUME WInv, [Next]_vars PROVE MouseInv'
  OBVIOUS
<1>1. CASE /\ UNCHANGED <<mouse, mousetags, mresized, cmouse>> /\ hist'.owed = hist.owed
           /\ win = "size" => win' = "size"
  BY <1>1 DEF WInv, MouseInv
<1>2. CASE UNCHANGED vars BY <1>1, <1>2 DEF vars, evvars
<1>3. ASSUME NEW ty \in Reads \cup Sync, NEW t \in Tags, Send(ty, t) PROVE MouseInv'
  BY <1>1, <1>3 DEF Send, evvars
<1>4. CASE Check \/ Eof \/ Slide
  BY <1>1, <1>4 DEF Check, Eof, Slide, ReaderUnchanged, evvars
<1>5. ASSUME NEW k \in 0..Len(pipe), ioread(k) PROVE MouseInv' BY <1>1, <1>5 DEF ioread, ReaderUnchanged, evvars
<1>6. CASE Trdkbd
  <2>1. hist'.owed = hist.owed
    <3>1. hist' = hist \/ \E x : hist' = [hist EXCEPT !.queued = x] BY <1>6 DEF Trdkbd, matchkbd
    <3> QED BY <3>1 DEF WInv, Typed, History
  <2> QED BY <1>1, <1>6, <2>1 DEF Trdkbd, evvars
<1>7. CASE Trdmouse
  <2> DEFINE tg == Put(mousetags, Ntags, Head(fdin).tag)
             m == [mouse EXCEPT !.stall = FALSE]
  <2>1. \/ UNCHANGED <<mouse, mousetags, mresized, cmouse, hist, win>>
        \/ matchmouse(m, tg) /\ UNCHANGED <<rp, cmouse>>
    BY <1>7 DEF Trdmouse, evvars
  <2>2. CASE UNCHANGED <<mouse, mousetags, mresized, cmouse, hist, win>> BY <1>1, <2>2
  <2>3. CASE matchmouse(m, tg) /\ UNCHANGED <<rp, cmouse>>
    <3>1. Head(fdin) \in Messages BY <1>7 DEF Trdmouse, Runs, WInv, Typed, Queues
    <3>2. Head(fdin).tag \in Tags BY <3>1 DEF Messages
    <3>3. /\ m \in Rings(Nring, Nat) /\ Waiting(m, Nring) = Waiting(mouse, Nring)
          /\ tg \in Rings(Ntags, Tags \cup {0})
      BY <3>2, GivenRings DEF WInv
    <3>4. ~m.stall BY DEF WInv, Typed, Rings
    <3> HIDE DEF m, tg
    <3>5. /\ win' = win \/ (win = "idle" /\ win' = "size")
          /\ Waiting(mouse', Nring) = 0 \/ Waiting(mousetags', Ntags) = 0
          /\ mouse'.stall = m.stall
          /\ hist'.owed /\ (hist.owed => mresized) =>
                hist.owed /\ mresized' /\ Waiting(mouse', Nring) = Waiting(m, Nring)
      BY <2>3, <3>3, MatchmouseTyped DEF WInv
    <3> QED BY <2>3, <3>3, <3>4, <3>5 DEF WInv, MouseInv
  <2> QED BY <2>1, <2>2, <2>3
<1>8. ASSUME NEW ty \in Sync, Tother(ty) PROVE MouseInv' BY <1>1, <1>8 DEF Tother, evvars
<1>9. CASE Tinit \/ mkgscreen \/ Attached
  <2>1. UNCHANGED <<mouse, mousetags, mresized, cmouse, hist>>
    BY <1>9 DEF Tinit, mkgscreen, Attached, AttachUnchanged, evvars
  <2>2. mkgscreen \/ Attached => (win = "size" => win' = "size")
    BY DEF mkgscreen, Attached
  <2>3. CASE Tinit
    <3>1. win # "size" BY <2>3, InitOnce
    <3> QED BY <1>1, <2>1, <2>3, <3>1
  <2> QED BY <1>1, <1>9, <2>1, <2>2, <2>3
<1>10. CASE iowrite \/ WriteMore \/ WaitMore
  BY <1>1, <1>10 DEF iowrite, WriteMore, WaitMore, WriterUnchanged, evvars
<1>11. ASSUME NEW k \in 1..writer.n, Written(k) PROVE MouseInv'
  <2>1. hist'.owed = hist.owed
    <3>1. \E x, y : hist' = [hist EXCEPT !.key = x, !.move = y] BY <1>11 DEF Written
    <3> QED BY <3>1 DEF WInv, Typed, History
  <2> QED BY <1>1, <1>11, <2>1 DEF Written, WriterUnchanged, evvars
<1>12. CASE kbdthread
  <2>1. hist'.owed = hist.owed
    <3>1. hist' = hist \/ \E x : hist' = [hist EXCEPT !.queued = x] BY <1>12 DEF kbdthread, matchkbd
    <3> QED BY <3>1 DEF WInv, Typed, History
  <2> QED BY <1>1, <1>12, <2>1 DEF kbdthread
<1>13. CASE mousethread
  <2> DEFINE m == KeepsLatest(Put(mouse, Nring, Head(cmouse)), Head(cmouse))
  <2>1. \/ mouse.stall /\ UNCHANGED <<mouse, mousetags, mresized, hist, win>>
        \/ ~mouse.stall /\ matchmouse(m, mousetags) /\ UNCHANGED rp
    BY <1>13 DEF mousethread
  <2>2. CASE mouse.stall /\ UNCHANGED <<mouse, mousetags, mresized, hist, win>>
    BY <2>2 DEF WInv, MouseInv
  <2>3. CASE ~mouse.stall /\ matchmouse(m, mousetags) /\ UNCHANGED rp
    <3>1. Head(cmouse) \in Nat BY <1>13 DEF mousethread, WInv, Typed, Queues
    <3>2. m \in Rings(Nring, Nat) /\ Waiting(m, Nring) > 0 /\ (m.stall => Waiting(mouse, Nring) > 0)
      BY <2>3, <3>1, LatestKept DEF WInv
    <3> HIDE DEF m
    <3>3. /\ win' = win \/ (win = "idle" /\ win' = "size")
          /\ Waiting(mouse', Nring) = 0 \/ Waiting(mousetags', Ntags) = 0
          /\ mouse'.stall = m.stall
          /\ Waiting(mousetags, Ntags) = 0 => Waiting(mouse', Nring) = Waiting(m, Nring)
          /\ hist'.owed /\ (hist.owed => mresized) =>
                hist.owed /\ mresized' /\ Waiting(mouse', Nring) = Waiting(m, Nring)
      BY <2>3, <3>2, MatchmouseTyped DEF WInv, Typed
    <3>4. Waiting(mouse, Nring) \in Nat BY Sizes, WaitingIs DEF WInv, Typed
    <3>5. mouse'.stall => Waiting(mouse', Nring) > 0
      BY <3>2, <3>3, <3>4 DEF WInv, MouseInv
    <3> QED BY <3>2, <3>3, <3>5 DEF WInv, MouseInv
  <2> QED BY <2>1, <2>2, <2>3
<1>14. CASE CreateWindow \/ ShowWindow \/ Shown \/ CloseWindow
  BY <1>1, <1>14 DEF CreateWindow, ShowWindow, ScreenIsThere, Shown, CloseWindow, WinUnchanged, evvars
<1>15. ASSUME NEW k \in Keys, kbdputc(k) PROVE MouseInv'
  <2>1. hist'.owed = hist.owed BY <1>15 DEF kbdputc, WInv, Typed, History
  <2> QED BY <1>1, <1>15, <2>1 DEF kbdputc, WinUnchanged
<1>16. CASE MouseMove
  <2>1. hist'.owed = hist.owed BY <1>16 DEF MouseMove, WInv, Typed, History
  <2>2. cmouse' # <<>> BY <1>16 DEF MouseMove, WInv, Typed, Queues
  <2> QED BY <1>16, <2>1, <2>2 DEF MouseMove, WinUnchanged, WInv, MouseInv
<1>17. CASE WindowSize
  BY <1>17 DEF WindowSize, WinUnchanged, WInv, MouseInv
<1>18. CASE SizeSent
  <2>2. cmouse' # <<>> BY SMTT(30), <1>18 DEF SizeSent, WInv, Typed, Queues
  <2> QED BY <1>18, <2>2 DEF SizeSent, WinUnchanged, WInv, MouseInv
<1> QED
  BY <1>2, <1>3, <1>4, <1>5, <1>6, <1>7, <1>8, <1>9, <1>10, <1>11, <1>12, <1>13, <1>14, <1>15,
     <1>16, <1>17, <1>18, Steps

\* The invariant holds in every reachable state.
THEOREM WindowInvariance == Spec => []WInv
<1>1. WInv /\ [Next]_vars => WInv'
  BY StepTyped, StepScreen, StepAttach, StepMouse DEF WInv
<1> QED BY <1>1, InitWInv, PTL DEF Spec

\* _xattach() and winproc() have the image made before the window is shown.
THEOREM ScreenCorrect == Spec => []ScreenBeforeShow
<1>1. WInv => ScreenBeforeShow BY DEF WInv, ScreenInv
<1> QED BY <1>1, WindowInvariance, PTL

\* A change of size that is owed to the client goes with the next mouse event,
\* and there is one or will be, also when mousethread() drops events.
THEOREM ResizeCorrect == Spec => []ResizeKept
<1>1. WInv => ResizeKept BY DEF WInv, MouseInv, ResizeKept
<1> QED BY <1>1, WindowInvariance, PTL

-----------------------------------------------------------------------------
(* What is in a ring, from the first value waiting to the last.           *)

\* % on what two indexes add up to.
LEMMA ModNear ==
    ASSUME NEW n \in Nat \ {0}, NEW x \in 0..(2*n - 1)
    PROVE  x % n = IF x >= n THEN x - n ELSE x
<1>1. CASE x >= n
  <2>1. x \in n..(2*n - 1) BY <1>1
  <2>2. x % n = x - n BY <2>1, ModLarge
  <2> QED BY <1>1, <2>2
<1>2. CASE ~(x >= n)
  <2>1. x \in 0..(n - 1) BY <1>2
  <2>2. x % n = x BY <2>1, ModSmall
  <2> QED BY <1>2, <2>2
<1> QED BY <1>1, <1>2

\* The place of the j-th value.
LEMMA PlaceOf ==
    ASSUME NEW n \in Nat \ {0}, NEW V, NEW q \in Rings(n, V), NEW j \in 1..n
    PROVE  /\ (q.ri + j - 1) % n = IF q.ri + j - 1 >= n THEN q.ri + j - 1 - n ELSE q.ri + j - 1
           /\ (q.ri + j - 1) % n \in Index(n)
           /\ (((q.ri + j - 1) % n) - q.ri) % n = j - 1
<1> DEFINE x == q.ri + j - 1
<1>1. q.ri \in 0..(n-1) BY DEF Rings, Index
<1>2. x \in 0..(2*n - 1) /\ x - q.ri = j - 1 /\ x - n - q.ri = j - 1 - n BY <1>1
<1> HIDE DEF x
<1>3. x % n = IF x >= n THEN x - n ELSE x BY <1>2, ModNear
<1>4. x % n \in Index(n) BY <1>2, <1>3 DEF Index
<1>5. ((x % n) - q.ri) % n = j - 1
  <2>1. CASE x >= n
    <3>1. (x % n) - q.ri = j - 1 - n BY <1>2, <1>3, <2>1
    <3> DEFINE y == j - 1 - n
    <3>2. y \in Int /\ -n <= y /\ y < 0 /\ y + n = j - 1 OBVIOUS
    <3> HIDE DEF y
    <3>3. y % n = y + n BY <3>2, ModNegative
    <3>4. ((x % n) - q.ri) = y BY <3>1 DEF y
    <3> QED BY <3>2, <3>3, <3>4
  <2>2. CASE ~(x >= n)
    <3>1. (x % n) - q.ri = j - 1 BY <1>2, <1>3, <2>2
    <3> DEFINE y == j - 1
    <3>2. y \in 0..(n - 1) OBVIOUS
    <3> HIDE DEF y
    <3>3. y % n = y BY <3>2, ModSmall
    <3>4. ((x % n) - q.ri) = y BY <3>1 DEF y
    <3> QED BY <3>3, <3>4 DEF y
  <2> QED BY <2>1, <2>2
<1> DEFINE m == (q.ri + j - 1) % n
<1> HIDE DEF m
<1>6. m = IF q.ri + j - 1 >= n THEN q.ri + j - 1 - n ELSE q.ri + j - 1
  <2>1. m = x % n BY Zenon DEF m, x
  <2>2. x = q.ri + j - 1 BY DEF x
  <2>3. m = IF x >= n THEN x - n ELSE x BY <1>3, <2>1
  <2> QED BY <1>1, <2>2, <2>3
<1>7. (q.ri + j - 1) % n \in Index(n) BY <1>4, Zenon DEF x
<1>8. (((q.ri + j - 1) % n) - q.ri) % n = j - 1 BY <1>5, Zenon DEF x
<1> QED BY <1>6, <1>7, <1>8, Zenon DEF m

\* A value put into a ring that is not filled by it is the last.
LEMMA PutItems ==
    ASSUME NEW n \in Nat \ {0}, NEW V, NEW q \in Rings(n, V), NEW v \in V, Waiting(q, n) < n - 1
    PROVE  LET p == Put(q, n, v)
           IN  /\ \A j \in 1..Waiting(q, n) : Item(p, n, j) = Item(q, n, j)
               /\ Item(p, n, Waiting(q, n) + 1) = v
<1> DEFINE p == Put(q, n, v)
           w == Waiting(q, n)
<1>1. p \in Rings(n, V) /\ p.ri = q.ri /\ \A i \in Index(n) : p.b[i] = IF i = q.wi THEN v ELSE q.b[i]
  BY PutRing
<1>2. w = (IF q.wi >= q.ri THEN q.wi - q.ri ELSE q.wi - q.ri + n) /\ w \in 0..(n - 1)
  BY WaitingIs
<1>3. q.wi \in 0..(n-1) /\ q.ri \in 0..(n-1) BY DEF Rings, Index
<1> HIDE DEF p, w
<1>4. ASSUME NEW j \in 1..w PROVE Item(p, n, j) = Item(q, n, j)
  <2>1. j \in 1..n BY <1>2
  <2> DEFINE x == (q.ri + j - 1) % n
  <2>2. x = (IF q.ri + j - 1 >= n THEN q.ri + j - 1 - n ELSE q.ri + j - 1) /\ x \in Index(n)
    BY <2>1, PlaceOf
  <2> HIDE DEF x
  <2>3. x # q.wi BY <1>2, <1>3, <2>2
  <2>4. Item(p, n, j) = p.b[x] /\ Item(q, n, j) = q.b[x] BY <1>1 DEF Item, x
  <2> QED BY <1>1, <2>2, <2>3, <2>4
<1>5. Item(p, n, w + 1) = v
  <2>1. w + 1 \in 1..n BY <1>2
  <2> DEFINE j == w + 1
             x == (q.ri + j - 1) % n
  <2>2. x = (IF q.ri + j - 1 >= n THEN q.ri + j - 1 - n ELSE q.ri + j - 1) /\ x \in Index(n)
    BY <2>1, PlaceOf
  <2> HIDE DEF x
  <2>3. x = q.wi BY <1>2, <1>3, <2>2
  <2>4. Item(p, n, j) = p.b[x] BY <1>1 DEF Item, x
  <2> QED BY <1>1, <2>2, <2>3, <2>4
<1> QED BY <1>4, <1>5 DEF p, w

\* When k values have been read, the next one is the first.
LEMMA SkipItems ==
    ASSUME NEW n \in Nat \ {0}, NEW V, 0 \in V, NEW q \in Rings(n, V), NEW k \in 0..Waiting(q, n)
    PROVE  \A j \in 1..(Waiting(q, n) - k) : Item(Skip(q, n, k), n, j) = Item(q, n, j + k)
<1> DEFINE s == Skip(q, n, k)
           r == (q.ri + k) % n
<1>1. /\ Waiting(q, n) = (IF q.wi >= q.ri THEN q.wi - q.ri ELSE q.wi - q.ri + n)
      /\ Waiting(q, n) \in 0..(n - 1)
  BY WaitingIs
<1>2. s \in Rings(n, V) BY SkipRing
<1>3. s.ri = r /\ s.b = [i \in Index(n) |-> IF (i - q.ri) % n < k THEN 0 ELSE q.b[i]]
  BY DEF Skip, Rings
<1>4. q.ri \in 0..(n-1) /\ k \in 0..(n-1) BY <1>1 DEF Rings, Index
<1> SUFFICES ASSUME NEW j \in 1..(Waiting(q, n) - k) PROVE Item(s, n, j) = Item(q, n, j + k)
  OBVIOUS
<1>5. j \in 1..n /\ j + k \in 1..n /\ k + 1 \in 1..n BY <1>1, <1>4
<1>6. r = IF q.ri + k >= n THEN q.ri + k - n ELSE q.ri + k
  <2> DEFINE z == q.ri + k
  <2>1. z \in 0..(2*n - 1) BY <1>4
  <2> HIDE DEF z
  <2>2. z % n = IF z >= n THEN z - n ELSE z BY <2>1, ModNear
  <2> HIDE DEF r
  <2>3. r = z % n BY Zenon DEF r, z
  <2>4. r = IF z >= n THEN z - n ELSE z BY <2>2, <2>3
  <2>5. z = q.ri + k BY DEF z
  <2> QED BY <1>4, <2>4, <2>5
<1> DEFINE x == (q.ri + (j + k) - 1) % n
           y == (s.ri + j - 1) % n
<1>7. /\ x = IF q.ri + (j + k) - 1 >= n THEN q.ri + (j + k) - 1 - n ELSE q.ri + (j + k) - 1
      /\ x \in Index(n) /\ (x - q.ri) % n = (j + k) - 1
  BY <1>5, PlaceOf
<1>8. y = IF s.ri + j - 1 >= n THEN s.ri + j - 1 - n ELSE s.ri + j - 1
  BY <1>2, <1>5, PlaceOf
<1>9. Item(s, n, j) = s.b[y] /\ Item(q, n, j + k) = q.b[x] BY DEF Item
<1> HIDE DEF x, y, s, r
<1>10. x = y BY <1>3, <1>4, <1>5, <1>6, <1>7, <1>8
<1>11. ~((x - q.ri) % n < k) BY <1>4, <1>5, <1>7
<1>12. s.b[x] = q.b[x] BY <1>3, <1>7, <1>11
<1> QED BY <1>9, <1>10, <1>12

\* stall has no part in what a ring holds.
LEMMA StallItems ==
    ASSUME NEW n \in Nat \ {0}, NEW V, NEW q \in Rings(n, V), NEW b \in BOOLEAN
    PROVE  LET p == [q EXCEPT !.stall = b]
           IN  /\ p \in Rings(n, V) /\ p.stall = b /\ p.ri = q.ri /\ p.wi = q.wi
               /\ Waiting(p, n) = Waiting(q, n)
               /\ \A j \in Int : Item(p, n, j) = Item(q, n, j)
<1>1. [q EXCEPT !.stall = b] = [b |-> q.b, ri |-> q.ri, wi |-> q.wi, stall |-> b]
  BY DEF Rings
<1> QED BY <1>1 DEF Rings, Waiting, Item

-----------------------------------------------------------------------------
(* Events in order: an event is in the replies that are still to be sent, *)
(* then in the ring, and what comes is later than all of them.            *)

\* The replies of these types among fo[fr + 1], fo[fr + 2], ...
Still(fo, fr, tys) == {i \in (fr + 1)..Len(fo) : fo[i].type \in tys}

\* The values between last, which the client has got, and those of C, which are
\* to come, differ by d at least from one to the next.
Order(d, tys, fo, fr, last, q, C) ==
    /\ \A i \in Still(fo, fr, tys) : last + d <= fo[i].val
    /\ \A i, j \in Still(fo, fr, tys) : i < j => fo[i].val + d <= fo[j].val
    /\ \A i \in Still(fo, fr, tys), j \in 1..Waiting(q, Nring) : fo[i].val + d <= Item(q, Nring, j)
    /\ \A j \in 1..Waiting(q, Nring) : last + d <= Item(q, Nring, j)
    /\ \A i, j \in 1..Waiting(q, Nring) : i < j => Item(q, Nring, i) + d <= Item(q, Nring, j)
    /\ \A x \in C : last + d <= x
    /\ \A x \in C, i \in Still(fo, fr, tys) : fo[i].val + d <= x
    /\ \A x \in C, j \in 1..Waiting(q, Nring) : Item(q, Nring, j) + d <= x

\* Another ring with the same values.
LEMMA OrderSame ==
    ASSUME NEW d \in {0, 1}, NEW tys, NEW fo, NEW fr, NEW last, NEW q, NEW C, NEW q2,
           Order(d, tys, fo, fr, last, q, C), Waiting(q, Nring) \in Nat,
           Waiting(q2, Nring) = Waiting(q, Nring), \A j \in Int : Item(q2, Nring, j) = Item(q, Nring, j)
    PROVE  Order(d, tys, fo, fr, last, q2, C)
<1>1. \A j \in 1..Waiting(q, Nring) : Item(q2, Nring, j) = Item(q, Nring, j) OBVIOUS
<1> QED BY <1>1 DEF Order

\* Fewer values to come.
LEMMA OrderFewer ==
    ASSUME NEW d \in {0, 1}, NEW tys, NEW fo, NEW fr, NEW last, NEW q, NEW C, NEW D \in SUBSET C,
           Order(d, tys, fo, fr, last, q, C)
    PROVE  Order(d, tys, fo, fr, last, q, D)
BY DEF Order

\* The next value is put into the ring.
LEMMA OrderPut ==
    ASSUME NEW d \in {0, 1}, NEW tys, NEW fo, NEW fr, NEW last, NEW V, NEW q \in Rings(Nring, V),
           NEW C, NEW v \in V, v \in C, NEW D \in SUBSET C, \A x \in D : v + d <= x,
           Order(d, tys, fo, fr, last, q, C)
    PROVE  Order(d, tys, fo, fr, last, Put(q, Nring, v), D)
<1> USE Sizes
<1> DEFINE p == Put(q, Nring, v)
           w == Waiting(q, Nring)
<1>1. /\ p \in Rings(Nring, V)
      /\ p.ri = p.wi <=> w = Nring - 1
      /\ p.ri # p.wi => Waiting(p, Nring) = w + 1
  BY PutRing
<1>2. w \in 0..(Nring - 1) BY WaitingIs
<1>3. CASE w = Nring - 1
  <2> HIDE DEF p, w
  <2>0. p.ri = p.wi /\ p.wi \in 0..(Nring - 1) BY <1>1, <1>3 DEF Rings, Index
  <2>1. Waiting(p, Nring) = 0 BY <1>1, <2>0, WaitingIs
  <2>2. 1..Waiting(p, Nring) = {} BY <2>1
  <2>3. Order(d, tys, fo, fr, last, p, D) BY <2>2 DEF Order
  <2> QED BY <2>3 DEF p
<1>4. CASE w # Nring - 1
  <2>1. w < Nring - 1 /\ Waiting(p, Nring) = w + 1 BY <1>1, <1>2, <1>4
  <2>2. (\A j \in 1..w : Item(p, Nring, j) = Item(q, Nring, j)) /\ Item(p, Nring, w + 1) = v
    BY <2>1, PutItems
  <2> HIDE DEF p
  <2>3. \A j \in 1..Waiting(p, Nring) : j \in 1..w \/ j = w + 1 BY <1>2, <2>1
  <2>4. ASSUME NEW j \in 1..Waiting(p, Nring)
        PROVE  /\ \A i \in Still(fo, fr, tys) : fo[i].val + d <= Item(p, Nring, j)
               /\ last + d <= Item(p, Nring, j)
               /\ \A i \in 1..Waiting(p, Nring) : i < j => Item(p, Nring, i) + d <= Item(p, Nring, j)
               /\ \A x \in D : Item(p, Nring, j) + d <= x
    <3>1. CASE j \in 1..w
      <4>1. \A i \in 1..Waiting(p, Nring) : i < j => i \in 1..w BY <1>2, <2>1, <3>1
      <4> HIDE DEF w
      <4> QED BY <2>2, <3>1, <4>1 DEF Order, w
    <3>2. CASE j = w + 1
      <4>1. \A i \in 1..Waiting(p, Nring) : i < j => i \in 1..w BY <1>2, <2>1, <3>2
      <4> QED BY <2>2, <3>2, <4>1 DEF Order
    <3> QED BY <2>3, <3>1, <3>2
  <2>5. Order(d, tys, fo, fr, last, p, D) BY <2>4 DEF Order
  <2> QED BY <2>5 DEF p
<1> QED BY <1>3, <1>4

\* The ring is emptied for the next value.
LEMMA OrderAlone ==
    ASSUME NEW d \in {0, 1}, NEW tys, NEW fo, NEW fr, NEW last, NEW q, NEW C,
           NEW v \in C, NEW D \in SUBSET C, \A x \in D : v + d <= x,
           Order(d, tys, fo, fr, last, q, C), NEW r, Waiting(r, Nring) = 1, Item(r, Nring, 1) = v
    PROVE  Order(d, tys, fo, fr, last, r, D)
<1>1. \A j \in 1..Waiting(r, Nring) : j = 1 OBVIOUS
<1> QED BY <1>1 DEF Order

\* Values that are taken from the ring and not replied.
LEMMA OrderDrop ==
    ASSUME NEW d \in {0, 1}, NEW tys, NEW fo, NEW fr, NEW last, NEW V, 0 \in V, NEW q \in Rings(Nring, V),
           NEW C, NEW n \in 0..Waiting(q, Nring), Order(d, tys, fo, fr, last, q, C)
    PROVE  Order(d, tys, fo, fr, last, Skip(q, Nring, n), C)
<1> USE Sizes
<1> DEFINE s == Skip(q, Nring, n)
           w == Waiting(q, Nring)
<1>1. Waiting(s, Nring) = w - n BY SkipRing
<1>2. \A j \in 1..(w - n) : Item(s, Nring, j) = Item(q, Nring, j + n) BY SkipItems
<1>3. w \in Nat BY WaitingIs
<1> HIDE DEF s
<1>4. \A j \in 1..Waiting(s, Nring) : j + n \in 1..w /\ Item(s, Nring, j) = Item(q, Nring, j + n)
  BY <1>1, <1>2, <1>3
<1>5. \A i, j \in 1..Waiting(s, Nring) : i < j => i + n < j + n BY <1>1, <1>3
<1> HIDE DEF w
<1>6. Order(d, tys, fo, fr, last, s, C) BY <1>4, <1>5 DEF Order, w
<1> QED BY <1>6 DEF s

\* Cells are added to the replies: which ones are there then.
LEMMA StillMore ==
    ASSUME NEW tys, NEW fo \in Seq(Replies), NEW cs \in Seq(Replies), NEW fr \in 0..Len(fo)
    PROVE  /\ \A i \in Still(fo \o cs, fr, tys) :
                \/ i \in Still(fo, fr, tys) /\ (fo \o cs)[i] = fo[i]
                \/ /\ i - Len(fo) \in 1..Len(cs) /\ i > Len(fo)
                   /\ (fo \o cs)[i] = cs[i - Len(fo)] /\ cs[i - Len(fo)].type \in tys
           /\ \A i \in Still(fo, fr, tys) : i <= Len(fo) /\ i \in Nat
<1>1. Len(fo \o cs) = Len(fo) + Len(cs) /\ Len(fo) \in Nat /\ Len(cs) \in Nat OBVIOUS
<1>2. \A i \in 1..(Len(fo) + Len(cs)) : (fo \o cs)[i] = IF i <= Len(fo) THEN fo[i] ELSE cs[i - Len(fo)]
  OBVIOUS
<1> HIDE DEF Replies
<1> QED BY <1>1, <1>2 DEF Still

\* Replies of other types.
LEMMA OrderOther ==
    ASSUME NEW d \in {0, 1}, NEW tys, NEW fo \in Seq(Replies), NEW fr \in 0..Len(fo), NEW last, NEW q, NEW C,
           NEW cs \in Seq(Replies), \A i \in 1..Len(cs) : cs[i].type \notin tys,
           Order(d, tys, fo, fr, last, q, C)
    PROVE  Order(d, tys, fo \o cs, fr, last, q, C)
<1>1. \A i \in Still(fo \o cs, fr, tys) : i \in Still(fo, fr, tys) /\ (fo \o cs)[i] = fo[i]
  BY StillMore
<1> DEFINE f2 == fo \o cs
<1> HIDE DEF f2
<1> QED BY <1>1 DEF Order

\* The first n values of the ring are replied.
LEMMA OrderReply ==
    ASSUME NEW d \in {0, 1}, NEW tys, NEW fo \in Seq(Replies), NEW fr \in 0..Len(fo), NEW last,
           NEW V, 0 \in V, NEW q \in Rings(Nring, V), NEW C,
           NEW n \in 0..Waiting(q, Nring), NEW cs \in Seq(Replies), Len(cs) = n,
           \A j \in 1..n : cs[j].val = Item(q, Nring, j),
           Order(d, tys, fo, fr, last, q, C)
    PROVE  Order(d, tys, fo \o cs, fr, last, Skip(q, Nring, n), C)
<1> USE Sizes
<1> DEFINE s == Skip(q, Nring, n)
           w == Waiting(q, Nring)
           f2 == fo \o cs
           L == Len(fo)
<1>1. Waiting(s, Nring) = w - n BY SkipRing
<1>2. \A j \in 1..(w - n) : Item(s, Nring, j) = Item(q, Nring, j + n) BY SkipItems
<1>3. w \in Nat /\ n \in 0..w /\ L \in Nat BY WaitingIs
<1>4. \A i \in Still(f2, fr, tys) :
        \/ i \in Still(fo, fr, tys) /\ f2[i] = fo[i]
        \/ i - L \in 1..n /\ i > L /\ f2[i].val = Item(q, Nring, i - L)
  <2>1. \A i \in Still(fo \o cs, fr, tys) :
          \/ i \in Still(fo, fr, tys) /\ (fo \o cs)[i] = fo[i]
          \/ /\ i - Len(fo) \in 1..Len(cs) /\ i > Len(fo)
             /\ (fo \o cs)[i] = cs[i - Len(fo)] /\ cs[i - Len(fo)].type \in tys
    BY StillMore, Zenon
  <2>2. \A i \in Still(f2, fr, tys) :
          \/ i \in Still(fo, fr, tys) /\ f2[i] = fo[i]
          \/ i - L \in 1..Len(cs) /\ i > L /\ f2[i] = cs[i - L]
    BY <2>1, Zenon
  <2> HIDE DEF f2, L
  <2> QED BY <2>2
<1>5. \A i \in Still(fo, fr, tys) : i <= L /\ i \in Nat BY StillMore
<1> HIDE DEF s, f2, L
<1>6. \A j \in 1..Waiting(s, Nring) : /\ j + n \in 1..w /\ Item(s, Nring, j) = Item(q, Nring, j + n)
                                      /\ \A i \in 1..n : i < j + n /\ i \in 1..w
  BY <1>1, <1>2, <1>3
<1>7. \A i, j \in 1..Waiting(s, Nring) : i < j => i + n < j + n BY <1>1, <1>3
<1>8. 1..n \subseteq 1..w BY <1>3
<1> HIDE DEF w
<1>9. ASSUME NEW i \in Still(f2, fr, tys)
      PROVE  /\ last + d <= f2[i].val
             /\ \A x \in C : f2[i].val + d <= x
             /\ \A j \in 1..Waiting(s, Nring) : f2[i].val + d <= Item(s, Nring, j)
  <2>1. CASE i \in Still(fo, fr, tys) /\ f2[i] = fo[i] BY <2>1, <1>6 DEF Order, w
  <2>2. CASE i - L \in 1..n /\ i > L /\ f2[i].val = Item(q, Nring, i - L)
    BY <2>2, <1>6, <1>8 DEF Order, w
  <2> QED BY <1>4, <2>1, <2>2
<1>10. ASSUME NEW i \in Still(f2, fr, tys), NEW j \in Still(f2, fr, tys), i < j
       PROVE  f2[i].val + d <= f2[j].val
  <2>1. CASE i \in Still(fo, fr, tys) /\ f2[i] = fo[i]
    <3>1. CASE j \in Still(fo, fr, tys) /\ f2[j] = fo[j] BY <2>1, <3>1, <1>10 DEF Order
    <3>2. CASE j - L \in 1..n /\ j > L /\ f2[j].val = Item(q, Nring, j - L)
      BY <2>1, <3>2, <1>8 DEF Order, w
    <3> QED BY <1>4, <3>1, <3>2
  <2>2. CASE i - L \in 1..n /\ i > L /\ f2[i].val = Item(q, Nring, i - L)
    <3>1. i \in Int /\ j \in Int BY <1>3 DEF Still, L
    <3>2. j - L \in 1..n /\ f2[j].val = Item(q, Nring, j - L) /\ i - L < j - L
      BY <1>3, <1>4, <1>5, <1>10, <2>2, <3>1
    <3> QED BY <2>2, <3>2, <1>8 DEF Order, w
  <2> QED BY <1>4, <2>1, <2>2
<1>11. /\ \A j \in 1..Waiting(s, Nring) : last + d <= Item(s, Nring, j)
       /\ \A i, j \in 1..Waiting(s, Nring) : i < j => Item(s, Nring, i) + d <= Item(s, Nring, j)
       /\ \A x \in C : last + d <= x
       /\ \A x \in C, j \in 1..Waiting(s, Nring) : Item(s, Nring, j) + d <= x
  BY <1>6, <1>7 DEF Order, w
<1>12. Order(d, tys, f2, fr, last, s, C) BY <1>9, <1>10, <1>11 DEF Order
<1> QED BY <1>12 DEF f2, s

\* A set of indexes up to b that is not empty has a greatest one.
LEMMA Greatest ==
    ASSUME NEW b \in Nat, NEW T \in SUBSET (0..b), T # {}
    PROVE  \E n \in T : \A m \in T : m <= n
<1> DEFINE R == OpToRel(<, Nat)
           S == {b - x : x \in T}
<1>1. IsWellFoundedOn(R, Nat) BY NatLessThanWellFounded
<1>2. \A x, y \in Nat : y < x => <<y, x>> \in R BY DEF OpToRel
<1> HIDE DEF R
<1>3. S \subseteq Nat /\ S # {}
  <2>1. \A x \in T : b - x \in Nat OBVIOUS
  <2>2. PICK x \in T : TRUE OBVIOUS
  <2>3. b - x \in S OBVIOUS
  <2> QED BY <2>1, <2>3
<1>4. PICK z \in S : \A y \in S : ~(<<y, z>> \in R) BY <1>1, <1>3, WFMin
<1>5. PICK n \in T : z = b - n OBVIOUS
<1>6. ASSUME NEW m \in T PROVE m <= n
  <2>1. b - m \in S /\ b - m \in Nat /\ z \in Nat BY <1>3
  <2>2. ~(b - m < z) BY <1>2, <1>4, <2>1
  <2>3. m \in Int /\ n \in Int OBVIOUS
  <2> QED BY ONLY <1>5, <2>1, <2>2, <2>3, b \in Nat
<1> QED BY <1>6

\* The greatest of numbers.
LEMMA MaxIs ==
    ASSUME NEW S \in SUBSET Int, NEW m \in S, \A y \in S : y <= m
    PROVE  Max(S) = m
<1>1. \A y \in S : m >= y OBVIOUS
<1>2. \A x \in S : (\A y \in S : x >= y) => x = m OBVIOUS
<1> QED BY <1>1, <1>2 DEF Max

\* Replies are sent.
LEMMA OrderSent ==
    ASSUME NEW d \in {0, 1}, NEW tys, "part" \notin tys, NEW fo \in Seq(Replies), NEW fr \in 0..Len(fo),
           NEW last \in Int, NEW q, NEW C, NEW k \in Nat, fr + k <= Len(fo),
           Order(d, tys, fo, fr, last, q, C), NEW sent,
           sent = {i \in (fr + 1)..(fr + k) : fo[i].type # "part"}
    PROVE  LET new == Max({last} \cup {fo[i].val : i \in {j \in sent : fo[j].type \in tys}})
           IN  Order(d, tys, fo, fr + k, new, q, C) /\ new \in Int
<1> DEFINE S == {j \in sent : fo[j].type \in tys}
           X == {last} \cup {fo[i].val : i \in S}
<1>1. \A i \in 1..Len(fo) : fo[i].val \in Int
  <2>1. \A i \in 1..Len(fo) : fo[i] \in Replies OBVIOUS
  <2> QED BY <2>1 DEF Replies
<1>2. Len(fo) \in Nat /\ fr \in Nat OBVIOUS
<1>3. S = {i \in (fr + 1)..(fr + k) : fo[i].type \in tys} OBVIOUS
<1> HIDE DEF S
<1>4. /\ S \subseteq Still(fo, fr, tys) /\ S \subseteq 0..Len(fo) /\ S \subseteq 1..Len(fo)
      /\ Still(fo, fr + k, tys) \subseteq Still(fo, fr, tys)
      /\ \A i \in S, j \in Still(fo, fr + k, tys) : i < j
  BY <1>2, <1>3 DEF Still
<1>5. X \subseteq Int BY <1>1, <1>4
<1>6. CASE S = {}
  <2>1. X = {last} BY <1>6
  <2>2. Max(X) = last
    <3> HIDE DEF X
    <3>1. last \in X /\ \A y \in X : y <= last BY <2>1
    <3> QED BY <1>5, <3>1, MaxIs
  <2>3. Order(d, tys, fo, fr + k, last, q, C) BY <1>4 DEF Order
  <2> QED BY <2>2, <2>3 DEF S
<1>7. CASE S # {}
  <2>1. PICK g \in S : \A i \in S : i <= g BY <1>2, <1>4, <1>7, Greatest
  <2>2. g \in Still(fo, fr, tys) /\ fo[g].val \in Int BY <1>1, <1>4
  <2>3. ASSUME NEW i \in S PROVE fo[i].val <= fo[g].val
    <3>1. i \in Still(fo, fr, tys) /\ fo[i].val \in Int /\ (i < g \/ i = g) BY <1>1, <1>4, <2>1
    <3> QED BY <2>2, <3>1 DEF Order
  <2>4. last <= fo[g].val BY <2>2 DEF Order
  <2>5. Max(X) = fo[g].val
    <3>1. fo[g].val \in X /\ \A y \in X : y <= fo[g].val BY <2>3, <2>4
    <3> HIDE DEF X
    <3> QED BY <1>5, <3>1, MaxIs
  <2>6. Order(d, tys, fo, fr + k, fo[g].val, q, C) BY <1>4, <2>2 DEF Order
  <2> QED BY <2>2, <2>5, <2>6 DEF S
<1> QED BY <1>6, <1>7

\* Later values to come.
LEMMA OrderLater ==
    ASSUME NEW d \in {0, 1}, NEW tys, NEW fo \in Seq(Replies), NEW fr \in Nat, NEW last \in Int,
           NEW V \in SUBSET Int, NEW q \in Rings(Nring, V), NEW C \in SUBSET Int, NEW D \in SUBSET Int,
           \A y \in D : \E x \in C : x <= y,
           Order(d, tys, fo, fr, last, q, C)
    PROVE  Order(d, tys, fo, fr, last, q, D)
<1> USE Sizes
<1>1. \A i \in Still(fo, fr, tys) : fo[i].val \in Int
  <2>1. \A i \in 1..Len(fo) : fo[i] \in Replies OBVIOUS
  <2>2. Still(fo, fr, tys) \subseteq 1..Len(fo) BY DEF Still
  <2> QED BY <2>1, <2>2 DEF Replies
<1>2. \A j \in Int : Item(q, Nring, j) \in Int BY ItemOfRing
<1>3. Waiting(q, Nring) \in Nat BY WaitingIs
<1>4. ASSUME NEW y \in D
      PROVE  /\ last + d <= y
             /\ \A i \in Still(fo, fr, tys) : fo[i].val + d <= y
             /\ \A j \in 1..Waiting(q, Nring) : Item(q, Nring, j) + d <= y
  <2>1. PICK x \in C : x <= y OBVIOUS
  <2>2. last + d <= x BY DEF Order
  <2>3. \A i \in Still(fo, fr, tys) : fo[i].val + d <= x BY DEF Order
  <2>4. \A j \in 1..Waiting(q, Nring) : Item(q, Nring, j) + d <= x BY DEF Order
  <2>5. x \in Int /\ y \in Int OBVIOUS
  <2>6. d \in Int /\ \A a \in Int : a + d <= x => a + d <= y BY <2>1, <2>5
  <2>7. last + d <= y BY <2>2, <2>6
  <2>8. \A i \in Still(fo, fr, tys) : fo[i].val + d <= y BY <1>1, <2>3, <2>6
  <2>9. ASSUME NEW j \in 1..Waiting(q, Nring) PROVE Item(q, Nring, j) + d <= y
    <3>1. Item(q, Nring, j) \in Int BY <1>2, <1>3
    <3> QED BY <2>4, <2>6, <3>1
  <2> QED BY <2>7, <2>8, <2>9
<1> QED BY <1>4 DEF Order

\* No reply is left.
LEMMA OrderNone ==
    ASSUME NEW d \in {0, 1}, NEW tys, NEW fo, NEW fr, NEW last, NEW q, NEW C,
           Order(d, tys, fo, fr, last, q, C)
    PROVE  Order(d, tys, <<>>, 0, last, q, C)
<1>1. Still(<<>>, 0, tys) = {} BY DEF Still
<1> QED BY <1>1 DEF Order

-----------------------------------------------------------------------------
(* The characters that kbd holds.                                         *)

Held(q) == {Item(q, Nring, j) : j \in 1..Waiting(q, Nring)}

\* A character more.
LEMMA HeldPut ==
    ASSUME NEW V, NEW q \in Rings(Nring, V), NEW v \in V
    PROVE  IF Waiting(q, Nring) = Nring - 1
           THEN Held(Put(q, Nring, v)) = {} /\ Waiting(Put(q, Nring, v), Nring) = 0
           ELSE Held(Put(q, Nring, v)) = Held(q) \cup {v}
<1> USE Sizes
<1> DEFINE p == Put(q, Nring, v)
           w == Waiting(q, Nring)
<1>1. /\ p \in Rings(Nring, V)
      /\ p.ri = p.wi <=> w = Nring - 1
      /\ p.ri # p.wi => Waiting(p, Nring) = w + 1
  BY PutRing
<1>2. w \in 0..(Nring - 1) BY WaitingIs
<1>3. CASE w = Nring - 1
  <2> HIDE DEF p, w
  <2>0. p.ri = p.wi /\ p.wi \in 0..(Nring - 1) BY <1>1, <1>3 DEF Rings, Index
  <2>1. Waiting(p, Nring) = 0 BY <1>1, <2>0, WaitingIs
  <2>2. Held(p) = {} BY <2>1 DEF Held
  <2> QED BY <1>3, <2>1, <2>2 DEF p, w
<1>4. CASE w # Nring - 1
  <2>1. w < Nring - 1 /\ Waiting(p, Nring) = w + 1 BY <1>1, <1>2, <1>4
  <2>2. (\A j \in 1..w : Item(p, Nring, j) = Item(q, Nring, j)) /\ Item(p, Nring, w + 1) = v
    BY <2>1, PutItems
  <2> HIDE DEF p, w
  <2>3. 1..Waiting(p, Nring) = 1..w \cup {w + 1} BY <1>2, <2>1
  <2>4. Held(q) = {Item(q, Nring, j) : j \in 1..w} BY DEF Held, w
  <2>5. Held(p) = Held(q) \cup {v} BY <2>2, <2>3, <2>4 DEF Held
  <2> QED BY <1>4, <2>5 DEF p, w
<1> QED BY <1>3, <1>4

\* Characters replied; no two that are held are the same.
LEMMA HeldSkip ==
    ASSUME NEW V \in SUBSET Int, 0 \in V, NEW q \in Rings(Nring, V), NEW n \in 0..Waiting(q, Nring),
           \A i, j \in 1..Waiting(q, Nring) : i < j => Item(q, Nring, i) + 1 <= Item(q, Nring, j)
    PROVE  /\ Held(Skip(q, Nring, n)) = Held(q) \ {Item(q, Nring, j) : j \in 1..n}
           /\ {Item(q, Nring, j) : j \in 1..n} \subseteq Held(q)
<1> USE Sizes
<1> DEFINE s == Skip(q, Nring, n)
           w == Waiting(q, Nring)
           it(j) == Item(q, Nring, j)
<1>1. Waiting(s, Nring) = w - n BY SkipRing
<1>2. \A j \in 1..(w - n) : Item(s, Nring, j) = it(j + n) BY SkipItems
<1>3. w \in Nat BY WaitingIs
<1>4. \A j \in Int : it(j) \in Int BY ItemOfRing
<1> HIDE DEF s
<1>5. \A i, j \in 1..w : i # j => it(i) # it(j) BY <1>3, <1>4
<1> HIDE DEF w, it
<1>6. Held(q) = {it(j) : j \in 1..w} BY DEF Held, w, it
<1>7. Held(s) = {it(j + n) : j \in 1..(w - n)} BY <1>1, <1>2 DEF Held
<1>8. Held(s) \subseteq Held(q) \ {it(j) : j \in 1..n}
  <2> SUFFICES ASSUME NEW j \in 1..(w - n) PROVE it(j + n) \in Held(q) /\ \A i \in 1..n : it(j + n) # it(i)
    BY <1>7
  <2>1. j + n \in 1..w /\ \A i \in 1..n : i \in 1..w /\ i # j + n BY <1>3 DEF w
  <2> QED BY <1>5, <1>6, <2>1
<1>9. Held(q) \ {it(j) : j \in 1..n} \subseteq Held(s)
  <2> SUFFICES ASSUME NEW j \in 1..w, \A i \in 1..n : it(j) # it(i) PROVE it(j) \in Held(s)
    BY <1>6
  <2>1. j \notin 1..n OBVIOUS
  <2>2. j - n \in 1..(w - n) /\ (j - n) + n = j BY <1>3, <2>1 DEF w
  <2> QED BY <1>7, <2>2
<1>10. {it(j) : j \in 1..n} \subseteq Held(q)
  <2>1. 1..n \subseteq 1..w BY <1>3 DEF w
  <2> QED BY <1>6, <2>1
<1> QED BY <1>8, <1>9, <1>10 DEF it, s

\* There are as many characters as wait.
LEMMA HeldCount ==
    ASSUME NEW V \in SUBSET Int, NEW q \in Rings(Nring, V),
           \A i, j \in 1..Waiting(q, Nring) : i < j => Item(q, Nring, i) + 1 <= Item(q, Nring, j)
    PROVE  IsFiniteSet(Held(q)) /\ Cardinality(Held(q)) = Waiting(q, Nring)
<1> USE Sizes
<1> DEFINE w == Waiting(q, Nring)
           f == [j \in 1..w |-> Item(q, Nring, j)]
<1>1. w \in Nat BY WaitingIs
<1>2. \A j \in Int : Item(q, Nring, j) \in Int BY ItemOfRing
<1>3. \A i, j \in 1..w : i # j => f[i] # f[j] BY <1>1, <1>2
<1>4. f \in [1..w -> Held(q)] /\ \A y \in Held(q) : \E j \in 1..w : f[j] = y BY DEF Held
<1> HIDE DEF f, w
<1>5. f \in Bijection(1..w, Held(q)) BY <1>3, <1>4 DEF Bijection, Injection, Surjection, IsInjective
<1>6. ExistsBijection(1..w, Held(q)) BY <1>5 DEF ExistsBijection
<1>7. IsFiniteSet(1..w) /\ Cardinality(1..w) = w BY <1>1, FS_Interval
<1>8. IsFiniteSet(Held(q)) /\ Cardinality(Held(q)) = w BY <1>6, <1>7, FS_Bijection
<1> QED BY <1>8 DEF w

-----------------------------------------------------------------------------
(* The invariant on the order of events and on the characters queued.     *)

\* The characters that are still to come: one kept after Alt, those in ckbd and
\* the next one typed.  They are in the order in which they were typed.
KbdComing(al, ck, top) == {x \in {al} : x > 0} \cup {ck[i] : i \in {j \in 1..Len(ck) : ck[j] # 0}}
                          \cup {top + 1}
KbdSorted(al, ck, top) ==
    /\ al <= top
    /\ \A i \in 1..Len(ck) : ck[i] <= top
    /\ \A i \in 1..Len(ck) : al > 0 /\ ck[i] # 0 => al < ck[i]
    /\ \A i, j \in 1..Len(ck) : i < j /\ ck[i] # 0 /\ ck[j] # 0 => ck[i] < ck[j]

\* The same for the mouse; an event may be told twice.
MouseComing(cm, top) == {cm[i] : i \in 1..Len(cm)} \cup {top}
MouseSorted(cm, top) == /\ \A i \in 1..Len(cm) : cm[i] <= top
                        /\ \A i, j \in 1..Len(cm) : i < j => cm[i] <= cm[j]

\* How many cells of fdout the client has got.
SentTo == rp + (IF writer.at = "written" THEN writer.n ELSE 0)

MouseTypes == {"rdmouse", "resized"}
KbdOrder == Order(1, {"rdkbd"}, fdout, SentTo, hist.key, kbd, KbdComing(alting, ckbd, hist.typed))
MouseOrder == Order(0, MouseTypes, fdout, SentTo, hist.move, mouse, MouseComing(cmouse, hist.moved))

OrderInv == /\ hist.key \in Int /\ hist.move \in Int
            /\ KbdSorted(alting, ckbd, hist.typed) /\ KbdOrder
            /\ MouseSorted(cmouse, hist.moved) /\ MouseOrder

\* The characters queued are those kbd holds, or some are lost: then at least
\* as many as the ring has places.
QueueInv ==
    /\ \A x \in hist.queued, y \in KbdComing(alting, ckbd, hist.typed) : x < y
    /\ Held(kbd) \subseteq hist.queued
    /\ \/ /\ hist.queued = Held(kbd) /\ ~kbd.stall
          /\ Waiting(kbd, Nring) = 0 \/ Waiting(kbdtags, Ntags) = 0
       \/ Cardinality(hist.queued \ Held(kbd)) >= Nring

\* The first character of ckbd is taken and translated, or dropped: what is
\* still to come, and what has come.
LEMMA Translated ==
    ASSUME Typed, NEW top \in Nat, KbdSorted(alting, ckbd, top), ckbd # <<>>, NEW u,
           u \in utoplan9kbd(Head(ckbd)) \/ u = <<0, alting>>
    PROVE  /\ KbdSorted(u[2], Tail(ckbd), top)
           /\ KbdComing(u[2], Tail(ckbd), top) \subseteq KbdComing(alting, ckbd, top)
           /\ u[1] # 0 => /\ u[1] \in KbdComing(alting, ckbd, top)
                          /\ \A x \in KbdComing(u[2], Tail(ckbd), top) : u[1] + 1 <= x
<1> DEFINE c == Head(ckbd)
           t == Tail(ckbd)
<1>1. alting \in Int /\ -1 <= alting /\ ckbd \in Seq(Chars) /\ MaxKeys \in Nat BY Sizes DEF Typed, Queues
<1>2. /\ Len(ckbd) \in Nat /\ 1 \in 1..Len(ckbd) /\ c = ckbd[1]
      /\ \A i \in 1..Len(t) : i + 1 \in 1..Len(ckbd) /\ t[i] = ckbd[i + 1] /\ 1 < i + 1
  BY <1>1
<1>3. \A i \in 1..Len(ckbd) : ckbd[i] \in Nat
  <2>1. \A i \in 1..Len(ckbd) : ckbd[i] \in Chars BY <1>1
  <2> QED BY <2>1, <1>1 DEF Chars
<1>3a. Len(t) \in Nat BY <1>1
<1>4. \/ u[1] = 0 /\ (u[2] \in {-1, 0, alting} \/ (alting = 0 /\ c # 0 /\ u[2] = c))
      \/ u[1] = c /\ c # 0 /\ u[2] = -1
      \/ u[1] = alting /\ c # 0 /\ alting > 0 /\ u[2] = -1
  <2>1. CASE u = <<0, alting>> BY <2>1
  <2>2. CASE u \in utoplan9kbd(c)
    <3>1. CASE c = 0
      <4>1. u = <<0, IF alting = -1 THEN 0 ELSE -1>> BY <2>2, <3>1 DEF utoplan9kbd
      <4> QED BY <4>1
    <3>2. CASE c # 0 /\ alting = -1
      <4>1. u = <<c, -1>> BY <2>2, <3>2 DEF utoplan9kbd
      <4> QED BY <4>1, <3>2
    <3>3. CASE c # 0 /\ alting # -1
      <4>1. PICK first : /\ first = IF alting = 0 THEN c ELSE alting
                         /\ u \in {<<c, -1>>, <<first, -1>>, <<0, first>>}
        BY <2>2, <3>3 DEF utoplan9kbd
      <4> QED BY <1>1, <3>3, <4>1
    <3> QED BY <3>1, <3>2, <3>3
  <2> QED BY <2>1, <2>2
<1> HIDE DEF c, t
<1>5. KbdSorted(u[2], t, top)
  <2>1. u[2] <= top BY <1>1, <1>2, <1>3, <1>4 DEF KbdSorted
  <2>2. ASSUME NEW i \in 1..Len(t)
        PROVE  t[i] <= top /\ (u[2] > 0 /\ t[i] # 0 => u[2] < t[i])
    <3>1. u[2] > 0 => u[2] = alting \/ (u[2] = c /\ c # 0) BY <1>4
    <3> QED BY <1>2, <3>1 DEF KbdSorted
  <2>3. ASSUME NEW i \in 1..Len(t), NEW j \in 1..Len(t), i < j, t[i] # 0, t[j] # 0 PROVE t[i] < t[j]
    <3>1. i + 1 < j + 1 BY <2>3, <1>3a
    <3> QED BY <1>2, <2>3, <3>1 DEF KbdSorted
  <2> QED BY <2>1, <2>2, <2>3 DEF KbdSorted
<1>6. ASSUME NEW x \in KbdComing(u[2], t, top) PROVE x \in KbdComing(alting, ckbd, top)
  <2>1. \/ (x = u[2] /\ x > 0) \/ x = top + 1
        \/ \E i \in 1..Len(t) : x = t[i] /\ t[i] # 0
    BY <1>6 DEF KbdComing
  <2>2. CASE x = u[2] /\ x > 0
    <3>1. x = alting \/ (x = c /\ c # 0) BY <1>4, <2>2
    <3> QED BY <1>2, <2>2, <3>1 DEF KbdComing
  <2>3. CASE \E i \in 1..Len(t) : x = t[i] /\ t[i] # 0 BY <1>2, <2>3 DEF KbdComing
  <2> QED BY <2>1, <2>2, <2>3 DEF KbdComing
<1>7. ASSUME u[1] # 0 PROVE u[1] \in KbdComing(alting, ckbd, top)
  BY <1>2, <1>4, <1>7 DEF KbdComing
<1>8. ASSUME u[1] # 0, NEW x \in KbdComing(u[2], t, top) PROVE u[1] + 1 <= x
  <2>1. u[2] = -1 /\ c # 0 /\ (u[1] = c \/ (u[1] = alting /\ alting > 0)) BY <1>4, <1>8
  <2>2. \/ x = top + 1
        \/ \E i \in 1..Len(t) : x = t[i] /\ t[i] # 0
    BY <1>8, <2>1 DEF KbdComing
  <2>3. u[1] <= top /\ u[1] \in Nat BY <1>1, <1>2, <1>3, <2>1 DEF KbdSorted
  <2>4. CASE \E i \in 1..Len(t) : x = t[i] /\ t[i] # 0
    <3>1. PICK i \in 1..Len(t) : x = t[i] /\ t[i] # 0 BY <2>4
    <3>2. u[1] < x BY <1>2, <2>1, <3>1 DEF KbdSorted
    <3>3. x \in Nat BY <1>2, <1>3, <3>1
    <3> QED BY <2>3, <3>2, <3>3
  <2> QED BY <2>2, <2>3, <2>4
<1> QED BY <1>5, <1>6, <1>7, <1>8 DEF t, c

\* What replymsg() adds to fdout.
LEMMA RepliedSeq ==
    ASSUME Typed, NEW cs \in Seq(Replies), replymsg(cs), UNCHANGED rp
    PROVE  /\ SentTo' = SentTo /\ SentTo \in 0..Len(fdout)
           /\ \/ fdout' = fdout \o cs /\ status' = status
              \/ fdout' = fdout /\ status' = "fatal"
<1>1. SentTo \in 0..Len(fdout)
  BY DEF Typed, WritesWithin, Writers, SentTo
<1>2. CASE Len(fdout) + Len(cs) > 2 * MAXWMSG
  BY <1>1, <1>2 DEF replymsg, SentTo
<1>3. CASE ~(Len(fdout) + Len(cs) > 2 * MAXWMSG)
  <2>1. /\ fdout' = fdout \o cs /\ status' = status
        /\ writer' = writer \/ (writer.at = "waitmore" /\ writer' = [writer EXCEPT !.at = "start"])
    BY <1>3 DEF replymsg, Woken
  <2>2. SentTo' = SentTo BY <2>1 DEF SentTo, Typed, Writers
  <2> QED BY <1>1, <2>1, <2>2
<1> QED BY <1>2, <1>3

\* What matchkbd() does, in full.
LEMMA MatchkbdSeq ==
    ASSUME Typed, NEW k \in Rings(Nring, Chars), NEW tg \in Rings(Ntags, Tags \cup {0}),
           NEW more, matchkbd(k, tg, more)
    PROVE  \E n \in 0..Waiting(k, Nring), cs \in Seq(Replies) :
             /\ n \in 0..Waiting(tg, Ntags) /\ Len(cs) = n
             /\ \A j \in 1..n : cs[j] = Reply("rdkbd", Item(tg, Ntags, j), Item(k, Nring, j))
             /\ kbd' = Skip(k, Nring, n) /\ kbdtags' = Skip(tg, Ntags, n) /\ replymsg(cs)
             /\ hist' = [hist EXCEPT !.queued = (@ \cup more) \ {Item(k, Nring, j) : j \in 1..n}]
             /\ k.stall => n = 0
             /\ ~k.stall => n = Waiting(k, Nring) \/ n = Waiting(tg, Ntags)
<1> DEFINE n == Matches(k, tg)
           cs == [j \in 1..n |-> Reply("rdkbd", Item(tg, Ntags, j), Item(k, Nring, j))]
<1>1. 0 \in Chars /\ 0 \in Tags \cup {0} /\ Nring \in Nat \ {0} /\ Ntags \in Nat \ {0} BY Sizes DEF Chars
<1>2. Waiting(k, Nring) \in Nat /\ Waiting(tg, Ntags) \in Nat BY <1>1, WaitingIs
<1>3. /\ n \in 0..Waiting(k, Nring) /\ n \in 0..Waiting(tg, Ntags) /\ n \in Nat
      /\ k.stall => n = 0
      /\ ~k.stall => n = Waiting(k, Nring) \/ n = Waiting(tg, Ntags)
  <2>1. CASE k.stall BY <1>2, <2>1 DEF Matches
  <2>2. CASE ~k.stall
    <3>1. n = Min({Waiting(k, Nring), Waiting(tg, Ntags)}) BY <2>2 DEF Matches
    <3>2. n = IF Waiting(k, Nring) <= Waiting(tg, Ntags) THEN Waiting(k, Nring) ELSE Waiting(tg, Ntags)
      BY <1>2, <3>1, MinOfTwo
    <3> QED BY <1>2, <2>2, <3>2
  <2> QED BY <2>1, <2>2
<1>4. /\ kbd' = Skip(k, Nring, n) /\ kbdtags' = Skip(tg, Ntags, n) /\ replymsg(cs)
      /\ hist' = [hist EXCEPT !.queued = (@ \cup more) \ {Item(k, Nring, j) : j \in 1..n}]
  BY DEF matchkbd
<1> HIDE DEF n
<1>5. cs \in Seq(Replies)
  <2>1. ASSUME NEW j \in 1..n PROVE Reply("rdkbd", Item(tg, Ntags, j), Item(k, Nring, j)) \in Replies
    <3>2. Item(tg, Ntags, j) \in Tags \cup {0} /\ Item(k, Nring, j) \in Chars
      BY <1>1, <1>3, ItemOfRing
    <3>3. Item(k, Nring, j) \in Int BY <3>2, Sizes DEF Chars
    <3> QED BY <3>2, <3>3 DEF Reply, Replies, Reads
  <2> QED BY <1>3, <2>1
<1>6. Len(cs) = n /\ \A j \in 1..n : cs[j] = Reply("rdkbd", Item(tg, Ntags, j), Item(k, Nring, j))
  BY <1>3
<1> HIDE DEF cs
<1> QED BY <1>3, <1>4, <1>5, <1>6

\* What matchmouse() does, but for mresized.
LEMMA MatchmouseSeq ==
    ASSUME Typed, NEW m \in Rings(Nring, Nat), NEW tg \in Rings(Ntags, Tags \cup {0}), matchmouse(m, tg)
    PROVE  \E n \in 0..Waiting(m, Nring), cs \in Seq(Replies) :
             /\ n \in 0..Waiting(tg, Ntags) /\ Len(cs) = n
             /\ \A j \in 1..n : /\ cs[j].type \in MouseTypes /\ cs[j].tag = Item(tg, Ntags, j)
                                /\ cs[j].val = Item(m, Nring, j)
             /\ mouse' = Skip(m, Nring, n) /\ mousetags' = Skip(tg, Ntags, n) /\ replymsg(cs)
             /\ hist'.key = hist.key /\ hist'.move = hist.move /\ hist'.typed = hist.typed
             /\ hist'.moved = hist.moved /\ hist'.queued = hist.queued
<1> DEFINE n == Min({Waiting(m, Nring), Waiting(tg, Ntags)})
           ty(j) == IF j = 1 /\ mresized THEN "resized" ELSE "rdmouse"
           cs == [j \in 1..n |-> Reply(ty(j), Item(tg, Ntags, j), Item(m, Nring, j))]
<1>1. 0 \in Nat /\ 0 \in Tags \cup {0} /\ Nring \in Nat \ {0} /\ Ntags \in Nat \ {0} BY Sizes
<1>2. n \in 0..Waiting(m, Nring) /\ n \in 0..Waiting(tg, Ntags)
  BY <1>1, MatchedRings
<1>3. n \in Nat BY <1>1, <1>2, WaitingIs
<1>4. mouse' = Skip(m, Nring, n) /\ mousetags' = Skip(tg, Ntags, n) /\ replymsg(cs)
  BY DEF matchmouse
<1>5. /\ hist'.key = hist.key /\ hist'.move = hist.move /\ hist'.typed = hist.typed
      /\ hist'.moved = hist.moved /\ hist'.queued = hist.queued
  <2>1. \E x, y : hist' = [hist EXCEPT !.owed = x] \/ hist' = [hist EXCEPT !.owed = x, !.sized = y]
    BY DEF matchmouse
  <2> QED BY <2>1 DEF Typed, History
<1> HIDE DEF n
<1>6. ASSUME NEW j \in 1..n
      PROVE  /\ cs[j] \in Replies /\ cs[j].type \in MouseTypes /\ cs[j].tag = Item(tg, Ntags, j)
             /\ cs[j].val = Item(m, Nring, j)
  <2>1. Item(tg, Ntags, j) \in Tags \cup {0} /\ Item(m, Nring, j) \in Nat
    BY <1>1, <1>3, ItemOfRing
  <2>2. cs[j] = Reply(ty(j), Item(tg, Ntags, j), Item(m, Nring, j)) OBVIOUS
  <2>3. ty(j) \in MouseTypes BY DEF MouseTypes
  <2> HIDE DEF ty, cs
  <2> QED BY <2>1, <2>2, <2>3 DEF Reply, Replies, Reads, MouseTypes
<1>7. cs \in Seq(Replies) /\ Len(cs) = n BY <1>3, <1>6
<1> HIDE DEF cs
<1> QED BY <1>2, <1>4, <1>5, <1>6, <1>7

\* matchkbd() keeps the order, whatever the characters still to come.
LEMMA MatchkbdOrder ==
    ASSUME Typed, NEW k \in Rings(Nring, Chars), NEW tg \in Rings(Ntags, Tags \cup {0}),
           NEW more, matchkbd(k, tg, more), UNCHANGED rp, NEW C, NEW D,
           Order(1, {"rdkbd"}, fdout, SentTo, hist.key, k, C),
           Order(0, MouseTypes, fdout, SentTo, hist.move, mouse, D)
    PROVE  /\ Order(1, {"rdkbd"}, fdout', SentTo', hist'.key, kbd', C)
           /\ Order(0, MouseTypes, fdout', SentTo', hist'.move, mouse, D)
           /\ hist'.key = hist.key /\ hist'.move = hist.move
           /\ hist'.typed = hist.typed /\ hist'.moved = hist.moved
<1>1. PICK n \in 0..Waiting(k, Nring), cs \in Seq(Replies) :
             /\ Len(cs) = n
             /\ \A j \in 1..n : cs[j] = Reply("rdkbd", Item(tg, Ntags, j), Item(k, Nring, j))
             /\ kbd' = Skip(k, Nring, n) /\ replymsg(cs)
             /\ hist' = [hist EXCEPT !.queued = (@ \cup more) \ {Item(k, Nring, j) : j \in 1..n}]
  BY MatchkbdSeq
<1>2. hist'.key = hist.key /\ hist'.move = hist.move /\ hist'.typed = hist.typed /\ hist'.moved = hist.moved
  BY <1>1 DEF Typed, History
<1>3. /\ SentTo' = SentTo /\ SentTo \in 0..Len(fdout) /\ fdout \in Seq(Replies) /\ 0 \in Chars
      /\ fdout' = fdout \o cs \/ fdout' = fdout
  BY SMTT(30), <1>1, RepliedSeq, Sizes DEF Typed, Chars
<1>4. \A j \in 1..n : cs[j].val = Item(k, Nring, j) BY <1>1 DEF Reply
<1>5. \A j \in 1..Len(cs) : cs[j].type \notin MouseTypes BY <1>1 DEF Reply, MouseTypes
<1>6. Order(1, {"rdkbd"}, fdout \o cs, SentTo, hist.key, Skip(k, Nring, n), C)
  BY <1>1, <1>3, <1>4, OrderReply
<1>7. Order(1, {"rdkbd"}, fdout, SentTo, hist.key, Skip(k, Nring, n), C)
  BY <1>3, OrderDrop
<1>8. Order(0, MouseTypes, fdout \o cs, SentTo, hist.move, mouse, D)
  BY <1>3, <1>5, OrderOther
<1> QED BY <1>1, <1>2, <1>3, <1>6, <1>7, <1>8

\* And so does matchmouse().
LEMMA MatchmouseOrder ==
    ASSUME Typed, NEW m \in Rings(Nring, Nat), NEW tg \in Rings(Ntags, Tags \cup {0}),
           matchmouse(m, tg), UNCHANGED rp, NEW C, NEW D,
           Order(1, {"rdkbd"}, fdout, SentTo, hist.key, kbd, C),
           Order(0, MouseTypes, fdout, SentTo, hist.move, m, D)
    PROVE  /\ Order(1, {"rdkbd"}, fdout', SentTo', hist'.key, kbd, C)
           /\ Order(0, MouseTypes, fdout', SentTo', hist'.move, mouse', D)
           /\ hist'.key = hist.key /\ hist'.move = hist.move
           /\ hist'.typed = hist.typed /\ hist'.moved = hist.moved /\ hist'.queued = hist.queued
<1>1. PICK n \in 0..Waiting(m, Nring), cs \in Seq(Replies) :
             /\ Len(cs) = n
             /\ \A j \in 1..n : cs[j].type \in MouseTypes /\ cs[j].val = Item(m, Nring, j)
             /\ mouse' = Skip(m, Nring, n) /\ replymsg(cs)
             /\ hist'.key = hist.key /\ hist'.move = hist.move /\ hist'.typed = hist.typed
             /\ hist'.moved = hist.moved /\ hist'.queued = hist.queued
  BY MatchmouseSeq
<1>3. /\ SentTo' = SentTo /\ SentTo \in 0..Len(fdout) /\ fdout \in Seq(Replies)
      /\ fdout' = fdout \o cs \/ fdout' = fdout
  BY <1>1, RepliedSeq DEF Typed
<1>5. \A j \in 1..Len(cs) : cs[j].type \notin {"rdkbd"} BY <1>1 DEF MouseTypes
<1>6. Order(0, MouseTypes, fdout \o cs, SentTo, hist.move, Skip(m, Nring, n), D)
  BY <1>1, <1>3, OrderReply
<1>7. Order(0, MouseTypes, fdout, SentTo, hist.move, Skip(m, Nring, n), D)
  BY <1>3, OrderDrop
<1>8. Order(1, {"rdkbd"}, fdout \o cs, SentTo, hist.key, kbd, C)
  BY <1>3, <1>5, OrderOther
<1> QED BY <1>1, <1>3, <1>6, <1>7, <1>8

\* matchkbd() takes from the queue what it takes from the ring.
LEMMA MatchkbdQueue ==
    ASSUME Typed, NEW k \in Rings(Nring, Chars), NEW tg \in Rings(Ntags, Tags \cup {0}),
           NEW more, matchkbd(k, tg, more), NEW qd, qd = hist.queued \cup more,
           \A i, j \in 1..Waiting(k, Nring) : i < j => Item(k, Nring, i) + 1 <= Item(k, Nring, j),
           Held(k) \subseteq qd,
           (qd = Held(k) /\ ~k.stall) \/ Cardinality(qd \ Held(k)) >= Nring
    PROVE  /\ hist'.queued \subseteq qd /\ Held(kbd') \subseteq hist'.queued
           /\ \/ /\ hist'.queued = Held(kbd') /\ ~kbd'.stall
                 /\ Waiting(kbd', Nring) = 0 \/ Waiting(kbdtags', Ntags) = 0
              \/ Cardinality(hist'.queued \ Held(kbd')) >= Nring
<1>1. PICK n \in 0..Waiting(k, Nring) :
             /\ n \in 0..Waiting(tg, Ntags)
             /\ kbd' = Skip(k, Nring, n) /\ kbdtags' = Skip(tg, Ntags, n)
             /\ hist' = [hist EXCEPT !.queued = (@ \cup more) \ {Item(k, Nring, j) : j \in 1..n}]
             /\ ~k.stall => n = Waiting(k, Nring) \/ n = Waiting(tg, Ntags)
  BY MatchkbdSeq
<1> DEFINE R == {Item(k, Nring, j) : j \in 1..n}
<1>2. hist'.queued = qd \ R BY <1>1 DEF Typed, History
<1>3. 0 \in Chars /\ Chars \subseteq Int /\ 0 \in Tags \cup {0} /\ Nring \in Nat \ {0} /\ Ntags \in Nat \ {0}
  BY Sizes DEF Chars
<1>4. Held(kbd') = Held(k) \ R /\ R \subseteq Held(k) BY <1>1, <1>3, HeldSkip
<1>5. /\ Waiting(kbd', Nring) = Waiting(k, Nring) - n /\ kbd'.stall = k.stall
      /\ Waiting(kbdtags', Ntags) = Waiting(tg, Ntags) - n
  BY <1>1, <1>3, SkipRing
<1>6. Waiting(k, Nring) \in Nat /\ Waiting(tg, Ntags) \in Nat BY <1>3, WaitingIs
<1> HIDE DEF R
<1>7. CASE qd = Held(k) /\ ~k.stall
  BY <1>1, <1>2, <1>4, <1>5, <1>6, <1>7
<1>8. CASE Cardinality(qd \ Held(k)) >= Nring
  <2>1. hist'.queued \ Held(kbd') = qd \ Held(k) BY <1>2, <1>4
  <2> QED BY <1>2, <1>4, <1>8, <2>1
<1> QED BY <1>7, <1>8

\* Stalls() changes stall only.
LEMMA StallsSame ==
    ASSUME NEW V, NEW p \in Rings(Nring, V)
    PROVE  /\ Stalls(p) \in Rings(Nring, V) /\ Stalls(p).stall = (p.ri = p.wi)
           /\ Waiting(Stalls(p), Nring) = Waiting(p, Nring)
           /\ \A j \in Int : Item(Stalls(p), Nring, j) = Item(p, Nring, j)
<1> DEFINE full == p.ri = p.wi
           k == Stalls(p)
<1>1. full \in BOOLEAN /\ k = [p EXCEPT !.stall = full] BY DEF Stalls
<1> HIDE DEF full, k
<1>2. /\ k \in Rings(Nring, V) /\ k.stall = full /\ Waiting(k, Nring) = Waiting(p, Nring)
      /\ \A j \in Int : Item(k, Nring, j) = Item(p, Nring, j)
  BY <1>1, Sizes, StallItems
<1> QED BY <1>2 DEF full, k

\* The character v is put into kbd: it is queued, or the ring is full and all
\* are lost.
LEMMA PutQueue ==
    ASSUME Typed, NEW v \in Chars, \A x \in hist.queued : x < v, Held(kbd) \subseteq hist.queued,
           hist.queued = Held(kbd) \/ Cardinality(hist.queued \ Held(kbd)) >= Nring,
           \A i, j \in 1..Waiting(kbd, Nring) : i < j => Item(kbd, Nring, i) + 1 <= Item(kbd, Nring, j)
    PROVE  LET k == Stalls(Put(kbd, Nring, v))
               qd == hist.queued \cup {v}
           IN  /\ Held(k) \subseteq qd
               /\ (qd = Held(k) /\ ~k.stall) \/ Cardinality(qd \ Held(k)) >= Nring
<1> USE Sizes
<1> DEFINE p == Put(kbd, Nring, v)
           k == Stalls(p)
           qd == hist.queued \cup {v}
           w == Waiting(kbd, Nring)
<1>1. kbd \in Rings(Nring, Chars) /\ Chars \subseteq Int /\ IsFiniteSet(hist.queued) /\ hist.queued \subseteq Chars
  <2>1. hist.queued \in SUBSET Chars BY DEF Typed, History
  <2>2. IsFiniteSet(Chars) BY FS_Interval DEF Chars
  <2> QED BY <2>1, <2>2, FS_Subset DEF Typed, Chars
<1>2. p \in Rings(Nring, Chars) /\ (p.ri = p.wi <=> w = Nring - 1) BY <1>1, PutRing
<1>3. /\ w = Nring - 1 => Held(p) = {}
      /\ w # Nring - 1 => Held(p) = Held(kbd) \cup {v}
  BY <1>1, HeldPut
<1>4. v \notin hist.queued BY <1>1 DEF Chars
<1> HIDE DEF p
<1>5. Waiting(k, Nring) = Waiting(p, Nring) /\ k.stall = (p.ri = p.wi) /\ Held(k) = Held(p)
  <2>2. /\ Waiting(k, Nring) = Waiting(p, Nring) /\ k.stall = (p.ri = p.wi)
        /\ \A j \in Int : Item(k, Nring, j) = Item(p, Nring, j)
    BY <1>2, StallsSame
  <2>3. Waiting(p, Nring) \in Nat BY <1>2, WaitingIs
  <2> HIDE DEF k
  <2>4. \A j \in 1..Waiting(p, Nring) : Item(k, Nring, j) = Item(p, Nring, j) BY <2>2, <2>3
  <2> QED BY <2>2, <2>4 DEF Held
<1>6. IsFiniteSet(qd) /\ Cardinality(qd) = Cardinality(hist.queued) + 1
  BY <1>1, <1>4, FS_AddElement
<1>7. Cardinality(hist.queued) \in Nat BY <1>1, FS_CardinalityType
<1> HIDE DEF k
<1>8. CASE w = Nring - 1
  <2>1. Held(k) = {} BY <1>3, <1>5, <1>8
  <2>2. CASE hist.queued = Held(kbd)
    <3>1. Cardinality(hist.queued) = Nring - 1 BY <1>1, <1>8, <2>2, HeldCount
    <3>2. qd \ Held(k) = qd BY <2>1
    <3> QED BY <1>6, <2>1, <3>1, <3>2 DEF k, p
  <2>3. CASE Cardinality(hist.queued \ Held(kbd)) >= Nring
    <3>1. hist.queued \ Held(kbd) \subseteq qd \ Held(k) BY <2>1
    <3>2. IsFiniteSet(qd \ Held(k)) BY <1>6, FS_Subset
    <3>3. /\ Cardinality(hist.queued \ Held(kbd)) <= Cardinality(qd \ Held(k))
          /\ Cardinality(qd \ Held(k)) \in Nat /\ Cardinality(hist.queued \ Held(kbd)) \in Nat
      BY <3>1, <3>2, FS_Subset, FS_CardinalityType
    <3> QED BY <2>1, <2>3, <3>3 DEF k, p
  <2> QED BY <2>2, <2>3
<1>9. CASE w # Nring - 1
  <2>1. Held(k) = Held(kbd) \cup {v} /\ ~k.stall BY <1>2, <1>3, <1>5, <1>9
  <2>2. qd \ Held(k) = hist.queued \ Held(kbd) BY <1>4, <2>1
  <2> QED BY <2>1, <2>2 DEF k, p
<1> QED BY <1>8, <1>9

\* The invariant on events.
EventInv == Typed /\ OrderInv /\ QueueInv

\* The initial states satisfy it.
LEMMA InitEvents == Init => EventInv
<1> SUFFICES ASSUME Init PROVE EventInv
  OBVIOUS
<1>1. Typed BY InitTyped
<1>2. Waiting(kbd, Nring) = 0 /\ ~kbd.stall /\ Waiting(mouse, Nring) = 0
  BY Sizes, EmptyRing DEF Init
<1>3. /\ ckbd = <<>> /\ cmouse = <<>> /\ alting = -1 /\ hist.typed = 0 /\ hist.moved = 0
      /\ hist.key = 0 /\ hist.move = 0 /\ hist.queued = {} /\ fdout = <<>>
  BY DEF Init
<1>4. KbdComing(alting, ckbd, hist.typed) = {1} /\ MouseComing(cmouse, hist.moved) = {0}
  BY <1>3 DEF KbdComing, MouseComing
<1>5. KbdSorted(alting, ckbd, hist.typed) /\ MouseSorted(cmouse, hist.moved)
  BY <1>3 DEF KbdSorted, MouseSorted
<1>6. SentTo \in Nat BY DEF Init, SentTo
<1>7. \A tys : Still(fdout, SentTo, tys) = {} BY <1>3, <1>6 DEF Still
<1>8. 1..Waiting(kbd, Nring) = {} /\ 1..Waiting(mouse, Nring) = {} BY <1>2
<1>9. KbdOrder /\ MouseOrder
  BY <1>3, <1>4, <1>7, <1>8 DEF KbdOrder, MouseOrder, Order
<1>10. Held(kbd) = {} BY <1>8 DEF Held
<1>11. QueueInv BY <1>2, <1>3, <1>10 DEF QueueInv
<1> QED BY <1>1, <1>3, <1>5, <1>9, <1>11 DEF EventInv, OrderInv

\* What is to come are numbers.
LEMMA ComingInt ==
    ASSUME NEW al \in Int, NEW ck \in Seq(Chars), NEW top \in Nat
    PROVE  KbdComing(al, ck, top) \subseteq Int
<1>1. \A i \in 1..Len(ck) : ck[i] \in Chars OBVIOUS
<1>2. Chars \subseteq Int BY Sizes DEF Chars
<1>3. ASSUME NEW x \in KbdComing(al, ck, top) PROVE x \in Int
  <2>1. x = al \/ x = top + 1 \/ \E i \in 1..Len(ck) : x = ck[i] BY <1>3 DEF KbdComing
  <2>2. CASE \E i \in 1..Len(ck) : x = ck[i] BY <1>1, <1>2, <2>2
  <2> QED BY <2>1, <2>2
<1> QED BY <1>3

\* kbdthread() keeps the invariant.
LEMMA KbdthreadEvents == ASSUME EventInv, kbdthread PROVE OrderInv' /\ QueueInv'
<1> DEFINE C == KbdComing(alting, ckbd, hist.typed)
           D == MouseComing(cmouse, hist.moved)
<1>1. /\ ckbd # <<>> /\ ckbd' = Tail(ckbd) /\ Typed
      /\ UNCHANGED <<cmouse, mouse, rp>>
      /\ \/ kbd.stall /\ UNCHANGED <<status, writer, alting, kbd, kbdtags, fdout, hist>>
         \/ \E u \in utoplan9kbd(Head(ckbd)) :
              /\ alting' = u[2]
              /\ IF u[1] = 0
                 THEN UNCHANGED <<status, writer, kbd, kbdtags, fdout, hist>>
                 ELSE matchkbd(Stalls(Put(kbd, Nring, u[1])), kbdtags, {u[1]})
  BY DEF kbdthread, EventInv
<1>2. PICK u : /\ u \in utoplan9kbd(Head(ckbd)) \/ u = <<0, alting>>
               /\ alting' = u[2]
               /\ IF u[1] = 0
                  THEN UNCHANGED <<status, writer, kbd, kbdtags, fdout, hist>>
                  ELSE /\ u \in utoplan9kbd(Head(ckbd))
                       /\ matchkbd(Stalls(Put(kbd, Nring, u[1])), kbdtags, {u[1]})
  <2>1. CASE kbd.stall /\ UNCHANGED <<status, writer, alting, kbd, kbdtags, fdout, hist>>
    <3> DEFINE u == <<0, alting>>
    <3>1. u[1] = 0 /\ u[2] = alting OBVIOUS
    <3> QED BY <2>1, <3>1
  <2> QED BY <1>1, <2>1
<1>3. /\ KbdSorted(alting, ckbd, hist.typed) /\ KbdOrder /\ hist.key \in Int /\ hist.move \in Int
      /\ MouseSorted(cmouse, hist.moved) /\ MouseOrder /\ hist.typed \in Nat
      /\ kbd \in Rings(Nring, Chars) /\ kbdtags \in Rings(Ntags, Tags \cup {0})
      /\ Head(ckbd) \in Chars /\ Tail(ckbd) \in Seq(Chars)
  <2>1. hist.typed \in Chars BY <1>1 DEF Typed, History
  <2>2. hist.typed \in Nat BY <2>1, Sizes DEF Chars
  <2>3. ckbd \in Seq(Chars) BY <1>1 DEF Typed, Queues
  <2>4. Head(ckbd) \in Chars /\ Tail(ckbd) \in Seq(Chars) BY <1>1, <2>3
  <2>5. kbd \in Rings(Nring, Chars) /\ kbdtags \in Rings(Ntags, Tags \cup {0}) BY <1>1 DEF Typed
  <2> QED BY <2>2, <2>4, <2>5 DEF EventInv, OrderInv
<1> DEFINE E == KbdComing(u[2], Tail(ckbd), hist.typed)
<1>4. /\ KbdSorted(u[2], Tail(ckbd), hist.typed) /\ E \subseteq C
      /\ u[1] # 0 => u[1] \in C /\ \A x \in E : u[1] + 1 <= x
  BY <1>1, <1>2, <1>3, Translated
<1>5. Order(1, {"rdkbd"}, fdout, SentTo, hist.key, kbd, C) /\ Order(0, MouseTypes, fdout, SentTo, hist.move, mouse, D)
  BY <1>3 DEF KbdOrder, MouseOrder
<1>6. \A i, j \in 1..Waiting(kbd, Nring) : i < j => Item(kbd, Nring, i) + 1 <= Item(kbd, Nring, j)
  BY <1>5 DEF Order
<1>7. /\ \A x \in hist.queued, y \in C : x < y
      /\ Held(kbd) \subseteq hist.queued
      /\ hist.queued = Held(kbd) \/ Cardinality(hist.queued \ Held(kbd)) >= Nring
  BY DEF EventInv, QueueInv
<1>8. CASE u[1] = 0
  <2>1. UNCHANGED <<kbd, kbdtags, fdout, hist>> /\ SentTo' = SentTo BY <1>1, <1>2, <1>8 DEF SentTo
  <2>2. Order(1, {"rdkbd"}, fdout, SentTo, hist.key, kbd, E) BY <1>4, <1>5, OrderFewer
  <2>3. OrderInv' BY <1>1, <1>2, <1>3, <1>4, <1>5, <2>1, <2>2 DEF OrderInv, KbdOrder, MouseOrder
  <2>4. QueueInv'
    <3>1. KbdComing(alting', ckbd', hist'.typed) = E BY <1>1, <1>2, <2>1
    <3> HIDE DEF C, E
    <3> QED BY <1>4, <1>7, <2>1, <3>1 DEF EventInv, QueueInv
  <2> QED BY <2>3, <2>4
<1>9. CASE u[1] # 0
  <2> DEFINE v == u[1]
             p == Put(kbd, Nring, v)
             k == Stalls(p)
  <2>1. v \in Chars /\ matchkbd(k, kbdtags, {v}) BY <1>1, <1>2, <1>3, <1>9, Utoplan9
  <2>2. p \in Rings(Nring, Chars) BY <1>3, <2>1, Sizes, PutRing
  <2>3. Order(1, {"rdkbd"}, fdout, SentTo, hist.key, p, E)
    <3> HIDE DEF C, E
    <3> QED BY <1>3, <1>4, <1>5, <1>9, <2>1, OrderPut
  <2>4. /\ k \in Rings(Nring, Chars) /\ Waiting(k, Nring) = Waiting(p, Nring)
        /\ \A j \in Int : Item(k, Nring, j) = Item(p, Nring, j)
    BY <2>2, StallsSame
  <2>5. Waiting(p, Nring) \in Nat BY <2>2, Sizes, WaitingIs
  <2> HIDE DEF p, C, D, E
  <2>6. Order(1, {"rdkbd"}, fdout, SentTo, hist.key, k, E)
    BY <2>3, <2>4, <2>5, OrderSame
  <2>7. /\ Held(k) \subseteq hist.queued \cup {v}
        /\ (hist.queued \cup {v} = Held(k) /\ ~k.stall) \/ Cardinality((hist.queued \cup {v}) \ Held(k)) >= Nring
    <3>1. \A x \in hist.queued : x < v BY <1>4, <1>7, <1>9
    <3> QED BY <1>1, <1>6, <1>7, <2>1, <3>1, PutQueue DEF p
  <2> HIDE DEF k
  <2>8. /\ Order(1, {"rdkbd"}, fdout', SentTo', hist'.key, kbd', E)
        /\ Order(0, MouseTypes, fdout', SentTo', hist'.move, mouse, D)
        /\ hist'.key = hist.key /\ hist'.move = hist.move
        /\ hist'.typed = hist.typed /\ hist'.moved = hist.moved
    BY <1>1, <1>3, <1>5, <2>1, <2>4, <2>6, MatchkbdOrder
  <2>9. OrderInv'
    BY <1>1, <1>2, <1>3, <1>4, <2>8 DEF OrderInv, KbdOrder, MouseOrder, E, D
  <2>10. \A i, j \in 1..Waiting(k, Nring) : i < j => Item(k, Nring, i) + 1 <= Item(k, Nring, j)
    BY <2>6 DEF Order
  <2>11. /\ hist'.queued \subseteq hist.queued \cup {v} /\ Held(kbd') \subseteq hist'.queued
         /\ \/ /\ hist'.queued = Held(kbd') /\ ~kbd'.stall
               /\ Waiting(kbd', Nring) = 0 \/ Waiting(kbdtags', Ntags) = 0
            \/ Cardinality(hist'.queued \ Held(kbd')) >= Nring
    BY <1>1, <1>3, <2>1, <2>4, <2>7, <2>10, MatchkbdQueue
  <2>12. \A x \in hist'.queued, y \in E : x < y
    <3>1. \A y \in E : v + 1 <= y /\ y \in C BY <1>4, <1>9
    <3>2. \A y \in E : y \in Int
      <4>1. u[2] \in -1..MaxKeys BY <1>1, <1>2, <1>3, <1>9, Utoplan9
      <4>2. u[2] \in Int BY <4>1, Sizes
      <4> QED BY <1>3, <4>2, ComingInt DEF E
    <3>3. v \in Int BY <2>1, Sizes DEF Chars
    <3> QED BY <1>7, <2>11, <3>1, <3>2, <3>3
  <2>13. KbdComing(alting', ckbd', hist'.typed) = E BY <1>1, <1>2, <2>8 DEF E
  <2>14. QueueInv' BY <2>11, <2>12, <2>13 DEF QueueInv
  <2> QED BY <2>9, <2>14
<1> QED BY <1>8, <1>9

\* Rings that differ in stall only hold the same.
LEMMA SameRing ==
    ASSUME NEW n \in Nat \ {0}, NEW V, NEW q \in Rings(n, V), NEW p,
           p = [q EXCEPT !.stall = FALSE] \/ p = [q EXCEPT !.stall = TRUE]
    PROVE  /\ p \in Rings(n, V) /\ Waiting(p, n) = Waiting(q, n)
           /\ \A j \in Int : Item(p, n, j) = Item(q, n, j)
           /\ p = [q EXCEPT !.stall = FALSE] => ~p.stall
<1>1. p \in Rings(n, V) /\ p.ri = q.ri /\ p.wi = q.wi /\ p.b = q.b BY DEF Rings
<1>2. p = [q EXCEPT !.stall = FALSE] => ~p.stall BY DEF Rings
<1> QED BY <1>1, <1>2 DEF Waiting, Item

\* What the invariant says of the mouse and the types, for use in a step.
LEMMA EventFacts ==
    ASSUME EventInv
    PROVE  /\ Typed /\ hist.key \in Int /\ hist.move \in Int /\ hist.typed \in Nat /\ hist.moved \in Nat
           /\ alting \in Int /\ ckbd \in Seq(Chars) /\ cmouse \in Seq(Nat) /\ fdout \in Seq(Replies)
           /\ KbdSorted(alting, ckbd, hist.typed) /\ MouseSorted(cmouse, hist.moved)
           /\ Order(1, {"rdkbd"}, fdout, SentTo, hist.key, kbd, KbdComing(alting, ckbd, hist.typed))
           /\ Order(0, MouseTypes, fdout, SentTo, hist.move, mouse, MouseComing(cmouse, hist.moved))
           /\ kbd \in Rings(Nring, Chars) /\ mouse \in Rings(Nring, Nat)
           /\ hist.queued \subseteq Chars /\ Chars \subseteq Int
           /\ SentTo \in 0..Len(fdout) /\ SentTo \in Nat
<1>1. Typed /\ OrderInv BY DEF EventInv
<1>2. hist \in History /\ Queues /\ alting \in -1..MaxKeys BY <1>1 DEF Typed
<1>3. hist.typed \in Chars /\ hist.moved \in Nat /\ hist.queued \subseteq Chars BY <1>2 DEF History
<1>4. hist.typed \in Nat /\ Chars \subseteq Int /\ alting \in Int BY <1>2, <1>3, Sizes DEF Chars
<1>5. SentTo \in 0..Len(fdout) BY <1>1 DEF Typed, WritesWithin, Writers, SentTo
<1>6. fdout \in Seq(Replies) /\ kbd \in Rings(Nring, Chars) /\ mouse \in Rings(Nring, Nat) BY <1>1 DEF Typed
<1> QED BY <1>1, <1>2, <1>3, <1>4, <1>5, <1>6 DEF Queues, OrderInv, KbdOrder, MouseOrder

\* Steps that have no part in events.
LEMMA EventFrame ==
    ASSUME EventInv, UNCHANGED <<ckbd, cmouse, alting, kbd, kbdtags, mouse, fdout>>, SentTo' = SentTo,
           hist'.key = hist.key, hist'.move = hist.move, hist'.typed = hist.typed,
           hist'.moved = hist.moved, hist'.queued = hist.queued
    PROVE  OrderInv' /\ QueueInv'
<1>1. OrderInv' BY DEF EventInv, OrderInv, KbdOrder, MouseOrder
<1>2. QueueInv' BY DEF EventInv, QueueInv
<1> QED BY <1>1, <1>2

\* Trdkbd keeps the invariant.
LEMMA TrdkbdEvents == ASSUME EventInv, Trdkbd PROVE OrderInv' /\ QueueInv'
<1> DEFINE C == KbdComing(alting, ckbd, hist.typed)
           D == MouseComing(cmouse, hist.moved)
           k == KbdUnstalled(kbd)
           tg == Put(kbdtags, Ntags, Head(fdin).tag)
<1>0. /\ Typed /\ hist.key \in Int /\ hist.move \in Int
      /\ KbdSorted(alting, ckbd, hist.typed) /\ MouseSorted(cmouse, hist.moved)
      /\ Order(1, {"rdkbd"}, fdout, SentTo, hist.key, kbd, C)
      /\ Order(0, MouseTypes, fdout, SentTo, hist.move, mouse, D)
      /\ kbd \in Rings(Nring, Chars)
  BY EventFacts
<1>1. /\ UNCHANGED <<ckbd, cmouse, alting, mouse, rp>>
      /\ \/ UNCHANGED <<writer, kbd, kbdtags, fdout, hist>>
         \/ matchkbd(k, tg, {})
  BY DEF Trdkbd, evvars
<1>2. CASE UNCHANGED <<writer, kbd, kbdtags, fdout, hist>>
  <2>1. SentTo' = SentTo BY <1>1, <1>2 DEF SentTo
  <2> QED BY <1>1, <1>2, <2>1, EventFrame
<1>3. CASE matchkbd(k, tg, {})
  <2>1. tg \in Rings(Ntags, Tags \cup {0})
    <3>1. Head(fdin) \in Messages BY DEF Trdkbd, Runs, EventInv, Typed, Queues
    <3>2. Head(fdin).tag \in Tags BY <3>1 DEF Messages
    <3> QED BY <1>0, <3>2, GivenRings
  <2>2. /\ k \in Rings(Nring, Chars) /\ ~k.stall /\ Waiting(k, Nring) = Waiting(kbd, Nring)
        /\ \A j \in Int : Item(k, Nring, j) = Item(kbd, Nring, j)
    <3>1. k = [kbd EXCEPT !.stall = FALSE] BY DEF KbdUnstalled
    <3> HIDE DEF k
    <3> QED BY <1>0, <3>1, Sizes, SameRing
  <2>3. Waiting(kbd, Nring) \in Nat BY <1>0, Sizes, WaitingIs
  <2> HIDE DEF k, tg, C, D
  <2>4. Order(1, {"rdkbd"}, fdout, SentTo, hist.key, k, C) BY <1>0, <2>2, <2>3, OrderSame
  <2>5. Held(k) = Held(kbd)
    <3>1. \A j \in 1..Waiting(kbd, Nring) : Item(k, Nring, j) = Item(kbd, Nring, j) BY <2>2, <2>3
    <3> QED BY <2>2, <3>1 DEF Held
  <2>6. /\ Order(1, {"rdkbd"}, fdout', SentTo', hist'.key, kbd', C)
        /\ Order(0, MouseTypes, fdout', SentTo', hist'.move, mouse, D)
        /\ hist'.key = hist.key /\ hist'.move = hist.move
        /\ hist'.typed = hist.typed /\ hist'.moved = hist.moved
    BY <1>0, <1>1, <1>3, <2>1, <2>2, <2>4, MatchkbdOrder
  <2>7. OrderInv'
    BY <1>0, <1>1, <2>6 DEF OrderInv, KbdOrder, MouseOrder, C, D
  <2>8. \A i, j \in 1..Waiting(k, Nring) : i < j => Item(k, Nring, i) + 1 <= Item(k, Nring, j)
    BY <2>4 DEF Order
  <2>9. /\ Held(k) \subseteq hist.queued
        /\ (hist.queued = Held(k) /\ ~k.stall) \/ Cardinality(hist.queued \ Held(k)) >= Nring
    BY <2>2, <2>5 DEF EventInv, QueueInv
  <2>10. hist.queued = hist.queued \cup {} OBVIOUS
  <2>11. /\ hist'.queued \subseteq hist.queued /\ Held(kbd') \subseteq hist'.queued
         /\ \/ /\ hist'.queued = Held(kbd') /\ ~kbd'.stall
               /\ Waiting(kbd', Nring) = 0 \/ Waiting(kbdtags', Ntags) = 0
            \/ Cardinality(hist'.queued \ Held(kbd')) >= Nring
    BY <1>0, <1>3, <2>1, <2>2, <2>8, <2>9, <2>10, MatchkbdQueue
  <2>12. KbdComing(alting', ckbd', hist'.typed) = KbdComing(alting, ckbd, hist.typed) BY <1>1, <2>6
  <2>13. QueueInv' BY <2>11, <2>12 DEF EventInv, QueueInv
  <2> QED BY <2>7, <2>13
<1> QED BY <1>1, <1>2, <1>3

\* Where matchmouse() is given the ring m and D is to come then.
LEMMA MatchmouseEvents ==
    ASSUME EventInv, NEW m \in Rings(Nring, Nat), NEW tg \in Rings(Ntags, Tags \cup {0}),
           matchmouse(m, tg), UNCHANGED <<rp, ckbd, alting, kbd, kbdtags>>,
           MouseSorted(cmouse', hist.moved),
           Order(0, MouseTypes, fdout, SentTo, hist.move, m, MouseComing(cmouse', hist.moved))
    PROVE  OrderInv' /\ QueueInv'
<1> DEFINE C == KbdComing(alting, ckbd, hist.typed)
           D == MouseComing(cmouse', hist.moved)
<1>0. /\ Typed /\ hist.key \in Int /\ hist.move \in Int
      /\ KbdSorted(alting, ckbd, hist.typed)
      /\ Order(1, {"rdkbd"}, fdout, SentTo, hist.key, kbd, C)
  BY EventFacts
<1>1. Order(0, MouseTypes, fdout, SentTo, hist.move, m, D) OBVIOUS
<1> HIDE DEF C, D
<1>2. /\ Order(1, {"rdkbd"}, fdout', SentTo', hist'.key, kbd, C)
      /\ Order(0, MouseTypes, fdout', SentTo', hist'.move, mouse', D)
      /\ hist'.key = hist.key /\ hist'.move = hist.move
      /\ hist'.typed = hist.typed /\ hist'.moved = hist.moved /\ hist'.queued = hist.queued
  BY <1>0, <1>1, MatchmouseOrder
<1>3. OrderInv' BY <1>0, <1>2 DEF OrderInv, KbdOrder, MouseOrder, C, D
<1>4. QueueInv' BY <1>2 DEF EventInv, QueueInv
<1> QED BY <1>3, <1>4

\* Trdmouse keeps the invariant.
LEMMA TrdmouseEvents == ASSUME EventInv, Trdmouse PROVE OrderInv' /\ QueueInv'
<1> DEFINE D == MouseComing(cmouse, hist.moved)
           m == [mouse EXCEPT !.stall = FALSE]
           tg == Put(mousetags, Ntags, Head(fdin).tag)
<1>0. /\ Typed /\ MouseSorted(cmouse, hist.moved)
      /\ Order(0, MouseTypes, fdout, SentTo, hist.move, mouse, D)
      /\ mouse \in Rings(Nring, Nat)
  BY EventFacts
<1>1. /\ UNCHANGED <<ckbd, cmouse, alting, kbd, kbdtags, rp>>
      /\ \/ UNCHANGED <<writer, mouse, fdout, hist>>
         \/ matchmouse(m, tg)
  BY DEF Trdmouse, evvars
<1>2. CASE UNCHANGED <<writer, mouse, fdout, hist>>
  <2>1. SentTo' = SentTo BY <1>1, <1>2 DEF SentTo
  <2> QED BY <1>1, <1>2, <2>1, EventFrame
<1>3. CASE matchmouse(m, tg)
  <2>1. tg \in Rings(Ntags, Tags \cup {0})
    <3>1. Head(fdin) \in Messages BY DEF Trdmouse, Runs, EventInv, Typed, Queues
    <3>2. Head(fdin).tag \in Tags BY <3>1 DEF Messages
    <3> QED BY <1>0, <3>2, GivenRings
  <2>2. /\ m \in Rings(Nring, Nat) /\ Waiting(m, Nring) = Waiting(mouse, Nring)
        /\ \A j \in Int : Item(m, Nring, j) = Item(mouse, Nring, j)
    <3>1. m = [mouse EXCEPT !.stall = FALSE] OBVIOUS
    <3> HIDE DEF m
    <3> QED BY <1>0, <3>1, Sizes, SameRing
  <2>3. Waiting(mouse, Nring) \in Nat BY <1>0, Sizes, WaitingIs
  <2> HIDE DEF m, tg
  <2>4. Order(0, MouseTypes, fdout, SentTo, hist.move, m, D) BY <1>0, <2>2, <2>3, OrderSame
  <2>5. MouseComing(cmouse', hist.moved) = D BY <1>1
  <2> QED BY <1>0, <1>1, <1>3, <2>1, <2>2, <2>4, <2>5, MatchmouseEvents
<1> QED BY <1>1, <1>2, <1>3

\* The first event of cmouse is taken.
LEMMA MouseTaken ==
    ASSUME NEW cm \in Seq(Nat), cm # <<>>, NEW top \in Nat, MouseSorted(cm, top)
    PROVE  /\ MouseSorted(Tail(cm), top) /\ MouseComing(Tail(cm), top) \subseteq MouseComing(cm, top)
           /\ Head(cm) \in MouseComing(cm, top) /\ Head(cm) \in Nat
           /\ \A x \in MouseComing(Tail(cm), top) : Head(cm) + 0 <= x
<1> DEFINE t == Tail(cm)
<1>1. /\ Len(cm) \in Nat /\ 1 \in 1..Len(cm) /\ Head(cm) = cm[1] /\ Len(t) \in Nat
      /\ \A i \in 1..Len(t) : i + 1 \in 1..Len(cm) /\ t[i] = cm[i + 1] /\ 1 < i + 1
      /\ \A i, j \in 1..Len(t) : i < j => i + 1 < j + 1
      /\ \A i \in 1..Len(cm) : cm[i] \in Nat
  OBVIOUS
<1> HIDE DEF t
<1>2. MouseSorted(t, top) BY <1>1 DEF MouseSorted
<1>3. MouseComing(t, top) \subseteq MouseComing(cm, top) /\ Head(cm) \in MouseComing(cm, top)
  BY <1>1 DEF MouseComing
<1>4. ASSUME NEW x \in MouseComing(t, top) PROVE Head(cm) + 0 <= x
  <2>1. x = top \/ \E i \in 1..Len(t) : x = t[i] BY <1>4 DEF MouseComing
  <2>2. cm[1] <= x BY <1>1, <2>1 DEF MouseSorted
  <2>3. cm[1] \in Nat BY <1>1
  <2> QED BY <1>1, <2>2, <2>3
<1> QED BY <1>1, <1>2, <1>3, <1>4 DEF t

\* mousethread() keeps the invariant.
LEMMA MousethreadEvents == ASSUME EventInv, mousethread PROVE OrderInv' /\ QueueInv'
<1> USE Sizes
<1> DEFINE C == MouseComing(cmouse, hist.moved)
           E == MouseComing(Tail(cmouse), hist.moved)
           e == Head(cmouse)
           p == Put(mouse, Nring, e)
           m == KeepsLatest(p, e)
<1>0. /\ Typed /\ MouseSorted(cmouse, hist.moved) /\ cmouse \in Seq(Nat) /\ hist.moved \in Nat
      /\ hist.key \in Int /\ hist.move \in Int /\ KbdSorted(alting, ckbd, hist.typed)
      /\ Order(1, {"rdkbd"}, fdout, SentTo, hist.key, kbd, KbdComing(alting, ckbd, hist.typed))
      /\ Order(0, MouseTypes, fdout, SentTo, hist.move, mouse, C)
      /\ mouse \in Rings(Nring, Nat) /\ mousetags \in Rings(Ntags, Tags \cup {0})
  BY EventFacts DEF Typed
<1>1. /\ UNCHANGED <<ckbd, alting, kbd, kbdtags, rp>> /\ cmouse # <<>> /\ cmouse' = Tail(cmouse)
      /\ \/ UNCHANGED <<writer, mouse, fdout, hist>>
         \/ ~mouse.stall /\ matchmouse(m, mousetags)
  BY DEF mousethread
<1>2. /\ MouseSorted(Tail(cmouse), hist.moved) /\ E \subseteq C /\ e \in C /\ e \in Nat
      /\ \A x \in E : e + 0 <= x
  BY <1>0, <1>1, MouseTaken
<1>3. CASE UNCHANGED <<writer, mouse, fdout, hist>>
  <2>1. SentTo' = SentTo BY <1>1, <1>3 DEF SentTo
  <2> HIDE DEF C, E
  <2>2. Order(0, MouseTypes, fdout, SentTo, hist.move, mouse, E) BY <1>0, <1>2, OrderFewer
  <2>3. OrderInv' BY <1>0, <1>1, <1>2, <1>3, <2>1, <2>2 DEF OrderInv, KbdOrder, MouseOrder, E
  <2>4. QueueInv' BY <1>1, <1>3 DEF EventInv, QueueInv
  <2> QED BY <2>3, <2>4
<1>4. CASE ~mouse.stall /\ matchmouse(m, mousetags)
  <2>1. m \in Rings(Nring, Nat) BY <1>0, <1>2, <1>4, LatestKept
  <2>2. Order(0, MouseTypes, fdout, SentTo, hist.move, m, E)
    <3> HIDE DEF C, E, e
    <3>1. CASE p.ri # p.wi
      <4>1. Order(0, MouseTypes, fdout, SentTo, hist.move, p, E) BY <1>0, <1>2, OrderPut
      <4>2. m = p BY <3>1 DEF KeepsLatest
      <4> QED BY <4>1, <4>2
    <3>2. CASE p.ri = p.wi
      <4> DEFINE r == Put(Ring(Nring), Nring, e)
                 r2 == [r EXCEPT !.stall = TRUE]
      <4>1. m = r2 BY <3>2 DEF KeepsLatest
      <4>2. Ring(Nring) \in Rings(Nring, Nat) /\ Waiting(Ring(Nring), Nring) = 0 BY EmptyRing
      <4> DEFINE q == Ring(Nring)
      <4> HIDE DEF q
      <4>3. q \in Rings(Nring, Nat) /\ Waiting(q, Nring) = 0 BY <4>2 DEF q
      <4>4. /\ Put(q, Nring, e) \in Rings(Nring, Nat)
            /\ Waiting(Put(q, Nring, e), Nring) = 1
            /\ Item(Put(q, Nring, e), Nring, 1) = e
        <5>1. /\ Put(q, Nring, e) \in Rings(Nring, Nat)
              /\ Put(q, Nring, e).ri = Put(q, Nring, e).wi <=> Waiting(q, Nring) = Nring - 1
              /\ Put(q, Nring, e).ri # Put(q, Nring, e).wi =>
                    Waiting(Put(q, Nring, e), Nring) = Waiting(q, Nring) + 1
          BY <1>2, <4>3, PutRing
        <5>2. Item(Put(q, Nring, e), Nring, Waiting(q, Nring) + 1) = e
          BY <1>2, <4>3, PutItems
        <5> QED BY <4>3, <5>1, <5>2
      <4>5. r = Put(q, Nring, e) BY DEF q
      <4> HIDE DEF r
      <4>6. Waiting(r2, Nring) = 1 /\ Item(r2, Nring, 1) = e
        <5>1. r2 = [r EXCEPT !.stall = TRUE] OBVIOUS
        <5> HIDE DEF r2
        <5>2. Waiting(r2, Nring) = Waiting(r, Nring) /\ \A j \in Int : Item(r2, Nring, j) = Item(r, Nring, j)
          BY <4>4, <4>5, <5>1, SameRing
        <5> QED BY <4>4, <4>5, <5>2
      <4> HIDE DEF r2
      <4>7. Order(0, MouseTypes, fdout, SentTo, hist.move, r2, E)
        <5>1. E \in SUBSET C /\ 0 \in {0, 1} BY <1>2
        <5>2. Order(0, MouseTypes, fdout, SentTo, hist.move, mouse, C) BY <1>0
        <5>3. \A x \in E : e + 0 <= x BY <1>2
        <5>4. e \in C BY <1>2
        <5> HIDE DEF e
        <5> QED BY ONLY <4>6, <5>1, <5>2, <5>3, <5>4, OrderAlone
      <4> QED BY <4>1, <4>7
    <3> QED BY <3>1, <3>2
  <2>3. MouseComing(cmouse', hist.moved) = E BY <1>1
  <2> HIDE DEF m, E
  <2> QED BY <1>0, <1>1, <1>2, <1>4, <2>1, <2>2, <2>3, MatchmouseEvents
<1> QED BY <1>1, <1>3, <1>4

\* A reply to another request is added to fdout.
LEMMA OtherEvents ==
    ASSUME EventInv, NEW ty \in Sync \cup {"error"}, NEW t \in Tags, replymsg(Cells(Reply(ty, t, 0))),
           UNCHANGED <<ckbd, cmouse, alting, kbd, kbdtags, mouse, rp, hist>>
    PROVE  OrderInv' /\ QueueInv'
<1> DEFINE C == KbdComing(alting, ckbd, hist.typed)
           D == MouseComing(cmouse, hist.moved)
           cs == Cells(Reply(ty, t, 0))
<1>0. /\ Typed /\ hist.key \in Int /\ hist.move \in Int /\ fdout \in Seq(Replies)
      /\ KbdSorted(alting, ckbd, hist.typed) /\ MouseSorted(cmouse, hist.moved)
      /\ Order(1, {"rdkbd"}, fdout, SentTo, hist.key, kbd, C)
      /\ Order(0, MouseTypes, fdout, SentTo, hist.move, mouse, D)
  BY EventFacts
<1>1. cs \in Seq(Replies) BY CellsSeq
<1>2. \A i \in 1..Len(cs) : cs[i].type \notin {"rdkbd"} /\ cs[i].type \notin MouseTypes
  <2> DEFINE r == Reply(ty, t, 0)
             m == ReplySize(r.type)
  <2>1. r.type = ty /\ r.tag = t BY DEF Reply
  <2>2. Reply("part", t, 0).type = "part" BY DEF Reply
  <2>3. m \in Nat BY Sizes DEF ReplySize
  <2>4. ty \notin {"rdkbd"} /\ ty \notin MouseTypes BY DEF Sync, MouseTypes
  <2> HIDE DEF r
  <2>5. cs = [i \in 1..m |-> IF i = m THEN r ELSE Reply("part", t, 0)] BY <2>1 DEF Cells, r
  <2> HIDE DEF m, cs
  <2>6. Len(cs) = m /\ \A i \in 1..m : cs[i] = IF i = m THEN r ELSE Reply("part", t, 0) BY <2>3, <2>5
  <2> QED BY <2>1, <2>2, <2>4, <2>6 DEF MouseTypes
<1>3. /\ SentTo' = SentTo /\ SentTo \in 0..Len(fdout)
      /\ fdout' = fdout \o cs \/ fdout' = fdout
  BY <1>0, <1>1, RepliedSeq
<1> HIDE DEF cs, C, D
<1>4. Order(1, {"rdkbd"}, fdout \o cs, SentTo, hist.key, kbd, C) BY <1>0, <1>1, <1>2, <1>3, OrderOther
<1>5. Order(0, MouseTypes, fdout \o cs, SentTo, hist.move, mouse, D) BY <1>0, <1>1, <1>2, <1>3, OrderOther
<1>6. OrderInv' BY <1>0, <1>3, <1>4, <1>5 DEF OrderInv, KbdOrder, MouseOrder, C, D
<1>7. QueueInv' BY DEF EventInv, QueueInv
<1> QED BY <1>6, <1>7

\* The writer's steps keep the invariant.
LEMMA WriterEvents ==
    ASSUME EventInv, iowrite \/ (\E k \in 1..writer.n : Written(k)) \/ WriteMore \/ WaitMore
    PROVE  OrderInv' /\ QueueInv'
<1> DEFINE C == KbdComing(alting, ckbd, hist.typed)
           D == MouseComing(cmouse, hist.moved)
<1>0. /\ Typed /\ hist.key \in Int /\ hist.move \in Int /\ fdout \in Seq(Replies)
      /\ KbdSorted(alting, ckbd, hist.typed) /\ MouseSorted(cmouse, hist.moved)
      /\ Order(1, {"rdkbd"}, fdout, SentTo, hist.key, kbd, C)
      /\ Order(0, MouseTypes, fdout, SentTo, hist.move, mouse, D)
      /\ SentTo \in 0..Len(fdout)
  BY EventFacts
<1>1. rp \in Nat /\ writer \in Writers BY <1>0 DEF Typed, WritesWithin
<1>2. CASE iowrite
  <2>1. SentTo' = SentTo BY <1>1, <1>2 DEF SentTo, iowrite
  <2> QED BY <1>2, <2>1, EventFrame DEF iowrite, WriterUnchanged, evvars
<1>3. ASSUME NEW k \in 1..writer.n, Written(k) PROVE OrderInv' /\ QueueInv'
  <2> DEFINE sent == {i \in (rp + 1)..(rp + k) : fdout[i].type # "part"}
             key == Max({hist.key} \cup {fdout[i].val : i \in {j \in sent : fdout[j].type \in {"rdkbd"}}})
             move == Max({hist.move} \cup {fdout[i].val : i \in {j \in sent : fdout[j].type \in MouseTypes}})
  <2>1. /\ writer.at = "writing" /\ writer' = [at |-> "written", n |-> k]
        /\ UNCHANGED <<ckbd, cmouse, alting, kbd, kbdtags, mouse, fdout, rp>>
        /\ hist' = [hist EXCEPT !.key = key, !.move = move]
    BY <1>3 DEF Written, WriterUnchanged, evvars, MouseTypes
  <2>2. SentTo = rp /\ SentTo' = rp + k BY <1>1, <2>1 DEF SentTo
  <2>3. rp + k <= Len(fdout) /\ k \in Nat
    BY <1>0, <1>1, <1>3, <2>1 DEF Typed, WritesWithin, Writers
  <2>4. sent = {i \in (rp + 1)..(rp + k) : fdout[i].type # "part"} OBVIOUS
  <2>5. /\ hist'.key = key /\ hist'.move = move /\ hist'.typed = hist.typed /\ hist'.moved = hist.moved
        /\ hist'.queued = hist.queued
    <3> HIDE DEF key, move
    <3> QED BY <1>0, <2>1 DEF Typed, History
  <2> HIDE DEF sent, C, D
  <2>6. Order(1, {"rdkbd"}, fdout, rp + k, key, kbd, C) /\ key \in Int
    <3>1. "part" \notin {"rdkbd"} OBVIOUS
    <3> QED BY <1>0, <2>2, <2>3, <2>4, <3>1, OrderSent
  <2>7. Order(0, MouseTypes, fdout, rp + k, move, mouse, D) /\ move \in Int
    <3>1. "part" \notin MouseTypes BY DEF MouseTypes
    <3> QED BY ZenonT(60), <1>0, <2>2, <2>3, <2>4, <3>1, OrderSent
  <2> HIDE DEF key, move
  <2>8. OrderInv' BY <1>0, <2>1, <2>2, <2>5, <2>6, <2>7 DEF OrderInv, KbdOrder, MouseOrder, C, D
  <2>9. QueueInv' BY <2>1, <2>5 DEF EventInv, QueueInv
  <2> QED BY <2>8, <2>9
<1>4. CASE WriteMore
  <2>1. SentTo' = SentTo
    <3>1. writer.n \in Nat BY <1>1 DEF Writers
    <3> QED BY <1>1, <1>4, <3>1 DEF SentTo, WriteMore
  <2> QED BY <1>4, <2>1, EventFrame DEF WriteMore, WriterUnchanged, evvars
<1>5. CASE WaitMore
  <2>1. /\ UNCHANGED <<ckbd, cmouse, alting, kbd, kbdtags, mouse, hist>> /\ fdout' = <<>>
        /\ rp' = 0 /\ writer' = [at |-> "waitmore", n |-> 0]
    BY <1>5 DEF WaitMore, WriterUnchanged, evvars
  <2>2. SentTo' = 0 BY <2>1 DEF SentTo
  <2> HIDE DEF C, D
  <2>3. Order(1, {"rdkbd"}, <<>>, 0, hist.key, kbd, C) BY <1>0, OrderNone
  <2>4. Order(0, MouseTypes, <<>>, 0, hist.move, mouse, D) BY <1>0, OrderNone
  <2>5. OrderInv' BY <1>0, <2>1, <2>2, <2>3, <2>4 DEF OrderInv, KbdOrder, MouseOrder, C, D
  <2>6. QueueInv' BY <2>1 DEF EventInv, QueueInv
  <2> QED BY <2>5, <2>6
<1> QED BY <1>2, <1>3, <1>4, <1>5

\* A key is hit: what comes then is no earlier than what came before.
LEMMA KeyComing ==
    ASSUME NEW al \in Int, NEW ck \in Seq(Chars), NEW top \in Nat, KbdSorted(al, ck, top),
           NEW ck2, ck2 = ck \/ ck2 = Append(ck, 0) \/ ck2 = Append(ck, top + 1)
    PROVE  /\ KbdSorted(al, ck2, top + 1)
           /\ \A y \in KbdComing(al, ck2, top + 1) : \E x \in KbdComing(al, ck, top) : x <= y
<1>1. /\ Len(ck) \in Nat /\ \A i \in 1..Len(ck) : ck[i] \in Int
  <2>1. Chars \subseteq Int BY Sizes DEF Chars
  <2>2. \A i \in 1..Len(ck) : ck[i] \in Chars OBVIOUS
  <2>3. Len(ck) \in Nat OBVIOUS
  <2> QED BY <2>1, <2>2, <2>3
<1>2. \A i \in 1..Len(ck2) :
        \/ i \in 1..Len(ck) /\ ck2[i] = ck[i]
        \/ i = Len(ck) + 1 /\ (ck2[i] = 0 \/ ck2[i] = top + 1)
  BY SMTT(30)
<1>3. top + 1 \in KbdComing(al, ck, top) BY DEF KbdComing
<1>4. Len(ck2) \in Nat OBVIOUS
<1>5. /\ al <= top + 1
      /\ \A i \in 1..Len(ck) : ck[i] <= top + 1
  BY <1>1 DEF KbdSorted
<1>6. KbdSorted(al, ck2, top + 1)
  <2>1. ASSUME NEW i \in 1..Len(ck2) PROVE ck2[i] <= top + 1 /\ (al > 0 /\ ck2[i] # 0 => al < ck2[i])
    <3>1. CASE i \in 1..Len(ck) /\ ck2[i] = ck[i] BY <1>5, <3>1 DEF KbdSorted
    <3>2. CASE ck2[i] = 0 \/ ck2[i] = top + 1 BY <3>2 DEF KbdSorted
    <3> QED BY <1>2, <3>1, <3>2
  <2>2. ASSUME NEW i \in 1..Len(ck2), NEW j \in 1..Len(ck2), i < j, ck2[i] # 0, ck2[j] # 0
        PROVE  ck2[i] < ck2[j]
    <3>1. CASE j \in 1..Len(ck) /\ ck2[j] = ck[j]
      <4>1. i \in 1..Len(ck) /\ ck2[i] = ck[i] BY <1>1, <1>2, <2>2, <3>1
      <4> QED BY <2>2, <3>1, <4>1 DEF KbdSorted
    <3>2. CASE j = Len(ck) + 1 /\ ck2[j] = top + 1
      <4>1. i \in 1..Len(ck) /\ ck2[i] = ck[i] BY <1>1, <1>2, <2>2, <3>2
      <4>2. ck[i] <= top /\ ck[i] \in Int BY <1>1, <4>1 DEF KbdSorted
      <4> QED BY <3>2, <4>1, <4>2
    <3> QED BY <1>2, <2>2, <3>1, <3>2
  <2> QED BY <1>5, <2>1, <2>2 DEF KbdSorted
<1>7. ASSUME NEW y \in KbdComing(al, ck2, top + 1) PROVE \E x \in KbdComing(al, ck, top) : x <= y
  <2>1. \/ y = al /\ al > 0
        \/ y = top + 1 + 1
        \/ \E i \in 1..Len(ck2) : y = ck2[i] /\ ck2[i] # 0
    BY <1>7 DEF KbdComing
  <2>2. CASE y = al /\ al > 0
    <3>1. al \in KbdComing(al, ck, top) BY <2>2 DEF KbdComing
    <3> QED BY <2>2, <3>1
  <2>3. CASE y = top + 1 + 1 BY <1>3, <2>3
  <2>4. CASE \E i \in 1..Len(ck2) : y = ck2[i] /\ ck2[i] # 0
    <3>1. PICK i \in 1..Len(ck2) : y = ck2[i] /\ ck2[i] # 0 BY <2>4
    <3>2. CASE i \in 1..Len(ck) /\ ck2[i] = ck[i]
      <4>1. y \in KbdComing(al, ck, top) /\ y \in Int BY <1>1, <3>1, <3>2 DEF KbdComing
      <4> QED BY <4>1
    <3>3. CASE y = top + 1 BY <1>3, <3>3
    <3> QED BY <1>2, <3>1, <3>2, <3>3
  <2> QED BY <2>1, <2>2, <2>3, <2>4
<1> QED BY <1>6, <1>7

\* And a mouse event.
LEMMA MoveComing ==
    ASSUME NEW cm \in Seq(Nat), NEW top \in Nat, NEW top2 \in Nat, top2 >= top, MouseSorted(cm, top)
    PROVE  /\ MouseSorted(Append(cm, top2), top2)
           /\ \A y \in MouseComing(Append(cm, top2), top2) : \E x \in MouseComing(cm, top) : x <= y
           /\ MouseComing(Append(cm, top2), top2) \subseteq Int
<1> DEFINE c2 == Append(cm, top2)
<1>1. /\ Len(cm) \in Nat /\ Len(c2) = Len(cm) + 1 /\ \A i \in 1..Len(cm) : cm[i] \in Nat /\ c2[i] = cm[i]
      /\ c2[Len(cm) + 1] = top2
  OBVIOUS
<1> HIDE DEF c2
<1>2. \A i \in 1..Len(c2) : (i \in 1..Len(cm) /\ c2[i] = cm[i]) \/ (i = Len(cm) + 1 /\ c2[i] = top2)
  BY <1>1
<1>3. \A i \in 1..Len(cm) : cm[i] <= top2
  <2> SUFFICES ASSUME NEW i \in 1..Len(cm) PROVE cm[i] <= top2
    OBVIOUS
  <2>1. cm[i] <= top /\ cm[i] \in Nat BY <1>1 DEF MouseSorted
  <2> QED BY <2>1
<1>4. MouseSorted(c2, top2)
  <2>1. \A i \in 1..Len(c2) : c2[i] <= top2 BY <1>2, <1>3
  <2>2. ASSUME NEW i \in 1..Len(c2), NEW j \in 1..Len(c2), i < j PROVE c2[i] <= c2[j]
    <3>1. CASE j \in 1..Len(cm) /\ c2[j] = cm[j]
      <4>1. i \in 1..Len(cm) /\ c2[i] = cm[i] BY <1>1, <1>2, <2>2, <3>1
      <4> QED BY <2>2, <3>1, <4>1 DEF MouseSorted
    <3>2. CASE c2[j] = top2 BY <2>1, <3>2
    <3> QED BY <1>2, <3>1, <3>2
  <2> QED BY <2>1, <2>2 DEF MouseSorted
<1>5. ASSUME NEW y \in MouseComing(c2, top2) PROVE y \in Int /\ \E x \in MouseComing(cm, top) : x <= y
  <2>1. y = top2 \/ \E i \in 1..Len(cm) : y = cm[i] BY <1>2, <1>5 DEF MouseComing
  <2>2. CASE y = top2
    <3>1. top \in MouseComing(cm, top) BY DEF MouseComing
    <3> QED BY <2>2, <3>1
  <2>3. CASE \E i \in 1..Len(cm) : y = cm[i]
    <3>1. y \in MouseComing(cm, top) /\ y \in Nat BY <1>1, <2>3 DEF MouseComing
    <3> QED BY <3>1
  <2> QED BY <2>1, <2>2, <2>3
<1> QED BY <1>4, <1>5 DEF c2

\* The window's proc: keys and mouse events.
LEMMA WindowEvents ==
    ASSUME EventInv, (\E k \in Keys : kbdputc(k)) \/ MouseMove \/ SizeSent
    PROVE  OrderInv' /\ QueueInv'
<1> DEFINE C == KbdComing(alting, ckbd, hist.typed)
           D == MouseComing(cmouse, hist.moved)
<1>0. /\ Typed /\ hist.key \in Int /\ hist.move \in Int /\ fdout \in Seq(Replies)
      /\ hist.typed \in Nat /\ hist.moved \in Nat /\ alting \in Int
      /\ ckbd \in Seq(Chars) /\ cmouse \in Seq(Nat)
      /\ KbdSorted(alting, ckbd, hist.typed) /\ MouseSorted(cmouse, hist.moved)
      /\ Order(1, {"rdkbd"}, fdout, SentTo, hist.key, kbd, C)
      /\ Order(0, MouseTypes, fdout, SentTo, hist.move, mouse, D)
      /\ kbd \in Rings(Nring, Chars) /\ mouse \in Rings(Nring, Nat)
      /\ hist.queued \subseteq Chars /\ Chars \subseteq Int /\ SentTo \in Nat
  BY EventFacts
<1>1. C \subseteq Int /\ D \subseteq Int
  <2>1. C \subseteq Int BY <1>0, ComingInt
  <2>2. \A i \in 1..Len(cmouse) : cmouse[i] \in Nat BY SMTT(30), <1>0
  <2> QED BY <1>0, <2>1, <2>2 DEF MouseComing
<1>2. UNCHANGED <<alting, kbd, kbdtags, mouse, fdout>> /\ SentTo' = SentTo
  BY DEF kbdputc, MouseMove, SizeSent, WinUnchanged, SentTo
<1>3. ASSUME NEW k \in Keys, kbdputc(k) PROVE OrderInv' /\ QueueInv'
  <2>1. /\ ckbd' = ckbd \/ ckbd' = Append(ckbd, 0) \/ ckbd' = Append(ckbd, hist.typed + 1)
        /\ hist' = [hist EXCEPT !.typed = @ + 1] /\ UNCHANGED cmouse
    BY <1>3 DEF kbdputc
  <2>2. /\ hist'.typed = hist.typed + 1 /\ hist'.moved = hist.moved /\ hist'.key = hist.key
        /\ hist'.move = hist.move /\ hist'.queued = hist.queued
    BY <1>0, <2>1 DEF Typed, History
  <2> DEFINE E == KbdComing(alting', ckbd', hist'.typed)
  <2>3. KbdSorted(alting', ckbd', hist'.typed) /\ \A y \in E : \E x \in C : x <= y
    BY <1>0, <1>2, <2>1, <2>2, KeyComing
  <2>4. E \subseteq Int
    <3>0. hist.typed < MaxKeys BY <1>3 DEF kbdputc
    <3>1. hist.typed + 1 \in Chars /\ 0 \in Chars BY <1>0, <3>0, Sizes DEF Chars
    <3>2. ckbd' \in Seq(Chars) /\ alting' \in Int /\ hist'.typed \in Nat
      <4> DEFINE c == hist.typed + 1
      <4>1. c \in Chars /\ (ckbd' = ckbd \/ ckbd' = Append(ckbd, 0) \/ ckbd' = Append(ckbd, c)) BY <2>1, <3>1
      <4>2. hist'.typed \in Nat BY <1>0, <2>2
      <4> HIDE DEF c
      <4>3. Append(ckbd, c) \in Seq(Chars) BY <1>0, <4>1
      <4>4. Append(ckbd, 0) \in Seq(Chars) BY <1>0, <3>1
      <4>5. ckbd' \in Seq(Chars) BY <1>0, <4>1, <4>3, <4>4
      <4> QED BY <1>0, <1>2, <4>2, <4>5
    <3> QED BY <3>2, ComingInt
  <2> HIDE DEF C, D, E
  <2>5. Order(1, {"rdkbd"}, fdout, SentTo, hist.key, kbd, E) BY <1>0, <1>1, <2>3, <2>4, OrderLater
  <2>6. OrderInv'
    BY <1>0, <1>2, <2>1, <2>2, <2>3, <2>5 DEF OrderInv, KbdOrder, MouseOrder, D, E
  <2>7. \A x \in hist.queued, y \in E : x < y
    <3> SUFFICES ASSUME NEW x \in hist.queued, NEW y \in E PROVE x < y
      OBVIOUS
    <3>1. PICK z \in C : z <= y BY <2>3
    <3>2. x < z BY DEF EventInv, QueueInv, C
    <3>3. x \in Int /\ y \in Int /\ z \in Int BY <1>0, <1>1, <2>4
    <3> QED BY <3>1, <3>2, <3>3
  <2>8. QueueInv' BY <1>2, <2>2, <2>7 DEF EventInv, QueueInv, E
  <2> QED BY <2>6, <2>8
<1>4. CASE MouseMove \/ SizeSent
  <2>1. /\ UNCHANGED ckbd
        /\ \/ cmouse' = Append(cmouse, hist.moved + 1) /\ hist' = [hist EXCEPT !.moved = @ + 1]
           \/ cmouse' = Append(cmouse, hist.moved) /\ hist' = hist
    BY <1>4 DEF MouseMove, SizeSent
  <2>2. /\ hist'.moved \in Nat /\ hist'.moved >= hist.moved /\ cmouse' = Append(cmouse, hist'.moved)
        /\ hist'.typed = hist.typed /\ hist'.key = hist.key
        /\ hist'.move = hist.move /\ hist'.queued = hist.queued
    BY SMTT(30), <1>0, <2>1 DEF Typed, History
  <2> DEFINE E == MouseComing(cmouse', hist'.moved)
  <2>3. MouseSorted(cmouse', hist'.moved) /\ E \subseteq Int /\ \A y \in E : \E x \in D : x <= y
    BY <1>0, <2>2, MoveComing
  <2> HIDE DEF C, D, E
  <2>4. Order(0, MouseTypes, fdout, SentTo, hist.move, mouse, E)
    <3>1. Nat \in SUBSET Int OBVIOUS
    <3> QED BY <1>0, <1>1, <2>3, <3>1, OrderLater
  <2>5. OrderInv'
    BY <1>0, <1>2, <2>1, <2>2, <2>3, <2>4 DEF OrderInv, KbdOrder, MouseOrder, C, E
  <2>6. QueueInv' BY <1>2, <2>1, <2>2 DEF EventInv, QueueInv
  <2> QED BY <2>5, <2>6
<1> QED BY <1>3, <1>4

\* Every step keeps the invariant.
LEMMA StepEvents == EventInv /\ [Next]_vars => EventInv'
<1> SUFFICES ASSUME EventInv, [Next]_vars PROVE OrderInv' /\ QueueInv'
  BY StepTyped DEF EventInv
<1>0. Typed /\ (fdin # <<>> => Head(fdin).tag \in Tags)
  <2>1. Typed BY DEF EventInv
  <2>2. fdin # <<>> => Head(fdin) \in Messages BY <2>1 DEF Typed, Queues
  <2> QED BY <2>1, <2>2 DEF Messages
<1>1. CASE UNCHANGED <<ckbd, cmouse, alting, kbd, kbdtags, mouse, fdout, rp, writer, hist>>
  <2>1. SentTo' = SentTo BY <1>1 DEF SentTo
  <2> QED BY <1>1, <2>1, EventFrame
<1>2. CASE UNCHANGED vars BY <1>1, <1>2 DEF vars, evvars
<1>3. ASSUME NEW ty \in Reads \cup Sync, NEW t \in Tags, Send(ty, t) PROVE OrderInv' /\ QueueInv'
  BY <1>1, <1>3 DEF Send, evvars
<1>4. CASE Check \/ Eof \/ Slide
  BY <1>1, <1>4 DEF Check, Eof, Slide, ReaderUnchanged, evvars
<1>5. ASSUME NEW k \in 0..Len(pipe), ioread(k) PROVE OrderInv' /\ QueueInv'
  BY <1>1, <1>5 DEF ioread, ReaderUnchanged, evvars
<1>6. ASSUME NEW ty \in Sync, Tother(ty) PROVE OrderInv' /\ QueueInv'
  <2>1. fdin # <<>> /\ UNCHANGED <<ckbd, cmouse, alting, kbd, kbdtags, mouse, rp, hist>>
    BY <1>6 DEF Tother, Runs, evvars
  <2>2. PICK r \in Sync \cup {"error"} : replymsg(Cells(Reply(r, Head(fdin).tag, 0)))
    BY <1>6 DEF Tother
  <2> QED BY <1>0, <2>1, <2>2, OtherEvents
<1>7. CASE Tinit \/ mkgscreen
  BY <1>1, <1>7 DEF Tinit, mkgscreen, AttachUnchanged, evvars
<1>8. CASE Attached
  <2>1. fdin # <<>> /\ UNCHANGED <<ckbd, cmouse, alting, kbd, kbdtags, mouse, rp, hist>>
    BY <1>8 DEF Attached, AttachUnchanged, evvars, EventInv, Typed, Queues
  <2>2. "init" \in Sync \cup {"error"} /\ replymsg(Cells(Reply("init", Head(fdin).tag, 0)))
    BY <1>8 DEF Attached, Sync
  <2> QED BY <1>0, <2>1, <2>2, OtherEvents
<1>9. CASE CreateWindow \/ ShowWindow \/ Shown \/ CloseWindow
  BY <1>1, <1>9 DEF CreateWindow, ShowWindow, ScreenIsThere, Shown, CloseWindow, WinUnchanged, evvars
<1>10. CASE WindowSize
  <2>1. /\ hist'.key = hist.key /\ hist'.move = hist.move /\ hist'.typed = hist.typed
        /\ hist'.moved = hist.moved /\ hist'.queued = hist.queued
    BY <1>10 DEF WindowSize, EventInv, Typed, History
  <2>2. UNCHANGED <<ckbd, cmouse, alting, kbd, kbdtags, mouse, fdout, rp, writer>>
    BY <1>10 DEF WindowSize, WinUnchanged
  <2>3. SentTo' = SentTo BY <2>2 DEF SentTo
  <2> QED BY <2>1, <2>2, <2>3, EventFrame
<1> QED
  BY <1>2, <1>3, <1>4, <1>5, <1>6, <1>7, <1>8, <1>9, <1>10, KbdthreadEvents, TrdkbdEvents,
     TrdmouseEvents, MousethreadEvents, WriterEvents, WindowEvents, Steps

\* The invariant on events holds in every reachable state.
THEOREM EventInvariance == Spec => []EventInv
<1> QED BY InitEvents, StepEvents, PTL DEF Spec

\* The client gets characters and mouse events in the order in which they
\* happened, each character once.
THEOREM OrderCorrect == Spec => []InOrder
<1>1. EventInv => InOrder
  <2> SUFFICES ASSUME EventInv, NEW i \in Unsent, NEW j \in Unsent
               PROVE  /\ fdout[i].type = "rdkbd" =>
                          /\ fdout[i].val > hist.key
                          /\ i < j /\ fdout[j].type = "rdkbd" => fdout[i].val < fdout[j].val
                      /\ fdout[i].type \in {"rdmouse", "resized"} =>
                          /\ fdout[i].val >= hist.move
                          /\ (i < j /\ fdout[j].type \in {"rdmouse", "resized"}
                                => fdout[i].val <= fdout[j].val)
    BY DEF InOrder
  <2>1. /\ hist.key \in Int /\ hist.move \in Int /\ fdout \in Seq(Replies) /\ SentTo \in Nat
        /\ Order(1, {"rdkbd"}, fdout, SentTo, hist.key, kbd, KbdComing(alting, ckbd, hist.typed))
        /\ Order(0, MouseTypes, fdout, SentTo, hist.move, mouse, MouseComing(cmouse, hist.moved))
    BY EventFacts
  <2>2. \A tys : /\ fdout[i].type \in tys => i \in Still(fdout, SentTo, tys)
                 /\ fdout[j].type \in tys => j \in Still(fdout, SentTo, tys)
    BY DEF Unsent, Still, SentTo
  <2>3. fdout[i].val \in Int /\ fdout[j].val \in Int
    <3>1. i \in 1..Len(fdout) /\ j \in 1..Len(fdout) BY <2>1 DEF Unsent, SentTo
    <3>2. fdout[i] \in Replies /\ fdout[j] \in Replies BY <2>1, <3>1
    <3> QED BY <3>2 DEF Replies
  <2>4. ASSUME fdout[i].type = "rdkbd"
        PROVE  /\ fdout[i].val > hist.key
               /\ i < j /\ fdout[j].type = "rdkbd" => fdout[i].val < fdout[j].val
    <3>1. i \in Still(fdout, SentTo, {"rdkbd"}) BY <2>2, <2>4
    <3>2. hist.key + 1 <= fdout[i].val BY <2>1, <3>1 DEF Order
    <3>3. ASSUME i < j, fdout[j].type = "rdkbd" PROVE fdout[i].val + 1 <= fdout[j].val
      <4>1. j \in Still(fdout, SentTo, {"rdkbd"}) BY <2>2, <3>3
      <4> QED BY <2>1, <3>1, <3>3, <4>1 DEF Order
    <3> QED BY <2>1, <2>3, <3>2, <3>3
  <2>5. ASSUME fdout[i].type \in MouseTypes
        PROVE  /\ fdout[i].val >= hist.move
               /\ i < j /\ fdout[j].type \in MouseTypes => fdout[i].val <= fdout[j].val
    <3>1. i \in Still(fdout, SentTo, MouseTypes) BY <2>2, <2>5
    <3>2. hist.move + 0 <= fdout[i].val BY <2>1, <3>1 DEF Order
    <3>3. ASSUME i < j, fdout[j].type \in MouseTypes PROVE fdout[i].val + 0 <= fdout[j].val
      <4>1. j \in Still(fdout, SentTo, MouseTypes) BY <2>2, <3>3
      <4> QED BY <2>1, <3>1, <3>3, <4>1 DEF Order
    <3> QED BY <2>1, <2>3, <3>2, <3>3
  <2> QED BY <2>4, <2>5 DEF MouseTypes
<1> QED BY <1>1, EventInvariance, PTL

\* As long as fewer characters are queued than kbd has places, it holds all of
\* them, and none waits when a read does.
THEOREM KbdConservedCorrect == Spec => []KbdConserved
<1>1. EventInv => KbdConserved
  <2> SUFFICES ASSUME EventInv, Cardinality(hist.queued) < Nring
               PROVE  /\ hist.queued = {Item(kbd, Nring, j) : j \in 1..Waiting(kbd, Nring)}
                      /\ Waiting(kbdtags, Ntags) > 0 => hist.queued = {}
    BY DEF KbdConserved
  <2>1. IsFiniteSet(hist.queued)
    <3>1. hist.queued \subseteq Chars BY EventFacts
    <3>2. IsFiniteSet(Chars) BY FS_Interval, Sizes DEF Chars
    <3> QED BY <3>1, <3>2, FS_Subset
  <2>2. hist.queued \ Held(kbd) \subseteq hist.queued OBVIOUS
  <2>3. /\ Cardinality(hist.queued \ Held(kbd)) <= Cardinality(hist.queued)
        /\ Cardinality(hist.queued \ Held(kbd)) \in Nat /\ Cardinality(hist.queued) \in Nat
    BY <2>1, <2>2, FS_Subset, FS_CardinalityType
  <2>4. ~(Cardinality(hist.queued \ Held(kbd)) >= Nring) BY <2>3, Sizes
  <2>5. hist.queued = Held(kbd) /\ (Waiting(kbd, Nring) = 0 \/ Waiting(kbdtags, Ntags) = 0)
    BY <2>4 DEF EventInv, QueueInv
  <2>6. Waiting(kbd, Nring) = 0 => Held(kbd) = {} BY DEF Held
  <2> QED BY <2>5, <2>6 DEF Held
<1> QED BY <1>1, EventInvariance, PTL

-----------------------------------------------------------------------------
(* Where a request is: among the messages, in a ring of tags, or answered. *)

MsgTags(ms) == {ms[i].tag : i \in 1..Len(ms)}
Unsents(fo, fr) == {i \in (fr + 1)..Len(fo) : fo[i].type # "part"}
ReplyTags(fo, fr) == {fo[i].tag : i \in Unsents(fo, fr)}
RingTags(q) == {Item(q, Ntags, j) : j \in 1..Waiting(q, Ntags)}

MsgsOnce(ms) == \A i, j \in 1..Len(ms) : ms[i].tag = ms[j].tag => i = j
RepliesOnce(fo, fr) == \A i, j \in Unsents(fo, fr) : fo[i].tag = fo[j].tag => i = j
RingOnce(q) == \A i, j \in 1..Waiting(q, Ntags) : Item(q, Ntags, i) = Item(q, Ntags, j) => i = j

TagRings == Rings(Ntags, Tags \cup {0})

\* Each request that waits for its answer is in one place, once, and its type
\* goes with the place.  The ring q1 is for requests of type ty1, q2 for ty2.
Placed(ms, fo, fr, q1, ty1, q2, ty2, o) ==
    /\ MsgsOnce(ms) /\ RepliesOnce(fo, fr) /\ RingOnce(q1) /\ RingOnce(q2)
    /\ \A i \in 1..Len(ms) : o[ms[i].tag] = ms[i].type
    /\ \A i \in Unsents(fo, fr) : fo[i].tag \in Tags /\ o[fo[i].tag] \in Answers(fo[i].type)
    /\ \A t \in RingTags(q1) : t \in Tags /\ o[t] = ty1
    /\ \A t \in RingTags(q2) : t \in Tags /\ o[t] = ty2
    /\ MsgTags(ms) \cap ReplyTags(fo, fr) = {} /\ MsgTags(ms) \cap RingTags(q1) = {}
    /\ MsgTags(ms) \cap RingTags(q2) = {} /\ ReplyTags(fo, fr) \cap RingTags(q1) = {}
    /\ ReplyTags(fo, fr) \cap RingTags(q2) = {} /\ RingTags(q1) \cap RingTags(q2) = {}
    /\ \A t \in Tags : o[t] # "free" =>
        t \in MsgTags(ms) \cup ReplyTags(fo, fr) \cup RingTags(q1) \cup RingTags(q2)

\* The two rings have the same part in it.
LEMMA PlacedSwap ==
    ASSUME NEW ms, NEW fo, NEW fr, NEW q1, NEW ty1, NEW q2, NEW ty2, NEW o,
           Placed(ms, fo, fr, q1, ty1, q2, ty2, o)
    PROVE  Placed(ms, fo, fr, q2, ty2, q1, ty1, o)
BY DEF Placed

\* The first message is taken.
LEMMA TakenTags ==
    ASSUME NEW ms \in Seq(Messages), ms # <<>>, MsgsOnce(ms)
    PROVE  /\ MsgsOnce(Tail(ms)) /\ MsgTags(Tail(ms)) = MsgTags(ms) \ {Head(ms).tag}
           /\ Head(ms).tag \in MsgTags(ms) /\ Head(ms) = ms[1] /\ 1 \in 1..Len(ms)
           /\ \A i \in 1..Len(Tail(ms)) : i + 1 \in 1..Len(ms) /\ Tail(ms)[i] = ms[i + 1]
<1> DEFINE t == Tail(ms)
           L == Len(ms)
<1>1. /\ L \in Nat \ {0} /\ Head(ms) = ms[1] /\ 1 \in 1..L /\ Len(t) = L - 1
      /\ \A i \in 1..Len(t) : i + 1 \in 1..L /\ t[i] = ms[i + 1]
  OBVIOUS
<1> HIDE DEF t, L
<1>2. MsgsOnce(t)
  <2> SUFFICES ASSUME NEW i \in 1..Len(t), NEW j \in 1..Len(t), t[i].tag = t[j].tag PROVE i = j
    BY DEF MsgsOnce
  <2>1. i + 1 = j + 1 BY <1>1 DEF MsgsOnce, L
  <2> QED BY <1>1, <2>1
<1>3. ASSUME NEW x \in MsgTags(t) PROVE x \in MsgTags(ms) /\ x # ms[1].tag
  <2>1. PICK i \in 1..Len(t) : x = t[i].tag BY <1>3 DEF MsgTags
  <2>2. i + 1 \in 1..L /\ x = ms[i + 1].tag /\ i + 1 # 1 BY <1>1, <2>1
  <2> QED BY <1>1, <2>2 DEF MsgTags, MsgsOnce, L
<1>4. ASSUME NEW x \in MsgTags(ms), x # ms[1].tag PROVE x \in MsgTags(t)
  <2>1. PICK i \in 1..L : x = ms[i].tag BY <1>4 DEF MsgTags, L
  <2>2. i - 1 \in 1..Len(t) /\ (i - 1) + 1 = i BY <1>1, <1>4, <2>1
  <2>3. t[i - 1] = ms[i] BY <1>1, <2>2
  <2> QED BY <2>1, <2>2, <2>3 DEF MsgTags
<1>5. ms[1].tag \in MsgTags(ms) BY <1>1 DEF MsgTags, L
<1> QED BY <1>1, <1>2, <1>3, <1>4, <1>5 DEF t, L

\* A message more.
LEMMA SentTags ==
    ASSUME NEW ms \in Seq(Messages), NEW m \in Messages, MsgsOnce(ms), m.tag \notin MsgTags(ms)
    PROVE  /\ MsgsOnce(Append(ms, m)) /\ MsgTags(Append(ms, m)) = MsgTags(ms) \cup {m.tag}
           /\ \A i \in 1..Len(Append(ms, m)) :
                (i \in 1..Len(ms) /\ Append(ms, m)[i] = ms[i]) \/ Append(ms, m)[i] = m
<1> DEFINE a == Append(ms, m)
           L == Len(ms)
<1>1. L \in Nat /\ Len(a) = L + 1 /\ a[L + 1] = m /\ \A i \in 1..L : a[i] = ms[i]
  OBVIOUS
<1> HIDE DEF a, L
<1>2. \A i \in 1..Len(a) : (i \in 1..L /\ a[i] = ms[i]) \/ (i = L + 1 /\ a[i] = m) BY <1>1
<1>3. \A i \in 1..L : ms[i].tag # m.tag BY DEF MsgTags, L
<1>4. MsgsOnce(a)
  <2> SUFFICES ASSUME NEW i \in 1..Len(a), NEW j \in 1..Len(a), a[i].tag = a[j].tag PROVE i = j
    BY DEF MsgsOnce
  <2> QED BY <1>2, <1>3 DEF MsgsOnce, L
<1>5. MsgTags(a) = MsgTags(ms) \cup {m.tag}
  <2>1. ASSUME NEW x \in MsgTags(a) PROVE x \in MsgTags(ms) \cup {m.tag}
    BY <1>2, <2>1 DEF MsgTags, L
  <2>2. ASSUME NEW x \in MsgTags(ms) PROVE x \in MsgTags(a)
    <3>1. PICK i \in 1..L : x = ms[i].tag BY <2>2 DEF MsgTags, L
    <3>2. i \in 1..Len(a) /\ a[i] = ms[i] BY <1>1
    <3> QED BY <3>1, <3>2 DEF MsgTags
  <2>3. m.tag \in MsgTags(a)
    <3>1. L + 1 \in 1..Len(a) BY <1>1
    <3> QED BY <1>1, <3>1 DEF MsgTags
  <2> QED BY <2>1, <2>2, <2>3
<1> QED BY <1>2, <1>4, <1>5 DEF a, L

\* A tag more in a ring that is not filled by it.
LEMMA PutTags ==
    ASSUME NEW q \in TagRings, NEW t \in Tags, RingOnce(q), t \notin RingTags(q),
           ~Full(Put(q, Ntags, t))
    PROVE  /\ Put(q, Ntags, t) \in TagRings /\ RingOnce(Put(q, Ntags, t))
           /\ RingTags(Put(q, Ntags, t)) = RingTags(q) \cup {t}
<1> USE Sizes
<1> DEFINE p == Put(q, Ntags, t)
           w == Waiting(q, Ntags)
<1>0. q \in Rings(Ntags, Tags \cup {0}) /\ t \in Tags \cup {0} BY DEF TagRings
<1>1. /\ p \in Rings(Ntags, Tags \cup {0})
      /\ p.ri = p.wi <=> w = Ntags - 1
      /\ p.ri # p.wi => Waiting(p, Ntags) = w + 1
  BY <1>0, PutRing
<1>2. w \in 0..(Ntags - 1) BY <1>0, WaitingIs
<1>3. p.ri # p.wi BY DEF Full
<1>4. w < Ntags - 1 /\ Waiting(p, Ntags) = w + 1 BY <1>1, <1>2, <1>3
<1>5. (\A j \in 1..w : Item(p, Ntags, j) = Item(q, Ntags, j)) /\ Item(p, Ntags, w + 1) = t
  BY <1>0, <1>4, PutItems
<1> HIDE DEF p, w
<1>6. 1..Waiting(p, Ntags) = 1..w \cup {w + 1} /\ w + 1 \notin 1..w BY <1>2, <1>4
<1>7. \A j \in 1..w : Item(q, Ntags, j) # t BY DEF RingTags, w
<1>8. RingOnce(p) BY <1>5, <1>6, <1>7 DEF RingOnce, w
<1>9. RingTags(q) = {Item(q, Ntags, j) : j \in 1..w} BY DEF RingTags, w
<1>10. RingTags(p) = RingTags(q) \cup {t} BY <1>5, <1>6, <1>9 DEF RingTags
<1> QED BY <1>1, <1>8, <1>10 DEF p, TagRings

\* The first n tags are taken.
LEMMA SkipTags ==
    ASSUME NEW q \in TagRings, NEW n \in 0..Waiting(q, Ntags), RingOnce(q)
    PROVE  /\ RingOnce(Skip(q, Ntags, n))
           /\ RingTags(Skip(q, Ntags, n)) = RingTags(q) \ {Item(q, Ntags, j) : j \in 1..n}
           /\ \A j \in 1..n : j \in 1..Waiting(q, Ntags) /\ Item(q, Ntags, j) \in RingTags(q)
<1> USE Sizes
<1> DEFINE s == Skip(q, Ntags, n)
           w == Waiting(q, Ntags)
           it(j) == Item(q, Ntags, j)
<1>0. q \in Rings(Ntags, Tags \cup {0}) /\ 0 \in Tags \cup {0} BY DEF TagRings
<1>1. Waiting(s, Ntags) = w - n BY <1>0, SkipRing
<1>2. \A j \in 1..(w - n) : Item(s, Ntags, j) = it(j + n) BY <1>0, SkipItems
<1>3. w \in Nat /\ n \in 0..w BY <1>0, WaitingIs
<1> HIDE DEF s
<1>5. \A i, j \in 1..w : it(i) = it(j) => i = j BY DEF RingOnce
<1> HIDE DEF w, it
<1>6. RingTags(q) = {it(j) : j \in 1..w} BY DEF RingTags, w, it
<1>7. RingTags(s) = {it(j + n) : j \in 1..(w - n)} BY <1>1, <1>2 DEF RingTags
<1>8. ASSUME NEW j \in 1..(w - n) PROVE it(j + n) \in RingTags(q) /\ \A i \in 1..n : it(j + n) # it(i)
  <2>1. j + n \in 1..w /\ \A i \in 1..n : i \in 1..w /\ i # j + n BY <1>3
  <2> QED BY <1>5, <1>6, <2>1
<1>9. ASSUME NEW j \in 1..w, \A i \in 1..n : it(j) # it(i) PROVE it(j) \in RingTags(s)
  <2>1. j \notin 1..n BY <1>9
  <2>2. j - n \in 1..(w - n) /\ (j - n) + n = j BY <1>3, <2>1
  <2> QED BY <1>7, <2>2
<1>10. RingTags(s) = RingTags(q) \ {it(j) : j \in 1..n}
  <2>1. \A x \in RingTags(s) : x \in RingTags(q) \ {it(j) : j \in 1..n} BY <1>7, <1>8
  <2>2. \A x \in RingTags(q) \ {it(j) : j \in 1..n} : x \in RingTags(s) BY <1>6, <1>9
  <2> QED BY <2>1, <2>2
<1>11. RingOnce(s)
  <2> SUFFICES ASSUME NEW i \in 1..(w - n), NEW j \in 1..(w - n), it(i + n) = it(j + n) PROVE i = j
    BY <1>1, <1>2 DEF RingOnce
  <2>1. i + n \in 1..w /\ j + n \in 1..w BY <1>3
  <2>2. i + n = j + n BY <1>5, <2>1
  <2> QED BY <1>3, <2>2
<1>12. \A j \in 1..n : j \in 1..w /\ it(j) \in RingTags(q) BY <1>3, <1>6
<1> QED BY <1>10, <1>11, <1>12 DEF s, w, it

\* Cells are added whose tags are new; new are the tags of the replies.
LEMMA MoreReplies ==
    ASSUME NEW fo \in Seq(Replies), NEW cs \in Seq(Replies), NEW fr \in 0..Len(fo), RepliesOnce(fo, fr),
           NEW T, \A i \in 1..Len(cs) : cs[i].type # "part" => cs[i].tag \in T,
           \A t \in T : \E i \in 1..Len(cs) : cs[i].type # "part" /\ cs[i].tag = t,
           T \cap ReplyTags(fo, fr) = {},
           \A i, j \in 1..Len(cs) :
                          cs[i].type # "part" /\ cs[j].type # "part" => (cs[i].tag = cs[j].tag => i = j)
    PROVE  /\ RepliesOnce(fo \o cs, fr) /\ ReplyTags(fo \o cs, fr) = ReplyTags(fo, fr) \cup T
           /\ \A i \in Unsents(fo \o cs, fr) :
                \/ i \in Unsents(fo, fr) /\ (fo \o cs)[i] = fo[i]
                \/ i - Len(fo) \in 1..Len(cs) /\ (fo \o cs)[i] = cs[i - Len(fo)] /\ cs[i - Len(fo)].type # "part"
<1> DEFINE f2 == fo \o cs
           L == Len(fo)
           K == Len(cs)
<1>1. /\ L \in Nat /\ K \in Nat /\ Len(f2) = L + K /\ fr \in 0..L
      /\ \A i \in 1..(L + K) : f2[i] = IF i <= L THEN fo[i] ELSE cs[i - L]
  OBVIOUS
<1> HIDE DEF f2, L, K
<1>2. \A i \in Unsents(f2, fr) :
        \/ i \in Unsents(fo, fr) /\ f2[i] = fo[i]
        \/ i - L \in 1..K /\ f2[i] = cs[i - L] /\ cs[i - L].type # "part" /\ i \in Int
  <2> SUFFICES ASSUME NEW i \in Unsents(f2, fr)
               PROVE  \/ i \in Unsents(fo, fr) /\ f2[i] = fo[i]
                      \/ i - L \in 1..K /\ f2[i] = cs[i - L] /\ cs[i - L].type # "part" /\ i \in Int
    OBVIOUS
  <2>1. i \in (fr + 1)..(L + K) /\ f2[i].type # "part" BY <1>1 DEF Unsents
  <2>2. CASE i <= L BY <1>1, <2>1, <2>2 DEF Unsents, L
  <2>3. CASE ~(i <= L) BY <1>1, <2>1, <2>3
  <2> QED BY <2>2, <2>3
<1>3. \A i \in Unsents(fo, fr) : i \in Unsents(f2, fr) /\ f2[i] = fo[i]
  <2> SUFFICES ASSUME NEW i \in Unsents(fo, fr) PROVE i \in Unsents(f2, fr) /\ f2[i] = fo[i]
    OBVIOUS
  <2>1. i \in (fr + 1)..L /\ fo[i].type # "part" BY DEF Unsents, L
  <2>2. f2[i] = fo[i] /\ i \in (fr + 1)..(L + K) BY <1>1, <2>1
  <2> QED BY <1>1, <2>1, <2>2 DEF Unsents
<1>4. \A i \in 1..K : cs[i].type # "part" => L + i \in Unsents(f2, fr) /\ f2[L + i] = cs[i]
  <2> SUFFICES ASSUME NEW i \in 1..K, cs[i].type # "part" PROVE L + i \in Unsents(f2, fr) /\ f2[L + i] = cs[i]
    OBVIOUS
  <2>1. L + i \in (fr + 1)..(L + K) /\ f2[L + i] = cs[i] BY <1>1
  <2> QED BY <1>1, <2>1 DEF Unsents
<1>5. ReplyTags(f2, fr) = ReplyTags(fo, fr) \cup T
  <2>1. ASSUME NEW x \in ReplyTags(f2, fr) PROVE x \in ReplyTags(fo, fr) \cup T
    BY <1>2, <2>1 DEF ReplyTags, K
  <2>2. ASSUME NEW x \in ReplyTags(fo, fr) PROVE x \in ReplyTags(f2, fr) BY <1>3, <2>2 DEF ReplyTags
  <2>3. ASSUME NEW x \in T PROVE x \in ReplyTags(f2, fr) BY <1>4, <2>3 DEF ReplyTags, K
  <2> QED BY <2>1, <2>2, <2>3
<1>6. RepliesOnce(f2, fr)
  <2> SUFFICES ASSUME NEW i \in Unsents(f2, fr), NEW j \in Unsents(f2, fr), f2[i].tag = f2[j].tag PROVE i = j
    BY DEF RepliesOnce
  <2> DEFINE Old(a) == a \in Unsents(fo, fr) /\ f2[a] = fo[a]
             New(a) == a - L \in 1..K /\ f2[a] = cs[a - L] /\ cs[a - L].type # "part" /\ a \in Int
  <2>1. \A a \in Unsents(f2, fr) : Old(a) => f2[a].tag \in ReplyTags(fo, fr) BY DEF ReplyTags
  <2>2. \A a \in Unsents(f2, fr) : New(a) => f2[a].tag \in T BY DEF K
  <2>3. CASE Old(i) /\ Old(j) BY <2>3 DEF RepliesOnce
  <2>4. CASE New(i) /\ New(j)
    <3>1. i - L = j - L BY <2>4 DEF K
    <3> QED BY <1>1, <2>4, <3>1
  <2>5. CASE (Old(i) /\ New(j)) \/ (New(i) /\ Old(j)) BY <2>1, <2>2, <2>5
  <2> QED BY <1>2, <2>3, <2>4, <2>5
<1> QED BY <1>2, <1>5, <1>6 DEF f2, L, K

\* The client sends a request.
LEMMA PlacedSend ==
    ASSUME NEW ms \in Seq(Messages), NEW fo, NEW fr, NEW q1, NEW ty1, NEW q2, NEW ty2,
           NEW o \in [Tags -> Reads \cup Sync \cup {"free"}],
           ty1 \in Reads, ty2 \in Reads, \A i \in Unsents(fo, fr) : "free" \notin Answers(fo[i].type),
           NEW t \in Tags, NEW ty \in Reads \cup Sync, o[t] = "free",
           Placed(ms, fo, fr, q1, ty1, q2, ty2, o)
    PROVE  Placed(Append(ms, [type |-> ty, tag |-> t]), fo, fr, q1, ty1, q2, ty2, [o EXCEPT ![t] = ty])
<1> DEFINE m == [type |-> ty, tag |-> t]
           a == Append(ms, m)
           p == [o EXCEPT ![t] = ty]
<1>0. ty1 # "free" /\ ty2 # "free" /\ \A x \in Reads \cup Sync : x # "free" BY DEF Reads, Sync
<1>1. m \in Messages /\ m.tag = t /\ m.type = ty BY DEF Messages
<1>2. \A i \in 1..Len(ms) : ms[i] \in Messages /\ ms[i].type \in Reads \cup Sync
  <2>1. \A i \in 1..Len(ms) : ms[i] \in Messages OBVIOUS
  <2> QED BY <2>1 DEF Messages
<1>3. t \notin MsgTags(ms) BY <1>0, <1>2 DEF Placed, MsgTags
<1>4. t \notin ReplyTags(fo, fr) BY DEF Placed, ReplyTags
<1>5. t \notin RingTags(q1) /\ t \notin RingTags(q2) BY <1>0 DEF Placed
<1>6. p[t] = ty /\ \A x \in Tags : x # t => p[x] = o[x] OBVIOUS
<1> HIDE DEF m, p
<1>7. /\ MsgsOnce(a) /\ MsgTags(a) = MsgTags(ms) \cup {t}
      /\ \A i \in 1..Len(a) : (i \in 1..Len(ms) /\ a[i] = ms[i]) \/ a[i] = m
  BY <1>1, <1>3, SentTags DEF Placed
<1> HIDE DEF a
<1>8. \A i \in 1..Len(ms) : ms[i].tag # t /\ ms[i].tag \in Tags BY <1>2, <1>3 DEF MsgTags, Messages
<1>9. \A i \in 1..Len(a) : p[a[i].tag] = a[i].type BY <1>1, <1>6, <1>7, <1>8 DEF Placed
<1>10. \A i \in Unsents(fo, fr) : fo[i].tag \in Tags /\ p[fo[i].tag] \in Answers(fo[i].type)
  BY <1>4, <1>6 DEF Placed, ReplyTags
<1>11. Placed(a, fo, fr, q1, ty1, q2, ty2, p)
  BY <1>3, <1>4, <1>5, <1>6, <1>7, <1>9, <1>10 DEF Placed
<1> QED BY <1>11 DEF a, p, m

\* The first message is answered.
LEMMA PlacedAnswer ==
    ASSUME NEW ms \in Seq(Messages), ms # <<>>, NEW fo \in Seq(Replies), NEW fr \in 0..Len(fo),
           NEW q1, NEW ty1, NEW q2, NEW ty2, NEW o,
           NEW cs \in Seq(Replies), NEW c \in 1..Len(cs),
           \A i \in 1..Len(cs) : cs[i].type # "part" <=> i = c,
           cs[c].tag = Head(ms).tag, Head(ms).type \in Answers(cs[c].type),
           Placed(ms, fo, fr, q1, ty1, q2, ty2, o)
    PROVE  Placed(Tail(ms), fo \o cs, fr, q1, ty1, q2, ty2, o)
<1> DEFINE t == Head(ms).tag
           T == {cs[i].tag : i \in {j \in 1..Len(cs) : cs[j].type # "part"}}
           ms2 == Tail(ms)
           f2 == fo \o cs
<1>1. T = {t} OBVIOUS
<1>2. /\ MsgsOnce(ms2) /\ MsgTags(ms2) = MsgTags(ms) \ {t}
      /\ t \in MsgTags(ms) /\ Head(ms) = ms[1] /\ 1 \in 1..Len(ms)
      /\ \A i \in 1..Len(ms2) : i + 1 \in 1..Len(ms) /\ ms2[i] = ms[i + 1]
  BY TakenTags DEF Placed
<1>3. T \cap ReplyTags(fo, fr) = {} BY <1>1, <1>2 DEF Placed
<1>4. t \in Tags
  <2>1. ms[1] \in Messages BY <1>2
  <2> QED BY <1>2, <2>1 DEF Messages
<1> HIDE DEF T
<1>5. /\ RepliesOnce(f2, fr) /\ ReplyTags(f2, fr) = ReplyTags(fo, fr) \cup T
      /\ \A i \in Unsents(f2, fr) :
           \/ i \in Unsents(fo, fr) /\ f2[i] = fo[i]
           \/ i - Len(fo) \in 1..Len(cs) /\ f2[i] = cs[i - Len(fo)] /\ cs[i - Len(fo)].type # "part"
  <2>1. RepliesOnce(fo, fr) BY DEF Placed
  <2>2. /\ \A i \in 1..Len(cs) : cs[i].type # "part" => cs[i].tag \in T
        /\ \A x \in T : \E i \in 1..Len(cs) : cs[i].type # "part" /\ cs[i].tag = x
    BY DEF T
  <2>3. \A i, j \in 1..Len(cs) :
                       cs[i].type # "part" /\ cs[j].type # "part" => (cs[i].tag = cs[j].tag => i = j)
    OBVIOUS
  <2> QED BY <1>3, <2>1, <2>2, <2>3, MoreReplies
<1> HIDE DEF ms2, f2
<1>6. ASSUME NEW i \in Unsents(f2, fr) PROVE f2[i].tag \in Tags /\ o[f2[i].tag] \in Answers(f2[i].type)
  <2>1. CASE i \in Unsents(fo, fr) /\ f2[i] = fo[i] BY <2>1 DEF Placed
  <2>2. CASE f2[i] = cs[c] BY <1>2, <1>4, <2>2 DEF Placed
  <2> QED BY <1>5, <2>1, <2>2
<1>7. \A i \in 1..Len(ms2) : o[ms2[i].tag] = ms2[i].type BY <1>2 DEF Placed
<1> HIDE DEF t
<1>8. Placed(ms2, f2, fr, q1, ty1, q2, ty2, o) BY <1>1, <1>2, <1>5, <1>6, <1>7 DEF Placed
<1> QED BY <1>8 DEF ms2, f2

\* The first message is a read whose tag is queued.
LEMMA PlacedQueue ==
    ASSUME NEW ms \in Seq(Messages), ms # <<>>, NEW fo, NEW fr,
           NEW q1 \in TagRings, NEW ty1, NEW q2, NEW ty2, NEW o, Head(ms).type = ty1,
           ~Full(Put(q1, Ntags, Head(ms).tag)),
           Placed(ms, fo, fr, q1, ty1, q2, ty2, o)
    PROVE  Placed(Tail(ms), fo, fr, Put(q1, Ntags, Head(ms).tag), ty1, q2, ty2, o)
<1> DEFINE t == Head(ms).tag
           ms2 == Tail(ms)
           p == Put(q1, Ntags, t)
<1>2. /\ MsgsOnce(ms2) /\ MsgTags(ms2) = MsgTags(ms) \ {t}
      /\ t \in MsgTags(ms) /\ Head(ms) = ms[1] /\ 1 \in 1..Len(ms)
      /\ \A i \in 1..Len(ms2) : i + 1 \in 1..Len(ms) /\ ms2[i] = ms[i + 1]
  BY TakenTags DEF Placed
<1>3. t \in Tags
  <2>1. ms[1] \in Messages BY <1>2
  <2> QED BY <1>2, <2>1 DEF Messages
<1>4. t \notin RingTags(q1) /\ RingOnce(q1) BY <1>2 DEF Placed
<1>5. RingOnce(p) /\ RingTags(p) = RingTags(q1) \cup {t} BY <1>3, <1>4, PutTags
<1>6. o[t] = ty1 BY <1>2 DEF Placed
<1> HIDE DEF ms2, p
<1>7. \A i \in 1..Len(ms2) : o[ms2[i].tag] = ms2[i].type BY <1>2 DEF Placed
<1> HIDE DEF t
<1>8. Placed(ms2, fo, fr, p, ty1, q2, ty2, o) BY <1>2, <1>3, <1>5, <1>6, <1>7 DEF Placed
<1> QED BY <1>8 DEF ms2, p, t

\* The first n tags queued are answered.
LEMMA PlacedMatch ==
    ASSUME NEW ms, NEW fo \in Seq(Replies), NEW fr \in 0..Len(fo),
           NEW q1 \in TagRings, NEW ty1, NEW q2, NEW ty2, NEW o,
           NEW n \in 0..Waiting(q1, Ntags), NEW cs \in Seq(Replies), Len(cs) = n,
           \A j \in 1..n : /\ cs[j].tag = Item(q1, Ntags, j) /\ cs[j].type # "part"
                           /\ ty1 \in Answers(cs[j].type),
           Placed(ms, fo, fr, q1, ty1, q2, ty2, o)
    PROVE  Placed(ms, fo \o cs, fr, Skip(q1, Ntags, n), ty1, q2, ty2, o)
<1> DEFINE T == {Item(q1, Ntags, j) : j \in 1..n}
           s == Skip(q1, Ntags, n)
           f2 == fo \o cs
<1>1. /\ RingOnce(s) /\ RingTags(s) = RingTags(q1) \ T
      /\ \A j \in 1..n : j \in 1..Waiting(q1, Ntags) /\ Item(q1, Ntags, j) \in RingTags(q1)
  BY SkipTags DEF Placed
<1>2. /\ \A i \in 1..Len(cs) : cs[i].type # "part" => cs[i].tag \in T
      /\ \A x \in T : \E i \in 1..Len(cs) : cs[i].type # "part" /\ cs[i].tag = x
  OBVIOUS
<1>3. T \subseteq RingTags(q1) BY <1>1
<1>4. T \cap ReplyTags(fo, fr) = {} BY <1>3 DEF Placed
<1>5. \A i, j \in 1..Len(cs) :
                     cs[i].type # "part" /\ cs[j].type # "part" => (cs[i].tag = cs[j].tag => i = j)
  BY <1>1 DEF Placed, RingOnce
<1> HIDE DEF T
<1>6. /\ RepliesOnce(f2, fr) /\ ReplyTags(f2, fr) = ReplyTags(fo, fr) \cup T
      /\ \A i \in Unsents(f2, fr) :
           \/ i \in Unsents(fo, fr) /\ f2[i] = fo[i]
           \/ i - Len(fo) \in 1..Len(cs) /\ f2[i] = cs[i - Len(fo)] /\ cs[i - Len(fo)].type # "part"
  <2>1. RepliesOnce(fo, fr) BY DEF Placed
  <2> QED BY <1>2, <1>4, <1>5, <2>1, MoreReplies
<1> HIDE DEF s, f2
<1>7. ASSUME NEW i \in Unsents(f2, fr) PROVE f2[i].tag \in Tags /\ o[f2[i].tag] \in Answers(f2[i].type)
  <2>1. CASE i \in Unsents(fo, fr) /\ f2[i] = fo[i] BY <2>1 DEF Placed
  <2>2. CASE i - Len(fo) \in 1..Len(cs) /\ f2[i] = cs[i - Len(fo)]
    <3>1. PICK j \in 1..n : f2[i] = cs[j] BY <2>2
    <3>2. Item(q1, Ntags, j) \in Tags /\ o[Item(q1, Ntags, j)] = ty1 BY <1>1 DEF Placed
    <3> QED BY <3>1, <3>2
  <2> QED BY <1>6, <2>1, <2>2
<1>8. Placed(ms, f2, fr, s, ty1, q2, ty2, o) BY <1>1, <1>3, <1>6, <1>7 DEF Placed
<1> QED BY <1>8 DEF s, f2

\* sent is the entries with replies in them among the k after fr.
SentOf(sent, fo, fr, k) == \A i : i \in sent <=> i \in (fr + 1)..(fr + k) /\ fo[i].type # "part"

\* p is o with the tags of these entries freed.
Freed(p, sent, fo, o) ==
    \A t \in Tags : p[t] = IF \E i \in sent : fo[i].tag = t THEN "free" ELSE o[t]

\* Replies reach the client.
LEMMA PlacedSent ==
    ASSUME NEW ms \in Seq(Messages), NEW fo \in Seq(Replies), NEW fr \in 0..Len(fo),
           NEW q1, NEW ty1, NEW q2, NEW ty2, NEW o, NEW k \in Nat, fr + k <= Len(fo),
           NEW sent, SentOf(sent, fo, fr, k), NEW p, Freed(p, sent, fo, o),
           Placed(ms, fo, fr, q1, ty1, q2, ty2, o)
    PROVE  Placed(ms, fo, fr + k, q1, ty1, q2, ty2, p)
<1> DEFINE T == {fo[i].tag : i \in sent}
<1>0. Len(fo) \in Nat /\ fr \in Nat OBVIOUS
<1>1. /\ sent \subseteq Unsents(fo, fr) /\ Unsents(fo, fr + k) \subseteq Unsents(fo, fr)
      /\ \A i \in Unsents(fo, fr) : i \in sent \/ i \in Unsents(fo, fr + k)
      /\ \A i \in sent : i \notin Unsents(fo, fr + k)
  BY <1>0 DEF Unsents, SentOf
<1>2. \A t \in Tags : p[t] = IF t \in T THEN "free" ELSE o[t] BY DEF Freed
<1>3. ReplyTags(fo, fr + k) = ReplyTags(fo, fr) \ T /\ T \subseteq ReplyTags(fo, fr)
  <2>1. ASSUME NEW i \in Unsents(fo, fr + k), NEW j \in sent PROVE fo[i].tag # fo[j].tag
    BY <1>1 DEF Placed, RepliesOnce
  <2> QED BY <1>1, <2>1 DEF ReplyTags
<1> HIDE DEF T
<1>4. RepliesOnce(fo, fr + k) BY <1>1 DEF Placed, RepliesOnce
<1>5. \A i \in 1..Len(ms) : ms[i].tag \in Tags /\ ms[i].tag \in MsgTags(ms)
  <2>1. \A i \in 1..Len(ms) : ms[i] \in Messages OBVIOUS
  <2> QED BY <2>1 DEF Messages, MsgTags
<1>6. \A i \in 1..Len(ms) : p[ms[i].tag] = ms[i].type
  <2>1. \A i \in 1..Len(ms) : ms[i].tag \notin T BY <1>3, <1>5 DEF Placed
  <2> QED BY <1>2, <1>5, <2>1 DEF Placed
<1>7. ASSUME NEW i \in Unsents(fo, fr + k) PROVE fo[i].tag \in Tags /\ p[fo[i].tag] \in Answers(fo[i].type)
  <2>1. fo[i].tag \in ReplyTags(fo, fr + k) BY DEF ReplyTags
  <2> QED BY <1>1, <1>2, <1>3, <2>1 DEF Placed
<1>8. /\ \A t \in RingTags(q1) : t \in Tags /\ p[t] = ty1
      /\ \A t \in RingTags(q2) : t \in Tags /\ p[t] = ty2
  BY <1>2, <1>3 DEF Placed
<1>9. \A t \in Tags : p[t] # "free" =>
        t \in MsgTags(ms) \cup ReplyTags(fo, fr + k) \cup RingTags(q1) \cup RingTags(q2)
  BY <1>2, <1>3 DEF Placed
<1> QED BY <1>3, <1>4, <1>6, <1>7, <1>8, <1>9 DEF Placed

\* All replies have reached it, and fdout is emptied.
LEMMA PlacedSlide ==
    ASSUME NEW ms, NEW fo \in Seq(Replies), NEW q1, NEW ty1, NEW q2, NEW ty2, NEW o,
           Placed(ms, fo, Len(fo), q1, ty1, q2, ty2, o)
    PROVE  Placed(ms, <<>>, 0, q1, ty1, q2, ty2, o)
<1>1. Unsents(fo, Len(fo)) = {} /\ Unsents(<<>>, 0) = {} BY DEF Unsents
<1>2. ReplyTags(fo, Len(fo)) = {} /\ ReplyTags(<<>>, 0) = {} BY <1>1 DEF ReplyTags
<1> QED BY <1>1, <1>2 DEF Placed, RepliesOnce

\* The messages that are still to be run.
Ms == fdin \o pipe

AllPlaced == Placed(Ms, fdout, SentTo, kbdtags, "rdkbd", mousetags, "rdmouse", out)

\* The invariant on requests.
AnswerInv == /\ Typed
             /\ Up => AllPlaced
             /\ reader \in {"attach", "screen"} => Head(fdin).type = "init"

\* Sequences with the same elements are the same.
LEMMA SameSeq ==
    ASSUME NEW S, NEW s \in Seq(S), NEW t \in Seq(S), Len(s) = Len(t), \A i \in 1..Len(s) : s[i] = t[i]
    PROVE  s = t
OBVIOUS

\* What one sequence after another is.
LEMMA ConcatIs ==
    ASSUME NEW S, NEW s \in Seq(S), NEW t \in Seq(S)
    PROVE  /\ s \o t \in Seq(S) /\ Len(s) \in Nat /\ Len(t) \in Nat /\ Len(s \o t) = Len(s) + Len(t)
           /\ \A i \in 1..(Len(s) + Len(t)) : (s \o t)[i] = IF i <= Len(s) THEN s[i] ELSE t[i - Len(s)]
OBVIOUS

\* Messages that are read stay in their order.
LEMMA ReadMs ==
    ASSUME NEW S, NEW f \in Seq(S), NEW p \in Seq(S), NEW k \in 0..Len(p)
    PROVE  (f \o SubSeq(p, 1, k)) \o SubSeq(p, k + 1, Len(p)) = f \o p
<1> DEFINE a == SubSeq(p, 1, k)
           b == SubSeq(p, k + 1, Len(p))
           L == Len(f)
           P == Len(p)
<1>1. /\ L \in Nat /\ P \in Nat /\ a \in Seq(S) /\ b \in Seq(S) /\ Len(a) = k /\ Len(b) = P - k
      /\ \A i \in 1..k : a[i] = p[i]
      /\ \A i \in 1..(P - k) : b[i] = p[i + k]
  <2>1. k \in Nat /\ P \in Nat /\ k <= P OBVIOUS
  <2>2. a \in Seq(S) /\ Len(a) = k /\ \A i \in 1..k : a[i] = p[i] BY <2>1
  <2>3. b \in Seq(S) /\ Len(b) = P - k /\ \A i \in 1..(P - k) : b[i] = p[i + k] BY <2>1
  <2> QED BY <2>1, <2>2, <2>3
<1> HIDE DEF a, b
<1>2. f \o a \in Seq(S) /\ Len(f \o a) = L + k
      /\ \A i \in 1..(L + k) : (f \o a)[i] = IF i <= L THEN f[i] ELSE a[i - L]
  BY <1>1
<1> DEFINE c == f \o a
<1> HIDE DEF c
<1>3. c \o b \in Seq(S) /\ Len(c \o b) = L + P
      /\ \A i \in 1..(L + P) : (c \o b)[i] = IF i <= L + k THEN c[i] ELSE b[i - (L + k)]
  <2>1. c \in Seq(S) /\ Len(c) = L + k BY <1>2 DEF c
  <2>2. /\ c \o b \in Seq(S) /\ Len(c \o b) = Len(c) + Len(b)
        /\ \A i \in 1..(Len(c) + Len(b)) : (c \o b)[i] = IF i <= Len(c) THEN c[i] ELSE b[i - Len(c)]
    <3>1. b \in Seq(S) /\ c \in Seq(S) BY <1>1, <2>1
    <3> QED BY ONLY <3>1, ConcatIs
  <2>3. Len(c) + Len(b) = L + P BY <1>1, <2>1
  <2> HIDE DEF L, P
  <2> QED BY <2>1, <2>2, <2>3
<1>4. f \o p \in Seq(S) /\ Len(f \o p) = L + P
      /\ \A i \in 1..(L + P) : (f \o p)[i] = IF i <= L THEN f[i] ELSE p[i - L]
  OBVIOUS
<1>5. ASSUME NEW i \in 1..(L + P) PROVE (c \o b)[i] = (f \o p)[i]
  <2>1. CASE i <= L
    <3>1. i \in 1..(L + k) /\ i <= L + k BY <1>1, <2>1
    <3> QED BY <1>2, <1>3, <1>4, <2>1, <3>1 DEF c
  <2>2. CASE ~(i <= L) /\ i <= L + k
    <3>1. i \in 1..(L + k) /\ i - L \in 1..k BY <1>1, <2>2
    <3> QED BY <1>1, <1>2, <1>3, <1>4, <2>2, <3>1 DEF c
  <2>3. CASE ~(i <= L + k)
    <3>1. i - (L + k) \in 1..(P - k) /\ (i - (L + k)) + k = i - L /\ ~(i <= L) BY <1>1, <2>3
    <3> QED BY <1>1, <1>3, <1>4, <2>3, <3>1
  <2> QED BY <2>1, <2>2, <2>3
<1> HIDE DEF L, P
<1>6. c \o b = f \o p BY <1>3, <1>4, <1>5, SameSeq
<1> QED BY <1>6 DEF a, b, c, P

\* The first message is run.
LEMMA RunMs ==
    ASSUME NEW S, NEW f \in Seq(S), NEW p \in Seq(S), f # <<>>
    PROVE  f \o p \in Seq(S) /\ f \o p # <<>> /\ Head(f \o p) = Head(f) /\ Tail(f) \o p = Tail(f \o p)
<1> DEFINE m == f \o p
           t == Tail(f)
<1>1. /\ Len(f) \in Nat \ {0} /\ Len(p) \in Nat /\ m \in Seq(S) /\ Len(m) = Len(f) + Len(p)
      /\ \A i \in 1..Len(m) : m[i] = IF i <= Len(f) THEN f[i] ELSE p[i - Len(f)]
  OBVIOUS
<1>2. t \in Seq(S) /\ Len(t) = Len(f) - 1 /\ \A i \in 1..Len(t) : t[i] = f[i + 1]
  OBVIOUS
<1> HIDE DEF m, t
<1>3. m # <<>> /\ Head(m) = Head(f) BY <1>1
<1>4. t \o p \in Seq(S) /\ Len(t \o p) = Len(f) - 1 + Len(p)
      /\ \A i \in 1..(Len(f) - 1 + Len(p)) : (t \o p)[i] = IF i <= Len(t) THEN t[i] ELSE p[i - Len(t)]
  <2>1. /\ t \o p \in Seq(S) /\ Len(t \o p) = Len(t) + Len(p)
        /\ \A i \in 1..(Len(t) + Len(p)) : (t \o p)[i] = IF i <= Len(t) THEN t[i] ELSE p[i - Len(t)]
    BY <1>2, ConcatIs
  <2>2. Len(t) + Len(p) = Len(f) - 1 + Len(p) BY <1>1, <1>2
  <2> QED BY <2>1, <2>2
<1>5. Tail(m) \in Seq(S) /\ Len(Tail(m)) = Len(f) - 1 + Len(p)
      /\ \A i \in 1..(Len(f) - 1 + Len(p)) : Tail(m)[i] = m[i + 1]
  BY <1>1, <1>3
<1>6. ASSUME NEW i \in 1..(Len(f) - 1 + Len(p)) PROVE (t \o p)[i] = Tail(m)[i]
  <2>1. i + 1 \in 1..Len(m) BY <1>1
  <2>2. CASE i <= Len(t) BY <1>1, <1>2, <1>4, <1>5, <2>1, <2>2
  <2>3. CASE ~(i <= Len(t))
    <3>1. i - Len(t) = (i + 1) - Len(f) /\ ~(i + 1 <= Len(f)) BY <1>1, <1>2, <2>3
    <3> QED BY <1>1, <1>4, <1>5, <2>1, <2>3, <3>1
  <2> QED BY <2>2, <2>3
<1>7. t \o p = Tail(m) BY <1>4, <1>5, <1>6, SameSeq
<1> QED BY <1>1, <1>3, <1>7 DEF m, t

\* A message is sent.
LEMMA SendMs ==
    ASSUME NEW S, NEW f \in Seq(S), NEW p \in Seq(S), NEW m \in S
    PROVE  f \o Append(p, m) = Append(f \o p, m) /\ f \o p \in Seq(S)
<1> DEFINE a == f \o Append(p, m)
           b == Append(f \o p, m)
<1>1. a \in Seq(S) /\ b \in Seq(S) /\ Len(a) = Len(f) + Len(p) + 1 /\ Len(b) = Len(f) + Len(p) + 1
  OBVIOUS
<1>2. Len(f) \in Nat /\ Len(p) \in Nat OBVIOUS
<1>3. ASSUME NEW i \in 1..Len(a) PROVE a[i] = b[i]
  <2>1. i \in 1..(Len(f) + Len(p) + 1) BY <1>1
  <2>2. a[i] = IF i <= Len(f) THEN f[i] ELSE Append(p, m)[i - Len(f)] BY <1>2, <2>1
  <2>3. b[i] = IF i <= Len(f) + Len(p) THEN (f \o p)[i] ELSE m BY <1>2, <2>1
  <2>4. i <= Len(f) + Len(p) => (f \o p)[i] = IF i <= Len(f) THEN f[i] ELSE p[i - Len(f)] BY <1>2, <2>1
  <2>5. ~(i <= Len(f)) => Append(p, m)[i - Len(f)] = IF i <= Len(f) + Len(p) THEN p[i - Len(f)] ELSE m
    BY <1>2, <2>1
  <2> QED BY <1>2, <2>1, <2>2, <2>3, <2>4, <2>5
<1> HIDE DEF a, b
<1>4. a = b BY <1>1, <1>3, SameSeq
<1>5. f \o p \in Seq(S) OBVIOUS
<1> QED BY <1>4, <1>5 DEF a, b

\* Steps that have no part in requests.
LEMMA PlacedFrame ==
    ASSUME AnswerInv, UNCHANGED <<fdin, pipe, fdout, kbdtags, mousetags, out>>, SentTo' = SentTo, Up' => Up
    PROVE  Up' => AllPlaced'
BY DEF AnswerInv, AllPlaced, Ms

\* What the replies to reads answer.
LEMMA ReadAnswers == /\ Answers("rdkbd") = {"rdkbd"} /\ Answers("rdmouse") = {"rdmouse"}
                     /\ Answers("resized") = {"rdmouse"}
                     /\ \A ty \in Sync : Answers(ty) = {ty}
                     /\ Answers("error") = {"rddraw", "wrdraw"}
BY DEF Answers, Sync

\* matchkbd() answers reads of the keyboard.
LEMMA MatchkbdPlaced ==
    ASSUME Typed, NEW k \in Rings(Nring, Chars), NEW tg \in TagRings, NEW more, matchkbd(k, tg, more),
           UNCHANGED rp, NEW ms,
           Up => Placed(ms, fdout, SentTo, tg, "rdkbd", mousetags, "rdmouse", out)
    PROVE  Up' => Placed(ms, fdout', SentTo', kbdtags', "rdkbd", mousetags, "rdmouse", out)
<1>0. tg \in Rings(Ntags, Tags \cup {0}) BY DEF TagRings
<1>1. PICK n \in 0..Waiting(k, Nring), cs \in Seq(Replies) :
             /\ n \in 0..Waiting(tg, Ntags) /\ Len(cs) = n
             /\ \A j \in 1..n : cs[j] = Reply("rdkbd", Item(tg, Ntags, j), Item(k, Nring, j))
             /\ kbdtags' = Skip(tg, Ntags, n) /\ replymsg(cs)
  BY <1>0, MatchkbdSeq
<1>2. /\ SentTo' = SentTo /\ SentTo \in 0..Len(fdout) /\ fdout \in Seq(Replies)
      /\ (fdout' = fdout \o cs /\ status' = status) \/ status' = "fatal"
  BY <1>1, RepliedSeq DEF Typed
<1>3. \A j \in 1..n : /\ cs[j].tag = Item(tg, Ntags, j) /\ cs[j].type # "part"
                      /\ "rdkbd" \in Answers(cs[j].type)
  BY <1>1, ReadAnswers DEF Reply
<1> SUFFICES ASSUME Up' PROVE Placed(ms, fdout', SentTo', kbdtags', "rdkbd", mousetags, "rdmouse", out)
  OBVIOUS
<1>4. Up /\ fdout' = fdout \o cs BY <1>2 DEF Up
<1>5. Placed(ms, fdout \o cs, SentTo, Skip(tg, Ntags, n), "rdkbd", mousetags, "rdmouse", out)
  BY <1>1, <1>2, <1>3, <1>4, PlacedMatch
<1> QED BY <1>1, <1>2, <1>4, <1>5

\* matchmouse() answers reads of the mouse.
LEMMA MatchmousePlaced ==
    ASSUME Typed, NEW m \in Rings(Nring, Nat), NEW tg \in TagRings, matchmouse(m, tg),
           UNCHANGED rp, NEW ms,
           Up => Placed(ms, fdout, SentTo, kbdtags, "rdkbd", tg, "rdmouse", out)
    PROVE  Up' => Placed(ms, fdout', SentTo', kbdtags, "rdkbd", mousetags', "rdmouse", out)
<1>0. tg \in Rings(Ntags, Tags \cup {0}) BY DEF TagRings
<1>1. PICK n \in 0..Waiting(m, Nring), cs \in Seq(Replies) :
             /\ n \in 0..Waiting(tg, Ntags) /\ Len(cs) = n
             /\ \A j \in 1..n : cs[j].type \in MouseTypes /\ cs[j].tag = Item(tg, Ntags, j)
             /\ mousetags' = Skip(tg, Ntags, n) /\ replymsg(cs)
  BY <1>0, MatchmouseSeq
<1>2. /\ SentTo' = SentTo /\ SentTo \in 0..Len(fdout) /\ fdout \in Seq(Replies)
      /\ (fdout' = fdout \o cs /\ status' = status) \/ status' = "fatal"
  BY <1>1, RepliedSeq DEF Typed
<1>3. \A j \in 1..n : /\ cs[j].tag = Item(tg, Ntags, j) /\ cs[j].type # "part"
                      /\ "rdmouse" \in Answers(cs[j].type)
  BY <1>1, ReadAnswers DEF MouseTypes
<1> SUFFICES ASSUME Up' PROVE Placed(ms, fdout', SentTo', kbdtags, "rdkbd", mousetags', "rdmouse", out)
  OBVIOUS
<1>4. Up /\ fdout' = fdout \o cs BY <1>2 DEF Up
<1>5. Placed(ms, fdout, SentTo, tg, "rdmouse", kbdtags, "rdkbd", out) BY <1>4, PlacedSwap
<1>6. Placed(ms, fdout \o cs, SentTo, Skip(tg, Ntags, n), "rdmouse", kbdtags, "rdkbd", out)
  BY <1>1, <1>2, <1>3, <1>5, PlacedMatch
<1>7. Placed(ms, fdout \o cs, SentTo, kbdtags, "rdkbd", Skip(tg, Ntags, n), "rdmouse", out)
  BY <1>6, PlacedSwap
<1> QED BY <1>1, <1>2, <1>4, <1>7

\* The reply to the first message of fdin.
LEMMA ReplyPlaced ==
    ASSUME AnswerInv, fdin # <<>>, NEW ty \in Sync \cup {"error"}, Head(fdin).type \in Answers(ty),
           replymsg(Cells(Reply(ty, Head(fdin).tag, 0))), fdin' = Tail(fdin),
           UNCHANGED <<pipe, rp, kbdtags, mousetags, out>>
    PROVE  Up' => AllPlaced'
<1> DEFINE t == Head(fdin).tag
           r == Reply(ty, t, 0)
           c == ReplySize(r.type)
           cs == Cells(r)
<1>0. Typed /\ fdin \in Seq(Messages) /\ pipe \in Seq(Messages) /\ fdout \in Seq(Replies)
  BY DEF AnswerInv, Typed, Queues
<1>1. t \in Tags
  <2>1. Head(fdin) \in Messages BY <1>0
  <2> QED BY <2>1 DEF Messages
<1>2. cs \in Seq(Replies) BY <1>1, CellsSeq
<1>3. r.type = ty /\ r.tag = t /\ ty # "part" /\ Reply("part", t, 0).type = "part"
  BY DEF Reply, Sync
<1>4. c \in Nat \ {0} BY Sizes DEF ReplySize
<1> HIDE DEF r, t
<1>5. cs = [i \in 1..c |-> IF i = c THEN r ELSE Reply("part", t, 0)] BY <1>3 DEF Cells
<1> HIDE DEF c, cs
<1>6. /\ Len(cs) = c /\ c \in 1..Len(cs) /\ cs[c] = r
      /\ \A i \in 1..Len(cs) : cs[i].type # "part" <=> i = c
  BY <1>3, <1>4, <1>5
<1>7. /\ SentTo' = SentTo /\ SentTo \in 0..Len(fdout)
      /\ (fdout' = fdout \o cs /\ status' = status) \/ status' = "fatal"
  <2>1. replymsg(cs) BY DEF cs, r, t
  <2> QED BY <1>0, <1>2, <2>1, RepliedSeq
<1>8. Ms \in Seq(Messages) /\ Ms # <<>> /\ Head(Ms) = Head(fdin) /\ Ms' = Tail(Ms)
  BY <1>0, RunMs DEF Ms
<1> SUFFICES ASSUME Up' PROVE AllPlaced'
  OBVIOUS
<1>9. AllPlaced /\ fdout' = fdout \o cs BY <1>7 DEF Up, AnswerInv
<1>10. cs[c].tag = Head(Ms).tag /\ Head(Ms).type \in Answers(cs[c].type) BY <1>3, <1>6, <1>8 DEF t
<1>11. Placed(Tail(Ms), fdout \o cs, SentTo, kbdtags, "rdkbd", mousetags, "rdmouse", out)
  BY <1>0, <1>2, <1>6, <1>7, <1>8, <1>9, <1>10, PlacedAnswer DEF AllPlaced
<1> QED BY <1>7, <1>8, <1>9, <1>11 DEF AllPlaced

\* The reads of events.
LEMMA ReadsPlaced == ASSUME AnswerInv, Trdkbd \/ Trdmouse PROVE Up' => AllPlaced'
<1>0. /\ Typed /\ fdin \in Seq(Messages) /\ pipe \in Seq(Messages) /\ fdout \in Seq(Replies)
      /\ kbdtags \in TagRings /\ mousetags \in TagRings
      /\ kbdtags \in Rings(Ntags, Tags \cup {0}) /\ mousetags \in Rings(Ntags, Tags \cup {0})
  BY DEF AnswerInv, Typed, Queues, TagRings
<1>1. fdin # <<>> /\ fdin' = Tail(fdin) /\ UNCHANGED <<pipe, rp, out>> BY DEF Trdkbd, Trdmouse, Runs
<1>2. Head(fdin).tag \in Tags
  <2>1. Head(fdin) \in Messages BY <1>0, <1>1
  <2> QED BY <2>1 DEF Messages
<1>3. Ms \in Seq(Messages) /\ Ms # <<>> /\ Head(Ms) = Head(fdin) /\ Ms' = Tail(Ms)
  BY <1>0, <1>1, RunMs DEF Ms
<1>4. CASE Trdkbd
  <2> DEFINE tg == Put(kbdtags, Ntags, Head(fdin).tag)
  <2>1. /\ status' = "fatal" \/ (~Full(tg) /\ matchkbd(KbdUnstalled(kbd), tg, {}))
        /\ Head(fdin).type = "rdkbd" /\ UNCHANGED mousetags
    BY <1>4 DEF Trdkbd, Runs
  <2>2. CASE status' = "fatal" BY <2>2 DEF Up
  <2>3. CASE ~Full(tg) /\ matchkbd(KbdUnstalled(kbd), tg, {})
    <3>1. Up => Placed(Tail(Ms), fdout, SentTo, tg, "rdkbd", mousetags, "rdmouse", out)
      <4> SUFFICES ASSUME Up PROVE Placed(Tail(Ms), fdout, SentTo, tg, "rdkbd", mousetags, "rdmouse", out)
        OBVIOUS
      <4>1. Placed(Ms, fdout, SentTo, kbdtags, "rdkbd", mousetags, "rdmouse", out) BY DEF AnswerInv, AllPlaced
      <4>2. tg = Put(kbdtags, Ntags, Head(Ms).tag) BY <1>3
      <4> HIDE DEF tg
      <4> QED BY <1>0, <1>3, <2>1, <2>3, <4>1, <4>2, PlacedQueue
    <3>2. tg \in TagRings /\ KbdUnstalled(kbd) \in Rings(Nring, Chars) BY <1>0, <1>2, GivenRings DEF TagRings
    <3> HIDE DEF tg
    <3>3. Up' => Placed(Tail(Ms), fdout', SentTo', kbdtags', "rdkbd", mousetags, "rdmouse", out)
      BY <1>0, <1>1, <2>3, <3>1, <3>2, MatchkbdPlaced
    <3> QED BY <1>1, <1>3, <2>1, <3>3 DEF AllPlaced
  <2> QED BY <2>1, <2>2, <2>3
<1>5. CASE Trdmouse
  <2> DEFINE tg == Put(mousetags, Ntags, Head(fdin).tag)
             m == [mouse EXCEPT !.stall = FALSE]
  <2>1. /\ status' = "fatal" \/ (~Full(tg) /\ matchmouse(m, tg))
        /\ Head(fdin).type = "rdmouse" /\ UNCHANGED kbdtags
    BY <1>5 DEF Trdmouse, Runs
  <2>2. CASE status' = "fatal" BY <2>2 DEF Up
  <2>3. CASE ~Full(tg) /\ matchmouse(m, tg)
    <3>1. Up => Placed(Tail(Ms), fdout, SentTo, kbdtags, "rdkbd", tg, "rdmouse", out)
      <4> SUFFICES ASSUME Up PROVE Placed(Tail(Ms), fdout, SentTo, kbdtags, "rdkbd", tg, "rdmouse", out)
        OBVIOUS
      <4>1. Placed(Ms, fdout, SentTo, mousetags, "rdmouse", kbdtags, "rdkbd", out)
        BY PlacedSwap DEF AnswerInv, AllPlaced
      <4>2. tg = Put(mousetags, Ntags, Head(Ms).tag) BY <1>3
      <4> HIDE DEF tg
      <4>3. Placed(Tail(Ms), fdout, SentTo, tg, "rdmouse", kbdtags, "rdkbd", out)
        BY <1>0, <1>3, <2>1, <2>3, <4>1, <4>2, PlacedQueue
      <4> QED BY <4>3, PlacedSwap
    <3>2. tg \in TagRings /\ m \in Rings(Nring, Nat) BY <1>0, <1>2, GivenRings DEF TagRings
    <3> HIDE DEF tg, m
    <3>3. Up' => Placed(Tail(Ms), fdout', SentTo', kbdtags, "rdkbd", mousetags', "rdmouse", out)
      BY <1>0, <1>1, <2>3, <3>1, <3>2, MatchmousePlaced
    <3> QED BY <1>1, <1>3, <2>1, <3>3 DEF AllPlaced
  <2> QED BY <2>1, <2>2, <2>3
<1> QED BY <1>4, <1>5

\* The threads of the events.
LEMMA ThreadsPlaced == ASSUME AnswerInv, kbdthread \/ mousethread PROVE Up' => AllPlaced'
<1>0. /\ Typed /\ kbdtags \in TagRings /\ mousetags \in TagRings
      /\ (Up => Placed(Ms, fdout, SentTo, kbdtags, "rdkbd", mousetags, "rdmouse", out))
  BY DEF AnswerInv, AllPlaced, Typed, TagRings
<1>1. UNCHANGED <<fdin, pipe, rp, out>> /\ Ms' = Ms BY DEF kbdthread, mousethread, Ms
<1>2. CASE UNCHANGED <<status, writer, fdout, kbdtags, mousetags>>
  <2>1. SentTo' = SentTo BY <1>1, <1>2 DEF SentTo
  <2> QED BY <1>1, <1>2, <2>1, PlacedFrame DEF Up
<1>3. CASE kbdthread
  <2>1. \/ UNCHANGED <<status, writer, fdout, kbdtags, mousetags>>
        \/ /\ UNCHANGED mousetags
           /\ \E u \in utoplan9kbd(Head(ckbd)) :
                matchkbd(Stalls(Put(kbd, Nring, u[1])), kbdtags, {u[1]})
    BY <1>3 DEF kbdthread
  <2>2. ASSUME NEW u \in utoplan9kbd(Head(ckbd)), UNCHANGED mousetags,
               matchkbd(Stalls(Put(kbd, Nring, u[1])), kbdtags, {u[1]})
        PROVE  Up' => AllPlaced'
    <3> DEFINE k == Stalls(Put(kbd, Nring, u[1]))
    <3>1. Head(ckbd) \in Chars BY <1>0, <1>3 DEF kbdthread, Typed, Queues
    <3>2. u[1] \in Chars BY <1>0, <3>1, Utoplan9
    <3>3. k \in Rings(Nring, Chars) BY <1>0, <3>2, GivenRings
    <3>4. matchkbd(k, kbdtags, {u[1]}) BY <2>2
    <3> HIDE DEF k
    <3>5. Up' => Placed(Ms, fdout', SentTo', kbdtags', "rdkbd", mousetags, "rdmouse", out)
      BY <1>0, <1>1, <3>3, <3>4, MatchkbdPlaced
    <3> QED BY <1>1, <2>2, <3>5 DEF AllPlaced
  <2> QED BY <1>2, <2>1, <2>2
<1>4. CASE mousethread
  <2> DEFINE m == KeepsLatest(Put(mouse, Nring, Head(cmouse)), Head(cmouse))
  <2>1. \/ UNCHANGED <<status, writer, fdout, kbdtags, mousetags>>
        \/ UNCHANGED kbdtags /\ ~mouse.stall /\ matchmouse(m, mousetags)
    BY <1>4 DEF mousethread
  <2>2. CASE UNCHANGED kbdtags /\ ~mouse.stall /\ matchmouse(m, mousetags)
    <3>1. Head(cmouse) \in Nat BY <1>0, <1>4 DEF mousethread, Typed, Queues
    <3>2. m \in Rings(Nring, Nat) BY <1>0, <2>2, <3>1, LatestKept
    <3> HIDE DEF m
    <3>3. Up' => Placed(Ms, fdout', SentTo', kbdtags, "rdkbd", mousetags', "rdmouse", out)
      BY <1>0, <1>1, <2>2, <3>2, MatchmousePlaced
    <3> QED BY <1>1, <2>2, <3>3 DEF AllPlaced
  <2> QED BY <1>2, <2>1, <2>2
<1> QED BY <1>3, <1>4

\* Initially there is no request.
LEMMA InitAnswers == Init => AnswerInv
<1> SUFFICES ASSUME Init PROVE AnswerInv
  OBVIOUS
<1>1. Typed BY InitTyped
<1>2. Waiting(kbdtags, Ntags) = 0 /\ Waiting(mousetags, Ntags) = 0
  BY Sizes, EmptyRing DEF Init
<1>3. RingTags(kbdtags) = {} /\ RingTags(mousetags) = {} /\ RingOnce(kbdtags) /\ RingOnce(mousetags)
  BY <1>2 DEF RingTags, RingOnce
<1>4. Len(Ms) = 0 BY DEF Init, Ms
<1>5. MsgTags(Ms) = {} /\ MsgsOnce(Ms) BY <1>4 DEF MsgTags, MsgsOnce
<1>6. Unsents(fdout, SentTo) = {} BY DEF Init, Unsents, SentTo
<1>7. ReplyTags(fdout, SentTo) = {} /\ RepliesOnce(fdout, SentTo) BY <1>6 DEF ReplyTags, RepliesOnce
<1>8. \A t \in Tags : out[t] = "free" BY DEF Init
<1>9. AllPlaced BY <1>3, <1>4, <1>5, <1>6, <1>7, <1>8 DEF AllPlaced, Placed
<1> QED BY <1>1, <1>9 DEF AnswerInv, Init

\* Every step keeps each request in one place.
LEMMA StepPlaced == AnswerInv /\ [Next]_vars => (Up' => AllPlaced')
<1> SUFFICES ASSUME AnswerInv, [Next]_vars PROVE Up' => AllPlaced'
  OBVIOUS
<1>0. Typed /\ fdin \in Seq(Messages) /\ pipe \in Seq(Messages) /\ fdout \in Seq(Replies)
  BY DEF AnswerInv, Typed, Queues
<1>1. CASE UNCHANGED <<fdin, pipe, fdout, kbdtags, mousetags, out, rp, writer>> /\ (Up' => Up)
  <2>1. SentTo' = SentTo BY <1>1 DEF SentTo
  <2> QED BY <1>1, <2>1, PlacedFrame
<1>2. CASE UNCHANGED vars BY <1>1, <1>2 DEF vars, Up
<1>3. ASSUME NEW ty \in Reads \cup Sync, NEW t \in Tags, Send(ty, t), Up' PROVE AllPlaced'
  <2> DEFINE m == [type |-> ty, tag |-> t]
  <2>1. /\ out[t] = "free" /\ out' = [out EXCEPT ![t] = ty] /\ pipe' = Append(pipe, m)
        /\ UNCHANGED <<status, fdin, fdout, kbdtags, mousetags, rp, writer>>
    BY <1>3 DEF Send
  <2>2. m \in Messages BY DEF Messages
  <2>3. Ms' = Append(Ms, m) /\ Ms \in Seq(Messages)
    <3> HIDE DEF m
    <3> QED BY <1>0, <2>1, <2>2, SendMs DEF Ms
  <2>4. AllPlaced /\ SentTo' = SentTo BY <1>3, <2>1 DEF Up, AnswerInv, SentTo
  <2>5. \A i \in Unsents(fdout, SentTo) : "free" \notin Answers(fdout[i].type)
    <3> SUFFICES ASSUME NEW i \in Unsents(fdout, SentTo) PROVE "free" \notin Answers(fdout[i].type)
      OBVIOUS
    <3>1. SentTo \in Nat BY <1>0 DEF Typed, WritesWithin, Writers, SentTo
    <3>2. i \in 1..Len(fdout) BY <3>1 DEF Unsents
    <3>3. fdout[i] \in Replies BY <1>0, <3>2
    <3>4. fdout[i].type \in Reads \cup Sync \cup {"part", "error", "resized"} BY <3>3 DEF Replies
    <3> QED BY <3>4 DEF Answers, Reads, Sync
  <2>6. "rdkbd" \in Reads /\ "rdmouse" \in Reads BY DEF Reads
  <2>7. out \in [Tags -> Reads \cup Sync \cup {"free"}] BY <1>0 DEF Typed
  <2>8. Placed(Append(Ms, m), fdout, SentTo, kbdtags, "rdkbd", mousetags, "rdmouse", [out EXCEPT ![t] = ty])
    BY <2>1, <2>3, <2>4, <2>5, <2>6, <2>7, PlacedSend DEF AllPlaced
  <2> HIDE DEF m
  <2> QED BY <2>1, <2>3, <2>4, <2>8 DEF AllPlaced
<1>4. CASE Check \/ Slide
  BY <1>1, <1>4 DEF Check, Slide, ReaderUnchanged, Up
<1>5. CASE Eof \/ CloseWindow BY <1>5 DEF Eof, CloseWindow, Up
<1>6. ASSUME NEW k \in 0..Len(pipe), ioread(k), Up' PROVE AllPlaced'
  <2>1. /\ fdin' = fdin \o SubSeq(pipe, 1, k) /\ pipe' = SubSeq(pipe, k + 1, Len(pipe))
        /\ UNCHANGED <<status, fdout, kbdtags, mousetags, out, rp, writer>>
    BY <1>6 DEF ioread, ReaderUnchanged
  <2>2. Ms' = Ms BY <1>0, <2>1, ReadMs DEF Ms
  <2>3. SentTo' = SentTo /\ AllPlaced BY <1>6, <2>1 DEF SentTo, Up, AnswerInv
  <2> QED BY <2>1, <2>2, <2>3 DEF AllPlaced
<1>7. ASSUME NEW ty \in Sync, Tother(ty) PROVE Up' => AllPlaced'
  <2>1. /\ fdin # <<>> /\ Head(fdin).type = ty /\ fdin' = Tail(fdin)
        /\ UNCHANGED <<pipe, rp, kbdtags, mousetags, out>>
    BY <1>7 DEF Tother, Runs
  <2>2. PICK r \in {ty} \cup (IF ty \in {"rddraw", "wrdraw"} THEN {"error"} ELSE {}) :
          replymsg(Cells(Reply(r, Head(fdin).tag, 0)))
    BY <1>7 DEF Tother
  <2>3. r \in Sync \cup {"error"} /\ ty \in Answers(r) BY <2>2, ReadAnswers
  <2> QED BY <2>1, <2>2, <2>3, ReplyPlaced
<1>8. CASE Tinit \/ mkgscreen
  BY <1>1, <1>8 DEF Tinit, mkgscreen, AttachUnchanged, Up
<1>9. CASE Attached
  <2>1. /\ fdin # <<>> /\ Head(fdin).type = "init" /\ fdin' = Tail(fdin)
        /\ UNCHANGED <<pipe, rp, kbdtags, mousetags, out>>
    BY <1>0, <1>9 DEF Attached, AttachUnchanged, AnswerInv, Typed, Queues
  <2>2. replymsg(Cells(Reply("init", Head(fdin).tag, 0))) BY <1>9 DEF Attached
  <2>3. "init" \in Sync \cup {"error"} /\ "init" \in Answers("init") BY DEF Sync, Answers
  <2> QED BY <2>1, <2>2, <2>3, ReplyPlaced
<1>10. rp \in Nat /\ writer \in Writers BY <1>0 DEF Typed, WritesWithin
<1>11. CASE iowrite \/ WriteMore
  <2>1. SentTo' = SentTo BY <1>10, <1>11 DEF SentTo, iowrite, WriteMore, Writers
  <2> QED BY <1>11, <2>1, PlacedFrame DEF iowrite, WriteMore, WriterUnchanged, Up
<1>12. ASSUME NEW k \in 1..writer.n, Written(k), Up' PROVE AllPlaced'
  <2> DEFINE sent == {i \in (rp + 1)..(rp + k) : fdout[i].type # "part"}
  <2>1. /\ writer.at = "writing" /\ writer' = [at |-> "written", n |-> k]
        /\ UNCHANGED <<status, fdin, pipe, kbdtags, mousetags, fdout, rp>>
        /\ out' = [t \in Tags |-> IF \E i \in sent : fdout[i].tag = t THEN "free" ELSE out[t]]
    BY <1>12 DEF Written, WriterUnchanged
  <2>2. SentTo = rp /\ SentTo' = rp + k BY <1>10, <2>1 DEF SentTo
  <2>3. rp + k <= Len(fdout) /\ k \in Nat /\ rp \in 0..Len(fdout)
    BY <1>0, <1>10, <1>12, <2>1 DEF Typed, WritesWithin, Writers
  <2>4. SentOf(sent, fdout, rp, k) BY DEF SentOf
  <2>5. AllPlaced /\ Ms' = Ms /\ Ms \in Seq(Messages)
    <3>1. Ms \in Seq(Messages) BY <1>0, ConcatIs DEF Ms
    <3> QED BY <1>12, <2>1, <3>1 DEF Up, AnswerInv, Ms
  <2> HIDE DEF sent
  <2>6. Placed(Ms, fdout, rp + k, kbdtags, "rdkbd", mousetags, "rdmouse", out')
    <3>1. Placed(Ms, fdout, rp, kbdtags, "rdkbd", mousetags, "rdmouse", out)
      BY <2>2, <2>5 DEF AllPlaced
    <3>2. fdout \in Seq(Replies) BY <1>0 DEF Typed
    <3>3. Freed(out', sent, fdout, out) BY <2>1 DEF Freed
    <3>4. Ms \in Seq(Messages) BY <2>5
    <3> QED BY ONLY <3>1, <3>2, <3>3, <3>4, <2>3, <2>4, PlacedSent
  <2> QED BY <2>1, <2>2, <2>5, <2>6 DEF AllPlaced
<1>13. ASSUME WaitMore, Up' PROVE AllPlaced'
  <2>1. /\ writer.at = "start" /\ rp = Len(fdout) /\ fdout' = <<>> /\ rp' = 0
        /\ writer' = [at |-> "waitmore", n |-> 0]
        /\ UNCHANGED <<status, fdin, pipe, kbdtags, mousetags, out>>
    BY <1>13 DEF WaitMore, WriterUnchanged
  <2>2. SentTo = Len(fdout) /\ SentTo' = 0 BY <1>10, <2>1 DEF SentTo
  <2>3. AllPlaced /\ Ms' = Ms BY <1>13, <2>1 DEF Up, AnswerInv, Ms
  <2>4. Placed(Ms, <<>>, 0, kbdtags, "rdkbd", mousetags, "rdmouse", out)
    BY <1>0, <2>2, <2>3, PlacedSlide DEF AllPlaced
  <2> QED BY <2>1, <2>2, <2>3, <2>4 DEF AllPlaced
<1>14. CASE CreateWindow \/ ShowWindow \/ Shown
  BY <1>1, <1>14 DEF CreateWindow, ShowWindow, ScreenIsThere, Shown, WinUnchanged, Up
<1>15. CASE (\E k \in Keys : kbdputc(k)) \/ MouseMove \/ WindowSize \/ SizeSent
  BY <1>1, <1>15 DEF kbdputc, MouseMove, WindowSize, SizeSent, WinUnchanged, Up
<1> QED
  BY <1>2, <1>3, <1>4, <1>5, <1>6, <1>7, <1>8, <1>9, <1>11, <1>12, <1>13, <1>14, <1>15,
     ReadsPlaced, ThreadsPlaced, Steps

\* While _xattach() runs, the message that is answered next is a Tinit.
LEMMA StepHead ==
    AnswerInv /\ [Next]_vars => (reader' \in {"attach", "screen"} => Head(fdin').type = "init")
<1> SUFFICES ASSUME AnswerInv, [Next]_vars, reader' \in {"attach", "screen"}
             PROVE  fdin' = fdin /\ Head(fdin).type = "init"
  OBVIOUS
<1>1. CASE fdin' = fdin /\ reader' = reader BY <1>1 DEF AnswerInv
<1>2. CASE UNCHANGED vars BY <1>1, <1>2 DEF vars
<1>3. ASSUME NEW ty \in Reads \cup Sync, NEW t \in Tags, Send(ty, t) PROVE fdin' = fdin /\ reader' = reader
  BY <1>3 DEF Send
<1>4. ~Check /\ ~Slide BY DEF Check, Slide
<1>5. ASSUME NEW k \in 0..Len(pipe), ioread(k) PROVE FALSE BY <1>5 DEF ioread
<1>6. ~Trdkbd /\ ~Trdmouse /\ ~Attached BY DEF Trdkbd, Trdmouse, Attached, Runs
<1>7. ASSUME NEW ty \in Sync, Tother(ty) PROVE FALSE BY <1>7 DEF Tother, Runs
<1>8. CASE Tinit BY <1>8 DEF Tinit, Runs
<1>9. CASE mkgscreen BY <1>9 DEF mkgscreen, AnswerInv
<1>10. ASSUME NEW k \in 1..writer.n, Written(k) PROVE fdin' = fdin /\ reader' = reader
  BY <1>10 DEF Written, WriterUnchanged
<1>11. CASE iowrite \/ WriteMore BY <1>1, <1>11 DEF iowrite, WriteMore, WriterUnchanged
<1>12. CASE WaitMore
  <2>1. reader' = reader /\ fdin' = fdin BY <1>12 DEF WaitMore, Noted, WriterUnchanged
  <2> QED BY <1>1, <2>1
<1>13. CASE Eof \/ kbdthread \/ mousethread \/ CloseWindow
  BY <1>1, <1>13 DEF Eof, kbdthread, mousethread, CloseWindow
<1>14. CASE \/ CreateWindow \/ ShowWindow \/ Shown \/ (\E k \in Keys : kbdputc(k)) \/ MouseMove
            \/ WindowSize \/ SizeSent
  BY <1>1, <1>14 DEF CreateWindow, ShowWindow, ScreenIsThere, Shown, kbdputc, MouseMove, WindowSize,
     SizeSent, WinUnchanged
<1> QED
  BY <1>1, <1>2, <1>3, <1>4, <1>5, <1>6, <1>7, <1>8, <1>9, <1>10, <1>11, <1>12, <1>13, <1>14, Steps

\* The invariant on requests holds in every reachable state.
THEOREM AnswerInvariance == Spec => []AnswerInv
<1>1. AnswerInv /\ [Next]_vars => AnswerInv'
  <2>1. AnswerInv /\ [Next]_vars => Typed' BY StepTyped DEF AnswerInv
  <2> QED BY <2>1, StepPlaced, StepHead DEF AnswerInv
<1> QED BY <1>1, InitAnswers, PTL DEF Spec

\* How many messages have the tag t.
LEMMA MsgCount ==
    ASSUME NEW f \in Seq(Messages), NEW p \in Seq(Messages), MsgsOnce(f \o p), NEW t
    PROVE  Cardinality({i \in DOMAIN p : p[i].tag = t}) + Cardinality({i \in DOMAIN f : f[i].tag = t})
             = IF t \in MsgTags(f \o p) THEN 1 ELSE 0
<1> DEFINE m == f \o p
           A == {i \in DOMAIN p : p[i].tag = t}
           B == {i \in DOMAIN f : f[i].tag = t}
<1>1. /\ Len(f) \in Nat /\ Len(p) \in Nat /\ Len(m) = Len(f) + Len(p)
      /\ \A i \in 1..(Len(f) + Len(p)) : m[i] = IF i <= Len(f) THEN f[i] ELSE p[i - Len(f)]
  BY ConcatIs
<1>2. DOMAIN p = 1..Len(p) /\ DOMAIN f = 1..Len(f) OBVIOUS
<1> HIDE DEF m
<1>3. MsgsOnce(m) BY DEF m
<1>4. \A i \in B : i \in 1..Len(m) /\ m[i].tag = t BY <1>1, <1>2
<1>5. \A i \in A : i + Len(f) \in 1..Len(m) /\ m[i + Len(f)].tag = t
  <2> SUFFICES ASSUME NEW i \in A PROVE i + Len(f) \in 1..Len(m) /\ m[i + Len(f)].tag = t
    OBVIOUS
  <2>1. i \in 1..Len(p) /\ p[i].tag = t BY <1>2
  <2>2. i + Len(f) \in 1..(Len(f) + Len(p)) /\ ~(i + Len(f) <= Len(f)) /\ (i + Len(f)) - Len(f) = i BY <1>1, <2>1
  <2> QED BY <1>1, <2>1, <2>2
<1>6. CASE t \notin MsgTags(m)
  <2>1. A = {} /\ B = {} BY <1>4, <1>5, <1>6 DEF MsgTags
  <2>2. Cardinality(A) = 0 /\ Cardinality(B) = 0 BY <2>1, FS_EmptySet
  <2> QED BY <1>6, <2>2 DEF m
<1>7. CASE t \in MsgTags(m)
  <2>1. PICK x \in 1..Len(m) : m[x].tag = t BY <1>7 DEF MsgTags
  <2>2. \A i \in 1..Len(m) : m[i].tag = t => i = x BY <1>3, <2>1 DEF MsgsOnce
  <2>3. CASE x <= Len(f)
    <3>1. x \in 1..Len(f) /\ f[x].tag = t BY <1>1, <2>1, <2>3
    <3>2. B = {x} BY <1>2, <1>4, <2>2, <3>1
    <3>3. A = {}
      <4>1. ASSUME NEW i \in A PROVE FALSE
        <5>1. i + Len(f) = x BY <1>5, <2>2
        <5>2. i \in 1..Len(p) BY <1>2
        <5> QED BY <1>1, <2>3, <5>1, <5>2
      <4> QED BY <4>1
    <3>4. Cardinality(A) = 0 /\ Cardinality(B) = 1 BY <3>2, <3>3, FS_EmptySet, FS_Singleton
    <3> QED BY <1>7, <3>4 DEF m
  <2>4. CASE ~(x <= Len(f))
    <3>1. x - Len(f) \in 1..Len(p) /\ p[x - Len(f)].tag = t BY <1>1, <2>1, <2>4
    <3>2. A = {x - Len(f)}
      <4>1. ASSUME NEW i \in A PROVE i = x - Len(f)
        <5>1. i + Len(f) = x /\ i \in 1..Len(p) BY <1>2, <1>5, <2>2
        <5> QED BY <1>1, <5>1
      <4> QED BY <1>2, <3>1, <4>1
    <3>3. B = {}
      <4>1. ASSUME NEW i \in B PROVE FALSE
        <5>1. i = x /\ i \in 1..Len(f) BY <1>2, <1>4, <2>2
        <5> QED BY <1>1, <2>4, <5>1
      <4> QED BY <4>1
    <3>4. Cardinality(A) = 1 /\ Cardinality(B) = 0 BY <3>2, <3>3, FS_EmptySet, FS_Singleton
    <3> QED BY <1>7, <3>4 DEF m
  <2> QED BY <2>3, <2>4
<1> QED BY <1>6, <1>7

\* Each request is in one place, and answered once, with a reply of its own.
THEOREM OneAnswerCorrect == Spec => []OneAnswer
<1>1. AnswerInv => OneAnswer
  <2> SUFFICES ASSUME AnswerInv, Up PROVE OneAnswer
    BY DEF OneAnswer
  <2>0. fdin \in Seq(Messages) /\ pipe \in Seq(Messages) BY DEF AnswerInv, Typed, Queues
  <2>1. Placed(Ms, fdout, SentTo, kbdtags, "rdkbd", mousetags, "rdmouse", out)
    BY DEF AnswerInv, AllPlaced
  <2>2. /\ Unsent = Unsents(fdout, SentTo) /\ TagsOf(kbdtags) = RingTags(kbdtags)
        /\ TagsOf(mousetags) = RingTags(mousetags)
    BY DEF Unsent, Unsents, SentTo, TagsOf, RingTags
  <2>3. \A i \in Unsent : out[fdout[i].tag] \in Answers(fdout[i].type) BY <2>1, <2>2 DEF Placed
  <2>4. ASSUME NEW t \in Tags, out[t] # "free"
        PROVE  1 = Cardinality({i \in DOMAIN pipe : pipe[i].tag = t})
                   + Cardinality({i \in DOMAIN fdin : fdin[i].tag = t})
                   + Cardinality({i \in Unsent : fdout[i].tag = t})
                   + (IF t \in TagsOf(kbdtags) THEN 1 ELSE 0)
                   + (IF t \in TagsOf(mousetags) THEN 1 ELSE 0)
    <3> DEFINE a == Cardinality({i \in DOMAIN pipe : pipe[i].tag = t})
               b == Cardinality({i \in DOMAIN fdin : fdin[i].tag = t})
               c == Cardinality({i \in Unsent : fdout[i].tag = t})
    <3>1. a + b = IF t \in MsgTags(Ms) THEN 1 ELSE 0 BY <2>0, <2>1, MsgCount DEF Placed, Ms
    <3>2. c = IF t \in ReplyTags(fdout, SentTo) THEN 1 ELSE 0
      <4>1. CASE t \in ReplyTags(fdout, SentTo)
        <5>1. PICK x \in Unsent : fdout[x].tag = t BY <2>2, <4>1 DEF ReplyTags
        <5>2. {i \in Unsent : fdout[i].tag = t} = {x} BY <2>1, <2>2, <5>1 DEF Placed, RepliesOnce
        <5> QED BY <4>1, <5>2, FS_Singleton
      <4>2. CASE t \notin ReplyTags(fdout, SentTo)
        <5>1. {i \in Unsent : fdout[i].tag = t} = {} BY <2>2, <4>2 DEF ReplyTags
        <5> QED BY <4>2, <5>1, FS_EmptySet
      <4> QED BY <4>1, <4>2
    <3>3. t \in MsgTags(Ms) \cup ReplyTags(fdout, SentTo) \cup RingTags(kbdtags) \cup RingTags(mousetags)
      BY <2>1, <2>4 DEF Placed
    <3>4. /\ MsgTags(Ms) \cap ReplyTags(fdout, SentTo) = {} /\ MsgTags(Ms) \cap RingTags(kbdtags) = {}
          /\ MsgTags(Ms) \cap RingTags(mousetags) = {} /\ ReplyTags(fdout, SentTo) \cap RingTags(kbdtags) = {}
          /\ ReplyTags(fdout, SentTo) \cap RingTags(mousetags) = {}
          /\ RingTags(kbdtags) \cap RingTags(mousetags) = {}
      BY <2>1 DEF Placed
    <3> HIDE DEF a, b, c
    <3>5. 1 = a + b + c + (IF t \in RingTags(kbdtags) THEN 1 ELSE 0)
              + (IF t \in RingTags(mousetags) THEN 1 ELSE 0)
      BY <3>1, <3>2, <3>3, <3>4
    <3> QED BY <2>2, <3>5 DEF a, b, c
  <2> QED BY <2>3, <2>4 DEF OneAnswer
<1> QED BY <1>1, AnswerInvariance, PTL

\* Every request is answered once and with a reply of its own, and events are
\* told in the order in which they happened.
THEOREM AnsweredCorrect == Spec => []Answered
<1>1. OneAnswer /\ InOrder => Answered BY DEF Answered
<1> QED BY <1>1, OneAnswerCorrect, OrderCorrect, PTL

\* Characters reach the client once, in order and as soon as it reads, as long
\* as the ring does not overflow.
THEOREM KbdCorrect == Spec => []KbdDelivered
<1>1. Typed => TypeOK
  <2> SUFFICES ASSUME Typed PROVE TypeOK
    OBVIOUS
  <2>1. \A n, V : \A q \in Rings(n, V) : IsRing(q, n) BY DEF Rings, IsRing
  <2>2. IsRing(kbd, Nring) /\ IsRing(mouse, Nring) /\ IsRing(kbdtags, Ntags) /\ IsRing(mousetags, Ntags)
    BY <2>1 DEF Typed
  <2>3. rp \in 0..Len(fdout) BY DEF Typed, WritesWithin
  <2>4. hist.owed \in BOOLEAN BY DEF Typed, History
  <2>5. writer.at \in {"start", "writing", "written", "waitmore"} /\ writer.n \in Nat BY DEF Typed, Writers
  <2> QED BY <2>2, <2>3, <2>4, <2>5 DEF Typed, TypeOK
<1>2. AnswerInv => TypeOK BY <1>1 DEF AnswerInv
<1>3. TypeOK /\ Answered /\ KbdConserved => KbdDelivered BY DEF KbdDelivered
<1> QED BY <1>2, <1>3, AnswerInvariance, AnsweredCorrect, KbdConservedCorrect, PTL

-----------------------------------------------------------------------------
(* There is room for every reply, and for every tag, as long as the       *)
(* client does not wait for too much at a time.                           *)

\* The cells that the replies to the requests of S take, o being their types.
Bigs == {"rddraw", "rdsnarf"}
Weight(S, o) == Cardinality(S) + (Big - 1) * Cardinality({t \in S : o[t] \in Bigs})

\* The requests that the server has got and not answered.
PendOf(f, q1, q2) == MsgTags(f) \cup RingTags(q1) \cup RingTags(q2)

\* The requests in two sets that have nothing in common.
LEMMA WeightUnion ==
    ASSUME NEW S, NEW T, NEW o, IsFiniteSet(S), IsFiniteSet(T), S \cap T = {}
    PROVE  /\ Weight(S \cup T, o) = Weight(S, o) + Weight(T, o)
           /\ Weight(S, o) \in Nat /\ Weight(T, o) \in Nat
<1> DEFINE B(X) == {t \in X : o[t] \in Bigs}
<1>1. B(S \cup T) = B(S) \cup B(T) /\ B(S) \cap B(T) = {} /\ B(S) \subseteq S /\ B(T) \subseteq T
  OBVIOUS
<1>2. IsFiniteSet(B(S)) /\ IsFiniteSet(B(T)) BY <1>1, FS_Subset
<1> DEFINE s == Cardinality(S)
           t == Cardinality(T)
           bs == Cardinality(B(S))
           bt == Cardinality(B(T))
<1>3. s \in Nat /\ t \in Nat /\ bs \in Nat /\ bt \in Nat BY <1>2, FS_CardinalityType
<1>4. Cardinality(S \cup T) = s + t
  <2>1. Cardinality(S \cup T) = s + t - Cardinality(S \cap T) BY FS_Union
  <2>2. Cardinality(S \cap T) = 0 BY FS_EmptySet
  <2> QED BY <1>3, <2>1, <2>2
<1>5. Cardinality(B(S) \cup B(T)) = bs + bt
  <2>1. Cardinality(B(S) \cup B(T)) = bs + bt - Cardinality(B(S) \cap B(T)) BY <1>2, FS_Union
  <2>2. Cardinality(B(S) \cap B(T)) = 0 BY <1>1, FS_EmptySet
  <2> QED BY <1>3, <2>1, <2>2
<1>6. Big - 1 \in Nat BY Sizes
<1>7. Weight(S \cup T, o) = (s + t) + (Big - 1) * (bs + bt) BY <1>1, <1>4, <1>5 DEF Weight
<1>8. Weight(S, o) = s + (Big - 1) * bs /\ Weight(T, o) = t + (Big - 1) * bt BY DEF Weight
<1> HIDE DEF s, t, bs, bt, B
<1>9. ASSUME NEW g \in Nat PROVE (s + t) + g * (bs + bt) = (s + g * bs) + (t + g * bt) /\ g * bs \in Nat /\ g * bt \in Nat
  BY <1>3
<1> QED BY <1>3, <1>6, <1>7, <1>8, <1>9

\* Fewer requests take less.
LEMMA WeightFewer ==
    ASSUME NEW S, NEW T, NEW o, IsFiniteSet(T), S \subseteq T
    PROVE  /\ Weight(S, o) <= Weight(T, o) /\ Weight(S, o) \in Nat /\ Weight(T, o) \in Nat
           /\ Weight(T, o) = Weight(T \ S, o) + Weight(S, o)
<1>1. IsFiniteSet(S) /\ IsFiniteSet(T \ S) BY FS_Subset
<1>2. T = (T \ S) \cup S /\ (T \ S) \cap S = {} OBVIOUS
<1>3. Weight((T \ S) \cup S, o) = Weight(T \ S, o) + Weight(S, o) /\ Weight(S, o) \in Nat /\ Weight(T \ S, o) \in Nat
  BY <1>1, <1>2, WeightUnion
<1> QED BY <1>2, <1>3

\* What counts is the type of each.
LEMMA WeightSame ==
    ASSUME NEW S, NEW o, NEW p, \A t \in S : o[t] = p[t]
    PROVE  Weight(S, o) = Weight(S, p)
<1>1. {t \in S : o[t] \in Bigs} = {t \in S : p[t] \in Bigs} OBVIOUS
<1> QED BY <1>1 DEF Weight

\* One request.
LEMMA WeightOne == ASSUME NEW t, NEW o PROVE Weight({t}, o) = ReplySize(o[t])
<1>1. Cardinality({t}) = 1 /\ Cardinality({}) = 0 BY FS_Singleton, FS_EmptySet
<1>2. Big \in Nat BY Sizes
<1>3. CASE o[t] \in Bigs
  <2>1. {x \in {t} : o[x] \in Bigs} = {t} BY <1>3
  <2> QED BY <1>1, <1>2, <1>3, <2>1 DEF Weight, ReplySize, Bigs
<1>4. CASE o[t] \notin Bigs
  <2>1. {x \in {t} : o[x] \in Bigs} = {} BY <1>4
  <2> QED BY <1>1, <1>2, <1>4, <2>1 DEF Weight, ReplySize, Bigs
<1> QED BY <1>3, <1>4

\* Reads of events.
LEMMA WeightReads ==
    ASSUME NEW S, NEW o, \A t \in S : o[t] \in Reads, IsFiniteSet(S)
    PROVE  Weight(S, o) = Cardinality(S)
<1>1. {t \in S : o[t] \in Bigs} = {} BY DEF Bigs, Reads
<1>2. Cardinality({}) = 0 /\ Cardinality(S) \in Nat /\ Big \in Nat BY FS_EmptySet, FS_CardinalityType, Sizes
<1>3. Weight(S, o) = Cardinality(S) + (Big - 1) * 0 BY <1>1, <1>2 DEF Weight
<1>4. (Big - 1) * 0 = 0 BY <1>2
<1> QED BY <1>2, <1>3, <1>4

\* The number of the first n tags of a ring.
LEMMA TagCount ==
    ASSUME NEW q \in TagRings, RingOnce(q), NEW n \in 0..Waiting(q, Ntags)
    PROVE  LET T == {Item(q, Ntags, j) : j \in 1..n} IN IsFiniteSet(T) /\ Cardinality(T) = n
<1> DEFINE T == {Item(q, Ntags, j) : j \in 1..n}
           f == [j \in 1..n |-> Item(q, Ntags, j)]
<1>1. Waiting(q, Ntags) \in Nat /\ n \in Nat BY Sizes, WaitingIs DEF TagRings
<1>2. \A j \in 1..n : j \in 1..Waiting(q, Ntags) BY <1>1
<1>3. \A i, j \in 1..n : Item(q, Ntags, i) = Item(q, Ntags, j) => i = j BY <1>2 DEF RingOnce
<1>4. /\ f \in [1..n -> T] /\ \A y \in T : \E j \in 1..n : f[j] = y
      /\ \A i, j \in 1..n : i # j => f[i] # f[j]
  BY <1>3
<1> HIDE DEF f, T
<1>5. f \in Bijection(1..n, T) BY <1>4 DEF Bijection, Injection, Surjection, IsInjective
<1>6. ExistsBijection(1..n, T) BY <1>5 DEF ExistsBijection
<1>7. IsFiniteSet(1..n) /\ Cardinality(1..n) = n BY <1>1, FS_Interval
<1>8. IsFiniteSet(T) /\ Cardinality(T) = n BY <1>6, <1>7, FS_Bijection
<1> QED BY <1>8 DEF T

\* What the places of requests say of those that are pending.  f holds the
\* messages that are read, p those that are not.
LEMMA PendFacts ==
    ASSUME NEW f \in Seq(Messages), NEW p \in Seq(Messages), NEW fo, NEW fr,
           NEW q1, NEW q2, NEW o \in [Tags -> Reads \cup Sync \cup {"free"}],
           Placed(f \o p, fo, fr, q1, "rdkbd", q2, "rdmouse", o)
    PROVE  /\ MsgsOnce(f) /\ RingOnce(q1) /\ RingOnce(q2)
           /\ \A i \in 1..Len(f) : f[i].tag \in Tags /\ o[f[i].tag] = f[i].type
           /\ \A t \in RingTags(q1) : t \in Tags /\ o[t] = "rdkbd"
           /\ \A t \in RingTags(q2) : t \in Tags /\ o[t] = "rdmouse"
           /\ MsgTags(f) \cap RingTags(q1) = {} /\ MsgTags(f) \cap RingTags(q2) = {}
           /\ RingTags(q1) \cap RingTags(q2) = {}
           /\ IsFiniteSet(MsgTags(f)) /\ IsFiniteSet(RingTags(q1)) /\ IsFiniteSet(RingTags(q2))
           /\ \A t \in PendOf(f, q1, q2) : t \in Tags /\ o[t] \in Reads \cup Sync
<1> DEFINE m == f \o p
<1>1. /\ m \in Seq(Messages) /\ Len(f) \in Nat /\ Len(p) \in Nat /\ Len(m) = Len(f) + Len(p)
      /\ \A i \in 1..(Len(f) + Len(p)) : m[i] = IF i <= Len(f) THEN f[i] ELSE p[i - Len(f)]
  BY ConcatIs
<1> HIDE DEF m
<1>2. Placed(m, fo, fr, q1, "rdkbd", q2, "rdmouse", o) BY DEF m
<1>3. \A i \in 1..Len(f) : i \in 1..Len(m) /\ m[i] = f[i] BY <1>1
<1>4. \A i \in 1..Len(f) : f[i].tag \in Tags /\ f[i].type \in Reads \cup Sync
  <2>1. \A i \in 1..Len(f) : f[i] \in Messages OBVIOUS
  <2> QED BY <2>1 DEF Messages
<1>5. MsgsOnce(f) BY <1>2, <1>3 DEF Placed, MsgsOnce
<1>6. MsgTags(f) \subseteq MsgTags(m) BY <1>3 DEF MsgTags
<1>7. \A i \in 1..Len(f) : o[f[i].tag] = f[i].type BY <1>2, <1>3 DEF Placed
<1>8. \A t \in MsgTags(f) : t \in Tags /\ o[t] \in Reads \cup Sync BY <1>4, <1>7 DEF MsgTags
<1>9. /\ RingOnce(q1) /\ RingOnce(q2)
      /\ \A t \in RingTags(q1) : t \in Tags /\ o[t] = "rdkbd"
      /\ \A t \in RingTags(q2) : t \in Tags /\ o[t] = "rdmouse"
      /\ MsgTags(f) \cap RingTags(q1) = {} /\ MsgTags(f) \cap RingTags(q2) = {}
      /\ RingTags(q1) \cap RingTags(q2) = {}
  BY <1>2, <1>6 DEF Placed
<1>10. MsgTags(f) \subseteq Tags /\ RingTags(q1) \subseteq Tags /\ RingTags(q2) \subseteq Tags BY <1>8, <1>9
<1>11. IsFiniteSet(MsgTags(f)) /\ IsFiniteSet(RingTags(q1)) /\ IsFiniteSet(RingTags(q2))
  BY <1>10, FS_Subset, TagsAssumption
<1>12. \A t \in PendOf(f, q1, q2) : t \in Tags /\ o[t] \in Reads \cup Sync BY <1>8, <1>9 DEF PendOf, Reads
<1> QED BY <1>4, <1>5, <1>7, <1>9, <1>11, <1>12

\* The requests that wait for an answer, by the type of the request.
OutOf(tys, o) == {t \in Tags : o[t] \in tys}

\* They are finitely many.
LEMMA OutFinite == ASSUME NEW tys, NEW o PROVE IsFiniteSet(OutOf(tys, o)) /\ Cardinality(OutOf(tys, o)) \in Nat
<1>1. OutOf(tys, o) \subseteq Tags BY DEF OutOf
<1> QED BY <1>1, TagsAssumption, FS_Subset, FS_CardinalityType

\* The load that the client computes is their weight.
LEMMA LoadIs == ASSUME NEW o PROVE
    Cardinality(OutOf(Reads \cup Sync, o)) + (Big - 1) * Cardinality(OutOf({"rddraw", "rdsnarf"}, o))
      = Weight(OutOf(Reads \cup Sync, o), o)
<1>1. {t \in OutOf(Reads \cup Sync, o) : o[t] \in Bigs} = OutOf({"rddraw", "rdsnarf"}, o)
  BY DEF OutOf, Bigs, Reads, Sync
<1> QED BY <1>1 DEF Weight

\* What the client is limited to.
Limited(o) == /\ Weight(OutOf(Reads \cup Sync, o), o) <= Window
              /\ \A ty \in Reads : Cardinality(OutOf({ty}, o)) <= MaxReads

\* The requests pending take no more than the client waits for.
LEMMA PendLight ==
    ASSUME NEW f \in Seq(Messages), NEW p \in Seq(Messages), NEW fo, NEW fr,
           NEW q1, NEW q2, NEW o \in [Tags -> Reads \cup Sync \cup {"free"}],
           Placed(f \o p, fo, fr, q1, "rdkbd", q2, "rdmouse", o), Limited(o)
    PROVE  Weight(PendOf(f, q1, q2), o) <= Window /\ Weight(PendOf(f, q1, q2), o) \in Nat
<1> DEFINE S == PendOf(f, q1, q2)
           T == OutOf(Reads \cup Sync, o)
<1>1. \A t \in S : t \in Tags /\ o[t] \in Reads \cup Sync BY PendFacts
<1>2. S \subseteq T /\ IsFiniteSet(T) BY <1>1, OutFinite DEF OutOf
<1> HIDE DEF S, T
<1>3. Weight(S, o) <= Weight(T, o) /\ Weight(S, o) \in Nat /\ Weight(T, o) \in Nat BY <1>2, WeightFewer
<1>4. Weight(T, o) <= Window /\ Window \in Nat BY BoundsAssumption DEF Limited, T
<1> QED BY <1>3, <1>4 DEF S

\* The first n tags of a ring are answered: the cells they take are no longer
\* to come.  R are the other requests that are pending.
LEMMA MatchWeight ==
    ASSUME NEW q \in TagRings, RingOnce(q), NEW n \in 0..Waiting(q, Ntags), NEW o,
           \A t \in RingTags(q) : t \in Tags /\ o[t] \in Reads,
           NEW R, IsFiniteSet(R), R \cap RingTags(q) = {}
    PROVE  Weight(R \cup RingTags(Skip(q, Ntags, n)), o) + n = Weight(R \cup RingTags(q), o)
<1> DEFINE T == {Item(q, Ntags, j) : j \in 1..n}
           A == R \cup RingTags(q)
<1>1. /\ RingTags(Skip(q, Ntags, n)) = RingTags(q) \ T
      /\ \A j \in 1..n : Item(q, Ntags, j) \in RingTags(q)
  BY SkipTags
<1>2. T \subseteq RingTags(q) BY <1>1
<1>3. IsFiniteSet(T) /\ Cardinality(T) = n BY TagCount
<1> HIDE DEF T
<1>4. R \cup RingTags(Skip(q, Ntags, n)) = A \ T /\ T \subseteq A BY <1>1, <1>2
<1>5. IsFiniteSet(A)
  <2>1. RingTags(q) \subseteq Tags OBVIOUS
  <2>2. IsFiniteSet(RingTags(q)) BY <2>1, FS_Subset, TagsAssumption
  <2> QED BY <2>2, FS_Union
<1>6. Weight(T, o) = n
  <2>1. \A t \in T : o[t] \in Reads BY <1>2
  <2> QED BY <1>3, <2>1, WeightReads
<1> HIDE DEF A
<1>7. Weight(A, o) = Weight(A \ T, o) + Weight(T, o) BY <1>4, <1>5, WeightFewer
<1> QED BY <1>4, <1>6, <1>7 DEF A

\* A tag is queued in a ring that does not get full by it.
LEMMA TagFits ==
    ASSUME MaxReads < Ntags, NEW q \in TagRings, RingOnce(q), NEW ty \in Reads, NEW o,
           \A t \in RingTags(q) : t \in Tags /\ o[t] = ty,
           NEW x \in Tags, x \notin RingTags(q), o[x] = ty, Limited(o)
    PROVE  ~Full(Put(q, Ntags, x))
<1> DEFINE w == Waiting(q, Ntags)
           T == RingTags(q) \cup {x}
<1>1. w \in 0..(Ntags - 1) /\ Ntags \in Nat BY Sizes, WaitingIs DEF TagRings
<1>2. IsFiniteSet(RingTags(q)) /\ Cardinality(RingTags(q)) = w
  <2>1. w \in 0..w BY <1>1
  <2> QED BY <2>1, TagCount DEF RingTags
<1>3. IsFiniteSet(T) /\ Cardinality(T) = w + 1 BY <1>2, FS_AddElement
<1>4. T \subseteq OutOf({ty}, o) BY DEF OutOf
<1> HIDE DEF w, T
<1>5. IsFiniteSet(OutOf({ty}, o)) /\ Cardinality(OutOf({ty}, o)) \in Nat BY OutFinite
<1>6. Cardinality(T) <= Cardinality(OutOf({ty}, o)) BY <1>4, <1>5, FS_Subset
<1>7. w + 1 <= MaxReads /\ MaxReads \in Nat
  <2>1. Cardinality(OutOf({ty}, o)) <= MaxReads BY DEF Limited
  <2>2. MaxReads \in Nat BY SizesAssumption
  <2> QED BY <1>1, <1>3, <1>5, <1>6, <2>1, <2>2
<1>8. w # Ntags - 1 BY <1>1, <1>7
<1>9. Put(q, Ntags, x).ri = Put(q, Ntags, x).wi <=> w = Ntags - 1
  <2>1. q \in Rings(Ntags, Tags \cup {0}) /\ x \in Tags \cup {0} BY DEF TagRings
  <2> QED BY Sizes, <2>1, PutRing DEF w
<1> QED BY <1>8, <1>9 DEF Full

\* How far fdout and the replies to come may go: the reader looks at fdout
\* before it reads, then what the client waits for may be added twice, once by
\* the threads while the reader reads and once by the messages it got.
Far(r) == MAXWMSG + (IF r = "reading" THEN Window ELSE 2 * Window)
Pending == PendOf(fdin, kbdtags, mousetags)

Room == /\ reader \in {"check", "notew", "reading"} => fdin = <<>>
        /\ Len(fdout) + Weight(Pending, out) <= Far(reader)

\* The invariant on the room in fdout and in the rings of tags.
RoomInv == /\ AnswerInv /\ status # "fatal"
           /\ Limited(out)
           /\ Up => Room

\* The facts about what is pending, of the present state.
LEMMA NowFacts ==
    ASSUME RoomInv, Up
    PROVE  /\ MsgsOnce(fdin) /\ RingOnce(kbdtags) /\ RingOnce(mousetags)
           /\ \A i \in 1..Len(fdin) : fdin[i].tag \in Tags /\ out[fdin[i].tag] = fdin[i].type
           /\ \A t \in RingTags(kbdtags) : t \in Tags /\ out[t] = "rdkbd"
           /\ \A t \in RingTags(mousetags) : t \in Tags /\ out[t] = "rdmouse"
           /\ MsgTags(fdin) \cap RingTags(kbdtags) = {} /\ MsgTags(fdin) \cap RingTags(mousetags) = {}
           /\ RingTags(kbdtags) \cap RingTags(mousetags) = {}
           /\ IsFiniteSet(MsgTags(fdin)) /\ IsFiniteSet(RingTags(kbdtags)) /\ IsFiniteSet(RingTags(mousetags))
           /\ \A t \in Pending : t \in Tags /\ out[t] \in Reads \cup Sync
           /\ IsFiniteSet(Pending) /\ Weight(Pending, out) \in Nat /\ Weight(Pending, out) <= Window
           /\ fdin \in Seq(Messages) /\ pipe \in Seq(Messages) /\ fdout \in Seq(Replies) /\ Typed
           /\ kbdtags \in TagRings /\ mousetags \in TagRings /\ Len(fdout) \in Nat
           /\ Len(fdout) + Weight(Pending, out) <= Far(reader)
<1>1. /\ fdin \in Seq(Messages) /\ pipe \in Seq(Messages) /\ fdout \in Seq(Replies) /\ Typed
      /\ kbdtags \in TagRings /\ mousetags \in TagRings /\ Len(fdout) \in Nat
      /\ out \in [Tags -> Reads \cup Sync \cup {"free"}]
  BY DEF RoomInv, AnswerInv, Typed, Queues, TagRings
<1>2. Placed(fdin \o pipe, fdout, SentTo, kbdtags, "rdkbd", mousetags, "rdmouse", out)
  BY DEF RoomInv, AnswerInv, AllPlaced, Ms
<1>3. /\ MsgsOnce(fdin) /\ RingOnce(kbdtags) /\ RingOnce(mousetags)
      /\ \A i \in 1..Len(fdin) : fdin[i].tag \in Tags /\ out[fdin[i].tag] = fdin[i].type
      /\ \A t \in RingTags(kbdtags) : t \in Tags /\ out[t] = "rdkbd"
      /\ \A t \in RingTags(mousetags) : t \in Tags /\ out[t] = "rdmouse"
      /\ MsgTags(fdin) \cap RingTags(kbdtags) = {} /\ MsgTags(fdin) \cap RingTags(mousetags) = {}
      /\ RingTags(kbdtags) \cap RingTags(mousetags) = {}
      /\ IsFiniteSet(MsgTags(fdin)) /\ IsFiniteSet(RingTags(kbdtags)) /\ IsFiniteSet(RingTags(mousetags))
      /\ \A t \in Pending : t \in Tags /\ out[t] \in Reads \cup Sync
  BY <1>1, <1>2, PendFacts DEF Pending
<1>4. IsFiniteSet(Pending) BY <1>3, FS_Union DEF Pending, PendOf
<1>5. Weight(Pending, out) <= Window /\ Weight(Pending, out) \in Nat
  BY <1>1, <1>2, PendLight DEF RoomInv, Pending
<1>6. Len(fdout) + Weight(Pending, out) <= Far(reader) BY DEF RoomInv, Room
<1> QED BY <1>1, <1>3, <1>4, <1>5, <1>6

\* Cells are added whose requests are no longer pending: there is room.
LEMMA ReplyRoom ==
    ASSUME RoomInv, Up, 2 * Window <= MAXWMSG, NEW cs \in Seq(Replies), replymsg(cs),
           NEW w \in Nat, w + Len(cs) <= Weight(Pending, out)
    PROVE  status' = status /\ Len(fdout') + w <= Far(reader)
<1>1. /\ Len(fdout) \in Nat /\ fdout \in Seq(Replies) /\ Weight(Pending, out) \in Nat
      /\ Len(fdout) + Weight(Pending, out) <= Far(reader)
  BY NowFacts
<1>2. MAXWMSG \in Nat /\ Window \in Nat BY Sizes
<1>3. Len(cs) \in Nat OBVIOUS
<1>4. Far(reader) <= 2 * MAXWMSG /\ Far(reader) \in Nat BY <1>2 DEF Far
<1>5. ~(Len(fdout) + Len(cs) > 2 * MAXWMSG) BY <1>1, <1>2, <1>3, <1>4
<1>6. status' = status /\ fdout' = fdout \o cs BY <1>5 DEF replymsg
<1>7. Len(fdout') = Len(fdout) + Len(cs) BY <1>1, <1>6
<1> QED BY <1>1, <1>3, <1>4, <1>6, <1>7

\* matchkbd() on the tags tg, and f being the messages left.
LEMMA MatchkbdRoom ==
    ASSUME RoomInv, Up, 2 * Window <= MAXWMSG,
           NEW k \in Rings(Nring, Chars), NEW tg \in TagRings, NEW more, matchkbd(k, tg, more),
           RingOnce(tg), \A t \in RingTags(tg) : t \in Tags /\ out[t] = "rdkbd",
           NEW f, MsgTags(f) \cap RingTags(tg) = {}, RingTags(mousetags) \cap RingTags(tg) = {},
           PendOf(f, tg, mousetags) = Pending
    PROVE  status' = status /\ Len(fdout') + Weight(PendOf(f, kbdtags', mousetags), out) <= Far(reader)
<1> DEFINE R == MsgTags(f) \cup RingTags(mousetags)
<1>0. tg \in Rings(Ntags, Tags \cup {0}) /\ Typed BY NowFacts DEF TagRings
<1>1. PICK n \in 0..Waiting(k, Nring), cs \in Seq(Replies) :
        n \in 0..Waiting(tg, Ntags) /\ Len(cs) = n /\ kbdtags' = Skip(tg, Ntags, n) /\ replymsg(cs)
  BY <1>0, MatchkbdSeq
<1>2. PendOf(f, tg, mousetags) = R \cup RingTags(tg) /\ PendOf(f, kbdtags', mousetags) = R \cup RingTags(kbdtags')
  BY DEF PendOf
<1>3. IsFiniteSet(R) /\ R \cap RingTags(tg) = {}
  <2>1. R \subseteq Pending BY <1>2
  <2> QED BY <2>1, NowFacts, FS_Subset
<1>4. \A t \in RingTags(tg) : t \in Tags /\ out[t] \in Reads BY DEF Reads
<1> HIDE DEF R
<1>5. Weight(R \cup RingTags(Skip(tg, Ntags, n)), out) + n = Weight(R \cup RingTags(tg), out)
  BY <1>1, <1>3, <1>4, MatchWeight
<1>6. Weight(R \cup RingTags(kbdtags'), out) \in Nat
  <2>1. RingTags(kbdtags') \subseteq RingTags(tg) BY <1>1, SkipTags
  <2>2. R \cup RingTags(kbdtags') \subseteq Pending BY <1>2, <2>1
  <2> QED BY <2>2, NowFacts, WeightFewer
<1>7. Weight(R \cup RingTags(kbdtags'), out) + Len(cs) <= Weight(Pending, out)
  <2>1. Weight(R \cup RingTags(kbdtags'), out) + Len(cs) = Weight(Pending, out) BY <1>1, <1>2, <1>5
  <2> QED BY <2>1, NowFacts
<1> QED BY <1>1, <1>2, <1>6, <1>7, ReplyRoom

\* matchmouse() on the tags tg, and f being the messages left.
LEMMA MatchmouseRoom ==
    ASSUME RoomInv, Up, 2 * Window <= MAXWMSG,
           NEW m \in Rings(Nring, Nat), NEW tg \in TagRings, matchmouse(m, tg),
           RingOnce(tg), \A t \in RingTags(tg) : t \in Tags /\ out[t] = "rdmouse",
           NEW f, MsgTags(f) \cap RingTags(tg) = {}, RingTags(kbdtags) \cap RingTags(tg) = {},
           PendOf(f, kbdtags, tg) = Pending
    PROVE  status' = status /\ Len(fdout') + Weight(PendOf(f, kbdtags, mousetags'), out) <= Far(reader)
<1> DEFINE R == MsgTags(f) \cup RingTags(kbdtags)
<1>0. tg \in Rings(Ntags, Tags \cup {0}) /\ Typed BY NowFacts DEF TagRings
<1>1. PICK n \in 0..Waiting(m, Nring), cs \in Seq(Replies) :
        n \in 0..Waiting(tg, Ntags) /\ Len(cs) = n /\ mousetags' = Skip(tg, Ntags, n) /\ replymsg(cs)
  BY <1>0, MatchmouseSeq
<1>2. PendOf(f, kbdtags, tg) = R \cup RingTags(tg) /\ PendOf(f, kbdtags, mousetags') = R \cup RingTags(mousetags')
  BY DEF PendOf
<1>3. IsFiniteSet(R) /\ R \cap RingTags(tg) = {}
  <2>1. R \subseteq Pending BY <1>2
  <2> QED BY <2>1, NowFacts, FS_Subset
<1>4. \A t \in RingTags(tg) : t \in Tags /\ out[t] \in Reads BY DEF Reads
<1> HIDE DEF R
<1>5. Weight(R \cup RingTags(Skip(tg, Ntags, n)), out) + n = Weight(R \cup RingTags(tg), out)
  BY <1>1, <1>3, <1>4, MatchWeight
<1>6. Weight(R \cup RingTags(mousetags'), out) \in Nat
  <2>1. RingTags(mousetags') \subseteq RingTags(tg) BY <1>1, SkipTags
  <2>2. R \cup RingTags(mousetags') \subseteq Pending BY <1>2, <2>1
  <2> QED BY <2>2, NowFacts, WeightFewer
<1>7. Weight(R \cup RingTags(mousetags'), out) + Len(cs) <= Weight(Pending, out)
  <2>1. Weight(R \cup RingTags(mousetags'), out) + Len(cs) = Weight(Pending, out) BY <1>1, <1>2, <1>5
  <2> QED BY <2>1, NowFacts
<1> QED BY <1>1, <1>2, <1>6, <1>7, ReplyRoom

\* The reply to the first message.
LEMMA HeadRoom ==
    ASSUME RoomInv, Up, 2 * Window <= MAXWMSG, fdin # <<>>, NEW ty \in Sync \cup {"error"},
           ReplySize(ty) <= ReplySize(Head(fdin).type), replymsg(Cells(Reply(ty, Head(fdin).tag, 0)))
    PROVE  /\ status' = status
           /\ Len(fdout') + Weight(PendOf(Tail(fdin), kbdtags, mousetags), out) <= Far(reader)
<1> DEFINE t == Head(fdin).tag
           S == PendOf(Tail(fdin), kbdtags, mousetags)
           cs == Cells(Reply(ty, t, 0))
<1>1. /\ MsgTags(Tail(fdin)) = MsgTags(fdin) \ {t} /\ t \in MsgTags(fdin)
      /\ Head(fdin) = fdin[1] /\ 1 \in 1..Len(fdin)
  BY NowFacts, TakenTags
<1>2. t \in Tags /\ out[t] = Head(fdin).type BY <1>1, NowFacts
<1>3. S = Pending \ {t} /\ {t} \subseteq Pending BY <1>1, NowFacts DEF PendOf, Pending
<1>4. cs \in Seq(Replies) BY <1>2, CellsSeq
<1>5. Len(cs) = ReplySize(ty) /\ ReplySize(ty) \in Nat /\ ReplySize(out[t]) \in Nat
  <2>1. ReplySize(ty) \in Nat /\ ReplySize(out[t]) \in Nat BY Sizes DEF ReplySize
  <2>2. Reply(ty, t, 0).type = ty BY DEF Reply
  <2> QED BY <2>1, <2>2 DEF Cells
<1> HIDE DEF S, cs
<1>6. /\ Weight(Pending, out) = Weight(Pending \ {t}, out) + Weight({t}, out)
      /\ Weight(Pending \ {t}, out) \in Nat
  <2>1. Pending \ {t} \subseteq Pending OBVIOUS
  <2> QED BY <1>3, <2>1, NowFacts, WeightFewer
<1>7. Weight({t}, out) = ReplySize(out[t]) BY WeightOne
<1>8. Weight(S, out) \in Nat /\ Weight(S, out) + Len(cs) <= Weight(Pending, out)
  BY <1>2, <1>3, <1>5, <1>6, <1>7
<1>9. replymsg(cs) BY DEF cs
<1> QED BY <1>4, <1>8, <1>9, ReplyRoom DEF S

\* A read of the keyboard.
LEMMA TrdkbdRoom ==
    ASSUME RoomInv, Up, 2 * Window <= MAXWMSG, MaxReads < Ntags, Trdkbd
    PROVE  /\ status' = status
           /\ Len(fdout') + Weight(PendOf(Tail(fdin), kbdtags', mousetags), out) <= Far(reader)
<1> DEFINE t == Head(fdin).tag
           tg == Put(kbdtags, Ntags, t)
<1>0. fdin # <<>> /\ Head(fdin).type = "rdkbd" BY DEF Trdkbd, Runs
<1>1. /\ MsgTags(Tail(fdin)) = MsgTags(fdin) \ {t} /\ t \in MsgTags(fdin)
      /\ Head(fdin) = fdin[1] /\ 1 \in 1..Len(fdin)
  BY <1>0, NowFacts, TakenTags
<1>2. t \in Tags /\ out[t] = "rdkbd" BY <1>0, <1>1, NowFacts
<1>3. t \notin RingTags(kbdtags) /\ t \notin RingTags(mousetags) BY <1>1, NowFacts
<1> HIDE DEF t
<1>4. ~Full(tg)
  <2>1. "rdkbd" \in Reads /\ Limited(out) BY DEF Reads, RoomInv
  <2> QED BY <1>2, <1>3, <2>1, NowFacts, TagFits
<1>5. tg \in TagRings /\ RingOnce(tg) /\ RingTags(tg) = RingTags(kbdtags) \cup {t}
  BY <1>2, <1>3, <1>4, NowFacts, PutTags
<1>6. matchkbd(KbdUnstalled(kbd), tg, {}) BY <1>4 DEF Trdkbd, t
<1>7. KbdUnstalled(kbd) \in Rings(Nring, Chars) BY NowFacts, GivenRings
<1> HIDE DEF tg
<1>8. \A x \in RingTags(tg) : x \in Tags /\ out[x] = "rdkbd" BY <1>2, <1>5, NowFacts
<1>9. MsgTags(Tail(fdin)) \cap RingTags(tg) = {} /\ RingTags(mousetags) \cap RingTags(tg) = {}
  BY <1>1, <1>3, <1>5, NowFacts
<1>10. PendOf(Tail(fdin), tg, mousetags) = Pending BY <1>1, <1>5 DEF PendOf, Pending
<1> QED BY <1>5, <1>6, <1>7, <1>8, <1>9, <1>10, MatchkbdRoom

\* A read of the mouse.
LEMMA TrdmouseRoom ==
    ASSUME RoomInv, Up, 2 * Window <= MAXWMSG, MaxReads < Ntags, Trdmouse
    PROVE  /\ status' = status
           /\ Len(fdout') + Weight(PendOf(Tail(fdin), kbdtags, mousetags'), out) <= Far(reader)
<1> DEFINE t == Head(fdin).tag
           tg == Put(mousetags, Ntags, t)
           m == [mouse EXCEPT !.stall = FALSE]
<1>0. fdin # <<>> /\ Head(fdin).type = "rdmouse" BY DEF Trdmouse, Runs
<1>1. /\ MsgTags(Tail(fdin)) = MsgTags(fdin) \ {t} /\ t \in MsgTags(fdin)
      /\ Head(fdin) = fdin[1] /\ 1 \in 1..Len(fdin)
  BY <1>0, NowFacts, TakenTags
<1>2. t \in Tags /\ out[t] = "rdmouse" BY <1>0, <1>1, NowFacts
<1>3. t \notin RingTags(kbdtags) /\ t \notin RingTags(mousetags) BY <1>1, NowFacts
<1> HIDE DEF t
<1>4. ~Full(tg)
  <2>1. "rdmouse" \in Reads /\ Limited(out) BY DEF Reads, RoomInv
  <2> QED BY <1>2, <1>3, <2>1, NowFacts, TagFits
<1>5. tg \in TagRings /\ RingOnce(tg) /\ RingTags(tg) = RingTags(mousetags) \cup {t}
  BY <1>2, <1>3, <1>4, NowFacts, PutTags
<1>6. matchmouse(m, tg) BY <1>4 DEF Trdmouse, t
<1>7. m \in Rings(Nring, Nat) BY NowFacts, GivenRings
<1> HIDE DEF tg, m
<1>8. \A x \in RingTags(tg) : x \in Tags /\ out[x] = "rdmouse" BY <1>2, <1>5, NowFacts
<1>9. MsgTags(Tail(fdin)) \cap RingTags(tg) = {} /\ RingTags(kbdtags) \cap RingTags(tg) = {}
  BY <1>1, <1>3, <1>5, NowFacts
<1>10. PendOf(Tail(fdin), kbdtags, tg) = Pending BY <1>1, <1>5 DEF PendOf, Pending
<1> QED BY <1>5, <1>6, <1>7, <1>8, <1>9, <1>10, MatchmouseRoom

\* The threads of the events, which do not look at the room in fdout.
LEMMA ThreadsRoom ==
    ASSUME RoomInv, Up, 2 * Window <= MAXWMSG, kbdthread \/ mousethread
    PROVE  /\ status' = status
           /\ Len(fdout') + Weight(PendOf(fdin, kbdtags', mousetags'), out) <= Far(reader)
<1>1. CASE UNCHANGED <<status, fdout, kbdtags, mousetags>> BY <1>1, NowFacts DEF Pending
<1>2. CASE kbdthread
  <2>1. \/ UNCHANGED <<status, fdout, kbdtags, mousetags>>
        \/ /\ UNCHANGED mousetags
           /\ \E u \in utoplan9kbd(Head(ckbd)) :
                matchkbd(Stalls(Put(kbd, Nring, u[1])), kbdtags, {u[1]})
    BY <1>2 DEF kbdthread
  <2>2. ASSUME NEW u \in utoplan9kbd(Head(ckbd)), UNCHANGED mousetags,
               matchkbd(Stalls(Put(kbd, Nring, u[1])), kbdtags, {u[1]})
        PROVE  /\ status' = status
               /\ Len(fdout') + Weight(PendOf(fdin, kbdtags', mousetags'), out) <= Far(reader)
    <3> DEFINE k == Stalls(Put(kbd, Nring, u[1]))
    <3>1. Head(ckbd) \in Chars BY <1>2, NowFacts DEF kbdthread, Typed, Queues
    <3>2. u[1] \in Chars BY <3>1, NowFacts, Utoplan9
    <3>3. k \in Rings(Nring, Chars) BY <3>2, NowFacts, GivenRings
    <3>4. matchkbd(k, kbdtags, {u[1]}) BY <2>2
    <3> HIDE DEF k
    <3>5. PendOf(fdin, kbdtags, mousetags) = Pending /\ RingTags(mousetags) \cap RingTags(kbdtags) = {}
      BY NowFacts DEF Pending
    <3>6. /\ status' = status
          /\ Len(fdout') + Weight(PendOf(fdin, kbdtags', mousetags), out) <= Far(reader)
      BY <3>3, <3>4, <3>5, NowFacts, MatchkbdRoom
    <3> QED BY <2>2, <3>6
  <2> QED BY <1>1, <2>1, <2>2
<1>3. CASE mousethread
  <2> DEFINE m == KeepsLatest(Put(mouse, Nring, Head(cmouse)), Head(cmouse))
  <2>1. \/ UNCHANGED <<status, fdout, kbdtags, mousetags>>
        \/ UNCHANGED kbdtags /\ ~mouse.stall /\ matchmouse(m, mousetags)
    BY <1>3 DEF mousethread
  <2>2. CASE UNCHANGED kbdtags /\ ~mouse.stall /\ matchmouse(m, mousetags)
    <3>1. Head(cmouse) \in Nat BY <1>3, NowFacts DEF mousethread, Typed, Queues
    <3>2. m \in Rings(Nring, Nat) BY <2>2, <3>1, NowFacts, LatestKept
    <3> HIDE DEF m
    <3>3. PendOf(fdin, kbdtags, mousetags) = Pending BY DEF Pending
    <3>4. /\ status' = status
          /\ Len(fdout') + Weight(PendOf(fdin, kbdtags, mousetags'), out) <= Far(reader)
      BY <2>2, <3>2, <3>3, NowFacts, MatchmouseRoom
    <3> QED BY <2>2, <3>4
  <2> QED BY <1>1, <2>1, <2>2
<1> QED BY <1>2, <1>3

\* The client keeps to its limits: it sends what does not exceed them ...
LEMMA SendLimited ==
    ASSUME Typed, Limited(out), NEW ty \in Reads \cup Sync, NEW t \in Tags, Send(ty, t)
    PROVE  Limited(out')
<1> DEFINE T == OutOf(Reads \cup Sync, out)
           o == [out EXCEPT ![t] = ty]
<1>0. out \in [Tags -> Reads \cup Sync \cup {"free"}] BY DEF Typed
<1>1. /\ out[t] = "free" /\ out' = o
      /\ Load + ReplySize(ty) <= Window
      /\ ty \in Reads => Cardinality(Outstanding({ty})) < MaxReads
  BY DEF Send
<1>2. o[t] = ty /\ \A x \in Tags : x # t => o[x] = out[x] BY <1>0
<1> HIDE DEF o
<1>3. "free" \notin Reads \cup Sync BY DEF Reads, Sync
<1>4. OutOf(Reads \cup Sync, o) = T \cup {t} /\ t \notin T /\ T \subseteq Tags BY <1>1, <1>2, <1>3 DEF OutOf
<1>5. Load = Weight(T, out)
  <2>1. Outstanding(Reads \cup Sync) = T /\ Outstanding({"rddraw", "rdsnarf"}) = OutOf({"rddraw", "rdsnarf"}, out)
    BY DEF Outstanding, OutOf
  <2> QED BY <2>1, LoadIs DEF Load
<1>6. IsFiniteSet(T) /\ IsFiniteSet({t}) /\ T \cap {t} = {} BY <1>4, OutFinite, FS_Singleton
<1> HIDE DEF T
<1>7. Weight(T \cup {t}, o) = Weight(T, o) + Weight({t}, o) BY <1>6, WeightUnion
<1>8. Weight({t}, o) = ReplySize(ty) BY <1>2, WeightOne
<1>9. Weight(T, o) = Weight(T, out)
  <2>1. \A x \in T : o[x] = out[x] BY <1>2, <1>4
  <2> QED BY <2>1, WeightSame
<1>10. Weight(OutOf(Reads \cup Sync, o), o) <= Window BY <1>1, <1>4, <1>5, <1>7, <1>8, <1>9
<1>11. ASSUME NEW r \in Reads PROVE Cardinality(OutOf({r}, o)) <= MaxReads
  <2>1. Cardinality(OutOf({r}, out)) <= MaxReads /\ IsFiniteSet(OutOf({r}, out))
        /\ Cardinality(OutOf({r}, out)) \in Nat
    BY OutFinite DEF Limited
  <2>2. CASE r = ty
    <3>1. OutOf({r}, o) = OutOf({r}, out) \cup {t} /\ t \notin OutOf({r}, out)
      BY <1>1, <1>2, <1>3, <2>2 DEF OutOf
    <3>2. Cardinality(OutOf({r}, o)) = Cardinality(OutOf({r}, out)) + 1 BY <2>1, <3>1, FS_AddElement
    <3>3. Cardinality(OutOf({r}, out)) < MaxReads BY <1>1, <2>2 DEF Outstanding, OutOf
    <3> QED BY <2>1, <3>2, <3>3, Sizes
  <2>3. CASE r # ty
    <3>1. OutOf({r}, o) = OutOf({r}, out) BY <1>1, <1>2, <1>3, <2>3 DEF OutOf
    <3> QED BY <2>1, <3>1
  <2> QED BY <2>2, <2>3
<1> QED BY <1>1, <1>10, <1>11 DEF Limited

\* ... and replies only free tags.
LEMMA FreedLimited ==
    ASSUME NEW o, Limited(o), NEW p, \A t \in Tags : p[t] = o[t] \/ p[t] = "free"
    PROVE  Limited(p)
<1>1. "free" \notin Reads \cup Sync /\ \A r \in Reads : r # "free" BY DEF Reads, Sync
<1> DEFINE S == OutOf(Reads \cup Sync, p)
           T == OutOf(Reads \cup Sync, o)
<1>2. S \subseteq T /\ IsFiniteSet(T) /\ \A t \in S : p[t] = o[t] BY <1>1, OutFinite DEF OutOf
<1> HIDE DEF S, T
<1>3. Weight(S, p) = Weight(S, o) BY <1>2, WeightSame
<1>4. Weight(S, o) <= Weight(T, o) /\ Weight(S, o) \in Nat /\ Weight(T, o) \in Nat BY <1>2, WeightFewer
<1>5. Weight(T, o) <= Window /\ Window \in Nat BY Sizes DEF Limited, T
<1>6. Weight(S, p) <= Window BY <1>3, <1>4, <1>5
<1>7. ASSUME NEW r \in Reads PROVE Cardinality(OutOf({r}, p)) <= MaxReads
  <2>1. OutOf({r}, p) \subseteq OutOf({r}, o) BY <1>1 DEF OutOf
  <2>2. Cardinality(OutOf({r}, p)) <= Cardinality(OutOf({r}, o)) BY <2>1, OutFinite, FS_Subset
  <2>3. Cardinality(OutOf({r}, p)) \in Nat /\ Cardinality(OutOf({r}, o)) \in Nat BY OutFinite
  <2>4. Cardinality(OutOf({r}, o)) <= MaxReads /\ MaxReads \in Nat BY Sizes DEF Limited
  <2> QED BY <2>2, <2>3, <2>4
<1> QED BY <1>6, <1>7 DEF Limited, S

\* Every step keeps the client within its limits.
LEMMA StepLimited == ASSUME Typed, Limited(out), [Next]_vars PROVE Limited(out')
<1>1. CASE out' = out BY <1>1
<1>2. CASE \E ty \in Reads \cup Sync, t \in Tags : Send(ty, t) BY <1>2, SendLimited
<1>3. CASE \E k \in 1..writer.n : Written(k)
  <2>1. PICK k \in 1..writer.n : Written(k) BY <1>3
  <2>2. \A t \in Tags : out'[t] = out[t] \/ out'[t] = "free" BY <2>1 DEF Written
  <2> QED BY <2>2, FreedLimited
<1>4. CASE \/ UNCHANGED vars \/ Check \/ (\E k \in 0..Len(pipe) : ioread(k)) \/ Eof \/ Slide
           \/ Trdkbd \/ Trdmouse \/ (\E ty \in Sync : Tother(ty))
  BY <1>1, <1>4 DEF vars, Check, ioread, Eof, Slide, Trdkbd, Trdmouse, Tother, ReaderUnchanged
<1>5. CASE \/ Tinit \/ mkgscreen \/ Attached \/ iowrite \/ WriteMore \/ WaitMore
           \/ kbdthread \/ mousethread
  BY <1>1, <1>5 DEF Tinit, mkgscreen, Attached, AttachUnchanged, iowrite, WriteMore, WaitMore,
     kbdthread, mousethread
<1>6. CASE \/ CreateWindow \/ ShowWindow \/ Shown \/ (\E k \in Keys : kbdputc(k)) \/ MouseMove
           \/ WindowSize \/ SizeSent \/ CloseWindow
  BY <1>1, <1>6 DEF CreateWindow, ShowWindow, ScreenIsThere, Shown, kbdputc, MouseMove, WindowSize,
     SizeSent, CloseWindow, WinUnchanged
<1> QED BY <1>2, <1>3, <1>4, <1>5, <1>6, Steps

\* The client is within its limits at first.
LEMMA InitRoom == Init => RoomInv
<1> SUFFICES ASSUME Init PROVE RoomInv
  OBVIOUS
<1>1. \A tys : "free" \notin tys => OutOf(tys, out) = {} BY DEF Init, OutOf
<1>2. "free" \notin Reads \cup Sync /\ \A r \in Reads : "free" \notin {r} BY DEF Reads, Sync
<1>3. Cardinality({}) = 0 /\ Weight({}, out) = 0
  <2>1. {t \in {} : out[t] \in Bigs} = {} OBVIOUS
  <2>2. Cardinality({}) = 0 /\ Big - 1 \in Int BY FS_EmptySet, Sizes
  <2>3. (Big - 1) * 0 = 0 BY <2>2
  <2> QED BY <2>1, <2>2, <2>3 DEF Weight
<1>4. Limited(out) BY <1>1, <1>2, <1>3, Sizes DEF Limited
<1>5. Pending = {}
  <2>1. Waiting(kbdtags, Ntags) = 0 /\ Waiting(mousetags, Ntags) = 0 BY Sizes, EmptyRing DEF Init
  <2>2. RingTags(kbdtags) = {} /\ RingTags(mousetags) = {} BY <2>1 DEF RingTags
  <2>3. MsgTags(fdin) = {} BY DEF Init, MsgTags
  <2> QED BY <2>2, <2>3 DEF Pending, PendOf
<1>6. Len(fdout) = 0 /\ fdin = <<>> /\ status = "up" BY DEF Init
<1>7. Far(reader) \in Nat BY Sizes DEF Far
<1>8. Room BY <1>3, <1>5, <1>6, <1>7 DEF Room
<1> QED BY <1>4, <1>6, <1>8, InitAnswers DEF RoomInv

\* There is room after a step that leaves requests and replies alone.
LEMMA RoomFrame ==
    ASSUME RoomInv, Up, UNCHANGED <<fdin, fdout, kbdtags, mousetags, out>>, reader' \notin {"check", "notew", "reading"},
           reader # "reading"
    PROVE  Room'
<1>1. Far(reader') = Far(reader) BY DEF Far
<1>2. Pending' = Pending BY DEF Pending
<1> QED BY <1>1, <1>2, NowFacts DEF Room

\* ... and after one that does not move the reader.
LEMMA RoomSame ==
    ASSUME RoomInv, Up, UNCHANGED <<fdin, fdout, kbdtags, mousetags, out, reader>>
    PROVE  Room'
BY DEF RoomInv, Room, Pending

\* The reader looks at fdout and reads only if there is room.
LEMMA CheckRoom == ASSUME RoomInv, Up, Check PROVE status' = status /\ Room'
<1>1. /\ reader = "check" /\ UNCHANGED <<status, fdin, fdout, kbdtags, mousetags, out>>
      /\ reader' = IF Len(fdout) > MAXWMSG THEN "notew" ELSE "reading"
  BY DEF Check, ReaderUnchanged, TooMuch
<1>2. Pending' = Pending BY <1>1 DEF Pending
<1>3. fdin = <<>> BY <1>1 DEF RoomInv, Room
<1>4. MAXWMSG \in Nat /\ Window \in Nat BY Sizes
<1>5. Len(fdout) + Weight(Pending, out) <= Far(reader')
  <2>1. CASE Len(fdout) > MAXWMSG
    <3>1. Far(reader') = Far(reader) BY <1>1, <2>1 DEF Far
    <3> QED BY <3>1, NowFacts
  <2>2. CASE ~(Len(fdout) > MAXWMSG)
    <3>1. Far(reader') = MAXWMSG + Window BY <1>1, <2>2 DEF Far
    <3>2. Len(fdout) \in Nat /\ Weight(Pending, out) \in Nat /\ Weight(Pending, out) <= Window BY NowFacts
    <3> QED BY <1>4, <2>2, <3>1, <3>2
  <2> QED BY <2>1, <2>2
<1> QED BY <1>1, <1>2, <1>3, <1>5 DEF Room

\* It reads no more than the client waits for.
LEMMA ReadRoom ==
    ASSUME RoomInv, Up, NEW k \in 0..Len(pipe), ioread(k), AnswerInv'
    PROVE  status' = status /\ Room'
<1>1. /\ reader = "reading" /\ reader' = "run" /\ UNCHANGED <<status, fdout, kbdtags, mousetags, out>>
  BY DEF ioread, ReaderUnchanged
<1>2. Up' /\ Limited(out') BY <1>1 DEF Up, RoomInv
<1>3. Placed(fdin' \o pipe', fdout', SentTo', kbdtags', "rdkbd", mousetags', "rdmouse", out')
  BY <1>2 DEF AnswerInv, AllPlaced, Ms
<1>4. fdin' \in Seq(Messages) /\ pipe' \in Seq(Messages) /\ out' \in [Tags -> Reads \cup Sync \cup {"free"}]
  BY DEF AnswerInv, Typed, Queues
<1>5. Weight(PendOf(fdin', kbdtags', mousetags'), out') <= Window
      /\ Weight(PendOf(fdin', kbdtags', mousetags'), out') \in Nat
  BY <1>2, <1>3, <1>4, PendLight
<1>6. Len(fdout) \in Nat /\ Len(fdout) <= MAXWMSG + Window
  <2>1. Far(reader) = MAXWMSG + Window BY <1>1 DEF Far
  <2> QED BY <2>1, NowFacts, Sizes
<1>7. Far(reader') = MAXWMSG + 2 * Window BY <1>1 DEF Far
<1>8. Len(fdout') + Weight(PendOf(fdin', kbdtags', mousetags'), out') <= Far(reader')
  BY <1>1, <1>5, <1>6, <1>7, Sizes
<1> QED BY <1>1, <1>8 DEF Room, Pending

\* Requests that are sent are not pending yet, and those answered no longer.
LEMMA OutRoom ==
    ASSUME RoomInv, Up, UNCHANGED <<fdin, fdout, kbdtags, mousetags, reader>>,
           \A t \in Pending : out'[t] = out[t]
    PROVE  Room'
<1>1. Pending' = Pending BY DEF Pending
<1>2. Weight(Pending, out) = Weight(Pending, out') BY WeightSame
<1> QED BY <1>1, <1>2 DEF RoomInv, Room

\* Every step leaves room for what is pending.
LEMMA StepRoom ==
    ASSUME 2 * Window <= MAXWMSG, MaxReads < Ntags, RoomInv, Up, [Next]_vars, AnswerInv'
    PROVE  status' # "fatal" /\ (Up' => Room')
<1>0. status # "fatal" BY DEF RoomInv
<1>1. CASE UNCHANGED vars BY <1>0, <1>1, RoomSame DEF vars
<1>2. ASSUME NEW ty \in Reads \cup Sync, NEW t \in Tags, Send(ty, t)
      PROVE  status' # "fatal" /\ (Up' => Room')
  <2>1. /\ out[t] = "free" /\ out' = [out EXCEPT ![t] = ty]
        /\ UNCHANGED <<status, fdin, fdout, kbdtags, mousetags, reader>>
    BY <1>2 DEF Send
  <2>2. \A x \in Pending : out'[x] = out[x]
    <3>1. \A x \in Pending : x \in Tags /\ x # t BY <2>1, NowFacts DEF Reads, Sync
    <3>2. out \in [Tags -> Reads \cup Sync \cup {"free"}] BY NowFacts DEF Typed
    <3> QED BY <2>1, <3>1, <3>2
  <2> QED BY <1>0, <2>1, <2>2, OutRoom
<1>3. CASE Check BY <1>0, <1>3, CheckRoom
<1>4. CASE \E k \in 0..Len(pipe) : ioread(k) BY <1>0, <1>4, ReadRoom
<1>5. CASE Eof \/ CloseWindow BY <1>5 DEF Eof, CloseWindow, Up
<1>6. CASE Slide
  <2>1. /\ reader = "run" /\ reader' = "check" /\ fdin = <<>>
        /\ UNCHANGED <<status, fdin, fdout, kbdtags, mousetags, out>>
    BY <1>6 DEF Slide, ReaderUnchanged
  <2>2. Far(reader') = Far(reader) /\ Pending' = Pending BY <2>1 DEF Far, Pending
  <2> QED BY <1>0, <2>1, <2>2, NowFacts DEF Room
<1>7. CASE Trdkbd
  <2>1. reader = "run" /\ reader' = reader /\ fdin' = Tail(fdin) /\ UNCHANGED <<mousetags, out>>
    BY <1>7 DEF Trdkbd, Runs
  <2> QED BY <1>0, <1>7, <2>1, TrdkbdRoom DEF Room, Pending
<1>8. CASE Trdmouse
  <2>1. reader = "run" /\ reader' = reader /\ fdin' = Tail(fdin) /\ UNCHANGED <<kbdtags, out>>
    BY <1>8 DEF Trdmouse, Runs
  <2> QED BY <1>0, <1>8, <2>1, TrdmouseRoom DEF Room, Pending
<1>9. ASSUME NEW ty \in Sync, Tother(ty) PROVE status' # "fatal" /\ (Up' => Room')
  <2>1. /\ reader = "run" /\ reader' = reader /\ fdin # <<>> /\ Head(fdin).type = ty /\ fdin' = Tail(fdin)
        /\ UNCHANGED <<kbdtags, mousetags, out>>
    BY <1>9 DEF Tother, Runs
  <2>2. PICK r \in {ty} \cup (IF ty \in {"rddraw", "wrdraw"} THEN {"error"} ELSE {}) :
          replymsg(Cells(Reply(r, Head(fdin).tag, 0)))
    BY <1>9 DEF Tother
  <2>3. r \in Sync \cup {"error"} /\ ReplySize(r) <= ReplySize(ty) BY <2>2, Sizes DEF ReplySize
  <2>4. /\ status' = status
        /\ Len(fdout') + Weight(PendOf(Tail(fdin), kbdtags, mousetags), out) <= Far(reader)
    BY <2>1, <2>2, <2>3, HeadRoom
  <2> QED BY <1>0, <2>1, <2>4 DEF Room, Pending
<1>10. CASE Tinit \/ mkgscreen
  BY <1>0, <1>10, RoomFrame DEF Tinit, mkgscreen, Runs, AttachUnchanged
<1>11. CASE Attached
  <2>1. /\ reader = "screen" /\ reader' = "run" /\ fdin # <<>> /\ Head(fdin).type = "init" /\ fdin' = Tail(fdin)
        /\ UNCHANGED <<kbdtags, mousetags, out>>
    BY <1>11, NowFacts DEF Attached, AttachUnchanged, RoomInv, AnswerInv, Typed, Queues
  <2>2. replymsg(Cells(Reply("init", Head(fdin).tag, 0))) BY <1>11 DEF Attached
  <2>3. "init" \in Sync \cup {"error"} /\ ReplySize("init") <= ReplySize("init") BY Sizes DEF Sync, ReplySize
  <2>4. /\ status' = status
        /\ Len(fdout') + Weight(PendOf(Tail(fdin), kbdtags, mousetags), out) <= Far(reader)
    BY <2>1, <2>2, <2>3, HeadRoom
  <2>5. Far(reader') = Far(reader) BY <2>1 DEF Far
  <2> QED BY <1>0, <2>1, <2>4, <2>5 DEF Room, Pending
<1>12. CASE iowrite \/ WriteMore
  BY <1>0, <1>12, RoomSame DEF iowrite, WriteMore, WriterUnchanged
<1>13. ASSUME NEW k \in 1..writer.n, Written(k) PROVE status' # "fatal" /\ (Up' => Room')
  <2>1. /\ UNCHANGED <<status, fdin, fdout, kbdtags, mousetags, reader>>
        /\ \A t \in Tags : out'[t] = out[t] \/ out'[t] = "free"
    BY <1>13 DEF Written, WriterUnchanged
  <2>2. Placed(fdin' \o pipe', fdout', SentTo', kbdtags', "rdkbd", mousetags', "rdmouse", out')
    BY <2>1 DEF AnswerInv, AllPlaced, Ms, Up
  <2>3. fdin' \in Seq(Messages) /\ pipe' \in Seq(Messages) /\ out' \in [Tags -> Reads \cup Sync \cup {"free"}]
    BY DEF AnswerInv, Typed, Queues
  <2>4. \A t \in PendOf(fdin', kbdtags', mousetags') : t \in Tags /\ out'[t] \in Reads \cup Sync
    BY <2>2, <2>3, PendFacts
  <2>5. \A t \in Pending : out'[t] = out[t] BY <2>1, <2>4 DEF Pending, Reads, Sync
  <2> QED BY <1>0, <2>1, <2>5, OutRoom
<1>14. CASE WaitMore
  <2>1. /\ fdout' = <<>> /\ UNCHANGED <<status, fdin, kbdtags, mousetags, out>>
        /\ reader' = reader \/ (reader = "notew" /\ reader' = "check")
    BY <1>14 DEF WaitMore, Noted, WriterUnchanged
  <2>2. Far(reader') = Far(reader) /\ Pending' = Pending BY <2>1 DEF Far, Pending
  <2>3. Len(fdout') = 0 /\ Len(fdout) \in Nat /\ Weight(Pending, out) \in Nat BY <2>1, NowFacts
  <2>4. Far(reader) \in Nat BY Sizes DEF Far
  <2>5. Len(fdout') + Weight(Pending', out') <= Far(reader') BY <2>1, <2>2, <2>3, <2>4, NowFacts
  <2> QED BY <1>0, <2>1, <2>5 DEF Room, RoomInv
<1>15. CASE kbdthread \/ mousethread
  <2>1. UNCHANGED <<fdin, out, reader>> BY <1>15 DEF kbdthread, mousethread
  <2> QED BY <1>0, <1>15, <2>1, ThreadsRoom DEF Room, Pending, RoomInv
<1>16. CASE \/ CreateWindow \/ ShowWindow \/ Shown \/ (\E k \in Keys : kbdputc(k)) \/ MouseMove
            \/ WindowSize \/ SizeSent
  BY <1>0, <1>16, RoomSame DEF CreateWindow, ShowWindow, ScreenIsThere, Shown, kbdputc, MouseMove, WindowSize,
     SizeSent, WinUnchanged
<1> QED
  BY <1>1, <1>2, <1>3, <1>4, <1>5, <1>6, <1>7, <1>8, <1>9, <1>10, <1>11, <1>12, <1>13, <1>14, <1>15,
     <1>16, Steps

\* A client that waits for at most half a message's worth of replies, and for
\* fewer reads than a ring of tags has places, never meets a fatal error of
\* the server, although the threads of the events reply without a look at
\* the room in fdout.
THEOREM NoFatalCorrect ==
    ASSUME 2 * Window <= MAXWMSG, MaxReads < Ntags
    PROVE  Spec => []NoFatal
<1>1. RoomInv /\ [Next]_vars => RoomInv'
  <2> SUFFICES ASSUME RoomInv, [Next]_vars PROVE RoomInv'
    OBVIOUS
  <2>1. AnswerInv' BY StepTyped, StepPlaced, StepHead DEF AnswerInv, RoomInv
  <2>2. Limited(out') BY StepLimited DEF RoomInv, AnswerInv
  <2>3. CASE Up BY <2>1, <2>2, <2>3, StepRoom DEF RoomInv
  <2>4. CASE ~Up
    <3>1. UNCHANGED vars BY <2>4 DEF Next, Up
    <3>2. status' = status BY <3>1 DEF vars
    <3> QED BY <2>1, <2>2, <2>4, <3>2 DEF RoomInv, Up
  <2> QED BY <2>3, <2>4
<1>2. RoomInv => NoFatal BY DEF RoomInv, NoFatal
<1> QED BY <1>1, <1>2, InitRoom, PTL DEF Spec
=============================================================================
