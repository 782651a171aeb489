-------------------------- MODULE Programs_proofs --------------------------
(***************************************************************************)
(* Proofs about the programs samterm, mv and cp, srv, partfs and rc, the  *)
(* client side of libdraw, and the spawning of processes: for buffers,    *)
(* files, dialogues, threads, tables, pipelines and calls of any size.    *)
(***************************************************************************)
EXTENDS Samterm, MvCp, Srv, DrawClient, Partfs, Rc, Spawn,
        SequenceTheorems, FiniteSetTheorems, NaturalsInduction,
        WellFoundedInduction, TLAPS

-----------------------------------------------------------------------------
(* samterm: the two buffers of a proc.                                    *)

\* Every variable has its type; there is one proc for the plumb buffers.
SamtermTypeOK ==
    /\ sbuf \in [Bufs -> [0..1 -> Nat]] /\ turn \in [Procs -> {0, 1}]
    /\ spc \in [Procs -> {"off", "read", "send", "exited"}]
    /\ inuse \in [Bufs -> {-1, 0, 1}] /\ nmsg \in [Bufs -> Nat]
    /\ taken \in [Bufs -> Seq(Nat)] /\ touched \in Nat
    /\ spc["extproc"] = "off" \/ spc["plumbproc"] = "off"

\* The buffer in use holds the message that was received last, unless
\* extproc() has lost a connection.
LastTaken ==
    \A b \in Bufs : inuse[b] # -1 =>
        /\ taken[b] # << >>
        /\ sbuf[b][inuse[b]] = taken[b][Len(taken[b])] \/ (b = "plumb" /\ spc["extproc"] # "off" /\ gap)

\* hostproc() and extproc() change the buffer before a read: at a read their
\* buffer is the one in use, at a send the other.
TogglesBefore(p) ==
    inuse[BufOf[p]] # -1 =>
        /\ spc[p] = "read" => turn[p] = inuse[BufOf[p]]
        /\ spc[p] = "send" => turn[p] # inuse[BufOf[p]]

\* plumbproc() changes it after a send: its buffer is never the one in use.
TogglesAfter(p) ==
    spc[p] \in {"read", "send"} /\ inuse[BufOf[p]] # -1 => turn[p] # inuse[BufOf[p]]

SamtermIInv == /\ SamtermTypeOK /\ LastTaken /\ TogglesBefore("hostproc")
               /\ TogglesBefore("extproc") \/ gap
               /\ TogglesAfter("plumbproc") /\ PlumbFits

\* plumbformat() writes no more than the buffer holds: the address is put
\* behind the data only if there is room for it and the closing zero.
LEMMA PlumbformatFits ==
  ASSUME NEW m \in PlumbMsgs
  PROVE  plumbformat(m)[2] \in Nat /\ plumbformat(m)[2] <= READBUFSIZE
<1>1. m.ndata \in Nat /\ m.addr \in Int
  BY PlumbAssumption
<1> QED BY <1>1, SizeAssumption DEF plumbformat, RoomForAddr

\* Toggling gives the other buffer.
LEMMA ToggledIsOther ==
  ASSUME SamtermTypeOK, NEW p \in Procs
  PROVE  Toggled(p) \in {0, 1} /\ Toggled(p) # turn[p]
<1>1. turn[p] = 0 \/ turn[p] = 1
  BY DEF SamtermTypeOK
<1> QED BY <1>1 DEF Toggled

\* A proc that reads changes one of its two buffers.
LEMMA FillsOne ==
  ASSUME SamtermTypeOK, NEW p \in Procs, NEW k \in {0, 1}, Fills(p, k), spc[p] = "read"
  PROVE  /\ nmsg' \in [Bufs -> Nat] /\ sbuf' \in [Bufs -> [0..1 -> Nat]]
         /\ turn' = [turn EXCEPT ![p] = k] /\ turn' \in [Procs -> {0, 1}]
         /\ spc' = [spc EXCEPT ![p] = "send"]
         /\ spc' \in [Procs -> {"off", "read", "send", "exited"}]
         /\ \A b \in Bufs, j \in {0, 1} : b # BufOf[p] \/ j # k => sbuf'[b][j] = sbuf[b][j]
<1>1. BufOf[p] \in Bufs
  BY DEF BufOf, Bufs, Procs
<1>2. nmsg' \in [Bufs -> Nat]
  BY <1>1 DEF SamtermTypeOK, Fills
<1>3. sbuf' = [sbuf EXCEPT ![BufOf[p]] = [@ EXCEPT ![k] = nmsg'[BufOf[p]]]]
  BY DEF Fills
<1>4. sbuf' \in [Bufs -> [0..1 -> Nat]]
  BY <1>1, <1>2, <1>3 DEF SamtermTypeOK
<1>5. \A b \in Bufs, j \in {0, 1} : b # BufOf[p] \/ j # k => sbuf'[b][j] = sbuf[b][j]
  BY <1>1, <1>3 DEF SamtermTypeOK
<1> QED BY <1>2, <1>4, <1>5 DEF SamtermTypeOK, Fills

\* The initial states satisfy the invariant.
LEMMA SamtermInitInv == SamtermInit => SamtermIInv
<1> SUFFICES ASSUME SamtermInit PROVE SamtermIInv
  OBVIOUS
<1>1. SamtermTypeOK
  <2>1. taken \in [Bufs -> Seq(Nat)]
    <3>1. << >> \in Seq(Nat)
      OBVIOUS
    <3>2. taken = [b \in Bufs |-> << >>]
      BY DEF SamtermInit
    <3> QED BY <3>1, <3>2, Zenon
  <2>2. sbuf \in [Bufs -> [0..1 -> Nat]]
    BY DEF SamtermInit
  <2>3. spc \in [Procs -> {"off", "read", "send", "exited"}]
        /\ (spc["extproc"] = "off" \/ spc["plumbproc"] = "off")
    BY DEF SamtermInit, Procs
  <2> QED BY <2>1, <2>2, <2>3 DEF SamtermInit, SamtermTypeOK
<1>2. LastTaken /\ PlumbFits
  <2>1. \A b \in Bufs : inuse[b] = -1
    BY DEF SamtermInit
  <2>2. 0 <= READBUFSIZE
    BY SizeAssumption
  <2> QED BY <2>1, <2>2 DEF SamtermInit, LastTaken, PlumbFits
<1>3. TogglesBefore("hostproc") /\ TogglesBefore("extproc") /\ TogglesAfter("plumbproc")
  BY DEF SamtermInit, TogglesBefore, TogglesAfter, Bufs, Procs, BufOf
<1> QED BY <1>1, <1>2, <1>3 DEF SamtermIInv

\* A step that sends nothing and leaves the buffers and their users alone.
LEMMA SamtermQuiet ==
  ASSUME SamtermIInv, UNCHANGED <<sbuf, turn, inuse, nmsg, taken, gap, touched>>,
         spc' \in [Procs -> {"off", "read", "send", "exited"}],
         \A p \in Procs : spc'[p] = spc[p] \/ (spc'[p] = "exited" /\ spc[p] = "read")
  PROVE  SamtermIInv'
<1>1. SamtermTypeOK' /\ LastTaken' /\ PlumbFits'
  BY DEF SamtermIInv, SamtermTypeOK, LastTaken, PlumbFits, Procs
<1>2. (TogglesBefore("extproc") \/ gap)'
  BY DEF SamtermIInv, TogglesBefore, Procs
<1>3. TogglesBefore("hostproc")' /\ TogglesAfter("plumbproc")'
  BY DEF SamtermIInv, TogglesBefore, TogglesAfter, Procs
<1> QED BY <1>1, <1>2, <1>3 DEF SamtermIInv

\* Every step keeps it.
LEMMA SamtermStepInv == SamtermIInv /\ [SamtermNext]_stvars => SamtermIInv'
<1> SUFFICES ASSUME SamtermIInv, [SamtermNext]_stvars PROVE SamtermIInv'
  OBVIOUS
<1>0. SamtermTypeOK
  BY DEF SamtermIInv
<1>a. /\ "hostproc" \in Procs /\ "extproc" \in Procs /\ "plumbproc" \in Procs
      /\ BufOf["hostproc"] = "host" /\ BufOf["extproc"] = "plumb" /\ BufOf["plumbproc"] = "plumb"
  BY DEF Procs, BufOf
<1>1. CASE HostRead
  <2>1. spc["hostproc"] = "read" /\ Fills("hostproc", Toggled("hostproc")) /\ Toggled("hostproc") \in {0, 1} /\ Toggled("hostproc") # turn["hostproc"]
    BY <1>1, <1>0, <1>a, ToggledIsOther DEF HostRead, Running
  <2>2. /\ nmsg' \in [Bufs -> Nat] /\ sbuf' \in [Bufs -> [0..1 -> Nat]]
        /\ turn' = [turn EXCEPT !["hostproc"] = Toggled("hostproc")] /\ turn' \in [Procs -> {0, 1}]
        /\ spc' = [spc EXCEPT !["hostproc"] = "send"]
        /\ spc' \in [Procs -> {"off", "read", "send", "exited"}]
        /\ \A b \in Bufs, j \in {0, 1} :
              b # BufOf["hostproc"] \/ j # Toggled("hostproc") => sbuf'[b][j] = sbuf[b][j]
    BY <1>0, <1>a, <2>1, FillsOne
  <2>t. touched' \in Nat /\ PlumbFits'
    BY <1>1, <1>0 DEF HostRead, SamtermIInv, SamtermTypeOK, PlumbFits
  <2>3. UNCHANGED <<inuse, taken, gap>>
    BY <1>1 DEF HostRead
  <2>4. SamtermTypeOK'
    BY <1>0, <1>a, <2>1, <2>2, <2>3, <2>t DEF SamtermTypeOK
  <2>5. LastTaken'
    <3>1. ASSUME NEW b \in Bufs, inuse[b] # -1
          PROVE  sbuf'[b][inuse[b]] = sbuf[b][inuse[b]] \/ (b = "plumb" /\ spc["extproc"] # "off" /\ gap)
      <4>1. inuse[b] \in {0, 1}
        BY <1>0, <3>1 DEF SamtermTypeOK
      <4>2. CASE b = BufOf["hostproc"] /\ TogglesBefore("hostproc")
        BY <1>a, <2>1, <2>2, <3>1, <4>1, <4>2 DEF TogglesBefore
      <4>3. CASE b # BufOf["hostproc"]
        BY <2>2, <4>1, <4>3
      <4> QED BY <1>a, <2>1, <4>2, <4>3 DEF SamtermIInv
    <3>2. spc'["extproc"] # "off" <=> spc["extproc"] # "off"
      BY <1>0, <1>a, <2>1, <2>2 DEF SamtermTypeOK
    <3> QED BY <2>3, <3>1, <3>2 DEF SamtermIInv, LastTaken
  <2>6. TogglesBefore("hostproc")' /\ TogglesAfter("plumbproc")'
    BY <1>0, <1>a, <2>1, <2>2, <2>3 DEF SamtermIInv, SamtermTypeOK, TogglesBefore, TogglesAfter
  <2>7. (TogglesBefore("extproc") \/ gap)'
    BY <1>0, <1>a, <2>1, <2>2, <2>3 DEF SamtermIInv, SamtermTypeOK, TogglesBefore
  <2> QED BY <2>t, <2>4, <2>5, <2>6, <2>7 DEF SamtermIInv
<1>2. CASE ExtRead
  <2>1. spc["extproc"] = "read" /\ Fills("extproc", Toggled("extproc")) /\ Toggled("extproc") \in {0, 1} /\ Toggled("extproc") # turn["extproc"]
    BY <1>2, <1>0, <1>a, ToggledIsOther DEF ExtRead, Running
  <2>2. /\ nmsg' \in [Bufs -> Nat] /\ sbuf' \in [Bufs -> [0..1 -> Nat]]
        /\ turn' = [turn EXCEPT !["extproc"] = Toggled("extproc")] /\ turn' \in [Procs -> {0, 1}]
        /\ spc' = [spc EXCEPT !["extproc"] = "send"]
        /\ spc' \in [Procs -> {"off", "read", "send", "exited"}]
        /\ \A b \in Bufs, j \in {0, 1} :
              b # BufOf["extproc"] \/ j # Toggled("extproc") => sbuf'[b][j] = sbuf[b][j]
    BY <1>0, <1>a, <2>1, FillsOne
  <2>t. touched' \in Nat /\ PlumbFits'
    BY <1>2, <1>0 DEF ExtRead, SamtermIInv, SamtermTypeOK, PlumbFits
  <2>3. UNCHANGED <<inuse, taken, gap>>
    BY <1>2 DEF ExtRead
  <2>4. SamtermTypeOK'
    BY <1>0, <1>a, <2>1, <2>2, <2>3, <2>t DEF SamtermTypeOK
  <2>5. LastTaken'
    <3>1. ASSUME NEW b \in Bufs, inuse[b] # -1
          PROVE  sbuf'[b][inuse[b]] = sbuf[b][inuse[b]] \/ (b = "plumb" /\ spc["extproc"] # "off" /\ gap)
      <4>1. inuse[b] \in {0, 1}
        BY <1>0, <3>1 DEF SamtermTypeOK
      <4>2. CASE b = BufOf["extproc"] /\ TogglesBefore("extproc")
        BY <1>a, <2>1, <2>2, <3>1, <4>1, <4>2 DEF TogglesBefore
      <4>3. CASE b # BufOf["extproc"]
        BY <2>2, <4>1, <4>3
      <4> QED BY <1>a, <2>1, <4>2, <4>3 DEF SamtermIInv
    <3>2. spc'["extproc"] # "off" <=> spc["extproc"] # "off"
      BY <1>0, <1>a, <2>1, <2>2 DEF SamtermTypeOK
    <3> QED BY <2>3, <3>1, <3>2 DEF SamtermIInv, LastTaken
  <2>6. TogglesBefore("hostproc")' /\ TogglesAfter("plumbproc")'
    BY <1>0, <1>a, <2>1, <2>2, <2>3 DEF SamtermIInv, SamtermTypeOK, TogglesBefore, TogglesAfter
  <2>7. (TogglesBefore("extproc") \/ gap)'
    BY <1>0, <1>a, <2>1, <2>2, <2>3 DEF SamtermIInv, SamtermTypeOK, TogglesBefore
  <2> QED BY <2>t, <2>4, <2>5, <2>6, <2>7 DEF SamtermIInv
<1>3. CASE PlumbRecv
  <2> DEFINE k == turn["plumbproc"]
  <2>0. PICK m \in PlumbMsgs :
            IF plumbformat(m)[1] > 0
            THEN Fills("plumbproc", k) /\ touched' = plumbformat(m)[2]
            ELSE UNCHANGED <<sbuf, turn, spc, nmsg, touched>>
    BY <1>3 DEF PlumbRecv
  <2>3. UNCHANGED <<inuse, taken, gap>> /\ spc["plumbproc"] = "read" /\ k \in {0, 1}
    BY <1>3, <1>0, <1>a DEF PlumbRecv, Running, SamtermTypeOK
  <2>t. touched' \in Nat /\ PlumbFits'
    BY <1>0, <2>0, PlumbformatFits DEF SamtermIInv, SamtermTypeOK, PlumbFits
  <2>4. CASE UNCHANGED <<sbuf, turn, spc, nmsg, touched>>
    <3>1. spc' \in [Procs -> {"off", "read", "send", "exited"}]
      BY <1>0, <2>4 DEF SamtermTypeOK
    <3> QED BY <2>3, <2>4, <3>1, SamtermQuiet
  <2>5. CASE Fills("plumbproc", k)
    <3>2. /\ nmsg' \in [Bufs -> Nat] /\ sbuf' \in [Bufs -> [0..1 -> Nat]]
          /\ turn' = [turn EXCEPT !["plumbproc"] = k] /\ turn' \in [Procs -> {0, 1}]
          /\ spc' = [spc EXCEPT !["plumbproc"] = "send"]
          /\ spc' \in [Procs -> {"off", "read", "send", "exited"}]
          /\ \A b \in Bufs, j \in {0, 1} :
                b # BufOf["plumbproc"] \/ j # k => sbuf'[b][j] = sbuf[b][j]
      BY <1>0, <1>a, <2>3, <2>5, FillsOne
    <3>3. spc["extproc"] = "off" /\ spc'["extproc"] = "off"
      BY <1>0, <1>a, <2>3, <3>2 DEF SamtermTypeOK
    <3>4. SamtermTypeOK'
      BY <1>0, <2>3, <2>t, <3>2, <3>3 DEF SamtermTypeOK
    <3>5. LastTaken'
      <4>1. ASSUME NEW b \in Bufs, inuse[b] # -1 PROVE sbuf'[b][inuse[b]] = sbuf[b][inuse[b]]
        <5>1. inuse[b] \in {0, 1}
          BY <1>0, <4>1 DEF SamtermTypeOK
        <5>2. b = BufOf["plumbproc"] => inuse[b] # k
          BY <2>3, <4>1 DEF SamtermIInv, TogglesAfter
        <5> QED BY <3>2, <5>1, <5>2
      <4> QED BY <2>3, <3>3, <4>1 DEF SamtermIInv, LastTaken
    <3>6. TogglesBefore("hostproc")' /\ TogglesBefore("extproc")'
      BY <1>0, <1>a, <2>3, <3>2, <3>3 DEF SamtermIInv, SamtermTypeOK, TogglesBefore
    <3>7. TogglesAfter("plumbproc")'
      BY <1>0, <1>a, <2>3, <3>2 DEF SamtermIInv, SamtermTypeOK, TogglesAfter
    <3> QED BY <2>t, <3>4, <3>5, <3>6, <3>7 DEF SamtermIInv
  <2> QED BY <2>0, <2>4, <2>5
<1>4. CASE HostEnd \/ ExtListen \/ PlumbError \/ UserExits
  <2>1. UNCHANGED <<sbuf, turn, inuse, nmsg, taken, gap, touched>>
    BY <1>4 DEF HostEnd, ExtListen, PlumbError, UserExits
  <2>2. /\ spc' \in [Procs -> {"off", "read", "send", "exited"}]
        /\ \A p \in Procs : spc'[p] = spc[p] \/ (spc'[p] = "exited" /\ spc[p] = "read")
    BY <1>0, <1>a, <1>4 DEF HostEnd, ExtListen, PlumbError, UserExits, Running, SamtermTypeOK
  <2> QED BY <2>1, <2>2, SamtermQuiet
<1>5. CASE ExtEof
  <2>1. UNCHANGED <<sbuf, spc, inuse, nmsg, taken, touched>> /\ gap' = TRUE
    BY <1>5 DEF ExtEof
  <2>2. turn' = [turn EXCEPT !["extproc"] = Toggled("extproc")] /\ Toggled("extproc") \in {0, 1}
    BY <1>0, <1>5, <1>a, ToggledIsOther DEF ExtEof
  <2>3. gap' /\ SamtermTypeOK'
    BY <1>0, <2>1, <2>2 DEF SamtermTypeOK
  <2>4. LastTaken' /\ PlumbFits'
    BY <2>1 DEF SamtermIInv, LastTaken, PlumbFits
  <2>5. TogglesBefore("hostproc")' /\ TogglesAfter("plumbproc")'
    BY <1>0, <1>a, <2>1, <2>2 DEF SamtermIInv, SamtermTypeOK, TogglesBefore, TogglesAfter
  <2> QED BY <2>3, <2>4, <2>5 DEF SamtermIInv
<1>6. ASSUME NEW p \in Procs, Receive(p) PROVE SamtermIInv'
  <2> DEFINE b == BufOf[p]
  <2>1. b \in Bufs /\ spc[p] = "send" /\ turn[p] \in {0, 1} /\ sbuf[b][turn[p]] \in Nat
    <3>1. b \in Bufs
      BY DEF BufOf, Bufs, Procs
    <3>2. spc[p] = "send"
      BY <1>6 DEF Receive, Running
    <3>3. turn[p] \in {0, 1} /\ sbuf[b] \in [0..1 -> Nat]
      BY <1>0, <3>1 DEF SamtermTypeOK
    <3> QED BY <3>1, <3>2, <3>3
  <2>2. /\ inuse' = [inuse EXCEPT ![b] = turn[p]]
        /\ taken' = [taken EXCEPT ![b] = Append(@, sbuf[b][turn[p]])]
        /\ spc' = [spc EXCEPT ![p] = "read"]
        /\ UNCHANGED <<sbuf, nmsg, touched>>
    BY <1>6 DEF Receive
  <2>3. turn' = IF p = "plumbproc" THEN [turn EXCEPT ![p] = Toggled(p)] ELSE turn
    BY <1>6 DEF Receive
  <2>4. Toggled(p) \in {0, 1} /\ Toggled(p) # turn[p]
    BY <1>0, ToggledIsOther
  <2>5. gap' <=> gap /\ b = "host"
    BY <1>6, Zenon DEF Receive
  <2>6. taken'[b] = Append(taken[b], sbuf[b][turn[p]]) /\ taken[b] \in Seq(Nat)
    BY <1>0, <2>1, <2>2 DEF SamtermTypeOK
  <2>7. taken' \in [Bufs -> Seq(Nat)] /\ taken'[b] # << >>
        /\ taken'[b][Len(taken'[b])] = sbuf[b][turn[p]]
    <3>1. ASSUME NEW q \in Seq(Nat), NEW x \in Nat
          PROVE  /\ Append(q, x) \in Seq(Nat) /\ Append(q, x) # << >>
                 /\ Append(q, x)[Len(Append(q, x))] = x
      OBVIOUS
    <3>2. /\ Append(taken[b], sbuf[b][turn[p]]) \in Seq(Nat)
          /\ taken'[b] # << >> /\ taken'[b][Len(taken'[b])] = sbuf[b][turn[p]]
      <4> DEFINE q == taken[b]
                 x == sbuf[b][turn[p]]
      <4>1. q \in Seq(Nat) /\ x \in Nat
        BY <2>1, <2>6
      <4> HIDE DEF q, x
      <4>2. /\ Append(q, x) \in Seq(Nat) /\ Append(q, x) # << >>
            /\ Append(q, x)[Len(Append(q, x))] = x
        BY <3>1, <4>1
      <4> QED BY <2>6, <4>2 DEF q, x
    <3>3. taken' \in [Bufs -> Seq(Nat)]
      BY <1>0, <2>1, <2>2, <3>2 DEF SamtermTypeOK
    <3> QED BY <3>2, <3>3
  <2>8. SamtermTypeOK'
    BY <1>0, <1>a, <2>1, <2>2, <2>3, <2>4, <2>7 DEF SamtermTypeOK
  <2>9. LastTaken'
    <3>1. ASSUME NEW c \in Bufs, c # b PROVE inuse'[c] = inuse[c] /\ taken'[c] = taken[c]
      BY <1>0, <2>1, <2>2, <3>1 DEF SamtermTypeOK
    <3>2. \A c \in Bufs : c # b /\ c = "plumb" => b = "host"
      BY <2>1 DEF Bufs
    <3>3. spc'["extproc"] # "off" <=> spc["extproc"] # "off"
      BY <1>0, <1>a, <2>1, <2>2 DEF SamtermTypeOK
    <3>4. inuse'[b] = turn[p]
      BY <1>0, <2>1, <2>2 DEF SamtermTypeOK
    <3>5. ASSUME NEW c \in Bufs, c # b, inuse'[c] # -1
          PROVE  /\ taken'[c] # << >>
                 /\ \/ sbuf'[c][inuse'[c]] = taken'[c][Len(taken'[c])]
                    \/ c = "plumb" /\ spc'["extproc"] # "off" /\ gap'
      BY <2>2, <2>5, <3>1, <3>2, <3>3, <3>5 DEF SamtermIInv, LastTaken
    <3>6. taken'[b] # << >> /\ sbuf'[b][inuse'[b]] = taken'[b][Len(taken'[b])]
      BY <2>2, <2>7, <3>4
    <3> QED BY <3>5, <3>6 DEF LastTaken
  <2>10. TogglesBefore("hostproc")'
    BY <1>0, <1>a, <2>1, <2>2, <2>3 DEF SamtermIInv, SamtermTypeOK, TogglesBefore, Procs
  <2>11. TogglesAfter("plumbproc")'
    BY <1>0, <1>a, <2>1, <2>2, <2>3, <2>4 DEF SamtermIInv, SamtermTypeOK, TogglesAfter, Procs
  <2>12. (TogglesBefore("extproc") \/ gap)'
    <3>1. CASE p = "extproc"
      BY <1>0, <1>a, <2>1, <2>2, <2>3, <3>1 DEF SamtermTypeOK, TogglesBefore
    <3>2. CASE p = "plumbproc"
      <4>1. spc["extproc"] = "off" /\ spc'["extproc"] = "off"
        BY <1>0, <1>a, <2>1, <2>2, <3>2 DEF SamtermTypeOK
      <4> QED BY <4>1 DEF TogglesBefore
    <3>3. CASE p = "hostproc"
      <4>1. /\ spc'["extproc"] = spc["extproc"] /\ inuse'["plumb"] = inuse["plumb"]
            /\ turn' = turn /\ (gap' <=> gap)
        BY <1>0, <1>a, <2>1, <2>2, <2>3, <2>5, <3>3 DEF SamtermTypeOK, Bufs
      <4> QED BY <1>a, <4>1 DEF SamtermIInv, TogglesBefore
    <3> QED BY <3>1, <3>2, <3>3 DEF Procs
  <2>13. PlumbFits'
    BY <2>2 DEF SamtermIInv, PlumbFits
  <2> QED BY <2>8, <2>9, <2>10, <2>11, <2>12, <2>13 DEF SamtermIInv
<1>7. ASSUME NEW b \in Bufs, UsedUp(b) PROVE SamtermIInv'
  <2>1. inuse' = [inuse EXCEPT ![b] = -1] /\ UNCHANGED <<sbuf, turn, spc, nmsg, taken, gap, touched>>
    BY <1>7 DEF UsedUp
  <2>2. \A c \in Bufs : inuse'[c] # -1 => inuse'[c] = inuse[c]
    BY <1>0, <2>1 DEF SamtermTypeOK
  <2>3. SamtermTypeOK' /\ PlumbFits'
    BY <1>0, <2>1 DEF SamtermIInv, SamtermTypeOK, PlumbFits
  <2>4. LastTaken'
    BY <2>1, <2>2 DEF SamtermIInv, LastTaken
  <2>5. TogglesBefore("hostproc")' /\ TogglesAfter("plumbproc")'
    BY <1>a, <2>1, <2>2 DEF SamtermIInv, TogglesBefore, TogglesAfter, Bufs
  <2>6. (TogglesBefore("extproc") \/ gap)'
    BY <1>a, <2>1, <2>2 DEF SamtermIInv, TogglesBefore, Bufs
  <2> QED BY <2>3, <2>4, <2>5, <2>6 DEF SamtermIInv
<1>8. CASE UNCHANGED stvars
  BY <1>0, <1>8, SamtermQuiet DEF stvars, SamtermTypeOK
<1> QED BY <1>1, <1>2, <1>3, <1>4, <1>5, <1>6, <1>7, <1>8 DEF SamtermNext

\* The inductive invariant holds in every state of every behaviour.
THEOREM SamtermInvariance == SamtermSpec => []SamtermIInv
BY SamtermInitInv, SamtermStepInv, PTL DEF SamtermSpec

\* However the procs of samterm and its main thread take turns, no proc reads
\* into the buffer that the main thread is using, extproc() after the end of
\* a connection aside; and plumbformat() stays within its buffer.
THEOREM SamtermCorrect == SamtermSpec => []BuffersOK
<1>1. SamtermIInv => BuffersOK
  BY DEF SamtermIInv, BuffersOK, BufferStays, LastTaken
<1> QED BY <1>1, SamtermInvariance, PTL

-----------------------------------------------------------------------------
(* srv: the proxy between factotum and the server.                        *)

Dealings == Seq([is : {"tell", "ask"}, k : Nat])
SrvPlaces == {"dial", "version", "auth", "start", "read", "write", "xread", "post", "wait", "done",
              "fatal"}

\* Every variable has its type.
SrvTypeOK ==
    /\ srvpc \in SrvPlaces /\ doauth \in {-1, 0, 1}
    /\ abuf \in Seq(Nat) /\ fgot \in Seq(Nat) /\ todo \in Dealings
    /\ need \in Nat /\ sent \in Nat /\ told \in Nat /\ ntold \in Nat

\* factotum has the first bytes that the server sent, and while it is asking,
\* the buffer has those that follow, and not more than it asks for.
BytesInOrder ==
    /\ \A j \in 1..Len(fgot) : fgot[j] = j
    /\ srvpc \notin {"write", "xread", "fatal"} => sent = Len(fgot)
    /\ srvpc \in {"write", "xread"} =>
          /\ todo # << >> /\ Len(abuf) <= Head(todo).k
          /\ sent = Len(fgot) + Len(abuf)
          /\ \A j \in 1..Len(abuf) : abuf[j] = Len(fgot) + j

\* What is asked for fits into the buffer.
AsksWithin ==
    /\ Len(abuf) <= AuthRpcMax
    /\ srvpc = "xread" => need > Len(abuf) /\ need <= Head(todo).k /\ need <= AuthRpcMax

\* The server has what factotum had for it, and a connection is about to be
\* posted only when factotum has come to the end.
ToldAll ==
    /\ srvpc # "fatal" => told = ntold
    /\ srvpc \in {"post", "wait", "done"} /\ doauth = 1 /\ ~noafid => todo = << >>

SrvIInv == SrvTypeOK /\ BytesInOrder /\ AsksWithin /\ ToldAll

\* A message of the server is a sequence of bytes.
LEMMA SrvBytesSeq ==
  ASSUME NEW start \in Nat, NEW n \in Nat
  PROVE  /\ SrvBytes(start, n) \in Seq(Nat) /\ Len(SrvBytes(start, n)) = n
         /\ \A j \in 1..n : SrvBytes(start, n)[j] = start + j
BY DEF SrvBytes

\* The next step of a dialogue, and what is left of it.
LEMMA DealingsSeq ==
  ASSUME NEW d \in Dealings, d # << >>
  PROVE  Head(d).k \in Nat /\ Tail(d) \in Dealings
<1>1. Head(d) \in [is : {"tell", "ask"}, k : Nat]
  BY HeadTailProperties DEF Dealings
<1>2. Tail(d) \in Dealings
  BY HeadTailProperties DEF Dealings
<1> QED BY <1>1, <1>2

\* The initial states satisfy the invariant.
LEMMA SrvInitInv == SrvInit => SrvIInv
<1> SUFFICES ASSUME SrvInit PROVE SrvIInv
  OBVIOUS
<1>1. SrvTypeOK
  BY DialoguesAssumption DEF SrvInit, SrvTypeOK, SrvPlaces, Dealings
<1>2. BytesInOrder /\ AsksWithin /\ ToldAll
  BY RpcAssumption DEF SrvInit, BytesInOrder, AsksWithin, ToldAll
<1> QED BY <1>1, <1>2 DEF SrvIInv

\* Every step keeps it.
LEMMA SrvStepInv == SrvIInv /\ [SrvNext]_srvvars => SrvIInv'
<1> SUFFICES ASSUME SrvIInv, [SrvNext]_srvvars PROVE SrvIInv'
  OBVIOUS
<1> USE RpcAssumption DEF SrvIInv, SrvTypeOK, SrvPlaces, BytesInOrder, AsksWithin, ToldAll,
            Goto, AuthFails, Peers, PeersOnly, do9p
<1>1. CASE Dial
  BY <1>1 DEF Dial
<1>2. CASE Version
  BY <1>2 DEF Version
<1>3. CASE Auth
  BY <1>3 DEF Auth
<1>4. CASE NeedKey
  BY <1>4 DEF NeedKey
<1>5. CASE RpcFails
  BY <1>5 DEF RpcFails
<1>6. CASE RpcStart
  BY <1>6 DEF RpcStart
<1>7. CASE RpcDone
  BY <1>7 DEF RpcDone
<1>8. CASE Xwrite
  <2>1. SrvTypeOK'
    BY <1>8, DealingsSeq DEF Xwrite
  <2>2. BytesInOrder'
    BY <1>8 DEF Xwrite
  <2>3. AsksWithin'
    BY <1>8 DEF Xwrite
  <2>4. ToldAll'
    BY <1>8 DEF Xwrite
  <2> QED BY <2>1, <2>2, <2>3, <2>4
<1>9. CASE RpcPhase
  <2>1. SrvTypeOK'
    BY <1>9 DEF RpcPhase
  <2>2. BytesInOrder'
    BY <1>9, DealingsSeq DEF RpcPhase
  <2>3. AsksWithin'
    BY <1>9 DEF RpcPhase
  <2>4. ToldAll'
    BY <1>9 DEF RpcPhase
  <2> QED BY <2>1, <2>2, <2>3, <2>4
<1>10. CASE RpcTooSmall
  <2>1. SrvTypeOK'
    BY <1>10 DEF RpcTooSmall, TooLarge
  <2>2. BytesInOrder'
    BY <1>10 DEF RpcTooSmall, TooLarge
  <2>3. AsksWithin'
    BY <1>10 DEF RpcTooSmall, TooLarge
  <2>4. ToldAll'
    BY <1>10 DEF RpcTooSmall, TooLarge
  <2> QED BY <2>1, <2>2, <2>3, <2>4
<1>11. CASE RpcTaken
  <2>1. SrvTypeOK'
    <3>1. todo # << >>
      BY <1>11 DEF RpcTaken
    <3>2. fgot \o abuf \in Seq(Nat)
      BY ConcatProperties
    <3> QED BY <1>11, <3>1, <3>2, DealingsSeq DEF RpcTaken
  <2>2. BytesInOrder'
    BY <1>11 DEF RpcTaken
  <2>3. AsksWithin'
    BY <1>11 DEF RpcTaken
  <2>4. ToldAll'
    BY <1>11 DEF RpcTaken
  <2> QED BY <2>1, <2>2, <2>3, <2>4
<1>12. CASE Xread
  <2>1. PICK reply \in Rmsgs, n \in 0..(need + 1) :
            IF do9p(reply) = "Rerror" \/ n > StillNeeded(need) \/ n = 0
            THEN AuthFails /\ UNCHANGED <<abuf, sent>>
            ELSE /\ Goto("write")
                 /\ sent' = IF reply = "R" THEN sent + n ELSE sent
                 /\ abuf' = abuf \o IF reply = "R" THEN SrvBytes(sent, n) ELSE Others(n)
    BY <1>12 DEF Xread
  <2>2. srvpc = "xread" /\ UNCHANGED <<doauth, noafid, need, todo, nkeys, fgot, told, ntold>>
    BY <1>12 DEF Xread
  <2>3. CASE AuthFails /\ UNCHANGED <<abuf, sent>>
    BY <2>2, <2>3
  <2>4. CASE /\ do9p(reply) = "R" /\ n <= need - Len(abuf) /\ n # 0 /\ reply = "R"
             /\ Goto("write") /\ sent' = sent + n /\ abuf' = abuf \o SrvBytes(sent, n)
    <3>1. n \in Nat /\ sent \in Nat /\ abuf \in Seq(Nat)
      OBVIOUS
    <3>2. /\ abuf' \in Seq(Nat) /\ Len(abuf') = Len(abuf) + n
          /\ \A j \in 1..(Len(abuf) + n) :
                abuf'[j] = IF j <= Len(abuf) THEN abuf[j] ELSE sent + (j - Len(abuf))
      <4> DEFINE w == SrvBytes(sent, n)
      <4>1. w \in Seq(Nat) /\ Len(w) = n /\ \A j \in 1..n : w[j] = sent + j
        BY <3>1, SrvBytesSeq
      <4> HIDE DEF w
      <4>2. /\ abuf \o w \in Seq(Nat) /\ Len(abuf \o w) = Len(abuf) + Len(w)
            /\ \A j \in 1..(Len(abuf) + Len(w)) :
                  (abuf \o w)[j] = IF j <= Len(abuf) THEN abuf[j] ELSE w[j - Len(abuf)]
        BY <3>1, <4>1, ConcatProperties, ZenonT(40)
      <4>3. \A j \in 1..(Len(abuf) + n) : j > Len(abuf) => j - Len(abuf) \in 1..n
        BY <3>1
      <4>4. abuf' = abuf \o w
        BY <2>4 DEF w
      <4> QED BY <4>1, <4>2, <4>3, <4>4
    <3>3. SrvTypeOK'
      BY <2>2, <2>4, <3>2
    <3>4. \A j \in 1..Len(abuf') : abuf'[j] = Len(fgot) + j
      <4>1. \A j \in 1..Len(abuf) : abuf[j] = Len(fgot) + j
        BY <2>2
      <4>2. sent = Len(fgot) + Len(abuf) /\ Len(fgot) \in Nat /\ Len(abuf) \in Nat
        BY <2>2
      <4>3. ASSUME NEW j \in 1..(Len(abuf) + n) PROVE abuf'[j] = Len(fgot) + j
        <5>1. CASE j <= Len(abuf)
          <6>1. j \in 1..Len(abuf)
            BY <3>1, <4>2, <5>1
          <6> QED BY <3>2, <4>1, <5>1, <6>1
        <5>2. CASE ~(j <= Len(abuf))
          <6>1. abuf'[j] = sent + (j - Len(abuf))
            BY <3>2, <5>2
          <6> QED BY <3>1, <4>2, <6>1
        <5> QED BY <5>1, <5>2
      <4> QED BY <3>2, <4>3
    <3>5. todo # << >> /\ Head(todo).k \in Nat
      BY <2>2, DealingsSeq
    <3>6. BytesInOrder' /\ AsksWithin'
      BY SMTT(30), <2>2, <2>4, <3>1, <3>2, <3>4, <3>5
    <3>7. ToldAll'
      BY <2>2, <2>4
    <3> QED BY <3>3, <3>6, <3>7
  <2> QED BY <2>1, <2>3, <2>4 DEF StillNeeded
<1>13. CASE Post
  BY <1>13 DEF Post
<1>14. CASE WaitServe
  BY <1>14 DEF WaitServe
<1>15. CASE UNCHANGED srvvars
  BY <1>15 DEF srvvars
<1> QED BY <1>1, <1>2, <1>3, <1>4, <1>5, <1>6, <1>7, <1>8, <1>9, <1>10, <1>11, <1>12, <1>13, <1>14, <1>15 DEF SrvNext

\* The inductive invariant holds in every state of every behaviour.
THEOREM SrvInvariance == SrvSpec => []SrvIInv
BY SrvInitInv, SrvStepInv, PTL DEF SrvSpec

\* For every dialogue: factotum gets the bytes that the server sent, each
\* once and in order, within the buffer; and after -a a connection is posted
\* only when factotum has come to its end and the server was told everything,
\* or when the server wants no authentication.
THEOREM SrvCorrect == SrvSpec => []PostedRight
<1>1. ASSUME SrvIInv PROVE PostedRight
  <2>1. AuthBeforePost
    BY <1>1 DEF SrvIInv, ToldAll, AuthBeforePost
  <2>2. ServerBytesArrive
    <3> DEFINE kept == fgot \o IF srvpc \in {"write", "xread"} THEN abuf ELSE << >>
    <3>1. \A j \in DOMAIN kept : kept[j] = j
      <4>1. fgot \in Seq(Nat) /\ abuf \in Seq(Nat)
        BY <1>1 DEF SrvIInv, SrvTypeOK
      <4>2. CASE srvpc \in {"write", "xread"}
        <5>1. /\ DOMAIN kept = 1..(Len(fgot) + Len(abuf))
              /\ \A j \in 1..(Len(fgot) + Len(abuf)) :
                    kept[j] = IF j <= Len(fgot) THEN fgot[j] ELSE abuf[j - Len(fgot)]
          BY <4>1, <4>2, ConcatProperties, LenProperties
        <5>2. /\ \A j \in 1..Len(fgot) : fgot[j] = j
              /\ \A j \in 1..Len(abuf) : abuf[j] = Len(fgot) + j
          BY <1>1, <4>2 DEF SrvIInv, BytesInOrder
        <5> HIDE DEF kept
        <5>3. Len(fgot) \in Nat /\ Len(abuf) \in Nat
          BY <4>1
        <5>4. ASSUME NEW j \in 1..(Len(fgot) + Len(abuf)) PROVE kept[j] = j
          <6>1. CASE j <= Len(fgot)
            BY <5>1, <5>2, <5>3, <6>1
          <6>2. CASE ~(j <= Len(fgot))
            <7>1. j - Len(fgot) \in 1..Len(abuf)
              BY <5>3, <6>2
            <7> QED BY <5>1, <5>2, <5>3, <6>2, <7>1
          <6> QED BY <6>1, <6>2
        <5> QED BY <5>1, <5>4
      <4>3. CASE srvpc \notin {"write", "xread"}
        <5>1. kept = fgot
          BY <4>1, <4>3, ConcatEmptySeq
        <5> HIDE DEF kept
        <5> QED BY <1>1, <4>1, <5>1, LenProperties DEF SrvIInv, BytesInOrder
      <4> QED BY <4>2, <4>3
    <3> QED BY <1>1, <3>1 DEF SrvIInv, BytesInOrder, AsksWithin, ServerBytesArrive
  <2> QED BY <2>1, <2>2 DEF PostedRight
<1> QED BY <1>1, SrvInvariance, PTL

-----------------------------------------------------------------------------
(* mv and cp: the source and the target.                                  *)

Block == {Blocks[k] : k \in DOMAIN Blocks} \cup {"old", "part"}
FileSet == [data : Seq(Block), append : BOOLEAN, there : BOOLEAN]
FileNames == {At(m) : m \in Names}
MvPlaces == {"start", "hardremove", "rename", "open", "unappend", "create", "copy", "remove", "end"}
BeforeCopy == {"start", "hardremove", "rename", "open", "unappend", "create"}

\* Every variable has its type; the program is at its end when it has exited.
MvTypeOK ==
    /\ job \in [prog : {"mv", "cp"}, from : Names, to : Names]
    /\ fs \in [FileNames -> FileSet]
    /\ nread \in 0..Len(Blocks)
    /\ jpc \in MvPlaces /\ exited \in {"", "ok", "failed"}
    /\ jpc = "end" <=> exited # ""

\* Once the arguments have been looked at, they are two files; some steps
\* are those of mv only.
PlacesOK ==
    /\ jpc \notin {"start", "end"} => from # to
    /\ jpc \in {"hardremove", "rename", "unappend", "remove"} => job.prog = "mv"
    /\ jpc \in BeforeCopy => nread = 0

\* The source is as it was, until mv has succeeded.
SourceIntact ==
    exited # "ok" \/ job.prog = "cp" =>
        fs[from].data = Blocks /\ fs[from].there /\ ~fs[from].append

\* A target that is append-only is the old one; mv does not copy to one.
TargetBefore ==
    /\ jpc \in BeforeCopy /\ from # to /\ fs[to].append => fs[to].there /\ fs[to].data = <<"old">>
    /\ jpc \in {"create", "copy", "remove"} /\ job.prog = "mv" => ~fs[to].append

\* f holds the first n blocks of the source, behind what an append-only file
\* had before.
HoldsBlocks(f, n) ==
    LET off == IF f.append THEN 1 ELSE 0
    IN  /\ Len(f.data) = off + n
        /\ f.append => f.data[1] = "old"
        /\ \A k \in 1..n : f.data[off + k] = Blocks[k]

\* The target holds what has been copied.
TargetCopied ==
    /\ jpc = "copy" => HoldsBlocks(fs[to], nread)
    /\ jpc = "remove" => HoldsBlocks(fs[to], Len(Blocks))

MvIInv == MvTypeOK /\ PlacesOK /\ SourceIntact /\ TargetBefore /\ TargetCopied /\ ExitIsTrue

\* The two arguments are names of files.
LEMMA FromAndTo ==
  ASSUME MvTypeOK
  PROVE  from \in FileNames /\ to \in FileNames /\ fs[from] \in FileSet /\ fs[to] \in FileSet
<1>1. job.from \in Names /\ job.to \in Names
  BY DEF MvTypeOK
<1>2. from \in FileNames /\ to \in FileNames
  BY <1>1 DEF from, to, FileNames
<1> QED BY <1>2 DEF MvTypeOK

\* Names in two directories lead to two files.
LEMMA TwoDirectories == job.from[1] # job.to[1] => from # to
BY DEF from, to, At

\* The file that is made, and the one that is not there.
LEMMA FilesAreFiles ==
  /\ None \in FileSet /\ File(<< >>, FALSE) \in FileSet
  /\ \A a \in BOOLEAN : File(Blocks, a) \in FileSet /\ File(<<"old">>, a) \in FileSet
<1>1. Blocks \in Seq(Block) /\ << >> \in Seq(Block) /\ <<"old">> \in Seq(Block)
  <2>1. "old" \in Block
    BY DEF Block
  <2>2. {Blocks[k] : k \in DOMAIN Blocks} \subseteq Block
    BY DEF Block
  <2>3. Blocks \in Seq(Block)
    BY <2>2, BlocksAssumption
  <2> QED BY <2>1, <2>3
<1> QED BY <1>1 DEF None, File, FileSet

\* What the fields of a file are.
LEMMA FileFields ==
  /\ None.data = << >> /\ None.append = FALSE /\ None.there = FALSE
  /\ \A d, a : File(d, a).data = d /\ File(d, a).append = a /\ File(d, a).there = TRUE
BY DEF None, File

\* A file that holds all blocks is a copy of the source, or the old target
\* with the source behind it.
LEMMA HoldsAll ==
  ASSUME NEW f \in FileSet, HoldsBlocks(f, Len(Blocks))
  PROVE  f.data = IF f.append THEN <<"old">> \o Blocks ELSE Blocks
<1>1. Blocks \in Seq(Block) /\ <<"old">> \in Seq(Block) /\ f.data \in Seq(Block)
  BY FilesAreFiles DEF File, FileSet
<1>2. CASE ~f.append
  BY <1>1, <1>2, SeqEqual DEF HoldsBlocks
<1>3. CASE f.append
  <2> DEFINE g == <<"old">> \o Blocks
  <2>1. /\ g \in Seq(Block) /\ Len(g) = 1 + Len(Blocks)
        /\ g[1] = "old" /\ \A k \in 1..Len(Blocks) : g[1 + k] = Blocks[k]
    BY <1>1
  <2> HIDE DEF g
  <2>2. Len(f.data) = 1 + Len(Blocks) /\ f.data[1] = "old"
        /\ \A k \in 1..Len(Blocks) : f.data[1 + k] = Blocks[k]
    BY <1>3 DEF HoldsBlocks
  <2>3. ASSUME NEW j \in 1..Len(g) PROVE f.data[j] = g[j]
    <3>1. j = 1 \/ (j - 1 \in 1..Len(Blocks) /\ j = 1 + (j - 1))
      BY <1>1, <2>1
    <3> QED BY <2>1, <2>2, <3>1
  <2>4. f.data = g
    BY <1>1, <2>1, <2>2, <2>3, SeqEqual
  <2> QED BY <1>3, <2>4 DEF g
<1> QED BY <1>2, <1>3

\* A new file, and an append-only one before the copy, hold no block yet.
LEMMA HoldsNone ==
  /\ HoldsBlocks(File(<< >>, FALSE), 0)
  /\ \A f \in FileSet : f.append /\ f.data = <<"old">> => HoldsBlocks(f, 0)
<1>1. HoldsBlocks(File(<< >>, FALSE), 0)
  <2> DEFINE f == File(<< >>, FALSE)
  <2>1. f.data = << >> /\ f.append = FALSE
    BY FileFields
  <2> HIDE DEF f
  <2>2. HoldsBlocks(f, 0)
    BY <2>1 DEF HoldsBlocks
  <2> QED BY <2>2 DEF f
<1>2. ASSUME NEW f \in FileSet, f.append, f.data = <<"old">> PROVE HoldsBlocks(f, 0)
  BY <1>2 DEF HoldsBlocks
<1> QED BY <1>1, <1>2

\* f after a block has been written to it.
Written(f, b) == [f EXCEPT !.data = Append(f.data, b)]

\* Writing a block changes the contents of a file and nothing else.
LEMMA WritesData ==
  \A f \in FileSet, b \in Block :
     LET g == Written(f, b) IN g \in FileSet /\ g.append = f.append /\ g.data = Append(f.data, b)
<1> TAKE f \in FileSet, b \in Block
<1> DEFINE g == Written(f, b)
           d == Append(f.data, b)
<1>1. f.data \in Seq(Block)
  BY DEF FileSet
<1>2. d \in Seq(Block)
  BY <1>1
<1> HIDE DEF d
<1>3. g = [f EXCEPT !.data = d]
  BY DEF d, Written
<1> HIDE DEF g
<1>4. g \in FileSet /\ g.append = f.append /\ g.data = d
  BY <1>2, <1>3 DEF FileSet
<1> QED BY <1>4 DEF d, g

\* While not all blocks have been read there is a next one.
LEMMA NextBlock ==
  ASSUME NEW n \in 0..Len(Blocks), n < Len(Blocks)
  PROVE  n \in Nat /\ n + 1 \in 0..Len(Blocks) /\ Blocks[n + 1] \in Block
<1>1. Len(Blocks) \in Nat /\ DOMAIN Blocks = 1..Len(Blocks)
  BY BlocksAssumption
<1>2. n + 1 \in 1..Len(Blocks)
  BY <1>1
<1> QED BY <1>1, <1>2 DEF Block

\* Behind n blocks the next one makes n + 1.
LEMMA HoldsOneMore ==
  ASSUME NEW f \in FileSet, NEW n \in Nat, n < Len(Blocks), HoldsBlocks(f, n),
         NEW g, g.append = f.append, g.data = Append(f.data, Blocks[n + 1])
  PROVE  HoldsBlocks(g, n + 1)
<1> DEFINE d == f.data
           e == g.data
           b == Blocks[n + 1]
           off == IF f.append THEN 1 ELSE 0
<1>1. d \in Seq(Block) /\ off \in Nat
  BY DEF FileSet
<1>2. b \in Block
  BY BlocksAssumption DEF Block
<1>3. Len(d) = off + n /\ (f.append => d[1] = "old") /\ \A k \in 1..n : d[off + k] = Blocks[k]
  BY DEF HoldsBlocks
<1>4. (f.append => off = 1) /\ e = Append(d, b)
  OBVIOUS
<1> HIDE DEF d, e, off, b
<1>5. Len(e) = off + (n + 1) /\ e[off + (n + 1)] = b /\ \A k \in 1..(off + n) : e[k] = d[k]
  BY <1>1, <1>2, <1>3, <1>4
<1>6. f.append => e[1] = "old"
  BY <1>1, <1>3, <1>4, <1>5
<1>7. ASSUME NEW k \in 1..(n + 1) PROVE e[off + k] = Blocks[k]
  <2>1. CASE k = n + 1
    BY <1>5, <2>1 DEF b
  <2>2. CASE k # n + 1
    <3>1. k \in 1..n /\ off + k \in 1..(off + n)
      BY <1>1, <2>2
    <3> QED BY <1>3, <1>5, <3>1
  <2> QED BY <2>1, <2>2
<1> QED BY <1>5, <1>6, <1>7 DEF HoldsBlocks, e, off

\* The initial states satisfy the invariant.
LEMMA MvInitInv == MvInit => MvIInv
<1> SUFFICES ASSUME MvInit PROVE MvIInv
  OBVIOUS
<1>1. job \in [prog : {"mv", "cp"}, from : Names, to : Names]
  <2>1. PICK prog \in {"mv", "cp"}, a \in Names, b \in Names : job = [prog |-> prog, from |-> a, to |-> b]
    BY DEF MvInit
  <2> QED BY <2>1
<1>2. from \in FileNames /\ to \in FileNames
  BY <1>1 DEF from, to, FileNames
<1>3. PICK there \in BOOLEAN, append \in BOOLEAN :
         fs = [n \in FileNames |-> IF n = from THEN File(Blocks, FALSE)
                                   ELSE IF n = to /\ there THEN File(<<"old">>, append) ELSE None]
  BY DEF MvInit, FileNames
<1>4. fs \in [FileNames -> FileSet]
  BY <1>3, FilesAreFiles
<1>5. fs[from] = File(Blocks, FALSE)
  BY <1>2, <1>3
<1>6. from # to => fs[to] = File(<<"old">>, append) \/ fs[to] = None
  BY <1>2, <1>3
<1>7. MvTypeOK
  <2>1. 0 \in 0..Len(Blocks)
    BY BlocksAssumption
  <2> QED BY <1>1, <1>4, <2>1 DEF MvInit, MvTypeOK, MvPlaces
<1>8. PlacesOK /\ TargetCopied /\ ExitIsTrue
  BY DEF MvInit, PlacesOK, TargetCopied, ExitIsTrue
<1>9. SourceIntact
  BY <1>5 DEF SourceIntact, File
<1>10. TargetBefore
  <2>1. from # to /\ fs[to].append => fs[to].there /\ fs[to].data = <<"old">>
    BY <1>6, FileFields
  <2> QED BY <2>1 DEF MvInit, TargetBefore
<1> QED BY <1>7, <1>8, <1>9, <1>10 DEF MvIInv

\* Every step keeps it.
LEMMA MvStepInv == MvIInv /\ [MvNext]_mvvars => MvIInv'
<1> SUFFICES ASSUME MvIInv, [MvNext]_mvvars PROVE MvIInv'
  OBVIOUS
<1>1. from \in FileNames /\ to \in FileNames /\ fs[from] \in FileSet /\ fs[to] \in FileSet
  BY FromAndTo DEF MvIInv
<1>2. job' = job /\ from' = from /\ to' = to
  BY DEF MvNext, mvvars, from, to
<1> USE <1>1, <1>2
        DEF MvIInv, MvTypeOK, MvPlaces, PlacesOK, BeforeCopy, SourceIntact, TargetBefore, TargetCopied,
            ExitIsTrue, Goes, Ends, Stays
<1>3. CASE MvStart
  <2>1. MvTypeOK'
    BY <1>3, TwoDirectories DEF MvStart, samefile
  <2>2. PlacesOK'
    BY <1>3, TwoDirectories DEF MvStart, samefile
  <2>3. SourceIntact'
    BY <1>3, TwoDirectories DEF MvStart, samefile
  <2>4. TargetBefore'
    BY <1>3, TwoDirectories DEF MvStart, samefile
  <2>5. TargetCopied'
    BY <1>3, TwoDirectories DEF MvStart, samefile
  <2>6. ExitIsTrue'
    BY <1>3, TwoDirectories DEF MvStart, samefile
  <2> QED BY <2>1, <2>2, <2>3, <2>4, <2>5, <2>6
<1>4. CASE CpStart
  <2>1. MvTypeOK'
    BY <1>4 DEF CpStart, samefile
  <2>2. PlacesOK'
    BY <1>4 DEF CpStart, samefile
  <2>3. SourceIntact'
    BY <1>4 DEF CpStart, samefile
  <2>4. TargetBefore'
    BY <1>4 DEF CpStart, samefile
  <2>5. TargetCopied'
    BY <1>4 DEF CpStart, samefile
  <2>6. ExitIsTrue'
    BY <1>4 DEF CpStart, samefile
  <2> QED BY <2>1, <2>2, <2>3, <2>4, <2>5, <2>6
<1>5. CASE Remove
  <2>1. MvTypeOK'
    BY <1>5, FilesAreFiles DEF Remove, HardRemove, None
  <2>2. PlacesOK'
    BY <1>5, FilesAreFiles DEF Remove, HardRemove, None
  <2>3. SourceIntact'
    BY <1>5, FilesAreFiles DEF Remove, HardRemove, None
  <2>4. TargetBefore'
    <3>1. CASE fs' = [fs EXCEPT ![to] = None]
      <4>1. fs'[to] = None
        BY <3>1
      <4>2. fs'[to].append = FALSE
        BY <4>1, FileFields
      <4> QED BY <4>2
    <3>2. CASE Ends("failed") /\ Stays
      BY <3>2
    <3> QED BY <1>5, <3>1, <3>2 DEF Remove, HardRemove
  <2>5. TargetCopied'
    BY <1>5, FilesAreFiles DEF Remove, HardRemove, None
  <2>6. ExitIsTrue'
    BY <1>5, FilesAreFiles DEF Remove, HardRemove, None
  <2> QED BY <2>1, <2>2, <2>3, <2>4, <2>5, <2>6
<1>6. CASE Rename
  <2>1. MvTypeOK'
    BY <1>6, FilesAreFiles DEF Rename, None
  <2>2. PlacesOK'
    BY <1>6, FilesAreFiles DEF Rename, None
  <2>3. SourceIntact'
    BY <1>6, FilesAreFiles DEF Rename, None
  <2>4. TargetBefore'
    BY <1>6, FilesAreFiles DEF Rename, None
  <2>5. TargetCopied'
    BY <1>6, FilesAreFiles DEF Rename, None
  <2>6. ExitIsTrue'
    <3>1. CASE fs' = [fs EXCEPT ![to] = fs[from], ![from] = None]
      <4>1. from # to /\ job.prog = "mv" /\ exited # "ok"
        BY <1>6 DEF Rename
      <4>2. fs'[to] = fs[from] /\ fs'[from] = None
        BY <3>1, <4>1
      <4>3. fs'[to].data = Blocks /\ ~fs'[to].append /\ ~fs'[from].there
        BY <4>1, <4>2, FileFields
      <4> QED BY <4>1, <4>3
    <3>2. CASE Goes("open") /\ Stays
      BY <1>6, <3>2 DEF Rename
    <3> QED BY <1>6, <3>1, <3>2 DEF Rename
  <2> QED BY <2>1, <2>2, <2>3, <2>4, <2>5, <2>6
<1>7. CASE OpenFrom
  <2>1. MvTypeOK'
    BY <1>7 DEF OpenFrom
  <2>2. PlacesOK'
    BY <1>7 DEF OpenFrom
  <2>3. SourceIntact'
    BY <1>7 DEF OpenFrom
  <2>4. TargetBefore'
    BY <1>7 DEF OpenFrom
  <2>5. TargetCopied'
    BY <1>7 DEF OpenFrom
  <2>6. ExitIsTrue'
    BY <1>7 DEF OpenFrom
  <2> QED BY <2>1, <2>2, <2>3, <2>4, <2>5, <2>6
<1>8. CASE Unappend
  <2>1. MvTypeOK'
    BY <1>8, FilesAreFiles DEF Unappend, HardRemove, None
  <2>2. PlacesOK'
    BY <1>8, FilesAreFiles DEF Unappend, HardRemove, None
  <2>3. SourceIntact'
    BY <1>8, FilesAreFiles DEF Unappend, HardRemove, None
  <2>4. TargetBefore'
    <3>1. CASE fs' = [fs EXCEPT ![to] = None]
      <4>1. fs'[to] = None
        BY <3>1
      <4>2. fs'[to].append = FALSE
        BY <4>1, FileFields
      <4> QED BY <4>2
    <3>2. CASE Ends("failed") /\ Stays
      BY <3>2
    <3> QED BY <1>8, <3>1, <3>2 DEF Unappend, HardRemove
  <2>5. TargetCopied'
    BY <1>8, FilesAreFiles DEF Unappend, HardRemove, None
  <2>6. ExitIsTrue'
    BY <1>8, FilesAreFiles DEF Unappend, HardRemove, None
  <2> QED BY <2>1, <2>2, <2>3, <2>4, <2>5, <2>6
<1>9. CASE Create
  <2>a. CASE Ends("failed") /\ Stays
    BY <1>9, <2>a DEF Create
  <2>b. CASE Goes("copy") /\ UNCHANGED nread
             /\ fs' = [fs EXCEPT ![to] = IF fs[to].there /\ fs[to].append THEN fs[to] ELSE File(<< >>, FALSE)]
    <3> DEFINE g == IF fs[to].there /\ fs[to].append THEN fs[to] ELSE File(<< >>, FALSE)
    <3>1. g \in FileSet
      BY FilesAreFiles
    <3>2. fs'[to] = g /\ (from # to) /\ nread = 0 /\ jpc = "create" /\ exited = "" /\ fs'[from] = fs[from]
      BY <1>9, <2>b DEF Create
    <3>3. fs' \in [FileNames -> FileSet]
      BY <2>b, <3>1
    <3>4. job.prog = "mv" => ~g.append
      BY <3>2, FileFields
    <3>5. HoldsBlocks(g, 0)
      <4>1. CASE fs[to].there /\ fs[to].append
        BY <3>2, <4>1, HoldsNone
      <4>2. CASE ~(fs[to].there /\ fs[to].append)
        BY <4>2, HoldsNone
      <4> QED BY <4>1, <4>2
    <3> HIDE DEF g
    <3>6. jpc' = "copy" /\ nread' = 0 /\ exited' = ""
      BY <2>b, <3>2
    <3>7. HoldsBlocks(fs[to], nread)'
      BY <3>2, <3>5, <3>6 DEF HoldsBlocks
    <3>8. SourceIntact' /\ TargetBefore'
      BY <3>2, <3>4, <3>6
    <3>9. MvTypeOK' /\ PlacesOK' /\ ExitIsTrue'
      BY <3>2, <3>3, <3>6
    <3> QED BY <3>6, <3>7, <3>8, <3>9
  <2> QED BY <1>9, <2>a, <2>b DEF Create
<1>10. CASE CopyBlock
  <2>1. jpc = "copy" /\ nread < Len(Blocks) /\ from # to /\ exited = ""
    BY <1>10 DEF CopyBlock
  <2>2. ASSUME NEW b \in Block, fs' = [fs EXCEPT ![to].data = Append(fs[to].data, b)]
        PROVE  /\ fs' \in [FileNames -> FileSet]
               /\ fs'[from] = fs[from]
               /\ fs'[to].append = fs[to].append
               /\ fs'[to].data = Append(fs[to].data, b)
    <3> DEFINE g == Written(fs[to], b)
    <3>1. g \in FileSet /\ g.append = fs[to].append /\ g.data = Append(fs[to].data, b)
      <4>1. fs[to] \in FileSet /\ b \in Block
        BY <1>1, <2>2
      <4> QED BY ONLY <4>1, WritesData
    <3>2. fs' = [fs EXCEPT ![to] = g]
      BY <2>2 DEF Written
    <3> HIDE DEF g
    <3> QED BY <2>1, <3>1, <3>2
  <2>3. CASE job.prog = "cp" /\ Ends("failed") /\ Stays
    BY <2>1, <2>3
  <2>4. CASE fs' = [fs EXCEPT ![to].data = Append(fs[to].data, "part")] /\ Ends("failed") /\ UNCHANGED nread
    <3>1. "part" \in Block
      BY DEF Block
    <3>2. fs' \in [FileNames -> FileSet] /\ fs'[from] = fs[from]
      BY <2>2, <2>4, <3>1
    <3> QED BY <2>1, <2>4, <3>2
  <2>5. CASE /\ fs' = [fs EXCEPT ![to].data = Append(fs[to].data, Blocks[nread + 1])]
             /\ nread' = nread + 1 /\ UNCHANGED <<jpc, exited>>
    <3> DEFINE b == Blocks[nread + 1]
    <3>1. nread \in Nat /\ nread + 1 \in 0..Len(Blocks) /\ b \in Block
      BY <2>1, NextBlock
    <3>2. /\ fs' \in [FileNames -> FileSet]
          /\ fs'[from] = fs[from]
          /\ fs'[to].append = fs[to].append
          /\ fs'[to].data = Append(fs[to].data, b)
      BY <2>2, <2>5, <3>1
    <3>3. HoldsBlocks(fs'[to], nread + 1)
      BY <2>1, <3>1, <3>2, HoldsOneMore
    <3>4. HoldsBlocks(fs[to], nread)'
      BY <2>5, <3>3
    <3> HIDE DEF b
    <3>5. jpc' = "copy" /\ exited' = "" /\ nread' \in 0..Len(Blocks)
      BY <2>1, <2>5, <3>1
    <3>6. MvTypeOK' /\ PlacesOK' /\ SourceIntact' /\ ExitIsTrue'
      BY <2>1, <3>2, <3>5
    <3>7. TargetBefore'
      BY <2>1, <3>2, <3>5
    <3> QED BY <3>4, <3>5, <3>6, <3>7
  <2> QED BY <1>10, <2>3, <2>4, <2>5 DEF CopyBlock
<1>11. CASE CopyEnd
  <2>1. MvTypeOK'
    BY <1>11, HoldsAll DEF CopyEnd, AtEnd
  <2>2. PlacesOK'
    BY <1>11, HoldsAll DEF CopyEnd, AtEnd
  <2>3. SourceIntact'
    BY <1>11, HoldsAll DEF CopyEnd, AtEnd
  <2>4. TargetBefore'
    BY <1>11, HoldsAll DEF CopyEnd, AtEnd
  <2>5. TargetCopied'
    BY <1>11, HoldsAll DEF CopyEnd, AtEnd
  <2>6. ExitIsTrue'
    BY <1>11, HoldsAll DEF CopyEnd, AtEnd
  <2> QED BY <2>1, <2>2, <2>3, <2>4, <2>5, <2>6
<1>12. CASE RemoveFrom
  <2>1. MvTypeOK'
    BY <1>12, FilesAreFiles, HoldsAll DEF RemoveFrom, None
  <2>2. PlacesOK'
    BY <1>12, FilesAreFiles, HoldsAll DEF RemoveFrom, None
  <2>3. SourceIntact'
    BY <1>12, FilesAreFiles, HoldsAll DEF RemoveFrom, None
  <2>4. TargetBefore'
    BY <1>12, FilesAreFiles, HoldsAll DEF RemoveFrom, None
  <2>5. TargetCopied'
    BY <1>12, FilesAreFiles, HoldsAll DEF RemoveFrom, None
  <2>6. ExitIsTrue'
    <3>1. CASE fs' = [fs EXCEPT ![from] = None] /\ Ends("ok") /\ UNCHANGED nread
      <4>1. from # to /\ job.prog = "mv" /\ ~fs[to].append /\ HoldsBlocks(fs[to], Len(Blocks))
        BY <1>12 DEF RemoveFrom
      <4>2. fs'[to] = fs[to] /\ fs'[from] = None
        BY <3>1, <4>1
      <4>3. fs[to].data = Blocks
        BY <4>1, HoldsAll
      <4> QED BY <4>1, <4>2, <4>3, FileFields
    <3>2. CASE Ends("failed") /\ Stays
      BY <3>2
    <3> QED BY <1>12, <3>1, <3>2 DEF RemoveFrom
  <2> QED BY <2>1, <2>2, <2>3, <2>4, <2>5, <2>6
<1>13. CASE UNCHANGED mvvars
  BY <1>13 DEF mvvars
<1> QED BY <1>3, <1>4, <1>5, <1>6, <1>7, <1>8, <1>9, <1>10, <1>11, <1>12, <1>13 DEF MvNext

\* The inductive invariant holds in every state of every behaviour.
THEOREM MvInvariance == MvSpec => []MvIInv
BY MvInitInv, MvStepInv, PTL DEF MvSpec

\* Whichever call fails and wherever mv or cp is stopped, the contents of the
\* source are all there, and a successful exit means what it says, for files
\* of any length and any way in which names can lead to one file.
THEOREM MvCorrect == MvSpec => []NothingLost
<1>1. ASSUME MvIInv PROVE NothingLost
  <2>1. SourceKept
    BY <1>1 DEF MvIInv, MvTypeOK, SourceIntact, ExitIsTrue, SourceKept
  <2> QED BY <1>1, <2>1 DEF MvIInv, NothingLost
<1> QED BY <1>1, MvInvariance, PTL

-----------------------------------------------------------------------------
(* The draw client: calls and drawing of threads that share a connection. *)

InCall == {"send", "wait"}
Requests == [tag : Tags, type : DOMAIN RepliesTo, id : Nat]
Packets == [tag : Tags, type : {"Rerror"} \cup {RepliesTo[q] : q \in DOMAIN RepliesTo}, id : Nat]
CallRecs == [pc : InCall \cup {"idle", "flush"}, type : DOMAIN RepliesTo \cup {"none"}, id : Nat,
             tag : Tags \cup {0}, data : Seq(Nat)]
Results == [id : Nat, of : Nat, rc : {0, -1}]
In(s) == {s[k] : k \in DOMAIN s}

\* Every variable has its type.
DrawTypeOK ==
    /\ srvfd \in {"none", "open", "eof", "failed"}
    /\ rpc \in [Threads -> CallRecs]
    /\ \A t \in Threads : rpc[t].pc \in InCall => rpc[t].type # "none"
    /\ dreply \in [Threads -> Packets \cup {NoPkt, Eof}]
    /\ wire \subseteq Requests /\ stream \in Seq(Packets)
    /\ pin \in [DcProcs -> Threads \cup {NoThread}]
    /\ dbuf \in Seq(Nat) /\ painted \in Seq(Nat) /\ ncmd \in Nat /\ ncall \in Nat
    /\ result \in [Threads -> Results]
    /\ header \in BOOLEAN /\ (header => stream # << >>)
    /\ (srvfd # "open" => wire = {})

\* The request of a thread that waits and has no answer yet.
IsOf(pkt, t) == rpc[t].pc = "wait" /\ dreply[t] = NoPkt /\ pkt.tag = rpc[t].tag /\ pkt.id = rpc[t].id

\* What is on its way belongs to a thread that waits for it, at most one packet to each: a
\* tag is used again only when nothing with that tag is left.
OneOnItsWay ==
    /\ \A t, u \in Threads : (rpc[t].pc = "wait" /\ rpc[u].pc = "wait" /\ rpc[t].tag = rpc[u].tag) => t = u
    /\ \A r \in wire : \E t \in Threads : IsOf(r, t) /\ r.type = rpc[t].type
    /\ \A k \in DOMAIN stream : \E t \in Threads : IsOf(stream[k], t)
    /\ \A j, k \in DOMAIN stream : stream[j].tag = stream[k].tag => j = k
    /\ \A k \in DOMAIN stream : \A r \in wire : stream[k].tag # r.tag

\* An answer that libmux has for a thread is the answer to its request, or the end.
AnswerIsOwn ==
    \A t \in Threads : dreply[t] # NoPkt =>
        rpc[t].pc = "wait" /\ (dreply[t] = Eof \/ dreply[t].id = rpc[t].id)

\* The thread that is in a call is the one its proc is pinned to.
Pinned == \A t \in Threads : rpc[t].pc \in InCall <=> pin[ProcOf[t]] = t

\* A thread that sends the buffer draws, and the buffer stays as it is until
\* the call has returned.
SendsBuffer ==
    \A t \in Threads :
        /\ (rpc[t].pc \in InCall /\ rpc[t].type = "Twrdraw") => t \in Painters
        /\ rpc[t].pc = "send" => rpc[t].data = IF rpc[t].type = "Twrdraw" THEN dbuf ELSE << >>

\* The buffer was sent, but has not been started anew.
Sent == \E t \in Threads : rpc[t].pc = "wait" /\ rpc[t].type = "Twrdraw"
\* A command is in the buffer or was sent, and in both only while Sent.
EachCommandOnce ==
    /\ \A a, b \in DOMAIN painted : painted[a] = painted[b] => a = b
    /\ \A a, b \in DOMAIN dbuf : dbuf[a] = dbuf[b] => a = b
    /\ In(painted) \cup In(dbuf) = 1..ncmd
    /\ Sent => In(dbuf) \subseteq In(painted)
    /\ ~Sent => In(dbuf) \cap In(painted) = {}

DrawIInv == /\ DrawTypeOK /\ OneOnItsWay /\ AnswerIsOwn /\ Pinned /\ SendsBuffer
            /\ EachCommandOnce /\ OwnReply

\* At the start nothing is on its way.
LEMMA DrawInitInv == DrawClientInit => DrawIInv
<1> SUFFICES ASSUME DrawClientInit PROVE DrawIInv
  OBVIOUS
<1>0. /\ \A t \in Threads : rpc[t] = Idle /\ dreply[t] = NoPkt
      /\ \A t \in Threads : ProcOf[t] \in DcProcs /\ pin[ProcOf[t]] = NoThread
  BY DEF DrawClientInit, DcProcs
<1>1. DrawTypeOK
  <2>1. Idle \in CallRecs /\ Idle.pc = "idle"
    BY DEF Idle, CallRecs, InCall
  <2>2. rpc \in [Threads -> CallRecs] /\ dreply \in [Threads -> Packets \cup {NoPkt, Eof}]
    BY <2>1 DEF DrawClientInit
  <2>3. \A t \in Threads : rpc[t].pc \in InCall => rpc[t].type # "none"
    BY <1>0, <2>1 DEF InCall
  <2>4. header \in BOOLEAN /\ (header => stream # << >>)
    BY DEF DrawClientInit
  <2>5. wire \subseteq Requests /\ stream \in Seq(Packets) /\ pin \in [DcProcs -> Threads \cup {NoThread}]
    BY DEF DrawClientInit
  <2>6. result \in [Threads -> Results]
    BY DEF DrawClientInit, Results
  <2> QED BY <2>2, <2>3, <2>4, <2>5, <2>6 DEF DrawClientInit, DrawTypeOK
<1>2. OneOnItsWay /\ AnswerIsOwn
  BY <1>0 DEF DrawClientInit, OneOnItsWay, AnswerIsOwn, Idle
<1>3. Pinned /\ SendsBuffer
  BY <1>0, ThreadAssumption DEF Pinned, SendsBuffer, Idle, InCall
<1>4. EachCommandOnce
  BY <1>0 DEF DrawClientInit, EachCommandOnce, Sent, In, Idle
<1>5. OwnReply
  BY DEF DrawClientInit, OwnReply
<1> QED BY <1>1, <1>2, <1>3, <1>4, <1>5 DEF DrawIInv

\* What does not touch the commands and does not send the buffer or end that.
LEMMA CommandsKept ==
  ASSUME EachCommandOnce, UNCHANGED <<dbuf, painted, ncmd>>, Sent' <=> Sent
  PROVE  EachCommandOnce'
<1>1. In(dbuf)' = In(dbuf) /\ In(painted)' = In(painted)
  BY DEF In
<1>2. CASE Sent
  BY <1>1, <1>2 DEF EachCommandOnce
<1>3. CASE ~Sent
  BY <1>1, <1>3 DEF EachCommandOnce
<1> QED BY <1>2, <1>3

\* Two threads that draw are not in a call at the same time: they are of one
\* proc, which is pinned to one of them.
LEMMA OnePainterCalls ==
  ASSUME DrawTypeOK, Pinned, NEW t \in Threads, NEW u \in Threads, t \in Painters, u \in Painters,
         rpc[t].pc \in InCall, rpc[u].pc \in InCall
  PROVE  t = u
BY PainterAssumption DEF Pinned

\* The steps that change only who reads, or whether there is a server.
LEMMA DrawQuietInv ==
  ASSUME DrawIInv, Connect \/ ServerGone \/ (\E t \in Threads : RecvLength(t)) \/ UNCHANGED dcvars
  PROVE  DrawIInv'
<1> USE DEF DrawIInv
<1>0. UNCHANGED <<rpc, dreply, stream, pin, dbuf, ncmd, ncall, painted, result>> /\ wire' \in {wire, {}}
  BY DEF Connect, ServerGone, RecvLength, DrawTypeOK, dcvars
<1>1. DrawTypeOK'
  <2>1. CASE Connect
    BY <2>1 DEF DrawTypeOK, Connect
  <2>2. CASE ServerGone
    BY <2>2 DEF DrawTypeOK, ServerGone
  <2>3. ASSUME NEW t \in Threads, RecvLength(t) PROVE DrawTypeOK'
    BY <2>3 DEF DrawTypeOK, RecvLength
  <2>4. CASE UNCHANGED dcvars
    BY <2>4 DEF DrawTypeOK, dcvars
  <2> QED BY <2>1, <2>2, <2>3, <2>4
<1>2. (OneOnItsWay /\ AnswerIsOwn)'
  BY <1>0 DEF OneOnItsWay, AnswerIsOwn, IsOf
<1>3. (Pinned /\ SendsBuffer /\ EachCommandOnce /\ OwnReply)'
  BY <1>0 DEF Pinned, SendsBuffer, EachCommandOnce, Sent, In, OwnReply
<1> QED BY <1>1, <1>2, <1>3

\* The call of a thread that has the turn begins: the buffer it takes along,
\* if any, has not been sent.
LEMMA DrawRpcInv ==
  ASSUME DrawIInv, NEW t \in Threads, NEW type \in DOMAIN RepliesTo, NEW data, Rpc(t, type, data),
         rpc[t].pc \in {"idle", "flush"}, data = IF type = "Twrdraw" THEN dbuf ELSE << >>,
         type = "Twrdraw" => t \in Painters
  PROVE  DrawIInv'
<1> USE DEF DrawIInv
<1>1. data \in Seq(Nat)
  BY DEF DrawTypeOK
<1>2. /\ rpc' = [rpc EXCEPT ![t] = [pc |-> "send", type |-> type, id |-> ncall + 1, tag |-> 0, data |-> data]]
      /\ pin' = [pin EXCEPT ![ProcOf[t]] = t] /\ ncall' = ncall + 1
      /\ UNCHANGED <<srvfd, dreply, muxer, header, wire, stream, dbuf, ncmd, painted, result>>
  BY DEF Rpc
<1>3. /\ rpc'[t].pc = "send" /\ rpc'[t].type = type /\ rpc'[t].data = data /\ rpc[t].pc # "wait"
      /\ \A u \in Threads \ {t} : rpc'[u] = rpc[u]
  BY <1>2 DEF DrawTypeOK
<1>4. ProcOf[t] \in DcProcs /\ pin[ProcOf[t]] = NoThread
  <2>1. pin[ProcOf[t]] # t
    BY DEF Pinned, InCall
  <2> QED BY <2>1 DEF Rpc, MyTurn, DcProcs
<1>5. DrawTypeOK'
  <2>1. rpc'[t] \in CallRecs
    BY <1>1, <1>2 DEF DrawTypeOK, CallRecs, InCall
  <2>2. rpc' \in [Threads -> CallRecs] /\ pin' \in [DcProcs -> Threads \cup {NoThread}] /\ ncall' \in Nat
    BY <1>2, <1>3, <1>4, <2>1 DEF DrawTypeOK
  <2>3. \A u \in Threads : rpc'[u].pc \in InCall => rpc'[u].type # "none"
    BY <1>3 DEF DrawTypeOK, RepliesTo
  <2> QED BY <1>2, <2>2, <2>3 DEF DrawTypeOK
<1>6. OneOnItsWay'
  <2>1. \A pkt : \A u \in Threads : IsOf(pkt, u) => IsOf(pkt, u)' /\ rpc'[u].type = rpc[u].type
    BY <1>2, <1>3 DEF IsOf
  <2> QED BY <1>2, <1>3, <2>1 DEF OneOnItsWay
<1>7. AnswerIsOwn'
  BY <1>2, <1>3 DEF AnswerIsOwn
<1>8. Pinned'
  <2>1. ASSUME NEW u \in Threads \ {t} PROVE rpc'[u].pc \in InCall <=> pin'[ProcOf[u]] = u
    <3>1. ProcOf[u] \in DcProcs /\ u # NoThread
      BY ThreadAssumption DEF DcProcs
    <3> QED BY <1>2, <1>3, <1>4, <3>1 DEF Pinned, DrawTypeOK
  <2> QED BY <1>2, <1>3, <1>4, <2>1 DEF Pinned, DrawTypeOK, InCall
<1>9. SendsBuffer'
  BY <1>2, <1>3 DEF SendsBuffer, InCall
<1>10. EachCommandOnce'
  <2>1. Sent' <=> Sent
    BY <1>3 DEF Sent
  <2> QED BY <1>2, <2>1, CommandsKept
<1>11. OwnReply'
  BY <1>2 DEF OwnReply
<1> QED BY <1>5, <1>6, <1>7, <1>8, <1>9, <1>10, <1>11

\* A flush with nothing to flush.
LEMMA DrawFlushInv ==
  ASSUME DrawIInv, NEW t \in Threads, NothingToFlush(t)
  PROVE  DrawIInv'
<1> USE DEF DrawIInv
<1>2. /\ rpc' = [rpc EXCEPT ![t] = Idle]
      /\ UNCHANGED <<srvfd, dreply, muxer, header, wire, stream, pin, dbuf, ncmd, ncall, painted, result>>
  BY DEF NothingToFlush
<1>3. /\ rpc'[t].pc = "idle" /\ rpc[t].pc = "flush"
      /\ \A u \in Threads \ {t} : rpc'[u] = rpc[u]
  BY <1>2 DEF DrawTypeOK, NothingToFlush, Idle
<1>5. DrawTypeOK'
  <2>1. Idle \in CallRecs
    BY DEF Idle, CallRecs
  <2>2. \A u \in Threads : rpc'[u].pc \in InCall => rpc'[u].type # "none"
    BY <1>3 DEF DrawTypeOK, InCall
  <2> QED BY <1>2, <2>1, <2>2 DEF DrawTypeOK
<1>6. OneOnItsWay'
  <2>1. \A pkt : \A u \in Threads : IsOf(pkt, u) => IsOf(pkt, u)' /\ rpc'[u].type = rpc[u].type
    BY <1>2, <1>3 DEF IsOf
  <2> QED BY <1>2, <1>3, <2>1 DEF OneOnItsWay
<1>7. AnswerIsOwn' /\ OwnReply'
  BY <1>2, <1>3 DEF AnswerIsOwn, OwnReply
<1>8. Pinned' /\ SendsBuffer'
  BY <1>2, <1>3 DEF Pinned, SendsBuffer, InCall
<1>10. EachCommandOnce'
  <2>1. Sent' <=> Sent
    BY <1>3 DEF Sent
  <2> QED BY <1>2, <2>1, CommandsKept
<1> QED BY <1>5, <1>6, <1>7, <1>8, <1>10

\* A command is put into the buffer while no buffer is being sent.
LEMMA DrawPaintInv ==
  ASSUME DrawIInv, NEW t \in Threads, Paint(t)
  PROVE  DrawIInv'
<1> USE DEF DrawIInv
<1>1. /\ ncmd' = ncmd + 1 /\ dbuf' = Append(dbuf, ncmd + 1) /\ rpc[t].pc = "idle" /\ t \in Painters
      /\ UNCHANGED <<srvfd, rpc, dreply, muxer, header, wire, stream, pin, ncall, painted, result>>
  BY DEF Paint
<1>2. ~Sent /\ ~Sent'
  <2>1. ~Sent
    <3> SUFFICES ASSUME NEW u \in Threads, rpc[u].pc = "wait", rpc[u].type = "Twrdraw" PROVE FALSE
      BY DEF Sent
    <3>1. u \in Painters /\ pin[ProcOf[u]] = u
      BY DEF SendsBuffer, Pinned, InCall
    <3>2. pin[ProcOf[t]] \in {NoThread, t} /\ ProcOf[t] = ProcOf[u]
      BY <1>1, <3>1, PainterAssumption DEF Paint, MyTurn
    <3> QED BY <1>1, <3>1, <3>2, ThreadAssumption
  <2> QED BY <1>1, <2>1 DEF Sent
<1>3. DrawTypeOK'
  BY <1>1 DEF DrawTypeOK
<1>4. (OneOnItsWay /\ AnswerIsOwn /\ Pinned /\ OwnReply)'
  BY <1>1 DEF OneOnItsWay, AnswerIsOwn, IsOf, Pinned, OwnReply
<1>5. SendsBuffer'
  <2>1. ASSUME NEW u \in Threads, rpc[u].pc = "send" PROVE rpc[u].type # "Twrdraw"
    <3> SUFFICES ASSUME rpc[u].type = "Twrdraw" PROVE FALSE
      OBVIOUS
    <3>1. u \in Painters /\ pin[ProcOf[u]] = u
      BY <2>1 DEF SendsBuffer, Pinned, InCall
    <3>2. pin[ProcOf[t]] \in {NoThread, t} /\ ProcOf[t] = ProcOf[u]
      BY <1>1, <3>1, PainterAssumption DEF Paint, MyTurn
    <3> QED BY <1>1, <2>1, <3>1, <3>2, ThreadAssumption
  <2> QED BY <1>1, <2>1 DEF SendsBuffer
<1>6. EachCommandOnce'
  <2>1. /\ dbuf \in Seq(Nat) /\ ncmd \in Nat /\ Len(dbuf) \in Nat
        /\ DOMAIN dbuf = 1..Len(dbuf) /\ DOMAIN dbuf' = 1..(Len(dbuf) + 1)
        /\ dbuf'[Len(dbuf) + 1] = ncmd + 1 /\ \A k \in 1..Len(dbuf) : dbuf'[k] = dbuf[k]
    BY <1>1 DEF DrawTypeOK
  <2>2. In(dbuf)' = In(dbuf) \cup {ncmd + 1} /\ In(painted)' = In(painted)
    BY <1>1, <2>1 DEF In
  <2>3. In(dbuf) \subseteq 1..ncmd /\ In(painted) \subseteq 1..ncmd
    BY DEF EachCommandOnce
  <2>4. \A k \in DOMAIN dbuf : dbuf[k] # ncmd + 1
    <3>1. \A k \in DOMAIN dbuf : dbuf[k] \in In(dbuf)
      BY DEF In
    <3>2. ncmd + 1 \notin In(dbuf)
      <4>1. ncmd + 1 \notin 1..ncmd
        BY <2>1
      <4> QED BY <2>3, <4>1
    <3> QED BY <3>1, <3>2
  <2>5. \A a, b \in DOMAIN dbuf' : dbuf'[a] = dbuf'[b] => a = b
    BY <2>1, <2>4 DEF EachCommandOnce
  <2>6. In(painted)' \cup In(dbuf)' = 1..ncmd'
    <3>1. In(painted) \cup In(dbuf) = 1..ncmd /\ 1..ncmd' = 1..ncmd \cup {ncmd + 1}
      BY <1>1, <2>1 DEF EachCommandOnce
    <3> QED BY <2>2, <3>1
  <2>7. In(dbuf)' \cap In(painted)' = {}
    <3>1. In(dbuf) \cap In(painted) = {} /\ ncmd + 1 \notin In(painted)
      BY <1>2, <2>1, <2>3 DEF EachCommandOnce
    <3> QED BY <2>2, <3>1
  <2>8. \A a, b \in DOMAIN painted' : painted'[a] = painted'[b] => a = b
    BY <1>1 DEF EachCommandOnce
  <2> QED BY <1>2, <2>5, <2>6, <2>7, <2>8 DEF EachCommandOnce
<1> QED BY <1>3, <1>4, <1>5, <1>6

\* The request is sent with a tag that no thread has: neither a request nor an
\* answer with that tag is left.  If it is the buffer, its commands are sent now.
LEMMA DrawSendInv ==
  ASSUME DrawIInv, NEW t \in Threads, MuxSend(t)
  PROVE  DrawIInv'
<1> USE DEF DrawIInv
<1>1. PICK tag \in Tags :
        /\ \A u \in Threads : rpc[u].tag # tag
        /\ rpc' = [rpc EXCEPT ![t].pc = "wait", ![t].tag = tag]
        /\ wire' = IF srvfd = "open" THEN wire \cup {[tag |-> tag, type |-> rpc[t].type, id |-> rpc[t].id]} ELSE wire
  BY DEF MuxSend, drawsettag
<1>2. /\ painted' = painted \o rpc[t].data /\ rpc[t].pc = "send"
      /\ UNCHANGED <<srvfd, dreply, muxer, header, stream, pin, dbuf, ncmd, ncall, result>>
  BY DEF MuxSend
<1>3. /\ rpc[t] \in CallRecs /\ rpc[t].type \in DOMAIN RepliesTo
      /\ rpc'[t] = [rpc[t] EXCEPT !.pc = "wait", !.tag = tag]
      /\ \A u \in Threads \ {t} : rpc'[u] = rpc[u]
  <2>1. rpc[t].type \in DOMAIN RepliesTo \cup {"none"} /\ rpc[t].type # "none"
    BY <1>2 DEF DrawTypeOK, InCall, CallRecs
  <2> QED BY <1>1, <2>1 DEF DrawTypeOK
<1>4. /\ rpc'[t].pc = "wait" /\ rpc'[t].tag = tag /\ rpc'[t].type = rpc[t].type /\ rpc'[t].id = rpc[t].id
      /\ rpc'[t].data = rpc[t].data /\ rpc[t].data \in Seq(Nat) /\ rpc[t].id \in Nat
  BY <1>3 DEF CallRecs
<1>5. DrawTypeOK'
  <2>1. rpc' \in [Threads -> CallRecs]
    <3>1. rpc'[t] \in CallRecs
      BY <1>3, <1>4 DEF CallRecs, InCall
    <3> QED BY <1>1, <1>3, <3>1 DEF DrawTypeOK
  <2>2. \A u \in Threads : rpc'[u].pc \in InCall => rpc'[u].type # "none"
    BY <1>2, <1>3, <1>4 DEF DrawTypeOK, InCall
  <2>3. wire' \subseteq Requests /\ (srvfd' # "open" => wire' = {})
    BY <1>1, <1>2, <1>3, <1>4 DEF DrawTypeOK, Requests
  <2>4. painted' \in Seq(Nat)
    BY <1>2, <1>4 DEF DrawTypeOK
  <2> QED BY <1>2, <2>1, <2>2, <2>3, <2>4 DEF DrawTypeOK
<1>6. dreply[t] = NoPkt
  BY <1>2 DEF AnswerIsOwn
<1>7. OneOnItsWay'
  <2>1. \A pkt : \A u \in Threads : IsOf(pkt, u) => IsOf(pkt, u)' /\ rpc'[u].type = rpc[u].type /\ pkt.tag # tag
    BY <1>1, <1>2, <1>3 DEF IsOf
  <2>2. \A k \in DOMAIN stream : stream[k].tag # tag
    BY <2>1 DEF OneOnItsWay
  <2>3. \A r \in wire' : r \in wire \/ (r.tag = tag /\ r.type = rpc'[t].type /\ IsOf(r, t)')
    BY <1>1, <1>2, <1>4, <1>6 DEF IsOf
  <2>4. \A u, v \in Threads : (rpc'[u].pc = "wait" /\ rpc'[v].pc = "wait" /\ rpc'[u].tag = rpc'[v].tag) => u = v
    <3>1. \A u \in Threads \ {t} : rpc'[u] = rpc[u] /\ rpc[u].tag # tag
      BY <1>1, <1>3
    <3>2. rpc'[t].tag = tag
      BY <1>4
    <3>3. \A u, v \in Threads \ {t} : (rpc[u].pc = "wait" /\ rpc[v].pc = "wait" /\ rpc[u].tag = rpc[v].tag) => u = v
      BY DEF OneOnItsWay
    <3> QED BY <3>1, <3>2, <3>3
  <2>5. \A r \in wire' : \E u \in Threads : IsOf(r, u)' /\ r.type = rpc'[u].type
    BY <2>1, <2>3 DEF OneOnItsWay
  <2>6. \A k \in DOMAIN stream' : \E u \in Threads : IsOf(stream[k], u)'
    BY <1>2, <2>1 DEF OneOnItsWay
  <2>7. \A k \in DOMAIN stream' : \A r \in wire' : stream'[k].tag # r.tag
    BY <1>2, <2>2, <2>3 DEF OneOnItsWay
  <2>8. \A j, k \in DOMAIN stream' : stream'[j].tag = stream'[k].tag => j = k
    BY <1>2 DEF OneOnItsWay
  <2>9. \A k \in DOMAIN stream' : \E u \in Threads : IsOf(stream[k], u)' /\ stream'[k] = stream[k]
    BY <1>2, <2>6
  <2> QED BY <1>2, <2>4, <2>5, <2>7, <2>8, <2>9 DEF OneOnItsWay, IsOf
<1>8. (AnswerIsOwn /\ OwnReply)'
  BY <1>2, <1>3, <1>6 DEF AnswerIsOwn, OwnReply
<1>9. (Pinned /\ SendsBuffer)'
  <2>1. \A u \in Threads \ {t} : rpc'[u] = rpc[u]
    BY <1>3
  <2>2. /\ rpc'[t].pc = "wait" /\ rpc[t].pc = "send" /\ rpc'[t].type = rpc[t].type
        /\ pin' = pin /\ dbuf' = dbuf
    BY <1>2, <1>4
  <2>3. Pinned'
    BY <2>1, <2>2 DEF Pinned, InCall
  <2>4. SendsBuffer'
    BY <2>1, <2>2 DEF SendsBuffer, InCall
  <2> QED BY <2>3, <2>4
<1>10. EachCommandOnce'
  <2>1. CASE rpc[t].type # "Twrdraw"
    <3>1. painted' = painted
      BY <1>2, <2>1, ConcatEmptySeq DEF SendsBuffer, DrawTypeOK
    <3>2. Sent' <=> Sent
      BY <1>2, <1>3, <1>4, <2>1, ZenonT(40) DEF Sent
    <3> QED BY <1>2, <3>1, <3>2, CommandsKept
  <2>2. CASE rpc[t].type = "Twrdraw"
    <3>1. painted' = painted \o dbuf /\ dbuf \in Seq(Nat) /\ painted \in Seq(Nat)
      BY <1>2, <2>2 DEF SendsBuffer, DrawTypeOK
    <3>2. ~Sent /\ Sent'
      <4>1. Sent'
        BY <1>4, <2>2 DEF Sent
      <4>2. ASSUME NEW u \in Threads, rpc[u].pc = "wait", rpc[u].type = "Twrdraw" PROVE FALSE
        <5>1. u \in Painters /\ t \in Painters /\ rpc[u].pc \in InCall /\ rpc[t].pc \in InCall
          BY <1>2, <2>2, <4>2 DEF SendsBuffer, InCall
        <5>2. u = t
          BY <5>1, OnePainterCalls
        <5> QED BY <1>2, <4>2, <5>2
      <4> QED BY <4>1, <4>2 DEF Sent
    <3>3. /\ Len(dbuf) \in Nat /\ Len(painted) \in Nat
          /\ DOMAIN dbuf = 1..Len(dbuf) /\ DOMAIN painted = 1..Len(painted)
          /\ DOMAIN painted' = 1..(Len(painted) + Len(dbuf))
          /\ \A k \in 1..(Len(painted) + Len(dbuf)) :
                painted'[k] = IF k <= Len(painted) THEN painted[k] ELSE dbuf[k - Len(painted)]
      BY <3>1, ConcatProperties, LenProperties
    <3>4. \A k \in 1..Len(dbuf) : painted'[k + Len(painted)] = dbuf[k]
      BY <3>3
    <3>5. In(painted)' = In(painted) \cup In(dbuf) /\ In(dbuf)' = In(dbuf)
      <4>1. In(dbuf)' = In(dbuf)
        BY <1>2 DEF In
      <4>2. In(painted)' \subseteq In(painted) \cup In(dbuf)
        BY <3>3 DEF In
      <4>3. In(dbuf) \subseteq In(painted)'
        <5>1. \A k \in 1..Len(dbuf) : k + Len(painted) \in DOMAIN painted'
          BY <3>3
        <5> QED BY <3>3, <3>4, <5>1 DEF In
      <4>4. In(painted) \subseteq In(painted)'
        <5>1. \A k \in 1..Len(painted) : k \in DOMAIN painted' /\ painted'[k] = painted[k]
          BY <3>3
        <5> QED BY <3>3, <5>1 DEF In
      <4> QED BY <4>1, <4>2, <4>3, <4>4
    <3>6. \A a, b \in DOMAIN painted' : painted'[a] = painted'[b] => a = b
      <4>1. \A a \in 1..Len(painted), b \in 1..Len(dbuf) : painted[a] # dbuf[b]
        <5>1. In(dbuf) \cap In(painted) = {}
          BY <3>2 DEF EachCommandOnce
        <5> QED BY <3>3, <5>1 DEF In
      <4>2. ASSUME NEW a \in DOMAIN painted', NEW b \in DOMAIN painted', painted'[a] = painted'[b] PROVE a = b
        <5>1. CASE a <= Len(painted) /\ b <= Len(painted)
          BY <3>3, <4>2, <5>1 DEF EachCommandOnce
        <5>2. CASE a > Len(painted) /\ b > Len(painted)
          <6>1. a - Len(painted) \in 1..Len(dbuf) /\ b - Len(painted) \in 1..Len(dbuf)
            BY <3>3, <5>2
          <6>2. a - Len(painted) = b - Len(painted)
            BY <3>3, <4>2, <5>2, <6>1 DEF EachCommandOnce
          <6> QED BY <3>3, <6>2
        <5>3. CASE a <= Len(painted) /\ b > Len(painted)
          <6>1. a \in 1..Len(painted) /\ b - Len(painted) \in 1..Len(dbuf)
            BY <3>3, <5>3
          <6> QED BY <3>3, <4>1, <4>2, <5>3, <6>1
        <5>4. CASE a > Len(painted) /\ b <= Len(painted)
          <6>1. b \in 1..Len(painted) /\ a - Len(painted) \in 1..Len(dbuf)
            BY <3>3, <5>4
          <6> QED BY <3>3, <4>1, <4>2, <5>4, <6>1
        <5> QED BY <3>3, <5>1, <5>2, <5>3, <5>4
      <4> QED BY <4>2
    <3>7. \A a, b \in DOMAIN dbuf' : dbuf'[a] = dbuf'[b] => a = b
      BY <1>2 DEF EachCommandOnce
    <3>8. In(painted)' \cup In(dbuf)' = 1..ncmd' /\ In(dbuf)' \subseteq In(painted)'
      <4>1. In(painted) \cup In(dbuf) = 1..ncmd /\ ncmd' = ncmd
        BY <1>2 DEF EachCommandOnce
      <4> QED BY <3>5, <4>1
    <3> QED BY <3>2, <3>6, <3>7, <3>8 DEF EachCommandOnce
  <2> QED BY <2>1, <2>2
<1> QED BY <1>5, <1>7, <1>8, <1>9, <1>10

\* devdraw answers: the answer takes the place of the request.
LEMMA DrawServeInv ==
  ASSUME DrawIInv, NEW req \in wire, Serve(req)
  PROVE  DrawIInv'
<1> USE DEF DrawIInv
<1>1. PICK type \in {RepliesTo[req.type], "Rerror"} : stream' = Append(stream, [req EXCEPT !.type = type])
  BY DEF Serve
<1>2. /\ wire' = wire \ {req} /\ srvfd = "open"
      /\ UNCHANGED <<srvfd, rpc, dreply, muxer, header, pin, dbuf, ncmd, ncall, painted, result>>
  BY DEF Serve
<1> DEFINE pkt == [req EXCEPT !.type = type]
<1>3. req \in Requests /\ pkt \in Packets /\ pkt.tag = req.tag /\ pkt.id = req.id
  BY <1>1 DEF DrawTypeOK, Requests, Packets
<1>4. /\ stream \in Seq(Packets) /\ Len(stream) \in Nat /\ DOMAIN stream = 1..Len(stream)
      /\ DOMAIN stream' = 1..(Len(stream) + 1) /\ stream' \in Seq(Packets)
      /\ stream'[Len(stream) + 1] = pkt /\ \A k \in 1..Len(stream) : stream'[k] = stream[k]
  BY <1>1, <1>3 DEF DrawTypeOK
<1>5. DrawTypeOK'
  <2>1. stream' # << >>
    BY <1>4
  <2> QED BY <1>2, <1>4, <2>1 DEF DrawTypeOK
<1> HIDE DEF pkt
<1>6. OneOnItsWay'
  <2>1. \A p : \A u \in Threads : IsOf(p, u)' <=> IsOf(p, u)
    BY <1>2 DEF IsOf
  <2>2. \E u \in Threads : IsOf(pkt, u)
    BY <1>3 DEF OneOnItsWay, IsOf
  <2>3. \A r \in wire : r.tag = req.tag => r = req
    <3> SUFFICES ASSUME NEW r \in wire, r.tag = req.tag PROVE r = req
      OBVIOUS
    <3>1. PICK u \in Threads : IsOf(r, u) /\ r.type = rpc[u].type
      BY DEF OneOnItsWay
    <3>2. PICK v \in Threads : IsOf(req, v) /\ req.type = rpc[v].type
      BY DEF OneOnItsWay
    <3>3. u = v
      <4>1. rpc[u].pc = "wait" /\ rpc[v].pc = "wait" /\ rpc[u].tag = rpc[v].tag
        BY <3>1, <3>2 DEF IsOf
      <4> QED BY <4>1 DEF OneOnItsWay
    <3>4. r.type = req.type /\ r.id = req.id /\ r \in Requests /\ req \in Requests
      BY <1>3, <3>1, <3>2, <3>3 DEF IsOf, DrawTypeOK
    <3> QED BY <3>4 DEF Requests
  <2>4. \A k \in DOMAIN stream : stream[k].tag # pkt.tag
    BY <1>3 DEF OneOnItsWay
  <2>5. \A u, v \in Threads : (rpc'[u].pc = "wait" /\ rpc'[v].pc = "wait" /\ rpc'[u].tag = rpc'[v].tag) => u = v
    BY <1>2 DEF OneOnItsWay
  <2>6. \A r \in wire' : \E u \in Threads : IsOf(r, u)' /\ r.type = rpc'[u].type
    BY <1>2, <2>1 DEF OneOnItsWay
  <2>7. \A k \in DOMAIN stream' : k = Len(stream) + 1 \/ (k \in DOMAIN stream /\ stream'[k] = stream[k])
    BY <1>4
  <2>8. \A k \in DOMAIN stream' : \E u \in Threads : IsOf(stream'[k], u)
    BY <1>4, <2>2, <2>7 DEF OneOnItsWay
  <2>9. \A j, k \in DOMAIN stream' : stream'[j].tag = stream'[k].tag => j = k
    BY <1>4, <2>4, <2>7 DEF OneOnItsWay
  <2>10. \A k \in DOMAIN stream' : \A r \in wire' : stream'[k].tag # r.tag
    BY <1>2, <1>3, <1>4, <2>3, <2>7 DEF OneOnItsWay
  <2>11. \A k \in DOMAIN stream' : \E u \in Threads : IsOf(stream[k], u)'
    BY <1>2, <2>8 DEF IsOf
  <2> QED BY <2>5, <2>6, <2>9, <2>10, <2>11 DEF OneOnItsWay
<1>7. (AnswerIsOwn /\ Pinned /\ SendsBuffer /\ EachCommandOnce /\ OwnReply)'
  BY <1>2, SMTT(30) DEF AnswerIsOwn, Pinned, SendsBuffer, EachCommandOnce, Sent, In, OwnReply
<1> QED BY <1>5, <1>6, <1>7

\* An answer is read: it goes to the one thread that has its tag.
LEMMA DrawPacketInv ==
  ASSUME DrawIInv, NEW t \in Threads, RecvPacket(t)
  PROVE  DrawIInv'
<1> USE DEF DrawIInv
<1> DEFINE pkt == Head(stream)
<1>1. /\ stream # << >> /\ stream' = Tail(stream) /\ header' = FALSE
      /\ dreply' = [u \in Threads |-> IF rpc[u].pc = "wait" /\ rpc[u].tag = pkt.tag THEN pkt ELSE dreply[u]]
      /\ UNCHANGED <<srvfd, rpc, wire, pin, dbuf, ncmd, ncall, painted, result>>
  BY DEF RecvPacket, drawgettag, DrawTypeOK
<1>2. /\ stream \in Seq(Packets) /\ Len(stream) \in Nat \ {0} /\ DOMAIN stream = 1..Len(stream)
      /\ stream' \in Seq(Packets) /\ DOMAIN stream' = 1..(Len(stream) - 1) /\ pkt = stream[1]
      /\ \A k \in 1..(Len(stream) - 1) : stream'[k] = stream[k + 1]
      /\ pkt \in Packets
  BY <1>1 DEF DrawTypeOK
<1>3. PICK o \in Threads : IsOf(pkt, o)
  <2>1. 1 \in DOMAIN stream
    BY <1>2
  <2> QED BY <1>2, <2>1 DEF OneOnItsWay
<1> HIDE DEF pkt
<1>4. /\ dreply'[o] = pkt
      /\ \A u \in Threads \ {o} : dreply'[u] = dreply[u]
  <2>1. \A u \in Threads : (rpc[u].pc = "wait" /\ rpc[u].tag = pkt.tag) <=> u = o
    BY <1>3 DEF IsOf, OneOnItsWay
  <2> QED BY <1>1, <2>1
<1>5. DrawTypeOK'
  <2>1. dreply' \in [Threads -> Packets \cup {NoPkt, Eof}]
    BY <1>1, <1>2 DEF DrawTypeOK
  <2> QED BY <1>1, <1>2, <2>1 DEF DrawTypeOK
<1>6. OneOnItsWay'
  <2>1. \A p : \A u \in Threads : (IsOf(p, u) /\ p.tag # pkt.tag) => IsOf(p, u)'
    <3> SUFFICES ASSUME NEW p, NEW u \in Threads, IsOf(p, u), p.tag # pkt.tag PROVE IsOf(p, u)'
      OBVIOUS
    <3>1. u # o
      BY <1>3 DEF IsOf
    <3> QED BY <1>1, <1>4, <3>1 DEF IsOf
  <2>2. \A k \in DOMAIN stream' : k + 1 \in DOMAIN stream /\ stream'[k] = stream[k + 1] /\ stream'[k].tag # pkt.tag
    <3>1. 1 \in DOMAIN stream /\ \A k \in DOMAIN stream' : k + 1 \in DOMAIN stream /\ stream'[k] = stream[k + 1] /\ k + 1 # 1
      BY <1>2
    <3> QED BY <1>2, <3>1 DEF OneOnItsWay
  <2>3. \A r \in wire : r.tag # pkt.tag
    <3>1. 1 \in DOMAIN stream
      BY <1>2
    <3> QED BY <1>2, <3>1 DEF OneOnItsWay
  <2>4. \A u, v \in Threads : (rpc'[u].pc = "wait" /\ rpc'[v].pc = "wait" /\ rpc'[u].tag = rpc'[v].tag) => u = v
    BY <1>1 DEF OneOnItsWay
  <2>5. \A r \in wire' : \E u \in Threads : IsOf(r, u)' /\ r.type = rpc'[u].type
    BY <1>1, <2>1, <2>3 DEF OneOnItsWay
  <2>6. \A k \in DOMAIN stream' : \E u \in Threads : IsOf(stream[k], u)'
    <3> SUFFICES ASSUME NEW k \in DOMAIN stream' PROVE \E u \in Threads : IsOf(stream[k], u)'
      OBVIOUS
    <3>1. PICK u \in Threads : IsOf(stream[k + 1], u)
      BY <2>2 DEF OneOnItsWay
    <3>2. u # o
      BY <1>3, <2>2, <3>1 DEF IsOf
    <3> QED BY <1>1, <1>4, <2>2, <3>1, <3>2 DEF IsOf
  <2>7. \A j, k \in DOMAIN stream' : stream'[j].tag = stream'[k].tag => j = k
    <3> SUFFICES ASSUME NEW j \in DOMAIN stream', NEW k \in DOMAIN stream', stream'[j].tag = stream'[k].tag
                 PROVE  j = k
      OBVIOUS
    <3>1. j + 1 = k + 1
      BY <2>2 DEF OneOnItsWay
    <3> QED BY <1>2, <3>1
  <2>8. \A k \in DOMAIN stream' : \A r \in wire' : stream'[k].tag # r.tag
    BY <1>1, <2>2 DEF OneOnItsWay
  <2> QED BY <2>4, <2>5, <2>6, <2>7, <2>8 DEF OneOnItsWay
<1>7. AnswerIsOwn'
  BY <1>1, <1>3, <1>4 DEF AnswerIsOwn, IsOf
<1>8. (Pinned /\ SendsBuffer /\ OwnReply)'
  BY <1>1 DEF Pinned, SendsBuffer, OwnReply
<1>9. EachCommandOnce'
  <2>1. Sent' <=> Sent
    BY <1>1 DEF Sent
  <2> QED BY <1>1, <2>1, CommandsKept
<1> QED BY <1>5, <1>6, <1>7, <1>8, <1>9

\* The connection has ended: nothing is on its way any more.
LEMMA DrawEofInv ==
  ASSUME DrawIInv, NEW t \in Threads, RecvEof(t)
  PROVE  DrawIInv'
<1> USE DEF DrawIInv
<1>1. /\ rpc[t].pc = "wait" /\ stream = << >> /\ wire = {} /\ ~header
      /\ dreply' = [dreply EXCEPT ![t] = Eof]
      /\ UNCHANGED <<srvfd, rpc, header, wire, stream, pin, dbuf, ncmd, ncall, painted, result>>
  BY DEF RecvEof, Waits, DrawTypeOK
<1>2. dreply'[t] = Eof /\ \A u \in Threads \ {t} : dreply'[u] = dreply[u]
  BY <1>1 DEF DrawTypeOK
<1>3. DrawTypeOK'
  <2>1. dreply' \in [Threads -> Packets \cup {NoPkt, Eof}]
    BY <1>1 DEF DrawTypeOK
  <2> QED BY <1>1, <2>1 DEF DrawTypeOK
<1>4. OneOnItsWay'
  <2>1. DOMAIN stream' = {} /\ wire' = {}
    BY <1>1
  <2> QED BY <1>1, <2>1 DEF OneOnItsWay
<1>5. AnswerIsOwn'
  BY <1>1, <1>2 DEF AnswerIsOwn
<1>6. (Pinned /\ SendsBuffer /\ EachCommandOnce /\ OwnReply)'
  BY <1>1, SMTT(30) DEF Pinned, SendsBuffer, EachCommandOnce, Sent, In, OwnReply
<1> QED BY <1>3, <1>4, <1>5, <1>6

\* A call returns: it succeeds only with the answer to its request, and the
\* buffer is started anew only after its commands were sent.
LEMMA DrawReturnInv ==
  ASSUME DrawIInv, NEW t \in Threads, RpcReturns(t)
  PROVE  DrawIInv'
<1> USE DEF DrawIInv
<1>1. PICK next \in {Idle, [Idle EXCEPT !.pc = "flush"]} : rpc' = [rpc EXCEPT ![t] = next]
  BY DEF RpcReturns
<1>2. /\ rpc[t].pc = "wait" /\ dreply[t] # NoPkt
      /\ result' = [result EXCEPT ![t] = [id |-> rpc[t].id, of |-> dreply[t].id, rc |-> IF Refused(t) THEN -1 ELSE 0]]
      /\ dbuf' = IF rpc[t].type = "Twrdraw" THEN << >> ELSE dbuf
      /\ dreply' = [dreply EXCEPT ![t] = NoPkt]
      /\ pin' = [pin EXCEPT ![ProcOf[t]] = NoThread]
      /\ UNCHANGED <<srvfd, muxer, header, wire, stream, ncmd, ncall, painted>>
  BY DEF RpcReturns
<1>3. next \in CallRecs /\ next.pc \notin InCall
  <2>1. CASE next = Idle
    BY <2>1 DEF Idle, CallRecs, InCall
  <2>2. CASE next = [Idle EXCEPT !.pc = "flush"]
    <3>1. next = [pc |-> "flush", type |-> "none", id |-> 0, tag |-> 0, data |-> << >>]
      BY <2>2 DEF Idle
    <3> QED BY <3>1 DEF CallRecs, InCall
  <2> QED BY <2>1, <2>2
<1>4. /\ rpc'[t] = next /\ \A u \in Threads \ {t} : rpc'[u] = rpc[u]
      /\ dreply'[t] = NoPkt /\ \A u \in Threads \ {t} : dreply'[u] = dreply[u]
      /\ rpc'[t].pc \notin InCall
  BY <1>1, <1>2, <1>3 DEF DrawTypeOK
<1>5. DrawTypeOK'
  <2>1. rpc' \in [Threads -> CallRecs] /\ \A u \in Threads : rpc'[u].pc \in InCall => rpc'[u].type # "none"
    BY <1>1, <1>3, <1>4 DEF DrawTypeOK
  <2>2. dbuf' \in Seq(Nat) /\ dreply' \in [Threads -> Packets \cup {NoPkt, Eof}]
        /\ pin' \in [DcProcs -> Threads \cup {NoThread}]
    <3>1. dbuf' \in Seq(Nat)
      BY <1>2 DEF DrawTypeOK
    <3>2. dreply' \in [Threads -> Packets \cup {NoPkt, Eof}]
      BY <1>2 DEF DrawTypeOK
    <3>3. pin' \in [DcProcs -> Threads \cup {NoThread}]
      BY <1>2 DEF DrawTypeOK
    <3> QED BY <3>1, <3>2, <3>3
  <2>3. result' \in [Threads -> Results]
    <3>1. rpc[t].id \in Nat /\ dreply[t].id \in Nat
      <4>1. rpc[t] \in CallRecs /\ dreply[t] \in Packets \cup {NoPkt, Eof}
        BY DEF DrawTypeOK
      <4>2. \A p \in Packets \cup {NoPkt, Eof} : p.id \in Nat
        BY DEF Packets, NoPkt, Eof
      <4> QED BY <4>1, <4>2 DEF CallRecs
    <3> QED BY <1>2, <3>1 DEF DrawTypeOK, Results
  <2> QED BY <1>2, <2>1, <2>2, <2>3 DEF DrawTypeOK
<1>6. OneOnItsWay'
  <2>1. \A p : \A u \in Threads : IsOf(p, u) => IsOf(p, u)' /\ rpc'[u].type = rpc[u].type
    BY <1>2, <1>4 DEF IsOf
  <2>2. \A u, v \in Threads : (rpc'[u].pc = "wait" /\ rpc'[v].pc = "wait" /\ rpc'[u].tag = rpc'[v].tag) => u = v
    BY <1>4 DEF OneOnItsWay, InCall
  <2>3. \A k \in DOMAIN stream' : \E u \in Threads : IsOf(stream[k], u)'
    <3> SUFFICES ASSUME NEW k \in DOMAIN stream' PROVE \E u \in Threads : IsOf(stream[k], u)'
      OBVIOUS
    <3>1. PICK u \in Threads : IsOf(stream[k], u)
      BY <1>2 DEF OneOnItsWay
    <3>2. u # t
      BY <1>2, <3>1 DEF IsOf
    <3> QED BY <1>2, <1>4, <3>1, <3>2 DEF IsOf
  <2> QED BY <1>2, <2>1, <2>2, <2>3 DEF OneOnItsWay
<1>7. AnswerIsOwn'
  BY <1>4 DEF AnswerIsOwn
<1>8. Pinned'
  <2>1. pin[ProcOf[t]] = t /\ ProcOf[t] \in DcProcs
    BY <1>2 DEF Pinned, InCall, DcProcs
  <2>2. pin'[ProcOf[t]] = NoThread /\ \A p \in DcProcs \ {ProcOf[t]} : pin'[p] = pin[p]
    BY <1>2, <2>1 DEF DrawTypeOK
  <2>3. ASSUME NEW u \in Threads \ {t} PROVE rpc'[u].pc \in InCall <=> pin'[ProcOf[u]] = u
    <3>1. ProcOf[u] \in DcProcs /\ u # NoThread
      BY ThreadAssumption DEF DcProcs
    <3>2. rpc'[u] = rpc[u]
      BY <1>4
    <3> QED BY <2>1, <2>2, <3>1, <3>2 DEF Pinned
  <2>4. pin'[ProcOf[t]] # t
    BY <2>2, ThreadAssumption
  <2> QED BY <1>4, <2>3, <2>4 DEF Pinned
<1>9. SendsBuffer'
  <2>1. ASSUME NEW u \in Threads, rpc'[u].pc \in InCall
        PROVE  /\ u # t /\ rpc'[u] = rpc[u]
               /\ rpc[u].type = "Twrdraw" => u \in Painters /\ rpc[t].type # "Twrdraw"
    <3>1. u # t /\ rpc'[u] = rpc[u]
      BY <1>4, <2>1
    <3>2. ASSUME rpc[u].type = "Twrdraw" PROVE u \in Painters
      BY <2>1, <3>1, <3>2 DEF SendsBuffer
    <3>3. ASSUME rpc[u].type = "Twrdraw", rpc[t].type = "Twrdraw" PROVE FALSE
      <4>1. t \in Painters /\ rpc[t].pc \in InCall /\ rpc[u].pc \in InCall
        BY <1>2, <2>1, <3>1, <3>3 DEF SendsBuffer, InCall
      <4> QED BY <3>1, <3>2, <3>3, <4>1, OnePainterCalls
    <3> QED BY <3>1, <3>2, <3>3
  <2>2. ASSUME NEW u \in Threads, rpc'[u].pc = "send"
        PROVE  rpc'[u].data = IF rpc'[u].type = "Twrdraw" THEN dbuf' ELSE << >>
    <3>1. /\ rpc'[u] = rpc[u] /\ (rpc[u].type = "Twrdraw" => rpc[t].type # "Twrdraw")
          /\ rpc[u].data = IF rpc[u].type = "Twrdraw" THEN dbuf ELSE << >>
      BY <2>1, <2>2 DEF SendsBuffer, InCall
    <3>2. CASE rpc[u].type = "Twrdraw"
      <4>1. dbuf' = dbuf
        BY <1>2, <3>1, <3>2
      <4> QED BY <3>1, <3>2, <4>1
    <3>3. CASE rpc[u].type # "Twrdraw"
      BY <3>1, <3>3
    <3> QED BY <3>2, <3>3
  <2> QED BY <2>1, <2>2 DEF SendsBuffer
<1>10. EachCommandOnce'
  <2>1. CASE rpc[t].type # "Twrdraw"
    <3>1. Sent' <=> Sent
      BY <1>4, <2>1 DEF Sent, InCall
    <3>2. UNCHANGED <<dbuf, painted, ncmd>>
      BY <1>2, <2>1
    <3> QED BY <3>1, <3>2, CommandsKept
  <2>2. CASE rpc[t].type = "Twrdraw"
    <3>1. Sent /\ dbuf' = << >> /\ painted' = painted /\ ncmd' = ncmd
      BY <1>2, <2>2 DEF Sent
    <3>2. In(dbuf)' = {} /\ In(painted)' = In(painted) /\ DOMAIN dbuf' = {}
      BY <3>1 DEF In
    <3>3. In(painted) = 1..ncmd
      BY <3>1 DEF EachCommandOnce
    <3> QED BY <3>1, <3>2, <3>3 DEF EachCommandOnce
  <2> QED BY <2>1, <2>2
<1>11. OwnReply'
  <2>1. ASSUME ~Refused(t) PROVE dreply[t].id = rpc[t].id
    <3>1. rpc[t].type \in DOMAIN RepliesTo
      BY <1>2 DEF DrawTypeOK, CallRecs, InCall
    <3>2. dreply[t].type # "eof"
      BY <2>1, <3>1 DEF Refused, RepliesTo
    <3>3. dreply[t] # Eof
      BY <3>2 DEF Eof
    <3> QED BY <1>2, <3>3 DEF AnswerIsOwn
  <2>2. ASSUME NEW u \in Threads, result'[u].rc = 0 PROVE result'[u].of = result'[u].id
    <3>1. CASE u = t
      <4>1. result'[t] = [id |-> rpc[t].id, of |-> dreply[t].id, rc |-> IF Refused(t) THEN -1 ELSE 0]
        BY <1>2 DEF DrawTypeOK
      <4> QED BY <2>1, <2>2, <3>1, <4>1
    <3>2. CASE u # t
      <4>1. result'[u] = result[u]
        BY <1>2, <3>2 DEF DrawTypeOK
      <4> QED BY <2>2, <4>1 DEF OwnReply
    <3> QED BY <3>1, <3>2
  <2> QED BY <2>2 DEF OwnReply
<1> QED BY <1>5, <1>6, <1>7, <1>8, <1>9, <1>10, <1>11

\* Every step keeps the invariant.
LEMMA DrawStepInv == DrawIInv /\ [DrawClientNext]_dcvars => DrawIInv'
<1> SUFFICES ASSUME DrawIInv, [DrawClientNext]_dcvars PROVE DrawIInv'
  OBVIOUS
<1>1. CASE Connect \/ ServerGone \/ (\E t \in Threads : RecvLength(t)) \/ UNCHANGED dcvars
  BY <1>1, DrawQuietInv
<1>2. ASSUME NEW t \in Threads, PlainCall(t) \/ ReadCall(t) \/ CopyCall(t) \/ MoveCall(t) \/ WrDraw(t)
      PROVE  DrawIInv'
  <2>1. {"Tplain", "Tread", "Tcopy", "Tmoveto", "Twrdraw"} \subseteq DOMAIN RepliesTo
    BY DEF RepliesTo
  <2>2. PICK type \in DOMAIN RepliesTo, data \in {dbuf, << >>} :
          /\ Rpc(t, type, data) /\ rpc[t].pc \in {"idle", "flush"}
          /\ data = IF type = "Twrdraw" THEN dbuf ELSE << >>
          /\ type = "Twrdraw" => t \in Painters
    BY <1>2, <2>1 DEF PlainCall, ReadCall, CopyCall, MoveCall, WrDraw
  <2> QED BY <2>2, DrawRpcInv
<1> QED BY <1>1, <1>2, DrawFlushInv, DrawPaintInv, DrawSendInv, DrawServeInv, DrawPacketInv,
           DrawEofInv, DrawReturnInv DEF DrawClientNext

\* The inductive invariant holds in every state of every behaviour.
THEOREM DrawInvariance == DrawClientSpec => []DrawIInv
BY DrawInitInv, DrawStepInv, PTL DEF DrawClientSpec

\* For any number of threads, procs and tags: a call of displayrpc() that
\* succeeds has the answer to its own request, and each drawing command is
\* sent to devdraw once.
THEOREM DrawCorrect == DrawClientSpec => []CallsApart
<1>1. ASSUME DrawIInv PROVE CallsApart
  <2>1. ASSUME NEW c \in 1..ncmd PROVE \E k \in DOMAIN (painted \o dbuf) : (painted \o dbuf)[k] = c
    <3> DEFINE both == painted \o dbuf
    <3>1. painted \in Seq(Nat) /\ dbuf \in Seq(Nat)
      BY <1>1 DEF DrawIInv, DrawTypeOK
    <3>2. /\ Len(painted) \in Nat /\ Len(dbuf) \in Nat
          /\ DOMAIN painted = 1..Len(painted) /\ DOMAIN dbuf = 1..Len(dbuf)
          /\ DOMAIN both = 1..(Len(painted) + Len(dbuf))
          /\ \A k \in 1..(Len(painted) + Len(dbuf)) :
                both[k] = IF k <= Len(painted) THEN painted[k] ELSE dbuf[k - Len(painted)]
      BY <3>1, ConcatProperties, LenProperties
    <3> HIDE DEF both
    <3>3. c \in In(painted) \/ c \in In(dbuf)
      BY <1>1, <2>1 DEF DrawIInv, EachCommandOnce
    <3>4. CASE c \in In(painted)
      <4>1. PICK k \in 1..Len(painted) : painted[k] = c
        BY <3>2, <3>4 DEF In
      <4>2. k \in DOMAIN both /\ both[k] = c
        BY <3>2, <4>1
      <4> QED BY <4>2 DEF both
    <3>5. CASE c \in In(dbuf)
      <4>1. PICK k \in 1..Len(dbuf) : dbuf[k] = c
        BY <3>2, <3>5 DEF In
      <4>2. k + Len(painted) \in DOMAIN both /\ both[k + Len(painted)] = c
        BY <3>2, <4>1
      <4> QED BY <4>2 DEF both
    <3> QED BY <3>3, <3>4, <3>5
  <2> QED BY <1>1, <2>1 DEF DrawIInv, EachCommandOnce, PaintedOnce, CallsApart
<1> QED BY <1>1, DrawInvariance, PTL

-----------------------------------------------------------------------------
(* partfs: the table of parts.                                            *)

Entries == 0..(NPART - 1)
EntryRecs == [path : Int, name : PartNames \cup {NoName, "data"}, base : Int, length : Int]
Used == {i \in Entries : Named(i)}
Extent == [base : Int, length : Int]

\* Every variable has its type.
PartTypeOK ==
    /\ ptab \in [Entries -> EntryRecs] /\ nparts \in Nat /\ newpath \in Qdata..MaxPath
    /\ made \in [Qdata..MaxPath -> Extent]

\* nparts counts the entries in use; names and paths are unique, and the
\* next path is new.
EntriesOK ==
    /\ nparts = Cardinality(Used)
    /\ \A i, j \in Used : ptab[i].name = ptab[j].name \/ ptab[i].path = ptab[j].path => i = j
    /\ \A i \in Used : ptab[i].path \in Qdata..newpath
    /\ defined = {ptab[i].name : i \in Used}

\* The first entry, whose length is taken for the size of the disk, is that
\* of "data" until a command names it.
DataFirst == Qdata \notin spoilt => Named(0) /\ ptab[0].path = Qdata /\ ptab[0].length = DiskSize

\* An entry that no refused command has changed is the extent its path stands for.
ExtentsKept ==
    \A i \in Used : ptab[i].path \notin spoilt =>
        /\ made[ptab[i].path] = [base |-> ptab[i].base, length |-> ptab[i].length]
        /\ Qdata \notin spoilt => ptab[i].base + ptab[i].length <= DiskSize

PartIInv == PartTypeOK /\ EntriesOK /\ DataFirst /\ ExtentsKept /\ OnlyItsSectors

\* A set of naturals that is not empty has a least member.
LEMMA LeastOf ==
  ASSUME NEW T \in SUBSET Nat, T # {}
  PROVE  \E n \in T : \A m \in T : n <= m
<1> DEFINE R == OpToRel(<, Nat)
<1>1. IsWellFoundedOn(R, Nat)
  BY NatLessThanWellFounded
<1>2. \A x, y \in Nat : y < x => <<y, x>> \in R
  BY DEF OpToRel
<1> HIDE DEF R
<1>3. PICK n \in T : \A m \in T : ~(<<m, n>> \in R)
  BY <1>1, WFMin
<1>4. \A m \in T : ~(m < n)
  BY <1>2, <1>3
<1> QED BY <1>4

\* A set of entries that is not empty has a last one.
LEMMA LastOf ==
  ASSUME NEW T \in SUBSET Entries, T # {}
  PROVE  \E n \in T : \A m \in T : m <= n
<1>1. NPART \in Nat \ {0} /\ \A x \in T : x \in Int /\ 0 <= x /\ x <= NPART - 1
  BY PartAssumption DEF Entries
<1> DEFINE S == {(NPART - 1) - x : x \in T}
<1>2. S \in SUBSET Nat
  BY <1>1
<1>3. S # {}
  OBVIOUS
<1>4. PICK z \in S : \A y \in S : z <= y
  BY <1>2, <1>3, LeastOf
<1>5. PICK n \in T : z = (NPART - 1) - n
  OBVIOUS
<1>6. ASSUME NEW m \in T PROVE m <= n
  <2>1. (NPART - 1) - m \in S
    OBVIOUS
  <2> QED BY <1>1, <1>4, <1>5, <2>1
<1> QED BY <1>6

\* The entries used up to one are counted among all, and a free entry has
\* fewer used ones before it than its index says.
LEMMA CountsUpTo ==
  ASSUME NEW i \in Entries
  PROVE  /\ IsFiniteSet(Used) /\ Cardinality(Used) \in Nat
         /\ IsFiniteSet({j \in 0..i : Named(j)})
         /\ UsedUpTo(i) \in Nat /\ UsedUpTo(i) <= Cardinality(Used)
         /\ ~Named(i) => UsedUpTo(i) <= i
         /\ Named(i) => UsedUpTo(i) >= 1
<1> DEFINE upto == {j \in 0..i : Named(j)}
<1>1. NPART \in Nat \ {0} /\ i \in Nat /\ i <= NPART - 1 /\ 0..i \subseteq Entries
  BY PartAssumption DEF Entries
<1>2. IsFiniteSet(Entries)
  BY <1>1, FS_Interval DEF Entries
<1>3. Used \in SUBSET Entries /\ upto \in SUBSET Used
  BY <1>1 DEF Used
<1>4. IsFiniteSet(Used)
  BY <1>2, <1>3, FS_Subset
<1>5. IsFiniteSet(upto) /\ Cardinality(upto) <= Cardinality(Used)
  BY <1>3, <1>4, FS_Subset
<1>6. Cardinality(Used) \in Nat /\ Cardinality(upto) \in Nat
  BY <1>4, <1>5, FS_CardinalityType
<1>7. ASSUME ~Named(i) PROVE Cardinality(upto) <= i
  <2>1. upto \in SUBSET (0..(i - 1))
    BY <1>1, <1>7
  <2>2. IsFiniteSet(0..(i - 1)) /\ Cardinality(0..(i - 1)) = i
    BY <1>1, FS_Interval
  <2> QED BY <2>1, <2>2, FS_Subset
<1>8. ASSUME Named(i) PROVE Cardinality(upto) >= 1
  <2>1. i \in upto
    BY <1>1, <1>8
  <2>2. Cardinality(upto) # 0
    BY <1>5, <2>1, FS_EmptySet
  <2> QED BY <1>6, <2>2
<1> QED BY <1>4, <1>5, <1>6, <1>7, <1>8 DEF UsedUpTo

\* lookuppart() comes by every entry in use.
LEMMA UsedIsScanned ==
  ASSUME PartIInv
  PROVE  Used \subseteq Scanned /\ Scanned \subseteq Entries
<1>1. ASSUME NEW i \in Used PROVE i \in Scanned
  <2>1. UsedUpTo(i) <= nparts /\ i \in Entries /\ Named(i)
    BY CountsUpTo DEF Used, PartIInv, EntriesOK
  <2> QED BY <2>1 DEF Scanned, Entries
<1> QED BY <1>1 DEF Scanned, Entries

\* lookuppart() by name: the entry that has the name, or a free one for a
\* name that no entry has.
LEMMA LookupName ==
  ASSUME PartIInv, NEW name \in PartNames, lookupname(name) # -1
  PROVE  /\ lookupname(name) \in Entries
         /\ Named(lookupname(name)) => ptab[lookupname(name)].name = name
         /\ ~Named(lookupname(name)) => \A j \in Used : ptab[j].name # name
<1> DEFINE hit == {i \in Scanned : ptab[i].name = name}
           holes == {i \in Scanned : ~Named(i)}
<1>0. NPART \in Nat \ {0} /\ nparts \in Nat
  BY PartAssumption DEF PartIInv, PartTypeOK
<1>1. \A i \in hit : i \in Used /\ i \in Entries
  <2>1. name # NoName
    BY PartNameAssumption
  <2> QED BY <2>1, UsedIsScanned DEF Used, Named
<1>2. CASE hit # {}
  <2>1. PICK k \in hit : TRUE
    BY <1>2
  <2>2. \A j \in hit : j = k
    <3>1. \A j \in hit : j \in Used /\ k \in Used /\ ptab[j].name = ptab[k].name
      BY <1>1, <2>1
    <3> QED BY <3>1 DEF PartIInv, EntriesOK
  <2>3. k \in Int
    BY <1>1, <2>1 DEF Entries
  <2>4. lookupname(name) = k
    <3>1. lookupname(name) = CHOOSE i \in hit : \A j \in hit : i <= j
      BY <1>2 DEF lookupname
    <3>2. \A j \in hit : k <= j
      BY <2>2, <2>3
    <3> QED BY <2>1, <2>2, <3>1, <3>2
  <2> QED BY <1>1, <2>1, <2>4 DEF Used
<1>3. CASE hit = {}
  <2>1. lookupname(name) = FreeEntry(holes) /\ nparts # NPART
    BY <1>3 DEF lookupname
  <2>2. \A j \in Used : ptab[j].name # name
    BY <1>3, UsedIsScanned
  <2>3. FreeEntry(holes) \in Entries /\ ~Named(FreeEntry(holes))
    <3>1. CASE holes # {}
      <4>1. holes \in SUBSET Entries
        BY UsedIsScanned
      <4>2. PICK n \in holes : \A m \in holes : m <= n
        BY <3>1, <4>1, LastOf
      <4>3. FreeEntry(holes) = CHOOSE i \in holes : \A j \in holes : j <= i
        BY <3>1 DEF FreeEntry
      <4>4. FreeEntry(holes) \in holes
        BY <4>2, <4>3
      <4> QED BY <4>1, <4>4
    <3>2. CASE holes = {}
      <4>1. FreeEntry(holes) = nparts
        BY <3>2 DEF FreeEntry
      <4>2. nparts < NPART
        <5>1. IsFiniteSet(Entries) /\ Cardinality(Entries) = NPART
          BY <1>0, FS_Interval DEF Entries
        <5>2. Cardinality(Used) <= NPART
          BY <5>1, FS_Subset DEF Used
        <5> QED BY <1>0, <2>1, <5>2 DEF PartIInv, EntriesOK
      <4>3. nparts \in Entries
        BY <1>0, <4>2 DEF Entries
      <4>4. ASSUME NEW i \in 0..(nparts - 1) PROVE Named(i)
        <5>1. i \in Entries /\ i \in Int /\ i < nparts
          BY <1>0, <4>2 DEF Entries
        <5> SUFFICES ASSUME ~Named(i) PROVE FALSE
          OBVIOUS
        <5>2. UsedUpTo(i) <= i /\ UsedUpTo(i) \in Nat
          BY <5>1, CountsUpTo
        <5>3. i \in Scanned
          <6>1. UsedUpTo(i) < nparts
            BY <1>0, <5>1, <5>2
          <6> QED BY <5>1, <6>1 DEF Scanned, Entries
        <5> QED BY <3>2, <5>3
      <4>5. ASSUME Named(nparts) PROVE FALSE
        <5>1. 0..nparts \in SUBSET Used
          BY <1>0, <4>3, <4>4, <4>5 DEF Used, Entries
        <5>2. Cardinality(0..nparts) = nparts + 1
          BY <1>0, FS_Interval
        <5>3. Cardinality(0..nparts) <= Cardinality(Used)
          BY <4>3, <5>1, CountsUpTo, FS_Subset
        <5> QED BY <1>0, <5>2, <5>3 DEF PartIInv, EntriesOK
      <4> QED BY <4>1, <4>3, <4>5
    <3> QED BY <3>1, <3>2
  <2> QED BY <2>1, <2>2, <2>3
<1> QED BY <1>2, <1>3

\* lookuppart() by path: the entry that has it.
LEMMA LookupPath ==
  ASSUME PartIInv, NEW path, lookuppath(path) # -1
  PROVE  lookuppath(path) \in Used /\ ptab[lookuppath(path)].path = path
<1> DEFINE hit == {i \in Scanned : Named(i) /\ ptab[i].path = path}
<1>1. hit # {} /\ lookuppath(path) = CHOOSE i \in hit : \A j \in hit : i <= j
  BY DEF lookuppath
<1>2. \A i \in hit : i \in Used /\ i \in Int
  BY UsedIsScanned DEF Used, Entries
<1>3. PICK k \in hit : TRUE
  BY <1>1
<1>4. \A j \in hit : j = k
  <2>1. \A j \in hit : j \in Used /\ k \in Used /\ ptab[j].path = ptab[k].path
    BY <1>2, <1>3
  <2> QED BY <2>1 DEF PartIInv, EntriesOK
<1>5. \A j \in hit : k <= j
  BY <1>2, <1>3, <1>4
<1>6. lookuppath(path) = k
  BY <1>1, <1>3, <1>4, <1>5
<1> QED BY <1>2, <1>3, <1>6

\* The count goes up with every entry in use, and only there.
LEMMA CountsStep ==
  ASSUME NEW i \in Entries, i # 0
  PROVE  /\ i - 1 \in Entries
         /\ UsedUpTo(i) = UsedUpTo(i - 1) + (IF Named(i) THEN 1 ELSE 0)
<1>1. i \in Nat /\ i - 1 \in Nat /\ i - 1 \in Entries
  BY PartAssumption DEF Entries
<1> DEFINE S == {j \in 0..(i - 1) : Named(j)}
           T == {j \in 0..i : Named(j)}
<1>2. IsFiniteSet(S) /\ Cardinality(S) \in Nat
  BY <1>1, CountsUpTo DEF UsedUpTo
<1>3. i \notin S /\ UsedUpTo(i) = Cardinality(T) /\ UsedUpTo(i - 1) = Cardinality(S)
  BY <1>1 DEF UsedUpTo
<1>4. CASE Named(i)
  <2>1. T = S \cup {i}
    BY <1>1, <1>4
  <2>2. Cardinality(T) = Cardinality(S) + 1
    BY <1>2, <1>3, <2>1, FS_AddElement
  <2> QED BY <1>1, <1>3, <1>4, <2>2
<1>5. CASE ~Named(i)
  <2>1. T = S
    BY <1>1, <1>5
  <2>2. Cardinality(T) = Cardinality(S)
    BY <2>1
  <2> QED BY <1>1, <1>2, <1>3, <1>5, <2>2
<1> QED BY <1>4, <1>5

\* Two entries in use have different counts.
LEMMA CountsDiffer ==
  ASSUME NEW i \in Used, NEW j \in Used, i < j
  PROVE  UsedUpTo(i) < UsedUpTo(j)
<1>1. i \in Entries /\ j \in Entries /\ i \in Int /\ j \in Int /\ Named(j) /\ 0 <= i
  BY DEF Used, Entries
<1> DEFINE S == {k \in 0..i : Named(k)}
           T == {k \in 0..j : Named(k)}
<1>2. IsFiniteSet(T) /\ S \in SUBSET T
  BY <1>1, CountsUpTo
<1>3. j \in T /\ j \notin S
  BY <1>1
<1>4. Cardinality(S) <= Cardinality(T) /\ Cardinality(S) # Cardinality(T)
  BY <1>2, <1>3, FS_Subset
<1>5. Cardinality(S) \in Nat /\ Cardinality(T) \in Nat
  BY <1>1, CountsUpTo DEF UsedUpTo
<1> QED BY <1>4, <1>5 DEF UsedUpTo

\* Each number up to nparts is the count at an entry in use.
LEMMA CountsReach ==
  ASSUME PartIInv, NEW n \in 1..nparts
  PROVE  \E i \in Used : UsedUpTo(i) = n
<1> DEFINE T == {i \in Entries : UsedUpTo(i) >= n}
<1>0. nparts \in Nat /\ n \in Nat /\ n >= 1 /\ n <= nparts /\ NPART \in Nat \ {0}
  BY PartAssumption DEF PartIInv, PartTypeOK
<1>1. NPART - 1 \in T
  <2>1. UsedUpTo(NPART - 1) = Cardinality(Used)
    BY DEF UsedUpTo, Used, Entries
  <2>2. nparts = Cardinality(Used)
    BY DEF PartIInv, EntriesOK
  <2> QED BY <1>0, <2>1, <2>2 DEF Entries
<1>2. T \in SUBSET Nat /\ T # {}
  BY <1>1 DEF Entries
<1> HIDE DEF T
<1>3. PICK i \in T : \A m \in T : i <= m
  BY <1>2, LeastOf
<1> USE DEF T
<1>4. i \in Entries /\ i \in Nat /\ UsedUpTo(i) \in Nat /\ UsedUpTo(i) >= n
  BY <1>2, <1>3, CountsUpTo
<1>5. CASE i = 0
  <2>1. Named(0)
    <3> SUFFICES ASSUME ~Named(0) PROVE FALSE
      OBVIOUS
    <3>1. UsedUpTo(0) <= 0
      BY <1>4, <1>5, CountsUpTo
    <3> QED BY <1>0, <1>4, <1>5, <3>1
  <2>2. UsedUpTo(0) = 1
    <3>1. {j \in 0..0 : Named(j)} = {0}
      BY <2>1
    <3> QED BY <3>1, FS_Singleton DEF UsedUpTo
  <2> QED BY <1>0, <1>4, <1>5, <2>1, <2>2 DEF Used
<1>6. CASE i # 0
  <2>1. i - 1 \in Entries /\ UsedUpTo(i) = UsedUpTo(i - 1) + (IF Named(i) THEN 1 ELSE 0)
    BY <1>4, <1>6, CountsStep
  <2>2. UsedUpTo(i - 1) \in Nat
    BY <2>1, CountsUpTo
  <2>3. ~(UsedUpTo(i - 1) >= n)
    <3> SUFFICES ASSUME UsedUpTo(i - 1) >= n PROVE FALSE
      OBVIOUS
    <3>1. i - 1 \in T
      BY <2>1
    <3> QED BY <1>3, <1>4, <3>1
  <2>4. Named(i) /\ UsedUpTo(i) = n
    BY <1>0, <1>4, <2>1, <2>2, <2>3
  <2> QED BY <1>4, <2>4 DEF Used
<1> QED BY <1>5, <1>6

\* A scan of the directory gives the names of the entries in use.
LEMMA DirgenIsAll ==
  ASSUME PartIInv
  PROVE  {dirgen(n) : n \in 0..(nparts - 1)} = defined
<1>0. nparts \in Nat /\ defined = {ptab[i].name : i \in Used} /\ nparts = Cardinality(Used)
  BY DEF PartIInv, PartTypeOK, EntriesOK
<1>1. ASSUME NEW n \in 0..(nparts - 1), NEW i \in Used, UsedUpTo(i) = n + 1
      PROVE  dirgen(n) = ptab[i].name
  <2> DEFINE hit == {k \in Scanned : Named(k) /\ UsedUpTo(k) = n + 1}
  <2>1. i \in hit
    BY <1>1, UsedIsScanned DEF Used
  <2>2. \A k \in hit : k = i
    <3> SUFFICES ASSUME NEW k \in hit, k # i PROVE FALSE
      OBVIOUS
    <3>1. k \in Used /\ UsedUpTo(k) = UsedUpTo(i) /\ k \in Int /\ i \in Int
      BY <1>1, UsedIsScanned DEF Used, Entries
    <3>2. UsedUpTo(i) \in Nat
      BY CountsUpTo DEF Used
    <3>3. k < i \/ i < k
      BY <3>1
    <3> QED BY <3>1, <3>2, <3>3, CountsDiffer
  <2>3. (CHOOSE k \in hit : TRUE) = i /\ hit # {}
    BY <2>1, <2>2
  <2>4. ~(n >= nparts)
    BY <1>0
  <2> QED BY <2>3, <2>4 DEF dirgen
<1>2. ASSUME NEW n \in 0..(nparts - 1) PROVE dirgen(n) \in defined
  <2>1. n + 1 \in 1..nparts
    BY <1>0
  <2>2. PICK i \in Used : UsedUpTo(i) = n + 1
    BY <2>1, CountsReach
  <2> QED BY <1>0, <1>1, <2>2
<1>3. ASSUME NEW i \in Used PROVE \E n \in 0..(nparts - 1) : dirgen(n) = ptab[i].name
  <2>1. UsedUpTo(i) \in Nat /\ UsedUpTo(i) <= nparts /\ UsedUpTo(i) >= 1
    BY <1>0, CountsUpTo DEF Used
  <2>2. UsedUpTo(i) - 1 \in 0..(nparts - 1) /\ UsedUpTo(i) = (UsedUpTo(i) - 1) + 1
    BY <1>0, <2>1
  <2> QED BY <1>1, <2>2
<1> QED BY <1>0, <1>2, <1>3

\* At the start there is "data".
LEMMA PartInitInv == PartfsInit => PartIInv
<1> SUFFICES ASSUME PartfsInit PROVE PartIInv
  OBVIOUS
<1>0. NPART \in Nat \ {0} /\ DiskSize \in Nat /\ MaxPath \in Nat /\ MaxPath >= 2 /\ Qdata = 2
  BY PartAssumption DEF Qdata
<1> DEFINE data == [path |-> Qdata, name |-> "data", base |-> 0, length |-> DiskSize]
<1>1. ptab = [i \in Entries |-> IF i = 0 THEN data ELSE NoPart] /\ 0 \in Entries
  BY <1>0 DEF PartfsInit, Entries
<1>2. ptab[0] = data /\ Used = {0}
  BY <1>1 DEF Used, Named, NoPart, NoName
<1>3. PartTypeOK
  <2>1. data \in EntryRecs /\ NoPart \in EntryRecs
    BY <1>0 DEF EntryRecs, NoPart
  <2>2. ptab \in [Entries -> EntryRecs]
    BY <1>1, <2>1
  <2>3. made \in [Qdata..MaxPath -> Extent]
    BY <1>0 DEF PartfsInit, Extent
  <2>4. nparts \in Nat /\ newpath \in Qdata..MaxPath
    BY <1>0 DEF PartfsInit
  <2> QED BY <2>2, <2>3, <2>4 DEF PartTypeOK
<1>4. EntriesOK
  <2>1. nparts = Cardinality(Used)
    BY <1>2, FS_Singleton DEF PartfsInit
  <2>2. \A i \in Used : ptab[i].path \in Qdata..newpath
    BY <1>0, <1>2 DEF PartfsInit
  <2>3. defined = {ptab[i].name : i \in Used}
    <3>1. ptab[0].name = "data" /\ defined = {"data"}
      BY <1>2 DEF PartfsInit
    <3> QED BY <1>2, <3>1
  <2> QED BY <1>2, <2>1, <2>2, <2>3 DEF EntriesOK
<1>5. DataFirst
  BY <1>2 DEF DataFirst, Named, NoName
<1>6. ExtentsKept
  <2>1. made[Qdata] = [base |-> 0, length |-> DiskSize]
    BY <1>0 DEF PartfsInit
  <2> QED BY <1>0, <1>2, <2>1 DEF ExtentsKept
<1>7. OnlyItsSectors
  BY DEF PartfsInit, OnlyItsSectors
<1> QED BY <1>3, <1>4, <1>5, <1>6, <1>7 DEF PartIInv

\* Requests that leave the table alone keep the invariant, if what they read
\* or write is right.
LEMMA PartTableUnchanged ==
  ASSUME PartIInv, UNCHANGED <<ptab, nparts, newpath, made, spoilt, defined>>, OnlyItsSectors'
  PROVE  PartIInv'
<1>1. Used' = Used
  BY DEF Used, Named
<1>2. PartTypeOK' /\ EntriesOK'
  BY <1>1 DEF PartIInv, PartTypeOK, EntriesOK
<1>3. DataFirst' /\ ExtentsKept'
  BY <1>1 DEF PartIInv, DataFirst, ExtentsKept, Named
<1> QED BY <1>2, <1>3 DEF PartIInv

\* A read or write stays within the extent that its path stands for.
LEMMA PartIoInv ==
  ASSUME PartIInv, NEW x \in PartFids, NEW offset \in 0..DiskSize, NEW count \in 1..2, Rio(x, offset, count)
  PROVE  PartIInv'
<1> DEFINE i == lookuppath(fidpath[x])
           n == updatefwin(ptab[i], offset, count)
<1>0. UNCHANGED <<ptab, nparts, newpath, fidpath, made, spoilt, defined>>
  BY DEF Rio
<1>1. CASE pio' = NoIo
  BY <1>0, <1>1, PartTableUnchanged DEF OnlyItsSectors
<1>2. CASE pio' # NoIo
  <2>1. i # -1 /\ n > 0 /\ pio' = [path |-> fidpath[x], from |-> ptab[i].base + offset, n |-> n]
    BY <1>2 DEF Rio
  <2>2. i \in Used /\ ptab[i].path = fidpath[x] /\ i \in Entries
    BY <2>1, LookupPath DEF Used
  <2> HIDE DEF i
  <2>3. ptab[i].base \in Int /\ ptab[i].length \in Int /\ DiskSize \in Nat /\ offset \in Nat /\ count \in Nat
    <3>1. ptab[i] \in EntryRecs
      BY <2>2 DEF PartIInv, PartTypeOK
    <3>2. DiskSize \in Nat
      BY PartAssumption
    <3>3. ptab[i].base \in Int /\ ptab[i].length \in Int
      BY <3>1 DEF EntryRecs
    <3>4. offset \in Nat /\ count \in Nat
      BY <3>2
    <3> QED BY <3>2, <3>3, <3>4
  <2>4. offset + n <= ptab[i].length /\ n \in Int
    BY <2>1, <2>3 DEF updatefwin
  <2>5. ASSUME fidpath[x] \notin spoilt
        PROVE  /\ ptab[i].base + offset >= made[fidpath[x]].base
               /\ ptab[i].base + offset + n <= made[fidpath[x]].base + made[fidpath[x]].length
               /\ Qdata \notin spoilt => ptab[i].base + offset + n <= DiskSize
    <3>1. /\ made[fidpath[x]] = [base |-> ptab[i].base, length |-> ptab[i].length]
          /\ Qdata \notin spoilt => ptab[i].base + ptab[i].length <= DiskSize
      BY <2>2, <2>5 DEF PartIInv, ExtentsKept
    <3> HIDE DEF n
    <3> QED BY <2>3, <2>4, <3>1
  <2>6. OnlyItsSectors'
    <3> HIDE DEF n
    <3> QED BY <1>0, <2>1, <2>5 DEF OnlyItsSectors
  <2> QED BY <1>0, <2>6, PartTableUnchanged
<1> QED BY <1>1, <1>2

\* Entries that a step leaves alone keep their extents.
LEMMA OthersExtents ==
  ASSUME PartIInv, \A j \in Used' : j \in Used /\ ptab'[j] = ptab[j], UNCHANGED <<made, spoilt>>
  PROVE  ExtentsKept'
<1> SUFFICES ASSUME NEW j \in Used', ptab'[j].path \notin spoilt'
             PROVE  /\ made'[ptab'[j].path] = [base |-> ptab'[j].base, length |-> ptab'[j].length]
                    /\ Qdata \notin spoilt' => ptab'[j].base + ptab'[j].length <= DiskSize
  BY DEF ExtentsKept
<1>1. j \in Used /\ ptab'[j] = ptab[j] /\ made' = made /\ spoilt' = spoilt
  OBVIOUS
<1>2. /\ made[ptab[j].path] = [base |-> ptab[j].base, length |-> ptab[j].length]
      /\ Qdata \notin spoilt => ptab[j].base + ptab[j].length <= DiskSize
  BY <1>1 DEF PartIInv, ExtentsKept
<1> QED BY <1>1, <1>2

\* delpart: the entry is free, its name no longer defined.
LEMMA PartDelInv ==
  ASSUME PartIInv, NEW name \in PartNames, Cmdelpart(name)
  PROVE  PartIInv'
<1> DEFINE i == lookupname(name)
<1>0. OnlyItsSectors'
  BY DEF Cmdelpart, OnlyItsSectors
<1>1. CASE UNCHANGED <<ptab, nparts, defined>>
  BY <1>0, <1>1, PartTableUnchanged DEF Cmdelpart
<1>2. CASE ~UNCHANGED <<ptab, nparts, defined>>
  <2>1. /\ i # -1 /\ Named(i) /\ ptab[i].path # Qdata
        /\ ptab' = [ptab EXCEPT ![i].name = NoName, ![i].path = -1]
        /\ nparts' = nparts - 1 /\ defined' = defined \ {name}
        /\ UNCHANGED <<newpath, fidpath, made, spoilt>>
    BY <1>2 DEF Cmdelpart
  <2>2. i \in Entries /\ ptab[i].name = name /\ i \in Used
    BY <2>1, LookupName DEF Used
  <2> HIDE DEF i
  <2>3. /\ ptab[i] \in EntryRecs /\ ptab'[i] = [ptab[i] EXCEPT !.name = NoName, !.path = -1]
        /\ \A j \in Entries \ {i} : ptab'[j] = ptab[j]
    BY <2>1, <2>2 DEF PartIInv, PartTypeOK
  <2>4. ptab'[i] \in EntryRecs /\ ptab'[i].name = NoName
    <3>1. ptab'[i] = [path |-> -1, name |-> NoName, base |-> ptab[i].base, length |-> ptab[i].length]
      BY <2>3 DEF EntryRecs
    <3>2. ptab[i].base \in Int /\ ptab[i].length \in Int
      BY <2>3 DEF EntryRecs
    <3>3. \A b, l \in Int : [path |-> -1, name |-> NoName, base |-> b, length |-> l] \in EntryRecs
      BY DEF EntryRecs
    <3>4. ptab'[i].name = NoName
      BY <3>1
    <3> QED BY <3>1, <3>2, <3>3, <3>4
  <2>5. Used' = Used \ {i}
    BY <2>2, <2>3, <2>4 DEF Used, Named
  <2>6. IsFiniteSet(Used) /\ Cardinality(Used) \in Nat
    BY <2>2, CountsUpTo
  <2>7. Cardinality(Used') = Cardinality(Used) - 1
    BY <2>2, <2>5, <2>6, FS_RemoveElement
  <2>8. Cardinality(Used) # 0
    BY <2>2, <2>6, FS_EmptySet
  <2>9. \A j \in Used' : j \in Used /\ j # i /\ j \in Entries /\ ptab'[j] = ptab[j]
    BY <2>3, <2>5 DEF Used
  <2>10. PartTypeOK'
    <3>1. ptab' \in [Entries -> EntryRecs]
      BY <2>1, <2>4 DEF PartIInv, PartTypeOK
    <3>2. nparts' \in Nat
      <4>1. nparts = Cardinality(Used)
        BY DEF PartIInv, EntriesOK
      <4>2. nparts' = nparts - 1
        BY <2>1
      <4> QED BY <2>6, <2>8, <4>1, <4>2
    <3> QED BY <2>1, <3>1, <3>2 DEF PartIInv, PartTypeOK
  <2>11. EntriesOK'
    <3>1. nparts' = Cardinality(Used')
      BY <2>1, <2>7 DEF PartIInv, EntriesOK
    <3>2. \A j, k \in Used' : ptab'[j].name = ptab'[k].name \/ ptab'[j].path = ptab'[k].path => j = k
      BY <2>9 DEF PartIInv, EntriesOK
    <3>3. \A j \in Used' : ptab'[j].path \in Qdata..newpath'
      BY <2>1, <2>9 DEF PartIInv, EntriesOK
    <3>4. defined' = {ptab'[j].name : j \in Used'}
      <4>1. defined = {ptab[j].name : j \in Used}
        BY DEF PartIInv, EntriesOK
      <4>2. \A j \in Used : ptab[j].name = name <=> j = i
        BY <2>2 DEF PartIInv, EntriesOK
      <4>3. {ptab'[j].name : j \in Used'} = {ptab[j].name : j \in Used \ {i}}
        BY <2>5, <2>9
      <4> QED BY <2>1, <4>1, <4>2, <4>3
    <3> QED BY <3>1, <3>2, <3>3, <3>4 DEF EntriesOK
  <2>12. DataFirst'
    <3> SUFFICES ASSUME Qdata \notin spoilt
                 PROVE  ptab'[0].name # NoName /\ ptab'[0].path = Qdata /\ ptab'[0].length = DiskSize
      BY <2>1 DEF DataFirst, Named
    <3>1. Named(0) /\ ptab[0].path = Qdata /\ ptab[0].length = DiskSize
      BY DEF PartIInv, DataFirst
    <3>2. 0 \in Entries
      BY PartAssumption DEF Entries
    <3>3. 0 # i
      BY <2>1, <3>1
    <3>4. ptab'[0] = ptab[0]
      BY <2>3, <3>2, <3>3
    <3>5. ptab[0].name # NoName
      BY <3>1 DEF Named
    <3> QED BY <3>1, <3>4, <3>5
  <2>13. ExtentsKept'
    BY <2>1, <2>9, OthersExtents
  <2> QED BY <1>0, <2>10, <2>11, <2>12, <2>13 DEF PartIInv
<1> QED BY <1>1, <1>2

\* part: a name that is known gets a new path and extent, a new name an entry
\* that was free; a command that is refused changes the entry and its path is spoilt.
LEMMA PartDefInv ==
  ASSUME PartIInv, NEW name \in PartNames, NEW base \in Int, NEW end \in Int, Cmpart(name, base, end)
  PROVE  PartIInv'
<1> DEFINE i == lookupname(name)
           e == [ptab[i] EXCEPT !.base = base, !.length = end - base]
           f == [e EXCEPT !.name = name, !.path = newpath + 1]
           size == IF i = 0 THEN end - base ELSE ptab[0].length
           exceeds == base < 0 \/ base >= size \/ end > size
<1>0. OnlyItsSectors'
  BY DEF Cmpart, OnlyItsSectors
<1>1. CASE i = -1
  BY <1>0, <1>1, PartTableUnchanged DEF Cmpart
<1>2. CASE i # -1
  <2>1. /\ i \in Entries /\ (Named(i) => i \in Used /\ ptab[i].name = name)
        /\ (~Named(i) => i \notin Used /\ \A j \in Used : ptab[j].name # name)
    BY <1>2, LookupName DEF Used
  <2>2. \/ /\ exceeds /\ ptab' = [ptab EXCEPT ![i] = e]
           /\ spoilt' = (IF Named(i) THEN spoilt \cup {ptab[i].path} ELSE spoilt)
           /\ UNCHANGED <<nparts, newpath, made, defined>>
        \/ /\ ~exceeds /\ ptab' = [ptab EXCEPT ![i] = f]
           /\ nparts' = (IF Named(i) THEN nparts ELSE nparts + 1)
           /\ newpath' = newpath + 1 /\ defined' = defined \cup {name}
           /\ made' = [made EXCEPT ![newpath + 1] = [base |-> base, length |-> end - base]]
           /\ spoilt' = (IF i = 0 THEN spoilt \cup {Qdata} ELSE spoilt)
    BY <1>2 DEF Cmpart
  <2>3. newpath < MaxPath
    BY DEF Cmpart
  <2>4. /\ newpath \in Nat /\ MaxPath \in Nat /\ Qdata = 2 /\ newpath >= 2 /\ newpath + 1 \in Qdata..MaxPath
        /\ \A p \in Qdata..newpath : p # newpath + 1 /\ p \in Qdata..MaxPath
    <3>1. newpath \in 2..MaxPath /\ MaxPath \in Nat /\ Qdata = 2
      BY PartAssumption DEF PartIInv, PartTypeOK, Qdata
    <3> QED BY <2>3, <3>1
  <2>5. ptab[i] \in EntryRecs /\ ptab \in [Entries -> EntryRecs] /\ end - base \in Int
    BY <2>1 DEF PartIInv, PartTypeOK
  <2>6. /\ e = [path |-> ptab[i].path, name |-> ptab[i].name, base |-> base, length |-> end - base]
        /\ f = [path |-> newpath + 1, name |-> name, base |-> base, length |-> end - base]
    <3>1. e = [ptab[i] EXCEPT !.base = base, !.length = end - base]
      OBVIOUS
    <3>2. f = [e EXCEPT !.name = name, !.path = newpath + 1]
      OBVIOUS
    <3> HIDE DEF e, f
    <3>3. e = [path |-> ptab[i].path, name |-> ptab[i].name, base |-> base, length |-> end - base]
      BY <2>5, <3>1 DEF EntryRecs
    <3> QED BY <3>2, <3>3
  <2> HIDE DEF i, e, f
  <2>7. e \in EntryRecs /\ f \in EntryRecs
    <3>1. ptab[i].path \in Int /\ ptab[i].name \in PartNames \cup {NoName, "data"}
      BY <2>5 DEF EntryRecs
    <3>2. \A p, b, l \in Int : \A m \in PartNames \cup {NoName, "data"} :
             [path |-> p, name |-> m, base |-> b, length |-> l] \in EntryRecs
      BY DEF EntryRecs
    <3> QED BY <2>4, <2>5, <2>6, <3>1, <3>2
  <2>8. Qdata \notin spoilt => Named(0) /\ ptab[0].path = Qdata /\ ptab[0].length = DiskSize
    BY DEF PartIInv, DataFirst
  <2>9. 0 \in Entries /\ DiskSize \in Nat
    BY PartAssumption DEF Entries
  <2>10. CASE exceeds /\ ptab' = [ptab EXCEPT ![i] = e]
              /\ spoilt' = (IF Named(i) THEN spoilt \cup {ptab[i].path} ELSE spoilt)
              /\ UNCHANGED <<nparts, newpath, made, defined>>
    <3> HIDE DEF exceeds
    <3>1. ptab'[i] = e /\ \A j \in Entries \ {i} : ptab'[j] = ptab[j]
      BY <2>1, <2>5, <2>10
    <3>2. \A j \in Entries : ptab'[j].name = ptab[j].name /\ ptab'[j].path = ptab[j].path
      BY <2>6, <3>1
    <3>3. Used' = Used
      BY <3>2 DEF Used, Named
    <3>4. PartTypeOK'
      BY <2>5, <2>7, <2>10 DEF PartIInv, PartTypeOK
    <3>5. \A j \in Used : ptab'[j].name = ptab[j].name /\ ptab'[j].path = ptab[j].path
      BY <3>2 DEF Used
    <3>6. EntriesOK'
      <4>1. {ptab'[j].name : j \in Used'} = {ptab[j].name : j \in Used}
        BY <3>3, <3>5
      <4>2. \A j, k \in Used' : ptab'[j].name = ptab'[k].name \/ ptab'[j].path = ptab'[k].path => j = k
        BY <3>3, <3>5 DEF PartIInv, EntriesOK
      <4>3. \A j \in Used' : ptab'[j].path \in Qdata..newpath'
        BY <2>10, <3>3, <3>5 DEF PartIInv, EntriesOK
      <4>4. nparts' = Cardinality(Used') /\ defined' = {ptab'[j].name : j \in Used'}
        BY <2>10, <3>3, <4>1 DEF PartIInv, EntriesOK
      <4> QED BY <4>2, <4>3, <4>4 DEF EntriesOK
    <3>7. Qdata \notin spoilt' => Qdata \notin spoilt /\ i # 0
      <4> SUFFICES ASSUME Qdata \notin spoilt', i = 0 PROVE FALSE
        BY <2>10
      <4>1. Qdata \notin spoilt
        BY <2>10
      <4> QED BY <2>8, <2>10, <4>1
    <3>8. DataFirst'
      <4> SUFFICES ASSUME Qdata \notin spoilt'
                   PROVE  ptab'[0].name # NoName /\ ptab'[0].path = Qdata /\ ptab'[0].length = DiskSize
        BY DEF DataFirst, Named
      <4>1. ptab'[0] = ptab[0]
        BY <2>9, <3>1, <3>7
      <4> QED BY <2>8, <3>7, <4>1 DEF Named
    <3>9. ExtentsKept'
      <4> SUFFICES ASSUME NEW j \in Used', ptab'[j].path \notin spoilt'
                   PROVE  /\ made'[ptab'[j].path] = [base |-> ptab'[j].base, length |-> ptab'[j].length]
                          /\ Qdata \notin spoilt' => ptab'[j].base + ptab'[j].length <= DiskSize
        BY DEF ExtentsKept
      <4>1. j \in Used /\ ptab'[j].path = ptab[j].path
        BY <3>3, <3>5
      <4>2. j # i
        BY <2>10, <4>1 DEF Used
      <4>3. ptab'[j] = ptab[j] /\ ptab[j].path \notin spoilt
        BY <2>10, <3>1, <4>1, <4>2 DEF Used
      <4>4. /\ made[ptab[j].path] = [base |-> ptab[j].base, length |-> ptab[j].length]
            /\ Qdata \notin spoilt => ptab[j].base + ptab[j].length <= DiskSize
        BY <4>1, <4>3 DEF PartIInv, ExtentsKept
      <4> QED BY <2>10, <3>7, <4>3, <4>4
    <3> QED BY <1>0, <3>4, <3>6, <3>8, <3>9 DEF PartIInv
  <2>11. CASE ~exceeds /\ ptab' = [ptab EXCEPT ![i] = f]
              /\ nparts' = (IF Named(i) THEN nparts ELSE nparts + 1)
              /\ newpath' = newpath + 1 /\ defined' = defined \cup {name}
              /\ made' = [made EXCEPT ![newpath + 1] = [base |-> base, length |-> end - base]]
              /\ spoilt' = (IF i = 0 THEN spoilt \cup {Qdata} ELSE spoilt)
    <3>0. end <= size
      <4>1. size \in Int
        <5>1. ptab[0] \in EntryRecs
          BY <2>5, <2>9
        <5> QED BY <2>5, <5>1 DEF EntryRecs
      <4> HIDE DEF size
      <4> QED BY <2>11, <4>1
    <3> HIDE DEF exceeds
    <3>1. ptab'[i] = f /\ \A j \in Entries \ {i} : ptab'[j] = ptab[j]
      BY <2>1, <2>5, <2>11
    <3>2. ptab'[i].name = name /\ name # NoName /\ ptab'[i].path = newpath + 1
      BY <2>6, <3>1, PartNameAssumption
    <3>3. Used' = Used \cup {i}
      BY <2>1, <3>1, <3>2 DEF Used, Named
    <3>4. IsFiniteSet(Used) /\ Cardinality(Used) \in Nat /\ nparts = Cardinality(Used)
      BY <2>1, CountsUpTo DEF PartIInv, EntriesOK
    <3>5. nparts' = Cardinality(Used')
      <4>1. Cardinality(Used') = IF i \in Used THEN Cardinality(Used) ELSE Cardinality(Used) + 1
        BY <3>3, <3>4, FS_AddElement
      <4>2. i \in Used <=> Named(i)
        BY <2>1
      <4>3. nparts' = IF Named(i) THEN nparts ELSE nparts + 1
        BY <2>11
      <4> QED BY <3>4, <4>1, <4>2, <4>3
    <3>6. PartTypeOK'
      <4>1. ptab' \in [Entries -> EntryRecs]
        BY <2>5, <2>7, <2>11
      <4>2. nparts' \in Nat
        BY <2>11, <3>4
      <4>3. made' \in [Qdata..MaxPath -> Extent]
        BY <2>5, <2>11 DEF PartIInv, PartTypeOK, Extent
      <4>4. newpath' \in Qdata..MaxPath
        BY <2>4, <2>11
      <4> QED BY <4>1, <4>2, <4>3, <4>4 DEF PartTypeOK
    <3>7. \A j \in Used' : j = i \/ (j \in Used /\ j # i /\ ptab'[j] = ptab[j])
      BY <3>1, <3>3 DEF Used
    <3>8. \A j \in Used : j # i => ptab[j].name # name
      BY <2>1 DEF PartIInv, EntriesOK
    <3>9. \A j \in Used : ptab[j].path \in Qdata..newpath /\ ptab[j].path # newpath + 1
      BY <2>4 DEF PartIInv, EntriesOK
    <3>10. EntriesOK'
      <4>1. \A j, k \in Used' : ptab'[j].name = ptab'[k].name \/ ptab'[j].path = ptab'[k].path => j = k
        <5> SUFFICES ASSUME NEW j \in Used', NEW k \in Used', j # k,
                            ptab'[j].name = ptab'[k].name \/ ptab'[j].path = ptab'[k].path
                     PROVE  FALSE
          OBVIOUS
        <5>1. CASE j = i
          <6>1. k \in Used /\ k # i /\ ptab'[k] = ptab[k]
            BY <3>7, <5>1
          <6> QED BY <3>2, <3>8, <3>9, <5>1, <6>1
        <5>2. CASE k = i
          <6>1. j \in Used /\ j # i /\ ptab'[j] = ptab[j]
            BY <3>7, <5>2
          <6> QED BY <3>2, <3>8, <3>9, <5>2, <6>1
        <5>3. CASE j # i /\ k # i
          <6>1. j \in Used /\ k \in Used /\ ptab'[j] = ptab[j] /\ ptab'[k] = ptab[k]
            BY <3>7, <5>3
          <6> QED BY <6>1 DEF PartIInv, EntriesOK
        <5> QED BY <5>1, <5>2, <5>3
      <4>2. ASSUME NEW j \in Used' PROVE ptab'[j].path \in Qdata..newpath'
        <5>1. newpath' = newpath + 1
          BY <2>11
        <5>2. CASE j = i
          BY <2>4, <3>2, <5>1, <5>2
        <5>3. CASE j # i
          <6>1. j \in Used /\ ptab'[j] = ptab[j]
            BY <3>7, <5>3
          <6>2. ptab[j].path \in Qdata..newpath
            BY <3>9, <6>1
          <6> QED BY <2>4, <5>1, <6>1, <6>2
        <5> QED BY <5>2, <5>3
      <4>3. defined' = {ptab'[j].name : j \in Used'}
        <5>1. defined = {ptab[j].name : j \in Used} /\ defined' = defined \cup {name}
          BY <2>11 DEF PartIInv, EntriesOK
        <5>2. \A j \in Used : ptab'[j].name = ptab[j].name
          BY <2>1, <3>2, <3>3, <3>7 DEF Used
        <5> QED BY <3>2, <3>3, <5>1, <5>2
      <4> QED BY <3>5, <4>1, <4>2, <4>3 DEF EntriesOK
    <3>11. Qdata \notin spoilt' => Qdata \notin spoilt /\ i # 0 /\ spoilt' = spoilt
      BY <2>11
    <3>12. DataFirst'
      <4> SUFFICES ASSUME Qdata \notin spoilt'
                   PROVE  ptab'[0].name # NoName /\ ptab'[0].path = Qdata /\ ptab'[0].length = DiskSize
        BY DEF DataFirst, Named
      <4>1. ptab'[0] = ptab[0]
        BY <2>9, <3>1, <3>11
      <4> QED BY <2>8, <3>11, <4>1 DEF Named
    <3>13. ExtentsKept'
      <4> SUFFICES ASSUME NEW j \in Used', ptab'[j].path \notin spoilt'
                   PROVE  /\ made'[ptab'[j].path] = [base |-> ptab'[j].base, length |-> ptab'[j].length]
                          /\ Qdata \notin spoilt' => ptab'[j].base + ptab'[j].length <= DiskSize
        BY DEF ExtentsKept
      <4>1. /\ made \in [Qdata..MaxPath -> Extent]
            /\ made' = [made EXCEPT ![newpath + 1] = [base |-> base, length |-> end - base]]
        BY <2>11 DEF PartIInv, PartTypeOK
      <4>2. CASE j = i
        <5>1. ptab'[j] = [path |-> newpath + 1, name |-> name, base |-> base, length |-> end - base]
          BY <2>6, <3>1, <4>2
        <5>2. made'[newpath + 1] = [base |-> base, length |-> end - base]
          BY <2>4, <4>1
        <5>3. ASSUME Qdata \notin spoilt' PROVE base + (end - base) <= DiskSize
          <6>1. size = DiskSize
            BY <2>8, <3>11, <5>3
          <6> HIDE DEF size
          <6> QED BY <2>9, <3>0, <6>1
        <5> QED BY <5>1, <5>2, <5>3
      <4>3. CASE j # i
        <5>1. j \in Used /\ ptab'[j] = ptab[j]
          BY <3>7, <4>3
        <5>2. ptab[j].path \in Qdata..MaxPath /\ ptab[j].path # newpath + 1
          BY <2>4, <3>9, <5>1
        <5>3. made'[ptab[j].path] = made[ptab[j].path]
          BY <4>1, <5>2
        <5>4. ptab[j].path \notin spoilt
          BY <2>11, <5>1
        <5>5. /\ made[ptab[j].path] = [base |-> ptab[j].base, length |-> ptab[j].length]
              /\ Qdata \notin spoilt => ptab[j].base + ptab[j].length <= DiskSize
          BY <5>1, <5>4 DEF PartIInv, ExtentsKept
        <5> QED BY <3>11, <5>1, <5>3, <5>5
      <4> QED BY <4>2, <4>3
    <3> QED BY <1>0, <3>6, <3>10, <3>12, <3>13 DEF PartIInv
  <2> HIDE DEF exceeds
  <2> QED BY <2>2, <2>10, <2>11
<1> QED BY <1>1, <1>2

\* Every request keeps the invariant.
LEMMA PartStepInv == PartIInv /\ [PartfsNext]_pvars => PartIInv'
<1> SUFFICES ASSUME PartIInv, [PartfsNext]_pvars PROVE PartIInv'
  OBVIOUS
<1>1. CASE UNCHANGED pvars
  <2>1. OnlyItsSectors'
    BY <1>1 DEF pvars, PartIInv, OnlyItsSectors
  <2> QED BY <1>1, <2>1, PartTableUnchanged DEF pvars
<1>2. ASSUME NEW x \in PartFids, Rattach(x) PROVE PartIInv'
  BY <1>2, PartTableUnchanged DEF Rattach, OnlyItsSectors
<1>3. ASSUME NEW x \in PartFids, NEW name \in PartNames, Rwalk1(x, name) PROVE PartIInv'
  BY <1>3, PartTableUnchanged DEF Rwalk1, OnlyItsSectors
<1>4. ASSUME NEW name \in PartNames, NEW ext \in Extents, Cmpart(name, ext[1], ext[2]) PROVE PartIInv'
  BY <1>4, PartDefInv, ExtentAssumption
<1> QED BY <1>1, <1>2, <1>3, <1>4, PartIoInv, PartDelInv DEF PartfsNext

\* The inductive invariant holds in every state of every behaviour.
THEOREM PartInvariance == PartfsSpec => []PartIInv
BY PartInitInv, PartStepInv, PTL DEF PartfsSpec

\* For a table and a disk of any size and any sequence of commands: nparts
\* counts the entries in use, names and paths are unique, the directory lists
\* the parts that were defined and not deleted; and a read or write through a
\* fid stays within the sectors of the part it was walked to.
THEOREM PartCorrect == PartfsSpec => []PartsOK
<1>1. ASSUME PartIInv PROVE PartsOK
  <2>1. DOMAIN ptab = Entries /\ {i \in DOMAIN ptab : Named(i)} = Used
    BY <1>1 DEF PartIInv, PartTypeOK, Used
  <2>2. nparts = Cardinality({i \in DOMAIN ptab : Named(i)})
    BY <1>1, <2>1 DEF PartIInv, EntriesOK
  <2>3. \A i, j \in DOMAIN ptab : (Named(i) /\ Named(j) /\ i # j) =>
           ptab[i].name # ptab[j].name /\ ptab[i].path # ptab[j].path
    BY <1>1, <2>1 DEF PartIInv, EntriesOK
  <2>4. {dirgen(n) : n \in 0..(nparts - 1)} = defined
    BY <1>1, DirgenIsAll
  <2> QED BY <1>1, <2>2, <2>3, <2>4 DEF PartIInv, PartTableOK, PartsOK
<1> QED BY <1>1, PartInvariance, PTL

-----------------------------------------------------------------------------
(* rc: the processes it waits for.                                        *)

Statuses == Codes \cup {NoStatus}
KidRecs == [st : {"none", "running", "ended"}, code : Statuses, role : {"fg", "bg", "left"}]
RcThreads == [pid : RcPids \cup {-1, 0}, status : Statuses, truth : Statuses \cup {"failed"}, ran : BOOLEAN]

\* Every variable has its type.
RcTypeOK ==
    /\ kids \in [RcPids -> KidRecs] /\ waitpids \subseteq RcPids \cup {-1}
    /\ rcq \in Seq(RcThreads) /\ rcstatus \in Statuses
    /\ rcpc \in [at : {"run", "read", "waitfor", "pipewait"}, pid : RcPids \cup {-1, 0}, saved : Statuses]
    /\ wrend \in BOOLEAN /\ piped \in [got : Statuses, truth : Statuses \cup {"failed"}]

\* The threads below the running one each have a pipeline, that one has
\* none; in Xpipewait it has the pipeline that rc waits for.
PipelinesBelow ==
    /\ Top >= 1 /\ \A i \in 1..Top : i < Top => rcq[i].pid \in RcPids \cup {-1}
    /\ IF rcpc.at = "pipewait" THEN rcpc.pid \in RcPids /\ rcq[Top].pid = rcpc.pid ELSE rcq[Top].pid = 0

\* The process that a thread asks for is the left side of its pipeline alone
\* and not waited for yet; so none can have its pid.
LeftOfOne ==
    \A i \in 1..Top : rcq[i].pid \in RcPids =>
        /\ kids[rcq[i].pid].st # "none" /\ kids[rcq[i].pid].role = "left" /\ rcq[i].pid \in waitpids
        /\ kids[rcq[i].pid].st = "ended" => rcq[i].truth = kids[rcq[i].pid].code
        /\ \A j \in 1..Top : rcq[j].pid = rcq[i].pid => j = i

\* A thread whose process was waited for already has its status.
StatusNoted ==
    \A i \in 1..Top : i < Top /\ rcq[i].pid = -1 => rcq[i].truth \in {"failed", rcq[i].status}

\* What rc waits for in a command of its own is no left side.
WaitsForOwn ==
    rcpc.at \in {"read", "waitfor"} /\ rcpc.pid \in RcPids =>
        kids[rcpc.pid].st = "none" \/ kids[rcpc.pid].role # "left"

\* Each process is known: it is in the background, the left side of a
\* pipeline that is not over, or the one that rc waits for now.
KidsKnown ==
    \A p \in RcPids : kids[p].st # "none" =>
        \/ kids[p].role = "bg"
        \/ kids[p].role = "left" /\ \E i \in 1..Top : rcq[i].pid = p
        \/ kids[p].role = "fg" /\ rcpc.at \in {"read", "waitfor"} /\ rcpc.pid = p /\ p \in waitpids

RcIInv == /\ RcTypeOK /\ PipelinesBelow /\ LeftOfOne /\ StatusNoted
          /\ WaitsForOwn /\ KidsKnown /\ PipeStatus

\* The fields of a thread that the pipelines depend on.
SamePipeline(a, b) == a.pid = b.pid /\ a.status = b.status /\ a.truth = b.truth

\* NewThread and NoKid have their types.
LEMMA RcTypes == NewThread \in RcThreads /\ NoKid \in KidRecs /\ NoPipeline \in [got : Statuses, truth : Statuses \cup {"failed"}]
BY DEF NewThread, NoKid, NoPipeline, RcThreads, KidRecs, Statuses

\* That a thread has run changes nothing of its pipeline.
LEMMA HasRunKeeps ==
    ASSUME NEW q \in Seq(RcThreads), Len(q) >= 1
    PROVE  /\ HasRun(q) \in Seq(RcThreads) /\ Len(HasRun(q)) = Len(q)
           /\ \A i \in 1..Len(q) : SamePipeline(HasRun(q)[i], q[i])
<1>1. Len(q) \in Nat /\ DOMAIN q = 1..Len(q) /\ q \in [1..Len(q) -> RcThreads]
  OBVIOUS
<1>2. HasRun(q) \in [1..Len(q) -> RcThreads]
  BY <1>1 DEF HasRun, RcThreads
<1>3. HasRun(q) \in Seq(RcThreads)
  BY <1>1, <1>2, SeqDef
<1>4. Len(HasRun(q)) = Len(q)
  BY <1>1, <1>2, <1>3, LenProperties
<1>5. ASSUME NEW i \in 1..Len(q) PROVE SamePipeline(HasRun(q)[i], q[i])
  <2>1. q[i] \in RcThreads BY <1>1
  <2> QED BY <1>1, <2>1 DEF HasRun, SamePipeline, RcThreads
<1> QED BY <1>3, <1>4, <1>5

\* At the end of a pipeline its thread has none any more.
LEMMA PipeDoneIs ==
    ASSUME NEW st, NEW q \in Seq(RcThreads), NEW rest, Len(q) >= 1, PipeDone(st, q, rest)
    PROVE  /\ rcq' \in Seq(RcThreads) /\ Len(rcq') = Len(q) /\ rcq'[Len(q)].pid = 0
           /\ \A i \in 1..Len(q) : i # Len(q) => SamePipeline(rcq'[i], q[i])
<1> DEFINE r == [q EXCEPT ![Len(q)] = NewThread]
<1>1. Len(q) \in 1..Len(q) /\ DOMAIN q = 1..Len(q) /\ q \in [1..Len(q) -> RcThreads]
  OBVIOUS
<1>2. r \in Seq(RcThreads) /\ Len(r) = Len(q)
  BY <1>1, RcTypes, ExceptSeq
<1>3. rcq' = HasRun(r)
  BY DEF PipeDone
<1>4. r[Len(q)] = NewThread /\ \A i \in 1..Len(q) : i # Len(q) => r[i] = q[i]
  BY <1>1
<1> HIDE DEF r
<1>5. /\ rcq' \in Seq(RcThreads) /\ Len(rcq') = Len(r)
      /\ \A i \in 1..Len(r) : SamePipeline(rcq'[i], r[i])
  BY <1>2, <1>3, HasRunKeeps
<1>6. r[Len(q)].pid = 0
  BY <1>4 DEF NewThread
<1>7. rcq'[Len(q)].pid = 0
  BY <1>1, <1>2, <1>5, <1>6 DEF SamePipeline
<1>8. ASSUME NEW i \in 1..Len(q), i # Len(q) PROVE SamePipeline(rcq'[i], q[i])
  BY <1>2, <1>4, <1>5, <1>8 DEF SamePipeline
<1> QED BY <1>2, <1>5, <1>7, <1>8

\* A thread that starts a pipeline has the pid of its left side; the new
\* running thread has none.
LEMMA XpipeThreads ==
    ASSUME RcTypeOK, Top >= 1, NEW pid \in RcPids \cup {-1}, Xpipe(pid)
    PROVE  /\ rcq' \in Seq(RcThreads) /\ Len(rcq') = Top + 1 /\ rcq'[Top + 1] = NewThread
           /\ rcq'[Top].pid = pid /\ (pid = -1 => rcq'[Top].truth = "failed")
           /\ \A i \in 1..Top : i # Top => rcq'[i] = rcq[i]
<1> DEFINE r == [rcq EXCEPT ![Top].pid = pid, ![Top].truth = IF pid = -1 THEN "failed" ELSE NoStatus]
<1>1. rcq \in Seq(RcThreads) /\ Top \in 1..Top /\ DOMAIN rcq = 1..Top /\ rcq \in [1..Top -> RcThreads]
  BY DEF RcTypeOK, Top
<1>2. rcq[Top] \in RcThreads
  BY <1>1
<1>3. r \in [1..Top -> RcThreads] /\ DOMAIN r = 1..Top
  BY <1>1, <1>2 DEF RcThreads, Statuses
<1>5. /\ r[Top].pid = pid /\ (pid = -1 => r[Top].truth = "failed")
      /\ \A i \in 1..Top : i # Top => r[i] = rcq[i]
  BY <1>1, <1>2 DEF RcThreads
<1>6. rcq' = Append(r, NewThread)
  BY DEF Xpipe
<1> HIDE DEF r
<1>4. r \in Seq(RcThreads) /\ Len(r) = Top
  <2>1. Top \in Nat BY <1>1
  <2>2. r \in Seq(RcThreads) BY <1>3, <2>1, SeqDef
  <2> QED BY <1>3, <2>1, <2>2, LenProperties
<1>7. /\ rcq' \in Seq(RcThreads) /\ Len(rcq') = Top + 1 /\ rcq'[Top + 1] = NewThread
      /\ \A i \in 1..Top : rcq'[i] = r[i]
  BY <1>4, <1>6, RcTypes, AppendProperties
<1> QED BY <1>1, <1>5, <1>7

\* ForkExecute() uses a pid that no process has.
LEMMA Forks ==
    ASSUME RcTypeOK, NEW pid \in RcPids \cup {-1}, NEW role \in {"fg", "bg", "left"}, ForkExecute(pid, role)
    PROVE  /\ kids' \in [RcPids -> KidRecs]
           /\ pid \in RcPids => kids[pid].st = "none" /\ kids'[pid].st = "running" /\ kids'[pid].role = role
           /\ \A p \in RcPids : p # pid => kids'[p] = kids[p]
<1>1. CASE pid = -1
  <2>1. kids' = kids /\ pid \notin RcPids
    BY <1>1, RcPidAssumption DEF ForkExecute
  <2> QED BY <2>1 DEF RcTypeOK
<1>2. CASE pid # -1
  <2>1. pid \in RcPids /\ kids[pid].st = "none"
        /\ kids' = [kids EXCEPT ![pid] = [st |-> "running", code |-> NoStatus, role |-> role]]
    BY <1>2 DEF ForkExecute
  <2>2. [st |-> "running", code |-> NoStatus, role |-> role] \in KidRecs
    BY DEF KidRecs, Statuses
  <2> QED BY <2>1, <2>2 DEF RcTypeOK
<1> QED BY <1>1, <1>2

\* A new process disturbs no pipeline.
LEMMA StartKeeps ==
    ASSUME RcIInv, NEW pid \in RcPids \cup {-1}, NEW role \in {"fg", "bg", "left"}, ForkExecute(pid, role),
           addwaitpid(pid), Len(rcq') = Len(rcq), \A i \in 1..Top : SamePipeline(rcq'[i], rcq[i])
    PROVE  LeftOfOne' /\ StatusNoted' /\ waitpids' \subseteq RcPids \cup {-1}
<1>1. /\ pid \in RcPids => kids[pid].st = "none"
      /\ \A p \in RcPids : p # pid => kids'[p] = kids[p]
  BY Forks DEF RcIInv
<1>2. waitpids' = waitpids \cup {pid} /\ Top' = Top
  BY DEF addwaitpid, Top
<1>3. LeftOfOne'
  <2>1. ASSUME NEW i \in 1..Top, rcq'[i].pid \in RcPids
        PROVE  /\ kids'[rcq'[i].pid].st # "none" /\ kids'[rcq'[i].pid].role = "left" /\ rcq'[i].pid \in waitpids'
               /\ kids'[rcq'[i].pid].st = "ended" => rcq'[i].truth = kids'[rcq'[i].pid].code
               /\ \A j \in 1..Top : rcq'[j].pid = rcq'[i].pid => j = i
    <3>1. rcq'[i].pid = rcq[i].pid /\ rcq'[i].truth = rcq[i].truth
      BY DEF SamePipeline
    <3>2. /\ kids[rcq[i].pid].st # "none" /\ kids[rcq[i].pid].role = "left" /\ rcq[i].pid \in waitpids
          /\ kids[rcq[i].pid].st = "ended" => rcq[i].truth = kids[rcq[i].pid].code
          /\ \A j \in 1..Top : rcq[j].pid = rcq[i].pid => j = i
      BY <2>1, <3>1 DEF RcIInv, LeftOfOne
    <3>3. kids'[rcq[i].pid] = kids[rcq[i].pid]
      BY <1>1, <2>1, <3>1, <3>2
    <3> QED BY <1>2, <3>1, <3>2, <3>3 DEF SamePipeline
  <2> QED BY <1>2, <2>1 DEF LeftOfOne
<1>4. StatusNoted'
  BY <1>2 DEF RcIInv, StatusNoted, SamePipeline
<1> QED BY <1>2, <1>3, <1>4 DEF RcIInv, RcTypeOK

\* In the first state there is nothing to wait for.
LEMMA RcInitOK == RcInit => RcIInv
<1> SUFFICES ASSUME RcInit PROVE RcIInv
  OBVIOUS
<1>1. rcq = <<NewThread>> /\ Top = 1 /\ rcq[1] = NewThread /\ rcq \in Seq(RcThreads)
  BY RcTypes DEF RcInit, Top
<1>2. RcTypeOK
  BY <1>1, RcTypes DEF RcInit, RcTypeOK, Run, Statuses
<1>3. rcq[1].pid = 0 /\ 0 \notin RcPids
  BY <1>1, RcPidAssumption DEF NewThread
<1>4. PipelinesBelow /\ LeftOfOne /\ StatusNoted
  BY <1>1, <1>3 DEF RcInit, Run, PipelinesBelow, LeftOfOne, StatusNoted
<1>5. WaitsForOwn /\ KidsKnown /\ PipeStatus
  BY DEF RcInit, Run, NoKid, NoPipeline, WaitsForOwn, KidsKnown, PipeStatus
<1> QED BY <1>2, <1>4, <1>5 DEF RcIInv

\* Xasync(), Xpipefd(): a process in the background.
LEMMA BackgroundKeeps ==
    ASSUME RcIInv, NEW pid \in RcPids \cup {-1}, Xasync(pid) \/ Xpipefd(pid)
    PROVE  RcIInv'
<1>1. /\ ForkExecute(pid, "bg") /\ addwaitpid(pid)
      /\ rcq' = rcq /\ rcpc' = rcpc /\ rcstatus' = rcstatus /\ wrend' = wrend
      /\ piped' = NoPipeline /\ rcpc.at = "run" /\ Top' = Top
  BY DEF Xasync, Xpipefd, Top
<1>2. LeftOfOne' /\ StatusNoted' /\ waitpids' \subseteq RcPids \cup {-1}
  BY <1>1, StartKeeps DEF SamePipeline
<1>3. /\ kids' \in [RcPids -> KidRecs]
      /\ pid \in RcPids => kids'[pid].role = "bg"
      /\ \A p \in RcPids : p # pid => kids'[p] = kids[p]
  BY <1>1, Forks DEF RcIInv
<1>4. RcTypeOK'
  BY <1>1, <1>2, <1>3, RcTypes DEF RcIInv, RcTypeOK
<1>5. PipelinesBelow' /\ WaitsForOwn'
  BY <1>1 DEF RcIInv, PipelinesBelow, WaitsForOwn
<1>6. KidsKnown'
  BY <1>1, <1>3 DEF RcIInv, KidsKnown
<1>7. PipeStatus'
  BY <1>1 DEF PipeStatus, NoPipeline
<1> QED BY <1>2, <1>4, <1>5, <1>6, <1>7 DEF RcIInv

\* Xerror(): one thread, and nothing that it waits for.
LEMMA XerrorKeeps ==
    ASSUME RcIInv, Xerror, UNCHANGED <<waitpids, wrend>>, piped' = NoPipeline
    PROVE  RcIInv'
<1>1. rcq' = <<NewThread>> /\ Top' = 1 /\ rcq'[1] = NewThread /\ rcq' \in Seq(RcThreads)
  BY RcTypes DEF Xerror, Top
<1>2. rcpc' = Run /\ rcstatus' = NoStatus
  BY DEF Xerror
<1>3. /\ kids' \in [RcPids -> KidRecs]
      /\ \A p \in RcPids : kids'[p].st = "none" \/ kids'[p].role = "bg"
  <2>1. kids' = [p \in RcPids |-> IF kids[p].st = "none" THEN NoKid ELSE [kids[p] EXCEPT !.role = "bg"]]
    BY DEF Xerror
  <2>2. ASSUME NEW p \in RcPids PROVE kids'[p] \in KidRecs /\ (kids'[p].st = "none" \/ kids'[p].role = "bg")
    <3>1. kids[p] \in KidRecs BY DEF RcIInv, RcTypeOK
    <3>2. CASE kids[p].st = "none"
      BY <2>1, <3>2, RcTypes DEF NoKid
    <3>3. CASE kids[p].st # "none"
      BY <2>1, <3>1, <3>3 DEF KidRecs
    <3> QED BY <3>2, <3>3
  <2> QED BY <2>1, <2>2
<1>4. RcTypeOK'
  BY <1>1, <1>2, <1>3, RcTypes DEF RcIInv, RcTypeOK, Run, Statuses
<1>5. rcq'[1].pid = 0 /\ 0 \notin RcPids
  BY <1>1, RcPidAssumption DEF NewThread
<1>6. PipelinesBelow' /\ LeftOfOne' /\ StatusNoted'
  BY <1>1, <1>2, <1>5 DEF Run, PipelinesBelow, LeftOfOne, StatusNoted
<1>7. WaitsForOwn' /\ KidsKnown' /\ PipeStatus'
  BY <1>2, <1>3 DEF Run, NoPipeline, WaitsForOwn, KidsKnown, PipeStatus
<1> QED BY <1>4, <1>6, <1>7 DEF RcIInv

\* Xsubshell() and Xbackq(): a process that rc waits for at once.
LEMMA ForegroundKeeps ==
    ASSUME RcIInv, NEW pid \in RcPids \cup {-1}, Xsubshell(pid) \/ Xbackq(pid)
    PROVE  RcIInv'
<1>1. CASE Xsubshell(pid) /\ pid = -1
  BY <1>1, XerrorKeeps DEF Xsubshell, ForkExecute
<1>2. CASE ~(Xsubshell(pid) /\ pid = -1)
  <2>1. /\ ForkExecute(pid, "fg") /\ addwaitpid(pid) /\ piped' = NoPipeline
        /\ rcpc'.at \in {"read", "waitfor"} /\ rcpc'.pid = pid /\ rcpc'.saved = NoStatus
        /\ rcpc' \in [at : {"run", "read", "waitfor", "pipewait"}, pid : RcPids \cup {-1, 0}, saved : Statuses]
        /\ rcstatus' = rcstatus /\ wrend' \in BOOLEAN /\ rcpc.at = "run" /\ (rcq' = rcq \/ rcq' = HasRun(rcq))
    <3>1. CASE Xsubshell(pid)
      <4>1. pid # -1 BY <1>2, <3>1
      <4>2. wrend' = wrend /\ wrend \in BOOLEAN BY <3>1 DEF Xsubshell, RcIInv, RcTypeOK
      <4> QED BY <3>1, <4>1, <4>2 DEF Xsubshell, Statuses
    <3>2. CASE Xbackq(pid)
      BY <3>2 DEF Xbackq, CloseWriteEnd, Statuses
    <3> QED BY <3>1, <3>2
  <2>2. rcq \in Seq(RcThreads) /\ Len(rcq) >= 1 /\ Top = Len(rcq)
    BY DEF RcIInv, RcTypeOK, PipelinesBelow, Top
  <2>3. rcq' \in Seq(RcThreads) /\ Len(rcq') = Len(rcq) /\ \A i \in 1..Top : SamePipeline(rcq'[i], rcq[i])
    <3>1. CASE rcq' = rcq
      BY <2>2, <3>1 DEF SamePipeline
    <3>2. CASE rcq' = HasRun(rcq)
      BY <2>2, <3>2, HasRunKeeps
    <3> QED BY <2>1, <3>1, <3>2
  <2>4. LeftOfOne' /\ StatusNoted' /\ waitpids' \subseteq RcPids \cup {-1}
    BY <2>1, <2>3, StartKeeps
  <2>5. /\ kids' \in [RcPids -> KidRecs]
        /\ pid \in RcPids => kids'[pid].role = "fg"
        /\ \A p \in RcPids : p # pid => kids'[p] = kids[p]
    BY <2>1, Forks DEF RcIInv
  <2>6. RcTypeOK'
    BY <2>1, <2>3, <2>4, <2>5, RcTypes DEF RcIInv, RcTypeOK
  <2>7. Top' = Top
    BY <2>3 DEF Top
  <2>8. PipelinesBelow'
    BY <2>1, <2>2, <2>3, <2>7 DEF RcIInv, PipelinesBelow, SamePipeline
  <2>9. WaitsForOwn' /\ PipeStatus'
    BY <2>1, <2>5 DEF WaitsForOwn, PipeStatus, NoPipeline
  <2>10. KidsKnown'
    <3>1. pid \in waitpids'
      BY <2>1 DEF addwaitpid
    <3>2. ASSUME NEW p \in RcPids, p # pid, kids'[p].st # "none"
          PROVE  kids'[p].role = "bg" \/ (kids'[p].role = "left" /\ \E i \in 1..Top : rcq'[i].pid = p)
      <4>1. kids[p].role = "bg" \/ (kids[p].role = "left" /\ \E i \in 1..Top : rcq[i].pid = p)
        BY <2>1, <2>5, <3>2 DEF RcIInv, KidsKnown
      <4> QED BY <2>3, <2>5, <3>2, <4>1 DEF SamePipeline
    <3> QED BY <2>1, <2>5, <2>7, <3>1, <3>2 DEF KidsKnown
  <2> QED BY <2>4, <2>6, <2>8, <2>9, <2>10 DEF RcIInv
<1> QED BY <1>1, <1>2

\* Xpipe(): the left side is started, the right side runs in a new thread.
LEMMA XpipeKeeps ==
    ASSUME RcIInv, NEW pid \in RcPids \cup {-1}, Xpipe(pid)
    PROVE  RcIInv'
<1>1. /\ ForkExecute(pid, "left") /\ addwaitpid(pid) /\ rcpc' = rcpc /\ rcpc.at = "run"
      /\ rcstatus' = rcstatus /\ wrend' = wrend /\ piped' = NoPipeline
  BY DEF Xpipe
<1>2. Top \in Nat /\ Top >= 1 /\ rcq[Top].pid = 0 /\ 0 \notin RcPids /\ -1 \notin RcPids
  BY <1>1, RcPidAssumption DEF RcIInv, RcTypeOK, PipelinesBelow, Top
<1>3. /\ rcq' \in Seq(RcThreads) /\ Top' = Top + 1 /\ rcq'[Top + 1].pid = 0
      /\ rcq'[Top].pid = pid /\ (pid = -1 => rcq'[Top].truth = "failed")
      /\ \A i \in 1..Top : i # Top => rcq'[i] = rcq[i]
  BY <1>2, XpipeThreads DEF RcIInv, Top, NewThread
<1>4. /\ kids' \in [RcPids -> KidRecs]
      /\ pid \in RcPids => kids[pid].st = "none" /\ kids'[pid].st = "running" /\ kids'[pid].role = "left"
      /\ \A p \in RcPids : p # pid => kids'[p] = kids[p]
  BY <1>1, Forks DEF RcIInv
<1>5. waitpids' = waitpids \cup {pid}
  BY <1>1 DEF addwaitpid
<1>6. RcTypeOK'
  BY <1>1, <1>3, <1>4, <1>5, RcTypes DEF RcIInv, RcTypeOK
<1>7. PipelinesBelow'
  <2>1. ASSUME NEW i \in 1..(Top + 1), i < Top + 1 PROVE rcq'[i].pid \in RcPids \cup {-1}
    <3>1. CASE i = Top
      BY <1>3, <3>1
    <3>2. CASE i # Top
      <4>1. i \in 1..Top /\ i < Top BY <1>2, <2>1, <3>2
      <4>2. rcq[i].pid \in RcPids \cup {-1} BY <4>1 DEF RcIInv, PipelinesBelow
      <4> QED BY <1>3, <3>2, <4>1, <4>2
    <3> QED BY <3>1, <3>2
  <2> QED BY <1>1, <1>2, <1>3, <2>1 DEF PipelinesBelow
<1>8. LeftOfOne'
  <2>1. ASSUME NEW i \in 1..(Top + 1), rcq'[i].pid \in RcPids
        PROVE  i = Top \/ (i \in 1..Top /\ rcq'[i] = rcq[i] /\ rcq[i].pid # pid)
    <3>1. i # Top + 1 BY <1>2, <1>3, <2>1
    <3>2. CASE i # Top
      <4>1. i \in 1..Top /\ rcq'[i] = rcq[i] BY <1>2, <1>3, <3>1, <3>2
      <4>2. kids[rcq[i].pid].st # "none" BY <2>1, <4>1 DEF RcIInv, LeftOfOne
      <4> QED BY <1>4, <2>1, <4>1, <4>2
    <3> QED BY <3>2
  <2>2. ASSUME NEW i \in 1..(Top + 1), rcq'[i].pid \in RcPids, i # Top
        PROVE  /\ kids'[rcq'[i].pid].st # "none" /\ kids'[rcq'[i].pid].role = "left" /\ rcq'[i].pid \in waitpids'
               /\ kids'[rcq'[i].pid].st = "ended" => rcq'[i].truth = kids'[rcq'[i].pid].code
               /\ \A j \in 1..(Top + 1) : rcq'[j].pid = rcq'[i].pid => j = i
    <3>1. i \in 1..Top /\ rcq'[i] = rcq[i] /\ rcq[i].pid # pid
      BY <2>1, <2>2
    <3>2. /\ kids[rcq[i].pid].st # "none" /\ kids[rcq[i].pid].role = "left" /\ rcq[i].pid \in waitpids
          /\ kids[rcq[i].pid].st = "ended" => rcq[i].truth = kids[rcq[i].pid].code
          /\ \A j \in 1..Top : rcq[j].pid = rcq[i].pid => j = i
      BY <2>2, <3>1 DEF RcIInv, LeftOfOne
    <3>3. ASSUME NEW j \in 1..(Top + 1), rcq'[j].pid = rcq'[i].pid PROVE j = i
      BY <1>3, <2>1, <2>2, <3>1, <3>2, <3>3
    <3> QED BY <1>4, <1>5, <2>2, <3>1, <3>2, <3>3
  <2>3. ASSUME NEW i \in 1..(Top + 1), rcq'[i].pid \in RcPids, i = Top
        PROVE  /\ kids'[rcq'[i].pid].st # "none" /\ kids'[rcq'[i].pid].role = "left" /\ rcq'[i].pid \in waitpids'
               /\ kids'[rcq'[i].pid].st = "ended" => rcq'[i].truth = kids'[rcq'[i].pid].code
               /\ \A j \in 1..(Top + 1) : rcq'[j].pid = rcq'[i].pid => j = i
    BY <1>3, <1>4, <1>5, <2>1, <2>3
  <2> QED BY <1>3, <2>2, <2>3 DEF LeftOfOne
<1>9. StatusNoted'
  <2>1. ASSUME NEW i \in 1..(Top + 1), i < Top + 1, rcq'[i].pid = -1 PROVE rcq'[i].truth \in {"failed", rcq'[i].status}
    BY <1>2, <1>3, <2>1 DEF RcIInv, StatusNoted
  <2> QED BY <1>3, <2>1 DEF StatusNoted
<1>10. WaitsForOwn' /\ PipeStatus'
  BY <1>1 DEF WaitsForOwn, PipeStatus, NoPipeline
<1>11. KidsKnown'
  <2>1. ASSUME NEW p \in RcPids, kids'[p].st # "none"
        PROVE  kids'[p].role = "bg" \/ (kids'[p].role = "left" /\ \E i \in 1..(Top + 1) : rcq'[i].pid = p)
    <3>1. CASE p = pid
      BY <1>2, <1>3, <1>4, <3>1
    <3>2. CASE p # pid
      <4>1. kids[p].role = "bg" \/ (kids[p].role = "left" /\ \E i \in 1..Top : rcq[i].pid = p)
        BY <1>1, <1>4, <2>1, <3>2 DEF RcIInv, KidsKnown
      <4>2. ASSUME NEW i \in 1..Top, rcq[i].pid = p PROVE i \in 1..(Top + 1) /\ rcq'[i].pid = p
        BY <1>2, <1>3, <4>2
      <4> QED BY <1>4, <3>2, <4>1, <4>2
    <3> QED BY <3>1, <3>2
  <2> QED BY <1>3, <2>1 DEF KidsKnown
<1> QED BY <1>6, <1>7, <1>8, <1>9, <1>10, <1>11 DEF RcIInv

\* Xpipewait(): the running thread is gone; the one below waits for its left
\* side, or has its status.
LEMMA XpipewaitKeeps == ASSUME RcIInv, Xpipewait PROVE RcIInv'
<1> DEFINE q == SubSeq(rcq, 1, Top - 1)
<1>1. /\ Top \in Nat /\ Top > 1 /\ rcq \in Seq(RcThreads) /\ rcpc.at = "run" /\ rcq[Top].pid = 0
      /\ 0 \notin RcPids /\ -1 \notin RcPids
  BY RcPidAssumption DEF Xpipewait, RcIInv, RcTypeOK, PipelinesBelow, Top
<1>2. q \in Seq(RcThreads) /\ Len(q) = Top - 1 /\ \A i \in 1..(Top - 1) : q[i] = rcq[i]
  <2>1. \A i \in 1..(Top - 1) : rcq[i] \in RcThreads
    BY <1>1 DEF Top
  <2> QED BY <1>1, <2>1, SubSeqProperties
<1>3. q[Len(q)] = rcq[Top - 1] /\ rcq[Top - 1] \in RcThreads
  BY <1>1, <1>2
<1>4. kids' = kids /\ waitpids' = waitpids /\ wrend' = wrend
  BY DEF Xpipewait
<1>5. \/ rcq[Top - 1].pid = -1 /\ PipeDone(rcq[Top - 1].status, q, rcstatus)
      \/ /\ rcq[Top - 1].pid # -1 /\ rcq' = q /\ piped' = NoPipeline /\ rcstatus' = rcstatus
         /\ rcpc' = [at |-> "pipewait", pid |-> rcq[Top - 1].pid, saved |-> rcstatus]
  BY <1>3 DEF Xpipewait
<1> HIDE DEF q
<1>6. Len(q) >= 1
  BY <1>1, <1>2
<1>7. CASE rcq[Top - 1].pid = -1 /\ PipeDone(rcq[Top - 1].status, q, rcstatus)
  <2>1. /\ rcq' \in Seq(RcThreads) /\ Top' = Top - 1 /\ rcq'[Top - 1].pid = 0
        /\ \A i \in 1..(Top - 1) : i # Top - 1 => SamePipeline(rcq'[i], rcq[i])
    BY <1>2, <1>6, <1>7, PipeDoneIs DEF Top
  <2>2. rcpc' = Run /\ rcstatus' = rcstatus /\ piped' = [got |-> rcq[Top - 1].status, truth |-> rcq[Top - 1].truth]
    BY <1>3, <1>7 DEF PipeDone
  <2>3. rcq[Top - 1].truth \in {"failed", rcq[Top - 1].status}
    BY <1>1, <1>7 DEF RcIInv, StatusNoted
  <2>4. RcTypeOK'
    BY <1>3, <1>4, <2>1, <2>2 DEF RcIInv, RcTypeOK, Run, RcThreads, Statuses
  <2>5. PipeStatus'
    BY <2>2, <2>3 DEF PipeStatus
  <2>6. PipelinesBelow'
    BY <1>1, <2>1, <2>2 DEF RcIInv, PipelinesBelow, SamePipeline, Run
  <2>7. LeftOfOne'
    <3>1. ASSUME NEW i \in 1..(Top - 1), rcq'[i].pid \in RcPids
          PROVE  i # Top - 1 /\ i \in 1..Top /\ rcq'[i].pid = rcq[i].pid /\ rcq'[i].truth = rcq[i].truth
      BY <1>1, <2>1, <3>1 DEF SamePipeline
    <3>2. ASSUME NEW i \in 1..(Top - 1), rcq'[i].pid \in RcPids
          PROVE  /\ kids'[rcq'[i].pid].st # "none" /\ kids'[rcq'[i].pid].role = "left" /\ rcq'[i].pid \in waitpids'
                 /\ kids'[rcq'[i].pid].st = "ended" => rcq'[i].truth = kids'[rcq'[i].pid].code
                 /\ \A j \in 1..(Top - 1) : rcq'[j].pid = rcq'[i].pid => j = i
      <4>1. /\ kids[rcq[i].pid].st # "none" /\ kids[rcq[i].pid].role = "left" /\ rcq[i].pid \in waitpids
            /\ kids[rcq[i].pid].st = "ended" => rcq[i].truth = kids[rcq[i].pid].code
            /\ \A j \in 1..Top : rcq[j].pid = rcq[i].pid => j = i
        BY <3>1, <3>2 DEF RcIInv, LeftOfOne
      <4>2. ASSUME NEW j \in 1..(Top - 1), rcq'[j].pid = rcq'[i].pid PROVE j = i
        BY <3>1, <3>2, <4>1, <4>2
      <4> QED BY <1>4, <3>1, <3>2, <4>1, <4>2
    <3> QED BY <2>1, <3>2 DEF LeftOfOne
  <2>8. StatusNoted'
    BY <1>1, <2>1, SMTT(30) DEF RcIInv, StatusNoted, SamePipeline
  <2>9. WaitsForOwn'
    BY <2>2 DEF WaitsForOwn, Run
  <2>10. KidsKnown'
    <3>1. ASSUME NEW p \in RcPids, kids[p].st # "none"
          PROVE  kids[p].role = "bg" \/ (kids[p].role = "left" /\ \E i \in 1..(Top - 1) : rcq'[i].pid = p)
      <4>1. kids[p].role = "bg" \/ (kids[p].role = "left" /\ \E i \in 1..Top : rcq[i].pid = p)
        BY <1>1, <3>1 DEF RcIInv, KidsKnown
      <4>2. ASSUME NEW i \in 1..Top, rcq[i].pid = p PROVE i \in 1..(Top - 1) /\ rcq'[i].pid = p
        <5>1. i # Top /\ i # Top - 1 BY <1>1, <1>7, <4>2
        <5> QED BY <1>1, <2>1, <4>2, <5>1 DEF SamePipeline
      <4> QED BY <4>1, <4>2
    <3> QED BY <1>4, <2>1, <3>1 DEF KidsKnown
  <2> QED BY <2>4, <2>5, <2>6, <2>7, <2>8, <2>9, <2>10 DEF RcIInv
<1>8. CASE /\ rcq[Top - 1].pid # -1 /\ rcq' = q /\ piped' = NoPipeline /\ rcstatus' = rcstatus
           /\ rcpc' = [at |-> "pipewait", pid |-> rcq[Top - 1].pid, saved |-> rcstatus]
  <2>1. rcq' \in Seq(RcThreads) /\ Top' = Top - 1 /\ \A i \in 1..(Top - 1) : rcq'[i] = rcq[i]
    BY <1>2, <1>8 DEF Top
  <2>2. rcq[Top - 1].pid \in RcPids
    BY <1>1, <1>8 DEF RcIInv, PipelinesBelow
  <2>3. rcpc'.at = "pipewait" /\ rcpc'.pid = rcq[Top - 1].pid
    BY <1>8
  <2>4. RcTypeOK'
    BY <1>4, <1>8, <2>1, <2>2, RcTypes DEF RcIInv, RcTypeOK
  <2>5. PipelinesBelow'
    BY <1>1, <2>1, <2>2, <2>3, SMTT(30) DEF RcIInv, PipelinesBelow
  <2>6. LeftOfOne' /\ StatusNoted'
    BY <1>1, <1>4, <2>1, SMTT(30) DEF RcIInv, LeftOfOne, StatusNoted
  <2>7. WaitsForOwn' /\ PipeStatus'
    BY <1>8 DEF WaitsForOwn, PipeStatus, NoPipeline
  <2>8. KidsKnown'
    <3>1. ASSUME NEW p \in RcPids, kids[p].st # "none"
          PROVE  kids[p].role = "bg" \/ (kids[p].role = "left" /\ \E i \in 1..(Top - 1) : rcq'[i].pid = p)
      <4>1. kids[p].role = "bg" \/ (kids[p].role = "left" /\ \E i \in 1..Top : rcq[i].pid = p)
        BY <1>1, <3>1 DEF RcIInv, KidsKnown
      <4>2. ASSUME NEW i \in 1..Top, rcq[i].pid = p PROVE i \in 1..(Top - 1) /\ rcq'[i].pid = p
        BY <1>1, <2>1, <4>2
      <4> QED BY <4>1, <4>2
    <3> QED BY <1>4, <2>1, <3>1 DEF KidsKnown
  <2> QED BY <2>4, <2>5, <2>6, <2>7, <2>8 DEF RcIInv
<1> QED BY <1>5, <1>7, <1>8

\* The end of the file, the command wait: what rc waits for is its own.
LEMMA WaitBeginsKeeps ==
    ASSUME RcIInv, BackqEof \/ \E pid \in RcPids \cup {-1} : execwait(pid)
    PROVE  RcIInv'
<1>1. kids' = kids /\ waitpids' = waitpids /\ rcq' = rcq /\ Top' = Top
      /\ rcstatus' = rcstatus /\ wrend' = wrend /\ piped' = NoPipeline
  BY DEF BackqEof, execwait, Top
<1>2. /\ rcpc' \in [at : {"run", "read", "waitfor", "pipewait"}, pid : RcPids \cup {-1, 0}, saved : Statuses]
      /\ rcpc'.at = "waitfor"
      /\ \/ rcpc.at = "read" /\ rcpc'.pid = rcpc.pid
         \/ rcpc.at = "run" /\ (rcpc'.pid \in RcPids => kids[rcpc'.pid].st = "none" \/ kids[rcpc'.pid].role = "bg")
  <2>1. CASE BackqEof
    <3>1. rcpc \in [at : {"run", "read", "waitfor", "pipewait"}, pid : RcPids \cup {-1, 0}, saved : Statuses]
      BY DEF RcIInv, RcTypeOK
    <3> QED BY <2>1, <3>1 DEF BackqEof
  <2>2. CASE \E pid \in RcPids \cup {-1} : execwait(pid)
    <3>1. PICK pid \in RcPids \cup {-1} : execwait(pid) BY <2>2
    <3>2. -1 \notin RcPids BY RcPidAssumption
    <3>3. rcpc' = [at |-> "waitfor", pid |-> pid, saved |-> NoStatus] /\ rcpc.at = "run"
      BY <3>1 DEF execwait
    <3>4. pid \in RcPids => kids[pid].st = "none" \/ kids[pid].role = "bg"
      BY <3>1, <3>2 DEF execwait
    <3> QED BY <3>3, <3>4 DEF Statuses
  <2> QED BY <2>1, <2>2
<1>3. RcTypeOK'
  BY <1>1, <1>2, RcTypes DEF RcIInv, RcTypeOK
<1>4. PipelinesBelow' /\ LeftOfOne' /\ StatusNoted'
  BY <1>1, <1>2 DEF RcIInv, PipelinesBelow, LeftOfOne, StatusNoted
<1>5. WaitsForOwn' /\ KidsKnown' /\ PipeStatus'
  BY <1>1, <1>2 DEF RcIInv, WaitsForOwn, KidsKnown, PipeStatus, NoPipeline
<1> QED BY <1>3, <1>4, <1>5 DEF RcIInv

\* Waitfor() has nothing to wait for: only when it is not for a pipeline.
LEMMA WaitforNothingKeeps == ASSUME RcIInv, WaitforNothing PROVE RcIInv'
<1>1. /\ kids' = kids /\ waitpids' = waitpids /\ wrend' = wrend
      /\ rcpc.at \in {"waitfor", "pipewait"} /\ WaitOver(rcq, rcstatus)
      /\ (rcpc.pid >= 0 /\ rcpc.pid \notin waitpids) \/ \A p \in RcPids : kids[p].st = "none"
  BY DEF WaitforNothing, havewaitpid
<1>2. rcpc.at = "waitfor"
  <2>1. SUFFICES ASSUME rcpc.at = "pipewait" PROVE FALSE
    BY <1>1
  <2>2. Top \in 1..Top /\ rcq[Top].pid \in RcPids /\ rcq[Top].pid = rcpc.pid
    BY <2>1 DEF RcIInv, RcTypeOK, PipelinesBelow, Top
  <2>3. kids[rcpc.pid].st # "none" /\ rcpc.pid \in waitpids
    BY <2>2 DEF RcIInv, LeftOfOne
  <2> QED BY <1>1, <2>2, <2>3
<1>3. rcpc' = Run /\ rcq' = rcq /\ Top' = Top /\ rcstatus' = rcstatus /\ piped' = NoPipeline
  BY <1>1, <1>2 DEF WaitOver, Top
<1>4. RcTypeOK'
  BY <1>1, <1>3, RcTypes DEF RcIInv, RcTypeOK, Run, Statuses
<1>5. PipelinesBelow' /\ LeftOfOne' /\ StatusNoted'
  BY <1>1, <1>2, <1>3 DEF RcIInv, PipelinesBelow, LeftOfOne, StatusNoted, Run
<1>6. WaitsForOwn' /\ PipeStatus'
  BY <1>3 DEF WaitsForOwn, PipeStatus, NoPipeline, Run
<1>7. KidsKnown'
  <2>1. ASSUME NEW p \in RcPids, kids[p].st # "none"
        PROVE  kids[p].role = "bg" \/ (kids[p].role = "left" /\ \E i \in 1..Top : rcq[i].pid = p)
    <3>1. p \in Nat BY RcPidAssumption
    <3> QED BY <1>1, <2>1, <3>1 DEF RcIInv, KidsKnown
  <2> QED BY <1>1, <1>3, <2>1 DEF KidsKnown
<1> QED BY <1>4, <1>5, <1>6, <1>7 DEF RcIInv

\* Waitfor() has the process it waits for.
LEMMA WaitforItKeeps ==
    ASSUME RcIInv, NEW z \in RcPids, Waitfor(z), z = rcpc.pid
    PROVE  RcIInv'
<1>1. /\ rcpc.at \in {"waitfor", "pipewait"} /\ kids[z].st = "ended"
      /\ kids' = [kids EXCEPT ![z] = NoKid] /\ waitpids' = waitpids \ {z} /\ wrend' = wrend
      /\ WaitOver(rcq, kids[z].code)
  BY DEF Waitfor, delwaitpid
<1>2. /\ kids' \in [RcPids -> KidRecs] /\ kids'[z].st = "none"
      /\ \A p \in RcPids : p # z => kids'[p] = kids[p]
  BY <1>1, RcTypes DEF RcIInv, RcTypeOK, NoKid
<1>3. kids[z].code \in Statuses /\ kids[z] \in KidRecs
  BY DEF RcIInv, RcTypeOK, KidRecs
<1>4. rcq \in Seq(RcThreads) /\ Len(rcq) = Top /\ Top >= 1 /\ Top \in 1..Top /\ 0 \notin RcPids
  BY RcPidAssumption DEF RcIInv, RcTypeOK, PipelinesBelow, Top
<1>5. CASE rcpc.at = "waitfor"
  <2>1. rcpc' = Run /\ rcq' = rcq /\ Top' = Top /\ rcstatus' = kids[z].code /\ piped' = NoPipeline
    BY <1>1, <1>5 DEF WaitOver, Top
  <2>2. RcTypeOK'
    BY <1>1, <1>2, <1>3, <2>1, RcTypes DEF RcIInv, RcTypeOK, Run, Statuses
  <2>3. \A i \in 1..Top : rcq[i].pid # z
    BY <1>1, <1>5 DEF RcIInv, LeftOfOne, WaitsForOwn
  <2>4. PipelinesBelow' /\ StatusNoted'
    BY <1>5, <2>1 DEF RcIInv, PipelinesBelow, StatusNoted, Run
  <2>5. LeftOfOne'
    BY <1>1, <1>2, <2>1, <2>3 DEF RcIInv, LeftOfOne
  <2>6. WaitsForOwn' /\ PipeStatus'
    BY <2>1 DEF WaitsForOwn, PipeStatus, NoPipeline, Run
  <2>7. KidsKnown'
    <3>1. ASSUME NEW p \in RcPids, kids'[p].st # "none"
          PROVE  kids'[p].role = "bg" \/ (kids'[p].role = "left" /\ \E i \in 1..Top : rcq[i].pid = p)
      <4>1. p # z /\ kids'[p] = kids[p] BY <1>2, <3>1
      <4> QED BY <3>1, <4>1 DEF RcIInv, KidsKnown
    <3> QED BY <2>1, <3>1 DEF KidsKnown
  <2> QED BY <2>2, <2>4, <2>5, <2>6, <2>7 DEF RcIInv
<1>6. CASE rcpc.at = "pipewait"
  <2>1. PipeDone(kids[z].code, rcq, rcpc.saved)
    BY <1>1, <1>6 DEF WaitOver
  <2>2. /\ rcq' \in Seq(RcThreads) /\ Top' = Top /\ rcq'[Top].pid = 0
        /\ \A i \in 1..Top : i # Top => SamePipeline(rcq'[i], rcq[i])
    BY <1>4, <2>1, PipeDoneIs DEF Top
  <2>3. rcpc' = Run /\ rcstatus' = rcpc.saved /\ piped' = [got |-> kids[z].code, truth |-> rcq[Top].truth]
    BY <1>4, <2>1 DEF PipeDone
  <2>4. rcq[Top].pid = z
    BY <1>6 DEF RcIInv, PipelinesBelow
  <2>5. rcq[Top].truth = kids[z].code /\ \A i \in 1..Top : rcq[i].pid = z => i = Top
    BY <1>1, <1>4, <2>4 DEF RcIInv, LeftOfOne
  <2>6. RcTypeOK'
    <3>1. rcpc.saved \in Statuses BY DEF RcIInv, RcTypeOK
    <3>2. piped' \in [got : Statuses, truth : Statuses \cup {"failed"}]
      BY <1>3, <2>3, <2>5
    <3>3. waitpids' \subseteq RcPids \cup {-1}
      BY <1>1 DEF RcIInv, RcTypeOK
    <3>4. wrend' \in BOOLEAN
      BY <1>1 DEF RcIInv, RcTypeOK
    <3>5. rcpc' \in [at : {"run", "read", "waitfor", "pipewait"}, pid : RcPids \cup {-1, 0}, saved : Statuses]
      BY <2>3 DEF Run, Statuses
    <3>6. rcstatus' \in Statuses
      BY <2>3, <3>1
    <3> QED BY <1>2, <2>2, <3>2, <3>3, <3>4, <3>5, <3>6 DEF RcTypeOK
  <2>7. PipeStatus'
    BY <2>3, <2>5 DEF PipeStatus
  <2>8. PipelinesBelow' /\ StatusNoted'
    <3>1. ASSUME NEW i \in 1..Top, i < Top
          PROVE  rcq'[i].pid \in RcPids \cup {-1} /\ (rcq'[i].pid = -1 => rcq'[i].truth \in {"failed", rcq'[i].status})
      <4>1. rcq[i].pid \in RcPids \cup {-1} /\ (rcq[i].pid = -1 => rcq[i].truth \in {"failed", rcq[i].status})
        BY <3>1 DEF RcIInv, PipelinesBelow, StatusNoted
      <4> QED BY <1>4, <2>2, <3>1, <4>1 DEF SamePipeline
    <3>2. rcpc'.at = "run" BY <2>3 DEF Run
    <3> QED BY <1>4, <2>2, <3>1, <3>2 DEF PipelinesBelow, StatusNoted
  <2>9. LeftOfOne'
    <3>1. ASSUME NEW i \in 1..Top, rcq'[i].pid \in RcPids
          PROVE  i # Top /\ rcq'[i].pid = rcq[i].pid /\ rcq'[i].truth = rcq[i].truth /\ rcq[i].pid # z
      BY <1>4, <2>2, <2>5, <3>1 DEF SamePipeline
    <3>2. ASSUME NEW i \in 1..Top, rcq'[i].pid \in RcPids
          PROVE  /\ kids'[rcq'[i].pid].st # "none" /\ kids'[rcq'[i].pid].role = "left" /\ rcq'[i].pid \in waitpids'
                 /\ kids'[rcq'[i].pid].st = "ended" => rcq'[i].truth = kids'[rcq'[i].pid].code
                 /\ \A j \in 1..Top : rcq'[j].pid = rcq'[i].pid => j = i
      <4>1. /\ kids[rcq[i].pid].st # "none" /\ kids[rcq[i].pid].role = "left" /\ rcq[i].pid \in waitpids
            /\ kids[rcq[i].pid].st = "ended" => rcq[i].truth = kids[rcq[i].pid].code
            /\ \A j \in 1..Top : rcq[j].pid = rcq[i].pid => j = i
        BY <3>1, <3>2 DEF RcIInv, LeftOfOne
      <4>2. ASSUME NEW j \in 1..Top, rcq'[j].pid = rcq'[i].pid PROVE j = i
        BY <3>1, <3>2, <4>1, <4>2
      <4> QED BY <1>1, <1>2, <3>1, <3>2, <4>1, <4>2
    <3> QED BY <2>2, <3>2 DEF LeftOfOne
  <2>10. WaitsForOwn'
    BY <2>3 DEF WaitsForOwn, Run
  <2>11. KidsKnown'
    <3>1. ASSUME NEW p \in RcPids, kids'[p].st # "none"
          PROVE  kids'[p].role = "bg" \/ (kids'[p].role = "left" /\ \E i \in 1..Top : rcq'[i].pid = p)
      <4>1. p # z /\ kids'[p] = kids[p] BY <1>2, <3>1
      <4>2. kids[p].role = "bg" \/ (kids[p].role = "left" /\ \E i \in 1..Top : rcq[i].pid = p)
        BY <1>6, <3>1, <4>1 DEF RcIInv, KidsKnown
      <4>3. ASSUME NEW i \in 1..Top, rcq[i].pid = p PROVE rcq'[i].pid = p
        BY <2>2, <2>4, <4>1, <4>3 DEF SamePipeline
      <4> QED BY <4>1, <4>2, <4>3
    <3> QED BY <2>2, <3>1 DEF KidsKnown
  <2> QED BY <2>6, <2>7, <2>8, <2>9, <2>10, <2>11 DEF RcIInv
<1> QED BY <1>1, <1>5, <1>6

\* Waitfor() has another process: the thread that will ask for it has its status.
LEMMA WaitforOtherKeeps ==
    ASSUME RcIInv, NEW z \in RcPids, Waitfor(z), z # rcpc.pid
    PROVE  RcIInv'
<1>1. /\ rcpc.at \in {"waitfor", "pipewait"} /\ kids[z].st = "ended"
      /\ kids' = [kids EXCEPT ![z] = NoKid] /\ waitpids' = waitpids \ {z} /\ wrend' = wrend
      /\ rcq' = NotedInThreads(z, kids[z].code)
      /\ piped' = NoPipeline /\ rcstatus' = rcstatus /\ rcpc' = rcpc
  BY DEF Waitfor, delwaitpid
<1>2. /\ kids' \in [RcPids -> KidRecs] /\ kids'[z].st = "none"
      /\ \A p \in RcPids : p # z => kids'[p] = kids[p]
  BY <1>1, RcTypes DEF RcIInv, RcTypeOK, NoKid
<1>3. kids[z].code \in Statuses
  BY DEF RcIInv, RcTypeOK, KidRecs
<1>4. /\ rcq \in Seq(RcThreads) /\ Len(rcq) = Top /\ Top >= 1 /\ Top \in 1..Top /\ Top \in Nat
      /\ 0 \notin RcPids /\ -1 \notin RcPids
  BY RcPidAssumption DEF RcIInv, RcTypeOK, PipelinesBelow, Top
<1>5. rcq[Top].pid # z
  BY <1>1, <1>4 DEF RcIInv, PipelinesBelow
<1>6. /\ rcq' \in Seq(RcThreads) /\ Top' = Top
      /\ \A i \in 1..Top : IF rcq[i].pid = z
                           THEN i < Top /\ rcq'[i].pid = -1 /\ rcq'[i].status = kids[z].code /\ rcq'[i].truth = rcq[i].truth
                           ELSE rcq'[i] = rcq[i]
  <2>1. DOMAIN rcq = 1..Top
    BY <1>4
  <2>2. rcq' = [i \in 1..Top |-> IF i < Top /\ rcq[i].pid = z
                                 THEN [rcq[i] EXCEPT !.pid = -1, !.status = kids[z].code] ELSE rcq[i]]
    BY <1>1, <2>1 DEF NotedInThreads
  <2>3. ASSUME NEW i \in 1..Top
        PROVE  /\ rcq'[i] \in RcThreads
               /\ IF rcq[i].pid = z
                  THEN i < Top /\ rcq'[i].pid = -1 /\ rcq'[i].status = kids[z].code /\ rcq'[i].truth = rcq[i].truth
                  ELSE rcq'[i] = rcq[i]
    <3>1. rcq[i] \in RcThreads BY <1>4
    <3>2. CASE rcq[i].pid = z
      <4>1. i < Top BY <1>4, <1>5, <3>2
      <4>2. rcq'[i] = [rcq[i] EXCEPT !.pid = -1, !.status = kids[z].code] BY <2>2, <3>2, <4>1
      <4> QED BY <1>3, <3>1, <3>2, <4>1, <4>2 DEF RcThreads
    <3>3. CASE rcq[i].pid # z
      BY <2>2, <3>1, <3>3
    <3> QED BY <3>2, <3>3
  <2>4. rcq' \in [1..Top -> RcThreads]
    BY <2>2, <2>3
  <2>5. rcq' \in Seq(RcThreads)
    BY <1>4, <2>4, SeqDef
  <2>6. Len(rcq') = Top
    BY <1>4, <2>4, <2>5, LenProperties
  <2> QED BY <2>3, <2>5, <2>6 DEF Top
<1>7. RcTypeOK'
  BY <1>1, <1>2, <1>6, RcTypes DEF RcIInv, RcTypeOK
<1>8. PipelinesBelow'
  BY <1>1, <1>4, <1>5, <1>6 DEF RcIInv, PipelinesBelow
<1>9. LeftOfOne'
  <2>1. ASSUME NEW i \in 1..Top, rcq'[i].pid \in RcPids
        PROVE  rcq'[i] = rcq[i] /\ rcq[i].pid # z
    BY <1>4, <1>6, <2>1
  <2>2. ASSUME NEW i \in 1..Top, rcq'[i].pid \in RcPids
        PROVE  /\ kids'[rcq'[i].pid].st # "none" /\ kids'[rcq'[i].pid].role = "left" /\ rcq'[i].pid \in waitpids'
               /\ kids'[rcq'[i].pid].st = "ended" => rcq'[i].truth = kids'[rcq'[i].pid].code
               /\ \A j \in 1..Top : rcq'[j].pid = rcq'[i].pid => j = i
    <3>1. /\ kids[rcq[i].pid].st # "none" /\ kids[rcq[i].pid].role = "left" /\ rcq[i].pid \in waitpids
          /\ kids[rcq[i].pid].st = "ended" => rcq[i].truth = kids[rcq[i].pid].code
          /\ \A j \in 1..Top : rcq[j].pid = rcq[i].pid => j = i
      BY <2>1, <2>2 DEF RcIInv, LeftOfOne
    <3>2. ASSUME NEW j \in 1..Top, rcq'[j].pid = rcq'[i].pid PROVE j = i
      BY <2>1, <2>2, <3>1, <3>2
    <3> QED BY <1>1, <1>2, <2>1, <2>2, <3>1, <3>2
  <2> QED BY <1>6, <2>2 DEF LeftOfOne
<1>10. StatusNoted'
  <2>1. ASSUME NEW i \in 1..Top, i < Top, rcq'[i].pid = -1 PROVE rcq'[i].truth \in {"failed", rcq'[i].status}
    <3>1. CASE rcq[i].pid = z
      <4>1. rcq[i].truth = kids[z].code BY <1>1, <3>1 DEF RcIInv, LeftOfOne
      <4> QED BY <1>6, <3>1, <4>1
    <3>2. CASE rcq[i].pid # z
      BY <1>6, <2>1, <3>2 DEF RcIInv, StatusNoted
    <3> QED BY <3>1, <3>2
  <2> QED BY <1>6, <2>1 DEF StatusNoted
<1>11. WaitsForOwn' /\ PipeStatus'
  BY <1>1, <1>2 DEF RcIInv, WaitsForOwn, PipeStatus, NoPipeline
<1>12. KidsKnown'
  <2>1. ASSUME NEW p \in RcPids, kids'[p].st # "none"
        PROVE  \/ kids'[p].role = "bg"
               \/ kids'[p].role = "left" /\ \E i \in 1..Top : rcq'[i].pid = p
               \/ kids'[p].role = "fg" /\ rcpc'.at \in {"read", "waitfor"} /\ rcpc'.pid = p /\ p \in waitpids'
    <3>1. p # z /\ kids'[p] = kids[p] BY <1>2, <2>1
    <3>2. \/ kids[p].role = "bg"
          \/ kids[p].role = "left" /\ \E i \in 1..Top : rcq[i].pid = p
          \/ kids[p].role = "fg" /\ rcpc.at \in {"read", "waitfor"} /\ rcpc.pid = p /\ p \in waitpids
      BY <2>1, <3>1 DEF RcIInv, KidsKnown
    <3>3. ASSUME NEW i \in 1..Top, rcq[i].pid = p PROVE rcq'[i].pid = p
      BY <1>6, <3>1, <3>3
    <3> QED BY <1>1, <3>1, <3>2, <3>3
  <2> QED BY <1>6, <2>1 DEF KidsKnown
<1> QED BY <1>7, <1>8, <1>9, <1>10, <1>11, <1>12 DEF RcIInv

\* A process ends: its thread's true status is the one it ends with.
LEMMA KidEndsKeeps ==
    ASSUME RcIInv, NEW z \in RcPids, NEW code \in Codes, KidEnds(z, code)
    PROVE  RcIInv'
<1>1. /\ kids[z].st = "running" /\ kids' = [kids EXCEPT ![z].st = "ended", ![z].code = code]
      /\ rcq' = [i \in DOMAIN rcq |-> IF rcq[i].pid = z THEN [rcq[i] EXCEPT !.truth = code] ELSE rcq[i]]
      /\ piped' = NoPipeline /\ waitpids' = waitpids /\ rcstatus' = rcstatus /\ rcpc' = rcpc /\ wrend' = wrend
  BY DEF KidEnds
<1>2. /\ kids' \in [RcPids -> KidRecs]
      /\ kids'[z].st = "ended" /\ kids'[z].code = code /\ kids'[z].role = kids[z].role
      /\ \A p \in RcPids : p # z => kids'[p] = kids[p]
  <2>1. kids \in [RcPids -> KidRecs] /\ kids[z] \in KidRecs BY DEF RcIInv, RcTypeOK
  <2> QED BY <1>1, <2>1 DEF KidRecs, Statuses
<1>3. /\ rcq \in Seq(RcThreads) /\ Len(rcq) = Top /\ Top \in Nat /\ DOMAIN rcq = 1..Top
      /\ -1 \notin RcPids
  BY RcPidAssumption DEF RcIInv, RcTypeOK, Top
<1>4. /\ rcq' \in Seq(RcThreads) /\ Top' = Top
      /\ \A i \in 1..Top : /\ rcq'[i].pid = rcq[i].pid
                           /\ IF rcq[i].pid = z THEN rcq'[i].truth = code ELSE rcq'[i] = rcq[i]
  <2>1. ASSUME NEW i \in 1..Top
        PROVE  /\ rcq'[i] \in RcThreads /\ rcq'[i].pid = rcq[i].pid
               /\ IF rcq[i].pid = z THEN rcq'[i].truth = code ELSE rcq'[i] = rcq[i]
    <3>1. rcq[i] \in RcThreads BY <1>3
    <3>2. CASE rcq[i].pid = z
      <4>1. rcq'[i] = [rcq[i] EXCEPT !.truth = code] BY <1>1, <1>3, <3>2
      <4> QED BY <3>1, <3>2, <4>1 DEF RcThreads, Statuses
    <3>3. CASE rcq[i].pid # z
      BY <1>1, <1>3, <3>1, <3>3
    <3> QED BY <3>2, <3>3
  <2>2. rcq' \in [1..Top -> RcThreads]
    BY <1>1, <1>3, <2>1
  <2>3. rcq' \in Seq(RcThreads)
    BY <1>3, <2>2, SeqDef
  <2>4. Len(rcq') = Top
    BY <1>3, <2>2, <2>3, LenProperties
  <2> QED BY <2>1, <2>3, <2>4 DEF Top
<1>5. RcTypeOK'
  BY <1>1, <1>2, <1>4, RcTypes DEF RcIInv, RcTypeOK
<1>6. Top >= 1 /\ Top \in 1..Top
  BY <1>3 DEF RcIInv, PipelinesBelow
<1>7. PipelinesBelow'
  BY <1>1, <1>4, <1>6 DEF RcIInv, PipelinesBelow
<1>8. LeftOfOne'
  <2>1. ASSUME NEW i \in 1..Top, rcq'[i].pid \in RcPids
        PROVE  /\ kids'[rcq'[i].pid].st # "none" /\ kids'[rcq'[i].pid].role = "left" /\ rcq'[i].pid \in waitpids'
               /\ kids'[rcq'[i].pid].st = "ended" => rcq'[i].truth = kids'[rcq'[i].pid].code
               /\ \A j \in 1..Top : rcq'[j].pid = rcq'[i].pid => j = i
    <3>1. rcq'[i].pid = rcq[i].pid BY <1>4
    <3>2. /\ kids[rcq[i].pid].st # "none" /\ kids[rcq[i].pid].role = "left" /\ rcq[i].pid \in waitpids
          /\ kids[rcq[i].pid].st = "ended" => rcq[i].truth = kids[rcq[i].pid].code
          /\ \A j \in 1..Top : rcq[j].pid = rcq[i].pid => j = i
      BY <2>1, <3>1 DEF RcIInv, LeftOfOne
    <3>3. \A j \in 1..Top : rcq'[j].pid = rcq'[i].pid => j = i
      BY <1>4, <3>1, <3>2
    <3>4. CASE rcq[i].pid = z
      BY <1>1, <1>2, <1>4, <3>1, <3>2, <3>3, <3>4, SMTT(30)
    <3>5. CASE rcq[i].pid # z
      BY <1>1, <1>2, <1>4, <2>1, <3>1, <3>2, <3>3, <3>5, SMTT(30)
    <3> QED BY <3>4, <3>5
  <2> QED BY <1>4, <2>1 DEF LeftOfOne
<1>9. StatusNoted'
  <2>1. ASSUME NEW i \in 1..Top, i < Top, rcq'[i].pid = -1 PROVE rcq'[i].truth \in {"failed", rcq'[i].status}
    BY <1>3, <1>4, <2>1 DEF RcIInv, StatusNoted
  <2> QED BY <1>4, <2>1 DEF StatusNoted
<1>10. WaitsForOwn' /\ PipeStatus'
  BY <1>1, <1>2 DEF RcIInv, WaitsForOwn, PipeStatus, NoPipeline
<1>11. KidsKnown'
  <2>1. ASSUME NEW p \in RcPids, kids'[p].st # "none"
        PROVE  \/ kids'[p].role = "bg"
               \/ kids'[p].role = "left" /\ \E i \in 1..Top : rcq'[i].pid = p
               \/ kids'[p].role = "fg" /\ rcpc'.at \in {"read", "waitfor"} /\ rcpc'.pid = p /\ p \in waitpids'
    <3>1. kids'[p].role = kids[p].role /\ kids[p].st # "none" BY <1>1, <1>2, <2>1
    <3>2. \/ kids[p].role = "bg"
          \/ kids[p].role = "left" /\ \E i \in 1..Top : rcq[i].pid = p
          \/ kids[p].role = "fg" /\ rcpc.at \in {"read", "waitfor"} /\ rcpc.pid = p /\ p \in waitpids
      BY <3>1 DEF RcIInv, KidsKnown
    <3> QED BY <1>1, <1>4, <3>1, <3>2
  <2> QED BY <1>4, <2>1 DEF KidsKnown
<1> QED BY <1>5, <1>7, <1>8, <1>9, <1>10, <1>11 DEF RcIInv

\* Every step keeps the inductive invariant.
LEMMA RcStepKeeps == RcIInv /\ [RcNext]_rcvars => RcIInv'
<1> SUFFICES ASSUME RcIInv, [RcNext]_rcvars PROVE RcIInv'
  OBVIOUS
<1>1. ASSUME NEW pid \in RcPids \cup {-1}, Xasync(pid) \/ Xpipefd(pid) PROVE RcIInv'
  BY <1>1, BackgroundKeeps
<1>2. ASSUME NEW pid \in RcPids \cup {-1}, Xsubshell(pid) \/ Xbackq(pid) PROVE RcIInv'
  BY <1>2, ForegroundKeeps
<1>3. ASSUME NEW pid \in RcPids \cup {-1}, Xpipe(pid) PROVE RcIInv'
  BY <1>3, XpipeKeeps
<1>4. CASE BackqEof \/ \E pid \in RcPids \cup {-1} : execwait(pid)
  BY <1>4, WaitBeginsKeeps
<1>5. CASE Xpipewait
  BY <1>5, XpipewaitKeeps
<1>6. CASE WaitforNothing
  BY <1>6, WaitforNothingKeeps
<1>7. ASSUME NEW z \in RcPids, Waitfor(z) PROVE RcIInv'
  BY <1>7, WaitforItKeeps, WaitforOtherKeeps
<1>8. ASSUME NEW z \in RcPids, NEW code \in Codes, KidEnds(z, code) PROVE RcIInv'
  BY <1>8, KidEndsKeeps
<1>9. CASE UNCHANGED rcvars
  <2>1. kids' = kids /\ waitpids' = waitpids /\ rcq' = rcq /\ rcstatus' = rcstatus /\ rcpc' = rcpc
        /\ wrend' = wrend /\ piped' = piped /\ Top' = Top
    BY <1>9 DEF rcvars, Top
  <2> QED BY <2>1 DEF RcIInv, RcTypeOK, PipelinesBelow, LeftOfOne, StatusNoted, WaitsForOwn, KidsKnown, PipeStatus
<1> QED BY <1>1, <1>2, <1>3, <1>4, <1>5, <1>6, <1>7, <1>8, <1>9 DEF RcNext, RcStep, SomeKidEnds

\* The inductive invariant of rc's waiting holds always: for any number of
\* processes, statuses and nested pipelines.
THEOREM RcInvariance == RcSpec => []RcIInv
BY RcInitOK, RcStepKeeps, PTL DEF RcSpec

\* rc waits for every command of its own and gets the status of both parts of
\* a pipeline (Waitfor(), NotedInThreads()), in whatever order processes end.
THEOREM RcCorrect == RcSpec => []StatusKept
<1>1. RcIInv => StatusKept
  <2> SUFFICES ASSUME RcIInv PROVE CommandsWaitedFor
    BY DEF RcIInv, StatusKept
  <2>1. ASSUME rcpc.at = "run", NEW p \in RcPids, kids[p].st # "none"
        PROVE  kids[p].role = "bg" \/ (kids[p].role = "left" /\ \E i \in 1..(Top - 1) : rcq[i].pid = p)
    <3>1. Top \in Nat /\ rcq[Top].pid = 0 /\ p # 0
      BY <2>1, RcPidAssumption DEF RcIInv, RcTypeOK, PipelinesBelow, Top
    <3>2. kids[p].role = "bg" \/ (kids[p].role = "left" /\ \E i \in 1..Top : rcq[i].pid = p)
      BY <2>1 DEF RcIInv, KidsKnown
    <3>3. ASSUME NEW i \in 1..Top, rcq[i].pid = p PROVE i \in 1..(Top - 1)
      BY <3>1, <3>3
    <3> QED BY <3>2, <3>3
  <2> QED BY <2>1 DEF CommandsWaitedFor
<1> QED BY <1>1, RcInvariance, PTL

-----------------------------------------------------------------------------
(* winspawne(): its helpers and the processes it starts.                  *)

SpawnPcs == {"idle", "export", "helper", "closeh", "add", "closefd", "ok", "fail", "closeall", "failed"}
FdRecs == [kind : {"file", "pipe", "null", "closed"}, gen : {0, 1}]
CallStates == [pc : SpawnPcs, fd : Seq(FdNums \cup {-1}), used : SUBSET (1..3), i : Nat \ {0}, from : {"spawn", "exec"}]
PipeEnds == SpawnProcs \X (1..3) \X {"l", "r"}
Pipes == [l : BOOLEAN, r : BOOLEAN, linh : BOOLEAN, fd : BOOLEAN, data : Nat]

\* Every variable has its type.
SpawnTypeOK ==
    /\ tab \in [FdNums -> FdRecs] /\ call \in [SpawnProcs -> CallStates]
    /\ pipe \in [Exports -> Pipes] /\ helper \in [Exports -> {"none", "run", "closing", "done"}]
    /\ kid \in [SpawnProcs -> {"none", "run", "gone"}] /\ holds \in [SpawnProcs -> SUBSET PipeEnds]
    /\ wrote \in [SpawnProcs -> Nat] /\ arrived \in [SpawnProcs -> Nat]
    /\ foreign \in BOOLEAN /\ excused \in BOOLEAN

Fds(s) == 1..Nfd(s)

\* The numbers of a call are those it was made with; those of exec() differ.
OwnNums(s) ==
    /\ Nfd(s) <= 3 /\ \A i \in Fds(s) : call[s].fd[i] = -1 \/ call[s].fd[i] \in NumsOf(s)
    /\ call[s].from = "exec" => \A i, j \in Fds(s) : call[s].fd[i] = call[s].fd[j] /\ call[s].fd[i] # -1 => i = j
    /\ call[s].pc = "closeall" => call[s].from = "exec"
    /\ call[s].pc = "helper" => call[s].i <= Nfd(s)
    /\ call[s].pc = "add" => call[s].i = 1

\* The i-th descriptor of s has not been exported yet.
ToExport(s, i) == \/ call[s].pc = "idle" \/ (call[s].pc = "export" /\ i >= call[s].i)
                  \/ (call[s].pc = "helper" /\ i > call[s].i)
InExport(s, i) == call[s].pc = "helper" /\ i = call[s].i

\* An anonymous pipe has a helper, except while it is made; the helper has the
\* descriptor if there is one.
HelpedAt(s, i) ==
    /\ ToExport(s, i) => helper[<<s, i>>] = "none" /\ pipe[<<s, i>>] = NoPipe /\ i \notin call[s].used
    /\ InExport(s, i) => helper[<<s, i>>] = "none" /\ i \notin call[s].used /\ pipe[<<s, i>>].data = 0
    /\ pipe[<<s, i>>].linh => InExport(s, i)
    /\ helper[<<s, i>>] = "none" /\ ~InExport(s, i) => pipe[<<s, i>>] = NoPipe
    /\ i \in call[s].used <=> helper[<<s, i>>] # "none" /\ pipe[<<s, i>>].fd
    /\ pipe[<<s, i>>].fd => i <= Nfd(s) /\ call[s].fd[i] # -1
PipesHelped(s) == \A i \in 1..3 : HelpedAt(s, i)

\* There is a process only after CreateProcess(), and it writes to the second
\* pipe; what it wrote has arrived or is in that pipe.
KidsOutput(s) ==
    /\ call[s].pc \in {"idle", "export", "helper"} => kid[s] = "none"
    /\ kid[s] = "none" => wrote[s] = 0 /\ arrived[s] = 0 /\ holds[s] = {} /\ pipe[<<s, 2>>].data = 0
    /\ End(<<s, 2>>, "r") \in holds[s] => helper[<<s, 2>>] # "none"
    /\ pipe[<<s, 1>>].data = 0 /\ pipe[<<s, 3>>].data = 0
    /\ ~excused => wrote[s] = arrived[s] + pipe[<<s, 2>>].data

\* The helper of the output ends when the pipe is empty and stays so.
EndsDrained(s) == ~excused /\ helper[<<s, 2>>] \in {"closing", "done"} => Drained(<<s, 2>>)

\* A number was closed; it may have been used for another descriptor since.
Over(n) == tab[n].kind = "closed" \/ tab[n].gen # 0

\* The descriptors of calls to come are open.
NotOverYet(s) == call[s].pc = "idle" => \A n \in NumsOf(s) : ~Over(n)

\* A number given twice is not that of a pipe; so a helper's has no other user.
TwinsPlain(s) == ~excused => \A i, j \in Fds(s) :
    call[s].fd[i] = call[s].fd[j] /\ i # j /\ call[s].fd[i] # -1 =>
        tab[call[s].fd[i]].kind # "pipe" /\ ~pipe[<<s, i>>].fd

\* A descriptor is over only when the one who has to close it has done so.
OverAt(s, i) == call[s].fd[i] # -1 /\ Over(call[s].fd[i]) =>
    IF i \in call[s].used THEN helper[<<s, i>>] = "done"
    ELSE \/ call[s].pc \in {"ok", "failed"}
         \/ call[s].pc = "closefd" /\ \E j \in Fds(s) : j < call[s].i /\ call[s].fd[j] = call[s].fd[i]
         \/ call[s].pc = "closeall" /\ i < call[s].i
OverWhenClosed(s) == ~excused => \A i \in Fds(s) : OverAt(s, i)

\* No helper has a descriptor when winexecve() closes them.
ClosesAllAlone(s) == ~excused /\ call[s].pc = "closeall" => call[s].used = {}

\* What a helper or winspawne() has closed is over.
ClosedAt(s, i) ==
    /\ i \in call[s].used /\ helper[<<s, i>>] = "done" => Over(call[s].fd[i])
    /\ call[s].pc \in {"closefd", "ok"} /\ i < call[s].i /\ i \notin call[s].used /\ call[s].fd[i] # -1
          /\ (\A j \in Fds(s) : j < i => call[s].fd[j] # call[s].fd[i]) => Over(call[s].fd[i])
    /\ call[s].pc = "ok" => i < call[s].i
ClosedIsOver(s) == \A i \in Fds(s) : ClosedAt(s, i)

\* Of EndIsSeen, what is about one proc.
EndSeen(s) == \A i \in 1..3 :
    /\ call[s].pc \in {"add", "closefd", "ok", "fail", "closeall", "failed"} => ~pipe[<<s, i>>].r
    /\ End(<<s, i>>, "l") \notin holds[s]

SpawnPart(s) == /\ OwnNums(s) /\ PipesHelped(s) /\ KidsOutput(s) /\ EndsDrained(s) /\ NotOverYet(s)
                /\ TwinsPlain(s) /\ OverWhenClosed(s) /\ ClosesAllAlone(s) /\ ClosedIsOver(s) /\ EndSeen(s)

SpawnIInv == SpawnTypeOK /\ NoForeignClose /\ \A s \in SpawnProcs : SpawnPart(s)

\* The parts of the state have their types.
LEMMA SpawnTypes ==
    ASSUME SpawnTypeOK, NEW s \in SpawnProcs
    PROVE  /\ call[s] \in CallStates /\ call[s].i \in Nat \ {0} /\ call[s].used \subseteq 1..3
           /\ call[s].fd \in Seq(FdNums \cup {-1}) /\ Nfd(s) \in Nat
           /\ \A i \in Fds(s) : i \in Nat \ {0} /\ call[s].fd[i] \in FdNums \cup {-1}
           /\ \A i \in 1..3 : <<s, i>> \in Exports /\ pipe[<<s, i>>] \in Pipes
<1>1. call[s] \in CallStates
  BY DEF SpawnTypeOK
<1>2. call[s].i \in Nat \ {0} /\ call[s].used \subseteq 1..3 /\ call[s].fd \in Seq(FdNums \cup {-1})
  BY <1>1 DEF CallStates
<1>3. Nfd(s) \in Nat /\ \A i \in Fds(s) : i \in Nat \ {0} /\ call[s].fd[i] \in FdNums \cup {-1}
  BY <1>2 DEF Nfd, Fds
<1>4. \A i \in 1..3 : <<s, i>> \in Exports
  BY DEF Exports
<1> QED BY <1>1, <1>2, <1>3, <1>4 DEF SpawnTypeOK

\* An export is one of a proc's.
LEMMA ExportIs ==
    ASSUME NEW x \in Exports
    PROVE  x[1] \in SpawnProcs /\ x[2] \in 1..3 /\ x = <<x[1], x[2]>>
BY DEF Exports

\* The numbers of a proc are numbers of descriptors.
LEMMA NumsAreFds ==
    ASSUME NEW s \in SpawnProcs
    PROVE  NumsOf(s) \subseteq FdNums /\ -1 \notin NumsOf(s)
<1>1. ASSUME NEW c \in Calls[s], NEW i \in DOMAIN c.fd PROVE c.fd[i] \in FdNums \cup {-1}
  <2>1. c.fd \in Seq(FdNums \cup {-1})
    BY CallsAssumption
  <2> QED BY <2>1
<1>2. ASSUME NEW n \in NumsOf(s) PROVE n \in FdNums
  <2> DEFINE U == {{c.fd[i] : i \in DOMAIN c.fd} : c \in Calls[s]}
  <2>0. n \in (UNION U) \ {-1}
    BY DEF NumsOf
  <2> HIDE DEF U
  <2>1. n # -1 /\ \E S \in U : n \in S
    BY <2>0
  <2> USE DEF U
  <2>2. PICK c \in Calls[s] : n \in {c.fd[i] : i \in DOMAIN c.fd}
    BY <2>1
  <2> QED BY <1>1, <2>1, <2>2
<1>3. -1 \notin NumsOf(s)
  <2> DEFINE U == UNION {{c.fd[i] : i \in DOMAIN c.fd} : c \in Calls[s]}
  <2>1. NumsOf(s) = U \ {-1}
    BY DEF NumsOf
  <2> HIDE DEF U
  <2> QED BY <2>1
<1> QED BY <1>2, <1>3

\* What a step of one proc, or of its helpers and its process, leaves to the
\* others.
Moves(s) ==
    /\ \A t \in SpawnProcs : t # s =>
          /\ call'[t] = call[t] /\ kid'[t] = kid[t] /\ holds'[t] = holds[t]
          /\ wrote'[t] = wrote[t] /\ arrived'[t] = arrived[t]
          /\ \A i \in 1..3 : pipe'[<<t, i>>] = pipe[<<t, i>>] /\ helper'[<<t, i>>] = helper[<<t, i>>]
          /\ \A n \in NumsOf(t) : tab'[n] = tab[n]
    /\ excused => excused'
    /\ \A x \in Exports : End(x, "r") \in holds'[s] => End(x, "r") \in holds[s] \/ pipe[x].r

\* An empty pipe to which nobody can write stays so.
LEMMA DrainedStays ==
    ASSUME NEW s \in SpawnProcs, Moves(s), NEW x \in Exports, Drained(x), pipe'[x].data = pipe[x].data,
           pipe'[x].r = pipe[x].r
    PROVE  Drained(x)'
<1>1. ASSUME NEW t \in SpawnProcs, End(x, "r") \in holds'[t] PROVE FALSE
  <2>1. CASE t = s
    BY <1>1, <2>1 DEF Moves, Drained, Abandoned, Held
  <2>2. CASE t # s
    BY <1>1, <2>2 DEF Moves, Drained, Abandoned, Held
  <2> QED BY <2>1, <2>2
<1>2. ~pipe'[x].r /\ pipe'[x].data = 0
  BY DEF Drained, Abandoned
<1>3. ~(Held(x, "r")')
  BY <1>1 DEF Held
<1> QED BY <1>2, <1>3 DEF Drained, Abandoned

\* It keeps what is said of the others.
LEMMA OthersKeepParts ==
    ASSUME SpawnIInv, NEW s \in SpawnProcs, Moves(s), NEW t \in SpawnProcs, t # s
    PROVE  SpawnPart(t)'
<1>1. /\ call'[t] = call[t] /\ kid'[t] = kid[t] /\ holds'[t] = holds[t]
      /\ wrote'[t] = wrote[t] /\ arrived'[t] = arrived[t]
      /\ \A i \in 1..3 : pipe'[<<t, i>>] = pipe[<<t, i>>] /\ helper'[<<t, i>>] = helper[<<t, i>>]
      /\ \A n \in NumsOf(t) : tab'[n] = tab[n]
      /\ excused => excused'
  BY DEF Moves
<1>2. Nfd(t)' = Nfd(t) /\ Fds(t)' = Fds(t)
  BY <1>1 DEF Nfd, Fds
<1>3. SpawnPart(t) /\ Nfd(t) <= 3 /\ Nfd(t) \in Nat
  BY SpawnTypes DEF SpawnIInv, SpawnPart, OwnNums
<1>4. \A i \in Fds(t) : i \in 1..3 /\ (call[t].fd[i] # -1 => call[t].fd[i] \in NumsOf(t))
  BY <1>3 DEF Fds, SpawnPart, OwnNums
<1>5. \A n \in NumsOf(t) : Over(n)' <=> Over(n)
  BY <1>1 DEF Over
<1>6. OwnNums(t)'
  BY <1>1, <1>2, <1>3 DEF SpawnPart, OwnNums
<1>7. PipesHelped(t)'
  <2>1. ASSUME NEW i \in 1..3 PROVE HelpedAt(t, i)'
    <3>1. HelpedAt(t, i)
      BY <1>3 DEF SpawnPart, PipesHelped
    <3> QED BY <1>1, <1>2, <3>1 DEF HelpedAt, ToExport, InExport
  <2> QED BY <2>1 DEF PipesHelped
<1>8. KidsOutput(t)'
  BY <1>1, <1>3 DEF SpawnPart, KidsOutput, End
<1>9. EndsDrained(t)'
  <2>1. <<t, 2>> \in Exports
    BY DEF Exports
  <2>2. ~excused' /\ helper'[<<t, 2>>] \in {"closing", "done"} => Drained(<<t, 2>>)
    BY <1>1, <1>3 DEF SpawnPart, EndsDrained
  <2>3. Drained(<<t, 2>>) => Drained(<<t, 2>>)'
    BY <1>1, <2>1, DrainedStays
  <2> QED BY <2>2, <2>3 DEF EndsDrained
<1>10. NotOverYet(t)'
  BY <1>1, <1>3, <1>5 DEF SpawnPart, NotOverYet
<1>11. TwinsPlain(t)'
  <2>1. ASSUME ~excused', NEW i \in Fds(t), NEW j \in Fds(t), call[t].fd[i] = call[t].fd[j], i # j, call[t].fd[i] # -1
        PROVE  tab'[call[t].fd[i]].kind # "pipe" /\ ~pipe'[<<t, i>>].fd
    BY <1>1, <1>3, <1>4, <2>1 DEF SpawnPart, TwinsPlain
  <2> QED BY <1>1, <1>2, <2>1 DEF TwinsPlain
<1>12. OverWhenClosed(t)'
  <2>1. ASSUME ~excused', NEW i \in Fds(t) PROVE OverAt(t, i)'
    <3>1. OverAt(t, i)
      BY <1>1, <1>3, <2>1 DEF SpawnPart, OverWhenClosed
    <3>2. Over(call[t].fd[i])' /\ call[t].fd[i] # -1 => Over(call[t].fd[i])
      BY <1>4, <1>5, <1>1 DEF Over
    <3> QED BY <1>1, <1>2, <1>4, <3>1, <3>2 DEF OverAt, Over
  <2> QED BY <1>2, <2>1 DEF OverWhenClosed
<1>13. ClosesAllAlone(t)'
  BY <1>1, <1>3 DEF SpawnPart, ClosesAllAlone
<1>14. ClosedIsOver(t)'
  <2>1. ASSUME NEW i \in Fds(t) PROVE ClosedAt(t, i)'
    <3>1. ClosedAt(t, i)
      BY <1>3 DEF SpawnPart, ClosedIsOver
    <3>2. i \in call[t].used => call[t].fd[i] # -1
      BY <1>3, <1>4 DEF SpawnPart, PipesHelped, HelpedAt
    <3> QED BY <1>1, <1>2, <1>4, <3>1, <3>2 DEF ClosedAt, Over
  <2> QED BY <1>2, <2>1 DEF ClosedIsOver
<1>15. EndSeen(t)'
  BY <1>1, <1>3 DEF SpawnPart, EndSeen, End
<1> QED BY <1>6, <1>7, <1>8, <1>9, <1>10, <1>11, <1>12, <1>13, <1>14, <1>15 DEF SpawnPart

\* So it is enough to look at the proc itself.
LEMMA OneMoves ==
    ASSUME SpawnIInv, NEW s \in SpawnProcs, Moves(s), SpawnTypeOK', NoForeignClose', SpawnPart(s)'
    PROVE  SpawnIInv'
<1>1. ASSUME NEW t \in SpawnProcs PROVE SpawnPart(t)'
  BY OthersKeepParts
<1> QED BY <1>1 DEF SpawnIInv

\* A step of winspawne() within its call, which closes a number at most; what
\* it makes of the numbers that are over is left to show.
LEMMA WithinCall ==
    ASSUME SpawnIInv, NEW s \in SpawnProcs, NEW c \in CallStates,
           UNCHANGED <<pipe, helper, kid, holds, wrote, arrived>>,
           excused' \in BOOLEAN, excused => excused', call' = [call EXCEPT ![s] = c],
           c.fd = call[s].fd, c.used = call[s].used, c.from = call[s].from,
           c.pc \notin {"idle", "helper", "add"}, call[s].pc # "helper",
           c.pc = "export" => call[s].pc = "export" /\ c.i >= call[s].i,
           c.pc = "closeall" => c.from = "exec" /\ (~excused' => c.used = {}),
           c.pc \in {"closefd", "ok", "fail", "closeall", "failed"} =>
               call[s].pc \in {"add", "closefd", "ok", "fail", "closeall", "failed"},
           tab' \in [FdNums -> FdRecs], foreign' \in BOOLEAN, NoForeignClose',
           \A m \in FdNums : tab'[m] = tab[m] \/ (m \in NumsOf(s) /\ tab'[m].kind = "closed"),
           OverWhenClosed(s)', ClosedIsOver(s)'
    PROVE  SpawnIInv'
<1>1. /\ call' \in [SpawnProcs -> CallStates] /\ call'[s] = c /\ \A t \in SpawnProcs : t # s => call'[t] = call[t]
      /\ pipe' = pipe /\ helper' = helper /\ kid' = kid /\ holds' = holds
      /\ wrote' = wrote /\ arrived' = arrived
  BY DEF SpawnIInv, SpawnTypeOK
<1>2. Nfd(s)' = Nfd(s) /\ Fds(s)' = Fds(s)
  BY <1>1 DEF Nfd, Fds
<1>3. SpawnTypeOK'
  BY <1>1 DEF SpawnIInv, SpawnTypeOK
<1>4. SpawnPart(s) /\ Nfd(s) <= 3 /\ Nfd(s) \in Nat /\ c.i \in Nat /\ call[s].i \in Nat
  <2>1. c.i \in Nat
    BY DEF CallStates
  <2> QED BY <2>1, SpawnTypes DEF SpawnIInv, SpawnPart, OwnNums
<1>5. \A i \in Fds(s) : i \in 1..3 /\ (call[s].fd[i] # -1 => call[s].fd[i] \in NumsOf(s))
  BY <1>4 DEF Fds, SpawnPart, OwnNums
<1>6. Moves(s)
  <2>1. ASSUME NEW t \in SpawnProcs, t # s, NEW n \in NumsOf(t) PROVE tab'[n] = tab[n]
    BY <2>1, NumsAreFds, OneSpawnAssumption
  <2> QED BY <1>1, <2>1 DEF Moves
<1>7. OwnNums(s)'
  BY <1>1, <1>2, <1>4 DEF SpawnPart, OwnNums
<1>8. PipesHelped(s)'
  <2>1. ASSUME NEW i \in 1..3 PROVE HelpedAt(s, i)'
    <3>1. HelpedAt(s, i)
      BY <1>4 DEF SpawnPart, PipesHelped
    <3>2. (ToExport(s, i)' => ToExport(s, i)) /\ ~InExport(s, i)' /\ ~InExport(s, i)
      BY <1>1, <1>4 DEF ToExport, InExport
    <3> QED BY <1>1, <1>2, <3>1, <3>2 DEF HelpedAt
  <2> QED BY <2>1 DEF PipesHelped
<1>9. KidsOutput(s)'
  BY <1>1, <1>4 DEF SpawnPart, KidsOutput, End
<1>10. EndsDrained(s)'
  BY <1>1, <1>4 DEF SpawnPart, EndsDrained, Drained, Abandoned, Held
<1>11. NotOverYet(s)'
  BY <1>1 DEF NotOverYet
<1>12. TwinsPlain(s)'
  <2>1. ASSUME ~excused', NEW i \in Fds(s), NEW j \in Fds(s), call[s].fd[i] = call[s].fd[j], i # j, call[s].fd[i] # -1
        PROVE  tab'[call[s].fd[i]].kind # "pipe" /\ ~pipe[<<s, i>>].fd
    <3>1. call[s].fd[i] \in FdNums
      BY <1>5, <2>1, NumsAreFds
    <3> QED BY <1>4, <2>1, <3>1 DEF SpawnPart, TwinsPlain
  <2> QED BY <1>1, <1>2, <2>1 DEF TwinsPlain
<1>13. ClosesAllAlone(s)'
  BY <1>1 DEF ClosesAllAlone
<1>14. EndSeen(s)'
  BY <1>1, <1>4 DEF SpawnPart, EndSeen, End, CallStates, SpawnPcs
<1> QED BY <1>3, <1>6, <1>7, <1>8, <1>9, <1>10, <1>11, <1>12, <1>13, <1>14, OneMoves DEF SpawnPart

\* What is said of the number of a call that is not exported any more, by the
\* call alone.
OverIn(s, c, i) == c.fd[i] # -1 /\ Over(c.fd[i]) =>
    IF i \in c.used THEN helper[<<s, i>>] = "done"
    ELSE \/ c.pc \in {"ok", "failed"}
         \/ c.pc = "closefd" /\ \E j \in Fds(s) : j < c.i /\ c.fd[j] = c.fd[i]
         \/ c.pc = "closeall" /\ i < c.i
ClosedIn(s, c, i) ==
    /\ i \in c.used /\ helper[<<s, i>>] = "done" => Over(c.fd[i])
    /\ c.pc \in {"closefd", "ok"} /\ i < c.i /\ i \notin c.used /\ c.fd[i] # -1
          /\ (\A j \in Fds(s) : j < i => c.fd[j] # c.fd[i]) => Over(c.fd[i])
    /\ c.pc = "ok" => i < c.i

\* The steps that close nothing.
LEMMA WithinCallKeeps ==
    ASSUME SpawnIInv, NEW s \in SpawnProcs, NEW c \in CallStates,
           UNCHANGED <<tab, pipe, helper, kid, holds, wrote, arrived, foreign>>,
           excused' \in BOOLEAN, excused => excused', call' = [call EXCEPT ![s] = c],
           c.fd = call[s].fd, c.used = call[s].used, c.from = call[s].from,
           c.pc \notin {"idle", "helper", "add"}, call[s].pc # "helper",
           c.pc = "export" => call[s].pc = "export" /\ c.i >= call[s].i,
           c.pc = "closeall" => c.from = "exec" /\ (~excused' => c.used = {}),
           c.pc \in {"closefd", "ok", "fail", "closeall", "failed"} =>
               call[s].pc \in {"add", "closefd", "ok", "fail", "closeall", "failed"},
           ~excused' => \A i \in Fds(s) : OverIn(s, c, i), \A i \in Fds(s) : ClosedIn(s, c, i)
    PROVE  SpawnIInv'
<1>1. /\ call'[s] = c /\ tab' = tab /\ helper' = helper /\ foreign' = foreign
  BY DEF SpawnIInv, SpawnTypeOK
<1>2. Nfd(s)' = Nfd(s) /\ Fds(s)' = Fds(s) /\ \A n : Over(n)' = Over(n)
  BY <1>1 DEF Nfd, Fds, Over
<1>3. OverWhenClosed(s)'
  <2>1. ASSUME NEW i \in Fds(s), OverIn(s, c, i) PROVE OverAt(s, i)'
    BY <1>1, <1>2, <2>1 DEF OverIn, OverAt, Over
  <2> QED BY <1>2, <2>1 DEF OverWhenClosed
<1>4. ClosedIsOver(s)'
  <2>1. ASSUME NEW i \in Fds(s), ClosedIn(s, c, i) PROVE ClosedAt(s, i)'
    BY <1>1, <1>2, <2>1 DEF ClosedIn, ClosedAt, Over
  <2> QED BY <1>2, <2>1 DEF ClosedIsOver
<1>5. tab' \in [FdNums -> FdRecs] /\ foreign' \in BOOLEAN /\ NoForeignClose'
  BY <1>1 DEF SpawnIInv, SpawnTypeOK, NoForeignClose
<1> QED BY <1>1, <1>3, <1>4, <1>5, WithinCall

\* A call at another place, and at another descriptor.
CallAt(d, l, n) == [pc |-> l, fd |-> d.fd, used |-> d.used, i |-> n, from |-> d.from]

LEMMA CallAtIs ==
    ASSUME NEW d \in CallStates, NEW l \in SpawnPcs, NEW n \in Nat \ {0}
    PROVE  /\ CallAt(d, l, n) \in CallStates /\ CallAt(d, l, n).fd = d.fd /\ CallAt(d, l, n).used = d.used
           /\ CallAt(d, l, n).from = d.from /\ CallAt(d, l, n).pc = l /\ CallAt(d, l, n).i = n
BY DEF CallAt, CallStates

\* The call of s goes on at l, with its n-th descriptor.
GoesTo(s, l, n) == call' = [call EXCEPT ![s].pc = l, ![s].i = n]

\* A call that goes on is as before otherwise.
LEMMA CallGoesTo ==
    ASSUME SpawnIInv, NEW s \in SpawnProcs, NEW l, NEW n, GoesTo(s, l, n)
    PROVE  call' = [call EXCEPT ![s] = CallAt(call[s], l, n)]
<1>1. call[s] \in CallStates /\ call \in [SpawnProcs -> CallStates]
  BY DEF SpawnIInv, SpawnTypeOK
<1>2. call[s] = [pc |-> call[s].pc, fd |-> call[s].fd, used |-> call[s].used, i |-> call[s].i, from |-> call[s].from]
  BY <1>1 DEF CallStates
<1>3. [call[s] EXCEPT !.pc = l] = CallAt(call[s], l, call[s].i)
  BY <1>2 DEF CallAt
<1>4. [[call[s] EXCEPT !.pc = l] EXCEPT !.i = n] = CallAt(call[s], l, n)
  <2>1. [CallAt(call[s], l, call[s].i) EXCEPT !.i = n] = CallAt(call[s], l, n)
    BY DEF CallAt
  <2> QED BY <1>3, <2>1
<1> QED BY <1>1, <1>4 DEF GoesTo

\* The same for SGoto() and SNext().
LEMMA CallGoes ==
    ASSUME SpawnIInv, NEW s \in SpawnProcs, NEW l
    PROVE  /\ SGoto(s, l) => call' = [call EXCEPT ![s] = CallAt(call[s], l, call[s].i)]
           /\ SNext(s, l) => call' = [call EXCEPT ![s] = CallAt(call[s], l, call[s].i + 1)]
<1>1. call[s] \in CallStates /\ call \in [SpawnProcs -> CallStates]
  BY DEF SpawnIInv, SpawnTypeOK
<1>2. call[s] = [pc |-> call[s].pc, fd |-> call[s].fd, used |-> call[s].used, i |-> call[s].i, from |-> call[s].from]
  BY <1>1 DEF CallStates
<1>3. [call[s] EXCEPT !.pc = l] = CallAt(call[s], l, call[s].i)
  BY <1>2 DEF CallAt
<1>4. SGoto(s, l) => call' = [call EXCEPT ![s] = CallAt(call[s], l, call[s].i)]
  BY <1>1, <1>3 DEF SGoto
<1>5. SNext(s, l) => GoesTo(s, l, call[s].i + 1)
  BY <1>1 DEF SNext, GoesTo
<1> QED BY <1>4, <1>5, CallGoesTo

\* The steps of winspawne() that change the call only.
LEMMA StepsKeep ==
    ASSUME SpawnIInv, NEW s \in SpawnProcs, ExportPlain(s) \/ AddChild(s) \/ SpawnReturns(s) \/ SpawnFails(s)
    PROVE  SpawnIInv'
<1>0. /\ call[s] \in CallStates /\ call[s].i \in Nat \ {0} /\ Nfd(s) \in Nat /\ excused \in BOOLEAN
      /\ \A i \in Fds(s) : i \in Nat \ {0} /\ i <= Nfd(s)
  <2>1. call[s] \in CallStates /\ call[s].i \in Nat \ {0} /\ Nfd(s) \in Nat
    BY SpawnTypes DEF SpawnIInv
  <2>2. \A i \in Fds(s) : i \in Nat \ {0} /\ i <= Nfd(s)
    BY <2>1 DEF Fds
  <2> QED BY <2>1, <2>2 DEF SpawnIInv, SpawnTypeOK
<1>1. SpawnPart(s)
  BY DEF SpawnIInv
<1>2. CASE ExportPlain(s)
  <2> DEFINE c == CallAt(call[s], "export", call[s].i + 1)
  <2>1. /\ call[s].pc = "export" /\ call' = [call EXCEPT ![s] = c] /\ excused' = excused
        /\ UNCHANGED <<tab, pipe, helper, kid, holds, wrote, arrived, foreign>>
    BY <1>2, CallGoes DEF ExportPlain
  <2>2. "export" \in SpawnPcs /\ call[s].i + 1 \in Nat \ {0}
    BY <1>0 DEF SpawnPcs
  <2>3. /\ c \in CallStates /\ c.fd = call[s].fd /\ c.used = call[s].used /\ c.from = call[s].from
        /\ c.pc = "export" /\ c.i = call[s].i + 1 /\ c.i >= call[s].i
    BY <1>0, <2>2, CallAtIs
  <2> HIDE DEF c
  <2>4. ~excused => \A i \in Fds(s) : OverIn(s, c, i)
    BY <1>1, <2>1, <2>3 DEF SpawnPart, OverWhenClosed, OverAt, OverIn
  <2>5. \A i \in Fds(s) : ClosedIn(s, c, i)
    BY <1>1, <2>3 DEF SpawnPart, ClosedIsOver, ClosedAt, ClosedIn
  <2> QED BY <1>0, <2>1, <2>2, <2>3, <2>4, <2>5, WithinCallKeeps
<1>3. CASE AddChild(s)
  <2>1. PICK l \in {"closefd", "fail"} : SGoto(s, l)
    BY <1>3 DEF AddChild
  <2> DEFINE c == CallAt(call[s], l, call[s].i)
  <2>2. /\ call[s].pc = "add" /\ call' = [call EXCEPT ![s] = c] /\ excused' = excused
        /\ UNCHANGED <<tab, pipe, helper, kid, holds, wrote, arrived, foreign>>
    BY <1>3, <2>1, CallGoes DEF AddChild
  <2>3. l \in SpawnPcs
    BY DEF SpawnPcs
  <2>4. /\ c \in CallStates /\ c.fd = call[s].fd /\ c.used = call[s].used /\ c.from = call[s].from
        /\ c.pc = l /\ c.i = call[s].i
    BY <1>0, <2>3, CallAtIs
  <2> HIDE DEF c
  <2>5. ~excused => \A i \in Fds(s) : OverIn(s, c, i)
    BY <1>1, <2>2, <2>4 DEF SpawnPart, OverWhenClosed, OverAt, OverIn
  <2>6. \A i \in Fds(s) : ~(i < c.i)
    BY <1>0, <1>1, <2>2, <2>4 DEF SpawnPart, OwnNums
  <2>7. \A i \in Fds(s) : ClosedIn(s, c, i)
    BY <1>1, <2>4, <2>6 DEF SpawnPart, ClosedIsOver, ClosedAt, ClosedIn
  <2> QED BY <1>0, <2>2, <2>3, <2>4, <2>5, <2>7, WithinCallKeeps
<1>4. CASE SpawnReturns(s)
  <2> DEFINE c == CallAt(call[s], "ok", call[s].i)
  <2>1. /\ call[s].pc = "closefd" /\ call[s].i > Nfd(s) /\ call' = [call EXCEPT ![s] = c] /\ excused' = excused
        /\ UNCHANGED <<tab, pipe, helper, kid, holds, wrote, arrived, foreign>>
    BY <1>4, CallGoes DEF SpawnReturns
  <2>2. "ok" \in SpawnPcs
    BY DEF SpawnPcs
  <2>3. /\ c \in CallStates /\ c.fd = call[s].fd /\ c.used = call[s].used /\ c.from = call[s].from
        /\ c.pc = "ok" /\ c.i = call[s].i
    BY <1>0, <2>2, CallAtIs
  <2> HIDE DEF c
  <2>4. ~excused => \A i \in Fds(s) : OverIn(s, c, i)
    BY <1>1, <2>1, <2>3 DEF SpawnPart, OverWhenClosed, OverAt, OverIn
  <2>5. \A i \in Fds(s) : i < c.i
    BY <1>0, <2>1, <2>3
  <2>6. \A i \in Fds(s) : ClosedIn(s, c, i)
    BY <1>1, <2>1, <2>3, <2>5 DEF SpawnPart, ClosedIsOver, ClosedAt, ClosedIn
  <2> QED BY <1>0, <2>1, <2>2, <2>3, <2>4, <2>6, WithinCallKeeps
<1>5. CASE SpawnFails(s)
  <2> DEFINE l == IF call[s].from = "exec" THEN "closeall" ELSE "failed"
  <2>0. GoesTo(s, l, 1)
    BY <1>5 DEF SpawnFails, GoesTo
  <2> HIDE DEF l
  <2> DEFINE c == CallAt(call[s], l, 1)
  <2>1. /\ call[s].pc = "fail" /\ call' = [call EXCEPT ![s] = c]
        /\ excused' = (excused \/ call[s].used # {})
        /\ UNCHANGED <<tab, pipe, helper, kid, holds, wrote, arrived, foreign>>
    <3>1. call' = [call EXCEPT ![s] = c]
      BY <2>0, CallGoesTo
    <3> QED BY <1>5, <3>1 DEF SpawnFails
  <2>2. l \in SpawnPcs
    BY DEF SpawnPcs, l
  <2>6. l \in {"closeall", "failed"} /\ (l = "closeall" => call[s].from = "exec")
    BY DEF l
  <2>3. /\ c \in CallStates /\ c.fd = call[s].fd /\ c.used = call[s].used /\ c.from = call[s].from
        /\ c.pc = l /\ c.i = 1
    BY <1>0, <2>2, CallAtIs
  <2> HIDE DEF c
  <2>4. ~excused => \A i \in Fds(s) : OverIn(s, c, i)
    BY <1>1, <2>1, <2>3, <2>6 DEF SpawnPart, OverWhenClosed, OverAt, OverIn
  <2>5. \A i \in Fds(s) : ClosedIn(s, c, i)
    BY <1>1, <2>3, <2>6 DEF SpawnPart, ClosedIsOver, ClosedAt, ClosedIn
  <2> QED BY <1>0, <2>1, <2>2, <2>3, <2>4, <2>5, <2>6, WithinCallKeeps
<1> QED BY <1>2, <1>3, <1>4, <1>5

\* n is over after the step.
OverThen(n) == tab'[n].kind = "closed" \/ tab'[n].gen # 0

\* close() of a number of s: it is over, and nothing changes for the others.
LEMMA NumCloses ==
    ASSUME SpawnIInv, NEW s \in SpawnProcs, NEW n \in NumsOf(s), CloseNum(n)
    PROVE  /\ tab' \in [FdNums -> FdRecs] /\ foreign' \in BOOLEAN /\ (foreign' => foreign \/ Over(n))
           /\ \A m \in FdNums : tab'[m] = tab[m] \/ (m \in NumsOf(s) /\ tab'[m].kind = "closed")
           /\ \A m \in FdNums : OverThen(m) <=> Over(m) \/ m = n
<1>1. n \in FdNums /\ tab \in [FdNums -> FdRecs] /\ foreign \in BOOLEAN
  BY NumsAreFds DEF SpawnIInv, SpawnTypeOK
<1>2. /\ tab' = [tab EXCEPT ![n].kind = "closed"]
      /\ foreign' = (foreign \/ (tab[n].kind # "closed" /\ tab[n].gen # 0))
  BY DEF CloseNum
<1>3. tab[n] \in FdRecs /\ [tab[n] EXCEPT !.kind = "closed"] \in FdRecs /\ [tab[n] EXCEPT !.kind = "closed"].kind = "closed"
  BY <1>1 DEF FdRecs
<1>4. tab' \in [FdNums -> FdRecs] /\ tab'[n].kind = "closed" /\ \A m \in FdNums : m # n => tab'[m] = tab[m]
  BY <1>1, <1>2, <1>3
<1>5. foreign' \in BOOLEAN /\ (foreign' => foreign \/ Over(n))
  BY <1>1, <1>2 DEF Over
<1>6. \A m \in FdNums : OverThen(m) <=> Over(m) \/ m = n
  BY <1>4 DEF Over, OverThen
<1> QED BY <1>4, <1>5, <1>6

\* winspawne() closes a descriptor that no helper uses, or passes it over.
LEMMA CloseFdKeeps ==
    ASSUME SpawnIInv, NEW s \in SpawnProcs, CloseFd(s)
    PROVE  SpawnIInv'
<1> DEFINE k == call[s].i
           n == call[s].fd[k]
           c == CallAt(call[s], "closefd", k + 1)
<1>1. SpawnPart(s) /\ call[s] \in CallStates /\ k \in Nat \ {0} /\ Nfd(s) \in Nat /\ k <= Nfd(s)
      /\ Nfd(s) <= 3 /\ excused \in BOOLEAN
  BY SpawnTypes DEF SpawnIInv, SpawnTypeOK, CloseFd, SpawnPart, OwnNums
<1>2. /\ call[s].pc = "closefd" /\ call' = [call EXCEPT ![s] = c]
      /\ UNCHANGED <<pipe, helper, kid, holds, wrote, arrived, excused>>
  BY CallGoes DEF CloseFd
<1>3. "closefd" \in SpawnPcs /\ k + 1 \in Nat \ {0}
  BY <1>1 DEF SpawnPcs
<1>4. /\ c \in CallStates /\ c.fd = call[s].fd /\ c.used = call[s].used /\ c.from = call[s].from
      /\ c.pc = "closefd" /\ c.i = k + 1
  BY <1>1, <1>3, CallAtIs
<1> HIDE DEF c
<1>5. \A i \in Fds(s) : i \in Nat /\ i \in 1..3 /\ (call[s].fd[i] # -1 => call[s].fd[i] \in NumsOf(s) /\ call[s].fd[i] \in FdNums)
  BY <1>1, NumsAreFds DEF SpawnPart, OwnNums, Fds
<1>6. k \in Fds(s)
  BY <1>1 DEF Fds
<1>7. call'[s] = c /\ Nfd(s)' = Nfd(s) /\ Fds(s)' = Fds(s)
  BY <1>2, <1>4 DEF SpawnIInv, SpawnTypeOK, Nfd, Fds
<1>8. ClosesHere(s) => n \in NumsOf(s) /\ n # -1 /\ k \notin call[s].used /\ \A j \in Fds(s) : j < k => call[s].fd[j] # n
  <2>1. \A j \in Fds(s) : j < k => j \in 1..(k - 1)
    BY <1>1, <1>5 DEF Fds
  <2> QED BY <1>5, <1>6, <2>1 DEF ClosesHere
<1>9. call[s].fd[k] # -1 /\ k \notin call[s].used /\ (\A j \in Fds(s) : j < k => call[s].fd[j] # call[s].fd[k]) => ClosesHere(s)
  <2>1. \A j \in 1..(k - 1) : j \in Fds(s) /\ j < k
    BY <1>1 DEF Fds
  <2> QED BY <2>1 DEF ClosesHere
<1>10. /\ tab' \in [FdNums -> FdRecs] /\ foreign' \in BOOLEAN
       /\ foreign' => foreign \/ (ClosesHere(s) /\ Over(n))
       /\ \A m \in FdNums : tab'[m] = tab[m] \/ (m \in NumsOf(s) /\ tab'[m].kind = "closed")
       /\ \A m \in FdNums : OverThen(m) <=> Over(m) \/ (ClosesHere(s) /\ m = n)
  <2>1. CASE ClosesHere(s)
    <3>1. CloseNum(n)
      BY <2>1 DEF CloseFd
    <3> QED BY <1>8, <2>1, <3>1, NumCloses
  <2>2. CASE ~ClosesHere(s)
    <3>1. tab' = tab /\ foreign' = foreign
      BY <2>2 DEF CloseFd
    <3> QED BY <2>2, <3>1 DEF SpawnIInv, SpawnTypeOK, Over, OverThen
  <2> QED BY <2>1, <2>2
<1> HIDE DEF k, n
<1>11. NoForeignClose'
  <2>1. ~excused /\ ClosesHere(s) => ~Over(n)
    BY <1>1, <1>2, <1>6, <1>8 DEF SpawnPart, OverWhenClosed, OverAt, k, n
  <2> QED BY <1>2, <1>10, <2>1 DEF SpawnIInv, NoForeignClose
<1>12. OverWhenClosed(s)'
  <2>1. ASSUME ~excused, NEW i \in Fds(s), call[s].fd[i] # -1, OverThen(call[s].fd[i])
        PROVE  IF i \in call[s].used THEN helper[<<s, i>>] = "done"
               ELSE \E j \in Fds(s) : j < k + 1 /\ call[s].fd[j] = call[s].fd[i]
    <3>1. CASE Over(call[s].fd[i])
      <4>1. OverAt(s, i)
        BY <1>1, <2>1 DEF SpawnPart, OverWhenClosed
      <4> QED BY <1>1, <1>2, <1>5, <2>1, <3>1, <4>1 DEF OverAt, k
    <3>2. CASE ClosesHere(s) /\ call[s].fd[i] = n /\ i \in call[s].used
      <4>1. i # k /\ call[s].fd[k] = call[s].fd[i] /\ pipe[<<s, i>>].fd
        BY <1>1, <1>5, <1>8, <3>2 DEF SpawnPart, PipesHelped, HelpedAt, n
      <4> QED BY <1>1, <1>6, <2>1, <4>1 DEF SpawnPart, TwinsPlain
    <3>3. CASE ClosesHere(s) /\ call[s].fd[i] = n /\ i \notin call[s].used
      <4>1. k < k + 1 /\ call[s].fd[k] = call[s].fd[i]
        BY <1>1, <3>3 DEF n
      <4> QED BY <1>6, <3>3, <4>1
    <3> QED BY <1>5, <1>10, <2>1, <3>1, <3>2, <3>3
  <2>2. ASSUME ~excused', NEW i \in Fds(s) PROVE OverAt(s, i)'
    BY <1>2, <1>4, <1>7, <2>1, <2>2 DEF OverAt, Over, OverThen
  <2> QED BY <1>7, <2>2 DEF OverWhenClosed
<1>13. ClosedIsOver(s)'
  <2>1. ASSUME NEW i \in Fds(s) PROVE ClosedAt(s, i)'
    <3>1. ClosedAt(s, i)
      BY <1>1 DEF SpawnPart, ClosedIsOver
    <3>2. i \in call[s].used => call[s].fd[i] # -1
      BY <1>1, <1>5 DEF SpawnPart, PipesHelped, HelpedAt
    <3>3. call[s].fd[i] # -1 /\ (Over(call[s].fd[i]) \/ (i = k /\ ClosesHere(s))) => OverThen(call[s].fd[i])
      BY <1>5, <1>10 DEF n
    <3>4. i < k + 1 => i < k \/ i = k
      BY <1>1, <1>5
    <3>5. ASSUME i < k + 1, i \notin call[s].used, call[s].fd[i] # -1,
                 \A j \in Fds(s) : j < i => call[s].fd[j] # call[s].fd[i]
          PROVE  OverThen(call[s].fd[i])
      <4>1. CASE i = k
        BY <1>9, <3>3, <3>5, <4>1 DEF k
      <4>2. CASE i < k
        BY <1>2, <3>1, <3>3, <3>5, <4>2 DEF ClosedAt, k
      <4> QED BY <3>4, <3>5, <4>1, <4>2
    <3>6. i \in call[s].used /\ helper[<<s, i>>] = "done" => OverThen(call[s].fd[i])
      BY <3>1, <3>2, <3>3 DEF ClosedAt
    <3> QED BY <1>2, <1>4, <1>7, <3>5, <3>6 DEF ClosedAt, Over, OverThen
  <2> QED BY <1>7, <2>1 DEF ClosedIsOver
<1> QED BY <1>1, <1>2, <1>4, <1>10, <1>11, <1>12, <1>13, WithinCall

\* winexecve() closes the next descriptor, or has come to the end.
LEMMA WinexecveKeeps ==
    ASSUME SpawnIInv, NEW s \in SpawnProcs, winexecve(s)
    PROVE  SpawnIInv'
<1> DEFINE k == call[s].i
           n == call[s].fd[k]
           closes == k <= Nfd(s) /\ n # -1
           l == IF k > Nfd(s) THEN "failed" ELSE "closeall"
           c == CallAt(call[s], l, IF k > Nfd(s) THEN k ELSE k + 1)
<1>1. /\ SpawnPart(s) /\ call[s] \in CallStates /\ k \in Nat \ {0} /\ Nfd(s) \in Nat
      /\ Nfd(s) <= 3 /\ excused \in BOOLEAN
  BY SpawnTypes DEF SpawnIInv, SpawnTypeOK, SpawnPart, OwnNums
<1>2. /\ call[s].pc = "closeall" /\ call' = [call EXCEPT ![s] = c]
      /\ UNCHANGED <<pipe, helper, kid, holds, wrote, arrived, excused>>
  <2>1. CASE k > Nfd(s)
    BY <1>1, <2>1, CallGoes DEF winexecve
  <2>2. CASE ~(k > Nfd(s))
    BY <1>1, <2>2, CallGoes DEF winexecve
  <2> QED BY <2>1, <2>2
<1>3. l \in SpawnPcs /\ (IF k > Nfd(s) THEN k ELSE k + 1) \in Nat \ {0}
  BY <1>1 DEF SpawnPcs
<1>4. /\ c \in CallStates /\ c.fd = call[s].fd /\ c.used = call[s].used /\ c.from = call[s].from
      /\ c.pc = l /\ c.i = IF k > Nfd(s) THEN k ELSE k + 1
  BY <1>1, <1>3, CallAtIs
<1> HIDE DEF c
<1>5. \A i \in Fds(s) : i \in Nat /\ i <= Nfd(s) /\ (call[s].fd[i] # -1 => call[s].fd[i] \in NumsOf(s) /\ call[s].fd[i] \in FdNums)
  BY <1>1, NumsAreFds DEF SpawnPart, OwnNums, Fds
<1>6. k <= Nfd(s) => k \in Fds(s)
  BY <1>1 DEF Fds
<1>7. call'[s] = c /\ Nfd(s)' = Nfd(s) /\ Fds(s)' = Fds(s)
  BY <1>2, <1>4 DEF SpawnIInv, SpawnTypeOK, Nfd, Fds
<1>8. /\ tab' \in [FdNums -> FdRecs] /\ foreign' \in BOOLEAN
      /\ foreign' => foreign \/ (closes /\ Over(n))
      /\ \A m \in FdNums : tab'[m] = tab[m] \/ (m \in NumsOf(s) /\ tab'[m].kind = "closed")
      /\ \A m \in FdNums : OverThen(m) <=> Over(m) \/ (closes /\ m = n)
  <2>1. CASE closes
    <3>1. CloseNum(n)
      BY <2>1 DEF winexecve
    <3>2. n \in NumsOf(s)
      BY <1>5, <1>6, <2>1
    <3> QED BY <2>1, <3>1, <3>2, NumCloses
  <2>2. CASE ~closes
    <3>1. tab' = tab /\ foreign' = foreign
      BY <2>2 DEF winexecve
    <3> QED BY <2>2, <3>1 DEF SpawnIInv, SpawnTypeOK, Over, OverThen
  <2> QED BY <2>1, <2>2
<1>9. call[s].from = "exec" /\ (~excused => call[s].used = {})
  BY <1>1, <1>2 DEF SpawnPart, OwnNums, ClosesAllAlone
<1>10. l \in {"failed", "closeall"} /\ (l = "closeall" => k <= Nfd(s) /\ c.i = k + 1)
  BY <1>1, <1>4
<1> HIDE DEF l
<1>11. closes => k \in Fds(s) /\ n # -1
  BY <1>6
<1> HIDE DEF closes
<1> HIDE DEF k, n
<1>12. NoForeignClose'
  <2>1. ~excused /\ closes => ~Over(n)
    <3>1. ~excused /\ closes => OverAt(s, k)
      BY <1>1, <1>11 DEF SpawnPart, OverWhenClosed
    <3> QED BY <1>1, <1>2, <1>9, <1>11, <3>1 DEF OverAt, k, n
  <2> QED BY <1>2, <1>8, <2>1 DEF SpawnIInv, NoForeignClose
<1>13. OverWhenClosed(s)'
  <2>1. ASSUME ~excused, l = "closeall", NEW i \in Fds(s), call[s].fd[i] # -1, OverThen(call[s].fd[i])
        PROVE  i < k + 1
    <3>1. CASE Over(call[s].fd[i])
      <4>1. OverAt(s, i)
        BY <1>1, <2>1 DEF SpawnPart, OverWhenClosed
      <4>2. i < k
        BY <1>2, <1>9, <2>1, <3>1, <4>1 DEF OverAt, k
      <4> QED BY <1>1, <1>5, <4>2
    <3>2. CASE closes /\ call[s].fd[i] = n
      <4>1. i = k
        BY <1>1, <1>9, <1>11, <2>1, <3>2 DEF SpawnPart, OwnNums, n
      <4> QED BY <1>1, <4>1
    <3> QED BY <1>5, <1>8, <2>1, <3>1, <3>2
  <2>2. ASSUME ~excused', NEW i \in Fds(s) PROVE OverAt(s, i)'
    BY <1>2, <1>4, <1>7, <1>9, <1>10, <2>1, <2>2 DEF OverAt, Over, OverThen
  <2> QED BY <1>7, <2>2 DEF OverWhenClosed
<1>14. ClosedIsOver(s)'
  <2>1. ASSUME NEW i \in Fds(s) PROVE ClosedAt(s, i)'
    <3>1. ClosedAt(s, i)
      BY <1>1 DEF SpawnPart, ClosedIsOver
    <3>2. i \in call[s].used => call[s].fd[i] # -1 /\ call[s].fd[i] \in FdNums
      <4>1. i \in call[s].used => i \in 1..3
        BY SpawnTypes DEF SpawnIInv
      <4> QED BY <1>1, <1>5, <4>1 DEF SpawnPart, PipesHelped, HelpedAt
    <3>3. i \in call[s].used /\ helper[<<s, i>>] = "done" => OverThen(call[s].fd[i])
      BY <1>8, <3>1, <3>2 DEF ClosedAt
    <3> QED BY <1>2, <1>4, <1>7, <1>10, <3>3 DEF ClosedAt, Over, OverThen
  <2> QED BY <1>7, <2>1 DEF ClosedIsOver
<1> QED BY <1>1, <1>2, <1>4, <1>8, <1>9, <1>10, <1>12, <1>13, <1>14, WithinCall

\* The i-th descriptor of s is given to a helper: the rest of the state.
LEMMA ExportPipeKeeps ==
    ASSUME SpawnIInv, NEW s \in SpawnProcs, ExportPipe(s)
    PROVE  SpawnIInv'
<1>0. PICK k \in Nat \ {0} : k = call[s].i
  BY SpawnTypes DEF SpawnIInv
<1> DEFINE x == <<s, k>>
           kind == KindOf(call[s].fd[k])
           p == [l |-> TRUE, r |-> TRUE, linh |-> TRUE, data |-> 0, fd |-> kind # "null"]
           c == CallAt(call[s], "helper", k)
<1>1. /\ SpawnPart(s) /\ call[s] \in CallStates /\ call[s].i = k /\ Nfd(s) \in Nat /\ Nfd(s) <= 3 /\ k <= Nfd(s)
  BY <1>0, SpawnTypes DEF SpawnIInv, SpawnPart, OwnNums, ExportPipe
<1>2. /\ call[s].pc = "export" /\ call' = [call EXCEPT ![s] = c] /\ pipe' = [pipe EXCEPT ![x] = p]
      /\ kind \in {"pipe", "null"}
      /\ UNCHANGED <<tab, helper, kid, holds, wrote, arrived, foreign, excused>>
  BY <1>0, CallGoes DEF ExportPipe
<1>3. "helper" \in SpawnPcs
  BY DEF SpawnPcs
<1>4. /\ c \in CallStates /\ c.fd = call[s].fd /\ c.used = call[s].used /\ c.from = call[s].from
      /\ c.pc = "helper" /\ c.i = k
  BY <1>1, <1>3, CallAtIs
<1>5. k \in 1..3 /\ k \in Fds(s) /\ x \in Exports
  BY <1>1 DEF Fds, Exports
<1>6. p \in Pipes /\ p.data = 0 /\ p.linh /\ p.fd = (kind # "null")
  BY <1>2 DEF Pipes
<1>7. call[s].fd[k] # -1 /\ kind = tab[call[s].fd[k]].kind
  BY <1>2 DEF KindOf
<1> HIDE DEF c, p, kind
<1>8. /\ call' \in [SpawnProcs -> CallStates] /\ call'[s] = c /\ \A t \in SpawnProcs : t # s => call'[t] = call[t]
      /\ pipe' \in [Exports -> Pipes] /\ pipe'[x] = p /\ \A y \in Exports : y # x => pipe'[y] = pipe[y]
      /\ Nfd(s)' = Nfd(s) /\ Fds(s)' = Fds(s)
  BY <1>2, <1>4, <1>5, <1>6 DEF SpawnIInv, SpawnTypeOK, Nfd, Fds
<1> HIDE DEF x
<1>9. SpawnTypeOK' /\ NoForeignClose'
  BY <1>2, <1>8 DEF SpawnIInv, SpawnTypeOK, NoForeignClose
<1>10. /\ \A t \in SpawnProcs, i \in 1..3 : <<t, i>> \in Exports /\ (<<t, i>> = x <=> t = s /\ i = k)
       /\ <<s, 2>> \in Exports /\ (<<s, 2>> = x <=> k = 2)
  BY DEF Exports, x
<1>11. Moves(s)
  BY <1>2, <1>8, <1>10 DEF Moves
<1>12. OwnNums(s)'
  BY <1>1, <1>4, <1>8 DEF SpawnPart, OwnNums
<1>13. ToExport(s, k) /\ HelpedAt(s, k)
  BY <1>1, <1>2, <1>5 DEF ToExport, SpawnPart, PipesHelped
<1>14. PipesHelped(s)'
  <2>1. ASSUME NEW i \in 1..3, i # k PROVE HelpedAt(s, i)'
    <3>1. HelpedAt(s, i)
      BY <1>1 DEF SpawnPart, PipesHelped
    <3>2. pipe'[<<s, i>>] = pipe[<<s, i>>]
      BY <1>8, <1>10, <2>1
    <3>3. (ToExport(s, i)' <=> ToExport(s, i)) /\ ~InExport(s, i)' /\ ~InExport(s, i)
      BY <1>1, <1>2, <1>4, <1>8, <2>1 DEF ToExport, InExport
    <3> QED BY <1>2, <1>4, <1>8, <3>1, <3>2, <3>3 DEF HelpedAt
  <2>2. HelpedAt(s, k)'
    <3>1. ~ToExport(s, k)' /\ InExport(s, k)'
      BY <1>1, <1>4, <1>8 DEF ToExport, InExport
    <3>2. pipe'[<<s, k>>] = p
      BY <1>8 DEF x
    <3> QED BY <1>1, <1>2, <1>4, <1>6, <1>7, <1>8, <1>13, <3>1, <3>2 DEF HelpedAt
  <2> QED BY <2>1, <2>2 DEF PipesHelped
<1>15. KidsOutput(s)'
  <2>1. \A i \in 1..3 : pipe'[<<s, i>>].data = pipe[<<s, i>>].data
    <3>1. pipe[<<s, k>>].data = 0
      BY <1>13 DEF HelpedAt, NoPipe
    <3> QED BY <1>6, <1>8, <1>10, <3>1
  <2> QED BY <1>1, <1>2, <1>4, <1>8, <2>1 DEF SpawnPart, KidsOutput, End
<1>16. EndsDrained(s)'
  <2>1. ASSUME helper[<<s, 2>>] \in {"closing", "done"} PROVE pipe'[<<s, 2>>] = pipe[<<s, 2>>]
    <3>0. helper[<<s, k>>] = "none"
      BY <1>13 DEF HelpedAt
    <3>1. k # 2
      BY <2>1, <3>0
    <3>2. <<s, 2>> # x /\ <<s, 2>> \in Exports
      BY <1>10, <3>1
    <3> QED BY <1>8, <3>2
  <2> QED BY <1>1, <1>2, <2>1 DEF SpawnPart, EndsDrained, Drained, Abandoned, Held
<1>17. NotOverYet(s)'
  BY <1>4, <1>8 DEF NotOverYet
<1>18. TwinsPlain(s)'
  <2>1. ASSUME ~excused, NEW i \in Fds(s), NEW j \in Fds(s), call[s].fd[i] = call[s].fd[j], i # j, call[s].fd[i] # -1
        PROVE  tab[call[s].fd[i]].kind # "pipe" /\ ~pipe'[<<s, i>>].fd
    <3>1. tab[call[s].fd[i]].kind # "pipe" /\ ~pipe[<<s, i>>].fd
      BY <1>1, <2>1 DEF SpawnPart, TwinsPlain
    <3>2. CASE i = k
      BY <1>2, <1>6, <1>7, <1>8, <3>1, <3>2 DEF x
    <3>3. CASE i # k
      <4>1. i \in 1..3
        BY <1>1 DEF Fds
      <4>2. <<s, i>> \in Exports /\ <<s, i>> # x
        BY <1>10, <3>3, <4>1
      <4> QED BY <1>8, <3>1, <4>2
    <3> QED BY <3>1, <3>2, <3>3
  <2> QED BY <1>2, <1>4, <1>8, <2>1 DEF TwinsPlain
<1>19. OverWhenClosed(s)'
  <2>1. ASSUME ~excused, NEW i \in Fds(s) PROVE OverAt(s, i)'
    <3>1. OverAt(s, i)
      BY <1>1, <2>1 DEF SpawnPart, OverWhenClosed
    <3> QED BY <1>2, <1>4, <1>8, <3>1 DEF OverAt, Over
  <2> QED BY <1>2, <1>8, <2>1 DEF OverWhenClosed
<1>20. ClosesAllAlone(s)'
  BY <1>4, <1>8 DEF ClosesAllAlone
<1>21. ClosedIsOver(s)'
  <2>1. ASSUME NEW i \in Fds(s) PROVE ClosedAt(s, i)'
    <3>1. ClosedAt(s, i)
      BY <1>1 DEF SpawnPart, ClosedIsOver
    <3> QED BY <1>2, <1>4, <1>8, <3>1 DEF ClosedAt, Over
  <2> QED BY <1>8, <2>1 DEF ClosedIsOver
<1>22. EndSeen(s)'
  BY <1>1, <1>2, <1>4, <1>8 DEF SpawnPart, EndSeen, End
<1> QED BY <1>9, <1>11, <1>12, <1>14, <1>15, <1>16, <1>17, <1>18, <1>19, <1>20, <1>21, <1>22, OneMoves DEF SpawnPart

\* The helper is there, and has the descriptor.
LEMMA ExportHelperKeeps ==
    ASSUME SpawnIInv, NEW s \in SpawnProcs, ExportHelper(s)
    PROVE  SpawnIInv'
<1>0. PICK k \in Nat \ {0} : k = call[s].i
  BY SpawnTypes DEF SpawnIInv
<1> DEFINE x == <<s, k>>
           p == [pipe[x] EXCEPT !.linh = FALSE]
           u == call[s].used \cup UsedNow(s)
           c == [pc |-> "export", fd |-> call[s].fd, used |-> u, i |-> k + 1, from |-> call[s].from]
<1>1. /\ SpawnPart(s) /\ call[s] \in CallStates /\ call[s].i = k /\ Nfd(s) \in Nat /\ Nfd(s) <= 3 /\ k <= Nfd(s)
      /\ call[s].used \subseteq 1..3
  BY <1>0, SpawnTypes DEF SpawnIInv, SpawnPart, OwnNums, ExportHelper
<1>2. k \in 1..3 /\ k \in Fds(s) /\ x \in Exports
  BY <1>1 DEF Fds, Exports
<1>3. UsedNow(s) = IF pipe[x].fd THEN {k} ELSE {}
  BY <1>0 DEF UsedNow
<1>4. u \subseteq 1..3 /\ (k \in u <=> k \in call[s].used \/ pipe[x].fd) /\ \A i \in 1..3 : i # k => (i \in u <=> i \in call[s].used)
  BY <1>1, <1>2, <1>3
<1> HIDE DEF u
<1>5. /\ c \in CallStates /\ c.fd = call[s].fd /\ c.used = u /\ c.from = call[s].from
      /\ c.pc = "export" /\ c.i = k + 1
  BY <1>1, <1>4 DEF CallStates, SpawnPcs
<1>6. pipe[x] \in Pipes /\ p \in Pipes /\ ~p.linh /\ p.fd = pipe[x].fd /\ p.data = pipe[x].data /\ p.r = pipe[x].r
  BY <1>2 DEF SpawnIInv, SpawnTypeOK, Pipes
<1>7. /\ call[s].pc = "helper" /\ pipe' = [pipe EXCEPT ![x] = p] /\ helper' = [helper EXCEPT ![x] = "run"]
      /\ UNCHANGED <<tab, kid, holds, wrote, arrived, foreign, excused>>
  BY <1>0 DEF ExportHelper, Inherit
<1>8. call' = [call EXCEPT ![s] = c]
  <2>1. call[s] = [pc |-> call[s].pc, fd |-> call[s].fd, used |-> call[s].used, i |-> call[s].i, from |-> call[s].from]
    BY <1>1 DEF CallStates
  <2> DEFINE d == call[s]
             d1 == [pc |-> d.pc, fd |-> d.fd, used |-> u, i |-> d.i, from |-> d.from]
             d2 == [pc |-> d.pc, fd |-> d.fd, used |-> u, i |-> k + 1, from |-> d.from]
  <2>3. [d EXCEPT !.used = u] = d1
    BY <2>1
  <2>4. [d1 EXCEPT !.i = k + 1] = d2
    OBVIOUS
  <2>5. [d2 EXCEPT !.pc = "export"] = c
    OBVIOUS
  <2>2. [[[d EXCEPT !.used = u] EXCEPT !.i = k + 1] EXCEPT !.pc = "export"] = c
    <3> HIDE DEF d1, d2, c
    <3> QED BY <2>3, <2>4, <2>5
  <2> QED BY <1>0, <2>2 DEF ExportHelper, u, SpawnIInv, SpawnTypeOK
<1> HIDE DEF c, p
<1>9. /\ call' \in [SpawnProcs -> CallStates] /\ call'[s] = c /\ \A t \in SpawnProcs : t # s => call'[t] = call[t]
      /\ pipe' \in [Exports -> Pipes] /\ pipe'[x] = p /\ \A y \in Exports : y # x => pipe'[y] = pipe[y]
      /\ helper' \in [Exports -> {"none", "run", "closing", "done"}] /\ helper'[x] = "run"
      /\ \A y \in Exports : y # x => helper'[y] = helper[y]
      /\ Nfd(s)' = Nfd(s) /\ Fds(s)' = Fds(s)
  BY <1>2, <1>5, <1>6, <1>7, <1>8 DEF SpawnIInv, SpawnTypeOK, Nfd, Fds
<1> HIDE DEF x
<1>10. SpawnTypeOK' /\ NoForeignClose'
  BY <1>7, <1>9 DEF SpawnIInv, SpawnTypeOK, NoForeignClose
<1>11. /\ \A t \in SpawnProcs, i \in 1..3 : <<t, i>> \in Exports /\ (<<t, i>> = x <=> t = s /\ i = k)
       /\ <<s, 2>> \in Exports /\ (<<s, 2>> = x <=> k = 2)
  BY DEF Exports, x
<1>12. Moves(s)
  BY <1>7, <1>9, <1>11 DEF Moves
<1>13. OwnNums(s)'
  BY <1>1, <1>5, <1>9 DEF SpawnPart, OwnNums
<1>14. InExport(s, k) /\ HelpedAt(s, k)
  BY <1>1, <1>2, <1>7 DEF InExport, SpawnPart, PipesHelped
<1>15. PipesHelped(s)'
  <2>1. ASSUME NEW i \in 1..3, i # k PROVE HelpedAt(s, i)'
    <3>1. HelpedAt(s, i)
      BY <1>1 DEF SpawnPart, PipesHelped
    <3>2. pipe'[<<s, i>>] = pipe[<<s, i>>] /\ helper'[<<s, i>>] = helper[<<s, i>>]
      BY <1>9, <1>11, <2>1
    <3>3. (ToExport(s, i)' <=> ToExport(s, i)) /\ ~InExport(s, i)' /\ ~InExport(s, i)
      BY <1>1, <1>5, <1>7, <1>9, <2>1 DEF ToExport, InExport
    <3> QED BY <1>4, <1>5, <1>9, <2>1, <3>1, <3>2, <3>3 DEF HelpedAt
  <2>2. HelpedAt(s, k)'
    <3>1. ~ToExport(s, k)' /\ ~InExport(s, k)'
      BY <1>1, <1>5, <1>9 DEF ToExport, InExport
    <3>2. pipe'[<<s, k>>] = p /\ helper'[<<s, k>>] = "run" /\ p.fd = pipe[<<s, k>>].fd /\ ~p.linh
      BY <1>6, <1>9 DEF x
    <3>3. k \in u <=> pipe[<<s, k>>].fd
      BY <1>4, <1>14 DEF HelpedAt, x
    <3> QED BY <1>5, <1>9, <1>14, <3>1, <3>2, <3>3 DEF HelpedAt
  <2> QED BY <2>1, <2>2 DEF PipesHelped
<1>16. \A i \in 1..3 : pipe'[<<s, i>>].data = pipe[<<s, i>>].data /\ pipe'[<<s, i>>].r = pipe[<<s, i>>].r
         /\ pipe'[<<s, i>>].fd = pipe[<<s, i>>].fd
  BY <1>6, <1>9, <1>11
<1>17. KidsOutput(s)'
  <2>1. kid[s] = "none" /\ holds[s] = {}
    BY <1>1, <1>7 DEF SpawnPart, KidsOutput
  <2> QED BY <1>1, <1>5, <1>7, <1>9, <1>16, <2>1 DEF SpawnPart, KidsOutput, End
<1>18. EndsDrained(s)'
  <2>1. ASSUME helper'[<<s, 2>>] \in {"closing", "done"} PROVE helper'[<<s, 2>>] = helper[<<s, 2>>]
    BY <1>9, <1>11, <2>1
  <2>2. ASSUME Drained(<<s, 2>>) PROVE Drained(<<s, 2>>)'
    <3>1. <<s, 2>> \in Exports
      BY <1>11
    <3> QED BY <1>12, <1>16, <2>2, <3>1, DrainedStays
  <2> QED BY <1>1, <1>7, <2>1, <2>2 DEF SpawnPart, EndsDrained
<1>19. NotOverYet(s)'
  BY <1>5, <1>9 DEF NotOverYet
<1>20. TwinsPlain(s)'
  <2>1. \A i \in Fds(s) : i \in 1..3
    BY <1>1 DEF Fds
  <2> QED BY <1>1, <1>5, <1>7, <1>9, <1>16, <2>1 DEF SpawnPart, TwinsPlain
<1>21. OverWhenClosed(s)'
  <2>1. ASSUME ~excused, NEW i \in Fds(s) PROVE OverAt(s, i)'
    <3>1. OverAt(s, i) /\ i \in 1..3
      BY <1>1, <2>1 DEF SpawnPart, OverWhenClosed, Fds
    <3>2. CASE i = k
      <4>1. ~(call[s].fd[i] # -1 /\ Over(call[s].fd[i]))
        BY <1>7, <1>14, <3>1, <3>2 DEF OverAt, HelpedAt
      <4> QED BY <1>5, <1>7, <1>9, <4>1 DEF OverAt, Over
    <3>3. CASE i # k
      <4>1. helper'[<<s, i>>] = helper[<<s, i>>]
        BY <1>9, <1>11, <3>1, <3>3
      <4> QED BY <1>4, <1>5, <1>7, <1>9, <3>1, <3>3, <4>1 DEF OverAt, Over
    <3> QED BY <3>2, <3>3
  <2> QED BY <1>7, <1>9, <2>1 DEF OverWhenClosed
<1>22. ClosesAllAlone(s)'
  BY <1>5, <1>9 DEF ClosesAllAlone
<1>23. ClosedIsOver(s)'
  <2>1. ASSUME NEW i \in Fds(s) PROVE ClosedAt(s, i)'
    <3>1. ClosedAt(s, i) /\ i \in 1..3
      BY <1>1 DEF SpawnPart, ClosedIsOver, Fds
    <3>2. helper'[<<s, i>>] = "done" => i # k /\ helper[<<s, i>>] = "done"
      BY <1>9, <1>11, <3>1 DEF x
    <3> QED BY <1>4, <1>5, <1>7, <1>9, <3>1, <3>2 DEF ClosedAt, Over
  <2> QED BY <1>9, <2>1 DEF ClosedIsOver
<1>24. EndSeen(s)'
  BY <1>1, <1>5, <1>7, <1>9 DEF SpawnPart, EndSeen, End
<1> QED BY <1>10, <1>12, <1>13, <1>15, <1>17, <1>18, <1>19, <1>20, <1>21, <1>22, <1>23, <1>24, OneMoves DEF SpawnPart

\* CreateProcess(): a process holds what can be inherited, or there is none.
LEMMA CreateProcessKeeps ==
    ASSUME SpawnIInv, NEW s \in SpawnProcs, CreateProcess(s)
    PROVE  SpawnIInv'
<1> DEFINE c == CallAt(call[s], "closeh", call[s].i)
<1>1. /\ SpawnPart(s) /\ call[s] \in CallStates /\ call[s].i \in Nat \ {0} /\ Nfd(s) \in Nat /\ Nfd(s) <= 3
      /\ call[s].i > Nfd(s) /\ \A i \in Fds(s) : i \in Nat
  BY SpawnTypes DEF SpawnIInv, SpawnPart, OwnNums, CreateProcess
<1>2. /\ call[s].pc = "export" /\ call' = [call EXCEPT ![s] = c]
      /\ UNCHANGED <<tab, pipe, helper, wrote, arrived, foreign, excused>>
  BY CallGoes DEF CreateProcess
<1>3. "closeh" \in SpawnPcs
  BY DEF SpawnPcs
<1>4. /\ c \in CallStates /\ c.fd = call[s].fd /\ c.used = call[s].used /\ c.from = call[s].from
      /\ c.pc = "closeh"
  BY <1>1, <1>3, CallAtIs
<1> HIDE DEF c
<1>5. /\ call' \in [SpawnProcs -> CallStates] /\ call'[s] = c /\ \A t \in SpawnProcs : t # s => call'[t] = call[t]
      /\ Nfd(s)' = Nfd(s) /\ Fds(s)' = Fds(s)
  BY <1>2, <1>4 DEF SpawnIInv, SpawnTypeOK, Nfd, Fds
<1>6. kid[s] = "none" /\ holds[s] = {}
  BY <1>1, <1>2 DEF SpawnPart, KidsOutput
<1>7. Inheritable \subseteq PipeEnds
  BY DEF Inheritable, PipeEnds, End, Exports
<1>8. /\ kid' \in [SpawnProcs -> {"none", "run", "gone"}] /\ holds' \in [SpawnProcs -> SUBSET PipeEnds]
      /\ \A t \in SpawnProcs : t # s => kid'[t] = kid[t] /\ holds'[t] = holds[t]
      /\ (kid'[s] = "run" /\ holds'[s] = Inheritable) \/ (kid'[s] = "none" /\ holds'[s] = {})
  <2>1. CASE kid' = [kid EXCEPT ![s] = "run"] /\ holds' = [holds EXCEPT ![s] = Inheritable]
    BY <1>7, <2>1 DEF SpawnIInv, SpawnTypeOK
  <2>2. CASE UNCHANGED <<kid, holds>>
    BY <1>6, <2>2 DEF SpawnIInv, SpawnTypeOK
  <2> QED BY <2>1, <2>2 DEF CreateProcess
<1>9. ASSUME NEW x \in Exports, End(x, "r") \in holds'[s] PROVE pipe[x].r
  <2>1. PICK y \in Exports : End(x, "r") = End(y, "r") /\ pipe[y].r
    BY <1>8, <1>9 DEF Inheritable, End
  <2>2. x = y
    BY <2>1, ExportIs DEF End
  <2> QED BY <2>1, <2>2
<1>10. ASSUME NEW i \in 1..3 PROVE End(<<s, i>>, "l") \notin holds'[s]
  <2>1. HelpedAt(s, i) /\ ~InExport(s, i)
    BY <1>1, <1>2 DEF SpawnPart, PipesHelped, InExport
  <2>2. SUFFICES ASSUME End(<<s, i>>, "l") \in Inheritable PROVE FALSE
    BY <1>8
  <2>3. PICK y \in Exports : End(<<s, i>>, "l") = End(y, "l") /\ pipe[y].linh
    BY <2>2 DEF Inheritable, End
  <2>4. <<s, i>> \in Exports
    BY DEF Exports
  <2>5. y = <<s, i>>
    BY <2>3, <2>4, ExportIs DEF End
  <2> QED BY <2>1, <2>3, <2>5 DEF HelpedAt
<1>11. SpawnTypeOK' /\ NoForeignClose'
  BY <1>2, <1>5, <1>8 DEF SpawnIInv, SpawnTypeOK, NoForeignClose
<1>12. Moves(s)
  BY <1>2, <1>5, <1>8, <1>9 DEF Moves
<1>13. OwnNums(s)'
  BY <1>1, <1>4, <1>5 DEF SpawnPart, OwnNums
<1>14. PipesHelped(s)'
  <2>1. ASSUME NEW i \in 1..3 PROVE HelpedAt(s, i)'
    <3>1. HelpedAt(s, i)
      BY <1>1 DEF SpawnPart, PipesHelped
    <3>2. ~ToExport(s, i)' /\ ~InExport(s, i)' /\ ~InExport(s, i)
      BY <1>2, <1>4, <1>5 DEF ToExport, InExport
    <3> QED BY <1>2, <1>4, <1>5, <3>1, <3>2 DEF HelpedAt
  <2> QED BY <2>1 DEF PipesHelped
<1>15. KidsOutput(s)'
  <2>1. ASSUME End(<<s, 2>>, "r") \in holds'[s] PROVE helper[<<s, 2>>] # "none"
    <3>1. <<s, 2>> \in Exports
      BY DEF Exports
    <3>2. pipe[<<s, 2>>].r
      BY <1>9, <2>1, <3>1
    <3>3. HelpedAt(s, 2) /\ ~InExport(s, 2)
      BY <1>1, <1>2 DEF SpawnPart, PipesHelped, InExport
    <3> QED BY <3>2, <3>3 DEF HelpedAt, NoPipe
  <2>2. wrote[s] = 0 /\ arrived[s] = 0 /\ pipe[<<s, 2>>].data = 0 /\ pipe[<<s, 1>>].data = 0 /\ pipe[<<s, 3>>].data = 0
    BY <1>1, <1>6 DEF SpawnPart, KidsOutput
  <2>3. wrote'[s] = 0 /\ arrived'[s] = 0 /\ pipe'[<<s, 2>>].data = 0 /\ pipe'[<<s, 1>>].data = 0 /\ pipe'[<<s, 3>>].data = 0
    BY <1>2, <2>2
  <2>4. call'[s].pc = "closeh" /\ (kid'[s] = "none" => holds'[s] = {}) /\ helper' = helper
    BY <1>2, <1>4, <1>5, <1>8
  <2> QED BY <2>1, <2>3, <2>4 DEF KidsOutput, End
<1>16. EndsDrained(s)'
  <2>1. <<s, 2>> \in Exports
    BY DEF Exports
  <2>2. Drained(<<s, 2>>) => Drained(<<s, 2>>)'
    BY <1>2, <1>12, <2>1, DrainedStays
  <2> QED BY <1>1, <1>2, <2>2 DEF SpawnPart, EndsDrained
<1>17. NotOverYet(s)'
  BY <1>4, <1>5 DEF NotOverYet
<1>18. TwinsPlain(s)'
  BY <1>1, <1>2, <1>4, <1>5 DEF SpawnPart, TwinsPlain
<1>19. OverWhenClosed(s)'
  <2>1. ASSUME ~excused, NEW i \in Fds(s) PROVE OverAt(s, i)'
    <3>1. OverAt(s, i)
      BY <1>1, <2>1 DEF SpawnPart, OverWhenClosed
    <3> QED BY <1>2, <1>4, <1>5, <3>1 DEF OverAt, Over
  <2> QED BY <1>2, <1>5, <2>1 DEF OverWhenClosed
<1>20. ClosesAllAlone(s)'
  BY <1>4, <1>5 DEF ClosesAllAlone
<1>21. ClosedIsOver(s)'
  <2>1. ASSUME NEW i \in Fds(s) PROVE ClosedAt(s, i)'
    <3>1. ClosedAt(s, i)
      BY <1>1 DEF SpawnPart, ClosedIsOver
    <3> QED BY <1>2, <1>4, <1>5, <3>1 DEF ClosedAt, Over
  <2> QED BY <1>5, <2>1 DEF ClosedIsOver
<1>22. EndSeen(s)'
  BY <1>4, <1>5, <1>10 DEF EndSeen, End
<1> QED BY <1>11, <1>12, <1>13, <1>14, <1>15, <1>16, <1>17, <1>18, <1>19, <1>20, <1>21, <1>22, OneMoves DEF SpawnPart

\* An end that has its value already.
LEMMA SameEnd ==
    ASSUME NEW q \in Pipes, NEW v, q.r = v
    PROVE  [q EXCEPT !.r = v] = q
<1>1. q = [l |-> q.l, r |-> q.r, linh |-> q.linh, fd |-> q.fd, data |-> q.data]
  BY DEF Pipes
<1> QED BY <1>1

\* The same of its data.
LEMMA SameData ==
    ASSUME NEW q \in Pipes
    PROVE  [q EXCEPT !.data = q.data] = q
<1>1. q = [l |-> q.l, r |-> q.r, linh |-> q.linh, fd |-> q.fd, data |-> q.data]
  BY DEF Pipes
<1> QED BY <1>1

\* The child's ends are closed.
LEMMA CloseHandlesKeeps ==
    ASSUME SpawnIInv, NEW s \in SpawnProcs, CloseHandles(s)
    PROVE  SpawnIInv'
<1> DEFINE l == IF kid[s] = "none" THEN "fail" ELSE "add"
           c == CallAt(call[s], l, 1)
<1>0. GoesTo(s, l, 1)
  BY DEF CloseHandles, GoesTo
<1>1. SpawnPart(s) /\ call[s] \in CallStates /\ Nfd(s) \in Nat /\ Nfd(s) <= 3
  BY SpawnTypes DEF SpawnIInv, SpawnPart, OwnNums
<1>2. /\ call[s].pc = "closeh"
      /\ pipe' = [x \in Exports |-> IF x \in EndsToClose(s) THEN [pipe[x] EXCEPT !.r = FALSE] ELSE pipe[x]]
      /\ UNCHANGED <<tab, helper, kid, holds, wrote, arrived, foreign, excused>>
  BY DEF CloseHandles
<1>3. l \in SpawnPcs /\ l \in {"add", "fail"}
  BY DEF SpawnPcs
<1> HIDE DEF l
<1>4. call' = [call EXCEPT ![s] = c]
  BY <1>0, CallGoesTo
<1>5. /\ c \in CallStates /\ c.fd = call[s].fd /\ c.used = call[s].used /\ c.from = call[s].from
      /\ c.pc = l /\ c.i = 1
  BY <1>1, <1>3, CallAtIs
<1> HIDE DEF c
<1>6. /\ call' \in [SpawnProcs -> CallStates] /\ call'[s] = c /\ \A t \in SpawnProcs : t # s => call'[t] = call[t]
      /\ Nfd(s)' = Nfd(s) /\ Fds(s)' = Fds(s)
  BY <1>4, <1>5 DEF SpawnIInv, SpawnTypeOK, Nfd, Fds
<1>7. ASSUME NEW x \in Exports
      PROVE  /\ pipe'[x] \in Pipes /\ (x[1] # s => pipe'[x] = pipe[x]) /\ (pipe[x] = NoPipe => pipe'[x] = NoPipe)
             /\ (x[1] = s => ~pipe'[x].r)
             /\ pipe'[x].data = pipe[x].data /\ pipe'[x].fd = pipe[x].fd /\ pipe'[x].linh = pipe[x].linh
  <2>1. pipe[x] \in Pipes
    BY DEF SpawnIInv, SpawnTypeOK
  <2>2. x \in EndsToClose(s) <=> x[1] = s
    BY DEF EndsToClose, Exports
  <2>3. pipe'[x] = IF x[1] = s THEN [pipe[x] EXCEPT !.r = FALSE] ELSE pipe[x]
    BY <1>2, <2>2
  <2>4. /\ [pipe[x] EXCEPT !.r = FALSE] \in Pipes /\ ~([pipe[x] EXCEPT !.r = FALSE].r)
        /\ [pipe[x] EXCEPT !.r = FALSE].data = pipe[x].data /\ [pipe[x] EXCEPT !.r = FALSE].fd = pipe[x].fd
        /\ [pipe[x] EXCEPT !.r = FALSE].linh = pipe[x].linh
    BY <2>1 DEF Pipes
  <2>5. pipe[x] = NoPipe => [pipe[x] EXCEPT !.r = FALSE] = NoPipe
    <3>1. NoPipe.r = FALSE
      BY DEF NoPipe
    <3> QED BY <2>1, <3>1, SameEnd
  <2> QED BY <2>1, <2>3, <2>4, <2>5
<1>8. \A t \in SpawnProcs, i \in 1..3 : <<t, i>> \in Exports /\ <<t, i>>[1] = t
  BY DEF Exports
<1>9. pipe' \in [Exports -> Pipes]
  BY <1>2, <1>7
<1>10. SpawnTypeOK' /\ NoForeignClose'
  BY <1>2, <1>6, <1>9 DEF SpawnIInv, SpawnTypeOK, NoForeignClose
<1>11. \A t \in SpawnProcs, i \in 1..3 : t # s => pipe'[<<t, i>>] = pipe[<<t, i>>]
  BY <1>7, <1>8
<1>12. Moves(s)
  BY <1>2, <1>6, <1>11 DEF Moves
<1>13. \A i \in 1..3 : /\ (pipe[<<s, i>>] = NoPipe => pipe'[<<s, i>>] = NoPipe) /\ ~pipe'[<<s, i>>].r
                       /\ pipe'[<<s, i>>].data = pipe[<<s, i>>].data /\ pipe'[<<s, i>>].fd = pipe[<<s, i>>].fd
                       /\ pipe'[<<s, i>>].linh = pipe[<<s, i>>].linh
  BY <1>7, <1>8
<1> HIDE DEF l
<1>14. OwnNums(s)'
  BY <1>1, <1>3, <1>5, <1>6 DEF SpawnPart, OwnNums
<1>15. PipesHelped(s)'
  <2>1. ASSUME NEW i \in 1..3 PROVE HelpedAt(s, i)'
    <3>1. HelpedAt(s, i)
      BY <1>1 DEF SpawnPart, PipesHelped
    <3>2. ~ToExport(s, i)' /\ ~InExport(s, i)' /\ ~InExport(s, i)
      BY <1>2, <1>3, <1>5, <1>6 DEF ToExport, InExport
    <3> QED BY <1>2, <1>5, <1>6, <1>13, <3>1, <3>2 DEF HelpedAt
  <2> QED BY <2>1 DEF PipesHelped
<1>16. KidsOutput(s)'
  <2>1. c.pc \notin {"idle", "export", "helper"}
    BY <1>3, <1>5
  <2> QED BY <1>1, <1>2, <1>6, <1>13, <2>1 DEF SpawnPart, KidsOutput, End
<1>17. EndsDrained(s)'
  <2>1. ASSUME Drained(<<s, 2>>) PROVE Drained(<<s, 2>>)'
    <3>1. pipe'[<<s, 2>>].r = pipe[<<s, 2>>].r /\ pipe'[<<s, 2>>].data = pipe[<<s, 2>>].data /\ <<s, 2>> \in Exports
      <4>1. <<s, 2>> \in Exports /\ <<s, 2>>[1] = s
        BY DEF Exports
      <4>2. pipe[<<s, 2>>] \in Pipes /\ pipe'[<<s, 2>>] \in Pipes
        BY <1>9, <4>1 DEF SpawnIInv, SpawnTypeOK
      <4>3. pipe[<<s, 2>>].r \in BOOLEAN /\ pipe'[<<s, 2>>].r \in BOOLEAN
        BY <4>2 DEF Pipes
      <4>4. ~pipe[<<s, 2>>].r /\ ~pipe'[<<s, 2>>].r
        BY <1>7, <2>1, <4>1 DEF Drained, Abandoned
      <4> QED BY <1>7, <4>1, <4>3, <4>4
    <3> QED BY <1>12, <2>1, <3>1, DrainedStays
  <2> QED BY <1>1, <1>2, <2>1 DEF SpawnPart, EndsDrained
<1>18. NotOverYet(s)'
  BY <1>3, <1>5, <1>6 DEF NotOverYet
<1>19. TwinsPlain(s)'
  <2>1. \A i \in Fds(s) : i \in 1..3
    BY <1>1 DEF Fds
  <2> QED BY <1>1, <1>2, <1>5, <1>6, <1>13, <2>1 DEF SpawnPart, TwinsPlain
<1>20. OverWhenClosed(s)'
  <2>1. ASSUME ~excused, NEW i \in Fds(s) PROVE OverAt(s, i)'
    <3>1. OverAt(s, i)
      BY <1>1, <2>1 DEF SpawnPart, OverWhenClosed
    <3> QED BY <1>2, <1>5, <1>6, <3>1 DEF OverAt, Over
  <2> QED BY <1>2, <1>6, <2>1 DEF OverWhenClosed
<1>21. ClosesAllAlone(s)'
  BY <1>3, <1>5, <1>6 DEF ClosesAllAlone
<1>22. ClosedIsOver(s)'
  <2>1. ASSUME NEW i \in Fds(s) PROVE ClosedAt(s, i)'
    <3>1. ClosedAt(s, i)
      BY <1>1 DEF SpawnPart, ClosedIsOver
    <3> QED BY <1>2, <1>3, <1>5, <1>6, <3>1 DEF ClosedAt, Over
  <2> QED BY <1>6, <2>1 DEF ClosedIsOver
<1>23. EndSeen(s)'
  BY <1>1, <1>2, <1>13 DEF SpawnPart, EndSeen, End
<1> QED BY <1>10, <1>12, <1>14, <1>15, <1>16, <1>17, <1>18, <1>19, <1>20, <1>21, <1>22, <1>23, OneMoves DEF SpawnPart

\* The call is made; the program may not be found.
LEMMA BeginKeeps ==
    ASSUME SpawnIInv, NEW s \in SpawnProcs, Begin(s)
    PROVE  SpawnIInv'
<1>1. PICK a \in Calls[s], l \in {"export", "fail"} :
        /\ call' = [call EXCEPT ![s] = [pc |-> l, fd |-> a.fd, used |-> {}, i |-> 1, from |-> a.from]]
        /\ excused' = (excused \/ PipeTwice(a.fd))
  BY DEF Begin
<1> DEFINE c == [pc |-> l, fd |-> a.fd, used |-> {}, i |-> 1, from |-> a.from]
<1>2. /\ SpawnPart(s) /\ call[s].pc = "idle" /\ UNCHANGED <<tab, pipe, helper, kid, holds, wrote, arrived, foreign>>
      /\ call' = [call EXCEPT ![s] = c]
  BY <1>1 DEF SpawnIInv, Begin
<1>3. /\ a.fd \in Seq(FdNums \cup {-1}) /\ Len(a.fd) <= 3 /\ Len(a.fd) \in Nat /\ a.from \in {"spawn", "exec"}
      /\ DOMAIN a.fd = 1..Len(a.fd)
      /\ a.from = "exec" => \A i, j \in DOMAIN a.fd : a.fd[i] = a.fd[j] /\ a.fd[i] # -1 => i = j
  BY CallsAssumption
<1>4. /\ c \in CallStates /\ c.fd = a.fd /\ c.used = {} /\ c.from = a.from /\ c.i = 1 /\ c.pc = l
  BY <1>3 DEF CallStates, SpawnPcs
<1> HIDE DEF c
<1>5. \A i \in DOMAIN a.fd : a.fd[i] = -1 \/ (a.fd[i] \in NumsOf(s) /\ a.fd[i] \in FdNums)
  <2>1. ASSUME NEW i \in DOMAIN a.fd, a.fd[i] # -1 PROVE a.fd[i] \in NumsOf(s)
    <3> DEFINE N(b) == {b.fd[j] : j \in DOMAIN b.fd}
               S == {{b.fd[j] : j \in DOMAIN b.fd} : b \in Calls[s]}
    <3>1. a.fd[i] \in N(a) /\ N(a) \in S
      OBVIOUS
    <3>2. a.fd[i] \in UNION S
      <4> HIDE DEF N, S
      <4> QED BY <3>1
    <3> QED BY <2>1, <3>2 DEF NumsOf
  <2> QED BY <2>1, NumsAreFds
<1>6. /\ call' \in [SpawnProcs -> CallStates] /\ call'[s] = c /\ \A t \in SpawnProcs : t # s => call'[t] = call[t]
  BY <1>2, <1>4 DEF SpawnIInv, SpawnTypeOK
<1>7. Nfd(s)' = Len(a.fd) /\ Fds(s)' = DOMAIN a.fd
  BY <1>3, <1>4, <1>6 DEF Nfd, Fds
<1>8. SpawnTypeOK'
  <2>1. excused' \in BOOLEAN
    BY <1>1 DEF PipeTwice
  <2> QED BY <1>2, <1>6, <2>1 DEF SpawnIInv, SpawnTypeOK
<1>9. NoForeignClose' /\ (excused => excused')
  BY <1>1, <1>2 DEF SpawnIInv, NoForeignClose
<1>10. Moves(s)
  BY <1>2, <1>6, <1>9 DEF Moves
<1>11. \A i \in 1..3 : helper[<<s, i>>] = "none" /\ pipe[<<s, i>>] = NoPipe /\ ~NoPipe.fd /\ ~NoPipe.linh /\ ~NoPipe.r /\ NoPipe.data = 0
  BY <1>2 DEF SpawnPart, PipesHelped, HelpedAt, ToExport, NoPipe
<1>12. kid[s] = "none" /\ wrote[s] = 0 /\ arrived[s] = 0 /\ holds[s] = {}
  BY <1>2 DEF SpawnPart, KidsOutput
<1>13. OwnNums(s)'
  BY <1>3, <1>4, <1>5, <1>6, <1>7 DEF OwnNums
<1>14. PipesHelped(s)'
  <2>1. ASSUME NEW i \in 1..3 PROVE HelpedAt(s, i)'
    <3>1. ~InExport(s, i)' /\ i \notin c.used
      BY <1>4, <1>6 DEF InExport
    <3> QED BY <1>2, <1>4, <1>6, <1>11, <3>1 DEF HelpedAt
  <2> QED BY <2>1 DEF PipesHelped
<1>15. KidsOutput(s)'
  <2>1. pipe'[<<s, 1>>].data = 0 /\ pipe'[<<s, 2>>].data = 0 /\ pipe'[<<s, 3>>].data = 0
    BY <1>2, <1>11
  <2> QED BY <1>2, <1>12, <2>1 DEF KidsOutput
<1>16. EndsDrained(s)'
  <2>1. helper'[<<s, 2>>] = "none"
    BY <1>2, <1>11
  <2> QED BY <2>1 DEF EndsDrained
<1>17. NotOverYet(s)'
  BY <1>4, <1>6 DEF NotOverYet
<1>18. TwinsPlain(s)'
  <2>1. ASSUME ~excused', NEW i \in DOMAIN a.fd, NEW j \in DOMAIN a.fd, a.fd[i] = a.fd[j], i # j, a.fd[i] # -1
        PROVE  tab[a.fd[i]].kind # "pipe" /\ ~pipe[<<s, i>>].fd
    <3>1. KindOf(a.fd[i]) # "pipe"
      BY <1>1, <2>1 DEF PipeTwice
    <3>2. tab[a.fd[i]].kind # "pipe"
      BY <2>1, <3>1 DEF KindOf
    <3>3. i \in 1..3
      BY <1>3
    <3> QED BY <1>11, <3>2, <3>3
  <2> QED BY <1>2, <1>4, <1>6, <1>7, <2>1 DEF TwinsPlain
<1>19. OverWhenClosed(s)'
  <2>1. ASSUME NEW i \in DOMAIN a.fd PROVE OverAt(s, i)'
    <3>1. ~(a.fd[i] # -1 /\ Over(a.fd[i]))
      BY <1>2, <1>5 DEF SpawnPart, NotOverYet
    <3> QED BY <1>2, <1>4, <1>6, <3>1 DEF OverAt, Over
  <2> QED BY <1>7, <2>1 DEF OverWhenClosed
<1>20. ClosesAllAlone(s)'
  BY <1>4, <1>6 DEF ClosesAllAlone
<1>21. ClosedIsOver(s)'
  BY <1>4, <1>6 DEF ClosedIsOver, ClosedAt
<1>22. EndSeen(s)'
  BY <1>2, <1>11, <1>12 DEF EndSeen, End
<1> QED BY <1>8, <1>9, <1>10, <1>13, <1>14, <1>15, <1>16, <1>17, <1>18, <1>19, <1>20, <1>21, <1>22, OneMoves DEF SpawnPart

\* A helper at work: data is passed on, or it comes to its end.
LEMMA HelperWorks ==
    ASSUME SpawnIInv, NEW s \in SpawnProcs, NEW k \in 1..3, helper[<<s, k>>] = "run",
           NEW d \in Nat, pipe' = [pipe EXCEPT ![<<s, k>>].data = d], d <= pipe[<<s, k>>].data,
           NEW h \in {"run", "closing"}, helper' = [helper EXCEPT ![<<s, k>>] = h],
           arrived' \in [SpawnProcs -> Nat], \A t \in SpawnProcs : t # s => arrived'[t] = arrived[t],
           foreign' \in BOOLEAN, UNCHANGED <<tab, call, kid, holds, wrote, excused>>,
           NoForeignClose', kid[s] = "none" => arrived'[s] = 0,
           ~excused => wrote[s] = arrived'[s] + pipe'[<<s, 2>>].data,
           k = 2 /\ h = "closing" /\ ~excused => Drained(<<s, 2>>) /\ d = pipe[<<s, 2>>].data
    PROVE  SpawnIInv'
<1> DEFINE x == <<s, k>>
           p == [pipe[x] EXCEPT !.data = d]
<1>1. SpawnPart(s) /\ Nfd(s) <= 3 /\ Nfd(s) \in Nat
  BY SpawnTypes DEF SpawnIInv, SpawnPart, OwnNums
<1>2. x \in Exports /\ pipe[x] \in Pipes
  BY DEF SpawnIInv, SpawnTypeOK, Exports
<1>3. p \in Pipes /\ p.data = d /\ p.fd = pipe[x].fd /\ p.linh = pipe[x].linh /\ p.r = pipe[x].r
  BY <1>2 DEF Pipes
<1>4. pipe' = [pipe EXCEPT ![x] = p]
  BY <1>2 DEF SpawnIInv, SpawnTypeOK
<1> HIDE DEF p
<1>5. /\ pipe' \in [Exports -> Pipes] /\ pipe'[x] = p /\ \A y \in Exports : y # x => pipe'[y] = pipe[y]
      /\ helper' \in [Exports -> {"none", "run", "closing", "done"}] /\ helper'[x] = h
      /\ \A y \in Exports : y # x => helper'[y] = helper[y]
      /\ Nfd(s)' = Nfd(s) /\ Fds(s)' = Fds(s) /\ \A n : Over(n)' = Over(n)
  BY <1>2, <1>3, <1>4 DEF SpawnIInv, SpawnTypeOK, Nfd, Fds, Over
<1>6. helper[x] = "run"
  OBVIOUS
<1> HIDE DEF x
<1>7. /\ \A t \in SpawnProcs, i \in 1..3 : <<t, i>> \in Exports /\ (<<t, i>> = x <=> t = s /\ i = k)
      /\ <<s, 2>> \in Exports /\ (<<s, 2>> = x <=> k = 2)
      /\ <<s, 1>> \in Exports /\ (<<s, 1>> = x <=> k = 1)
      /\ <<s, 3>> \in Exports /\ (<<s, 3>> = x <=> k = 3)
  BY DEF Exports, x
<1>8. SpawnTypeOK'
  BY <1>5 DEF SpawnIInv, SpawnTypeOK
<1>9. Moves(s)
  BY <1>5, <1>7 DEF Moves
<1>10. OwnNums(s)'
  BY <1>1, <1>5 DEF SpawnPart, OwnNums
<1>11. HelpedAt(s, k)
  BY <1>1 DEF SpawnPart, PipesHelped
<1>12. PipesHelped(s)'
  <2>1. ASSUME NEW i \in 1..3, i # k PROVE HelpedAt(s, i)'
    <3>1. HelpedAt(s, i)
      BY <1>1 DEF SpawnPart, PipesHelped
    <3>2. pipe'[<<s, i>>] = pipe[<<s, i>>] /\ helper'[<<s, i>>] = helper[<<s, i>>]
      BY <1>5, <1>7, <2>1
    <3> QED BY <1>5, <3>1, <3>2 DEF HelpedAt, ToExport, InExport
  <2>2. HelpedAt(s, k)'
    <3>1. helper[<<s, k>>] = "run" /\ helper'[<<s, k>>] \in {"run", "closing"}
      BY <1>5, <1>6 DEF x
    <3>2. ~ToExport(s, k) /\ ~InExport(s, k) /\ helper[<<s, k>>] # "none" /\ helper'[<<s, k>>] # "none"
      BY <1>11, <3>1 DEF HelpedAt
    <3>3. ~ToExport(s, k)' /\ ~InExport(s, k)'
      BY <3>2 DEF ToExport, InExport
    <3>4. pipe'[<<s, k>>].fd = pipe[<<s, k>>].fd /\ pipe'[<<s, k>>].linh = pipe[<<s, k>>].linh
      BY <1>3, <1>5 DEF x
    <3>5. /\ call' = call /\ Nfd(s)' = Nfd(s)
          /\ pipe[<<s, k>>].linh => InExport(s, k)
          /\ k \in call[s].used <=> helper[<<s, k>>] # "none" /\ pipe[<<s, k>>].fd
          /\ pipe[<<s, k>>].fd => k <= Nfd(s) /\ call[s].fd[k] # -1
      BY <1>5, <1>11 DEF HelpedAt
    <3> QED BY <3>2, <3>3, <3>4, <3>5 DEF HelpedAt
  <2> QED BY <2>1, <2>2 DEF PipesHelped
<1>13. \A i \in 1..3 : pipe'[<<s, i>>].r = pipe[<<s, i>>].r /\ pipe'[<<s, i>>].fd = pipe[<<s, i>>].fd
  BY <1>3, <1>5, <1>7
<1>14. KidsOutput(s)'
  <2>1. pipe[<<s, k>>].data = 0 => d = 0
    BY <1>2 DEF Pipes, x
  <2>2. /\ pipe[<<s, 1>>].data = 0 /\ pipe[<<s, 3>>].data = 0 /\ (kid[s] = "none" => pipe[<<s, 2>>].data = 0)
    BY <1>1 DEF SpawnPart, KidsOutput
  <2>3. pipe'[<<s, 1>>].data = 0 /\ pipe'[<<s, 3>>].data = 0
    BY <1>3, <1>5, <1>7, <2>1, <2>2
  <2>4. kid[s] = "none" => pipe'[<<s, 2>>].data = 0
    BY <1>3, <1>5, <1>7, <2>1, <2>2
  <2>5. helper[<<s, 2>>] # "none" => helper'[<<s, 2>>] # "none"
    BY <1>5, <1>7
  <2> QED BY <1>1, <2>3, <2>4, <2>5 DEF SpawnPart, KidsOutput, End
<1>15. EndsDrained(s)'
  <2>1. ASSUME ~excused, helper'[<<s, 2>>] \in {"closing", "done"} PROVE Drained(<<s, 2>>) /\ pipe'[<<s, 2>>].data = pipe[<<s, 2>>].data
    <3>1. CASE k = 2
      BY <1>3, <1>5, <1>7, <2>1, <3>1 DEF x
    <3>2. CASE k # 2
      <4>1. helper'[<<s, 2>>] = helper[<<s, 2>>] /\ pipe'[<<s, 2>>] = pipe[<<s, 2>>]
        BY <1>5, <1>7, <3>2
      <4> QED BY <1>1, <2>1, <4>1 DEF SpawnPart, EndsDrained
    <3> QED BY <3>1, <3>2
  <2>2. ~excused /\ helper'[<<s, 2>>] \in {"closing", "done"} => Drained(<<s, 2>>)'
    <3>1. pipe'[<<s, 2>>].r = pipe[<<s, 2>>].r
      BY <1>3, <1>5, <1>7
    <3> QED BY <1>7, <1>9, <2>1, <3>1, DrainedStays
  <2> QED BY <2>2 DEF EndsDrained
<1>16. NotOverYet(s)'
  BY <1>1, <1>5 DEF SpawnPart, NotOverYet
<1>17. TwinsPlain(s)'
  <2>1. \A i \in Fds(s) : i \in 1..3
    BY <1>1 DEF Fds
  <2> QED BY <1>1, <1>5, <1>13, <2>1 DEF SpawnPart, TwinsPlain
<1>18. ASSUME NEW i \in 1..3 PROVE helper'[<<s, i>>] = "done" <=> helper[<<s, i>>] = "done"
  BY <1>5, <1>6, <1>7
<1>19. \A i \in Fds(s) : i \in 1..3
  BY <1>1 DEF Fds
<1>20. OverWhenClosed(s)'
  <2>1. ASSUME ~excused, NEW i \in Fds(s) PROVE OverAt(s, i)'
    <3>1. OverAt(s, i)
      BY <1>1, <2>1 DEF SpawnPart, OverWhenClosed
    <3> QED BY <1>5, <1>18, <1>19, <3>1 DEF OverAt, Over
  <2> QED BY <1>5, <2>1 DEF OverWhenClosed
<1>21. ClosesAllAlone(s)'
  BY <1>1 DEF SpawnPart, ClosesAllAlone
<1>22. ClosedIsOver(s)'
  <2>1. ASSUME NEW i \in Fds(s) PROVE ClosedAt(s, i)'
    <3>1. ClosedAt(s, i)
      BY <1>1 DEF SpawnPart, ClosedIsOver
    <3> QED BY <1>5, <1>18, <1>19, <3>1 DEF ClosedAt, Over
  <2> QED BY <1>5, <2>1 DEF ClosedIsOver
<1>23. EndSeen(s)'
  BY <1>1, <1>13 DEF SpawnPart, EndSeen, End
<1> QED BY <1>8, <1>9, <1>10, <1>12, <1>14, <1>15, <1>16, <1>17, <1>20, <1>21, <1>22, <1>23, OneMoves DEF SpawnPart

\* What a helper that is not done has, is not over.
LEMMA HelpersNotOver ==
    ASSUME SpawnIInv, ~excused, NEW x \in Exports, helper[x] \in {"run", "closing"}, HasFd(x)
    PROVE  ~Over(FdOf(x))
<1> DEFINE s == x[1]
           k == x[2]
<1>1. s \in SpawnProcs /\ k \in 1..3 /\ x = <<s, k>>
  BY ExportIs
<1>2. SpawnPart(s) /\ HelpedAt(s, k) /\ Nfd(s) \in Nat
  BY <1>1, SpawnTypes DEF SpawnIInv, SpawnPart, PipesHelped
<1>3. k \in call[s].used /\ k \in Fds(s) /\ call[s].fd[k] # -1
  BY <1>1, <1>2 DEF HelpedAt, HasFd, Fds
<1>4. OverAt(s, k)
  BY <1>2, <1>3 DEF SpawnPart, OverWhenClosed
<1> QED BY <1>1, <1>3, <1>4 DEF OverAt, FdOf

\* Output is passed on; it can be written unless somebody closed the number.
LEMMA RxDataKeeps ==
    ASSUME SpawnIInv, NEW x \in Exports, RxData(x)
    PROVE  SpawnIInv'
<1> DEFINE s == x[1]
           d == pipe[x].data - 1
           lost == HasFd(x) /\ tab[FdOf(x)].kind = "closed"
           h == IF lost THEN "closing" ELSE "run"
<1>1. /\ s \in SpawnProcs /\ x = <<s, x[2]>> /\ SpawnPart(s) /\ x[2] \in 1..3 /\ x[2] > 1 /\ pipe[x] \in Pipes
      /\ arrived \in [SpawnProcs -> Nat] /\ foreign \in BOOLEAN
      /\ helper \in [Exports -> {"none", "run", "closing", "done"}]
  BY ExportIs DEF SpawnIInv, SpawnTypeOK, RxData, TakesOutput
<1>2. pipe[x].data > 0 /\ pipe[x].data \in Nat /\ d \in Nat /\ d <= pipe[x].data
  BY <1>1 DEF RxData, Pipes
<1>3. x[2] = 2 /\ x = <<s, 2>>
  <2>1. x[2] # 3
    BY <1>1, <1>2 DEF SpawnPart, KidsOutput
  <2> QED BY <1>1, <2>1
<1>4. /\ helper[x] = "run" /\ pipe' = [pipe EXCEPT ![x].data = d]
      /\ UNCHANGED <<tab, call, kid, holds, wrote, excused>>
  BY DEF RxData
<1>5. lost => excused
  <2>1. lost => Over(FdOf(x))
    BY DEF Over
  <2> QED BY <1>4, <2>1, HelpersNotOver
<1>6. HasFd(x) /\ tab[FdOf(x)].gen # 0 => excused
  BY <1>4, HelpersNotOver DEF Over
<1>7. helper' = [helper EXCEPT ![x] = h] /\ h \in {"run", "closing"}
  <2>1. CASE lost
    BY <2>1 DEF RxData
  <2>2. CASE ~lost
    <3>1. helper' = helper
      BY <2>2 DEF RxData
    <3>2. helper = [helper EXCEPT ![x] = "run"]
      BY <1>1, <1>4
    <3> QED BY <2>2, <3>1, <3>2
  <2> QED BY <2>1, <2>2
<1>8. /\ arrived' \in [SpawnProcs -> Nat] /\ foreign' \in BOOLEAN
      /\ \A t \in SpawnProcs : t # s => arrived'[t] = arrived[t]
      /\ ~lost => arrived'[s] = arrived[s] + 1
      /\ foreign' => foreign \/ (HasFd(x) /\ tab[FdOf(x)].gen # 0)
  <2>1. CASE lost
    <3>1. arrived' = arrived /\ foreign' = foreign
      BY <2>1 DEF RxData
    <3> QED BY <1>1, <2>1, <3>1
  <2>2. CASE ~lost
    <3>1. arrived' = [arrived EXCEPT ![s] = @ + 1] /\ foreign' = (foreign \/ (HasFd(x) /\ tab[FdOf(x)].gen # 0))
      BY <2>2 DEF RxData
    <3> QED BY <1>1, <2>2, <3>1
  <2> QED BY <2>1, <2>2
<1>9. NoForeignClose'
  BY <1>4, <1>6, <1>8 DEF SpawnIInv, NoForeignClose
<1>10. kid[s] # "none"
  BY <1>1, <1>2, <1>3 DEF SpawnPart, KidsOutput
<1>11. ~excused => wrote[s] = arrived'[s] + pipe'[<<s, 2>>].data
  <2>1. ~excused => wrote[s] = arrived[s] + pipe[x].data
    BY <1>1, <1>3 DEF SpawnPart, KidsOutput
  <2>2. pipe'[x].data = d
    BY <1>1, <1>4 DEF SpawnIInv, SpawnTypeOK, Pipes
  <2>3. arrived[s] \in Nat
    BY <1>1
  <2> HIDE DEF lost, s
  <2> QED BY <1>2, <1>3, <1>5, <1>8, <2>1, <2>2, <2>3
<1>12. h = "closing" => excused
  BY <1>5
<1> HIDE DEF lost, h, s, d
<1> QED BY <1>1, <1>2, <1>3, <1>4, <1>7, <1>8, <1>9, <1>10, <1>11, <1>12, HelperWorks

\* The helper of an output comes to its end, and that of an input to its own.
LEMMA HelperEnds ==
    ASSUME SpawnIInv, NEW x \in Exports, RxEnds(x) \/ TxEnds(x)
    PROVE  SpawnIInv'
<1> DEFINE s == x[1]
           k == x[2]
           d == pipe[x].data
<1>1. /\ s \in SpawnProcs /\ x = <<s, k>> /\ SpawnPart(s) /\ k \in 1..3 /\ pipe[x] \in Pipes /\ d \in Nat
      /\ arrived \in [SpawnProcs -> Nat] /\ foreign \in BOOLEAN
  <2>1. pipe[x] \in Pipes
    BY DEF SpawnIInv, SpawnTypeOK
  <2> QED BY <2>1, ExportIs DEF SpawnIInv, SpawnTypeOK, Pipes
<1>2. /\ helper[x] = "run" /\ helper' = [helper EXCEPT ![x] = "closing"]
      /\ UNCHANGED <<tab, call, pipe, kid, holds, wrote, arrived, foreign, excused>>
  BY DEF RxEnds, TxEnds
<1>3. k = 2 => Drained(<<s, 2>>)
  BY <1>1 DEF RxEnds, TxEnds, TakesOutput
<1>4. pipe' = [pipe EXCEPT ![x].data = d]
  <2>1. [pipe[x] EXCEPT !.data = d] = pipe[x]
    BY <1>1, SameData
  <2> QED BY <1>2, <2>1 DEF SpawnIInv, SpawnTypeOK
<1>5. NoForeignClose'
  BY <1>2 DEF SpawnIInv, NoForeignClose
<1>6. kid[s] = "none" => arrived'[s] = 0
  BY <1>1, <1>2 DEF SpawnPart, KidsOutput
<1>7. ~excused => wrote[s] = arrived'[s] + pipe'[<<s, 2>>].data
  BY <1>1, <1>2 DEF SpawnPart, KidsOutput
<1>8. d <= d /\ (k = 2 => d = pipe[<<s, 2>>].data)
  BY <1>1
<1>9. <<s, k>> = x /\ "closing" \in {"run", "closing"}
  BY <1>1
<1> HIDE DEF s, k, d
<1>10. d <= pipe[<<s, k>>].data
  BY <1>8, <1>9 DEF d
<1> QED BY <1>1, <1>2, <1>3, <1>4, <1>5, <1>6, <1>7, <1>8, <1>9, <1>10, HelperWorks

\* A helper closes its descriptor, if it has one, and its end of the pipe.
LEMMA HelperClosesKeeps ==
    ASSUME SpawnIInv, NEW x \in Exports, HelperCloses(x)
    PROVE  SpawnIInv'
<1>0. PICK s \in SpawnProcs, k \in 1..3 : s = x[1] /\ k = x[2] /\ x = <<s, k>>
  BY ExportIs
<1> DEFINE p == [pipe[x] EXCEPT !.l = FALSE]
           n == call[s].fd[k]
           has == pipe[x].fd
<1>1. /\ SpawnPart(s) /\ HelpedAt(s, k) /\ Nfd(s) <= 3 /\ Nfd(s) \in Nat /\ pipe[x] \in Pipes
      /\ \A i \in Fds(s) : i \in 1..3 /\ (call[s].fd[i] # -1 => call[s].fd[i] \in NumsOf(s) /\ call[s].fd[i] \in FdNums)
  <2>1. SpawnPart(s) /\ HelpedAt(s, k) /\ Nfd(s) <= 3 /\ Nfd(s) \in Nat /\ pipe[x] \in Pipes
    BY SpawnTypes DEF SpawnIInv, SpawnTypeOK, SpawnPart, PipesHelped, OwnNums
  <2>2. \A i \in Fds(s) : i \in 1..3 /\ (call[s].fd[i] # -1 => call[s].fd[i] \in NumsOf(s))
    BY <2>1 DEF SpawnPart, OwnNums, Fds
  <2> QED BY <2>1, <2>2, NumsAreFds
<1>2. p \in Pipes /\ p.data = pipe[x].data /\ p.fd = pipe[x].fd /\ p.linh = pipe[x].linh /\ p.r = pipe[x].r
  BY <1>1 DEF Pipes
<1>3. /\ helper[x] = "closing" /\ pipe' = [pipe EXCEPT ![x] = p] /\ helper' = [helper EXCEPT ![x] = "done"]
      /\ UNCHANGED <<call, kid, holds, wrote, arrived, excused>>
  BY DEF HelperCloses
<1> HIDE DEF p
<1>4. /\ pipe' \in [Exports -> Pipes] /\ pipe'[x] = p /\ \A y \in Exports : y # x => pipe'[y] = pipe[y]
      /\ helper' \in [Exports -> {"none", "run", "closing", "done"}] /\ helper'[x] = "done"
      /\ \A y \in Exports : y # x => helper'[y] = helper[y]
      /\ Nfd(s)' = Nfd(s) /\ Fds(s)' = Fds(s)
  BY <1>2, <1>3 DEF SpawnIInv, SpawnTypeOK, Nfd, Fds
<1>5. /\ \A t \in SpawnProcs, i \in 1..3 : <<t, i>> \in Exports /\ (<<t, i>> = x <=> t = s /\ i = k)
      /\ <<s, 2>> \in Exports /\ (<<s, 2>> = x <=> k = 2)
  BY <1>0 DEF Exports
<1>6. helper[<<s, k>>] = "closing" /\ ~ToExport(s, k) /\ ~InExport(s, k) /\ call[s].pc # "idle"
  BY <1>0, <1>1, <1>3 DEF HelpedAt, ToExport
<1>7. has => k \in call[s].used /\ k \in Fds(s) /\ n # -1 /\ n \in NumsOf(s) /\ n \in FdNums
  <2>1. has => k \in call[s].used /\ k \in Fds(s) /\ n # -1
    BY <1>0, <1>1, <1>6 DEF HelpedAt, Fds
  <2> QED BY <1>1, <2>1
<1>8. k \in call[s].used => has
  BY <1>0, <1>1 DEF HelpedAt
<1>9. /\ tab' \in [FdNums -> FdRecs] /\ foreign' \in BOOLEAN
      /\ foreign' => foreign \/ (has /\ Over(n))
      /\ \A m \in FdNums : tab'[m] = tab[m] \/ (m \in NumsOf(s) /\ tab'[m].kind = "closed")
      /\ \A m \in FdNums : OverThen(m) <=> Over(m) \/ (has /\ m = n)
  <2>1. CASE has
    <3>1. CloseNum(n)
      BY <1>0, <2>1 DEF HelperCloses, HasFd, FdOf
    <3> QED BY <1>7, <2>1, <3>1, NumCloses
  <2>2. CASE ~has
    <3>1. tab' = tab /\ foreign' = foreign
      BY <2>2 DEF HelperCloses, HasFd
    <3> QED BY <2>2, <3>1 DEF SpawnIInv, SpawnTypeOK, Over, OverThen
  <2> QED BY <2>1, <2>2
<1>10. has /\ ~excused => ~Over(n)
  BY <1>0, <1>3, HelpersNotOver DEF HasFd, FdOf
<1>11. has /\ ~excused => \A i \in Fds(s) : call[s].fd[i] = n => i = k
  BY <1>0, <1>1, <1>7 DEF SpawnPart, TwinsPlain
<1> HIDE DEF n, has
<1>12. SpawnTypeOK' /\ NoForeignClose'
  BY <1>3, <1>4, <1>9, <1>10 DEF SpawnIInv, SpawnTypeOK, NoForeignClose
<1>13. Moves(s)
  <2>1. ASSUME NEW t \in SpawnProcs, t # s, NEW m \in NumsOf(t) PROVE tab'[m] = tab[m]
    BY <1>9, <2>1, NumsAreFds, OneSpawnAssumption
  <2> QED BY <1>3, <1>4, <1>5, <2>1 DEF Moves
<1>14. OwnNums(s)'
  BY <1>1, <1>3, <1>4 DEF SpawnPart, OwnNums
<1>15. \A i \in 1..3 : /\ pipe'[<<s, i>>].r = pipe[<<s, i>>].r /\ pipe'[<<s, i>>].fd = pipe[<<s, i>>].fd
                       /\ pipe'[<<s, i>>].linh = pipe[<<s, i>>].linh /\ pipe'[<<s, i>>].data = pipe[<<s, i>>].data
  BY <1>2, <1>4, <1>5
<1>16. PipesHelped(s)'
  <2>1. ASSUME NEW i \in 1..3, i # k PROVE HelpedAt(s, i)'
    <3>1. HelpedAt(s, i)
      BY <1>1 DEF SpawnPart, PipesHelped
    <3>2. pipe'[<<s, i>>] = pipe[<<s, i>>] /\ helper'[<<s, i>>] = helper[<<s, i>>]
      BY <1>4, <1>5, <2>1
    <3> QED BY <1>3, <1>4, <3>1, <3>2 DEF HelpedAt, ToExport, InExport
  <2>2. HelpedAt(s, k)'
    <3>1. helper'[<<s, k>>] = "done"
      BY <1>0, <1>4
    <3>2. ~ToExport(s, k)' /\ ~InExport(s, k)'
      BY <1>3, <1>6 DEF ToExport, InExport
    <3> QED BY <1>1, <1>3, <1>4, <1>6, <1>15, <3>1, <3>2 DEF HelpedAt
  <2> QED BY <2>1, <2>2 DEF PipesHelped
<1>17. KidsOutput(s)'
  <2>1. helper'[<<s, 2>>] = "none" => helper[<<s, 2>>] = "none"
    BY <1>4, <1>5
  <2> QED BY <1>1, <1>3, <1>15, <2>1 DEF SpawnPart, KidsOutput, End
<1>18. EndsDrained(s)'
  <2>1. ASSUME helper'[<<s, 2>>] \in {"closing", "done"} PROVE helper[<<s, 2>>] \in {"closing", "done"}
    BY <1>3, <1>4, <1>5, <2>1
  <2>2. ASSUME Drained(<<s, 2>>) PROVE Drained(<<s, 2>>)'
    BY <1>5, <1>13, <1>15, <2>2, DrainedStays
  <2> QED BY <1>1, <1>3, <2>1, <2>2 DEF SpawnPart, EndsDrained
<1>19. NotOverYet(s)'
  BY <1>3, <1>6 DEF NotOverYet
<1>20. TwinsPlain(s)'
  <2>1. ASSUME ~excused, NEW i \in Fds(s), NEW j \in Fds(s), call[s].fd[i] = call[s].fd[j], i # j, call[s].fd[i] # -1
        PROVE  tab'[call[s].fd[i]].kind # "pipe" /\ ~pipe'[<<s, i>>].fd
    <3>1. tab[call[s].fd[i]].kind # "pipe" /\ ~pipe[<<s, i>>].fd
      BY <1>1, <2>1 DEF SpawnPart, TwinsPlain
    <3> QED BY <1>1, <1>9, <1>15, <2>1, <3>1
  <2> QED BY <1>3, <1>4, <2>1 DEF TwinsPlain
<1>21. ASSUME NEW i \in Fds(s), i # k PROVE helper'[<<s, i>>] = helper[<<s, i>>]
  BY <1>1, <1>4, <1>5, <1>21
<1>22. helper'[<<s, k>>] = "done"
  BY <1>0, <1>4
<1>23. OverWhenClosed(s)'
  <2>1. ASSUME ~excused, NEW i \in Fds(s) PROVE OverAt(s, i)'
    <3>1. OverAt(s, i)
      BY <1>1, <2>1 DEF SpawnPart, OverWhenClosed
    <3>2. CASE i = k
      <4>1. CASE i \in call[s].used
        BY <1>3, <1>22, <3>2, <4>1 DEF OverAt
      <4>2. CASE i \notin call[s].used
        <5>1. call[s].fd[i] # -1 /\ OverThen(call[s].fd[i]) => Over(call[s].fd[i])
          BY <1>1, <1>7, <1>9, <3>2, <4>2
        <5> QED BY <1>3, <1>4, <3>1, <4>2, <5>1 DEF OverAt, Over, OverThen
      <4> QED BY <4>1, <4>2
    <3>3. CASE i # k
      <4>1. call[s].fd[i] # -1 /\ OverThen(call[s].fd[i]) => Over(call[s].fd[i])
        BY <1>1, <1>9, <1>11, <2>1, <3>3
      <4>2. helper'[<<s, i>>] = helper[<<s, i>>]
        BY <1>21, <3>3
      <4> QED BY <1>3, <1>4, <3>1, <4>1, <4>2 DEF OverAt, Over, OverThen
    <3> QED BY <3>2, <3>3
  <2> QED BY <1>3, <1>4, <2>1 DEF OverWhenClosed
<1>24. ClosesAllAlone(s)'
  BY <1>1, <1>3 DEF SpawnPart, ClosesAllAlone
<1>25. ClosedIsOver(s)'
  <2>1. ASSUME NEW i \in Fds(s) PROVE ClosedAt(s, i)'
    <3>1. ClosedAt(s, i)
      BY <1>1 DEF SpawnPart, ClosedIsOver
    <3>2. call[s].fd[i] # -1 /\ Over(call[s].fd[i]) => OverThen(call[s].fd[i])
      BY <1>1, <1>9
    <3>3. i \in call[s].used => call[s].fd[i] # -1
      BY <1>1 DEF SpawnPart, PipesHelped, HelpedAt
    <3>4. i \in call[s].used /\ helper'[<<s, i>>] = "done" => OverThen(call[s].fd[i])
      <4>1. CASE i = k
        BY <1>7, <1>8, <1>9, <4>1 DEF n
      <4>2. CASE i # k
        BY <1>21, <3>1, <3>2, <3>3, <4>2 DEF ClosedAt
      <4> QED BY <4>1, <4>2
    <3> QED BY <1>3, <1>4, <3>1, <3>2, <3>4 DEF ClosedAt, Over, OverThen
  <2> QED BY <1>4, <2>1 DEF ClosedIsOver
<1>26. EndSeen(s)'
  BY <1>1, <1>3, <1>15 DEF SpawnPart, EndSeen, End
<1> QED BY <1>12, <1>13, <1>14, <1>16, <1>17, <1>18, <1>19, <1>20, <1>23, <1>24, <1>25, <1>26, OneMoves DEF SpawnPart

\* The process writes, or ends.
LEMMA KidKeeps ==
    ASSUME SpawnIInv, NEW s \in SpawnProcs, KidWrites(s) \/ KidExits(s)
    PROVE  SpawnIInv'
<1> DEFINE x == <<s, 2>>
<1>1. /\ SpawnPart(s) /\ x \in Exports /\ pipe[x] \in Pipes /\ Nfd(s) \in Nat /\ Nfd(s) <= 3
      /\ kid[s] = "run" /\ call[s].pc \notin {"idle", "export", "helper"}
      /\ UNCHANGED <<tab, call, helper, arrived, foreign, excused>>
  <2>1. x \in Exports /\ pipe[x] \in Pipes /\ SpawnPart(s) /\ Nfd(s) \in Nat /\ Nfd(s) <= 3
    <3>1. SpawnTypeOK /\ SpawnPart(s) /\ Nfd(s) <= 3
      BY DEF SpawnIInv, SpawnPart, OwnNums
    <3>2. x \in Exports
      BY DEF Exports
    <3>3. pipe[x] \in Pipes
      BY <3>1, <3>2 DEF SpawnTypeOK
    <3> QED BY <3>1, <3>2, <3>3, SpawnTypes
  <2>2. kid[s] = "run" /\ UNCHANGED <<tab, call, helper, arrived, foreign, excused>>
    BY DEF KidWrites, KidExits
  <2> QED BY <2>1, <2>2 DEF SpawnPart, KidsOutput
<1>2. /\ pipe' \in [Exports -> Pipes] /\ (\A y \in Exports : y # x => pipe'[y] = pipe[y])
      /\ kid' \in [SpawnProcs -> {"none", "run", "gone"}] /\ holds' \in [SpawnProcs -> SUBSET PipeEnds]
      /\ wrote' \in [SpawnProcs -> Nat] /\ kid'[s] # "none" /\ holds'[s] \subseteq holds[s]
      /\ \A t \in SpawnProcs : t # s => kid'[t] = kid[t] /\ holds'[t] = holds[t] /\ wrote'[t] = wrote[t]
      /\ pipe'[x].r = pipe[x].r /\ pipe'[x].fd = pipe[x].fd /\ pipe'[x].linh = pipe[x].linh
      /\ wrote[s] \in Nat /\ pipe[x].data \in Nat
      /\ \/ wrote'[s] = wrote[s] + 1 /\ pipe'[x].data = pipe[x].data + 1 /\ End(x, "r") \in holds[s]
         \/ wrote'[s] = wrote[s] /\ pipe'[x] = pipe[x]
  <2>1. CASE KidWrites(s)
    <3> DEFINE q == [pipe[x] EXCEPT !.data = @ + 1]
    <3>1. q \in Pipes /\ q.data = pipe[x].data + 1 /\ q.r = pipe[x].r /\ q.fd = pipe[x].fd /\ q.linh = pipe[x].linh
          /\ pipe[x].data \in Nat
      BY <1>1 DEF Pipes
    <3>2. pipe' = [pipe EXCEPT ![x] = q] /\ End(x, "r") \in holds[s] /\ wrote' = [wrote EXCEPT ![s] = @ + 1]
          /\ kid' = kid /\ holds' = holds
      BY <2>1 DEF KidWrites
    <3> HIDE DEF q
    <3>3. pipe' \in [Exports -> Pipes] /\ pipe'[x] = q /\ (\A y \in Exports : y # x => pipe'[y] = pipe[y])
      BY <1>1, <3>1, <3>2 DEF SpawnIInv, SpawnTypeOK
    <3> HIDE DEF x
    <3> QED BY <1>1, <3>1, <3>2, <3>3 DEF SpawnIInv, SpawnTypeOK
  <2>2. CASE KidExits(s)
    <3>1. kid' = [kid EXCEPT ![s] = "gone"] /\ holds' = [holds EXCEPT ![s] = {}] /\ pipe' = pipe /\ wrote' = wrote
      BY <2>2 DEF KidExits
    <3>2. pipe[x].data \in Nat
      BY <1>1 DEF Pipes
    <3> HIDE DEF x
    <3> QED BY <1>1, <3>1, <3>2 DEF SpawnIInv, SpawnTypeOK
  <2> QED BY <2>1, <2>2
<1> HIDE DEF x
<1>3. \A t \in SpawnProcs, i \in 1..3 : <<t, i>> \in Exports /\ (<<t, i>> = x <=> t = s /\ i = 2)
  BY DEF Exports, x
<1>4. Nfd(s)' = Nfd(s) /\ Fds(s)' = Fds(s) /\ \A n : Over(n)' = Over(n)
  BY <1>1 DEF Nfd, Fds, Over
<1>5. SpawnTypeOK' /\ NoForeignClose'
  BY <1>1, <1>2 DEF SpawnIInv, SpawnTypeOK, NoForeignClose
<1>6. Moves(s)
  BY <1>1, <1>2, <1>3 DEF Moves
<1>7. OwnNums(s)'
  BY <1>1, <1>4 DEF SpawnPart, OwnNums
<1>8. \A i \in 1..3 : pipe'[<<s, i>>].r = pipe[<<s, i>>].r /\ pipe'[<<s, i>>].fd = pipe[<<s, i>>].fd
        /\ pipe'[<<s, i>>].linh = pipe[<<s, i>>].linh /\ (i # 2 => pipe'[<<s, i>>] = pipe[<<s, i>>])
  BY <1>2, <1>3
<1>9. End(x, "r") \in holds[s] => helper[x] # "none"
  BY <1>1 DEF SpawnPart, KidsOutput, x
<1>10. PipesHelped(s)'
  <2>1. ASSUME NEW i \in 1..3 PROVE HelpedAt(s, i)'
    <3>1. HelpedAt(s, i)
      BY <1>1 DEF SpawnPart, PipesHelped
    <3>2. ~ToExport(s, i) /\ ~InExport(s, i) /\ ~ToExport(s, i)' /\ ~InExport(s, i)'
      BY <1>1 DEF ToExport, InExport
    <3>3. helper[<<s, i>>] = "none" => pipe'[<<s, i>>] = pipe[<<s, i>>]
      BY <1>2, <1>3, <1>8, <1>9
    <3> QED BY <1>1, <1>4, <1>8, <3>1, <3>2, <3>3 DEF HelpedAt
  <2> QED BY <2>1 DEF PipesHelped
<1>11. KidsOutput(s)'
  <2>1. /\ End(<<s, 2>>, "r") \in holds[s] => helper[<<s, 2>>] # "none"
        /\ pipe[<<s, 1>>].data = 0 /\ pipe[<<s, 3>>].data = 0
        /\ ~excused => wrote[s] = arrived[s] + pipe[x].data
        /\ arrived[s] \in Nat
    BY <1>1 DEF SpawnPart, KidsOutput, x, SpawnIInv, SpawnTypeOK
  <2>2. pipe'[<<s, 1>>].data = 0 /\ pipe'[<<s, 3>>].data = 0
    BY <1>8, <2>1
  <2>3. ~excused => wrote'[s] = arrived[s] + pipe'[x].data
    BY <1>2, <2>1
  <2>4. End(<<s, 2>>, "r") \in holds'[s] => helper'[<<s, 2>>] # "none"
    BY <1>1, <1>2, <2>1
  <2> QED BY <1>1, <1>2, <2>2, <2>3, <2>4 DEF KidsOutput, x, End
<1>12. EndsDrained(s)'
  <2>1. ASSUME Drained(x) PROVE Drained(x)'
    <3>1. End(x, "r") \notin holds[s] /\ x \in Exports
      BY <1>1, <2>1 DEF Drained, Abandoned, Held
    <3>2. pipe'[x].data = pipe[x].data
      BY <1>2, <3>1
    <3> QED BY <1>2, <1>6, <2>1, <3>1, <3>2, DrainedStays
  <2> QED BY <1>1, <2>1 DEF SpawnPart, EndsDrained, x
<1>13. NotOverYet(s)'
  BY <1>1 DEF NotOverYet
<1>14. \A i \in Fds(s) : i \in 1..3
  BY <1>1 DEF Fds
<1>15. TwinsPlain(s)'
  BY <1>1, <1>4, <1>8, <1>14 DEF SpawnPart, TwinsPlain
<1>16. OverWhenClosed(s)'
  BY <1>1, <1>4 DEF SpawnPart, OverWhenClosed, OverAt, Over
<1>17. ClosesAllAlone(s)'
  BY <1>1 DEF SpawnPart, ClosesAllAlone
<1>18. ClosedIsOver(s)'
  BY <1>1, <1>4 DEF SpawnPart, ClosedIsOver, ClosedAt, Over
<1>19. EndSeen(s)'
  BY <1>1, <1>2, <1>8 DEF SpawnPart, EndSeen, End
<1> QED BY <1>5, <1>6, <1>7, <1>10, <1>11, <1>12, <1>13, <1>15, <1>16, <1>17, <1>18, <1>19, OneMoves DEF SpawnPart

\* A number that is free is used again: that it was over, remains.
LEMMA OtherOpenKeeps ==
    ASSUME SpawnIInv, NEW n \in FdNums, OtherOpen(n)
    PROVE  SpawnIInv'
<1>1. /\ tab \in [FdNums -> FdRecs] /\ tab[n] = [kind |-> "closed", gen |-> 0]
      /\ tab' = [tab EXCEPT ![n] = [kind |-> "file", gen |-> 1]]
      /\ UNCHANGED <<call, pipe, helper, kid, holds, wrote, arrived, foreign, excused>>
  BY DEF SpawnIInv, SpawnTypeOK, OtherOpen
<1>2. [kind |-> "file", gen |-> 1] \in FdRecs
  BY DEF FdRecs
<1>3. tab' \in [FdNums -> FdRecs] /\ tab'[n] = [kind |-> "file", gen |-> 1] /\ \A m \in FdNums : m # n => tab'[m] = tab[m]
  BY <1>1, <1>2
<1>4. \A m \in FdNums : (OverThen(m) <=> Over(m)) /\ (tab'[m].kind = "pipe" => tab[m].kind = "pipe")
  <2>1. tab[n].kind = "closed" /\ tab'[n].kind = "file" /\ tab'[n].gen = 1
    BY <1>1, <1>3
  <2>2. OverThen(n) /\ Over(n)
    BY <2>1 DEF Over, OverThen
  <2>3. ASSUME NEW m \in FdNums, m # n PROVE (OverThen(m) <=> Over(m)) /\ tab'[m].kind = tab[m].kind
    BY <1>3, <2>3 DEF Over, OverThen
  <2> QED BY <2>1, <2>2, <2>3
<1>5. SpawnTypeOK' /\ NoForeignClose'
  BY <1>1, <1>3 DEF SpawnIInv, SpawnTypeOK, NoForeignClose
<1>6. ASSUME NEW s \in SpawnProcs PROVE SpawnPart(s)'
  <2>1. SpawnPart(s) /\ Nfd(s) \in Nat /\ Nfd(s) <= 3 /\ Nfd(s)' = Nfd(s) /\ Fds(s)' = Fds(s)
    BY <1>1, SpawnTypes DEF SpawnIInv, SpawnPart, OwnNums, Nfd, Fds
  <2>2. \A i \in Fds(s) : i \in 1..3 /\ (call[s].fd[i] # -1 => call[s].fd[i] \in FdNums)
    <3>1. \A i \in Fds(s) : i \in 1..3 /\ (call[s].fd[i] # -1 => call[s].fd[i] \in NumsOf(s))
      BY <2>1 DEF SpawnPart, OwnNums, Fds
    <3> QED BY <3>1, NumsAreFds
  <2>3. OwnNums(s)'
    BY <1>1, <2>1 DEF SpawnPart, OwnNums
  <2>4. PipesHelped(s)'
    BY <1>1, <2>1 DEF SpawnPart, PipesHelped, HelpedAt, ToExport, InExport
  <2>5. KidsOutput(s)'
    BY <1>1, <2>1 DEF SpawnPart, KidsOutput
  <2>6. EndsDrained(s)'
    BY <1>1, <2>1 DEF SpawnPart, EndsDrained, Drained, Abandoned, Held
  <2>7. NotOverYet(s)'
    <3>1. \A m \in NumsOf(s) : OverThen(m) <=> Over(m)
      BY <1>4, NumsAreFds
    <3> QED BY <1>1, <2>1, <3>1 DEF SpawnPart, NotOverYet, Over, OverThen
  <2>8. TwinsPlain(s)'
    BY <1>1, <1>4, <2>1, <2>2 DEF SpawnPart, TwinsPlain
  <2>9. OverWhenClosed(s)'
    <3>1. ASSUME ~excused, NEW i \in Fds(s) PROVE OverAt(s, i)'
      <4>1. OverAt(s, i)
        BY <2>1, <3>1 DEF SpawnPart, OverWhenClosed
      <4>2. call[s].fd[i] # -1 => (OverThen(call[s].fd[i]) <=> Over(call[s].fd[i]))
        BY <1>4, <2>2
      <4> QED BY <1>1, <2>1, <4>1, <4>2 DEF OverAt, Over, OverThen
    <3> QED BY <1>1, <2>1, <3>1 DEF OverWhenClosed
  <2>10. ClosesAllAlone(s)'
    BY <1>1, <2>1 DEF SpawnPart, ClosesAllAlone
  <2>11. ClosedIsOver(s)'
    <3>1. ASSUME NEW i \in Fds(s) PROVE ClosedAt(s, i)'
      <4>1. ClosedAt(s, i)
        BY <2>1 DEF SpawnPart, ClosedIsOver
      <4>2. call[s].fd[i] # -1 => (OverThen(call[s].fd[i]) <=> Over(call[s].fd[i]))
        BY <1>4, <2>2
      <4>3. i \in call[s].used => call[s].fd[i] # -1
        BY <2>1, <2>2 DEF SpawnPart, PipesHelped, HelpedAt
      <4> QED BY <1>1, <2>1, <4>1, <4>2, <4>3 DEF ClosedAt, Over, OverThen
    <3> QED BY <2>1, <3>1 DEF ClosedIsOver
  <2>12. EndSeen(s)'
    BY <1>1, <2>1 DEF SpawnPart, EndSeen
  <2> QED BY <2>3, <2>4, <2>5, <2>6, <2>7, <2>8, <2>9, <2>10, <2>11, <2>12 DEF SpawnPart
<1> QED BY <1>5, <1>6 DEF SpawnIInv

\* The invariant holds before the first call.
LEMMA SpawnStarts ==
    ASSUME SpawnInit
    PROVE  SpawnIInv
<1> DEFINE c0 == [pc |-> "idle", fd |-> <<>>, used |-> {}, i |-> 1, from |-> "spawn"]
<1>1. /\ tab \in [FdNums -> [kind : {"file", "pipe", "null"}, gen : {0}]]
      /\ call = [s \in SpawnProcs |-> c0] /\ pipe = [x \in Exports |-> NoPipe]
      /\ helper = [x \in Exports |-> "none"]
      /\ kid = [s \in SpawnProcs |-> "none"] /\ holds = [s \in SpawnProcs |-> {}]
      /\ wrote = [s \in SpawnProcs |-> 0] /\ arrived = [s \in SpawnProcs |-> 0]
      /\ foreign = FALSE /\ excused = FALSE
  BY DEF SpawnInit
<1>2. c0 \in CallStates /\ c0.pc = "idle" /\ c0.fd = <<>> /\ c0.used = {} /\ c0.i = 1 /\ c0.from = "spawn"
  BY DEF CallStates, SpawnPcs
<1> HIDE DEF c0
<1>3. NoPipe \in Pipes /\ ~NoPipe.linh /\ ~NoPipe.r /\ ~NoPipe.fd /\ NoPipe.data = 0
  BY DEF NoPipe, Pipes
<1>4. \A n \in FdNums : tab[n] \in FdRecs /\ ~Over(n)
  <2>1. ASSUME NEW n \in FdNums PROVE tab[n] \in FdRecs /\ ~Over(n)
    <3>1. tab[n] \in [kind : {"file", "pipe", "null"}, gen : {0}]
      BY <1>1
    <3> QED BY <3>1 DEF FdRecs, Over
  <2> QED BY <2>1
<1>5. tab \in [FdNums -> FdRecs]
  BY <1>1, <1>4
<1>6. SpawnTypeOK
  BY <1>1, <1>2, <1>3, <1>5 DEF SpawnTypeOK
<1>7. NoForeignClose
  BY <1>1 DEF NoForeignClose
<1>8. ASSUME NEW s \in SpawnProcs PROVE SpawnPart(s)
  <2>1. /\ call[s] = c0 /\ kid[s] = "none" /\ holds[s] = {} /\ wrote[s] = 0 /\ arrived[s] = 0
        /\ \A i \in 1..3 : pipe[<<s, i>>] = NoPipe /\ helper[<<s, i>>] = "none"
    BY <1>1 DEF Exports
  <2>2. Nfd(s) = 0 /\ Fds(s) = {}
    BY <1>2, <2>1 DEF Nfd, Fds
  <2>3. OwnNums(s)
    BY <1>2, <2>1, <2>2 DEF OwnNums
  <2>4. PipesHelped(s)
    BY <1>2, <1>3, <2>1 DEF PipesHelped, HelpedAt, InExport
  <2>5. KidsOutput(s)
    <3>1. pipe[<<s, 1>>].data = 0 /\ pipe[<<s, 2>>].data = 0 /\ pipe[<<s, 3>>].data = 0
      BY <1>3, <2>1
    <3> QED BY <2>1, <3>1 DEF KidsOutput
  <2>6. EndsDrained(s)
    <3>1. helper[<<s, 2>>] = "none"
      BY <2>1
    <3> QED BY <3>1 DEF EndsDrained
  <2>7. NotOverYet(s)
    BY <1>4, NumsAreFds DEF NotOverYet
  <2>8. TwinsPlain(s) /\ OverWhenClosed(s) /\ ClosedIsOver(s)
    BY <2>2 DEF TwinsPlain, OverWhenClosed, ClosedIsOver
  <2>9. ClosesAllAlone(s)
    BY <1>2, <2>1 DEF ClosesAllAlone
  <2>10. EndSeen(s)
    BY <1>3, <2>1 DEF EndSeen
  <2> QED BY <2>3, <2>4, <2>5, <2>6, <2>7, <2>8, <2>9, <2>10 DEF SpawnPart
<1> QED BY <1>6, <1>7, <1>8 DEF SpawnIInv

\* Every step keeps it.
LEMMA SpawnStepKeeps ==
    ASSUME SpawnIInv, SpawnNext
    PROVE  SpawnIInv'
<1>1. ASSUME NEW s \in SpawnProcs, Begin(s) \/ SpawnerStep(s) \/ KidWrites(s) \/ KidExits(s) PROVE SpawnIInv'
  BY <1>1, BeginKeeps, StepsKeep, ExportPipeKeeps, ExportHelperKeeps, CreateProcessKeeps, CloseHandlesKeeps,
     CloseFdKeeps, WinexecveKeeps, KidKeeps DEF SpawnerStep
<1>2. ASSUME NEW x \in Exports, HelperStep(x) \/ TxEnds(x) PROVE SpawnIInv'
  BY <1>2, RxDataKeeps, HelperEnds, HelperClosesKeeps DEF HelperStep
<1>3. ASSUME NEW n \in FdNums, OtherOpen(n) PROVE SpawnIInv'
  BY <1>3, OtherOpenKeeps
<1> QED BY <1>1, <1>2, <1>3 DEF SpawnNext

\* What is unchanged keeps it as well.
LEMMA SpawnStutters ==
    ASSUME SpawnIInv, UNCHANGED spvars
    PROVE  SpawnIInv'
<1>1. UNCHANGED <<tab, call, pipe, helper, kid, holds, wrote, arrived, foreign, excused>>
  BY DEF spvars
<1>2. SpawnTypeOK' /\ NoForeignClose'
  BY <1>1 DEF SpawnIInv, SpawnTypeOK, NoForeignClose
<1>3. ASSUME NEW s \in SpawnProcs PROVE SpawnPart(s)'
  <2>1. SpawnPart(s) /\ Nfd(s)' = Nfd(s) /\ Fds(s)' = Fds(s)
    BY <1>1 DEF SpawnIInv, Nfd, Fds
  <2>2. OwnNums(s)' /\ NotOverYet(s)'
    BY <1>1, <2>1 DEF SpawnPart, OwnNums, NotOverYet, Over
  <2>3. PipesHelped(s)'
    BY <1>1, <2>1 DEF SpawnPart, PipesHelped, HelpedAt, ToExport, InExport
  <2>4. KidsOutput(s)'
    BY <1>1, <2>1 DEF SpawnPart, KidsOutput
  <2>5. EndsDrained(s)' /\ EndSeen(s)'
    BY <1>1, <2>1 DEF SpawnPart, EndsDrained, Drained, Abandoned, Held, EndSeen
  <2>6. TwinsPlain(s)' /\ ClosesAllAlone(s)'
    BY <1>1, <2>1 DEF SpawnPart, TwinsPlain, ClosesAllAlone
  <2>7. OverWhenClosed(s)'
    BY <1>1, <2>1 DEF SpawnPart, OverWhenClosed, OverAt, Over
  <2>8. ClosedIsOver(s)'
    BY <1>1, <2>1 DEF SpawnPart, ClosedIsOver, ClosedAt, Over
  <2> QED BY <2>2, <2>3, <2>4, <2>5, <2>6, <2>7, <2>8 DEF SpawnPart
<1> QED BY <1>2, <1>3 DEF SpawnIInv

\* winspawne(), its helpers and the processes it starts keep who closes what
\* (the inductive invariant, for all procs, calls and numbers).
THEOREM SpawnInvariance == SpawnSpec => []SpawnIInv
<1>1. SpawnInit => SpawnIInv
  BY SpawnStarts
<1>2. SpawnIInv /\ [SpawnNext]_spvars => SpawnIInv'
  BY SpawnStepKeeps, SpawnStutters
<1> QED BY <1>1, <1>2, PTL DEF SpawnSpec

\* Every descriptor given to winspawne() and every end of a pipe is closed by
\* one of caller, helper and child, after its last use and not a second time.
THEOREM SpawnCorrect == SpawnSpec => []EndsClosed
<1>1. ASSUME SpawnIInv PROVE EndsClosed
  <2>1. NoForeignClose
    BY <1>1 DEF SpawnIInv
  <2>2. NothingLeftOpen
    <3> SUFFICES ASSUME NEW s \in SpawnProcs, call[s].pc = "ok", \A i \in call[s].used : helper[<<s, i>>] = "done",
                        NEW m \in Fds(s), call[s].fd[m] # -1
                 PROVE  Over(call[s].fd[m])
      BY DEF NothingLeftOpen, Over, Fds
    <3>1. SpawnPart(s) /\ Nfd(s) \in Nat /\ Fds(s) \subseteq Nat
      BY <1>1, SpawnTypes DEF SpawnIInv, Fds
    <3> DEFINE Alike == {i \in Fds(s) : call[s].fd[i] = call[s].fd[m]}
    <3>2. Alike \subseteq Nat /\ m \in Alike
      BY <3>1
    <3>3. PICK i \in Alike : \A j \in Alike : i <= j
      <4> HIDE DEF Alike
      <4> QED BY <3>2, LeastOf
    <3>4. \A j \in Fds(s) : j < i => call[s].fd[j] # call[s].fd[i]
      BY <3>1, <3>3
    <3>5. ClosedAt(s, i)
      BY <3>1, <3>3 DEF SpawnPart, ClosedIsOver
    <3>6. Over(call[s].fd[i])
      <4>1. CASE i \in call[s].used
        BY <3>5, <4>1 DEF ClosedAt
      <4>2. CASE i \notin call[s].used
        BY <3>3, <3>4, <3>5, <4>2 DEF ClosedAt
      <4> QED BY <4>1, <4>2
    <3> QED BY <3>3, <3>6
  <2>3. OutputArrives
    <3> SUFFICES ASSUME NEW s \in SpawnProcs, helper[<<s, 2>>] = "done", ~excused
                 PROVE  arrived[s] = wrote[s]
      BY DEF OutputArrives
    <3>1. pipe[<<s, 2>>].data = 0 /\ wrote[s] = arrived[s] + pipe[<<s, 2>>].data /\ arrived[s] \in Nat
      BY <1>1 DEF SpawnIInv, SpawnTypeOK, SpawnPart, EndsDrained, Drained, KidsOutput
    <3> QED BY <3>1
  <2>4. EndIsSeen
    BY <1>1 DEF SpawnIInv, SpawnPart, EndSeen, EndIsSeen
  <2> QED BY <2>1, <2>2, <2>3, <2>4 DEF EndsClosed
<1> QED BY <1>1, SpawnInvariance, PTL

=============================================================================
