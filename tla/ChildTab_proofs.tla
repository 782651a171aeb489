-------------------------- MODULE ChildTab_proofs --------------------------
(***************************************************************************)
(* Proofs about ChildTab, for a table of any size, any number of          *)
(* processes and any number of threads of which one at most starts        *)
(* processes and one at most waits for them: the same one, or two that    *)
(* are in the table at a time.  Two spawners may choose the same slot,    *)
(* and two waiters may wait for the same handle; await.c does not protect *)
(* its callers from each other.                                           *)
(***************************************************************************)
EXTENDS ChildTab, TLAPS

\* One thread at most calls winspawne(), and one at most the await calls.
OneEach == /\ \A s, t \in Spawners : s = t
           /\ \A s, t \in Waiters : s = t

-----------------------------------------------------------------------------
(* The inductive invariant.                                               *)

Adding == {"add", "put"}                      \* within winaddchild()
AwaitingOne == {"find4", "take4", "wait4"}    \* within wait4()

\* Only spawners are in winaddchild(), only waiters in an await call.
Roles == \A t \in Threads : /\ pc[t] \in Adding => t \in Spawners
                            /\ pc[t] \in PCs \ ({"idle"} \cup Adding) => t \in Waiters

\* The table, the entered and the reported children are started processes.
KnownStarted ==
    /\ \A p \in added \cup reported : proc[p] # "none"
    /\ \A i \in Slots : child[i] # Nil => child[i] \in added

\* Who is about to enter a child has found a free slot for it; the child is
\* not known to anybody yet.
AddsNew == \A t \in Threads : pc[t] \in Adding =>
    /\ cpid[t] \in Pids /\ proc[cpid[t]] # "none"
    /\ cpid[t] \notin added /\ cpid[t] \notin reported
    /\ pc[t] = "put" => idx[t] < Nchild /\ child[idx[t]] = Nil

\* wait3() has the handle of an exited child, and when it has found the slot,
\* the child is still there.
FindsExited == \A t \in Threads : pc[t] \in {"find", "take"} =>
    /\ hdl[t] \in Pids /\ proc[hdl[t]] = "exited" /\ cpid[t] = Nil
    /\ pc[t] = "take" => idx[t] < Nchild /\ child[idx[t]] = hdl[t]

\* wait4() waits for a process that is not being entered any more; it is not
\* in the slots that have been searched, or in the one that was found.
FindsThePid == \A t \in Threads : pc[t] \in AwaitingOne =>
    /\ cpid[t] \in Pids /\ proc[cpid[t]] # "none"
    /\ \A s \in Threads : pc[s] \in Adding => cpid[s] # cpid[t]
    /\ pc[t] = "find4" => \A j \in Slots : j < idx[t] => child[j] # cpid[t]
    /\ pc[t] = "take4" => idx[t] < Nchild /\ child[idx[t]] = cpid[t]
    /\ pc[t] = "wait4" => hdl[t] = cpid[t]

\* What a waiter has in hand is out of the table and will not come back.
InHandIsOut == \A t \in Threads : pc[t] \in {"wait4", "reap"} /\ cpid[t] # Nil =>
    /\ proc[cpid[t]] # "none"
    /\ \A i \in Slots : child[i] # cpid[t]
    /\ \A s \in Threads : pc[s] \in Adding => cpid[s] # cpid[t]

ChildIInv == /\ TypeOK /\ Roles /\ KnownStarted /\ AddsNew /\ FindsExited /\ FindsThePid
             /\ InHandIsOut /\ NoChildLost /\ TrueReport /\ EnteredOnce

-----------------------------------------------------------------------------
USE RolesAssumption, NchildAssumption, PidAssumption
    DEF Slots, NoHandles, Adding, AwaitingOne, PCs

\* The initial states satisfy the invariant.
LEMMA ChildInitInv == Init => ChildIInv
<1> SUFFICES ASSUME Init PROVE ChildIInv
  OBVIOUS
<1>1. TypeOK
  BY DEF Init, TypeOK
<1>2. Roles /\ KnownStarted /\ AddsNew /\ FindsExited /\ FindsThePid /\ InHandIsOut
  BY DEF Init, Roles, KnownStarted, AddsNew, FindsExited, FindsThePid, InHandIsOut
<1>3. NoChildLost /\ TrueReport /\ EnteredOnce
  BY DEF Init, NoChildLost, TrueReport, EnteredOnce
<1> QED BY <1>1, <1>2, <1>3 DEF ChildIInv

\* Every step keeps it.
LEMMA ChildStepInv == OneEach /\ ChildIInv /\ [Next]_vars => ChildIInv'
<1> SUFFICES ASSUME OneEach, ChildIInv, [Next]_vars PROVE ChildIInv'
  OBVIOUS
<1> USE DEF OneEach, ChildIInv, TypeOK, Roles, KnownStarted, AddsNew, FindsExited, FindsThePid,
            InHandIsOut, TrueReport, EnteredOnce, InHand, Goto, Locals, Return, Advance, locals
<1>1. ASSUME NEW t \in Threads, NEW p \in Pids, Spawn(t, p) PROVE ChildIInv'
  <2>1. TypeOK'
    BY <1>1 DEF Spawn
  <2>2. Roles'
    BY <1>1 DEF Spawn
  <2>3. KnownStarted'
    BY <1>1 DEF Spawn
  <2>4. AddsNew'
    BY <1>1 DEF Spawn
  <2>5. FindsExited'
    BY <1>1 DEF Spawn
  <2>6. FindsThePid'
    BY <1>1 DEF Spawn
  <2>7. InHandIsOut'
    BY <1>1 DEF Spawn
  <2>8. NoChildLost'
    BY <1>1 DEF Spawn, NoChildLost
  <2>9. TrueReport'
    BY <1>1 DEF Spawn
  <2>10. EnteredOnce'
    BY <1>1 DEF Spawn
  <2> HIDE DEF TypeOK, Roles, KnownStarted, AddsNew, FindsExited, FindsThePid, InHandIsOut, TrueReport, EnteredOnce
  <2> QED BY <2>1, <2>2, <2>3, <2>4, <2>5, <2>6, <2>7, <2>8, <2>9, <2>10
<1>2. ASSUME NEW t \in Threads, NEW p \in Pids, Awaitfor(t, p) PROVE ChildIInv'
  <2>1. TypeOK'
    BY <1>2 DEF Awaitfor, Started
  <2>2. Roles'
    BY <1>2 DEF Awaitfor, Started
  <2>3. KnownStarted'
    BY <1>2 DEF Awaitfor, Started
  <2>4. AddsNew'
    BY <1>2 DEF Awaitfor, Started
  <2>5. FindsExited'
    BY <1>2 DEF Awaitfor, Started
  <2>6. FindsThePid'
    BY <1>2 DEF Awaitfor, Started
  <2>7. InHandIsOut'
    BY <1>2 DEF Awaitfor, Started
  <2>8. NoChildLost'
    BY <1>2 DEF Awaitfor, Started, NoChildLost
  <2>9. TrueReport'
    BY <1>2 DEF Awaitfor, Started
  <2>10. EnteredOnce'
    BY <1>2 DEF Awaitfor, Started
  <2> HIDE DEF TypeOK, Roles, KnownStarted, AddsNew, FindsExited, FindsThePid, InHandIsOut, TrueReport, EnteredOnce
  <2> QED BY <2>1, <2>2, <2>3, <2>4, <2>5, <2>6, <2>7, <2>8, <2>9, <2>10
<1>3. ASSUME NEW p \in Pids, Exit(p) PROVE ChildIInv'
  <2>1. TypeOK'
    BY <1>3 DEF Exit
  <2>2. Roles'
    BY <1>3 DEF Exit
  <2>3. KnownStarted'
    BY <1>3 DEF Exit
  <2>4. AddsNew'
    BY <1>3 DEF Exit
  <2>5. FindsExited'
    BY <1>3 DEF Exit
  <2>6. FindsThePid'
    BY <1>3 DEF Exit
  <2>7. InHandIsOut'
    BY <1>3 DEF Exit
  <2>8. NoChildLost'
    BY <1>3 DEF Exit, NoChildLost
  <2>9. TrueReport'
    BY <1>3 DEF Exit
  <2>10. EnteredOnce'
    BY <1>3 DEF Exit
  <2> HIDE DEF TypeOK, Roles, KnownStarted, AddsNew, FindsExited, FindsThePid, InHandIsOut, TrueReport, EnteredOnce
  <2> QED BY <2>1, <2>2, <2>3, <2>4, <2>5, <2>6, <2>7, <2>8, <2>9, <2>10
<1>4. ASSUME NEW t \in Threads, AddLook(t) PROVE ChildIInv'
  <2>1. TypeOK'
    <3>1. CASE Advance(t) /\ idx[t] < Nchild
      BY <1>4, <3>1 DEF AddLook, NextSlot
    <3>2. CASE Return(t)
      BY <1>4, <3>2 DEF AddLook
    <3>3. CASE Goto(t, "put") /\ UNCHANGED locals
      BY <1>4, <3>3 DEF AddLook
    <3> QED BY <1>4, <3>1, <3>2, <3>3 DEF AddLook
  <2>2. Roles'
    BY <1>4 DEF AddLook, Free, NextSlot
  <2>3. KnownStarted'
    BY <1>4 DEF AddLook, Free, NextSlot
  <2>4. AddsNew'
    BY <1>4 DEF AddLook, Free, NextSlot
  <2>5. FindsExited'
    BY <1>4 DEF AddLook, Free, NextSlot
  <2>6. FindsThePid'
    BY <1>4 DEF AddLook, Free, NextSlot
  <2>7. InHandIsOut'
    BY <1>4 DEF AddLook, Free, NextSlot
  <2>8. NoChildLost'
    <3>1. \A s \in Threads, p \in Pids : InHand(s, p) => InHand(s, p)'
      BY <1>4 DEF AddLook
    <3>2. child' = child /\ added' = added /\ reported' = reported
      BY <1>4 DEF AddLook
    <3> HIDE DEF InHand
    <3> QED BY <3>1, <3>2 DEF NoChildLost
  <2>9. TrueReport'
    BY <1>4 DEF AddLook, Free, NextSlot
  <2>10. EnteredOnce'
    BY <1>4 DEF AddLook, Free, NextSlot
  <2> HIDE DEF TypeOK, Roles, KnownStarted, AddsNew, FindsExited, FindsThePid, InHandIsOut, TrueReport, EnteredOnce
  <2> QED BY <2>1, <2>2, <2>3, <2>4, <2>5, <2>6, <2>7, <2>8, <2>9, <2>10
<1>5. ASSUME NEW t \in Threads, AddPut(t) PROVE ChildIInv'
  <2>1. TypeOK'
    BY <1>5 DEF AddPut
  <2>2. Roles'
    BY <1>5 DEF AddPut
  <2>3. KnownStarted'
    BY <1>5 DEF AddPut
  <2>4. AddsNew'
    BY <1>5 DEF AddPut
  <2>5. FindsExited'
    BY <1>5 DEF AddPut
  <2>6. FindsThePid'
    BY <1>5 DEF AddPut
  <2>7. InHandIsOut'
    BY <1>5 DEF AddPut
  <2>8. NoChildLost'
    BY SMTT(30), <1>5 DEF AddPut, NoChildLost
  <2>9. TrueReport'
    BY <1>5 DEF AddPut
  <2>10. EnteredOnce'
    BY <1>5 DEF AddPut
  <2> HIDE DEF TypeOK, Roles, KnownStarted, AddsNew, FindsExited, FindsThePid, InHandIsOut, TrueReport, EnteredOnce
  <2> QED BY <2>1, <2>2, <2>3, <2>4, <2>5, <2>6, <2>7, <2>8, <2>9, <2>10
<1>6. ASSUME NEW t \in Threads, Await(t) PROVE ChildIInv'
  <2>1. TypeOK'
    <3>1. CASE UNCHANGED <<pc, locals>>
      BY <1>6, <3>1 DEF Await
    <3>2. CASE Locals(t, 0, Nil, Nil, child) /\ Goto(t, "wait")
      BY <1>6, <3>2 DEF Await
    <3> QED BY <1>6, <3>1, <3>2 DEF Await, Handles
  <2>2. Roles'
    BY <1>6 DEF Await, Handles
  <2>3. KnownStarted'
    BY <1>6 DEF Await, Handles
  <2>4. AddsNew'
    BY <1>6 DEF Await, Handles
  <2>5. FindsExited'
    BY <1>6 DEF Await, Handles
  <2>6. FindsThePid'
    BY <1>6 DEF Await, Handles
  <2>7. InHandIsOut'
    BY <1>6 DEF Await, Handles
  <2>8. NoChildLost'
    BY <1>6 DEF Await, Handles, NoChildLost
  <2>9. TrueReport'
    BY <1>6 DEF Await, Handles
  <2>10. EnteredOnce'
    BY <1>6 DEF Await, Handles
  <2> HIDE DEF TypeOK, Roles, KnownStarted, AddsNew, FindsExited, FindsThePid, InHandIsOut, TrueReport, EnteredOnce
  <2> QED BY <2>1, <2>2, <2>3, <2>4, <2>5, <2>6, <2>7, <2>8, <2>9, <2>10
<1>7. ASSUME NEW t \in Threads, WaitMany(t) PROVE ChildIInv'
  <2>1. TypeOK'
    BY <1>7 DEF WaitMany, Signalled
  <2>2. Roles'
    BY <1>7 DEF WaitMany, Signalled
  <2>3. KnownStarted'
    BY <1>7 DEF WaitMany, Signalled
  <2>4. AddsNew'
    BY <1>7 DEF WaitMany, Signalled
  <2>5. FindsExited'
    BY <1>7 DEF WaitMany, Signalled
  <2>6. FindsThePid'
    BY <1>7 DEF WaitMany, Signalled
  <2>7. InHandIsOut'
    BY <1>7 DEF WaitMany, Signalled
  <2>8. NoChildLost'
    BY <1>7 DEF WaitMany, Signalled, NoChildLost
  <2>9. TrueReport'
    BY <1>7 DEF WaitMany, Signalled
  <2>10. EnteredOnce'
    BY <1>7 DEF WaitMany, Signalled
  <2> HIDE DEF TypeOK, Roles, KnownStarted, AddsNew, FindsExited, FindsThePid, InHandIsOut, TrueReport, EnteredOnce
  <2> QED BY <2>1, <2>2, <2>3, <2>4, <2>5, <2>6, <2>7, <2>8, <2>9, <2>10
<1>8. ASSUME NEW t \in Threads, Timeout(t) PROVE ChildIInv'
  <2>1. TypeOK'
    BY <1>8 DEF Timeout, Signalled
  <2>2. Roles'
    BY <1>8 DEF Timeout, Signalled
  <2>3. KnownStarted'
    BY <1>8 DEF Timeout, Signalled
  <2>4. AddsNew'
    BY <1>8 DEF Timeout, Signalled
  <2>5. FindsExited'
    BY <1>8 DEF Timeout, Signalled
  <2>6. FindsThePid'
    BY <1>8 DEF Timeout, Signalled
  <2>7. InHandIsOut'
    BY <1>8 DEF Timeout, Signalled
  <2>8. NoChildLost'
    BY <1>8 DEF Timeout, Signalled, NoChildLost
  <2>9. TrueReport'
    BY <1>8 DEF Timeout, Signalled
  <2>10. EnteredOnce'
    BY <1>8 DEF Timeout, Signalled
  <2> HIDE DEF TypeOK, Roles, KnownStarted, AddsNew, FindsExited, FindsThePid, InHandIsOut, TrueReport, EnteredOnce
  <2> QED BY <2>1, <2>2, <2>3, <2>4, <2>5, <2>6, <2>7, <2>8, <2>9, <2>10
<1>9. ASSUME NEW t \in Threads, FindLook(t) PROVE ChildIInv'
  <2>1. TypeOK'
    <3>1. CASE Advance(t) /\ idx[t] < Nchild
      BY <1>9, <3>1 DEF FindLook, NextSlot
    <3>2. CASE (Goto(t, "reap") \/ Goto(t, "take")) /\ UNCHANGED locals
      BY <1>9, <3>2 DEF FindLook
    <3> QED BY <1>9, <3>1, <3>2 DEF FindLook
  <2>2. Roles'
    BY <1>9 DEF FindLook, Matches, NextSlot
  <2>3. KnownStarted'
    BY <1>9 DEF FindLook, Matches, NextSlot
  <2>4. AddsNew'
    BY <1>9 DEF FindLook, Matches, NextSlot
  <2>5. FindsExited'
    BY <1>9 DEF FindLook, Matches, NextSlot
  <2>6. FindsThePid'
    BY <1>9 DEF FindLook, Matches, NextSlot
  <2>7. InHandIsOut'
    BY <1>9 DEF FindLook, Matches, NextSlot
  <2>8. NoChildLost'
    <3>1. \A s \in Threads, p \in Pids : InHand(s, p) => InHand(s, p)'
      BY <1>9 DEF FindLook
    <3>2. child' = child /\ added' = added /\ reported' = reported
      BY <1>9 DEF FindLook
    <3> HIDE DEF InHand
    <3> QED BY <3>1, <3>2 DEF NoChildLost
  <2>9. TrueReport'
    BY <1>9 DEF FindLook, Matches, NextSlot
  <2>10. EnteredOnce'
    BY <1>9 DEF FindLook, Matches, NextSlot
  <2> HIDE DEF TypeOK, Roles, KnownStarted, AddsNew, FindsExited, FindsThePid, InHandIsOut, TrueReport, EnteredOnce
  <2> QED BY <2>1, <2>2, <2>3, <2>4, <2>5, <2>6, <2>7, <2>8, <2>9, <2>10
<1>10. ASSUME NEW t \in Threads, FindTake(t) PROVE ChildIInv'
  <2>1. TypeOK'
    BY <1>10 DEF FindTake
  <2>2. Roles'
    BY <1>10 DEF FindTake
  <2>3. KnownStarted'
    BY <1>10 DEF FindTake
  <2>4. AddsNew'
    BY <1>10 DEF FindTake
  <2>5. FindsExited'
    BY SMTT(30), <1>10 DEF FindTake
  <2>6. FindsThePid'
    <3>1. t \in Waiters /\ pc'[t] = "reap"
      BY <1>10 DEF FindTake
    <3>2. ASSUME NEW s \in Threads, s # t PROVE pc'[s] \notin AwaitingOne
      <4>1. s \notin Waiters /\ pc'[s] = pc[s]
        BY <1>10, <3>1, <3>2 DEF FindTake
      <4> QED BY <4>1
    <3> QED BY <3>1, <3>2
  <2>7. InHandIsOut'
    BY <1>10 DEF FindTake
  <2>8. NoChildLost'
    <3>1. \A s \in Threads, p \in Pids : InHand(s, p) => InHand(s, p)'
      BY <1>10 DEF FindTake
    <3>2. \A p \in Pids : child[idx[t]] = p => InHand(t, p)'
      BY <1>10 DEF FindTake
    <3>3. \A i \in Slots : i # idx[t] => child'[i] = child[i]
      BY <1>10 DEF FindTake
    <3>4. added' = added /\ reported' = reported
      BY <1>10 DEF FindTake
    <3> HIDE DEF InHand
    <3>5. ASSUME NEW p \in added \ reported
          PROVE  (\E i \in Slots : child'[i] = p) \/ (\E s \in Threads : InHand(s, p)')
      <4>1. p \in Pids
        OBVIOUS
      <4>2. CASE \E i \in Slots : child[i] = p
        <5>1. PICK i \in Slots : child[i] = p
          BY <4>2
        <5>2. i # idx[t] => child'[i] = p
          BY <3>3, <5>1
        <5>3. i = idx[t] => InHand(t, p)'
          BY <3>2, <4>1, <5>1
        <5> QED BY <5>2, <5>3
      <4>3. CASE \E s \in Threads : InHand(s, p)
        BY <3>1, <4>1, <4>3
      <4> QED BY <4>2, <4>3 DEF NoChildLost
    <3> QED BY <3>4, <3>5 DEF NoChildLost
  <2>9. TrueReport'
    BY <1>10 DEF FindTake
  <2>10. EnteredOnce'
    BY <1>10 DEF FindTake
  <2> HIDE DEF TypeOK, Roles, KnownStarted, AddsNew, FindsExited, FindsThePid, InHandIsOut, TrueReport, EnteredOnce
  <2> QED BY <2>1, <2>2, <2>3, <2>4, <2>5, <2>6, <2>7, <2>8, <2>9, <2>10
<1>11. ASSUME NEW t \in Threads, Find4Look(t) PROVE ChildIInv'
  <2>1. TypeOK'
    <3>1. CASE Advance(t) /\ idx[t] < Nchild
      BY <1>11, <3>1 DEF Find4Look, NextSlot
    <3>2. CASE Return(t)
      BY <1>11, <3>2 DEF Find4Look
    <3>4. CASE Goto(t, "take4") /\ UNCHANGED locals
      BY <1>11, <3>4 DEF Find4Look
    <3>3. CASE Locals(t, Nchild, cpid[t], cpid[t], NoHandles) /\ Goto(t, "wait4")
      BY <1>11, <3>3 DEF Find4Look
    <3> QED BY <1>11, <3>1, <3>2, <3>3, <3>4 DEF Find4Look
  <2>2. Roles'
    BY <1>11 DEF Find4Look, Matches, NextSlot, OpenProcess
  <2>3. KnownStarted'
    BY <1>11 DEF Find4Look, Matches, NextSlot, OpenProcess
  <2>4. AddsNew'
    <3>1. pc'[t] \notin Adding /\ UNCHANGED <<child, proc, added, reported>>
      BY <1>11 DEF Find4Look
    <3>2. \A s \in Threads : s # t => pc'[s] = pc[s] /\ cpid'[s] = cpid[s] /\ idx'[s] = idx[s]
      BY <1>11 DEF Find4Look
    <3> QED BY <3>1, <3>2
  <2>5. FindsExited'
    BY <1>11 DEF Find4Look, Matches, NextSlot, OpenProcess
  <2>6. FindsThePid'
    BY <1>11 DEF Find4Look, Matches, NextSlot, OpenProcess
  <2>7. InHandIsOut'
    BY <1>11 DEF Find4Look, Matches, NextSlot, OpenProcess
  <2>8. NoChildLost'
    <3>1. \A s \in Threads, p \in Pids : InHand(s, p) => InHand(s, p)'
      BY <1>11 DEF Find4Look
    <3>2. child' = child /\ added' = added /\ reported' = reported
      BY <1>11 DEF Find4Look
    <3> HIDE DEF InHand
    <3> QED BY <3>1, <3>2 DEF NoChildLost
  <2>9. TrueReport'
    BY <1>11 DEF Find4Look, Matches, NextSlot, OpenProcess
  <2>10. EnteredOnce'
    BY <1>11 DEF Find4Look, Matches, NextSlot, OpenProcess
  <2> HIDE DEF TypeOK, Roles, KnownStarted, AddsNew, FindsExited, FindsThePid, InHandIsOut, TrueReport, EnteredOnce
  <2> QED BY <2>1, <2>2, <2>3, <2>4, <2>5, <2>6, <2>7, <2>8, <2>9, <2>10
<1>12. ASSUME NEW t \in Threads, Find4Take(t) PROVE ChildIInv'
  <2>1. TypeOK'
    BY <1>12 DEF Find4Take
  <2>2. Roles'
    BY <1>12 DEF Find4Take
  <2>3. KnownStarted'
    BY <1>12 DEF Find4Take
  <2>4. AddsNew'
    BY <1>12 DEF Find4Take
  <2>5. FindsExited'
    <3>1. \A s \in Threads : pc'[s] \notin {"find", "take"}
      BY <1>12 DEF Find4Take
    <3> QED BY <3>1
  <2>6. FindsThePid'
    <3>1. child[idx[t]] = cpid[t] /\ cpid[t] # Nil
      BY <1>12 DEF Find4Take
    <3>2. pc'[t] = "wait4" /\ hdl'[t] = cpid[t] /\ cpid' = cpid
      BY <1>12, <3>1 DEF Find4Take
    <3>3. \A s \in Threads : s # t => pc'[s] = pc[s] /\ pc[s] \notin AwaitingOne
      BY <1>12 DEF Find4Take
    <3> QED BY <1>12, <3>1, <3>2, <3>3 DEF Find4Take
  <2>7. InHandIsOut'
    BY <1>12 DEF Find4Take
  <2>8. NoChildLost'
    <3>1. \A s \in Threads, p \in Pids : InHand(s, p) => InHand(s, p)'
      BY <1>12 DEF Find4Take
    <3>2. \A p \in Pids : child[idx[t]] = p => InHand(t, p)'
      BY <1>12 DEF Find4Take
    <3>3. \A i \in Slots : i # idx[t] => child'[i] = child[i]
      BY <1>12 DEF Find4Take
    <3>4. added' = added /\ reported' = reported
      BY <1>12 DEF Find4Take
    <3> HIDE DEF InHand
    <3>5. ASSUME NEW p \in added \ reported
          PROVE  (\E i \in Slots : child'[i] = p) \/ (\E s \in Threads : InHand(s, p)')
      <4>1. p \in Pids
        OBVIOUS
      <4>2. CASE \E i \in Slots : child[i] = p
        <5>1. PICK i \in Slots : child[i] = p
          BY <4>2
        <5>2. i # idx[t] => child'[i] = p
          BY <3>3, <5>1
        <5>3. i = idx[t] => InHand(t, p)'
          BY <3>2, <4>1, <5>1
        <5> QED BY <5>2, <5>3
      <4>3. CASE \E s \in Threads : InHand(s, p)
        BY <3>1, <4>1, <4>3
      <4> QED BY <4>2, <4>3 DEF NoChildLost
    <3> QED BY <3>4, <3>5 DEF NoChildLost
  <2>9. TrueReport'
    BY <1>12 DEF Find4Take
  <2>10. EnteredOnce'
    BY <1>12 DEF Find4Take
  <2> HIDE DEF TypeOK, Roles, KnownStarted, AddsNew, FindsExited, FindsThePid, InHandIsOut, TrueReport, EnteredOnce
  <2> QED BY <2>1, <2>2, <2>3, <2>4, <2>5, <2>6, <2>7, <2>8, <2>9, <2>10
<1>13. ASSUME NEW t \in Threads, WaitOne(t) PROVE ChildIInv'
  <2>1. TypeOK'
    BY <1>13 DEF WaitOne
  <2>2. Roles'
    BY <1>13 DEF WaitOne
  <2>3. KnownStarted'
    BY <1>13 DEF WaitOne
  <2>4. AddsNew'
    BY <1>13 DEF WaitOne
  <2>5. FindsExited'
    BY <1>13 DEF WaitOne
  <2>6. FindsThePid'
    BY <1>13 DEF WaitOne
  <2>7. InHandIsOut'
    BY <1>13 DEF WaitOne
  <2>8. NoChildLost'
    BY <1>13 DEF WaitOne, NoChildLost
  <2>9. TrueReport'
    BY <1>13 DEF WaitOne
  <2>10. EnteredOnce'
    BY <1>13 DEF WaitOne
  <2> HIDE DEF TypeOK, Roles, KnownStarted, AddsNew, FindsExited, FindsThePid, InHandIsOut, TrueReport, EnteredOnce
  <2> QED BY <2>1, <2>2, <2>3, <2>4, <2>5, <2>6, <2>7, <2>8, <2>9, <2>10
<1>14. ASSUME NEW t \in Threads, Reap(t) PROVE ChildIInv'
  <2>1. TypeOK'
    BY <1>14 DEF Reap
  <2>2. Roles'
    BY <1>14 DEF Reap
  <2>3. KnownStarted'
    BY <1>14 DEF Reap
  <2>4. AddsNew'
    BY <1>14 DEF Reap
  <2>5. FindsExited'
    BY <1>14 DEF Reap
  <2>6. FindsThePid'
    BY <1>14 DEF Reap
  <2>7. InHandIsOut'
    BY <1>14 DEF Reap
  <2>8. NoChildLost'
    BY <1>14 DEF Reap, NoChildLost
  <2>9. TrueReport'
    BY <1>14 DEF Reap
  <2>10. EnteredOnce'
    BY <1>14 DEF Reap
  <2> HIDE DEF TypeOK, Roles, KnownStarted, AddsNew, FindsExited, FindsThePid, InHandIsOut, TrueReport, EnteredOnce
  <2> QED BY <2>1, <2>2, <2>3, <2>4, <2>5, <2>6, <2>7, <2>8, <2>9, <2>10
<1>15. CASE UNCHANGED vars
  BY <1>15 DEF vars, NoChildLost
<1> QED BY <1>1, <1>2, <1>3, <1>4, <1>5, <1>6, <1>7, <1>8, <1>9, <1>10, <1>11, <1>12, <1>13, <1>14, <1>15
        DEF Next, Adds, Collects

-----------------------------------------------------------------------------
(* The theorems.                                                          *)

\* The inductive invariant holds in every state of every behaviour.
THEOREM ChildInvariance == ASSUME OneEach PROVE Spec => []ChildIInv
BY ChildInitInv, ChildStepInv, PTL DEF Spec

\* With one spawner and one waiter, however winaddchild(), await() and
\* awaitfor() walk the table at the same time: an accepted child stays known
\* until its end is reported, the report is true, and the handle of a
\* reported child is not in the table any more.
THEOREM ChildCorrect == ASSUME OneEach PROVE Spec => []ChildrenKept
<1>1. ChildIInv => ChildrenKept
  BY DEF ChildIInv, ChildrenKept
<1> QED BY <1>1, ChildInvariance, PTL
=============================================================================
