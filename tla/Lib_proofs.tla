----------------------------- MODULE Lib_proofs -----------------------------
(***************************************************************************)
(* Proofs about parts of lib9 that a program has one of: the exit          *)
(* handlers, for any number of procs, each with handlers of its own, any   *)
(* handlers of a parent and a table of any size; the notes, for any table  *)
(* of signals; the environment, for any names and values.                  *)
(***************************************************************************)
EXTENDS AtExit, Notes, Environ, SequenceTheorems, FiniteSetTheorems, TLAPS

-----------------------------------------------------------------------------
(* The exit handlers: the inductive invariant.                            *)

Registering == {"search", "store"}      \* within atexit()
Removing == {"dont", "clear"}           \* within atexitdont()

\* Every variable has its type.
AtExitTypeOK ==
    /\ onexf \in [OnexSlots -> AllHandlers \cup {Zero}]
    /\ onexpid \in [OnexSlots -> {"none", "parent", "self"}]
    /\ onexlock \in Users \cup {Unlocked} /\ locking \in BOOLEAN
    /\ upc \in [Users -> {"idle"} \cup Registering \cup Removing]
    /\ uf \in [Users -> AllHandlers \cup {Zero}] /\ ui \in [Users -> 0..Nexit]
    /\ epc \in {"running", "loop", "clear", "call", "gone"}
    /\ ef \in AllHandlers \cup {Zero} /\ ei \in -1..(Nexit - 1)
    /\ registered \subseteq AllHandlers \ Inherited /\ due \subseteq registered
    /\ calls \in [AllHandlers -> Nat]

\* A user works on a handler of its own: one that is not registered yet, or
\* not any more; and in a slot of the table.
OwnWork == \A u \in Users :
    /\ upc[u] # "idle" => uf[u] \in Handlers[u] /\ uf[u] \notin registered
    /\ upc[u] \in {"store", "clear"} => ui[u] < Nexit
    /\ upc[u] = "store" => onexpid[ui[u]] = "self"

\* The pid of a slot says whose handler is in it.
PidTells == \A i \in OnexSlots :
    /\ onexf[i] \in Inherited => onexpid[i] = "parent"
    /\ onexf[i] \notin Inherited \cup {Zero} => onexpid[i] = "self"

\* Before exits() only one proc is in atexit(), and the slot it has found
\* stays free.
OneRegisters == epc = "running" => locking /\ \A u \in Users :
    /\ upc[u] \in Registering => onexlock = u
    /\ upc[u] = "store" => onexf[ui[u]] = Zero

\* Before exits() the table holds the registered handlers, those that are
\* being removed and those of the parent, each once; atexitdont() has
\* its handler behind it when it has passed the slot.
TableExact == epc = "running" =>
    /\ \A f \in registered : \E i \in OnexSlots : onexf[i] = f
    /\ \A i, j \in OnexSlots : onexf[i] = onexf[j] /\ onexf[i] # Zero => i = j
    /\ \A i \in OnexSlots : onexf[i] \in registered \cup Inherited \cup {Zero}
          \/ \E u \in Users : upc[u] \in Removing /\ uf[u] = onexf[i] /\ ui[u] <= i
    /\ \A u \in Users : upc[u] = "clear" => onexf[ui[u]] = uf[u]

\* What a user is about to overwrite or to clear is not due.
DueSpared == epc # "running" =>
    \A u \in Users : upc[u] \in {"store", "clear"} => onexf[ui[u]] \notin due

\* A due handler has been called, is about to be called, or stands in a slot
\* that the loop of exits() has not come to.
DueAhead == epc # "running" => \A f \in due :
    \/ calls[f] >= 1
    \/ epc \in {"clear", "call"} /\ ef = f
    \/ \E i \in OnexSlots : /\ onexf[i] = f
                            /\ i < ei \/ (i = ei /\ epc = "loop")

\* The loop is within the table; it calls a handler of this process.
CallsOwn == /\ epc \in {"clear", "call"} => ei >= 0 /\ ef \in AllHandlers \ Inherited
            /\ epc = "gone" => ei = -1
            /\ epc = "running" => ei = Nexit - 1

AtExitIInv == /\ AtExitTypeOK /\ OwnWork /\ PidTells /\ OneRegisters /\ TableExact
              /\ DueSpared /\ DueAhead /\ CallsOwn /\ ParentsNotCalled

-----------------------------------------------------------------------------
\* The handlers of a user and those of the parent are handlers.
LEMMA HandlersAreHandlers ==
  /\ \A u \in Users : Handlers[u] \subseteq AllHandlers
  /\ Inherited \subseteq AllHandlers
<1>1. ASSUME NEW u \in Users, NEW f \in Handlers[u] PROVE f \in AllHandlers
  <2>1. Handlers[u] \in {Handlers[v] : v \in Users}
    OBVIOUS
  <2> QED BY <2>1 DEF AllHandlers
<1>2. Inherited \subseteq AllHandlers
  BY DEF AllHandlers
<1> QED BY <1>1, <1>2

USE NexitAssumption, InheritedAssumption, OwnAssumption, ZeroAssumption
    DEF OnexSlots, Registering, Removing

\* The initial states satisfy the invariant.
LEMMA AtExitInitInv == AtExitInit => AtExitIInv
<1> SUFFICES ASSUME AtExitInit PROVE AtExitIInv
  OBVIOUS
<1>1. AtExitTypeOK
  BY HandlersAreHandlers DEF AtExitInit, AtExitTypeOK
<1>2. OwnWork /\ PidTells /\ OneRegisters /\ TableExact
  BY HandlersAreHandlers DEF AtExitInit, OwnWork, PidTells, OneRegisters, TableExact
<1>3. DueSpared /\ DueAhead /\ CallsOwn /\ ParentsNotCalled
  BY HandlersAreHandlers DEF AtExitInit, DueSpared, DueAhead, CallsOwn, ParentsNotCalled
<1> QED BY <1>1, <1>2, <1>3 DEF AtExitIInv

\* Every step keeps it.
LEMMA AtExitStepInv == AtExitIInv /\ [AtExitNext]_xvars => AtExitIInv'
<1> SUFFICES ASSUME AtExitIInv, [AtExitNext]_xvars PROVE AtExitIInv'
  OBVIOUS
<1> USE HandlersAreHandlers
        DEF AtExitIInv, AtExitTypeOK, OwnWork, PidTells, OneRegisters, TableExact,
            DueSpared, DueAhead, CallsOwn, ParentsNotCalled,
            UGoto, UWith, UReturn, ELeft, ULeft, OnexUnlock, Exiting
<1>1. ASSUME NEW u \in Users, NEW f \in Handlers[u], AtexitLock(u, f) PROVE AtExitIInv'
  <2>1. AtExitTypeOK'
    BY <1>1 DEF AtexitLock, MayEnter
  <2>2. OwnWork'
    BY <1>1 DEF AtexitLock, MayEnter
  <2>3. PidTells'
    BY <1>1 DEF AtexitLock, MayEnter
  <2>4. OneRegisters'
    BY <1>1 DEF AtexitLock, MayEnter
  <2>5. TableExact'
    BY <1>1 DEF AtexitLock, MayEnter
  <2>6. DueSpared'
    BY <1>1 DEF AtexitLock, MayEnter
  <2>7. DueAhead'
    BY <1>1 DEF AtexitLock, MayEnter
  <2>8. CallsOwn'
    BY <1>1 DEF AtexitLock, MayEnter
  <2>9. ParentsNotCalled'
    BY <1>1 DEF AtexitLock, MayEnter
  <2> HIDE DEF AtExitTypeOK, OwnWork, PidTells, OneRegisters, TableExact, DueSpared, DueAhead, CallsOwn, ParentsNotCalled
  <2> QED BY <2>1, <2>2, <2>3, <2>4, <2>5, <2>6, <2>7, <2>8, <2>9
<1>2. ASSUME NEW u \in Users, AtexitSearch(u) PROVE AtExitIInv'
  <2>1. AtExitTypeOK'
    <3>1. CASE UReturn(u) /\ OnexUnlock(u) /\ UNCHANGED onexpid
      BY <1>2, <3>1 DEF AtexitSearch
    <3>2. ASSUME NEW i \in OnexSlots, onexpid' = [onexpid EXCEPT ![i] = "self"],
                 UWith(u, uf[u], i), UGoto(u, "store"), UNCHANGED onexlock
          PROVE  AtExitTypeOK'
      BY <1>2, <3>2 DEF AtexitSearch
    <3> QED BY <1>2, <3>1, <3>2 DEF AtexitSearch
  <2>2. OwnWork'
    <3>1. \A v \in Users : v # u => upc'[v] = upc[v] /\ uf'[v] = uf[v] /\ ui'[v] = ui[v]
      BY <1>2 DEF AtexitSearch
    <3>2. \A i \in OnexSlots : onexpid[i] = "self" => onexpid'[i] = "self"
      BY <1>2 DEF AtexitSearch
    <3>3. \/ upc'[u] = "idle"
          \/ /\ upc'[u] = "store" /\ uf'[u] = uf[u] /\ ui'[u] \in OnexSlots
             /\ onexpid'[ui'[u]] = "self"
      BY <1>2 DEF AtexitSearch, FirstFreeSlot, FreeSlots
    <3>4. registered' = registered /\ upc[u] # "idle"
      BY <1>2 DEF AtexitSearch
    <3> QED BY <3>1, <3>2, <3>3, <3>4
  <2>3. PidTells'
    BY <1>2 DEF AtexitSearch, FirstFreeSlot, FreeSlots
  <2>4. OneRegisters'
    BY <1>2 DEF AtexitSearch, FirstFreeSlot, FreeSlots
  <2>5. TableExact'
    <3>1. UNCHANGED <<onexf, registered, epc>> /\ upc'[u] \notin Removing
      BY <1>2 DEF AtexitSearch
    <3>2. \A v \in Users : v # u => upc'[v] = upc[v] /\ uf'[v] = uf[v] /\ ui'[v] = ui[v]
      BY <1>2 DEF AtexitSearch
    <3>3. upc[u] \notin Removing
      BY <1>2 DEF AtexitSearch
    <3>4. ASSUME epc = "running", NEW i \in OnexSlots,
                 onexf[i] \notin registered \cup Inherited \cup {Zero}
          PROVE  \E v \in Users : upc'[v] \in Removing /\ uf'[v] = onexf[i] /\ ui'[v] <= i
      <4>1. PICK v \in Users : upc[v] \in Removing /\ uf[v] = onexf[i] /\ ui[v] <= i
        BY <3>4
      <4> QED BY <3>2, <3>3, <4>1
    <3>5. \A v \in Users : upc'[v] = "clear" => upc[v] = "clear" /\ uf'[v] = uf[v] /\ ui'[v] = ui[v]
      BY <3>1, <3>2
    <3> QED BY <3>1, <3>4, <3>5
  <2>6. DueSpared'
    <3>1. UNCHANGED <<onexf, due, epc>>
      BY <1>2 DEF AtexitSearch
    <3>2. \A v \in Users : v # u => upc'[v] = upc[v] /\ ui'[v] = ui[v]
      BY <1>2 DEF AtexitSearch
    <3>3. upc'[u] = "idle" \/ (upc'[u] = "store" /\ onexf[ui'[u]] = Zero)
      BY <1>2 DEF AtexitSearch, FirstFreeSlot, FreeSlots
    <3> QED BY <3>1, <3>2, <3>3
  <2>7. DueAhead'
    BY <1>2 DEF AtexitSearch, FirstFreeSlot, FreeSlots
  <2>8. CallsOwn'
    BY <1>2 DEF AtexitSearch, FirstFreeSlot, FreeSlots
  <2>9. ParentsNotCalled'
    BY <1>2 DEF AtexitSearch, FirstFreeSlot, FreeSlots
  <2> HIDE DEF AtExitTypeOK, OwnWork, PidTells, OneRegisters, TableExact, DueSpared, DueAhead, CallsOwn, ParentsNotCalled
  <2> QED BY <2>1, <2>2, <2>3, <2>4, <2>5, <2>6, <2>7, <2>8, <2>9
<1>3. ASSUME NEW u \in Users, AtexitStore(u) PROVE AtExitIInv'
  <2>1. AtExitTypeOK'
    <3>4. uf[u] \in Handlers[u] /\ ui[u] \in OnexSlots
      BY <1>3 DEF AtexitStore
    <3>1. uf[u] \in AllHandlers \ Inherited /\ ui[u] \in OnexSlots
      BY <3>4
    <3>2. onexf' \in [OnexSlots -> AllHandlers \cup {Zero}]
      BY <1>3, <3>1 DEF AtexitStore
    <3>3. registered' \subseteq AllHandlers \ Inherited /\ due' \subseteq registered'
      BY <1>3, <3>1 DEF AtexitStore
    <3> QED BY <1>3, <3>2, <3>3 DEF AtexitStore
  <2>2. OwnWork'
    <3>1. ASSUME NEW v \in Users, v # u, upc[v] # "idle" PROVE uf[v] # uf[u]
      BY <1>3, <3>1 DEF AtexitStore
    <3> QED BY <1>3, <3>1 DEF AtexitStore
  <2>3. PidTells'
    BY <1>3 DEF AtexitStore
  <2>4. OneRegisters'
    BY <1>3 DEF AtexitStore
  <2>5. TableExact'
    <3> SUFFICES ASSUME epc = "running" PROVE TableExact'
      BY <1>3 DEF AtexitStore
    <3>1. /\ ui[u] \in OnexSlots /\ onexf[ui[u]] = Zero
          /\ uf[u] \in Handlers[u] /\ uf[u] \notin registered
          /\ onexf' = [onexf EXCEPT ![ui[u]] = uf[u]] /\ registered' = registered \cup {uf[u]}
          /\ upc[u] \notin Removing /\ upc'[u] = "idle" /\ epc' = epc
      BY <1>3 DEF AtexitStore
    <3>2. \A v \in Users : v # u => upc'[v] = upc[v] /\ uf'[v] = uf[v] /\ ui'[v] = ui[v]
      BY <1>3 DEF AtexitStore
    \* The handler is not in the table: only its own user could be removing it.
    <3>3. ASSUME NEW i \in OnexSlots PROVE onexf[i] # uf[u]
      <4> SUFFICES ASSUME onexf[i] = uf[u] PROVE FALSE
        OBVIOUS
      <4>1. uf[u] \notin Inherited \cup {Zero}
        BY <3>1
      <4>2. PICK v \in Users : upc[v] \in Removing /\ uf[v] = uf[u]
        BY <3>1, <4>1
      <4> QED BY <3>1, <4>2
    <3>4. \A f \in registered' : \E i \in OnexSlots : onexf'[i] = f
      BY <3>1
    <3>5. \A i, j \in OnexSlots : onexf'[i] = onexf'[j] /\ onexf'[i] # Zero => i = j
      BY <3>1, <3>3
    <3>6. \A i \in OnexSlots : onexf'[i] \in registered' \cup Inherited \cup {Zero}
            \/ \E v \in Users : upc'[v] \in Removing /\ uf'[v] = onexf'[i] /\ ui'[v] <= i
      <4>1. ASSUME NEW i \in OnexSlots, onexf[i] \notin registered \cup Inherited \cup {Zero}
            PROVE  \E v \in Users : upc'[v] \in Removing /\ uf'[v] = onexf[i] /\ ui'[v] <= i
        <5>1. PICK v \in Users : upc[v] \in Removing /\ uf[v] = onexf[i] /\ ui[v] <= i
          BY <4>1
        <5> QED BY <3>1, <3>2, <5>1
      <4>2. ASSUME NEW i \in OnexSlots
            PROVE  (i = ui[u] /\ onexf'[i] \in registered') \/ onexf'[i] = onexf[i]
        BY <3>1
      <4> HIDE DEF TableExact
      <4> QED BY <3>1, <4>1, <4>2
    <3>7. ASSUME NEW v \in Users, upc'[v] = "clear" PROVE onexf'[ui'[v]] = uf'[v]
      <4>1. v # u /\ onexf[ui[v]] = uf[v] /\ ui[v] \in OnexSlots /\ uf[v] # Zero
        BY <3>1, <3>2, <3>7
      <4> QED BY <3>1, <3>2, <4>1
    <3> QED BY <3>4, <3>5, <3>6, <3>7
  <2>6. DueSpared'
    BY <1>3 DEF AtexitStore
  <2>7. DueAhead'
    BY <1>3 DEF AtexitStore
  <2>8. CallsOwn'
    BY <1>3 DEF AtexitStore
  <2>9. ParentsNotCalled'
    BY <1>3 DEF AtexitStore
  <2> HIDE DEF AtExitTypeOK, OwnWork, PidTells, OneRegisters, TableExact, DueSpared, DueAhead, CallsOwn, ParentsNotCalled
  <2> QED BY <2>1, <2>2, <2>3, <2>4, <2>5, <2>6, <2>7, <2>8, <2>9
<1>4. ASSUME NEW u \in Users, NEW f \in Handlers[u], Atexitdont(u, f) PROVE AtExitIInv'
  <2>1. AtExitTypeOK'
    BY <1>4 DEF Atexitdont
  <2>2. OwnWork'
    BY <1>4 DEF Atexitdont
  <2>3. PidTells'
    BY <1>4 DEF Atexitdont
  <2>4. OneRegisters'
    BY <1>4 DEF Atexitdont
  <2>5. TableExact'
    BY <1>4 DEF Atexitdont
  <2>6. DueSpared'
    BY <1>4 DEF Atexitdont
  <2>7. DueAhead'
    BY <1>4 DEF Atexitdont
  <2>8. CallsOwn'
    BY <1>4 DEF Atexitdont
  <2>9. ParentsNotCalled'
    BY <1>4 DEF Atexitdont
  <2> HIDE DEF AtExitTypeOK, OwnWork, PidTells, OneRegisters, TableExact, DueSpared, DueAhead, CallsOwn, ParentsNotCalled
  <2> QED BY <2>1, <2>2, <2>3, <2>4, <2>5, <2>6, <2>7, <2>8, <2>9
<1>5. ASSUME NEW u \in Users, DontLook(u) PROVE AtExitIInv'
  <2>1. AtExitTypeOK'
    <3>1. CASE UReturn(u)
      BY <1>5, <3>1 DEF DontLook
    <3>2. CASE UGoto(u, "clear") /\ UNCHANGED <<uf, ui>>
      BY <1>5, <3>2 DEF DontLook
    <3>3. CASE ui[u] < Nexit /\ UWith(u, uf[u], ui[u] + 1) /\ UNCHANGED upc
      BY <1>5, <3>3 DEF DontLook
    <3> QED BY <1>5, <3>1, <3>2, <3>3 DEF DontLook
  <2>2. OwnWork'
    BY <1>5 DEF DontLook, IsMine
  <2>3. PidTells'
    BY <1>5 DEF DontLook, IsMine
  <2>4. OneRegisters'
    BY <1>5 DEF DontLook, IsMine
  <2>5. TableExact'
    <3> SUFFICES ASSUME epc = "running" PROVE TableExact'
      BY <1>5 DEF DontLook
    <3>1. UNCHANGED <<onexf, registered, epc>> /\ uf[u] \in Handlers[u] /\ upc[u] = "dont"
      BY <1>5 DEF DontLook
    <3>2. \A v \in Users : v # u => upc'[v] = upc[v] /\ uf'[v] = uf[v] /\ ui'[v] = ui[v]
      BY <1>5 DEF DontLook
    <3>3. \/ upc'[u] = "idle" /\ ui[u] = Nexit
          \/ upc'[u] = "clear" /\ ui'[u] = ui[u] /\ uf'[u] = uf[u] /\ onexf[ui[u]] = uf[u]
          \/ /\ upc'[u] = "dont" /\ ui'[u] = ui[u] + 1 /\ uf'[u] = uf[u]
             /\ onexf[ui[u]] # uf[u]
      BY <1>5, <3>1 DEF DontLook, IsMine
    <3>4. ASSUME NEW i \in OnexSlots, onexf[i] \notin registered \cup Inherited \cup {Zero}
          PROVE  \E v \in Users : upc'[v] \in Removing /\ uf'[v] = onexf[i] /\ ui'[v] <= i
      <4>1. PICK v \in Users : upc[v] \in Removing /\ uf[v] = onexf[i] /\ ui[v] <= i
        BY <3>4
      <4>2. CASE v # u
        BY <3>2, <4>1, <4>2
      <4>3. CASE v = u
        BY <3>3, <4>1, <4>3
      <4> QED BY <4>2, <4>3
    <3>5. \A v \in Users : upc'[v] = "clear" => onexf[ui'[v]] = uf'[v]
      BY SMTT(30), <3>1, <3>2, <3>3
    <3> QED BY <3>1, <3>4, <3>5
  <2>6. DueSpared'
    BY <1>5 DEF DontLook, IsMine
  <2>7. DueAhead'
    BY <1>5 DEF DontLook, IsMine
  <2>8. CallsOwn'
    BY <1>5 DEF DontLook, IsMine
  <2>9. ParentsNotCalled'
    BY <1>5 DEF DontLook, IsMine
  <2> HIDE DEF AtExitTypeOK, OwnWork, PidTells, OneRegisters, TableExact, DueSpared, DueAhead, CallsOwn, ParentsNotCalled
  <2> QED BY <2>1, <2>2, <2>3, <2>4, <2>5, <2>6, <2>7, <2>8, <2>9
<1>6. ASSUME NEW u \in Users, DontClear(u) PROVE AtExitIInv'
  <2>1. AtExitTypeOK'
    BY <1>6 DEF DontClear
  <2>2. OwnWork'
    BY <1>6 DEF DontClear
  <2>3. PidTells'
    BY <1>6 DEF DontClear
  <2>4. OneRegisters'
    BY <1>6 DEF DontClear
  <2>5. TableExact'
    <3> SUFFICES ASSUME epc = "running" PROVE TableExact'
      BY <1>6 DEF DontClear
    <3>1. /\ ui[u] \in OnexSlots /\ onexf[ui[u]] = uf[u] /\ uf[u] \in Handlers[u]
          /\ uf[u] \notin registered /\ uf[u] # Zero
          /\ onexf' = [onexf EXCEPT ![ui[u]] = Zero] /\ registered' = registered
          /\ upc'[u] = "dont" /\ epc' = epc
      BY <1>6 DEF DontClear
    <3>2. \A v \in Users : v # u => upc'[v] = upc[v] /\ uf'[v] = uf[v] /\ ui'[v] = ui[v]
      BY <1>6 DEF DontClear
    <3>3. \A f \in registered : \E i \in OnexSlots : onexf'[i] = f
      BY <3>1
    <3>4. \A i, j \in OnexSlots : onexf'[i] = onexf'[j] /\ onexf'[i] # Zero => i = j
      BY <3>1
    <3>5. ASSUME NEW i \in OnexSlots, onexf'[i] \notin registered \cup Inherited \cup {Zero}
          PROVE  \E v \in Users : upc'[v] \in Removing /\ uf'[v] = onexf'[i] /\ ui'[v] <= i
      <4>1. i # ui[u] /\ onexf'[i] = onexf[i] /\ onexf[i] # uf[u]
        BY <3>1, <3>5
      <4>2. PICK v \in Users : upc[v] \in Removing /\ uf[v] = onexf[i] /\ ui[v] <= i
        BY <3>5, <4>1
      <4> QED BY <3>2, <4>1, <4>2
    <3>6. ASSUME NEW v \in Users, upc'[v] = "clear" PROVE onexf'[ui'[v]] = uf'[v]
      <4>1. v # u /\ onexf[ui[v]] = uf[v] /\ ui[v] \in OnexSlots /\ uf[v] # uf[u]
        BY <3>1, <3>2, <3>6
      <4> QED BY <3>1, <3>2, <4>1
    <3> QED BY <3>1, <3>3, <3>4, <3>5, <3>6
  <2>6. DueSpared'
    BY <1>6 DEF DontClear
  <2>7. DueAhead'
    BY <1>6 DEF DontClear
  <2>8. CallsOwn'
    BY <1>6 DEF DontClear
  <2>9. ParentsNotCalled'
    BY <1>6 DEF DontClear
  <2> HIDE DEF AtExitTypeOK, OwnWork, PidTells, OneRegisters, TableExact, DueSpared, DueAhead, CallsOwn, ParentsNotCalled
  <2> QED BY <2>1, <2>2, <2>3, <2>4, <2>5, <2>6, <2>7, <2>8, <2>9
<1>7. CASE CallExits
  <2>1. AtExitTypeOK'
    BY <1>7 DEF CallExits
  <2>2. OwnWork'
    BY <1>7 DEF CallExits
  <2>3. PidTells'
    BY <1>7 DEF CallExits
  <2>4. OneRegisters'
    BY <1>7 DEF CallExits
  <2>5. TableExact'
    BY <1>7 DEF CallExits
  <2>6. DueSpared'
    BY <1>7 DEF CallExits
  <2>7. DueAhead'
    BY <1>7 DEF CallExits
  <2>8. CallsOwn'
    BY <1>7 DEF CallExits
  <2>9. ParentsNotCalled'
    BY <1>7 DEF CallExits
  <2> HIDE DEF AtExitTypeOK, OwnWork, PidTells, OneRegisters, TableExact, DueSpared, DueAhead, CallsOwn, ParentsNotCalled
  <2> QED BY <2>1, <2>2, <2>3, <2>4, <2>5, <2>6, <2>7, <2>8, <2>9
<1>8. CASE threadexitsall
  <2>1. AtExitTypeOK'
    BY <1>8 DEF threadexitsall
  <2>2. OwnWork'
    BY <1>8 DEF threadexitsall
  <2>3. PidTells'
    BY <1>8 DEF threadexitsall
  <2>4. OneRegisters'
    BY <1>8 DEF threadexitsall
  <2>5. TableExact'
    BY <1>8 DEF threadexitsall
  <2>6. DueSpared'
    BY <1>8 DEF threadexitsall
  <2>7. DueAhead'
    BY <1>8 DEF threadexitsall
  <2>8. CallsOwn'
    BY <1>8 DEF threadexitsall
  <2>9. ParentsNotCalled'
    BY <1>8 DEF threadexitsall
  <2> HIDE DEF AtExitTypeOK, OwnWork, PidTells, OneRegisters, TableExact, DueSpared, DueAhead, CallsOwn, ParentsNotCalled
  <2> QED BY <2>1, <2>2, <2>3, <2>4, <2>5, <2>6, <2>7, <2>8, <2>9
<1>9. CASE ExitLook
  <2>1. AtExitTypeOK'
    BY <1>9 DEF ExitLook, OwnHandler
  <2>2. OwnWork'
    BY <1>9 DEF ExitLook, OwnHandler
  <2>3. PidTells'
    BY <1>9 DEF ExitLook, OwnHandler
  <2>4. OneRegisters'
    BY <1>9 DEF ExitLook, OwnHandler
  <2>5. TableExact'
    BY <1>9 DEF ExitLook, OwnHandler
  <2>6. DueSpared'
    BY <1>9 DEF ExitLook, OwnHandler
  <2>7. DueAhead'
    <3>1. ASSUME NEW f \in due, calls[f] < 1
          PROVE  (epc' = "clear" /\ ef' = f) \/ \E i \in OnexSlots :
                     onexf[i] = f /\ (i < ei' \/ (i = ei' /\ epc' = "loop"))
      <4>1. PICK i \in OnexSlots : onexf[i] = f /\ i <= ei
        BY <1>9, <3>1 DEF ExitLook
      <4>2. f # Zero /\ onexpid[i] = "self"
        BY <4>1
      <4> QED BY <1>9, <4>1, <4>2 DEF ExitLook, OwnHandler
    <3> QED BY <1>9, <3>1 DEF ExitLook
  <2>8. CallsOwn'
    BY <1>9 DEF ExitLook, OwnHandler
  <2>9. ParentsNotCalled'
    BY <1>9 DEF ExitLook, OwnHandler
  <2> HIDE DEF AtExitTypeOK, OwnWork, PidTells, OneRegisters, TableExact, DueSpared, DueAhead, CallsOwn, ParentsNotCalled
  <2> QED BY <2>1, <2>2, <2>3, <2>4, <2>5, <2>6, <2>7, <2>8, <2>9
<1>10. CASE ExitClear
  <2>1. AtExitTypeOK'
    BY <1>10 DEF ExitClear
  <2>2. OwnWork'
    BY <1>10 DEF ExitClear
  <2>3. PidTells'
    BY <1>10 DEF ExitClear
  <2>4. OneRegisters'
    BY <1>10 DEF ExitClear
  <2>5. TableExact'
    BY <1>10 DEF ExitClear
  <2>6. DueSpared'
    BY <1>10 DEF ExitClear
  <2>7. DueAhead'
    BY <1>10 DEF ExitClear
  <2>8. CallsOwn'
    BY <1>10 DEF ExitClear
  <2>9. ParentsNotCalled'
    BY <1>10 DEF ExitClear
  <2> HIDE DEF AtExitTypeOK, OwnWork, PidTells, OneRegisters, TableExact, DueSpared, DueAhead, CallsOwn, ParentsNotCalled
  <2> QED BY <2>1, <2>2, <2>3, <2>4, <2>5, <2>6, <2>7, <2>8, <2>9
<1>11. CASE ExitCall
  <2>1. AtExitTypeOK'
    BY <1>11 DEF ExitCall
  <2>2. OwnWork'
    BY <1>11 DEF ExitCall
  <2>3. PidTells'
    BY <1>11 DEF ExitCall
  <2>4. OneRegisters'
    BY <1>11 DEF ExitCall
  <2>5. TableExact'
    BY <1>11 DEF ExitCall
  <2>6. DueSpared'
    BY <1>11 DEF ExitCall
  <2>7. DueAhead'
    BY <1>11 DEF ExitCall
  <2>8. CallsOwn'
    BY <1>11 DEF ExitCall
  <2>9. ParentsNotCalled'
    BY <1>11 DEF ExitCall
  <2> HIDE DEF AtExitTypeOK, OwnWork, PidTells, OneRegisters, TableExact, DueSpared, DueAhead, CallsOwn, ParentsNotCalled
  <2> QED BY <2>1, <2>2, <2>3, <2>4, <2>5, <2>6, <2>7, <2>8, <2>9
<1>12. CASE ExitProcess
  <2>1. AtExitTypeOK'
    BY <1>12 DEF ExitProcess
  <2>2. OwnWork'
    BY <1>12 DEF ExitProcess
  <2>3. PidTells'
    BY <1>12 DEF ExitProcess
  <2>4. OneRegisters'
    BY <1>12 DEF ExitProcess
  <2>5. TableExact'
    BY <1>12 DEF ExitProcess
  <2>6. DueSpared'
    BY <1>12 DEF ExitProcess
  <2>7. DueAhead'
    BY <1>12 DEF ExitProcess
  <2>8. CallsOwn'
    BY <1>12 DEF ExitProcess
  <2>9. ParentsNotCalled'
    BY <1>12 DEF ExitProcess
  <2> HIDE DEF AtExitTypeOK, OwnWork, PidTells, OneRegisters, TableExact, DueSpared, DueAhead, CallsOwn, ParentsNotCalled
  <2> QED BY <2>1, <2>2, <2>3, <2>4, <2>5, <2>6, <2>7, <2>8, <2>9
<1>13. CASE UNCHANGED xvars
  BY <1>13 DEF xvars
<1> QED BY <1>1, <1>2, <1>3, <1>4, <1>5, <1>6, <1>7, <1>8, <1>9, <1>10, <1>11, <1>12, <1>13
        DEF AtExitNext, UserStep

-----------------------------------------------------------------------------
(* The theorems.                                                          *)

\* The inductive invariant holds in every state of every behaviour.
THEOREM AtExitInvariance == AtExitSpec => []AtExitIInv
BY AtExitInitInv, AtExitStepInv, PTL DEF AtExitSpec

\* Whatever procs register and remove while the process exits, and whether or
\* not threadexitsall() has taken the lock away: every handler that was
\* registered when exits() began and was not removed has been called when the
\* process is gone, none of the parent's is called, and until then each
\* registered handler has one slot.
THEOREM AtExitCorrect == AtExitSpec => []HandlersCalled
<1>1. ASSUME AtExitIInv PROVE HandlersCalled
  <2>1. EveryDueCalled
    BY <1>1 DEF AtExitIInv, EveryDueCalled, AtExitTypeOK, DueAhead, CallsOwn
  <2>2. RegisteredOnce
    <3> SUFFICES ASSUME epc = "running", NEW f \in registered
                 PROVE  \E i \in OnexSlots : /\ onexf[i] = f /\ onexpid[i] = "self"
                                            /\ \A j \in OnexSlots : onexf[j] = f => j = i
      BY DEF RegisteredOnce
    <3>1. f # Zero /\ f \notin Inherited
      BY <1>1 DEF AtExitIInv, AtExitTypeOK
    <3>2. PICK i \in OnexSlots : onexf[i] = f
      BY <1>1 DEF AtExitIInv, TableExact
    <3> WITNESS i \in OnexSlots
    <3> QED BY <1>1, <3>1, <3>2 DEF AtExitIInv, TableExact, PidTells
  <2> QED BY <1>1, <2>1, <2>2 DEF AtExitIInv, HandlersCalled
<1> QED BY <1>1, AtExitInvariance, PTL

-----------------------------------------------------------------------------
(* Notes: the handlers of the signals.                                    *)

SigHandlers == {"dfl", "other", "notify", "nonotify"}

\* Every variable has its type; a step of noteinit() is at a signal of sigs[].
NotesTypeOK ==
    /\ handler \in [Signals -> SigHandlers] /\ saved \in SigHandlers
    /\ notifyf \in BOOLEAN /\ inited \in BOOLEAN /\ alive \in BOOLEAN /\ wrong \in BOOLEAN
    /\ npc \in {"run", "probe", "restore", "install"} /\ nsig \in Nat \ {0}
    /\ npc \in {"restore", "install"} => nsig <= Len(Sigs)
    /\ note.at \in {"none", "entry", "call"} /\ (note = NoNote \/ note.sig \in Signals)
    /\ on \subseteq Signals /\ off \subseteq Signals

\* The signal at which noteinit() is.
Probed == npc \in {"restore", "install"}
ProbedSig == Sigs[nsig]

\* A signal that is to be ignored has the handler for that; while noteinit()
\* has taken it away it has none, and noteinit() will give it back.
OffHandled == alive => \A s \in off :
    IF Probed /\ s = ProbedSig THEN npc = "restore" /\ saved = "nonotify" /\ handler[s] = "dfl"
                              ELSE handler[s] = "nonotify"

\* The handler that has started to run is for a signal that is not ignored.
EnteredNotOff == note.at = "entry" => note.sig \notin off

\* A signal that is to be notified has its handler, or signotify() or
\* noteinit() is about to install it.
OnHandled == alive => \A s \in on :
    handler[s] = "notify" \/ Reinstalling(s) \/ (Probed /\ s = ProbedSig)

\* Nobody else's handler is installed for it.
OnIsOwn == alive => \A s \in on :
    /\ handler[s] \in {"dfl", "notify"}
    /\ npc = "restore" /\ s = ProbedSig => saved \in {"dfl", "notify"}

NotesIInv == /\ NotesTypeOK /\ OffHandled /\ EnteredNotOff /\ OnHandled /\ OnIsOwn /\ OffIsOff

\* The signal at which noteinit() is, is one.
LEMMA ProbedIsSignal ==
    ASSUME NotesTypeOK, nsig <= Len(Sigs)
    PROVE  Sigs[nsig] \in Signals
<1> DEFINE L == {Sigs[i] : i \in DOMAIN Sigs}
<1>0. Sigs \in Seq(L)
  BY SigsAssumption
<1> HIDE DEF L
<1>1. nsig \in DOMAIN Sigs
  BY <1>0 DEF NotesTypeOK
<1>2. Sigs[nsig] \in {Sigs[i] : i \in DOMAIN Sigs}
  BY <1>1
<1> QED BY <1>2 DEF Signals

\* In the first state no signal is on or off.
LEMMA NotesInitOK == NotesInit => NotesIInv
<1> SUFFICES ASSUME NotesInit PROVE NotesIInv
  OBVIOUS
<1>1. handler \in [Signals -> SigHandlers]
  BY DEF NotesInit, SigHandlers
<1>2. NotesTypeOK
  <2>1. note.at = "none"
    BY DEF NotesInit, NoNote
  <2>2. saved \in SigHandlers /\ npc = "run" /\ nsig = 1 /\ note = NoNote /\ on = {} /\ off = {}
    BY DEF NotesInit, SigHandlers
  <2>3. notifyf \in BOOLEAN /\ inited \in BOOLEAN /\ alive \in BOOLEAN /\ wrong \in BOOLEAN
    BY DEF NotesInit
  <2> QED BY <1>1, <2>1, <2>2, <2>3 DEF NotesTypeOK
<1>3. OffHandled /\ OnHandled /\ OnIsOwn /\ OffIsOff
  BY DEF NotesInit, OffHandled, OnHandled, OnIsOwn, OffIsOff
<1>4. EnteredNotOff
  BY DEF NotesInit, EnteredNotOff, NoNote
<1> QED BY <1>2, <1>3, <1>4 DEF NotesIInv

\* notify() and the end of noteinit() leave the handlers alone.
LEMMA NotifyKeeps ==
    ASSUME NotesIInv, (\E f \in BOOLEAN : Notify(f)) \/ NoteinitDone
    PROVE  NotesIInv'
<1>1. /\ handler' = handler /\ note' = note /\ alive' = alive /\ on' = on /\ off' = off /\ wrong' = wrong
      /\ notifyf' \in BOOLEAN /\ inited' \in BOOLEAN /\ saved' \in SigHandlers
      /\ npc \in {"run", "probe"} /\ npc' \in {"run", "probe"} /\ nsig' = 1
  BY DEF Notify, NoteinitDone, Live, NotesIInv, NotesTypeOK, SigHandlers
<1>2. NotesTypeOK'
  BY <1>1 DEF NotesIInv, NotesTypeOK
<1>3. ~Probed /\ ~Probed'
  BY <1>1 DEF Probed
<1>4. \A s : Reinstalling(s)' = Reinstalling(s)
  BY <1>1 DEF Reinstalling
<1>5. OffHandled' /\ EnteredNotOff' /\ OnHandled' /\ OnIsOwn' /\ OffIsOff'
  BY <1>1, <1>3, <1>4 DEF NotesIInv, OffHandled, EnteredNotOff, OnHandled, OnIsOwn, OffIsOff
<1> QED BY <1>2, <1>5 DEF NotesIInv

\* handler(): the handler is taken away, and saved.
LEMMA ProbeKeeps == ASSUME NotesIInv, Probe PROVE NotesIInv'
<1> DEFINE z == Sigs[nsig]
<1>1. /\ npc = "probe" /\ npc' = "restore" /\ nsig' = nsig /\ nsig <= Len(Sigs) /\ saved' = handler[z]
      /\ handler' = [handler EXCEPT ![z] = "dfl"] /\ alive /\ alive' = alive
      /\ notifyf' = notifyf /\ inited' = inited /\ note' = note /\ on' = on /\ off' = off /\ wrong' = wrong
  BY DEF Probe
<1>2. z \in Signals
  BY <1>1, ProbedIsSignal DEF NotesIInv
<1>3. handler \in [Signals -> SigHandlers]
  BY DEF NotesIInv, NotesTypeOK
<1>4. /\ handler' \in [Signals -> SigHandlers] /\ handler'[z] = "dfl"
      /\ \A s \in Signals : s # z => handler'[s] = handler[s]
  BY <1>1, <1>2, <1>3 DEF SigHandlers
<1>5. ~Probed /\ Probed' /\ ProbedSig' = z
  BY <1>1 DEF Probed, ProbedSig
<1> HIDE DEF z
<1>6. NotesTypeOK'
  BY <1>1, <1>2, <1>3, <1>4 DEF NotesIInv, NotesTypeOK
<1>7. OffHandled'
  BY <1>1, <1>4, <1>5 DEF NotesIInv, NotesTypeOK, OffHandled
<1>8. \A s : Reinstalling(s)' = Reinstalling(s)
  BY <1>1 DEF Reinstalling
<1>9. EnteredNotOff' /\ OffIsOff'
  BY <1>1 DEF NotesIInv, EnteredNotOff, OffIsOff
<1>10. OnHandled'
  BY <1>1, <1>4, <1>5, <1>8 DEF NotesIInv, NotesTypeOK, OnHandled
<1>11. OnIsOwn'
  BY <1>1, <1>4, <1>5 DEF NotesIInv, NotesTypeOK, OnIsOwn
<1> QED BY <1>6, <1>7, <1>9, <1>10, <1>11 DEF NotesIInv

\* The handler is given back.
LEMMA RestoreKeeps == ASSUME NotesIInv, Restore PROVE NotesIInv'
<1> DEFINE z == Sigs[nsig]
<1>1. /\ npc = "restore" /\ alive /\ alive' = alive
      /\ handler' = [handler EXCEPT ![z] = saved]
      /\ IF saved # "dfl" THEN npc' = "probe" /\ nsig' = nsig + 1 ELSE npc' = "install" /\ nsig' = nsig
      /\ notifyf' = notifyf /\ saved' = saved /\ inited' = inited /\ note' = note
      /\ on' = on /\ off' = off /\ wrong' = wrong
  BY DEF Restore, LeftAlone
<1>2. z \in Signals /\ nsig <= Len(Sigs)
  BY <1>1, ProbedIsSignal DEF NotesIInv, NotesTypeOK
<1>3. handler \in [Signals -> SigHandlers] /\ saved \in SigHandlers
  BY DEF NotesIInv, NotesTypeOK
<1>4. /\ handler' \in [Signals -> SigHandlers] /\ handler'[z] = saved
      /\ \A s \in Signals : s # z => handler'[s] = handler[s]
  BY <1>1, <1>2, <1>3
<1>5. Probed /\ ProbedSig = z /\ (Probed' <=> saved = "dfl") /\ (Probed' => ProbedSig' = z)
  BY <1>1 DEF Probed, ProbedSig
<1> HIDE DEF z
<1>6. NotesTypeOK'
  BY <1>1, <1>2, <1>3, <1>4 DEF NotesIInv, NotesTypeOK
<1>7. OffHandled'
  BY <1>1, <1>4, <1>5 DEF NotesIInv, NotesTypeOK, OffHandled
<1>8. \A s : Reinstalling(s)' = Reinstalling(s)
  BY <1>1 DEF Reinstalling
<1>9. EnteredNotOff' /\ OffIsOff'
  BY <1>1 DEF NotesIInv, EnteredNotOff, OffIsOff
<1>10. \A s \in on : s = z => saved \in {"dfl", "notify"}
  BY <1>1, <1>5 DEF NotesIInv, OnIsOwn
<1>11. OnHandled'
  BY <1>1, <1>4, <1>5, <1>8, <1>10 DEF NotesIInv, NotesTypeOK, OnHandled
<1>12. OnIsOwn'
  BY <1>1, <1>4, <1>10 DEF NotesIInv, NotesTypeOK, OnIsOwn
<1> QED BY <1>6, <1>7, <1>9, <1>11, <1>12 DEF NotesIInv

\* The handler for notes is installed for a signal that has none.
LEMMA InstallKeeps == ASSUME NotesIInv, Install PROVE NotesIInv'
<1> DEFINE z == Sigs[nsig]
<1>1. /\ npc = "install" /\ alive /\ alive' = alive
      /\ handler' = [handler EXCEPT ![z] = "notify"] /\ on' = on \cup {z}
      /\ npc' = "probe" /\ nsig' = nsig + 1
      /\ notifyf' = notifyf /\ saved' = saved /\ inited' = inited /\ note' = note
      /\ off' = off /\ wrong' = wrong
  BY DEF Install
<1>2. z \in Signals /\ nsig <= Len(Sigs)
  BY <1>1, ProbedIsSignal DEF NotesIInv, NotesTypeOK
<1>3. /\ handler' \in [Signals -> SigHandlers] /\ handler'[z] = "notify"
      /\ \A s \in Signals : s # z => handler'[s] = handler[s]
  BY <1>1, <1>2 DEF NotesIInv, NotesTypeOK, SigHandlers
<1>4. Probed /\ ProbedSig = z /\ ~Probed'
  BY <1>1 DEF Probed, ProbedSig
<1> HIDE DEF z
<1>5. NotesTypeOK'
  BY <1>1, <1>2, <1>3 DEF NotesIInv, NotesTypeOK
<1>6. z \notin off
  BY <1>1, <1>4 DEF NotesIInv, OffHandled
<1>7. OffHandled'
  BY <1>1, <1>3, <1>4, <1>6 DEF NotesIInv, NotesTypeOK, OffHandled
<1>8. \A s : Reinstalling(s)' = Reinstalling(s)
  BY <1>1 DEF Reinstalling
<1>9. EnteredNotOff' /\ OffIsOff'
  BY <1>1 DEF NotesIInv, EnteredNotOff, OffIsOff
<1>10. OnHandled' /\ OnIsOwn'
  BY <1>1, <1>3, <1>4, <1>8 DEF NotesIInv, NotesTypeOK, OnHandled, OnIsOwn
<1> QED BY <1>5, <1>7, <1>9, <1>10 DEF NotesIInv

\* notifyon() and notifyoff(), not while noteinit() runs.
LEMMA SetonKeeps ==
    ASSUME NotesIInv, NEW z \in Signals, NEW isOn \in BOOLEAN, notifyseton(z, isOn)
    PROVE  NotesIInv'
<1>1. /\ npc = "run" /\ npc' = npc /\ alive /\ alive' = alive
      /\ handler' = [handler EXCEPT ![z] = IF isOn THEN "notify" ELSE "nonotify"]
      /\ on' = IF isOn THEN on \cup {z} ELSE on \ {z}
      /\ off' = IF isOn \/ Reinstalling(z) THEN off \ {z} ELSE off \cup {z}
      /\ notifyf' = notifyf /\ nsig' = nsig /\ saved' = saved /\ inited' = inited /\ note' = note /\ wrong' = wrong
  BY DEF notifyseton, Live
<1>2. /\ handler' \in [Signals -> SigHandlers] /\ handler'[z] = (IF isOn THEN "notify" ELSE "nonotify")
      /\ \A s \in Signals : s # z => handler'[s] = handler[s]
  BY <1>1 DEF NotesIInv, NotesTypeOK, SigHandlers
<1>3. ~Probed /\ ~Probed'
  BY <1>1 DEF Probed
<1>4. NotesTypeOK'
  BY <1>1, <1>2 DEF NotesIInv, NotesTypeOK
<1>5. \A s : Reinstalling(s)' = Reinstalling(s)
  BY <1>1 DEF Reinstalling
<1>6. OffHandled'
  BY <1>1, <1>2, <1>3 DEF NotesIInv, NotesTypeOK, OffHandled
<1>7. EnteredNotOff' /\ OffIsOff'
  BY <1>1 DEF NotesIInv, EnteredNotOff, OffIsOff, Reinstalling
<1>8. OnHandled' /\ OnIsOwn'
  BY <1>1, <1>2, <1>3, <1>5 DEF NotesIInv, NotesTypeOK, OnHandled, OnIsOwn
<1> QED BY <1>4, <1>6, <1>7, <1>8 DEF NotesIInv

\* A signal is delivered, and its handler used up.
LEMMA DeliverKeeps == ASSUME NotesIInv, NEW z \in Signals, Deliver(z) PROVE NotesIInv'
<1>1. /\ alive /\ note = NoNote /\ alive' = (handler[z] # "dfl")
      /\ handler' = [handler EXCEPT ![z] = "dfl"]
      /\ note' = IF handler[z] = "notify" THEN [sig |-> z, at |-> "entry"] ELSE note
      /\ off' = off \ {z} /\ on' = IF handler[z] = "notify" THEN on ELSE on \ {z}
      /\ wrong' = (wrong \/ (handler[z] = "notify" /\ z \in off))
      /\ notifyf' = notifyf /\ npc' = npc /\ nsig' = nsig /\ saved' = saved /\ inited' = inited
  BY DEF Deliver
<1>2. /\ handler' \in [Signals -> SigHandlers] /\ handler'[z] = "dfl"
      /\ \A s \in Signals : s # z => handler'[s] = handler[s]
  BY <1>1 DEF NotesIInv, NotesTypeOK, SigHandlers
<1>3. Probed' = Probed /\ ProbedSig' = ProbedSig
  BY <1>1 DEF Probed, ProbedSig
<1>4. note'.at \in {"none", "entry", "call"} /\ (note' = NoNote \/ note'.sig \in Signals)
  BY <1>1 DEF NoNote
<1>5. wrong' = FALSE
  BY <1>1 DEF NotesIInv, OffHandled, OffIsOff
<1>6. on' \subseteq Signals /\ off' \subseteq Signals /\ alive' \in BOOLEAN
  BY <1>1 DEF NotesIInv, NotesTypeOK
<1>7. NotesTypeOK'
  BY <1>1, <1>2, <1>4, <1>5, <1>6 DEF NotesIInv, NotesTypeOK
<1>8. OffHandled'
  BY <1>1, <1>2, <1>3 DEF NotesIInv, NotesTypeOK, OffHandled
<1>9. EnteredNotOff' /\ OffIsOff'
  BY <1>1, <1>5 DEF NotesIInv, EnteredNotOff, OffIsOff, NoNote
<1>10. \A s : ~Reinstalling(s)
  BY <1>1 DEF Reinstalling, NoNote
<1>11. OnHandled'
  <2>1. ASSUME alive', NEW s \in on'
        PROVE  handler'[s] = "notify" \/ Reinstalling(s)' \/ (Probed' /\ s = ProbedSig')
    <3>1. s \in Signals BY <1>6, <2>1
    <3>2. CASE s = z
      <4>1. handler[z] = "notify" BY <1>1, <2>1, <3>2
      <4> QED BY <1>1, <3>2, <4>1 DEF Reinstalling
    <3>3. CASE s # z
      <4>1. s \in on /\ handler'[s] = handler[s] BY <1>1, <1>2, <2>1, <3>1, <3>3
      <4>2. handler[s] = "notify" \/ (Probed /\ s = ProbedSig)
        BY <1>1, <1>10, <4>1 DEF NotesIInv, OnHandled
      <4> QED BY <1>3, <4>1, <4>2
    <3> QED BY <3>2, <3>3
  <2> QED BY <2>1 DEF OnHandled
<1>12. OnIsOwn'
  BY <1>1, <1>2, <1>3 DEF NotesIInv, NotesTypeOK, OnIsOwn
<1> QED BY <1>7, <1>8, <1>9, <1>11, <1>12 DEF NotesIInv

\* signotify() installs itself again.
LEMMA SignotifyKeeps == ASSUME NotesIInv, signotify PROVE NotesIInv'
<1> DEFINE z == note.sig
<1>1. /\ alive /\ alive' = alive /\ note.at = "entry"
      /\ handler' = [handler EXCEPT ![z] = "notify"] /\ note' = [note EXCEPT !.at = "call"]
      /\ notifyf' = notifyf /\ npc' = npc /\ nsig' = nsig /\ saved' = saved /\ inited' = inited
      /\ on' = on /\ off' = off /\ wrong' = wrong
  BY DEF signotify, Reinstalled
<1>2. z \in Signals /\ z \notin off
  BY <1>1 DEF NotesIInv, NotesTypeOK, NoNote, EnteredNotOff
<1>3. /\ handler' \in [Signals -> SigHandlers] /\ handler'[z] = "notify"
      /\ \A s \in Signals : s # z => handler'[s] = handler[s]
  BY <1>1, <1>2 DEF NotesIInv, NotesTypeOK, SigHandlers
<1>4. Probed' = Probed /\ ProbedSig' = ProbedSig
  BY <1>1 DEF Probed, ProbedSig
<1>5. \A s : Reinstalling(s) => s = z
  BY DEF Reinstalling
<1>6. note' = NoNote \/ (note'.sig \in Signals /\ note'.at = "call")
  BY <1>1, <1>2
<1>7. note'.at \in {"none", "entry", "call"} /\ note'.at # "entry"
  BY <1>6 DEF NoNote
<1> HIDE DEF z
<1>8. NotesTypeOK'
  BY <1>1, <1>3, <1>6, <1>7 DEF NotesIInv, NotesTypeOK
<1>9. OffHandled'
  BY <1>1, <1>2, <1>3, <1>4 DEF NotesIInv, NotesTypeOK, OffHandled
<1>10. EnteredNotOff' /\ OffIsOff'
  BY <1>1, <1>7 DEF NotesIInv, EnteredNotOff, OffIsOff
<1>11. OnHandled' /\ OnIsOwn'
  BY <1>1, <1>3, <1>4, <1>5 DEF NotesIInv, NotesTypeOK, OnHandled, OnIsOwn
<1> QED BY <1>8, <1>9, <1>10, <1>11 DEF NotesIInv

\* The Plan 9 handler continues the program, or the process ends.
LEMMA NotedKeeps == ASSUME NotesIInv, Continue \/ Default PROVE NotesIInv'
<1>1. CASE Continue
  <2>1. /\ note.at = "call" /\ note' = NoNote /\ handler' = handler /\ alive' = alive
        /\ notifyf' = notifyf /\ npc' = npc /\ nsig' = nsig /\ saved' = saved /\ inited' = inited
        /\ on' = on /\ off' = off /\ wrong' = wrong
    BY <1>1 DEF Continue
  <2>2. NotesTypeOK'
    BY <2>1 DEF NotesIInv, NotesTypeOK, NoNote
  <2>3. \A s : ~Reinstalling(s)
    BY <2>1 DEF Reinstalling
  <2>4. Probed' = Probed /\ ProbedSig' = ProbedSig
    BY <2>1 DEF Probed, ProbedSig
  <2>5. OffHandled' /\ EnteredNotOff' /\ OnHandled' /\ OnIsOwn' /\ OffIsOff'
    BY <2>1, <2>3, <2>4 DEF NotesIInv, OffHandled, EnteredNotOff, OnHandled, OnIsOwn, OffIsOff, NoNote
  <2> QED BY <2>2, <2>5 DEF NotesIInv
<1>2. CASE Default
  <2>1. /\ note.at = "call" /\ note' = note /\ ~alive' /\ alive' \in BOOLEAN
        /\ handler' = [handler EXCEPT ![note.sig] = "dfl"]
        /\ notifyf' = notifyf /\ npc' = npc /\ nsig' = nsig /\ saved' = saved /\ inited' = inited
        /\ on' = on /\ off' = off /\ wrong' = wrong
    BY <1>2 DEF Default
  <2>2. handler' \in [Signals -> SigHandlers]
    BY <2>1 DEF NotesIInv, NotesTypeOK, SigHandlers
  <2>3. NotesTypeOK'
    BY <2>1, <2>2 DEF NotesIInv, NotesTypeOK
  <2>4. OffHandled' /\ EnteredNotOff' /\ OnHandled' /\ OnIsOwn' /\ OffIsOff'
    BY <2>1 DEF NotesIInv, OffHandled, EnteredNotOff, OnHandled, OnIsOwn, OffIsOff
  <2> QED BY <2>3, <2>4 DEF NotesIInv
<1> QED BY <1>1, <1>2

\* The inductive invariant on the handlers of signals holds always, for any
\* table sigs[] and whoever has installed a handler before.
THEOREM NotesInvariance == NotesSpec => []NotesIInv
<1>1. NotesIInv /\ [NotesNext]_nvars => NotesIInv'
  <2> SUFFICES ASSUME NotesIInv, [NotesNext]_nvars PROVE NotesIInv'
    OBVIOUS
  <2>1. CASE UNCHANGED nvars
    <3>1. /\ handler' = handler /\ note' = note /\ alive' = alive /\ on' = on /\ off' = off /\ wrong' = wrong
          /\ notifyf' = notifyf /\ npc' = npc /\ nsig' = nsig /\ saved' = saved /\ inited' = inited
      BY <2>1 DEF nvars
    <3> QED BY <3>1 DEF NotesIInv, NotesTypeOK, OffHandled, EnteredNotOff, OnHandled, OnIsOwn, OffIsOff,
                       Probed, ProbedSig, Reinstalling
  <2>2. CASE NotesNext
    BY <2>2, NotifyKeeps, ProbeKeeps, RestoreKeeps, InstallKeeps, SetonKeeps, DeliverKeeps,
       SignotifyKeeps, NotedKeeps DEF NotesNext
  <2> QED BY <2>1, <2>2
<1> QED BY <1>1, NotesInitOK, PTL DEF NotesSpec

\* A note that is on stays on over its deliveries (signotify()) and noteinit(),
\* and one that was turned off does not reach the Plan 9 handler.
THEOREM NotesCorrect == NotesSpec => []NotesOK
<1>1. NotesIInv => NotesOK
  BY DEF NotesIInv, NotesOK, OnStaysOn, OnHandled, Probed
<1> QED BY <1>1, NotesInvariance, PTL

-----------------------------------------------------------------------------
(* The environment.                                                       *)

EnvEntries == [name : EnvNames, val : EnvValues]

\* Every variable has its type.
EnvTypeOK ==
    /\ environ \in Seq(EnvEntries) /\ envsz \in Nat /\ penv \in [EnvIds -> EnvValues \cup {"none"}]

\* A name has one entry, in whatever case.
OneEntry == \A i, j \in DOMAIN environ : environ[i].name.id = environ[j].name.id => i = j

\* The entry holds what was put last; without an entry nothing was put.
HoldsLast ==
    /\ \A i \in DOMAIN environ : penv[environ[i].name.id] = environ[i].val
    /\ \A id \in EnvIds : (\A i \in DOMAIN environ : environ[i].name.id # id) => penv[id] = "none"

EnvIInv == EnvTypeOK /\ OneEntry /\ HoldsLast /\ EnvFits

\* get() finds the entry of a name, which is the only one.
LEMMA GetFinds ==
    ASSUME NEW e \in Seq(EnvEntries), NEW name \in EnvNames,
           \A i, j \in DOMAIN e : e[i].name.id = e[j].name.id => i = j
    PROVE  /\ (\A i \in DOMAIN e : e[i].name.id # name.id) => get(e, name) = 0
           /\ \A i \in DOMAIN e : e[i].name.id = name.id => get(e, name) = i
<1>1. DOMAIN e \subseteq Nat \ {0}
  BY LenProperties
<1>2. ASSUME \A i \in DOMAIN e : e[i].name.id # name.id PROVE get(e, name) = 0
  <2>1. SameName(e, name) = {}
    BY <1>2 DEF SameName
  <2> QED BY <2>1 DEF get
<1>3. ASSUME NEW i \in DOMAIN e, e[i].name.id = name.id PROVE get(e, name) = i
  <2>1. SameName(e, name) = {i}
    BY <1>3 DEF SameName
  <2>2. i <= i
    BY <1>1
  <2>3. (CHOOSE k \in {i} : \A j \in {i} : k <= j) = i
    BY <2>2
  <2> QED BY <2>1, <2>3 DEF get
<1> QED BY <1>2, <1>3

\* The environment that Windows passes has each name once.
LEMMA EnvironInitOK == EnvironInit => EnvIInv
<1> SUFFICES ASSUME EnvironInit PROVE EnvIInv
  OBVIOUS
<1>1. PICK e \in Inherit0 : environ = [i \in DOMAIN e |->
            IF e[i].name.id = PathId THEN [e[i] EXCEPT !.name.up = TRUE] ELSE e[i]]
  BY DEF EnvironInit
<1>2. /\ e \in Seq(EnvEntries) /\ DOMAIN e = 1..Len(e) /\ Len(e) \in Nat
      /\ \A i, j \in DOMAIN e : e[i].name.id = e[j].name.id => i = j
  BY InheritAssumption, LenProperties DEF EnvEntries
<1>3. ASSUME NEW i \in 1..Len(e)
      PROVE  environ[i] \in EnvEntries /\ environ[i].name.id = e[i].name.id
  <2>1. e[i] \in EnvEntries
    BY <1>2
  <2>2. CASE e[i].name.id = PathId
    <3>1. environ[i] = [e[i] EXCEPT !.name.up = TRUE]
      BY <1>1, <1>2, <2>2
    <3> QED BY <2>1, <3>1 DEF EnvEntries, EnvNames
  <2>3. CASE e[i].name.id # PathId
    BY <1>1, <1>2, <2>1, <2>3
  <2> QED BY <2>2, <2>3
<1>4. environ \in [1..Len(e) -> EnvEntries]
  BY <1>1, <1>2, <1>3
<1>5. environ \in Seq(EnvEntries)
  BY <1>2, <1>4, SeqDef
<1>6. Len(environ) = Len(e) /\ DOMAIN environ = 1..Len(e)
  BY <1>2, <1>4, <1>5, LenProperties
<1>7. OneEntry
  BY <1>2, <1>3, <1>6 DEF OneEntry
<1>8. envsz = Len(environ) + Nmore /\ envsz \in Nat /\ Len(environ) <= envsz
  BY <1>2, <1>6, EnvAssumption DEF EnvironInit
<1>9. penv = [id \in EnvIds |-> p9getenv(environ, [id |-> id, up |-> FALSE])]
  BY DEF EnvironInit
<1>10. ASSUME NEW id \in EnvIds, \A i \in DOMAIN environ : environ[i].name.id # id PROVE penv[id] = "none"
  <2>1. [id |-> id, up |-> FALSE] \in EnvNames BY DEF EnvNames
  <2>2. get(environ, [id |-> id, up |-> FALSE]) = 0
    BY <1>5, <1>7, <1>10, <2>1, GetFinds DEF OneEntry
  <2> QED BY <1>9, <2>2 DEF p9getenv
<1>11. ASSUME NEW i \in DOMAIN environ PROVE penv[environ[i].name.id] = environ[i].val
  <2> DEFINE id == environ[i].name.id
  <2>1. environ[i] \in EnvEntries BY <1>3, <1>6
  <2>2. id \in EnvIds BY <2>1 DEF EnvEntries, EnvNames
  <2>3. [id |-> id, up |-> FALSE] \in EnvNames BY <2>2 DEF EnvNames
  <2>4. get(environ, [id |-> id, up |-> FALSE]) = i
    BY <1>5, <1>7, <2>3, GetFinds DEF OneEntry
  <2>5. i # 0 BY <1>2, <1>6
  <2> QED BY <1>9, <2>2, <2>4, <2>5 DEF p9getenv
<1>12. penv \in [EnvIds -> EnvValues \cup {"none"}]
  <2>1. ASSUME NEW id \in EnvIds PROVE penv[id] \in EnvValues \cup {"none"}
    <3>1. CASE \A i \in DOMAIN environ : environ[i].name.id # id
      BY <1>10, <3>1
    <3>2. ASSUME NEW i \in DOMAIN environ, environ[i].name.id = id PROVE penv[id] \in EnvValues
      <4>1. environ[i] \in EnvEntries BY <1>3, <1>6
      <4> QED BY <1>11, <3>2, <4>1 DEF EnvEntries
    <3> QED BY <3>1, <3>2
  <2> QED BY <1>9, <2>1
<1> QED BY <1>5, <1>7, <1>8, <1>10, <1>11, <1>12 DEF EnvIInv, EnvTypeOK, HoldsLast, EnvFits

\* p9putenv(): the entry of the name gets the value, or a new one has it.
LEMMA PutenvKeeps ==
    ASSUME EnvIInv, NEW name \in EnvNames, NEW v \in EnvValues, p9putenv(name, v)
    PROVE  EnvIInv'
<1> DEFINE g == get(environ, name)
<1>1. /\ environ \in Seq(EnvEntries) /\ envsz \in Nat /\ Len(environ) \in Nat
      /\ DOMAIN environ = 1..Len(environ) /\ Len(environ) <= envsz /\ OneEntry
      /\ penv \in [EnvIds -> EnvValues \cup {"none"}]
  BY LenProperties DEF EnvIInv, EnvTypeOK, EnvFits
<1>2. /\ (\A i \in DOMAIN environ : environ[i].name.id # name.id) => g = 0
      /\ \A i \in DOMAIN environ : environ[i].name.id = name.id => g = i
  BY <1>1, GetFinds DEF OneEntry
<1>3. /\ environ' = IF g # 0 THEN [environ EXCEPT ![g].val = v] ELSE Append(environ, [name |-> name, val |-> v])
      /\ envsz' = IF g = 0 /\ Len(environ) = envsz THEN envsz + Nmore ELSE envsz
      /\ penv' = [penv EXCEPT ![name.id] = v]
  BY DEF p9putenv, EnvFull
<1> HIDE DEF g
<1>4. name.id \in EnvIds
  BY DEF EnvNames
<1>5. /\ penv' \in [EnvIds -> EnvValues \cup {"none"}] /\ penv'[name.id] = v
      /\ \A id \in EnvIds : id # name.id => penv'[id] = penv[id]
  BY <1>1, <1>3, <1>4
<1>6. ASSUME NEW i \in DOMAIN environ PROVE environ[i] \in EnvEntries /\ environ[i].name.id \in EnvIds
  <2>1. environ[i] \in EnvEntries BY <1>1
  <2> QED BY <2>1 DEF EnvEntries, EnvNames
<1>7. CASE g # 0
  <2>1. g \in DOMAIN environ /\ environ[g].name.id = name.id
    <3>1. PICK i \in DOMAIN environ : environ[i].name.id = name.id BY <1>2, <1>7
    <3> QED BY <1>2, <3>1
  <2>2. environ' = [environ EXCEPT ![g].val = v]
    BY <1>3, <1>7
  <2>3. ASSUME NEW i \in DOMAIN environ
        PROVE  /\ environ'[i] \in EnvEntries /\ environ'[i].name = environ[i].name
               /\ environ'[i].val = IF i = g THEN v ELSE environ[i].val
    <3>1. environ[i] \in EnvEntries BY <1>6
    <3> QED BY <2>1, <2>2, <3>1 DEF EnvEntries
  <2>4. environ' \in [1..Len(environ) -> EnvEntries] /\ DOMAIN environ' = DOMAIN environ
    BY <1>1, <2>2, <2>3
  <2>5. environ' \in Seq(EnvEntries)
    BY <1>1, <2>4, SeqDef
  <2>6. Len(environ') = Len(environ)
    BY <1>1, <2>4, <2>5, LenProperties
  <2>7. OneEntry'
    BY <1>1, <2>3, <2>4 DEF OneEntry
  <2>8. \A i \in DOMAIN environ' : penv'[environ'[i].name.id] = environ'[i].val
    <3>1. ASSUME NEW i \in DOMAIN environ PROVE penv'[environ'[i].name.id] = environ'[i].val
      <4>1. CASE i = g BY <1>5, <2>1, <2>3, <4>1
      <4>2. CASE i # g
        <5>1. environ[i].name.id # name.id BY <1>2, <4>2
        <5> QED BY <1>5, <1>6, <2>3, <4>2, <5>1 DEF EnvIInv, HoldsLast
      <4> QED BY <4>1, <4>2
    <3> QED BY <2>4, <3>1
  <2>9. ASSUME NEW id \in EnvIds, \A i \in DOMAIN environ' : environ'[i].name.id # id PROVE penv'[id] = "none"
    <3>1. \A i \in DOMAIN environ : environ[i].name.id # id BY <2>3, <2>4, <2>9
    <3>2. id # name.id BY <2>1, <3>1
    <3> QED BY <1>5, <3>1, <3>2 DEF EnvIInv, HoldsLast
  <2>10. envsz' = envsz
    BY <1>3, <1>7
  <2> QED BY <1>1, <1>5, <2>5, <2>6, <2>7, <2>8, <2>9, <2>10 DEF EnvIInv, EnvTypeOK, HoldsLast, EnvFits
<1>8. CASE g = 0
  <2> DEFINE n == [name |-> name, val |-> v]
             L == Len(environ)
  <2>1. \A i \in DOMAIN environ : environ[i].name.id # name.id
    BY <1>1, <1>2, <1>8
  <2>2. n \in EnvEntries /\ n.name.id = name.id /\ n.val = v
    BY DEF EnvEntries
  <2>3. environ' = Append(environ, n)
    BY <1>3, <1>8
  <2> HIDE DEF n
  <2>4. /\ environ' \in Seq(EnvEntries) /\ Len(environ') = L + 1 /\ environ'[L + 1] = n
        /\ \A i \in 1..L : environ'[i] = environ[i]
    BY <1>1, <2>2, <2>3, AppendProperties
  <2>5. DOMAIN environ' = 1..(L + 1)
    BY <2>4, LenProperties
  <2>6. OneEntry'
    <3>1. ASSUME NEW i \in 1..(L + 1), NEW j \in 1..(L + 1), environ'[i].name.id = environ'[j].name.id PROVE i = j
      <4>1. CASE i = L + 1 /\ j = L + 1 BY <4>1
      <4>2. CASE i = L + 1 /\ j # L + 1
        <5>1. j \in 1..L BY <1>1, <4>2
        <5> QED BY <1>1, <2>1, <2>2, <2>4, <3>1, <4>2, <5>1
      <4>3. CASE i # L + 1 /\ j = L + 1
        <5>1. i \in 1..L BY <1>1, <4>3
        <5> QED BY <1>1, <2>1, <2>2, <2>4, <3>1, <4>3, <5>1
      <4>4. CASE i # L + 1 /\ j # L + 1
        <5>1. i \in 1..L /\ j \in 1..L BY <1>1, <4>4
        <5> QED BY <1>1, <2>4, <3>1, <5>1 DEF OneEntry
      <4> QED BY <4>1, <4>2, <4>3, <4>4
    <3> QED BY <2>5, <3>1 DEF OneEntry
  <2>7. \A i \in DOMAIN environ' : penv'[environ'[i].name.id] = environ'[i].val
    <3>1. ASSUME NEW i \in 1..(L + 1) PROVE penv'[environ'[i].name.id] = environ'[i].val
      <4>1. CASE i = L + 1 BY <1>5, <2>2, <2>4, <4>1
      <4>2. CASE i # L + 1
        <5>1. i \in DOMAIN environ /\ environ'[i] = environ[i] BY <1>1, <2>4, <4>2
        <5> QED BY <1>5, <1>6, <2>1, <5>1 DEF EnvIInv, HoldsLast
      <4> QED BY <4>1, <4>2
    <3> QED BY <2>5, <3>1
  <2>8. ASSUME NEW id \in EnvIds, \A i \in DOMAIN environ' : environ'[i].name.id # id PROVE penv'[id] = "none"
    <3>1. L + 1 \in DOMAIN environ' /\ DOMAIN environ \subseteq DOMAIN environ' BY <1>1, <2>5
    <3>2. id # name.id BY <2>2, <2>4, <2>8, <3>1
    <3>3. \A i \in DOMAIN environ : environ[i].name.id # id BY <1>1, <2>4, <2>8, <3>1
    <3> QED BY <1>5, <3>2, <3>3 DEF EnvIInv, HoldsLast
  <2>9. envsz' \in Nat /\ L + 1 <= envsz'
    BY <1>1, <1>3, <1>8, EnvAssumption
  <2> QED BY <1>5, <2>4, <2>6, <2>7, <2>8, <2>9 DEF EnvIInv, EnvTypeOK, HoldsLast, EnvFits
<1> QED BY <1>7, <1>8

\* winsortenv(): the entries change places, and none is lost.
LEMMA SortKeeps == ASSUME EnvIInv, winsortenv PROVE EnvIInv'
<1> DEFINE D == DOMAIN environ
<1>1. PICK p \in [D -> D] :
          /\ \A i, j \in D : i # j => p[i] # p[j]
          /\ environ' = [i \in D |-> environ[p[i]]]
  BY DEF winsortenv
<1>2. envsz' = envsz /\ penv' = penv
  BY DEF winsortenv
<1>3. environ \in Seq(EnvEntries) /\ D = 1..Len(environ) /\ Len(environ) \in Nat
  BY LenProperties DEF EnvIInv, EnvTypeOK
<1> HIDE DEF D
<1>4. environ' \in [1..Len(environ) -> EnvEntries]
  BY <1>1, <1>3
<1>5. environ' \in Seq(EnvEntries)
  BY <1>3, <1>4, SeqDef
<1>6. Len(environ') = Len(environ) /\ DOMAIN environ' = D
  BY <1>3, <1>4, <1>5, LenProperties
<1>7. p \in Injection(D, D)
  BY <1>1 DEF Injection, IsInjective
<1>8. p \in Surjection(D, D)
  <2>1. IsFiniteSet(D) BY <1>3, FS_Interval
  <2> QED BY <1>7, <2>1, FS_Injection
<1>9. \A j \in D : \E i \in D : p[i] = j
  BY <1>8 DEF Surjection
<1>10. OneEntry'
  <2>1. ASSUME NEW i \in D, NEW j \in D, environ'[i].name.id = environ'[j].name.id PROVE i = j
    <3>1. p[i] \in D /\ p[j] \in D /\ environ'[i] = environ[p[i]] /\ environ'[j] = environ[p[j]] BY <1>1
    <3>2. p[i] = p[j] BY <2>1, <3>1 DEF EnvIInv, OneEntry, D
    <3> QED BY <1>1, <3>2
  <2> QED BY <1>6, <2>1 DEF OneEntry
<1>11. \A i \in DOMAIN environ' : penv'[environ'[i].name.id] = environ'[i].val
  <2>1. ASSUME NEW i \in D PROVE penv'[environ'[i].name.id] = environ'[i].val
    <3>1. p[i] \in D /\ environ'[i] = environ[p[i]] BY <1>1
    <3> QED BY <1>2, <3>1 DEF EnvIInv, HoldsLast, D
  <2> QED BY <1>6, <2>1
<1>12. ASSUME NEW id \in EnvIds, \A i \in DOMAIN environ' : environ'[i].name.id # id PROVE penv'[id] = "none"
  <2>1. ASSUME NEW j \in D PROVE environ[j].name.id # id
    <3>1. PICK i \in D : p[i] = j BY <1>9
    <3> QED BY <1>1, <1>6, <1>12, <3>1
  <2> QED BY <1>2, <2>1 DEF EnvIInv, HoldsLast, D
<1> QED BY <1>2, <1>5, <1>6, <1>10, <1>11, <1>12 DEF EnvIInv, EnvTypeOK, HoldsLast, EnvFits

\* The inductive invariant of the environment holds always, for any names,
\* values and environment that a process starts with.
THEOREM EnvInvariance == EnvironSpec => []EnvIInv
<1>1. EnvIInv /\ [EnvironNext]_evars => EnvIInv'
  <2> SUFFICES ASSUME EnvIInv, [EnvironNext]_evars PROVE EnvIInv'
    OBVIOUS
  <2>1. CASE UNCHANGED evars
    BY <2>1 DEF evars, EnvIInv, EnvTypeOK, OneEntry, HoldsLast, EnvFits
  <2>2. CASE EnvironNext
    BY <2>2, PutenvKeeps, SortKeeps DEF EnvironNext
  <2> QED BY <2>1, <2>2
<1> QED BY <1>1, EnvironInitOK, PTL DEF EnvironSpec

\* get() answers with what p9putenv() was given last for a name, in whatever
\* case and after any winsortenv(); and the array is large enough.
THEOREM EnvironCorrect == EnvironSpec => []EnvOK
<1>1. EnvIInv => EnvOK
  <2> SUFFICES ASSUME EnvIInv, NEW name \in EnvNames
               PROVE  /\ p9getenv(environ, name) = penv[name.id]
                      /\ Cardinality({i \in DOMAIN environ : environ[i].name.id = name.id}) <= 1
    BY DEF EnvIInv, EnvOK, LastPutCounts
  <2>1. environ \in Seq(EnvEntries) /\ DOMAIN environ \subseteq Nat \ {0} /\ OneEntry /\ name.id \in EnvIds
    BY LenProperties DEF EnvIInv, EnvTypeOK, EnvNames
  <2>2. /\ (\A i \in DOMAIN environ : environ[i].name.id # name.id) => get(environ, name) = 0
        /\ \A i \in DOMAIN environ : environ[i].name.id = name.id => get(environ, name) = i
    BY <2>1, GetFinds DEF OneEntry
  <2> DEFINE C == {i \in DOMAIN environ : environ[i].name.id = name.id}
  <2>3. CASE \A i \in DOMAIN environ : environ[i].name.id # name.id
    <3>1. C = {} BY <2>3
    <3>2. Cardinality(C) = 0 BY <3>1, FS_EmptySet
    <3>3. p9getenv(environ, name) = "none" BY <2>2, <2>3 DEF p9getenv
    <3> QED BY <2>1, <2>3, <3>2, <3>3 DEF EnvIInv, HoldsLast
  <2>4. ASSUME NEW i \in DOMAIN environ, environ[i].name.id = name.id
        PROVE  p9getenv(environ, name) = penv[name.id] /\ Cardinality(C) <= 1
    <3>1. C = {i} BY <2>1, <2>4 DEF OneEntry
    <3>2. Cardinality(C) = 1 BY <3>1, FS_Singleton
    <3>3. get(environ, name) = i /\ i # 0 BY <2>1, <2>2, <2>4
    <3>4. p9getenv(environ, name) = environ[i].val BY <3>3 DEF p9getenv
    <3> QED BY <2>4, <3>2, <3>4 DEF EnvIInv, HoldsLast
  <2> QED BY <2>3, <2>4
<1> QED BY <1>1, EnvInvariance, PTL

=============================================================================
