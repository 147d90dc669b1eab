------------------------ MODULE WriteControllerProofs ------------------------
(* The write barrier holds on both kinds of nodes, for every set of        *)
(* writers and every bound on the pulses: on the virtual node, whose       *)
(* module this one extends, and on the light node, which is the instance   *)
(* Light.  Each has an invariant Inv to carry.                             *)
EXTENDS VirtualWriteController, FiniteSetTheorems, TLAPS

\* The counter of the light node's wait group.  All the other variables of
\* its controller and of its pulse manager have their names here.
VARIABLE wg

Light == INSTANCE WriteController

-----------------------------------------------------------------------------
(* The virtual node.  Its invariant relates the three things that the code *)
(* keeps apart: the counter of the wait group in use, the closed flag, and *)
(* how far Set has come.                                                   *)

\* The writes in progress are finitely many, and a write that begins or ends
\* changes their number by one.
LEMMA ActiveFinite == IsFiniteSet(Active) /\ Cardinality(Active) \in Nat
BY FS_Subset, FS_CardinalityType, WritersAssumption DEF Active

LEMMA ActiveAdd ==
    ASSUME Inv, NEW w \in Writers, NEW p \in Pulses, Begin(w, p)
    PROVE  Cardinality(Active') = Cardinality(Active) + 1
<1>1. w \notin Active /\ Active' = Active \cup {w}
  BY MaxPulseAssumption DEF Active, Begin, Inv, TypeOK, Pulses
<1> QED BY <1>1, ActiveFinite, FS_AddElement

LEMMA ActiveRemove ==
    ASSUME Inv, NEW w \in Writers, Done(w)
    PROVE  Cardinality(Active') = Cardinality(Active) - 1
<1>1. w \in Active /\ Active' = Active \ {w}
  BY DEF Active, Done, Inv, TypeOK
<1> QED BY <1>1, ActiveFinite, FS_RemoveElement

\* A wait group in use that is not armed and stands at zero: nobody writes.
LEMMA ZeroIsQuiet ==
    ASSUME GroupsAreExact, count[gen] = 0
    PROVE  Active = {}
<1>1. Cardinality(Active) = 0
  BY ActiveFinite DEF GroupsAreExact, Armed
<1> QED BY <1>1, ActiveFinite, FS_EmptySet

\* What a Done of an exact wait group does to the groups and their waiters:
\* it stays a natural number, and a group that reaches zero has no sleeper.
LEMMA DoneWakesFacts ==
    ASSUME TypeOK, NEW g \in Groups, count[g] # 0, DoneWakes(g)
    PROVE  /\ count' \in [Groups -> Nat]
           /\ count'[g] = count[g] - 1
           /\ \A h \in Groups \ {g} : count'[h] = count[h]
           /\ waiter' \in [Waiters -> WaiterStates]
           /\ \A h \in Groups : Sleeping(h)' \subseteq Sleeping(h)
           /\ count'[g] = 0 => Sleeping(g)' = {}
<1>1. /\ count' \in [Groups -> Nat]
      /\ count'[g] = count[g] - 1
      /\ \A h \in Groups \ {g} : count'[h] = count[h]
  BY DEF DoneWakes, TypeOK
<1>2. waiter' \in [Waiters -> WaiterStates]
  <2>1. [pc |-> "woken", wg |-> g] \in WaiterStates
    BY DEF WaiterStates
  <2> QED BY <2>1 DEF DoneWakes, TypeOK
<1>3. \A h \in Groups : Sleeping(h)' \subseteq Sleeping(h)
  <2> SUFFICES ASSUME NEW h \in Groups, NEW v \in Waiters,
                      waiter'[v] = [pc |-> "asleep", wg |-> h]
               PROVE  waiter[v] = [pc |-> "asleep", wg |-> h]
    BY DEF Sleeping
  <2>1. [pc |-> "woken", wg |-> g] # [pc |-> "asleep", wg |-> h]
    OBVIOUS
  <2> QED BY <2>1 DEF DoneWakes
<1>4. ASSUME count'[g] = 0 PROVE Sleeping(g)' = {}
  <2>1. count[g] = 1
    BY <1>1, <1>4 DEF TypeOK
  <2>2. ASSUME NEW v \in Waiters, waiter'[v] = [pc |-> "asleep", wg |-> g] PROVE FALSE
    <3>1. waiter[v] = [pc |-> "asleep", wg |-> g]
      BY <1>3, <2>2 DEF Sleeping
    <3>2. waiter'[v] = [pc |-> "woken", wg |-> g]
      BY <2>1, <3>1 DEF DoneWakes, Sleeping
    <3> QED BY <2>2, <3>2
  <2> QED BY <2>2 DEF Sleeping
<1> QED BY <1>1, <1>2, <1>3, <1>4

\* The invariant holds when the controller is made.
LEMMA InitInv == Init => Inv
<1> SUFFICES ASSUME Init PROVE Inv
  OBVIOUS
<1> USE MaxPulseAssumption
<1>1. Active = {} /\ Cardinality(Active) = 0
  BY FS_EmptySet DEF Init, Active
<1>2. TypeOK
  <2>1. Outside \in WaiterStates
    BY DEF Outside, WaiterStates, Groups
  <2>2. waiter \in [Waiters -> WaiterStates] /\ count \in [Groups -> Nat]
    BY <2>1 DEF Init
  <2>3. 0 \in Groups /\ Genesis \in Pulses /\ "start" \in SetStates
    BY DEF Groups, Genesis, Pulses, SetStates
  <2>4. 0 \in 0 .. MaxPulse
    OBVIOUS
  <2>5. writing \in [Writers -> 0 .. MaxPulse]
    BY <2>4 DEF Init
  <2> QED BY <2>2, <2>3, <2>4, <2>5, Zenon DEF Init, TypeOK
<1>3. GroupsAreExact
  BY <1>1 DEF Init, GroupsAreExact, Groups, Armed
<1>4. NobodyLeftAsleep
  BY DEF Init, NobodyLeftAsleep, Sleeping, Outside
<1> QED
  BY <1>1, <1>2, <1>3, <1>4 DEF Init, Inv, NoStaleWriter, StoragesAgree, Genesis

\* Opening a pulse while nobody writes and the group is armed.
LEMMA OpenPulseFacts ==
    ASSUME Inv, NEW p \in Pulses, OpenPulse(p), p > current,
           set \in {"start", "open"}, Active = {}
    PROVE  /\ gen' = gen + 1 /\ gen' \in Groups
           /\ count' \in [Groups -> Nat]
           /\ waiter' \in [Waiters -> WaiterStates]
           /\ \A g \in Groups : count'[g] = 0
           /\ NobodyLeftAsleep'
<1> USE MaxPulseAssumption
<1>1. gen' = gen + 1 /\ gen \in Groups /\ gen' \in Groups
  BY DEF OpenPulse, Inv, TypeOK, Groups, Pulses
<1>2. count[gen] = 1 /\ \A g \in Groups \ {gen} : count[g] = 0
  BY FS_EmptySet DEF Inv, GroupsAreExact, Armed
<1>3. /\ count' \in [Groups -> Nat] /\ waiter' \in [Waiters -> WaiterStates]
      /\ count'[gen] = 0
      /\ \A h \in Groups \ {gen} : count'[h] = count[h]
      /\ \A h \in Groups : Sleeping(h)' \subseteq Sleeping(h)
      /\ \A h \in Groups : h = gen => Sleeping(h)' = {}
  <2>1. TypeOK /\ count[gen] # 0 /\ DoneWakes(gen)
    BY <1>2 DEF OpenPulse, Inv
  <2>2. ASSUME NEW g \in Groups, g = gen
        PROVE  /\ count' \in [Groups -> Nat] /\ waiter' \in [Waiters -> WaiterStates]
               /\ count'[g] = 0
               /\ \A h \in Groups \ {g} : count'[h] = count[h]
               /\ \A h \in Groups : Sleeping(h)' \subseteq Sleeping(h)
               /\ Sleeping(g)' = {}
    BY <1>2, <2>1, <2>2, DoneWakesFacts
  <2> QED BY <1>1, <2>2
<1>4. NobodyLeftAsleep'
  <2> SUFFICES ASSUME NEW g \in Groups, g # gen' PROVE Sleeping(g)' = {}
    BY DEF NobodyLeftAsleep
  <2>1. CASE g = gen
    BY <1>3, <2>1
  <2>2. CASE g # gen
    <3>1. Sleeping(g) = {} /\ Sleeping(g)' \subseteq Sleeping(g)
      BY <1>3, <2>2 DEF NobodyLeftAsleep, Inv
    <3> QED BY <3>1
  <2> QED BY <2>1, <2>2
<1> QED BY <1>1, <1>2, <1>3, <1>4

\* Inv is inductive: one step per action.
LEMMA NextInv == Inv /\ [Next]_vars => Inv'
<1> SUFFICES ASSUME Inv, [Next]_vars PROVE Inv'
  OBVIOUS
<1> USE MaxPulseAssumption
<1>1. ASSUME NEW w \in Writers, NEW p \in Pulses, Begin(w, p) PROVE Inv'
  <2>1. TypeOK' /\ NoStaleWriter'
    BY <1>1 DEF Begin, Inv, TypeOK, NoStaleWriter, Pulses, manager, network
  <2>2. GroupsAreExact'
    <3>1. count'[gen] = count[gen] + 1 /\ \A g \in Groups \ {gen} : count'[g] = count[g]
      BY <1>1 DEF Begin, Inv, TypeOK
    <3>2. gen' = gen /\ set' = set /\ Armed \in Nat /\ Armed' = Armed
      BY <1>1 DEF Begin, manager, Armed
    <3>3. count[gen] = Cardinality(Active) + Armed
      BY DEF Inv, GroupsAreExact
    <3>4. count'[gen'] = Cardinality(Active') + Armed'
      BY <1>1, <3>1, <3>2, <3>3, ActiveAdd, ActiveFinite
    <3> QED BY <3>1, <3>2, <3>4 DEF Inv, GroupsAreExact
  <2>3. NobodyLeftAsleep' /\ StoragesAgree'
    BY <1>1 DEF Begin, Inv, NobodyLeftAsleep, Sleeping, StoragesAgree, manager
  <2>4. set \notin {"add", "open"}
    BY <1>1 DEF Begin, Inv
  <2> QED BY <1>1, <2>1, <2>2, <2>3, <2>4 DEF Begin, Inv, manager, network
<1>2. ASSUME NEW w \in Writers, Done(w) PROVE Inv'
  <2>1. count[gen] # 0 /\ gen \in Groups
    <3>1. Active # {}
      BY <1>2 DEF Done, Active
    <3> QED BY <3>1, ZeroIsQuiet DEF Inv, TypeOK
  <2>2. /\ count' \in [Groups -> Nat] /\ waiter' \in [Waiters -> WaiterStates]
        /\ count'[gen] = count[gen] - 1
        /\ \A h \in Groups \ {gen} : count'[h] = count[h]
        /\ \A h \in Groups : Sleeping(h)' \subseteq Sleeping(h)
    BY <1>2, <2>1, DoneWakesFacts DEF Done, Inv
  <2>3. TypeOK'
    BY <1>2, <2>2 DEF Done, Inv, TypeOK, SetStates, network
  <2>4. GroupsAreExact'
    <3>1. gen' = gen /\ Armed \in Nat /\ Armed' = Armed
      BY <1>2 DEF Done, Armed
    <3>2. count[gen] = Cardinality(Active) + Armed
      BY DEF Inv, GroupsAreExact
    <3>3. count'[gen'] = Cardinality(Active') + Armed'
      BY <1>2, <2>2, <3>1, <3>2, ActiveRemove, ActiveFinite
    <3> QED BY <2>2, <3>1, <3>3 DEF Inv, GroupsAreExact
  <2>5. NobodyLeftAsleep'
    BY <1>2, <2>2 DEF Done, Inv, NobodyLeftAsleep
  <2>6. NoStaleWriter' /\ StoragesAgree'
    BY <1>2 DEF Done, Inv, NoStaleWriter, StoragesAgree, TypeOK
  <2>7. set \notin {"add", "open"}
    BY <1>2 DEF Done, Inv, Active
  <2> QED BY <1>2, <2>3, <2>4, <2>5, <2>6, <2>7 DEF Done, Inv, network
<1>3. ASSUME NEW v \in Waiters, WaitOpened(v) PROVE Inv'
  <2>1. TypeOK'
    BY <1>3 DEF WaitOpened, Inv, TypeOK, WaiterStates, controller, manager, network
  <2>2. \A g \in Groups : Sleeping(g)' \subseteq Sleeping(g)
    BY <1>3 DEF WaitOpened, Sleeping, Inv, TypeOK
  <2>3. NobodyLeftAsleep'
    BY <1>3, <2>2 DEF WaitOpened, Inv, NobodyLeftAsleep, controller
  <2> QED
    BY <1>3, <2>1, <2>3 DEF WaitOpened, Inv, GroupsAreExact, Armed, Active, NoStaleWriter, StoragesAgree,
              controller, manager, network
<1>4. ASSUME NEW v \in Waiters, Wait(v) PROVE Inv'
  <2>1. TypeOK'
    <3>1. Outside \in WaiterStates
      BY DEF Outside, WaiterStates, Groups
    <3>2. waiter \in [Waiters -> WaiterStates] /\ waiter[v].wg \in Groups
      BY DEF Inv, TypeOK, WaiterStates
    <3>3. [waiter[v] EXCEPT !.pc = "asleep"] \in WaiterStates
      BY <3>2 DEF WaiterStates
    <3>4. waiter' \in [Waiters -> WaiterStates] /\ panicked' \in BOOLEAN
      BY <1>4, <3>1, <3>2, <3>3 DEF Wait, Inv, TypeOK
    <3> QED BY <1>4, <3>4 DEF Wait, Inv, TypeOK, controller, manager, network
  <2>2. \A g \in Groups \ {gen} : Sleeping(g)' \subseteq Sleeping(g)
    <3> SUFFICES ASSUME NEW g \in Groups \ {gen}, NEW u \in Waiters,
                        waiter'[u] = [pc |-> "asleep", wg |-> g]
                 PROVE  waiter[u] = [pc |-> "asleep", wg |-> g]
      BY DEF Sleeping
    <3>1. CASE u # v
      BY <1>4, <3>1 DEF Wait, Inv, TypeOK
    <3>2. CASE u = v /\ count[waiter[v].wg] = 0
      <4>1. waiter'[v] = Outside
        BY <1>4, <3>2 DEF Wait, Inv, TypeOK
      <4> QED BY <3>2, <4>1 DEF Outside
    <3>3. CASE u = v /\ count[waiter[v].wg] # 0
      <4>1. waiter[v].wg = gen
        BY <3>3 DEF Inv, GroupsAreExact, TypeOK, WaiterStates
      <4>2. waiter'[v].wg = waiter[v].wg
        BY <1>4, <3>3 DEF Wait, Inv, TypeOK, WaiterStates
      <4> QED BY <3>3, <4>1, <4>2
    <3> QED BY <3>1, <3>2, <3>3
  <2>3. NobodyLeftAsleep'
    BY <1>4, <2>2 DEF Wait, Inv, NobodyLeftAsleep, controller
  <2> QED
    BY <1>4, <2>1, <2>3 DEF Wait, Inv, GroupsAreExact, Armed, Active, NoStaleWriter, StoragesAgree,
              controller, manager, network
<1>5. CASE Start
  <2>1. Active = {} /\ Active' = {}
    BY <1>5 DEF Start, Inv, NoStaleWriter, Active
  <2>2. /\ gen' = gen + 1 /\ gen' \in Groups /\ count' \in [Groups -> Nat]
        /\ waiter' \in [Waiters -> WaiterStates]
        /\ \A g \in Groups : count'[g] = 0
        /\ NobodyLeftAsleep'
    BY <1>5, <2>1, OpenPulseFacts DEF Start, Genesis, Pulses, Inv
  <2>3. TypeOK'
    <3>1. current' = Genesis /\ closed' = FALSE /\ set' = "idle"
      BY <1>5 DEF Start, OpenPulse
    <3>2. Genesis \in 0 .. MaxPulse /\ "idle" \in SetStates
      BY DEF Genesis, SetStates
    <3> QED BY <1>5, <2>2, <3>1, <3>2 DEF Start, Inv, TypeOK, network
  <2>4. GroupsAreExact'
    BY <1>5, <2>1, <2>2, FS_EmptySet DEF Start, GroupsAreExact, Armed
  <2>5. latest = 0
    BY <1>5 DEF Start, Inv
  <2> QED
    BY <1>5, <2>1, <2>2, <2>3, <2>4, <2>5 DEF Start, OpenPulse, Inv, NoStaleWriter, StoragesAgree, Active, Genesis, network
<1>6. CASE OnPulseFromConsensus
  BY <1>6 DEF OnPulseFromConsensus, Inv, TypeOK, GroupsAreExact, Armed, NobodyLeftAsleep, Sleeping,
              NoStaleWriter, StoragesAgree, Active, Pulses, Genesis, controller, manager
<1>7. ASSUME NEW p \in Pulses, SetPulse(p) PROVE Inv'
  <2>1. TypeOK'
    BY <1>7 DEF SetPulse, Inv, TypeOK, SetStates, Pulses, Genesis, controller
  <2>2. GroupsAreExact' /\ NobodyLeftAsleep' /\ NoStaleWriter'
    BY <1>7 DEF SetPulse, Inv, GroupsAreExact, Armed, NobodyLeftAsleep, Sleeping, NoStaleWriter, Active, controller
  <2>3. StoragesAgree' /\ (set' = "close" => newPulse' > current')
    BY <1>7 DEF SetPulse, Inv, TypeOK, StoragesAgree, Pulses, Genesis, controller
  <2>4. set' \in {"close", "fatal"} /\ set = "idle"
    BY <1>7 DEF SetPulse
  <2> QED BY <1>7, <2>1, <2>2, <2>3, <2>4 DEF SetPulse, Inv, controller
<1>z. ASSUME NEW p \in Pulses, ZeroNodes(p) PROVE Inv'
  BY <1>z DEF ZeroNodes, Inv, TypeOK, GroupsAreExact, Armed, NobodyLeftAsleep, Sleeping,
              NoStaleWriter, StoragesAgree, Active, controller, manager
<1>8. CASE CloseAndWait
  BY <1>8 DEF CloseAndWait, Inv, TypeOK, SetStates, GroupsAreExact, Armed, NobodyLeftAsleep, Sleeping,
              NoStaleWriter, StoragesAgree, Active, network
<1>9. CASE WaitWriters
  <2>1. set' = "add" => Active' = {}
    BY <1>9, ZeroIsQuiet DEF WaitWriters, Inv, Active
  <2>2. set' \in {"add", "asleep"} /\ set \in {"wait", "woken"}
    BY <1>9 DEF WaitWriters
  <2> QED
    BY <1>9, <2>1, <2>2 DEF WaitWriters, Inv, TypeOK, SetStates, GroupsAreExact, Armed, NobodyLeftAsleep, Sleeping,
              NoStaleWriter, StoragesAgree, Active, network, controller
<1>10. CASE AddOne
  <2>1. GroupsAreExact'
    BY <1>10, ActiveFinite DEF AddOne, Inv, TypeOK, GroupsAreExact, Armed, Active
  <2> QED
    BY <1>10, <2>1 DEF AddOne, Inv, TypeOK, SetStates, NobodyLeftAsleep, Sleeping,
              NoStaleWriter, StoragesAgree, Active, network
<1>11. CASE Open
  <2>1. Active = {} /\ Active' = {}
    BY <1>11 DEF Open, Inv, Active
  <2>2. /\ gen' = gen + 1 /\ gen' \in Groups /\ count' \in [Groups -> Nat]
        /\ waiter' \in [Waiters -> WaiterStates]
        /\ \A g \in Groups : count'[g] = 0
        /\ NobodyLeftAsleep'
    <3>1. newPulse \in Pulses /\ newPulse > current
      BY <1>11 DEF Open, Inv, TypeOK, Pulses
    <3> QED BY <1>11, <2>1, <3>1, OpenPulseFacts DEF Open
  <2>3. TypeOK'
    BY <1>11, <2>2 DEF Open, OpenPulse, Inv, TypeOK, SetStates, network
  <2>4. GroupsAreExact'
    BY <1>11, <2>1, <2>2, FS_EmptySet DEF Open, GroupsAreExact, Armed
  <2>5. latest = newPulse /\ newPulse > 0
    BY <1>11 DEF Open, Inv, TypeOK
  <2>6. current' = newPulse /\ closed' = FALSE /\ set' = "idle" /\ latest' = latest /\ pending' = pending
    BY <1>11 DEF Open, OpenPulse, network
  <2>7. NoStaleWriter' /\ StoragesAgree'
    BY <2>1, <2>5, <2>6 DEF NoStaleWriter, StoragesAgree, Active
  <2>8. gen' <= current'
    BY <1>11, <2>2, <2>6 DEF Open, Inv, TypeOK, Groups
  <2> QED
    BY <1>11, <2>1, <2>2, <2>3, <2>4, <2>5, <2>6, <2>7, <2>8 DEF Inv
<1>12. CASE UNCHANGED vars
  BY <1>12 DEF vars, Inv, TypeOK, GroupsAreExact, Armed, NobodyLeftAsleep, Sleeping,
              NoStaleWriter, StoragesAgree, Active
<1> QED
  BY <1>1, <1>2, <1>3, <1>4, <1>5, <1>6, <1>7, <1>z, <1>8, <1>9, <1>10, <1>11, <1>12 DEF Next

\* The wait groups are exact, nobody sleeps on a replaced one, every write is
\* to the current pulse, and the storages agree on the pulse that ends.
THEOREM VirtualControllerCorrect ==
    Spec => [](TypeOK /\ GroupsAreExact /\ NobodyLeftAsleep /\ NoStaleWriter /\ StoragesAgree)
<1>1. Inv => TypeOK /\ GroupsAreExact /\ NobodyLeftAsleep /\ NoStaleWriter /\ StoragesAgree
  BY DEF Inv
<1> QED BY <1>1, InitInv, NextInv, PTL DEF Spec

\* Every step of the controller is a step of the barrier, or none.
LEMMA BarrierStep ==
    ASSUME Inv, [Next]_vars
    PROVE  [Barrier!Next]_(Barrier!vars)
<1> USE DEF Barrier!vars
<1>1. ASSUME NEW w \in Writers, NEW p \in Pulses, Begin(w, p) PROVE Barrier!Next
  BY <1>1 DEF Begin, Barrier!Next, Barrier!Enter
<1>2. ASSUME NEW w \in Writers, Done(w) PROVE Barrier!Next
  BY <1>2 DEF Done, Barrier!Next, Barrier!Leave
<1>3. ASSUME NEW v \in Waiters, WaitOpened(v) \/ Wait(v) PROVE UNCHANGED Barrier!vars
  BY <1>3 DEF WaitOpened, Wait, controller
<1>4. ASSUME NEW p \in Nat, p > current, OpenPulse(p), closed, UNCHANGED writing,
             \A w \in Writers : writing[w] = 0
      PROVE  Barrier!Next
  BY <1>4 DEF OpenPulse, Barrier!Next, Barrier!Advance
<1>5. CASE Start
  <2>1. current = 0 /\ closed /\ \A w \in Writers : writing[w] = 0
    BY <1>5 DEF Start, Inv, NoStaleWriter
  <2> QED BY <1>4, <1>5, <2>1 DEF Start, Genesis
<1>6. CASE Open
  <2>1. newPulse \in Nat /\ newPulse > current /\ closed /\ \A w \in Writers : writing[w] = 0
    BY <1>6, MaxPulseAssumption DEF Open, Inv, TypeOK, Active
  <2> QED BY <1>4, <1>6, <2>1 DEF Open
<1>7. CASE CloseAndWait
  <2>1. CASE closed' = closed
    BY <1>7, <2>1 DEF CloseAndWait
  <2>2. CASE closed' # closed
    <3>1. Barrier!Shut
      BY <1>7, <2>2 DEF CloseAndWait, Inv, TypeOK, Barrier!Shut
    <3> QED BY <3>1 DEF Barrier!Next
  <2> QED BY <2>1, <2>2
<1>8. ASSUME NEW p \in Pulses, SetPulse(p) \/ ZeroNodes(p) PROVE UNCHANGED Barrier!vars
  BY <1>8 DEF SetPulse, ZeroNodes, controller
<1>9. CASE OnPulseFromConsensus \/ WaitWriters \/ AddOne
  BY <1>9 DEF OnPulseFromConsensus, WaitWriters, AddOne, controller
<1>10. CASE UNCHANGED vars
  BY <1>10 DEF vars
<1> QED
  BY <1>1, <1>2, <1>3, <1>5, <1>6, <1>7, <1>8, <1>9, <1>10 DEF Next

\* The virtual node's write controller implements the abstract barrier.
THEOREM VirtualImplementsBarrier == Spec => ImplementsBarrier
<1>1. Init => Barrier!Init
  BY DEF Init, Barrier!Init
<1>2. Inv /\ [Next]_vars => [Barrier!Next]_(Barrier!vars)
  BY BarrierStep
<1> QED BY <1>1, <1>2, InitInv, NextInv, PTL DEF Spec, ImplementsBarrier, Barrier!Spec

-----------------------------------------------------------------------------
(* The light node.  The invariant to carry is the conjunction Inv of its   *)
(* module: that a quiet barrier is really quiet follows from the counter,  *)
(* and the counter is exact only because Open resets it while nobody       *)
(* writes.                                                                 *)

\* The light node counts as everybody does.
LEMMA LightCardinality == \A S : Light!Cardinality(S) = Cardinality(S)
BY DEF Light!Cardinality, Cardinality

\* A write that begins adds one to the number of writes in progress.
LEMMA LightActiveAdd ==
    ASSUME Light!Inv, NEW w \in Writers, NEW p \in Light!Pulses, Light!Begin(w, p)
    PROVE  Cardinality(Light!Active') = Cardinality(Light!Active) + 1
<1>1. IsFiniteSet(Light!Active)
  BY FS_Subset, WritersAssumption DEF Light!Active
<1>2. w \notin Light!Active /\ Light!Active' = Light!Active \cup {w}
  BY MaxPulseAssumption DEF Light!Active, Light!Begin, Light!Inv, Light!TypeOK, Light!Pulses
<1> QED BY <1>1, <1>2, FS_AddElement

\* A write that ends takes one off.
LEMMA LightActiveRemove ==
    ASSUME Light!Inv, NEW w \in Writers, Light!Done(w)
    PROVE  Cardinality(Light!Active') = Cardinality(Light!Active) - 1
<1>1. IsFiniteSet(Light!Active)
  BY FS_Subset, WritersAssumption DEF Light!Active
<1>2. w \in Light!Active /\ Light!Active' = Light!Active \ {w}
  BY DEF Light!Active, Light!Done, Light!Inv, Light!TypeOK
<1> QED BY <1>1, <1>2, FS_RemoveElement

\* A wait group at zero means that nobody writes.
LEMMA LightZeroIsQuiet ==
    ASSUME Light!CounterIsExact, wg = 0
    PROVE  Light!Active = {}
<1>1. IsFiniteSet(Light!Active)
  BY FS_Subset, WritersAssumption DEF Light!Active
<1> QED BY <1>1, FS_EmptySet, LightCardinality DEF Light!CounterIsExact

\* The invariant holds when the light node starts.
LEMMA LightInitInv == Light!Init => Light!Inv
<1> SUFFICES ASSUME Light!Init PROVE Light!Inv
  OBVIOUS
<1>1. Light!Active = {}
  BY DEF Light!Init, Light!Active
<1>2. Light!CounterIsExact
  BY <1>1, FS_EmptySet, LightCardinality DEF Light!Init, Light!CounterIsExact
<1> QED
  BY <1>1, <1>2, MaxPulseAssumption
  DEF Light!Init, Light!Inv, Light!TypeOK, Light!SetStates, Light!NoStaleWriter,
      Light!QuietBetweenPulses

\* Inv is inductive: one step per action.
LEMMA LightNextInv == Light!Inv /\ [Light!Next]_(Light!vars) => Light!Inv'
<1> SUFFICES ASSUME Light!Inv, [Light!Next]_(Light!vars) PROVE Light!Inv'
  OBVIOUS
<1> USE MaxPulseAssumption
<1>fin. Cardinality(Light!Active) \in Nat
  BY FS_Subset, FS_CardinalityType, WritersAssumption DEF Light!Active
<1>1. ASSUME NEW w \in Writers, NEW p \in Light!Pulses, Light!Begin(w, p) PROVE Light!Inv'
  <2>1. Light!CounterIsExact'
    BY <1>1, LightActiveAdd, LightCardinality DEF Light!CounterIsExact, Light!Begin, Light!Inv
  <2>2. Light!TypeOK' /\ Light!NoStaleWriter'
    BY <1>1
    DEF Light!Begin, Light!Inv, Light!TypeOK, Light!NoStaleWriter, Light!Pulses,
        Light!manager
  <2>3. Light!QuietBetweenPulses'
    BY <1>1 DEF Light!Begin, Light!Inv, Light!QuietBetweenPulses, Light!manager
  <2> QED BY <1>1, <2>1, <2>2, <2>3 DEF Light!Begin, Light!Inv, Light!manager
<1>2. ASSUME NEW w \in Writers, Light!Done(w) PROVE Light!Inv'
  <2>1. Light!CounterIsExact'
    BY <1>2, LightActiveRemove, LightCardinality DEF Light!CounterIsExact, Light!Done, Light!Inv
  <2>2. wg' \in Nat
    BY <1>2, <2>1, FS_Subset, FS_CardinalityType, WritersAssumption, LightCardinality
    DEF Light!Active, Light!CounterIsExact
  <2>3. Light!TypeOK' /\ Light!NoStaleWriter'
    BY <1>2, <2>2 DEF Light!Done, Light!Inv, Light!TypeOK, Light!NoStaleWriter, Light!manager
  <2>4. Light!QuietBetweenPulses'
    BY <1>2 DEF Light!Done, Light!Inv, Light!QuietBetweenPulses, Light!manager, Light!Active
  <2> QED BY <1>2, <2>1, <2>3, <2>4 DEF Light!Done, Light!Inv, Light!manager
<1>3. ASSUME NEW p \in Light!Pulses, Light!SetPulse(p) PROVE Light!Inv'
  BY <1>3
  DEF Light!SetPulse, Light!Inv, Light!TypeOK, Light!SetStates, Light!CounterIsExact,
      Light!NoStaleWriter, Light!QuietBetweenPulses, Light!Active, Light!controller,
      Light!Pulses
<1>4. CASE Light!CloseAndWait
  <2>1. current = 0 => Light!Active = {}
    BY DEF Light!Inv, Light!NoStaleWriter, Light!Active
  <2> QED
    BY <1>4, <2>1
    DEF Light!CloseAndWait, Light!Inv, Light!TypeOK, Light!SetStates, Light!CounterIsExact,
        Light!NoStaleWriter, Light!QuietBetweenPulses, Light!Active
<1>5. CASE Light!WaitReturns
  <2>1. Light!Active = {}
    BY <1>5, LightZeroIsQuiet DEF Light!WaitReturns, Light!Inv
  <2> QED
    BY <1>5, <2>1
    DEF Light!WaitReturns, Light!Inv, Light!TypeOK, Light!SetStates, Light!CounterIsExact,
        Light!NoStaleWriter, Light!QuietBetweenPulses, Light!Active, Light!controller
<1>6. CASE Light!Open
  <2>1. Light!Active = {} /\ Light!Active' = {}
    BY <1>6 DEF Light!Open, Light!Inv, Light!QuietBetweenPulses, Light!Active
  <2>2. Light!CounterIsExact'
    BY <1>6, <2>1, FS_EmptySet, LightCardinality
    DEF Light!Open, Light!CounterIsExact, Light!Inv, Light!controller
  <2>3. CASE newPulse <= current
    BY <1>6, <2>3
    DEF Light!Open, Light!Inv, Light!TypeOK, Light!SetStates, Light!CounterIsExact,
        Light!NoStaleWriter, Light!QuietBetweenPulses, Light!Active, Light!controller
  <2>4. CASE ~(newPulse <= current)
    <3>1. current' = newPulse /\ closed' = FALSE /\ wg' = 0 /\ set' = "append"
      BY <1>6, <2>4 DEF Light!Open
    <3>2. Light!TypeOK'
      BY <1>6, <3>1 DEF Light!Open, Light!Inv, Light!TypeOK, Light!SetStates
    <3>3. Light!NoStaleWriter' /\ Light!QuietBetweenPulses'
      BY <1>6, <2>1, <3>1 DEF Light!NoStaleWriter, Light!QuietBetweenPulses, Light!Active
    <3>4. current' # 0
      BY <2>4, <3>1 DEF Light!Inv, Light!TypeOK
    <3> QED BY <2>2, <3>1, <3>2, <3>3, <3>4 DEF Light!Inv
  <2> QED BY <2>3, <2>4
<1>7. CASE Light!Append
  BY <1>7
  DEF Light!Append, Light!Inv, Light!TypeOK, Light!SetStates, Light!CounterIsExact,
      Light!NoStaleWriter, Light!QuietBetweenPulses, Light!Active, Light!controller
<1>8. CASE UNCHANGED Light!vars
  BY <1>8 DEF Light!vars, Light!Inv, Light!TypeOK, Light!CounterIsExact, Light!NoStaleWriter,
              Light!QuietBetweenPulses, Light!Active
<1> QED
  BY <1>1, <1>2, <1>3, <1>4, <1>5, <1>6, <1>7, <1>8 DEF Light!Next

\* The barrier: at every moment the writes in progress are writes to the
\* controller's current pulse, counted exactly by its wait group.
THEOREM WriteBarrierHolds ==
    Light!Spec => [](/\ Light!TypeOK /\ Light!CounterIsExact
                     /\ NoStaleWriter /\ Light!QuietBetweenPulses)
<1>1. Light!Inv => /\ Light!TypeOK /\ Light!CounterIsExact
                   /\ NoStaleWriter /\ Light!QuietBetweenPulses
  BY DEF Light!Inv, Light!NoStaleWriter, NoStaleWriter
<1> QED BY <1>1, LightInitInv, LightNextInv, PTL DEF Light!Spec

\* Every step of the controller is a step of the barrier, or none.
LEMMA LightBarrierStep ==
    ASSUME Light!Inv, [Light!Next]_(Light!vars)
    PROVE  [Barrier!Next]_(Barrier!vars)
<1> USE DEF Barrier!vars
<1>1. ASSUME NEW w \in Writers, NEW p \in Light!Pulses, Light!Begin(w, p) PROVE Barrier!Next
  BY <1>1 DEF Light!Begin, Barrier!Next, Barrier!Enter
<1>2. ASSUME NEW w \in Writers, Light!Done(w) PROVE Barrier!Next
  BY <1>2 DEF Light!Done, Barrier!Next, Barrier!Leave
<1>3. ASSUME NEW p \in Light!Pulses, Light!SetPulse(p) PROVE UNCHANGED Barrier!vars
  BY <1>3 DEF Light!SetPulse, Light!controller
<1>4. CASE Light!CloseAndWait
  <2>1. CASE closed' = closed
    BY <1>4, <2>1 DEF Light!CloseAndWait
  <2>2. CASE closed' # closed
    <3>1. Barrier!Shut
      BY <1>4, <2>2 DEF Light!CloseAndWait, Light!Inv, Light!TypeOK, Barrier!Shut
    <3> QED BY <3>1 DEF Barrier!Next
  <2> QED BY <2>1, <2>2
<1>5. CASE Light!WaitReturns
  BY <1>5 DEF Light!WaitReturns, Light!controller
<1>6. CASE Light!Open
  <2>1. CASE newPulse <= current
    BY <1>6, <2>1 DEF Light!Open, Light!controller
  <2>2. CASE ~(newPulse <= current)
    <3>1. closed
      BY <1>6 DEF Light!Open, Light!Inv
    <3>2. \A w \in Writers : writing[w] = 0
      BY <1>6 DEF Light!Open, Light!Inv, Light!QuietBetweenPulses, Light!Active
    <3>3. current' \in Nat /\ current' > current
      BY <1>6, <2>2, MaxPulseAssumption DEF Light!Open, Light!Inv, Light!TypeOK
    <3>4. Barrier!Advance
      BY <1>6, <2>2, <3>1, <3>2, <3>3 DEF Light!Open, Barrier!Advance
    <3> QED BY <3>4 DEF Barrier!Next
  <2> QED BY <2>1, <2>2
<1>7. CASE Light!Append
  BY <1>7 DEF Light!Append, Light!controller
<1>8. CASE UNCHANGED Light!vars
  BY <1>8 DEF Light!vars
<1> QED
  BY <1>1, <1>2, <1>3, <1>4, <1>5, <1>6, <1>7, <1>8 DEF Light!Next

\* The light node's write controller implements the abstract barrier.
THEOREM LightImplementsBarrier == Light!Spec => ImplementsBarrier
<1>1. Light!Init => Barrier!Init
  BY DEF Light!Init, Barrier!Init
<1>2. Light!Inv /\ [Light!Next]_(Light!vars) => [Barrier!Next]_(Barrier!vars)
  BY LightBarrierStep
<1> QED BY <1>1, <1>2, LightInitInv, LightNextInv, PTL
DEF Light!Spec, ImplementsBarrier, Barrier!Spec
=============================================================================
