------------------------ MODULE FlowDispatcherProofs ------------------------
(* For every number of messages and pulses, on the nodes whose Set looks at *)
(* the node list before it calls ClosePulse: no channel is closed twice, a  *)
(* handler of an ended pulse holds a closed cancel channel, and no message  *)
(* of the future sleeps through its pulse.  The argument: a channel read    *)
(* before the latest pulse can only be older than it looks, and older       *)
(* channels are closed.                                                     *)
EXTENDS FlowDispatcher, TLAPS

\* The invariant holds when the node starts.
LEMMA InitInv == Init => Inv
<1> SUFFICES ASSUME Init PROVE Inv
  OBVIOUS
<1> USE MaxPulseAssumption
<1>1. Fresh \in ThreadType
  BY DEF Fresh, ThreadType, ThreadStates, Kinds
<1>2. TypeOK
  BY <1>1 DEF Init, TypeOK, SetStates
<1>3. ControllerInv
  BY DEF Init, ControllerInv, NoPanic
<1>4. \A m \in Messages : ThreadInv(m)
  BY DEF Init, ThreadInv, Fresh, Handling
<1> QED BY <1>2, <1>3, <1>4 DEF Inv

\* A step of the goroutine of one message: only its own thread changes.
LEMMA ThreadStep ==
    ASSUME Inv, NEW m \in Messages, NEW t \in ThreadType,
           thread' = [thread EXCEPT ![m] = t],
           UNCHANGED <<controller, latest, set, newPulse>>,
           ThreadInv(m)'
    PROVE  Inv'
<1>1. TypeOK'
  BY DEF Inv, TypeOK, controller
<1>2. ControllerInv'
  BY DEF Inv, ControllerInv, NoPanic, controller
<1>3. ASSUME NEW n \in Messages PROVE ThreadInv(n)'
  <2>1. CASE n = m
    BY <2>1
  <2>2. CASE n # m
    <3>1. thread'[n] = thread[n]
      BY <2>2 DEF Inv, TypeOK
    <3> QED BY <3>1 DEF Inv, ThreadInv, controller
  <2> QED BY <2>1, <2>2
<1> QED BY <1>1, <1>2, <1>3 DEF Inv

\* A step of Set that leaves begins and latest alone and does not reopen a
\* phase: the threads keep what they know.
LEMMA SetStep ==
    ASSUME Inv, UNCHANGED <<begins, latest, thread>>,
           set' # "close", set' \in {"idle", "nodes"} => set \in {"idle", "nodes"}
    PROVE  \A m \in Messages : ThreadInv(m)'
BY DEF Inv, ThreadInv

\* Inv is inductive: one step per action.
LEMMA NextInv == ~ClosesFirst /\ Inv /\ [Next]_vars => Inv'
<1> SUFFICES ASSUME ~ClosesFirst, Inv, [Next]_vars PROVE Inv'
  OBVIOUS
<1> USE MaxPulseAssumption
<1>t. TypeOK /\ ControllerInv /\ \A m \in Messages : ThreadInv(m) /\ thread[m] \in ThreadType
  BY DEF Inv, TypeOK
<1>1. ASSUME NEW p \in Pulses, SetPulse(p) PROVE Inv'
  <2>1. set = "idle" /\ set' = "nodes" /\ newPulse' = p /\ UNCHANGED <<controller, latest, thread>>
    BY <1>1 DEF SetPulse, Started
  <2>2. TypeOK'
    BY <1>t, <2>1 DEF TypeOK, SetStates, Pulses, controller
  <2>3. ControllerInv'
    BY <1>t, <2>1 DEF ControllerInv, NoPanic, controller
  <2>4. \A m \in Messages : ThreadInv(m)'
    BY <2>1, SetStep DEF controller
  <2> QED BY <2>2, <2>3, <2>4 DEF Inv
<1>z. CASE ZeroNodes
  <2>1. set = "nodes" /\ set' = "idle" /\ newPulse' = 0 /\ UNCHANGED <<controller, latest, thread>>
    BY <1>z DEF ZeroNodes
  <2>2. TypeOK'
    BY <1>t, <2>1 DEF TypeOK, SetStates, controller
  <2>3. ControllerInv'
    BY <1>t, <2>1 DEF ControllerInv, NoPanic, controller
  <2>4. \A m \in Messages : ThreadInv(m)'
    BY <2>1, SetStep DEF controller
  <2> QED BY <2>2, <2>3, <2>4 DEF Inv
<1>2. CASE SetNodes
  <2>1. set = "nodes" /\ set' = "close" /\ UNCHANGED <<controller, newPulse, thread>>
    BY <1>2 DEF SetNodes
  <2>2. latest' \in 0 .. MaxPulse /\ (latest # 0 => latest' = latest)
    BY <1>2, <1>t DEF SetNodes, TypeOK
  <2>3. TypeOK'
    BY <1>t, <2>1, <2>2 DEF TypeOK, SetStates, controller
  <2>4. ControllerInv'
    BY <1>t, <2>1, <2>2 DEF ControllerInv, NoPanic, controller, TypeOK
  <2>5. ASSUME NEW m \in Messages PROVE ThreadInv(m)'
    <3>1. thread[m].pulse \in Int /\ latest \in Int
      BY <1>t DEF TypeOK, ThreadType
    <3>2. CASE latest = 0
      <4>1. ~(begins > 0)
        BY <1>t, <3>2 DEF ControllerInv
      <4>2. ~(thread[m].pc \in Handling /\ thread[m].kind = "present" /\ thread[m].cancel = begins)
        BY <1>t, <2>1, <3>1, <3>2 DEF ThreadInv, Handling
      <4> QED BY <1>t, <2>1, <4>1, <4>2 DEF ThreadInv, controller
    <3>3. CASE latest # 0
      BY <1>t, <2>1, <2>2, <3>3 DEF ThreadInv, controller
    <3> QED BY <3>2, <3>3
  <2> QED BY <2>3, <2>4, <2>5 DEF Inv
<1>3. CASE ClosePulse
  <2>1. set = "close" /\ begins \notin cancelClosed /\ closes \in processClosed
    BY <1>3, <1>t DEF ClosePulse, ControllerInv
  <2>2. /\ cancelClosed' = cancelClosed \cup {begins} /\ closes' = closes + 1 /\ set' = "append"
        /\ UNCHANGED <<begins, processClosed, latest, newPulse, thread>>
    BY <1>3, <2>1 DEF ClosePulse
  <2>3. TypeOK'
    BY <1>t, <2>2 DEF TypeOK, SetStates
  <2>4. closes' \notin processClosed'
    BY <1>t, <2>2 DEF ControllerInv, TypeOK
  <2>5. ControllerInv'
    BY <1>t, <2>2, <2>4 DEF ControllerInv, NoPanic, TypeOK
  <2>6. \A m \in Messages : ThreadInv(m)'
    BY <2>2, SetStep
  <2> QED BY <2>3, <2>5, <2>6 DEF Inv
<1>4. CASE Append
  <2>1. set = "append" /\ set' \in {"fatal", "begin"} /\ latest' \in {latest, newPulse}
        /\ UNCHANGED <<controller, newPulse, thread>>
    BY <1>4 DEF Append
  <2>5. set' = "begin" => latest' > 0
    BY <1>4, <1>t DEF Append, TypeOK
  <2>6. begins > 0 => latest' > 0
    BY <1>4, <1>t DEF Append, TypeOK, ControllerInv
  <2>2. TypeOK'
    BY <1>t, <2>1 DEF TypeOK, SetStates, controller
  <2>3. ControllerInv'
    BY <1>t, <2>1, <2>5, <2>6 DEF ControllerInv, NoPanic, controller
  <2>4. \A m \in Messages : ThreadInv(m)'
    BY <1>t, <2>1 DEF ThreadInv, controller
  <2> QED BY <2>2, <2>3, <2>4 DEF Inv
<1>5. CASE BeginPulse
  <2>1. set = "begin" /\ begins \in cancelClosed /\ closes \notin processClosed
    BY <1>5, <1>t DEF BeginPulse, ControllerInv
  <2>2. /\ begins' = begins + 1 /\ processClosed' = processClosed \cup {closes} /\ set' = "idle"
        /\ newPulse' = 0 /\ UNCHANGED <<closes, cancelClosed, latest, thread>>
    BY <1>5, <2>1 DEF BeginPulse
  <2>3. TypeOK'
    BY <1>t, <2>2 DEF TypeOK, SetStates
  <2>4. begins' \notin cancelClosed'
    BY <1>t, <2>2 DEF ControllerInv, TypeOK
  <2>5. ControllerInv'
    BY <1>t, <2>1, <2>2, <2>4 DEF ControllerInv, NoPanic, TypeOK
  <2>6. ASSUME NEW m \in Messages PROVE ThreadInv(m)'
    <3>1. thread[m].cancel \in Nat /\ thread[m].canBegin \in Nat /\ begins \in Nat
      BY <1>t DEF TypeOK, ThreadType
    <3> QED BY <1>t, <2>2, <3>1 DEF ThreadInv, Handling
  <2> QED BY <2>3, <2>5, <2>6 DEF Inv
<1>6. ASSUME NEW m \in Messages, NEW p \in Pulses, Process(m, p) PROVE Inv'
  <2> DEFINE t == [pc |-> "process", pulse |-> p, kind |-> "unknown", process |-> closes,
                   cancel |-> 0, canBegin |-> 0]
  <2>1. t \in ThreadType
    BY <1>t DEF ThreadType, ThreadStates, Kinds, Pulses, TypeOK
  <2>2. ThreadInv(m)'
    BY <1>6, <1>t DEF Process, ThreadInv, TypeOK, Fresh, Handling, Pulses
  <2> QED BY <1>6, <2>1, <2>2, ThreadStep DEF Process
<1>7. ASSUME NEW m \in Messages,
             Processes(m) \/ ProcedureDone(m) \/ ProcedureCancelled(m) \/ Return(m) \/ Migrate(m) \/ Procedure(m)
      PROVE Inv'
  <2>1. PICK pc \in ThreadStates :
             /\ thread' = [thread EXCEPT ![m].pc = pc]
             /\ UNCHANGED <<controller, latest, set, newPulse>>
             /\ \/ pc = "cancel"
                \/ thread[m].pc \in Handling /\ pc \in Handling \cup {"end"}
             /\ thread[m].pc # "none"
    BY <1>7 DEF Processes, ProcedureDone, ProcedureCancelled, Return, Migrate, Procedure, ThreadStates, Handling
  <2> DEFINE t == [thread[m] EXCEPT !.pc = pc]
  <2>2. t \in ThreadType /\ t.pc = pc /\ t.cancel = thread[m].cancel /\ t.kind = thread[m].kind
        /\ t.pulse = thread[m].pulse /\ t.canBegin = thread[m].canBegin
    BY <1>t DEF ThreadType
  <2>3. thread' = [thread EXCEPT ![m] = t] /\ thread'[m] = t
    BY <1>t, <2>1 DEF TypeOK
  <2>5. ThreadInv(m)'
    BY <1>t, <2>1, <2>2, <2>3 DEF ThreadInv, Handling, controller
  <2> QED BY <2>1, <2>2, <2>3, <2>5, ThreadStep
<1>8. ASSUME NEW m \in Messages, ReadCancel(m) PROVE Inv'
  <2> DEFINE t == [thread[m] EXCEPT !.pc = "canBegin", !.cancel = begins]
  <2>1. t \in ThreadType
    BY <1>t DEF ThreadType, ThreadStates, TypeOK
  <2>2. thread' = [thread EXCEPT ![m] = t] /\ thread'[m] = t
    BY <1>8, <1>t DEF ReadCancel, TypeOK
  <2>3. /\ t.pc = "canBegin" /\ t.cancel = begins /\ begins' = begins /\ begins \in Nat
        /\ t.pulse = thread[m].pulse /\ thread[m].pulse > 0
    BY <1>8, <1>t DEF ReadCancel, ThreadType, TypeOK, ThreadInv, controller
  <2>4. ThreadInv(m)'
    <3> HIDE DEF t
    <3> QED BY <2>2, <2>3 DEF ThreadInv, Handling
  <2> QED BY <1>8, <2>1, <2>2, <2>4, ThreadStep DEF ReadCancel
<1>9. ASSUME NEW m \in Messages, ReadCanBegin(m) PROVE Inv'
  <2> DEFINE n == IF thread[m].kind = "future" THEN "handle" ELSE "choose"
             t == [thread[m] EXCEPT !.pc = n, !.canBegin = begins]
  <2>1. t \in ThreadType
    BY <1>t DEF ThreadType, ThreadStates, TypeOK
  <2>2. thread' = [thread EXCEPT ![m] = t] /\ thread'[m] = t
    BY <1>9, <1>t DEF ReadCanBegin, TypeOK
  <2>3. /\ t.pc = n /\ t.canBegin = begins /\ t.cancel = thread[m].cancel /\ t.kind = thread[m].kind
        /\ begins' = begins /\ begins \in Nat /\ t.pulse = thread[m].pulse /\ thread[m].pulse > 0
    BY <1>9, <1>t DEF ReadCanBegin, ThreadType, TypeOK, ThreadInv, controller
  <2>4. thread[m].cancel <= begins
    BY <1>9, <1>t DEF ReadCanBegin, ThreadInv
  <2>5. ThreadInv(m)'
    <3> HIDE DEF t
    <3>1. begins' = begins /\ thread'[m].pc \in {"handle", "choose"}
      BY <2>2, <2>3
    <3>2. thread'[m].pc = "handle" => thread'[m].kind = "future"
      BY <2>2, <2>3
    <3> QED BY <2>2, <2>3, <2>4, <3>1, <3>2 DEF ThreadInv, Handling
  <2> QED BY <1>9, <2>1, <2>2, <2>5, ThreadStep DEF ReadCanBegin
<1>10. ASSUME NEW m \in Messages, Choose(m) PROVE Inv'
  <2>1. PICK pc \in {"handle", "end", "migrate"}, k \in {"present", "past", "future"} :
             /\ thread' = [thread EXCEPT ![m] = [@ EXCEPT !.pc = pc, !.kind = k]]
             /\ UNCHANGED <<controller, latest, set, newPulse>>
             /\ k = "present" => thread[m].pulse = latest
             /\ pc = "migrate" => thread[m].pulse > latest
    BY <1>10 DEF Choose
  <2> DEFINE t == [thread[m] EXCEPT !.pc = pc, !.kind = k]
  <2>2. t \in ThreadType /\ t.pc = pc /\ t.cancel = thread[m].cancel /\ t.kind = k
        /\ t.pulse = thread[m].pulse /\ t.canBegin = thread[m].canBegin
    BY <1>t DEF ThreadType, ThreadStates, Kinds
  <2>3. thread' = [thread EXCEPT ![m] = t] /\ thread'[m] = t
    BY <1>t, <2>1 DEF TypeOK
  <2>4. thread[m].pc = "choose"
    BY <1>10 DEF Choose
  <2>5. ThreadInv(m)'
    BY <1>t, <2>1, <2>2, <2>3, <2>4 DEF ThreadInv, Handling, controller
  <2> QED BY <2>1, <2>2, <2>3, <2>5, ThreadStep
<1>11. CASE UNCHANGED vars
  <2>1. TypeOK' /\ ControllerInv'
    BY <1>t, <1>11 DEF vars, TypeOK, ControllerInv, NoPanic
  <2>2. \A m \in Messages : ThreadInv(m)'
    BY <1>t, <1>11 DEF vars, ThreadInv
  <2> QED BY <2>1, <2>2 DEF Inv
<1> QED
  BY <1>1, <1>2, <1>z, <1>3, <1>4, <1>5, <1>6, <1>7, <1>8, <1>9, <1>10, <1>11 DEF Next

\* Inv gives the three properties.
LEMMA InvImplies == Inv => TypeOK /\ NoPanic /\ EndedIsCancelled /\ FutureWakes
<1> SUFFICES ASSUME Inv PROVE TypeOK /\ NoPanic /\ EndedIsCancelled /\ FutureWakes
  OBVIOUS
<1>1. ASSUME NEW m \in Messages, thread[m].pc \in Handling, thread[m].kind = "present",
             Ended(thread[m].pulse)
      PROVE  thread[m].cancel \in cancelClosed
  <2>1. thread[m].cancel \in Nat /\ begins \in Nat /\ thread[m].cancel <= begins
    BY <1>1 DEF Inv, TypeOK, ThreadType, ThreadInv, Handling
  <2>2. CASE thread[m].cancel # begins
    <3>1. thread[m].cancel \in 0 .. begins - 1
      BY <2>1, <2>2
    <3> QED BY <3>1 DEF Inv, ControllerInv
  <2>3. CASE thread[m].cancel = begins /\ begins \notin cancelClosed
    <3>1. set \in {"idle", "nodes", "close"}
      BY <2>3 DEF Inv, ControllerInv, NoPanic, TypeOK, SetStates
    <3>2. thread[m].pulse = latest
      BY <1>1, <2>3, <3>1 DEF Inv, ThreadInv
    <3> QED BY <1>1, <2>3, <3>2, MaxPulseAssumption DEF Ended, Inv, TypeOK
  <2> QED BY <2>2, <2>3
<1>2. ASSUME NEW m \in Messages, thread[m].pc = "migrate", thread[m].pulse <= latest, set = "idle"
      PROVE  thread[m].canBegin < begins
  <2>1. thread[m].canBegin \in Nat /\ begins \in Nat /\ thread[m].canBegin <= begins
        /\ thread[m].pulse \in Int /\ latest \in Int
    BY <1>2, MaxPulseAssumption DEF Inv, TypeOK, ThreadType, ThreadInv
  <2>2. thread[m].canBegin # begins
    BY <1>2, <2>1 DEF Inv, ThreadInv
  <2> QED BY <2>1, <2>2
<1> QED BY <1>1, <1>2 DEF Inv, ControllerInv, EndedIsCancelled, FutureWakes

\* On a light or a virtual node, for every set of messages: pulse changes
\* never panic, cancellation reaches every handler of the pulse that ended,
\* and every message of the future is woken by its pulse.
THEOREM DispatcherCorrect ==
    ASSUME ~ClosesFirst
    PROVE  Spec => [](TypeOK /\ NoPanic /\ EndedIsCancelled /\ FutureWakes)
<1>1. Inv /\ [Next]_vars => Inv'
  BY NextInv
<1> QED BY <1>1, InitInv, InvImplies, PTL DEF Spec
=============================================================================
