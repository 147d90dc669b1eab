------------------------- MODULE LightHotDataProofs -------------------------
(* The gate in front of a light node's jets, for any number of nodes,      *)
(* jets, requests and pulses and any assignment of executors: nobody       *)
(* writes to a jet without its hot data, although a Wait for a pulse that  *)
(* is over returns at once, and nobody waits for a pulse that is over.     *)
(* An open jet's index holds all that was ever stored for the jet, and     *)
(* nothing is stored twice.                                                *)
EXTENDS LightHotData, TLAPS

\* The waiter is behind the pulse storage by at most the pulse change under way.
ClosedInv(n) ==
    /\ closedUntil[n] <= latest[n]
    /\ set[n] \in {"close", "drain", "open", "append"} => closedUntil[n] = latest[n]
    /\ set[n] \in {"idle", "check", "closeall"} /\ latest[n] > 0 => closedUntil[n] < latest[n]

\* The pulse that Set goes to.
PulseInv(n) ==
    /\ set[n] \notin {"idle", "fatal"} => newPulse[n] > latest[n]
    /\ set[n] = "idle" => newPulse[n] = latest[n]
    /\ sending[n] # {} => latest[n] > 0

\* What the write controller accepts at the control points of Set.
WritableInv(n) ==
    /\ set[n] \in {"idle", "check", "closeall", "close"} => writable[n] \in {0, latest[n]}
    /\ set[n] \in {"drain", "open"} => writable[n] = 0
    /\ set[n] = "append" => writable[n] = newPulse[n]

\* After CheckHot the hot data of the ended pulse are there.
CheckedInv(n) ==
    set[n] \in {"closeall", "close"} =>
        \/ writable[n] = 0
        \/ \A j \in MineForPulse(n, latest[n]) : <<j, latest[n]>> \in raised[n]

\* An open jet of a pulse that is not over has a closed channel.
RaisedInv(n) ==
    \A o \in opened[n] : o[2] > closedUntil[n] => o \in raised[n]

NodeInv(n) ==
    /\ ClosedInv(n) /\ PulseInv(n) /\ WritableInv(n) /\ CheckedInv(n) /\ RaisedInv(n)

Live == {"start", "wait", "timeout", "lock", "begin", "write"}

\* A request is of the latest pulse of its node or of one whose waiters are
\* closed; it waits with an open timeout for the former only; beyond Wait it
\* has hot data or is too late.
RequestInv(w) ==
    LET n == request[w].node  p == request[w].pulse
    IN  /\ request[w].pc \in Live =>
              /\ 0 < p /\ p <= latest[n]
              /\ executor[JetOf[w]][p] = n
              /\ p = latest[n] \/ p <= closedUntil[n]
        /\ request[w].pc = "wait" => p > closedUntil[n]
        /\ request[w].pc \in {"lock", "begin"} =>
              p <= closedUntil[n] \/ <<JetOf[w], p>> \in raised[n]
        /\ request[w].pc = "write" => <<JetOf[w], p>> \in raised[n]

Inv == TypeOK /\ (\A n \in Nodes : NodeInv(n)) /\ (\A w \in Requests : RequestInv(w))

LEMMA Bounds == MaxPulse \in Nat /\ 1 \in Pulses /\ Pulses \subseteq 0 .. MaxPulse
                /\ \A p \in 0 .. MaxPulse : p \in Nat /\ (p \in Pulses <=> p > 0)
BY MaxPulseAssumption DEF Pulses

LEMMA InitInv == Init => Inv
<1> SUFFICES ASSUME Init PROVE Inv
  OBVIOUS
<1>1. TypeOK
  <2>1. request \in [Requests -> RequestType]
    <3> DEFINE some == CHOOSE n \in Nodes : TRUE
    <3>1. ASSUME NEW w \in Requests PROVE some \in Nodes
      <4>1. executor[JetOf[w]][1] \in Nodes
        BY JetOfAssumption, Bounds DEF Init
      <4> QED BY <4>1
    <3>2. request = [w \in Requests |-> [pc |-> "none", node |-> some, pulse |-> 0, base |-> {}]]
      BY DEF Init
    <3> HIDE DEF some
    <3> QED BY <3>1, <3>2, Bounds DEF RequestType, RequestStates
  <2>2. /\ executor \in [Jets -> [Pulses -> Nodes]]
        /\ latest \in [Nodes -> 0 .. MaxPulse] /\ set \in [Nodes -> SetStates]
        /\ newPulse \in [Nodes -> 0 .. MaxPulse] /\ justJoined \in [Nodes -> BOOLEAN]
        /\ writable \in [Nodes -> 0 .. MaxPulse] /\ waiters \in [Nodes -> SUBSET Pulses]
        /\ opened \in [Nodes -> SUBSET (Jets \X Pulses)]
        /\ raised \in [Nodes -> SUBSET (Jets \X Pulses)]
        /\ closedUntil \in [Nodes -> 0 .. MaxPulse]
    BY Bounds DEF Init, SetStates
  <2>3. /\ index \in [Nodes -> [Pulses -> SUBSET Requests]]
        /\ sending \in [Nodes -> SUBSET [jet : Jets, from : Pulses, to : Pulses]]
        /\ hots \subseteq Hot /\ stored \subseteq Requests \X Pulses
    BY DEF Init
  <2> QED BY <2>1, <2>2, <2>3 DEF TypeOK
<1>2. ASSUME NEW n \in Nodes PROVE NodeInv(n)
  BY DEF Init, NodeInv, ClosedInv, PulseInv, WritableInv, CheckedInv, RaisedInv
<1>3. ASSUME NEW w \in Requests PROVE RequestInv(w)
  BY DEF Init, RequestInv, Live
<1> QED BY <1>1, <1>2, <1>3 DEF Inv

\* What the node o shows to its requests does not change.
Same(o) ==
    /\ latest'[o] = latest[o] /\ set'[o] = set[o] /\ newPulse'[o] = newPulse[o]
    /\ writable'[o] = writable[o] /\ closedUntil'[o] = closedUntil[o]
    /\ opened'[o] = opened[o] /\ raised'[o] = raised[o] /\ sending'[o] = sending[o]

LEMMA SameNode ==
    ASSUME NEW o \in Nodes, NodeInv(o), Same(o), executor' = executor
    PROVE  NodeInv(o)'
<1>1. MineForPulse(o, latest[o])' = MineForPulse(o, latest[o])
  BY DEF MineForPulse, Same
<1> QED BY <1>1
      DEF NodeInv, ClosedInv, PulseInv, WritableInv, CheckedInv, RaisedInv, Same

\* A step of the node n: its requests are still of its latest pulse, or closed.
LEMMA NodeStep ==
    ASSUME Inv, TypeOK', executor' = executor, request' = request,
           NEW n \in Nodes, \A o \in Nodes \ {n} : Same(o), NodeInv(n)',
           raised[n] \subseteq raised'[n], closedUntil[n] = closedUntil'[n],
           latest'[n] = latest[n] \/ (latest[n] <= closedUntil'[n] /\ latest[n] <= latest'[n])
    PROVE  Inv'
<1>1. ASSUME NEW o \in Nodes PROVE NodeInv(o)'
  BY SameNode DEF Inv
<1>2. ASSUME NEW w \in Requests PROVE RequestInv(w)'
  <2>1. /\ request[w].node \in Nodes /\ request[w].pulse \in Nat
        /\ \A o \in Nodes : /\ latest[o] \in Nat /\ latest'[o] \in Nat
                            /\ closedUntil[o] \in Nat /\ closedUntil'[o] \in Nat
    BY Bounds DEF Inv, TypeOK, RequestType
  <2>2. RequestInv(w)
    BY DEF Inv
  <2>3. CASE request[w].node = n
    BY <2>1, <2>2, <2>3 DEF RequestInv
  <2>4. CASE request[w].node # n
    BY <2>1, <2>2, <2>4 DEF RequestInv, Same
  <2> QED BY <2>3, <2>4
<1> QED BY <1>1, <1>2 DEF Inv

\* A step of the request w.
LEMMA RequestStep ==
    ASSUME Inv, TypeOK', executor' = executor, \A o \in Nodes : Same(o),
           NEW w \in Requests, \A v \in Requests \ {w} : request'[v] = request[v],
           RequestInv(w)'
    PROVE  Inv'
<1>1. ASSUME NEW o \in Nodes PROVE NodeInv(o)'
  BY SameNode DEF Inv
<1>2. ASSUME NEW v \in Requests, v # w PROVE RequestInv(v)'
  <2>1. request[v].node \in Nodes
    BY DEF Inv, TypeOK, RequestType
  <2>2. RequestInv(v) /\ request'[v] = request[v]
    BY <1>2 DEF Inv
  <2> QED BY <2>1, <2>2 DEF RequestInv, Same
<1> QED BY <1>1, <1>2 DEF Inv

\* A step that neither nodes nor requests see.
LEMMA StillStep ==
    ASSUME Inv, TypeOK', executor' = executor, \A o \in Nodes : Same(o), request' = request
    PROVE  Inv'
<1>1. ASSUME NEW o \in Nodes PROVE NodeInv(o)'
  BY SameNode DEF Inv
<1>2. ASSUME NEW v \in Requests PROVE RequestInv(v)'
  <2>1. request[v].node \in Nodes
    BY DEF Inv, TypeOK, RequestType
  <2> QED BY <2>1 DEF Inv, RequestInv, Same
<1> QED BY <1>1, <1>2 DEF Inv

\* What the invariant says of one node.
LEMMA NodeFacts ==
    ASSUME Inv, NEW n \in Nodes
    PROVE  /\ TypeOK /\ NodeInv(n)
           /\ latest[n] \in Nat /\ newPulse[n] \in Nat /\ writable[n] \in Nat
           /\ closedUntil[n] \in Nat /\ latest[n] \in 0 .. MaxPulse
           /\ newPulse[n] \in 0 .. MaxPulse
<1>1. TypeOK /\ NodeInv(n)
  BY DEF Inv
<1> QED BY <1>1, Bounds DEF TypeOK

\* ChannelWaiter.Unlock.
LEMMA UnlockStep ==
    ASSUME Inv, NEW n \in Nodes, NEW p \in Pulses, NEW js \in SUBSET Jets, UnlockAll(n, p, js)
    PROVE  /\ waiters' \in [Nodes -> SUBSET Pulses]
           /\ opened' \in [Nodes -> SUBSET (Jets \X Pulses)]
           /\ raised' \in [Nodes -> SUBSET (Jets \X Pulses)]
           /\ \A o \in Nodes \ {n} : opened'[o] = opened[o] /\ raised'[o] = raised[o]
           /\ closedUntil' = closedUntil
           /\ raised[n] \subseteq raised'[n]
           /\ \A o \in opened'[n] : o[2] > closedUntil[n] => o \in raised'[n]
<1>1. TypeOK /\ RaisedInv(n)
  BY DEF Inv, NodeInv
<1>2. closedUntil' = closedUntil
  BY DEF UnlockAll
<1>3. waiters' \in [Nodes -> SUBSET Pulses]
  BY <1>1 DEF UnlockAll, TypeOK
<1>4. /\ opened' \in [Nodes -> SUBSET (Jets \X Pulses)]
      /\ opened'[n] = opened[n] \cup (js \X {p})
      /\ \A o \in Nodes \ {n} : opened'[o] = opened[o]
  <2>1. js \X {p} \subseteq Jets \X Pulses
    OBVIOUS
  <2> QED BY <1>1, <2>1 DEF UnlockAll, TypeOK
<1>5. /\ raised' \in [Nodes -> SUBSET (Jets \X Pulses)]
      /\ raised'[n] = IF p > closedUntil[n] THEN raised[n] \cup (js \X {p}) ELSE raised[n]
      /\ \A o \in Nodes \ {n} : raised'[o] = raised[o]
  <2>1. js \X {p} \subseteq Jets \X Pulses
    OBVIOUS
  <2> QED BY <1>1, <2>1 DEF UnlockAll, TypeOK
<1>6. \A o \in opened'[n] : o[2] > closedUntil[n] => o \in raised'[n]
  <2> SUFFICES ASSUME NEW o \in opened'[n], o[2] > closedUntil[n] PROVE o \in raised'[n]
    OBVIOUS
  <2>1. CASE o \in opened[n]
    BY <1>1, <1>5, <2>1 DEF RaisedInv
  <2>2. CASE o \in js \X {p}
    <3>1. o[2] = p
      BY <2>2
    <3> QED BY <1>5, <2>2, <3>1
  <2> QED BY <1>4, <2>1, <2>2
<1> QED BY <1>2, <1>3, <1>4, <1>5, <1>6

\* The first pulse of a node, and every later one.
LEMMA PulseSteps ==
    ASSUME Inv, NEW n \in Nodes, NEW p \in Pulses, Join(n, p) \/ SetPulse(n, p)
    PROVE  Inv'
<1>f. /\ TypeOK /\ NodeInv(n)
      /\ latest[n] \in Nat /\ newPulse[n] \in Nat /\ writable[n] \in Nat
      /\ closedUntil[n] \in Nat /\ p \in Nat /\ p > 0
  BY NodeFacts, Bounds
<1>1. CASE Join(n, p)
  <2>0. /\ set[n] = "idle" /\ newPulse[n] = 0
        /\ newPulse' = [newPulse EXCEPT ![n] = p]
        /\ set' = [set EXCEPT ![n] = "closeall"]
        /\ justJoined' = [justJoined EXCEPT ![n] = TRUE]
        /\ UNCHANGED <<executor, writable, index, sending, hots, request, stored>>
    BY <1>1 DEF Join
  <2>1. latest[n] = 0 /\ closedUntil[n] = 0 /\ writable[n] = 0 /\ sending[n] = {}
    BY <1>f, <2>0 DEF NodeInv, PulseInv, ClosedInv, WritableInv
  <2>2. /\ newPulse' \in [Nodes -> 0 .. MaxPulse] /\ set' \in [Nodes -> SetStates]
        /\ justJoined' \in [Nodes -> BOOLEAN]
        /\ newPulse'[n] = p /\ set'[n] = "closeall" /\ writable'[n] = 0 /\ sending'[n] = {}
        /\ \A o \in Nodes \ {n} : newPulse'[o] = newPulse[o] /\ set'[o] = set[o]
               /\ writable'[o] = writable[o] /\ sending'[o] = sending[o]
    BY <1>f, <2>0, <2>1, Bounds DEF TypeOK, SetStates
  <2>3. /\ waiters' \in [Nodes -> SUBSET Pulses]
        /\ opened' \in [Nodes -> SUBSET (Jets \X Pulses)]
        /\ raised' \in [Nodes -> SUBSET (Jets \X Pulses)]
        /\ \A o \in Nodes \ {n} : opened'[o] = opened[o] /\ raised'[o] = raised[o]
        /\ closedUntil' = closedUntil /\ raised[n] \subseteq raised'[n]
        /\ \A o \in opened'[n] : o[2] > closedUntil[n] => o \in raised'[n]
    <3>1. CASE p = 1
      <4>1. UnlockAll(n, p, Jets)
        BY <1>1, <3>1 DEF Join
      <4> QED BY <4>1, UnlockStep
    <3>2. CASE p # 1
      <4>1. UNCHANGED <<waiters, opened, raised, closedUntil>>
        BY <1>1, <3>2 DEF Join, waiter
      <4> QED BY <1>f, <4>1 DEF TypeOK, NodeInv, RaisedInv
    <3> QED BY <3>1, <3>2
  <2>4. /\ latest' \in [Nodes -> 0 .. MaxPulse] /\ latest'[n] < p /\ latest'[n] \in Nat
        /\ \A o \in Nodes \ {n} : latest'[o] = latest[o]
    <3>1. CASE p = 1
      BY <1>1, <1>f, <2>1, <3>1 DEF Join, TypeOK
    <3>2. CASE p # 1
      <4>1. PICK q \in 1 .. p - 1 : latest' = [latest EXCEPT ![n] = q]
        BY <1>1, <3>2 DEF Join
      <4>2. q \in 0 .. MaxPulse /\ q < p /\ q \in Nat
        BY <1>f, Bounds DEF Pulses
      <4> QED BY <1>f, <4>1, <4>2 DEF TypeOK
    <3> QED BY <3>1, <3>2
  <2>5. TypeOK'
    BY <1>f, <2>0, <2>2, <2>3, <2>4 DEF TypeOK
  <2>6. NodeInv(n)'
    <3>1. ClosedInv(n)' /\ PulseInv(n)' /\ WritableInv(n)' /\ CheckedInv(n)'
      BY <2>1, <2>2, <2>3, <2>4 DEF ClosedInv, PulseInv, WritableInv, CheckedInv
    <3>2. RaisedInv(n)'
      BY <2>3 DEF RaisedInv
    <3> QED BY <3>1, <3>2 DEF NodeInv
  <2>7. \A o \in Nodes \ {n} : Same(o)
    BY <2>2, <2>3, <2>4 DEF Same
  <2>8. closedUntil[n] = closedUntil'[n] /\ latest[n] <= closedUntil'[n] /\ latest[n] <= latest'[n]
    BY <2>1, <2>3, <2>4
  <2> QED BY <2>0, <2>3, <2>5, <2>6, <2>7, <2>8, NodeStep
<1>2. CASE SetPulse(n, p)
  <2>0. /\ set[n] = "idle" /\ newPulse[n] # 0 /\ p > latest[n]
        /\ newPulse' = [newPulse EXCEPT ![n] = p]
        /\ set' = [set EXCEPT ![n] = "check"]
        /\ justJoined' = [justJoined EXCEPT ![n] = FALSE]
        /\ UNCHANGED <<executor, latest, writable, waiters, opened, raised, closedUntil, index,
                       sending, hots, request, stored>>
    BY <1>2 DEF SetPulse, waiter
  <2>2. /\ newPulse' \in [Nodes -> 0 .. MaxPulse] /\ set' \in [Nodes -> SetStates]
        /\ justJoined' \in [Nodes -> BOOLEAN]
        /\ newPulse'[n] = p /\ set'[n] = "check"
        /\ \A o \in Nodes \ {n} : newPulse'[o] = newPulse[o] /\ set'[o] = set[o]
    BY <1>f, <2>0, Bounds DEF TypeOK, SetStates
  <2>5. TypeOK'
    BY <1>f, <2>0, <2>2 DEF TypeOK
  <2>6. NodeInv(n)'
    BY <1>f, <2>0, <2>2
        DEF NodeInv, ClosedInv, PulseInv, WritableInv, CheckedInv, RaisedInv
  <2>7. \A o \in Nodes \ {n} : Same(o)
    BY <2>0, <2>2 DEF Same
  <2> QED BY <1>f, <2>0, <2>5, <2>6, <2>7, NodeStep
<1> QED BY <1>1, <1>2

\* The calls that Set makes.
LEMMA SetSteps ==
    ASSUME Inv, NEW n \in Nodes,
           \/ CheckHot(n) \/ CloseAllUntil(n) \/ Close(n) \/ Drain(n) \/ Open(n) \/ Append(n)
    PROVE  Inv'
<1>f. /\ TypeOK /\ NodeInv(n)
      /\ latest[n] \in Nat /\ newPulse[n] \in Nat /\ writable[n] \in Nat
      /\ closedUntil[n] \in Nat /\ latest[n] \in 0 .. MaxPulse /\ newPulse[n] \in 0 .. MaxPulse
  BY NodeFacts
<1>1. CASE CheckHot(n)
  <2> DEFINE ok == \A jet \in MineForPulse(n, latest[n]) : IsReceived(n, jet, latest[n])
             x == IF ok THEN "closeall" ELSE "fatal"
  <2>0. /\ set[n] = "check" /\ set' = [set EXCEPT ![n] = x]
        /\ UNCHANGED <<executor, latest, newPulse, justJoined, writable, waiters, opened, raised,
                       closedUntil, index, sending, hots, request, stored>>
    BY <1>1 DEF CheckHot, waiter
  <2>1. ok => \A j \in MineForPulse(n, latest[n]) : <<j, latest[n]>> \in raised[n]
    <3> SUFFICES ASSUME ok, NEW j \in MineForPulse(n, latest[n])
                 PROVE  <<j, latest[n]>> \in raised[n]
      OBVIOUS
    <3>1. <<j, latest[n]>> \in opened[n] /\ latest[n] # 0
      BY DEF IsReceived, MineForPulse
    <3>2. latest[n] > closedUntil[n]
      BY <1>f, <2>0, <3>1 DEF NodeInv, ClosedInv
    <3>3. <<j, latest[n]>>[2] = latest[n]
      OBVIOUS
    <3> QED BY <1>f, <3>1, <3>2, <3>3 DEF NodeInv, RaisedInv
  <2>2. x \in {"closeall", "fatal"} /\ (x = "closeall" => ok)
    OBVIOUS
  <2> HIDE DEF x, ok
  <2>3. /\ set' \in [Nodes -> SetStates] /\ set'[n] = x
        /\ \A o \in Nodes \ {n} : set'[o] = set[o]
    BY <1>f, <2>0, <2>2 DEF TypeOK, SetStates
  <2>4. TypeOK' /\ \A o \in Nodes \ {n} : Same(o)
    BY <1>f, <2>0, <2>3 DEF TypeOK, Same
  <2>5. ClosedInv(n)' /\ PulseInv(n)' /\ WritableInv(n)' /\ RaisedInv(n)'
    BY <1>f, <2>0, <2>2, <2>3 DEF NodeInv, ClosedInv, PulseInv, WritableInv, RaisedInv
  <2>6. CheckedInv(n)'
    BY <2>0, <2>1, <2>2, <2>3 DEF CheckedInv, MineForPulse
  <2> QED BY <1>f, <2>0, <2>4, <2>5, <2>6, NodeStep DEF NodeInv
<1>2. CASE CloseAllUntil(n)
  <2>0. /\ set[n] = "closeall" /\ set' = [set EXCEPT ![n] = "close"]
        /\ waiters' = [waiters EXCEPT ![n] = {p \in waiters[n] : p > latest[n]}]
        /\ opened' = [opened EXCEPT ![n] = {o \in opened[n] : o[2] > latest[n]}]
        /\ closedUntil' = [closedUntil EXCEPT ![n] = latest[n]]
        /\ request' = RaiseTimeouts(n, latest[n])
        /\ UNCHANGED <<executor, latest, newPulse, justJoined, writable, raised, index, sending,
                       hots, stored>>
    BY <1>2, <1>f DEF CloseAllUntil, TypeOK
  <2>r. /\ request' \in [Requests -> RequestType]
        /\ \A w \in Requests :
              \/ request'[w] = request[w]
              \/ /\ request[w].pc = "wait" /\ request'[w].pc = "timeout"
                 /\ request'[w].node = request[w].node /\ request'[w].pulse = request[w].pulse
        /\ \A w \in Requests : request'[w].pc = "wait" =>
              request'[w] = request[w] /\ ~(request[w].node = n /\ request[w].pulse <= latest[n])
    <3>1. request \in [Requests -> RequestType]
      BY <1>f DEF TypeOK
    <3>2. ASSUME NEW w \in Requests
          PROVE  LET v == [request[w] EXCEPT !.pc = "timeout"]
                 IN  /\ v \in RequestType /\ v.pc = "timeout" /\ v.node = request[w].node
                     /\ v.pulse = request[w].pulse
      BY <3>1 DEF RequestType, RequestStates
    <3> QED BY <2>0, <3>1, <3>2 DEF RaiseTimeouts
  <2>1. /\ set' \in [Nodes -> SetStates] /\ set'[n] = "close"
        /\ closedUntil' \in [Nodes -> 0 .. MaxPulse] /\ closedUntil'[n] = latest[n]
        /\ \A o \in Nodes \ {n} : set'[o] = set[o] /\ closedUntil'[o] = closedUntil[o]
    BY <1>f, <2>0 DEF TypeOK, SetStates
  <2>2. /\ waiters' \in [Nodes -> SUBSET Pulses]
        /\ opened' \in [Nodes -> SUBSET (Jets \X Pulses)] /\ opened'[n] \subseteq opened[n]
        /\ \A o \in Nodes \ {n} : opened'[o] = opened[o]
    BY <1>f, <2>0 DEF TypeOK
  <2>3. TypeOK' /\ \A o \in Nodes \ {n} : Same(o)
    BY <1>f, <2>0, <2>1, <2>2, <2>r DEF TypeOK, Same
  <2>4. ClosedInv(n)' /\ PulseInv(n)' /\ WritableInv(n)'
    BY <1>f, <2>0, <2>1 DEF NodeInv, ClosedInv, PulseInv, WritableInv
  <2>5. closedUntil[n] <= closedUntil'[n]
    BY <1>f, <2>1 DEF NodeInv, ClosedInv
  <2>6. RaisedInv(n)'
    <3> SUFFICES ASSUME NEW o \in opened'[n], o[2] > latest[n] PROVE o \in raised[n]
      BY <2>0, <2>1 DEF RaisedInv
    <3>1. o \in opened[n] /\ o[2] \in Nat
      <4>1. o \in opened[n] /\ opened[n] \subseteq Jets \X Pulses
        BY <1>f, <2>2 DEF TypeOK
      <4>2. o[2] \in Pulses
        BY <4>1
      <4> QED BY <4>1, <4>2, Bounds
    <3>2. o[2] > closedUntil[n]
      BY <1>f, <2>1, <2>5, <3>1
    <3> QED BY <1>f, <3>1, <3>2 DEF NodeInv, RaisedInv
  <2>7. CheckedInv(n)'
    BY <1>f, <2>0, <2>1 DEF NodeInv, CheckedInv, MineForPulse
  <2>8. ASSUME NEW o \in Nodes PROVE NodeInv(o)'
    BY <2>0, <2>3, <2>4, <2>6, <2>7, SameNode DEF Inv, NodeInv
  <2>9. ASSUME NEW w \in Requests PROVE RequestInv(w)'
    <3>1. /\ request[w].node \in Nodes /\ request[w].pulse \in Nat
          /\ \A o \in Nodes : closedUntil[o] \in Nat /\ closedUntil'[o] \in Nat
      BY <1>f, <2>1, Bounds DEF TypeOK, RequestType
    <3>2. RequestInv(w)
      BY DEF Inv
    <3>3. CASE request[w].node = n
      BY <1>f, <2>0, <2>1, <2>5, <2>r, <3>1, <3>2, <3>3 DEF RequestInv, Live
    <3>4. CASE request[w].node # n
      BY <2>0, <2>1, <2>r, <3>1, <3>2, <3>4 DEF RequestInv, Live
    <3> QED BY <3>3, <3>4
  <2> QED BY <2>3, <2>8, <2>9 DEF Inv
<1>3. CASE Close(n)
  <2>0. /\ set[n] = "close" /\ set' = [set EXCEPT ![n] = "drain"]
        /\ writable' = [writable EXCEPT ![n] = 0]
        /\ UNCHANGED <<executor, latest, newPulse, justJoined, waiters, opened, raised,
                       closedUntil, index, sending, hots, request, stored>>
    BY <1>3 DEF Close, waiter
  <2>1. /\ set' \in [Nodes -> SetStates] /\ set'[n] = "drain"
        /\ writable' \in [Nodes -> 0 .. MaxPulse] /\ writable'[n] = 0
        /\ \A o \in Nodes \ {n} : set'[o] = set[o] /\ writable'[o] = writable[o]
    BY <1>f, <2>0, Bounds DEF TypeOK, SetStates
  <2>2. TypeOK' /\ \A o \in Nodes \ {n} : Same(o)
    BY <1>f, <2>0, <2>1 DEF TypeOK, Same
  <2>3. NodeInv(n)'
    BY <1>f, <2>0, <2>1
        DEF NodeInv, ClosedInv, PulseInv, WritableInv, CheckedInv, RaisedInv
  <2> QED BY <1>f, <2>0, <2>2, <2>3, NodeStep
<1>4. CASE Drain(n)
  <2>0. /\ set[n] = "drain" /\ set' = [set EXCEPT ![n] = "open"]
        /\ UNCHANGED <<executor, latest, newPulse, justJoined, writable, waiters, opened, raised,
                       closedUntil, index, sending, hots, request, stored>>
    BY <1>4 DEF Drain, waiter
  <2>1. /\ set' \in [Nodes -> SetStates] /\ set'[n] = "open"
        /\ \A o \in Nodes \ {n} : set'[o] = set[o]
    BY <1>f, <2>0 DEF TypeOK, SetStates
  <2>2. TypeOK' /\ \A o \in Nodes \ {n} : Same(o)
    BY <1>f, <2>0, <2>1 DEF TypeOK, Same
  <2>3. NodeInv(n)'
    BY <1>f, <2>0, <2>1
        DEF NodeInv, ClosedInv, PulseInv, WritableInv, CheckedInv, RaisedInv
  <2> QED BY <1>f, <2>0, <2>2, <2>3, NodeStep
<1>5. CASE Open(n)
  <2>0. /\ set[n] = "open" /\ set' = [set EXCEPT ![n] = "append"]
        /\ writable' = [writable EXCEPT ![n] = newPulse[n]]
        /\ UNCHANGED <<executor, latest, newPulse, justJoined, waiters, opened, raised,
                       closedUntil, index, sending, hots, request, stored>>
    BY <1>5 DEF Open, waiter
  <2>1. /\ set' \in [Nodes -> SetStates] /\ set'[n] = "append"
        /\ writable' \in [Nodes -> 0 .. MaxPulse] /\ writable'[n] = newPulse[n]
        /\ \A o \in Nodes \ {n} : set'[o] = set[o] /\ writable'[o] = writable[o]
    BY <1>f, <2>0 DEF TypeOK, SetStates
  <2>2. TypeOK' /\ \A o \in Nodes \ {n} : Same(o)
    BY <1>f, <2>0, <2>1 DEF TypeOK, Same
  <2>3. NodeInv(n)'
    BY <1>f, <2>0, <2>1
        DEF NodeInv, ClosedInv, PulseInv, WritableInv, CheckedInv, RaisedInv
  <2> QED BY <1>f, <2>0, <2>2, <2>3, NodeStep
<1>6. CASE Append(n)
  <2> DEFINE more == IF justJoined[n] THEN {}
                     ELSE {[jet |-> j, from |-> latest[n], to |-> newPulse[n]] :
                           j \in MineForPulse(n, latest[n])}
  <2>0. /\ set[n] = "append" /\ set' = [set EXCEPT ![n] = "idle"]
        /\ latest' = [latest EXCEPT ![n] = newPulse[n]]
        /\ sending' = [sending EXCEPT ![n] = sending[n] \cup more]
        /\ UNCHANGED <<executor, newPulse, justJoined, writable, waiters, opened, raised,
                       closedUntil, index, hots, request, stored>>
    BY <1>6, <1>f DEF Append, waiter, TypeOK
  <2>1. newPulse[n] > latest[n] /\ closedUntil[n] = latest[n] /\ writable[n] = newPulse[n]
    BY <1>f, <2>0 DEF NodeInv, PulseInv, ClosedInv, WritableInv
  <2>2. more \subseteq [jet : Jets, from : Pulses, to : Pulses]
    <3>1. newPulse[n] \in Pulses
      BY <1>f, <2>1, Bounds
    <3>2. ASSUME NEW j \in MineForPulse(n, latest[n])
          PROVE  j \in Jets /\ latest[n] \in Pulses
      BY <1>f, Bounds DEF MineForPulse
    <3> QED BY <3>1, <3>2
  <2> HIDE DEF more
  <2>3. /\ set' \in [Nodes -> SetStates] /\ set'[n] = "idle"
        /\ latest' \in [Nodes -> 0 .. MaxPulse] /\ latest'[n] = newPulse[n]
        /\ sending' \in [Nodes -> SUBSET [jet : Jets, from : Pulses, to : Pulses]]
        /\ \A o \in Nodes \ {n} :
              set'[o] = set[o] /\ latest'[o] = latest[o] /\ sending'[o] = sending[o]
    BY <1>f, <2>0, <2>2 DEF TypeOK, SetStates
  <2>4. TypeOK' /\ \A o \in Nodes \ {n} : Same(o)
    BY <1>f, <2>0, <2>3 DEF TypeOK, Same
  <2>5. NodeInv(n)'
    BY <1>f, <2>0, <2>1, <2>3
        DEF NodeInv, ClosedInv, PulseInv, WritableInv, CheckedInv, RaisedInv
  <2>6. /\ closedUntil[n] = closedUntil'[n] /\ latest[n] <= closedUntil'[n]
        /\ latest[n] <= latest'[n]
    BY <1>f, <2>0, <2>1, <2>3
  <2> QED BY <2>0, <2>4, <2>5, <2>6, NodeStep
<1> QED BY <1>1, <1>2, <1>3, <1>4, <1>5, <1>6

\* Hot data on their way.
LEMMA HotSteps ==
    ASSUME Inv, \/ \E n \in Nodes : \E s \in sending[n] : SendHot(n, s)
                \/ \E m \in hots : LoseHot(m) \/ HandleHot(m) \/ StoreHot(m) \/ UnlockHot(m)
    PROVE  Inv'
<1>t. TypeOK
  BY DEF Inv
<1>1. ASSUME NEW n \in Nodes, NEW s \in sending[n], SendHot(n, s) PROVE Inv'
  <2>f. /\ NodeInv(n) /\ latest[n] \in Nat /\ closedUntil[n] \in Nat
        /\ latest[n] \in 0 .. MaxPulse
    BY NodeFacts
  <2> DEFINE h == [jet |-> s.jet, pulse |-> s.to, data |-> Of(s.jet, index[n][s.from]),
                   sent |-> latest[n], node |-> executor[s.jet][latest[n]], at |-> "sent"]
  <2>0. /\ sending' = [sending EXCEPT ![n] = sending[n] \ {s}] /\ hots' = hots \cup {h}
        /\ UNCHANGED <<executor, latest, set, newPulse, justJoined, writable, waiters, opened,
                       raised, closedUntil, index, request, stored>>
    BY <1>1, <1>t DEF SendHot, node, waiter, TypeOK
  <2>1. s.jet \in Jets /\ s.from \in Pulses /\ s.to \in Pulses
    BY <1>t DEF TypeOK
  <2>2. latest[n] \in Pulses
    BY <2>f, Bounds DEF NodeInv, PulseInv
  <2>3. executor[s.jet][latest[n]] \in Nodes
    BY <1>t, <2>1, <2>2 DEF TypeOK
  <2>4. Of(s.jet, index[n][s.from]) \subseteq Requests
    <3>1. index[n][s.from] \subseteq Requests
      BY <1>t, <2>1 DEF TypeOK
    <3> QED BY <3>1 DEF Of
  <2>5. h \in Hot
    BY <2>1, <2>2, <2>3, <2>4 DEF Hot
  <2> HIDE DEF h
  <2>6. /\ sending' \in [Nodes -> SUBSET [jet : Jets, from : Pulses, to : Pulses]]
        /\ sending'[n] \subseteq sending[n] /\ \A o \in Nodes \ {n} : sending'[o] = sending[o]
    BY <1>t, <2>0 DEF TypeOK
  <2>7. TypeOK' /\ \A o \in Nodes \ {n} : Same(o)
    BY <1>t, <2>0, <2>5, <2>6 DEF TypeOK, Same
  <2>8. NodeInv(n)'
    BY <2>f, <2>0, <2>6
        DEF NodeInv, ClosedInv, PulseInv, WritableInv, CheckedInv, RaisedInv, MineForPulse
  <2> QED BY <2>f, <2>0, <2>7, <2>8, NodeStep
<1>2. ASSUME NEW m \in hots, LoseHot(m) \/ HandleHot(m) PROVE Inv'
  <2>1. UNCHANGED <<executor, latest, set, newPulse, justJoined, writable, waiters, opened, raised,
                    closedUntil, index, sending, request, stored>>
    BY <1>2 DEF LoseHot, HandleHot, node, waiter
  <2>2. m \in Hot /\ hots \subseteq Hot
    BY <1>t DEF TypeOK
  <2>3. [m EXCEPT !.at = "handled"] \in Hot
    BY <2>2 DEF Hot
  <2>4. hots' \subseteq Hot
    BY <1>2, <2>2, <2>3 DEF LoseHot, HandleHot
  <2>5. TypeOK' /\ \A o \in Nodes : Same(o)
    BY <1>t, <2>1, <2>4 DEF TypeOK, Same
  <2> QED BY <2>1, <2>5, StillStep
<1>3. ASSUME NEW m \in hots, StoreHot(m) PROVE Inv'
  <2>1. UNCHANGED <<executor, latest, set, newPulse, justJoined, writable, waiters, opened, raised,
                    closedUntil, sending, request, stored>>
    BY <1>3 DEF StoreHot, node, waiter
  <2>2. m \in Hot /\ hots \subseteq Hot
    BY <1>t DEF TypeOK
  <2>3. hots' \subseteq Hot
    <3>1. [m EXCEPT !.at = "stored"] \in Hot
      BY <2>2 DEF Hot
    <3> QED BY <1>3, <2>2, <3>1 DEF StoreHot
  <2>4. index' \in [Nodes -> [Pulses -> SUBSET Requests]]
    <3> DEFINE old == index[m.node][m.pulse]
               new == IF m.data = {} THEN old ELSE (old \ Of(m.jet, old)) \cup m.data
    <3>1. m.node \in Nodes /\ m.pulse \in Pulses /\ m.data \subseteq Requests
      BY <2>2 DEF Hot
    <3>2. old \subseteq Requests
      BY <1>t, <3>1 DEF TypeOK
    <3>3. new \subseteq Requests
      BY <3>1, <3>2
    <3>4. index' = [index EXCEPT ![m.node][m.pulse] = new]
      BY <1>3, <1>t, <3>1 DEF StoreHot, TypeOK
    <3> HIDE DEF new
    <3> QED BY <1>t, <3>1, <3>3, <3>4 DEF TypeOK
  <2>5. TypeOK' /\ \A o \in Nodes : Same(o)
    BY <1>t, <2>1, <2>3, <2>4 DEF TypeOK, Same
  <2> QED BY <2>1, <2>5, StillStep
<1>4. ASSUME NEW m \in hots, UnlockHot(m) PROVE Inv'
  <2>1. UNCHANGED <<executor, latest, set, newPulse, justJoined, writable, index, sending, request,
                    stored>>
    BY <1>4 DEF UnlockHot, node
  <2>2. m.node \in Nodes /\ m.pulse \in Pulses /\ m.jet \in Jets /\ hots' \subseteq Hot
    <3>1. m \in Hot /\ hots \subseteq Hot
      BY <1>t DEF TypeOK
    <3> QED BY <1>4, <3>1 DEF UnlockHot, Hot
  <2>3. CASE UNCHANGED waiter
    <3>1. TypeOK' /\ \A o \in Nodes : Same(o)
      BY <1>t, <2>1, <2>2, <2>3 DEF TypeOK, Same, waiter
    <3> QED BY <2>1, <3>1, StillStep
  <2>4. CASE UnlockAll(m.node, m.pulse, {m.jet})
    <3>n. PICK n \in Nodes, p \in Pulses : n = m.node /\ p = m.pulse
      BY <2>2
    <3>f. NodeInv(n) /\ latest[n] \in Nat /\ closedUntil[n] \in Nat
      BY NodeFacts
    <3>0. UnlockAll(n, p, {m.jet}) /\ {m.jet} \in SUBSET Jets
      BY <2>2, <2>4, <3>n
    <3>1. /\ waiters' \in [Nodes -> SUBSET Pulses]
          /\ opened' \in [Nodes -> SUBSET (Jets \X Pulses)]
          /\ raised' \in [Nodes -> SUBSET (Jets \X Pulses)]
          /\ \A o \in Nodes \ {n} : opened'[o] = opened[o] /\ raised'[o] = raised[o]
          /\ closedUntil' = closedUntil /\ raised[n] \subseteq raised'[n]
          /\ \A o \in opened'[n] : o[2] > closedUntil[n] => o \in raised'[n]
      BY <3>0, UnlockStep
    <3>2. TypeOK' /\ \A o \in Nodes \ {n} : Same(o)
      BY <1>t, <2>1, <2>2, <3>1 DEF TypeOK, Same
    <3>3. ClosedInv(n)' /\ PulseInv(n)' /\ WritableInv(n)' /\ RaisedInv(n)'
      BY <2>1, <3>f, <3>1 DEF NodeInv, ClosedInv, PulseInv, WritableInv, RaisedInv
    <3>4. CheckedInv(n)'
      BY <2>1, <3>f, <3>1 DEF NodeInv, CheckedInv, MineForPulse
    <3> QED BY <2>1, <3>f, <3>1, <3>2, <3>3, <3>4, NodeStep DEF NodeInv
  <2> QED BY <1>4, <2>3, <2>4 DEF UnlockHot
<1> QED BY <1>1, <1>2, <1>3, <1>4

\* A request goes on, and the rest of the node with it only as far as types go.
LEMMA RequestMove ==
    ASSUME Inv, NEW w \in Requests, NEW v \in RequestType, request' = [request EXCEPT ![w] = v],
           UNCHANGED <<executor, latest, set, newPulse, justJoined, writable, opened, raised,
                       closedUntil, sending, hots>>,
           waiters' \in [Nodes -> SUBSET Pulses],
           index' \in [Nodes -> [Pulses -> SUBSET Requests]],
           stored' \subseteq Requests \X Pulses,
           RequestInv(w)'
    PROVE  Inv'
<1>1. TypeOK
  BY DEF Inv
<1>2. request' \in [Requests -> RequestType] /\ \A u \in Requests \ {w} : request'[u] = request[u]
  BY <1>1 DEF TypeOK
<1>3. TypeOK' /\ \A o \in Nodes : Same(o)
  BY <1>1, <1>2 DEF TypeOK, Same
<1> QED BY <1>2, <1>3, RequestStep

LEMMA RequestSteps ==
    ASSUME Inv, NEW w \in Requests,
           \/ \E n \in Nodes : Dispatch(w, n)
           \/ Wait(w) \/ WaitReturns(w) \/ WaitTimesOut(w) \/ Lock(w) \/ Begin(w) \/ Store(w)
    PROVE  Inv'
<1>t. /\ TypeOK /\ request[w] \in RequestType /\ RequestInv(w)
      /\ waiters \in [Nodes -> SUBSET Pulses]
      /\ index \in [Nodes -> [Pulses -> SUBSET Requests]]
      /\ stored \subseteq Requests \X Pulses /\ JetOf[w] \in Jets
  BY JetOfAssumption DEF Inv, TypeOK
<1>n. PICK n \in Nodes, p \in 0 .. MaxPulse : n = request[w].node /\ p = request[w].pulse
  BY <1>t DEF RequestType
<1>f. /\ NodeInv(n) /\ latest[n] \in Nat /\ newPulse[n] \in Nat /\ writable[n] \in Nat
      /\ closedUntil[n] \in Nat /\ p \in Nat
  BY NodeFacts, Bounds
\* The request gets to another control point, in the same pulse.
<1> DEFINE At(x) == [request[w] EXCEPT !.pc = x]
<1>a. ASSUME NEW x \in RequestStates
      PROVE  /\ At(x) \in RequestType /\ At(x).pc = x /\ At(x).node = n /\ At(x).pulse = p
  BY <1>t, <1>n DEF RequestType
<1>e. ASSUME NEW v \in RequestType, request' = [request EXCEPT ![w] = v] PROVE request'[w] = v
  BY <1>t, <1>e DEF TypeOK
<1>1. ASSUME NEW o \in Nodes, Dispatch(w, o) PROVE Inv'
  <2> DEFINE v == [pc |-> "start", node |-> o, pulse |-> latest[o], base |-> {}]
  <2>0. /\ latest[o] # 0 /\ o = executor[JetOf[w]][latest[o]]
        /\ request' = [request EXCEPT ![w] = v]
        /\ UNCHANGED <<executor, latest, set, newPulse, justJoined, writable, waiters, opened,
                       raised, closedUntil, index, sending, hots, stored>>
    BY <1>1 DEF Dispatch, node, waiter
  <2>1. latest[o] \in 0 .. MaxPulse /\ latest[o] \in Nat
    BY NodeFacts
  <2>2. v \in RequestType
    BY <2>1 DEF RequestType, RequestStates
  <2>3. request'[w] = v
    BY <1>e, <2>0, <2>2
  <2>4. RequestInv(w)'
    BY <2>0, <2>1, <2>3 DEF RequestInv, Live
  <2> HIDE DEF v
  <2> QED BY <1>t, <2>0, <2>2, <2>4, RequestMove
<1>2. CASE Wait(w)
  <2> DEFINE x == IF p <= closedUntil[n] THEN "lock" ELSE "wait"
  <2>0. /\ request[w].pc = "start" /\ request' = [request EXCEPT ![w] = At(x)]
        /\ UNCHANGED <<executor, latest, set, newPulse, justJoined, writable, opened,
                       raised, closedUntil, index, sending, hots, stored>>
    BY <1>2, <1>n, <1>t DEF Wait, node, TypeOK
  <2>1. /\ x \in RequestStates /\ x \in {"lock", "wait"}
        /\ x = "lock" => p <= closedUntil[n]
        /\ x = "wait" => p > closedUntil[n]
    BY <1>f DEF RequestStates
  <2> HIDE DEF x, At
  <2>2. request'[w] = At(x) /\ At(x) \in RequestType
    BY <1>a, <1>e, <2>0, <2>1
  <2>3. RequestInv(w)'
    BY <1>a, <1>n, <1>t, <2>0, <2>1, <2>2 DEF RequestInv, Live
  <2>4. waiters' \in [Nodes -> SUBSET Pulses]
    <3>1. p \in Pulses
      BY <1>f, <1>n, <1>t, <2>0, Bounds DEF RequestInv, Live
    <3>2. \/ waiters' = waiters \/ waiters' = [waiters EXCEPT ![n] = waiters[n] \cup {p}]
      BY <1>2, <1>n, <1>t DEF Wait
    <3> QED BY <1>t, <3>1, <3>2
  <2> QED BY <1>t, <2>0, <2>2, <2>3, <2>4, RequestMove
<1>3. CASE WaitReturns(w) \/ WaitTimesOut(w)
  <2>0. PICK y \in {"lock", "failed"} :
        /\ request[w].pc \in {"wait", "timeout"} /\ request' = [request EXCEPT ![w] = At(y)]
        /\ y = "lock" => <<JetOf[w], p>> \in raised[n]
        /\ UNCHANGED <<executor, latest, set, newPulse, justJoined, writable, waiters, opened,
                       raised, closedUntil, index, sending, hots, stored>>
    <3>1. CASE WaitReturns(w)
      BY <1>n, <1>t, <3>1 DEF WaitReturns, node, waiter, TypeOK
    <3>2. CASE WaitTimesOut(w)
      BY <1>n, <1>t, <3>2 DEF WaitTimesOut, node, waiter, TypeOK
    <3> QED BY <1>3, <3>1, <3>2
  <2>1. y \in RequestStates
    BY DEF RequestStates
  <2> HIDE DEF At
  <2>2. request'[w] = At(y) /\ At(y) \in RequestType
    BY <1>a, <1>e, <2>0, <2>1
  <2>3. RequestInv(w)'
    BY <1>a, <1>n, <1>t, <2>0, <2>1, <2>2 DEF RequestInv, Live
  <2> QED BY <1>t, <2>0, <2>2, <2>3, RequestMove
<1>4. CASE Lock(w)
  <2> DEFINE held == Of(JetOf[w], index[n][p])
             x == IF w \in held THEN "done" ELSE "begin"
             v == [request[w] EXCEPT !.pc = x, !.base = held]
  <2>0. /\ request[w].pc = "lock" /\ request' = [request EXCEPT ![w] = v]
        /\ UNCHANGED <<executor, latest, set, newPulse, justJoined, writable, waiters, opened,
                       raised, closedUntil, index, sending, hots, stored>>
    BY <1>4, <1>n, <1>t DEF Lock, node, waiter, TypeOK
  <2>1. x \in RequestStates /\ x \in {"done", "begin"}
    BY DEF RequestStates
  <2>2. held \subseteq Requests
    <3>1. p \in Pulses
      BY <1>f, <1>n, <1>t, <2>0, Bounds DEF RequestInv, Live
    <3>2. index[n][p] \subseteq Requests
      BY <1>t, <3>1
    <3> QED BY <3>2 DEF Of
  <2> HIDE DEF x, held
  <2>3. v \in RequestType /\ v.pc = x /\ v.node = n /\ v.pulse = p
    BY <1>t, <1>n, <2>1, <2>2 DEF RequestType
  <2> HIDE DEF v
  <2>4. request'[w] = v
    BY <1>e, <2>0, <2>3
  <2>5. RequestInv(w)'
    BY <1>n, <1>t, <2>0, <2>1, <2>3, <2>4 DEF RequestInv, Live
  <2> QED BY <1>t, <2>0, <2>3, <2>5, RequestMove
<1>5. CASE Begin(w)
  <2> DEFINE x == IF p = writable[n] THEN "write" ELSE "failed"
  <2>0. /\ request[w].pc = "begin" /\ set[n] # "fatal" /\ request' = [request EXCEPT ![w] = At(x)]
        /\ UNCHANGED <<executor, latest, set, newPulse, justJoined, writable, waiters, opened,
                       raised, closedUntil, index, sending, hots, stored>>
    BY <1>5, <1>n, <1>t DEF Begin, Alive, node, waiter, TypeOK
  <2>1. x \in RequestStates /\ x \in {"write", "failed"} /\ (x = "write" => p = writable[n])
    BY DEF RequestStates
  <2> HIDE DEF x, At
  <2>2. request'[w] = At(x) /\ At(x) \in RequestType
    BY <1>a, <1>e, <2>0, <2>1
  <2>p. /\ 0 < p /\ p <= latest[n] /\ executor[JetOf[w]][p] = n
        /\ p <= closedUntil[n] \/ <<JetOf[w], p>> \in raised[n]
    BY <1>n, <1>t, <2>0 DEF RequestInv, Live
  <2>3. x = "write" => <<JetOf[w], p>> \in raised[n]
    <3> SUFFICES ASSUME p = writable[n], p <= closedUntil[n] PROVE <<JetOf[w], p>> \in raised[n]
      BY <2>1, <2>p
    <3>1. set[n] \in SetStates
      BY <1>t DEF TypeOK
    <3>2. set[n] = "close" /\ p = latest[n]
      BY <1>f, <2>0, <2>p, <3>1
          DEF NodeInv, ClosedInv, PulseInv, WritableInv, SetStates
    <3>3. JetOf[w] \in MineForPulse(n, latest[n])
      BY <1>t, <2>p, <3>2 DEF MineForPulse
    <3> QED BY <1>f, <2>p, <3>2, <3>3 DEF NodeInv, CheckedInv
  <2>4. RequestInv(w)'
    BY <1>a, <1>n, <1>t, <2>0, <2>1, <2>2, <2>3 DEF RequestInv, Live
  <2> QED BY <1>t, <2>0, <2>2, <2>4, RequestMove
<1>6. CASE Store(w)
  <2> DEFINE old == index[n][p]
             new == (old \ Of(JetOf[w], old)) \cup request[w].base \cup {w}
  <2>0. /\ request[w].pc = "write"
        /\ stored' = stored \cup {<<w, p>>}
        /\ UNCHANGED <<executor, latest, set, newPulse, justJoined, writable, waiters, opened,
                       raised, closedUntil, sending, hots>>
    BY <1>6, <1>n DEF Store, node, waiter
  <2>1. PICK y \in {"done", "failed"} : request' = [request EXCEPT ![w] = At(y)]
    BY <1>6, <1>t DEF Store, TypeOK
  <2>2. p \in Pulses
    BY <1>f, <1>n, <1>t, <2>0, Bounds DEF RequestInv, Live
  <2>3. index' \in [Nodes -> [Pulses -> SUBSET Requests]]
    <3>1. old \subseteq Requests /\ request[w].base \subseteq Requests
      BY <1>t, <2>2 DEF RequestType
    <3>2. new \subseteq Requests
      BY <3>1
    <3>3. index' = [index EXCEPT ![n][p] = new]
      BY <1>6, <1>n, <1>t, <2>2 DEF Store
    <3> HIDE DEF new
    <3> QED BY <1>t, <2>2, <3>2, <3>3
  <2>4. y \in RequestStates
    BY DEF RequestStates
  <2> HIDE DEF At
  <2>5. request'[w] = At(y) /\ At(y) \in RequestType
    BY <1>a, <1>e, <2>1, <2>4
  <2>6. RequestInv(w)'
    BY <1>a, <2>1, <2>4, <2>5 DEF RequestInv, Live
  <2>7. stored' \subseteq Requests \X Pulses
    BY <1>t, <2>0, <2>2
  <2> QED BY <1>t, <2>0, <2>1, <2>3, <2>5, <2>6, <2>7, RequestMove
<1> QED BY <1>1, <1>2, <1>3, <1>4, <1>5, <1>6

LEMMA NextInv == Inv /\ [Next]_vars => Inv'
<1> SUFFICES ASSUME Inv, [Next]_vars PROVE Inv'
  OBVIOUS
<1>1. CASE \E n \in Nodes, p \in Pulses : Join(n, p) \/ SetPulse(n, p)
  BY <1>1, PulseSteps
<1>2. CASE \E n \in Nodes :
              \/ CheckHot(n) \/ CloseAllUntil(n) \/ Close(n) \/ Drain(n) \/ Open(n) \/ Append(n)
  BY <1>2, SetSteps
<1>3. CASE \/ \E n \in Nodes : \E s \in sending[n] : SendHot(n, s)
           \/ \E m \in hots : LoseHot(m) \/ HandleHot(m) \/ StoreHot(m) \/ UnlockHot(m)
  BY <1>3, HotSteps
<1>4. CASE \E w \in Requests :
              \/ \E n \in Nodes : Dispatch(w, n)
              \/ Wait(w) \/ WaitReturns(w) \/ WaitTimesOut(w) \/ Lock(w) \/ Begin(w) \/ Store(w)
  BY <1>4, RequestSteps
<1>5. CASE UNCHANGED vars
  <2>1. TypeOK' /\ executor' = executor /\ request' = request /\ \A o \in Nodes : Same(o)
    BY <1>5 DEF vars, Inv, TypeOK, Same
  <2> QED BY <2>1, StillStep
<1> QED BY <1>1, <1>2, <1>3, <1>4, <1>5, Zenon DEF Next

LEMMA InvGivesSafety == Inv => TypeOK /\ HotBeforeWrite /\ NobodyWaitsInVain
<1> SUFFICES ASSUME Inv PROVE HotBeforeWrite /\ NobodyWaitsInVain
  BY DEF Inv
<1>1. ASSUME NEW w \in Requests, request[w].pc = "write"
      PROVE  /\ executor[JetOf[w]][request[w].pulse] = request[w].node
             /\ OpenedFor(JetOf[w], request[w].pulse)
  BY <1>1 DEF Inv, RequestInv, Live, OpenedFor
<1>2. ASSUME NEW w \in Requests, request[w].pc = "wait"
      PROVE  /\ request[w].pulse = latest[request[w].node]
             /\ set[request[w].node] \notin {"close", "drain", "open", "append"}
  <2>1. request[w].node \in Nodes /\ request[w].pulse \in Nat
    BY Bounds DEF Inv, TypeOK, RequestType
  <2>2. closedUntil[request[w].node] \in Nat /\ NodeInv(request[w].node)
    BY <2>1, NodeFacts
  <2>3. /\ request[w].pulse > closedUntil[request[w].node]
        /\ \/ request[w].pulse = latest[request[w].node]
           \/ request[w].pulse <= closedUntil[request[w].node]
    BY <1>2 DEF Inv, RequestInv, Live
  <2> QED BY <2>1, <2>2, <2>3 DEF NodeInv, ClosedInv
<1> QED BY <1>1, <1>2 DEF HotBeforeWrite, NobodyWaitsInVain

\* In every behaviour of the light nodes, for any number of nodes, jets,
\* requests and pulses, with hot data late or lost: a request is written only
\* by the executor of its pulse and only after the jet was opened there, and
\* whoever waits for a pulse that is over has its timeout closed.
THEOREM GateIsSafe == Spec => [](TypeOK /\ HotBeforeWrite /\ NobodyWaitsInVain)
<1>1. Init => Inv
  BY InitInv
<1>2. Inv /\ [Next]_vars => Inv'
  BY NextInv
<1>3. Inv => TypeOK /\ HotBeforeWrite /\ NobodyWaitsInVain
  BY InvGivesSafety
<1> QED BY <1>1, <1>2, <1>3, PTL DEF Spec

-----------------------------------------------------------------------------
(* The way of the data.                                                     *)

\* After CheckHot the hot data of the ended pulse are there, until they are
\* sent on.
SetInv(n) ==
    set[n] \in {"closeall", "close", "drain", "open", "append"} /\ ~justJoined[n] =>
        \A j \in MineForPulse(n, latest[n]) : <<j, latest[n]>> \in raised[n]

\* Whoever writes keeps its node in the pulse.
WriterInv(w) ==
    request[w].pc = "write" =>
        /\ request[w].pulse = latest[request[w].node]
        /\ set[request[w].node] \notin {"open", "append"}

\* A jet's hot data for pulse q wait to be sent, or are on their way.
Pending(j, q) ==
    \/ \E n \in Nodes : \E s \in sending[n] : s.jet = j /\ s.to = q
    \/ \E m \in hots : m.jet = j /\ m.pulse = q

\* The first executor of a jet has joined before the jet is anywhere.
StartInv(j) ==
    (\E q \in Pulses : Pending(j, q) \/ OpenedFor(j, q)) => newPulse[executor[j][1]] # 0

\* The hot data of a jet are in one place at most.
OnePlaceInv ==
    /\ \A n, o \in Nodes : \A s \in sending[n], t \in sending[o] :
          s.jet = t.jet => n = o /\ s = t
    /\ \A l, m \in hots : l.jet = m.jet => l = m
    /\ \A n \in Nodes : \A s \in sending[n], m \in hots : s.jet # m.jet

\* Executors before the newest one have left the pulse.
NewestInv(j) ==
    \A p, q \in Pulses :
        OpenedFor(j, p) /\ (Pending(j, q) \/ (OpenedFor(j, q) /\ p < q)) =>
            p < q /\ p < latest[executor[j][p]]

\* The requests that any node has stored for jet j.
StoredOf(j) == {w \in Requests : JetOf[w] = j /\ \E p \in Pulses : <<w, p>> \in stored}

\* What is on its way is complete.
HotInv ==
    /\ \A n \in Nodes : \A s \in sending[n] : StoredOf(s.jet) \subseteq index[n][s.from]
    /\ \A m \in hots :
          /\ StoredOf(m.jet) \subseteq m.data
          /\ \A w \in m.data : JetOf[w] = m.jet
          /\ m.at = "stored" => StoredOf(m.jet) \subseteq index[m.node][m.pulse]

\* What is stored was stored by an executor whose jet is open.
StoredInv == \A s \in stored : OpenedFor(JetOf[s[1]], s[2])

\* Where a request holds the lock of its object.
Locking == {"begin", "write"}

\* Whoever has the object locked has read what there is.
BaseInv(w) ==
    LET n == request[w].node  p == request[w].pulse
    IN  request[w].pc \in Locking =>
          /\ \A v \in request[w].base : JetOf[v] = JetOf[w]
          /\ w \notin request[w].base
          /\ <<JetOf[w], p>> \in raised[n] => Of(JetOf[w], index[n][p]) \subseteq request[w].base

\* One request of a jet at a time holds the object's lock on a node.
LockInv ==
    \A v, w \in Requests :
        /\ request[v].pc \in Locking /\ request[w].pc \in Locking
        /\ request[v].node = request[w].node /\ JetOf[v] = JetOf[w]
        => v = w

\* No request was stored in two pulses.
OnceInv == \A s, t \in stored : s[1] = t[1] => s = t

\* The inductive invariant of the data, on top of Inv.
DataInv ==
    /\ \A n \in Nodes : SetInv(n)
    /\ \A w \in Requests : WriterInv(w) /\ BaseInv(w)
    /\ \A j \in Jets : StartInv(j) /\ NewestInv(j)
    /\ OnePlaceInv /\ HotInv /\ StoredInv /\ LockInv
    /\ NothingIsLost /\ OnceInv

\* What the types say of the data.
LEMMA DataTypes ==
    ASSUME TypeOK
    PROVE  /\ \A j \in Jets, p \in Pulses : executor[j][p] \in Nodes
           /\ \A n \in Nodes : latest[n] \in Nat /\ newPulse[n] \in Nat
           /\ \A n \in Nodes : \A s \in sending[n] : s.jet \in Jets /\ s.from \in Pulses /\ s.to \in Pulses
           /\ \A m \in hots : /\ m.jet \in Jets /\ m.pulse \in Pulses /\ m.node \in Nodes
                              /\ m.data \subseteq Requests
           /\ \A w \in Requests : request[w].node \in Nodes /\ request[w].pulse \in Nat
                                  /\ JetOf[w] \in Jets
           /\ \A n \in Nodes, p \in Pulses : index[n][p] \subseteq Requests
           /\ \A s \in stored : s[1] \in Requests /\ s[2] \in Pulses /\ s = <<s[1], s[2]>>
           /\ \A p \in Pulses : p \in Nat /\ p > 0
<1>1. \A m \in hots : m.jet \in Jets /\ m.pulse \in Pulses /\ m.node \in Nodes /\ m.data \subseteq Requests
  BY DEF TypeOK, Hot
<1>2. \A n \in Nodes : latest[n] \in Nat /\ newPulse[n] \in Nat
  BY Bounds DEF TypeOK
<1>3. \A w \in Requests : request[w].node \in Nodes /\ request[w].pulse \in Nat /\ JetOf[w] \in Jets
  BY Bounds, JetOfAssumption DEF TypeOK, RequestType
<1>4. \A s \in stored : s[1] \in Requests /\ s[2] \in Pulses /\ s = <<s[1], s[2]>>
  BY DEF TypeOK
<1>5. \A n \in Nodes : \A s \in sending[n] : s.jet \in Jets /\ s.from \in Pulses /\ s.to \in Pulses
  BY DEF TypeOK
<1>6. \A n \in Nodes, p \in Pulses : index[n][p] \subseteq Requests
  BY DEF TypeOK
<1>7. \A p \in Pulses : p \in Nat /\ p > 0
  BY Bounds
<1>8. \A j \in Jets, p \in Pulses : executor[j][p] \in Nodes
  BY DEF TypeOK
<1> QED BY <1>1, <1>2, <1>3, <1>4, <1>5, <1>6, <1>7, <1>8

\* The chain of executors of a jet only changes where something new is opened
\* or sent.
LEMMA ChainFrame ==
    ASSUME Inv, Inv', DataInv, executor' = executor, NEW j \in Jets,
           \A n \in Nodes : latest[n] <= latest'[n] /\ (newPulse[n] # 0 => newPulse'[n] # 0),
           \A q \in Pulses : OpenedFor(j, q)' => OpenedFor(j, q),
           \A q \in Pulses : Pending(j, q)' => Pending(j, q)
    PROVE  StartInv(j)' /\ NewestInv(j)'
<1>t. /\ \A p \in Pulses : executor[j][p] \in Nodes /\ p \in Nat
      /\ \A n \in Nodes : latest[n] \in Nat /\ latest'[n] \in Nat
      /\ 1 \in Pulses
  BY DataTypes, Bounds DEF Inv, TypeOK
<1>1. StartInv(j)'
  BY <1>t DEF DataInv, StartInv
<1>2. NewestInv(j)'
  <2> SUFFICES ASSUME NEW p \in Pulses, NEW q \in Pulses, OpenedFor(j, p)',
                      Pending(j, q)' \/ (OpenedFor(j, q)' /\ p < q)
               PROVE  p < q /\ p < latest'[executor[j][p]]
    BY DEF NewestInv
  <2>1. p < q /\ p < latest[executor[j][p]]
    BY DEF DataInv, NewestInv
  <2>2. latest[executor[j][p]] <= latest'[executor[j][p]]
    BY <1>t
  <2> QED BY <1>t, <2>1, <2>2
<1> QED BY <1>1, <1>2

\* A step of Set that neither opens, nor sends, nor changes the pulse.
LEMMA SetData ==
    ASSUME Inv, Inv', DataInv, NEW n \in Nodes,
           UNCHANGED <<executor, latest, raised, index, sending, hots, stored>>,
           \A w \in Requests :
              \/ request'[w] = request[w]
              \/ request[w].pc \notin Locking /\ request'[w].pc \notin Locking,
           \A o \in Nodes \ {n} :
              set'[o] = set[o] /\ justJoined'[o] = justJoined[o] /\ newPulse'[o] = newPulse[o],
           newPulse[n] # 0 => newPulse'[n] # 0,
           SetInv(n)',
           set'[n] \in {"open", "append"} =>
              \A w \in Requests : request[w].pc = "write" => request[w].node # n
    PROVE  DataInv'
<1>t. \A m \in Nodes : latest[m] \in Nat
  BY DataTypes DEF Inv
<1>1. ASSUME NEW o \in Nodes PROVE SetInv(o)'
  <2>1. CASE o # n
    BY <2>1 DEF DataInv, SetInv, MineForPulse
  <2> QED BY <2>1
<1>2. ASSUME NEW w \in Requests PROVE WriterInv(w)' /\ BaseInv(w)'
  <2>1. WriterInv(w)'
    <3>1. request[w].node \in Nodes
      BY DataTypes DEF Inv
    <3> QED BY <3>1 DEF DataInv, WriterInv, Locking
  <2>2. BaseInv(w)'
    BY DEF DataInv, BaseInv
  <2> QED BY <2>1, <2>2
<1>3. ASSUME NEW j \in Jets PROVE StartInv(j)' /\ NewestInv(j)'
  <2>1. \A m \in Nodes : latest[m] <= latest'[m] /\ (newPulse[m] # 0 => newPulse'[m] # 0)
    BY <1>t
  <2>2. \A q \in Pulses : (OpenedFor(j, q)' => OpenedFor(j, q)) /\ (Pending(j, q)' => Pending(j, q))
    BY DEF OpenedFor, Pending
  <2> QED BY <2>1, <2>2, ChainFrame
<1>4. OnePlaceInv' /\ HotInv' /\ StoredInv' /\ LockInv' /\ NothingIsLost' /\ OnceInv'
  <2>1. OnePlaceInv' /\ LockInv' /\ OnceInv'
    BY DEF DataInv, OnePlaceInv, LockInv, OnceInv
  <2>2. HotInv'
    BY DEF DataInv, HotInv, StoredOf
  <2>3. StoredInv' /\ NothingIsLost'
    BY DEF DataInv, StoredInv, NothingIsLost, OpenedFor
  <2> QED BY <2>1, <2>2, <2>3
<1> QED BY <1>1, <1>2, <1>3, <1>4 DEF DataInv

\* A pulse begins to be set, and the calls of Set before the pulse is appended.
LEMMA SetStepsData ==
    ASSUME Inv, Inv', DataInv, NEW n \in Nodes,
           \/ \E p \in Pulses : SetPulse(n, p)
           \/ CheckHot(n) \/ CloseAllUntil(n) \/ Close(n) \/ Drain(n) \/ Open(n)
    PROVE  DataInv'
<1>t. TypeOK /\ NodeInv(n) /\ latest[n] \in Nat /\ closedUntil[n] \in Nat
  BY NodeFacts
<1>i. SetInv(n) /\ \A w \in Requests : WriterInv(w)
  BY DEF DataInv
<1>1. CASE \E p \in Pulses : SetPulse(n, p)
  <2>1. PICK p \in Pulses : SetPulse(n, p)
    BY <1>1
  <2>2. p # 0
    BY DataTypes, <1>t
  <2>3. /\ UNCHANGED <<executor, latest, raised, index, sending, hots, request, stored>>
        /\ newPulse' = [newPulse EXCEPT ![n] = p] /\ set' = [set EXCEPT ![n] = "check"]
        /\ justJoined' = [justJoined EXCEPT ![n] = FALSE]
    BY <2>1 DEF SetPulse, waiter
  <2>4. /\ set'[n] = "check" /\ newPulse'[n] # 0
        /\ \A o \in Nodes \ {n} :
              set'[o] = set[o] /\ justJoined'[o] = justJoined[o] /\ newPulse'[o] = newPulse[o]
    BY <1>t, <2>2, <2>3 DEF TypeOK
  <2>5. SetInv(n)'
    BY <2>4 DEF SetInv
  <2> QED BY <2>3, <2>4, <2>5, SetData
<1>2. CASE CheckHot(n)
  <2> DEFINE ok == \A jet \in MineForPulse(n, latest[n]) : IsReceived(n, jet, latest[n])
             x == IF ok THEN "closeall" ELSE "fatal"
  <2>0. /\ set[n] = "check" /\ set' = [set EXCEPT ![n] = x]
        /\ UNCHANGED <<executor, latest, newPulse, justJoined, raised, index, sending, hots,
                       request, stored>>
    BY <1>2 DEF CheckHot, waiter
  <2>1. ok => \A j \in MineForPulse(n, latest[n]) : <<j, latest[n]>> \in raised[n]
    <3> SUFFICES ASSUME ok, NEW j \in MineForPulse(n, latest[n])
                 PROVE  <<j, latest[n]>> \in raised[n]
      OBVIOUS
    <3>1. <<j, latest[n]>> \in opened[n] /\ latest[n] # 0
      BY DEF IsReceived, MineForPulse
    <3>2. latest[n] > closedUntil[n]
      BY <1>t, <2>0, <3>1 DEF NodeInv, ClosedInv
    <3>3. <<j, latest[n]>>[2] = latest[n]
      OBVIOUS
    <3> QED BY <1>t, <3>1, <3>2, <3>3 DEF NodeInv, RaisedInv
  <2>2. x \in {"closeall", "fatal"} /\ (x = "closeall" => ok)
    OBVIOUS
  <2> HIDE DEF x, ok
  <2>3. set'[n] = x /\ \A o \in Nodes \ {n} : set'[o] = set[o]
    BY <1>t, <2>0 DEF TypeOK
  <2>4. SetInv(n)'
    BY <2>0, <2>1, <2>2, <2>3 DEF SetInv, MineForPulse
  <2>5. set'[n] \notin {"open", "append"}
    BY <2>2, <2>3
  <2> QED BY <2>0, <2>3, <2>4, <2>5, SetData
<1>3. CASE CloseAllUntil(n) \/ Close(n) \/ Drain(n) \/ Open(n)
  <2>1. PICK x \in {"close", "drain", "open", "append"} :
           /\ set[n] \in {"closeall", "close", "drain", "open"}
           /\ set' = [set EXCEPT ![n] = x]
           /\ x = "open" => \A w \in Requests : request[w].pc = "write" => request[w].node # n
           /\ x = "append" => set[n] = "open"
           /\ \A w \in Requests :
                 \/ request'[w] = request[w]
                 \/ request[w].pc \notin Locking /\ request'[w].pc \notin Locking
           /\ UNCHANGED <<executor, latest, newPulse, justJoined, raised, index, sending, hots,
                          stored>>
    <3>1. CASE CloseAllUntil(n)
      <4>1. request' = RaiseTimeouts(n, latest[n]) /\ request \in [Requests -> RequestType]
        BY <1>t, <3>1 DEF CloseAllUntil, TypeOK
      <4>2. ASSUME NEW w \in Requests PROVE [request[w] EXCEPT !.pc = "timeout"].pc = "timeout"
        BY <4>1 DEF RequestType
      <4>3. ASSUME NEW w \in Requests
            PROVE  \/ request'[w] = request[w]
                   \/ request[w].pc \notin Locking /\ request'[w].pc \notin Locking
        BY <4>1, <4>2 DEF RaiseTimeouts, Locking
      <4> QED BY <3>1, <4>3 DEF CloseAllUntil, waiter
    <3>2. CASE Close(n)
      BY <3>2 DEF Close, waiter
    <3>3. CASE Drain(n)
      BY <3>3 DEF Drain, waiter
    <3>4. CASE Open(n)
      BY <3>4 DEF Open, waiter
    <3> QED BY <1>3, <3>1, <3>2, <3>3, <3>4
  <2>2. set'[n] = x /\ \A o \in Nodes \ {n} : set'[o] = set[o]
    BY <1>t, <2>1 DEF TypeOK
  <2>3. SetInv(n)'
    BY <1>i, <2>1, <2>2 DEF SetInv, MineForPulse
  <2>4. set'[n] \in {"open", "append"} =>
           \A w \in Requests : request[w].pc = "write" => request[w].node # n
    BY <1>i, <2>1, <2>2 DEF WriterInv
  <2> QED BY <2>1, <2>2, <2>3, <2>4, SetData
<1> QED BY <1>1, <1>2, <1>3

\* A node's first pulse: at the start of the network its jets are opened.
LEMMA JoinData ==
    ASSUME Inv, Inv', DataInv, NEW n \in Nodes, NEW p \in Pulses, Join(n, p)
    PROVE  DataInv'
<1>t. TypeOK /\ NodeInv(n) /\ latest[n] \in Nat /\ newPulse[n] \in Nat
  BY NodeFacts
<1>0. /\ set[n] = "idle" /\ newPulse[n] = 0
      /\ newPulse' = [newPulse EXCEPT ![n] = p] /\ set' = [set EXCEPT ![n] = "closeall"]
      /\ justJoined' = [justJoined EXCEPT ![n] = TRUE]
      /\ UNCHANGED <<executor, index, sending, hots, request, stored>>
  BY DEF Join
<1>p. p # 0 /\ latest[n] = 0
  BY <1>t, <1>0, DataTypes DEF NodeInv, PulseInv
<1>1. /\ newPulse'[n] = p /\ set'[n] = "closeall" /\ justJoined'[n] = TRUE
      /\ \A o \in Nodes \ {n} :
            set'[o] = set[o] /\ justJoined'[o] = justJoined[o] /\ newPulse'[o] = newPulse[o]
  BY <1>t, <1>0 DEF TypeOK
<1>2. /\ \A o \in Nodes \ {n} : latest'[o] = latest[o]
      /\ \A o \in Nodes : latest[o] \in Nat /\ latest'[o] \in Nat /\ latest[o] <= latest'[o]
  <2>1. \A o \in Nodes : latest[o] \in Nat /\ latest'[o] \in Nat
    BY DataTypes, Bounds DEF Inv, TypeOK
  <2>2. \A o \in Nodes \ {n} : latest'[o] = latest[o]
    BY <1>t DEF Join, TypeOK
  <2> QED BY <1>p, <2>1, <2>2
<1>3. /\ \A o \in Nodes \ {n} : raised'[o] = raised[o]
      /\ raised[n] \subseteq raised'[n]
      /\ \A o \in raised'[n] : o \in raised[n] \/ (o[2] = 1 /\ p = 1)
  <2>1. CASE p = 1
    <3>1. UnlockAll(n, p, Jets)
      BY <2>1 DEF Join
    <3>2. raised' = [raised EXCEPT ![n] = IF p > closedUntil[n] THEN @ \cup (Jets \X {p}) ELSE @]
      BY <3>1 DEF UnlockAll
    <3>3. raised'[n] \subseteq raised[n] \cup (Jets \X {p}) /\ raised[n] \subseteq raised'[n]
          /\ \A o \in Nodes \ {n} : raised'[o] = raised[o]
      BY <1>t, <3>2 DEF TypeOK
    <3> QED BY <2>1, <3>3
  <2>2. CASE p # 1
    <3>1. UNCHANGED raised
      BY <2>2 DEF Join, waiter
    <3> QED BY <3>1
  <2> QED BY <2>1, <2>2
<1>4. ASSUME NEW o \in Nodes PROVE SetInv(o)'
  BY <1>0, <1>1, <1>2, <1>3 DEF DataInv, SetInv, MineForPulse
\* Nobody has been served by the node.
<1>5. ASSUME NEW w \in Requests, request[w].pc \in Live PROVE request[w].node # n
  <2>1. 0 < request[w].pulse /\ request[w].pulse <= latest[request[w].node]
    BY <1>5 DEF Inv, RequestInv
  <2>2. request[w].pulse \in Nat
    BY <1>t, DataTypes
  <2> QED BY <1>p, <2>1, <2>2
<1>6. ASSUME NEW w \in Requests PROVE WriterInv(w)' /\ BaseInv(w)'
  <2>1. request[w].node \in Nodes
    BY DataTypes DEF Inv
  <2>2. WriterInv(w)'
    BY <1>0, <1>1, <1>2, <1>5, <2>1 DEF DataInv, WriterInv, Live
  <2>3. BaseInv(w)'
    <3> SUFFICES ASSUME request[w].pc \in Locking PROVE BaseInv(w)'
      BY <1>0 DEF BaseInv
    <3>1. request[w].node \in Nodes \ {n}
      BY <1>5, <2>1 DEF Live, Locking
    <3> QED BY <1>0, <1>3, <3>1 DEF DataInv, BaseInv
  <2> QED BY <2>2, <2>3
\* A jet that is opened now was nowhere before.
<1>7. ASSUME NEW j \in Jets, executor[j][1] = n, NEW q \in Pulses
      PROVE  ~Pending(j, q) /\ ~OpenedFor(j, q)
  BY <1>0, <1>7 DEF DataInv, StartInv
<1>8. ASSUME NEW j \in Jets, executor[j][1] # n, NEW q \in Pulses
      PROVE  OpenedFor(j, q)' <=> OpenedFor(j, q)
  <2>1. executor[j][q] \in Nodes
    BY <1>t, DataTypes
  <2>2. <<j, q>>[2] = q
    OBVIOUS
  <2>3. q = 1 => executor[j][q] # n
    BY <1>8
  <2> QED BY <1>0, <1>3, <2>1, <2>2, <2>3 DEF OpenedFor
<1>9. ASSUME NEW j \in Jets PROVE StartInv(j)' /\ NewestInv(j)'
  <2>p. \A q \in Pulses : Pending(j, q)' <=> Pending(j, q)
    BY <1>0 DEF Pending
  <2>1. CASE executor[j][1] = n
    <3>1. \A q \in Pulses : OpenedFor(j, q)' => q = 1
      <4> SUFFICES ASSUME NEW q \in Pulses, OpenedFor(j, q)' PROVE q = 1
        OBVIOUS
      <4>1. ~OpenedFor(j, q) /\ executor[j][q] \in Nodes
        BY <1>7, <1>t, <2>1, DataTypes
      <4>2. <<j, q>>[2] = q
        OBVIOUS
      <4> QED BY <1>0, <1>3, <4>1, <4>2 DEF OpenedFor
    <3>2. StartInv(j)'
      BY <1>0, <1>1, <1>p, <2>1 DEF StartInv
    <3>3. NewestInv(j)'
      BY <1>7, <2>1, <2>p, <3>1 DEF NewestInv
    <3> QED BY <3>2, <3>3
  <2>2. CASE executor[j][1] # n
    BY <1>0, <1>1, <1>2, <1>8, <1>p, <2>2, <2>p, ChainFrame
  <2> QED BY <2>1, <2>2
<1>10. OnePlaceInv' /\ HotInv' /\ LockInv' /\ OnceInv'
  BY <1>0 DEF DataInv, OnePlaceInv, HotInv, StoredOf, LockInv, OnceInv
<1>11. ASSUME NEW s \in stored PROVE OpenedFor(JetOf[s[1]], s[2]) /\ executor[JetOf[s[1]]][1] # n
  <2>1. OpenedFor(JetOf[s[1]], s[2])
    BY DEF DataInv, StoredInv
  <2>2. JetOf[s[1]] \in Jets /\ s[2] \in Pulses
    BY <1>t, DataTypes
  <2> QED BY <1>7, <2>1, <2>2
<1>12. StoredInv' /\ NothingIsLost'
  <2>1. \A s \in stored : s[1] \in Requests /\ s[2] \in Pulses /\ JetOf[s[1]] \in Jets
    BY <1>t, DataTypes
  <2>2. StoredInv'
    BY <1>0, <1>8, <1>11, <2>1 DEF StoredInv
  <2>3. NothingIsLost'
    <3> SUFFICES ASSUME NEW s \in stored, NEW q \in Pulses, s[2] <= q, OpenedFor(JetOf[s[1]], q)'
                 PROVE  s[1] \in index[executor[JetOf[s[1]]][q]][q]
      BY <1>0 DEF NothingIsLost
    <3>1. OpenedFor(JetOf[s[1]], q)
      BY <1>8, <1>11, <2>1
    <3> QED BY <3>1 DEF DataInv, NothingIsLost
  <2> QED BY <2>2, <2>3
<1> QED BY <1>4, <1>6, <1>9, <1>10, <1>12 DEF DataInv

\* The pulse is appended: the jets of the ended one are sent on.
LEMMA AppendData ==
    ASSUME Inv, Inv', DataInv, NEW n \in Nodes, Append(n)
    PROVE  DataInv'
<1> DEFINE l == latest[n]
           new == IF justJoined[n] THEN {}
                  ELSE {[jet |-> j, from |-> l, to |-> newPulse[n]] : j \in MineForPulse(n, l)}
<1>t. TypeOK /\ NodeInv(n) /\ l \in Nat /\ newPulse[n] \in Nat
  BY NodeFacts
<1>0. /\ set[n] = "append" /\ set' = [set EXCEPT ![n] = "idle"]
      /\ latest' = [latest EXCEPT ![n] = newPulse[n]]
      /\ sending' = [sending EXCEPT ![n] = sending[n] \cup new]
      /\ UNCHANGED <<executor, newPulse, justJoined, raised, index, hots, request, stored>>
  BY <1>t DEF Append, waiter, TypeOK
<1>1. l < newPulse[n] /\ newPulse[n] \in Pulses
  <2>1. l < newPulse[n] /\ newPulse[n] \in 0 .. MaxPulse
    BY <1>0, NodeFacts DEF NodeInv, PulseInv
  <2> QED BY <1>t, <2>1, Bounds
<1>2. ASSUME NEW s \in new
      PROVE  /\ s.jet \in Jets /\ l \in Pulses /\ executor[s.jet][l] = n /\ OpenedFor(s.jet, l)
             /\ s = [jet |-> s.jet, from |-> l, to |-> newPulse[n]]
             /\ s.from = l /\ s.to = newPulse[n]
  <2>1. ~justJoined[n] /\ \E j \in MineForPulse(n, l) : s = [jet |-> j, from |-> l, to |-> newPulse[n]]
    BY <1>2
  <2>2. PICK j \in MineForPulse(n, l) : s = [jet |-> j, from |-> l, to |-> newPulse[n]]
    BY <2>1
  <2>3. j \in Jets /\ l # 0 /\ executor[j][l] = n
    BY DEF MineForPulse
  <2>4. <<j, l>> \in raised[n]
    BY <1>0, <2>1 DEF DataInv, SetInv
  <2>5. l \in Pulses
    <3>1. l \in 0 .. MaxPulse
      BY NodeFacts
    <3> QED BY <1>t, <2>3, <3>1, Bounds
  <2> QED BY <2>2, <2>3, <2>4, <2>5 DEF OpenedFor
<1> HIDE DEF new
<1>3. /\ set'[n] = "idle" /\ \A o \in Nodes \ {n} : set'[o] = set[o]
      /\ latest'[n] = newPulse[n] /\ \A o \in Nodes \ {n} : latest'[o] = latest[o]
      /\ sending'[n] = sending[n] \cup new /\ \A o \in Nodes \ {n} : sending'[o] = sending[o]
  BY <1>t, <1>0 DEF TypeOK
<1>4. \A o \in Nodes : latest[o] \in Nat /\ latest'[o] \in Nat /\ latest[o] <= latest'[o]
  <2>1. \A o \in Nodes : latest[o] \in Nat
    BY <1>t, DataTypes
  <2> QED BY <1>t, <1>1, <1>3, <2>1
<1>5. ASSUME NEW o \in Nodes PROVE SetInv(o)'
  BY <1>0, <1>3 DEF DataInv, SetInv, MineForPulse
<1>6. ASSUME NEW w \in Requests PROVE WriterInv(w)' /\ BaseInv(w)'
  <2>1. request[w].node \in Nodes
    BY <1>t, DataTypes
  <2>2. WriterInv(w)'
    BY <1>0, <1>3, <2>1 DEF DataInv, WriterInv
  <2>3. BaseInv(w)'
    BY <1>0 DEF DataInv, BaseInv
  <2> QED BY <2>2, <2>3
<1>o. \A j, q : OpenedFor(j, q)' <=> OpenedFor(j, q)
  BY <1>0 DEF OpenedFor
\* A jet that is sent is nowhere else, and was not opened later.
<1>7. ASSUME NEW s \in new, NEW q \in Pulses
      PROVE  ~Pending(s.jet, q) /\ (OpenedFor(s.jet, q) => q <= l)
  <2>1. q \in Nat
    BY Bounds
  <2> QED BY <1>2, <1>t, <2>1 DEF DataInv, NewestInv
<1>8. ASSUME NEW j \in Jets, NEW q \in Pulses, Pending(j, q)'
      PROVE  Pending(j, q) \/ \E s \in new : s.jet = j /\ s.to = q
  BY <1>0, <1>3, <1>8 DEF Pending
<1>9. ASSUME NEW j \in Jets PROVE StartInv(j)' /\ NewestInv(j)'
  <2>1. CASE \A s \in new : s.jet # j
    BY <1>0, <1>4, <1>8, <1>o, <2>1, ChainFrame
  <2>2. CASE \E s \in new : s.jet = j
    <3>1. PICK s \in new : s.jet = j
      BY <2>2
    <3>2. StartInv(j)'
      BY <1>0, <1>2, <3>1 DEF DataInv, StartInv
    <3>3. NewestInv(j)'
      <4> SUFFICES ASSUME NEW p \in Pulses, NEW q \in Pulses, OpenedFor(j, p),
                          Pending(j, q)' \/ (OpenedFor(j, q) /\ p < q)
                   PROVE  p < q /\ p < latest'[executor[j][p]]
        BY <1>0, <1>o DEF NewestInv
      <4>1. p \in Nat /\ q \in Nat /\ executor[j][p] \in Nodes /\ executor[j][l] = n /\ p <= l
        BY <1>2, <1>7, <1>t, <3>1, DataTypes
      <4>2. p < latest'[executor[j][p]]
        <5>1. CASE p = l
          BY <1>1, <1>3, <4>1, <5>1
        <5>2. CASE p # l
          <6>1. p < l /\ OpenedFor(j, l) /\ l \in Pulses
            BY <1>2, <1>t, <3>1, <4>1, <5>2
          <6>2. p < latest[executor[j][p]]
            BY <6>1 DEF DataInv, NewestInv
          <6> QED BY <1>4, <4>1, <6>2
        <5> QED BY <5>1, <5>2
      <4>3. CASE Pending(j, q)'
        <5>1. q = newPulse[n]
          BY <1>2, <1>7, <1>8, <3>1, <4>3
        <5> QED BY <1>1, <1>t, <4>1, <4>2, <5>1
      <4> QED BY <4>2, <4>3
    <3> QED BY <3>2, <3>3
  <2> QED BY <2>1, <2>2
<1>10. OnePlaceInv'
  <2>1. ASSUME NEW s \in new, NEW o \in Nodes, NEW t \in sending[o] PROVE s.jet # t.jet
    <3>1. t.to \in Pulses
      BY <1>t, DataTypes
    <3>2. Pending(t.jet, t.to)
      BY DEF Pending
    <3> QED BY <1>7, <3>1, <3>2
  <2>2. ASSUME NEW s \in new, NEW m \in hots PROVE s.jet # m.jet
    <3>1. m.pulse \in Pulses
      BY <1>t, DataTypes
    <3>2. Pending(m.jet, m.pulse)
      BY DEF Pending
    <3> QED BY <1>7, <3>1, <3>2
  <2>3. ASSUME NEW s \in new, NEW t \in new, s.jet = t.jet PROVE s = t
    BY <1>2, <2>3
  <2>4. OnePlaceInv
    BY DEF DataInv
  <2>5. ASSUME NEW o \in Nodes, NEW r \in Nodes, NEW s \in sending'[o], NEW t \in sending'[r],
               s.jet = t.jet
        PROVE  o = r /\ s = t
    BY <1>3, <2>1, <2>3, <2>4, <2>5 DEF OnePlaceInv
  <2>6. ASSUME NEW o \in Nodes, NEW s \in sending'[o], NEW m \in hots PROVE s.jet # m.jet
    BY <1>3, <2>2, <2>4 DEF OnePlaceInv
  <2> QED BY <1>0, <2>4, <2>5, <2>6 DEF OnePlaceInv
<1>11. HotInv'
  <2>1. ASSUME NEW s \in new PROVE StoredOf(s.jet) \subseteq index[n][l]
    <3> SUFFICES ASSUME NEW w \in StoredOf(s.jet) PROVE w \in index[n][l]
      OBVIOUS
    <3>1. PICK p \in Pulses : <<w, p>> \in stored /\ JetOf[w] = s.jet
      BY DEF StoredOf
    <3>2. <<w, p>>[1] = w /\ <<w, p>>[2] = p
      OBVIOUS
    <3>3. OpenedFor(s.jet, p)
      BY <3>1, <3>2 DEF DataInv, StoredInv
    <3>4. p <= l
      BY <1>7, <3>3
    <3> QED BY <1>2, <3>1, <3>2, <3>4 DEF DataInv, NothingIsLost
  <2>2. \A j : StoredOf(j)' = StoredOf(j)
    BY <1>0 DEF StoredOf
  <2>3. ASSUME NEW o \in Nodes, NEW s \in sending'[o]
        PROVE  StoredOf(s.jet) \subseteq index[o][s.from]
    <3>1. CASE s \in sending[o]
      BY <3>1 DEF DataInv, HotInv
    <3>2. CASE s \in new /\ o = n
      BY <1>2, <2>1, <3>2
    <3> QED BY <1>3, <3>1, <3>2
  <2> QED BY <1>0, <2>2, <2>3 DEF HotInv, DataInv
<1>12. StoredInv' /\ LockInv' /\ NothingIsLost' /\ OnceInv'
  BY <1>0 DEF DataInv, StoredInv, LockInv, NothingIsLost, OnceInv, OpenedFor
<1> QED BY <1>5, <1>6, <1>9, <1>10, <1>11, <1>12 DEF DataInv

\* Hot data move on, and nothing else does.
LEMMA HotFrame ==
    ASSUME Inv, Inv', DataInv, OnePlaceInv', HotInv',
           \A j \in Jets, q \in Pulses : Pending(j, q)' => Pending(j, q),
           UNCHANGED <<executor, latest, set, newPulse, justJoined, raised, index, request, stored>>
    PROVE  DataInv'
<1>1. ASSUME NEW j \in Jets PROVE StartInv(j)' /\ NewestInv(j)'
  <2>1. \A n \in Nodes : latest[n] <= latest'[n]
    <3>1. \A n \in Nodes : latest[n] \in Nat
      BY DataTypes DEF Inv
    <3> QED BY <3>1
  <2>2. \A q \in Pulses : OpenedFor(j, q)' => OpenedFor(j, q)
    BY DEF OpenedFor
  <2> QED BY <2>1, <2>2, ChainFrame
<1>2. \A n \in Nodes : SetInv(n)'
  BY DEF DataInv, SetInv, MineForPulse
<1>3. \A w \in Requests : WriterInv(w)' /\ BaseInv(w)'
  BY DEF DataInv, WriterInv, BaseInv
<1>4. StoredInv' /\ LockInv' /\ NothingIsLost' /\ OnceInv'
  BY DEF DataInv, StoredInv, LockInv, NothingIsLost, OnceInv, OpenedFor
<1> QED BY <1>1, <1>2, <1>3, <1>4 DEF DataInv

\* One message takes the place of another, or of nothing.
LEMMA HotSet ==
    ASSUME Inv, DataInv, NEW m \in hots, NEW h, h.jet = m.jet, h.pulse = m.pulse,
           hots' \subseteq (hots \ {m}) \cup {h}, sending' = sending
    PROVE  /\ OnePlaceInv'
           /\ \A j \in Jets, q \in Pulses : Pending(j, q)' => Pending(j, q)
<1>1. OnePlaceInv
  BY DEF DataInv
<1>2. OnePlaceInv'
  BY <1>1 DEF OnePlaceInv
<1>3. \A j \in Jets, q \in Pulses : Pending(j, q)' => Pending(j, q)
  BY DEF Pending
<1> QED BY <1>2, <1>3

\* Hot data are sent, lost, or given to their handler.
LEMMA TransitData ==
    ASSUME Inv, Inv', DataInv,
           \/ \E n \in Nodes : \E s \in sending[n] : SendHot(n, s)
           \/ \E m \in hots : LoseHot(m) \/ HandleHot(m)
    PROVE  DataInv'
<1>t. TypeOK
  BY DEF Inv
<1>1. ASSUME NEW n \in Nodes, NEW s \in sending[n], SendHot(n, s) PROVE DataInv'
  <2> DEFINE h == [jet |-> s.jet, pulse |-> s.to, data |-> Of(s.jet, index[n][s.from]),
                   sent |-> latest[n], node |-> executor[s.jet][latest[n]], at |-> "sent"]
  <2>0. /\ sending' = [sending EXCEPT ![n] = sending[n] \ {s}] /\ hots' = hots \cup {h}
        /\ UNCHANGED <<executor, latest, set, newPulse, justJoined, raised, index, request, stored>>
    BY <1>1, <1>t DEF SendHot, node, waiter, TypeOK
  <2>1. /\ h.jet = s.jet /\ h.pulse = s.to /\ h.at # "stored"
        /\ h.data = Of(s.jet, index[n][s.from])
    OBVIOUS
  <2> HIDE DEF h
  <2>2. /\ sending'[n] = sending[n] \ {s} /\ \A o \in Nodes \ {n} : sending'[o] = sending[o]
    BY <1>t, <2>0 DEF TypeOK
  <2>3. OnePlaceInv /\ HotInv
    BY DEF DataInv
  <2>4. OnePlaceInv'
    <3>1. ASSUME NEW o \in Nodes, NEW t \in sending'[o] PROVE t.jet # s.jet /\ t \in sending[o]
      BY <2>2, <2>3 DEF OnePlaceInv
    <3>2. \A l \in hots : l.jet # s.jet
      BY <2>3 DEF OnePlaceInv
    <3> QED BY <2>0, <2>1, <2>3, <3>1, <3>2 DEF OnePlaceInv
  <2>5. \A j \in Jets, q \in Pulses : Pending(j, q)' => Pending(j, q)
    BY <2>0, <2>1, <2>2 DEF Pending
  <2>6. HotInv'
    <3>0. \A j : StoredOf(j)' = StoredOf(j)
      BY <2>0 DEF StoredOf
    <3>1. StoredOf(s.jet) \subseteq h.data
      BY <2>1, <2>3 DEF HotInv, Of, StoredOf
    <3>2. \A w \in h.data : JetOf[w] = h.jet
      BY <2>1 DEF Of
    <3>3. \A o \in Nodes : sending'[o] \subseteq sending[o]
      BY <2>2
    <3>4. \A o \in Nodes : \A t \in sending'[o] : StoredOf(t.jet) \subseteq index[o][t.from]
      BY <2>3, <3>3 DEF HotInv
    <3> QED BY <2>0, <2>1, <2>3, <3>0, <3>1, <3>2, <3>4 DEF HotInv
  <2> QED BY <2>0, <2>4, <2>5, <2>6, HotFrame
<1>2. ASSUME NEW m \in hots, LoseHot(m) \/ HandleHot(m) PROVE DataInv'
  <2> DEFINE h == [m EXCEPT !.at = "handled"]
  <2>0. /\ hots' \subseteq (hots \ {m}) \cup {h}
        /\ UNCHANGED <<executor, latest, set, newPulse, justJoined, raised, index, sending, request,
                       stored>>
    BY <1>2 DEF LoseHot, HandleHot, node, waiter
  <2>1. h.jet = m.jet /\ h.pulse = m.pulse /\ h.data = m.data /\ h.at = "handled"
    BY <1>t DEF TypeOK, Hot
  <2> HIDE DEF h
  <2>2. OnePlaceInv' /\ \A j \in Jets, q \in Pulses : Pending(j, q)' => Pending(j, q)
    BY <2>0, <2>1, HotSet
  <2>3. HotInv'
    <3>0. \A j : StoredOf(j)' = StoredOf(j)
      BY <2>0 DEF StoredOf
    <3>1. HotInv
      BY DEF DataInv
    <3> QED BY <2>0, <2>1, <3>0, <3>1 DEF HotInv
  <2> QED BY <2>0, <2>2, <2>3, HotFrame
<1> QED BY <1>1, <1>2

\* Two indexes that differ only where jet j of pulse p on node n is kept.
OnlyAt(n, p, j) ==
    \A o \in Nodes, q \in Pulses, w \in Requests :
        (w \in index'[o][q]) # (w \in index[o][q]) => o = n /\ q = p /\ JetOf[w] = j

\* Hot data are put into the index of their pulse.
LEMMA StoreHotData ==
    ASSUME Inv, Inv', DataInv, NEW m \in hots, StoreHot(m)
    PROVE  DataInv'
<1>t. TypeOK
  BY DEF Inv
<1> DEFINE h == [m EXCEPT !.at = "stored"]
           old == index[m.node][m.pulse]
           new == IF m.data = {} THEN old ELSE (old \ Of(m.jet, old)) \cup m.data
<1>0. /\ hots' = (hots \ {m}) \cup {h}
      /\ UNCHANGED <<executor, latest, set, newPulse, justJoined, raised, sending, request, stored>>
  BY DEF StoreHot, node, waiter
<1>1. /\ h.jet = m.jet /\ h.pulse = m.pulse /\ h.data = m.data /\ h.node = m.node
      /\ m.jet \in Jets /\ m.pulse \in Pulses /\ m.node \in Nodes /\ m.data \subseteq Requests
  BY <1>t DEF TypeOK, Hot
<1>2. index' = [index EXCEPT ![m.node][m.pulse] = new]
  BY <1>1, <1>t DEF StoreHot, TypeOK
<1>3. /\ index'[m.node][m.pulse] = new
      /\ \A o \in Nodes, q \in Pulses : o # m.node \/ q # m.pulse => index'[o][q] = index[o][q]
  <2> HIDE DEF new
  <2> QED BY <1>1, <1>2, <1>t DEF TypeOK
<1>4. HotInv /\ OnePlaceInv /\ \A w \in m.data : JetOf[w] = m.jet
  BY DEF DataInv, HotInv
<1>5. StoredOf(m.jet) \subseteq new
  BY <1>4 DEF HotInv
<1>6. OnlyAt(m.node, m.pulse, m.jet)
  <2>1. \A w \in Requests : (w \in new) # (w \in old) => JetOf[w] = m.jet
    BY <1>4 DEF Of
  <2> HIDE DEF new
  <2> QED BY <1>1, <1>3, <2>1 DEF OnlyAt
<1> HIDE DEF h, new, old
<1>7. OnePlaceInv' /\ \A j \in Jets, q \in Pulses : Pending(j, q)' => Pending(j, q)
  BY <1>0, <1>1, HotSet
<1>8. ASSUME NEW j \in Jets PROVE StartInv(j)' /\ NewestInv(j)'
  <2>1. \A n \in Nodes : latest[n] <= latest'[n]
    <3>1. \A n \in Nodes : latest[n] \in Nat
      BY DataTypes DEF Inv
    <3> QED BY <1>0, <3>1
  <2>2. \A q \in Pulses : OpenedFor(j, q)' => OpenedFor(j, q)
    BY <1>0 DEF OpenedFor
  <2> QED BY <1>0, <1>7, <2>1, <2>2, ChainFrame
<1>9. (\A n \in Nodes : SetInv(n)') /\ (\A w \in Requests : WriterInv(w)')
  BY <1>0 DEF DataInv, SetInv, MineForPulse, WriterInv
\* The pulse of the message is not open on its executor.
<1>10. ~OpenedFor(m.jet, m.pulse)
  <2>1. Pending(m.jet, m.pulse)
    BY DEF Pending
  <2>2. m.pulse \in Nat
    BY <1>1, Bounds
  <2> QED BY <1>1, <2>1, <2>2 DEF DataInv, NewestInv
<1>11. ASSUME NEW w \in Requests PROVE BaseInv(w)'
  <2> SUFFICES ASSUME request[w].pc \in Locking PROVE BaseInv(w)'
    BY <1>0 DEF BaseInv
  <2> DEFINE n == request[w].node
             p == request[w].pulse
  <2>1. BaseInv(w)
    BY DEF DataInv
  <2>2. n \in Nodes /\ p \in Nat /\ JetOf[w] \in Jets /\ executor[JetOf[w]][p] = n /\ p > 0
    BY <1>t, DataTypes DEF Inv, RequestInv, Live, Locking
  <2>3. p \in Pulses
    <3>1. p \in 0 .. MaxPulse
      BY <1>t DEF TypeOK, RequestType
    <3> QED BY <2>2, <3>1, Bounds
  <2>4. ASSUME <<JetOf[w], p>> \in raised[n] PROVE Of(JetOf[w], index'[n][p]) \subseteq request[w].base
    <3>1. n # m.node \/ p # m.pulse \/ JetOf[w] # m.jet
      BY <1>10, <2>2, <2>4 DEF OpenedFor
    <3>2. index'[n][p] \subseteq Requests
      BY <2>2, <2>3 DEF Inv, TypeOK
    <3>3. \A v \in Requests : JetOf[v] = JetOf[w] => (v \in index'[n][p] <=> v \in index[n][p])
      BY <1>6, <2>2, <2>3, <3>1 DEF OnlyAt
    <3>4. Of(JetOf[w], index'[n][p]) \subseteq Of(JetOf[w], index[n][p])
      BY <3>2, <3>3 DEF Of
    <3> QED BY <2>1, <2>4, <3>4 DEF BaseInv
  <2> HIDE DEF n, p
  <2>5. n = request[w].node /\ p = request[w].pulse
    BY DEF n, p
  <2> QED BY <1>0, <2>1, <2>4, <2>5 DEF BaseInv
<1>s. \A j : StoredOf(j)' = StoredOf(j)
  BY <1>0 DEF StoredOf
<1>12. HotInv'
  <2>1. ASSUME NEW o \in Nodes, NEW s \in sending[o] PROVE StoredOf(s.jet) \subseteq index'[o][s.from]
    <3>1. s.jet # m.jet /\ s.from \in Pulses
      BY <1>4, <1>t, DataTypes DEF OnePlaceInv
    <3>2. StoredOf(s.jet) \subseteq index[o][s.from]
      BY <1>4 DEF HotInv
    <3> QED BY <1>6, <3>1, <3>2 DEF OnlyAt, StoredOf
  <2>2. ASSUME NEW l \in hots, l # m, l.at = "stored"
        PROVE  StoredOf(l.jet) \subseteq index'[l.node][l.pulse]
    <3>1. l.jet # m.jet /\ l.node \in Nodes /\ l.pulse \in Pulses
      BY <1>4, <1>t, <2>2, DataTypes DEF OnePlaceInv
    <3>2. StoredOf(l.jet) \subseteq index[l.node][l.pulse]
      BY <1>4, <2>2 DEF HotInv
    <3> QED BY <1>6, <3>1, <3>2 DEF OnlyAt, StoredOf
  <2>3. StoredOf(h.jet) \subseteq index'[h.node][h.pulse] /\ StoredOf(h.jet) \subseteq h.data
        /\ \A w \in h.data : JetOf[w] = h.jet
    BY <1>1, <1>3, <1>4, <1>5 DEF HotInv
  <2> QED BY <1>0, <1>4, <1>s, <2>1, <2>2, <2>3 DEF HotInv
<1>13. NothingIsLost'
  <2> SUFFICES ASSUME NEW s \in stored, NEW p \in Pulses, s[2] <= p, OpenedFor(JetOf[s[1]], p)
               PROVE  s[1] \in index'[executor[JetOf[s[1]]][p]][p]
    BY <1>0 DEF NothingIsLost, OpenedFor
  <2>1. s[1] \in Requests /\ JetOf[s[1]] \in Jets /\ executor[JetOf[s[1]]][p] \in Nodes
    BY <1>t, DataTypes
  <2>2. s[1] \in index[executor[JetOf[s[1]]][p]][p]
    BY DEF DataInv, NothingIsLost
  <2>3. JetOf[s[1]] # m.jet \/ p # m.pulse
    BY <1>10
  <2> QED BY <1>6, <2>1, <2>2, <2>3 DEF OnlyAt
<1>14. StoredInv' /\ LockInv' /\ OnceInv'
  BY <1>0 DEF DataInv, StoredInv, LockInv, OnceInv, OpenedFor
<1> QED BY <1>7, <1>8, <1>9, <1>11, <1>12, <1>13, <1>14 DEF DataInv

\* A jet is opened by its hot data.
LEMMA UnlockHotData ==
    ASSUME Inv, Inv', DataInv, NEW m \in hots, UnlockHot(m)
    PROVE  DataInv'
<1>t. TypeOK
  BY DEF Inv
<1>0. /\ m.at = "stored" /\ hots' = hots \ {m}
      /\ UNCHANGED <<executor, latest, set, newPulse, justJoined, index, sending, request, stored>>
  BY DEF UnlockHot, node
<1>i. OnePlaceInv /\ HotInv
  BY DEF DataInv
<1>s. \A j : StoredOf(j)' = StoredOf(j)
  BY <1>0 DEF StoredOf
<1>1. OnePlaceInv' /\ HotInv'
  BY <1>0, <1>i, <1>s DEF OnePlaceInv, HotInv
<1>2. \A j \in Jets, q \in Pulses : Pending(j, q)' => Pending(j, q)
  BY <1>0 DEF Pending
<1>3. CASE UNCHANGED waiter
  BY <1>0, <1>1, <1>2, <1>3, HotFrame DEF waiter
<1>4. CASE UnlockAll(m.node, m.pulse, {m.jet})
  <2>n. PICK n \in Nodes, p \in Pulses, k \in Jets : n = m.node /\ p = m.pulse /\ k = m.jet
    BY <1>t, DataTypes
  <2>1. raised' = [raised EXCEPT ![n] = IF p > closedUntil[n] THEN @ \cup ({k} \X {p}) ELSE @]
    BY <1>4, <2>n DEF UnlockAll
  <2>2. /\ \A o \in Nodes \ {n} : raised'[o] = raised[o]
        /\ raised[n] \subseteq raised'[n]
        /\ \A x \in raised'[n] : x \in raised[n] \/ (x = <<k, p>> /\ p > closedUntil[n])
    BY <1>t, <2>1 DEF TypeOK
  <2>3. ASSUME NEW o \in Nodes PROVE SetInv(o)'
    BY <1>0, <2>2 DEF DataInv, SetInv, MineForPulse
  <2>4. ASSUME NEW w \in Requests PROVE WriterInv(w)' /\ BaseInv(w)'
    <3>1. WriterInv(w)'
      BY <1>0 DEF DataInv, WriterInv
    <3>2. BaseInv(w)'
      <4> SUFFICES ASSUME request[w].pc \in Locking,
                          <<JetOf[w], request[w].pulse>> \in raised'[request[w].node]
                   PROVE  <<JetOf[w], request[w].pulse>> \in raised[request[w].node]
        BY <1>0 DEF DataInv, BaseInv
      <4>1. /\ request[w].node \in Nodes
            /\ request[w].pulse \in Nat /\ closedUntil[n] \in Nat /\ p \in Nat
        BY <1>t, DataTypes, Bounds DEF TypeOK
      <4>2. \/ <<JetOf[w], request[w].pulse>> \in raised[request[w].node]
            \/ request[w].pulse <= closedUntil[request[w].node]
        BY DEF Inv, RequestInv, Locking
      <4>3. <<JetOf[w], request[w].pulse>> = <<k, p>> => request[w].pulse = p
        OBVIOUS
      <4> QED BY <2>2, <4>1, <4>2, <4>3
    <3> QED BY <3>1, <3>2
  <2>5. ASSUME NEW j \in Jets, NEW q \in Pulses
        PROVE  /\ OpenedFor(j, q) => OpenedFor(j, q)'
               /\ OpenedFor(j, q)' => OpenedFor(j, q) \/ (j = k /\ q = p /\ executor[j][q] = n)
    <3>1. executor[j][q] \in Nodes
      BY <1>t, DataTypes
    <3>2. <<j, q>> = <<k, p>> => j = k /\ q = p
      OBVIOUS
    <3> QED BY <1>0, <2>2, <3>1, <3>2 DEF OpenedFor
  <2>6. ASSUME NEW j \in Jets PROVE StartInv(j)' /\ NewestInv(j)'
    <3>l. \A o \in Nodes : latest[o] \in Nat
      BY <1>t, DataTypes
    <3>1. CASE j # k
      BY <1>0, <1>2, <2>5, <3>1, <3>l, ChainFrame
    <3>2. CASE j = k
      <4>1. Pending(j, p) /\ StartInv(j) /\ NewestInv(j)
        BY <2>n, <3>2 DEF Pending, DataInv
      <4>2. \A q \in Pulses : ~Pending(j, q)'
        BY <1>0, <1>i, <2>n, <3>2 DEF OnePlaceInv, Pending
      <4>3. StartInv(j)'
        BY <1>0, <2>5, <4>1, <4>2 DEF StartInv
      <4>4. NewestInv(j)'
        <5> SUFFICES ASSUME NEW r \in Pulses, NEW q \in Pulses, OpenedFor(j, r)', OpenedFor(j, q)',
                            r < q
                     PROVE  r < latest[executor[j][r]]
          BY <1>0, <4>2 DEF NewestInv
        <5>1. r \in Nat /\ q \in Nat /\ p \in Nat
          BY Bounds
        <5>2. OpenedFor(j, r) => r < p /\ r < latest[executor[j][r]]
          BY <4>1 DEF NewestInv
        <5>3. OpenedFor(j, q) => q < p
          BY <4>1 DEF NewestInv
        <5>4. OpenedFor(j, r)
          BY <2>5, <5>1, <5>3
        <5> QED BY <5>2, <5>4
      <4> QED BY <4>3, <4>4
    <3> QED BY <3>1, <3>2
  <2>7. LockInv' /\ OnceInv'
    BY <1>0 DEF DataInv, LockInv, OnceInv
  <2>8. ASSUME NEW s \in stored PROVE s[1] \in Requests /\ s[2] \in Pulses /\ JetOf[s[1]] \in Jets
                                      /\ s[1] \in StoredOf(JetOf[s[1]])
    BY <1>t, DataTypes DEF StoredOf
  <2>9. StoredInv'
    BY <1>0, <2>5, <2>8 DEF DataInv, StoredInv
  <2>10. NothingIsLost'
    <3> SUFFICES ASSUME NEW s \in stored, NEW q \in Pulses, s[2] <= q, OpenedFor(JetOf[s[1]], q)'
                 PROVE  s[1] \in index[executor[JetOf[s[1]]][q]][q]
      BY <1>0 DEF NothingIsLost
    <3>1. CASE OpenedFor(JetOf[s[1]], q)
      BY <3>1 DEF DataInv, NothingIsLost
    <3>2. CASE JetOf[s[1]] = k /\ q = p /\ executor[JetOf[s[1]]][q] = n
      BY <1>0, <1>i, <2>8, <2>n, <3>2 DEF HotInv
    <3> QED BY <2>5, <2>8, <3>1, <3>2
  <2> QED BY <1>1, <2>3, <2>4, <2>6, <2>7, <2>9, <2>10 DEF DataInv
<1> QED BY <1>3, <1>4 DEF UnlockHot

\* A request goes on and touches nothing but itself.
LEMMA RequestFrame ==
    ASSUME Inv, Inv', DataInv, NEW w \in Requests,
           \A v \in Requests \ {w} : request'[v] = request[v],
           WriterInv(w)', BaseInv(w)', LockInv',
           UNCHANGED <<executor, latest, set, newPulse, justJoined, raised, index, sending, hots, stored>>
    PROVE  DataInv'
<1>1. ASSUME NEW j \in Jets PROVE StartInv(j)' /\ NewestInv(j)'
  <2>1. \A n \in Nodes : latest[n] <= latest'[n]
    <3>1. \A n \in Nodes : latest[n] \in Nat
      BY DataTypes DEF Inv
    <3> QED BY <3>1
  <2>2. \A q \in Pulses : (OpenedFor(j, q)' => OpenedFor(j, q)) /\ (Pending(j, q)' => Pending(j, q))
    BY DEF OpenedFor, Pending
  <2> QED BY <2>1, <2>2, ChainFrame
<1>2. \A n \in Nodes : SetInv(n)'
  BY DEF DataInv, SetInv, MineForPulse
<1>3. ASSUME NEW v \in Requests PROVE WriterInv(v)' /\ BaseInv(v)'
  <2>1. CASE v # w
    BY <2>1 DEF DataInv, WriterInv, BaseInv
  <2> QED BY <2>1
<1>4. StoredInv' /\ NothingIsLost' /\ OnceInv' /\ OnePlaceInv' /\ HotInv'
  <2>1. StoredInv' /\ NothingIsLost' /\ OnceInv' /\ OnePlaceInv'
    BY DEF DataInv, StoredInv, NothingIsLost, OnceInv, OpenedFor, OnePlaceInv
  <2>2. HotInv'
    BY DEF DataInv, HotInv, StoredOf
  <2> QED BY <2>1, <2>2
<1> QED BY <1>1, <1>2, <1>3, <1>4 DEF DataInv

\* A request that does not hold the object's lock afterwards.
LEMMA UnlockedRequest ==
    ASSUME Inv, Inv', DataInv, NEW w \in Requests,
           \A v \in Requests \ {w} : request'[v] = request[v], request'[w].pc \notin Locking,
           UNCHANGED <<executor, latest, set, newPulse, justJoined, raised, index, sending, hots, stored>>
    PROVE  DataInv'
<1>1. WriterInv(w)' /\ BaseInv(w)'
  BY DEF WriterInv, BaseInv, Locking
<1>2. LockInv'
  BY DEF DataInv, LockInv
<1> QED BY <1>1, <1>2, RequestFrame

\* A request is dispatched, waits, locks its object or begins.
LEMMA RequestStepsData ==
    ASSUME Inv, Inv', DataInv, NEW w \in Requests,
           \/ \E n \in Nodes : Dispatch(w, n)
           \/ Wait(w) \/ WaitReturns(w) \/ WaitTimesOut(w) \/ Lock(w) \/ Begin(w)
    PROVE  DataInv'
<1>t. TypeOK /\ request \in [Requests -> RequestType] /\ request[w] \in RequestType
  BY DEF Inv, TypeOK
<1>1. CASE (\E n \in Nodes : Dispatch(w, n)) \/ Wait(w) \/ WaitReturns(w) \/ WaitTimesOut(w)
  <2>1. /\ request'[w].pc \in {"start", "lock", "wait", "failed"}
        /\ \A v \in Requests \ {w} : request'[v] = request[v]
        /\ UNCHANGED <<executor, latest, set, newPulse, justJoined, raised, index, sending, hots,
                       stored>>
    <3>1. CASE \E n \in Nodes : Dispatch(w, n)
      BY <1>t, <3>1 DEF Dispatch, node, waiter
    <3>2. CASE Wait(w)
      BY <1>t, <3>2 DEF Wait, node, RequestType
    <3>3. CASE WaitReturns(w)
      BY <1>t, <3>3 DEF WaitReturns, node, waiter, RequestType
    <3>4. CASE WaitTimesOut(w)
      BY <1>t, <3>4 DEF WaitTimesOut, node, waiter, RequestType
    <3> QED BY <1>1, <3>1, <3>2, <3>3, <3>4
  <2>2. request'[w].pc \notin Locking
    BY <2>1 DEF Locking
  <2> QED BY <2>1, <2>2, UnlockedRequest
<1>n. PICK n \in Nodes, p \in Nat : n = request[w].node /\ p = request[w].pulse
  BY <1>t, DataTypes
<1>2. CASE Lock(w)
  <2> DEFINE held == Of(JetOf[w], index[n][p])
             x == IF w \in held THEN "done" ELSE "begin"
             v == [request[w] EXCEPT !.pc = x, !.base = held]
  <2>0. /\ request' = [request EXCEPT ![w] = v]
        /\ \A u \in Requests :
              request[u].pc \in {"begin", "write"} => request[u].node # n \/ JetOf[u] # JetOf[w]
        /\ UNCHANGED <<executor, latest, set, newPulse, justJoined, raised, index, sending, hots,
                       stored>>
    BY <1>2, <1>n, <1>t DEF Lock, node, waiter
  <2>1. x \in {"done", "begin"} /\ (x = "begin" => w \notin held) /\ \A u \in held : JetOf[u] = JetOf[w]
    BY DEF Of
  <2>h. held = Of(JetOf[w], index[n][p])
    OBVIOUS
  <2> HIDE DEF x, held
  <2>2. v.pc = x /\ v.node = n /\ v.pulse = p /\ v.base = held
    BY <1>t, <1>n DEF RequestType
  <2> HIDE DEF v
  <2>3. request'[w] = v /\ \A u \in Requests \ {w} : request'[u] = request[u]
    BY <1>t, <2>0
  <2>4. WriterInv(w)'
    BY <2>1, <2>2, <2>3 DEF WriterInv
  <2>5. BaseInv(w)'
    BY <2>0, <2>1, <2>2, <2>3, <2>h DEF BaseInv, Locking
  <2>6. LockInv'
    BY <2>0, <2>2, <2>3 DEF DataInv, LockInv, Locking
  <2> QED BY <2>0, <2>3, <2>4, <2>5, <2>6, RequestFrame
<1>3. CASE Begin(w)
  <2> DEFINE x == IF p = writable[n] THEN "write" ELSE "failed"
             v == [request[w] EXCEPT !.pc = x]
  <2>0. /\ request[w].pc = "begin" /\ set[n] # "fatal" /\ request' = [request EXCEPT ![w] = v]
        /\ UNCHANGED <<executor, latest, set, newPulse, justJoined, raised, index, sending, hots,
                       stored>>
    BY <1>3, <1>n, <1>t DEF Begin, Alive, node, waiter
  <2>1. x \in {"write", "failed"} /\ (x = "write" => p = writable[n])
    OBVIOUS
  <2> HIDE DEF x
  <2>2. v.pc = x /\ v.node = n /\ v.pulse = p /\ v.base = request[w].base
    BY <1>t, <1>n DEF RequestType
  <2> HIDE DEF v
  <2>3. request'[w] = v /\ \A u \in Requests \ {w} : request'[u] = request[u]
    BY <1>t, <2>0
  <2>4. ASSUME p = writable[n] PROVE p = latest[n] /\ set[n] \notin {"open", "append"}
    <3>1. 0 < p /\ p <= latest[n] /\ latest[n] \in Nat /\ newPulse[n] \in Nat
      BY <1>n, <2>0, NodeFacts DEF Inv, RequestInv, Live
    <3>2. WritableInv(n) /\ PulseInv(n) /\ set[n] \in SetStates
      BY <1>t, NodeFacts DEF NodeInv, TypeOK
    <3> QED BY <2>0, <2>4, <3>1, <3>2 DEF WritableInv, PulseInv, SetStates
  <2>5. WriterInv(w)'
    BY <2>0, <2>1, <2>2, <2>3, <2>4 DEF WriterInv
  <2>6. BaseInv(w)'
    BY <1>n, <2>0, <2>2, <2>3 DEF DataInv, BaseInv, Locking
  <2>7. LockInv'
    BY <1>n, <2>0, <2>2, <2>3 DEF DataInv, LockInv, Locking
  <2> QED BY <2>0, <2>3, <2>5, <2>6, <2>7, RequestFrame
<1> QED BY <1>1, <1>2, <1>3

\* Whoever is about to store its request does so for the first time: where it
\* was stored before, the jet was open, in this pulse or an earlier one, so
\* that the index that was read under the lock would have it.
LEMMA WriterIsFirst ==
    ASSUME Inv, DataInv, NEW w \in Requests, request[w].pc = "write", NEW s \in stored
    PROVE  s[1] # w
<1> SUFFICES ASSUME s[1] = w PROVE FALSE
  OBVIOUS
<1>n. PICK n \in Nodes, p \in Nat : n = request[w].node /\ p = request[w].pulse
  BY DataTypes DEF Inv
<1>1. /\ 0 < p /\ p = latest[n] /\ executor[JetOf[w]][p] = n /\ <<JetOf[w], p>> \in raised[n]
      /\ JetOf[w] \in Jets /\ s[2] \in Pulses /\ s[2] \in Nat
  BY <1>n, DataTypes DEF Inv, RequestInv, Live, DataInv, WriterInv
<1>2. p \in Pulses
  <2>1. p \in 0 .. MaxPulse
    BY <1>n DEF Inv, TypeOK, RequestType
  <2> QED BY <1>1, <2>1, Bounds
<1>3. OpenedFor(JetOf[w], p) /\ OpenedFor(JetOf[w], s[2])
  BY <1>1 DEF DataInv, StoredInv, OpenedFor
<1>4. s[2] <= p
  BY <1>1, <1>2, <1>3 DEF DataInv, NewestInv
<1>5. w \in index[n][p]
  BY <1>1, <1>2, <1>3, <1>4 DEF DataInv, NothingIsLost
<1>6. Of(JetOf[w], index[n][p]) \subseteq request[w].base /\ w \notin request[w].base
  BY <1>1, <1>n DEF DataInv, BaseInv, Locking
<1> QED BY <1>5, <1>6 DEF Of

\* A request is stored.
LEMMA StoreData ==
    ASSUME Inv, Inv', DataInv, NEW w \in Requests, Store(w)
    PROVE  DataInv'
<1>t. TypeOK /\ request \in [Requests -> RequestType] /\ request[w] \in RequestType
  BY DEF Inv, TypeOK
<1>n. PICK n \in Nodes, p \in Nat : n = request[w].node /\ p = request[w].pulse
  BY <1>t, DataTypes
<1> DEFINE j == JetOf[w]
           old == index[n][p]
           new == (old \ Of(j, old)) \cup request[w].base \cup {w}
<1>0. /\ request[w].pc = "write" /\ stored' = stored \cup {<<w, p>>}
      /\ UNCHANGED <<executor, latest, set, newPulse, justJoined, raised, sending, hots>>
  BY <1>n DEF Store, node, waiter
<1>1. /\ p \in Pulses /\ p = latest[n] /\ executor[j][p] = n /\ <<j, p>> \in raised[n]
      /\ j \in Jets /\ OpenedFor(j, p)
  <2>1. 0 < p /\ executor[j][p] = n /\ <<j, p>> \in raised[n]
    BY <1>0, <1>n DEF Inv, RequestInv, Live
  <2>2. p \in Pulses
    <3>1. p \in 0 .. MaxPulse
      BY <1>t, <1>n DEF RequestType
    <3> QED BY <2>1, <3>1, Bounds
  <2>3. p = latest[n]
    BY <1>0, <1>n DEF DataInv, WriterInv
  <2>4. j \in Jets
    BY <1>t, DataTypes
  <2> QED BY <2>1, <2>2, <2>3, <2>4 DEF OpenedFor
<1>2. /\ Of(j, old) \subseteq request[w].base /\ w \notin request[w].base
      /\ \A v \in request[w].base : JetOf[v] = j
  BY <1>0, <1>1, <1>n DEF DataInv, BaseInv, Locking
<1>3. index' = [index EXCEPT ![n][p] = new]
  BY <1>1, <1>n, <1>t DEF Store, TypeOK
<1>4. /\ index'[n][p] = new
      /\ \A o \in Nodes, q \in Pulses : o # n \/ q # p => index'[o][q] = index[o][q]
  <2> HIDE DEF new
  <2> QED BY <1>1, <1>3, <1>t DEF TypeOK
<1>5. /\ \A o \in Nodes, q \in Pulses : index[o][q] \subseteq index'[o][q]
      /\ OnlyAt(n, p, j) /\ w \in index'[n][p]
  <2>1. old \subseteq new /\ w \in new /\ \A v \in new : v \in old \/ JetOf[v] = j
    BY <1>2 DEF Of
  <2> HIDE DEF new
  <2> QED BY <1>1, <1>4, <2>1 DEF OnlyAt
<1>6. /\ request'[w].pc \notin Locking
      /\ \A v \in Requests \ {w} : request'[v] = request[v]
  BY <1>t DEF Store, RequestType, Locking
<1> HIDE DEF new, old
\* The jet's data are nowhere but here.
<1>7. ASSUME NEW q \in Pulses PROVE ~Pending(j, q) /\ (OpenedFor(j, q) => q <= p)
  <2>1. q \in Nat /\ latest[n] \in Nat
    BY <1>t, DataTypes
  <2> QED BY <1>1, <2>1 DEF DataInv, NewestInv
<1>8. ASSUME NEW s \in stored PROVE /\ s[1] # w /\ s[1] \in Requests /\ s[2] \in Pulses
  <2>1. s[1] \in Requests /\ s[2] \in Pulses
    BY <1>t, DataTypes
  <2> QED BY <1>0, <2>1, WriterIsFirst
<1>o. \A k, q : OpenedFor(k, q)' <=> OpenedFor(k, q)
  BY <1>0 DEF OpenedFor
<1>9. ASSUME NEW k \in Jets PROVE StartInv(k)' /\ NewestInv(k)'
  <2>1. \A m \in Nodes : latest[m] \in Nat
    BY <1>t, DataTypes
  <2>2. \A q \in Pulses : Pending(k, q)' => Pending(k, q)
    BY <1>0 DEF Pending
  <2> QED BY <1>0, <1>o, <2>1, <2>2, ChainFrame
<1>10. \A m \in Nodes : SetInv(m)'
  BY <1>0 DEF DataInv, SetInv, MineForPulse
<1>11. ASSUME NEW v \in Requests PROVE WriterInv(v)' /\ BaseInv(v)'
  <2>1. CASE v = w
    BY <1>6, <2>1 DEF WriterInv, BaseInv, Locking
  <2>2. CASE v # w
    <3>0. request'[v] = request[v]
      BY <1>6, <2>2
    <3>1. WriterInv(v)'
      BY <1>0, <3>0 DEF DataInv, WriterInv
    <3>2. BaseInv(v)'
      <4> SUFFICES ASSUME request[v].pc \in Locking PROVE BaseInv(v)'
        BY <3>0 DEF BaseInv
      <4>n. PICK o \in Nodes, q \in Nat : o = request[v].node /\ q = request[v].pulse
        BY <1>t, DataTypes
      <4>1. o # n \/ JetOf[v] # j
        BY <1>0, <1>n, <2>2, <4>n DEF DataInv, LockInv, Locking
      <4>2. q \in Pulses
        <5>1. q \in 0 .. MaxPulse /\ 0 < q
          BY <1>t, <4>n DEF RequestType, Inv, RequestInv, Live, Locking
        <5> QED BY <5>1, Bounds
      <4>3. index'[o][q] \subseteq Requests
        BY <4>2 DEF Inv, TypeOK
      <4>4. \A u \in Requests : JetOf[u] = JetOf[v] => (u \in index'[o][q] <=> u \in index[o][q])
        BY <1>5, <4>1, <4>2 DEF OnlyAt
      <4>5. Of(JetOf[v], index'[o][q]) \subseteq Of(JetOf[v], index[o][q])
        BY <4>3, <4>4 DEF Of
      <4> QED BY <1>0, <3>0, <4>5, <4>n DEF DataInv, BaseInv
    <3> QED BY <3>1, <3>2
  <2> QED BY <2>1, <2>2
<1>12. OnePlaceInv' /\ LockInv'
  BY <1>0, <1>6 DEF DataInv, OnePlaceInv, LockInv
<1>13. StoredInv' /\ OnceInv'
  <2>1. <<w, p>>[1] = w /\ <<w, p>>[2] = p
    OBVIOUS
  <2>2. StoredInv'
    BY <1>0, <1>1, <1>o, <2>1 DEF DataInv, StoredInv
  <2>3. OnceInv'
    BY <1>0, <1>8, <2>1 DEF DataInv, OnceInv
  <2> QED BY <2>2, <2>3
<1>14. NothingIsLost'
  <2> SUFFICES ASSUME NEW s \in stored', NEW q \in Pulses, s[2] <= q, OpenedFor(JetOf[s[1]], q)
               PROVE  s[1] \in index'[executor[JetOf[s[1]]][q]][q]
    BY <1>0, <1>o DEF NothingIsLost
  <2>1. CASE s \in stored
    <3>1. s[1] \in index[executor[JetOf[s[1]]][q]][q]
      BY <2>1 DEF DataInv, NothingIsLost
    <3>2. executor[JetOf[s[1]]][q] \in Nodes
      BY <1>t, <1>8, <2>1, DataTypes
    <3> QED BY <1>5, <3>1, <3>2
  <2>2. CASE s = <<w, p>>
    <3>1. s[1] = w /\ s[2] = p /\ q \in Nat
      BY <2>2, Bounds
    <3>2. q = p
      BY <1>7, <3>1
    <3> QED BY <1>1, <1>5, <3>1, <3>2
  <2> QED BY <1>0, <2>1, <2>2
<1>15. HotInv'
  <2>1. ASSUME NEW k \in Jets, k # j PROVE StoredOf(k)' = StoredOf(k)
    BY <1>0, <2>1 DEF StoredOf
  <2>2. ASSUME NEW o \in Nodes, NEW s \in sending[o]
        PROVE  s.jet \in Jets /\ s.jet # j /\ s.from \in Pulses
    <3>1. s.jet \in Jets /\ s.from \in Pulses /\ s.to \in Pulses
      BY <1>t, DataTypes
    <3>2. Pending(s.jet, s.to)
      BY DEF Pending
    <3> QED BY <1>7, <3>1, <3>2
  <2>3. ASSUME NEW m \in hots
        PROVE  m.jet \in Jets /\ m.jet # j /\ m.node \in Nodes /\ m.pulse \in Pulses
    <3>1. m.jet \in Jets /\ m.node \in Nodes /\ m.pulse \in Pulses
      BY <1>t, DataTypes
    <3>2. Pending(m.jet, m.pulse)
      BY DEF Pending
    <3> QED BY <1>7, <3>1, <3>2
  <2>4. HotInv
    BY DEF DataInv
  <2>5. ASSUME NEW o \in Nodes, NEW s \in sending[o] PROVE StoredOf(s.jet)' \subseteq index'[o][s.from]
    BY <1>5, <2>1, <2>2, <2>4 DEF HotInv
  <2>6. ASSUME NEW m \in hots
        PROVE  /\ StoredOf(m.jet)' \subseteq m.data
               /\ m.at = "stored" => StoredOf(m.jet)' \subseteq index'[m.node][m.pulse]
    BY <1>5, <2>1, <2>3, <2>4 DEF HotInv
  <2> QED BY <1>0, <2>4, <2>5, <2>6 DEF HotInv
<1> QED BY <1>9, <1>10, <1>11, <1>12, <1>13, <1>14, <1>15 DEF DataInv

\* At the start nothing is open, stored or on its way.
LEMMA InitData == Init => DataInv
<1> SUFFICES ASSUME Init PROVE DataInv
  OBVIOUS
<1>1. \A j, q : ~Pending(j, q)
  BY DEF Init, Pending
<1>2. \A j \in Jets, q \in Pulses : ~OpenedFor(j, q)
  BY DEF Init, OpenedFor
<1>3. \A j \in Jets : StartInv(j) /\ NewestInv(j)
  BY <1>1, <1>2 DEF StartInv, NewestInv
<1>4. (\A n \in Nodes : SetInv(n)) /\ (\A w \in Requests : WriterInv(w) /\ BaseInv(w)) /\ LockInv
  BY DEF Init, SetInv, WriterInv, BaseInv, LockInv, Locking
<1>5. OnePlaceInv /\ HotInv /\ StoredInv /\ NothingIsLost /\ OnceInv
  BY DEF Init, OnePlaceInv, HotInv, StoredInv, NothingIsLost, OnceInv
<1> QED BY <1>3, <1>4, <1>5 DEF DataInv

\* Every step keeps the invariant of the data.
LEMMA NextData == Inv /\ Inv' /\ DataInv /\ [Next]_vars => DataInv'
<1> SUFFICES ASSUME Inv, Inv', DataInv, [Next]_vars PROVE DataInv'
  OBVIOUS
<1>1. CASE \E n \in Nodes, p \in Pulses : Join(n, p)
  BY <1>1, JoinData
<1>2. CASE \E n \in Nodes :
              \/ \E p \in Pulses : SetPulse(n, p)
              \/ CheckHot(n) \/ CloseAllUntil(n) \/ Close(n) \/ Drain(n) \/ Open(n)
  BY <1>2, SetStepsData
<1>3. CASE \E n \in Nodes : Append(n)
  BY <1>3, AppendData
<1>4. CASE \/ \E n \in Nodes : \E s \in sending[n] : SendHot(n, s)
           \/ \E m \in hots : LoseHot(m) \/ HandleHot(m)
  BY <1>4, TransitData
<1>5. CASE \E m \in hots : StoreHot(m)
  BY <1>5, StoreHotData
<1>6. CASE \E m \in hots : UnlockHot(m)
  BY <1>6, UnlockHotData
<1>7. CASE \E w \in Requests :
              \/ \E n \in Nodes : Dispatch(w, n)
              \/ Wait(w) \/ WaitReturns(w) \/ WaitTimesOut(w) \/ Lock(w) \/ Begin(w)
  BY <1>7, RequestStepsData
<1>8. CASE \E w \in Requests : Store(w)
  BY <1>8, StoreData
<1>9. CASE UNCHANGED vars
  <2>1. UNCHANGED <<executor, latest, set, newPulse, justJoined, raised, index, sending, hots,
                    request, stored>>
    BY <1>9 DEF vars
  <2>2. OnePlaceInv' /\ \A j \in Jets, q \in Pulses : Pending(j, q)' => Pending(j, q)
    BY <2>1 DEF DataInv, OnePlaceInv, Pending
  <2>3. HotInv'
    BY <2>1 DEF DataInv, HotInv, StoredOf
  <2> QED BY <2>1, <2>2, <2>3, HotFrame
<1> QED BY <1>1, <1>2, <1>3, <1>4, <1>5, <1>6, <1>7, <1>8, <1>9, Zenon DEF Next

\* In every behaviour of the light nodes, with hot data late, lost or sent to
\* the wrong node, and nodes that skip pulses or join late: an open jet's
\* index holds every request ever stored for it, and no request is stored
\* twice however often and wherever it is repeated.
THEOREM DataIsSafe == Spec => [](NothingIsLost /\ StoredOnce)
<1>1. Init => Inv /\ DataInv
  BY InitInv, InitData
<1>2. Inv /\ DataInv /\ [Next]_vars => Inv' /\ DataInv'
  BY NextInv, NextData
<1>3. Inv /\ DataInv => NothingIsLost /\ StoredOnce
  BY WriterIsFirst DEF DataInv, OnceInv, StoredOnce
<1> QED BY <1>1, <1>2, <1>3, PTL DEF Spec
=============================================================================
