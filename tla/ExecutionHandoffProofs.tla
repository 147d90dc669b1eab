----------------------- MODULE ExecutionHandoffProofs -----------------------
(* What the handoff of an object keeps, for every set of nodes and every   *)
(* finite set of requests, however late messages are and however many      *)
(* nodes die: types, that one request at a time gets to change the object, *)
(* and that the broker that was told of a request keeps it in mind.        *)
EXTENDS ExecutionHandoff, FiniteSetTheorems, WellFoundedInduction, TLAPS

-----------------------------------------------------------------------------
(* Induction.  The well-founded order of the naturals is a set, so that    *)
(* the least element of a set of naturals needs no operator as a           *)
(* parameter.                                                              *)

Before == {ss \in Nat \X Nat : ss[1] < ss[2]}

\* A set of naturals has a least element.
LEMMA LeastNat ==
    ASSUME NEW T, T \subseteq Nat, T # {}
    PROVE  \E x \in T : \A y \in T : x <= y
<1>1. IsWellFoundedOn(Before, Nat)
  BY NatLessThanWellFounded DEF Before, OpToRel
<1>2. \E x \in T : \A y \in T : ~(<<y, x>> \in Before)
  BY <1>1, WFMin
<1>3. PICK x \in T : \A y \in T : ~(<<y, x>> \in Before)
  BY <1>2
<1>4. ASSUME NEW y \in T, y < x PROVE FALSE
  <2>1. <<y, x>> \in Nat \X Nat /\ <<y, x>>[1] = y /\ <<y, x>>[2] = x
    OBVIOUS
  <2>2. <<y, x>> \in Before
    BY <1>4, <2>1 DEF Before
  <2> QED BY <1>3, <2>2
<1> QED BY <1>4

\* Induction over the naturals, for a set.
LEMMA Induction ==
    ASSUME NEW T, 0 \in T, \A n \in Nat : n \in T => n + 1 \in T
    PROVE  Nat \subseteq T
<1> SUFFICES ASSUME Nat \ T # {} PROVE FALSE
  OBVIOUS
<1>1. PICK x \in Nat \ T : \A y \in Nat \ T : x <= y
  BY LeastNat
<1>2. x # 0 /\ x - 1 \in Nat /\ x - 1 \in T
  BY <1>1
<1> QED BY <1>1, <1>2

\* What is selected from no elements.
NoneYet == << >>

\* f is the function behind Those, for the first n elements of s.
ThoseUpTo(s, S, n, f) ==
    f = [i \in 0 .. n |->
           IF i = 0 THEN NoneYet
           ELSE IF s[i] \in S THEN Append(f[i - 1], s[i]) ELSE f[i - 1]]

\* Such a function exists.
LEMMA ThoseExists ==
    ASSUME NEW s, NEW S, NEW m \in Nat
    PROVE  \E f : ThoseUpTo(s, S, m, f)
<1> DEFINE T == {n \in Nat : \E f : ThoseUpTo(s, S, n, f)}
<1>1. 0 \in T
  <2>1. ThoseUpTo(s, S, 0, [i \in 0 .. 0 |-> NoneYet])
    BY DEF ThoseUpTo
  <2> QED BY <2>1
<1>2. ASSUME NEW n \in Nat, n \in T PROVE n + 1 \in T
  <2>1. PICK f : ThoseUpTo(s, S, n, f)
    BY <1>2
  <2> DEFINE last == IF s[n + 1] \in S THEN Append(f[n], s[n + 1]) ELSE f[n]
             g == [i \in 0 .. n + 1 |-> IF i = n + 1 THEN last ELSE f[i]]
  <2>2. ASSUME NEW i \in 0 .. n + 1
        PROVE  g[i] = IF i = 0 THEN NoneYet
                      ELSE IF s[i] \in S THEN Append(g[i - 1], s[i]) ELSE g[i - 1]
    <3>1. CASE i = n + 1
      BY <3>1
    <3>2. CASE i # n + 1
      <4> i \in 0 .. n
        BY <3>2
      <4>1. f[i] = IF i = 0 THEN NoneYet
                   ELSE IF s[i] \in S THEN Append(f[i - 1], s[i]) ELSE f[i - 1]
        BY <2>1, Zenon DEF ThoseUpTo
      <4>2. g[i] = f[i] /\ (i # 0 => g[i - 1] = f[i - 1])
        BY <3>2
      <4> QED BY <4>1, <4>2
    <3> QED BY <3>1, <3>2
  <2>3. ThoseUpTo(s, S, n + 1, g)
    BY <2>2 DEF ThoseUpTo
  <2> QED BY <2>3
<1> HIDE DEF T
<1>3. Nat \subseteq T
  BY <1>1, <1>2, Induction
<1> QED BY <1>3 DEF T

\* What Those selects from s is in S.
LEMMA ThoseType ==
    ASSUME NEW X, NEW s \in Seq(X), NEW S
    PROVE  Those(s, S) \in Seq(X \cap S)
<1> DEFINE f == CHOOSE f : ThoseUpTo(s, S, Len(s), f)
           T == {n \in Nat : n <= Len(s) => f[n] \in Seq(X \cap S)}
<1>1. Len(s) \in Nat
  OBVIOUS
<1>2. Those(s, S) = f[Len(s)]
  BY Zenon DEF Those, ThoseUpTo, NoneYet
<1>3. ThoseUpTo(s, S, Len(s), f)
  BY <1>1, ThoseExists
<1> HIDE DEF f
<1>4. 0 \in T
  <2>1. f[0] = NoneYet
    BY <1>1, <1>3 DEF ThoseUpTo
  <2>2. NoneYet \in Seq(X \cap S)
    BY DEF NoneYet
  <2> QED BY <2>1, <2>2
<1>5. ASSUME NEW n \in Nat, n \in T PROVE n + 1 \in T
  <2> SUFFICES ASSUME n + 1 <= Len(s) PROVE f[n + 1] \in Seq(X \cap S)
    OBVIOUS
  <2>1. f[n] \in Seq(X \cap S)
    BY <1>1, <1>5
  <2>2. s[n + 1] \in X
    BY <1>1
  <2>3. f[n + 1] = IF s[n + 1] \in S THEN Append(f[n], s[n + 1]) ELSE f[n]
    <3>1. n + 1 \in 0 .. Len(s) /\ n + 1 # 0 /\ (n + 1) - 1 = n
      BY <1>1
    <3>2. f[n + 1] = IF n + 1 = 0 THEN NoneYet
                     ELSE IF s[n + 1] \in S THEN Append(f[(n + 1) - 1], s[n + 1])
                     ELSE f[(n + 1) - 1]
      BY <1>3, <3>1, Zenon DEF ThoseUpTo
    <3> QED BY <3>1, <3>2, Zenon
  <2> QED BY <2>1, <2>2, <2>3
<1> HIDE DEF T
<1>6. Nat \subseteq T
  BY <1>4, <1>5, Induction
<1> QED BY <1>1, <1>2, <1>6 DEF T

-----------------------------------------------------------------------------
(* Types.                                                                  *)

Asked == {"no one", "has", "has not"}
Processors == {"off", "fetching", "end", "waiting"}

Brokers ==
    [on : BOOLEAN, pending : PendingState, confirmed : BOOLEAN, hasMore : LedgerHasMore,
     more : BOOLEAN, starters : Nat, asked : Asked, proc : Processors,
     fetched : SUBSET Requests, first : BOOLEAN, queue : Seq(Mutable),
     ready : SUBSET Immutable, finished : BOOLEAN]

Executions == [stage : Stages, by : 0 .. pulse, seen : Nat]

Calls == [node : Nodes, pulse : 1 .. pulse, req : Requests, tries : Nat]

Messages ==
    [kind : {"CallMethod"}, to : Nodes, pulse : 1 .. pulse, req : Requests, tries : Nat]
    \cup [kind : {"AdditionalCall"}, to : Nodes, pulse : 1 .. pulse, from : Nodes,
          req : Requests, tries : Nat]
    \cup [kind : {"PendingFinished"}, to : Nodes, pulse : 1 .. pulse, from : Nodes,
          by : Pulses, req : Requests, tries : Nat]
    \cup [kind : {"ExecutorResults"}, to : Nodes, pulse : 1 .. pulse, from : Nodes,
          pending : PendingState, more : BOOLEAN]
    \cup [kind : {"StillExecuting"}, to : Nodes, pulse : 1 .. pulse, from : Nodes]
    \cup [kind : {"AbandonedRequests"}, to : Nodes, pulse : 1 .. pulse]

TimeType ==
    /\ pulse \in Pulses
    /\ executor \in [1 .. pulse -> Nodes]
    /\ nodePulse \in [Nodes -> 0 .. pulse]
    /\ faults \in 0 .. MaxFaults

LedgerType ==
    /\ filament \in Seq(Requests)
    /\ reg \in [Requests -> 0 .. pulse]
    /\ closedAt \in [Requests -> 0 .. pulse]

NodeType ==
    /\ broker \in [Nodes -> Brokers]
    /\ exec \in [Nodes -> [Requests -> Executions]]
    /\ leaving \in [Nodes -> SUBSET (Requests \X Pulses \X BOOLEAN)]

NetType ==
    /\ net \subseteq Messages
    /\ calls \subseteq Calls

\* A dead node does nothing.
DeadIsQuiet ==
    \A n \in Nodes : nodePulse[n] = 0 =>
        /\ broker[n] = NoBroker
        /\ exec[n] = [r \in Requests |-> NotExecuting]
        /\ leaving[n] = {}

\* What is executed, is executed by the broker of some pulse.
HasBroker == \A n \in Nodes, r \in Requests : exec[n][r].stage # "none" => exec[n][r].by \in Pulses

\* The requests that the ledger knows.
Registered == {r \in Requests : reg[r] # 0}

\* Nobody works on a request, or has told of it, that the ledger does not know.
KnownInv ==
    /\ Registered \subseteq ToSet(filament)
    /\ \A r \in Requests : closedAt[r] # 0 => r \in Registered
    /\ \A n \in Nodes : ToSet(broker[n].queue) \cup broker[n].ready \subseteq Registered
    /\ \A n \in Nodes, r \in Requests : exec[n][r].stage # "none" => r \in Registered
    /\ \A h \in calls : h.req \in Registered
    /\ accepted \subseteq Registered

TypeInv ==
    /\ TimeType /\ LedgerType /\ NodeType /\ NetType
    /\ DeadIsQuiet /\ HasBroker /\ KnownInv

\* The types of the parts give the type invariant of the module.
LEMMA TypeInvIsType == TypeInv => TypeOK
<1> SUFFICES ASSUME TypeInv PROVE TypeOK
  OBVIOUS
<1>1. ASSUME NEW n \in Nodes
      PROVE  /\ broker[n].pending \in PendingState
             /\ broker[n].hasMore \in LedgerHasMore
             /\ broker[n].proc \in {"off", "fetching", "end", "waiting"}
             /\ broker[n].starters \in Nat
             /\ broker[n].asked \in {"no one", "has", "has not"}
             /\ broker[n].fetched \subseteq Requests
             /\ ToSet(broker[n].queue) \subseteq Mutable
             /\ broker[n].ready \subseteq Immutable
  <2>1. broker[n] \in Brokers
    BY DEF TypeInv, NodeType
  <2>2. broker[n].queue \in Seq(Mutable)
    BY <2>1 DEF Brokers
  <2>3. ToSet(broker[n].queue) \subseteq Mutable
    BY <2>2 DEF ToSet
  <2> QED BY <2>1, <2>3 DEF Brokers, Asked, Processors
<1>2. \A m \in net : m.to \in Nodes /\ m.pulse \in 1 .. pulse
  BY DEF TypeInv, NetType, Messages
<1>3. accepted \subseteq ToSet(filament)
  BY DEF TypeInv, KnownInv
<1> QED
  BY <1>1, <1>2, <1>3 DEF TypeInv, TimeType, LedgerType, NodeType, TypeOK, Executions

\* The broker that UpsertExecutionState returns.
LEMMA BrokerTypes ==
    /\ NewBroker \in Brokers /\ NewBroker.queue = << >> /\ NewBroker.ready = {}
    /\ NoBroker \in Brokers /\ NoBroker.queue = << >> /\ NoBroker.ready = {}
    /\ NoBroker.starters = 0 /\ NoBroker.asked = "no one" /\ NoBroker.proc = "off"
    /\ ToSet(<< >>) = {}
<1>1. NewBroker \in Brokers
  BY DEF NewBroker, Brokers, PendingState, LedgerHasMore, Asked, Processors
<1>2. NoBroker \in Brokers
  BY <1>1 DEF NoBroker, Brokers
<1>3. NewBroker.queue = << >> /\ NewBroker.ready = {}
  BY DEF NewBroker
<1>4. /\ NoBroker.queue = << >> /\ NoBroker.ready = {}
      /\ NoBroker.starters = 0 /\ NoBroker.asked = "no one" /\ NoBroker.proc = "off"
  BY DEF NoBroker, NewBroker
<1>5. ToSet(<< >>) = {}
  BY DEF ToSet
<1> QED BY <1>1, <1>2, <1>3, <1>4, <1>5

\* Initially nothing is known and nobody is dead.
LEMMA InitType == Init => TypeInv
<1> SUFFICES ASSUME Init PROVE TypeInv
  OBVIOUS
<1> USE DEF Init
<1>1. TimeType
  BY BoundsAssumption DEF TimeType, Pulses
<1>2. LedgerType
  BY <1>1 DEF LedgerType
<1>3. NotExecuting \in Executions
  BY DEF NotExecuting, Executions, Stages
<1>4. NodeType
  BY <1>3, BrokerTypes DEF NodeType
<1>5. NetType
  BY DEF NetType
<1>6. DeadIsQuiet
  BY DEF DeadIsQuiet
<1>7. HasBroker
  BY DEF HasBroker, NotExecuting
<1>8. KnownInv
  BY BrokerTypes DEF KnownInv, Registered, NotExecuting
<1> QED BY <1>1, <1>2, <1>4, <1>5, <1>6, <1>7, <1>8 DEF TypeInv

\* A step of a living node that changes nothing of the others.
LEMMA NodeMove ==
    ASSUME TypeInv, NEW n \in Nodes, nodePulse[n] # 0,
           UNCHANGED <<time, filament, reg>>, faults' \in 0 .. MaxFaults,
           closedAt' \in [Requests -> 0 .. pulse],
           \A r \in Requests : closedAt'[r] # 0 => r \in Registered,
           broker' \in [Nodes -> Brokers],
           exec' \in [Nodes -> [Requests -> Executions]],
           leaving' \in [Nodes -> SUBSET (Requests \X Pulses \X BOOLEAN)],
           \A k \in Nodes \ {n} : /\ broker'[k] = broker[k]
                                  /\ exec'[k] = exec[k]
                                  /\ leaving'[k] = leaving[k],
           ToSet(broker'[n].queue) \cup broker'[n].ready \subseteq Registered,
           \A r \in Requests : exec'[n][r].stage # "none" =>
               exec'[n][r].by \in Pulses /\ r \in Registered,
           net' \subseteq Messages, calls' \subseteq calls, accepted' \subseteq Registered
    PROVE  TypeInv'
<1>1. pulse' = pulse /\ executor' = executor /\ nodePulse' = nodePulse
  BY DEF time
<1>2. TimeType'
  BY <1>1 DEF TypeInv, TimeType
<1>3. LedgerType' /\ Registered' = Registered
  BY <1>1 DEF TypeInv, LedgerType, Registered
<1>4. Executions' = Executions /\ Messages' = Messages /\ Calls' = Calls
  BY <1>1 DEF Executions, Messages, Calls
<1>5. NodeType'
  BY <1>4 DEF NodeType
<1>6. NetType'
  BY <1>4 DEF TypeInv, NetType
<1>7. DeadIsQuiet'
  BY <1>1 DEF TypeInv, DeadIsQuiet
<1>8. HasBroker'
  BY DEF TypeInv, HasBroker
<1>9. KnownInv'
  BY <1>3 DEF TypeInv, KnownInv
<1> QED BY <1>2, <1>3, <1>5, <1>6, <1>7, <1>8, <1>9 DEF TypeInv

\* A step that changes a broker of a living node, and takes messages and calls
\* away.
LEMMA BrokerMove ==
    ASSUME TypeInv, NEW n \in Nodes, nodePulse[n] # 0, NEW b \in Brokers,
           ToSet(b.queue) \cup b.ready \subseteq Registered,
           broker' = [broker EXCEPT ![n] = b],
           net' \subseteq net, calls' \subseteq calls, accepted' \subseteq Registered,
           UNCHANGED <<time, exec, leaving, ledger>>, faults' \in 0 .. MaxFaults
    PROVE  TypeInv'
<1>1. UNCHANGED <<filament, reg>> /\ closedAt' = closedAt
  BY DEF ledger
<1>2. broker' \in [Nodes -> Brokers] /\ broker'[n] = b /\ \A k \in Nodes \ {n} : broker'[k] = broker[k]
  BY DEF TypeInv, NodeType
<1>3. /\ closedAt' \in [Requests -> 0 .. pulse]
      /\ \A r \in Requests : closedAt'[r] # 0 => r \in Registered
  BY <1>1 DEF TypeInv, LedgerType, KnownInv
<1>4. /\ exec' \in [Nodes -> [Requests -> Executions]]
      /\ leaving' \in [Nodes -> SUBSET (Requests \X Pulses \X BOOLEAN)]
      /\ \A r \in Requests : exec'[n][r].stage # "none" =>
           exec'[n][r].by \in Pulses /\ r \in Registered
      /\ net' \subseteq Messages
  BY DEF TypeInv, NodeType, NetType, HasBroker, KnownInv
<1> QED BY <1>1, <1>2, <1>3, <1>4, NodeMove

\* A step that touches no node and not the ledger.
LEMMA NetMove ==
    ASSUME TypeInv, UNCHANGED <<time, broker, exec, leaving, ledger>>,
           faults' \in 0 .. MaxFaults,
           net' \subseteq Messages, calls' \subseteq calls, accepted' \subseteq Registered
    PROVE  TypeInv'
<1>1. pulse' = pulse /\ executor' = executor /\ nodePulse' = nodePulse
  BY DEF time
<1>2. filament' = filament /\ reg' = reg /\ closedAt' = closedAt
  BY DEF ledger
<1>3. Executions' = Executions /\ Messages' = Messages /\ Calls' = Calls /\ Registered' = Registered
  BY <1>1, <1>2 DEF Executions, Messages, Calls, Registered
<1>4. TimeType' /\ LedgerType' /\ NodeType' /\ NetType'
  BY <1>1, <1>2, <1>3 DEF TypeInv, TimeType, LedgerType, NodeType, NetType
<1>5. DeadIsQuiet' /\ HasBroker'
  BY <1>1 DEF TypeInv, DeadIsQuiet, HasBroker
<1>6. KnownInv'
  BY <1>2, <1>3 DEF TypeInv, KnownInv
<1> QED BY <1>4, <1>5, <1>6 DEF TypeInv

\* What the types say of a message, and of the node it goes to.
LEMMA MessageFacts ==
    ASSUME TypeInv, NEW m \in net
    PROVE  /\ m \in Messages /\ m.to \in Nodes /\ m.pulse \in 1 .. pulse
           /\ m.kind = "CallMethod" => m.req \in Requests /\ m.tries \in Nat
           /\ m.kind = "ExecutorResults" => m.pending \in PendingState /\ m.more \in BOOLEAN
           /\ m.kind \in {"PendingFinished", "AdditionalCall"} => m.from \in Nodes /\ m.tries \in Nat
<1>1. m \in Messages
  BY DEF TypeInv, NetType
<1> QED BY <1>1 DEF Messages

\* And of a call.
LEMMA CallFacts ==
    ASSUME TypeInv, NEW h \in calls
    PROVE  /\ h.node \in Nodes /\ h.pulse \in 1 .. pulse /\ h.req \in Registered
           /\ h.req \in Requests /\ h.tries \in Nat
BY DEF TypeInv, NetType, KnownInv, Calls

\* The numbers that are compared.
LEMMA PulseFacts ==
    ASSUME TypeInv
    PROVE  /\ pulse \in Nat /\ pulse >= 1 /\ pulse \in 1 .. pulse /\ pulse <= MaxPulse
           /\ MaxPulse \in Nat /\ 1 .. pulse \subseteq Pulses
           /\ \A n \in Nodes : nodePulse[n] \in Nat /\ nodePulse[n] <= pulse
           /\ \A p \in 1 .. pulse : executor[p] \in Nodes
           /\ faults \in 0 .. MaxFaults /\ accepted \subseteq Registered
BY BoundsAssumption DEF TypeInv, TimeType, KnownInv, Pulses

\* UpsertExecutionState finds or makes a broker.
LEMMA UpsertType ==
    ASSUME TypeInv, NEW n \in Nodes
    PROVE  /\ Upsert(n) \in Brokers
           /\ ToSet(Upsert(n).queue) \cup Upsert(n).ready \subseteq Registered
<1>1. CASE broker[n].on
  BY <1>1 DEF Upsert, TypeInv, NodeType, KnownInv
<1>2. CASE ~broker[n].on
  BY <1>2, BrokerTypes DEF Upsert
<1> QED BY <1>1, <1>2

\* HasMoreRequests changes neither feed.
LEMMA HasMoreType ==
    ASSUME NEW b \in Brokers
    PROVE  /\ HasMoreRequests(b) \in Brokers
           /\ HasMoreRequests(b).queue = b.queue /\ HasMoreRequests(b).ready = b.ready
<1>1. b.starters + 1 \in Nat /\ "LedgerHasMoreKnown" \in LedgerHasMore
  BY DEF Brokers, LedgerHasMore
<1>2. HasMoreRequests(b) \in Brokers
  BY <1>1 DEF HasMoreRequests, Brokers
<1>3. HasMoreRequests(b).queue = b.queue /\ HasMoreRequests(b).ready = b.ready
  BY DEF HasMoreRequests, Brokers
<1> QED BY <1>2, <1>3

\* A call.
LEMMA CallType ==
    ASSUME TypeInv, NEW r \in Requests, SendCall(r)
    PROVE  TypeInv'
<1>1. net' \subseteq Messages
  <2>1. To(pulse) \in Nodes
    BY PulseFacts DEF To
  <2>2. [kind |-> "CallMethod", to |-> To(pulse), pulse |-> pulse, req |-> r, tries |-> 1] \in Messages
    BY <2>1, PulseFacts DEF Messages
  <2> QED BY <2>2 DEF SendCall, TypeInv, NetType
<1> QED BY <1>1, PulseFacts, NetMove DEF SendCall

\* Handlers of calls that have been registered.
LEMMA HandleType ==
    ASSUME TypeInv, NEW h \in calls, Handle(h)
    PROVE  TypeInv'
<1>h. /\ h.node \in Nodes /\ h.pulse \in 1 .. pulse /\ h.req \in Registered
      /\ h.req \in Requests /\ h.tries \in Nat
  BY CallFacts
<1>1. CASE HandleCall(h)
  <2> DEFINE b == HasMoreRequests(Upsert(h.node))
  <2>1. b \in Brokers /\ ToSet(b.queue) \cup b.ready \subseteq Registered
    BY <1>h, UpsertType, HasMoreType
  <2>2. nodePulse[h.node] # 0
    BY <1>h, <1>1, PulseFacts DEF HandleCall
  <2>3. accepted' \subseteq Registered /\ calls' \subseteq calls /\ net' \subseteq net
    BY <1>h, <1>1, PulseFacts DEF HandleCall
  <2>4. /\ broker' = [broker EXCEPT ![h.node] = b]
        /\ UNCHANGED <<time, exec, leaving, ledger>> /\ faults' \in 0 .. MaxFaults
    BY <1>1, PulseFacts DEF HandleCall
  <2> HIDE DEF b
  <2> QED BY <1>h, <2>1, <2>2, <2>3, <2>4, BrokerMove
<1>2. CASE SendToNextExecutor(h)
  <2>1. nodePulse[h.node] \in 1 .. pulse
    BY <1>h, <1>2, PulseFacts DEF SendToNextExecutor
  <2>2. [kind |-> "AdditionalCall", to |-> To(nodePulse[h.node]), pulse |-> nodePulse[h.node],
         from |-> h.node, req |-> h.req, tries |-> 1] \in Messages
    BY <1>h, <2>1, PulseFacts DEF To, Messages
  <2>3. net' \subseteq Messages
    BY <1>2, <2>2 DEF SendToNextExecutor, TypeInv, NetType
  <2>4. accepted' \subseteq Registered /\ calls' \subseteq calls
    BY <1>h, <1>2, PulseFacts DEF SendToNextExecutor
  <2> QED BY <1>2, <2>3, <2>4, PulseFacts, NetMove DEF SendToNextExecutor
<1>3. CASE CallCancelled(h)
  <2>1. ResendCall(h.req, h.tries) \subseteq Messages
    BY <1>h, PulseFacts DEF ResendCall, To, Messages
  <2>2. net' \subseteq Messages
    BY <1>3, <2>1 DEF CallCancelled, TypeInv, NetType
  <2> QED BY <1>3, <2>2, PulseFacts, NetMove DEF CallCancelled
<1> QED BY <1>1, <1>2, <1>3 DEF Handle

\* The registration of a request.
LEMMA RegisterType ==
    ASSUME TypeInv, NEW m \in net, RegisterIncomingRequest(m)
    PROVE  TypeInv'
<1>m. /\ m.kind = "CallMethod" /\ m.to \in Nodes /\ m.pulse \in 1 .. pulse
      /\ m.req \in Requests /\ m.tries \in Nat
  BY MessageFacts DEF RegisterIncomingRequest, Arrives
<1>1. /\ pulse' = pulse /\ executor' = executor /\ nodePulse' = nodePulse
      /\ broker' = broker /\ exec' = exec /\ leaving' = leaving /\ faults' = faults
      /\ closedAt' = closedAt /\ net' \subseteq net
  BY DEF RegisterIncomingRequest, SetRequest, time
<1>2. Executions' = Executions /\ Messages' = Messages /\ Calls' = Calls
  BY <1>1 DEF Executions, Messages, Calls
<1>l. /\ filament \in Seq(Requests) /\ reg \in [Requests -> 0 .. pulse]
      /\ filament' = IF reg[m.req] = 0 THEN Append(filament, m.req) ELSE filament
      /\ reg' = IF reg[m.req] = 0 THEN [reg EXCEPT ![m.req] = pulse] ELSE reg
  BY DEF TypeInv, LedgerType, RegisterIncomingRequest, SetRequest
<1>3. TimeType'
  BY <1>1 DEF TypeInv, TimeType
<1>4. LedgerType'
  BY <1>m, <1>1, <1>l, PulseFacts DEF TypeInv, LedgerType
<1>5. NodeType' /\ DeadIsQuiet' /\ HasBroker'
  BY <1>1, <1>2 DEF TypeInv, NodeType, DeadIsQuiet, HasBroker
<1>6. NetType'
  <2>1. [node |-> m.to, pulse |-> m.pulse, req |-> m.req, tries |-> m.tries] \in Calls
    BY <1>m DEF Calls
  <2> QED BY <1>1, <1>2, <2>1 DEF TypeInv, NetType, RegisterIncomingRequest
<1>7. Registered' = Registered \cup {m.req}
  BY <1>m, <1>l, PulseFacts DEF Registered
<1>8. Registered' \subseteq ToSet(filament')
  <2>1. Registered \subseteq ToSet(filament)
    BY DEF TypeInv, KnownInv
  <2>2. CASE reg[m.req] = 0
    <3>1. /\ filament' \in Seq(Requests) /\ Len(filament') = Len(filament) + 1
          /\ filament'[Len(filament) + 1] = m.req
          /\ \A i \in 1 .. Len(filament) : filament'[i] = filament[i]
      BY <1>m, <1>l, <2>2
    <3>d. DOMAIN filament = 1 .. Len(filament) /\ DOMAIN filament' = 1 .. Len(filament')
      BY <1>l, <3>1
    <3>2. ToSet(filament) \subseteq ToSet(filament') /\ m.req \in ToSet(filament')
      <4>1. Len(filament) \in Nat /\ Len(filament) + 1 \in DOMAIN filament'
        BY <1>l, <3>1, <3>d
      <4>2. \A i \in DOMAIN filament : i \in DOMAIN filament' /\ filament'[i] = filament[i]
        BY <1>l, <3>1, <3>d, <4>1
      <4> QED BY <3>1, <4>1, <4>2 DEF ToSet
    <3> QED BY <1>7, <2>1, <3>2
  <2>3. CASE reg[m.req] # 0
    BY <1>m, <1>l, <1>7, <2>1, <2>3 DEF Registered
  <2> QED BY <2>2, <2>3
<1>9. KnownInv'
  <2>1. \A h \in calls' : h.req \in Registered'
    <3>1. [node |-> m.to, pulse |-> m.pulse, req |-> m.req, tries |-> m.tries].req = m.req
      OBVIOUS
    <3> QED BY <1>7, <3>1 DEF TypeInv, KnownInv, RegisterIncomingRequest
  <2>2. accepted' \subseteq Registered'
    BY <1>7, PulseFacts DEF RegisterIncomingRequest
  <2> QED BY <1>1, <1>7, <1>8, <2>1, <2>2 DEF TypeInv, KnownInv
<1> QED BY <1>3, <1>4, <1>5, <1>6, <1>9 DEF TypeInv

\* A step that handles a message by changing the broker it goes to.
LEMMA HandlerMove ==
    ASSUME TypeInv, NEW m \in net, nodePulse[m.to] = m.pulse, NEW b \in Brokers,
           ToSet(b.queue) \cup b.ready \subseteq Registered,
           broker' = [broker EXCEPT ![m.to] = b], net' = net \ {m},
           UNCHANGED <<time, exec, leaving, calls, accepted, ledger, faults>>
    PROVE  TypeInv'
<1>1. m.to \in Nodes /\ nodePulse[m.to] # 0
  BY MessageFacts, PulseFacts
<1>2. /\ net' \subseteq net /\ calls' \subseteq calls /\ accepted' \subseteq Registered
      /\ faults' \in 0 .. MaxFaults
  BY PulseFacts
<1> QED BY <1>1, <1>2, BrokerMove

\* The handlers of the messages between virtual nodes.
LEMMA MessageType ==
    ASSUME TypeInv, NEW m \in net,
           \/ HandleExecutorResults(m) \/ HandleStillExecuting(m) \/ HandlePendingFinished(m)
           \/ HandleAdditionalCall(m) \/ HandleAbandonedRequests(m)
    PROVE  TypeInv'
<1>m. m.to \in Nodes
  BY MessageFacts
<1> DEFINE u == Upsert(m.to)
<1>u. u \in Brokers /\ ToSet(u.queue) \cup u.ready \subseteq Registered
  BY <1>m, UpsertType
<1>1. CASE HandleExecutorResults(m)
  <2> DEFINE pending == CASE u.pending = "PendingUnknown" -> m.pending
                          [] u.pending = "InPending" /\ ~IsActive(m.to) /\ m.pending = "NotPending"
                               -> "NotPending"
                          [] OTHER -> u.pending
             c == [u EXCEPT !.pending = pending]
             b == IF m.more THEN HasMoreRequests(c) ELSE c
  <2>1. nodePulse[m.to] = m.pulse /\ m.pending \in PendingState
    BY <1>1, MessageFacts DEF HandleExecutorResults, Arrives
  <2>2. pending \in PendingState
    BY <1>u, <2>1 DEF Brokers, PendingState
  <2>3. broker' = [broker EXCEPT ![m.to] = b]
    BY <1>1 DEF HandleExecutorResults
  <2> HIDE DEF u, pending
  <2>4. c \in Brokers /\ c.queue = u.queue /\ c.ready = u.ready
    BY <1>u, <2>2 DEF Brokers
  <2> HIDE DEF c
  <2>5. b \in Brokers /\ b.queue = u.queue /\ b.ready = u.ready
    BY <2>4, HasMoreType
  <2> HIDE DEF b
  <2> QED BY <1>1, <1>u, <2>1, <2>3, <2>5, HandlerMove DEF HandleExecutorResults
<1>2. CASE HandleStillExecuting(m)
  <2> DEFINE b == IF u.pending = "NotPending" THEN u
                  ELSE [u EXCEPT !.pending = "InPending", !.confirmed = TRUE]
  <2>1. nodePulse[m.to] = m.pulse
    BY <1>2 DEF HandleStillExecuting, Arrives
  <2>2. broker' = [broker EXCEPT ![m.to] = b]
    BY <1>2 DEF HandleStillExecuting
  <2> HIDE DEF u
  <2>3. b \in Brokers /\ b.queue = u.queue /\ b.ready = u.ready
    BY <1>u DEF Brokers, PendingState
  <2> HIDE DEF b
  <2> QED BY <1>2, <1>u, <2>1, <2>2, <2>3, HandlerMove DEF HandleStillExecuting
<1>3. CASE HandlePendingFinished(m)
  <2> DEFINE b == IF IsActive(m.to) THEN u
                  ELSE [u EXCEPT !.pending = "NotPending", !.starters = @ + 1]
  <2>1. nodePulse[m.to] = m.pulse
    BY <1>3 DEF HandlePendingFinished, Arrives
  <2>2. broker' = [broker EXCEPT ![m.to] = b]
    BY <1>3 DEF HandlePendingFinished
  <2> HIDE DEF u
  <2>s. u.starters + 1 \in Nat
    BY <1>u DEF Brokers
  <2>3. b \in Brokers /\ b.queue = u.queue /\ b.ready = u.ready
    BY <1>u, <2>s DEF Brokers, PendingState
  <2> HIDE DEF b
  <2> QED BY <1>3, <1>u, <2>1, <2>2, <2>3, HandlerMove DEF HandlePendingFinished
<1>4. CASE HandleAdditionalCall(m)
  <2> DEFINE b == HasMoreRequests(u)
  <2>1. nodePulse[m.to] = m.pulse
    BY <1>4 DEF HandleAdditionalCall, Arrives
  <2>2. broker' = [broker EXCEPT ![m.to] = b]
    BY <1>4 DEF HandleAdditionalCall
  <2> HIDE DEF u
  <2>3. b \in Brokers /\ b.queue = u.queue /\ b.ready = u.ready
    BY <1>u, HasMoreType
  <2> HIDE DEF b
  <2> QED BY <1>4, <1>u, <2>1, <2>2, <2>3, HandlerMove DEF HandleAdditionalCall
<1>5. CASE HandleAbandonedRequests(m)
  <2> DEFINE c == IF u.pending = "PendingUnknown"
                    THEN [u EXCEPT !.pending = "InPending", !.confirmed = FALSE] ELSE u
             b == HasMoreRequests(c)
  <2>1. nodePulse[m.to] = m.pulse
    BY <1>5 DEF HandleAbandonedRequests, Arrives
  <2>2. broker' = [broker EXCEPT ![m.to] = b]
    BY <1>5 DEF HandleAbandonedRequests
  <2> HIDE DEF u
  <2>3. c \in Brokers /\ c.queue = u.queue /\ c.ready = u.ready
    BY <1>u DEF Brokers, PendingState
  <2> HIDE DEF c
  <2>4. b \in Brokers /\ b.queue = u.queue /\ b.ready = u.ready
    BY <2>3, HasMoreType
  <2> HIDE DEF b
  <2> QED BY <1>5, <1>u, <2>1, <2>2, <2>4, HandlerMove DEF HandleAbandonedRequests
<1> QED BY <1>1, <1>2, <1>3, <1>4, <1>5

\* Messages that are late, lost, or for a dead node.
LEMMA LateType ==
    ASSUME TypeInv, NEW m \in net, CallTooLate(m) \/ TooLate(m) \/ NobodyThere(m) \/ Lose(m)
    PROVE  TypeInv'
<1>n. net \subseteq Messages
  BY DEF TypeInv, NetType
<1>1. CASE CallTooLate(m)
  <2>1. m.req \in Requests /\ m.tries \in Nat
    BY <1>1, MessageFacts DEF CallTooLate
  <2>2. ResendCall(m.req, m.tries) \subseteq Messages
    BY <2>1, PulseFacts DEF ResendCall, To, Messages
  <2>3. net' \subseteq Messages
    BY <1>n, <1>1, <2>2 DEF CallTooLate
  <2> QED BY <1>1, <2>3, PulseFacts, NetMove DEF CallTooLate
<1>2. CASE TooLate(m)
  <2>1. net' \subseteq Messages
    <3>1. CASE net' = net \ {m}
      BY <1>n, <3>1
    <3>2. CASE /\ m.kind \in {"PendingFinished", "AdditionalCall"}
               /\ nodePulse[m.from] > m.pulse
               /\ net' = (net \ {m}) \cup
                         IF m.tries > 0
                           THEN {[m EXCEPT !.to = To(nodePulse[m.from]),
                                           !.pulse = nodePulse[m.from], !.tries = @ - 1]}
                           ELSE {}
      <4>1. m.from \in Nodes /\ m.tries \in Nat /\ m \in Messages /\ m.pulse \in 1 .. pulse
        BY <3>2, MessageFacts
      <4>2. nodePulse[m.from] \in 1 .. pulse
        BY <3>2, <4>1, PulseFacts
      <4>3. To(nodePulse[m.from]) \in Nodes
        BY <4>2, PulseFacts DEF To
      <4> DEFINE w == [m EXCEPT !.to = To(nodePulse[m.from]),
                                !.pulse = nodePulse[m.from], !.tries = @ - 1]
      <4>4. ASSUME m.tries > 0 PROVE w \in Messages
        <5> DEFINE to == To(nodePulse[m.from])
                   p == nodePulse[m.from]
                   left == m.tries - 1
        <5>1. to \in Nodes /\ p \in 1 .. pulse /\ left \in Nat
          BY <4>1, <4>2, <4>3, <4>4
        <5>2. w = [m EXCEPT !.to = to, !.pulse = p, !.tries = left]
          OBVIOUS
        <5> HIDE DEF to, p, left, w
        <5>3. CASE m.kind = "PendingFinished"
          BY <4>1, <5>1, <5>2, <5>3 DEF Messages
        <5>4. CASE m.kind = "AdditionalCall"
          BY <4>1, <5>1, <5>2, <5>4 DEF Messages
        <5> QED BY <3>2, <5>3, <5>4
      <4> QED BY <1>n, <3>2, <4>4
    <3> QED BY <1>2, <3>1, <3>2 DEF TooLate
  <2> QED BY <1>2, <2>1, PulseFacts, NetMove DEF TooLate
<1>3. CASE NobodyThere(m)
  BY <1>n, <1>3, PulseFacts, NetMove DEF NobodyThere
<1>4. CASE Lose(m)
  <2>1. faults' \in 0 .. MaxFaults
    BY <1>4, PulseFacts, BoundsAssumption DEF Lose, Fault
  <2> QED BY <1>n, <1>4, <2>1, PulseFacts, NetMove DEF Lose
<1> QED BY <1>1, <1>2, <1>3, <1>4

\* What GetPendings returns is open, and not yet known to the caller.
LEMMA PendingsType ==
    ASSUME TypeInv, NEW p \in Nat, NEW skip
    PROVE  /\ GetPendings(p, skip) \in Seq(Registered)
           /\ ToSet(GetPendings(p, skip)) \subseteq Registered
<1>1. filament \in Seq(Requests)
  BY DEF TypeInv, LedgerType
<1>2. GetPendings(p, skip) \in Seq(Requests \cap (OpenedRequests(p) \ skip))
  BY <1>1, ThoseType DEF GetPendings
<1>3. Requests \cap (OpenedRequests(p) \ skip) \subseteq Registered
  BY DEF OpenedRequests, Registered
<1>4. GetPendings(p, skip) \in Seq(Registered)
  BY <1>2, <1>3
<1>5. ToSet(GetPendings(p, skip)) \subseteq Registered
  BY <1>4 DEF ToSet
<1> QED BY <1>4, <1>5

\* startProcessor and the requests processor.
LEMMA ProcessType ==
    ASSUME TypeInv, NEW n \in Nodes, Process(n)
    PROVE  TypeInv'
<1>b. /\ broker[n] \in Brokers
      /\ ToSet(broker[n].queue) \cup broker[n].ready \subseteq Registered
  BY DEF TypeInv, NodeType, KnownInv
<1>n. broker[n].starters \in Nat /\ broker[n].starters + 1 \in Nat
      /\ (broker[n].starters > 0 => broker[n].starters - 1 \in Nat /\ broker[n].starters # 0)
  BY <1>b DEF Brokers
<1>a. ASSUME \/ broker[n].starters > 0 \/ broker[n].asked # "no one" \/ broker[n].proc # "off"
      PROVE  nodePulse[n] # 0
  <2>1. NoBroker.starters = 0 /\ NoBroker.asked = "no one" /\ NoBroker.proc = "off"
    BY BrokerTypes
  <2>2. nodePulse[n] = 0 => broker[n] = NoBroker
    BY DEF TypeInv, DeadIsQuiet
  <2> QED BY <1>a, <1>n, <2>1, <2>2, Zenon
<1>s. ASSUME NEW b \in Brokers, SetBroker(n, b), nodePulse[n] # 0,
             ToSet(b.queue) \cup b.ready \subseteq Registered
      PROVE  TypeInv'
  BY <1>s, BrokerMove, PulseFacts DEF SetBroker
<1>1. CASE AskLedger(n)
  <2> DEFINE asked == IF HasPendings(nodePulse[n]) THEN "has" ELSE "has not"
             b == [broker[n] EXCEPT !.starters = @ - 1, !.asked = asked]
  <2>1. SetBroker(n, b) /\ broker[n].starters > 0
    BY <1>1 DEF AskLedger
  <2>2. asked \in Asked
    BY DEF Asked
  <2> HIDE DEF asked
  <2>3. b \in Brokers /\ b.queue = broker[n].queue /\ b.ready = broker[n].ready
    BY <1>b, <1>n, <2>1, <2>2 DEF Brokers
  <2> HIDE DEF b
  <2> QED BY <1>a, <1>b, <1>s, <2>1, <2>3
<1>2. CASE ClarifyPendingState(n)
  <2> DEFINE b == IF broker[n].pending # "PendingUnknown"
                    THEN [broker[n] EXCEPT !.starters = @ + 1, !.asked = "no one"]
                    ELSE IF broker[n].asked = "has"
                    THEN [broker[n] EXCEPT !.starters = @ + 1, !.asked = "no one",
                                           !.pending = "InPending",
                                           !.hasMore = "LedgerHasMoreUnknown"]
                    ELSE [broker[n] EXCEPT !.starters = @ + 1, !.asked = "no one",
                                           !.pending = "NotPending"]
  <2>1. SetBroker(n, b) /\ broker[n].asked # "no one"
    BY <1>2 DEF ClarifyPendingState
  <2>2. b \in Brokers /\ b.queue = broker[n].queue /\ b.ready = broker[n].ready
    BY <1>b, <1>n DEF Brokers, PendingState, LedgerHasMore, Asked
  <2> HIDE DEF b
  <2> QED BY <1>a, <1>b, <1>s, <2>1, <2>2
<1>3. CASE StartProcessor(n)
  <2> DEFINE b == IF broker[n].pending = "NotPending" /\ broker[n].proc = "off"
                    THEN [broker[n] EXCEPT !.starters = @ - 1, !.more = FALSE,
                                           !.proc = "fetching"]
                    ELSE [broker[n] EXCEPT !.starters = @ - 1]
  <2>1. SetBroker(n, b) /\ broker[n].starters > 0
    BY <1>3 DEF StartProcessor
  <2>2. b \in Brokers /\ b.queue = broker[n].queue /\ b.ready = broker[n].ready
    BY <1>b, <1>n, <2>1 DEF Brokers, Processors
  <2> HIDE DEF b
  <2> QED BY <1>a, <1>b, <1>s, <2>1, <2>2
<1>4. CASE Fetch(n)
  <2> DEFINE new == GetPendings(nodePulse[n], broker[n].fetched)
             queue == broker[n].queue \o Those(new, Mutable)
             b == IF new = << >>
                    THEN [broker[n] EXCEPT !.proc = "end"]
                    ELSE [broker[n] EXCEPT !.fetched = @ \cup ToSet(new),
                                           !.queue = queue,
                                           !.ready = @ \cup (ToSet(new) \cap Immutable)]
  <2>1. SetBroker(n, b) /\ broker[n].proc # "off"
    BY <1>4 DEF Fetch
  <2>2. new \in Seq(Registered) /\ ToSet(new) \subseteq Registered /\ ToSet(new) \subseteq Requests
    BY PendingsType, PulseFacts DEF Registered
  <2>3. Those(new, Mutable) \in Seq(Registered \cap Mutable)
    BY <2>2, ThoseType
  <2>4. broker[n].queue \in Seq(Registered \cap Mutable)
    <3>1. broker[n].queue \in Seq(Mutable)
      BY <1>b DEF Brokers
    <3>2. \A i \in 1 .. Len(broker[n].queue) : broker[n].queue[i] \in Registered
      BY <1>b, <3>1 DEF ToSet
    <3> QED BY <3>1, <3>2
  <2>5. queue \in Seq(Registered \cap Mutable)
    BY <2>3, <2>4
  <2>6. queue \in Seq(Mutable) /\ ToSet(queue) \subseteq Registered
    <3> HIDE DEF queue
    <3>1. queue \in Seq(Mutable) /\ \A i \in DOMAIN queue : queue[i] \in Registered
      BY <2>5
    <3> QED BY <3>1 DEF ToSet
  <2> HIDE DEF new, queue
  <2>7. b \in Brokers /\ ToSet(b.queue) \cup b.ready \subseteq Registered
    <3>1. CASE new = << >>
      <4>1. b \in Brokers /\ b.queue = broker[n].queue /\ b.ready = broker[n].ready
        BY <1>b, <3>1 DEF Brokers, Processors
      <4> QED BY <1>b, <4>1
    <3>2. CASE new # << >>
      <4> DEFINE ready == broker[n].ready \cup (ToSet(new) \cap Immutable)
                 fetched == broker[n].fetched \cup ToSet(new)
      <4>1. b = [broker[n] EXCEPT !.fetched = fetched, !.queue = queue, !.ready = ready]
        BY <3>2
      <4>2. ready \in SUBSET Immutable /\ ready \subseteq Registered /\ fetched \in SUBSET Requests
        BY <1>b, <2>2 DEF Brokers
      <4> HIDE DEF ready, fetched, b
      <4>3. b \in Brokers /\ b.queue = queue /\ b.ready = ready
        BY <1>b, <2>6, <4>1, <4>2 DEF Brokers
      <4> QED BY <2>6, <4>2, <4>3
    <3> QED BY <3>1, <3>2
  <2> HIDE DEF b
  <2> QED BY <1>a, <1>s, <2>1, <2>7
<1>5. CASE NoMoreRequests(n)
  <2> DEFINE hasMore == IF broker[n].more THEN broker[n].hasMore
                        ELSE IF broker[n].first /\ broker[n].fetched = {} THEN "LedgerIsEmpty"
                        ELSE "LedgerHasMoreKnown"
             b == [broker[n] EXCEPT !.proc = "waiting", !.first = FALSE, !.hasMore = hasMore]
  <2>1. SetBroker(n, b) /\ broker[n].proc # "off"
    BY <1>5 DEF NoMoreRequests
  <2>2. hasMore \in LedgerHasMore
    BY <1>b DEF Brokers, LedgerHasMore
  <2> HIDE DEF hasMore
  <2>3. b \in Brokers /\ b.queue = broker[n].queue /\ b.ready = broker[n].ready
    BY <1>b, <2>2 DEF Brokers, Processors
  <2> HIDE DEF b
  <2> QED BY <1>a, <1>b, <1>s, <2>1, <2>3
<1>6. CASE Refetch(n)
  <2> DEFINE b == [broker[n] EXCEPT !.proc = "fetching", !.more = FALSE]
  <2>1. SetBroker(n, b) /\ broker[n].proc # "off"
    BY <1>6 DEF Refetch
  <2>2. b \in Brokers /\ b.queue = broker[n].queue /\ b.ready = broker[n].ready
    BY <1>b DEF Brokers, Processors
  <2> HIDE DEF b
  <2> QED BY <1>a, <1>b, <1>s, <2>1, <2>2
<1> QED BY <1>1, <1>2, <1>3, <1>4, <1>5, <1>6 DEF Process

\* A question to the ledger that fails.
LEMMA AskFailsType ==
    ASSUME TypeInv, NEW n \in Nodes, AskLedgerFails(n)
    PROVE  TypeInv'
<1> DEFINE left == broker[n].starters - 1
           b == [broker[n] EXCEPT !.starters = left]
<1>1. broker[n] \in Brokers /\ ToSet(broker[n].queue) \cup broker[n].ready \subseteq Registered
  BY DEF TypeInv, NodeType, KnownInv
<1>2. /\ broker[n].starters > 0 /\ Fault
      /\ broker' = [broker EXCEPT ![n] = b]
      /\ UNCHANGED <<time, exec, leaving, calls, accepted, net, ledger>>
  BY Zenon DEF AskLedgerFails
<1>3. broker[n].starters \in Nat
  BY <1>1 DEF Brokers
<1>4. left \in Nat /\ broker[n].starters # 0
  BY <1>2, <1>3
<1>5. nodePulse[n] # 0
  BY <1>4, BrokerTypes DEF TypeInv, DeadIsQuiet
<1>6. faults' \in 0 .. MaxFaults
  BY <1>2, PulseFacts, BoundsAssumption DEF Fault
<1> HIDE DEF left
<1>7. b \in Brokers /\ b.queue = broker[n].queue /\ b.ready = broker[n].ready
  BY <1>1, <1>4 DEF Brokers
<1> HIDE DEF b
<1>8. net' \subseteq net /\ calls' \subseteq calls /\ accepted' \subseteq Registered
  BY <1>2, PulseFacts
<1> QED BY <1>1, <1>2, <1>5, <1>6, <1>7, <1>8, BrokerMove

\* A node that executes something, or is about to, is alive.
LEMMA BusyIsAlive ==
    ASSUME TypeInv, NEW n \in Nodes, NEW r \in Requests,
           \/ exec[n][r].stage # "none"
           \/ broker[n].queue # << >>
           \/ r \in broker[n].ready
           \/ leaving[n] # {}
    PROVE  nodePulse[n] # 0
<1>1. NoBroker.queue = << >> /\ NoBroker.ready = {}
  BY BrokerTypes
<1>2. nodePulse[n] = 0 => /\ broker[n] = NoBroker /\ leaving[n] = {}
                          /\ exec[n] = [s \in Requests |-> NotExecuting]
  BY DEF TypeInv, DeadIsQuiet
<1>3. nodePulse[n] = 0 => exec[n][r].stage = "none"
  BY <1>2 DEF NotExecuting
<1> QED BY <1>1, <1>2, <1>3, Zenon

\* A step of a goroutine that executes a request and goes on with it.
LEMMA StageMove ==
    ASSUME TypeInv, NEW n \in Nodes, NEW r \in Requests, exec[n][r].stage # "none",
           NEW e \in Executions, e.by = exec[n][r].by,
           exec' = [exec EXCEPT ![n][r] = e],
           UNCHANGED <<time, broker, leaving, calls, accepted, net, filament, reg>>,
           faults' \in 0 .. MaxFaults,
           closedAt' \in [Requests -> 0 .. pulse],
           \A s \in Requests : closedAt'[s] # 0 => s \in Registered
    PROVE  TypeInv'
<1>1. nodePulse[n] # 0
  BY BusyIsAlive
<1>2. /\ exec \in [Nodes -> [Requests -> Executions]] /\ broker \in [Nodes -> Brokers]
      /\ leaving \in [Nodes -> SUBSET (Requests \X Pulses \X BOOLEAN)]
  BY DEF TypeInv, NodeType
<1>3. exec' \in [Nodes -> [Requests -> Executions]]
  BY <1>2
<1>4. \A k \in Nodes \ {n} : exec'[k] = exec[k]
  BY <1>2
<1>5. exec'[n][r] = e /\ \A s \in Requests \ {r} : exec'[n][s] = exec[n][s]
  BY <1>2
<1>6. \A s \in Requests : exec'[n][s].stage # "none" =>
        exec'[n][s].by \in Pulses /\ s \in Registered
  BY <1>5 DEF TypeInv, HasBroker, KnownInv
<1>7. ToSet(broker'[n].queue) \cup broker'[n].ready \subseteq Registered
  BY DEF TypeInv, KnownInv
<1>8. net' \subseteq Messages /\ calls' \subseteq calls /\ accepted' \subseteq Registered
  BY DEF TypeInv, NetType, KnownInv
<1> QED BY <1>1, <1>2, <1>3, <1>4, <1>6, <1>7, <1>8, NodeMove

\* The version of an object is a number.
LEMMA VersionType == ASSUME NEW p PROVE Version(p) \in Nat
<1>1. Closed(p) \cap Mutable \subseteq Requests
  BY DEF Closed
<1>2. IsFiniteSet(Closed(p) \cap Mutable)
  BY <1>1, SetsAssumption, FS_Subset
<1> QED BY <1>2, FS_CardinalityType DEF Version

\* The steps of a goroutine that executes a request, up to its result.
LEMMA ExecutionType ==
    ASSUME TypeInv, NEW n \in Nodes, NEW r \in Requests,
           \/ ReadIndex(n, r) \/ GetObject(n, r) \/ ExecuteAndSave(n, r) \/ ExecutionFails(n, r)
    PROVE  TypeInv'
<1>e. exec[n][r] \in Executions
  BY DEF TypeInv, NodeType
<1>c. /\ closedAt \in [Requests -> 0 .. pulse]
      /\ \A s \in Requests : closedAt[s] # 0 => s \in Registered
  BY DEF TypeInv, LedgerType, KnownInv
<1>s. ASSUME NEW x \in Stages
      PROVE  /\ [exec[n][r] EXCEPT !.stage = x] \in Executions
             /\ [exec[n][r] EXCEPT !.stage = x].by = exec[n][r].by
  BY <1>e DEF Executions
<1>1. CASE ReadIndex(n, r)
  <2> DEFINE e == [exec[n][r] EXCEPT !.stage = "reading", !.seen = Version(nodePulse[n])]
  <2>1. exec' = [exec EXCEPT ![n][r] = e] /\ exec[n][r].stage # "none"
    BY <1>1 DEF ReadIndex
  <2>2. e \in Executions /\ e.by = exec[n][r].by
    BY <1>e, VersionType DEF Executions, Stages
  <2> HIDE DEF e
  <2> QED BY <1>1, <1>c, <2>1, <2>2, StageMove, PulseFacts DEF ReadIndex, ledger
<1>2. CASE GetObject(n, r)
  <2> DEFINE x == IF EnsureOldestRequest(nodePulse[n], r) THEN "running" ELSE "refused"
             e == [exec[n][r] EXCEPT !.stage = x]
  <2>1. exec' = [exec EXCEPT ![n][r] = e] /\ exec[n][r].stage # "none"
    BY <1>2 DEF GetObject
  <2>2. x \in Stages
    BY DEF Stages
  <2> HIDE DEF x
  <2>3. e \in Executions /\ e.by = exec[n][r].by
    BY <1>s, <2>2
  <2> HIDE DEF e
  <2> QED BY <1>2, <1>c, <2>1, <2>3, StageMove, PulseFacts DEF GetObject, ledger
<1>3. CASE ExecuteAndSave(n, r)
  <2> DEFINE e == [exec[n][r] EXCEPT !.stage = "done"]
  <2>1. exec' = [exec EXCEPT ![n][r] = e] /\ exec[n][r].stage = "running"
    BY <1>3 DEF ExecuteAndSave
  <2>2. e \in Executions /\ e.by = exec[n][r].by
    BY <1>s DEF Stages
  <2>3. r \in Registered
    BY <2>1 DEF TypeInv, KnownInv
  <2>4. closedAt' = closedAt \/ closedAt' = [closedAt EXCEPT ![r] = pulse]
    BY <1>3 DEF ExecuteAndSave, SetResult
  <2>5. /\ closedAt' \in [Requests -> 0 .. pulse]
        /\ \A s \in Requests : closedAt'[s] # 0 => s \in Registered
    BY <1>c, <2>3, <2>4, PulseFacts
  <2> HIDE DEF e
  <2> QED BY <1>3, <2>1, <2>2, <2>5, StageMove, PulseFacts DEF ExecuteAndSave, SetResult
<1>4. CASE ExecutionFails(n, r)
  <2> DEFINE e == [exec[n][r] EXCEPT !.stage = "done"]
  <2>1. exec' = [exec EXCEPT ![n][r] = e] /\ exec[n][r].stage = "running"
    BY <1>4 DEF ExecutionFails
  <2>2. e \in Executions /\ e.by = exec[n][r].by
    BY <1>s DEF Stages
  <2>3. faults' \in 0 .. MaxFaults
    BY <1>4, PulseFacts, BoundsAssumption DEF ExecutionFails, Fault
  <2> HIDE DEF e
  <2>4. /\ UNCHANGED <<time, broker, leaving, calls, accepted, net, filament, reg>>
        /\ closedAt' = closedAt
    BY <1>4 DEF ExecutionFails, ledger
  <2> QED BY <1>c, <2>1, <2>2, <2>3, <2>4, StageMove
<1> QED BY <1>1, <1>2, <1>3, <1>4

\* The begin of an execution.
LEMMA TakeType ==
    ASSUME TypeInv, NEW n \in Nodes, NEW r \in Requests, Take(n, r)
    PROVE  TypeInv'
<1>1. nodePulse[n] # 0
  BY BusyIsAlive DEF Take
<1>2. /\ exec \in [Nodes -> [Requests -> Executions]] /\ broker \in [Nodes -> Brokers]
      /\ broker[n] \in Brokers
      /\ leaving \in [Nodes -> SUBSET (Requests \X Pulses \X BOOLEAN)]
      /\ ToSet(broker[n].queue) \cup broker[n].ready \subseteq Registered
  BY DEF TypeInv, NodeType, KnownInv
<1>3. /\ broker[n].queue \in Seq(Mutable)
      /\ \A i \in 1 .. Len(broker[n].queue) : broker[n].queue[i] \in Registered
  <2>1. broker[n].queue \in Seq(Mutable)
    BY <1>2 DEF Brokers
  <2> QED BY <1>2, <2>1 DEF ToSet
<1>4. r \in Registered /\ \E b \in Brokers : /\ broker' = [broker EXCEPT ![n] = b]
                                             /\ ToSet(b.queue) \cup b.ready \subseteq Registered
  <2>1. CASE broker[n].queue # << >> /\ broker[n].queue[1] = r
             /\ broker' = [broker EXCEPT ![n].queue = Tail(@)]
    <3> DEFINE q == Tail(broker[n].queue)
               b == [broker[n] EXCEPT !.queue = q]
    <3>1. broker' = [broker EXCEPT ![n] = b]
      BY <2>1
    <3>2. /\ q \in Seq(Mutable) /\ Len(broker[n].queue) \in Nat \ {0}
          /\ \A i \in DOMAIN q : q[i] \in Registered
      <4>1. Len(broker[n].queue) \in Nat \ {0}
        BY <1>3, <2>1
      <4>2. q \in Seq(Mutable) /\ Len(q) = Len(broker[n].queue) - 1
        BY <1>3, <2>1
      <4>3. ASSUME NEW i \in DOMAIN q PROVE q[i] \in Registered
        <5>1. i \in 1 .. Len(broker[n].queue) - 1
          BY <4>2, <4>3
        <5>2. q[i] = broker[n].queue[i + 1] /\ i + 1 \in 1 .. Len(broker[n].queue)
          BY <1>3, <2>1, <4>1, <5>1
        <5> QED BY <1>3, <5>2
      <4> QED BY <4>1, <4>2, <4>3
    <3>3. ToSet(q) \subseteq Registered
      BY <3>2 DEF ToSet
    <3>4. r \in Registered
      BY <1>3, <2>1, <3>2
    <3> HIDE DEF q
    <3>5. b \in Brokers /\ b.queue = q /\ b.ready = broker[n].ready
      BY <1>2, <3>2 DEF Brokers
    <3> HIDE DEF b
    <3> QED BY <1>2, <3>1, <3>3, <3>4, <3>5
  <2>2. CASE r \in broker[n].ready /\ broker' = [broker EXCEPT ![n].ready = @ \ {r}]
    <3> DEFINE y == broker[n].ready \ {r}
               b == [broker[n] EXCEPT !.ready = y]
    <3>1. broker' = [broker EXCEPT ![n] = b]
      BY <2>2
    <3>2. y \in SUBSET Immutable /\ y \subseteq Registered
      BY <1>2 DEF Brokers
    <3> HIDE DEF y
    <3>3. b \in Brokers /\ b.queue = broker[n].queue /\ b.ready = y
      BY <1>2, <3>2 DEF Brokers
    <3> HIDE DEF b
    <3> QED BY <1>2, <2>2, <3>1, <3>2, <3>3
  <2> QED BY <2>1, <2>2 DEF Take
<1>5. PICK b \in Brokers : /\ broker' = [broker EXCEPT ![n] = b]
                           /\ ToSet(b.queue) \cup b.ready \subseteq Registered
  BY <1>4
<1>6. /\ broker' \in [Nodes -> Brokers] /\ broker'[n] = b
      /\ \A k \in Nodes \ {n} : broker'[k] = broker[k]
  BY <1>2, <1>5
<1> DEFINE e == [stage |-> "registered", by |-> nodePulse[n], seen |-> 0]
<1>7. e \in Executions /\ e.by \in Pulses
  BY <1>1, PulseFacts DEF Executions, Stages
<1>8. exec' = exec \/ exec' = [exec EXCEPT ![n][r] = e]
  BY DEF Take
<1> HIDE DEF e
<1>9. /\ exec' \in [Nodes -> [Requests -> Executions]]
      /\ \A k \in Nodes \ {n} : exec'[k] = exec[k]
      /\ \A s \in Requests : exec'[n][s] = exec[n][s] \/ (s = r /\ exec'[n][s] = e)
  <2>1. CASE exec' = exec
    BY <1>2, <2>1
  <2>2. CASE exec' = [exec EXCEPT ![n][r] = e]
    <3>1. exec' \in [Nodes -> [Requests -> Executions]]
      BY <1>2, <1>7, <2>2
    <3>2. \A k \in Nodes \ {n} : exec'[k] = exec[k]
      BY <1>2, <2>2
    <3>3. \A s \in Requests : exec'[n][s] = IF s = r THEN e ELSE exec[n][s]
      BY <1>2, <2>2
    <3> QED BY <3>1, <3>2, <3>3
  <2> QED BY <1>8, <2>1, <2>2
<1>10. \A s \in Requests : exec'[n][s].stage # "none" =>
         exec'[n][s].by \in Pulses /\ s \in Registered
  BY <1>4, <1>7, <1>9 DEF TypeInv, HasBroker, KnownInv
<1>11. /\ UNCHANGED <<time, filament, reg>> /\ faults' \in 0 .. MaxFaults /\ leaving' = leaving
       /\ closedAt' \in [Requests -> 0 .. pulse]
       /\ \A s \in Requests : closedAt'[s] # 0 => s \in Registered
  BY PulseFacts DEF Take, ledger, TypeInv, LedgerType, KnownInv
<1>12. net' \subseteq Messages /\ calls' \subseteq calls /\ accepted' \subseteq Registered
  BY DEF Take, TypeInv, NetType, KnownInv
<1> QED BY <1>1, <1>2, <1>5, <1>6, <1>9, <1>10, <1>11, <1>12, NodeMove

\* The end of an execution.
LEMMA FinishType ==
    ASSUME TypeInv, NEW n \in Nodes, NEW r \in Requests, FinishTranscript(n, r)
    PROVE  TypeInv'
<1>1. nodePulse[n] # 0
  BY BusyIsAlive DEF FinishTranscript
<1>2. /\ exec \in [Nodes -> [Requests -> Executions]] /\ broker \in [Nodes -> Brokers]
      /\ leaving \in [Nodes -> SUBSET (Requests \X Pulses \X BOOLEAN)]
      /\ broker[n] \in Brokers
      /\ ToSet(broker[n].queue) \cup broker[n].ready \subseteq Registered
  BY DEF TypeInv, NodeType, KnownInv
<1>3. exec[n][r].by \in Pulses
  BY DEF FinishTranscript, TypeInv, HasBroker
<1>4. /\ leaving' \in [Nodes -> SUBSET (Requests \X Pulses \X BOOLEAN)]
      /\ \A k \in Nodes \ {n} : leaving'[k] = leaving[k]
  <2> DEFINE left == <<r, exec[n][r].by, TRUE>>
  <2>1. left \in Requests \X Pulses \X BOOLEAN
    BY <1>3
  <2>2. leaving' = [leaving EXCEPT ![n] = @ \cup {left}]
    BY DEF FinishTranscript
  <2> HIDE DEF left
  <2> QED BY <1>2, <2>1, <2>2
<1>5. NotExecuting \in Executions /\ NotExecuting.stage = "none"
  BY PulseFacts DEF NotExecuting, Executions, Stages
<1>6. exec' = [exec EXCEPT ![n][r] = NotExecuting]
  BY DEF FinishTranscript
<1>7. /\ exec' \in [Nodes -> [Requests -> Executions]]
      /\ \A k \in Nodes \ {n} : exec'[k] = exec[k]
      /\ \A s \in Requests : exec'[n][s] = exec[n][s] \/ exec'[n][s] = NotExecuting
  BY <1>2, <1>5, <1>6
<1>8. \A s \in Requests : exec'[n][s].stage # "none" =>
         exec'[n][s].by \in Pulses /\ s \in Registered
  BY <1>5, <1>7 DEF TypeInv, HasBroker, KnownInv
<1> DEFINE b == [broker[n] EXCEPT !.finished = TRUE]
<1>9. broker' = broker \/ broker' = [broker EXCEPT ![n] = b]
  BY DEF FinishTranscript
<1>10. b \in Brokers /\ b.queue = broker[n].queue /\ b.ready = broker[n].ready
  BY <1>2 DEF Brokers
<1> HIDE DEF b
<1>11. /\ broker' \in [Nodes -> Brokers]
       /\ \A k \in Nodes \ {n} : broker'[k] = broker[k]
       /\ broker'[n] \in {broker[n], b}
  BY <1>2, <1>9, <1>10
<1>12. ToSet(broker'[n].queue) \cup broker'[n].ready \subseteq Registered
  BY <1>2, <1>10, <1>11
<1>13. /\ UNCHANGED <<time, filament, reg>> /\ faults' \in 0 .. MaxFaults
       /\ closedAt' \in [Requests -> 0 .. pulse]
       /\ \A s \in Requests : closedAt'[s] # 0 => s \in Registered
  BY PulseFacts DEF FinishTranscript, ledger, TypeInv, LedgerType, KnownInv
<1>14. net' \subseteq Messages /\ calls' \subseteq calls /\ accepted' \subseteq Registered
  BY DEF FinishTranscript, TypeInv, NetType, KnownInv
<1> QED BY <1>1, <1>4, <1>7, <1>8, <1>11, <1>12, <1>13, <1>14, NodeMove

\* finishPendingIfNeeded.
LEMMA FinishPendingType ==
    ASSUME TypeInv, NEW n \in Nodes, NEW r \in Requests, NEW by \in Pulses, NEW kept \in BOOLEAN,
           FinishPending(n, r, by, kept)
    PROVE  TypeInv'
<1>1. nodePulse[n] # 0
  BY BusyIsAlive DEF FinishPending
<1>2. nodePulse[n] \in 1 .. pulse
  BY <1>1, PulseFacts
<1>3. [kind |-> "PendingFinished", to |-> To(nodePulse[n]), pulse |-> nodePulse[n],
       from |-> n, by |-> by, req |-> r, tries |-> 1] \in Messages
  <2>1. To(nodePulse[n]) \in Nodes
    BY <1>2, PulseFacts DEF To
  <2> QED BY <1>2, <2>1 DEF Messages
<1>4. net' \subseteq Messages
  BY <1>3 DEF FinishPending, TypeInv, NetType
<1>5. /\ exec \in [Nodes -> [Requests -> Executions]] /\ broker \in [Nodes -> Brokers]
      /\ leaving \in [Nodes -> SUBSET (Requests \X Pulses \X BOOLEAN)]
      /\ ToSet(broker[n].queue) \cup broker[n].ready \subseteq Registered
  BY DEF TypeInv, NodeType, KnownInv
<1>6. exec' = exec /\ broker' = broker /\ leaving' = [leaving EXCEPT ![n] = @ \ {<<r, by, kept>>}]
  BY DEF FinishPending
<1>7. /\ leaving' \in [Nodes -> SUBSET (Requests \X Pulses \X BOOLEAN)]
      /\ \A k \in Nodes \ {n} : leaving'[k] = leaving[k]
  BY <1>5, <1>6
<1>8. \A s \in Requests : exec'[n][s].stage # "none" =>
         exec'[n][s].by \in Pulses /\ s \in Registered
  BY <1>6 DEF TypeInv, HasBroker, KnownInv
<1>9. /\ UNCHANGED <<time, filament, reg>> /\ faults' \in 0 .. MaxFaults
      /\ closedAt' \in [Requests -> 0 .. pulse]
      /\ \A s \in Requests : closedAt'[s] # 0 => s \in Registered
  BY PulseFacts DEF FinishPending, ledger, TypeInv, LedgerType, KnownInv
<1>10. calls' \subseteq calls /\ accepted' \subseteq Registered
  BY DEF FinishPending, TypeInv, KnownInv
<1> QED BY <1>1, <1>4, <1>5, <1>6, <1>7, <1>8, <1>9, <1>10, NodeMove

\* A new pulse: what was typed is typed.
LEMMA NewPulseType ==
    ASSUME TypeInv, NEW n \in Nodes, NewPulse(n)
    PROVE  TypeInv'
<1>1. /\ pulse' = pulse + 1 /\ nodePulse' = nodePulse /\ faults' = faults
      /\ broker' = broker /\ exec' = exec /\ leaving' = leaving /\ calls' = calls
      /\ accepted' = accepted /\ filament' = filament /\ reg' = reg /\ closedAt' = closedAt
  BY DEF NewPulse, ledger
<1>2. pulse' \in Pulses /\ 1 .. pulse \subseteq 1 .. pulse' /\ 0 .. pulse \subseteq 0 .. pulse'
  BY <1>1, PulseFacts DEF NewPulse, Pulses
<1>3. executor' \in [1 .. pulse' -> Nodes]
  <2>1. executor \in [1 .. pulse -> Nodes] /\ pulse \in Nat
    BY PulseFacts DEF TypeInv, TimeType
  <2>2. executor \in Seq(Nodes) /\ Len(executor) = pulse
    <3>1. executor \in Seq(Nodes)
      BY <2>1
    <3>2. DOMAIN executor = 1 .. pulse
      BY <2>1
    <3> QED BY <2>1, <3>1, <3>2
  <2>3. executor' = Append(executor, n)
    BY DEF NewPulse
  <2>4. executor' \in Seq(Nodes) /\ Len(executor') = pulse + 1
    BY <2>2, <2>3
  <2> QED BY <1>1, <2>4
<1>4. TimeType'
  BY <1>1, <1>2, <1>3 DEF TypeInv, TimeType
<1>5. LedgerType'
  BY <1>1, <1>2 DEF TypeInv, LedgerType
<1>6. Executions \subseteq Executions' /\ Calls \subseteq Calls'
  BY <1>1, <1>2 DEF Executions, Calls
<1>7. Messages \subseteq Messages'
  <2> SUFFICES ASSUME NEW m \in Messages PROVE m \in Messages'
    OBVIOUS
  <2>1. CASE m \in [kind : {"CallMethod"}, to : Nodes, pulse : 1 .. pulse, req : Requests, tries : Nat]
    BY <1>2, <2>1 DEF Messages
  <2>2. CASE m \in [kind : {"AdditionalCall"}, to : Nodes, pulse : 1 .. pulse, from : Nodes,
                    req : Requests, tries : Nat]
    BY <1>2, <2>2 DEF Messages
  <2>3. CASE m \in [kind : {"PendingFinished"}, to : Nodes, pulse : 1 .. pulse, from : Nodes,
                    by : Pulses, req : Requests, tries : Nat]
    BY <1>2, <2>3 DEF Messages
  <2>4. CASE m \in [kind : {"ExecutorResults"}, to : Nodes, pulse : 1 .. pulse, from : Nodes,
                    pending : PendingState, more : BOOLEAN]
    BY <1>2, <2>4 DEF Messages
  <2>5. CASE m \in [kind : {"StillExecuting"}, to : Nodes, pulse : 1 .. pulse, from : Nodes]
    BY <1>2, <2>5 DEF Messages
  <2>6. CASE m \in [kind : {"AbandonedRequests"}, to : Nodes, pulse : 1 .. pulse]
    BY <1>2, <2>6 DEF Messages
  <2> QED BY <2>1, <2>2, <2>3, <2>4, <2>5, <2>6 DEF Messages
<1>8. NodeType'
  BY <1>1, <1>6 DEF TypeInv, NodeType
<1>9. NetType'
  <2>1. pulse + 1 \in 1 .. pulse'
    BY <1>1, PulseFacts
  <2>2. [kind |-> "AbandonedRequests", to |-> n, pulse |-> pulse + 1] \in Messages'
    BY <2>1 DEF Messages
  <2>3. AbandonedRequests(pulse + 1, n) \subseteq Messages'
    BY <2>2 DEF AbandonedRequests
  <2>4. net' = net \cup AbandonedRequests(pulse + 1, n)
    BY DEF NewPulse
  <2> QED BY <1>1, <1>6, <1>7, <2>3, <2>4 DEF TypeInv, NetType
<1>10. DeadIsQuiet' /\ HasBroker'
  BY <1>1 DEF TypeInv, DeadIsQuiet, HasBroker
<1>11. KnownInv'
  <2>1. Registered' = Registered
    BY <1>1 DEF Registered
  <2> QED BY <1>1, <2>1 DEF TypeInv, KnownInv
<1> QED BY <1>4, <1>5, <1>8, <1>9, <1>10, <1>11 DEF TypeInv

\* A step in which a node begins anew: with a new pulse, or because it died.
LEMMA NodeReset ==
    ASSUME TypeInv, NEW n \in Nodes, NEW p \in 0 .. pulse,
           nodePulse' = [nodePulse EXCEPT ![n] = p],
           broker' = [broker EXCEPT ![n] = NoBroker],
           \/ /\ exec' = exec /\ p # 0
              /\ leaving' \in [Nodes -> SUBSET (Requests \X Pulses \X BOOLEAN)]
              /\ \A k \in Nodes \ {n} : leaving'[k] = leaving[k]
           \/ /\ exec' = [exec EXCEPT ![n] = [r \in Requests |-> NotExecuting]]
              /\ leaving' = [leaving EXCEPT ![n] = {}],
           UNCHANGED <<pulse, executor, ledger>>, faults' \in 0 .. MaxFaults,
           net' \subseteq Messages, calls' \subseteq calls, accepted' \subseteq Registered
    PROVE  TypeInv'
<1> DEFINE none == [r \in Requests |-> NotExecuting]
<1>1. filament' = filament /\ reg' = reg /\ closedAt' = closedAt /\ pulse' = pulse
  BY DEF ledger
<1>2. Executions' = Executions /\ Messages' = Messages /\ Calls' = Calls /\ Registered' = Registered
  BY <1>1 DEF Executions, Messages, Calls, Registered
<1>t. /\ exec \in [Nodes -> [Requests -> Executions]] /\ broker \in [Nodes -> Brokers]
      /\ leaving \in [Nodes -> SUBSET (Requests \X Pulses \X BOOLEAN)] /\ nodePulse \in [Nodes -> 0 .. pulse]
  BY DEF TypeInv, NodeType, TimeType
<1>3. none \in [Requests -> Executions] /\ \A r \in Requests : none[r].stage = "none"
  BY PulseFacts DEF NotExecuting, Executions, Stages
<1> HIDE DEF none
<1>4. /\ \A k \in Nodes \ {n} : /\ nodePulse'[k] = nodePulse[k] /\ broker'[k] = broker[k]
                                /\ exec'[k] = exec[k] /\ leaving'[k] = leaving[k]
      /\ nodePulse'[n] = p /\ broker'[n] = NoBroker
      /\ exec'[n] = exec[n] \/ exec'[n] = none
      /\ p = 0 => exec'[n] = none /\ leaving'[n] = {}
  BY <1>t DEF none
<1>5. TimeType' /\ LedgerType'
  BY <1>1, <1>t DEF TypeInv, TimeType, LedgerType
<1>6. NodeType'
  BY <1>2, <1>3, <1>t, BrokerTypes DEF NodeType, none
<1>7. NetType'
  BY <1>2 DEF TypeInv, NetType
<1>8. DeadIsQuiet'
  BY <1>4 DEF TypeInv, DeadIsQuiet, none
<1>9. HasBroker' /\ \A k \in Nodes, r \in Requests : exec'[k][r].stage # "none" => r \in Registered
  BY <1>3, <1>4 DEF TypeInv, HasBroker, KnownInv
<1>10. \A k \in Nodes : ToSet(broker'[k].queue) \cup broker'[k].ready \subseteq Registered
  BY <1>4, BrokerTypes DEF TypeInv, KnownInv
<1>11. KnownInv'
  BY <1>1, <1>2, <1>9, <1>10 DEF TypeInv, KnownInv
<1> QED BY <1>5, <1>6, <1>7, <1>8, <1>9, <1>11 DEF TypeInv

\* A node changes to the newest pulse.
LEMMA OnPulseType ==
    ASSUME TypeInv, NEW n \in Nodes, OnPulse(n)
    PROVE  TypeInv'
<1>1. To(pulse) \in Nodes /\ pulse \in 1 .. pulse /\ pulse \in 0 .. pulse /\ pulse # 0
  BY PulseFacts DEF To
<1>2. ExecutorResults(n) \subseteq Messages
  <2> DEFINE b == broker[n]
             dead == ~IsActive(n) /\ b.pending = "InPending" /\ ~b.confirmed
             more == dead \/ b.hasMore # "LedgerIsEmpty"
             pending == IF IsActive(n) THEN "InPending" ELSE IF dead THEN "NotPending" ELSE b.pending
             m == [kind |-> "ExecutorResults", to |-> To(pulse), pulse |-> pulse, from |-> n,
                   pending |-> pending, more |-> more]
  <2>1. b.pending \in PendingState /\ b.confirmed \in BOOLEAN
    BY DEF TypeInv, NodeType, Brokers
  <2>2. pending \in PendingState
    BY <2>1 DEF PendingState
  <2>3. more \in BOOLEAN
    BY Zenon
  <2>4. ExecutorResults(n) \subseteq {m}
    BY Zenon DEF ExecutorResults
  <2> HIDE DEF pending, more
  <2>5. m \in Messages
    BY <1>1, <2>2, <2>3 DEF Messages
  <2> QED BY <2>4, <2>5
<1>3. StillExecuting(n) \subseteq Messages
  BY <1>1 DEF StillExecuting, Messages
<1>4. net' \subseteq Messages
  BY <1>2, <1>3 DEF OnPulse, TypeInv, NetType
<1>5. /\ leaving' \in [Nodes -> SUBSET (Requests \X Pulses \X BOOLEAN)]
      /\ \A k \in Nodes \ {n} : leaving'[k] = leaving[k]
  <2> DEFINE dropped == {<<l[1], l[2], FALSE>> : l \in leaving[n]}
  <2>1. leaving \in [Nodes -> SUBSET (Requests \X Pulses \X BOOLEAN)]
    BY DEF TypeInv, NodeType
  <2>2. dropped \in SUBSET (Requests \X Pulses \X BOOLEAN)
    <3> SUFFICES ASSUME NEW l \in leaving[n]
                 PROVE  <<l[1], l[2], FALSE>> \in Requests \X Pulses \X BOOLEAN
      OBVIOUS
    <3>1. l \in Requests \X Pulses \X BOOLEAN
      BY <2>1
    <3> QED BY <3>1
  <2>3. leaving' = leaving \/ leaving' = [leaving EXCEPT ![n] = dropped]
    BY DEF OnPulse, DropRegistry
  <2> HIDE DEF dropped
  <2> QED BY <2>1, <2>2, <2>3
<1> QED BY <1>1, <1>4, <1>5, PulseFacts, NodeReset DEF OnPulse

\* A node dies.
LEMMA CrashType ==
    ASSUME TypeInv, NEW n \in Nodes, Crash(n)
    PROVE  TypeInv'
<1>1. 0 \in 0 .. pulse
  BY PulseFacts
<1>2. faults' \in 0 .. MaxFaults
  BY PulseFacts, BoundsAssumption DEF Crash, Fault
<1>3. net' \subseteq Messages /\ calls' \subseteq calls /\ accepted' \subseteq Registered
  BY DEF Crash, TypeInv, NetType, KnownInv
<1> QED BY <1>1, <1>2, <1>3, NodeReset DEF Crash

\* Every step keeps the types.
LEMMA NextType == TypeInv /\ [Next]_vars => TypeInv'
<1> SUFFICES ASSUME TypeInv, [Next]_vars PROVE TypeInv'
  OBVIOUS
<1>1. CASE UNCHANGED vars
  <2>1. net' = net /\ calls' = calls /\ accepted' = accepted /\ faults' = faults
        /\ UNCHANGED <<time, broker, exec, leaving, ledger>>
    BY <1>1 DEF vars
  <2>2. net' \subseteq Messages /\ calls' \subseteq calls
    BY <2>1 DEF TypeInv, NetType
  <2> QED BY <2>1, <2>2, NetMove, PulseFacts
<1>2. ASSUME NEW r \in Requests, SendCall(r) PROVE TypeInv'
  BY <1>2, CallType
<1>3. ASSUME NEW m \in net, Deliver(m) \/ Lose(m) PROVE TypeInv'
  BY <1>3, RegisterType, MessageType, LateType DEF Deliver
<1>4. ASSUME NEW h \in calls, Handle(h) PROVE TypeInv'
  BY <1>4, HandleType
<1>5. ASSUME NEW n \in Nodes, Process(n) PROVE TypeInv'
  BY <1>5, ProcessType
<1>6. ASSUME NEW n \in Nodes, NEW r \in Requests, Transcript(n, r) \/ ExecutionFails(n, r)
      PROVE  TypeInv'
  BY <1>6, TakeType, ExecutionType, FinishType, FinishPendingType DEF Transcript
<1>7. ASSUME NEW n \in Nodes, AskLedgerFails(n) \/ NewPulse(n) \/ OnPulse(n) \/ Crash(n)
      PROVE  TypeInv'
  BY <1>7, AskFailsType, NewPulseType, OnPulseType, CrashType
<1> QED BY <1>1, <1>2, <1>3, <1>4, <1>5, <1>6, <1>7 DEF Next

\* The types hold in every reachable state, for every set of nodes and every
\* finite set of requests, with any number of crashes and lost messages.
THEOREM HandoffTypeCorrect == Spec => []TypeOK
<1>1. Spec => []TypeInv
  BY InitType, NextType, PTL DEF Spec
<1> QED BY <1>1, TypeInvIsType, PTL

-----------------------------------------------------------------------------
(* One update at a time.                                                   *)

\* The filament holds registered requests, each of them once, in the order of
\* the pulses in which they were registered.
FilamentInv ==
    /\ \A i \in 1 .. Len(filament) : filament[i] \in Registered
    /\ \A i, k \in 1 .. Len(filament) :
          i < k => filament[i] # filament[k] /\ reg[filament[i]] <= reg[filament[k]]

\* The mutable requests get their results in the order in which they were
\* registered, whoever executed them: SetResult refuses all others.
ResultsInOrder ==
    \A i, k \in 1 .. Len(filament) :
        /\ i < k
        /\ filament[i] \in Mutable /\ filament[k] \in Mutable
        /\ closedAt[filament[k]] # 0
        => closedAt[filament[i]] # 0

UpdateInv == FilamentInv /\ OneUpdateAtATime /\ ResultsInOrder

\* In the newest pulse, a request is open if it is registered and has no
\* result: the ledger knows of nothing later.
LEMMA OpenNow == TypeInv => OpenedRequests(pulse) = {r \in Registered : closedAt[r] = 0}
<1> SUFFICES ASSUME TypeInv PROVE OpenedRequests(pulse) = {r \in Registered : closedAt[r] = 0}
  OBVIOUS
<1>1. \A r \in Requests : /\ reg[r] \in 0 .. pulse /\ closedAt[r] \in 0 .. pulse
                          /\ reg[r] \in 1 .. pulse <=> reg[r] # 0
                          /\ closedAt[r] \in 1 .. pulse <=> closedAt[r] # 0
  BY PulseFacts DEF TypeInv, LedgerType
<1> QED BY <1>1 DEF OpenedRequests, Closed, Registered

\* And so it is after a step.
LEMMA OpenThen == TypeInv' => (OpenedRequests(pulse) = {r \in Registered : closedAt[r] = 0})'
BY OpenNow, PTL

\* What is the oldest for a node that is behind is the oldest: a request
\* before it was registered no later, hence in a pulse that the node knows,
\* and a result that the node's pulse knows is there for good.
LEMMA OldestThenIsOldestNow ==
    ASSUME TypeInv, FilamentInv, NEW p \in 0 .. pulse, NEW r \in Requests,
           OldestMutable(p, r), closedAt[r] = 0
    PROVE  OldestMutable(pulse, r)
<1>1. PICK i \in 1 .. Len(filament) :
        /\ filament[i] = r
        /\ \A k \in 1 .. i - 1 : filament[k] \notin Mutable \cap OpenedRequests(p)
  BY DEF OldestMutable
<1>2. r \in Mutable /\ reg[r] \in 1 .. p
  BY DEF OldestMutable, OpenedRequests
<1>3. r \in OpenedRequests(pulse)
  BY <1>2, OpenNow, PulseFacts DEF Registered
<1>4. ASSUME NEW k \in 1 .. i - 1 PROVE filament[k] \notin Mutable \cap OpenedRequests(pulse)
  <2> SUFFICES ASSUME filament[k] \in Mutable \cap OpenedRequests(pulse) PROVE FALSE
    OBVIOUS
  <2>1. Len(filament) \in Nat /\ i \in 1 .. Len(filament) /\ k \in 1 .. Len(filament) /\ k < i
    BY DEF TypeInv, LedgerType
  <2>2. filament[k] \in Registered /\ closedAt[filament[k]] = 0
    BY OpenNow
  <2>3. reg[filament[k]] <= reg[r]
    BY <1>1, <2>1 DEF FilamentInv
  <2>4. reg[filament[k]] \in 1 .. p
    <3>1. reg[filament[k]] \in 0 .. pulse /\ reg[filament[k]] # 0
      BY <2>2 DEF Registered, TypeInv, LedgerType
    <3> QED BY <1>2, <2>3, <3>1, PulseFacts
  <2>5. filament[k] \in OpenedRequests(p)
    BY <2>2, <2>4 DEF OpenedRequests, Closed, Registered
  <2> QED BY <1>1, <2>5
<1> QED BY <1>1, <1>2, <1>3, <1>4 DEF OldestMutable

\* The oldest request stays the oldest while the filament only grows at its
\* end, and no open request appears before it.
LEMMA OldestStays ==
    ASSUME NEW r, OldestMutable(pulse, r), r \in OpenedRequests(pulse)',
           Len(filament) \in Nat, Len(filament') \in Nat, Len(filament) <= Len(filament'),
           \A i \in 1 .. Len(filament) :
               /\ filament'[i] = filament[i]
               /\ filament[i] \in OpenedRequests(pulse)' => filament[i] \in OpenedRequests(pulse)
    PROVE  OldestMutable(pulse, r)'
<1>1. PICK i \in 1 .. Len(filament) :
        /\ filament[i] = r
        /\ \A k \in 1 .. i - 1 : filament[k] \notin Mutable \cap OpenedRequests(pulse)
  BY DEF OldestMutable
<1>2. r \in Mutable
  BY DEF OldestMutable
<1>3. i \in 1 .. Len(filament') /\ filament'[i] = r
  BY <1>1
<1>4. \A k \in 1 .. i - 1 : filament'[k] \notin Mutable \cap OpenedRequests(pulse)'
  <2>1. \A k \in 1 .. i - 1 : k \in 1 .. Len(filament)
    OBVIOUS
  <2> QED BY <1>1, <2>1
<1> QED BY <1>2, <1>3, <1>4 DEF OldestMutable

\* A step that leaves the ledger alone and lets nobody begin to run.
LEMMA NobodyBegins ==
    ASSUME UpdateInv, pulse' = pulse, UNCHANGED ledger,
           \A n \in Nodes, r \in Requests :
               exec'[n][r].stage = "running" => exec[n][r].stage = "running"
    PROVE  UpdateInv'
<1>1. filament' = filament /\ reg' = reg /\ closedAt' = closedAt
  BY DEF ledger
<1>2. FilamentInv'
  BY <1>1 DEF UpdateInv, FilamentInv, Registered
<1>3. ASSUME NEW r PROVE OldestMutable(pulse, r)' = OldestMutable(pulse, r)
  BY <1>1 DEF OldestMutable, OpenedRequests, Closed
<1>4. OneUpdateAtATime'
  BY <1>1, <1>3 DEF UpdateInv, OneUpdateAtATime, Mutable
<1>5. ResultsInOrder'
  BY <1>1 DEF UpdateInv, ResultsInOrder
<1> QED BY <1>2, <1>4, <1>5 DEF UpdateInv

\* The ledger registers a request.
LEMMA RegisterUpdate ==
    ASSUME TypeInv, UpdateInv, NEW m \in net, RegisterIncomingRequest(m)
    PROVE  UpdateInv'
<1>m. m.kind = "CallMethod" /\ m.req \in Requests
  BY MessageFacts DEF RegisterIncomingRequest, Arrives
<1>1. /\ pulse' = pulse /\ exec' = exec /\ closedAt' = closedAt
      /\ filament' = IF reg[m.req] = 0 THEN Append(filament, m.req) ELSE filament
      /\ reg' = IF reg[m.req] = 0 THEN [reg EXCEPT ![m.req] = pulse] ELSE reg
  BY DEF RegisterIncomingRequest, SetRequest, time
<1>2. filament \in Seq(Requests) /\ reg \in [Requests -> 0 .. pulse] /\ Len(filament) \in Nat
  BY DEF TypeInv, LedgerType
<1>t. TypeInv'
  BY RegisterType
<1>3. CASE reg[m.req] # 0
  <2>1. UNCHANGED ledger
    BY <1>1, <1>3 DEF ledger
  <2> QED BY <1>1, <2>1, NobodyBegins
<1>4. CASE reg[m.req] = 0
  <2>1. /\ Len(filament') = Len(filament) + 1 /\ filament'[Len(filament) + 1] = m.req
        /\ \A i \in 1 .. Len(filament) : filament'[i] = filament[i]
    BY <1>m, <1>1, <1>2, <1>4
  <2>2. reg'[m.req] = pulse /\ \A r \in Requests \ {m.req} : reg'[r] = reg[r]
    BY <1>m, <1>1, <1>2, <1>4
  <2>3. Registered' = Registered \cup {m.req} /\ m.req \notin Registered
    BY <1>m, <1>4, <2>2, PulseFacts DEF Registered
  <2>4. \A i \in 1 .. Len(filament) : /\ filament[i] \in Registered /\ filament[i] # m.req
                                      /\ filament[i] \in Requests
                                      /\ reg'[filament[i]] = reg[filament[i]]
    BY <2>2, <2>3 DEF UpdateInv, FilamentInv, Registered
  <2>5. \A i \in 1 .. Len(filament') : i \in 1 .. Len(filament) \/ i = Len(filament) + 1
    BY <1>2, <2>1
  <2>6. FilamentInv'
    <3>1. \A i \in 1 .. Len(filament') : filament'[i] \in Registered'
      BY <2>1, <2>3, <2>4, <2>5
    <3>2. ASSUME NEW i \in 1 .. Len(filament'), NEW k \in 1 .. Len(filament'), i < k
          PROVE  filament'[i] # filament'[k] /\ reg'[filament'[i]] <= reg'[filament'[k]]
      <4>1. i \in 1 .. Len(filament)
        BY <1>2, <2>1, <3>2
      <4>2. reg'[filament'[i]] = reg[filament[i]] /\ reg[filament[i]] \in 0 .. pulse
        BY <1>2, <2>1, <2>4, <4>1
      <4>3. CASE k = Len(filament) + 1
        BY <2>1, <2>2, <2>4, <4>1, <4>2, <4>3, PulseFacts
      <4>4. CASE k \in 1 .. Len(filament)
        <5>1. reg'[filament'[k]] = reg[filament[k]]
          BY <2>1, <2>4, <4>4
        <5> QED BY <2>1, <3>2, <4>1, <4>2, <4>4, <5>1 DEF UpdateInv, FilamentInv
      <4> QED BY <2>5, <4>3, <4>4
    <3> QED BY <3>1, <3>2 DEF FilamentInv
  <2>7. /\ OpenedRequests(pulse) = {r \in Registered : closedAt[r] = 0}
        /\ OpenedRequests(pulse)' = {r \in Registered' : closedAt[r] = 0}
    <3>1. OpenedRequests(pulse)' = {r \in Registered' : closedAt'[r] = 0}
      BY <1>t, OpenThen
    <3> QED BY <1>1, <3>1, OpenNow
  <2>8. OneUpdateAtATime'
    <3> SUFFICES ASSUME NEW n \in Nodes, NEW r \in Mutable,
                        exec'[n][r].stage = "running", closedAt'[r] = 0
                 PROVE  OldestMutable(pulse, r)'
      BY DEF OneUpdateAtATime
    <3>1. OldestMutable(pulse, r)
      BY <1>1 DEF UpdateInv, OneUpdateAtATime
    <3>2. r \in OpenedRequests(pulse)'
      BY <2>3, <2>7, <3>1 DEF OldestMutable
    <3>3. \A i \in 1 .. Len(filament) :
            filament[i] \in OpenedRequests(pulse)' => filament[i] \in OpenedRequests(pulse)
      BY <2>4, <2>7
    <3> QED BY <1>2, <2>1, <3>1, <3>2, <3>3, OldestStays
  <2>9. ResultsInOrder'
    <3> SUFFICES ASSUME NEW i \in 1 .. Len(filament'), NEW k \in 1 .. Len(filament'), i < k,
                        filament'[i] \in Mutable, filament'[k] \in Mutable,
                        closedAt'[filament'[k]] # 0
                 PROVE  closedAt'[filament'[i]] # 0
      BY DEF ResultsInOrder
    <3>1. i \in 1 .. Len(filament)
      BY <1>2, <2>1
    <3>2. closedAt[m.req] = 0
      BY <1>m, <2>3 DEF TypeInv, KnownInv
    <3>3. k \in 1 .. Len(filament)
      BY <1>1, <2>1, <2>5, <3>2
    <3> QED BY <1>1, <2>1, <3>1, <3>3 DEF UpdateInv, ResultsInOrder
  <2> QED BY <2>6, <2>8, <2>9 DEF UpdateInv
<1> QED BY <1>3, <1>4

\* The ledger accepts a result, or does not.
LEMMA SaveUpdate ==
    ASSUME TypeInv, UpdateInv, NEW n \in Nodes, NEW r \in Requests, ExecuteAndSave(n, r)
    PROVE  UpdateInv'
<1>1. pulse' = pulse /\ filament' = filament /\ reg' = reg
  BY DEF ExecuteAndSave, SetResult, time
<1>2. /\ filament \in Seq(Requests) /\ Len(filament) \in Nat
      /\ closedAt \in [Requests -> 0 .. pulse] /\ exec \in [Nodes -> [Requests -> Executions]]
  BY DEF TypeInv, LedgerType, NodeType
<1>3. FilamentInv'
  BY <1>1 DEF UpdateInv, FilamentInv, Registered
<1>4. closedAt' = closedAt \/ closedAt' = [closedAt EXCEPT ![r] = pulse]
  BY DEF ExecuteAndSave, SetResult
<1>5. \A s \in Requests : closedAt'[s] = 0 => closedAt[s] = 0
  BY <1>2, <1>4, PulseFacts
<1>6. \A k \in Nodes, s \in Requests :
        exec'[k][s].stage = "running" => exec[k][s].stage = "running"
  <2>1. exec' = [exec EXCEPT ![n][r].stage = "done"] /\ exec[n][r].stage = "running"
    BY DEF ExecuteAndSave
  <2> QED BY <1>2, <2>1 DEF Executions
<1>7. /\ OpenedRequests(pulse) = {s \in Registered : closedAt[s] = 0}
      /\ OpenedRequests(pulse)' = {s \in Registered : closedAt'[s] = 0}
  <2>1. TypeInv'
    BY ExecutionType
  <2>2. OpenedRequests(pulse)' = {s \in Registered' : closedAt'[s] = 0}
    BY <2>1, OpenThen
  <2>3. Registered' = Registered
    BY <1>1 DEF Registered
  <2> QED BY <2>1, <2>2, <2>3, OpenNow
<1>8. OneUpdateAtATime'
  <2> SUFFICES ASSUME NEW k \in Nodes, NEW s \in Mutable,
                      exec'[k][s].stage = "running", closedAt'[s] = 0
               PROVE  OldestMutable(pulse, s)'
    BY DEF OneUpdateAtATime
  <2>1. OldestMutable(pulse, s)
    BY <1>5, <1>6 DEF UpdateInv, OneUpdateAtATime, Mutable
  <2>2. s \in OpenedRequests(pulse)'
    BY <1>7, <2>1 DEF OldestMutable
  <2>3. OpenedRequests(pulse)' \subseteq OpenedRequests(pulse)
    BY <1>5, <1>7 DEF Registered
  <2> QED BY <1>1, <1>2, <2>1, <2>2, <2>3, OldestStays
<1>9. ResultsInOrder'
  <2> SUFFICES ASSUME NEW i \in 1 .. Len(filament), NEW k \in 1 .. Len(filament), i < k,
                      filament[i] \in Mutable, filament[k] \in Mutable,
                      closedAt'[filament[k]] # 0
               PROVE  closedAt'[filament[i]] # 0
    BY <1>1 DEF ResultsInOrder
  <2>1. filament[i] \in Requests /\ filament[k] \in Requests
    BY <1>2
  <2>2. CASE closedAt[filament[k]] # 0
    BY <1>5, <2>1, <2>2 DEF UpdateInv, ResultsInOrder
  <2>3. CASE closedAt[filament[k]] = 0
    <3>1. filament[k] = r /\ OldestMutable(pulse, r)
      BY <1>2, <2>1, <2>3 DEF ExecuteAndSave, SetResult, Mutable
    <3>2. PICK o \in 1 .. Len(filament) :
            /\ filament[o] = r
            /\ \A j \in 1 .. o - 1 : filament[j] \notin Mutable \cap OpenedRequests(pulse)
      BY <3>1 DEF OldestMutable
    <3>3. o = k
      <4>1. ~(o < k) /\ ~(k < o)
        BY <3>1, <3>2 DEF UpdateInv, FilamentInv
      <4> QED BY <1>2, <4>1
    <3>4. filament[i] \notin OpenedRequests(pulse)
      BY <1>2, <3>2, <3>3
    <3>5. filament[i] \in Registered
      BY DEF UpdateInv, FilamentInv
    <3> QED BY <1>5, <1>7, <2>1, <3>4, <3>5
  <2> QED BY <2>2, <2>3
<1> QED BY <1>3, <1>8, <1>9 DEF UpdateInv

\* A goroutine learns that its request is the oldest, or gives it up.
LEMMA GetObjectUpdate ==
    ASSUME TypeInv, UpdateInv, NEW n \in Nodes, NEW r \in Requests, GetObject(n, r)
    PROVE  UpdateInv'
<1>1. pulse' = pulse /\ filament' = filament /\ reg' = reg /\ closedAt' = closedAt
  BY DEF GetObject, time, ledger
<1>2. FilamentInv'
  BY <1>1 DEF UpdateInv, FilamentInv, Registered
<1>3. exec \in [Nodes -> [Requests -> Executions]]
  BY DEF TypeInv, NodeType
<1>4. exec' = [exec EXCEPT ![n][r].stage = IF EnsureOldestRequest(nodePulse[n], r)
                                             THEN "running" ELSE "refused"]
  BY DEF GetObject
<1>5. \A k \in Nodes, s \in Requests :
        exec'[k][s].stage = "running" =>
            \/ exec[k][s].stage = "running"
            \/ k = n /\ s = r /\ EnsureOldestRequest(nodePulse[n], r)
  <2> DEFINE x == IF EnsureOldestRequest(nodePulse[n], r) THEN "running" ELSE "refused"
  <2>1. x = "running" => EnsureOldestRequest(nodePulse[n], r)
    OBVIOUS
  <2>2. exec' = [exec EXCEPT ![n][r].stage = x]
    BY <1>4
  <2> HIDE DEF x
  <2>3. \A k \in Nodes, s \in Requests :
          exec'[k][s] = IF k = n /\ s = r THEN [exec[n][r] EXCEPT !.stage = x] ELSE exec[k][s]
    BY <1>3, <2>2
  <2>4. [exec[n][r] EXCEPT !.stage = x].stage = x
    BY <1>3 DEF Executions
  <2> QED BY <2>1, <2>3, <2>4
<1>6. ASSUME NEW s PROVE OldestMutable(pulse, s)' = OldestMutable(pulse, s)
  BY <1>1 DEF OldestMutable, OpenedRequests, Closed
<1>7. OneUpdateAtATime'
  <2> SUFFICES ASSUME NEW k \in Nodes, NEW s \in Mutable,
                      exec'[k][s].stage = "running", closedAt'[s] = 0
               PROVE  OldestMutable(pulse, s)
    BY <1>6 DEF OneUpdateAtATime
  <2>1. CASE exec[k][s].stage = "running"
    BY <1>1, <2>1 DEF UpdateInv, OneUpdateAtATime
  <2>2. CASE s = r /\ EnsureOldestRequest(nodePulse[n], r)
    <3>1. closedAt[r] = 0 /\ nodePulse[n] \in 0 .. pulse
      BY <1>1, <2>2, PulseFacts
    <3>2. r \notin Closed(nodePulse[n])
      BY <3>1 DEF Closed
    <3>3. OldestMutable(nodePulse[n], r)
      BY <2>2, <3>2 DEF EnsureOldestRequest
    <3> QED BY <2>2, <3>1, <3>3, OldestThenIsOldestNow DEF UpdateInv
  <2> QED BY <1>5, <2>1, <2>2 DEF Mutable
<1>8. ResultsInOrder'
  BY <1>1 DEF UpdateInv, ResultsInOrder
<1> QED BY <1>2, <1>7, <1>8 DEF UpdateInv

\* A new pulse closes nothing and opens nothing.
LEMMA NewPulseUpdate ==
    ASSUME TypeInv, UpdateInv, NEW n \in Nodes, NewPulse(n)
    PROVE  UpdateInv'
<1>1. pulse' = pulse + 1 /\ exec' = exec /\ filament' = filament /\ reg' = reg /\ closedAt' = closedAt
  BY DEF NewPulse, ledger
<1>2. FilamentInv'
  BY <1>1 DEF UpdateInv, FilamentInv, Registered
<1>3. OpenedRequests(pulse)' = OpenedRequests(pulse)
  <2>1. TypeInv'
    BY NewPulseType
  <2>2. OpenedRequests(pulse)' = {s \in Registered' : closedAt'[s] = 0}
    BY <2>1, OpenThen
  <2>3. Registered' = Registered
    BY <1>1 DEF Registered
  <2> QED BY <1>1, <2>1, <2>2, <2>3, OpenNow
<1>4. Len(filament) \in Nat
  BY DEF TypeInv, LedgerType
<1>5. ASSUME NEW r, OldestMutable(pulse, r) PROVE OldestMutable(pulse, r)'
  <2>1. r \in OpenedRequests(pulse)'
    BY <1>3, <1>5 DEF OldestMutable
  <2> QED BY <1>1, <1>3, <1>4, <1>5, <2>1, OldestStays
<1>6. OneUpdateAtATime'
  BY <1>1, <1>5 DEF UpdateInv, OneUpdateAtATime
<1>7. ResultsInOrder'
  BY <1>1 DEF UpdateInv, ResultsInOrder
<1> QED BY <1>2, <1>6, <1>7 DEF UpdateInv

\* The other steps of a goroutine that executes a request.
LEMMA TranscriptUpdate ==
    ASSUME TypeInv, UpdateInv, NEW n \in Nodes, NEW r \in Requests,
           \/ Take(n, r) \/ ReadIndex(n, r) \/ FinishTranscript(n, r) \/ ExecutionFails(n, r)
           \/ \E by \in Pulses, kept \in BOOLEAN : FinishPending(n, r, by, kept)
    PROVE  UpdateInv'
<1>1. exec \in [Nodes -> [Requests -> Executions]]
  BY DEF TypeInv, NodeType
<1>m. ASSUME NEW e, e.stage # "running", exec' = [exec EXCEPT ![n][r] = e]
      PROVE  \A k \in Nodes, s \in Requests :
               exec'[k][s].stage = "running" => exec[k][s].stage = "running"
  BY <1>1, <1>m
<1>2. CASE Take(n, r)
  <2> DEFINE e == [stage |-> "registered", by |-> nodePulse[n], seen |-> 0]
  <2>1. exec' = exec \/ exec' = [exec EXCEPT ![n][r] = e]
    BY <1>2 DEF Take
  <2>2. e.stage # "running"
    OBVIOUS
  <2> HIDE DEF e
  <2> QED BY <1>2, <1>m, <2>1, <2>2, NobodyBegins DEF Take, time
<1>3. CASE ReadIndex(n, r)
  <2> DEFINE e == [exec[n][r] EXCEPT !.stage = "reading", !.seen = Version(nodePulse[n])]
  <2>1. exec' = [exec EXCEPT ![n][r] = e]
    BY <1>3 DEF ReadIndex
  <2>2. e.stage # "running"
    BY <1>1 DEF Executions
  <2> HIDE DEF e
  <2> QED BY <1>3, <1>m, <2>1, <2>2, NobodyBegins DEF ReadIndex, time
<1>4. CASE FinishTranscript(n, r)
  <2>1. exec' = [exec EXCEPT ![n][r] = NotExecuting]
    BY <1>4 DEF FinishTranscript
  <2>2. NotExecuting.stage # "running"
    BY DEF NotExecuting
  <2> QED BY <1>4, <1>m, <2>1, <2>2, NobodyBegins DEF FinishTranscript, time
<1>5. CASE ExecutionFails(n, r)
  <2> DEFINE e == [exec[n][r] EXCEPT !.stage = "done"]
  <2>1. exec' = [exec EXCEPT ![n][r] = e]
    BY <1>5 DEF ExecutionFails
  <2>2. e.stage # "running"
    BY <1>1 DEF Executions
  <2> HIDE DEF e
  <2> QED BY <1>5, <1>m, <2>1, <2>2, NobodyBegins DEF ExecutionFails, time
<1>6. CASE \E by \in Pulses, kept \in BOOLEAN : FinishPending(n, r, by, kept)
  BY <1>6, NobodyBegins DEF FinishPending, time
<1> QED BY <1>2, <1>3, <1>4, <1>5, <1>6

\* A node that dies executes nothing.
LEMMA CrashUpdate ==
    ASSUME TypeInv, UpdateInv, NEW n \in Nodes, Crash(n)
    PROVE  UpdateInv'
<1> DEFINE none == [r \in Requests |-> NotExecuting]
<1>1. exec \in [Nodes -> [Requests -> Executions]]
  BY DEF TypeInv, NodeType
<1>2. exec' = [exec EXCEPT ![n] = none]
  BY DEF Crash
<1>3. \A r \in Requests : none[r].stage # "running"
  BY DEF NotExecuting
<1> HIDE DEF none
<1>4. \A k \in Nodes, r \in Requests :
        exec'[k][r].stage = "running" => exec[k][r].stage = "running"
  BY <1>1, <1>2, <1>3
<1> QED BY <1>4, NobodyBegins DEF Crash

\* Every step keeps the invariant.
LEMMA UpdateStep == TypeInv /\ UpdateInv /\ [Next]_vars => UpdateInv'
<1> SUFFICES ASSUME TypeInv, UpdateInv, [Next]_vars PROVE UpdateInv'
  OBVIOUS
<1>q. ASSUME pulse' = pulse, exec' = exec, UNCHANGED ledger PROVE UpdateInv'
  BY <1>q, NobodyBegins
<1>1. CASE UNCHANGED vars
  BY <1>1, <1>q DEF vars, time
<1>2. ASSUME NEW r \in Requests, SendCall(r) PROVE UpdateInv'
  BY <1>2, <1>q DEF SendCall, time
<1>3. ASSUME NEW m \in net, Deliver(m) \/ Lose(m) PROVE UpdateInv'
  <2>1. CASE RegisterIncomingRequest(m)
    BY <2>1, RegisterUpdate
  <2>2. CASE CallTooLate(m) \/ TooLate(m) \/ NobodyThere(m) \/ Lose(m)
    BY <1>q, <2>2 DEF CallTooLate, TooLate, NobodyThere, Lose, time
  <2>3. CASE HandleExecutorResults(m)
    BY <1>q, <2>3 DEF HandleExecutorResults, time
  <2>4. CASE HandleStillExecuting(m)
    BY <1>q, <2>4 DEF HandleStillExecuting, time
  <2>5. CASE HandlePendingFinished(m)
    BY <1>q, <2>5 DEF HandlePendingFinished, time
  <2>6. CASE HandleAdditionalCall(m)
    BY <1>q, <2>6 DEF HandleAdditionalCall, time
  <2>7. CASE HandleAbandonedRequests(m)
    BY <1>q, <2>7 DEF HandleAbandonedRequests, time
  <2> QED BY <1>3, <2>1, <2>2, <2>3, <2>4, <2>5, <2>6, <2>7 DEF Deliver
<1>4. ASSUME NEW h \in calls, Handle(h) PROVE UpdateInv'
  BY <1>4, <1>q DEF Handle, HandleCall, SendToNextExecutor, CallCancelled, time
<1>5. ASSUME NEW n \in Nodes, Process(n) PROVE UpdateInv'
  <2>1. \E b : SetBroker(n, b)
    BY <1>5 DEF Process, AskLedger, ClarifyPendingState, StartProcessor, Fetch, NoMoreRequests,
                Refetch
  <2> QED BY <1>q, <2>1 DEF SetBroker, time
<1>6. ASSUME NEW n \in Nodes, NEW r \in Requests, Transcript(n, r) \/ ExecutionFails(n, r)
      PROVE  UpdateInv'
  BY <1>6, TranscriptUpdate, GetObjectUpdate, SaveUpdate DEF Transcript
<1>7. ASSUME NEW n \in Nodes, NewPulse(n) PROVE UpdateInv'
  BY <1>7, NewPulseUpdate
<1>8. ASSUME NEW n \in Nodes, OnPulse(n) PROVE UpdateInv'
  BY <1>8, <1>q DEF OnPulse
<1>9. ASSUME NEW n \in Nodes, Crash(n) PROVE UpdateInv'
  BY <1>9, CrashUpdate
<1>10. ASSUME NEW n \in Nodes, AskLedgerFails(n) PROVE UpdateInv'
  BY <1>10, <1>q DEF AskLedgerFails, time
<1> QED BY <1>1, <1>2, <1>3, <1>4, <1>5, <1>6, <1>7, <1>8, <1>9, <1>10 DEF Next

\* Initially the filament is empty.
LEMMA InitUpdate == Init => UpdateInv
<1> SUFFICES ASSUME Init PROVE UpdateInv
  OBVIOUS
<1>1. FilamentInv /\ ResultsInOrder
  BY DEF Init, FilamentInv, ResultsInOrder
<1>2. OneUpdateAtATime
  BY DEF Init, OneUpdateAtATime, NotExecuting, Mutable
<1> QED BY <1>1, <1>2 DEF UpdateInv

\* However many nodes execute requests of an object, in whatever pulse they
\* are, and whatever is late, lost or dead, an open mutable request that is
\* beyond the check of GetObject is the oldest open one on the ledger.
THEOREM OneUpdater == Spec => []OneUpdateAtATime
<1>1. UpdateInv => OneUpdateAtATime
  BY DEF UpdateInv
<1> QED BY <1>1, InitType, NextType, InitUpdate, UpdateStep, PTL DEF Spec

\* And the results that change the object are accepted in the order in which
\* the requests were registered, although executors of different pulses save
\* them and a request may be executed more than once.
THEOREM UpdatesAreOrdered == Spec => []ResultsInOrder
<1>1. UpdateInv => ResultsInOrder
  BY DEF UpdateInv
<1> QED BY <1>1, InitType, NextType, InitUpdate, UpdateStep, PTL DEF Spec
-----------------------------------------------------------------------------
(* What was accepted is remembered.                                        *)

CallMethods == {m \in net : m.kind = "CallMethod"}

\* A call is on its way to the executor of its pulse, or is being handled
\* there; there is one call of a request at a time.
CallsInv ==
    /\ \A m \in CallMethods : m.to = executor[m.pulse]
    /\ \A h \in calls : h.node = executor[h.pulse]
    /\ \A m, w \in CallMethods : m.req = w.req => m = w
    /\ \A h, g \in calls : h.req = g.req => h = g
    /\ \A m \in CallMethods, h \in calls : m.req # h.req

\* The node that registered r is not in the pulse of the registration any more.
LeftBehind(r) == nodePulse[executor[reg[r]]] # reg[r]

\* A request is registered by an executor that has the pulse already.
NeverBehind ==
    \A r \in Registered :
        nodePulse[executor[reg[r]]] = 0 \/ nodePulse[executor[reg[r]]] >= reg[r]

\* A call in pulse p of a request that is registered is that of the
\* registration, or a repeated one: then the first found its pulse over.
Follows(r, p) == reg[r] <= p /\ (reg[r] < p => LeftBehind(r))

FollowInv ==
    /\ \A m \in CallMethods : m.req \in Registered => Follows(m.req, m.pulse)
    /\ \A h \in calls : Follows(h.req, h.pulse)

CallerInv == CallsInv /\ NeverBehind /\ FollowInv

\* A broker that is not there has nothing to remember.
Quiet(b) ==
    ~b.on => /\ b.hasMore = "LedgerIsEmpty" /\ b.starters = 0
             /\ b.asked = "no one" /\ b.proc = "off"

\* Broker b keeps request r in mind.
Remembers(b, r) ==
    /\ b.hasMore # "LedgerIsEmpty"
    /\ r \in b.fetched \/ b.more \/ b.proc = "fetching"

\* Node n is the one to keep the open request r in mind.
Keeper(n, r) ==
    /\ reg[r] = nodePulse[n] /\ executor[nodePulse[n]] = n
    /\ r \in OpenedRequests(nodePulse[n])

BrokersInv ==
    /\ \A n \in Nodes : Quiet(broker[n])
    /\ \A n \in Nodes, r \in accepted : Keeper(n, r) => Remembers(broker[n], r)

\* Calls are taken away, and nodes come to the newest pulse or die.
LEMMA CallerStays ==
    ASSUME TypeInv, CallerInv, reg' = reg,
           \A p \in 1 .. pulse : executor'[p] = executor[p],
           \A n \in Nodes : nodePulse'[n] \in {nodePulse[n], 0, pulse},
           CallMethods' \subseteq CallMethods, calls' \subseteq calls
    PROVE  CallerInv'
<1>r. Registered' = Registered /\ reg \in [Requests -> 0 .. pulse] /\ Registered \subseteq Requests
  BY DEF Registered, TypeInv, LedgerType
<1>p. /\ \A m \in CallMethods : m.pulse \in 1 .. pulse
      /\ \A h \in calls : h.pulse \in 1 .. pulse /\ h.req \in Registered
  BY MessageFacts, CallFacts DEF CallMethods
<1>1. CallsInv'
  BY <1>p DEF CallerInv, CallsInv
<1>2. ASSUME NEW r \in Registered
      PROVE  /\ reg[r] \in 1 .. pulse /\ executor[reg[r]] \in Nodes
             /\ executor'[reg'[r]] = executor[reg[r]]
  <2>1. reg[r] \in 1 .. pulse
    BY <1>r, PulseFacts DEF Registered
  <2> QED BY <2>1, PulseFacts
<1>3. NeverBehind'
  <2> SUFFICES ASSUME NEW r \in Registered
               PROVE  LET k == executor[reg[r]] IN nodePulse'[k] = 0 \/ nodePulse'[k] >= reg[r]
    BY <1>r, <1>2 DEF NeverBehind
  <2>1. nodePulse[executor[reg[r]]] = 0 \/ nodePulse[executor[reg[r]]] >= reg[r]
    BY DEF CallerInv, NeverBehind
  <2> QED BY <1>2, <2>1, PulseFacts
<1>4. ASSUME NEW r \in Registered, NEW p \in 1 .. pulse, Follows(r, p)
      PROVE  Follows(r, p)'
  <2>1. reg[r] <= p /\ (reg[r] < p => nodePulse[executor[reg[r]]] # reg[r])
    BY <1>4 DEF Follows, LeftBehind
  <2>2. reg[r] < p => nodePulse'[executor[reg[r]]] # reg[r]
    BY <1>2, <2>1, PulseFacts
  <2> QED BY <1>2, <2>1, <2>2 DEF Follows, LeftBehind
<1>5. FollowInv'
  BY <1>r, <1>p, <1>4 DEF CallerInv, FollowInv
<1> QED BY <1>1, <1>3, <1>5 DEF CallerInv

\* A call is sent, and is the only one of its request.
LEMMA CallerSends ==
    ASSUME TypeInv, CallerInv, reg' = reg, UNCHANGED time,
           NEW w, w.to = executor[pulse], w.pulse = pulse,
           w.req \in Registered => Follows(w.req, pulse),
           \A m \in CallMethods' : m = w \/ (m \in CallMethods /\ m.req # w.req),
           \A h \in calls' : h \in calls /\ h.req # w.req
    PROVE  CallerInv'
<1>1. pulse' = pulse /\ executor' = executor /\ nodePulse' = nodePulse /\ Registered' = Registered
  BY DEF time, Registered
<1>2. CallsInv'
  <2>1. \A m \in CallMethods' : m.to = executor'[m.pulse]
    BY <1>1 DEF CallerInv, CallsInv
  <2>2. \A h \in calls' : h.node = executor'[h.pulse]
    BY <1>1 DEF CallerInv, CallsInv
  <2>3. \A m, v \in CallMethods' : m.req = v.req => m = v
    BY DEF CallerInv, CallsInv
  <2>4. \A h, g \in calls' : h.req = g.req => h = g
    BY DEF CallerInv, CallsInv
  <2>5. \A m \in CallMethods', h \in calls' : m.req # h.req
    BY DEF CallerInv, CallsInv
  <2> QED BY <2>1, <2>2, <2>3, <2>4, <2>5 DEF CallsInv
<1>3. NeverBehind'
  BY <1>1 DEF CallerInv, NeverBehind
<1>4. \A r, p : Follows(r, p)' = Follows(r, p)
  BY <1>1 DEF Follows, LeftBehind
<1>5. FollowInv'
  BY <1>1, <1>4 DEF CallerInv, FollowInv
<1> QED BY <1>2, <1>3, <1>5 DEF CallerInv

\* A call that is repeated because its pulse is over follows the first one.
LEMMA RepeatFollows ==
    ASSUME TypeInv, NEW r \in Registered, NEW p \in 1 .. pulse, Follows(r, p),
           nodePulse[executor[p]] > p
    PROVE  Follows(r, pulse)
<1>1. reg[r] \in 1 .. pulse
  BY PulseFacts DEF Registered, TypeInv, LedgerType
<1>2. reg[r] <= p /\ (reg[r] < p => LeftBehind(r))
  BY DEF Follows
<1>3. LeftBehind(r)
  <2>1. CASE reg[r] = p
    BY <1>1, <2>1, PulseFacts DEF LeftBehind
  <2>2. CASE reg[r] < p
    BY <1>2, <2>2
  <2> QED BY <1>1, <1>2, <2>1, <2>2
<1> QED BY <1>1, <1>3, PulseFacts DEF Follows

\* The steps that send a call, for the first or for the second time.
LEMMA SendingCaller ==
    ASSUME TypeInv, CallerInv,
           \/ \E r \in Requests : SendCall(r)
           \/ \E m \in net : CallTooLate(m)
           \/ \E h \in calls : CallCancelled(h)
    PROVE  CallerInv'
<1>c. \A m \in CallMethods : m \in net /\ m.kind = "CallMethod"
  BY DEF CallMethods
<1>1. ASSUME NEW r \in Requests, SendCall(r) PROVE CallerInv'
  <2> DEFINE w == [kind |-> "CallMethod", to |-> To(pulse), pulse |-> pulse, req |-> r, tries |-> 1]
  <2>1. w.to = executor[pulse] /\ w.pulse = pulse /\ w.req = r
    BY DEF To
  <2>2. r \notin Registered /\ reg' = reg /\ UNCHANGED time /\ calls' = calls /\ net' = net \cup {w}
    BY <1>1 DEF SendCall, Registered, ledger
  <2>3. (\A m \in CallMethods : m.req # r) /\ \A h \in calls : h.req # r
    BY <1>1, <1>c DEF SendCall
  <2> HIDE DEF w
  <2>4. \A m \in CallMethods' : m = w \/ (m \in CallMethods /\ m.req # w.req)
    BY <2>1, <2>2, <2>3 DEF CallMethods
  <2> QED BY <2>1, <2>2, <2>3, <2>4, CallerSends
<1>2. ASSUME NEW r \in Requests, NEW p \in 1 .. pulse, NEW tries \in Nat,
             nodePulse[executor[p]] > p, r \in Registered => Follows(r, p),
             reg' = reg, UNCHANGED time,
             \A m \in CallMethods' :
                m \in ResendCall(r, tries) \/ (m \in CallMethods /\ m.req # r),
             \A h \in calls' : h \in calls /\ h.req # r
      PROVE  CallerInv'
  <2> DEFINE w == [kind |-> "CallMethod", to |-> To(pulse), pulse |-> pulse, req |-> r,
                   tries |-> tries - 1]
  <2>1. w.to = executor[pulse] /\ w.pulse = pulse /\ w.req = r
    BY DEF To
  <2>2. \A m \in ResendCall(r, tries) : m = w
    BY DEF ResendCall
  <2>3. r \in Registered => Follows(r, pulse)
    BY <1>2, RepeatFollows
  <2> HIDE DEF w
  <2>4. \A m \in CallMethods' : m = w \/ (m \in CallMethods /\ m.req # w.req)
    BY <1>2, <2>1, <2>2
  <2> QED BY <1>2, <2>1, <2>3, <2>4, CallerSends
<1>3. ASSUME NEW m \in net, CallTooLate(m) PROVE CallerInv'
  <2>1. /\ m \in CallMethods /\ nodePulse[m.to] > m.pulse /\ reg' = reg /\ UNCHANGED time
        /\ calls' = calls /\ net' = (net \ {m}) \cup ResendCall(m.req, m.tries)
    BY <1>3 DEF CallTooLate, Late, CallMethods, ledger
  <2>2. /\ m.req \in Requests /\ m.tries \in Nat /\ m.pulse \in 1 .. pulse
        /\ m.to = executor[m.pulse]
        /\ m.req \in Registered => Follows(m.req, m.pulse)
        /\ \A v \in CallMethods : v.req = m.req => v = m
        /\ \A h \in calls : h.req # m.req
    BY <1>c, <2>1, MessageFacts DEF CallerInv, CallsInv, FollowInv
  <2>3. \A v \in CallMethods' :
          v \in ResendCall(m.req, m.tries) \/ (v \in CallMethods /\ v.req # m.req)
    BY <2>1, <2>2 DEF CallMethods
  <2> QED BY <1>2, <2>1, <2>2, <2>3
<1>4. ASSUME NEW h \in calls, CallCancelled(h) PROVE CallerInv'
  <2>1. /\ nodePulse[h.node] > h.pulse /\ reg' = reg /\ UNCHANGED time
        /\ calls' = calls \ {h} /\ net' = net \cup ResendCall(h.req, h.tries)
    BY <1>4 DEF CallCancelled, ledger
  <2>2. /\ h.req \in Requests /\ h.tries \in Nat /\ h.pulse \in 1 .. pulse
        /\ h.node = executor[h.pulse] /\ Follows(h.req, h.pulse)
        /\ \A m \in CallMethods : m.req # h.req
        /\ \A g \in calls : g.req = h.req => g = h
    BY CallFacts DEF CallerInv, CallsInv, FollowInv
  <2>3. /\ \A m \in CallMethods' :
             m \in ResendCall(h.req, h.tries) \/ (m \in CallMethods /\ m.req # h.req)
        /\ \A g \in calls' : g \in calls /\ g.req # h.req
    BY <2>1, <2>2 DEF CallMethods
  <2> QED BY <1>2, <2>1, <2>2, <2>3
<1> QED BY <1>1, <1>3, <1>4

\* The registration.
LEMMA RegisterCaller ==
    ASSUME TypeInv, CallerInv, NEW m \in net, RegisterIncomingRequest(m)
    PROVE  CallerInv'
<1> DEFINE g == [node |-> m.to, pulse |-> m.pulse, req |-> m.req, tries |-> m.tries]
<1>1. /\ m \in CallMethods /\ m.kind = "CallMethod" /\ m.pulse = pulse /\ nodePulse[m.to] = pulse
      /\ pulse' = pulse /\ executor' = executor /\ nodePulse' = nodePulse
      /\ net' = net \ {m} /\ calls' \subseteq calls \cup {g}
      /\ reg' = IF reg[m.req] = 0 THEN [reg EXCEPT ![m.req] = pulse] ELSE reg
  BY DEF RegisterIncomingRequest, SetRequest, Arrives, CallMethods, time
<1>2. g.node = m.to /\ g.pulse = pulse /\ g.req = m.req
  BY <1>1
<1> HIDE DEF g
<1>3. /\ m.req \in Requests /\ m.to = executor[pulse]
      /\ m.req \in Registered => Follows(m.req, pulse)
      /\ \A v \in CallMethods : v.req = m.req => v = m
      /\ \A h \in calls : h.req # m.req
  BY <1>1, MessageFacts DEF CallerInv, CallsInv, FollowInv
<1>4. CallMethods' \subseteq CallMethods \ {m}
  BY <1>1 DEF CallMethods
<1>5. CallsInv'
  <2>1. \A v \in CallMethods' : v.to = executor'[v.pulse]
    BY <1>1, <1>4 DEF CallerInv, CallsInv
  <2>2. \A h \in calls' : h.node = executor'[h.pulse]
    BY <1>1, <1>2, <1>3 DEF CallerInv, CallsInv
  <2>3. \A v, w \in CallMethods' : v.req = w.req => v = w
    BY <1>4 DEF CallerInv, CallsInv
  <2>4. \A h, k \in calls' : h.req = k.req => h = k
    BY <1>1, <1>2, <1>3 DEF CallerInv, CallsInv
  <2>5. \A v \in CallMethods', h \in calls' : v.req # h.req
    BY <1>1, <1>2, <1>3, <1>4 DEF CallerInv, CallsInv
  <2> QED BY <2>1, <2>2, <2>3, <2>4, <2>5 DEF CallsInv
<1>6. reg \in [Requests -> 0 .. pulse] /\ Registered \subseteq Requests
  BY DEF TypeInv, LedgerType, Registered
<1>7. /\ \A r \in Requests \ {m.req} : reg'[r] = reg[r]
      /\ reg'[m.req] = IF m.req \in Registered THEN reg[m.req] ELSE pulse
      /\ Registered' = Registered \cup {m.req}
  BY <1>1, <1>3, <1>6, PulseFacts DEF Registered
<1>8. NeverBehind'
  <2> SUFFICES ASSUME NEW r \in Registered'
               PROVE  LET k == executor[reg'[r]] IN nodePulse[k] = 0 \/ nodePulse[k] >= reg'[r]
    BY <1>1 DEF NeverBehind
  <2>1. CASE r \in Registered
    <3>1. reg'[r] = reg[r]
      BY <1>6, <1>7, <2>1
    <3> QED BY <2>1, <3>1 DEF CallerInv, NeverBehind
  <2>2. CASE r \notin Registered
    BY <1>1, <1>3, <1>7, <2>2, PulseFacts
  <2> QED BY <2>1, <2>2
<1>9. ASSUME NEW r \in Registered', NEW p, r \in Registered => Follows(r, p),
             r \notin Registered => p = pulse
      PROVE  Follows(r, p)'
  <2>1. CASE r \in Registered
    <3>1. reg'[r] = reg[r]
      BY <1>6, <1>7, <2>1
    <3> QED BY <1>1, <1>9, <2>1, <3>1 DEF Follows, LeftBehind
  <2>2. CASE r \notin Registered
    <3>1. reg'[r] = pulse /\ p = pulse
      BY <1>7, <1>9, <2>2
    <3> QED BY <1>1, <3>1, PulseFacts DEF Follows, LeftBehind
  <2> QED BY <2>1, <2>2
<1>10. FollowInv'
  <2>1. ASSUME NEW v \in CallMethods', v.req \in Registered' PROVE Follows(v.req, v.pulse)'
    <3>1. v.req \in Registered /\ Follows(v.req, v.pulse)
      BY <1>3, <1>4, <1>7, <2>1 DEF CallerInv, FollowInv
    <3> QED BY <1>9, <2>1, <3>1
  <2>2. ASSUME NEW h \in calls' PROVE Follows(h.req, h.pulse)'
    <3>1. CASE h \in calls
      <4>1. h.req \in Registered /\ Follows(h.req, h.pulse)
        BY <3>1, CallFacts DEF CallerInv, FollowInv
      <4> QED BY <1>7, <1>9, <4>1
    <3>2. CASE h = g
      BY <1>2, <1>3, <1>7, <1>9, <3>2
    <3> QED BY <1>1, <3>1, <3>2
  <2> QED BY <2>1, <2>2 DEF FollowInv
<1> QED BY <1>5, <1>8, <1>10 DEF CallerInv

\* Who keeps a request in mind after a step in which no time passes, did so
\* before.
LEMMA KeeperStays ==
    ASSUME TypeInv, UNCHANGED time, NEW n \in Nodes, NEW r \in Registered, reg'[r] = reg[r],
           closedAt'[r] = closedAt[r] \/ closedAt[r] = 0, Keeper(n, r)'
    PROVE  Keeper(n, r)
<1>1. nodePulse'[n] = nodePulse[n] /\ executor' = executor /\ nodePulse[n] \in Nat
  BY PulseFacts DEF time
<1>2. reg[r] = nodePulse[n] /\ executor[nodePulse[n]] = n
  BY <1>1 DEF Keeper
<1>3. reg[r] \in 1 .. nodePulse[n] /\ closedAt'[r] \notin 1 .. nodePulse[n] /\ r \in Requests
  BY <1>1 DEF Keeper, OpenedRequests, Closed, Registered
<1>4. closedAt[r] \notin 1 .. nodePulse[n]
  BY <1>3
<1> QED BY <1>2, <1>3, <1>4 DEF Keeper, OpenedRequests, Closed

\* A step in which no time passes, nothing is accepted and no broker forgets.
LEMMA BrokersStay ==
    ASSUME TypeInv, BrokersInv, UNCHANGED time, reg' = reg, accepted' \subseteq accepted,
           \A r \in Requests : closedAt'[r] = closedAt[r] \/ closedAt[r] = 0,
           \A n \in Nodes : Quiet(broker'[n]),
           \A n \in Nodes, r \in accepted :
               Keeper(n, r) /\ Remembers(broker[n], r) => Remembers(broker'[n], r)
    PROVE  BrokersInv'
<1>1. accepted \subseteq Registered /\ Registered \subseteq Requests
  BY PulseFacts DEF Registered
<1>2. \A n \in Nodes, r \in accepted' : Keeper(n, r)' => Remembers(broker'[n], r)
  BY <1>1, KeeperStays DEF BrokersInv
<1>3. \A n \in Nodes : \A r : Remembers(broker[n], r)' = Remembers(broker'[n], r)
  BY DEF Remembers
<1>4. \A n \in Nodes : Quiet(broker[n])' = Quiet(broker'[n])
  BY DEF Quiet
<1> QED BY <1>2, <1>3, <1>4 DEF BrokersInv

\* A step that changes one broker.
LEMMA OneBroker ==
    ASSUME TypeInv, CallerInv, BrokersInv, UNCHANGED <<time, ledger>>, accepted' = accepted,
           CallMethods' \subseteq CallMethods, calls' \subseteq calls,
           NEW n \in Nodes, NEW b, broker' = [broker EXCEPT ![n] = b], Quiet(b),
           \A r \in accepted : Keeper(n, r) /\ Remembers(broker[n], r) => Remembers(b, r)
    PROVE  CallerInv' /\ BrokersInv'
<1>1. pulse' = pulse /\ executor' = executor /\ nodePulse' = nodePulse
      /\ reg' = reg /\ closedAt' = closedAt
  BY DEF time, ledger
<1>2. CallerInv'
  BY <1>1, CallerStays
<1>3. broker'[n] = b /\ \A k \in Nodes \ {n} : broker'[k] = broker[k]
  BY DEF TypeInv, NodeType
<1>4. \A k \in Nodes : Quiet(broker'[k])
  BY <1>3 DEF BrokersInv
<1>5. \A k \in Nodes, r \in accepted :
        Keeper(k, r) /\ Remembers(broker[k], r) => Remembers(broker'[k], r)
  BY <1>3
<1> QED BY <1>1, <1>2, <1>4, <1>5, BrokersStay

\* UpsertExecutionState does not forget.
LEMMA UpsertRemembers ==
    ASSUME TypeInv, BrokersInv, NEW n \in Nodes
    PROVE  /\ Upsert(n) \in Brokers /\ Upsert(n).on
           /\ \A r : Remembers(broker[n], r) => Remembers(Upsert(n), r)
<1>1. Quiet(broker[n])
  BY DEF BrokersInv
<1>2. CASE broker[n].on
  BY <1>2, UpsertType DEF Upsert
<1>3. CASE ~broker[n].on
  <2>1. Upsert(n) = NewBroker /\ NewBroker.on
    BY <1>3 DEF Upsert, NewBroker
  <2> QED BY <1>1, <1>3, <2>1, BrokerTypes DEF Quiet, Remembers
<1> QED BY <1>2, <1>3

\* Whoever is told of requests remembers all of them.
LEMMA HasMoreRemembers ==
    ASSUME NEW b \in Brokers
    PROVE  /\ HasMoreRequests(b).on = b.on
           /\ \A r : Remembers(HasMoreRequests(b), r)
BY DEF HasMoreRequests, Brokers, Remembers

\* The handlers of the messages between virtual nodes.
LEMMA MessageRemembers ==
    ASSUME TypeInv, CallerInv, BrokersInv, NEW m \in net,
           \/ HandleExecutorResults(m) \/ HandleStillExecuting(m) \/ HandlePendingFinished(m)
           \/ HandleAdditionalCall(m) \/ HandleAbandonedRequests(m)
    PROVE  CallerInv' /\ BrokersInv'
<1>m. m.to \in Nodes
  BY MessageFacts
<1> DEFINE u == Upsert(m.to)
<1>u. u \in Brokers /\ u.on /\ \A r : Remembers(broker[m.to], r) => Remembers(u, r)
  BY <1>m, UpsertRemembers
<1>s. ASSUME NEW b, broker' = [broker EXCEPT ![m.to] = b], b.on,
             \A r : Remembers(u, r) => Remembers(b, r),
             UNCHANGED <<time, calls, accepted, ledger>>, net' = net \ {m}
      PROVE  CallerInv' /\ BrokersInv'
  <2>1. Quiet(b) /\ CallMethods' \subseteq CallMethods
    BY <1>s DEF Quiet, CallMethods
  <2> QED BY <1>m, <1>u, <1>s, <2>1, OneBroker
<1> HIDE DEF u
<1>p. ASSUME NEW b \in Brokers, NEW c \in Brokers, b.on = c.on, b.hasMore = c.hasMore,
             b.fetched = c.fetched, b.more = c.more, b.proc = c.proc
      PROVE  \A r : Remembers(b, r) = Remembers(c, r)
  BY <1>p DEF Remembers
<1>1. CASE HandleExecutorResults(m)
  <2> DEFINE pending == CASE u.pending = "PendingUnknown" -> m.pending
                          [] u.pending = "InPending" /\ ~IsActive(m.to) /\ m.pending = "NotPending"
                               -> "NotPending"
                          [] OTHER -> u.pending
             c == [u EXCEPT !.pending = pending]
             b == IF m.more THEN HasMoreRequests(c) ELSE c
  <2>1. m.pending \in PendingState
    BY <1>1, MessageFacts DEF HandleExecutorResults, Arrives
  <2>2. pending \in PendingState
    BY <1>u, <2>1 DEF Brokers, PendingState
  <2>3. broker' = [broker EXCEPT ![m.to] = b]
    BY <1>1 DEF HandleExecutorResults, u
  <2> HIDE DEF pending
  <2>4. /\ c \in Brokers /\ c.on = u.on /\ c.hasMore = u.hasMore /\ c.fetched = u.fetched
        /\ c.more = u.more /\ c.proc = u.proc
    BY <1>u, <2>2 DEF Brokers
  <2> HIDE DEF c
  <2>5. b.on /\ \A r : Remembers(u, r) => Remembers(b, r)
    BY <1>u, <1>p, <2>4, HasMoreRemembers
  <2> HIDE DEF b
  <2> QED BY <1>1, <1>s, <2>3, <2>5 DEF HandleExecutorResults
<1>2. CASE HandleStillExecuting(m)
  <2> DEFINE b == IF u.pending = "NotPending" THEN u
                  ELSE [u EXCEPT !.pending = "InPending", !.confirmed = TRUE]
  <2>1. broker' = [broker EXCEPT ![m.to] = b]
    BY <1>2 DEF HandleStillExecuting, u
  <2>2. /\ b \in Brokers /\ b.on = u.on /\ b.hasMore = u.hasMore /\ b.fetched = u.fetched
        /\ b.more = u.more /\ b.proc = u.proc
    BY <1>u DEF Brokers, PendingState
  <2> HIDE DEF b
  <2>3. b.on /\ \A r : Remembers(u, r) => Remembers(b, r)
    BY <1>u, <1>p, <2>2
  <2> QED BY <1>2, <1>s, <2>1, <2>3 DEF HandleStillExecuting
<1>3. CASE HandlePendingFinished(m)
  <2> DEFINE b == IF IsActive(m.to) THEN u
                  ELSE [u EXCEPT !.pending = "NotPending", !.starters = @ + 1]
  <2>1. broker' = [broker EXCEPT ![m.to] = b]
    BY <1>3 DEF HandlePendingFinished, u
  <2>s. u.starters + 1 \in Nat
    BY <1>u DEF Brokers
  <2>2. /\ b \in Brokers /\ b.on = u.on /\ b.hasMore = u.hasMore /\ b.fetched = u.fetched
        /\ b.more = u.more /\ b.proc = u.proc
    BY <1>u, <2>s DEF Brokers, PendingState
  <2> HIDE DEF b
  <2>3. b.on /\ \A r : Remembers(u, r) => Remembers(b, r)
    BY <1>u, <1>p, <2>2
  <2> QED BY <1>3, <1>s, <2>1, <2>3 DEF HandlePendingFinished
<1>4. CASE HandleAdditionalCall(m)
  <2> DEFINE b == HasMoreRequests(u)
  <2>1. broker' = [broker EXCEPT ![m.to] = b]
    BY <1>4 DEF HandleAdditionalCall, u
  <2>2. b.on /\ \A r : Remembers(b, r)
    BY <1>u, HasMoreRemembers
  <2> HIDE DEF b
  <2> QED BY <1>4, <1>s, <2>1, <2>2 DEF HandleAdditionalCall
<1>5. CASE HandleAbandonedRequests(m)
  <2> DEFINE c == IF u.pending = "PendingUnknown"
                    THEN [u EXCEPT !.pending = "InPending", !.confirmed = FALSE] ELSE u
             b == HasMoreRequests(c)
  <2>1. broker' = [broker EXCEPT ![m.to] = b]
    BY <1>5 DEF HandleAbandonedRequests, u
  <2>2. c \in Brokers /\ c.on
    BY <1>u DEF Brokers, PendingState
  <2> HIDE DEF c
  <2>3. b.on /\ \A r : Remembers(b, r)
    BY <2>2, HasMoreRemembers
  <2> HIDE DEF b
  <2> QED BY <1>5, <1>s, <2>1, <2>3 DEF HandleAbandonedRequests
<1> QED BY <1>1, <1>2, <1>3, <1>4, <1>5

\* Those selects something, if there is something to select.
LEMMA ThoseFinds ==
    ASSUME NEW X, NEW s \in Seq(X), NEW S, NEW o \in 1 .. Len(s), s[o] \in S
    PROVE  Those(s, S) # << >>
<1> DEFINE f == CHOOSE f : ThoseUpTo(s, S, Len(s), f)
           T == {n \in Nat : n <= Len(s) => f[n] \in Seq(X) /\ (o <= n => Len(f[n]) > 0)}
<1>1. Len(s) \in Nat
  OBVIOUS
<1>2. Those(s, S) = f[Len(s)]
  BY Zenon DEF Those, ThoseUpTo, NoneYet
<1>3. ThoseUpTo(s, S, Len(s), f)
  BY <1>1, ThoseExists
<1> HIDE DEF f
<1>4. 0 \in T
  <2>1. f[0] = NoneYet
    BY <1>1, <1>3 DEF ThoseUpTo
  <2>2. NoneYet \in Seq(X)
    BY DEF NoneYet
  <2> QED BY <2>1, <2>2
<1>5. ASSUME NEW n \in Nat, n \in T PROVE n + 1 \in T
  <2> SUFFICES ASSUME n + 1 <= Len(s)
               PROVE  f[n + 1] \in Seq(X) /\ (o <= n + 1 => Len(f[n + 1]) > 0)
    OBVIOUS
  <2>1. f[n] \in Seq(X) /\ (o <= n => Len(f[n]) > 0)
    BY <1>1, <1>5
  <2>2. s[n + 1] \in X
    BY <1>1
  <2>3. f[n + 1] = IF s[n + 1] \in S THEN Append(f[n], s[n + 1]) ELSE f[n]
    <3>1. n + 1 \in 0 .. Len(s) /\ n + 1 # 0 /\ (n + 1) - 1 = n
      BY <1>1
    <3>2. f[n + 1] = IF n + 1 = 0 THEN NoneYet
                     ELSE IF s[n + 1] \in S THEN Append(f[(n + 1) - 1], s[n + 1])
                     ELSE f[(n + 1) - 1]
      BY <1>3, <3>1, Zenon DEF ThoseUpTo
    <3> QED BY <3>1, <3>2, Zenon
  <2>4. CASE s[n + 1] \in S
    <3>1. f[n + 1] \in Seq(X) /\ Len(f[n + 1]) = Len(f[n]) + 1 /\ Len(f[n]) \in Nat
      BY <2>1, <2>2, <2>3, <2>4
    <3> QED BY <3>1
  <2>5. CASE s[n + 1] \notin S
    <3>1. f[n + 1] = f[n] /\ o # n + 1
      BY <2>3, <2>5
    <3> QED BY <2>1, <3>1
  <2> QED BY <2>4, <2>5
<1> HIDE DEF T
<1>6. Nat \subseteq T
  BY <1>4, <1>5, Induction
<1>7. f[Len(s)] \in Seq(X) /\ Len(f[Len(s)]) > 0
  BY <1>1, <1>6 DEF T
<1> QED BY <1>2, <1>7

\* A fetcher that gets nothing has got all the open requests before.
LEMMA NothingLeft ==
    ASSUME TypeInv, NEW n \in Nodes, NEW r \in Registered, NEW skip,
           Keeper(n, r), GetPendings(nodePulse[n], skip) = << >>
    PROVE  r \in skip
<1> SUFFICES ASSUME r \notin skip PROVE FALSE
  OBVIOUS
<1>1. r \in OpenedRequests(nodePulse[n]) \ skip
  BY DEF Keeper
<1>2. filament \in Seq(Requests) /\ r \in ToSet(filament)
  BY DEF TypeInv, LedgerType, KnownInv
<1>3. PICK o \in 1 .. Len(filament) : filament[o] = r
  BY <1>2 DEF ToSet
<1> QED BY <1>1, <1>2, <1>3, ThoseFinds DEF GetPendings

\* startProcessor and the requests processor.
LEMMA ProcessRemembers ==
    ASSUME TypeInv, CallerInv, BrokersInv, NEW n \in Nodes, Process(n) \/ AskLedgerFails(n)
    PROVE  CallerInv' /\ BrokersInv'
<1> DEFINE o == broker[n]
<1>o. o \in Brokers /\ Quiet(o)
  BY DEF TypeInv, NodeType, BrokersInv
<1>n. o.starters \in Nat /\ o.starters + 1 \in Nat
      /\ (o.starters > 0 => o.starters - 1 \in Nat /\ o.starters # 0)
  BY <1>o DEF Brokers
<1>s. ASSUME NEW b, broker' = [broker EXCEPT ![n] = b], b.on,
             UNCHANGED <<time, calls, accepted, net, ledger>>,
             \A r \in accepted : Keeper(n, r) /\ Remembers(o, r) => Remembers(b, r)
      PROVE  CallerInv' /\ BrokersInv'
  <2>1. Quiet(b) /\ CallMethods' \subseteq CallMethods
    BY <1>s DEF Quiet, CallMethods
  <2> QED BY <1>s, <2>1, OneBroker
<1>p. ASSUME NEW b, b.hasMore = o.hasMore \/ b.hasMore # "LedgerIsEmpty",
             b.fetched = o.fetched, b.more = o.more, b.proc = o.proc
      PROVE  \A r \in accepted : Keeper(n, r) /\ Remembers(o, r) => Remembers(b, r)
  BY <1>p DEF Remembers
<1> HIDE DEF o
<1>1. CASE AskLedger(n)
  <2> DEFINE asked == IF HasPendings(nodePulse[n]) THEN "has" ELSE "has not"
             b == [o EXCEPT !.starters = @ - 1, !.asked = asked]
  <2>1. SetBroker(n, b) /\ o.starters > 0
    BY <1>1 DEF AskLedger, o
  <2>2. asked \in Asked
    BY DEF Asked
  <2> HIDE DEF asked
  <2>3. b.on /\ b.hasMore = o.hasMore /\ b.fetched = o.fetched /\ b.more = o.more /\ b.proc = o.proc
    BY <1>o, <1>n, <2>1, <2>2 DEF Brokers, Quiet
  <2> HIDE DEF b
  <2> QED BY <1>p, <1>s, <2>1, <2>3 DEF SetBroker
<1>2. CASE AskLedgerFails(n)
  <2> DEFINE b == [o EXCEPT !.starters = @ - 1]
  <2>1. /\ broker' = [broker EXCEPT ![n] = b] /\ o.starters > 0
        /\ UNCHANGED <<time, calls, accepted, net, ledger>>
    BY <1>2 DEF AskLedgerFails, o
  <2>2. b.on /\ b.hasMore = o.hasMore /\ b.fetched = o.fetched /\ b.more = o.more /\ b.proc = o.proc
    BY <1>o, <1>n, <2>1 DEF Brokers, Quiet
  <2> HIDE DEF b
  <2> QED BY <1>p, <1>s, <2>1, <2>2
<1>3. CASE ClarifyPendingState(n)
  <2> DEFINE b == IF o.pending # "PendingUnknown"
                    THEN [o EXCEPT !.starters = @ + 1, !.asked = "no one"]
                    ELSE IF o.asked = "has"
                    THEN [o EXCEPT !.starters = @ + 1, !.asked = "no one",
                                   !.pending = "InPending", !.hasMore = "LedgerHasMoreUnknown"]
                    ELSE [o EXCEPT !.starters = @ + 1, !.asked = "no one",
                                   !.pending = "NotPending"]
  <2>1. SetBroker(n, b) /\ o.asked # "no one"
    BY <1>3 DEF ClarifyPendingState, o
  <2>2. /\ b.on /\ b.fetched = o.fetched /\ b.more = o.more /\ b.proc = o.proc
        /\ b.hasMore = o.hasMore \/ b.hasMore # "LedgerIsEmpty"
    BY <1>o, <1>n, <2>1 DEF Brokers, Quiet
  <2> HIDE DEF b
  <2> QED BY <1>p, <1>s, <2>1, <2>2 DEF SetBroker
<1>4. CASE StartProcessor(n)
  <2> DEFINE b == IF o.pending = "NotPending" /\ o.proc = "off"
                    THEN [o EXCEPT !.starters = @ - 1, !.more = FALSE, !.proc = "fetching"]
                    ELSE [o EXCEPT !.starters = @ - 1]
  <2>1. SetBroker(n, b) /\ o.starters > 0
    BY <1>4 DEF StartProcessor, o
  <2>2. /\ b.on /\ b.hasMore = o.hasMore /\ b.fetched = o.fetched
        /\ b.proc = "fetching" \/ (b.more = o.more /\ b.proc = o.proc)
    BY <1>o, <1>n, <2>1 DEF Brokers, Quiet
  <2> HIDE DEF b
  <2>3. \A r \in accepted : Remembers(o, r) => Remembers(b, r)
    BY <2>2 DEF Remembers
  <2> QED BY <1>s, <2>1, <2>2, <2>3 DEF SetBroker
<1>5. CASE Fetch(n)
  <2> DEFINE new == GetPendings(nodePulse[n], o.fetched)
             fetched == o.fetched \cup ToSet(new)
             queue == o.queue \o Those(new, Mutable)
             ready == o.ready \cup (ToSet(new) \cap Immutable)
             b == IF new = << >>
                    THEN [o EXCEPT !.proc = "end"]
                    ELSE [o EXCEPT !.fetched = fetched, !.queue = queue, !.ready = ready]
  <2>1. SetBroker(n, b) /\ o.proc = "fetching"
    BY <1>5 DEF Fetch, o
  <2>2. \A r \in accepted : Keeper(n, r) /\ new = << >> => r \in o.fetched
    BY NothingLeft, PulseFacts
  <2>3. o.fetched \subseteq fetched
    OBVIOUS
  <2> HIDE DEF new, fetched, queue, ready
  <2>4. /\ b.on /\ b.hasMore = o.hasMore /\ b.more = o.more
        /\ b.fetched = IF new = << >> THEN o.fetched ELSE fetched
        /\ b.proc = IF new = << >> THEN "end" ELSE o.proc
    BY <1>o, <2>1 DEF Brokers, Quiet
  <2> HIDE DEF b
  <2>5. \A r \in accepted : Keeper(n, r) /\ Remembers(o, r) => Remembers(b, r)
    BY <2>1, <2>2, <2>3, <2>4 DEF Remembers
  <2> QED BY <1>s, <2>1, <2>4, <2>5 DEF SetBroker
<1>6. CASE NoMoreRequests(n)
  <2> DEFINE hasMore == IF o.more THEN o.hasMore
                        ELSE IF o.first /\ o.fetched = {} THEN "LedgerIsEmpty"
                        ELSE "LedgerHasMoreKnown"
             b == [o EXCEPT !.proc = "waiting", !.first = FALSE, !.hasMore = hasMore]
  <2>1. SetBroker(n, b) /\ o.proc = "end"
    BY <1>6 DEF NoMoreRequests, o
  <2>2. \A r : Remembers(o, r) => hasMore # "LedgerIsEmpty" /\ (r \in o.fetched \/ o.more)
    BY <2>1 DEF Remembers
  <2> HIDE DEF hasMore
  <2>3. b.on /\ b.hasMore = hasMore /\ b.fetched = o.fetched /\ b.more = o.more
    BY <1>o, <2>1 DEF Brokers, Quiet
  <2> HIDE DEF b
  <2>4. \A r \in accepted : Remembers(o, r) => Remembers(b, r)
    BY <2>2, <2>3 DEF Remembers
  <2> QED BY <1>s, <2>1, <2>3, <2>4 DEF SetBroker
<1>7. CASE Refetch(n)
  <2> DEFINE b == [o EXCEPT !.proc = "fetching", !.more = FALSE]
  <2>1. SetBroker(n, b) /\ o.proc = "waiting"
    BY <1>7 DEF Refetch, o
  <2>2. b.on /\ b.hasMore = o.hasMore /\ b.proc = "fetching"
    BY <1>o, <2>1 DEF Brokers, Quiet
  <2> HIDE DEF b
  <2>3. \A r \in accepted : Remembers(o, r) => Remembers(b, r)
    BY <2>2 DEF Remembers
  <2> QED BY <1>s, <2>1, <2>2, <2>3 DEF SetBroker
<1> QED BY <1>1, <1>2, <1>3, <1>4, <1>5, <1>6, <1>7 DEF Process

\* A step that changes no broker, and in which no time passes.
LEMMA NoBrokerStep ==
    ASSUME TypeInv, CallerInv, BrokersInv, UNCHANGED <<time, broker>>, reg' = reg,
           accepted' = accepted, CallMethods' \subseteq CallMethods, calls' \subseteq calls,
           \A r \in Requests : closedAt'[r] = closedAt[r] \/ closedAt[r] = 0
    PROVE  CallerInv' /\ BrokersInv'
<1>1. CallerInv'
  BY CallerStays DEF time
<1>2. \A n \in Nodes : Quiet(broker'[n])
  BY DEF BrokersInv
<1> QED BY <1>1, <1>2, BrokersStay

\* The goroutines that execute requests tell the broker that they took one and
\* that they finished one.
LEMMA TranscriptRemembers ==
    ASSUME TypeInv, CallerInv, BrokersInv, NEW n \in Nodes, NEW r \in Requests,
           Transcript(n, r) \/ ExecutionFails(n, r)
    PROVE  CallerInv' /\ BrokersInv'
<1> DEFINE o == broker[n]
<1>o. o \in Brokers /\ Quiet(o)
  BY DEF TypeInv, NodeType, BrokersInv
<1>s. ASSUME NEW b, broker' = [broker EXCEPT ![n] = b], b.on = o.on, b.hasMore = o.hasMore,
             b.fetched = o.fetched, b.more = o.more, b.proc = o.proc, b.starters = o.starters,
             b.asked = o.asked, UNCHANGED <<time, calls, accepted, net, ledger>>
      PROVE  CallerInv' /\ BrokersInv'
  <2>1. Quiet(b) /\ CallMethods' \subseteq CallMethods
    BY <1>o, <1>s DEF Quiet, CallMethods
  <2>2. \A s \in accepted : Remembers(o, s) => Remembers(b, s)
    BY <1>s DEF Remembers
  <2> QED BY <1>s, <2>1, <2>2, OneBroker
<1> HIDE DEF o
<1>1. CASE Take(n, r)
  <2> DEFINE queue == Tail(o.queue)
             ready == o.ready \ {r}
             b == [o EXCEPT !.queue = queue]
             c == [o EXCEPT !.ready = ready]
  <2>1. /\ broker' = [broker EXCEPT ![n] = b] \/ broker' = [broker EXCEPT ![n] = c]
        /\ UNCHANGED <<time, calls, accepted, net, ledger>>
    BY <1>1 DEF Take, o
  <2> HIDE DEF queue, ready
  <2>2. /\ b.on = o.on /\ b.hasMore = o.hasMore /\ b.fetched = o.fetched /\ b.more = o.more
        /\ b.proc = o.proc /\ b.starters = o.starters /\ b.asked = o.asked
        /\ c.on = o.on /\ c.hasMore = o.hasMore /\ c.fetched = o.fetched /\ c.more = o.more
        /\ c.proc = o.proc /\ c.starters = o.starters /\ c.asked = o.asked
    BY <1>o DEF Brokers
  <2> HIDE DEF b, c
  <2> QED BY <1>s, <2>1, <2>2
<1>2. CASE FinishTranscript(n, r)
  <2> DEFINE b == [o EXCEPT !.finished = TRUE]
  <2>1. /\ broker' = broker \/ broker' = [broker EXCEPT ![n] = b]
        /\ UNCHANGED <<time, calls, accepted, net, ledger>>
    BY <1>2 DEF FinishTranscript, o
  <2>2. /\ b.on = o.on /\ b.hasMore = o.hasMore /\ b.fetched = o.fetched /\ b.more = o.more
        /\ b.proc = o.proc /\ b.starters = o.starters /\ b.asked = o.asked
    BY <1>o DEF Brokers
  <2> HIDE DEF b
  <2>3. CASE broker' = broker
    BY <2>1, <2>3, NoBrokerStep DEF ledger, CallMethods
  <2> QED BY <1>s, <2>1, <2>2, <2>3
<1>3. CASE ReadIndex(n, r)
  BY <1>3, NoBrokerStep DEF ReadIndex, ledger, CallMethods
<1>4. CASE GetObject(n, r)
  BY <1>4, NoBrokerStep DEF GetObject, ledger, CallMethods
<1>5. CASE ExecutionFails(n, r)
  BY <1>5, NoBrokerStep DEF ExecutionFails, ledger, CallMethods
<1>6. CASE ExecuteAndSave(n, r)
  <2>1. /\ closedAt' = [closedAt EXCEPT ![r] = pulse] \/ closedAt' = closedAt
        /\ closedAt' # closedAt => r \notin Closed(pulse)
        /\ UNCHANGED <<time, broker, calls, accepted, net>> /\ reg' = reg
    BY <1>6 DEF ExecuteAndSave, SetResult, OldestMutable, OpenedRequests
  <2>2. closedAt \in [Requests -> 0 .. pulse]
    BY DEF TypeInv, LedgerType
  <2>3. r \notin Closed(pulse) => closedAt[r] = 0
    BY <2>2, PulseFacts DEF Closed
  <2>4. \A s \in Requests : closedAt'[s] = closedAt[s] \/ closedAt[s] = 0
    BY <2>1, <2>2, <2>3
  <2> QED BY <2>1, <2>4, NoBrokerStep DEF CallMethods
<1>7. CASE \E by \in Pulses, kept \in BOOLEAN : FinishPending(n, r, by, kept)
  <2>1. CallMethods' \subseteq CallMethods /\ UNCHANGED <<time, broker, calls, accepted, ledger>>
    BY <1>7 DEF FinishPending, CallMethods
  <2> QED BY <2>1, NoBrokerStep DEF ledger
<1> QED BY <1>1, <1>2, <1>3, <1>4, <1>5, <1>6, <1>7 DEF Transcript

\* A request that is registered once more, and found closed, is nobody's to
\* keep in mind.
LEMMA RegisterRemembers ==
    ASSUME TypeInv, CallerInv, BrokersInv, NEW m \in net, RegisterIncomingRequest(m)
    PROVE  BrokersInv'
<1>1. /\ m \in CallMethods /\ m.kind = "CallMethod" /\ m.pulse = pulse /\ pulse' = pulse
      /\ executor' = executor /\ nodePulse' = nodePulse /\ broker' = broker
      /\ closedAt' = closedAt /\ UNCHANGED time
      /\ reg' = IF reg[m.req] = 0 THEN [reg EXCEPT ![m.req] = pulse] ELSE reg
      /\ accepted' = IF m.req \in Closed(pulse) THEN accepted \cup {m.req} ELSE accepted
  BY DEF RegisterIncomingRequest, SetRequest, Arrives, CallMethods, time
<1>2. m.req \in Requests /\ reg \in [Requests -> 0 .. pulse]
  BY <1>1, MessageFacts DEF TypeInv, LedgerType
<1>3. ASSUME NEW r \in Registered PROVE reg'[r] = reg[r] /\ r \in Requests /\ reg[r] \in 1 .. pulse
  BY <1>1, <1>2, PulseFacts DEF Registered
<1>4. ASSUME NEW n \in Nodes, NEW r \in accepted', Keeper(n, r)'
      PROVE  Remembers(broker[n], r)
  <2>1. CASE r \in accepted
    <3>1. r \in Registered
      BY <2>1, PulseFacts
    <3>2. Keeper(n, r)
      BY <1>1, <1>3, <1>4, <3>1, KeeperStays
    <3> QED BY <2>1, <3>2 DEF BrokersInv
  <2>2. CASE r = m.req /\ r \in Closed(pulse)
    <3>1. closedAt[r] \in 1 .. pulse /\ r \in Requests
      BY <2>2 DEF Closed
    <3>2. r \in Registered
      BY <3>1, PulseFacts DEF TypeInv, KnownInv
    <3>3. Follows(r, pulse)
      BY <1>1, <2>2, <3>2 DEF CallerInv, FollowInv
    <3>4. Keeper(n, r)
      BY <1>1, <1>3, <1>4, <3>2, KeeperStays
    <3>5. nodePulse[n] = pulse
      BY <1>3, <3>2, <3>3, <3>4, PulseFacts DEF Keeper, Follows, LeftBehind
    <3> QED BY <2>2, <3>4, <3>5 DEF Keeper, OpenedRequests
  <2> QED BY <1>1, <2>1, <2>2
<1>5. \A n \in Nodes : Quiet(broker'[n])
  BY <1>1 DEF BrokersInv
<1>6. \A n \in Nodes : \A r : Remembers(broker[n], r)' = Remembers(broker[n], r)
  BY <1>1 DEF Remembers
<1>7. \A n \in Nodes : Quiet(broker[n])' = Quiet(broker'[n])
  BY DEF Quiet
<1> QED BY <1>4, <1>5, <1>6, <1>7 DEF BrokersInv

\* A call is accepted by the broker of its pulse, which is told of it, or after
\* that pulse.
LEMMA HandleRemembers ==
    ASSUME TypeInv, CallerInv, BrokersInv, NEW h \in calls,
           HandleCall(h) \/ SendToNextExecutor(h)
    PROVE  CallerInv' /\ BrokersInv'
<1>h. /\ h.node \in Nodes /\ h.pulse \in 1 .. pulse /\ h.req \in Registered
      /\ h.node = executor[h.pulse] /\ Follows(h.req, h.pulse)
  BY CallFacts DEF CallerInv, CallsInv, FollowInv
<1>1. /\ UNCHANGED <<time, ledger>> /\ accepted' = accepted \cup {h.req}
      /\ calls' \subseteq calls /\ CallMethods' \subseteq CallMethods
      /\ nodePulse[h.node] >= h.pulse
  BY <1>h, PulseFacts DEF HandleCall, SendToNextExecutor, CallMethods
<1>2. CallerInv'
  BY <1>1, CallerStays DEF time, ledger
<1>3. ASSUME NEW n \in Nodes, Keeper(n, h.req)
      PROVE  n = h.node /\ nodePulse[n] = h.pulse
  <2>1. reg[h.req] = nodePulse[n] /\ executor[nodePulse[n]] = n
    BY <1>3 DEF Keeper
  <2>2. reg[h.req] \in Nat /\ reg[h.req] = h.pulse
    BY <1>h, <2>1, PulseFacts DEF Follows, LeftBehind
  <2> QED BY <1>h, <2>1, <2>2
<1>4. /\ \A n \in Nodes : Quiet(broker'[n])
      /\ \A n \in Nodes : \A r : Remembers(broker[n], r) => Remembers(broker'[n], r)
      /\ \A n \in Nodes : Keeper(n, h.req) => Remembers(broker'[n], h.req)
  <2>1. CASE HandleCall(h)
    <3> DEFINE b == HasMoreRequests(Upsert(h.node))
    <3>1. broker' = [broker EXCEPT ![h.node] = b]
      BY <2>1 DEF HandleCall
    <3>2. b.on /\ \A r : Remembers(b, r)
      BY <1>h, UpsertRemembers, HasMoreRemembers
    <3> HIDE DEF b
    <3>3. broker'[h.node] = b /\ \A n \in Nodes \ {h.node} : broker'[n] = broker[n]
      BY <1>h, <3>1 DEF TypeInv, NodeType
    <3> QED BY <1>3, <3>2, <3>3 DEF BrokersInv, Quiet
  <2>2. CASE SendToNextExecutor(h)
    <3>1. broker' = broker /\ nodePulse[h.node] > h.pulse
      BY <2>2 DEF SendToNextExecutor
    <3>2. \A n \in Nodes : ~Keeper(n, h.req)
      BY <1>h, <1>3, <3>1, PulseFacts
    <3> QED BY <3>1, <3>2 DEF BrokersInv
  <2> QED BY <2>1, <2>2
<1>5. ASSUME NEW n \in Nodes, NEW r \in accepted', Keeper(n, r)'
      PROVE  Remembers(broker'[n], r)
  <2>1. r \in Registered
    BY <1>h, <1>1, PulseFacts
  <2>2. Keeper(n, r)
    BY <1>1, <1>5, <2>1, KeeperStays DEF ledger
  <2> QED BY <1>1, <1>4, <2>2 DEF BrokersInv
<1>6. \A n \in Nodes : \A r : Remembers(broker[n], r)' = Remembers(broker'[n], r)
  BY DEF Remembers
<1>7. \A n \in Nodes : Quiet(broker[n])' = Quiet(broker'[n])
  BY DEF Quiet
<1> QED BY <1>2, <1>4, <1>5, <1>6, <1>7 DEF BrokersInv

\* A new pulse comes, to the ledger first, or a node comes to it or dies.
LEMMA TimeRemembers ==
    ASSUME TypeInv, CallerInv, BrokersInv, NEW n \in Nodes,
           NewPulse(n) \/ OnPulse(n) \/ Crash(n)
    PROVE  CallerInv' /\ BrokersInv'
<1>1. UNCHANGED ledger /\ accepted' = accepted /\ calls' \subseteq calls
  BY DEF NewPulse, OnPulse, Crash
<1>2. CallMethods' \subseteq CallMethods
  <2>1. CASE NewPulse(n)
    BY <2>1 DEF NewPulse, AbandonedRequests, CallMethods
  <2>2. CASE OnPulse(n)
    <3>1. \A m \in ExecutorResults(n) \cup StillExecuting(n) : m.kind # "CallMethod"
      BY DEF ExecutorResults, StillExecuting
    <3> QED BY <2>2, <3>1 DEF OnPulse, CallMethods
  <2>3. CASE Crash(n)
    BY <2>3 DEF Crash, CallMethods
  <2> QED BY <2>1, <2>2, <2>3
<1>3. \A p \in 1 .. pulse : executor'[p] = executor[p]
  <2>1. CASE NewPulse(n)
    <3>1. executor' = Append(executor, n)
      BY <2>1 DEF NewPulse
    <3>2. executor \in [1 .. pulse -> Nodes] /\ pulse \in Nat
      BY PulseFacts DEF TypeInv, TimeType
    <3>3. executor \in Seq(Nodes) /\ Len(executor) = pulse
      <4>1. executor \in Seq(Nodes) /\ DOMAIN executor = 1 .. pulse
        BY <3>2
      <4> QED BY <3>2, <4>1
    <3> QED BY <3>1, <3>3
  <2> QED BY <2>1 DEF OnPulse, Crash
<1>4. /\ \/ nodePulse' = nodePulse /\ broker' = broker
         \/ /\ nodePulse' = [nodePulse EXCEPT ![n] = 0] \/
               (nodePulse' = [nodePulse EXCEPT ![n] = pulse] /\ nodePulse[n] # 0 /\ nodePulse[n] < pulse)
            /\ broker' = [broker EXCEPT ![n] = NoBroker]
  BY PulseFacts DEF NewPulse, OnPulse, Crash, Alive
<1>5. /\ nodePulse \in [Nodes -> 0 .. pulse] /\ broker \in [Nodes -> Brokers]
      /\ filament' = filament /\ reg' = reg /\ closedAt' = closedAt
  BY <1>1 DEF TypeInv, TimeType, NodeType, ledger
<1>6. CallerInv'
  <2>1. \A k \in Nodes : nodePulse'[k] \in {nodePulse[k], 0, pulse}
    BY <1>4, <1>5
  <2> QED BY <1>1, <1>2, <1>3, <1>5, <2>1, CallerStays
<1>7. \A k \in Nodes : Quiet(broker'[k])
  <2>1. Quiet(NoBroker) /\ \A k \in Nodes : broker'[k] \in {broker[k], NoBroker}
    BY <1>4, <1>5, BrokerTypes DEF Quiet, NoBroker, NewBroker
  <2> QED BY <2>1 DEF BrokersInv
<1>8. ASSUME NEW k \in Nodes, NEW r \in accepted, Keeper(k, r)'
      PROVE  Remembers(broker'[k], r)
  <2>1. r \in Registered /\ r \in Requests /\ reg[r] \in 1 .. pulse
    BY PulseFacts DEF Registered, TypeInv, LedgerType
  <2>2. reg[r] = nodePulse'[k] /\ executor'[nodePulse'[k]] = k /\ r \in OpenedRequests(nodePulse'[k])
    BY <1>5, <1>8 DEF Keeper, OpenedRequests, Closed
  <2>3. CASE nodePulse'[k] = nodePulse[k] /\ broker'[k] = broker[k]
    <3>1. Keeper(k, r)
      BY <1>3, <2>1, <2>2, <2>3 DEF Keeper
    <3> QED BY <2>3, <3>1 DEF BrokersInv
  <2>4. CASE nodePulse'[k] # nodePulse[k] \/ broker'[k] # broker[k]
    <3>1. k = n /\ (nodePulse'[n] = 0 \/ (nodePulse'[n] = pulse /\ nodePulse[n] # 0 /\ nodePulse[n] < pulse))
      BY <1>4, <1>5, <2>4
    <3>2. reg[r] = pulse /\ executor[reg[r]] = n /\ nodePulse[n] # 0 /\ nodePulse[n] < pulse
      BY <1>3, <2>1, <2>2, <3>1, PulseFacts
    <3>3. nodePulse[n] = 0 \/ nodePulse[n] >= pulse
      BY <2>1, <3>2 DEF CallerInv, NeverBehind
    <3> QED BY <3>2, <3>3, PulseFacts
  <2> QED BY <2>3, <2>4
<1>9. \A k \in Nodes : \A r : Remembers(broker[k], r)' = Remembers(broker'[k], r)
  BY DEF Remembers
<1>10. \A k \in Nodes : Quiet(broker[k])' = Quiet(broker'[k])
  BY DEF Quiet
<1> QED BY <1>1, <1>6, <1>7, <1>8, <1>9, <1>10 DEF BrokersInv

\* Every step keeps in mind what was accepted.
LEMMA RememberStep == TypeInv /\ CallerInv /\ BrokersInv /\ [Next]_vars => CallerInv' /\ BrokersInv'
<1> SUFFICES ASSUME TypeInv, CallerInv, BrokersInv, [Next]_vars PROVE CallerInv' /\ BrokersInv'
  OBVIOUS
<1>q. ASSUME UNCHANGED <<time, broker, accepted, ledger>>, CallMethods' \subseteq CallMethods,
             calls' \subseteq calls
      PROVE  CallerInv' /\ BrokersInv'
  BY <1>q, NoBrokerStep DEF ledger
<1>s. ASSUME CallerInv', UNCHANGED <<time, broker, accepted, ledger>>
      PROVE  CallerInv' /\ BrokersInv'
  BY <1>s, BrokersStay DEF BrokersInv, ledger
<1>1. CASE UNCHANGED vars
  BY <1>1, <1>q DEF vars, CallMethods
<1>2. ASSUME NEW r \in Requests, SendCall(r) PROVE CallerInv' /\ BrokersInv'
  BY <1>2, <1>s, SendingCaller DEF SendCall
<1>3. ASSUME NEW m \in net, Deliver(m) \/ Lose(m) PROVE CallerInv' /\ BrokersInv'
  <2>1. CASE RegisterIncomingRequest(m)
    BY <2>1, RegisterCaller, RegisterRemembers
  <2>2. CASE CallTooLate(m)
    BY <1>s, <2>2, SendingCaller DEF CallTooLate
  <2>3. CASE TooLate(m)
    <3>1. UNCHANGED <<time, broker, accepted, ledger, calls>>
      BY <2>3 DEF TooLate
    <3>2. CallMethods' \subseteq CallMethods
      <4>1. m.kind # "CallMethod"
        BY <2>3 DEF TooLate
      <4>2. ASSUME NEW v \in net', v \notin net PROVE v.kind # "CallMethod"
        <5>1. /\ m.kind \in {"PendingFinished", "AdditionalCall"}
              /\ v = [m EXCEPT !.to = To(nodePulse[m.from]),
                               !.pulse = nodePulse[m.from], !.tries = @ - 1]
          BY <2>3, <4>2 DEF TooLate
        <5>2. m \in Messages
          BY MessageFacts
        <5>3. v.kind = m.kind
          BY <5>1, <5>2 DEF Messages
        <5> QED BY <4>1, <5>3
      <4> QED BY <4>2 DEF CallMethods
    <3> QED BY <1>q, <3>1, <3>2
  <2>4. CASE NobodyThere(m) \/ Lose(m)
    BY <1>q, <2>4 DEF NobodyThere, Lose, CallMethods
  <2> QED BY <1>3, <2>1, <2>2, <2>3, <2>4, MessageRemembers DEF Deliver
<1>4. ASSUME NEW h \in calls, Handle(h) PROVE CallerInv' /\ BrokersInv'
  <2>1. CASE CallCancelled(h)
    BY <1>s, <2>1, SendingCaller DEF CallCancelled
  <2> QED BY <1>4, <2>1, HandleRemembers DEF Handle
<1>5. ASSUME NEW n \in Nodes, Process(n) \/ AskLedgerFails(n) PROVE CallerInv' /\ BrokersInv'
  BY <1>5, ProcessRemembers
<1>6. ASSUME NEW n \in Nodes, NEW r \in Requests, Transcript(n, r) \/ ExecutionFails(n, r)
      PROVE  CallerInv' /\ BrokersInv'
  BY <1>6, TranscriptRemembers
<1>7. ASSUME NEW n \in Nodes, NewPulse(n) \/ OnPulse(n) \/ Crash(n)
      PROVE  CallerInv' /\ BrokersInv'
  BY <1>7, TimeRemembers
<1> QED BY <1>1, <1>2, <1>3, <1>4, <1>5, <1>6, <1>7 DEF Next

\* Initially nothing was accepted.
LEMMA InitRemembers == Init => CallerInv /\ BrokersInv
<1> SUFFICES ASSUME Init PROVE CallerInv /\ BrokersInv
  OBVIOUS
<1>1. CallerInv
  BY DEF Init, CallerInv, CallsInv, NeverBehind, FollowInv, CallMethods, Registered
<1>2. BrokersInv
  BY BrokerTypes DEF Init, BrokersInv, Quiet, NoBroker, NewBroker
<1> QED BY <1>1, <1>2

\* The broker that a request was told to keeps it in mind for as long as it is
\* open, for every set of nodes and every finite set of requests, whatever is
\* late, lost, repeated or dead.
THEOREM AcceptedStayRemembered == Spec => []AcceptedIsRemembered
<1>1. TypeInv /\ BrokersInv => AcceptedIsRemembered
  BY DEF BrokersInv, AcceptedIsRemembered, Keeper, Remembers, To
<1> QED BY <1>1, InitType, NextType, InitRemembers, RememberStep, PTL DEF Spec
=============================================================================
