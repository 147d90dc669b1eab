----------------------- MODULE LightReplicationProofs -----------------------
(* What the replicator's notifications must not exceed for the cleaner to  *)
(* be safe: as long as none of them is LightChainLimit + CleanerDelay      *)
(* pulses behind, nothing is cleaned before it was sent, for any number of *)
(* jets, handlers and pulses and whatever overtakes what.                  *)
EXTENDS LightReplication, TLAPS

\* Nothing that is still to be sent is more than MaxLag pulses behind.
LagInv == \A p \in Behind : latest - p <= MaxLag

\* What is under way are pulses of the node that have ended.
PulsesInv ==
    /\ 1 <= latest
    /\ \A p \in notify : 2 <= p /\ p <= latest
    /\ \A p \in queue \cup notifyCl : 1 <= p /\ p < latest
    /\ worker # Idle => 1 <= worker.pulse /\ worker.pulse < latest

\* The cleaner stays CleanFrom pulses behind the latest ended pulse.
CleanerInv ==
    /\ first = 0 \/ first <= latest - CleanFrom
    /\ cleaning # NoPulse => cleaning < latest - CleanFrom
    /\ \A p \in 1 .. latest : latest - CleanFrom <= p => p \in data

\* A pulse that has ended is sent, or somebody is on the way to send it.
SendingInv ==
    \A p \in 1 .. latest - 1 :
        \/ {p} \X Jets \subseteq sent
        \/ p + 1 \in notify
        \/ p \in queue
        \/ worker # Idle /\ worker.pulse = p /\ {p} \X (Jets \ worker.left) \subseteq sent

\* A handler reads within the limit of a pulse that is not long ago.
HandlerInv ==
    \A h \in Handlers : handler[h].pc = "read" =>
        /\ handler[h].at <= latest /\ latest - handler[h].at <= CleanerDelay
        /\ 1 <= handler[h].reads /\ handler[h].reads <= handler[h].at
        /\ handler[h].reads = handler[h].at \/ handler[h].at - handler[h].reads < LightChainLimit

Inv == TypeOK /\ LagInv /\ PulsesInv /\ CleanerInv /\ SendingInv /\ HandlerInv

LEMMA Numbers ==
    ASSUME TypeOK
    PROVE  /\ latest \in Nat /\ first \in Nat /\ CleanFrom \in Nat /\ MaxLag \in Nat
           /\ latest <= MaxPulse /\ MaxPulse \in Nat
           /\ \A p \in Pulses : p \in Nat /\ p <= MaxPulse
           /\ cleaning \in Int /\ NoPulse = -1
BY LimitAssumption, MaxLagAssumption, MaxPulseAssumption
   DEF TypeOK, Pulses, CleanFrom, NoPulse

\* Whoever is about to send a pulse finds it and its data.
LEMMA PulseIsThere ==
    ASSUME Inv, MaxLag < CleanFrom, NEW p \in Pulses, p + 1 \in Behind, 1 <= p, p < latest
    PROVE  p \in data /\ Found(p) /\ Found(p + 1)
<1>1. latest - (p + 1) <= MaxLag
  BY DEF Inv, LagInv
<1>2. latest - CleanFrom <= p
  BY <1>1, Numbers DEF Inv
<1>3. p \in 1 .. latest
  BY Numbers DEF Inv
<1> QED BY <1>2, <1>3, Numbers DEF Inv, CleanerInv, Found

LEMMA InitInv == Init => Inv
<1> SUFFICES ASSUME Init PROVE Inv
  OBVIOUS
<1> USE LimitAssumption, MaxLagAssumption, MaxPulseAssumption
<1>1. TypeOK
  BY DEF Init, TypeOK, Pulses, Idle, NoPulse
<1>2. Behind = {}
  BY DEF Init, Behind
<1>3. LagInv /\ PulsesInv /\ CleanerInv /\ SendingInv /\ HandlerInv
  BY <1>2 DEF Init, LagInv, PulsesInv, CleanerInv, SendingInv, HandlerInv, NoPulse, CleanFrom, Idle
<1> QED BY <1>1, <1>3 DEF Inv

\* Inv is inductive: one step per action.
LEMMA NextInv ==
    ASSUME MaxLag < CleanFrom
    PROVE  Inv /\ [Next]_vars => Inv'
<1> SUFFICES ASSUME Inv, [Next]_vars PROVE Inv'
  OBVIOUS
<1>t. TypeOK
  BY DEF Inv
<1>n. /\ latest \in Nat /\ first \in Nat /\ CleanFrom \in Nat /\ MaxLag \in Nat
      /\ latest <= MaxPulse /\ MaxPulse \in Nat
      /\ \A p \in Pulses : p \in Nat /\ p <= MaxPulse
      /\ cleaning \in Int /\ NoPulse = -1
  BY <1>t, Numbers
<1>1. CASE SetPulse
  <2>0. /\ latest' = latest + 1 /\ latest + 1 \in Pulses
        /\ data' = data \cup {latest + 1} /\ notify' = notify \cup {latest + 1}
        /\ UNCHANGED <<first, queue, worker, sent, notifyCl, cleaning, handler>>
    BY <1>1, <1>n DEF SetPulse, cleaner, Pulses
  <2>1. TypeOK'
    BY <1>t, <2>0 DEF TypeOK
  <2>2. LagInv'
    <3>1. Behind' = Behind \cup {latest + 1}
      BY <2>0 DEF Behind
    <3>2. \A p \in Behind : latest + 1 - p <= MaxLag
      BY <1>1 DEF SetPulse
    <3>3. (latest + 1) - (latest + 1) <= MaxLag
      BY <1>n
    <3> SUFFICES ASSUME NEW p \in Behind' PROVE latest' - p <= MaxLag
      BY DEF LagInv
    <3>4. CASE p = latest + 1
      BY <2>0, <3>3, <3>4
    <3>5. CASE p \in Behind
      <4>1. latest + 1 - p <= MaxLag
        BY <3>2, <3>5
      <4>2. p \in Int
        <5>1. worker.pulse \in Int
          BY <1>n, <1>t DEF TypeOK, NoPulse, Pulses
        <5> QED BY <1>n, <1>t, <3>5, <5>1 DEF Behind, TypeOK
      <4> QED BY <1>n, <2>0, <4>1, <4>2
    <3> QED BY <3>1, <3>4, <3>5
  <2>3. PulsesInv'
    <3>1. \A p \in notify' : 2 <= p /\ p <= latest'
      BY <1>n, <1>t, <2>0 DEF Inv, PulsesInv, TypeOK
    <3>2. \A p \in queue \cup notifyCl : 1 <= p /\ p < latest'
      BY <1>n, <1>t, <2>0 DEF Inv, PulsesInv, TypeOK
    <3>3. worker # Idle => 1 <= worker.pulse /\ worker.pulse < latest'
      <4>1. worker.pulse \in Int
        BY <1>n, <1>t DEF TypeOK, NoPulse, Pulses
      <4> QED BY <1>n, <2>0, <4>1 DEF Inv, PulsesInv
    <3> QED BY <1>n, <2>0, <3>1, <3>2, <3>3 DEF PulsesInv, Idle
  <2>4. CleanerInv'
    BY <1>n, <2>0 DEF Inv, CleanerInv
  <2>5. SendingInv'
    <3> SUFFICES ASSUME NEW p \in 1 .. latest
                 PROVE  \/ {p} \X Jets \subseteq sent
                        \/ p + 1 \in notify'
                        \/ p \in queue
                        \/ worker # Idle /\ worker.pulse = p /\ {p} \X (Jets \ worker.left) \subseteq sent
      BY <1>n, <2>0 DEF SendingInv
    <3>1. CASE p = latest
      BY <2>0, <3>1
    <3>2. CASE p # latest
      <4>1. p \in 1 .. latest - 1
        BY <1>n, <3>2
      <4> QED BY <2>0, <4>1 DEF Inv, SendingInv
    <3> QED BY <3>1, <3>2
  <2>6. HandlerInv'
    <3>1. \A h \in Handlers : handler[h].pc = "read" => latest + 1 - handler[h].at <= CleanerDelay
      BY <1>1 DEF SetPulse
    <3>2. \A h \in Handlers : handler[h].at \in Nat
      BY <1>t, <1>n DEF TypeOK
    <3> QED BY <1>n, <2>0, <3>1, <3>2 DEF Inv, HandlerInv
  <2> QED BY <2>1, <2>2, <2>3, <2>4, <2>5, <2>6 DEF Inv
<1>2. ASSUME NEW p \in Pulses, NotifyAboutPulse(p) PROVE Inv'
  <2>1. p \in Behind /\ 2 <= p /\ p <= latest /\ p \in notify
    BY <1>2 DEF NotifyAboutPulse, Behind, Inv, PulsesInv
  <2>2. p - 1 \in Pulses /\ (p - 1) + 1 = p /\ 1 <= p - 1 /\ p - 1 < latest
    BY <1>n, <2>1 DEF Pulses
  <2>3. Found(p - 1) /\ Found(p)
    <3> HIDE DEF Inv
    <3>1. (p - 1) + 1 \in Behind
      BY <2>1, <2>2
    <3> QED BY <2>2, <3>1, PulseIsThere
  <2>4. /\ notify' = notify \ {p} /\ queue' = queue \cup {p - 1}
        /\ UNCHANGED <<latest, first, data, worker, sent, notifyCl, cleaning, handler>>
    BY <1>2, <2>3 DEF NotifyAboutPulse, cleaner
  <2>5. TypeOK'
    BY <1>t, <2>2, <2>4 DEF TypeOK
  <2>6. LagInv'
    <3>1. Behind' \subseteq Behind
      BY <2>1, <2>2, <2>4 DEF Behind
    <3> QED BY <2>4, <3>1 DEF Inv, LagInv
  <2>7. PulsesInv'
    BY <2>2, <2>4 DEF Inv, PulsesInv, Idle
  <2>8. CleanerInv' /\ HandlerInv'
    BY <2>4 DEF Inv, CleanerInv, HandlerInv
  <2>9. SendingInv'
    <3> SUFFICES ASSUME NEW q \in 1 .. latest - 1
                 PROVE  \/ {q} \X Jets \subseteq sent
                        \/ q + 1 \in notify'
                        \/ q \in queue'
                        \/ worker # Idle /\ worker.pulse = q /\ {q} \X (Jets \ worker.left) \subseteq sent
      BY <2>4 DEF SendingInv
    <3>1. CASE q + 1 = p
      BY <1>n, <2>4, <3>1
    <3>2. CASE q + 1 # p
      BY <2>4, <3>2 DEF Inv, SendingInv
    <3> QED BY <3>1, <3>2
  <2> QED BY <2>5, <2>6, <2>7, <2>8, <2>9 DEF Inv
<1>3. ASSUME NEW p \in Pulses, Sync(p) PROVE Inv'
  <2>1. p \in queue /\ 1 <= p /\ p < latest /\ p + 1 \in Behind /\ worker = Idle
    BY <1>3 DEF Sync, Behind, Inv, PulsesInv
  <2>2. p \in data
    BY <2>1, PulseIsThere
  <2>3. /\ queue' = queue \ {p} /\ worker' = [pulse |-> p, left |-> Jets]
        /\ UNCHANGED <<latest, first, data, notify, sent, notifyCl, cleaning, handler>>
    BY <1>3, <2>2 DEF Sync, cleaner
  <2>4. worker' # Idle /\ worker'.pulse = p /\ worker'.left = Jets
    BY <1>n, <2>3 DEF Idle
  <2>5. TypeOK'
    BY <1>t, <2>3 DEF TypeOK
  <2>6. LagInv'
    <3>1. Behind' \subseteq Behind
      BY <2>1, <2>3, <2>4 DEF Behind
    <3> QED BY <2>3, <3>1 DEF Inv, LagInv
  <2>7. PulsesInv'
    BY <2>1, <2>3, <2>4 DEF Inv, PulsesInv
  <2>8. CleanerInv' /\ HandlerInv'
    BY <2>3 DEF Inv, CleanerInv, HandlerInv
  <2>9. SendingInv'
    <3> SUFFICES ASSUME NEW q \in 1 .. latest - 1
                 PROVE  \/ {q} \X Jets \subseteq sent
                        \/ q + 1 \in notify
                        \/ q \in queue'
                        \/ worker' # Idle /\ worker'.pulse = q
                           /\ {q} \X (Jets \ worker'.left) \subseteq sent
      BY <2>3 DEF SendingInv
    <3>1. CASE q = p
      BY <2>4, <3>1
    <3>2. CASE q # p
      BY <2>1, <2>3, <3>2 DEF Inv, SendingInv
    <3> QED BY <3>1, <3>2
  <2> QED BY <2>5, <2>6, <2>7, <2>8, <2>9 DEF Inv
<1>4. ASSUME NEW j \in Jets, SendToHeavy(j) PROVE Inv'
  <2>1. worker # Idle /\ worker.pulse \in Pulses /\ 1 <= worker.pulse /\ worker.pulse < latest
    BY <1>4, <1>t, <1>n DEF SendToHeavy, Idle, TypeOK, Inv, PulsesInv
  <2>2. /\ worker' = [worker EXCEPT !.left = @ \ {j}]
        /\ sent' = sent \cup {<<worker.pulse, j>>}
        /\ UNCHANGED <<latest, first, data, notify, queue, notifyCl, cleaning, handler>>
    BY <1>4 DEF SendToHeavy, cleaner
  <2>3. worker'.pulse = worker.pulse /\ worker'.left = worker.left \ {j} /\ worker' # Idle
    BY <1>t, <1>n, <2>1, <2>2 DEF TypeOK, Idle
  <2>4. TypeOK'
    BY <1>t, <2>1, <2>2 DEF TypeOK
  <2>5. LagInv'
    <3>1. Behind' = Behind
      BY <2>1, <2>2, <2>3 DEF Behind
    <3> QED BY <2>2, <3>1 DEF Inv, LagInv
  <2>6. PulsesInv' /\ CleanerInv' /\ HandlerInv'
    BY <2>1, <2>2, <2>3 DEF Inv, PulsesInv, CleanerInv, HandlerInv
  <2>7. SendingInv'
    <3> SUFFICES ASSUME NEW q \in 1 .. latest - 1
                 PROVE  \/ {q} \X Jets \subseteq sent'
                        \/ q + 1 \in notify
                        \/ q \in queue
                        \/ worker' # Idle /\ worker'.pulse = q
                           /\ {q} \X (Jets \ worker'.left) \subseteq sent'
      BY <2>2 DEF SendingInv
    <3>1. sent \subseteq sent' /\ <<worker.pulse, j>> \in sent'
      BY <2>2
    <3> QED BY <2>3, <3>1 DEF Inv, SendingInv
  <2> QED BY <2>4, <2>5, <2>6, <2>7 DEF Inv
<1>5. CASE Synced
  <2>1. worker # Idle /\ worker.left = {} /\ 1 <= worker.pulse /\ worker.pulse < latest
    BY <1>5 DEF Synced, Inv, PulsesInv
  <2>2. /\ notifyCl' = notifyCl \cup {worker.pulse} /\ worker' = Idle
        /\ UNCHANGED <<latest, first, data, notify, queue, sent, cleaning, handler>>
    BY <1>5 DEF Synced
  <2>3. TypeOK'
    <3>1. Idle \in [pulse : Pulses \cup {NoPulse}, left : SUBSET Jets] /\ worker.pulse \in Pulses
      BY <1>t, <1>n, <2>1 DEF Idle, TypeOK
    <3> QED BY <1>t, <2>2, <3>1 DEF TypeOK
  <2>4. LagInv'
    <3>1. Behind' \subseteq Behind
      BY <2>2 DEF Behind
    <3> QED BY <2>2, <3>1 DEF Inv, LagInv
  <2>5. PulsesInv' /\ CleanerInv' /\ HandlerInv'
    BY <2>1, <2>2 DEF Inv, PulsesInv, CleanerInv, HandlerInv
  <2>6. SendingInv'
    <3>1. Jets \ worker.left = Jets
      BY <2>1
    <3> QED BY <2>1, <2>2, <3>1 DEF Inv, SendingInv
  <2> QED BY <2>3, <2>4, <2>5, <2>6 DEF Inv
<1>6. ASSUME NEW p \in Pulses, Clean(p) PROVE Inv'
  <2>1. p \in notifyCl /\ p < latest /\ cleaning = NoPulse
    BY <1>6 DEF Clean, Inv, PulsesInv
  <2>2. /\ notifyCl' = notifyCl \ {p}
        /\ UNCHANGED <<latest, first, notify, queue, worker, sent, handler>>
    BY <1>6 DEF Clean, replicator
  <2>3. \/ UNCHANGED <<data, cleaning>>
        \/ /\ data' = data \ {p - CleanFrom} /\ cleaning' = p - CleanFrom
           /\ p - CleanFrom \in Pulses /\ p - CleanFrom < latest - CleanFrom
    BY <1>6, <1>n, <2>1 DEF Clean, Found, Pulses
  <2>4. TypeOK'
    BY <1>t, <2>2, <2>3 DEF TypeOK
  <2>5. LagInv' /\ SendingInv' /\ HandlerInv'
    <3>1. Behind' = Behind
      BY <2>2 DEF Behind
    <3> QED BY <2>2, <3>1 DEF Inv, LagInv, SendingInv, HandlerInv
  <2>6. PulsesInv'
    BY <2>2 DEF Inv, PulsesInv
  <2>7. CleanerInv'
    <3>1. cleaning' # NoPulse => cleaning' < latest - CleanFrom
      BY <2>3 DEF Inv, CleanerInv
    <3>2. \A q \in 1 .. latest : latest - CleanFrom <= q => q \in data'
      BY <1>n, <2>3 DEF Inv, CleanerInv
    <3> QED BY <2>2, <3>1, <3>2 DEF Inv, CleanerInv
  <2> QED BY <2>4, <2>5, <2>6, <2>7 DEF Inv
<1>7. CASE Shift
  <2>1. /\ first' \in {first, cleaning + 1} /\ cleaning' = NoPulse /\ cleaning # NoPulse
        /\ UNCHANGED <<latest, data, notify, queue, worker, sent, notifyCl, handler>>
    BY <1>7 DEF Shift, replicator
  <2>2. cleaning \in Pulses /\ cleaning + 1 <= latest - CleanFrom /\ cleaning + 1 \in Pulses
    BY <1>t, <1>n, <2>1 DEF Inv, CleanerInv, TypeOK, Pulses
  <2>3. TypeOK'
    BY <1>t, <2>1, <2>2 DEF TypeOK
  <2>4. LagInv' /\ SendingInv' /\ HandlerInv' /\ PulsesInv'
    <3>1. Behind' = Behind
      BY <2>1 DEF Behind
    <3> QED BY <2>1, <3>1 DEF Inv, LagInv, SendingInv, HandlerInv, PulsesInv
  <2>5. CleanerInv'
    BY <2>1, <2>2 DEF Inv, CleanerInv
  <2> QED BY <2>3, <2>4, <2>5 DEF Inv
<1>8. ASSUME NEW h \in Handlers, NEW p \in Pulses, CheckLimit(h, p) PROVE Inv'
  <2>1. /\ handler' = [handler EXCEPT ![h] = [pc |-> "read", at |-> latest, reads |-> p]]
        /\ UNCHANGED <<latest, first, data, notify, queue, worker, sent, notifyCl, cleaning>>
    BY <1>8 DEF CheckLimit, replicator, cleaner
  <2>2. 1 <= p /\ p <= latest /\ (p = latest \/ latest - p < LightChainLimit)
    BY <1>8, <1>n DEF CheckLimit, IsBeyondLimit
  <2>3. TypeOK'
    BY <1>t, <2>1 DEF TypeOK
  <2>4. LagInv' /\ SendingInv' /\ CleanerInv' /\ PulsesInv'
    <3>1. Behind' = Behind
      BY <2>1 DEF Behind
    <3> QED BY <2>1, <3>1 DEF Inv, LagInv, SendingInv, CleanerInv, PulsesInv
  <2>5. HandlerInv'
    <3>1. handler'[h] = [pc |-> "read", at |-> latest, reads |-> p]
      BY <1>t, <2>1 DEF TypeOK
    <3>2. \A g \in Handlers \ {h} : handler'[g] = handler[g]
      BY <1>t, <2>1 DEF TypeOK
    <3> QED BY <1>n, <2>1, <2>2, <3>1, <3>2, LimitAssumption DEF Inv, HandlerInv
  <2> QED BY <2>3, <2>4, <2>5 DEF Inv
<1>9. ASSUME NEW h \in Handlers, Read(h) PROVE Inv'
  <2>1. /\ handler' = [handler EXCEPT ![h].pc = "idle"]
        /\ UNCHANGED <<latest, first, data, notify, queue, worker, sent, notifyCl, cleaning>>
    BY <1>9 DEF Read, replicator, cleaner
  <2>2. TypeOK'
    BY <1>t, <2>1 DEF TypeOK
  <2>3. LagInv' /\ SendingInv' /\ CleanerInv' /\ PulsesInv'
    <3>1. Behind' = Behind
      BY <2>1 DEF Behind
    <3> QED BY <2>1, <3>1 DEF Inv, LagInv, SendingInv, CleanerInv, PulsesInv
  <2>4. HandlerInv'
    BY <1>t, <2>1 DEF Inv, HandlerInv, TypeOK
  <2> QED BY <2>2, <2>3, <2>4 DEF Inv
<1>10. CASE UNCHANGED vars
  <2>1. Behind' = Behind
    BY <1>10 DEF vars, Behind
  <2> QED BY <1>10, <2>1
        DEF vars, Inv, TypeOK, LagInv, PulsesInv, CleanerInv, SendingInv, HandlerInv
<1> QED
  BY <1>1, <1>2, <1>3, <1>4, <1>5, <1>6, <1>7, <1>8, <1>9, <1>10 DEF Next

\* What the invariant says of the cleaner and of those it must not disturb.
LEMMA InvIsSafe ==
    ASSUME Inv, MaxLag < CleanFrom
    PROVE  SentBeforeCleaned /\ WorkerFindsData /\ HandlerFindsData
<1>n. /\ latest \in Nat /\ first \in Nat /\ CleanFrom \in Nat /\ MaxLag \in Nat
  BY Numbers DEF Inv
<1>1. SentBeforeCleaned
  <2> SUFFICES ASSUME NEW p \in 1 .. latest, p \notin data \/ p < first
               PROVE  {p} \X Jets \subseteq sent
    BY DEF SentBeforeCleaned
  <2>1. p < latest - CleanFrom /\ p \in 1 .. latest - 1
    BY <1>n DEF Inv, CleanerInv
  <2>2. p + 1 \notin Behind
    BY <1>n, <2>1 DEF Inv, LagInv
  <2> QED BY <2>1, <2>2 DEF Inv, SendingInv, Behind
<1>2. WorkerFindsData
  <2> SUFFICES ASSUME worker.left # {} PROVE worker.pulse \in data
    BY DEF WorkerFindsData
  <2>1. worker # Idle
    BY DEF Idle
  <2>2. worker.pulse \in Pulses
    BY <2>1, Numbers DEF Inv, PulsesInv, TypeOK
  <2>3. worker.pulse + 1 \in Behind
    BY <2>1 DEF Behind
  <2> QED BY <2>1, <2>2, <2>3, PulseIsThere DEF Inv, PulsesInv
<1>3. HandlerFindsData
  <2> SUFFICES ASSUME NEW h \in Handlers, handler[h].pc = "read" PROVE handler[h].reads \in data
    BY DEF HandlerFindsData
  <2>1. handler[h].at \in Nat /\ handler[h].reads \in Nat
    BY Numbers DEF Inv, TypeOK
  <2>2. handler[h].reads \in 1 .. latest /\ latest - CleanFrom <= handler[h].reads
    BY <1>n, <2>1, LimitAssumption DEF Inv, HandlerInv, CleanFrom
  <2> QED BY <2>2 DEF Inv, CleanerInv
<1> QED BY <1>1, <1>2, <1>3

\* As long as the notifications of the replicator are fewer pulses behind than
\* the cleaner, every pulse was sent before it is cleaned, the replicator's
\* worker finds what it sends, and a handler finds what it was promised.
THEOREM ReplicationIsSafe ==
    ASSUME MaxLag < CleanFrom
    PROVE  Spec => [](TypeOK /\ SentBeforeCleaned /\ WorkerFindsData /\ HandlerFindsData)
<1>1. Inv => TypeOK /\ SentBeforeCleaned /\ WorkerFindsData /\ HandlerFindsData
  BY InvIsSafe DEF Inv
<1>2. Inv /\ [Next]_vars => Inv'
  BY NextInv
<1> QED BY <1>1, <1>2, InitInv, PTL DEF Spec
=============================================================================
