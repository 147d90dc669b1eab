-------------------------- MODULE MessageBusProofs --------------------------
(* The reply channels of the bus, for any number of requests, router       *)
(* goroutines, retries and pulses: nobody sends on a closed channel, no    *)
(* reply reaches an attempt it was not meant for, and no request leaves an *)
(* entry in the map of replies.                                            *)
EXTENDS MessageBus, FiniteSetTheorems, TLAPS

Busy == {"publish", "receive", "forward", "remove"}

\* The attempt of number n is over for request q.
Past(q, n) ==
    \/ n < req[q].number
    \/ n = req[q].number /\ req[q].pc \in {"pulse", "send", "end"}

\* Every attempt has a UUID of its own: the number of UUIDs drawn and the number
\* of attempts go together.
CountInv(q) ==
    /\ req[q].pc = "send" => req[q].uuid = req[q].number + 1 /\ req[q].number <= Retries
    /\ req[q].pc = "pulse" =>
          (req[q].number = 0 \/ req[q].uuid = req[q].number) /\ req[q].number <= Retries
    /\ req[q].pc \in Busy => 1 <= req[q].number /\ req[q].uuid = req[q].number

\* The reply that is handed on, or sends the request to its next attempt, is one
\* to the current attempt.
FreshInv(q) ==
    req[q].pc = "forward" \/ (req[q].pc = "remove" /\ ~req[q].received) => req[q].of = Current(q)

\* An attempt that is over is removed.
PastInv(q) == \A n \in Numbers : Past(q, n) => locked[<<q, n>>].removal = "over"

\* An attempt that has not begun has left no trace.
FutureInv(q) ==
    \A n \in Numbers : n > req[q].number =>
        /\ locked[<<q, n>>].removal = "no" /\ ~locked[<<q, n>>].sent
        /\ \A e \in replies : e[2] # <<q, n>>

\* A hash belongs to one attempt, and the map has the attempts nobody removes.
HashInv == \A a \in Attempts : locked[a].hash = a

RepliesInv ==
    \A e \in replies : e[1] = e[2] /\ locked[e[2]].removal \in {"no", "lock"}

\* A router holds the reply of the attempt it has an answer to, and this one is
\* not closed.
RouterInv ==
    \A r \in Routers : router[r].pc # "idle" =>
        router[r].of = router[r].entry /\ ~MessagesClosed(router[r].entry)

RequestInv(q) == CountInv(q) /\ FreshInv(q) /\ PastInv(q) /\ FutureInv(q)

Inv ==
    /\ TypeOK
    /\ HashInv
    /\ RepliesInv
    /\ \A q \in Requests : RequestInv(q)
    /\ HoldersAreCounted
    /\ RouterInv

LEMMA NumbersType ==
    /\ Retries \in Nat /\ Numbers \subseteq Nat /\ \A n \in Nat : n \in Numbers <=> 1 <= n /\ n <= Retries + 1
    /\ \A n \in Numbers : 1 <= n
BY RetriesAssumption DEF Numbers

LEMMA Above == \A x, y, z \in Nat : z > y /\ x <= y => z > x /\ z # y
OBVIOUS

LEMMA HoldersFinite == \A a : IsFiniteSet(Holders(a)) /\ Cardinality(Holders(a)) \in Nat
BY FS_Subset, FS_CardinalityType, RoutersAssumption DEF Holders

LEMMA InitInv == Init => Inv
<1> SUFFICES ASSUME Init PROVE Inv
  OBVIOUS
<1>1. TypeOK
  <2>1. <<CHOOSE q \in Requests : TRUE, 1>> \in Attempts
    BY RequestsAssumption, NumbersType DEF Attempts
  <2>2. (CHOOSE a \in Attempts : TRUE) \in Attempts
    BY <2>1
  <2>3. latest \in 0 .. MaxPulse /\ replies \subseteq (Requests \X Nat) \X Attempts
        /\ mutex \subseteq Attempts
    BY MaxPulseAssumption DEF Init
  <2>4. req \in [Requests -> ReqType]
    BY MaxPulseAssumption, RetriesAssumption DEF Init, ReqType, ReqStates, Kinds
  <2>5. locked \in [Attempts -> LockedType]
    <3> SUFFICES ASSUME NEW a \in Attempts
                 PROVE  [hash |-> a, pulse |-> 0, wg |-> 0, removal |-> "no", sent |-> FALSE]
                            \in LockedType
      BY DEF Init
    <3>1. a \in Requests \X Nat
      BY NumbersType DEF Attempts
    <3> QED BY <3>1, MaxPulseAssumption DEF LockedType, RemovalStates
  <2>6. router \in [Routers -> RouterType]
    BY <2>2 DEF Init, RouterType, Kinds
  <2> QED BY <2>3, <2>4, <2>5, <2>6 DEF TypeOK
<1>2. HashInv /\ RepliesInv /\ RouterInv
  BY DEF Init, HashInv, RepliesInv, RouterInv
<1>3. ASSUME NEW q \in Requests PROVE RequestInv(q)
  <2>1. req[q].pc = "pulse" /\ req[q].number = 0
    BY DEF Init
  <2>2. \A n \in Numbers : <<q, n>> \in Attempts
    BY DEF Attempts
  <2>3. CountInv(q) /\ FreshInv(q)
    BY <2>1, NumbersType DEF CountInv, FreshInv, Busy
  <2>4. PastInv(q)
    BY <2>1, NumbersType DEF PastInv, Past
  <2>5. FutureInv(q)
    BY <2>2 DEF Init, FutureInv
  <2> QED BY <2>3, <2>4, <2>5 DEF RequestInv
<1>4. HoldersAreCounted
  <2>1. \A a \in Attempts : Holders(a) = {}
    BY DEF Init, Holders
  <2> QED BY <2>1, FS_EmptySet DEF Init, HoldersAreCounted
<1> QED BY <1>1, <1>2, <1>3, <1>4 DEF Inv

\* Only the request q moves, within its attempt.
Moves(q) ==
    /\ req' \in [Requests -> ReqType]
    /\ \A o \in Requests \ {q} : req'[o] = req[o]
    /\ req'[q].number = req[q].number

\* A step of a request that touches no lockedReply.
LEMMA RequestStep ==
    ASSUME Inv, NEW q \in Requests, Moves(q), CountInv(q)', FreshInv(q)',
           \A n \in Numbers : Past(q, n)' => Past(q, n),
           UNCHANGED <<latest, locked, replies, mutex, router>>
    PROVE  Inv'
<1>1. TypeOK'
  BY DEF Inv, TypeOK, Moves
<1>2. HashInv' /\ RepliesInv' /\ RouterInv'
  BY DEF Inv, HashInv, RepliesInv, RouterInv, MessagesClosed
<1>3. HoldersAreCounted'
  <2>1. \A a \in Attempts : Holders(a)' = Holders(a)
    BY DEF Holders
  <2> QED BY <2>1 DEF Inv, HoldersAreCounted
<1>4. ASSUME NEW o \in Requests PROVE RequestInv(o)'
  <2>1. CASE o = q
    <3>1. PastInv(q)' /\ FutureInv(q)'
      BY DEF Inv, RequestInv, PastInv, FutureInv, Moves
    <3> QED BY <2>1, <3>1 DEF RequestInv
  <2>2. CASE o # q
    <3>1. req'[o] = req[o]
      BY <2>2 DEF Moves
    <3> QED BY <3>1
          DEF Inv, RequestInv, CountInv, FreshInv, PastInv, FutureInv, Past, Current
  <2> QED BY <2>1, <2>2
<1> QED BY <1>1, <1>2, <1>3, <1>4 DEF Inv

\* A removal of the attempt a of request q goes on; the request may move.
LEMMA RemovalStep ==
    ASSUME Inv, NEW a \in Attempts, NEW x \in RemovalStates,
           locked' = [locked EXCEPT ![a].removal = x],
           a[2] <= req[a[1]].number,
           Past(a[1], a[2])' => x = "over",
           \A n \in Numbers : Past(a[1], n)' => Past(a[1], n) \/ n = a[2],
           Moves(a[1]), CountInv(a[1])', FreshInv(a[1])',
           replies' \subseteq replies, mutex' \subseteq Attempts,
           x \in {"no", "lock"} \/ \A e \in replies' : e[2] # a,
           x = "over" => locked[a].wg = 0,
           UNCHANGED <<latest, router>>
    PROVE  Inv'
<1>a. a[1] \in Requests /\ a[2] \in Numbers /\ a = <<a[1], a[2]>>
  BY DEF Attempts
<1>l. /\ \A b \in Attempts \ {a} : locked'[b] = locked[b]
      /\ locked'[a].removal = x /\ locked'[a].hash = locked[a].hash
      /\ locked'[a].wg = locked[a].wg /\ locked'[a].sent = locked[a].sent
      /\ locked' \in [Attempts -> LockedType]
  BY DEF Inv, TypeOK, LockedType
<1>1. TypeOK'
  BY <1>l DEF Inv, TypeOK, Moves
<1>2. HashInv'
  BY <1>l DEF Inv, HashInv
<1>3. RepliesInv'
  <2> SUFFICES ASSUME NEW e \in replies'
               PROVE  e[1] = e[2] /\ locked'[e[2]].removal \in {"no", "lock"}
    BY DEF RepliesInv
  <2>1. e \in replies /\ e[2] \in Attempts /\ e[1] = e[2] /\ locked[e[2]].removal \in {"no", "lock"}
    BY DEF Inv, TypeOK, RepliesInv
  <2>2. CASE e[2] = a
    BY <1>l, <2>1, <2>2
  <2>3. CASE e[2] # a
    BY <1>l, <2>1, <2>3
  <2> QED BY <2>2, <2>3
<1>4. HoldersAreCounted'
  <2>1. \A b \in Attempts : Holders(b)' = Holders(b) /\ locked'[b].wg = locked[b].wg
    BY <1>l DEF Holders
  <2> QED BY <2>1 DEF Inv, HoldersAreCounted
<1>5. RouterInv'
  <2> SUFFICES ASSUME NEW r \in Routers, router[r].pc # "idle"
               PROVE  router[r].of = router[r].entry /\ locked'[router[r].entry].removal # "over"
    BY DEF RouterInv, MessagesClosed
  <2>1. router[r].of = router[r].entry /\ locked[router[r].entry].removal # "over"
        /\ router[r].entry \in Attempts
    BY DEF Inv, RouterInv, MessagesClosed, TypeOK, RouterType
  <2>2. CASE router[r].entry = a /\ x = "over"
    <3>1. Cardinality(Holders(a)) = 0
      BY <2>2 DEF Inv, HoldersAreCounted
    <3>2. Holders(a) = {}
      BY <3>1, HoldersFinite, FS_EmptySet
    <3> QED BY <2>2, <3>2 DEF Holders
  <2>3. CASE ~(router[r].entry = a /\ x = "over")
    BY <1>l, <2>1, <2>3
  <2> QED BY <2>2, <2>3
<1>6. ASSUME NEW o \in Requests PROVE RequestInv(o)'
  <2>1. CountInv(o)' /\ FreshInv(o)'
    <3>1. CASE o = a[1]
      BY <3>1
    <3>2. CASE o # a[1]
      BY <3>2 DEF Inv, RequestInv, CountInv, FreshInv, Current, Moves
    <3> QED BY <3>1, <3>2
  <2>2. PastInv(o)'
    <3> SUFFICES ASSUME NEW n \in Numbers, Past(o, n)' PROVE locked'[<<o, n>>].removal = "over"
      BY DEF PastInv
    <3>1. <<o, n>> \in Attempts
      BY DEF Attempts
    <3>2. CASE <<o, n>> = a
      BY <1>a, <1>l, <3>2
    <3>3. CASE <<o, n>> # a
      <4>1. Past(o, n)
        <5>1. CASE o = a[1]
          BY <1>a, <3>3, <5>1
        <5>2. CASE o # a[1]
          BY <5>2 DEF Moves, Past
        <5> QED BY <5>1, <5>2
      <4> QED BY <1>l, <3>1, <3>3, <4>1 DEF Inv, RequestInv, PastInv
    <3> QED BY <3>2, <3>3
  <2>3. FutureInv(o)'
    <3> SUFFICES ASSUME NEW n \in Numbers, n > req[o].number
                 PROVE  /\ locked'[<<o, n>>].removal = "no" /\ ~locked'[<<o, n>>].sent
                        /\ \A e \in replies' : e[2] # <<o, n>>
      <4>1. req'[o].number = req[o].number
        BY DEF Moves
      <4> QED BY <4>1 DEF FutureInv
    <3>1. <<o, n>> \in Attempts /\ n \in Nat /\ req[o].number \in Nat
      BY NumbersType DEF Attempts, Inv, TypeOK, ReqType
    <3>2. <<o, n>> # a
      BY <3>1
    <3> QED BY <1>l, <3>1, <3>2 DEF Inv, RequestInv, FutureInv
  <2> QED BY <2>1, <2>2, <2>3 DEF RequestInv
<1> QED BY <1>1, <1>2, <1>3, <1>4, <1>5, <1>6 DEF Inv

\* What the invariant says of one request.
LEMMA RequestFacts ==
    ASSUME Inv, NEW q \in Requests
    PROVE  /\ TypeOK /\ req[q] \in ReqType /\ req[q].number \in Nat
           /\ req[q].number <= Retries + 1 /\ req[q].uuid \in Nat
           /\ CountInv(q) /\ FreshInv(q)
           /\ req[q].pc \in Busy => Current(q) \in Attempts
<1>1. TypeOK /\ req[q] \in ReqType /\ CountInv(q) /\ FreshInv(q)
  BY DEF Inv, TypeOK, RequestInv
<1>2. req[q].number \in Nat /\ req[q].number <= Retries + 1 /\ req[q].uuid \in Nat
  BY <1>1, NumbersType DEF ReqType
<1>3. ASSUME req[q].pc \in Busy PROVE Current(q) \in Attempts
  BY <1>1, <1>2, <1>3, NumbersType DEF CountInv, Current, Attempts
<1> QED BY <1>1, <1>2, <1>3

\* The steps of the retry goroutine that touch no lockedReply.
LEMMA QuietSteps ==
    ASSUME Inv, NEW q \in Requests,
           \/ PulseChanged(q) \/ NoPulse(q) \/ SendFails(q) \/ ReceiveClosed(q)
           \/ Forward(q) \/ Drop(q) \/ ClientLeaves(q) \/ Removed(q)
    PROVE  Inv'
<1>f. /\ TypeOK /\ req[q] \in ReqType /\ req[q].number \in Nat
      /\ req[q].number <= Retries + 1 /\ req[q].uuid \in Nat
      /\ CountInv(q) /\ FreshInv(q)
      /\ req[q].pc \in Busy => Current(q) \in Attempts
  BY RequestFacts
<1>r. Retries \in Nat
  BY RetriesAssumption
<1>1. CASE PulseChanged(q)
  <2> DEFINE u == IF req[q].number = 0 THEN 1 ELSE req[q].uuid + 1
  <2>0. /\ req' = [req EXCEPT ![q] = [@ EXCEPT !.pc = "send", !.lastPulse = latest, !.uuid = u]]
        /\ UNCHANGED <<latest, locked, replies, mutex, router>> /\ req[q].pc = "pulse"
    BY <1>1 DEF PulseChanged
  <2>1. u \in Nat /\ u = req[q].number + 1 /\ req[q].number <= Retries
    BY <1>f, <2>0 DEF CountInv
  <2> HIDE DEF u
  <2>2. Moves(q) /\ req'[q].pc = "send" /\ req'[q].uuid = u
    BY <1>f, <2>0, <2>1 DEF Moves, TypeOK, ReqType, ReqStates
  <2>3. CountInv(q)' /\ FreshInv(q)'
    BY <2>1, <2>2 DEF CountInv, FreshInv, Moves, Busy
  <2>4. \A n \in Numbers : Past(q, n)' => Past(q, n)
    BY <2>0, <2>2 DEF Past, Moves
  <2> QED BY <2>0, <2>2, <2>3, <2>4, RequestStep
<1>2. CASE NoPulse(q)
  <2>1. /\ Moves(q) /\ req'[q].pc = "end" /\ req[q].pc = "pulse"
        /\ UNCHANGED <<latest, locked, replies, mutex, router>>
    BY <1>f, <1>2 DEF NoPulse, Moves, TypeOK, ReqType, ReqStates
  <2>2. CountInv(q)' /\ FreshInv(q)' /\ \A n \in Numbers : Past(q, n)' => Past(q, n)
    BY <2>1 DEF CountInv, FreshInv, Moves, Busy, Past
  <2> QED BY <2>1, <2>2, RequestStep
<1>3. CASE SendFails(q)
  <2>1. /\ Moves(q) /\ req'[q].pc = "end" /\ req[q].pc = "send"
        /\ UNCHANGED <<latest, locked, replies, mutex, router>>
    BY <1>f, <1>3 DEF SendFails, Moves, TypeOK, ReqType, ReqStates
  <2>2. CountInv(q)' /\ FreshInv(q)' /\ \A n \in Numbers : Past(q, n)' => Past(q, n)
    BY <2>1 DEF CountInv, FreshInv, Moves, Busy, Past
  <2> QED BY <2>1, <2>2, RequestStep
<1>4. CASE ReceiveClosed(q)
  <2>1. /\ Moves(q) /\ req'[q].pc = "remove" /\ req'[q].received = TRUE
        /\ req[q].pc = "receive" /\ req'[q].uuid = req[q].uuid
        /\ UNCHANGED <<latest, locked, replies, mutex, router>>
    BY <1>f, <1>4 DEF ReceiveClosed, Moves, TypeOK, ReqType, ReqStates
  <2>2. CountInv(q)' /\ FreshInv(q)' /\ \A n \in Numbers : Past(q, n)' => Past(q, n)
    BY <1>f, <2>1 DEF CountInv, FreshInv, Moves, Busy, Past
  <2> QED BY <2>1, <2>2, RequestStep
<1>5. CASE Forward(q) \/ Drop(q)
  <2> DEFINE last == req[q].kind = "error" \/ req[q].count + 1 = ResponseCount
             p == IF last THEN "remove" ELSE "receive"
  <2>0. /\ req' = [req EXCEPT ![q] = [@ EXCEPT !.pc = p, !.count = req[q].count + 1, !.received = last]]
        /\ UNCHANGED <<latest, locked, replies, mutex, router>> /\ req[q].pc = "forward"
    BY <1>5, Zenon DEF Forward, Drop, AfterForward
  <2>1. last \in BOOLEAN /\ p \in {"remove", "receive"} /\ (p = "remove" => last)
    OBVIOUS
  <2> HIDE DEF last, p
  <2>2. Moves(q) /\ req'[q].pc = p /\ req'[q].received = last /\ req'[q].uuid = req[q].uuid
    <3>1. PICK l \in BOOLEAN : l = last
      BY <2>1
    <3>2. PICK c \in Nat : c = req[q].count + 1
      BY <1>f DEF ReqType
    <3>3. req \in [Requests -> ReqType] /\ req' = [req EXCEPT ![q] =
                                         [req[q] EXCEPT !.pc = p, !.count = c, !.received = l]]
      BY <1>f, <2>0, <3>1, <3>2 DEF TypeOK
    <3>4. /\ [req[q] EXCEPT !.pc = p, !.count = c, !.received = l] \in ReqType
          /\ [req[q] EXCEPT !.pc = p, !.count = c, !.received = l].pc = p
          /\ [req[q] EXCEPT !.pc = p, !.count = c, !.received = l].received = l
          /\ [req[q] EXCEPT !.pc = p, !.count = c, !.received = l].uuid = req[q].uuid
          /\ [req[q] EXCEPT !.pc = p, !.count = c, !.received = l].number = req[q].number
      BY <1>f, <2>1 DEF ReqType, ReqStates
    <3> QED BY <3>1, <3>3, <3>4 DEF Moves
  <2>3. CountInv(q)' /\ FreshInv(q)' /\ \A n \in Numbers : Past(q, n)' => Past(q, n)
    BY <1>f, <2>0, <2>1, <2>2 DEF CountInv, FreshInv, Moves, Busy, Past
  <2> QED BY <2>0, <2>2, <2>3, RequestStep
<1>6. CASE ClientLeaves(q)
  <2>1. /\ Moves(q) /\ req'[q].pc = req[q].pc /\ req'[q].received = req[q].received
        /\ req'[q].uuid = req[q].uuid /\ req'[q].of = req[q].of
        /\ UNCHANGED <<latest, locked, replies, mutex, router>>
    BY <1>f, <1>6 DEF ClientLeaves, Moves, TypeOK, ReqType
  <2>2. CountInv(q)' /\ FreshInv(q)' /\ \A n \in Numbers : Past(q, n)' => Past(q, n)
    BY <1>f, <2>1 DEF CountInv, FreshInv, Moves, Past, Current
  <2> QED BY <2>1, <2>2, RequestStep
<1>7. CASE Removed(q)
  <2> DEFINE p == IF req[q].received \/ req[q].number = Retries + 1 THEN "end" ELSE "pulse"
  <2>0. /\ req' = [req EXCEPT ![q].pc = p] /\ req[q].pc = "remove"
        /\ MessagesClosed(Current(q))
        /\ UNCHANGED <<latest, locked, replies, mutex, router>>
    BY <1>7 DEF Removed
  <2>1. p \in {"end", "pulse"} /\ (p = "pulse" => req[q].number <= Retries)
    BY <1>f, <1>r
  <2> HIDE DEF p
  <2>2. Moves(q) /\ req'[q].pc = p /\ req'[q].uuid = req[q].uuid
    BY <1>f, <2>0, <2>1 DEF Moves, TypeOK, ReqType, ReqStates
  <2>3. CountInv(q)' /\ FreshInv(q)'
    BY <1>f, <2>0, <2>1, <2>2 DEF CountInv, FreshInv, Moves, Busy
  <2>4. \A n \in Numbers : Past(q, n)' => Past(q, n) \/ n = req[q].number
    BY <2>2 DEF Past, Moves
  <2>5. /\ Inv /\ Current(q) \in Attempts /\ "over" \in RemovalStates
        /\ Current(q)[1] = q /\ Current(q)[2] = req[q].number
    BY <1>f, <2>0 DEF Busy, RemovalStates, Current
  <2>6. locked' = [locked EXCEPT ![Current(q)].removal = "over"]
    BY <1>f, <2>0, <2>5 DEF MessagesClosed, TypeOK, LockedType
  <2>7. \A e \in replies : e[2] # Current(q)
    BY <2>0 DEF Inv, RepliesInv, MessagesClosed
  <2>8. locked[Current(q)].wg = 0
    <3>1. Holders(Current(q)) = {}
      BY <2>0 DEF Holders, Inv, RouterInv
    <3> QED BY <2>5, <3>1, FS_EmptySet DEF Inv, HoldersAreCounted
  <2>9. mutex' \subseteq Attempts /\ replies' \subseteq replies /\ req[q].number <= req[q].number
    BY <1>f, <2>0 DEF TypeOK
  <2>10. PICK a \in Attempts :
              /\ a[1] = q /\ a[2] = req[q].number
              /\ locked' = [locked EXCEPT ![a].removal = "over"]
              /\ (\A e \in replies : e[2] # a) /\ locked[a].wg = 0
    BY <2>5, <2>6, <2>7, <2>8
  <2>11. a[2] <= req[a[1]].number /\ Moves(a[1]) /\ CountInv(a[1])' /\ FreshInv(a[1])'
    BY <2>2, <2>3, <2>9, <2>10
  <2>12. \A n \in Numbers : Past(a[1], n)' => Past(a[1], n) \/ n = a[2]
    BY <2>4, <2>10
  <2>13. /\ replies' \subseteq replies /\ mutex' \subseteq Attempts /\ "over" \in RemovalStates
         /\ (\A e \in replies' : e[2] # a) /\ UNCHANGED <<latest, router>>
    BY <2>0, <2>5, <2>9, <2>10
  <2> QED BY <2>5, <2>10, <2>11, <2>12, <2>13, RemovalStep
<1> QED BY <1>1, <1>2, <1>3, <1>4, <1>5, <1>6, <1>7

\* A removal goes on by itself; the request stays where it is.
LEMMA PureRemoval ==
    ASSUME Inv, NEW a \in Attempts, NEW x \in RemovalStates,
           locked' = [locked EXCEPT ![a].removal = x],
           locked[a].removal # "over",
           locked[a].removal # "no" \/ locked[a].sent,
           replies' \subseteq replies, mutex' \subseteq Attempts,
           x \in {"no", "lock"} \/ \A e \in replies' : e[2] # a,
           x = "over" => locked[a].wg = 0,
           UNCHANGED <<latest, req, router>>
    PROVE  Inv'
<1>a. a[1] \in Requests /\ a[2] \in Numbers /\ a = <<a[1], a[2]>>
  BY DEF Attempts
<1>1. a[2] <= req[a[1]].number
  <2>1. ~(a[2] > req[a[1]].number)
    BY <1>a DEF Inv, RequestInv, FutureInv
  <2> QED BY <1>a, <2>1, RequestFacts, NumbersType
<1>2. ~Past(a[1], a[2])
  BY <1>a DEF Inv, RequestInv, PastInv
<1>3. \A n \in Numbers : Past(a[1], n)' => Past(a[1], n)
  BY DEF Past
<1>4. Moves(a[1])
  BY DEF Moves, Inv, TypeOK
<1>5. CountInv(a[1])' /\ FreshInv(a[1])'
  BY <1>a, RequestFacts DEF CountInv, FreshInv, Current
<1>6. Past(a[1], a[2])' => x = "over"
  BY <1>a, <1>2, <1>3
<1> QED BY <1>1, <1>3, <1>4, <1>5, <1>6, RemovalStep

\* The calls of done and what they start.
LEMMA RemovalSteps ==
    ASSUME Inv, \/ \E q \in Requests : PublishFails(q) \/ Remove(q)
                \/ \E a \in Attempts : Delete(a) \/ CloseMessages(a) \/ Timeout(a)
    PROVE  Inv'
<1>t. TypeOK /\ mutex \subseteq Attempts /\ {"lock", "wait", "over"} \subseteq RemovalStates
  BY DEF Inv, TypeOK, RemovalStates
<1>1. ASSUME NEW q \in Requests, PublishFails(q) PROVE Inv'
  <2> DEFINE a == Current(q)
  <2>0. /\ req[q].pc = "publish" /\ locked' = [locked EXCEPT ![a].removal = "lock"]
        /\ req' = [req EXCEPT ![q] = [@ EXCEPT !.pc = "remove", !.received = TRUE]]
        /\ UNCHANGED <<latest, replies, mutex, router>>
    BY <1>1 DEF PublishFails, CloseDone
  <2>1. a \in Attempts /\ a[1] = q /\ a[2] = req[q].number /\ req[q].number <= req[q].number
    BY <2>0, RequestFacts DEF Busy, Current
  <2> HIDE DEF a
  <2>2. Moves(q) /\ req'[q].pc = "remove" /\ req'[q].received = TRUE /\ req'[q].uuid = req[q].uuid
    <3>1. req \in [Requests -> ReqType] /\ req[q] \in ReqType
      BY <1>t DEF TypeOK
    <3>2. req' = [req EXCEPT ![q] = [req[q] EXCEPT !.pc = "remove", !.received = TRUE]]
      BY <2>0, <3>1
    <3> QED BY <3>1, <3>2 DEF Moves, ReqType, ReqStates
  <2>3. CountInv(q)' /\ FreshInv(q)'
    BY <2>0, <2>2, RequestFacts DEF CountInv, FreshInv, Moves, Busy
  <2>4. \A n \in Numbers : Past(q, n)' => Past(q, n) /\ n # req[q].number
    BY <2>2, RequestFacts, NumbersType DEF Past, Moves
  <2>5. req[q].number \in Numbers
    BY <2>1 DEF Attempts
  <2> QED BY <1>t, <2>0, <2>1, <2>2, <2>3, <2>4, <2>5, RemovalStep
<1>2. ASSUME NEW q \in Requests, Remove(q) PROVE Inv'
  <2> DEFINE a == Current(q)
  <2>0. /\ req[q].pc = "remove" /\ locked[a].removal = "no"
        /\ locked' = [locked EXCEPT ![a].removal = "lock"]
        /\ UNCHANGED <<latest, req, replies, mutex, router>>
    BY <1>2 DEF Remove, CloseDone, DoneClosed
  <2>1. a \in Attempts /\ a[1] = q /\ a[2] = req[q].number /\ req[q].number <= req[q].number
    BY <2>0, RequestFacts DEF Busy, Current
  <2> HIDE DEF a
  <2>2. Moves(q)
    BY <2>0 DEF Moves, Inv, TypeOK
  <2>3. CountInv(q)' /\ FreshInv(q)'
    BY <2>0, RequestFacts DEF CountInv, FreshInv, Current
  <2>4. (\A n \in Numbers : Past(q, n)' => Past(q, n)) /\ ~Past(q, req[q].number)'
    BY <2>0, RequestFacts DEF Past
  <2> QED BY <1>t, <2>0, <2>1, <2>2, <2>3, <2>4, RemovalStep
<1>3. ASSUME NEW a \in Attempts, Delete(a) PROVE Inv'
  <2>1. \A e \in replies' : e[2] # a
    BY <1>3 DEF Delete, Inv, RepliesInv, HashInv
  <2>2. /\ locked[a].removal = "lock" /\ locked' = [locked EXCEPT ![a].removal = "wait"]
        /\ replies' \subseteq replies /\ mutex' \subseteq Attempts
        /\ UNCHANGED <<latest, req, router>>
    BY <1>3 DEF Delete
  <2> QED BY <1>t, <2>1, <2>2, PureRemoval
<1>4. ASSUME NEW a \in Attempts, CloseMessages(a) PROVE Inv'
  <2>1. /\ locked[a].removal = "wait" /\ locked[a].wg = 0
        /\ locked' = [locked EXCEPT ![a].removal = "over"]
        /\ replies' \subseteq replies /\ mutex' \subseteq Attempts
        /\ UNCHANGED <<latest, req, replies, router>>
    BY <1>4 DEF CloseMessages
  <2>2. \A e \in replies' : e[2] # a
    BY <2>1 DEF Inv, RepliesInv
  <2> QED BY <1>t, <2>1, <2>2, PureRemoval
<1>5. ASSUME NEW a \in Attempts, Timeout(a) PROVE Inv'
  <2>1. /\ locked[a].removal = "no" /\ locked[a].sent
        /\ locked' = [locked EXCEPT ![a].removal = "lock"]
        /\ UNCHANGED <<latest, req, replies, mutex, router>>
    BY <1>5 DEF Timeout, DoneClosed, CloseDone
  <2> QED BY <1>t, <2>1, PureRemoval
<1> QED BY <1>1, <1>2, <1>3, <1>4, <1>5

\* An attempt goes out: it is registered, or published.
LEMMA AttemptStep ==
    ASSUME Inv, NEW q \in Requests, NEW a \in Attempts,
           a = <<q, req'[q].number>>, req[q].number <= req'[q].number,
           locked' \in [Attempts -> LockedType],
           \A b \in Attempts \ {a} : locked'[b] = locked[b],
           locked'[a].hash = a, locked'[a].wg = locked[a].wg,
           locked'[a].removal = locked[a].removal,
           req' \in [Requests -> ReqType], \A o \in Requests \ {q} : req'[o] = req[o],
           CountInv(q)', FreshInv(q)', \A n \in Numbers : Past(q, n)' => Past(q, n),
           replies' \subseteq replies \cup {<<a, a>>},
           <<a, a>> \in replies' => locked[a].removal \in {"no", "lock"},
           UNCHANGED <<latest, mutex, router>>
    PROVE  Inv'
<1>r. \A b \in Attempts : locked'[b].removal = locked[b].removal
  OBVIOUS
<1>1. TypeOK'
  <2>1. <<a, a>> \in (Requests \X Nat) \X Attempts
    BY NumbersType DEF Attempts
  <2> QED BY <2>1 DEF Inv, TypeOK
<1>2. HashInv'
  BY DEF Inv, HashInv
<1>3. RepliesInv'
  <2> SUFFICES ASSUME NEW e \in replies'
               PROVE  e[1] = e[2] /\ locked'[e[2]].removal \in {"no", "lock"}
    BY DEF RepliesInv
  <2>1. CASE e = <<a, a>>
    BY <1>r, <2>1
  <2>2. CASE e \in replies
    BY <1>r, <2>2 DEF Inv, RepliesInv, TypeOK
  <2> QED BY <2>1, <2>2
<1>4. HoldersAreCounted'
  <2>1. \A b \in Attempts : Holders(b)' = Holders(b) /\ locked'[b].wg = locked[b].wg
    BY DEF Holders
  <2> QED BY <2>1 DEF Inv, HoldersAreCounted
<1>5. RouterInv'
  BY <1>r DEF Inv, RouterInv, MessagesClosed, TypeOK, RouterType
<1>6. ASSUME NEW o \in Requests PROVE RequestInv(o)'
  <2>n. \A n \in Numbers : <<o, n>> \in Attempts /\ n \in Nat
    BY NumbersType DEF Attempts
  <2>1. CountInv(o)' /\ FreshInv(o)'
    <3>1. CASE o # q
      BY <3>1 DEF Inv, RequestInv, CountInv, FreshInv, Current
    <3> QED BY <3>1
  <2>2. PastInv(o)'
    <3>1. \A n \in Numbers : Past(o, n)' => Past(o, n)
      BY DEF Past
    <3> QED BY <1>r, <2>n, <3>1 DEF PastInv, Inv, RequestInv
  <2>3. FutureInv(o)'
    <3> SUFFICES ASSUME NEW n \in Numbers, n > req'[o].number
                 PROVE  /\ locked'[<<o, n>>].removal = "no" /\ ~locked'[<<o, n>>].sent
                        /\ \A e \in replies' : e[2] # <<o, n>>
      BY DEF FutureInv
    <3>1. req[o].number \in Nat /\ req'[o].number \in Nat /\ req[o].number <= req'[o].number
      <4>1. req[o] \in ReqType /\ req'[o] \in ReqType
        BY DEF Inv, TypeOK
      <4>2. req[o].number \in Nat /\ req'[o].number \in Nat
        BY <4>1, NumbersType DEF ReqType
      <4> QED BY <4>2
    <3>2. n # req'[o].number /\ n > req[o].number
      <4>1. PICK x, y \in Nat : x = req[o].number /\ y = req'[o].number
        BY <3>1
      <4>2. n \in Nat
        BY <2>n
      <4>3. x <= y
        BY <3>1, <4>1
      <4>4. n > y
        BY <4>1
      <4>5. n # y /\ n > x
        BY ONLY <4>2, <4>3, <4>4, Above
      <4> QED BY <4>1, <4>5
    <3>3. <<o, n>> # a
      BY <3>2
    <3> QED BY <2>n, <3>2, <3>3 DEF Inv, RequestInv, FutureInv
  <2> QED BY <2>1, <2>2, <2>3 DEF RequestInv
<1> QED BY <1>1, <1>2, <1>3, <1>4, <1>5, <1>6 DEF Inv

LEMMA SendSteps ==
    ASSUME Inv, NEW q \in Requests, Register(q) \/ Publish(q)
    PROVE  Inv'
<1>f. /\ TypeOK /\ req[q] \in ReqType /\ req[q].number \in Nat
      /\ req[q].number <= Retries + 1 /\ req[q].uuid \in Nat
      /\ CountInv(q) /\ FreshInv(q)
      /\ req[q].pc \in Busy => Current(q) \in Attempts
  BY RequestFacts
<1>1. CASE Register(q)
  <2> DEFINE m == req[q].number + 1
             a == <<q, m>>
  <2>0. /\ req[q].pc = "send" /\ req[q].uuid = m /\ req[q].number <= Retries
        /\ locked' = [locked EXCEPT ![a] = [@ EXCEPT !.hash = a, !.pulse = latest]]
        /\ replies' = {e \in replies : e[1] # a} \cup {<<a, a>>}
        /\ req' = [req EXCEPT ![q] = [@ EXCEPT !.pc = "publish", !.number = m, !.count = 0]]
        /\ UNCHANGED <<latest, mutex, router>>
    BY <1>1, <1>f DEF Register, CountInv
  <2>1. m \in Numbers /\ m \in Nat /\ m > req[q].number /\ m \in 0 .. Retries + 1
    BY <1>f, <2>0, NumbersType
  <2>2. a \in Attempts /\ a \in Requests \X Nat
    BY <2>1 DEF Attempts
  <2>3. locked[a].removal = "no"
    BY <2>1 DEF Inv, RequestInv, FutureInv
  <2>4. /\ locked' \in [Attempts -> LockedType]
        /\ \A b \in Attempts \ {a} : locked'[b] = locked[b]
        /\ locked'[a].hash = a /\ locked'[a].wg = locked[a].wg
        /\ locked'[a].removal = locked[a].removal
    <3>1. locked[a] \in LockedType /\ locked \in [Attempts -> LockedType] /\ latest \in 0 .. MaxPulse
      BY <1>f, <2>2 DEF TypeOK
    <3>2. locked' = [locked EXCEPT ![a] = [locked[a] EXCEPT !.hash = a, !.pulse = latest]]
      BY <2>0, <2>2, <3>1
    <3>3. /\ [locked[a] EXCEPT !.hash = a, !.pulse = latest] \in LockedType
          /\ [locked[a] EXCEPT !.hash = a, !.pulse = latest].hash = a
          /\ [locked[a] EXCEPT !.hash = a, !.pulse = latest].wg = locked[a].wg
          /\ [locked[a] EXCEPT !.hash = a, !.pulse = latest].removal = locked[a].removal
      BY <2>2, <3>1 DEF LockedType
    <3> QED BY <2>2, <3>1, <3>2, <3>3
  <2> HIDE DEF a
  <2>5. req' \in [Requests -> ReqType] /\ \A o \in Requests \ {q} : req'[o] = req[o]
    BY <1>f, <2>0, <2>1 DEF TypeOK, ReqType, ReqStates
  <2>6. req'[q].pc = "publish" /\ req'[q].number = m /\ req'[q].uuid = m
    BY <1>f, <2>0 DEF TypeOK, ReqType
  <2>7. CountInv(q)' /\ FreshInv(q)'
    BY <1>f, <2>1, <2>6 DEF CountInv, FreshInv, Busy
  <2>8. \A n \in Numbers : Past(q, n)' => Past(q, n)
    BY <1>f, <2>0, <2>6, NumbersType DEF Past
  <2>9. a = <<q, req'[q].number>> /\ req[q].number <= req'[q].number
    BY <1>f, <2>1, <2>6 DEF a
  <2>10. /\ replies' \subseteq replies \cup {<<a, a>>}
         /\ <<a, a>> \in replies' => locked[a].removal \in {"no", "lock"}
         /\ UNCHANGED <<latest, mutex, router>>
    BY <2>0, <2>3
  <2> HIDE DEF m
  <2> QED BY <2>2, <2>4, <2>5, <2>7, <2>8, <2>9, <2>10, AttemptStep
<1>2. CASE Publish(q)
  <2> DEFINE a == Current(q)
  <2>0. /\ req[q].pc = "publish" /\ locked' = [locked EXCEPT ![a].sent = TRUE]
        /\ req' = [req EXCEPT ![q].pc = "receive"]
        /\ UNCHANGED <<latest, replies, mutex, router>>
    BY <1>2 DEF Publish
  <2>1. a \in Attempts /\ a = <<q, req[q].number>>
    BY <1>f, <2>0 DEF Busy, Current
  <2> HIDE DEF a
  <2>4. /\ locked' \in [Attempts -> LockedType]
        /\ \A b \in Attempts \ {a} : locked'[b] = locked[b]
        /\ locked'[a].hash = a /\ locked'[a].wg = locked[a].wg
        /\ locked'[a].removal = locked[a].removal
    <3>1. locked[a].hash = a
      BY <2>1 DEF Inv, HashInv
    <3>2. locked[a] \in LockedType /\ locked \in [Attempts -> LockedType]
      BY <1>f, <2>1 DEF TypeOK
    <3>3. locked' = [locked EXCEPT ![a] = [locked[a] EXCEPT !.sent = TRUE]]
      BY <2>0, <2>1, <3>2
    <3>4. /\ [locked[a] EXCEPT !.sent = TRUE] \in LockedType
          /\ [locked[a] EXCEPT !.sent = TRUE].hash = a
          /\ [locked[a] EXCEPT !.sent = TRUE].wg = locked[a].wg
          /\ [locked[a] EXCEPT !.sent = TRUE].removal = locked[a].removal
      BY <3>1, <3>2 DEF LockedType
    <3> QED BY <2>1, <3>2, <3>3, <3>4
  <2>5. req' \in [Requests -> ReqType] /\ \A o \in Requests \ {q} : req'[o] = req[o]
    BY <1>f, <2>0 DEF TypeOK, ReqType, ReqStates
  <2>6. req'[q].pc = "receive" /\ req'[q].number = req[q].number /\ req'[q].uuid = req[q].uuid
    BY <1>f, <2>0 DEF TypeOK, ReqType
  <2>7. CountInv(q)' /\ FreshInv(q)'
    BY <1>f, <2>0, <2>6 DEF CountInv, FreshInv, Busy
  <2>8. \A n \in Numbers : Past(q, n)' => Past(q, n)
    BY <2>6 DEF Past
  <2>9. <<a, a>> \in replies' => locked[a].removal \in {"no", "lock"}
    BY <2>0 DEF Inv, RepliesInv
  <2>10. a = <<q, req'[q].number>> /\ req[q].number <= req'[q].number
    BY <1>f, <2>1, <2>6
  <2>11. replies' \subseteq replies \cup {<<a, a>>}
    BY <2>0
  <2> QED BY <2>0, <2>1, <2>4, <2>5, <2>7, <2>8, <2>9, <2>10, <2>11, AttemptStep
<1> QED BY <1>1, <1>2

\* A router leaves the select; it still holds its lockedReply.
LEMMA SelectSteps ==
    ASSUME Inv, NEW r \in Routers, GiveUp(r) \/ \E q \in Requests : Deliver(r, q)
    PROVE  Inv'
<1>t. TypeOK /\ router \in [Routers -> RouterType] /\ router[r] \in RouterType
  BY DEF Inv, TypeOK
<1>0. router' = [router EXCEPT ![r].pc = "leave"] /\ router[r].pc = "select"
      /\ UNCHANGED <<latest, locked, replies, mutex>>
  BY DEF GiveUp, Deliver
<1>1. /\ router' \in [Routers -> RouterType]
      /\ \A s \in Routers : router'[s].entry = router[s].entry /\ router'[s].of = router[s].of
      /\ \A s \in Routers : router'[s].pc = "idle" <=> router[s].pc = "idle"
  BY <1>t, <1>0 DEF RouterType
<1>2. HashInv' /\ RepliesInv'
  BY <1>0 DEF Inv, HashInv, RepliesInv
<1>3. HoldersAreCounted'
  <2>1. \A a \in Attempts : Holders(a)' = Holders(a)
    BY <1>1 DEF Holders
  <2> QED BY <1>0, <2>1 DEF Inv, HoldersAreCounted
<1>4. RouterInv'
  BY <1>0, <1>1 DEF Inv, RouterInv, MessagesClosed
<1>5. req' \in [Requests -> ReqType] /\ \A o \in Requests : RequestInv(o)'
  <2>1. CASE GiveUp(r)
    <3>1. req' = req
      BY <2>1 DEF GiveUp
    <3> QED BY <1>0, <1>t, <3>1
          DEF Inv, TypeOK, RequestInv, CountInv, FreshInv, PastInv, FutureInv, Past, Current
  <2>2. ASSUME NEW q \in Requests, Deliver(r, q)
        PROVE  req' \in [Requests -> ReqType] /\ \A o \in Requests : RequestInv(o)'
    <3> DEFINE p == IF router[r].kind = "canceled" THEN "remove" ELSE "forward"
    <3>1. /\ req' = [req EXCEPT ![q] = [@ EXCEPT !.pc = p, !.of = router[r].of, !.kind = router[r].kind]]
          /\ req[q].pc = "receive" /\ router[r].entry = Current(q)
      BY <2>2, Zenon DEF Deliver
    <3>2. p \in {"remove", "forward"}
      OBVIOUS
    <3> HIDE DEF p
    <3>3. /\ router[r].of \in Requests \X (0 .. Retries + 1) /\ router[r].kind \in Kinds
          /\ router[r].of = Current(q)
      <4>1. router[r].of \in Attempts /\ router[r].kind \in Kinds
        BY <1>t DEF RouterType
      <4>2. Attempts \subseteq Requests \X (0 .. Retries + 1)
        BY RetriesAssumption DEF Attempts, Numbers
      <4> QED BY <1>0, <3>1, <4>1, <4>2 DEF Inv, RouterInv
    <3>4. Moves(q)
      <4>1. req \in [Requests -> ReqType] /\ req[q] \in ReqType
        BY <1>t DEF TypeOK
      <4>2. req' = [req EXCEPT ![q] =
                      [req[q] EXCEPT !.pc = p, !.of = router[r].of, !.kind = router[r].kind]]
        BY <3>1, <4>1
      <4>3. [req[q] EXCEPT !.pc = p, !.of = router[r].of, !.kind = router[r].kind] \in ReqType
        BY <3>2, <3>3, <4>1 DEF ReqType, ReqStates
      <4>4. [req[q] EXCEPT !.pc = p, !.of = router[r].of, !.kind = router[r].kind].number
                = req[q].number
        BY <4>1 DEF ReqType
      <4> QED BY <4>1, <4>2, <4>3, <4>4 DEF Moves
    <3>5. /\ req'[q].pc = p /\ req'[q].of = Current(q) /\ req'[q].number = req[q].number
          /\ req'[q].uuid = req[q].uuid
      BY <1>t, <3>1, <3>3 DEF TypeOK, ReqType
    <3>6. CountInv(q)' /\ FreshInv(q)' /\ PastInv(q)' /\ FutureInv(q)'
      <4>1. CountInv(q)' /\ FreshInv(q)'
        BY <3>1, <3>2, <3>5, RequestFacts DEF CountInv, FreshInv, Busy, Current
      <4>2. PastInv(q) /\ FutureInv(q)
        BY DEF Inv, RequestInv
      <4>3. PastInv(q)'
        <5>1. \A n \in Numbers : Past(q, n)' => Past(q, n)
          BY <3>2, <3>5 DEF Past
        <5> QED BY <1>0, <4>2, <5>1 DEF PastInv
      <4>4. FutureInv(q)'
        BY <1>0, <3>5, <4>2 DEF FutureInv
      <4> QED BY <4>1, <4>3, <4>4
    <3>7. ASSUME NEW o \in Requests, o # q PROVE RequestInv(o)'
      BY <1>0, <3>4, <3>7
          DEF Inv, RequestInv, CountInv, FreshInv, PastInv, FutureInv, Past, Current, Moves
    <3> QED BY <3>4, <3>6, <3>7 DEF Moves, RequestInv
  <2> QED BY <2>1, <2>2
<1>6. TypeOK'
  BY <1>t, <1>0, <1>1, <1>5 DEF TypeOK
<1> QED BY <1>2, <1>3, <1>4, <1>5, <1>6 DEF Inv

\* The WaitGroup of b goes up or down together with the routers that hold b.
LEMMA WaitGroupStep ==
    ASSUME Inv, NEW b \in Attempts, NEW w \in Nat,
           locked' = [locked EXCEPT ![b].wg = w],
           router' \in [Routers -> RouterType], RouterInv',
           w = Cardinality(Holders(b)'),
           \A a \in Attempts \ {b} : Holders(a)' = Holders(a),
           UNCHANGED <<latest, req, replies, mutex>>
    PROVE  Inv'
<1>t. TypeOK
  BY DEF Inv
<1>1. /\ locked' \in [Attempts -> LockedType] /\ locked'[b].wg = w
      /\ \A a \in Attempts \ {b} : locked'[a] = locked[a]
      /\ \A a \in Attempts : locked'[a].hash = locked[a].hash
             /\ locked'[a].removal = locked[a].removal /\ locked'[a].sent = locked[a].sent
  BY <1>t DEF TypeOK, LockedType
<1>2. TypeOK'
  BY <1>t, <1>1 DEF TypeOK
<1>3. HashInv' /\ RepliesInv'
  BY <1>t, <1>1 DEF Inv, HashInv, RepliesInv, TypeOK
<1>4. HoldersAreCounted'
  BY <1>1 DEF Inv, HoldersAreCounted
<1>5. ASSUME NEW o \in Requests PROVE RequestInv(o)'
  <2>1. \A n \in Numbers : <<o, n>> \in Attempts
    BY DEF Attempts
  <2> QED BY <1>1, <2>1
        DEF Inv, RequestInv, CountInv, FreshInv, PastInv, FutureInv, Past, Current
<1> QED BY <1>2, <1>3, <1>4, <1>5 DEF Inv

LEMMA HoldSteps ==
    ASSUME Inv, NEW r \in Routers,
           Leave(r) \/ \E a \in Attempts, k \in Kinds : Incoming(r, a, k)
    PROVE  Inv'
<1>t. /\ TypeOK /\ router \in [Routers -> RouterType] /\ router[r] \in RouterType
      /\ \A a \in Attempts : locked[a].wg = Cardinality(Holders(a)) /\ locked[a].wg \in Nat
  BY DEF Inv, TypeOK, HoldersAreCounted, LockedType
<1>1. CASE Leave(r)
  <2>b. PICK b \in Attempts : b = router[r].entry
    BY <1>t DEF RouterType
  <2>0. /\ router[r].pc = "leave" /\ router' = [router EXCEPT ![r].pc = "idle"]
        /\ locked' = [locked EXCEPT ![b].wg = locked[b].wg - 1]
        /\ UNCHANGED <<latest, req, replies, mutex>>
    BY <1>1, <1>t, <2>b DEF Leave, TypeOK, LockedType
  <2>1. r \in Holders(b)
    BY <2>b, <2>0 DEF Holders
  <2>2. /\ router' \in [Routers -> RouterType] /\ router'[r].pc = "idle"
        /\ \A s \in Routers \ {r} : router'[s] = router[s]
    BY <1>t, <2>0 DEF RouterType
  <2>3. Holders(b)' = Holders(b) \ {r} /\ \A a \in Attempts \ {b} : Holders(a)' = Holders(a)
    BY <2>b, <2>0, <2>2 DEF Holders
  <2>4. Cardinality(Holders(b) \ {r}) = Cardinality(Holders(b)) - 1
        /\ Cardinality(Holders(b) \ {r}) \in Nat
    BY <2>1, HoldersFinite, FS_RemoveElement, FS_CardinalityType
  <2>5. locked[b].wg - 1 \in Nat /\ locked[b].wg - 1 = Cardinality(Holders(b)')
    BY <1>t, <2>3, <2>4
  <2>6. RouterInv'
    <3>1. \A a \in Attempts : locked'[a].removal = locked[a].removal
      BY <1>t, <2>0 DEF TypeOK, LockedType
    <3>2. \A s \in Routers : router[s].entry \in Attempts
      BY <1>t DEF RouterType
    <3> QED BY <2>2, <3>1, <3>2 DEF Inv, RouterInv, MessagesClosed
  <2> QED BY <2>0, <2>2, <2>3, <2>5, <2>6, WaitGroupStep
<1>2. ASSUME NEW a \in Attempts, NEW k \in Kinds, Incoming(r, a, k) PROVE Inv'
  <2>0. PICK e \in replies :
          /\ router[r].pc = "idle" /\ e[1] = locked[a].hash
          /\ router' = [router EXCEPT ![r] = [pc |-> "select", entry |-> e[2], of |-> a, kind |-> k]]
          /\ locked' = [locked EXCEPT ![e[2]].wg = locked[e[2]].wg + 1]
          /\ UNCHANGED <<latest, req, replies, mutex>>
    BY <1>2 DEF Incoming
  <2>1. e[2] = a /\ locked[a].removal \in {"no", "lock"}
    BY <2>0 DEF Inv, HashInv, RepliesInv
  <2>2. /\ router' \in [Routers -> RouterType] /\ router'[r].pc = "select"
        /\ router'[r].entry = a /\ router'[r].of = a
        /\ \A s \in Routers \ {r} : router'[s] = router[s]
    BY <1>t, <2>0, <2>1 DEF RouterType
  <2>3. Holders(a)' = Holders(a) \cup {r} /\ r \notin Holders(a)
        /\ \A b \in Attempts \ {a} : Holders(b)' = Holders(b)
    BY <2>0, <2>2 DEF Holders
  <2>4. Cardinality(Holders(a) \cup {r}) = Cardinality(Holders(a)) + 1
    BY <2>3, HoldersFinite, FS_AddElement
  <2>5. locked' = [locked EXCEPT ![a].wg = locked[a].wg + 1] /\ locked[a].wg + 1 \in Nat
        /\ locked[a].wg + 1 = Cardinality(Holders(a)')
    BY <1>t, <2>0, <2>1, <2>3, <2>4
  <2>6. RouterInv'
    <3>1. \A b \in Attempts : locked'[b].removal = locked[b].removal
      BY <1>t, <2>5 DEF TypeOK, LockedType
    <3>2. \A s \in Routers : router[s].entry \in Attempts
      BY <1>t DEF RouterType
    <3> QED BY <2>1, <2>2, <3>1, <3>2 DEF Inv, RouterInv, MessagesClosed
  <2> QED BY <2>0, <2>2, <2>3, <2>5, <2>6, WaitGroupStep
<1> QED BY <1>1, <1>2

LEMMA NextInv == Inv /\ [Next]_vars => Inv'
<1> SUFFICES ASSUME Inv, [Next]_vars PROVE Inv'
  OBVIOUS
<1>1. CASE NewPulse
  <2>1. latest' \in 0 .. MaxPulse
    BY <1>1, MaxPulseAssumption DEF NewPulse, Inv, TypeOK
  <2>2. UNCHANGED <<req, locked, replies, mutex, router>>
    BY <1>1 DEF NewPulse
  <2>3. TypeOK' /\ HashInv' /\ RepliesInv' /\ RouterInv'
    BY <2>1, <2>2 DEF Inv, TypeOK, HashInv, RepliesInv, RouterInv, MessagesClosed
  <2>4. HoldersAreCounted'
    BY <2>2 DEF Inv, HoldersAreCounted, Holders
  <2>5. \A q \in Requests : RequestInv(q)'
    BY <2>2 DEF Inv, RequestInv, CountInv, FreshInv, PastInv, FutureInv, Past, Current
  <2> QED BY <2>3, <2>4, <2>5 DEF Inv
<1>2. CASE \E q \in Requests :
              \/ PulseChanged(q) \/ NoPulse(q) \/ SendFails(q) \/ ReceiveClosed(q)
              \/ Forward(q) \/ Drop(q) \/ ClientLeaves(q) \/ Removed(q)
  BY <1>2, QuietSteps
<1>3. CASE \E q \in Requests : Register(q) \/ Publish(q)
  BY <1>3, SendSteps
<1>4. CASE \/ \E q \in Requests : PublishFails(q) \/ Remove(q)
           \/ \E a \in Attempts : Delete(a) \/ CloseMessages(a) \/ Timeout(a)
  BY <1>4, RemovalSteps
<1>5. CASE \E r \in Routers : GiveUp(r) \/ \E q \in Requests : Deliver(r, q)
  BY <1>5, SelectSteps
<1>6. CASE \E r \in Routers :
              Leave(r) \/ \E a \in Attempts, k \in Kinds : Incoming(r, a, k)
  BY <1>6, HoldSteps
<1>7. CASE UNCHANGED vars
  <2>1. TypeOK' /\ HashInv' /\ RepliesInv' /\ RouterInv'
    BY <1>7 DEF vars, Inv, TypeOK, HashInv, RepliesInv, RouterInv, MessagesClosed
  <2>2. HoldersAreCounted'
    BY <1>7 DEF vars, Inv, HoldersAreCounted, Holders
  <2>3. \A q \in Requests : RequestInv(q)'
    BY <1>7 DEF vars, Inv, RequestInv, CountInv, FreshInv, PastInv, FutureInv, Past, Current
  <2> QED BY <2>1, <2>2, <2>3 DEF Inv
<1> QED BY <1>1, <1>2, <1>3, <1>4, <1>5, <1>6, <1>7, Zenon DEF Next

\* The invariant gives the properties.
LEMMA InvGivesSafety ==
    Inv => TypeOK /\ HoldersAreCounted /\ NoSendOnClosed /\ NoStaleReply /\ NothingLeaks
<1> SUFFICES ASSUME Inv
             PROVE  NoSendOnClosed /\ NoStaleReply /\ NothingLeaks
  BY DEF Inv
<1>1. NoSendOnClosed
  BY DEF Inv, RouterInv, NoSendOnClosed
<1>2. NoStaleReply
  BY DEF Inv, RequestInv, FreshInv, NoStaleReply
<1>3. NothingLeaks
  <2> SUFFICES ASSUME NEW q \in Requests, req[q].pc = "end", NEW e \in replies, e[2][1] = q
               PROVE  FALSE
    BY DEF NothingLeaks
  <2>1. e[2] \in Attempts /\ locked[e[2]].removal # "over"
    BY DEF Inv, TypeOK, RepliesInv
  <2>2. PICK n \in Numbers : e[2] = <<q, n>>
    BY <2>1 DEF Attempts
  <2>3. n <= req[q].number
    <3>1. ~(n > req[q].number)
      BY <2>2 DEF Inv, RequestInv, FutureInv
    <3> QED BY <3>1, RequestFacts, NumbersType
  <2>4. Past(q, n)
    BY <2>3, RequestFacts, NumbersType DEF Past
  <2> QED BY <2>1, <2>2, <2>4 DEF Inv, RequestInv, PastInv
<1> QED BY <1>1, <1>2, <1>3

\* In every behaviour of Bus, RetrySender and IncomingMessageRouter, for any
\* number of requests, routers, retries and pulses: the WaitGroup of a
\* lockedReply counts its holders, no router writes to a closed channel, no
\* late reply reaches a later attempt, and a request that is over has no entry
\* in the map of replies.
THEOREM BusIsSafe ==
    Spec => [](TypeOK /\ HoldersAreCounted /\ NoSendOnClosed /\ NoStaleReply /\ NothingLeaks)
<1>1. Init => Inv
  BY InitInv
<1>2. Inv /\ [Next]_vars => Inv'
  BY NextInv
<1>3. Inv => TypeOK /\ HoldersAreCounted /\ NoSendOnClosed /\ NoStaleReply /\ NothingLeaks
  BY InvGivesSafety
<1> QED BY <1>1, <1>2, <1>3, PTL DEF Spec
=============================================================================
