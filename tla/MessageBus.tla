----------------------------- MODULE MessageBus -----------------------------
(***************************************************************************)
(* Requests, replies, timeouts and retries: insolar/bus/bus.go,            *)
(* insolar/bus/retryer.go, insolar/bus/waiter.go.                          *)
(*                                                                         *)
(* A request is sent by RetrySender.retryWrapper, whose goroutine makes up *)
(* to Retries + 1 attempts.  Every attempt registers a lockedReply in      *)
(* Bus.replies under the message's hash, publishes the message and starts  *)
(* a goroutine that waits for the timeout.  Replies come in through        *)
(* IncomingMessageRouter, on goroutines of the router: in any order, late, *)
(* more than once or not at all.  Whoever calls done first (the retry      *)
(* loop, the timeout, a failed Publish) removes the lockedReply: it closes *)
(* done, takes repliesMutex, forgets the hash, waits for the routers that  *)
(* hold the lockedReply and closes the channel they would write to.        *)
(*                                                                         *)
(* An attempt is named by its request and its number.  The hash of its     *)
(* message is the UUID: the request and the number of UUIDs drawn.         *)
(***************************************************************************)
EXTENDS Integers, FiniteSets

CONSTANTS
    Requests,       \* requests, each with its retry goroutine
    Routers,        \* goroutines of the incoming message router
    Retries,        \* RetrySender.retries
    ResponseCount,  \* RetrySender.responseCount
    MaxPulse        \* bound: pulses are 1 .. MaxPulse

ASSUME RequestsAssumption == Requests # {}
ASSUME RoutersAssumption == IsFiniteSet(Routers)
ASSUME RetriesAssumption == Retries \in Nat
ASSUME ResponseCountAssumption == ResponseCount \in Nat \ {0}
ASSUME MaxPulseAssumption == MaxPulse \in Nat \ {0}

VARIABLES
    latest,   \* pulse.Accessor.Latest, 0 while there is no pulse
    req,      \* req[q]: the retry goroutine of request q and its client
    locked,   \* locked[a]: the lockedReply of attempt a
    replies,  \* Bus.replies: <<hash, attempt>> pairs
    mutex,    \* the attempts whose removal holds repliesMutex
    router    \* router[r]: a goroutine in IncomingMessageRouter

vars == <<latest, req, locked, replies, mutex, router>>

Numbers == 1 .. Retries + 1
Attempts == Requests \X Numbers

\* What a reply says: a result, an error with CodeFlowCanceled, another error.
Kinds == {"ok", "canceled", "error"}

\* "pulse": in waitForPulseChange; "send": in SendRole, before the reply is
\* registered; "publish": registered, before Publish; "receive": waits for a
\* reply; "forward": hands a reply to the client; "remove": in done; "end":
\* replyChan is closed.
ReqStates == {"pulse", "send", "publish", "receive", "forward", "remove", "end"}

\* "no": nobody has called done; "lock": waits for repliesMutex; "wait": holds
\* it and waits for the routers; "over": the channel is closed.
RemovalStates == {"no", "lock", "wait", "over"}

Current(q) == <<q, req[q].number>>

Init ==
    /\ latest = 0
    /\ req = [q \in Requests |->
          [pc |-> "pulse", number |-> 0, uuid |-> 1, lastPulse |-> 0, count |-> 0,
           of |-> <<q, 0>>, kind |-> "ok", received |-> FALSE, left |-> FALSE]]
    /\ locked = [a \in Attempts |->
          [hash |-> a, pulse |-> 0, wg |-> 0, removal |-> "no", sent |-> FALSE]]
    /\ replies = {}
    /\ mutex = {}
    /\ router = [r \in Routers |->
          [pc |-> "idle", entry |-> CHOOSE a \in Attempts : TRUE,
           of |-> CHOOSE a \in Attempts : TRUE, kind |-> "ok"]]

-----------------------------------------------------------------------------
(* The removal of a lockedReply: reply.once.Do of removeReplyChannel.       *)

\* The first call of done closes the done channel.
CloseDone(a) == [locked EXCEPT ![a].removal = "lock"]

DoneClosed(a) == locked[a].removal # "no"

MessagesClosed(a) == locked[a].removal = "over"

\* Locks repliesMutex and deletes the hash.
Delete(a) ==
    /\ locked[a].removal = "lock"
    /\ mutex = {}
    /\ mutex' = {a}
    /\ replies' = {e \in replies : e[1] # locked[a].hash}
    /\ locked' = [locked EXCEPT ![a].removal = "wait"]
    /\ UNCHANGED <<latest, req, router>>

\* Slip: does not wait for the routers.
CloseMessagesNoWait(a) ==
    /\ locked[a].removal = "wait"
    /\ mutex' = {}
    /\ locked' = [locked EXCEPT ![a].removal = "over"]
    /\ UNCHANGED <<latest, req, replies, router>>

\* reply.wg.Wait() is over; closes the messages channel and unlocks.
CloseMessages(a) ==
    /\ locked[a].removal = "wait"
    /\ locked[a].wg = 0
    /\ mutex' = {}
    /\ locked' = [locked EXCEPT ![a].removal = "over"]
    /\ UNCHANGED <<latest, req, replies, router>>

\* The goroutine of sendTarget: the timeout comes before done is closed.
Timeout(a) ==
    /\ locked[a].sent
    /\ ~DoneClosed(a)
    /\ locked' = CloseDone(a)
    /\ UNCHANGED <<latest, req, replies, mutex, router>>

-----------------------------------------------------------------------------
(* The retry goroutine.                                                     *)

\* Slip: every attempt goes out with the UUID of the first.
PulseChangedSameUUID(q) ==
    /\ req[q].pc = "pulse"
    /\ latest # 0
    /\ latest # req[q].lastPulse
    /\ req' = [req EXCEPT ![q] = [@ EXCEPT !.pc = "send", !.lastPulse = latest]]
    /\ UNCHANGED <<latest, locked, replies, mutex, router>>

\* waitForPulseChange returns the new pulse; from the second attempt on the
\* message gets a new UUID.
PulseChanged(q) ==
    /\ req[q].pc = "pulse"
    /\ latest # 0
    /\ latest # req[q].lastPulse
    /\ req' = [req EXCEPT ![q] = [@ EXCEPT
          !.pc = "send", !.lastPulse = latest,
          !.uuid = IF req[q].number = 0 THEN 1 ELSE req[q].uuid + 1]]
    /\ UNCHANGED <<latest, locked, replies, mutex, router>>

\* There is no pulse: waitForPulseChange returns an error.
NoPulse(q) ==
    /\ req[q].pc = "pulse"
    /\ latest = 0
    /\ req' = [req EXCEPT ![q].pc = "end"]
    /\ UNCHANGED <<latest, locked, replies, mutex, router>>

\* Bus.SendRole reads the latest pulse, wraps the message and registers a
\* lockedReply under the lock.
Register(q) ==
    /\ req[q].pc = "send"
    /\ mutex = {}
    /\ LET a == <<q, req[q].number + 1>>
           h == <<q, req[q].uuid>>
       IN  /\ locked' = [locked EXCEPT ![a] = [@ EXCEPT !.hash = h, !.pulse = latest]]
           /\ replies' = {e \in replies : e[1] # h} \cup {<<h, a>>}
    /\ req' = [req EXCEPT ![q] = [@ EXCEPT !.pc = "publish", !.number = req[q].number + 1,
                                         !.count = 0]]
    /\ UNCHANGED <<latest, mutex, router>>

\* The role cannot be calculated or the message not be wrapped: sendTarget
\* gives back a closed channel.
SendFails(q) ==
    /\ req[q].pc = "send"
    /\ req' = [req EXCEPT ![q] = [@ EXCEPT !.pc = "end", !.received = TRUE]]
    /\ UNCHANGED <<latest, locked, replies, mutex, router>>

\* Publish succeeds; the goroutine with the timeout is started.
Publish(q) ==
    /\ req[q].pc = "publish"
    /\ locked' = [locked EXCEPT ![Current(q)].sent = TRUE]
    /\ req' = [req EXCEPT ![q].pc = "receive"]
    /\ UNCHANGED <<latest, replies, mutex, router>>

\* Slip: done is not called.
PublishFailsForgotten(q) ==
    /\ req[q].pc = "publish"
    /\ req' = [req EXCEPT ![q] = [@ EXCEPT !.pc = "end", !.received = TRUE]]
    /\ UNCHANGED <<latest, locked, replies, mutex, router>>

\* Publish fails: sendTarget calls done and gives back a closed channel.
PublishFails(q) ==
    /\ req[q].pc = "publish"
    /\ locked' = CloseDone(Current(q))
    /\ req' = [req EXCEPT ![q] = [@ EXCEPT !.pc = "remove", !.received = TRUE]]
    /\ UNCHANGED <<latest, replies, mutex, router>>

\* tryReceive: the channel is closed.
ReceiveClosed(q) ==
    /\ req[q].pc = "receive"
    /\ MessagesClosed(Current(q))
    /\ req' = [req EXCEPT ![q] = [@ EXCEPT !.pc = "remove", !.received = TRUE]]
    /\ UNCHANGED <<latest, locked, replies, mutex, router>>

\* What tryReceive does after it has handed a reply on.
AfterForward(q) ==
    LET last == req[q].kind = "error" \/ req[q].count + 1 = ResponseCount
    IN  [req EXCEPT ![q] = [@ EXCEPT !.pc = IF last THEN "remove" ELSE "receive",
                                   !.count = req[q].count + 1, !.received = last]]

\* The client takes the reply.
Forward(q) ==
    /\ req[q].pc = "forward"
    /\ ~req[q].left
    /\ req' = AfterForward(q)
    /\ UNCHANGED <<latest, locked, replies, mutex, router>>

\* The client has called done: the reply is dropped.
Drop(q) ==
    /\ req[q].pc = "forward"
    /\ req[q].left
    /\ req' = AfterForward(q)
    /\ UNCHANGED <<latest, locked, replies, mutex, router>>

\* The client calls done (the closeDone of retryWrapper).
ClientLeaves(q) ==
    /\ ~req[q].left
    /\ req' = [req EXCEPT ![q].left = TRUE]
    /\ UNCHANGED <<latest, locked, replies, mutex, router>>

\* d(): starts the removal, unless somebody has.
Remove(q) ==
    /\ req[q].pc = "remove"
    /\ ~DoneClosed(Current(q))
    /\ locked' = CloseDone(Current(q))
    /\ UNCHANGED <<latest, req, replies, mutex, router>>

\* d() returns: once.Do lets every caller wait for the first.
Removed(q) ==
    /\ req[q].pc = "remove"
    /\ MessagesClosed(Current(q))
    /\ req' = [req EXCEPT
          ![q].pc = IF req[q].received \/ req[q].number = Retries + 1 THEN "end" ELSE "pulse"]
    /\ UNCHANGED <<latest, locked, replies, mutex, router>>

-----------------------------------------------------------------------------
(* IncomingMessageRouter.                                                   *)

\* A reply to attempt a comes in; its hash is looked up and the lockedReply
\* counted under the lock.  An unknown hash: the reply is discarded.
Incoming(r, a, k) ==
    /\ router[r].pc = "idle"
    /\ locked[a].sent
    /\ mutex = {}
    /\ \E e \in replies :
          /\ e[1] = locked[a].hash
          /\ router' = [router EXCEPT ![r] =
                [pc |-> "select", entry |-> e[2], of |-> a, kind |-> k]]
          /\ locked' = [locked EXCEPT ![e[2]].wg = locked[e[2]].wg + 1]
    /\ UNCHANGED <<latest, req, replies, mutex>>

\* case reply.messages <- msg: the retry goroutine takes the reply; a retryable
\* one sends it to its next attempt.
Deliver(r, q) ==
    /\ router[r].pc = "select"
    /\ req[q].pc = "receive"
    /\ router[r].entry = Current(q)
    /\ router' = [router EXCEPT ![r].pc = "leave"]
    /\ req' = [req EXCEPT ![q] = [@ EXCEPT
          !.pc = IF router[r].kind = "canceled" THEN "remove" ELSE "forward",
          !.of = router[r].of, !.kind = router[r].kind]]
    /\ UNCHANGED <<latest, locked, replies, mutex>>

\* Slip: the select has no case for done.
GiveUpNever(r) ==
    /\ router[r].pc = "select"
    /\ MessagesClosed(router[r].entry)
    /\ router' = [router EXCEPT ![r].pc = "leave"]
    /\ UNCHANGED <<latest, req, locked, replies, mutex>>

\* case <-reply.done.
GiveUp(r) ==
    /\ router[r].pc = "select"
    /\ DoneClosed(router[r].entry)
    /\ router' = [router EXCEPT ![r].pc = "leave"]
    /\ UNCHANGED <<latest, req, locked, replies, mutex>>

\* reply.wg.Done().
Leave(r) ==
    /\ router[r].pc = "leave"
    /\ router' = [router EXCEPT ![r].pc = "idle"]
    /\ locked' = [locked EXCEPT ![router[r].entry].wg = @ - 1]
    /\ UNCHANGED <<latest, req, replies, mutex>>

\* The node stores another pulse.
NewPulse ==
    /\ latest < MaxPulse
    /\ latest' = latest + 1
    /\ UNCHANGED <<req, locked, replies, mutex, router>>

Next ==
    \/ NewPulse
    \/ \E q \in Requests : PulseChanged(q)
    \/ \E q \in Requests : NoPulse(q)
    \/ \E q \in Requests : Register(q)
    \/ \E q \in Requests : SendFails(q)
    \/ \E q \in Requests : Publish(q)
    \/ \E q \in Requests : PublishFails(q)
    \/ \E q \in Requests : ReceiveClosed(q)
    \/ \E q \in Requests : Forward(q)
    \/ \E q \in Requests : Drop(q)
    \/ \E q \in Requests : ClientLeaves(q)
    \/ \E q \in Requests : Remove(q)
    \/ \E q \in Requests : Removed(q)
    \/ \E a \in Attempts : Delete(a)
    \/ \E a \in Attempts : CloseMessages(a)
    \/ \E a \in Attempts : Timeout(a)
    \/ \E r \in Routers, a \in Attempts, k \in Kinds : Incoming(r, a, k)
    \/ \E r \in Routers, q \in Requests : Deliver(r, q)
    \/ \E r \in Routers : GiveUp(r)
    \/ \E r \in Routers : Leave(r)

\* Goroutines are scheduled, a timeout fires, sync.RWMutex does not starve a
\* writer, and a client reads its replies until it calls done (every caller
\* defers it).  Nothing is asked of replies, of Publish, of pulses.
Fairness ==
    /\ \A q \in Requests :
          /\ SF_vars(Register(q) \/ SendFails(q))
          /\ WF_vars(Publish(q) \/ PublishFails(q))
          /\ WF_vars(ReceiveClosed(q))
          /\ WF_vars(Forward(q) \/ Drop(q))
          /\ WF_vars(Remove(q))
          /\ WF_vars(Removed(q))
    /\ \A a \in Attempts :
          /\ SF_vars(Delete(a))
          /\ WF_vars(CloseMessages(a))
          /\ WF_vars(Timeout(a))
    /\ \A r \in Routers :
          /\ WF_vars(GiveUp(r))
          /\ WF_vars(Leave(r))

Spec == Init /\ [][Next]_vars

FairSpec == Spec /\ Fairness

-----------------------------------------------------------------------------
ReqType ==
    [pc : ReqStates, number : 0 .. Retries + 1, uuid : Nat, lastPulse : 0 .. MaxPulse,
     count : Nat, of : Requests \X (0 .. Retries + 1), kind : Kinds,
     received : BOOLEAN, left : BOOLEAN]

LockedType ==
    [hash : Requests \X Nat, pulse : 0 .. MaxPulse, wg : Nat, removal : RemovalStates,
     sent : BOOLEAN]

RouterType ==
    [pc : {"idle", "select", "leave"}, entry : Attempts, of : Attempts, kind : Kinds]

\* Every variable has the type of the field or local it stands for; no
\* WaitGroup counter is negative, which would panic.
TypeOK ==
    /\ latest \in 0 .. MaxPulse
    /\ req \in [Requests -> ReqType]
    /\ locked \in [Attempts -> LockedType]
    /\ replies \subseteq (Requests \X Nat) \X Attempts
    /\ mutex \subseteq Attempts
    /\ router \in [Routers -> RouterType]

Holders(a) == {r \in Routers : router[r].pc # "idle" /\ router[r].entry = a}

\* The WaitGroup of a lockedReply counts the routers that hold it.
HoldersAreCounted == \A a \in Attempts : locked[a].wg = Cardinality(Holders(a))

\* No router sends on a closed channel, which would panic: a late reply, a
\* timeout, and a done of the client race, and still the channel is closed
\* only when the last router that found it under the lock has left.
NoSendOnClosed ==
    \A r \in Routers :
        router[r].pc = "select" => ~MessagesClosed(router[r].entry)

\* A retry is not fed with a late reply to an earlier attempt: what the client
\* gets, and what makes the loop go round again, answers the current attempt.
NoStaleReply ==
    \A q \in Requests :
        req[q].pc = "forward" \/ (req[q].pc = "remove" /\ ~req[q].received)
        => req[q].of = Current(q)

\* A request leaves nothing behind in Bus.replies, whichever way it ended.
NothingLeaks ==
    \A q \in Requests : req[q].pc = "end" => \A e \in replies : e[2][1] # q

\* Every attempt comes to an end although no reply may ever come: the
\* timeout, the routers and the removal never wait for one another.
AttemptEnds ==
    \A q \in Requests : req[q].pc # "pulse" ~> req[q].pc \in {"pulse", "end"}

\* No router is kept for ever by a request that nobody reads.
RouterReturns ==
    \A r \in Routers : router[r].pc = "select" ~> router[r].pc = "idle"

\* "If error with CodeFlowCanceled was received, it retries request after pulse
\* on current node will be changed": a retry goes out in a later pulse than
\* the attempt that was refused.
RetriesAfterPulse ==
    \A q \in Requests : \A n \in 2 .. req[q].number :
        locked[<<q, n>>].pulse > locked[<<q, n - 1>>].pulse
=============================================================================
