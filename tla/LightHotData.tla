---------------------------- MODULE LightHotData ----------------------------
(***************************************************************************)
(* How a jet's live data moves from light node to light node.              *)
(*                                                                         *)
(* In every pulse each jet has one executor.  At a pulse change            *)
(* (ledger/light/executor/pulsemanager.go, Set) the executor stops writing *)
(* to the ended pulse and sends the jet's indexes, the hot data, to the    *)
(* jet's executor in the new pulse (hot_sender.go).  There the HotObjects  *)
(* procedure stores them and opens the jet (waiter.go, Unlock); requests   *)
(* for the jet wait until then (waiter.go, Wait), and then go through the  *)
(* object lock, the duplicate check and the write controller               *)
(* (proc/set_request.go).                                                  *)
(*                                                                         *)
(* The model has one object per jet: an index is the set of the requests   *)
(* it holds.  Hot messages may be lost and delayed; nodes change pulse     *)
(* each at its own time, may miss pulses, and join late.  Jet splits and   *)
(* indexes that leave the light nodes for want of use are left out.        *)
(***************************************************************************)
EXTENDS Integers

CONSTANTS
    Nodes,      \* light nodes
    Jets,       \* jets
    Requests,   \* requests to write
    JetOf,      \* JetOf[w]: the jet of the object request w is about
    MaxPulse    \* bound: pulses are 1 .. MaxPulse

ASSUME JetOfAssumption == JetOf \in [Requests -> Jets]
ASSUME MaxPulseAssumption == MaxPulse \in Nat \ {0}

Pulses == 1 .. MaxPulse

VARIABLES
    executor,     \* executor[j][p]: jet.Coordinator.LightExecutorForJet
    latest,       \* latest[n]: pulse.Accessor.Latest, 0 before the first
    set,          \* set[n]: where PulseManager.Set is
    newPulse,     \* newPulse[n]: its argument
    justJoined,   \* justJoined[n]: what PrepareState returned
    writable,     \* writable[n]: the pulse the write controller accepts, or 0
    waiters,      \* waiters[n]: the pulses that have a pulseWaiter
    opened,       \* opened[n]: jets whose channel in it is closed, with the pulse
    raised,       \* raised[n]: the same for channels somebody may wait on
    closedUntil,  \* closedUntil[n]: ChannelWaiter.closedUntil
    index,        \* index[n][p]: the requests in the indexes of pulse p
    sending,      \* sending[n]: sends of hot data not yet made: [jet, from, to]
    hots,         \* HotObjects messages and procedures under way
    request,      \* request[w]: the handler of request w
    stored        \* history: the requests stored, each with its pulse

node == <<latest, set, newPulse, justJoined, writable>>
waiter == <<waiters, opened, raised, closedUntil>>
vars == <<executor, latest, set, newPulse, justJoined, writable, waiters, opened,
          raised, closedUntil, index, sending, hots, request, stored>>

\* "check": about to ask for the hot data of the ended pulse; "closeall",
\* "close", "open", "append": about to make that call; "drain": waits for
\* writers; "fatal": the node has stopped.
SetStates == {"idle", "check", "closeall", "close", "drain", "open", "append", "fatal"}

\* "start": dispatched; "wait": in Wait, "timeout": the same with the timeout
\* of its pulseWaiter closed; "lock": about to lock the object; "begin": holds
\* the lock and has read the index; "write": has begun to write; "failed":
\* the caller may send the request again.
RequestStates ==
    {"none", "start", "wait", "timeout", "lock", "begin", "write", "done", "failed"}

Alive(n) == set[n] # "fatal"

\* JetCalculator.MineForPulse.
MineForPulse(n, p) == IF p = 0 THEN {} ELSE {j \in Jets : executor[j][p] = n}

Of(jet, ws) == {w \in ws : JetOf[w] = jet}

Init ==
    /\ executor \in [Jets -> [Pulses -> Nodes]]
    /\ latest = [n \in Nodes |-> 0]
    /\ set = [n \in Nodes |-> "idle"]
    /\ newPulse = [n \in Nodes |-> 0]
    /\ justJoined = [n \in Nodes |-> FALSE]
    /\ writable = [n \in Nodes |-> 0]
    /\ waiters = [n \in Nodes |-> {}]
    /\ opened = [n \in Nodes |-> {}]
    /\ raised = [n \in Nodes |-> {}]
    /\ closedUntil = [n \in Nodes |-> 0]
    /\ index = [n \in Nodes |-> [p \in Pulses |-> {}]]
    /\ sending = [n \in Nodes |-> {}]
    /\ hots = {}
    /\ request = [w \in Requests |->
          [pc |-> "none", node |-> CHOOSE n \in Nodes : TRUE, pulse |-> 0, base |-> {}]]
    /\ stored = {}

-----------------------------------------------------------------------------
(* PulseManager.Set.                                                        *)

\* ChannelWaiter.Unlock for the jets js, which are not open in pulse p.
UnlockAll(n, p, js) ==
    /\ waiters' = [waiters EXCEPT ![n] = @ \cup {p}]
    /\ opened' = [opened EXCEPT ![n] = @ \cup (js \X {p})]
    /\ raised' = [raised EXCEPT ![n] = IF p > closedUntil[n] THEN @ \cup (js \X {p}) ELSE @]
    /\ UNCHANGED closedUntil

\* The first pulse of a node: PrepareState fetches the state from the heavy
\* node.  At the start of the network it brings the jets, which are opened;
\* later it brings only the previous pulse.
Join(n, p) ==
    /\ set[n] = "idle"
    /\ newPulse[n] = 0
    /\ newPulse' = [newPulse EXCEPT ![n] = p]
    /\ set' = [set EXCEPT ![n] = "closeall"]
    /\ justJoined' = [justJoined EXCEPT ![n] = TRUE]
    /\ IF p = 1
         THEN /\ UnlockAll(n, p, Jets)
              /\ UNCHANGED latest
         ELSE /\ \E previous \in 1 .. p - 1 : latest' = [latest EXCEPT ![n] = previous]
              /\ UNCHANGED waiter
    /\ UNCHANGED <<executor, writable, index, sending, hots, request, stored>>

\* Every later pulse.
SetPulse(n, p) ==
    /\ set[n] = "idle"
    /\ newPulse[n] # 0
    /\ p > latest[n]
    /\ newPulse' = [newPulse EXCEPT ![n] = p]
    /\ set' = [set EXCEPT ![n] = "check"]
    /\ justJoined' = [justJoined EXCEPT ![n] = FALSE]
    /\ UNCHANGED <<executor, latest, writable, waiter, index, sending, hots, request, stored>>

\* ChannelWaiter.IsReceived.
IsReceived(n, jet, p) == p \in waiters[n] /\ <<jet, p>> \in opened[n]

\* Slip: the node goes on without the hot data.
CheckNothing(n) ==
    /\ set[n] = "check"
    /\ set' = [set EXCEPT ![n] = "closeall"]
    /\ UNCHANGED <<executor, latest, newPulse, justJoined, writable, waiter, index,
                   sending, hots, request, stored>>

\* "hot data for jet ... wasn't received" stops the node; then the jets are
\* cloned for the new pulse and the drops of the ended one made.
CheckHot(n) ==
    /\ set[n] = "check"
    /\ set' = [set EXCEPT ![n] =
          IF \A jet \in MineForPulse(n, latest[n]) : IsReceived(n, jet, latest[n])
            THEN "closeall" ELSE "fatal"]
    /\ UNCHANGED <<executor, latest, newPulse, justJoined, writable, waiter, index,
                   sending, hots, request, stored>>

\* Everybody who waits on node n for pulse p or an earlier one.
RaiseTimeouts(n, p) ==
    [w \in Requests |->
        IF request[w].pc = "wait" /\ request[w].node = n /\ request[w].pulse <= p
          THEN [request[w] EXCEPT !.pc = "timeout"] ELSE request[w]]

\* ChannelWaiter.CloseAllUntil.
CloseAllUntil(n) ==
    /\ set[n] = "closeall"
    /\ waiters' = [waiters EXCEPT ![n] = {p \in @ : p > latest[n]}]
    /\ opened' = [opened EXCEPT ![n] = {o \in @ : o[2] > latest[n]}]
    /\ closedUntil' = [closedUntil EXCEPT ![n] = latest[n]]
    /\ request' = RaiseTimeouts(n, latest[n])
    /\ set' = [set EXCEPT ![n] = "close"]
    /\ UNCHANGED <<executor, latest, newPulse, justJoined, writable, raised, index, sending,
                   hots, stored>>

\* WriteController.CloseAndWait ...
Close(n) ==
    /\ set[n] = "close"
    /\ writable' = [writable EXCEPT ![n] = 0]
    /\ set' = [set EXCEPT ![n] = "drain"]
    /\ UNCHANGED <<executor, latest, newPulse, justJoined, waiter, index, sending, hots,
                   request, stored>>

\* Slip: does not wait for writers.
DrainNothing(n) ==
    /\ set[n] = "drain"
    /\ set' = [set EXCEPT ![n] = "open"]
    /\ UNCHANGED <<executor, latest, newPulse, justJoined, writable, waiter, index, sending,
                   hots, request, stored>>

\* ... returns when the last writer has left.
Drain(n) ==
    /\ set[n] = "drain"
    /\ \A w \in Requests : request[w].pc = "write" => request[w].node # n
    /\ set' = [set EXCEPT ![n] = "open"]
    /\ UNCHANGED <<executor, latest, newPulse, justJoined, writable, waiter, index, sending,
                   hots, request, stored>>

Open(n) ==
    /\ set[n] = "open"
    /\ writable' = [writable EXCEPT ![n] = newPulse[n]]
    /\ set' = [set EXCEPT ![n] = "append"]
    /\ UNCHANGED <<executor, latest, newPulse, justJoined, waiter, index, sending, hots,
                   request, stored>>

\* Appends the pulse and starts the goroutines that send the hot data of the
\* jets the node had in the ended pulse.
Append(n) ==
    /\ set[n] = "append"
    /\ latest' = [latest EXCEPT ![n] = newPulse[n]]
    /\ set' = [set EXCEPT ![n] = "idle"]
    /\ sending' = [sending EXCEPT ![n] = @ \cup
          IF justJoined[n] THEN {}
          ELSE {[jet |-> j, from |-> latest[n], to |-> newPulse[n]] :
                j \in MineForPulse(n, latest[n])}]
    /\ UNCHANGED <<executor, newPulse, justJoined, writable, waiter, index, hots, request,
                   stored>>

-----------------------------------------------------------------------------
(* Hot data.                                                                *)

\* HotSender: the indexes of the ended pulse go to the executor of the jet in
\* the latest pulse of the sender (Bus.SendRole), which may be later than the
\* pulse the data is for.
SendHot(n, s) ==
    /\ Alive(n)
    /\ s \in sending[n]
    /\ sending' = [sending EXCEPT ![n] = @ \ {s}]
    /\ hots' = hots \cup {[jet |-> s.jet, pulse |-> s.to, data |-> Of(s.jet, index[n][s.from]),
          sent |-> latest[n], node |-> executor[s.jet][latest[n]], at |-> "sent"]}
    /\ UNCHANGED <<executor, node, waiter, index, request, stored>>

\* The message is lost, or comes when its pulse is over and is refused.
LoseHot(m) ==
    /\ m.at = "sent"
    /\ hots' = hots \ {m}
    /\ UNCHANGED <<executor, node, waiter, index, sending, request, stored>>

\* The message is dispatched in the pulse it was sent in.
HandleHot(m) ==
    /\ m.at = "sent"
    /\ Alive(m.node)
    /\ latest[m.node] = m.sent
    /\ hots' = (hots \ {m}) \cup {[m EXCEPT !.at = "handled"]}
    /\ UNCHANGED <<executor, node, waiter, index, sending, request, stored>>

\* HotObjects.Proceed: the indexes replace the ones that are there.
StoreHot(m) ==
    /\ m.at = "handled"
    /\ Alive(m.node)
    /\ index' = [index EXCEPT ![m.node][m.pulse] =
          IF m.data = {} THEN @ ELSE (@ \ Of(m.jet, @)) \cup m.data]
    /\ hots' = (hots \ {m}) \cup {[m EXCEPT !.at = "stored"]}
    /\ UNCHANGED <<executor, node, waiter, sending, request, stored>>

\* The jet is opened; if it was open already the procedure fails.
UnlockHot(m) ==
    /\ m.at = "stored"
    /\ Alive(m.node)
    /\ hots' = hots \ {m}
    /\ IF IsReceived(m.node, m.jet, m.pulse)
         THEN UNCHANGED waiter
         ELSE UnlockAll(m.node, m.pulse, {m.jet})
    /\ UNCHANGED <<executor, node, index, sending, request, stored>>

-----------------------------------------------------------------------------
(* A request.                                                               *)

\* The request is dispatched on node n as a request of the present, and
\* FetchJet finds that n is the executor.
Dispatch(w, n) ==
    /\ request[w].pc \in {"none", "failed"}
    /\ Alive(n)
    /\ latest[n] # 0
    /\ n = executor[JetOf[w]][latest[n]]
    /\ request' = [request EXCEPT ![w] =
          [pc |-> "start", node |-> n, pulse |-> latest[n], base |-> {}]]
    /\ UNCHANGED <<executor, node, waiter, index, sending, hots, stored>>

\* Slip: a pulse that is over is waited for like any other.
WaitUnchecked(w) ==
    LET n == request[w].node  p == request[w].pulse
    IN  /\ request[w].pc = "start"
        /\ Alive(n)
        /\ request' = [request EXCEPT ![w].pc = "wait"]
        /\ waiters' = [waiters EXCEPT ![n] = @ \cup {p}]
        /\ UNCHANGED <<executor, node, opened, raised, closedUntil, index, sending, hots,
                       stored>>

\* ChannelWaiter.Wait: returns at once for a pulse that is over.
Wait(w) ==
    LET n == request[w].node  p == request[w].pulse
    IN  /\ request[w].pc = "start"
        /\ Alive(n)
        /\ IF p <= closedUntil[n]
             THEN /\ request' = [request EXCEPT ![w].pc = "lock"]
                  /\ UNCHANGED waiters
             ELSE /\ request' = [request EXCEPT ![w].pc = "wait"]
                  /\ waiters' = [waiters EXCEPT ![n] = @ \cup {p}]
        /\ UNCHANGED <<executor, node, opened, raised, closedUntil, index, sending, hots,
                       stored>>

\* case <-waitCh, which may be taken although the timeout is closed too.
WaitReturns(w) ==
    /\ request[w].pc \in {"wait", "timeout"}
    /\ Alive(request[w].node)
    /\ <<JetOf[w], request[w].pulse>> \in raised[request[w].node]
    /\ request' = [request EXCEPT ![w].pc = "lock"]
    /\ UNCHANGED <<executor, node, waiter, index, sending, hots, stored>>

\* case <-timeout: ErrHotDataTimeout.
WaitTimesOut(w) ==
    /\ request[w].pc = "timeout"
    /\ Alive(request[w].node)
    /\ request' = [request EXCEPT ![w].pc = "failed"]
    /\ UNCHANGED <<executor, node, waiter, index, sending, hots, stored>>

\* Slip: duplicates are not looked for.
LockNoDuplicate(w) ==
    LET n == request[w].node
    IN  /\ request[w].pc = "lock"
        /\ Alive(n)
        /\ request' = [request EXCEPT ![w] = [@ EXCEPT
              !.pc = "begin", !.base = Of(JetOf[w], index[n][request[w].pulse])]]
        /\ UNCHANGED <<executor, node, waiter, index, sending, hots, stored>>

\* SetRequest.Proceed locks the object, reads the index and looks for a
\* duplicate, which is answered at once.
Lock(w) ==
    LET n == request[w].node  held == Of(JetOf[w], index[n][request[w].pulse])
    IN  /\ request[w].pc = "lock"
        /\ Alive(n)
        /\ \A v \in Requests :
              request[v].pc \in {"begin", "write"} => request[v].node # n \/ JetOf[v] # JetOf[w]
        /\ request' = [request EXCEPT ![w] = [@ EXCEPT
              !.pc = IF w \in held THEN "done" ELSE "begin", !.base = held]]
        /\ UNCHANGED <<executor, node, waiter, index, sending, hots, stored>>

\* WriteAccessor.Begin: refused unless the pulse of the request is open.
Begin(w) ==
    LET n == request[w].node
    IN  /\ request[w].pc = "begin"
        /\ Alive(n)
        /\ request' = [request EXCEPT ![w].pc =
              IF request[w].pulse = writable[n] THEN "write" ELSE "failed"]
        /\ UNCHANGED <<executor, node, waiter, index, sending, hots, stored>>

\* The records are stored and the index is set; the locks are released.  The
\* answer may be lost: the caller sends the request again.
Store(w) ==
    LET n == request[w].node  p == request[w].pulse
    IN  /\ request[w].pc = "write"
        /\ Alive(n)
        /\ index' = [index EXCEPT ![n][p] =
              (@ \ Of(JetOf[w], @)) \cup request[w].base \cup {w}]
        /\ stored' = stored \cup {<<w, p>>}
        /\ \E answer \in {"done", "failed"} : request' = [request EXCEPT ![w].pc = answer]
        /\ UNCHANGED <<executor, node, waiter, sending, hots>>

Next ==
    \/ \E n \in Nodes, p \in Pulses : Join(n, p)
    \/ \E n \in Nodes, p \in Pulses : SetPulse(n, p)
    \/ \E n \in Nodes : CheckHot(n)
    \/ \E n \in Nodes : CloseAllUntil(n)
    \/ \E n \in Nodes : Close(n)
    \/ \E n \in Nodes : Drain(n)
    \/ \E n \in Nodes : Open(n)
    \/ \E n \in Nodes : Append(n)
    \/ \E n \in Nodes : \E s \in sending[n] : SendHot(n, s)
    \/ \E m \in hots : LoseHot(m)
    \/ \E m \in hots : HandleHot(m)
    \/ \E m \in hots : StoreHot(m)
    \/ \E m \in hots : UnlockHot(m)
    \/ \E w \in Requests, n \in Nodes : Dispatch(w, n)
    \/ \E w \in Requests : Wait(w)
    \/ \E w \in Requests : WaitReturns(w)
    \/ \E w \in Requests : WaitTimesOut(w)
    \/ \E w \in Requests : Lock(w)
    \/ \E w \in Requests : Begin(w)
    \/ \E w \in Requests : Store(w)

Spec == Init /\ [][Next]_vars

-----------------------------------------------------------------------------
Hot ==
    [jet : Jets, pulse : Pulses, data : SUBSET Requests, sent : Pulses, node : Nodes,
     at : {"sent", "handled", "stored"}]

RequestType ==
    [pc : RequestStates, node : Nodes, pulse : 0 .. MaxPulse, base : SUBSET Requests]

\* Every variable has the type of the field or message it stands for.
TypeOK ==
    /\ executor \in [Jets -> [Pulses -> Nodes]]
    /\ latest \in [Nodes -> 0 .. MaxPulse]
    /\ set \in [Nodes -> SetStates]
    /\ newPulse \in [Nodes -> 0 .. MaxPulse]
    /\ justJoined \in [Nodes -> BOOLEAN]
    /\ writable \in [Nodes -> 0 .. MaxPulse]
    /\ waiters \in [Nodes -> SUBSET Pulses]
    /\ opened \in [Nodes -> SUBSET (Jets \X Pulses)]
    /\ raised \in [Nodes -> SUBSET (Jets \X Pulses)]
    /\ closedUntil \in [Nodes -> 0 .. MaxPulse]
    /\ index \in [Nodes -> [Pulses -> SUBSET Requests]]
    /\ sending \in [Nodes -> SUBSET [jet : Jets, from : Pulses, to : Pulses]]
    /\ hots \subseteq Hot
    /\ request \in [Requests -> RequestType]
    /\ stored \subseteq Requests \X Pulses

\* The jet has been opened to requests on its executor in pulse p, by the
\* start of the network or by hot data.
OpenedFor(jet, p) == <<jet, p>> \in raised[executor[jet][p]]

\* Nothing that was stored is lost on the way: when a jet is open in a pulse,
\* the executor's indexes hold every request stored in an earlier pulse, on
\* whichever nodes, and in this one.
NothingIsLost ==
    \A s \in stored, p \in Pulses :
        s[2] <= p /\ OpenedFor(JetOf[s[1]], p) => s[1] \in index[executor[JetOf[s[1]]][p]][p]

\* A request is stored once, although its caller repeats it, in the same pulse
\* or in later ones, at other executors, until it gets an answer: there are
\* no two pulses in which it was stored, and whoever is about to store it is
\* the first.
StoredOnce ==
    /\ \A s, t \in stored : s[1] = t[1] => s = t
    /\ \A w \in Requests : request[w].pc = "write" => \A s \in stored : s[1] # w

\* Only an executor that has the jet's hot data writes: a Wait that returned
\* because the pulse was over leads to no write.
HotBeforeWrite ==
    \A w \in Requests :
        request[w].pc = "write" =>
            /\ executor[JetOf[w]][request[w].pulse] = request[w].node
            /\ OpenedFor(JetOf[w], request[w].pulse)

\* Nobody waits in vain: whoever waits and has no closed timeout waits for
\* the pulse that its node is in, and that pulse's timeouts are still to be
\* raised; also if the hot data never came, came after the pulse change, or
\* the Wait began during it or later.
NobodyWaitsInVain ==
    \A w \in Requests :
        request[w].pc = "wait" =>
            /\ request[w].pulse = latest[request[w].node]
            /\ set[request[w].node] \notin {"close", "drain", "open", "append"}

\* "SendHot send hot records from oldPulse to all jets in newPulse": the data
\* goes to the node that executes the jet in the new pulse.
HotReachesExecutor == \A m \in hots : m.node = executor[m.jet][m.pulse]
=============================================================================
