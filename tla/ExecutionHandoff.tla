-------------------------- MODULE ExecutionHandoff --------------------------
(***************************************************************************)
(* Execution of the requests to one object by the virtual nodes, and the   *)
(* handoff of the object from the executor of one pulse to the executor of *)
(* the next: logicrunner (executionbroker.go, executionregistry,           *)
(* statestorage.go, request_fetcher.go, requestsexecutor.go and the        *)
(* handlers of the messages that virtual nodes exchange).  The ledger is   *)
(* the light node's side of it: ledger/light/proc (set_request.go,         *)
(* set_result.go, has_pendings.go, get_pendings.go, send_object.go,        *)
(* hot_objects.go).                                                        *)
(*                                                                         *)
(* A broker lives for one pulse; the execution registry of the node and    *)
(* what it executes outlive it.  The brokers of past pulses are closed and *)
(* in pending, and all they still do is to finish what they execute.       *)
(* Outgoing requests are not part of the model.                            *)
(***************************************************************************)
EXTENDS Integers, Sequences, FiniteSets, SequencesExt

CONSTANTS
    Nodes,          \* the virtual nodes
    Requests,       \* incoming requests to the object
    Immutable,      \* those that do not change it
    MaxPulse,       \* bound on the pulses
    LastInput,      \* bound on the pulse in which calls and faults come
    MaxFaults,      \* bound on crashes, lost messages, failed executions and
                    \* questions to the ledger that fail
    Timely,         \* whether onPulse messages arrive within their pulse
    pendingNotifyThreshold

ASSUME SetsAssumption ==
    /\ IsFiniteSet(Requests)
    /\ Immutable \subseteq Requests
    /\ Timely \in BOOLEAN
ASSUME BoundsAssumption ==
    /\ MaxPulse \in Nat \ {0}
    /\ LastInput \in Nat
    /\ MaxFaults \in Nat
    /\ pendingNotifyThreshold \in Nat

Pulses == 1 .. MaxPulse
Mutable == Requests \ Immutable
PendingState == {"PendingUnknown", "NotPending", "InPending"}
LedgerHasMore == {"LedgerIsEmpty", "LedgerHasMoreKnown", "LedgerHasMoreUnknown"}

VARIABLES
    pulse,      \* the newest pulse, which is also the pulse of the light node
    executor,   \* executor[p]: the virtual executor of the object in pulse p
    nodePulse,  \* nodePulse[n]: the pulse that node n is in; 0 if it is dead
    broker,     \* broker[n]: the broker of node n's pulse
    exec,       \* exec[n][r]: node n's goroutine in processTranscript for r
    leaving,    \* <<r, by, kept>> of goroutines between finishTranscript and
                \* finishPendingIfNeeded: by is the pulse of their broker, kept
                \* says that its registry is still the one of the node
    calls,      \* HandleCall between registration and write access
    accepted,   \* requests whose caller was told that they are registered
    net,        \* messages on their way
    filament,   \* the ledger: requests in the order of registration
    reg,        \* reg[r]: the pulse in which r was registered; 0 if it was not
    closedAt,   \* closedAt[r]: the pulse in which r got its result; 0 if it has none
    faults

ledger == <<filament, reg, closedAt>>
time == <<pulse, executor, nodePulse>>
vars == <<time, broker, exec, leaving, calls, accepted, net, ledger, faults>>

\* A broker.  "more" is the token in probablyMoreSinceLastFetch, "starters"
\* the number of goroutines in startProcessor, "asked" the one among them
\* that has the ledger's answer to HasPendings; "proc" is the processor,
\* "fetched" the deduplication table (and the fetcher's skip list), "first"
\* says that the fetcher has not come to an end yet.
NewBroker ==
    [on |-> TRUE, pending |-> "PendingUnknown", confirmed |-> FALSE,
     hasMore |-> "LedgerIsEmpty", more |-> FALSE, starters |-> 0, asked |-> "no one",
     proc |-> "off", fetched |-> {}, first |-> TRUE, queue |-> << >>, ready |-> {},
     finished |-> FALSE]

NoBroker == [NewBroker EXCEPT !.on = FALSE]

\* UpsertExecutionState
Upsert(n) == IF broker[n].on THEN broker[n] ELSE NewBroker

NotExecuting == [stage |-> "none", by |-> 0, seen |-> 0]

Init ==
    /\ pulse = 1
    /\ executor \in [1 .. 1 -> Nodes]
    /\ nodePulse = [n \in Nodes |-> 1]
    /\ broker = [n \in Nodes |-> NoBroker]
    /\ exec = [n \in Nodes |-> [r \in Requests |-> NotExecuting]]
    /\ leaving = [n \in Nodes |-> {}]
    /\ calls = {}
    /\ accepted = {}
    /\ net = {}
    /\ filament = << >>
    /\ reg = [r \in Requests |-> 0]
    /\ closedAt = [r \in Requests |-> 0]
    /\ faults = 0

Alive(n) == nodePulse[n] > 0

\* executionRegistry: what the node executes, in whatever broker.
Registry(n) == {r \in Requests : exec[n][r].stage # "none"}
IsActive(n) == Registry(n) # {}

-----------------------------------------------------------------------------
(* The ledger.                                                             *)

Closed(p) == {r \in Requests : closedAt[r] \in 1 .. p}

\* FilamentCalculator.OpenedRequests for a pulse: a node that is behind is
\* answered from the index of its own pulse.
OpenedRequests(p) == {r \in Requests : reg[r] \in 1 .. p} \ Closed(p)

\* Among the mutable requests that are open, r is the first in the order of
\* registration.
OldestMutable(p, r) ==
    /\ r \in Mutable \cap OpenedRequests(p)
    /\ \E i \in 1 .. Len(filament) :
         /\ filament[i] = r
         /\ \A k \in 1 .. i - 1 : filament[k] \notin Mutable \cap OpenedRequests(p)

\* HasPendings: there is an open request older than the pulse.
HasPendings(p) == \E r \in OpenedRequests(p) : reg[r] < p

\* The elements of sequence s that are in S, in their order.
Those(s, S) ==
    LET those[i \in 0 .. Len(s)] ==
          IF i = 0 THEN << >>
          ELSE IF s[i] \in S THEN Append(those[i - 1], s[i]) ELSE those[i - 1]
    IN  those[Len(s)]

\* GetPendings: the open requests that the caller does not know yet, in the
\* order of registration.
GetPendings(p, skip) == Those(filament, OpenedRequests(p) \ skip)

\* The state of the object: how many mutable requests have changed it.
Version(p) == Cardinality(Closed(p) \cap Mutable)

\* SendObject.ensureOldestRequest tells of an older request that is open;
\* about a request that is closed it is silent.
EnsureOldestRequest(p, r) == r \in Mutable \ Closed(p) => OldestMutable(p, r)

\* SetRequest under the lock of the object; a duplicate changes nothing.
SetRequest(r) ==
    /\ filament' = IF reg[r] = 0 THEN Append(filament, r) ELSE filament
    /\ reg' = IF reg[r] = 0 THEN [reg EXCEPT ![r] = pulse] ELSE reg
    /\ UNCHANGED closedAt

\* SetResult under the lock of the object: the first result of a request
\* counts, and mutable requests are closed in the order of registration.
SetResult(r) ==
    /\ closedAt' = IF r \in Immutable \ Closed(pulse) \/ OldestMutable(pulse, r)
                     THEN [closedAt EXCEPT ![r] = pulse] ELSE closedAt
    /\ UNCHANGED <<filament, reg>>

-----------------------------------------------------------------------------
(* Calls.                                                                  *)

To(p) == executor[p]

\* ContractRequester.SendRequest: one retry when the flow is cancelled.
SendCall(r) ==
    /\ pulse <= LastInput
    /\ reg[r] = 0
    /\ \A m \in net : m.kind = "CallMethod" => m.req # r
    /\ \A h \in calls : h.req # r
    /\ net' = net \cup {[kind |-> "CallMethod", to |-> To(pulse), pulse |-> pulse,
                         req |-> r, tries |-> 1]}
    /\ UNCHANGED <<time, broker, exec, leaving, calls, accepted, ledger, faults>>

\* A message is handled in the pulse it was sent in.
Arrives(m, kind) ==
    /\ m \in net
    /\ m.kind = kind
    /\ nodePulse[m.to] = m.pulse

\* A message that comes after its pulse finds the write controller closed.
Late(m) == m \in net /\ nodePulse[m.to] > m.pulse

\* HandleCall.handleActual up to the registration of the request, which the
\* ledger deduplicates.  A request that has a result is answered at once.
RegisterIncomingRequest(m) ==
    /\ Arrives(m, "CallMethod")
    /\ m.pulse = pulse
    /\ net' = net \ {m}
    /\ SetRequest(m.req)
    /\ calls' = IF m.req \in Closed(pulse) THEN calls
                ELSE calls \cup {[node |-> m.to, pulse |-> m.pulse, req |-> m.req,
                                  tries |-> m.tries]}
    /\ accepted' = IF m.req \in Closed(pulse) THEN accepted \cup {m.req} ELSE accepted
    /\ UNCHANGED <<time, broker, exec, leaving, faults>>

\* Slip: the channel of the token has no buffer, so that only a processor
\* that waits gets it.
HasMoreUnbuffered(b) ==
    [b EXCEPT !.hasMore = "LedgerHasMoreKnown", !.more = @ \/ b.proc = "waiting",
              !.starters = @ + 1]

\* setHasMoreRequests, and a new goroutine in startProcessor.
HasMoreRequests(b) ==
    [b EXCEPT !.hasMore = "LedgerHasMoreKnown", !.more = TRUE, !.starters = @ + 1]

\* The rest of handleActual with write access.
HandleCall(h) ==
    /\ h \in calls
    /\ nodePulse[h.node] = h.pulse
    /\ calls' = calls \ {h}
    /\ accepted' = accepted \cup {h.req}
    /\ broker' = [broker EXCEPT ![h.node] = HasMoreRequests(Upsert(h.node))]
    /\ UNCHANGED <<time, exec, leaving, net, ledger, faults>>

\* Without write access, the next executor is told of the call.
SendToNextExecutor(h) ==
    /\ h \in calls
    /\ nodePulse[h.node] > h.pulse
    /\ calls' = calls \ {h}
    /\ net' = net \cup {[kind |-> "AdditionalCall", to |-> To(nodePulse[h.node]),
                         pulse |-> nodePulse[h.node], from |-> h.node, req |-> h.req,
                         tries |-> 1]}
    /\ accepted' = accepted \cup {h.req}
    /\ UNCHANGED <<time, broker, exec, leaving, ledger, faults>>

\* The caller's one retry of a call whose flow was cancelled.
ResendCall(req, tries) ==
    IF tries > 0
      THEN {[kind |-> "CallMethod", to |-> To(pulse), pulse |-> pulse, req |-> req,
             tries |-> tries - 1]}
      ELSE {}

\* The pulse ended while the registration procedure was waited for.
CallCancelled(h) ==
    /\ h \in calls
    /\ nodePulse[h.node] > h.pulse
    /\ calls' = calls \ {h}
    /\ net' = net \cup ResendCall(h.req, h.tries)
    /\ UNCHANGED <<time, broker, exec, leaving, accepted, ledger, faults>>

\* Init.Past answers a late call with ErrCancelled.
CallTooLate(m) ==
    /\ Late(m)
    /\ m.kind = "CallMethod"
    /\ net' = (net \ {m}) \cup ResendCall(m.req, m.tries)
    /\ UNCHANGED <<time, broker, exec, leaving, calls, accepted, ledger, faults>>

-----------------------------------------------------------------------------
(* Handlers of the messages between virtual nodes.                         *)

\* PrevExecutorPendingResult, then HasMoreRequests.
HandleExecutorResults(m) ==
    LET b == Upsert(m.to)
        pending == CASE b.pending = "PendingUnknown" -> m.pending
                     [] b.pending = "InPending" /\ ~IsActive(m.to) /\ m.pending = "NotPending"
                          -> "NotPending"
                     [] OTHER -> b.pending
        c == [b EXCEPT !.pending = pending] IN
    /\ Arrives(m, "ExecutorResults")
    /\ net' = net \ {m}
    /\ broker' = [broker EXCEPT ![m.to] = IF m.more THEN HasMoreRequests(c) ELSE c]
    /\ UNCHANGED <<time, exec, leaving, calls, accepted, ledger, faults>>

\* PrevExecutorStillExecuting
HandleStillExecuting(m) ==
    LET b == Upsert(m.to) IN
    /\ Arrives(m, "StillExecuting")
    /\ net' = net \ {m}
    /\ broker' = [broker EXCEPT ![m.to] =
                    IF b.pending = "NotPending"
                      THEN b
                      ELSE [b EXCEPT !.pending = "InPending", !.confirmed = TRUE]]
    /\ UNCHANGED <<time, exec, leaving, calls, accepted, ledger, faults>>

\* PrevExecutorSentPendingFinished; the reply, OK or ErrAlreadyExecuting,
\* lets the sender go on.
HandlePendingFinished(m) ==
    LET b == Upsert(m.to) IN
    /\ Arrives(m, "PendingFinished")
    /\ net' = net \ {m}
    /\ broker' = [broker EXCEPT ![m.to] =
                    IF IsActive(m.to)
                      THEN b
                      ELSE [b EXCEPT !.pending = "NotPending", !.starters = @ + 1]]
    /\ UNCHANGED <<time, exec, leaving, calls, accepted, ledger, faults>>

\* AdditionalCallFromPreviousExecutor.Proceed; the message never carries a
\* pending state.
HandleAdditionalCall(m) ==
    /\ Arrives(m, "AdditionalCall")
    /\ net' = net \ {m}
    /\ broker' = [broker EXCEPT ![m.to] = HasMoreRequests(Upsert(m.to))]
    /\ UNCHANGED <<time, exec, leaving, calls, accepted, ledger, faults>>

\* AbandonedRequestsOnLedger
HandleAbandonedRequests(m) ==
    LET b == Upsert(m.to)
        c == IF b.pending = "PendingUnknown"
               THEN [b EXCEPT !.pending = "InPending", !.confirmed = FALSE] ELSE b IN
    /\ Arrives(m, "AbandonedRequests")
    /\ net' = net \ {m}
    /\ broker' = [broker EXCEPT ![m.to] = HasMoreRequests(c)]
    /\ UNCHANGED <<time, exec, leaving, calls, accepted, ledger, faults>>

\* RetrySender: a cancelled PendingFinished or AdditionalCall is sent once
\* more, after the pulse has changed on the sender too.  The other messages
\* are not repeated.
TooLate(m) ==
    /\ Late(m)
    /\ m.kind # "CallMethod"
    /\ \/ /\ m.kind \in {"PendingFinished", "AdditionalCall"}
          /\ Alive(m.from)
          /\ nodePulse[m.from] > m.pulse
          /\ net' = (net \ {m}) \cup
                    IF m.tries > 0
                      THEN {[m EXCEPT !.to = To(nodePulse[m.from]),
                                      !.pulse = nodePulse[m.from], !.tries = @ - 1]}
                      ELSE {}
       \/ /\ m.kind \in {"PendingFinished", "AdditionalCall"} => ~Alive(m.from)
          /\ net' = net \ {m}
    /\ UNCHANGED <<time, broker, exec, leaving, calls, accepted, ledger, faults>>

\* Nobody answers for a dead node: the sender's wait times out, and a timeout
\* is not retried.
NobodyThere(m) ==
    /\ ~Alive(m.to)
    /\ net' = net \ {m}
    /\ UNCHANGED <<time, broker, exec, leaving, calls, accepted, ledger, faults>>

-----------------------------------------------------------------------------
(* startProcessor and the requests processor.                              *)

Fault ==
    /\ faults < MaxFaults
    /\ pulse <= LastInput
    /\ faults' = faults + 1

SetBroker(n, b) ==
    /\ broker' = [broker EXCEPT ![n] = b]
    /\ UNCHANGED <<time, exec, leaving, calls, accepted, net, ledger, faults>>

\* clarifyPendingStateFromLedger: HasPendings, under HasPendingCheckMutex.
AskLedger(n) ==
    LET b == broker[n] IN
    /\ b.starters > 0
    /\ b.pending = "PendingUnknown"
    /\ b.asked = "no one"
    /\ SetBroker(n, [b EXCEPT !.starters = @ - 1,
                              !.asked = IF HasPendings(nodePulse[n]) THEN "has" ELSE "has not"])

\* An error of HasPendings: the state stays unknown, and startProcessor
\* returns.  If it became known meanwhile, that is a StartProcessor.
AskLedgerFails(n) ==
    LET b == broker[n] IN
    /\ b.starters > 0
    /\ b.pending = "PendingUnknown"
    /\ b.asked = "no one"
    /\ Fault
    /\ broker' = [broker EXCEPT ![n] = [b EXCEPT !.starters = @ - 1]]
    /\ UNCHANGED <<time, exec, leaving, calls, accepted, net, ledger>>

\* The answer counts only if the state is still unknown.
ClarifyPendingState(n) ==
    LET b == broker[n] IN
    /\ b.asked # "no one"
    /\ SetBroker(n,
         IF b.pending # "PendingUnknown"
           THEN [b EXCEPT !.starters = @ + 1, !.asked = "no one"]
           ELSE IF b.asked = "has"
           THEN [b EXCEPT !.starters = @ + 1, !.asked = "no one",
                          !.pending = "InPending", !.hasMore = "LedgerHasMoreUnknown"]
           ELSE [b EXCEPT !.starters = @ + 1, !.asked = "no one", !.pending = "NotPending"])

\* The rest of startProcessor: the processor starts, or there is one, or the
\* object is in pending.
StartProcessor(n) ==
    LET b == broker[n] IN
    /\ b.starters > 0
    /\ b.pending # "PendingUnknown"
    /\ SetBroker(n,
         IF b.pending = "NotPending" /\ b.proc = "off"
           THEN [b EXCEPT !.starters = @ - 1, !.more = FALSE, !.proc = "fetching"]
           ELSE [b EXCEPT !.starters = @ - 1])

\* GetPendings answers with the open requests that were not fetched yet; the
\* processor feeds them to the goroutines that execute them.
Fetch(n) ==
    LET b == broker[n]
        new == GetPendings(nodePulse[n], b.fetched) IN
    /\ b.proc = "fetching"
    /\ SetBroker(n,
         IF new = << >>
           THEN [b EXCEPT !.proc = "end"]
           ELSE [b EXCEPT !.fetched = @ \cup ToSet(new),
                          !.queue = @ \o Those(new, Mutable),
                          !.ready = @ \cup (ToSet(new) \cap Immutable)])

\* Slip: what was fetched counts as done.
NoMoreRequestsOnceFetched(n) ==
    LET b == broker[n] IN
    /\ b.proc = "end"
    /\ SetBroker(n,
         [b EXCEPT !.proc = "waiting", !.first = FALSE,
                   !.hasMore = IF b.more THEN @ ELSE "LedgerIsEmpty"])

\* noMoreRequestsOnLedgerInitial or noMoreRequestsOnLedger; then the
\* processor waits for more.
NoMoreRequests(n) ==
    LET b == broker[n] IN
    /\ b.proc = "end"
    /\ SetBroker(n,
         [b EXCEPT !.proc = "waiting", !.first = FALSE,
                   !.hasMore = IF b.more THEN @
                               ELSE IF b.first /\ b.fetched = {} THEN "LedgerIsEmpty"
                               ELSE "LedgerHasMoreKnown"])

\* The token of probablyMoreSinceLastFetch restarts the fetcher.
Refetch(n) ==
    LET b == broker[n] IN
    /\ b.proc = "waiting"
    /\ b.more
    /\ SetBroker(n, [b EXCEPT !.proc = "fetching", !.more = FALSE])

-----------------------------------------------------------------------------
(* processTranscript.                                                      *)

\* One goroutine reads the mutable feed of a broker.
ReaderBusy(n) ==
    \E r \in Mutable :
        \/ exec[n][r].stage # "none" /\ exec[n][r].by = nodePulse[n]
        \/ <<r, nodePulse[n], TRUE>> \in leaving[n]
        \/ \E m \in net : /\ m.kind = "PendingFinished"
                          /\ m.from = n /\ m.by = nodePulse[n] /\ m.req = r

\* canProcessTranscript: a transcript that the registry has is skipped.
Take(n, r) ==
    LET b == broker[n] IN
    /\ \/ /\ b.queue # << >> /\ b.queue[1] = r
          /\ ~ReaderBusy(n)
          /\ broker' = [broker EXCEPT ![n].queue = Tail(@)]
       \/ /\ r \in b.ready
          /\ broker' = [broker EXCEPT ![n].ready = @ \ {r}]
    /\ exec' = IF exec[n][r].stage = "none"
                 THEN [exec EXCEPT ![n][r] = [stage |-> "registered", by |-> nodePulse[n],
                                              seen |-> 0]]
                 ELSE exec
    /\ UNCHANGED <<time, leaving, calls, accepted, net, ledger, faults>>

\* artifactsManager.GetObject, answered by SendObject.Proceed, which takes no
\* lock: the state of the object is that of the index that it reads first.
ReadIndex(n, r) ==
    /\ exec[n][r].stage = "registered"
    /\ exec' = [exec EXCEPT ![n][r] = [@ EXCEPT !.stage = "reading",
                                               !.seen = Version(nodePulse[n])]]
    /\ UNCHANGED <<time, broker, leaving, calls, accepted, net, ledger, faults>>

\* Slip: the earliest request that the ledger tells is not looked at.
GetObjectUnchecked(n, r) ==
    /\ exec[n][r].stage = "reading"
    /\ exec' = [exec EXCEPT ![n][r].stage = "running"]
    /\ UNCHANGED <<time, broker, leaving, calls, accepted, net, ledger, faults>>

\* Then it looks for the earliest request; a transcript that has an earlier
\* one before it is given up.
GetObject(n, r) ==
    /\ exec[n][r].stage = "reading"
    /\ exec' = [exec EXCEPT ![n][r].stage = IF EnsureOldestRequest(nodePulse[n], r)
                                              THEN "running" ELSE "refused"]
    /\ UNCHANGED <<time, broker, leaving, calls, accepted, net, ledger, faults>>

\* ExecuteAndSave.  The ledger takes writes in its own pulse only.
ExecuteAndSave(n, r) ==
    /\ exec[n][r].stage = "running"
    /\ nodePulse[n] = pulse
    /\ exec' = [exec EXCEPT ![n][r].stage = "done"]
    /\ SetResult(r)
    /\ UNCHANGED <<time, broker, leaving, calls, accepted, net, faults>>

\* The execution, or saving its result, fails.
ExecutionFails(n, r) ==
    /\ exec[n][r].stage = "running"
    /\ Fault
    /\ exec' = [exec EXCEPT ![n][r].stage = "done"]
    /\ UNCHANGED <<time, broker, leaving, calls, accepted, net, ledger>>

\* finishTranscript: a closed broker's list of finished ones serves nobody.
FinishTranscript(n, r) ==
    LET by == exec[n][r].by IN
    /\ exec[n][r].stage \in {"done", "refused"}
    /\ exec' = [exec EXCEPT ![n][r] = NotExecuting]
    /\ leaving' = [leaving EXCEPT ![n] = @ \cup {<<r, by, TRUE>>}]
    /\ broker' = IF by = nodePulse[n] THEN [broker EXCEPT ![n].finished = TRUE] ELSE broker
    /\ UNCHANGED <<time, calls, accepted, net, ledger, faults>>

\* finishPendingIfNeeded.  The lock of the broker is held until the answer
\* to PendingFinished.  A broker of a past pulse is in pending.  It looks at
\* its own registry: one that stateStorage.OnPulse has deleted was empty and
\* remains so, whatever the node executes now.
FinishPending(n, r, by, kept) ==
    LET pending == IF by = nodePulse[n] THEN broker[n].pending ELSE "InPending" IN
    /\ <<r, by, kept>> \in leaving[n]
    /\ \A m \in net : m.kind = "PendingFinished" => ~(m.from = n /\ m.by = by)
    /\ leaving' = [leaving EXCEPT ![n] = @ \ {<<r, by, kept>>}]
    /\ net' = IF pending = "InPending" /\ (kept => ~IsActive(n))
                THEN net \cup {[kind |-> "PendingFinished", to |-> To(nodePulse[n]),
                                pulse |-> nodePulse[n], from |-> n, by |-> by, req |-> r,
                                tries |-> 1]}
                ELSE net
    /\ UNCHANGED <<time, broker, exec, calls, accepted, ledger, faults>>

-----------------------------------------------------------------------------
(* Pulses.                                                                 *)

\* HotObjects.notifyPending: the light executor of the new pulse tells the
\* virtual executor of requests that are open for too long.
AbandonedRequests(p, n) ==
    IF \E r \in OpenedRequests(pulse) : reg[r] < p - pendingNotifyThreshold
      THEN {[kind |-> "AbandonedRequests", to |-> n, pulse |-> p]}
      ELSE {}

\* With Timely, a pulse is long enough for what an executor is told at its
\* beginning to arrive and to be looked at, and for what a goroutine does
\* after finishTranscript.  Executions last as long as they like.
UpToDate(n) ==
    /\ leaving[n] = {}
    /\ broker[n].starters = 0
    /\ broker[n].asked = "no one"
    /\ \A m \in net : m.kind \in {"ExecutorResults", "StillExecuting", "AbandonedRequests"}
                        /\ m.pulse = nodePulse[n] => m.to # n

\* A pulse is long enough for every node to take part in it.
NewPulse(n) ==
    /\ pulse < MaxPulse
    /\ \A k \in Nodes : Alive(k) => nodePulse[k] = pulse
    /\ Timely => \A k \in Nodes : UpToDate(k)
    /\ Alive(n)
    /\ pulse' = pulse + 1
    /\ executor' = Append(executor, n)
    /\ net' = net \cup AbandonedRequests(pulse + 1, n)
    /\ UNCHANGED <<nodePulse, broker, exec, leaving, calls, accepted, ledger, faults>>

\* Slip: an executor that nobody heard of is waited for in the next pulse too.
ExecutorResultsTrusting(n) ==
    LET b == broker[n]
        more == b.hasMore # "LedgerIsEmpty" IN
    IF b.on /\ (IsActive(n) \/ b.finished \/ more)
      THEN {[kind |-> "ExecutorResults", to |-> To(pulse), pulse |-> pulse, from |-> n,
             pending |-> IF IsActive(n) THEN "InPending" ELSE b.pending,
             more |-> more]}
      ELSE {}

\* ExecutionBroker.OnPulse: what the broker tells the next executor.
ExecutorResults(n) ==
    LET b == broker[n]
        dead == ~IsActive(n) /\ b.pending = "InPending" /\ ~b.confirmed
        more == dead \/ b.hasMore # "LedgerIsEmpty" IN
    IF b.on /\ (IsActive(n) \/ b.finished \/ more)
      THEN {[kind |-> "ExecutorResults", to |-> To(pulse), pulse |-> pulse, from |-> n,
             pending |-> IF IsActive(n) THEN "InPending"
                         ELSE IF dead THEN "NotPending" ELSE b.pending,
             more |-> more]}
      ELSE {}

\* executionRegistry.OnPulse
StillExecuting(n) ==
    IF IsActive(n)
      THEN {[kind |-> "StillExecuting", to |-> To(pulse), pulse |-> pulse, from |-> n]}
      ELSE {}

\* stateStorage.OnPulse deletes a registry that is empty.
DropRegistry(n) ==
    IF IsActive(n) THEN leaving
    ELSE [leaving EXCEPT ![n] = {<<l[1], l[2], FALSE>> : l \in @}]

\* LogicRunner.OnPulse: stateStorage.OnPulse with the write controller closed,
\* then the messages of the brokers and of the registries are sent.  The
\* pulse manager appends the pulse to its storage just before, and a broker
\* that asks the ledger in between is answered for the new pulse already; here
\* that is one moment.
OnPulse(n) ==
    /\ Alive(n)
    /\ nodePulse[n] < pulse
    /\ Timely => UpToDate(n)
    /\ nodePulse' = [nodePulse EXCEPT ![n] = pulse]
    /\ broker' = [broker EXCEPT ![n] = NoBroker]
    /\ net' = net \cup ExecutorResults(n) \cup StillExecuting(n)
    /\ leaving' = DropRegistry(n)
    /\ UNCHANGED <<pulse, executor, exec, calls, accepted, ledger, faults>>

-----------------------------------------------------------------------------
(* Faults.                                                                 *)

\* A virtual node keeps nothing on disk and does not come back.
Crash(n) ==
    /\ Alive(n)
    /\ Fault
    /\ nodePulse' = [nodePulse EXCEPT ![n] = 0]
    /\ broker' = [broker EXCEPT ![n] = NoBroker]
    /\ exec' = [exec EXCEPT ![n] = [r \in Requests |-> NotExecuting]]
    /\ leaving' = [leaving EXCEPT ![n] = {}]
    /\ calls' = {h \in calls : h.node # n}
    /\ UNCHANGED <<accepted, pulse, executor, net, ledger>>

Lose(m) ==
    /\ m \in net
    /\ Fault
    /\ net' = net \ {m}
    /\ UNCHANGED <<time, broker, exec, leaving, calls, accepted, ledger>>

-----------------------------------------------------------------------------
Deliver(m) ==
    \/ RegisterIncomingRequest(m)
    \/ CallTooLate(m)
    \/ HandleExecutorResults(m)
    \/ HandleStillExecuting(m)
    \/ HandlePendingFinished(m)
    \/ HandleAdditionalCall(m)
    \/ HandleAbandonedRequests(m)
    \/ TooLate(m)
    \/ NobodyThere(m)

Handle(h) == HandleCall(h) \/ SendToNextExecutor(h) \/ CallCancelled(h)

Process(n) ==
    \/ AskLedger(n)
    \/ ClarifyPendingState(n)
    \/ StartProcessor(n)
    \/ Fetch(n)
    \/ NoMoreRequests(n)
    \/ Refetch(n)

Transcript(n, r) ==
    \/ Take(n, r)
    \/ ReadIndex(n, r)
    \/ GetObject(n, r)
    \/ ExecuteAndSave(n, r)
    \/ FinishTranscript(n, r)
    \/ \E by \in Pulses, kept \in BOOLEAN : FinishPending(n, r, by, kept)

Next ==
    \/ \E r \in Requests : SendCall(r)
    \/ \E m \in net : Deliver(m) \/ Lose(m)
    \/ \E h \in calls : Handle(h)
    \/ \E n \in Nodes :
          \/ Process(n)
          \/ \E r \in Requests : Transcript(n, r) \/ ExecutionFails(n, r)
          \/ AskLedgerFails(n)
          \/ NewPulse(n)
          \/ OnPulse(n)
          \/ Crash(n)

Spec == Init /\ [][Next]_vars

\* Goroutines that can run do run, and a message that is not lost arrives.
\* Pulses keep coming, up to the bound, and a node changes to the pulse that
\* it knows of.  Calls and faults are owed to nobody.
Fairness ==
    /\ WF_vars(\E n \in Nodes : NewPulse(n))
    /\ WF_vars(\E m \in net : Deliver(m))
    /\ WF_vars(\E h \in calls : Handle(h))
    /\ \A n \in Nodes :
          /\ WF_vars(Process(n))
          /\ WF_vars(OnPulse(n))
          /\ \A r \in Requests : WF_vars(Transcript(n, r))

FairSpec == Spec /\ Fairness

-----------------------------------------------------------------------------
Stages == {"none", "registered", "reading", "running", "refused", "done"}

\* Every variable has the type of what it stands for.
TypeOK ==
    /\ pulse \in Pulses
    /\ executor \in [1 .. pulse -> Nodes]
    /\ nodePulse \in [Nodes -> 0 .. pulse]
    /\ \A n \in Nodes :
          /\ broker[n].pending \in PendingState
          /\ broker[n].hasMore \in LedgerHasMore
          /\ broker[n].proc \in {"off", "fetching", "end", "waiting"}
          /\ broker[n].starters \in Nat
          /\ broker[n].asked \in {"no one", "has", "has not"}
          /\ broker[n].fetched \subseteq Requests
          /\ ToSet(broker[n].queue) \subseteq Mutable
          /\ broker[n].ready \subseteq Immutable
    /\ exec \in [Nodes -> [Requests -> [stage : Stages, by : 0 .. pulse, seen : Nat]]]
    /\ leaving \in [Nodes -> SUBSET (Requests \X Pulses \X BOOLEAN)]
    /\ \A m \in net : m.to \in Nodes /\ m.pulse \in 1 .. pulse
    /\ filament \in Seq(Requests)
    /\ accepted \subseteq ToSet(filament)
    /\ reg \in [Requests -> 0 .. pulse]
    /\ closedAt \in [Requests -> 0 .. pulse]
    /\ faults \in 0 .. MaxFaults

Executes(n, r) == exec[n][r].stage \in {"registered", "reading", "running"}

\* NotPending is "we know that this task is not executed by another VE"
\* (insolar/vm.go): while a node executes a mutable request, in whatever
\* pulse it began, no node executes another one or the same one again.  This
\* is what InPending, StillExecuting and PendingFinished are for.
ExclusiveExecution ==
    \A n, k \in Nodes, r, s \in Mutable :
        Executes(n, r) /\ Executes(k, s) => n = k /\ r = s

\* However many nodes execute requests of the object at the same time, and
\* in whatever pulse they are, of the mutable requests that are still open
\* only the oldest one gets beyond the check that GetObject makes: nobody
\* else can change the object between that check and the saving of the result.
OneUpdateAtATime ==
    \A n \in Nodes, r \in Mutable :
        exec[n][r].stage = "running" /\ closedAt[r] = 0 => OldestMutable(pulse, r)

\* The broker that a request was told to keeps it in mind for as long as it
\* is open: the request is fetched, or another fetch will come, even if it was
\* registered while the last one was under way (probablyMoreSinceLastFetch);
\* and whatever becomes of its execution, at the end of the pulse the next
\* executor hears that there is work on the ledger.
AcceptedIsRemembered ==
    \A n \in Nodes, r \in accepted :
        reg[r] = nodePulse[n] /\ To(nodePulse[n]) = n /\ r \in OpenedRequests(nodePulse[n])
            => /\ broker[n].hasMore # "LedgerIsEmpty"
               /\ r \in broker[n].fetched \/ broker[n].more \/ broker[n].proc = "fetching"

\* "Prevent concurrent object modifications" (set_result.go), with the object
\* handed out for the earliest request only (send_object.go): the result of a
\* mutable request that the ledger accepts was computed from the state that it
\* replaces.
NoLostUpdate ==
    [][\A n \in Nodes, r \in Mutable :
          closedAt'[r] # closedAt[r] /\ exec'[n][r] # exec[n][r]
              => exec[n][r].seen = Version(pulse)]_vars

\* The earliest request that the ledger tells is the one that is executed:
\* processTranscript logs anything else as "this shouldn't happen".
NeverRefused == \A n \in Nodes, r \in Requests : exec[n][r].stage # "refused"

\* The object is not handed out for a request that the ledger's index knows
\* to be closed: ensureOldestRequest means to answer "request isn't opened".
NotExecutedAgain ==
    [][\A n \in Nodes, r \in Requests :
          exec[n][r].stage = "reading" /\ exec'[n][r].stage = "running"
              => r \notin Closed(nodePulse[n])]_vars

\* A request whose caller was told that it is registered is executed in the
\* end: however the pulses change, and although messages are lost, nodes die
\* and executions fail, the handoff neither forgets a request nor leaves the
\* object in pending.
AcceptedIsClosed ==
    \A r \in Requests : r \in accepted /\ pulse <= LastInput ~> closedAt[r] # 0
=============================================================================
