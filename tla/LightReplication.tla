-------------------------- MODULE LightReplication --------------------------
(***************************************************************************)
(* How a light node hands its finished pulses to the heavy node and        *)
(* forgets them: ledger/light/executor/lightreplicator.go, cleaner.go,     *)
(* with insolar/pulse/memory.go, and the handlers that read old data.      *)
(*                                                                         *)
(* Every pulse change starts a goroutine that notifies the replicator,     *)
(* whose one worker sends the previous pulse jet by jet and starts a       *)
(* goroutine that notifies the cleaner, whose one worker deletes the pulse *)
(* that lies LightChainLimit + CleanerDelay before.  The goroutines start  *)
(* in any order, and a slow one may fall behind by several pulses.         *)
(*                                                                         *)
(* Pulses are numbered by their place in the pulse storage; 0 is the pulse *)
(* a joining node gets from the heavy node.                                *)
(***************************************************************************)
EXTENDS Integers

CONSTANTS
    Jets,             \* the jets the node executes
    Handlers,         \* message handlers that read data of older pulses
    LightChainLimit,  \* how many pulses back handlers may read
    CleanerDelay,     \* how much longer data is kept for slow handlers
    MaxLag,           \* no notification is more than MaxLag pulses behind
    MaxPulse          \* bound: pulses are 0 .. MaxPulse

ASSUME LimitAssumption == LightChainLimit \in Nat /\ CleanerDelay \in Nat
ASSUME MaxLagAssumption == MaxLag \in Nat
ASSUME MaxPulseAssumption == MaxPulse \in Nat \ {0}

VARIABLES
    latest,     \* the latest pulse in the storage
    first,      \* the oldest one: StorageMem.head
    data,       \* pulses whose drops, records, indexes and jets are there
    notify,     \* pulses of NotifyAboutPulse goroutines of the replicator
    queue,      \* previous pulses they wait to put into syncWaitingPulses
    worker,     \* the replicator's worker: [pulse, left]
    sent,       \* <<pulse, jet>> pairs sent to the heavy node
    notifyCl,   \* pulses of NotifyAboutPulse goroutines of the cleaner
    cleaning,   \* the pulse the cleaner has deleted and not yet shifted out
    handler     \* handler[h]: [pc, at, reads]

replicator == <<notify, queue, worker, sent>>
cleaner == <<notifyCl, cleaning>>
vars == <<latest, first, data, notify, queue, worker, sent, notifyCl, cleaning, handler>>

Pulses == 0 .. MaxPulse
NoPulse == -1
CleanFrom == LightChainLimit + CleanerDelay

Idle == [pulse |-> NoPulse, left |-> {}]

\* StorageMem.Backwards finds a pulse.
Found(p) == p >= first /\ p <= latest

\* The pulses that have been notified of and are not completely sent.
Behind == notify \cup {p + 1 : p \in queue}
          \cup IF worker = Idle THEN {} ELSE {worker.pulse + 1}

\* The node has joined in pulse 1, which is not notified of.
Init ==
    /\ latest = 1
    /\ first = 0
    /\ data = {1}
    /\ notify = {}
    /\ queue = {}
    /\ worker = Idle
    /\ sent = {}
    /\ notifyCl = {}
    /\ cleaning = NoPulse
    /\ handler = [h \in Handlers |-> [pc |-> "idle", at |-> 0, reads |-> 0]]

-----------------------------------------------------------------------------
\* PulseManager.Set: the pulse is appended and the replicator notified of it.
\* The environment: no notification falls behind by more than MaxLag, no handler
\* takes longer than CleanerDelay pulses.
SetPulse ==
    /\ latest < MaxPulse
    /\ \A p \in Behind : latest + 1 - p <= MaxLag
    /\ \A h \in Handlers : handler[h].pc = "read" => latest + 1 - handler[h].at <= CleanerDelay
    /\ latest' = latest + 1
    /\ data' = data \cup {latest + 1}
    /\ notify' = notify \cup {latest + 1}
    /\ UNCHANGED <<first, queue, worker, sent, cleaner, handler>>

\* Slip: the new pulse is to be sent, not the one before it.
NotifyAboutItself(p) ==
    /\ p \in notify
    /\ notify' = notify \ {p}
    /\ queue' = queue \cup {p}
    /\ UNCHANGED <<latest, first, data, worker, sent, cleaner, handler>>

\* LightReplicatorDefault.NotifyAboutPulse: the previous pulse is to be sent;
\* if the storage has it no more the goroutine only logs an error.
NotifyAboutPulse(p) ==
    /\ p \in notify
    /\ notify' = notify \ {p}
    /\ queue' = IF Found(p) /\ Found(p - 1) THEN queue \cup {p - 1} ELSE queue
    /\ UNCHANGED <<latest, first, data, worker, sent, cleaner, handler>>

\* The worker takes a pulse and finds the jets it has executed in it: none
\* when the jets of the pulse are deleted.
Sync(p) ==
    /\ worker = Idle
    /\ p \in queue
    /\ queue' = queue \ {p}
    /\ worker' = [pulse |-> p, left |-> IF p \in data THEN Jets ELSE {}]
    /\ UNCHANGED <<latest, first, data, notify, sent, cleaner, handler>>

\* The data of a jet is gathered and sent.  (It must be there: the worker
\* panics otherwise.)
SendToHeavy(j) ==
    /\ j \in worker.left
    /\ worker.pulse \in data
    /\ worker' = [worker EXCEPT !.left = @ \ {j}]
    /\ sent' = sent \cup {<<worker.pulse, j>>}
    /\ UNCHANGED <<latest, first, data, notify, queue, cleaner, handler>>

\* Slip: the cleaner is told of the latest pulse, not of the one that was sent.
SyncedLatest ==
    /\ worker # Idle
    /\ worker.left = {}
    /\ notifyCl' = notifyCl \cup {latest}
    /\ worker' = Idle
    /\ UNCHANGED <<latest, first, data, notify, queue, sent, cleaning, handler>>

\* Every jet is sent: go lr.cleaner.NotifyAboutPulse(ctx, pn).
Synced ==
    /\ worker # Idle
    /\ worker.left = {}
    /\ notifyCl' = notifyCl \cup {worker.pulse}
    /\ worker' = Idle
    /\ UNCHANGED <<latest, first, data, notify, queue, sent, cleaning, handler>>

\* Slip: the delay is left out.
CleanNoDelay(p) ==
    /\ p \in notifyCl
    /\ cleaning = NoPulse
    /\ notifyCl' = notifyCl \ {p}
    /\ IF Found(p) /\ Found(p - LightChainLimit)
         THEN /\ data' = data \ {p - LightChainLimit}
              /\ cleaning' = p - LightChainLimit
         ELSE UNCHANGED <<data, cleaning>>
    /\ UNCHANGED <<latest, first, replicator, handler>>

\* LightCleaner.clean takes a pulse: Backwards(pn, limit + delay); when the
\* storage has no such pulse, nothing is done.
Clean(p) ==
    /\ p \in notifyCl
    /\ cleaning = NoPulse
    /\ notifyCl' = notifyCl \ {p}
    /\ IF Found(p) /\ Found(p - CleanFrom)
         THEN /\ data' = data \ {p - CleanFrom}
              /\ cleaning' = p - CleanFrom
         ELSE UNCHANGED <<data, cleaning>>
    /\ UNCHANGED <<latest, first, replicator, handler>>

\* StorageMem.Shift: that pulse and all before it leave the storage.
Shift ==
    /\ cleaning # NoPulse
    /\ first' = IF cleaning >= first THEN cleaning + 1 ELSE first
    /\ cleaning' = NoPulse
    /\ UNCHANGED <<latest, data, replicator, notifyCl, handler>>

-----------------------------------------------------------------------------
\* jetcoordinator.IsBeyondLimit: a pulse before the latest one is within the
\* limit only if the storage also has the pulse before it.
IsBeyondLimit(p) ==
    p = 0 \/ (p < latest /\ ~(latest - p < LightChainLimit /\ Found(p - 1)))

\* A handler checks that the pulse it asks for is not beyond the limit ...
CheckLimit(h, p) ==
    /\ handler[h].pc = "idle"
    /\ p <= latest
    /\ ~IsBeyondLimit(p)
    /\ handler' = [handler EXCEPT ![h] = [pc |-> "read", at |-> latest, reads |-> p]]
    /\ UNCHANGED <<latest, first, data, replicator, cleaner>>

\* ... and then looks for the pulse's nodes.
Read(h) ==
    /\ handler[h].pc = "read"
    /\ handler' = [handler EXCEPT ![h].pc = "idle"]
    /\ UNCHANGED <<latest, first, data, replicator, cleaner>>

Next ==
    \/ SetPulse
    \/ \E p \in Pulses : NotifyAboutPulse(p)
    \/ \E p \in Pulses : Sync(p)
    \/ \E j \in Jets : SendToHeavy(j)
    \/ Synced
    \/ \E p \in Pulses : Clean(p)
    \/ Shift
    \/ \E h \in Handlers, p \in Pulses : CheckLimit(h, p)
    \/ \E h \in Handlers : Read(h)

\* The notifications and the replicator's worker are scheduled.  Nothing is
\* asked of the cleaner, of handlers and of pulses.
Fairness ==
    /\ \A p \in Pulses : WF_vars(NotifyAboutPulse(p))
    /\ WF_vars(\E p \in Pulses : Sync(p))
    /\ WF_vars(\E j \in Jets : SendToHeavy(j))
    /\ WF_vars(Synced)

Spec == Init /\ [][Next]_vars

FairSpec == Spec /\ Fairness

-----------------------------------------------------------------------------
\* Every variable has the type of the field or channel it stands for.
TypeOK ==
    /\ latest \in Pulses
    /\ first \in Pulses
    /\ data \subseteq Pulses
    /\ notify \subseteq Pulses
    /\ queue \subseteq Pulses
    /\ worker \in [pulse : Pulses \cup {NoPulse}, left : SUBSET Jets]
    /\ sent \subseteq Pulses \X Jets
    /\ notifyCl \subseteq Pulses
    /\ cleaning \in Pulses \cup {NoPulse}
    /\ handler \in [Handlers -> [pc : {"idle", "read"}, at : Pulses, reads : Pulses]]

\* Nothing is forgotten before it was sent: a pulse whose data is deleted, or
\* that has left the pulse storage, was sent to the heavy node, every jet of
\* it, although notifications overtake one another.
SentBeforeCleaned ==
    \A p \in 1 .. latest : p \notin data \/ p < first => {p} \X Jets \subseteq sent

\* The worker finds the data of the pulse it is sending, or panics.
WorkerFindsData == worker.left # {} => worker.pulse \in data

\* "We need to give handlers time to finish before removing data": a handler
\* that has checked the limit finds what it was promised.
HandlerFindsData ==
    \A h \in Handlers : handler[h].pc = "read" => handler[h].reads \in data

\* Every pulse of the node comes to the heavy node.
EverythingIsSent ==
    \A p \in 2 .. MaxPulse : p \in notify ~> {p - 1} \X Jets \subseteq sent

\* "After sending a heavy payload to a heavy, data is deleted with help of
\* Cleaner": no data stays behind when its pulse has left the pulse storage,
\* where the cleaner would not find it any more.
NothingStaysBehind ==
    cleaning = NoPulse => \A p \in data : p >= first
=============================================================================
