----------------------- MODULE VirtualWriteController -----------------------
(***************************************************************************)
(* The write controller of a virtual node: logicrunner/writecontroller/    *)
(* writecontroller.go, driven by LogicRunner.OnPulse inside                *)
(* logicrunner/pulsemanager Set.  Unlike the light node's it replaces its  *)
(* wait group at every Open and uses the same wait group twice: to count   *)
(* the writers of a pulse, and then, with one more Add, to hold back the   *)
(* callers of WaitOpened until the next Open.                              *)
(*                                                                         *)
(* The network starts one goroutine per pulse (Complete.OnPulseFromConsen- *)
(* sus); setLock serialises them, in whatever order they reach it.  An     *)
(* error of Set stops the node (logger.Fatalf).                            *)
(*                                                                         *)
(* A sync.WaitGroup is modelled with the waiters of Go's implementation:   *)
(* Wait returns at once at zero and sleeps otherwise; the Done that        *)
(* reaches zero wakes everybody; a woken waiter that finds the group in    *)
(* use again panics ("WaitGroup is reused before previous Wait has         *)
(* returned").                                                             *)
(***************************************************************************)
EXTENDS WriteAccess

CONSTANT Waiters  \* goroutines that call WaitOpened

VARIABLES
    gen,          \* which wait group writeController.wg points to
    count,        \* count[g]: the counter of wait group g
    waiter,       \* waiter[v]: where WaitOpened of v is, and its local wg
    latest,       \* PulseAccessor.Latest, 0 when not found
    consensus,    \* the last pulse the network was told of
    pending,      \* pulses whose goroutine has not got setLock yet
    set,          \* where PulseManager.Set is
    oldPulse,     \* locals of Set
    newPulse,
    panicked      \* a wait group panicked in WaitOpened

controller == <<current, closed, gen, count>>
network == <<consensus, pending>>
manager == <<latest, set, oldPulse, newPulse>>
vars == <<current, closed, gen, count, writing, waiter, latest, consensus,
          pending, set, oldPulse, newPulse, panicked>>

Genesis == 1     \* the first of the pulses
Pulses == 1 .. MaxPulse
Groups == 0 .. MaxPulse

\* "start": LogicRunner.Init is due; "close": about to call CloseAndWait;
\* "wait": about to call wg.Wait; "asleep", "woken": inside it; "add": Wait
\* returned, about to call wg.Add(1); "open": about to call Open; "fatal":
\* Set returned an error.
SetStates == {"start", "idle", "close", "wait", "asleep", "woken", "add",
              "open", "fatal"}

Outside == [pc |-> "out", wg |-> 0]

Running == set # "fatal" /\ ~panicked

\* The goroutines that sleep on a wait group.
Sleeping(g) == {v \in Waiters : waiter[v] = [pc |-> "asleep", wg |-> g]}

\* NewWriteController.
Init ==
    /\ current = 0
    /\ closed = TRUE
    /\ gen = 0
    /\ count = [g \in Groups |-> IF g = 0 THEN 1 ELSE 0]
    /\ writing = [w \in Writers |-> 0]
    /\ waiter = [v \in Waiters |-> Outside]
    /\ latest = 0
    /\ consensus = Genesis
    /\ pending = {}
    /\ set = "start"
    /\ oldPulse = 0
    /\ newPulse = 0
    /\ panicked = FALSE

-----------------------------------------------------------------------------
(* The accessor side.                                                      *)

\* Begin(p): refused with ErrWriteClosed (no state change) unless p is the
\* current pulse and it is not closed.
Begin(w, p) ==
    /\ Running
    /\ writing[w] = 0
    /\ p = current
    /\ ~closed
    /\ count' = [count EXCEPT ![gen] = @ + 1]
    /\ writing' = [writing EXCEPT ![w] = p]
    /\ UNCHANGED <<current, closed, gen, waiter, network, manager, panicked>>

\* wg.Done on the wait group g: the one that reaches zero wakes the waiters.
DoneWakes(g) ==
    /\ count' = [count EXCEPT ![g] = @ - 1]
    /\ waiter' = [v \in Waiters |->
          IF count[g] = 1 /\ v \in Sleeping(g)
            THEN [pc |-> "woken", wg |-> g] ELSE waiter[v]]

\* Slip: an error path of the handler returns without calling done.
DoneForgotten(w) ==
    /\ Running
    /\ writing[w] # 0
    /\ writing' = [writing EXCEPT ![w] = 0]
    /\ UNCHANGED <<controller, waiter, network, manager, panicked>>

\* The done function: m.wg.Done() on the wait group m.wg points to now.
Done(w) ==
    /\ Running
    /\ writing[w] # 0
    /\ DoneWakes(gen)
    /\ set' = IF set = "asleep" /\ count[gen] = 1 THEN "woken" ELSE set
    /\ writing' = [writing EXCEPT ![w] = 0]
    /\ UNCHANGED <<current, closed, gen, latest, oldPulse, newPulse, network, panicked>>

\* WaitOpened up to wg.Wait: returns at once when a pulse is open, otherwise
\* copies the pointer to the wait group and releases the lock.
WaitOpened(v) ==
    /\ Running
    /\ waiter[v].pc = "out"
    /\ closed
    /\ waiter' = [waiter EXCEPT ![v] = [pc |-> "wait", wg |-> gen]]
    /\ UNCHANGED <<controller, writing, network, manager, panicked>>

\* wg.Wait of WaitOpened, and what happens when it is woken.
Wait(v) ==
    /\ Running
    /\ waiter[v].pc \in {"wait", "woken"}
    /\ IF count[waiter[v].wg] = 0
         THEN /\ waiter' = [waiter EXCEPT ![v] = Outside]
              /\ UNCHANGED panicked
         ELSE IF waiter[v].pc = "wait"
           THEN /\ waiter' = [waiter EXCEPT ![v].pc = "asleep"]
                /\ UNCHANGED panicked
           ELSE /\ panicked' = TRUE
                /\ UNCHANGED waiter
    /\ UNCHANGED <<controller, writing, network, manager>>

-----------------------------------------------------------------------------
(* The manager side.                                                       *)

\* The controller's part of Open(p): release those who wait on the old wait
\* group, and start a new one.
OpenPulse(p) ==
    /\ DoneWakes(gen)
    /\ gen' = gen + 1
    /\ current' = p
    /\ closed' = FALSE

\* LogicRunner.Init: Open(MinTimePulse).
Start ==
    /\ set = "start"
    /\ OpenPulse(Genesis)
    /\ set' = "idle"
    /\ UNCHANGED <<writing, network, latest, oldPulse, newPulse, panicked>>

\* OnPulseFromConsensus: the next pulse, in order, gets its goroutine.
OnPulseFromConsensus ==
    /\ Running
    /\ set # "start"
    /\ consensus < MaxPulse
    /\ consensus' = consensus + 1
    /\ pending' = pending \cup {consensus + 1}
    /\ UNCHANGED <<controller, writing, waiter, manager, panicked>>

\* Slip: the previous pulse is read after Append.
SetPulseReadsLate(p) ==
    /\ Running
    /\ set = "idle"
    /\ p \in pending
    /\ pending' = pending \ {p}
    /\ IF p <= latest
         THEN /\ set' = "fatal"
              /\ UNCHANGED <<latest, oldPulse, newPulse>>
         ELSE /\ oldPulse' = p
              /\ newPulse' = p
              /\ latest' = p
              /\ set' = "close"
    /\ UNCHANGED <<controller, writing, waiter, consensus, panicked>>

\* Set up to LogicRunner.OnPulse: read the previous pulse, Append the new one
\* (an error when it is not later), and call OnPulse(previous, new).
SetPulse(p) ==
    /\ Running
    /\ set = "idle"
    /\ p \in pending
    /\ pending' = pending \ {p}
    /\ IF p <= latest
         THEN /\ set' = "fatal"
              /\ UNCHANGED <<latest, oldPulse, newPulse>>
         ELSE /\ oldPulse' = IF latest = 0 THEN Genesis ELSE latest
              /\ newPulse' = p
              /\ latest' = p
              /\ set' = "close"
    /\ UNCHANGED <<controller, writing, waiter, consensus, panicked>>

\* "received zero nodes": Set returns before it has done anything.
ZeroNodes(p) ==
    /\ Running
    /\ set = "idle"
    /\ p \in pending
    /\ pending' = pending \ {p}
    /\ UNCHANGED <<controller, writing, waiter, consensus, manager, panicked>>

\* Slip: the closed flag is not set.
CloseLeavesOpen ==
    /\ Running
    /\ set = "close"
    /\ set' = "wait"
    /\ UNCHANGED <<controller, writing, waiter, network, latest, oldPulse,
                   newPulse, panicked>>

\* CloseAndWait(oldPulse) under the lock.  Its first early return (current is
\* zero) is not for a logic runner that has started.
CloseAndWait ==
    /\ Running
    /\ set = "close"
    /\ IF oldPulse # current \/ closed
         THEN /\ set' = "fatal"
              /\ UNCHANGED closed
         ELSE /\ closed' = TRUE
              /\ set' = "wait"
    /\ UNCHANGED <<current, gen, count, writing, waiter, network, latest,
                   oldPulse, newPulse, panicked>>

\* wg.Wait of CloseAndWait.  Nothing can be added to the group between its
\* waking and its look at the group: no writer gets in, and the next Add is
\* the one below.
WaitWriters ==
    /\ Running
    /\ set \in {"wait", "woken"}
    /\ set' = IF count[gen] = 0 THEN "add" ELSE "asleep"
    /\ UNCHANGED <<controller, writing, waiter, network, latest, oldPulse,
                   newPulse, panicked>>

\* Slip: the wait group is not armed for the callers of WaitOpened.
AddForgotten ==
    /\ Running
    /\ set = "add"
    /\ set' = "open"
    /\ UNCHANGED <<controller, writing, waiter, network, latest, oldPulse,
                   newPulse, panicked>>

\* wg.Add(1): "we signaling that we're closed".
AddOne ==
    /\ Running
    /\ set = "add"
    /\ count' = [count EXCEPT ![gen] = @ + 1]
    /\ set' = "open"
    /\ UNCHANGED <<current, closed, gen, writing, waiter, network, latest,
                   oldPulse, newPulse, panicked>>

\* Slip: the callers of WaitOpened are not released.
OpenWithoutDone ==
    /\ Running
    /\ set = "open"
    /\ gen' = gen + 1
    /\ current' = newPulse
    /\ closed' = FALSE
    /\ set' = "idle"
    /\ UNCHANGED <<count, waiter, writing, network, latest, oldPulse, newPulse, panicked>>

\* Open(newPulse).  Its two errors need a pulse that is not after the current
\* one, which Append has refused.
Open ==
    /\ Running
    /\ set = "open"
    /\ OpenPulse(newPulse)
    /\ set' = "idle"
    /\ UNCHANGED <<writing, network, latest, oldPulse, newPulse, panicked>>

Next ==
    \/ \E w \in Writers, p \in Pulses : Begin(w, p)
    \/ \E w \in Writers : Done(w)
    \/ \E v \in Waiters : WaitOpened(v)
    \/ \E v \in Waiters : Wait(v)
    \/ Start
    \/ OnPulseFromConsensus
    \/ \E p \in Pulses : SetPulse(p)
    \/ \E p \in Pulses : ZeroNodes(p)
    \/ CloseAndWait
    \/ WaitWriters
    \/ AddOne
    \/ Open

\* Handlers run to their deferred done, Set does not stop between its calls,
\* and a runnable goroutine in WaitOpened is scheduled.
Fairness ==
    /\ \A w \in Writers : WF_vars(Done(w))
    /\ \A v \in Waiters : WF_vars(Wait(v))
    /\ WF_vars(CloseAndWait)
    /\ WF_vars(WaitWriters)
    /\ WF_vars(AddOne)
    /\ WF_vars(Open)

Spec == Init /\ [][Next]_vars

FairSpec == Spec /\ Fairness

-----------------------------------------------------------------------------
WaiterStates == [pc : {"out", "wait", "asleep", "woken"}, wg : Groups]

\* Every variable has the type of the field or local it stands for.
TypeOK ==
    /\ current \in 0 .. MaxPulse
    /\ closed \in BOOLEAN
    /\ gen \in Groups
    /\ count \in [Groups -> Nat]
    /\ writing \in [Writers -> 0 .. MaxPulse]
    /\ waiter \in [Waiters -> WaiterStates]
    /\ latest \in 0 .. MaxPulse
    /\ consensus \in Pulses
    /\ pending \in SUBSET Pulses
    /\ set \in SetStates
    /\ oldPulse \in 0 .. MaxPulse
    /\ newPulse \in 0 .. MaxPulse
    /\ panicked \in BOOLEAN

\* One more than the writers while the group is armed for WaitOpened.
Armed == IF set \in {"start", "open"} THEN 1 ELSE 0

\* The wait group in use counts the writes in progress, plus the one Add that
\* announces a closed pulse; the wait groups of the past are at zero, so that
\* Open leaves nobody behind who sleeps on one of them.
GroupsAreExact ==
    /\ count[gen] = Cardinality(Active) + Armed
    /\ \A g \in Groups \ {gen} : count[g] = 0

\* No caller of WaitOpened sleeps on a wait group that Open has replaced.
NobodyLeftAsleep ==
    \A g \in Groups \ {gen} : Sleeping(g) = {}

\* The previous pulse that Set hands to CloseAndWait is the controller's, so
\* the only error of a Set is a pulse that another goroutine overtook: the
\* pulse storage and the controller, which are written at different moments
\* of Set, agree whenever no Set is under way.
StoragesAgree ==
    set \in {"idle", "close", "fatal"} =>
        current = IF set = "close" THEN oldPulse
                  ELSE IF latest = 0 THEN Genesis ELSE latest

\* The conjunction TLAPS proves inductive.
Inv ==
    /\ TypeOK
    /\ GroupsAreExact
    /\ NobodyLeftAsleep
    /\ NoStaleWriter
    /\ StoragesAgree
    /\ set \in {"close", "wait", "asleep", "woken", "add", "open"} => newPulse > current
    /\ set \in {"add", "open"} => Active = {}
    /\ set = "start" <=> current = 0
    /\ closed <=> set \notin {"idle", "close", "fatal"}
    /\ gen <= current
    /\ set = "start" => gen = 0
    /\ set = "start" => latest = 0
    /\ set \in {"close", "wait", "asleep", "woken", "add", "open"} => latest = newPulse
    /\ \A p \in pending : p > Genesis

\* CloseAndWait returns: the pulse manager is never blocked for good by the
\* writers.
CloseReturns == set = "wait" ~> (set = "open" \/ ~Running)

\* A caller of WaitOpened that sleeps is released by the next Open.
WaiterReturns ==
    \A v \in Waiters :
        (waiter[v].pc # "out" /\ set = "open") ~> (waiter[v].pc = "out" \/ ~Running)

\* What the comment of WaitOpened promises ("Wait for Open to be called after
\* CloseAndWait"): who found the pulse closed returns after an Open.
WaitsForOpen ==
    [][\A v \in Waiters :
          waiter[v].pc # "out" /\ waiter'[v].pc = "out" => waiter[v].wg # gen]_vars

\* "we won't have race condition here": a wait group is never used again
\* while somebody is still leaving its Wait.
NoReusePanic == ~panicked
=============================================================================
