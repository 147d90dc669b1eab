--------------------------- MODULE WriteController ---------------------------
(***************************************************************************)
(* The write barrier of a light node: ledger/light/executor/              *)
(* writecontroller.go, driven by the pulse manager of the same package.    *)
(*                                                                         *)
(* Flow procedures call Begin(pulse), write to the storages and call the   *)
(* returned done function.  PulseManager.Set, serialised by setLock, calls *)
(* CloseAndWait(ended) and then Open(new).  The controller's lock makes    *)
(* every method atomic, with one exception: CloseAndWait releases the lock *)
(* before it waits for the wait group, so that writers finish and late     *)
(* writers are refused while it is blocked.                                *)
(***************************************************************************)
EXTENDS WriteAccess

VARIABLES
    wg,           \* the counter of WriteController.wg
    latest,       \* pulseAccessor.Latest
    set,          \* where PulseManager.Set is
    newPulse      \* the argument of PulseManager.Set, 0 outside a call

controller == <<current, closed, wg>>
manager == <<latest, set, newPulse>>
vars == <<current, closed, wg, writing, latest, set, newPulse>>

Pulses == 1 .. MaxPulse

\* "idle": no Set running; "close": about to call CloseAndWait; "wait": in
\* wg.Wait; "open": about to call Open; "append": about to call Append;
\* "panic": Set panicked, which stops the node.
SetStates == {"idle", "close", "wait", "open", "append", "panic"}

Running == set # "panic"

Init ==
    /\ current = 0
    /\ closed = TRUE
    /\ wg = 0
    /\ writing = [w \in Writers |-> 0]
    /\ latest = 0
    /\ set = "idle"
    /\ newPulse = 0

-----------------------------------------------------------------------------
(* The accessor side.                                                      *)

\* Begin(p): refused with ErrWriteClosed (no state change) unless p is the
\* current pulse and it is not closed.
Begin(w, p) ==
    /\ Running
    /\ writing[w] = 0
    /\ p = current
    /\ ~closed
    /\ wg' = wg + 1
    /\ writing' = [writing EXCEPT ![w] = p]
    /\ UNCHANGED <<current, closed, manager>>

\* Slip: an error path of the procedure returns without calling done.
DoneForgotten(w) ==
    /\ Running
    /\ writing[w] # 0
    /\ writing' = [writing EXCEPT ![w] = 0]
    /\ UNCHANGED <<controller, manager>>

\* The done function: m.wg.Done() on the controller's wait group, whichever
\* wait group Open has put there in the meantime.  Below zero it panics
\* ("sync: negative WaitGroup counter"); TypeOK says that never happens.
Done(w) ==
    /\ Running
    /\ writing[w] # 0
    /\ wg' = wg - 1
    /\ writing' = [writing EXCEPT ![w] = 0]
    /\ UNCHANGED <<current, closed, manager>>

-----------------------------------------------------------------------------
(* The manager side: PulseManager.Set from Latest to Append.  The network  *)
(* may hand over any pulse number, a repeated or an old one included.      *)

SetPulse(p) ==
    /\ set = "idle"
    /\ set' = "close"
    /\ newPulse' = p
    /\ UNCHANGED <<controller, writing, latest>>

\* Slip: close without the wait.
CloseNoWait ==
    /\ set = "close"
    /\ closed' = TRUE
    /\ set' = "open"
    /\ UNCHANGED <<current, wg, writing, latest, newPulse>>

\* CloseAndWait(latest) up to wg.Wait: its three early returns and the close.
CloseAndWait ==
    /\ set = "close"
    /\ \/ /\ current = 0
          /\ set' = "open"
          /\ UNCHANGED closed
       \/ /\ current # 0
          /\ latest # current \/ closed
          /\ set' = "panic"
          /\ UNCHANGED closed
       \/ /\ current # 0
          /\ latest = current
          /\ ~closed
          /\ closed' = TRUE
          /\ set' = "wait"
    /\ UNCHANGED <<current, wg, writing, latest, newPulse>>

WaitReturns ==
    /\ set = "wait"
    /\ wg = 0
    /\ set' = "open"
    /\ UNCHANGED <<controller, writing, latest, newPulse>>

\* Open(newPulse): a past or a repeated pulse is an error, on which Set panics.
Open ==
    /\ set = "open"
    /\ IF newPulse <= current
         THEN /\ set' = "panic"
              /\ UNCHANGED controller
         ELSE /\ wg' = 0
              /\ current' = newPulse
              /\ closed' = FALSE
              /\ set' = "append"
    /\ UNCHANGED <<writing, latest, newPulse>>

\* pulseAppender.Append(newPulse), then the rest of Set.  It cannot fail
\* here: Open has refused the pulses that are not after the latest one.
Append ==
    /\ set = "append"
    /\ latest' = newPulse
    /\ newPulse' = 0
    /\ set' = "idle"
    /\ UNCHANGED <<controller, writing>>

Next ==
    \/ \E w \in Writers, p \in Pulses : Begin(w, p)
    \/ \E w \in Writers : Done(w)
    \/ \E p \in Pulses : SetPulse(p)
    \/ CloseAndWait
    \/ WaitReturns
    \/ Open
    \/ Append

\* A procedure that got access runs to its deferred done; Set does not stop
\* between its calls.  Neither Begin nor a new pulse is ever owed.
Fairness ==
    /\ \A w \in Writers : WF_vars(Done(w))
    /\ WF_vars(CloseAndWait)
    /\ WF_vars(WaitReturns)
    /\ WF_vars(Open)
    /\ WF_vars(Append)

Spec == Init /\ [][Next]_vars

FairSpec == Spec /\ Fairness

-----------------------------------------------------------------------------
\* Every variable has the type of the field or local it stands for.
TypeOK ==
    /\ current \in 0 .. MaxPulse
    /\ closed \in BOOLEAN
    /\ wg \in Nat
    /\ writing \in [Writers -> 0 .. MaxPulse]
    /\ latest \in 0 .. MaxPulse
    /\ set \in SetStates
    /\ newPulse \in 0 .. MaxPulse

\* The wait group counts the writes in progress, exactly: were it lower, a
\* done would drive it below zero; were it higher, CloseAndWait would hang.
CounterIsExact == wg = Cardinality(Active)

\* From the return of CloseAndWait to the end of Open nobody writes at all.
QuietBetweenPulses == set = "open" => Active = {}

\* The conjunction TLAPS proves inductive.
Inv ==
    /\ TypeOK
    /\ CounterIsExact
    /\ NoStaleWriter
    /\ QuietBetweenPulses
    /\ current = 0 \/ set \in {"wait", "open"} => closed

\* CloseAndWait returns: the pulse manager is never blocked for good by the
\* writers, because no new one gets in once the pulse is closed.
CloseReturns == set = "wait" ~> set = "open"
=============================================================================
