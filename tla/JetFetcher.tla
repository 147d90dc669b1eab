----------------------------- MODULE JetFetcher -----------------------------
(***************************************************************************)
(* How the handlers of a light node find the jet of an object in a pulse:  *)
(* ledger/light/executor/jet_fetcher.go, with the jet tree of that pulse   *)
(* (insolar/jet) as far as it is asked and updated, and the HotObjects     *)
(* procedure (ledger/light/proc/hot_objects.go), which updates the tree    *)
(* and calls Release.                                                      *)
(*                                                                         *)
(* Routines with the same local jet that is not actual form a group: the   *)
(* first fetches the jet from other nodes, the others wait for its         *)
(* channel and look again.  The local tree starts as one jet that is not   *)
(* actual; in truth every jet of Jets is a leaf under it, and learning one *)
(* of them splits the local root.                                          *)
(***************************************************************************)
EXTENDS Integers, FiniteSets

CONSTANTS
    Routines,    \* goroutines that call Fetch for one pulse
    Jets,        \* the jets of the pulse
    Target,      \* Target[r]: the jet of the object routine r asks for
    Root         \* the local jet above them

ASSUME TargetAssumption == Target \in [Routines -> Jets]
ASSUME RootAssumption == Root \notin Jets

VARIABLES
    actual,     \* the jets the local tree has as actual
    split,      \* TRUE when the local root has children
    entries,    \* number of seqEntry values made
    sequencer,  \* sequencer[k]: the entry of key k, or 0
    closed,     \* entries whose channel is closed
    routine,    \* routine[r]: its call of Fetch
    hot         \* hot[j]: the HotObjects procedure of jet j

vars == <<actual, split, entries, sequencer, closed, routine, hot>>

Keys == Jets \cup {Root}

\* "look": about to ask the local tree; "enter": about to lock seqMutex; "wait":
\* waits for the entry's channel; "fetch": asks the other nodes; "close",
\* "delete": the deferred function; "done": returned.
RoutineStates == {"none", "look", "enter", "wait", "fetch", "close", "delete", "done"}

Init ==
    /\ actual = {}
    /\ split \in BOOLEAN
    /\ entries = 0
    /\ sequencer = [k \in Keys |-> 0]
    /\ closed = {}
    /\ routine = [r \in Routines |-> [pc |-> "none", key |-> Root, entry |-> 0, found |-> FALSE]]
    /\ hot = [j \in Jets |-> "none"]

\* jet.Storage.ForID: the jet the local tree has for target j.
LocalJet(j) == IF split THEN j ELSE Root

\* jet.Storage.Update(pulse, actual = true, j).
UpdateTree(j) ==
    /\ actual' = actual \cup {j}
    /\ split' = TRUE

-----------------------------------------------------------------------------
(* Fetch.                                                                   *)

Call(r) ==
    /\ routine[r].pc = "none"
    /\ routine' = [routine EXCEPT ![r].pc = "look"]
    /\ UNCHANGED <<actual, split, entries, sequencer, closed, hot>>

\* Looks in the local tree; returns if the jet is actual.
Look(r) ==
    /\ routine[r].pc = "look"
    /\ routine' = [routine EXCEPT ![r] = [@ EXCEPT
          !.pc = IF Target[r] \in actual THEN "done" ELSE "enter",
          !.found = Target[r] \in actual,
          !.key = LocalJet(Target[r])]]
    /\ UNCHANGED <<actual, split, entries, sequencer, closed, hot>>

\* Under seqMutex: the first makes an entry and fetches, the others wait.
Enter(r) ==
    LET k == routine[r].key
    IN  /\ routine[r].pc = "enter"
        /\ IF sequencer[k] = 0
             THEN /\ entries' = entries + 1
                  /\ sequencer' = [sequencer EXCEPT ![k] = entries + 1]
                  /\ routine' = [routine EXCEPT
                        ![r] = [@ EXCEPT !.pc = "fetch", !.entry = entries + 1]]
             ELSE /\ routine' = [routine EXCEPT
                        ![r] = [@ EXCEPT !.pc = "wait", !.entry = sequencer[k]]]
                  /\ UNCHANGED <<entries, sequencer>>
        /\ UNCHANGED <<actual, split, closed, hot>>

\* Slip: a woken routine gives the jet of the local tree back without looking
\* whether it is actual now.
WakeTrusts(r) ==
    /\ routine[r].pc = "wait"
    /\ routine[r].entry \in closed
    /\ routine' = [routine EXCEPT ![r] = [@ EXCEPT !.pc = "done", !.found = TRUE]]
    /\ UNCHANGED <<actual, split, entries, sequencer, closed, hot>>

\* <-entry.ch, then Fetch again.
Wake(r) ==
    /\ routine[r].pc = "wait"
    /\ routine[r].entry \in closed
    /\ routine' = [routine EXCEPT ![r].pc = "look"]
    /\ UNCHANGED <<actual, split, entries, sequencer, closed, hot>>

\* fetch and Update succeed.
Fetched(r) ==
    /\ routine[r].pc = "fetch"
    /\ UpdateTree(Target[r])
    /\ routine' = [routine EXCEPT ![r] = [@ EXCEPT !.pc = "close", !.found = TRUE]]
    /\ UNCHANGED <<entries, sequencer, closed, hot>>

\* Slip: an error returns before the function is deferred.
FetchFailsEarly(r) ==
    /\ routine[r].pc = "fetch"
    /\ routine' = [routine EXCEPT ![r].pc = "done"]
    /\ UNCHANGED <<actual, split, entries, sequencer, closed, hot>>

\* No node knows the actual jet, or there is no other node, or Update fails.
FetchFails(r) ==
    /\ routine[r].pc = "fetch"
    /\ routine' = [routine EXCEPT ![r].pc = "close"]
    /\ UNCHANGED <<actual, split, entries, sequencer, closed, hot>>

\* Slip: closes the entry the sequencer has now, not the routine's own.
CloseCurrent(r) ==
    /\ routine[r].pc = "close"
    /\ closed' = closed \cup ({sequencer[routine[r].key]} \ {0})
    /\ routine' = [routine EXCEPT ![r].pc = "delete"]
    /\ UNCHANGED <<actual, split, entries, sequencer, hot>>

\* The deferred function closes the channel once ...
Close(r) ==
    /\ routine[r].pc = "close"
    /\ closed' = closed \cup {routine[r].entry}
    /\ routine' = [routine EXCEPT ![r].pc = "delete"]
    /\ UNCHANGED <<actual, split, entries, sequencer, hot>>

\* ... and deletes what the sequencer has under the key.
Delete(r) ==
    /\ routine[r].pc = "delete"
    /\ sequencer' = [sequencer EXCEPT ![routine[r].key] = 0]
    /\ routine' = [routine EXCEPT ![r].pc = "done"]
    /\ UNCHANGED <<actual, split, entries, closed, hot>>

-----------------------------------------------------------------------------
(* HotObjects.                                                              *)

\* Hot data for jet j comes; the tree is updated.
HotUpdate(j) ==
    /\ hot[j] = "none"
    /\ UpdateTree(j)
    /\ hot' = [hot EXCEPT ![j] = "updated"]
    /\ UNCHANGED <<entries, sequencer, closed, routine>>

\* Release: closes and deletes the entries of the jet and of all above it.
Release(j) ==
    /\ hot[j] = "updated"
    /\ closed' = closed \cup ({sequencer[j], sequencer[Root]} \ {0})
    /\ sequencer' = [sequencer EXCEPT ![j] = 0, ![Root] = 0]
    /\ hot' = [hot EXCEPT ![j] = "released"]
    /\ UNCHANGED <<actual, split, entries, routine>>

Next ==
    \/ \E r \in Routines : Call(r)
    \/ \E r \in Routines : Look(r)
    \/ \E r \in Routines : Enter(r)
    \/ \E r \in Routines : Wake(r)
    \/ \E r \in Routines : Fetched(r)
    \/ \E r \in Routines : FetchFails(r)
    \/ \E r \in Routines : Close(r)
    \/ \E r \in Routines : Delete(r)
    \/ \E j \in Jets : HotUpdate(j)
    \/ \E j \in Jets : Release(j)

\* Goroutines are scheduled; fetch returns, because every request it makes
\* ends by the timeout of the bus.
Fairness ==
    \A r \in Routines :
        /\ WF_vars(Look(r))
        /\ WF_vars(Enter(r))
        /\ WF_vars(Wake(r))
        /\ WF_vars(Fetched(r) \/ FetchFails(r))
        /\ WF_vars(Close(r))
        /\ WF_vars(Delete(r))

Spec == Init /\ [][Next]_vars

FairSpec == Spec /\ Fairness

-----------------------------------------------------------------------------
\* Every variable has the type of the field or local it stands for.
TypeOK ==
    /\ actual \subseteq Jets
    /\ split \in BOOLEAN
    /\ entries \in Nat
    /\ sequencer \in [Keys -> 0 .. entries]
    /\ closed \subseteq 1 .. entries
    /\ routine \in [Routines -> [pc : RoutineStates, key : Keys, entry : 0 .. entries,
                                 found : BOOLEAN]]
    /\ hot \in [Jets -> {"none", "updated", "released"}]

\* The routine is in the deferred part of Fetch, or before it, with its own entry.
Executing(r) == routine[r].pc \in {"fetch", "close", "delete"}

\* A failed fetch does not answer for the others: whoever returns a jet finds
\* it actual in the local tree.
FoundIsActual ==
    \A r \in Routines : routine[r].pc = "done" /\ routine[r].found => Target[r] \in actual

\* Nobody waits on a channel that nobody will close: the routine that made the
\* entry is still on its way to close it, also after the entry has been
\* deleted by Release or by another routine that used the key.
NobodyLeftAsleep ==
    \A r \in Routines :
        routine[r].pc = "wait" /\ routine[r].entry \notin closed =>
            \E o \in Routines : Executing(o) /\ routine[o].entry = routine[r].entry

\* The sequencer keeps no entry whose fetch has ended: a later Fetch would wait
\* for nothing or go round without end.
NoDeadEntry ==
    \A k \in Keys :
        sequencer[k] # 0 => \E o \in Routines : Executing(o) /\ routine[o].entry = sequencer[k]

\* Every call of Fetch returns.
FetchReturns == \A r \in Routines : routine[r].pc = "look" ~> routine[r].pc = "done"

\* "Routines within one group executed sequentially": no two fetches for the
\* same key at the same time.
GroupIsSequential ==
    \A r, o \in Routines :
        /\ routine[r].pc = "fetch" /\ routine[o].pc = "fetch"
        /\ routine[r].key = routine[o].key
        => r = o
=============================================================================
