------------------------- MODULE HeavyFinalization -------------------------
(***************************************************************************)
(* Pulse finalization on the heavy material node: ledger/heavy/executor    *)
(* (jetinfo.go, badger_jetkeeper.go, finalize_pulse.go, backuper.go,       *)
(* heavyreplicator.go, finalization_keeper.go, db_rollback.go,             *)
(* initial_state_keeper.go) and ledger/heavy/handler.                      *)
(*                                                                         *)
(* At the end of a pulse every jet of the network owes the heavy node one  *)
(* drop (the Replication message of the light node that executed it) and   *)
(* one hot confirmation per jet that continues it: itself, or its two      *)
(* children if it split.  The replicator goroutine applies the drops one   *)
(* by one; every hot confirmation is handled by a goroutine of its own.    *)
(* Whoever completes a pulse backs it up and makes it the top sync pulse,  *)
(* then goes on with the next pulse.                                       *)
(*                                                                         *)
(* The pulse numbers are 0 (genesis) .. MaxPulse; a number is used once,   *)
(* also across restarts.  Jets are paths in the binary jet tree.           *)
(***************************************************************************)
EXTENDS Integers, Sequences, FiniteSets

CONSTANTS
    MaxPulse,     \* bound on the pulse numbers
    MaxDepth,     \* bound on the depth of a jet
    Handlers,     \* goroutines that handle hot confirmations
    Replicator,   \* the goroutine of HeavyReplicatorDefault.sync
    Limit,        \* FinalizationKeeperDefault.limit (LightChainLimit)
    MaxCrashes,   \* bound on the number of crashes
    Backuper      \* "badger": BackupMakerDefault, "postgres": the stub or nil

ASSUME BoundsAssumption ==
    /\ MaxPulse \in Nat
    /\ MaxDepth \in Nat
    /\ Limit \in Nat \ {0}
    /\ MaxCrashes \in Nat
ASSUME ProcsAssumption == Replicator \notin Handlers
ASSUME BackuperAssumption == Backuper \in {"badger", "postgres"}

Procs == Handlers \cup {Replicator}

Pulses == 0 .. MaxPulse

Jets == UNION {[1 .. d -> {0, 1}] : d \in 0 .. MaxDepth}

Root == << >>   \* insolar.ZeroJetID

\* jet.Parent: the root is its own parent.
Parent(id) == IF id = Root THEN id ELSE SubSeq(id, 1, Len(id) - 1)

\* jet.Siblings: despite the name, the two children of the jet.
Siblings(id) == {Append(id, 0), Append(id, 1)}

\* The jets that continue jet id in the next pulse.
Successors(id, split) == IF split THEN Siblings(id) ELSE {id}

\* A JetInfo record.  HotConfirmed is a list without duplicates of at most
\* two jets whose order matters to nobody; IsSplitSet and Split are one field.
JetInfo == [drop : BOOLEAN, hot : SUBSET Jets, split : {"unset", "yes", "no"},
            backup : BOOLEAN]

NewInfo == [drop |-> FALSE, hot |-> {}, split |-> "unset", backup |-> FALSE]

Flag(split) == IF split THEN "yes" ELSE "no"

\* What the light nodes send: payload.Replication (its drop) and
\* payload.GotHotConfirmation.
Message == [kind : {"drop", "hot"}, pulse : Pulses, jet : Jets, split : BOOLEAN]

NoMessage == [kind |-> "none"]

VARIABLES
    \* the database
    info,         \* info[p][j]: the JetKeeper's record of jet j in pulse p
    top,          \* the JetKeeper's top sync pulse
    tree,         \* tree[p]: the jets that jets.Update has put into p's tree
    drops,        \* the drop storage: pairs <<pulse, jet>>
    pulses,       \* the pulse storage
    lastKnown,    \* the pulse of indexes.UpdateLastKnownPulse
    \* the process
    status,       \* "up", "down", "rollback" (restarting) or "fatal"
    truncated,    \* how many of the databases DBRollback.Start has done
    lastBackuped, \* BackupMakerDefault.lastBackupedPulse
    pc, msg, fin, \* control point, message and pulseToFinalize of a goroutine
    \* the network
    jetsOf,       \* jetsOf[p]: the jets that light nodes execute in pulse p
    inbox,        \* messages sent to the heavy node and not yet received
    lastPulse,    \* the newest pulse of the network
    crashes

keeper == <<info, top>>
storage == <<tree, drops, pulses, lastKnown>>
process == <<status, truncated, lastBackuped>>
network == <<jetsOf, inbox, lastPulse, crashes>>
vars == <<keeper, storage, process, pc, msg, fin, network>>

Entries(p) == {j \in Jets : info[p][j].split # "unset"}

\* Slip: the pulse storage walks to some later pulse, not to the next one.
IsEarlier(x, p) == x \in pulses /\ p \in pulses /\ x < p

\* pulses.Backwards(p, 1) = x, which is also pulses.Forwards(x, 1) = p.
IsPrevious(x, p) ==
    /\ x \in pulses
    /\ p \in pulses
    /\ x < p
    /\ \A y \in pulses : ~(x < y /\ y < p)

\* JetInfo.isConfirmed
IsConfirmed(p, j, checkBackup) ==
    LET i == info[p][j] IN
    /\ checkBackup => i.backup
    /\ i.drop
    /\ i.hot # {}
    /\ CASE i.split = "no" -> j \in i.hot
         [] i.split = "yes" -> Cardinality(i.hot) = 2 /\ \A h \in i.hot : Parent(h) = j
         [] OTHER -> FALSE

\* getTopSyncJets; the records of the top sync pulse must exist.
TopSyncJets ==
    IF top = 0
      THEN {Root}
      ELSE UNION {Successors(j, info[top][j].split = "yes") : j \in Entries(top)}

\* jetTrees.All: the actual leaves.  A jet that was given to Update stops
\* being a leaf once Update has created a node below it.
LeafIDs(p) ==
    {j \in tree[p] : \A k \in tree[p] : Len(k) > Len(j) => SubSeq(k, 1, Len(j)) # j}

\* Slip: the comparison with the jet tree is left out.
ConsistencyWithoutTree(p, checkBackup) ==
    /\ IsPrevious(top, p)
    /\ Entries(p) # {}
    /\ \A j \in Entries(p) : IsConfirmed(p, j, checkBackup)
    /\ Entries(p) = TopSyncJets

\* checkPulseConsistency for a pulse whose predecessor is the top sync pulse.
CheckPulseConsistency(p, checkBackup) ==
    /\ IsPrevious(top, p)
    /\ Entries(p) # {}
    /\ \A j \in Entries(p) : IsConfirmed(p, j, checkBackup)
    /\ Entries(p) = TopSyncJets
    /\ Entries(p) = LeafIDs(p)

\* getTopSyncJets finds no record, on which checkPulseConsistency stops the node.
TopSyncJetsMissing(p) == IsPrevious(top, p) /\ top # 0 /\ Entries(top) = {}

HasAllJetConfirms(p) == top >= p \/ CheckPulseConsistency(p, FALSE)

Init ==
    /\ info = [p \in Pulses |-> [j \in Jets |-> NewInfo]]
    /\ top = 0
    /\ tree = [p \in Pulses |-> {}]
    /\ drops = {}
    /\ pulses = {0}
    /\ lastKnown = 0
    /\ status = "up"
    /\ truncated = 0
    /\ lastBackuped = 0
    /\ pc = [q \in Procs |-> "idle"]
    /\ msg = [q \in Procs |-> NoMessage]
    /\ fin = [q \in Procs |-> 0]
    /\ jetsOf = [p \in Pulses |-> {}]
    /\ inbox = {}
    /\ lastPulse = 0
    /\ crashes = 0

-----------------------------------------------------------------------------
(* Control of the goroutines.                                              *)

Up == status = "up"

Goto(q, here, there) ==
    /\ Up
    /\ pc[q] = here
    /\ pc' = [pc EXCEPT ![q] = there]

\* The goroutine ends, or the replicator goes back to its select.
Finish(q, here) ==
    /\ Goto(q, here, "idle")
    /\ msg' = [msg EXCEPT ![q] = NoMessage]
    /\ fin' = [fin EXCEPT ![q] = 0]

\* logger.Fatal and logger.Panic: the process exits.
Fatal(q, here) ==
    /\ Up
    /\ pc[q] = here
    /\ status' = "fatal"
    /\ UNCHANGED <<keeper, storage, truncated, lastBackuped, pc, msg, fin, network>>

\* AddBackupConfirmation holds jk.lock across its two writes.
JetKeeperFree == \A q \in Procs : pc[q] # "sync"

\* finalizationLock is held from AddBackupConfirmation to the end of the step.
FinalizationFree == \A q \in Procs : pc[q] \notin {"sync", "check", "index"}

-----------------------------------------------------------------------------
(* The network: pulses, and the messages of the light nodes.               *)

\* The jets of the pulse that follows p when the jets in S split.
JetsAfter(p, S) == UNION {Successors(j, j \in S) : j \in jetsOf[p]}

\* What the light nodes send when pulse p ends with the jets in S split.
Sent(p, S) ==
    {[kind |-> "drop", pulse |-> p, jet |-> j, split |-> j \in S] : j \in jetsOf[p]}
    \cup UNION {{[kind |-> "hot", pulse |-> p, jet |-> k, split |-> j \in S]
                    : k \in Successors(j, j \in S)} : j \in jetsOf[p]}

\* FinalizationKeeperDefault.OnPulse panics: the pulse Limit steps before the
\* newest one exists and the top sync pulse is not after it.
FallsBehind(known) ==
    \E bottom \in known :
        /\ Cardinality({y \in known : bottom < y}) = Limit
        /\ top <= bottom

\* A new pulse.  The heavy node's PulseManager.Set appends it and asks the
\* finalization keeper; the light nodes end the pulse before it, splitting
\* the jets in S.  In the first pulse after a start they have no jets to
\* end: they take the ones that the heavy node's initial state gives them.
NewPulse(S) ==
    /\ Up
    /\ lastPulse < MaxPulse
    /\ S \subseteq {j \in jetsOf[lastPulse] : Len(j) < MaxDepth}
    /\ lastPulse' = lastPulse + 1
    /\ pulses' = pulses \cup {lastPulse + 1}
    /\ status' = IF FallsBehind(pulses \cup {lastPulse + 1}) THEN "down" ELSE "up"
    /\ jetsOf' = [jetsOf EXCEPT ![lastPulse + 1] =
                    IF jetsOf[lastPulse] = {} THEN TopSyncJets ELSE JetsAfter(lastPulse, S)]
    /\ inbox' = inbox \cup Sent(lastPulse, S)
    /\ UNCHANGED <<keeper, tree, drops, lastKnown, truncated, lastBackuped,
                   pc, msg, fin, crashes>>

\* A message reaches its goroutine: the replicator's channel, or a handler.
Receive(q, m) ==
    /\ m \in inbox
    /\ (m.kind = "drop") <=> (q = Replicator)
    /\ Goto(q, "idle", IF m.kind = "drop" THEN "store" ELSE "hot")
    /\ msg' = [msg EXCEPT ![q] = m]
    /\ fin' = [fin EXCEPT ![q] = m.pulse]
    /\ inbox' = inbox \ {m}
    /\ UNCHANGED <<keeper, storage, process, jetsOf, lastPulse, crashes>>

-----------------------------------------------------------------------------
(* HeavyReplicatorDefault.sync for one Replication message, up to the call *)
(* of FinalizePulse.                                                       *)

\* storeRecords, storeIndexes and storeDrop.
StoreDrop(q) ==
    /\ Goto(q, "store", "drop")
    /\ drops' = drops \cup {<<msg[q].pulse, msg[q].jet>>}
    /\ UNCHANGED <<keeper, tree, pulses, lastKnown, process, msg, fin, network>>

\* AddDropConfirmation: refused for a second drop of the jet and for a drop
\* that disagrees with the hot confirmations about the split.
AddDropConfirmation(q) ==
    LET m == msg[q]
        i == info[m.pulse][m.jet] IN
    /\ pc[q] = "drop"
    /\ JetKeeperFree
    /\ \/ /\ ~i.drop
          /\ i.split \in {"unset", Flag(m.split)}
          /\ info' = [info EXCEPT ![m.pulse][m.jet] =
                        [i EXCEPT !.drop = TRUE, !.split = Flag(m.split)]]
          /\ Goto(q, "drop", "tree")
          /\ UNCHANGED <<top, storage, process, msg, fin, network>>
       \/ /\ i.drop \/ i.split \notin {"unset", Flag(m.split)}
          /\ Fatal(q, "drop")

\* h.jets.Update
UpdateJets(q) ==
    /\ Goto(q, "tree", "finalize")
    /\ tree' = [tree EXCEPT ![msg[q].pulse] = @ \cup {msg[q].jet}]
    /\ UNCHANGED <<keeper, drops, pulses, lastKnown, process, msg, fin, network>>

-----------------------------------------------------------------------------
(* Handler.handleGotHotConfirmation up to the call of FinalizePulse.       *)

\* AddHotConfirmation: the record is that of the parent if the jet split;
\* refused for a third or a repeated jet and for a disagreement on the split.
AddHotConfirmation(q) ==
    LET m == msg[q]
        parent == IF m.split THEN Parent(m.jet) ELSE m.jet
        i == info[m.pulse][parent]
        refused == \/ Cardinality(i.hot) >= 2
                   \/ m.jet \in i.hot
                   \/ i.split \notin {"unset", Flag(m.split)} IN
    /\ pc[q] = "hot"
    /\ JetKeeperFree
    /\ \/ /\ ~refused
          /\ info' = [info EXCEPT ![m.pulse][parent] =
                        [i EXCEPT !.hot = @ \cup {m.jet}, !.split = Flag(m.split)]]
          /\ Goto(q, "hot", "finalize")
          /\ UNCHANGED <<top, storage, process, msg, fin, network>>
       \/ refused /\ Fatal(q, "hot")

-----------------------------------------------------------------------------
(* FinalizePulse: finalizePulseStep in a loop.                             *)

\* shouldStartFinalization, first half: HasAllJetConfirms.
CheckConfirms(q) ==
    /\ pc[q] = "finalize"
    /\ JetKeeperFree
    /\ \/ /\ ~TopSyncJetsMissing(fin[q])
          /\ HasAllJetConfirms(fin[q])
          /\ Goto(q, "finalize", "next")
          /\ UNCHANGED <<msg, fin, keeper, storage, process, network>>
       \/ /\ ~TopSyncJetsMissing(fin[q])
          /\ ~HasAllJetConfirms(fin[q])
          /\ Finish(q, "finalize")
          /\ UNCHANGED <<keeper, storage, process, network>>
       \/ /\ TopSyncJetsMissing(fin[q])
          /\ Fatal(q, "finalize")

\* Second half, under a new acquisition of jk.lock: the pulse must be the
\* one that follows the top sync pulse.
CheckNextTop(q) ==
    /\ pc[q] = "next"
    /\ JetKeeperFree
    /\ IF IsPrevious(top, fin[q])
         THEN /\ Goto(q, "next", "backup")
              /\ UNCHANGED <<msg, fin>>
         ELSE Finish(q, "next")
    /\ UNCHANGED <<keeper, storage, process, network>>

\* Slip: a pulse that has been backed up is not recognised.
MakeBackupAgain(q) ==
    /\ Goto(q, "backup", "lock")
    /\ lastBackuped' = fin[q]
    /\ UNCHANGED <<keeper, storage, status, truncated, msg, fin, network>>

\* backuper.MakeBackup, which runs under its own lock from the test of
\* lastBackupedPulse to the end of the backup.  Disabled backups take the
\* same path.  A backup that fails stops the node: Crash stands for that.
MakeBackup(q) ==
    /\ pc[q] = "backup"
    /\ IF Backuper = "badger" /\ fin[q] <= lastBackuped
         THEN /\ Finish(q, "backup")
              /\ UNCHANGED lastBackuped
         ELSE /\ Goto(q, "backup", "lock")
              /\ lastBackuped' = IF Backuper = "badger" THEN fin[q] ELSE lastBackuped
              /\ UNCHANGED <<msg, fin>>
    /\ UNCHANGED <<keeper, storage, status, truncated, network>>

\* finalizationLock.Lock, then AddBackupConfirmation's first write.
AddBackupConfirmation(q) ==
    /\ pc[q] = "lock"
    /\ FinalizationFree
    /\ \/ /\ Entries(fin[q]) # {}
          /\ Goto(q, "lock", "sync")
          /\ info' = [info EXCEPT ![fin[q]] =
                        [j \in Jets |-> IF j \in Entries(fin[q])
                                          THEN [info[fin[q]][j] EXCEPT !.backup = TRUE]
                                          ELSE info[fin[q]][j]]]
          /\ UNCHANGED <<top, storage, process, msg, fin, network>>
       \/ /\ Entries(fin[q]) = {}
          /\ Fatal(q, "lock")

\* AddBackupConfirmation's second write: updateTopSyncPulse.
UpdateTopSyncPulse(q) ==
    /\ pc[q] = "sync"
    /\ \/ /\ ~TopSyncJetsMissing(fin[q])
          /\ Goto(q, "sync", "check")
          /\ top' = IF CheckPulseConsistency(fin[q], TRUE) THEN fin[q] ELSE top
          /\ UNCHANGED <<info, storage, process, msg, fin, network>>
       \/ /\ TopSyncJetsMissing(fin[q])
          /\ Fatal(q, "sync")

\* The step insists that the pulse has become the top sync pulse.
CheckNewTop(q) ==
    /\ pc[q] = "check"
    /\ \/ /\ fin[q] = top
          /\ Goto(q, "check", "index")
          /\ UNCHANGED <<keeper, storage, process, msg, fin, network>>
       \/ /\ fin[q] # top
          /\ Fatal(q, "check")

\* Slip: the index is told only when there is nothing left to propagate to.
LateIndexUpdate(q) ==
    /\ \/ \E p \in pulses :
             /\ IsPrevious(fin[q], p)
             /\ Goto(q, "index", "finalize")
             /\ fin' = [fin EXCEPT ![q] = p]
             /\ UNCHANGED <<msg, lastKnown>>
       \/ /\ \A p \in pulses : ~IsPrevious(fin[q], p)
          /\ lastKnown' = fin[q]
          /\ Finish(q, "index")
    /\ UNCHANGED <<keeper, tree, drops, pulses, process, network>>

\* Slip: the step does not go on with the next pulse.
NoPropagation(q) ==
    /\ lastKnown' = fin[q]
    /\ Finish(q, "index")
    /\ UNCHANGED <<keeper, tree, drops, pulses, process, network>>

\* indexes.UpdateLastKnownPulse, then propagation to the next pulse, if any.
UpdateLastKnownPulse(q) ==
    /\ lastKnown' = fin[q]
    /\ \/ \E p \in pulses :
             /\ IsPrevious(fin[q], p)
             /\ Goto(q, "index", "finalize")
             /\ fin' = [fin EXCEPT ![q] = p]
             /\ UNCHANGED msg
       \/ /\ \A p \in pulses : ~IsPrevious(fin[q], p)
          /\ Finish(q, "index")
    /\ UNCHANGED <<keeper, tree, drops, pulses, process, network>>

-----------------------------------------------------------------------------
(* Crash and restart.                                                      *)

\* What the goroutines hold is gone.  The light nodes stop with the node and
\* later start anew, with nothing of the pulse they were in.
Stop(next) ==
    /\ pc' = [q \in Procs |-> "idle"]
    /\ msg' = [q \in Procs |-> NoMessage]
    /\ fin' = [q \in Procs |-> 0]
    /\ truncated' = 0
    /\ jetsOf' = [jetsOf EXCEPT ![lastPulse] = {}]
    /\ status' = next
    /\ UNCHANGED <<keeper, storage, lastBackuped, inbox, lastPulse>>

\* The node dies.
Crash ==
    /\ status \in {"up", "rollback"}
    /\ crashes < MaxCrashes
    /\ crashes' = crashes + 1
    /\ Stop("down")

\* A node that died, or stopped by itself, is started again.
Restart ==
    /\ status = "down"
    /\ UNCHANGED crashes
    /\ Stop("rollback")

\* Slip: the rollback starts at the top sync pulse, not at the one after it.
TruncateFromTop ==
    /\ status = "rollback"
    /\ truncated < 5
    /\ truncated' = truncated + 1
    /\ drops' = IF truncated = 0 THEN {d \in drops : d[1] < top} ELSE drops
    /\ UNCHANGED <<keeper, tree, pulses, lastKnown, status, lastBackuped, pc, msg, fin, network>>

\* DBRollback.Start truncates the databases above the top sync pulse one
\* after the other: drops, records and indexes, jets, pulses, JetKeeper.
TruncateHead ==
    /\ status = "rollback"
    /\ truncated < 5
    /\ truncated' = truncated + 1
    /\ drops' = IF truncated = 0 THEN {d \in drops : d[1] <= top} ELSE drops
    /\ lastKnown' = IF truncated = 1 THEN top ELSE lastKnown
    /\ tree' = IF truncated = 2
                 THEN [p \in Pulses |-> IF p <= top THEN tree[p] ELSE {}] ELSE tree
    /\ pulses' = IF truncated = 3 THEN {p \in pulses : p <= top} ELSE pulses
    /\ info' = IF truncated = 4
                 THEN [p \in Pulses |-> IF p <= top THEN info[p] ELSE [j \in Jets |-> NewInfo]]
                 ELSE info
    /\ UNCHANGED <<top, status, lastBackuped, pc, msg, fin, network>>

\* Slip: the backup maker starts from the pulse before the top sync pulse.
StartOnePulseBack ==
    /\ status = "rollback"
    /\ truncated = 5
    /\ status' = "up"
    /\ lastBackuped' = top - 1
    /\ truncated' = 0
    /\ UNCHANGED <<keeper, storage, pc, msg, fin, network>>

\* Slip: the backup maker remembers a backup of a pulse that was rolled back.
StartWithOldBackup ==
    /\ status = "rollback"
    /\ truncated = 5
    /\ status' = "up"
    /\ truncated' = 0
    /\ UNCHANGED <<keeper, storage, lastBackuped, pc, msg, fin, network>>

\* InitialStateKeeper.Start, which needs the drop of every jet of the top
\* sync pulse; then the components start.  The backup maker was created with
\* the top sync pulse as its lastBackupedPulse.
StartComponents ==
    /\ status = "rollback"
    /\ truncated = 5
    /\ status' = IF \A j \in LeafIDs(top) : <<top, j>> \in drops THEN "up" ELSE "fatal"
    /\ lastBackuped' = top
    /\ truncated' = 0
    /\ UNCHANGED <<keeper, storage, pc, msg, fin, network>>

-----------------------------------------------------------------------------
Step(q) ==
    \/ StoreDrop(q)
    \/ AddDropConfirmation(q)
    \/ UpdateJets(q)
    \/ AddHotConfirmation(q)
    \/ CheckConfirms(q)
    \/ CheckNextTop(q)
    \/ MakeBackup(q)
    \/ AddBackupConfirmation(q)
    \/ UpdateTopSyncPulse(q)
    \/ CheckNewTop(q)
    \/ UpdateLastKnownPulse(q)

Next ==
    \/ \E S \in SUBSET Jets : NewPulse(S)
    \/ \E q \in Procs, m \in inbox : Receive(q, m)
    \/ \E q \in Procs : Step(q)
    \/ Crash
    \/ Restart
    \/ TruncateHead
    \/ StartComponents

Spec == Init /\ [][Next]_vars

\* The Go scheduler runs every goroutine that can run, and a message that
\* was sent arrives.  Pulses and crashes are owed to nobody.
Fairness ==
    /\ \A q \in Procs : WF_vars(Step(q))
    /\ \A q \in Procs : WF_vars(\E m \in inbox : Receive(q, m))

FairSpec == Spec /\ Fairness

-----------------------------------------------------------------------------
PCs == {"idle", "store", "drop", "tree", "hot", "finalize", "next", "backup",
        "lock", "sync", "check", "index"}

\* Every variable has the type of what it stands for.
TypeOK ==
    /\ info \in [Pulses -> [Jets -> JetInfo]]
    /\ top \in Pulses
    /\ tree \in [Pulses -> SUBSET Jets]
    /\ drops \subseteq Pulses \X Jets
    /\ pulses \subseteq Pulses
    /\ lastKnown \in Pulses
    /\ status \in {"up", "down", "rollback", "fatal"}
    /\ truncated \in 0 .. 5
    /\ lastBackuped \in Pulses
    /\ pc \in [Procs -> PCs]
    /\ msg \in [Procs -> Message \cup {NoMessage}]
    /\ fin \in [Procs -> Pulses]
    /\ jetsOf \in [Pulses -> SUBSET Jets]
    /\ inbox \subseteq Message
    /\ lastPulse \in Pulses
    /\ crashes \in 0 .. MaxCrashes

\* No interleaving of the replicator with the handlers, and no restart, makes
\* the node kill itself: no confirmation is refused, no finalization step
\* finds that its pulse did not become the top sync pulse, and the initial
\* state of the top sync pulse can always be rebuilt.
NoFatal == status # "fatal"

\* A pulse up to the top sync pulse has everything: drop, hot confirmations
\* and backup of every jet, the drop and the jet tree in the storage, and its
\* jets are exactly the ones that the pulse before it left behind.
Finalized == {p \in pulses : 0 < p /\ p <= top}

FinalizedComplete ==
    \A p \in Finalized :
        /\ Entries(p) # {}
        /\ \A j \in Entries(p) : IsConfirmed(p, j, TRUE) /\ <<p, j>> \in drops
        /\ Entries(p) = LeafIDs(p)
        /\ Entries(p) = jetsOf[p]

\* The records of the final pulses, as far as a reader of the ledger sees them:
\* the jets whose drop is stored, and which of them split.
FinalRecords ==
    [p \in Finalized |-> [j \in {k \in Entries(p) : <<p, k>> \in drops} |->
                            info[p][j].split = "yes"]]

Ledger == INSTANCE FinalLedger WITH known <- pulses, ledger <- FinalRecords

\* The heavy node implements a ledger of final pulses: in whatever order the
\* confirmations of several pulses arrive and wherever the node crashes, the
\* top sync pulse moves by exactly one pulse at a time and forwards only, a
\* pulse becomes final with a drop of every jet that the pulse before it left
\* behind, and the records of a final pulse never change and survive the
\* rollback of every restart.
ImplementsLedger == Ledger!Spec

\* A backup is made once per pulse and never skipped: with the Badger backend
\* the backup of a pulse is taken before the pulse is final, and no later
\* pulse is backed up before it is.
BackupsAreOrdered ==
    Backuper = "badger" /\ status = "up" =>
        lastBackuped = top \/ IsPrevious(top, lastBackuped)

\* Two goroutines never work on the same pulse beyond its backup.
OneFinalizer ==
    \A q, r \in Procs :
        /\ pc[q] \in {"lock", "sync", "check", "index"}
        /\ pc[r] \in {"lock", "sync", "check", "index"}
        /\ fin[q] = fin[r]
        => q = r

\* The pulse that the index storage believes to be synced is never ahead of
\* the top sync pulse, and it catches up before the next pulse is final.
IndexFollowsTop ==
    status = "up" =>
        lastKnown = top \/ \E q \in Procs : pc[q] \in {"check", "index"} /\ fin[q] = top

\* The assertion in finalizePulseStep: after AddBackupConfirmation the pulse
\* that is being finalized is the top sync pulse.
StepReachesTop == \A q \in Procs : pc[q] = "check" => fin[q] = top

\* No wake-up is lost: a pulse that has ended becomes final, although each
\* goroutine gives up when it finds something missing and nothing polls.
EndedPulseFinalized ==
    \A p \in Pulses \ {0} :
        (p \in pulses /\ p < lastPulse) ~> (top >= p \/ status # "up")
=============================================================================
