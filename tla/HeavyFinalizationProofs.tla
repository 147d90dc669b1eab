---------------------- MODULE HeavyFinalizationProofs ----------------------
(***************************************************************************)
(* What finalization guarantees for any number of handlers, pulses, jets   *)
(* and crashes.  With either backend: type correctness, the top sync pulse *)
(* moves one pulse at a time, the index storage keeps up with it, and a    *)
(* pulse up to the top is and stays complete.  With the Badger backend: a  *)
(* pulse is finalized by one goroutine only, backups are taken in pulse    *)
(* order, and the node never stops itself.                                 *)
(***************************************************************************)
EXTENDS HeavyFinalization, FiniteSetTheorems, SequenceTheorems, TLAPS

Working == {"store", "drop", "tree", "hot"}
PastBackup == {"lock", "sync", "check", "index"}

\* A jet that splits has room below it.
Fits(m) == m.split => IF m.kind = "drop" THEN Len(m.jet) < MaxDepth ELSE m.jet # Root

MessagesFit ==
    /\ \A m \in inbox : Fits(m)
    /\ \A q \in Procs :
          pc[q] \in Working =>
              msg[q] \in Message /\ Fits(msg[q]) /\ (pc[q] = "hot" <=> msg[q].kind = "hot")
    /\ \A p \in Pulses, j \in Jets : info[p][j].split = "yes" => Len(j) < MaxDepth

TypeInv == TypeOK /\ MessagesFit

-----------------------------------------------------------------------------
(* Jets.                                                                   *)

\* A jet ID is a bit string of bounded length.
LEMMA JetIsSeq ==
    ASSUME NEW j \in Jets
    PROVE  j \in Seq({0, 1}) /\ Len(j) \in 0 .. MaxDepth
<1>1. PICK d \in 0 .. MaxDepth : j \in [1 .. d -> {0, 1}]
  BY DEF Jets
<1>2. d \in Nat
  BY BoundsAssumption
<1>3. j \in Seq({0, 1})
  BY <1>1, <1>2, SeqDef
<1>4. Len(j) = d
  BY <1>1, <1>2, <1>3, LenProperties
<1> QED BY <1>3, <1>4

\* A bounded bit string is a jet ID.
LEMMA SeqIsJet ==
    ASSUME NEW j \in Seq({0, 1}), Len(j) <= MaxDepth
    PROVE  j \in Jets
<1>1. Len(j) \in Nat /\ j \in [1 .. Len(j) -> {0, 1}]
  BY LenProperties
<1>2. Len(j) \in 0 .. MaxDepth
  BY <1>1, BoundsAssumption
<1> QED BY <1>1, <1>2 DEF Jets

\* The zero jet is a jet.
LEMMA RootIsJet == Root \in Jets
<1>1. Root \in Seq({0, 1}) /\ Len(Root) = 0
  BY EmptySeq DEF Root
<1>2. Len(Root) <= MaxDepth
  BY <1>1, BoundsAssumption
<1> QED BY <1>1, <1>2, SeqIsJet

\* A jet that may still split has two children that are jets.
LEMMA SiblingsAreJets ==
    ASSUME NEW j \in Jets, Len(j) < MaxDepth
    PROVE  /\ Siblings(j) \subseteq Jets
           /\ \A k \in Siblings(j) : k # Root
<1>1. j \in Seq({0, 1}) /\ Len(j) \in Nat
  BY JetIsSeq
<1>2. ASSUME NEW b \in {0, 1}
      PROVE  Append(j, b) \in Jets /\ Append(j, b) # Root
  <2>1. Append(j, b) \in Seq({0, 1}) /\ Len(Append(j, b)) = Len(j) + 1
    BY <1>1, AppendProperties
  <2>2. Len(Append(j, b)) <= MaxDepth
    BY <1>1, <2>1, BoundsAssumption
  <2>3. Append(j, b) \in Jets
    BY <2>1, <2>2, SeqIsJet
  <2>4. Len(Root) = 0
    BY EmptySeq DEF Root
  <2> QED BY <1>1, <2>1, <2>3, <2>4
<1> QED BY <1>2 DEF Siblings

\* The parent of a jet is a jet.
LEMMA ParentIsJet ==
    ASSUME NEW j \in Jets
    PROVE  /\ Parent(j) \in Jets
           /\ j # Root => Len(Parent(j)) < MaxDepth
<1>1. j \in Seq({0, 1}) /\ Len(j) \in 0 .. MaxDepth
  BY JetIsSeq
<1>2. CASE j = Root
  BY <1>2, RootIsJet DEF Parent
<1>3. CASE j # Root
  <2>1. Len(j) # 0
    BY <1>1, <1>3, EmptySeq DEF Root
  <2>2. Len(j) - 1 \in Nat /\ Len(j) - 1 <= Len(j)
    BY <1>1, <2>1, BoundsAssumption
  <2>3. \A i \in 1 .. Len(j) - 1 : j[i] \in {0, 1}
    <3>1. j \in [1 .. Len(j) -> {0, 1}]
      BY <1>1, LenProperties
    <3> QED BY <2>2, <3>1
  <2> DEFINE k == SubSeq(j, 1, Len(j) - 1)
  <2>4. 1 \in Int /\ Len(j) - 1 \in Int
    BY <2>2
  <2>5. k \in Seq({0, 1}) /\ Len(k) = IF 1 <= Len(j) - 1 THEN (Len(j) - 1) - 1 + 1 ELSE 0
    BY <2>3, <2>4, SubSeqProperties
  <2>6. Parent(j) = k
    BY <1>3 DEF Parent
  <2> HIDE DEF k
  <2>7. Len(k) < MaxDepth /\ Len(k) <= MaxDepth
    BY <1>1, <2>1, <2>2, <2>5, BoundsAssumption
  <2>8. k \in Jets
    BY <2>5, <2>7, SeqIsJet
  <2> QED BY <2>6, <2>7, <2>8
<1> QED BY <1>2, <1>3

\* What a jet leaves behind, split or not, are jets.
LEMMA SuccessorsAreJets ==
    ASSUME NEW j \in Jets, NEW b \in BOOLEAN, b => Len(j) < MaxDepth
    PROVE  /\ Successors(j, b) \subseteq Jets
           /\ b => \A k \in Successors(j, b) : k # Root
BY SiblingsAreJets DEF Successors

-----------------------------------------------------------------------------
(* Type correctness.                                                       *)

\* The type invariant holds when the network starts.
LEMMA InitType == Init => TypeInv
<1> SUFFICES ASSUME Init PROVE TypeInv
  OBVIOUS
<1> USE BoundsAssumption DEF Init
<1>1. NewInfo \in JetInfo
  BY DEF NewInfo, JetInfo
<1>2. 0 \in Pulses
  BY DEF Pulses
<1>3. info \in [Pulses -> [Jets -> JetInfo]]
  BY <1>1
<1>4. TypeOK
  BY <1>2, <1>3 DEF TypeOK, PCs
<1>5. MessagesFit
  BY DEF MessagesFit, Working, NewInfo
<1> QED BY <1>4, <1>5 DEF TypeInv

\* The jets that a start of the network takes from the heavy node.
LEMMA TopSyncJetsType ==
    ASSUME TypeInv
    PROVE  TopSyncJets \subseteq Jets
<1>1. CASE top = 0
  BY <1>1, RootIsJet DEF TopSyncJets
<1>2. CASE top # 0
  <2>1. ASSUME NEW j \in Entries(top)
        PROVE  Successors(j, info[top][j].split = "yes") \subseteq Jets
    <3>1. j \in Jets /\ top \in Pulses
      BY DEF Entries, TypeInv, TypeOK
    <3>2. info[top][j].split = "yes" => Len(j) < MaxDepth
      BY <3>1 DEF TypeInv, MessagesFit
    <3> QED BY <3>1, <3>2, SuccessorsAreJets
  <2> QED BY <1>2, <2>1 DEF TopSyncJets
<1> QED BY <1>1, <1>2

\* What the light nodes send is well formed.
LEMMA SentType ==
    ASSUME NEW p \in Pulses, NEW S, jetsOf[p] \subseteq Jets,
           \A j \in S : Len(j) < MaxDepth
    PROVE  /\ Sent(p, S) \subseteq Message
           /\ \A m \in Sent(p, S) : Fits(m)
           /\ JetsAfter(p, S) \subseteq Jets
<1>1. ASSUME NEW j \in jetsOf[p]
      PROVE  /\ j \in Jets
             /\ Successors(j, j \in S) \subseteq Jets
             /\ j \in S => \A k \in Successors(j, j \in S) : k # Root
  <2>1. j \in Jets /\ (j \in S => Len(j) < MaxDepth)
    BY <1>1
  <2> QED BY <2>1, SiblingsAreJets DEF Successors
<1>2. ASSUME NEW j \in jetsOf[p]
      PROVE  LET m == [kind |-> "drop", pulse |-> p, jet |-> j, split |-> j \in S]
             IN  m \in Message /\ Fits(m)
  <2> DEFINE b == j \in S
             m == [kind |-> "drop", pulse |-> p, jet |-> j, split |-> b]
  <2>1. b \in BOOLEAN /\ (b => Len(j) < MaxDepth)
    OBVIOUS
  <2> HIDE DEF b
  <2>2. m \in Message /\ Fits(m)
    BY <1>1, <2>1 DEF Message, Fits
  <2> QED BY <2>2 DEF b
<1>3. ASSUME NEW j \in jetsOf[p], NEW k \in Successors(j, j \in S)
      PROVE  LET m == [kind |-> "hot", pulse |-> p, jet |-> k, split |-> j \in S]
             IN  m \in Message /\ Fits(m)
  <2> DEFINE b == j \in S
             m == [kind |-> "hot", pulse |-> p, jet |-> k, split |-> b]
  <2>1. b \in BOOLEAN /\ (b => k # Root) /\ k \in Jets
    BY <1>1
  <2> HIDE DEF b
  <2>2. m \in Message /\ Fits(m)
    BY <2>1 DEF Message, Fits
  <2> QED BY <2>2 DEF b
<1>4. ASSUME NEW m \in Sent(p, S)
      PROVE  m \in Message /\ Fits(m)
  BY <1>2, <1>3, <1>4 DEF Sent
<1>5. JetsAfter(p, S) \subseteq Jets
  BY <1>1 DEF JetsAfter
<1> QED BY <1>4, <1>5

\* A goroutine moves on, ends, or takes the node down with it.
LEMMA GotoType ==
    ASSUME TypeOK, NEW q \in Procs, NEW here, NEW there \in PCs, Goto(q, here, there)
    PROVE  /\ pc' \in [Procs -> PCs]
           /\ \A r \in Procs : pc'[r] = IF r = q THEN there ELSE pc[r]
           /\ pc[q] = here
BY DEF TypeOK, Goto

\* The end of a goroutine, or of one turn of the replicator, keeps the types.
LEMMA FinishType ==
    ASSUME TypeInv, NEW q \in Procs, NEW here, Finish(q, here),
           UNCHANGED <<keeper, storage, network>>,
           status' = status, truncated' = truncated, lastBackuped' = lastBackuped
    PROVE  TypeInv'
<1>1. "idle" \in PCs /\ "idle" \notin Working
  BY DEF PCs, Working
<1>2. Goto(q, here, "idle")
  BY DEF Finish
<1>3. 0 \in Pulses
  BY BoundsAssumption DEF Pulses
<1>4. TypeOK'
  BY <1>1, <1>2, <1>3, GotoType DEF TypeInv, TypeOK, Finish, keeper, storage, network
<1>5. MessagesFit'
  BY <1>1, <1>2, GotoType DEF TypeInv, TypeOK, MessagesFit, Fits, Finish, keeper, network
<1> QED BY <1>4, <1>5 DEF TypeInv

\* A goroutine that kills the node keeps the types.
LEMMA FatalType ==
    ASSUME TypeInv, NEW q \in Procs, NEW here, Fatal(q, here)
    PROVE  TypeInv'
BY DEF TypeInv, TypeOK, MessagesFit, Fits, Fatal, keeper, storage, network

\* A step that moves a goroutine to a place where it holds no message, or
\* keeps the one it has, and changes nothing else but listed storage.
LEMMA MoveType ==
    ASSUME TypeInv, NEW q \in Procs, NEW here, NEW there \in PCs,
           Goto(q, here, there), there \notin Working \/ {here, there} \subseteq Working \ {"hot"},
           UNCHANGED <<keeper, network, msg, fin, status, truncated>>,
           tree' \in [Pulses -> SUBSET Jets], drops' \subseteq Pulses \X Jets,
           pulses' = pulses, lastKnown' = lastKnown, lastBackuped' \in Pulses
    PROVE  TypeInv'
<1>1. TypeOK'
  BY GotoType DEF TypeInv, TypeOK, keeper, network, Goto
<1>2. \A r \in Procs : pc'[r] \in Working => pc[r] \in Working /\ (pc[r] = "hot" <=> pc'[r] = "hot")
  BY GotoType DEF TypeInv
<1>3. MessagesFit'
  BY <1>2 DEF TypeInv, MessagesFit, Fits, keeper, network
<1> QED BY <1>1, <1>3 DEF TypeInv

\* The record of a jet may be replaced by one that knows of a split only if
\* the jet has room for it, while the goroutine moves on.
LEMMA RecordType ==
    ASSUME TypeInv, NEW q \in Procs, NEW here, NEW there \in PCs,
           Goto(q, here, there), there \notin Working \/ {here, there} \subseteq Working \ {"hot"},
           NEW p \in Pulses, NEW j \in Jets, NEW i \in JetInfo,
           i.split = "yes" => Len(j) < MaxDepth,
           info' = [info EXCEPT ![p][j] = i],
           UNCHANGED <<top, storage, process, msg, fin, network>>
    PROVE  TypeInv'
<1>1. info' \in [Pulses -> [Jets -> JetInfo]]
  BY DEF TypeInv, TypeOK
<1>2. \A r \in Pulses, k \in Jets : info'[r][k] = IF r = p /\ k = j THEN i ELSE info[r][k]
  BY DEF TypeInv, TypeOK
<1>3. \A r \in Pulses, k \in Jets : info'[r][k].split = "yes" => Len(k) < MaxDepth
  BY <1>2 DEF TypeInv, MessagesFit
<1>4. \A r \in Procs : pc'[r] \in Working => pc[r] \in Working /\ (pc[r] = "hot" <=> pc'[r] = "hot")
  BY GotoType DEF TypeInv
<1>5. TypeOK'
  BY <1>1, GotoType DEF TypeInv, TypeOK, storage, process, network
<1>6. MessagesFit'
  BY <1>3, <1>4 DEF TypeInv, MessagesFit, Fits, network
<1> QED BY <1>5, <1>6 DEF TypeInv

\* Every step of a goroutine keeps the types.
LEMMA StepType ==
    ASSUME TypeInv, NEW q \in Procs, Step(q)
    PROVE  TypeInv'
<1>t. TypeOK /\ MessagesFit /\ fin[q] \in Pulses
  BY DEF TypeInv, TypeOK
<1>p. /\ {"drop", "tree", "finalize", "next", "backup", "lock", "sync", "check", "index"} \subseteq PCs
      /\ {"store", "drop", "tree", "hot"} = Working
      /\ \A there \in {"finalize", "next", "backup", "lock", "sync", "check", "index"} : there \notin Working
  BY DEF PCs, Working
<1>m. pc[q] \in Working => /\ msg[q] \in Message /\ Fits(msg[q])
                          /\ msg[q].pulse \in Pulses /\ msg[q].jet \in Jets
                          /\ msg[q].split \in BOOLEAN
                          /\ msg[q].kind = IF pc[q] = "hot" THEN "hot" ELSE "drop"
  <2> SUFFICES ASSUME pc[q] \in Working
               PROVE  /\ msg[q] \in Message /\ Fits(msg[q])
                      /\ msg[q].pulse \in Pulses /\ msg[q].jet \in Jets
                      /\ msg[q].split \in BOOLEAN
                      /\ msg[q].kind = IF pc[q] = "hot" THEN "hot" ELSE "drop"
    OBVIOUS
  <2>1. msg[q] \in Message /\ Fits(msg[q]) /\ (pc[q] = "hot" <=> msg[q].kind = "hot")
    BY <1>t DEF MessagesFit
  <2>2. /\ msg[q].pulse \in Pulses /\ msg[q].jet \in Jets
        /\ msg[q].split \in BOOLEAN /\ msg[q].kind \in {"drop", "hot"}
    BY <2>1 DEF Message
  <2> QED BY <2>1, <2>2
<1>1. CASE StoreDrop(q)
  <2>1. pc[q] = "store" /\ Goto(q, "store", "drop")
    BY <1>1 DEF StoreDrop, Goto
  <2>2. drops' \subseteq Pulses \X Jets
    BY <1>1, <1>m, <1>p, <1>t, <2>1 DEF StoreDrop, TypeOK
  <2> QED
    BY <1>1, <1>p, <1>t, <2>1, <2>2, MoveType DEF StoreDrop, TypeOK, keeper, process, network
<1>2. CASE AddDropConfirmation(q)
  <2>1. CASE Fatal(q, "drop")
    BY <2>1, FatalType
  <2>2. CASE ~Fatal(q, "drop")
    <3> DEFINE m == msg[q]
               i == info[m.pulse][m.jet]
               n == [i EXCEPT !.drop = TRUE, !.split = Flag(m.split)]
    <3>1. /\ pc[q] = "drop" /\ Goto(q, "drop", "tree")
          /\ info' = [info EXCEPT ![m.pulse][m.jet] = n]
          /\ UNCHANGED <<top, storage, process, msg, fin, network>>
      BY <1>2, <2>2 DEF AddDropConfirmation
    <3>2. m.pulse \in Pulses /\ m.jet \in Jets /\ m.split \in BOOLEAN /\ Fits(m) /\ m.kind = "drop"
      BY <1>m, <1>p, <3>1
    <3>3. i \in JetInfo
      BY <1>t, <3>2 DEF TypeOK
    <3>4. Flag(m.split) \in {"yes", "no"} /\ (Flag(m.split) = "yes" => m.split)
      BY <3>2 DEF Flag
    <3>5. n \in JetInfo /\ n.split = Flag(m.split)
      BY <3>3, <3>4 DEF JetInfo
    <3>6. n.split = "yes" => Len(m.jet) < MaxDepth
      BY <3>2, <3>4, <3>5 DEF Fits
    <3> HIDE DEF n
    <3> QED BY <1>p, <3>1, <3>2, <3>5, <3>6, RecordType
  <2> QED BY <2>1, <2>2
<1>3. CASE UpdateJets(q)
  <2>1. pc[q] = "tree" /\ Goto(q, "tree", "finalize")
    BY <1>3 DEF UpdateJets, Goto
  <2>2. tree' \in [Pulses -> SUBSET Jets]
    BY <1>3, <1>m, <1>p, <1>t, <2>1 DEF UpdateJets, TypeOK
  <2> QED
    BY <1>3, <1>p, <1>t, <2>1, <2>2, MoveType DEF UpdateJets, TypeOK, keeper, process, network
<1>4. CASE AddHotConfirmation(q)
  <2>1. CASE Fatal(q, "hot")
    BY <2>1, FatalType
  <2>2. CASE ~Fatal(q, "hot")
    <3> DEFINE m == msg[q]
               parent == IF m.split THEN Parent(m.jet) ELSE m.jet
               i == info[m.pulse][parent]
               n == [i EXCEPT !.hot = @ \cup {m.jet}, !.split = Flag(m.split)]
    <3>1. /\ pc[q] = "hot" /\ Goto(q, "hot", "finalize")
          /\ info' = [info EXCEPT ![m.pulse][parent] = n]
          /\ UNCHANGED <<top, storage, process, msg, fin, network>>
      BY <1>4, <2>2 DEF AddHotConfirmation
    <3>2. m.pulse \in Pulses /\ m.jet \in Jets /\ m.split \in BOOLEAN /\ Fits(m) /\ m.kind = "hot"
      BY <1>m, <1>p, <3>1
    <3>3. parent \in Jets /\ (m.split => parent = Parent(m.jet))
      BY <3>2, ParentIsJet
    <3>4. i \in JetInfo
      BY <1>t, <3>2, <3>3 DEF TypeOK
    <3>5. Flag(m.split) \in {"yes", "no"} /\ (Flag(m.split) = "yes" => m.split)
      BY <3>2 DEF Flag
    <3>6. n \in JetInfo /\ n.split = Flag(m.split)
      BY <3>2, <3>4, <3>5 DEF JetInfo
    <3>7. n.split = "yes" => Len(parent) < MaxDepth
      BY <3>2, <3>3, <3>5, <3>6, ParentIsJet DEF Fits
    <3> HIDE DEF n, parent
    <3> QED BY <1>p, <3>1, <3>2, <3>3, <3>6, <3>7, RecordType
  <2> QED BY <2>1, <2>2
<1>5. CASE CheckConfirms(q)
  <2>1. CASE Fatal(q, "finalize")
    BY <2>1, FatalType
  <2>2. CASE Finish(q, "finalize") /\ UNCHANGED <<keeper, storage, process, network>>
    BY <2>2, FinishType DEF process
  <2>3. CASE Goto(q, "finalize", "next") /\ UNCHANGED <<msg, fin, keeper, storage, process, network>>
    BY <1>p, <1>t, <2>3, MoveType DEF TypeOK, storage, process
  <2> QED BY <1>5, <2>1, <2>2, <2>3 DEF CheckConfirms
<1>6. CASE CheckNextTop(q)
  <2>1. CASE Finish(q, "next")
    BY <1>6, <2>1, FinishType DEF CheckNextTop, process
  <2>2. CASE Goto(q, "next", "backup") /\ UNCHANGED <<msg, fin>>
    BY <1>6, <1>p, <1>t, <2>2, MoveType DEF CheckNextTop, TypeOK, storage, process
  <2> QED BY <1>6, <2>1, <2>2 DEF CheckNextTop
<1>7. CASE MakeBackup(q)
  <2>1. CASE Finish(q, "backup") /\ UNCHANGED lastBackuped
    BY <1>7, <2>1, FinishType DEF MakeBackup
  <2>2. CASE /\ Goto(q, "backup", "lock")
             /\ lastBackuped' = IF Backuper = "badger" THEN fin[q] ELSE lastBackuped
             /\ UNCHANGED <<msg, fin>>
    <3>1. lastBackuped' \in Pulses
      BY <1>t, <2>2 DEF TypeOK
    <3> QED BY <1>7, <1>p, <1>t, <2>2, <3>1, MoveType DEF MakeBackup, TypeOK, storage
  <2> QED BY <1>7, <2>1, <2>2 DEF MakeBackup
<1>8. CASE AddBackupConfirmation(q)
  <2>1. CASE Fatal(q, "lock")
    BY <2>1, FatalType
  <2>2. CASE ~Fatal(q, "lock")
    <3>1. /\ Goto(q, "lock", "sync")
          /\ info' = [info EXCEPT ![fin[q]] =
                        [j \in Jets |-> IF j \in Entries(fin[q])
                                          THEN [info[fin[q]][j] EXCEPT !.backup = TRUE]
                                          ELSE info[fin[q]][j]]]
          /\ UNCHANGED <<top, storage, process, msg, fin, network>>
      BY <1>8, <2>2 DEF AddBackupConfirmation
    <3>2. ASSUME NEW i \in JetInfo
          PROVE  LET n == [i EXCEPT !.backup = TRUE] IN n \in JetInfo /\ n.split = i.split
      BY DEF JetInfo
    <3>3. \A p \in Pulses, j \in Jets :
             info'[p][j] \in JetInfo /\ info'[p][j].split = info[p][j].split
      BY <1>t, <3>1, <3>2 DEF TypeOK
    <3>4. info' \in [Pulses -> [Jets -> JetInfo]]
      BY <1>t, <3>1, <3>2 DEF TypeOK
    <3>5. \A r \in Procs : pc'[r] \in Working => pc[r] \in Working /\ (pc[r] = "hot" <=> pc'[r] = "hot")
      BY <1>p, <1>t, <3>1, GotoType
    <3>6. TypeOK'
      BY <1>p, <1>t, <3>1, <3>4, GotoType DEF TypeOK, storage, process, network
    <3>7. MessagesFit'
      BY <1>t, <3>1, <3>3, <3>5 DEF MessagesFit, Fits, network
    <3> QED BY <3>6, <3>7 DEF TypeInv
  <2> QED BY <2>1, <2>2
<1>9. CASE UpdateTopSyncPulse(q)
  <2>1. CASE Fatal(q, "sync")
    BY <2>1, FatalType
  <2>2. CASE ~Fatal(q, "sync")
    <3>1. /\ Goto(q, "sync", "check")
          /\ top' \in {fin[q], top}
          /\ UNCHANGED <<info, storage, process, msg, fin, network>>
      BY <1>9, <2>2 DEF UpdateTopSyncPulse
    <3>2. \A r \in Procs : pc'[r] \in Working => pc[r] \in Working /\ (pc[r] = "hot" <=> pc'[r] = "hot")
      BY <1>p, <1>t, <3>1, GotoType
    <3>3. TypeOK'
      BY <1>p, <1>t, <3>1, GotoType DEF TypeOK, storage, process, network
    <3>4. MessagesFit'
      BY <1>t, <3>1, <3>2 DEF MessagesFit, Fits, network
    <3> QED BY <3>3, <3>4 DEF TypeInv
  <2> QED BY <2>1, <2>2
<1>10. CASE CheckNewTop(q)
  <2>1. CASE Fatal(q, "check")
    BY <2>1, FatalType
  <2>2. CASE Goto(q, "check", "index") /\ UNCHANGED <<keeper, storage, process, msg, fin, network>>
    BY <1>p, <1>t, <2>2, MoveType DEF TypeOK, storage, process
  <2> QED BY <1>10, <2>1, <2>2 DEF CheckNewTop
<1>11. CASE UpdateLastKnownPulse(q)
  <2>1. /\ Goto(q, "index", "finalize") \/ Goto(q, "index", "idle")
        /\ lastKnown' = fin[q]
        /\ UNCHANGED <<keeper, tree, drops, pulses, process, network>>
    BY <1>11 DEF UpdateLastKnownPulse, Finish
  <2>2. "idle" \in PCs /\ "idle" \notin Working /\ 0 \in Pulses
    BY BoundsAssumption DEF PCs, Working, Pulses
  <2>3. fin' \in [Procs -> Pulses] /\ msg' \in [Procs -> Message \cup {NoMessage}]
    BY <1>11, <1>t, <2>2 DEF UpdateLastKnownPulse, Finish, TypeOK
  <2>4. \A r \in Procs : pc'[r] \in Working =>
             pc[r] \in Working /\ (pc[r] = "hot" <=> pc'[r] = "hot") /\ msg'[r] = msg[r]
    BY <1>11, <1>p, <1>t, <2>1, <2>2, GotoType DEF UpdateLastKnownPulse, Finish, TypeOK
  <2>5. TypeOK'
    BY <1>p, <1>t, <2>1, <2>2, <2>3, GotoType DEF TypeOK, keeper, process, network
  <2>6. MessagesFit'
    BY <1>t, <2>1, <2>4 DEF MessagesFit, Fits, keeper, network
  <2> QED BY <2>5, <2>6 DEF TypeInv
<1> QED
  BY <1>1, <1>2, <1>3, <1>4, <1>5, <1>6, <1>7, <1>8, <1>9, <1>10, <1>11 DEF Step

\* TypeInv is inductive.
LEMMA NextType == TypeInv /\ [Next]_vars => TypeInv'
<1> SUFFICES ASSUME TypeInv, [Next]_vars PROVE TypeInv'
  OBVIOUS
<1> USE BoundsAssumption
<1>t. TypeOK /\ MessagesFit
  BY DEF TypeInv
<1>1. ASSUME NEW S \in SUBSET Jets, NewPulse(S) PROVE TypeInv'
  <2>1. lastPulse \in Pulses /\ lastPulse + 1 \in Pulses
    BY <1>1, <1>t DEF NewPulse, TypeOK, Pulses
  <2>2. jetsOf[lastPulse] \subseteq Jets /\ \A j \in S : Len(j) < MaxDepth
    BY <1>1, <1>t, <2>1 DEF NewPulse, TypeOK
  <2>3. /\ Sent(lastPulse, S) \subseteq Message
        /\ \A m \in Sent(lastPulse, S) : Fits(m)
        /\ JetsAfter(lastPulse, S) \subseteq Jets
    BY <2>1, <2>2, SentType
  <2>4. jetsOf' \in [Pulses -> SUBSET Jets]
    BY <1>1, <1>t, <2>1, <2>3, TopSyncJetsType DEF NewPulse, TypeOK
  <2>5. inbox' \subseteq Message /\ \A m \in inbox' : Fits(m)
    BY <1>1, <1>t, <2>3 DEF NewPulse, TypeOK, MessagesFit
  <2>6. TypeOK'
    BY <1>1, <1>t, <2>1, <2>4, <2>5 DEF NewPulse, TypeOK, keeper
  <2>7. MessagesFit'
    BY <1>1, <1>t, <2>5 DEF NewPulse, MessagesFit, Fits, keeper
  <2> QED BY <2>6, <2>7 DEF TypeInv
<1>2. ASSUME NEW q \in Procs, NEW m \in inbox, Receive(q, m) PROVE TypeInv'
  <2>1. m \in Message /\ Fits(m) /\ m.pulse \in Pulses
    BY <1>2, <1>t DEF TypeOK, MessagesFit, Message
  <2>2. PICK there \in PCs : Goto(q, "idle", there)
    BY <1>2 DEF Receive, PCs
  <2>3. TypeOK'
    BY <1>2, <1>t, <2>1, <2>2, GotoType DEF Receive, TypeOK, keeper, storage, process
  <2>4. \A r \in Procs :
            pc'[r] \in Working =>
                msg'[r] \in Message /\ Fits(msg'[r]) /\ (pc'[r] = "hot" <=> msg'[r].kind = "hot")
    BY <1>2, <1>t, <2>1, <2>2, GotoType DEF Receive, TypeOK, MessagesFit, Message, Goto
  <2>5. MessagesFit'
    BY <1>2, <1>t, <2>4 DEF Receive, MessagesFit, Fits, keeper
  <2> QED BY <2>3, <2>5 DEF TypeInv
<1>3. ASSUME NEW q \in Procs, Step(q) PROVE TypeInv'
  BY <1>3, StepType
<1>4. ASSUME NEW n \in {"down", "rollback"}, Stop(n), crashes' \in 0 .. MaxCrashes PROVE TypeInv'
  <2>1. TypeOK'
    BY <1>4, <1>t DEF Stop, TypeOK, PCs, keeper, storage, Pulses
  <2>2. MessagesFit'
    BY <1>4, <1>t DEF Stop, MessagesFit, Fits, Working, keeper
  <2> QED BY <2>1, <2>2 DEF TypeInv
<1>5. CASE Crash
  BY <1>4, <1>5, <1>t DEF Crash, TypeOK
<1>6. CASE Restart
  BY <1>4, <1>6, <1>t DEF Restart, TypeOK
<1>7. CASE TruncateHead
  <2>1. NewInfo \in JetInfo /\ NewInfo.split # "yes"
    BY DEF NewInfo, JetInfo
  <2>2. /\ info' \in [Pulses -> [Jets -> JetInfo]]
        /\ \A p \in Pulses, j \in Jets : info'[p][j].split = "yes" => Len(j) < MaxDepth
    BY <1>7, <1>t, <2>1 DEF TruncateHead, TypeOK, MessagesFit
  <2>3. tree' \in [Pulses -> SUBSET Jets]
    BY <1>7, <1>t DEF TruncateHead, TypeOK
  <2>4. drops' \subseteq Pulses \X Jets /\ pulses' \subseteq Pulses /\ lastKnown' \in Pulses
    BY <1>7, <1>t DEF TruncateHead, TypeOK
  <2>5. TypeOK'
    BY <1>7, <1>t, <2>2, <2>3, <2>4 DEF TruncateHead, TypeOK, network
  <2>6. MessagesFit'
    BY <1>7, <1>t, <2>2 DEF TruncateHead, MessagesFit, Fits, network
  <2> QED BY <2>5, <2>6 DEF TypeInv
<1>8. CASE StartComponents
  BY <1>8, <1>t DEF StartComponents, TypeInv, TypeOK, MessagesFit, Fits, keeper, storage, network
<1>9. CASE UNCHANGED vars
  BY <1>9, <1>t DEF vars, TypeInv, TypeOK, MessagesFit, Fits, keeper, storage, process, network
<1> QED
  BY <1>1, <1>2, <1>3, <1>5, <1>6, <1>7, <1>8, <1>9 DEF Next

\* Every variable keeps its type, whatever the goroutines, the network and
\* the crashes do.
THEOREM TypeCorrect == Spec => []TypeOK
<1>1. TypeInv => TypeOK
  BY DEF TypeInv
<1> QED BY <1>1, InitType, NextType, PTL DEF Spec

-----------------------------------------------------------------------------
(* One finalizer per pulse.  The backup maker's memory of the last pulse   *)
(* it has seen is what keeps a second goroutine out: nothing beyond the    *)
(* backup works on a pulse that the memory does not cover.                 *)

Covered == \A q \in Procs : pc[q] \in PastBackup => fin[q] <= lastBackuped

QuietRollback == status = "rollback" => \A q \in Procs : pc[q] = "idle"

TopBackuped == status = "up" => top <= lastBackuped

Candidate == \A q \in Procs : pc[q] = "backup" => IsPrevious(top, fin[q]) \/ fin[q] <= top

PulsesKnown == \A p \in pulses : p <= lastPulse

FinalizerInv ==
    /\ Covered
    /\ OneFinalizer
    /\ QuietRollback
    /\ TopBackuped
    /\ BackupsAreOrdered
    /\ status = "up" => Candidate
    /\ PulsesKnown

\* Before the first pulse nobody finalizes anything.
LEMMA InitFinalizer == Init => FinalizerInv
BY DEF Init, FinalizerInv, Covered, OneFinalizer, QuietRollback, TopBackuped,
       BackupsAreOrdered, Candidate, PulsesKnown, PastBackup

\* A goroutine that is on its way to the backup, or gives up, disturbs nobody.
LEMMA BeforeBackup ==
    ASSUME TypeInv, FinalizerInv, NEW q \in Procs, NEW here, NEW there \in PCs,
           Goto(q, here, there), there \notin PastBackup, there # "backup",
           \A r \in Procs : r # q => fin'[r] = fin[r],
           UNCHANGED <<top, pulses, lastPulse, status, lastBackuped>>
    PROVE  FinalizerInv'
<1>1. Up /\ \A r \in Procs : pc'[r] = IF r = q THEN there ELSE pc[r]
  BY GotoType DEF TypeInv, Goto
<1>2. Covered' /\ OneFinalizer'
  BY <1>1 DEF FinalizerInv, Covered, OneFinalizer, PastBackup
<1>3. QuietRollback' /\ TopBackuped' /\ BackupsAreOrdered' /\ PulsesKnown'
  BY <1>1 DEF FinalizerInv, QuietRollback, TopBackuped, BackupsAreOrdered, PulsesKnown,
              IsPrevious, Up
<1>4. Candidate'
  BY <1>1 DEF FinalizerInv, Candidate, IsPrevious, Up
<1> QED BY <1>2, <1>3, <1>4 DEF FinalizerInv

\* A goroutine beyond the backup goes on with its pulse.
LEMMA BeyondBackup ==
    ASSUME TypeInv, FinalizerInv, NEW q \in Procs, NEW here \in PastBackup,
           NEW there \in PastBackup, Goto(q, here, there),
           UNCHANGED <<fin, top, pulses, lastPulse, status, lastBackuped>>
    PROVE  FinalizerInv'
<1>1. there \in PCs /\ there # "backup"
  BY DEF PastBackup, PCs
<1>2. /\ Up
      /\ pc[q] \in PastBackup
      /\ \A r \in Procs : pc'[r] = IF r = q THEN there ELSE pc[r]
  BY <1>1, GotoType DEF TypeInv, Goto
<1>3. Covered' /\ OneFinalizer'
  BY <1>2 DEF FinalizerInv, Covered, OneFinalizer, PastBackup
<1>4. QuietRollback' /\ TopBackuped' /\ BackupsAreOrdered' /\ PulsesKnown'
  BY <1>2 DEF FinalizerInv, QuietRollback, TopBackuped, BackupsAreOrdered, PulsesKnown,
              IsPrevious, Up
<1>5. Candidate'
  BY <1>1, <1>2 DEF FinalizerInv, Candidate, IsPrevious, Up
<1> QED BY <1>3, <1>4, <1>5 DEF FinalizerInv

\* A goroutine that kills the node leaves everything as it is.
LEMMA FatalFinalizer ==
    ASSUME FinalizerInv, NEW q \in Procs, NEW here, Fatal(q, here)
    PROVE  FinalizerInv'
BY DEF FinalizerInv, Covered, OneFinalizer, QuietRollback, TopBackuped, BackupsAreOrdered,
       Candidate, PulsesKnown, IsPrevious, PastBackup, Fatal, keeper, storage, network

\* The backup maker lets through only the goroutine that brings the pulse
\* after the top sync pulse for the first time.
LEMMA BackupFinalizer ==
    ASSUME Backuper = "badger", TypeInv, FinalizerInv, NEW q \in Procs, MakeBackup(q)
    PROVE  FinalizerInv'
<1>1. CASE Finish(q, "backup") /\ UNCHANGED lastBackuped
  <2>1. Goto(q, "backup", "idle") /\ "idle" \in PCs \ PastBackup /\ "idle" # "backup"
    BY <1>1 DEF Finish, PCs, PastBackup
  <2>2. \A r \in Procs : r # q => fin'[r] = fin[r]
    BY <1>1 DEF Finish, TypeInv, TypeOK
  <2>3. UNCHANGED <<top, pulses, lastPulse, status, lastBackuped>>
    BY <1>1 DEF MakeBackup, keeper, storage, network
  <2> QED BY <2>1, <2>2, <2>3, BeforeBackup
<1>2. CASE /\ ~(fin[q] <= lastBackuped)
           /\ Goto(q, "backup", "lock")
           /\ lastBackuped' = fin[q]
           /\ UNCHANGED <<msg, fin>>
  <2>1. UNCHANGED <<top, pulses, lastPulse, status>>
    BY MakeBackup(q) DEF MakeBackup, keeper, storage, network
  <2>2. /\ Up
        /\ pc[q] = "backup"
        /\ \A r \in Procs : pc'[r] = IF r = q THEN "lock" ELSE pc[r]
    BY <1>2, GotoType DEF TypeInv, Goto, PCs
  <2>3. /\ \A r \in Procs : fin[r] \in Int
        /\ lastBackuped \in Int /\ top \in Int
    BY BoundsAssumption DEF TypeInv, TypeOK, Pulses
  <2>4. lastBackuped < fin[q] /\ top <= lastBackuped
    BY <1>2, <2>2, <2>3 DEF FinalizerInv, TopBackuped, Up
  <2>5. IsPrevious(top, fin[q])
    BY <2>2, <2>3, <2>4 DEF FinalizerInv, Candidate, Up
  <2>6. Covered'
    BY <1>2, <2>2, <2>3, <2>4 DEF FinalizerInv, Covered
  <2>7. \A r \in Procs : pc[r] \in PastBackup => fin[r] < fin[q]
    BY <2>3, <2>4 DEF FinalizerInv, Covered
  <2>8. OneFinalizer'
    BY <1>2, <2>2, <2>3, <2>7 DEF FinalizerInv, OneFinalizer, PastBackup
  <2>9. QuietRollback' /\ TopBackuped' /\ PulsesKnown'
    BY <1>2, <2>1, <2>2, <2>3, <2>4 DEF FinalizerInv, QuietRollback, TopBackuped, PulsesKnown, Up
  <2>10. BackupsAreOrdered'
    BY <1>2, <2>1, <2>5 DEF BackupsAreOrdered, IsPrevious
  <2>11. Candidate'
    BY <1>2, <2>1, <2>2 DEF FinalizerInv, Candidate, IsPrevious, Up
  <2> QED BY <2>6, <2>8, <2>9, <2>10, <2>11 DEF FinalizerInv
<1> QED BY <1>1, <1>2 DEF MakeBackup

\* The pulse that becomes the top sync pulse is the one last backed up.
LEMMA SyncFinalizer ==
    ASSUME Backuper = "badger", TypeInv, FinalizerInv, NEW q \in Procs, UpdateTopSyncPulse(q)
    PROVE  FinalizerInv'
<1>1. CASE Fatal(q, "sync")
  BY <1>1, FatalFinalizer
<1>2. CASE ~Fatal(q, "sync")
  <2>1. /\ Goto(q, "sync", "check")
        /\ top' = IF CheckPulseConsistency(fin[q], TRUE) THEN fin[q] ELSE top
        /\ UNCHANGED <<info, storage, process, msg, fin, network>>
    BY <1>2 DEF UpdateTopSyncPulse
  <2>2. UNCHANGED <<fin, pulses, lastPulse, status, lastBackuped>>
    BY <2>1 DEF storage, process, network
  <2>3. CASE top' = top
    BY <2>1, <2>2, <2>3, BeyondBackup DEF PastBackup
  <2>4. CASE top' # top
    <3>1. top' = fin[q] /\ IsPrevious(top, fin[q])
      BY <2>1, <2>4 DEF CheckPulseConsistency
    <3>2. /\ Up
          /\ pc[q] = "sync"
          /\ \A r \in Procs : pc'[r] = IF r = q THEN "check" ELSE pc[r]
      BY <2>1, GotoType DEF TypeInv, Goto, PCs
    <3>3. /\ \A r \in Procs : fin[r] \in Int
          /\ lastBackuped \in Int /\ top \in Int
          /\ \A p \in pulses : p \in Int
      BY BoundsAssumption DEF TypeInv, TypeOK, Pulses
    <3>4. top < fin[q] /\ fin[q] <= lastBackuped
      BY <3>1, <3>2 DEF FinalizerInv, Covered, PastBackup, IsPrevious
    <3>5. lastBackuped = fin[q]
      BY <3>1, <3>2, <3>3, <3>4 DEF FinalizerInv, BackupsAreOrdered, IsPrevious, Up
    <3>6. Covered' /\ OneFinalizer'
      BY <2>2, <3>2 DEF FinalizerInv, Covered, OneFinalizer, PastBackup
    <3>7. QuietRollback' /\ TopBackuped' /\ BackupsAreOrdered' /\ PulsesKnown'
      BY <2>2, <3>1, <3>2, <3>3, <3>5
      DEF FinalizerInv, QuietRollback, TopBackuped, BackupsAreOrdered, PulsesKnown, Up
    <3>8. Candidate'
      <4> SUFFICES ASSUME NEW r \in Procs, pc'[r] = "backup"
                   PROVE  fin'[r] <= top'
        BY DEF Candidate
      <4>1. pc[r] = "backup"
        BY <3>2
      <4>2. IsPrevious(top, fin[r]) \/ fin[r] <= top
        BY <3>2, <4>1 DEF FinalizerInv, Candidate, Up
      <4> QED BY <2>2, <3>1, <3>3, <3>4, <4>2 DEF IsPrevious
    <3> QED BY <3>6, <3>7, <3>8 DEF FinalizerInv
  <2> QED BY <2>3, <2>4
<1> QED BY <1>1, <1>2

\* No step of a goroutine lets a second one finalize the same pulse.
LEMMA StepFinalizer ==
    ASSUME Backuper = "badger", TypeInv, FinalizerInv, NEW q \in Procs, Step(q)
    PROVE  FinalizerInv'
<1>f. ASSUME NEW here, Finish(q, here)
      PROVE  /\ Goto(q, here, "idle")
             /\ \A r \in Procs : r # q => fin'[r] = fin[r]
  BY <1>f DEF Finish, TypeInv, TypeOK
<1>p. /\ {"idle", "drop", "tree", "finalize", "next"} \subseteq PCs \ (PastBackup \cup {"backup"})
      /\ {"lock", "sync", "check", "index"} = PastBackup
  BY DEF PCs, PastBackup
<1> USE DEF keeper, storage, process, network
<1>1. CASE StoreDrop(q)
  BY <1>1, <1>p, BeforeBackup DEF StoreDrop
<1>2. CASE AddDropConfirmation(q)
  BY <1>2, <1>p, BeforeBackup, FatalFinalizer DEF AddDropConfirmation
<1>3. CASE UpdateJets(q)
  BY <1>3, <1>p, BeforeBackup DEF UpdateJets
<1>4. CASE AddHotConfirmation(q)
  BY <1>4, <1>p, BeforeBackup, FatalFinalizer DEF AddHotConfirmation
<1>5. CASE CheckConfirms(q)
  BY <1>5, <1>f, <1>p, BeforeBackup, FatalFinalizer DEF CheckConfirms
<1>6. CASE CheckNextTop(q)
  <2>1. CASE Finish(q, "next")
    BY <1>6, <1>f, <1>p, <2>1, BeforeBackup DEF CheckNextTop
  <2>2. CASE IsPrevious(top, fin[q]) /\ Goto(q, "next", "backup") /\ UNCHANGED <<msg, fin>>
    <3>1. UNCHANGED <<fin, top, pulses, lastPulse, status, lastBackuped>>
      BY <1>6, <2>2 DEF CheckNextTop
    <3>2. Up /\ \A r \in Procs : pc'[r] = IF r = q THEN "backup" ELSE pc[r]
      BY <2>2, GotoType DEF TypeInv, Goto, PCs
    <3>3. Covered' /\ OneFinalizer'
      BY <3>1, <3>2 DEF FinalizerInv, Covered, OneFinalizer, PastBackup
    <3>4. QuietRollback' /\ TopBackuped' /\ BackupsAreOrdered' /\ PulsesKnown'
      BY <3>1, <3>2 DEF FinalizerInv, QuietRollback, TopBackuped, BackupsAreOrdered,
                        PulsesKnown, IsPrevious, Up
    <3>5. Candidate'
      BY <2>2, <3>1, <3>2 DEF FinalizerInv, Candidate, IsPrevious, Up
    <3> QED BY <3>3, <3>4, <3>5 DEF FinalizerInv
  <2> QED BY <1>6, <2>1, <2>2 DEF CheckNextTop
<1>7. CASE MakeBackup(q)
  BY <1>7, BackupFinalizer
<1>8. CASE AddBackupConfirmation(q)
  BY <1>8, <1>p, BeyondBackup, FatalFinalizer DEF AddBackupConfirmation
<1>9. CASE UpdateTopSyncPulse(q)
  BY <1>9, SyncFinalizer
<1>10. CASE CheckNewTop(q)
  BY <1>10, <1>p, BeyondBackup, FatalFinalizer DEF CheckNewTop
<1>11. CASE UpdateLastKnownPulse(q)
  <2>1. PICK there \in {"finalize", "idle"} : Goto(q, "index", there)
    BY <1>11 DEF UpdateLastKnownPulse, Finish
  <2>2. \A r \in Procs : r # q => fin'[r] = fin[r]
    BY <1>11 DEF UpdateLastKnownPulse, Finish, TypeInv, TypeOK
  <2>3. UNCHANGED <<top, pulses, lastPulse, status, lastBackuped>>
    BY <1>11 DEF UpdateLastKnownPulse
  <2> QED BY <1>p, <2>1, <2>2, <2>3, BeforeBackup
<1> QED
  BY <1>1, <1>2, <1>3, <1>4, <1>5, <1>6, <1>7, <1>8, <1>9, <1>10, <1>11 DEF Step

\* FinalizerInv is inductive with the Badger backend.
LEMMA NextFinalizer ==
    Backuper = "badger" /\ TypeInv /\ FinalizerInv /\ [Next]_vars => FinalizerInv'
<1> SUFFICES ASSUME Backuper = "badger", TypeInv, FinalizerInv, [Next]_vars
             PROVE  FinalizerInv'
  OBVIOUS
<1> USE DEF FinalizerInv
<1>1. ASSUME NEW S \in SUBSET Jets, NewPulse(S) PROVE FinalizerInv'
  <2>1. /\ pulses' = pulses \cup {lastPulse + 1}
        /\ lastPulse' = lastPulse + 1
        /\ Up /\ status' \in {"up", "down"}
        /\ UNCHANGED <<top, lastBackuped, pc, fin>>
    BY <1>1 DEF NewPulse, keeper
  <2>2. lastPulse \in Int /\ top \in Int /\ \A p \in pulses : p \in Int
    BY BoundsAssumption DEF TypeInv, TypeOK, Pulses
  <2>3. \A p \in pulses : p < lastPulse + 1
    BY <2>2 DEF PulsesKnown
  <2>4. \A p : IsPrevious(top, p) => IsPrevious(top, p)'
    BY <2>1, <2>2, <2>3 DEF IsPrevious
  <2>5. Covered' /\ OneFinalizer' /\ QuietRollback' /\ TopBackuped'
    BY <2>1 DEF Covered, OneFinalizer, QuietRollback, TopBackuped, PastBackup, Up
  <2>6. BackupsAreOrdered'
    BY <2>1, <2>4 DEF BackupsAreOrdered, Up
  <2>7. Candidate'
    BY <2>1, <2>4 DEF Candidate, Up
  <2>8. PulsesKnown'
    BY <2>1, <2>2, <2>3 DEF PulsesKnown
  <2> QED BY <2>5, <2>6, <2>7, <2>8
<1>2. ASSUME NEW q \in Procs, NEW m \in inbox, Receive(q, m) PROVE FinalizerInv'
  <2>1. PICK there \in {"store", "hot"} : Goto(q, "idle", there)
    BY <1>2 DEF Receive
  <2>2. there \in PCs /\ there \notin PastBackup /\ there # "backup"
    BY DEF PCs, PastBackup
  <2>3. \A r \in Procs : r # q => fin'[r] = fin[r]
    BY <1>2 DEF Receive, TypeInv, TypeOK
  <2>4. UNCHANGED <<top, pulses, lastPulse, status, lastBackuped>>
    BY <1>2 DEF Receive, keeper, storage, process
  <2> QED BY <2>1, <2>2, <2>3, <2>4, BeforeBackup
<1>3. ASSUME NEW q \in Procs, Step(q) PROVE FinalizerInv'
  BY <1>3, StepFinalizer
<1>4. ASSUME NEW n \in {"down", "rollback"}, Stop(n) PROVE FinalizerInv'
  BY <1>4 DEF Stop, storage, Covered, OneFinalizer, QuietRollback, TopBackuped,
              BackupsAreOrdered, PulsesKnown, PastBackup
<1>5. CASE Crash
  BY <1>4, <1>5 DEF Crash
<1>6. CASE Restart
  BY <1>4, <1>6 DEF Restart
<1>7. CASE TruncateHead
  BY <1>7 DEF TruncateHead, network, Covered, OneFinalizer, QuietRollback, TopBackuped,
              BackupsAreOrdered, PulsesKnown, PastBackup
<1>8. CASE StartComponents
  <2>1. top \in Int
    BY BoundsAssumption DEF TypeInv, TypeOK, Pulses
  <2> QED
    BY <1>8, <2>1 DEF StartComponents, keeper, storage, network, Covered, OneFinalizer,
        QuietRollback, TopBackuped, BackupsAreOrdered, Candidate, PulsesKnown, PastBackup
<1>9. CASE UNCHANGED vars
  BY <1>9 DEF vars, keeper, storage, process, network, Covered, OneFinalizer, QuietRollback,
              TopBackuped, BackupsAreOrdered, Candidate, PulsesKnown, PastBackup, IsPrevious
<1> QED
  BY <1>1, <1>2, <1>3, <1>5, <1>6, <1>7, <1>8, <1>9 DEF Next

\* With the Badger backend no two goroutines finalize the same pulse: of all
\* those that pass shouldStartFinalization together, the memory of
\* BackupMakerDefault lets one through.
THEOREM FinalizerIsUnique == Backuper = "badger" => (Spec => []OneFinalizer)
<1> SUFFICES ASSUME Backuper = "badger" PROVE Spec => []OneFinalizer
  OBVIOUS
<1>1. Init => TypeInv /\ FinalizerInv
  BY InitType, InitFinalizer
<1>2. (TypeInv /\ FinalizerInv) /\ [Next]_vars => (TypeInv /\ FinalizerInv)'
  BY NextType, NextFinalizer
<1>3. TypeInv /\ FinalizerInv => OneFinalizer
  BY DEF FinalizerInv
<1> QED BY <1>1, <1>2, <1>3, PTL DEF Spec

\* Backups are taken in pulse order and at most one pulse ahead of the top
\* sync pulse, through any number of crashes.
THEOREM BackupsStayOrdered == Spec => []BackupsAreOrdered
<1>1. CASE Backuper = "badger"
  <2>1. Init => TypeInv /\ FinalizerInv
    BY InitType, InitFinalizer
  <2>2. (TypeInv /\ FinalizerInv) /\ [Next]_vars => (TypeInv /\ FinalizerInv)'
    BY <1>1, NextType, NextFinalizer
  <2>3. TypeInv /\ FinalizerInv => BackupsAreOrdered
    BY DEF FinalizerInv
  <2> QED BY <2>1, <2>2, <2>3, PTL DEF Spec
<1>2. CASE Backuper # "badger"
  <2>1. BackupsAreOrdered
    BY <1>2 DEF BackupsAreOrdered
  <2> QED BY <2>1, PTL
<1> QED BY <1>1, <1>2

-----------------------------------------------------------------------------
(* One goroutine at a time is between AddBackupConfirmation and the end of *)
(* its step.                                                               *)

Finalizing == {"sync", "check", "index"}

\* finalizationLock excludes.
LockInv ==
    \A q, r \in Procs : pc[q] \in Finalizing /\ pc[r] \in Finalizing => q = r

\* Who tells the index storage tells it the top sync pulse.
IndexInv == \A q \in Procs : pc[q] = "index" => fin[q] = top

\* The rollback of the indexes tells them the top sync pulse as well.
RollbackIndexInv == status = "rollback" /\ truncated >= 2 => lastKnown = top

FollowInv == LockInv /\ IndexInv /\ QuietRollback /\ RollbackIndexInv /\ IndexFollowsTop
\* A step that moves one goroutine, and neither into nor within the part
\* that the lock protects, touches neither the top sync pulse nor the index.
LEMMA OutsideLock ==
    ASSUME TypeInv, FollowInv, NEW q \in Procs, NEW here, NEW there \in PCs \ Finalizing,
           Goto(q, here, there), here \notin Finalizing,
           \A r \in Procs : r # q => fin'[r] = fin[r],
           UNCHANGED <<top, lastKnown, status, truncated>>
    PROVE  FollowInv'
<1>1. Up /\ pc[q] = here /\ \A r \in Procs : pc'[r] = IF r = q THEN there ELSE pc[r]
  BY GotoType DEF TypeInv, Goto
<1>2. LockInv' /\ QuietRollback' /\ RollbackIndexInv'
  BY <1>1 DEF FollowInv, LockInv, QuietRollback, RollbackIndexInv, Finalizing, Up
<1>3. IndexInv' /\ IndexFollowsTop'
  BY <1>1 DEF FollowInv, IndexInv, IndexFollowsTop, Finalizing
<1> QED BY <1>2, <1>3 DEF FollowInv

\* A goroutine that kills the node leaves the index as it is.
LEMMA FatalFollows ==
    ASSUME FollowInv, NEW q \in Procs, NEW here, Fatal(q, here)
    PROVE  FollowInv'
<1>1. status' = "fatal" /\ UNCHANGED <<pc, fin, top, lastKnown, truncated>>
  BY DEF Fatal, keeper, storage
<1> QED BY <1>1 DEF FollowInv, LockInv, IndexInv, QuietRollback, RollbackIndexInv,
                    IndexFollowsTop, Finalizing

\* No step of a goroutine leaves the index storage behind.
LEMMA StepFollows ==
    ASSUME TypeInv, FollowInv, NEW q \in Procs, Step(q)
    PROVE  FollowInv'
<1>f. ASSUME NEW here, Finish(q, here)
      PROVE  /\ Goto(q, here, "idle")
             /\ \A r \in Procs : r # q => fin'[r] = fin[r]
  BY <1>f DEF Finish, TypeInv, TypeOK
<1>p. /\ {"idle", "drop", "tree", "finalize", "next", "backup", "lock"} \subseteq PCs \ Finalizing
      /\ {"store", "hot"} \cap Finalizing = {}
      /\ {"sync", "check", "index"} \subseteq PCs
  BY DEF PCs, Finalizing
<1>g. ASSUME NEW here, NEW there \in PCs, Goto(q, here, there)
      PROVE  Up /\ pc[q] = here /\ \A r \in Procs : pc'[r] = IF r = q THEN there ELSE pc[r]
  BY <1>g, GotoType DEF TypeInv, Goto
<1> USE DEF keeper, storage, process
<1>1. CASE StoreDrop(q)
  BY <1>1, <1>p, OutsideLock DEF StoreDrop
<1>2. CASE AddDropConfirmation(q)
  BY <1>2, <1>p, OutsideLock, FatalFollows DEF AddDropConfirmation
<1>3. CASE UpdateJets(q)
  BY <1>3, <1>p, OutsideLock DEF UpdateJets
<1>4. CASE AddHotConfirmation(q)
  BY <1>4, <1>p, OutsideLock, FatalFollows DEF AddHotConfirmation
<1>5. CASE CheckConfirms(q)
  BY <1>5, <1>f, <1>p, OutsideLock, FatalFollows DEF CheckConfirms
<1>6. CASE CheckNextTop(q)
  BY <1>6, <1>f, <1>p, OutsideLock DEF CheckNextTop
<1>7. CASE MakeBackup(q)
  BY <1>7, <1>f, <1>p, OutsideLock DEF MakeBackup
<1>8. CASE AddBackupConfirmation(q)
  <2>1. CASE Fatal(q, "lock")
    BY <2>1, FatalFollows
  <2>2. CASE ~Fatal(q, "lock")
    <3>1. Goto(q, "lock", "sync") /\ UNCHANGED <<top, lastKnown, status, truncated, fin>>
      BY <1>8, <2>2 DEF AddBackupConfirmation
    <3>2. Up /\ pc[q] = "lock" /\ \A r \in Procs : pc'[r] = IF r = q THEN "sync" ELSE pc[r]
      BY <1>g, <1>p, <3>1
    <3>3. \A r \in Procs : pc[r] \notin Finalizing
      BY <1>8 DEF AddBackupConfirmation, FinalizationFree, Finalizing
    <3>4. LockInv' /\ IndexInv'
      BY <3>2, <3>3 DEF LockInv, IndexInv, Finalizing
    <3>5. QuietRollback' /\ RollbackIndexInv' /\ IndexFollowsTop'
      BY <3>1, <3>2, <3>3 DEF FollowInv, QuietRollback, RollbackIndexInv, IndexFollowsTop,
                              Finalizing, Up
    <3> QED BY <3>4, <3>5 DEF FollowInv
  <2> QED BY <2>1, <2>2
<1>9. CASE UpdateTopSyncPulse(q)
  <2>1. CASE Fatal(q, "sync")
    BY <2>1, FatalFollows
  <2>2. CASE ~Fatal(q, "sync")
    <3>1. /\ Goto(q, "sync", "check") /\ UNCHANGED <<lastKnown, status, truncated, fin>>
          /\ top' = fin[q] \/ top' = top
      BY <1>9, <2>2 DEF UpdateTopSyncPulse
    <3>2. Up /\ pc[q] = "sync" /\ \A r \in Procs : pc'[r] = IF r = q THEN "check" ELSE pc[r]
      BY <1>g, <1>p, <3>1
    <3>3. \A r \in Procs : r # q => pc[r] \notin Finalizing
      BY <3>2 DEF FollowInv, LockInv, Finalizing
    <3>4. LockInv' /\ IndexInv'
      BY <3>2, <3>3 DEF LockInv, IndexInv, Finalizing
    <3>5. QuietRollback' /\ RollbackIndexInv'
      BY <3>1, <3>2 DEF QuietRollback, RollbackIndexInv, Up
    <3>6. IndexFollowsTop'
      <4>1. CASE top' = fin[q]
        BY <3>1, <3>2, <4>1 DEF IndexFollowsTop
      <4>2. CASE top' = top
        BY <3>1, <3>2, <3>3, <4>2 DEF FollowInv, IndexFollowsTop, Finalizing, Up
      <4> QED BY <3>1, <4>1, <4>2
    <3> QED BY <3>4, <3>5, <3>6 DEF FollowInv
  <2> QED BY <2>1, <2>2
<1>10. CASE CheckNewTop(q)
  <2>1. CASE Fatal(q, "check")
    BY <2>1, FatalFollows
  <2>2. CASE ~Fatal(q, "check")
    <3>1. /\ Goto(q, "check", "index") /\ UNCHANGED <<top, lastKnown, status, truncated, fin>>
          /\ fin[q] = top
      BY <1>10, <2>2 DEF CheckNewTop
    <3>2. Up /\ pc[q] = "check" /\ \A r \in Procs : pc'[r] = IF r = q THEN "index" ELSE pc[r]
      BY <1>g, <1>p, <3>1
    <3>3. \A r \in Procs : r # q => pc[r] \notin Finalizing
      BY <3>2 DEF FollowInv, LockInv, Finalizing
    <3>4. LockInv' /\ IndexInv'
      BY <3>1, <3>2, <3>3 DEF LockInv, IndexInv, Finalizing
    <3>5. QuietRollback' /\ RollbackIndexInv' /\ IndexFollowsTop'
      BY <3>1, <3>2 DEF QuietRollback, RollbackIndexInv, IndexFollowsTop, Up
    <3> QED BY <3>4, <3>5 DEF FollowInv
  <2> QED BY <2>1, <2>2
<1>11. CASE UpdateLastKnownPulse(q)
  <2>1. PICK there \in {"finalize", "idle"} : Goto(q, "index", there)
    BY <1>11, <1>f DEF UpdateLastKnownPulse
  <2>2. there \in PCs \ Finalizing
    BY <1>p
  <2>3. Up /\ pc[q] = "index" /\ \A r \in Procs : pc'[r] = IF r = q THEN there ELSE pc[r]
    BY <1>g, <2>1, <2>2
  <2>4. lastKnown' = fin[q] /\ UNCHANGED <<top, status, truncated>>
    BY <1>11 DEF UpdateLastKnownPulse
  <2>5. \A r \in Procs : pc'[r] \notin Finalizing
    BY <2>2, <2>3 DEF FollowInv, LockInv, Finalizing
  <2>6. fin[q] = top
    BY <2>3 DEF FollowInv, IndexInv
  <2>7. LockInv' /\ IndexInv'
    BY <2>5 DEF LockInv, IndexInv, Finalizing
  <2>8. QuietRollback' /\ RollbackIndexInv' /\ IndexFollowsTop'
    BY <2>3, <2>4, <2>6 DEF QuietRollback, RollbackIndexInv, IndexFollowsTop, Up
  <2> QED BY <2>7, <2>8 DEF FollowInv
<1> QED
  BY <1>1, <1>2, <1>3, <1>4, <1>5, <1>6, <1>7, <1>8, <1>9, <1>10, <1>11 DEF Step

\* FollowInv holds when the node starts.
LEMMA InitFollows == Init => FollowInv
BY DEF Init, FollowInv, LockInv, IndexInv, QuietRollback, RollbackIndexInv,
       IndexFollowsTop, Finalizing

\* FollowInv is inductive, with either backend.
LEMMA NextFollows == TypeInv /\ FollowInv /\ [Next]_vars => FollowInv'
<1> SUFFICES ASSUME TypeInv, FollowInv, [Next]_vars PROVE FollowInv'
  OBVIOUS
<1>1. ASSUME NEW S \in SUBSET Jets, NewPulse(S) PROVE FollowInv'
  <2>1. Up /\ status' \in {"up", "down"} /\ UNCHANGED <<pc, fin, top, lastKnown>>
    BY <1>1 DEF NewPulse, keeper
  <2> QED BY <2>1 DEF FollowInv, LockInv, IndexInv, QuietRollback, RollbackIndexInv,
                      IndexFollowsTop, Finalizing, Up
<1>2. ASSUME NEW q \in Procs, NEW m \in inbox, Receive(q, m) PROVE FollowInv'
  <2>1. PICK there \in {"store", "hot"} : Goto(q, "idle", there)
    BY <1>2 DEF Receive
  <2>2. there \in PCs \ Finalizing /\ "idle" \notin Finalizing
    BY DEF PCs, Finalizing
  <2>3. \A r \in Procs : r # q => fin'[r] = fin[r]
    BY <1>2 DEF Receive, TypeInv, TypeOK
  <2>4. UNCHANGED <<top, lastKnown, status, truncated>>
    BY <1>2 DEF Receive, keeper, storage, process
  <2> QED BY <2>1, <2>2, <2>3, <2>4, OutsideLock
<1>3. ASSUME NEW q \in Procs, Step(q) PROVE FollowInv'
  BY <1>3, StepFollows
<1>4. ASSUME NEW n \in {"down", "rollback"}, Stop(n) PROVE FollowInv'
  <2>1. status' = n /\ truncated' = 0 /\ \A q \in Procs : pc'[q] = "idle"
    BY <1>4 DEF Stop
  <2> QED BY <2>1 DEF FollowInv, LockInv, IndexInv, QuietRollback, RollbackIndexInv,
                      IndexFollowsTop, Finalizing
<1>5. CASE Crash
  BY <1>4, <1>5 DEF Crash
<1>6. CASE Restart
  BY <1>4, <1>6 DEF Restart
<1>7. CASE TruncateHead
  <2>1. /\ status = "rollback" /\ truncated' = truncated + 1
        /\ lastKnown' = (IF truncated = 1 THEN top ELSE lastKnown)
        /\ UNCHANGED <<status, pc, fin, top>>
    BY <1>7 DEF TruncateHead
  <2>2. truncated \in Nat
    BY DEF TypeInv, TypeOK
  <2>3. RollbackIndexInv'
    BY <2>1, <2>2 DEF FollowInv, RollbackIndexInv
  <2> QED BY <2>1, <2>3 DEF FollowInv, LockInv, IndexInv, QuietRollback, IndexFollowsTop, Finalizing
<1>8. CASE StartComponents
  <2>1. /\ status = "rollback" /\ truncated = 5 /\ status' \in {"up", "fatal"}
        /\ UNCHANGED <<pc, fin, top, lastKnown>>
    BY <1>8 DEF StartComponents, keeper, storage
  <2> QED BY <2>1 DEF FollowInv, LockInv, IndexInv, QuietRollback, RollbackIndexInv,
                      IndexFollowsTop, Finalizing
<1>9. CASE UNCHANGED vars
  <2>1. UNCHANGED <<status, truncated, pc, fin, top, lastKnown>>
    BY <1>9 DEF vars, keeper, storage, process
  <2> QED BY <2>1 DEF FollowInv, LockInv, IndexInv, QuietRollback, RollbackIndexInv,
                      IndexFollowsTop, Finalizing
<1> QED
  BY <1>1, <1>2, <1>3, <1>5, <1>6, <1>7, <1>8, <1>9 DEF Next

\* With either backend, through any number of crashes: the index storage is
\* told of a new top sync pulse before the next one is, and never of another.
THEOREM IndexKeepsUp == Spec => []IndexFollowsTop
<1>1. Init => TypeInv /\ FollowInv
  BY InitType, InitFollows
<1>2. (TypeInv /\ FollowInv) /\ [Next]_vars => (TypeInv /\ FollowInv)'
  BY NextType, NextFollows
<1>3. TypeInv /\ FollowInv => IndexFollowsTop
  BY DEF FollowInv
<1> QED BY <1>1, <1>2, <1>3, PTL DEF Spec

-----------------------------------------------------------------------------
(* What the light nodes have sent and the heavy node has written down.     *)

\* Where a goroutine holds a message that is not in the JetKeeper yet.
Unapplied == {"store", "drop", "hot"}

\* The messages that are still to be applied.
Out == inbox \cup {msg[q] : q \in {r \in Procs : pc[r] \in Unapplied}}

\* The jet whose record a message goes into.
Owner(m) == IF m.kind = "hot" /\ m.split THEN Parent(m.jet) ELSE m.jet

\* The message is one of those of its pulse, in which the jets in S split.
Expected(m, S) ==
    /\ Owner(m) \in jetsOf[m.pulse]
    /\ m.split <=> Owner(m) \in S
    /\ m.kind = "hot" => m.jet \in Successors(Owner(m), m.split)

\* What a message brings is not there yet.
Fresh(m) ==
    IF m.kind = "drop"
      THEN ~info[m.pulse][m.jet].drop /\ m.jet \notin tree[m.pulse]
      ELSE m.jet \notin info[m.pulse][Owner(m)].hot

\* A message is in one place.
OnceInv ==
    /\ \A q \in Procs : pc[q] \in Unapplied => msg[q] \notin inbox
    /\ \A q, r \in Procs : pc[q] \in Unapplied /\ pc[r] \in Unapplied /\ msg[q] = msg[r] => q = r

FreshInv == \A m \in Out : Fresh(m) /\ m.pulse < lastPulse

\* Between AddDropConfirmation and jets.Update, and between StoreDrop and
\* AddDropConfirmation.
DropInv ==
    /\ \A q \in Procs : pc[q] \in {"store", "drop", "tree"} => q = Replicator
    /\ \A q \in Procs : pc[q] = "drop" => <<msg[q].pulse, msg[q].jet>> \in drops
    /\ \A q \in Procs : pc[q] = "tree" => /\ info[msg[q].pulse][msg[q].jet].drop
                                          /\ msg[q].jet \notin tree[msg[q].pulse]

\* A record exists once one of its parts is written.
RecordInv ==
    \A p \in Pulses, j \in Jets :
        /\ info[p][j].split = "unset" => ~info[p][j].drop /\ info[p][j].hot = {}
        /\ info[p][j].split # "unset" => p < lastPulse
        /\ info[p][j].drop /\ (status = "up" \/ p <= top) => <<p, j>> \in drops
        /\ j \in tree[p] => p < lastPulse /\ p # 0

\* All that is known of the jet agrees with what the light nodes did.
RecordAgrees(p, S) ==
    \A j \in Entries(p) :
        /\ j \in jetsOf[p]
        /\ info[p][j].split = Flag(j \in S)
        /\ info[p][j].hot \subseteq Successors(j, j \in S)

\* The next pulse of the network goes on with the jets that this one left.
Continues(p, S) ==
    status = "up" /\ p \in pulses /\ top < p /\ p < lastPulse =>
        p + 1 \in pulses /\ jetsOf[p + 1] = JetsAfter(p, S)

Split(p, S) ==
    /\ \A m \in Out : m.pulse = p => Expected(m, S)
    /\ RecordAgrees(p, S)
    /\ Continues(p, S)

SplitInv == \A p \in Pulses : \E S \in SUBSET Jets : Split(p, S)

\* The pulses, and the jets executed in them.
PulseInv ==
    /\ top \in pulses
    /\ top = 0 \/ top < lastPulse
    /\ jetsOf[0] = {}
    /\ \A p \in pulses : p <= lastPulse
    /\ status = "up" => \A p \in pulses : top < p => jetsOf[p] # {}
    /\ status = "up" => lastPulse \in pulses \/ jetsOf[lastPulse] = {}

\* The pulse after the top sync pulse begins where that one ended.
ChainInv == status = "up" => \A p \in pulses : IsPrevious(top, p) => jetsOf[p] = TopSyncJets

\* A rollback ends without anything above the top sync pulse.
RollbackInv ==
    status = "rollback" =>
        /\ jetsOf[lastPulse] = {}
        /\ truncated >= 4 => \A p \in pulses : p <= top
        /\ truncated >= 5 => \A p \in Pulses : p > top => Entries(p) = {}

\* Nothing is missing of pulse p.
Complete(p) ==
    /\ Entries(p) # {}
    /\ \A j \in Entries(p) : IsConfirmed(p, j, FALSE)
    /\ Entries(p) = LeafIDs(p)
    /\ Entries(p) = jetsOf[p]

\* Whoever has been told that its pulse can be finalized is right.
ConsistInv ==
    status = "up" =>
        \A q \in Procs :
            pc[q] \in {"next", "backup", "lock", "sync"} =>
                \/ fin[q] <= top
                \/ /\ IsPrevious(top, fin[q])
                   /\ Complete(fin[q])
                   /\ pc[q] = "sync" => \A j \in Entries(fin[q]) : info[fin[q]][j].backup

ConfirmInv ==
    /\ OnceInv /\ FreshInv /\ DropInv /\ RecordInv /\ SplitInv
    /\ QuietRollback /\ PulseInv /\ ChainInv /\ RollbackInv
    /\ FinalizedComplete /\ ConsistInv

\* With the Badger backend nobody comes too late.
AheadInv ==
    /\ status = "up" => \A q \in Procs : pc[q] \in {"lock", "sync"} => top < fin[q]
    /\ StepReachesTop
    /\ NoFatal

\* A child's parent.
LEMMA ParentOfChild ==
    ASSUME NEW j \in Jets, NEW k \in Siblings(j)
    PROVE  Parent(k) = j /\ k # Root /\ Len(k) = Len(j) + 1
<1>1. j \in Seq({0, 1}) /\ Len(j) \in Nat
  BY JetIsSeq
<1>2. PICK b \in {0, 1} : k = Append(j, b)
  BY DEF Siblings
<1>3. /\ k \in Seq({0, 1}) /\ k # << >> /\ Len(k) = Len(j) + 1
      /\ \A i \in 1 .. Len(j) : k[i] = j[i]
  BY <1>1, <1>2, AppendProperties
<1>4. Parent(k) = SubSeq(k, 1, Len(j))
  BY <1>1, <1>3 DEF Parent, Root
<1>5. \A i \in 1 .. Len(j) : j[i] \in {0, 1}
  BY <1>1, LenProperties
<1>6. \A i \in 1 .. Len(j) : k[i] \in {0, 1}
  BY <1>3, <1>5
<1>7. 1 \in Int /\ Len(j) \in Int
  BY <1>1
<1>8. /\ SubSeq(k, 1, Len(j)) \in Seq({0, 1})
      /\ Len(SubSeq(k, 1, Len(j))) = IF 1 <= Len(j) THEN Len(j) - 1 + 1 ELSE 0
      /\ \A i \in 1 .. Len(j) - 1 + 1 : SubSeq(k, 1, Len(j))[i] = k[1 + i - 1]
  BY <1>6, <1>7, SubSeqProperties
<1> DEFINE s == SubSeq(k, 1, Len(j))
<1>9. s \in Seq({0, 1}) /\ Len(s) = Len(j)
  BY <1>1, <1>8
<1>10. \A i \in 1 .. Len(s) : s[i] = j[i]
  <2> SUFFICES ASSUME NEW i \in 1 .. Len(j) PROVE s[i] = j[i]
    BY <1>9
  <2>1. i \in 1 .. Len(j) - 1 + 1 /\ 1 + i - 1 = i
    BY <1>1
  <2> QED BY <1>3, <1>8, <2>1
<1>11. s = j
  BY <1>1, <1>9, <1>10, SeqEqual
<1> QED BY <1>3, <1>4, <1>11 DEF Root

\* A jet has two children.
LEMMA TwoChildren ==
    ASSUME NEW j \in Jets
    PROVE  IsFiniteSet(Siblings(j)) /\ Cardinality(Siblings(j)) = 2
<1>1. j \in Seq({0, 1}) /\ Len(j) \in Nat
  BY JetIsSeq
<1>2. Append(j, 0)[Len(j) + 1] = 0 /\ Append(j, 1)[Len(j) + 1] = 1
  BY <1>1, AppendProperties
<1>3. Append(j, 0) # Append(j, 1)
  BY <1>2
<1>4. Siblings(j) = {Append(j, 0)} \cup {Append(j, 1)}
  BY DEF Siblings
<1>5. IsFiniteSet({Append(j, 0)}) /\ Cardinality({Append(j, 0)}) = 1
  BY FS_Singleton
<1> DEFINE one == {Append(j, 0)}
           x == Append(j, 1)
<1>6. x \notin one /\ IsFiniteSet(one) /\ Cardinality(one) = 1 /\ Siblings(j) = one \cup {x}
  BY <1>3, <1>4, <1>5
<1> HIDE DEF one, x
<1>7. /\ IsFiniteSet(one \cup {x})
      /\ Cardinality(one \cup {x}) = IF x \in one THEN Cardinality(one) ELSE Cardinality(one) + 1
  BY <1>6, FS_AddElement
<1> QED BY <1>6, <1>7

\* Confirmations of what continues a jet: two are all there are after a
\* split, and there is room in the record for one that is missing.
LEMMA HotFacts ==
    ASSUME NEW j \in Jets, NEW b \in BOOLEAN, NEW hot \in SUBSET Successors(j, b)
    PROVE  /\ IsFiniteSet(hot) /\ Cardinality(hot) \in Nat
           /\ b /\ Cardinality(hot) = 2 => hot = Siblings(j)
           /\ \A k \in Successors(j, b) : k \notin hot => Cardinality(hot) < 2
<1> DEFINE all == Successors(j, b)
<1>1. IsFiniteSet(all) /\ Cardinality(all) \in {1, 2} /\ (b => all = Siblings(j) /\ Cardinality(all) = 2)
  <2>1. CASE b
    BY <2>1, TwoChildren DEF Successors
  <2>2. CASE ~b
    BY <2>2, FS_Singleton DEF Successors
  <2> QED BY <2>1, <2>2
<1> HIDE DEF all
<1>2. /\ IsFiniteSet(hot) /\ Cardinality(hot) <= Cardinality(all)
      /\ Cardinality(all) = Cardinality(hot) => all = hot
  BY <1>1, FS_Subset DEF all
<1>3. Cardinality(hot) \in Nat
  BY <1>2, FS_CardinalityType
<1>4. b /\ Cardinality(hot) = 2 => hot = Siblings(j)
  BY <1>1, <1>2
<1>5. ASSUME NEW k \in all, k \notin hot PROVE Cardinality(hot) < 2
  <2>1. hot # all
    BY <1>5
  <2> QED BY <1>1, <1>2, <1>3, <2>1
<1> QED BY <1>2, <1>3, <1>4, <1>5 DEF all

\* What the types say of messages and records.
LEMMA OutFacts ==
    ASSUME TypeInv
    PROVE  \A m \in Out : /\ m \in Message /\ m.pulse \in Pulses /\ m.jet \in Jets
                          /\ m.split \in BOOLEAN /\ m.kind \in {"drop", "hot"}
                          /\ Owner(m) \in Jets
<1> SUFFICES ASSUME NEW m \in Out
             PROVE  /\ m \in Message /\ m.pulse \in Pulses /\ m.jet \in Jets
                    /\ m.split \in BOOLEAN /\ m.kind \in {"drop", "hot"}
                    /\ Owner(m) \in Jets
  OBVIOUS
<1>1. m \in Message
  BY DEF Out, Unapplied, TypeInv, TypeOK, MessagesFit, Working
<1>2. m.pulse \in Pulses /\ m.jet \in Jets /\ m.split \in BOOLEAN /\ m.kind \in {"drop", "hot"}
  BY <1>1 DEF Message
<1>3. Owner(m) \in Jets
  BY <1>2, ParentIsJet DEF Owner
<1> QED BY <1>1, <1>2, <1>3

\* Nothing is to come for a pulse that has everything: a confirmation that
\* was late would have to bring what is there already.
LEMMA NothingPending ==
    ASSUME TypeInv, FreshInv, DropInv, RecordInv, SplitInv, NEW p \in Pulses, Complete(p)
    PROVE  /\ \A m \in Out : m.pulse # p
           /\ \A q \in Procs : pc[q] = "tree" => msg[q].pulse # p
<1>1. PICK S \in SUBSET Jets : Split(p, S)
  BY DEF SplitInv
<1>2. ASSUME NEW m \in Out, m.pulse = p PROVE FALSE
  <2>1. /\ m.jet \in Jets /\ m.split \in BOOLEAN /\ m.kind \in {"drop", "hot"}
        /\ Owner(m) \in Jets
    BY OutFacts
  <2>2. Expected(m, S) /\ Fresh(m)
    BY <1>1, <1>2 DEF Split, FreshInv
  <2>3. Owner(m) \in Entries(p)
    BY <1>2, <2>2 DEF Expected, Complete
  <2> DEFINE j == Owner(m)
             i == info[p][j]
  <2>4. /\ i.drop /\ i.hot # {}
        /\ i.split = "no" => j \in i.hot
        /\ i.split = "yes" => Cardinality(i.hot) = 2
    BY <2>3 DEF Complete, IsConfirmed
  <2>5. i.split = Flag(j \in S) /\ i.hot \subseteq Successors(j, j \in S) /\ (m.split <=> j \in S)
    BY <1>1, <2>2, <2>3 DEF Split, RecordAgrees, Expected
  <2>6. CASE m.kind = "drop"
    BY <1>2, <2>2, <2>4, <2>6 DEF Fresh, Owner
  <2>7. CASE m.kind = "hot" /\ ~m.split
    <3>1. i.split = "no" /\ j = m.jet
      BY <2>5, <2>7 DEF Flag, Owner
    <3> QED BY <1>2, <2>2, <2>4, <2>7, <3>1 DEF Fresh
  <2>8. CASE m.kind = "hot" /\ m.split
    <3>1. i.split = "yes" /\ i.hot \subseteq Successors(j, TRUE) /\ m.jet \in Successors(j, TRUE)
      BY <2>2, <2>5, <2>8 DEF Flag, Expected, Successors
    <3>2. i.hot = Siblings(j)
      BY <2>1, <2>4, <3>1, HotFacts
    <3>3. m.jet \in i.hot
      BY <3>1, <3>2 DEF Successors
    <3> QED BY <1>2, <2>2, <2>8, <3>3 DEF Fresh
  <2> QED BY <2>1, <2>6, <2>7, <2>8
<1>3. ASSUME NEW q \in Procs, pc[q] = "tree", msg[q].pulse = p PROVE FALSE
  <2>1. info[p][msg[q].jet].drop /\ msg[q].jet \notin tree[p]
    BY <1>3 DEF DropInv
  <2>2. msg[q].jet \in Jets
    BY <1>3 DEF TypeInv, MessagesFit, Working, Message
  <2>3. msg[q].jet \in Entries(p)
    BY <2>1, <2>2 DEF RecordInv, Entries
  <2> QED BY <2>1, <2>3 DEF Complete, LeafIDs
<1> QED BY <1>2, <1>3

\* A finalized pulse has everything.
LEMMA FinalizedIsComplete ==
    ASSUME FinalizedComplete, NEW p \in Finalized
    PROVE  Complete(p)
<1>1. \A j \in Entries(p) : IsConfirmed(p, j, FALSE)
  <2> SUFFICES ASSUME NEW j \in Entries(p) PROVE IsConfirmed(p, j, FALSE)
    OBVIOUS
  <2>1. IsConfirmed(p, j, TRUE)
    BY DEF FinalizedComplete
  <2> QED BY <2>1 DEF IsConfirmed
<1> QED BY <1>1 DEF FinalizedComplete, Complete

\* What is said of a pulse depends on what is stored for it.
LEMMA PulseFrame ==
    ASSUME NEW p \in Pulses,
           info'[p] = info[p], tree'[p] = tree[p], jetsOf'[p] = jetsOf[p]
    PROVE  /\ Entries(p)' = Entries(p)
           /\ LeafIDs(p)' = LeafIDs(p)
           /\ \A j \in Jets, b \in BOOLEAN : IsConfirmed(p, j, b) => IsConfirmed(p, j, b)'
           /\ Complete(p) => Complete(p)'
<1>1. Entries(p)' = Entries(p)
  BY DEF Entries
<1>2. LeafIDs(p)' = LeafIDs(p)
  BY DEF LeafIDs
<1>3. \A j \in Jets, b \in BOOLEAN : IsConfirmed(p, j, b) => IsConfirmed(p, j, b)'
  BY DEF IsConfirmed
<1>4. \A j \in Entries(p) : j \in Jets
  BY DEF Entries
<1> QED BY <1>1, <1>2, <1>3, <1>4 DEF Complete

\* The jets that the top sync pulse leaves depend on its records only.
LEMMA TopJetsFrame ==
    ASSUME top' = top, top = 0 \/ info'[top] = info[top]
    PROVE  TopSyncJets' = TopSyncJets
BY DEF TopSyncJets, Entries

\* A step that leaves the keeper, the jet trees and the pulses alone, or
\* kills the node.
LEMMA StorageFrame ==
    ASSUME TypeInv, RecordInv, PulseInv, ChainInv, RollbackInv, FinalizedComplete,
           UNCHANGED <<info, top, tree, pulses, jetsOf, lastPulse, truncated>>,
           drops \subseteq drops', status' \in {status, "fatal"}
    PROVE  RecordInv' /\ PulseInv' /\ ChainInv' /\ RollbackInv' /\ FinalizedComplete'
<1>1. RecordInv'
  BY DEF RecordInv
<1>2. PulseInv'
  BY DEF PulseInv
<1>3. TopSyncJets' = TopSyncJets
  BY TopJetsFrame
<1>4. ChainInv'
  BY <1>3 DEF ChainInv, IsPrevious
<1>5. RollbackInv'
  BY DEF RollbackInv, Entries
<1>6. \A p \in Pulses : /\ Entries(p)' = Entries(p) /\ LeafIDs(p)' = LeafIDs(p)
                        /\ \A j \in Jets : IsConfirmed(p, j, TRUE) => IsConfirmed(p, j, TRUE)'
  BY PulseFrame
<1>7. FinalizedComplete'
  <2> SUFFICES ASSUME NEW p \in Finalized
               PROVE  /\ Entries(p)' # {}
                      /\ \A j \in Entries(p)' : IsConfirmed(p, j, TRUE)' /\ <<p, j>> \in drops'
                      /\ Entries(p)' = LeafIDs(p)'
                      /\ Entries(p)' = jetsOf'[p]
    BY DEF FinalizedComplete, Finalized
  <2>1. p \in Pulses /\ \A j \in Entries(p) : j \in Jets
    BY DEF Finalized, Entries, TypeInv, TypeOK
  <2> QED BY <1>6, <2>1 DEF FinalizedComplete
<1> QED BY <1>1, <1>2, <1>4, <1>5, <1>7

\* A step that sends nothing and writes nothing down.
LEMMA SplitFrame ==
    ASSUME SplitInv, UNCHANGED <<info, top, pulses, jetsOf, lastPulse>>,
           status' \in {status, "fatal"}, Out' \subseteq Out
    PROVE  SplitInv'
<1> SUFFICES ASSUME NEW p \in Pulses, NEW S \in SUBSET Jets, Split(p, S) PROVE Split(p, S)'
  BY DEF SplitInv
<1>1. \A m \in Out' : m.pulse = p => Expected(m, S)'
  BY DEF Split, Expected
<1>2. RecordAgrees(p, S)'
  BY DEF Split, RecordAgrees, Entries
<1>3. Continues(p, S)'
  BY DEF Split, Continues, JetsAfter
<1> QED BY <1>1, <1>2, <1>3 DEF Split

\* Where a goroutine that passed HasAllJetConfirms is.
Confirmed == {"next", "backup", "lock", "sync"}

\* What such a goroutine relies on.
Relies(q) ==
    \/ fin[q] <= top
    \/ /\ IsPrevious(top, fin[q])
       /\ Complete(fin[q])
       /\ pc[q] = "sync" => \A j \in Entries(fin[q]) : info[fin[q]][j].backup

\* It goes on relying on it as long as its pulse and the top stay as they are.
LEMMA ReliesFrame ==
    ASSUME TypeInv, NEW r \in Procs, Relies(r), pc'[r] = pc[r], fin'[r] = fin[r],
           top' = top, \A x : IsPrevious(top, x) => IsPrevious(top, x)',
           \/ fin[r] <= top
           \/ /\ info'[fin[r]] = info[fin[r]]
              /\ tree'[fin[r]] = tree[fin[r]]
              /\ jetsOf'[fin[r]] = jetsOf[fin[r]]
    PROVE  Relies(r)'
<1>1. CASE fin[r] <= top
  BY <1>1 DEF Relies
<1>2. CASE ~(fin[r] <= top)
  <2>1. PICK p \in Pulses : p = fin[r]
    BY DEF TypeInv, TypeOK
  <2>2. Complete(p) /\ IsPrevious(top, p) /\ (pc[r] = "sync" => \A j \in Entries(p) : info[p][j].backup)
    BY <1>2, <2>1 DEF Relies
  <2>3. info'[p] = info[p] /\ tree'[p] = tree[p] /\ jetsOf'[p] = jetsOf[p]
    BY <1>2, <2>1
  <2>4. Complete(p)' /\ Entries(p)' = Entries(p)
    BY <2>2, <2>3, PulseFrame
  <2>5. IsPrevious(top, p)'
    BY <2>2
  <2>6. pc'[r] = "sync" => \A j \in Entries(p)' : info'[p][j].backup
    BY <2>2, <2>3, <2>4
  <2> QED BY <2>1, <2>4, <2>5, <2>6 DEF Relies
<1> QED BY <1>1, <1>2

\* A goroutine moves while all that is written down stays as it is.
LEMMA MoveConfirm ==
    ASSUME TypeInv, ConfirmInv, NEW q \in Procs, NEW here, NEW there \in PCs,
           Goto(q, here, there),
           \A r \in Procs : r # q => fin'[r] = fin[r] /\ msg'[r] = msg[r],
           \/ /\ here = "store" /\ there = "drop"
              /\ msg'[q] = msg[q] /\ <<msg[q].pulse, msg[q].jet>> \in drops'
           \/ there \notin Unapplied \cup {"tree"},
           there \in Confirmed => Relies(q)',
           drops \subseteq drops',
           UNCHANGED <<info, top, tree, pulses, jetsOf, inbox, lastPulse, status, truncated>>
    PROVE  ConfirmInv'
<1>1. Up /\ pc[q] = here /\ \A r \in Procs : pc'[r] = IF r = q THEN there ELSE pc[r]
  BY GotoType DEF TypeInv, Goto
<1>2. RecordInv' /\ PulseInv' /\ ChainInv' /\ RollbackInv' /\ FinalizedComplete'
  BY StorageFrame DEF ConfirmInv
<1>3. \A r \in Procs : pc'[r] \in Unapplied => pc[r] \in Unapplied /\ msg'[r] = msg[r]
  BY <1>1 DEF Unapplied
<1>4. Out' \subseteq Out
  BY <1>3 DEF Out
<1>5. SplitInv'
  BY <1>4, SplitFrame DEF ConfirmInv
<1>6. OnceInv'
  BY <1>3 DEF ConfirmInv, OnceInv
<1>7. FreshInv'
  BY <1>4 DEF ConfirmInv, FreshInv, Fresh
<1>8. DropInv'
  <2>1. \A r \in Procs : r # q => pc'[r] = pc[r] /\ msg'[r] = msg[r]
    BY <1>1
  <2>2. pc'[q] \in {"store", "drop", "tree"} => /\ pc[q] = "store" /\ pc'[q] = "drop"
                                                /\ msg'[q] = msg[q]
                                                /\ <<msg[q].pulse, msg[q].jet>> \in drops'
    BY <1>1 DEF Unapplied
  <2> QED BY <2>1, <2>2 DEF ConfirmInv, DropInv
<1>9. QuietRollback'
  BY <1>1 DEF QuietRollback, Up
<1>10. ConsistInv'
  <2> SUFFICES ASSUME NEW r \in Procs, pc'[r] \in Confirmed PROVE Relies(r)'
    BY DEF ConsistInv, Confirmed, Relies
  <2>1. CASE r = q
    BY <1>1, <2>1
  <2>2. CASE r # q
    <3>1. Relies(r) /\ pc'[r] = pc[r]
      BY <1>1, <2>2 DEF ConfirmInv, ConsistInv, Confirmed, Relies, Up
    <3>2. \A x : IsPrevious(top, x) => IsPrevious(top, x)'
      BY DEF IsPrevious
    <3> QED BY <2>2, <3>1, <3>2, ReliesFrame
  <2> QED BY <2>1, <2>2
<1> QED BY <1>2, <1>5, <1>6, <1>7, <1>8, <1>9, <1>10 DEF ConfirmInv

\* A goroutine that kills the node, and a step that changes nothing here.
LEMMA StillConfirm ==
    ASSUME TypeInv, ConfirmInv, status' \in {status, "fatal"},
           UNCHANGED <<info, top, tree, drops, pulses, jetsOf, inbox, lastPulse, truncated, pc, msg, fin>>
    PROVE  ConfirmInv'
<1>1. RecordInv' /\ PulseInv' /\ ChainInv' /\ RollbackInv' /\ FinalizedComplete'
  BY StorageFrame DEF ConfirmInv
<1>2. Out' = Out
  BY DEF Out
<1>3. SplitInv'
  BY <1>2, SplitFrame DEF ConfirmInv
<1>4. OnceInv' /\ DropInv' /\ QuietRollback'
  BY DEF ConfirmInv, OnceInv, DropInv, QuietRollback
<1>5. FreshInv'
  BY <1>2 DEF ConfirmInv, FreshInv, Fresh
<1>6. ConsistInv'
  <2> SUFFICES ASSUME status' = "up", NEW r \in Procs, pc'[r] \in Confirmed PROVE Relies(r)'
    BY DEF ConsistInv, Confirmed, Relies
  <2>1. Relies(r)
    BY DEF ConfirmInv, ConsistInv, Confirmed, Relies
  <2>2. \A x : IsPrevious(top, x) => IsPrevious(top, x)'
    BY DEF IsPrevious
  <2> QED BY <2>1, <2>2, ReliesFrame
<1> QED BY <1>1, <1>3, <1>4, <1>5, <1>6 DEF ConfirmInv

\* A message reaches its goroutine.
LEMMA ReceiveConfirm ==
    ASSUME TypeInv, ConfirmInv, NEW q \in Procs, NEW m \in inbox, Receive(q, m)
    PROVE  ConfirmInv'
<1>1. PICK there \in {"store", "hot"} : Goto(q, "idle", there) /\ (there = "store" => q = Replicator)
  BY DEF Receive
<1>2. Up /\ pc[q] = "idle" /\ \A r \in Procs : pc'[r] = IF r = q THEN there ELSE pc[r]
  <2>1. there \in PCs
    BY DEF PCs
  <2> QED BY <1>1, <2>1, GotoType DEF TypeInv, Goto
<1>3. /\ \A r \in Procs : msg'[r] = IF r = q THEN m ELSE msg[r]
      /\ \A r \in Procs : r # q => fin'[r] = fin[r]
      /\ inbox' = inbox \ {m}
      /\ UNCHANGED <<info, top, tree, drops, pulses, jetsOf, lastPulse, status, truncated>>
  BY DEF Receive, TypeInv, TypeOK, keeper, storage, process
<1>4. RecordInv' /\ PulseInv' /\ ChainInv' /\ RollbackInv' /\ FinalizedComplete'
  BY <1>3, StorageFrame DEF ConfirmInv
<1>5. Out' \subseteq Out
  BY <1>2, <1>3 DEF Out, Unapplied
<1>6. SplitInv'
  BY <1>3, <1>5, SplitFrame DEF ConfirmInv
<1>7. OnceInv'
  <2>1. \A r \in Procs : r # q => (pc'[r] \in Unapplied => pc[r] \in Unapplied /\ msg'[r] = msg[r])
    BY <1>2, <1>3
  <2>2. msg'[q] = m /\ m \notin inbox'
    BY <1>3
  <2>3. \A r \in Procs : pc[r] \in Unapplied => msg[r] # m
    BY DEF ConfirmInv, OnceInv
  <2> QED BY <1>3, <2>1, <2>2, <2>3 DEF ConfirmInv, OnceInv
<1>8. FreshInv'
  BY <1>3, <1>5 DEF ConfirmInv, FreshInv, Fresh
<1>9. DropInv'
  BY <1>1, <1>2, <1>3 DEF ConfirmInv, DropInv
<1>10. QuietRollback'
  BY <1>2, <1>3 DEF QuietRollback, Up
<1>11. ConsistInv'
  <2> SUFFICES ASSUME NEW r \in Procs, pc'[r] \in Confirmed PROVE Relies(r)'
    BY DEF ConsistInv, Confirmed, Relies
  <2>1. r # q /\ pc'[r] = pc[r] /\ fin'[r] = fin[r]
    BY <1>2, <1>3 DEF Confirmed
  <2>2. Relies(r)
    BY <1>2, <2>1 DEF ConfirmInv, ConsistInv, Confirmed, Relies, Up
  <2>3. \A x : IsPrevious(top, x) => IsPrevious(top, x)'
    BY <1>3 DEF IsPrevious
  <2> QED BY <1>3, <2>1, <2>2, <2>3, ReliesFrame
<1> QED BY <1>4, <1>6, <1>7, <1>8, <1>9, <1>10, <1>11 DEF ConfirmInv

\* What is written down for a pulse that is not complete touches no finalized
\* pulse and nobody who has passed HasAllJetConfirms.
LEMMA WriteFrame ==
    ASSUME TypeInv, ConfirmInv, NEW p \in Pulses, ~Complete(p),
           \A x \in Pulses : x # p => info'[x] = info[x] /\ tree'[x] = tree[x],
           UNCHANGED <<top, drops, pulses, jetsOf, lastPulse, status, truncated>>
    PROVE  /\ PulseInv' /\ ChainInv' /\ FinalizedComplete'
           /\ \A r \in Procs : Relies(r) /\ pc'[r] = pc[r] /\ fin'[r] = fin[r] => Relies(r)'
<1>t. top \in Pulses /\ pulses \subseteq Pulses /\ top \in Nat
  BY BoundsAssumption DEF TypeInv, TypeOK, Pulses
<1>1. PulseInv'
  BY DEF ConfirmInv, PulseInv
<1>2. \A x \in Finalized : Complete(x) /\ x # p /\ x \in Pulses
  <2>1. \A x \in Finalized : x \in Pulses
    BY <1>t DEF Finalized
  <2> QED BY <2>1, FinalizedIsComplete DEF ConfirmInv
<1>3. top = 0 \/ top \in Finalized
  BY <1>t DEF Finalized, ConfirmInv, PulseInv
<1>4. TopSyncJets' = TopSyncJets
  <2>1. top = 0 \/ info'[top] = info[top]
    BY <1>2, <1>3
  <2> QED BY <2>1, TopJetsFrame
<1>5. ChainInv'
  BY <1>4 DEF ConfirmInv, ChainInv, IsPrevious
<1>6. FinalizedComplete'
  <2> SUFFICES ASSUME NEW x \in Finalized
               PROVE  /\ Entries(x)' # {}
                      /\ \A j \in Entries(x)' : IsConfirmed(x, j, TRUE)' /\ <<x, j>> \in drops'
                      /\ Entries(x)' = LeafIDs(x)'
                      /\ Entries(x)' = jetsOf'[x]
    BY DEF FinalizedComplete, Finalized
  <2>1. x \in Pulses /\ info'[x] = info[x] /\ tree'[x] = tree[x] /\ jetsOf'[x] = jetsOf[x]
    BY <1>2
  <2>2. /\ Entries(x)' = Entries(x) /\ LeafIDs(x)' = LeafIDs(x)
        /\ \A j \in Jets : IsConfirmed(x, j, TRUE) => IsConfirmed(x, j, TRUE)'
    BY <2>1, PulseFrame
  <2>3. \A j \in Entries(x) : j \in Jets
    BY DEF Entries
  <2> QED BY <2>1, <2>2, <2>3 DEF ConfirmInv, FinalizedComplete
<1>7. ASSUME NEW r \in Procs, Relies(r), pc'[r] = pc[r], fin'[r] = fin[r] PROVE Relies(r)'
  <2>1. \A x : IsPrevious(top, x) => IsPrevious(top, x)'
    BY DEF IsPrevious
  <2>2. fin[r] \in Pulses /\ (fin[r] <= top \/ Complete(fin[r]))
    BY <1>7 DEF Relies, TypeInv, TypeOK
  <2>3. fin[r] <= top \/ fin[r] # p
    BY <2>2
  <2>4. \/ fin[r] <= top
        \/ info'[fin[r]] = info[fin[r]] /\ tree'[fin[r]] = tree[fin[r]] /\ jetsOf'[fin[r]] = jetsOf[fin[r]]
    BY <2>2, <2>3
  <2> QED BY <1>7, <2>1, <2>4, ReliesFrame
<1> QED BY <1>1, <1>5, <1>6, <1>7

\* Two messages of a pulse that bring the same are one message.
LEMMA SameMessage ==
    ASSUME TypeInv, NEW S, NEW l \in Out, NEW m \in Out, Expected(l, S), Expected(m, S),
           l.kind = m.kind, l.pulse = m.pulse, l.jet = m.jet, Owner(l) = Owner(m)
    PROVE  l = m
<1>1. /\ l \in Message /\ l.split \in BOOLEAN
      /\ m \in Message /\ m.split \in BOOLEAN
  BY OutFacts
<1>2. l.split = m.split
  BY <1>1 DEF Expected
<1> QED BY <1>1, <1>2 DEF Message

\* A confirmation is written into the record of its jet.
LEMMA RecordConfirm ==
    ASSUME TypeInv, ConfirmInv, NEW q \in Procs, NEW here \in {"drop", "hot"}, NEW there \in PCs,
           Goto(q, here, there), there \in {"tree", "finalize"}, (there = "tree") <=> (here = "drop"),
           NEW m, m = msg[q], NEW p, p = m.pulse, NEW j, j = Owner(m),
           NEW n \in JetInfo, info' = [info EXCEPT ![p][j] = n],
           n.split = Flag(m.split),
           n.drop <=> (info[p][j].drop \/ m.kind = "drop"),
           n.hot = info[p][j].hot \cup (IF m.kind = "hot" THEN {m.jet} ELSE {}),
           UNCHANGED <<top, tree, drops, pulses, jetsOf, inbox, lastPulse, status, truncated, msg, fin>>
    PROVE  ConfirmInv'
<1>1. Up /\ pc[q] = here /\ \A r \in Procs : pc'[r] = IF r = q THEN there ELSE pc[r]
  BY GotoType DEF TypeInv, Goto
<1>2. m \in Out
  BY <1>1 DEF Out, Unapplied
<1>3. /\ m \in Message /\ p \in Pulses /\ m.jet \in Jets /\ m.split \in BOOLEAN
      /\ m.kind \in {"drop", "hot"} /\ j \in Jets
  BY <1>2, OutFacts
<1>4. (m.kind = "drop") <=> (here = "drop")
  BY <1>1, <1>3 DEF TypeInv, MessagesFit, Working
<1>5. ~Complete(p)
  BY <1>2, <1>3, NothingPending DEF ConfirmInv
<1>6. \A x \in Pulses, k \in Jets : info'[x][k] = IF x = p /\ k = j THEN n ELSE info[x][k]
  BY <1>3 DEF TypeInv, TypeOK
<1>7. \A x \in Pulses : x # p => info'[x] = info[x]
  BY <1>3 DEF TypeInv, TypeOK
<1>8. /\ PulseInv' /\ ChainInv' /\ FinalizedComplete'
      /\ \A r \in Procs : Relies(r) /\ pc'[r] = pc[r] /\ fin'[r] = fin[r] => Relies(r)'
  BY <1>3, <1>5, <1>7, WriteFrame
<1>9. Out' \subseteq Out /\ m \notin Out'
  <2>1. \A r \in Procs : pc'[r] \in Unapplied => r # q /\ pc[r] \in Unapplied
    BY <1>1 DEF Unapplied
  <2>2. m \notin inbox /\ \A r \in Procs : r # q /\ pc[r] \in Unapplied => msg[r] # m
    BY <1>1 DEF ConfirmInv, OnceInv, Unapplied
  <2> QED BY <2>1, <2>2 DEF Out
<1>10. Flag(m.split) \in {"yes", "no"}
  BY DEF Flag
<1>11. p < lastPulse /\ Fresh(m)
  BY <1>2 DEF ConfirmInv, FreshInv
<1>12. n.drop => <<p, j>> \in drops \/ ~(status = "up" \/ p <= top)
  <2>1. CASE m.kind = "drop"
    BY <1>1, <1>4, <2>1 DEF ConfirmInv, DropInv, Owner
  <2>2. CASE m.kind # "drop"
    BY <1>3, <2>2 DEF ConfirmInv, RecordInv
  <2> QED BY <2>1, <2>2
<1>13. RecordInv'
  <2> SUFFICES ASSUME NEW x \in Pulses, NEW k \in Jets
               PROVE  /\ info'[x][k].split = "unset" => ~info'[x][k].drop /\ info'[x][k].hot = {}
                      /\ info'[x][k].split # "unset" => x < lastPulse
                      /\ info'[x][k].drop /\ (status = "up" \/ x <= top) => <<x, k>> \in drops
                      /\ k \in tree[x] => x < lastPulse /\ x # 0
    BY DEF RecordInv
  <2>1. RecordInv
    BY DEF ConfirmInv
  <2>2. CASE x = p /\ k = j
    <3>1. info'[x][k] = n
      BY <1>6, <2>2
    <3>2. k \in tree[x] => x < lastPulse /\ x # 0
      BY <2>1 DEF RecordInv
    <3> QED BY <1>10, <1>11, <1>12, <2>2, <3>1, <3>2
  <2>3. CASE ~(x = p /\ k = j)
    <3>1. info'[x][k] = info[x][k]
      BY <1>6, <2>3
    <3> QED BY <2>1, <3>1 DEF RecordInv
  <2> QED BY <2>2, <2>3
<1>14. \A x \in Pulses : x # p => Entries(x)' = Entries(x)
  BY <1>7 DEF Entries
<1>15. Entries(p)' = Entries(p) \cup {j}
  BY <1>3, <1>6, <1>10 DEF Entries
<1>16. SplitInv'
  <2> SUFFICES ASSUME NEW x \in Pulses, NEW S \in SUBSET Jets, Split(x, S) PROVE Split(x, S)'
    BY DEF ConfirmInv, SplitInv
  <2>1. \A l \in Out' : l.pulse = x => Expected(l, S)'
    BY <1>9 DEF Split, Expected
  <2>2. Continues(x, S)'
    BY DEF Split, Continues, JetsAfter
  <2>3. CASE x # p
    <3>1. RecordAgrees(x, S)'
      BY <1>7, <1>14, <2>3 DEF Split, RecordAgrees
    <3> QED BY <2>1, <2>2, <3>1 DEF Split
  <2>4. CASE x = p
    <3>1. /\ j \in jetsOf[p] /\ (m.split <=> j \in S)
          /\ m.kind = "hot" => m.jet \in Successors(j, m.split)
      BY <1>2, <2>4 DEF Split, Expected
    <3>2. info[p][j].hot \subseteq Successors(j, j \in S)
      <4>1. CASE j \in Entries(p)
        BY <2>4, <4>1 DEF Split, RecordAgrees
      <4>2. CASE j \notin Entries(p)
        BY <1>3, <4>2 DEF Entries, ConfirmInv, RecordInv
      <4> QED BY <4>1, <4>2
    <3>3. n.hot \subseteq Successors(j, j \in S)
      BY <3>1, <3>2 DEF Successors
    <3>4. n.split = Flag(j \in S)
      BY <3>1 DEF Flag
    <3>5. \A k \in Entries(p) : k \in Jets
      BY DEF Entries
    <3>6. RecordAgrees(p, S)'
      <4> SUFFICES ASSUME NEW k \in Entries(p) \cup {j}
                   PROVE  /\ k \in jetsOf[p]
                          /\ info'[p][k].split = Flag(k \in S)
                          /\ info'[p][k].hot \subseteq Successors(k, k \in S)
        BY <1>15 DEF RecordAgrees
      <4>1. CASE k = j
        BY <1>3, <1>6, <3>1, <3>3, <3>4, <4>1
      <4>2. CASE k # j
        <5>1. k \in Entries(p) /\ info'[p][k] = info[p][k]
          BY <1>3, <1>6, <3>5, <4>2
        <5> QED BY <2>4, <5>1 DEF Split, RecordAgrees
      <4> QED BY <4>1, <4>2
    <3> QED BY <2>1, <2>2, <2>4, <3>6 DEF Split
  <2> QED BY <2>3, <2>4
<1>17. FreshInv'
  <2> SUFFICES ASSUME NEW l \in Out' PROVE Fresh(l)' /\ l.pulse < lastPulse'
    BY DEF FreshInv
  <2>1. l \in Out /\ l # m /\ Fresh(l) /\ l.pulse < lastPulse
    BY <1>9 DEF ConfirmInv, FreshInv
  <2>2. l.pulse \in Pulses /\ l.jet \in Jets /\ Owner(l) \in Jets /\ l.kind \in {"drop", "hot"}
    BY <2>1, OutFacts
  <2>3. ASSUME l.pulse = p, Owner(l) = j, l.kind = m.kind, l.jet = m.jet PROVE FALSE
    <3>1. PICK S \in SUBSET Jets : Split(p, S)
      BY <1>3 DEF ConfirmInv, SplitInv
    <3>2. Expected(l, S) /\ Expected(m, S)
      BY <1>2, <2>1, <2>3, <3>1 DEF Split
    <3> QED BY <1>2, <2>1, <2>3, <3>2, SameMessage
  <2>4. CASE l.kind = "drop"
    <3>1. Owner(l) = l.jet /\ ~info[l.pulse][l.jet].drop /\ l.jet \notin tree[l.pulse]
      BY <2>1, <2>4 DEF Owner, Fresh
    <3>2. CASE l.pulse = p /\ l.jet = j
      <4>1. m.kind = "hot"
        BY <1>3, <2>3, <2>4, <3>1, <3>2 DEF Owner
      <4>2. ~info'[p][j].drop
        BY <1>3, <1>6, <3>1, <3>2, <4>1
      <4> QED BY <2>1, <2>4, <3>1, <3>2, <4>2 DEF Fresh
    <3>3. CASE ~(l.pulse = p /\ l.jet = j)
      <4>1. info'[l.pulse][l.jet] = info[l.pulse][l.jet]
        BY <1>6, <2>2, <3>3
      <4> QED BY <2>1, <2>4, <3>1, <4>1 DEF Fresh
    <3> QED BY <3>2, <3>3
  <2>5. CASE l.kind = "hot"
    <3>1. l.jet \notin info[l.pulse][Owner(l)].hot
      BY <2>1, <2>5 DEF Fresh
    <3>2. l.jet \notin info'[l.pulse][Owner(l)].hot
      <4>1. CASE l.pulse = p /\ Owner(l) = j
        <5>1. l.jet \notin n.hot
          BY <2>3, <2>5, <3>1, <4>1
        <5> QED BY <1>3, <1>6, <4>1, <5>1
      <4>2. CASE ~(l.pulse = p /\ Owner(l) = j)
        <5>1. info'[l.pulse][Owner(l)] = info[l.pulse][Owner(l)]
          BY <1>6, <2>2, <4>2
        <5> QED BY <3>1, <5>1
      <4> QED BY <4>1, <4>2
    <3> QED BY <2>1, <2>5, <3>2 DEF Fresh
  <2> QED BY <2>2, <2>4, <2>5
<1>18. OnceInv'
  BY <1>1 DEF ConfirmInv, OnceInv, Unapplied
<1>19. DropInv'
  <2>1. \A r \in Procs : r # q => pc'[r] = pc[r]
    BY <1>1
  <2>2. CASE here = "hot"
    <3>1. \A r \in Procs : pc'[r] \in {"store", "drop", "tree"} => r # q /\ pc'[r] = pc[r]
      BY <1>1, <2>1, <2>2
    <3>2. ASSUME NEW r \in Procs, pc[r] = "tree"
          PROVE  info'[msg[r].pulse][msg[r].jet].drop
      <4>1. msg[r].pulse \in Pulses /\ msg[r].jet \in Jets
        BY <3>2 DEF TypeInv, MessagesFit, Working, Message
      <4>2. info[msg[r].pulse][msg[r].jet].drop
        BY <3>2 DEF ConfirmInv, DropInv
      <4> QED BY <1>6, <4>1, <4>2
    <3> QED BY <3>1, <3>2 DEF ConfirmInv, DropInv
  <2>3. CASE here = "drop"
    <3>1. q = Replicator /\ \A r \in Procs : pc'[r] \in {"store", "drop", "tree"} => r = q
      BY <1>1, <2>3 DEF ConfirmInv, DropInv
    <3>2. m.kind = "drop" /\ j = m.jet
      BY <1>4, <2>3 DEF Owner
    <3>3. info'[p][m.jet].drop
      BY <1>3, <1>6, <3>2
    <3>4. m.jet \notin tree[p]
      BY <1>11, <3>2 DEF Fresh
    <3>5. pc'[q] = "tree"
      BY <1>1, <2>3
    <3> QED BY <3>1, <3>3, <3>4, <3>5 DEF DropInv
  <2> QED BY <2>2, <2>3
<1>20. QuietRollback' /\ RollbackInv'
  BY <1>1 DEF QuietRollback, RollbackInv, Up
<1>21. ConsistInv'
  <2> SUFFICES ASSUME NEW r \in Procs, pc'[r] \in Confirmed PROVE Relies(r)'
    BY DEF ConsistInv, Confirmed, Relies
  <2>1. r # q /\ pc'[r] = pc[r]
    BY <1>1 DEF Confirmed
  <2>2. Relies(r)
    BY <1>1, <2>1 DEF ConfirmInv, ConsistInv, Confirmed, Relies, Up
  <2> QED BY <1>8, <2>1, <2>2
<1> QED BY <1>8, <1>13, <1>16, <1>17, <1>18, <1>19, <1>20, <1>21 DEF ConfirmInv

\* The jet goes into the tree of its pulse.
LEMMA TreeConfirm ==
    ASSUME TypeInv, ConfirmInv, NEW q \in Procs, UpdateJets(q)
    PROVE  ConfirmInv'
<1> DEFINE m == msg[q]
<1>1. /\ Goto(q, "tree", "finalize")
      /\ tree' = [tree EXCEPT ![m.pulse] = @ \cup {m.jet}]
      /\ UNCHANGED <<info, top, drops, pulses, jetsOf, inbox, lastPulse, status, truncated, msg, fin>>
  BY DEF UpdateJets, keeper, process, network
<1>2. Up /\ pc[q] = "tree" /\ \A r \in Procs : pc'[r] = IF r = q THEN "finalize" ELSE pc[r]
  <2>1. "finalize" \in PCs
    BY DEF PCs
  <2> QED BY <1>1, <2>1, GotoType DEF TypeInv, Goto
<1>3. m.pulse \in Pulses /\ m.jet \in Jets
  BY <1>2 DEF TypeInv, MessagesFit, Working, Message
<1>4. ~Complete(m.pulse)
  BY <1>2, <1>3, NothingPending DEF ConfirmInv
<1>5. \A x \in Pulses : tree'[x] = IF x = m.pulse THEN tree[x] \cup {m.jet} ELSE tree[x]
  BY <1>1, <1>3 DEF TypeInv, TypeOK
<1>6. /\ PulseInv' /\ ChainInv' /\ FinalizedComplete'
      /\ \A r \in Procs : Relies(r) /\ pc'[r] = pc[r] /\ fin'[r] = fin[r] => Relies(r)'
  BY <1>1, <1>3, <1>4, <1>5, WriteFrame
<1>7. \A r \in Procs : pc'[r] \in Unapplied => pc[r] \in Unapplied
  BY <1>2 DEF Unapplied
<1>8. Out' \subseteq Out
  BY <1>1, <1>7 DEF Out
<1>9. SplitInv'
  BY <1>1, <1>8, SplitFrame DEF ConfirmInv
<1>10. info[m.pulse][m.jet].drop /\ q = Replicator
  BY <1>2 DEF ConfirmInv, DropInv
<1>11. m.pulse < lastPulse /\ m.pulse # 0
  <2>1. info[m.pulse][m.jet].split # "unset"
    BY <1>3, <1>10 DEF ConfirmInv, RecordInv
  <2>2. m.jet \in jetsOf[m.pulse]
    <3>1. PICK S \in SUBSET Jets : Split(m.pulse, S)
      BY <1>3 DEF ConfirmInv, SplitInv
    <3> QED BY <1>3, <2>1, <3>1 DEF Split, RecordAgrees, Entries
  <2> QED BY <1>3, <2>1, <2>2 DEF ConfirmInv, RecordInv, PulseInv
<1>12. RecordInv'
  <2> SUFFICES ASSUME NEW x \in Pulses, NEW k \in Jets, k \in tree'[x]
               PROVE  x < lastPulse /\ x # 0
    BY <1>1 DEF ConfirmInv, RecordInv
  <2> QED BY <1>5, <1>11 DEF ConfirmInv, RecordInv
<1>13. FreshInv'
  <2> SUFFICES ASSUME NEW l \in Out' PROVE Fresh(l)' /\ l.pulse < lastPulse'
    BY DEF FreshInv
  <2>1. l \in Out /\ Fresh(l) /\ l.pulse < lastPulse /\ l.pulse \in Pulses
    BY <1>8, OutFacts DEF ConfirmInv, FreshInv
  <2>2. CASE l.kind = "drop"
    <3>1. ~info[l.pulse][l.jet].drop /\ l.jet \notin tree[l.pulse]
      BY <2>1, <2>2 DEF Fresh
    <3>2. l.jet \notin tree'[l.pulse]
      BY <1>5, <1>10, <2>1, <3>1
    <3> QED BY <1>1, <2>1, <2>2, <3>1, <3>2 DEF Fresh
  <2>3. CASE l.kind # "drop"
    BY <1>1, <2>1, <2>3 DEF Fresh
  <2> QED BY <2>2, <2>3
<1>14. OnceInv'
  BY <1>1, <1>7 DEF ConfirmInv, OnceInv
<1>15. DropInv'
  <2>1. \A r \in Procs : pc[r] \in {"store", "drop", "tree"} => r = q
    BY <1>10 DEF ConfirmInv, DropInv
  <2>2. \A r \in Procs : pc'[r] \notin {"store", "drop", "tree"}
    BY <1>2, <2>1
  <2> QED BY <2>2 DEF DropInv
<1>16. QuietRollback' /\ RollbackInv'
  BY <1>1, <1>2 DEF QuietRollback, RollbackInv, Up
<1>17. ConsistInv'
  <2> SUFFICES ASSUME NEW r \in Procs, pc'[r] \in Confirmed PROVE Relies(r)'
    BY DEF ConsistInv, Confirmed, Relies
  <2>1. r # q /\ pc'[r] = pc[r]
    BY <1>2 DEF Confirmed
  <2>2. Relies(r)
    BY <1>2, <2>1 DEF ConfirmInv, ConsistInv, Confirmed, Relies, Up
  <2> QED BY <1>1, <1>6, <2>1, <2>2
<1> QED BY <1>6, <1>9, <1>12, <1>13, <1>14, <1>15, <1>16, <1>17 DEF ConfirmInv

\* Two states that tell a pulse apart by its backup flags only.
LEMMA BackupFrame ==
    ASSUME TypeInv, NEW p \in Pulses, tree'[p] = tree[p], jetsOf'[p] = jetsOf[p],
           \A j \in Jets : /\ info'[p][j].drop = info[p][j].drop
                           /\ info'[p][j].hot = info[p][j].hot
                           /\ info'[p][j].split = info[p][j].split
                           /\ info[p][j].backup => info'[p][j].backup
    PROVE  /\ Entries(p)' = Entries(p)
           /\ LeafIDs(p)' = LeafIDs(p)
           /\ \A j \in Jets, b \in BOOLEAN : IsConfirmed(p, j, b) => IsConfirmed(p, j, b)'
           /\ Complete(p) => Complete(p)'
<1>1. Entries(p)' = Entries(p)
  BY DEF Entries
<1>2. LeafIDs(p)' = LeafIDs(p)
  BY DEF LeafIDs
<1>3. \A j \in Jets, b \in BOOLEAN : IsConfirmed(p, j, b) => IsConfirmed(p, j, b)'
  BY DEF IsConfirmed
<1>4. \A j \in Entries(p) : j \in Jets
  BY DEF Entries
<1> QED BY <1>1, <1>2, <1>3, <1>4 DEF Complete

\* The backup of a pulse is written down.
LEMMA BackupConfirm ==
    ASSUME TypeInv, ConfirmInv, NEW q \in Procs, AddBackupConfirmation(q)
    PROVE  ConfirmInv'
<1>f. CASE Fatal(q, "lock")
  BY <1>f, StillConfirm DEF Fatal, keeper, storage, network
<1>n. CASE ~Fatal(q, "lock")
  <2> DEFINE p == fin[q]
  <2>1. /\ Goto(q, "lock", "sync")
        /\ info' = [info EXCEPT ![p] = [j \in Jets |-> IF j \in Entries(p)
                                          THEN [info[p][j] EXCEPT !.backup = TRUE]
                                          ELSE info[p][j]]]
        /\ UNCHANGED <<top, storage, process, msg, fin, network>>
    BY <1>n DEF AddBackupConfirmation
  <2>2. UNCHANGED <<top, tree, drops, pulses, jetsOf, inbox, lastPulse, status, truncated, msg, fin>>
    BY <2>1 DEF storage, process, network
  <2>3. Up /\ pc[q] = "lock" /\ \A r \in Procs : pc'[r] = IF r = q THEN "sync" ELSE pc[r]
    <3>1. "sync" \in PCs
      BY DEF PCs
    <3> QED BY <2>1, <3>1, GotoType DEF TypeInv, Goto
  <2>4. p \in Pulses
    BY DEF TypeInv, TypeOK
  <2>5. \A x \in Pulses, j \in Jets :
            /\ info'[x][j].drop = info[x][j].drop
            /\ info'[x][j].hot = info[x][j].hot
            /\ info'[x][j].split = info[x][j].split
            /\ info[x][j].backup => info'[x][j].backup
            /\ x = p /\ j \in Entries(p) => info'[x][j].backup
    <3>1. ASSUME NEW i \in JetInfo
          PROVE  LET n == [i EXCEPT !.backup = TRUE]
                 IN  n.drop = i.drop /\ n.hot = i.hot /\ n.split = i.split /\ n.backup
      BY DEF JetInfo
    <3>2. \A x \in Pulses, j \in Jets :
             info'[x][j] = IF x = p /\ j \in Entries(p) THEN [info[x][j] EXCEPT !.backup = TRUE]
                                                         ELSE info[x][j]
      BY <2>1, <2>4 DEF TypeInv, TypeOK
    <3>3. \A x \in Pulses, j \in Jets : info[x][j] \in JetInfo
      BY DEF TypeInv, TypeOK
    <3> QED BY <3>1, <3>2, <3>3
  <2>6. \A x \in Pulses : /\ Entries(x)' = Entries(x)
                          /\ LeafIDs(x)' = LeafIDs(x)
                          /\ \A j \in Jets, b \in BOOLEAN : IsConfirmed(x, j, b) => IsConfirmed(x, j, b)'
                          /\ Complete(x) => Complete(x)'
    BY <2>2, <2>5, BackupFrame
  <2> HIDE DEF p
  <2>e. \A x \in Pulses : Entries(x) \subseteq Jets
    BY DEF Entries
  <2>t. top \in Pulses /\ pulses \subseteq Pulses
    BY DEF TypeInv, TypeOK
  <2>7. \A r \in Procs : pc'[r] \in Unapplied => pc[r] \in Unapplied
    BY <2>3 DEF Unapplied
  <2>8. Out' \subseteq Out
    BY <2>2, <2>7 DEF Out
  <2>9. SplitInv'
    <3> SUFFICES ASSUME NEW x \in Pulses, NEW S \in SUBSET Jets, Split(x, S) PROVE Split(x, S)'
      BY DEF ConfirmInv, SplitInv
    <3>1. \A l \in Out' : l.pulse = x => Expected(l, S)'
      BY <2>2, <2>8 DEF Split, Expected
    <3>2. Continues(x, S)'
      BY <2>2 DEF Split, Continues, JetsAfter
    <3>3. RecordAgrees(x, S)'
      BY <2>2, <2>5, <2>6, <2>e DEF Split, RecordAgrees
    <3> QED BY <3>1, <3>2, <3>3 DEF Split
  <2>10. RecordInv' /\ PulseInv'
    BY <2>2, <2>5 DEF ConfirmInv, RecordInv, PulseInv
  <2>11. TopSyncJets' = TopSyncJets
    <3>1. \A j \in Entries(top) : info'[top][j].split = info[top][j].split
      BY <2>5, <2>e, <2>t
    <3> QED BY <2>2, <2>6, <2>t, <3>1 DEF TopSyncJets
  <2>12. ChainInv'
    BY <2>2, <2>11 DEF ConfirmInv, ChainInv, IsPrevious
  <2>13. QuietRollback' /\ RollbackInv'
    BY <2>2, <2>3 DEF QuietRollback, RollbackInv, Up
  <2>14. FinalizedComplete'
    <3> SUFFICES ASSUME NEW x \in Finalized
                 PROVE  /\ Entries(x)' # {}
                        /\ \A j \in Entries(x)' : IsConfirmed(x, j, TRUE)' /\ <<x, j>> \in drops'
                        /\ Entries(x)' = LeafIDs(x)'
                        /\ Entries(x)' = jetsOf'[x]
      BY <2>2 DEF FinalizedComplete, Finalized
    <3>1. x \in Pulses
      BY <2>t DEF Finalized
    <3> QED BY <2>2, <2>6, <2>e, <3>1 DEF ConfirmInv, FinalizedComplete
  <2>15. OnceInv'
    BY <2>2, <2>7 DEF ConfirmInv, OnceInv
  <2>16. FreshInv'
    <3> SUFFICES ASSUME NEW l \in Out' PROVE Fresh(l)' /\ l.pulse < lastPulse'
      BY DEF FreshInv
    <3>1. l.pulse \in Pulses /\ l.jet \in Jets /\ Owner(l) \in Jets /\ Fresh(l) /\ l.pulse < lastPulse
      BY <2>8, OutFacts DEF ConfirmInv, FreshInv
    <3> QED BY <2>2, <2>5, <3>1 DEF Fresh
  <2>17. DropInv'
    <3>1. \A r \in Procs : pc'[r] \in {"store", "drop", "tree"} => r # q /\ pc'[r] = pc[r]
      BY <2>3
    <3>2. ASSUME NEW r \in Procs, pc[r] = "tree"
          PROVE  info'[msg[r].pulse][msg[r].jet].drop
      <4>1. msg[r].pulse \in Pulses /\ msg[r].jet \in Jets
        BY <3>2 DEF TypeInv, MessagesFit, Working, Message
      <4>2. info[msg[r].pulse][msg[r].jet].drop
        BY <3>2 DEF ConfirmInv, DropInv
      <4> QED BY <2>5, <4>1, <4>2
    <3> QED BY <2>2, <3>1, <3>2 DEF ConfirmInv, DropInv
  <2>18. ConsistInv'
    <3> SUFFICES ASSUME NEW r \in Procs, pc'[r] \in Confirmed PROVE Relies(r)'
      BY DEF ConsistInv, Confirmed, Relies
    <3>1. pc[r] \in Confirmed /\ fin[r] \in Pulses /\ fin'[r] = fin[r]
      BY <2>2, <2>3 DEF Confirmed, TypeInv, TypeOK
    <3>2. Relies(r)
      BY <2>3, <3>1 DEF ConfirmInv, ConsistInv, Confirmed, Relies, Up
    <3>3. CASE fin[r] <= top
      BY <2>2, <3>1, <3>3 DEF Relies
    <3>4. CASE IsPrevious(top, fin[r]) /\ Complete(fin[r])
      <4>1. IsPrevious(top, fin[r])' /\ Complete(fin[r])'
        BY <2>2, <2>6, <3>1, <3>4 DEF IsPrevious
      <4>2. ASSUME pc'[r] = "sync", NEW j \in Entries(fin[r])
            PROVE  info'[fin[r]][j].backup
        <5>1. j \in Jets
          BY DEF Entries
        <5>2. CASE r = q
          BY <2>5, <3>1, <4>2, <5>1, <5>2 DEF p
        <5>3. CASE r # q
          <6>1. pc[r] = "sync"
            BY <2>3, <4>2, <5>3
          <6>2. FALSE
            BY <6>1 DEF AddBackupConfirmation, FinalizationFree
          <6> QED BY <6>2
        <5> QED BY <5>2, <5>3
      <4>3. pc'[r] = "sync" => \A j \in Entries(fin[r])' : info'[fin[r]][j].backup
        BY <2>6, <3>1, <4>2
      <4> QED BY <3>1, <4>1, <4>3 DEF Relies
    <3> QED BY <3>2, <3>3, <3>4 DEF Relies
  <2> QED BY <2>9, <2>10, <2>12, <2>13, <2>14, <2>15, <2>16, <2>17, <2>18 DEF ConfirmInv
<1> QED BY <1>f, <1>n

\* A pulse becomes the top sync pulse.
LEMMA TopConfirm ==
    ASSUME TypeInv, ConfirmInv, NEW q \in Procs, UpdateTopSyncPulse(q)
    PROVE  ConfirmInv'
<1>f. CASE Fatal(q, "sync")
  BY <1>f, StillConfirm DEF Fatal, keeper, storage, network
<1>n. CASE ~Fatal(q, "sync")
  <2>1. /\ Goto(q, "sync", "check")
        /\ top' = IF CheckPulseConsistency(fin[q], TRUE) THEN fin[q] ELSE top
        /\ UNCHANGED <<info, storage, process, msg, fin, network>>
    BY <1>n DEF UpdateTopSyncPulse
  <2>2. UNCHANGED <<info, tree, drops, pulses, jetsOf, inbox, lastPulse, status, truncated, msg, fin>>
    BY <2>1 DEF storage, process, network
  <2>p. "check" \in PCs /\ "check" \notin Unapplied \cup {"tree"} \cup Confirmed
    BY DEF PCs, Unapplied, Confirmed
  <2>3. CASE top' = top
    BY <2>1, <2>2, <2>3, <2>p, MoveConfirm
  <2>4. CASE CheckPulseConsistency(fin[q], TRUE)
    <3>1. PICK p \in Pulses : p = fin[q]
      BY DEF TypeInv, TypeOK
    <3>2. /\ top' = p /\ IsPrevious(top, p) /\ Entries(p) # {}
          /\ \A j \in Entries(p) : IsConfirmed(p, j, TRUE)
          /\ Entries(p) = TopSyncJets /\ Entries(p) = LeafIDs(p)
      BY <2>1, <2>4, <3>1 DEF CheckPulseConsistency
    <3>3. Up /\ pc[q] = "sync" /\ \A r \in Procs : pc'[r] = IF r = q THEN "check" ELSE pc[r]
      BY <2>1, <2>p, GotoType DEF TypeInv, Goto
    <3>t. /\ top \in Nat /\ p \in Nat /\ lastPulse \in Nat /\ top < p /\ p \in pulses
          /\ \A x \in pulses : x \in Nat /\ x \in Pulses
          /\ \A r \in Procs : fin[r] \in Nat
      BY <3>2, BoundsAssumption DEF TypeInv, TypeOK, Pulses, IsPrevious
    <3>4. jetsOf[p] = Entries(p)
      BY <3>2, <3>3, <3>t DEF ConfirmInv, ChainInv, Up
    <3>5. p < lastPulse
      BY <3>2 DEF Entries, ConfirmInv, RecordInv
    <3>6. \A j \in Entries(p) : j \in Jets /\ <<p, j>> \in drops
      BY <3>2, <3>3 DEF Entries, IsConfirmed, ConfirmInv, RecordInv, Up
    <3>7. RecordInv' /\ PulseInv'
      <4>1. RecordInv'
        BY <2>2, <3>3 DEF ConfirmInv, RecordInv, Up
      <4>2. \A x \in pulses : top' < x => top < x
        BY <3>2, <3>t
      <4>3. PulseInv'
        BY <2>2, <3>2, <3>5, <3>t, <4>2 DEF ConfirmInv, PulseInv
      <4> QED BY <4>1, <4>3
    <3>8. \A r \in Procs : pc'[r] \in Unapplied => pc[r] \in Unapplied
      BY <2>p, <3>3
    <3>9. Out' \subseteq Out
      BY <2>2, <3>8 DEF Out
    <3>10. SplitInv'
      <4> SUFFICES ASSUME NEW x \in Pulses, NEW S \in SUBSET Jets, Split(x, S) PROVE Split(x, S)'
        BY DEF ConfirmInv, SplitInv
      <4>1. \A l \in Out' : l.pulse = x => Expected(l, S)'
        BY <2>2, <3>9 DEF Split, Expected
      <4>2. RecordAgrees(x, S)'
        BY <2>2 DEF Split, RecordAgrees, Entries
      <4>3. Continues(x, S)'
        <5>1. x \in pulses /\ top' < x => top < x
          BY <3>2, <3>t
        <5> QED BY <2>2, <5>1 DEF Split, Continues, JetsAfter
      <4> QED BY <4>1, <4>2, <4>3 DEF Split
    <3>11. ChainInv'
      <4> SUFFICES ASSUME NEW x \in pulses, IsPrevious(p, x) PROVE jetsOf[x] = TopSyncJets'
        BY <2>2, <3>2 DEF ChainInv, IsPrevious
      <4>1. PICK S \in SUBSET Jets : Split(p, S)
        BY DEF ConfirmInv, SplitInv
      <4>2. p + 1 \in pulses /\ jetsOf[p + 1] = JetsAfter(p, S)
        BY <3>3, <3>5, <3>t, <4>1 DEF Split, Continues, Up
      <4>3. x = p + 1
        BY <3>t, <4>2 DEF IsPrevious
      <4>4. \A j \in Entries(p) : (info[p][j].split = "yes") <=> (j \in S)
        BY <4>1 DEF Split, RecordAgrees, Flag
      <4>5. TopSyncJets' = UNION {Successors(j, info[p][j].split = "yes") : j \in Entries(p)}
        <5>1. p # 0 /\ Entries(p)' = Entries(p)
          BY <2>2, <3>t DEF Entries
        <5> QED BY <2>2, <3>2, <5>1 DEF TopSyncJets
      <4>6. JetsAfter(p, S) = UNION {Successors(j, info[p][j].split = "yes") : j \in Entries(p)}
        BY <3>4, <4>4 DEF JetsAfter, Successors
      <4> QED BY <4>2, <4>3, <4>5, <4>6
    <3>12. FinalizedComplete'
      <4> SUFFICES ASSUME NEW x \in pulses, 0 < x, x <= p
                   PROVE  /\ Entries(x)' # {}
                          /\ \A j \in Entries(x)' : IsConfirmed(x, j, TRUE)' /\ <<x, j>> \in drops'
                          /\ Entries(x)' = LeafIDs(x)'
                          /\ Entries(x)' = jetsOf'[x]
        BY <2>2, <3>2 DEF FinalizedComplete, Finalized
      <4>1. x \in Pulses
        BY <3>t
      <4>2. /\ Entries(x)' = Entries(x) /\ LeafIDs(x)' = LeafIDs(x)
            /\ \A j \in Jets : IsConfirmed(x, j, TRUE) => IsConfirmed(x, j, TRUE)'
        BY <2>2, <4>1, PulseFrame
      <4>3. \A j \in Entries(x) : j \in Jets
        BY DEF Entries
      <4>4. CASE x = p
        BY <2>2, <3>2, <3>4, <3>6, <4>2, <4>4
      <4>5. CASE x # p
        <5>1. x \in Finalized
          BY <3>2, <3>t, <4>5 DEF Finalized, IsPrevious
        <5> QED BY <2>2, <4>2, <4>3, <5>1 DEF ConfirmInv, FinalizedComplete
      <4> QED BY <4>4, <4>5
    <3>13. OnceInv'
      BY <2>2, <3>8 DEF ConfirmInv, OnceInv
    <3>14. FreshInv'
      BY <2>2, <3>9 DEF ConfirmInv, FreshInv, Fresh
    <3>15. DropInv'
      BY <2>2, <3>3 DEF ConfirmInv, DropInv
    <3>16. QuietRollback' /\ RollbackInv'
      BY <2>2, <3>3 DEF QuietRollback, RollbackInv, Up
    <3>17. ConsistInv'
      <4> SUFFICES ASSUME NEW r \in Procs, pc'[r] \in Confirmed PROVE fin'[r] <= top'
        BY DEF ConsistInv, Confirmed
      <4>1. pc[r] \in Confirmed
        BY <2>p, <3>3
      <4>2. Relies(r)
        BY <3>3, <4>1 DEF ConfirmInv, ConsistInv, Confirmed, Relies, Up
      <4>3. fin[r] <= p
        <5>1. CASE fin[r] <= top
          BY <3>t, <5>1
        <5>2. CASE IsPrevious(top, fin[r])
          BY <3>2, <3>t, <5>2 DEF IsPrevious
        <5> QED BY <4>2, <5>1, <5>2 DEF Relies
      <4> QED BY <2>2, <3>2, <4>3
    <3> QED BY <3>7, <3>10, <3>11, <3>12, <3>13, <3>14, <3>15, <3>16, <3>17 DEF ConfirmInv
  <2> QED BY <2>1, <2>3, <2>4
<1> QED BY <1>f, <1>n

\* What the light nodes send agrees with what they did.
LEMMA SentFacts ==
    ASSUME NEW p \in Pulses, NEW S, jetsOf[p] \subseteq Jets, NEW m \in Sent(p, S)
    PROVE  m.pulse = p /\ Expected(m, S)
<1>1. CASE \E j \in jetsOf[p] : m = [kind |-> "drop", pulse |-> p, jet |-> j, split |-> j \in S]
  <2>1. PICK j \in jetsOf[p] : m = [kind |-> "drop", pulse |-> p, jet |-> j, split |-> j \in S]
    BY <1>1
  <2>2. m.kind = "drop" /\ m.pulse = p /\ m.jet = j /\ (m.split <=> j \in S)
    BY <2>1
  <2> QED BY <2>2 DEF Expected, Owner
<1>2. CASE \E j \in jetsOf[p] : \E k \in Successors(j, j \in S) :
               m = [kind |-> "hot", pulse |-> p, jet |-> k, split |-> j \in S]
  <2>0. PICK j \in jetsOf[p] : \E k \in Successors(j, j \in S) :
               m = [kind |-> "hot", pulse |-> p, jet |-> k, split |-> j \in S]
    BY <1>2
  <2>1. PICK k \in Successors(j, j \in S) :
               m = [kind |-> "hot", pulse |-> p, jet |-> k, split |-> j \in S]
    BY <2>0
  <2>2. m.kind = "hot" /\ m.pulse = p /\ m.jet = k /\ (m.split <=> j \in S)
    BY <2>1
  <2>3. Owner(m) = j
    <3>1. CASE j \in S
      <4>1. k \in Siblings(j)
        BY <3>1 DEF Successors
      <4> QED BY <2>2, <3>1, <4>1, ParentOfChild DEF Owner
    <3>2. CASE j \notin S
      BY <2>2, <3>2 DEF Owner, Successors
    <3> QED BY <3>1, <3>2
  <2>4. m.jet \in Successors(j, m.split)
    BY <2>2 DEF Successors
  <2> QED BY <2>2, <2>3, <2>4 DEF Expected
<1> QED BY <1>1, <1>2 DEF Sent

\* A new pulse: the light nodes end the one before it.
LEMMA NewPulseConfirm ==
    ASSUME TypeInv, ConfirmInv, NEW S \in SUBSET Jets, NewPulse(S)
    PROVE  ConfirmInv'
<1>l. PICK L \in Pulses, a \in Pulses : L = lastPulse /\ a = L + 1
  BY BoundsAssumption DEF NewPulse, TypeInv, TypeOK, Pulses
<1>1. /\ Up /\ status' \in {"up", "down"} /\ lastPulse' = a
      /\ pulses' = pulses \cup {a}
      /\ jetsOf' = [jetsOf EXCEPT ![a] = IF jetsOf[L] = {} THEN TopSyncJets ELSE JetsAfter(L, S)]
      /\ inbox' = inbox \cup Sent(L, S)
      /\ UNCHANGED <<info, top, tree, drops, truncated, pc, msg, fin>>
  BY <1>l DEF NewPulse, keeper
<1>t. /\ L \in Nat /\ L \in Pulses /\ a \in Pulses /\ a \in Nat /\ a > L /\ top \in Nat
      /\ \A x \in Pulses : x \in Nat
      /\ pulses \subseteq Pulses /\ jetsOf[L] \subseteq Jets
      /\ \A x \in pulses : x <= L
      /\ top = 0 \/ top < L
  <2>1. L \in Nat /\ L \in Pulses /\ a \in Pulses
    BY BoundsAssumption DEF Pulses
  <2>2. \A x \in Pulses : x \in Nat
    BY BoundsAssumption DEF Pulses
  <2>3. pulses \subseteq Pulses /\ jetsOf[L] \subseteq Jets /\ top \in Pulses
    BY <2>1 DEF TypeInv, TypeOK
  <2> QED BY <1>l, <2>1, <2>2, <2>3 DEF ConfirmInv, PulseInv
<1>2. \A x \in Pulses : x # a => jetsOf'[x] = jetsOf[x]
  BY <1>1, <1>t DEF TypeInv, TypeOK
<1>3. jetsOf'[a] = IF jetsOf[L] = {} THEN TopSyncJets ELSE JetsAfter(L, S)
  BY <1>1, <1>t DEF TypeInv, TypeOK
<1>4. \A m \in Sent(L, S) : m.pulse = L /\ Expected(m, S)
  BY <1>t, SentFacts
<1>5. Out' = Out \cup Sent(L, S)
  BY <1>1 DEF Out
<1>6. \A m \in Out : m.pulse \in Pulses /\ m.pulse < L
  BY <1>l, OutFacts DEF ConfirmInv, FreshInv
<1>7. Entries(L) = {} /\ tree[L] = {} /\ \A x \in Pulses : x >= L => Entries(x) = {}
  <2>0. ASSUME NEW x \in Pulses, x >= L PROVE ~(x < lastPulse)
    <3>1. x \in Nat /\ L \in Nat
      BY <1>t
    <3> QED BY <1>l, <2>0, <3>1
  <2>1. \A x \in Pulses, j \in Jets : x >= L => info[x][j].split = "unset"
    BY <2>0 DEF ConfirmInv, RecordInv
  <2>2. tree[L] \subseteq Jets
    BY <1>t DEF TypeInv, TypeOK
  <2>3. tree[L] = {}
    <3>1. ~(L < lastPulse)
      BY <1>l, <1>t, <2>0
    <3> QED BY <1>t, <2>2, <3>1 DEF ConfirmInv, RecordInv
  <2>4. \A x \in Pulses : x >= L => Entries(x) = {}
    BY <2>1 DEF Entries
  <2> QED BY <1>t, <2>3, <2>4
<1>8. OnceInv'
  <2>1. \A q \in Procs : pc[q] \in Unapplied => msg[q] \in Out
    BY DEF Out
  <2>2. \A q \in Procs : pc[q] \in Unapplied => msg[q] \notin Sent(L, S)
    BY <1>4, <1>6, <1>t, <2>1
  <2> QED BY <1>l, <1>1, <2>2 DEF ConfirmInv, OnceInv
<1>9. FreshInv'
  <2> SUFFICES ASSUME NEW m \in Out' PROVE Fresh(m)' /\ m.pulse < a
    BY <1>l, <1>1 DEF FreshInv
  <2>1. CASE m \in Out
    <3>0. m.pulse < a
      <4>1. m.pulse \in Nat /\ m.pulse < L /\ L \in Nat /\ a \in Nat /\ L < a
        BY <1>6, <1>t, <2>1
      <4> QED BY <4>1
    <3>1. Fresh(m) /\ m.pulse < a
      BY <2>1, <3>0 DEF ConfirmInv, FreshInv
    <3> QED BY <1>1, <3>1 DEF Fresh
  <2>2. CASE m \in Sent(L, S)
    <3>1. m.pulse = L /\ Expected(m, S)
      BY <1>4, <2>2
    <3>2. Owner(m) \in Jets /\ (m.kind = "drop" => Owner(m) = m.jet)
      BY <1>t, <3>1 DEF Expected, Owner
    <3>3. info[L][Owner(m)].split = "unset"
      BY <1>7, <1>t, <3>2 DEF Entries
    <3>4. ~info[L][Owner(m)].drop /\ info[L][Owner(m)].hot = {}
      BY <1>t, <3>2, <3>3 DEF ConfirmInv, RecordInv
    <3>5. Fresh(m)
      BY <1>7, <3>1, <3>2, <3>4 DEF Fresh
    <3> QED BY <1>1, <1>t, <3>1, <3>5 DEF Fresh
  <2> QED BY <1>5, <2>1, <2>2
<1>10. DropInv'
  BY <1>1 DEF ConfirmInv, DropInv
<1>11. RecordInv'
  <2>1. \A x \in Pulses : x < lastPulse => x < lastPulse'
    BY <1>l, <1>1, <1>t
  <2> QED BY <1>1, <2>1 DEF ConfirmInv, RecordInv, Up
<1>12. SplitInv'
  <2> SUFFICES ASSUME NEW x \in Pulses PROVE \E T \in SUBSET Jets : Split(x, T)'
    BY DEF SplitInv
  <2>1. \A T : RecordAgrees(x, T) => RecordAgrees(x, T)' \/ x = a
    BY <1>1, <1>2 DEF RecordAgrees, Entries
  <2>2. CASE x = L
    <3>1. \A m \in Out' : m.pulse = x => Expected(m, S)'
      <4> SUFFICES ASSUME NEW m \in Out', m.pulse = L PROVE Expected(m, S)'
        BY <2>2
      <4>1. Expected(m, S)
        BY <1>4, <1>5, <1>6, <1>t
      <4>2. jetsOf'[L] = jetsOf[L]
        BY <1>2, <1>t
      <4> QED BY <4>1, <4>2 DEF Expected
    <3>2. RecordAgrees(x, S)'
      BY <1>1, <1>7, <2>2 DEF RecordAgrees, Entries
    <3>3. Continues(x, S)'
      <4> SUFFICES ASSUME L \in pulses', top < L PROVE L + 1 \in pulses' /\ jetsOf'[L + 1] = JetsAfter(L, S)'
        BY <1>1, <2>2 DEF Continues
      <4>1. L \in pulses /\ a = L + 1
        BY <1>l, <1>1, <1>t
      <4>2. jetsOf[L] # {}
        BY <1>1, <4>1 DEF ConfirmInv, PulseInv, Up
      <4>3. JetsAfter(L, S)' = JetsAfter(L, S)
        BY <1>2, <1>t DEF JetsAfter
      <4> QED BY <1>1, <1>3, <4>1, <4>2, <4>3
    <3>4. Split(x, S)'
      BY <3>1, <3>2, <3>3 DEF Split
    <3> QED BY <3>4
  <2>3. CASE x < L
    <3>1. PICK T \in SUBSET Jets : Split(x, T)
      BY DEF ConfirmInv, SplitInv
    <3>x. x # a /\ x + 1 # a /\ (x + 1 \in Pulses) /\ x # L
      BY <1>l, <1>t, <2>3, BoundsAssumption DEF Pulses
    <3>2. \A m \in Out' : m.pulse = x => Expected(m, T)'
      <4> SUFFICES ASSUME NEW m \in Out', m.pulse = x PROVE Expected(m, T)'
        OBVIOUS
      <4>1. m \in Out
        BY <1>4, <1>5, <3>x
      <4>2. Expected(m, T)
        BY <3>1, <4>1 DEF Split
      <4>3. jetsOf'[x] = jetsOf[x]
        BY <1>2, <3>x
      <4> QED BY <4>2, <4>3 DEF Expected
    <3>3. RecordAgrees(x, T)'
      BY <2>1, <3>1, <3>x DEF Split
    <3>4. Continues(x, T)'
      <4> SUFFICES ASSUME x \in pulses', top < x PROVE x + 1 \in pulses' /\ jetsOf'[x + 1] = JetsAfter(x, T)'
        BY <1>1 DEF Continues
      <4>1. x \in pulses
        BY <1>1, <3>x
      <4>2. x + 1 \in pulses /\ jetsOf[x + 1] = JetsAfter(x, T)
        BY <1>l, <1>1, <2>3, <3>1, <4>1 DEF Split, Continues, Up
      <4>3. JetsAfter(x, T)' = JetsAfter(x, T)
        BY <1>2, <3>x DEF JetsAfter
      <4>4. jetsOf'[x + 1] = jetsOf[x + 1]
        BY <1>2, <3>x
      <4> QED BY <1>1, <4>2, <4>3, <4>4
    <3>5. Split(x, T)'
      BY <3>2, <3>3, <3>4 DEF Split
    <3> QED BY <3>5
  <2>4. CASE x > L
    <3>1. \A m \in Out' : m.pulse # x
      BY <1>4, <1>5, <1>6, <1>t, <2>4
    <3>2. Entries(x)' = {}
      BY <1>1, <1>7, <1>t, <2>4 DEF Entries
    <3>3. ~(x < lastPulse')
      BY <1>l, <1>1, <1>t, <2>4
    <3>4. Split(x, {})'
      BY <3>1, <3>2, <3>3 DEF Split, RecordAgrees, Continues
    <3> QED BY <3>4
  <2> QED BY <1>t, <2>2, <2>3, <2>4
<1>13. TopSyncJets' = TopSyncJets
  BY <1>1, TopJetsFrame
<1>14. TopSyncJets # {}
  <2>1. CASE top = 0
    BY <2>1 DEF TopSyncJets
  <2>2. CASE top # 0
    <3>1. top \in Finalized
      BY <1>t, <2>2 DEF Finalized, ConfirmInv, PulseInv
    <3>2. PICK j : j \in Entries(top)
      BY <3>1 DEF ConfirmInv, FinalizedComplete
    <3>3. Successors(j, info[top][j].split = "yes") # {}
      BY DEF Successors, Siblings
    <3> QED BY <2>2, <3>2, <3>3 DEF TopSyncJets
  <2> QED BY <2>1, <2>2
<1>15. jetsOf'[a] # {}
  <2>1. CASE jetsOf[L] = {}
    BY <1>3, <1>14, <2>1
  <2>2. CASE jetsOf[L] # {}
    <3>1. PICK j : j \in jetsOf[L]
      BY <2>2
    <3>2. Successors(j, j \in S) # {}
      BY DEF Successors, Siblings
    <3>3. JetsAfter(L, S) # {}
      BY <3>1, <3>2 DEF JetsAfter
    <3> QED BY <1>3, <2>2, <3>3
  <2> QED BY <2>1, <2>2
<1>16. PulseInv'
  <2>1. top \in pulses' /\ (top = 0 \/ top < lastPulse') /\ lastPulse' \in pulses'
    BY <1>l, <1>1, <1>t DEF ConfirmInv, PulseInv
  <2>2. jetsOf'[0] = {}
    <3>1. 0 \in Pulses /\ 0 # a
      BY <1>l, <1>t, BoundsAssumption DEF Pulses
    <3> QED BY <1>2, <3>1 DEF ConfirmInv, PulseInv
  <2>3. \A x \in pulses' : x <= lastPulse'
    BY <1>l, <1>1, <1>t
  <2>4. \A x \in pulses' : top < x => jetsOf'[x] # {}
    <3> SUFFICES ASSUME NEW x \in pulses, top < x, x # a PROVE jetsOf'[x] # {}
      BY <1>1, <1>15
    <3> QED BY <1>1, <1>2, <1>t DEF ConfirmInv, PulseInv, Up
  <2> QED BY <1>1, <2>1, <2>2, <2>3, <2>4 DEF PulseInv
<1>17. ChainInv'
  <2> SUFFICES ASSUME NEW x \in pulses', IsPrevious(top, x)' PROVE jetsOf'[x] = TopSyncJets
    BY <1>1, <1>13 DEF ChainInv, IsPrevious
  <2>1. CASE x # a
    <3>1. x \in pulses /\ x \in Pulses
      BY <1>1, <1>t, <2>1
    <3>2. IsPrevious(top, x)
      BY <1>1, <3>1 DEF IsPrevious, ConfirmInv, PulseInv
    <3> QED BY <1>1, <1>2, <2>1, <3>1, <3>2 DEF ConfirmInv, ChainInv, Up
  <2>2. CASE x = a
    <3>1. \A y \in pulses : ~(top < y /\ y < a)
      BY <1>1, <2>2 DEF IsPrevious
    <3>2. jetsOf[L] = {}
      <4>1. CASE L \in pulses
        <5>1. ~(top < L)
          BY <1>t, <3>1, <4>1
        <5>2. top = 0 /\ L = 0
          BY <1>t, <4>1, <5>1 DEF ConfirmInv, PulseInv
        <5> QED BY <5>2 DEF ConfirmInv, PulseInv
      <4>2. CASE L \notin pulses
        BY <1>l, <1>1, <4>2 DEF ConfirmInv, PulseInv, Up
      <4> QED BY <4>1, <4>2
    <3> QED BY <1>3, <2>2, <3>2
  <2> QED BY <2>1, <2>2
<1>18. QuietRollback' /\ RollbackInv'
  BY <1>1 DEF QuietRollback, RollbackInv
<1>19. FinalizedComplete'
  <2> SUFFICES ASSUME NEW x \in pulses', 0 < x, x <= top
               PROVE  /\ Entries(x)' # {}
                      /\ \A j \in Entries(x)' : IsConfirmed(x, j, TRUE)' /\ <<x, j>> \in drops'
                      /\ Entries(x)' = LeafIDs(x)'
                      /\ Entries(x)' = jetsOf'[x]
    BY <1>1 DEF FinalizedComplete, Finalized
  <2>1. x # a /\ x \in pulses /\ x \in Pulses /\ x \in Finalized
    BY <1>1, <1>t DEF Finalized
  <2>2. /\ Entries(x)' = Entries(x) /\ LeafIDs(x)' = LeafIDs(x)
        /\ \A j \in Jets : IsConfirmed(x, j, TRUE) => IsConfirmed(x, j, TRUE)'
    BY <1>1, <1>2, <2>1, PulseFrame
  <2>3. \A j \in Entries(x) : j \in Jets
    BY DEF Entries
  <2> QED BY <1>1, <1>2, <2>1, <2>2, <2>3 DEF ConfirmInv, FinalizedComplete
<1>20. ConsistInv'
  <2> SUFFICES ASSUME NEW r \in Procs, pc[r] \in Confirmed PROVE Relies(r)'
    BY <1>1 DEF ConsistInv, Confirmed, Relies
  <2>1. Relies(r)
    BY <1>1 DEF ConfirmInv, ConsistInv, Confirmed, Relies, Up
  <2>2. \A y : IsPrevious(top, y) => IsPrevious(top, y)'
    BY <1>1, <1>t DEF IsPrevious
  <2>3. fin[r] <= top \/ jetsOf'[fin[r]] = jetsOf[fin[r]]
    <3>1. fin[r] <= top \/ fin[r] \in pulses
      BY <2>1 DEF Relies, IsPrevious
    <3>2. ASSUME fin[r] \in pulses PROVE fin[r] \in Pulses /\ fin[r] # a
      <4>1. fin[r] \in Pulses /\ fin[r] \in Nat /\ fin[r] <= L
        BY <1>t, <3>2
      <4> QED BY <1>t, <4>1
    <3> QED BY <1>2, <3>1, <3>2
  <2> QED BY <1>1, <2>1, <2>2, <2>3, ReliesFrame
<1> QED BY <1>8, <1>9, <1>10, <1>11, <1>12, <1>16, <1>17, <1>18, <1>19, <1>20 DEF ConfirmInv

\* The node dies, or is started again: what the goroutines hold is gone, and
\* so is the pulse that the light nodes were in.
LEMMA StopConfirm ==
    ASSUME TypeInv, ConfirmInv, NEW n \in {"down", "rollback"}, Stop(n)
    PROVE  ConfirmInv'
<1>l. PICK L \in Pulses : L = lastPulse
  BY DEF TypeInv, TypeOK
<1>1. /\ \A q \in Procs : pc'[q] = "idle"
      /\ status' = n /\ truncated' = 0
      /\ UNCHANGED <<info, top, tree, drops, pulses, inbox, lastPulse>>
  BY DEF Stop, keeper, storage
<1>2. jetsOf'[L] = {} /\ \A x \in Pulses : x # L => jetsOf'[x] = jetsOf[x]
  BY <1>l DEF Stop, TypeInv, TypeOK
<1>t. /\ L \in Nat /\ top \in Nat /\ pulses \subseteq Pulses /\ (top = 0 \/ top < L)
      /\ \A x \in Pulses : x \in Nat
  <2>1. \A x \in Pulses : x \in Nat
    BY BoundsAssumption DEF Pulses
  <2> QED BY <1>l, <2>1 DEF TypeInv, TypeOK, ConfirmInv, PulseInv
<1>3. Out' \subseteq Out
  BY <1>1 DEF Out, Unapplied
<1>4. OnceInv' /\ DropInv' /\ QuietRollback' /\ ChainInv' /\ ConsistInv'
  BY <1>1 DEF OnceInv, DropInv, QuietRollback, ChainInv, ConsistInv, Unapplied
<1>5. FreshInv'
  BY <1>1, <1>3 DEF ConfirmInv, FreshInv, Fresh
<1>6. RecordInv'
  BY <1>1 DEF ConfirmInv, RecordInv
<1>7. SplitInv'
  <2> SUFFICES ASSUME NEW x \in Pulses, NEW S \in SUBSET Jets, Split(x, S) PROVE Split(x, S)'
    BY DEF ConfirmInv, SplitInv
  <2>1. Continues(x, S)'
    BY <1>1 DEF Continues
  <2>2. Entries(x)' = Entries(x)
    BY <1>1 DEF Entries
  <2>3. CASE x = L
    <3>1. \A m \in Out : m.pulse # L
      <4> SUFFICES ASSUME NEW m \in Out PROVE m.pulse # L
        OBVIOUS
      <4>1. m.pulse < L /\ m.pulse \in Nat
        BY <1>l, <1>t, OutFacts DEF ConfirmInv, FreshInv
      <4> QED BY <1>t, <4>1
    <3>2. Entries(L) = {}
      <4>1. ~(L < lastPulse)
        BY <1>l, <1>t
      <4> QED BY <4>1 DEF Entries, ConfirmInv, RecordInv
    <3> QED BY <1>3, <2>1, <2>2, <2>3, <3>1, <3>2 DEF Split, RecordAgrees
  <2>4. CASE x # L
    <3>1. \A m \in Out' : m.pulse = x => Expected(m, S)'
      BY <1>2, <1>3, <2>4 DEF Split, Expected
    <3>2. RecordAgrees(x, S)'
      BY <1>1, <1>2, <2>2, <2>4 DEF Split, RecordAgrees
    <3> QED BY <2>1, <3>1, <3>2 DEF Split
  <2> QED BY <2>3, <2>4
<1>8. PulseInv'
  <2>1. jetsOf'[0] = {}
    <3>1. 0 \in Pulses
      BY BoundsAssumption DEF Pulses
    <3> QED BY <1>2, <3>1 DEF ConfirmInv, PulseInv
  <2> QED BY <1>1, <2>1 DEF ConfirmInv, PulseInv
<1>9. RollbackInv'
  BY <1>1, <1>2, <1>l DEF RollbackInv
<1>10. FinalizedComplete'
  <2> SUFFICES ASSUME NEW x \in Finalized
               PROVE  /\ Entries(x)' # {}
                      /\ \A j \in Entries(x)' : IsConfirmed(x, j, TRUE)' /\ <<x, j>> \in drops'
                      /\ Entries(x)' = LeafIDs(x)'
                      /\ Entries(x)' = jetsOf'[x]
    BY <1>1 DEF FinalizedComplete, Finalized
  <2>1. x \in Pulses /\ x # L
    <3>1. x \in Pulses /\ x \in Nat /\ 0 < x /\ x <= top
      BY <1>t DEF Finalized
    <3> QED BY <1>t, <3>1
  <2>2. /\ Entries(x)' = Entries(x) /\ LeafIDs(x)' = LeafIDs(x)
        /\ \A j \in Jets : IsConfirmed(x, j, TRUE) => IsConfirmed(x, j, TRUE)'
    BY <1>1, <1>2, <2>1, PulseFrame
  <2>3. \A j \in Entries(x) : j \in Jets
    BY DEF Entries
  <2> QED BY <1>1, <1>2, <2>1, <2>2, <2>3 DEF ConfirmInv, FinalizedComplete
<1> QED BY <1>4, <1>5, <1>6, <1>7, <1>8, <1>9, <1>10 DEF ConfirmInv

\* A database is truncated above the top sync pulse.
LEMMA TruncateConfirm ==
    ASSUME TypeInv, ConfirmInv, TruncateHead
    PROVE  ConfirmInv'
<1>1. /\ status = "rollback" /\ \A q \in Procs : pc[q] = "idle"
      /\ truncated' = truncated + 1 /\ truncated \in 0 .. 4
      /\ UNCHANGED <<top, status, pc, msg, fin, jetsOf, inbox, lastPulse>>
  BY DEF TruncateHead, network, ConfirmInv, QuietRollback, TypeInv, TypeOK
<1>2. /\ drops' \subseteq drops
      /\ \A d \in drops : d[1] <= top => d \in drops'
  BY DEF TruncateHead
<1>3. /\ \A x \in Pulses : x <= top => info'[x] = info[x] /\ tree'[x] = tree[x]
      /\ \A x \in Pulses : tree'[x] \subseteq tree[x]
      /\ \A x \in Pulses : info'[x] = info[x] \/ (x > top /\ info'[x] = [j \in Jets |-> NewInfo])
      /\ truncated = 4 => \A x \in Pulses : x > top => info'[x] = [j \in Jets |-> NewInfo]
  <2>1. \A x \in Pulses : x \in Int /\ top \in Int
    BY BoundsAssumption DEF TypeInv, TypeOK, Pulses
  <2>2. /\ truncated = 2 => tree' = [p \in Pulses |-> IF p <= top THEN tree[p] ELSE {}]
        /\ truncated # 2 => tree' = tree
        /\ truncated = 4 => info' = [p \in Pulses |-> IF p <= top THEN info[p] ELSE [j \in Jets |-> NewInfo]]
        /\ truncated # 4 => info' = info
    BY DEF TruncateHead
  <2>3. \A x \in Pulses : ~(x <= top) <=> x > top
    BY <2>1
  <2> QED BY <2>2, <2>3
<1>4. /\ \A x \in pulses' : x \in pulses
      /\ top \in pulses'
      /\ truncated = 3 => \A x \in pulses' : x <= top
      /\ truncated # 3 => pulses' = pulses
  <2>1. top \in pulses /\ top <= top
    BY BoundsAssumption DEF ConfirmInv, PulseInv, TypeInv, TypeOK, Pulses
  <2> QED BY <2>1 DEF TruncateHead
<1>5. Out' = Out
  BY <1>1 DEF Out
<1>n. ~NewInfo.drop /\ NewInfo.hot = {} /\ NewInfo.split = "unset"
  BY DEF NewInfo
<1>6. OnceInv' /\ DropInv' /\ QuietRollback' /\ ChainInv' /\ ConsistInv'
  BY <1>1 DEF OnceInv, DropInv, QuietRollback, ChainInv, ConsistInv, Unapplied
<1>7. \A x \in Pulses, j \in Jets : info'[x][j] = info[x][j] \/ (x > top /\ info'[x][j] = NewInfo)
  BY <1>3
<1>8. FreshInv'
  <2> SUFFICES ASSUME NEW m \in Out PROVE Fresh(m)' /\ m.pulse < lastPulse'
    BY <1>5 DEF FreshInv
  <2>1. /\ m.pulse \in Pulses /\ m.jet \in Jets /\ Owner(m) \in Jets
        /\ Fresh(m) /\ m.pulse < lastPulse
    BY OutFacts DEF ConfirmInv, FreshInv
  <2>2. CASE m.kind = "drop"
    BY <1>1, <1>3, <1>7, <1>n, <2>1, <2>2 DEF Fresh
  <2>3. CASE m.kind # "drop"
    BY <1>1, <1>7, <1>n, <2>1, <2>3 DEF Fresh
  <2> QED BY <2>2, <2>3
<1>9. RecordInv'
  <2> SUFFICES ASSUME NEW x \in Pulses, NEW k \in Jets
               PROVE  /\ info'[x][k].split = "unset" => ~info'[x][k].drop /\ info'[x][k].hot = {}
                      /\ info'[x][k].split # "unset" => x < lastPulse
                      /\ info'[x][k].drop /\ x <= top => <<x, k>> \in drops'
                      /\ k \in tree'[x] => x < lastPulse /\ x # 0
    BY <1>1 DEF RecordInv
  <2>1. RecordInv
    BY DEF ConfirmInv
  <2>2. k \in tree'[x] => x < lastPulse /\ x # 0
    BY <1>3, <2>1 DEF RecordInv
  <2>3. /\ info'[x][k].split = "unset" => ~info'[x][k].drop /\ info'[x][k].hot = {}
        /\ info'[x][k].split # "unset" => x < lastPulse
    BY <1>7, <1>n, <2>1 DEF RecordInv
  <2>4. ASSUME info'[x][k].drop, x <= top PROVE <<x, k>> \in drops'
    <3>1. info[x][k].drop
      BY <1>7, <1>n, <2>4
    <3>2. <<x, k>> \in drops
      BY <2>1, <2>4, <3>1 DEF RecordInv
    <3> QED BY <1>2, <2>4, <3>2
  <2> QED BY <2>2, <2>3, <2>4
<1>10. SplitInv'
  <2> SUFFICES ASSUME NEW x \in Pulses, NEW S \in SUBSET Jets, Split(x, S) PROVE Split(x, S)'
    BY DEF ConfirmInv, SplitInv
  <2>1. Continues(x, S)'
    BY <1>1 DEF Continues
  <2>2. \A m \in Out' : m.pulse = x => Expected(m, S)'
    BY <1>1, <1>5 DEF Split, Expected
  <2>3. \A j \in Entries(x)' : j \in Entries(x) /\ info'[x][j] = info[x][j]
    BY <1>7, <1>n DEF Entries
  <2>4. RecordAgrees(x, S)'
    BY <1>1, <2>3 DEF Split, RecordAgrees
  <2> QED BY <2>1, <2>2, <2>4 DEF Split
<1>11. PulseInv'
  BY <1>1, <1>4 DEF ConfirmInv, PulseInv
<1>12. RollbackInv'
  <2>1. truncated' >= 4 => \A x \in pulses' : x <= top
    BY <1>1, <1>4 DEF ConfirmInv, RollbackInv
  <2>2. truncated' >= 5 => \A x \in Pulses : x > top => Entries(x)' = {}
    <3> SUFFICES ASSUME truncated = 4, NEW x \in Pulses, x > top PROVE Entries(x)' = {}
      BY <1>1
    <3>1. info'[x] = [j \in Jets |-> NewInfo]
      BY <1>3
    <3> QED BY <1>n, <3>1 DEF Entries
  <2> QED BY <1>1, <2>1, <2>2 DEF ConfirmInv, RollbackInv
<1>13. FinalizedComplete'
  <2> SUFFICES ASSUME NEW x \in Finalized
               PROVE  /\ Entries(x)' # {}
                      /\ \A j \in Entries(x)' : IsConfirmed(x, j, TRUE)' /\ <<x, j>> \in drops'
                      /\ Entries(x)' = LeafIDs(x)'
                      /\ Entries(x)' = jetsOf'[x]
    BY <1>1, <1>4 DEF FinalizedComplete, Finalized
  <2>1. x \in Pulses /\ x <= top
    BY DEF Finalized, TypeInv, TypeOK
  <2>2. info'[x] = info[x] /\ tree'[x] = tree[x] /\ jetsOf'[x] = jetsOf[x]
    BY <1>1, <1>3, <2>1
  <2>3. /\ Entries(x)' = Entries(x) /\ LeafIDs(x)' = LeafIDs(x)
        /\ \A j \in Jets : IsConfirmed(x, j, TRUE) => IsConfirmed(x, j, TRUE)'
    BY <2>1, <2>2, PulseFrame
  <2>4. \A j \in Entries(x) : j \in Jets /\ <<x, j>> \in drops'
    <3> SUFFICES ASSUME NEW j \in Entries(x) PROVE <<x, j>> \in drops'
      BY DEF Entries
    <3>1. <<x, j>> \in drops
      BY DEF ConfirmInv, FinalizedComplete
    <3> QED BY <1>2, <2>1, <3>1
  <2> QED BY <2>2, <2>3, <2>4 DEF ConfirmInv, FinalizedComplete
<1> QED BY <1>6, <1>8, <1>9, <1>10, <1>11, <1>12, <1>13 DEF ConfirmInv

\* The components start after the rollback.
LEMMA StartConfirm ==
    ASSUME TypeInv, ConfirmInv, StartComponents
    PROVE  ConfirmInv'
<1>1. /\ status = "rollback" /\ truncated = 5 /\ status' \in {"up", "fatal"}
      /\ \A q \in Procs : pc[q] = "idle"
      /\ UNCHANGED <<info, top, tree, drops, pulses, jetsOf, inbox, lastPulse, pc, msg, fin>>
  BY DEF StartComponents, keeper, storage, network, ConfirmInv, QuietRollback
<1>2. /\ jetsOf[lastPulse] = {} /\ \A x \in pulses : x <= top
      /\ \A x \in Pulses : x > top => Entries(x) = {}
  BY <1>1 DEF ConfirmInv, RollbackInv
<1>t. top \in Int /\ pulses \subseteq Pulses /\ \A x \in Pulses : x \in Int
  BY BoundsAssumption DEF TypeInv, TypeOK, Pulses
<1>3. \A x \in pulses : ~(top < x)
  <2> SUFFICES ASSUME NEW x \in pulses PROVE ~(top < x)
    OBVIOUS
  <2>1. x \in Int /\ x <= top
    BY <1>2, <1>t
  <2> QED BY <1>t, <2>1
<1>4. Out' = Out
  BY <1>1 DEF Out
<1>5. OnceInv' /\ DropInv' /\ QuietRollback' /\ ConsistInv' /\ RollbackInv'
  BY <1>1 DEF OnceInv, DropInv, QuietRollback, ConsistInv, RollbackInv, Unapplied
<1>6. FreshInv'
  BY <1>1, <1>4 DEF ConfirmInv, FreshInv, Fresh
<1>7. RecordInv'
  <2>1. ASSUME NEW x \in Pulses, NEW k \in Jets, info[x][k].drop PROVE <<x, k>> \in drops
    <3>1. info[x][k].split # "unset"
      BY <2>1 DEF ConfirmInv, RecordInv
    <3>2. k \in Entries(x)
      BY <3>1 DEF Entries
    <3>3. x <= top
      BY <1>2, <1>t, <3>2
    <3> QED BY <2>1, <3>3 DEF ConfirmInv, RecordInv
  <2> QED BY <1>1, <2>1 DEF ConfirmInv, RecordInv
<1>8. SplitInv'
  <2> SUFFICES ASSUME NEW x \in Pulses, NEW S \in SUBSET Jets, Split(x, S) PROVE Split(x, S)'
    BY DEF ConfirmInv, SplitInv
  <2>1. Continues(x, S)'
    BY <1>1, <1>3 DEF Continues
  <2>2. \A m \in Out' : m.pulse = x => Expected(m, S)'
    BY <1>1, <1>4 DEF Split, Expected
  <2>3. RecordAgrees(x, S)'
    BY <1>1 DEF Split, RecordAgrees, Entries
  <2> QED BY <2>1, <2>2, <2>3 DEF Split
<1>9. PulseInv'
  BY <1>1, <1>2, <1>3 DEF ConfirmInv, PulseInv
<1>10. ChainInv'
  BY <1>1, <1>3 DEF ChainInv, IsPrevious
<1>11. FinalizedComplete'
  <2> SUFFICES ASSUME NEW x \in Finalized
               PROVE  /\ Entries(x)' # {}
                      /\ \A j \in Entries(x)' : IsConfirmed(x, j, TRUE)' /\ <<x, j>> \in drops'
                      /\ Entries(x)' = LeafIDs(x)'
                      /\ Entries(x)' = jetsOf'[x]
    BY <1>1 DEF FinalizedComplete, Finalized
  <2>1. x \in Pulses
    BY <1>t DEF Finalized
  <2>2. /\ Entries(x)' = Entries(x) /\ LeafIDs(x)' = LeafIDs(x)
        /\ \A j \in Jets : IsConfirmed(x, j, TRUE) => IsConfirmed(x, j, TRUE)'
    BY <1>1, <2>1, PulseFrame
  <2>3. \A j \in Entries(x) : j \in Jets
    BY DEF Entries
  <2> QED BY <1>1, <2>2, <2>3 DEF ConfirmInv, FinalizedComplete
<1> QED BY <1>5, <1>6, <1>7, <1>8, <1>9, <1>10, <1>11 DEF ConfirmInv

\* A goroutine that was told to finalize goes on to the backup.
LEMMA ReliesMove ==
    ASSUME TypeInv, NEW q \in Procs, Relies(q), pc'[q] # "sync", fin'[q] = fin[q],
           UNCHANGED <<info, tree, jetsOf, top, pulses>>
    PROVE  Relies(q)'
<1>1. PICK p \in Pulses : p = fin[q]
  BY DEF TypeInv, TypeOK
<1>2. Complete(p) => Complete(p)'
  BY PulseFrame
<1>3. p <= top \/ (IsPrevious(top, p) /\ Complete(p))
  BY <1>1 DEF Relies
<1>4. p <= top' \/ (IsPrevious(top, p)' /\ Complete(p)')
  BY <1>2, <1>3 DEF IsPrevious
<1> QED BY <1>1, <1>4 DEF Relies

\* HasAllJetConfirms answers for the pulse after the top sync pulse.
LEMMA CheckedIsComplete ==
    ASSUME TypeInv, ConfirmInv, Up, NEW p \in Pulses, NEW b \in BOOLEAN, CheckPulseConsistency(p, b)
    PROVE  IsPrevious(top, p) /\ Complete(p)
<1>1. /\ IsPrevious(top, p) /\ Entries(p) # {}
      /\ \A j \in Entries(p) : IsConfirmed(p, j, b)
      /\ Entries(p) = TopSyncJets /\ Entries(p) = LeafIDs(p)
  BY DEF CheckPulseConsistency
<1>2. jetsOf[p] = Entries(p)
  BY <1>1 DEF ConfirmInv, ChainInv, Up, IsPrevious
<1>3. \A j \in Entries(p) : IsConfirmed(p, j, FALSE)
  <2> SUFFICES ASSUME NEW j \in Entries(p) PROVE IsConfirmed(p, j, FALSE)
    OBVIOUS
  <2>1. IsConfirmed(p, j, b)
    BY <1>1
  <2> QED BY <2>1 DEF IsConfirmed
<1> QED BY <1>1, <1>2, <1>3 DEF Complete

\* Every step of a goroutine keeps what is known of the confirmations.
LEMMA StepConfirm ==
    ASSUME TypeInv, ConfirmInv, NEW q \in Procs, Step(q)
    PROVE  ConfirmInv'
<1>f. ASSUME NEW here, Fatal(q, here) PROVE ConfirmInv'
  BY <1>f, StillConfirm DEF Fatal, keeper, storage, network
<1>i. ASSUME NEW here, Finish(q, here),
             UNCHANGED <<info, top, tree, drops, pulses, jetsOf, inbox, lastPulse, status, truncated>>
      PROVE  ConfirmInv'
  <2>1. Goto(q, here, "idle") /\ \A r \in Procs : r # q => fin'[r] = fin[r] /\ msg'[r] = msg[r]
    BY <1>i DEF Finish, TypeInv, TypeOK
  <2>2. "idle" \in PCs /\ "idle" \notin Unapplied \cup {"tree"} /\ "idle" \notin Confirmed
    BY DEF PCs, Unapplied, Confirmed
  <2> QED BY <1>i, <2>1, <2>2, MoveConfirm
<1>p. /\ {"drop", "tree", "finalize", "next", "backup", "lock", "index"} \subseteq PCs
      /\ \A there \in {"finalize", "next", "backup", "lock", "index"} : there \notin Unapplied \cup {"tree"}
      /\ {"drop", "finalize", "index"} \cap Confirmed = {}
      /\ {"next", "backup", "lock"} \subseteq Confirmed
  BY DEF PCs, Unapplied, Confirmed
<1>g. ASSUME NEW here, NEW there \in PCs, Goto(q, here, there)
      PROVE  Up /\ pc[q] = here /\ pc'[q] = there
  BY <1>g, GotoType DEF TypeInv, Goto
<1>m. pc[q] \in {"drop", "hot"} =>
          /\ msg[q] \in Message /\ msg[q].pulse \in Pulses /\ msg[q].jet \in Jets
          /\ msg[q].split \in BOOLEAN /\ msg[q].kind = pc[q]
          /\ Owner(msg[q]) \in Jets /\ info[msg[q].pulse][Owner(msg[q])] \in JetInfo
  <2> SUFFICES ASSUME pc[q] \in {"drop", "hot"}
               PROVE  /\ msg[q] \in Message /\ msg[q].pulse \in Pulses /\ msg[q].jet \in Jets
                      /\ msg[q].split \in BOOLEAN /\ msg[q].kind = pc[q]
                      /\ Owner(msg[q]) \in Jets /\ info[msg[q].pulse][Owner(msg[q])] \in JetInfo
    OBVIOUS
  <2>1. msg[q] \in Out
    BY DEF Out, Unapplied
  <2>2. /\ msg[q] \in Message /\ msg[q].pulse \in Pulses /\ msg[q].jet \in Jets
        /\ msg[q].split \in BOOLEAN /\ msg[q].kind \in {"drop", "hot"} /\ Owner(msg[q]) \in Jets
    BY <2>1, OutFacts
  <2>3. msg[q].kind = pc[q]
    BY <2>2 DEF TypeInv, MessagesFit, Working
  <2> QED BY <2>2, <2>3 DEF TypeInv, TypeOK
<1>1. CASE StoreDrop(q)
  <2>1. /\ Goto(q, "store", "drop")
        /\ drops \subseteq drops' /\ <<msg[q].pulse, msg[q].jet>> \in drops'
        /\ UNCHANGED <<info, top, tree, pulses, jetsOf, inbox, lastPulse, status, truncated, msg, fin>>
    BY <1>1 DEF StoreDrop, keeper, process, network
  <2> QED BY <1>p, <2>1, MoveConfirm
<1>2. CASE AddDropConfirmation(q)
  <2>1. CASE Fatal(q, "drop")
    BY <1>f, <2>1
  <2>2. CASE ~Fatal(q, "drop")
    <3>1. PICK m, p, j, i : m = msg[q] /\ p = m.pulse /\ j = m.jet /\ i = info[p][j]
      OBVIOUS
    <3>2. PICK n : n = [i EXCEPT !.drop = TRUE, !.split = Flag(m.split)]
      OBVIOUS
    <3>3. /\ pc[q] = "drop" /\ Goto(q, "drop", "tree")
          /\ info' = [info EXCEPT ![p][j] = n]
          /\ UNCHANGED <<top, storage, process, msg, fin, network>>
      BY <1>2, <2>2, <3>1, <3>2 DEF AddDropConfirmation
    <3>4. /\ p \in Pulses /\ j \in Jets /\ m.split \in BOOLEAN /\ m.kind = "drop"
          /\ Owner(m) = j /\ i \in JetInfo
      BY <1>m, <3>1, <3>3 DEF Owner
    <3>5. Flag(m.split) \in {"yes", "no"}
      BY DEF Flag
    <3>6. n \in JetInfo /\ n.split = Flag(m.split) /\ n.drop /\ n.hot = i.hot
      BY <3>2, <3>4, <3>5 DEF JetInfo
    <3>7. UNCHANGED <<top, tree, drops, pulses, jetsOf, inbox, lastPulse, status, truncated, msg, fin>>
      BY <3>3 DEF storage, process, network
    <3>8. /\ n.drop <=> (info[p][j].drop \/ m.kind = "drop")
          /\ n.hot = info[p][j].hot \cup (IF m.kind = "hot" THEN {m.jet} ELSE {})
      BY <3>1, <3>4, <3>6
    <3> QED BY <1>p, <3>1, <3>3, <3>4, <3>6, <3>7, <3>8, RecordConfirm
  <2> QED BY <2>1, <2>2
<1>3. CASE UpdateJets(q)
  BY <1>3, TreeConfirm
<1>4. CASE AddHotConfirmation(q)
  <2>1. CASE Fatal(q, "hot")
    BY <1>f, <2>1
  <2>2. CASE ~Fatal(q, "hot")
    <3>1. PICK m, p, j, i : /\ m = msg[q] /\ p = m.pulse /\ i = info[p][j]
                            /\ j = IF m.split THEN Parent(m.jet) ELSE m.jet
      OBVIOUS
    <3>2. PICK n : n = [i EXCEPT !.hot = @ \cup {m.jet}, !.split = Flag(m.split)]
      OBVIOUS
    <3>3. /\ pc[q] = "hot" /\ Goto(q, "hot", "finalize")
          /\ info' = [info EXCEPT ![p][j] = n]
          /\ UNCHANGED <<top, storage, process, msg, fin, network>>
      BY <1>4, <2>2, <3>1, <3>2 DEF AddHotConfirmation
    <3>4. /\ p \in Pulses /\ j \in Jets /\ m.jet \in Jets /\ m.split \in BOOLEAN /\ m.kind = "hot"
          /\ Owner(m) = j /\ i \in JetInfo
      BY <1>m, <3>1, <3>3 DEF Owner
    <3>5. Flag(m.split) \in {"yes", "no"}
      BY DEF Flag
    <3>6. n \in JetInfo /\ n.split = Flag(m.split) /\ n.drop = i.drop /\ n.hot = i.hot \cup {m.jet}
      BY <3>2, <3>4, <3>5 DEF JetInfo
    <3>7. UNCHANGED <<top, tree, drops, pulses, jetsOf, inbox, lastPulse, status, truncated, msg, fin>>
      BY <3>3 DEF storage, process, network
    <3>8. /\ n.drop <=> (info[p][j].drop \/ m.kind = "drop")
          /\ n.hot = info[p][j].hot \cup (IF m.kind = "hot" THEN {m.jet} ELSE {})
      BY <3>1, <3>4, <3>6
    <3>9. /\ m = msg[q] /\ p = m.pulse /\ j = Owner(m) /\ n \in JetInfo /\ n.split = Flag(m.split)
          /\ info' = [info EXCEPT ![p][j] = n]
      BY <3>1, <3>3, <3>4, <3>6
    <3>10. "hot" \in {"drop", "hot"} /\ "finalize" \in PCs /\ Goto(q, "hot", "finalize")
      BY <3>3 DEF PCs
    <3> QED BY <3>7, <3>8, <3>9, <3>10, RecordConfirm
  <2> QED BY <2>1, <2>2
<1>5. CASE CheckConfirms(q)
  <2>1. CASE Fatal(q, "finalize")
    BY <1>f, <2>1
  <2>2. CASE Finish(q, "finalize") /\ UNCHANGED <<keeper, storage, process, network>>
    BY <1>i, <2>2 DEF keeper, storage, process, network
  <2>3. CASE /\ HasAllJetConfirms(fin[q]) /\ Goto(q, "finalize", "next")
             /\ UNCHANGED <<msg, fin, keeper, storage, process, network>>
    <3>1. UNCHANGED <<info, top, tree, drops, pulses, jetsOf, inbox, lastPulse, status, truncated, msg, fin>>
      BY <2>3 DEF keeper, storage, process, network
    <3>2. Up /\ pc[q] = "finalize" /\ pc'[q] = "next"
      BY <1>g, <1>p, <2>3
    <3>3. PICK p \in Pulses : p = fin[q]
      BY DEF TypeInv, TypeOK
    <3>4. p <= top \/ (IsPrevious(top, p) /\ Complete(p))
      <4>1. CASE top >= p
        <5>1. top \in Int /\ p \in Int
          BY BoundsAssumption DEF TypeInv, TypeOK, Pulses
        <5> QED BY <4>1, <5>1
      <4>2. CASE CheckPulseConsistency(p, FALSE)
        BY <3>2, <4>2, CheckedIsComplete
      <4> QED BY <2>3, <3>3, <4>1, <4>2 DEF HasAllJetConfirms
    <3>5. Relies(q)
      BY <3>2, <3>3, <3>4 DEF Relies
    <3>6. Relies(q)'
      BY <3>1, <3>2, <3>5, ReliesMove
    <3> QED BY <1>p, <2>3, <3>1, <3>6, MoveConfirm
  <2> QED BY <1>5, <2>1, <2>2, <2>3 DEF CheckConfirms
<1>6. CASE CheckNextTop(q)
  <2>1. UNCHANGED <<info, top, tree, drops, pulses, jetsOf, inbox, lastPulse, status, truncated>>
    BY <1>6 DEF CheckNextTop, keeper, storage, process, network
  <2>2. CASE Finish(q, "next")
    BY <1>i, <2>1, <2>2
  <2>3. CASE Goto(q, "next", "backup") /\ UNCHANGED <<msg, fin>>
    <3>1. Up /\ pc[q] = "next" /\ pc'[q] = "backup"
      BY <1>g, <1>p, <2>3
    <3>2. Relies(q)
      BY <3>1 DEF ConfirmInv, ConsistInv, Relies, Up
    <3>3. Relies(q)'
      BY <2>1, <2>3, <3>1, <3>2, ReliesMove
    <3> QED BY <1>p, <2>1, <2>3, <3>3, MoveConfirm
  <2> QED BY <1>6, <2>2, <2>3 DEF CheckNextTop
<1>7. CASE MakeBackup(q)
  <2>1. UNCHANGED <<info, top, tree, drops, pulses, jetsOf, inbox, lastPulse, status, truncated>>
    BY <1>7 DEF MakeBackup, keeper, storage, network
  <2>2. CASE Finish(q, "backup")
    BY <1>i, <2>1, <2>2
  <2>3. CASE Goto(q, "backup", "lock") /\ UNCHANGED <<msg, fin>>
    <3>1. Up /\ pc[q] = "backup" /\ pc'[q] = "lock"
      BY <1>g, <1>p, <2>3
    <3>2. Relies(q)
      BY <3>1 DEF ConfirmInv, ConsistInv, Relies, Up
    <3>3. Relies(q)'
      BY <2>1, <2>3, <3>1, <3>2, ReliesMove
    <3> QED BY <1>p, <2>1, <2>3, <3>3, MoveConfirm
  <2> QED BY <1>7, <2>2, <2>3 DEF MakeBackup
<1>8. CASE AddBackupConfirmation(q)
  BY <1>8, BackupConfirm
<1>9. CASE UpdateTopSyncPulse(q)
  BY <1>9, TopConfirm
<1>10. CASE CheckNewTop(q)
  <2>1. CASE Fatal(q, "check")
    BY <1>f, <2>1
  <2>2. CASE Goto(q, "check", "index") /\ UNCHANGED <<keeper, storage, process, msg, fin, network>>
    <3>1. UNCHANGED <<info, top, tree, drops, pulses, jetsOf, inbox, lastPulse, status, truncated, msg, fin>>
      BY <2>2 DEF keeper, storage, process, network
    <3> QED BY <1>p, <2>2, <3>1, MoveConfirm
  <2> QED BY <1>10, <2>1, <2>2 DEF CheckNewTop
<1>11. CASE UpdateLastKnownPulse(q)
  <2>1. UNCHANGED <<info, top, tree, drops, pulses, jetsOf, inbox, lastPulse, status, truncated>>
    BY <1>11 DEF UpdateLastKnownPulse, keeper, process, network
  <2>2. CASE Finish(q, "index")
    BY <1>i, <2>1, <2>2
  <2>3. CASE \E p \in pulses : /\ Goto(q, "index", "finalize")
                               /\ fin' = [fin EXCEPT ![q] = p]
                               /\ UNCHANGED msg
    <3>1. Goto(q, "index", "finalize") /\ UNCHANGED msg /\ \A r \in Procs : r # q => fin'[r] = fin[r]
      BY <2>3 DEF TypeInv, TypeOK
    <3> QED BY <1>p, <2>1, <3>1, MoveConfirm
  <2> QED BY <1>11, <2>2, <2>3 DEF UpdateLastKnownPulse
<1> QED
  BY <1>1, <1>2, <1>3, <1>4, <1>5, <1>6, <1>7, <1>8, <1>9, <1>10, <1>11 DEF Step

\* Nothing is confirmed before the first pulse.
LEMMA InitConfirm == Init => ConfirmInv
<1> SUFFICES ASSUME Init PROVE ConfirmInv
  OBVIOUS
<1>1. Out = {} /\ \A p \in Pulses : Entries(p) = {}
  BY DEF Init, Out, Unapplied, Entries, NewInfo
<1>2. SplitInv
  <2> SUFFICES ASSUME NEW p \in Pulses PROVE Split(p, {})
    BY DEF SplitInv
  <2>1. Continues(p, {})
    <3>1. ~(0 < p /\ p < 0)
      BY BoundsAssumption DEF Pulses
    <3> QED BY <3>1 DEF Init, Continues
  <2> QED BY <1>1, <2>1 DEF Split, RecordAgrees
<1>3. OnceInv /\ FreshInv /\ DropInv /\ QuietRollback /\ ConsistInv /\ RollbackInv
  BY <1>1 DEF Init, OnceInv, FreshInv, DropInv, QuietRollback, ConsistInv, RollbackInv, Unapplied
<1>4. RecordInv
  BY DEF Init, RecordInv, NewInfo
<1>5. PulseInv
  <2>1. 0 \in Pulses
    BY BoundsAssumption DEF Pulses
  <2> QED BY <2>1 DEF Init, PulseInv
<1>6. ChainInv /\ FinalizedComplete
  BY DEF Init, ChainInv, IsPrevious, FinalizedComplete, Finalized
<1> QED BY <1>2, <1>3, <1>4, <1>5, <1>6 DEF ConfirmInv

\* ConfirmInv is inductive, with either backend.
LEMMA NextConfirm == TypeInv /\ ConfirmInv /\ [Next]_vars => ConfirmInv'
<1> SUFFICES ASSUME TypeInv, ConfirmInv, [Next]_vars PROVE ConfirmInv'
  OBVIOUS
<1>1. CASE Crash
  BY <1>1, StopConfirm DEF Crash
<1>2. CASE Restart
  BY <1>2, StopConfirm DEF Restart
<1>3. CASE UNCHANGED vars
  BY <1>3, StillConfirm DEF vars, keeper, storage, process, network
<1> QED
  BY <1>1, <1>2, <1>3, NewPulseConfirm, ReceiveConfirm, StepConfirm, TruncateConfirm, StartConfirm
  DEF Next

\* With either backend, for any tree of jets, any order of confirmations and
\* any crashes: a pulse up to the top sync pulse has the drop, every hot
\* confirmation and the backup of exactly the jets that were executed in it.
THEOREM FinalizedStaysComplete == Spec => []FinalizedComplete
<1>1. Init => TypeInv /\ ConfirmInv
  BY InitType, InitConfirm
<1>2. (TypeInv /\ ConfirmInv) /\ [Next]_vars => (TypeInv /\ ConfirmInv)'
  BY NextType, NextConfirm
<1>3. TypeInv /\ ConfirmInv => FinalizedComplete
  BY DEF ConfirmInv
<1> QED BY <1>1, <1>2, <1>3, PTL DEF Spec

-----------------------------------------------------------------------------
(* The heavy node implements the ledger of final pulses, with either       *)
(* backend.                                                                *)

\* A step that moves the top sync pulse is the second write of somebody's
\* AddBackupConfirmation.
LEMMA TopStep ==
    ASSUME Next, top' # top
    PROVE  \E q \in Procs : /\ UpdateTopSyncPulse(q)
                            /\ top' = fin[q]
                            /\ CheckPulseConsistency(fin[q], TRUE)
<1>1. ~(\E S \in SUBSET Jets : NewPulse(S)) /\ ~(\E q \in Procs, m \in inbox : Receive(q, m))
  BY DEF NewPulse, Receive, keeper
<1>2. ~Crash /\ ~Restart /\ ~TruncateHead /\ ~StartComponents
  BY DEF Crash, Restart, Stop, TruncateHead, StartComponents, keeper
<1>3. PICK q \in Procs : Step(q)
  BY <1>1, <1>2 DEF Next
<1>4. /\ ~StoreDrop(q) /\ ~AddDropConfirmation(q) /\ ~UpdateJets(q) /\ ~AddHotConfirmation(q)
      /\ ~CheckConfirms(q) /\ ~CheckNextTop(q) /\ ~MakeBackup(q) /\ ~AddBackupConfirmation(q)
      /\ ~CheckNewTop(q) /\ ~UpdateLastKnownPulse(q)
  BY DEF StoreDrop, AddDropConfirmation, UpdateJets, AddHotConfirmation, CheckConfirms,
         CheckNextTop, MakeBackup, AddBackupConfirmation, CheckNewTop, UpdateLastKnownPulse,
         Fatal, keeper
<1>5. UpdateTopSyncPulse(q)
  BY <1>3, <1>4 DEF Step
<1>6. top' = fin[q] /\ CheckPulseConsistency(fin[q], TRUE)
  BY <1>5 DEF UpdateTopSyncPulse, Fatal, keeper
<1> QED BY <1>5, <1>6

\* The jets of pulse p, with whether they split.
SplitOf(p) == [j \in Entries(p) |-> info[p][j].split = "yes"]

\* No drop of a final pulse is missing, so that its record is that of all of
\* its jets.
LEMMA FinalRecordsAre ==
    ASSUME FinalizedComplete
    PROVE  FinalRecords = [p \in Finalized |-> SplitOf(p)]
<1>1. ASSUME NEW p \in Finalized PROVE {k \in Entries(p) : <<p, k>> \in drops} = Entries(p)
  BY DEF FinalizedComplete
<1> QED BY <1>1 DEF FinalRecords, SplitOf

\* The same, one step later.
LEMMA FinalRecordsWillBe ==
    ASSUME FinalizedComplete'
    PROVE  FinalRecords' = [p \in Finalized' |-> SplitOf(p)']
<1>1. ASSUME NEW p \in Finalized' PROVE {k \in Entries(p)' : <<p, k>> \in drops'} = Entries(p)'
  BY DEF FinalizedComplete
<1> QED BY <1>1 DEF FinalRecords, SplitOf

\* What is final changes with the split flags of final pulses only.
LEMMA LedgerFrame ==
    ASSUME FinalizedComplete, FinalizedComplete', Finalized' = Finalized,
           \A p \in Finalized, j \in Jets : info'[p][j].split = info[p][j].split
    PROVE  FinalRecords' = FinalRecords
<1>1. ASSUME NEW p \in Finalized PROVE SplitOf(p)' = SplitOf(p)
  <2>1. Entries(p)' = Entries(p)
    BY DEF Entries
  <2>2. \A j \in Entries(p) : info'[p][j].split = info[p][j].split
    BY DEF Entries
  <2> QED BY <2>1, <2>2 DEF SplitOf
<1> QED BY <1>1, FinalRecordsAre, FinalRecordsWillBe

\* No step touches the split flags of a pulse that is final: the messages for
\* it have all been applied, and the rollback spares it.
LEMMA FinalUntouched ==
    ASSUME TypeInv, ConfirmInv, [Next]_vars, NEW p \in Finalized, NEW j \in Jets
    PROVE  info'[p][j].split = info[p][j].split
<1>p. p \in Pulses /\ p <= top
  BY DEF Finalized, TypeInv, TypeOK
<1>i. info \in [Pulses -> [Jets -> JetInfo]]
  BY DEF TypeInv, TypeOK
<1>1. \A m \in Out : m.pulse # p
  BY <1>p, FinalizedIsComplete, NothingPending DEF ConfirmInv
<1>2. CASE \E S \in SUBSET Jets : NewPulse(S)
  BY <1>2 DEF NewPulse, keeper
<1>3. CASE \E q \in Procs, m \in inbox : Receive(q, m)
  BY <1>3 DEF Receive, keeper
<1>4. CASE Crash \/ Restart \/ StartComponents \/ UNCHANGED vars
  BY <1>4 DEF Crash, Restart, Stop, StartComponents, keeper, vars
<1>5. CASE TruncateHead
  BY <1>p, <1>i, <1>5 DEF TruncateHead
<1>6. ASSUME NEW q \in Procs, Step(q) PROVE info'[p][j].split = info[p][j].split
  <2>m. pc[q] \in {"drop", "hot"} => msg[q].pulse # p
    BY <1>1 DEF Out, Unapplied
  <2>1. CASE AddDropConfirmation(q)
    <3>1. info'[p] = info[p]
      BY <1>p, <1>i, <2>1, <2>m DEF AddDropConfirmation, Fatal, keeper
    <3> QED BY <3>1
  <2>2. CASE AddHotConfirmation(q)
    <3>1. info'[p] = info[p]
      BY <1>p, <1>i, <2>2, <2>m DEF AddHotConfirmation, Fatal, keeper
    <3> QED BY <3>1
  <2>3. CASE AddBackupConfirmation(q)
    <3>1. CASE info' = info
      BY <3>1
    <3>2. CASE info' # info
      <4>1. info' = [info EXCEPT ![fin[q]] =
                        [k \in Jets |-> IF k \in Entries(fin[q])
                                          THEN [info[fin[q]][k] EXCEPT !.backup = TRUE]
                                          ELSE info[fin[q]][k]]]
        BY <2>3, <3>2 DEF AddBackupConfirmation, Fatal, keeper
      <4>2. fin[q] \in Pulses
        BY DEF TypeInv, TypeOK
      <4>3. info[fin[q]][j] \in JetInfo
        BY <1>i, <4>2
      <4>4. [info[fin[q]][j] EXCEPT !.backup = TRUE].split = info[fin[q]][j].split
        BY <4>3 DEF JetInfo
      <4>5. CASE p = fin[q]
        BY <1>i, <4>1, <4>2, <4>4, <4>5
      <4>6. CASE p # fin[q]
        BY <1>p, <1>i, <4>1, <4>2, <4>6
      <4> QED BY <4>5, <4>6
    <3> QED BY <3>1, <3>2
  <2>4. CASE ~AddDropConfirmation(q) /\ ~AddHotConfirmation(q) /\ ~AddBackupConfirmation(q)
    BY <1>6, <2>4 DEF Step, StoreDrop, UpdateJets, CheckConfirms, CheckNextTop, MakeBackup,
       UpdateTopSyncPulse, CheckNewTop, UpdateLastKnownPulse, Fatal, keeper
  <2> QED BY <2>1, <2>2, <2>3, <2>4
<1> QED BY <1>2, <1>3, <1>4, <1>5, <1>6 DEF Next

\* The jets that the next final pulse must have, as the ledger sees them.
LEMMA FollowingIsTop ==
    ASSUME TypeInv, ConfirmInv
    PROVE  Ledger!Following = TopSyncJets
<1>1. CASE top = 0
  BY <1>1 DEF Ledger!Following, TopSyncJets, Root
<1>2. CASE top # 0
  <2>1. top \in Finalized
    BY <1>2, BoundsAssumption DEF TypeInv, TypeOK, Pulses, ConfirmInv, PulseInv, Finalized
  <2>2. FinalRecords[top] = SplitOf(top)
    BY <2>1, FinalRecordsAre DEF ConfirmInv
  <2>3. DOMAIN FinalRecords[top] = Entries(top)
    BY <2>2 DEF SplitOf
  <2>4. ASSUME NEW j \in Entries(top)
        PROVE  Successors(j, info[top][j].split = "yes")
                 = IF FinalRecords[top][j] THEN {Append(j, 0), Append(j, 1)} ELSE {j}
    BY <2>2 DEF SplitOf, Successors, Siblings
  <2> DEFINE Left(j) == IF FinalRecords[top][j] THEN {Append(j, 0), Append(j, 1)} ELSE {j}
  <2>5. Ledger!Following = UNION {Left(j) : j \in Entries(top)}
    BY <1>2, <2>3 DEF Ledger!Following
  <2>6. TopSyncJets = UNION {Successors(j, info[top][j].split = "yes") : j \in Entries(top)}
    BY <1>2 DEF TopSyncJets
  <2>7. \A j \in Entries(top) : Left(j) = Successors(j, info[top][j].split = "yes")
    BY <2>4
  <2> HIDE DEF Left
  <2> QED BY <2>5, <2>6, <2>7
<1> QED BY <1>1, <1>2

\* A pulse that becomes the top sync pulse is made final in the ledger.
LEMMA FinalizeStep ==
    ASSUME TypeInv, ConfirmInv, ConfirmInv', Next, top' # top
    PROVE  \E p \in pulses : Ledger!Finalize(p)
<1>1. PICK q \in Procs : /\ UpdateTopSyncPulse(q) /\ top' = fin[q]
                         /\ CheckPulseConsistency(fin[q], TRUE)
  BY TopStep
<1> DEFINE p == fin[q]
<1>2. info' = info /\ pulses' = pulses
  BY <1>1 DEF UpdateTopSyncPulse, Fatal, storage, keeper
<1>3. p \in pulses /\ top < p /\ (\A x \in pulses : ~(top < x /\ x < p)) /\ Entries(p) = TopSyncJets
  BY <1>1 DEF CheckPulseConsistency, IsPrevious
<1>4. pulses \subseteq Pulses /\ top \in Pulses /\ \A x \in Pulses : x \in Nat
  BY BoundsAssumption DEF TypeInv, TypeOK, Pulses
<1>5. Finalized' = Finalized \cup {p}
  BY <1>1, <1>2, <1>3, <1>4 DEF Finalized
<1>6. \A x : SplitOf(x)' = SplitOf(x)
  BY <1>2 DEF SplitOf, Entries
<1>7. FinalRecords = [x \in Finalized |-> SplitOf(x)]
  BY FinalRecordsAre DEF ConfirmInv
<1>8. FinalRecords' = [x \in Finalized \cup {p} |-> SplitOf(x)]
  BY <1>5, <1>6, FinalRecordsWillBe DEF ConfirmInv
<1>9. SplitOf(p) \in [Ledger!Following -> BOOLEAN]
  <2>1. Ledger!Following = Entries(p)
    BY <1>3, FollowingIsTop
  <2> QED BY <2>1 DEF SplitOf
<1>10. DOMAIN FinalRecords = Finalized
  BY <1>7
<1>11. FinalRecords' = [x \in DOMAIN FinalRecords \cup {p} |->
                          IF x = p THEN SplitOf(p) ELSE FinalRecords[x]]
  BY <1>7, <1>8, <1>10
<1>12. Ledger!Finalize(p)
  BY <1>1, <1>2, <1>3, <1>4, <1>9, <1>11 DEF Ledger!Finalize
<1> QED BY <1>3, <1>12

\* The pulse storage changes in two actions only.
LEMMA PulsesStep ==
    ASSUME [Next]_vars, pulses' # pulses
    PROVE  \/ \E S \in SUBSET Jets : NewPulse(S)
           \/ TruncateHead /\ pulses' = {p \in pulses : p <= top}
<1>1. ASSUME NEW q \in Procs PROVE ~Step(q)
  BY DEF Step, StoreDrop, AddDropConfirmation, UpdateJets, AddHotConfirmation,
     CheckConfirms, CheckNextTop, MakeBackup, AddBackupConfirmation, UpdateTopSyncPulse,
     CheckNewTop, UpdateLastKnownPulse, Fatal, storage
<1>2. ~Crash /\ ~Restart /\ ~StartComponents /\ ~UNCHANGED vars
  BY DEF Crash, Restart, Stop, StartComponents, storage, vars
<1>3. ~(\E q \in Procs, m \in inbox : Receive(q, m))
  BY DEF Receive, storage
<1> QED BY <1>1, <1>2, <1>3 DEF Next, TruncateHead

\* Every step of the heavy node is a step of the ledger, or none.
LEMMA LedgerStep ==
    ASSUME TypeInv, ConfirmInv, ConfirmInv', [Next]_vars
    PROVE  [Ledger!Next]_(Ledger!vars)
<1>t. /\ top \in Nat /\ lastPulse \in Nat
      /\ \A x \in pulses : x \in Nat /\ x <= lastPulse
      /\ top <= lastPulse
  BY BoundsAssumption DEF TypeInv, TypeOK, Pulses, ConfirmInv, PulseInv
<1>f. top' = top /\ Finalized' = Finalized => FinalRecords' = FinalRecords
  BY FinalUntouched, LedgerFrame DEF ConfirmInv
<1>1. CASE top' # top
  <2>1. Next
    BY <1>1 DEF vars, keeper
  <2> QED BY <1>1, <2>1, FinalizeStep DEF Ledger!Next
<1>2. CASE top' = top /\ pulses' = pulses
  <2>1. Finalized' = Finalized
    BY <1>2 DEF Finalized
  <2> QED BY <1>2, <1>f, <2>1 DEF Ledger!vars
<1>3. ASSUME top' = top, NEW S \in SUBSET Jets, NewPulse(S) PROVE Ledger!Next
  <2>1. pulses' = pulses \cup {lastPulse + 1}
    BY <1>3 DEF NewPulse
  <2>2. Finalized' = Finalized
    BY <1>t, <1>3, <2>1 DEF Finalized
  <2>3. lastPulse + 1 \in Nat /\ \A x \in pulses : x < lastPulse + 1
    BY <1>t
  <2>4. Ledger!Learn
    BY <1>3, <1>f, <2>1, <2>2, <2>3 DEF Ledger!Learn
  <2> QED BY <2>4 DEF Ledger!Next
<1>4. CASE top' = top /\ pulses' = {p \in pulses : p <= top}
  <2>1. Finalized' = Finalized
    BY <1>4 DEF Finalized
  <2>2. Ledger!Rollback
    BY <1>4, <1>f, <2>1 DEF Ledger!Rollback
  <2> QED BY <2>2 DEF Ledger!Next
<1> QED BY <1>1, <1>2, <1>3, <1>4, PulsesStep

\* The heavy node implements the ledger of final pulses, with either backend,
\* for any tree of jets, any number of handlers, any order of confirmations and
\* any crashes.  That a record of a final pulse is never written again rests on
\* NothingPending: whoever completed the pulse had applied its last message.
THEOREM HeavyImplementsLedger == Spec => ImplementsLedger
<1>1. Init => Ledger!Init
  <2> SUFFICES ASSUME Init PROVE Ledger!Init
    OBVIOUS
  <2>1. Finalized = {}
    BY DEF Init, Finalized
  <2>2. FinalRecords = [p \in {} |-> {}]
    BY <2>1 DEF FinalRecords
  <2> QED BY <2>2 DEF Init, Ledger!Init
<1>2. Init => TypeInv /\ ConfirmInv
  BY InitType, InitConfirm
<1>3. (TypeInv /\ ConfirmInv) /\ [Next]_vars => (TypeInv /\ ConfirmInv)'
  BY NextType, NextConfirm
<1>4. (TypeInv /\ ConfirmInv) /\ [Next]_vars => [Ledger!Next]_(Ledger!vars)
  BY NextConfirm, LedgerStep
<1> QED BY <1>1, <1>2, <1>3, <1>4, PTL DEF Spec, ImplementsLedger, Ledger!Spec

-----------------------------------------------------------------------------
(* The node never stops itself, with the Badger backend.                   *)

\* The records of the top sync pulse are always there.
LEMMA TopIsRecorded ==
    ASSUME TypeInv, ConfirmInv, NEW p
    PROVE  ~TopSyncJetsMissing(p)
<1>1. CASE top = 0
  BY <1>1 DEF TopSyncJetsMissing
<1>2. CASE top # 0
  <2>1. 0 < top /\ top <= top
    BY <1>2, BoundsAssumption DEF TypeInv, TypeOK, Pulses
  <2>2. top \in Finalized
    BY <2>1 DEF ConfirmInv, PulseInv, Finalized
  <2> QED BY <2>2 DEF ConfirmInv, FinalizedComplete, TopSyncJetsMissing
<1> QED BY <1>1, <1>2

\* What a message says of its jet's split is what its record says.
LEMMA MessageAgrees ==
    ASSUME TypeInv, ConfirmInv, NEW m \in Out
    PROVE  /\ info[m.pulse][Owner(m)].split \in {"unset", Flag(m.split)}
           /\ info[m.pulse][Owner(m)].hot \subseteq Successors(Owner(m), m.split)
           /\ m.kind = "hot" => m.jet \in Successors(Owner(m), m.split)
<1>1. PICK p \in Pulses, j \in Jets : p = m.pulse /\ j = Owner(m)
  BY OutFacts
<1>2. m.split \in BOOLEAN
  BY OutFacts
<1>3. PICK S \in SUBSET Jets : Split(p, S)
  BY DEF ConfirmInv, SplitInv
<1>4. /\ m.split <=> j \in S
      /\ m.kind = "hot" => m.jet \in Successors(j, m.split)
  BY <1>1, <1>3 DEF Split, Expected
<1>5. m.split = (j \in S)
  BY <1>2, <1>4
<1>6. CASE info[p][j].split = "unset"
  <2>1. info[p][j].hot = {}
    BY <1>6 DEF ConfirmInv, RecordInv
  <2> QED BY <1>1, <1>4, <1>6, <2>1
<1>7. CASE info[p][j].split # "unset"
  <2>1. j \in Entries(p)
    BY <1>7 DEF Entries
  <2>2. info[p][j].split = Flag(j \in S) /\ info[p][j].hot \subseteq Successors(j, j \in S)
    BY <1>3, <2>1 DEF Split, RecordAgrees
  <2>3. info[p][j].split = Flag(m.split) /\ info[p][j].hot \subseteq Successors(j, m.split)
    BY <1>5, <2>2
  <2> QED BY <1>1, <1>4, <2>3
<1> QED BY <1>6, <1>7

\* AddDropConfirmation accepts every drop that arrives.
LEMMA DropAccepted ==
    ASSUME TypeInv, ConfirmInv, NEW q \in Procs, pc[q] = "drop"
    PROVE  LET m == msg[q] IN
           /\ ~info[m.pulse][m.jet].drop
           /\ info[m.pulse][m.jet].split \in {"unset", Flag(m.split)}
<1>1. PICK m : m = msg[q]
  OBVIOUS
<1>2. m \in Out
  BY <1>1 DEF Out, Unapplied
<1>3. m.kind = "drop"
  BY <1>1, <1>2, OutFacts DEF TypeInv, MessagesFit, Working
<1>4. Owner(m) = m.jet
  BY <1>3 DEF Owner
<1>5. ~info[m.pulse][m.jet].drop
  BY <1>2, <1>3 DEF ConfirmInv, FreshInv, Fresh
<1>6. info[m.pulse][m.jet].split \in {"unset", Flag(m.split)}
  BY <1>2, <1>4, MessageAgrees
<1> QED BY <1>1, <1>5, <1>6

\* AddHotConfirmation accepts every hot confirmation that arrives.
LEMMA HotAccepted ==
    ASSUME TypeInv, ConfirmInv, NEW q \in Procs, pc[q] = "hot"
    PROVE  LET m == msg[q]
               i == info[m.pulse][IF m.split THEN Parent(m.jet) ELSE m.jet] IN
           /\ ~(Cardinality(i.hot) >= 2)
           /\ m.jet \notin i.hot
           /\ i.split \in {"unset", Flag(m.split)}
<1>1. PICK m : m = msg[q]
  OBVIOUS
<1>2. m \in Out
  BY <1>1 DEF Out, Unapplied
<1>3. m.kind = "hot" /\ m.split \in BOOLEAN
  BY <1>1, <1>2, OutFacts DEF TypeInv, MessagesFit, Working
<1>4. PICK j \in Jets : j = Owner(m)
  BY <1>2, OutFacts
<1>5. j = IF m.split THEN Parent(m.jet) ELSE m.jet
  BY <1>3, <1>4 DEF Owner
<1>6. PICK i : i = info[m.pulse][j]
  OBVIOUS
<1>7. i.split \in {"unset", Flag(m.split)} /\ i.hot \in SUBSET Successors(j, m.split)
      /\ m.jet \in Successors(j, m.split)
  BY <1>2, <1>3, <1>4, <1>6, MessageAgrees
<1>8. m.jet \notin i.hot
  BY <1>2, <1>3, <1>4, <1>6 DEF ConfirmInv, FreshInv, Fresh
<1>9. Cardinality(i.hot) \in Nat /\ Cardinality(i.hot) < 2
  BY <1>3, <1>7, <1>8, HotFacts
<1>10. ~(Cardinality(i.hot) >= 2)
  BY <1>9
<1> QED BY <1>1, <1>5, <1>6, <1>7, <1>8, <1>10

\* A goroutine at the backup confirmation or beyond it has a complete pulse,
\* the one after the top sync pulse.
LEMMA AheadIsComplete ==
    ASSUME TypeInv, ConfirmInv, AheadInv, Up, NEW q \in Procs, pc[q] \in {"lock", "sync"}
    PROVE  /\ top < fin[q] /\ IsPrevious(top, fin[q]) /\ Complete(fin[q])
           /\ pc[q] = "sync" => \A j \in Entries(fin[q]) : info[fin[q]][j].backup
<1>1. top < fin[q]
  BY DEF AheadInv, Up
<1>2. ~(fin[q] <= top)
  BY <1>1, BoundsAssumption DEF TypeInv, TypeOK, Pulses
<1> QED BY <1>1, <1>2 DEF ConfirmInv, ConsistInv, Up

\* updateTopSyncPulse finds everything that it looks for.
LEMMA SyncSucceeds ==
    ASSUME TypeInv, ConfirmInv, AheadInv, Up, NEW q \in Procs, pc[q] = "sync"
    PROVE  CheckPulseConsistency(fin[q], TRUE)
<1>1. PICK p \in Pulses : p = fin[q]
  BY DEF TypeInv, TypeOK
<1>2. IsPrevious(top, p) /\ Complete(p) /\ \A j \in Entries(p) : info[p][j].backup
  BY <1>1, AheadIsComplete
<1>3. Entries(p) = TopSyncJets
  BY <1>2 DEF IsPrevious, ConfirmInv, ChainInv, Complete, Up
<1>4. \A j \in Entries(p) : IsConfirmed(p, j, TRUE)
  BY <1>2 DEF Complete, IsConfirmed
<1>5. Entries(p) # {} /\ Entries(p) = LeafIDs(p)
  BY <1>2 DEF Complete
<1> QED BY <1>1, <1>2, <1>3, <1>4, <1>5 DEF CheckPulseConsistency

\* No step of a goroutine stops the node.
LEMMA StepStaysUp ==
    ASSUME TypeInv, ConfirmInv, AheadInv, NEW q \in Procs, Step(q)
    PROVE  status = "up" /\ status' = "up"
<1>g. ASSUME NEW here, NEW there, Goto(q, here, there) PROVE status = "up"
  BY <1>g DEF Goto, Up
<1>f. ASSUME NEW here, Finish(q, here) PROVE status = "up"
  BY <1>f DEF Finish, Goto, Up
<1>1. CASE StoreDrop(q)
  BY <1>1, <1>g DEF StoreDrop, process
<1>2. CASE AddDropConfirmation(q)
  <2>1. pc[q] = "drop"
    BY <1>2 DEF AddDropConfirmation
  <2>2. Goto(q, "drop", "tree") /\ UNCHANGED process
    BY <1>2, <2>1, DropAccepted DEF AddDropConfirmation
  <2> QED BY <1>g, <2>2 DEF process
<1>3. CASE UpdateJets(q)
  BY <1>3, <1>g DEF UpdateJets, process
<1>4. CASE AddHotConfirmation(q)
  <2>1. pc[q] = "hot"
    BY <1>4 DEF AddHotConfirmation
  <2>2. Goto(q, "hot", "finalize") /\ UNCHANGED process
    BY <1>4, <2>1, HotAccepted DEF AddHotConfirmation
  <2> QED BY <1>g, <2>2 DEF process
<1>5. CASE CheckConfirms(q)
  <2>1. \/ Goto(q, "finalize", "next") /\ UNCHANGED process
        \/ Finish(q, "finalize") /\ UNCHANGED process
    BY <1>5, TopIsRecorded DEF CheckConfirms
  <2> QED BY <1>f, <1>g, <2>1 DEF process
<1>6. CASE CheckNextTop(q)
  BY <1>6, <1>f, <1>g DEF CheckNextTop, process
<1>7. CASE MakeBackup(q)
  BY <1>7, <1>f, <1>g DEF MakeBackup
<1>8. CASE AddBackupConfirmation(q)
  <2>1. pc[q] = "lock" /\ Up
    BY <1>8 DEF AddBackupConfirmation, Fatal, Goto
  <2>2. Entries(fin[q]) # {}
    BY <2>1, AheadIsComplete DEF Complete
  <2>3. Goto(q, "lock", "sync") /\ UNCHANGED process
    BY <1>8, <2>2 DEF AddBackupConfirmation
  <2> QED BY <1>g, <2>3 DEF process
<1>9. CASE UpdateTopSyncPulse(q)
  <2>1. Goto(q, "sync", "check") /\ UNCHANGED process
    BY <1>9, TopIsRecorded DEF UpdateTopSyncPulse
  <2> QED BY <1>g, <2>1 DEF process
<1>10. CASE CheckNewTop(q)
  <2>1. fin[q] = top
    BY <1>10 DEF CheckNewTop, AheadInv, StepReachesTop
  <2>2. Goto(q, "check", "index") /\ UNCHANGED process
    BY <1>10, <2>1 DEF CheckNewTop
  <2> QED BY <1>g, <2>2 DEF process
<1>11. CASE UpdateLastKnownPulse(q)
  BY <1>11, <1>f, <1>g DEF UpdateLastKnownPulse, process
<1> QED
  BY <1>1, <1>2, <1>3, <1>4, <1>5, <1>6, <1>7, <1>8, <1>9, <1>10, <1>11 DEF Step

\* A goroutine that does not come to the three points disturbs nobody.
LEMMA ElsewhereAhead ==
    ASSUME TypeInv, AheadInv, NEW q \in Procs, NEW here, NEW there \in PCs,
           Goto(q, here, there), there \notin {"lock", "sync", "check"},
           \A r \in Procs : r # q => fin'[r] = fin[r],
           top' = top, status' = "up"
    PROVE  AheadInv'
<1>1. Up /\ \A r \in Procs : pc'[r] = IF r = q THEN there ELSE pc[r]
  BY GotoType DEF TypeInv, Goto
<1> QED BY <1>1 DEF AheadInv, StepReachesTop, NoFatal, Up

\* A step of a goroutine keeps AheadInv.  The backup maker lets only a pulse
\* through that is newer than its last one, and so newer than the top.
LEMMA StepAhead ==
    ASSUME Backuper = "badger", TypeInv, FinalizerInv, FollowInv, ConfirmInv, AheadInv,
           NEW q \in Procs, Step(q)
    PROVE  AheadInv'
<1>u. Up /\ status' = "up"
  BY StepStaysUp DEF Up
<1>t. /\ top \in Int /\ lastBackuped \in Int
      /\ \A r \in Procs : fin[r] \in Int
  BY BoundsAssumption DEF TypeInv, TypeOK, Pulses
<1>n. \A here : ~Fatal(q, here)
  BY <1>u DEF Fatal
<1>p. /\ {"drop", "tree", "finalize", "next", "backup", "lock", "sync", "check", "index", "idle"} \subseteq PCs
      /\ {"drop", "tree", "finalize", "next", "backup", "index", "idle"} \cap {"lock", "sync", "check"} = {}
  BY DEF PCs
<1>f. ASSUME NEW here, Finish(q, here)
      PROVE  /\ Goto(q, here, "idle")
             /\ \A r \in Procs : r # q => fin'[r] = fin[r]
  BY <1>f DEF Finish, TypeInv, TypeOK
<1>g. ASSUME NEW here, NEW there \in PCs, Goto(q, here, there)
      PROVE  pc[q] = here /\ \A r \in Procs : pc'[r] = IF r = q THEN there ELSE pc[r]
  BY <1>g, GotoType DEF TypeInv, Goto
<1>i. ASSUME NEW here, Finish(q, here), top' = top PROVE AheadInv'
  BY <1>f, <1>i, <1>p, <1>u, ElsewhereAhead
<1>m. ASSUME NEW here, NEW there \in {"drop", "tree", "finalize", "next", "backup", "index"},
             Goto(q, here, there), top' = top, \A r \in Procs : r # q => fin'[r] = fin[r]
      PROVE  AheadInv'
  <2>1. there \in PCs /\ there \notin {"lock", "sync", "check"}
    BY <1>p
  <2> QED BY <1>m, <1>u, <2>1, ElsewhereAhead
<1>1. CASE StoreDrop(q)
  <2>1. Goto(q, "store", "drop") /\ top' = top /\ fin' = fin
    BY <1>1 DEF StoreDrop, keeper
  <2> QED BY <1>m, <2>1
<1>2. CASE AddDropConfirmation(q)
  <2>1. Goto(q, "drop", "tree") /\ top' = top /\ fin' = fin
    BY <1>2, <1>n DEF AddDropConfirmation
  <2> QED BY <1>m, <2>1
<1>3. CASE UpdateJets(q)
  <2>1. Goto(q, "tree", "finalize") /\ top' = top /\ fin' = fin
    BY <1>3 DEF UpdateJets, keeper
  <2> QED BY <1>m, <2>1
<1>4. CASE AddHotConfirmation(q)
  <2>1. Goto(q, "hot", "finalize") /\ top' = top /\ fin' = fin
    BY <1>4, <1>n DEF AddHotConfirmation
  <2> QED BY <1>m, <2>1
<1>5. CASE CheckConfirms(q)
  <2>1. /\ top' = top
        /\ \/ Goto(q, "finalize", "next") /\ fin' = fin
           \/ Finish(q, "finalize")
    BY <1>5, <1>n DEF CheckConfirms, keeper
  <2>2. CASE Goto(q, "finalize", "next") /\ fin' = fin
    BY <1>m, <2>1, <2>2
  <2> QED BY <1>i, <2>1, <2>2
<1>6. CASE CheckNextTop(q)
  <2>1. /\ top' = top
        /\ \/ Goto(q, "next", "backup") /\ fin' = fin
           \/ Finish(q, "next")
    BY <1>6 DEF CheckNextTop, keeper
  <2>2. CASE Goto(q, "next", "backup") /\ fin' = fin
    BY <1>m, <2>1, <2>2
  <2> QED BY <1>i, <2>1, <2>2
<1>7. CASE MakeBackup(q)
  <2>1. top' = top
    BY <1>7 DEF MakeBackup, keeper
  <2>2. CASE fin[q] <= lastBackuped
    BY <1>7, <1>i, <2>1, <2>2 DEF MakeBackup
  <2>3. CASE ~(fin[q] <= lastBackuped)
    <3>1. Goto(q, "backup", "lock") /\ fin' = fin
      BY <1>7, <2>3 DEF MakeBackup
    <3>2. top <= lastBackuped
      BY <1>u DEF FinalizerInv, TopBackuped, Up
    <3>3. top < fin[q]
      BY <1>t, <2>3, <3>2
    <3>4. \A r \in Procs : pc'[r] = IF r = q THEN "lock" ELSE pc[r]
      BY <1>g, <1>p, <3>1
    <3> QED BY <1>u, <2>1, <3>1, <3>3, <3>4 DEF AheadInv, StepReachesTop, NoFatal, Up
  <2> QED BY <2>2, <2>3
<1>8. CASE AddBackupConfirmation(q)
  <2>1. Goto(q, "lock", "sync") /\ top' = top /\ fin' = fin
    BY <1>8, <1>n DEF AddBackupConfirmation
  <2>2. pc[q] = "lock" /\ \A r \in Procs : pc'[r] = IF r = q THEN "sync" ELSE pc[r]
    BY <1>g, <1>p, <2>1
  <2> QED BY <1>u, <2>1, <2>2 DEF AheadInv, StepReachesTop, NoFatal, Up
<1>9. CASE UpdateTopSyncPulse(q)
  <2>1. /\ Goto(q, "sync", "check") /\ fin' = fin
        /\ top' = IF CheckPulseConsistency(fin[q], TRUE) THEN fin[q] ELSE top
    BY <1>9, <1>n DEF UpdateTopSyncPulse
  <2>2. pc[q] = "sync" /\ \A r \in Procs : pc'[r] = IF r = q THEN "check" ELSE pc[r]
    BY <1>g, <1>p, <2>1
  <2>3. top' = fin[q]
    BY <1>u, <2>1, <2>2, SyncSucceeds
  <2>4. \A r \in Procs : r # q => pc[r] \notin {"sync", "check"}
    BY <2>2 DEF FollowInv, LockInv, Finalizing
  <2>5. ASSUME NEW r \in Procs, pc'[r] \in {"lock", "sync"} PROVE FALSE
    <3>1. r # q /\ pc[r] = "lock"
      BY <2>2, <2>4, <2>5
    <3>2. IsPrevious(top, fin[q]) /\ IsPrevious(top, fin[r])
      BY <1>u, <2>2, <3>1, AheadIsComplete
    <3>3. ~(fin[q] < fin[r]) /\ ~(fin[r] < fin[q])
      BY <3>2 DEF IsPrevious
    <3>4. fin[q] = fin[r]
      BY <1>t, <3>3
    <3> QED BY <2>2, <3>1, <3>4 DEF FinalizerInv, OneFinalizer
  <2>6. StepReachesTop'
    BY <2>1, <2>2, <2>3, <2>4 DEF StepReachesTop
  <2> QED BY <1>u, <2>5, <2>6 DEF AheadInv, NoFatal
<1>10. CASE CheckNewTop(q)
  <2>1. Goto(q, "check", "index") /\ top' = top /\ fin' = fin
    BY <1>10, <1>n DEF CheckNewTop, keeper
  <2> QED BY <1>m, <2>1
<1>11. CASE UpdateLastKnownPulse(q)
  <2>1. top' = top
    BY <1>11 DEF UpdateLastKnownPulse, keeper
  <2>2. CASE Finish(q, "index")
    BY <1>i, <2>1, <2>2
  <2>3. CASE ~Finish(q, "index")
    <3>1. PICK p \in pulses : Goto(q, "index", "finalize") /\ fin' = [fin EXCEPT ![q] = p]
      BY <1>11, <2>3 DEF UpdateLastKnownPulse
    <3>2. \A r \in Procs : r # q => fin'[r] = fin[r]
      BY <3>1 DEF TypeInv, TypeOK
    <3> QED BY <1>m, <2>1, <3>1, <3>2
  <2> QED BY <2>2, <2>3
<1> QED
  BY <1>1, <1>2, <1>3, <1>4, <1>5, <1>6, <1>7, <1>8, <1>9, <1>10, <1>11 DEF Step

\* InitialStateKeeper.Start finds the drop of every jet of the top sync pulse.
LEMMA InitialStateIsThere ==
    ASSUME TypeInv, ConfirmInv
    PROVE  \A j \in LeafIDs(top) : <<top, j>> \in drops
<1> SUFFICES ASSUME NEW j \in LeafIDs(top) PROVE <<top, j>> \in drops
  OBVIOUS
<1>1. top \in Pulses /\ j \in tree[top] /\ j \in Jets
  BY DEF LeafIDs, TypeInv, TypeOK
<1>2. top # 0
  BY <1>1 DEF ConfirmInv, RecordInv
<1>3. 0 < top /\ top <= top
  BY <1>1, <1>2, BoundsAssumption DEF Pulses
<1>4. top \in Finalized
  BY <1>3 DEF ConfirmInv, PulseInv, Finalized
<1> QED BY <1>4 DEF ConfirmInv, FinalizedComplete

\* AheadInv is inductive with the Badger backend.
LEMMA NextAhead ==
    ASSUME Backuper = "badger", TypeInv, FinalizerInv, FollowInv, ConfirmInv, AheadInv, [Next]_vars
    PROVE  AheadInv'
<1>i. ASSUME \A q \in Procs : pc'[q] = "idle", NoFatal' PROVE AheadInv'
  BY <1>i DEF AheadInv, StepReachesTop
<1>1. ASSUME NEW S \in SUBSET Jets, NewPulse(S) PROVE AheadInv'
  <2>1. Up /\ status' \in {"up", "down"} /\ UNCHANGED <<pc, fin, top>>
    BY <1>1 DEF NewPulse, keeper
  <2> QED BY <2>1 DEF AheadInv, StepReachesTop, NoFatal, Up
<1>2. ASSUME NEW q \in Procs, NEW m \in inbox, Receive(q, m) PROVE AheadInv'
  <2>1. PICK there \in {"store", "hot"} : Goto(q, "idle", there)
    BY <1>2 DEF Receive
  <2>2. there \in PCs /\ there \notin {"lock", "sync", "check"}
    BY DEF PCs
  <2>3. \A r \in Procs : r # q => fin'[r] = fin[r]
    BY <1>2 DEF Receive, TypeInv, TypeOK
  <2>4. top' = top /\ status' = "up"
    BY <1>2, <2>1 DEF Receive, Goto, Up, keeper, process
  <2> QED BY <2>1, <2>2, <2>3, <2>4, ElsewhereAhead
<1>3. ASSUME NEW q \in Procs, Step(q) PROVE AheadInv'
  BY <1>3, StepAhead
<1>4. CASE Crash
  BY <1>4, <1>i DEF Crash, Stop, NoFatal
<1>5. CASE Restart
  BY <1>5, <1>i DEF Restart, Stop, NoFatal
<1>6. CASE TruncateHead
  <2>1. UNCHANGED <<status, pc, fin, top>>
    BY <1>6 DEF TruncateHead
  <2> QED BY <2>1 DEF AheadInv, StepReachesTop, NoFatal
<1>7. CASE StartComponents
  <2>1. status = "rollback" /\ pc' = pc
    BY <1>7 DEF StartComponents
  <2>2. status' = "up"
    BY <1>7, InitialStateIsThere DEF StartComponents
  <2>3. \A q \in Procs : pc'[q] = "idle"
    BY <2>1 DEF ConfirmInv, QuietRollback
  <2> QED BY <1>i, <2>2, <2>3 DEF NoFatal
<1>8. CASE UNCHANGED vars
  <2>1. UNCHANGED <<status, pc, fin, top>>
    BY <1>8 DEF vars, keeper, process
  <2> QED BY <2>1 DEF AheadInv, StepReachesTop, NoFatal
<1> QED BY <1>1, <1>2, <1>3, <1>4, <1>5, <1>6, <1>7, <1>8 DEF Next

\* With the Badger backend no interleaving and no crash makes the node stop
\* itself: no confirmation is refused, every step makes its pulse the top sync
\* pulse, and a restart can always rebuild the initial state.
THEOREM NodeNeverStopsItself == Backuper = "badger" => (Spec => [](NoFatal /\ StepReachesTop))
<1> SUFFICES ASSUME Backuper = "badger" PROVE Spec => [](NoFatal /\ StepReachesTop)
  OBVIOUS
<1> DEFINE Inv == TypeInv /\ FinalizerInv /\ FollowInv /\ ConfirmInv /\ AheadInv
<1>1. Init => Inv
  <2>1. Init => AheadInv
    BY DEF Init, AheadInv, StepReachesTop, NoFatal
  <2> QED BY <2>1, InitType, InitFinalizer, InitFollows, InitConfirm
<1>2. Inv /\ [Next]_vars => Inv'
  BY NextType, NextFinalizer, NextFollows, NextConfirm, NextAhead
<1>3. Inv => NoFatal /\ StepReachesTop
  BY DEF AheadInv
<1> QED BY <1>1, <1>2, <1>3, PTL DEF Spec
=============================================================================
