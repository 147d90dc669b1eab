-------------------------- MODULE JetFetcherProofs --------------------------
(* No routine of a jet fetcher is left behind, for any number of routines  *)
(* and jets, although Release and the deferred delete of one routine may   *)
(* remove the entry of another.                                            *)
EXTENDS JetFetcher, TLAPS

\* A routine that has returned, or is about to, with a jet has seen it actual.
FoundInv == \A r \in Routines : routine[r].found => Target[r] \in actual

\* A routine that is about to delete has closed its own channel.
ClosedInv == \A r \in Routines : routine[r].pc = "delete" => routine[r].entry \in closed

\* A routine that fetches, or has fetched, has an entry.
EntryInv == \A r \in Routines : Executing(r) => routine[r].entry # 0

\* An entry in the sequencer belongs to a routine that will delete this key.
OwnerInv ==
    \A k \in Keys : sequencer[k] # 0 =>
        \E o \in Routines :
            Executing(o) /\ routine[o].entry = sequencer[k] /\ routine[o].key = k

\* Whoever sleeps has somebody who is going to close the channel.
SleepInv ==
    \A r \in Routines :
        routine[r].pc = "wait" /\ routine[r].entry \notin closed =>
            \E o \in Routines :
                routine[o].pc \in {"fetch", "close"} /\ routine[o].entry = routine[r].entry

Inv == TypeOK /\ FoundInv /\ ClosedInv /\ EntryInv /\ OwnerInv /\ SleepInv

LEMMA InitInv == Init => Inv
<1> SUFFICES ASSUME Init PROVE Inv
  OBVIOUS
<1>1. TypeOK
  BY DEF Init, TypeOK, Keys, RoutineStates
<1>2. FoundInv /\ ClosedInv /\ EntryInv /\ OwnerInv /\ SleepInv
  BY DEF Init, FoundInv, ClosedInv, EntryInv, Executing, OwnerInv, SleepInv
<1> QED BY <1>1, <1>2 DEF Inv

\* A routine that changes its control point, key and result is still one.
RoutineType ==
    [Routines -> [pc : RoutineStates, key : Keys, entry : 0 .. entries, found : BOOLEAN]]

LEMMA RoutineUpdate ==
    ASSUME TypeOK, NEW r \in Routines, NEW p \in RoutineStates, NEW f \in BOOLEAN, NEW k \in Keys
    PROVE  [routine EXCEPT ![r] = [@ EXCEPT !.pc = p, !.found = f, !.key = k]] \in RoutineType
<1> DEFINE new == [routine[r] EXCEPT !.pc = p, !.found = f, !.key = k]
<1>1. routine \in RoutineType /\ routine[r] \in [pc : RoutineStates, key : Keys,
                                                 entry : 0 .. entries, found : BOOLEAN]
  BY DEF TypeOK, RoutineType
<1>2. [routine EXCEPT ![r] = [@ EXCEPT !.pc = p, !.found = f, !.key = k]] = [routine EXCEPT ![r] = new]
  BY <1>1 DEF RoutineType
<1>3. new \in [pc : RoutineStates, key : Keys, entry : 0 .. entries, found : BOOLEAN]
  BY <1>1
<1> HIDE DEF new
<1> QED BY <1>1, <1>2, <1>3 DEF RoutineType

\* Each routine but r is where it was, and what it holds stays the same.
Others(r) == \A o \in Routines \ {r} : routine'[o] = routine[o]

\* A step of one routine that leaves the sequencer, the channels and the
\* entries alone, and neither begins to wait nor leaves its duty to close.
LEMMA PlainStep ==
    ASSUME Inv, NEW r \in Routines, Others(r), TypeOK',
           UNCHANGED <<sequencer, closed>>,
           actual \subseteq actual',
           routine'[r].found => Target[r] \in actual',
           routine'[r].pc \notin {"wait", "delete"},
           Executing(r)' => Executing(r),
           Executing(r) => routine[r].pc = "fetch" /\ routine'[r].pc \in {"fetch", "close"}
                           /\ routine'[r].entry = routine[r].entry
                           /\ routine'[r].key = routine[r].key
    PROVE  Inv'
<1>1. FoundInv'
  BY DEF Inv, FoundInv, Others
<1>2. ClosedInv' /\ EntryInv'
  BY DEF Inv, ClosedInv, EntryInv, Executing, Others
<1>3. OwnerInv'
  <2> SUFFICES ASSUME NEW k \in Keys, sequencer'[k] # 0
               PROVE  \E o \in Routines : Executing(o)' /\ routine'[o].entry = sequencer'[k]
                                          /\ routine'[o].key = k
    BY DEF OwnerInv
  <2>1. PICK o \in Routines : Executing(o) /\ routine[o].entry = sequencer[k] /\ routine[o].key = k
    BY DEF Inv, OwnerInv
  <2>2. Executing(o)' /\ routine'[o].entry = sequencer'[k] /\ routine'[o].key = k
    BY <2>1 DEF Others, Executing
  <2> QED BY <2>2
<1>4. SleepInv'
  <2> SUFFICES ASSUME NEW s \in Routines, routine'[s].pc = "wait", routine'[s].entry \notin closed'
               PROVE  \E o \in Routines : routine'[o].pc \in {"fetch", "close"}
                                          /\ routine'[o].entry = routine'[s].entry
    BY DEF SleepInv
  <2>1. s # r /\ routine'[s] = routine[s]
    BY DEF Others
  <2>2. PICK o \in Routines : routine[o].pc \in {"fetch", "close"} /\ routine[o].entry = routine[s].entry
    BY <2>1 DEF Inv, SleepInv
  <2>3. routine'[o].pc \in {"fetch", "close"} /\ routine'[o].entry = routine'[s].entry
    BY <2>1, <2>2 DEF Others, Executing
  <2> QED BY <2>3
<1> QED BY <1>1, <1>2, <1>3, <1>4 DEF Inv

LEMMA NextInv == Inv /\ [Next]_vars => Inv'
<1> SUFFICES ASSUME Inv, [Next]_vars PROVE Inv'
  OBVIOUS
<1> USE TargetAssumption, RootAssumption
<1>t. TypeOK
  BY DEF Inv
<1>1. ASSUME NEW r \in Routines, Call(r) PROVE Inv'
  <2>1. TypeOK'
    BY <1>t, <1>1 DEF TypeOK, Call, RoutineStates
  <2> QED BY <1>t, <1>1, <2>1, PlainStep DEF Inv, FoundInv, Call, Others, Executing, TypeOK
<1>2. ASSUME NEW r \in Routines, Look(r) PROVE Inv'
  <2>0. LocalJet(Target[r]) \in Keys
    BY DEF LocalJet, Keys
  <2>1. TypeOK'
    <3> DEFINE p == IF Target[r] \in actual THEN "done" ELSE "enter"
               f == Target[r] \in actual
    <3>1. p \in RoutineStates /\ f \in BOOLEAN
      BY DEF RoutineStates
    <3>2. routine' = [routine EXCEPT ![r] = [@ EXCEPT !.pc = p, !.found = f, !.key = LocalJet(Target[r])]]
      BY <1>2, Zenon DEF Look
    <3>3. routine' \in RoutineType
      <4> HIDE DEF p, f
      <4> QED BY <1>t, <2>0, <3>1, <3>2, RoutineUpdate
    <3> QED BY <1>t, <1>2, <3>3, Zenon DEF TypeOK, RoutineType, Look
  <2>2. /\ routine[r].pc = "look" /\ UNCHANGED <<actual, sequencer, closed>>
        /\ routine' = [routine EXCEPT ![r] = [routine[r] EXCEPT
                 !.pc = IF Target[r] \in actual THEN "done" ELSE "enter",
                 !.found = Target[r] \in actual, !.key = LocalJet(Target[r])]]
    BY <1>t, <1>2, Zenon DEF Look
  <2>3. Others(r)
    BY <1>t, <2>2 DEF Others, TypeOK
  <2>4. /\ routine'[r].pc = IF Target[r] \in actual THEN "done" ELSE "enter"
        /\ routine'[r].found = (Target[r] \in actual)
    BY <1>t, <2>2, Zenon DEF TypeOK
  <2>5. routine'[r].found => Target[r] \in actual'
    BY <2>2, <2>4
  <2>6. routine'[r].pc \in {"done", "enter"}
    BY <2>4
  <2>7. ~Executing(r) /\ ~Executing(r)' /\ routine'[r].pc \notin {"wait", "delete"}
    BY <2>2, <2>6 DEF Executing
  <2> QED BY <2>1, <2>2, <2>3, <2>5, <2>7, PlainStep
<1>3. ASSUME NEW r \in Routines, Enter(r) PROVE Inv'
  <2> DEFINE k == routine[r].key
  <2>0. k \in Keys
    BY <1>t DEF TypeOK
  <2>1. CASE sequencer[k] = 0
    <3>0. /\ entries' = entries + 1
          /\ sequencer' = [sequencer EXCEPT ![k] = entries + 1]
          /\ routine' = [routine EXCEPT ![r] = [@ EXCEPT !.pc = "fetch", !.entry = entries + 1]]
          /\ UNCHANGED <<actual, split, closed, hot>>
      BY <1>3, <2>1 DEF Enter
    <3>u. closed' = closed
      BY <3>0
    <3>1. TypeOK'
      <4> DEFINE new == [routine[r] EXCEPT !.pc = "fetch", !.entry = entries + 1]
                 Type == [pc : RoutineStates, key : Keys, entry : 0 .. entries + 1, found : BOOLEAN]
      <4>1. entries \in Nat /\ 0 .. entries \subseteq 0 .. entries + 1
        BY <1>t DEF TypeOK
      <4>2. routine' = [routine EXCEPT ![r] = new] /\ routine \in [Routines -> Type]
        BY <1>t, <3>0, <4>1 DEF TypeOK
      <4>3. new \in Type
        <5>1. routine[r] \in Type /\ "fetch" \in RoutineStates /\ entries + 1 \in 0 .. entries + 1
          BY <4>1, <4>2 DEF RoutineStates
        <5> QED BY <5>1
      <4>4. routine' \in [Routines -> Type]
        <5> HIDE DEF new, Type
        <5> QED BY <4>2, <4>3
      <4>5. /\ sequencer' \in [Keys -> 0 .. entries + 1] /\ closed' \subseteq 1 .. entries + 1
            /\ entries' = entries + 1 /\ entries + 1 \in Nat
        BY <1>t, <2>0, <3>0, <4>1 DEF TypeOK
      <4> QED BY <1>t, <3>0, <4>4, <4>5 DEF TypeOK
    <3>2. Others(r) /\ routine[r].pc = "enter"
      <4>1. routine[r].pc = "enter"
        BY <1>3 DEF Enter
      <4> QED BY <1>t, <3>0, <4>1 DEF Others, TypeOK
    <3>3. /\ routine'[r].pc = "fetch" /\ routine'[r].entry = entries + 1
          /\ routine'[r].key = k /\ routine'[r].found = routine[r].found
      BY <1>t, <3>0 DEF TypeOK
    <3>4. FoundInv' /\ ClosedInv' /\ EntryInv'
      <4>1. FoundInv'
        BY <3>0, <3>2, <3>3 DEF Inv, FoundInv, Others
      <4>2. ClosedInv'
        BY <3>u, <3>2, <3>3 DEF Inv, ClosedInv, Others
      <4>3. EntryInv'
        BY <1>t, <3>2, <3>3 DEF Inv, EntryInv, Executing, Others, TypeOK
      <4> QED BY <4>1, <4>2, <4>3
    <3>5. OwnerInv'
      <4> SUFFICES ASSUME NEW h \in Keys, sequencer'[h] # 0
                   PROVE  \E o \in Routines : Executing(o)' /\ routine'[o].entry = sequencer'[h]
                                              /\ routine'[o].key = h
        BY DEF OwnerInv
      <4>1. CASE h = k
        BY <1>t, <3>0, <3>3, <4>1 DEF Executing, TypeOK
      <4>2. CASE h # k
        <5>1. sequencer'[h] = sequencer[h]
          BY <1>t, <3>0, <4>2 DEF TypeOK
        <5>2. PICK o \in Routines : Executing(o) /\ routine[o].entry = sequencer[h] /\ routine[o].key = h
          BY <5>1 DEF Inv, OwnerInv
        <5> QED BY <3>2, <5>1, <5>2 DEF Others, Executing
      <4> QED BY <4>1, <4>2
    <3>6. SleepInv'
      <4> SUFFICES ASSUME NEW s \in Routines, routine'[s].pc = "wait", routine'[s].entry \notin closed'
                   PROVE  \E o \in Routines : routine'[o].pc \in {"fetch", "close"}
                                              /\ routine'[o].entry = routine'[s].entry
        BY DEF SleepInv
      <4>1. s # r /\ routine'[s] = routine[s]
        BY <3>2, <3>3 DEF Others
      <4>2. PICK o \in Routines : routine[o].pc \in {"fetch", "close"} /\ routine[o].entry = routine[s].entry
        BY <3>0, <4>1 DEF Inv, SleepInv
      <4> QED BY <3>2, <4>1, <4>2 DEF Others
    <3> QED BY <3>1, <3>4, <3>5, <3>6 DEF Inv
  <2>2. CASE sequencer[k] # 0
    <3>0. /\ routine' = [routine EXCEPT ![r] = [@ EXCEPT !.pc = "wait", !.entry = sequencer[k]]]
          /\ UNCHANGED <<actual, split, closed, hot, entries, sequencer>>
      BY <1>3, <2>2 DEF Enter
    <3>u. closed' = closed
      BY <3>0
    <3>1. TypeOK'
      <4>1. routine[r] \in [pc : RoutineStates, key : Keys, entry : 0 .. entries, found : BOOLEAN]
        BY <1>t DEF TypeOK
      <4>2. routine' = [routine EXCEPT ![r] = [routine[r] EXCEPT !.pc = "wait", !.entry = sequencer[k]]]
        BY <1>t, <3>0 DEF TypeOK
      <4>3. sequencer[k] \in 0 .. entries
        BY <1>t, <2>0 DEF TypeOK
      <4>4. [routine[r] EXCEPT !.pc = "wait", !.entry = sequencer[k]]
                \in [pc : RoutineStates, key : Keys, entry : 0 .. entries, found : BOOLEAN]
        BY <4>1, <4>3 DEF RoutineStates
      <4> QED BY <1>t, <3>0, <4>2, <4>4 DEF TypeOK
    <3>2. Others(r) /\ routine[r].pc = "enter"
      <4>1. routine[r].pc = "enter"
        BY <1>3 DEF Enter
      <4> QED BY <1>t, <3>0, <4>1 DEF Others, TypeOK
    <3>3. /\ routine'[r].pc = "wait" /\ routine'[r].entry = sequencer[k]
          /\ routine'[r].found = routine[r].found
      BY <1>t, <3>0 DEF TypeOK
    <3>4. FoundInv' /\ ClosedInv' /\ EntryInv'
      <4>1. FoundInv'
        BY <3>0, <3>2, <3>3 DEF Inv, FoundInv, Others
      <4>2. ClosedInv'
        BY <3>u, <3>2, <3>3 DEF Inv, ClosedInv, Others
      <4>3. EntryInv'
        BY <1>t, <3>2, <3>3 DEF Inv, EntryInv, Executing, Others, TypeOK
      <4> QED BY <4>1, <4>2, <4>3
    <3>5. OwnerInv'
      <4> SUFFICES ASSUME NEW h \in Keys, sequencer'[h] # 0
                   PROVE  \E o \in Routines : Executing(o)' /\ routine'[o].entry = sequencer'[h]
                                              /\ routine'[o].key = h
        BY DEF OwnerInv
      <4>1. PICK o \in Routines : Executing(o) /\ routine[o].entry = sequencer[h] /\ routine[o].key = h
        BY <3>0 DEF Inv, OwnerInv
      <4> QED BY <3>0, <3>2, <4>1 DEF Others, Executing
    <3>6. SleepInv'
      <4> SUFFICES ASSUME NEW s \in Routines, routine'[s].pc = "wait", routine'[s].entry \notin closed'
                   PROVE  \E o \in Routines : routine'[o].pc \in {"fetch", "close"}
                                              /\ routine'[o].entry = routine'[s].entry
        BY DEF SleepInv
      <4>1. CASE s = r
        <5>1. PICK o \in Routines : Executing(o) /\ routine[o].entry = sequencer[k]
          BY <2>0, <2>2 DEF Inv, OwnerInv
        <5>2. routine[o].pc \in {"fetch", "close"}
          BY <3>0, <3>3, <4>1, <5>1 DEF Inv, ClosedInv, Executing
        <5> QED BY <3>2, <3>3, <4>1, <5>1, <5>2 DEF Others
      <4>2. CASE s # r
        <5>1. routine'[s] = routine[s]
          BY <3>2, <4>2 DEF Others
        <5>2. PICK o \in Routines : routine[o].pc \in {"fetch", "close"} /\ routine[o].entry = routine[s].entry
          BY <3>u, <5>1 DEF Inv, SleepInv
        <5> QED BY <3>2, <5>1, <5>2 DEF Others
      <4> QED BY <4>1, <4>2
    <3> QED BY <3>1, <3>4, <3>5, <3>6 DEF Inv
  <2> QED BY <2>1, <2>2
<1>4. ASSUME NEW r \in Routines, Wake(r) PROVE Inv'
  <2>1. TypeOK'
    BY <1>t, <1>4 DEF TypeOK, Wake, RoutineStates
  <2> QED BY <1>t, <1>4, <2>1, PlainStep DEF Inv, FoundInv, Wake, Others, Executing, TypeOK
<1>5. ASSUME NEW r \in Routines, Fetched(r) PROVE Inv'
  <2>1. TypeOK'
    <3>1. routine[r] \in [pc : RoutineStates, key : Keys, entry : 0 .. entries, found : BOOLEAN]
      BY <1>t DEF TypeOK
    <3>2. routine' = [routine EXCEPT ![r] = [routine[r] EXCEPT !.pc = "close", !.found = TRUE]]
      BY <1>t, <1>5 DEF TypeOK, Fetched
    <3>3. [routine[r] EXCEPT !.pc = "close", !.found = TRUE]
              \in [pc : RoutineStates, key : Keys, entry : 0 .. entries, found : BOOLEAN]
      BY <3>1 DEF RoutineStates
    <3> QED BY <1>t, <1>5, <3>2, <3>3, TargetAssumption DEF TypeOK, Fetched, UpdateTree
  <2> QED BY <1>t, <1>5, <2>1, PlainStep DEF Fetched, UpdateTree, Others, Executing, TypeOK
<1>6. ASSUME NEW r \in Routines, FetchFails(r) PROVE Inv'
  <2>1. TypeOK'
    BY <1>t, <1>6 DEF TypeOK, FetchFails, RoutineStates
  <2> QED BY <1>t, <1>6, <2>1, PlainStep DEF Inv, FoundInv, FetchFails, Others, Executing, TypeOK
<1>7. ASSUME NEW r \in Routines, Close(r) PROVE Inv'
  <2>0. /\ Others(r) /\ routine[r].pc = "close" /\ routine'[r].pc = "delete"
        /\ routine'[r].entry = routine[r].entry /\ routine'[r].key = routine[r].key
        /\ routine'[r].found = routine[r].found
        /\ closed' = closed \cup {routine[r].entry}
        /\ UNCHANGED <<actual, sequencer>>
    BY <1>t, <1>7 DEF Close, Others, TypeOK
  <2>e. routine[r].entry # 0
    BY <2>0 DEF Inv, EntryInv, Executing
  <2>1. TypeOK'
    BY <1>t, <1>7, <2>e DEF TypeOK, Close, RoutineStates
  <2>2. FoundInv' /\ ClosedInv' /\ EntryInv'
    BY <2>0 DEF Inv, FoundInv, ClosedInv, EntryInv, Executing, Others
  <2>3. OwnerInv'
    BY <2>0 DEF Inv, OwnerInv, Executing, Others
  <2>4. SleepInv'
    <3> SUFFICES ASSUME NEW s \in Routines, routine'[s].pc = "wait", routine'[s].entry \notin closed'
                 PROVE  \E o \in Routines : routine'[o].pc \in {"fetch", "close"}
                                            /\ routine'[o].entry = routine'[s].entry
      BY DEF SleepInv
    <3>1. routine'[s] = routine[s]
      BY <2>0 DEF Others
    <3>2. PICK o \in Routines : routine[o].pc \in {"fetch", "close"} /\ routine[o].entry = routine[s].entry
      BY <2>0, <3>1 DEF Inv, SleepInv
    <3>3. o # r
      BY <2>0, <3>1, <3>2
    <3> QED BY <2>0, <3>1, <3>2, <3>3 DEF Others
  <2> QED BY <2>1, <2>2, <2>3, <2>4 DEF Inv
<1>8. ASSUME NEW r \in Routines, Delete(r) PROVE Inv'
  <2>0. /\ Others(r) /\ routine[r].pc = "delete" /\ routine'[r].pc = "done"
        /\ routine'[r].found = routine[r].found
        /\ sequencer' = [sequencer EXCEPT ![routine[r].key] = 0]
        /\ UNCHANGED <<actual, closed>>
    BY <1>t, <1>8 DEF Delete, Others, TypeOK
  <2>1. TypeOK'
    BY <1>t, <1>8 DEF TypeOK, Delete, RoutineStates
  <2>2. FoundInv' /\ ClosedInv' /\ EntryInv'
    BY <2>0 DEF Inv, FoundInv, ClosedInv, EntryInv, Executing, Others
  <2>3. OwnerInv'
    <3> SUFFICES ASSUME NEW h \in Keys, sequencer'[h] # 0
                 PROVE  \E o \in Routines : Executing(o)' /\ routine'[o].entry = sequencer'[h]
                                            /\ routine'[o].key = h
      BY DEF OwnerInv
    <3>1. h # routine[r].key /\ sequencer'[h] = sequencer[h]
      BY <1>t, <2>0 DEF TypeOK
    <3>2. PICK o \in Routines : Executing(o) /\ routine[o].entry = sequencer[h] /\ routine[o].key = h
      BY <3>1 DEF Inv, OwnerInv
    <3> QED BY <2>0, <3>1, <3>2 DEF Others, Executing
  <2>4. SleepInv'
    <3> SUFFICES ASSUME NEW s \in Routines, routine'[s].pc = "wait", routine'[s].entry \notin closed'
                 PROVE  \E o \in Routines : routine'[o].pc \in {"fetch", "close"}
                                            /\ routine'[o].entry = routine'[s].entry
      BY DEF SleepInv
    <3>1. routine'[s] = routine[s]
      BY <2>0 DEF Others
    <3>2. PICK o \in Routines : routine[o].pc \in {"fetch", "close"} /\ routine[o].entry = routine[s].entry
      BY <2>0, <3>1 DEF Inv, SleepInv
    <3> QED BY <2>0, <3>1, <3>2 DEF Others
  <2> QED BY <2>1, <2>2, <2>3, <2>4 DEF Inv
<1>9. ASSUME NEW j \in Jets, HotUpdate(j) PROVE Inv'
  <2>1. TypeOK'
    BY <1>t, <1>9 DEF TypeOK, HotUpdate, UpdateTree
  <2> QED BY <1>9, <2>1
        DEF HotUpdate, UpdateTree, Inv, FoundInv, ClosedInv, EntryInv, OwnerInv, SleepInv, Executing
<1>10. ASSUME NEW j \in Jets, Release(j) PROVE Inv'
  <2>0. /\ UNCHANGED <<actual, routine>> /\ closed \subseteq closed'
        /\ \A k \in Keys : sequencer'[k] \in {0, sequencer[k]}
    BY <1>t, <1>10 DEF Release, TypeOK
  <2>1. TypeOK'
    <3>1. j \in Keys /\ Root \in Keys
      BY DEF Keys
    <3>2. closed' \subseteq 1 .. entries
      <4>1. sequencer[j] \in 0 .. entries /\ sequencer[Root] \in 0 .. entries
        BY <1>t, <3>1 DEF TypeOK
      <4>2. {sequencer[j], sequencer[Root]} \ {0} \subseteq 1 .. entries
        BY <1>t, <4>1 DEF TypeOK
      <4> QED BY <1>t, <1>10, <4>2 DEF TypeOK, Release
    <3> QED BY <1>t, <1>10, <3>1, <3>2 DEF TypeOK, Release
  <2>2. FoundInv' /\ ClosedInv' /\ EntryInv' /\ SleepInv'
    BY <2>0 DEF Inv, FoundInv, ClosedInv, EntryInv, Executing, SleepInv
  <2>3. OwnerInv'
    BY <2>0 DEF Inv, OwnerInv, Executing
  <2> QED BY <2>1, <2>2, <2>3 DEF Inv
<1>11. CASE UNCHANGED vars
  BY <1>11 DEF vars, Inv, TypeOK, FoundInv, ClosedInv, EntryInv, OwnerInv, SleepInv, Executing
<1> QED
  BY <1>1, <1>2, <1>3, <1>4, <1>5, <1>6, <1>7, <1>8, <1>9, <1>10, <1>11 DEF Next

\* The jet fetcher loses nobody: a jet that is given back is actual, everybody
\* who sleeps on a channel has somebody who will close it, and the sequencer
\* keeps no entry of a fetch that has ended.
THEOREM NobodyIsLost == Spec => [](TypeOK /\ FoundIsActual /\ NobodyLeftAsleep /\ NoDeadEntry)
<1>1. Inv => TypeOK /\ FoundIsActual /\ NobodyLeftAsleep /\ NoDeadEntry
  <2> SUFFICES ASSUME Inv PROVE FoundIsActual /\ NobodyLeftAsleep /\ NoDeadEntry
    BY DEF Inv
  <2>1. FoundIsActual
    BY DEF Inv, FoundInv, FoundIsActual
  <2>2. NobodyLeftAsleep
    BY DEF Inv, SleepInv, NobodyLeftAsleep, Executing
  <2>3. NoDeadEntry
    BY DEF Inv, OwnerInv, NoDeadEntry
  <2> QED BY <2>1, <2>2, <2>3
<1> QED BY <1>1, InitInv, NextInv, PTL DEF Spec
=============================================================================
