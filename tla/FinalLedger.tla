----------------------------- MODULE FinalLedger -----------------------------
(***************************************************************************)
(* What the heavy node promises about its final pulses, whatever order the *)
(* drops and hot confirmations arrive in and wherever it crashes: the top  *)
(* sync pulse (badger_jetkeeper.go) walks along the known pulses one by    *)
(* one; each final pulse holds a drop for every jet, and its jets are the  *)
(* ones that the final pulse before it left behind, a jet that split being *)
(* continued by its two children; and what is final is never changed again *)
(* or lost.  A restart (db_rollback.go) forgets only pulses that are not   *)
(* final.                                                                  *)
(***************************************************************************)
EXTENDS Naturals, Sequences

VARIABLES
    known,        \* the pulses of the pulse storage
    top,          \* the newest final pulse
    ledger        \* ledger[p][j]: whether jet j split at the end of final pulse p

vars == <<known, top, ledger>>

Init ==
    /\ known = {0}
    /\ top = 0
    /\ ledger = [p \in {} |-> {}]

\* The jets of the pulse after the newest final one; after genesis, the root.
Following ==
    IF top = 0
      THEN {<< >>}
      ELSE UNION {IF ledger[top][j] THEN {Append(j, 0), Append(j, 1)} ELSE {j}
                    : j \in DOMAIN ledger[top]}

\* A new pulse, later than all the known ones.
Learn ==
    /\ \E p \in known' :
         /\ p \in Nat
         /\ \A q \in known : q < p
         /\ known' = known \cup {p}
    /\ UNCHANGED <<top, ledger>>

\* The pulse after the newest final one becomes final.
Finalize(p) ==
    /\ p > top
    /\ \A q \in known : ~(top < q /\ q < p)
    /\ top' = p
    /\ \E split \in [Following -> BOOLEAN] :
         ledger' = [q \in DOMAIN ledger \cup {p} |-> IF q = p THEN split ELSE ledger[q]]
    /\ UNCHANGED known

\* A restart forgets the pulses that are not final.
Rollback ==
    /\ known' = {p \in known : p <= top}
    /\ UNCHANGED <<top, ledger>>

Next ==
    \/ Learn
    \/ \E p \in known : Finalize(p)
    \/ Rollback

Spec == Init /\ [][Next]_vars
=============================================================================
