---------------------------- MODULE WriteBarrier ----------------------------
(***************************************************************************)
(* What both write controllers promise (the light node's in                *)
(* ledger/light/executor/writecontroller.go and the virtual node's in      *)
(* logicrunner/writecontroller/writecontroller.go), without wait groups:   *)
(* a barrier between pulses.  Writers enter the pulse that is open; once   *)
(* it is shut nobody enters; the barrier moves on, to a later pulse only,  *)
(* when everybody has left.                                                *)
(***************************************************************************)
EXTENDS Naturals

CONSTANT Writers

VARIABLES
    pulse,        \* the pulse of the barrier, 0 before the first one
    open,         \* whether it may be entered
    inside        \* inside[w]: the pulse w has entered, 0 when w is outside

vars == <<pulse, open, inside>>

Init ==
    /\ pulse = 0
    /\ open = FALSE
    /\ inside = [w \in Writers |-> 0]

Enter(w) ==
    /\ open
    /\ inside[w] = 0
    /\ inside' = [inside EXCEPT ![w] = pulse]
    /\ UNCHANGED <<pulse, open>>

Leave(w) ==
    /\ inside[w] # 0
    /\ inside' = [inside EXCEPT ![w] = 0]
    /\ UNCHANGED <<pulse, open>>

Shut ==
    /\ open
    /\ open' = FALSE
    /\ UNCHANGED <<pulse, inside>>

Advance ==
    /\ ~open
    /\ \A w \in Writers : inside[w] = 0
    /\ pulse' \in Nat
    /\ pulse' > pulse
    /\ open' = TRUE
    /\ UNCHANGED inside

Next ==
    \/ \E w \in Writers : Enter(w) \/ Leave(w)
    \/ Shut
    \/ Advance

Spec == Init /\ [][Next]_vars
=============================================================================
