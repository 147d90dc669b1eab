----------------------------- MODULE WriteAccess -----------------------------
(***************************************************************************)
(* What the write controllers of the light node (ledger/light/executor/    *)
(* writecontroller.go) and of the virtual node (logicrunner/               *)
(* writecontroller/writecontroller.go) have in common: the pulse that can  *)
(* be written, whether it is closed, and the goroutines that write; and    *)
(* what both must keep, however they count their writers.                  *)
(***************************************************************************)
EXTENDS Integers, FiniteSets

CONSTANTS
    Writers,      \* goroutines that run flow procedures or message handlers
    MaxPulse      \* bound: pulses are numbered 1 .. MaxPulse, 0 is "no pulse"

ASSUME WritersAssumption == IsFiniteSet(Writers)
ASSUME MaxPulseAssumption == MaxPulse \in Nat \ {0}

VARIABLES
    current,      \* the controller's field current
    closed,       \* the controller's field closed
    writing       \* writing[w]: the pulse w writes to, 0 when w is outside

Active == {w \in Writers : writing[w] # 0}

\* No procedure writes for a pulse other than the current one: when Open has
\* moved the controller to a new pulse, nothing of the old one is in flight,
\* so what the ended pulse wrote can be sent as hot data.
NoStaleWriter == \A w \in Writers : writing[w] \in {0, current}

\* The barrier of WriteBarrier: what a controller shows of itself.
Barrier == INSTANCE WriteBarrier WITH
    pulse <- current, open <- ~closed, inside <- writing

\* The controller implements the write barrier: no writer of a pulse is left
\* when Open moves to the next one, and nobody gets into a pulse once
\* CloseAndWait has closed it.
ImplementsBarrier == Barrier!Spec
=============================================================================
