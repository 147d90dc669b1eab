--------------------------- MODULE FlowDispatcher ---------------------------
(***************************************************************************)
(* How messages meet pulse changes: insolar/flow/dispatcher/dispatcher.go, *)
(* insolar/flow/internal/thread/{controller,thread}.go, and the pulse      *)
(* managers of the three node kinds as far as they drive the dispatcher.   *)
(*                                                                         *)
(* The controller hands out three channels, each behind the lock but one   *)
(* by one: cancel (closed by ClosePulse, renewed by BeginPulse), canBegin  *)
(* (closed and renewed by BeginPulse) and canProcess (renewed by           *)
(* ClosePulse, closed by BeginPulse).  A message's goroutine waits for     *)
(* canProcess, reads cancel, reads canBegin, reads the latest pulse and    *)
(* only then knows whether the message is of the past, the present or the  *)
(* future: a pulse change can fall between any two of these steps.         *)
(*                                                                         *)
(* Channels are numbered: cancel and canBegin by the number of BeginPulse  *)
(* calls before they were made, canProcess by the number of ClosePulse     *)
(* calls.                                                                  *)
(***************************************************************************)
EXTENDS Integers

CONSTANTS
    Messages,     \* messages, each with its goroutine
    MaxPulse,     \* bound: pulses are 1 .. MaxPulse
    ClosesFirst   \* TRUE on a heavy node: ClosePulse before the node list

ASSUME MaxPulseAssumption == MaxPulse \in Nat \ {0}
ASSUME ClosesFirstAssumption == ClosesFirst \in BOOLEAN

VARIABLES
    begins,        \* BeginPulse calls: the number of Controller.cancel, canBegin
    closes,        \* ClosePulse calls: the number of Controller.canProcess
    cancelClosed,  \* closed cancel channels
    processClosed, \* closed canProcess channels
    latest,        \* pulse.Accessor.Latest, 0 before the first pulse
    set,           \* where PulseManager.Set is
    newPulse,      \* its argument, 0 outside a call
    thread         \* thread[m]: the goroutine of message m

controller == <<begins, closes, cancelClosed, processClosed>>
vars == <<begins, closes, cancelClosed, processClosed, latest, set, newPulse, thread>>

Pulses == 1 .. MaxPulse

\* "nodes": about to look at the node list; "close", "append", "begin": about
\* to make that call; "fatal": Set failed; "panic": close of a closed channel.
SetStates == {"idle", "nodes", "close", "append", "begin", "fatal", "panic"}

Running == set \notin {"fatal", "panic"}

\* "process": waits for canProcess; "cancel", "canBegin": NewThread is about
\* to read that channel; "choose": about to read the latest pulse; "migrate":
\* waits for canBegin; "handle": in the handler; "procedure": the handler
\* waits for a procedure; "cancelable": it waits for a procedure or for
\* cancel; "end": the handler has returned.
ThreadStates == {"none", "process", "cancel", "canBegin", "choose", "migrate",
                 "handle", "procedure", "cancelable", "end"}

Kinds == {"unknown", "past", "present", "future"}

Fresh == [pc |-> "none", pulse |-> 0, kind |-> "unknown", process |-> 0,
          cancel |-> 0, canBegin |-> 0]

Init ==
    /\ begins = 0
    /\ closes = 0
    /\ cancelClosed = {}
    /\ processClosed = {0}
    /\ latest = 0
    /\ set = "idle"
    /\ newPulse = 0
    /\ thread = [m \in Messages |-> Fresh]

-----------------------------------------------------------------------------
(* PulseManager.Set, as far as the dispatcher sees it.                      *)

Started == IF ClosesFirst THEN "close" ELSE "nodes"

SetPulse(p) ==
    /\ set = "idle"
    /\ newPulse' = p
    /\ set' = Started
    /\ UNCHANGED <<controller, latest, thread>>

\* The node list is not empty.  A light node that has no pulse yet then gets
\* one from the heavy node (PrepareState) before it calls ClosePulse.
SetNodes ==
    /\ set = "nodes"
    /\ set' = IF ClosesFirst THEN "append" ELSE "close"
    /\ latest' \in IF latest = 0 /\ ~ClosesFirst THEN 0 .. newPulse - 1 ELSE {latest}
    /\ UNCHANGED <<controller, newPulse, thread>>

\* "received zero nodes": Set returns without an error.
ZeroNodes ==
    /\ set = "nodes"
    /\ set' = "idle"
    /\ newPulse' = 0
    /\ UNCHANGED <<controller, latest, thread>>

\* Controller.ClosePulse.
ClosePulse ==
    /\ set = "close"
    /\ IF begins \in cancelClosed
         THEN /\ set' = "panic"
              /\ UNCHANGED controller
         ELSE /\ cancelClosed' = cancelClosed \cup {begins}
              /\ closes' = closes + 1
              /\ set' = IF ClosesFirst THEN "nodes" ELSE "append"
              /\ UNCHANGED <<begins, processClosed>>
    /\ UNCHANGED <<latest, newPulse, thread>>

\* Slip: Set returns before BeginPulse.
AppendReturns ==
    /\ set = "append"
    /\ latest' = newPulse
    /\ set' = "idle"
    /\ UNCHANGED <<controller, newPulse, thread>>

\* Appending the pulse (after the write controller has moved on, on a light
\* node); a pulse that is not later than the latest one stops the node.
Append ==
    /\ set = "append"
    /\ IF newPulse <= latest
         THEN /\ set' = "fatal"
              /\ UNCHANGED latest
         ELSE /\ latest' = newPulse
              /\ set' = "begin"
    /\ UNCHANGED <<controller, newPulse, thread>>

\* Slip: canProcess stays open.
BeginPulseHolds ==
    /\ set = "begin"
    /\ begins' = begins + 1
    /\ set' = "idle"
    /\ UNCHANGED <<closes, cancelClosed, processClosed, latest, newPulse, thread>>

\* Controller.BeginPulse.
BeginPulse ==
    /\ set = "begin"
    /\ begins' = begins + 1
    /\ processClosed' = processClosed \cup {closes}
    /\ set' = IF closes \in processClosed THEN "panic" ELSE "idle"
    /\ newPulse' = 0
    /\ UNCHANGED <<closes, cancelClosed, latest, thread>>

-----------------------------------------------------------------------------
(* The goroutine of a message.                                              *)

\* Process(msg) and the goroutine's read of canProcess.
Process(m, p) ==
    /\ Running
    /\ thread[m].pc = "none"
    /\ thread' = [thread EXCEPT ![m] =
          [pc |-> "process", pulse |-> p, kind |-> "unknown", process |-> closes,
           cancel |-> 0, canBegin |-> 0]]
    /\ UNCHANGED <<controller, latest, set, newPulse>>

\* <-d.controller.CanProcess()
Processes(m) ==
    /\ Running
    /\ thread[m].pc = "process"
    /\ thread[m].process \in processClosed
    /\ thread' = [thread EXCEPT ![m].pc = "cancel"]
    /\ UNCHANGED <<controller, latest, set, newPulse>>

\* NewThread, first read.
ReadCancel(m) ==
    /\ Running
    /\ thread[m].pc = "cancel"
    /\ thread' = [thread EXCEPT ![m] = [@ EXCEPT !.pc = "canBegin", !.cancel = begins]]
    /\ UNCHANGED <<controller, latest, set, newPulse>>

\* NewThread, second read.  The thread of a migrated message goes straight to
\* the present handler.
ReadCanBegin(m) ==
    /\ Running
    /\ thread[m].pc = "canBegin"
    /\ thread' = [thread EXCEPT ![m] = [@ EXCEPT
          !.pc = IF thread[m].kind = "future" THEN "handle" ELSE "choose",
          !.canBegin = begins]]
    /\ UNCHANGED <<controller, latest, set, newPulse>>

\* Slip: a message of the pulse that is being set counts as one of the future.
ChooseLate(m) ==
    /\ Running
    /\ thread[m].pc = "choose"
    /\ thread' = [thread EXCEPT ![m] = [@ EXCEPT
          !.pc = IF thread[m].pulse < latest THEN "handle" ELSE "migrate",
          !.kind = IF thread[m].pulse < latest THEN "past" ELSE "future"]]
    /\ UNCHANGED <<controller, latest, set, newPulse>>

\* getHandleByPulse: a message of the future migrates; one of the past is
\* handled when it only reads, and refused with ErrCancelled otherwise.
Choose(m) ==
    /\ Running
    /\ thread[m].pc = "choose"
    /\ \/ /\ thread[m].pulse = latest
          /\ thread' = [thread EXCEPT ![m] = [@ EXCEPT !.pc = "handle", !.kind = "present"]]
       \/ /\ thread[m].pulse < latest
          /\ \E next \in {"handle", "end"} :
                thread' = [thread EXCEPT ![m] = [@ EXCEPT !.pc = next, !.kind = "past"]]
       \/ /\ thread[m].pulse > latest
          /\ thread' = [thread EXCEPT ![m] = [@ EXCEPT !.pc = "migrate", !.kind = "future"]]
    /\ UNCHANGED <<controller, latest, set, newPulse>>

\* Migrate: <-f.canBegin, then a new thread for the same message.
Migrate(m) ==
    /\ Running
    /\ thread[m].pc = "migrate"
    /\ thread[m].canBegin < begins
    /\ thread' = [thread EXCEPT ![m].pc = "cancel"]
    /\ UNCHANGED <<controller, latest, set, newPulse>>

\* Slip: the procedure looks at the controller's cancel channel, not at the
\* one the thread was made with.
ProcedureReadsCancel(m) ==
    /\ Running
    /\ thread[m].pc = "handle"
    /\ \E next \in {"procedure", "cancelable"} :
          thread' = [thread EXCEPT ![m] = [@ EXCEPT !.pc =
             IF next = "cancelable" /\ begins \in cancelClosed THEN "end" ELSE next,
             !.cancel = begins]]
    /\ UNCHANGED <<controller, latest, set, newPulse>>

\* Thread.Procedure: a procedure that cannot be cancelled is started and
\* waited for; one that can is not even started when cancel is closed (the
\* handler then returns ErrCancelled).
Procedure(m) ==
    /\ Running
    /\ thread[m].pc = "handle"
    /\ \E next \in {"procedure", "cancelable"} :
          thread' = [thread EXCEPT ![m].pc =
             IF next = "cancelable" /\ thread[m].cancel \in cancelClosed THEN "end" ELSE next]
    /\ UNCHANGED <<controller, latest, set, newPulse>>

\* The procedure is done.
ProcedureDone(m) ==
    /\ Running
    /\ thread[m].pc \in {"procedure", "cancelable"}
    /\ thread' = [thread EXCEPT ![m].pc = "handle"]
    /\ UNCHANGED <<controller, latest, set, newPulse>>

\* Cancel is closed first: the handler returns ErrCancelled, the procedure
\* goes on in the background.
ProcedureCancelled(m) ==
    /\ Running
    /\ thread[m].pc = "cancelable"
    /\ thread[m].cancel \in cancelClosed
    /\ thread' = [thread EXCEPT ![m].pc = "end"]
    /\ UNCHANGED <<controller, latest, set, newPulse>>

\* The handler returns.
Return(m) ==
    /\ Running
    /\ thread[m].pc = "handle"
    /\ thread' = [thread EXCEPT ![m].pc = "end"]
    /\ UNCHANGED <<controller, latest, set, newPulse>>

Next ==
    \/ \E p \in Pulses : SetPulse(p)
    \/ SetNodes
    \/ ZeroNodes
    \/ ClosePulse
    \/ Append
    \/ BeginPulse
    \/ \E m \in Messages, p \in Pulses : Process(m, p)
    \/ \E m \in Messages : Processes(m)
    \/ \E m \in Messages : ReadCancel(m)
    \/ \E m \in Messages : ReadCanBegin(m)
    \/ \E m \in Messages : Choose(m)
    \/ \E m \in Messages : Migrate(m)
    \/ \E m \in Messages : Procedure(m)
    \/ \E m \in Messages : ProcedureDone(m)
    \/ \E m \in Messages : ProcedureCancelled(m)
    \/ \E m \in Messages : Return(m)

\* Set runs on once called, and the goroutines of messages are scheduled.  The
\* procedures of a handler end and it does not call them for ever (Return).
Fairness ==
    /\ WF_vars(SetNodes \/ ZeroNodes)
    /\ WF_vars(ClosePulse)
    /\ WF_vars(Append)
    /\ WF_vars(BeginPulse)
    /\ \A m \in Messages :
          /\ WF_vars(Processes(m))
          /\ WF_vars(ReadCancel(m))
          /\ WF_vars(ReadCanBegin(m))
          /\ WF_vars(Choose(m))
          /\ WF_vars(Migrate(m))
          /\ WF_vars(ProcedureDone(m))
          /\ SF_vars(Return(m))

Spec == Init /\ [][Next]_vars

FairSpec == Spec /\ Fairness

-----------------------------------------------------------------------------
Handling == {"handle", "procedure", "cancelable"}

\* Pulse p is over: ClosePulse has been called for the one after it.
Ended(p) == p < latest \/ (p = latest /\ begins \in cancelClosed)

ThreadType ==
    [pc : ThreadStates, pulse : 0 .. MaxPulse, kind : Kinds, process : Nat,
     cancel : Nat, canBegin : Nat]

\* Every variable has the type of the field or local it stands for.
TypeOK ==
    /\ begins \in Nat
    /\ closes \in Nat
    /\ cancelClosed \in SUBSET Nat
    /\ processClosed \in SUBSET Nat
    /\ latest \in 0 .. MaxPulse
    /\ set \in SetStates
    /\ newPulse \in 0 .. MaxPulse
    /\ thread \in [Messages -> ThreadType]

\* ClosePulse finds an open cancel channel and BeginPulse an open canProcess
\* channel, whatever calls of Set went before, those that returned early
\* included: nobody closes a closed channel.
NoPanic == set # "panic"

\* The cancellation reaches everybody: a handler that was given a message as
\* one of the present holds a closed cancel channel once that pulse is over,
\* although it read the channel before it knew the pulse.
EndedIsCancelled ==
    \A m \in Messages :
        /\ thread[m].pc \in Handling
        /\ thread[m].kind = "present"
        /\ Ended(thread[m].pulse)
        => thread[m].cancel \in cancelClosed

\* No message of the future sleeps through its pulse: when Set has finished
\* with that pulse, the channel the message waits for is closed, although the
\* message read the channel before it read the pulse.
FutureWakes ==
    \A m \in Messages :
        /\ thread[m].pc = "migrate"
        /\ thread[m].pulse <= latest
        /\ set = "idle"
        => thread[m].canBegin < begins

\* The state of the channels follows from where Set is, when Set looks at the
\* node list first.
ControllerInv ==
    /\ NoPanic
    /\ \A c \in 0 .. begins - 1 : c \in cancelClosed
    /\ begins \in cancelClosed <=> set \in {"append", "begin", "fatal"}
    /\ closes \in processClosed <=> set \in {"idle", "nodes", "close"}
    /\ \A c \in cancelClosed : c <= begins
    /\ \A c \in processClosed : c <= closes
    /\ begins > 0 \/ set = "begin" => latest > 0

\* What a thread knows of the channels it holds.
ThreadInv(m) ==
    /\ thread[m].pc # "none" => thread[m].pulse > 0
    /\ thread[m].pc \notin {"none", "process", "cancel"} => thread[m].cancel <= begins
    /\ thread[m].pc \in {"choose", "migrate"} => thread[m].canBegin <= begins
    /\ /\ thread[m].pc \in Handling
       /\ thread[m].kind = "present"
       /\ thread[m].cancel = begins
       /\ set \in {"idle", "nodes", "close"}
       => thread[m].pulse = latest
    /\ /\ thread[m].pc = "migrate"
       /\ thread[m].canBegin = begins
       /\ set \in {"idle", "nodes"} \/ (set = "close" /\ begins > 0)
       => thread[m].pulse > latest

\* The conjunction TLAPS proves inductive.
Inv ==
    /\ TypeOK
    /\ ControllerInv
    /\ \A m \in Messages : ThreadInv(m)

\* Every message gets its turn: the goroutine that waits for canProcess goes
\* on, and comes to wait for its pulse or to an end.
MessageHandled ==
    \A m \in Messages :
        thread[m].pc = "process" ~> (thread[m].pc \in {"migrate", "end"} \/ ~Running)

\* "the Procedure is marked as canceled if a pulse happens during it's
\* execution": a handler of the present is cancelled only when its pulse is
\* over.
CancelledOnlyByPulse ==
    \A m \in Messages :
        /\ thread[m].pc \in {"handle", "cancelable"}
        /\ thread[m].kind = "present"
        /\ thread[m].cancel \in cancelClosed
        => Ended(thread[m].pulse)
=============================================================================
