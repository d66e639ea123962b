------------------------------ MODULE EventFlow ------------------------------
(***************************************************************************)
(* What the trigger engine promises for every event a driver produces,     *)
(* whatever the trigger's settings: it waits, is handed to one worker or   *)
(* dropped, and is never seen again once it is handled or dropped.         *)
(***************************************************************************)
EXTENDS Naturals

CONSTANT Events

VARIABLE stage \* the stage of every event

Stages == {"new", "waiting", "handled", "gone"}

Init == stage = [e \in Events |-> "new"]

Produce(e) == stage[e] = "new" /\ stage' = [stage EXCEPT ![e] = "waiting"]

\* Coalesced by the debounce timer, dropped by the mode, or no longer wanted.
Drop(e) == stage[e] = "waiting" /\ stage' = [stage EXCEPT ![e] = "gone"]

Start(e) == stage[e] = "waiting" /\ stage' = [stage EXCEPT ![e] = "handled"]

Finish(e) == stage[e] = "handled" /\ stage' = [stage EXCEPT ![e] = "gone"]

\* A worker takes the next event of the queue when it has finished one.
FinishAndStart(e, f) ==
  /\ stage[e] = "handled" /\ stage[f] = "waiting"
  /\ stage' = [stage EXCEPT ![e] = "gone", ![f] = "handled"]

Next ==
  \/ \E e \in Events : Produce(e) \/ Drop(e) \/ Start(e) \/ Finish(e)
  \/ \E e, f \in Events : FinishAndStart(e, f)

Spec == Init /\ [][Next]_stage
=============================================================================
