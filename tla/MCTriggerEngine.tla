--------------------------- MODULE MCTriggerEngine ---------------------------
(* Trigger settings for the model-checking runs of TriggerEngine. *)
EXTENDS TriggerEngine

Set(mode, debounce, max) == [mode |-> mode, debounce |-> debounce, max |-> max]

\* Every mode, and a debounced one that lets timer callbacks run side by side.
OneOfEach    == {Set("queue", FALSE, 2), Set("queue", FALSE, 1), Set("drop", FALSE, 1),
                 Set("abort", FALSE, 1), Set("abort", TRUE, 1),
                 Set("parallel", FALSE, 1)}
QueueOrAbort == {Set("queue", FALSE, 1), Set("abort", FALSE, 1)}
=============================================================================
