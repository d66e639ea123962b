----------------------------- MODULE MCConfigStore -----------------------------
(***************************************************************************)
(* ConfigStore with a threshold that falls back to another, the socket     *)
(* address, one plugin key, and texts that no threshold accepts.           *)
(***************************************************************************)
EXTENDS ConfigStore, TLC

MCFields   == {"error_threshold", "trigger_error_threshold", "socket_address"}
MCFallback == "trigger_error_threshold" :> "error_threshold"
MCTexts    == {"9", "${N}"}
MCParse    == [f \in MCFields |-> [t \in MCTexts |-> IF t = "9" THEN 9 ELSE Invalid]]
MCExpand   == [t \in MCTexts |-> IF t = "${N}" THEN "9" ELSE t]
MCDefaults == [f \in MCFields |-> IF f \in DOMAIN MCFallback THEN Unset ELSE 5]
MCFlags    == [f \in MCFields |-> Unset]

Symmetry == Permutations(Writers)
=============================================================================
