----------------------------- MODULE MCLifecycle -----------------------------
(***************************************************************************)
(* Lifecycle with bundles whose recurfile is their only YAML file, the     *)
(* conventional one of two, none that can be told, or one that no daemon   *)
(* can load.                                                               *)
(***************************************************************************)
EXTENDS Lifecycle

MCBundles ==
  {[f \in {"tool.yaml"} |-> loads] : loads \in BOOLEAN}
    \union {[f \in {"recurfile.yaml", "tool.yaml"} |-> TRUE], [f \in {"tool.yaml", "other.yaml"} |-> TRUE]}
MCConventional == {"recurfile.yaml"}
=============================================================================
