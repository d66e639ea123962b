---------------------------- MODULE MCDaemonService ----------------------------
(* Values for TLC. *)
EXTENDS DaemonService, TLC

CONSTANTS f1, f2, t1, t2, p1, p2, main

OneFile  == t1 :> f1 @@ t2 :> f1
TwoFiles == t1 :> f1 @@ t2 :> f2

HandlerSymmetry == Permutations(Handlers)
=============================================================================
