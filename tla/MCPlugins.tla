------------------------------ MODULE MCPlugins ------------------------------
(***************************************************************************)
(* Two plugins, one of which declares a trigger and an action and sorts    *)
(* after its manifest when it is copied, and a third that is not valid.    *)
(***************************************************************************)
EXTENDS Plugins

CONSTANTS p1, p2, p3

Option(n, type, shorthand) == [name |-> n, type |-> type, shorthand |-> shorthand, default |-> "none"]
Def(n, options)  == [name |-> n, options |-> options, defaults |-> [debounce |-> "string"]]
Bad(n)           == [name |-> n, options |-> <<>>, defaults |-> [bounce |-> "string"]]

MCManifest ==
  p1 :> [name |-> "zeta", namespace |-> "ns.zeta", version |-> "1",
         triggers |-> <<Def("T", <<Option("path", "string", FALSE)>>)>>,
         actions |-> <<Def("A", <<Option("to", "string", TRUE), Option("n", "number", FALSE)>>)>>] @@
  p2 :> [name |-> "beta", namespace |-> "ns.beta", version |-> "1",
         triggers |-> <<>>, actions |-> <<Def("B", <<Option("to", "list", FALSE)>>)>>] @@
  p3 :> [name |-> "gamma", namespace |-> "ns.gamma", version |-> "1",
         triggers |-> <<Bad("C")>>, actions |-> <<>>]

MCContent  == p1 :> <<"manifest", "binary">> @@ p2 :> <<"binary", "manifest">> @@ p3 :> <<"manifest">>
MCNameOrder == <<"beta", "gamma", "zeta">>
=============================================================================
