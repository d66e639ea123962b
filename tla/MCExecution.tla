----------------------------- MODULE MCExecution -----------------------------
(***************************************************************************)
(* Two recurfiles with a secret each: a keyring one, which is the whole    *)
(* shorthand of a shell action, and one of the environment with a default, *)
(* used by options of a plugin's action and by its timeout, which does not *)
(* parse; the timeout of a second action of that trigger is zero.          *)
(***************************************************************************)
EXTENDS Execution

CONSTANTS t1, t2, a1, a2, a3, f1, f2, p, v1, v2

MCFileOf    == t1 :> f1 @@ t2 :> f2
MCActionsOf == t1 :> <<a1>> @@ t2 :> <<a2, a3>>
MCPluginOf  == a1 :> NoPlugin @@ a2 :> p @@ a3 :> p

Plain  == [secrets |-> {}, text |-> TRUE, malformed |-> FALSE]
Use(s) == [secrets |-> {s}, text |-> FALSE, malformed |-> FALSE]

MCOptions ==
  a1 :> ("_shorthand" :> Use("s1") @@ "command" :> Plain) @@
  a2 :> ("_shorthand" :> Use("s2") @@ "url" :> Plain @@ "token" :> Use("s2") @@ "password" :> Plain @@ "timeout" :> Use("s2")) @@
  a3 :> ("_shorthand" :> Plain @@ "timeout" :> Plain)

Declares(n, s) == [name |-> n, shorthand |-> FALSE, sensitive |-> s]

MCDeclared ==
  a1 :> <<>> @@
  a2 :> <<Declares("url", FALSE), Declares("token", FALSE), Declares("password", TRUE)>> @@
  a3 :> <<[name |-> "text", shorthand |-> TRUE, sensitive |-> FALSE]>>

MCTimeouts  == a1 :> "none" @@ a2 :> "invalid" @@ a3 :> "zero"
MCThreshold == a1 :> 2 @@ a2 :> 1 @@ a3 :> 0

MCHolds == [r1 |-> {v1, Missing}, r2 |-> {Empty}]

MCDefs ==
  f1 :> {[name |-> "s1", source |-> "keyring", ref |-> "r1", default |-> Empty, required |-> FALSE]} @@
  f2 :> {[name |-> "s2", source |-> "env", ref |-> "r2", default |-> v2, required |-> TRUE]}
=============================================================================
