----------------------------- MODULE MCRegistry -----------------------------
(* Small recurfiles for Registry. *)
EXTENDS Registry

CONSTANTS p1, p2, watch, shell, g1, g2, label, abc

Shell(name) == [type |-> shell, name |-> name]
Watch(name, as) == [type |-> watch, name |-> name, actions |-> as]
Group(name, ts) == [name |-> name, triggers |-> ts]

\* Two triggers of one type, one with two actions of one type; a trigger and an
\* action share a name.
Full == <<Group(g1, <<Watch(label, <<Shell(shell), Shell(label)>>), Watch(watch, << >>)>>)>>

\* One trigger is left, with one action, in another group.
Edited == <<Group(g2, <<Watch(watch, <<Shell(shell)>>)>>)>>

\* Two groups of one name.
Doubled == <<Group(g1, <<Watch(watch, << >>), Watch(label, << >>)>>), Group(g1, <<Watch(watch, << >>)>>)>>

PlainContents == {Full, Edited}
AllContents == {Full, Edited, Doubled}

\* The prefix abc is that of every trigger ID.
TriggerPrefix(id, prefix) == prefix = abc /\ id[1] = "trigger"
=============================================================================
