----------------------------- MODULE MCRecurfile -----------------------------
(* Small texts, names and options for TLC. *)
EXTENDS RecurfileCommands

MCNames == {"g", "h"}
MCTriggerLists == {<<>>, <<"timer">>, <<"timer", "w.x">>}
MCActionLists == {<<>>, <<"shell">>}

\* Names: "w" is an alias of "watch", "v" one of "w".
MCSplit ==
  [n \in {"timer", "shell", "watch", "w", "v", "error_threshold", "et"} |-> <<n, "">>]
    @@ ("w.x" :> <<"w", "x">>) @@ ("v.x" :> <<"v", "x">>) @@ ("watch.x" :> <<"watch", "x">>) @@ ("shell.x" :> <<"shell", "x">>)

MCJoin ==
  (<<"watch", "">> :> "watch") @@ (<<"w", "">> :> "w") @@ (<<"shell", "">> :> "shell")
    @@ (<<"watch", "x">> :> "watch.x") @@ (<<"w", "x">> :> "w.x") @@ (<<"shell", "x">> :> "shell.x")
    @@ (<<"error_threshold", "">> :> "error_threshold")

On == <<Line(2, "on", "")>>
Do == <<Line(2, "do", ""), Item(4, "shell", "ls")>>
Timer == <<Item(4, "type", "timer")>>
Group(name, sections) == <<Line(0, name, "")>> \o sections

\* Files the user writes: actions of the group and of a trigger, aliases of the file, of
\* a group and of an alias, a section under its other name, and three that are refused.
MCUserTexts ==
  {Group("g", On \o Timer \o Do),
   Group("g", On \o Timer) \o Group("h", On \o Timer \o Do) \o <<Blank>>,
   Group("g", On \o Timer \o <<Line(6, "do", ""), Item(8, "shell", "ls")>>),
   Group("aliases", <<Line(2, "w", "watch")>>)
     \o Group("g", <<Line(2, "aliases", ""), Line(4, "w", "shell")>> \o On \o <<Item(4, "type", "w.x")>> \o Do),
   Group("aliases", <<Line(2, "w", "watch"), Line(2, "v", "w")>>)
     \o Group("h", <<Line(2, "triggers", ""), Item(4, "type", "v.x"), Line(2, "do", ""), Item(4, "type", "v")>>),
   Group("g", Do),
   Group("secrets", <<Line(2, "s", "unrecognized")>>) \o Group("g", On \o Timer),
   Group("g", On \o <<Item(4, "name", "n")>>)}

Number(n) == [kind |-> "number", value |-> n]
MCOptionMaps ==
  {<<>>, "error_threshold" :> Number(1), "et" :> Number(2),
   "error_threshold" :> [kind |-> NotANumber, value |-> 0],
   "error_threshold" :> Number(3) @@ "et" :> Number(4)}
MCLayerMaps == {<<>>, "error_threshold" :> Number(5), "error_threshold" :> Number(6)}
MCOptionAliases == "et" :> "error_threshold"
=============================================================================
