-------------------------- MODULE RecurfileCommands --------------------------
(***************************************************************************)
(* The commands that work on a recurfile: add (src/app/recur/cli/add.go),  *)
(* register and verify (register.go), and the daemon's part in them        *)
(* (RegisterRecurfile and VerifyRecurfile of api.go), while the user edits *)
(* the file.  Nothing locks the file: add reads it, merges and replaces it *)
(* and then has the daemon load it.                                        *)
(***************************************************************************)
EXTENDS RecurfileText, RecurfileResolve

CONSTANTS
  Clients,     \* commands that can run together
  UserTexts,   \* what the user writes into the file, or into the editor of add --edit
  Names,       \* group names
  TriggerLists, ActionLists, \* the --triggers and --actions of add, types known to the plugins
  OptionMaps,  \* option maps of groups and triggers
  LayerMaps,   \* the maps of the other layers
  OptionAliases, SettingKey, \* aliases for options, and the setting that is looked at
  NoFile, None,
  MaxLines,    \* bound: lines of the file
  MaxWork      \* bound: edits and commands

\* The user writes texts, and gives names on the command line.
ASSUME TextsAreTexts ==
  /\ UserTexts \subseteq Seq(Lines)
  /\ Names \subseteq STRING
  /\ TriggerLists \union ActionLists \subseteq Seq(STRING)

VARIABLES
  file,       \* the text of the recurfile
  op,         \* the command in progress of every client
  registered, \* what the daemon has registered for the file
  verdict,    \* the last answer of verify
  settings,   \* a setting of a trigger, with the layers it was computed from
  work        \* edits and commands so far

commandVars == <<file, op, registered, verdict, settings, work>>

-----------------------------------------------------------------------------

NoCommand == [pc |-> "idle", fragment |-> None, read |-> NoFile, merged |-> None]

CommandsInit ==
  /\ file = NoFile
  /\ op = [c \in Clients |-> NoCommand]
  /\ registered = None
  /\ verdict = None
  /\ settings = None
  /\ work = 0

\* Counts what the bound limits.
Begin == work < MaxWork /\ work' = work + 1

Finish(c) == op' = [op EXCEPT ![c] = NoCommand]

\* Load
Loaded == IF file = NoFile THEN Invalid ELSE Parse(file)

UserEdits ==
  /\ Begin
  /\ \E text \in UserTexts \union {NoFile} : file' = text
  /\ UNCHANGED <<op, registered, verdict, settings>>

\* runAdd: the fragment, from the arguments or from the editor, has to parse.
AddBegin(c) ==
  /\ op[c].pc = "idle" /\ Begin
  /\ \E name \in Names, ts \in TriggerLists, as \in ActionLists, edited \in UserTexts \union {None} :
       LET fragment == IF edited = None THEN GenerateGroupStub(name, ts, as) ELSE edited IN
       /\ edited # None => ts = <<>> /\ as = <<>>
       /\ Parse(fragment) # Invalid
       /\ op' = [op EXCEPT ![c] = [NoCommand EXCEPT !.pc = "merge", !.fragment = fragment]]
  /\ UNCHANGED <<file, registered, verdict, settings>>

\* mergeFragment, and the result has to parse too.
AddMerge(c) ==
  LET merged == IF file = NoFile THEN op[c].fragment ELSE Merge(file, op[c].fragment) IN
  /\ op[c].pc = "merge"
  /\ IF merged = Invalid \/ Parse(merged) = Invalid
     THEN Finish(c)
     ELSE Len(merged) <= MaxLines /\ op' = [op EXCEPT ![c].pc = "write", ![c].read = file, ![c].merged = merged]
  /\ UNCHANGED <<file, registered, verdict, settings, work>>

\* Mutant of AddWrite: what the file held is not kept.
AddWriteMutant(c) ==
  /\ op[c].pc = "write"
  /\ file' = op[c].fragment
  /\ op' = [op EXCEPT ![c].pc = "autoRegister"]
  /\ UNCHANGED <<registered, verdict, settings, work>>

AddWrite(c) ==
  /\ op[c].pc = "write"
  /\ file' = op[c].merged
  /\ op' = [op EXCEPT ![c].pc = "autoRegister"]
  /\ UNCHANGED <<registered, verdict, settings, work>>

\* The commands register and verify parse the file themselves first.
RegisterBegin(c) ==
  /\ op[c].pc = "idle" /\ Loaded # Invalid /\ Begin
  /\ \E pc \in {"register", "verify"} : op' = [op EXCEPT ![c].pc = pc, ![c].read = file]
  /\ UNCHANGED <<file, registered, verdict, settings>>

\* The daemon loads the file, which may have changed since; add does without the daemon.
RegisterRecurfile(c) ==
  /\ op[c].pc \in {"register", "autoRegister"}
  /\ Finish(c)
  /\ registered' = IF Loaded = Invalid THEN registered
                   ELSE [source |-> Loaded, groups |-> Resolve(Loaded), counts |-> RegisterCounts(Resolve(Loaded))]
  /\ UNCHANGED <<file, verdict, settings, work>>

\* There is no daemon: register fails, and add says so and is done.
NotRegistered(c) ==
  /\ op[c].pc \in {"register", "autoRegister"}
  /\ Finish(c)
  /\ UNCHANGED <<file, registered, verdict, settings, work>>

Verdict(f) ==
  IF f = Invalid THEN [valid |-> FALSE, source |-> None, counts |-> None]
  ELSE [valid |-> TRUE, source |-> f, counts |-> VerifyCounts(f)]

\* runVerify: the daemon loads the file again, and its answer is the one that is shown;
\* without a daemon it is the command's own, about the file as it has read it.
VerifyRecurfile(c) ==
  /\ op[c].pc = "verify"
  /\ Finish(c)
  /\ verdict' \in {Verdict(Loaded), Verdict(Parse(op[c].read))}
  /\ UNCHANGED <<file, registered, settings, work>>

\* The settings of a trigger depend on the options and not on the rest of the file: they
\* are looked at in the initial state, and nothing follows.
BuildSettings ==
  /\ work = 0 /\ work' = MaxWork
  /\ \E daemon, manifest, override \in LayerMaps, group, trigger \in OptionMaps :
     \E g \in ExpandOptionAliases(group, OptionAliases), t \in ExpandOptionAliases(trigger, OptionAliases) :
       settings' = [layers |-> <<daemon, manifest, override, group, trigger>>,
                    result |-> BuildTriggerSettings(daemon, manifest, override, g, OverlayMaps(<<g, t>>), SettingKey)]
  /\ UNCHANGED <<file, op, registered, verdict>>

CommandsNext ==
  \/ UserEdits \/ BuildSettings
  \/ \E c \in Clients :
       AddBegin(c) \/ AddMerge(c) \/ AddWrite(c) \/ RegisterBegin(c)
         \/ RegisterRecurfile(c) \/ NotRegistered(c) \/ VerifyRecurfile(c)

CommandsSpec == CommandsInit /\ [][CommandsNext]_commandVars

-----------------------------------------------------------------------------
(* What a merge should give. *)

GroupNames(f) == {f.groups[n].name : n \in DOMAIN f.groups}

\* The group extended by the triggers and the actions of the fragment.
Extended(g, fg) == [g EXCEPT !.triggers = @ \o fg.triggers, !.actions = @ \o fg.actions]

ExpectedMerge(old, fg) ==
  [n \in DOMAIN old.groups |-> IF old.groups[n].name = fg.name THEN Extended(old.groups[n], fg) ELSE old.groups[n]]

\* c replaces the text it has read, in a step that merges a group of one name.
WritesOnto(c) == op[c].pc = "write" /\ op'[c].pc = "autoRegister" /\ op[c].read = file /\ file # NoFile

Common(c) == GroupNames(Parse(file)) \intersect GroupNames(Parse(op[c].fragment))

\* The group is the last of the file, lists its triggers under "on", and has neither a "do"
\* nor "triggers" beside it, which the parser would ignore.
PlainAtEnd(text, name) ==
  LET g == GroupIndex(text, name) IN
  /\ GroupEnd(text, g) = Len(text)
  /\ \E i \in g + 1..Len(text) : IsHeader(text[i], "on")
  /\ \A i \in g + 1..Len(text) : ~IsHeader(text[i], "do") /\ ~IsHeader(text[i], "triggers")

-----------------------------------------------------------------------------
(* Properties. *)

\* The variables have their types.
CommandsTypeOK ==
  /\ \A c \in Clients : op[c].pc \in {"idle", "merge", "write", "autoRegister", "register", "verify"}
  /\ \/ file = NoFile \/ file \in UserTexts
     \/ Len(file) <= MaxLines /\ \A i \in DOMAIN file : file[i].at \in {0, 2, 4, 6, 8}
  /\ registered = None \/ \A n \in DOMAIN registered.groups : registered.groups[n].triggers # <<>>
  /\ verdict = None \/ verdict.valid \in BOOLEAN
  /\ settings = None \/ settings.result \in Nat
  /\ work \in 0..MaxWork

\* merge.go:15, "Otherwise, the fragment is appended verbatim": if nobody wrote the file in
\* between, an add of new groups keeps every group of the file, in order, and adds its own;
\* and an add to a last group without actions of its own, of triggers that have none
\* either, extends it, and only it.
AddAddsGroups ==
  [][\A c \in Clients : WritesOnto(c) /\ Parse(file) # Invalid =>
       LET old == Parse(file)  fragment == Parse(op[c].fragment) IN
       /\ Common(c) = {} => Parse(file').groups = old.groups \o fragment.groups
       /\ \A n \in DOMAIN fragment.groups :
            (/\ Len(fragment.groups) = 1 /\ fragment.groups[n].name \in Common(c)
             /\ PlainAtEnd(file, fragment.groups[n].name)
             /\ \A i \in DOMAIN fragment.groups[n].triggers : fragment.groups[n].triggers[i].actions = <<>>)
            => Parse(file').groups = ExpectedMerge(old, fragment.groups[n])]_commandVars

\* merge.go:12-14, "the new triggers and actions are merged into the existing group's YAML
\* in place": an add to a group of the file extends that group and changes no other.
MergeExtendsGroup ==
  [][\A c \in Clients : WritesOnto(c) /\ Parse(file) # Invalid =>
       \A n \in DOMAIN Parse(op[c].fragment).groups :
         LET fg == Parse(op[c].fragment).groups[n] IN
         Len(Parse(op[c].fragment).groups) = 1 /\ fg.name \in Common(c) =>
           Parse(file').groups = ExpectedMerge(Parse(file), fg)]_commandVars

\* What a name stands for: the group's alias of its prefix, else the file's.
Meaning(name, f, g) ==
  LET p == Split[name][1]
      q == Split[name][2]
  IN IF p \in DOMAIN g.aliases THEN Join[<<g.aliases[p], q>>]
     ELSE IF p \in DOMAIN f.aliases THEN Join[<<f.aliases[p], q>>] ELSE name

\* What the names of the group's actions stand for does not begin with an alias again.
NoChain(f, g) ==
  \A a \in DOMAIN g.actions :
    Split[Meaning(g.actions[a], f, g)][1] \notin DOMAIN f.aliases \union DOMAIN g.aliases

\* resolve.go:7-11, "all names are fully qualified (aliases resolved) ... and each trigger
\* carries its resolved actions": the daemon has every trigger and its own or inherited
\* actions under the names the aliases give them.  (Inherited actions are expanded twice,
\* so this needs aliases that do not lead to aliases.)
RegisteredAsWritten ==
  registered # None =>
    \A n \in DOMAIN registered.source.groups :
      LET f == registered.source
          g == f.groups[n]
      IN NoChain(f, g) =>
           /\ Len(registered.groups[n].triggers) = Len(g.triggers)
           /\ \A i \in DOMAIN g.triggers :
                LET own == g.triggers[i].actions
                    actions == IF own = <<>> THEN g.actions ELSE own
                IN registered.groups[n].triggers[i] =
                     [type    |-> Meaning(g.triggers[i].type, f, g),
                      actions |-> [a \in DOMAIN actions |-> Meaning(actions[a], f, g)]]

\* builder.go:9, "daemon < plugin manifest < plugin override < group < trigger": a setting
\* is the one of the most specific layer that has the key, where groups and triggers have
\* it under every name that the aliases turn into it.
SettingsFollowChain ==
  settings # None =>
    LET Named(i, k) == IF i > 3 THEN ExpandAlias(k, OptionAliases) ELSE k
        Given(i) == {k \in DOMAIN settings.layers[i] : Named(i, k) = SettingKey}
        given == {i \in 1..5 : Given(i) # {}}
        Read(o) == IF o.kind = NotANumber THEN 0 ELSE o.value
    IN IF given = {} THEN settings.result = 0
       ELSE \E k \in Given(Max(given)) : settings.result = Read(settings.layers[Max(given)][k])
=============================================================================
