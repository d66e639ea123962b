--------------------------- MODULE RecurfileResolve ---------------------------
(***************************************************************************)
(* What a parsed recurfile means: aliases (src/domain/recurfile/aliases.go), *)
(* inherited actions and options (resolve.go), the chain of settings       *)
(* (builder.go, on pkg/config/map_store.go and overlay.go), and what       *)
(* verify and register count (api.go, validate.go, cli/register.go).       *)
(*                                                                         *)
(* A definition whose comment begins with "Mutant of" is no part of the    *)
(* model: it is a plausible mistake that a property must notice.           *)
(***************************************************************************)
EXTENDS Integers, Sequences, SequencesExt, FiniteSets

CONSTANTS
  Split, \* [name -> <<what precedes its first dot, the rest>>]
  Join   \* [<<name, rest>> -> name]

-----------------------------------------------------------------------------
(* Aliases. *)

\* Mutant of MergeAliases: the aliases of the file win.
MergeAliasesMutant(file, group) ==
  [k \in DOMAIN file \union DOMAIN group |-> IF k \in DOMAIN file THEN file[k] ELSE group[k]]

MergeAliases(file, group) ==
  [k \in DOMAIN file \union DOMAIN group |-> IF k \in DOMAIN group THEN group[k] ELSE file[k]]

ExpandAlias(name, aliases) ==
  IF Split[name][1] \in DOMAIN aliases THEN Join[<<aliases[Split[name][1]], Split[name][2]>>] ELSE name

\* The results of copying a map key by key in any order: of the keys that become the
\* same one, the last that is copied stays.
ExpandOptionAliases(options, aliases) ==
  LET Source(k) == {o \in DOMAIN options : ExpandAlias(o, aliases) = k}
      keys == {ExpandAlias(o, aliases) : o \in DOMAIN options}
      choices == {c \in [keys -> DOMAIN options] : \A k \in keys : c[k] \in Source(k)}
  IN {[k \in keys |-> options[c[k]]] : c \in choices}

-----------------------------------------------------------------------------
(* Resolve: the types of triggers and actions. *)

ExpandAll(names, aliases) == [n \in DOMAIN names |-> ExpandAlias(names[n], aliases)]

\* A trigger without actions gets the group's, which have been expanded before.
ResolveTrigger(t, inherited, aliases) ==
  LET actions == IF t.actions = <<>> THEN inherited ELSE t.actions
  IN [type |-> ExpandAlias(t.type, aliases), actions |-> ExpandAll(actions, aliases)]

ResolveGroup(g, fileAliases) ==
  LET aliases == MergeAliases(fileAliases, g.aliases)
      inherited == ExpandAll(g.actions, aliases)
  IN [name |-> g.name,
      triggers |-> [n \in DOMAIN g.triggers |-> ResolveTrigger(g.triggers[n], inherited, aliases)]]

Resolve(f) == [n \in DOMAIN f.groups |-> ResolveGroup(f.groups[n], f.aliases)]

-----------------------------------------------------------------------------
(* The chain of settings.  An option is a number, or a text where a number is due. *)

NotANumber == "text"

OverlayTwo(lower, upper) ==
  [k \in DOMAIN lower \union DOMAIN upper |-> IF k \in DOMAIN upper THEN upper[k] ELSE lower[k]]

\* OverlayMaps, for maps that are not nested: from the least to the most specific.
OverlayMaps(layers) ==
  LET overlaid[n \in 0..Len(layers)] ==
        IF n = 0 THEN <<>> ELSE OverlayTwo(overlaid[n-1], layers[n])
  IN overlaid[Len(layers)]

\* mapStoreInt: 0 if there is no value, or if it is no number.
MapStoreInt(effective, key) ==
  IF key \notin DOMAIN effective \/ effective[key].kind = NotANumber THEN 0 ELSE effective[key].value

\* Mutant of BuildTriggerSettings: what the plugin ships overrides what the user says about it.
BuildTriggerSettingsMutant(daemon, manifest, override, group, trigger, key) ==
  MapStoreInt(OverlayMaps(<<daemon, override, manifest, group, trigger>>), key)

BuildTriggerSettings(daemon, manifest, override, group, trigger, key) ==
  MapStoreInt(OverlayMaps(<<daemon, manifest, override, group, trigger>>), key)

-----------------------------------------------------------------------------
(* Counting. *)

Total(lengths) == FoldLeft(LAMBDA a, b : a + b, 0, lengths)

\* VerifyRecurfile, and countEntities of the command: triggers, actions, and warnings
\* about triggers that have none.
VerifyCounts(f) ==
  LET Actions(g, t) == IF Len(t.actions) > 0 THEN Len(t.actions) ELSE Len(g.actions)
      PerGroup(g) == [n \in DOMAIN g.triggers |-> Actions(g, g.triggers[n])]
      Warnings(g) == Cardinality({n \in DOMAIN g.triggers : Actions(g, g.triggers[n]) = 0})
  IN [triggers |-> Total([n \in DOMAIN f.groups |-> Len(f.groups[n].triggers)]),
      actions  |-> Total([n \in DOMAIN f.groups |-> Total(PerGroup(f.groups[n]))]),
      idle     |-> Total([n \in DOMAIN f.groups |-> Warnings(f.groups[n])])]

\* registerResolved counts what it enters, Validate warns about the resolved file.
RegisterCounts(resolved) ==
  LET PerGroup(g) == [n \in DOMAIN g.triggers |-> Len(g.triggers[n].actions)]
      Warnings(g) == Cardinality({n \in DOMAIN g.triggers : g.triggers[n].actions = <<>>})
  IN [triggers |-> Total([n \in DOMAIN resolved |-> Len(resolved[n].triggers)]),
      actions  |-> Total([n \in DOMAIN resolved |-> Total(PerGroup(resolved[n]))]),
      idle     |-> Total([n \in DOMAIN resolved |-> Warnings(resolved[n])])]
=============================================================================
