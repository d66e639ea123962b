------------------------------- MODULE Plugins -------------------------------
(***************************************************************************)
(* Plugins on disk, in the daemon and in the registry: recur install and   *)
(* recur uninstall (src/app/recur/cli/plugin.go), the plugin directory     *)
(* (src/infra/fs/plugin), manifests (src/infra/yaml/manifest) and the      *)
(* handlers InstallPlugin, UninstallPlugin and RegisterRecurfile           *)
(* (src/app/recurd/daemon/api.go).                                         *)
(*                                                                         *)
(* A command changes the directory and the daemon one after the other,     *)
(* while the daemon may start, stop or crash and other commands run; no    *)
(* lock covers the two, nor d.plugins.  A directory is a set of parts, the *)
(* manifest and the binary, that are copied and removed one by one.  The   *)
(* entities are those of one recurfile, which uses every type of trigger   *)
(* and action there is; what the daemon saves is complete at once          *)
(* (StateFile has the details).                                            *)
(*                                                                         *)
(* A definition whose comment begins with "Mutant of" is no part of the    *)
(* specification; see TriggerEngine.                                       *)
(***************************************************************************)
EXTENDS Naturals, Sequences, FiniteSets, SequencesExt

CONSTANTS
  Packages,   \* plugins a user may install
  Manifest,   \* the manifest of every package: [name, namespace, version, triggers, actions]
  Content,   \* the parts of every package, in the order in which they are copied
  NameOrder,  \* the names of the packages in alphabetical order
  Types,      \* types of triggers and actions the recurfile uses
  Clients,    \* commands that may be under way at the same time
  NoDir, NoPlugin,
  MaxCommands, \* bound: commands
  MaxTrouble   \* bound: starts and ends of the daemon, and steps that fail

Name(p)      == Manifest[p].name
Namespace(p) == Manifest[p].namespace
Names        == {Name(p) : p \in Packages}
Namespaces   == {Namespace(p) : p \in Packages}
Parts        == {"manifest", "binary"}

ASSUME PluginsAssumption ==
  /\ ToSet(NameOrder) = Names /\ NameOrder \in Seq(Names)
  /\ \A p, q \in Packages : p # q => Name(p) # Name(q)
  /\ \A p \in Packages : Content[p] \in Seq(Parts)
  /\ NoDir \notin [pkg : Packages, parts : SUBSET Parts]
  /\ NoPlugin \notin Namespaces \union Packages
  /\ Types # {}
  /\ {MaxCommands, MaxTrouble} \subseteq Nat

\* The elements of s that are in S, in their order (SelectSeq in a form that can be proved about).
Keep(s, S) ==
  LET kept[i \in 0..Len(s)] ==
        IF i = 0 THEN <<>> ELSE IF s[i] \in S THEN Append(kept[i-1], s[i]) ELSE kept[i-1]
  IN kept[Len(s)]

\* A registry, or a state, without entities.
NoRecurfile == [t \in {} |-> NoPlugin]

VARIABLES
  dir,      \* the plugins directory: for every name [pkg, parts], or NoDir
  daemon,   \* down, scanning (plugins discovered, not serving yet) or up
  loaded,   \* d.plugins
  entity,   \* the registry: [owner, status] of every type, or NoRecurfile
  saved,    \* the same in state.json
  client,   \* what every client is doing
  commands, trouble, \* what the bounds count
  excused,  \* history: namespaces of commands that overlapped or failed
  stopped,  \* history: types that an uninstall has suspended and nobody has registered or resumed
            \* since, each with the namespace that was uninstalled
  resumed   \* history: types that the user has resumed since they were registered or suspended

vars == <<dir, daemon, loaded, entity, saved, client, commands, trouble, excused, stopped, resumed>>

-----------------------------------------------------------------------------
(* Manifests. *)

OptionTypes == {"string", "bool", "number", "list", "map"}

\* validateOptions and checkDefaultType: default is the type of the default value.
ValidOptions(options, allowShorthand) ==
  /\ \A i \in DOMAIN options :
       LET o == options[i] IN
       /\ o.name # "" /\ o.type \in OptionTypes
       /\ o.shorthand => allowShorthand
       /\ o.default \in {"none", o.type}
  /\ Cardinality({i \in DOMAIN options : options[i].shorthand}) <= 1

DefaultsTypes == [debounce |-> "string", concurrency_mode |-> "string",
                  max_queue_size |-> "number", error_threshold |-> "number"]

\* validate
Valid(m) ==
  /\ "" \notin {m.name, m.namespace, m.version}
  /\ m.triggers # <<>> \/ m.actions # <<>>
  /\ \A t \in ToSet(m.triggers) :
       /\ t.name # "" /\ ValidOptions(t.options, FALSE)
       /\ \A k \in DOMAIN t.defaults : k \in DOMAIN DefaultsTypes /\ t.defaults[k] = DefaultsTypes[k]
  /\ \A a \in ToSet(m.actions) : a.name # "" /\ ValidOptions(a.options, TRUE)

\* FindTriggerDefinition, FindActionDefinition
Declares(p, type) ==
  \E d \in ToSet(Manifest[p].triggers) \union ToSet(Manifest[p].actions) : d.name = type

-----------------------------------------------------------------------------
(* The plugins directory. *)

\* LoadPlugin: needs the manifest, not the binary.
LoadPlugin(d) ==
  IF d # NoDir /\ "manifest" \in d.parts /\ Valid(Manifest[d.pkg]) THEN {d.pkg} ELSE {}

\* DiscoverIn: what can be loaded, sorted by name.
Discover ==
  LET found == Keep(NameOrder, {n \in Names : LoadPlugin(dir[n]) # {}})
  IN [i \in DOMAIN found |-> dir[found[i]].pkg]

\* FindByIdentifier: the first one that has it as its name or namespace.
FindByIdentifier(plugins, identifier) ==
  LET found == Keep(plugins, {p \in Packages : identifier \in {Name(p), Namespace(p)}})
  IN IF found = <<>> THEN {} ELSE {found[1]}

\* ResolvePluginForTrigger, ResolvePluginForAction: the first one that declares the type.
ResolvePlugin(plugins, type) ==
  LET found == Keep(plugins, {p \in Packages : Declares(p, type)})
  IN IF found = <<>> THEN NoPlugin ELSE Namespace(found[1])

NamespacesOf(plugins) == {Namespace(p) : p \in ToSet(plugins)}

-----------------------------------------------------------------------------
Idle == [pc |-> "idle", identifier |-> "", target |-> NoPlugin, found |-> {}, seen |-> <<>>]

Init ==
  /\ dir = [n \in Names |-> NoDir]
  /\ daemon = "down"
  /\ loaded = <<>>
  /\ entity = NoRecurfile /\ saved = NoRecurfile
  /\ client = [c \in Clients |-> Idle]
  /\ commands = 0 /\ trouble = 0
  /\ excused = {} /\ stopped = {} /\ resumed = {}

Busy      == {c \in Clients : client[c].pc # "idle"}
At(c, pc) == client[c].pc = pc
Goto(c, pc) == client' = [client EXCEPT ![c].pc = pc]
Ends(c)     == client' = [client EXCEPT ![c] = Idle]

\* The namespaces some command is installing or uninstalling.
Concerned == {Namespace(client[c].target) : c \in {d \in Busy : client[d].target # NoPlugin}}

\* No promise is made about these namespaces until the next start.
Excuse(namespaces) ==
  /\ excused' = excused \union namespaces
  /\ stopped' = {s \in stopped : s[2] \notin namespaces}

\* A step, or a start or end of the daemon, that goes wrong for the user.
Trouble == trouble < MaxTrouble /\ trouble' = trouble + 1

\* A command begins: it must not meet another one for the same plugin, or a daemon that starts.
Begin(c, pc, p, identifier) ==
  /\ At(c, "idle") /\ commands < MaxCommands
  /\ commands' = commands + 1
  /\ client' = [client EXCEPT ![c] =
       [Idle EXCEPT !.pc = pc, !.identifier = identifier, !.target = p]]
  /\ Excuse(IF daemon = "scanning" \/ Namespace(p) \in Concerned \/ \E b \in Busy : At(b, "register")
            THEN {Namespace(p)} ELSE {})
  /\ UNCHANGED <<dir, daemon, loaded, entity, saved, trouble, resumed>>

-----------------------------------------------------------------------------
(* recur install *)

InstallCommand(c) == \E p \in Packages : Begin(c, "check", p, Name(p))

\* pluginfs.Install up to the copy: a valid source, and a name that is not taken.
InstallCheck(c) ==
  LET p == client[c].target IN
  /\ At(c, "check")
  /\ IF LoadPlugin([pkg |-> p, parts |-> ToSet(Content[p])]) # {} /\ dir[Name(p)] = NoDir THEN Goto(c, "copy") ELSE Ends(c)
  /\ UNCHANGED <<dir, daemon, loaded, entity, saved, commands, trouble, excused, stopped, resumed>>

\* Symlink, or copyDir: the directory, then its files one by one.
InstallCopy(c) ==
  LET p == client[c].target
      n == Name(p)
      parts == IF dir[n] = NoDir THEN {} ELSE dir[n].parts
      rest == Keep(Content[p], Parts \ parts)
  IN
  /\ At(c, "copy")
  /\ \/ dir' = [dir EXCEPT ![n] = [pkg |-> p, parts |-> ToSet(Content[p])]] /\ Goto(c, "load")
     \/ /\ dir' = [dir EXCEPT ![n] = [pkg |-> p, parts |->
             IF dir[n] = NoDir \/ rest = <<>> THEN parts ELSE parts \union {rest[1]}]]
        /\ IF rest = <<>> THEN Goto(c, "load") ELSE UNCHANGED client
  /\ UNCHANGED <<daemon, loaded, entity, saved, commands, trouble, excused, stopped, resumed>>

\* Mutant of InstallCopyFails: the partial copy is left behind.
InstallCopyFailsLeaves(c) ==
  /\ At(c, "copy") /\ Trouble
  /\ Ends(c)
  /\ UNCHANGED <<dir, daemon, loaded, entity, saved, commands, excused, stopped, resumed>>

\* A copy that fails is removed.
InstallCopyFails(c) ==
  LET p == client[c].target IN
  /\ At(c, "copy") /\ Trouble
  /\ dir' = [dir EXCEPT ![Name(p)] = NoDir]
  /\ Ends(c)
  /\ UNCHANGED <<daemon, loaded, entity, saved, commands, excused, stopped, resumed>>

\* The copy is loaded; then the daemon is told, if there is one to tell.
InstallLoad(c) ==
  LET n == Name(client[c].target) IN
  /\ At(c, "load")
  /\ IF LoadPlugin(dir[n]) = {}
     THEN dir' = [dir EXCEPT ![n] = NoDir] /\ Ends(c)
     ELSE UNCHANGED dir /\ IF daemon = "up" THEN Goto(c, "handle") ELSE Ends(c)
  /\ UNCHANGED <<daemon, loaded, entity, saved, commands, trouble, excused, stopped, resumed>>

\* InstallPlugin: refused if the namespace is loaded; the directory stays.
InstallPlugin(c) ==
  LET p == client[c].target IN
  /\ At(c, "handle")
  /\ IF LoadPlugin(dir[Name(p)]) = {} \/ Namespace(p) \in NamespacesOf(loaded)
     THEN Ends(c) /\ Excuse({Namespace(p)}) /\ UNCHANGED loaded
     ELSE /\ loaded' = Append(loaded, p) /\ Ends(c)
          /\ UNCHANGED <<excused, stopped>>
  /\ UNCHANGED <<dir, daemon, entity, saved, commands, trouble, resumed>>

-----------------------------------------------------------------------------
(* recur uninstall *)

UninstallCommand(c) ==
  \E p \in Packages : \E identifier \in {Name(p), Namespace(p)} : Begin(c, "find", p, identifier)

\* The plugin is looked for on disk; then the daemon is told, if there is one.
UninstallFind(c) ==
  /\ At(c, "find")
  /\ client' = [client EXCEPT ![c].found = FindByIdentifier(Discover, client[c].identifier),
                              ![c].pc = IF daemon = "up" THEN "filter" ELSE "remove"]
  /\ UNCHANGED <<dir, daemon, loaded, entity, saved, commands, trouble, excused, stopped, resumed>>

\* UninstallPlugin looks a plugin up in the daemon and copies the others; one the daemon does not
\* know ends the command, which then leaves the directory.  By an identifier that is also
\* another's it may find that one, of which no promise is made then.
UninstallFilter(c) ==
  LET known == FindByIdentifier(loaded, client[c].identifier) IN
  /\ At(c, "filter")
  /\ IF known = {}
     THEN Ends(c) /\ UNCHANGED <<excused, stopped>>
     ELSE \E p \in Packages :
            /\ known = {p}
            /\ client' = [client EXCEPT ![c].pc = "replace", ![c].seen = loaded, ![c].target = p]
            /\ Excuse({Namespace(p)} \ {Namespace(client[c].target)})
  /\ UNCHANGED <<dir, daemon, loaded, entity, saved, commands, trouble, resumed>>

\* Mutant of UninstallReplace: what belongs to the plugin is not suspended.
UninstallReplaceOnly(c) ==
  LET ns == Namespace(client[c].target) IN
  /\ At(c, "replace")
  /\ loaded' = Keep(client[c].seen, {p \in Packages : Namespace(p) # ns})
  /\ Goto(c, "remove")
  /\ Excuse({Namespace(p) : p \in (ToSet(client[c].seen) \ ToSet(loaded)) \union (ToSet(loaded) \ ToSet(client[c].seen))})
  /\ UNCHANGED <<dir, daemon, entity, saved, commands, trouble, resumed>>

\* The copy without the plugin takes the place of d.plugins: a change in between is lost.
UninstallReplace(c) ==
  LET ns == Namespace(client[c].target)
      lost == (ToSet(client[c].seen) \ ToSet(loaded)) \union (ToSet(loaded) \ ToSet(client[c].seen))
  IN
  /\ At(c, "replace")
  /\ loaded' = Keep(client[c].seen, {p \in Packages : Namespace(p) # ns})
  /\ Goto(c, "suspend")
  /\ Excuse({Namespace(p) : p \in lost})
  /\ UNCHANGED <<dir, daemon, entity, saved, commands, trouble, resumed>>

\* suspendByPluginID: what it suspends, and returns.
Active(ns) == {t \in DOMAIN entity : entity[t].owner = ns /\ entity[t].status # "suspended"}

SetStatus(types, status) ==
  entity' = [t \in DOMAIN entity |->
               [owner |-> entity[t].owner, status |-> IF t \in types THEN status ELSE entity[t].status]]

UninstallSuspend(c) ==
  LET ns == Namespace(client[c].target) IN
  /\ At(c, "suspend")
  /\ SetStatus(Active(ns), "suspended")
  /\ stopped' = stopped \union (IF ns \in excused THEN {} ELSE Active(ns) \X {ns})
  /\ resumed' = resumed \ Active(ns)
  /\ Goto(c, IF Active(ns) = {} THEN "remove" ELSE "persist")
  /\ UNCHANGED <<dir, daemon, loaded, saved, commands, trouble, excused>>

\* Mutant of UninstallPersist: the suspension is not saved.
UninstallPersistNot(c) ==
  /\ At(c, "persist")
  /\ Goto(c, "remove")
  /\ UNCHANGED <<dir, daemon, loaded, entity, saved, commands, trouble, excused, stopped, resumed>>

\* persistState, and the answer.
UninstallPersist(c) ==
  /\ At(c, "persist")
  /\ saved' = entity
  /\ Goto(c, "remove")
  /\ UNCHANGED <<dir, daemon, loaded, entity, commands, trouble, excused, stopped, resumed>>

\* Remove: RemoveAll takes the files in any order, then the directory; or a symlink goes.
UninstallRemove(c) ==
  /\ At(c, "remove")
  /\ IF client[c].found = {} \/ \E p \in client[c].found : dir[Name(p)] = NoDir
     THEN Ends(c) /\ UNCHANGED dir
     ELSE \E p \in client[c].found :
            LET n == Name(p) IN
            \/ dir' = [dir EXCEPT ![n] = NoDir] /\ Ends(c)
            \/ /\ \E x \in dir[n].parts : dir' = [dir EXCEPT ![n].parts = @ \ {x}]
               /\ UNCHANGED client
  /\ UNCHANGED <<daemon, loaded, entity, saved, commands, trouble, excused, stopped, resumed>>

\* Removal fails, or the user interrupts a command between two of its steps.
CommandFails(c) ==
  /\ client[c].pc \in {"check", "copy", "load", "find", "remove"} /\ Trouble
  /\ Ends(c)
  /\ Excuse({Namespace(client[c].target)})
  /\ UNCHANGED <<dir, daemon, loaded, entity, saved, commands, resumed>>

-----------------------------------------------------------------------------
(* RegisterRecurfile *)

\* The handler passes d.plugins to the registry.  A command that changes it at the same time
\* is not told apart from one that came before or after.
RegisterCommand(c) ==
  /\ At(c, "idle") /\ daemon = "up" /\ commands < MaxCommands
  /\ commands' = commands + 1
  /\ client' = [client EXCEPT ![c] = [Idle EXCEPT !.pc = "register", !.seen = loaded]]
  /\ Excuse(Concerned)
  /\ UNCHANGED <<dir, daemon, loaded, entity, saved, trouble, resumed>>

\* registerResolved: every entity is active, and belongs to the plugin that declares its type.
Register(c) ==
  /\ At(c, "register")
  /\ entity' = [t \in Types |-> [owner |-> ResolvePlugin(client[c].seen, t), status |-> "active"]]
  /\ saved' = entity'
  /\ stopped' = {} /\ resumed' = {}
  /\ Ends(c)
  /\ UNCHANGED <<dir, daemon, loaded, commands, trouble, excused>>

-----------------------------------------------------------------------------
(* recur suspend and recur resume *)

\* SuspendTrigger, SuspendAction, ResumeTrigger and ResumeAction: whatever the status was, and
\* whether or not the plugin of the entity is there.
StatusCommand(c) ==
  /\ At(c, "idle") /\ daemon = "up" /\ commands < MaxCommands
  /\ commands' = commands + 1
  /\ \E t \in DOMAIN entity :
       \/ /\ SetStatus({t}, "active")
          /\ stopped' = {s \in stopped : s[1] # t} /\ resumed' = resumed \union {t}
       \/ /\ SetStatus({t}, "suspended")
          /\ resumed' = resumed \ {t} /\ UNCHANGED stopped
  /\ client' = [client EXCEPT ![c] = [Idle EXCEPT !.pc = "save"]]
  /\ UNCHANGED <<dir, daemon, loaded, saved, trouble, excused>>

\* persistState, and the answer.
StatusPersist(c) ==
  /\ At(c, "save")
  /\ saved' = entity
  /\ Ends(c)
  /\ UNCHANGED <<dir, daemon, loaded, entity, commands, trouble, excused, stopped, resumed>>

-----------------------------------------------------------------------------
(* The daemon. *)

\* Daemon.Run discovers the plugins; commands under way may or may not be seen.
Start ==
  /\ daemon = "down" /\ Trouble
  /\ daemon' = "scanning"
  /\ loaded' = Discover
  /\ LET torn == {Namespace(dir[n].pkg) : n \in
                    {m \in Names : dir[m] # NoDir /\ dir[m].parts # ToSet(Content[dir[m].pkg])}}
     IN /\ excused' = Concerned \union torn
        /\ stopped' = {s \in stopped : s[2] \notin Concerned \union torn}
  /\ UNCHANGED <<dir, entity, saved, client, commands, resumed>>

\* loadState: the recurfile is registered with these plugins, and its states are restored.
LoadState ==
  /\ daemon = "scanning"
  /\ daemon' = "up"
  /\ entity' = IF saved = NoRecurfile THEN NoRecurfile
               ELSE [t \in Types |-> [owner |-> ResolvePlugin(loaded, t), status |-> saved[t].status]]
  /\ UNCHANGED <<dir, loaded, saved, client, commands, trouble, excused, stopped, resumed>>

InDaemon == {"handle", "filter", "replace", "suspend", "persist", "register", "save"}

\* The daemon stops, having served what it was asked, or crashes: calls in progress fail.
Stop ==
  /\ daemon # "down" /\ Trouble
  /\ daemon' = "down"
  /\ loaded' = <<>> /\ entity' = NoRecurfile
  /\ client' = [c \in Clients |-> IF client[c].pc \in InDaemon THEN Idle ELSE client[c]]
  /\ Excuse({Namespace(client[c].target) :
               c \in {d \in Busy : client[d].pc \in InDaemon /\ client[d].target # NoPlugin}})
  /\ UNCHANGED <<dir, saved, commands, resumed>>

Next ==
  \/ \E c \in Clients :
       \/ InstallCommand(c) \/ InstallCheck(c) \/ InstallCopy(c) \/ InstallCopyFails(c)
       \/ InstallLoad(c) \/ InstallPlugin(c)
       \/ UninstallCommand(c) \/ UninstallFind(c) \/ UninstallFilter(c) \/ UninstallReplace(c)
       \/ UninstallSuspend(c) \/ UninstallPersist(c) \/ UninstallRemove(c)
       \/ CommandFails(c) \/ RegisterCommand(c) \/ Register(c)
       \/ StatusCommand(c) \/ StatusPersist(c)
  \/ Start \/ LoadState \/ Stop

Spec == Init /\ [][Next]_vars

-----------------------------------------------------------------------------
(* Properties. *)

Pcs == {"idle", "check", "copy", "load", "find", "remove"} \union InDaemon

Entities == [Types -> [owner : Namespaces \union {NoPlugin}, status : {"active", "suspended"}]]

\* Type correctness.
TypeOK ==
  /\ \A n \in Names : dir[n] # NoDir => dir[n].pkg \in Packages /\ dir[n].parts \subseteq Parts
  /\ daemon \in {"down", "scanning", "up"}
  /\ loaded \in Seq({p \in Packages : Valid(Manifest[p])})
  /\ entity \in Entities \union {NoRecurfile} /\ saved \in Entities \union {NoRecurfile}
  /\ \A c \in Clients : client[c].pc \in Pcs
  /\ excused \subseteq Namespaces /\ stopped \subseteq Types \X Namespaces /\ resumed \subseteq Types

\* Nothing is being done about a namespace.
Quiet(ns) ==
  daemon = "up" /\ \A c \in Busy : client[c].pc # "save" =>
    client[c].target # NoPlugin /\ Namespace(client[c].target) # ns

\* A plugin the daemon has loaded is on disk, complete, and one that is on disk is loaded once
\* the commands that install and uninstall it are over, whatever else is installed,
\* uninstalled or registered meanwhile, unless commands for the same plugin, or one and the
\* start of the daemon, overlapped, or a handler replaced d.plugins under another.
MemoryFollowsDisk ==
  \A ns \in Namespaces \ excused : Quiet(ns) =>
    (ns \in NamespacesOf(loaded) <=>
       \E n \in Names : /\ dir[n] # NoDir /\ Namespace(dir[n].pkg) = ns
                        /\ dir[n].parts = ToSet(Content[dir[n].pkg]))

\* No trigger or action of a plugin that was uninstalled is active, unless the user has resumed
\* it since: UninstallPlugin suspends those that belong to it, after it has taken the plugin from
\* d.plugins (requirements/cli-commands.md:37 and :256 want uninstall refused instead), and the
\* handlers of recur resume do not ask for the plugin.  An entity without an owner is one that
\* was registered, or loaded at a start, when no plugin declared its type: it is active then.
OrphansAreSuspended ==
  entity # NoRecurfile => \A t \in Types :
    LET ns == entity[t].owner IN
    (ns # NoPlugin /\ ns \notin excused /\ Quiet(ns) /\ ns \notin NamespacesOf(loaded))
      => entity[t].status = "suspended" \/ t \in resumed

\* What an uninstall has suspended stays so over crashes, restarts and a new installation,
\* until the recurfile is registered again or the user resumes it.
SuspendedUntilResumed ==
  (daemon = "up" /\ entity # NoRecurfile) =>
    \A s \in stopped : entity[s[1]].status = "suspended"
=============================================================================
