------------------------------ MODULE Registry ------------------------------
(***************************************************************************)
(* The daemon's registry (src/src/app/recurd/daemon/registry.go) and the   *)
(* requests that name an entity (api.go): recurfiles, groups, triggers and *)
(* actions by ID, and the index by ID, name and ID prefix.                 *)
(*                                                                         *)
(* The maps are guarded by r.mutex, the index by a lock of its own.  An    *)
(* operation that holds r.mutex changes the index one entry at a time,     *)
(* while other goroutines look entities up: todo is what it has still to   *)
(* do, and r.mutex is free when todo is empty.                             *)
(*                                                                         *)
(* EntityID is a hash of an entity's type and seed; an ID here is the seed *)
(* (no collisions).  Seeds hold the ID of the parent, so the fields        *)
(* GroupID, TriggerID and RecurfileID are parts of the ID.                 *)
(***************************************************************************)
EXTENDS EntityIndex, SequencesExt

CONSTANTS
  Paths,      \* paths a recurfile may be registered by
  Files,      \* physical files
  Missing,    \* what a path refers to when os.Stat fails
  Contents,   \* what a recurfile may say, after recurfile.Resolve
  PluginTypes,\* the trigger and action types of the plugin that may be uninstalled
  Clients,    \* requests in progress
  MaxRequest, \* bound: requests
  MaxRelink   \* bound: changes of what a path refers to

IsList(s) == s \in Seq(ToSet(s))

\* A recurfile is a list of groups, a group lists triggers, a trigger actions; all have names.
IsContent(content) ==
  /\ IsList(content)
  /\ \A g \in ToSet(content) :
       /\ g.name \in Names /\ IsList(g.triggers)
       /\ \A t \in ToSet(g.triggers) :
            /\ t.name \in Names /\ IsList(t.actions)
            /\ \A a \in ToSet(t.actions) : a.name \in Names

ASSUME RegistryAssumption ==
  /\ Paths \subseteq Names
  /\ Missing \notin Files
  /\ \A content \in Contents : IsContent(content)
  /\ MaxRequest \in Nat /\ MaxRelink \in Nat

VARIABLES
  recurfiles, \* recurfile ID to the IDs of its groups
  groups,     \* group ID to [triggers, actions], the IDs in file order
  triggers,   \* trigger ID to status
  actions,    \* action ID to status
  todo,       \* index operations of the holder of r.mutex
  request,    \* where every request is
  inode,      \* the physical file of every path
  requests, relinks, \* how much of the bounds is used up
  registered, \* history: the contents registered, by path
  tainted     \* history: a registration that the properties exempt has occurred

maps == <<recurfiles, groups, triggers, actions>>
disk == <<inode, relinks>>
history == <<registered, tainted>>
vars == <<index, maps, todo, request, disk, requests, history>>

-----------------------------------------------------------------------------
(* IDs and the entities of a recurfile. *)

RecurfileID(path) == <<"recurfile", path>>
GroupID(wf, name) == <<"group", wf, name>>

\* Zero-based count of earlier siblings of the same type.
Occurrence(s, i) == Cardinality({j \in 1..(i - 1) : s[j].type = s[i].type})

\* Mutant of SiblingIDs: siblings of one type share an ID.
SiblingIDsByType(kind, parent, s) ==
  [i \in DOMAIN s |-> <<kind, parent, s[i].type, 0>>]

\* IDs of a group's triggers, or of a trigger's actions, in file order.
SiblingIDs(kind, parent, s) ==
  [i \in DOMAIN s |-> <<kind, parent, s[i].type, Occurrence(s, i)>>]

Parent(id) == id[2]
TypeOf(id) == id[3]
RecurfileOfTrigger(t) == Parent(Parent(t))
RecurfileOfAction(a) == RecurfileOfTrigger(Parent(a))

TriggerIDs(wf, g) == SiblingIDs("trigger", GroupID(wf, g.name), g.triggers)

ActionIDs(wf, g) ==
  FlattenSeq([i \in DOMAIN g.triggers |->
                SiblingIDs("action", TriggerIDs(wf, g)[i], g.triggers[i].actions)])

GroupIDs(wf, content) == [k \in DOMAIN content |-> GroupID(wf, content[k].name)]
AllTriggers(wf, content) == UNION {ToSet(TriggerIDs(wf, content[k])) : k \in DOMAIN content}
AllActions(wf, content) == UNION {ToSet(ActionIDs(wf, content[k])) : k \in DOMAIN content}

\* An entity's label, or its type when it has none, is its name in the index.
Ref(kind, id, name) == [type |-> kind, id |-> id, name |-> name]

TriggerRefs(id, t) ==
  <<Ref("trigger", id, t.name)>> \o
  [j \in DOMAIN t.actions |->
     Ref("action", SiblingIDs("action", id, t.actions)[j], t.actions[j].name)]

GroupRefs(wf, g) ==
  FlattenSeq([i \in DOMAIN g.triggers |-> TriggerRefs(TriggerIDs(wf, g)[i], g.triggers[i])])
    \o <<Ref("group", GroupID(wf, g.name), g.name)>>

\* The references in the order registerResolved adds them.
FileRefs(path, content) ==
  FlattenSeq([k \in DOMAIN content |-> GroupRefs(RecurfileID(path), content[k])])
    \o <<Ref("recurfile", RecurfileID(path), path)>>

-----------------------------------------------------------------------------
(* The maps. *)

Maps == [recurfiles |-> recurfiles, groups |-> groups, triggers |-> triggers, actions |-> actions]

Without(f, S) == [x \in DOMAIN f \ S |-> f[x]]
With(f, g) == [x \in DOMAIN f \union DOMAIN g |-> IF x \in DOMAIN g THEN g[x] ELSE f[x]]

\* unlockedTriggerIDs and its like: what the groups of a recurfile list.
Listed(wf, field) ==
  FlattenSeq([k \in DOMAIN recurfiles[wf] |->
                IF recurfiles[wf][k] \in DOMAIN groups
                THEN groups[recurfiles[wf][k]][field] ELSE << >>])

\* unlockedDeregisterRecurfile.  A group that is listed twice is found once.
Deregistered(wf) ==
  [recurfiles |-> Without(recurfiles, {wf}),
   groups     |-> Without(groups, ToSet(recurfiles[wf])),
   triggers   |-> Without(triggers, ToSet(Listed(wf, "triggers"))),
   actions    |-> Without(actions, ToSet(Listed(wf, "actions")))]

RemovedIDs(wf) ==
  LET gs == recurfiles[wf]
      first(k) == gs[k] \in DOMAIN groups /\ \A j \in 1..(k - 1) : gs[j] # gs[k]
  IN  FlattenSeq([k \in DOMAIN gs |->
                    IF first(k)
                    THEN groups[gs[k]].triggers \o groups[gs[k]].actions \o <<gs[k]>>
                    ELSE << >>]) \o <<wf>>

\* What registerResolved adds to the maps m.  All entities start active; of two
\* groups of one name the later one takes the place of the earlier.
Registered(m, path, content) ==
  LET wf == RecurfileID(path)
      last(g) == LastOf({k \in DOMAIN content : GroupID(wf, content[k].name) = g})
  IN  [recurfiles |-> With(m.recurfiles, [w \in {wf} |-> GroupIDs(wf, content)]),
       groups     |-> With(m.groups,
                           [g \in ToSet(GroupIDs(wf, content)) |->
                              [triggers |-> TriggerIDs(wf, content[last(g)]),
                               actions  |-> ActionIDs(wf, content[last(g)])]]),
       triggers   |-> With(m.triggers, [t \in AllTriggers(wf, content) |-> "active"]),
       actions    |-> With(m.actions, [a \in AllActions(wf, content) |-> "active"])]

SetMaps(m) ==
  /\ recurfiles' = m.recurfiles
  /\ groups' = m.groups
  /\ triggers' = m.triggers
  /\ actions' = m.actions

Removals(ids) == [i \in DOMAIN ids |-> [op |-> "remove", id |-> ids[i]]]
Additions(refs) == [i \in DOMAIN refs |-> [op |-> "add", ref |-> refs[i]]]

-----------------------------------------------------------------------------

Idle == [pc |-> "idle"]

Init ==
  /\ NewEntityIndex
  /\ recurfiles = << >> /\ groups = << >> /\ triggers = << >> /\ actions = << >>
  /\ todo = << >>
  /\ request = [c \in Clients |-> Idle]
  /\ inode \in [Paths -> Files]
  /\ requests = 0 /\ relinks = 0
  /\ registered = << >>
  /\ tainted = FALSE

\* The holder of r.mutex changes one entry of the index.
IndexStep ==
  /\ todo # << >>
  /\ IF Head(todo).op = "add" THEN Add(Head(todo).ref) ELSE RemoveID(Head(todo).id)
  /\ todo' = Tail(todo)
  /\ UNCHANGED <<maps, request, disk, requests, history>>

SameRecurfilePath(a, b) == a = b \/ (inode[a] # Missing /\ inode[a] = inode[b])

\* The registered recurfiles that are this physical file.
SameFile(path) == {wf \in DOMAIN recurfiles : SameRecurfilePath(wf[2], path)}

TwoGroupsOfOneName(content) ==
  \E j, k \in DOMAIN content : j # k /\ content[j].name = content[k].name

\* Bookkeeping of a registration.  Exempt are files with two groups of one
\* name, and reloads that replace another path's entry while this path has one.
Record(path, old, content) ==
  /\ registered' = With(Without(registered, {wf[2] : wf \in old}), [p \in {path} |-> content])
  /\ tainted' = (tainted \/ TwoGroupsOfOneName(content)
                         \/ (path \in DOMAIN registered /\ RecurfileID(path) \notin old))
  /\ requests' = requests + 1

\* Mutant of RegisterResolved: a reload does not remove the old entities.
RegisterResolvedOver(path, content) ==
  /\ todo = << >> /\ requests < MaxRequest /\ inode[path] # Missing
  /\ SetMaps(Registered(Maps, path, content))
  /\ todo' = Additions(FileRefs(path, content))
  /\ Record(path, SameFile(path), content)
  /\ UNCHANGED <<index, request, disk>>

\* registerResolved.  The first recurfile of the map that is the same file is
\* replaced; the order of a Go map is random.
RegisterResolved(path, content) ==
  /\ todo = << >> /\ requests < MaxRequest /\ inode[path] # Missing
  /\ \/ /\ SameFile(path) = {}
        /\ SetMaps(Registered(Maps, path, content))
        /\ todo' = Additions(FileRefs(path, content))
        /\ Record(path, {}, content)
     \/ \E old \in SameFile(path) :
          /\ SetMaps(Registered(Deregistered(old), path, content))
          /\ todo' = Removals(RemovedIDs(old)) \o Additions(FileRefs(path, content))
          /\ Record(path, {old}, content)
  /\ UNCHANGED <<index, request, disk>>

-----------------------------------------------------------------------------
(* Requests by identifier.  The look-up takes the lock of the index, the   *)
(* change that follows r.mutex; anything may happen in between.            *)

EntityTypes == {"recurfile", "group", "trigger", "action"}
AllRefs == UNION {ToSet(FileRefs(p, c)) : p \in Paths, c \in Contents}
Identifiers == {r.id : r \in AllRefs} \union Names \union IDPrefixes

\* The type a request is for.
Requests == {<<"suspend", "trigger">>, <<"suspend", "action">>, <<"resume", "trigger">>,
             <<"resume", "action">>, <<"deregister", "recurfile">>}

\* suspendTrigger, resumeTrigger, suspendAction, resumeAction and
\* deregisterRecurfile: the identifier is looked up.
Find(c, op, type, identifier) ==
  /\ request[c] = Idle /\ requests < MaxRequest
  /\ requests' = requests + 1
  /\ \E id \in FindEntityByType(identifier, type) :
       request' = [request EXCEPT ![c] = [pc |-> "found", op |-> op, id |-> id]]
  /\ UNCHANGED <<index, maps, todo, disk, history>>

\* SuspendEntity and ResumeEntity: exactly one trigger or action must match, or
\* exactly one of the type the client gives ...
ResolveOne(c, op, types, identifier) ==
  /\ request[c] = Idle /\ requests < MaxRequest
  /\ requests' = requests + 1
  /\ \E i \in ResolveEntity(identifier, types) :
       /\ ResolveEntity(identifier, types) = {i}
       /\ request' = [request EXCEPT ![c] = [pc |-> "resolved", op |-> op,
                                             id |-> entries[i].id, type |-> entries[i].type]]
  /\ UNCHANGED <<index, maps, todo, disk, history>>

\* ... whose ID is looked up once more by the request for its type.
FindResolved(c) ==
  /\ request[c].pc = "resolved"
  /\ \/ /\ FindEntityByType(request[c].id, request[c].type) = {}
        /\ request' = [request EXCEPT ![c] = Idle]
     \/ \E id \in FindEntityByType(request[c].id, request[c].type) :
          request' = [request EXCEPT ![c] = [pc |-> "found", op |-> request[c].op, id |-> id]]
  /\ UNCHANGED <<index, maps, todo, disk, requests, history>>

StatusAfter(op) == IF op = "suspend" THEN "suspended" ELSE "active"

\* The status is set, if the entity is still there.
ChangeStatus(c) ==
  /\ request[c].pc = "found" /\ request[c].op \in {"suspend", "resume"}
  /\ todo = << >>
  /\ triggers' = [t \in DOMAIN triggers |->
                    IF t = request[c].id THEN StatusAfter(request[c].op) ELSE triggers[t]]
  /\ actions' = [a \in DOMAIN actions |->
                   IF a = request[c].id THEN StatusAfter(request[c].op) ELSE actions[a]]
  /\ request' = [request EXCEPT ![c] = Idle]
  /\ UNCHANGED <<index, recurfiles, groups, todo, disk, requests, history>>

DeregisterRecurfile(c) ==
  /\ request[c].pc = "found" /\ request[c].op = "deregister"
  /\ todo = << >>
  /\ request' = [request EXCEPT ![c] = Idle]
  /\ IF request[c].id \in DOMAIN recurfiles
     THEN /\ SetMaps(Deregistered(request[c].id))
          /\ todo' = Removals(RemovedIDs(request[c].id))
          /\ registered' = Without(registered, {request[c].id[2]})
          /\ UNCHANGED tainted
     ELSE UNCHANGED <<maps, todo, history>>
  /\ UNCHANGED <<index, disk, requests>>

\* suspendByPluginID, when the plugin is uninstalled.
SuspendByPluginID ==
  /\ todo = << >> /\ requests < MaxRequest
  /\ requests' = requests + 1
  /\ triggers' = [t \in DOMAIN triggers |->
                    IF TypeOf(t) \in PluginTypes THEN "suspended" ELSE triggers[t]]
  /\ actions' = [a \in DOMAIN actions |->
                   IF TypeOf(a) \in PluginTypes THEN "suspended" ELSE actions[a]]
  /\ UNCHANGED <<index, recurfiles, groups, todo, request, disk, history>>

\* A user removes, links or replaces a file.
Relink(path) ==
  /\ relinks < MaxRelink
  /\ \E f \in Files \union {Missing} : inode' = [inode EXCEPT ![path] = f]
  /\ relinks' = relinks + 1
  /\ UNCHANGED <<index, maps, todo, request, requests, history>>

Next ==
  \/ IndexStep
  \/ \E p \in Paths, content \in Contents : RegisterResolved(p, content)
  \/ \E c \in Clients, r \in Requests, i \in Identifiers : Find(c, r[1], r[2], i)
  \/ \E c \in Clients, op \in {"suspend", "resume"}, i \in Identifiers,
        types \in {{"trigger"}, {"action"}, {"trigger", "action"}} : ResolveOne(c, op, types, i)
  \/ \E c \in Clients : FindResolved(c) \/ ChangeStatus(c) \/ DeregisterRecurfile(c)
  \/ SuspendByPluginID
  \/ \E p \in Paths : Relink(p)

Spec == Init /\ [][Next]_vars

-----------------------------------------------------------------------------
(* What the registry's readers compute from the maps. *)

\* GetActionsForTrigger: the group's actions that belong to the trigger.
GetActionsForTrigger(t) ==
  IF t \in DOMAIN triggers /\ Parent(t) \in DOMAIN groups
  THEN LET as == groups[Parent(t)].actions
       IN  FlattenSeq([i \in DOMAIN as |->
                         IF as[i] \in DOMAIN actions /\ Parent(as[i]) = t THEN <<as[i]>> ELSE << >>])
  ELSE << >>

\* triggerActionIDs, recurfileTriggers, recurfileActions: scans of the maps.
TriggerActionIDs(t) == {a \in DOMAIN actions : Parent(a) = t}
RecurfileTriggers(wf) == {t \in DOMAIN triggers : RecurfileOfTrigger(t) = wf}
RecurfileActions(wf) == {a \in DOMAIN actions : RecurfileOfAction(a) = wf}

\* getRecurfileCounts
TriggerCount(wf) == Len(Listed(wf, "triggers"))
ActionCount(wf) == Len(Listed(wf, "actions"))

-----------------------------------------------------------------------------
(* Properties *)

TypeOK ==
  /\ ToSet(entries) \subseteq AllRefs
  /\ DOMAIN byID \subseteq {r.id : r \in AllRefs}
  /\ byName \in [Names -> SUBSET (1..Len(entries))]
  /\ Cardinality(deleted) < FlushAt
  /\ \A t \in DOMAIN triggers : triggers[t] \in {"active", "suspended"}
  /\ \A a \in DOMAIN actions : actions[a] \in {"active", "suspended"}
  /\ inode \in [Paths -> Files \union {Missing}]
  /\ \A c \in Clients : request[c].pc \in {"idle", "resolved", "found"}
  /\ DOMAIN registered \subseteq Paths
  /\ tainted \in BOOLEAN

\* The references of what is registered now.
RegisteredRefs == UNION {ToSet(FileRefs(p, registered[p])) : p \in DOMAIN registered}

\* The resolution order over what is registered: an exact ID,
\* else a name, else a prefix of IDs (entity_index.go:49-52).
Meant(refs, identifier) ==
  LET byExactID == {r \in refs : r.id = identifier}
      byItsName == {r \in refs : r.name = identifier}
      byPrefix  == {r \in refs : identifier \in IDPrefixes /\ HasPrefix(r.id, identifier)}
  IN  IF byExactID # {} THEN byExactID ELSE IF byItsName # {} THEN byItsName ELSE byPrefix

\* After any sequence of registrations, reloads and removals, with compactions
\* among them, an identifier finds the entities of the registered files that it
\* means, each once, and none of a file that was removed or replaced (Lookup,
\* entity_index.go:53).  Exempt are the files of which Record says so.
IndexFindsRegistered ==
  ~tainted /\ todo = << >> =>
    LET refs == RegisteredRefs
    IN  \A identifier \in Identifiers :
          LET found == Lookup(identifier)
              meant == Meant(refs, identifier)
          IN  /\ {entries[i] : i \in found} = meant
              /\ Cardinality(found) = Cardinality(meant)

\* The maps hold the entities of the registered files and no others: a reload
\* replaces a file as a whole, whatever path it is named by, and a removal
\* leaves nothing behind (registerResolved, registry.go:107; :265).
MapsHoldRegistered ==
  ~tainted =>
    LET ids(kind) == {r.id : r \in {x \in RegisteredRefs : x.type = kind}}
    IN  /\ DOMAIN recurfiles = ids("recurfile")
        /\ DOMAIN groups = ids("group")
        /\ DOMAIN triggers = ids("trigger")
        /\ DOMAIN actions = ids("action")

\* How many triggers the file says there are, in all of its groups.
Said(content) == Cardinality(UNION {{k} \X DOMAIN content[k].triggers : k \in DOMAIN content})

\* The code gets at the triggers and actions of a recurfile in two ways: by the
\* lists of its groups (Deregister, snapshot, counts) and by a scan of the maps
\* (Register's activations, Inspect).  Both give the same, as many as the file
\* says, and a trigger that fires runs its own actions, each once
\* (registry.go:442, :500, :558, :572).
ViewsAgree ==
  ~tainted =>
    \A wf \in DOMAIN recurfiles :
      /\ ToSet(Listed(wf, "triggers")) = RecurfileTriggers(wf)
      /\ ToSet(Listed(wf, "actions")) = RecurfileActions(wf)
      /\ Cardinality(RecurfileTriggers(wf)) = Said(registered[wf[2]])
      /\ TriggerCount(wf) = Cardinality(RecurfileTriggers(wf))
      /\ ActionCount(wf) = Cardinality(RecurfileActions(wf))
      /\ \A t \in RecurfileTriggers(wf) :
           /\ ToSet(GetActionsForTrigger(t)) = TriggerActionIDs(t)
           /\ Len(GetActionsForTrigger(t)) = Cardinality(TriggerActionIDs(t))

-----------------------------------------------------------------------------
(* What the documents say and the code does not do (README, section 6); no *)
(* configuration lists it.                                                 *)

\* "removes a recurfile and all associated entities" (registry.go:263): no
\* entity belongs to a recurfile that is not registered.
NothingLeftBehind ==
  /\ \A t \in DOMAIN triggers : RecurfileOfTrigger(t) \in DOMAIN recurfiles
  /\ \A a \in DOMAIN actions : RecurfileOfAction(a) \in DOMAIN recurfiles
=============================================================================
