----------------------------- MODULE PluginsProofs -----------------------------
(***************************************************************************)
(* What is proved of Plugins: a suspension by uninstall outlives crashes,  *)
(* restarts and other commands; nothing is active without its plugin; and  *)
(* the daemon's list of plugins is what is on disk.                        *)
(***************************************************************************)
EXTENDS Plugins, WellFoundedInduction, NaturalsInduction, TLAPS

\* The record of a client has its fields.
ClientShape ==
  /\ client = [c \in Clients |-> client[c]]
  /\ \A c \in Clients :
       client[c] = [pc |-> client[c].pc, identifier |-> client[c].identifier,
                    target |-> client[c].target, found |-> client[c].found, seen |-> client[c].seen]

\* The registry has an entity of every type, or none.
EntityShape == entity = NoRecurfile \/ DOMAIN entity = Types

\* Handlers run in a daemon that is up.
ServedWhileUp == \A c \in Clients : client[c].pc \in InDaemon => daemon = "up"

\* A command that is under way is about a package.
Targeted == \A c \in Clients : client[c].pc \notin {"idle", "register", "save"} => client[c].target \in Packages

\* An uninstall of the namespace has suspended its entities and not yet saved them.
Unsaved(ns) == \E c \in Clients : /\ client[c].pc = "persist" /\ client[c].target # NoPlugin
                                  /\ Namespace(client[c].target) = ns

\* What is suspended is so in state.json, or will be as soon as a handler goes on.
SavedOrPending ==
  \A s \in stopped : \/ saved # NoRecurfile /\ saved[s[1]].status = "suspended"
                     \/ Unsaved(s[2])

SuspendedInMemory ==
  daemon = "up" => \A s \in stopped : entity # NoRecurfile /\ entity[s[1]].status = "suspended"

SuspensionInv ==
  /\ ClientShape /\ EntityShape /\ ServedWhileUp /\ Targeted
  /\ stopped \subseteq Types \X Namespaces
  /\ SavedOrPending /\ SuspendedInMemory

\* A step of one client that changes neither the daemon's state nor the registry, takes no
\* part in a handler's save, and at most withdraws promises.
Harmless(c) ==
  /\ UNCHANGED <<daemon, entity, saved>>
  /\ stopped' \subseteq stopped
  /\ client' = [client EXCEPT ![c] = client'[c]]
  /\ client'[c] = [pc |-> client'[c].pc, identifier |-> client'[c].identifier,
                    target |-> client'[c].target, found |-> client'[c].found, seen |-> client'[c].seen]
  /\ client'[c].pc # "persist"
  /\ client'[c].pc \in InDaemon => daemon = "up"
  /\ client'[c].pc \notin {"idle", "register", "save"} => client'[c].target \in Packages
  /\ client[c].pc # "persist"

LEMMA HarmlessKeeps ==
  ASSUME SuspensionInv, NEW c \in Clients, Harmless(c)
  PROVE  SuspensionInv'
<1> USE DEF SuspensionInv
<1>1. /\ DOMAIN client = Clients /\ DOMAIN client' = Clients
      /\ \A d \in Clients \ {c} : client'[d] = client[d]
  BY DEF ClientShape, Harmless
<1>3. ClientShape'
  BY <1>1 DEF ClientShape, Harmless
<1>4. ServedWhileUp' /\ Targeted'
  BY <1>1 DEF ServedWhileUp, Targeted, Harmless, InDaemon
<1>5. \A ns : Unsaved(ns) => Unsaved(ns)'
  BY <1>1 DEF Unsaved, Harmless, Namespace
<1>6. SavedOrPending' /\ SuspendedInMemory' /\ EntityShape' /\ stopped' \subseteq Types \X Namespaces
  BY <1>5 DEF SavedOrPending, SuspendedInMemory, EntityShape, NoRecurfile, Harmless
<1> QED
  BY <1>3, <1>4, <1>6

\* The start of install or uninstall is harmless.
LEMMA BeginHarmless ==
  ASSUME SuspensionInv, NEW c \in Clients, InstallCommand(c) \/ UninstallCommand(c)
  PROVE  Harmless(c)
<1>0. PICK p \in Packages, pc \in {"check", "find"} : \E identifier : Begin(c, pc, p, identifier)
  BY DEF InstallCommand, UninstallCommand
<1>1. PICK identifier : Begin(c, pc, p, identifier)
  BY <1>0
<1>2. client' = [client EXCEPT ![c] = [Idle EXCEPT !.pc = pc, !.identifier = identifier, !.target = p]]
  BY <1>1 DEF Begin
<1>3. client'[c] = [Idle EXCEPT !.pc = pc, !.identifier = identifier, !.target = p]
  BY <1>2 DEF SuspensionInv, ClientShape
<1>4. /\ client'[c].pc = pc /\ client'[c].target = p
      /\ client'[c] = [pc |-> client'[c].pc, identifier |-> client'[c].identifier,
                       target |-> client'[c].target, found |-> client'[c].found, seen |-> client'[c].seen]
  BY <1>3 DEF Idle
<1>5. client' = [client EXCEPT ![c] = client'[c]]
  BY <1>2, <1>3
<1>6. UNCHANGED <<daemon, entity, saved>> /\ stopped' \subseteq stopped /\ client[c].pc # "persist"
  BY <1>1 DEF Begin, At, Excuse
<1> QED
  BY <1>4, <1>5, <1>6 DEF Harmless, InDaemon

\* The record of a client that goes on, or has finished.
LEMMA Continues ==
  ASSUME SuspensionInv, NEW c \in Clients, NEW pc,
         client' = [client EXCEPT ![c].pc = pc],
         UNCHANGED <<daemon, entity, saved>>, stopped' \subseteq stopped,
         client[c].pc \notin {"idle", "register", "save", "persist"}, pc # "persist",
         pc \in InDaemon => daemon = "up"
  PROVE  Harmless(c)
<1> DEFINE r == [client[c] EXCEPT !.pc = pc]
<1>1. client' = [client EXCEPT ![c] = r]
  OBVIOUS
<1>2. r = [pc |-> pc, identifier |-> client[c].identifier, target |-> client[c].target,
           found |-> client[c].found, seen |-> client[c].seen]
  BY DEF SuspensionInv, ClientShape
<1>3. client[c].target \in Packages
  BY DEF SuspensionInv, Targeted
<1> HIDE DEF r
<1>4. client'[c] = r
  BY <1>1 DEF SuspensionInv, ClientShape
<1>5. client' = [client EXCEPT ![c] = client'[c]]
  BY <1>1, <1>4
<1>6. /\ client'[c].pc = pc /\ client'[c].target \in Packages
      /\ client'[c] = [pc |-> client'[c].pc, identifier |-> client'[c].identifier,
                       target |-> client'[c].target, found |-> client'[c].found, seen |-> client'[c].seen]
  BY <1>2, <1>3, <1>4
<1> QED
  BY <1>5, <1>6 DEF Harmless

LEMMA Finishes ==
  ASSUME SuspensionInv, NEW c \in Clients, Ends(c),
         UNCHANGED <<daemon, entity, saved>>, stopped' \subseteq stopped,
         client[c].pc # "persist"
  PROVE  Harmless(c)
<1>1. Idle.pc = "idle" /\ Idle = [pc |-> Idle.pc, identifier |-> Idle.identifier, target |-> Idle.target,
                                 found |-> Idle.found, seen |-> Idle.seen]
  BY DEF Idle
<1>2. client'[c] = Idle /\ client' = [client EXCEPT ![c] = Idle]
  BY DEF Ends, SuspensionInv, ClientShape
<1> QED
  BY <1>1, <1>2 DEF Harmless, InDaemon

\* A client that stays where it is.
LEMMA Waits ==
  ASSUME SuspensionInv, NEW c \in Clients, UNCHANGED <<client, daemon, entity, saved, stopped>>
  PROVE  SuspensionInv'
BY DEF SuspensionInv, ClientShape, EntityShape, ServedWhileUp, Targeted, SavedOrPending,
       SuspendedInMemory, Unsaved, Namespace, NoRecurfile, InDaemon

LEMMA InstallKeeps ==
  ASSUME SuspensionInv, NEW c \in Clients,
         \/ InstallCommand(c) \/ InstallCheck(c) \/ InstallCopy(c) \/ InstallCopyFails(c)
         \/ InstallLoad(c) \/ InstallPlugin(c)
  PROVE  SuspensionInv'
<1>1. CASE InstallCommand(c)
  BY <1>1, BeginHarmless, HarmlessKeeps
<1>2. CASE InstallCheck(c)
  <2>1. CASE Goto(c, "copy")
    BY <1>2, <2>1, Continues, HarmlessKeeps DEF InstallCheck, At, Goto, InDaemon
  <2>2. CASE Ends(c)
    BY <1>2, <2>2, Finishes, HarmlessKeeps DEF InstallCheck, At
  <2> QED
    BY <1>2, <2>1, <2>2 DEF InstallCheck
<1>3. CASE InstallCopy(c)
  <2>1. CASE Goto(c, "load")
    BY <1>3, <2>1, Continues, HarmlessKeeps DEF InstallCopy, At, Goto, InDaemon
  <2>2. CASE UNCHANGED client
    BY <1>3, <2>2, Waits DEF InstallCopy
  <2> QED
    BY <1>3, <2>1, <2>2 DEF InstallCopy
<1>4. CASE InstallCopyFails(c)
  BY <1>4, Finishes, HarmlessKeeps DEF InstallCopyFails, At
<1>5. CASE InstallLoad(c)
  <2>1. CASE Goto(c, "handle") /\ daemon = "up"
    BY <1>5, <2>1, Continues, HarmlessKeeps DEF InstallLoad, At, Goto
  <2>2. CASE Ends(c)
    BY <1>5, <2>2, Finishes, HarmlessKeeps DEF InstallLoad, At
  <2> QED
    BY <1>5, <2>1, <2>2 DEF InstallLoad
<1>6. CASE InstallPlugin(c)
  <2>1. stopped' \subseteq stopped /\ Ends(c)
    BY <1>6 DEF InstallPlugin, Excuse
  <2> QED
    BY <1>6, <2>1, Finishes, HarmlessKeeps DEF InstallPlugin, At
<1> QED
  BY <1>1, <1>2, <1>3, <1>4, <1>5, <1>6

LEMMA UninstallKeeps ==
  ASSUME SuspensionInv, NEW c \in Clients,
         \/ UninstallCommand(c) \/ UninstallFind(c) \/ UninstallFilter(c) \/ UninstallReplace(c)
         \/ UninstallRemove(c) \/ CommandFails(c)
  PROVE  SuspensionInv'
<1>1. CASE UninstallCommand(c)
  BY <1>1, BeginHarmless, HarmlessKeeps
<1>2. CASE UninstallFind(c)
  <2>1. client'[c] = [client[c] EXCEPT !.found = FindByIdentifier(Discover, client[c].identifier),
                                       !.pc = IF daemon = "up" THEN "filter" ELSE "remove"]
    BY <1>2 DEF UninstallFind, SuspensionInv, ClientShape
  <2>2. client' = [client EXCEPT ![c] = client'[c]]
    BY <1>2, <2>1 DEF UninstallFind, SuspensionInv, ClientShape
  <2> QED
    BY <1>2, <2>1, <2>2, HarmlessKeeps, ZenonT(40)
    DEF UninstallFind, Harmless, SuspensionInv, ClientShape, Targeted, At, InDaemon
<1>3. CASE UninstallFilter(c)
  <2>0. /\ stopped' \subseteq stopped /\ daemon = "up" /\ UNCHANGED <<daemon, entity, saved>>
        /\ client[c].pc = "filter"
    BY <1>3 DEF UninstallFilter, Excuse, SuspensionInv, ServedWhileUp, At, InDaemon
  <2>1. CASE Ends(c)
    BY <2>0, <2>1, Finishes, HarmlessKeeps
  <2>2. ASSUME NEW p \in Packages,
               client' = [client EXCEPT ![c].pc = "replace", ![c].seen = loaded, ![c].target = p]
        PROVE  SuspensionInv'
    <3>1. client'[c] = [client[c] EXCEPT !.pc = "replace", !.seen = loaded, !.target = p]
      BY <2>2 DEF SuspensionInv, ClientShape
    <3>2. client' = [client EXCEPT ![c] = client'[c]]
      BY <2>2, <3>1 DEF SuspensionInv, ClientShape
    <3>3. /\ client'[c].pc = "replace" /\ client'[c].target = p
          /\ client'[c] = [pc |-> client'[c].pc, identifier |-> client'[c].identifier,
                            target |-> client'[c].target, found |-> client'[c].found, seen |-> client'[c].seen]
      BY <3>1 DEF SuspensionInv, ClientShape
    <3> QED
      BY <2>0, <3>2, <3>3, HarmlessKeeps DEF Harmless
  <2> QED
    BY <1>3, <2>1, <2>2 DEF UninstallFilter
<1>4. CASE UninstallReplace(c)
  <2>1. stopped' \subseteq stopped /\ daemon = "up"
    BY <1>4 DEF UninstallReplace, Excuse, SuspensionInv, ServedWhileUp, At, InDaemon
  <2> QED
    BY <1>4, <2>1, Continues, HarmlessKeeps DEF UninstallReplace, At, Goto
<1>5. CASE UninstallRemove(c)
  <2>1. CASE Ends(c)
    BY <1>5, <2>1, Finishes, HarmlessKeeps DEF UninstallRemove, At
  <2>2. CASE UNCHANGED client
    BY <1>5, <2>2, Waits DEF UninstallRemove
  <2> QED
    BY <1>5, <2>1, <2>2 DEF UninstallRemove
<1>6. CASE CommandFails(c)
  <2>1. stopped' \subseteq stopped /\ client[c].pc # "persist"
    BY <1>6 DEF CommandFails, Excuse
  <2> QED
    BY <1>6, <2>1, Finishes, HarmlessKeeps DEF CommandFails
<1> QED
  BY <1>1, <1>2, <1>3, <1>4, <1>5, <1>6

\* What SetStatus makes of the registry.
LEMMA SetStatusFacts ==
  ASSUME PluginsAssumption, EntityShape, NEW types, NEW status, SetStatus(types, status)
  PROVE  /\ EntityShape' /\ (entity' = NoRecurfile <=> entity = NoRecurfile)
         /\ entity # NoRecurfile => \A t \in Types :
              /\ entity'[t].owner = entity[t].owner
              /\ entity'[t].status = IF t \in types THEN status ELSE entity[t].status
<1>1. CASE entity = NoRecurfile
  BY <1>1 DEF SetStatus, EntityShape, NoRecurfile
<1>2. CASE entity # NoRecurfile
  <2>1. DOMAIN entity = Types
    BY <1>2 DEF EntityShape
  <2>2. entity' = [t \in Types |-> [owner |-> entity[t].owner,
                                    status |-> IF t \in types THEN status ELSE entity[t].status]]
    BY <2>1 DEF SetStatus
  <2>3. DOMAIN entity' = Types /\ entity' # NoRecurfile
    BY <2>2 DEF NoRecurfile, PluginsAssumption
  <2> QED
    BY <1>2, <2>2, <2>3 DEF EntityShape
<1> QED
  BY <1>1, <1>2

\* The step of UninstallPlugin that suspends: what it suspends is pending until it saves.
LEMMA SuspendKeeps ==
  ASSUME PluginsAssumption, SuspensionInv, NEW c \in Clients, UninstallSuspend(c)
  PROVE  SuspensionInv'
<1> DEFINE ns == Namespace(client[c].target)
<1>0. PICK pc \in {"remove", "persist"} : pc = IF Active(ns) = {} THEN "remove" ELSE "persist"
  OBVIOUS
<1>1. /\ client[c].pc = "suspend" /\ client' = [client EXCEPT ![c].pc = pc]
      /\ daemon = "up" /\ UNCHANGED <<daemon, saved>>
      /\ client[c].target \in Packages
  BY <1>0 DEF UninstallSuspend, At, Goto, SuspensionInv, ServedWhileUp, Targeted, InDaemon
<1>2. /\ DOMAIN client = Clients /\ DOMAIN client' = Clients
      /\ \A d \in Clients \ {c} : client'[d] = client[d]
      /\ client'[c] = [client[c] EXCEPT !.pc = pc]
  BY <1>1 DEF SuspensionInv, ClientShape
<1>3. /\ client'[c].pc = pc /\ client'[c].target = client[c].target
      /\ client'[c] = [pc |-> client'[c].pc, identifier |-> client'[c].identifier,
                       target |-> client'[c].target, found |-> client'[c].found, seen |-> client'[c].seen]
  BY <1>2 DEF SuspensionInv, ClientShape
<1>4. ClientShape'
  BY <1>1, <1>2, <1>3 DEF SuspensionInv, ClientShape
<1>5. ServedWhileUp' /\ Targeted'
  BY <1>1, <1>2, <1>3 DEF SuspensionInv, ServedWhileUp, Targeted
<1>6. /\ pc = "persist" => Unsaved(ns)'
      /\ \A n : Unsaved(n) => Unsaved(n)'
  <2>1. client[c].target # NoPlugin
    BY <1>1 DEF PluginsAssumption
  <2> QED
    BY <1>1, <1>2, <1>3, <2>1 DEF Unsaved, Namespace
<1>7. /\ SetStatus(Active(ns), "suspended")
      /\ stopped' \subseteq stopped \union (Active(ns) \X {ns})
      /\ Active(ns) # {} => pc = "persist"
  BY <1>0 DEF UninstallSuspend
<1>8. /\ EntityShape' /\ (entity' = NoRecurfile <=> entity = NoRecurfile)
      /\ entity # NoRecurfile => \A t \in Types :
           entity'[t].status = IF t \in Active(ns) THEN "suspended" ELSE entity[t].status
  BY <1>7, SetStatusFacts DEF SuspensionInv
<1>9. /\ Active(ns) \subseteq Types
      /\ Active(ns) # {} => entity # NoRecurfile
  BY DEF Active, SuspensionInv, EntityShape, NoRecurfile
<1>10. ASSUME NEW s \in stopped'
       PROVE  /\ s \in Types \X Namespaces
              /\ entity' # NoRecurfile /\ entity'[s[1]].status = "suspended"
              /\ s \in stopped \/ (s[2] = ns /\ pc = "persist")
  <2>1. CASE s \in stopped
    <3>1. s \in Types \X Namespaces /\ entity # NoRecurfile /\ entity[s[1]].status = "suspended"
      BY <1>1, <2>1 DEF SuspensionInv, SuspendedInMemory
    <3> QED
      BY <1>8, <2>1, <3>1
  <2>2. CASE s \in Active(ns) \X {ns}
    BY <1>1, <1>7, <1>8, <1>9, <2>2 DEF Namespaces
  <2> QED
    BY <1>7, <2>1, <2>2
<1>11. SavedOrPending'
  BY <1>1, <1>6, <1>10 DEF SuspensionInv, SavedOrPending
<1>12. stopped' \subseteq Types \X Namespaces
  BY <1>10
<1>13. SuspendedInMemory'
  BY <1>10 DEF SuspendedInMemory
<1> QED
  BY <1>4, <1>5, <1>8, <1>11, <1>12, <1>13 DEF SuspensionInv

\* recur suspend and recur resume: one that resumes ends the promise, one that saves keeps what
\* was pending.
LEMMA StatusKeeps ==
  ASSUME PluginsAssumption, SuspensionInv, NEW c \in Clients, StatusCommand(c) \/ StatusPersist(c)
  PROVE  SuspensionInv'
<1>0. PICK r \in {[Idle EXCEPT !.pc = "save"], Idle} :
        /\ client' = [client EXCEPT ![c] = r]
        /\ r.pc \in {"save", "idle"}
        /\ r = [pc |-> r.pc, identifier |-> r.identifier, target |-> r.target, found |-> r.found, seen |-> r.seen]
  BY DEF StatusCommand, StatusPersist, Ends, Idle
<1>1. /\ daemon = "up" /\ UNCHANGED daemon /\ client[c].pc # "persist"
  BY DEF StatusCommand, StatusPersist, At, SuspensionInv, ServedWhileUp, InDaemon
<1>2. /\ DOMAIN client = Clients /\ DOMAIN client' = Clients
      /\ \A d \in Clients \ {c} : client'[d] = client[d]
      /\ client'[c] = r
  BY <1>0 DEF SuspensionInv, ClientShape
<1>3. ClientShape'
  BY <1>0, <1>2 DEF SuspensionInv, ClientShape
<1>4. ServedWhileUp' /\ Targeted'
  BY <1>0, <1>1, <1>2 DEF SuspensionInv, ServedWhileUp, Targeted
<1>5. \A ns : Unsaved(ns) => Unsaved(ns)'
  BY <1>1, <1>2 DEF Unsaved, Namespace
<1>6. CASE StatusPersist(c)
  <2>1. saved' = entity /\ UNCHANGED <<entity, stopped>>
    BY <1>6 DEF StatusPersist
  <2>2. EntityShape' /\ SuspendedInMemory' /\ SavedOrPending'
    BY <1>1, <2>1 DEF SuspensionInv, EntityShape, SuspendedInMemory, SavedOrPending, NoRecurfile
  <2> QED
    BY <1>3, <1>4, <2>1, <2>2 DEF SuspensionInv
<1>7. CASE StatusCommand(c)
  <2>1. PICK t, status :
          /\ t \in DOMAIN entity /\ SetStatus({t}, status) /\ stopped' \subseteq stopped
          /\ status = "suspended" \/ \A s \in stopped' : s[1] # t
    BY <1>7 DEF StatusCommand
  <2>2. /\ EntityShape' /\ (entity' = NoRecurfile <=> entity = NoRecurfile)
        /\ entity # NoRecurfile => \A x \in Types :
             entity'[x].status = IF x \in {t} THEN status ELSE entity[x].status
    BY <2>1, SetStatusFacts DEF SuspensionInv
  <2>3. ASSUME NEW s \in stopped' PROVE entity' # NoRecurfile /\ entity'[s[1]].status = "suspended"
    <3>1. s \in Types \X Namespaces /\ entity # NoRecurfile /\ entity[s[1]].status = "suspended"
      BY <1>1, <2>1 DEF SuspensionInv, SuspendedInMemory
    <3> QED
      BY <2>1, <2>2, <3>1
  <2>4. SuspendedInMemory' /\ stopped' \subseteq Types \X Namespaces
    BY <2>1, <2>3 DEF SuspendedInMemory, SuspensionInv
  <2>5. SavedOrPending'
    BY <1>5, <1>7, <2>1 DEF StatusCommand, SuspensionInv, SavedOrPending
  <2> QED
    BY <1>3, <1>4, <2>2, <2>4, <2>5 DEF SuspensionInv
<1> QED
  BY <1>6, <1>7

\* persistState: what was pending is in the file.
LEMMA PersistKeeps ==
  ASSUME SuspensionInv, NEW c \in Clients, UninstallPersist(c)
  PROVE  SuspensionInv'
<1>1. /\ client[c].pc = "persist" /\ client' = [client EXCEPT ![c].pc = "remove"]
      /\ daemon = "up" /\ UNCHANGED <<daemon, entity, stopped>> /\ saved' = entity
  BY DEF UninstallPersist, At, Goto, SuspensionInv, ServedWhileUp, InDaemon
<1>2. /\ DOMAIN client = Clients /\ DOMAIN client' = Clients
      /\ \A d \in Clients \ {c} : client'[d] = client[d]
      /\ client'[c] = [client[c] EXCEPT !.pc = "remove"]
  BY <1>1 DEF SuspensionInv, ClientShape
<1>3. /\ client'[c].pc = "remove" /\ client'[c].target = client[c].target
      /\ client'[c] = [pc |-> client'[c].pc, identifier |-> client'[c].identifier,
                       target |-> client'[c].target, found |-> client'[c].found, seen |-> client'[c].seen]
  BY <1>2 DEF SuspensionInv, ClientShape
<1>4. ClientShape'
  BY <1>1, <1>2, <1>3 DEF SuspensionInv, ClientShape
<1>5. ServedWhileUp' /\ Targeted'
  BY <1>1, <1>2, <1>3 DEF SuspensionInv, ServedWhileUp, Targeted
<1> QED
  BY <1>1, <1>4, <1>5 DEF SuspensionInv, EntityShape, NoRecurfile, SavedOrPending, SuspendedInMemory

\* A registration withdraws every suspension.
LEMMA RegisterKeeps ==
  ASSUME SuspensionInv, NEW c \in Clients, RegisterCommand(c) \/ Register(c)
  PROVE  SuspensionInv'
<1>1. CASE RegisterCommand(c)
  <2>1. client' = [client EXCEPT ![c] = [Idle EXCEPT !.pc = "register", !.seen = loaded]]
    BY <1>1 DEF RegisterCommand
  <2>2. client'[c] = [Idle EXCEPT !.pc = "register", !.seen = loaded]
    BY <2>1 DEF SuspensionInv, ClientShape
  <2>3. /\ client'[c].pc = "register"
        /\ client'[c] = [pc |-> client'[c].pc, identifier |-> client'[c].identifier,
                         target |-> client'[c].target, found |-> client'[c].found, seen |-> client'[c].seen]
    BY <2>2 DEF Idle
  <2>4. client' = [client EXCEPT ![c] = client'[c]]
    BY <2>1, <2>2
  <2>5. UNCHANGED <<daemon, entity, saved>> /\ stopped' \subseteq stopped /\ daemon = "up" /\ client[c].pc # "persist"
    BY <1>1 DEF RegisterCommand, Excuse, At
  <2> QED
    BY <2>3, <2>4, <2>5, HarmlessKeeps DEF Harmless
<1>2. CASE Register(c)
  <2>1. /\ client' = [client EXCEPT ![c] = Idle] /\ stopped' = {} /\ UNCHANGED daemon
    BY <1>2 DEF Register, Ends
  <2>2. /\ DOMAIN client = Clients /\ DOMAIN client' = Clients
        /\ \A d \in Clients \ {c} : client'[d] = client[d]
        /\ client'[c] = Idle
    BY <2>1 DEF SuspensionInv, ClientShape
  <2>3. /\ Idle.pc = "idle"
        /\ Idle = [pc |-> Idle.pc, identifier |-> Idle.identifier, target |-> Idle.target,
                   found |-> Idle.found, seen |-> Idle.seen]
    BY DEF Idle
  <2>4. ClientShape'
    BY <2>1, <2>2, <2>3 DEF SuspensionInv, ClientShape
  <2>5. ServedWhileUp' /\ Targeted'
    BY <2>1, <2>2, <2>3 DEF SuspensionInv, ServedWhileUp, Targeted, InDaemon
  <2>6. EntityShape'
    BY <1>2 DEF Register, EntityShape
  <2> QED
    BY <2>1, <2>4, <2>5, <2>6 DEF SuspensionInv, SavedOrPending, SuspendedInMemory
<1> QED
  BY <1>1, <1>2

\* The daemon reads what was saved, and when it ends nothing that it had not saved counts.
LEMMA DaemonKeeps ==
  ASSUME SuspensionInv, Start \/ LoadState \/ Stop
  PROVE  SuspensionInv'
<1>1. CASE Start
  <2>1. /\ daemon = "down" /\ daemon' = "scanning" /\ stopped' \subseteq stopped
        /\ UNCHANGED <<entity, saved, client>>
    BY <1>1 DEF Start
  <2> QED
    BY <2>1 DEF SuspensionInv, ClientShape, EntityShape, ServedWhileUp, Targeted, SavedOrPending,
                SuspendedInMemory, Unsaved, Namespace, NoRecurfile
<1>2. CASE LoadState
  <2>1. \A ns : ~Unsaved(ns)
    BY <1>2 DEF LoadState, Unsaved, SuspensionInv, ServedWhileUp, InDaemon
  <2>2. \A s \in stopped : saved # NoRecurfile /\ saved[s[1]].status = "suspended"
    BY <2>1 DEF SuspensionInv, SavedOrPending
  <2>3. \A s \in stopped : entity' # NoRecurfile /\ entity'[s[1]].status = "suspended"
    BY <1>2, <2>2, PluginsAssumption DEF LoadState, SuspensionInv, NoRecurfile, PluginsAssumption
  <2>4. daemon' = "up" /\ UNCHANGED <<client, saved, stopped>> /\ EntityShape'
    BY <1>2 DEF LoadState, EntityShape, NoRecurfile
  <2> QED
    BY <2>3, <2>4 DEF SuspensionInv, ClientShape, ServedWhileUp, Targeted, SavedOrPending,
                      SuspendedInMemory, Unsaved, Namespace
<1>3. CASE Stop
  <2>1. /\ daemon' = "down" /\ UNCHANGED saved
        /\ client' = [c \in Clients |-> IF client[c].pc \in InDaemon THEN Idle ELSE client[c]]
    BY <1>3 DEF Stop
  <2>2. /\ Idle.pc = "idle"
        /\ Idle = [pc |-> Idle.pc, identifier |-> Idle.identifier, target |-> Idle.target,
                   found |-> Idle.found, seen |-> Idle.seen]
    BY DEF Idle
  <2>3. ClientShape'
    BY <2>1, <2>2 DEF SuspensionInv, ClientShape
  <2>4. ServedWhileUp' /\ Targeted'
    BY <2>1, <2>2 DEF SuspensionInv, ServedWhileUp, Targeted, InDaemon
  <2>5. stopped' \subseteq stopped /\ \A s \in stopped' : ~Unsaved(s[2])
    BY <1>3 DEF Stop, Excuse, Unsaved, Busy, InDaemon
  <2>6. SavedOrPending' /\ SuspendedInMemory' /\ EntityShape'
    BY <1>3, <2>1, <2>5 DEF Stop, SuspensionInv, EntityShape, NoRecurfile, SavedOrPending, SuspendedInMemory
  <2> QED
    BY <2>3, <2>4, <2>5, <2>6 DEF SuspensionInv
<1> QED
  BY <1>1, <1>2, <1>3

LEMMA SuspensionInit == Init => SuspensionInv
<1> SUFFICES ASSUME Init PROVE SuspensionInv
  OBVIOUS
<1>1. \A c \in Clients : client[c] = Idle /\ client[c].pc = "idle"
  BY DEF Init, Idle
<1>2. Idle = [pc |-> Idle.pc, identifier |-> Idle.identifier, target |-> Idle.target,
              found |-> Idle.found, seen |-> Idle.seen]
  BY DEF Idle
<1> QED
  BY <1>1, <1>2 DEF Init, SuspensionInv, ClientShape, EntityShape, ServedWhileUp, Targeted,
                    SavedOrPending, SuspendedInMemory, InDaemon

LEMMA SuspensionStep == SuspensionInv /\ [Next]_vars => SuspensionInv'
<1> SUFFICES ASSUME SuspensionInv, [Next]_vars PROVE SuspensionInv'
  OBVIOUS
<1>1. CASE UNCHANGED vars
  BY <1>1 DEF vars, SuspensionInv, ClientShape, EntityShape, ServedWhileUp, Targeted, SavedOrPending,
              SuspendedInMemory, Unsaved, Namespace, NoRecurfile
<1> QED
  BY <1>1, InstallKeeps, UninstallKeeps, SuspendKeeps, PersistKeeps, RegisterKeeps, StatusKeeps,
     DaemonKeeps, PluginsAssumption DEF Next

\* api.go:795: what UninstallPlugin has suspended is suspended in every daemon that is up, over
\* crashes between any two steps, restarts and other commands, until the recurfile is
\* registered again, the user resumes it, or a command for the same plugin is excused.
THEOREM SuspensionOutlives == Spec => []SuspendedUntilResumed
<1>1. SuspensionInv => SuspendedUntilResumed
  BY DEF SuspensionInv, SuspendedInMemory, SuspendedUntilResumed
<1> QED
  BY <1>1, SuspensionInit, SuspensionStep, PTL DEF Spec

-----------------------------------------------------------------------------
(* What the daemon and the commands read from lists of plugins. *)

\* A non-empty set of natural numbers has a least one.
LEMMA LeastNatural ==
  ASSUME NEW T \in SUBSET Nat, T # {}
  PROVE  \E n \in T : \A m \in T : n <= m
<1> DEFINE R == {ss \in Nat \X Nat : ss[1] < ss[2]}
<1>1. IsWellFoundedOn(R, Nat)
  BY NatLessThanWellFounded DEF OpToRel
<1>2. PICK n \in T : \A m \in T : <<m, n>> \notin R
  BY <1>1, WFMin
<1>3. ASSUME NEW m \in T PROVE n <= m
  <2>1. ~(m < n)
    BY <1>2
  <2> QED
    BY <2>1
<1> QED
  BY <1>3

\* The recursive function of Keep, for the first n elements.
KeptUpTo(f, s, S, n) ==
  f = [i \in 0..n |->
         IF i = 0 THEN <<>> ELSE IF s[i] \in S THEN Append(f[i-1], s[i]) ELSE f[i-1]]

\* It exists for every n: a least n for which it does not has a predecessor.
LEMMA KeptExists ==
  ASSUME NEW s, NEW S, NEW n \in Nat
  PROVE  \E f : KeptUpTo(f, s, S, n)
<1> DEFINE T == {m \in Nat : ~\E f : KeptUpTo(f, s, S, m)}
<1> SUFFICES ASSUME T # {} PROVE FALSE
  OBVIOUS
<1>1. PICK m \in T : \A k \in T : m <= k
  BY LeastNatural
<1>2. KeptUpTo([i \in 0..0 |-> <<>>], s, S, 0)
  BY DEF KeptUpTo
<1>3. m # 0
  BY <1>2
<1>4. m - 1 \in Nat /\ m - 1 \notin T
  BY <1>1, <1>3
<1>5. PICK f : KeptUpTo(f, s, S, m - 1)
  BY <1>4
<1> DEFINE g == [i \in 0..m |->
                   IF i = m THEN IF s[m] \in S THEN Append(f[m-1], s[m]) ELSE f[m-1] ELSE f[i]]
<1>6. ASSUME NEW i \in 0..m
      PROVE  g[i] = IF i = 0 THEN <<>> ELSE IF s[i] \in S THEN Append(g[i-1], s[i]) ELSE g[i-1]
  <2>1. CASE i = m
    BY <1>3, <1>4, <2>1
  <2>2. CASE i # m
    <3>1. i \in 0..(m-1) /\ g[i] = f[i] /\ (i # 0 => i-1 \in 0..(m-1) /\ g[i-1] = f[i-1])
      BY <2>2
    <3>2. f[i] = IF i = 0 THEN <<>> ELSE IF s[i] \in S THEN Append(f[i-1], s[i]) ELSE f[i-1]
      BY <1>5, <3>1 DEF KeptUpTo
    <3> QED
      BY <3>1, <3>2
  <2> QED
    BY <2>1, <2>2
<1>7. KeptUpTo(g, s, S, m)
  <2>1. g = [i \in 0..m |-> g[i]]
    OBVIOUS
  <2> HIDE DEF g
  <2> QED
    BY <1>6, <2>1 DEF KeptUpTo
<1> QED
  BY <1>1, <1>7

LEMMA AppendElements ==
  ASSUME NEW D, NEW s \in Seq(D), NEW x \in D
  PROVE  Append(s, x) \in Seq(D) /\ ToSet(Append(s, x)) = ToSet(s) \union {x}
<1>1. DOMAIN s = 1..Len(s) /\ DOMAIN Append(s, x) = 1..(Len(s)+1) /\ Len(s) \in Nat
  OBVIOUS
<1>2. \A i \in 1..Len(s) : Append(s, x)[i] = s[i]
  OBVIOUS
<1>3. Append(s, x)[Len(s)+1] = x
  OBVIOUS
<1>4. \A i : i \in 1..(Len(s)+1) <=> i \in 1..Len(s) \/ i = Len(s)+1
  OBVIOUS
<1>5. ToSet(s) = {s[i] : i \in 1..Len(s)}
  BY <1>1 DEF ToSet
<1>6. ToSet(Append(s, x)) = {Append(s, x)[i] : i \in 1..(Len(s)+1)}
  BY <1>1 DEF ToSet
<1> DEFINE t == Append(s, x)  n == Len(s)
<1> HIDE DEF t, n
<1>7. {t[i] : i \in 1..(n+1)} = {s[i] : i \in 1..n} \union {x}
  BY <1>2, <1>3, <1>4, Zenon DEF t, n
<1> QED
  BY <1>5, <1>6, <1>7 DEF t, n

\* Keep keeps the elements that are in S, and no others.
LEMMA KeepElements ==
  ASSUME NEW D, NEW s \in Seq(D), NEW S
  PROVE  Keep(s, S) \in Seq(D) /\ ToSet(Keep(s, S)) = ToSet(s) \intersect S
<1> DEFINE f == CHOOSE f : KeptUpTo(f, s, S, Len(s))
           T == {n \in 0..Len(s) : ~ /\ f[n] \in Seq(D)
                                     /\ ToSet(f[n]) = {s[i] : i \in 1..n} \intersect S}
<1>1. KeptUpTo(f, s, S, Len(s))
  BY KeptExists
<1>2. Keep(s, S) = f[Len(s)]
  BY DEF Keep, KeptUpTo
<1> HIDE DEF f
<1>0. f[0] = <<>> /\ \A i \in 1..Len(s) : f[i] = IF s[i] \in S THEN Append(f[i-1], s[i]) ELSE f[i-1]
  <2>1. ASSUME NEW i \in 0..Len(s)
        PROVE  f[i] = IF i = 0 THEN <<>> ELSE IF s[i] \in S THEN Append(f[i-1], s[i]) ELSE f[i-1]
    BY <1>1 DEF KeptUpTo
  <2>2. Len(s) \in Nat
    OBVIOUS
  <2> QED
    BY <2>1, <2>2
<1>3. T = {}
  <2> SUFFICES ASSUME T # {} PROVE FALSE
    OBVIOUS
  <2>0. T \in SUBSET Nat
    OBVIOUS
  <2>1. PICK n \in T : \A k \in T : n <= k
    BY <2>0, LeastNatural
  <2>2. n # 0
    <3>1. <<>> \in Seq(D) /\ ToSet(<<>>) = {s[i] : i \in 1..0} \intersect S
      BY DEF ToSet
    <3> QED
      BY <1>0, <3>1
  <2>3. n - 1 \in 0..Len(s) /\ n - 1 \notin T
    <3>1. n \in 0..Len(s) /\ Len(s) \in Nat
      OBVIOUS
    <3>2. n - 1 \in 0..Len(s) /\ ~(n <= n - 1)
      BY <2>2, <3>1
    <3> HIDE DEF T
    <3> QED
      BY <2>1, <3>2
  <2>4. f[n-1] \in Seq(D) /\ ToSet(f[n-1]) = {s[i] : i \in 1..(n-1)} \intersect S
    BY <2>3
  <2>5. s[n] \in D /\ n \in 1..Len(s)
    BY <2>2
  <2>6. {s[i] : i \in 1..n} = {s[i] : i \in 1..(n-1)} \union {s[n]}
    BY <2>5
  <2>7. CASE s[n] \in S
    <3>1. f[n] = Append(f[n-1], s[n])
      BY <1>0, <2>5, <2>7
    <3>2. f[n] \in Seq(D) /\ ToSet(f[n]) = ToSet(f[n-1]) \union {s[n]}
      BY <2>4, <2>5, <3>1, AppendElements
    <3> QED
      BY <2>4, <2>6, <2>7, <3>2
  <2>8. CASE s[n] \notin S
    <3>1. f[n] = f[n-1]
      BY <1>0, <2>5, <2>8
    <3> QED
      BY <2>4, <2>6, <2>8, <3>1
  <2> QED
    BY <2>7, <2>8
<1> QED
  BY <1>2, <1>3 DEF ToSet
-----------------------------------------------------------------------------
(* What every step does to its client. *)

\* The other clients are where they were.
Only(c) == \A d \in Clients \ {c} : client'[d] = client[d]

\* The client goes on with the same command.
Becomes(c, pc) ==
  /\ client'[c].pc = pc /\ client'[c].identifier = client[c].identifier
  /\ client'[c].target = client[c].target
  /\ client'[c].found = client[c].found /\ client'[c].seen = client[c].seen

LEMMA GotoFacts ==
  ASSUME ClientShape, NEW c \in Clients, NEW pc, Goto(c, pc)
  PROVE  Only(c) /\ Becomes(c, pc)
<1>1. client'[c] = [client[c] EXCEPT !.pc = pc] /\ Only(c)
  BY DEF ClientShape, Goto, Only
<1> QED
  BY <1>1 DEF ClientShape, Becomes

LEMMA EndsFacts ==
  ASSUME ClientShape, NEW c \in Clients, Ends(c)
  PROVE  Only(c) /\ client'[c] = Idle /\ client'[c].pc = "idle" /\ client'[c].target = NoPlugin
<1>1. client'[c] = Idle /\ Only(c)
  BY DEF ClientShape, Ends, Only
<1>2. Idle.pc = "idle" /\ Idle.target = NoPlugin
  BY DEF Idle
<1> QED
  BY <1>1, <1>2

LEMMA BeginFacts ==
  ASSUME ClientShape, NEW c \in Clients, NEW pc, NEW p, NEW identifier, Begin(c, pc, p, identifier)
  PROVE  /\ Only(c) /\ client[c].pc = "idle"
         /\ client'[c].pc = pc /\ client'[c].identifier = identifier /\ client'[c].target = p
         /\ client'[c].found = {} /\ client'[c].seen = <<>>
         /\ UNCHANGED <<dir, daemon, loaded, entity, saved>>
<1>1. client'[c] = [Idle EXCEPT !.pc = pc, !.identifier = identifier, !.target = p] /\ Only(c)
  BY DEF ClientShape, Begin, Only
<1>2. client[c].pc = "idle" /\ UNCHANGED <<dir, daemon, loaded, entity, saved>>
  BY DEF Begin, At
<1>3. /\ client'[c].pc = pc /\ client'[c].identifier = identifier /\ client'[c].target = p
      /\ client'[c].found = {} /\ client'[c].seen = <<>>
  BY <1>1 DEF Idle
<1> QED
  BY <1>1, <1>2, <1>3

LEMMA FindFacts ==
  ASSUME ClientShape, NEW c \in Clients, UninstallFind(c)
  PROVE  /\ Only(c) /\ client'[c].pc = (IF daemon = "up" THEN "filter" ELSE "remove")
         /\ client'[c].identifier = client[c].identifier /\ client'[c].target = client[c].target
         /\ client'[c].found = FindByIdentifier(Discover, client[c].identifier)
         /\ client'[c].seen = client[c].seen
<1>1. /\ client'[c] = [client[c] EXCEPT !.found = FindByIdentifier(Discover, client[c].identifier),
                                        !.pc = IF daemon = "up" THEN "filter" ELSE "remove"]
      /\ Only(c)
  BY DEF ClientShape, UninstallFind, Only
<1> QED
  BY <1>1 DEF ClientShape

LEMMA FilterFacts ==
  ASSUME ClientShape, NEW c \in Clients, NEW p,
         client' = [client EXCEPT ![c].pc = "replace", ![c].seen = loaded, ![c].target = p]
  PROVE  /\ Only(c) /\ client'[c].pc = "replace"
         /\ client'[c].identifier = client[c].identifier /\ client'[c].target = p
         /\ client'[c].found = client[c].found /\ client'[c].seen = loaded
<1>1. client'[c] = [client[c] EXCEPT !.pc = "replace", !.seen = loaded, !.target = p] /\ Only(c)
  BY DEF ClientShape, Only
<1> QED
  BY <1>1 DEF ClientShape

LEMMA RegisterFacts ==
  ASSUME ClientShape, NEW c \in Clients, RegisterCommand(c)
  PROVE  /\ Only(c) /\ client[c].pc = "idle" /\ client'[c].pc = "register"
         /\ client'[c].target = NoPlugin /\ client'[c].seen = loaded /\ client'[c].found = {}
         /\ UNCHANGED <<dir, daemon, loaded, entity, saved>>
<1>1. client'[c] = [Idle EXCEPT !.pc = "register", !.seen = loaded] /\ Only(c)
  BY DEF ClientShape, RegisterCommand, Only
<1> QED
  BY <1>1 DEF Idle, RegisterCommand, At

LEMMA StatusFacts ==
  ASSUME ClientShape, NEW c \in Clients, StatusCommand(c)
  PROVE  /\ Only(c) /\ client[c].pc = "idle" /\ client'[c].pc = "save"
         /\ client'[c].target = NoPlugin /\ client'[c].seen = <<>> /\ client'[c].found = {}
         /\ UNCHANGED <<dir, daemon, loaded, excused>>
<1>1. client'[c] = [Idle EXCEPT !.pc = "save"] /\ Only(c)
  BY DEF ClientShape, StatusCommand, Only
<1> QED
  BY <1>1 DEF Idle, StatusCommand, At

\* When the daemon goes away its clients do, and the others stay.
LEMMA StopFacts ==
  ASSUME ClientShape, NEW c \in Clients, Stop
  PROVE  IF client[c].pc \in InDaemon THEN client'[c] = Idle /\ client'[c].pc = "idle"
                                      ELSE client'[c] = client[c]
<1>1. client'[c] = IF client[c].pc \in InDaemon THEN Idle ELSE client[c]
  BY DEF Stop
<1>2. Idle.pc = "idle"
  BY DEF Idle
<1> QED
  BY <1>1, <1>2

-----------------------------------------------------------------------------
(* Directories and lists hold packages. *)

\* A package that LoadPlugin accepts once it is copied.
Loadable(p) == "manifest" \in ToSet(Content[p]) /\ Valid(Manifest[p])

\* A directory has parts of the one package of its name, which can be loaded.
HoldsPart(d, p) ==
  d = NoDir \/ /\ d = [pkg |-> p, parts |-> d.parts]
               /\ d.parts \subseteq ToSet(Content[p]) /\ Loadable(p)

DirsKnown ==
  /\ dir = [n \in Names |-> dir[n]]
  /\ \A p \in Packages : HoldsPart(dir[Name(p)], p)

ListsKnown ==
  /\ loaded \in Seq(Packages)
  /\ \A c \in Clients : client[c].seen \in Seq(Packages) /\ client[c].found \subseteq Packages

\* Install copies only what LoadPlugin accepts.
CopiesLoadable == \A c \in Clients : client[c].pc \in {"copy", "load", "handle"} => Loadable(client[c].target)

KnownInv == SuspensionInv /\ DirsKnown /\ ListsKnown /\ CopiesLoadable

LEMMA DirType ==
  ASSUME PluginsAssumption, NEW p \in Packages, NEW parts \in SUBSET Parts
  PROVE  [pkg |-> p, parts |-> parts] # NoDir
  BY DEF PluginsAssumption

\* Whether a directory can be loaded.
LEMMA LoadPluginFacts ==
  ASSUME NEW p \in Packages, NEW d, d = [pkg |-> p, parts |-> d.parts], d # NoDir
  PROVE  LoadPlugin(d) = IF "manifest" \in d.parts /\ Valid(Manifest[p]) THEN {p} ELSE {}
<1>1. d.pkg = p
  OBVIOUS
<1> QED
  BY <1>1 DEF LoadPlugin

LEMMA ContentParts ==
  ASSUME PluginsAssumption, NEW p \in Packages
  PROVE  Content[p] \in Seq(Parts) /\ ToSet(Content[p]) \subseteq Parts
  BY DEF PluginsAssumption, ToSet

\* What Discover finds: the packages that can be loaded from the directory of their name.
LEMMA DiscoverFacts ==
  ASSUME PluginsAssumption, DirsKnown
  PROVE  /\ Discover \in Seq(Packages)
         /\ \A p \in Packages : p \in ToSet(Discover) <=>
              dir[Name(p)] # NoDir /\ "manifest" \in dir[Name(p)].parts /\ Valid(Manifest[p])
<1> DEFINE ok == {n \in Names : LoadPlugin(dir[n]) # {}}
           found == Keep(NameOrder, ok)
<1>1. found \in Seq(Names) /\ ToSet(found) = ok
  <2>1. NameOrder \in Seq(Names) /\ ToSet(NameOrder) = Names
    BY DEF PluginsAssumption
  <2>2. ok \subseteq Names
    OBVIOUS
  <2> HIDE DEF ok
  <2>3. Keep(NameOrder, ok) \in Seq(Names) /\ ToSet(Keep(NameOrder, ok)) = ToSet(NameOrder) \intersect ok
    BY <2>1, KeepElements
  <2> QED
    BY <2>1, <2>2, <2>3
<1>2. Discover = [i \in DOMAIN found |-> dir[found[i]].pkg]
  BY DEF Discover
<1>3. \A p \in Packages : dir[Name(p)] # NoDir => dir[Name(p)].pkg = p
  <2> SUFFICES ASSUME NEW p \in Packages, dir[Name(p)] # NoDir PROVE dir[Name(p)].pkg = p
    OBVIOUS
  <2> DEFINE d == dir[Name(p)]
  <2>1. d = [pkg |-> p, parts |-> d.parts]
    BY DEF DirsKnown, HoldsPart
  <2> HIDE DEF d
  <2>2. d.pkg = p
    BY <2>1
  <2> QED
    BY <2>2 DEF d
<1>4. \A n \in ok : \E p \in Packages : n = Name(p) /\ dir[n].pkg = p
  BY <1>3 DEF Names, LoadPlugin
<1> HIDE DEF ok
<1>5. \A i \in DOMAIN found : found[i] \in ok
  BY <1>1 DEF ToSet
<1>6. DOMAIN found = 1..Len(found) /\ Len(found) \in Nat
  BY <1>1
<1> HIDE DEF found
<1>7. Discover \in [1..Len(found) -> Packages]
  BY <1>2, <1>4, <1>5, <1>6
<1>8. Discover \in Seq(Packages)
  BY <1>6, <1>7
<1>9. ToSet(Discover) = {dir[n].pkg : n \in ok}
  <2>1. ok = {found[i] : i \in DOMAIN found}
    BY <1>1 DEF ToSet
  <2>2. ToSet(Discover) = {Discover[i] : i \in DOMAIN found}
    BY <1>2 DEF ToSet
  <2>3. \A i \in DOMAIN found : Discover[i] = dir[found[i]].pkg
    BY <1>2
  <2> QED
    BY <2>1, <2>2, <2>3
<1>10. \A p \in Packages : p \in {dir[n].pkg : n \in ok} <=> Name(p) \in ok
  <2>1. ASSUME NEW p \in Packages, Name(p) \in ok PROVE dir[Name(p)].pkg = p
    <3>1. dir[Name(p)] # NoDir
      BY <2>1 DEF ok, LoadPlugin
    <3> QED
      BY <1>3, <3>1
  <2> QED
    BY <1>4, <2>1
<1>11. \A p \in Packages : Name(p) \in ok <=>
          dir[Name(p)] # NoDir /\ "manifest" \in dir[Name(p)].parts /\ Valid(Manifest[p])
  BY <1>3 DEF ok, LoadPlugin, Names
<1> QED
  BY <1>8, <1>9, <1>10, <1>11

\* FindByIdentifier finds a plugin of the list that has the identifier, if there is one.
LEMMA FindFirst ==
  ASSUME NEW plugins \in Seq(Packages), NEW identifier
  PROVE  LET has == {p \in ToSet(plugins) : identifier \in {Name(p), Namespace(p)}}
         IN /\ FindByIdentifier(plugins, identifier) \subseteq has
            /\ FindByIdentifier(plugins, identifier) = {} => has = {}
<1> DEFINE found == Keep(plugins, {p \in Packages : identifier \in {Name(p), Namespace(p)}})
<1>1. /\ found \in Seq(Packages)
      /\ ToSet(found) = {p \in ToSet(plugins) : p \in Packages /\ identifier \in {Name(p), Namespace(p)}}
  BY KeepElements
<1>2. ToSet(plugins) \subseteq Packages
  BY DEF ToSet
<1>3. FindByIdentifier(plugins, identifier) = IF found = <<>> THEN {} ELSE {found[1]}
  BY DEF FindByIdentifier
<1> HIDE DEF found
<1>4. found # <<>> => found[1] \in ToSet(found)
  BY <1>1 DEF ToSet
<1>5. found = <<>> => ToSet(found) = {}
  BY DEF ToSet
<1> QED
  BY <1>1, <1>2, <1>3, <1>4, <1>5

\* A type belongs to a plugin of the list, or to none.
LEMMA ResolveIn ==
  ASSUME NEW plugins \in Seq(Packages), NEW type
  PROVE  ResolvePlugin(plugins, type) \in NamespacesOf(plugins) \union {NoPlugin}
<1> DEFINE found == Keep(plugins, {p \in Packages : Declares(p, type)})
<1>1. found \in Seq(Packages) /\ ToSet(found) \subseteq ToSet(plugins)
  BY KeepElements
<1>2. ResolvePlugin(plugins, type) = IF found = <<>> THEN NoPlugin ELSE Namespace(found[1])
  BY DEF ResolvePlugin
<1> HIDE DEF found
<1>3. found # <<>> => found[1] \in ToSet(found)
  BY <1>1 DEF ToSet
<1> QED
  BY <1>1, <1>2, <1>3 DEF NamespacesOf

\* The actions of clients that change no directory.
LEMMA DirsSame ==
  ASSUME DirsKnown, UNCHANGED dir
  PROVE  DirsKnown'
  BY DEF DirsKnown, HoldsPart

\* The others change one, and to parts of its package or to nothing.
LEMMA DirsPut ==
  ASSUME PluginsAssumption, DirsKnown, NEW p \in Packages, NEW d, HoldsPart(d, p),
         dir' = [dir EXCEPT ![Name(p)] = d]
  PROVE  /\ DirsKnown' /\ dir'[Name(p)] = d
         /\ \A q \in Packages \ {p} : dir'[Name(q)] = dir[Name(q)]
<1>1. Name(p) \in Names /\ dir'[Name(p)] = d
  BY DEF DirsKnown, Names
<1>2. \A q \in Packages \ {p} : dir'[Name(q)] = dir[Name(q)]
  BY <1>1 DEF DirsKnown, PluginsAssumption
<1>3. dir' = [n \in Names |-> dir'[n]]
  BY DEF DirsKnown
<1>4. \A q \in Packages : HoldsPart(dir'[Name(q)], q)
  BY <1>1, <1>2 DEF DirsKnown
<1> QED
  BY <1>1, <1>2, <1>3, <1>4 DEF DirsKnown

\* InstallCopy adds parts of the package that is copied, in the end all of them.
LEMMA CopyFacts ==
  ASSUME PluginsAssumption, KnownInv, NEW c \in Clients, InstallCopy(c)
  PROVE  LET p == client[c].target IN
         /\ p \in Packages /\ DirsKnown'
         /\ \A q \in Packages \ {p} : dir'[Name(q)] = dir[Name(q)]
         /\ \/ Goto(c, "load") /\ dir'[Name(p)] # NoDir /\ dir'[Name(p)].parts = ToSet(Content[p])
            \/ UNCHANGED client
<1> DEFINE p == client[c].target
           n == Name(p)
           parts == IF dir[n] = NoDir THEN {} ELSE dir[n].parts
           rest == Keep(Content[p], Parts \ parts)
<1>1. p \in Packages /\ client[c].pc = "copy" /\ Loadable(p)
  BY DEF InstallCopy, At, KnownInv, SuspensionInv, Targeted, CopiesLoadable
<1>2. parts \subseteq ToSet(Content[p]) /\ ToSet(Content[p]) \subseteq Parts /\ Content[p] \in Seq(Parts)
  BY <1>1, ContentParts DEF KnownInv, DirsKnown, HoldsPart
<1>3. rest \in Seq(Parts) /\ ToSet(rest) = ToSet(Content[p]) \ parts
  <2>1. rest \in Seq(Parts) /\ ToSet(rest) = ToSet(Content[p]) \intersect (Parts \ parts)
    BY <1>2, KeepElements
  <2> QED
    BY <1>2, <2>1
<1>4. InstallCopy(c) =>
        \/ dir' = [dir EXCEPT ![n] = [pkg |-> p, parts |-> ToSet(Content[p])]] /\ Goto(c, "load")
        \/ /\ dir' = [dir EXCEPT ![n] = [pkg |-> p, parts |->
                IF dir[n] = NoDir \/ rest = <<>> THEN parts ELSE parts \union {rest[1]}]]
           /\ IF rest = <<>> THEN Goto(c, "load") ELSE UNCHANGED client
  BY DEF InstallCopy
<1> HIDE DEF p, n, parts, rest
<1>5. ASSUME NEW ps, ps \subseteq ToSet(Content[p]), dir' = [dir EXCEPT ![n] = [pkg |-> p, parts |-> ps]]
      PROVE  /\ DirsKnown' /\ \A q \in Packages \ {p} : dir'[Name(q)] = dir[Name(q)]
             /\ dir'[n] # NoDir /\ dir'[n].parts = ps
  <2> DEFINE d == [pkg |-> p, parts |-> ps]
  <2>1. d = [pkg |-> p, parts |-> d.parts] /\ d.parts = ps
    OBVIOUS
  <2>2. d # NoDir
    BY <1>1, <1>2, <1>5, DirType
  <2> HIDE DEF d
  <2>3. HoldsPart(d, p)
    BY <1>1, <1>5, <2>1 DEF HoldsPart
  <2>4. dir' = [dir EXCEPT ![Name(p)] = d]
    BY <1>5 DEF d, n
  <2> QED
    BY <1>1, <2>1, <2>2, <2>3, <2>4, DirsPut DEF KnownInv, n
<1>6. rest # <<>> => rest[1] \in ToSet(Content[p])
  <2>1. rest # <<>> => rest[1] \in ToSet(rest)
    BY <1>3 DEF ToSet
  <2> QED
    BY <1>3, <2>1
<1>7. rest = <<>> => parts = ToSet(Content[p])
  <2>1. rest = <<>> => ToSet(rest) = {}
    BY DEF ToSet
  <2> QED
    BY <1>2, <1>3, <2>1
<1>8. CASE dir' = [dir EXCEPT ![n] = [pkg |-> p, parts |-> ToSet(Content[p])]] /\ Goto(c, "load")
  BY <1>1, <1>5, <1>8 DEF p, n
<1>9. CASE /\ dir' = [dir EXCEPT ![n] = [pkg |-> p, parts |->
                IF dir[n] = NoDir \/ rest = <<>> THEN parts ELSE parts \union {rest[1]}]]
           /\ IF rest = <<>> THEN Goto(c, "load") ELSE UNCHANGED client
  <2> DEFINE ps == IF dir[n] = NoDir \/ rest = <<>> THEN parts ELSE parts \union {rest[1]}
  <2>1. ps \subseteq ToSet(Content[p])
    BY <1>2, <1>6
  <2> HIDE DEF ps
  <2>2. dir' = [dir EXCEPT ![n] = [pkg |-> p, parts |-> ps]]
    BY <1>9 DEF ps
  <2>3. rest = <<>> => ps = ToSet(Content[p])
    BY <1>7 DEF ps
  <2>4. /\ DirsKnown' /\ \A q \in Packages \ {p} : dir'[Name(q)] = dir[Name(q)]
        /\ dir'[n] # NoDir /\ dir'[n].parts = ps
    BY <1>5, <2>1, <2>2
  <2> QED
    BY <1>1, <1>9, <2>3, <2>4 DEF p, n
<1> QED
  BY <1>4, <1>8, <1>9 DEF p

\* A directory that goes, or loses a part.
LEMMA GoneFacts ==
  ASSUME PluginsAssumption, KnownInv, NEW p \in Packages, dir' = [dir EXCEPT ![Name(p)] = NoDir]
  PROVE  /\ DirsKnown' /\ dir'[Name(p)] = NoDir
         /\ \A q \in Packages \ {p} : dir'[Name(q)] = dir[Name(q)]
  BY DirsPut DEF KnownInv, HoldsPart

LEMMA LessFacts ==
  ASSUME PluginsAssumption, KnownInv, NEW p \in Packages, dir[Name(p)] # NoDir, NEW x,
         dir' = [dir EXCEPT ![Name(p)].parts = @ \ {x}]
  PROVE  DirsKnown' /\ \A q \in Packages \ {p} : dir'[Name(q)] = dir[Name(q)]
<1> DEFINE r == dir[Name(p)]
           d == [r EXCEPT !.parts = r.parts \ {x}]
<1>1. /\ dir[Name(p)] = [pkg |-> p, parts |-> dir[Name(p)].parts]
      /\ dir[Name(p)].parts \subseteq ToSet(Content[p]) /\ Loadable(p)
  BY DEF KnownInv, DirsKnown, HoldsPart
<1>2. d = [pkg |-> p, parts |-> r.parts \ {x}]
  <2> DEFINE ps == r.parts
  <2>1. r = [pkg |-> p, parts |-> ps]
    BY <1>1
  <2> HIDE DEF ps
  <2>2. d = [[pkg |-> p, parts |-> ps] EXCEPT !.parts = ps \ {x}]
    BY <2>1 DEF ps
  <2> HIDE DEF d
  <2> QED
    BY <2>2 DEF ps
<1>3. dir' = [dir EXCEPT ![Name(p)] = d]
  OBVIOUS
<1> HIDE DEF d
<1>4. HoldsPart(d, p)
  <2>1. d.parts = r.parts \ {x}
    BY <1>2
  <2> QED
    BY <1>1, <1>2, <2>1 DEF HoldsPart
<1> QED
  BY <1>3, <1>4, DirsPut DEF KnownInv

LEMMA RemoveFacts ==
  ASSUME PluginsAssumption, KnownInv, NEW c \in Clients, UninstallRemove(c)
  PROVE  \/ Ends(c) /\ UNCHANGED dir
         \/ \E p \in client[c].found : /\ Ends(c) /\ dir' = [dir EXCEPT ![Name(p)] = NoDir]
         \/ /\ UNCHANGED client
            /\ \E p \in client[c].found : /\ dir[Name(p)] # NoDir
                                          /\ \E x \in dir[Name(p)].parts :
                                               dir' = [dir EXCEPT ![Name(p)].parts = @ \ {x}]
  BY DEF UninstallRemove

LEMMA EmptyList == <<>> \in Seq(Packages) /\ {} \subseteq Packages
  OBVIOUS

LEMMA IdleLists == Idle.pc = "idle" /\ Idle.seen \in Seq(Packages) /\ Idle.found \subseteq Packages
  BY DEF Idle

\* A client that goes on or has finished, while the daemon's list stays.
LEMMA ListsSame ==
  ASSUME ListsKnown, CopiesLoadable, NEW c \in Clients, Only(c), loaded' \in Seq(Packages),
         client'[c].seen \in Seq(Packages), client'[c].found \subseteq Packages,
         client'[c].pc \in {"copy", "load", "handle"} => Loadable(client'[c].target)
  PROVE  ListsKnown' /\ CopiesLoadable'
  BY DEF ListsKnown, CopiesLoadable, Only, Loadable

LEMMA GoesOnKnown ==
  ASSUME KnownInv, NEW c \in Clients, NEW pc, Goto(c, pc), loaded' \in Seq(Packages),
         pc \in {"copy", "load", "handle"} => Loadable(client[c].target)
  PROVE  ListsKnown' /\ CopiesLoadable'
<1>1. Only(c) /\ Becomes(c, pc)
  BY GotoFacts DEF KnownInv, SuspensionInv
<1> QED
  BY <1>1, ListsSame DEF KnownInv, ListsKnown, Becomes

LEMMA EndsKnown ==
  ASSUME KnownInv, NEW c \in Clients, Ends(c), loaded' \in Seq(Packages)
  PROVE  ListsKnown' /\ CopiesLoadable'
<1>1. Only(c) /\ client'[c] = Idle
  BY EndsFacts DEF KnownInv, SuspensionInv
<1> QED
  BY <1>1, ListsSame, IdleLists DEF KnownInv

LEMMA SameKnown ==
  ASSUME KnownInv, UNCHANGED client, loaded' \in Seq(Packages)
  PROVE  ListsKnown' /\ CopiesLoadable'
  BY DEF KnownInv, ListsKnown, CopiesLoadable, Loadable

LEMMA InstallKnown ==
  ASSUME PluginsAssumption, KnownInv, NEW c \in Clients,
         \/ InstallCommand(c) \/ InstallCheck(c) \/ InstallCopy(c) \/ InstallCopyFails(c)
         \/ InstallLoad(c) \/ InstallPlugin(c)
  PROVE  DirsKnown' /\ ListsKnown' /\ CopiesLoadable'
<1> USE DEF KnownInv
<1>0. loaded \in Seq(Packages) /\ ClientShape /\ Targeted
  BY DEF ListsKnown, SuspensionInv
<1>1. CASE InstallCommand(c)
  <2>1. PICK p \in Packages : Begin(c, "check", p, Name(p))
    BY <1>1 DEF InstallCommand
  <2>2. /\ Only(c) /\ client'[c].pc = "check" /\ client'[c].found = {} /\ client'[c].seen = <<>>
        /\ UNCHANGED <<dir, loaded>>
    BY <1>0, <2>1, BeginFacts
  <2> QED
    BY <1>0, <2>2, DirsSame, ListsSame, EmptyList
<1>2. CASE InstallCheck(c)
  <2>1. UNCHANGED <<dir, loaded>> /\ client[c].target \in Packages
    BY <1>0, <1>2 DEF InstallCheck, At, Targeted
  <2>2. DirsKnown'
    BY <2>1, DirsSame
  <2>3. CASE Ends(c)
    BY <1>0, <2>1, <2>2, <2>3, EndsKnown
  <2>4. CASE /\ Goto(c, "copy")
             /\ LoadPlugin([pkg |-> client[c].target, parts |-> ToSet(Content[client[c].target])]) # {}
    <3> DEFINE p == client[c].target
               d == [pkg |-> p, parts |-> ToSet(Content[p])]
    <3>1. d.pkg = p /\ d.parts = ToSet(Content[p])
      OBVIOUS
    <3>2. Loadable(p)
      BY <2>4, <3>1, Zenon DEF LoadPlugin, Loadable
    <3> QED
      BY <1>0, <2>1, <2>2, <2>4, <3>2, GoesOnKnown
  <2> QED
    BY <1>2, <2>2, <2>3, <2>4 DEF InstallCheck
<1>3. CASE InstallCopy(c)
  <2>1. UNCHANGED loaded /\ client[c].pc = "copy"
    BY <1>3 DEF InstallCopy, At
  <2>2. Loadable(client[c].target)
    BY <2>1 DEF CopiesLoadable
  <2>3. DirsKnown' /\ (Goto(c, "load") \/ UNCHANGED client)
    BY <1>3, CopyFacts
  <2> QED
    BY <1>0, <2>1, <2>2, <2>3, GoesOnKnown, SameKnown
<1>4. CASE InstallCopyFails(c)
  <2>1. /\ UNCHANGED loaded /\ client[c].target \in Packages /\ Ends(c)
        /\ dir' = [dir EXCEPT ![Name(client[c].target)] = NoDir]
    BY <1>0, <1>4 DEF InstallCopyFails, At, Targeted
  <2> QED
    BY <1>0, <2>1, GoneFacts, EndsKnown
<1>5. CASE InstallLoad(c)
  <2>1. UNCHANGED loaded /\ client[c].target \in Packages /\ Loadable(client[c].target)
    BY <1>0, <1>5 DEF InstallLoad, At, Targeted, CopiesLoadable
  <2>2. \/ Ends(c) /\ dir' = [dir EXCEPT ![Name(client[c].target)] = NoDir]
        \/ UNCHANGED dir /\ (Goto(c, "handle") \/ Ends(c))
    BY <1>5 DEF InstallLoad
  <2> QED
    BY <1>0, <2>1, <2>2, GoneFacts, EndsKnown, DirsSame, GoesOnKnown
<1>6. CASE InstallPlugin(c)
  <2>1. /\ UNCHANGED dir /\ Ends(c)
        /\ client[c].target \in Packages
        /\ loaded' = loaded \/ loaded' = Append(loaded, client[c].target)
    BY <1>0, <1>6 DEF InstallPlugin, At, Targeted
  <2>2. loaded' \in Seq(Packages)
    BY <1>0, <2>1
  <2> QED
    BY <2>1, <2>2, EndsKnown, DirsSame
<1> QED
  BY <1>1, <1>2, <1>3, <1>4, <1>5, <1>6

LEMMA UninstallKnown ==
  ASSUME PluginsAssumption, KnownInv, NEW c \in Clients,
         \/ UninstallCommand(c) \/ UninstallFind(c) \/ UninstallFilter(c) \/ UninstallReplace(c)
         \/ UninstallSuspend(c) \/ UninstallPersist(c) \/ UninstallRemove(c) \/ CommandFails(c)
         \/ RegisterCommand(c) \/ Register(c)
  PROVE  DirsKnown' /\ ListsKnown' /\ CopiesLoadable'
<1> USE DEF KnownInv
<1>0. loaded \in Seq(Packages) /\ ClientShape /\ Targeted
  BY DEF ListsKnown, SuspensionInv
<1>1. CASE UninstallCommand(c)
  <2>0. PICK p \in Packages : \E identifier : Begin(c, "find", p, identifier)
    BY <1>1 DEF UninstallCommand
  <2>1. PICK identifier : Begin(c, "find", p, identifier)
    BY <2>0
  <2>2. /\ Only(c) /\ client'[c].pc = "find" /\ client'[c].found = {} /\ client'[c].seen = <<>>
        /\ UNCHANGED <<dir, loaded>>
    BY <1>0, <2>1, BeginFacts
  <2> QED
    BY <1>0, <2>2, DirsSame, ListsSame, EmptyList
<1>2. CASE UninstallFind(c)
  <2>1. /\ Only(c) /\ client'[c].pc \in {"filter", "remove"}
        /\ client'[c].found = FindByIdentifier(Discover, client[c].identifier)
        /\ client'[c].seen = client[c].seen /\ UNCHANGED <<dir, loaded>>
    BY <1>0, <1>2, FindFacts DEF UninstallFind
  <2>2. Discover \in Seq(Packages)
    BY DiscoverFacts
  <2>3. client'[c].found \subseteq Packages
    <3>1. client'[c].found \subseteq ToSet(Discover)
      BY <2>1, <2>2, FindFirst
    <3> QED
      BY <2>2, <3>1 DEF ToSet
  <2> QED
    BY <1>0, <2>1, <2>3, DirsSame, ListsSame DEF ListsKnown
<1>3. CASE UninstallFilter(c)
  <2>1. UNCHANGED <<dir, loaded>>
    BY <1>3 DEF UninstallFilter
  <2>2. CASE Ends(c)
    BY <1>0, <2>1, <2>2, EndsKnown, DirsSame
  <2>3. ASSUME NEW p \in Packages,
               client' = [client EXCEPT ![c].pc = "replace", ![c].seen = loaded, ![c].target = p]
        PROVE  DirsKnown' /\ ListsKnown' /\ CopiesLoadable'
    BY <1>0, <2>1, <2>3, FilterFacts, DirsSame, ListsSame DEF ListsKnown
  <2> QED
    BY <1>3, <2>2, <2>3 DEF UninstallFilter
<1>4. CASE UninstallReplace(c)
  <2>1. /\ UNCHANGED dir /\ Goto(c, "suspend")
        /\ loaded' = Keep(client[c].seen, {p \in Packages : Namespace(p) # Namespace(client[c].target)})
    BY <1>4 DEF UninstallReplace
  <2>2. loaded' \in Seq(Packages)
    BY <2>1, KeepElements DEF ListsKnown
  <2> QED
    BY <2>1, <2>2, GoesOnKnown, DirsSame
<1>5. CASE UninstallSuspend(c)
  <2>1. PICK pc \in {"remove", "persist"} : Goto(c, pc)
    BY <1>5 DEF UninstallSuspend
  <2>2. UNCHANGED <<dir, loaded>>
    BY <1>5 DEF UninstallSuspend
  <2> QED
    BY <1>0, <2>1, <2>2, GoesOnKnown, DirsSame
<1>6. CASE UninstallPersist(c)
  <2>1. UNCHANGED <<dir, loaded>> /\ Goto(c, "remove")
    BY <1>6 DEF UninstallPersist
  <2> QED
    BY <1>0, <2>1, GoesOnKnown, DirsSame
<1>7. CASE UninstallRemove(c)
  <2>1. UNCHANGED loaded /\ client[c].found \subseteq Packages
    BY <1>7 DEF UninstallRemove, ListsKnown
  <2>2. CASE Ends(c) /\ UNCHANGED dir
    BY <1>0, <2>1, <2>2, EndsKnown, DirsSame
  <2>3. ASSUME NEW p \in client[c].found, Ends(c), dir' = [dir EXCEPT ![Name(p)] = NoDir]
        PROVE  DirsKnown' /\ ListsKnown' /\ CopiesLoadable'
    BY <1>0, <2>1, <2>3, EndsKnown, GoneFacts
  <2>4. ASSUME NEW p \in client[c].found, UNCHANGED client, dir[Name(p)] # NoDir,
               NEW x \in dir[Name(p)].parts, dir' = [dir EXCEPT ![Name(p)].parts = @ \ {x}]
        PROVE  DirsKnown' /\ ListsKnown' /\ CopiesLoadable'
    <3>1. DirsKnown'
      BY <2>1, <2>4, LessFacts
    <3> QED
      BY <1>0, <2>1, <2>4, <3>1, SameKnown
  <2> QED
    BY <1>7, <2>2, <2>3, <2>4, RemoveFacts
<1>8. CASE CommandFails(c)
  <2>1. UNCHANGED <<dir, loaded>> /\ Ends(c)
    BY <1>8 DEF CommandFails
  <2> QED
    BY <1>0, <2>1, EndsKnown, DirsSame
<1>9. CASE RegisterCommand(c)
  <2>1. /\ Only(c) /\ client'[c].pc = "register" /\ client'[c].seen = loaded /\ client'[c].found = {}
        /\ UNCHANGED <<dir, loaded>>
    BY <1>0, <1>9, RegisterFacts
  <2> QED
    BY <1>0, <2>1, DirsSame, ListsSame
<1>10. CASE Register(c)
  <2>1. UNCHANGED <<dir, loaded>> /\ Ends(c)
    BY <1>10 DEF Register
  <2> QED
    BY <1>0, <2>1, EndsKnown, DirsSame
<1> QED
  BY <1>1, <1>2, <1>3, <1>4, <1>5, <1>6, <1>7, <1>8, <1>9, <1>10

LEMMA StatusKnown ==
  ASSUME PluginsAssumption, KnownInv, NEW c \in Clients, StatusCommand(c) \/ StatusPersist(c)
  PROVE  DirsKnown' /\ ListsKnown' /\ CopiesLoadable'
<1>0. ClientShape /\ DirsKnown /\ ListsKnown /\ CopiesLoadable /\ loaded \in Seq(Packages)
  BY DEF KnownInv, SuspensionInv, ListsKnown
<1>1. CASE StatusCommand(c)
  <2>1. /\ Only(c) /\ client'[c].pc = "save" /\ client'[c].seen = <<>> /\ client'[c].found = {}
        /\ UNCHANGED <<dir, loaded>>
    BY <1>0, <1>1, StatusFacts
  <2> QED
    BY <1>0, <2>1, DirsSame, ListsSame, EmptyList
<1>2. CASE StatusPersist(c)
  <2>1. UNCHANGED <<dir, loaded>> /\ Ends(c)
    BY <1>2 DEF StatusPersist
  <2> QED
    BY <1>0, <2>1, EndsKnown, DirsSame
<1> QED
  BY <1>1, <1>2

LEMMA DaemonKnown ==
  ASSUME PluginsAssumption, KnownInv, Start \/ LoadState \/ Stop
  PROVE  DirsKnown' /\ ListsKnown' /\ CopiesLoadable'
<1> USE DEF KnownInv
<1>1. UNCHANGED dir /\ DirsKnown'
  BY DirsSame DEF Start, LoadState, Stop
<1>2. CASE Start \/ LoadState
  <2>1. UNCHANGED client /\ (loaded' = loaded \/ loaded' = Discover)
    BY <1>2 DEF Start, LoadState
  <2>2. loaded' \in Seq(Packages)
    BY <2>1, DiscoverFacts DEF ListsKnown
  <2> QED
    BY <1>1, <2>1, <2>2, SameKnown
<1>3. CASE Stop
  <2>1. loaded' = <<>>
    BY <1>3 DEF Stop
  <2>2. \A c \in Clients : client'[c] = Idle \/ client'[c] = client[c]
    BY <1>3, StopFacts DEF SuspensionInv
  <2> QED
    BY <1>1, <2>1, <2>2, IdleLists DEF ListsKnown, CopiesLoadable, Loadable
<1> QED
  BY <1>2, <1>3

LEMMA KnownStep == KnownInv /\ [Next]_vars => KnownInv'
<1> SUFFICES ASSUME KnownInv, [Next]_vars PROVE KnownInv'
  OBVIOUS
<1>1. SuspensionInv'
  BY SuspensionStep DEF KnownInv
<1>2. CASE UNCHANGED vars
  BY <1>1, <1>2, DirsSame, SameKnown DEF vars, KnownInv, ListsKnown
<1> QED
  BY <1>1, <1>2, InstallKnown, UninstallKnown, StatusKnown, DaemonKnown, PluginsAssumption DEF Next, KnownInv

-----------------------------------------------------------------------------
(* Nothing is active without its plugin. *)

\* The registry is that of a daemon that is up.
RegistryUp == daemon # "up" => entity = NoRecurfile

\* A registration in progress has seen the plugins there are, but for those that commands are
\* about, of which no promise is made.
Registering ==
  \A c \in Clients : client[c].pc = "register" =>
    /\ \A d \in Clients : client[d].pc \notin {"idle", "register", "save"} => Namespace(client[d].target) \in excused
    /\ NamespacesOf(client[c].seen) \subseteq excused \union NamespacesOf(loaded)

\* An entity belongs to a plugin of d.plugins, or is suspended, or was resumed, or will be
\* suspended as soon as the uninstall goes on that has taken its plugin away.
OwnersHeld ==
  entity # NoRecurfile =>
    \A t \in Types :
      \/ entity[t].owner \in {NoPlugin} \union excused \union NamespacesOf(loaded)
      \/ entity[t].status = "suspended" \/ t \in resumed
      \/ \E c \in Clients : client[c].pc = "suspend" /\ Namespace(client[c].target) = entity[t].owner

OwnersInv == RegistryUp /\ Registering /\ OwnersHeld

\* A step of client c that leaves the registry alone and loses no plugin but its own.
Spares(c) ==
  /\ UNCHANGED <<daemon, entity, resumed>> /\ Only(c)
  /\ excused \subseteq excused'
  /\ client[c].pc # "suspend"
  /\ client'[c].pc # "register"
  /\ client'[c].pc # "idle" =>
       \/ /\ client[c].pc \notin {"idle", "register", "save"}
          /\ Namespace(client'[c].target) = Namespace(client[c].target)
       \/ (\E b \in Clients : client[b].pc = "register") => Namespace(client'[c].target) \in excused'
  /\ \A ns \in NamespacesOf(loaded) :
       \/ ns \in excused' \union NamespacesOf(loaded')
       \/ /\ client[c].pc \notin {"idle", "register", "save"}
          /\ client'[c].pc = "suspend" /\ client'[c].target = client[c].target
          /\ ns = Namespace(client[c].target)

LEMMA SparesOwners ==
  ASSUME OwnersInv, NEW c \in Clients, Spares(c)
  PROVE  OwnersInv'
<1> USE DEF OwnersInv, Spares, Only, Namespace
<1>1. RegistryUp'
  BY DEF RegistryUp
<1>2. Registering'
  <2> SUFFICES ASSUME NEW b \in Clients, client'[b].pc = "register"
               PROVE  /\ \A d \in Clients : client'[d].pc \notin {"idle", "register", "save"} =>
                                              Namespace(client'[d].target) \in excused'
                      /\ NamespacesOf(client'[b].seen) \subseteq excused' \union NamespacesOf(loaded')
    BY DEF Registering, NamespacesOf
  <2>1. b # c /\ client'[b] = client[b] /\ client[b].pc = "register"
    OBVIOUS
  <2>2. /\ \A d \in Clients : client[d].pc \notin {"idle", "register", "save"} => Namespace(client[d].target) \in excused
        /\ NamespacesOf(client[b].seen) \subseteq excused \union NamespacesOf(loaded)
    BY <2>1 DEF Registering
  <2>3. ASSUME NEW d \in Clients, client'[d].pc \notin {"idle", "register", "save"}
        PROVE  Namespace(client'[d].target) \in excused'
    BY <2>1, <2>2, <2>3
  <2>4. NamespacesOf(client'[b].seen) = NamespacesOf(client[b].seen)
    BY <2>1
  <2>5. NamespacesOf(loaded) \subseteq excused' \union NamespacesOf(loaded')
    BY <2>2
  <2> QED
    BY <2>2, <2>3, <2>4, <2>5
<1>3. OwnersHeld'
  <2> SUFFICES ASSUME entity # NoRecurfile, NEW t \in Types
               PROVE  \/ entity[t].owner \in {NoPlugin} \union excused' \union NamespacesOf(loaded')
                      \/ entity[t].status = "suspended" \/ t \in resumed
                      \/ \E d \in Clients : client'[d].pc = "suspend" /\ Namespace(client'[d].target) = entity[t].owner
    BY DEF OwnersHeld, NoRecurfile
  <2>1. CASE entity[t].owner \in {NoPlugin} \union excused
    BY <2>1
  <2>2. CASE entity[t].owner \in NamespacesOf(loaded)
    BY <2>2
  <2>3. CASE \E d \in Clients : client[d].pc = "suspend" /\ Namespace(client[d].target) = entity[t].owner
    BY <2>3
  <2> QED
    BY <2>1, <2>2, <2>3 DEF OwnersHeld
<1> QED
  BY <1>1, <1>2, <1>3

LEMMA SameOwners ==
  ASSUME OwnersInv, UNCHANGED <<daemon, entity, resumed, client, excused, loaded>>
  PROVE  OwnersInv'
  BY DEF OwnersInv, RegistryUp, Registering, OwnersHeld, NamespacesOf, Namespace, NoRecurfile

LEMMA BeginSpares ==
  ASSUME PluginsAssumption, KnownInv, NEW c \in Clients, NEW p \in Packages,
         NEW pc \in {"check", "find"}, NEW identifier, Begin(c, pc, p, identifier)
  PROVE  Spares(c)
<1>1. /\ Only(c) /\ client[c].pc = "idle" /\ client'[c].pc = pc /\ client'[c].target = p
      /\ UNCHANGED <<dir, daemon, loaded, entity, saved>>
  BY BeginFacts DEF KnownInv, SuspensionInv
<1>2. /\ excused \subseteq excused' /\ UNCHANGED resumed
      /\ (\E b \in Clients : client[b].pc = "register") => Namespace(p) \in excused'
  BY DEF Begin, Excuse, Busy, At
<1>3. pc \notin {"register", "save", "idle"}
  OBVIOUS
<1> QED
  BY <1>1, <1>2, <1>3 DEF Spares

\* A client that goes on or ends.
LEMMA GoesOnSpares ==
  ASSUME KnownInv, NEW c \in Clients, NEW pc, Goto(c, pc) \/ Ends(c),
         pc \notin {"register", "save", "idle"}, client[c].pc \notin {"idle", "register", "save", "suspend"},
         UNCHANGED <<daemon, entity, resumed>>, excused \subseteq excused',
         NamespacesOf(loaded) \subseteq excused' \union NamespacesOf(loaded')
  PROVE  Spares(c)
<1>1. Only(c) /\ (Becomes(c, pc) \/ client'[c].pc = "idle")
  BY GotoFacts, EndsFacts DEF KnownInv, SuspensionInv
<1> QED
  BY <1>1 DEF Spares, Becomes

LEMMA InstallOwners ==
  ASSUME PluginsAssumption, KnownInv, OwnersInv, NEW c \in Clients,
         \/ InstallCommand(c) \/ InstallCheck(c) \/ InstallCopy(c) \/ InstallCopyFails(c)
         \/ InstallLoad(c) \/ InstallPlugin(c)
  PROVE  OwnersInv'
<1>1. CASE InstallCommand(c)
  BY <1>1, BeginSpares, SparesOwners DEF InstallCommand
<1>2. CASE InstallCheck(c)
  <2>1. /\ Goto(c, "copy") \/ Ends(c)
        /\ UNCHANGED <<daemon, loaded, entity, excused, resumed>> /\ client[c].pc = "check"
    BY <1>2 DEF InstallCheck, At
  <2>2. NamespacesOf(loaded') = NamespacesOf(loaded)
    BY <2>1
  <2>3. CASE Goto(c, "copy")
    BY <2>1, <2>2, <2>3, GoesOnSpares, SparesOwners
  <2>4. CASE Ends(c)
    BY <2>1, <2>2, <2>4, GoesOnSpares, SparesOwners
  <2> QED
    BY <2>1, <2>3, <2>4
<1>3. CASE InstallCopy(c)
  <2>1. CASE Goto(c, "load")
    BY <1>3, <2>1, GoesOnSpares, SparesOwners DEF InstallCopy, At
  <2>2. CASE UNCHANGED client
    BY <1>3, <2>2, SameOwners DEF InstallCopy
  <2> QED
    BY <1>3, <2>1, <2>2 DEF InstallCopy
<1>4. CASE InstallCopyFails(c)
  BY <1>4, GoesOnSpares, SparesOwners DEF InstallCopyFails, At
<1>5. CASE InstallLoad(c)
  <2>1. /\ Goto(c, "handle") \/ Ends(c)
        /\ UNCHANGED <<daemon, loaded, entity, excused, resumed>> /\ client[c].pc = "load"
    BY <1>5 DEF InstallLoad, At
  <2>2. NamespacesOf(loaded') = NamespacesOf(loaded)
    BY <2>1
  <2>3. CASE Goto(c, "handle")
    BY <2>1, <2>2, <2>3, GoesOnSpares, SparesOwners
  <2>4. CASE Ends(c)
    BY <2>1, <2>2, <2>4, GoesOnSpares, SparesOwners
  <2> QED
    BY <2>1, <2>3, <2>4
<1>6. CASE InstallPlugin(c)
  <2>1. loaded \in Seq(Packages) /\ client[c].target \in Packages /\ client[c].pc = "handle"
    BY <1>6 DEF KnownInv, ListsKnown, SuspensionInv, Targeted, InstallPlugin, At
  <2>2. loaded' = loaded \/ loaded' = Append(loaded, client[c].target)
    BY <1>6 DEF InstallPlugin
  <2>3. NamespacesOf(loaded) \subseteq NamespacesOf(loaded')
    <3>1. ToSet(loaded) \subseteq ToSet(loaded')
      <4>1. ToSet(Append(loaded, client[c].target)) = ToSet(loaded) \union {client[c].target}
        BY <2>1, AppendElements
      <4> QED
        BY <2>2, <4>1
    <3> QED
      BY <3>1 DEF NamespacesOf
  <2>4. excused \subseteq excused' /\ Ends(c) /\ UNCHANGED <<daemon, entity, resumed>>
    BY <1>6 DEF InstallPlugin, Excuse
  <2> QED
    BY <2>1, <2>3, <2>4, GoesOnSpares, SparesOwners
<1> QED
  BY <1>1, <1>2, <1>3, <1>4, <1>5, <1>6

\* UninstallPlugin takes its namespace from the list, and what was not in its copy.
LEMMA ReplaceFacts ==
  ASSUME PluginsAssumption, KnownInv, NEW c \in Clients, UninstallReplace(c)
  PROVE  LET ns == Namespace(client[c].target) IN
         /\ Goto(c, "suspend") /\ client[c].pc = "replace"
         /\ excused \subseteq excused' /\ UNCHANGED <<dir, daemon, entity, saved, resumed>>
         /\ \A p \in Packages : Namespace(p) \in excused' \/
              (p \in ToSet(loaded') <=> p \in ToSet(loaded) /\ Namespace(p) # ns)
         /\ loaded' \in Seq(Packages)
<1> DEFINE ns == Namespace(client[c].target)
           seen == client[c].seen
           lost == (ToSet(seen) \ ToSet(loaded)) \union (ToSet(loaded) \ ToSet(seen))
           others == {p \in Packages : Namespace(p) # ns}
<1>1. /\ Goto(c, "suspend") /\ client[c].pc = "replace" /\ UNCHANGED <<dir, daemon, entity, saved, resumed>>
      /\ loaded' = Keep(seen, others)
      /\ excused' = excused \union {Namespace(p) : p \in lost}
  BY DEF UninstallReplace, At, Excuse
<1>2. seen \in Seq(Packages)
  BY DEF KnownInv, ListsKnown
<1> HIDE DEF seen
<1>3. loaded' \in Seq(Packages) /\ ToSet(loaded') = ToSet(seen) \intersect others
  BY <1>1, <1>2, KeepElements
<1>4. ASSUME NEW p \in Packages, Namespace(p) \notin excused'
      PROVE  p \in ToSet(loaded') <=> p \in ToSet(loaded) /\ Namespace(p) # ns
  <2>1. p \notin lost
    BY <1>1, <1>4
  <2> QED
    BY <1>3, <2>1
<1> QED
  BY <1>1, <1>3, <1>4

LEMMA UninstallOwners ==
  ASSUME PluginsAssumption, KnownInv, OwnersInv, NEW c \in Clients,
         \/ UninstallCommand(c) \/ UninstallFind(c) \/ UninstallFilter(c) \/ UninstallReplace(c)
         \/ UninstallPersist(c) \/ UninstallRemove(c) \/ CommandFails(c)
  PROVE  OwnersInv'
<1>0. ClientShape /\ Targeted /\ loaded \in Seq(Packages)
  BY DEF KnownInv, SuspensionInv, ListsKnown
<1>1. CASE UninstallCommand(c)
  BY <1>1, BeginSpares, SparesOwners DEF UninstallCommand
<1>2. CASE UninstallFind(c)
  <2>1. /\ Only(c) /\ client'[c].pc \in {"filter", "remove"} /\ client'[c].target = client[c].target
        /\ UNCHANGED <<daemon, loaded, entity, excused, resumed>> /\ client[c].pc = "find"
    BY <1>0, <1>2, FindFacts DEF UninstallFind, At
  <2> QED
    BY <2>1, SparesOwners DEF Spares
<1>3. CASE UninstallFilter(c)
  <2>1. /\ UNCHANGED <<daemon, loaded, entity, resumed>> /\ client[c].pc = "filter"
        /\ excused \subseteq excused' /\ NamespacesOf(loaded') = NamespacesOf(loaded)
    BY <1>3 DEF UninstallFilter, At, Excuse, NamespacesOf, Namespace
  <2>2. CASE Ends(c)
    BY <2>1, <2>2, GoesOnSpares, SparesOwners
  <2>3. ASSUME NEW p \in Packages,
               client' = [client EXCEPT ![c].pc = "replace", ![c].seen = loaded, ![c].target = p],
               Excuse({Namespace(p)} \ {Namespace(client[c].target)})
        PROVE  OwnersInv'
    <3>1. Only(c) /\ client'[c].pc = "replace" /\ client'[c].target = p
      BY <1>0, <2>3, FilterFacts
    <3>2. Namespace(p) = Namespace(client[c].target) \/ Namespace(p) \in excused'
      BY <2>3 DEF Excuse
    <3> QED
      BY <2>1, <3>1, <3>2, SparesOwners DEF Spares, Namespace
  <2> QED
    BY <1>3, <2>2, <2>3 DEF UninstallFilter
<1>4. CASE UninstallReplace(c)
  <2>1. /\ client[c].pc = "replace" /\ excused \subseteq excused' /\ UNCHANGED <<daemon, entity, resumed>>
        /\ Only(c) /\ Becomes(c, "suspend")
        /\ \A p \in Packages : Namespace(p) \in excused' \/
             (p \in ToSet(loaded') <=> p \in ToSet(loaded) /\ Namespace(p) # Namespace(client[c].target))
    BY <1>0, <1>4, ReplaceFacts, GotoFacts
  <2>2. ASSUME NEW ns \in NamespacesOf(loaded), ns \notin excused' \union NamespacesOf(loaded')
        PROVE  ns = Namespace(client[c].target)
    <3>1. PICK p \in ToSet(loaded) : ns = Namespace(p)
      BY DEF NamespacesOf
    <3>2. p \in Packages
      BY <1>0, <3>1 DEF ToSet
    <3> QED
      BY <2>1, <2>2, <3>1, <3>2 DEF NamespacesOf
  <2> QED
    BY <2>1, <2>2, SparesOwners DEF Spares, Becomes
<1>5. CASE UninstallPersist(c)
  BY <1>5, GoesOnSpares, SparesOwners DEF UninstallPersist, At
<1>6. CASE UninstallRemove(c)
  <2>1. CASE Ends(c)
    BY <1>6, <2>1, GoesOnSpares, SparesOwners DEF UninstallRemove, At
  <2>2. CASE UNCHANGED client
    BY <1>6, <2>2, SameOwners DEF UninstallRemove
  <2> QED
    BY <1>6, <2>1, <2>2 DEF UninstallRemove
<1>7. CASE CommandFails(c)
  <2>1. Ends(c) /\ excused \subseteq excused' /\ UNCHANGED <<daemon, entity, resumed, loaded>>
    BY <1>7 DEF CommandFails, Excuse
  <2> QED
    BY <1>7, <2>1, GoesOnSpares, SparesOwners DEF CommandFails
<1> QED
  BY <1>1, <1>2, <1>3, <1>4, <1>5, <1>6, <1>7

\* suspendByPluginID takes its work from the client, and leaves the owners as they are.
LEMMA SuspendOwners ==
  ASSUME PluginsAssumption, KnownInv, OwnersInv, NEW c \in Clients, UninstallSuspend(c)
  PROVE  OwnersInv'
<1> DEFINE ns == Namespace(client[c].target)
<1>00. PICK pc \in {"remove", "persist"} : Goto(c, pc)
  BY DEF UninstallSuspend
<1>0. /\ Only(c) /\ Becomes(c, pc) /\ client[c].pc = "suspend"
      /\ UNCHANGED <<daemon, loaded, excused>> /\ daemon = "up"
  BY <1>00, GotoFacts DEF UninstallSuspend, KnownInv, SuspensionInv, ServedWhileUp, At, InDaemon
<1>1. RegistryUp'
  BY <1>0 DEF RegistryUp
<1>2. Registering'
  BY <1>0 DEF OwnersInv, Registering, Only, Becomes, NamespacesOf, Namespace
<1>3. /\ SetStatus(Active(ns), "suspended") /\ resumed' = resumed \ Active(ns)
  BY DEF UninstallSuspend
<1>4. /\ entity' = NoRecurfile <=> entity = NoRecurfile
      /\ entity # NoRecurfile => \A t \in Types :
           /\ entity'[t].owner = entity[t].owner
           /\ entity'[t].status = IF t \in Active(ns) THEN "suspended" ELSE entity[t].status
  BY <1>3, SetStatusFacts DEF KnownInv, SuspensionInv
<1>5. OwnersHeld'
  <2> SUFFICES ASSUME entity # NoRecurfile, NEW t \in Types
               PROVE  \/ entity'[t].owner \in {NoPlugin} \union excused' \union NamespacesOf(loaded')
                      \/ entity'[t].status = "suspended" \/ t \in resumed'
                      \/ \E d \in Clients : client'[d].pc = "suspend" /\ Namespace(client'[d].target) = entity'[t].owner
    BY <1>4 DEF OwnersHeld, NamespacesOf, Namespace, NoRecurfile
  <2>1. /\ entity'[t].owner = entity[t].owner
        /\ entity'[t].status = IF t \in Active(ns) THEN "suspended" ELSE entity[t].status
    BY <1>4
  <2>2. \/ entity[t].owner \in {NoPlugin} \union excused \union NamespacesOf(loaded)
        \/ entity[t].status = "suspended" \/ t \in resumed
        \/ \E d \in Clients : client[d].pc = "suspend" /\ Namespace(client[d].target) = entity[t].owner
    BY DEF OwnersInv, OwnersHeld
  <2>3. NamespacesOf(loaded') = NamespacesOf(loaded) /\ excused' = excused
    BY <1>0
  <2>4. CASE t \in Active(ns)
    BY <2>1, <2>4
  <2>5. CASE t \notin Active(ns)
    <3>1. entity[t].owner = ns => entity[t].status = "suspended"
      BY <2>5 DEF Active, KnownInv, SuspensionInv, EntityShape
    <3>2. ASSUME NEW d \in Clients, client[d].pc = "suspend", Namespace(client[d].target) = entity[t].owner,
                 entity[t].owner # ns
          PROVE  client'[d].pc = "suspend" /\ Namespace(client'[d].target) = entity'[t].owner
      BY <1>0, <2>1, <3>2 DEF Only
    <3> QED
      BY <1>3, <2>1, <2>2, <2>3, <2>5, <3>1, <3>2
  <2> QED
    BY <2>4, <2>5
<1> QED
  BY <1>1, <1>2, <1>5 DEF OwnersInv

\* What the user resumes is noted, and what the user suspends is suspended.
LEMMA StatusOwners ==
  ASSUME PluginsAssumption, KnownInv, OwnersInv, NEW c \in Clients, StatusCommand(c) \/ StatusPersist(c)
  PROVE  OwnersInv'
<1>0. ClientShape /\ EntityShape
  BY DEF KnownInv, SuspensionInv
<1>1. /\ Only(c) /\ client'[c].pc \in {"save", "idle"} /\ client[c].pc \notin {"suspend", "register"}
      /\ UNCHANGED <<daemon, loaded, excused>>
  BY <1>0, StatusFacts, EndsFacts DEF StatusCommand, StatusPersist, At
<1>2. Registering'
  BY <1>1 DEF OwnersInv, Registering, Only, NamespacesOf, Namespace
<1>3. NamespacesOf(loaded') = NamespacesOf(loaded) /\ excused' = excused
  BY <1>1
<1>4. ASSUME NEW ns, \E d \in Clients : client[d].pc = "suspend" /\ Namespace(client[d].target) = ns
      PROVE  \E d \in Clients : client'[d].pc = "suspend" /\ Namespace(client'[d].target) = ns
  BY <1>1, <1>4 DEF Only
<1>5. CASE StatusPersist(c)
  <2>1. UNCHANGED <<entity, resumed>>
    BY <1>5 DEF StatusPersist
  <2>2. RegistryUp'
    BY <1>1, <2>1 DEF OwnersInv, RegistryUp, NoRecurfile
  <2>3. OwnersHeld'
    <3> SUFFICES ASSUME entity # NoRecurfile, NEW t \in Types
                 PROVE  \/ entity[t].owner \in {NoPlugin} \union excused' \union NamespacesOf(loaded')
                        \/ entity[t].status = "suspended" \/ t \in resumed
                        \/ \E d \in Clients : client'[d].pc = "suspend" /\ Namespace(client'[d].target) = entity[t].owner
      BY <2>1 DEF OwnersHeld, NamespacesOf, Namespace, NoRecurfile
    <3>1. \/ entity[t].owner \in {NoPlugin} \union excused \union NamespacesOf(loaded)
          \/ entity[t].status = "suspended" \/ t \in resumed
          \/ \E d \in Clients : client[d].pc = "suspend" /\ Namespace(client[d].target) = entity[t].owner
      BY DEF OwnersInv, OwnersHeld
    <3> QED
      BY <1>3, <1>4, <3>1
  <2> QED
    BY <1>2, <2>2, <2>3 DEF OwnersInv
<1>6. CASE StatusCommand(c)
  <2>1. PICK x, status :
          /\ SetStatus({x}, status)
          /\ \/ resumed' = resumed \union {x}
             \/ status = "suspended" /\ resumed' = resumed \ {x}
    BY <1>6 DEF StatusCommand
  <2>2. /\ entity' = NoRecurfile <=> entity = NoRecurfile
        /\ entity # NoRecurfile => \A t \in Types :
             /\ entity'[t].owner = entity[t].owner
             /\ entity'[t].status = IF t \in {x} THEN status ELSE entity[t].status
    BY <1>0, <2>1, SetStatusFacts
  <2>3. RegistryUp'
    BY <1>6 DEF StatusCommand, RegistryUp
  <2>4. OwnersHeld'
    <3> SUFFICES ASSUME entity # NoRecurfile, NEW t \in Types
                 PROVE  \/ entity'[t].owner \in {NoPlugin} \union excused' \union NamespacesOf(loaded')
                        \/ entity'[t].status = "suspended" \/ t \in resumed'
                        \/ \E d \in Clients : client'[d].pc = "suspend" /\ Namespace(client'[d].target) = entity'[t].owner
      BY <2>2 DEF OwnersHeld, NamespacesOf, Namespace, NoRecurfile
    <3>1. \/ entity[t].owner \in {NoPlugin} \union excused \union NamespacesOf(loaded)
          \/ entity[t].status = "suspended" \/ t \in resumed
          \/ \E d \in Clients : client[d].pc = "suspend" /\ Namespace(client[d].target) = entity[t].owner
      BY DEF OwnersInv, OwnersHeld
    <3>2. entity'[t].owner = entity[t].owner
      BY <2>2
    <3>3. CASE t = x
      BY <2>1, <2>2, <3>3
    <3>4. CASE t # x
      <4>1. entity'[t].status = entity[t].status /\ (t \in resumed => t \in resumed')
        BY <2>1, <2>2, <3>4
      <4> QED
        BY <1>3, <1>4, <3>1, <3>2, <4>1
    <3> QED
      BY <3>3, <3>4
  <2> QED
    BY <1>2, <2>3, <2>4 DEF OwnersInv
<1> QED
  BY <1>5, <1>6

LEMMA RegisterOwners ==
  ASSUME PluginsAssumption, KnownInv, OwnersInv, NEW c \in Clients, RegisterCommand(c) \/ Register(c)
  PROVE  OwnersInv'
<1>0. ClientShape /\ Targeted /\ ServedWhileUp
  BY DEF KnownInv, SuspensionInv
<1>1. CASE RegisterCommand(c)
  <2>1. /\ Only(c) /\ client[c].pc = "idle" /\ client'[c].pc = "register" /\ client'[c].seen = loaded
        /\ UNCHANGED <<daemon, loaded, entity>>
    BY <1>0, <1>1, RegisterFacts
  <2>2. excused' = excused \union Concerned
    BY <1>1 DEF RegisterCommand, Excuse
  <2>3. \A d \in Clients : client[d].pc \notin {"idle", "register", "save"} => Namespace(client[d].target) \in Concerned
    BY <1>0, PluginsAssumption DEF Targeted, Concerned, Busy, PluginsAssumption
  <2>4. Registering'
    <3> SUFFICES ASSUME NEW b \in Clients, client'[b].pc = "register"
                 PROVE  /\ \A d \in Clients : client'[d].pc \notin {"idle", "register", "save"} =>
                                                Namespace(client'[d].target) \in excused'
                        /\ NamespacesOf(client'[b].seen) \subseteq excused' \union NamespacesOf(loaded')
      BY DEF Registering, NamespacesOf, Namespace
    <3>1. \A d \in Clients : client'[d].pc \notin {"idle", "register", "save"} => Namespace(client'[d].target) \in excused'
      BY <2>1, <2>2, <2>3 DEF Only
    <3>2. CASE b = c
      BY <2>1, <3>1, <3>2
    <3>3. CASE b # c
      <4>1. client'[b] = client[b]
        BY <2>1, <3>3 DEF Only
      <4>2. NamespacesOf(client[b].seen) \subseteq excused \union NamespacesOf(loaded)
        BY <4>1 DEF OwnersInv, Registering
      <4> QED
        BY <2>1, <2>2, <3>1, <4>1, <4>2
    <3> QED
      BY <3>2, <3>3
  <2>5. RegistryUp' /\ OwnersHeld'
    BY <1>1, <2>1, <2>2 DEF RegisterCommand, OwnersInv, RegistryUp, OwnersHeld, Only, NamespacesOf, Namespace, NoRecurfile
  <2> QED
    BY <2>4, <2>5 DEF OwnersInv
<1>2. CASE Register(c)
  <2>1. /\ Only(c) /\ client'[c].pc = "idle" /\ client[c].pc = "register" /\ daemon = "up"
        /\ UNCHANGED <<daemon, loaded, excused>>
        /\ entity' = [t \in Types |-> [owner |-> ResolvePlugin(client[c].seen, t), status |-> "active"]]
    BY <1>0, <1>2, EndsFacts DEF Register, ServedWhileUp, At, InDaemon
  <2>2. NamespacesOf(client[c].seen) \subseteq excused \union NamespacesOf(loaded)
    BY <2>1 DEF OwnersInv, Registering
  <2>3. \A t \in Types : entity'[t].owner \in {NoPlugin} \union excused \union NamespacesOf(loaded)
    <3> SUFFICES ASSUME NEW t \in Types
                 PROVE  entity'[t].owner \in {NoPlugin} \union excused \union NamespacesOf(loaded)
      OBVIOUS
    <3>1. client[c].seen \in Seq(Packages)
      BY DEF KnownInv, ListsKnown
    <3>2. ResolvePlugin(client[c].seen, t) \in NamespacesOf(client[c].seen) \union {NoPlugin}
      BY <3>1, ResolveIn
    <3>3. entity'[t].owner = ResolvePlugin(client[c].seen, t)
      BY <2>1
    <3> QED
      BY <2>2, <3>2, <3>3
  <2>4. NamespacesOf(loaded') = NamespacesOf(loaded) /\ excused' = excused
    BY <2>1
  <2>5. OwnersHeld'
    BY <2>3, <2>4 DEF OwnersHeld
  <2>6. RegistryUp' /\ Registering'
    BY <2>1 DEF OwnersInv, RegistryUp, Registering, Only, NamespacesOf, Namespace
  <2> QED
    BY <2>5, <2>6 DEF OwnersInv
<1> QED
  BY <1>1, <1>2

LEMMA DaemonOwners ==
  ASSUME PluginsAssumption, KnownInv, OwnersInv, Start \/ LoadState \/ Stop
  PROVE  OwnersInv'
<1>0. ClientShape /\ ServedWhileUp
  BY DEF KnownInv, SuspensionInv
<1>1. CASE Start
  <2>1. /\ daemon = "down" /\ daemon' = "scanning" /\ UNCHANGED <<entity, client>> /\ entity = NoRecurfile
    BY <1>1 DEF Start, OwnersInv, RegistryUp
  <2>2. \A c \in Clients : client'[c].pc # "register"
    BY <1>0, <2>1 DEF ServedWhileUp, InDaemon
  <2> QED
    BY <2>1, <2>2 DEF OwnersInv, RegistryUp, Registering, OwnersHeld, NoRecurfile
<1>2. CASE LoadState
  <2>1. /\ daemon = "scanning" /\ daemon' = "up" /\ UNCHANGED <<client, loaded, excused>>
        /\ entity' = IF saved = NoRecurfile THEN NoRecurfile
                     ELSE [t \in Types |-> [owner |-> ResolvePlugin(loaded, t), status |-> saved[t].status]]
    BY <1>2 DEF LoadState
  <2>2. \A c \in Clients : client'[c].pc # "register"
    BY <1>0, <2>1 DEF ServedWhileUp, InDaemon
  <2>3. ASSUME entity' # NoRecurfile, NEW t \in Types
        PROVE  entity'[t].owner \in {NoPlugin} \union NamespacesOf(loaded')
    <3>1. entity'[t].owner = ResolvePlugin(loaded, t)
      BY <2>1, <2>3
    <3>2. ResolvePlugin(loaded, t) \in NamespacesOf(loaded) \union {NoPlugin}
      BY ResolveIn DEF KnownInv, ListsKnown
    <3> QED
      BY <2>1, <3>1, <3>2
  <2>4. OwnersHeld'
    BY <2>3 DEF OwnersHeld, NoRecurfile
  <2> QED
    BY <2>1, <2>2, <2>4 DEF OwnersInv, RegistryUp, Registering
<1>3. CASE Stop
  <2>1. entity' = NoRecurfile
    BY <1>3 DEF Stop
  <2>2. \A c \in Clients : client'[c].pc # "register"
    BY <1>0, <1>3, StopFacts DEF InDaemon
  <2> QED
    BY <2>1, <2>2 DEF OwnersInv, RegistryUp, Registering, OwnersHeld, NoRecurfile
<1> QED
  BY <1>1, <1>2, <1>3

LEMMA OwnersStep == KnownInv /\ OwnersInv /\ [Next]_vars => OwnersInv'
<1> SUFFICES ASSUME KnownInv, OwnersInv, [Next]_vars PROVE OwnersInv'
  OBVIOUS
<1>1. CASE UNCHANGED vars
  BY <1>1, SameOwners DEF vars
<1> QED
  BY <1>1, InstallOwners, UninstallOwners, SuspendOwners, RegisterOwners, StatusOwners, DaemonOwners,
     PluginsAssumption DEF Next

LEMMA KnownInit == Init => KnownInv
<1> SUFFICES ASSUME Init PROVE KnownInv
  OBVIOUS
<1>1. \A c \in Clients : client[c] = Idle
  BY DEF Init
<1>2. dir = [n \in Names |-> dir[n]] /\ \A n \in Names : dir[n] = NoDir
  BY DEF Init
<1>3. DirsKnown
  BY <1>2 DEF DirsKnown, HoldsPart, Names
<1>4. ListsKnown /\ CopiesLoadable
  BY <1>1, IdleLists, EmptyList DEF Init, ListsKnown, CopiesLoadable
<1> QED
  BY <1>3, <1>4, SuspensionInit DEF KnownInv

LEMMA OwnersInit == Init => OwnersInv
<1>1. Init => \A c \in Clients : client[c].pc = "idle"
  BY IdleLists DEF Init
<1> QED
  BY <1>1 DEF Init, OwnersInv, RegistryUp, Registering, OwnersHeld

\* api.go:764-774: when an uninstall is over, what belongs to its plugin is suspended; nothing that
\* belongs to a plugin the daemon does not have is active, but what the user has resumed since,
\* however commands, registrations, starts and crashes interleave; of the namespaces of commands
\* that met, and of what no plugin declared when it was registered or loaded, nothing is said.
THEOREM OrphansAlwaysSuspended == Spec => []OrphansAreSuspended
<1>1. KnownInv /\ OwnersInv => OrphansAreSuspended
  <2> SUFFICES ASSUME KnownInv, OwnersInv, entity # NoRecurfile, NEW t \in Types,
                      entity[t].owner # NoPlugin, entity[t].owner \notin excused,
                      Quiet(entity[t].owner), entity[t].owner \notin NamespacesOf(loaded)
               PROVE  entity[t].status = "suspended" \/ t \in resumed
    BY DEF OrphansAreSuspended
  <2>1. ~ \E c \in Clients : client[c].pc = "suspend" /\ Namespace(client[c].target) = entity[t].owner
    BY DEF Quiet, Busy
  <2> QED
    BY <2>1 DEF OwnersInv, OwnersHeld
<1>2. KnownInv /\ OwnersInv /\ [Next]_vars => (KnownInv /\ OwnersInv)'
  BY KnownStep, OwnersStep
<1> QED
  BY <1>1, <1>2, KnownInit, OwnersInit, PTL DEF Spec

-----------------------------------------------------------------------------
(* The daemon's plugins are those on disk. *)

\* No identifier is that of two packages.
Distinct ==
  \A p, q \in Packages : p # q => {Name(p), Namespace(p)} \intersect {Name(q), Namespace(q)} = {}

DaemonType == daemon \in {"down", "scanning", "up"}

\* A command that is under way.
Commanding(c) == client[c].pc \notin {"idle", "register", "save"}

\* What a command has found on disk is its package, by an identifier of its.
CommandsOwn ==
  \A c \in Clients : Commanding(c) =>
    /\ client[c].found \subseteq {client[c].target}
    /\ client[c].identifier \in {Name(client[c].target), Namespace(client[c].target)}

\* The commands for a package.
About(p) == {c \in Clients : Commanding(c) /\ client[c].target = p}

\* The package is in its directory, complete.
Full(p) == dir[Name(p)] # NoDir /\ dir[Name(p)].parts = ToSet(Content[p])

\* Nothing is half done.
Settled(p) == (p \in ToSet(loaded) <=> Full(p)) /\ (dir[Name(p)] = NoDir \/ Full(p))

\* How far the one command for the package is.
Amid(c, p) ==
  /\ client[c].pc \in {"check", "find", "filter"} => Settled(p)
  /\ client[c].pc = "filter" => (client[c].found = {} <=> dir[Name(p)] = NoDir)
  /\ client[c].pc \in {"copy", "load", "handle", "suspend", "persist", "remove"} => p \notin ToSet(loaded)
  /\ client[c].pc \in {"load", "handle"} => Full(p)
  /\ client[c].pc \in {"replace", "suspend", "persist", "remove"} => client[c].found = {p}

Follows(p) ==
  /\ daemon = "scanning" => About(p) = {}
  /\ \A c, d \in About(p) : c = d
  /\ \A c \in About(p) : Amid(c, p)
  /\ About(p) = {} => Settled(p)

Promised(p) == daemon # "down" /\ Namespace(p) \notin excused

MemoryInv == DaemonType /\ CommandsOwn /\ \A p \in Packages : Promised(p) => Follows(p)

\* A package that a step is not about.
LEMMA FollowsSame ==
  ASSUME NEW p \in Packages, Follows(p), UNCHANGED daemon,
         \A c \in Clients : c \in About(p) => client'[c] = client[c],
         \A c \in Clients : c \in About(p)' <=> c \in About(p),
         dir'[Name(p)] = dir[Name(p)], p \in ToSet(loaded') <=> p \in ToSet(loaded)
  PROVE  Follows(p)'
<1>1. Full(p)' <=> Full(p)
  BY DEF Full, Name
<1>2. Settled(p)' <=> Settled(p)
  BY <1>1 DEF Settled, Name
<1>3. About(p)' = About(p)
  BY DEF About
<1>4. ASSUME NEW c \in About(p) PROVE Amid(c, p)'
  <2>1. client'[c] = client[c] /\ Amid(c, p)
    BY <1>4 DEF About, Follows
  <2> QED
    BY <1>1, <1>2, <2>1 DEF Amid, Name
<1> QED
  BY <1>2, <1>3, <1>4 DEF Follows

\* A step of client c, whose command is about q.
Touches(c, q) ==
  /\ Only(c) /\ UNCHANGED daemon /\ excused \subseteq excused'
  /\ Commanding(c) => client[c].target = q
  /\ Commanding(c)' => client'[c].target = q
  /\ \A p \in Packages \ {q} : dir'[Name(p)] = dir[Name(p)]
  /\ \A p \in Packages \ {q} : Namespace(p) \in excused' \/ (p \in ToSet(loaded') <=> p \in ToSet(loaded))
  /\ Commanding(c)' => /\ client'[c].found \subseteq {q}
                       /\ client'[c].identifier \in {Name(q), Namespace(q)}

LEMMA TouchesOne ==
  ASSUME MemoryInv, NEW c \in Clients, NEW q, Touches(c, q),
         q \in Packages /\ Promised(q)' => Follows(q)'
  PROVE  MemoryInv'
<1>1. DaemonType' /\ CommandsOwn'
  BY DEF MemoryInv, DaemonType, CommandsOwn, Touches, Only, Commanding, Name, Namespace
<1>2. ASSUME NEW p \in Packages \ {q}, Promised(p)' PROVE Follows(p)'
  <2>1. Promised(p) /\ Namespace(p) \notin excused'
    BY <1>2 DEF Promised, Touches, Namespace
  <2>2. Follows(p)
    BY <2>1 DEF MemoryInv
  <2>3. ASSUME NEW d \in Clients
        PROVE  /\ d \in About(p) => client'[d] = client[d]
               /\ d \in About(p)' <=> d \in About(p)
    <3>1. CASE d = c
      BY <1>2, <3>1 DEF About, Touches
    <3>2. CASE d # c
      BY <3>2 DEF About, Touches, Only, Commanding
    <3> QED
      BY <3>1, <3>2
  <2> QED
    BY <2>1, <2>2, <2>3, FollowsSame DEF Touches
<1> QED
  BY <1>1, <1>2 DEF MemoryInv

\* The command for q goes on or ends.
LEMMA Local ==
  ASSUME MemoryInv, NEW c \in Clients, NEW q \in Packages, Touches(c, q), Commanding(c), Promised(q)',
         Follows(q) /\ Amid(c, q) /\ daemon = "up" =>
            IF Commanding(c)' THEN Amid(c, q)' ELSE Settled(q)'
  PROVE  Follows(q)'
<1>1. Promised(q) /\ Follows(q)
  BY DEF MemoryInv, Promised, Touches, Namespace
<1>2. c \in About(q)
  BY DEF About, Touches
<1>3. Amid(c, q) /\ daemon = "up" /\ UNCHANGED daemon
  BY <1>1, <1>2 DEF Follows, MemoryInv, DaemonType, Promised, Touches
<1>4. \A d \in Clients : d \in About(q)' <=> d = c /\ Commanding(c)'
  <2>1. ASSUME NEW d \in Clients \ {c} PROVE d \notin About(q) /\ (d \in About(q)' <=> d \in About(q))
    BY <1>1, <1>2, <2>1 DEF Follows, About, Touches, Only, Commanding
  <2>2. c \in About(q)' <=> Commanding(c)'
    BY DEF About, Touches
  <2> QED
    BY <2>1, <2>2
<1>5. About(q)' \subseteq Clients
  BY DEF About
<1>6. CASE Commanding(c)'
  <2>1. Amid(c, q)'
    BY <1>1, <1>3, <1>6
  <2>2. About(q)' = {c}
    BY <1>4, <1>5, <1>6
  <2> QED
    BY <1>3, <2>1, <2>2 DEF Follows
<1>7. CASE ~Commanding(c)'
  <2>1. Settled(q)'
    BY <1>1, <1>3, <1>7
  <2>2. About(q)' = {}
    BY <1>4, <1>5, <1>7
  <2> QED
    BY <2>1, <2>2 DEF Follows
<1> QED
  BY <1>6, <1>7

\* No directory and no plugin changes but those of q.
Leaves(q) ==
  /\ UNCHANGED daemon /\ excused \subseteq excused'
  /\ \A p \in Packages \ {q} : dir'[Name(p)] = dir[Name(p)]
  /\ \A p \in Packages \ {q} : Namespace(p) \in excused' \/ (p \in ToSet(loaded') <=> p \in ToSet(loaded))

LEMMA GoesOnTouches ==
  ASSUME KnownInv, MemoryInv, NEW c \in Clients, Commanding(c), NEW pc, pc \notin {"idle", "register", "save"},
         Goto(c, pc), Leaves(client[c].target)
  PROVE  Touches(c, client[c].target) /\ Becomes(c, pc) /\ Commanding(c)'
<1>1. Only(c) /\ Becomes(c, pc)
  BY GotoFacts DEF KnownInv, SuspensionInv
<1> QED
  BY <1>1 DEF Touches, Leaves, Becomes, Commanding, MemoryInv, CommandsOwn

LEMMA EndsTouches ==
  ASSUME KnownInv, MemoryInv, NEW c \in Clients, Commanding(c), Ends(c), Leaves(client[c].target)
  PROVE  Touches(c, client[c].target) /\ ~Commanding(c)'
<1>1. Only(c) /\ client'[c].pc = "idle"
  BY EndsFacts DEF KnownInv, SuspensionInv
<1> QED
  BY <1>1 DEF Touches, Leaves, Commanding

LEMMA StaysTouches ==
  ASSUME KnownInv, MemoryInv, NEW c \in Clients, Commanding(c), UNCHANGED client, Leaves(client[c].target)
  PROVE  Touches(c, client[c].target) /\ Becomes(c, client[c].pc) /\ Commanding(c)'
  BY DEF Touches, Leaves, Becomes, Commanding, MemoryInv, CommandsOwn, Only, Name, Namespace

\* Nothing but the client changes.
LEMMA LeavesAll ==
  ASSUME UNCHANGED <<daemon, dir, loaded, excused>>, NEW q
  PROVE  Leaves(q) /\ (Settled(q)' <=> Settled(q)) /\ (Full(q)' <=> Full(q))
  BY DEF Leaves, Settled, Full, Name

\* The namespace of the command is excused.
LEMMA TouchesExcused ==
  ASSUME MemoryInv, NEW c \in Clients, NEW q, Touches(c, q), ~Promised(q)'
  PROVE  MemoryInv'
  BY TouchesOne

\* What is not in the daemon and has no directory is settled.
LEMMA GoneSettled ==
  ASSUME NEW q, q \notin ToSet(loaded), UNCHANGED loaded, dir'[Name(q)] = NoDir
  PROVE  Settled(q)'
  BY DEF Settled, Full, Name

\* A complete package that can be installed is loaded.
LEMMA FullLoads ==
  ASSUME KnownInv, NEW p \in Packages, Full(p)
  PROVE  Loadable(p) /\ LoadPlugin(dir[Name(p)]) = {p}
<1>1. HoldsPart(dir[Name(p)], p) /\ dir[Name(p)] # NoDir /\ dir[Name(p)].parts = ToSet(Content[p])
  BY DEF Full, KnownInv, DirsKnown
<1>2. dir[Name(p)] = [pkg |-> p, parts |-> dir[Name(p)].parts] /\ Loadable(p)
  BY <1>1 DEF HoldsPart
<1>3. "manifest" \in dir[Name(p)].parts /\ Valid(Manifest[p])
  BY <1>1, <1>2 DEF Loadable
<1> QED
  BY <1>1, <1>2, <1>3, LoadPluginFacts

LEMMA BeginMemory ==
  ASSUME PluginsAssumption, KnownInv, MemoryInv, NEW c \in Clients, NEW p \in Packages,
         NEW pc \in {"check", "find"}, NEW identifier \in {Name(p), Namespace(p)},
         Begin(c, pc, p, identifier)
  PROVE  MemoryInv'
<1>1. /\ Only(c) /\ client[c].pc = "idle" /\ client'[c].pc = pc /\ client'[c].target = p
      /\ client'[c].identifier = identifier /\ client'[c].found = {}
      /\ UNCHANGED <<dir, daemon, loaded, entity, saved>>
  BY BeginFacts DEF KnownInv, SuspensionInv
<1>2. /\ excused \subseteq excused'
      /\ Namespace(p) \notin excused' => daemon # "scanning" /\ Namespace(p) \notin Concerned
  BY DEF Begin, Excuse
<1>3. ~Commanding(c) /\ Commanding(c)'
  BY <1>1 DEF Commanding
<1>4. Touches(c, p)
  BY <1>1, <1>2, <1>3 DEF Touches, Name, Namespace
<1>5. ASSUME Promised(p)' PROVE Follows(p)'
  <2>1. Promised(p) /\ daemon # "scanning" /\ Namespace(p) \notin Concerned
    BY <1>1, <1>2, <1>5 DEF Promised, Namespace
  <2>2. About(p) = {}
    <3>1. p # NoPlugin
      BY DEF PluginsAssumption
    <3> QED
      BY <2>1, <3>1 DEF About, Concerned, Busy, Commanding
  <2>3. Settled(p)'
    BY <1>1, <2>1, <2>2 DEF MemoryInv, Follows, Settled, Full, Name
  <2>4. About(p)' = {c}
    BY <1>1, <1>3, <2>2 DEF About, Only, Commanding
  <2>5. Amid(c, p)'
    BY <1>1, <2>3 DEF Amid
  <2> QED
    BY <1>1, <2>1, <2>4, <2>5 DEF Follows
<1> QED
  BY <1>4, <1>5, TouchesOne

LEMMA InstallMemory ==
  ASSUME PluginsAssumption, Distinct, KnownInv, MemoryInv, NEW c \in Clients,
         \/ InstallCommand(c) \/ InstallCheck(c) \/ InstallCopy(c) \/ InstallCopyFails(c)
         \/ InstallLoad(c) \/ InstallPlugin(c)
  PROVE  MemoryInv'
<1>p. PICK p : p = client[c].target
  OBVIOUS
<1> USE <1>p
<1>0. client[c].pc \notin {"idle", "register", "save"} => Commanding(c) /\ p \in Packages
  BY DEF KnownInv, SuspensionInv, Targeted, Commanding
<1>1. CASE InstallCommand(c)
  BY <1>1, BeginMemory DEF InstallCommand
<1>2. CASE InstallCheck(c)
  <2>1. client[c].pc = "check" /\ UNCHANGED <<daemon, dir, loaded, excused>> /\ Commanding(c) /\ p \in Packages
    BY <1>0, <1>2 DEF InstallCheck, At
  <2>2. Leaves(p) /\ (Settled(p)' <=> Settled(p))
    BY <2>1, LeavesAll
  <2>3. CASE Goto(c, "copy") /\ dir[Name(p)] = NoDir
    <3>1. Touches(c, p) /\ Becomes(c, "copy") /\ Commanding(c)'
      BY <2>1, <2>2, <2>3, GoesOnTouches
    <3>2. Amid(c, p) => Amid(c, p)'
      BY <2>1, <2>3, <3>1 DEF Amid, Becomes, Settled, Full
    <3> QED
      BY <2>1, <3>1, <3>2, Local, TouchesOne
  <2>4. CASE Ends(c)
    <3>1. Touches(c, p) /\ ~Commanding(c)'
      BY <2>1, <2>2, <2>4, EndsTouches
    <3>2. Amid(c, p) => Settled(p)'
      BY <2>1, <2>2 DEF Amid
    <3> QED
      BY <2>1, <3>1, <3>2, Local, TouchesOne
  <2> QED
    BY <1>2, <2>3, <2>4 DEF InstallCheck
<1>3. CASE InstallCopy(c)
  <2>1. client[c].pc = "copy" /\ UNCHANGED <<daemon, loaded, excused>> /\ Commanding(c) /\ p \in Packages
    BY <1>0, <1>3 DEF InstallCopy, At
  <2>2. /\ \A q \in Packages \ {p} : dir'[Name(q)] = dir[Name(q)]
        /\ \/ Goto(c, "load") /\ dir'[Name(p)] # NoDir /\ dir'[Name(p)].parts = ToSet(Content[p])
           \/ UNCHANGED client
    BY <1>3, CopyFacts
  <2>3. Leaves(p)
    BY <2>1, <2>2 DEF Leaves
  <2>4. CASE Goto(c, "load") /\ dir'[Name(p)] # NoDir /\ dir'[Name(p)].parts = ToSet(Content[p])
    <3>1. Touches(c, p) /\ Becomes(c, "load") /\ Commanding(c)'
      BY <2>1, <2>3, <2>4, GoesOnTouches
    <3>2. Full(p)'
      BY <2>4, <3>1 DEF Full, Name, Becomes
    <3>3. Amid(c, p) => Amid(c, p)'
      BY <2>1, <3>1, <3>2 DEF Amid, Becomes
    <3> QED
      BY <2>1, <3>1, <3>3, Local, TouchesOne
  <2>5. CASE UNCHANGED client
    <3>1. Touches(c, p) /\ Becomes(c, "copy") /\ Commanding(c)'
      BY <2>1, <2>3, <2>5, StaysTouches
    <3>2. Amid(c, p) => Amid(c, p)'
      BY <2>1, <3>1 DEF Amid, Becomes
    <3> QED
      BY <2>1, <3>1, <3>2, Local, TouchesOne
  <2> QED
    BY <2>2, <2>4, <2>5
<1>4. CASE InstallCopyFails(c)
  <2>1. /\ client[c].pc = "copy" /\ UNCHANGED <<daemon, loaded, excused>> /\ Commanding(c) /\ p \in Packages
        /\ dir' = [dir EXCEPT ![Name(p)] = NoDir] /\ Ends(c)
    BY <1>0, <1>4 DEF InstallCopyFails, At
  <2>2. dir'[Name(p)] = NoDir /\ \A q \in Packages \ {p} : dir'[Name(q)] = dir[Name(q)]
    BY <2>1, GoneFacts
  <2>3. Touches(c, p) /\ ~Commanding(c)'
    BY <2>1, <2>2, EndsTouches DEF Leaves
  <2>4. Amid(c, p) => Settled(p)'
    BY <2>1, <2>2, GoneSettled DEF Amid
  <2> QED
    BY <2>1, <2>3, <2>4, Local, TouchesOne
<1>5. CASE InstallLoad(c)
  <2>1. client[c].pc = "load" /\ UNCHANGED <<daemon, loaded, excused>> /\ Commanding(c) /\ p \in Packages
    BY <1>0, <1>5 DEF InstallLoad, At
  <2>2. CASE Full(p)
    <3>1. LoadPlugin(dir[Name(p)]) # {}
      BY <2>1, <2>2, FullLoads DEF KnownInv, CopiesLoadable
    <3>2. UNCHANGED dir /\ IF daemon = "up" THEN Goto(c, "handle") ELSE Ends(c)
      BY <1>5, <3>1 DEF InstallLoad
    <3>3. Leaves(p) /\ (Full(p)' <=> Full(p))
      BY <2>1, <3>2, LeavesAll
    <3>4. CASE daemon = "up"
      <4>1. Touches(c, p) /\ Becomes(c, "handle") /\ Commanding(c)'
        BY <2>1, <3>2, <3>3, <3>4, GoesOnTouches
      <4>2. Amid(c, p) => Amid(c, p)'
        BY <2>1, <2>2, <3>3, <4>1 DEF Amid, Becomes
      <4> QED
        BY <2>1, <4>1, <4>2, Local, TouchesOne
    <3>5. CASE daemon # "up"
      <4>1. Touches(c, p) /\ ~Commanding(c)'
        BY <2>1, <3>2, <3>3, <3>5, EndsTouches
      <4> QED
        BY <2>1, <3>5, <4>1, Local, TouchesOne
    <3> QED
      BY <3>4, <3>5
  <2>3. CASE ~Full(p)
    <3>1. \/ Ends(c) /\ dir' = [dir EXCEPT ![Name(p)] = NoDir]
          \/ UNCHANGED dir /\ (Goto(c, "handle") \/ Ends(c))
      BY <1>5 DEF InstallLoad
    <3>2. \A q \in Packages \ {p} : dir'[Name(q)] = dir[Name(q)]
      BY <2>1, <3>1, GoneFacts
    <3>3. Leaves(p)
      BY <2>1, <3>2 DEF Leaves
    <3>4. Touches(c, p)
      BY <2>1, <3>1, <3>3, GoesOnTouches, EndsTouches
    <3>5. ~Amid(c, p)
      BY <2>1, <2>3 DEF Amid
    <3> QED
      BY <2>1, <3>4, <3>5, Local, TouchesOne
  <2> QED
    BY <2>2, <2>3
<1>6. CASE InstallPlugin(c)
  <2>1. /\ client[c].pc = "handle" /\ UNCHANGED <<daemon, dir>> /\ Commanding(c) /\ p \in Packages
        /\ loaded \in Seq(Packages) /\ Ends(c)
    BY <1>0, <1>6 DEF InstallPlugin, At, KnownInv, ListsKnown
  <2>2. CASE LoadPlugin(dir[Name(p)]) = {} \/ Namespace(p) \in NamespacesOf(loaded)
    <3>1. UNCHANGED loaded /\ excused' = excused \union {Namespace(p)}
      BY <1>6, <2>2 DEF InstallPlugin, Excuse
    <3>2. Touches(c, p) /\ ~Commanding(c)'
      BY <2>1, <3>1, EndsTouches DEF Leaves
    <3>3. ~Promised(p)'
      BY <3>1 DEF Promised, Namespace
    <3> QED
      BY <3>2, <3>3, TouchesExcused
  <2>3. CASE ~(LoadPlugin(dir[Name(p)]) = {} \/ Namespace(p) \in NamespacesOf(loaded))
    <3>1. loaded' = Append(loaded, p) /\ UNCHANGED excused
      BY <1>6, <2>3 DEF InstallPlugin
    <3>2. ToSet(loaded') = ToSet(loaded) \union {p}
      BY <2>1, <3>1, AppendElements
    <3>3. Touches(c, p) /\ ~Commanding(c)'
      BY <2>1, <3>1, <3>2, EndsTouches DEF Leaves
    <3>4. Full(p)' <=> Full(p)
      BY <2>1, <3>3 DEF Full, Name
    <3>5. Amid(c, p) => Settled(p)'
      <4> SUFFICES ASSUME Amid(c, p) PROVE Settled(p)'
        OBVIOUS
      <4>1. Full(p)'
        BY <2>1, <3>4 DEF Amid
      <4> QED
        BY <3>2, <4>1 DEF Settled
    <3> QED
      BY <2>1, <3>3, <3>5, Local, TouchesOne
  <2> QED
    BY <2>2, <2>3
<1> QED
  BY <1>1, <1>2, <1>3, <1>4, <1>5, <1>6

\* An uninstall that has an identifier of its package finds no other one.
LEMMA FindsOwn ==
  ASSUME Distinct, NEW p \in Packages, NEW plugins \in Seq(Packages),
         NEW identifier \in {Name(p), Namespace(p)}
  PROVE  FindByIdentifier(plugins, identifier) = IF p \in ToSet(plugins) THEN {p} ELSE {}
<1> DEFINE has == {q \in ToSet(plugins) : identifier \in {Name(q), Namespace(q)}}
<1>1. \A q \in ToSet(plugins) : q \in Packages
  BY DEF ToSet
<1>2. has \subseteq {p}
  BY <1>1 DEF Distinct
<1>3. FindByIdentifier(plugins, identifier) \subseteq has
      /\ (FindByIdentifier(plugins, identifier) = {} => has = {})
  BY FindFirst
<1>4. p \in ToSet(plugins) => p \in has
  OBVIOUS
<1> QED
  BY <1>2, <1>3, <1>4

LEMMA FindMemory ==
  ASSUME PluginsAssumption, Distinct, KnownInv, MemoryInv, NEW c \in Clients, UninstallFind(c)
  PROVE  MemoryInv'
<1>p. PICK p : p = client[c].target
  OBVIOUS
<1> USE <1>p
<1>1. client[c].pc = "find" /\ UNCHANGED <<daemon, dir, loaded, excused>> /\ Commanding(c) /\ p \in Packages
  BY DEF UninstallFind, At, KnownInv, SuspensionInv, Targeted, Commanding
<1>2. /\ Only(c) /\ client'[c].pc = (IF daemon = "up" THEN "filter" ELSE "remove")
      /\ client'[c].identifier = client[c].identifier /\ client'[c].target = p
      /\ client'[c].found = FindByIdentifier(Discover, client[c].identifier)
  BY FindFacts DEF KnownInv, SuspensionInv
<1>3. client[c].identifier \in {Name(p), Namespace(p)}
  BY <1>1 DEF MemoryInv, CommandsOwn
<1>4. /\ Discover \in Seq(Packages)
      /\ p \in ToSet(Discover) <=>
           dir[Name(p)] # NoDir /\ "manifest" \in dir[Name(p)].parts /\ Valid(Manifest[p])
  BY <1>1, DiscoverFacts DEF KnownInv
<1>5. client'[c].found = IF p \in ToSet(Discover) THEN {p} ELSE {}
  BY <1>1, <1>2, <1>3, <1>4, FindsOwn
<1>6. Leaves(p) /\ (Settled(p)' <=> Settled(p))
  BY <1>1, LeavesAll
<1>7. Commanding(c)'
  BY <1>2 DEF Commanding
<1>8. Touches(c, p)
  BY <1>1, <1>2, <1>3, <1>5, <1>6, <1>7 DEF Touches, Leaves, Name, Namespace
<1>9. Amid(c, p) /\ daemon = "up" => Amid(c, p)'
  <2> SUFFICES ASSUME Amid(c, p), daemon = "up" PROVE Amid(c, p)'
    OBVIOUS
  <2>1. Settled(p) /\ client'[c].pc = "filter"
    BY <1>1, <1>2 DEF Amid
  <2>2. dir[Name(p)] # NoDir => p \in ToSet(Discover)
    <3>1. SUFFICES ASSUME Full(p) PROVE p \in ToSet(Discover)
      BY <2>1 DEF Settled
    <3> QED
      BY <1>1, <1>4, <3>1, FullLoads DEF Full, Loadable
  <2>3. client'[c].found = {} <=> dir'[Name(p)] = NoDir
    BY <1>1, <1>4, <1>5, <2>2
  <2> QED
    BY <1>6, <2>1, <2>3 DEF Amid, Name
<1> QED
  BY <1>1, <1>7, <1>8, <1>9, Local, TouchesOne

LEMMA FilterMemory ==
  ASSUME PluginsAssumption, Distinct, KnownInv, MemoryInv, NEW c \in Clients, UninstallFilter(c)
  PROVE  MemoryInv'
<1>p. PICK p : p = client[c].target
  OBVIOUS
<1> USE <1>p
<1>1. client[c].pc = "filter" /\ UNCHANGED <<daemon, dir, loaded>> /\ Commanding(c) /\ p \in Packages
  BY DEF UninstallFilter, At, KnownInv, SuspensionInv, Targeted, Commanding
<1>2. client[c].identifier \in {Name(p), Namespace(p)} /\ client[c].found \subseteq {p}
  BY <1>1 DEF MemoryInv, CommandsOwn
<1>3. FindByIdentifier(loaded, client[c].identifier) = IF p \in ToSet(loaded) THEN {p} ELSE {}
  BY <1>1, <1>2, FindsOwn DEF KnownInv, ListsKnown
<1>4. UNCHANGED excused => Leaves(p) /\ (Settled(p)' <=> Settled(p))
  BY <1>1, LeavesAll
<1>5. CASE p \notin ToSet(loaded)
  <2>1. Ends(c) /\ UNCHANGED excused
    BY <1>3, <1>5 DEF UninstallFilter
  <2>2. Touches(c, p) /\ ~Commanding(c)'
    BY <1>1, <1>4, <2>1, EndsTouches
  <2>3. Amid(c, p) => Settled(p)'
    BY <1>1, <1>4, <2>1 DEF Amid
  <2> QED
    BY <1>1, <2>2, <2>3, Local, TouchesOne
<1>6. CASE p \in ToSet(loaded)
  <2>1. /\ client' = [client EXCEPT ![c].pc = "replace", ![c].seen = loaded, ![c].target = p]
        /\ UNCHANGED excused
    BY <1>3, <1>6 DEF UninstallFilter, Excuse
  <2>2. /\ Only(c) /\ client'[c].pc = "replace" /\ client'[c].target = p
        /\ client'[c].identifier = client[c].identifier /\ client'[c].found = client[c].found
    BY <2>1, FilterFacts DEF KnownInv, SuspensionInv
  <2>3. Commanding(c)'
    BY <2>2 DEF Commanding
  <2>4. Touches(c, p)
    BY <1>1, <1>2, <2>1, <2>2, <2>3 DEF Touches, Name, Namespace
  <2>5. Amid(c, p) => Amid(c, p)'
    <3> SUFFICES ASSUME Amid(c, p) PROVE Amid(c, p)'
      OBVIOUS
    <3>1. Full(p) /\ (client[c].found = {} <=> dir[Name(p)] = NoDir)
      BY <1>1, <1>6 DEF Amid, Settled
    <3>2. client'[c].found = {p}
      BY <1>2, <2>2, <3>1 DEF Full
    <3> QED
      BY <2>2, <3>2 DEF Amid
  <2> QED
    BY <1>1, <2>3, <2>4, <2>5, Local, TouchesOne
<1> QED
  BY <1>5, <1>6

LEMMA ReplaceMemory ==
  ASSUME PluginsAssumption, Distinct, KnownInv, MemoryInv, NEW c \in Clients, UninstallReplace(c)
  PROVE  MemoryInv'
<1>p. PICK p : p = client[c].target
  OBVIOUS
<1> USE <1>p
<1>1. client[c].pc = "replace" /\ Commanding(c) /\ p \in Packages
  BY DEF UninstallReplace, At, KnownInv, SuspensionInv, Targeted, Commanding
<1>2. /\ Goto(c, "suspend") /\ excused \subseteq excused' /\ UNCHANGED <<dir, daemon>>
      /\ \A q \in Packages : Namespace(q) \in excused' \/
           (q \in ToSet(loaded') <=> q \in ToSet(loaded) /\ Namespace(q) # Namespace(p))
  BY ReplaceFacts
<1>3. \A q \in Packages \ {p} : Namespace(q) # Namespace(p)
  BY <1>1 DEF Distinct
<1>4. Leaves(p)
  BY <1>2, <1>3 DEF Leaves
<1>5. Touches(c, p) /\ Becomes(c, "suspend") /\ Commanding(c)'
  BY <1>1, <1>2, <1>4, GoesOnTouches
<1>6. Promised(p)' /\ Amid(c, p) => Amid(c, p)'
  <2> SUFFICES ASSUME Promised(p)', Amid(c, p) PROVE Amid(c, p)'
    OBVIOUS
  <2>1. p \notin ToSet(loaded')
    BY <1>1, <1>2 DEF Promised, Namespace
  <2>2. client'[c].found = {p} /\ client'[c].pc = "suspend"
    BY <1>1, <1>5 DEF Amid, Becomes
  <2> QED
    BY <2>1, <2>2 DEF Amid
<1> QED
  BY <1>1, <1>5, <1>6, Local, TouchesOne

\* The handler goes on, and neither the directory nor the list changes.
LEMMA ServesMemory ==
  ASSUME PluginsAssumption, KnownInv, MemoryInv, NEW c \in Clients, UninstallSuspend(c) \/ UninstallPersist(c)
  PROVE  MemoryInv'
<1>p. PICK p : p = client[c].target
  OBVIOUS
<1> USE <1>p
<1>1. /\ client[c].pc \in {"suspend", "persist"} /\ UNCHANGED <<daemon, dir, loaded, excused>>
      /\ Commanding(c) /\ p \in Packages
  BY DEF UninstallSuspend, UninstallPersist, At, KnownInv, SuspensionInv, Targeted, Commanding
<1>2. PICK pc \in {"persist", "remove"} : Goto(c, pc)
  BY DEF UninstallSuspend, UninstallPersist
<1>3. Leaves(p)
  BY <1>1, LeavesAll
<1>4. Touches(c, p) /\ Becomes(c, pc) /\ Commanding(c)'
  BY <1>1, <1>2, <1>3, GoesOnTouches
<1>5. Amid(c, p) => Amid(c, p)'
  BY <1>1, <1>4 DEF Amid, Becomes
<1> QED
  BY <1>1, <1>4, <1>5, Local, TouchesOne

LEMMA RemoveMemory ==
  ASSUME PluginsAssumption, KnownInv, MemoryInv, NEW c \in Clients, UninstallRemove(c)
  PROVE  MemoryInv'
<1>p. PICK p : p = client[c].target
  OBVIOUS
<1> USE <1>p
<1>1. client[c].pc = "remove" /\ UNCHANGED <<daemon, loaded, excused>> /\ Commanding(c) /\ p \in Packages
  BY DEF UninstallRemove, At, KnownInv, SuspensionInv, Targeted, Commanding
<1>2. client[c].found \subseteq {p}
  BY <1>1 DEF MemoryInv, CommandsOwn
<1>3. CASE Ends(c) /\ (UNCHANGED dir \/ dir' = [dir EXCEPT ![Name(p)] = NoDir])
  <2>1. \A q \in Packages \ {p} : dir'[Name(q)] = dir[Name(q)]
    BY <1>1, <1>3, GoneFacts
  <2>2. Touches(c, p) /\ ~Commanding(c)'
    BY <1>1, <1>3, <2>1, EndsTouches DEF Leaves
  <2>3. Amid(c, p) => Settled(p)'
    <3> SUFFICES ASSUME Amid(c, p) PROVE Settled(p)'
      OBVIOUS
    <3>1. p \notin ToSet(loaded) /\ client[c].found = {p}
      BY <1>1 DEF Amid
    <3>2. UNCHANGED dir => dir[Name(p)] = NoDir
      <4>1. SUFFICES ASSUME UNCHANGED dir, dir[Name(p)] # NoDir PROVE FALSE
        OBVIOUS
      <4>2. dir' = [dir EXCEPT ![Name(p)] = NoDir] \/ UNCHANGED client
        BY <3>1, <4>1 DEF UninstallRemove
      <4> QED
        BY <1>1, <1>3, <4>1, <4>2, GoneFacts, EndsTouches DEF Leaves, Touches, Commanding
    <3>3. dir'[Name(p)] = NoDir
      BY <1>1, <1>3, <3>2, GoneFacts
    <3> QED
      BY <1>1, <3>1, <3>3, GoneSettled
  <2> QED
    BY <1>1, <2>2, <2>3, Local, TouchesOne
<1>4. CASE UNCHANGED client /\ \A q \in Packages \ {p} : dir'[Name(q)] = dir[Name(q)]
  <2>1. Touches(c, p) /\ Becomes(c, "remove") /\ Commanding(c)'
    BY <1>1, <1>4, StaysTouches DEF Leaves
  <2>2. Amid(c, p) => Amid(c, p)'
    BY <1>1, <2>1 DEF Amid, Becomes
  <2> QED
    BY <1>1, <2>1, <2>2, Local, TouchesOne
<1>5. \/ Ends(c) /\ (UNCHANGED dir \/ dir' = [dir EXCEPT ![Name(p)] = NoDir])
      \/ /\ UNCHANGED client /\ dir[Name(p)] # NoDir
         /\ \E x \in dir[Name(p)].parts : dir' = [dir EXCEPT ![Name(p)].parts = @ \ {x}]
  BY <1>2, RemoveFacts
<1> QED
  BY <1>1, <1>3, <1>4, <1>5, LessFacts

\* A command that fails withdraws the promise about its namespace.
LEMMA FailsMemory ==
  ASSUME PluginsAssumption, KnownInv, MemoryInv, NEW c \in Clients, CommandFails(c)
  PROVE  MemoryInv'
<1>p. PICK p : p = client[c].target
  OBVIOUS
<1> USE <1>p
<1>1. /\ client[c].pc \notin {"idle", "register", "save"} /\ UNCHANGED <<daemon, dir, loaded>> /\ Ends(c)
      /\ excused' = excused \union {Namespace(p)}
  BY DEF CommandFails, Excuse
<1>2. Commanding(c)
  BY <1>1 DEF Commanding
<1>3. Touches(c, p)
  BY <1>1, <1>2, EndsTouches DEF Leaves
<1>4. ~Promised(p)'
  BY <1>1 DEF Promised, Namespace
<1> QED
  BY <1>3, <1>4, TouchesExcused

\* A registration is about no package.
LEMMA RegisterMemory ==
  ASSUME PluginsAssumption, KnownInv, MemoryInv, NEW c \in Clients, RegisterCommand(c) \/ Register(c)
  PROVE  MemoryInv'
<1>1. /\ UNCHANGED <<dir, daemon, loaded>> /\ excused \subseteq excused' /\ Only(c)
      /\ ~Commanding(c) /\ ~Commanding(c)'
  BY RegisterFacts, EndsFacts DEF RegisterCommand, Register, Excuse, At, KnownInv, SuspensionInv, Commanding
<1>2. Touches(c, NoPlugin)
  BY <1>1 DEF Touches
<1> QED
  BY <1>2, TouchesOne DEF PluginsAssumption

\* A suspension or a resumption is about no package, either.
LEMMA StatusMemory ==
  ASSUME PluginsAssumption, KnownInv, MemoryInv, NEW c \in Clients, StatusCommand(c) \/ StatusPersist(c)
  PROVE  MemoryInv'
<1>1. /\ UNCHANGED <<dir, daemon, loaded>> /\ excused \subseteq excused' /\ Only(c)
      /\ ~Commanding(c) /\ ~Commanding(c)'
  BY StatusFacts, EndsFacts DEF StatusCommand, StatusPersist, At, KnownInv, SuspensionInv, Commanding
<1>2. Touches(c, NoPlugin)
  BY <1>1 DEF Touches
<1> QED
  BY <1>2, TouchesOne DEF PluginsAssumption

\* What a directory holds is the package of its name.
LEMMA DirPackage ==
  ASSUME DirsKnown, NEW p \in Packages, dir[Name(p)] # NoDir
  PROVE  dir[Name(p)].pkg = p
<1>1. PICK d : d = dir[Name(p)]
  OBVIOUS
<1>2. d = [pkg |-> p, parts |-> d.parts]
  BY <1>1 DEF DirsKnown, HoldsPart
<1>3. d.pkg = p
  BY <1>2
<1> QED
  BY <1>1, <1>3

\* When the daemon starts, what it finds is what is complete: a directory that is not, or that
\* a command is at work on, is excused.
LEMMA StartMemory ==
  ASSUME PluginsAssumption, KnownInv, MemoryInv, Start
  PROVE  MemoryInv'
<1>1. /\ daemon' = "scanning" /\ UNCHANGED <<client, dir>> /\ loaded' = Discover
      /\ Concerned \subseteq excused'
      /\ \A n \in Names : dir[n] # NoDir /\ dir[n].parts # ToSet(Content[dir[n].pkg])
                            => Namespace(dir[n].pkg) \in excused'
  BY DEF Start
<1>2. DaemonType' /\ CommandsOwn'
  BY <1>1 DEF MemoryInv, DaemonType, CommandsOwn, Commanding, Name, Namespace
<1>3. ASSUME NEW p \in Packages, Promised(p)' PROVE Follows(p)'
  <2>1. Namespace(p) \notin excused'
    BY <1>3 DEF Promised, Namespace
  <2>2. About(p)' = {}
    <3>1. SUFFICES ASSUME NEW c \in Clients, Commanding(c), client[c].target = p PROVE FALSE
      BY <1>1 DEF About, Commanding
    <3>2. p # NoPlugin /\ client[c].pc # "idle"
      BY <3>1 DEF PluginsAssumption, Commanding
    <3> QED
      BY <1>1, <2>1, <3>1, <3>2 DEF Concerned, Busy
  <2>3. dir[Name(p)] = NoDir \/ Full(p)
    <3>1. SUFFICES ASSUME dir[Name(p)] # NoDir PROVE Full(p)
      OBVIOUS
    <3>2. dir[Name(p)].pkg = p /\ Name(p) \in Names
      BY <3>1, DirPackage DEF KnownInv, Names
    <3> QED
      BY <1>1, <2>1, <3>1, <3>2 DEF Full
  <2>4. p \in ToSet(Discover) <=>
          dir[Name(p)] # NoDir /\ "manifest" \in dir[Name(p)].parts /\ Valid(Manifest[p])
    BY DiscoverFacts DEF KnownInv
  <2>5. p \in ToSet(Discover) <=> Full(p)
    BY <2>3, <2>4, FullLoads DEF Full, Loadable
  <2>6. Settled(p)'
    BY <1>1, <2>3, <2>5 DEF Settled, Full, Name
  <2> QED
    BY <1>1, <2>2, <2>6 DEF Follows
<1> QED
  BY <1>2, <1>3 DEF MemoryInv

LEMMA LoadStateMemory ==
  ASSUME MemoryInv, LoadState
  PROVE  MemoryInv'
<1>1. daemon = "scanning" /\ daemon' = "up" /\ UNCHANGED <<dir, loaded, client, excused>>
  BY DEF LoadState
<1>2. DaemonType' /\ CommandsOwn'
  BY <1>1 DEF MemoryInv, DaemonType, CommandsOwn, Commanding, Name, Namespace
<1>3. ASSUME NEW p \in Packages, Promised(p)' PROVE Follows(p)'
  <2>1. About(p) = {} /\ Settled(p)
    BY <1>1, <1>3 DEF Promised, MemoryInv, Follows, Namespace
  <2>2. About(p)' = {} /\ Settled(p)'
    BY <1>1, <2>1 DEF About, Commanding, Settled, Full, Name
  <2> QED
    BY <1>1, <2>2 DEF Follows
<1> QED
  BY <1>2, <1>3 DEF MemoryInv

LEMMA StopMemory ==
  ASSUME KnownInv, MemoryInv, Stop
  PROVE  MemoryInv'
<1>1. daemon' = "down"
  BY DEF Stop
<1>2. ASSUME NEW c \in Clients, Commanding(c)' PROVE client'[c] = client[c]
  BY <1>2, StopFacts DEF KnownInv, SuspensionInv, Commanding
<1>3. CommandsOwn'
  BY <1>2 DEF MemoryInv, CommandsOwn, Commanding, Name, Namespace
<1> QED
  BY <1>1, <1>3 DEF MemoryInv, DaemonType, Promised

LEMMA SameMemory ==
  ASSUME MemoryInv, UNCHANGED vars
  PROVE  MemoryInv'
<1>1. ASSUME NEW p \in Packages, Promised(p)' PROVE Follows(p)'
  BY <1>1, FollowsSame DEF vars, MemoryInv, Promised, Namespace, About, Commanding
<1> QED
  BY <1>1 DEF vars, MemoryInv, DaemonType, CommandsOwn, Commanding, Name, Namespace

LEMMA MemoryStep == Distinct /\ KnownInv /\ MemoryInv /\ [Next]_vars => MemoryInv'
<1> SUFFICES ASSUME Distinct, KnownInv, MemoryInv, [Next]_vars PROVE MemoryInv'
  OBVIOUS
<1>1. ASSUME NEW c \in Clients, UninstallCommand(c) PROVE MemoryInv'
  BY <1>1, BeginMemory, PluginsAssumption DEF UninstallCommand
<1> QED
  BY <1>1, InstallMemory, FindMemory, FilterMemory, ReplaceMemory, ServesMemory, RemoveMemory,
     FailsMemory, RegisterMemory, StatusMemory, StartMemory, LoadStateMemory, StopMemory, SameMemory,
     PluginsAssumption DEF Next

LEMMA MemoryInit == Init => MemoryInv
<1>1. Init => \A c \in Clients : client[c].pc = "idle"
  BY IdleLists DEF Init
<1> QED
  BY <1>1 DEF Init, MemoryInv, DaemonType, CommandsOwn, Commanding, Promised

\* plugin.go and api.go:721-774: once the commands for a plugin are over, the daemon has it loaded
\* if and only if it is on disk, complete, whatever else is installed, uninstalled or registered
\* meanwhile and whenever the daemon starts, provided no identifier is that of two packages (a
\* namespace that two of them share makes recur uninstall take one for the other).
THEOREM MemoryAlwaysFollows ==
  ASSUME Distinct
  PROVE  Spec => []MemoryFollowsDisk
<1>1. KnownInv /\ MemoryInv => MemoryFollowsDisk
  <2> SUFFICES ASSUME KnownInv, MemoryInv, NEW ns \in Namespaces \ excused, Quiet(ns)
               PROVE  ns \in NamespacesOf(loaded) <=>
                        \E n \in Names : /\ dir[n] # NoDir /\ Namespace(dir[n].pkg) = ns
                                         /\ dir[n].parts = ToSet(Content[dir[n].pkg])
    BY DEF MemoryFollowsDisk
  <2>1. PICK p \in Packages : ns = Namespace(p)
    BY DEF Namespaces
  <2>2. \A q \in Packages : Namespace(q) = ns => q = p
    BY <2>1 DEF Distinct
  <2>3. Settled(p)
    <3>1. About(p) = {}
      BY <2>1 DEF About, Quiet, Busy, Commanding
    <3> QED
      BY <2>1, <3>1 DEF MemoryInv, Promised, Follows, Quiet
  <2>4. ns \in NamespacesOf(loaded) <=> p \in ToSet(loaded)
    <3>1. \A q \in ToSet(loaded) : q \in Packages
      BY DEF KnownInv, ListsKnown, ToSet
    <3> QED
      BY <2>1, <2>2, <3>1 DEF NamespacesOf
  <2>5. ASSUME NEW n \in Names, dir[n] # NoDir
        PROVE  dir[n].pkg \in Packages /\ n = Name(dir[n].pkg)
    <3>1. PICK q \in Packages : n = Name(q)
      BY DEF Names
    <3> QED
      BY <2>5, <3>1, DirPackage DEF KnownInv
  <2>6. dir[Name(p)] # NoDir => dir[Name(p)].pkg = p
    BY DirPackage DEF KnownInv
  <2>7. Name(p) \in Names
    BY DEF Names
  <2>8. Full(p) <=> \E n \in Names : /\ dir[n] # NoDir /\ Namespace(dir[n].pkg) = ns
                                     /\ dir[n].parts = ToSet(Content[dir[n].pkg])
    BY <2>1, <2>2, <2>5, <2>6, <2>7 DEF Full
  <2> QED
    BY <2>3, <2>4, <2>8 DEF Settled
<1>2. KnownInv /\ MemoryInv /\ [Next]_vars => (KnownInv /\ MemoryInv)'
  BY KnownStep, MemoryStep
<1> QED
  BY <1>1, <1>2, KnownInit, MemoryInit, PTL DEF Spec
=============================================================================
