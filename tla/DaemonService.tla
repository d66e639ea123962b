---------------------------- MODULE DaemonService -----------------------------
(***************************************************************************)
(* The daemon around the engine: the gRPC handlers that change something   *)
(* (src/app/recurd/daemon/api.go), the engine's callbacks and the life of  *)
(* the process (daemon.go), and the registry as they see it (registry.go). *)
(*                                                                         *)
(* A handler changes the registry, then the engine, then the state file,   *)
(* each step under a lock of its own.  "task" says where every goroutine   *)
(* is; Main is the one of Daemon.Run.  The engine is the set of keys of    *)
(* e.active; TriggerEngine models the rest of it.  Of the registry, the    *)
(* recurfiles and the status of their triggers are kept; actions are       *)
(* suspended and saved the same way and have no driver.                    *)
(*                                                                         *)
(* A definition whose comment begins with "Mutant of" is no part of the    *)
(* specification; see TriggerEngine.                                       *)
(***************************************************************************)
EXTENDS StateFile

CONSTANTS
  Files,     \* recurfiles
  Triggers,  \* trigger IDs
  FileOf,    \* the recurfile that may contain a trigger: IDs are made from its path
  Dependent, \* the triggers of the plugin that may be uninstalled
  Apps,      \* the recurfiles in the app folder
  Handlers,  \* goroutines that serve requests and callbacks
  Main,      \* the goroutine of Daemon.Run
  MaxTask,   \* bound: requests and callbacks
  MaxTrouble \* bound: crashes, saves that fail and changes of a recurfile by the user

ASSUME ServiceAssumption ==
  /\ Files # {}
  /\ FileOf \in [Triggers -> Files]
  /\ Dependent \subseteq Triggers
  /\ Apps \subseteq Files
  /\ Writers = Handlers \union {Main}
  /\ Main \notin Handlers
  /\ {MaxTask, MaxTrouble} \subseteq Nat

VARIABLES
  life,       \* where Daemon.Run is
  registered, \* registry.recurfiles
  status,     \* status of every trigger of the registry, "none" if it has no such trigger
  installed,  \* whether the plugin is in d.plugins
  active,     \* keys of the engine's active map
  loops,      \* dispatch loops of every trigger that may still report an error
  task,       \* what every goroutine is doing
  content,    \* triggers every recurfile contains on disk
  unreadable, \* recurfiles that are missing or do not parse
  begun, trouble, \* what the bounds count
  excused,      \* history: triggers whose requests overlapped or failed to activate
  acknowledged, \* history: triggers whose last request was a successful suspend
  lossy         \* history: the daemon has loaded a doubtful state file

registry == <<registered, status, installed>>
engine   == <<active, loops>>
disk     == <<content, unreadable>>
history  == <<excused, acknowledged, lossy>>
vars     == <<fileVars, life, registry, engine, task, disk, begun, trouble, history>>

Statuses == {"active", "suspended", "error"}

TriggersOf(f) == {t \in Triggers : FileOf[t] = f}
Known         == {t \in Triggers : status[t] # "none"}

NoTrigger == [t \in Triggers |-> "none"]

\* registry.snapshot
Snapshot == [files |-> registered, status |-> status]

Snapshots == [files : SUBSET Files, status : [Triggers -> Statuses \union {"none"}]]

\* What does not parse is no snapshot, nor is a file that does not exist.
ASSUME SnapshotAssumption == {Torn, NoFile} \intersect Snapshots = {}

-----------------------------------------------------------------------------
(* Tasks. *)

Idle == [pc |-> "idle", kind |-> "none", file |-> CHOOSE f \in Files : TRUE, touches |-> {},
         parsed |-> {}, todo |-> {}, held |-> {}]

Kinds == {"none", "register", "deregister", "suspend", "resume", "uninstall", "error", "fired",
          "startup", "shutdown"}

Busy == {p \in Writers : task[p].pc # "idle"}

Requests == {p \in Busy : task[p].kind \notin {"error", "fired", "startup", "shutdown"}}

TypeOK ==
  /\ canonical \in Inodes \union {NoInode}
  /\ DOMAIN tmp \subseteq 1..MaxStamp /\ Range(tmp) \subseteq Inodes
  /\ data \in [Inodes -> Snapshots \union {Torn}]
  /\ save \in [Writers -> [pc : {"none", "open", "write", "rename"},
                           snapshot : Snapshots \union {NoFile},
                           stamp : 0..MaxStamp, inode : Inodes \union {NoInode}, alone : BOOLEAN]]
  /\ doubtful \in BOOLEAN
  /\ life \in {"down", "clean", "load", "scan", "start", "up", "stopping", "stopped"}
  /\ registered \subseteq Files
  /\ status \in [Triggers -> Statuses \union {"none"}]
  /\ \A t \in Known : FileOf[t] \in registered
  /\ installed \in BOOLEAN
  /\ active \subseteq Triggers
  /\ loops \in [Triggers -> Nat]
  /\ task \in [Writers -> [pc : {"idle", "register", "list", "get", "activate", "deactivate",
                                 "remove", "mark", "snapshot", "save", "serve", "exit"},
                           kind : Kinds, file : Files, touches : SUBSET Triggers,
                           parsed : SUBSET Triggers, todo : SUBSET Triggers,
                           held : SUBSET Triggers]]
  /\ content \in [Files -> SUBSET Triggers]
  /\ unreadable \subseteq Files
  /\ excused \subseteq Triggers /\ acknowledged \subseteq Triggers
  /\ lossy \in BOOLEAN

Init ==
  /\ FileInit
  /\ life = "down"
  /\ registered = {} /\ status = NoTrigger /\ installed = FALSE
  /\ active = {} /\ loops = [t \in Triggers |-> 0]
  /\ task = [p \in Writers |-> Idle]
  /\ content = [f \in Files |-> TriggersOf(f)]
  /\ unreadable = {}
  /\ begun = 0 /\ trouble = 0
  /\ excused = {} /\ acknowledged = {} /\ lossy = FALSE

-----------------------------------------------------------------------------
(* What a step does to the engine and to the task that takes it. *)

EngineStopped == life \in {"stopping", "stopped"}

\* Mutant of ActivateTrigger: the engine does not look whether it was stopped.
ActivateTriggerAnyway(t) ==
  /\ active' = active \union {t}
  /\ loops' = [loops EXCEPT ![t] = IF t \in active THEN @ ELSE @ + 1]
  /\ UNCHANGED excused

\* Engine.Activate: a stopped engine refuses, an active trigger is left alone, and the
\* plugin may fail to start.  Every handler only logs the error.
ActivateTrigger(t) ==
  \/ /\ EngineStopped \/ t \in active
     /\ UNCHANGED <<engine, excused>>
  \/ /\ ~EngineStopped /\ t \notin active
     /\ active' = active \union {t}
     /\ loops' = [loops EXCEPT ![t] = @ + 1]
     /\ UNCHANGED excused
  \/ /\ ~EngineStopped /\ t \notin active
     /\ excused' = excused \union {t}
     /\ UNCHANGED engine

\* Engine.Deactivate
DeactivateTrigger(t) ==
  /\ active' = active \ {t}
  /\ UNCHANGED loops

\* Where a handler continues after its loop of Deactivate calls.
AfterDeactivate(kind) ==
  CASE kind = "register"   -> "list"
    [] kind = "deregister" -> "remove"
    [] OTHER               -> "snapshot"

AfterActivate(kind) == IF kind = "startup" THEN "serve" ELSE "snapshot"

DeactivateAll(k, ts) ==
  [k EXCEPT !.pc = IF ts = {} THEN AfterDeactivate(k.kind) ELSE "deactivate", !.todo = ts]

ActivateAll(k, ts) ==
  [k EXCEPT !.pc = IF ts = {} THEN AfterActivate(k.kind) ELSE "activate", !.todo = ts]

Become(p, k) == task' = [task EXCEPT ![p] = k]

\* A request or callback of the given kind begins in a goroutine of its own.
Begin(p, kind, touches) ==
  LET busyWith == UNION {task[q].touches : q \in Busy} IN
  /\ task[p] = Idle
  /\ begun < MaxTask
  /\ begun' = begun + 1
  /\ excused' = excused \union (touches \intersect busyWith)
  /\ acknowledged' = IF kind \in {"register", "resume", "deregister"} THEN acknowledged \ touches
                     ELSE acknowledged
  /\ UNCHANGED <<fileVars, life, disk, trouble, lossy>>

Trouble ==
  /\ trouble < MaxTrouble
  /\ trouble' = trouble + 1

Serving == life \in {"up", "stopping"}

NewTask(kind, touches) == [Idle EXCEPT !.kind = kind, !.touches = touches]

-----------------------------------------------------------------------------
(* Requests: what each does to the registry first. *)

\* RegisterRecurfile: the file is read before the registry is locked.
RegisterRecurfile(p, f) ==
  /\ Serving
  /\ f \notin unreadable
  /\ Begin(p, "register", TriggersOf(f))
  /\ Become(p, [NewTask("register", TriggersOf(f)) EXCEPT
                  !.pc = "register", !.file = f, !.parsed = content[f]])
  /\ UNCHANGED <<registry, engine>>

\* registerResolved: the old entities of the file go, all new triggers are active.
Registered(st, f, ts) ==
  [t \in Triggers |-> IF FileOf[t] # f THEN st[t] ELSE IF t \in ts THEN "active" ELSE "none"]

\* Whoever holds a pointer to a trigger of f now holds an object that is in no registry.
Forget(f) == [p \in Writers |-> [task[p] EXCEPT !.held = @ \ TriggersOf(f)]]

\* Mutant of RegisterResolved: the reload deactivates the triggers that are still there.
RegisterResolvedKeepsOld(p) ==
  LET f   == task[p].file
      old == {t \in Known : FileOf[t] = f} IN
  /\ task[p].pc = "register"
  /\ registered' = registered \union {f}
  /\ status' = Registered(status, f, task[p].parsed)
  /\ task' = [Forget(f) EXCEPT ![p] = DeactivateAll(task[p], old \intersect task[p].parsed)]
  /\ UNCHANGED <<fileVars, life, installed, engine, disk, begun, trouble, history>>

RegisterResolved(p) ==
  LET f   == task[p].file
      old == {t \in Known : FileOf[t] = f} IN
  /\ task[p].pc = "register"
  /\ registered' = registered \union {f}
  /\ status' = Registered(status, f, task[p].parsed)
  /\ task' = [Forget(f) EXCEPT ![p] = DeactivateAll(task[p], old)]
  /\ UNCHANGED <<fileVars, life, installed, engine, disk, begun, trouble, history>>

\* listTriggers: pointers to the triggers, of which the recurfile's own are used.
ListTriggers(p) ==
  LET mine == IF task[p].kind = "startup" THEN Known
              ELSE {t \in Known : FileOf[t] = task[p].file} IN
  /\ task[p].pc = "list"
  /\ Become(p, ActivateAll([task[p] EXCEPT !.held = mine], mine))
  /\ UNCHANGED <<fileVars, life, registry, engine, disk, begun, trouble, history>>

\* DeregisterRecurfile: triggerIDsForRecurfile, nothing for a file that is not registered.
DeregisterRecurfile(p, f) ==
  /\ Serving
  /\ Begin(p, "deregister", TriggersOf(f))
  /\ Become(p, DeactivateAll([NewTask("deregister", TriggersOf(f)) EXCEPT !.file = f],
                             {t \in Known : FileOf[t] = f}))
  /\ UNCHANGED <<registry, engine>>

\* Mutant of DeregisterResolved: the removal is not saved.
DeregisterResolvedUnsaved(p) ==
  LET f == task[p].file IN
  /\ task[p].pc = "remove"
  /\ registered' = registered \ {f}
  /\ status' = Registered(status, f, {})
  /\ task' = [Forget(f) EXCEPT ![p] = Idle]
  /\ UNCHANGED <<fileVars, life, installed, engine, disk, begun, trouble, history>>

\* deregisterRecurfile: not found if somebody else was faster.
DeregisterResolved(p) ==
  LET f == task[p].file IN
  /\ task[p].pc = "remove"
  /\ registered' = registered \ {f}
  /\ status' = Registered(status, f, {})
  /\ task' = [Forget(f) EXCEPT ![p] = IF f \in registered THEN [task[p] EXCEPT !.pc = "snapshot"]
                                      ELSE Idle]
  /\ UNCHANGED <<fileVars, life, installed, engine, disk, begun, trouble, history>>

SuspendTrigger(p, t) ==
  /\ Serving
  /\ t \in Known
  /\ Begin(p, "suspend", {t})
  /\ status' = [status EXCEPT ![t] = "suspended"]
  /\ Become(p, DeactivateAll(NewTask("suspend", {t}), {t}))
  /\ UNCHANGED <<registered, installed, engine>>

\* ResumeTrigger leaves the engine alone if the trigger was active.
ResumeTrigger(p, t) ==
  /\ Serving
  /\ t \in Known
  /\ Begin(p, "resume", {t})
  /\ status' = [status EXCEPT ![t] = "active"]
  /\ Become(p, [NewTask("resume", {t}) EXCEPT
                  !.pc = IF status[t] = "active" THEN "snapshot" ELSE "get"])
  /\ UNCHANGED <<registered, installed, engine>>

\* GetTrigger: it may be gone by now.
ResumeGet(p) ==
  /\ task[p].pc = "get"
  /\ Become(p, ActivateAll(task[p], task[p].touches \intersect Known))
  /\ UNCHANGED <<fileVars, life, registry, engine, disk, begun, trouble, history>>

\* UninstallPlugin: suspendByPluginID; nothing is saved if nothing was suspended.
UninstallPlugin(p) ==
  LET ts == {t \in Known \intersect Dependent : status[t] # "suspended"} IN
  /\ Serving
  /\ installed
  /\ installed' = FALSE
  /\ Begin(p, "uninstall", Dependent)
  /\ status' = [t \in Triggers |-> IF t \in ts THEN "suspended" ELSE status[t]]
  /\ Become(p, IF ts = {} THEN Idle ELSE DeactivateAll(NewTask("uninstall", Dependent), ts))
  /\ UNCHANGED <<registered, engine>>

-----------------------------------------------------------------------------
(* The engine's callbacks.  A dispatch loop whose channel is closed calls     *)
(* onTriggerError; the channel is closed by a crash and by Deactivate itself. *)

OnTriggerError(p, t) ==
  /\ loops[t] > 0
  /\ Begin(p, "error", {t})
  /\ loops' = [loops EXCEPT ![t] = @ - 1]
  /\ Become(p, IF t \notin Known THEN Idle
               ELSE [NewTask("error", {t}) EXCEPT !.pc = "mark", !.held = {t}])
  /\ UNCHANGED <<registry, active>>

\* The threshold is reached or not: the count and the threshold are left out.  The
\* pointer may be to a trigger that is no longer in the registry.
MarkError(p) ==
  /\ task[p].pc = "mark"
  /\ \/ /\ status' = [t \in Triggers |-> IF t \in task[p].held THEN "error" ELSE status[t]]
        /\ Become(p, DeactivateAll(task[p], task[p].touches))
     \/ /\ UNCHANGED status
        /\ Become(p, [task[p] EXCEPT !.pc = "snapshot"])
  /\ UNCHANGED <<fileVars, life, registered, installed, engine, disk, begun, trouble, history>>

\* onFired after an event, and an action that reaches its threshold: both only save.
OnFired(p) ==
  /\ \E t \in Triggers : loops[t] > 0
  /\ Begin(p, "fired", {})
  /\ Become(p, [NewTask("fired", {}) EXCEPT !.pc = "snapshot"])
  /\ UNCHANGED <<registry, engine>>

-----------------------------------------------------------------------------
(* The steps all tasks share. *)

DeactivateNext(p) ==
  /\ task[p].pc = "deactivate"
  /\ \E t \in task[p].todo :
       /\ DeactivateTrigger(t)
       /\ Become(p, DeactivateAll(task[p], task[p].todo \ {t}))
  /\ UNCHANGED <<fileVars, life, registry, disk, begun, trouble, history>>

\* ResumeTrigger activates what it has found; the others look at the status once more,
\* through a pointer: an object that has left the registry may say anything.
ActivateNext(p) ==
  /\ task[p].pc = "activate"
  /\ \E t \in task[p].todo :
       /\ \/ /\ \/ task[p].kind = "resume"
                \/ t \notin task[p].held
                \/ status[t] = "active"
             /\ ActivateTrigger(t)
          \/ /\ task[p].kind # "resume"
             /\ t \in task[p].held => status[t] # "active"
             /\ UNCHANGED <<engine, excused>>
       /\ Become(p, ActivateAll(task[p], task[p].todo \ {t}))
  /\ UNCHANGED <<fileVars, life, registry, disk, begun, trouble, acknowledged, lossy>>

\* saveState: the snapshot of the registry, then the file.
TakeSnapshot(p) ==
  /\ task[p].pc = "snapshot"
  /\ SaveBegin(p, Snapshot)
  /\ Become(p, [task[p] EXCEPT !.pc = "save"])
  /\ UNCHANGED <<life, registry, engine, disk, begun, trouble, history>>

WriteSnapshot(p) ==
  /\ task[p].pc = "save"
  /\ SaveStep(p)
  /\ UNCHANGED <<life, registry, engine, task, disk, begun, trouble, history>>

\* The task returns whether or not the file could be written.
Saved(p) ==
  LET k == task[p] IN
  /\ k.pc = "save"
  /\ \/ RenameTemp(p) /\ UNCHANGED trouble
     \/ SaveFails(p) /\ Trouble
  /\ Become(p, CASE k.kind = "startup"  -> [k EXCEPT !.pc = "list"]
                 [] k.kind = "shutdown" -> [k EXCEPT !.pc = "exit"]
                 [] OTHER               -> Idle)
  /\ acknowledged' = IF k.kind = "suspend" THEN acknowledged \union (k.touches \ excused)
                     ELSE acknowledged
  /\ UNCHANGED <<life, registry, engine, disk, begun, excused, lossy>>

-----------------------------------------------------------------------------
(* The life of the process: Daemon.Run. *)

\* statejsonfile.Recover, in two steps, and pluginfs.Discover.
Boot ==
  /\ life = "down"
  /\ Promote
  /\ life' = "clean"
  /\ installed' = TRUE
  /\ UNCHANGED <<registered, status, engine, task, disk, begun, trouble, history>>

RemoveTemps ==
  /\ life = "clean"
  /\ CleanUp
  /\ life' = "load"
  /\ UNCHANGED <<registry, engine, task, disk, begun, trouble, history>>

\* The triggers of readable recurfiles.
OnDisk == {t \in Triggers : FileOf[t] \notin unreadable /\ t \in content[FileOf[t]]}

\* Mutant of LoadState: the recurfiles are registered, their states are not restored.
LoadStateFresh ==
  LET saved == IF Load \in {Torn, NoFile} THEN [files |-> {}, status |-> NoTrigger] ELSE Load IN
  /\ life = "load"
  /\ registered' = saved.files \ unreadable
  /\ status' = [t \in Triggers |-> IF FileOf[t] \notin saved.files \/ t \notin OnDisk THEN "none"
                                   ELSE "active"]
  /\ lossy' = (lossy \/ doubtful)
  /\ acknowledged' = acknowledged \intersect OnDisk
  /\ life' = "scan"
  /\ UNCHANGED <<fileVars, installed, engine, task, disk, begun, trouble, excused>>

\* loadState: the recurfiles are parsed anew, an unreadable one is skipped, and states are
\* restored by trigger ID.  A file that does not parse leaves the registry empty.
LoadState ==
  LET saved == IF Load \in {Torn, NoFile} THEN [files |-> {}, status |-> NoTrigger] ELSE Load IN
  /\ life = "load"
  /\ registered' = saved.files \ unreadable
  /\ status' = [t \in Triggers |-> IF FileOf[t] \notin saved.files \/ t \notin OnDisk THEN "none"
                                   ELSE IF saved.status[t] = "none" THEN "active"
                                   ELSE saved.status[t]]
  /\ lossy' = (lossy \/ doubtful)
  /\ acknowledged' = acknowledged \intersect OnDisk
  /\ life' = "scan"
  /\ UNCHANGED <<fileVars, installed, engine, task, disk, begun, trouble, excused>>

\* scanAppFolder, and the launch arguments are saved.
ScanAppFolder ==
  LET new == (Apps \ registered) \ unreadable IN
  /\ life = "scan"
  /\ registered' = registered \union new
  /\ status' = [t \in Triggers |-> IF FileOf[t] \in new /\ t \in OnDisk THEN "active"
                                   ELSE status[t]]
  /\ life' = "start"
  /\ Become(Main, [NewTask("startup", {}) EXCEPT !.pc = "snapshot"])
  /\ UNCHANGED <<fileVars, installed, engine, disk, begun, trouble, history>>

\* All triggers are activated: the server takes requests.
Serve ==
  /\ task[Main].pc = "serve"
  /\ life' = "up"
  /\ Become(Main, Idle)
  /\ UNCHANGED <<fileVars, registry, engine, disk, begun, trouble, history>>

\* A signal: StopAll.
StopAll ==
  /\ life = "up"
  /\ active' = {}
  /\ life' = "stopping"
  /\ UNCHANGED <<fileVars, registry, loops, task, disk, begun, trouble, history>>

\* GracefulStop waits for the requests, not for the callbacks; then saveState.
SrvStop ==
  /\ life = "stopping"
  /\ Requests = {}
  /\ life' = "stopped"
  /\ Become(Main, [NewTask("shutdown", {}) EXCEPT !.pc = "snapshot"])
  /\ UNCHANGED <<fileVars, registry, engine, disk, begun, trouble, history>>

\* The process is gone: only files stay.
Die ==
  /\ FileCrash
  /\ life' = "down"
  /\ registered' = {} /\ status' = NoTrigger /\ installed' = FALSE
  /\ active' = {} /\ loops' = [t \in Triggers |-> 0]
  /\ task' = [p \in Writers |-> Idle]
  /\ excused' = {}
  /\ UNCHANGED <<disk, begun, acknowledged, lossy>>

Exit ==
  /\ task[Main].pc = "exit"
  /\ Die
  /\ UNCHANGED trouble

Crash ==
  /\ life # "down"
  /\ Trouble
  /\ Die

-----------------------------------------------------------------------------
(* The user edits, removes or restores a recurfile. *)

EditRecurfile(f) ==
  /\ Trouble
  /\ \/ /\ content' \in {[content EXCEPT ![f] = ts] : ts \in SUBSET TriggersOf(f)}
        /\ unreadable' = unreadable \ {f}
     \/ /\ unreadable' = unreadable \union {f}
        /\ UNCHANGED content
  /\ UNCHANGED <<fileVars, life, registry, engine, task, begun, history>>

-----------------------------------------------------------------------------

TaskStep(p) ==
  \/ RegisterResolved(p) \/ ListTriggers(p) \/ DeregisterResolved(p) \/ ResumeGet(p)
  \/ MarkError(p) \/ DeactivateNext(p) \/ ActivateNext(p)
  \/ TakeSnapshot(p) \/ WriteSnapshot(p) \/ Saved(p)

MainStep == Boot \/ RemoveTemps \/ LoadState \/ ScanAppFolder \/ Serve \/ SrvStop \/ Exit

Request(p) ==
  \/ \E f \in Files : RegisterRecurfile(p, f) \/ DeregisterRecurfile(p, f)
  \/ \E t \in Triggers : SuspendTrigger(p, t) \/ ResumeTrigger(p, t)
  \/ UninstallPlugin(p)

Callback(p) == OnFired(p) \/ \E t \in Triggers : OnTriggerError(p, t)

Next ==
  \/ \E p \in Handlers : Request(p) \/ Callback(p)
  \/ \E p \in Writers : TaskStep(p)
  \/ MainStep
  \/ StopAll
  \/ Crash
  \/ \E f \in Files : EditRecurfile(f)

Spec == Init /\ [][Next]_vars

-----------------------------------------------------------------------------
(* Correctness. *)

Quiescent == life = "up" /\ Busy = {}

\* When nobody is at work, exactly the active triggers have a driver, unless requests for
\* the same trigger overlapped or its plugin did not start: a reload stops what the new
\* file no longer has, an error stops what it marks, a restart starts what was active.
EngineFollowsRegistry ==
  Quiescent => \A t \in Triggers \ excused : t \in active <=> status[t] = "active"

\* When nobody is at work, a restart would read the registry as it is, unless saves
\* overlapped or failed since a save last had the file to itself: whatever a request
\* or a callback changes, it saves.
FileFollowsRegistry == Quiescent /\ ~doubtful => RestartReads = Snapshot

\* An acknowledged suspension lasts until somebody resumes the trigger or registers or
\* deregisters its file, over crashes, restarts and edits, as long as every restart finds
\* the trigger in its recurfile and no doubtful state file is loaded.
SuspensionSurvives == lossy \/ \A t \in acknowledged : status[t] # "active"

\* No request that was in progress when the engine stopped starts a driver afterwards.
StoppedStaysEmpty == EngineStopped => active = {}

-----------------------------------------------------------------------------
(* What the documents say and the code does not do (README, section 6); no *)
(* configuration lists it.                                                 *)

\* daemon-lifecycle.md:20: "atomic writes prevent corruption".
NeverCorrupt == life = "load" => Load # Torn

\* daemon-lifecycle.md:32: on a crash and restart "suspended triggers stay suspended".
SuspendedStaysSuspended == \A t \in acknowledged : status[t] # "active"
=============================================================================
