------------------------------ MODULE Lifecycle ------------------------------
(***************************************************************************)
(* The processes: daemons from their start to their end (Run of            *)
(* src/app/recurd/daemon/daemon.go), the PID file (src/infra/os/process),  *)
(* the socket (src/infra/grpc), the commands start, stop and restart, and  *)
(* the app commands that talk to whichever daemon the socket leads to      *)
(* (src/app/recur/cli).                                                    *)
(*                                                                         *)
(* A process has the identifier of no earlier one.  The state file is      *)
(* replaced in one step here; StateFile has the steps.                     *)
(*                                                                         *)
(* A definition whose comment begins with "Mutant of" is no part of the    *)
(* model: it is a plausible mistake that a property must notice.           *)
(***************************************************************************)
EXTENDS AppFolder

CONSTANTS
  Operators,  \* users of start, stop and restart
  Installers, \* users of app install and app remove
  Patient,    \* they wait for a daemon to be up, and a start waits for the other commands
  NoPid, NoState,
  MaxPid,     \* bound: processes
  MaxCrashes  \* bound: crashes

ASSUME LifecycleAssumption ==
  MaxPid \in Nat /\ MaxCrashes \in Nat /\ Patient \in BOOLEAN /\ NoPid \notin 1..MaxPid

VARIABLES
  proc,    \* every process: where Run is, what is registered, whether SIGTERM came and
           \* whether a call of TestTrigger or TestAction is in progress
  pidFile, \* the process the PID file names
  socket,  \* the process that the socket in the file system leads to
  saved,   \* the state file: registered recurfiles, and whether the daemon was in the foreground
  ctl,     \* the command of every operator
  inst,    \* the command of every installer
  crashes, \* crashes so far
  replaced, \* history: recurfiles that an install has removed while they were known
  final    \* history: what the daemon knew whose Run was the last to return, until the next
           \* daemon is launched (a set of one state, or none)

vars == <<apps, proc, pidFile, socket, saved, ctl, inst, crashes, replaced, final>>

Pids  == 1..MaxPid
Paths == Apps \X UNION {DOMAIN b : b \in Bundles}

-----------------------------------------------------------------------------

Booting == {"load", "readDir", "scan", "writePID", "saveArgs", "clean", "listen", "activate", "notify"}
Ending  == {"closeListener", "graceful", "saveExit", "removePID"}

Unborn ==
  [pc |-> "unborn", registered |-> {}, names |-> {}, foreground |-> FALSE, term |-> FALSE, testing |-> FALSE]

\* Run has returned, or the process was ended by a crash or by a signal it did not wait for.
Exited == [Unborn EXCEPT !.pc = "exited"]
Killed == [Unborn EXCEPT !.pc = "killed"]

NoCtl  == [pc |-> "idle", restart |-> FALSE, pid |-> NoPid]
NoInst == [pc |-> "idle", app |-> None, bundle |-> NoDir, path |-> None, server |-> NoPid]

Alive(p)     == proc[p].pc \in Booting \union Ending \union {"serving"}
Accepting(p) == proc[p].pc \in {"notify", "serving"}

\* Somebody accepts connections behind the socket.
Reachable == socket # NoPid /\ Accepting(socket)

\* A call of a client that the process is working on.
Working(p) ==
  proc[p].testing \/ \E i \in Installers : inst[i].server = p /\ inst[i].pc \in {"handle", "saveState"}

Init ==
  /\ apps = [a \in Apps |-> NoDir]
  /\ proc = [p \in Pids |-> Unborn]
  /\ pidFile = NoPid
  /\ socket = NoPid
  /\ saved = NoState
  /\ ctl = [o \in Operators |-> NoCtl]
  /\ inst = [i \in Installers |-> NoInst]
  /\ crashes = 0
  /\ replaced = {}
  /\ final = {}

-----------------------------------------------------------------------------
(* A daemon. *)

Step(p, from, to) == proc[p].pc = from /\ proc' = [proc EXCEPT ![p].pc = to]

\* loadState: what can still be loaded is registered again, the rest is forgotten.
LoadState(p) ==
  /\ proc[p].pc = "load"
  /\ proc' = [proc EXCEPT ![p].pc = "readDir",
                          ![p].registered = IF saved = NoState THEN {} ELSE {f \in saved.paths : Loads(f)}]
  /\ UNCHANGED <<apps, pidFile, socket, saved, ctl, inst, crashes, replaced, final>>

\* scanAppFolder lists the folder ...
ReadAppDir(p) ==
  /\ proc[p].pc = "readDir"
  /\ proc' = [proc EXCEPT ![p].pc = "scan", ![p].names = {a \in Apps : apps[a] # NoDir}]
  /\ UNCHANGED <<apps, pidFile, socket, saved, ctl, inst, crashes, replaced, final>>

\* Mutant of ScanApp: the apps are left alone if anything was restored.
ScanAppMutant(p) ==
  /\ proc[p].pc = "scan"
  /\ \/ /\ proc[p].names = {} \/ proc[p].registered # {} \/ saved # NoState
        /\ proc' = [proc EXCEPT ![p].pc = "writePID", ![p].names = {}]
     \/ \E a \in proc[p].names :
          proc' = [proc EXCEPT ![p].names = @ \ {a},
                               ![p].registered = @ \union {f \in Installed : f = Path(a) /\ Loads(f)}]
  /\ UNCHANGED <<apps, pidFile, socket, saved, ctl, inst, crashes, replaced, final>>

\* ... and looks at its entries one after the other; those it cannot load it skips.
ScanApp(p) ==
  /\ proc[p].pc = "scan"
  /\ \/ /\ proc[p].names = {}
        /\ proc' = [proc EXCEPT ![p].pc = "writePID"]
     \/ \E a \in proc[p].names :
          proc' = [proc EXCEPT ![p].names = @ \ {a},
                               ![p].registered = @ \union {f \in Installed : f = Path(a) /\ Loads(f)}]
  /\ UNCHANGED <<apps, pidFile, socket, saved, ctl, inst, crashes, replaced, final>>

WritePID(p) ==
  /\ Step(p, "writePID", "saveArgs")
  /\ pidFile' = p
  /\ UNCHANGED <<apps, socket, saved, ctl, inst, crashes, replaced, final>>

Saved(p) == [paths |-> proc[p].registered, foreground |-> proc[p].foreground]

SaveArgs(p) ==
  /\ Step(p, "saveArgs", "clean")
  /\ saved' = Saved(p)
  /\ UNCHANGED <<apps, pidFile, socket, ctl, inst, crashes, replaced, final>>

\* cleanupListener: whoever's socket it is.
CleanupListener(p) ==
  /\ Step(p, "clean", "listen")
  /\ socket' = NoPid
  /\ UNCHANGED <<apps, pidFile, saved, ctl, inst, crashes, replaced, final>>

\* Mutant of Listen: the daemon goes on without a socket.
ListenMutant(p) ==
  /\ Step(p, "listen", "activate")
  /\ socket' \in {socket, p}
  /\ UNCHANGED <<apps, pidFile, saved, ctl, inst, crashes, replaced, final>>

\* listen fails if there is a socket, or the system refuses one; then the PID file is
\* removed, whoever's it is.
Listen(p) ==
  /\ proc[p].pc = "listen"
  /\ \/ socket = NoPid /\ socket' = p /\ Step(p, "listen", "activate") /\ pidFile' = pidFile
     \/ socket' = socket /\ Step(p, "listen", "saveExit") /\ pidFile' = NoPid
  /\ UNCHANGED <<apps, saved, ctl, inst, crashes, replaced, final>>

Serve(p) ==
  /\ Step(p, "activate", "notify")
  /\ UNCHANGED <<apps, pidFile, socket, saved, ctl, inst, crashes, replaced, final>>

\* From here on SIGTERM is received; before, it ends the process.
Notify(p) ==
  /\ Step(p, "notify", "serving")
  /\ UNCHANGED <<apps, pidFile, socket, saved, ctl, inst, crashes, replaced, final>>

\* TestTrigger and TestAction run their actions before they answer, and an action may
\* hang; one flag stands for any number of these calls.
TestCall(p) ==
  /\ Accepting(p) /\ ~proc[p].testing
  /\ proc' = [proc EXCEPT ![p].testing = TRUE]
  /\ UNCHANGED <<apps, pidFile, socket, saved, ctl, inst, crashes, replaced, final>>

TestReturns(p) ==
  /\ Alive(p) /\ proc[p].testing
  /\ proc' = [proc EXCEPT ![p].testing = FALSE]
  /\ UNCHANGED <<apps, pidFile, socket, saved, ctl, inst, crashes, replaced, final>>

\* The select of Run.  signal.Stop makes SIGTERM fatal again.
Terminate(p) ==
  /\ proc[p].pc = "serving" /\ proc[p].term
  /\ proc' = [proc EXCEPT ![p].pc = "closeListener"]
  /\ UNCHANGED <<apps, pidFile, socket, saved, ctl, inst, crashes, replaced, final>>

\* Mutant of CloseListener: the PID file goes first.
CloseListenerMutant(p) ==
  /\ Step(p, "closeListener", "graceful")
  /\ pidFile' = NoPid /\ socket' = NoPid
  /\ UNCHANGED <<apps, saved, ctl, inst, crashes, replaced, final>>

\* StopAll, then GracefulStop: closing the listener removes the socket file ...
CloseListener(p) ==
  /\ Step(p, "closeListener", "graceful")
  /\ socket' = NoPid
  /\ UNCHANGED <<apps, pidFile, saved, ctl, inst, crashes, replaced, final>>

\* Mutant of GracefulStop: the socket that is already removed is waited for.
GracefulStopMutant(p) ==
  /\ Step(p, "graceful", "saveExit") /\ ~Working(p)
  /\ socket = p /\ socket' = NoPid
  /\ UNCHANGED <<apps, pidFile, saved, ctl, inst, crashes, replaced, final>>

\* ... and all calls in progress are waited for, however long they take; cleanupOnStop
\* removes the file again.
GracefulStop(p) ==
  /\ Step(p, "graceful", "saveExit") /\ ~Working(p)
  /\ socket' = NoPid
  /\ UNCHANGED <<apps, pidFile, saved, ctl, inst, crashes, replaced, final>>

SaveExit(p) ==
  /\ Step(p, "saveExit", "removePID")
  /\ saved' = Saved(p)
  /\ UNCHANGED <<apps, pidFile, socket, ctl, inst, crashes, replaced, final>>

\* RemovePID, and the process is gone.
RemovePID(p) ==
  /\ proc[p].pc = "removePID"
  /\ proc' = [proc EXCEPT ![p] = Exited]
  /\ final' = {Saved(p)}
  /\ pidFile' = NoPid
  /\ UNCHANGED <<apps, socket, saved, ctl, inst, crashes, replaced>>

Crash(p) ==
  /\ Alive(p) /\ crashes < MaxCrashes
  /\ proc' = [proc EXCEPT ![p] = Killed]
  /\ crashes' = crashes + 1
  /\ UNCHANGED <<apps, pidFile, socket, saved, ctl, inst, replaced, final>>

DaemonSteps(p) ==
  \/ LoadState(p) \/ ReadAppDir(p) \/ ScanApp(p) \/ WritePID(p) \/ SaveArgs(p) \/ CleanupListener(p)
  \/ Listen(p) \/ Serve(p) \/ Notify(p)
  \/ Terminate(p) \/ CloseListener(p) \/ GracefulStop(p) \/ SaveExit(p) \/ RemovePID(p)

-----------------------------------------------------------------------------
(* start, stop and restart. *)

\* IsRunning
IsRunning == pidFile # NoPid /\ Alive(pidFile)

\* No daemon is on its way up, or has failed to come up and is not gone yet.
Calm == \A p \in Pids : Alive(p) => proc[p].pc \notin Booting /\ pidFile = p
NoOtherControl(o) == \A q \in Operators \ {o} : ctl[q].pc = "idle"

\* What a patient operator waits for.
MayControl(o) == Patient => Calm /\ NoOtherControl(o)
MayLaunch(o)  == Patient => MayControl(o) /\ \A i \in Installers : inst[i].pc = "idle"

\* newStartCmd: the PID file is looked at; one that is stale is removed in a later step.
StartCheck(o) ==
  /\ ctl[o].pc = "idle" /\ MayLaunch(o)
  /\ ~IsRunning
  /\ ctl' = [ctl EXCEPT ![o].pc = IF pidFile = NoPid THEN "spawn" ELSE "removeStale"]
  /\ UNCHANGED <<apps, proc, pidFile, socket, saved, inst, crashes, replaced, final>>

RemoveStale(o) ==
  /\ ctl[o].pc = "removeStale"
  /\ pidFile' = NoPid
  /\ ctl' = [ctl EXCEPT ![o].pc = "spawn"]
  /\ UNCHANGED <<apps, proc, socket, saved, inst, crashes, replaced, final>>

IsNext(p) == proc[p].pc = "unborn" /\ \A q \in Pids : q < p => proc[q].pc # "unborn"

\* runBackground, and runForeground where the command itself becomes the daemon.
Spawn(o) ==
  /\ ctl[o].pc = "spawn"
  /\ \E p \in Pids, foreground \in BOOLEAN :
       /\ IsNext(p) /\ (ctl[o].restart => ~foreground)
       /\ proc' = [proc EXCEPT ![p].pc = "load", ![p].foreground = foreground]
  /\ ctl' = [ctl EXCEPT ![o] = NoCtl]
  /\ final' = {}
  /\ UNCHANGED <<apps, pidFile, socket, saved, inst, crashes, replaced>>

\* The checks of stop, and of restart, which needs the launch arguments of a background daemon.
StopCheck(o) ==
  /\ ctl[o].pc = "idle"
  /\ IsRunning
  /\ \E restart \in BOOLEAN :
       /\ IF restart THEN MayLaunch(o) /\ saved # NoState /\ ~saved.foreground ELSE MayControl(o)
       /\ ctl' = [ctl EXCEPT ![o] = [pc |-> "signal", restart |-> restart, pid |-> pidFile]]
  /\ UNCHANGED <<apps, proc, pidFile, socket, saved, inst, crashes, replaced, final>>

\* The signal reaches the select of Run, or ends a process that does not wait for it.
SIGTERM(p) ==
  proc' = [proc EXCEPT ![p] = IF @.pc = "serving" THEN [@ EXCEPT !.term = TRUE] ELSE Killed]

\* SendTermSignal, which fails if the process is gone.
SendTermSignal(o) ==
  /\ ctl[o].pc = "signal"
  /\ IF Alive(ctl[o].pid)
     THEN SIGTERM(ctl[o].pid) /\ ctl' = [ctl EXCEPT ![o].pc = "wait"]
     ELSE proc' = proc /\ ctl' = [ctl EXCEPT ![o] = NoCtl]
  /\ UNCHANGED <<apps, pidFile, socket, saved, inst, crashes, replaced, final>>

\* The PID file is looked at until no process that it names is running ...
Stopped(o) ==
  /\ ctl[o].pc = "wait" /\ ~IsRunning
  /\ ctl' = [ctl EXCEPT ![o] = IF @.restart THEN [@ EXCEPT !.pc = "spawn"] ELSE NoCtl]
  /\ UNCHANGED <<apps, proc, pidFile, socket, saved, inst, crashes, replaced, final>>

\* ... or the time is up.
TimedOut(o) ==
  /\ ctl[o].pc = "wait" /\ IsRunning
  /\ ctl' = [ctl EXCEPT ![o] = NoCtl]
  /\ UNCHANGED <<apps, proc, pidFile, socket, saved, inst, crashes, replaced, final>>

ControlSteps(o) ==
  StartCheck(o) \/ RemoveStale(o) \/ Spawn(o) \/ StopCheck(o) \/ SendTermSignal(o) \/ Stopped(o) \/ TimedOut(o)

-----------------------------------------------------------------------------
(* app install and app remove. *)

Continue(i, pc) == inst' = [inst EXCEPT ![i].pc = pc]
Done(i) == inst' = [inst EXCEPT ![i] = NoInst]

MayInstall ==
  Patient => Calm /\ \A o \in Operators : ~ctl[o].restart /\ ctl[o].pc \notin {"removeStale", "spawn"}

\* newAppInstallCmd, as far as the staging directory; nothing is begun for a bad bundle.
InstallBegin(i) ==
  /\ inst[i].pc = "idle" /\ MayInstall
  /\ \E a \in Apps, b \in Bundles :
       /\ Unpack(b) # NoDir
       /\ inst' = [inst EXCEPT ![i] = [NoInst EXCEPT !.pc = "replace", !.app = a, !.bundle = Unpack(b)]]
  /\ UNCHANGED <<apps, proc, pidFile, socket, saved, ctl, crashes, replaced, final>>

\* An app of that name is removed, with --force or if the user says yes.
Replace(i) ==
  /\ inst[i].pc = "replace"
  /\ \/ apps' = [apps EXCEPT ![inst[i].app] = NoDir] /\ Continue(i, "rename")
     \/ apps[inst[i].app] # NoDir /\ apps' = apps /\ Done(i)
  /\ UNCHANGED <<proc, pidFile, socket, saved, ctl, crashes, replaced, final>>

\* What the state file and the daemons know.
Known == (IF saved = NoState THEN {} ELSE saved.paths) \union UNION {proc[p].registered : p \in Pids}

\* os.Rename can fail, and does if another command has put an app there in between.
Rename(i) ==
  LET a == inst[i].app
      path == <<a, FindRecurfile(inst[i].bundle)>>
      known == {f \in Known : f[1] = a}
  IN /\ inst[i].pc = "rename"
     /\ \/ /\ apps[a] = NoDir /\ apps' = [apps EXCEPT ![a] = inst[i].bundle]
           /\ inst' = [inst EXCEPT ![i].pc = "connect", ![i].path = path]
           /\ replaced' = replaced \union (known \ {path})
        \/ apps' = apps /\ Done(i) /\ replaced' = replaced \union known
     /\ UNCHANGED <<proc, pidFile, socket, saved, ctl, crashes, final>>

\* newAppRemoveCmd
RemoveBegin(i) ==
  /\ inst[i].pc = "idle" /\ MayInstall
  /\ \E a \in Apps :
       /\ apps[a] # NoDir
       /\ inst' = [inst EXCEPT ![i] = [NoInst EXCEPT !.pc = "connect", !.app = a, !.path = Path(a)]]
  /\ UNCHANGED <<apps, proc, pidFile, socket, saved, ctl, crashes, replaced, final>>

Removing(i) == inst[i].bundle = NoDir

\* The command goes on without the daemon: remove has the directory to remove.
WithoutDaemon(i) == IF Removing(i) THEN Continue(i, "removeAll") ELSE Done(i)

\* Connect: the probe is answered.
Connect(i) ==
  /\ inst[i].pc = "connect"
  /\ Reachable
  /\ inst' = [inst EXCEPT ![i].pc = "call", ![i].server = socket]
  /\ UNCHANGED <<apps, proc, pidFile, socket, saved, ctl, crashes, replaced, final>>

\* There is no socket, nobody behind it, or nobody accepts the connection in time.
NotConnected(i) ==
  /\ inst[i].pc = "connect"
  /\ ~Reachable
  /\ WithoutDaemon(i)
  /\ UNCHANGED <<apps, proc, pidFile, socket, saved, ctl, crashes, replaced, final>>

\* The call is accepted, or fails if the daemon is stopping.
Call(i) ==
  /\ inst[i].pc = "call"
  /\ IF Accepting(inst[i].server) THEN Continue(i, "handle") ELSE WithoutDaemon(i)
  /\ UNCHANGED <<apps, proc, pidFile, socket, saved, ctl, crashes, replaced, final>>

\* The daemon refuses to register a file that it cannot load, and to deregister one
\* that is not registered.
Refused(i) ==
  IF Removing(i) THEN inst[i].path \notin proc[inst[i].server].registered ELSE ~Loads(inst[i].path)

\* RegisterRecurfile or DeregisterRecurfile.
Handle(i) ==
  LET p == inst[i].server
      f == inst[i].path
  IN /\ inst[i].pc = "handle" /\ Alive(p) /\ ~Refused(i)
     /\ proc' = [proc EXCEPT ![p].registered = IF Removing(i) THEN @ \ {f} ELSE @ \union {f}]
     /\ Continue(i, "saveState")
     /\ UNCHANGED <<apps, pidFile, socket, saved, ctl, crashes, replaced, final>>

HandlerSaves(i) ==
  /\ inst[i].pc = "saveState" /\ Alive(inst[i].server)
  /\ saved' = Saved(inst[i].server)
  /\ WithoutDaemon(i)
  /\ UNCHANGED <<apps, proc, pidFile, socket, ctl, crashes, replaced, final>>

\* The daemon is gone before it has answered, or refuses; an app that is installed stays
\* in the folder all the same.
CallBroken(i) ==
  /\ inst[i].pc \in {"handle", "saveState"}
  /\ ~Alive(inst[i].server) \/ (inst[i].pc = "handle" /\ Refused(i))
  /\ WithoutDaemon(i)
  /\ UNCHANGED <<apps, proc, pidFile, socket, saved, ctl, crashes, replaced, final>>

RemoveAll(i) ==
  /\ inst[i].pc = "removeAll"
  /\ apps' = [apps EXCEPT ![inst[i].app] = NoDir]
  /\ Done(i)
  /\ UNCHANGED <<proc, pidFile, socket, saved, ctl, crashes, replaced, final>>

ClientSteps(i) ==
  Replace(i) \/ Rename(i) \/ Connect(i) \/ NotConnected(i) \/ Call(i) \/ Handle(i) \/ HandlerSaves(i)
    \/ CallBroken(i) \/ RemoveAll(i)

-----------------------------------------------------------------------------

Next ==
  \/ \E p \in Pids : DaemonSteps(p) \/ TestCall(p) \/ TestReturns(p) \/ Crash(p)
  \/ \E o \in Operators : ControlSteps(o)
  \/ \E i \in Installers : InstallBegin(i) \/ RemoveBegin(i) \/ ClientSteps(i)

\* A process that can go on does, and so does the handler of a call; but not the action
\* that a test runs.
Fairness ==
  /\ \A p \in Pids : WF_vars(DaemonSteps(p))
  /\ \A i \in Installers : WF_vars(ClientSteps(i))

Spec == Init /\ [][Next]_vars /\ Fairness

-----------------------------------------------------------------------------
(* Properties. *)

\* The variables have their types.
TypeOK ==
  /\ apps \in [Apps -> Bundles \union {NoDir}]
  /\ \A p \in Pids :
       /\ proc[p].pc \in Booting \union Ending \union {"unborn", "serving", "exited", "killed"}
       /\ proc[p].registered \subseteq Paths
       /\ proc[p].names \subseteq Apps
       /\ proc[p].foreground \in BOOLEAN /\ proc[p].term \in BOOLEAN /\ proc[p].testing \in BOOLEAN
  /\ pidFile \in Pids \union {NoPid}
  /\ socket \in Pids \union {NoPid}
  /\ saved = NoState \/ saved.paths \subseteq Paths
  /\ crashes \in 0..MaxCrashes
  /\ replaced \subseteq Paths

\* daemon.go:199-215 and 327-332: a daemon that is up is the one the PID file names and
\* the one the socket leads to, whatever crashed, was killed or timed out before it.
ServingIsNamed ==
  \A p \in Pids : proc[p].pc = "serving" => pidFile = p /\ socket = p

Gone(p) == proc[p].pc \in {"exited", "killed"}

\* stop.go:46-56, "Daemon stopped": when stop says so, or restart goes on, the process that
\* was signalled is gone.  If it has come to the end of Run, its PID file and its socket are
\* removed and what it knew is in the state file; not so if it was killed on the way, by a
\* crash or by a SIGTERM that came before signal.Notify or after signal.Stop.
StoppedMeansStopped ==
  [][\A o \in Operators :
       ctl[o].pc = "wait" /\ ctl'[o].pc # "wait" /\ ~IsRunning =>
         LET p == ctl[o].pid IN
         /\ Gone(p)
         /\ proc[p].pc = "exited" => pidFile = NoPid /\ socket = NoPid /\ final = {saved}]_vars

\* newAppListCmd: whether every app of the folder is shown as registered with the daemon.
AppList(p) == [a \in {b \in Apps : FindRecurfile(apps[b]) # None} |-> Path(a) \in proc[p].registered]

Quiet == \A i \in Installers : inst[i].pc = "idle"

\* app.go:28-30, "registered automatically the next time it starts", and app.go:261-262: while
\* a daemon is up and no app command runs, app list shows every app that a daemon can load
\* as registered, and a removed app is not registered any more; only an install that brings
\* another recurfile, or fails half way, can leave the old one behind.
AppsFollowFolder ==
  Quiet => \A p \in Pids : proc[p].pc = "serving" =>
    /\ \A a \in DOMAIN AppList(p) : Loads(Path(a)) => AppList(p)[a]
    /\ proc[p].registered \subseteq Installed \union replaced

\* daemon.go:338-343: a process that has got SIGTERM comes to its end, unless an action
\* that a test runs hangs: all that shutdown waits for else comes to an end by itself.
TermStops ==
  \A p \in Pids : []<>(~proc[p].testing) => (proc[p].term ~> Gone(p))

-----------------------------------------------------------------------------
(* What the documents say and the code does not do (README, section 6); no *)
(* configuration lists it.                                                 *)

\* daemon-lifecycle.md:15, "wait for in-progress actions up to ShutdownTimeout, persist
\* state, exit": a process that has got SIGTERM comes to its end.
TermEnds == \A p \in Pids : proc[p].term ~> Gone(p)

\* cli.md:68, "Errors if the daemon is already running": start starts no second daemon.
StartRefuses ==
  [][\A o \in Operators :
       ctl[o].pc = "spawn" /\ ctl'[o].pc = "idle" => \A p \in Pids : ~Alive(p)]_vars
=============================================================================
