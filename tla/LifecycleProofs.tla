--------------------------- MODULE LifecycleProofs ---------------------------
(***************************************************************************)
(* What is proved of Lifecycle, for users who wait for each other: there   *)
(* is one daemon at a time, the PID file and the socket lead to it, and    *)
(* stop stops it and leaves its files as they should be; and, unless two   *)
(* app commands are about one app at a time, the daemon has the apps of    *)
(* the folder that can be loaded.                                          *)
(***************************************************************************)
EXTENDS Lifecycle, TLAPS

\* The records have their fields.
Shapes ==
  /\ proc = [p \in Pids |-> proc[p]]
  /\ \A p \in Pids : "pc" \in DOMAIN proc[p]
  /\ \A p \in Pids : proc[p].pc \in Booting \union Ending \union {"unborn", "serving", "exited", "killed"}
  /\ pidFile \in Pids \union {NoPid}
  /\ ctl = [o \in Operators |-> ctl[o]]
  /\ \A o \in Operators : {"pc", "pid"} \subseteq DOMAIN ctl[o]

OneAlive == \A p, q \in Pids : Alive(p) /\ Alive(q) => p = q

\* From WritePID to the save before the exit, and from Listen to the end of serving.
Named    == {"saveArgs", "clean", "listen", "activate", "notify", "serving", "closeListener", "graceful"}
Socketed == {"activate", "notify", "serving"}

FilesLead ==
  \A p \in Pids : /\ proc[p].pc \in Named => pidFile = p
                  /\ proc[p].pc \in Socketed => socket = p

\* One command at a time; none launches a daemon while one is alive, and stop and restart
\* follow the one that the PID file names.
Controlled ==
  /\ \A o, q \in Operators : ctl[o].pc # "idle" /\ ctl[q].pc # "idle" => o = q
  /\ \A o \in Operators :
       /\ ctl[o].pc \in {"removeStale", "spawn"} => \A p \in Pids : ~Alive(p)
       /\ ctl[o].pc \in {"signal", "wait"} =>
            Calm /\ ctl[o].pid \in Pids /\ proc[ctl[o].pid].pc # "unborn"

OneDaemon == Shapes /\ OneAlive /\ FilesLead /\ Controlled

-----------------------------------------------------------------------------

LEMMA OneDaemonInit == Init => OneDaemon
<1> SUFFICES ASSUME Init PROVE OneDaemon
  OBVIOUS
<1>1. \A p \in Pids : proc[p] = Unborn /\ ~Alive(p)
  BY DEF Init, Alive, Unborn, Booting, Ending
<1>2. \A o \in Operators : ctl[o] = NoCtl
  BY DEF Init
<1>3. Shapes
  BY <1>1, <1>2 DEF Init, Shapes, Unborn, NoCtl
<1>4. OneAlive /\ FilesLead /\ Controlled
  BY <1>1, <1>2 DEF OneAlive, FilesLead, Controlled, Unborn, NoCtl, Named, Socketed
<1> QED
  BY <1>3, <1>4 DEF OneDaemon

\* A process p goes from one point of Run to another.
LEMMA StepKeeps ==
  ASSUME OneDaemon, NEW p \in Pids, Alive(p),
         NEW r, proc' = [proc EXCEPT ![p] = r],
         "pc" \in DOMAIN r,
         r.pc \in Booting \union Ending \union {"serving", "exited", "killed"},
         r.pc \in Booting => proc[p].pc \in Booting,
         r.pc \in Named => pidFile' = p,
         r.pc \in Socketed => socket' = p,
         proc[p].pc \notin Booting => pidFile' = pidFile \/ r.pc \in {"exited", "killed"},
         pidFile' \in {pidFile, p, NoPid},
         UNCHANGED ctl
  PROVE  OneDaemon'
<1> USE DEF OneDaemon
<1>1. /\ proc'[p] = r
      /\ \A q \in Pids \ {p} : proc'[q] = proc[q] /\ ~Alive(q)
  BY DEF Shapes, OneAlive
<1>2. \A q \in Pids : Alive(q)' => q = p
  BY <1>1 DEF Alive
<1>3. Shapes'
  BY <1>1 DEF Shapes
<1>4. OneAlive'
  BY <1>2 DEF OneAlive
<1>5. FilesLead'
  BY <1>1 DEF FilesLead, Alive, Named, Socketed, Booting, Ending
<1>6. Controlled'
  <2>1. Calm => Calm'
    BY <1>1, <1>2 DEF Calm, Alive, Booting, Ending
  <2> QED
    BY <1>1, <1>2, <2>1 DEF Controlled, Booting, Ending
<1> QED
  BY <1>3, <1>4, <1>5, <1>6

\* A step between two points, of which only those files may change that the daemon has then.
LEMMA PcStepKeeps ==
  ASSUME OneDaemon, NEW p \in Pids, NEW from, NEW to, Step(p, from, to),
         from \in Booting \union Ending \union {"serving"},
         to \in Booting \union Ending \union {"serving"},
         to \in Booting => from \in Booting,
         to \in Named => pidFile' = p,
         to \in Socketed => socket' = p,
         from \notin Booting => pidFile' = pidFile,
         pidFile' \in {pidFile, p, NoPid},
         UNCHANGED ctl
  PROVE  OneDaemon'
<1> DEFINE r == [proc[p] EXCEPT !.pc = to]
<1>1. proc[p].pc = from /\ Alive(p) /\ "pc" \in DOMAIN proc[p]
  BY DEF Step, Alive, OneDaemon, Shapes
<1>2. "pc" \in DOMAIN r /\ r.pc = to
  BY <1>1
<1>3. proc' = [proc EXCEPT ![p] = r]
  BY DEF Step
<1> HIDE DEF r
<1> QED
  BY <1>1, <1>2, <1>3, StepKeeps

\* The steps of Run that change more of the process than where it is.
LEMMA DataStepKeeps ==
  ASSUME OneDaemon, NEW p \in Pids, LoadState(p) \/ ReadAppDir(p) \/ ScanApp(p)
  PROVE  OneDaemon'
<1>1. /\ proc[p].pc \in {"load", "readDir", "scan"} /\ Alive(p)
      /\ UNCHANGED <<pidFile, socket, ctl>>
  BY DEF LoadState, ReadAppDir, ScanApp, Alive, Booting
<1>2. \E r : /\ proc' = [proc EXCEPT ![p] = r]
             /\ "pc" \in DOMAIN r /\ r.pc \in {"readDir", "scan", "writePID"}
  <2>1. "pc" \in DOMAIN proc[p]
    BY DEF OneDaemon, Shapes
  <2>2. CASE LoadState(p)
    <3>1. PICK registered : proc' = [proc EXCEPT ![p].pc = "readDir", ![p].registered = registered]
      BY <2>2 DEF LoadState
    <3> WITNESS [proc[p] EXCEPT !.pc = "readDir", !.registered = registered]
    <3> QED
      BY <2>1, <3>1
  <2>3. CASE ReadAppDir(p)
    <3>1. PICK names : proc' = [proc EXCEPT ![p].pc = "scan", ![p].names = names]
      BY <2>3 DEF ReadAppDir
    <3> WITNESS [proc[p] EXCEPT !.pc = "scan", !.names = names]
    <3> QED
      BY <2>1, <3>1
  <2>4. CASE ScanApp(p) /\ proc' = [proc EXCEPT ![p].pc = "writePID"]
    <3> WITNESS [proc[p] EXCEPT !.pc = "writePID"]
    <3> QED
      BY <2>1, <2>4
  <2>5. CASE ScanApp(p) /\ proc' # [proc EXCEPT ![p].pc = "writePID"]
    <3>1. PICK a \in proc[p].names :
            proc' = [proc EXCEPT ![p].names = @ \ {a},
                                 ![p].registered = @ \union {f \in Installed : f = Path(a) /\ Loads(f)}]
      BY <2>5 DEF ScanApp
    <3> WITNESS [proc[p] EXCEPT !.names = @ \ {a},
                                !.registered = @ \union {f \in Installed : f = Path(a) /\ Loads(f)}]
    <3> QED
      BY <2>1, <2>5, <3>1 DEF ScanApp
  <2> QED
    BY <2>2, <2>3, <2>4, <2>5
<1> QED
  BY <1>1, <1>2, StepKeeps DEF Booting, Ending, Named, Socketed

\* The end of a process, by itself or not.
LEMMA EndKeeps ==
  ASSUME OneDaemon, NEW p \in Pids, Alive(p), NEW r \in {Exited, Killed}, proc' = [proc EXCEPT ![p] = r],
         pidFile' \in {pidFile, NoPid}, UNCHANGED ctl
  PROVE  OneDaemon'
<1>1. "pc" \in DOMAIN r /\ r.pc \in {"exited", "killed"}
  BY DEF Exited, Killed, Unborn
<1> QED
  BY <1>1, StepKeeps DEF Booting, Ending, Named, Socketed

\* A call of a test begins or ends.
LEMMA TestKeeps ==
  ASSUME OneDaemon, NEW p \in Pids, TestCall(p) \/ TestReturns(p)
  PROVE  OneDaemon'
<1>1. PICK testing \in BOOLEAN : proc' = [proc EXCEPT ![p].testing = testing]
  BY DEF TestCall, TestReturns
<1>2. UNCHANGED <<pidFile, socket, ctl>>
  BY DEF TestCall, TestReturns
<1>3. (\A q \in Pids : proc'[q].pc = proc[q].pc) /\ Shapes'
  BY <1>1, <1>2 DEF OneDaemon, Shapes
<1> QED
  BY <1>2, <1>3 DEF OneDaemon, OneAlive, FilesLead, Controlled, Alive, Calm

\* The steps of Run.
LEMMA DaemonKeeps ==
  ASSUME OneDaemon, NEW p \in Pids, DaemonSteps(p) \/ TestCall(p) \/ TestReturns(p) \/ Crash(p)
  PROVE  OneDaemon'
<1> USE DEF Booting, Ending, Named, Socketed
<1>1. CASE LoadState(p) \/ ReadAppDir(p) \/ ScanApp(p)
  BY <1>1, DataStepKeeps
<1>2. CASE WritePID(p)
  BY <1>2, PcStepKeeps DEF WritePID
<1>3. CASE SaveArgs(p) \/ CleanupListener(p)
  <2>1. pidFile = p
    BY <1>3 DEF SaveArgs, CleanupListener, Step, OneDaemon, FilesLead
  <2> QED
    BY <1>3, <2>1, PcStepKeeps DEF SaveArgs, CleanupListener
<1>4. CASE Listen(p)
  <2>1. pidFile = p
    BY <1>4 DEF Listen, OneDaemon, FilesLead
  <2> QED
    BY <1>4, <2>1, PcStepKeeps DEF Listen
<1>5. CASE Serve(p) \/ Notify(p)
  <2>1. pidFile = p /\ socket = p
    BY <1>5 DEF Serve, Notify, Step, OneDaemon, FilesLead
  <2> QED
    BY <1>5, <2>1, PcStepKeeps DEF Serve, Notify
<1>6. CASE Terminate(p) \/ CloseListener(p) \/ GracefulStop(p)
  <2>1. pidFile = p
    BY <1>6 DEF Terminate, CloseListener, GracefulStop, Step, OneDaemon, FilesLead
  <2> QED
    BY <1>6, <2>1, PcStepKeeps DEF Terminate, CloseListener, GracefulStop, Step
<1>7. CASE SaveExit(p)
  BY <1>7, PcStepKeeps DEF SaveExit
<1>8. CASE RemovePID(p) \/ Crash(p)
  BY <1>8, EndKeeps DEF RemovePID, Crash, Alive
<1> QED
  BY <1>1, <1>2, <1>3, <1>4, <1>5, <1>6, <1>7, <1>8, TestKeeps DEF DaemonSteps

-----------------------------------------------------------------------------
(* start, stop and restart. *)

\* A command goes on and the processes do not.
LEMMA CtlKeeps ==
  ASSUME OneDaemon, NEW o \in Operators,
         ctl' = [ctl EXCEPT ![o] = ctl'[o]],
         {"pc", "pid"} \subseteq DOMAIN ctl'[o],
         ctl'[o].pc = "idle" \/ ctl[o].pc # "idle" \/ NoOtherControl(o),
         ctl'[o].pc \in {"removeStale", "spawn"} => \A p \in Pids : ~Alive(p),
         ctl'[o].pc \in {"signal", "wait"} =>
           Calm /\ ctl'[o].pid \in Pids /\ proc[ctl'[o].pid].pc # "unborn",
         proc' = proc, socket' = socket,
         pidFile' = pidFile \/ (pidFile' = NoPid /\ \A p \in Pids : ~Alive(p))
  PROVE  OneDaemon'
<1> USE DEF OneDaemon
<1>1. \A q \in Operators \ {o} : ctl'[q] = ctl[q]
  BY DEF Shapes
<1>2. \A p \in Pids : proc'[p] = proc[p] /\ (Alive(p)' <=> Alive(p))
  BY DEF Alive
<1>3. Shapes' /\ OneAlive'
  BY <1>1, <1>2 DEF Shapes, OneAlive
<1>4. FilesLead'
  BY <1>2 DEF FilesLead, Alive, Named, Socketed, Booting, Ending
<1>5. Calm => Calm'
  BY <1>2 DEF Calm
<1>6. Controlled'
  BY <1>1, <1>2, <1>5 DEF Controlled, NoOtherControl
<1> QED
  BY <1>3, <1>4, <1>6

\* What a patient user waits for leaves nothing alive that the PID file does not name.
LEMMA CalmIsQuiet ==
  ASSUME Calm, ~IsRunning
  PROVE  \A p \in Pids : ~Alive(p)
  BY LifecycleAssumption DEF Calm, IsRunning, Pids

LEMMA StartKeeps ==
  ASSUME Patient, OneDaemon, NEW o \in Operators, StartCheck(o) \/ RemoveStale(o)
  PROVE  OneDaemon'
<1>1. \A p \in Pids : ~Alive(p)
  BY CalmIsQuiet DEF StartCheck, RemoveStale, MayLaunch, MayControl, OneDaemon, Controlled
<1>2. ctl[o].pc # "idle" \/ NoOtherControl(o)
  BY DEF StartCheck, RemoveStale, MayLaunch, MayControl
<1>3. PICK pc \in {"removeStale", "spawn"} : ctl' = [ctl EXCEPT ![o].pc = pc]
  BY DEF StartCheck, RemoveStale
<1>4. /\ {"pc", "pid"} \subseteq DOMAIN ctl'[o]
      /\ ctl'[o].pc \in {"removeStale", "spawn"}
      /\ ctl' = [ctl EXCEPT ![o] = ctl'[o]]
  BY <1>3 DEF OneDaemon, Shapes
<1>5. /\ proc' = proc /\ socket' = socket
      /\ pidFile' = pidFile \/ pidFile' = NoPid
  BY DEF StartCheck, RemoveStale
<1> QED
  BY <1>1, <1>2, <1>4, <1>5, CtlKeeps

\* Stop and restart follow the process the PID file names.
LEMMA StopCheckKeeps ==
  ASSUME Patient, OneDaemon, NEW o \in Operators, StopCheck(o)
  PROVE  OneDaemon'
<1>1. PICK restart \in BOOLEAN :
        ctl' = [ctl EXCEPT ![o] = [pc |-> "signal", restart |-> restart, pid |-> pidFile]]
  BY DEF StopCheck
<1>2. Calm /\ NoOtherControl(o) /\ Alive(pidFile) /\ pidFile \in Pids
  BY DEF StopCheck, MayLaunch, MayControl, IsRunning, OneDaemon, Shapes
<1>3. proc[pidFile].pc # "unborn"
  BY <1>2 DEF Alive, Booting, Ending
<1>4. /\ {"pc", "pid"} \subseteq DOMAIN ctl'[o]
      /\ ctl'[o].pc = "signal" /\ ctl'[o].pid = pidFile
      /\ ctl' = [ctl EXCEPT ![o] = ctl'[o]]
  BY <1>1 DEF OneDaemon, Shapes
<1>5. proc' = proc /\ socket' = socket /\ pidFile' = pidFile
  BY DEF StopCheck
<1> QED
  BY <1>2, <1>3, <1>4, <1>5, CtlKeeps

\* The end of the wait: the process is gone, or the time is up.
LEMMA WaitKeeps ==
  ASSUME OneDaemon, NEW o \in Operators, Stopped(o) \/ TimedOut(o)
  PROVE  OneDaemon'
<1>1. ctl[o].pc = "wait" /\ Calm /\ (Stopped(o) => ~IsRunning)
  BY DEF Stopped, TimedOut, OneDaemon, Controlled
<1>2. /\ {"pc", "pid"} \subseteq DOMAIN ctl'[o]
      /\ ctl'[o].pc = "idle" \/ (ctl'[o].pc = "spawn" /\ Stopped(o))
      /\ ctl' = [ctl EXCEPT ![o] = ctl'[o]]
  <2>1. CASE ctl' = [ctl EXCEPT ![o] = NoCtl]
    BY <2>1 DEF NoCtl, OneDaemon, Shapes
  <2>2. CASE Stopped(o) /\ ctl' = [ctl EXCEPT ![o] = [@ EXCEPT !.pc = "spawn"]]
    BY <2>2 DEF OneDaemon, Shapes
  <2> QED
    BY <2>1, <2>2 DEF Stopped, TimedOut
<1>3. proc' = proc /\ socket' = socket /\ pidFile' = pidFile
  BY DEF Stopped, TimedOut
<1>4. Stopped(o) => \A p \in Pids : ~Alive(p)
  BY <1>1, CalmIsQuiet
<1> QED
  BY <1>1, <1>2, <1>3, <1>4, CtlKeeps

\* SIGTERM, and what it does to the process.
LEMMA SignalKeeps ==
  ASSUME OneDaemon, NEW o \in Operators, SendTermSignal(o)
  PROVE  OneDaemon'
<1> DEFINE p == ctl[o].pid
<1>1. ctl[o].pc = "signal" /\ p \in Pids /\ Calm /\ proc[p].pc # "unborn"
  BY DEF SendTermSignal, OneDaemon, Controlled
<1>2. {"pc", "pid"} \subseteq DOMAIN ctl[o]
  BY DEF OneDaemon, Shapes
<1>3. CASE ~Alive(p)
  <2>1. ctl' = [ctl EXCEPT ![o] = NoCtl] /\ proc' = proc /\ socket' = socket /\ pidFile' = pidFile
    BY <1>3 DEF SendTermSignal
  <2>2. /\ {"pc", "pid"} \subseteq DOMAIN ctl'[o] /\ ctl'[o].pc = "idle"
        /\ ctl' = [ctl EXCEPT ![o] = ctl'[o]]
    BY <2>1 DEF NoCtl, OneDaemon, Shapes
  <2> QED
    BY <2>1, <2>2, CtlKeeps
<1>4. CASE Alive(p)
  <2>1. SIGTERM(p) /\ ctl' = [ctl EXCEPT ![o].pc = "wait"] /\ UNCHANGED <<socket, pidFile>>
    BY <1>4 DEF SendTermSignal
  <2>2. /\ \A q \in Pids : proc'[q] = proc[q] \/ q = p
        /\ proc'[p].pc \in {proc[p].pc, "killed"}
        /\ Shapes'
    <3>1. "pc" \in DOMAIN proc[p]
      BY <1>1 DEF OneDaemon, Shapes
    <3>2. CASE proc[p].pc = "serving"
      BY <1>1, <1>2, <2>1, <3>1, <3>2 DEF SIGTERM, OneDaemon, Shapes
    <3>3. CASE proc[p].pc # "serving"
      BY <1>1, <1>2, <2>1, <3>3 DEF SIGTERM, OneDaemon, Shapes, Killed, Unborn
    <3> QED
      BY <3>2, <3>3
  <2>3. \A q \in Pids : (proc'[q].pc = proc[q].pc /\ (Alive(q)' <=> Alive(q)))
                        \/ (q = p /\ proc'[q].pc = "killed" /\ ~Alive(q)')
    BY <2>2 DEF Alive, Booting, Ending
  <2>4. OneAlive' /\ FilesLead'
    BY <2>1, <2>3 DEF OneDaemon, OneAlive, FilesLead, Named, Socketed
  <2>5. Calm'
    BY <1>1, <2>1, <2>3 DEF Calm
  <2>6. /\ ctl'[o].pc = "wait" /\ ctl'[o].pid = p
        /\ \A q \in Operators \ {o} : ctl'[q] = ctl[q] /\ ctl[q].pc = "idle"
    BY <1>1, <1>2, <2>1 DEF OneDaemon, Shapes, Controlled
  <2>7. Controlled'
    BY <1>1, <2>3, <2>5, <2>6 DEF Controlled
  <2> QED
    BY <2>2, <2>4, <2>7 DEF OneDaemon
<1> QED
  BY <1>3, <1>4

\* A daemon is launched when none is alive.
LEMMA SpawnKeeps ==
  ASSUME OneDaemon, NEW o \in Operators, Spawn(o)
  PROVE  OneDaemon'
<1>1. PICK p \in Pids, foreground \in BOOLEAN :
        proc' = [proc EXCEPT ![p].pc = "load", ![p].foreground = foreground]
  BY DEF Spawn
<1>2. /\ ctl' = [ctl EXCEPT ![o] = NoCtl] /\ UNCHANGED <<socket, pidFile>>
      /\ \A q \in Pids : ~Alive(q)
      /\ \A q \in Operators \ {o} : ctl[q].pc = "idle"
  BY DEF Spawn, OneDaemon, Controlled
<1>3. "pc" \in DOMAIN proc[p]
  BY DEF OneDaemon, Shapes
<1>5. /\ proc'[p].pc = "load" /\ \A q \in Pids \ {p} : proc'[q] = proc[q] /\ ~Alive(q)'
      /\ DOMAIN proc'[p] = DOMAIN proc[p] /\ proc' = [q \in Pids |-> proc'[q]]
  BY <1>1, <1>2, <1>3 DEF OneDaemon, Shapes, Alive
<1>6. ctl'[o].pc = "idle" /\ \A q \in Operators \ {o} : ctl'[q].pc = "idle"
  BY <1>2 DEF OneDaemon, Shapes, NoCtl
<1>7. Shapes'
  BY <1>2, <1>3, <1>5 DEF OneDaemon, Shapes, NoCtl, Booting
<1>8. OneAlive' /\ FilesLead'
  BY <1>5 DEF OneAlive, FilesLead, Alive, Named, Socketed, Booting, Ending
<1>9. Controlled'
  BY <1>6 DEF Controlled
<1> QED
  BY <1>7, <1>8, <1>9 DEF OneDaemon

-----------------------------------------------------------------------------
(* app install and app remove. *)

LEMMA InstallerKeeps ==
  ASSUME OneDaemon, NEW i \in Installers, InstallBegin(i) \/ RemoveBegin(i) \/ ClientSteps(i)
  PROVE  OneDaemon'
<1>1. CASE ~Handle(i)
  <2>1. UNCHANGED <<proc, pidFile, socket, ctl>>
    BY <1>1 DEF InstallBegin, RemoveBegin, ClientSteps, Replace, Rename, Connect, NotConnected, Call,
       HandlerSaves, CallBroken, RemoveAll
  <2> QED
    BY <2>1 DEF OneDaemon, Shapes, OneAlive, FilesLead, Controlled, Alive, Calm
<1>2. CASE Handle(i)
  <2> DEFINE p == inst[i].server
  <2>1. PICK registered : proc' = [proc EXCEPT ![p].registered = registered]
    BY <1>2 DEF Handle
  <2>2. UNCHANGED <<pidFile, socket, ctl>>
    BY <1>2 DEF Handle
  <2>3. /\ \A q \in Pids : proc'[q].pc = proc[q].pc
        /\ Shapes'
    BY <2>1, <2>2 DEF OneDaemon, Shapes
  <2> QED
    BY <2>2, <2>3 DEF OneDaemon, OneAlive, FilesLead, Controlled, Alive, Calm
<1> QED
  BY <1>1, <1>2

-----------------------------------------------------------------------------

LEMMA OneDaemonStep == Patient /\ OneDaemon /\ [Next]_vars => OneDaemon'
<1> SUFFICES ASSUME Patient, OneDaemon, [Next]_vars PROVE OneDaemon'
  OBVIOUS
<1>1. CASE UNCHANGED vars
  BY <1>1 DEF vars, OneDaemon, Shapes, OneAlive, FilesLead, Controlled, Alive, Calm
<1>2. ASSUME NEW o \in Operators, ControlSteps(o)
      PROVE  OneDaemon'
  BY <1>2, StartKeeps, SpawnKeeps, StopCheckKeeps, SignalKeeps, WaitKeeps DEF ControlSteps
<1> QED
  BY <1>1, <1>2, DaemonKeeps, InstallerKeeps DEF Next

LEMMA OneDaemonInvariant ==
  ASSUME Patient
  PROVE  Spec => []OneDaemon
  BY OneDaemonInit, OneDaemonStep, PTL DEF Spec

\* Whatever crashes, is killed or times out, a daemon that is up is the one that the PID file
\* names and that the socket leads to, for any number of users that wait for each other,
\* processes and crashes.
THEOREM ServingAlwaysNamed ==
  ASSUME Patient
  PROVE  Spec => []ServingIsNamed
<1>1. OneDaemon => ServingIsNamed
  BY DEF OneDaemon, FilesLead, ServingIsNamed, Named, Socketed
<1> QED
  BY <1>1, OneDaemonInvariant, PTL

-----------------------------------------------------------------------------
(* What is left when the daemon is gone. *)

\* The calls that a daemon has accepted, and the points of Run at which it may have any.
Accepted  == {"handle", "saveState"}
Answering == {"notify", "serving", "closeListener", "graceful", "exited", "killed"}

EndShapes ==
  /\ socket \in Pids \union {NoPid}
  /\ \A p \in Pids : {"pc", "registered", "foreground"} \subseteq DOMAIN proc[p]
  /\ inst = [i \in Installers |-> inst[i]]
  /\ \A i \in Installers : {"pc", "server"} \subseteq DOMAIN inst[i]

\* A daemon that accepts no call any more, or does not yet, works on none.
CallsAnswered ==
  \A i \in Installers :
    /\ inst[i].pc \in Accepted \union {"call"} => inst[i].server \in Pids
    /\ inst[i].pc \in Accepted => proc[inst[i].server].pc \in Answering

\* Before Run returns the socket is removed and what is known is saved, ...
Tidied ==
  \A p \in Pids : /\ proc[p].pc \in {"listen", "graceful", "saveExit", "removePID"} => socket = NoPid
                  /\ proc[p].pc = "removePID" => saved = Saved(p)

\* ... and so it stays until another daemon is launched.
StaysTidy ==
  /\ final # {} => (\A p \in Pids : ~Alive(p)) /\ pidFile = NoPid /\ socket = NoPid /\ final = {saved}
  /\ \A o \in Operators : ctl[o].pc \in {"signal", "wait"} /\ proc[ctl[o].pid].pc = "exited" => final # {}

EndInv == EndShapes /\ CallsAnswered /\ Tidied /\ StaysTidy

LEMMA EndInit == Init => EndInv
<1> SUFFICES ASSUME Init PROVE EndInv
  OBVIOUS
<1>1. EndShapes
  BY DEF Init, EndShapes, Unborn, NoInst
<1>2. CallsAnswered /\ Tidied /\ StaysTidy
  BY DEF Init, CallsAnswered, Tidied, StaysTidy, Unborn, NoInst, NoCtl, Accepted
<1> QED
  BY <1>1, <1>2 DEF EndInv

\* The one daemon takes a step of Run, or ends.
LEMMA AliveEnd ==
  ASSUME OneDaemon, EndInv, NEW p \in Pids, Alive(p), UNCHANGED <<inst, ctl>>,
         NEW r, proc' = [proc EXCEPT ![p] = r], {"pc", "registered", "foreground"} \subseteq DOMAIN r,
         socket' \in {socket, p, NoPid},
         r.pc \in {"listen", "graceful", "saveExit", "removePID"} => socket' = NoPid,
         r.pc = "removePID" => saved' = [paths |-> r.registered, foreground |-> r.foreground],
         r.pc \in Answering \/ \A i \in Installers : inst[i].pc \in Accepted => inst[i].server # p,
         IF r.pc = "exited" THEN pidFile' = NoPid /\ socket' = NoPid /\ final' = {saved'} ELSE final' = final
  PROVE  EndInv'
<1> USE DEF EndInv
<1>1. proc'[p] = r /\ \A q \in Pids \ {p} : proc'[q] = proc[q] /\ ~Alive(q)
  BY DEF OneDaemon, Shapes, OneAlive
<1>2. final = {} /\ proc[p].pc \notin {"exited", "killed"}
  BY DEF StaysTidy, Alive, Booting, Ending
<1>3. EndShapes'
  BY <1>1 DEF EndShapes
<1>4. CallsAnswered'
  <2>1. \A i \in Installers : inst[i].server = p /\ inst[i].pc \in Accepted => r.pc \in Answering
    OBVIOUS
  <2> QED
    BY <1>1, <2>1 DEF CallsAnswered
<1>5. Tidied'
  BY <1>1 DEF Tidied, Saved, Alive, Booting, Ending
<1>6. StaysTidy'
  <2>1. \A o \in Operators : ctl[o].pc \in {"signal", "wait"} /\ proc'[ctl[o].pid].pc = "exited" => r.pc = "exited"
    BY <1>1, <1>2 DEF StaysTidy, OneDaemon, Controlled
  <2>2. CASE r.pc = "exited"
    <3>1. \A q \in Pids : ~Alive(q)'
      BY <1>1, <2>2 DEF Alive, Booting, Ending
    <3>2. final' # {} /\ final' = {saved'} /\ pidFile' = NoPid /\ socket' = NoPid
      BY <2>2
    <3> QED
      BY <3>1, <3>2 DEF StaysTidy
  <2>3. CASE r.pc # "exited"
    BY <1>2, <2>1, <2>3 DEF StaysTidy
  <2> QED
    BY <2>2, <2>3
<1> QED
  BY <1>3, <1>4, <1>5, <1>6

\* A step between two points of Run that leaves the rest of the process alone.
LEMMA PcStepEnd ==
  ASSUME OneDaemon, EndInv, NEW p \in Pids, NEW from, NEW to, Step(p, from, to),
         from \in Booting \union Ending \union {"serving"}, to # "exited",
         UNCHANGED <<inst, ctl, final>>,
         socket' \in {socket, p, NoPid},
         to \in {"listen", "graceful", "saveExit", "removePID"} => socket' = NoPid,
         to = "removePID" => saved' = Saved(p),
         to \in Answering \/ from \notin Answering \/ ~Working(p)
  PROVE  EndInv'
<1> DEFINE r == [proc[p] EXCEPT !.pc = to]
<1>1. /\ proc[p].pc = from /\ Alive(p)
      /\ {"pc", "registered", "foreground"} \subseteq DOMAIN proc[p]
  BY DEF Step, Alive, EndInv, EndShapes
<1>2. /\ {"pc", "registered", "foreground"} \subseteq DOMAIN r /\ r.pc = to
      /\ r.registered = proc[p].registered /\ r.foreground = proc[p].foreground
  BY <1>1
<1>3. proc' = [proc EXCEPT ![p] = r]
  BY DEF Step
<1>4. r.pc = "removePID" => saved' = [paths |-> r.registered, foreground |-> r.foreground]
  BY <1>2 DEF Saved
<1>5. r.pc \in Answering \/ \A i \in Installers : inst[i].pc \in Accepted => inst[i].server # p
  BY <1>1, <1>2 DEF EndInv, CallsAnswered, Working, Accepted
<1> HIDE DEF r
<1> QED
  BY <1>1, <1>2, <1>3, <1>4, <1>5, AliveEnd

LEMMA DataStepEnd ==
  ASSUME OneDaemon, EndInv, NEW p \in Pids, LoadState(p) \/ ReadAppDir(p) \/ ScanApp(p)
  PROVE  EndInv'
<1>1. /\ proc[p].pc \in {"load", "readDir", "scan"} /\ Alive(p)
      /\ UNCHANGED <<pidFile, socket, saved, ctl, inst, final>>
  BY DEF LoadState, ReadAppDir, ScanApp, Alive, Booting
<1>2. \E r : /\ proc' = [proc EXCEPT ![p] = r]
             /\ {"pc", "registered", "foreground"} \subseteq DOMAIN r /\ r.pc \in {"readDir", "scan", "writePID"}
  <2>1. {"pc", "registered", "foreground"} \subseteq DOMAIN proc[p]
    BY DEF EndInv, EndShapes
  <2>2. CASE LoadState(p)
    <3>1. PICK registered : proc' = [proc EXCEPT ![p].pc = "readDir", ![p].registered = registered]
      BY <2>2 DEF LoadState
    <3> WITNESS [proc[p] EXCEPT !.pc = "readDir", !.registered = registered]
    <3> QED
      BY <2>1, <3>1
  <2>3. CASE ReadAppDir(p)
    <3>1. PICK names : proc' = [proc EXCEPT ![p].pc = "scan", ![p].names = names]
      BY <2>3 DEF ReadAppDir
    <3> WITNESS [proc[p] EXCEPT !.pc = "scan", !.names = names]
    <3> QED
      BY <2>1, <3>1
  <2>4. CASE ScanApp(p) /\ proc' = [proc EXCEPT ![p].pc = "writePID"]
    <3> WITNESS [proc[p] EXCEPT !.pc = "writePID"]
    <3> QED
      BY <2>1, <2>4
  <2>5. CASE ScanApp(p) /\ proc' # [proc EXCEPT ![p].pc = "writePID"]
    <3>1. PICK names, registered : proc' = [proc EXCEPT ![p].names = names, ![p].registered = registered]
      BY <2>5 DEF ScanApp
    <3> WITNESS [proc[p] EXCEPT !.names = names, !.registered = registered]
    <3> QED
      BY <2>1, <2>5, <3>1 DEF ScanApp
  <2> QED
    BY <2>2, <2>3, <2>4, <2>5
<1>3. PICK r : /\ proc' = [proc EXCEPT ![p] = r]
               /\ {"pc", "registered", "foreground"} \subseteq DOMAIN r /\ r.pc \in {"readDir", "scan", "writePID"}
  BY <1>2
<1>4. \A i \in Installers : inst[i].pc \in Accepted => inst[i].server # p
  BY <1>1 DEF EndInv, CallsAnswered, Answering
<1> QED
  BY <1>1, <1>3, <1>4, AliveEnd

\* The steps of Run.
LEMMA DaemonEnd ==
  ASSUME OneDaemon, EndInv, NEW p \in Pids, DaemonSteps(p) \/ Crash(p)
  PROVE  EndInv'
<1> USE DEF Booting, Ending, Answering
<1>1. CASE LoadState(p) \/ ReadAppDir(p) \/ ScanApp(p)
  BY <1>1, DataStepEnd
<1>2. CASE WritePID(p) \/ SaveArgs(p) \/ CleanupListener(p)
  BY <1>2, PcStepEnd DEF WritePID, SaveArgs, CleanupListener
<1>3. CASE Listen(p)
  <2>1. socket = NoPid
    BY <1>3 DEF Listen, EndInv, Tidied
  <2> QED
    BY <1>3, <2>1, PcStepEnd DEF Listen
<1>4. CASE Serve(p) \/ Notify(p)
  BY <1>4, PcStepEnd DEF Serve, Notify
<1>5. CASE Terminate(p) \/ CloseListener(p) \/ GracefulStop(p)
  BY <1>5, PcStepEnd DEF Terminate, CloseListener, GracefulStop, Step
<1>6. CASE SaveExit(p)
  <2>1. socket = NoPid
    BY <1>6 DEF SaveExit, Step, EndInv, Tidied
  <2> QED
    BY <1>6, <2>1, PcStepEnd DEF SaveExit
<1>7. CASE RemovePID(p)
  <2>1. socket = NoPid /\ saved = Saved(p) /\ Alive(p)
    BY <1>7 DEF RemovePID, EndInv, Tidied, Alive
  <2>2. {"pc", "registered", "foreground"} \subseteq DOMAIN Exited /\ Exited.pc = "exited"
    BY DEF Exited, Unborn
  <2> QED
    BY <1>7, <2>1, <2>2, AliveEnd DEF RemovePID
<1>8. CASE Crash(p)
  <2>1. {"pc", "registered", "foreground"} \subseteq DOMAIN Killed /\ Killed.pc = "killed"
    BY DEF Killed, Unborn
  <2> QED
    BY <1>8, <2>1, AliveEnd DEF Crash
<1> QED
  BY <1>1, <1>2, <1>3, <1>4, <1>5, <1>6, <1>7, <1>8 DEF DaemonSteps

\* Nothing that matters changes, except for a command that goes on.
LEMMA RestEnd ==
  ASSUME EndInv, UNCHANGED <<socket, saved, inst, final>>, pidFile' \in {pidFile, NoPid},
         \A p \in Pids : /\ {"pc", "registered", "foreground"} \subseteq DOMAIN proc'[p]
                         /\ proc'[p].pc = proc[p].pc
                         /\ proc'[p].registered = proc[p].registered
                         /\ proc'[p].foreground = proc[p].foreground,
         \A o \in Operators : ctl'[o].pc \in {"signal", "wait"} /\ proc'[ctl'[o].pid].pc = "exited" => final # {}
  PROVE  EndInv'
<1> USE DEF EndInv
<1>1. EndShapes' /\ CallsAnswered' /\ Tidied'
  BY DEF EndShapes, CallsAnswered, Tidied, Saved
<1>2. StaysTidy'
  BY DEF StaysTidy, Alive
<1> QED
  BY <1>1, <1>2

LEMMA TestEnd ==
  ASSUME OneDaemon, EndInv, NEW p \in Pids, TestCall(p) \/ TestReturns(p)
  PROVE  EndInv'
<1>1. PICK testing \in BOOLEAN : proc' = [proc EXCEPT ![p].testing = testing]
  BY DEF TestCall, TestReturns
<1>2. UNCHANGED <<pidFile, socket, saved, ctl, inst, final>>
  BY DEF TestCall, TestReturns
<1>3. \A q \in Pids : /\ {"pc", "registered", "foreground"} \subseteq DOMAIN proc'[q]
                      /\ proc'[q].pc = proc[q].pc
                      /\ proc'[q].registered = proc[q].registered
                      /\ proc'[q].foreground = proc[q].foreground
  BY <1>1 DEF OneDaemon, Shapes, EndInv, EndShapes
<1>4. \A o \in Operators : ctl'[o].pc \in {"signal", "wait"} /\ proc'[ctl'[o].pid].pc = "exited" => final # {}
  BY <1>2, <1>3 DEF EndInv, StaysTidy, OneDaemon, Controlled
<1> QED
  BY <1>2, <1>3, <1>4, RestEnd

\* start, stop and restart, as far as they leave the processes alone.
LEMMA ControlEnd ==
  ASSUME OneDaemon, EndInv, NEW o \in Operators,
         \/ StartCheck(o) \/ RemoveStale(o) \/ StopCheck(o) \/ Stopped(o) \/ TimedOut(o)
         \/ SendTermSignal(o) /\ ~Alive(ctl[o].pid)
  PROVE  EndInv'
<1>1. UNCHANGED <<proc, socket, saved, inst, final>> /\ pidFile' \in {pidFile, NoPid}
  BY DEF StartCheck, RemoveStale, StopCheck, Stopped, TimedOut, SendTermSignal
<1>2. ctl = [q \in Operators |-> ctl[q]] /\ {"pc", "pid"} \subseteq DOMAIN ctl[o]
  BY DEF OneDaemon, Shapes
<1>3. \A q \in Operators \ {o} : ctl'[q] = ctl[q]
  BY <1>2 DEF StartCheck, RemoveStale, StopCheck, Stopped, TimedOut, SendTermSignal
<1>4. ctl'[o].pc \in {"signal", "wait"} => proc[ctl'[o].pid].pc # "exited"
  <2>1. CASE StopCheck(o)
    <3>1. ctl'[o].pid = pidFile /\ Alive(pidFile)
      BY <1>2, <2>1 DEF StopCheck, IsRunning
    <3> QED
      BY <3>1 DEF Alive, Booting, Ending
  <2>2. CASE ~StopCheck(o)
    BY <1>2, <2>2 DEF StartCheck, RemoveStale, Stopped, TimedOut, SendTermSignal, NoCtl
  <2> QED
    BY <2>1, <2>2
<1>5. \A q \in Operators : ctl'[q].pc \in {"signal", "wait"} /\ proc'[ctl'[q].pid].pc = "exited" => final # {}
  BY <1>1, <1>3, <1>4 DEF EndInv, StaysTidy
<1>6. \A p \in Pids : {"pc", "registered", "foreground"} \subseteq DOMAIN proc[p]
  BY DEF EndInv, EndShapes
<1> QED
  BY <1>1, <1>5, <1>6, RestEnd

\* SIGTERM: the daemon takes notice of it, or is killed.
LEMMA SignalEnd ==
  ASSUME OneDaemon, EndInv, NEW o \in Operators, SendTermSignal(o), Alive(ctl[o].pid)
  PROVE  EndInv'
<1> DEFINE p == ctl[o].pid
<1>1. /\ p \in Pids /\ SIGTERM(p) /\ ctl' = [ctl EXCEPT ![o].pc = "wait"] /\ ctl[o].pc = "signal"
      /\ UNCHANGED <<pidFile, socket, saved, inst, final>>
  BY DEF SendTermSignal, OneDaemon, Controlled
<1>2. /\ ctl = [q \in Operators |-> ctl[q]] /\ {"pc", "pid"} \subseteq DOMAIN ctl[o]
      /\ proc = [q \in Pids |-> proc[q]]
  BY DEF OneDaemon, Shapes
<1>3. final = {}
  BY <1>1 DEF EndInv, StaysTidy
<1>4. {"pc", "registered", "foreground"} \subseteq DOMAIN proc[p]
  BY <1>1 DEF EndInv, EndShapes
<1>5. \A q \in Pids \ {p} : proc'[q] = proc[q]
  BY <1>1, <1>2 DEF SIGTERM
<1>6. /\ {"pc", "registered", "foreground"} \subseteq DOMAIN proc'[p]
      /\ proc'[p].pc = "serving" \/ proc'[p].pc = "killed"
      /\ proc'[p].pc = "serving" => proc[p].pc = "serving"
  <2>1. CASE proc[p].pc = "serving"
    <3>1. proc'[p] = [proc[p] EXCEPT !.term = TRUE]
      BY <1>1, <1>2, <2>1 DEF SIGTERM
    <3> QED
      BY <1>4, <2>1, <3>1
  <2>2. CASE proc[p].pc # "serving"
    <3>1. proc'[p] = Killed
      BY <1>1, <1>2, <2>2 DEF SIGTERM
    <3> QED
      BY <3>1 DEF Killed, Unborn
  <2> QED
    BY <2>1, <2>2
<1>7. EndShapes'
  BY <1>1, <1>5, <1>6 DEF EndInv, EndShapes
<1>8. CallsAnswered'
  BY <1>1, <1>5, <1>6 DEF EndInv, CallsAnswered, Answering
<1>9. Tidied'
  BY <1>1, <1>5, <1>6 DEF EndInv, Tidied, Saved
<1>10. StaysTidy'
  <2>1. \A q \in Operators : ctl'[q].pc \in {"signal", "wait"} => q = o \/ ctl'[q] = ctl[q]
    BY <1>2, <1>1
  <2>2. \A q \in Operators \ {o} : ctl[q].pc = "idle"
    BY <1>1 DEF OneDaemon, Controlled
  <2>3. ctl'[o].pid = p
    BY <1>1, <1>2
  <2> QED
    BY <1>1, <1>3, <1>6, <2>1, <2>2, <2>3 DEF StaysTidy
<1> QED
  BY <1>7, <1>8, <1>9, <1>10 DEF EndInv

LEMMA SpawnEnd ==
  ASSUME OneDaemon, EndInv, NEW o \in Operators, Spawn(o)
  PROVE  EndInv'
<1>1. PICK p \in Pids, foreground \in BOOLEAN :
        IsNext(p) /\ proc' = [proc EXCEPT ![p].pc = "load", ![p].foreground = foreground]
  BY DEF Spawn
<1>2. /\ ctl' = [ctl EXCEPT ![o] = NoCtl] /\ UNCHANGED <<socket, pidFile, saved, inst>> /\ final' = {}
      /\ proc[p].pc = "unborn"
      /\ \A q \in Operators \ {o} : ctl[q].pc = "idle"
  BY <1>1 DEF Spawn, IsNext, OneDaemon, Controlled
<1>3. {"pc", "registered", "foreground"} \subseteq DOMAIN proc[p] /\ proc = [q \in Pids |-> proc[q]]
      /\ ctl = [q \in Operators |-> ctl[q]]
  BY DEF EndInv, EndShapes, OneDaemon, Shapes
<1>4. /\ proc'[p].pc = "load" /\ {"pc", "registered", "foreground"} \subseteq DOMAIN proc'[p]
      /\ \A q \in Pids \ {p} : proc'[q] = proc[q]
  BY <1>1, <1>3
<1>5. EndShapes'
  BY <1>2, <1>4 DEF EndInv, EndShapes
<1>6. CallsAnswered'
  BY <1>2, <1>4 DEF EndInv, CallsAnswered, Answering
<1>7. Tidied'
  BY <1>2, <1>4 DEF EndInv, Tidied, Saved
<1>8. \A q \in Operators : ctl'[q].pc = "idle"
  BY <1>2, <1>3 DEF NoCtl
<1>9. StaysTidy'
  BY <1>2, <1>8 DEF StaysTidy
<1> QED
  BY <1>5, <1>6, <1>7, <1>9 DEF EndInv

\* An app command goes on, and nothing else changes.
LEMMA CommandEnd ==
  ASSUME EndInv, UNCHANGED <<proc, pidFile, socket, saved, ctl, final>>, NEW i \in Installers,
         inst' = [inst EXCEPT ![i] = inst'[i]], {"pc", "server"} \subseteq DOMAIN inst'[i],
         inst'[i].pc \in Accepted \union {"call"} => inst'[i].server \in Pids,
         inst'[i].pc \in Accepted => proc[inst'[i].server].pc \in Answering
  PROVE  EndInv'
<1> USE DEF EndInv
<1>1. \A j \in Installers \ {i} : inst'[j] = inst[j]
  BY DEF EndShapes
<1>2. EndShapes' /\ CallsAnswered'
  BY <1>1 DEF EndShapes, CallsAnswered
<1>3. Tidied' /\ StaysTidy'
  BY DEF Tidied, StaysTidy, Saved, Alive
<1> QED
  BY <1>2, <1>3

LEMMA ClientEnd ==
  ASSUME EndInv, NEW i \in Installers,
         \/ InstallBegin(i) \/ RemoveBegin(i) \/ Replace(i) \/ Rename(i) \/ Connect(i) \/ NotConnected(i)
         \/ Call(i) \/ CallBroken(i) \/ RemoveAll(i)
  PROVE  EndInv'
<1>1. UNCHANGED <<proc, pidFile, socket, saved, ctl, final>>
  BY DEF InstallBegin, RemoveBegin, Replace, Rename, Connect, NotConnected, Call, CallBroken, RemoveAll
<1>2. /\ inst = [j \in Installers |-> inst[j]] /\ {"pc", "server"} \subseteq DOMAIN inst[i]
      /\ inst[i].pc \in Accepted \union {"call"} => inst[i].server \in Pids
  BY DEF EndInv, EndShapes, CallsAnswered
<1>3. ASSUME NEW pc, Continue(i, pc), pc \in {"rename", "removeAll", "handle"},
             pc = "handle" => inst[i].pc = "call" /\ Accepting(inst[i].server)
      PROVE  EndInv'
  <2>1. /\ inst' = [inst EXCEPT ![i] = inst'[i]] /\ {"pc", "server"} \subseteq DOMAIN inst'[i]
        /\ inst'[i].pc = pc /\ inst'[i].server = inst[i].server
    BY <1>2, <1>3 DEF Continue
  <2>2. pc = "handle" => inst[i].server \in Pids /\ proc[inst[i].server].pc \in Answering
    BY <1>2, <1>3 DEF Accepting, Answering
  <2> QED
    BY <1>1, <1>3, <2>1, <2>2, CommandEnd DEF Accepted
<1>4. ASSUME Done(i) PROVE EndInv'
  <2>1. /\ inst' = [inst EXCEPT ![i] = inst'[i]] /\ {"pc", "server"} \subseteq DOMAIN inst'[i]
        /\ inst'[i].pc = "idle"
    BY <1>2, <1>4 DEF Done, NoInst
  <2> QED
    BY <1>1, <2>1, CommandEnd DEF Accepted
<1>5. WithoutDaemon(i) => EndInv'
  BY <1>3, <1>4 DEF WithoutDaemon
<1>6. CASE InstallBegin(i) \/ RemoveBegin(i)
  <2>1. /\ inst' = [inst EXCEPT ![i] = inst'[i]] /\ {"pc", "server"} \subseteq DOMAIN inst'[i]
        /\ inst'[i].pc \in {"replace", "connect"}
    <3>1. CASE InstallBegin(i)
      <4>1. PICK a, b : inst' = [inst EXCEPT ![i] = [NoInst EXCEPT !.pc = "replace", !.app = a, !.bundle = b]]
        BY <3>1 DEF InstallBegin
      <4> QED
        BY <1>2, <4>1 DEF NoInst
    <3>2. CASE RemoveBegin(i)
      <4>1. PICK a, path : inst' = [inst EXCEPT ![i] = [NoInst EXCEPT !.pc = "connect", !.app = a, !.path = path]]
        BY <3>2 DEF RemoveBegin
      <4> QED
        BY <1>2, <4>1 DEF NoInst
    <3> QED
      BY <1>6, <3>1, <3>2
  <2> QED
    BY <1>1, <2>1, CommandEnd DEF Accepted
<1>7. CASE Replace(i) \/ RemoveAll(i)
  BY <1>3, <1>4, <1>7 DEF Replace, RemoveAll
<1>8. CASE Rename(i)
  <2>1. CASE Done(i)
    BY <1>4, <2>1
  <2>2. CASE ~Done(i)
    <3>1. PICK path : inst' = [inst EXCEPT ![i].pc = "connect", ![i].path = path]
      BY <1>8, <2>2 DEF Rename
    <3>2. /\ inst' = [inst EXCEPT ![i] = inst'[i]] /\ {"pc", "server"} \subseteq DOMAIN inst'[i]
          /\ inst'[i].pc = "connect"
      BY <1>2, <3>1
    <3> QED
      BY <1>1, <3>2, CommandEnd DEF Accepted
  <2> QED
    BY <2>1, <2>2
<1>9. CASE Connect(i)
  <2>1. /\ inst' = [inst EXCEPT ![i] = inst'[i]] /\ {"pc", "server"} \subseteq DOMAIN inst'[i]
        /\ inst'[i].pc = "call" /\ inst'[i].server = socket
    BY <1>2, <1>9 DEF Connect
  <2>2. socket \in Pids
    BY <1>9 DEF Connect, Reachable, EndInv, EndShapes
  <2> QED
    BY <1>1, <2>1, <2>2, CommandEnd DEF Accepted
<1>10. CASE NotConnected(i) \/ Call(i) \/ CallBroken(i)
  BY <1>3, <1>5, <1>10 DEF NotConnected, Call, CallBroken
<1> QED
  BY <1>6, <1>7, <1>8, <1>9, <1>10

\* The handler of a call changes what the daemon knows, and saves it, while the daemon is
\* alive and works on the call.
LEMMA HandlerEnd ==
  ASSUME OneDaemon, EndInv, NEW i \in Installers, Handle(i) \/ HandlerSaves(i)
  PROVE  EndInv'
<1> DEFINE p == inst[i].server
<1>1. /\ p \in Pids /\ Alive(p) /\ proc[p].pc \in Answering /\ inst[i].pc \in Accepted
      /\ UNCHANGED <<pidFile, socket, ctl, final>>
  BY DEF Handle, HandlerSaves, EndInv, CallsAnswered, Accepted
<1>2. /\ inst = [j \in Installers |-> inst[j]] /\ {"pc", "server"} \subseteq DOMAIN inst[i]
      /\ {"pc", "registered", "foreground"} \subseteq DOMAIN proc[p] /\ proc = [q \in Pids |-> proc[q]]
  BY <1>1 DEF EndInv, EndShapes, OneDaemon, Shapes
<1>3. final = {}
  BY <1>1 DEF EndInv, StaysTidy
<1>4. /\ \A q \in Pids : /\ proc'[q].pc = proc[q].pc
                         /\ {"pc", "registered", "foreground"} \subseteq DOMAIN proc'[q]
      /\ \A q \in Pids \ {p} : proc'[q] = proc[q]
  <2>1. CASE HandlerSaves(i)
    BY <2>1 DEF HandlerSaves, EndInv, EndShapes
  <2>2. CASE Handle(i)
    <3>1. PICK registered : proc' = [proc EXCEPT ![p].registered = registered]
      BY <2>2 DEF Handle
    <3> QED
      BY <1>2, <3>1 DEF EndInv, EndShapes
  <2> QED
    BY <2>1, <2>2
<1>5. /\ inst' = [inst EXCEPT ![i] = inst'[i]] /\ {"pc", "server"} \subseteq DOMAIN inst'[i]
      /\ inst'[i].pc \in {"saveState", "removeAll", "idle"}
      /\ inst'[i].pc = "saveState" => inst'[i].server = p
  <2>1. CASE Done(i)
    BY <1>2, <2>1 DEF Done, NoInst
  <2>2. CASE Continue(i, "saveState") \/ Continue(i, "removeAll")
    BY <1>2, <2>2 DEF Continue
  <2> QED
    BY <2>1, <2>2 DEF Handle, HandlerSaves, WithoutDaemon
<1>6. \A j \in Installers \ {i} : inst'[j] = inst[j]
  BY <1>2, <1>5
<1>7. EndShapes'
  BY <1>1, <1>4, <1>5, <1>6 DEF EndInv, EndShapes
<1>8. CallsAnswered'
  BY <1>1, <1>4, <1>5, <1>6 DEF EndInv, CallsAnswered, Accepted
<1>9. Tidied'
  <2>1. \A q \in Pids : proc[q].pc # "removePID"
    <3> SUFFICES ASSUME NEW q \in Pids, proc[q].pc = "removePID" PROVE FALSE
      OBVIOUS
    <3>1. q = p
      BY <1>1 DEF OneDaemon, OneAlive, Alive, Ending
    <3> QED
      BY <1>1, <3>1 DEF Answering
  <2> QED
    BY <1>1, <1>4, <2>1 DEF EndInv, Tidied
<1>10. StaysTidy'
  <2>1. \A o \in Operators : ctl[o].pc \in {"signal", "wait"} => ctl[o].pid \in Pids
    BY DEF OneDaemon, Controlled
  <2> QED
    BY <1>1, <1>3, <1>4, <2>1 DEF EndInv, StaysTidy
<1> QED
  BY <1>7, <1>8, <1>9, <1>10 DEF EndInv

LEMMA EndStep == OneDaemon /\ EndInv /\ [Next]_vars => EndInv'
<1> SUFFICES ASSUME OneDaemon, EndInv, [Next]_vars PROVE EndInv'
  OBVIOUS
<1>1. CASE UNCHANGED vars
  <2> USE <1>1 DEF vars
  <2>1. EndShapes' /\ CallsAnswered' /\ Tidied' /\ StaysTidy'
    BY DEF EndInv, EndShapes, CallsAnswered, Tidied, StaysTidy, Saved, Alive
  <2> QED
    BY <2>1 DEF EndInv
<1>2. ASSUME NEW p \in Pids, DaemonSteps(p) \/ TestCall(p) \/ TestReturns(p) \/ Crash(p) PROVE EndInv'
  BY <1>2, DaemonEnd, TestEnd
<1>3. ASSUME NEW o \in Operators, ControlSteps(o) PROVE EndInv'
  BY <1>3, ControlEnd, SignalEnd, SpawnEnd DEF ControlSteps
<1>4. ASSUME NEW i \in Installers, InstallBegin(i) \/ RemoveBegin(i) \/ ClientSteps(i) PROVE EndInv'
  BY <1>4, ClientEnd, HandlerEnd DEF ClientSteps
<1> QED
  BY <1>1, <1>2, <1>3, <1>4 DEF Next

\* stop.go:46-56: when stop says "Daemon stopped", or restart goes on, the process that was
\* signalled is gone; and if it came to the end of Run, its PID file and its socket are removed
\* and what it knew is in the state file.
THEOREM StopAlwaysStops ==
  ASSUME Patient
  PROVE  Spec => StoppedMeansStopped
<1>1. OneDaemon /\ EndInv => (\A o \in Operators :
        ctl[o].pc = "wait" /\ ~IsRunning =>
          LET p == ctl[o].pid IN
          /\ Gone(p)
          /\ proc[p].pc = "exited" => pidFile = NoPid /\ socket = NoPid /\ final = {saved})
  <2> SUFFICES ASSUME OneDaemon, EndInv, NEW o \in Operators, ctl[o].pc = "wait", ~IsRunning
               PROVE  LET p == ctl[o].pid IN
                      /\ Gone(p)
                      /\ proc[p].pc = "exited" => pidFile = NoPid /\ socket = NoPid /\ final = {saved}
    OBVIOUS
  <2>1. ctl[o].pid \in Pids /\ proc[ctl[o].pid].pc # "unborn" /\ ~Alive(ctl[o].pid)
    BY CalmIsQuiet DEF OneDaemon, Controlled
  <2>2. Gone(ctl[o].pid)
    BY <2>1 DEF OneDaemon, Shapes, Alive, Gone
  <2>3. proc[ctl[o].pid].pc = "exited" => pidFile = NoPid /\ socket = NoPid /\ final = {saved}
    BY DEF EndInv, StaysTidy
  <2> QED
    BY <2>2, <2>3
<1>2. OneDaemon /\ EndInv /\ [Next]_vars =>
        [\A o \in Operators :
           ctl[o].pc = "wait" /\ ctl'[o].pc # "wait" /\ ~IsRunning =>
             LET p == ctl[o].pid IN
             /\ Gone(p)
             /\ proc[p].pc = "exited" => pidFile = NoPid /\ socket = NoPid /\ final = {saved}]_vars
  BY <1>1
<1>3. Spec => []OneDaemon
  BY OneDaemonInvariant
<1>4. Init => EndInv
  BY EndInit
<1>5. OneDaemon /\ EndInv /\ [Next]_vars => EndInv'
  BY EndStep
<1> QED
  BY <1>2, <1>3, <1>4, <1>5, PTL DEF Spec, StoppedMeansStopped

-----------------------------------------------------------------------------
(* The folder and the daemon. *)

\* No two app commands are about one app at a time.
OneCommandPerApp ==
  \A i, j \in Installers : inst[i].pc # "idle" /\ inst[j].pc # "idle" /\ inst[i].app = inst[j].app => i = j

Placed == {"connect", "call", "handle", "saveState", "removeAll"}

\* The records of processes and commands have their fields; a directory has its recurfile.
FolderShapes ==
  /\ apps = [a \in Apps |-> apps[a]]
  /\ \A a \in Apps : apps[a] # NoDir => FindRecurfile(apps[a]) # None
  /\ \A p \in Pids : {"registered", "names"} \subseteq DOMAIN proc[p]
  /\ socket \in Pids \union {NoPid}
  /\ inst = [i \in Installers |-> inst[i]]
  /\ \A i \in Installers : {"pc", "app", "bundle", "path", "server"} \subseteq DOMAIN inst[i]
  /\ \A o \in Operators : "restart" \in DOMAIN ctl[o]

\* Where an app command is, and what it has found.
CommandHeld(i) ==
  /\ inst[i].pc \in {"idle", "replace", "rename"} \union Placed
  /\ inst[i].pc # "idle" => inst[i].app \in Apps
  /\ inst[i].pc \in {"replace", "rename"} =>
       ~Removing(i) /\ FindRecurfile(inst[i].bundle) # None
  /\ inst[i].pc = "rename" => apps[inst[i].app] = NoDir
  /\ inst[i].pc \in Placed => apps[inst[i].app] # NoDir /\ inst[i].path = Path(inst[i].app)
  /\ inst[i].pc = "removeAll" => Removing(i)
  /\ inst[i].pc \in {"call", "handle", "saveState"} =>
       /\ inst[i].server \in Pids
       /\ \A p \in Pids : Alive(p) => p = inst[i].server
  /\ inst[i].pc \in {"saveState", "removeAll"} /\ Removing(i) =>
       \A p \in Pids : proc[p].pc = "serving" => inst[i].path \notin proc[p].registered

\* While an app command is there, no daemon starts.
NobodyLaunches ==
  Quiet \/ (/\ \A p \in Pids : proc[p].pc \notin Booting
            /\ \A o \in Operators : ctl[o].pc \notin {"removeStale", "spawn"}
                                    /\ (ctl[o].pc # "idle" => ~ctl[o].restart))

\* What is known of an app that is there is its recurfile, or was replaced.
KnownFollows ==
  \A f \in Known : f[1] \in Apps /\ (f \in Installed \union replaced \/ apps[f[1]] = NoDir)

Loaded == (Booting \ {"load"}) \union {"serving"}

\* A daemon that has loaded its state has only what is there, unless it is about to be replaced.
NothingElse ==
  \A p \in Pids : proc[p].pc \in Loaded => \A f \in proc[p].registered :
    f \in Installed \union replaced \/ \E i \in Installers : inst[i].pc = "rename" /\ inst[i].app = f[1]

Scanned == {"writePID", "saveArgs", "clean", "listen", "activate", "notify", "serving"}

\* A command is about to register the app, or to remove it.
OnItsWay(a) ==
  \E i \in Installers :
    inst[i].app = a /\ inst[i].pc \in IF Removing(i) THEN {"saveState", "removeAll"}
                                      ELSE {"connect", "call", "handle"}

\* An app is there that a daemon can load.
Usable(a) == Loads(Path(a))

\* A daemon that has scanned the folder has every app that is there and can be loaded.
NothingMissing ==
  \A p \in Pids : \A a \in Apps : Usable(a) =>
    /\ proc[p].pc = "scan" => a \in proc[p].names \/ Path(a) \in proc[p].registered
    /\ proc[p].pc \in Scanned => Path(a) \in proc[p].registered \/ OnItsWay(a)

FolderInv ==
  /\ FolderShapes /\ (\A i \in Installers : CommandHeld(i)) /\ NobodyLaunches
  /\ KnownFollows /\ NothingElse /\ NothingMissing

-----------------------------------------------------------------------------

LEMMA InstalledAre ==
  ASSUME FolderShapes
  PROVE  /\ \A f : f \in Installed <=> \E a \in Apps : apps[a] # NoDir /\ f = Path(a)
         /\ \A a \in Apps : Path(a)[1] = a /\ (Usable(a) => apps[a] # NoDir)
<1>1. \A a \in Apps : FindRecurfile(apps[a]) # None <=> apps[a] # NoDir
  BY DEF FolderShapes, FindRecurfile
<1> QED
  BY <1>1 DEF Installed, Path, Usable, Loads

LEMMA KnownAre ==
  \A f : f \in Known <=> (saved # NoState /\ f \in saved.paths) \/ \E p \in Pids : f \in proc[p].registered
  BY DEF Known

LEMMA FolderInit == Init => FolderInv
<1> SUFFICES ASSUME Init PROVE FolderInv
  OBVIOUS
<1>1. \A p \in Pids : proc[p] = Unborn
  BY DEF Init
<1>2. \A i \in Installers : inst[i] = NoInst
  BY DEF Init
<1>3. \A o \in Operators : ctl[o] = NoCtl
  BY DEF Init
<1>4. \A a \in Apps : apps[a] = NoDir
  BY DEF Init
<1>5. FolderShapes
  BY <1>1, <1>2, <1>3, <1>4 DEF Init, FolderShapes, Unborn, NoInst, NoCtl
<1>6. (\A i \in Installers : CommandHeld(i)) /\ NobodyLaunches
  BY <1>2 DEF CommandHeld, NobodyLaunches, Quiet, NoInst, Placed
<1>7. KnownFollows
  <2>1. \A f : f \notin Known
    BY <1>1, KnownAre DEF Init, Unborn
  <2> QED
    BY <2>1 DEF KnownFollows
<1>8. NothingElse /\ NothingMissing
  BY <1>1 DEF NothingElse, NothingMissing, Unborn, Loaded, Scanned, Booting
<1> QED
  BY <1>5, <1>6, <1>7, <1>8 DEF FolderInv

-----------------------------------------------------------------------------
(* Steps that leave the folder and its commands alone. *)

LEMMA ProcessesKeep ==
  ASSUME FolderInv, UNCHANGED <<apps, inst, replaced>>, FolderShapes', NobodyLaunches',
         \A f \in Known' : f \in Known \union Installed,
         \A p \in Pids :
           /\ Alive(p)' => Alive(p) \/ Quiet
           /\ proc'[p].pc = "serving" =>
                Quiet \/ (proc[p].pc = "serving" /\ proc'[p].registered = proc[p].registered)
           /\ proc'[p].pc \in Loaded => \A f \in proc'[p].registered :
                f \in Installed \union replaced \/ (proc[p].pc \in Loaded /\ f \in proc[p].registered)
           /\ proc'[p].pc = "scan" => \A a \in Apps : Usable(a) =>
                a \in proc'[p].names \/ Path(a) \in proc'[p].registered
           /\ proc'[p].pc \in Scanned => \A a \in Apps : Usable(a) =>
                \/ Path(a) \in proc'[p].registered
                \/ proc[p].pc \in Scanned /\ Path(a) \notin proc[p].registered
  PROVE  FolderInv'
<1> USE DEF FolderInv
<1>1. \A i \in Installers : CommandHeld(i)'
  BY DEF CommandHeld, Removing, Path, FindRecurfile, Quiet, Placed
<1>2. \A a \in Apps : Path(a)' = Path(a) /\ (OnItsWay(a)' <=> OnItsWay(a))
  BY DEF Path, OnItsWay, Removing
<1>3. Installed' = Installed
  BY DEF Installed, Path
<1>4. KnownFollows'
  <2>1. \A f \in Installed : f[1] \in Apps
    BY InstalledAre
  <2> QED
    BY <1>3, <2>1 DEF KnownFollows
<1>5. NothingElse'
  BY <1>3 DEF NothingElse
<1>6. NothingMissing'
  <2>1. \A a \in Apps : Usable(a)' <=> Usable(a)
    BY <1>2 DEF Usable, Loads
  <2> QED
    BY <1>2, <2>1 DEF NothingMissing
<1> QED
  BY <1>1, <1>4, <1>5, <1>6

\* A process p goes on, or ends, with the recurfiles it has.
LEMMA GoesOnKeeps ==
  ASSUME FolderInv, OneDaemon, UNCHANGED <<apps, inst, ctl, replaced>>, NEW p \in Pids, Alive(p),
         NEW r, proc' = [proc EXCEPT ![p] = r], {"pc", "registered", "names"} \subseteq DOMAIN r,
         r.registered \in {proc[p].registered, {}}, r.pc \in Loaded => r.registered = proc[p].registered,
         r.pc \notin {"load", "scan"}, socket' \in {socket, p, NoPid},
         r.pc \in Booting => proc[p].pc \in Booting,
         r.pc \in Loaded => proc[p].pc \in Loaded,
         r.pc \in Scanned => proc[p].pc \in Scanned,
         r.pc = "serving" => proc[p].pc \in {"notify", "serving"},
         \A f : saved' # NoState /\ f \in saved'.paths => f \in Known
  PROVE  FolderInv'
<1> USE DEF FolderInv
<1>1. proc'[p] = r /\ \A q \in Pids \ {p} : proc'[q] = proc[q]
  BY DEF OneDaemon, Shapes
<1>2. FolderShapes'
  BY <1>1 DEF FolderShapes
<1>3. NobodyLaunches'
  BY <1>1 DEF NobodyLaunches, Quiet
<1>4. \A f \in Known' : f \in Known
  <2>1. \A f : f \in Known' <=> (saved' # NoState /\ f \in saved'.paths) \/ \E q \in Pids : f \in proc'[q].registered
    BY DEF Known
  <2>2. \A q \in Pids : \A f \in proc'[q].registered : f \in proc[q].registered
    BY <1>1
  <2> QED
    BY <2>1, <2>2, KnownAre
<1>5. ASSUME NEW q \in Pids
      PROVE  /\ Alive(q)' => Alive(q) \/ Quiet
             /\ proc'[q].pc = "serving" =>
                  Quiet \/ (proc[q].pc = "serving" /\ proc'[q].registered = proc[q].registered)
             /\ proc'[q].pc \in Loaded => \A f \in proc'[q].registered :
                  f \in Installed \union replaced \/ (proc[q].pc \in Loaded /\ f \in proc[q].registered)
             /\ proc'[q].pc = "scan" => \A a \in Apps : Usable(a) =>
                  a \in proc'[q].names \/ Path(a) \in proc'[q].registered
             /\ proc'[q].pc \in Scanned => \A a \in Apps : Usable(a) =>
                  \/ Path(a) \in proc'[q].registered
                  \/ proc[q].pc \in Scanned /\ Path(a) \notin proc[q].registered
  <2>1. CASE q # p
    <3>1. proc'[q] = proc[q]
      BY <1>1, <2>1
    <3>2. Alive(q)' => Alive(q)
      BY <3>1 DEF Alive
    <3>3. proc[q].pc = "scan" => \A a \in Apps : Usable(a) =>
                a \in proc[q].names \/ Path(a) \in proc[q].registered
      BY DEF NothingMissing
    <3> QED
      BY <3>1, <3>2, <3>3
  <2>2. CASE q = p
    <3>1. proc[p].pc = "notify" => Quiet
      BY DEF NobodyLaunches, Booting
    <3>2. "serving" \in Scanned /\ Scanned \subseteq Loaded
      BY DEF Scanned, Loaded, Booting
    <3> QED
      BY <1>1, <2>2, <3>1, <3>2
  <2> QED
    BY <2>1, <2>2
<1> QED
  BY <1>2, <1>3, <1>4, <1>5, ProcessesKeep

\* The steps of Run that change where the process is and nothing else of it.
LEMMA PcStepFolder ==
  ASSUME FolderInv, OneDaemon, UNCHANGED <<apps, inst, ctl, replaced>>, NEW p \in Pids,
         NEW from, NEW to, Step(p, from, to) , from \in Booting \union Ending \union {"serving"},
         to \notin {"load", "scan"}, socket' \in {socket, p, NoPid},
         to \in Booting => from \in Booting,
         to \in Loaded => from \in Loaded,
         to \in Scanned => from \in Scanned,
         to = "serving" => from = "notify",
         saved' = saved \/ saved' = Saved(p)
  PROVE  FolderInv'
<1> DEFINE r == [proc[p] EXCEPT !.pc = to]
<1>1. proc[p].pc = from /\ Alive(p) /\ {"pc", "registered", "names"} \subseteq DOMAIN proc[p]
  BY DEF Step, Alive, OneDaemon, Shapes, FolderInv, FolderShapes
<1>2. {"pc", "registered", "names"} \subseteq DOMAIN r /\ r.pc = to /\ r.registered = proc[p].registered
  BY <1>1
<1>3. proc' = [proc EXCEPT ![p] = r]
  BY DEF Step
<1>4. \A f : saved' # NoState /\ f \in saved'.paths => f \in Known
  BY KnownAre DEF Saved
<1> HIDE DEF r
<1> QED
  BY <1>1, <1>2, <1>3, <1>4, GoesOnKeeps

LEMMA EndFolder ==
  ASSUME FolderInv, OneDaemon, UNCHANGED <<apps, inst, ctl, replaced, saved, socket>>, NEW p \in Pids, Alive(p),
         NEW r \in {Exited, Killed}, proc' = [proc EXCEPT ![p] = r]
  PROVE  FolderInv'
<1>1. {"pc", "registered", "names"} \subseteq DOMAIN r /\ r.pc \in {"exited", "killed"} /\ r.registered = {}
  BY DEF Exited, Killed, Unborn
<1>2. \A f : saved' # NoState /\ f \in saved'.paths => f \in Known
  BY KnownAre
<1> QED
  BY <1>1, <1>2, GoesOnKeeps DEF Booting, Loaded, Scanned

\* loadState registers what is there; scanAppFolder lists the folder and registers its apps.
LEMMA DataStepFolder ==
  ASSUME FolderInv, OneDaemon, NEW p \in Pids, LoadState(p) \/ ReadAppDir(p) \/ ScanApp(p)
  PROVE  FolderInv'
<1> USE DEF FolderInv
<1>1. /\ proc[p].pc \in {"load", "readDir", "scan"} /\ Alive(p)
      /\ UNCHANGED <<apps, inst, ctl, replaced, saved, socket>>
  BY DEF LoadState, ReadAppDir, ScanApp, Alive, Booting
<1>2. {"pc", "registered", "names"} \subseteq DOMAIN proc[p] /\ proc = [q \in Pids |-> proc[q]]
  BY DEF OneDaemon, Shapes, FolderShapes
<1>3. Quiet
  BY <1>1 DEF NobodyLaunches, Booting
<1>4. \A q \in Pids : proc[q].pc = "scan" => \A a \in Apps : Usable(a) =>
                a \in proc[q].names \/ Path(a) \in proc[q].registered
  BY DEF NothingMissing
<1>5. \A f : f \in Known' <=> (saved' # NoState /\ f \in saved'.paths) \/ \E q \in Pids : f \in proc'[q].registered
  BY DEF Known
<1>6. CASE LoadState(p)
  <2> DEFINE R == IF saved = NoState THEN {} ELSE {f \in saved.paths : Loads(f)}
  <2>1. /\ proc'[p].pc = "readDir" /\ proc'[p].registered = R
        /\ {"pc", "registered", "names"} \subseteq DOMAIN proc'[p]
        /\ \A q \in Pids \ {p} : proc'[q] = proc[q]
    BY <1>2, <1>6 DEF LoadState
  <2>2. \A f \in R : f \in Known /\ f \in Installed \union replaced
    <3>1. \A f \in R : f \in Known /\ apps[f[1]] # NoDir
      BY KnownAre DEF Loads
    <3> QED
      BY <3>1 DEF KnownFollows
  <2>3. \A f \in Known' : f \in Known
    BY <1>1, <1>5, <2>1, <2>2, KnownAre
  <2>4. FolderShapes' /\ NobodyLaunches'
    BY <1>1, <1>3, <2>1 DEF FolderShapes, NobodyLaunches, Quiet
  <2> HIDE DEF R
  <2>5. "readDir" \notin Scanned
    BY DEF Scanned
  <2>6. \A q \in Pids : (Alive(q)' => Alive(q)) /\ (q # p => proc'[q] = proc[q])
    BY <1>1, <2>1 DEF Alive
  <2> QED
    BY <1>1, <1>3, <1>4, <2>1, <2>2, <2>3, <2>4, <2>5, <2>6, ProcessesKeep
<1>7. CASE ReadAppDir(p)
  <2>1. /\ proc'[p].pc = "scan" /\ proc'[p].registered = proc[p].registered
        /\ proc'[p].names = {a \in Apps : apps[a] # NoDir}
        /\ {"pc", "registered", "names"} \subseteq DOMAIN proc'[p]
        /\ \A q \in Pids \ {p} : proc'[q] = proc[q]
    BY <1>2, <1>7 DEF ReadAppDir
  <2>3. \A f \in Known' : f \in Known
    BY <1>1, <1>5, <2>1, KnownAre
  <2>4. FolderShapes' /\ NobodyLaunches'
    BY <1>1, <1>3, <2>1 DEF FolderShapes, NobodyLaunches, Quiet
  <2>5. "scan" \notin Scanned /\ proc[p].pc \in Loaded
    BY <1>7 DEF Scanned, Loaded, Booting, ReadAppDir
  <2>6. \A q \in Pids : (Alive(q)' => Alive(q)) /\ (q # p => proc'[q] = proc[q])
    BY <1>1, <2>1 DEF Alive
  <2>7. \A a \in Apps : Usable(a) => a \in proc'[p].names
    BY <2>1, InstalledAre
  <2> QED
    BY <1>1, <1>3, <1>4, <2>1, <2>3, <2>4, <2>5, <2>6, <2>7, ProcessesKeep
<1>8. CASE ScanApp(p) /\ proc' = [proc EXCEPT ![p].pc = "writePID"] /\ proc[p].names = {}
  <2>1. /\ proc'[p].pc = "writePID" /\ proc'[p].registered = proc[p].registered
        /\ {"pc", "registered", "names"} \subseteq DOMAIN proc'[p]
        /\ \A q \in Pids \ {p} : proc'[q] = proc[q]
    BY <1>2, <1>8
  <2>3. \A f \in Known' : f \in Known
    BY <1>1, <1>5, <2>1, KnownAre
  <2>4. FolderShapes' /\ NobodyLaunches'
    BY <1>1, <1>3, <2>1 DEF FolderShapes, NobodyLaunches, Quiet
  <2>5. proc[p].pc = "scan" /\ proc[p].pc \in Loaded
    BY <1>8 DEF Loaded, Booting, ScanApp
  <2>6. \A q \in Pids : (Alive(q)' => Alive(q)) /\ (q # p => proc'[q] = proc[q])
    BY <1>1, <2>1 DEF Alive
  <2> QED
    BY <1>1, <1>3, <1>4, <1>8, <2>1, <2>3, <2>4, <2>5, <2>6, ProcessesKeep
<1>9. ASSUME NEW a \in proc[p].names, proc[p].pc = "scan",
             proc' = [proc EXCEPT ![p].names = @ \ {a},
                                  ![p].registered = @ \union {f \in Installed : f = Path(a) /\ Loads(f)}]
      PROVE  FolderInv'
  <2>1. /\ proc'[p].pc = "scan" /\ proc'[p].names = proc[p].names \ {a}
        /\ proc'[p].registered = proc[p].registered \union {f \in Installed : f = Path(a) /\ Loads(f)}
        /\ {"pc", "registered", "names"} \subseteq DOMAIN proc'[p]
        /\ \A q \in Pids \ {p} : proc'[q] = proc[q]
    BY <1>2, <1>9
  <2>3. \A f \in Known' : f \in Known \union Installed
    BY <1>1, <1>5, <2>1, KnownAre
  <2>4. FolderShapes' /\ NobodyLaunches'
    BY <1>1, <1>3, <2>1 DEF FolderShapes, NobodyLaunches, Quiet
  <2>5. "scan" \notin Scanned /\ proc[p].pc \in Loaded
    BY <1>9 DEF Scanned, Loaded, Booting
  <2>6. \A q \in Pids : (Alive(q)' => Alive(q)) /\ (q # p => proc'[q] = proc[q])
    BY <1>1, <2>1 DEF Alive
  <2>7. \A b \in Apps : Usable(b) => Path(b) \in Installed /\ Loads(Path(b))
    BY InstalledAre DEF Usable
  <2>8. \A b \in Apps : Usable(b) => b \in proc'[p].names \/ Path(b) \in proc'[p].registered
    BY <1>4, <1>9, <2>1, <2>7
  <2> QED
    BY <1>1, <1>3, <1>4, <2>1, <2>3, <2>4, <2>5, <2>6, <2>8, ProcessesKeep
<1> QED
  BY <1>6, <1>7, <1>8, <1>9 DEF ScanApp

LEMMA TestFolder ==
  ASSUME FolderInv, OneDaemon, NEW p \in Pids, TestCall(p) \/ TestReturns(p)
  PROVE  FolderInv'
<1> USE DEF FolderInv
<1>1. PICK testing \in BOOLEAN : proc' = [proc EXCEPT ![p].testing = testing]
  BY DEF TestCall, TestReturns
<1>2. UNCHANGED <<apps, inst, ctl, replaced, saved, socket>>
  BY DEF TestCall, TestReturns
<1>3. \A q \in Pids : /\ proc'[q].pc = proc[q].pc /\ proc'[q].registered = proc[q].registered
                      /\ proc'[q].names = proc[q].names /\ DOMAIN proc'[q] = DOMAIN proc[q]
  BY <1>1 DEF OneDaemon, Shapes, FolderShapes
<1>4. FolderShapes' /\ NobodyLaunches'
  BY <1>2, <1>3 DEF FolderShapes, NobodyLaunches, Quiet
<1>5. \A f \in Known' : f \in Known
  BY <1>2, <1>3 DEF Known
<1>6. \A q \in Pids : proc[q].pc = "scan" => \A a \in Apps : Usable(a) =>
                a \in proc[q].names \/ Path(a) \in proc[q].registered
  BY DEF NothingMissing
<1>7. \A q \in Pids : Alive(q)' => Alive(q)
  BY <1>3 DEF Alive
<1> QED
  BY <1>2, <1>3, <1>4, <1>5, <1>6, <1>7, ProcessesKeep

\* The steps of Run.
LEMMA DaemonFolder ==
  ASSUME FolderInv, OneDaemon, NEW p \in Pids, DaemonSteps(p) \/ TestCall(p) \/ TestReturns(p) \/ Crash(p)
  PROVE  FolderInv'
<1> USE DEF Booting, Ending, Loaded, Scanned
<1>1. CASE LoadState(p) \/ ReadAppDir(p) \/ ScanApp(p)
  BY <1>1, DataStepFolder
<1>2. CASE WritePID(p) \/ SaveArgs(p) \/ CleanupListener(p)
  BY <1>2, PcStepFolder DEF WritePID, SaveArgs, CleanupListener
<1>3. CASE Listen(p) \/ Serve(p) \/ Notify(p)
  BY <1>3, PcStepFolder DEF Listen, Serve, Notify
<1>4. CASE Terminate(p) \/ CloseListener(p) \/ GracefulStop(p) \/ SaveExit(p)
  BY <1>4, PcStepFolder DEF Terminate, CloseListener, GracefulStop, SaveExit, Step
<1>5. CASE RemovePID(p) \/ Crash(p)
  BY <1>5, EndFolder DEF RemovePID, Crash, Alive
<1> QED
  BY <1>1, <1>2, <1>3, <1>4, <1>5, TestFolder DEF DaemonSteps

\* A command goes on and the processes do not.
LEMMA CtlFolder ==
  ASSUME FolderInv, OneDaemon, NEW o \in Operators, UNCHANGED <<apps, inst, replaced, proc, saved, socket>>,
         ctl' = [ctl EXCEPT ![o] = ctl'[o]], "restart" \in DOMAIN ctl'[o],
         \/ Quiet
         \/ /\ ctl'[o].pc \notin {"removeStale", "spawn"}
            /\ ctl'[o].pc # "idle" => ~ctl'[o].restart
  PROVE  FolderInv'
<1> USE DEF FolderInv
<1>1. \A q \in Operators \ {o} : ctl'[q] = ctl[q]
  BY DEF OneDaemon, Shapes
<1>2. FolderShapes'
  BY <1>1 DEF FolderShapes
<1>3. NobodyLaunches'
  BY <1>1 DEF NobodyLaunches, Quiet
<1>4. \A f \in Known' : f \in Known
  BY DEF Known
<1>5. \A p \in Pids : proc[p].pc = "scan" => \A a \in Apps : Usable(a) =>
                a \in proc[p].names \/ Path(a) \in proc[p].registered
  BY DEF NothingMissing
<1>6. \A p \in Pids : Alive(p)' => Alive(p)
  BY DEF Alive
<1> QED
  BY <1>2, <1>3, <1>4, <1>5, <1>6, ProcessesKeep

\* A launch waits for the app commands, and so does a restart.
LEMMA LaunchFolder ==
  ASSUME Patient, FolderInv, OneDaemon, NEW o \in Operators,
         StartCheck(o) \/ RemoveStale(o) \/ StopCheck(o) \/ Stopped(o) \/ TimedOut(o)
  PROVE  FolderInv'
<1>1. {"pc", "restart"} \subseteq DOMAIN ctl[o] /\ ctl = [q \in Operators |-> ctl[q]]
  BY DEF OneDaemon, Shapes, FolderInv, FolderShapes
<1>2. UNCHANGED <<apps, inst, replaced, proc, saved, socket>>
  BY DEF StartCheck, RemoveStale, StopCheck, Stopped, TimedOut
<1>3. CASE StartCheck(o) \/ RemoveStale(o)
  <2>1. Quiet
    BY <1>3 DEF StartCheck, RemoveStale, MayLaunch, Quiet, FolderInv, NobodyLaunches
  <2>2. PICK pc : ctl' = [ctl EXCEPT ![o].pc = pc]
    BY <1>3 DEF StartCheck, RemoveStale
  <2>3. ctl' = [ctl EXCEPT ![o] = ctl'[o]] /\ "restart" \in DOMAIN ctl'[o]
    BY <1>1, <2>2
  <2> QED
    BY <1>2, <2>1, <2>3, CtlFolder
<1>4. CASE StopCheck(o)
  <2>1. PICK restart \in BOOLEAN :
          /\ restart => Quiet
          /\ ctl' = [ctl EXCEPT ![o] = [pc |-> "signal", restart |-> restart, pid |-> pidFile]]
    BY <1>4 DEF StopCheck, MayLaunch, Quiet
  <2>2. /\ ctl' = [ctl EXCEPT ![o] = ctl'[o]] /\ "restart" \in DOMAIN ctl'[o]
        /\ ctl'[o].pc = "signal" /\ ctl'[o].restart = restart
    BY <1>1, <2>1
  <2> QED
    BY <1>2, <2>1, <2>2, CtlFolder
<1>5. CASE Stopped(o) \/ TimedOut(o)
  <2>1. CASE ctl' = [ctl EXCEPT ![o] = NoCtl]
    <3>1. ctl' = [ctl EXCEPT ![o] = ctl'[o]] /\ ctl'[o] = NoCtl
      BY <1>1, <2>1
    <3> QED
      BY <1>2, <3>1, CtlFolder DEF NoCtl
  <2>2. CASE Stopped(o) /\ ctl[o].restart /\ ctl' = [ctl EXCEPT ![o] = [@ EXCEPT !.pc = "spawn"]]
    <3>1. Quiet
      BY <2>2 DEF Stopped, FolderInv, NobodyLaunches
    <3>2. ctl' = [ctl EXCEPT ![o] = ctl'[o]] /\ "restart" \in DOMAIN ctl'[o]
      BY <1>1, <2>2
    <3> QED
      BY <1>2, <3>1, <3>2, CtlFolder
  <2> QED
    BY <1>5, <2>1, <2>2 DEF Stopped, TimedOut
<1> QED
  BY <1>3, <1>4, <1>5

LEMMA SignalFolder ==
  ASSUME FolderInv, OneDaemon, NEW o \in Operators, SendTermSignal(o)
  PROVE  FolderInv'
<1> DEFINE p == ctl[o].pid
<1> USE DEF FolderInv
<1>1. ctl[o].pc = "signal" /\ p \in Pids /\ UNCHANGED <<apps, inst, replaced, saved, socket>>
  BY DEF SendTermSignal, OneDaemon, Controlled
<1>2. /\ {"pc", "restart"} \subseteq DOMAIN ctl[o] /\ ctl = [q \in Operators |-> ctl[q]]
      /\ proc = [q \in Pids |-> proc[q]] /\ {"pc", "registered", "names"} \subseteq DOMAIN proc[p]
  BY <1>1 DEF OneDaemon, Shapes, FolderShapes
<1>3. Quiet \/ ~ctl[o].restart
  BY <1>1 DEF NobodyLaunches
<1>4. CASE ~Alive(p)
  <2>1. ctl' = [ctl EXCEPT ![o] = NoCtl] /\ proc' = proc
    BY <1>4 DEF SendTermSignal
  <2>2. ctl' = [ctl EXCEPT ![o] = ctl'[o]] /\ ctl'[o] = NoCtl
    BY <1>2, <2>1
  <2>3. ctl'[o].pc = "idle" /\ "restart" \in DOMAIN ctl'[o]
    BY <2>2 DEF NoCtl
  <2> HIDE DEF FolderInv
  <2> QED
    BY <1>1, <2>1, <2>2, <2>3, CtlFolder
<1>5. CASE Alive(p)
  <2>1. SIGTERM(p) /\ ctl' = [ctl EXCEPT ![o].pc = "wait"]
    BY <1>5 DEF SendTermSignal
  <2>2. /\ ctl'[o].pc = "wait" /\ ctl'[o].restart = ctl[o].restart /\ "restart" \in DOMAIN ctl'[o]
        /\ \A q \in Operators \ {o} : ctl'[q] = ctl[q]
    BY <1>2, <2>1
  <2>3. /\ \A q \in Pids \ {p} : proc'[q] = proc[q]
        /\ {"pc", "registered", "names"} \subseteq DOMAIN proc'[p]
        /\ \/ proc[p].pc = "serving" /\ proc'[p].pc = "serving" /\ proc'[p].registered = proc[p].registered
           \/ proc'[p].pc = "killed" /\ proc'[p].registered = {}
    <3>1. CASE proc[p].pc = "serving"
      BY <1>1, <1>2, <2>1, <3>1 DEF SIGTERM
    <3>2. CASE proc[p].pc # "serving"
      BY <1>1, <1>2, <2>1, <3>2 DEF SIGTERM, Killed, Unborn
    <3> QED
      BY <3>1, <3>2
  <2>4. FolderShapes'
    BY <1>1, <2>2, <2>3 DEF FolderShapes
  <2>5. NobodyLaunches'
    BY <1>1, <1>3, <2>2, <2>3 DEF NobodyLaunches, Quiet, Booting
  <2>6. \A f \in Known' : f \in Known
    <3>1. \A f : f \in Known' <=> (saved # NoState /\ f \in saved.paths) \/ \E q \in Pids : f \in proc'[q].registered
      BY <1>1 DEF Known
    <3>2. \A q \in Pids : \A f \in proc'[q].registered : f \in proc[q].registered
      BY <2>3
    <3> QED
      BY <3>1, <3>2, KnownAre
  <2>7. \A q \in Pids : proc[q].pc = "scan" => \A a \in Apps : Usable(a) =>
                a \in proc[q].names \/ Path(a) \in proc[q].registered
    BY DEF NothingMissing
  <2>8. \A q \in Pids : (Alive(q)' => Alive(q)) /\ (q # p => proc'[q] = proc[q])
    BY <1>5, <2>3 DEF Alive
  <2>9. "killed" \notin Loaded /\ "killed" \notin Scanned /\ "serving" \in Loaded /\ "serving" \in Scanned
    BY DEF Loaded, Scanned, Booting
  <2> HIDE DEF p
  <2> QED
    BY <1>1, <2>3, <2>4, <2>5, <2>6, <2>7, <2>8, <2>9, ProcessesKeep
<1> QED
  BY <1>4, <1>5

LEMMA SpawnFolder ==
  ASSUME FolderInv, OneDaemon, NEW o \in Operators, Spawn(o)
  PROVE  FolderInv'
<1> USE DEF FolderInv
<1>1. PICK p \in Pids, foreground \in BOOLEAN :
        proc' = [proc EXCEPT ![p].pc = "load", ![p].foreground = foreground]
  BY DEF Spawn
<1>2. /\ ctl[o].pc = "spawn" /\ ctl' = [ctl EXCEPT ![o] = NoCtl]
      /\ UNCHANGED <<apps, inst, replaced, saved, socket>>
  BY DEF Spawn
<1>3. Quiet
  BY <1>2 DEF NobodyLaunches
<1>4. {"pc", "registered", "names"} \subseteq DOMAIN proc[p]
  BY DEF OneDaemon, Shapes, FolderShapes
<1>5. /\ proc'[p].pc = "load" /\ proc'[p].registered = proc[p].registered
      /\ {"pc", "registered", "names"} \subseteq DOMAIN proc'[p]
      /\ \A q \in Pids \ {p} : proc'[q] = proc[q]
  BY <1>1, <1>4 DEF OneDaemon, Shapes
<1>6. ctl'[o] = NoCtl /\ \A q \in Operators \ {o} : ctl'[q] = ctl[q]
  BY <1>2 DEF OneDaemon, Shapes
<1>7. FolderShapes' /\ NobodyLaunches'
  BY <1>2, <1>3, <1>5, <1>6 DEF FolderShapes, NobodyLaunches, Quiet, NoCtl
<1>8. \A f \in Known' : f \in Known
  <2>1. \A f : f \in Known' <=> (saved # NoState /\ f \in saved.paths) \/ \E q \in Pids : f \in proc'[q].registered
    BY <1>2 DEF Known
  <2> QED
    BY <1>5, <2>1, KnownAre
<1>9. \A q \in Pids : proc[q].pc = "scan" => \A a \in Apps : Usable(a) =>
              a \in proc[q].names \/ Path(a) \in proc[q].registered
  BY DEF NothingMissing
<1>10. "load" \notin Loaded /\ "load" \notin Scanned
  BY DEF Loaded, Scanned
<1> QED
  BY <1>2, <1>3, <1>5, <1>7, <1>8, <1>9, <1>10, ProcessesKeep

LEMMA ControlFolder ==
  ASSUME Patient, FolderInv, OneDaemon, NEW o \in Operators, ControlSteps(o)
  PROVE  FolderInv'
  BY LaunchFolder, SignalFolder, SpawnFolder DEF ControlSteps

-----------------------------------------------------------------------------
(* The steps of app commands. *)

Fields == {"pc", "app", "bundle", "path", "server"}

\* The command is about to register its app, or to remove it.
Way(c) == c.pc \in IF c.bundle = NoDir THEN {"saveState", "removeAll"} ELSE {"connect", "call", "handle"}

LEMMA WayIs == \A a : OnItsWay(a) <=> \E i \in Installers : inst[i].app = a /\ Way(inst[i])
  BY DEF OnItsWay, Way, Removing

Launchless ==
  /\ \A p \in Pids : proc[p].pc \notin Booting
  /\ \A o \in Operators : ctl[o].pc \notin {"removeStale", "spawn"} /\ (ctl[o].pc # "idle" => ~ctl[o].restart)

LEMMA BusyLaunchless ==
  ASSUME NobodyLaunches, NEW i \in Installers, inst[i].pc # "idle"
  PROVE  /\ Launchless
         /\ \A p \in Pids : proc[p].pc # "scan" /\ (proc[p].pc \in Scanned \union Loaded => proc[p].pc = "serving")
  BY DEF NobodyLaunches, Launchless, Quiet, Scanned, Loaded, Booting

\* A command goes on, or ends.
LEMMA Continued ==
  ASSUME FolderShapes, NEW i \in Installers, NEW pc, Continue(i, pc)
  PROVE  /\ inst' = [inst EXCEPT ![i] = inst'[i]] /\ Fields \subseteq DOMAIN inst'[i]
         /\ inst'[i].pc = pc /\ inst'[i].app = inst[i].app /\ inst'[i].bundle = inst[i].bundle
         /\ inst'[i].path = inst[i].path /\ inst'[i].server = inst[i].server
  BY DEF FolderShapes, Continue, Fields

LEMMA Ended ==
  ASSUME FolderShapes, NEW i \in Installers, Done(i)
  PROVE  /\ inst' = [inst EXCEPT ![i] = inst'[i]] /\ Fields \subseteq DOMAIN inst'[i]
         /\ inst'[i].pc = "idle" /\ ~Way(inst'[i]) /\ CommandHeld(i)'
<1>1. inst' = [inst EXCEPT ![i] = inst'[i]] /\ inst'[i] = NoInst
  BY DEF FolderShapes, Done
<1>2. Fields \subseteq DOMAIN NoInst /\ NoInst.pc = "idle" /\ ~Way(NoInst)
  BY DEF NoInst, Fields, Way
<1> QED
  BY <1>1, <1>2 DEF CommandHeld, Placed

\* The command i changes, the folder and the processes do not.
LEMMA CommandKeeps ==
  ASSUME FolderInv, NEW i \in Installers, UNCHANGED <<apps, proc, socket, ctl, replaced>>,
         \A f \in Known' : f \in Known,
         inst' = [inst EXCEPT ![i] = inst'[i]], Fields \subseteq DOMAIN inst'[i],
         CommandHeld(i)', inst[i].pc # "rename", Quiet => Launchless,
         \/ ~Way(inst[i])
         \/ Way(inst'[i]) /\ inst'[i].app = inst[i].app
         \/ ~Usable(inst[i].app)
         \/ \A p \in Pids : proc[p].pc # "serving"
  PROVE  FolderInv'
<1> USE DEF FolderInv
<1>1. \A j \in Installers \ {i} : inst'[j] = inst[j]
  BY DEF FolderShapes
<1>2. FolderShapes'
  BY <1>1 DEF FolderShapes, Fields
<1>3. \A a : Path(a)' = Path(a)
  BY DEF Path
<1>4. \A j \in Installers : CommandHeld(j)'
  <2> SUFFICES ASSUME NEW j \in Installers \ {i} PROVE CommandHeld(j)'
    OBVIOUS
  <2>1. CommandHeld(j)
    OBVIOUS
  <2> QED
    BY <1>1, <1>3, <2>1 DEF CommandHeld, Alive, Removing
<1>5. NobodyLaunches' /\ Launchless
  BY DEF NobodyLaunches, Launchless
<1>6. Installed' = Installed
  BY DEF Installed, Path
<1>7. KnownFollows'
  BY <1>6 DEF KnownFollows
<1>8. NothingElse'
  BY <1>1, <1>6 DEF NothingElse
<1>9. NothingMissing'
  <2>1. ASSUME NEW p \in Pids, proc[p].pc \in Scanned, NEW a \in Apps, OnItsWay(a), Usable(a)
        PROVE  OnItsWay(a)'
    <3>1. proc[p].pc = "serving"
      BY <1>5, <2>1 DEF Launchless, Scanned, Booting
    <3>2. \A b : OnItsWay(b)' <=> \E j \in Installers : inst'[j].app = b /\ Way(inst'[j])
      BY DEF OnItsWay, Way, Removing
    <3> QED
      BY <1>1, <2>1, <3>1, <3>2, WayIs
  <2>2. \A a : Usable(a)' <=> Usable(a)
    BY <1>3 DEF Usable, Loads
  <2> QED
    BY <1>3, <2>1, <2>2 DEF NothingMissing
<1> QED
  BY <1>2, <1>4, <1>5, <1>7, <1>8, <1>9

\* What a daemon has of the app a after the command i is its recurfile, or (about to be) replaced.
NoStranger(i, a, dir) ==
  \A p \in Pids : proc[p].pc = "serving" => \A f \in proc[p].registered : f[1] = a =>
    f \in replaced' \/ inst'[i].pc = "rename" \/ (dir # NoDir /\ f = <<a, FindRecurfile(dir)>>)

\* The command i changes the directory of its app.
LEMMA DirectoryKeeps ==
  ASSUME FolderInv, OneCommandPerApp, NEW i \in Installers, inst[i].pc # "idle", NEW a, a = inst[i].app,
         UNCHANGED <<proc, socket, ctl, saved>>, NEW dir, apps' = [apps EXCEPT ![a] = dir],
         dir # NoDir => FindRecurfile(dir) # None,
         inst' = [inst EXCEPT ![i] = inst'[i]], Fields \subseteq DOMAIN inst'[i], CommandHeld(i)',
         inst'[i].pc = "idle" \/ inst'[i].app = a,
         replaced \subseteq replaced',
         \A f \in Known : f[1] = a => dir = NoDir \/ f \in replaced' \/ f = <<a, FindRecurfile(dir)>>,
         NoStranger(i, a, dir),
         dir # NoDir => Way(inst'[i])
  PROVE  FolderInv'
<1> USE DEF FolderInv
<1>0. a \in Apps /\ CommandHeld(i)
  BY DEF CommandHeld
<1>1. \A j \in Installers \ {i} : inst'[j] = inst[j]
  BY DEF FolderShapes
<1>2. /\ apps'[a] = dir /\ \A b \in Apps \ {a} : apps'[b] = apps[b]
      /\ apps' = [b \in Apps |-> apps'[b]]
  BY <1>0 DEF FolderShapes
<1>3. FolderShapes'
  BY <1>1, <1>2 DEF FolderShapes, Fields
<1>4. \A b \in Apps \ {a} : Path(b)' = Path(b)
  BY <1>2 DEF Path
<1>14. Path(a)' = <<a, FindRecurfile(dir)>>
  BY <1>2 DEF Path
<1>5. \A j \in Installers : CommandHeld(j)'
  <2> SUFFICES ASSUME NEW j \in Installers \ {i} PROVE CommandHeld(j)'
    OBVIOUS
  <2>1. CommandHeld(j)
    OBVIOUS
  <2>2. inst[j].pc = "idle" \/ inst[j].app \in Apps \ {a}
    BY <2>1 DEF CommandHeld, OneCommandPerApp
  <2>3. CASE inst[j].pc = "idle"
    BY <1>1, <2>3 DEF CommandHeld, Placed
  <2>4. CASE inst[j].app \in Apps \ {a}
    <3>1. apps'[inst'[j].app] = apps[inst[j].app] /\ Path(inst[j].app)' = Path(inst[j].app)
      BY <1>1, <1>2, <2>4 DEF Path
    <3> QED
      BY <1>1, <2>1, <3>1 DEF CommandHeld, Alive, Removing
  <2> QED
    BY <2>2, <2>3, <2>4
<1>6. Launchless /\ \A p \in Pids : proc[p].pc # "scan" /\ (proc[p].pc \in Scanned \union Loaded => proc[p].pc = "serving")
  BY BusyLaunchless
<1>7. NobodyLaunches'
  BY <1>6 DEF NobodyLaunches, Launchless
<1>8. \A f : f \in Installed' <=> \E b \in Apps : apps'[b] # NoDir /\ f = Path(b)'
  <2>1. \A b \in Apps : (FindRecurfile(apps[b]) # None)' <=> apps'[b] # NoDir
    BY <1>3 DEF FolderShapes, FindRecurfile
  <2> QED
    BY <2>1 DEF Installed
<1>9. \A f \in Installed : f \in Installed' \/ f[1] = a
  <2>1. \A b \in Apps : Path(b)[1] = b
    BY InstalledAre
  <2> QED
    BY <1>2, <1>4, <1>8, <2>1, InstalledAre
<1>10. dir # NoDir => Path(a)' \in Installed'
  BY <1>0, <1>2, <1>8
<1>11. KnownFollows'
  <2> SUFFICES ASSUME NEW f \in Known PROVE f[1] \in Apps /\ (f \in Installed' \union replaced' \/ apps'[f[1]] = NoDir)
    BY DEF KnownFollows, Known
  <2>1. f[1] \in Apps /\ (f \in Installed \union replaced \/ apps[f[1]] = NoDir)
    BY DEF KnownFollows
  <2>2. CASE f[1] = a
    BY <1>2, <1>10, <1>14, <2>1, <2>2
  <2>3. CASE f[1] # a
    BY <1>2, <1>9, <2>1, <2>3
  <2> QED
    BY <2>2, <2>3
<1>12. NothingElse'
  <2> SUFFICES ASSUME NEW p \in Pids, proc[p].pc \in Loaded, NEW f \in proc[p].registered
               PROVE  f \in Installed' \union replaced' \/ \E j \in Installers : inst'[j].pc = "rename" /\ inst'[j].app = f[1]
    BY DEF NothingElse
  <2>1. proc[p].pc = "serving"
    BY <1>6
  <2>2. CASE f[1] = a
    BY <1>10, <1>14, <2>1, <2>2 DEF NoStranger
  <2>3. CASE f[1] # a
    <3>1. f \in Installed \union replaced \/ \E j \in Installers : inst[j].pc = "rename" /\ inst[j].app = f[1]
      BY DEF NothingElse
    <3> QED
      BY <1>1, <1>9, <2>3, <3>1
  <2> QED
    BY <2>2, <2>3
<1>13. NothingMissing'
  <2> SUFFICES ASSUME NEW p \in Pids, proc[p].pc \in Scanned, NEW b \in Apps, Usable(b)'
               PROVE  Path(b)' \in proc[p].registered \/ OnItsWay(b)'
    BY <1>6 DEF NothingMissing
  <2>1. \A c : OnItsWay(c)' <=> \E j \in Installers : inst'[j].app = c /\ Way(inst'[j])
    BY DEF OnItsWay, Way, Removing
  <2>2. CASE b = a
    <3>1. Way(inst'[i]) /\ inst'[i].pc # "idle"
      BY <1>2, <1>14, <2>2 DEF Way, Usable, Loads
    <3> QED
      BY <2>1, <2>2, <3>1
  <2>3. CASE b # a
    <3>2. Path(b)' = Path(b) /\ Path(b)[1] = b /\ apps'[b] = apps[b]
      BY <1>2, <1>4, <2>3 DEF Path
    <3>3. Usable(b)
      BY <3>2 DEF Usable, Loads
    <3>1. Path(b) \in proc[p].registered \/ OnItsWay(b)
      BY <3>3 DEF NothingMissing
    <3> QED
      BY <1>1, <1>4, <2>1, <2>3, <3>1, WayIs
  <2> QED
    BY <2>2, <2>3
<1> QED
  BY <1>3, <1>5, <1>7, <1>11, <1>12, <1>13

LEMMA BeginFolder ==
  ASSUME Patient, FolderInv, NEW i \in Installers, InstallBegin(i) \/ RemoveBegin(i)
  PROVE  FolderInv'
<1>1. inst[i].pc = "idle" /\ MayInstall /\ UNCHANGED <<apps, proc, socket, ctl, replaced, saved>>
  BY DEF InstallBegin, RemoveBegin
<1>2. Launchless
  <2>1. \A p \in Pids : proc[p].pc \notin Booting
    BY <1>1 DEF MayInstall, Calm, Alive
  <2> QED
    BY <1>1, <2>1 DEF Launchless, MayInstall
<1>3. ~Way(inst[i])
  BY <1>1 DEF Way
<1>4. \A f \in Known' : f \in Known
  BY <1>1 DEF Known
<1>5. Fields \subseteq DOMAIN inst[i] /\ inst = [j \in Installers |-> inst[j]]
  BY DEF FolderInv, FolderShapes, Fields
<1>6. inst' = [inst EXCEPT ![i] = inst'[i]] /\ Fields \subseteq DOMAIN inst'[i] /\ CommandHeld(i)'
  <2>1. CASE InstallBegin(i)
    <3>1. PICK a \in Apps, b \in Bundles :
            /\ Unpack(b) # NoDir
            /\ inst' = [inst EXCEPT ![i] = [NoInst EXCEPT !.pc = "replace", !.app = a, !.bundle = Unpack(b)]]
      BY <2>1 DEF InstallBegin
    <3>2. /\ inst' = [inst EXCEPT ![i] = inst'[i]] /\ Fields \subseteq DOMAIN inst'[i]
          /\ inst'[i].pc = "replace" /\ inst'[i].app = a /\ inst'[i].bundle = Unpack(b)
      BY <1>5, <3>1 DEF NoInst, Fields
    <3>3. FindRecurfile(Unpack(b)) # None
      BY <3>1 DEF Unpack, FindRecurfile
    <3> QED
      BY <3>1, <3>2, <3>3 DEF CommandHeld, Removing, Placed
  <2>2. CASE RemoveBegin(i)
    <3>1. PICK a \in Apps :
            /\ apps[a] # NoDir
            /\ inst' = [inst EXCEPT ![i] = [NoInst EXCEPT !.pc = "connect", !.app = a, !.path = Path(a)]]
      BY <2>2 DEF RemoveBegin
    <3>2. /\ inst' = [inst EXCEPT ![i] = inst'[i]] /\ Fields \subseteq DOMAIN inst'[i]
          /\ inst'[i].pc = "connect" /\ inst'[i].app = a /\ inst'[i].path = Path(a)
      BY <1>5, <3>1 DEF NoInst, Fields
    <3>3. apps' = apps /\ Path(inst[i].app)' = Path(a)
      BY <1>1, <3>2 DEF Path
    <3> QED
      BY <3>1, <3>2, <3>3 DEF CommandHeld, Placed
  <2> QED
    BY <2>1, <2>2
<1> QED
  BY <1>1, <1>2, <1>3, <1>4, <1>6, CommandKeeps

\* The steps that change where the command is.
LEMMA ConversationFolder ==
  ASSUME FolderInv, OneDaemon, NEW i \in Installers,
         Connect(i) \/ NotConnected(i) \/ Call(i) \/ HandlerSaves(i) \/ CallBroken(i)
  PROVE  FolderInv'
<1>0. FolderShapes /\ CommandHeld(i) /\ NobodyLaunches
  BY DEF FolderInv
<1>1. /\ inst[i].pc \in {"connect", "call", "handle", "saveState"}
      /\ UNCHANGED <<apps, proc, socket, ctl, replaced>>
  BY DEF Connect, NotConnected, Call, HandlerSaves, CallBroken
<1>2. Launchless /\ inst[i].pc # "rename" /\ ~Quiet
  BY <1>0, <1>1, BusyLaunchless DEF Quiet
<1>3. \A f \in Known' : f \in Known
  <2>1. CASE UNCHANGED saved
    BY <1>1, <2>1 DEF Known
  <2>2. CASE HandlerSaves(i)
    <3>1. inst[i].server \in Pids
      BY <1>0, <2>2 DEF CommandHeld, HandlerSaves
    <3>2. \A f : f \in Known' <=> (saved' # NoState /\ f \in saved'.paths) \/ \E q \in Pids : f \in proc[q].registered
      BY <1>1 DEF Known
    <3> QED
      BY <2>2, <3>1, <3>2, KnownAre DEF HandlerSaves, Saved
  <2> QED
    BY <2>1, <2>2 DEF Connect, NotConnected, Call, CallBroken
<1>4. \A a : Path(a)' = Path(a)
  BY <1>1 DEF Path
<1>5. \A p \in Pids : Alive(p)' <=> Alive(p)
  BY <1>1 DEF Alive
<1>6. inst[i].pc \in Placed /\ inst[i].app \in Apps /\ apps[inst[i].app] # NoDir /\ inst[i].path = Path(inst[i].app)
  BY <1>0, <1>1 DEF CommandHeld, Placed
<1>8. ASSUME NEW pc, Continue(i, pc), pc \in {"handle", "removeAll"},
             pc = "handle" => inst[i].pc = "call",
             pc = "removeAll" =>
               /\ Removing(i)
               /\ inst[i].pc # "saveState" => \A p \in Pids : proc[p].pc = "serving" => inst[i].path \notin proc[p].registered
      PROVE  FolderInv'
  <2>1. /\ inst' = [inst EXCEPT ![i] = inst'[i]] /\ Fields \subseteq DOMAIN inst'[i]
        /\ inst'[i].pc = pc /\ inst'[i].app = inst[i].app /\ inst'[i].bundle = inst[i].bundle
        /\ inst'[i].path = inst[i].path /\ inst'[i].server = inst[i].server
    BY <1>0, <1>8, Continued
  <2>2. apps'[inst'[i].app] # NoDir /\ inst'[i].path = Path(inst[i].app)' /\ inst'[i].app \in Apps
    BY <1>1, <1>6, <2>1 DEF Path
  <2>3. (Removing(i)' <=> Removing(i)) /\ proc' = proc
    BY <1>1, <2>1 DEF Removing
  <2>4. CommandHeld(i)'
    BY <1>0, <1>5, <1>8, <2>1, <2>2, <2>3 DEF CommandHeld, Placed
  <2>5. (Way(inst[i]) => Way(inst'[i])) \/ \A p \in Pids : proc[p].pc # "serving"
    BY <1>8, <2>1 DEF Way, Removing
  <2> QED
    BY <1>1, <1>2, <1>3, <2>1, <2>4, <2>5, CommandKeeps
<1>9. ASSUME Done(i), ~Way(inst[i]) \/ ~Usable(inst[i].app) \/ \A p \in Pids : proc[p].pc # "serving"
      PROVE  FolderInv'
  BY <1>0, <1>1, <1>2, <1>3, <1>9, CommandKeeps, Ended
<1>10. ASSUME WithoutDaemon(i), \A p \in Pids : proc[p].pc # "serving" PROVE FolderInv'
  BY <1>8, <1>9, <1>10 DEF WithoutDaemon
<1>11. CASE Connect(i)
  <2>1. /\ inst[i].pc = "connect" /\ Reachable
        /\ inst' = [inst EXCEPT ![i].pc = "call", ![i].server = socket]
    BY <1>11 DEF Connect
  <2>2. /\ inst' = [inst EXCEPT ![i] = inst'[i]] /\ Fields \subseteq DOMAIN inst'[i]
        /\ inst'[i].pc = "call" /\ inst'[i].app = inst[i].app /\ inst'[i].bundle = inst[i].bundle
        /\ inst'[i].path = inst[i].path /\ inst'[i].server = socket
    BY <1>0, <2>1 DEF FolderShapes, Fields
  <2>3. socket \in Pids /\ \A p \in Pids : Alive(p) => p = socket
    BY <1>0, <2>1 DEF Reachable, Accepting, Alive, Booting, OneDaemon, OneAlive, FolderShapes
  <2>4. apps'[inst'[i].app] # NoDir /\ inst'[i].path = Path(inst[i].app)' /\ inst'[i].app \in Apps
    BY <1>1, <1>6, <2>2 DEF Path
  <2>5. CommandHeld(i)'
    BY <1>5, <2>2, <2>3, <2>4 DEF CommandHeld, Placed
  <2>6. Way(inst[i]) => Way(inst'[i])
    BY <2>1, <2>2 DEF Way
  <2> QED
    BY <1>1, <1>2, <1>3, <2>2, <2>5, <2>6, CommandKeeps
<1>12. CASE NotConnected(i)
  <2>1. ASSUME NEW p \in Pids, proc[p].pc = "serving" PROVE FALSE
    <3>1. socket = p
      BY <2>1 DEF OneDaemon, FilesLead, Socketed
    <3>2. Reachable
      BY <2>1, <3>1, LifecycleAssumption DEF Reachable, Accepting, Pids
    <3> QED
      BY <1>12, <3>2 DEF NotConnected
  <2> QED
    BY <1>10, <1>12, <2>1 DEF NotConnected
<1>13. CASE Call(i)
  <2>1. CASE Accepting(inst[i].server)
    BY <1>8, <1>13, <2>1 DEF Call
  <2>2. CASE ~Accepting(inst[i].server)
    <3>1. inst[i].pc = "call" /\ WithoutDaemon(i)
      BY <1>13, <2>2 DEF Call
    <3>2. \A p \in Pids : proc[p].pc = "serving" => p = inst[i].server
      BY <1>0, <3>1 DEF CommandHeld, Alive
    <3> QED
      BY <1>10, <2>2, <3>1, <3>2 DEF Accepting
  <2> QED
    BY <2>1, <2>2
<1>14. CASE HandlerSaves(i)
  <2>1. inst[i].pc = "saveState" /\ WithoutDaemon(i)
    BY <1>14 DEF HandlerSaves
  <2> QED
    BY <1>8, <1>9, <2>1 DEF WithoutDaemon, Way, Removing
<1>15. CASE CallBroken(i)
  <2>1. inst[i].pc \in {"handle", "saveState"} /\ WithoutDaemon(i)
    BY <1>15 DEF CallBroken
  <2>2. \A p \in Pids : proc[p].pc = "serving" => p = inst[i].server /\ Alive(p)
    BY <1>0, <2>1 DEF CommandHeld, Alive
  <2>3. CASE ~Alive(inst[i].server)
    BY <1>10, <2>1, <2>2, <2>3
  <2>4. CASE Removing(i) /\ inst[i].path \notin proc[inst[i].server].registered
    BY <1>8, <2>1, <2>2, <2>4 DEF WithoutDaemon
  <2>5. CASE ~Removing(i) /\ ~Usable(inst[i].app)
    BY <1>9, <2>1, <2>5 DEF WithoutDaemon
  <2> QED
    BY <1>6, <1>15, <2>3, <2>4, <2>5 DEF CallBroken, Refused, Usable
<1> QED
  BY <1>11, <1>12, <1>13, <1>14, <1>15

\* The steps that change the folder.
LEMMA DirectoryFolder ==
  ASSUME FolderInv, OneCommandPerApp, NEW i \in Installers, Replace(i) \/ Rename(i) \/ RemoveAll(i)
  PROVE  FolderInv'
<1> DEFINE a == inst[i].app
           path == <<a, FindRecurfile(inst[i].bundle)>>
<1>1. FolderShapes /\ CommandHeld(i) /\ inst[i].pc \in {"replace", "rename", "removeAll"} /\ a \in Apps
  BY DEF FolderInv, CommandHeld, Replace, Rename, RemoveAll
<1>2. UNCHANGED <<proc, socket, ctl, saved>>
  BY DEF Replace, Rename, RemoveAll
<1>3. Launchless
  BY <1>1, BusyLaunchless DEF FolderInv
<1>4. \A f : f \in Known' <=> f \in Known
  BY <1>2 DEF Known
<1>5. \A p \in Pids : \A f \in proc[p].registered : f \in Known
  BY KnownAre
<1>6. apps = [b \in Apps |-> apps[b]]
  BY <1>1 DEF FolderShapes
<1>7. CASE Replace(i)
  <2>1. inst[i].pc = "replace" /\ replaced' = replaced
    BY <1>7 DEF Replace
  <2>2. CASE apps' = [apps EXCEPT ![a] = NoDir] /\ Continue(i, "rename")
    <3>1. /\ inst' = [inst EXCEPT ![i] = inst'[i]] /\ Fields \subseteq DOMAIN inst'[i]
          /\ inst'[i].pc = "rename" /\ inst'[i].app = a /\ inst'[i].bundle = inst[i].bundle
      BY <1>1, <2>2, Continued
    <3>2. apps'[inst'[i].app] = NoDir
      BY <1>1, <1>6, <2>2, <3>1
    <3>3. CommandHeld(i)'
      BY <1>1, <2>1, <3>1, <3>2 DEF CommandHeld, Removing, Placed
    <3> HIDE DEF a
    <3> QED
      BY <1>1, <1>2, <2>1, <2>2, <3>1, <3>3, DirectoryKeeps DEF a, NoStranger
  <2>3. CASE apps' = apps /\ Done(i)
    <3>1. ~Way(inst[i])
      BY <2>1 DEF Way
    <3> QED
      BY <1>1, <1>2, <1>3, <1>4, <2>1, <2>3, <3>1, Ended, CommandKeeps
  <2> QED
    BY <1>7, <2>2, <2>3 DEF Replace
<1>8. CASE Rename(i)
  <2>1. /\ inst[i].pc = "rename" /\ apps[a] = NoDir /\ FindRecurfile(inst[i].bundle) # None
        /\ inst[i].bundle # NoDir
    BY <1>1, <1>8 DEF CommandHeld, Removing, Rename
  <2>2. CASE /\ apps' = [apps EXCEPT ![a] = inst[i].bundle]
             /\ inst' = [inst EXCEPT ![i].pc = "connect", ![i].path = path]
             /\ replaced' = replaced \union ({f \in Known : f[1] = a} \ {path})
    <3>1. /\ inst' = [inst EXCEPT ![i] = inst'[i]] /\ Fields \subseteq DOMAIN inst'[i]
          /\ inst'[i].pc = "connect" /\ inst'[i].app = a /\ inst'[i].bundle = inst[i].bundle
          /\ inst'[i].path = path
      BY <1>1, <2>2 DEF FolderShapes, Fields
    <3>2. apps'[a] = inst[i].bundle /\ path = <<a, FindRecurfile(apps'[a])>>
      BY <1>1, <1>6, <2>1, <2>2 DEF FindRecurfile
    <3>3. CommandHeld(i)'
      BY <1>1, <2>1, <3>1, <3>2 DEF CommandHeld, Path, Placed
    <3>4. Way(inst'[i])
      BY <2>1, <3>1 DEF Way
    <3>5. path = <<a, FindRecurfile(inst[i].bundle)>>
      BY <2>1 DEF FindRecurfile
    <3>6. replaced \subseteq replaced' /\ \A f \in Known : f[1] = a => f \in replaced' \/ f = path
      BY <2>2
    <3> QED
      <4> SUFFICES ASSUME NEW c, c = a, NEW dir, dir = inst[i].bundle PROVE FolderInv'
        OBVIOUS
      <4>1. apps' = [apps EXCEPT ![c] = dir] /\ dir # NoDir /\ FindRecurfile(dir) # None
        BY <2>1, <2>2
      <4>2. inst'[i].app = c /\ \A f \in Known : f[1] = c => f \in replaced' \/ f = <<c, FindRecurfile(dir)>>
        BY <3>1, <3>5, <3>6
      <4>3. NoStranger(i, c, dir)
        BY <1>5, <4>1, <4>2 DEF NoStranger
      <4>4. inst[i].pc # "idle" /\ c = inst[i].app /\ (inst'[i].pc = "idle" \/ inst'[i].app = c)
        BY <2>1, <3>1
      <4>5. /\ dir # NoDir => FindRecurfile(dir) # None
            /\ \A f \in Known : f[1] = c => dir = NoDir \/ f \in replaced' \/ f = <<c, FindRecurfile(dir)>>
            /\ dir # NoDir => Way(inst'[i])
        BY <3>4, <4>1, <4>2
      <4> HIDE DEF path, a
      <4> QED
        BY <1>2, <3>1, <3>3, <3>6, <4>1, <4>4, <4>3, <4>5, DirectoryKeeps
  <2>3. CASE apps' = apps /\ Done(i) /\ replaced' = replaced \union {f \in Known : f[1] = a}
    <3>1. apps' = [apps EXCEPT ![a] = NoDir]
      BY <1>6, <2>1, <2>3
    <3>2. replaced \subseteq replaced' /\ \A f \in Known : f[1] = a => f \in replaced'
      BY <2>3
    <3>3. /\ inst' = [inst EXCEPT ![i] = inst'[i]] /\ Fields \subseteq DOMAIN inst'[i]
          /\ inst'[i].pc = "idle" /\ CommandHeld(i)'
      BY <1>1, <2>3, Ended
    <3> HIDE DEF a
    <3> QED
      BY <1>1, <1>2, <1>5, <3>1, <3>2, <3>3, DirectoryKeeps DEF a, NoStranger
  <2> QED
    BY <1>8, <2>2, <2>3 DEF Rename
<1>9. CASE RemoveAll(i)
  <2>1. inst[i].pc = "removeAll" /\ replaced' = replaced /\ Done(i) /\ apps' = [apps EXCEPT ![a] = NoDir]
    BY <1>9 DEF RemoveAll
  <2>2. inst[i].path = Path(a) /\ \A p \in Pids : proc[p].pc = "serving" => Path(a) \notin proc[p].registered
    BY <1>1, <2>1 DEF CommandHeld, Placed
  <2>3. ASSUME NEW p \in Pids, proc[p].pc = "serving", NEW f \in proc[p].registered, f[1] = a
        PROVE  f \in replaced
    <3>1. f \notin Installed
      BY <1>1, <2>2, <2>3, InstalledAre
    <3>2. \A j \in Installers : inst[j].pc = "rename" => inst[j].app # a
      BY <2>1 DEF OneCommandPerApp
    <3>3. f \in Installed \union replaced \/ \E j \in Installers : inst[j].pc = "rename" /\ inst[j].app = f[1]
      BY <2>3 DEF FolderInv, NothingElse, Loaded
    <3> QED
      BY <2>3, <3>1, <3>2, <3>3
  <2>4. /\ inst' = [inst EXCEPT ![i] = inst'[i]] /\ Fields \subseteq DOMAIN inst'[i]
        /\ inst'[i].pc = "idle" /\ CommandHeld(i)'
    BY <1>1, <2>1, Ended
  <2> HIDE DEF a
  <2> QED
    BY <1>1, <1>2, <2>1, <2>3, <2>4, DirectoryKeeps DEF a, NoStranger
<1> QED
  BY <1>7, <1>8, <1>9

\* The daemon registers or deregisters the recurfile of the app.
LEMMA HandleFolder ==
  ASSUME FolderInv, OneDaemon, OneCommandPerApp, NEW i \in Installers, Handle(i)
  PROVE  FolderInv'
<1> DEFINE a == inst[i].app
           p == inst[i].server
<1>1. FolderShapes /\ CommandHeld(i) /\ inst[i].pc = "handle" /\ a \in Apps /\ p \in Pids
  BY DEF FolderInv, CommandHeld, Handle, Placed
<1>2. /\ apps[a] # NoDir /\ inst[i].path = Path(a) /\ Path(a) \in Installed
      /\ \A q \in Pids : Alive(q) => q = p
  BY <1>1, InstalledAre DEF CommandHeld, Placed
<1>3. UNCHANGED <<apps, socket, saved, ctl, replaced>> /\ Continue(i, "saveState")
  BY DEF Handle
<1>4. /\ inst' = [inst EXCEPT ![i] = inst'[i]] /\ Fields \subseteq DOMAIN inst'[i]
      /\ inst'[i].pc = "saveState" /\ inst'[i].app = a /\ inst'[i].bundle = inst[i].bundle
      /\ inst'[i].path = Path(a) /\ inst'[i].server = p
  BY <1>1, <1>2, <1>3, Continued
<1>5. \A j \in Installers \ {i} : inst'[j] = inst[j]
  BY <1>1, <1>4 DEF FolderShapes
<1>6. proc = [q \in Pids |-> proc[q]] /\ {"pc", "registered", "names"} \subseteq DOMAIN proc[p]
  BY <1>1 DEF OneDaemon, Shapes, FolderShapes
<1>7. PICK R \in {proc[p].registered \ {Path(a)}, proc[p].registered \union {Path(a)}} :
        /\ proc' = [proc EXCEPT ![p].registered = R]
        /\ Removing(i) => Path(a) \notin R
        /\ ~Removing(i) => Path(a) \in R
  BY <1>2 DEF Handle
<1>8. /\ proc'[p].registered = R /\ proc'[p].pc = proc[p].pc /\ proc'[p].names = proc[p].names
      /\ DOMAIN proc'[p] = DOMAIN proc[p]
      /\ \A q \in Pids \ {p} : proc'[q] = proc[q]
  BY <1>1, <1>6, <1>7
<1>9. \A b : Path(b)' = Path(b)
  BY <1>3 DEF Path
<1>10. \A q \in Pids : proc'[q].pc = proc[q].pc /\ (Alive(q)' <=> Alive(q))
  BY <1>8 DEF Alive
<1>11. \A b \in Apps \ {a} : \A q \in Pids : Path(b) \in proc'[q].registered <=> Path(b) \in proc[q].registered
  <2>1. \A b \in Apps \ {a} : Path(b) # Path(a)
    BY <1>1 DEF Path
  <2> QED
    BY <1>7, <1>8, <2>1
<1>12. \A q \in Pids : \A f \in proc'[q].registered : f \in proc[q].registered \/ f = Path(a)
  BY <1>7, <1>8
<1>13. Launchless /\ \A q \in Pids : proc[q].pc # "scan" /\ (proc[q].pc \in Scanned \union Loaded => proc[q].pc = "serving")
  BY <1>1, BusyLaunchless DEF FolderInv
<1>14. FolderShapes'
  BY <1>1, <1>3, <1>4, <1>5, <1>8 DEF FolderShapes, Fields
<1>15. Removing(i)' <=> Removing(i)
  BY <1>4 DEF Removing
<1>16. CommandHeld(i)'
  <2>1. \A q \in Pids : proc[q].pc = "serving" => q = p
    BY <1>2 DEF Alive
  <2>2. Removing(i) => \A q \in Pids : proc'[q].pc = "serving" => Path(a) \notin proc'[q].registered
    BY <1>7, <1>8, <1>10, <2>1
  <2> HIDE DEF a, p
  <2> QED
    BY <1>1, <1>2, <1>3, <1>4, <1>9, <1>10, <1>15, <2>2 DEF CommandHeld, Placed
<1>17. ASSUME NEW j \in Installers \ {i} PROVE CommandHeld(j)'
  <2>1. CommandHeld(j) /\ inst'[j] = inst[j] /\ (Removing(j)' <=> Removing(j))
    BY <1>5 DEF FolderInv, Removing
  <2>2. inst[j].pc # "idle" => inst[j].app \in Apps \ {a}
    BY <1>1, <2>1 DEF OneCommandPerApp, CommandHeld
  <2>3. inst[j].pc \in Placed /\ Removing(j) /\ inst[j].pc \in {"saveState", "removeAll"} =>
          \A q \in Pids : proc'[q].pc = "serving" => inst[j].path \notin proc'[q].registered
    BY <1>10, <1>11, <2>1, <2>2 DEF CommandHeld, Placed
  <2> HIDE DEF a, p
  <2> QED
    BY <1>3, <1>9, <1>10, <2>1, <2>3 DEF CommandHeld, Placed
<1>18. NobodyLaunches'
  BY <1>3, <1>10, <1>13 DEF NobodyLaunches, Launchless
<1>19. Installed' = Installed
  BY <1>3 DEF Installed, Path
<1>20. KnownFollows'
  <2>1. \A f : f \in Known' <=> (saved # NoState /\ f \in saved.paths) \/ \E q \in Pids : f \in proc'[q].registered
    BY <1>3 DEF Known
  <2>2. \A f \in Known' : f \in Known \/ f = Path(a)
    BY <1>12, <2>1, KnownAre
  <2>3. Path(a)[1] \in Apps
    BY <1>1 DEF Path
  <2> QED
    BY <1>2, <1>3, <1>19, <2>2, <2>3 DEF FolderInv, KnownFollows
<1>21. NothingElse'
  <2> SUFFICES ASSUME NEW q \in Pids, proc'[q].pc \in Loaded, NEW f \in proc'[q].registered, f # Path(a)
               PROVE  f \in Installed \union replaced \/ \E j \in Installers : inst'[j].pc = "rename" /\ inst'[j].app = f[1]
    BY <1>2, <1>3, <1>19 DEF NothingElse
  <2>1. f \in Installed \union replaced \/ \E j \in Installers : inst[j].pc = "rename" /\ inst[j].app = f[1]
    BY <1>10, <1>12 DEF FolderInv, NothingElse
  <2> QED
    BY <1>1, <1>5, <2>1
<1>22. NothingMissing'
  <2> SUFFICES ASSUME NEW q \in Pids, proc[q].pc \in Scanned, NEW b \in Apps, Usable(b)
               PROVE  Path(b) \in proc'[q].registered \/ OnItsWay(b)'
    BY <1>3, <1>9, <1>10, <1>13 DEF NothingMissing, Usable, Loads
  <2>1. \A c : OnItsWay(c)' <=> \E j \in Installers : inst'[j].app = c /\ Way(inst'[j])
    BY DEF OnItsWay, Way, Removing
  <2>2. CASE b = a
    <3>1. q = p
      BY <1>2, <1>13 DEF Alive
    <3>2. Removing(i) => Way(inst'[i])
      BY <1>4 DEF Way, Removing
    <3> QED
      BY <1>4, <1>7, <1>8, <2>1, <2>2, <3>1, <3>2
  <2>3. CASE b # a
    <3>1. Path(b) \in proc[q].registered \/ OnItsWay(b)
      BY DEF FolderInv, NothingMissing
    <3> QED
      BY <1>5, <1>11, <2>1, <2>3, <3>1, WayIs
  <2> QED
    BY <2>2, <2>3
<1> QED
  BY <1>14, <1>16, <1>17, <1>18, <1>20, <1>21, <1>22 DEF FolderInv

LEMMA FolderStep ==
  ASSUME Patient, OneDaemon, OneCommandPerApp, FolderInv, [Next]_vars
  PROVE  FolderInv'
<1>1. CASE UNCHANGED vars
  <2> USE <1>1 DEF vars
  <2>1. FolderShapes' /\ NobodyLaunches' /\ KnownFollows'
    BY DEF FolderInv, FolderShapes, NobodyLaunches, Quiet, KnownFollows, Known, Installed, Path
  <2>2. \A i \in Installers : CommandHeld(i)'
    BY DEF FolderInv, CommandHeld, Removing, Path, Alive
  <2>3. NothingElse' /\ NothingMissing'
    BY DEF FolderInv, NothingElse, NothingMissing, OnItsWay, Usable, Loads, Removing, Installed, Path
  <2> QED
    BY <2>1, <2>2, <2>3 DEF FolderInv
<1>2. ASSUME NEW p \in Pids, DaemonSteps(p) \/ TestCall(p) \/ TestReturns(p) \/ Crash(p) PROVE FolderInv'
  BY <1>2, DaemonFolder
<1>3. ASSUME NEW o \in Operators, ControlSteps(o) PROVE FolderInv'
  BY <1>3, ControlFolder
<1>4. ASSUME NEW i \in Installers, InstallBegin(i) \/ RemoveBegin(i) \/ ClientSteps(i) PROVE FolderInv'
  BY <1>4, BeginFolder, ConversationFolder, DirectoryFolder, HandleFolder DEF ClientSteps
<1> QED
  BY <1>1, <1>2, <1>3, <1>4 DEF Next

LEMMA FolderFollows == FolderInv => AppsFollowFolder
<1> SUFFICES ASSUME FolderInv, Quiet, NEW p \in Pids, proc[p].pc = "serving"
             PROVE  /\ \A a \in DOMAIN AppList(p) : Loads(Path(a)) => AppList(p)[a]
                    /\ proc[p].registered \subseteq Installed \union replaced
  BY DEF AppsFollowFolder
<1>1. p \in Pids /\ proc[p].pc \in Scanned /\ proc[p].pc \in Loaded
  BY DEF Scanned, Loaded
<1>2. \A a : ~OnItsWay(a)
  BY DEF OnItsWay, Quiet
<1>3. \A a \in Apps : Loads(Path(a)) => Path(a) \in proc[p].registered
  BY <1>1, <1>2 DEF FolderInv, NothingMissing, Usable
<1>4. proc[p].registered \subseteq Installed \union replaced
  BY <1>1 DEF FolderInv, NothingElse, Quiet
<1> QED
  BY <1>3, <1>4 DEF AppList

\* app.go:28-30, "registered automatically the next time it starts", and app.go:261-262: if the
\* users are patient and no two app commands are about one app at a time, every daemon that is
\* up has all the apps of the folder that can be loaded, and nothing else but what an install
\* has replaced.
THEOREM AppsAlwaysFollow ==
  ASSUME Patient
  PROVE  Spec /\ []OneCommandPerApp => []AppsFollowFolder
<1>1. Patient
  OBVIOUS
<1>2. Init => FolderInv
  BY FolderInit
<1>3. OneDaemon /\ OneCommandPerApp /\ FolderInv /\ [Next]_vars => FolderInv'
  BY <1>1, FolderStep
<1>4. FolderInv => AppsFollowFolder
  BY FolderFollows
<1>5. Spec => []OneDaemon
  BY <1>1, OneDaemonInvariant
<1> QED
  BY <1>2, <1>3, <1>4, <1>5, PTL DEF Spec
=============================================================================
