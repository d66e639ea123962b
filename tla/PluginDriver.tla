----------------------------- MODULE PluginDriver -----------------------------
(***************************************************************************)
(* The drivers of external plugins: one process per active trigger         *)
(* (src/app/recurd/triggerengine/external.go), the goroutine that monitors *)
(* it, and the router that takes the plugins' ReportTriggerEvent calls to  *)
(* the drivers' channels (router.go).                                      *)
(*                                                                         *)
(* Driver numbers stand for the *externalDriver objects, each with its own *)
(* channel.  The engine calls Start and Stop with e.mutex held, so one     *)
(* call is in progress at a time: "caller".  A call on a closed channel    *)
(* panics and ends the daemon.                                             *)
(*                                                                         *)
(* A definition whose comment begins with "Mutant of" is no part of the    *)
(* specification; see TriggerEngine.                                       *)
(***************************************************************************)
EXTENDS Naturals, FiniteSets

CONSTANTS
  Triggers,  \* trigger IDs
  MaxDriver, \* bound: drivers created in a behaviour
  Reports,   \* the ReportTriggerEvent calls of a behaviour
  ChanCap    \* capacity of a driver's channel

ASSUME DriverAssumption ==
  /\ Triggers # {}
  /\ MaxDriver \in Nat \ {0}
  /\ ChanCap \in Nat \ {0}

Nil     == 0
Drivers == 1..MaxDriver

VARIABLES
  owner,    \* d.triggerID
  created,  \* number of drivers created
  current,  \* the driver the engine holds for every trigger
  caller,   \* the engine's call of Start or Stop in progress
  router,   \* PluginEventRouter.channels: the driver whose channel is registered
  process,  \* state of every driver's plugin process
  monitor,  \* where monitorProcess is
  done,     \* drivers whose done channel is closed
  closed,   \* drivers whose events channel is closed
  exited,   \* drivers whose exited channel is closed
  buffered, \* number of events in every driver's channel
  report,   \* where every ReportTriggerEvent handler is
  stopped,  \* drivers Stop has returned for
  panicked

objects == <<owner, created>>
chans   == <<done, closed, exited, buffered>>
vars    == <<objects, current, caller, router, process, monitor, chans, report,
             stopped, panicked>>

-----------------------------------------------------------------------------

Idle == [pc |-> "idle", at |-> Nil]

StopPCs == {"check", "closeDone", "deregister", "deregisterExited", "signal", "grace", "exit"}

TypeOK ==
  /\ owner \in [Drivers -> Triggers]
  /\ created \in 0..MaxDriver
  /\ current \in [Triggers -> 0..created]
  /\ caller \in {Idle} \union [pc : {"register"} \union StopPCs, at : 1..created]
  /\ router \in [Triggers -> 0..created]
  /\ process \in [Drivers -> {"none", "running", "terminating", "killed", "exited"}]
  /\ monitor \in [Drivers -> {"none", "wait", "deregister", "check", "closeDone",
                              "closeEvents", "closeExited", "returned"}]
  /\ done \subseteq 1..created
  /\ exited \subseteq closed /\ closed \subseteq done
  /\ buffered \in [Drivers -> 0..ChanCap]
  /\ report \in [Reports -> [pc : {"none", "lookup", "send", "returned"},
                             trigger : Triggers, to : 0..created]]
  /\ stopped \subseteq 1..created
  /\ panicked \in BOOLEAN

Init ==
  /\ owner \in [Drivers -> Triggers]
  /\ created = 0
  /\ current = [t \in Triggers |-> Nil]
  /\ caller = Idle
  /\ router = [t \in Triggers |-> Nil]
  /\ process = [d \in Drivers |-> "none"]
  /\ monitor = [d \in Drivers |-> "none"]
  /\ done = {} /\ closed = {} /\ exited = {}
  /\ buffered = [d \in Drivers |-> 0]
  /\ report = [r \in Reports |->
                 [pc |-> "none", trigger |-> CHOOSE t \in Triggers : TRUE, to |-> Nil]]
  /\ stopped = {}
  /\ panicked = FALSE

\* PluginEventRouter.Deregister: by trigger ID, whatever channel is registered.
DeregisterRoute(d) == router' = [router EXCEPT ![owner[d]] = Nil]

\* close(d.done): closing a closed channel panics.
CloseDone(d) ==
  /\ panicked' = (d \in done)
  /\ done' = done \union {d}

-----------------------------------------------------------------------------
(* Start, called by Engine.Activate for a trigger without a driver. *)

Spawn(d) ==
  /\ caller = Idle
  /\ d = created + 1
  /\ current[owner[d]] = Nil
  /\ created' = d
  /\ process' = [process EXCEPT ![d] = "running"]
  /\ caller' = [pc |-> "register", at |-> d]
  /\ UNCHANGED <<owner, current, router, monitor, chans, report, stopped, panicked>>

\* The binary cannot be started: Activate calls Stop, which finds no process.
SpawnFails(d) ==
  /\ caller = Idle
  /\ d = created + 1
  /\ current[owner[d]] = Nil
  /\ created' = d
  /\ done' = done \union {d}
  /\ DeregisterRoute(d)
  /\ UNCHANGED <<owner, current, caller, process, monitor, closed, exited, buffered,
                 report, stopped, panicked>>

\* router.Register and the start of the monitor: the plugin already runs.
StartReturns ==
  LET d == caller.at IN
  /\ caller.pc = "register"
  /\ router' = [router EXCEPT ![owner[d]] = d]
  /\ monitor' = [monitor EXCEPT ![d] = "wait"]
  /\ current' = [current EXCEPT ![owner[d]] = d]
  /\ caller' = Idle
  /\ UNCHANGED <<objects, process, chans, report, stopped, panicked>>

-----------------------------------------------------------------------------
(* Stop, called by Engine.Deactivate and Engine.StopAll. *)

Stop(t) ==
  /\ caller = Idle
  /\ current[t] # Nil
  /\ caller' = [pc |-> "check", at |-> current[t]]
  /\ UNCHANGED <<objects, current, router, process, monitor, chans, report, stopped, panicked>>

\* select on d.done: a closed one means the process has exited by itself.
StopCheck ==
  /\ caller.pc = "check"
  /\ caller' = [caller EXCEPT !.pc = IF caller.at \in done THEN "deregisterExited" ELSE "closeDone"]
  /\ UNCHANGED <<objects, current, router, process, monitor, chans, report, stopped, panicked>>

StopCloseDone ==
  /\ caller.pc = "closeDone"
  /\ CloseDone(caller.at)
  /\ caller' = [caller EXCEPT !.pc = "deregister"]
  /\ UNCHANGED <<objects, current, router, process, monitor, closed, exited, buffered,
                 report, stopped>>

StopDeregister ==
  /\ caller.pc \in {"deregister", "deregisterExited"}
  /\ DeregisterRoute(caller.at)
  /\ caller' = [caller EXCEPT !.pc = IF @ = "deregister" THEN "signal" ELSE "exit"]
  /\ UNCHANGED <<objects, current, process, monitor, chans, report, stopped, panicked>>

\* Mutant of StopSignal: Stop does not wait for the process it has signalled.
StopSignalOnly ==
  /\ caller.pc = "signal"
  /\ process' = [process EXCEPT ![caller.at] = IF @ = "running" THEN "terminating" ELSE @]
  /\ stopped' = stopped \union {caller.at}
  /\ current' = [current EXCEPT ![owner[caller.at]] = Nil]
  /\ caller' = Idle
  /\ UNCHANGED <<objects, router, monitor, chans, report, panicked>>

\* SIGTERM to the process group, then the shutdown timeout runs.
StopSignal ==
  /\ caller.pc = "signal"
  /\ process' = [process EXCEPT ![caller.at] = IF @ = "running" THEN "terminating" ELSE @]
  /\ caller' = [caller EXCEPT !.pc = "grace"]
  /\ UNCHANGED <<objects, current, router, monitor, chans, report, stopped, panicked>>

\* Mutant of StopTimeout: there is no SIGKILL after the timeout.
StopTimeoutIgnored ==
  /\ caller.pc = "grace"
  /\ caller' = [caller EXCEPT !.pc = "exit"]
  /\ UNCHANGED <<objects, current, router, process, monitor, chans, report, stopped, panicked>>

\* The timeout fires, possibly just when the process exits: SIGKILL.
StopTimeout ==
  /\ caller.pc = "grace"
  /\ process' = [process EXCEPT ![caller.at] = IF @ = "exited" THEN @ ELSE "killed"]
  /\ caller' = [caller EXCEPT !.pc = "exit"]
  /\ UNCHANGED <<objects, current, router, monitor, chans, report, stopped, panicked>>

\* Mutant of StopReturns: Stop does not wait for a driver that has exited by itself.
StopReturnsEarly ==
  /\ caller.pc \in {"grace", "exit"}
  /\ caller.pc = "grace" => caller.at \in exited
  /\ stopped' = stopped \union {caller.at}
  /\ current' = [current EXCEPT ![owner[caller.at]] = Nil]
  /\ caller' = Idle
  /\ UNCHANGED <<objects, router, process, monitor, chans, report, panicked>>

\* <-d.exited; the engine deletes its entry.
StopReturns ==
  /\ caller.pc \in {"grace", "exit"}
  /\ caller.at \in exited
  /\ stopped' = stopped \union {caller.at}
  /\ current' = [current EXCEPT ![owner[caller.at]] = Nil]
  /\ caller' = Idle
  /\ UNCHANGED <<objects, router, process, monitor, chans, report, panicked>>

-----------------------------------------------------------------------------
(* The plugin process and monitorProcess. *)

Exit(d) ==
  /\ process[d] \in {"running", "terminating", "killed"}
  /\ process' = [process EXCEPT ![d] = "exited"]
  /\ UNCHANGED <<objects, current, caller, router, monitor, chans, report, stopped, panicked>>

\* Mutant of MonitorReaps: the channel is closed before it is deregistered.
MonitorReapsAndCloses(d) ==
  /\ monitor[d] = "wait"
  /\ process[d] = "exited"
  /\ done' = done \union {d}
  /\ closed' = closed \union {d}
  /\ monitor' = [monitor EXCEPT ![d] = "deregister"]
  /\ UNCHANGED <<objects, current, caller, router, process, exited, buffered, report, stopped,
                 panicked>>

\* cmd.Wait() returns.
MonitorReaps(d) ==
  /\ monitor[d] = "wait"
  /\ process[d] = "exited"
  /\ monitor' = [monitor EXCEPT ![d] = "deregister"]
  /\ UNCHANGED <<objects, current, caller, router, process, chans, report, stopped, panicked>>

\* Mutant of MonitorCheck: a closed done channel ends the monitor.
MonitorCheckReturns(d) ==
  /\ monitor[d] = "check"
  /\ monitor' = [monitor EXCEPT ![d] = IF d \in done THEN "returned" ELSE "closeDone"]
  /\ UNCHANGED <<objects, current, caller, router, process, chans, report, stopped, panicked>>

MonitorDeregister(d) ==
  /\ monitor[d] = "deregister"
  /\ DeregisterRoute(d)
  /\ monitor' = [monitor EXCEPT ![d] = "check"]
  /\ UNCHANGED <<objects, current, caller, process, chans, report, stopped, panicked>>

MonitorCheck(d) ==
  /\ monitor[d] = "check"
  /\ monitor' = [monitor EXCEPT ![d] = IF d \in done THEN "closeEvents" ELSE "closeDone"]
  /\ UNCHANGED <<objects, current, caller, router, process, chans, report, stopped, panicked>>

MonitorCloseDone(d) ==
  /\ monitor[d] = "closeDone"
  /\ CloseDone(d)
  /\ monitor' = [monitor EXCEPT ![d] = "closeEvents"]
  /\ UNCHANGED <<objects, current, caller, router, process, closed, exited, buffered,
                 report, stopped>>

MonitorCloseEvents(d) ==
  /\ monitor[d] = "closeEvents"
  /\ closed' = closed \union {d}
  /\ monitor' = [monitor EXCEPT ![d] = "closeExited"]
  /\ UNCHANGED <<objects, current, caller, router, process, done, exited, buffered, report,
                 stopped, panicked>>

MonitorCloseExited(d) ==
  /\ monitor[d] = "closeExited"
  /\ exited' = exited \union {d}
  /\ monitor' = [monitor EXCEPT ![d] = "returned"]
  /\ UNCHANGED <<objects, current, caller, router, process, done, closed, buffered, report,
                 stopped, panicked>>

-----------------------------------------------------------------------------
(* ReportTriggerEvent and PluginEventRouter.Deliver. *)

\* A plugin process reports an event, under its trigger's ID.
Report(r, d) ==
  /\ report[r].pc = "none"
  /\ process[d] \in {"running", "terminating"}
  /\ report' = [report EXCEPT ![r].pc = "lookup", ![r].trigger = owner[d]]
  /\ UNCHANGED <<objects, current, caller, router, process, monitor, chans, stopped, panicked>>

\* The handler knows no such trigger, or the plugin does not declare the context key.
ReportRejected(r) ==
  /\ report[r].pc = "lookup"
  /\ report' = [report EXCEPT ![r].pc = "returned"]
  /\ UNCHANGED <<objects, current, caller, router, process, monitor, chans, stopped, panicked>>

\* The channel is read under r.mutex and used after it.
DeliverLookup(r) ==
  LET to == router[report[r].trigger] IN
  /\ report[r].pc = "lookup"
  /\ report' = [report EXCEPT ![r].pc = IF to = Nil THEN "returned" ELSE "send", ![r].to = to]
  /\ UNCHANGED <<objects, current, caller, router, process, monitor, chans, stopped, panicked>>

\* A full channel rejects the event, a closed one panics.
DeliverSend(r) ==
  LET d == report[r].to IN
  /\ report[r].pc = "send"
  /\ panicked' = (d \in closed)
  /\ buffered' = IF d \in closed \/ buffered[d] = ChanCap THEN buffered
                 ELSE [buffered EXCEPT ![d] = @ + 1]
  /\ report' = [report EXCEPT ![r].pc = "returned"]
  /\ UNCHANGED <<objects, current, caller, router, process, monitor, done, closed, exited, stopped>>

\* The engine's dispatch loop.
Receive(d) ==
  /\ buffered[d] > 0
  /\ buffered' = [buffered EXCEPT ![d] = @ - 1]
  /\ UNCHANGED <<objects, current, caller, router, process, monitor, done, closed, exited,
                 report, stopped, panicked>>

-----------------------------------------------------------------------------

CallerStep ==
  \/ StartReturns \/ StopCheck \/ StopCloseDone \/ StopDeregister
  \/ StopSignal \/ StopTimeout \/ StopReturns

MonitorStep(d) ==
  \/ MonitorReaps(d) \/ MonitorDeregister(d) \/ MonitorCheck(d)
  \/ MonitorCloseDone(d) \/ MonitorCloseEvents(d) \/ MonitorCloseExited(d)

Next ==
  /\ ~panicked
  /\ \/ \E d \in Drivers : Spawn(d) \/ SpawnFails(d) \/ Exit(d) \/ MonitorStep(d) \/ Receive(d)
     \/ \E t \in Triggers : Stop(t)
     \/ CallerStep
     \/ \E r \in Reports, d \in Drivers : Report(r, d)
     \/ \E r \in Reports : ReportRejected(r) \/ DeliverLookup(r) \/ DeliverSend(r)

Spec == Init /\ [][Next]_vars

(***************************************************************************)
(* Fairness: goroutines run, the shutdown timeout expires, and SIGKILL     *)
(* ends a process.  A plugin may ignore SIGTERM for ever.                  *)
(***************************************************************************)
Fairness ==
  /\ WF_vars(CallerStep /\ ~panicked)
  /\ \A d \in Drivers :
       /\ WF_vars(MonitorStep(d) /\ ~panicked)
       /\ WF_vars(Exit(d) /\ process[d] = "killed" /\ ~panicked)

FairSpec == Spec /\ Fairness

-----------------------------------------------------------------------------
(* Correctness. *)

\* A new look-up never finds a closed channel: whoever closes a channel has taken
\* it out of the router before, and nobody puts it back.
RoutedIsOpen == \A t \in Triggers : router[t] # Nil => router[t] \notin closed

\* Deregistration is by trigger ID, so the clean-up of an older driver could remove
\* the channel of the current one.  It never does: as long as the current driver's
\* process runs and nobody stops it, events of its trigger reach its channel.
CurrentIsRouted ==
  \A t \in Triggers :
    LET d == current[t] IN
    d # Nil /\ process[d] = "running" /\ caller.at # d => router[t] = d

\* The drivers keep what the engine relies on.
ChannelState(d) ==
  IF d \in closed THEN "closed" ELSE IF monitor[d] = "none" THEN "none" ELSE "open"

Contract == INSTANCE DriverContract WITH
  channel  <- [d \in Drivers |-> ChannelState(d)],
  serves   <- owner,
  released <- stopped

KeepsContract == Contract!Spec

\* Stop and the monitor have both found d.done open, and both will close it
\* (external.go:196-203, 234-237).
BothClose == caller.pc = "closeDone" /\ monitor[caller.at] = "closeDone"

\* A report has looked up a channel that was closed before it is sent on (router.go:44-53).
LateDelivery == \E r \in Reports : report[r].pc = "send" /\ report[r].to \in closed

\* Start and Stop return, even if the plugin ignores SIGTERM or crashes at any moment
\* of them but one.  The exception is the hypothesis: in the two windows above the
\* whole daemon panics, whatever daemon-lifecycle.md:39 promises (NoPanic below), so
\* that the call in progress never returns.  Outside them nothing panics.
CallsReturn ==
  [](~BothClose /\ ~LateDelivery) => []~panicked /\ (caller # Idle ~> caller = Idle)

\* A process that exits by itself has its channel closed, which ends the dispatch loop.
CrashIsNoticed ==
  \A d \in Drivers : process[d] = "exited" /\ monitor[d] # "none" ~> d \in closed \/ panicked

-----------------------------------------------------------------------------
(* What the documents say and the code does not do (README, section 6); no *)
(* configuration lists it.                                                 *)

\* daemon-lifecycle.md:39: errors in one plugin never crash the daemon.
NoPanic == ~panicked
=============================================================================
