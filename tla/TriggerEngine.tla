---------------------------- MODULE TriggerEngine ----------------------------
(***************************************************************************)
(* The trigger engine of recurd (src/app/recurd/triggerengine/engine.go):  *)
(* activation and deactivation of drivers, the dispatch loop of every      *)
(* activation, debouncing, and the four concurrency modes.                 *)
(*                                                                         *)
(* Activation numbers stand for the *activeTrigger objects: every Activate *)
(* that starts a driver allocates the next one and it is never reused.     *)
(* Event numbers stand for the TriggerEvent values, in the order in which  *)
(* the drivers produce them.  0 is Go's nil for both.                      *)
(*                                                                         *)
(* Goroutines: one dispatch loop per activation, one timer callback per    *)
(* debounced event, one worker per event a worker is started for, and the  *)
(* callers of Activate, Deactivate and StopAll.  Every at.mu section is    *)
(* one action.  e.mutex is held across blocking calls, so it is a variable.*)
(*                                                                         *)
(* A definition whose comment begins with "Mutant of" is no part of the    *)
(* specification: it is the form a plausible bug would give the definition *)
(* after it, and shows that the property it is paired with can fail.       *)
(***************************************************************************)
EXTENDS Naturals, Sequences, Functions

CONSTANTS
  Triggers,      \* trigger IDs
  Configs,       \* the settings a trigger may have: [mode, debounce, max]
  MaxActivation, \* bound: activations in a behaviour
  MaxEvent,      \* bound: events in a behaviour
  MaxChange,     \* bound: registry changes in a behaviour
  Reconfigure,   \* whether the user changes a trigger's settings at run time
  ChanCap,       \* capacity of a driver's event channel
  Threshold      \* a trigger's ErrorThreshold; 0 disables it

Modes == {"parallel", "drop", "abort", "queue"}

ASSUME EngineAssumption ==
  /\ Triggers # {}
  /\ Configs # {}
  /\ Configs \subseteq [mode : Modes, debounce : BOOLEAN, max : Nat \ {0}]
  /\ MaxActivation \in Nat \ {0}
  /\ MaxEvent \in Nat \ {0}
  /\ MaxChange \in Nat
  /\ Reconfigure \in BOOLEAN
  /\ ChanCap \in Nat \ {0}
  /\ Threshold \in Nat

Nil         == 0
Activations == 1..MaxActivation
Events      == 1..MaxEvent
Statuses    == {"active", "suspended", "error", "absent"}

VARIABLES
  status,     \* registry: status of every trigger, "absent" when not registered
  cfg,        \* registry: settings of every trigger
  errs,       \* registry: Trigger.ErrorCount
  changes,    \* registry changes so far (bounded by MaxChange)
  active,     \* Engine.active: the activation of every trigger, or Nil
  stopped,    \* Engine.stopped
  mutex,      \* Engine.mutex: free, or the critical section in progress
  act,        \* the activeTrigger objects
  allocated,  \* number of activations allocated
  chan,       \* the event channel of every activation's driver
  driver,     \* state of every activation's driver
  disp,       \* goroutines that dispatch: loops (by activation), timers (by event)
  worker,     \* goroutines that handle, by the event they were started for
  produced,   \* number of events produced
  origin,     \* the activation whose driver produced an event
  panicked    \* a goroutine called a nil function: the process is gone

registry == <<status, cfg, errs, changes>>
engine   == <<active, stopped, mutex, allocated>>
drivers  == <<chan, driver, produced, origin>>
vars     == <<registry, engine, act, drivers, disp, worker, panicked>>

-----------------------------------------------------------------------------
(* The values the variables take. *)

NoConfig == CHOOSE c \in Configs : TRUE

Free == [op |-> "free", at |-> Nil, await |-> Nil]

ActType == [trigger : Triggers, cancelled : BOOLEAN, running : BOOLEAN,
            queue : Seq(Events), pending : 0..MaxEvent, timer : 0..MaxEvent,
            abort : 0..MaxEvent]

\* A goroutine that dispatches has a context, with an event in hand that event, and
\* past the look-up an activation.
HasEvent      == {"lookup", "arm", "dispatch", "gate", "await"}
HasActivation == {"arm", "armed", "fired", "dispatch", "gate", "await"}
DispPCs       == HasActivation \union {"none", "select", "lookup", "error", "deactivate"}

DispType ==
  {r \in [pc : DispPCs, ev : 0..MaxEvent, ctx : 0..MaxActivation,
          at : 0..MaxActivation, cfg : Configs, awaits : 0..MaxEvent] :
     /\ r.pc # "none" => r.ctx # Nil
     /\ r.pc \in HasEvent => r.ev # Nil
     /\ r.pc \in HasActivation => r.at # Nil}

\* A worker that has not returned works for an activation and in a context.
WorkerType ==
  {r \in [pc : {"none", "begin", "exec", "end", "done"}, kind : Modes,
          ev : 0..MaxEvent, ctx : 0..MaxActivation, at : 0..MaxActivation,
          cut : BOOLEAN] :
     r.pc \in {"begin", "exec", "end"} => r.ctx # Nil /\ r.at # Nil}

\* Deactivate always knows the activation it has taken from e.active.
MutexType ==
  {r \in [op : {"free", "deactivate", "await", "stopAll"},
          at : 0..MaxActivation, await : 0..MaxEvent] :
     r.op \in {"deactivate", "await"} => r.at # Nil}

NewAct(t) == [trigger |-> t, cancelled |-> FALSE, running |-> FALSE,
              queue |-> <<>>, pending |-> Nil, timer |-> Nil, abort |-> Nil]

Dispatcher(pc, ctx) ==
  [pc |-> pc, ev |-> Nil, ctx |-> ctx, at |-> Nil, cfg |-> NoConfig, awaits |-> Nil]

NoWorker ==
  [pc |-> "none", kind |-> "queue", ev |-> Nil, ctx |-> Nil, at |-> Nil, cut |-> FALSE]

Returned == [NoWorker EXCEPT !.pc = "done"]

\* The goroutines that can call dispatchWithConcurrency.
Loop(a)     == <<"loop", a>>
Timer(e)    == <<"timer", e>>
Dispatchers == {Loop(a) : a \in Activations} \union {Timer(e) : e \in Events}

Init ==
  /\ status \in [Triggers -> {"active", "absent"}]
  /\ cfg \in [Triggers -> Configs]
  /\ errs = [t \in Triggers |-> 0]
  /\ changes = 0
  /\ active = [t \in Triggers |-> Nil]
  /\ stopped = FALSE
  /\ mutex = Free
  /\ act = [a \in Activations |-> NewAct(CHOOSE t \in Triggers : TRUE)]
  /\ allocated = 0
  /\ chan = [a \in Activations |-> <<>>]
  /\ driver = [a \in Activations |-> "none"]
  /\ disp = [d \in Dispatchers |-> Dispatcher("none", Nil)]
  /\ worker = [e \in Events |-> NoWorker]
  /\ produced = 0
  /\ origin = [e \in Events |-> Nil]
  /\ panicked = FALSE

IsActive(t)   == status[t] = "active"
TriggerOf(a)  == act[a].trigger
Cancelled(w)  == act[w.ctx].cancelled \/ w.cut
Live(e)       == worker[e].pc \in {"begin", "exec", "end"}
MutexFree     == mutex.op = "free"

-----------------------------------------------------------------------------
(* The registry, which API handlers write without holding e.mutex. *)

\* suspendTrigger and resumeTrigger: the status only.
SetStatus(t) ==
  /\ changes < MaxChange
  /\ status[t] # "absent"
  /\ \E s \in {"active", "suspended"} : s # status[t] /\ status' = [status EXCEPT ![t] = s]
  /\ changes' = changes + 1
  /\ UNCHANGED <<cfg, errs>>

\* registerResolved: a new Trigger object under the same, deterministic ID.
Register(t) ==
  /\ changes < MaxChange
  /\ status' = [status EXCEPT ![t] = "active"]
  /\ \E c \in Configs : (Reconfigure \/ c = cfg[t]) /\ cfg' = [cfg EXCEPT ![t] = c]
  /\ errs' = [errs EXCEPT ![t] = 0]
  /\ changes' = changes + 1

\* unlockedDeregisterRecurfile.
Deregister(t) ==
  /\ changes < MaxChange
  /\ status[t] # "absent"
  /\ status' = [status EXCEPT ![t] = "absent"]
  /\ changes' = changes + 1
  /\ UNCHANGED <<cfg, errs>>

RegistryChange(t) ==
  /\ SetStatus(t) \/ Register(t) \/ Deregister(t)
  /\ UNCHANGED <<engine, act, drivers, disp, worker, panicked>>

-----------------------------------------------------------------------------
(* Drivers, as the engine sees them through the Driver interface. *)

\* A running driver puts an event into its channel; a full channel rejects it.
Produce(a) ==
  /\ driver[a] = "up"
  /\ produced < MaxEvent
  /\ Len(chan[a]) < ChanCap
  /\ produced' = produced + 1
  /\ chan' = [chan EXCEPT ![a] = Append(@, produced + 1)]
  /\ origin' = [origin EXCEPT ![produced + 1] = a]
  /\ UNCHANGED <<registry, engine, act, driver, disp, worker, panicked>>

\* The plugin process exits by itself: the driver closes its channel.
Crash(a) ==
  /\ driver[a] = "up"
  /\ driver' = [driver EXCEPT ![a] = "crashed"]
  /\ UNCHANGED <<registry, engine, act, chan, produced, origin, disp, worker, panicked>>

Closed(a) == driver[a] \in {"crashed", "stopped"}

\* driver.Stop(): returns once the process is gone and the channel closed.
StopDriver(a) ==
  /\ driver' = [driver EXCEPT ![a] = IF @ = "up" THEN "stopped" ELSE @]
  /\ UNCHANGED <<chan, produced, origin>>

-----------------------------------------------------------------------------
(* Engine.Activate, Engine.Deactivate and Engine.StopAll. *)

\* Mutant of Activate: the "already active" check is missing.
ActivateAgain(t) ==
  /\ MutexFree
  /\ ~stopped
  /\ allocated < MaxActivation
  /\ LET a == allocated + 1 IN
       /\ allocated' = a
       /\ active' = [active EXCEPT ![t] = a]
       /\ act' = [act EXCEPT ![a] = NewAct(t)]
       /\ driver' = [driver EXCEPT ![a] = "up"]
       /\ disp' = [disp EXCEPT ![Loop(a)] = Dispatcher("select", a)]
  /\ UNCHANGED <<registry, stopped, mutex, chan, produced, origin, worker, panicked>>

Activate(t) ==
  /\ MutexFree
  /\ ~stopped
  /\ active[t] = Nil
  /\ allocated < MaxActivation
  /\ LET a == allocated + 1 IN
       /\ allocated' = a
       /\ active' = [active EXCEPT ![t] = a]
       /\ act' = [act EXCEPT ![a] = NewAct(t)]
       /\ driver' = [driver EXCEPT ![a] = "up"]
       /\ disp' = [disp EXCEPT ![Loop(a)] = Dispatcher("select", a)]
  /\ UNCHANGED <<registry, stopped, mutex, chan, produced, origin, worker, panicked>>

\* The dispatchers after time.Timer.Stop on the timer armed last for a, if any:
\* only a timer that has not fired yet is stopped.
AfterTimerStop(a) ==
  [d \in Dispatchers |->
     IF d = Timer(act[a].timer) /\ disp[d].pc = "armed"
     THEN Dispatcher("none", Nil) ELSE disp[d]]

\* Mutant of BeginDeactivate: the context is not cancelled.
BeginDeactivateUncancelled(t) ==
  /\ MutexFree
  /\ active[t] # Nil
  /\ mutex' = [op |-> "deactivate", at |-> active[t], await |-> Nil]
  /\ UNCHANGED <<active, stopped, allocated, act>>

\* Deactivate up to the call of driver.Stop().
BeginDeactivate(t) ==
  /\ MutexFree
  /\ active[t] # Nil
  /\ mutex' = [op |-> "deactivate", at |-> active[t], await |-> Nil]
  /\ act' = [act EXCEPT ![active[t]].cancelled = TRUE]
  /\ UNCHANGED <<active, stopped, allocated>>

\* A client's RPC calls Deactivate.
Deactivate(t) ==
  /\ BeginDeactivate(t)
  /\ disp' = AfterTimerStop(active[t])
  /\ UNCHANGED <<registry, drivers, worker, panicked>>

\* driver.Stop() returns, the entry is deleted and abortDone is read.
DeactivateStop ==
  /\ mutex.op = "deactivate"
  /\ StopDriver(mutex.at)
  /\ active' = [active EXCEPT ![TriggerOf(mutex.at)] = Nil]
  /\ mutex' = IF act[mutex.at].abort = Nil THEN Free
              ELSE [op |-> "await", at |-> mutex.at, await |-> act[mutex.at].abort]
  /\ UNCHANGED <<registry, stopped, allocated, act, disp, worker, panicked>>

\* <-doneCh: the abort-mode worker has closed its channel.
DeactivateReturn ==
  /\ mutex.op = "await"
  /\ worker[mutex.await].pc = "done"
  /\ mutex' = Free
  /\ UNCHANGED <<registry, active, stopped, allocated, act, drivers, disp, worker, panicked>>

\* StopAll is called once, when the daemon shuts down.
StopAll ==
  /\ MutexFree
  /\ ~stopped
  /\ stopped' = TRUE
  /\ mutex' = [op |-> "stopAll", at |-> Nil, await |-> Nil]
  /\ UNCHANGED <<registry, active, allocated, act, drivers, disp, worker, panicked>>

\* StopAll takes the next entry of the map and cancels its context.
StopAllCancel(t) ==
  /\ mutex.op = "stopAll" /\ mutex.at = Nil
  /\ active[t] # Nil
  /\ mutex' = [mutex EXCEPT !.at = active[t]]
  /\ act' = [act EXCEPT ![active[t]].cancelled = TRUE]
  /\ UNCHANGED <<registry, active, stopped, allocated, drivers, disp, worker, panicked>>

StopAllStop ==
  /\ mutex.op = "stopAll" /\ mutex.at # Nil
  /\ StopDriver(mutex.at)
  /\ active' = [active EXCEPT ![TriggerOf(mutex.at)] = Nil]
  /\ mutex' = [mutex EXCEPT !.at = Nil]
  /\ UNCHANGED <<registry, stopped, allocated, act, disp, worker, panicked>>

StopAllReturn ==
  /\ mutex.op = "stopAll" /\ mutex.at = Nil
  /\ \A t \in Triggers : active[t] = Nil
  /\ mutex' = Free
  /\ UNCHANGED <<registry, active, stopped, allocated, act, drivers, disp, worker, panicked>>

-----------------------------------------------------------------------------
(* dispatchLoop and submitEvent. *)

\* A dispatcher that has dealt with its event: a loop selects again, a timer
\* callback returns.
Rest(d) == IF d[1] = "loop" THEN Dispatcher("select", d[2]) ELSE Dispatcher("none", Nil)

\* case <-ctx.Done()
LoopCancelled(a) ==
  /\ disp[Loop(a)].pc = "select"
  /\ act[a].cancelled
  /\ disp' = [disp EXCEPT ![Loop(a)] = Dispatcher("none", Nil)]
  /\ UNCHANGED <<registry, engine, act, drivers, worker, panicked>>

\* case event := <-events, and submitEvent's first status check.  The Trigger
\* object read here also decides later whether to debounce.
LoopReceive(a) ==
  /\ disp[Loop(a)].pc = "select"
  /\ chan[a] # <<>>
  /\ chan' = [chan EXCEPT ![a] = Tail(@)]
  /\ disp' = IF IsActive(TriggerOf(a))
             THEN [disp EXCEPT ![Loop(a)].pc = "lookup", ![Loop(a)].ev = Head(chan[a]),
                               ![Loop(a)].cfg = cfg[TriggerOf(a)]]
             ELSE disp
  /\ UNCHANGED <<registry, engine, act, driver, produced, origin, worker, panicked>>

\* Mutant of LoopClosed: ok is not looked at, the loop selects again.
LoopClosedIgnored(a) ==
  /\ disp[Loop(a)].pc = "select"
  /\ chan[a] = <<>> /\ Closed(a)
  /\ UNCHANGED vars

\* case the channel is closed and empty: onTriggerError is called next.  With a
\* cancelled context both cases are ready and select picks one at random.
LoopClosed(a) ==
  /\ disp[Loop(a)].pc = "select"
  /\ chan[a] = <<>> /\ Closed(a)
  /\ disp' = [disp EXCEPT ![Loop(a)].pc = "error"]
  /\ UNCHANGED <<registry, engine, act, drivers, worker, panicked>>

\* The look-up in e.active under e.mutex.
LoopLookup(a) ==
  /\ disp[Loop(a)].pc = "lookup"
  /\ MutexFree
  /\ LET at == active[TriggerOf(a)] IN
       disp' = IF at = Nil THEN [disp EXCEPT ![Loop(a)] = Rest(Loop(a))]
               ELSE [disp EXCEPT ![Loop(a)].at = at,
                       ![Loop(a)].pc = IF disp[Loop(a)].cfg.debounce THEN "arm" ELSE "dispatch"]
  /\ UNCHANGED <<registry, engine, act, drivers, worker, panicked>>

\* Debounce: the event replaces the pending one and a new timer the old one.
LoopArm(a) ==
  LET d == disp[Loop(a)] IN
  /\ d.pc = "arm"
  /\ act' = [act EXCEPT ![d.at].pending = d.ev, ![d.at].timer = d.ev]
  /\ disp' = [AfterTimerStop(d.at) EXCEPT
                ![Timer(d.ev)] = [Dispatcher("armed", a) EXCEPT !.at = d.at],
                ![Loop(a)] = Rest(Loop(a))]
  /\ UNCHANGED <<registry, engine, drivers, worker, panicked>>

\* The daemon's onTriggerError callback up to its call of Deactivate.
LoopError(a) ==
  LET t == TriggerOf(a)
      breach == Threshold > 0 /\ errs[t] + 1 >= Threshold
  IN
  /\ disp[Loop(a)].pc = "error"
  /\ IF status[t] = "absent"
     THEN /\ disp' = [disp EXCEPT ![Loop(a)] = Dispatcher("none", Nil)]
          /\ UNCHANGED registry
     ELSE /\ errs' = [errs EXCEPT ![t] = @ + 1]
          /\ status' = IF breach THEN [status EXCEPT ![t] = "error"] ELSE status
          /\ disp' = [disp EXCEPT ![Loop(a)] =
                        IF breach THEN Dispatcher("deactivate", a) ELSE Dispatcher("none", Nil)]
          /\ UNCHANGED <<cfg, changes>>
  /\ UNCHANGED <<engine, act, drivers, worker, panicked>>

\* The callback calls Deactivate(triggerID): whatever activation it finds.
LoopDeactivate(a) ==
  LET t == TriggerOf(a) IN
  /\ disp[Loop(a)].pc = "deactivate"
  /\ \/ /\ MutexFree /\ active[t] = Nil
        /\ disp' = [disp EXCEPT ![Loop(a)] = Dispatcher("none", Nil)]
        /\ UNCHANGED <<engine, act>>
     \/ /\ BeginDeactivate(t)
        /\ disp' = [AfterTimerStop(active[t]) EXCEPT ![Loop(a)] = Dispatcher("none", Nil)]
  /\ UNCHANGED <<registry, drivers, worker, panicked>>

\* A debounce timer fires: its callback becomes a goroutine.
TimerFire(e) ==
  /\ disp[Timer(e)].pc = "armed"
  /\ disp' = [disp EXCEPT ![Timer(e)].pc = "fired"]
  /\ UNCHANGED <<registry, engine, act, drivers, worker, panicked>>

\* Mutant of TimerTake: the pending event is not cleared.
TimerTakeKept(e) ==
  LET d == disp[Timer(e)] IN
  /\ d.pc = "fired"
  /\ disp' = [disp EXCEPT ![Timer(e)] =
                IF act[d.at].pending = Nil THEN Dispatcher("none", Nil)
                ELSE [d EXCEPT !.pc = "dispatch", !.ev = act[d.at].pending]]
  /\ UNCHANGED <<registry, engine, act, drivers, worker, panicked>>

\* The callback takes whatever event is pending, if one is left.
TimerTake(e) ==
  LET d == disp[Timer(e)] IN
  /\ d.pc = "fired"
  /\ act' = [act EXCEPT ![d.at].pending = Nil]
  /\ disp' = [disp EXCEPT ![Timer(e)] =
                IF act[d.at].pending = Nil THEN Dispatcher("none", Nil)
                ELSE [d EXCEPT !.pc = "dispatch", !.ev = act[d.at].pending]]
  /\ UNCHANGED <<registry, engine, drivers, worker, panicked>>

-----------------------------------------------------------------------------
(* dispatchWithConcurrency and enqueueAndDrain. *)

\* The second status check, which also reads the concurrency mode.
Dispatch(d) ==
  LET t == TriggerOf(disp[d].ctx) IN
  /\ disp[d].pc = "dispatch"
  /\ disp' = IF IsActive(t)
             THEN [disp EXCEPT ![d].pc = "gate", ![d].cfg = cfg[t]]
             ELSE [disp EXCEPT ![d] = Rest(d)]
  /\ UNCHANGED <<registry, engine, act, drivers, worker, panicked>>

AtGate(d, mode) == disp[d].pc = "gate" /\ disp[d].cfg.mode = mode

\* go func() { e.handleEvent(...) ... }
StartWorker(d, kind) ==
  /\ worker' = [worker EXCEPT ![disp[d].ev] =
       [pc |-> "begin", kind |-> kind, ev |-> disp[d].ev,
        ctx |-> disp[d].ctx, at |-> disp[d].at, cut |-> FALSE]]
  /\ disp' = [disp EXCEPT ![d] = Rest(d)]

GateParallel(d) ==
  /\ AtGate(d, "parallel")
  /\ StartWorker(d, "parallel")
  /\ UNCHANGED <<registry, engine, act, drivers, panicked>>

GateDrop(d) ==
  LET at == disp[d].at IN
  /\ AtGate(d, "drop")
  /\ IF act[at].running
     THEN disp' = [disp EXCEPT ![d] = Rest(d)] /\ UNCHANGED <<act, worker>>
     ELSE act' = [act EXCEPT ![at].running = TRUE] /\ StartWorker(d, "drop")
  /\ UNCHANGED <<registry, engine, drivers, panicked>>

\* Mutant of GateQueue: at.running is not set.
GateQueueUnmarked(d) ==
  LET at == disp[d].at IN
  /\ AtGate(d, "queue")
  /\ IF ~act[at].running
     THEN UNCHANGED act /\ StartWorker(d, "queue")
     ELSE /\ act' = IF Len(act[at].queue) >= disp[d].cfg.max THEN act
                    ELSE [act EXCEPT ![at].queue = Append(@, disp[d].ev)]
          /\ disp' = [disp EXCEPT ![d] = Rest(d)]
          /\ UNCHANGED worker
  /\ UNCHANGED <<registry, engine, drivers, panicked>>

\* Mutant of GateQueue: the event is put at the head of the queue.
GateQueueFront(d) ==
  LET at == disp[d].at IN
  /\ AtGate(d, "queue")
  /\ IF ~act[at].running
     THEN act' = [act EXCEPT ![at].running = TRUE] /\ StartWorker(d, "queue")
     ELSE /\ act' = IF Len(act[at].queue) >= disp[d].cfg.max THEN act
                    ELSE [act EXCEPT ![at].queue = <<disp[d].ev>> \o @]
          /\ disp' = [disp EXCEPT ![d] = Rest(d)]
          /\ UNCHANGED worker
  /\ UNCHANGED <<registry, engine, drivers, panicked>>

GateQueue(d) ==
  LET at == disp[d].at IN
  /\ AtGate(d, "queue")
  /\ IF ~act[at].running
     THEN act' = [act EXCEPT ![at].running = TRUE] /\ StartWorker(d, "queue")
     ELSE /\ act' = IF Len(act[at].queue) >= disp[d].cfg.max THEN act
                    ELSE [act EXCEPT ![at].queue = Append(@, disp[d].ev)]
          /\ disp' = [disp EXCEPT ![d] = Rest(d)]
          /\ UNCHANGED worker
  /\ UNCHANGED <<registry, engine, drivers, panicked>>

StartAbortWorker(d) ==
  /\ act' = [act EXCEPT ![disp[d].at].running = TRUE, ![disp[d].at].abort = disp[d].ev]
  /\ StartWorker(d, "abort")

GateAbort(d) ==
  /\ AtGate(d, "abort")
  /\ ~act[disp[d].at].running
  /\ StartAbortWorker(d)
  /\ UNCHANGED <<registry, engine, drivers, panicked>>

\* Mutant of GateAbortCancel: doneCh is not waited for.
GateAbortCancelOnly(d) ==
  LET running == act[disp[d].at].abort IN
  /\ AtGate(d, "abort")
  /\ act[disp[d].at].running
  /\ running # Nil
  /\ act' = [act EXCEPT ![disp[d].at].abort = disp[d].ev]
  /\ worker' = [worker EXCEPT
       ![running].cut = TRUE,
       ![disp[d].ev] = [pc |-> "begin", kind |-> "abort", ev |-> disp[d].ev,
                        ctx |-> disp[d].ctx, at |-> disp[d].at, cut |-> FALSE]]
  /\ disp' = [disp EXCEPT ![d] = Rest(d)]
  /\ UNCHANGED <<registry, engine, drivers, panicked>>

\* at.abortCancel(), then wait for the running action to finish.
GateAbortCancel(d) ==
  LET running == act[disp[d].at].abort IN
  /\ AtGate(d, "abort")
  /\ act[disp[d].at].running
  /\ running # Nil
  /\ worker' = [worker EXCEPT ![running].cut = TRUE]
  /\ disp' = [disp EXCEPT ![d].pc = "await", ![d].awaits = running]
  /\ UNCHANGED <<registry, engine, act, drivers, panicked>>

\* The running action was started in another mode: abortCancel is nil.
GateAbortPanic(d) ==
  /\ AtGate(d, "abort")
  /\ act[disp[d].at].running
  /\ act[disp[d].at].abort = Nil
  /\ panicked' = TRUE
  /\ UNCHANGED <<registry, engine, act, drivers, disp, worker>>

\* <-doneCh returned: at.running is not looked at again.
AbortResume(d) ==
  /\ disp[d].pc = "await"
  /\ worker[disp[d].awaits].pc = "done"
  /\ StartAbortWorker(d)
  /\ UNCHANGED <<registry, engine, drivers, panicked>>

-----------------------------------------------------------------------------
(* handleEvent, and what each mode's goroutine does after it. *)

\* The third status check.
WorkerBegin(e) ==
  /\ worker[e].pc = "begin"
  /\ worker' = [worker EXCEPT ![e].pc = IF IsActive(TriggerOf(worker[e].ctx)) THEN "exec" ELSE "end"]
  /\ UNCHANGED <<registry, engine, act, drivers, disp, panicked>>

\* Every action of the trigger has been executed and onFired called.
WorkerExec(e) ==
  /\ worker[e].pc = "exec"
  /\ worker' = [worker EXCEPT ![e].pc = "end"]
  /\ UNCHANGED <<registry, engine, act, drivers, disp, panicked>>

WorkerEndParallel(e) ==
  /\ worker[e].pc = "end" /\ worker[e].kind = "parallel"
  /\ worker' = [worker EXCEPT ![e] = Returned]
  /\ UNCHANGED <<registry, engine, act, drivers, disp, panicked>>

WorkerEndDrop(e) ==
  /\ worker[e].pc = "end" /\ worker[e].kind = "drop"
  /\ worker' = [worker EXCEPT ![e] = Returned]
  /\ act' = [act EXCEPT ![worker[e].at].running = FALSE]
  /\ UNCHANGED <<registry, engine, drivers, disp, panicked>>

WorkerEndAbort(e) ==
  /\ worker[e].pc = "end" /\ worker[e].kind = "abort"
  /\ worker' = [worker EXCEPT ![e] = Returned]
  /\ act' = [act EXCEPT ![worker[e].at].running = FALSE, ![worker[e].at].abort = Nil]
  /\ UNCHANGED <<registry, engine, drivers, disp, panicked>>

\* Mutant of WorkerEndQueue: the worker ends without a look at the queue.
WorkerEndQueueOnce(e) ==
  /\ worker[e].pc = "end" /\ worker[e].kind = "queue"
  /\ worker' = [worker EXCEPT ![e] = Returned]
  /\ act' = [act EXCEPT ![worker[e].at].running = FALSE]
  /\ UNCHANGED <<registry, engine, drivers, disp, panicked>>

\* The drain loop: the next queued event, or the end.
WorkerEndQueue(e) ==
  LET at == worker[e].at IN
  /\ worker[e].pc = "end" /\ worker[e].kind = "queue"
  /\ IF act[at].queue = <<>>
     THEN /\ worker' = [worker EXCEPT ![e] = Returned]
          /\ act' = [act EXCEPT ![at].running = FALSE]
     ELSE /\ worker' = [worker EXCEPT ![e].pc = "begin", ![e].ev = Head(act[at].queue)]
          /\ act' = [act EXCEPT ![at].queue = Tail(@)]
  /\ UNCHANGED <<registry, engine, drivers, disp, panicked>>

-----------------------------------------------------------------------------
(* The engine's goroutines. *)

LoopStep(a) ==
  \/ LoopCancelled(a) \/ LoopReceive(a) \/ LoopClosed(a) \/ LoopLookup(a)
  \/ LoopArm(a) \/ LoopError(a) \/ LoopDeactivate(a)

TimerStep(e) == TimerFire(e) \/ TimerTake(e)

Gate(d) ==
  \/ GateParallel(d) \/ GateDrop(d) \/ GateQueue(d)
  \/ GateAbort(d) \/ GateAbortCancel(d) \/ GateAbortPanic(d)

DispatchStep(d) == Dispatch(d) \/ Gate(d) \/ AbortResume(d)

WorkerEnd(e) ==
  WorkerEndParallel(e) \/ WorkerEndDrop(e) \/ WorkerEndAbort(e) \/ WorkerEndQueue(e)

WorkerStep(e) == WorkerBegin(e) \/ WorkerExec(e) \/ WorkerEnd(e)

\* The critical section that holds e.mutex goes on.
MutexStep ==
  \/ DeactivateStop \/ DeactivateReturn \/ StopAllStop \/ StopAllReturn
  \/ \E t \in Triggers : StopAllCancel(t)

Next ==
  /\ ~panicked
  /\ \/ \E t \in Triggers : RegistryChange(t) \/ Activate(t) \/ Deactivate(t)
     \/ StopAll
     \/ MutexStep
     \/ \E a \in Activations : Produce(a) \/ Crash(a) \/ LoopStep(a)
     \/ \E e \in Events : TimerStep(e) \/ WorkerStep(e)
     \/ \E d \in Dispatchers : DispatchStep(d)

Spec == Init /\ [][Next]_vars

(***************************************************************************)
(* Fairness: the Go scheduler runs every goroutine that can run, and       *)
(* driver.Stop() returns because it kills the process in the end.  An      *)
(* action may run for ever (a shell action has no timeout by default)      *)
(* unless its context is cancelled, which kills its process.  A mutex is   *)
(* handed to a waiting goroutine in the end (Go's mutex starvation mode),  *)
(* so the steps that take e.mutex are strongly fair.                       *)
(***************************************************************************)
Fairness ==
  /\ WF_vars(MutexStep /\ ~panicked)
  /\ \A a \in Activations :
       /\ WF_vars(LoopStep(a) /\ ~panicked)
       /\ SF_vars((LoopLookup(a) \/ LoopDeactivate(a)) /\ ~panicked)
  /\ \A e \in Events :
       /\ WF_vars(TimerStep(e) /\ ~panicked)
       /\ WF_vars((WorkerBegin(e) \/ WorkerEnd(e)) /\ ~panicked)
       /\ WF_vars(WorkerExec(e) /\ Cancelled(worker[e]) /\ ~panicked)
  /\ \A d \in Dispatchers : WF_vars(DispatchStep(d) /\ ~panicked)

FairSpec == Spec /\ Fairness

-----------------------------------------------------------------------------
(* Correctness. *)

\* The types of the variables.
TypeOK ==
  /\ status \in [Triggers -> Statuses]
  /\ cfg \in [Triggers -> Configs]
  /\ errs \in [Triggers -> Nat]
  /\ changes \in 0..MaxChange
  /\ active \in [Triggers -> 0..MaxActivation]
  /\ stopped \in BOOLEAN
  /\ mutex \in MutexType
  /\ allocated \in 0..MaxActivation
  /\ act \in [Activations -> ActType]
  /\ chan \in [Activations -> Seq(Events)]
  /\ driver \in [Activations -> {"none", "up", "crashed", "stopped"}]
  /\ disp \in [Dispatchers -> DispType]
  /\ worker \in [Events -> WorkerType]
  /\ produced \in 0..MaxEvent
  /\ origin \in [Events -> 0..MaxActivation]
  /\ panicked \in BOOLEAN

\* At any time at most one activation of a trigger has a live context, and it is
\* the one in e.active: whatever Deactivate and StopAll leave behind - loops,
\* timers, queues - has a cancelled context.
OneLiveActivation ==
  \A a \in 1..allocated : ~act[a].cancelled => active[TriggerOf(a)] = a

\* In the queue and drop modes an activation has one worker at a time
\* (at.running), however many goroutines dispatch to it.
SerialWork ==
  \A e, f \in Events :
    /\ Live(e) /\ Live(f) /\ worker[e].at = worker[f].at
    /\ {worker[e].kind, worker[f].kind} \subseteq {"queue", "drop"}
    => e = f

\* In the queue mode a queued event has a worker that will come to take it: the
\* drain loop never ends between an append and its own look at the queue.
NoStrandedEvent ==
  \A a \in 1..allocated :
    act[a].queue # <<>> => \E e \in Events : Live(e) /\ worker[e].at = a

\* Events of one driver are handled in the order it produced them (queue mode,
\* no debounce): the handled one precedes the queued ones, and those are sorted.
HandledInOrder ==
  \A a \in 1..allocated :
    LET q == act[a].queue IN
    /\ \A i, j \in DOMAIN q : i < j /\ origin[q[i]] = origin[q[j]] => q[i] < q[j]
    /\ \A e \in Events, i \in DOMAIN q :
         Live(e) /\ worker[e].at = a /\ origin[worker[e].ev] = origin[q[i]]
         => worker[e].ev < q[i]

\* In the abort mode an activation has one action at a time, the one cancelled included: the new
\* action starts when the old one has ended (daemon-lifecycle.md:64) ...
OneAbortWorker ==
  \A e, f \in Events :
    /\ Live(e) /\ worker[e].kind = "abort"
    /\ Live(f) /\ worker[f].kind = "abort"
    /\ worker[e].at = worker[f].at
    => e = f

\* ... and while a dispatcher waits for the old one to end, no other one passes or waits too.
OneWaits ==
  \A d, other \in Dispatchers :
    /\ d # other /\ disp[d].pc = "await" /\ disp[other].at = disp[d].at
    => disp[other].pc \notin {"gate", "await"}

\* The first holds as long as the second has held.  Whoever waits for doneCh (engine.go:266)
\* does not look at at.running again, so two dispatchers of one activation - debounce timers,
\* the loop and a timer, the loops of two activations - may both start an action, or one that
\* waited may start it beside one that did not have to (README, section 6).
AbortReplaces == []OneWaits => []OneAbortWorker

\* An event is handled at most once, and never after it was dropped: the engine
\* implements EventFlow.
InHands(e) == \E w \in Events : Live(w) /\ worker[w].ev = e

Waiting(e) ==
  \/ \E a \in Activations :
       act[a].pending = e \/ e \in Range(chan[a]) \/ e \in Range(act[a].queue)
  \/ \E d \in Dispatchers : disp[d].ev = e

Stage(e) == IF e > produced THEN "new"
            ELSE IF InHands(e) THEN "handled"
            ELSE IF Waiting(e) THEN "waiting" ELSE "gone"

Flow == INSTANCE EventFlow WITH stage <- [e \in Events |-> Stage(e)]

ImplementsEventFlow == Flow!Spec

-----------------------------------------------------------------------------
(* Liveness, under Fairness. *)

\* Deactivate and StopAll return: nothing that runs under e.mutex waits for a
\* goroutine that needs e.mutex.
MutexReleased == mutex.op # "free" ~> mutex.op = "free"

\* No dispatch loop outlives its driver.
LoopEnds == \A a \in Activations : Closed(a) ~> disp[Loop(a)].pc = "none"

\* If no action runs for ever, no event stays queued for ever.
QueueDrains ==
  (\A e \in Events : []<>(worker[e].pc # "exec")) =>
    \A a \in Activations : act[a].queue # <<>> ~> act[a].queue = <<>>

-----------------------------------------------------------------------------
(* What the documents say and the code does not do. *)

\* engine.go:55 and :75: onTriggerError is called when a driver exits
\* unexpectedly.  No configuration lists it (README, section 6).
ErrorOnlyOnCrash ==
  \A a \in Activations : disp[Loop(a)].pc = "error" => driver[a] = "crashed"

\* daemon-lifecycle.md:39: errors in one trigger never crash the daemon.
NoPanic == ~panicked
=============================================================================
