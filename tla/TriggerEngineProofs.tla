------------------------- MODULE TriggerEngineProofs -------------------------
(* Theorems about TriggerEngine, for every value of its constants. *)
EXTENDS TriggerEngine, SequenceTheorems, TLAPS

\* The values the actions build have the types TypeOK gives them.
LEMMA NoConfigType == NoConfig \in Configs
  BY EngineAssumption DEF NoConfig

LEMMA Bounds ==
  /\ MaxActivation \in Nat /\ MaxEvent \in Nat /\ MaxChange \in Nat
  /\ 0 \in 0..MaxActivation /\ 0 \in 0..MaxEvent /\ 0 \in 0..MaxChange
  BY EngineAssumption

LEMMA Numbers ==
  /\ \A e \in Events : e \in 0..MaxEvent /\ e # Nil
  /\ \A a \in Activations : a \in 0..MaxActivation /\ a # Nil
  BY Bounds DEF Events, Activations, Nil

LEMMA DispatcherType ==
  /\ Dispatcher("none", Nil) \in DispType
  /\ \A a \in Activations, pc \in {"select", "error", "deactivate"} :
       Dispatcher(pc, a) \in DispType
  /\ \A a, at \in Activations : [Dispatcher("armed", a) EXCEPT !.at = at] \in DispType
  BY NoConfigType, Bounds
  DEF Dispatcher, DispType, DispPCs, HasEvent, HasActivation, Nil, Activations

LEMMA LoopIn == \A a \in Activations : Loop(a) \in Dispatchers
  BY DEF Loop, Dispatchers

LEMMA TimerIn == \A e \in Events : Timer(e) \in Dispatchers
  BY DEF Timer, Dispatchers

LEMMA RestType == \A d \in Dispatchers : Rest(d) \in DispType
  <1> SUFFICES ASSUME NEW d \in Dispatchers PROVE Rest(d) \in DispType
    OBVIOUS
  <1>1. CASE \E a \in Activations : d = Loop(a)
    <2> PICK a \in Activations : d = Loop(a)  BY <1>1
    <2>1. d[1] = "loop" /\ d[2] = a  BY DEF Loop
    <2> QED  BY <2>1, DispatcherType DEF Rest
  <1>2. CASE \E e \in Events : d = Timer(e)
    <2>1. d[1] = "timer"  BY <1>2 DEF Timer
    <2> QED  BY <2>1, DispatcherType DEF Rest
  <1> QED  BY <1>1, <1>2 DEF Dispatchers

LEMMA NewActType == \A t \in Triggers : NewAct(t) \in ActType
  <1>1. <<>> \in Seq(Events)  OBVIOUS
  <1>2. 0 \in 0..MaxEvent  BY EngineAssumption
  <1> QED  BY <1>1, <1>2 DEF NewAct, ActType, Nil

LEMMA NoWorkerType == NoWorker \in WorkerType /\ Returned \in WorkerType
  <1>1. NoWorker \in WorkerType
    BY EngineAssumption DEF NoWorker, WorkerType, Modes, Nil
  <1>2. Returned \in WorkerType
    BY <1>1 DEF Returned, WorkerType
  <1> QED  BY <1>1, <1>2

\* Changing one field of one object keeps the type of the whole map.
LEMMA ActFields ==
  ASSUME NEW f \in [Activations -> ActType], NEW a
  PROVE  /\ \A b \in BOOLEAN : [f EXCEPT ![a].cancelled = b] \in [Activations -> ActType]
         /\ \A b \in BOOLEAN : [f EXCEPT ![a].running = b] \in [Activations -> ActType]
         /\ \A q \in Seq(Events) : [f EXCEPT ![a].queue = q] \in [Activations -> ActType]
         /\ \A e \in 0..MaxEvent : [f EXCEPT ![a].pending = e] \in [Activations -> ActType]
         /\ \A b \in BOOLEAN, e \in 0..MaxEvent :
              [f EXCEPT ![a].running = b, ![a].abort = e] \in [Activations -> ActType]
         /\ \A e \in 0..MaxEvent :
              [f EXCEPT ![a].pending = e, ![a].timer = e] \in [Activations -> ActType]
  <1>1. CASE a \in Activations
    <2>1. f[a] \in ActType  BY <1>1
    <2>2. \A r \in ActType : [f EXCEPT ![a] = r] \in [Activations -> ActType]
      OBVIOUS
    <2>3. \A b \in BOOLEAN : [f[a] EXCEPT !.cancelled = b] \in ActType
      BY <2>1 DEF ActType
    <2>4. \A b \in BOOLEAN : [f[a] EXCEPT !.running = b] \in ActType
      BY <2>1 DEF ActType
    <2>5. \A q \in Seq(Events) : [f[a] EXCEPT !.queue = q] \in ActType
      BY <2>1 DEF ActType
    <2>6. \A e \in 0..MaxEvent : [f[a] EXCEPT !.pending = e] \in ActType
      BY <2>1 DEF ActType
    <2>7. \A b \in BOOLEAN, e \in 0..MaxEvent :
            [f[a] EXCEPT !.running = b, !.abort = e] \in ActType
      BY <2>1 DEF ActType
    <2>8. \A e \in 0..MaxEvent : [f[a] EXCEPT !.pending = e, !.timer = e] \in ActType
      BY <2>1 DEF ActType
    <2> QED  BY <2>2, <2>3, <2>4, <2>5, <2>6, <2>7, <2>8
  <1>2. CASE a \notin Activations
    BY <1>2
  <1> QED  BY <1>1, <1>2

LEMMA DispFields ==
  ASSUME NEW f \in [Dispatchers -> DispType], NEW d \in Dispatchers
  PROVE  /\ \A r \in DispType : [f EXCEPT ![d] = r] \in [Dispatchers -> DispType]
         /\ f[d].pc = "select" =>
              [f EXCEPT ![d].pc = "error"] \in [Dispatchers -> DispType]
         /\ f[d].pc = "armed" =>
              [f EXCEPT ![d].pc = "fired"] \in [Dispatchers -> DispType]
         /\ \A e \in Events, c \in Configs : f[d].pc = "select" =>
              [f EXCEPT ![d].pc = "lookup", ![d].ev = e, ![d].cfg = c]
                \in [Dispatchers -> DispType]
         /\ \A at \in Activations, pc \in {"arm", "dispatch"} : f[d].pc = "lookup" =>
              [f EXCEPT ![d].at = at, ![d].pc = pc] \in [Dispatchers -> DispType]
         /\ \A c \in Configs : f[d].pc = "dispatch" =>
              [f EXCEPT ![d].pc = "gate", ![d].cfg = c] \in [Dispatchers -> DispType]
         /\ \A e \in 0..MaxEvent : f[d].pc = "gate" =>
              [f EXCEPT ![d].pc = "await", ![d].awaits = e] \in [Dispatchers -> DispType]
         /\ \A e \in Events : f[d].pc = "fired" =>
              [f[d] EXCEPT !.pc = "dispatch", !.ev = e] \in DispType
  <1>1. f[d] \in DispType
    OBVIOUS
  <1>2. \A r \in DispType : [f EXCEPT ![d] = r] \in [Dispatchers -> DispType]
    OBVIOUS
  <1>10. \A e \in Events : e \in 0..MaxEvent /\ e # Nil
    BY Bounds DEF Events, Nil
  <1> USE <1>1, <1>10 DEF DispType, DispPCs, HasEvent, HasActivation
  <1>3. f[d].pc = "select" => [f[d] EXCEPT !.pc = "error"] \in DispType
    OBVIOUS
  <1>4. f[d].pc = "armed" => [f[d] EXCEPT !.pc = "fired"] \in DispType
    OBVIOUS
  <1>5. \A e \in Events, c \in Configs : f[d].pc = "select" =>
          [f[d] EXCEPT !.pc = "lookup", !.ev = e, !.cfg = c] \in DispType
    OBVIOUS
  <1>6. \A at \in Activations, pc \in {"arm", "dispatch"} : f[d].pc = "lookup" =>
          [f[d] EXCEPT !.at = at, !.pc = pc] \in DispType
    <2>1. \A at \in Activations : at \in 0..MaxActivation /\ at # Nil
      BY Bounds DEF Activations, Nil
    <2>2. \A at \in Activations : f[d].pc = "lookup" =>
            [f[d] EXCEPT !.at = at, !.pc = "arm"] \in DispType
      BY <2>1
    <2>3. \A at \in Activations : f[d].pc = "lookup" =>
            [f[d] EXCEPT !.at = at, !.pc = "dispatch"] \in DispType
      BY <2>1
    <2> QED  BY <2>2, <2>3
  <1>7. \A c \in Configs : f[d].pc = "dispatch" =>
          [f[d] EXCEPT !.pc = "gate", !.cfg = c] \in DispType
    OBVIOUS
  <1>8. \A e \in 0..MaxEvent : f[d].pc = "gate" =>
          [f[d] EXCEPT !.pc = "await", !.awaits = e] \in DispType
    OBVIOUS
  <1>9. \A e \in Events : f[d].pc = "fired" =>
          [f[d] EXCEPT !.pc = "dispatch", !.ev = e] \in DispType
    OBVIOUS
  <1> HIDE <1>1, <1>10 DEF DispType
  <1> QED  BY <1>2, <1>3, <1>4, <1>5, <1>6, <1>7, <1>8, <1>9

LEMMA WorkerFields ==
  ASSUME NEW f \in [Events -> WorkerType], NEW e \in Events
  PROVE  /\ \A r \in WorkerType : [f EXCEPT ![e] = r] \in [Events -> WorkerType]
         /\ \A pc \in {"exec", "end"} : f[e].pc \in {"begin", "exec"} =>
              [f EXCEPT ![e].pc = pc] \in [Events -> WorkerType]
         /\ [f EXCEPT ![e].cut = TRUE] \in [Events -> WorkerType]
         /\ \A v \in 0..MaxEvent : f[e].pc = "end" =>
              [f EXCEPT ![e].pc = "begin", ![e].ev = v] \in [Events -> WorkerType]
  <1> f[e] \in WorkerType
    OBVIOUS
  <1> QED
    BY DEF WorkerType

\* Init and every action preserve the types.
LEMMA InitType == Init => TypeOK
  <1> SUFFICES ASSUME Init PROVE TypeOK
    OBVIOUS
  <1> USE DEF Nil
  <1>1. (CHOOSE t \in Triggers : TRUE) \in Triggers
    BY EngineAssumption
  <1>2. act \in [Activations -> ActType]
    BY <1>1, NewActType DEF Init
  <1>3. disp \in [Dispatchers -> DispType]
    BY DispatcherType, EngineAssumption DEF Init
  <1>4. worker \in [Events -> WorkerType]
    BY NoWorkerType DEF Init
  <1>5. mutex \in MutexType
    BY Bounds DEF Init, Free, MutexType
  <1>6. chan \in [Activations -> Seq(Events)]
    BY DEF Init
  <1>7. status \in [Triggers -> Statuses]
    BY DEF Init, Statuses
  <1>8. /\ active \in [Triggers -> 0..MaxActivation]
        /\ driver \in [Activations -> {"none", "up", "crashed", "stopped"}]
        /\ origin \in [Events -> 0..MaxActivation]
    BY EngineAssumption DEF Init
  <1> QED
    BY <1>2, <1>3, <1>4, <1>5, <1>6, <1>7, <1>8, Bounds DEF Init, TypeOK

LEMMA StepType == TypeOK /\ [Next]_vars => TypeOK'
  <1> SUFFICES ASSUME TypeOK, [Next]_vars PROVE TypeOK'
    OBVIOUS
  <1> USE DEF Nil
  <1>1. ASSUME NEW t \in Triggers, RegistryChange(t) PROVE TypeOK'
    <2>1. UNCHANGED <<engine, act, drivers, disp, worker, panicked>>
      BY <1>1 DEF RegistryChange
    <2>2. /\ status' \in [Triggers -> Statuses] /\ cfg' \in [Triggers -> Configs]
          /\ errs' \in [Triggers -> Nat] /\ changes' \in 0..MaxChange
      <3>1. CASE SetStatus(t)
        BY <3>1, EngineAssumption DEF SetStatus, TypeOK, Statuses
      <3>2. CASE Register(t)
        BY <3>2, EngineAssumption DEF Register, TypeOK, Statuses
      <3>3. CASE Deregister(t)
        BY <3>3, EngineAssumption DEF Deregister, TypeOK, Statuses
      <3> QED  BY <1>1, <3>1, <3>2, <3>3 DEF RegistryChange
    <2> QED  BY <2>1, <2>2 DEF TypeOK, engine, drivers
  <1>2. ASSUME NEW t \in Triggers, Activate(t) PROVE TypeOK'
    <2>1. allocated + 1 \in Activations
      BY <1>2, EngineAssumption DEF TypeOK, Activate, Activations
    <2>2. act' \in [Activations -> ActType]
      BY <1>2, <2>1, NewActType DEF TypeOK, Activate
    <2>3. disp' \in [Dispatchers -> DispType]
      <3>1. Dispatcher("select", allocated + 1) \in DispType
        BY <2>1, DispatcherType
      <3>2. disp \in [Dispatchers -> DispType] /\ Loop(allocated + 1) \in Dispatchers
        BY <2>1, LoopIn DEF TypeOK
      <3> QED  BY <1>2, <3>1, <3>2, DispFields DEF Activate
    <2> QED
      BY <1>2, <2>1, <2>2, <2>3 DEF TypeOK, Activate, Activations, registry
  <1>3. ASSUME NEW t \in Triggers, BeginDeactivate(t) PROVE
          /\ mutex' \in MutexType
          /\ act' \in [Activations -> ActType]
          /\ UNCHANGED <<active, stopped, allocated>>
    <2>1. active[t] \in Activations /\ 0 \in 0..MaxEvent
      BY <1>3, EngineAssumption DEF TypeOK, BeginDeactivate, Activations
    <2>2. mutex' = [op |-> "deactivate", at |-> active[t], await |-> 0]
      BY <1>3 DEF BeginDeactivate
    <2>3. act' \in [Activations -> ActType]
      BY <1>3, ActFields DEF TypeOK, BeginDeactivate
    <2> QED  BY <1>3, <2>1, <2>2, <2>3 DEF BeginDeactivate, Activations, MutexType
  <1>4. ASSUME NEW a PROVE AfterTimerStop(a) \in [Dispatchers -> DispType]
    BY DispatcherType, EngineAssumption DEF TypeOK, AfterTimerStop
  <1>5. ASSUME NEW t \in Triggers, Deactivate(t) PROVE TypeOK'
    BY <1>3, <1>4, <1>5 DEF TypeOK, Deactivate, registry, drivers
  <1>6. \A a : StopDriver(a) =>
          /\ driver' \in [Activations -> {"none", "up", "crashed", "stopped"}]
          /\ UNCHANGED <<chan, produced, origin>>
    BY DEF StopDriver, TypeOK
  <1>7. CASE DeactivateStop
    <2>1. /\ active' \in [Triggers -> 0..MaxActivation]
          /\ mutex' \in MutexType
      <3>1. mutex.at \in Activations /\ act[mutex.at].abort \in 0..MaxEvent
        BY <1>7 DEF TypeOK, ActType, MutexType, DeactivateStop, Activations
      <3> QED  BY <1>7, <3>1, Bounds DEF DeactivateStop, TypeOK, Free, MutexType, Activations
    <2> QED  BY <1>6, <1>7, <2>1 DEF DeactivateStop, TypeOK, registry
  <1>8. CASE DeactivateReturn
    BY <1>8, Bounds DEF DeactivateReturn, TypeOK, Free, MutexType, registry, drivers
  <1>9. CASE StopAll
    BY <1>9, Bounds DEF StopAll, TypeOK, MutexType, registry, drivers
  <1>10. ASSUME NEW t \in Triggers, StopAllCancel(t) PROVE TypeOK'
    BY <1>10, ActFields DEF StopAllCancel, TypeOK, MutexType, registry, drivers
  <1>11. CASE StopAllStop
    BY <1>6, <1>11, Bounds DEF StopAllStop, TypeOK, MutexType, registry
  <1>12. CASE StopAllReturn
    BY <1>12, Bounds DEF StopAllReturn, TypeOK, Free, MutexType, registry, drivers
  <1>13. ASSUME NEW a \in Activations, Produce(a) PROVE TypeOK'
    <2>1. produced + 1 \in Events
      BY <1>13, Bounds DEF Produce, TypeOK, Events
    <2>2. a \in 0..MaxActivation
      BY DEF Activations
    <2>3. chan' \in [Activations -> Seq(Events)]
      BY <1>13, <2>1 DEF Produce, TypeOK
    <2> QED
      BY <1>13, <2>1, <2>2, <2>3 DEF Produce, TypeOK, Events, registry, engine
  <1>14. ASSUME NEW a \in Activations, Crash(a) PROVE TypeOK'
    BY <1>14 DEF Crash, TypeOK, registry, engine
  <1>15. ASSUME NEW a \in Activations, LoopStep(a) PROVE TypeOK'
    <2> /\ Loop(a) \in Dispatchers /\ disp \in [Dispatchers -> DispType]
        /\ disp[Loop(a)] \in DispType
      BY LoopIn DEF TypeOK
    <2>1. CASE LoopCancelled(a)
      <3>1. disp' \in [Dispatchers -> DispType]
        BY <2>1, DispFields, DispatcherType DEF LoopCancelled, Nil
      <3> QED  BY <2>1, <3>1 DEF LoopCancelled, TypeOK, registry, engine, drivers
    <2>2. CASE LoopReceive(a)
      <3>1. /\ Head(chan[a]) \in Events /\ cfg[TriggerOf(a)] \in Configs
            /\ chan' \in [Activations -> Seq(Events)]
        <4>1. chan[a] \in Seq(Events) /\ chan[a] # <<>>
          BY <2>2 DEF LoopReceive, TypeOK
        <4>2. Head(chan[a]) \in Events /\ Tail(chan[a]) \in Seq(Events)
          BY <4>1
        <4>3. act[a] \in ActType
          BY DEF TypeOK
        <4>4. cfg[TriggerOf(a)] \in Configs
          BY <4>3 DEF TypeOK, TriggerOf, ActType
        <4> QED  BY <2>2, <4>2, <4>4 DEF LoopReceive, TypeOK
      <3>2. disp' \in [Dispatchers -> DispType]
        BY <2>2, <3>1, DispFields DEF LoopReceive
      <3> QED  BY <2>2, <3>1, <3>2 DEF LoopReceive, TypeOK, registry, engine
    <2>3. CASE LoopClosed(a)
      <3>1. disp' \in [Dispatchers -> DispType]
        BY <2>3, DispFields DEF LoopClosed
      <3> QED  BY <2>3, <3>1 DEF LoopClosed, TypeOK, registry, engine, drivers
    <2>4. CASE LoopLookup(a)
      <3>1. active[TriggerOf(a)] # Nil => active[TriggerOf(a)] \in Activations
        BY DEF TypeOK, TriggerOf, ActType, Activations
      <3>2. disp' \in [Dispatchers -> DispType]
        BY <2>4, <3>1, DispFields, RestType DEF LoopLookup
      <3> QED  BY <2>4, <3>2 DEF LoopLookup, TypeOK, registry, engine, drivers
    <2>5. CASE LoopArm(a)
      <3> DEFINE d == disp[Loop(a)]
      <3>1. d.ev \in Events /\ d.at \in Activations
        BY <2>5 DEF LoopArm, DispType, HasEvent, HasActivation, Events, Activations, Nil
      <3>2. act' \in [Activations -> ActType]
        <4>1. act \in [Activations -> ActType] /\ d.ev \in 0..MaxEvent
          BY <3>1, Numbers DEF TypeOK
        <4>2. [act EXCEPT ![d.at].pending = d.ev, ![d.at].timer = d.ev]
                \in [Activations -> ActType]
          BY <4>1, ActFields
        <4> QED  BY <2>5, <4>2 DEF LoopArm
      <3>3. disp' \in [Dispatchers -> DispType]
        <4>1. Timer(d.ev) \in Dispatchers
          BY <3>1, TimerIn
        <4>2. [Dispatcher("armed", a) EXCEPT !.at = d.at] \in DispType
          BY <3>1, DispatcherType
        <4>3. Rest(Loop(a)) \in DispType
          BY RestType
        <4>4. AfterTimerStop(d.at) \in [Dispatchers -> DispType]
          BY <1>4
        <4> QED  BY <2>5, <4>1, <4>2, <4>3, <4>4 DEF LoopArm
      <3> QED  BY <2>5, <3>2, <3>3 DEF LoopArm, TypeOK, registry, engine, drivers
    <2>6. CASE LoopError(a)
      <3>1. TriggerOf(a) \in Triggers
        BY DEF TypeOK, ActType, TriggerOf
      <3>2. /\ Dispatcher("none", Nil) \in DispType
            /\ Dispatcher("deactivate", a) \in DispType
        BY DispatcherType
      <3>3. \E r \in DispType : disp' = [disp EXCEPT ![Loop(a)] = r]
        BY <2>6, <3>2 DEF LoopError
      <3>4. disp' \in [Dispatchers -> DispType]
        BY <3>3
      <3>5. /\ status \in [Triggers -> Statuses] /\ errs \in [Triggers -> Nat]
            /\ "error" \in Statuses
        BY DEF TypeOK, Statuses
      <3>6. CASE UNCHANGED registry
        BY <2>6, <3>4, <3>6 DEF LoopError, TypeOK, registry, engine, drivers
      <3>7. CASE /\ errs' = [errs EXCEPT ![TriggerOf(a)] = @ + 1]
                 /\ UNCHANGED <<cfg, changes>>
                 /\ \/ status' = [status EXCEPT ![TriggerOf(a)] = "error"]
                    \/ status' = status
        <4>1. status' \in [Triggers -> Statuses] /\ errs' \in [Triggers -> Nat]
          BY <3>1, <3>5, <3>7
        <4> QED  BY <2>6, <3>4, <3>7, <4>1 DEF LoopError, TypeOK, engine, drivers
      <3> QED  BY <2>6, <3>6, <3>7 DEF LoopError
    <2>7. CASE LoopDeactivate(a)
      <3>1. TriggerOf(a) \in Triggers
        BY DEF TypeOK, ActType, TriggerOf
      <3>2. Dispatcher("none", Nil) \in DispType
        BY DispatcherType
      <3>3. CASE BeginDeactivate(TriggerOf(a)) /\
                 disp' = [AfterTimerStop(active[TriggerOf(a)]) EXCEPT
                            ![Loop(a)] = Dispatcher("none", Nil)]
        <4>1. disp' \in [Dispatchers -> DispType]
          BY <1>4, <3>2, <3>3
        <4> QED
          BY <1>3, <2>7, <3>1, <3>3, <4>1 DEF LoopDeactivate, TypeOK, registry, drivers
      <3>4. CASE UNCHANGED <<engine, act>> /\
                 disp' = [disp EXCEPT ![Loop(a)] = Dispatcher("none", Nil)]
        <4>1. disp' \in [Dispatchers -> DispType]
          BY <3>2, <3>4
        <4> QED
          BY <2>7, <3>4, <4>1 DEF LoopDeactivate, TypeOK, registry, engine, drivers
      <3> QED  BY <2>7, <3>3, <3>4 DEF LoopDeactivate
    <2> QED
      BY <1>15, <2>1, <2>2, <2>3, <2>4, <2>5, <2>6, <2>7 DEF LoopStep
  <1>16. ASSUME NEW e \in Events, TimerStep(e) PROVE TypeOK'
    <2> /\ Timer(e) \in Dispatchers /\ disp \in [Dispatchers -> DispType]
        /\ disp[Timer(e)] \in DispType
      BY TimerIn DEF TypeOK
    <2>1. CASE TimerFire(e)
      <3>1. disp' \in [Dispatchers -> DispType]
        BY <2>1, DispFields DEF TimerFire
      <3> QED  BY <2>1, <3>1 DEF TimerFire, TypeOK, registry, engine, drivers
    <2>2. CASE TimerTake(e)
      <3> DEFINE d == disp[Timer(e)]
      <3>1. d.pc = "fired" /\ d.at \in Activations
        BY <2>2 DEF TimerTake, DispType, HasActivation, Activations, Nil
      <3>2. act[d.at].pending # Nil => act[d.at].pending \in Events
        BY <3>1 DEF TypeOK, ActType, Events, Nil
      <3>3. act' \in [Activations -> ActType]
        BY <2>2, ActFields, Bounds DEF TimerTake, TypeOK
      <3>4. disp' \in [Dispatchers -> DispType]
        BY <2>2, <3>1, <3>2, DispFields, DispatcherType DEF TimerTake, Nil
      <3> QED  BY <2>2, <3>3, <3>4 DEF TimerTake, TypeOK, registry, engine, drivers
    <2> QED  BY <1>16, <2>1, <2>2 DEF TimerStep
  <1>17. ASSUME NEW d \in Dispatchers, DispatchStep(d) PROVE TypeOK'
    <2> DEFINE at == disp[d].at
               ev == disp[d].ev
    <2>0. /\ disp \in [Dispatchers -> DispType] /\ worker \in [Events -> WorkerType]
          /\ act \in [Activations -> ActType]
          /\ disp[d] \in DispType /\ Rest(d) \in DispType
      BY RestType DEF TypeOK
    <2>1. ASSUME disp[d].pc \in {"dispatch", "gate", "await"}
          PROVE  ev \in Events /\ at \in Activations /\ disp[d].ctx \in Activations
      BY <2>0, <2>1 DEF DispType, HasEvent, HasActivation, Events, Activations, Nil
    <2>2. ASSUME NEW kind \in Modes, StartWorker(d, kind),
                 disp[d].pc \in {"dispatch", "gate", "await"}
          PROVE  worker' \in [Events -> WorkerType] /\ disp' \in [Dispatchers -> DispType]
      <3>1. [pc |-> "begin", kind |-> kind, ev |-> ev, ctx |-> disp[d].ctx,
             at |-> at, cut |-> FALSE] \in WorkerType
        BY <2>1, <2>2 DEF WorkerType, Events, Activations, Nil
      <3> QED  BY <2>0, <2>1, <2>2, <3>1 DEF StartWorker
    <2>3. CASE Dispatch(d)
      <3>1. cfg[TriggerOf(disp[d].ctx)] \in Configs
        BY <2>1, <2>3 DEF TypeOK, ActType, TriggerOf, Dispatch
      <3>2. disp' \in [Dispatchers -> DispType]
        BY <2>0, <2>3, <3>1, DispFields DEF Dispatch
      <3> QED  BY <2>3, <3>2 DEF Dispatch, TypeOK, registry, engine, drivers
    <2>4. CASE GateParallel(d)
      BY <2>2, <2>4 DEF GateParallel, AtGate, Modes, TypeOK, registry, engine, drivers
    <2>5. CASE GateDrop(d)
      <3>1. act' \in [Activations -> ActType]
        <4>1. [act EXCEPT ![at].running = TRUE] \in [Activations -> ActType]
          BY <2>0, ActFields
        <4> QED  BY <2>0, <2>5, <4>1 DEF GateDrop
      <3>2. worker' \in [Events -> WorkerType] /\ disp' \in [Dispatchers -> DispType]
        BY <2>0, <2>2, <2>5 DEF GateDrop, AtGate, Modes
      <3> QED  BY <2>5, <3>1, <3>2 DEF GateDrop, TypeOK, registry, engine, drivers
    <2>6. CASE GateQueue(d)
      <3>1. ev \in Events /\ at \in Activations
        BY <2>1, <2>6 DEF GateQueue, AtGate
      <3>2. Append(act[at].queue, ev) \in Seq(Events)
        BY <2>0, <3>1 DEF ActType
      <3>3. act' \in [Activations -> ActType]
        <4>1. /\ [act EXCEPT ![at].running = TRUE] \in [Activations -> ActType]
              /\ [act EXCEPT ![at].queue = Append(@, ev)] \in [Activations -> ActType]
          BY <2>0, <3>1, <3>2, ActFields
        <4> QED  BY <2>0, <2>6, <4>1 DEF GateQueue
      <3>4. worker' \in [Events -> WorkerType] /\ disp' \in [Dispatchers -> DispType]
        BY <2>0, <2>2, <2>6 DEF GateQueue, AtGate, Modes
      <3> QED  BY <2>6, <3>3, <3>4 DEF GateQueue, TypeOK, registry, engine, drivers
    <2>7. ASSUME StartAbortWorker(d), disp[d].pc \in {"dispatch", "gate", "await"}
          PROVE  /\ act' \in [Activations -> ActType]
                 /\ worker' \in [Events -> WorkerType]
                 /\ disp' \in [Dispatchers -> DispType]
      <3>1. ev \in 0..MaxEvent
        BY <2>1, <2>7, Numbers
      <3>2. [act EXCEPT ![at].running = TRUE, ![at].abort = ev]
              \in [Activations -> ActType]
        BY <2>0, <3>1, ActFields
      <3>3. act' \in [Activations -> ActType]
        BY <2>7, <3>2 DEF StartAbortWorker
      <3> QED  BY <2>2, <2>7, <3>3 DEF StartAbortWorker, Modes
    <2>8. CASE GateAbort(d)
      BY <2>7, <2>8 DEF GateAbort, AtGate, TypeOK, registry, engine, drivers
    <2>9. CASE GateAbortCancel(d)
      <3>1. disp[d].pc = "gate" /\ act[at].abort \in 0..MaxEvent /\ act[at].abort # Nil
        BY <2>0, <2>1, <2>9 DEF GateAbortCancel, AtGate, ActType
      <3>2. worker' \in [Events -> WorkerType]
        BY <2>0, <2>9, <3>1, WorkerFields DEF GateAbortCancel, Events, Nil
      <3>3. disp' \in [Dispatchers -> DispType]
        BY <2>0, <2>9, <3>1, DispFields DEF GateAbortCancel
      <3> QED  BY <2>9, <3>2, <3>3 DEF GateAbortCancel, TypeOK, registry, engine, drivers
    <2>10. CASE GateAbortPanic(d)
      BY <2>10 DEF GateAbortPanic, TypeOK, registry, engine, drivers
    <2>11. CASE AbortResume(d)
      BY <2>7, <2>11 DEF AbortResume, TypeOK, registry, engine, drivers
    <2> QED
      BY <1>17, <2>3, <2>4, <2>5, <2>6, <2>8, <2>9, <2>10, <2>11 DEF DispatchStep, Gate
  <1>18. ASSUME NEW e \in Events, WorkerStep(e) PROVE TypeOK'
    <2>0. /\ worker \in [Events -> WorkerType] /\ worker[e] \in WorkerType
          /\ act \in [Activations -> ActType]
      BY DEF TypeOK
    <2>1. CASE WorkerBegin(e)
      <3>1. worker' \in [Events -> WorkerType]
        BY <2>0, <2>1, WorkerFields DEF WorkerBegin
      <3> QED  BY <2>1, <3>1 DEF WorkerBegin, TypeOK, registry, engine, drivers
    <2>2. CASE WorkerExec(e)
      <3>1. worker' \in [Events -> WorkerType]
        BY <2>0, <2>2, WorkerFields DEF WorkerExec
      <3> QED  BY <2>2, <3>1 DEF WorkerExec, TypeOK, registry, engine, drivers
    <2>3. [worker EXCEPT ![e] = Returned] \in [Events -> WorkerType]
      BY <2>0, NoWorkerType
    <2>4. CASE WorkerEndParallel(e)
      BY <2>3, <2>4 DEF WorkerEndParallel, TypeOK, registry, engine, drivers
    <2>5. CASE WorkerEndDrop(e)
      <3>1. act' \in [Activations -> ActType]
        BY <2>0, <2>5, ActFields DEF WorkerEndDrop
      <3> QED  BY <2>3, <2>5, <3>1 DEF WorkerEndDrop, TypeOK, registry, engine, drivers
    <2>6. CASE WorkerEndAbort(e)
      <3>1. act' \in [Activations -> ActType]
        BY <2>0, <2>6, ActFields, Bounds DEF WorkerEndAbort, Nil
      <3> QED  BY <2>3, <2>6, <3>1 DEF WorkerEndAbort, TypeOK, registry, engine, drivers
    <2>7. CASE WorkerEndQueue(e)
      <3> DEFINE q == act[worker[e].at].queue
      <3>1. worker[e].at \in Activations /\ q \in Seq(Events)
        BY <2>0, <2>7 DEF WorkerEndQueue, WorkerType, ActType, Activations, Nil
      <3>2. q # <<>> => Head(q) \in 0..MaxEvent /\ Tail(q) \in Seq(Events)
        <4>1. q # <<>> => Head(q) \in Events /\ Tail(q) \in Seq(Events)
          BY <3>1
        <4> QED  BY <4>1 DEF Events
      <3>3. act' \in [Activations -> ActType]
        <4>1. [act EXCEPT ![worker[e].at].running = FALSE] \in [Activations -> ActType]
          BY <2>0, ActFields
        <4>2. q # <<>> => [act EXCEPT ![worker[e].at].queue = Tail(@)]
                            \in [Activations -> ActType]
          BY <2>0, <3>1, <3>2, ActFields
        <4> QED  BY <2>7, <4>1, <4>2 DEF WorkerEndQueue
      <3>4. worker' \in [Events -> WorkerType]
        <4>1. q # <<>> => [worker EXCEPT ![e].pc = "begin", ![e].ev = Head(q)]
                            \in [Events -> WorkerType]
          BY <2>0, <2>7, <3>2, WorkerFields DEF WorkerEndQueue
        <4> QED  BY <2>3, <2>7, <4>1 DEF WorkerEndQueue
      <3> QED  BY <2>7, <3>3, <3>4 DEF WorkerEndQueue, TypeOK, registry, engine, drivers
    <2> QED
      BY <1>18, <2>1, <2>2, <2>4, <2>5, <2>6, <2>7 DEF WorkerStep, WorkerEnd
  <1>19. CASE UNCHANGED vars
    BY <1>19 DEF vars, TypeOK, registry, engine, drivers
  <1>20. CASE MutexStep
    BY <1>20, <1>7, <1>8, <1>10, <1>11, <1>12 DEF MutexStep
  <1> QED
    BY <1>1, <1>2, <1>5, <1>9, <1>13, <1>14, <1>15, <1>16, <1>17, <1>18, <1>19, <1>20
    DEF Next

\* Every reachable state is well typed: in particular no goroutine past the look-up
\* works on a nil activation (engine.go submitEvent, dispatchWithConcurrency).
THEOREM TypeCorrect == Spec => []TypeOK
  BY InitType, StepType, PTL DEF Spec

-----------------------------------------------------------------------------
(* One live activation per trigger. *)

\* The inductive invariant: e.active holds the activation of its trigger, and the
\* critical section that is stopping a driver has cancelled it and not yet deleted it.
ActiveOwned ==
  \A t \in Triggers :
    active[t] # Nil => active[t] \in 1..allocated /\ TriggerOf(active[t]) = t

StoppingCancelled ==
  mutex.op \in {"deactivate", "stopAll"} /\ mutex.at # Nil =>
    /\ mutex.at \in 1..allocated
    /\ act[mutex.at].cancelled
    /\ active[TriggerOf(mutex.at)] = mutex.at

OneLiveInv == OneLiveActivation /\ ActiveOwned /\ StoppingCancelled

\* Two maps of activations that differ in other fields than these.
SameIdentity(f, g) ==
  \A a \in Activations : g[a].trigger = f[a].trigger /\ g[a].cancelled = f[a].cancelled

\* What every step but those of Activate, Deactivate and StopAll leaves alone.
SameActivations ==
  /\ UNCHANGED <<active, mutex, allocated>>
  /\ SameIdentity(act, act')

LEMMA SameActivationsKeep ==
  ASSUME TypeOK, OneLiveInv, SameActivations PROVE OneLiveInv'
  <1>1. 1..allocated \subseteq Activations
    BY Bounds DEF TypeOK, Activations
  <1>2. \A a \in 1..allocated : TriggerOf(a)' = TriggerOf(a) /\ act'[a].cancelled = act[a].cancelled
    BY <1>1 DEF SameActivations, SameIdentity, TriggerOf
  <1>3. active' = active /\ mutex' = mutex /\ allocated' = allocated
    BY DEF SameActivations
  <1>4. OneLiveActivation'
    BY <1>2, <1>3 DEF OneLiveInv, OneLiveActivation
  <1>5. ActiveOwned'
    BY <1>2, <1>3 DEF OneLiveInv, ActiveOwned
  <1>6. StoppingCancelled'
    BY <1>2, <1>3 DEF OneLiveInv, StoppingCancelled
  <1> QED  BY <1>4, <1>5, <1>6 DEF OneLiveInv

\* Fields other than trigger and cancelled may change.
LEMMA OtherFields ==
  ASSUME NEW f \in [Activations -> ActType], NEW at
  PROVE  /\ \A b : SameIdentity(f, [f EXCEPT ![at].running = b])
         /\ \A q : SameIdentity(f, [f EXCEPT ![at].queue = q])
         /\ \A e : SameIdentity(f, [f EXCEPT ![at].pending = e])
         /\ \A b, e : SameIdentity(f, [f EXCEPT ![at].running = b, ![at].abort = e])
         /\ \A e : SameIdentity(f, [f EXCEPT ![at].pending = e, ![at].timer = e])
  BY SMTT(40) DEF SameIdentity, ActType

LEMMA SameReflexive == \A f : SameIdentity(f, f)
  BY DEF SameIdentity

LEMMA FrameStep ==
  ASSUME TypeOK,
         \/ \E t \in Triggers : RegistryChange(t)
         \/ \E a \in Activations : Produce(a) \/ Crash(a) \/ (LoopStep(a) /\ ~LoopDeactivate(a))
         \/ \E e \in Events : TimerStep(e) \/ WorkerStep(e)
         \/ \E d \in Dispatchers : DispatchStep(d)
         \/ UNCHANGED vars
  PROVE  SameActivations
  <1> act \in [Activations -> ActType]
    BY DEF TypeOK
  <1>0. ASSUME UNCHANGED engine, UNCHANGED act PROVE SameActivations
    BY <1>0 DEF SameActivations, SameIdentity, engine
  <1>1. ASSUME NEW t \in Triggers, RegistryChange(t) PROVE SameActivations
    BY <1>0, <1>1 DEF RegistryChange
  <1>2. ASSUME NEW a \in Activations, Produce(a) \/ Crash(a) PROVE SameActivations
    BY <1>0, <1>2 DEF Produce, Crash
  <1>3. ASSUME NEW a \in Activations, LoopStep(a), ~LoopDeactivate(a) PROVE SameActivations
    <2>1. CASE LoopArm(a)
      BY <2>1, OtherFields DEF LoopArm, SameActivations, engine
    <2> QED
      BY <1>0, <1>3, <2>1
      DEF LoopStep, LoopCancelled, LoopReceive, LoopClosed, LoopLookup, LoopError
  <1>4. ASSUME NEW e \in Events, TimerStep(e) PROVE SameActivations
    <2>1. CASE TimerTake(e)
      BY <2>1, OtherFields DEF TimerTake, SameActivations, engine
    <2> QED  BY <1>0, <1>4, <2>1 DEF TimerStep, TimerFire
  <1>5. ASSUME NEW e \in Events, WorkerStep(e) PROVE SameActivations
    <2>1. CASE WorkerEndDrop(e)
      BY <2>1, OtherFields DEF WorkerEndDrop, SameActivations, engine
    <2>2. CASE WorkerEndAbort(e)
      BY <2>2, OtherFields DEF WorkerEndAbort, SameActivations, engine
    <2>3. CASE WorkerEndQueue(e)
      <3>1. \/ act' = [act EXCEPT ![worker[e].at].running = FALSE]
            \/ \E q : act' = [act EXCEPT ![worker[e].at].queue = q]
        BY <2>3 DEF WorkerEndQueue
      <3>2. SameIdentity(act, act')
        <4>1. CASE act' = [act EXCEPT ![worker[e].at].running = FALSE]
          BY <4>1, OtherFields
        <4>2. ASSUME NEW q, act' = [act EXCEPT ![worker[e].at].queue = q]
              PROVE  SameIdentity(act, act')
          BY <4>2, OtherFields
        <4> QED  BY <3>1, <4>1, <4>2
      <3> QED  BY <2>3, <3>2 DEF WorkerEndQueue, SameActivations, engine
    <2> QED
      BY <1>0, <1>5, <2>1, <2>2, <2>3
      DEF WorkerStep, WorkerEnd, WorkerBegin, WorkerExec, WorkerEndParallel
  <1>6. ASSUME NEW d \in Dispatchers, DispatchStep(d) PROVE SameActivations
    <2>1. ASSUME StartAbortWorker(d), UNCHANGED engine PROVE SameActivations
      BY <2>1, OtherFields DEF StartAbortWorker, SameActivations, engine
    <2>2. CASE GateDrop(d)
      <3>1. act' = act \/ act' = [act EXCEPT ![disp[d].at].running = TRUE]
        BY <2>2 DEF GateDrop
      <3>2. SameIdentity(act, act')
        BY <3>1, OtherFields, SameReflexive
      <3> QED  BY <2>2, <3>2 DEF GateDrop, SameActivations, engine
    <2>3. CASE GateQueue(d)
      <3>1. \/ act' = act
            \/ act' = [act EXCEPT ![disp[d].at].running = TRUE]
            \/ \E q : act' = [act EXCEPT ![disp[d].at].queue = q]
        BY <2>3 DEF GateQueue
      <3>2. SameIdentity(act, act')
        <4>1. CASE act' = act
          BY <4>1, SameReflexive
        <4>2. CASE act' = [act EXCEPT ![disp[d].at].running = TRUE]
          BY <4>2, OtherFields
        <4>3. ASSUME NEW q, act' = [act EXCEPT ![disp[d].at].queue = q]
              PROVE  SameIdentity(act, act')
          BY <4>3, OtherFields
        <4> QED  BY <3>1, <4>1, <4>2, <4>3
      <3> QED  BY <2>3, <3>2 DEF GateQueue, SameActivations, engine
    <2>4. CASE GateAbort(d) \/ AbortResume(d)
      BY <2>1, <2>4 DEF GateAbort, AbortResume
    <2> QED
      BY <1>0, <1>6, <2>2, <2>3, <2>4
      DEF DispatchStep, Gate, Dispatch, GateParallel, GateAbortCancel, GateAbortPanic
  <1>7. CASE UNCHANGED vars
    BY <1>0, <1>7 DEF vars
  <1> QED  BY <1>1, <1>2, <1>3, <1>4, <1>5, <1>6, <1>7

LEMMA InitOneLive == Init => OneLiveInv
  BY DEF Init, OneLiveInv, OneLiveActivation, ActiveOwned, StoppingCancelled, Free, Nil

LEMMA StepOneLive == TypeOK /\ OneLiveInv /\ [Next]_vars => OneLiveInv'
  <1> SUFFICES ASSUME TypeOK, OneLiveInv, [Next]_vars PROVE OneLiveInv'
    OBVIOUS
  <1> USE DEF Nil
  <1>a. /\ allocated \in Nat /\ 1..allocated \subseteq Activations
        /\ act \in [Activations -> ActType]
        /\ active \in [Triggers -> 0..MaxActivation]
        /\ \A a \in Activations : TriggerOf(a) \in Triggers
    <2>1. /\ allocated \in 0..MaxActivation /\ act \in [Activations -> ActType]
          /\ active \in [Triggers -> 0..MaxActivation]
      BY DEF TypeOK
    <2>2. \A a \in Activations : TriggerOf(a) \in Triggers
      BY <2>1 DEF ActType, TriggerOf
    <2>3. allocated \in Nat /\ 1..allocated \subseteq Activations
      BY <2>1, Bounds DEF Activations
    <2> QED  BY <2>1, <2>2, <2>3
  <1>b. OneLiveActivation /\ ActiveOwned /\ StoppingCancelled
    BY DEF OneLiveInv
  <1>1. ASSUME NEW t \in Triggers, Activate(t) PROVE OneLiveInv'
    <2> DEFINE a == allocated + 1
    <2>1. /\ mutex' = mutex /\ mutex.op = "free" /\ allocated' = a /\ active[t] = 0
          /\ active' = [active EXCEPT ![t] = a] /\ a \in Activations
          /\ act' = [act EXCEPT ![a] = NewAct(t)]
      BY <1>1, Bounds DEF Activate, MutexFree, TypeOK, Activations
    <2>2. /\ act'[a].trigger = t
          /\ \A b \in 1..allocated : act'[b] = act[b]
      BY <1>a, <2>1 DEF NewAct
    <2>3. OneLiveActivation'
      BY <1>a, <1>b, <2>1, <2>2 DEF OneLiveActivation, TriggerOf
    <2>4. ActiveOwned'
      BY <1>a, <1>b, <2>1, <2>2 DEF ActiveOwned, TriggerOf
    <2>5. StoppingCancelled'
      BY <2>1 DEF StoppingCancelled
    <2> QED  BY <2>3, <2>4, <2>5 DEF OneLiveInv
  \* The first step of a critical section cancels an activation in e.active.
  <1>2. ASSUME NEW t \in Triggers, active[t] # 0, mutex'.at = active[t],
               act' = [act EXCEPT ![active[t]].cancelled = TRUE],
               UNCHANGED <<active, allocated>>
        PROVE  OneLiveInv'
    <2>1. active[t] \in 1..allocated /\ TriggerOf(active[t]) = t
      BY <1>2, <1>b DEF ActiveOwned
    <2>2. \A b \in Activations : /\ act'[b].trigger = act[b].trigger
                                 /\ act[b].cancelled => act'[b].cancelled
      BY <1>2, <1>a DEF ActType
    <2>3. act'[active[t]].cancelled
      BY <1>2, <1>a, <2>1 DEF ActType
    <2>4. OneLiveActivation'
      BY <1>2, <1>a, <1>b, <2>2 DEF OneLiveActivation, TriggerOf
    <2>5. ActiveOwned'
      BY <1>2, <1>a, <1>b, <2>2 DEF ActiveOwned, TriggerOf
    <2>6. StoppingCancelled'
      BY <1>2, <1>a, <2>1, <2>2, <2>3 DEF StoppingCancelled, TriggerOf
    <2> QED  BY <2>4, <2>5, <2>6 DEF OneLiveInv
  <1>3. ASSUME NEW t \in Triggers, BeginDeactivate(t) PROVE OneLiveInv'
    BY <1>2, <1>3 DEF BeginDeactivate
  <1>4. ASSUME NEW t \in Triggers, StopAllCancel(t) PROVE OneLiveInv'
    <2>1. mutex'.at = active[t]
      BY <1>4 DEF StopAllCancel, TypeOK, MutexType
    <2> QED  BY <1>2, <1>4, <2>1 DEF StopAllCancel
  \* Its last step deletes that activation.
  <1>5. ASSUME mutex.op \in {"deactivate", "stopAll"}, mutex.at # 0,
               active' = [active EXCEPT ![TriggerOf(mutex.at)] = 0],
               mutex'.op \notin {"deactivate", "stopAll"} \/ mutex'.at = 0,
               UNCHANGED <<allocated, act>>
        PROVE  OneLiveInv'
    <2>1. /\ mutex.at \in 1..allocated /\ act[mutex.at].cancelled
          /\ active[TriggerOf(mutex.at)] = mutex.at
      BY <1>5, <1>b DEF StoppingCancelled
    <2>2. OneLiveActivation'
      BY <1>5, <1>a, <1>b, <2>1 DEF OneLiveActivation, TriggerOf
    <2>3. ActiveOwned'
      BY <1>5, <1>a, <1>b, <2>1 DEF ActiveOwned, TriggerOf
    <2>4. StoppingCancelled'
      BY <1>5 DEF StoppingCancelled
    <2> QED  BY <2>2, <2>3, <2>4 DEF OneLiveInv
  <1>6. CASE DeactivateStop
    <2>1. mutex.at # 0 /\ mutex'.op \in {"free", "await"}
      BY <1>6 DEF DeactivateStop, TypeOK, MutexType, Free
    <2> QED  BY <1>5, <1>6, <2>1 DEF DeactivateStop
  <1>7. CASE StopAllStop
    <2>1. mutex'.at = 0
      BY <1>7 DEF StopAllStop, TypeOK, MutexType
    <2> QED  BY <1>5, <1>7, <2>1 DEF StopAllStop
  \* Other steps of the mutex: no activation is being stopped.
  <1>8. ASSUME mutex'.op \notin {"deactivate", "stopAll"} \/ mutex'.at = 0,
               UNCHANGED <<active, allocated, act>>
        PROVE  OneLiveInv'
    BY <1>8, <1>b DEF OneLiveInv, OneLiveActivation, ActiveOwned, StoppingCancelled, TriggerOf
  <1>9. CASE DeactivateReturn \/ StopAll \/ StopAllReturn
    BY <1>8, <1>9 DEF DeactivateReturn, StopAll, StopAllReturn, Free
  <1>10. CASE MutexStep
    BY <1>4, <1>6, <1>7, <1>9, <1>10 DEF MutexStep
  <1>11. ASSUME NEW a \in Activations, LoopDeactivate(a) PROVE OneLiveInv'
    <2>1. CASE BeginDeactivate(TriggerOf(a))
      BY <1>a, <1>3, <2>1
    <2>2. CASE UNCHANGED <<engine, act>>
      BY <2>2, SameActivationsKeep DEF SameActivations, SameIdentity, engine
    <2> QED  BY <1>11, <2>1, <2>2 DEF LoopDeactivate
  <1>12. ASSUME NEW t \in Triggers, Deactivate(t) PROVE OneLiveInv'
    BY <1>3, <1>12 DEF Deactivate
  <1> QED
    BY <1>1, <1>9, <1>10, <1>11, <1>12, FrameStep, SameActivationsKeep DEF Next, LoopStep

\* Two activations of one trigger are never live at the same time, whatever the
\* interleaving of Activate, Deactivate, onTriggerError and StopAll (engine.go
\* Engine.active, activeTrigger.ctx).
THEOREM OneLiveAlways == Spec => []OneLiveActivation
  <1>1. TypeOK /\ OneLiveInv /\ [Next]_vars => (TypeOK /\ OneLiveInv)'
    BY StepType, StepOneLive
  <1>2. OneLiveInv => OneLiveActivation
    BY DEF OneLiveInv
  <1> QED
    BY InitType, InitOneLive, <1>1, <1>2, PTL DEF Spec

-----------------------------------------------------------------------------
(* Where the events are. *)

\* Where an event waits: a driver's channel, a queue, the pending event of a debounced
\* trigger, or a dispatcher's hands, ...
PlacesIn(ch, ac, di, e) ==
  {<<"chan", a>>    : a \in {b \in Activations : e \in Range(ch[b])}} \union
  {<<"queue", a>>   : a \in {b \in Activations : e \in Range(ac[b].queue)}} \union
  {<<"pending", a>> : a \in {b \in Activations : ac[b].pending = e}} \union
  {<<"disp", d>>    : d \in {c \in Dispatchers : di[c].ev = e}}

Places(e) == PlacesIn(chan, act, disp, e)

\* ... and the workers that have it.
Hands(e) == {w \in Events : Live(w) /\ worker[w].ev = e}

\* No element twice.
NoDuplicates(s) == \A i, j \in DOMAIN s : s[i] = s[j] => i = j

\* An event is in one place or in one hand, in none before it is produced, and in no place
\* once a worker was started for it; it has left the loop when a timer was started for it.
OnePlace(e) ==
  /\ \A p, q \in Places(e) : p = q
  /\ \A v, w \in Hands(e) : v = w
  /\ Hands(e) # {} => Places(e) = {}
  /\ e > produced => Places(e) = {} /\ Hands(e) = {}
  /\ worker[e].pc # "none" => Places(e) = {} /\ e <= produced
  /\ disp[Timer(e)].pc # "none" =>
       e <= produced /\ \A a \in Activations : e \notin Range(chan[a]) /\ disp[Loop(a)].ev # e

\* A goroutine has an event between the look-up and the gate, and from then on an activation
\* that exists; a worker has the event it handles.
DispatchersHold ==
  \A d \in Dispatchers :
    /\ disp[d].ev # Nil => disp[d].pc \in HasEvent
    /\ disp[d].pc \in HasActivation => disp[d].at \in 1..allocated

\* A live worker has an event.
WorkersHold == \A w \in Events : Live(w) => worker[w].ev \in Events

\* No event twice in a channel or a queue.
NothingTwice == \A a \in Activations : NoDuplicates(chan[a]) /\ NoDuplicates(act[a].queue)

\* An activation that is not allocated yet has nothing.
Unallocated ==
  \A a \in Activations \ (1..allocated) :
    act[a].queue = <<>> /\ act[a].pending = Nil /\ disp[Loop(a)].pc = "none"

Holders == DispatchersHold /\ WorkersHold /\ NothingTwice /\ Unallocated

\* The inductive invariant behind the refinement.
FlowInv == Holders /\ \A e \in Events : OnePlace(e)

-----------------------------------------------------------------------------

\* What the tail of a sequence keeps: a receive takes the head, and only the head.
LEMMA TailFacts ==
  ASSUME NEW s \in Seq(Events), s # <<>>, NoDuplicates(s)
  PROVE  /\ Tail(s) \in Seq(Events) /\ NoDuplicates(Tail(s))
         /\ Head(s) \in Range(s) /\ Range(Tail(s)) = Range(s) \ {Head(s)}
<1>1. /\ Tail(s) \in Seq(Events) /\ Len(Tail(s)) = Len(s) - 1 /\ Head(s) = s[1] /\ Len(s) \in Nat \ {0}
      /\ \A i \in 1..Len(Tail(s)) : Tail(s)[i] = s[i + 1]
      /\ DOMAIN s = 1..Len(s) /\ DOMAIN Tail(s) = 1..Len(Tail(s))
  BY HeadTailProperties
<1>2. NoDuplicates(Tail(s))
  BY <1>1 DEF NoDuplicates
<1>3. Range(Tail(s)) \subseteq Range(s) \ {Head(s)}
  BY <1>1 DEF Range, NoDuplicates
<1>4. Range(s) \ {Head(s)} \subseteq Range(Tail(s))
  <2> SUFFICES ASSUME NEW i \in 1..Len(s), s[i] # s[1] PROVE s[i] \in Range(Tail(s))
    BY <1>1 DEF Range
  <2>1. i # 1 /\ i - 1 \in 1..Len(Tail(s)) /\ Tail(s)[i - 1] = s[i]
    BY <1>1
  <2> QED
    BY <1>1, <2>1 DEF Range
<1>5. Head(s) \in Range(s)
  <2>1. 1 \in DOMAIN s
    BY <1>1
  <2> QED
    BY <1>1, <2>1 DEF Range
<1>6. Range(Tail(s)) = Range(s) \ {Head(s)}
  BY <1>3, <1>4
<1> QED
  BY <1>1, <1>2, <1>5, <1>6

\* What appending an element adds to a sequence: that element, and nothing else.
LEMMA AppendFacts ==
  ASSUME NEW s \in Seq(Events), NEW x \in Events, NoDuplicates(s), x \notin Range(s)
  PROVE  /\ Append(s, x) \in Seq(Events) /\ NoDuplicates(Append(s, x))
         /\ Range(Append(s, x)) = Range(s) \union {x}
<1>1. /\ Append(s, x) \in Seq(Events) /\ Len(Append(s, x)) = Len(s) + 1 /\ Len(s) \in Nat
      /\ \A i \in 1..Len(s) : Append(s, x)[i] = s[i]
      /\ Append(s, x)[Len(s) + 1] = x
      /\ DOMAIN s = 1..Len(s) /\ DOMAIN Append(s, x) = 1..(Len(s) + 1)
  OBVIOUS
<1>2. NoDuplicates(Append(s, x))
  <2> SUFFICES ASSUME NEW i \in 1..(Len(s) + 1), NEW j \in 1..(Len(s) + 1), Append(s, x)[i] = Append(s, x)[j]
               PROVE  i = j
    BY <1>1 DEF NoDuplicates
  <2>1. \A k \in 1..Len(s) : s[k] # x
    BY <1>1 DEF Range
  <2>2. \A k \in 1..(Len(s) + 1) : k \in 1..Len(s) \/ k = Len(s) + 1
    BY <1>1
  <2> QED
    BY <1>1, <2>1, <2>2 DEF NoDuplicates
<1>3. Range(Append(s, x)) = Range(s) \union {x}
  <2>1. \A k \in 1..(Len(s) + 1) : k \in 1..Len(s) \/ k = Len(s) + 1
    BY <1>1
  <2>2. \A k \in 1..Len(s) : k \in 1..(Len(s) + 1)
    BY <1>1
  <2>3. Len(s) + 1 \in 1..(Len(s) + 1)
    BY <1>1
  <2> QED
    BY <1>1, <2>1, <2>2, <2>3 DEF Range
<1> QED
  BY <1>1, <1>2, <1>3

\* A place is one of the four kinds.
LEMMA PlaceFacts ==
  ASSUME NEW ch, NEW ac, NEW di, NEW e
  PROVE  LET P == PlacesIn(ch, ac, di, e) IN
         /\ \A a : <<"chan", a>> \in P <=> a \in Activations /\ e \in Range(ch[a])
         /\ \A a : <<"queue", a>> \in P <=> a \in Activations /\ e \in Range(ac[a].queue)
         /\ \A a : <<"pending", a>> \in P <=> a \in Activations /\ ac[a].pending = e
         /\ \A d : <<"disp", d>> \in P <=> d \in Dispatchers /\ di[d].ev = e
         /\ \A p \in P : \/ \E a \in Activations : p = <<"chan", a>>
                         \/ \E a \in Activations : p = <<"queue", a>>
                         \/ \E a \in Activations : p = <<"pending", a>>
                         \/ \E d \in Dispatchers : p = <<"disp", d>>
  BY DEF PlacesIn

\* An event that is where it was in every part has not moved.
LEMMA SamePlaces ==
  ASSUME NEW ch, NEW ac, NEW di, NEW c2, NEW a2, NEW d2, NEW e,
         \A a \in Activations : e \in Range(c2[a]) <=> e \in Range(ch[a]),
         \A a \in Activations : e \in Range(a2[a].queue) <=> e \in Range(ac[a].queue),
         \A a \in Activations : a2[a].pending = e <=> ac[a].pending = e,
         \A d \in Dispatchers : d2[d].ev = e <=> di[d].ev = e
  PROVE  PlacesIn(c2, a2, d2, e) = PlacesIn(ch, ac, di, e)
<1>1. PlacesIn(c2, a2, d2, e) \subseteq PlacesIn(ch, ac, di, e)
  BY DEF PlacesIn
<1>2. PlacesIn(ch, ac, di, e) \subseteq PlacesIn(c2, a2, d2, e)
  BY DEF PlacesIn
<1> QED
  BY <1>1, <1>2

-----------------------------------------------------------------------------
(* Steps that leave an event alone. *)

\* The stage of an event in terms of where it is.
LEMMA StageFacts ==
  ASSUME NEW e \in Events
  PROVE  /\ Stage(e) = IF e > produced THEN "new" ELSE IF Hands(e) # {} THEN "handled"
                       ELSE IF Places(e) # {} THEN "waiting" ELSE "gone"
         /\ Stage(e)' = IF e > produced' THEN "new" ELSE IF Hands(e)' # {} THEN "handled"
                        ELSE IF Places(e)' # {} THEN "waiting" ELSE "gone"
<1>1. (InHands(e) <=> Hands(e) # {}) /\ (InHands(e)' <=> Hands(e)' # {})
  BY DEF InHands, Hands
<1>2. Waiting(e) <=> Places(e) # {}
  BY DEF Waiting, Places, PlacesIn
<1>3. Waiting(e)' <=> Places(e)' # {}
  BY DEF Waiting, Places, PlacesIn
<1> QED
  BY <1>1, <1>2, <1>3 DEF Stage

Kept(e) ==
  /\ Places(e)' = Places(e) /\ Hands(e)' = Hands(e)
  /\ worker'[e].pc # "none" => worker[e].pc # "none"
  /\ disp'[Timer(e)].pc # "none" => disp[Timer(e)].pc # "none"

\* Such an event stays in one place, and at its stage.
LEMMA KeptKeeps ==
  ASSUME NEW e \in Events, OnePlace(e), Kept(e),
         e > produced' <=> e > produced, e <= produced => e <= produced'
  PROVE  OnePlace(e)' /\ Stage(e)' = Stage(e)
<1>1. ASSUME NEW a \in Activations, e \in Range(chan'[a]) PROVE e \in Range(chan[a])
  <2>1. <<"chan", a>> \in Places(e)'
    BY <1>1 DEF Places, PlacesIn
  <2> QED
    BY <2>1, PlaceFacts DEF Kept, Places
<1>2. ASSUME NEW a \in Activations, disp'[Loop(a)].ev = e PROVE disp[Loop(a)].ev = e
  <2>1. <<"disp", Loop(a)>> \in Places(e)'
    BY <1>2, LoopIn DEF Places, PlacesIn
  <2> QED
    BY <2>1, PlaceFacts DEF Kept, Places
<1> QED
  BY <1>1, <1>2, StageFacts DEF OnePlace, Kept

\* A step that makes an event of every stage go no further than EventFlow lets it.
EventStep == Flow!Next \/ \A e \in Events : Stage(e)' = Stage(e)

\* A step that moves no event.
LEMMA QuietStep ==
  ASSUME FlowInv, chan' = chan, produced' = produced,
         \A a \in Activations : act'[a].queue = act[a].queue /\ act'[a].pending = act[a].pending,
         \A d \in Dispatchers : disp'[d].ev = disp[d].ev,
         \A e \in Events : disp'[Timer(e)].pc # "none" => disp[Timer(e)].pc # "none",
         \A w \in Events : /\ (Live(w))' <=> Live(w)
                           /\ worker'[w].ev = worker[w].ev
                           /\ worker'[w].pc # "none" => worker[w].pc # "none",
         DispatchersHold', Unallocated'
  PROVE  FlowInv' /\ EventStep
<1>1. ASSUME NEW e \in Events PROVE Kept(e)
  <2>1. Places(e)' = Places(e)
    BY SamePlaces DEF Places
  <2>2. Hands(e)' = Hands(e)
    BY DEF Hands
  <2> QED
    BY <2>1, <2>2 DEF Kept
<1>2. WorkersHold' /\ NothingTwice'
  BY DEF FlowInv, Holders, WorkersHold, NothingTwice
<1> QED
  BY <1>1, <1>2, KeptKeeps DEF FlowInv, Holders, EventStep

\* A dispatcher that goes on with the event it has, if any.
GoesOn(d) ==
  /\ disp[d].pc # "none" /\ disp'[d].ev = disp[d].ev
  /\ disp[d].ev # Nil => disp'[d].pc \in HasEvent
  /\ disp'[d].pc \in HasActivation => disp'[d].at \in 1..allocated

\* What the steps that move no event have in common.
SameWorkers ==
  \A w \in Events : /\ (Live(w))' <=> Live(w)
                    /\ worker'[w].ev = worker[w].ev
                    /\ worker'[w].pc # "none" => worker[w].pc # "none"

\* No queue and no pending event changes.
SameWaiting ==
  \A a \in Activations : act'[a].queue = act[a].queue /\ act'[a].pending = act[a].pending

\* A step of the dispatchers alone in which each goes on with the event it has.
LEMMA DispatchersGoOn ==
  ASSUME TypeOK, FlowInv, chan' = chan, produced' = produced, allocated' = allocated,
         SameWaiting, SameWorkers,
         \A d \in Dispatchers : disp'[d] = disp[d] \/ GoesOn(d)
  PROVE  FlowInv' /\ EventStep
<1>1. \A d \in Dispatchers : disp'[d].ev = disp[d].ev
  BY DEF GoesOn
<1>2. \A d \in Dispatchers : disp'[d].pc # "none" => disp[d].pc # "none"
  BY DEF GoesOn
<1>3. \A e \in Events : disp'[Timer(e)].pc # "none" => disp[Timer(e)].pc # "none"
  BY <1>2, TimerIn
<1>4. DispatchersHold'
  BY DEF FlowInv, Holders, DispatchersHold, GoesOn
<1>5. Unallocated'
  <2>1. \A a \in Activations : disp[Loop(a)].pc = "none" => disp'[Loop(a)].pc = "none"
    BY <1>2, LoopIn
  <2> QED
    BY <2>1 DEF FlowInv, Holders, Unallocated, SameWaiting
<1> QED
  BY <1>1, <1>3, <1>4, <1>5, QuietStep DEF SameWaiting, SameWorkers

\* The fields of an activation that say where an event is are all that counts of it.
LEMMA SameActs ==
  ASSUME NEW f \in [Activations -> ActType], NEW g,
         \/ g = f
         \/ \E a, b : g = [f EXCEPT ![a].cancelled = b]
         \/ \E a, b : g = [f EXCEPT ![a].running = b]
         \/ \E a, b, v : g = [f EXCEPT ![a].running = b, ![a].abort = v]
  PROVE  \A a \in Activations : g[a].queue = f[a].queue /\ g[a].pending = f[a].pending
<1> \A a \in Activations : f[a] \in ActType
  OBVIOUS
<1>1. ASSUME NEW a, NEW b, g = [f EXCEPT ![a].cancelled = b]
      PROVE  \A c \in Activations : g[c].queue = f[c].queue /\ g[c].pending = f[c].pending
  BY <1>1 DEF ActType
<1>2. ASSUME NEW a, NEW b, g = [f EXCEPT ![a].running = b]
      PROVE  \A c \in Activations : g[c].queue = f[c].queue /\ g[c].pending = f[c].pending
  BY <1>2 DEF ActType
<1>3. ASSUME NEW a, NEW b, NEW v, g = [f EXCEPT ![a].running = b, ![a].abort = v]
      PROVE  \A c \in Activations : g[c].queue = f[c].queue /\ g[c].pending = f[c].pending
  BY <1>3 DEF ActType
<1> QED
  BY <1>1, <1>2, <1>3

\* The steps of the registry, the drivers and the critical sections, except Activate.
LEMMA OutsideFlow ==
  ASSUME TypeOK, FlowInv,
         \/ \E t \in Triggers : RegistryChange(t) \/ Deactivate(t)
         \/ StopAll \/ MutexStep
         \/ \E a \in Activations : Crash(a)
         \/ UNCHANGED vars
  PROVE  FlowInv' /\ EventStep
<1>0. act \in [Activations -> ActType]
  BY DEF TypeOK
<1>1. chan' = chan /\ produced' = produced /\ allocated' = allocated /\ worker' = worker
  BY DEF RegistryChange, Deactivate, BeginDeactivate, StopAll, MutexStep, DeactivateStop,
     DeactivateReturn, StopAllCancel, StopAllStop, StopAllReturn, StopDriver, Crash, vars,
     drivers, engine
<1>2. act' = act \/ \E a, b : act' = [act EXCEPT ![a].cancelled = b]
  BY DEF RegistryChange, Deactivate, BeginDeactivate, StopAll, MutexStep, DeactivateStop,
     DeactivateReturn, StopAllCancel, StopAllStop, StopAllReturn, Crash, vars
<1>3. disp' = disp \/ \E t : disp' = AfterTimerStop(active[t])
  BY DEF RegistryChange, Deactivate, BeginDeactivate, StopAll, MutexStep, DeactivateStop,
     DeactivateReturn, StopAllCancel, StopAllStop, StopAllReturn, Crash, vars
<1>4. SameWaiting
  BY <1>0, <1>2, SameActs DEF SameWaiting
<1>5. SameWorkers
  BY <1>1 DEF SameWorkers, Live
<1>6. ASSUME NEW d \in Dispatchers, NEW a PROVE
        AfterTimerStop(a)[d] = disp[d] \/
          (disp[d].pc = "armed" /\ AfterTimerStop(a)[d] = Dispatcher("none", Nil))
  BY DEF AfterTimerStop
<1>7. ASSUME NEW d \in Dispatchers, disp[d].pc = "armed", disp'[d] = Dispatcher("none", Nil)
      PROVE  GoesOn(d)
  <2>1. disp[d].ev = Nil
    BY <1>7 DEF FlowInv, Holders, DispatchersHold, HasEvent
  <2> QED
    BY <1>7, <2>1 DEF GoesOn, Dispatcher, HasActivation
<1>8. \A d \in Dispatchers : disp'[d] = disp[d] \/ GoesOn(d)
  BY <1>3, <1>6, <1>7
<1> QED
  BY <1>1, <1>4, <1>5, <1>8, DispatchersGoOn

-----------------------------------------------------------------------------
(* Steps that move one event. *)

\* A step that changes where one event is, and no other.
LEMMA OneEvent ==
  ASSUME FlowInv, NEW e0 \in Events, produced' = produced, Holders', OnePlace(e0)',
         \A e \in Events \ {e0} : OnePlace(e)' /\ Stage(e)' = Stage(e),
         \/ Stage(e0) = "waiting" /\ Stage(e0)' \in {"waiting", "handled", "gone"}
         \/ Stage(e0) = "handled" /\ Stage(e0)' \in {"handled", "gone"}
  PROVE  FlowInv' /\ EventStep
<1>1. \A e \in Events \ {e0} : OnePlace(e)' /\ Stage(e)' = Stage(e)
  OBVIOUS
<1>2. FlowInv'
  BY <1>1 DEF FlowInv
<1>3. EventStep
  <2>1. CASE Stage(e0)' = Stage(e0)
    BY <1>1, <2>1 DEF EventStep
  <2>2. CASE Stage(e0)' # Stage(e0)
    <3>1. \A v : Stage(e0)' = v =>
            [e \in Events |-> Stage(e)]' = [[e \in Events |-> Stage(e)] EXCEPT ![e0] = v]
      BY <1>1
    <3>2. [e \in Events |-> Stage(e)][e0] = Stage(e0)
      OBVIOUS
    <3>3. CASE Stage(e0) = "waiting" /\ Stage(e0)' = "gone"
      <4>1. Flow!Drop(e0)
        BY <3>1, <3>2, <3>3 DEF Flow!Drop
      <4> QED
        BY <4>1 DEF EventStep, Flow!Next
    <3>4. CASE Stage(e0) = "waiting" /\ Stage(e0)' = "handled"
      <4>1. Flow!Start(e0)
        BY <3>1, <3>2, <3>4 DEF Flow!Start
      <4> QED
        BY <4>1 DEF EventStep, Flow!Next
    <3>5. CASE Stage(e0) = "handled" /\ Stage(e0)' = "gone"
      <4>1. Flow!Finish(e0)
        BY <3>1, <3>2, <3>5 DEF Flow!Finish
      <4> QED
        BY <4>1 DEF EventStep, Flow!Next
    <3> QED
      BY <2>2, <3>3, <3>4, <3>5
  <2> QED
    BY <2>1, <2>2
<1> QED
  BY <1>2, <1>3

\* A waiting event goes to another place, or is dropped.
LEMMA RelocatedOne ==
  ASSUME TypeOK, FlowInv, NEW e0 \in Events, produced' = produced, Places(e0) # {},
         NEW p, Places(e0)' \subseteq {p}, worker' = worker,
         disp'[Timer(e0)].pc # "none" =>
           \A a \in Activations : e0 \notin Range(chan'[a]) /\ disp'[Loop(a)].ev # e0
  PROVE  /\ OnePlace(e0)' /\ Stage(e0) = "waiting"
         /\ Stage(e0)' = IF Places(e0)' = {} THEN "gone" ELSE "waiting"
<1>1. ~(e0 > produced) /\ Hands(e0) = {} /\ worker[e0].pc = "none"
  BY DEF FlowInv, OnePlace
<1>2. Hands(e0)' = {}
  BY <1>1 DEF Hands, Live
<1>3. e0 <= produced
  BY <1>1, Bounds DEF Events, TypeOK
<1>4. OnePlace(e0)'
  BY <1>1, <1>2, <1>3 DEF OnePlace
<1> QED
  BY <1>1, <1>2, <1>4, StageFacts

\* The same for the whole system: every other event is left alone.
LEMMA Relocated ==
  ASSUME TypeOK, FlowInv, NEW e0 \in Events, produced' = produced, Holders', Places(e0) # {},
         NEW p, Places(e0)' \subseteq {p}, worker' = worker,
         \A e \in Events \ {e0} : Kept(e),
         disp'[Timer(e0)].pc # "none" =>
           \A a \in Activations : e0 \notin Range(chan'[a]) /\ disp'[Loop(a)].ev # e0
  PROVE  FlowInv' /\ EventStep
<1>1. /\ OnePlace(e0)' /\ Stage(e0) = "waiting"
      /\ Stage(e0)' = IF Places(e0)' = {} THEN "gone" ELSE "waiting"
  BY RelocatedOne
<1>2. \A e \in Events \ {e0} : OnePlace(e)' /\ Stage(e)' = Stage(e)
  BY KeptKeeps DEF FlowInv
<1> QED
  BY <1>1, <1>2, OneEvent

\* A worker is started for a waiting event.
LEMMA Started ==
  ASSUME TypeOK, FlowInv, NEW e0 \in Events, produced' = produced, Holders', Places(e0) # {},
         Places(e0)' = {}, NEW r, r.pc = "begin", r.ev = e0, worker' = [worker EXCEPT ![e0] = r],
         \A e \in Events \ {e0} : Places(e)' = Places(e),
         \A e \in Events : disp'[Timer(e)].pc # "none" => disp[Timer(e)].pc # "none"
  PROVE  FlowInv' /\ EventStep
<1>1. /\ ~(e0 > produced) /\ Hands(e0) = {} /\ worker[e0].pc = "none"
  BY DEF FlowInv, OnePlace
<1>2. e0 <= produced
  BY <1>1, Bounds DEF Events, TypeOK
<1>3. worker' = [w \in Events |-> IF w = e0 THEN r ELSE worker[w]]
  BY DEF TypeOK
<1>4. Hands(e0)' = {e0}
  BY <1>1, <1>3 DEF Hands, Live
<1>5. ASSUME NEW e \in Events \ {e0} PROVE Kept(e)
  <2>1. Hands(e)' = Hands(e)
    BY <1>1, <1>3, <1>5 DEF Hands, Live
  <2> QED
    BY <1>3, <1>5, <2>1 DEF Kept
<1>6. \A a \in Activations : e0 \notin Range(chan'[a]) /\ disp'[Loop(a)].ev # e0
  <2>1. PlacesIn(chan', act', disp', e0) = {}
    BY DEF Places
  <2> QED
    BY <2>1, LoopIn, ZenonT(40) DEF PlacesIn
<1>7. OnePlace(e0)'
  BY <1>1, <1>2, <1>4, <1>6 DEF OnePlace
<1>8. Stage(e0) = "waiting" /\ Stage(e0)' = "handled"
  BY <1>1, <1>2, <1>4, StageFacts
<1>9. \A e \in Events \ {e0} : OnePlace(e)' /\ Stage(e)' = Stage(e)
  BY <1>5, KeptKeeps DEF FlowInv
<1> QED
  BY <1>7, <1>8, <1>9, OneEvent

-----------------------------------------------------------------------------
(* The steps of the goroutines that move no event. *)

\* A goroutine at rest has no event in hand.
LEMMA Resting ==
  ASSUME NEW d \in Dispatchers
  PROVE  Rest(d).ev = Nil /\ Rest(d).pc \in {"none", "select"}
  BY DEF Rest, Dispatcher

\* A goroutine outside the steps that hold an event has none.
LEMMA EmptyHanded ==
  ASSUME FlowInv, NEW d \in Dispatchers, disp[d].pc \notin HasEvent
  PROVE  disp[d].ev = Nil
  BY DEF FlowInv, Holders, DispatchersHold

\* The steps of loops, timers, aborts and workers that move no event.
LEMMA QuietGoroutines ==
  ASSUME TypeOK, FlowInv,
         \/ \E a \in Activations : LoopCancelled(a) \/ LoopClosed(a) \/ LoopError(a) \/ LoopDeactivate(a)
         \/ \E e \in Events : TimerFire(e) \/ WorkerBegin(e) \/ WorkerExec(e)
         \/ \E d \in Dispatchers : GateAbortCancel(d) \/ GateAbortPanic(d)
  PROVE  FlowInv' /\ EventStep
<1>0. /\ act \in [Activations -> ActType] /\ disp \in [Dispatchers -> DispType]
      /\ worker \in [Events -> WorkerType]
  BY DEF TypeOK
<1>1. chan' = chan /\ produced' = produced /\ allocated' = allocated
  BY DEF LoopCancelled, LoopClosed, LoopError, LoopDeactivate, BeginDeactivate, TimerFire,
     WorkerBegin, WorkerExec, GateAbortCancel, GateAbortPanic, drivers, engine
<1>2. act' = act \/ \E a, b : act' = [act EXCEPT ![a].cancelled = b]
  BY DEF LoopCancelled, LoopClosed, LoopError, LoopDeactivate, BeginDeactivate, TimerFire,
     WorkerBegin, WorkerExec, GateAbortCancel, GateAbortPanic
<1>3. SameWaiting
  BY <1>0, <1>2, SameActs DEF SameWaiting
<1>4. SameWorkers
  <2>1. CASE worker' = worker
    BY <2>1 DEF SameWorkers, Live
  <2>2. ASSUME NEW e \in Events, WorkerBegin(e) \/ WorkerExec(e) PROVE SameWorkers
    <3>1. \E pc \in {"exec", "end"} : worker' = [worker EXCEPT ![e].pc = pc]
      BY <2>2 DEF WorkerBegin, WorkerExec
    <3> QED
      BY <1>0, <2>2, <3>1 DEF SameWorkers, Live, WorkerBegin, WorkerExec, WorkerType
  <2>3. ASSUME NEW d \in Dispatchers, GateAbortCancel(d) PROVE SameWorkers
    <3>1. \E e : worker' = [worker EXCEPT ![e].cut = TRUE]
      BY <2>3 DEF GateAbortCancel
    <3> QED
      BY <1>0, <3>1 DEF SameWorkers, Live, WorkerType
  <2> QED
    BY <2>1, <2>2, <2>3 DEF LoopCancelled, LoopClosed, LoopError, LoopDeactivate, TimerFire,
       GateAbortPanic
<1>5. ASSUME NEW a \in Activations, LoopCancelled(a) \/ LoopClosed(a) \/ LoopError(a)
      PROVE  \A d \in Dispatchers : disp'[d] = disp[d] \/ GoesOn(d)
  <2>1. /\ disp[Loop(a)].pc \in {"select", "error"}
        /\ \E r : /\ disp' = [disp EXCEPT ![Loop(a)] = r] /\ r.ev = disp[Loop(a)].ev
                  /\ r.pc \in {"none", "error", "deactivate"}
    <3>1. disp[Loop(a)].pc \in {"select", "error"}
      BY <1>5 DEF LoopCancelled, LoopClosed, LoopError
    <3>2. disp[Loop(a)].ev = Nil
      BY <3>1, EmptyHanded, LoopIn DEF HasEvent
    <3>3. CASE LoopClosed(a)
      <4> DEFINE r == [disp[Loop(a)] EXCEPT !.pc = "error"]
      <4>1. disp' = [disp EXCEPT ![Loop(a)] = r]
        BY <1>0, <3>3, LoopIn DEF LoopClosed
      <4>2. r.ev = disp[Loop(a)].ev /\ r.pc = "error"
        BY <1>0, LoopIn DEF DispType
      <4> QED
        BY <3>1, <4>1, <4>2
    <3>4. CASE ~LoopClosed(a)
      <4>1. \/ disp' = [disp EXCEPT ![Loop(a)] = Dispatcher("none", Nil)]
            \/ disp' = [disp EXCEPT ![Loop(a)] = Dispatcher("deactivate", a)]
        BY <1>5, <3>4 DEF LoopCancelled, LoopError
      <4>2. \A pc, c : Dispatcher(pc, c).ev = Nil /\ Dispatcher(pc, c).pc = pc
        BY DEF Dispatcher
      <4>3. PICK r : /\ disp' = [disp EXCEPT ![Loop(a)] = r]
                     /\ r \in {Dispatcher("none", Nil), Dispatcher("deactivate", a)}
        BY <4>1
      <4>4. r.ev = Nil /\ r.pc \in {"none", "deactivate"}
        BY <4>2, <4>3
      <4> QED
        BY <3>1, <3>2, <4>3, <4>4
    <3> QED
      BY <3>3, <3>4
  <2>2. PICK r : /\ disp' = [disp EXCEPT ![Loop(a)] = r] /\ r.ev = disp[Loop(a)].ev
                 /\ r.pc \in {"none", "error", "deactivate"}
    BY <2>1
  <2>3. disp[Loop(a)].ev = Nil
    BY <2>1, EmptyHanded, LoopIn DEF HasEvent
  <2> QED
    BY <1>0, <2>1, <2>2, <2>3, LoopIn DEF GoesOn, HasActivation
<1>6. ASSUME NEW a \in Activations, LoopDeactivate(a)
      PROVE  \A d \in Dispatchers : disp'[d] = disp[d] \/ GoesOn(d)
  <2>1. \A d \in Dispatchers :
          \/ disp'[d] = disp[d]
          \/ disp[d].pc \in {"armed", "deactivate"} /\ disp'[d] = Dispatcher("none", Nil)
    <3>1. disp[Loop(a)].pc = "deactivate"
      BY <1>6 DEF LoopDeactivate
    <3>2. CASE disp' = [disp EXCEPT ![Loop(a)] = Dispatcher("none", Nil)]
      BY <1>0, <3>1, <3>2
    <3>3. CASE disp' = [AfterTimerStop(active[TriggerOf(a)]) EXCEPT ![Loop(a)] = Dispatcher("none", Nil)]
      <4>1. \A d \in Dispatchers :
              disp'[d] = IF d = Loop(a) THEN Dispatcher("none", Nil)
                         ELSE AfterTimerStop(active[TriggerOf(a)])[d]
        BY <3>3 DEF AfterTimerStop
      <4> QED
        BY <3>1, <4>1 DEF AfterTimerStop
    <3> QED
      BY <1>6, <3>2, <3>3 DEF LoopDeactivate
  <2>2. \A d \in Dispatchers : disp[d].pc \in {"armed", "deactivate"} => disp[d].ev = Nil
    BY EmptyHanded DEF HasEvent
  <2> QED
    BY <2>1, <2>2 DEF GoesOn, Dispatcher, HasActivation
<1>7. ASSUME NEW e \in Events, TimerFire(e)
      PROVE  \A d \in Dispatchers : disp'[d] = disp[d] \/ GoesOn(d)
  <2>1. disp[Timer(e)].ev = Nil /\ disp[Timer(e)].at \in 1..allocated
    BY <1>7, TimerIn, EmptyHanded DEF TimerFire, HasEvent, HasActivation, FlowInv, Holders, DispatchersHold
  <2> QED
    BY <1>0, <1>1, <1>7, <2>1, TimerIn DEF TimerFire, GoesOn, HasActivation, DispType
<1>8. ASSUME NEW d \in Dispatchers, GateAbortCancel(d)
      PROVE  \A c \in Dispatchers : disp'[c] = disp[c] \/ GoesOn(c)
  <2>1. disp[d].pc = "gate" /\ disp[d].at \in 1..allocated
    BY <1>8 DEF GateAbortCancel, AtGate, HasActivation, FlowInv, Holders, DispatchersHold
  <2>2. PICK v : disp' = [disp EXCEPT ![d].pc = "await", ![d].awaits = v]
    BY <1>8 DEF GateAbortCancel
  <2> QED
    BY <1>0, <2>1, <2>2 DEF GoesOn, HasEvent, DispType
<1>9. \A d \in Dispatchers : disp'[d] = disp[d] \/ GoesOn(d)
  BY <1>5, <1>6, <1>7, <1>8 DEF WorkerBegin, WorkerExec, GateAbortPanic
<1> QED
  BY <1>1, <1>3, <1>4, <1>9, DispatchersGoOn

-----------------------------------------------------------------------------
(* The steps of a dispatcher that has an event. *)

\* A dispatcher without its event, the rest unchanged: the event is nowhere.
LEMMA LetsGo ==
  ASSUME TypeOK, FlowInv, NEW d \in Dispatchers, NEW e0 \in Events, disp[d].ev = e0,
         disp' = [disp EXCEPT ![d] = Rest(d)], chan' = chan, allocated' = allocated, SameWaiting
  PROVE  /\ Places(e0) # {} /\ Places(e0)' = {}
         /\ \A e \in Events \ {e0} : Places(e)' = Places(e)
         /\ \A e \in Events : disp'[Timer(e)].pc # "none" => disp[Timer(e)].pc # "none"
         /\ DispatchersHold' /\ NothingTwice' /\ Unallocated'
<1>0. disp[d].pc \in HasEvent /\ disp \in [Dispatchers -> DispType]
  BY Numbers DEF FlowInv, Holders, DispatchersHold, TypeOK
<1>1. \A c \in Dispatchers : disp'[c] = IF c = d THEN Rest(d) ELSE disp[c]
  BY <1>0
<1>2. <<"disp", d>> \in Places(e0)
  BY DEF Places, PlacesIn
<1>3. Places(e0)' = {}
  <2>1. ASSUME NEW p \in Places(e0)' PROVE p \in Places(e0) /\ p # <<"disp", d>>
    <3>0. \A c : <<"disp", c>> \in Places(e0)' => disp'[c].ev = e0 /\ c \in Dispatchers
      BY DEF Places, PlacesIn
    <3>1. <<"disp", d>> \notin Places(e0)'
      BY <1>1, <3>0, Resting, Numbers
    <3>2. p \in Places(e0)
      <4>1. CASE \E a \in Activations : p \in {<<"chan", a>>, <<"queue", a>>, <<"pending", a>>}
        BY <2>1, <4>1 DEF Places, PlacesIn, SameWaiting
      <4>2. CASE \E c \in Dispatchers : p = <<"disp", c>>
        <5>1. PICK c \in Dispatchers : p = <<"disp", c>>
          BY <4>2
        <5>2. c # d /\ disp'[c].ev = e0
          BY <2>1, <3>0, <3>1, <5>1
        <5>3. disp[c].ev = e0
          BY <1>1, <5>2
        <5> QED
          BY <5>1, <5>3 DEF Places, PlacesIn
      <4> QED
        BY <2>1, <4>1, <4>2 DEF Places, PlacesIn
    <3> QED
      BY <2>1, <3>1, <3>2
  <2>2. \A p \in Places(e0) : p = <<"disp", d>>
    BY <1>2 DEF FlowInv, OnePlace
  <2> QED
    BY <2>1, <2>2
<1>4. ASSUME NEW e \in Events \ {e0} PROVE Places(e)' = Places(e)
  <2>1. \A c \in Dispatchers : disp'[c].ev = e <=> disp[c].ev = e
    BY <1>1, Resting, Numbers
  <2>2. /\ \A a \in Activations : e \in Range(chan'[a]) <=> e \in Range(chan[a])
        /\ \A a \in Activations : e \in Range(act'[a].queue) <=> e \in Range(act[a].queue)
        /\ \A a \in Activations : act'[a].pending = e <=> act[a].pending = e
    BY DEF SameWaiting
  <2>3. Places(e)' \subseteq Places(e)
    BY <2>1, <2>2 DEF Places, PlacesIn
  <2>4. Places(e) \subseteq Places(e)'
    BY <2>1, <2>2 DEF Places, PlacesIn
  <2> QED
    BY <2>3, <2>4
<1>5. \A c \in Dispatchers : disp'[c].pc # "none" => disp[c].pc # "none"
  BY <1>0, <1>1 DEF HasEvent
<1>6. DispatchersHold'
  BY <1>1, Resting DEF FlowInv, Holders, DispatchersHold, HasActivation
<1>7. NothingTwice'
  BY DEF FlowInv, Holders, NothingTwice, SameWaiting
<1>8. Unallocated'
  BY <1>5, LoopIn DEF FlowInv, Holders, Unallocated, SameWaiting
<1> QED
  BY <1>2, <1>3, <1>4, <1>5, <1>6, <1>7, <1>8, TimerIn

\* The event is dropped, ...
LEMMA LetsGoDrops ==
  ASSUME TypeOK, FlowInv, NEW d \in Dispatchers, disp[d].ev \in Events,
         disp' = [disp EXCEPT ![d] = Rest(d)], chan' = chan, allocated' = allocated,
         produced' = produced, worker' = worker, SameWaiting
  PROVE  FlowInv' /\ EventStep
<1> PICK e0 \in Events : e0 = disp[d].ev
  OBVIOUS
<1>1. /\ Places(e0) # {} /\ Places(e0)' = {}
      /\ \A e \in Events \ {e0} : Places(e)' = Places(e)
      /\ \A e \in Events : disp'[Timer(e)].pc # "none" => disp[Timer(e)].pc # "none"
      /\ DispatchersHold' /\ NothingTwice' /\ Unallocated'
  BY LetsGo
<1>2. Holders'
  BY <1>1 DEF FlowInv, Holders, WorkersHold, Live
<1>3. \A e \in Events \ {e0} : Kept(e)
  BY <1>1 DEF Kept, Hands, Live
<1>4. \A a \in Activations : e0 \notin Range(chan'[a]) /\ disp'[Loop(a)].ev # e0
  <2>1. PlacesIn(chan', act', disp', e0) = {}
    BY <1>1 DEF Places
  <2> QED
    BY <2>1, LoopIn DEF PlacesIn
<1> QED
  BY <1>1, <1>2, <1>3, <1>4, Relocated

\* ... or a worker is started for it.
LEMMA LetsGoStarts ==
  ASSUME TypeOK, FlowInv, NEW d \in Dispatchers, NEW kind, StartWorker(d, kind),
         disp[d].ev \in Events, chan' = chan, allocated' = allocated, produced' = produced,
         SameWaiting
  PROVE  FlowInv' /\ EventStep
<1> PICK e0 \in Events : e0 = disp[d].ev
  OBVIOUS
<1>1. /\ Places(e0) # {} /\ Places(e0)' = {}
      /\ \A e \in Events \ {e0} : Places(e)' = Places(e)
      /\ \A e \in Events : disp'[Timer(e)].pc # "none" => disp[Timer(e)].pc # "none"
      /\ DispatchersHold' /\ NothingTwice' /\ Unallocated'
  BY LetsGo DEF StartWorker
<1>2. PICK r : r.pc = "begin" /\ r.ev = e0 /\ worker' = [worker EXCEPT ![e0] = r]
  <2> DEFINE r == [pc |-> "begin", kind |-> kind, ev |-> disp[d].ev,
                   ctx |-> disp[d].ctx, at |-> disp[d].at, cut |-> FALSE]
  <2>1. r.pc = "begin" /\ r.ev = e0 /\ worker' = [worker EXCEPT ![e0] = r]
    BY DEF StartWorker
  <2> QED
    BY <2>1
<1>3. Holders'
  <2>1. \A w \in Events : worker'[w] = IF w = e0 THEN r ELSE worker[w]
    BY <1>2 DEF TypeOK
  <2> QED
    BY <1>1, <1>2, <2>1 DEF FlowInv, Holders, WorkersHold, Live
<1> QED
  BY <1>1, <1>2, <1>3, Started

\* A dispatcher in those steps has an event.
LEMMA InHand ==
  ASSUME TypeOK, NEW d \in Dispatchers, disp[d].pc \in HasEvent
  PROVE  disp[d].ev \in Events
  BY Bounds DEF TypeOK, DispType, Events, Nil

\* The first look-up: the event is dropped, or goes on with its dispatcher.
LEMMA LookupFlow ==
  ASSUME TypeOK, OneLiveInv, FlowInv, NEW a \in Activations, LoopLookup(a)
  PROVE  FlowInv' /\ EventStep
<1>0. /\ disp \in [Dispatchers -> DispType] /\ Loop(a) \in Dispatchers /\ disp[Loop(a)].pc = "lookup"
      /\ chan' = chan /\ produced' = produced /\ allocated' = allocated /\ act' = act /\ worker' = worker
  BY LoopIn DEF TypeOK, LoopLookup, drivers, engine
<1>1. SameWaiting /\ SameWorkers
  BY <1>0 DEF SameWaiting, SameWorkers, Live
<1>2. CASE active[TriggerOf(a)] = Nil
  <2>1. disp' = [disp EXCEPT ![Loop(a)] = Rest(Loop(a))]
    BY <1>2 DEF LoopLookup
  <2>2. disp[Loop(a)].ev \in Events
    BY <1>0, InHand DEF HasEvent
  <2> QED
    BY <1>0, <1>1, <2>1, <2>2, LetsGoDrops
<1>3. CASE active[TriggerOf(a)] # Nil
  <2>1. active[TriggerOf(a)] \in 1..allocated
    BY <1>3 DEF OneLiveInv, ActiveOwned, TypeOK, TriggerOf, ActType
  <2>2. \E pc \in {"arm", "dispatch"} :
          disp' = [disp EXCEPT ![Loop(a)].at = active[TriggerOf(a)], ![Loop(a)].pc = pc]
    BY <1>3 DEF LoopLookup
  <2>3. \A d \in Dispatchers : disp'[d] = disp[d] \/ GoesOn(d)
    BY <1>0, <2>1, <2>2 DEF GoesOn, DispType, HasEvent
  <2> QED
    BY <1>0, <1>1, <2>3, DispatchersGoOn
<1> QED
  BY <1>2, <1>3

\* The second status check and the abort that waits: likewise.
LEMMA DispatchFlow ==
  ASSUME TypeOK, FlowInv, NEW d \in Dispatchers, Dispatch(d)
  PROVE  FlowInv' /\ EventStep
<1>0. /\ disp \in [Dispatchers -> DispType] /\ disp[d].pc = "dispatch"
      /\ chan' = chan /\ produced' = produced /\ allocated' = allocated /\ act' = act /\ worker' = worker
  BY DEF TypeOK, Dispatch, drivers, engine
<1>1. SameWaiting /\ SameWorkers
  BY <1>0 DEF SameWaiting, SameWorkers, Live
<1>2. CASE disp' = [disp EXCEPT ![d] = Rest(d)]
  <2>2. disp[d].ev \in Events
    BY <1>0, InHand DEF HasEvent
  <2> QED
    BY <1>0, <1>1, <1>2, <2>2, LetsGoDrops
<1>3. CASE disp' # [disp EXCEPT ![d] = Rest(d)]
  <2>1. \E c : disp' = [disp EXCEPT ![d].pc = "gate", ![d].cfg = c]
    BY <1>3 DEF Dispatch
  <2>2. disp[d].at \in 1..allocated
    BY <1>0 DEF FlowInv, Holders, DispatchersHold, HasActivation
  <2>3. \A c \in Dispatchers : disp'[c] = disp[c] \/ GoesOn(c)
    BY <1>0, <2>1, <2>2 DEF GoesOn, DispType, HasEvent
  <2> QED
    BY <1>0, <1>1, <2>3, DispatchersGoOn
<1> QED
  BY <1>2, <1>3

\* At the gate: every mode but a queue that has room.
LEMMA GateFlow ==
  ASSUME TypeOK, FlowInv, NEW d \in Dispatchers,
         \/ GateParallel(d) \/ GateDrop(d) \/ GateAbort(d) \/ AbortResume(d)
         \/ GateQueue(d) /\ SameWaiting
  PROVE  FlowInv' /\ EventStep
<1>0. /\ act \in [Activations -> ActType] /\ disp[d].pc \in {"gate", "await"}
      /\ chan' = chan /\ produced' = produced /\ allocated' = allocated
  BY DEF TypeOK, GateParallel, GateDrop, GateAbort, AbortResume, GateQueue, AtGate, drivers, engine
<1>1. disp[d].ev \in Events
  BY <1>0, InHand DEF HasEvent
<1>2. CASE GateQueue(d) /\ SameWaiting
  <2>1. CASE StartWorker(d, "queue")
    BY <1>0, <1>1, <1>2, <2>1, LetsGoStarts
  <2>2. CASE disp' = [disp EXCEPT ![d] = Rest(d)] /\ UNCHANGED worker
    BY <1>0, <1>1, <1>2, <2>2, LetsGoDrops
  <2> QED
    BY <1>2, <2>1, <2>2 DEF GateQueue
<1>3. CASE GateDrop(d)
  <2>0. SameWaiting
    <3>1. act' = act \/ \E a, b : act' = [act EXCEPT ![a].running = b]
      BY <1>3 DEF GateDrop
    <3> QED
      BY <1>0, <3>1, SameActs DEF SameWaiting
  <2>1. CASE StartWorker(d, "drop")
    BY <1>0, <1>1, <2>0, <2>1, LetsGoStarts
  <2>2. CASE disp' = [disp EXCEPT ![d] = Rest(d)] /\ UNCHANGED worker
    BY <1>0, <1>1, <2>0, <2>2, LetsGoDrops
  <2> QED
    BY <1>3, <2>1, <2>2 DEF GateDrop
<1>4. CASE GateParallel(d)
  <2>0. SameWaiting
    BY <1>4 DEF GateParallel, SameWaiting
  <2> QED
    BY <1>0, <1>1, <1>4, <2>0, LetsGoStarts DEF GateParallel
<1>5. CASE StartAbortWorker(d)
  <2>0. SameWaiting
    <3>1. \E a, b, v : act' = [act EXCEPT ![a].running = b, ![a].abort = v]
      BY <1>5 DEF StartAbortWorker
    <3> QED
      BY <1>0, <3>1, SameActs DEF SameWaiting
  <2> QED
    BY <1>0, <1>1, <1>5, <2>0, LetsGoStarts DEF StartAbortWorker
<1> QED
  BY <1>2, <1>3, <1>4, <1>5 DEF GateAbort, AbortResume

-----------------------------------------------------------------------------
(* The steps that take an event from one place to another. *)

\* Where an event may be after a step, part by part.
LEMMA PlacedIn ==
  ASSUME NEW e0, NEW P,
         \A a \in Activations : e0 \in Range(chan'[a]) => <<"chan", a>> \in P,
         \A a \in Activations : e0 \in Range(act'[a].queue) => <<"queue", a>> \in P,
         \A a \in Activations : act'[a].pending = e0 => <<"pending", a>> \in P,
         \A d \in Dispatchers : disp'[d].ev = e0 => <<"disp", d>> \in P
  PROVE  Places(e0)' \subseteq P
  BY DEF Places, PlacesIn

\* An event that a step of one place does not touch is left alone.
LEMMA StaysPut ==
  ASSUME NEW e,
         \A a \in Activations : e \in Range(chan'[a]) <=> e \in Range(chan[a]),
         \A a \in Activations : e \in Range(act'[a].queue) <=> e \in Range(act[a].queue),
         \A a \in Activations : act'[a].pending = e <=> act[a].pending = e,
         \A d \in Dispatchers : disp'[d].ev = e <=> disp[d].ev = e
  PROVE  Places(e)' = Places(e)
<1>1. Places(e)' \subseteq Places(e)
  BY DEF Places, PlacesIn
<1>2. Places(e) \subseteq Places(e)'
  BY DEF Places, PlacesIn
<1> QED
  BY <1>1, <1>2

\* An event is only where it is.
LEMMA OnlyHere ==
  ASSUME FlowInv, NEW e \in Events, NEW p \in Places(e)
  PROVE  /\ \A a \in Activations : e \in Range(chan[a]) => p = <<"chan", a>>
         /\ \A a \in Activations : e \in Range(act[a].queue) => p = <<"queue", a>>
         /\ \A a \in Activations : act[a].pending = e => p = <<"pending", a>>
         /\ \A d \in Dispatchers : disp[d].ev = e => p = <<"disp", d>>
<1>1. \A q \in Places(e) : p = q
  BY DEF FlowInv, OnePlace
<1> QED
  BY <1>1, ZenonT(40) DEF Places, PlacesIn

\* The loop receives from its driver: from the channel to the hands of the loop.
LEMMA ReceiveFlow ==
  ASSUME TypeOK, FlowInv, NEW a \in Activations, LoopReceive(a)
  PROVE  FlowInv' /\ EventStep
<1>0. /\ disp \in [Dispatchers -> DispType] /\ chan \in [Activations -> Seq(Events)]
      /\ Loop(a) \in Dispatchers /\ disp[Loop(a)].pc = "select" /\ chan[a] # <<>>
      /\ produced' = produced /\ allocated' = allocated /\ act' = act /\ worker' = worker
      /\ chan' = [chan EXCEPT ![a] = Tail(chan[a])]
  BY LoopIn DEF TypeOK, LoopReceive, engine
<1>1. chan[a] \in Seq(Events) /\ NoDuplicates(chan[a])
  BY <1>0 DEF FlowInv, Holders, NothingTwice
<1>2. /\ Head(chan[a]) \in Range(chan[a]) /\ NoDuplicates(Tail(chan[a]))
      /\ Range(Tail(chan[a])) = Range(chan[a]) \ {Head(chan[a])}
  BY <1>0, <1>1, TailFacts
<1>3. PICK e0 \in Events : e0 = Head(chan[a])
  BY <1>0, <1>1
<1>4. disp[Loop(a)].ev = Nil
  BY <1>0, EmptyHanded DEF HasEvent
<1>5. /\ <<"chan", a>> \in Places(e0) /\ e0 # Nil
      /\ disp[Timer(e0)].pc = "none"
  BY <1>2, <1>3, Numbers DEF Places, PlacesIn, FlowInv, OnePlace
<1>6. \A b \in Activations : Range(chan'[b]) = IF b = a THEN Range(chan[b]) \ {e0} ELSE Range(chan[b])
  BY <1>0, <1>2, <1>3
<1>7. \A d \in Dispatchers : disp'[d] = disp[d] \/ (d = Loop(a) /\ disp'[d].pc = "lookup" /\ disp'[d].ev = e0)
  BY <1>0, <1>3 DEF LoopReceive, DispType
<1>8. Places(e0)' \subseteq {<<"disp", Loop(a)>>}
  <2>1. \A b \in Activations : e0 \notin Range(chan'[b]) /\ e0 \notin Range(act[b].queue) /\ act[b].pending # e0
    BY <1>5, <1>6, OnlyHere
  <2>2. \A d \in Dispatchers : disp[d].ev # e0
    BY <1>5, OnlyHere
  <2>3. \A d \in Dispatchers : disp'[d].ev = e0 => d = Loop(a)
    BY <1>7, <2>2
  <2>4. \A b \in Activations : e0 \notin Range(act'[b].queue) /\ act'[b].pending # e0
    BY <1>0, <2>1
  <2> QED
    BY <2>1, <2>3, <2>4, PlacedIn
<1>9. \A e \in Events \ {e0} : Kept(e)
  <2> SUFFICES ASSUME NEW e \in Events \ {e0} PROVE Kept(e)
    OBVIOUS
  <2>1. \A d \in Dispatchers : disp'[d].ev = e <=> disp[d].ev = e
    BY <1>4, <1>7, Numbers
  <2>2. Places(e)' = Places(e)
    BY <1>0, <1>6, <2>1, StaysPut
  <2>3. disp'[Timer(e)].pc # "none" => disp[Timer(e)].pc # "none"
    BY <1>0, <1>7, TimerIn
  <2> QED
    BY <1>0, <2>2, <2>3 DEF Kept, Hands, Live
<1>10. disp'[Timer(e0)].pc = "none"
  BY <1>5, <1>7, TimerIn DEF Timer, Loop
<1>11. Holders'
  <2>1. DispatchersHold'
    BY <1>0, <1>7 DEF FlowInv, Holders, DispatchersHold, HasEvent, HasActivation
  <2>2. WorkersHold'
    BY <1>0 DEF FlowInv, Holders, WorkersHold, Live
  <2>3. NothingTwice'
    BY <1>0, <1>2 DEF FlowInv, Holders, NothingTwice
  <2>4. Unallocated'
    BY <1>0, <1>7, LoopIn DEF FlowInv, Holders, Unallocated
  <2> QED
    BY <2>1, <2>2, <2>3, <2>4 DEF Holders
<1> QED
  BY <1>0, <1>5, <1>8, <1>9, <1>10, <1>11, Relocated

\* The debounce callback takes the pending event.
LEMMA TakeFlow ==
  ASSUME TypeOK, FlowInv, NEW t \in Events, TimerTake(t)
  PROVE  FlowInv' /\ EventStep
<1>0. /\ disp \in [Dispatchers -> DispType] /\ act \in [Activations -> ActType]
      /\ Timer(t) \in Dispatchers /\ disp[Timer(t)].pc = "fired" /\ disp[Timer(t)] \in DispType
      /\ produced' = produced /\ allocated' = allocated /\ chan' = chan /\ worker' = worker
      /\ disp[Timer(t)].at \in 1..allocated /\ disp[Timer(t)].at \in Activations
  BY TimerIn, Bounds DEF TypeOK, TimerTake, engine, drivers, FlowInv, Holders, DispatchersHold,
     HasActivation, Activations
<1> PICK at \in Activations : at = disp[Timer(t)].at
  BY <1>0
<1>1. /\ \A a \in Activations : act'[a].queue = act[a].queue
      /\ \A a \in Activations : act'[a].pending = IF a = at THEN Nil ELSE act[a].pending
  BY <1>0 DEF TimerTake, ActType
<1>2. disp[Timer(t)].ev = Nil
  BY <1>0, EmptyHanded DEF HasEvent
<1>3. CASE act[at].pending = Nil
  <2>1. SameWaiting /\ SameWorkers
    BY <1>0, <1>1, <1>3 DEF SameWaiting, SameWorkers, Live
  <2>2. disp' = [disp EXCEPT ![Timer(t)] = Dispatcher("none", Nil)]
    BY <1>3 DEF TimerTake
  <2>3. \A d \in Dispatchers : disp'[d] = disp[d] \/ GoesOn(d)
    BY <1>0, <1>2, <2>2 DEF GoesOn, Dispatcher, HasActivation
  <2> QED
    BY <1>0, <2>1, <2>3, DispatchersGoOn
<1>4. CASE act[at].pending # Nil
  <2>1. PICK e0 \in Events : e0 = act[at].pending
    BY <1>0, <1>4, Bounds DEF ActType, Events, Nil
  <2>2. <<"pending", at>> \in Places(e0) /\ e0 # Nil
    BY <2>1, Numbers DEF Places, PlacesIn
  <2>3. \A d \in Dispatchers :
          disp'[d] = IF d = Timer(t) THEN [disp[d] EXCEPT !.pc = "dispatch", !.ev = e0] ELSE disp[d]
    BY <1>0, <1>4, <2>1 DEF TimerTake
  <2>4. disp'[Timer(t)].pc = "dispatch" /\ disp'[Timer(t)].ev = e0 /\ disp'[Timer(t)].at = at
    BY <1>0, <2>3 DEF DispType
  <2>5. Places(e0)' \subseteq {<<"disp", Timer(t)>>}
    <3>1. \A b \in Activations : /\ e0 \notin Range(chan[b]) /\ e0 \notin Range(act[b].queue)
                                 /\ act[b].pending = e0 => b = at
      BY <2>2, OnlyHere
    <3>2. \A d \in Dispatchers : disp[d].ev # e0
      BY <2>2, OnlyHere
    <3>3. \A d \in Dispatchers : disp'[d].ev = e0 => d = Timer(t)
      BY <2>3, <3>2
    <3>4. \A b \in Activations : /\ e0 \notin Range(chan'[b]) /\ e0 \notin Range(act'[b].queue)
                                 /\ act'[b].pending # e0
      BY <1>0, <1>1, <2>2, <3>1
    <3> QED
      BY <3>3, <3>4, PlacedIn
  <2>6. \A e \in Events \ {e0} : Kept(e)
    <3> SUFFICES ASSUME NEW e \in Events \ {e0} PROVE Kept(e)
      OBVIOUS
    <3>1. \A d \in Dispatchers : disp'[d].ev = e <=> disp[d].ev = e
      BY <1>2, <2>3, <2>4, Numbers
    <3>2. \A a \in Activations : act'[a].pending = e <=> act[a].pending = e
      BY <1>1, <2>1, Numbers
    <3>3. Places(e)' = Places(e)
      BY <1>0, <1>1, <3>1, <3>2, StaysPut
    <3>4. disp'[Timer(e)].pc # "none" => disp[Timer(e)].pc # "none"
      BY <1>0, <2>3, TimerIn
    <3> QED
      BY <1>0, <3>3, <3>4 DEF Kept, Hands, Live
  <2>7. \A a \in Activations : e0 \notin Range(chan'[a]) /\ disp'[Loop(a)].ev # e0
    <3>1. \A a \in Activations : Loop(a) # Timer(t) /\ Loop(a) \in Dispatchers
      BY LoopIn DEF Loop, Timer
    <3>2. \A a \in Activations : e0 \notin Range(chan[a]) /\ disp[Loop(a)].ev # e0
      BY <2>2, <3>1, OnlyHere
    <3> QED
      BY <1>0, <2>3, <3>1, <3>2
  <2>8. Holders'
    <3>1. DispatchersHold'
      BY <1>0, <2>3, <2>4 DEF FlowInv, Holders, DispatchersHold, HasEvent
    <3>2. WorkersHold'
      BY <1>0 DEF FlowInv, Holders, WorkersHold, Live
    <3>3. NothingTwice'
      BY <1>0, <1>1 DEF FlowInv, Holders, NothingTwice
    <3>4. Unallocated'
      BY <1>0, <1>1, <2>3, LoopIn DEF FlowInv, Holders, Unallocated, Loop, Timer
    <3> QED
      BY <3>1, <3>2, <3>3, <3>4 DEF Holders
  <2> QED
    BY <1>0, <2>2, <2>5, <2>6, <2>7, <2>8, Relocated
<1> QED
  BY <1>3, <1>4

\* The running worker of the activation will take the event from the queue.
LEMMA EnqueueFlow ==
  ASSUME TypeOK, FlowInv, NEW d \in Dispatchers, GateQueue(d), ~SameWaiting
  PROVE  FlowInv' /\ EventStep
<1>0. /\ disp \in [Dispatchers -> DispType] /\ act \in [Activations -> ActType]
      /\ disp[d].pc = "gate"
      /\ produced' = produced /\ allocated' = allocated /\ chan' = chan
      /\ disp[d].at \in 1..allocated /\ disp[d].at \in Activations
  BY Bounds DEF TypeOK, GateQueue, AtGate, engine, drivers, FlowInv, Holders, DispatchersHold,
     HasActivation, Activations
<1> PICK at \in Activations : at = disp[d].at
  BY <1>0
<1> PICK e0 \in Events : e0 = disp[d].ev
  BY <1>0, InHand DEF HasEvent
<1>1. /\ act' = [act EXCEPT ![at].queue = Append(act[at].queue, e0)]
      /\ disp' = [disp EXCEPT ![d] = Rest(d)] /\ worker' = worker
  <2>1. CASE \E b : act' = [act EXCEPT ![at].running = b]
    BY <1>0, <2>1, SameActs DEF SameWaiting
  <2>2. CASE act' = act
    BY <2>2 DEF SameWaiting
  <2> QED
    BY <2>1, <2>2 DEF GateQueue
<1>2. <<"disp", d>> \in Places(e0)
  BY DEF Places, PlacesIn
<1>3. act[at].queue \in Seq(Events) /\ NoDuplicates(act[at].queue)
  BY <1>0 DEF ActType, FlowInv, Holders, NothingTwice
<1>4. \A b \in Activations : e0 \notin Range(act[b].queue) /\ e0 \notin Range(chan[b]) /\ act[b].pending # e0
  BY <1>2, OnlyHere
<1>5. /\ NoDuplicates(Append(act[at].queue, e0))
      /\ Range(Append(act[at].queue, e0)) = Range(act[at].queue) \union {e0}
  BY <1>3, <1>4, AppendFacts
<1>6. \A b \in Activations :
        /\ act'[b].queue = IF b = at THEN Append(act[at].queue, e0) ELSE act[b].queue
        /\ act'[b].pending = act[b].pending
  BY <1>0, <1>1 DEF ActType
<1>7. \A c \in Dispatchers : disp'[c] = IF c = d THEN Rest(d) ELSE disp[c]
  BY <1>0, <1>1
<1>8. \A c \in Dispatchers : disp'[c].ev # e0
  <2>1. \A c \in Dispatchers : disp[c].ev = e0 => c = d
    BY <1>2, OnlyHere
  <2> QED
    BY <1>7, <2>1, Resting, Numbers
<1>9. Places(e0)' \subseteq {<<"queue", at>>}
  <2>1. \A b \in Activations : e0 \in Range(act'[b].queue) => b = at
    BY <1>4, <1>6
  <2>2. \A b \in Activations : e0 \notin Range(chan'[b]) /\ act'[b].pending # e0
    BY <1>0, <1>4, <1>6
  <2> QED
    BY <1>8, <2>1, <2>2, PlacedIn
<1>10. \A e \in Events \ {e0} : Kept(e)
  <2> SUFFICES ASSUME NEW e \in Events \ {e0} PROVE Kept(e)
    OBVIOUS
  <2>1. \A c \in Dispatchers : disp'[c].ev = e <=> disp[c].ev = e
    BY <1>7, Resting, Numbers
  <2>2. \A b \in Activations : e \in Range(act'[b].queue) <=> e \in Range(act[b].queue)
    BY <1>5, <1>6
  <2>3. Places(e)' = Places(e)
    BY <1>0, <1>6, <2>1, <2>2, StaysPut
  <2>4. disp'[Timer(e)].pc # "none" => disp[Timer(e)].pc # "none"
    BY <1>0, <1>7, TimerIn
  <2> QED
    BY <1>1, <2>3, <2>4 DEF Kept, Hands, Live
<1>11. Holders'
  <2>1. DispatchersHold'
    BY <1>0, <1>7, Resting DEF FlowInv, Holders, DispatchersHold, HasActivation
  <2>2. WorkersHold'
    BY <1>1 DEF FlowInv, Holders, WorkersHold, Live
  <2>3. NothingTwice'
    BY <1>0, <1>5, <1>6 DEF FlowInv, Holders, NothingTwice
  <2>4. Unallocated'
    BY <1>0, <1>6, <1>7, LoopIn DEF FlowInv, Holders, Unallocated
  <2> QED
    BY <2>1, <2>2, <2>3, <2>4 DEF Holders
<1> QED
  BY <1>0, <1>1, <1>2, <1>4, <1>8, <1>9, <1>10, <1>11, LoopIn, Relocated

\* Debounce: the event becomes the pending one, and the one that was pending is dropped.
LEMMA ArmFlow ==
  ASSUME TypeOK, FlowInv, NEW a \in Activations, LoopArm(a)
  PROVE  FlowInv' /\ EventStep
<1>0. /\ disp \in [Dispatchers -> DispType] /\ act \in [Activations -> ActType]
      /\ Loop(a) \in Dispatchers /\ disp[Loop(a)].pc = "arm"
      /\ produced' = produced /\ allocated' = allocated /\ chan' = chan /\ worker' = worker
      /\ disp[Loop(a)].at \in 1..allocated /\ disp[Loop(a)].at \in Activations
  BY LoopIn, Bounds DEF TypeOK, LoopArm, engine, drivers, FlowInv, Holders, DispatchersHold,
     HasActivation, Activations
<1> PICK at \in Activations : at = disp[Loop(a)].at
  BY <1>0
<1> PICK e0 \in Events : e0 = disp[Loop(a)].ev
  BY <1>0, InHand DEF HasEvent
<1>1. <<"disp", Loop(a)>> \in Places(e0) /\ disp[Timer(e0)].pc = "none"
  BY <1>0 DEF Places, PlacesIn, FlowInv, OnePlace
<1>2. /\ \A b \in Activations : act'[b].queue = act[b].queue
      /\ \A b \in Activations : act'[b].pending = IF b = at THEN e0 ELSE act[b].pending
  BY <1>0 DEF LoopArm, ActType
<1>3. Timer(e0) \in Dispatchers /\ Timer(e0) # Loop(a) /\ disp[Timer(e0)].ev = Nil
  <2>1. Timer(e0) \in Dispatchers /\ Timer(e0) # Loop(a)
    BY TimerIn DEF Timer, Loop
  <2> QED
    BY <1>1, <2>1, EmptyHanded DEF HasEvent
<1>4. PICK r : r = [Dispatcher("armed", a) EXCEPT !.at = at]
  OBVIOUS
<1>5. r.pc = "armed" /\ r.ev = Nil /\ r.at = at
  BY <1>4 DEF Dispatcher
<1>6. \A d \in Dispatchers :
        \/ d = Loop(a) /\ disp'[d] = Rest(d)
        \/ d = Timer(e0) /\ disp'[d] = r
        \/ d \notin {Loop(a), Timer(e0)} /\ disp'[d] = disp[d]
        \/ /\ d \notin {Loop(a), Timer(e0)} /\ disp[d].pc = "armed"
           /\ disp'[d] = Dispatcher("none", Nil)
  <2>1. \A d \in Dispatchers :
          disp'[d] = IF d = Loop(a) THEN Rest(d) ELSE IF d = Timer(e0) THEN r
                     ELSE AfterTimerStop(at)[d]
    BY <1>0, <1>3, <1>4 DEF LoopArm, AfterTimerStop
  <2>2. \A d \in Dispatchers :
          \/ AfterTimerStop(at)[d] = disp[d]
          \/ disp[d].pc = "armed" /\ AfterTimerStop(at)[d] = Dispatcher("none", Nil)
    BY DEF AfterTimerStop
  <2> QED
    BY <2>1, <2>2
<1>7. \A d \in Dispatchers : disp[d].pc = "armed" => disp[d].ev = Nil
  BY EmptyHanded DEF HasEvent
<1>8. \A e \in Events : e # e0 => \A d \in Dispatchers : disp'[d].ev = e <=> disp[d].ev = e
  BY <1>3, <1>5, <1>6, <1>7, Resting, Numbers DEF Dispatcher
<1>9. \A d \in Dispatchers : disp'[d].ev # e0
  <2>1. \A d \in Dispatchers : disp[d].ev = e0 => d = Loop(a)
    BY <1>1, OnlyHere
  <2> QED
    BY <1>5, <1>6, <2>1, Resting, Numbers DEF Dispatcher
<1>10. \A b \in Activations : e0 \notin Range(chan[b]) /\ e0 \notin Range(act[b].queue) /\ act[b].pending # e0
  BY <1>1, OnlyHere
<1>11. /\ OnePlace(e0)' /\ Stage(e0)' = Stage(e0)
  <2>1. Places(e0)' \subseteq {<<"pending", at>>}
    <3>1. \A b \in Activations : /\ e0 \notin Range(chan'[b]) /\ e0 \notin Range(act'[b].queue)
                                 /\ act'[b].pending = e0 => b = at
      BY <1>0, <1>2, <1>10
    <3> QED
      BY <1>9, <3>1, PlacedIn
  <2>2. <<"pending", at>> \in Places(e0)'
    BY <1>2 DEF Places, PlacesIn
  <2>3. \A b \in Activations : e0 \notin Range(chan'[b]) /\ disp'[Loop(b)].ev # e0
    BY <1>0, <1>9, <1>10, LoopIn
  <2> QED
    BY <1>0, <1>1, <2>1, <2>2, <2>3, RelocatedOne
<1>12. ASSUME NEW e \in Events, e # e0, act[at].pending # e
       PROVE  OnePlace(e)' /\ Stage(e)' = Stage(e)
  <2>1. \A b \in Activations : act'[b].pending = e <=> act[b].pending = e
    BY <1>2, <1>12
  <2>2. Places(e)' = Places(e)
    BY <1>0, <1>2, <1>8, <1>12, <2>1, StaysPut
  <2>3. Timer(e) # Timer(e0) /\ Timer(e) # Loop(a) /\ Timer(e) \in Dispatchers
    BY <1>12, TimerIn DEF Timer, Loop
  <2>4. disp'[Timer(e)].pc # "none" => disp[Timer(e)].pc # "none"
    BY <1>6, <2>3
  <2>5. Kept(e)
    BY <1>0, <2>2, <2>4 DEF Kept, Hands, Live
  <2> QED
    BY <1>0, <2>5, KeptKeeps DEF FlowInv
<1>13. Holders'
  <2>1. DispatchersHold'
    BY <1>0, <1>5, <1>6, Resting DEF FlowInv, Holders, DispatchersHold, HasActivation, Dispatcher
  <2>2. WorkersHold'
    BY <1>0 DEF FlowInv, Holders, WorkersHold, Live
  <2>3. NothingTwice'
    BY <1>0, <1>2 DEF FlowInv, Holders, NothingTwice
  <2>4. Unallocated'
    <3>1. \A b \in Activations \ (1..allocated) :
            disp[Loop(b)].pc = "none" /\ Loop(b) \in Dispatchers /\ Loop(b) # Timer(e0)
      BY LoopIn DEF FlowInv, Holders, Unallocated, Loop, Timer
    <3>2. \A b \in Activations \ (1..allocated) : disp'[Loop(b)].pc = "none"
      BY <1>0, <1>6, <3>1
    <3> QED
      BY <1>0, <1>2, <3>2 DEF FlowInv, Holders, Unallocated
  <2> QED
    BY <2>1, <2>2, <2>3, <2>4 DEF Holders
<1>14. CASE act[at].pending \notin Events
  <2>1. \A e \in Events : OnePlace(e)' /\ Stage(e)' = Stage(e)
    BY <1>11, <1>12, <1>14
  <2> QED
    BY <1>13, <2>1 DEF FlowInv, EventStep
<1>15. CASE act[at].pending \in Events
  <2> PICK e1 \in Events : e1 = act[at].pending
    BY <1>15
  <2>1. e1 # e0
    BY <1>10
  <2>2. <<"pending", at>> \in Places(e1)
    BY DEF Places, PlacesIn
  <2>3. \A b \in Activations : /\ e1 \notin Range(chan[b]) /\ e1 \notin Range(act[b].queue)
                               /\ act[b].pending = e1 => b = at
    BY <2>2, OnlyHere
  <2>4. \A d \in Dispatchers : disp[d].ev # e1
    BY <2>2, OnlyHere
  <2>5. Places(e1)' = {}
    <3>1. \A d \in Dispatchers : disp'[d].ev # e1
      BY <1>8, <2>1, <2>4
    <3>2. \A b \in Activations : /\ e1 \notin Range(chan'[b]) /\ e1 \notin Range(act'[b].queue)
                                 /\ act'[b].pending # e1
      BY <1>0, <1>2, <2>1, <2>3
    <3> QED
      BY <3>1, <3>2 DEF Places, PlacesIn
  <2>6. \A b \in Activations : e1 \notin Range(chan'[b]) /\ disp'[Loop(b)].ev # e1
    BY <1>0, <1>8, <2>1, <2>3, <2>4, LoopIn
  <2>7. OnePlace(e1)' /\ Stage(e1) = "waiting" /\ Stage(e1)' = "gone"
    <3>1. Places(e1)' \subseteq {at}
      BY <2>5
    <3> QED
      BY <1>0, <2>2, <2>5, <2>6, <3>1, RelocatedOne
  <2>8. \A e \in Events \ {e1} : OnePlace(e)' /\ Stage(e)' = Stage(e)
    BY <1>11, <1>12
  <2> QED
    BY <1>0, <1>13, <2>7, <2>8, OneEvent
<1> QED
  BY <1>14, <1>15

-----------------------------------------------------------------------------
(* The steps of the workers. *)

\* The worker has handled its event, and takes no other.
LEMMA Finished ==
  ASSUME TypeOK, FlowInv, NEW w \in Events, worker[w].pc = "end",
         worker' = [worker EXCEPT ![w] = Returned], SameWaiting,
         disp' = disp, chan' = chan, produced' = produced, allocated' = allocated
  PROVE  FlowInv' /\ EventStep
<1>0. worker \in [Events -> WorkerType] /\ Live(w)
  BY DEF TypeOK, Live
<1> PICK e0 \in Events : e0 = worker[w].ev
  BY <1>0 DEF FlowInv, Holders, WorkersHold
<1>1. \A v \in Events : worker'[v] = IF v = w THEN Returned ELSE worker[v]
  BY <1>0
<1>2. Returned.pc = "done"
  BY DEF Returned, NoWorker
<1>3. w \in Hands(e0)
  BY <1>0 DEF Hands
<1>4. /\ \A v \in Hands(e0) : v = w
      /\ Places(e0) = {} /\ ~(e0 > produced)
  BY <1>3 DEF FlowInv, OnePlace
<1>5. \A e \in Events : Places(e)' = Places(e)
  BY StaysPut DEF SameWaiting
<1>6. Hands(e0)' = {}
  BY <1>1, <1>2, <1>4 DEF Hands, Live
<1>7. \A e \in Events \ {e0} : Hands(e)' = Hands(e)
  BY <1>0, <1>1, <1>2 DEF Hands, Live
<1>8. \A e \in Events : worker'[e].pc # "none" => worker[e].pc # "none"
  BY <1>0, <1>1
<1>9. \A e \in Events \ {e0} : OnePlace(e)' /\ Stage(e)' = Stage(e)
  <2>1. \A e \in Events \ {e0} : Kept(e)
    BY <1>5, <1>7, <1>8 DEF Kept
  <2> QED
    BY <2>1, KeptKeeps DEF FlowInv
<1>10. OnePlace(e0)'
  BY <1>4, <1>5, <1>6, <1>8 DEF FlowInv, OnePlace
<1>11. Stage(e0) = "handled" /\ Stage(e0)' = "gone"
  <2>1. Places(e0)' = {} /\ Hands(e0) # {}
    BY <1>3, <1>4, <1>5
  <2> QED
    BY <1>4, <1>6, <2>1, StageFacts
<1>12. Holders'
  <2>1. DispatchersHold'
    BY DEF FlowInv, Holders, DispatchersHold
  <2>2. WorkersHold'
    BY <1>1, <1>2 DEF FlowInv, Holders, WorkersHold, Live
  <2>3. NothingTwice'
    BY DEF FlowInv, Holders, NothingTwice, SameWaiting
  <2>4. Unallocated'
    BY DEF FlowInv, Holders, Unallocated, SameWaiting
  <2> QED
    BY <2>1, <2>2, <2>3, <2>4 DEF Holders
<1> QED
  BY <1>9, <1>10, <1>11, <1>12, OneEvent

\* Every end of a worker but the drain loop going on.
LEMMA EndFlow ==
  ASSUME TypeOK, FlowInv, NEW w \in Events,
         \/ WorkerEndParallel(w) \/ WorkerEndDrop(w) \/ WorkerEndAbort(w)
         \/ WorkerEndQueue(w) /\ act[worker[w].at].queue = <<>>
  PROVE  FlowInv' /\ EventStep
<1>1. /\ act \in [Activations -> ActType] /\ worker[w].pc = "end"
      /\ worker' = [worker EXCEPT ![w] = Returned]
      /\ disp' = disp /\ chan' = chan /\ produced' = produced /\ allocated' = allocated
  BY DEF TypeOK, WorkerEndParallel, WorkerEndDrop, WorkerEndAbort, WorkerEndQueue, engine, drivers
<1>2. \/ act' = act
      \/ act' = [act EXCEPT ![worker[w].at].running = FALSE]
      \/ act' = [act EXCEPT ![worker[w].at].running = FALSE, ![worker[w].at].abort = Nil]
  BY DEF WorkerEndParallel, WorkerEndDrop, WorkerEndAbort, WorkerEndQueue
<1>3. SameWaiting
  <2>1. \A b \in Activations : act[b] \in ActType
    BY <1>1
  <2>2. CASE act' = act
    BY <2>2 DEF SameWaiting
  <2>3. CASE act' = [act EXCEPT ![worker[w].at].running = FALSE]
    BY <1>1, <2>1, <2>3 DEF SameWaiting, ActType
  <2>4. CASE act' = [act EXCEPT ![worker[w].at].running = FALSE, ![worker[w].at].abort = Nil]
    BY <1>1, <2>1, <2>4 DEF SameWaiting, ActType
  <2> QED
    BY <1>2, <2>2, <2>3, <2>4
<1> QED
  BY <1>1, <1>3, Finished

\* The drain loop goes from one event to the next.
LEMMA DrainFlow ==
  ASSUME TypeOK, FlowInv, NEW w \in Events, WorkerEndQueue(w), act[worker[w].at].queue # <<>>
  PROVE  FlowInv' /\ EventStep
<1>0. /\ worker \in [Events -> WorkerType] /\ act \in [Activations -> ActType] /\ Live(w)
      /\ worker[w].at \in Activations
      /\ disp' = disp /\ chan' = chan /\ produced' = produced /\ allocated' = allocated
  BY Bounds DEF TypeOK, Live, WorkerEndQueue, WorkerType, engine, drivers, Activations, Nil
<1> PICK at \in Activations : at = worker[w].at
  BY <1>0
<1> PICK e0 \in Events : e0 = worker[w].ev
  BY <1>0 DEF FlowInv, Holders, WorkersHold
<1>1. act[at].queue \in Seq(Events) /\ NoDuplicates(act[at].queue) /\ act[at].queue # <<>>
  BY <1>0 DEF ActType, FlowInv, Holders, NothingTwice
<1>2. /\ Head(act[at].queue) \in Range(act[at].queue) /\ NoDuplicates(Tail(act[at].queue))
      /\ Range(Tail(act[at].queue)) = Range(act[at].queue) \ {Head(act[at].queue)}
  BY <1>1, TailFacts
<1> PICK e1 \in Events : e1 = Head(act[at].queue)
  BY <1>1
<1>3. /\ \A b \in Activations : act'[b].queue = IF b = at THEN Tail(act[at].queue) ELSE act[b].queue
      /\ \A b \in Activations : act'[b].pending = act[b].pending
  <2>1. act' = [act EXCEPT ![at].queue = Tail(act[at].queue)]
    BY <1>0, <1>1 DEF WorkerEndQueue
  <2>2. \A b \in Activations : act[b] \in ActType
    BY <1>0
  <2> QED
    BY <1>0, <2>1, <2>2 DEF ActType
<1>4. /\ \A v \in Events : v # w => worker'[v] = worker[v]
      /\ worker'[w].pc = "begin" /\ worker'[w].ev = e1
  <2>1. worker' = [worker EXCEPT ![w].pc = "begin", ![w].ev = e1]
    BY <1>0, <1>1 DEF WorkerEndQueue
  <2> QED
    BY <1>0, <2>1 DEF WorkerType
<1>5. w \in Hands(e0) /\ <<"queue", at>> \in Places(e1)
  BY <1>0, <1>2 DEF Hands, Places, PlacesIn
<1>6. /\ \A v \in Hands(e0) : v = w
      /\ Places(e0) = {} /\ ~(e0 > produced)
      /\ Hands(e1) = {} /\ ~(e1 > produced)
      /\ e0 # e1
  BY <1>5 DEF FlowInv, OnePlace
<1>7. e0 <= produced /\ e1 <= produced
  BY <1>6, Bounds DEF Events, TypeOK
<1>8. Hands(e0)' = {} /\ Hands(e1)' = {w}
  BY <1>4, <1>6 DEF Hands, Live
<1>9. \A e \in Events : e # e0 /\ e # e1 => Hands(e)' = Hands(e)
  BY <1>0, <1>4 DEF Hands, Live
<1>10. \A b \in Activations :
         Range(act'[b].queue) = IF b = at THEN Range(act[b].queue) \ {e1} ELSE Range(act[b].queue)
  BY <1>2, <1>3
<1>11. \A e \in Events \ {e1} : Places(e)' = Places(e)
  <2> SUFFICES ASSUME NEW e \in Events \ {e1} PROVE Places(e)' = Places(e)
    OBVIOUS
  <2>1. \A b \in Activations : e \in Range(act'[b].queue) <=> e \in Range(act[b].queue)
    BY <1>10
  <2> QED
    BY <1>0, <1>3, <2>1, StaysPut
<1>12. Places(e1)' = {}
  <2>1. \A b \in Activations : /\ e1 \notin Range(chan[b]) /\ act[b].pending # e1
                               /\ e1 \in Range(act[b].queue) => b = at
    BY <1>5, OnlyHere
  <2>2. \A d \in Dispatchers : disp[d].ev # e1
    BY <1>5, OnlyHere
  <2>3. \A b \in Activations : /\ e1 \notin Range(chan'[b]) /\ act'[b].pending # e1
                               /\ e1 \notin Range(act'[b].queue)
    BY <1>0, <1>3, <1>10, <2>1
  <2> QED
    BY <1>0, <2>2, <2>3 DEF Places, PlacesIn
<1>13. \A e \in Events : worker'[e].pc # "none" => worker[e].pc # "none"
  BY <1>0, <1>4 DEF Live
<1>14. \A e \in Events : e # e0 /\ e # e1 => OnePlace(e)' /\ Stage(e)' = Stage(e)
  <2>1. \A e \in Events : e # e0 /\ e # e1 => Kept(e)
    BY <1>0, <1>9, <1>11, <1>13 DEF Kept
  <2> QED
    BY <1>0, <2>1, KeptKeeps DEF FlowInv
<1>15. OnePlace(e0)'
  <2>1. Places(e0)' = {}
    BY <1>6, <1>11
  <2> QED
    BY <1>0, <1>6, <1>7, <1>8, <2>1 DEF FlowInv, OnePlace
<1>16. OnePlace(e1)'
  BY <1>0, <1>6, <1>7, <1>8, <1>12 DEF FlowInv, OnePlace
<1>17. /\ Stage(e0) = "handled" /\ Stage(e0)' = "gone"
       /\ Stage(e1) = "waiting" /\ Stage(e1)' = "handled"
  <2>1. Places(e0)' = {} /\ Hands(e0) # {} /\ Places(e1) # {} /\ Hands(e1)' # {}
    BY <1>5, <1>6, <1>8, <1>11
  <2> QED
    BY <1>0, <1>6, <1>8, <2>1, StageFacts
<1>18. Holders'
  <2>1. DispatchersHold'
    BY <1>0 DEF FlowInv, Holders, DispatchersHold
  <2>2. WorkersHold'
    BY <1>4 DEF FlowInv, Holders, WorkersHold, Live
  <2>3. NothingTwice'
    BY <1>0, <1>2, <1>3 DEF FlowInv, Holders, NothingTwice
  <2>4. Unallocated'
    <3>1. act[at].queue # <<>>
      BY <1>1
    <3> QED
      BY <1>0, <1>3, <3>1 DEF FlowInv, Holders, Unallocated
  <2> QED
    BY <2>1, <2>2, <2>3, <2>4 DEF Holders
<1>19. FlowInv'
  BY <1>14, <1>15, <1>16, <1>18 DEF FlowInv
<1>20. EventStep
  <2>1. [e \in Events |-> Stage(e)]' =
          [[e \in Events |-> Stage(e)] EXCEPT ![e0] = "gone", ![e1] = "handled"]
    BY <1>6, <1>14, <1>17
  <2>2. /\ [e \in Events |-> Stage(e)][e0] = "handled"
        /\ [e \in Events |-> Stage(e)][e1] = "waiting"
    BY <1>17
  <2>3. Flow!FinishAndStart(e0, e1)
    BY <2>1, <2>2 DEF Flow!FinishAndStart
  <2> QED
    BY <2>3 DEF EventStep, Flow!Next
<1> QED
  BY <1>19, <1>20

-----------------------------------------------------------------------------
(* New events and new activations. *)

\* A driver produces the next event and leaves it in the activation's channel.
LEMMA ProduceFlow ==
  ASSUME TypeOK, FlowInv, NEW a \in Activations, Produce(a)
  PROVE  FlowInv' /\ EventStep
<1>0. /\ chan \in [Activations -> Seq(Events)] /\ produced \in Nat /\ MaxEvent \in Nat
      /\ disp' = disp /\ act' = act /\ worker' = worker /\ allocated' = allocated
      /\ produced' = produced + 1 /\ produced + 1 \in Events
      /\ chan' = [chan EXCEPT ![a] = Append(chan[a], produced + 1)]
  BY Bounds DEF TypeOK, Produce, engine, Events
<1> PICK e0 \in Events : e0 = produced + 1
  BY <1>0
<1>1. /\ e0 > produced /\ ~(e0 <= produced) /\ ~(e0 > produced') /\ e0 <= produced'
      /\ \A e \in Events : /\ e # e0 => (e > produced' <=> e > produced)
                           /\ e <= produced => e <= produced'
  BY <1>0 DEF Events
<1>2. /\ Places(e0) = {} /\ Hands(e0) = {} /\ worker[e0].pc = "none" /\ disp[Timer(e0)].pc = "none"
  BY <1>1 DEF FlowInv, OnePlace
<1>3. /\ chan[a] \in Seq(Events) /\ NoDuplicates(chan[a]) /\ e0 \notin Range(chan[a])
  <2>1. <<"chan", a>> \notin Places(e0)
    BY <1>2
  <2> QED
    BY <1>0, <2>1 DEF Places, PlacesIn, FlowInv, Holders, NothingTwice
<1>4. /\ NoDuplicates(Append(chan[a], e0))
      /\ Range(Append(chan[a], e0)) = Range(chan[a]) \union {e0}
  BY <1>3, AppendFacts
<1>5. \A b \in Activations :
        /\ NoDuplicates(chan'[b])
        /\ Range(chan'[b]) = IF b = a THEN Range(chan[b]) \union {e0} ELSE Range(chan[b])
  BY <1>0, <1>4 DEF FlowInv, Holders, NothingTwice
<1>6. \A e \in Events \ {e0} : Kept(e)
  <2> SUFFICES ASSUME NEW e \in Events \ {e0} PROVE Kept(e)
    OBVIOUS
  <2>1. \A b \in Activations : e \in Range(chan'[b]) <=> e \in Range(chan[b])
    BY <1>5
  <2>2. Places(e)' = Places(e)
    BY <1>0, <2>1, StaysPut
  <2> QED
    BY <1>0, <2>2 DEF Kept, Hands, Live
<1>7. \A e \in Events \ {e0} : OnePlace(e)' /\ Stage(e)' = Stage(e)
  BY <1>1, <1>6, KeptKeeps DEF FlowInv
<1>8. Places(e0)' \subseteq {<<"chan", a>>} /\ Hands(e0)' = {}
  <2>1. \A b \in Activations : /\ e0 \notin Range(chan[b]) /\ e0 \notin Range(act[b].queue)
                               /\ act[b].pending # e0
    BY <1>2 DEF Places, PlacesIn
  <2>2. \A d \in Dispatchers : disp[d].ev # e0
    BY <1>2 DEF Places, PlacesIn
  <2>3. \A b \in Activations : /\ e0 \in Range(chan'[b]) => b = a
                               /\ e0 \notin Range(act'[b].queue) /\ act'[b].pending # e0
    BY <1>0, <1>5, <2>1
  <2>4. \A d \in Dispatchers : disp'[d].ev # e0
    BY <1>0, <2>2
  <2>5. Places(e0)' \subseteq {<<"chan", a>>}
    BY <2>3, <2>4, PlacedIn
  <2> QED
    BY <1>0, <1>2, <2>5 DEF Hands, Live
<1>9. <<"chan", a>> \in Places(e0)'
  BY <1>5 DEF Places, PlacesIn
<1>10. OnePlace(e0)'
  BY <1>0, <1>1, <1>2, <1>8 DEF OnePlace
<1>11. Holders'
  BY <1>0, <1>5 DEF FlowInv, Holders, DispatchersHold, WorkersHold, NothingTwice, Unallocated, Live
<1>12. Stage(e0) = "new" /\ Stage(e0)' = "waiting"
  <2>1. Places(e0)' # {}
    BY <1>9
  <2> QED
    BY <1>1, <1>8, <2>1, StageFacts
<1>13. EventStep
  <2>1. [e \in Events |-> Stage(e)]' = [[e \in Events |-> Stage(e)] EXCEPT ![e0] = "waiting"]
    BY <1>7, <1>12
  <2>2. [e \in Events |-> Stage(e)][e0] = "new"
    BY <1>12
  <2>3. Flow!Produce(e0)
    BY <2>1, <2>2 DEF Flow!Produce
  <2> QED
    BY <2>3 DEF EventStep, Flow!Next
<1> QED
  BY <1>7, <1>10, <1>11, <1>13 DEF FlowInv

\* A new activation has an empty channel, an empty queue and no pending event.
LEMMA ActivateFlow ==
  ASSUME TypeOK, FlowInv, NEW t \in Triggers, Activate(t)
  PROVE  FlowInv' /\ EventStep
<1>0. /\ act \in [Activations -> ActType] /\ disp \in [Dispatchers -> DispType]
      /\ allocated \in Nat /\ allocated' = allocated + 1 /\ allocated + 1 \in Activations
      /\ act' = [act EXCEPT ![allocated + 1] = NewAct(t)]
      /\ disp' = [disp EXCEPT ![Loop(allocated + 1)] = Dispatcher("select", allocated + 1)]
      /\ chan' = chan /\ produced' = produced /\ worker' = worker
  BY Bounds DEF TypeOK, Activate, Activations
<1> PICK a \in Activations : a = allocated + 1
  BY <1>0
<1>1. /\ act[a].queue = <<>> /\ act[a].pending = Nil /\ disp[Loop(a)].pc = "none"
      /\ a \notin 1..allocated
  BY <1>0 DEF FlowInv, Holders, Unallocated
<1>2. /\ \A b \in Activations : b # a => act'[b] = act[b]
      /\ act'[a].queue = <<>> /\ act'[a].pending = Nil
  BY <1>0 DEF NewAct
<1>3. /\ Loop(a) \in Dispatchers
      /\ \A d \in Dispatchers : d # Loop(a) => disp'[d] = disp[d]
      /\ disp'[Loop(a)].pc = "select" /\ disp'[Loop(a)].ev = Nil /\ disp[Loop(a)].ev = Nil
  BY <1>0, <1>1, LoopIn, EmptyHanded DEF Dispatcher, HasEvent
<1>4. \A e \in Events : disp'[Timer(e)].pc # "none" => disp[Timer(e)].pc # "none"
  BY <1>3, TimerIn DEF Timer, Loop
<1>5. DispatchersHold'
  <2>1. 1..allocated \subseteq 1..(allocated + 1)
    BY <1>0
  <2> QED
    BY <1>0, <1>3, <2>1 DEF FlowInv, Holders, DispatchersHold, HasActivation
<1>6. Unallocated'
  <2> SUFFICES ASSUME NEW b \in Activations \ (1..(allocated + 1))
               PROVE  act'[b].queue = <<>> /\ act'[b].pending = Nil /\ disp'[Loop(b)].pc = "none"
    BY <1>0 DEF Unallocated
  <2>1. b # a /\ b \notin 1..allocated
    BY <1>0
  <2>2. Loop(b) # Loop(a) /\ Loop(b) \in Dispatchers
    BY <2>1, LoopIn DEF Loop
  <2> QED
    BY <1>2, <1>3, <2>1, <2>2 DEF FlowInv, Holders, Unallocated
<1>7. /\ \A b \in Activations : act'[b].queue = act[b].queue /\ act'[b].pending = act[b].pending
      /\ \A d \in Dispatchers : disp'[d].ev = disp[d].ev
  BY <1>1, <1>2, <1>3
<1>8. \A w \in Events : /\ (Live(w))' <=> Live(w)
                        /\ worker'[w].ev = worker[w].ev
                        /\ worker'[w].pc # "none" => worker[w].pc # "none"
  BY <1>0 DEF Live
<1> QED
  BY <1>0, <1>4, <1>5, <1>6, <1>7, <1>8, QuietStep

-----------------------------------------------------------------------------

\* Before anything is activated no event is anywhere.
LEMMA FlowInit == Init => FlowInv /\ Flow!Init
<1> SUFFICES ASSUME Init PROVE FlowInv /\ Flow!Init
  OBVIOUS
<1>1. /\ \A a \in Activations : chan[a] = <<>> /\ act[a].queue = <<>> /\ act[a].pending = Nil
      /\ \A d \in Dispatchers : disp[d].ev = Nil /\ disp[d].pc = "none"
      /\ \A e \in Events : worker[e].pc = "none"
      /\ produced = 0 /\ allocated = 0
  BY DEF Init, NewAct, Dispatcher, NoWorker
<1>2. Range(<<>>) = {}
  BY DEF Range
<1>3. \A e \in Events : e > produced
  BY <1>1 DEF Events
<1>4. \A e \in Events : Places(e) = {} /\ Hands(e) = {}
  <2> SUFFICES ASSUME NEW e \in Events PROVE Places(e) = {} /\ Hands(e) = {}
    OBVIOUS
  <2>1. Places(e) = {}
    BY <1>1, <1>2, Numbers DEF Places, PlacesIn
  <2> QED
    BY <1>1, <2>1 DEF Hands, Live
<1>5. Holders
  BY <1>1, LoopIn DEF Holders, DispatchersHold, WorkersHold, NothingTwice, Unallocated, Live,
     NoDuplicates, HasActivation
<1>6. \A e \in Events : OnePlace(e)
  BY <1>1, <1>4, TimerIn DEF OnePlace
<1>7. \A e \in Events : Stage(e) = "new"
  BY <1>3, StageFacts
<1> QED
  BY <1>5, <1>6, <1>7 DEF FlowInv, Flow!Init

\* Every step keeps the invariant, and is a step or a stutter of EventFlow.
LEMMA FlowStep ==
  ASSUME TypeOK, OneLiveInv, FlowInv, [Next]_vars
  PROVE  FlowInv' /\ EventStep
<1>1. ASSUME NEW a \in Activations, LoopStep(a) PROVE FlowInv' /\ EventStep
  BY <1>1, QuietGoroutines, ReceiveFlow, LookupFlow, ArmFlow DEF LoopStep
<1>2. ASSUME NEW e \in Events, TimerStep(e) PROVE FlowInv' /\ EventStep
  BY <1>2, QuietGoroutines, TakeFlow DEF TimerStep
<1>3. ASSUME NEW e \in Events, WorkerStep(e) PROVE FlowInv' /\ EventStep
  BY <1>3, QuietGoroutines, EndFlow, DrainFlow DEF WorkerStep, WorkerEnd
<1>4. ASSUME NEW d \in Dispatchers, DispatchStep(d) PROVE FlowInv' /\ EventStep
  BY <1>4, QuietGoroutines, DispatchFlow, GateFlow, EnqueueFlow DEF DispatchStep, Gate
<1> QED
  BY <1>1, <1>2, <1>3, <1>4, OutsideFlow, ActivateFlow, ProduceFlow DEF Next

\* So it always holds.
LEMMA FlowInvariant == Spec => [](TypeOK /\ OneLiveInv /\ FlowInv)
<1>1. TypeOK /\ OneLiveInv /\ FlowInv /\ [Next]_vars => (TypeOK /\ OneLiveInv /\ FlowInv)'
  BY StepType, StepOneLive, FlowStep
<1> QED
  BY InitType, InitOneLive, FlowInit, <1>1, PTL DEF Spec

\* The engine implements EventFlow, with any settings and however they change.
THEOREM EventsFlow == Spec => ImplementsEventFlow
<1>1. TypeOK /\ OneLiveInv /\ FlowInv /\ [Next]_vars => [Flow!Next]_([e \in Events |-> Stage(e)])
  <2> SUFFICES ASSUME TypeOK, OneLiveInv, FlowInv, [Next]_vars
               PROVE  Flow!Next \/ UNCHANGED [e \in Events |-> Stage(e)]
    OBVIOUS
  <2>1. EventStep
    BY FlowStep
  <2>2. CASE \A e \in Events : Stage(e)' = Stage(e)
    BY <2>2
  <2> QED
    BY <2>1, <2>2 DEF EventStep
<1> QED
  BY FlowInvariant, FlowInit, <1>1, PTL DEF Spec, ImplementsEventFlow, Flow!Spec

-----------------------------------------------------------------------------
(* One worker at a time. *)

\* The mode of an activation's trigger, which no step changes unless the user does.
ModeOf(a) == cfg[TriggerOf(a)].mode

\* A dispatcher works for the trigger of its context, in the mode its settings have.
Routed(d) ==
  /\ disp[d].pc # "none" =>
       disp[d].ctx \in 1..allocated /\ \A a \in Activations : d = Loop(a) => disp[d].ctx = a
  /\ disp[d].pc \in HasActivation => TriggerOf(disp[d].at) = TriggerOf(disp[d].ctx)
  /\ disp[d].pc = "gate" => disp[d].cfg.mode = ModeOf(disp[d].at)
  /\ disp[d].pc = "await" => ModeOf(disp[d].at) = "abort"

\* A worker belongs to an activation and works in its trigger's mode.
WorkersKnown ==
  \A w \in Events : Live(w) => /\ worker[w].at \in 1..allocated
                               /\ worker[w].kind = ModeOf(worker[w].at)

\* The workers of an activation.
Working(a) == {w \in Events : Live(w) /\ worker[w].at = a}

\* In the queue and drop modes at.running says whether the one worker there may be is
\* there; events are queued only in the queue mode, and only while that worker runs.
Serial(a) ==
  /\ ModeOf(a) \in {"queue", "drop"} =>
       (act[a].running <=> Working(a) # {}) /\ \A v, w \in Working(a) : v = w
  /\ act[a].queue # <<>> => ModeOf(a) = "queue" /\ act[a].running

\* The inductive invariant behind SerialWork and NoStrandedEvent.
SerialInv ==
  /\ \A d \in Dispatchers : Routed(d)
  /\ WorkersKnown
  /\ \A a \in 1..allocated : Serial(a)

\* The steps that allocate no activation change no role: whose trigger, in which mode.
SameRoles ==
  /\ cfg' = cfg /\ allocated' = allocated
  /\ \A a \in Activations : act'[a].trigger = act[a].trigger

\* Neither the workers, nor at.running, nor the queues change.
SameWork ==
  /\ \A a \in Activations : act'[a].running = act[a].running /\ act'[a].queue = act[a].queue
  /\ \A w \in Events : /\ (Live(w))' <=> Live(w)
                       /\ worker'[w].at = worker[w].at /\ worker'[w].kind = worker[w].kind

\* A reload that changes no settings leaves every trigger's mode alone.
LEMMA RegistryKeepsModes ==
  ASSUME ~Reconfigure, TypeOK, NEW t \in Triggers, RegistryChange(t)
  PROVE  cfg' = cfg
<1>1. cfg \in [Triggers -> Configs]
  BY DEF TypeOK
<1>2. CASE Register(t)
  <2>1. cfg' = [cfg EXCEPT ![t] = cfg[t]]
    BY <1>2 DEF Register
  <2> QED
    BY <1>1, <2>1
<1> QED
  BY <1>2 DEF RegistryChange, SetStatus, Deregister

\* No step but Activate changes a role, if the user changes no settings.
LEMMA RolesKept ==
  ASSUME ~Reconfigure, TypeOK, [Next]_vars, \A t \in Triggers : ~Activate(t)
  PROVE  SameRoles
<1>0. act \in [Activations -> ActType]
  BY DEF TypeOK
<1>1. ASSUME SameActivations, cfg' = cfg PROVE SameRoles
  BY <1>1 DEF SameActivations, SameIdentity, SameRoles
<1>2. ASSUME act' = act \/ \E a, b : act' = [act EXCEPT ![a].cancelled = b],
             cfg' = cfg, allocated' = allocated
      PROVE  SameRoles
  <2>1. CASE act' = act
    BY <1>2, <2>1 DEF SameRoles
  <2>2. ASSUME NEW a, NEW b, act' = [act EXCEPT ![a].cancelled = b] PROVE SameRoles
    BY <1>0, <1>2, <2>2 DEF SameRoles, ActType
  <2> QED
    BY <1>2, <2>1, <2>2
<1>3. ASSUME NEW t \in Triggers, RegistryChange(t) PROVE SameRoles
  BY <1>1, <1>3, RegistryKeepsModes, FrameStep
<1>4. ASSUME NEW a \in Activations, Produce(a) \/ Crash(a) \/ (LoopStep(a) /\ ~LoopDeactivate(a))
      PROVE  SameRoles
  <2>1. cfg' = cfg
    BY <1>4 DEF Produce, Crash, LoopStep, LoopCancelled, LoopReceive, LoopClosed, LoopLookup,
       LoopArm, LoopError, registry
  <2> QED
    BY <1>1, <1>4, <2>1, FrameStep
<1>5. ASSUME NEW e \in Events, TimerStep(e) \/ WorkerStep(e) PROVE SameRoles
  <2>1. cfg' = cfg
    BY <1>5 DEF TimerStep, TimerFire, TimerTake, WorkerStep, WorkerBegin, WorkerExec, WorkerEnd,
       WorkerEndParallel, WorkerEndDrop, WorkerEndAbort, WorkerEndQueue, registry
  <2> QED
    BY <1>1, <1>5, <2>1, FrameStep
<1>6. ASSUME NEW d \in Dispatchers, DispatchStep(d) PROVE SameRoles
  <2>1. cfg' = cfg
    BY <1>6 DEF DispatchStep, Dispatch, Gate, GateParallel, GateDrop, GateQueue, GateAbort,
       GateAbortCancel, GateAbortPanic, AbortResume, registry
  <2> QED
    BY <1>1, <1>6, <2>1, FrameStep
<1>7. ASSUME \/ \E t \in Triggers : Deactivate(t)
             \/ StopAll \/ MutexStep
             \/ \E a \in Activations : LoopDeactivate(a)
             \/ UNCHANGED vars
      PROVE  SameRoles
  <2>1. cfg' = cfg /\ allocated' = allocated
    BY <1>7 DEF Deactivate, BeginDeactivate, StopAll, MutexStep, DeactivateStop, DeactivateReturn,
       StopAllCancel, StopAllStop, StopAllReturn, LoopDeactivate, vars, registry, engine
  <2>2. act' = act \/ \E a, b : act' = [act EXCEPT ![a].cancelled = b]
    BY <1>7 DEF Deactivate, BeginDeactivate, StopAll, MutexStep, DeactivateStop, DeactivateReturn,
       StopAllCancel, StopAllStop, StopAllReturn, LoopDeactivate, vars
  <2> QED
    BY <1>2, <2>1, <2>2
<1> QED
  BY <1>3, <1>4, <1>5, <1>6, <1>7 DEF Next

\* What holds of an activation that exists still holds.
LEMMA SameWorkSerial ==
  ASSUME TypeOK, SerialInv, SameRoles, SameWork
  PROVE  WorkersKnown' /\ \A a \in 1..allocated' : Serial(a)'
<1>0. 1..allocated \subseteq Activations /\ allocated' = allocated
  BY Bounds DEF TypeOK, Activations, SameRoles
<1>1. \A a \in 1..allocated : cfg'[act'[a].trigger].mode = cfg[act[a].trigger].mode
  BY <1>0 DEF SameRoles
<1>2. WorkersKnown'
  BY <1>0, <1>1 DEF SerialInv, WorkersKnown, SameWork, ModeOf, TriggerOf
<1>3. ASSUME NEW a \in 1..allocated PROVE Serial(a)'
  <2>1. Working(a)' = Working(a)
    BY DEF Working, SameWork
  <2>2. /\ act'[a].running = act[a].running /\ act'[a].queue = act[a].queue
        /\ ModeOf(a)' = ModeOf(a)
    BY <1>0, <1>1 DEF SameWork, ModeOf, TriggerOf
  <2>3. Serial(a)
    BY DEF SerialInv
  <2> QED
    BY <2>1, <2>2, <2>3 DEF Serial
<1> QED
  BY <1>0, <1>2, <1>3

\* A dispatcher that does not move, that ends, or that lets go of its event.
LEMMA RoutedStays ==
  ASSUME TypeOK, FlowInv, SerialInv, SameRoles, NEW d \in Dispatchers,
         \/ disp'[d] = disp[d]
         \/ disp'[d].pc = "none"
         \/ disp[d].pc # "none" /\ disp'[d] = Rest(d)
  PROVE  Routed(d)'
<1>0. /\ 1..allocated \subseteq Activations /\ allocated' = allocated /\ Routed(d)
      /\ disp[d].pc \in HasActivation => disp[d].at \in 1..allocated
      /\ disp[d].pc # "none" => disp[d].ctx \in 1..allocated
      /\ \A a \in 1..allocated : cfg'[act'[a].trigger].mode = cfg[act[a].trigger].mode
      /\ \A a \in 1..allocated : act'[a].trigger = act[a].trigger
  BY Bounds DEF TypeOK, Activations, SameRoles, SerialInv, Routed, FlowInv, Holders, DispatchersHold
<1>1. CASE disp'[d].pc = "none"
  BY <1>1 DEF Routed, HasActivation
<1>2. CASE disp'[d] = disp[d]
  BY <1>0, <1>2 DEF Routed, ModeOf, TriggerOf, HasActivation
<1>3. CASE disp[d].pc # "none" /\ disp'[d] = Rest(d)
  <2>1. CASE \E a \in Activations : d = Loop(a)
    <3> PICK a \in Activations : d = Loop(a)
      BY <2>1
    <3>1. d[1] = "loop" /\ d[2] = a
      BY DEF Loop
    <3>2. disp[d].ctx = a
      BY <1>0, <1>3 DEF Routed
    <3>3. disp'[d].pc = "select" /\ disp'[d].ctx = a
      BY <1>3, <3>1 DEF Rest, Dispatcher
    <3>4. \A b \in Activations : d = Loop(b) => b = a
      BY DEF Loop
    <3> QED
      BY <1>0, <1>3, <3>2, <3>3, <3>4 DEF Routed, HasActivation
  <2>2. CASE \E e \in Events : d = Timer(e)
    <3>1. d[1] = "timer"
      BY <2>2 DEF Timer
    <3>2. disp'[d].pc = "none"
      BY <1>3, <3>1 DEF Rest, Dispatcher
    <3> QED
      BY <3>2 DEF Routed, HasActivation
  <2> QED
    BY <2>1, <2>2 DEF Dispatchers
<1> QED
  BY <1>1, <1>2, <1>3

\* A dispatcher that goes on in its context.
LEMMA RoutedMoves ==
  ASSUME TypeOK, FlowInv, SerialInv, SameRoles, NEW d \in Dispatchers,
         disp[d].pc # "none", disp'[d].ctx = disp[d].ctx,
         disp'[d].pc \in HasActivation =>
           /\ disp'[d].at \in 1..allocated /\ TriggerOf(disp'[d].at) = TriggerOf(disp[d].ctx),
         disp'[d].pc = "gate" => disp'[d].cfg.mode = cfg[TriggerOf(disp'[d].at)].mode,
         disp'[d].pc = "await" => cfg[TriggerOf(disp'[d].at)].mode = "abort"
  PROVE  Routed(d)'
<1>0. /\ 1..allocated \subseteq Activations /\ allocated' = allocated /\ Routed(d) /\ cfg' = cfg
      /\ disp[d].ctx \in 1..allocated
      /\ \A a \in 1..allocated : act'[a].trigger = act[a].trigger
  BY Bounds DEF TypeOK, Activations, SameRoles, SerialInv, Routed
<1>1. disp'[d].pc \in {"gate", "await"} => disp'[d].pc \in HasActivation
  BY DEF HasActivation
<1>2. /\ disp'[d].ctx \in 1..allocated'
      /\ \A a \in Activations : d = Loop(a) => disp'[d].ctx = a
  BY <1>0 DEF Routed
<1>3. disp'[d].pc \in HasActivation =>
        act'[disp'[d].at].trigger = act'[disp'[d].ctx].trigger
  BY <1>0 DEF TriggerOf
<1>4. /\ disp'[d].pc = "gate" => disp'[d].cfg.mode = cfg'[act'[disp'[d].at].trigger].mode
      /\ disp'[d].pc = "await" => cfg'[act'[disp'[d].at].trigger].mode = "abort"
  BY <1>0, <1>1 DEF TriggerOf
<1> QED
  BY <1>2, <1>3, <1>4 DEF Routed, ModeOf, TriggerOf

\* A step that changes neither roles nor work.
LEMMA QuietSerial ==
  ASSUME TypeOK, SerialInv, SameRoles, SameWork, \A d \in Dispatchers : Routed(d)'
  PROVE  SerialInv'
  BY SameWorkSerial DEF SerialInv

\* The steps of the registry, the drivers and the critical sections.
LEMMA OutsideSerial ==
  ASSUME TypeOK, FlowInv, SerialInv, SameRoles,
         \/ \E t \in Triggers : RegistryChange(t) \/ Deactivate(t)
         \/ StopAll \/ MutexStep
         \/ \E a \in Activations : Produce(a) \/ Crash(a)
         \/ UNCHANGED vars
  PROVE  SerialInv'
<1>0. act \in [Activations -> ActType]
  BY DEF TypeOK
<1>1. worker' = worker
  BY DEF RegistryChange, Deactivate, StopAll, MutexStep, DeactivateStop, DeactivateReturn,
     StopAllCancel, StopAllStop, StopAllReturn, Produce, Crash, vars
<1>2. act' = act \/ \E a, b : act' = [act EXCEPT ![a].cancelled = b]
  BY DEF RegistryChange, Deactivate, BeginDeactivate, StopAll, MutexStep, DeactivateStop,
     DeactivateReturn, StopAllCancel, StopAllStop, StopAllReturn, Produce, Crash, vars
<1>3. disp' = disp \/ \E t : disp' = AfterTimerStop(active[t])
  BY DEF RegistryChange, Deactivate, StopAll, MutexStep, DeactivateStop, DeactivateReturn,
     StopAllCancel, StopAllStop, StopAllReturn, Produce, Crash, vars
<1>4. SameWork
  <2>1. CASE act' = act
    BY <1>1, <2>1 DEF SameWork, Live
  <2>2. ASSUME NEW a, NEW b, act' = [act EXCEPT ![a].cancelled = b] PROVE SameWork
    BY <1>0, <1>1, <2>2 DEF SameWork, Live, ActType
  <2> QED
    BY <1>2, <2>1, <2>2
<1>5. \A d \in Dispatchers : disp'[d] = disp[d] \/ disp'[d].pc = "none"
  BY <1>3 DEF AfterTimerStop, Dispatcher
<1>6. \A d \in Dispatchers : Routed(d)'
  BY <1>5, RoutedStays
<1> QED
  BY <1>4, <1>6, QuietSerial

\* An activation updated in other fields, the workers left alone, does the same work.
LEMMA WorkSame ==
  ASSUME TypeOK, worker' = worker,
         \/ act' = act
         \/ \E a, b : act' = [act EXCEPT ![a].cancelled = b]
         \/ \E a, b : act' = [act EXCEPT ![a].pending = b]
         \/ \E a, b, c : act' = [act EXCEPT ![a].pending = b, ![a].timer = c]
  PROVE  SameWork
<1>0. act \in [Activations -> ActType]
  BY DEF TypeOK
<1>1. CASE act' = act
  BY <1>1 DEF SameWork, Live
<1>2. ASSUME NEW a, NEW b, act' = [act EXCEPT ![a].cancelled = b] PROVE SameWork
  BY <1>0, <1>2 DEF SameWork, Live, ActType
<1>3. ASSUME NEW a, NEW b, act' = [act EXCEPT ![a].pending = b] PROVE SameWork
  BY <1>0, <1>3 DEF SameWork, Live, ActType
<1>4. ASSUME NEW a, NEW b, NEW c, act' = [act EXCEPT ![a].pending = b, ![a].timer = c] PROVE SameWork
  BY <1>0, <1>4 DEF SameWork, Live, ActType
<1> QED
  BY <1>1, <1>2, <1>3, <1>4

\* The steps of a dispatch loop.
LEMMA LoopSerial ==
  ASSUME TypeOK, OneLiveInv, FlowInv, SerialInv, SameRoles, NEW a \in Activations, LoopStep(a)
  PROVE  SerialInv'
<1>0. /\ disp \in [Dispatchers -> DispType] /\ Loop(a) \in Dispatchers
      /\ disp[Loop(a)] \in DispType /\ worker' = worker
      /\ disp[Loop(a)].pc # "none"
  BY LoopIn DEF TypeOK, LoopStep, LoopCancelled, LoopReceive, LoopClosed, LoopLookup, LoopArm,
     LoopError, LoopDeactivate
<1>1. SameWork
  <2>1. CASE LoopArm(a)
    <3>1. \E b, c, e : act' = [act EXCEPT ![b].pending = c, ![b].timer = e]
      BY <2>1 DEF LoopArm
    <3> QED
      BY <1>0, <3>1, WorkSame
  <2>2. CASE LoopDeactivate(a)
    <3>1. act' = act \/ \E b, c : act' = [act EXCEPT ![b].cancelled = c]
      BY <2>2 DEF LoopDeactivate, BeginDeactivate
    <3> QED
      BY <1>0, <3>1, WorkSame
  <2>3. CASE ~LoopArm(a) /\ ~LoopDeactivate(a)
    <3>1. act' = act
      BY <2>3 DEF LoopStep, LoopCancelled, LoopReceive, LoopClosed, LoopLookup, LoopError
    <3> QED
      BY <1>0, <3>1, WorkSame
  <2> QED
    BY <2>1, <2>2, <2>3
<1>2. disp[Loop(a)].ctx = a /\ a \in 1..allocated
  BY <1>0 DEF SerialInv, Routed
<1>3. ASSUME \A d \in Dispatchers : d # Loop(a) => disp'[d] = disp[d] \/ disp'[d].pc = "none",
             Routed(Loop(a))'
      PROVE  SerialInv'
  <2>1. ASSUME NEW d \in Dispatchers PROVE Routed(d)'
    <3>1. CASE d = Loop(a)
      BY <1>3, <3>1
    <3>2. CASE d # Loop(a)
      BY <1>3, <3>2, RoutedStays
    <3> QED
      BY <3>1, <3>2
  <2> QED
    BY <1>1, <2>1, QuietSerial
<1>4. CASE LoopCancelled(a) \/ LoopDeactivate(a)
  <2>1. disp'[Loop(a)].pc = "none"
    BY <1>0, <1>4 DEF LoopCancelled, LoopDeactivate, AfterTimerStop, Dispatcher
  <2>2. \A d \in Dispatchers : d # Loop(a) => disp'[d] = disp[d] \/ disp'[d].pc = "none"
    <3>1. CASE disp' = [disp EXCEPT ![Loop(a)] = Dispatcher("none", Nil)]
      BY <1>0, <3>1
    <3>2. CASE disp' = [AfterTimerStop(active[TriggerOf(a)]) EXCEPT ![Loop(a)] = Dispatcher("none", Nil)]
      <4>1. \A d \in Dispatchers : d # Loop(a) => disp'[d] = AfterTimerStop(active[TriggerOf(a)])[d]
        BY <3>2 DEF AfterTimerStop
      <4> QED
        BY <4>1 DEF AfterTimerStop, Dispatcher
    <3> QED
      BY <1>4, <3>1, <3>2 DEF LoopCancelled, LoopDeactivate
  <2> QED
    BY <1>0, <1>3, <2>1, <2>2, RoutedStays
<1>5. CASE LoopReceive(a) \/ LoopClosed(a)
  <2>1. \/ disp' = disp
        \/ \E r : /\ disp' = [disp EXCEPT ![Loop(a)] = r] /\ r.ctx = disp[Loop(a)].ctx
                  /\ r.pc \in {"lookup", "error"}
    <3>1. CASE LoopReceive(a)
      <4> DEFINE r == [disp[Loop(a)] EXCEPT !.pc = "lookup", !.ev = Head(chan[a]), !.cfg = cfg[TriggerOf(a)]]
      <4>1. r.ctx = disp[Loop(a)].ctx /\ r.pc = "lookup"
        BY <1>0 DEF DispType
      <4>2. disp' = disp \/ disp' = [disp EXCEPT ![Loop(a)] = r]
        BY <1>0, <3>1 DEF LoopReceive
      <4> QED
        BY <4>1, <4>2
    <3>2. CASE LoopClosed(a)
      <4> DEFINE r == [disp[Loop(a)] EXCEPT !.pc = "error"]
      <4>1. r.ctx = disp[Loop(a)].ctx /\ r.pc = "error"
        BY <1>0 DEF DispType
      <4>2. disp' = [disp EXCEPT ![Loop(a)] = r]
        BY <1>0, <3>2 DEF LoopClosed
      <4> QED
        BY <4>1, <4>2
    <3> QED
      BY <1>5, <3>1, <3>2
  <2>2. CASE disp' = disp
    BY <1>0, <1>3, <2>2, RoutedStays
  <2>3. CASE disp' # disp
    <3>1. /\ disp'[Loop(a)].ctx = disp[Loop(a)].ctx /\ disp'[Loop(a)].pc \in {"lookup", "error"}
          /\ \A d \in Dispatchers : d # Loop(a) => disp'[d] = disp[d]
      BY <1>0, <2>1, <2>3
    <3>2. Routed(Loop(a))'
      BY <1>0, <3>1, RoutedMoves DEF HasActivation
    <3> QED
      BY <1>3, <3>1, <3>2
  <2> QED
    BY <2>2, <2>3
<1>6. CASE LoopError(a)
  <2>1. \/ disp' = [disp EXCEPT ![Loop(a)] = Dispatcher("none", Nil)]
        \/ disp' = [disp EXCEPT ![Loop(a)] = Dispatcher("deactivate", a)]
    BY <1>6 DEF LoopError
  <2>2. \A d \in Dispatchers : d # Loop(a) => disp'[d] = disp[d]
    BY <1>0, <2>1
  <2>3. disp'[Loop(a)].pc = "none" \/ (disp'[Loop(a)].pc = "deactivate" /\ disp'[Loop(a)].ctx = a)
    BY <1>0, <2>1 DEF Dispatcher
  <2>4. Routed(Loop(a))'
    <3>1. CASE disp'[Loop(a)].pc = "none"
      BY <1>0, <3>1, RoutedStays
    <3>2. CASE disp'[Loop(a)].pc = "deactivate" /\ disp'[Loop(a)].ctx = a
      BY <1>0, <1>2, <3>2, RoutedMoves DEF HasActivation
    <3> QED
      BY <2>3, <3>1, <3>2
  <2> QED
    BY <1>3, <2>2, <2>4
<1>7. CASE LoopLookup(a)
  <2>1. CASE active[TriggerOf(a)] = Nil
    <3>1. disp' = [disp EXCEPT ![Loop(a)] = Rest(Loop(a))]
      BY <1>7, <2>1 DEF LoopLookup
    <3> QED
      BY <1>0, <1>3, <3>1, RoutedStays
  <2>2. CASE active[TriggerOf(a)] # Nil
    <3>1. active[TriggerOf(a)] \in 1..allocated /\ TriggerOf(active[TriggerOf(a)]) = TriggerOf(a)
      BY <2>2 DEF OneLiveInv, ActiveOwned, TypeOK, TriggerOf, ActType
    <3>2. /\ disp'[Loop(a)].pc \in {"arm", "dispatch"} /\ disp'[Loop(a)].ctx = disp[Loop(a)].ctx
          /\ disp'[Loop(a)].at = active[TriggerOf(a)]
          /\ \A d \in Dispatchers : d # Loop(a) => disp'[d] = disp[d]
      BY <1>0, <1>7, <2>2 DEF LoopLookup, DispType
    <3>3. Routed(Loop(a))'
      BY <1>0, <1>2, <3>1, <3>2, RoutedMoves
    <3> QED
      BY <1>3, <3>2, <3>3
  <2> QED
    BY <2>1, <2>2
<1>8. CASE LoopArm(a)
  <2> PICK e0 \in Events : e0 = disp[Loop(a)].ev
    BY <1>0, <1>8, InHand DEF LoopArm, HasEvent
  <2> PICK at \in 1..allocated : at = disp[Loop(a)].at
    BY <1>8, <1>0 DEF LoopArm, FlowInv, Holders, DispatchersHold, HasActivation
  <2>0. Timer(e0) \in Dispatchers /\ Timer(e0) # Loop(a) /\ \A b \in Activations : Timer(e0) # Loop(b)
    BY TimerIn DEF Timer, Loop
  <2>1. /\ disp'[Loop(a)] = Rest(Loop(a))
        /\ disp'[Timer(e0)] = [Dispatcher("armed", a) EXCEPT !.at = at]
        /\ \A d \in Dispatchers \ {Loop(a), Timer(e0)} : disp'[d] = AfterTimerStop(at)[d]
    BY <1>0, <1>8, <2>0 DEF LoopArm, AfterTimerStop
  <2>2. disp'[Timer(e0)].pc = "armed" /\ disp'[Timer(e0)].ctx = a /\ disp'[Timer(e0)].at = at
    BY <2>1 DEF Dispatcher
  <2>3. TriggerOf(at) = TriggerOf(a) /\ at \in Activations
    BY <1>0, <1>2, <1>8, Bounds DEF LoopArm, SerialInv, Routed, HasActivation, TypeOK, Activations
  <2>4. Routed(Timer(e0))'
    BY <1>2, <2>0, <2>2, <2>3 DEF Routed, SameRoles, TriggerOf
  <2>5. Routed(Loop(a))'
    BY <1>0, <2>1, RoutedStays
  <2>6. ASSUME NEW d \in Dispatchers \ {Loop(a), Timer(e0)} PROVE Routed(d)'
    <3>1. disp'[d] = disp[d] \/ disp'[d].pc = "none"
      BY <2>1 DEF AfterTimerStop, Dispatcher
    <3> QED
      BY <3>1, RoutedStays
  <2>7. \A d \in Dispatchers : Routed(d)'
    BY <2>4, <2>5, <2>6
  <2> QED
    BY <1>1, <2>7, QuietSerial
<1> QED
  BY <1>4, <1>5, <1>6, <1>7, <1>8 DEF LoopStep

\* The debounce callback carries the context of the loop that armed it.
LEMMA TimerSerial ==
  ASSUME TypeOK, FlowInv, SerialInv, SameRoles, NEW e \in Events, TimerStep(e)
  PROVE  SerialInv'
<1>0. /\ disp \in [Dispatchers -> DispType] /\ Timer(e) \in Dispatchers
      /\ disp[Timer(e)] \in DispType /\ worker' = worker
      /\ disp[Timer(e)].pc \in {"armed", "fired"}
  BY TimerIn DEF TypeOK, TimerStep, TimerFire, TimerTake
<1>1. SameWork
  <2>1. CASE TimerTake(e)
    <3>1. \E b, c : act' = [act EXCEPT ![b].pending = c]
      BY <2>1 DEF TimerTake
    <3> QED
      BY <1>0, <3>1, WorkSame
  <2>2. CASE ~TimerTake(e)
    <3>1. act' = act
      BY <2>2 DEF TimerStep, TimerFire
    <3> QED
      BY <1>0, <3>1, WorkSame
  <2> QED
    BY <2>1, <2>2
<1>2. /\ disp[Timer(e)].at \in 1..allocated
      /\ TriggerOf(disp[Timer(e)].at) = TriggerOf(disp[Timer(e)].ctx)
  BY <1>0 DEF FlowInv, Holders, DispatchersHold, SerialInv, Routed, HasActivation
<1>3. \E r : /\ disp' = [disp EXCEPT ![Timer(e)] = r]
             /\ r.pc \notin {"none", "gate", "await"} =>
                  r.ctx = disp[Timer(e)].ctx /\ r.at = disp[Timer(e)].at
             /\ r.pc \notin {"gate", "await"}
  <2>1. CASE TimerFire(e)
    <3> DEFINE r == [disp[Timer(e)] EXCEPT !.pc = "fired"]
    <3>1. disp' = [disp EXCEPT ![Timer(e)] = r]
      BY <1>0, <2>1 DEF TimerFire
    <3>2. r.pc = "fired" /\ r.ctx = disp[Timer(e)].ctx /\ r.at = disp[Timer(e)].at
      BY <1>0 DEF DispType
    <3> QED
      BY <3>1, <3>2
  <2>2. CASE TimerTake(e)
    <3>1. CASE disp' = [disp EXCEPT ![Timer(e)] = Dispatcher("none", Nil)]
      <4>1. Dispatcher("none", Nil).pc = "none"
        BY DEF Dispatcher
      <4> QED
        BY <3>1, <4>1
    <3>2. CASE disp' # [disp EXCEPT ![Timer(e)] = Dispatcher("none", Nil)]
      <4> DEFINE v == act[disp[Timer(e)].at].pending
                 r == [disp[Timer(e)] EXCEPT !.pc = "dispatch", !.ev = v]
      <4>1. disp' = [disp EXCEPT ![Timer(e)] = r]
        BY <1>0, <2>2, <3>2 DEF TimerTake
      <4>2. r.pc = "dispatch" /\ r.ctx = disp[Timer(e)].ctx /\ r.at = disp[Timer(e)].at
        BY <1>0 DEF DispType
      <4> QED
        BY <4>1, <4>2
    <3> QED
      BY <3>1, <3>2
  <2> QED
    BY <2>1, <2>2 DEF TimerStep
<1>4. /\ \A d \in Dispatchers : d # Timer(e) => disp'[d] = disp[d]
      /\ disp'[Timer(e)].pc \notin {"none", "gate", "await"} =>
           disp'[Timer(e)].ctx = disp[Timer(e)].ctx /\ disp'[Timer(e)].at = disp[Timer(e)].at
      /\ disp'[Timer(e)].pc \notin {"gate", "await"}
  BY <1>0, <1>3
<1>5. Routed(Timer(e))'
  <2>1. CASE disp'[Timer(e)].pc = "none"
    BY <1>0, <2>1, RoutedStays
  <2>2. CASE disp'[Timer(e)].pc # "none"
    BY <1>0, <1>2, <1>4, <2>2, RoutedMoves
  <2> QED
    BY <2>1, <2>2
<1>6. \A d \in Dispatchers : Routed(d)'
  <2>1. ASSUME NEW d \in Dispatchers, d # Timer(e) PROVE Routed(d)'
    BY <1>4, <2>1, RoutedStays
  <2> QED
    BY <1>5, <2>1
<1> QED
  BY <1>1, <1>6, QuietSerial

\* The second status check and the abort that waits.
LEMMA DispatchSerial ==
  ASSUME TypeOK, FlowInv, SerialInv, SameRoles, NEW d \in Dispatchers,
         Dispatch(d) \/ GateAbortCancel(d) \/ GateAbortPanic(d)
  PROVE  SerialInv'
<1>0. /\ disp \in [Dispatchers -> DispType] /\ disp[d] \in DispType /\ act' = act
      /\ disp[d].pc \in {"dispatch", "gate"} /\ worker \in [Events -> WorkerType]
  BY DEF TypeOK, Dispatch, GateAbortCancel, GateAbortPanic, AtGate
<1>1. SameWork
  <2>1. CASE worker' = worker
    BY <1>0, <2>1, WorkSame
  <2>2. CASE GateAbortCancel(d)
    <3>1. \E v : worker' = [worker EXCEPT ![v].cut = TRUE]
      BY <2>2 DEF GateAbortCancel
    <3> QED
      BY <1>0, <3>1 DEF SameWork, Live, WorkerType
  <2> QED
    BY <2>1, <2>2 DEF Dispatch, GateAbortPanic
<1>2. /\ disp[d].at \in 1..allocated
      /\ TriggerOf(disp[d].at) = TriggerOf(disp[d].ctx)
      /\ disp[d].pc = "gate" => disp[d].cfg.mode = cfg[TriggerOf(disp[d].at)].mode
  BY <1>0 DEF FlowInv, Holders, DispatchersHold, SerialInv, Routed, HasActivation, ModeOf
<1>3. \A c \in Dispatchers : c # d => disp'[c] = disp[c]
  BY <1>0 DEF Dispatch, GateAbortCancel, GateAbortPanic
<1>4. Routed(d)'
  <2>1. CASE Dispatch(d)
    <3>1. CASE disp' = [disp EXCEPT ![d] = Rest(d)]
      <4>1. disp'[d] = Rest(d)
        BY <1>0, <3>1
      <4> QED
        BY <1>0, <4>1, RoutedStays
    <3>2. CASE disp' = [disp EXCEPT ![d].pc = "gate", ![d].cfg = cfg[TriggerOf(disp[d].ctx)]]
      <4>1. /\ disp'[d].pc = "gate" /\ disp'[d].cfg = cfg[TriggerOf(disp[d].ctx)]
            /\ disp'[d].ctx = disp[d].ctx /\ disp'[d].at = disp[d].at
        BY <1>0, <3>2 DEF DispType
      <4> QED
        BY <1>0, <1>2, <4>1, RoutedMoves
    <3> QED
      BY <2>1, <3>1, <3>2 DEF Dispatch
  <2>2. CASE GateAbortCancel(d)
    <3>1. /\ disp'[d].pc = "await" /\ disp'[d].ctx = disp[d].ctx /\ disp'[d].at = disp[d].at
      BY <1>0, <2>2 DEF GateAbortCancel, DispType
    <3>2. cfg[TriggerOf(disp[d].at)].mode = "abort"
      BY <1>2, <2>2 DEF GateAbortCancel, AtGate
    <3> QED
      BY <1>0, <1>2, <3>1, <3>2, RoutedMoves
  <2>3. CASE GateAbortPanic(d)
    <3>1. disp'[d] = disp[d]
      BY <2>3 DEF GateAbortPanic
    <3> QED
      BY <3>1, RoutedStays
  <2> QED
    BY <2>1, <2>2, <2>3
<1>5. \A c \in Dispatchers : Routed(c)'
  <2>1. ASSUME NEW c \in Dispatchers, c # d PROVE Routed(c)'
    BY <1>3, <2>1, RoutedStays
  <2> QED
    BY <1>4, <2>1
<1> QED
  BY <1>1, <1>5, QuietSerial

\* All that is asked of a step at one activation, the others being left alone.
LEMMA SerialAt ==
  ASSUME TypeOK, SerialInv, SameRoles, NEW at \in 1..allocated,
         \A a \in Activations : a # at =>
           /\ act'[a].running = act[a].running /\ act'[a].queue = act[a].queue
           /\ Working(a)' = Working(a),
         Serial(at)', WorkersKnown', \A d \in Dispatchers : Routed(d)'
  PROVE  SerialInv'
<1>0. 1..allocated \subseteq Activations /\ allocated' = allocated
  BY Bounds DEF TypeOK, Activations, SameRoles
<1>1. ASSUME NEW a \in 1..allocated, a # at PROVE Serial(a)'
  <2>1. ModeOf(a)' = ModeOf(a) /\ Serial(a)
    BY <1>0 DEF SameRoles, ModeOf, TriggerOf, SerialInv
  <2>2. act'[a].running = act[a].running /\ act'[a].queue = act[a].queue /\ Working(a)' = Working(a)
    BY <1>0, <1>1
  <2> QED
    BY <2>1, <2>2 DEF Serial
<1>2. \A a \in 1..allocated' : Serial(a)'
  <2> SUFFICES ASSUME NEW a \in 1..allocated PROVE Serial(a)'
    BY <1>0
  <2>1. CASE a = at
    BY <2>1
  <2> QED
    BY <1>1, <2>1
<1> QED
  BY <1>2 DEF SerialInv

\* Without such changes the mode of an activation is fixed.
LEMMA ModesStay ==
  ASSUME TypeOK, SameRoles
  PROVE  \A a \in 1..allocated : ModeOf(a)' = ModeOf(a)
  BY Bounds DEF TypeOK, SameRoles, ModeOf, TriggerOf, Activations

\* A worker starts: in the queue and drop modes nobody is running.
LEMMA StartSerial ==
  ASSUME TypeOK, FlowInv, SerialInv, SameRoles, NEW d \in Dispatchers,
         disp[d].pc \in {"gate", "await"}, NEW kind, StartWorker(d, kind),
         kind = ModeOf(disp[d].at),
         \A a \in Activations : act'[a].queue = act[a].queue,
         \A a \in Activations : a # disp[d].at => act'[a].running = act[a].running,
         kind \in {"queue", "drop"} => ~act[disp[d].at].running /\ act'[disp[d].at].running
  PROVE  SerialInv'
<1>0. /\ disp \in [Dispatchers -> DispType] /\ worker \in [Events -> WorkerType]
      /\ disp[d].at \in 1..allocated /\ 1..allocated \subseteq Activations /\ allocated' = allocated
      /\ disp[d].ev \in Events
  BY Bounds, InHand DEF TypeOK, Activations, SameRoles, FlowInv, Holders, DispatchersHold,
     HasActivation, HasEvent
<1> PICK at \in 1..allocated : at = disp[d].at
  BY <1>0
<1> PICK e0 \in Events : e0 = disp[d].ev
  BY <1>0
<1>1. worker[e0].pc = "none"
  <2>1. <<"disp", d>> \in Places(e0)
    BY DEF Places, PlacesIn
  <2> QED
    BY <2>1 DEF FlowInv, OnePlace
<1>2. /\ \A w \in Events : w # e0 => worker'[w] = worker[w]
      /\ worker'[e0].pc = "begin" /\ worker'[e0].kind = kind /\ worker'[e0].at = at
  BY <1>0 DEF StartWorker
<1>3. /\ \A a \in Activations : a # at => Working(a)' = Working(a)
      /\ Working(at)' = Working(at) \union {e0}
  BY <1>1, <1>2 DEF Working, Live
<1>4. \A c \in Dispatchers : Routed(c)'
  <2>1. \A c \in Dispatchers : disp'[c] = IF c = d THEN Rest(d) ELSE disp[c]
    BY <1>0 DEF StartWorker
  <2>2. \A c \in Dispatchers : disp'[c] = disp[c] \/ (disp[c].pc # "none" /\ disp'[c] = Rest(c))
    BY <2>1
  <2> QED
    BY <2>2, RoutedStays
<1>5. WorkersKnown'
  <2>0. \A a \in 1..allocated : cfg'[act'[a].trigger].mode = ModeOf(a)
    BY <1>0 DEF ModeOf, TriggerOf, SameRoles
  <2> SUFFICES ASSUME NEW w \in Events, (Live(w))'
               PROVE  /\ worker'[w].at \in 1..allocated
                      /\ worker'[w].kind = cfg'[act'[worker'[w].at].trigger].mode
    BY <1>0 DEF WorkersKnown, ModeOf, TriggerOf
  <2>1. CASE w = e0
    BY <1>2, <2>0, <2>1
  <2>2. CASE w # e0
    <3>1. Live(w) /\ worker'[w] = worker[w]
      BY <1>2, <2>2 DEF Live
    <3>2. worker[w].at \in 1..allocated /\ worker[w].kind = ModeOf(worker[w].at)
      BY <3>1 DEF SerialInv, WorkersKnown
    <3> QED
      BY <2>0, <3>1, <3>2
  <2> QED
    BY <2>1, <2>2
<1>6. Serial(at)'
  <2>1. Serial(at) /\ ModeOf(at)' = ModeOf(at) /\ act'[at].queue = act[at].queue
    BY <1>0, ModesStay DEF SerialInv
  <2>2. CASE kind \in {"queue", "drop"}
    <3>1. ~act[at].running /\ act'[at].running /\ Working(at) = {}
      BY <2>1, <2>2 DEF Serial
    <3>2. Working(at)' = {e0} /\ act[at].queue = <<>>
      BY <1>3, <2>1, <3>1 DEF Serial
    <3> QED
      BY <2>1, <3>1, <3>2 DEF Serial
  <2>3. CASE kind \notin {"queue", "drop"}
    <3>1. act[at].queue = <<>>
      BY <2>1, <2>3 DEF Serial
    <3> QED
      BY <2>1, <2>3, <3>1 DEF Serial
  <2> QED
    BY <2>2, <2>3
<1> QED
  BY <1>0, <1>3, <1>4, <1>5, <1>6, SerialAt

\* An event that is dropped or queued; nobody starts and nobody ends.
LEMMA EnqueueSerial ==
  ASSUME TypeOK, FlowInv, SerialInv, SameRoles, NEW d \in Dispatchers, disp[d].pc = "gate",
         disp' = [disp EXCEPT ![d] = Rest(d)], worker' = worker,
         \A a \in Activations : act'[a].running = act[a].running,
         \A a \in Activations : a # disp[d].at => act'[a].queue = act[a].queue,
         \/ act'[disp[d].at].queue = act[disp[d].at].queue
         \/ ModeOf(disp[d].at) = "queue" /\ act[disp[d].at].running
  PROVE  SerialInv'
<1>0. /\ disp \in [Dispatchers -> DispType]
      /\ disp[d].at \in 1..allocated /\ 1..allocated \subseteq Activations /\ allocated' = allocated
  BY Bounds DEF TypeOK, Activations, SameRoles, FlowInv, Holders, DispatchersHold, HasActivation
<1> PICK at \in 1..allocated : at = disp[d].at
  BY <1>0
<1>1. \A a \in Activations : Working(a)' = Working(a)
  BY DEF Working, Live
<1>2. \A c \in Dispatchers : Routed(c)'
  <2>1. \A c \in Dispatchers : disp'[c] = disp[c] \/ (disp[c].pc # "none" /\ disp'[c] = Rest(c))
    BY <1>0
  <2> QED
    BY <2>1, RoutedStays
<1>3. WorkersKnown'
  BY <1>0 DEF SerialInv, WorkersKnown, Live, ModeOf, TriggerOf, SameRoles
<1>4. Serial(at)'
  <2>1. Serial(at) /\ ModeOf(at)' = ModeOf(at) /\ Working(at)' = Working(at)
        /\ act'[at].running = act[at].running
    BY <1>0, <1>1, ModesStay DEF SerialInv
  <2>2. act'[at].queue = act[at].queue \/ (ModeOf(at) = "queue" /\ act[at].running)
    OBVIOUS
  <2> QED
    BY <2>1, <2>2 DEF Serial
<1> QED
  BY <1>0, <1>1, <1>2, <1>3, <1>4, SerialAt

\* A worker ends.
LEMMA EndSerial ==
  ASSUME TypeOK, SerialInv, FlowInv, SameRoles, NEW w \in Events, worker[w].pc = "end",
         worker' = [worker EXCEPT ![w] = Returned], disp' = disp,
         \A a \in Activations : act'[a].queue = act[a].queue,
         \A a \in Activations : a # worker[w].at => act'[a].running = act[a].running,
         worker[w].kind \in {"queue", "drop"} => ~act'[worker[w].at].running,
         worker[w].kind = "queue" => act[worker[w].at].queue = <<>>
  PROVE  SerialInv'
<1>0. /\ worker \in [Events -> WorkerType] /\ Live(w)
      /\ 1..allocated \subseteq Activations /\ allocated' = allocated
  BY Bounds DEF TypeOK, Activations, SameRoles, Live
<1>a. worker[w].at \in 1..allocated /\ worker[w].kind = ModeOf(worker[w].at)
  BY <1>0 DEF SerialInv, WorkersKnown
<1> PICK at \in 1..allocated : at = worker[w].at
  BY <1>a
<1>1. /\ \A v \in Events : v # w => worker'[v] = worker[v]
      /\ worker'[w].pc = "done"
  BY <1>0 DEF Returned, NoWorker
<1>2. /\ \A a \in Activations : a # at => Working(a)' = Working(a)
      /\ Working(at)' = Working(at) \ {w} /\ w \in Working(at)
  BY <1>0, <1>1 DEF Working, Live
<1>3. \A c \in Dispatchers : Routed(c)'
  BY RoutedStays
<1>4. WorkersKnown'
  BY <1>0, <1>1 DEF SerialInv, WorkersKnown, Live, ModeOf, TriggerOf, SameRoles
<1>5. Serial(at)'
  <2>1. Serial(at) /\ ModeOf(at)' = ModeOf(at) /\ act'[at].queue = act[at].queue
    BY <1>0, ModesStay DEF SerialInv
  <2>2. act[at].queue = <<>>
    BY <1>a, <2>1 DEF Serial
  <2>3. CASE ModeOf(at) \in {"queue", "drop"}
    <3>1. Working(at)' = {} /\ ~act'[at].running
      BY <1>a, <1>2, <2>1, <2>3 DEF Serial
    <3> QED
      BY <2>1, <2>2, <3>1 DEF Serial
  <2>4. CASE ModeOf(at) \notin {"queue", "drop"}
    BY <2>1, <2>2, <2>4 DEF Serial
  <2> QED
    BY <2>3, <2>4
<1> QED
  BY <1>0, <1>2, <1>3, <1>4, <1>5, SerialAt

\* The steps of a worker: it goes on, drains the queue, or ends.
LEMMA WorkerSerial ==
  ASSUME TypeOK, FlowInv, SerialInv, SameRoles, NEW w \in Events, WorkerStep(w)
  PROVE  SerialInv'
<1>0. /\ worker \in [Events -> WorkerType] /\ act \in [Activations -> ActType] /\ disp' = disp
      /\ \A a \in Activations : act[a] \in ActType
      /\ 1..allocated \subseteq Activations /\ allocated' = allocated
  BY Bounds DEF TypeOK, Activations, SameRoles, WorkerStep, WorkerBegin, WorkerExec, WorkerEnd,
     WorkerEndParallel, WorkerEndDrop, WorkerEndAbort, WorkerEndQueue
<1>1. Live(w) /\ worker[w].at \in 1..allocated /\ worker[w].kind = ModeOf(worker[w].at)
  <2>1. Live(w)
    BY DEF Live, WorkerStep, WorkerBegin, WorkerExec, WorkerEnd, WorkerEndParallel, WorkerEndDrop,
       WorkerEndAbort, WorkerEndQueue
  <2> QED
    BY <2>1 DEF SerialInv, WorkersKnown
<1> PICK at \in 1..allocated : at = worker[w].at
  BY <1>1
<1>2. \A d \in Dispatchers : Routed(d)'
  BY <1>0, RoutedStays
<1>3. CASE WorkerBegin(w) \/ WorkerExec(w)
  <2>1. \E pc \in {"exec", "end"} : worker' = [worker EXCEPT ![w].pc = pc]
    BY <1>3 DEF WorkerBegin, WorkerExec
  <2>2. act' = act
    BY <1>3 DEF WorkerBegin, WorkerExec
  <2>3. SameWork
    BY <1>0, <1>1, <2>1, <2>2 DEF SameWork, Live, WorkerType
  <2> QED
    BY <1>2, <2>3, QuietSerial
<1>4. CASE WorkerEndParallel(w)
  <2>1. act' = act
    BY <1>4 DEF WorkerEndParallel
  <2> QED
    BY <1>0, <1>4, <2>1, EndSerial DEF WorkerEndParallel
<1>5. CASE WorkerEndDrop(w)
  <2>1. act' = [act EXCEPT ![at].running = FALSE]
    BY <1>5 DEF WorkerEndDrop
  <2>2. /\ \A a \in Activations : act'[a].queue = act[a].queue
        /\ \A a \in Activations : a # at => act'[a].running = act[a].running
        /\ act'[at].running = FALSE
    BY <1>0, <2>1 DEF ActType
  <2> QED
    BY <1>0, <1>5, <2>2, EndSerial DEF WorkerEndDrop
<1>6. CASE WorkerEndAbort(w)
  <2>1. act' = [act EXCEPT ![at].running = FALSE, ![at].abort = Nil]
    BY <1>6 DEF WorkerEndAbort
  <2>2. /\ \A a \in Activations : act'[a].queue = act[a].queue
        /\ \A a \in Activations : a # at => act'[a].running = act[a].running
        /\ act'[at].running = FALSE
    BY <1>0, <2>1 DEF ActType
  <2> QED
    BY <1>0, <1>6, <2>2, EndSerial DEF WorkerEndAbort
<1>7. CASE WorkerEndQueue(w) /\ act[at].queue = <<>>
  <2>1. /\ act' = [act EXCEPT ![at].running = FALSE] /\ worker[w].pc = "end"
        /\ worker' = [worker EXCEPT ![w] = Returned]
    BY <1>7 DEF WorkerEndQueue
  <2>2. /\ \A a \in Activations : act'[a].queue = act[a].queue
        /\ \A a \in Activations : a # at => act'[a].running = act[a].running
        /\ act'[at].running = FALSE
    BY <1>0, <2>1 DEF ActType
  <2> QED
    BY <1>0, <1>7, <2>1, <2>2, EndSerial
<1>8. CASE WorkerEndQueue(w) /\ act[at].queue # <<>>
  <2>1. /\ act' = [act EXCEPT ![at].queue = Tail(act[at].queue)] /\ worker[w].kind = "queue"
        /\ worker' = [worker EXCEPT ![w].pc = "begin", ![w].ev = Head(act[at].queue)]
    BY <1>8 DEF WorkerEndQueue
  <2>2. /\ \A a \in Activations : act'[a].running = act[a].running
        /\ \A a \in Activations : a # at => act'[a].queue = act[a].queue
    BY <1>0, <2>1 DEF ActType
  <2>3. \A v \in Events : /\ (Live(v))' <=> Live(v)
                          /\ worker'[v].at = worker[v].at /\ worker'[v].kind = worker[v].kind
    BY <1>0, <1>1, <2>1 DEF Live, WorkerType
  <2>4. \A a \in Activations : Working(a)' = Working(a)
    BY <2>3 DEF Working
  <2>5. WorkersKnown'
    <3>1. \A a \in 1..allocated : cfg'[act'[a].trigger].mode = ModeOf(a)
      BY <1>0 DEF ModeOf, TriggerOf, SameRoles
    <3> QED
      BY <1>0, <2>3, <3>1 DEF SerialInv, WorkersKnown, ModeOf, TriggerOf
  <2>6. Serial(at)'
    <3>1. /\ Serial(at) /\ ModeOf(at)' = ModeOf(at) /\ Working(at)' = Working(at)
          /\ act'[at].running = act[at].running
      BY <1>0, <2>2, <2>4, ModesStay DEF SerialInv
    <3>2. ModeOf(at) = "queue" /\ act[at].running
      BY <1>8, <3>1 DEF Serial
    <3> QED
      BY <3>1, <3>2 DEF Serial
  <2> QED
    BY <1>0, <1>2, <2>2, <2>4, <2>5, <2>6, SerialAt
<1> QED
  BY <1>3, <1>4, <1>5, <1>6, <1>7, <1>8 DEF WorkerStep, WorkerEnd

\* At the gate.
LEMMA GateSerial ==
  ASSUME TypeOK, FlowInv, SerialInv, SameRoles, NEW d \in Dispatchers,
         \/ GateParallel(d) \/ GateDrop(d) \/ GateQueue(d) \/ GateAbort(d) \/ AbortResume(d)
  PROVE  SerialInv'
<1>0. /\ act \in [Activations -> ActType] /\ disp[d].pc \in {"gate", "await"}
      /\ \A a \in Activations : act[a] \in ActType
      /\ disp[d].at \in 1..allocated /\ 1..allocated \subseteq Activations
  BY Bounds DEF TypeOK, Activations, FlowInv, Holders, DispatchersHold, HasActivation,
     GateParallel, GateDrop, GateQueue, GateAbort, AbortResume, AtGate
<1> PICK at \in 1..allocated : at = disp[d].at
  BY <1>0
<1>1. /\ disp[d].pc = "gate" => disp[d].cfg.mode = ModeOf(at)
      /\ disp[d].pc = "await" => ModeOf(at) = "abort"
  BY DEF SerialInv, Routed
<1>2. ASSUME act' = [act EXCEPT ![at].running = TRUE]
      PROVE  /\ \A a \in Activations : act'[a].queue = act[a].queue
             /\ \A a \in Activations : a # at => act'[a].running = act[a].running
             /\ act'[at].running = TRUE
  BY <1>0, <1>2 DEF ActType
<1>3. CASE GateParallel(d)
  <2>1. act' = act /\ ModeOf(at) = "parallel" /\ StartWorker(d, "parallel")
    BY <1>1, <1>3 DEF GateParallel, AtGate
  <2> QED
    BY <1>0, <2>1, StartSerial
<1>4. CASE GateDrop(d)
  <2>1. ModeOf(at) = "drop" /\ disp[d].pc = "gate"
    BY <1>1, <1>4 DEF GateDrop, AtGate
  <2>2. CASE act[at].running
    <3>1. disp' = [disp EXCEPT ![d] = Rest(d)] /\ act' = act /\ worker' = worker
      BY <1>4, <2>2 DEF GateDrop
    <3> QED
      BY <2>1, <3>1, EnqueueSerial
  <2>3. CASE ~act[at].running
    <3>1. act' = [act EXCEPT ![at].running = TRUE] /\ StartWorker(d, "drop")
      BY <1>4, <2>3 DEF GateDrop
    <3> QED
      BY <1>0, <1>2, <2>1, <2>3, <3>1, StartSerial
  <2> QED
    BY <2>2, <2>3
<1>5. CASE GateQueue(d)
  <2>1. ModeOf(at) = "queue" /\ disp[d].pc = "gate"
    BY <1>1, <1>5 DEF GateQueue, AtGate
  <2>2. CASE ~act[at].running
    <3>1. act' = [act EXCEPT ![at].running = TRUE] /\ StartWorker(d, "queue")
      BY <1>5, <2>2 DEF GateQueue
    <3> QED
      BY <1>0, <1>2, <2>1, <2>2, <3>1, StartSerial
  <2>3. CASE act[at].running
    <3>1. disp' = [disp EXCEPT ![d] = Rest(d)] /\ worker' = worker
      BY <1>5, <2>3 DEF GateQueue
    <3>2. act' = act \/ act' = [act EXCEPT ![at].queue = Append(act[at].queue, disp[d].ev)]
      BY <1>0, <1>5, <2>3 DEF GateQueue
    <3>3. /\ \A a \in Activations : act'[a].running = act[a].running
          /\ \A a \in Activations : a # at => act'[a].queue = act[a].queue
      BY <1>0, <3>2, SMTT(30) DEF ActType
    <3> QED
      BY <2>1, <2>3, <3>1, <3>3, EnqueueSerial
  <2> QED
    BY <2>2, <2>3
<1>6. CASE GateAbort(d) \/ AbortResume(d)
  <2>1. ModeOf(at) = "abort" /\ StartAbortWorker(d)
    BY <1>1, <1>6 DEF GateAbort, AbortResume, AtGate
  <2>2. act' = [act EXCEPT ![at].running = TRUE, ![at].abort = disp[d].ev] /\ StartWorker(d, "abort")
    BY <2>1 DEF StartAbortWorker
  <2>3. /\ \A a \in Activations : act'[a].queue = act[a].queue
        /\ \A a \in Activations : a # at => act'[a].running = act[a].running
    BY <1>0, <2>2 DEF ActType
  <2> QED
    BY <1>0, <2>1, <2>2, <2>3, StartSerial
<1> QED
  BY <1>3, <1>4, <1>5, <1>6

\* A new activation has no worker, nothing queued and is not running.
LEMMA ActivateSerial ==
  ASSUME TypeOK, FlowInv, SerialInv, NEW t \in Triggers, Activate(t)
  PROVE  SerialInv'
<1>0. /\ act \in [Activations -> ActType] /\ disp \in [Dispatchers -> DispType]
      /\ allocated \in Nat /\ allocated' = allocated + 1 /\ allocated + 1 \in Activations
      /\ act' = [act EXCEPT ![allocated + 1] = NewAct(t)]
      /\ disp' = [disp EXCEPT ![Loop(allocated + 1)] = Dispatcher("select", allocated + 1)]
      /\ worker' = worker /\ cfg' = cfg
      /\ 1..allocated \subseteq Activations /\ 1..allocated \subseteq 1..(allocated + 1)
  BY Bounds DEF TypeOK, Activate, Activations, registry
<1> PICK a \in Activations : a = allocated + 1
  BY <1>0
<1>1. /\ a \notin 1..allocated /\ a \in 1..(allocated + 1)
      /\ \A b \in 1..(allocated + 1) : b = a \/ b \in 1..allocated
  BY <1>0
<1>2. /\ \A b \in 1..allocated : act'[b] = act[b]
      /\ act'[a].queue = <<>> /\ act'[a].running = FALSE
  BY <1>0, <1>1 DEF NewAct
<1>3. /\ \A d \in Dispatchers : d # Loop(a) => disp'[d] = disp[d]
      /\ Loop(a) \in Dispatchers /\ disp'[Loop(a)].pc = "select" /\ disp'[Loop(a)].ctx = a
  BY <1>0, LoopIn DEF Dispatcher
<1>4. \A b \in 1..allocated : cfg'[act'[b].trigger].mode = ModeOf(b) /\ act'[b].trigger = act[b].trigger
  BY <1>0, <1>2 DEF ModeOf, TriggerOf
<1>5. \A d \in Dispatchers : Routed(d)'
  <2>1. Routed(Loop(a))'
    <3>1. \A b \in Activations : Loop(a) = Loop(b) => b = a
      BY DEF Loop
    <3> QED
      BY <1>0, <1>1, <1>3, <3>1 DEF Routed, HasActivation
  <2>2. ASSUME NEW d \in Dispatchers, d # Loop(a) PROVE Routed(d)'
    <3>1. /\ disp'[d] = disp[d] /\ Routed(d)
          /\ disp[d].pc \in HasActivation => disp[d].at \in 1..allocated
      BY <1>3, <2>2 DEF SerialInv, FlowInv, Holders, DispatchersHold
    <3>2. disp[d].pc # "none" => disp[d].ctx \in 1..allocated
      BY <3>1 DEF Routed
    <3> QED
      BY <1>0, <1>4, <3>1, <3>2 DEF Routed, ModeOf, TriggerOf, HasActivation
  <2> QED
    BY <2>1, <2>2
<1>6. WorkersKnown'
  BY <1>0, <1>4 DEF SerialInv, WorkersKnown, Live, ModeOf, TriggerOf
<1>7. \A b \in Activations : Working(b)' = Working(b)
  BY <1>0 DEF Working, Live
<1>8. ASSUME NEW b \in 1..allocated PROVE Serial(b)'
  <2>1. /\ Serial(b) /\ ModeOf(b)' = ModeOf(b) /\ Working(b)' = Working(b) /\ act'[b] = act[b]
    BY <1>0, <1>2, <1>4, <1>7 DEF SerialInv, ModeOf, TriggerOf
  <2> QED
    BY <2>1 DEF Serial
<1>9. Serial(a)'
  <2>1. Working(a)' = {}
    BY <1>1, <1>7 DEF Working, SerialInv, WorkersKnown
  <2> QED
    BY <1>2, <2>1 DEF Serial
<1> QED
  BY <1>0, <1>1, <1>5, <1>6, <1>8, <1>9 DEF SerialInv

\* Every step keeps the invariant, if the user changes no settings.
LEMMA SerialStep ==
  ASSUME ~Reconfigure, TypeOK, OneLiveInv, FlowInv, SerialInv, [Next]_vars
  PROVE  SerialInv'
<1>1. CASE \E t \in Triggers : Activate(t)
  BY <1>1, ActivateSerial
<1>2. CASE \A t \in Triggers : ~Activate(t)
  <2>1. SameRoles
    BY <1>2, RolesKept
  <2>2. ASSUME NEW d \in Dispatchers, DispatchStep(d) PROVE SerialInv'
    BY <2>1, <2>2, DispatchSerial, GateSerial DEF DispatchStep, Gate
  <2> QED
    BY <1>2, <2>1, <2>2, OutsideSerial, LoopSerial, TimerSerial, WorkerSerial DEF Next
<1> QED
  BY <1>1, <1>2

\* At the start nothing is activated and nobody works.
LEMMA SerialInit == Init => SerialInv
<1> SUFFICES ASSUME Init PROVE SerialInv
  OBVIOUS
<1>1. /\ \A d \in Dispatchers : disp[d].pc = "none"
      /\ \A e \in Events : worker[e].pc = "none"
      /\ allocated = 0
  BY DEF Init, Dispatcher, NoWorker
<1> QED
  BY <1>1 DEF SerialInv, Routed, WorkersKnown, Live, HasActivation

\* So it always holds.
LEMMA SerialInvariant ==
  ASSUME ~Reconfigure
  PROVE  Spec => [](TypeOK /\ SerialInv)
<1>1. TypeOK /\ OneLiveInv /\ FlowInv /\ SerialInv /\ [Next]_vars
        => (TypeOK /\ OneLiveInv /\ FlowInv /\ SerialInv)'
  BY StepType, StepOneLive, FlowStep, SerialStep
<1> QED
  BY InitType, InitOneLive, FlowInit, SerialInit, <1>1, PTL DEF Spec

\* As long as the user does not change a trigger's settings, at.running keeps the drop and
\* queue modes to one worker at a time (engine.go dispatchWithConcurrency, enqueueAndDrain).
THEOREM WorkAlwaysSerial ==
  ASSUME ~Reconfigure
  PROVE  Spec => []SerialWork
<1>1. TypeOK /\ SerialInv => SerialWork
  <2> SUFFICES ASSUME TypeOK, SerialInv, NEW e \in Events, NEW f \in Events, Live(e), Live(f),
                      worker[e].at = worker[f].at,
                      {worker[e].kind, worker[f].kind} \subseteq {"queue", "drop"}
               PROVE  e = f
    BY DEF SerialWork
  <2> PICK a : a = worker[e].at
    OBVIOUS
  <2>1. a \in 1..allocated /\ ModeOf(a) \in {"queue", "drop"}
    BY DEF SerialInv, WorkersKnown
  <2>2. e \in Working(a) /\ f \in Working(a) /\ Serial(a)
    BY <2>1 DEF Working, SerialInv
  <2> QED
    BY <2>1, <2>2 DEF Serial
<1> QED
  BY <1>1, SerialInvariant, PTL

\* Then, too, a queued event always has a worker that will come to take it.
THEOREM NothingStranded ==
  ASSUME ~Reconfigure
  PROVE  Spec => []NoStrandedEvent
<1>1. TypeOK /\ SerialInv => NoStrandedEvent
  <2> SUFFICES ASSUME SerialInv, NEW a \in 1..allocated, act[a].queue # <<>>
               PROVE  \E e \in Events : Live(e) /\ worker[e].at = a
    BY DEF NoStrandedEvent
  <2>1. Serial(a)
    BY DEF SerialInv
  <2>2. Working(a) # {}
    BY <2>1 DEF Serial
  <2> QED
    BY <2>2 DEF Working
<1> QED
  BY <1>1, SerialInvariant, PTL

-----------------------------------------------------------------------------
(* The order of events. *)

\* Events that have left the channel of the driver that produced them.
Received(a) == {f \in 1..produced : origin[f] = a /\ f \notin Range(chan[a])}

\* A channel has events of its driver, oldest first; what a loop has in hand is the newest
\* event that has left its channel, and what is left in the channel is newer.
Arrivals(a) ==
  /\ \A e \in Range(chan[a]) : origin[e] = a /\ e <= produced
  /\ \A i, j \in DOMAIN chan[a] : i < j => chan[a][i] < chan[a][j]
  /\ \A e \in Range(chan[a]) : \A f \in Received(a) : f < e
  /\ disp[Loop(a)].ev # Nil =>
       origin[disp[Loop(a)].ev] = a /\ \A f \in Received(a) : f <= disp[Loop(a)].ev

\* The queue mode is without debounce.
Undebounced == \A c \in Configs : c.mode = "queue" => ~c.debounce

\* So timer callbacks work for triggers of another mode.
TimersElsewhere ==
  /\ \A a \in Activations : disp[Loop(a)].pc = "lookup" => disp[Loop(a)].cfg = cfg[TriggerOf(a)]
  /\ \A a \in Activations : disp[Loop(a)].pc = "arm" => ModeOf(a) # "queue"
  /\ \A e \in Events : disp[Timer(e)].pc # "none" => ModeOf(disp[Timer(e)].ctx) # "queue"

\* What HandledInOrder says of one activation.
InOrder(a) ==
  LET q == act[a].queue IN
  /\ \A i, j \in DOMAIN q : i < j /\ origin[q[i]] = origin[q[j]] => q[i] < q[j]
  /\ \A w \in Working(a), i \in DOMAIN q : origin[worker[w].ev] = origin[q[i]] => worker[w].ev < q[i]

\* The inductive invariant behind HandledInOrder.
OrderInv ==
  /\ \A a \in Activations : Arrivals(a)
  /\ TimersElsewhere
  /\ \A a \in 1..allocated : InOrder(a)

-----------------------------------------------------------------------------
(* Steps that take nothing from a channel. *)

\* A loop keeps its event or lets go of it, and begins to look up or to arm nothing; a timer
\* callback goes on in its context.
LoopsQuiet ==
  \A a \in Activations :
    /\ disp'[Loop(a)].ev \in {disp[Loop(a)].ev, Nil}
    /\ disp'[Loop(a)].pc \in {"lookup", "arm"} => disp'[Loop(a)] = disp[Loop(a)]

TimersQuiet ==
  \A e \in Events : disp'[Timer(e)].pc # "none" =>
    disp[Timer(e)].pc # "none" /\ disp'[Timer(e)].ctx = disp[Timer(e)].ctx

\* The dispatcher d goes on, the others do not or are stopped.
LEMMA OneGoesOn ==
  ASSUME NEW d \in Dispatchers,
         \A c \in Dispatchers : c # d => disp'[c] = disp[c] \/ disp'[c] = Dispatcher("none", Nil),
         disp'[d].ev \in {disp[d].ev, Nil},
         disp'[d].pc \notin {"lookup", "arm"} \/ disp'[d] = disp[d],
         disp[d].pc # "none",
         disp'[d].ctx = disp[d].ctx \/ disp'[d].pc = "none" \/ \E a \in Activations : d = Loop(a)
  PROVE  LoopsQuiet /\ TimersQuiet
<1>1. Dispatcher("none", Nil).ev = Nil /\ Dispatcher("none", Nil).pc = "none"
  BY DEF Dispatcher
<1>2. LoopsQuiet
  BY <1>1, LoopIn DEF LoopsQuiet
<1>3. \A a \in Activations, e \in Events : Loop(a) # Timer(e)
  BY DEF Loop, Timer
<1>4. TimersQuiet
  BY <1>1, <1>3, TimerIn DEF TimersQuiet
<1> QED
  BY <1>2, <1>4

LEMMA SameQuiet == disp' = disp => LoopsQuiet /\ TimersQuiet
  BY DEF LoopsQuiet, TimersQuiet

LEMMA StoppedQuiet ==
  ASSUME NEW at, disp' = AfterTimerStop(at)
  PROVE  LoopsQuiet /\ TimersQuiet
<1>1. \A d \in Dispatchers : disp'[d] = disp[d] \/ disp'[d] = Dispatcher("none", Nil)
  BY DEF AfterTimerStop
<1>2. Dispatcher("none", Nil).ev = Nil /\ Dispatcher("none", Nil).pc = "none"
  BY DEF Dispatcher
<1> QED
  BY <1>1, <1>2, LoopIn, TimerIn DEF LoopsQuiet, TimersQuiet

LEMMA RestingQuiet ==
  ASSUME TypeOK, NEW d \in Dispatchers, disp[d].pc # "none", disp' = [disp EXCEPT ![d] = Rest(d)]
  PROVE  LoopsQuiet /\ TimersQuiet
<1>1. disp \in [Dispatchers -> DispType]
  BY DEF TypeOK
<1>2. disp'[d] = Rest(d) /\ \A c \in Dispatchers : c # d => disp'[c] = disp[c]
  BY <1>1
<1>3. Rest(d).pc = "none" \/ \E a \in Activations : d = Loop(a)
  <2>1. ASSUME NEW e \in Events, d = Timer(e) PROVE Rest(d).pc = "none"
    BY <2>1 DEF Rest, Timer, Dispatcher
  <2> QED
    BY <2>1 DEF Dispatchers
<1> QED
  BY <1>2, <1>3, Resting, OneGoesOn

LEMMA EndingQuiet ==
  ASSUME TypeOK, NEW d \in Dispatchers, disp[d].pc # "none",
         disp' = [disp EXCEPT ![d] = Dispatcher("none", Nil)]
  PROVE  LoopsQuiet /\ TimersQuiet
<1>1. disp \in [Dispatchers -> DispType]
  BY DEF TypeOK
<1>2. disp'[d].pc = "none" /\ disp'[d].ev = Nil /\ \A c \in Dispatchers : c # d => disp'[c] = disp[c]
  BY <1>1 DEF Dispatcher
<1> QED
  BY <1>2, OneGoesOn

LEMMA DispatchQuiet ==
  ASSUME TypeOK, NEW d \in Dispatchers, DispatchStep(d)
  PROVE  LoopsQuiet /\ TimersQuiet
<1>0. disp \in [Dispatchers -> DispType] /\ disp[d] \in DispType
  BY DEF TypeOK
<1>1. disp[d].pc \in {"dispatch", "gate", "await"}
  BY DEF DispatchStep, Dispatch, Gate, GateParallel, GateDrop, GateQueue, GateAbort, GateAbortCancel,
     GateAbortPanic, AbortResume, AtGate
<1>2. CASE disp' = disp
  BY <1>2, SameQuiet
<1>3. CASE disp' = [disp EXCEPT ![d] = Rest(d)]
  BY <1>1, <1>3, RestingQuiet
<1>4. ASSUME NEW c, disp' = [disp EXCEPT ![d].pc = "gate", ![d].cfg = c]
      PROVE  LoopsQuiet /\ TimersQuiet
  <2>1. /\ disp'[d].ev = disp[d].ev /\ disp'[d].ctx = disp[d].ctx /\ disp'[d].pc = "gate"
        /\ \A b \in Dispatchers : b # d => disp'[b] = disp[b]
    BY <1>0, <1>4 DEF DispType
  <2> QED
    BY <1>1, <2>1, OneGoesOn
<1>5. ASSUME NEW v, disp' = [disp EXCEPT ![d].pc = "await", ![d].awaits = v]
      PROVE  LoopsQuiet /\ TimersQuiet
  <2>1. /\ disp'[d].ev = disp[d].ev /\ disp'[d].ctx = disp[d].ctx /\ disp'[d].pc = "await"
        /\ \A b \in Dispatchers : b # d => disp'[b] = disp[b]
    BY <1>0, <1>5 DEF DispType
  <2> QED
    BY <1>1, <2>1, OneGoesOn
<1>6. \/ disp' = disp \/ disp' = [disp EXCEPT ![d] = Rest(d)]
      \/ \E c : disp' = [disp EXCEPT ![d].pc = "gate", ![d].cfg = c]
      \/ \E v : disp' = [disp EXCEPT ![d].pc = "await", ![d].awaits = v]
  <2>1. CASE Dispatch(d)
    BY <2>1 DEF Dispatch
  <2>2. CASE GateAbortCancel(d)
    BY <2>2 DEF GateAbortCancel
  <2>3. CASE GateAbortPanic(d)
    BY <2>3 DEF GateAbortPanic
  <2>4. CASE GateParallel(d) \/ GateDrop(d) \/ GateQueue(d) \/ GateAbort(d) \/ AbortResume(d)
    BY <2>4 DEF GateParallel, GateDrop, GateQueue, GateAbort, AbortResume, StartAbortWorker, StartWorker
  <2> QED
    BY <2>1, <2>2, <2>3, <2>4 DEF DispatchStep, Gate
<1> QED
  BY <1>2, <1>3, <1>4, <1>5, <1>6

\* Of a loop's steps only the receipt, the look-up and the arming of a timer are not quiet.
LEMMA LoopQuiet ==
  ASSUME TypeOK, NEW a \in Activations,
         LoopCancelled(a) \/ LoopClosed(a) \/ LoopError(a) \/ LoopDeactivate(a)
  PROVE  LoopsQuiet /\ TimersQuiet
<1>0. disp \in [Dispatchers -> DispType] /\ Loop(a) \in Dispatchers /\ disp[Loop(a)] \in DispType
  BY LoopIn DEF TypeOK
<1>1. disp[Loop(a)].pc \in {"select", "error", "deactivate"}
  BY DEF LoopCancelled, LoopClosed, LoopError, LoopDeactivate
<1>2. CASE disp' = [disp EXCEPT ![Loop(a)] = Dispatcher("none", Nil)]
  BY <1>0, <1>1, <1>2, EndingQuiet
<1>3. CASE disp' = [disp EXCEPT ![Loop(a)].pc = "error"]
  <2>1. /\ disp'[Loop(a)].ev = disp[Loop(a)].ev /\ disp'[Loop(a)].pc = "error"
        /\ \A b \in Dispatchers : b # Loop(a) => disp'[b] = disp[b]
    BY <1>0, <1>3 DEF DispType
  <2> QED
    BY <1>0, <1>1, <2>1, OneGoesOn
<1>4. CASE disp' = [disp EXCEPT ![Loop(a)] = Dispatcher("deactivate", a)]
  <2>1. /\ disp'[Loop(a)].ev = Nil /\ disp'[Loop(a)].pc = "deactivate"
        /\ \A b \in Dispatchers : b # Loop(a) => disp'[b] = disp[b]
    BY <1>0, <1>4 DEF Dispatcher
  <2> QED
    BY <1>0, <1>1, <2>1, OneGoesOn
<1>5. ASSUME NEW at, disp' = [AfterTimerStop(at) EXCEPT ![Loop(a)] = Dispatcher("none", Nil)]
      PROVE  LoopsQuiet /\ TimersQuiet
  <2>1. /\ disp'[Loop(a)].ev = Nil /\ disp'[Loop(a)].pc = "none"
        /\ \A b \in Dispatchers : b # Loop(a) => disp'[b] = disp[b] \/ disp'[b] = Dispatcher("none", Nil)
    BY <1>0, <1>5 DEF Dispatcher, AfterTimerStop
  <2> QED
    BY <1>0, <1>1, <2>1, OneGoesOn
<1> QED
  BY <1>2, <1>3, <1>4, <1>5 DEF LoopCancelled, LoopClosed, LoopError, LoopDeactivate

LEMMA TimerQuiet ==
  ASSUME TypeOK, NEW e \in Events, TimerStep(e)
  PROVE  LoopsQuiet /\ TimersQuiet
<1>0. disp \in [Dispatchers -> DispType] /\ Timer(e) \in Dispatchers /\ disp[Timer(e)] \in DispType
  BY TimerIn DEF TypeOK
<1>1. disp[Timer(e)].pc \in {"armed", "fired"}
  BY DEF TimerStep, TimerFire, TimerTake
<1>2. /\ \A b \in Dispatchers : b # Timer(e) => disp'[b] = disp[b]
      /\ disp'[Timer(e)].pc = "none" \/ disp'[Timer(e)].ctx = disp[Timer(e)].ctx
      /\ disp'[Timer(e)].pc \in {"none", "fired", "dispatch"}
  <2>1. CASE TimerFire(e)
    BY <1>0, <2>1 DEF TimerFire, DispType
  <2>2. CASE TimerTake(e)
    <3>1. \/ disp' = [disp EXCEPT ![Timer(e)] = Dispatcher("none", Nil)]
          \/ \E v : disp' = [disp EXCEPT ![Timer(e)] = [disp[Timer(e)] EXCEPT !.pc = "dispatch", !.ev = v]]
      BY <2>2 DEF TimerTake
    <3>2. Dispatcher("none", Nil).pc = "none"
      BY DEF Dispatcher
    <3> QED
      BY <1>0, <3>1, <3>2 DEF DispType
  <2> QED
    BY <2>1, <2>2 DEF TimerStep
<1>3. \A a \in Activations : disp'[Loop(a)] = disp[Loop(a)]
  BY <1>2, LoopIn DEF Loop, Timer
<1>4. TimersQuiet
  BY <1>1, <1>2, TimerIn DEF TimersQuiet
<1> QED
  BY <1>3, <1>4 DEF LoopsQuiet

\* Every step but three kinds of a loop, and the production of an event, changes no channel
\* and is quiet.
LEMMA QuietElsewhere ==
  ASSUME TypeOK, [Next]_vars,
         \A a \in Activations : ~Produce(a) /\ ~LoopReceive(a) /\ ~LoopLookup(a) /\ ~LoopArm(a)
  PROVE  UNCHANGED <<chan, origin, produced>> /\ LoopsQuiet /\ TimersQuiet
<1>1. ASSUME NEW t \in Triggers, RegistryChange(t)
      PROVE  UNCHANGED <<chan, origin, produced>> /\ LoopsQuiet /\ TimersQuiet
  BY <1>1, SameQuiet DEF RegistryChange, drivers
<1>2. ASSUME NEW t \in Triggers, Activate(t)
      PROVE  UNCHANGED <<chan, origin, produced>> /\ LoopsQuiet /\ TimersQuiet
  <2>1. /\ disp \in [Dispatchers -> DispType] /\ allocated + 1 \in Activations
        /\ disp' = [disp EXCEPT ![Loop(allocated + 1)] = Dispatcher("select", allocated + 1)]
    BY <1>2, Bounds DEF Activate, TypeOK, Activations
  <2> PICK a \in Activations : a = allocated + 1
    BY <2>1
  <2>2. disp'[Loop(a)].ev = Nil /\ disp'[Loop(a)].pc = "select"
    BY <2>1, LoopIn DEF Dispatcher
  <2>3. \A b \in Dispatchers : b # Loop(a) => disp'[b] = disp[b]
    BY <2>1
  <2>4. \A e \in Events : Timer(e) # Loop(a)
    BY DEF Timer, Loop
  <2>5. LoopsQuiet /\ TimersQuiet
    BY <2>2, <2>3, <2>4, LoopIn, TimerIn DEF LoopsQuiet, TimersQuiet
  <2> QED
    BY <1>2, <2>5 DEF Activate
<1>3. ASSUME NEW t \in Triggers, Deactivate(t)
      PROVE  UNCHANGED <<chan, origin, produced>> /\ LoopsQuiet /\ TimersQuiet
  BY <1>3, StoppedQuiet DEF Deactivate, drivers
<1>4. CASE StopAll \/ MutexStep
  BY <1>4, SameQuiet DEF StopAll, MutexStep, DeactivateStop, DeactivateReturn, StopAllCancel,
     StopAllStop, StopAllReturn, StopDriver, drivers
<1>5. ASSUME NEW a \in Activations, Crash(a)
      PROVE  UNCHANGED <<chan, origin, produced>> /\ LoopsQuiet /\ TimersQuiet
  BY <1>5, SameQuiet DEF Crash
<1>6. ASSUME NEW a \in Activations, LoopStep(a)
      PROVE  UNCHANGED <<chan, origin, produced>> /\ LoopsQuiet /\ TimersQuiet
  <2>1. LoopCancelled(a) \/ LoopClosed(a) \/ LoopError(a) \/ LoopDeactivate(a)
    BY <1>6 DEF LoopStep
  <2> QED
    BY <2>1, LoopQuiet DEF LoopCancelled, LoopClosed, LoopError, LoopDeactivate, drivers
<1>7. ASSUME NEW e \in Events, TimerStep(e) \/ WorkerStep(e)
      PROVE  UNCHANGED <<chan, origin, produced>> /\ LoopsQuiet /\ TimersQuiet
  <2>1. CASE TimerStep(e)
    BY <2>1, TimerQuiet DEF TimerStep, TimerFire, TimerTake, drivers
  <2>2. CASE WorkerStep(e)
    BY <2>2, SameQuiet DEF WorkerStep, WorkerBegin, WorkerExec, WorkerEnd, WorkerEndParallel,
       WorkerEndDrop, WorkerEndAbort, WorkerEndQueue, drivers
  <2> QED
    BY <1>7, <2>1, <2>2
<1>8. ASSUME NEW d \in Dispatchers, DispatchStep(d)
      PROVE  UNCHANGED <<chan, origin, produced>> /\ LoopsQuiet /\ TimersQuiet
  <2>1. UNCHANGED <<chan, origin, produced>>
    BY <1>8 DEF DispatchStep, Dispatch, Gate, GateParallel, GateDrop, GateQueue, GateAbort,
       GateAbortCancel, GateAbortPanic, AbortResume, drivers
  <2> QED
    BY <1>8, <2>1, DispatchQuiet
<1>9. CASE UNCHANGED vars
  BY <1>9, SameQuiet DEF vars, drivers
<1> QED
  BY <1>1, <1>2, <1>3, <1>4, <1>5, <1>6, <1>7, <1>8, <1>9 DEF Next

-----------------------------------------------------------------------------
(* Arrivals. *)

LEMMA ArrivalsKept ==
  ASSUME \A a \in Activations : Arrivals(a), UNCHANGED <<chan, origin, produced>>,
         \A a \in Activations : disp'[Loop(a)].ev \in {disp[Loop(a)].ev, Nil}
  PROVE  \A a \in Activations : Arrivals(a)'
<1> SUFFICES ASSUME NEW a \in Activations PROVE Arrivals(a)'
  OBVIOUS
<1>1. Received(a)' = Received(a)
  BY DEF Received
<1> QED
  BY <1>1 DEF Arrivals

\* A driver's new event is the newest.
LEMMA ArrivalsProduce ==
  ASSUME TypeOK, FlowInv, \A a \in Activations : Arrivals(a), NEW b \in Activations, Produce(b)
  PROVE  \A a \in Activations : Arrivals(a)'
<1>0. /\ produced \in Nat /\ produced' = produced + 1 /\ produced + 1 \in Events
      /\ chan \in [Activations -> Seq(Events)] /\ origin \in [Events -> 0..MaxActivation]
      /\ chan' = [chan EXCEPT ![b] = Append(chan[b], produced + 1)]
      /\ origin' = [origin EXCEPT ![produced + 1] = b] /\ disp' = disp
  BY Bounds DEF TypeOK, Produce, Events
<1> PICK e0 \in Events : e0 = produced + 1
  BY <1>0
<1>1. /\ origin'[e0] = b /\ \A f \in Events : f # e0 => origin'[f] = origin[f]
      /\ \A f \in 1..produced : f \in Events /\ f # e0 /\ f < e0
      /\ \A f \in 1..produced' : f = e0 \/ f \in 1..produced
  BY <1>0, Bounds DEF Events
<1>2. \A a \in Activations : e0 \notin Range(chan[a]) /\ disp[Loop(a)].ev # e0
  <2>1. Places(e0) = {}
    BY <1>0 DEF FlowInv, OnePlace
  <2> QED
    BY <2>1, LoopIn DEF Places, PlacesIn
<1>3. ASSUME NEW a \in Activations, a # b PROVE Arrivals(a)'
  <2>1. chan'[a] = chan[a]
    BY <1>0, <1>3
  <2>2. \A f : f \in Received(a)' => f \in Received(a)
    BY <1>1, <1>3, <2>1 DEF Received
  <2>3. \A f \in Range(chan[a]) : f \in Events /\ f # e0
    BY <1>0, <1>2 DEF Range
  <2>4. disp[Loop(a)].ev # Nil => disp[Loop(a)].ev \in Events
    BY LoopIn, InHand, EmptyHanded
  <2>5. Arrivals(a)
    OBVIOUS
  <2>6. \A e \in Range(chan[a]) : origin'[e] = a /\ e <= produced'
    BY <1>0, <1>1, <2>3, <2>5 DEF Arrivals, Events
  <2>7. disp[Loop(a)].ev # Nil => origin'[disp[Loop(a)].ev] = a
    BY <1>1, <1>2, <2>4, <2>5 DEF Arrivals
  <2> QED
    BY <1>0, <2>1, <2>2, <2>5, <2>6, <2>7 DEF Arrivals
<1>4. Arrivals(b)'
  <2>1. /\ chan[b] \in Seq(Events) /\ NoDuplicates(chan[b]) /\ e0 \notin Range(chan[b])
        /\ chan'[b] = Append(chan[b], e0)
    BY <1>0, <1>2 DEF FlowInv, Holders, NothingTwice
  <2>2. Range(chan'[b]) = Range(chan[b]) \union {e0}
    BY <2>1, AppendFacts
  <2>3. \A f : f \in Received(b)' => f \in Received(b) /\ f < e0
    <3>1. \A f : f \in Received(b)' => f \in 1..produced /\ origin[f] = b /\ f \notin Range(chan[b])
      BY <1>1, <2>2 DEF Received
    <3> QED
      BY <1>1, <3>1 DEF Received
  <2>4. \A f \in Range(chan[b]) : f \in Events /\ f # e0
    BY <1>0, <1>2 DEF Range
  <2>5. Arrivals(b)
    OBVIOUS
  <2>6. \A e \in Range(chan'[b]) : origin'[e] = b /\ e <= produced'
    BY <1>0, <1>1, <2>2, <2>4, <2>5 DEF Arrivals, Events
  <2>7. \A i, j \in DOMAIN chan'[b] : i < j => chan'[b][i] < chan'[b][j]
    <3>1. /\ DOMAIN chan[b] = 1..Len(chan[b]) /\ DOMAIN chan'[b] = 1..(Len(chan[b]) + 1) /\ Len(chan[b]) \in Nat
          /\ chan'[b][Len(chan[b]) + 1] = e0 /\ \A i \in 1..Len(chan[b]) : chan'[b][i] = chan[b][i]
      BY <2>1
    <3>2. \A i \in 1..Len(chan[b]) : chan[b][i] < e0
      <4>1. \A i \in 1..Len(chan[b]) : chan[b][i] \in Range(chan[b])
        BY <3>1 DEF Range
      <4> QED
        BY <1>0, <2>4, <2>5, <4>1 DEF Arrivals, Events
    <3> QED
      BY <2>5, <3>1, <3>2 DEF Arrivals
  <2>8. disp[Loop(b)].ev # Nil => disp[Loop(b)].ev \in Events
    BY LoopIn, InHand, EmptyHanded
  <2>9. disp[Loop(b)].ev # Nil => origin'[disp[Loop(b)].ev] = b
    BY <1>1, <1>2, <2>5, <2>8 DEF Arrivals
  <2>10. \A e \in Range(chan'[b]) : \A f \in Received(b)' : f < e
    BY <2>2, <2>3, <2>5 DEF Arrivals
  <2>11. disp[Loop(b)].ev # Nil => \A f \in Received(b)' : f <= disp[Loop(b)].ev
    BY <2>3, <2>5 DEF Arrivals
  <2> QED
    BY <1>0, <2>6, <2>7, <2>9, <2>10, <2>11 DEF Arrivals
<1> QED
  BY <1>3, <1>4

\* A loop receives the oldest event of its channel.
LEMMA ArrivalsReceive ==
  ASSUME TypeOK, FlowInv, \A a \in Activations : Arrivals(a), NEW b \in Activations, LoopReceive(b)
  PROVE  \A a \in Activations : Arrivals(a)'
<1>0. /\ produced' = produced /\ origin' = origin
      /\ chan \in [Activations -> Seq(Events)] /\ disp \in [Dispatchers -> DispType]
      /\ chan[b] \in Seq(Events) /\ chan[b] # <<>> /\ chan' = [chan EXCEPT ![b] = Tail(chan[b])]
      /\ Loop(b) \in Dispatchers /\ disp[Loop(b)].pc = "select" /\ disp[Loop(b)] \in DispType
  BY LoopIn DEF TypeOK, LoopReceive
<1>1. PICK e0 \in Events : e0 = Head(chan[b])
  BY <1>0
<1>2. \A d \in Dispatchers : disp'[d] = disp[d] \/ (d = Loop(b) /\ disp'[d].ev = e0)
  BY <1>0, <1>1 DEF LoopReceive, DispType
<1>3. ASSUME NEW a \in Activations, a # b PROVE Arrivals(a)'
  <2>1. chan'[a] = chan[a] /\ Loop(a) # Loop(b)
    BY <1>0, <1>3 DEF Loop
  <2>2. Received(a)' = Received(a) /\ disp'[Loop(a)] = disp[Loop(a)]
    BY <1>0, <1>2, <2>1, LoopIn DEF Received
  <2>3. Arrivals(a)
    OBVIOUS
  <2> QED
    BY <1>0, <2>1, <2>2, <2>3 DEF Arrivals
<1>4. Arrivals(b)'
  <2>1. Arrivals(b) /\ NoDuplicates(chan[b]) /\ chan'[b] = Tail(chan[b])
    BY <1>0 DEF FlowInv, Holders, NothingTwice
  <2>2. e0 \in Range(chan[b]) /\ Range(chan'[b]) = Range(chan[b]) \ {e0}
    BY <1>0, <1>1, <2>1, TailFacts
  <2>3. /\ DOMAIN chan[b] = 1..Len(chan[b]) /\ DOMAIN chan'[b] = 1..(Len(chan[b]) - 1)
        /\ Len(chan[b]) \in Nat \ {0} /\ chan[b][1] = e0
        /\ \A i \in 1..(Len(chan[b]) - 1) : chan'[b][i] = chan[b][i + 1]
    BY <1>0, <1>1, <2>1, HeadTailProperties
  <2>4. ASSUME NEW i \in DOMAIN chan'[b], NEW j \in DOMAIN chan'[b], i < j
        PROVE  chan'[b][i] < chan'[b][j]
    <3>1. /\ i \in 1..(Len(chan[b]) - 1) /\ j \in 1..(Len(chan[b]) - 1)
          /\ i + 1 \in DOMAIN chan[b] /\ j + 1 \in DOMAIN chan[b] /\ i + 1 < j + 1
      BY <2>3, <2>4
    <3>2. chan'[b][i] = chan[b][i + 1] /\ chan'[b][j] = chan[b][j + 1]
      BY <2>3, <3>1
    <3> QED
      BY <2>1, <3>1, <3>2 DEF Arrivals
  <2>5. \A e \in Range(chan'[b]) : e0 < e
    <3> SUFFICES ASSUME NEW i \in DOMAIN chan'[b] PROVE e0 < chan'[b][i]
      BY DEF Range
    <3>1. i + 1 \in DOMAIN chan[b] /\ 1 \in DOMAIN chan[b] /\ 1 < i + 1 /\ chan'[b][i] = chan[b][i + 1]
      BY <2>3
    <3> QED
      BY <2>1, <2>3, <3>1 DEF Arrivals
  <2>6. \A f : f \in Received(b)' <=> f \in Received(b) \/ f = e0
    <3>1. origin[e0] = b /\ e0 <= produced
      BY <2>1, <2>2 DEF Arrivals
    <3>2. e0 \in 1..produced
      BY <1>0, <3>1 DEF Events, TypeOK
    <3> QED
      BY <1>0, <2>2, <3>1, <3>2 DEF Received
  <2>7. \A f \in Received(b) : f < e0
    BY <2>1, <2>2 DEF Arrivals
  <2>8. disp[Loop(b)].ev = Nil
    BY <1>0, EmptyHanded DEF HasEvent
  <2>9. disp'[Loop(b)].ev # Nil => disp'[Loop(b)].ev = e0
    BY <1>0, <1>2, <2>8
  <2>10. \A e \in Range(chan'[b]) : origin'[e] = b /\ e <= produced'
    BY <1>0, <2>1, <2>2 DEF Arrivals
  <2>11. \A e \in Range(chan'[b]) : \A f \in Received(b)' : f < e
    BY <2>1, <2>2, <2>5, <2>6 DEF Arrivals
  <2>12. disp'[Loop(b)].ev # Nil =>
           origin'[disp'[Loop(b)].ev] = b /\ \A f \in Received(b)' : f <= disp'[Loop(b)].ev
    <3>1. origin[e0] = b
      BY <2>1, <2>2 DEF Arrivals
    <3>2. Received(b) \subseteq Nat /\ e0 \in Nat
      BY <1>0 DEF Received, Events
    <3>3. \A f \in Received(b)' : f <= e0
      <4> SUFFICES ASSUME NEW f \in Received(b)' PROVE f <= e0
        OBVIOUS
      <4>1. f = e0 \/ (f < e0 /\ f \in Nat)
        BY <2>6, <2>7, <3>2
      <4> QED
        BY <3>2, <4>1
    <3> QED
      BY <1>0, <2>9, <3>1, <3>3
  <2> QED
    BY <2>4, <2>10, <2>11, <2>12 DEF Arrivals
<1> QED
  BY <1>3, <1>4

-----------------------------------------------------------------------------
(* Who debounces, and the loop's own steps. *)

\* No step changes the settings or the trigger of an activation that exists.
LEMMA RolesStay ==
  ASSUME ~Reconfigure, TypeOK, [Next]_vars
  PROVE  cfg' = cfg /\ \A a \in 1..allocated : act'[a].trigger = act[a].trigger
<1>0. 1..allocated \subseteq Activations
  BY Bounds DEF TypeOK, Activations
<1>1. ASSUME NEW t \in Triggers, Activate(t)
      PROVE  cfg' = cfg /\ \A a \in 1..allocated : act'[a].trigger = act[a].trigger
  <2>1. cfg' = cfg /\ act' = [act EXCEPT ![allocated + 1] = NewAct(t)]
    BY <1>1 DEF Activate, registry
  <2>2. \A a \in 1..allocated : a # allocated + 1
    BY DEF TypeOK
  <2> QED
    BY <1>0, <2>1, <2>2 DEF TypeOK
<1>2. CASE \A t \in Triggers : ~Activate(t)
  BY <1>0, <1>2, RolesKept DEF SameRoles
<1> QED
  BY <1>1, <1>2

LEMMA TimersKept ==
  ASSUME TypeOK, SerialInv, TimersElsewhere, LoopsQuiet, TimersQuiet,
         cfg' = cfg, \A a \in 1..allocated : act'[a].trigger = act[a].trigger
  PROVE  TimersElsewhere'
<1>1. \A a \in 1..allocated : cfg'[act'[a].trigger] = cfg[act[a].trigger]
  OBVIOUS
<1>2. \A d \in Dispatchers : disp[d].pc # "none" =>
        disp[d].ctx \in 1..allocated /\ \A a \in Activations : d = Loop(a) => disp[d].ctx = a
  BY DEF SerialInv, Routed
<1>3. \A a \in Activations : disp[Loop(a)].pc # "none" => a \in 1..allocated
  BY <1>2, LoopIn
<1>4. \A e \in Events : disp[Timer(e)].pc # "none" => disp[Timer(e)].ctx \in 1..allocated
  BY <1>2, TimerIn
<1> QED
  BY <1>1, <1>3, <1>4 DEF TimersElsewhere, LoopsQuiet, TimersQuiet, ModeOf, TriggerOf

\* A loop reads the settings of its trigger; it arms a timer only if they say so.
LEMMA TimersStep ==
  ASSUME ~Reconfigure, Undebounced, TypeOK, FlowInv, SerialInv, TimersElsewhere, [Next]_vars
  PROVE  TimersElsewhere'
<1>0. /\ disp \in [Dispatchers -> DispType] /\ cfg \in [Triggers -> Configs]
      /\ \A a \in Activations : Loop(a) \in Dispatchers /\ disp[Loop(a)] \in DispType
      /\ \A a \in Activations : TriggerOf(a) \in Triggers
  BY LoopIn DEF TypeOK, ActType, TriggerOf
<1>1. /\ cfg' = cfg /\ \A a \in 1..allocated : cfg'[act'[a].trigger] = cfg[act[a].trigger]
      /\ \A a \in 1..allocated : act'[a].trigger = act[a].trigger
  BY RolesStay
<1>2. \A d \in Dispatchers : disp[d].pc # "none" =>
        disp[d].ctx \in 1..allocated /\ \A a \in Activations : d = Loop(a) => disp[d].ctx = a
  BY DEF SerialInv, Routed
<1>3. \A a \in Activations : disp[Loop(a)].pc # "none" => a \in 1..allocated
  BY <1>2, LoopIn
<1>4. \A e \in Events : disp[Timer(e)].pc # "none" => disp[Timer(e)].ctx \in 1..allocated
  BY <1>2, TimerIn
<1>5. \A a \in Activations, e \in Events : Loop(a) # Timer(e)
  BY DEF Loop, Timer
<1>6. ASSUME NEW a \in Activations, disp[Loop(a)].pc # "none",
             \A d \in Dispatchers : d # Loop(a) => disp'[d] = disp[d],
             disp'[Loop(a)].pc = "lookup" => disp'[Loop(a)].cfg = cfg[TriggerOf(a)],
             disp'[Loop(a)].pc = "arm" => ModeOf(a) # "queue"
      PROVE  TimersElsewhere'
  <2>1. \A b \in Activations : b # a => disp'[Loop(b)] = disp[Loop(b)]
    BY <1>6, LoopIn DEF Loop
  <2>2. \A e \in Events : disp'[Timer(e)] = disp[Timer(e)]
    BY <1>5, <1>6, TimerIn
  <2> QED
    BY <1>1, <1>3, <1>4, <1>6, <2>1, <2>2 DEF TimersElsewhere, ModeOf, TriggerOf
<1>7. ASSUME NEW a \in Activations, Produce(a) PROVE TimersElsewhere'
  BY <1>1, <1>7, SameQuiet, TimersKept DEF Produce
<1>8. ASSUME NEW a \in Activations, LoopReceive(a) PROVE TimersElsewhere'
  <2>1. \/ disp' = disp
        \/ disp' = [disp EXCEPT ![Loop(a)].pc = "lookup", ![Loop(a)].ev = Head(chan[a]),
                                ![Loop(a)].cfg = cfg[TriggerOf(a)]]
    BY <1>8 DEF LoopReceive
  <2>2. disp[Loop(a)].pc = "select"
    BY <1>8 DEF LoopReceive
  <2>3. CASE disp' = disp
    BY <1>1, <2>3, SameQuiet, TimersKept
  <2>4. CASE disp' = [disp EXCEPT ![Loop(a)].pc = "lookup", ![Loop(a)].ev = Head(chan[a]),
                                  ![Loop(a)].cfg = cfg[TriggerOf(a)]]
    <3>1. /\ disp'[Loop(a)].pc = "lookup" /\ disp'[Loop(a)].cfg = cfg[TriggerOf(a)]
          /\ \A d \in Dispatchers : d # Loop(a) => disp'[d] = disp[d]
      BY <1>0, <2>4 DEF DispType
    <3> QED
      BY <1>6, <2>2, <3>1
  <2> QED
    BY <2>1, <2>3, <2>4
<1>9. ASSUME NEW a \in Activations, LoopLookup(a) PROVE TimersElsewhere'
  <2>1. disp[Loop(a)].pc = "lookup" /\ disp[Loop(a)].cfg = cfg[TriggerOf(a)]
    BY <1>9 DEF LoopLookup, TimersElsewhere
  <2>2. CASE disp' = [disp EXCEPT ![Loop(a)] = Rest(Loop(a))]
    BY <1>0, <1>1, <2>1, <2>2, RestingQuiet, TimersKept
  <2>3. ASSUME NEW at, disp' = [disp EXCEPT ![Loop(a)].at = at,
                          ![Loop(a)].pc = IF disp[Loop(a)].cfg.debounce THEN "arm" ELSE "dispatch"]
        PROVE  TimersElsewhere'
    <3>1. /\ disp'[Loop(a)].pc = IF disp[Loop(a)].cfg.debounce THEN "arm" ELSE "dispatch"
          /\ \A d \in Dispatchers : d # Loop(a) => disp'[d] = disp[d]
      BY <1>0, <2>3 DEF DispType
    <3>2. disp[Loop(a)].cfg.debounce => ModeOf(a) # "queue"
      BY <1>0, <2>1 DEF Undebounced, ModeOf
    <3> QED
      BY <1>6, <2>1, <3>1, <3>2
  <2> QED
    BY <1>9, <2>2, <2>3 DEF LoopLookup
<1>10. ASSUME NEW a \in Activations, LoopArm(a) PROVE TimersElsewhere'
  <2>1. PICK e0 \in Events : e0 = disp[Loop(a)].ev
    BY <1>0, <1>10, InHand DEF LoopArm, HasEvent
  <2>2. disp[Loop(a)].pc = "arm" /\ ModeOf(a) # "queue" /\ a \in 1..allocated
    BY <1>3, <1>10 DEF LoopArm, TimersElsewhere
  <2>3. disp' = [AfterTimerStop(disp[Loop(a)].at) EXCEPT
                   ![Timer(e0)] = [Dispatcher("armed", a) EXCEPT !.at = disp[Loop(a)].at],
                   ![Loop(a)] = Rest(Loop(a))]
    BY <1>10, <2>1 DEF LoopArm
  <2>4. /\ \A d \in Dispatchers : d # Loop(a) /\ d # Timer(e0) =>
             disp'[d] = disp[d] \/ disp'[d] = Dispatcher("none", Nil)
        /\ disp'[Loop(a)] = Rest(Loop(a))
        /\ disp'[Timer(e0)] = [Dispatcher("armed", a) EXCEPT !.at = disp[Loop(a)].at]
    BY <1>0, <1>5, <2>3, TimerIn DEF AfterTimerStop
  <2>5. /\ disp'[Loop(a)].pc \in {"none", "select"} /\ Dispatcher("none", Nil).pc = "none"
        /\ disp'[Timer(e0)].ctx = a
    BY <1>0, <2>4, Resting DEF Dispatcher
  <2>6. \A b \in Activations : b # a => disp'[Loop(b)] = disp[Loop(b)] \/ disp'[Loop(b)].pc = "none"
    BY <1>0, <1>5, <2>4, <2>5 DEF Loop
  <2>7. \A e \in Events : e # e0 => disp'[Timer(e)] = disp[Timer(e)] \/ disp'[Timer(e)].pc = "none"
    BY <1>5, <2>4, <2>5, TimerIn DEF Timer
  <2> QED
    BY <1>1, <1>3, <1>4, <2>2, <2>5, <2>6, <2>7 DEF TimersElsewhere, ModeOf, TriggerOf
<1> QED
  BY <1>1, <1>7, <1>8, <1>9, <1>10, QuietElsewhere, TimersKept

\* Every step keeps the arrivals.
LEMMA ArrivalsStep ==
  ASSUME TypeOK, FlowInv, \A a \in Activations : Arrivals(a), [Next]_vars
  PROVE  \A a \in Activations : Arrivals(a)'
<1>0. /\ disp \in [Dispatchers -> DispType]
      /\ \A a \in Activations : Loop(a) \in Dispatchers /\ disp[Loop(a)] \in DispType
  BY LoopIn DEF TypeOK
<1>1. ASSUME NEW a \in Activations, LoopLookup(a)
      PROVE  \A b \in Activations : Arrivals(b)'
  <2>1. UNCHANGED <<chan, origin, produced>>
    BY <1>1 DEF LoopLookup, drivers
  <2>2. \/ disp' = [disp EXCEPT ![Loop(a)] = Rest(Loop(a))]
        \/ \E at, pc : disp' = [disp EXCEPT ![Loop(a)].at = at, ![Loop(a)].pc = pc]
    BY <1>1 DEF LoopLookup
  <2>3. \A b \in Activations : disp'[Loop(b)].ev \in {disp[Loop(b)].ev, Nil}
    <3>1. CASE disp' = [disp EXCEPT ![Loop(a)] = Rest(Loop(a))]
      BY <1>0, <3>1, Resting
    <3>2. ASSUME NEW at, NEW pc, disp' = [disp EXCEPT ![Loop(a)].at = at, ![Loop(a)].pc = pc]
          PROVE  \A b \in Activations : disp'[Loop(b)].ev \in {disp[Loop(b)].ev, Nil}
      BY <1>0, <3>2 DEF DispType
    <3> QED
      BY <2>2, <3>1, <3>2
  <2> QED
    BY <2>1, <2>3, ArrivalsKept
<1>2. ASSUME NEW a \in Activations, LoopArm(a)
      PROVE  \A b \in Activations : Arrivals(b)'
  <2>1. UNCHANGED <<chan, origin, produced>>
    BY <1>2 DEF LoopArm, drivers
  <2>2. \E e, at, r : disp' = [AfterTimerStop(at) EXCEPT ![Timer(e)] = r, ![Loop(a)] = Rest(Loop(a))]
    BY <1>2 DEF LoopArm
  <2>3. \A b \in Activations : \A e : Loop(b) # Timer(e)
    BY DEF Loop, Timer
  <2>4. Dispatcher("none", Nil).ev = Nil
    BY DEF Dispatcher
  <2>5. \A b \in Activations : disp'[Loop(b)].ev \in {disp[Loop(b)].ev, Nil}
    BY <1>0, <2>2, <2>3, <2>4, Resting DEF AfterTimerStop
  <2> QED
    BY <2>1, <2>5, ArrivalsKept
<1>3. CASE \A a \in Activations : ~Produce(a) /\ ~LoopReceive(a) /\ ~LoopLookup(a) /\ ~LoopArm(a)
  BY <1>3, QuietElsewhere, ArrivalsKept DEF LoopsQuiet
<1> QED
  BY <1>1, <1>2, <1>3, ArrivalsProduce, ArrivalsReceive

-----------------------------------------------------------------------------
(* The queues. *)

\* What waits in a queue or is being handled has been produced and has left its channel; no
\* dispatcher has it in hand.
LEMMA QueuedReceived ==
  ASSUME TypeOK, FlowInv, NEW a \in Activations
  PROVE  /\ \A i \in DOMAIN act[a].queue :
              LET e == act[a].queue[i] IN
              /\ e \in Events /\ e <= produced /\ \A d \in Dispatchers : disp[d].ev # e
              /\ \A b \in Activations : origin[e] = b => e \in Received(b)
         /\ \A w \in Working(a) :
              LET e == worker[w].ev IN
              /\ e \in Events /\ e <= produced /\ \A d \in Dispatchers : disp[d].ev # e
              /\ \A b \in Activations : origin[e] = b => e \in Received(b)
<1>0. produced \in Nat /\ \A e \in Events : e \in Nat /\ e >= 1
  BY DEF TypeOK, Events
<1>1. ASSUME NEW i \in DOMAIN act[a].queue
      PROVE  LET e == act[a].queue[i] IN
             /\ e \in Events /\ e <= produced /\ \A d \in Dispatchers : disp[d].ev # e
             /\ \A b \in Activations : origin[e] = b => e \in Received(b)
  <2>1. act[a].queue \in Seq(Events) /\ act[a].queue[i] \in Range(act[a].queue)
    BY DEF TypeOK, ActType, Range
  <2> PICK e \in Events : e = act[a].queue[i]
    BY <2>1
  <2>2. <<"queue", a>> \in Places(e)
    BY <2>1 DEF Places, PlacesIn
  <2>3. e <= produced
    BY <1>0, <2>2 DEF FlowInv, OnePlace
  <2>4. /\ \A d \in Dispatchers : disp[d].ev # e
        /\ \A b \in Activations : e \notin Range(chan[b])
    BY <2>2, OnlyHere
  <2> QED
    BY <1>0, <2>3, <2>4 DEF Received
<1>2. ASSUME NEW w \in Working(a)
      PROVE  LET e == worker[w].ev IN
             /\ e \in Events /\ e <= produced /\ \A d \in Dispatchers : disp[d].ev # e
             /\ \A b \in Activations : origin[e] = b => e \in Received(b)
  <2> PICK e \in Events : e = worker[w].ev
    BY DEF FlowInv, Holders, WorkersHold, Working
  <2>1. w \in Hands(e)
    BY DEF Hands, Working
  <2>2. e <= produced /\ Places(e) = {}
    BY <1>0, <2>1 DEF FlowInv, OnePlace
  <2>3. /\ \A d \in Dispatchers : disp[d].ev # e
        /\ \A b \in Activations : e \notin Range(chan[b])
    BY <2>2 DEF Places, PlacesIn
  <2> QED
    BY <1>0, <2>2, <2>3 DEF Received
<1> QED
  BY <1>1, <1>2

\* An activation whose queue does not change, and which nobody else works for, is in order.
LEMMA InOrderKept ==
  ASSUME TypeOK, FlowInv, NEW a \in Activations, InOrder(a),
         \A e \in Events : e <= produced => origin'[e] = origin[e],
         act'[a].queue = act[a].queue,
         \A w \in Working(a)' : w \in Working(a) /\ worker'[w].ev = worker[w].ev
  PROVE  InOrder(a)'
<1>1. \A i \in DOMAIN act[a].queue : origin'[act[a].queue[i]] = origin[act[a].queue[i]]
  BY QueuedReceived
<1>2. \A w \in Working(a)' : worker'[w].ev = worker[w].ev /\ origin'[worker[w].ev] = origin[worker[w].ev]
  BY QueuedReceived
<1> QED
  BY <1>1, <1>2 DEF InOrder

LEMMA InOrderEmpty == \A a : act'[a].queue = <<>> => InOrder(a)'
  BY DEF InOrder

\* A step after which no queue has changed and nobody has begun to work.
SameOrder ==
  /\ \A a \in Activations : act'[a].queue = act[a].queue
  /\ \A w \in Events : (Live(w))' =>
       Live(w) /\ worker'[w].at = worker[w].at /\ worker'[w].ev = worker[w].ev
  /\ \A e \in Events : e <= produced => origin'[e] = origin[e]

LEMMA OrderSame ==
  ASSUME TypeOK, FlowInv, \A a \in 1..allocated : InOrder(a), SameOrder, allocated' = allocated
  PROVE  \A a \in 1..allocated' : InOrder(a)'
<1>1. 1..allocated \subseteq Activations
  BY Bounds DEF TypeOK, Activations
<1>2. \A a \in Activations : \A w \in Working(a)' : w \in Working(a) /\ worker'[w].ev = worker[w].ev
  BY DEF Working, SameOrder
<1> QED
  BY <1>1, <1>2, InOrderKept DEF SameOrder

\* A worker starts for an activation with nothing queued.
LEMMA StartOrder ==
  ASSUME TypeOK, FlowInv, \A a \in 1..allocated : InOrder(a), NEW d \in Dispatchers, NEW kind,
         StartWorker(d, kind), \A a \in Activations : act'[a].queue = act[a].queue,
         act[disp[d].at].queue = <<>>, disp[d].at \in Activations, disp[d].ev \in Events,
         UNCHANGED <<origin, allocated>>
  PROVE  \A a \in 1..allocated' : InOrder(a)'
<1>0. 1..allocated \subseteq Activations /\ worker \in [Events -> WorkerType]
  BY Bounds DEF TypeOK, Activations
<1> PICK at \in Activations : at = disp[d].at
  OBVIOUS
<1> PICK e0 \in Events : e0 = disp[d].ev
  OBVIOUS
<1>1. /\ \A w \in Events : w # e0 => worker'[w] = worker[w]
      /\ worker'[e0].at = at
  BY <1>0 DEF StartWorker
<1>2. ASSUME NEW a \in 1..allocated, a # at PROVE InOrder(a)'
  <2>1. \A w \in Working(a)' : w \in Working(a) /\ worker'[w].ev = worker[w].ev
    BY <1>1, <1>2 DEF Working, Live
  <2> QED
    BY <1>0, <2>1, InOrderKept
<1> QED
  BY <1>2, InOrderEmpty

\* Where the elements of a longer sequence are.
LEMMA Appended ==
  ASSUME NEW s \in Seq(Events), NEW x \in Events, NEW r, r = Append(s, x)
  PROVE  /\ Len(s) \in Nat /\ DOMAIN s = 1..Len(s)
         /\ DOMAIN r = 1..(Len(s) + 1) /\ r[Len(s) + 1] = x
         /\ \A i \in 1..Len(s) : r[i] = s[i]
OBVIOUS

\* An activation is in order after a step that leaves it the queue r.
LEMMA OrderNext ==
  ASSUME NEW a, NEW r, act'[a].queue = r, origin' = origin,
         \A i, j \in DOMAIN r : i < j /\ origin[r[i]] = origin[r[j]] => r[i] < r[j],
         \A u \in Working(a)', i \in DOMAIN r : origin[worker'[u].ev] = origin[r[i]] => worker'[u].ev < r[i]
  PROVE  InOrder(a)'
BY DEF InOrder

\* A loop queues the event it has in hand: the newest received from its driver.
LEMMA AppendOrder ==
  ASSUME TypeOK, FlowInv, SerialInv, OrderInv, NEW d \in Dispatchers, disp[d].pc = "gate",
         ModeOf(disp[d].at) = "queue", worker' = worker, UNCHANGED <<origin, allocated>>,
         act' = [act EXCEPT ![disp[d].at].queue = Append(act[disp[d].at].queue, disp[d].ev)]
  PROVE  \A a \in 1..allocated' : InOrder(a)'
<1>0. /\ act \in [Activations -> ActType] /\ \A a \in Activations : act[a] \in ActType
      /\ disp[d].at \in 1..allocated /\ 1..allocated \subseteq Activations
      /\ disp[d].ev \in Events /\ \A e \in Events : e \in Nat
      /\ \A a \in 1..allocated : InOrder(a)
      /\ \A a \in Activations : Working(a)' = Working(a)
  BY InHand, Bounds DEF TypeOK, Activations, Events, FlowInv, Holders, DispatchersHold, HasActivation,
     HasEvent, OrderInv, Working, Live
<1> PICK at \in 1..allocated : at = disp[d].at
  BY <1>0
<1> PICK v \in Events : v = disp[d].ev
  BY <1>0
<1> DEFINE q == act[at].queue
<1>1. PICK b \in Activations : d = Loop(b)
  <2>1. ASSUME NEW e \in Events, d = Timer(e) PROVE FALSE
    <3>1. ModeOf(disp[d].ctx) # "queue"
      BY <2>1 DEF OrderInv, TimersElsewhere
    <3>2. TriggerOf(disp[d].at) = TriggerOf(disp[d].ctx)
      BY DEF SerialInv, Routed, HasActivation
    <3> QED
      BY <3>1, <3>2 DEF ModeOf
  <2> QED
    BY <2>1 DEF Dispatchers
<1>2. origin[v] = b /\ \A f \in Received(b) : f <= v
  <2>1. Arrivals(b)
    BY DEF OrderInv
  <2> QED
    BY <1>0, <1>1, <2>1, Numbers DEF Arrivals
<1>3. /\ \A i \in DOMAIN q : q[i] \in Events /\ (origin[q[i]] = origin[v] => q[i] < v)
      /\ \A w \in Working(at) : worker[w].ev \in Events /\ (origin[worker[w].ev] = origin[v] => worker[w].ev < v)
  <2>1. at \in Activations
    BY <1>0
  <2>2. \A e \in Events : e # v /\ e \in Received(b) => e < v
    BY <1>0, <1>2
  <2> QED
    BY <1>2, <2>1, <2>2, QueuedReceived
<1>4. /\ \A a \in Activations : a # at => act'[a].queue = act[a].queue
      /\ act'[at].queue = Append(q, v)
  BY <1>0 DEF ActType
<1>5. ASSUME NEW a \in 1..allocated, a # at PROVE InOrder(a)'
  <2>1. \A w \in Working(a)' : w \in Working(a) /\ worker'[w].ev = worker[w].ev
    BY <1>0
  <2>2. a \in Activations /\ InOrder(a) /\ act'[a].queue = act[a].queue
    BY <1>0, <1>4, <1>5
  <2> QED
    BY <2>1, <2>2, InOrderKept
<1>6. InOrder(at)'
  <2>0. q \in Seq(Events) /\ InOrder(at)
    BY <1>0 DEF ActType
  <2>a. PICK s \in Seq(Events) : s = q
    BY <2>0
  <2>b. PICK r : r = Append(s, v)
    OBVIOUS
  <2>1. /\ Len(s) \in Nat /\ DOMAIN s = 1..Len(s)
        /\ DOMAIN r = 1..(Len(s) + 1) /\ r[Len(s) + 1] = v
        /\ \A i \in 1..Len(s) : r[i] = s[i]
    BY <2>b, Appended
  <2>2. /\ act'[at].queue = r /\ Working(at)' = Working(at) /\ worker' = worker /\ origin' = origin
        /\ act[at].queue = s
    BY <1>0, <1>4, <2>a, <2>b
  <2>3. /\ \A i, j \in DOMAIN s : i < j /\ origin[s[i]] = origin[s[j]] => s[i] < s[j]
        /\ \A w \in Working(at), i \in DOMAIN s : origin[worker[w].ev] = origin[s[i]] => worker[w].ev < s[i]
    BY <2>0, <2>2 DEF InOrder
  <2>4. /\ \A i \in DOMAIN s : origin[s[i]] = origin[v] => s[i] < v
        /\ \A w \in Working(at) : origin[worker[w].ev] = origin[v] => worker[w].ev < v
    BY <1>3, <2>a
  <2>5. \A i \in DOMAIN r : i \in DOMAIN s \/ i = Len(s) + 1
    BY <2>1
  <2>6. ASSUME NEW i \in DOMAIN r, NEW j \in DOMAIN r, i < j, origin[r[i]] = origin[r[j]]
        PROVE  r[i] < r[j]
    <3>1. i \in DOMAIN s /\ r[i] = s[i]
      BY <2>1, <2>6
    <3>2. CASE j \in DOMAIN s
      BY <2>1, <2>3, <2>6, <3>1, <3>2
    <3>3. CASE j = Len(s) + 1
      BY <2>1, <2>4, <2>6, <3>1, <3>3
    <3> QED
      BY <2>5, <3>2, <3>3
  <2>7. ASSUME NEW w \in Working(at), NEW i \in DOMAIN r, origin[worker[w].ev] = origin[r[i]]
        PROVE  worker[w].ev < r[i]
    <3>1. CASE i \in DOMAIN s
      BY <2>1, <2>3, <2>7, <3>1
    <3>2. CASE i = Len(s) + 1
      BY <2>1, <2>4, <2>7, <3>2
    <3> QED
      BY <2>5, <3>1, <3>2
  <2>8. \A i, j \in DOMAIN r : i < j /\ origin[r[i]] = origin[r[j]] => r[i] < r[j]
    BY <2>6
  <2>9. \A u \in Working(at)', i \in DOMAIN r : origin[worker'[u].ev] = origin[r[i]] => worker'[u].ev < r[i]
    BY <2>2, <2>7
  <2> QED
    <3>1. act'[at].queue = r /\ origin' = origin
      BY <2>2
    <3> QED
      BY ONLY <2>8, <2>9, <3>1, OrderNext
<1> QED
  BY <1>5, <1>6

\* The worker takes the oldest queued event; no other worker is there.
LEMMA DrainOrder ==
  ASSUME TypeOK, FlowInv, SerialInv, \A a \in 1..allocated : InOrder(a), NEW w \in Events, Live(w),
         act[worker[w].at].queue # <<>>, UNCHANGED <<origin, allocated>>,
         worker' = [worker EXCEPT ![w].pc = "begin", ![w].ev = Head(act[worker[w].at].queue)],
         act' = [act EXCEPT ![worker[w].at].queue = Tail(act[worker[w].at].queue)]
  PROVE  \A a \in 1..allocated' : InOrder(a)'
<1>0. /\ act \in [Activations -> ActType] /\ \A a \in Activations : act[a] \in ActType
      /\ worker \in [Events -> WorkerType]
      /\ worker[w].at \in 1..allocated /\ 1..allocated \subseteq Activations
  BY Bounds DEF TypeOK, Activations, SerialInv, WorkersKnown
<1> PICK at \in 1..allocated : at = worker[w].at
  BY <1>0
<1> DEFINE q == act[at].queue
<1>1. /\ \A u \in Events : /\ (Live(u))' <=> Live(u)
                           /\ worker'[u].at = worker[u].at
                           /\ u # w => worker'[u] = worker[u]
      /\ worker'[w].ev = Head(q)
  BY <1>0 DEF Live, WorkerType
<1>2. \A a \in Activations : Working(a)' = Working(a)
  BY <1>1 DEF Working
<1>3. /\ \A a \in Activations : a # at => act'[a].queue = act[a].queue
      /\ act'[at].queue = Tail(q)
  BY <1>0 DEF ActType
<1>4. ASSUME NEW a \in 1..allocated, a # at PROVE InOrder(a)'
  <2>1. \A u \in Working(a)' : u \in Working(a) /\ worker'[u].ev = worker[u].ev
    BY <1>0, <1>1, <1>2, <1>4 DEF Working
  <2>2. a \in Activations /\ InOrder(a) /\ act'[a].queue = act[a].queue
    BY <1>0, <1>3, <1>4
  <2> QED
    BY <2>1, <2>2, InOrderKept
<1>5. InOrder(at)'
  <2>0. q \in Seq(Events) /\ q # <<>> /\ InOrder(at)
    BY <1>0 DEF ActType
  <2>a. PICK s \in Seq(Events) : s = q
    BY <2>0
  <2>b. PICK r, h : r = Tail(s) /\ h = Head(s)
    OBVIOUS
  <2>1. Working(at) = {w}
    <3>1. Serial(at) /\ w \in Working(at)
      BY DEF SerialInv, Working
    <3> QED
      BY <3>1 DEF Serial
  <2>2. /\ act'[at].queue = r /\ Working(at)' = {w} /\ worker'[w].ev = h /\ origin' = origin
        /\ act[at].queue = s
    BY <1>0, <1>1, <1>2, <1>3, <2>a, <2>b, <2>1
  <2>3. /\ DOMAIN s = 1..Len(s) /\ Len(s) \in Nat \ {0} /\ h = s[1]
        /\ DOMAIN r = 1..(Len(s) - 1) /\ \A i \in 1..(Len(s) - 1) : r[i] = s[i + 1]
    BY <2>0, <2>a, <2>b, HeadTailProperties
  <2>4. \A i, j \in DOMAIN s : i < j /\ origin[s[i]] = origin[s[j]] => s[i] < s[j]
    BY <2>0, <2>2 DEF InOrder
  <2>5. \A i \in DOMAIN r : i \in Nat /\ i >= 1 /\ i + 1 \in DOMAIN s /\ 1 \in DOMAIN s /\ r[i] = s[i + 1]
    BY <2>3
  <2>6. ASSUME NEW i \in DOMAIN r, NEW j \in DOMAIN r, i < j, origin[r[i]] = origin[r[j]]
        PROVE  r[i] < r[j]
    <3>1. i + 1 < j + 1 /\ i + 1 \in DOMAIN s /\ j + 1 \in DOMAIN s /\ r[i] = s[i + 1] /\ r[j] = s[j + 1]
      BY <2>5, <2>6
    <3> QED
      BY <2>4, <2>6, <3>1
  <2>7. ASSUME NEW i \in DOMAIN r, origin[h] = origin[r[i]]
        PROVE  h < r[i]
    <3>1. 1 < i + 1 /\ i + 1 \in DOMAIN s /\ 1 \in DOMAIN s /\ r[i] = s[i + 1]
      BY <2>5
    <3> QED
      BY <2>3, <2>4, <2>7, <3>1
  <2>8. \A i, j \in DOMAIN r : i < j /\ origin[r[i]] = origin[r[j]] => r[i] < r[j]
    BY <2>6
  <2>9. \A u \in Working(at)', i \in DOMAIN r : origin[worker'[u].ev] = origin[r[i]] => worker'[u].ev < r[i]
    BY <2>2, <2>7
  <2> QED
    <3>1. act'[at].queue = r /\ origin' = origin
      BY <2>2
    <3> QED
      BY ONLY <2>8, <2>9, <3>1, OrderNext
<1> QED
  BY <1>4, <1>5

\* A new activation has nothing queued.
LEMMA ActivateOrder ==
  ASSUME TypeOK, FlowInv, \A a \in 1..allocated : InOrder(a), NEW t \in Triggers, Activate(t)
  PROVE  \A a \in 1..allocated' : InOrder(a)'
<1>0. /\ act \in [Activations -> ActType] /\ allocated \in Nat /\ allocated' = allocated + 1
      /\ act' = [act EXCEPT ![allocated + 1] = NewAct(t)] /\ allocated + 1 \in Activations
      /\ worker' = worker /\ origin' = origin /\ 1..allocated \subseteq Activations
  BY Bounds DEF TypeOK, Activate, Activations
<1> PICK b \in Activations : b = allocated + 1
  BY <1>0
<1>1. InOrder(b)'
  BY <1>0, InOrderEmpty DEF NewAct
<1>3. \A a \in 1..allocated' : a = b \/ a \in 1..allocated
  BY <1>0
<1>2. ASSUME NEW a \in 1..allocated PROVE InOrder(a)'
  <2>1. act'[a] = act[a] /\ a \in Activations /\ InOrder(a)
    BY <1>0
  <2>2. \A w \in Working(a)' : w \in Working(a) /\ worker'[w].ev = worker[w].ev
    BY <1>0 DEF Working, Live
  <2> QED
    BY <1>0, <2>1, <2>2, InOrderKept
<1> QED
  BY <1>1, <1>2, <1>3

\* The steps that no worker takes, and that start none.
LEMMA IdleOrder ==
  ASSUME TypeOK, FlowInv, \A a \in 1..allocated : InOrder(a), worker' = worker, UNCHANGED <<origin, allocated>>,
         \/ act' = act
         \/ \E a, b : act' = [act EXCEPT ![a].cancelled = b]
         \/ \E a, b : act' = [act EXCEPT ![a].pending = b]
         \/ \E a, b, c : act' = [act EXCEPT ![a].pending = b, ![a].timer = c]
  PROVE  \A a \in 1..allocated' : InOrder(a)'
<1>1. SameWork
  BY WorkSame
<1>2. SameOrder
  BY <1>1 DEF SameWork, SameOrder
<1> QED
  BY <1>2, OrderSame

\* The registry, the critical sections and the drivers.
LEMMA OutsideOrder ==
  ASSUME TypeOK, FlowInv, \A a \in 1..allocated : InOrder(a),
         \/ \E t \in Triggers : RegistryChange(t) \/ Deactivate(t)
         \/ StopAll \/ MutexStep
         \/ \E a \in Activations : Produce(a) \/ Crash(a)
         \/ UNCHANGED vars
  PROVE  \A a \in 1..allocated' : InOrder(a)'
<1>1. CASE \/ \E t \in Triggers : RegistryChange(t) \/ Deactivate(t)
           \/ StopAll \/ MutexStep
           \/ \E a \in Activations : Crash(a)
           \/ UNCHANGED vars
  <2>1. worker' = worker /\ UNCHANGED <<origin, allocated>>
    BY <1>1 DEF RegistryChange, Deactivate, BeginDeactivate, StopAll, MutexStep, DeactivateStop,
       DeactivateReturn, StopAllCancel, StopAllStop, StopAllReturn, StopDriver, Crash, vars, engine, drivers
  <2>2. act' = act \/ \E a, b : act' = [act EXCEPT ![a].cancelled = b]
    BY <1>1 DEF RegistryChange, Deactivate, BeginDeactivate, StopAll, MutexStep, DeactivateStop,
       DeactivateReturn, StopAllCancel, StopAllStop, StopAllReturn, Crash, vars
  <2> QED
    BY <2>1, <2>2, IdleOrder
<1>2. ASSUME NEW a \in Activations, Produce(a) PROVE \A b \in 1..allocated' : InOrder(b)'
  <2>1. /\ origin' = [origin EXCEPT ![produced + 1] = a] /\ origin \in [Events -> 0..MaxActivation]
        /\ produced \in Nat /\ act' = act /\ worker' = worker /\ allocated' = allocated
    BY <1>2 DEF Produce, TypeOK, engine
  <2>2. \A e \in Events : e <= produced => e # produced + 1
    BY <2>1 DEF Events
  <2>3. SameOrder
    BY <2>1, <2>2 DEF SameOrder, Live
  <2> QED
    BY <2>1, <2>3, OrderSame
<1> QED
  BY <1>1, <1>2

\* The loops and the timer callbacks up to the gate.
LEMMA LoopOrder ==
  ASSUME TypeOK, FlowInv, \A a \in 1..allocated : InOrder(a),
         \/ \E a \in Activations : LoopStep(a)
         \/ \E e \in Events : TimerStep(e)
         \/ \E d \in Dispatchers : Dispatch(d) \/ GateAbortPanic(d)
  PROVE  \A a \in 1..allocated' : InOrder(a)'
<1>1. worker' = worker /\ UNCHANGED <<origin, allocated>>
  BY DEF LoopStep, LoopCancelled, LoopReceive, LoopClosed, LoopLookup, LoopArm, LoopError, LoopDeactivate,
     BeginDeactivate, TimerStep, TimerFire, TimerTake, Dispatch, GateAbortPanic, engine, drivers
<1>2. \/ act' = act
      \/ \E a, b : act' = [act EXCEPT ![a].cancelled = b]
      \/ \E a, b : act' = [act EXCEPT ![a].pending = b]
      \/ \E a, b, c : act' = [act EXCEPT ![a].pending = b, ![a].timer = c]
  <2>1. ASSUME NEW a \in Activations, LoopArm(a)
        PROVE  \E b, c, f : act' = [act EXCEPT ![b].pending = c, ![b].timer = f]
    BY <2>1 DEF LoopArm
  <2>2. ASSUME NEW a \in Activations, LoopDeactivate(a)
        PROVE  act' = act \/ \E b, c : act' = [act EXCEPT ![b].cancelled = c]
    BY <2>2 DEF LoopDeactivate, BeginDeactivate
  <2>3. ASSUME NEW e \in Events, TimerStep(e)
        PROVE  act' = act \/ \E b, c : act' = [act EXCEPT ![b].pending = c]
    BY <2>3 DEF TimerStep, TimerFire, TimerTake
  <2>4. ASSUME NEW a \in Activations, LoopStep(a), ~LoopArm(a), ~LoopDeactivate(a) PROVE act' = act
    BY <2>4 DEF LoopStep, LoopCancelled, LoopReceive, LoopClosed, LoopLookup, LoopError
  <2>5. ASSUME NEW d \in Dispatchers, Dispatch(d) \/ GateAbortPanic(d) PROVE act' = act
    BY <2>5 DEF Dispatch, GateAbortPanic
  <2> QED
    BY <2>1, <2>2, <2>3, <2>4, <2>5
<1> QED
  BY <1>1, <1>2, IdleOrder

\* A worker goes on or ends, or takes the next queued event.
LEMMA WorkerOrder ==
  ASSUME TypeOK, FlowInv, SerialInv, \A a \in 1..allocated : InOrder(a), NEW w \in Events, WorkerStep(w)
  PROVE  \A a \in 1..allocated' : InOrder(a)'
<1>0. /\ worker \in [Events -> WorkerType] /\ act \in [Activations -> ActType] /\ Live(w)
      /\ UNCHANGED <<origin, allocated>>
  BY DEF TypeOK, Live, WorkerStep, WorkerBegin, WorkerExec, WorkerEnd, WorkerEndParallel, WorkerEndDrop,
     WorkerEndAbort, WorkerEndQueue, engine, drivers
<1>1. ASSUME \/ \E pc : worker' = [worker EXCEPT ![w].pc = pc]
             \/ worker' = [worker EXCEPT ![w] = Returned],
             \/ act' = act
             \/ \E a, b : act' = [act EXCEPT ![a].running = b]
             \/ \E a, b, v : act' = [act EXCEPT ![a].running = b, ![a].abort = v]
      PROVE  \A a \in 1..allocated' : InOrder(a)'
  <2>1. \A a \in Activations : act'[a].queue = act[a].queue
    <3>1. CASE act' = act
      BY <3>1
    <3>2. ASSUME NEW a, NEW b, act' = [act EXCEPT ![a].running = b]
          PROVE  \A c \in Activations : act'[c].queue = act[c].queue
      BY <1>0, <3>2 DEF ActType
    <3>3. ASSUME NEW a, NEW b, NEW v, act' = [act EXCEPT ![a].running = b, ![a].abort = v]
          PROVE  \A c \in Activations : act'[c].queue = act[c].queue
      BY <1>0, <3>3 DEF ActType
    <3> QED
      BY <1>1, <3>1, <3>2, <3>3
  <2>2. \A u \in Events : (Live(u))' =>
          Live(u) /\ worker'[u].at = worker[u].at /\ worker'[u].ev = worker[u].ev
    <3>1. ASSUME NEW pc, worker' = [worker EXCEPT ![w].pc = pc]
          PROVE  \A u \in Events : (Live(u))' =>
                   Live(u) /\ worker'[u].at = worker[u].at /\ worker'[u].ev = worker[u].ev
      BY <1>0, <3>1 DEF Live, WorkerType
    <3>2. CASE worker' = [worker EXCEPT ![w] = Returned]
      <4>1. Returned.pc = "done"
        BY DEF Returned, NoWorker
      <4> QED
        BY <1>0, <3>2, <4>1 DEF Live
    <3> QED
      BY <1>1, <3>1, <3>2
  <2>3. SameOrder
    BY <1>0, <2>1, <2>2 DEF SameOrder
  <2> QED
    BY <1>0, <2>3, OrderSame
<1>2. CASE WorkerBegin(w) \/ WorkerExec(w)
  BY <1>1, <1>2 DEF WorkerBegin, WorkerExec
<1>3. CASE WorkerEndParallel(w) \/ WorkerEndDrop(w) \/ WorkerEndAbort(w)
  <2>1. worker' = [worker EXCEPT ![w] = Returned]
    BY <1>3 DEF WorkerEndParallel, WorkerEndDrop, WorkerEndAbort
  <2>2. \/ act' = act
        \/ \E a, b : act' = [act EXCEPT ![a].running = b]
        \/ \E a, b, v : act' = [act EXCEPT ![a].running = b, ![a].abort = v]
    BY <1>3 DEF WorkerEndParallel, WorkerEndDrop, WorkerEndAbort
  <2> QED
    BY <1>1, <2>1, <2>2
<1>4. CASE WorkerEndQueue(w) /\ act[worker[w].at].queue = <<>>
  <2>1. /\ worker' = [worker EXCEPT ![w] = Returned]
        /\ act' = [act EXCEPT ![worker[w].at].running = FALSE]
    BY <1>4 DEF WorkerEndQueue
  <2> QED
    BY <1>1, <2>1
<1>5. CASE WorkerEndQueue(w) /\ act[worker[w].at].queue # <<>>
  <2>1. /\ worker' = [worker EXCEPT ![w].pc = "begin", ![w].ev = Head(act[worker[w].at].queue)]
        /\ act' = [act EXCEPT ![worker[w].at].queue = Tail(act[worker[w].at].queue)]
    BY <1>5 DEF WorkerEndQueue
  <2> QED
    BY <1>0, <1>5, <2>1, DrainOrder
<1> QED
  BY <1>2, <1>3, <1>4, <1>5 DEF WorkerStep, WorkerEnd

\* At the gate a worker starts with nothing queued, or the event is queued or dropped.
LEMMA GateOrder ==
  ASSUME TypeOK, FlowInv, SerialInv, OrderInv, NEW d \in Dispatchers,
         \/ GateParallel(d) \/ GateDrop(d) \/ GateQueue(d) \/ GateAbort(d) \/ GateAbortCancel(d)
         \/ AbortResume(d)
  PROVE  \A a \in 1..allocated' : InOrder(a)'
<1>0. /\ act \in [Activations -> ActType] /\ worker \in [Events -> WorkerType]
      /\ disp[d].pc \in {"gate", "await"} /\ UNCHANGED <<origin, allocated>>
      /\ \A a \in 1..allocated : InOrder(a)
  BY DEF TypeOK, OrderInv, GateParallel, GateDrop, GateQueue, GateAbort, GateAbortCancel, AbortResume,
     AtGate, engine, drivers
<1>1. /\ disp[d].at \in 1..allocated /\ 1..allocated \subseteq Activations /\ disp[d].ev \in Events
      /\ Serial(disp[d].at)
  BY <1>0, InHand, Bounds DEF TypeOK, Activations, FlowInv, Holders, DispatchersHold, HasActivation,
     HasEvent, SerialInv
<1> PICK at \in 1..allocated : at = disp[d].at
  BY <1>1
<1>2. /\ disp[d].pc = "gate" => disp[d].cfg.mode = ModeOf(at)
      /\ disp[d].pc = "await" => ModeOf(at) = "abort"
  BY DEF SerialInv, Routed
<1>3. ASSUME NEW kind, StartWorker(d, kind), ModeOf(at) # "queue" \/ ~act[at].running,
             \A a \in Activations : act'[a].queue = act[a].queue
      PROVE  \A a \in 1..allocated' : InOrder(a)'
  <2>1. act[at].queue = <<>>
    BY <1>1, <1>3 DEF Serial
  <2> QED
    BY <1>0, <1>1, <1>3, <2>1, StartOrder
<1>4. ASSUME act' = [act EXCEPT ![at].running = TRUE]
      PROVE  \A a \in Activations : act'[a].queue = act[a].queue
  BY <1>0, <1>4 DEF ActType
<1>5. CASE GateParallel(d)
  <2>1. act' = act /\ ModeOf(at) # "queue" /\ StartWorker(d, "parallel")
    BY <1>2, <1>5 DEF GateParallel, AtGate
  <2> QED
    BY <1>3, <2>1
<1>6. CASE GateDrop(d)
  <2>1. CASE act[at].running
    <3>1. act' = act /\ worker' = worker
      BY <1>6, <2>1 DEF GateDrop
    <3> QED
      BY <1>0, <3>1, IdleOrder
  <2>2. CASE ~act[at].running
    <3>1. act' = [act EXCEPT ![at].running = TRUE] /\ StartWorker(d, "drop")
      BY <1>6, <2>2 DEF GateDrop
    <3> QED
      BY <1>3, <1>4, <2>2, <3>1
  <2> QED
    BY <2>1, <2>2
<1>7. CASE GateQueue(d)
  <2>1. CASE ~act[at].running
    <3>1. act' = [act EXCEPT ![at].running = TRUE] /\ StartWorker(d, "queue")
      BY <1>7, <2>1 DEF GateQueue
    <3> QED
      BY <1>3, <1>4, <2>1, <3>1
  <2>2. CASE act[at].running
    <3>1. worker' = worker /\ ModeOf(disp[d].at) = "queue" /\ disp[d].pc = "gate"
      BY <1>2, <1>7, <2>2 DEF GateQueue, AtGate
    <3>2. \/ act' = act
          \/ act' = [act EXCEPT ![disp[d].at].queue = Append(act[disp[d].at].queue, disp[d].ev)]
      BY <1>7, <2>2 DEF GateQueue
    <3>3. CASE act' = act
      BY <1>0, <3>1, <3>3, IdleOrder
    <3>4. CASE act' = [act EXCEPT ![disp[d].at].queue = Append(act[disp[d].at].queue, disp[d].ev)]
      BY <1>0, <3>1, <3>4, AppendOrder
    <3> QED
      BY <3>2, <3>3, <3>4
  <2> QED
    BY <2>1, <2>2
<1>8. CASE GateAbort(d) \/ AbortResume(d)
  <2>1. ModeOf(at) # "queue" /\ StartWorker(d, "abort")
    BY <1>2, <1>8 DEF GateAbort, AbortResume, AtGate, StartAbortWorker
  <2>2. act' = [act EXCEPT ![at].running = TRUE, ![at].abort = disp[d].ev]
    BY <1>8 DEF GateAbort, AbortResume, StartAbortWorker
  <2>3. \A a \in Activations : act'[a].queue = act[a].queue
    BY <1>0, <2>2 DEF ActType
  <2> QED
    BY <1>3, <2>1, <2>3
<1>9. CASE GateAbortCancel(d)
  <2>1. act' = act /\ \E v : worker' = [worker EXCEPT ![v].cut = TRUE]
    BY <1>9 DEF GateAbortCancel
  <2>2. SameOrder
    BY <1>0, <2>1 DEF SameOrder, Live, WorkerType
  <2> QED
    BY <1>0, <2>2, OrderSame
<1> QED
  BY <1>5, <1>6, <1>7, <1>8, <1>9

\* Every step keeps the invariant.
LEMMA OrderStep ==
  ASSUME ~Reconfigure, Undebounced, TypeOK, FlowInv, SerialInv, OrderInv, [Next]_vars
  PROVE  OrderInv'
<1>1. \A a \in 1..allocated : InOrder(a)
  BY DEF OrderInv
<1>2. \A a \in 1..allocated' : InOrder(a)'
  BY <1>1, ActivateOrder, OutsideOrder, LoopOrder, WorkerOrder, GateOrder DEF Next, DispatchStep, Gate
<1>3. TimersElsewhere' /\ \A a \in Activations : Arrivals(a)'
  BY TimersStep, ArrivalsStep DEF OrderInv
<1> QED
  BY <1>2, <1>3 DEF OrderInv

\* At the start nothing has been produced.
LEMMA OrderInit == Init => OrderInv
<1> SUFFICES ASSUME Init PROVE OrderInv
  OBVIOUS
<1>1. /\ \A d \in Dispatchers : disp[d].pc = "none" /\ disp[d].ev = Nil
      /\ \A a \in Activations : chan[a] = <<>>
      /\ allocated = 0
  BY DEF Init, Dispatcher
<1>2. \A a \in Activations : Arrivals(a)
  BY <1>1, LoopIn DEF Arrivals, Range
<1> QED
  BY <1>1, <1>2, LoopIn, TimerIn DEF OrderInv, TimersElsewhere

\* In the queue mode without debounce the events of one driver are handled in the order in
\* which it produced them, whichever activation handles them (engine.go dispatchLoop,
\* enqueueAndDrain): what is being handled precedes what is queued, oldest first.
THEOREM AlwaysInOrder ==
  ASSUME ~Reconfigure, Undebounced
  PROVE  Spec => []HandledInOrder
<1>1. TypeOK /\ OneLiveInv /\ FlowInv /\ SerialInv /\ OrderInv /\ [Next]_vars
        => (TypeOK /\ OneLiveInv /\ FlowInv /\ SerialInv /\ OrderInv)'
  BY StepType, StepOneLive, FlowStep, SerialStep, OrderStep
<1>2. OrderInv => HandledInOrder
  BY DEF OrderInv, InOrder, Working, HandledInOrder
<1> QED
  BY InitType, InitOneLive, FlowInit, SerialInit, OrderInit, <1>1, <1>2, PTL DEF Spec

-----------------------------------------------------------------------------
(* One action at a time in the abort mode. *)

\* at.running says whether the one worker there may be is there, at.abortCancel and
\* at.abortDone are its, and whoever waits, waits for it.
AbortSerial(a) ==
  /\ act[a].running <=> Working(a) # {}
  /\ \A v, w \in Working(a) : v = w
  /\ Working(a) \subseteq {act[a].abort}
  /\ \A d \in Dispatchers :
       disp[d].pc = "await" /\ disp[d].at = a => Working(a) \subseteq {disp[d].awaits}

\* The inductive invariant behind AbortReplaces.
AbortInv == \A a \in 1..allocated : ModeOf(a) = "abort" => AbortSerial(a)

\* Nobody begins to wait for an aborted action.
AwaitsStay == \A d \in Dispatchers : disp'[d].pc = "await" => disp'[d] = disp[d]

LEMMA AbortKept ==
  ASSUME NEW a \in Activations, AbortSerial(a), act'[a].running = act[a].running,
         act'[a].abort = act[a].abort, Working(a)' = Working(a),
         \A d \in Dispatchers : disp'[d].pc = "await" /\ disp'[d].at = a => disp'[d] = disp[d]
  PROVE  AbortSerial(a)'
BY DEF AbortSerial

\* A step that concerns one activation.
LEMMA AbortAt ==
  ASSUME TypeOK, SameRoles, AbortInv, NEW at \in 1..allocated,
         \A a \in Activations : a # at =>
           /\ act'[a].running = act[a].running /\ act'[a].abort = act[a].abort
           /\ Working(a)' = Working(a)
           /\ \A d \in Dispatchers : disp'[d].pc = "await" /\ disp'[d].at = a => disp'[d] = disp[d],
         ModeOf(at) = "abort" => AbortSerial(at)'
  PROVE  AbortInv'
<1>0. /\ 1..allocated \subseteq Activations /\ allocated' = allocated
      /\ \A a \in 1..allocated : ModeOf(a)' = ModeOf(a)
  BY ModesStay, Bounds DEF TypeOK, Activations, SameRoles
<1>1. ASSUME NEW a \in 1..allocated, a # at, ModeOf(a) = "abort" PROVE AbortSerial(a)'
  <2>1. AbortSerial(a)
    BY <1>1 DEF AbortInv
  <2> QED
    BY <1>0, <1>1, <2>1, AbortKept
<1>2. \A a \in 1..allocated : ModeOf(a)' = "abort" => AbortSerial(a)'
  <2> SUFFICES ASSUME NEW a \in 1..allocated, ModeOf(a) = "abort" PROVE AbortSerial(a)'
    BY <1>0
  <2>1. CASE a = at
    BY <2>1
  <2> QED
    BY <1>1, <2>1
<1> QED
  BY <1>0, <1>2 DEF AbortInv

\* A step that concerns none.
LEMMA AbortQuiet ==
  ASSUME TypeOK, SameRoles, AbortInv, AwaitsStay, worker' = worker,
         \A a \in Activations : act'[a].running = act[a].running /\ act'[a].abort = act[a].abort
  PROVE  AbortInv'
<1>0. /\ 1..allocated \subseteq Activations /\ allocated' = allocated
      /\ \A a \in 1..allocated : ModeOf(a)' = ModeOf(a)
  BY ModesStay, Bounds DEF TypeOK, Activations, SameRoles
<1>1. \A a \in Activations : Working(a)' = Working(a)
  BY DEF Working, Live
<1>2. ASSUME NEW a \in 1..allocated, ModeOf(a) = "abort" PROVE AbortSerial(a)'
  <2>1. AbortSerial(a)
    BY <1>0, <1>2 DEF AbortInv
  <2> QED
    BY <1>0, <1>1, <2>1, AbortKept DEF AwaitsStay
<1> QED
  BY <1>0, <1>2 DEF AbortInv

-----------------------------------------------------------------------------

\* Every step but the one that aborts.
LEMMA RestingAwaits ==
  ASSUME TypeOK, NEW d \in Dispatchers, disp' = [disp EXCEPT ![d] = Rest(d)]
  PROVE  AwaitsStay
<1>1. disp \in [Dispatchers -> DispType]
  BY DEF TypeOK
<1> QED
  BY <1>1, Resting DEF AwaitsStay

LEMMA LoopAwaits ==
  ASSUME TypeOK, NEW a \in Activations, LoopStep(a)
  PROVE  AwaitsStay
<1>0. disp \in [Dispatchers -> DispType] /\ Loop(a) \in Dispatchers /\ disp[Loop(a)] \in DispType
  BY LoopIn DEF TypeOK
<1>1. \A pc, c : Dispatcher(pc, c).pc = pc
  BY DEF Dispatcher
<1>2. ASSUME NEW r, r.pc # "await", disp' = [disp EXCEPT ![Loop(a)] = r] PROVE AwaitsStay
  BY <1>0, <1>2 DEF AwaitsStay
<1>3. CASE LoopCancelled(a)
  BY <1>1, <1>2, <1>3 DEF LoopCancelled
<1>4. CASE LoopReceive(a)
  BY <1>0, <1>4 DEF LoopReceive, DispType, AwaitsStay
<1>5. CASE LoopClosed(a)
  BY <1>0, <1>5 DEF LoopClosed, DispType, AwaitsStay
<1>6. CASE LoopLookup(a)
  <2>1. CASE disp' = [disp EXCEPT ![Loop(a)] = Rest(Loop(a))]
    BY <1>0, <2>1, RestingAwaits
  <2>2. ASSUME NEW at, NEW pc, pc # "await", disp' = [disp EXCEPT ![Loop(a)].at = at, ![Loop(a)].pc = pc]
        PROVE  AwaitsStay
    BY <1>0, <2>2 DEF DispType, AwaitsStay
  <2> QED
    BY <1>6, <2>1, <2>2 DEF LoopLookup
<1>7. CASE LoopArm(a)
  <2>1. PICK e, at : disp' = [AfterTimerStop(at) EXCEPT
                       ![Timer(e)] = [Dispatcher("armed", a) EXCEPT !.at = at], ![Loop(a)] = Rest(Loop(a))]
    BY <1>7 DEF LoopArm
  <2>2. PICK r : r = [Dispatcher("armed", a) EXCEPT !.at = at]
    OBVIOUS
  <2>3. \A d \in Dispatchers :
          disp'[d] = disp[d] \/ disp'[d] = Dispatcher("none", Nil) \/ disp'[d] = Rest(Loop(a)) \/ disp'[d] = r
    BY <2>1, <2>2 DEF AfterTimerStop
  <2>4. r.pc = "armed" /\ Dispatcher("none", Nil).pc = "none" /\ Rest(Loop(a)).pc \in {"none", "select"}
    BY <1>0, <2>2, Resting DEF Dispatcher
  <2> QED
    BY <2>3, <2>4 DEF AwaitsStay
<1>8. CASE LoopError(a)
  BY <1>1, <1>2, <1>8 DEF LoopError
<1>9. CASE LoopDeactivate(a)
  <2>1. CASE disp' = [disp EXCEPT ![Loop(a)] = Dispatcher("none", Nil)]
    <3>1. Dispatcher("none", Nil).pc # "await"
      BY <1>1
    <3> QED
      BY <1>2, <2>1, <3>1
  <2>2. ASSUME NEW at, disp' = [AfterTimerStop(at) EXCEPT ![Loop(a)] = Dispatcher("none", Nil)]
        PROVE  AwaitsStay
    BY <1>0, <1>1, <2>2 DEF AfterTimerStop, AwaitsStay
  <2> QED
    BY <1>9, <2>1, <2>2 DEF LoopDeactivate
<1> QED
  BY <1>3, <1>4, <1>5, <1>6, <1>7, <1>8, <1>9 DEF LoopStep

LEMMA TimerAwaits ==
  ASSUME TypeOK, NEW e \in Events, TimerStep(e)
  PROVE  AwaitsStay
<1>0. disp \in [Dispatchers -> DispType] /\ Timer(e) \in Dispatchers /\ disp[Timer(e)] \in DispType
  BY TimerIn DEF TypeOK
<1>1. CASE TimerFire(e)
  BY <1>0, <1>1 DEF TimerFire, DispType, AwaitsStay
<1>2. CASE TimerTake(e)
  <2>1. \/ disp' = [disp EXCEPT ![Timer(e)] = Dispatcher("none", Nil)]
        \/ \E v : disp' = [disp EXCEPT ![Timer(e)] = [disp[Timer(e)] EXCEPT !.pc = "dispatch", !.ev = v]]
    BY <1>2 DEF TimerTake
  <2>2. Dispatcher("none", Nil).pc = "none"
    BY DEF Dispatcher
  <2> QED
    BY <1>0, <2>1, <2>2 DEF DispType, AwaitsStay
<1> QED
  BY <1>1, <1>2 DEF TimerStep

\* No step outside the gate and the workers touches at.running and what aborts.
LEMMA AbortFields ==
  ASSUME TypeOK,
         \/ act' = act
         \/ \E a, b : act' = [act EXCEPT ![a].cancelled = b]
         \/ \E a, b : act' = [act EXCEPT ![a].pending = b]
         \/ \E a, b, c : act' = [act EXCEPT ![a].pending = b, ![a].timer = c]
         \/ \E a, b : act' = [act EXCEPT ![a].queue = b]
  PROVE  \A a \in Activations : act'[a].running = act[a].running /\ act'[a].abort = act[a].abort
<1>0. act \in [Activations -> ActType]
  BY DEF TypeOK
<1>1. CASE act' = act
  BY <1>1
<1>2. ASSUME NEW a, NEW b, act' = [act EXCEPT ![a].cancelled = b]
      PROVE  \A c \in Activations : act'[c].running = act[c].running /\ act'[c].abort = act[c].abort
  BY <1>0, <1>2 DEF ActType
<1>3. ASSUME NEW a, NEW b, act' = [act EXCEPT ![a].pending = b]
      PROVE  \A c \in Activations : act'[c].running = act[c].running /\ act'[c].abort = act[c].abort
  BY <1>0, <1>3 DEF ActType
<1>4. ASSUME NEW a, NEW b, NEW c, act' = [act EXCEPT ![a].pending = b, ![a].timer = c]
      PROVE  \A f \in Activations : act'[f].running = act[f].running /\ act'[f].abort = act[f].abort
  BY <1>0, <1>4 DEF ActType
<1>5. ASSUME NEW a, NEW b, act' = [act EXCEPT ![a].queue = b]
      PROVE  \A c \in Activations : act'[c].running = act[c].running /\ act'[c].abort = act[c].abort
  BY <1>0, <1>5 DEF ActType
<1> QED
  BY <1>1, <1>2, <1>3, <1>4, <1>5

\* The registry, the critical sections, the drivers, and the goroutines up to the gate.
LEMMA OutsideAbort ==
  ASSUME TypeOK, SameRoles, AbortInv,
         \/ \E t \in Triggers : RegistryChange(t) \/ Deactivate(t)
         \/ StopAll \/ MutexStep
         \/ \E a \in Activations : Produce(a) \/ Crash(a)
         \/ UNCHANGED vars
  PROVE  AbortInv'
<1>1. worker' = worker
  BY DEF RegistryChange, Deactivate, StopAll, MutexStep, DeactivateStop, DeactivateReturn,
     StopAllCancel, StopAllStop, StopAllReturn, Produce, Crash, vars
<1>2. act' = act \/ \E a, b : act' = [act EXCEPT ![a].cancelled = b]
  BY DEF RegistryChange, Deactivate, BeginDeactivate, StopAll, MutexStep, DeactivateStop,
     DeactivateReturn, StopAllCancel, StopAllStop, StopAllReturn, Produce, Crash, vars
<1>3. disp' = disp \/ \E t : disp' = AfterTimerStop(active[t])
  BY DEF RegistryChange, Deactivate, StopAll, MutexStep, DeactivateStop, DeactivateReturn,
     StopAllCancel, StopAllStop, StopAllReturn, Produce, Crash, vars
<1>4. AwaitsStay
  BY <1>3 DEF AfterTimerStop, Dispatcher, AwaitsStay
<1> QED
  BY <1>1, <1>2, <1>4, AbortFields, AbortQuiet

LEMMA LoopAbort ==
  ASSUME TypeOK, SameRoles, AbortInv,
         \/ \E a \in Activations : LoopStep(a)
         \/ \E e \in Events : TimerStep(e)
         \/ \E d \in Dispatchers : Dispatch(d) \/ GateAbortPanic(d)
  PROVE  AbortInv'
<1>1. worker' = worker
  BY DEF LoopStep, LoopCancelled, LoopReceive, LoopClosed, LoopLookup, LoopArm, LoopError, LoopDeactivate,
     TimerStep, TimerFire, TimerTake, Dispatch, GateAbortPanic
<1>2. ASSUME NEW a \in Activations, LoopStep(a) PROVE AbortInv'
  <2>1. \/ act' = act
        \/ \E b, c : act' = [act EXCEPT ![b].cancelled = c]
        \/ \E b, c, f : act' = [act EXCEPT ![b].pending = c, ![b].timer = f]
    <3>1. CASE LoopArm(a)
      BY <3>1 DEF LoopArm
    <3>2. CASE LoopDeactivate(a)
      BY <3>2 DEF LoopDeactivate, BeginDeactivate
    <3>3. CASE ~LoopArm(a) /\ ~LoopDeactivate(a)
      BY <1>2, <3>3 DEF LoopStep, LoopCancelled, LoopReceive, LoopClosed, LoopLookup, LoopError
    <3> QED
      BY <3>1, <3>2, <3>3
  <2> QED
    BY <1>1, <1>2, <2>1, LoopAwaits, AbortFields, AbortQuiet
<1>3. ASSUME NEW e \in Events, TimerStep(e) PROVE AbortInv'
  <2>1. act' = act \/ \E b, c : act' = [act EXCEPT ![b].pending = c]
    BY <1>3 DEF TimerStep, TimerFire, TimerTake
  <2> QED
    BY <1>1, <1>3, <2>1, TimerAwaits, AbortFields, AbortQuiet
<1>4. ASSUME NEW d \in Dispatchers, Dispatch(d) \/ GateAbortPanic(d) PROVE AbortInv'
  <2>0. disp \in [Dispatchers -> DispType] /\ disp[d] \in DispType
    BY DEF TypeOK
  <2>1. act' = act
    BY <1>4 DEF Dispatch, GateAbortPanic
  <2>2. AwaitsStay
    <3>1. CASE disp' = [disp EXCEPT ![d] = Rest(d)]
      BY <3>1, RestingAwaits
    <3>2. ASSUME NEW c, disp' = [disp EXCEPT ![d].pc = "gate", ![d].cfg = c] PROVE AwaitsStay
      BY <2>0, <3>2 DEF DispType, AwaitsStay
    <3>3. CASE disp' = disp
      BY <3>3 DEF AwaitsStay
    <3> QED
      BY <1>4, <3>1, <3>2, <3>3 DEF Dispatch, GateAbortPanic
  <2> QED
    BY <1>1, <2>1, <2>2, AbortFields, AbortQuiet
<1> QED
  BY <1>2, <1>3, <1>4

\* A worker goes on or ends.
LEMMA WorkerAbort ==
  ASSUME TypeOK, SerialInv, SameRoles, AbortInv, NEW w \in Events, WorkerStep(w)
  PROVE  AbortInv'
<1>0. /\ worker \in [Events -> WorkerType] /\ act \in [Activations -> ActType] /\ disp' = disp
      /\ \A a \in Activations : act[a] \in ActType
      /\ 1..allocated \subseteq Activations /\ allocated' = allocated /\ Live(w)
  BY Bounds DEF TypeOK, Activations, SameRoles, Live, WorkerStep, WorkerBegin, WorkerExec, WorkerEnd,
     WorkerEndParallel, WorkerEndDrop, WorkerEndAbort, WorkerEndQueue
<1>1. worker[w].at \in 1..allocated /\ worker[w].kind = ModeOf(worker[w].at)
  BY <1>0 DEF SerialInv, WorkersKnown
<1> PICK at \in 1..allocated : at = worker[w].at
  BY <1>1
<1>2. ASSUME worker' = [worker EXCEPT ![w] = Returned]
      PROVE  \A a \in Activations : Working(a)' = Working(a) \ {w}
  <2>1. Returned.pc = "done"
    BY DEF Returned, NoWorker
  <2> QED
    BY <1>0, <1>2, <2>1 DEF Working, Live
<1>3. \A a \in Activations : a # at => w \notin Working(a)
  BY DEF Working
<1>4. CASE WorkerBegin(w) \/ WorkerExec(w)
  <2>1. act' = act /\ \E pc \in {"exec", "end"} : worker' = [worker EXCEPT ![w].pc = pc]
    BY <1>4 DEF WorkerBegin, WorkerExec
  <2>2. \A a \in Activations : Working(a)' = Working(a)
    BY <1>0, <2>1 DEF Working, Live, WorkerType
  <2>3. ModeOf(at) = "abort" => AbortSerial(at)'
    BY <1>0, <2>1, <2>2, AbortKept DEF AbortInv
  <2> QED
    BY <1>0, <2>1, <2>2, <2>3, AbortAt
<1>5. CASE WorkerEndParallel(w)
  <2>1. act' = act /\ worker' = [worker EXCEPT ![w] = Returned] /\ ModeOf(at) # "abort"
    BY <1>1, <1>5 DEF WorkerEndParallel
  <2>2. \A a \in Activations : a # at => Working(a)' = Working(a)
    BY <1>2, <1>3, <2>1
  <2> QED
    BY <1>0, <2>1, <2>2, AbortAt
<1>6. CASE WorkerEndDrop(w)
  <2>1. /\ act' = [act EXCEPT ![at].running = FALSE] /\ worker' = [worker EXCEPT ![w] = Returned]
        /\ ModeOf(at) # "abort"
    BY <1>1, <1>6 DEF WorkerEndDrop
  <2>2. \A a \in Activations : a # at => Working(a)' = Working(a) /\ act'[a] = act[a]
    BY <1>0, <1>2, <1>3, <2>1
  <2> QED
    BY <1>0, <2>1, <2>2, AbortAt
<1>7. CASE WorkerEndAbort(w)
  <2>1. /\ act' = [act EXCEPT ![at].running = FALSE, ![at].abort = Nil]
        /\ worker' = [worker EXCEPT ![w] = Returned] /\ ModeOf(at) = "abort"
    BY <1>1, <1>7 DEF WorkerEndAbort
  <2>2. \A a \in Activations : a # at => Working(a)' = Working(a) /\ act'[a] = act[a]
    BY <1>0, <1>2, <1>3, <2>1
  <2>3. Working(at)' = {}
    <3>1. AbortSerial(at) /\ w \in Working(at)
      BY <1>0, <2>1 DEF AbortInv, Working
    <3>2. Working(at) = {w}
      BY <3>1 DEF AbortSerial
    <3> QED
      BY <1>0, <1>2, <2>1, <3>2
  <2>4. act'[at].running = FALSE
    BY <1>0, <2>1 DEF ActType
  <2>5. AbortSerial(at)'
    BY <2>3, <2>4 DEF AbortSerial
  <2> QED
    BY <1>0, <2>2, <2>5, AbortAt
<1>8. CASE WorkerEndQueue(w)
  <2>1. /\ ModeOf(at) # "abort"
        /\ \/ worker' = [worker EXCEPT ![w] = Returned]
           \/ \E v : worker' = [worker EXCEPT ![w].pc = "begin", ![w].ev = v]
        /\ \/ act' = [act EXCEPT ![at].running = FALSE]
           \/ \E q : act' = [act EXCEPT ![at].queue = q]
    BY <1>1, <1>8 DEF WorkerEndQueue
  <2>2. \A a \in Activations : a # at => act'[a] = act[a]
    BY <1>0, <2>1
  <2>3. \A a \in Activations : a # at => Working(a)' = Working(a)
    <3>1. CASE worker' = [worker EXCEPT ![w] = Returned]
      BY <1>2, <1>3, <3>1
    <3>2. ASSUME NEW v, worker' = [worker EXCEPT ![w].pc = "begin", ![w].ev = v]
          PROVE  \A a \in Activations : a # at => Working(a)' = Working(a)
      BY <1>0, <3>2 DEF Working, Live, WorkerType
    <3> QED
      BY <2>1, <3>1, <3>2
  <2> QED
    BY <1>0, <2>1, <2>2, <2>3, AbortAt
<1> QED
  BY <1>4, <1>5, <1>6, <1>7, <1>8 DEF WorkerStep, WorkerEnd

\* At the gate.
LEMMA GateAborts ==
  ASSUME TypeOK, FlowInv, SerialInv, SameRoles, OneWaits, AbortInv, NEW d \in Dispatchers,
         \/ GateParallel(d) \/ GateDrop(d) \/ GateQueue(d) \/ GateAbort(d) \/ GateAbortCancel(d)
         \/ AbortResume(d)
  PROVE  AbortInv'
<1>0. /\ act \in [Activations -> ActType] /\ worker \in [Events -> WorkerType]
      /\ disp \in [Dispatchers -> DispType] /\ disp[d] \in DispType
      /\ \A a \in Activations : act[a] \in ActType
      /\ disp[d].pc \in {"gate", "await"}
  BY DEF TypeOK, GateParallel, GateDrop, GateQueue, GateAbort, GateAbortCancel, AbortResume, AtGate
<1>1. /\ disp[d].at \in 1..allocated /\ 1..allocated \subseteq Activations /\ disp[d].ev \in Events
  BY <1>0, InHand, Bounds DEF TypeOK, Activations, FlowInv, Holders, DispatchersHold, HasActivation,
     HasEvent
<1> PICK at \in 1..allocated : at = disp[d].at
  BY <1>1
<1> PICK e0 \in Events : e0 = disp[d].ev
  BY <1>1
<1>2. /\ disp[d].pc = "gate" => disp[d].cfg.mode = ModeOf(at)
      /\ disp[d].pc = "await" => ModeOf(at) = "abort"
  BY <1>0 DEF SerialInv, Routed
<1>3. ASSUME NEW kind, StartWorker(d, kind)
      PROVE  /\ AwaitsStay
             /\ \A a \in Activations : a # at => Working(a)' = Working(a)
             /\ Working(at)' = Working(at) \union {e0}
             /\ disp'[d].pc # "await"
  <2>1. AwaitsStay /\ disp'[d] = Rest(d)
    BY <1>0, <1>3, RestingAwaits DEF StartWorker
  <2>2. worker[e0].pc = "none"
    <3>1. <<"disp", d>> \in Places(e0)
      BY DEF Places, PlacesIn
    <3> QED
      BY <3>1 DEF FlowInv, OnePlace
  <2>3. /\ \A w \in Events : w # e0 => worker'[w] = worker[w]
        /\ worker'[e0].pc = "begin" /\ worker'[e0].at = at
    BY <1>0, <1>3 DEF StartWorker
  <2>4. /\ \A a \in Activations : a # at => Working(a)' = Working(a)
        /\ Working(at)' = Working(at) \union {e0}
    BY <2>2, <2>3 DEF Working, Live
  <2> QED
    BY <2>1, <2>4, Resting
<1>4. ASSUME ModeOf(at) # "abort", AwaitsStay, \A a \in Activations : a # at => act'[a] = act[a],
             \A a \in Activations : a # at => Working(a)' = Working(a)
      PROVE  AbortInv'
  BY <1>4, AbortAt DEF AwaitsStay
<1>5. CASE GateParallel(d)
  <2>1. act' = act /\ ModeOf(at) # "abort" /\ StartWorker(d, "parallel")
    BY <1>2, <1>5 DEF GateParallel, AtGate
  <2> QED
    BY <1>3, <1>4, <2>1
<1>6. CASE GateDrop(d) \/ GateQueue(d)
  <2>1. ModeOf(at) # "abort"
    BY <1>2, <1>6 DEF GateDrop, GateQueue, AtGate
  <2>2. /\ \/ act' = act \/ act' = [act EXCEPT ![at].running = TRUE]
           \/ \E q : act' = [act EXCEPT ![at].queue = q]
        /\ \/ worker' = worker /\ disp' = [disp EXCEPT ![d] = Rest(d)]
           \/ StartWorker(d, "drop") \/ StartWorker(d, "queue")
    BY <1>6 DEF GateDrop, GateQueue
  <2>3. \A a \in Activations : a # at => act'[a] = act[a]
    BY <1>0, <2>2
  <2>4. CASE worker' = worker /\ disp' = [disp EXCEPT ![d] = Rest(d)]
    <3>1. \A a \in Activations : Working(a)' = Working(a)
      BY <2>4 DEF Working, Live
    <3> QED
      BY <1>4, <2>1, <2>3, <2>4, <3>1, RestingAwaits
  <2> QED
    BY <1>3, <1>4, <2>1, <2>2, <2>3, <2>4
<1>7. CASE GateAbort(d) \/ AbortResume(d)
  <2>1. /\ ModeOf(at) = "abort" /\ StartWorker(d, "abort")
        /\ act' = [act EXCEPT ![at].running = TRUE, ![at].abort = e0]
    BY <1>2, <1>7 DEF GateAbort, AbortResume, AtGate, StartAbortWorker
  <2>2. /\ AbortSerial(at)
        /\ \A c \in Dispatchers : disp[c].pc = "await" /\ disp[c].at = at => c = d
    BY <1>0, <2>1 DEF AbortInv, OneWaits
  <2>3. Working(at) = {}
    <3>1. CASE GateAbort(d)
      BY <2>2, <3>1 DEF GateAbort, AbortSerial
    <3>2. CASE AbortResume(d)
      <4>1. disp[d].pc = "await" /\ disp[d].at = at /\ worker[disp[d].awaits].pc = "done"
        BY <2>2, <3>2 DEF AbortResume
      <4>2. Working(at) \subseteq {disp[d].awaits}
        BY <2>2, <4>1 DEF AbortSerial
      <4> QED
        BY <4>1, <4>2 DEF Working, Live
    <3> QED
      BY <1>7, <3>1, <3>2
  <2>4. /\ Working(at)' = {e0} /\ AwaitsStay /\ disp'[d].pc # "await"
        /\ \A a \in Activations : a # at => Working(a)' = Working(a)
    BY <1>3, <2>1, <2>2, <2>3
  <2>5. act'[at].running = TRUE /\ act'[at].abort = e0 /\ \A a \in Activations : a # at => act'[a] = act[a]
    BY <1>0, <1>1, <2>1 DEF ActType
  <2>6. AbortSerial(at)'
    <3>1. \A c \in Dispatchers : ~(disp'[c].pc = "await" /\ disp'[c].at = at)
      BY <2>2, <2>4 DEF AwaitsStay
    <3> QED
      BY <2>4, <2>5, <3>1 DEF AbortSerial
  <2> QED
    BY <2>4, <2>5, <2>6, AbortAt DEF AwaitsStay
<1>8. CASE GateAbortCancel(d)
  <2>1. /\ ModeOf(at) = "abort" /\ act' = act
        /\ worker' = [worker EXCEPT ![act[at].abort].cut = TRUE]
        /\ disp' = [disp EXCEPT ![d].pc = "await", ![d].awaits = act[at].abort]
    BY <1>2, <1>8 DEF GateAbortCancel, AtGate
  <2>2. AbortSerial(at)
    BY <2>1 DEF AbortInv
  <2>3. \A a \in Activations : Working(a)' = Working(a)
    BY <1>0, <2>1 DEF Working, Live, WorkerType
  <2>4. /\ disp'[d].awaits = act[at].abort /\ disp'[d].at = at
        /\ \A c \in Dispatchers : c # d => disp'[c] = disp[c]
    BY <1>0, <2>1 DEF DispType
  <2>6. AbortSerial(at)'
    <3>1. /\ Working(at)' = Working(at) /\ act'[at].running = act[at].running /\ act'[at].abort = act[at].abort
          /\ disp'[d].awaits = act[at].abort
          /\ \A c \in Dispatchers : c # d => disp'[c] = disp[c]
      BY <1>1, <2>1, <2>3, <2>4
    <3>2. /\ act[at].running <=> Working(at) # {}
          /\ \A v, w \in Working(at) : v = w
          /\ Working(at) \subseteq {act[at].abort}
          /\ \A c \in Dispatchers :
               disp[c].pc = "await" /\ disp[c].at = at => Working(at) \subseteq {disp[c].awaits}
      BY <2>2 DEF AbortSerial
    <3> QED
      BY ONLY <3>1, <3>2 DEF AbortSerial
  <2> QED
    <3>1. \A a \in Activations : a # at =>
            /\ act'[a].running = act[a].running /\ act'[a].abort = act[a].abort
            /\ \A c \in Dispatchers : disp'[c].pc = "await" /\ disp'[c].at = a => disp'[c] = disp[c]
      BY <2>1, <2>4
    <3> QED
      BY <2>3, <2>6, <3>1, AbortAt
<1> QED
  BY <1>5, <1>6, <1>7, <1>8

\* A new activation has no worker and is not running.
LEMMA ActivateAbort ==
  ASSUME ~Reconfigure, TypeOK, FlowInv, SerialInv, AbortInv, NEW t \in Triggers, Activate(t)
  PROVE  AbortInv'
<1>0. /\ act \in [Activations -> ActType] /\ disp \in [Dispatchers -> DispType]
      /\ allocated \in Nat /\ allocated' = allocated + 1 /\ allocated + 1 \in Activations
      /\ act' = [act EXCEPT ![allocated + 1] = NewAct(t)]
      /\ disp' = [disp EXCEPT ![Loop(allocated + 1)] = Dispatcher("select", allocated + 1)]
      /\ worker' = worker /\ cfg' = cfg
      /\ 1..allocated \subseteq Activations
  BY Bounds DEF TypeOK, Activate, Activations, registry
<1> PICK b \in Activations : b = allocated + 1
  BY <1>0
<1>1. b \notin 1..allocated /\ \A a \in 1..allocated' : a = b \/ a \in 1..allocated
  BY <1>0
<1>2. /\ \A a \in 1..allocated : act'[a] = act[a]
      /\ \A d \in Dispatchers : disp'[d].pc = "await" => disp'[d] = disp[d]
      /\ act'[b].running = FALSE
      /\ \A a \in Activations : Working(a)' = Working(a)
  <2>1. \A a \in 1..allocated : a # b
    BY <1>1
  <2>2. Dispatcher("select", b).pc = "select"
    BY DEF Dispatcher
  <2> QED
    BY <1>0, <2>1, <2>2 DEF NewAct, Working, Live
<1>3. ASSUME NEW a \in 1..allocated, ModeOf(a)' = "abort" PROVE AbortSerial(a)'
  <2>1. ModeOf(a) = "abort"
    BY <1>0, <1>2, <1>3 DEF ModeOf, TriggerOf
  <2>2. AbortSerial(a)
    BY <2>1 DEF AbortInv
  <2> QED
    BY <1>0, <1>2, <2>2, AbortKept
<1>4. AbortSerial(b)'
  <2>1. Working(b)' = {}
    BY <1>1, <1>2 DEF Working, SerialInv, WorkersKnown
  <2> QED
    BY <1>2, <2>1 DEF AbortSerial
<1> QED
  BY <1>1, <1>3, <1>4 DEF AbortInv

\* Every step keeps the invariant.
LEMMA AbortStep ==
  ASSUME ~Reconfigure, TypeOK, FlowInv, SerialInv, OneWaits, AbortInv, [Next]_vars
  PROVE  AbortInv'
<1>1. CASE \E t \in Triggers : Activate(t)
  BY <1>1, ActivateAbort
<1>2. CASE \A t \in Triggers : ~Activate(t)
  <2>1. SameRoles
    BY <1>2, RolesKept
  <2> QED
    BY <1>2, <2>1, OutsideAbort, LoopAbort, WorkerAbort, GateAborts DEF Next, DispatchStep, Gate
<1> QED
  BY <1>1, <1>2

\* daemon-lifecycle.md:64 and :80, engine.go dispatchWithConcurrency: in the abort mode a new
\* action starts when the old one has ended, the aborted one too, whichever loops and debounce
\* timers dispatch, as long as no settings change at run time and no two of them come to the
\* gate of one activation while one waits there.  The code waits for the aborted action without
\* a second look at at.running: two goroutines that do so start two actions, against the
\* document (README, section 6).
THEOREM AbortAlwaysReplaces ==
  ASSUME ~Reconfigure
  PROVE  Spec => AbortReplaces
<1>1. Init => AbortInv
  BY DEF Init, AbortInv
<1>2. TypeOK /\ SerialInv /\ AbortInv => OneAbortWorker
  <2> SUFFICES ASSUME SerialInv, AbortInv, NEW e \in Events, NEW f \in Events, Live(e), Live(f),
                      worker[e].kind = "abort", worker[e].at = worker[f].at
               PROVE  e = f
    BY DEF OneAbortWorker
  <2> PICK a : a = worker[e].at
    OBVIOUS
  <2>1. a \in 1..allocated /\ ModeOf(a) = "abort"
    BY DEF SerialInv, WorkersKnown
  <2>2. e \in Working(a) /\ f \in Working(a) /\ AbortSerial(a)
    BY <2>1 DEF Working, AbortInv
  <2> QED
    BY <2>2 DEF AbortSerial
<1>3. TypeOK /\ FlowInv /\ SerialInv /\ OneWaits /\ AbortInv /\ [Next]_vars => AbortInv'
  BY AbortStep
<1>4. Spec => [](TypeOK /\ SerialInv)
  BY SerialInvariant
<1>5. Spec => [](TypeOK /\ OneLiveInv /\ FlowInv)
  BY FlowInvariant
<1> QED
  BY <1>1, <1>2, <1>3, <1>4, <1>5, PTL DEF Spec, AbortReplaces

=============================================================================
