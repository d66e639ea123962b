----------------------- MODULE DriverAndRecurfileProofs -----------------------
(***************************************************************************)
(* Theorems about two parts that have nothing to do with each other, for   *)
(* every value of their constants: first the plugin drivers, then the      *)
(* commands that work on a recurfile.                                      *)
(***************************************************************************)
EXTENDS PluginDriver, RecurfileCommands, SequenceTheorems, FiniteSetTheorems, TLAPS

-----------------------------------------------------------------------------
(* The plugin drivers. *)

\* Where the monitor is once it has deregistered its driver.
Deregistered == {"check", "closeDone", "closeEvents", "closeExited", "returned"}

\* As much of the type invariant as the argument needs.
Types ==
  /\ owner \in [Drivers -> Triggers]
  /\ created \in Nat
  /\ current \in [Triggers -> 0..MaxDriver]
  /\ router \in [Triggers -> 0..MaxDriver]
  /\ monitor \in [Drivers -> {"none", "wait", "deregister"} \union Deregistered]
  /\ closed \subseteq Drivers
  /\ caller \in [pc : {"idle", "register"} \union StopPCs, at : 0..MaxDriver]
  /\ caller.pc # "idle" => caller.at \in Drivers

\* A driver's channel is registered under its own trigger.
RoutedToOwner == \A t \in Triggers : router[t] # Nil => owner[router[t]] = t

\* It stays deregistered ...
NotRoutedAgain == \A d \in Drivers : monitor[d] \in Deregistered => router[owner[d]] # d

\* ... because Start registers a driver before its monitor runs.
StartsUnmonitored ==
  /\ \A d \in Drivers : d > created => monitor[d] = "none"
  /\ caller.pc = "register" => monitor[caller.at] = "none" /\ caller.at <= created

\* Only the monitor closes the channel.
ClosedByMonitor == \A d \in closed : monitor[d] \in {"closeExited", "returned"}

RouteInv ==
  /\ Types
  /\ RoutedToOwner
  /\ NotRoutedAgain
  /\ StartsUnmonitored
  /\ ClosedByMonitor

-----------------------------------------------------------------------------

LEMMA RouteInvInit == Init => RouteInv
BY DriverAssumption
   DEF Init, RouteInv, Types, RoutedToOwner, NotRoutedAgain, StartsUnmonitored, ClosedByMonitor,
       Deregistered, Nil, Idle, Drivers, StopPCs

LEMMA CallerKeeps ==
  ASSUME RouteInv, CallerStep \/ \E t \in Triggers : Stop(t)
  PROVE  RouteInv'
<1> USE DriverAssumption DEF RouteInv, Types, RoutedToOwner, NotRoutedAgain, StartsUnmonitored,
        ClosedByMonitor, Deregistered, Nil, Idle, Drivers, StopPCs, objects, chans
<1>1. CASE StartReturns
  <2> DEFINE d == caller.at
  <2>1. /\ d \in Drivers /\ owner[d] \in Triggers
        /\ owner' = owner /\ created' = created /\ closed' = closed
        /\ router' = [router EXCEPT ![owner[d]] = d]
        /\ monitor' = [monitor EXCEPT ![d] = "wait"]
        /\ current' = [current EXCEPT ![owner[d]] = d]
        /\ caller' = [pc |-> "idle", at |-> 0]
        /\ monitor[d] = "none"
    BY <1>1 DEF StartReturns
  <2> HIDE DEF d
  <2>2. Types'
    BY <2>1, SMTT(30)
  <2>3. RoutedToOwner'
    BY <2>1
  <2>4. NotRoutedAgain'
    BY <2>1
  <2>5. StartsUnmonitored'
    <3>1. d \in Drivers /\ created \in Nat /\ ~(d > created)
      BY <2>1, <1>1 DEF StartReturns, d
    <3> QED
      BY <2>1, <3>1
  <2>6. ClosedByMonitor'
    BY <2>1
  <2> QED
    BY <2>2, <2>3, <2>4, <2>5, <2>6
<1>2. CASE \E t \in Triggers : Stop(t)
  BY <1>2 DEF Stop
<1>3. CASE StopCheck
  BY <1>3 DEF StopCheck
<1>4. CASE StopCloseDone
  BY <1>4 DEF StopCloseDone
<1>5. CASE StopDeregister
  <2> DEFINE t == owner[caller.at]
  <2>1. /\ t \in Triggers
        /\ router' = [router EXCEPT ![t] = 0]
        /\ caller' \in [pc : {"signal", "exit"}, at : Drivers]
        /\ UNCHANGED <<owner, created, current, monitor, closed>>
    BY <1>5 DEF StopDeregister, DeregisterRoute
  <2> HIDE DEF t
  <2>2. Types'
    BY <2>1, SMTT(30)
  <2>3. RoutedToOwner' /\ NotRoutedAgain'
    BY <2>1, SMTT(30)
  <2>4. StartsUnmonitored' /\ ClosedByMonitor'
    BY <2>1
  <2> QED
    BY <2>2, <2>3, <2>4
<1>6. CASE StopSignal
  BY <1>6 DEF StopSignal
<1>7. CASE StopTimeout
  BY <1>7 DEF StopTimeout
<1>8. CASE StopReturns
  BY <1>8 DEF StopReturns
<1> QED
  BY <1>1, <1>2, <1>3, <1>4, <1>5, <1>6, <1>7, <1>8 DEF CallerStep

LEMMA MonitorKeeps ==
  ASSUME RouteInv, NEW d \in Drivers, MonitorStep(d)
  PROVE  RouteInv'
<1> USE DriverAssumption DEF RouteInv, Types, RoutedToOwner, NotRoutedAgain, StartsUnmonitored,
        ClosedByMonitor, Deregistered, Nil, Drivers, StopPCs, objects, chans
<1>1. CASE MonitorReaps(d)
  BY <1>1 DEF MonitorReaps
<1>2. CASE MonitorDeregister(d)
  BY <1>2, SMTT(30) DEF MonitorDeregister, DeregisterRoute
<1>3. CASE MonitorCheck(d)
  BY <1>3 DEF MonitorCheck
<1>4. CASE MonitorCloseDone(d)
  BY <1>4 DEF MonitorCloseDone
<1>5. CASE MonitorCloseEvents(d)
  BY <1>5, SMTT(30) DEF MonitorCloseEvents
<1>6. CASE MonitorCloseExited(d)
  BY <1>6 DEF MonitorCloseExited
<1> QED
  BY <1>1, <1>2, <1>3, <1>4, <1>5, <1>6, MonitorStep(d) DEF MonitorStep

LEMMA RouteInvStep == RouteInv /\ [Next]_vars => RouteInv'
<1> SUFFICES ASSUME RouteInv, [Next]_vars PROVE RouteInv'
  OBVIOUS
<1> USE DriverAssumption DEF RouteInv, Types, RoutedToOwner, NotRoutedAgain, StartsUnmonitored,
        ClosedByMonitor, Deregistered, Nil, Drivers, StopPCs, objects, chans
<1>1. ASSUME NEW d \in Drivers, Spawn(d) PROVE RouteInv'
  BY <1>1, SMTT(30) DEF Spawn
<1>2. ASSUME NEW d \in Drivers, SpawnFails(d) PROVE RouteInv'
  <2> DEFINE t == owner[d]
  <2>1. /\ t \in Triggers
        /\ router' = [router EXCEPT ![t] = 0]
        /\ created' = created + 1
        /\ UNCHANGED <<owner, caller, current, monitor, closed>>
    BY <1>2 DEF SpawnFails, DeregisterRoute
  <2> HIDE DEF t
  <2>2. Types'
    BY <2>1, SMTT(30)
  <2>3. RoutedToOwner' /\ NotRoutedAgain'
    BY <2>1, SMTT(30)
  <2>4. StartsUnmonitored' /\ ClosedByMonitor'
    BY <2>1
  <2> QED
    BY <2>2, <2>3, <2>4
<1>3. ASSUME NEW d \in Drivers, Exit(d) \/ Receive(d) PROVE RouteInv'
  <2>1. UNCHANGED <<owner, created, current, router, monitor, closed, caller>>
    BY <1>3 DEF Exit, Receive
  <2> QED
    BY <2>1
<1>4. ASSUME NEW r \in Reports, ReportRejected(r) \/ DeliverLookup(r) \/ DeliverSend(r)
      PROVE  RouteInv'
  <2>1. UNCHANGED <<owner, created, current, router, monitor, closed, caller>>
    BY <1>4 DEF ReportRejected, DeliverLookup, DeliverSend
  <2> QED
    BY <2>1
<1>5. ASSUME NEW r \in Reports, NEW d \in Drivers, Report(r, d) PROVE RouteInv'
  BY <1>5 DEF Report
<1>6. CASE UNCHANGED vars
  BY <1>6 DEF vars
<1> QED
  BY <1>1, <1>2, <1>3, <1>4, <1>5, <1>6, CallerKeeps, MonitorKeeps DEF Next

\* No look-up in the router finds a closed channel, whatever the number of triggers, drivers
\* and reports and however crashes, Stop and the monitors interleave.
THEOREM RoutedAlwaysOpen == Spec => []RoutedIsOpen
<1>1. RouteInv => RoutedIsOpen
  BY DEF RouteInv, Types, RoutedIsOpen, RoutedToOwner, NotRoutedAgain, ClosedByMonitor,
         Deregistered, Nil, Drivers, StopPCs
<1> QED
  BY <1>1, RouteInvInit, RouteInvStep, PTL DEF Spec

-----------------------------------------------------------------------------
(* Which driver is routed, and the contract. *)

\* A ReportTriggerEvent handler.
ReportType ==
  [pc : {"none", "lookup", "send", "returned"}, trigger : Triggers, to : 0..MaxDriver]

\* The parts of the state that RouteInv says nothing of.
MoreTypes ==
  /\ process \in [Drivers -> {"none", "running", "terminating", "killed", "exited"}]
  /\ exited \subseteq closed
  /\ buffered \in [Drivers -> 0..ChanCap]
  /\ report \in [Reports -> ReportType]

\* The engine and the router know a driver under its trigger, and only once it is monitored.
KnownIsMonitored ==
  /\ \A t \in Triggers : current[t] # Nil => owner[current[t]] = t /\ monitor[current[t]] # "none"
  /\ \A t \in Triggers : router[t] # Nil => monitor[router[t]] # "none"
  /\ \A r \in Reports : report[r].pc = "send" =>
       report[r].to # Nil /\ monitor[report[r].to] # "none"

\* A driver whose channel is open is the one the engine holds, so there is one per trigger.
OpenIsCurrent ==
  \A d \in Drivers : monitor[d] # "none" /\ d \notin closed => current[owner[d]] = d

\* Start is called for a trigger without a driver, Stop for the one it has.
CallerOwns ==
  /\ caller.pc = "register" => current[owner[caller.at]] = Nil
  /\ caller.pc \in StopPCs => current[owner[caller.at]] = caller.at

\* The monitor goes on only after the process has exited, and closes exited after the channel.
MonitorOrder ==
  \A d \in Drivers :
    /\ monitor[d] \in {"deregister"} \union Deregistered => process[d] = "exited"
    /\ monitor[d] \in {"closeExited", "returned"} => d \in closed

DriverInv ==
  /\ RouteInv
  /\ MoreTypes
  /\ KnownIsMonitored
  /\ OpenIsCurrent
  /\ CallerOwns
  /\ MonitorOrder
  /\ CurrentIsRouted

LEMMA DriverInvInit == Init => DriverInv
<1> SUFFICES ASSUME Init PROVE DriverInv
  OBVIOUS
<1>1. RouteInv
  BY RouteInvInit
<1>2. MoreTypes /\ KnownIsMonitored /\ OpenIsCurrent
  BY DriverAssumption DEF Init, MoreTypes, ReportType, KnownIsMonitored, OpenIsCurrent, Nil, Drivers
<1>3. CallerOwns /\ MonitorOrder /\ CurrentIsRouted
  BY DriverAssumption DEF Init, CallerOwns, MonitorOrder, CurrentIsRouted, Nil, Drivers, Idle,
     StopPCs, Deregistered
<1> QED
  BY <1>1, <1>2, <1>3 DEF DriverInv

\* The steps of Start and Stop.
LEMMA CallerKeepsDriver ==
  ASSUME DriverInv, RouteInv', CallerStep \/ \E t \in Triggers : Stop(t)
  PROVE  DriverInv'
<1> USE DriverAssumption DEF DriverInv, RouteInv, Nil, Drivers, Idle, objects, chans
<1>1. CASE StartReturns
  <2>1. KnownIsMonitored'
    BY <1>1, SMTT(30) DEF StartReturns, KnownIsMonitored, Types, MoreTypes
  <2>2. OpenIsCurrent'
    BY <1>1, SMTT(30) DEF StartReturns, OpenIsCurrent, KnownIsMonitored, CallerOwns, StartsUnmonitored, Types, MoreTypes
  <2>3. CallerOwns'
    BY <1>1 DEF StartReturns, CallerOwns, KnownIsMonitored, StopPCs, Types
  <2>4. MonitorOrder'
    BY <1>1, SMTT(30) DEF StartReturns, MonitorOrder, StartsUnmonitored, ClosedByMonitor, Deregistered, Types, MoreTypes
  <2>5. CurrentIsRouted'
    BY <1>1 DEF StartReturns, CurrentIsRouted, KnownIsMonitored, OpenIsCurrent, CallerOwns, MonitorOrder, ClosedByMonitor, Deregistered, StopPCs, Types, MoreTypes
  <2>6. MoreTypes'
    BY <1>1 DEF StartReturns, MoreTypes
  <2> QED
    BY <2>1, <2>2, <2>3, <2>4, <2>5, <2>6, RouteInv' DEF DriverInv
<1>2. CASE \E t \in Triggers : Stop(t)
  <2>1. CallerOwns'
    BY <1>2 DEF Stop, CallerOwns, KnownIsMonitored, StopPCs, Types
  <2>2. CurrentIsRouted'
    BY <1>2 DEF Stop, CurrentIsRouted, KnownIsMonitored, OpenIsCurrent, CallerOwns, MonitorOrder, ClosedByMonitor, Deregistered, StopPCs, Types, MoreTypes
  <2>3. MoreTypes' /\ KnownIsMonitored' /\ OpenIsCurrent' /\ MonitorOrder'
    BY <1>2 DEF Stop, MoreTypes, KnownIsMonitored, OpenIsCurrent, MonitorOrder, Deregistered
  <2> QED
    BY <2>1, <2>2, <2>3, RouteInv' DEF DriverInv
<1>3. CASE StopCheck
  <2>1. CallerOwns'
    BY <1>3 DEF StopCheck, CallerOwns, KnownIsMonitored, StopPCs, Types
  <2>2. CurrentIsRouted'
    BY <1>3 DEF StopCheck, CurrentIsRouted, KnownIsMonitored, OpenIsCurrent, CallerOwns, MonitorOrder, ClosedByMonitor, Deregistered, StopPCs, Types, MoreTypes
  <2>3. MoreTypes' /\ KnownIsMonitored' /\ OpenIsCurrent' /\ MonitorOrder'
    BY <1>3 DEF StopCheck, MoreTypes, KnownIsMonitored, OpenIsCurrent, MonitorOrder, Deregistered
  <2> QED
    BY <2>1, <2>2, <2>3, RouteInv' DEF DriverInv
<1>4. CASE StopCloseDone
  <2>1. CallerOwns'
    BY <1>4 DEF StopCloseDone, CloseDone, CallerOwns, KnownIsMonitored, StopPCs, Types
  <2>2. CurrentIsRouted'
    BY <1>4 DEF StopCloseDone, CloseDone, CurrentIsRouted, KnownIsMonitored, OpenIsCurrent, CallerOwns, MonitorOrder, ClosedByMonitor, Deregistered, StopPCs, Types, MoreTypes
  <2>3. MoreTypes' /\ KnownIsMonitored' /\ OpenIsCurrent' /\ MonitorOrder'
    BY <1>4 DEF StopCloseDone, CloseDone, MoreTypes, KnownIsMonitored, OpenIsCurrent, MonitorOrder, Deregistered
  <2> QED
    BY <2>1, <2>2, <2>3, RouteInv' DEF DriverInv
<1>5. CASE StopDeregister
  <2>1. KnownIsMonitored'
    BY <1>5 DEF StopDeregister, DeregisterRoute, KnownIsMonitored, Types, MoreTypes
  <2>2. CallerOwns'
    BY <1>5 DEF StopDeregister, DeregisterRoute, CallerOwns, KnownIsMonitored, StopPCs, Types
  <2>3. CurrentIsRouted'
    BY <1>5 DEF StopDeregister, DeregisterRoute, CurrentIsRouted, KnownIsMonitored, OpenIsCurrent, CallerOwns, MonitorOrder, ClosedByMonitor, Deregistered, StopPCs, Types, MoreTypes
  <2>4. MoreTypes' /\ OpenIsCurrent' /\ MonitorOrder'
    BY <1>5 DEF StopDeregister, DeregisterRoute, MoreTypes, OpenIsCurrent, MonitorOrder, Deregistered
  <2> QED
    BY <2>1, <2>2, <2>3, <2>4, RouteInv' DEF DriverInv
<1>6. CASE StopSignal
  <2>1. MoreTypes'
    BY <1>6 DEF StopSignal, MoreTypes, Types, MonitorOrder
  <2>2. CallerOwns'
    BY <1>6 DEF StopSignal, CallerOwns, KnownIsMonitored, StopPCs, Types
  <2>3. MonitorOrder'
    BY <1>6 DEF StopSignal, MonitorOrder, StartsUnmonitored, ClosedByMonitor, Deregistered, Types, MoreTypes
  <2>4. CurrentIsRouted'
    BY <1>6 DEF StopSignal, CurrentIsRouted, KnownIsMonitored, OpenIsCurrent, CallerOwns, MonitorOrder, ClosedByMonitor, Deregistered, StopPCs, Types, MoreTypes
  <2>5. KnownIsMonitored' /\ OpenIsCurrent'
    BY <1>6 DEF StopSignal, KnownIsMonitored, OpenIsCurrent
  <2> QED
    BY <2>1, <2>2, <2>3, <2>4, <2>5, RouteInv' DEF DriverInv
<1>7. CASE StopTimeout
  <2>1. MoreTypes'
    BY <1>7 DEF StopTimeout, MoreTypes, Types, MonitorOrder
  <2>2. CallerOwns'
    BY <1>7 DEF StopTimeout, CallerOwns, KnownIsMonitored, StopPCs, Types
  <2>3. MonitorOrder'
    BY <1>7 DEF StopTimeout, MonitorOrder, StartsUnmonitored, ClosedByMonitor, Deregistered, Types, MoreTypes
  <2>4. CurrentIsRouted'
    BY <1>7 DEF StopTimeout, CurrentIsRouted, KnownIsMonitored, OpenIsCurrent, CallerOwns, MonitorOrder, ClosedByMonitor, Deregistered, StopPCs, Types, MoreTypes
  <2>5. KnownIsMonitored' /\ OpenIsCurrent'
    BY <1>7 DEF StopTimeout, KnownIsMonitored, OpenIsCurrent
  <2> QED
    BY <2>1, <2>2, <2>3, <2>4, <2>5, RouteInv' DEF DriverInv
<1>8. CASE StopReturns
  <2>1. KnownIsMonitored'
    BY <1>8 DEF StopReturns, KnownIsMonitored, Types, MoreTypes
  <2>2. OpenIsCurrent'
    BY <1>8 DEF StopReturns, OpenIsCurrent, KnownIsMonitored, CallerOwns, StartsUnmonitored, Types, MoreTypes
  <2>3. CallerOwns'
    BY <1>8 DEF StopReturns, CallerOwns, KnownIsMonitored, StopPCs, Types
  <2>4. CurrentIsRouted'
    BY <1>8 DEF StopReturns, CurrentIsRouted, KnownIsMonitored, OpenIsCurrent, CallerOwns, MonitorOrder, ClosedByMonitor, Deregistered, StopPCs, Types, MoreTypes
  <2>5. MoreTypes' /\ MonitorOrder'
    BY <1>8 DEF StopReturns, MoreTypes, MonitorOrder, Deregistered
  <2> QED
    BY <2>1, <2>2, <2>3, <2>4, <2>5, RouteInv' DEF DriverInv
<1> QED
  BY <1>1, <1>2, <1>3, <1>4, <1>5, <1>6, <1>7, <1>8 DEF CallerStep

\* The steps of monitorProcess.
LEMMA MonitorKeepsDriver ==
  ASSUME DriverInv, RouteInv', NEW d \in Drivers, MonitorStep(d)
  PROVE  DriverInv'
<1> USE DriverAssumption DEF DriverInv, RouteInv, Nil, Drivers, Idle, objects, chans
<1>1. CASE MonitorReaps(d)
  <2>1. KnownIsMonitored'
    BY <1>1, SMTT(30) DEF MonitorReaps, KnownIsMonitored, Types, MoreTypes
  <2>2. OpenIsCurrent'
    BY <1>1 DEF MonitorReaps, OpenIsCurrent, KnownIsMonitored, CallerOwns, StartsUnmonitored, Types, MoreTypes
  <2>3. MonitorOrder'
    BY <1>1 DEF MonitorReaps, MonitorOrder, StartsUnmonitored, ClosedByMonitor, Deregistered, Types, MoreTypes
  <2>4. MoreTypes' /\ CallerOwns' /\ CurrentIsRouted'
    BY <1>1 DEF MonitorReaps, MoreTypes, CallerOwns, CurrentIsRouted, StopPCs
  <2> QED
    BY <2>1, <2>2, <2>3, <2>4, RouteInv' DEF DriverInv
<1>2. CASE MonitorDeregister(d)
  <2>1. KnownIsMonitored'
    BY <1>2, SMTT(30) DEF MonitorDeregister, DeregisterRoute, KnownIsMonitored, Types, MoreTypes
  <2>2. OpenIsCurrent'
    BY <1>2 DEF MonitorDeregister, DeregisterRoute, OpenIsCurrent, KnownIsMonitored, CallerOwns, StartsUnmonitored, Types, MoreTypes
  <2>3. MonitorOrder'
    BY <1>2 DEF MonitorDeregister, DeregisterRoute, MonitorOrder, StartsUnmonitored, ClosedByMonitor, Deregistered, Types, MoreTypes
  <2>4. CurrentIsRouted'
    <3>1. /\ process[d] = "exited" /\ d \notin closed /\ current[owner[d]] = d
          /\ owner[d] \in Triggers
      BY <1>2 DEF MonitorDeregister, MonitorOrder, OpenIsCurrent, ClosedByMonitor, Deregistered, Types
    <3> QED
      BY <1>2, <3>1 DEF MonitorDeregister, DeregisterRoute, CurrentIsRouted, Types
  <2>5. MoreTypes' /\ CallerOwns'
    BY <1>2 DEF MonitorDeregister, DeregisterRoute, MoreTypes, CallerOwns, StopPCs
  <2> QED
    BY <2>1, <2>2, <2>3, <2>4, <2>5, RouteInv' DEF DriverInv
<1>3. CASE MonitorCheck(d)
  <2>1. KnownIsMonitored'
    BY <1>3, SMTT(30) DEF MonitorCheck, KnownIsMonitored, Types, MoreTypes
  <2>2. OpenIsCurrent'
    BY <1>3 DEF MonitorCheck, OpenIsCurrent, KnownIsMonitored, CallerOwns, StartsUnmonitored, Types, MoreTypes
  <2>3. MonitorOrder'
    BY <1>3 DEF MonitorCheck, MonitorOrder, StartsUnmonitored, ClosedByMonitor, Deregistered, Types, MoreTypes
  <2>4. MoreTypes' /\ CallerOwns' /\ CurrentIsRouted'
    BY <1>3 DEF MonitorCheck, MoreTypes, CallerOwns, CurrentIsRouted, StopPCs
  <2> QED
    BY <2>1, <2>2, <2>3, <2>4, RouteInv' DEF DriverInv
<1>4. CASE MonitorCloseDone(d)
  <2>1. KnownIsMonitored'
    BY <1>4, SMTT(30) DEF MonitorCloseDone, CloseDone, KnownIsMonitored, Types, MoreTypes
  <2>2. OpenIsCurrent'
    BY <1>4 DEF MonitorCloseDone, CloseDone, OpenIsCurrent, KnownIsMonitored, CallerOwns, StartsUnmonitored, Types, MoreTypes
  <2>3. MonitorOrder'
    BY <1>4 DEF MonitorCloseDone, CloseDone, MonitorOrder, StartsUnmonitored, ClosedByMonitor, Deregistered, Types, MoreTypes
  <2>4. MoreTypes' /\ CallerOwns' /\ CurrentIsRouted'
    BY <1>4 DEF MonitorCloseDone, CloseDone, MoreTypes, CallerOwns, CurrentIsRouted, StopPCs
  <2> QED
    BY <2>1, <2>2, <2>3, <2>4, RouteInv' DEF DriverInv
<1>5. CASE MonitorCloseEvents(d)
  <2>1. MoreTypes'
    BY <1>5 DEF MonitorCloseEvents, MoreTypes, Types, MonitorOrder
  <2>2. KnownIsMonitored'
    BY <1>5, SMTT(30) DEF MonitorCloseEvents, KnownIsMonitored, Types, MoreTypes
  <2>3. OpenIsCurrent'
    BY <1>5 DEF MonitorCloseEvents, OpenIsCurrent, KnownIsMonitored, CallerOwns, StartsUnmonitored, Types, MoreTypes
  <2>4. MonitorOrder'
    BY <1>5 DEF MonitorCloseEvents, MonitorOrder, StartsUnmonitored, ClosedByMonitor, Deregistered, Types, MoreTypes
  <2>5. CallerOwns' /\ CurrentIsRouted'
    BY <1>5 DEF MonitorCloseEvents, CallerOwns, CurrentIsRouted, StopPCs
  <2> QED
    BY <2>1, <2>2, <2>3, <2>4, <2>5, RouteInv' DEF DriverInv
<1>6. CASE MonitorCloseExited(d)
  <2>1. MoreTypes'
    BY <1>6 DEF MonitorCloseExited, MoreTypes, Types, MonitorOrder
  <2>2. KnownIsMonitored'
    BY <1>6, SMTT(30) DEF MonitorCloseExited, KnownIsMonitored, Types, MoreTypes
  <2>3. OpenIsCurrent'
    BY <1>6 DEF MonitorCloseExited, OpenIsCurrent, KnownIsMonitored, CallerOwns, StartsUnmonitored, Types, MoreTypes
  <2>4. MonitorOrder'
    BY <1>6 DEF MonitorCloseExited, MonitorOrder, StartsUnmonitored, ClosedByMonitor, Deregistered, Types, MoreTypes
  <2>5. CallerOwns' /\ CurrentIsRouted'
    BY <1>6 DEF MonitorCloseExited, CallerOwns, CurrentIsRouted, StopPCs
  <2> QED
    BY <2>1, <2>2, <2>3, <2>4, <2>5, RouteInv' DEF DriverInv
<1> QED
  BY <1>1, <1>2, <1>3, <1>4, <1>5, <1>6, MonitorStep(d) DEF MonitorStep

\* The start of a driver, the end of its process and the engine's dispatch loop.
LEMMA ProcessKeepsDriver ==
  ASSUME DriverInv, RouteInv', NEW d \in Drivers,
         Spawn(d) \/ SpawnFails(d) \/ Exit(d) \/ Receive(d)
  PROVE  DriverInv'
<1> USE DriverAssumption DEF DriverInv, RouteInv, Nil, Drivers, Idle, objects, chans
<1>1. CASE Spawn(d)
  <2>1. MoreTypes'
    BY <1>1 DEF Spawn, MoreTypes, Types, MonitorOrder
  <2>2. CallerOwns'
    BY <1>1 DEF Spawn, CallerOwns, KnownIsMonitored, StopPCs, Types
  <2>3. MonitorOrder'
    BY <1>1 DEF Spawn, MonitorOrder, StartsUnmonitored, ClosedByMonitor, Deregistered, Types, MoreTypes
  <2>4. CurrentIsRouted'
    BY <1>1 DEF Spawn, CurrentIsRouted, KnownIsMonitored, OpenIsCurrent, CallerOwns, MonitorOrder, ClosedByMonitor, Deregistered, StopPCs, Types, MoreTypes
  <2>5. KnownIsMonitored' /\ OpenIsCurrent'
    BY <1>1 DEF Spawn, KnownIsMonitored, OpenIsCurrent
  <2> QED
    BY <2>1, <2>2, <2>3, <2>4, <2>5, RouteInv' DEF DriverInv
<1>2. CASE SpawnFails(d)
  <2>1. KnownIsMonitored'
    BY <1>2 DEF SpawnFails, DeregisterRoute, KnownIsMonitored, Types, MoreTypes
  <2>2. CurrentIsRouted'
    BY <1>2 DEF SpawnFails, DeregisterRoute, CurrentIsRouted, KnownIsMonitored, OpenIsCurrent, CallerOwns, MonitorOrder, ClosedByMonitor, Deregistered, StopPCs, Types, MoreTypes
  <2>3. MoreTypes' /\ OpenIsCurrent' /\ CallerOwns' /\ MonitorOrder'
    BY <1>2 DEF SpawnFails, DeregisterRoute, MoreTypes, OpenIsCurrent, CallerOwns, MonitorOrder, Deregistered, StopPCs
  <2> QED
    BY <2>1, <2>2, <2>3, RouteInv' DEF DriverInv
<1>3. CASE Exit(d)
  <2>1. MoreTypes'
    BY <1>3 DEF Exit, MoreTypes, Types, MonitorOrder
  <2>2. MonitorOrder'
    BY <1>3 DEF Exit, MonitorOrder, StartsUnmonitored, ClosedByMonitor, Deregistered, Types, MoreTypes
  <2>3. CurrentIsRouted'
    BY <1>3, SMTT(30) DEF Exit, CurrentIsRouted, KnownIsMonitored, OpenIsCurrent, CallerOwns, MonitorOrder, ClosedByMonitor, Deregistered, StopPCs, Types, MoreTypes
  <2>4. KnownIsMonitored' /\ OpenIsCurrent' /\ CallerOwns'
    BY <1>3 DEF Exit, KnownIsMonitored, OpenIsCurrent, CallerOwns, StopPCs
  <2> QED
    BY <2>1, <2>2, <2>3, <2>4, RouteInv' DEF DriverInv
<1>4. CASE Receive(d)
  <2>1. MoreTypes'
    <3>1. buffered[d] \in 0..ChanCap /\ buffered[d] - 1 \in 0..ChanCap
      BY <1>4 DEF Receive, MoreTypes
    <3> QED
      BY <1>4, <3>1 DEF Receive, MoreTypes
  <2>2. KnownIsMonitored' /\ OpenIsCurrent' /\ CallerOwns' /\ MonitorOrder' /\ CurrentIsRouted'
    BY <1>4 DEF Receive, KnownIsMonitored, OpenIsCurrent, CallerOwns, MonitorOrder, CurrentIsRouted, Deregistered, StopPCs
  <2> QED
    BY <2>1, <2>2, RouteInv' DEF DriverInv
<1> QED
  BY <1>1, <1>2, <1>3, <1>4

\* The handlers of ReportTriggerEvent.
LEMMA ReportsKeepDriver ==
  ASSUME DriverInv, RouteInv', NEW r \in Reports, NEW d \in Drivers,
         Report(r, d) \/ ReportRejected(r) \/ DeliverLookup(r) \/ DeliverSend(r)
  PROVE  DriverInv'
<1> USE DriverAssumption DEF DriverInv, RouteInv, Nil, Drivers, Idle, objects, chans
<1>1. CASE Report(r, d)
  <2>1. MoreTypes'
    <3>1. \E q \in ReportType : report' = [report EXCEPT ![r] = q]
      <4>1. report[r] \in ReportType /\ owner[d] \in Triggers
        BY DEF MoreTypes, Types
      <4>2. [report[r] EXCEPT !.pc = "lookup", !.trigger = owner[d]] \in ReportType
        BY <4>1 DEF ReportType
      <4> QED
        BY <1>1, <4>2 DEF Report
    <3> QED
      BY <1>1, <3>1 DEF Report, MoreTypes
  <2>2. KnownIsMonitored'
    BY <1>1 DEF Report, KnownIsMonitored, Types, MoreTypes
  <2>3. OpenIsCurrent' /\ CallerOwns' /\ MonitorOrder' /\ CurrentIsRouted'
    BY <1>1 DEF Report, OpenIsCurrent, CallerOwns, MonitorOrder, CurrentIsRouted, Deregistered, StopPCs
  <2> QED
    BY <2>1, <2>2, <2>3, RouteInv' DEF DriverInv
<1>2. CASE ReportRejected(r)
  <2>1. MoreTypes'
    BY <1>2 DEF ReportRejected, MoreTypes, ReportType
  <2>2. KnownIsMonitored'
    BY <1>2 DEF ReportRejected, KnownIsMonitored, Types, MoreTypes
  <2>3. OpenIsCurrent' /\ CallerOwns' /\ MonitorOrder' /\ CurrentIsRouted'
    BY <1>2 DEF ReportRejected, OpenIsCurrent, CallerOwns, MonitorOrder, CurrentIsRouted, Deregistered, StopPCs
  <2> QED
    BY <2>1, <2>2, <2>3, RouteInv' DEF DriverInv
<1>3. CASE DeliverLookup(r)
  <2>1. MoreTypes'
    <3>1. \E q \in ReportType : report' = [report EXCEPT ![r] = q]
      <4> DEFINE to == router[report[r].trigger]
      <4>1. report[r] \in ReportType
        BY DEF MoreTypes
      <4>2. to \in 0..MaxDriver
        BY <4>1 DEF ReportType, Types
      <4>3. [report[r] EXCEPT !.pc = IF to = 0 THEN "returned" ELSE "send", !.to = to] \in ReportType
        BY <4>1, <4>2 DEF ReportType
      <4> QED
        BY <1>3, <4>3 DEF DeliverLookup
    <3> QED
      BY <1>3, <3>1 DEF DeliverLookup, MoreTypes
  <2>2. KnownIsMonitored'
    BY <1>3, SMTT(30) DEF DeliverLookup, KnownIsMonitored, Types, MoreTypes, ReportType
  <2>3. OpenIsCurrent' /\ CallerOwns' /\ MonitorOrder' /\ CurrentIsRouted'
    BY <1>3 DEF DeliverLookup, OpenIsCurrent, CallerOwns, MonitorOrder, CurrentIsRouted, Deregistered, StopPCs
  <2> QED
    BY <2>1, <2>2, <2>3, RouteInv' DEF DriverInv
<1>4. CASE DeliverSend(r)
  <2>1. MoreTypes'
    <3> DEFINE to == report[r].to
    <3>1. report[r] \in ReportType /\ to \in Drivers
      BY <1>4 DEF DeliverSend, MoreTypes, KnownIsMonitored, ReportType
    <3>2. buffered' \in [Drivers -> 0..ChanCap]
      <4>1. CASE to \in closed \/ buffered[to] = ChanCap
        BY <1>4, <4>1 DEF DeliverSend, MoreTypes
      <4>2. CASE to \notin closed /\ buffered[to] # ChanCap
        <5>1. buffered[to] + 1 \in 0..ChanCap
          BY <3>1, <4>2 DEF MoreTypes
        <5> QED
          BY <1>4, <4>2, <5>1 DEF DeliverSend, MoreTypes
      <4> QED
        BY <4>1, <4>2
    <3>3. [report[r] EXCEPT !.pc = "returned"] \in ReportType
      BY <3>1 DEF ReportType
    <3> QED
      BY <1>4, <3>2, <3>3 DEF DeliverSend, MoreTypes
  <2>2. KnownIsMonitored'
    BY <1>4 DEF DeliverSend, KnownIsMonitored, Types, MoreTypes
  <2>3. OpenIsCurrent' /\ CallerOwns' /\ MonitorOrder' /\ CurrentIsRouted'
    BY <1>4 DEF DeliverSend, OpenIsCurrent, CallerOwns, MonitorOrder, CurrentIsRouted, Deregistered, StopPCs
  <2> QED
    BY <2>1, <2>2, <2>3, RouteInv' DEF DriverInv
<1> QED
  BY <1>1, <1>2, <1>3, <1>4

LEMMA OneDriver == 1 \in Drivers
  BY DriverAssumption DEF Drivers

LEMMA DriverInvStep == DriverInv /\ [Next]_vars => DriverInv'
<1> SUFFICES ASSUME DriverInv, [Next]_vars PROVE DriverInv'
  OBVIOUS
<1>1. RouteInv'
  BY RouteInvStep DEF DriverInv
<1>2. CASE UNCHANGED vars
  BY <1>1, <1>2 DEF vars, objects, chans, DriverInv, MoreTypes, KnownIsMonitored, OpenIsCurrent,
     CallerOwns, MonitorOrder, CurrentIsRouted
<1> QED
  BY <1>1, <1>2, CallerKeepsDriver, MonitorKeepsDriver, ProcessKeepsDriver,
     ReportsKeepDriver, OneDriver DEF Next

LEMMA DriverInvariant == Spec => []DriverInv
  BY DriverInvInit, DriverInvStep, PTL DEF Spec

\* As long as the current driver's process runs and nobody stops it, events of its trigger
\* reach its channel, although Deregister goes by the trigger's ID.
THEOREM CurrentAlwaysRouted == Spec => []CurrentIsRouted
  BY DriverInvariant, PTL DEF DriverInv

-----------------------------------------------------------------------------
(* The contract of driver.go. *)

\* The state of the channels, as the contract sees it.
Channels == [d \in Drivers |-> ChannelState(d)]

LEMMA ContractInit == Init => Contract!Init
  BY DEF Init, Contract!Init, ChannelState

\* A step that leaves alone what the contract speaks of.
LEMMA Unseen ==
  ASSUME UNCHANGED <<owner, monitor, closed, buffered, stopped>>
  PROVE  UNCHANGED Contract!vars
  BY DEF Contract!vars, ChannelState

\* StartReturns opens the channel of a driver when no other of its trigger is open.
LEMMA StartKeepsContract ==
  ASSUME DriverInv, StartReturns
  PROVE  Contract!Start(caller.at)
<1> DEFINE d == caller.at
<1>1. d \in Drivers /\ monitor[d] = "none" /\ d \notin closed
  BY DEF StartReturns, DriverInv, RouteInv, Types, StartsUnmonitored, ClosedByMonitor
<1>2. /\ monitor' = [monitor EXCEPT ![d] = "wait"]
      /\ UNCHANGED <<owner, buffered, stopped, closed>>
  BY DEF StartReturns, objects, chans
<1>3. monitor \in [Drivers -> {"none", "wait", "deregister"} \union Deregistered]
  BY DEF DriverInv, RouteInv, Types
<1>4. ASSUME NEW o \in Drivers, owner[o] = owner[d], ChannelState(o) = "open"
      PROVE  FALSE
  <2>1. current[owner[o]] = o
    BY <1>4 DEF ChannelState, DriverInv, OpenIsCurrent
  <2>2. current[owner[d]] = Nil
    BY DEF StartReturns, DriverInv, CallerOwns
  <2> QED
    BY <1>4, <2>1, <2>2, DriverAssumption DEF Drivers, Nil
<1>5. Channels' = [Channels EXCEPT ![d] = "open"]
  BY <1>1, <1>2, <1>3 DEF Channels, ChannelState
<1> QED
  BY <1>1, <1>2, <1>4, <1>5 DEF Contract!Start, Channels, ChannelState

\* MonitorCloseEvents closes an open channel.
LEMMA CloseKeepsContract ==
  ASSUME DriverInv, NEW d \in Drivers, MonitorCloseEvents(d)
  PROVE  Contract!Close(d)
<1>1. monitor[d] = "closeEvents" /\ d \notin closed
  BY DEF MonitorCloseEvents, DriverInv, RouteInv, ClosedByMonitor
<1>2. /\ monitor' = [monitor EXCEPT ![d] = "closeExited"] /\ closed' = closed \union {d}
      /\ UNCHANGED <<owner, buffered, stopped>>
  BY DEF MonitorCloseEvents, objects
<1>3. monitor \in [Drivers -> {"none", "wait", "deregister"} \union Deregistered]
  BY DEF DriverInv, RouteInv, Types
<1>4. Channels' = [Channels EXCEPT ![d] = "closed"]
  BY <1>1, <1>2, <1>3 DEF Channels, ChannelState
<1> QED
  BY <1>1, <1>2, <1>4 DEF Contract!Close, Channels, ChannelState

\* The other steps of the monitor are not seen: a channel that is open stays so.
LEMMA MonitorKeepsContract ==
  ASSUME DriverInv, NEW d \in Drivers, MonitorStep(d)
  PROVE  Contract!Close(d) \/ UNCHANGED Contract!vars
<1>1. CASE MonitorCloseEvents(d)
  BY <1>1, CloseKeepsContract
<1>2. CASE ~MonitorCloseEvents(d)
  <2>1. /\ monitor[d] # "none" /\ \E pc : pc # "none" /\ monitor' = [monitor EXCEPT ![d] = pc]
        /\ UNCHANGED <<owner, closed, buffered, stopped>>
    BY <1>2 DEF MonitorStep, MonitorReaps, MonitorDeregister, MonitorCheck, MonitorCloseDone,
       MonitorCloseExited, objects, chans
  <2>2. monitor \in [Drivers -> {"none", "wait", "deregister"} \union Deregistered]
    BY DEF DriverInv, RouteInv, Types
  <2>3. Channels' = Channels
    BY <2>1, <2>2 DEF Channels, ChannelState
  <2> QED
    BY <2>1, <2>3 DEF Contract!vars, Channels
<1> QED
  BY <1>1, <1>2

\* The steps of Start and Stop: the first opens a channel, the last releases a driver.
LEMMA CallerKeepsContract ==
  ASSUME DriverInv, CallerStep
  PROVE  [Contract!Next]_Contract!vars
<1> USE DEF objects, chans
<1>1. CASE StartReturns
  <2>1. caller.at \in Drivers
    BY <1>1 DEF StartReturns, DriverInv, RouteInv, Types
  <2> QED
    BY <1>1, <2>1, StartKeepsContract DEF Contract!Next
<1>2. CASE StopReturns
  <2>1. caller.at \in Drivers /\ caller.at \in closed
    BY <1>2 DEF StopReturns, DriverInv, RouteInv, Types, MoreTypes
  <2>2. Contract!StopReturns(caller.at)
    BY <1>2, <2>1, Unseen DEF StopReturns, Contract!StopReturns, ChannelState
  <2> QED
    BY <2>1, <2>2 DEF Contract!Next
<1>3. CASE StopCheck \/ StopCloseDone \/ StopDeregister \/ StopSignal \/ StopTimeout
  BY <1>3, Unseen DEF StopCheck, StopCloseDone, StopDeregister, StopSignal, StopTimeout
<1> QED
  BY <1>1, <1>2, <1>3 DEF CallerStep

\* A send on an open channel with room is a delivery, any other is not seen.
LEMMA SendKeepsContract ==
  ASSUME DriverInv, NEW r \in Reports, DeliverSend(r)
  PROVE  [Contract!Next]_Contract!vars
<1> DEFINE d == report[r].to
<1>1. d \in Drivers /\ monitor[d] # "none" /\ buffered[d] \in 0..ChanCap
  BY DriverAssumption DEF DeliverSend, DriverInv, KnownIsMonitored, MoreTypes, ReportType, Drivers, Nil
<1>2. UNCHANGED <<owner, monitor, closed, stopped>>
  BY DEF DeliverSend, objects
<1>3. CASE d \in closed \/ buffered[d] = ChanCap
  BY <1>2, <1>3, Unseen DEF DeliverSend
<1>4. CASE d \notin closed /\ buffered[d] # ChanCap
  <2>1. buffered' = [buffered EXCEPT ![d] = @ + 1] /\ buffered[d] < ChanCap
    BY <1>1, <1>4, DriverAssumption DEF DeliverSend
  <2>2. Channels[d] = "open" /\ Channels' = Channels
    BY <1>1, <1>2, <1>4 DEF Channels, ChannelState
  <2>3. Contract!Deliver(d)
    BY <1>2, <2>1, <2>2 DEF Contract!Deliver, Channels
  <2> QED
    BY <1>1, <2>3 DEF Contract!Next
<1> QED
  BY <1>3, <1>4

\* The engine's loop takes an event from a channel.
LEMMA ReceiveKeepsContract ==
  ASSUME NEW d \in Drivers, Receive(d)
  PROVE  [Contract!Next]_Contract!vars
<1>1. Channels' = Channels
  BY DEF Receive, Channels, ChannelState
<1>2. Contract!Receive(d)
  BY <1>1 DEF Receive, Contract!Receive, Channels, objects
<1> QED
  BY <1>2 DEF Contract!Next

LEMMA ContractStep == DriverInv /\ [Next]_vars => [Contract!Next]_Contract!vars
<1> SUFFICES ASSUME DriverInv, [Next]_vars PROVE [Contract!Next]_Contract!vars
  OBVIOUS
<1>1. ASSUME NEW d \in Drivers, Spawn(d) \/ SpawnFails(d) \/ Exit(d)
      PROVE  UNCHANGED Contract!vars
  BY <1>1, Unseen DEF Spawn, SpawnFails, Exit, objects, chans
<1>2. ASSUME \E t \in Triggers : Stop(t)
      PROVE  UNCHANGED Contract!vars
  BY <1>2, Unseen DEF Stop, objects, chans
<1>3. ASSUME NEW r \in Reports, (\E d \in Drivers : Report(r, d)) \/ ReportRejected(r) \/ DeliverLookup(r)
      PROVE  UNCHANGED Contract!vars
  BY <1>3, Unseen DEF Report, ReportRejected, DeliverLookup, objects, chans
<1>4. CASE UNCHANGED vars
  BY <1>4, Unseen DEF vars, objects, chans
<1>5. ASSUME NEW d \in Drivers, MonitorStep(d)
      PROVE  [Contract!Next]_Contract!vars
  BY <1>5, MonitorKeepsContract DEF Contract!Next
<1> QED
  BY <1>1, <1>2, <1>3, <1>4, <1>5, CallerKeepsContract, SendKeepsContract, ReceiveKeepsContract DEF Next

\* The drivers implement what driver.go promises to the engine: a channel is closed once, before
\* Stop returns, no trigger has two open ones, and events go to open channels only.
THEOREM DriversKeepContract == Spec => KeepsContract
  BY ContractInit, ContractStep, DriverInvariant, PTL DEF Spec, KeepsContract, Contract!Spec
-----------------------------------------------------------------------------
(* Sets of line numbers. *)

\* How many of the lines there are up to one of them.
Rank(i, S) == Cardinality({j \in S : j <= i})

\* Lines and ranks correspond.
LEMMA Ranks ==
  ASSUME NEW n \in Nat, NEW S \in SUBSET (1..n)
  PROVE  /\ IsFiniteSet(S) /\ Cardinality(S) \in Nat
         /\ \A i \in S : Rank(i, S) \in 1..Cardinality(S)
         /\ \A i, j \in S : Rank(i, S) = Rank(j, S) => i = j
         /\ \A i, j \in S : i < j => Rank(i, S) < Rank(j, S)
         /\ \A k \in 1..Cardinality(S) : \E i \in S : Rank(i, S) = k
<1> DEFINE upto(i) == {j \in S : j <= i}
           rank == [i \in S |-> Cardinality(upto(i))]
<1>1. IsFiniteSet(S) /\ Cardinality(S) \in Nat
  <2>1. IsFiniteSet(1..n)
    BY FS_Interval
  <2> QED
    BY <2>1, FS_Subset, FS_CardinalityType
<1>2. PICK m \in Nat : m = Cardinality(S)
  BY <1>1
<1>3. \A i \in S : IsFiniteSet(upto(i)) /\ Cardinality(upto(i)) \in Nat /\ Cardinality(upto(i)) <= m
  <2>1. \A i \in S : upto(i) \in SUBSET S
    OBVIOUS
  <2> HIDE DEF upto
  <2> QED
    BY <1>1, <1>2, <2>1, FS_Subset, FS_CardinalityType
<1>4. \A i \in S : Cardinality(upto(i)) # 0
  <2>1. \A i \in S : upto(i) # {}
    OBVIOUS
  <2> HIDE DEF upto
  <2> QED
    BY <1>3, <2>1, FS_EmptySet
<1>5. ASSUME NEW i \in S, NEW j \in S, i < j PROVE Cardinality(upto(i)) < Cardinality(upto(j))
  <2>0. S \subseteq Nat
    OBVIOUS
  <2>1. upto(i) \in SUBSET upto(j) /\ j \in upto(j) /\ j \notin upto(i)
    <3>1. ~(j <= i) /\ j <= j /\ \A l \in S : l <= i => l <= j
      BY <1>5, <2>0
    <3> QED
      BY <3>1
  <2> HIDE DEF upto
  <2>2. /\ Cardinality(upto(i)) <= Cardinality(upto(j))
        /\ Cardinality(upto(i)) = Cardinality(upto(j)) => upto(i) = upto(j)
    BY <1>3, <2>1, FS_Subset
  <2> QED
    BY <1>3, <2>1, <2>2
<1>6. \A i, j \in S : Cardinality(upto(i)) = Cardinality(upto(j)) => i = j
  <2> SUFFICES ASSUME NEW i \in S, NEW j \in S, Cardinality(upto(i)) = Cardinality(upto(j)) PROVE i = j
    OBVIOUS
  <2> HIDE DEF upto
  <2>1. ~(i < j) /\ ~(j < i)
    BY <1>3, <1>5
  <2> QED
    BY <2>1
<1> HIDE DEF upto
<1>7. rank \in Injection(S, 1..m)
  <2>1. rank \in [S -> 1..m]
    BY <1>3, <1>4
  <2>2. IsInjective(rank)
    BY <1>6 DEF IsInjective
  <2> QED
    BY <2>1, <2>2 DEF Injection
<1>8. rank \in Surjection(S, 1..m)
  <2>1. IsFiniteSet(1..m) /\ Cardinality(1..m) = m
    BY FS_Interval
  <2> HIDE DEF rank
  <2> QED
    BY <1>2, <1>7, <2>1, FS_Injection
<1>9. \A k \in 1..m : \E i \in S : Cardinality(upto(i)) = k
  BY <1>8 DEF Surjection
<1>10. \A i \in S : Cardinality(upto(i)) \in 1..m
  BY <1>3, <1>4
<1>11. \A i \in S : Rank(i, S) = Cardinality(upto(i))
  BY DEF upto, Rank
<1> QED
  BY <1>1, <1>2, <1>5, <1>6, <1>9, <1>10, <1>11

\* Max and Min are what their names say.
LEMMA MaxOfLines ==
  ASSUME NEW n \in Nat, NEW S \in SUBSET (1..n), S # {}
  PROVE  Max(S) \in S /\ \A i \in S : i <= Max(S)
<1>1. IsFiniteSet(S) /\ Cardinality(S) \in Nat \ {0}
  BY Ranks, FS_EmptySet
<1>2. PICK i \in S : Rank(i, S) = Cardinality(S)
  <2>1. Cardinality(S) \in 1..Cardinality(S)
    BY <1>1
  <2> QED
    BY <2>1, Ranks
<1>3. {j \in S : j <= i} = S
  <2>1. {j \in S : j <= i} \in SUBSET S
    OBVIOUS
  <2> QED
    BY <1>1, <1>2, <2>1, FS_Subset DEF Rank
<1>4. \A j \in S : j <= i /\ i >= j
  BY <1>3
<1>5. \E x \in S : \A y \in S : x >= y
  BY <1>4
<1>6. Max(S) \in S /\ \A y \in S : Max(S) >= y
  BY <1>5 DEF Max
<1> QED
  BY <1>6

LEMMA MinOfLines ==
  ASSUME NEW n \in Nat, NEW S \in SUBSET (1..n), S # {}
  PROVE  Min(S) \in S /\ \A i \in S : Min(S) <= i
<1>1. IsFiniteSet(S) /\ Cardinality(S) \in Nat \ {0}
  BY Ranks, FS_EmptySet
<1>2. PICK i \in S : Rank(i, S) = 1
  <2>1. 1 \in 1..Cardinality(S)
    BY <1>1
  <2> QED
    BY <2>1, Ranks
<1>3. \A j \in S : i <= j
  <2> SUFFICES ASSUME NEW j \in S, j < i PROVE FALSE
    OBVIOUS
  <2>1. Rank(j, S) \in Nat \ {0} /\ Rank(j, S) < Rank(i, S)
    BY Ranks
  <2> QED
    BY <1>2, <2>1
<1>4. \E x \in S : \A y \in S : x <= y
  BY <1>3
<1> QED
  BY <1>4 DEF Min

\* What InOrder gives is the lines, each at its rank.
LEMMA InOrderLists ==
  ASSUME NEW n \in Nat, NEW S \in SUBSET (1..n)
  PROVE  /\ InOrder(S) \in Seq(S)
         /\ Len(InOrder(S)) = Cardinality(S) /\ Cardinality(S) \in Nat
         /\ \A k \in 1..Cardinality(S) : InOrder(S)[k] \in S /\ Rank(InOrder(S)[k], S) = k
<1>1. PICK m \in Nat : m = Cardinality(S)
  BY Ranks
<1> DEFINE upto(i) == {j \in S : j <= i}
<1>2. \A k \in 1..m : \E i \in S : Cardinality(upto(i)) = k
  BY <1>1, Ranks DEF Rank
<1>3. InOrder(S) = [k \in 1..m |-> CHOOSE i \in S : Cardinality(upto(i)) = k]
  BY <1>1 DEF InOrder
<1>4. \A i \in S : Cardinality(upto(i)) = Rank(i, S)
  BY DEF Rank
<1> HIDE DEF upto
<1>5. \A k \in 1..m : InOrder(S)[k] \in S /\ Rank(InOrder(S)[k], S) = k
  BY <1>2, <1>3, <1>4
<1>6. InOrder(S) \in [1..m -> S]
  BY <1>3, <1>5
<1>7. InOrder(S) \in Seq(S) /\ Len(InOrder(S)) = m
  BY <1>6
<1> QED
  BY <1>1, <1>5, <1>7
-----------------------------------------------------------------------------
(* Texts and what the parser reads from them. *)

\* All strings; those that the code writes are named for the provers.
Strings == STRING \union {"", "type", "on", "do"}
TextLine == [at : Nat, item : BOOLEAN, key : Strings, val : Strings]

LEMMA TextsAreLines == Seq(Lines) \subseteq Seq(TextLine)
<1>1. Lines \subseteq TextLine
  BY DEF Lines, TextLine, Strings
<1> HIDE DEF TextLine
<1> QED
  BY <1>1

\* The lines that a line could be nested in.
Outer(text, j) == {i \in Solid(text) : i < j /\ text[i].at < text[j].at}

LEMMA SolidLines ==
  ASSUME NEW text \in Seq(TextLine)
  PROVE  /\ Solid(text) \in SUBSET (1..Len(text))
         /\ Len(text) \in Nat
         /\ \A i \in 1..Len(text) : text[i] \in TextLine /\ text[i].at \in Nat
<1>1. DOMAIN text = 1..Len(text) /\ Len(text) \in Nat
  OBVIOUS
<1>2. \A i \in 1..Len(text) : text[i] \in TextLine
  OBVIOUS
<1>3. Solid(text) \in SUBSET (1..Len(text))
  BY <1>1 DEF Solid
<1> QED
  BY <1>1, <1>2, <1>3 DEF TextLine

\* A line is nested in the last one before it that is further to the left.
LEMMA ParentIsLast ==
  ASSUME NEW text \in Seq(TextLine), NEW j
  PROVE  /\ Outer(text, j) = {} => ParentOf(text, j) = 0
         /\ Outer(text, j) # {} => /\ ParentOf(text, j) \in Outer(text, j)
                                   /\ \A i \in Outer(text, j) : i <= ParentOf(text, j)
<1>1. Outer(text, j) \in SUBSET (1..Len(text)) /\ Len(text) \in Nat
  BY SolidLines DEF Outer
<1>2. ParentOf(text, j) = IF Outer(text, j) = {} THEN 0 ELSE Max(Outer(text, j))
  BY DEF ParentOf, Outer
<1> QED
  BY <1>1, <1>2, MaxOfLines

LEMMA ParentIsSolid ==
  ASSUME NEW text \in Seq(TextLine), NEW j, ParentOf(text, j) # 0
  PROVE  /\ ParentOf(text, j) \in Solid(text)
         /\ ParentOf(text, j) < j
         /\ text[ParentOf(text, j)].at < text[j].at
BY ParentIsLast DEF Outer

LEMMA ChildrenAreLines ==
  ASSUME NEW text \in Seq(TextLine), NEW i
  PROVE  /\ ChildrenOf(text, i) \in SUBSET (1..Len(text))
         /\ \A j \in ChildrenOf(text, i) : j \in Solid(text) /\ ParentOf(text, j) = i
         /\ i \in 1..Len(text) => EntriesOf(text, i) \in SUBSET (1..Len(text))
BY SolidLines DEF ChildrenOf, EntriesOf

\* Find gives the last of the lines with the key.
LEMMA FindIsLast ==
  ASSUME NEW text \in Seq(TextLine), NEW lines \in SUBSET (1..Len(text)), NEW key
  PROVE  \/ Find(text, lines, key) = 0 /\ \A i \in lines : text[i].key # key
         \/ /\ Find(text, lines, key) \in lines /\ text[Find(text, lines, key)].key = key
            /\ \A i \in lines : text[i].key = key => i <= Find(text, lines, key)
<1> DEFINE found == {i \in lines : text[i].key = key}
<1>1. found \in SUBSET (1..Len(text)) /\ Len(text) \in Nat
  BY SolidLines
<1>2. Find(text, lines, key) = IF found = {} THEN 0 ELSE Max(found)
  BY DEF Find
<1>3. CASE found = {}
  BY <1>2, <1>3
<1>4. CASE found # {}
  <2>1. Max(found) \in found /\ \A i \in found : i <= Max(found)
    BY <1>1, <1>4, MaxOfLines
  <2> QED
    BY <1>2, <1>4, <2>1
<1> QED
  BY <1>3, <1>4

\* Triggers, actions and groups as the parser gives them.
ParsedTriggers == [type : Strings, actions : Seq(Strings)]

IsParsedGroup(g) ==
  /\ g = [name |-> g.name, aliases |-> g.aliases, triggers |-> g.triggers, actions |-> g.actions]
  /\ g.name \in Strings
  /\ g.triggers \in Seq(ParsedTriggers)
  /\ g.actions \in Seq(Strings)

\* There are no faults in what Parse accepts.
Accepted(text) ==
  /\ WellFormed(text) /\ Solid(text) # {}
  /\ \A i \in GroupLines(text) : ~GroupFault(text, i)
  /\ Parse(text).groups =
       [n \in DOMAIN InOrder(GroupLines(text)) |->
          ParseGroup(text, InOrder(GroupLines(text))[n])]

LEMMA ParseAccepts == ASSUME NEW text, Parse(text) # Invalid PROVE Accepted(text)
BY DEF Parse, Accepted

LEMMA GroupLinesAreLines ==
  ASSUME NEW text \in Seq(TextLine)
  PROVE  GroupLines(text) \in SUBSET (1..Len(text))
BY ChildrenAreLines DEF GroupLines, TopLevel

\* A list of actions without a fault names their types.
LEMMA ActionsParsed ==
  ASSUME NEW text \in Seq(TextLine), NEW i \in Nat,
         i # 0 => i \in 1..Len(text)
  PROVE  /\ ParseActions(text, i) \in Seq(Strings)
         /\ i # 0 => /\ DOMAIN ParseActions(text, i) = DOMAIN InOrder(ChildrenOf(text, i))
                     /\ \A n \in DOMAIN InOrder(ChildrenOf(text, i)) :
                          ParseActions(text, i)[n] = ActionAt(text, InOrder(ChildrenOf(text, i))[n])
<1>1. CASE i = 0
  BY <1>1 DEF ParseActions
<1>2. CASE i # 0
  <2> DEFINE items == InOrder(ChildrenOf(text, i))
  <2>1. ParseActions(text, i) = [n \in DOMAIN items |-> ActionAt(text, items[n])]
    BY <1>2 DEF ParseActions
  <2>2. ChildrenOf(text, i) \in SUBSET (1..Len(text)) /\ Len(text) \in Nat
    BY ChildrenAreLines, SolidLines
  <2>3. items \in Seq(ChildrenOf(text, i))
    BY <2>2, InOrderLists
  <2> HIDE DEF items
  <2>4. ASSUME NEW n \in DOMAIN items PROVE ActionAt(text, items[n]) \in Strings
    <3>1. items[n] \in 1..Len(text)
      BY <2>2, <2>3
    <3>2. EntriesOf(text, items[n]) \in SUBSET (1..Len(text))
      BY <3>1, ChildrenAreLines
    <3> DEFINE t == Find(text, EntriesOf(text, items[n]), "type")
    <3>3. t = 0 \/ t \in 1..Len(text)
      BY <3>2, FindIsLast
    <3>4. ActionAt(text, items[n]) = IF t # 0 THEN text[t].val ELSE text[items[n]].key
      BY DEF ActionAt
    <3> HIDE DEF t
    <3> QED
      BY <3>1, <3>3, <3>4, SolidLines DEF TextLine
  <2>5. ParseActions(text, i) \in [1..Len(items) -> Strings] /\ Len(items) \in Nat
    BY <2>1, <2>3, <2>4
  <2> QED
    BY <1>2, <2>1, <2>5 DEF items
<1> QED
  BY <1>1, <1>2

\* A trigger without a fault has a type, and a list of actions.
LEMMA TriggersParsed ==
  ASSUME NEW text \in Seq(TextLine), NEW i \in 1..Len(text), ~TriggersFault(text, i)
  PROVE  ParseTriggers(text, i) \in Seq(ParsedTriggers)
<1> DEFINE items == InOrder(ChildrenOf(text, i))
<1>1. ParseTriggers(text, i) = [n \in DOMAIN items |-> TriggerAt(text, items[n])]
  BY DEF ParseTriggers
<1>2. ChildrenOf(text, i) \in SUBSET (1..Len(text)) /\ Len(text) \in Nat
  BY ChildrenAreLines, SolidLines
<1>3. items \in Seq(ChildrenOf(text, i))
  BY <1>2, InOrderLists
<1> HIDE DEF items
<1>4. ASSUME NEW n \in DOMAIN items PROVE TriggerAt(text, items[n]) \in ParsedTriggers
  <2>1. items[n] \in ChildrenOf(text, i) /\ items[n] \in 1..Len(text)
    BY <1>2, <1>3
  <2> DEFINE entries == EntriesOf(text, items[n])
             t == Find(text, entries, "type")
             do == Find(text, entries, "do")
  <2>2. entries \in SUBSET (1..Len(text))
    BY <2>1, ChildrenAreLines
  <2>3. t \in 1..Len(text)
    <3>1. "type" \in {text[j].key : j \in entries}
      BY <2>1 DEF TriggersFault, TriggerFault
    <3> QED
      BY <2>2, <3>1, FindIsLast
  <2>4. do \in Nat /\ (do # 0 => do \in 1..Len(text))
    BY <2>2, FindIsLast
  <2>5. TriggerAt(text, items[n]) = [type |-> text[t].val, actions |-> ParseActions(text, do)]
    BY DEF TriggerAt
  <2> HIDE DEF t, do
  <2>6. ParseActions(text, do) \in Seq(Strings)
    BY <2>4, ActionsParsed
  <2>7. text[t].val \in Strings
    BY <2>3, SolidLines DEF TextLine
  <2> QED
    BY <2>5, <2>6, <2>7 DEF ParsedTriggers
<1>5. ParseTriggers(text, i) \in [1..Len(items) -> ParsedTriggers] /\ Len(items) \in Nat
  BY <1>1, <1>3, <1>4
<1> QED
  BY <1>5

\* The sections of a group without a fault.
LEMMA GroupParsed ==
  ASSUME NEW text \in Seq(TextLine), NEW i \in 1..Len(text), ~GroupFault(text, i)
  PROVE  /\ IsParsedGroup(ParseGroup(text, i))
         /\ OnOf(text, ChildrenOf(text, i)) \in ChildrenOf(text, i)
<1> DEFINE sections == ChildrenOf(text, i)
           on == OnOf(text, sections)
           do == Find(text, sections, "do")
<1>1. sections \in SUBSET (1..Len(text)) /\ Len(text) \in Nat
  BY ChildrenAreLines, SolidLines
<1>2. on # 0 /\ ~TriggersFault(text, on)
  BY DEF GroupFault
<1>3. on \in sections
  <2>1. on = 0 \/ on \in sections
    BY <1>1, FindIsLast DEF OnOf
  <2> QED
    BY <1>2, <2>1
<1>4. do \in Nat /\ (do # 0 => do \in 1..Len(text))
  BY <1>1, FindIsLast
<1>5. ParseGroup(text, i) =
        [name |-> text[i].key, aliases |-> ParseAliases(text, Find(text, sections, "aliases")),
         triggers |-> ParseTriggers(text, on), actions |-> ParseActions(text, do)]
  BY DEF ParseGroup
<1> HIDE DEF on, do
<1>6. ParseTriggers(text, on) \in Seq(ParsedTriggers)
  BY <1>1, <1>2, <1>3, TriggersParsed
<1>7. ParseActions(text, do) \in Seq(Strings)
  BY <1>4, ActionsParsed
<1>8. text[i].key \in Strings
  BY SolidLines DEF TextLine
<1> QED
  BY <1>3, <1>5, <1>6, <1>7, <1>8 DEF IsParsedGroup, on

\* What Parse accepts is a list of groups.
LEMMA ParsedGroups ==
  ASSUME NEW text \in Seq(TextLine), Parse(text) # Invalid
  PROVE  /\ \E m \in Nat : DOMAIN Parse(text).groups = 1..m /\ m = Cardinality(GroupLines(text))
         /\ Parse(text).groups = [n \in DOMAIN Parse(text).groups |-> Parse(text).groups[n]]
         /\ \A n \in DOMAIN Parse(text).groups : IsParsedGroup(Parse(text).groups[n])
<1> DEFINE lines == InOrder(GroupLines(text))
<1>1. Accepted(text)
  BY ParseAccepts
<1>2. GroupLines(text) \in SUBSET (1..Len(text)) /\ Len(text) \in Nat
  BY GroupLinesAreLines, SolidLines
<1>3. lines \in Seq(GroupLines(text)) /\ Len(lines) = Cardinality(GroupLines(text)) /\ Len(lines) \in Nat
  BY <1>2, InOrderLists
<1>4. Parse(text).groups = [n \in DOMAIN lines |-> ParseGroup(text, lines[n])]
  BY <1>1 DEF Accepted
<1> HIDE DEF lines
<1>5. \A n \in DOMAIN lines : IsParsedGroup(ParseGroup(text, lines[n]))
  <2> SUFFICES ASSUME NEW n \in DOMAIN lines PROVE IsParsedGroup(ParseGroup(text, lines[n]))
    OBVIOUS
  <2>1. lines[n] \in GroupLines(text) /\ lines[n] \in 1..Len(text)
    BY <1>2, <1>3
  <2>2. ~GroupFault(text, lines[n])
    BY <1>1, <2>1 DEF Accepted
  <2> QED
    BY <2>1, <2>2, GroupParsed
<1> QED
  BY <1>3, <1>4, <1>5
-----------------------------------------------------------------------------
(* What add writes are texts. *)

LEMMA EntriesAreText ==
  ASSUME NEW types \in Seq(Strings), NEW column \in Nat
  PROVE  Entries(column, types) \in Seq(TextLine) /\ Len(Entries(column, types)) = Len(types)
<1>1. ASSUME NEW n \in 1..Len(types) PROVE Item(column, "type", types[n]) \in TextLine
  <2>1. types[n] \in Strings
    OBVIOUS
  <2>2. "type" \in Strings
    BY DEF Strings
  <2> QED
    BY <2>1, <2>2 DEF Item, TextLine
<1>2. Entries(column, types) \in [1..Len(types) -> TextLine] /\ Len(types) \in Nat
  BY <1>1 DEF Entries
<1> QED
  BY <1>2

LEMMA Literals == {"", "type", "on", "do"} \subseteq Strings
BY DEF Strings

\* Sequences, whatever they are made of.
LEMMA Joined ==
  ASSUME NEW S, NEW a \in Seq(S), NEW b \in Seq(S)
  PROVE  /\ a \o b \in Seq(S) /\ Len(a \o b) = Len(a) + Len(b) /\ Len(a) \in Nat /\ Len(b) \in Nat
         /\ \A i \in 1..Len(a) + Len(b) : (a \o b)[i] = IF i <= Len(a) THEN a[i] ELSE b[i - Len(a)]
OBVIOUS

LEMMA Single == ASSUME NEW S, NEW x \in S PROVE <<x>> \in Seq(S)
OBVIOUS

LEMMA Headed ==
  ASSUME NEW S, NEW x \in S, NEW b \in Seq(S)
  PROVE  <<x>> \o b \in Seq(S) /\ Len(<<x>> \o b) = Len(b) + 1 /\ Len(b) \in Nat
OBVIOUS

LEMMA LinesAreLines ==
  /\ Blank \in TextLine
  /\ \A column \in Nat, key \in Strings : Line(column, key, "") \in TextLine
BY DEF Blank, Line, TextLine, Strings

LEMMA StubIsText ==
  ASSUME NEW name \in Strings, NEW triggers \in Seq(Strings), NEW actions \in Seq(Strings)
  PROVE  GenerateGroupStub(name, triggers, actions) \in Seq(TextLine)
<1>1. ASSUME NEW key \in Strings, NEW types \in Seq(Strings) PROVE Section(key, types) \in Seq(TextLine)
  <2>1. Entries(4, types) \in Seq(TextLine)
    BY EntriesAreText
  <2>2. Line(2, key, "") \in TextLine
    BY LinesAreLines
  <2>3. <<Line(2, key, "")>> \o Entries(4, types) \in Seq(TextLine)
    BY <2>1, <2>2, Headed
  <2>4. << >> \in Seq(TextLine)
    OBVIOUS
  <2> QED
    BY <2>3, <2>4 DEF Section
<1>2. Section("on", triggers) \in Seq(TextLine) /\ Section("do", actions) \in Seq(TextLine)
  BY <1>1, Literals
<1>3. Line(0, name, "") \in TextLine /\ Blank \in TextLine
  BY LinesAreLines
<1>4. <<Line(0, name, "")>> \o Section("on", triggers) \in Seq(TextLine)
  BY <1>2, <1>3, Headed
<1>5. <<Line(0, name, "")>> \o Section("on", triggers) \o Section("do", actions) \in Seq(TextLine)
  BY <1>2, <1>4, Joined
<1>6. <<Blank>> \in Seq(TextLine)
  BY <1>3, Single
<1> QED
  BY <1>5, <1>6, Joined DEF GenerateGroupStub

\* Lines that are put into a text make a longer one, whatever is overwritten.
LEMMA InsertIsText ==
  ASSUME NEW lines \in Seq(TextLine), NEW k \in 0..Len(lines), NEW new \in Seq(TextLine), NEW capacity
  PROVE  /\ Insert(lines, k, new, capacity) \in Seq(TextLine)
         /\ Len(Insert(lines, k, new, capacity)) = Len(lines) + Len(new)
<1> DEFINE before == SubSeq(lines, 1, k)
           after == SubSeq(lines, k + 1, Len(lines))
           overwritten == [i \in DOMAIN after |-> IF i <= Len(new) THEN new[i] ELSE after[i]]
<1>1. Len(lines) \in Nat /\ Len(new) \in Nat
  OBVIOUS
<1>2. before \in Seq(TextLine) /\ Len(before) = k
  BY <1>1
<1>3. after \in Seq(TextLine) /\ Len(after) = Len(lines) - k
  BY <1>1
<1>4. Insert(lines, k, new, capacity) = before \o new \o (IF k + Len(new) <= capacity THEN overwritten ELSE after)
  BY DEF Insert
<1> HIDE DEF before, after
<1>5. overwritten \in Seq(TextLine) /\ Len(overwritten) = Len(after)
  <2>1. \A i \in 1..Len(after) : (IF i <= Len(new) THEN new[i] ELSE after[i]) \in TextLine
    BY <1>1, <1>3
  <2>2. overwritten \in [1..Len(after) -> TextLine] /\ Len(after) \in Nat
    BY <1>3, <2>1
  <2> QED
    BY <2>2
<1> HIDE DEF overwritten
<1>6. PICK tail \in Seq(TextLine) :
        Insert(lines, k, new, capacity) = before \o new \o tail /\ Len(tail) = Len(lines) - k
  BY <1>3, <1>4, <1>5
<1> DEFINE both == before \o new
<1>7. both \in Seq(TextLine) /\ Len(both) = k + Len(new)
  BY <1>2, Joined
<1> HIDE DEF both
<1>8. both \o tail \in Seq(TextLine) /\ Len(both \o tail) = (k + Len(new)) + (Len(lines) - k)
  <2>1. tail \in Seq(TextLine) /\ Len(tail) = Len(lines) - k
    BY <1>6
  <2>2. both \o tail \in Seq(TextLine) /\ Len(both \o tail) = Len(both) + Len(tail)
    BY <1>7, <2>1, Joined
  <2> QED
    BY <1>7, <2>1, <2>2
<1> QED
  BY <1>1, <1>6, <1>8 DEF both

\* Where a group begins and ends.
LEMMA GroupIndexInText ==
  ASSUME NEW text \in Seq(TextLine), NEW name
  PROVE  \/ GroupIndex(text, name) = 0 /\ \A i \in 1..Len(text) : ~IsHeader(text[i], name)
         \/ /\ GroupIndex(text, name) \in 1..Len(text)
            /\ IsHeader(text[GroupIndex(text, name)], name)
            /\ \A i \in 1..Len(text) : IsHeader(text[i], name) => GroupIndex(text, name) <= i
<1> DEFINE found == {i \in DOMAIN text : IsHeader(text[i], name)}
<1>1. found \in SUBSET (1..Len(text)) /\ Len(text) \in Nat /\ DOMAIN text = 1..Len(text)
  BY SolidLines
<1>2. GroupIndex(text, name) = IF found = {} THEN 0 ELSE Min(found)
  BY DEF GroupIndex, First
<1>3. CASE found = {}
  BY <1>1, <1>2, <1>3
<1>4. CASE found # {}
  <2>1. Min(found) \in found /\ \A i \in found : Min(found) <= i
    BY <1>1, <1>4, MinOfLines
  <2> QED
    BY <1>1, <1>2, <1>4, <2>1
<1> QED
  BY <1>3, <1>4

LEMMA GroupEndInText ==
  ASSUME NEW text \in Seq(TextLine), NEW g \in 1..Len(text)
  PROVE  /\ GroupEnd(text, g) \in g..Len(text)
         /\ \A i \in g + 1..GroupEnd(text, g) : text[i] = Blank \/ text[i].at # 0
         /\ GroupEnd(text, g) < Len(text) => text[GroupEnd(text, g) + 1].at = 0
<1> DEFINE found == {i \in g + 1..Len(text) : text[i] # Blank /\ text[i].at = 0}
<1>1. found \in SUBSET (1..Len(text)) /\ Len(text) \in Nat /\ found \in SUBSET (g + 1..Len(text))
  BY SolidLines
<1>2. GroupEnd(text, g) = (IF found = {} THEN Len(text) + 1 ELSE Min(found)) - 1
  BY DEF GroupEnd, First
<1>3. CASE found = {}
  BY <1>1, <1>2, <1>3
<1>4. CASE found # {}
  <2>1. Min(found) \in found /\ \A i \in found : Min(found) <= i
    BY <1>1, <1>4, MinOfLines
  <2>2. GroupEnd(text, g) = Min(found) - 1
    BY <1>2, <1>4
  <2>3. Min(found) \in g + 1..Len(text) /\ text[Min(found)].at = 0
    BY <2>1
  <2>4. ASSUME NEW i \in g + 1..Min(found) - 1 PROVE text[i] = Blank \/ text[i].at # 0
    <3>1. i \in g + 1..Len(text) /\ ~(Min(found) <= i)
      BY <1>1, <2>3
    <3> QED
      BY <2>1, <3>1
  <2> HIDE DEF found
  <2> QED
    BY <1>1, <2>2, <2>3, <2>4
<1> QED
  BY <1>3, <1>4

LEMMA TypesAreStrings ==
  ASSUME NEW triggers \in Seq(ParsedTriggers)
  PROVE  TypesOf(triggers) \in Seq(Strings) /\ Len(TypesOf(triggers)) = Len(triggers)
<1>1. \A n \in 1..Len(triggers) : triggers[n] \in ParsedTriggers
  OBVIOUS
<1>2. \A t \in ParsedTriggers : t.type \in Strings
  BY DEF ParsedTriggers
<1>3. TypesOf(triggers) = [n \in 1..Len(triggers) |-> triggers[n].type] /\ Len(triggers) \in Nat
  BY DEF TypesOf
<1>4. TypesOf(triggers) \in [1..Len(triggers) -> Strings]
  BY <1>1, <1>2, <1>3
<1> QED
  BY <1>3, <1>4

LEMMA TriggersInserted ==
  ASSUME NEW text \in Seq(TextLine), NEW g \in 1..Len(text), NEW triggers \in Seq(ParsedTriggers)
  PROVE  /\ InsertTriggers(text, g, triggers) \in Seq(TextLine)
         /\ Len(InsertTriggers(text, g, triggers)) >= Len(text)
<1> DEFINE end == GroupEnd(text, g)
           new == Entries(4, TypesOf(triggers))
           ons == {i \in g + 1..end : IsHeader(text[i], "on")}
           on == IF ons = {} THEN 0 ELSE Min(ons)
           dos == {i \in on + 1..end : IsHeader(text[i], "do")}
           do == IF dos = {} THEN end + 1 ELSE Min(dos)
<1>1. end \in g..Len(text) /\ Len(text) \in Nat
  BY GroupEndInText, SolidLines
<1>2. TypesOf(triggers) \in Seq(Strings)
  BY TypesAreStrings
<1>3. new \in Seq(TextLine) /\ Len(new) \in Nat
  BY <1>2, EntriesAreText
<1>4. InsertTriggers(text, g, triggers) =
        IF on # 0 THEN Insert(text, do - 1, new, Len(text))
        ELSE Insert(text, g, <<Line(2, "on", "")>> \o new, Len(text))
  BY DEF InsertTriggers, First
<1>5. on = 0 \/ on \in g + 1..end
  <2>1. ons \in SUBSET (1..Len(text))
    BY <1>1
  <2>2. ons # {} => Min(ons) \in ons
    BY <1>1, <2>1, MinOfLines
  <2> QED
    BY <2>2
<1> HIDE DEF end, new, on
<1>6. CASE on # 0
  <2>1. do \in on + 1..end + 1
    <3>1. dos \in SUBSET (1..Len(text))
      BY <1>1, <1>5, <1>6
    <3>2. dos # {} => Min(dos) \in dos
      BY <1>1, <3>1, MinOfLines
    <3> QED
      BY <1>1, <1>5, <1>6, <3>2
  <2> HIDE DEF do
  <2>2. do - 1 \in 0..Len(text)
    BY <1>1, <1>5, <1>6, <2>1
  <2> QED
    BY <1>1, <1>3, <1>4, <1>6, <2>2, InsertIsText
<1>7. CASE on = 0
  <2>1. <<Line(2, "on", "")>> \o new \in Seq(TextLine) /\ Len(<<Line(2, "on", "")>> \o new) \in Nat
    <3>1. Line(2, "on", "") \in TextLine
      BY LinesAreLines, Literals
    <3> QED
      BY <1>3, <3>1, Headed
  <2>2. g \in 0..Len(text)
    OBVIOUS
  <2>3. InsertTriggers(text, g, triggers) = Insert(text, g, <<Line(2, "on", "")>> \o new, Len(text))
    BY <1>4, <1>7
  <2> DEFINE headed == <<Line(2, "on", "")>> \o new
  <2> HIDE DEF headed
  <2>4. headed \in Seq(TextLine) /\ Len(headed) \in Nat
    BY <2>1 DEF headed
  <2>5. InsertTriggers(text, g, triggers) = Insert(text, g, headed, Len(text))
    BY <2>3 DEF headed
  <2>6. /\ InsertTriggers(text, g, triggers) \in Seq(TextLine)
        /\ Len(InsertTriggers(text, g, triggers)) = Len(text) + Len(headed)
    BY <2>2, <2>4, <2>5, InsertIsText
  <2> QED
    BY <1>1, <2>4, <2>6
<1> QED
  BY <1>6, <1>7

LEMMA ActionsInserted ==
  ASSUME NEW lines \in Seq(TextLine), NEW g \in 1..Len(lines), NEW end \in g..Len(lines),
         NEW actions \in Seq(Strings), NEW capacity
  PROVE  InsertActions(lines, g, end, actions, capacity) \in Seq(TextLine)
<1> DEFINE new == Entries(4, actions)
           dos == {i \in g + 1..end : IsHeader(lines[i], "do")}
           do == IF dos = {} THEN 0 ELSE Min(dos)
           ends == {i \in do + 1..end : lines[i] # Blank /\ ~lines[i].item}
           doEnd == IF ends = {} THEN end + 1 ELSE Min(ends)
<1>1. Len(lines) \in Nat
  BY SolidLines
<1>2. new \in Seq(TextLine)
  BY EntriesAreText
<1>3. InsertActions(lines, g, end, actions, capacity) =
        IF do # 0 THEN Insert(lines, doEnd - 1, new, capacity)
        ELSE Insert(lines, end, <<Line(2, "do", "")>> \o new, capacity)
  BY DEF InsertActions, First
<1>4. do = 0 \/ do \in g + 1..end
  <2>1. dos \in SUBSET (1..Len(lines))
    BY <1>1
  <2>2. dos # {} => Min(dos) \in dos
    BY <1>1, <2>1, MinOfLines
  <2> QED
    BY <2>2
<1> HIDE DEF new, do
<1>5. CASE do # 0
  <2>1. doEnd \in do + 1..end + 1
    <3>1. ends \in SUBSET (1..Len(lines))
      BY <1>1, <1>4, <1>5
    <3>2. ends # {} => Min(ends) \in ends
      BY <1>1, <3>1, MinOfLines
    <3> QED
      BY <1>1, <1>4, <1>5, <3>2
  <2> HIDE DEF doEnd
  <2>2. doEnd - 1 \in 0..Len(lines)
    BY <1>1, <1>4, <1>5, <2>1
  <2> QED
    BY <1>2, <1>3, <1>5, <2>2, InsertIsText
<1>6. CASE do = 0
  <2>1. <<Line(2, "do", "")>> \o new \in Seq(TextLine)
    <3>1. Line(2, "do", "") \in TextLine
      BY LinesAreLines, Literals
    <3> QED
      BY <1>2, <3>1, Headed
  <2>2. end \in 0..Len(lines)
    OBVIOUS
  <2> QED
    BY <1>3, <1>6, <2>1, <2>2, InsertIsText
<1> QED
  BY <1>5, <1>6

LEMMA MergedGroupIsText ==
  ASSUME NEW text \in Seq(TextLine), NEW fg, IsParsedGroup(fg)
  PROVE  MergeGroupIntoYAML(text, fg) \in Seq(TextLine)
<1> DEFINE g == GroupIndex(text, fg.name)
           lines == InsertTriggers(text, g, fg.triggers)
           end == GroupEnd(text, g) + (Len(lines) - Len(text))
           capacity == Max({2 * Len(text), Len(lines)})
<1>1. fg.name \in Strings /\ fg.triggers \in Seq(ParsedTriggers) /\ fg.actions \in Seq(Strings)
  BY DEF IsParsedGroup
<1>2. MergeGroupIntoYAML(text, fg) =
        IF g = 0 THEN text \o GenerateGroupStub(fg.name, TypesOf(fg.triggers), fg.actions)
        ELSE IF fg.actions = <<>> THEN lines
        ELSE InsertActions(lines, g, end, fg.actions, capacity)
  BY DEF MergeGroupIntoYAML
<1>3. g = 0 \/ g \in 1..Len(text)
  BY GroupIndexInText
<1> HIDE DEF g
<1>4. CASE g = 0
  <2>1. TypesOf(fg.triggers) \in Seq(Strings)
    BY <1>1, TypesAreStrings
  <2>2. GenerateGroupStub(fg.name, TypesOf(fg.triggers), fg.actions) \in Seq(TextLine)
    BY <1>1, <2>1, StubIsText
  <2> QED
    BY <1>2, <1>4, <2>2
<1>5. CASE g # 0
  <2>1. g \in 1..Len(text) /\ Len(text) \in Nat
    BY <1>3, <1>5, SolidLines
  <2>2. lines \in Seq(TextLine) /\ Len(lines) >= Len(text) /\ Len(lines) \in Nat
    BY <1>1, <2>1, TriggersInserted
  <2>3. GroupEnd(text, g) \in g..Len(text)
    BY <2>1, GroupEndInText
  <2> HIDE DEF lines, capacity
  <2>4. g \in 1..Len(lines) /\ end \in g..Len(lines)
    BY <2>1, <2>2, <2>3
  <2> HIDE DEF end
  <2>5. InsertActions(lines, g, end, fg.actions, capacity) \in Seq(TextLine)
    BY <1>1, <2>2, <2>4, ActionsInserted
  <2> QED
    BY <1>2, <1>5, <2>2, <2>5
<1> QED
  BY <1>4, <1>5

LEMMA MergeIsText ==
  ASSUME NEW existing \in Seq(TextLine), NEW fragment \in Seq(TextLine),
         Merge(existing, fragment) # Invalid
  PROVE  Merge(existing, fragment) \in Seq(TextLine)
<1> DEFINE old == Parse(existing)
           new == Parse(fragment)
           names == {old.groups[n].name : n \in DOMAIN old.groups}
           both == {n \in DOMAIN new.groups : new.groups[n].name \in names}
<1>1. Merge(existing, fragment) =
        IF Solid(existing) = {} THEN fragment
        ELSE IF old = Invalid \/ new = Invalid THEN Invalid
        ELSE IF both # {} THEN MergeGroupIntoYAML(existing, new.groups[Min(both)])
        ELSE existing \o fragment
  BY DEF Merge
<1>2. CASE new # Invalid /\ both # {}
  <2>1. PICK m \in Nat : DOMAIN new.groups = 1..m
    BY <1>2, ParsedGroups
  <2>2. Min(both) \in both
    <3>1. both \in SUBSET (1..m)
      BY <2>1
    <3> QED
      BY <1>2, <3>1, MinOfLines
  <2>3. IsParsedGroup(new.groups[Min(both)])
    BY <1>2, <2>2, ParsedGroups
  <2>4. MergeGroupIntoYAML(existing, new.groups[Min(both)]) \in Seq(TextLine)
    BY <2>3, MergedGroupIsText
  <2> HIDE DEF old, new, both
  <2> QED
    BY <1>1, <1>2, <2>4
<1>3. CASE new = Invalid \/ both = {}
  <2> HIDE DEF old, new, both
  <2> QED
    BY <1>1, <1>3
<1> QED
  BY <1>2, <1>3
-----------------------------------------------------------------------------
(* What is registered. *)

\* With the aliases of the group over those of the file, a name stands for its meaning.
LEMMA ExpandedIsMeant ==
  ASSUME NEW f, NEW g, NEW name
  PROVE  ExpandAlias(name, MergeAliases(f.aliases, g.aliases)) = Meaning(name, f, g)
<1> DEFINE aliases == MergeAliases(f.aliases, g.aliases)
           p == Split[name][1]
<1>1. DOMAIN aliases = DOMAIN f.aliases \union DOMAIN g.aliases
  BY DEF MergeAliases
<1>2. p \in DOMAIN aliases => aliases[p] = IF p \in DOMAIN g.aliases THEN g.aliases[p] ELSE f.aliases[p]
  BY DEF MergeAliases
<1>3. ExpandAlias(name, aliases) = IF p \in DOMAIN aliases THEN Join[<<aliases[p], Split[name][2]>>] ELSE name
  BY DEF ExpandAlias
<1>4. Meaning(name, f, g) =
        IF p \in DOMAIN g.aliases THEN Join[<<g.aliases[p], Split[name][2]>>]
        ELSE IF p \in DOMAIN f.aliases THEN Join[<<f.aliases[p], Split[name][2]>>] ELSE name
  BY DEF Meaning
<1> HIDE DEF aliases, p
<1>5. ExpandAlias(name, aliases) = Meaning(name, f, g)
  BY <1>1, <1>2, <1>3, <1>4
<1> QED
  BY <1>5 DEF aliases

\* Without aliases of aliases it does not matter that inherited actions are expanded twice.
LEMMA ExpandedOnce ==
  ASSUME NEW f, NEW g, NEW a \in DOMAIN g.actions, NoChain(f, g)
  PROVE  ExpandAlias(Meaning(g.actions[a], f, g), MergeAliases(f.aliases, g.aliases))
           = Meaning(g.actions[a], f, g)
<1>1. Split[Meaning(g.actions[a], f, g)][1] \notin DOMAIN f.aliases \union DOMAIN g.aliases
  BY DEF NoChain
<1>2. DOMAIN MergeAliases(f.aliases, g.aliases) = DOMAIN f.aliases \union DOMAIN g.aliases
  BY DEF MergeAliases
<1> QED
  BY <1>1, <1>2 DEF ExpandAlias

\* A trigger as it is registered has the meaning of its type and those of its actions.
LEMMA TriggerResolved ==
  ASSUME NEW f, NEW g, IsParsedGroup(g), NoChain(f, g), NEW i \in DOMAIN g.triggers
  PROVE  LET own == g.triggers[i].actions
             actions == IF own = <<>> THEN g.actions ELSE own
         IN ResolveGroup(g, f.aliases).triggers[i] =
              [type    |-> Meaning(g.triggers[i].type, f, g),
               actions |-> [a \in DOMAIN actions |-> Meaning(actions[a], f, g)]]
<1> DEFINE aliases == MergeAliases(f.aliases, g.aliases)
           inherited == ExpandAll(g.actions, aliases)
           t == g.triggers[i]
           actions == IF t.actions = <<>> THEN g.actions ELSE t.actions
           expanded == ExpandAll(IF t.actions = <<>> THEN inherited ELSE t.actions, aliases)
<1>1. ResolveGroup(g, f.aliases).triggers[i] = [type |-> ExpandAlias(t.type, aliases), actions |-> expanded]
  BY DEF ResolveGroup, ResolveTrigger
<1>2. ExpandAlias(t.type, aliases) = Meaning(t.type, f, g)
  BY ExpandedIsMeant
<1>3. expanded = [a \in DOMAIN actions |-> Meaning(actions[a], f, g)]
  <2>1. CASE t.actions = <<>>
    <3>1. DOMAIN inherited = DOMAIN g.actions
      BY DEF ExpandAll
    <3>2. \A a \in DOMAIN g.actions : inherited[a] = Meaning(g.actions[a], f, g)
      BY ExpandedIsMeant DEF ExpandAll
    <3>3. \A a \in DOMAIN g.actions : ExpandAlias(inherited[a], aliases) = Meaning(g.actions[a], f, g)
      BY <3>2, ExpandedOnce
    <3>4. expanded = [a \in DOMAIN inherited |-> ExpandAlias(inherited[a], aliases)]
      BY <2>1 DEF ExpandAll
    <3> HIDE DEF inherited, expanded, aliases
    <3>5. expanded = [a \in DOMAIN g.actions |-> Meaning(g.actions[a], f, g)]
      BY <3>1, <3>3, <3>4
    <3> QED
      BY <2>1, <3>5
  <2>2. CASE t.actions # <<>>
    <3>1. expanded = [a \in DOMAIN t.actions |-> ExpandAlias(t.actions[a], aliases)]
      BY <2>2 DEF ExpandAll
    <3>2. \A a \in DOMAIN t.actions : ExpandAlias(t.actions[a], aliases) = Meaning(t.actions[a], f, g)
      BY ExpandedIsMeant
    <3> HIDE DEF expanded, aliases, t
    <3>3. expanded = [a \in DOMAIN t.actions |-> Meaning(t.actions[a], f, g)]
      BY <3>1, <3>2
    <3> QED
      BY <2>2, <3>3
  <2> QED
    BY <2>1, <2>2
<1> HIDE DEF aliases, expanded
<1> QED
  BY <1>1, <1>2, <1>3

\* The daemon's copy is what Resolve makes of a text that parses.
RegisteredInv ==
  registered # None =>
    \E text \in Seq(TextLine) :
      /\ Parse(text) # Invalid
      /\ registered.source = Parse(text)
      /\ registered.groups = Resolve(Parse(text))

LEMMA RegisteredFollows == RegisteredInv => RegisteredAsWritten
<1> SUFFICES ASSUME RegisteredInv, registered # None,
                    NEW n \in DOMAIN registered.source.groups,
                    NoChain(registered.source, registered.source.groups[n])
             PROVE  LET f == registered.source
                        g == f.groups[n]
                    IN /\ Len(registered.groups[n].triggers) = Len(g.triggers)
                       /\ \A i \in DOMAIN g.triggers :
                            LET own == g.triggers[i].actions
                                actions == IF own = <<>> THEN g.actions ELSE own
                            IN registered.groups[n].triggers[i] =
                                 [type    |-> Meaning(g.triggers[i].type, f, g),
                                  actions |-> [a \in DOMAIN actions |-> Meaning(actions[a], f, g)]]
  BY DEF RegisteredAsWritten
<1> DEFINE f == registered.source
           g == f.groups[n]
<1>1. PICK text \in Seq(TextLine) : Parse(text) # Invalid /\ f = Parse(text) /\ registered.groups = Resolve(f)
  BY DEF RegisteredInv
<1>2. IsParsedGroup(g)
  BY <1>1, ParsedGroups
<1>3. registered.groups[n] = ResolveGroup(g, f.aliases)
  BY <1>1 DEF Resolve
<1>4. g.triggers \in Seq(ParsedTriggers)
  BY <1>2 DEF IsParsedGroup
<1>5. Len(registered.groups[n].triggers) = Len(g.triggers)
  <2>1. DOMAIN registered.groups[n].triggers = DOMAIN g.triggers
    BY <1>3 DEF ResolveGroup
  <2>2. registered.groups[n].triggers = [i \in DOMAIN g.triggers |-> registered.groups[n].triggers[i]]
    <3> PICK aliases, inherited : aliases = MergeAliases(f.aliases, g.aliases) /\ inherited = ExpandAll(g.actions, aliases)
      OBVIOUS
    <3>1. registered.groups[n].triggers = [k \in DOMAIN g.triggers |-> ResolveTrigger(g.triggers[k], inherited, aliases)]
      BY <1>3 DEF ResolveGroup
    <3> QED
      BY <3>1
  <2> DEFINE s == registered.groups[n].triggers
             t == g.triggers
  <2> HIDE DEF s, t
  <2>3. t \in Seq(ParsedTriggers) /\ s = [i \in DOMAIN t |-> s[i]]
    BY <1>4, <2>2 DEF s, t
  <2>4. Len(s) = Len(t)
    BY <2>3
  <2> QED
    BY <2>4 DEF s, t
<1>6. ASSUME NEW i \in DOMAIN g.triggers
      PROVE  LET own == g.triggers[i].actions
                 actions == IF own = <<>> THEN g.actions ELSE own
             IN registered.groups[n].triggers[i] =
                  [type    |-> Meaning(g.triggers[i].type, f, g),
                   actions |-> [a \in DOMAIN actions |-> Meaning(actions[a], f, g)]]
  <2>1. LET own == g.triggers[i].actions
            actions == IF own = <<>> THEN g.actions ELSE own
        IN ResolveGroup(g, f.aliases).triggers[i] =
             [type    |-> Meaning(g.triggers[i].type, f, g),
              actions |-> [a \in DOMAIN actions |-> Meaning(actions[a], f, g)]]
    BY <1>2, TriggerResolved, ZenonT(30)
  <2> QED
    BY <1>3, <2>1
<1> QED
  BY <1>5, <1>6

-----------------------------------------------------------------------------
(* The commands. *)

\* The file and what an add has in hand are texts; what it is about to write is the merge of
\* its fragment into what it has read, and both parse.
AddInv(c) ==
  /\ DOMAIN op[c] = {"pc", "fragment", "read", "merged"}
  /\ op[c].pc \in {"merge", "write"} =>
       op[c].fragment \in Seq(TextLine) /\ Parse(op[c].fragment) # Invalid
  /\ op[c].pc = "write" =>
       /\ op[c].merged \in Seq(TextLine) /\ Parse(op[c].merged) # Invalid
       /\ op[c].merged # Invalid
       /\ op[c].merged = IF op[c].read = NoFile THEN op[c].fragment
                         ELSE Merge(op[c].read, op[c].fragment)

TextInv ==
  /\ file = NoFile \/ file \in Seq(TextLine)
  /\ op = [c \in Clients |-> op[c]]
  /\ \A c \in Clients : AddInv(c)

CommandInv == TextInv /\ RegisteredInv

LEMMA CommandInvInit == CommandsInit => CommandInv
BY DEF CommandsInit, CommandInv, TextInv, AddInv, RegisteredInv, NoCommand

\* What EXCEPT does to the record of a client.
LEMMA OpChanged ==
  ASSUME NEW o, DOMAIN o = {"pc", "fragment", "read", "merged"}, NEW pc, NEW read, NEW merged
  PROVE  LET other == [o EXCEPT !.pc = pc, !.read = read]
             next == [o EXCEPT !.pc = pc, !.read = read, !.merged = merged]
         IN /\ DOMAIN other = DOMAIN o /\ other.pc = pc
            /\ DOMAIN next = DOMAIN o
            /\ next.pc = pc /\ next.fragment = o.fragment /\ next.read = read /\ next.merged = merged
OBVIOUS

\* A step of one client.
LEMMA ClientGoesOn ==
  ASSUME TextInv, NEW c \in Clients, NEW new, op' = [op EXCEPT ![c] = new],
         DOMAIN new = {"pc", "fragment", "read", "merged"},
         new.pc \in {"merge", "write"} =>
           new.fragment \in Seq(TextLine) /\ Parse(new.fragment) # Invalid,
         new.pc = "write" =>
           /\ new.merged \in Seq(TextLine) /\ Parse(new.merged) # Invalid /\ new.merged # Invalid
           /\ new.merged = IF new.read = NoFile THEN new.fragment ELSE Merge(new.read, new.fragment)
  PROVE  op' = [d \in Clients |-> op'[d]] /\ \A d \in Clients : AddInv(d)'
<1>1. op' = [d \in Clients |-> IF d = c THEN new ELSE op[d]]
  BY DEF TextInv
<1>2. \A d \in Clients : op'[d] = IF d = c THEN new ELSE op[d]
  BY <1>1
<1>3. ASSUME NEW d \in Clients PROVE AddInv(d)'
  <2>1. CASE d = c
    <3>1. op'[d] = new
      BY <1>2, <2>1
    <3> QED
      BY <3>1 DEF AddInv
  <2>2. CASE d # c
    <3>1. op'[d] = op[d]
      BY <1>2, <2>2
    <3> QED
      BY <3>1 DEF AddInv, TextInv
  <2> QED
    BY <2>1, <2>2
<1> QED
  BY <1>1, <1>2, <1>3

LEMMA IdleGoesOn ==
  ASSUME TextInv, NEW c \in Clients, Finish(c)
  PROVE  op' = [d \in Clients |-> op'[d]] /\ \A d \in Clients : AddInv(d)'
<1>1. op' = [op EXCEPT ![c] = NoCommand]
  BY DEF Finish
<1>2. /\ DOMAIN NoCommand = {"pc", "fragment", "read", "merged"}
      /\ NoCommand.pc \notin {"merge", "write"}
  BY DEF NoCommand
<1> HIDE DEF NoCommand
<1> QED
  BY <1>1, <1>2, ClientGoesOn

\* The client goes on to a step that has no text in hand.
LEMMA OtherStep ==
  ASSUME TextInv, NEW c \in Clients, NEW pc, NEW read, pc \notin {"merge", "write"},
         op' = [op EXCEPT ![c] = [op[c] EXCEPT !.pc = pc, !.read = read]]
  PROVE  op' = [d \in Clients |-> op'[d]] /\ \A d \in Clients : AddInv(d)'
<1> DEFINE new == [op[c] EXCEPT !.pc = pc, !.read = read]
<1>1. DOMAIN new = {"pc", "fragment", "read", "merged"} /\ new.pc = pc
  BY OpChanged DEF TextInv, AddInv
<1> HIDE DEF new
<1>2. op' = [op EXCEPT ![c] = new]
  BY DEF new
<1> QED
  BY <1>1, <1>2, ClientGoesOn

LEMMA Wider == ASSUME NEW S, NEW T, S \subseteq T PROVE Seq(S) \subseteq Seq(T)
OBVIOUS

LEMMA AddKeeps ==
  ASSUME CommandInv, NEW c \in Clients,
         AddBegin(c) \/ AddMerge(c) \/ AddWrite(c)
  PROVE  CommandInv'
<1>0. TextInv /\ RegisteredInv /\ AddInv(c)
  BY DEF CommandInv, TextInv
<1>1. CASE AddBegin(c)
  <2>1. PICK name \in Names, ts \in TriggerLists, as \in ActionLists, edited \in UserTexts \union {None} :
          LET fragment == IF edited = None THEN GenerateGroupStub(name, ts, as) ELSE edited IN
          /\ Parse(fragment) # Invalid
          /\ op' = [op EXCEPT ![c] = [NoCommand EXCEPT !.pc = "merge", !.fragment = fragment]]
    BY <1>1 DEF AddBegin
  <2> DEFINE fragment == IF edited = None THEN GenerateGroupStub(name, ts, as) ELSE edited
             new == [NoCommand EXCEPT !.pc = "merge", !.fragment = fragment]
  <2>2. op' = [op EXCEPT ![c] = new] /\ Parse(fragment) # Invalid
    BY <2>1
  <2>3. fragment \in Seq(TextLine)
    <3>1. edited # None => edited \in Seq(Lines)
      BY <2>1, TextsAreTexts
    <3>2. name \in Strings /\ ts \in Seq(Strings) /\ as \in Seq(Strings)
      <4>1. STRING \subseteq Strings
        BY DEF Strings
      <4>2. name \in STRING /\ ts \in Seq(STRING) /\ as \in Seq(STRING)
        BY <2>1, TextsAreTexts
      <4> QED
        BY <4>1, <4>2, Wider
    <3> QED
      BY <3>1, <3>2, StubIsText, TextsAreLines
  <2> HIDE DEF fragment
  <2>4. /\ DOMAIN new = {"pc", "fragment", "read", "merged"}
        /\ new.pc = "merge" /\ new.fragment = fragment
    <3>1. DOMAIN NoCommand = {"pc", "fragment", "read", "merged"}
      BY DEF NoCommand
    <3> QED
      BY <3>1
  <2> HIDE DEF new
  <2>5. op' = [d \in Clients |-> op'[d]] /\ \A d \in Clients : AddInv(d)'
    BY <1>0, <2>2, <2>3, <2>4, ClientGoesOn
  <2>6. file' = file /\ registered' = registered
    BY <1>1 DEF AddBegin
  <2> QED
    BY <1>0, <2>5, <2>6 DEF CommandInv, TextInv, RegisteredInv
<1>2. CASE AddMerge(c)
  <2> DEFINE merged == IF file = NoFile THEN op[c].fragment ELSE Merge(file, op[c].fragment)
             new == [op[c] EXCEPT !.pc = "write", !.read = file, !.merged = merged]
  <2>1. /\ op[c].pc = "merge" /\ file' = file /\ registered' = registered
        /\ \/ Finish(c)
           \/ /\ merged # Invalid /\ Parse(merged) # Invalid
              /\ op' = [op EXCEPT ![c].pc = "write", ![c].read = file, ![c].merged = merged]
    BY <1>2 DEF AddMerge
  <2>2. op[c].fragment \in Seq(TextLine) /\ Parse(op[c].fragment) # Invalid
    BY <1>0, <2>1 DEF AddInv
  <2>3. merged # Invalid => merged \in Seq(TextLine)
    BY <1>0, <2>2, MergeIsText DEF TextInv
  <2> HIDE DEF merged
  <2>4. CASE Finish(c)
    <3>1. op' = [d \in Clients |-> op'[d]] /\ \A d \in Clients : AddInv(d)'
      BY <1>0, <2>4, IdleGoesOn
    <3> QED
      BY <1>0, <2>1, <3>1 DEF CommandInv, TextInv, RegisteredInv
  <2>5. CASE /\ merged # Invalid /\ Parse(merged) # Invalid
             /\ op' = [op EXCEPT ![c].pc = "write", ![c].read = file, ![c].merged = merged]
    <3>1. op' = [op EXCEPT ![c] = new]
      BY <1>0, <2>5 DEF TextInv
    <3>2. /\ DOMAIN new = {"pc", "fragment", "read", "merged"}
          /\ new.pc = "write" /\ new.fragment = op[c].fragment /\ new.read = file /\ new.merged = merged
      BY <1>0, OpChanged DEF AddInv
    <3>3. merged = IF file = NoFile THEN op[c].fragment ELSE Merge(file, op[c].fragment)
      BY DEF merged
    <3> HIDE DEF new
    <3>4. op' = [d \in Clients |-> op'[d]] /\ \A d \in Clients : AddInv(d)'
      <4>1. new.pc \in {"merge", "write"} =>
              new.fragment \in Seq(TextLine) /\ Parse(new.fragment) # Invalid
        BY <2>2, <3>2
      <4>2. new.pc = "write" =>
              /\ new.merged \in Seq(TextLine) /\ Parse(new.merged) # Invalid /\ new.merged # Invalid
              /\ new.merged = IF new.read = NoFile THEN new.fragment ELSE Merge(new.read, new.fragment)
        BY <2>3, <2>5, <3>2, <3>3
      <4> QED
        BY <1>0, <3>1, <3>2, <4>1, <4>2, ClientGoesOn
    <3> QED
      BY <1>0, <2>1, <3>4 DEF CommandInv, TextInv, RegisteredInv
  <2> QED
    BY <2>1, <2>4, <2>5
<1>3. CASE AddWrite(c)
  <2>1. /\ op[c].pc = "write" /\ file' = op[c].merged /\ registered' = registered
        /\ op' = [op EXCEPT ![c].pc = "autoRegister"]
    BY <1>3 DEF AddWrite
  <2>2. file' \in Seq(TextLine)
    BY <1>0, <2>1 DEF AddInv
  <2>3. op' = [op EXCEPT ![c] = [op[c] EXCEPT !.pc = "autoRegister", !.read = op[c].read]]
    <3>1. [op[c] EXCEPT !.pc = "autoRegister", !.read = op[c].read] = [op[c] EXCEPT !.pc = "autoRegister"]
      BY <1>0 DEF AddInv
    <3> QED
      BY <2>1, <3>1
  <2>4. op' = [d \in Clients |-> op'[d]] /\ \A d \in Clients : AddInv(d)'
    BY <1>0, <2>3, OtherStep
  <2> QED
    BY <1>0, <2>1, <2>2, <2>4 DEF CommandInv, TextInv, RegisteredInv
<1> QED
  BY <1>1, <1>2, <1>3

LEMMA RegisterKeeps ==
  ASSUME CommandInv, NEW c \in Clients, RegisterRecurfile(c)
  PROVE  CommandInv'
<1>0. TextInv /\ RegisteredInv
  BY DEF CommandInv
<1>1. Finish(c) /\ file' = file
  BY DEF RegisterRecurfile
<1>2. op' = [d \in Clients |-> op'[d]] /\ \A d \in Clients : AddInv(d)'
  BY <1>0, <1>1, IdleGoesOn
<1>3. RegisteredInv'
  <2>1. CASE Loaded = Invalid
    <3>1. registered' = registered
      BY <2>1 DEF RegisterRecurfile
    <3> QED
      BY <1>0, <3>1 DEF RegisteredInv
  <2>2. CASE Loaded # Invalid
    <3>1. file # NoFile /\ Loaded = Parse(file)
      BY <2>2 DEF Loaded
    <3>2. file \in Seq(TextLine) /\ Parse(file) # Invalid
      BY <1>0, <2>2, <3>1 DEF TextInv
    <3>3. registered'.source = Parse(file) /\ registered'.groups = Resolve(Parse(file))
      BY <2>2, <3>1 DEF RegisterRecurfile
    <3> QED
      BY <3>2, <3>3 DEF RegisteredInv
  <2> QED
    BY <2>1, <2>2
<1> QED
  BY <1>0, <1>1, <1>2, <1>3 DEF CommandInv, TextInv

LEMMA OthersKeep ==
  ASSUME CommandInv,
         \/ UserEdits \/ BuildSettings
         \/ \E c \in Clients : RegisterBegin(c) \/ NotRegistered(c) \/ VerifyRecurfile(c)
  PROVE  CommandInv'
<1>0. TextInv /\ RegisteredInv
  BY DEF CommandInv
<1>1. CASE UserEdits
  <2>1. file' \in UserTexts \union {NoFile} /\ UNCHANGED <<op, registered>>
    BY <1>1 DEF UserEdits
  <2>2. file' = NoFile \/ file' \in Seq(TextLine)
    BY <2>1, TextsAreLines, TextsAreTexts
  <2> QED
    BY <1>0, <2>1, <2>2 DEF CommandInv, TextInv, AddInv, RegisteredInv
<1>2. CASE BuildSettings
  <2>1. UNCHANGED <<file, op, registered>>
    BY <1>2 DEF BuildSettings
  <2> QED
    BY <1>0, <2>1 DEF CommandInv, TextInv, AddInv, RegisteredInv
<1>3. ASSUME NEW c \in Clients, RegisterBegin(c) PROVE CommandInv'
  <2>1. PICK pc \in {"register", "verify"} : op' = [op EXCEPT ![c].pc = pc, ![c].read = file]
    BY <1>3 DEF RegisterBegin
  <2>2. op' = [op EXCEPT ![c] = [op[c] EXCEPT !.pc = pc, !.read = file]]
    BY <1>0, <2>1 DEF TextInv
  <2>3. op' = [d \in Clients |-> op'[d]] /\ \A d \in Clients : AddInv(d)'
    BY <1>0, <2>2, OtherStep
  <2>4. UNCHANGED <<file, registered>>
    BY <1>3 DEF RegisterBegin
  <2> QED
    BY <1>0, <2>3, <2>4 DEF CommandInv, TextInv, RegisteredInv
<1>4. ASSUME NEW c \in Clients, NotRegistered(c) \/ VerifyRecurfile(c) PROVE CommandInv'
  <2>1. Finish(c) /\ UNCHANGED <<file, registered>>
    BY <1>4 DEF NotRegistered, VerifyRecurfile
  <2>2. op' = [d \in Clients |-> op'[d]] /\ \A d \in Clients : AddInv(d)'
    BY <1>0, <2>1, IdleGoesOn
  <2> QED
    BY <1>0, <2>1, <2>2 DEF CommandInv, TextInv, RegisteredInv
<1> QED
  BY <1>1, <1>2, <1>3, <1>4

LEMMA CommandInvStep ==
  ASSUME CommandInv, [CommandsNext]_commandVars
  PROVE  CommandInv'
<1>1. CASE UNCHANGED commandVars
  BY <1>1 DEF commandVars, CommandInv, TextInv, AddInv, RegisteredInv
<1>2. CASE CommandsNext
  BY <1>2, AddKeeps, RegisterKeeps, OthersKeep DEF CommandsNext
<1> QED
  BY <1>1, <1>2

LEMMA CommandInvariant == CommandsSpec => []CommandInv
<1>1. CommandInv /\ [CommandsNext]_commandVars => CommandInv'
  BY CommandInvStep
<1> QED
  BY <1>1, CommandInvInit, PTL DEF CommandsSpec

\* resolve.go:7-11: what the daemon has registered is what the file says, every name under
\* what the aliases make of it, whoever edited, merged or registered it in what order.
THEOREM RegisteredAlwaysAsWritten == CommandsSpec => []RegisteredAsWritten
BY CommandInvariant, RegisteredFollows, PTL DEF CommandInv
-----------------------------------------------------------------------------
(* The chain of settings. *)

\* What the iteration of OverlayMaps goes through.
Overlaid(s, layers, m) ==
  s = [n \in 0..m |-> IF n = 0 THEN << >> ELSE OverlayTwo(s[n-1], layers[n])]

LEMMA OverlayIterates ==
  ASSUME NEW layers, NEW m \in Nat, Len(layers) = m, NEW s0, Overlaid(s0, layers, m)
  PROVE  \E s : Overlaid(s, layers, m) /\ OverlayMaps(layers) = s[m]
<1> DEFINE s == CHOOSE s : Overlaid(s, layers, m)
<1>1. Overlaid(s, layers, m)
  OBVIOUS
<1>2. OverlayMaps(layers) = s[m]
  BY DEF OverlayMaps, Overlaid
<1> QED
  BY <1>1, <1>2

\* OverlayTwo: the upper layer's value, if it has one.
LEMMA OverlayTakesUpper ==
  ASSUME NEW lower, NEW upper, NEW both, both = OverlayTwo(lower, upper), NEW k
  PROVE  /\ k \in DOMAIN both <=> k \in DOMAIN lower \/ k \in DOMAIN upper
         /\ k \in DOMAIN upper => both[k] = upper[k]
         /\ k \in DOMAIN lower /\ k \notin DOMAIN upper => both[k] = lower[k]
BY DEF OverlayTwo

LEMMA OverlayOfTwo ==
  ASSUME NEW a, NEW b
  PROVE  OverlayMaps(<<a, b>>) = OverlayTwo(OverlayTwo(<< >>, a), b)
<1> DEFINE layers == <<a, b>>
           s1 == OverlayTwo(<< >>, a)
           s2 == OverlayTwo(s1, b)
           s0 == [n \in 0..2 |-> IF n = 0 THEN << >> ELSE IF n = 1 THEN s1 ELSE s2]
<1>0. Len(layers) = 2 /\ layers[1] = a /\ layers[2] = b
  OBVIOUS
<1> HIDE DEF layers
<1>1. Overlaid(s0, layers, 2)
  <2>1. ASSUME NEW n \in 0..2
        PROVE  s0[n] = IF n = 0 THEN << >> ELSE OverlayTwo(s0[n-1], layers[n])
    <3>1. n = 0 \/ n = 1 \/ n = 2
      OBVIOUS
    <3> QED
      BY <1>0, <3>1
  <2> HIDE DEF s1, s2
  <2> QED
    BY <2>1 DEF Overlaid
<1> HIDE DEF s0
<1>2. PICK s : Overlaid(s, layers, 2) /\ OverlayMaps(layers) = s[2]
  BY <1>0, <1>1, OverlayIterates
<1>3. \A n \in 0..2 : s[n] = IF n = 0 THEN << >> ELSE OverlayTwo(s[n-1], layers[n])
  BY <1>2 DEF Overlaid
<1>4. s[0] = << >> /\ s[1] = OverlayTwo(s[0], a) /\ s[2] = OverlayTwo(s[1], b)
  BY <1>0, <1>3
<1> QED
  BY <1>2, <1>4 DEF layers

LEMMA OverlayOfFive ==
  ASSUME NEW a, NEW b, NEW c, NEW d, NEW e
  PROVE  OverlayMaps(<<a, b, c, d, e>>) =
           OverlayTwo(OverlayTwo(OverlayTwo(OverlayTwo(OverlayTwo(<< >>, a), b), c), d), e)
<1> DEFINE layers == <<a, b, c, d, e>>
           s1 == OverlayTwo(<< >>, a)
           s2 == OverlayTwo(s1, b)
           s3 == OverlayTwo(s2, c)
           s4 == OverlayTwo(s3, d)
           s5 == OverlayTwo(s4, e)
           s0 == [n \in 0..5 |-> IF n = 0 THEN << >> ELSE IF n = 1 THEN s1 ELSE IF n = 2 THEN s2
                                 ELSE IF n = 3 THEN s3 ELSE IF n = 4 THEN s4 ELSE s5]
<1>0. /\ Len(layers) = 5
      /\ layers[1] = a /\ layers[2] = b /\ layers[3] = c /\ layers[4] = d /\ layers[5] = e
  OBVIOUS
<1> HIDE DEF layers
<1>1. Overlaid(s0, layers, 5)
  <2>1. ASSUME NEW n \in 0..5
        PROVE  s0[n] = IF n = 0 THEN << >> ELSE OverlayTwo(s0[n-1], layers[n])
    <3>1. n = 0 \/ n = 1 \/ n = 2 \/ n = 3 \/ n = 4 \/ n = 5
      OBVIOUS
    <3> QED
      BY <1>0, <3>1
  <2> HIDE DEF s1, s2, s3, s4, s5
  <2> QED
    BY <2>1 DEF Overlaid
<1> HIDE DEF s0
<1>2. PICK s : Overlaid(s, layers, 5) /\ OverlayMaps(layers) = s[5]
  BY <1>0, <1>1, OverlayIterates
<1>3. \A n \in 0..5 : s[n] = IF n = 0 THEN << >> ELSE OverlayTwo(s[n-1], layers[n])
  BY <1>2 DEF Overlaid
<1>4. /\ s[0] = << >> /\ s[1] = OverlayTwo(s[0], a) /\ s[2] = OverlayTwo(s[1], b)
      /\ s[3] = OverlayTwo(s[2], c) /\ s[4] = OverlayTwo(s[3], d) /\ s[5] = OverlayTwo(s[4], e)
  BY <1>0, <1>3
<1> QED
  BY <1>2, <1>4 DEF layers

\* However the keys are copied, each is the value of one of the options that become it.
LEMMA OptionsExpanded ==
  ASSUME NEW options, NEW t \in ExpandOptionAliases(options, OptionAliases)
  PROVE  /\ DOMAIN t = {ExpandAlias(o, OptionAliases) : o \in DOMAIN options}
         /\ \A k \in DOMAIN t : \E o \in DOMAIN options :
              ExpandAlias(o, OptionAliases) = k /\ t[k] = options[o]
<1> DEFINE keys == {ExpandAlias(o, OptionAliases) : o \in DOMAIN options}
<1>1. PICK c \in [keys -> DOMAIN options] :
        /\ \A k \in keys : c[k] \in {o \in DOMAIN options : ExpandAlias(o, OptionAliases) = k}
        /\ t = [k \in keys |-> options[c[k]]]
  BY DEF ExpandOptionAliases
<1> HIDE DEF keys
<1>2. DOMAIN t = keys
  BY <1>1
<1>3. ASSUME NEW k \in keys
      PROVE  \E o \in DOMAIN options : ExpandAlias(o, OptionAliases) = k /\ t[k] = options[o]
  BY <1>1, <1>3
<1> QED
  BY <1>2, <1>3 DEF keys

\* The value is that of the uppermost layer that has the key.
LEMMA UppermostWins ==
  ASSUME NEW daemon, NEW manifest, NEW override, NEW g, NEW t, NEW k,
         NEW layers, layers = <<daemon, manifest, override, g, t>>,
         NEW effective,
         effective = OverlayMaps(<<daemon, manifest, override, g, OverlayMaps(<<g, t>>)>>)
  PROVE  /\ (\A i \in 1..5 : k \notin DOMAIN layers[i]) => k \notin DOMAIN effective
         /\ \A top \in 1..5 :
              k \in DOMAIN layers[top] /\ (\A i \in 1..5 : i > top => k \notin DOMAIN layers[i]) =>
                k \in DOMAIN effective /\ effective[k] = layers[top][k]
<1>1. /\ layers[1] = daemon /\ layers[2] = manifest /\ layers[3] = override
      /\ layers[4] = g /\ layers[5] = t
  OBVIOUS
<1> PICK none : none = << >>
  OBVIOUS
<1>2. k \notin DOMAIN none
  OBVIOUS
<1> PICK lowest : lowest = OverlayTwo(none, g)
  OBVIOUS
<1> PICK both : both = OverlayTwo(lowest, t)
  OBVIOUS
<1> PICK s1 : s1 = OverlayTwo(none, daemon)
  OBVIOUS
<1> PICK s2 : s2 = OverlayTwo(s1, manifest)
  OBVIOUS
<1> PICK s3 : s3 = OverlayTwo(s2, override)
  OBVIOUS
<1> PICK s4 : s4 = OverlayTwo(s3, g)
  OBVIOUS
<1>3. both = OverlayMaps(<<g, t>>)
  BY OverlayOfTwo
<1>4. effective = OverlayTwo(s4, both)
  BY <1>3, OverlayOfFive
<1>5. /\ k \in DOMAIN lowest <=> k \in DOMAIN g
      /\ k \in DOMAIN g => lowest[k] = g[k]
  BY <1>2, OverlayTakesUpper
<1>6. /\ k \in DOMAIN both <=> k \in DOMAIN lowest \/ k \in DOMAIN t
      /\ k \in DOMAIN t => both[k] = t[k]
      /\ k \in DOMAIN lowest /\ k \notin DOMAIN t => both[k] = lowest[k]
  BY OverlayTakesUpper
<1>7. /\ k \in DOMAIN s1 <=> k \in DOMAIN daemon
      /\ k \in DOMAIN daemon => s1[k] = daemon[k]
  BY <1>2, OverlayTakesUpper
<1>8. /\ k \in DOMAIN s2 <=> k \in DOMAIN s1 \/ k \in DOMAIN manifest
      /\ k \in DOMAIN manifest => s2[k] = manifest[k]
      /\ k \in DOMAIN s1 /\ k \notin DOMAIN manifest => s2[k] = s1[k]
  BY OverlayTakesUpper
<1>9. /\ k \in DOMAIN s3 <=> k \in DOMAIN s2 \/ k \in DOMAIN override
      /\ k \in DOMAIN override => s3[k] = override[k]
      /\ k \in DOMAIN s2 /\ k \notin DOMAIN override => s3[k] = s2[k]
  BY OverlayTakesUpper
<1>10. /\ k \in DOMAIN s4 <=> k \in DOMAIN s3 \/ k \in DOMAIN g
       /\ k \in DOMAIN s3 /\ k \notin DOMAIN g => s4[k] = s3[k]
  BY OverlayTakesUpper
<1>11. /\ k \in DOMAIN effective <=> k \in DOMAIN s4 \/ k \in DOMAIN both
       /\ k \in DOMAIN both => effective[k] = both[k]
       /\ k \in DOMAIN s4 /\ k \notin DOMAIN both => effective[k] = s4[k]
  BY <1>4, OverlayTakesUpper
<1>12. (\A i \in 1..5 : k \notin DOMAIN layers[i]) => k \notin DOMAIN effective
  BY <1>1, <1>5, <1>6, <1>7, <1>8, <1>9, <1>10, <1>11
<1>13. ASSUME NEW top \in 1..5, k \in DOMAIN layers[top],
              \A i \in 1..5 : i > top => k \notin DOMAIN layers[i]
       PROVE  k \in DOMAIN effective /\ effective[k] = layers[top][k]
  <2>1. top = 1 \/ top = 2 \/ top = 3 \/ top = 4 \/ top = 5
    OBVIOUS
  <2> QED
    BY <1>1, <1>5, <1>6, <1>7, <1>8, <1>9, <1>10, <1>11, <1>13, <2>1
<1> QED
  BY <1>12, <1>13

LEMMA ChainFollowed ==
  ASSUME BuildSettings
  PROVE  SettingsFollowChain'
<1>1. PICK daemon, manifest, override \in LayerMaps, group, trigger \in OptionMaps :
        \E g \in ExpandOptionAliases(group, OptionAliases), t \in ExpandOptionAliases(trigger, OptionAliases) :
          settings' = [layers |-> <<daemon, manifest, override, group, trigger>>,
                       result |-> BuildTriggerSettings(daemon, manifest, override, g,
                                                         OverlayMaps(<<g, t>>), SettingKey)]
  BY DEF BuildSettings
<1>2. PICK g \in ExpandOptionAliases(group, OptionAliases), t \in ExpandOptionAliases(trigger, OptionAliases) :
        settings' = [layers |-> <<daemon, manifest, override, group, trigger>>,
                     result |-> BuildTriggerSettings(daemon, manifest, override, g,
                                                       OverlayMaps(<<g, t>>), SettingKey)]
  BY <1>1
<1> DEFINE effective == OverlayMaps(<<daemon, manifest, override, g, OverlayMaps(<<g, t>>)>>)
           expanded == <<daemon, manifest, override, g, t>>
           layers == <<daemon, manifest, override, group, trigger>>
           having == {i \in 1..5 : SettingKey \in DOMAIN expanded[i]}
           Named(i, k) == IF i > 3 THEN ExpandAlias(k, OptionAliases) ELSE k
           GivenAt(i) == {k \in DOMAIN layers[i] : Named(i, k) = SettingKey}
           given == {i \in 1..5 : GivenAt(i) # {}}
           Read(o) == IF o.kind = NotANumber THEN 0 ELSE o.value
<1>3. /\ layers[1] = daemon /\ layers[2] = manifest /\ layers[3] = override
      /\ layers[4] = group /\ layers[5] = trigger
      /\ expanded[1] = daemon /\ expanded[2] = manifest /\ expanded[3] = override
      /\ expanded[4] = g /\ expanded[5] = t
  OBVIOUS
<1>4. /\ settings'.layers = layers
      /\ settings'.result = MapStoreInt(effective, SettingKey)
  BY <1>2 DEF BuildTriggerSettings
<1>5. MapStoreInt(effective, SettingKey) =
        IF SettingKey \notin DOMAIN effective THEN 0 ELSE Read(effective[SettingKey])
  BY DEF MapStoreInt
<1>6. /\ having = {} => SettingKey \notin DOMAIN effective
      /\ \A top \in having : (\A i \in having : i <= top) =>
           SettingKey \in DOMAIN effective /\ effective[SettingKey] = expanded[top][SettingKey]
  <2>1. ASSUME NEW x, x = expanded, NEW y, y = effective
        PROVE  /\ (\A i \in 1..5 : SettingKey \notin DOMAIN x[i]) => SettingKey \notin DOMAIN y
               /\ \A top \in 1..5 :
                    SettingKey \in DOMAIN x[top] /\ (\A i \in 1..5 : i > top => SettingKey \notin DOMAIN x[i]) =>
                      SettingKey \in DOMAIN y /\ y[SettingKey] = x[top][SettingKey]
    BY <2>1, UppermostWins
  <2> HIDE DEF expanded, effective
  <2> QED
    BY <2>1
<1> HIDE DEF effective, expanded, layers
<1>7. ASSUME NEW i \in 1..5
      PROVE  /\ SettingKey \in DOMAIN expanded[i] <=> GivenAt(i) # {}
             /\ SettingKey \in DOMAIN expanded[i] =>
                  \E k \in GivenAt(i) : expanded[i][SettingKey] = layers[i][k]
  <2>1. CASE i \in 1..3
    <3>1. expanded[i] = layers[i]
      BY <1>3, <2>1
    <3>2. GivenAt(i) = {k \in DOMAIN layers[i] : k = SettingKey}
      BY <2>1
    <3> QED
      BY <3>1, <3>2
  <2>2. CASE i \in 4..5
    <3>1. PICK options, x : /\ options = layers[i] /\ x = expanded[i]
                            /\ x \in ExpandOptionAliases(options, OptionAliases)
      BY <1>3, <2>2
    <3>2. GivenAt(i) = {o \in DOMAIN options : ExpandAlias(o, OptionAliases) = SettingKey}
      BY <2>2, <3>1
    <3>3. DOMAIN x = {ExpandAlias(o, OptionAliases) : o \in DOMAIN options}
      BY <3>1, OptionsExpanded
    <3>4. \A k \in DOMAIN x : \E o \in DOMAIN options :
            ExpandAlias(o, OptionAliases) = k /\ x[k] = options[o]
      BY <3>1, OptionsExpanded, ZenonT(30)
    <3>5. SettingKey \in DOMAIN x <=> GivenAt(i) # {}
      BY <3>2, <3>3
    <3>6. SettingKey \in DOMAIN x => \E k \in GivenAt(i) : x[SettingKey] = options[k]
      BY <3>2, <3>4
    <3> HIDE DEF GivenAt
    <3> QED
      BY <3>1, <3>5, <3>6
  <2> QED
    BY <2>1, <2>2
<1>8. having = given
  BY <1>7
<1>9. CASE given = {}
  BY <1>4, <1>5, <1>6, <1>8, <1>9 DEF SettingsFollowChain
<1>10. CASE given # {}
  <2>1. Max(given) \in given /\ \A i \in given : i <= Max(given)
    <3>1. given \in SUBSET (1..5) /\ 5 \in Nat
      OBVIOUS
    <3> HIDE DEF given
    <3> QED
      BY <1>10, <3>1, MaxOfLines
  <2>2. SettingKey \in DOMAIN effective /\ effective[SettingKey] = expanded[Max(given)][SettingKey]
    BY <1>6, <1>8, <2>1
  <2>3. PICK k \in GivenAt(Max(given)) : expanded[Max(given)][SettingKey] = layers[Max(given)][k]
    BY <1>7, <1>8, <2>1
  <2>4. settings'.result = Read(layers[Max(given)][k])
    BY <1>4, <1>5, <2>2, <2>3
  <2> QED
    BY <1>4, <1>10, <2>3, <2>4 DEF SettingsFollowChain
<1> QED
  BY <1>9, <1>10

\* builder.go:9: a setting is that of the most specific layer that has the key, in whatever
\* order the aliased keys of an option map are copied.
THEOREM SettingsAlwaysFollow == CommandsSpec => []SettingsFollowChain
<1>1. CommandsInit => SettingsFollowChain
  BY DEF CommandsInit, SettingsFollowChain
<1>2. SettingsFollowChain /\ [CommandsNext]_commandVars => SettingsFollowChain'
  <2> SUFFICES ASSUME SettingsFollowChain, [CommandsNext]_commandVars PROVE SettingsFollowChain'
    OBVIOUS
  <2>1. CASE UNCHANGED settings
    BY <2>1 DEF SettingsFollowChain
  <2>2. CASE BuildSettings
    BY <2>2, ChainFollowed
  <2> QED
    BY <2>1, <2>2 DEF CommandsNext, commandVars, UserEdits, AddBegin, AddMerge, AddWrite, RegisterBegin,
        RegisterRecurfile, NotRegistered, VerifyRecurfile
<1> QED
  BY <1>1, <1>2, PTL DEF CommandsSpec

-----------------------------------------------------------------------------
(* Texts that hold the lines of another one. *)

\* The lines of a text where they stand in a longer one.
Shifted(S, d) == {d + i : i \in S}

LEMMA ShiftedRanks ==
  ASSUME NEW n \in Nat, NEW S \in SUBSET (1..n), NEW d \in Nat
  PROVE  /\ Shifted(S, d) \in SUBSET (1..d + n)
         /\ Cardinality(Shifted(S, d)) = Cardinality(S)
         /\ \A i \in S : Rank(d + i, Shifted(S, d)) = Rank(i, S)
<1>1. ASSUME NEW T \in SUBSET (1..n) PROVE Cardinality(Shifted(T, d)) = Cardinality(T)
  <2> DEFINE f == [i \in T |-> d + i]
  <2>1. IsFiniteSet(T)
    BY Ranks
  <2>2. f \in Bijection(T, Shifted(T, d))
    <3>1. f \in [T -> Shifted(T, d)] /\ \A j \in Shifted(T, d) : \E i \in T : f[i] = j
      BY DEF Shifted
    <3>2. \A i, j \in T : f[i] = f[j] => i = j
      OBVIOUS
    <3> HIDE DEF f
    <3> QED
      BY <3>1, <3>2 DEF Bijection, Injection, Surjection, IsInjective
  <2>3. ExistsBijection(T, Shifted(T, d))
    BY <2>2 DEF ExistsBijection
  <2> QED
    BY <2>1, <2>3, FS_Bijection
<1>2. ASSUME NEW i \in S PROVE Rank(d + i, Shifted(S, d)) = Rank(i, S)
  <2> DEFINE upto == {j \in S : j <= i}
  <2>1. {j \in Shifted(S, d) : j <= d + i} = Shifted(upto, d)
    BY DEF Shifted
  <2>2. upto \in SUBSET (1..n)
    OBVIOUS
  <2> HIDE DEF upto
  <2>3. Cardinality(Shifted(upto, d)) = Cardinality(upto)
    BY <1>1, <2>2
  <2> QED
    BY <2>1, <2>3 DEF Rank, upto
<1>3. Shifted(S, d) \in SUBSET (1..d + n)
  BY DEF Shifted
<1> QED
  BY <1>1, <1>2, <1>3

LEMMA ShiftedInOrder ==
  ASSUME NEW n \in Nat, NEW S \in SUBSET (1..n), NEW d \in Nat
  PROVE  /\ DOMAIN InOrder(Shifted(S, d)) = DOMAIN InOrder(S)
         /\ \A k \in DOMAIN InOrder(S) : InOrder(Shifted(S, d))[k] = d + InOrder(S)[k]
<1> PICK T : T = Shifted(S, d)
  OBVIOUS
<1> PICK m \in Nat : m = Cardinality(S)
  BY Ranks
<1> PICK b \in Nat : b = d + n
  OBVIOUS
<1>1. /\ T \in SUBSET (1..b) /\ Cardinality(T) = m
      /\ \A i \in S : Rank(d + i, T) = Rank(i, S)
  <2>1. /\ Shifted(S, d) \in SUBSET (1..d + n) /\ Cardinality(Shifted(S, d)) = Cardinality(S)
        /\ \A i \in S : Rank(d + i, Shifted(S, d)) = Rank(i, S)
    BY ShiftedRanks
  <2> QED
    BY <2>1
<1>2. InOrder(S) \in Seq(S) /\ Len(InOrder(S)) = m
  BY InOrderLists
<1>3. InOrder(T) \in Seq(T) /\ Len(InOrder(T)) = m
  BY <1>1, InOrderLists
<1>4. ASSUME NEW k \in 1..m PROVE InOrder(T)[k] = d + InOrder(S)[k]
  <2>1. InOrder(S)[k] \in S /\ Rank(InOrder(S)[k], S) = k
    BY InOrderLists
  <2>2. InOrder(T)[k] \in T /\ Rank(InOrder(T)[k], T) = k
    BY <1>1, InOrderLists
  <2>3. d + InOrder(S)[k] \in T /\ Rank(d + InOrder(S)[k], T) = k
    BY <1>1, <2>1 DEF Shifted
  <2>4. \A i, j \in T : Rank(i, T) = Rank(j, T) => i = j
    BY <1>1, Ranks
  <2> QED
    BY <2>2, <2>3, <2>4
<1> QED
  BY <1>2, <1>3, <1>4

LEMMA SequencesEqual ==
  ASSUME NEW S, NEW a \in Seq(S), NEW b \in Seq(S), Len(a) = Len(b), \A k \in 1..Len(a) : a[k] = b[k]
  PROVE  a = b
<1>1. a \in [1..Len(a) -> S] /\ b \in [1..Len(a) -> S]
  OBVIOUS
<1> QED
  BY <1>1

\* Lines before others come first.
LEMMA InOrderJoined ==
  ASSUME NEW n \in Nat, NEW S \in SUBSET (1..n), NEW T \in SUBSET (1..n),
         \A i \in S, j \in T : i < j
  PROVE  InOrder(S \union T) = InOrder(S) \o InOrder(T)
<1> PICK U : U = S \union T
  OBVIOUS
<1> PICK s \in Nat, t \in Nat : s = Cardinality(S) /\ t = Cardinality(T)
  BY Ranks
<1>1. IsFiniteSet(S) /\ IsFiniteSet(T) /\ U \in SUBSET (1..n)
  BY Ranks
<1>2. ASSUME NEW A \in SUBSET T
      PROVE  IsFiniteSet(A) /\ Cardinality(A) \in Nat /\ Cardinality(S \union A) = s + Cardinality(A)
  <2>1. IsFiniteSet(A) /\ Cardinality(A) \in Nat
    BY <1>1, FS_Subset, FS_CardinalityType
  <2>2. S \intersect A = {}
    OBVIOUS
  <2>3. Cardinality(S \union A) = s + Cardinality(A) - Cardinality(S \intersect A)
    BY <1>1, <2>1, FS_Union
  <2>4. Cardinality(S \intersect A) = 0
    BY <2>2, FS_EmptySet
  <2> QED
    BY <2>1, <2>3, <2>4
<1>3. Cardinality(U) = s + t
  BY <1>2
<1>4. ASSUME NEW i \in S PROVE Rank(i, U) = Rank(i, S)
  <2>1. {j \in U : j <= i} = {j \in S : j <= i}
    <3>1. \A j \in T : ~(j <= i)
      OBVIOUS
    <3> QED
      BY <3>1
  <2> QED
    BY <2>1 DEF Rank
<1>5. ASSUME NEW i \in T PROVE Rank(i, U) = s + Rank(i, T)
  <2>1. {j \in U : j <= i} = S \union {j \in T : j <= i}
    <3>1. \A j \in S : j <= i
      <4>1. S \subseteq Nat /\ T \subseteq Nat
        OBVIOUS
      <4>2. \A j \in S : j < i
        OBVIOUS
      <4> QED
        BY <4>1, <4>2
    <3> QED
      BY <3>1
  <2>2. {j \in T : j <= i} \in SUBSET T
    OBVIOUS
  <2> QED
    BY <1>2, <2>1, <2>2 DEF Rank
<1>6. /\ InOrder(S) \in Seq(S) /\ Len(InOrder(S)) = s
      /\ InOrder(T) \in Seq(T) /\ Len(InOrder(T)) = t
      /\ InOrder(U) \in Seq(U) /\ Len(InOrder(U)) = s + t
  BY <1>1, <1>3, InOrderLists
<1> PICK both : both = InOrder(S) \o InOrder(T)
  OBVIOUS
<1> PICK x, y : x = InOrder(S) /\ y = InOrder(T)
  OBVIOUS
<1>7. /\ both \in Seq(U) /\ Len(both) = s + t
      /\ \A k \in 1..s + t : both[k] = IF k <= s THEN InOrder(S)[k] ELSE InOrder(T)[k - s]
  <2>1. x \in Seq(U) /\ y \in Seq(U) /\ Len(x) = s /\ Len(y) = t
    BY <1>6
  <2>2. both = x \o y
    OBVIOUS
  <2>3. x \o y \in Seq(U) /\ Len(x \o y) = s + t /\ \A k \in 1..s + t : (x \o y)[k] = IF k <= s THEN x[k] ELSE y[k - s]
    <3>1. /\ x \o y \in Seq(U) /\ Len(x \o y) = Len(x) + Len(y)
          /\ \A k \in 1..Len(x) + Len(y) : (x \o y)[k] = IF k <= Len(x) THEN x[k] ELSE y[k - Len(x)]
      BY <2>1, Joined
    <3> QED
      BY <2>1, <3>1
  <2> QED
    BY <2>2, <2>3
<1>8. ASSUME NEW k \in 1..s + t PROVE InOrder(U)[k] = both[k]
  <2>1. InOrder(U)[k] \in U /\ Rank(InOrder(U)[k], U) = k
    BY <1>1, <1>3, InOrderLists
  <2>2. both[k] \in U /\ Rank(both[k], U) = k
    <3>1. CASE k <= s
      <4>0. k \in 1..s
        BY <1>1, <3>1
      <4>1. k \in 1..s /\ both[k] = InOrder(S)[k]
        BY <1>7, <3>1, <4>0
      <4>2. InOrder(S)[k] \in S /\ Rank(InOrder(S)[k], S) = k
        BY <4>1, InOrderLists
      <4> QED
        BY <1>4, <4>1, <4>2
    <3>2. CASE k > s
      <4>0. k - s \in 1..t /\ ~(k <= s)
        BY <3>2
      <4>1. both[k] = InOrder(T)[k - s]
        BY <1>7, <4>0
      <4>2. InOrder(T)[k - s] \in T /\ Rank(InOrder(T)[k - s], T) = k - s
        BY <4>0, InOrderLists
      <4>3. Rank(both[k], U) = s + Rank(both[k], T) /\ both[k] \in T
        BY <1>5, <4>1, <4>2
      <4>4. s + (k - s) = k
        BY <1>1
      <4>5. Rank(both[k], T) = k - s
        BY <4>1, <4>2
      <4>6. Rank(both[k], U) = k
        BY <4>3, <4>4, <4>5
      <4> QED
        BY <4>3, <4>6
    <3>3. k <= s \/ k > s
      OBVIOUS
    <3> HIDE DEF Rank
    <3> QED
      BY <3>1, <3>2, <3>3
  <2>3. \A i, j \in U : Rank(i, U) = Rank(j, U) => i = j
    BY <1>1, Ranks
  <2> QED
    BY <2>1, <2>2, <2>3
<1>9. InOrder(U) = both
  <2> PICK z : z = InOrder(U)
    OBVIOUS
  <2>1. z \in Seq(U) /\ Len(z) = Len(both) /\ \A k \in 1..Len(z) : z[k] = both[k]
    BY <1>6, <1>7, <1>8
  <2> QED
    BY <1>7, <2>1, SequencesEqual
<1> QED
  BY <1>9

\* The lines D of a, and with each the lines below it, stand d lines further on in m.
Copied(a, m, d, D) ==
  /\ D \in SUBSET (1..Len(a))
  /\ \A i \in D :
       /\ d + i \in 1..Len(m) /\ m[d + i] = a[i]
       /\ ChildrenOf(a, i) \subseteq D
       /\ ChildrenOf(m, d + i) = Shifted(ChildrenOf(a, i), d)

\* The number of a line in the longer text; 0 is none.
Moved(i, d) == IF i = 0 THEN 0 ELSE d + i

LEMMA CopiedFind ==
  ASSUME NEW a \in Seq(TextLine), NEW m \in Seq(TextLine), NEW d \in Nat, NEW D, Copied(a, m, d, D),
         NEW S \in SUBSET D, NEW key
  PROVE  Find(m, Shifted(S, d), key) = Moved(Find(a, S, key), d)
<1> PICK T : T = Shifted(S, d)
  OBVIOUS
<1>1. /\ S \in SUBSET (1..Len(a)) /\ T \in SUBSET (1..Len(m)) /\ Len(a) \in Nat /\ Len(m) \in Nat
      /\ \A i \in S : d + i \in T /\ m[d + i].key = a[i].key
      /\ \A j \in T : \E i \in S : j = d + i
  <2>1. D \in SUBSET (1..Len(a)) /\ \A i \in D : d + i \in 1..Len(m) /\ m[d + i] = a[i]
    BY DEF Copied
  <2>2. Len(a) \in Nat /\ Len(m) \in Nat
    OBVIOUS
  <2>3. T = {d + i : i \in S}
    BY DEF Shifted
  <2> QED
    BY <2>1, <2>2, <2>3
<1> PICK x, y : x = Find(a, S, key) /\ y = Find(m, T, key)
  OBVIOUS
<1>2. \/ x = 0 /\ \A i \in S : a[i].key # key
      \/ x \in S /\ a[x].key = key /\ \A i \in S : a[i].key = key => i <= x
  BY <1>1, FindIsLast, ZenonT(30)
<1>3. \/ y = 0 /\ \A i \in T : m[i].key # key
      \/ y \in T /\ m[y].key = key /\ \A i \in T : m[i].key = key => i <= y
  BY <1>1, FindIsLast, SMTT(30)
<1>4. CASE x = 0
  BY <1>1, <1>2, <1>3, <1>4 DEF Moved
<1>5. CASE x # 0
  <2>1. x \in S /\ a[x].key = key /\ d + x \in T /\ m[d + x].key = key
    BY <1>1, <1>2, <1>5
  <2>2. y \in T /\ m[y].key = key /\ d + x <= y
    BY <1>3, <2>1
  <2>3. PICK i \in S : y = d + i
    BY <1>1, <2>2
  <2>4. i <= x
    BY <1>1, <1>2, <1>5, <2>2, <2>3
  <2>5. y = d + x
    BY <1>1, <2>1, <2>2, <2>3, <2>4
  <2> QED
    BY <1>5, <2>5 DEF Moved
<1> QED
  BY <1>4, <1>5

\* What is read from lines and the ones below them is the same there.
LEMMA CopiedEntries ==
  ASSUME NEW a \in Seq(TextLine), NEW m, NEW d \in Nat, NEW D, Copied(a, m, d, D), NEW i \in D
  PROVE  /\ EntriesOf(a, i) \in SUBSET D
         /\ EntriesOf(m, d + i) = Shifted(EntriesOf(a, i), d)
<1>1. ChildrenOf(a, i) \subseteq D /\ ChildrenOf(m, d + i) = Shifted(ChildrenOf(a, i), d)
  BY DEF Copied
<1>2. Shifted({i} \union ChildrenOf(a, i), d) = {d + i} \union Shifted(ChildrenOf(a, i), d)
  BY DEF Shifted
<1> QED
  BY <1>1, <1>2 DEF EntriesOf

\* What Find gives is one of the lines, or 0.
LEMMA FoundInD ==
  ASSUME NEW a \in Seq(TextLine), NEW D \in SUBSET (1..Len(a)), NEW S \in SUBSET D, NEW key
  PROVE  /\ Find(a, S, key) \in Nat
         /\ Find(a, S, key) # 0 => Find(a, S, key) \in S /\ Find(a, S, key) \in D
         /\ Find(a, S, key) = 0 <=> key \notin {a[i].key : i \in S}
<1>1. S \in SUBSET (1..Len(a)) /\ Len(a) \in Nat
  OBVIOUS
<1> PICK x : x = Find(a, S, key)
  OBVIOUS
<1>2. \/ x = 0 /\ \A i \in S : a[i].key # key
      \/ x \in S /\ a[x].key = key /\ \A i \in S : a[i].key = key => i <= x
  BY <1>1, FindIsLast
<1>3. CASE x = 0
  <2>1. \A i \in S : a[i].key # key
    <3>1. 0 \notin S
      BY <1>1
    <3> QED
      BY <1>2, <1>3, <3>1
  <2>2. key \notin {a[i].key : i \in S}
    BY <2>1
  <2> QED
    BY <1>3, <2>2
<1>4. CASE x # 0
  <2>1. x \in S /\ a[x].key = key
    BY <1>2, <1>4
  <2>2. x \in D /\ x \in Nat
    BY <1>1, <2>1
  <2> QED
    BY <1>4, <2>1, <2>2
<1> QED
  BY <1>3, <1>4

LEMMA CopiedAction ==
  ASSUME NEW a \in Seq(TextLine), NEW m \in Seq(TextLine), NEW d \in Nat, NEW D, Copied(a, m, d, D),
         NEW i \in D
  PROVE  ActionAt(m, d + i) = ActionAt(a, i)
<1> PICK E, t : E = EntriesOf(a, i) /\ t = Find(a, E, "type")
  OBVIOUS
<1>1. E \in SUBSET D /\ EntriesOf(m, d + i) = Shifted(E, d)
  BY CopiedEntries
<1>2. Find(m, Shifted(E, d), "type") = Moved(t, d)
  BY <1>1, CopiedFind
<1>3. D \in SUBSET (1..Len(a)) /\ \A j \in D : m[d + j] = a[j]
  BY DEF Copied
<1>4. t \in Nat /\ (t # 0 => t \in D)
  BY <1>1, <1>3, FoundInD
<1>5. ActionAt(a, i) = IF t # 0 THEN a[t].val ELSE a[i].key
  BY DEF ActionAt
<1>6. ActionAt(m, d + i) = IF Moved(t, d) # 0 THEN m[Moved(t, d)].val ELSE m[d + i].key
  BY <1>1, <1>2 DEF ActionAt
<1> QED
  BY <1>3, <1>4, <1>5, <1>6 DEF Moved

LEMMA CopiedActions ==
  ASSUME NEW a \in Seq(TextLine), NEW m \in Seq(TextLine), NEW d \in Nat, NEW D, Copied(a, m, d, D),
         NEW i \in D \union {0}
  PROVE  ParseActions(m, Moved(i, d)) = ParseActions(a, i)
<1>1. CASE i = 0
  BY <1>1 DEF ParseActions, Moved
<1>2. CASE i # 0
  <2> PICK S, x, y : S = ChildrenOf(a, i) /\ x = InOrder(S) /\ y = InOrder(Shifted(S, d))
    OBVIOUS
  <2>1. D \in SUBSET (1..Len(a)) /\ S \in SUBSET D /\ ChildrenOf(m, d + i) = Shifted(S, d)
    BY <1>2 DEF Copied
  <2>2. S \in SUBSET (1..Len(a)) /\ Len(a) \in Nat
    <3>1. Len(a) \in Nat
      OBVIOUS
    <3> QED
      BY <2>1, <3>1
  <2>3. DOMAIN y = DOMAIN x /\ \A k \in DOMAIN x : y[k] = d + x[k]
    BY <2>2, ShiftedInOrder
  <2>4. \A k \in DOMAIN x : x[k] \in D
    <3>1. x \in Seq(S)
      BY <2>2, InOrderLists
    <3> QED
      BY <2>1, <3>1
  <2>5. \A k \in DOMAIN x : ActionAt(m, y[k]) = ActionAt(a, x[k])
    BY <2>3, <2>4, CopiedAction
  <2>6. ParseActions(a, i) = [n \in DOMAIN x |-> ActionAt(a, x[n])]
    BY <1>2 DEF ParseActions
  <2>7. Moved(i, d) = d + i /\ d + i # 0
    BY <1>2, <2>1 DEF Moved
  <2>8. ParseActions(m, d + i) = [n \in DOMAIN y |-> ActionAt(m, y[n])]
    BY <2>1, <2>7 DEF ParseActions
  <2> QED
    BY <2>3, <2>5, <2>6, <2>7, <2>8
<1> QED
  BY <1>1, <1>2

LEMMA CopiedTrigger ==
  ASSUME NEW a \in Seq(TextLine), NEW m \in Seq(TextLine), NEW d \in Nat, NEW D, Copied(a, m, d, D),
         NEW i \in D, ~TriggerFault(a, i)
  PROVE  TriggerAt(m, d + i) = TriggerAt(a, i)
<1> PICK E, t, do : E = EntriesOf(a, i) /\ t = Find(a, E, "type") /\ do = Find(a, E, "do")
  OBVIOUS
<1>1. E \in SUBSET D /\ EntriesOf(m, d + i) = Shifted(E, d)
  BY CopiedEntries
<1>2. Find(m, Shifted(E, d), "type") = Moved(t, d) /\ Find(m, Shifted(E, d), "do") = Moved(do, d)
  BY <1>1, CopiedFind
<1>3. D \in SUBSET (1..Len(a)) /\ \A j \in D : m[d + j] = a[j]
  BY DEF Copied
<1>4. t # 0
  <2>1. "type" \in {a[j].key : j \in E}
    BY DEF TriggerFault
  <2> QED
    BY <1>1, <1>3, <2>1, FoundInD
<1>5. t \in D /\ do \in D \union {0}
  BY <1>1, <1>3, <1>4, FoundInD
<1>6. TriggerAt(a, i) = [type |-> a[t].val, actions |-> ParseActions(a, do)]
  BY DEF TriggerAt
<1>7. TriggerAt(m, d + i) = [type |-> m[Moved(t, d)].val, actions |-> ParseActions(m, Moved(do, d))]
  BY <1>1, <1>2 DEF TriggerAt
<1>8. m[Moved(t, d)].val = a[t].val
  BY <1>3, <1>4, <1>5 DEF Moved
<1>9. ParseActions(m, Moved(do, d)) = ParseActions(a, do)
  BY <1>5, CopiedActions
<1> QED
  BY <1>6, <1>7, <1>8, <1>9

LEMMA CopiedTriggers ==
  ASSUME NEW a \in Seq(TextLine), NEW m \in Seq(TextLine), NEW d \in Nat, NEW D, Copied(a, m, d, D),
         NEW i \in D, ~TriggersFault(a, i)
  PROVE  ParseTriggers(m, d + i) = ParseTriggers(a, i)
<1> PICK S, x, y : S = ChildrenOf(a, i) /\ x = InOrder(S) /\ y = InOrder(Shifted(S, d))
  OBVIOUS
<1>1. D \in SUBSET (1..Len(a)) /\ S \in SUBSET D /\ ChildrenOf(m, d + i) = Shifted(S, d)
  BY DEF Copied
<1>2. S \in SUBSET (1..Len(a)) /\ Len(a) \in Nat
  <2>1. Len(a) \in Nat
    OBVIOUS
  <2> QED
    BY <1>1, <2>1
<1>3. DOMAIN y = DOMAIN x /\ \A k \in DOMAIN x : y[k] = d + x[k]
  BY <1>2, ShiftedInOrder
<1>4. \A k \in DOMAIN x : x[k] \in S /\ x[k] \in D
  <2>1. x \in Seq(S)
    BY <1>2, InOrderLists
  <2> QED
    BY <1>1, <2>1
<1>5. \A j \in S : ~TriggerFault(a, j)
  BY DEF TriggersFault
<1>6. \A k \in DOMAIN x : TriggerAt(m, y[k]) = TriggerAt(a, x[k])
  BY <1>3, <1>4, <1>5, CopiedTrigger
<1>7. ParseTriggers(a, i) = [n \in DOMAIN x |-> TriggerAt(a, x[n])]
  BY DEF ParseTriggers
<1>8. ParseTriggers(m, d + i) = [n \in DOMAIN y |-> TriggerAt(m, y[n])]
  BY <1>1 DEF ParseTriggers
<1> QED
  BY <1>3, <1>6, <1>7, <1>8

LEMMA CopiedAliases ==
  ASSUME NEW a \in Seq(TextLine), NEW m \in Seq(TextLine), NEW d \in Nat, NEW D, Copied(a, m, d, D),
         NEW i \in D \union {0}
  PROVE  ParseAliases(m, Moved(i, d)) = ParseAliases(a, i)
<1>1. CASE i = 0
  BY <1>1 DEF ParseAliases, Moved
<1>2. CASE i # 0
  <2> PICK S, T : S = ChildrenOf(a, i) /\ T = Shifted(S, d)
    OBVIOUS
  <2>1. /\ D \in SUBSET (1..Len(a)) /\ S \in SUBSET D /\ ChildrenOf(m, d + i) = T
        /\ \A j \in D : m[d + j] = a[j]
    BY <1>2 DEF Copied
  <2> PICK keys : keys = {a[j].key : j \in S}
    OBVIOUS
  <2>2. {m[j].key : j \in T} = keys
    BY <2>1 DEF Shifted
  <2>3. ASSUME NEW k \in keys PROVE m[Find(m, T, k)].val = a[Find(a, S, k)].val
    <3> PICK x : x = Find(a, S, k)
      OBVIOUS
    <3>1. x \in Nat \ {0} /\ x \in D
      BY <2>1, FoundInD
    <3>2. Find(m, T, k) = Moved(x, d)
      BY <2>1, CopiedFind
    <3> QED
      BY <2>1, <3>1, <3>2 DEF Moved
  <2>4. ParseAliases(a, i) = [k \in keys |-> a[Find(a, S, k)].val]
    BY <1>2 DEF ParseAliases
  <2>5. Moved(i, d) = d + i /\ d + i # 0
    BY <1>2, <2>1 DEF Moved
  <2>6. ParseAliases(m, d + i) = [k \in keys |-> m[Find(m, T, k)].val]
    BY <2>1, <2>2, <2>5 DEF ParseAliases
  <2> QED
    BY <2>3, <2>4, <2>5, <2>6
<1> QED
  BY <1>1, <1>2

LEMMA CopiedOn ==
  ASSUME NEW a \in Seq(TextLine), NEW m \in Seq(TextLine), NEW d \in Nat, NEW D, Copied(a, m, d, D),
         NEW S \in SUBSET D
  PROVE  /\ OnOf(m, Shifted(S, d)) = Moved(OnOf(a, S), d)
         /\ OnOf(a, S) \in S \union {0}
<1> PICK x, y : x = Find(a, S, "on") /\ y = Find(a, S, "triggers")
  OBVIOUS
<1>1. D \in SUBSET (1..Len(a))
  BY DEF Copied
<1>2. x \in Nat /\ x \in S \union {0} /\ y \in S \union {0}
  BY <1>1, FoundInD
<1>3. Find(m, Shifted(S, d), "on") = Moved(x, d) /\ Find(m, Shifted(S, d), "triggers") = Moved(y, d)
  BY CopiedFind
<1>4. OnOf(a, S) = IF x # 0 THEN x ELSE y
  BY DEF OnOf
<1>5. OnOf(m, Shifted(S, d)) = IF Moved(x, d) # 0 THEN Moved(x, d) ELSE Moved(y, d)
  BY <1>3 DEF OnOf
<1>6. Moved(x, d) # 0 <=> x # 0
  BY <1>2 DEF Moved
<1> QED
  BY <1>2, <1>4, <1>5, <1>6

LEMMA CopiedGroup ==
  ASSUME NEW a \in Seq(TextLine), NEW m \in Seq(TextLine), NEW d \in Nat, NEW D, Copied(a, m, d, D),
         NEW i \in D, ~GroupFault(a, i)
  PROVE  ParseGroup(m, d + i) = ParseGroup(a, i)
<1> PICK S, T : S = ChildrenOf(a, i) /\ T = Shifted(S, d)
  OBVIOUS
<1> PICK on, do, al : on = OnOf(a, S) /\ do = Find(a, S, "do") /\ al = Find(a, S, "aliases")
  OBVIOUS
<1>1. /\ D \in SUBSET (1..Len(a)) /\ S \in SUBSET D /\ ChildrenOf(m, d + i) = T
      /\ m[d + i] = a[i]
  BY DEF Copied
<1>2. OnOf(m, T) = Moved(on, d) /\ on \in S \union {0}
  BY <1>1, CopiedOn
<1>3. Find(m, T, "do") = Moved(do, d) /\ Find(m, T, "aliases") = Moved(al, d)
  BY <1>1, CopiedFind
<1>4. do \in D \union {0} /\ al \in D \union {0}
  BY <1>1, FoundInD
<1>5. on # 0 /\ ~TriggersFault(a, on)
  BY DEF GroupFault
<1>6. on \in D /\ Moved(on, d) = d + on
  BY <1>1, <1>2, <1>5 DEF Moved
<1>7. ParseTriggers(m, Moved(on, d)) = ParseTriggers(a, on)
  BY <1>5, <1>6, CopiedTriggers
<1>8. /\ ParseActions(m, Moved(do, d)) = ParseActions(a, do)
      /\ ParseAliases(m, Moved(al, d)) = ParseAliases(a, al)
  BY <1>4, CopiedActions, CopiedAliases
<1>9. ParseGroup(a, i) = [name |-> a[i].key, aliases |-> ParseAliases(a, al),
                          triggers |-> ParseTriggers(a, on), actions |-> ParseActions(a, do)]
  BY DEF ParseGroup
<1>10. ParseGroup(m, d + i) =
         [name |-> m[d + i].key, aliases |-> ParseAliases(m, Moved(al, d)),
          triggers |-> ParseTriggers(m, Moved(on, d)), actions |-> ParseActions(m, Moved(do, d))]
  BY <1>1, <1>2, <1>3 DEF ParseGroup
<1> QED
  BY <1>1, <1>7, <1>8, <1>9, <1>10

-----------------------------------------------------------------------------
(* A text with another one behind it. *)

\* One text begins with the other.
Begins(e, m) == Len(e) <= Len(m) /\ \A i \in 1..Len(e) : m[i] = e[i]

LEMMA BeginSame ==
  ASSUME NEW e \in Seq(TextLine), NEW m \in Seq(TextLine), Begins(e, m)
  PROVE  /\ \A j \in 1..Len(e) : j \in Solid(m) <=> j \in Solid(e)
         /\ \A j \in 1..Len(e) : ParentOf(m, j) = ParentOf(e, j)
         /\ \A i : ChildrenOf(e, i) = {j \in ChildrenOf(m, i) : j <= Len(e)}
<1>1. /\ DOMAIN e = 1..Len(e) /\ DOMAIN m = 1..Len(m) /\ Len(e) \in Nat /\ Len(m) \in Nat
      /\ Len(e) <= Len(m) /\ \A i \in 1..Len(e) : m[i] = e[i]
  BY DEF Begins
<1>2. \A j \in 1..Len(e) : j \in Solid(m) <=> j \in Solid(e)
  BY <1>1 DEF Solid
<1>3. Solid(e) \in SUBSET (1..Len(e)) /\ Solid(m) \in SUBSET (1..Len(m))
  BY SolidLines
<1>4. ASSUME NEW j \in 1..Len(e) PROVE ParentOf(m, j) = ParentOf(e, j)
  <2>1. Outer(m, j) = Outer(e, j)
    <3>1. \A i : i \in Solid(m) /\ i < j => i \in 1..Len(e)
      BY <1>1, <1>3
    <3>2. \A i : i \in Solid(m) /\ i < j <=> i \in Solid(e) /\ i < j
      BY <1>2, <1>3, <3>1
    <3>3. \A i : i \in Solid(e) => m[i] = e[i]
      BY <1>1, <1>3
    <3>4. m[j] = e[j]
      BY <1>1
    <3> QED
      BY <3>2, <3>3, <3>4 DEF Outer
  <2> QED
    BY <2>1 DEF ParentOf, Outer
<1>5. ASSUME NEW i PROVE ChildrenOf(e, i) = {j \in ChildrenOf(m, i) : j <= Len(e)}
  <2>1. \A j \in Solid(m) : j <= Len(e) <=> j \in 1..Len(e)
    BY <1>1, <1>3
  <2> QED
    BY <1>2, <1>3, <1>4, <2>1 DEF ChildrenOf
<1> QED
  BY <1>2, <1>4, <1>5

LEMMA ShiftedByNone == ASSUME NEW n \in Nat, NEW S \in SUBSET (1..n) PROVE Shifted(S, 0) = S
<1>1. \A i \in S : 0 + i = i
  OBVIOUS
<1> QED
  BY <1>1 DEF Shifted

\* The lines of the second text hang together as before, and on none of the first.
LEMMA AppendedParents ==
  ASSUME NEW e \in Seq(TextLine), NEW f \in Seq(TextLine), WellFormed(f),
         NEW m, m = e \o f
  PROVE  /\ m \in Seq(TextLine) /\ Begins(e, m)
         /\ Len(m) = Len(e) + Len(f) /\ Len(e) \in Nat /\ Len(f) \in Nat
         /\ \A j \in 1..Len(f) : m[Len(e) + j] = f[j]
         /\ \A j \in 1..Len(f) : Len(e) + j \in Solid(m) <=> j \in Solid(f)
         /\ \A j \in Solid(f) : ParentOf(m, Len(e) + j) = Moved(ParentOf(f, j), Len(e))
<1> PICK n, p : n = Len(e) /\ p = Len(f)
  OBVIOUS
<1>1. m \in Seq(TextLine) /\ Len(m) = n + p /\ n \in Nat /\ p \in Nat
  OBVIOUS
<1>2. /\ \A i \in 1..n : m[i] = e[i]
      /\ \A j \in 1..p : m[n + j] = f[j] /\ n + j \in 1..n + p
  OBVIOUS
<1>3. Begins(e, m)
  BY <1>1, <1>2 DEF Begins
<1>4. \A j \in 1..p : n + j \in Solid(m) <=> j \in Solid(f)
  BY <1>1, <1>2 DEF Solid
<1>5. Solid(f) \in SUBSET (1..p) /\ Solid(m) \in SUBSET (1..n + p)
  BY <1>1, SolidLines
<1>6. /\ \A i \in 1..p : f[i].at \in Nat
      /\ \A i \in 1..n + p : m[i].at \in Nat
  BY <1>1, SolidLines
<1>7. ASSUME NEW j \in Solid(f) PROVE ParentOf(m, n + j) = Moved(ParentOf(f, j), n)
  <2>1. j \in 1..p /\ m[n + j] = f[j]
    BY <1>2, <1>5
  <2>2. CASE ParentOf(f, j) = 0
    <3>1. f[j].at = 0
      BY <2>2 DEF WellFormed
    <3>2. Outer(m, n + j) = {}
      BY <1>5, <1>6, <2>1, <3>1 DEF Outer
    <3> QED
      BY <1>1, <2>2, <3>2, ParentIsLast DEF Moved
  <2>3. CASE ParentOf(f, j) # 0
    <3> PICK q : q = ParentOf(f, j)
      OBVIOUS
    <3>1. q \in Outer(f, j) /\ \A i \in Outer(f, j) : i <= q
      BY <2>3, ParentIsLast
    <3>2. q \in 1..p /\ q \in Solid(f) /\ q < j /\ f[q].at < f[j].at
      BY <1>5, <3>1 DEF Outer
    <3>3. n + q \in Outer(m, n + j)
      BY <1>1, <1>2, <1>4, <2>1, <3>2 DEF Outer
    <3>4. ASSUME NEW i \in Outer(m, n + j) PROVE i <= n + q
      <4>1. i \in Solid(m) /\ i \in 1..n + p /\ i < n + j /\ m[i].at < f[j].at
        BY <1>5, <2>1 DEF Outer
      <4>2. CASE i <= n
        BY <1>1, <3>2, <4>1, <4>2
      <4>3. CASE ~(i <= n)
        <5>1. PICK k \in 1..p : i = n + k
          <6>1. i - n \in 1..p /\ i = n + (i - n)
            BY <1>1, <4>1, <4>3
          <6> QED
            BY <6>1
        <5>2. k \in Solid(f) /\ k < j /\ f[k].at < f[j].at
          BY <1>1, <1>2, <1>4, <2>1, <4>1, <5>1
        <5>3. k <= q
          BY <3>1, <5>2 DEF Outer
        <5> QED
          BY <1>1, <3>2, <5>1, <5>3
      <4> QED
        BY <4>2, <4>3
    <3>5. ParentOf(m, n + j) \in Outer(m, n + j) /\ n + q <= ParentOf(m, n + j)
      BY <1>1, <3>3, ParentIsLast
    <3>6. ParentOf(m, n + j) <= n + q /\ ParentOf(m, n + j) \in 1..n + p
      BY <1>5, <3>4, <3>5 DEF Outer
    <3>7. Moved(q, n) = n + q
      BY <3>2 DEF Moved
    <3>8. \A x, y \in Nat : x <= y /\ y <= x => x = y
      OBVIOUS
    <3>9. n + q \in Nat /\ ParentOf(m, n + j) \in Nat
      BY <1>1, <3>2, <3>6
    <3> QED
      BY <3>5, <3>6, <3>7, <3>8, <3>9
  <2> QED
    BY <2>2, <2>3
<1> QED
  BY <1>1, <1>2, <1>3, <1>4, <1>7

LEMMA AppendedChildren ==
  ASSUME NEW e \in Seq(TextLine), NEW f \in Seq(TextLine), WellFormed(f),
         NEW m, m = e \o f
  PROVE  /\ Copied(e, m, 0, 1..Len(e)) /\ Copied(f, m, Len(e), 1..Len(f))
         /\ ChildrenOf(m, 0) = ChildrenOf(e, 0) \union Shifted(ChildrenOf(f, 0), Len(e))
<1> PICK n, p : n = Len(e) /\ p = Len(f)
  OBVIOUS
<1>1. /\ m \in Seq(TextLine) /\ Begins(e, m)
      /\ Len(m) = n + p /\ n \in Nat /\ p \in Nat
      /\ \A j \in 1..p : m[n + j] = f[j]
      /\ \A j \in 1..p : n + j \in Solid(m) <=> j \in Solid(f)
      /\ \A j \in Solid(f) : ParentOf(m, n + j) = Moved(ParentOf(f, j), n)
  BY AppendedParents
<1>2. /\ \A j \in 1..n : j \in Solid(m) <=> j \in Solid(e)
      /\ \A j \in 1..n : ParentOf(m, j) = ParentOf(e, j)
      /\ \A i \in 1..n : m[i] = e[i]
  BY <1>1, BeginSame DEF Begins
<1>3. /\ Solid(e) \in SUBSET (1..n) /\ Solid(f) \in SUBSET (1..p) /\ Solid(m) \in SUBSET (1..n + p)
  BY <1>1, SolidLines
<1>4. \A j \in Solid(m) : j \in 1..n \/ \E k \in 1..p : j = n + k
  <2> SUFFICES ASSUME NEW j \in Solid(m), j \notin 1..n PROVE \E k \in 1..p : j = n + k
    OBVIOUS
  <2>1. j - n \in 1..p /\ j = n + (j - n)
    BY <1>1, <1>3
  <2> QED
    BY <2>1
<1>5. \A j \in Solid(e) : ParentOf(e, j) = 0 \/ ParentOf(e, j) \in 1..n
  BY <1>3, ParentIsSolid
<1>6. \A j \in Solid(f) : ParentOf(f, j) = 0 \/ ParentOf(f, j) \in 1..p
  BY <1>3, ParentIsSolid
<1>7. ASSUME NEW i \in 1..n PROVE ChildrenOf(m, i) = ChildrenOf(e, i)
  <2>1. ASSUME NEW j \in Solid(m), ParentOf(m, j) = i PROVE j \in 1..n
    <3> SUFFICES ASSUME NEW k \in 1..p, j = n + k PROVE FALSE
      BY <1>4
    <3>1. k \in Solid(f) /\ i = Moved(ParentOf(f, k), n)
      BY <1>1, <2>1
    <3> QED
      BY <1>1, <1>6, <3>1 DEF Moved
  <2> QED
    BY <1>2, <1>3, <2>1 DEF ChildrenOf
<1>8. ASSUME NEW i \in 1..p PROVE ChildrenOf(m, n + i) = Shifted(ChildrenOf(f, i), n)
  <2>1. ASSUME NEW j \in ChildrenOf(m, n + i) PROVE j \in Shifted(ChildrenOf(f, i), n)
    <3>1. j \in Solid(m) /\ ParentOf(m, j) = n + i
      BY DEF ChildrenOf
    <3>2. j \notin 1..n
      BY <1>1, <1>2, <1>5, <3>1
    <3>3. PICK k \in 1..p : j = n + k
      BY <1>4, <3>1, <3>2
    <3>4. k \in Solid(f) /\ n + i = Moved(ParentOf(f, k), n)
      BY <1>1, <3>1, <3>3
    <3>5. ParentOf(f, k) = i
      BY <1>1, <1>6, <3>4 DEF Moved
    <3> QED
      BY <3>3, <3>4, <3>5 DEF ChildrenOf, Shifted
  <2>2. ASSUME NEW k \in ChildrenOf(f, i) PROVE n + k \in ChildrenOf(m, n + i)
    <3>1. k \in Solid(f) /\ ParentOf(f, k) = i /\ k \in 1..p
      BY <1>3 DEF ChildrenOf
    <3>2. n + k \in Solid(m) /\ ParentOf(m, n + k) = Moved(i, n)
      BY <1>1, <3>1
    <3>3. Moved(i, n) = n + i
      BY DEF Moved
    <3> QED
      BY <3>2, <3>3 DEF ChildrenOf
  <2> QED
    BY <2>1, <2>2 DEF Shifted
<1>9. ChildrenOf(m, 0) = ChildrenOf(e, 0) \union Shifted(ChildrenOf(f, 0), n)
  <2>1. ASSUME NEW j \in ChildrenOf(m, 0), j \notin ChildrenOf(e, 0) PROVE j \in Shifted(ChildrenOf(f, 0), n)
    <3>1. j \in Solid(m) /\ ParentOf(m, j) = 0
      BY DEF ChildrenOf
    <3>2. j \notin 1..n
      BY <1>2, <2>1, <3>1 DEF ChildrenOf
    <3>3. PICK k \in 1..p : j = n + k
      BY <1>4, <3>1, <3>2
    <3>4. k \in Solid(f) /\ 0 = Moved(ParentOf(f, k), n)
      BY <1>1, <3>1, <3>3
    <3>5. ParentOf(f, k) = 0
      BY <1>1, <1>6, <3>4 DEF Moved
    <3> QED
      BY <3>3, <3>4, <3>5 DEF ChildrenOf, Shifted
  <2>2. ASSUME NEW k \in ChildrenOf(f, 0) PROVE n + k \in ChildrenOf(m, 0)
    <3>1. k \in Solid(f) /\ ParentOf(f, k) = 0 /\ k \in 1..p
      BY <1>3 DEF ChildrenOf
    <3>2. n + k \in Solid(m) /\ ParentOf(m, n + k) = 0
      BY <1>1, <3>1 DEF Moved
    <3> QED
      BY <3>2 DEF ChildrenOf
  <2>3. ChildrenOf(e, 0) \subseteq ChildrenOf(m, 0)
    BY <1>2, <1>3 DEF ChildrenOf
  <2> QED
    BY <2>1, <2>2, <2>3 DEF Shifted
<1>10. Copied(e, m, 0, 1..n)
  <2>1. ASSUME NEW i \in 1..n
        PROVE  /\ 0 + i \in 1..Len(m) /\ m[0 + i] = e[i]
               /\ ChildrenOf(e, i) \subseteq 1..n
               /\ ChildrenOf(m, 0 + i) = Shifted(ChildrenOf(e, i), 0)
    <3>1. 0 + i = i /\ i \in 1..Len(m)
      BY <1>1
    <3>2. ChildrenOf(e, i) \in SUBSET (1..n)
      BY ChildrenAreLines
    <3>3. Shifted(ChildrenOf(e, i), 0) = ChildrenOf(e, i)
      BY <1>1, <3>2, ShiftedByNone
    <3> QED
      BY <1>2, <1>7, <3>1, <3>2, <3>3
  <2> QED
    BY <2>1 DEF Copied
<1>11. Copied(f, m, n, 1..p)
  <2>1. ASSUME NEW i \in 1..p
        PROVE  /\ n + i \in 1..Len(m) /\ m[n + i] = f[i]
               /\ ChildrenOf(f, i) \subseteq 1..p
               /\ ChildrenOf(m, n + i) = Shifted(ChildrenOf(f, i), n)
    <3>1. n + i \in 1..Len(m)
      BY <1>1
    <3>2. ChildrenOf(f, i) \in SUBSET (1..p)
      BY ChildrenAreLines
    <3> QED
      BY <1>1, <1>8, <3>1, <3>2
  <2> QED
    BY <2>1 DEF Copied
<1> QED
  BY <1>9, <1>10, <1>11

\* A list of so many elements.
IsListOf(n, x) == x = [k \in 1..n |-> x[k]]

\* One list behind another.
Together(w, x, y) == w = x \o y

InParts(z, s, x, t, y) ==
  /\ IsListOf(s, x) /\ IsListOf(t, y) /\ IsListOf(s + t, z)
  /\ \A k \in 1..s : z[k] = x[k]
  /\ \A k \in 1..t : z[s + k] = y[k]

LEMMA ListIsSeq == ASSUME NEW S, NEW n \in Nat, NEW x \in [1..n -> S] PROVE x \in Seq(S) /\ Len(x) = n
OBVIOUS

\* A list that is two, one after the other.
LEMMA FunctionsJoined ==
  ASSUME NEW s \in Nat, NEW t \in Nat, NEW x, NEW y, NEW z, InParts(z, s, x, t, y)
  PROVE  z = x \o y
<1> PICK u, w : u = s + t /\ Together(w, x, y)
  BY DEF Together
<1>0. /\ u \in Nat /\ IsListOf(s, x) /\ IsListOf(t, y) /\ IsListOf(u, z)
      /\ \A k \in 1..s : z[k] = x[k]
      /\ \A k \in 1..t : z[s + k] = y[k]
  BY DEF InParts
<1> PICK S : S = {x[k] : k \in 1..s} \union {y[k] : k \in 1..t}
  OBVIOUS
<1>1. x \in Seq(S) /\ Len(x) = s
  <2>1. x \in [1..s -> S]
    BY <1>0 DEF IsListOf
  <2> QED
    BY <2>1
<1>2. y \in Seq(S) /\ Len(y) = t
  <2>1. y \in [1..t -> S]
    BY <1>0 DEF IsListOf
  <2> QED
    BY <2>1
<1>3. /\ w \in Seq(S) /\ Len(w) = u
      /\ \A k \in 1..u : w[k] = IF k <= s THEN x[k] ELSE y[k - s]
  <2>1. /\ x \o y \in Seq(S) /\ Len(x \o y) = Len(x) + Len(y)
        /\ \A k \in 1..Len(x) + Len(y) : (x \o y)[k] = IF k <= Len(x) THEN x[k] ELSE y[k - Len(x)]
    BY <1>1, <1>2, Joined
  <2>2. w = x \o y
    BY DEF Together
  <2> QED
    BY <1>1, <1>2, <2>1, <2>2
<1>4. ASSUME NEW k \in 1..u PROVE z[k] = w[k] /\ z[k] \in S
  <2>1. CASE k <= s
    <3>1. k \in 1..s
      BY <2>1
    <3> QED
      BY <1>0, <1>3, <2>1, <3>1
  <2>2. CASE ~(k <= s)
    <3>1. k - s \in 1..t /\ s + (k - s) = k
      BY <2>2
    <3>2. z[k] = y[k - s]
      BY <1>0, <3>1
    <3> QED
      BY <1>0, <1>3, <2>2, <3>1, <3>2
  <2> QED
    BY <2>1, <2>2
<1>5. z \in Seq(S) /\ Len(z) = u
  <2>1. z \in [1..u -> S]
    BY <1>0, <1>4 DEF IsListOf
  <2> QED
    BY <1>0, <2>1, ListIsSeq
<1>6. w \in Seq(S) /\ Len(w) = u /\ \A k \in 1..u : z[k] = w[k]
  BY <1>3, <1>4
<1>7. z = w
  BY <1>5, <1>6, SequencesEqual
<1> QED
  BY <1>7 DEF Together

\* The groups of a text that holds two.
LEMMA GroupsJoined ==
  ASSUME NEW e \in Seq(TextLine), NEW f \in Seq(TextLine), NEW m \in Seq(TextLine),
         Len(m) = Len(e) + Len(f),
         Copied(e, m, 0, 1..Len(e)), Copied(f, m, Len(e), 1..Len(f)),
         ChildrenOf(m, 0) = ChildrenOf(e, 0) \union Shifted(ChildrenOf(f, 0), Len(e)),
         Accepted(e), Accepted(f), Accepted(m)
  PROVE  Parse(m).groups = Parse(e).groups \o Parse(f).groups
<1> PICK n, p : n = Len(e) /\ p = Len(f)
  OBVIOUS
<1> PICK E, F, M : E = GroupLines(e) /\ F = GroupLines(f) /\ M = GroupLines(m)
  OBVIOUS
<1> PICK s, t : s = Cardinality(E) /\ t = Cardinality(F)
  OBVIOUS
<1> PICK x, y, z : x = InOrder(E) /\ y = InOrder(F) /\ z = InOrder(M)
  OBVIOUS
<1> PICK D, D2, d : D = 1..n /\ D2 = 1..p /\ d = 0
  OBVIOUS
<1>3. /\ Len(m) = n + p /\ n \in Nat /\ p \in Nat
      /\ \A i \in 1..n : m[i] = e[i]
      /\ \A j \in 1..p : m[n + j] = f[j]
  <2>1. \A i \in 1..n : 0 + i = i
    OBVIOUS
  <2> QED
    BY <2>1 DEF Copied
<1>4. Copied(e, m, d, D) /\ Copied(f, m, n, D2) /\ d \in Nat
  OBVIOUS
<1>5. E \in SUBSET (1..n) /\ F \in SUBSET (1..p)
  BY GroupLinesAreLines
<1>6. M = E \union Shifted(F, n)
  <2>1. ChildrenOf(e, 0) \in SUBSET (1..n) /\ ChildrenOf(f, 0) \in SUBSET (1..p)
    BY ChildrenAreLines
  <2>3. {i \in ChildrenOf(e, 0) : m[i].key \notin Reserved} = E
    BY <1>3, <2>1 DEF GroupLines, TopLevel
  <2>4. {i \in Shifted(ChildrenOf(f, 0), n) : m[i].key \notin Reserved} = Shifted(F, n)
    BY <1>3, <2>1 DEF GroupLines, TopLevel, Shifted
  <2> QED
    BY <2>3, <2>4 DEF GroupLines, TopLevel
<1>7. /\ s \in Nat /\ t \in Nat
      /\ x \in Seq(E) /\ Len(x) = s /\ y \in Seq(F) /\ Len(y) = t
  BY <1>3, <1>5, InOrderLists
<1> PICK yy : yy = InOrder(Shifted(F, n))
  OBVIOUS
<1>8. DOMAIN yy = 1..t /\ \A k \in 1..t : yy[k] = n + y[k]
  <2>1. DOMAIN yy = DOMAIN y /\ \A k \in DOMAIN y : yy[k] = n + y[k]
    BY <1>3, <1>5, ShiftedInOrder
  <2>2. DOMAIN y = 1..t
    BY <1>7
  <2> QED
    BY <2>1, <2>2
<1>9. yy \in Seq(Shifted(F, n)) /\ Len(yy) = t
  <2>1. Shifted(F, n) \in SUBSET (1..n + p) /\ n + p \in Nat
    BY <1>3, <1>5 DEF Shifted
  <2>2. yy \in Seq(Shifted(F, n))
    BY <2>1, InOrderLists
  <2> QED
    BY <1>7, <1>8, <2>2
<1>10. z = x \o yy
  <2>1. E \in SUBSET (1..n + p) /\ Shifted(F, n) \in SUBSET (1..n + p) /\ n + p \in Nat
    BY <1>3, <1>5 DEF Shifted
  <2>2. \A i \in E, j \in Shifted(F, n) : i < j
    BY <1>3, <1>5 DEF Shifted
  <2> QED
    BY <1>6, <2>1, <2>2, InOrderJoined, ZenonT(30)
<1>11. /\ DOMAIN z = 1..s + t
       /\ \A k \in 1..s : z[k] = x[k]
       /\ \A k \in 1..t : z[s + k] = yy[k]
  <2> PICK S : S = E \union Shifted(F, n)
    OBVIOUS
  <2>1. x \in Seq(S) /\ yy \in Seq(S)
    BY <1>7, <1>9
  <2>2. /\ z \in Seq(S) /\ Len(z) = s + t
        /\ \A k \in 1..s + t : z[k] = IF k <= s THEN x[k] ELSE yy[k - s]
    <3>1. /\ x \o yy \in Seq(S) /\ Len(x \o yy) = Len(x) + Len(yy)
          /\ \A k \in 1..Len(x) + Len(yy) : (x \o yy)[k] = IF k <= Len(x) THEN x[k] ELSE yy[k - Len(x)]
      BY <2>1, Joined
    <3> HIDE DEF Accepted
    <3> QED
      BY <1>7, <1>9, <1>10, <3>1, SMTT(30)
  <2>3. \A k \in 1..s : k \in 1..s + t /\ k <= s
    BY <1>7
  <2>4. \A k \in 1..t : s + k \in 1..s + t /\ ~(s + k <= s) /\ (s + k) - s = k
    BY <1>7
  <2> QED
    BY <2>2, <2>3, <2>4
<1>12. ASSUME NEW k \in 1..s PROVE ParseGroup(m, z[k]) = ParseGroup(e, x[k])
  <2> PICK i : i = x[k]
    OBVIOUS
  <2>1. i \in E /\ i \in D /\ d + i = i
    BY <1>5, <1>7
  <2>2. ~GroupFault(e, i)
    BY <2>1 DEF Accepted
  <2>3. ParseGroup(m, d + i) = ParseGroup(e, i)
    BY <1>4, <2>1, <2>2, CopiedGroup
  <2> QED
    BY <1>11, <2>1, <2>3
<1>13. ASSUME NEW k \in 1..t PROVE ParseGroup(m, z[s + k]) = ParseGroup(f, y[k])
  <2> PICK i : i = y[k]
    OBVIOUS
  <2>1. i \in F /\ i \in D2
    BY <1>5, <1>7
  <2>2. ~GroupFault(f, i)
    BY <2>1 DEF Accepted
  <2>3. ParseGroup(m, n + i) = ParseGroup(f, i)
    BY <1>3, <1>4, <2>1, <2>2, CopiedGroup
  <2>4. z[s + k] = n + i
    BY <1>8, <1>11
  <2> QED
    BY <2>3, <2>4
<1>14. /\ Parse(e).groups = [k \in 1..s |-> ParseGroup(e, x[k])]
       /\ Parse(f).groups = [k \in 1..t |-> ParseGroup(f, y[k])]
       /\ Parse(m).groups = [k \in 1..s + t |-> ParseGroup(m, z[k])]
  <2>1. DOMAIN x = 1..s /\ DOMAIN y = 1..t
    BY <1>7
  <2> QED
    BY <1>11, <2>1 DEF Accepted
<1> PICK a, b, c : a = Parse(e).groups /\ b = Parse(f).groups /\ c = Parse(m).groups
  OBVIOUS
<1>15. /\ a = [k \in 1..s |-> a[k]] /\ b = [k \in 1..t |-> b[k]] /\ c = [k \in 1..s + t |-> c[k]]
       /\ \A k \in 1..s : a[k] = ParseGroup(e, x[k])
       /\ \A k \in 1..t : b[k] = ParseGroup(f, y[k])
       /\ \A k \in 1..s + t : c[k] = ParseGroup(m, z[k])
  BY <1>14
<1>16. /\ \A k \in 1..s : c[k] = a[k]
       /\ \A k \in 1..t : c[s + k] = b[k]
  <2>1. \A k \in 1..s : k \in 1..s + t
    BY <1>7
  <2>2. \A k \in 1..t : s + k \in 1..s + t
    BY <1>7
  <2>3. \A k \in 1..s : c[k] = a[k]
    BY <1>12, <1>15, <2>1
  <2>4. ASSUME NEW k \in 1..t PROVE c[s + k] = b[k]
    <3> PICK l : l = s + k
      OBVIOUS
    <3>1. c[l] = ParseGroup(m, z[l]) /\ b[k] = ParseGroup(f, y[k])
      BY <1>15, <2>2
    <3>2. ParseGroup(m, z[l]) = ParseGroup(f, y[k])
      BY <1>13
    <3> QED
      BY <3>1, <3>2
  <2> QED
    BY <2>3, <2>4
<1>17. c = a \o b
  <2>1. IsListOf(s, a) /\ IsListOf(t, b) /\ IsListOf(s + t, c)
    BY <1>7, <1>15 DEF IsListOf
  <2>2. InParts(c, s, a, t, b)
    BY <1>16, <2>1 DEF InParts
  <2> QED
    BY <1>7, <2>2, FunctionsJoined
<1> QED
  BY <1>17

\* merge.go:15: the groups of a fragment that is appended come behind those of the file.
LEMMA AppendedGroups ==
  ASSUME NEW e \in Seq(TextLine), NEW f \in Seq(TextLine),
         Parse(e) # Invalid, Parse(f) # Invalid, Parse(e \o f) # Invalid
  PROVE  Parse(e \o f).groups = Parse(e).groups \o Parse(f).groups
<1> PICK m : m = e \o f
  OBVIOUS
<1>1. Accepted(e) /\ Accepted(f) /\ Accepted(m)
  BY ParseAccepts
<1>2. WellFormed(f)
  BY <1>1 DEF Accepted
<1>3. m \in Seq(TextLine) /\ Len(m) = Len(e) + Len(f)
  BY <1>2, AppendedParents
<1>4. /\ Copied(e, m, 0, 1..Len(e)) /\ Copied(f, m, Len(e), 1..Len(f))
      /\ ChildrenOf(m, 0) = ChildrenOf(e, 0) \union Shifted(ChildrenOf(f, 0), Len(e))
  BY <1>2, AppendedChildren
<1>5. Parse(m).groups = Parse(e).groups \o Parse(f).groups
  BY <1>1, <1>3, <1>4, GroupsJoined
<1> QED
  BY <1>5

-----------------------------------------------------------------------------
(* A group at the end of a text. *)

\* The group g is the last thing in the text, has the name to itself, and neither a list of
\* actions of its own nor two lists of triggers.
LastGroup(text, name, g) ==
  /\ g \in GroupLines(text) /\ g \in 1..Len(text) /\ text[g].key = name
  /\ text[g].at = 0 /\ ~text[g].item /\ ParentOf(text, g) = 0
  /\ \A i \in Solid(text) : i > g => text[i].at # 0
  /\ \A i \in GroupLines(text) : text[i].key = name => i = g
  /\ \A i \in g + 1..Len(text) : ~IsHeader(text[i], "do") /\ ~IsHeader(text[i], "triggers")

\* The line of a group is a header: there are sections below it.
LEMMA GroupLineIsHeader ==
  ASSUME NEW text \in Seq(TextLine), Accepted(text), NEW i \in GroupLines(text)
  PROVE  /\ i \in Solid(text) /\ i \in 1..Len(text) /\ ParentOf(text, i) = 0
         /\ text[i].at = 0 /\ ~text[i].item /\ IsHeader(text[i], text[i].key)
<1>1. i \in Solid(text) /\ ParentOf(text, i) = 0 /\ i \in 1..Len(text)
  BY GroupLinesAreLines DEF GroupLines, TopLevel, ChildrenOf
<1>2. WellFormed(text) /\ ~GroupFault(text, i)
  BY DEF Accepted
<1>3. text[i].at = 0 /\ ~text[i].item
  BY <1>1, <1>2 DEF WellFormed
<1>4. ChildrenOf(text, i) # {}
  BY <1>2 DEF GroupFault
<1>5. PICK c \in Solid(text) : ParentOf(text, c) = i
  BY <1>4 DEF ChildrenOf
<1>6. text[i].val = ""
  <2>1. Len(text) \in Nat /\ Solid(text) \in SUBSET (1..Len(text))
    BY SolidLines
  <2>2. i # 0
    BY <1>1, <2>1
  <2>3. ~(ParentOf(text, c) = 0) /\ ~text[ParentOf(text, c)].item
    BY <1>3, <1>5, <2>2
  <2>4. text[ParentOf(text, c)].val = ""
    BY <1>2, <2>3 DEF WellFormed
  <2> QED
    BY <1>5, <2>4
<1> QED
  BY <1>1, <1>3, <1>6 DEF IsHeader

LEMMA PlainIsLast ==
  ASSUME NEW text \in Seq(TextLine), Accepted(text), NEW name,
         \E i \in GroupLines(text) : text[i].key = name, PlainAtEnd(text, name)
  PROVE  LastGroup(text, name, GroupIndex(text, name))
<1> PICK g : g = GroupIndex(text, name)
  OBVIOUS
<1>1. /\ GroupEnd(text, g) = Len(text)
      /\ \A i \in g + 1..Len(text) : ~IsHeader(text[i], "do") /\ ~IsHeader(text[i], "triggers")
  BY DEF PlainAtEnd
<1>2. Len(text) \in Nat /\ Solid(text) \in SUBSET (1..Len(text))
  BY SolidLines
<1>3. PICK i0 \in GroupLines(text) : text[i0].key = name
  OBVIOUS
<1>4. i0 \in 1..Len(text) /\ IsHeader(text[i0], name)
  BY <1>3, GroupLineIsHeader
<1>5. g \in 1..Len(text) /\ \A i \in 1..Len(text) : IsHeader(text[i], name) => g <= i
  BY <1>4, GroupIndexInText
<1>6. \A i \in g + 1..Len(text) : text[i] = Blank \/ text[i].at # 0
  BY <1>1, <1>5, GroupEndInText
<1>7. \A i \in Solid(text) : i > g => text[i].at # 0
  BY <1>2, <1>5, <1>6 DEF Solid
<1>8. ASSUME NEW i \in GroupLines(text), text[i].key = name PROVE i = g
  <2>1. /\ i \in Solid(text) /\ i \in 1..Len(text) /\ text[i].at = 0 /\ IsHeader(text[i], name)
    BY <1>8, GroupLineIsHeader
  <2>2. g <= i /\ ~(i > g)
    BY <1>5, <1>7, <2>1
  <2> QED
    BY <1>2, <1>5, <2>1, <2>2
<1>9. i0 = g
  BY <1>3, <1>8
<1>10. /\ g \in GroupLines(text) /\ text[g].key = name
       /\ text[g].at = 0 /\ ~text[g].item /\ ParentOf(text, g) = 0
  BY <1>3, <1>9, GroupLineIsHeader
<1> QED
  BY <1>1, <1>5, <1>7, <1>8, <1>10 DEF LastGroup

\* Its last section: nothing behind it is as far to the left.
LastSection(text, g, s) ==
  /\ s \in ChildrenOf(text, g) /\ s \in 1..Len(text) /\ g < s
  /\ \A i \in ChildrenOf(text, g) : i <= s
  /\ text[s].at > 0 /\ ~text[s].item
  /\ \A i \in Solid(text) : g < i /\ i < s => text[i].at >= text[s].at
  /\ \A i \in Solid(text) : i > s => text[i].at > text[s].at

LEMMA SectionsEnd ==
  ASSUME NEW text \in Seq(TextLine), Accepted(text), NEW name, NEW g, LastGroup(text, name, g)
  PROVE  \E s : LastSection(text, g, s)
<1>1. Len(text) \in Nat /\ \A i \in 1..Len(text) : text[i].at \in Nat
  BY SolidLines
<1>2. Solid(text) \in SUBSET (1..Len(text))
  BY SolidLines
<1>3. /\ g \in GroupLines(text) /\ g \in 1..Len(text) /\ text[g].at = 0 /\ ParentOf(text, g) = 0
      /\ \A i \in Solid(text) : i > g => text[i].at # 0
  BY DEF LastGroup
<1>4. ~GroupFault(text, g)
  BY <1>3 DEF Accepted
<1> PICK S, s : S = ChildrenOf(text, g) /\ s = Max(S)
  OBVIOUS
<1>5. S \in SUBSET (1..Len(text)) /\ S # {} /\ \A j \in S : ~text[j].item
  BY <1>4, ChildrenAreLines DEF GroupFault, IsList
<1>6. s \in S /\ \A i \in S : i <= s
  BY <1>1, <1>5, MaxOfLines
<1>7. s \in Solid(text) /\ ParentOf(text, s) = g /\ s \in 1..Len(text)
  BY <1>2, <1>6 DEF ChildrenOf
<1>8. g < s /\ text[s].at > 0
  <2>1. g # 0
    BY <1>3
  <2>2. g < s
    BY <1>7, <2>1, ParentIsSolid
  <2>3. text[s].at # 0
    BY <1>1, <1>3, <1>7, <2>2
  <2> QED
    BY <1>1, <1>7, <2>2, <2>3
<1>9. ASSUME NEW i \in Solid(text), g < i, i < s PROVE text[i].at >= text[s].at
  <2>1. i \notin Outer(text, s)
    <3>1. ~(i <= g)
      BY <1>2, <1>3, <1>9
    <3>2. Outer(text, s) # {} => \A k \in Outer(text, s) : k <= g
      BY <1>7, ParentIsLast
    <3> QED
      BY <3>1, <3>2
  <2>2. ~(text[i].at < text[s].at)
    BY <1>9, <2>1 DEF Outer
  <2>3. text[i].at \in Nat /\ text[s].at \in Nat
    BY <1>1, <1>2, <1>7
  <2> QED
    BY <2>2, <2>3
<1>10. ASSUME NEW i \in Solid(text), i > s PROVE text[i].at > text[s].at
  <2> SUFFICES ASSUME ~(text[i].at > text[s].at) PROVE FALSE
    OBVIOUS
  <2> PICK bad : bad = {k \in Solid(text) : k > s /\ ~(text[k].at > text[s].at)}
    OBVIOUS
  <2> PICK b : b = Min(bad)
    OBVIOUS
  <2>1. bad \in SUBSET (1..Len(text)) /\ i \in bad
    BY <1>2, <1>10
  <2>2. b \in bad /\ \A k \in bad : b <= k
    BY <1>1, <2>1, MinOfLines
  <2>3. b \in Solid(text) /\ b \in 1..Len(text) /\ b > s /\ ~(text[b].at > text[s].at)
    BY <2>1, <2>2
  <2>4. b > g /\ text[b].at > 0 /\ text[b].at <= text[s].at
    <3>1. text[b].at \in Nat /\ text[s].at \in Nat
      BY <1>1, <1>7, <2>3
    <3>2. b > g
      BY <1>3, <1>7, <1>8, <2>3
    <3> QED
      BY <1>3, <2>3, <3>1, <3>2
  <2>5. g \in Outer(text, b)
    <3>1. g \in Solid(text)
      BY <1>3, GroupLineIsHeader
    <3> QED
      BY <1>3, <2>4, <3>1 DEF Outer
  <2>6. ASSUME NEW x \in Outer(text, b) PROVE x <= g
    <3>1. x \in Solid(text) /\ x \in 1..Len(text) /\ x < b /\ text[x].at < text[b].at
      BY <1>2 DEF Outer
    <3>2. text[x].at \in Nat /\ text[b].at \in Nat /\ text[s].at \in Nat
      BY <1>1, <1>7, <2>3, <3>1
    <3>3. text[x].at < text[s].at
      BY <2>4, <3>1, <3>2
    <3>4. ~(g < x /\ x < s)
      BY <1>9, <3>1, <3>2, <3>3
    <3>5. x # s
      BY <3>2, <3>3
    <3>6. ~(x > s)
      <4>1. x > s => x \in bad
        BY <3>1, <3>2, <3>3
      <4>2. x \notin bad
        BY <2>2, <2>3, <3>1
      <4> QED
        BY <4>1, <4>2
    <3> QED
      BY <1>3, <1>7, <3>1, <3>4, <3>5, <3>6
  <2>7. ParentOf(text, b) \in Outer(text, b) /\ g <= ParentOf(text, b)
    BY <2>5, ParentIsLast
  <2>8. ParentOf(text, b) = g
    <3>1. ParentOf(text, b) <= g
      BY <2>6, <2>7
    <3>2. ParentOf(text, b) \in 1..Len(text)
      BY <1>2, <2>7 DEF Outer
    <3> QED
      BY <1>3, <2>7, <3>1, <3>2
  <2>9. b \in S
    BY <2>3, <2>8 DEF ChildrenOf
  <2> QED
    BY <1>6, <1>7, <2>3, <2>9
<1>11. LastSection(text, g, s)
  BY <1>5, <1>6, <1>7, <1>8, <1>9, <1>10 DEF LastSection
<1> QED
  BY <1>11

\* What the last section is.
LEMMA SectionKind ==
  ASSUME NEW text \in Seq(TextLine), Accepted(text), NEW name, NEW g, LastGroup(text, name, g),
         NEW s, LastSection(text, g, s)
  PROVE  /\ text[s].key \in {"aliases", "on", "triggers", "do"}
         /\ text[s].key = "on" =>
              /\ OnOf(text, ChildrenOf(text, g)) = s /\ ~TriggersFault(text, s)
              /\ ChildrenOf(text, s) # {} /\ \A j \in ChildrenOf(text, s) : text[j].item
         /\ text[s].key = "aliases" =>
              /\ ChildrenOf(text, s) # {}
              /\ \A j \in ChildrenOf(text, s) : ~text[j].item /\ text[j].val # ""
<1>1. Len(text) \in Nat /\ Solid(text) \in SUBSET (1..Len(text))
  BY SolidLines
<1> PICK S : S = ChildrenOf(text, g)
  OBVIOUS
<1>2. s \in S /\ s \in 1..Len(text) /\ (\A i \in S : i <= s) /\ ~text[s].item
  BY DEF LastSection
<1>3. g \in GroupLines(text) /\ WellFormed(text)
  BY DEF LastGroup, Accepted
<1>4. /\ {text[j].key : j \in S} \subseteq {"aliases", "on", "triggers", "do"}
      /\ OnOf(text, S) # 0 => ~TriggersFault(text, OnOf(text, S))
      /\ Find(text, S, "aliases") # 0 => ~AliasesFault(text, Find(text, S, "aliases"))
  BY <1>3 DEF Accepted, GroupFault
<1>5. S \in SUBSET (1..Len(text))
  BY ChildrenAreLines
<1>6. ASSUME NEW key, text[s].key = key PROVE Find(text, S, key) = s
  <2>1. Find(text, S, key) \in S /\ s <= Find(text, S, key)
    BY <1>2, <1>5, <1>6, FindIsLast
  <2>2. Find(text, S, key) <= s
    BY <1>2, <2>1
  <2>3. Find(text, S, key) \in 1..Len(text)
    BY <1>5, <2>1
  <2> QED
    BY <1>1, <1>2, <2>1, <2>2, <2>3
<1>7. s # 0
  BY <1>2
<1>8. text[s].key = "on" =>
        /\ OnOf(text, S) = s /\ ~TriggersFault(text, s)
        /\ ChildrenOf(text, s) # {} /\ \A j \in ChildrenOf(text, s) : text[j].item
  <2> HAVE text[s].key = "on"
  <2>1. OnOf(text, S) = s
    BY <1>6, <1>7 DEF OnOf
  <2>2. ~TriggersFault(text, s)
    BY <1>4, <1>7, <2>1
  <2>3. PICK c \in ChildrenOf(text, s) : text[c].item
    BY <2>2 DEF TriggersFault, IsList
  <2>4. c \in Solid(text) /\ ParentOf(text, c) = s
    BY <2>3, ChildrenAreLines
  <2>5. \A k \in ChildrenOf(text, ParentOf(text, c)) : text[k].item = text[c].item
    BY <1>2, <1>3, <1>7, <2>4 DEF WellFormed
  <2>6. ASSUME NEW j \in ChildrenOf(text, s) PROVE text[j].item
    BY <2>3, <2>4, <2>5
  <2> QED
    BY <2>1, <2>2, <2>3, <2>6
<1>9. text[s].key = "aliases" =>
        /\ ChildrenOf(text, s) # {}
        /\ \A j \in ChildrenOf(text, s) : ~text[j].item /\ text[j].val # ""
  <2> HAVE text[s].key = "aliases"
  <2>1. ~AliasesFault(text, s)
    BY <1>4, <1>6, <1>7
  <2> QED
    BY <2>1 DEF AliasesFault, IsList
<1> QED
  BY <1>2, <1>4, <1>8, <1>9

\* What stands right below the last section is an item or has a value.
LEMMA BelowLast ==
  ASSUME NEW text \in Seq(TextLine), Accepted(text), NEW name, NEW g, LastGroup(text, name, g),
         NEW s, LastSection(text, g, s), NEW c \in ChildrenOf(text, s)
  PROVE  text[c].item \/ text[c].val # ""
<1>1. Len(text) \in Nat /\ Solid(text) \in SUBSET (1..Len(text))
  BY SolidLines
<1>2. s \in 1..Len(text) /\ g < s /\ ~text[s].item /\ g \in 1..Len(text)
  BY DEF LastSection, LastGroup
<1>3. c \in Solid(text) /\ ParentOf(text, c) = s
  BY ChildrenAreLines
<1>4. WellFormed(text) /\ s # 0
  BY <1>2 DEF Accepted
<1>5. text[s].val = ""
  <2>1. text[ParentOf(text, c)].val = ""
    BY <1>2, <1>3, <1>4 DEF WellFormed
  <2> QED
    BY <1>3, <2>1
<1>6. IsHeader(text[s], text[s].key)
  BY <1>2, <1>5 DEF IsHeader
<1>11. s \in g + 1..Len(text)
  BY <1>1, <1>2
<1>7. text[s].key # "do" /\ text[s].key # "triggers"
  BY <1>6, <1>11 DEF LastGroup
<1>8. text[s].key = "on" => text[c].item
  BY SectionKind
<1>9. text[s].key = "aliases" => text[c].val # ""
  BY SectionKind
<1>10. text[s].key \in {"aliases", "on", "triggers", "do"}
  BY SectionKind
<1> QED
  BY <1>7, <1>8, <1>9, <1>10

\* An item in column 4 behind the text can only be one of the last section's, and that is "on".
LEMMA ItemUnderOn ==
  ASSUME NEW text \in Seq(TextLine), Accepted(text), NEW name, NEW g, LastGroup(text, name, g),
         NEW s, LastSection(text, g, s),
         NEW m \in Seq(TextLine), Begins(text, m), WellFormed(m),
         NEW j, j \in 1..Len(m), j = Len(text) + 1, m[j].item, m[j].at = 4
  PROVE  /\ ParentOf(m, j) = s /\ IsHeader(text[s], "on") /\ text[s].at < 4
<1>1. /\ Len(text) \in Nat /\ Solid(text) \in SUBSET (1..Len(text))
      /\ \A i \in 1..Len(text) : text[i].at \in Nat
  BY SolidLines
<1>2. /\ g \in 1..Len(text) /\ g \in Solid(text) /\ text[g].at = 0 /\ ParentOf(text, g) = 0
      /\ g \in GroupLines(text)
  BY GroupLineIsHeader DEF LastGroup
<1>3. /\ s \in 1..Len(text) /\ g < s /\ s \in ChildrenOf(text, g) /\ ~text[s].item /\ text[s].at > 0
      /\ s \in Solid(text)
  BY ChildrenAreLines DEF LastSection
<1>4. /\ \A i \in 1..Len(text) : m[i] = text[i] /\ (i \in Solid(m) <=> i \in Solid(text))
      /\ \A i : ChildrenOf(text, i) \subseteq ChildrenOf(m, i)
  BY BeginSame DEF Begins
<1>5. j \in Solid(m)
  <2>1. ~Blank.item
    BY DEF Blank, Line
  <2>2. m[j] # Blank
    BY <2>1
  <2>3. DOMAIN m = 1..Len(m)
    OBVIOUS
  <2> QED
    BY <2>2, <2>3 DEF Solid
<1> PICK p : p = ParentOf(m, j)
  OBVIOUS
<1>6. ASSUME NEW i \in Solid(text), text[i].at < 4 PROVE i \in Outer(m, j)
  BY <1>1, <1>4, <1>6 DEF Outer
<1>7. g \in Outer(m, j)
  BY <1>2, <1>6
<1>8. p \in Outer(m, j) /\ \A i \in Outer(m, j) : i <= p
  BY <1>7, ParentIsLast
<1>9. /\ p \in 1..Len(text) /\ p \in Solid(text) /\ text[p].at < 4 /\ text[p].at \in Nat /\ g <= p
      /\ p # 0 /\ m[p] = text[p]
  <2>1. p \in Solid(m) /\ p < j /\ m[p].at < 4
    BY <1>8 DEF Outer
  <2>2. p \in 1..Len(m)
    BY <2>1, SolidLines
  <2>3. p \in 1..Len(text)
    BY <1>1, <2>1, <2>2
  <2>4. m[p] = text[p] /\ p \in Solid(text) /\ text[p].at \in Nat
    BY <1>1, <1>4, <2>1, <2>3
  <2>5. text[p].at < 4
    BY <2>1, <2>4
  <2>6. p # 0
    BY <1>1, <2>3
  <2>7. g <= p
    BY <1>7, <1>8
  <2> QED
    BY <2>3, <2>4, <2>5, <2>6, <2>7
<1>10. ~text[p].item /\ text[p].val = "" /\ \A k \in ChildrenOf(text, p) : text[k].at = 4 /\ text[k].item
  <2>1. ~m[p].item
    BY <1>5, <1>9 DEF WellFormed
  <2>2. m[p].val = "" /\ \A k \in ChildrenOf(m, p) : m[k].at = m[j].at /\ m[k].item = m[j].item
    BY <1>5, <1>9, <2>1 DEF WellFormed
  <2>3. ASSUME NEW k \in ChildrenOf(text, p) PROVE text[k].at = 4 /\ text[k].item
    <3>1. k \in ChildrenOf(m, p) /\ k \in 1..Len(text)
      BY <1>4, ChildrenAreLines
    <3> QED
      BY <1>4, <2>2, <3>1
  <2> QED
    BY <1>9, <2>1, <2>2, <2>3
<1>11. p # g
  BY <1>3, <1>10
<1>12. ~(g < p /\ p < s)
  <2> SUFFICES ASSUME g < p, p < s PROVE FALSE
    OBVIOUS
  <2>1. text[p].at >= text[s].at
    BY <1>9 DEF LastSection
  <2>2. text[s].at < 4
    BY <1>1, <1>3, <1>9, <2>1
  <2>3. s <= p
    BY <1>3, <1>6, <1>8, <2>2
  <2> QED
    BY <1>1, <1>3, <1>9, <2>3
<1>13. ~(p > s)
  <2> SUFFICES ASSUME p > s PROVE FALSE
    OBVIOUS
  <2> PICK q : q = ParentOf(text, p)
    OBVIOUS
  <2>1. text[s].at \in Nat /\ text[s].at > 0 /\ text[p].at > text[s].at
    BY <1>1, <1>3, <1>9 DEF LastSection
  <2>2. s \in Outer(text, p)
    BY <1>3, <2>1 DEF Outer
  <2>3. q \in Outer(text, p) /\ s <= q
    BY <2>2, ParentIsLast
  <2>4. q \in Solid(text) /\ q \in 1..Len(text) /\ text[q].at < text[p].at /\ text[q].at \in Nat
    BY <1>1, <2>3 DEF Outer
  <2>5. q # s
    <3> SUFFICES ASSUME q = s PROVE FALSE
      OBVIOUS
    <3>1. p \in ChildrenOf(text, s)
      BY <1>9 DEF ChildrenOf
    <3> QED
      BY <1>10, <3>1, BelowLast
  <2>6. q > s
    BY <1>3, <2>3, <2>4, <2>5
  <2>7. text[q].at > text[s].at
    BY <2>4, <2>6 DEF LastSection
  <2>8. text[s].at = 1 /\ text[q].at = 2 /\ text[p].at = 3
    <3>1. \A x, y, z \in Nat : x > 0 /\ y > x /\ z > y /\ z < 4 => x = 1 /\ y = 2 /\ z = 3
      OBVIOUS
    <3>2. text[p].at \in Nat /\ text[p].at < 4
      BY <1>9
    <3> QED
      BY <2>1, <2>4, <2>7, <3>1, <3>2, Zenon
  <2> PICK r : r = ParentOf(text, q)
    OBVIOUS
  <2>9. s \in Outer(text, q)
    BY <1>3, <2>6, <2>7 DEF Outer
  <2>10. r \in Outer(text, q) /\ s <= r
    BY <2>9, ParentIsLast
  <2>11. r \in Solid(text) /\ r \in 1..Len(text) /\ text[r].at < 2
    BY <1>1, <2>8, <2>10 DEF Outer
  <2>12. r = s
    <3>1. ~(r > s)
      <4> SUFFICES ASSUME r > s PROVE FALSE
        OBVIOUS
      <4>1. text[r].at > 1 /\ text[r].at \in Nat
        BY <1>1, <2>8, <2>11 DEF LastSection
      <4> QED
        BY <2>11, <4>1
    <3> QED
      BY <1>3, <2>10, <2>11, <3>1
  <2>13. q \in ChildrenOf(text, s)
    BY <2>4, <2>12 DEF ChildrenOf
  <2>14. WellFormed(text) /\ q # 0
    BY <2>4 DEF Accepted
  <2>15. text[q].item => text[p].at = text[q].at + 2
    BY <1>9, <2>14 DEF WellFormed
  <2>16. ~text[q].item
    BY <2>8, <2>15
  <2>17. text[q].val = ""
    BY <1>9, <2>14, <2>16 DEF WellFormed
  <2> QED
    BY <2>13, <2>16, <2>17, BelowLast
<1>14. p = s
  BY <1>1, <1>2, <1>3, <1>9, <1>11, <1>12, <1>13
<1>15. text[s].key = "on"
  <2>1. IsHeader(text[s], text[s].key)
    BY <1>3, <1>10, <1>14 DEF IsHeader
  <2>5. s \in g + 1..Len(text)
    BY <1>1, <1>2, <1>3
  <2>2. text[s].key # "do" /\ text[s].key # "triggers"
    BY <2>1, <2>5 DEF LastGroup
  <2>3. text[s].key # "aliases"
    <3> SUFFICES ASSUME text[s].key = "aliases" PROVE FALSE
      OBVIOUS
    <3>1. ChildrenOf(text, s) # {} /\ \A k \in ChildrenOf(text, s) : ~text[k].item
      BY SectionKind
    <3> QED
      BY <1>10, <1>14, <3>1
  <2>4. text[s].key \in {"aliases", "on", "triggers", "do"}
    BY SectionKind
  <2> QED
    BY <2>2, <2>3, <2>4
<1>16. IsHeader(text[s], "on")
  BY <1>10, <1>14, <1>15 DEF IsHeader
<1> QED
  BY <1>9, <1>14, <1>16

-----------------------------------------------------------------------------
(* A text to which triggers and then actions are added at the end. *)

Grown(text, m, types, actions) ==
  /\ Begins(text, m)
  /\ Len(m) = IF actions = <<>> THEN Len(text) + Len(types) ELSE Len(text) + Len(types) + 1 + Len(actions)
  /\ \A k \in 1..Len(types) : m[Len(text) + k] = Item(4, "type", types[k])
  /\ actions # <<>> =>
       /\ m[Len(text) + Len(types) + 1] = Line(2, "do", "")
       /\ \A k \in 1..Len(actions) : m[Len(text) + Len(types) + 1 + k] = Item(4, "type", actions[k])

Grows(text, name, g, s, m, types, actions) ==
  /\ text \in Seq(TextLine) /\ Accepted(text) /\ LastGroup(text, name, g) /\ LastSection(text, g, s)
  /\ types \in Seq(Strings) /\ types # <<>> /\ actions \in Seq(Strings)
  /\ m \in Seq(TextLine) /\ WellFormed(m) /\ Grown(text, m, types, actions)

\* The lines, by their numbers: n are old, a are triggers, the line w is "do", b are actions.
Places(text, name, g, s, m, types, actions, n, a, w, b) ==
  /\ n = Len(text) /\ a = Len(types) /\ w = n + a + 1 /\ b = Len(actions)
  /\ n \in Nat /\ a \in Nat /\ a > 0 /\ b \in Nat /\ w \in Nat
  /\ g \in 1..n /\ s \in 1..n /\ g < s
  /\ actions = <<>> => Len(m) = n + a
  /\ actions # <<>> => Len(m) = w + b

LEMMA GrowsPlaces ==
  ASSUME NEW text, NEW name, NEW g, NEW s, NEW m, NEW types, NEW actions,
         Grows(text, name, g, s, m, types, actions)
  PROVE  \E n, a, w, b : Places(text, name, g, s, m, types, actions, n, a, w, b)
<1> DEFINE n == Len(text)
           a == Len(types)
           b == Len(actions)
<1>1. n \in Nat /\ a \in Nat /\ b \in Nat /\ a > 0
  BY DEF Grows
<1>2. g \in 1..n /\ s \in 1..n /\ g < s
  BY DEF Grows, LastGroup, LastSection
<1>3. /\ actions = <<>> => Len(m) = n + a
      /\ actions # <<>> => Len(m) = n + a + 1 + b
  BY DEF Grows, Grown
<1>4. Places(text, name, g, s, m, types, actions, n, a, n + a + 1, b)
  BY <1>1, <1>2, <1>3 DEF Places
<1> QED
  BY <1>4

\* What stands in them.
LEMMA GrowsLines ==
  ASSUME NEW text, NEW name, NEW g, NEW s, NEW m, NEW types, NEW actions,
         Grows(text, name, g, s, m, types, actions),
         NEW n, NEW a, NEW w, NEW b, Places(text, name, g, s, m, types, actions, n, a, w, b)
  PROVE  /\ \A i \in 1..n : m[i] = text[i] /\ (i \in Solid(m) <=> i \in Solid(text))
         /\ \A i \in n + 1..n + a : /\ i \in Solid(m) /\ m[i].item /\ m[i].at = 4
                                    /\ m[i].key = "type" /\ m[i].val = types[i - n]
         /\ actions # <<>> =>
              /\ w \in Solid(m) /\ m[w].at = 2 /\ ~m[w].item /\ m[w].key = "do"
              /\ \A i \in w + 1..w + b : /\ i \in Solid(m) /\ m[i].item /\ m[i].at = 4
                                         /\ m[i].key = "type" /\ m[i].val = actions[i - w]
<1>1. /\ text \in Seq(TextLine) /\ m \in Seq(TextLine) /\ Begins(text, m)
      /\ \A k \in 1..a : m[n + k] = Item(4, "type", types[k])
      /\ actions # <<>> =>
           /\ m[w] = Line(2, "do", "") /\ Len(m) = w + b
           /\ \A k \in 1..b : m[w + k] = Item(4, "type", actions[k])
  BY DEF Grows, Grown, Places
<1>2. n = Len(text) /\ n \in Nat /\ a \in Nat /\ b \in Nat /\ w \in Nat /\ w > n /\ Len(m) >= n + a
  BY DEF Places
<1>3. Solid(m) = {i \in 1..Len(m) : m[i] # Blank}
  <2>1. m \in Seq(TextLine)
    BY <1>1
  <2>2. DOMAIN m = 1..Len(m)
    BY <2>1
  <2> QED
    BY <2>2 DEF Solid
<1>4. \A i \in 1..n : m[i] = text[i] /\ (i \in Solid(m) <=> i \in Solid(text))
  BY <1>1, <1>2, BeginSame DEF Begins
<1>5. ASSUME NEW val PROVE /\ Item(4, "type", val).item /\ Item(4, "type", val).at = 4
                           /\ Item(4, "type", val).key = "type" /\ Item(4, "type", val).val = val
                           /\ Item(4, "type", val) # Blank
  BY DEF Item, Blank, Line
<1>6. /\ ~Line(2, "do", "").item /\ Line(2, "do", "").at = 2 /\ Line(2, "do", "").key = "do"
      /\ Line(2, "do", "") # Blank
  BY DEF Blank, Line
<1>7. ASSUME NEW i \in n + 1..n + a
      PROVE  /\ i \in Solid(m) /\ m[i].item /\ m[i].at = 4
             /\ m[i].key = "type" /\ m[i].val = types[i - n]
  <2>1. i - n \in 1..a /\ n + (i - n) = i /\ i \in 1..Len(m)
    BY <1>2
  <2>2. m[i] = Item(4, "type", types[i - n])
    BY <1>1, <2>1
  <2> QED
    BY <1>3, <1>5, <2>1, <2>2
<1>8. ASSUME actions # <<>>
      PROVE  /\ w \in Solid(m) /\ m[w].at = 2 /\ ~m[w].item /\ m[w].key = "do"
             /\ \A i \in w + 1..w + b : /\ i \in Solid(m) /\ m[i].item /\ m[i].at = 4
                                        /\ m[i].key = "type" /\ m[i].val = actions[i - w]
  <2>4. Len(m) = w + b
    BY <1>1, <1>8
  <2>5. w \in 1..Len(m)
    BY <1>2, <2>4
  <2>1. w \in 1..Len(m) /\ m[w] = Line(2, "do", "")
    BY <1>1, <1>8, <2>5
  <2>2. w \in Solid(m) /\ m[w].at = 2 /\ ~m[w].item /\ m[w].key = "do"
    BY <1>3, <1>6, <2>1
  <2>3. ASSUME NEW i \in w + 1..w + b
        PROVE  /\ i \in Solid(m) /\ m[i].item /\ m[i].at = 4
               /\ m[i].key = "type" /\ m[i].val = actions[i - w]
    <3>1. i - w \in 1..b /\ w + (i - w) = i /\ i \in 1..Len(m)
      BY <1>2, <2>4
    <3>2. m[i] = Item(4, "type", actions[i - w])
      BY <1>1, <1>8, <3>1
    <3> QED
      BY <1>3, <1>5, <3>1, <3>2
  <2> QED
    BY <2>2, <2>3
<1> QED
  BY <1>4, <1>7, <1>8

\* Lines with the same lines to the left of them in front have the same parent.
LEMMA SameOuter ==
  ASSUME NEW m, NEW i, NEW j, Outer(m, i) = Outer(m, j)
  PROVE  ParentOf(m, i) = ParentOf(m, j)
BY DEF Outer, ParentOf

\* The new triggers belong to "on".
LEMMA TriggerParents ==
  ASSUME NEW text, NEW name, NEW g, NEW s, NEW m, NEW types, NEW actions,
         Grows(text, name, g, s, m, types, actions),
         NEW n, NEW a, NEW w, NEW b, Places(text, name, g, s, m, types, actions, n, a, w, b)
  PROVE  /\ \A i \in n + 1..n + a : ParentOf(m, i) = s
         /\ IsHeader(text[s], "on") /\ text[s].at < 4
<1>1. /\ text \in Seq(TextLine) /\ Accepted(text) /\ LastGroup(text, name, g) /\ LastSection(text, g, s)
      /\ m \in Seq(TextLine) /\ WellFormed(m) /\ Begins(text, m)
  BY DEF Grows, Grown
<1>2. n = Len(text) /\ n \in Nat /\ a \in Nat /\ a > 0 /\ Len(m) \in Nat /\ Len(m) >= n + a
  BY DEF Places
<1>3. \A i \in n + 1..n + a : i \in Solid(m) /\ m[i].item /\ m[i].at = 4
  BY GrowsLines
<1> PICK j : j = n + 1
  OBVIOUS
<1>4. j \in n + 1..n + a /\ j \in 1..Len(m) /\ j = Len(text) + 1
  BY <1>2
<1>5. ParentOf(m, j) = s /\ IsHeader(text[s], "on") /\ text[s].at < 4
  BY <1>1, <1>3, <1>4, ItemUnderOn
<1>6. ASSUME NEW i \in n + 1..n + a PROVE ParentOf(m, i) = s
  <2>1. m[i].at = 4 /\ m[j].at = 4
    BY <1>3, <1>4
  <2>2. ASSUME NEW k \in Solid(m), k < i, m[k].at < 4 PROVE k < j
    <3>1. k \in 1..Len(m)
      BY <1>1, SolidLines
    <3>2. k \notin n + 1..n + a
      BY <1>3, <2>2
    <3> QED
      BY <1>2, <1>4, <2>2, <3>1, <3>2
  <2>3. ASSUME NEW k \in Solid(m), k < j PROVE k < i
    <3>1. k \in 1..Len(m)
      BY <1>1, SolidLines
    <3> QED
      BY <1>2, <1>4, <2>3, <3>1
  <2>4. Outer(m, i) = Outer(m, j)
    BY <2>1, <2>2, <2>3 DEF Outer
  <2> QED
    BY <1>5, <2>4, SameOuter
<1> QED
  BY <1>5, <1>6

\* The new "do" belongs to the group.
LEMMA DoParent ==
  ASSUME NEW text, NEW name, NEW g, NEW s, NEW m, NEW types, NEW actions,
         Grows(text, name, g, s, m, types, actions),
         NEW n, NEW a, NEW w, NEW b, Places(text, name, g, s, m, types, actions, n, a, w, b),
         actions # <<>>
  PROVE  ParentOf(m, w) = g
<1>1. /\ text \in Seq(TextLine) /\ Accepted(text) /\ LastGroup(text, name, g) /\ LastSection(text, g, s)
      /\ m \in Seq(TextLine) /\ WellFormed(m)
  BY DEF Grows
<1>2. /\ n = Len(text) /\ n \in Nat /\ a \in Nat /\ a > 0 /\ w \in Nat /\ w = n + a + 1
      /\ g \in 1..n /\ s \in 1..n /\ g < s
  BY DEF Places
<1>3. Solid(m) \in SUBSET (1..Len(m)) /\ \A i \in 1..n : text[i].at \in Nat
  BY <1>1, <1>2, SolidLines
<1>4. \A i \in 1..n : m[i] = text[i] /\ (i \in Solid(m) <=> i \in Solid(text))
  BY GrowsLines
<1>5. \A i \in n + 1..n + a : i \in Solid(m) /\ m[i].at = 4
  BY GrowsLines
<1>6. w \in Solid(m) /\ m[w].at = 2
  BY GrowsLines
<1>7. g \in Solid(text) /\ text[g].at = 0
  BY <1>1, GroupLineIsHeader DEF LastGroup
<1>8. s \in Solid(text) /\ text[s].at > 0 /\ ~text[s].item
  BY <1>1, ChildrenAreLines DEF LastSection
<1> PICK p : p = ParentOf(m, w)
  OBVIOUS
<1>9. g \in Outer(m, w)
  <2>1. g \in Solid(m) /\ m[g].at = 0 /\ g < w
    BY <1>2, <1>4, <1>7
  <2> QED
    BY <1>6, <2>1 DEF Outer
<1>10. p \in Outer(m, w) /\ \A i \in Outer(m, w) : i <= p
  BY <1>1, <1>9, ParentIsLast
<1>11. p \in 1..n /\ p \in Solid(text) /\ text[p].at < 2 /\ text[p].at \in Nat /\ g <= p
  <2>1. p \in Solid(m) /\ p < w /\ m[p].at < 2
    BY <1>6, <1>10 DEF Outer
  <2>2. p \in 1..Len(m) /\ p \notin n + 1..n + a
    BY <1>3, <1>5, <2>1
  <2>3. p \in 1..n
    BY <1>2, <2>1, <2>2
  <2>4. g <= p
    BY <1>9, <1>10
  <2> QED
    BY <1>3, <1>4, <2>1, <2>3, <2>4
<1>12. ~(g < p /\ p < s)
  <2> SUFFICES ASSUME g < p, p < s PROVE FALSE
    OBVIOUS
  <2>1. text[p].at >= text[s].at
    BY <1>1, <1>11 DEF LastSection
  <2>2. text[s].at < 2 /\ text[s].at \in Nat
    BY <1>2, <1>3, <1>11, <2>1
  <2>3. s \in Solid(m) /\ m[s].at < 2 /\ s < w
    BY <1>2, <1>4, <1>8, <2>2
  <2>4. s \in Outer(m, w)
    BY <1>6, <2>3 DEF Outer
  <2>5. s <= p
    BY <1>10, <2>4
  <2> QED
    BY <1>2, <1>11, <2>5
<1>13. p # s
  <2> SUFFICES ASSUME p = s PROVE FALSE
    OBVIOUS
  <2> PICK j : j = n + 1
    OBVIOUS
  <2>1. j \in n + 1..n + a
    BY <1>2
  <2>2. ParentOf(m, j) = s /\ j \in Solid(m) /\ m[j].at = 4
    BY <1>5, <2>1, TriggerParents
  <2>3. j \in ChildrenOf(m, s) /\ ~m[s].item /\ s # 0
    BY <1>2, <1>4, <1>8, <2>2 DEF ChildrenOf
  <2>4. m[j].at = m[w].at
    BY <1>1, <1>6, <2>3 DEF WellFormed
  <2> QED
    BY <1>6, <2>2, <2>4
<1>14. ~(p > s)
  <2> SUFFICES ASSUME p > s PROVE FALSE
    OBVIOUS
  <2>1. text[p].at > text[s].at
    BY <1>1, <1>11 DEF LastSection
  <2>2. text[s].at \in Nat
    BY <1>2, <1>3
  <2> QED
    BY <1>8, <1>11, <2>1, <2>2
<1> QED
  BY <1>2, <1>11, <1>12, <1>13, <1>14

\* The new actions belong to the new "do".
LEMMA ActionParents ==
  ASSUME NEW text, NEW name, NEW g, NEW s, NEW m, NEW types, NEW actions,
         Grows(text, name, g, s, m, types, actions),
         NEW n, NEW a, NEW w, NEW b, Places(text, name, g, s, m, types, actions, n, a, w, b),
         actions # <<>>, NEW i \in w + 1..w + b
  PROVE  ParentOf(m, i) = w
<1>1. m \in Seq(TextLine)
  BY DEF Grows
<1>2. w \in Nat /\ b \in Nat
  BY DEF Places
<1>3. w \in Solid(m) /\ m[w].at = 2 /\ \A k \in w + 1..w + b : m[k].at = 4
  BY GrowsLines
<1>4. w \in Outer(m, i)
  <2>1. w < i /\ m[i].at = 4
    BY <1>2, <1>3
  <2> QED
    BY <1>3, <2>1 DEF Outer
<1> PICK p : p = ParentOf(m, i)
  OBVIOUS
<1>5. p \in Outer(m, i) /\ w <= p
  BY <1>1, <1>4, ParentIsLast
<1>6. p \in Solid(m) /\ p < i /\ m[p].at < 4
  BY <1>3, <1>5 DEF Outer
<1>7. p \in Nat
  BY <1>1, <1>6, SolidLines
<1>8. p \notin w + 1..w + b
  BY <1>3, <1>6
<1> QED
  BY <1>2, <1>5, <1>6, <1>7, <1>8

\* What is nested in what.
LEMMA GrowsChildren ==
  ASSUME NEW text, NEW name, NEW g, NEW s, NEW m, NEW types, NEW actions,
         Grows(text, name, g, s, m, types, actions),
         NEW n, NEW a, NEW w, NEW b, Places(text, name, g, s, m, types, actions, n, a, w, b)
  PROVE  /\ \A i : i \notin {g, s, w} => ChildrenOf(m, i) = ChildrenOf(text, i)
         /\ ChildrenOf(m, s) = ChildrenOf(text, s) \union (n + 1..n + a)
         /\ ChildrenOf(m, g) = ChildrenOf(text, g) \union (IF actions = <<>> THEN {} ELSE {w})
         /\ actions # <<>> => ChildrenOf(m, w) = w + 1..w + b
<1>1. text \in Seq(TextLine) /\ m \in Seq(TextLine) /\ Begins(text, m)
  BY DEF Grows, Grown
<1>2. /\ n = Len(text) /\ n \in Nat /\ a \in Nat /\ w \in Nat /\ w = n + a + 1 /\ b \in Nat
      /\ g \in 1..n /\ s \in 1..n /\ g < s
      /\ actions = <<>> => Len(m) = n + a
      /\ actions # <<>> => Len(m) = w + b
  BY DEF Places
<1>3. Solid(m) \in SUBSET (1..Len(m))
  BY <1>1, SolidLines
<1> DEFINE new == IF actions = <<>> THEN {} ELSE {w}
           below == IF actions = <<>> THEN {} ELSE w + 1..w + b
<1>4. \A i : ChildrenOf(text, i) = {j \in ChildrenOf(m, i) : j <= n}
  BY <1>1, <1>2, BeginSame
<1>5. /\ n + 1..n + a \subseteq Solid(m)
      /\ \A j \in n + 1..n + a : ParentOf(m, j) = s
  BY GrowsLines, TriggerParents
<1>6. /\ new \subseteq Solid(m)
      /\ \A j \in new : ParentOf(m, j) = g
  BY GrowsLines, DoParent
<1>7. /\ below \subseteq Solid(m)
      /\ \A j \in below : ParentOf(m, j) = w
  BY GrowsLines, ActionParents
<1>8. ASSUME NEW j \in Solid(m), ~(j <= n) PROVE j \in (n + 1..n + a) \union new \union below
  BY <1>2, <1>3, <1>8
<1>9. g # s /\ g # w /\ s # w
  BY <1>2
<1>10. ASSUME NEW i, i \notin {g, s, w} PROVE ChildrenOf(m, i) = ChildrenOf(text, i)
  <2>1. ASSUME NEW j \in ChildrenOf(m, i) PROVE j <= n
    <3>1. j \in Solid(m) /\ ParentOf(m, j) = i
      BY DEF ChildrenOf
    <3> QED
      BY <1>5, <1>6, <1>7, <1>8, <1>10, <3>1
  <2> QED
    BY <1>4, <2>1
<1> HIDE DEF new, below
<1>11. ChildrenOf(m, s) = ChildrenOf(text, s) \union (n + 1..n + a)
  <2>1. ASSUME NEW j \in ChildrenOf(m, s) PROVE j <= n \/ j \in n + 1..n + a
    <3>1. j \in Solid(m) /\ ParentOf(m, j) = s
      BY DEF ChildrenOf
    <3> QED
      BY <1>6, <1>7, <1>8, <1>9, <3>1
  <2>2. n + 1..n + a \subseteq ChildrenOf(m, s)
    BY <1>5 DEF ChildrenOf
  <2> QED
    BY <1>4, <2>1, <2>2
<1>12. ChildrenOf(m, g) = ChildrenOf(text, g) \union new
  <2>1. ASSUME NEW j \in ChildrenOf(m, g) PROVE j <= n \/ j \in new
    <3>1. j \in Solid(m) /\ ParentOf(m, j) = g
      BY DEF ChildrenOf
    <3> QED
      BY <1>5, <1>7, <1>8, <1>9, <3>1
  <2>2. new \subseteq ChildrenOf(m, g)
    BY <1>6 DEF ChildrenOf
  <2> QED
    BY <1>4, <2>1, <2>2
<1>13. ASSUME actions # <<>> PROVE ChildrenOf(m, w) = below
  <2>1. ChildrenOf(text, w) = {}
    <3> SUFFICES ASSUME NEW j \in ChildrenOf(text, w) PROVE FALSE
      OBVIOUS
    <3>1. j \in Solid(text) /\ ParentOf(text, j) = w
      BY DEF ChildrenOf
    <3>2. w < j
      BY <1>1, <1>2, <3>1, ParentIsSolid
    <3>3. j \in 1..n
      BY <1>1, <1>2, <3>1, SolidLines
    <3> QED
      BY <1>2, <3>2, <3>3
  <2>2. ASSUME NEW j \in ChildrenOf(m, w) PROVE j \in below
    <3>1. j \in Solid(m) /\ ParentOf(m, j) = w
      BY DEF ChildrenOf
    <3>2. ~(j <= n)
      BY <1>4, <2>1
    <3> QED
      BY <1>5, <1>6, <1>8, <1>9, <3>1, <3>2
  <2>3. below \subseteq ChildrenOf(m, w)
    BY <1>7 DEF ChildrenOf
  <2> QED
    BY <2>2, <2>3
<1>14. actions # <<>> => ChildrenOf(m, w) = w + 1..w + b
  BY <1>13 DEF below
<1>15. ChildrenOf(m, g) = ChildrenOf(text, g) \union (IF actions = <<>> THEN {} ELSE {w})
  BY <1>12 DEF new
<1> QED
  BY <1>10, <1>11, <1>14, <1>15

\* All but the group and its last section stays as it is.
LEMMA GrowsCopies ==
  ASSUME NEW text, NEW name, NEW g, NEW s, NEW m, NEW types, NEW actions,
         Grows(text, name, g, s, m, types, actions),
         NEW n, NEW a, NEW w, NEW b, Places(text, name, g, s, m, types, actions, n, a, w, b)
  PROVE  Copied(text, m, 0, (1..n) \ {g, s})
<1> PICK D : D = (1..n) \ {g, s}
  OBVIOUS
<1>1. text \in Seq(TextLine) /\ m \in Seq(TextLine) /\ LastGroup(text, name, g) /\ LastSection(text, g, s)
  BY DEF Grows
<1>2. n = Len(text) /\ n \in Nat /\ a \in Nat /\ w = n + a + 1 /\ g \in 1..n /\ Len(m) >= n /\ Len(m) \in Nat
  <2>1. Len(m) \in Nat
    BY <1>1
  <2> QED
    BY <2>1 DEF Places
<1>3. ParentOf(text, g) = 0 /\ ParentOf(text, s) = g
  BY <1>1, ChildrenAreLines DEF LastGroup, LastSection
<1>4. ASSUME NEW i \in D
      PROVE  /\ 0 + i \in 1..Len(m) /\ m[0 + i] = text[i]
             /\ ChildrenOf(text, i) \subseteq D
             /\ ChildrenOf(m, 0 + i) = Shifted(ChildrenOf(text, i), 0)
  <2>1. 0 + i = i /\ i \in 1..n /\ i \in 1..Len(m) /\ i # 0 /\ i \notin {g, s, w}
    BY <1>2
  <2>2. m[i] = text[i]
    BY <2>1, GrowsLines
  <2>3. ChildrenOf(m, i) = ChildrenOf(text, i)
    BY <2>1, GrowsChildren
  <2>4. ChildrenOf(text, i) \in SUBSET (1..n) /\ \A j \in ChildrenOf(text, i) : ParentOf(text, j) = i
    BY <1>1, <1>2, ChildrenAreLines
  <2>5. ChildrenOf(text, i) \subseteq D
    BY <1>3, <2>1, <2>4
  <2>6. Shifted(ChildrenOf(text, i), 0) = ChildrenOf(text, i)
    BY <1>2, <2>4, ShiftedByNone
  <2> QED
    BY <2>1, <2>2, <2>3, <2>5, <2>6
<1>5. D \in SUBSET (1..Len(text))
  BY <1>2
<1>6. Copied(text, m, 0, D)
  BY <1>4, <1>5 DEF Copied
<1> QED
  BY <1>6

-----------------------------------------------------------------------------
(* What is read from the text that has grown. *)

\* A list of consecutive lines behind others.
LEMMA InOrderOfAll ==
  ASSUME NEW n \in Nat
  PROVE  InOrder(1..n) \in Seq(1..n) /\ Len(InOrder(1..n)) = n /\ \A k \in 1..n : InOrder(1..n)[k] = k
<1> PICK S : S = 1..n
  OBVIOUS
<1>1. \A i \in S : Rank(i, S) = i
  <2> TAKE i \in S
  <2>1. {j \in S : j <= i} = 1..i
    OBVIOUS
  <2>2. Cardinality(1..i) = i
    BY FS_Interval
  <2> QED
    BY <2>1, <2>2 DEF Rank
<1>2. Cardinality(S) = n
  BY FS_Interval
<1>3. /\ InOrder(S) \in Seq(S) /\ Len(InOrder(S)) = n
      /\ \A k \in 1..n : InOrder(S)[k] \in S /\ Rank(InOrder(S)[k], S) = k
  BY <1>2, InOrderLists
<1> QED
  BY <1>1, <1>3

LEMMA InOrderExtended ==
  ASSUME NEW n \in Nat, NEW a \in Nat, NEW S \in SUBSET (1..n)
  PROVE  /\ Cardinality(S) \in Nat
         /\ DOMAIN InOrder(S) = 1..Cardinality(S)
         /\ \A k \in 1..Cardinality(S) : InOrder(S)[k] \in S
         /\ DOMAIN InOrder(S \union (n + 1..n + a)) = 1..Cardinality(S) + a
         /\ \A k \in 1..Cardinality(S) : InOrder(S \union (n + 1..n + a))[k] = InOrder(S)[k]
         /\ \A k \in 1..a : InOrder(S \union (n + 1..n + a))[Cardinality(S) + k] = n + k
<1> PICK T, s, x, y, z : T = n + 1..n + a /\ s = Cardinality(S)
                         /\ x = InOrder(S) /\ y = InOrder(T) /\ z = InOrder(S \union T)
  OBVIOUS
<1>1. s \in Nat /\ x \in Seq(S) /\ Len(x) = s
  BY InOrderLists
<1>2. T = Shifted(1..a, n)
  <2>1. ASSUME NEW i \in T PROVE i \in Shifted(1..a, n)
    <3>1. i - n \in 1..a /\ n + (i - n) = i
      OBVIOUS
    <3> QED
      BY <3>1 DEF Shifted
  <2>2. ASSUME NEW i \in Shifted(1..a, n) PROVE i \in T
    BY <2>2 DEF Shifted
  <2> QED
    BY <2>1, <2>2
<1>3. DOMAIN y = 1..a /\ \A k \in 1..a : y[k] = n + k
  <2> PICK A : A = 1..a
    OBVIOUS
  <2>1. InOrder(A) \in Seq(A) /\ Len(InOrder(A)) = a /\ \A k \in 1..a : InOrder(A)[k] = k
    BY InOrderOfAll
  <2>2. DOMAIN InOrder(A) = 1..a
    BY <2>1
  <2>3. DOMAIN y = DOMAIN InOrder(A) /\ \A k \in DOMAIN InOrder(A) : y[k] = n + InOrder(A)[k]
    BY <1>2, ShiftedInOrder, ZenonT(30)
  <2> QED
    BY <2>1, <2>2, <2>3
<1>4. T \in SUBSET (1..n + a) /\ S \in SUBSET (1..n + a) /\ n + a \in Nat /\ \A i \in S, j \in T : i < j
  OBVIOUS
<1>5. z = x \o y
  BY <1>4, InOrderJoined
<1>6. y \in Seq(T) /\ Len(y) = a
  <2>1. y \in Seq(T)
    BY <1>4, InOrderLists
  <2> QED
    BY <1>3, <2>1
<1> PICK U : U = S \union T
  OBVIOUS
<1>7. x \in Seq(U) /\ y \in Seq(U)
  BY <1>1, <1>6, SMTT(30)
<1>8. /\ z \in Seq(U) /\ Len(z) = s + a
      /\ \A k \in 1..s + a : z[k] = IF k <= s THEN x[k] ELSE y[k - s]
  <2>1. /\ x \o y \in Seq(U) /\ Len(x \o y) = Len(x) + Len(y)
        /\ \A k \in 1..Len(x) + Len(y) : (x \o y)[k] = IF k <= Len(x) THEN x[k] ELSE y[k - Len(x)]
    BY <1>7, Joined
  <2> QED
    BY <1>1, <1>5, <1>6, <2>1
<1>9. \A k \in 1..s : k \in 1..s + a /\ k <= s
  BY <1>1
<1>10. \A k \in 1..a : s + k \in 1..s + a /\ ~(s + k <= s) /\ (s + k) - s = k
  BY <1>1
<1>11. \A k \in 1..s : x[k] \in S
  BY <1>1
<1>12. DOMAIN x = 1..s /\ DOMAIN z = 1..s + a
  BY <1>1, <1>8
<1>13. \A k \in 1..s : z[k] = x[k]
  BY <1>8, <1>9
<1>14. \A k \in 1..a : z[s + k] = n + k
  <2> TAKE k \in 1..a
  <2> PICK i : i = s + k
    OBVIOUS
  <2>1. i \in 1..s + a /\ ~(i <= s) /\ i - s = k
    BY <1>10
  <2>2. z[i] = y[i - s]
    BY <1>8, <2>1
  <2> QED
    BY <1>3, <2>1, <2>2
<1> QED
  BY <1>1, <1>11, <1>12, <1>13, <1>14

\* The same, with names for the lists.
Extends(S, n, a, c, items, all) ==
  /\ c \in Nat /\ DOMAIN items = 1..c /\ DOMAIN all = 1..c + a
  /\ \A k \in 1..c : items[k] \in S /\ all[k] = items[k]
  /\ \A k \in 1..a : all[c + k] = n + k

LEMMA ListExtended ==
  ASSUME NEW n \in Nat, NEW a \in Nat, NEW S \in SUBSET (1..n), NEW T, T = S \union (n + 1..n + a)
  PROVE  Extends(S, n, a, Cardinality(S), InOrder(S), InOrder(T))
<1>1. /\ Cardinality(S) \in Nat
      /\ DOMAIN InOrder(S) = 1..Cardinality(S)
      /\ \A k \in 1..Cardinality(S) : InOrder(S)[k] \in S
      /\ DOMAIN InOrder(S \union (n + 1..n + a)) = 1..Cardinality(S) + a
      /\ \A k \in 1..Cardinality(S) : InOrder(S \union (n + 1..n + a))[k] = InOrder(S)[k]
      /\ \A k \in 1..a : InOrder(S \union (n + 1..n + a))[Cardinality(S) + k] = n + k
  BY InOrderExtended, ZenonT(30)
<1>2. Extends(S, n, a, Cardinality(S), InOrder(S), InOrder(S \union (n + 1..n + a)))
  BY <1>1 DEF Extends
<1> QED
  BY <1>2

LEMMA NothingBehind ==
  ASSUME NEW text \in Seq(TextLine), NEW i, i \notin 0..Len(text)
  PROVE  ChildrenOf(text, i) = {}
<1> SUFFICES ASSUME NEW j \in ChildrenOf(text, i) PROVE FALSE
  OBVIOUS
<1>1. j \in Solid(text) /\ ParentOf(text, j) = i
  BY DEF ChildrenOf
<1>2. CASE i = 0
  BY <1>2, SolidLines
<1>3. CASE i # 0
  <2>1. i \in Solid(text)
    BY <1>1, <1>3, ParentIsSolid
  <2> QED
    BY <2>1, SolidLines
<1> QED
  BY <1>2, <1>3

\* What an item without anything below it says.
LEMMA BareItem ==
  ASSUME NEW m \in Seq(TextLine), NEW i \in 1..Len(m), ChildrenOf(m, i) = {}, m[i].key = "type"
  PROVE  /\ TriggerAt(m, i) = [type |-> m[i].val, actions |-> <<>>]
         /\ ActionAt(m, i) = m[i].val
<1> PICK S : S = {i}
  OBVIOUS
<1>1. EntriesOf(m, i) = S /\ S \in SUBSET (1..Len(m))
  BY DEF EntriesOf
<1>2. Find(m, S, "type") = i /\ i # 0
  <2>1. Find(m, S, "type") \in S
    BY <1>1, FindIsLast
  <2>2. Len(m) \in Nat
    OBVIOUS
  <2> QED
    BY <2>1, <2>2
<1>3. Find(m, S, "do") = 0
  <2>1. "do" # "type"
    OBVIOUS
  <2> QED
    BY <1>1, <2>1, FindIsLast
<1>4. ParseActions(m, 0) = <<>>
  BY DEF ParseActions
<1> QED
  BY <1>1, <1>2, <1>3, <1>4 DEF TriggerAt, ActionAt

\* The triggers and the actions that were added, as they are read.
LEMMA GrownItems ==
  ASSUME NEW text, NEW name, NEW g, NEW s, NEW m, NEW types, NEW actions,
         Grows(text, name, g, s, m, types, actions),
         NEW n, NEW a, NEW w, NEW b, Places(text, name, g, s, m, types, actions, n, a, w, b)
  PROVE  /\ \A k \in 1..a : TriggerAt(m, n + k) = [type |-> types[k], actions |-> <<>>]
         /\ actions # <<>> => \A k \in 1..b : ActionAt(m, w + k) = actions[k]
<1>1. text \in Seq(TextLine) /\ m \in Seq(TextLine)
  BY DEF Grows
<1>2. /\ n = Len(text) /\ n \in Nat /\ a \in Nat /\ w \in Nat /\ w = n + a + 1 /\ b \in Nat
      /\ g \in 1..n /\ s \in 1..n
      /\ actions = <<>> => Len(m) = n + a
      /\ actions # <<>> => Len(m) = w + b
  BY DEF Places
<1>3. ASSUME NEW i \in Nat, i > n, i # w PROVE ChildrenOf(m, i) = {}
  <2>1. i \notin {g, s, w} /\ i \notin 0..Len(text)
    BY <1>2, <1>3
  <2>2. ChildrenOf(m, i) = ChildrenOf(text, i)
    BY <2>1, GrowsChildren
  <2> QED
    BY <1>1, <2>1, <2>2, NothingBehind
<1>4. ASSUME NEW k \in 1..a PROVE TriggerAt(m, n + k) = [type |-> types[k], actions |-> <<>>]
  <2> PICK i : i = n + k
    OBVIOUS
  <2>1. i \in Nat /\ i > n /\ i # w /\ i \in n + 1..n + a /\ i - n = k /\ i \in 1..Len(m)
    BY <1>2
  <2>2. ChildrenOf(m, i) = {}
    BY <1>3, <2>1
  <2>3. m[i].key = "type" /\ m[i].val = types[i - n]
    BY <2>1, GrowsLines
  <2> QED
    BY <1>1, <2>1, <2>2, <2>3, BareItem
<1>5. ASSUME actions # <<>>, NEW k \in 1..b PROVE ActionAt(m, w + k) = actions[k]
  <2> PICK i : i = w + k
    OBVIOUS
  <2>1. i \in Nat /\ i > n /\ i # w /\ i \in w + 1..w + b /\ i - w = k /\ i \in 1..Len(m)
    BY <1>2, <1>5
  <2>2. ChildrenOf(m, i) = {}
    BY <1>3, <2>1
  <2>3. m[i].key = "type" /\ m[i].val = actions[i - w]
    BY <1>5, <2>1, GrowsLines
  <2> QED
    BY <1>1, <2>1, <2>2, <2>3, BareItem
<1> QED
  BY <1>4, <1>5

\* Triggers of some types that have no actions of their own.
BareTriggers(types) == [k \in DOMAIN types |-> [type |-> types[k], actions |-> <<>>]]

LEMMA GrownTriggers ==
  ASSUME NEW text, NEW name, NEW g, NEW s, NEW m, NEW types, NEW actions,
         Grows(text, name, g, s, m, types, actions),
         NEW n, NEW a, NEW w, NEW b, Places(text, name, g, s, m, types, actions, n, a, w, b)
  PROVE  ParseTriggers(m, s) = ParseTriggers(text, s) \o BareTriggers(types)
<1>1. /\ text \in Seq(TextLine) /\ m \in Seq(TextLine) /\ Accepted(text)
      /\ LastGroup(text, name, g) /\ LastSection(text, g, s) /\ types \in Seq(Strings)
  BY DEF Grows
<1>2. n = Len(text) /\ a = Len(types) /\ n \in Nat /\ a \in Nat /\ g \in 1..n /\ s \in 1..n
  BY DEF Places
<1> PICK S, c, D : S = ChildrenOf(text, s) /\ c = Cardinality(S) /\ D = (1..n) \ {g, s}
  OBVIOUS
<1>3. S \in SUBSET (1..n) /\ \A i \in S : ParentOf(text, i) = s
  BY <1>1, <1>2, ChildrenAreLines
<1> PICK items, all : items = InOrder(S) /\ all = InOrder(S \union (n + 1..n + a))
  OBVIOUS
<1>4. /\ c \in Nat /\ DOMAIN items = 1..c /\ DOMAIN all = 1..c + a
      /\ \A k \in 1..c : items[k] \in S /\ all[k] = items[k]
      /\ \A k \in 1..a : all[c + k] = n + k
  <2> PICK T : T = S \union (n + 1..n + a)
    OBVIOUS
  <2>1. n \in Nat /\ a \in Nat /\ S \in SUBSET (1..n)
    BY <1>2, <1>3
  <2>2. Extends(S, n, a, Cardinality(S), InOrder(S), InOrder(T))
    BY <2>1, ListExtended
  <2>3. Extends(S, n, a, c, items, all)
    BY <2>2
  <2> QED
    BY <2>3 DEF Extends
<1>5. ChildrenOf(m, s) = S \union (n + 1..n + a)
  BY GrowsChildren
<1> PICK x, y, z : x = ParseTriggers(text, s) /\ y = BareTriggers(types) /\ z = ParseTriggers(m, s)
  OBVIOUS
<1>6. x = [k \in 1..c |-> TriggerAt(text, items[k])]
  BY <1>4 DEF ParseTriggers
<1>7. z = [k \in 1..c + a |-> TriggerAt(m, all[k])]
  BY <1>4, <1>5 DEF ParseTriggers
<1>8. y = [k \in 1..a |-> [type |-> types[k], actions |-> <<>>]]
  <2>1. DOMAIN types = 1..a
    BY <1>1, <1>2
  <2> QED
    BY <2>1 DEF BareTriggers
<1>9. ~TriggersFault(text, s)
  <2>2. IsHeader(text[s], "on")
    BY TriggerParents
  <2>1. text[s].key = "on"
    BY <2>2 DEF IsHeader
  <2> QED
    BY <1>1, <2>1, SectionKind
<1>10. ASSUME NEW k \in 1..c PROVE TriggerAt(m, all[k]) = TriggerAt(text, items[k])
  <2> PICK i, d : i = items[k] /\ d = 0
    OBVIOUS
  <2>1. i \in S /\ i \in 1..n /\ ParentOf(text, i) = s
    BY <1>3, <1>4
  <2>2. i # g /\ i # s
    <3>1. ParentOf(text, g) = 0 /\ ParentOf(text, s) = g /\ g # s
      BY <1>1, ChildrenAreLines DEF LastGroup, LastSection
    <3>2. s # 0
      BY <1>2
    <3> QED
      BY <2>1, <3>1, <3>2
  <2>3. ~TriggerFault(text, i)
    BY <1>9, <2>1 DEF TriggersFault
  <2>4. Copied(text, m, d, D) /\ d \in Nat /\ i \in D /\ d + i = i
    BY <1>2, <2>1, <2>2, GrowsCopies
  <2>5. TriggerAt(m, d + i) = TriggerAt(text, i)
    BY <1>1, <2>3, <2>4, CopiedTrigger
  <2> QED
    BY <1>4, <2>4, <2>5
<1>11. ASSUME NEW k \in 1..a PROVE TriggerAt(m, all[c + k]) = [type |-> types[k], actions |-> <<>>]
  <2>1. TriggerAt(m, n + k) = [type |-> types[k], actions |-> <<>>]
    BY GrownItems
  <2>2. all[c + k] = n + k
    BY <1>4
  <2> QED
    BY <2>1, <2>2
<1>12. IsListOf(c, x) /\ IsListOf(a, y) /\ IsListOf(c + a, z)
  BY <1>6, <1>7, <1>8 DEF IsListOf
<1>13. \A k \in 1..c : z[k] = x[k]
  <2> TAKE k \in 1..c
  <2>1. k \in 1..c + a
    BY <1>2, <1>4
  <2>2. z[k] = TriggerAt(m, all[k])
    BY <1>7, <2>1
  <2>3. x[k] = TriggerAt(text, items[k])
    BY <1>6
  <2> QED
    BY <1>10, <2>2, <2>3
<1>14. \A k \in 1..a : z[c + k] = y[k]
  <2> TAKE k \in 1..a
  <2>1. c + k \in 1..c + a
    BY <1>2, <1>4
  <2>2. z[c + k] = TriggerAt(m, all[c + k])
    BY <1>7, <2>1
  <2>3. y[k] = [type |-> types[k], actions |-> <<>>]
    BY <1>8
  <2> QED
    BY <1>11, <2>2, <2>3
<1>15. InParts(z, c, x, a, y)
  BY <1>12, <1>13, <1>14 DEF InParts
<1>16. z = x \o y
  BY <1>2, <1>4, <1>15, FunctionsJoined
<1> QED
  BY <1>16

LEMMA GrownActions ==
  ASSUME NEW text, NEW name, NEW g, NEW s, NEW m, NEW types, NEW actions,
         Grows(text, name, g, s, m, types, actions),
         NEW n, NEW a, NEW w, NEW b, Places(text, name, g, s, m, types, actions, n, a, w, b),
         actions # <<>>
  PROVE  ParseActions(m, w) = actions
<1>1. m \in Seq(TextLine) /\ actions \in Seq(Strings)
  BY DEF Grows
<1>2. w \in Nat /\ w > 0 /\ b \in Nat /\ b = Len(actions)
  BY DEF Places
<1> PICK S, none : S = {} /\ none = InOrder({} \union (w + 1..w + b))
  OBVIOUS
<1>3. S \in SUBSET (1..w) /\ Cardinality(S) = 0
  BY FS_EmptySet
<1> PICK T, items : T = w + 1..w + b /\ items = InOrder(T)
  OBVIOUS
<1>4. S \union T = T
  OBVIOUS
<1>5. DOMAIN items = 1..0 + b /\ \A k \in 1..b : items[0 + k] = w + k
  BY <1>2, <1>3, <1>4, InOrderExtended, SMTT(30)
<1>6. DOMAIN items = 1..b /\ \A k \in 1..b : items[k] = w + k
  <2>1. 0 + b = b /\ \A k \in 1..b : 0 + k = k
    BY <1>2
  <2> QED
    BY <1>5, <2>1
<1>7. ChildrenOf(m, w) = T
  BY GrowsChildren
<1>8. ParseActions(m, w) = [k \in 1..b |-> ActionAt(m, items[k])]
  BY <1>2, <1>6, <1>7 DEF ParseActions
<1>9. \A k \in 1..b : ActionAt(m, items[k]) = actions[k]
  BY <1>6, GrownItems
<1>10. actions = [k \in 1..b |-> actions[k]]
  <2> actions \in Seq(Strings) /\ b = Len(actions)
    BY <1>1, <1>2
  <2> QED
    OBVIOUS
<1>11. [k \in 1..b |-> ActionAt(m, items[k])] = [k \in 1..b |-> actions[k]]
  BY <1>9
<1> QED
  BY <1>8, <1>10, <1>11

\* The last of some lines with a key, or 0.
LastWith(text, lines, key, f) ==
  \/ f = 0 /\ \A i \in lines : text[i].key # key
  \/ f \in lines /\ text[f].key = key /\ \A i \in lines : text[i].key = key => i <= f

LEMMA FindsLastWith ==
  ASSUME NEW text \in Seq(TextLine), NEW lines \in SUBSET (1..Len(text)), NEW key
  PROVE  LastWith(text, lines, key, Find(text, lines, key))
BY FindIsLast DEF LastWith

\* The last group has no actions of its own.
LEMMA NoActionsYet ==
  ASSUME NEW text \in Seq(TextLine), Accepted(text), NEW name, NEW g, LastGroup(text, name, g)
  PROVE  \A i \in ChildrenOf(text, g) : text[i].key # "do"
<1> SUFFICES ASSUME NEW i \in ChildrenOf(text, g), text[i].key = "do" PROVE FALSE
  OBVIOUS
<1> PICK S, f : S = ChildrenOf(text, g) /\ f = Find(text, S, "do")
  OBVIOUS
<1>1. Len(text) \in Nat /\ S \in SUBSET (1..Len(text)) /\ WellFormed(text)
  BY SolidLines, ChildrenAreLines DEF Accepted
<1>2. g \in GroupLines(text) /\ g \in 1..Len(text) /\ g # 0
  <2>1. g \in GroupLines(text) /\ g \in 1..Len(text)
    BY DEF LastGroup
  <2> QED
    BY <1>1, <2>1
<1>3. /\ Find(text, S, "do") # 0 => ~ActionsFault(text, Find(text, S, "do"))
      /\ ~IsList(text, g)
  BY <1>2 DEF Accepted, GroupFault
<1>4. f \in S /\ text[f].key = "do"
  BY <1>1, FindIsLast
<1>5. f \in 1..Len(text) /\ f # 0 /\ f \in Solid(text) /\ ParentOf(text, f) = g /\ ~text[f].item
  BY <1>1, <1>3, <1>4, ChildrenAreLines DEF IsList
<1>6. PICK c \in ChildrenOf(text, f) : text[c].item
  BY <1>3, <1>5 DEF ActionsFault, IsList
<1>7. c \in Solid(text) /\ ParentOf(text, c) = f
  BY ChildrenAreLines
<1>8. text[ParentOf(text, c)].val = ""
  BY <1>1, <1>5, <1>7 DEF WellFormed
<1>9. IsHeader(text[f], "do")
  BY <1>4, <1>5, <1>7, <1>8 DEF IsHeader
<1>10. g < f
  BY <1>2, <1>5, ParentIsSolid
<1>11. f \in g + 1..Len(text)
  BY <1>1, <1>2, <1>5, <1>10
<1> QED
  BY <1>9, <1>11 DEF LastGroup

\* The group is extended.
LEMMA GrownGroup ==
  ASSUME NEW text, NEW name, NEW g, NEW s, NEW m, NEW types, NEW actions,
         Grows(text, name, g, s, m, types, actions)
  PROVE  /\ ParseGroup(m, g) =
              [name     |-> text[g].key,
               aliases  |-> ParseGroup(text, g).aliases,
               triggers |-> ParseGroup(text, g).triggers \o BareTriggers(types),
               actions  |-> actions]
         /\ ParseGroup(text, g).actions = <<>>
<1> PICK n, a, w, b : Places(text, name, g, s, m, types, actions, n, a, w, b)
  BY GrowsPlaces
<1>1. /\ text \in Seq(TextLine) /\ m \in Seq(TextLine) /\ Accepted(text)
      /\ LastGroup(text, name, g) /\ LastSection(text, g, s)
  BY DEF Grows
<1>2. /\ n = Len(text) /\ n \in Nat /\ a \in Nat /\ w = n + a + 1 /\ w \in Nat /\ w # 0
      /\ g \in 1..n /\ s \in 1..n /\ g < s
      /\ (actions # <<>> => Len(m) >= w) /\ Len(m) >= n
  BY DEF Places
<1> PICK S, new, T, D, d : /\ S = ChildrenOf(text, g) /\ new = (IF actions = <<>> THEN {} ELSE {w})
                           /\ T = S \union new /\ D = (1..n) \ {g, s} /\ d = 0
  OBVIOUS
<1>3. ChildrenOf(m, g) = T
  BY GrowsChildren
<1>4. /\ S \in SUBSET (1..n) /\ S \in SUBSET (1..Len(text))
      /\ s \in S /\ \A i \in S : i <= s
  BY <1>1, <1>2, ChildrenAreLines DEF LastSection
<1>5. \A i \in 1..n : m[i] = text[i]
  BY GrowsLines
<1>6. \A i \in new : i = w /\ m[i].key = "do" /\ actions # <<>>
  BY GrowsLines
<1>7. T \in SUBSET (1..Len(m)) /\ Len(m) \in Nat
  <2>1. Len(m) \in Nat
    BY <1>1
  <2> QED
    BY <1>2, <1>4, <1>6, <2>1
<1>8. IsHeader(text[s], "on")
  BY TriggerParents
<1>9. text[s].key = "on"
  BY <1>8 DEF IsHeader
<1>10. OnOf(text, S) = s
  BY <1>1, <1>9, SectionKind
<1>11. OnOf(m, T) = s
  <2> PICK f : f = Find(m, T, "on")
    OBVIOUS
  <2>1. s \in T /\ m[s].key = "on"
    BY <1>2, <1>4, <1>5, <1>9
  <2>6. LastWith(m, T, "on", f)
    BY <1>1, <1>7, FindsLastWith
  <2>2. f \in T /\ m[f].key = "on" /\ s <= f
    BY <2>1, <2>6 DEF LastWith
  <2>3. f \in S
    <3>1. "on" # "do"
      OBVIOUS
    <3> QED
      BY <1>6, <2>2, <3>1
  <2>4. f <= s /\ f \in 1..n
    BY <1>4, <2>3
  <2>5. f = s /\ f # 0
    BY <1>2, <2>2, <2>4
  <2> QED
    BY <2>5 DEF OnOf
<1>12. /\ Find(m, T, "aliases") = Find(text, S, "aliases")
       /\ Find(text, S, "aliases") \in D \union {0}
  <2> PICK f, h : f = Find(text, S, "aliases") /\ h = Find(m, T, "aliases")
    OBVIOUS
  <2>1. \/ f = 0 /\ \A i \in S : text[i].key # "aliases"
        \/ f \in S /\ text[f].key = "aliases" /\ \A i \in S : text[i].key = "aliases" => i <= f
    <3>1. LastWith(text, S, "aliases", f)
      BY <1>1, <1>4, FindsLastWith
    <3> QED
      BY <3>1 DEF LastWith
  <2>2. \/ h = 0 /\ \A i \in T : m[i].key # "aliases"
        \/ h \in T /\ m[h].key = "aliases" /\ \A i \in T : m[i].key = "aliases" => i <= h
    <3>1. LastWith(m, T, "aliases", h)
      BY <1>1, <1>7, FindsLastWith
    <3> QED
      BY <3>1 DEF LastWith
  <2>3. "aliases" # "do" /\ "aliases" # "on"
    OBVIOUS
  <2>4. \A i \in T : m[i].key = "aliases" <=> i \in S /\ text[i].key = "aliases"
    BY <1>4, <1>5, <1>6, <2>3
  <2>5. f \in S => f \in 1..n
    BY <1>4
  <2>6. h \in T => h \in 1..Len(m)
    BY <1>7
  <2>7. 0 \notin S /\ 0 \notin T
    BY <1>4, <1>7
  <2>8. h = f
    <3>1. CASE f = 0
      BY <2>1, <2>2, <2>4, <2>7, <3>1
    <3>2. CASE f # 0
      <4>1. f \in S /\ text[f].key = "aliases" /\ f \in T
        BY <2>1, <3>2
      <4>2. h \in T /\ m[h].key = "aliases" /\ f <= h
        BY <2>2, <2>4, <4>1
      <4>3. h <= f
        BY <2>1, <2>4, <3>2, <4>2
      <4> QED
        BY <1>2, <1>7, <2>5, <2>6, <4>1, <4>2, <4>3
    <3> QED
      BY <3>1, <3>2
  <2>9. f = 0 \/ f \in D
    <3>1. g \notin S
      <4>1. ASSUME g \in S PROVE FALSE
        <5>1. ParentOf(text, g) = g /\ ParentOf(text, g) = 0 /\ g # 0
          BY <1>1, <1>2, <4>1, ChildrenAreLines DEF LastGroup
        <5> QED
          BY <5>1
      <4> QED
        BY <4>1
    <3>2. f # 0 => f \in S /\ f # s /\ f # g
      BY <1>9, <2>1, <2>3, <3>1
    <3> QED
      BY <2>5, <3>2
  <2> QED
    BY <2>8, <2>9
<1>13. Copied(text, m, d, D) /\ d \in Nat
  BY GrowsCopies
<1>14. ParseAliases(m, Find(m, T, "aliases")) = ParseAliases(text, Find(text, S, "aliases"))
  <2> PICK f : f = Find(text, S, "aliases")
    OBVIOUS
  <2>1. f \in D \union {0}
    BY <1>12
  <2>2. ParseAliases(m, Moved(f, d)) = ParseAliases(text, f)
    BY <1>1, <1>13, <2>1, CopiedAliases
  <2>3. Moved(f, d) = f
    <3>1. f \in Nat
      BY <1>2, <2>1
    <3> QED
      BY <3>1 DEF Moved
  <2> QED
    BY <1>12, <2>2, <2>3
<1>15. ParseTriggers(m, s) = ParseTriggers(text, s) \o BareTriggers(types)
  BY GrownTriggers
<1>16. \A i \in S : text[i].key # "do"
  BY <1>1, NoActionsYet
<1>17. Find(text, S, "do") = 0
  BY <1>1, <1>4, <1>16, FindIsLast, ZenonT(30)
<1>18. ParseActions(text, 0) = <<>> /\ ParseActions(m, 0) = <<>>
  BY DEF ParseActions
<1>19. ParseActions(m, Find(m, T, "do")) = actions
  <2>1. CASE actions = <<>>
    <3>1. T = S
      BY <2>1
    <3>2. \A i \in T : m[i].key # "do"
      BY <1>4, <1>5, <1>16, <3>1
    <3>3. Find(m, T, "do") = 0
      <4>1. LastWith(m, T, "do", Find(m, T, "do"))
        BY <1>1, <1>7, FindsLastWith
      <4> QED
        BY <3>2, <4>1 DEF LastWith
    <3> QED
      BY <1>18, <2>1, <3>3
  <2>2. CASE actions # <<>>
    <3> PICK f : f = Find(m, T, "do")
      OBVIOUS
    <3>1. w \in T /\ m[w].key = "do"
      BY <2>2, GrowsLines
    <3>5. LastWith(m, T, "do", f)
      BY <1>1, <1>7, FindsLastWith
    <3>2. f \in T /\ m[f].key = "do"
      BY <3>1, <3>5 DEF LastWith
    <3>3. f \notin S
      BY <1>4, <1>5, <1>16, <3>2
    <3>4. f = w
      BY <1>6, <3>2, <3>3
    <3> QED
      BY <2>2, <3>4, GrownActions
  <2> QED
    BY <2>1, <2>2
<1>20. m[g] = text[g]
  BY <1>2, <1>5
<1>21. /\ ParseGroup(text, g).aliases = ParseAliases(text, Find(text, S, "aliases"))
       /\ ParseGroup(text, g).triggers = ParseTriggers(text, s)
       /\ ParseGroup(text, g).actions = <<>>
  BY <1>10, <1>17, <1>18 DEF ParseGroup
<1>22. ParseGroup(m, g) =
         [name     |-> m[g].key,
          aliases  |-> ParseAliases(m, Find(m, T, "aliases")),
          triggers |-> ParseTriggers(m, s),
          actions  |-> ParseActions(m, Find(m, T, "do"))]
  BY <1>3, <1>11 DEF ParseGroup
<1> QED
  BY <1>14, <1>15, <1>19, <1>20, <1>21, <1>22

\* The group with what the fragment adds to it.
WithMore(group, types, actions) ==
  [name |-> group.name, aliases |-> group.aliases,
   triggers |-> group.triggers \o BareTriggers(types), actions |-> actions]

\* The groups of the text that has grown.
LEMMA GrownGroups ==
  ASSUME NEW text, NEW name, NEW g, NEW s, NEW m, NEW types, NEW actions,
         Grows(text, name, g, s, m, types, actions), Accepted(m)
  PROVE  /\ DOMAIN Parse(m).groups = DOMAIN Parse(text).groups
         /\ Parse(m).groups = [k \in DOMAIN Parse(text).groups |-> Parse(m).groups[k]]
         /\ \A k \in DOMAIN Parse(text).groups :
              IF Parse(text).groups[k].name = name
              THEN /\ Parse(m).groups[k] = WithMore(Parse(text).groups[k], types, actions)
                   /\ Parse(text).groups[k].actions = <<>>
              ELSE Parse(m).groups[k] = Parse(text).groups[k]
<1> PICK n, a, w, b : Places(text, name, g, s, m, types, actions, n, a, w, b)
  BY GrowsPlaces
<1>1. /\ text \in Seq(TextLine) /\ m \in Seq(TextLine) /\ Accepted(text)
      /\ LastGroup(text, name, g) /\ LastSection(text, g, s)
  BY DEF Grows
<1>2. /\ n = Len(text) /\ n \in Nat /\ w \in Nat /\ w # 0 /\ g \in 1..n /\ s \in 1..n /\ g # 0 /\ s # 0
  BY DEF Places
<1> PICK G, D, d : G = GroupLines(text) /\ D = (1..n) \ {g, s} /\ d = 0
  OBVIOUS
<1>3. \A i \in 1..n : m[i] = text[i]
  BY GrowsLines
<1>4. ChildrenOf(m, 0) = ChildrenOf(text, 0)
  <2>1. 0 \notin {g, s, w}
    BY <1>2
  <2> QED
    BY <2>1, GrowsChildren
<1>5. ChildrenOf(text, 0) \in SUBSET (1..n)
  BY <1>1, <1>2, ChildrenAreLines
<1>6. GroupLines(m) = G
  BY <1>3, <1>4, <1>5 DEF GroupLines, TopLevel
<1> PICK z : z = InOrder(G)
  OBVIOUS
<1>7. G \in SUBSET (1..n)
  BY <1>1, <1>2, GroupLinesAreLines
<1>8. \A k \in DOMAIN z : z[k] \in G
  <2>1. z \in Seq(G)
    BY <1>2, <1>7, InOrderLists
  <2> QED
    BY <2>1
<1> PICK x, y : x = Parse(text).groups /\ y = Parse(m).groups
  OBVIOUS
<1>9. x = [k \in DOMAIN z |-> ParseGroup(text, z[k])] /\ y = [k \in DOMAIN z |-> ParseGroup(m, z[k])]
  BY <1>1, <1>6 DEF Accepted
<1>10. ASSUME NEW i \in G, i # g PROVE ParseGroup(m, i) = ParseGroup(text, i)
  <2>1. i # s
    <3>1. ParentOf(text, s) = g /\ ParentOf(text, i) = 0
      BY <1>1, <1>10, ChildrenAreLines DEF LastSection, GroupLines, TopLevel
    <3> QED
      BY <1>2, <3>1
  <2>2. i \in D /\ d + i = i /\ d \in Nat
    BY <1>2, <1>7, <1>10, <2>1
  <2>3. Copied(text, m, d, D)
    BY GrowsCopies
  <2>4. ~GroupFault(text, i)
    BY <1>1 DEF Accepted
  <2>5. ParseGroup(m, d + i) = ParseGroup(text, i)
    BY <1>1, <2>2, <2>3, <2>4, CopiedGroup
  <2> QED
    BY <2>2, <2>5
<1>11. \A i \in G : ParseGroup(text, i).name = name <=> i = g
  <2>1. \A i \in G : ParseGroup(text, i).name = text[i].key
    BY DEF ParseGroup
  <2> QED
    BY <1>1, <2>1 DEF LastGroup
<1>12. /\ ParseGroup(m, g) = WithMore(ParseGroup(text, g), types, actions)
       /\ ParseGroup(text, g).actions = <<>>
  <2>1. ParseGroup(text, g).name = text[g].key
    BY DEF ParseGroup
  <2>2. /\ ParseGroup(m, g) =
             [name     |-> text[g].key,
              aliases  |-> ParseGroup(text, g).aliases,
              triggers |-> ParseGroup(text, g).triggers \o BareTriggers(types),
              actions  |-> actions]
        /\ ParseGroup(text, g).actions = <<>>
    BY GrownGroup
  <2> QED
    BY <2>1, <2>2 DEF WithMore
<1>13. DOMAIN y = DOMAIN x /\ y = [k \in DOMAIN x |-> y[k]] /\ DOMAIN x = DOMAIN z
  BY <1>9
<1>14. ASSUME NEW k \in DOMAIN x
       PROVE  IF x[k].name = name
              THEN y[k] = WithMore(x[k], types, actions) /\ x[k].actions = <<>>
              ELSE y[k] = x[k]
  <2> PICK i : i = z[k]
    OBVIOUS
  <2>1. i \in G /\ x[k] = ParseGroup(text, i) /\ y[k] = ParseGroup(m, i)
    BY <1>8, <1>9, <1>13
  <2>2. CASE i = g
    BY <1>11, <1>12, <2>1, <2>2
  <2>3. CASE i # g
    BY <1>10, <1>11, <2>1, <2>3
  <2> QED
    BY <2>2, <2>3
<1> QED
  BY <1>13, <1>14

LEMMA FieldsReplaced ==
  ASSUME NEW old, DOMAIN old = {"name", "aliases", "triggers", "actions"}, NEW u, NEW v
  PROVE  [old EXCEPT !.triggers = u, !.actions = v] =
           [name |-> old.name, aliases |-> old.aliases, triggers |-> u, actions |-> v]
<1> DEFINE l == [old EXCEPT !.triggers = u, !.actions = v]
           r == [name |-> old.name, aliases |-> old.aliases, triggers |-> u, actions |-> v]
           fields == {"name", "aliases", "triggers", "actions"}
<1>1. DOMAIN l = fields /\ DOMAIN r = fields
  OBVIOUS
<1>2. /\ l["name"] = old["name"] /\ l["aliases"] = old["aliases"]
      /\ l["triggers"] = u /\ l["actions"] = v
  OBVIOUS
<1>3. /\ r["name"] = old["name"] /\ r["aliases"] = old["aliases"]
      /\ r["triggers"] = u /\ r["actions"] = v
  OBVIOUS
<1>4. l = [k \in DOMAIN l |-> l[k]] /\ r = [k \in DOMAIN r |-> r[k]]
  OBVIOUS
<1> HIDE DEF l, r
<1>5. \A k \in fields : l[k] = r[k]
  BY <1>2, <1>3
<1>6. l = r
  BY <1>1, <1>4, <1>5
<1> QED
  BY <1>6 DEF l, r

\* A group that is extended by what a parsed one has.
LEMMA ExtendedByBare ==
  ASSUME NEW group, IsParsedGroup(group), group.actions = <<>>,
         NEW fg, IsParsedGroup(fg), \A i \in DOMAIN fg.triggers : fg.triggers[i].actions = <<>>
  PROVE  WithMore(group, TypesOf(fg.triggers), fg.actions) = Extended(group, fg)
<1>1. fg.triggers \in Seq(ParsedTriggers) /\ fg.actions \in Seq(Strings)
  BY DEF IsParsedGroup
<1>2. BareTriggers(TypesOf(fg.triggers)) = fg.triggers
  <2> PICK x, y : x = fg.triggers /\ y = TypesOf(x)
    OBVIOUS
  <2>1. DOMAIN y = DOMAIN x /\ \A k \in DOMAIN x : y[k] = x[k].type
    BY DEF TypesOf
  <2>2. \A k \in DOMAIN x : x[k] \in ParsedTriggers
    BY <1>1
  <2>3. \A k \in DOMAIN x : x[k] = [type |-> y[k], actions |-> <<>>]
    BY <2>1, <2>2 DEF ParsedTriggers
  <2>4. BareTriggers(y) = [k \in DOMAIN x |-> x[k]]
    BY <2>1, <2>3 DEF BareTriggers
  <2>5. x = [k \in DOMAIN x |-> x[k]]
    BY <1>1
  <2> QED
    BY <2>4, <2>5
<1>3. group.actions \o fg.actions = fg.actions
  <2>1. <<>> \o fg.actions = fg.actions
    BY <1>1
  <2> QED
    BY <2>1
<1> PICK u, v : u = group.triggers \o fg.triggers /\ v = fg.actions
  OBVIOUS
<1>4. WithMore(group, TypesOf(fg.triggers), fg.actions) =
        [name |-> group.name, aliases |-> group.aliases, triggers |-> u, actions |-> v]
  BY <1>2 DEF WithMore
<1>5. Extended(group, fg) = [group EXCEPT !.triggers = u, !.actions = v]
  BY <1>3 DEF Extended
<1>6. DOMAIN group = {"name", "aliases", "triggers", "actions"}
  <2>1. group = [name |-> group.name, aliases |-> group.aliases,
                 triggers |-> group.triggers, actions |-> group.actions]
    BY DEF IsParsedGroup
  <2> QED
    BY <2>1
<1>7. [group EXCEPT !.triggers = u, !.actions = v] =
        [name |-> group.name, aliases |-> group.aliases, triggers |-> u, actions |-> v]
  BY <1>6, FieldsReplaced
<1> QED
  BY <1>4, <1>5, <1>7

\* What the property says of the groups.
LEMMA GrownAsExpected ==
  ASSUME NEW text, NEW g, NEW s, NEW m, NEW fg, Parse(text) # Invalid, Parse(m) # Invalid,
         IsParsedGroup(fg), \A i \in DOMAIN fg.triggers : fg.triggers[i].actions = <<>>,
         Grows(text, fg.name, g, s, m, TypesOf(fg.triggers), fg.actions)
  PROVE  Parse(m).groups = ExpectedMerge(Parse(text), fg)
<1> PICK x, y : x = Parse(text).groups /\ y = Parse(m).groups
  OBVIOUS
<1>1. text \in Seq(TextLine) /\ Accepted(m)
  BY ParseAccepts DEF Grows
<1>2. \A k \in DOMAIN x : IsParsedGroup(x[k])
  BY <1>1, ParsedGroups
<1>3. /\ y = [k \in DOMAIN x |-> y[k]]
      /\ \A k \in DOMAIN x :
           IF x[k].name = fg.name
           THEN y[k] = WithMore(x[k], TypesOf(fg.triggers), fg.actions) /\ x[k].actions = <<>>
           ELSE y[k] = x[k]
  BY <1>1, GrownGroups
<1>4. \A k \in DOMAIN x : y[k] = IF x[k].name = fg.name THEN Extended(x[k], fg) ELSE x[k]
  <2> TAKE k \in DOMAIN x
  <2>1. CASE x[k].name = fg.name
    BY <1>2, <1>3, <2>1, ExtendedByBare
  <2>2. CASE x[k].name # fg.name
    BY <1>3, <2>2
  <2> QED
    BY <2>1, <2>2
<1>5. ExpectedMerge(Parse(text), fg) = [k \in DOMAIN x |-> y[k]]
  BY <1>4 DEF ExpectedMerge
<1> QED
  BY <1>3, <1>5

-----------------------------------------------------------------------------
(* The merge into a plain last group adds at the end. *)

LEMMA InsertedAtEnd ==
  ASSUME NEW lines \in Seq(TextLine), NEW new \in Seq(TextLine), NEW capacity,
         NEW k, k = Len(lines)
  PROVE  Insert(lines, k, new, capacity) = lines \o new
<1> DEFINE after == SubSeq(lines, k + 1, Len(lines))
           overwritten == [i \in DOMAIN after |-> IF i <= Len(new) THEN new[i] ELSE after[i]]
<1>1. SubSeq(lines, 1, Len(lines)) = lines
  OBVIOUS
<1>2. after = <<>>
  OBVIOUS
<1>3. overwritten = <<>>
  BY <1>2
<1>4. Insert(lines, k, new, capacity) =
        SubSeq(lines, 1, k) \o new \o (IF k + Len(new) <= capacity THEN overwritten ELSE after)
  BY DEF Insert
<1> HIDE DEF after, overwritten
<1>5. Insert(lines, k, new, capacity) = (lines \o new) \o <<>>
  BY <1>1, <1>2, <1>3, <1>4
<1>6. lines \o new \in Seq(TextLine)
  BY Joined
<1> QED
  BY <1>5, <1>6

\* One text behind another.
Appends(z, x, y) ==
  /\ z \in Seq(TextLine) /\ Len(z) = Len(x) + Len(y)
  /\ \A i \in 1..Len(x) : z[i] = x[i]
  /\ \A k \in 1..Len(y) : z[Len(x) + k] = y[k]

LEMMA Appended ==
  ASSUME NEW x \in Seq(TextLine), NEW y \in Seq(TextLine), NEW z, Together(z, x, y)
  PROVE  Appends(z, x, y)
<1> PICK p, q : p = Len(x) /\ q = Len(y)
  OBVIOUS
<1>1. p \in Nat /\ q \in Nat
  OBVIOUS
<1>2. /\ x \o y \in Seq(TextLine) /\ Len(x \o y) = Len(x) + Len(y)
      /\ \A i \in 1..Len(x) + Len(y) : (x \o y)[i] = IF i <= Len(x) THEN x[i] ELSE y[i - Len(x)]
  BY Joined
<1>3. /\ z \in Seq(TextLine) /\ Len(z) = p + q
      /\ \A i \in 1..p + q : z[i] = IF i <= p THEN x[i] ELSE y[i - p]
  BY <1>2 DEF Together
<1>4. \A i \in 1..p : i \in 1..p + q /\ i <= p
  BY <1>1
<1>5. \A k \in 1..q : p + k \in 1..p + q /\ ~(p + k <= p) /\ (p + k) - p = k
  BY <1>1
<1>6. \A i \in 1..p : z[i] = x[i]
  BY <1>3, <1>4
<1>7. \A k \in 1..q : z[p + k] = y[k]
  BY <1>3, <1>5
<1> QED
  BY <1>3, <1>6, <1>7 DEF Appends

IsOne(first, x) == first = <<x>>

LEMMA OneLine ==
  ASSUME NEW x \in TextLine, NEW first, IsOne(first, x)
  PROVE  first \in Seq(TextLine) /\ Len(first) = 1 /\ first[1] = x
BY DEF IsOne

\* What a list of lines with types says.
LEMMA EntriesSay ==
  ASSUME NEW types \in Seq(Strings)
  PROVE  /\ Entries(4, types) \in Seq(TextLine) /\ Len(Entries(4, types)) = Len(types)
         /\ \A k \in 1..Len(types) : Entries(4, types)[k] = Item(4, "type", types[k])
<1>1. DOMAIN types = 1..Len(types)
  OBVIOUS
<1> QED
  BY <1>1, EntriesAreText DEF Entries

\* The section that begins with "do".
DoSection(added, actions) == Together(added, <<Line(2, "do", "")>>, Entries(4, actions))

OpensDo(first) == IsOne(first, Line(2, "do", ""))

LEMMA SectionSays ==
  ASSUME NEW actions \in Seq(Strings), NEW added, DoSection(added, actions)
  PROVE  /\ added \in Seq(TextLine) /\ Len(added) = 1 + Len(actions)
         /\ added[1] = Line(2, "do", "")
         /\ \A k \in 1..Len(actions) : added[1 + k] = Item(4, "type", actions[k])
<1> PICK first, more : OpensDo(first) /\ more = Entries(4, actions)
  BY DEF IsOne, OpensDo
<1>1. Line(2, "do", "") \in TextLine
  BY LinesAreLines, Literals
<1>2. first \in Seq(TextLine) /\ Len(first) = 1 /\ first[1] = Line(2, "do", "")
  BY <1>1, OneLine DEF OpensDo
<1>3. /\ more \in Seq(TextLine) /\ Len(more) = Len(actions)
      /\ \A k \in 1..Len(actions) : more[k] = Item(4, "type", actions[k])
  BY EntriesSay
<1>4. Together(added, first, more)
  BY DEF DoSection, OpensDo, IsOne
<1>5. Appends(added, first, more)
  BY <1>2, <1>3, <1>4, Appended
<1>6. /\ added \in Seq(TextLine) /\ Len(added) = 1 + Len(actions)
      /\ \A i \in 1..1 : added[i] = first[i]
      /\ \A k \in 1..Len(actions) : added[1 + k] = more[k]
  BY <1>2, <1>3, <1>5 DEF Appends
<1>7. 1 \in 1..1
  OBVIOUS
<1> QED
  BY <1>2, <1>3, <1>6, <1>7

LEMMA TriggersAtEnd ==
  ASSUME NEW text \in Seq(TextLine), NEW name, PlainAtEnd(text, name),
         NEW g \in 1..Len(text), g = GroupIndex(text, name), NEW triggers
  PROVE  InsertTriggers(text, g, triggers) =
           Insert(text, Len(text), Entries(4, TypesOf(triggers)), Len(text))
<1> DEFINE end == Len(text)
           new == Entries(4, TypesOf(triggers))
           ons == {i \in g + 1..end : IsHeader(text[i], "on")}
           on == IF ons = {} THEN 0 ELSE Min(ons)
           dos == {i \in on + 1..end : IsHeader(text[i], "do")}
           do == IF dos = {} THEN end + 1 ELSE Min(dos)
<1>1. /\ GroupEnd(text, g) = Len(text)
      /\ \E i \in g + 1..Len(text) : IsHeader(text[i], "on")
      /\ \A i \in g + 1..Len(text) : ~IsHeader(text[i], "do")
  BY DEF PlainAtEnd
<1>2. Len(text) \in Nat
  OBVIOUS
<1>3. InsertTriggers(text, g, triggers) =
        IF on # 0 THEN Insert(text, do - 1, new, Len(text))
        ELSE Insert(text, g, <<Line(2, "on", "")>> \o new, Len(text))
  BY <1>1 DEF InsertTriggers, First
<1>4. on \in g + 1..end
  <2>1. ons \in SUBSET (1..Len(text)) /\ ons # {}
    BY <1>1, <1>2
  <2>2. Min(ons) \in ons
    BY <1>2, <2>1, MinOfLines
  <2> QED
    BY <2>1, <2>2
<1> HIDE DEF new, on
<1>5. dos = {}
  BY <1>1, <1>2, <1>4
<1>6. on # 0 /\ do - 1 = Len(text)
  BY <1>2, <1>4, <1>5
<1>7. InsertTriggers(text, g, triggers) = Insert(text, do - 1, new, Len(text))
  BY <1>3, <1>6
<1> HIDE DEF do
<1> QED
  BY <1>6, <1>7 DEF new

LEMMA ActionsAtEnd ==
  ASSUME NEW lines \in Seq(TextLine), NEW g, NEW end,
         \A i \in g + 1..end : ~IsHeader(lines[i], "do"),
         NEW actions, NEW capacity, NEW added, DoSection(added, actions)
  PROVE  InsertActions(lines, g, end, actions, capacity) = Insert(lines, end, added, capacity)
<1> DEFINE dos == {i \in g + 1..end : IsHeader(lines[i], "do")}
<1>1. dos = {}
  OBVIOUS
<1>2. InsertActions(lines, g, end, actions, capacity) =
        Insert(lines, end, <<Line(2, "do", "")>> \o Entries(4, actions), capacity)
  BY <1>1 DEF InsertActions, First
<1>3. PICK x : x = <<Line(2, "do", "")>> \o Entries(4, actions)
  OBVIOUS
<1>4. added = x
  BY <1>3 DEF DoSection, Together
<1> QED
  BY <1>2, <1>3, <1>4

LEMMA Sums ==
  ASSUME NEW n \in Nat, NEW a \in Nat, NEW b \in Nat
  PROVE  (n + a) + (1 + b) = n + a + 1 + b /\ n <= n + a + 1 + b
OBVIOUS

LEMMA MergeGrows ==
  ASSUME NEW text \in Seq(TextLine), NEW fg, IsParsedGroup(fg),
         PlainAtEnd(text, fg.name), GroupIndex(text, fg.name) \in 1..Len(text)
  PROVE  Grown(text, MergeGroupIntoYAML(text, fg), TypesOf(fg.triggers), fg.actions)
<1>0. PICK g, types, actions, n, a, b :
      /\ g = GroupIndex(text, fg.name) /\ types = TypesOf(fg.triggers) /\ actions = fg.actions
      /\ n = Len(text) /\ a = Len(types) /\ b = Len(actions)
  OBVIOUS
<1>1. types \in Seq(Strings) /\ actions \in Seq(Strings)
  BY <1>0, TypesAreStrings DEF IsParsedGroup
<1>2. n \in Nat /\ a \in Nat /\ b \in Nat /\ g \in 1..n
  BY <1>0, <1>1
<1>9. (n + a) + (1 + b) = n + a + 1 + b /\ n <= n + a + 1 + b
  BY <1>2, Sums
<1> PICK new, lines : new = Entries(4, types) /\ Together(lines, text, new)
  BY DEF Together
<1>3. new \in Seq(TextLine) /\ Len(new) = a /\ \A k \in 1..a : new[k] = Item(4, "type", types[k])
  BY <1>0, <1>1, EntriesSay
<1>4. /\ lines \in Seq(TextLine) /\ Len(lines) = n + a
      /\ \A i \in 1..n : lines[i] = text[i]
      /\ \A k \in 1..a : lines[n + k] = Item(4, "type", types[k])
  <2>1. /\ lines \in Seq(TextLine) /\ Len(lines) = n + a
        /\ \A i \in 1..n : lines[i] = text[i]
        /\ \A k \in 1..a : lines[n + k] = new[k]
    <3>1. Appends(lines, text, new)
      BY <1>3, Appended
    <3> QED
      BY <1>0, <1>3, <3>1 DEF Appends
  <2> QED
    BY <1>3, <2>1
<1>5. InsertTriggers(text, g, fg.triggers) = lines
  <2>1. InsertTriggers(text, g, fg.triggers) = Insert(text, n, new, n)
    BY <1>0, TriggersAtEnd
  <2>2. Insert(text, n, new, n) = text \o new
    BY <1>0, <1>3, InsertedAtEnd
  <2> QED
    BY <2>1, <2>2 DEF Together
<1> PICK m, end, capacity : /\ m = MergeGroupIntoYAML(text, fg)
                            /\ end = GroupEnd(text, g) + (Len(lines) - n)
                            /\ capacity = Max({2 * n, Len(lines)})
  OBVIOUS
<1>6. m = IF actions = <<>> THEN lines ELSE InsertActions(lines, g, end, actions, capacity)
  <2>1. g # 0
    BY <1>2
  <2> QED
    BY <1>0, <1>5, <2>1 DEF MergeGroupIntoYAML
<1>7. CASE actions = <<>>
  <2>1. m = lines
    BY <1>6, <1>7
  <2>2. Begins(text, m)
    BY <1>0, <1>2, <1>4, <2>1 DEF Begins
  <2>3. Grown(text, m, types, actions)
    BY <1>0, <1>4, <1>7, <2>1, <2>2 DEF Grown
  <2> QED
    BY <1>0, <2>3
<1>8. CASE actions # <<>>
  <2>1. end = n + a /\ end \in Nat /\ Len(lines) = end
    <3>1. GroupEnd(text, g) = n
      BY <1>0 DEF PlainAtEnd
    <3> QED
      BY <1>2, <1>4, <3>1
  <2>2. ASSUME NEW i \in g + 1..end PROVE ~IsHeader(lines[i], "do")
    <3>1. CASE i <= n
      <4>1. lines[i] = text[i] /\ i \in g + 1..Len(text)
        BY <1>0, <1>2, <1>4, <2>1, <3>1
      <4> QED
        BY <1>0, <4>1 DEF PlainAtEnd
    <3>2. CASE ~(i <= n)
      <4>1. i - n \in 1..a /\ n + (i - n) = i
        BY <1>2, <2>1, <3>2
      <4>2. lines[i] = Item(4, "type", types[i - n])
        BY <1>4, <4>1
      <4> QED
        BY <4>2 DEF IsHeader, Item
    <3> QED
      BY <3>1, <3>2
  <2> PICK added : DoSection(added, actions)
    BY DEF DoSection, Together
  <2>3. /\ added \in Seq(TextLine) /\ Len(added) = 1 + b
        /\ added[1] = Line(2, "do", "")
        /\ \A k \in 1..b : added[1 + k] = Item(4, "type", actions[k])
    BY <1>0, <1>1, SectionSays
  <2>4. InsertActions(lines, g, end, actions, capacity) = Insert(lines, end, added, capacity)
    <3>1. lines \in Seq(TextLine)
      BY <1>4
    <3> QED
      BY <2>2, <3>1, ActionsAtEnd
  <2>5. m = lines \o added
    <3>1. Insert(lines, end, added, capacity) = lines \o added
      BY <1>4, <2>1, <2>3, InsertedAtEnd
    <3> QED
      BY <1>6, <1>8, <2>4, <3>1
  <2>6. Appends(m, lines, added)
    <3>1. Together(m, lines, added)
      BY <2>5 DEF Together
    <3> QED
      BY <1>4, <2>3, <3>1, Appended
  <2>7. /\ m \in Seq(TextLine) /\ Len(m) = end + (1 + b)
        /\ \A i \in 1..end : m[i] = lines[i]
        /\ \A k \in 1..1 + b : m[end + k] = added[k]
    BY <2>1, <2>3, <2>6 DEF Appends
  <2>8. Len(m) = n + a + 1 + b
    <3>1. Len(m) = end + (1 + b) /\ end = n + a
      BY <2>1, <2>7
    <3>3. Len(m) = (n + a) + (1 + b)
      BY <3>1
    <3> QED
      BY <1>9, <3>3
  <2>9. \A i \in 1..n : m[i] = text[i]
    <3>1. \A i \in 1..n : i \in 1..end
      BY <1>2, <2>1
    <3> QED
      BY <1>4, <2>7, <3>1
  <2>10. Begins(text, m)
    <3>1. Len(text) <= Len(m)
      BY <1>0, <1>9, <2>8
    <3> QED
      BY <1>0, <2>9, <3>1 DEF Begins
  <2>11. \A k \in 1..a : m[n + k] = Item(4, "type", types[k])
    <3>1. \A k \in 1..a : n + k \in 1..end
      BY <1>2, <2>1
    <3> QED
      BY <1>4, <2>7, <3>1
  <2>12. m[n + a + 1] = Line(2, "do", "")
    <3>1. 1 \in 1..1 + b /\ end + 1 = n + a + 1
      BY <1>2, <2>1
    <3>2. m[end + 1] = added[1]
      BY <2>7, <3>1
    <3> QED
      BY <2>3, <3>1, <3>2
  <2>13. \A k \in 1..b : m[n + a + 1 + k] = Item(4, "type", actions[k])
    <3> TAKE k \in 1..b
    <3>1. 1 + k \in 1..1 + b /\ end + (1 + k) = n + a + 1 + k
      BY <1>2, <2>1
    <3>2. m[end + (1 + k)] = added[1 + k]
      BY <2>7, <3>1
    <3> QED
      BY <2>3, <3>1, <3>2
  <2>14. Grown(text, m, types, actions)
    BY <1>0, <1>8, <2>8, <2>10, <2>11, <2>12, <2>13 DEF Grown
  <2> QED
    BY <1>0, <2>14
<1> QED
  BY <1>7, <1>8

-----------------------------------------------------------------------------
(* What add does to the groups of the file. *)

\* Every group that is read stands in the text and has triggers.
LEMMA GroupsStand ==
  ASSUME NEW text \in Seq(TextLine), Parse(text) # Invalid, NEW k \in DOMAIN Parse(text).groups
  PROVE  /\ \E i \in GroupLines(text) : text[i].key = Parse(text).groups[k].name
         /\ Parse(text).groups[k].triggers # <<>>
         /\ IsParsedGroup(Parse(text).groups[k])
<1>1. Accepted(text)
  BY ParseAccepts
<1>2. Len(text) \in Nat /\ GroupLines(text) \in SUBSET (1..Len(text))
  BY SolidLines, GroupLinesAreLines
<1> PICK z : z = InOrder(GroupLines(text))
  OBVIOUS
<1>3. k \in DOMAIN z /\ Parse(text).groups[k] = ParseGroup(text, z[k])
  BY <1>1 DEF Accepted
<1>4. PICK i : i = z[k]
  OBVIOUS
<1>5. i \in GroupLines(text)
  <2>1. z \in Seq(GroupLines(text))
    BY <1>2, InOrderLists
  <2> QED
    BY <1>3, <1>4, <2>1
<1>6. ParseGroup(text, i).name = text[i].key
  BY DEF ParseGroup
<1>7. PICK on : on = OnOf(text, ChildrenOf(text, i))
  OBVIOUS
<1>8. on # 0 /\ ~TriggersFault(text, on)
  BY <1>1, <1>5, <1>7 DEF Accepted, GroupFault
<1>9. PICK S : S = ChildrenOf(text, on)
  OBVIOUS
<1>10. S # {} /\ S \in SUBSET (1..Len(text))
  <2>1. S # {}
    BY <1>8, <1>9 DEF TriggersFault, IsList
  <2> QED
    BY <1>9, <2>1, ChildrenAreLines
<1>11. ParseTriggers(text, on) # <<>>
  <2>1. Cardinality(S) \in Nat /\ \A j \in S : Rank(j, S) \in 1..Cardinality(S)
    BY <1>2, <1>10, Ranks
  <2>2. Cardinality(S) # 0
    <3>1. PICK j \in S : Rank(j, S) \in 1..Cardinality(S)
      BY <1>10, <2>1
    <3> QED
      BY <2>1, <3>1
  <2>3. Len(InOrder(S)) = Cardinality(S) /\ InOrder(S) \in Seq(S)
    BY <1>2, <1>10, InOrderLists
  <2>4. 1 \in DOMAIN InOrder(S)
    BY <2>1, <2>2, <2>3
  <2>5. DOMAIN ParseTriggers(text, on) = DOMAIN InOrder(S)
    BY <1>9 DEF ParseTriggers
  <2> QED
    BY <2>4, <2>5
<1>12. ParseGroup(text, i).triggers = ParseTriggers(text, on)
  BY <1>7 DEF ParseGroup
<1>13. IsParsedGroup(Parse(text).groups[k])
  BY ParsedGroups
<1> QED
  BY <1>3, <1>4, <1>5, <1>6, <1>11, <1>12, <1>13

\* A merge into a plain last group.
LEMMA MergedGroups ==
  ASSUME NEW text \in Seq(TextLine), NEW fg, IsParsedGroup(fg),
         Parse(text) # Invalid, Parse(MergeGroupIntoYAML(text, fg)) # Invalid,
         fg.triggers # <<>>, \A i \in DOMAIN fg.triggers : fg.triggers[i].actions = <<>>,
         \E i \in GroupLines(text) : text[i].key = fg.name,
         PlainAtEnd(text, fg.name)
  PROVE  Parse(MergeGroupIntoYAML(text, fg)).groups = ExpectedMerge(Parse(text), fg)
<1>1. Accepted(text)
  BY ParseAccepts
<1>2. PICK g : g = GroupIndex(text, fg.name)
  OBVIOUS
<1>3. LastGroup(text, fg.name, g)
  <2>1. PICK name : name = fg.name
    OBVIOUS
  <2>2. LastGroup(text, name, GroupIndex(text, name))
    BY <1>1, <2>1, PlainIsLast
  <2> QED
    BY <1>2, <2>1, <2>2
<1>4. PICK s : LastSection(text, g, s)
  BY <1>1, <1>3, SectionsEnd
<1>5. PICK m : m = MergeGroupIntoYAML(text, fg)
  OBVIOUS
<1>6. m \in Seq(TextLine) /\ Parse(m) # Invalid
  BY <1>5, MergedGroupIsText
<1>7. g \in 1..Len(text)
  BY <1>3 DEF LastGroup
<1>8. Grown(text, m, TypesOf(fg.triggers), fg.actions)
  BY <1>2, <1>5, <1>7, MergeGrows
<1>9. WellFormed(m)
  BY <1>6, ParseAccepts DEF Accepted
<1>10. /\ TypesOf(fg.triggers) \in Seq(Strings) /\ TypesOf(fg.triggers) # <<>>
       /\ fg.actions \in Seq(Strings)
  <2>1. fg.triggers \in Seq(ParsedTriggers) /\ fg.actions \in Seq(Strings)
    BY DEF IsParsedGroup
  <2>2. PICK x : x = fg.triggers
    OBVIOUS
  <2>3. x \in Seq(ParsedTriggers) /\ x # <<>>
    BY <2>1, <2>2
  <2>4. Len(x) # 0
    BY <2>3
  <2>5. TypesOf(x) \in Seq(Strings) /\ Len(TypesOf(x)) = Len(x)
    BY <2>3, TypesAreStrings
  <2>6. TypesOf(x) # <<>>
    BY <2>4, <2>5
  <2> QED
    BY <2>1, <2>2, <2>5, <2>6
<1>11. Grows(text, fg.name, g, s, m, TypesOf(fg.triggers), fg.actions)
  BY <1>1, <1>3, <1>4, <1>6, <1>8, <1>9, <1>10 DEF Grows
<1>12. Parse(m).groups = ExpectedMerge(Parse(text), fg)
  BY <1>6, <1>11, GrownAsExpected
<1> QED
  BY <1>5, <1>12

\* Both cases of the property, for the texts.
Adding(existing, fragment, m, common) ==
  /\ common = {} => Parse(m).groups = Parse(existing).groups \o Parse(fragment).groups
  /\ \A n \in DOMAIN Parse(fragment).groups :
       (/\ Len(Parse(fragment).groups) = 1 /\ Parse(fragment).groups[n].name \in common
        /\ PlainAtEnd(existing, Parse(fragment).groups[n].name)
        /\ \A i \in DOMAIN Parse(fragment).groups[n].triggers :
             Parse(fragment).groups[n].triggers[i].actions = <<>>)
       => Parse(m).groups = ExpectedMerge(Parse(existing), Parse(fragment).groups[n])

LEMMA MergeAdds ==
  ASSUME NEW existing \in Seq(TextLine), NEW fragment \in Seq(TextLine), NEW m,
         Parse(existing) # Invalid, Parse(fragment) # Invalid, Parse(m) # Invalid,
         m = Merge(existing, fragment),
         NEW common, common = GroupNames(Parse(existing)) \intersect GroupNames(Parse(fragment))
  PROVE  Adding(existing, fragment, m, common)
<1> DEFINE old == Parse(existing)
           new == Parse(fragment)
           names == {old.groups[n].name : n \in DOMAIN old.groups}
           both == {n \in DOMAIN new.groups : new.groups[n].name \in names}
<1>1. Solid(existing) # {}
  BY ParseAccepts DEF Accepted
<1>2. m = IF both # {} THEN MergeGroupIntoYAML(existing, new.groups[Min(both)]) ELSE existing \o fragment
  BY <1>1 DEF Merge
<1>3. \A n \in DOMAIN new.groups : n \in both <=> new.groups[n].name \in common
  BY DEF GroupNames
<1>4. common = {} => both = {}
  BY <1>3
<1>5. common = {} => Parse(m).groups = old.groups \o new.groups
  <2> HAVE common = {}
  <2>1. m = existing \o fragment
    BY <1>2, <1>4
  <2>2. Parse(existing \o fragment) # Invalid
    BY <2>1
  <2> QED
    BY <2>1, <2>2, AppendedGroups
<1>6. ASSUME NEW n \in DOMAIN new.groups, Len(new.groups) = 1, new.groups[n].name \in common,
             PlainAtEnd(existing, new.groups[n].name),
             \A i \in DOMAIN new.groups[n].triggers : new.groups[n].triggers[i].actions = <<>>
      PROVE  Parse(m).groups = ExpectedMerge(old, new.groups[n])
  <2>1. PICK fg, groups : fg = new.groups[n] /\ groups = new.groups
    OBVIOUS
  <2>2. DOMAIN groups = 1..1
    <3>1. PICK p \in Nat : DOMAIN groups = 1..p /\ groups = [k \in DOMAIN groups |-> groups[k]]
      BY <2>1, ParsedGroups
    <3>2. Len(groups) = p
      BY <3>1
    <3> QED
      BY <1>6, <2>1, <3>1, <3>2
  <2>3. both = {n}
    <3>1. \A k \in DOMAIN groups : k = 1
      BY <2>2
    <3>2. \A k \in both : k \in DOMAIN groups
      BY <2>1
    <3>3. n \in both
      BY <1>3, <1>6
    <3> HIDE DEF both
    <3> QED
      BY <3>1, <3>2, <3>3
  <2>4. Min(both) = n
    <3>1. both \in SUBSET (1..1) /\ 1 \in Nat /\ both # {}
      BY <2>1, <2>2, <2>3
    <3> HIDE DEF both
    <3>2. Min(both) \in both
      BY <3>1, MinOfLines
    <3> QED
      BY <2>3, <3>2
  <2>5. m = MergeGroupIntoYAML(existing, fg)
    <3>1. both # {}
      BY <2>3
    <3> HIDE DEF both, new
    <3> QED
      BY <1>2, <2>1, <2>4, <3>1
  <2>6. IsParsedGroup(fg) /\ fg.triggers # <<>>
    BY <2>1, GroupsStand
  <2>7. \E i \in GroupLines(existing) : existing[i].key = fg.name
    <3>1. PICK k \in DOMAIN old.groups : old.groups[k].name = fg.name
      BY <1>6, <2>1 DEF GroupNames
    <3>2. \E i \in GroupLines(existing) : existing[i].key = old.groups[k].name
      BY GroupsStand
    <3> QED
      BY <3>1, <3>2
  <2> HIDE DEF new, old
  <2>8. PlainAtEnd(existing, fg.name) /\ \A i \in DOMAIN fg.triggers : fg.triggers[i].actions = <<>>
    BY <1>6, <2>1
  <2>9. Parse(m).groups = ExpectedMerge(Parse(existing), fg)
    BY <2>5, <2>6, <2>7, <2>8, MergedGroups
  <2> QED
    BY <2>1, <2>9 DEF old
<1> QED
  BY <1>5, <1>6 DEF Adding

\* Only AddWrite goes from "write" to "autoRegister".
LEMMA OnlyAddWrite ==
  ASSUME CommandInv, [CommandsNext]_commandVars, NEW c \in Clients, WritesOnto(c)
  PROVE  AddWrite(c)
<1>1. op = [d \in Clients |-> op[d]] /\ op[c].pc = "write" /\ op'[c].pc = "autoRegister"
  BY DEF CommandInv, TextInv, WritesOnto
<1>2. op' # op
  BY <1>1
<1>3. PICK d \in Clients : \/ AddBegin(d) \/ AddMerge(d) \/ AddWrite(d) \/ RegisterBegin(d)
                           \/ RegisterRecurfile(d) \/ NotRegistered(d) \/ VerifyRecurfile(d)
  BY <1>2 DEF CommandsNext, commandVars, UserEdits, BuildSettings
<1>4. \E x : op' = [op EXCEPT ![d] = x]
  BY <1>3 DEF AddBegin, AddMerge, AddWrite, RegisterBegin, RegisterRecurfile, NotRegistered,
              VerifyRecurfile, Finish
<1>5. c = d
  BY <1>1, <1>4
<1> QED
  BY <1>1, <1>3, <1>5 DEF AddBegin, AddMerge, RegisterBegin, RegisterRecurfile, NotRegistered,
                          VerifyRecurfile

\* merge.go:15 and the merge in place: what an add that wrote onto the text it had read has
\* done to the groups, for all texts, fragments and commands.
THEOREM AddAlwaysAdds == ASSUME TextsAreTexts PROVE CommandsSpec => AddAddsGroups
<1> DEFINE Adds ==
      \A c \in Clients : WritesOnto(c) /\ Parse(file) # Invalid =>
        LET old == Parse(file)  fragment == Parse(op[c].fragment) IN
        /\ Common(c) = {} => Parse(file').groups = old.groups \o fragment.groups
        /\ \A n \in DOMAIN fragment.groups :
             (/\ Len(fragment.groups) = 1 /\ fragment.groups[n].name \in Common(c)
              /\ PlainAtEnd(file, fragment.groups[n].name)
              /\ \A i \in DOMAIN fragment.groups[n].triggers : fragment.groups[n].triggers[i].actions = <<>>)
             => Parse(file').groups = ExpectedMerge(old, fragment.groups[n])
<1>1. ASSUME CommandInv, [CommandsNext]_commandVars PROVE Adds
  <2> SUFFICES ASSUME NEW c \in Clients, WritesOnto(c), Parse(file) # Invalid
      PROVE  LET old == Parse(file)  fragment == Parse(op[c].fragment) IN
             /\ Common(c) = {} => Parse(file').groups = old.groups \o fragment.groups
             /\ \A n \in DOMAIN fragment.groups :
                  (/\ Len(fragment.groups) = 1 /\ fragment.groups[n].name \in Common(c)
                   /\ PlainAtEnd(file, fragment.groups[n].name)
                   /\ \A i \in DOMAIN fragment.groups[n].triggers :
                        fragment.groups[n].triggers[i].actions = <<>>)
                  => Parse(file').groups = ExpectedMerge(old, fragment.groups[n])
    OBVIOUS
  <2>1. AddWrite(c)
    BY <1>1, OnlyAddWrite
  <2>2. file' = op[c].merged
    BY <2>1 DEF AddWrite
  <2>3. op[c].pc = "write" /\ op[c].read = file /\ file # NoFile
    BY DEF WritesOnto
  <2>4. AddInv(c) /\ file \in Seq(TextLine)
    BY <1>1, <2>3 DEF CommandInv, TextInv
  <2>5. /\ op[c].fragment \in Seq(TextLine) /\ Parse(op[c].fragment) # Invalid
        /\ Parse(op[c].merged) # Invalid /\ op[c].merged = Merge(file, op[c].fragment)
    BY <2>3, <2>4 DEF AddInv
  <2>6. PICK fragment, m, common :
          /\ fragment = op[c].fragment /\ m = file'
          /\ common = GroupNames(Parse(file)) \intersect GroupNames(Parse(fragment))
    OBVIOUS
  <2>7. common = Common(c)
    BY <2>6 DEF Common
  <2>8. fragment \in Seq(TextLine) /\ Parse(fragment) # Invalid /\ Parse(m) # Invalid /\ m = Merge(file, fragment)
    BY <2>2, <2>5, <2>6
  <2>9. Adding(file, fragment, m, common)
    BY <2>4, <2>6, <2>8, MergeAdds
  <2> QED
    BY <2>6, <2>7, <2>9 DEF Adding
<1>2. CommandInv /\ [CommandsNext]_commandVars => [Adds]_commandVars
  BY <1>1
<1> HIDE DEF Adds
<1>3. CommandsSpec => [][Adds]_commandVars
  BY <1>2, CommandInvariant, PTL DEF CommandsSpec
<1> QED
  BY <1>3 DEF AddAddsGroups, Adds
=============================================================================
