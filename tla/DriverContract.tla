---------------------------- MODULE DriverContract ----------------------------
(***************************************************************************)
(* What the trigger engine expects of drivers (triggerengine/driver.go):   *)
(* a started driver's channel delivers events until it is closed, it is    *)
(* closed once, Stop returns only after that, and no trigger ever has two  *)
(* drivers with an open channel.                                           *)
(***************************************************************************)
EXTENDS Naturals

CONSTANTS Triggers, Drivers, ChanCap

VARIABLES
  channel,  \* the state of every driver's event channel
  serves,   \* the trigger a driver was created for
  buffered, \* number of events in the channel
  released  \* the drivers Stop has returned for

vars == <<channel, serves, buffered, released>>

Init ==
  /\ channel = [d \in Drivers |-> "none"]
  /\ serves \in [Drivers -> Triggers]
  /\ buffered = [d \in Drivers |-> 0]
  /\ released = {}

Start(d) ==
  /\ channel[d] = "none"
  /\ \A other \in Drivers : serves[other] = serves[d] => channel[other] # "open"
  /\ channel' = [channel EXCEPT ![d] = "open"]
  /\ UNCHANGED <<serves, buffered, released>>

Deliver(d) ==
  /\ channel[d] = "open"
  /\ buffered[d] < ChanCap
  /\ buffered' = [buffered EXCEPT ![d] = @ + 1]
  /\ UNCHANGED <<channel, serves, released>>

Receive(d) ==
  /\ buffered[d] > 0
  /\ buffered' = [buffered EXCEPT ![d] = @ - 1]
  /\ UNCHANGED <<channel, serves, released>>

Close(d) ==
  /\ channel[d] = "open"
  /\ channel' = [channel EXCEPT ![d] = "closed"]
  /\ UNCHANGED <<serves, buffered, released>>

StopReturns(d) ==
  /\ channel[d] = "closed"
  /\ released' = released \union {d}
  /\ UNCHANGED <<channel, serves, buffered>>

Next == \E d \in Drivers : Start(d) \/ Deliver(d) \/ Receive(d) \/ Close(d) \/ StopReturns(d)

Spec == Init /\ [][Next]_vars
=============================================================================
