# Formal models of recur

recur is a desktop automation daemon. A user writes *recurfiles*: groups of
triggers (a file appears, a timer fires, a device is connected) with the
actions to run for each. `recurd` registers the files, starts one plugin
process per active trigger, and runs the actions when a plugin reports an
event; `recur` is the command line that talks to it over gRPC.

This directory holds TLA+ modules of the daemon's core, the TLC runs that
check them on small instances, and theorems about them checked by TLAPS.
Paths below are relative to the repository root; `engine.go:91` is short for
a line of the file the section is about.

## 1. The system

| Component | State it keeps | Operations | Talks to |
|---|---|---|---|
| Trigger engine (`src/app/recurd/triggerengine/engine.go`) | `active`: the driver of every active trigger; per activation: `running`, the queue, the debounce timer and pending event, the abort handle; `stopped` | Activate, Deactivate, StopAll, one dispatch loop per activation, timer callbacks, action goroutines in four modes | registry (look-ups), drivers (Start, Stop, channel), executor, callbacks into the daemon |
| Plugin drivers (`triggerengine/external.go`) | the process, three channels (`events`, `done`, `exited`) | Start, Stop, monitorProcess | router, operating system |
| Event router (`triggerengine/router.go`) | trigger ID to channel | Register, Deregister, Deliver | drivers, API |
| Registry (`daemon/registry.go`, `daemon/entity_index.go`) | recurfiles, groups, triggers, actions by ID; an index by name and by ID prefix | register, deregister, suspend, resume, look-ups, snapshot, restore | API, engine, state file |
| API service (`daemon/api.go`) | none of its own | the gRPC handlers: each is a sequence of registry, engine and state-file steps, and handlers run concurrently | all of the above |
| Daemon (`daemon/daemon.go`) | configuration, plugin list, `done` | Run: recover, load, scan the app folder, serve, shut down; saveState, loadState; the engine's callbacks | all of the above |
| State file (`src/infra/jsonfile/state`, `src/infra/fs/atomicfile`) | `state.json` and its temporary files | Write, Recover, Load | daemon; `recur` reads it |
| Action execution and secrets (`daemon/action.go`, `src/infra/subprocess/executor`, `src/infra/secret`) | a process per action in progress; the redactor's set of values; the result counts of actions | resolve secrets, redact, render options, build the environment, run with a timeout, kill, account | engine, API, registry |
| Configuration (`pkg/config`, `src/domain/config`, `src/infra/yaml/config`) | layered maps, a cached overlay, `config.yaml` | Get, Set, Delete, overlay, save | API, daemon, `recur config` |
| Recurfile processing (`src/domain/recurfile`, `src/infra/yaml/recurfile`) | the text of a file | parse, merge a fragment, expand aliases, inherit actions, validate, compute settings | `recur add`, `register`, `verify`; registry |
| Process life cycle (`daemon.go`, `src/infra/os/process`, `src/infra/grpc`, `src/app/recur/cli`) | PID file, socket, app folder | start, stop, restart, signals, install and remove apps | daemon |
| Plugins (`src/infra/fs/plugin`, `src/infra/yaml/manifest`, `cli/plugin.go`) | plugin directories, `d.plugins` | discover, validate, install, uninstall | API, registry |

What is hard here is concurrency without a single lock: gRPC handlers,
dispatch loops, timer callbacks, action goroutines, process monitors and the
engine's callbacks interleave, and hold references (an `*activeTrigger`, a
channel, a context) past the moment the entity was removed or replaced. A
handler is not atomic: it changes the registry, then the engine, then the
file. The daemon may die between any two of these, and its plugins at any
time. `PROJECT.json` lists the hazards, each at its line.

What makes each component correct:

- *Engine*: one live activation per trigger; in queue and drop mode one action
  at a time; in queue mode order is kept and nothing is left in a queue nobody
  drains; in abort mode the new action replaces the old one; no event is
  handled twice; Deactivate and StopAll return.
- *Drivers and router*: a channel is closed once, after it has left the
  router, and before Stop returns; no clean-up of an old driver touches a
  newer one; no process outlives its activation.
- *Registry*: the maps and the index agree; reloading a file replaces it as a
  whole; suspensions survive a reload only as the code says.
- *API and daemon*: whatever handlers ran concurrently, in the end a trigger
  has a driver exactly if it is registered and active; what was acknowledged
  is in the state file and survives a restart.
- *State file*: a reader sees a complete snapshot; recovery after a crash
  never goes back behind a completed save.
- *Configuration*: the cached overlay is never out of date; an answered change
  is in the daemon and in the file; what `recur config` shows is what the daemon
  uses; a request changes the fields it is about.
- *Recurfile processing*: `add` adds what was asked for and changes nothing
  else; what is registered is what the file says once its names are read through
  the aliases; a setting is that of the most specific layer.
- *Life cycle*: a serving daemon is the one the PID file and the socket lead to;
  "stopped" means stopped, the state saved and the files gone; SIGTERM ends the
  process, unless a test hangs; apps of the folder that a daemon can load are
  registered, and no others.
- *Execution*: no secret in the log; an action is disabled by the failures in a
  row its threshold says; a run ends that is cancelled, or whose processes have
  a deadline.
- *Plugins*: memory and disk agree when commands are over; nothing is active
  without its plugin, unless the user resumed it; a suspension by uninstall lasts
  until the next registration or until the user resumes.

## 2. Plan

The order is by what a mistake costs the user: events lost or handled twice,
drivers and processes out of step with the registry, state lost over a restart,
then the directories, and last the pure computations.

| # | Module | Component | State |
|---|---|---|---|
| 1 | `TriggerEngine`, refining `EventFlow` | engine | done |
| 2 | `PluginDriver`, refining `DriverContract` | drivers, router | done |
| 3 | `StateFile`, extended by `DaemonService` | state file; API handlers, callbacks, `Daemon.Run` | done for triggers |
| 4 | `EntityIndex`, extended by `Registry` | index, registry with groups and actions, requests by identifier | done |
| 5 | `ConfigStore`, extending `StateFile` | layers, overlay cache, requests and commands, `config.yaml` | done |
| 6 | `RecurfileText`, `RecurfileResolve`, both extended by `RecurfileCommands` | parser, merging, aliases, settings; add, register, verify | done |
| 7 | `AppFolder`, extended by `Lifecycle` | app bundles; PID file, socket, start, stop, restart | done |
| 8 | `Execution` | action runs, secrets, redaction, accounting | done |
| 9 | `Plugins` | install, uninstall, discovery, suspension by plugin | done |

Composition: `DaemonService` extends `StateFile` and uses the engine as the
set of its active triggers; `TriggerEngine` uses drivers by the contract that
`PluginDriver` is shown to keep, and the registry as a variable other
goroutines write. `ConfigStore` uses the atomic writes of `StateFile` for
`config.yaml`; `Lifecycle` and `Plugins` replace `state.json` in one step,
because `DaemonService` has the steps. `Execution` is what `TriggerEngine` calls
an action in progress.

Every safety property that a passing run checks is a theorem (section 5); every liveness
property is left to TLC.

## 3. The modules

**`TriggerEngine`.** Numbers stand for `*activeTrigger` objects and for events;
0 is nil. `active`, `stopped` and `mutex` are the fields of `Engine`; `act`
holds the fields of each `activeTrigger`; `chan` and `driver` are what the
engine sees of a driver. `disp` says where every dispatch loop and every debounce
callback is in `submitEvent`, `worker` where every goroutine started by
`dispatchWithConcurrency` is. Sections under `at.mu` are single actions; a
section under `e.mutex` that blocks (Deactivate in abort mode, StopAll) is
split, with `mutex` held. `select` picks either of two ready cases. The registry
appears as three actions of other goroutines (`SetStatus`, `Register`,
`Deregister`). A nil dereference or a close of a closed channel sets
`panicked`.

**`EventFlow`** is the promise for one event: produced, waiting, in one
worker's hands, gone. `TriggerEngine!Stage` maps the engine to it.

**`PluginDriver`.** One number per `externalDriver`. `caller` is the engine's
call of Start or Stop (one at a time, since `e.mutex` is held), `monitor` is
`monitorProcess`, `report` the ReportTriggerEvent handlers between the look-up
of a channel and the send. `done`, `closed` and `exited` are the closed
channels. `BothClose` and `LateDelivery` name the two windows in which a crash of
the plugin makes the daemon panic: the properties of liveness are about behaviours
without them, and say of those that nothing panics. **`DriverContract`** is what the
engine expects (`driver.go`).

**`StateFile`.** Names refer to inodes, so that two saves within one
millisecond share a temporary file as they do on disk. `save` says where every
writer is between the snapshot, `os.WriteFile` and `os.Rename`; opening
truncates. Recovery is two steps: promotion, clean-up. `doubtful` records
history: saves overlapped or failed, or a crash left a torn file, since a save
last had the file to itself.

**`DaemonService`.** `task` says where every handler and callback is; a task is
the sequence the code is (registry, engine per trigger, snapshot, file), other
goroutines in between. `held` is the set of triggers of which the task has a
pointer to the object in the registry: a registration takes them away, and what
the old object says is then not known. `life` is `Daemon.Run`: recover, load,
scan the app folder, save, activate, serve; StopAll, GracefulStop, save, exit;
a crash at any point. Recurfiles on disk may be edited or become unreadable.
Whether an error reaches the threshold is a free choice: the count is left
out. Three history variables say where the properties make no claim:
`excused` (requests for a trigger overlapped, or its plugin failed to start),
`lossy` (a doubtful file was loaded), and `acknowledged` (the suspensions a
client was told of).

**`EntityIndex`** is the list, the two maps and the set of removed positions,
field by field. **`Registry`** adds the four maps. An ID is its seed, so the
parent of an entity is part of its ID, as it is in the hash; collisions are
left out. A name stands for its lower-case form, a prefix for the set of IDs
that have it. An operation that holds `r.mutex` changes the maps at once, since
nobody can read them, and the index entry by entry (`todo`), since look-ups
take the index's own lock only. `inode` says which file a path refers to, so
that one file may have two paths, from the start or later. `request` says
where a request by identifier is between its look-up and its change.
`registered` and `tainted` are history: what the registered files say, and
whether a registration occurred that the properties exempt (two groups of one
name; a reload that replaced another path's entry). Statuses are kept and
changed as in the code, but what becomes of them is the subject of
`DaemonService`.

**`ConfigStore`.** `layers`, `cache` and `config` are the fields of the store
and of the daemon. A `Config` is copied field by field, but its `Plugins` is a
reference: `heap` holds the maps, and layers, cache, `d.config` and copies may
share one. A section under the store's lock is an action; a request for a plugin
key is copy, change in place, replace. `op` says where each request or
command is, `settled` whether the last change had the store for itself. A
command opens `config.yaml` as a process of its own, with the recovery that goes
with it.

**`RecurfileText`** holds a text as lines with column, key and value, so
that `MergeYAML`, which works on lines, is modelled by what it does to them, and
`Parse` reads them as the YAML parser and the schema do. **`RecurfileResolve`** has aliases
(with the random order of a map as a choice), inheritance, the chain of
settings and the checks. **`RecurfileCommands`** has the commands as steps,
with a user who edits the file in between.

**`AppFolder`** says which file of a directory is its recurfile, and which of its
files a daemon can load. **`Lifecycle`** has one entry in `proc` per process: where
`Daemon.Run` is, what it has registered, whether SIGTERM came, whether it runs an
action for a client (`TestCall`, `TestReturns`). `pidFile`, `socket` and `saved`
are files and outlive it. `ctl` and `inst` say where each command is; a wait
may time out at any point, and a registration may be `Refused`. Deferred functions run
in the code's order, and a file an earlier process left is found by the next one. A
process that came to the end of `Daemon.Run` has `exited`, one that crashed or got
SIGTERM without a handler was `killed`. `final` (what processes that came to
their end had registered) and `replaced` (registrations that an install has lost
sight of) are history.

**`Execution`.** A run is a goroutine with its list of actions: secrets,
redactor, rendering, process, accounting, log. Runs share the registry's
objects without a lock, hence the separate steps `account` and `count`. An option is the set
of secrets its template names, its value the set of secret values in it; one that is
given by name and in the shorthand form has either value, since a map is iterated. A
process may print all it was given, and hang; the timer fires if there is one, and
`Timeouts` says which: an action's option may be absent, a duration, no duration at all,
or zero, which for a plugin action takes away the default of 30 s. Secrets may be
replaced, files reloaded and actions suspended at any time. `streak` counts
failures in a row; `excused` and `displaced` say where overlapping runs void a
claim.

**`Plugins`.** A directory is a set of parts, copied and removed one by
one; `loaded` is `d.plugins`, read and replaced in separate steps; `entity`
says of each type who owns it and whether it is suspended; `recur suspend` and
`recur resume` change the registry (`StatusCommand`) and then the file
(`StatusPersist`), whoever the owner is. The daemon may start, stop and crash between
any two steps. History are `stopped`, what an uninstall suspended since the last
registration and has not been resumed, and `resumed`, what the user resumed since.

Definitions whose comment begins with "Mutant of" are not part of any
specification: each is a plausible bug, with which the property it is paired
with in `PROJECT.json` fails.

## 4. The runs

| Run | Bounds | What it shows |
|---|---|---|
| `engine_safety` | one trigger, one activation, three events, a channel of two, one registry change; a setting for each of the four modes, abort also with a debounce | one worker at a time; queue order; nothing stranded; the action of an abort starts when the old one has ended, cancelled or not, as long as no two dispatchers have come to that wait together (the run reaches both cases; section 6 has the other); every event handled at most once (`EventFlow`) |
| `engine_liveness` | two activations, two events; queue or abort | activations do not overlap; Deactivate and StopAll return; loops end; queues drain |
| `engine_reload_panic` | a reload that changes the mode | **violated**: abortCancel is nil when the action in progress was started in queue or drop mode, and calling it panics |
| `driver` | two triggers, two drivers, two reports, a channel of one | routing; the contract; Stop and the monitor end, and nothing panics, but for two crash windows named in the properties |
| `service` | two recurfiles (one an app) with a trigger each, two concurrent tasks, two of crash, failing save and edit, any number of orderly restarts | engine and file follow the registry; suspensions survive; a stopped engine stays empty |
| `registry` | two paths, two files, two contents, one request at a time beside registrations, four requests in all, one change of a link, compaction at four | index, maps and readers agree with the registered files; no look-up out of range |
| `config` | two clients, three requests, commands or starts; three plain keys, one plugin key, one of the keys with a fallback | the cache is the overlay of the layers; daemon, file and command line agree once changes are answered; a request changes no other field |
| `recurfile` | one client, three edits or commands, eight texts, 14 lines | what add merges; what is registered; which layer a setting comes from |
| `recurfile_merge` | the same | **violated**: `merge.go:135` appends to a slice that shares its array with the lines that follow, so that an add loses the line `do:` or the header of the next group |
| `lifecycle` | one app, four bundles (one that no daemon can load, one refused), one operator, one installer, three processes, one crash, tests that may hang | a serving daemon is the named one; stop and restart stop, and a daemon that came to its end has saved and left no file; SIGTERM ends, unless a test hangs; the registry follows the app folder |
| `execution` | two recurfiles with a secret each, two triggers, three actions, two runs, two starts, one change from outside | no secret in the log; thresholds; runs that are cancelled end, and those of plugin actions that have a timeout |
| `plugins` | three plugins (one not valid), two clients, four commands, three starts, ends or failures | disk, `d.plugins` and registry agree; suspensions last until registration or resume |

Every module states a type invariant, `TypeOK`. It was checked while the module
was written; the runs are kept for the properties that relate more than one
piece of state, so no configuration lists it. The engine's, the service's and the
configuration's are proved.

*Why the bounds are enough.* Races in the engine are between a goroutine, one
that follows it, and an API call: three events give a running, a queued and an
arriving one, so that a full queue, a drain that ends during an append and an
abort of an abort all occur; a second activation adds the leftovers of the
first. Two drivers for one trigger are an old and a new one. In the service
every interference is between two tasks; startup and shutdown save as well, so
that up to three saves overlap. Two disturbances allow a crash in the middle of
recovery from a crash. In the registry four requests allow a registration, a
reload, a removal and a registration again; a file has up to six entries, so
with a threshold of four compactions happen in the middle of a reload as well
as at its end (the code's threshold of fifty is a parameter of the proof).
`MaxStamp` and `MaxInode` are larger than any behaviour
needs: the `service` run checks deadlock, and a save that could not go on for
want of a stamp or an inode would be one. The other passing runs allow
deadlock, since an engine whose events and a registry whose requests are used up,
or a daemon that has panicked, stops. Handlers are interchangeable, hence the symmetry in
`service` and `config`. In `config` two requests overlap and a third, or a
restart, follows, which is what a lost update and a stale cache take. In
`recurfile` three steps are an edit, an add to what it wrote and a registration;
the texts have every place a merge looks for and three that are refused. In
`lifecycle` three processes are a crashed daemon, its successor and a restart;
its users are `Patient`: nobody starts a daemon while another start is under way,
because nothing locks the PID file (section 6). In
`execution` two runs suffice, since what runs share, they share in pairs. In
`plugins` four commands are an install, an uninstall, a registration or a resume, and
an install again.

*Fairness.* Goroutines that can run do run: weak fairness for each loop,
callback, worker and call. Taking `e.mutex` gets strong fairness, since a
`sync.Mutex` in starvation mode hands over to a waiter. An action need not
end; only a cancelled one does (the executor kills it). A plugin may ignore
SIGTERM for ever, not SIGKILL, and timers fire. `QueueDrains` assumes in
addition that no action runs for ever. In `Lifecycle` daemons and the commands of
installers go on; operators need not, so `TermStops` does not depend on anyone
waiting. Of tests nothing is assumed there: that the process's tests come to an end is a
hypothesis of `TermStops`. In `Execution` goroutines go on and a timer that was set
fires, and nothing is assumed of processes.

## 5. Proofs

All for every value of the constants, under the named assumptions of the
modules (bounds are natural numbers, settings and contents are well formed, `Torn`
and `NoFile` are no content of a file). Each argument has its inductive
invariant; for most of these properties that is much larger than the property, and
what was added is said here.

**Engine** (`TriggerEngineProofs`).

- `TypeCorrect`: `TypeOK`, inductive by itself. The part that is more than types: a
  goroutine past its look-up has an activation.
- `OneLiveAlways`: `OneLiveActivation`. Not inductive: Activate could find
  no entry while an old activation was still live. Added are that an entry in
  `e.active` belongs to its trigger (`ActiveOwned`) and that what Deactivate
  or StopAll is waiting for has been cancelled (`StoppingCancelled`).
- `EventsFlow`: the engine implements `EventFlow`, with any settings and however
  they change. The initial state maps to the initial state, and every step is a step of
  `EventFlow` or leaves every event's stage alone (`EventStep`). `FlowInv`: an event is
  in one place (a channel, a queue, a debounce slot, a dispatcher's hands) or in one
  worker's (`OnePlace`), nothing is in a channel or a queue twice, and who
  is past the point where it got an event has one.
- `WorkAlwaysSerial` (`SerialWork`) and `NothingStranded` (`NoStrandedEvent`), both
  for a user who changes no settings: `at.running` is shared by the modes, so
  that after a change from abort to queue a queued action does run beside the one in
  progress (section 4, `engine_reload_panic`). `SerialInv` carries the mode from
  the settings through the dispatcher to the worker, and says that in queue and drop
  mode `at.running` is true exactly while the one worker is there, and that a queue is
  non-empty only then.
- `AlwaysInOrder`: `HandledInOrder`, also when a loop that a former activation has left
  behind queues events for the present one. Over the other invariants, `OrderInv`
  follows an event from its channel: a channel is sorted, whatever has left it is
  older than what is in it, and what its loop has in hand is the newest that has left it
  (`Arrivals`), so that it goes to the end of any queue. Besides unchanged settings the
  hypothesis is a queue mode without debounce (`Undebounced`, kept by
  `TimersElsewhere`): two debounce callbacks are two goroutines, and the second may reach
  `at.mu` first.
- `AbortAlwaysReplaces`: `AbortReplaces`, for a user who changes no settings. It counts the
  cancelled workers too, and speaks of timers, loops of former activations and debounce; its
  hypothesis, `[]OneWaits`, names what goes wrong: while a dispatcher waits for the old action,
  another one of the activation is past its look-up. `AbortInv`: `at.running` is true
  exactly while the one worker is there, `abortDone` is its channel, and who waits,
  waits for it. Without the hypothesis the property is false (`OneAbortWorker`, section 6).

**Drivers** (`DriverAndRecurfileProofs`).

- `RoutedAlwaysOpen`: `RoutedIsOpen`. `RouteInv` says that a channel is registered
  under its owner's trigger, that after its monitor has deregistered it it stays
  deregistered, because Start registers before the monitor runs, and that only the
  monitor closes it.
- `CurrentAlwaysRouted`: `CurrentIsRouted`. Deregister goes by the trigger's ID, so an
  old driver's clean-up could remove a newer one's route. That it does not needs
  `OpenIsCurrent` (an open channel is the current driver's, so there is one per
  trigger) and what Start and Stop are called for (`CallerOwns`).
- `DriversKeepContract`: every step of the drivers is a step of `DriverContract` or a
  stutter (`KeepsContract`), from the same invariant.

**Recurfiles** (`DriverAndRecurfileProofs`). They have nothing to do with the drivers; the
two share a module because each is small. Assumed is that texts are texts and names are
strings (`TextsAreTexts`), never what a text says or how many there are. Lines have
their keys from `Strings`, which is `STRING` with the literals that the argument meets,
since the provers do not know that a literal is a string.

- `RegisteredAlwaysAsWritten`: `RegisteredAsWritten`. What the daemon has is the
  resolution of a text that parses (`RegisteredInv`); what add has in hand is a text and
  what it merged is the merge of what it read (`TextInv`), however the user edits in
  between. The rest is about `Resolve`: every trigger keeps its place, it has its own actions
  or else the group's, and a name that its alias has replaced, which inherited actions
  pass through twice, is not replaced again if no alias leads to an alias.
- `SettingsAlwaysFollow`: `SettingsFollowChain`. The chain is overlaid layer by layer,
  by a recursive function; of five layers the uppermost that has the setting wins
  (`OverlayOfFive`, `UppermostWins`).
- `AddAlwaysAdds`: `AddAddsGroups`. A merge copies lines to other places, and what a line
  means depends on the lines above it: its parent is the nearest one further left. `Copied`
  says that a stretch of lines is found again further down with the same nesting; such lines are
  read as the same groups, triggers and actions. A fragment behind the text (`AppendedGroups`)
  is two such stretches. For a merge into the last group, `Grows` says that the text is
  unchanged and new items follow; as items of the sections' column they belong to the
  last section of the text, which must be the `on:` of that group, as the text parses and
  has neither `do:` nor `triggers:` behind the group's header (`PlainAtEnd`). So this one
  group grows by what was added (`GrownGroups`), and `MergeGrows` shows that the lines which
  `MergeYAML` writes are of that form. The attempt showed that
  `PlainAtEnd` said too little: of a group with both `on:` and `triggers:` the parser
  reads `on:` only (`parse.go:177-186`), and an add to it may write where nobody reads.

**Service** (`DaemonServiceProofs`).

- `StoppedAlways`: `StoppedStaysEmpty`, inductive by itself; the one action that could
  break it is the activation by a request in progress, which the engine refuses.
- `ServiceTypeCorrect`: `TypeOK`. Not inductive: what is written to a file must be a
  snapshot (`SnapshotsHeld`), nothing runs before the state is loaded (`AtRest`),
  and a pointer held by a handler is to a trigger of the registry (`HeldKnown`).
- `EngineAlwaysFollows`: `EngineFollowsRegistry`. `Roles` says which steps each kind of
  request goes through and that its work is on the triggers it is about. `Fine(t)`
  is per trigger: the daemon has not come to it yet (`NotYet`), or at most one handler
  works on it and is midway in a known place (`Midway`: the registry says one
  thing, the engine still another), or engine and registry agree, or the trigger is
  excused. The theorem is the case in which nobody works on it.
- `FileAlwaysFollows`: `FileFollowsRegistry`. `FileInv`: saves belong to tasks
  (`SaveTasks`), no two names lead to one inode (`Names`), a save that has been alone
  since it began has in its temporary file what it is to have (`Alone`), and while
  nothing is doubtful the registry is in the file or somebody has yet to take a
  snapshot (`Clean`).
- `SuspensionAlwaysSurvives`: `SuspensionSurvives`. An acknowledged suspension is
  in the registry, in the hands of whoever works on the trigger, in the snapshot of the
  save in progress, and in whatever file a recovery might promote (`Remembered`); one
  about to be acknowledged is in its save already (`Suspends`); before the load
  there is nothing else to remember (`Unread`).

**Registry** (`RegistryProofs`).

- `SoundAlways`: `IndexSound` of `EntityIndex`, for the specification `Registry`.
  It holds for files with two groups of one name too. Added is that the list
  is a sequence and that every name has its set of positions. The one lemma
  that needs thought is that a non-empty set of positions has a last one,
  from the well-foundedness of the naturals.
- `MapsAlwaysHold`: `MapsHoldRegistered`. `Holds` says more of the maps than which
  IDs they have: a recurfile's value lists the groups of its content, and a group's
  value the triggers and actions of that group. A removal needs it, since it takes
  away what these lists name, and a reload is a removal and an addition. That a
  removal takes nothing else rests on the IDs: the recurfile can be read off each
  (`OwnersOf`), so files have none in common (`Disjoint`). Assumed of the contents is their shape
  (`IsContent`: lists of groups, triggers and actions), never how many there are.
  The lists are put together with `FlattenSeq`, a recursive function: `FlatExists` and
  `FlattenList` show, by a least length that fails, that it exists and what elements it gives.
- `IndexAlwaysFinds`: `IndexFindsRegistered`, which speaks of the states in which nobody
  is changing the index. In between, `IndexInv` says, the registered references are the
  live entries that are not about to be removed and those about to be added. It needs
  that removals come before additions and that no ID is added twice (`Orderly`), so that
  a reload does not take away what it has just put in; that the references of a file have
  IDs of their own (`Proper`, which files with two groups of one name do not have); that the
  ID of a live entry leads to it (`LiveFound`), across compactions too, which keep every
  live entry once (`Ranks`); and `Holds`, since a removal takes its IDs from the maps.
  `LookupMeans` then compares the index's search with the resolution order over the
  registered references.
- `ViewsAlwaysAgree`: `ViewsAgree`, from `Holds` alone. The lists of a file's groups have
  nothing in common and nothing twice (`ListedFacts`), so that their length counts what
  the scan finds (`UniqueCount`); `SaidFacts` gives a bijection from the triggers as the
  file lists them to their IDs, and `RunsItsOwn` says that an action whose parent is a
  trigger is in the list of that trigger's group.

**Configuration** (`ConfigStoreProofs`).

- `CacheAlwaysOverlay`: `CacheIsOverlay`, inductive by itself. Every step is one of four
  kinds (`CacheKept`): it changes neither the layers nor the cache, drops the cache,
  fills it from the layers, or begins anew.
- `ConfigTypeCorrect`: `TypeOK`. Which kind of client is at which step (`Calls`)
  is needed for the texts and documents that it has in its hands.
- `FieldsAlwaysFollow`: `FieldsFollowRequests`, an action property; added is that a
  copy of the layer in a request's hands is the layer as it is, unless it has been
  marked stale (`Copies`).
- `SettledAlwaysAgrees`: `SettledAgrees`. The longest argument: that no two
  names lead to one file (`Named`), that a request which began alone and was not
  joined is alone (`Solo`, in five parts, of which `Tidy` says that there is no
  temporary file that a recovery could promote), and how far such a request has
  brought memory and file (`OnTheWay`). The property speaks of states in which
  nobody is at work; `Agreement` is its inductive form, where clients may be
  there that have changed nothing.
- `CommandAlwaysShows`: `CommandShowsEffective`, from the same invariant and from what
  the daemon reports as its launch arguments (`Launched`).

The last two assume `ExpandsOnce`: expanding an expanded text changes nothing.
Without it they are false, because a save writes expanded values and the next load expands
them again (section 6).

**Life cycle** (`LifecycleProofs`), for users who wait (`Patient`; section 6 says what
happens otherwise).

- `ServingAlwaysNamed`: `ServingIsNamed`. `OneDaemon`: one process is alive at most
  (`OneAlive`), PID file and socket are its own between the steps that write and remove
  them (`FilesLead`), and a command that is about to launch finds none alive, one that
  waits has the process that it signalled (`Controlled`).
- `StopAlwaysStops`: `StoppedMeansStopped`, which of a process that came to its end says
  that its files are gone and that the state file is what it had registered last. Added, in
  `EndInv`, is that a handler still at work has its process alive (`CallsAnswered`), so that
  the last save is of the last registry; that the process at the end has removed
  its files (`Tidied`); and that they stay away and the saved state stays while somebody
  waits (`StaysTidy`), which needs that nobody launches meanwhile.
- `AppsAlwaysFollow`: `AppsFollowFolder`, which says nothing of the times at which a
  command runs or a daemon starts. `FolderInv` does. `NothingMissing`: an app that is
  there and can be loaded is registered in a daemon that has scanned the folder, or among what the
  scan has still to look at, or a command is on its way to register or remove it
  (`OnItsWay`). `NothingElse`: what is registered is there or was replaced, but for the
  moment at which an install has removed one directory and not yet put the other
  in its place. `KnownFollows`: the state file and what dead processes had registered
  name nothing that a start could restore wrongly. `CommandHeld`: the directory that a
  command relies on is there at each of its steps, and its server is the only
  daemon. `NobodyLaunches`: no daemon starts meanwhile. Steps are by what they
  leave alone: the folder and its commands (`ProcessesKeep`), the folder
  (`CommandKeeps`), the processes (`DirectoryKeeps`).
  The hypothesis is `OneCommandPerApp`, that no two app commands are about one app at a
  time; with one installer, as in the run, it always holds, for more the theorem is
  about other instances than the run's. It cannot be dropped: nothing locks an app's
  directory, and if the daemon handles the registration of an install after the
  deregistration of a remove, which then removes the directory, the daemon has an app
  that is gone.

**Execution** (`ExecutionProofs`).

- `LogAlwaysHides`: `LogHidesSecrets`. `SecretsHeld`: from its second half of the
  resolution on a run's secrets are in the redactor, unless another run has put its
  own there since, and what a process is given and prints is of them.
- `FailuresAlwaysDisable`: `FailuresDisable`, of actions whose plugin has never failed with
  a report of success (section 6). Accounting is in two steps without a
  lock. `Counted` says that an action's count is its streak, but for a failure about to
  be counted, and that from the failure that reaches the threshold on somebody is
  there to disable it; `Generation`, that a run may be about an object a reload
  has replaced.

**Plugins** (`PluginsProofs`).

- `SuspensionOutlives`: `SuspendedUntilResumed`. Not inductive: a start reads
  `state.json`. Added are that what is suspended is so in the file or will be when a
  handler goes on (`SavedOrPending`), that handlers run in a daemon that is up
  (`ServedWhileUp`) and that a command is about a package (`Targeted`). Most
  steps are `Harmless`: of one client, and without a change of the daemon, the
  registry or the file.
- `OrphansAlwaysSuspended`: `OrphansAreSuspended`, of entities that have an owner and that
  the user has not resumed since (section 6). A state without a command under way
  says nothing of how it came about; `OwnersHeld` says that the owner of an entity
  is loaded, or the entity is suspended, or an uninstall of that owner is about to
  suspend it. `Registering` is needed for the step that gives entities owners out
  of an older copy of `d.plugins`: while a registration is in progress, it says,
  nothing but excused namespaces has gone from the list. `KnownInv` has the types: a
  directory holds parts of the package of its name (`DirsKnown`), the lists hold
  packages.
- `MemoryAlwaysFollows`: `MemoryFollowsDisk`. `Follows` says, for a package that is not
  excused, that at most one command is about it, how far the directory and the list
  are apart at each step of that command (`Amid`), and that without one they agree
  (`Settled`). One lemma (`TouchesOne`) shows that a step about one package leaves the
  others' part alone; each action is then one package's affair. The hypothesis is
  that no identifier, name or namespace, is that of two packages (`Distinct`, which the
  instance of the run satisfies). It cannot be dropped: install refuses a namespace that is
  loaded, but nothing compares names with namespaces, and a daemon that starts takes
  two directories of one namespace; `recur uninstall` by such an identifier may take
  one package from the daemon and the other from disk. The two theorems above
  do not need it.

What discovery, look-up and resolution give is proved of `Keep`, which stands for the
loops that filter a list (`KeepElements`: the elements kept are those of the set). It is
a recursive function, so that it exists is shown by the least length for which it
would not (`KeptExists`).

Only model-checked is everything about liveness, which is out of the provers' reach, as
is `ENABLED`.

## 6. What is not modelled, and known divergences without a run

`PROJECT.json` lists every component with its status. Not modelled are:

- terminal output, wording, templates beyond the secrets they name, and YAML
  below the level of lines and keys: they keep no state;
- generated gRPC code and the conversion of messages;
- commands and handlers that make one request and print the answer (status,
  list, inspect): they change nothing, and the look-ups they rest on are in
  `Registry`;
- packing, unpacking and downloading archives: a bundle is a set of files;
- notes, times, logging, driver factories;
- reuse of process IDs, fsync and loss of power: a crash is the end of a process.

### Stated, violated, without a run of its own

The module states each of these as a property, which TLC finds violated under the
instance of the module's run (for `StartRefuses` with `Patient` false and two operators, for
`NothingLeftBehind` with the contents named); no configuration lists it.

| Property | Code | Says | What happens |
|---|---|---|---|
| `TriggerEngine!OneAbortWorker`, for abort with debounce, or after the trigger was activated again | `engine.go:266` | `daemon-lifecycle.md:64`, `:80` | two callbacks that waited for the same aborted action both start one, side by side; so do the loop of a former activation, past its receive, and that of the present one |
| `TriggerEngine!ErrorOnlyOnCrash` | `engine.go:179` | the comments at `engine.go:55`, `:75` | stopping a trigger on purpose may count as an error |
| `PluginDriver!NoPanic` | `external.go:203`, `router.go:53` | `daemon-lifecycle.md:39` | a crash during Stop or Deliver closes a channel twice or sends on a closed one; `CallsReturn` assumes these two windows away by name |
| `DaemonService!NeverCorrupt` | `atomicfile.go:92` | `daemon-lifecycle.md:20` | recovery promotes a truncated file |
| `DaemonService!SuspendedStaysSuspended` | `daemon.go:432` | `daemon-lifecycle.md:32` | a trigger fires while another request suspends it: the older snapshot wins |
| `Registry!NothingLeftBehind`, for two groups of one name | `registry.go:225` | the comment at `registry.go:263` | removing the file leaves the first group's triggers |
| `ConfigStore!TakesEffect` | `api.go:129` | `daemon-internals.md:89` | executors keep the configuration of the start |
| `Lifecycle!StartRefuses`, for users who do not wait | `start.go:33` | `cli.md:68` | starts that overlap, or one before the last daemon has written its PID file, start two daemons, which take each other's socket and PID file |
| `Lifecycle!TermEnds` | `server.go:52` | `daemon-lifecycle.md:15`, `:81` | GracefulStop waits for every call, without the ShutdownTimeout: a `recur test` whose action hangs keeps a daemon that got SIGTERM up for ever |
| `Execution!EnvHidesSecrets`, for an option in the shorthand form | `action.go:132`, `:255` | `plugin-protocol.md:149-158`, `requirements/plugins.md:126` | the secret is noted under `_shorthand`, so the option's own name is not left out of the environment of the plugin's process |

### Other divergences and remarks

Engine, service and registry:

- below the error threshold a crashed plugin leaves its entry in `e.active`;
  the trigger looks active, has no process, and registering its file is what
  brings it back (`daemon.go:305`);
- removing or suspending a trigger cancels its action in progress
  (`engine.go:145`; `daemon-lifecycle.md:37`, `cli-commands.md:201` say it may
  complete);
- shutdown does not wait for actions (`engine.go:164`; `daemon-lifecycle.md:15`);
- requests for the same trigger that overlap can leave a driver for a trigger
  that is suspended or removed (`api.go:611`); the properties of `service`
  exempt such triggers;
- a trigger's error count is never reset (`daemon.go:302`;
  `daemon-lifecycle.md:30` says consecutive errors);
- a look-up during a registration sees part of it: an identifier that is
  ambiguous before and after may resolve to a single entity in between
  (`registry.go:306`; `entity-resolution.md:20` says it is refused);
- a typed request takes the first of several matches, in random order for a
  prefix (`registry.go:328`; `entity-resolution.md:30` says it is refused);
- when two registered paths have become one file, reloading one of them may
  replace the other's entry and leave its own old entities (`registry.go:117`).

Configuration:

- a save writes the values with `${VAR}` expanded, and the next start expands what it
  reads: a variable whose value contains a `$` gives another value after a restart
  (`SettledAlwaysAgrees` assumes that there is none);
- a look-up by key reads the store twice, and the two may disagree;
- the socket address is reported as a launch argument whether or not it was one.

Recurfiles (`merge.go`):

- the `do:` of a trigger of the fragment is left out of the merge; a fragment
  with several groups is merged for the first common one only; an appended
  `aliases:` replaces the file's; a group that has its triggers under
  `triggers:` gets an `on:` that hides them, and one that has both may get lines under
  the one that the parser ignores. `AddAddsGroups` leaves these out;
- inherited actions are expanded twice, which shows if an alias leads to an
  alias (`resolve.go`);
- a group's `trigger_error_threshold` is ignored (`daemon-lifecycle.md:75`);
- a setting of the wrong type counts as 0;
- two adds to one file that overlap lose one of the changes.

Life cycle:

- SIGTERM before `Notify`, or after `signal.Stop`, ends the process at once,
  with nothing saved, and like a crash leaves the PID file and the socket behind
  (`StoppedMeansStopped` says of such a process only that it is gone);
- an app whose recurfile cannot be loaded stays in the folder: install has put it there
  before the daemon refuses it, and a start skips it; app list shows it as not registered;
- a daemon whose listen fails removes the PID file before the deferred save;
- with `recur app install --force` an app whose recurfile has another name leaves
  the old registration; two installers at once, or one that does not wait for
  the daemon, can leave an app unregistered until the next start;
- `stop` only sends SIGTERM (`cli.md:72` says it uses the API);
- `Shutdown` and `d.done` are used by tests only.

Execution:

- a plugin that reports `success: true` is believed whatever its exit code, and its
  streak of failures ends (`plugin-protocol.md:184` says a non-zero code counts);
  `FailuresDisable` leaves actions out from then on;
- `allowed_exit_codes` (`daemon-lifecycle.md:79`, `plugin.shell.md:42`) is not in the
  code: any non-zero exit of a shell action is a failure;
- a `timeout` of `0s` or less takes away the 30 s that a plugin's request has by
  default (`action.go:151`), so that its run may hang for ever, like that of a
  shell action without one; `RunsEnd` says what ends nevertheless;
- an option given by name and in the shorthand form has the value that comes last in the
  random order of a map (`action.go:132`);
- the redactor knows the secrets of the last run that resolved any;
- testing a trigger runs all actions of its group, suspended ones too
  (`api.go:691`; the comment at `api.go:665` says its associated actions);
- a resumed action keeps its error count; runs that overlap lose increments.

Plugins:

- a namespace that is taken is refused by a running daemon only, and the
  directory stays (`cli.md:282`); the binary is not looked at;
- uninstall suspends what uses the plugin (`cli.md:300`, `requirements/cli-commands.md:37`
  and `:256` say it refuses);
- resume does not ask for the plugin (`api.go:600`, `:647`): what an uninstall has
  suspended can be resumed without it, and `OrphansAreSuspended` exempts that;
- what is registered, or loaded at a start, when no plugin declares its type has no owner and
  is active;
- executors and driver factories keep the plugin list of the start;
- a type that two plugins declare belongs to the one installed first, after a
  restart to the first by name;
- an identifier that is the name of one plugin and the namespace of another, or the
  namespace of two, makes `recur uninstall` remove one from the daemon and
  possibly another from disk (`discovery.go:272`, `plugin.go:152`);
- commands that overlap can leave memory and disk apart until the next start
  (`api.go:750`); the map of a plugin's configuration has no lock, and two
  requests that meet in it end the daemon (`keys.go:218`).
