------------------------------ MODULE Execution ------------------------------
(***************************************************************************)
(* The execution of actions: the callback the daemon gives to the engine   *)
(* (src/app/recurd/daemon/daemon.go), the tests of triggers and actions    *)
(* (api.go), the executors (action.go), templates and processes            *)
(* (src/infra/subprocess/executor) and secrets (src/infra/secret).         *)
(*                                                                         *)
(* A run is a goroutine that goes through a list of actions: those of a    *)
(* trigger that fired, those of a group whose trigger is tested, or one.   *)
(* Runs share the actions of the registry, without a lock, and the set of  *)
(* values the log is cleared of.  An option is the set of secrets its      *)
(* template names, its value the set of secret values it then contains;    *)
(* of the rest of its text it only matters whether there is any.  A process may print     *)
(* whatever it was given, and may hang.                                    *)
(*                                                                         *)
(* A definition whose comment begins with "Mutant of" is no part of the    *)
(* specification; see TriggerEngine.                                       *)
(***************************************************************************)
EXTENDS Naturals, Sequences, FiniteSets, SequencesExt

CONSTANTS
  Runs,      \* goroutines
  Triggers,  \* triggers, each with its list of actions
  Actions,
  Files,     \* recurfiles
  FileOf,    \* the recurfile of every trigger
  ActionsOf, \* the actions of every trigger, in order
  GroupOf,   \* the actions of every trigger's group, in order
  PluginOf,  \* the plugin of every action, NoPlugin for the shell
  NoPlugin,
  Loaded,    \* the plugins the executors know: those found when the daemon started
  Options,   \* the options of every action: [secrets, text, malformed] by name
  Declared,  \* what the manifest declares for an action: a sequence of
             \* [name, shorthand, sensitive]
  Timeouts,  \* the timeout every action asks for: none, off (empty or "0"), zero (a duration,
             \* as "0s", that is not positive), valid or invalid
  Threshold, \* ErrorThreshold of every action
  Defs,      \* the secrets of every recurfile: a set of [name, source, ref, default, required]
  Values,    \* what a secret can be
  Empty, Missing, \* an empty secret, and none
  Holds,     \* what may be found at every reference
  MaxStarts, \* bound: runs
  MaxTrouble \* bound: changes of a secret, of a status or of a recurfile, and cancellations

Contents == Values \union {Empty, Missing}
Refs     == {d.ref : d \in UNION {Defs[f] : f \in Files}}
Fixed    == {d.ref : d \in {e \in UNION {Defs[f] : f \in Files} : e.source = "env"}}

ASSUME ExecutionAssumption ==
  /\ FileOf \in [Triggers -> Files]
  /\ ActionsOf \in [Triggers -> Seq(Actions)] /\ GroupOf \in [Triggers -> Seq(Actions)]
  /\ \A t \in Triggers : ActionsOf[t] # <<>> /\ ToSet(ActionsOf[t]) \subseteq ToSet(GroupOf[t])
  /\ \A s, t \in Triggers : s # t => ToSet(ActionsOf[s]) \intersect ToSet(ActionsOf[t]) = {}
  /\ Timeouts \in [Actions -> {"none", "off", "zero", "valid", "invalid"}]
  /\ Threshold \in [Actions -> Nat]
  /\ NoPlugin \notin Loaded
  /\ \A a \in Actions : Timeouts[a] # "none" <=> "timeout" \in DOMAIN Options[a]
  /\ {Empty, Missing} \intersect Values = {}
  /\ Holds \in [Refs -> SUBSET Contents]
  /\ {MaxStarts, MaxTrouble} \subseteq Nat

VARIABLES
  store,    \* the contents of environment, secret files and keyring
  redactor, \* Redactor.secrets
  object,   \* every action of the registry: [count, status, gen]; gen tells the objects apart
            \* that a reload makes
  run,      \* every goroutine
  starts, trouble, \* what the bounds count
  displaced, \* history: runs whose secrets another run has replaced in the redactor
  leaked,    \* history: secret values that reached the log, and whether they were displaced
  streak,    \* history: failures of every action since its last success
  excused    \* history: actions with overlapping runs, resumed after an error, or whose plugin
             \* reported success with an exit code that says otherwise

history == <<displaced, leaked, streak, excused>>
vars    == <<store, redactor, object, run, starts, trouble, history>>

File(a) == FileOf[CHOOSE t \in Triggers : a \in ToSet(ActionsOf[t])]

NoSecrets == <<>>
NoResult  == [success |-> FALSE, denied |-> FALSE, error |-> {}]

Idle == [pc |-> "idle", kind |-> "fire", todo |-> <<>>, gen |-> 0, secrets |-> NoSecrets,
         cancelled |-> FALSE, env |-> {}, given |-> {}, result |-> NoResult, read |-> 0]

Action(r) == Head(run[r].todo)

Init ==
  /\ store \in [Refs -> Contents] /\ \A ref \in Refs : store[ref] \in Holds[ref]
  /\ redactor = {}
  /\ object = [a \in Actions |-> [count |-> 0, status |-> "active", gen |-> 0]]
  /\ run = [r \in Runs |-> Idle]
  /\ starts = 0 /\ trouble = 0
  /\ displaced = {} /\ leaked = {} /\ streak = [a \in Actions |-> 0] /\ excused = {}

-----------------------------------------------------------------------------
(* Secrets. *)

\* Resolver.Resolve of env, file and keyring: the value of a secret, Missing for an error.
Resolve(d) ==
  LET v == store[d.ref] IN
  IF d.source = "env" /\ v \in {Missing, Empty}
  THEN IF d.default # Empty THEN d.default ELSE IF d.required THEN Missing ELSE v
  ELSE v

\* composite.Resolver.ResolveAll: one that fails fails them all.
ResolveAll(defs) ==
  IF \E d \in defs : Resolve(d) = Missing
  THEN {NoSecrets}
  ELSE {[n \in {d.name : d \in defs} |-> Resolve(CHOOSE d \in defs : d.name = n)]}

\* Mutant of UpdateSecrets: a set that was filled is not replaced.
UpdateSecretsOnce(secrets) ==
  IF redactor = {} THEN {secrets[n] : n \in DOMAIN secrets} \ {Empty} ELSE redactor

\* Redactor.UpdateSecrets: the values of this recurfile replace those of any other.
UpdateSecrets(secrets) == {secrets[n] : n \in DOMAIN secrets} \ {Empty}

\* Redactor.Handle: a record is cleared of the values the redactor knows at that time.
Logged(r, words) ==
  leaked' = leaked \union {[value |-> w, displaced |-> r \in displaced] : w \in words \ redactor}

-----------------------------------------------------------------------------
(* Options and what becomes of them. *)

\* ResolveTemplate: fails on a malformed template and on a secret that was not resolved.
Resolves(o, secrets) == ~o.malformed /\ o.secrets \subseteq DOMAIN secrets

\* What a resolved option contains of secrets.
Words(o, secrets) == {secrets[n] : n \in o.secrets} \ {Empty}

\* ResolveOptions: all options or none, and the names of those that used a secret.
Resolvable(a, secrets) == \A k \in DOMAIN Options[a] : Resolves(Options[a][k], secrets)
SensitiveKeys(a)       == {k \in DOMAIN Options[a] : Options[a][k].secrets # {}}

\* Whether a resolved option is the empty string.
Blank(o, secrets) == ~o.text /\ Words(o, secrets) = {}

\* shellExecutor: where the command is, the shorthand unless it is empty; "none" if there is
\* none.
CommandKey(a, secrets) ==
  LET given == {k \in {"_shorthand", "command"} \intersect DOMAIN Options[a] :
                  ~Blank(Options[a][k], secrets)}
  IN CASE "_shorthand" \in given -> "_shorthand"
       [] given = {"command"} -> "command"
       [] given = {} -> "none"

\* InstalledPlugin.FindShorthandOption: the option marked as shorthand, else the first one.
FindShorthandOption(a) ==
  LET marked == SelectSeq(Declared[a], LAMBDA o : o.shorthand)
  IN IF marked # <<>> THEN {marked[1].name}
     ELSE IF Declared[a] # <<>> THEN {Declared[a][1].name} ELSE {}

\* pluginExecutor: the options the plugin gets, by name, without those meant for the daemon.
\* A shorthand value takes the name of the shorthand option.
PluginKeys(a) ==
  ((DOMAIN Options[a] \ {"_shorthand"})
     \union (IF "_shorthand" \in DOMAIN Options[a] THEN FindShorthandOption(a) ELSE {}))
    \ {"env", "command", "timeout"}

\* Where the value of such an option comes from.  If the recurfile has the shorthand and the
\* option it stands for, the one that the loop over the map meets last.
Source(a, k, last) ==
  IF k \in DOMAIN Options[a] /\ ~(last = "_shorthand" /\ k \in FindShorthandOption(a))
  THEN k ELSE "_shorthand"

\* What the loop may end with.
Lasts(a) == ({"_shorthand"} \intersect DOMAIN Options[a]) \union {"an option"}

ManifestSensitive(a) == {o.name : o \in {p \in ToSet(Declared[a]) : p.sensitive}}

\* buildActionEnv: the options that are put into the environment, all but those of a name
\* that ResolveOptions noted or the manifest declares.
BuildActionEnv(a) == PluginKeys(a) \ (SensitiveKeys(a) \union ManifestSensitive(a))

\* The secret values in some options of a plugin.
Contained(a, keys, secrets, last) == UNION {Words(Options[a][Source(a, k, last)], secrets) : k \in keys}

\* The secret values that reach the process: in the command, or in the JSON on its input.
Given(a, secrets, last) ==
  IF PluginOf[a] = NoPlugin
  THEN Words(Options[a][CommandKey(a, secrets)], secrets)
  ELSE Contained(a, PluginKeys(a), secrets, last)

\* Mutant of HasTimeout: as if the plugin's request had no default.
HasTimeoutNoDefault(a) == Timeouts[a] = "valid"

\* Whether a process is killed after some time.  A plugin has a default of 30 seconds, which
\* any duration replaces; Execute sets no deadline for one that is not positive.
HasTimeout(a) ==
  IF PluginOf[a] = NoPlugin THEN Timeouts[a] = "valid" ELSE Timeouts[a] # "zero"

-----------------------------------------------------------------------------
(* The steps of a run. *)

Set(r, changes) ==
  run' = [run EXCEPT ![r] = [k \in DOMAIN Idle |-> IF k \in DOMAIN changes THEN changes[k] ELSE run[r][k]]]

\* Whether a run is between its check of an action and its last access to it.
Uses(r, a) ==
  run[r].pc \notin {"idle", "next"} /\ run[r].kind = "fire" /\ Action(r) = a

\* executeActions takes the actions of the trigger; TestTrigger those of the group, after it
\* has resolved the secrets; TestAction one.
Begin(r, kind, t, actions) ==
  /\ run[r].pc = "idle" /\ starts < MaxStarts
  /\ run' = [run EXCEPT ![r] =
       [Idle EXCEPT !.pc = IF kind = "fire" THEN "next" ELSE "secrets",
                    !.kind = kind, !.todo = actions]]
  /\ starts' = starts + 1
  /\ displaced' = displaced \ {r}
  /\ UNCHANGED <<store, redactor, object, trouble, leaked, streak, excused>>

Fire(r, t)        == Begin(r, "fire", t, ActionsOf[t])
TestTrigger(r, t) == Begin(r, "test", t, GroupOf[t])
TestAction(r, t)  == \E a \in ToSet(ActionsOf[t]) : Begin(r, "test", t, <<a>>)

\* The loop of executeActions: actions that are not active are passed over.
NextAction(r) ==
  /\ run[r].pc = "next"
  /\ IF run[r].todo = <<>>
     THEN run' = [run EXCEPT ![r] = Idle] /\ UNCHANGED excused
     ELSE LET a == Action(r) IN
          IF object[a].status # "active"
          THEN Set(r, [todo |-> Tail(run[r].todo)]) /\ UNCHANGED excused
          ELSE /\ Set(r, [pc |-> "secrets", gen |-> object[a].gen])
               /\ excused' = IF \E q \in Runs \ {r} : Uses(q, a) THEN excused \union {a} ELSE excused
  /\ UNCHANGED <<store, redactor, object, starts, trouble, displaced, leaked, streak>>

\* resolveSecretsInto: a failure leaves the context as it is.
ResolveSecrets(r) ==
  /\ run[r].pc = "secrets"
  /\ LET defs == Defs[File(Action(r))] IN
     \E secrets \in ResolveAll(defs) :
       IF secrets = NoSecrets
       THEN Set(r, [pc |-> "exec"])
       ELSE Set(r, [pc |-> "redact", secrets |-> secrets])
  /\ UNCHANGED <<store, redactor, object, starts, trouble, history>>

\* Its second half.
UpdateRedactor(r) ==
  /\ run[r].pc = "redact"
  /\ Set(r, [pc |-> "exec"])
  /\ redactor' = UpdateSecrets(run[r].secrets)
  /\ displaced' = (displaced \ {r}) \union {q \in Runs \ {r} : run[q].secrets # NoSecrets}
  /\ UNCHANGED <<store, object, starts, trouble, leaked, streak, excused>>

\* The executors get as far as to start a process.
Runnable(a, secrets) ==
  /\ Resolvable(a, secrets)
  /\ IF PluginOf[a] = NoPlugin THEN CommandKey(a, secrets) # "none" ELSE PluginOf[a] \in Loaded

\* On to the next action of the list; a test does not come back to the secrets.
Onwards(r) ==
  IF run[r].kind = "test" /\ Len(run[r].todo) = 1 THEN Idle
  ELSE [pc |-> IF run[r].kind = "fire" THEN "next" ELSE "exec", todo |-> Tail(run[r].todo),
        given |-> {}, env |-> {}, result |-> NoResult, read |-> 0]

\* Execute returns: the callback looks at the result, a test hands it to the client.
Returns(r, result) ==
  Set(r, IF run[r].kind = "test" THEN Onwards(r)
         ELSE [pc |-> "account", result |-> result, given |-> {}, env |-> {}])

\* A run without a process: plugin unknown, template error, no command, process not started.
FailResult(r) == Returns(r, NoResult)

\* actionDispatcher.Execute up to the start of the process, which may fail; with a context
\* that is cancelled it does.
Execute(r) ==
  /\ run[r].pc = "exec"
  /\ LET a == Action(r)
         secrets == run[r].secrets
     IN \/ FailResult(r)
        \/ /\ Runnable(a, secrets) /\ ~run[r].cancelled
           /\ \E last \in Lasts(a) :
                Set(r, [pc |-> "running",
                        env |-> IF PluginOf[a] = NoPlugin THEN {}
                                ELSE Contained(a, BuildActionEnv(a), secrets, last),
                        given |-> Given(a, secrets, last)])
  /\ UNCHANGED <<store, redactor, object, starts, trouble, history>>

\* ExecutionResult: for a plugin that printed the JSON object, its word for it, even if its
\* exit code denies it.
Outcome(a, exit, printed, said) ==
  LET success == IF PluginOf[a] # NoPlugin /\ printed # "text" THEN printed = "success"
                 ELSE exit = "zero"
  IN [success |-> success, denied |-> success /\ exit # "zero", error |-> said]

\* The process ends by itself, having printed anything of what it was given.
Exit(r) ==
  /\ run[r].pc = "running"
  /\ \E exit \in {"zero", "nonzero"}, printed \in {"text", "success", "failure"},
        said \in SUBSET run[r].given :
       Returns(r, Outcome(Action(r), exit, printed, said))
  /\ UNCHANGED <<store, redactor, object, starts, trouble, history>>

\* It is killed, because of its timeout or because the run was cancelled.
Kill(r) ==
  /\ run[r].pc = "running"
  /\ HasTimeout(Action(r)) \/ run[r].cancelled
  /\ \E printed \in {"text", "success", "failure"}, said \in SUBSET run[r].given :
       Returns(r, Outcome(Action(r), "nonzero", printed, said))
  /\ UNCHANGED <<store, redactor, object, starts, trouble, history>>

\* The words of the warning about a timeout that does not parse.
Warning(r) ==
  LET a == Action(r) IN
  IF Runnable(a, run[r].secrets) /\ Timeouts[a] = "invalid"
  THEN Words(Options[a]["timeout"], run[r].secrets) ELSE {}

\* Whether the object a run holds is still the one of the registry.
Current(r) == run[r].gen = object[Action(r)].gen

\* What a run of the current object that was not cancelled adds to the history.  A failure
\* is what the documentation calls one, a failure reported or a non-zero exit; the code
\* takes the plugin's word for it.
Remember(r) ==
  LET a == Action(r) IN
  /\ streak' = [streak EXCEPT ![a] =
       IF run[r].result.success /\ ~run[r].result.denied THEN 0 ELSE @ + 1]
  /\ excused' = IF run[r].result.denied THEN excused \union {a} ELSE excused

\* Mutant of Account: a cancelled run is counted like any other.
AccountCancelled(r) ==
  /\ run[r].pc = "account"
  /\ Logged(r, Warning(r))
  /\ LET a == Action(r) IN
     IF run[r].result.success
     THEN /\ Set(r, Onwards(r))
          /\ object' = IF Current(r) THEN [object EXCEPT ![a].count = 0] ELSE object
     ELSE /\ Set(r, [pc |-> "count", read |-> object[a].count])
          /\ UNCHANGED object
  /\ IF Current(r) /\ ~run[r].cancelled THEN Remember(r) ELSE UNCHANGED <<streak, excused>>
  /\ UNCHANGED <<store, redactor, starts, trouble, displaced>>

\* The callback after Execute: warnings, then nothing for a cancelled run, a reset for a
\* successful one; a failed one reads the count it will increment.
Account(r) ==
  /\ run[r].pc = "account"
  /\ Logged(r, Warning(r))
  /\ LET a == Action(r) IN
     IF run[r].cancelled
     THEN Set(r, Onwards(r)) /\ UNCHANGED object
     ELSE IF run[r].result.success
     THEN /\ Set(r, Onwards(r))
          /\ object' = IF Current(r) THEN [object EXCEPT ![a].count = 0] ELSE object
     ELSE /\ Set(r, [pc |-> "count", read |-> object[a].count])
          /\ UNCHANGED object
  /\ IF Current(r) /\ ~run[r].cancelled THEN Remember(r) ELSE UNCHANGED <<streak, excused>>
  /\ UNCHANGED <<store, redactor, starts, trouble, displaced>>

\* a.ErrorCount++, which is not atomic.
Count(r) ==
  /\ run[r].pc = "count"
  /\ Set(r, [pc |-> "log"])
  /\ object' = IF Current(r) THEN [object EXCEPT ![Action(r)].count = run[r].read + 1] ELSE object
  /\ UNCHANGED <<store, redactor, starts, trouble, history>>

\* The failure is logged; at the threshold the action is disabled and the state saved.
Report(r) ==
  /\ run[r].pc = "log"
  /\ Logged(r, run[r].result.error)
  /\ Set(r, Onwards(r))
  /\ LET a == Action(r) IN
     object' = IF Current(r) /\ Threshold[a] > 0 /\ object[a].count >= Threshold[a]
               THEN [object EXCEPT ![a].status = "error"] ELSE object
  /\ UNCHANGED <<store, redactor, starts, trouble, displaced, streak, excused>>

-----------------------------------------------------------------------------
(* The rest of the world. *)

Trouble == trouble < MaxTrouble /\ trouble' = trouble + 1

\* A secret file or the keyring changes; the environment of a process does not.
Rotate(ref) ==
  /\ Trouble /\ ref \notin Fixed
  /\ \E v \in Holds[ref] \ {store[ref]} : store' = [store EXCEPT ![ref] = v]
  /\ UNCHANGED <<redactor, object, run, starts, history>>

\* The context of a run is cancelled: abort mode, Deactivate, a client that goes away.
Cancel(r) ==
  /\ Trouble /\ run[r].pc # "idle" /\ ~run[r].cancelled
  /\ Set(r, [cancelled |-> TRUE])
  /\ UNCHANGED <<store, redactor, object, starts, history>>

\* suspendAction
SuspendAction(a) ==
  /\ Trouble
  /\ object' = [object EXCEPT ![a].status = "suspended"]
  /\ UNCHANGED <<store, redactor, run, starts, history>>

\* resumeAction: the count of errors is left as it is.
ResumeAction(a) ==
  /\ Trouble
  /\ object' = [object EXCEPT ![a].status = "active"]
  /\ excused' = IF streak[a] >= Threshold[a] THEN excused \union {a} ELSE excused
  /\ UNCHANGED <<store, redactor, run, starts, displaced, leaked, streak>>

\* registerResolved: new objects for the actions of a recurfile.
Reload(f) ==
  LET mine == {a \in Actions : File(a) = f} IN
  /\ Trouble
  /\ object' = [a \in Actions |->
       IF a \in mine THEN [count |-> 0, status |-> "active", gen |-> object[a].gen + 1] ELSE object[a]]
  /\ streak' = [a \in Actions |-> IF a \in mine THEN 0 ELSE streak[a]]
  /\ excused' = excused \ {a \in mine : \A r \in Runs : ~Uses(r, a)}
  /\ UNCHANGED <<store, redactor, run, starts, displaced, leaked>>

-----------------------------------------------------------------------------
Step(r) ==
  \/ NextAction(r) \/ ResolveSecrets(r) \/ UpdateRedactor(r) \/ Execute(r)
  \/ Account(r) \/ Count(r) \/ Report(r)

Next ==
  \/ \E r \in Runs, t \in Triggers : Fire(r, t) \/ TestTrigger(r, t) \/ TestAction(r, t)
  \/ \E r \in Runs : Step(r) \/ Exit(r) \/ Kill(r) \/ Cancel(r)
  \/ \E ref \in Refs : Rotate(ref)
  \/ \E a \in Actions : SuspendAction(a) \/ ResumeAction(a)
  \/ \E f \in Files : Reload(f)

\* A goroutine runs on, and a timer fires; a process need not end.
Fairness == \A r \in Runs : WF_vars(Step(r) \/ Kill(r))

Spec == Init /\ [][Next]_vars /\ Fairness

-----------------------------------------------------------------------------
(* Properties. *)

Pcs == {"idle", "next", "secrets", "redact", "exec", "running", "account", "count", "log"}

\* Type correctness.
TypeOK ==
  /\ store \in [Refs -> Contents]
  /\ redactor \subseteq Values
  /\ \A a \in Actions :
       /\ object[a].count \in Nat /\ object[a].gen \in Nat
       /\ object[a].status \in {"active", "suspended", "error"}
  /\ \A r \in Runs :
       /\ run[r].pc \in Pcs /\ run[r].kind \in {"fire", "test"}
       /\ run[r].todo \in Seq(Actions)
       /\ run[r].pc \notin {"idle", "next"} => run[r].todo # <<>>
       /\ run[r].env \subseteq run[r].given /\ run[r].given \subseteq Values
  /\ displaced \subseteq Runs
  /\ excused \subseteq Actions

\* A secret an action was given is not in the log in clear, whatever the process prints and
\* however secrets change, unless another run has put its own secrets into the redactor since:
\* resolveSecretsInto tells the redactor before it lets the executor use them.
LogHidesSecrets == \A l \in leaked : l.displaced

\* What the documentation says of secrets and the environment of a plugin's process: none is
\* in it.  It does not hold, and no run checks it: a secret in the shorthand form of an option
\* is noted by ResolveOptions under "_shorthand", and buildActionEnv then sees the name of the
\* option that it stands for.
EnvHidesSecrets == \A r \in Runs : run[r].pc = "running" => run[r].env = {}

\* An action is disabled by as many failures in a row as its threshold says, and by nothing
\* less: not by tests, cancelled runs or the failures of an object that a reload replaced.
\* Excused are actions whose runs overlapped (increments and resets get lost), that were
\* resumed (they keep their count), or whose plugin once exited with an error and reported
\* success: the callback of the engine looks at result.Success only, though by
\* plugin-protocol.md:184 a non-zero exit counts.  Of a shell action any non-zero exit is a
\* failure; the allowed_exit_codes of daemon-lifecycle.md:79 are not in the code.
FailuresDisable ==
  \A a \in Actions \ excused :
    (Threshold[a] > 0 /\ \A r \in Runs : Uses(r, a) => run[r].pc \notin {"count", "log"}) =>
      /\ object[a].status = "active" => streak[a] < Threshold[a]
      /\ object[a].status = "error" => streak[a] >= Threshold[a]

\* Processes may hang.  A run through actions of plugins ends nevertheless, whatever their
\* options say of a timeout, nothing and nonsense included, save that a duration of zero or
\* less takes away the default that pluginExecutor gives its request.  And any run ends whose
\* context is cancelled, whatever is left of its list: abort mode and Deactivate wait for it
\* (engine.go:153, :266).
RunsEnd ==
  \A r \in Runs :
    (/\ run[r].pc # "idle"
     /\ \/ run[r].cancelled
        \/ \A i \in DOMAIN run[r].todo :
             PluginOf[run[r].todo[i]] # NoPlugin /\ Timeouts[run[r].todo[i]] # "zero")
      ~> (run[r].pc = "idle")
=============================================================================
