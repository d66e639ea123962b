--------------------------- MODULE ExecutionProofs ---------------------------
(***************************************************************************)
(* What is proved of Execution: what the log may show of secrets, and      *)
(* which failures disable an action.                                       *)
(***************************************************************************)
EXTENDS Execution, SequenceTheorems, TLAPS

Fields == {"pc", "kind", "todo", "gen", "secrets", "cancelled", "env", "given", "result", "read"}

\* The records have their fields.
Shapes ==
  /\ run = [r \in Runs |-> run[r]]
  /\ \A r \in Runs : DOMAIN run[r] = Fields
  /\ object = [a \in Actions |-> object[a]]
  /\ \A a \in Actions : DOMAIN object[a] = {"count", "status", "gen"}
  /\ streak = [a \in Actions |-> streak[a]]

\* A goroutine that is about an action has one, and only the callback accounts for it.
RunType(r) ==
  /\ run[r].pc \in Pcs /\ run[r].kind \in {"fire", "test"}
  /\ run[r].todo \in Seq(Actions)
  /\ run[r].pc \notin {"idle", "next"} => run[r].todo # <<>>
  /\ run[r].pc \in {"account", "count", "log"} => run[r].kind = "fire"

RunTypes == \A r \in Runs : RunType(r)

\* The secrets that a run resolved are in the redactor from its second half of the resolution
\* on, until another run puts its own there; what a process is given, and says, is of them.
SecretsHeld ==
  /\ \A r \in Runs :
       /\ run[r].pc = "redact" \/ r \in displaced \/ UpdateSecrets(run[r].secrets) \subseteq redactor
       /\ run[r].pc = "running" => run[r].given \subseteq UpdateSecrets(run[r].secrets)
       /\ run[r].pc \in {"account", "count", "log"} =>
            run[r].result.error \subseteq UpdateSecrets(run[r].secrets)
  /\ LogHidesSecrets

\* A run that is between the failure of the current object of an action and the end of its
\* account of it.
Failing(r, a)  == Uses(r, a) /\ run[r].gen = object[a].gen /\ run[r].pc \in {"count", "log"}
Counting(r, a) == Failing(r, a) /\ run[r].pc = "count"

\* The count is the streak, but for a failure that is about to be counted; an action is
\* disabled when nothing runs it, and from the failure on that reaches the threshold.
Counted(a) ==
  /\ \A r, q \in Runs : Uses(r, a) /\ Uses(q, a) => r = q
  /\ object[a].status = "error" =>
       Threshold[a] > 0 /\ streak[a] >= Threshold[a] /\ \A r \in Runs : ~Uses(r, a)
  /\ \A r \in Runs : Counting(r, a) => run[r].read = object[a].count /\ streak[a] = object[a].count + 1
  /\ (\A r \in Runs : ~Counting(r, a)) => streak[a] = object[a].count
  /\ Threshold[a] > 0 /\ object[a].status = "active" =>
       streak[a] < Threshold[a] \/ \E r \in Runs : Failing(r, a)

Generation(a) ==
  /\ object[a].gen \in Nat /\ streak[a] \in Nat
  /\ \A r \in Runs : Uses(r, a) => run[r].gen \in Nat /\ run[r].gen <= object[a].gen

FailuresCounted == \A a \in Actions : Generation(a) /\ (a \notin excused => Counted(a))

ExecutionInv == Shapes /\ RunTypes /\ SecretsHeld /\ FailuresCounted

-----------------------------------------------------------------------------
(* What the steps of a run do to it. *)

Others(r) == \A q \in Runs \ {r} : run'[q] = run[q]

\* The run is as it was, except for these fields.
Changes(r, fields) == \A k \in Fields \ fields : run'[r][k] = run[r][k]

LEMMA IdleFields ==
  /\ DOMAIN Idle = Fields
  /\ Idle.pc = "idle" /\ Idle.todo = <<>> /\ Idle.secrets = NoSecrets
  BY DEF Idle, Fields

LEMMA SetFacts ==
  ASSUME Shapes, NEW r \in Runs, NEW c, DOMAIN c \subseteq Fields, Set(r, c)
  PROVE  /\ Others(r)
         /\ \A k \in DOMAIN c : run'[r][k] = c[k]
         /\ Changes(r, DOMAIN c)
         /\ run' = [q \in Runs |-> run'[q]]
         /\ \A q \in Runs : DOMAIN run'[q] = Fields
  BY IdleFields DEF Shapes, Set, Others, Changes

\* A run that goes on in its list.
Onward(r) ==
  \/ run'[r] = Idle /\ run[r].kind = "test"
  \/ /\ run'[r].pc = (IF run[r].kind = "fire" THEN "next" ELSE "exec")
     /\ run'[r].todo = Tail(run[r].todo)
     /\ Len(run[r].todo) # 1 \/ run[r].kind = "fire"
     /\ Changes(r, {"pc", "todo", "given", "env", "result", "read"})

LEMMA OnwardFacts ==
  ASSUME Shapes, NEW r \in Runs, RunType(r), Set(r, Onwards(r))
  PROVE  Onward(r)
<1>1. DOMAIN Onwards(r) \subseteq Fields
  BY IdleFields DEF Onwards, Fields
<1>2. CASE run[r].kind = "test" /\ Len(run[r].todo) = 1
  <2>1. run'[r] = [k \in DOMAIN Idle |-> Idle[k]]
    BY <1>2 DEF Set, Onwards, Shapes
  <2>2. Idle = [k \in DOMAIN Idle |-> Idle[k]]
    BY DEF Idle
  <2>3. run'[r] = Idle
    BY <2>1, <2>2
  <2> QED
    BY <1>2, <2>3 DEF Onward
<1>3. CASE ~(run[r].kind = "test" /\ Len(run[r].todo) = 1)
  <2> DEFINE c == [pc |-> IF run[r].kind = "fire" THEN "next" ELSE "exec", todo |-> Tail(run[r].todo),
                   given |-> {}, env |-> {}, result |-> NoResult, read |-> 0]
  <2>1. Set(r, c)
    BY <1>3 DEF Onwards
  <2>2. DOMAIN c = {"pc", "todo", "given", "env", "result", "read"}
    OBVIOUS
  <2>3. c.pc = (IF run[r].kind = "fire" THEN "next" ELSE "exec") /\ c.todo = Tail(run[r].todo)
    OBVIOUS
  <2> HIDE DEF c
  <2>4. /\ run'[r]["pc"] = c["pc"] /\ run'[r]["todo"] = c["todo"]
        /\ Changes(r, {"pc", "todo", "given", "env", "result", "read"})
    BY <2>1, <2>2, SetFacts DEF Fields
  <2> QED
    BY <1>3, <2>3, <2>4 DEF Onward, RunType
<1> QED
  BY <1>2, <1>3

\* Where a run is may change, and what it holds of the process, and not what it is about.
Within(r) ==
  /\ run'[r].pc \in {"redact", "exec", "running", "account", "count", "log"}
  /\ run[r].pc \notin {"idle", "next"}
  /\ run'[r].pc \in {"account", "count", "log"} => run[r].kind = "fire"
  /\ Changes(r, {"pc", "secrets", "given", "env", "result", "read"})

LEMMA TypeKeeps ==
  ASSUME Shapes, RunTypes, NEW r \in Runs,
         Others(r), run' = [q \in Runs |-> run'[q]], DOMAIN run'[r] = Fields,
         \/ Onward(r) /\ run[r].todo # <<>>
         \/ Within(r)
         \/ run'[r] = Idle
         \/ run[r].pc = "next" /\ run'[r].pc = "next" /\ Changes(r, {"todo"}) /\ run'[r].todo = Tail(run[r].todo)
            /\ run[r].todo # <<>>
         \/ run[r].pc = "next" /\ run'[r].pc = "secrets" /\ Changes(r, {"pc", "gen"})
            /\ run[r].todo # <<>>
         \/ Changes(r, {"cancelled"})
  PROVE  RunTypes'
<1> USE DEF Fields
<1> SUFFICES RunType(r)'
  BY DEF RunTypes, RunType, Others
<1>1. RunType(r)
  BY DEF RunTypes
<1>2. run[r].todo # <<>> => /\ Tail(run[r].todo) \in Seq(Actions)
                            /\ Len(run[r].todo) # 1 => Tail(run[r].todo) # <<>>
  <2> HAVE run[r].todo # <<>>
  <2>1. /\ run[r].todo \in Seq(Actions) /\ Tail(run[r].todo) \in Seq(Actions)
        /\ Len(Tail(run[r].todo)) = Len(run[r].todo) - 1
    BY <1>1, HeadTailProperties DEF RunType
  <2>2. Len(<<>>) = 0 /\ Len(run[r].todo) \in Nat
    BY <2>1
  <2>3. Len(run[r].todo) # 1 => Len(Tail(run[r].todo)) # Len(<<>>)
    BY <2>1, <2>2
  <2> QED
    BY <2>1, <2>3
<1>0. ASSUME run'[r] = Idle PROVE RunType(r)'
  <2>1. <<>> \in Seq(Actions)
    OBVIOUS
  <2>2. /\ run'[r].pc = "idle" /\ run'[r].kind = "fire" /\ run'[r].todo = <<>>
    BY <1>0 DEF Idle
  <2> QED
    BY <2>1, <2>2 DEF RunType, Pcs
<1>3. CASE Onward(r) /\ run[r].todo # <<>>
  <2>1. CASE run'[r] = Idle
    BY <2>1, <1>0
  <2>2. CASE run'[r] # Idle
    <3>1. run'[r]["kind"] = run[r]["kind"] /\ run'[r].todo = Tail(run[r].todo)
      BY <1>3, <2>2 DEF Onward, Changes
    <3> QED
      BY <1>1, <1>2, <1>3, <2>2, <3>1 DEF RunType, Onward, Pcs
  <2> QED
    BY <2>1, <2>2
<1>4. CASE run'[r] = Idle
  BY <1>4, <1>0
<1>5. CASE Within(r)
  <2>1. run'[r]["kind"] = run[r]["kind"] /\ run'[r]["todo"] = run[r]["todo"]
    BY <1>5 DEF Within, Changes
  <2> QED
    BY <1>1, <1>5, <2>1 DEF RunType, Within, Pcs
<1>6. CASE Changes(r, {"cancelled"})
  <2>1. /\ run'[r]["pc"] = run[r]["pc"] /\ run'[r]["kind"] = run[r]["kind"]
        /\ run'[r]["todo"] = run[r]["todo"]
    BY <1>6 DEF Changes
  <2> QED
    BY <1>1, <2>1 DEF RunType
<1>7. CASE run[r].pc = "next" /\ run'[r].pc = "next" /\ Changes(r, {"todo"})
           /\ run'[r].todo = Tail(run[r].todo) /\ run[r].todo # <<>>
  <2>1. run'[r]["kind"] = run[r]["kind"]
    BY <1>7 DEF Changes
  <2> QED
    BY <1>1, <1>2, <1>7, <2>1 DEF RunType, Pcs
<1>8. CASE run[r].pc = "next" /\ run'[r].pc = "secrets" /\ Changes(r, {"pc", "gen"}) /\ run[r].todo # <<>>
  <2>1. /\ run'[r]["kind"] = run[r]["kind"] /\ run'[r]["todo"] = run[r]["todo"]
    BY <1>8 DEF Changes
  <2> QED
    BY <1>1, <1>8, <2>1 DEF RunType, Pcs
<1> QED
  BY <1>3, <1>4, <1>5, <1>6, <1>7, <1>8

Sound(r) == Shapes' /\ RunTypes' /\ Others(r)

\* The registry's objects keep their fields.
ObjectShapes ==
  /\ object = [a \in Actions |-> object[a]]
  /\ \A a \in Actions : DOMAIN object[a] = {"count", "status", "gen"}
  /\ streak = [a \in Actions |-> streak[a]]

\* A process is not started, or has ended.
Returned(r, result) ==
  \/ run[r].kind = "test" /\ Onward(r)
  \/ run[r].kind = "fire" /\ run'[r].pc = "account" /\ run'[r].result = result /\ Changes(r, {"pc", "result", "given", "env"})

LEMMA ReturnsEffect ==
  ASSUME Shapes, RunTypes, ObjectShapes', NEW r \in Runs, NEW result,
         run[r].pc \in {"exec", "running"}, Returns(r, result)
  PROVE  Sound(r) /\ Returned(r, result)
<1>1. RunType(r) /\ run[r].todo # <<>>
  BY DEF RunTypes, RunType
<1>2. CASE run[r].kind = "test"
  <2>1. Set(r, Onwards(r)) /\ DOMAIN Onwards(r) \subseteq Fields
    BY <1>2, IdleFields DEF Returns, Onwards, Fields
  <2>2. Onward(r)
    BY <1>1, <2>1, OnwardFacts
  <2>3. RunTypes' /\ Shapes' /\ Others(r)
    BY <1>1, <2>1, <2>2, SetFacts, TypeKeeps DEF Shapes, ObjectShapes
  <2> QED
    BY <1>2, <2>2, <2>3 DEF Sound, Returned
<1>3. CASE run[r].kind # "test"
  <2> DEFINE c == [pc |-> "account", result |-> result, given |-> {}, env |-> {}]
  <2>1. Set(r, c) /\ DOMAIN c = {"pc", "result", "given", "env"} /\ c["pc"] = "account" /\ c["result"] = result
    BY <1>3 DEF Returns
  <2> HIDE DEF c
  <2>2. /\ Others(r) /\ Changes(r, {"pc", "result", "given", "env"}) /\ run' = [q \in Runs |-> run'[q]]
        /\ \A q \in Runs : DOMAIN run'[q] = Fields
        /\ run'[r].pc = "account" /\ run'[r].result = result
    BY <2>1, SetFacts DEF Fields
  <2>3. Within(r)
    BY <1>1, <1>3, <2>2 DEF Within, Changes, RunType
  <2>4. RunTypes' /\ Shapes'
    BY <2>2, <2>3, TypeKeeps DEF Shapes, ObjectShapes
  <2> QED
    BY <1>1, <1>3, <2>2, <2>4 DEF Sound, Returned, RunType
<1> QED
  BY <1>2, <1>3

\* A step that changes the place of a run and these fields of it.
LEMMA WithinEffect ==
  ASSUME Shapes, RunTypes, ObjectShapes', NEW r \in Runs, NEW c, Set(r, c),
         {"pc"} \subseteq DOMAIN c, DOMAIN c \subseteq {"pc", "secrets", "given", "env", "result", "read"},
         c["pc"] \in {"redact", "exec", "running", "account", "count", "log"},
         run[r].pc \notin {"idle", "next"},
         c["pc"] \in {"account", "count", "log"} => run[r].kind = "fire"
  PROVE  Sound(r) /\ Changes(r, DOMAIN c) /\ \A k \in DOMAIN c : run'[r][k] = c[k]
<1>1. DOMAIN c \subseteq Fields
  BY DEF Fields
<1>2. /\ Others(r) /\ Changes(r, DOMAIN c) /\ run' = [q \in Runs |-> run'[q]]
      /\ \A q \in Runs : DOMAIN run'[q] = Fields
      /\ \A k \in DOMAIN c : run'[r][k] = c[k]
  BY <1>1, SetFacts
<1>3. Within(r)
  BY <1>1, <1>2 DEF Within, Changes
<1>4. RunTypes' /\ Shapes'
  BY <1>2, <1>3, TypeKeeps DEF Shapes, ObjectShapes
<1> QED
  BY <1>2, <1>4 DEF Sound

-----------------------------------------------------------------------------
(* The steps. *)

LEMMA RunObjects ==
  ASSUME Shapes, RunTypes, NEW r \in Runs, Step(r) \/ Exit(r) \/ Kill(r) \/ Cancel(r)
  PROVE  ObjectShapes'
<1>1. CASE Account(r) \/ Count(r) \/ Report(r)
  <2> DEFINE a == Action(r)
  <2>2. \/ object' = object
        \/ \E n : object' = [object EXCEPT ![a].count = n]
        \/ object' = [object EXCEPT ![a].status = "error"]
    BY <1>1 DEF Account, Count, Report
  <2>3. streak' = streak \/ \E n : streak' = [streak EXCEPT ![a] = n]
    BY <1>1 DEF Account, Remember, Count, Report, history
  <2> HIDE DEF a
  <2>4. object' = [b \in Actions |-> object'[b]] /\ \A b \in Actions : DOMAIN object'[b] = {"count", "status", "gen"}
    BY <2>2 DEF Shapes
  <2>5. streak' = [b \in Actions |-> streak'[b]]
    BY <2>3 DEF Shapes
  <2> QED
    BY <2>4, <2>5 DEF ObjectShapes
<1>2. CASE ~(Account(r) \/ Count(r) \/ Report(r))
  BY <1>2 DEF Step, NextAction, ResolveSecrets, UpdateRedactor, Execute, Exit, Kill, Cancel, history,
     ObjectShapes, Shapes
<1> QED
  BY <1>1, <1>2

LEMMA ResolveEffect ==
  ASSUME Shapes, RunTypes, NEW r \in Runs, ResolveSecrets(r)
  PROVE  /\ Sound(r)
         /\ \/ run'[r].pc = "redact" /\ Changes(r, {"pc", "secrets"})
            \/ run'[r].pc = "exec" /\ Changes(r, {"pc"})
<1>0. ObjectShapes' /\ run[r].pc = "secrets"
  BY RunObjects DEF Step, ResolveSecrets
<1>1. Set(r, [pc |-> "exec"]) \/ \E secrets : Set(r, [pc |-> "redact", secrets |-> secrets])
  BY DEF ResolveSecrets
<1>2. CASE Set(r, [pc |-> "exec"])
  <2> DEFINE c == [pc |-> "exec"]
  <2>1. DOMAIN c = {"pc"} /\ c["pc"] = "exec" /\ Set(r, c)
    BY <1>2
  <2> HIDE DEF c
  <2> QED
    BY <1>0, <2>1, WithinEffect
<1>3. CASE \E secrets : Set(r, [pc |-> "redact", secrets |-> secrets])
  <2> PICK secrets : Set(r, [pc |-> "redact", secrets |-> secrets])
    BY <1>3
  <2> DEFINE c == [pc |-> "redact", secrets |-> secrets]
  <2>1. DOMAIN c = {"pc", "secrets"} /\ c["pc"] = "redact" /\ Set(r, c)
    OBVIOUS
  <2> HIDE DEF c
  <2> QED
    BY <1>0, <2>1, WithinEffect
<1> QED
  BY <1>1, <1>2, <1>3

\* UpdateRedactor and Count only go on.
LEMMA GoOnEffect ==
  ASSUME Shapes, RunTypes, NEW r \in Runs, UpdateRedactor(r) \/ Count(r)
  PROVE  /\ Sound(r) /\ Changes(r, {"pc"})
         /\ run'[r].pc = (IF UpdateRedactor(r) THEN "exec" ELSE "log")
<1>0. ObjectShapes' /\ run[r].pc \in {"redact", "count"}
  BY RunObjects DEF Step, UpdateRedactor, Count
<1>1. run[r].pc = "count" => run[r].kind = "fire"
  BY DEF RunTypes, RunType
<1> DEFINE c == [pc |-> IF UpdateRedactor(r) THEN "exec" ELSE "log"]
<1>2. DOMAIN c = {"pc"} /\ c["pc"] = (IF UpdateRedactor(r) THEN "exec" ELSE "log") /\ Set(r, c)
  BY DEF UpdateRedactor, Count
<1>3. UpdateRedactor(r) <=> run[r].pc = "redact"
  BY DEF UpdateRedactor, Count
<1> HIDE DEF c
<1> QED
  BY <1>0, <1>1, <1>2, <1>3, WithinEffect

LEMMA ExecuteEffect ==
  ASSUME Shapes, RunTypes, NEW r \in Runs, Execute(r)
  PROVE  /\ Sound(r)
         /\ \/ Returned(r, NoResult)
            \/ /\ run'[r].pc = "running" /\ Changes(r, {"pc", "env", "given"})
               /\ Runnable(Action(r), run[r].secrets)
               /\ \E last \in Lasts(Action(r)) : run'[r].given = Given(Action(r), run[r].secrets, last)
<1>0. ObjectShapes' /\ run[r].pc = "exec"
  BY RunObjects DEF Step, Execute
<1>1. CASE FailResult(r)
  BY <1>0, <1>1, ReturnsEffect DEF FailResult
<1>2. CASE ~FailResult(r)
  <2> DEFINE a == Action(r)
  <2>0. PICK last \in Lasts(a) :
          /\ Runnable(a, run[r].secrets)
          /\ Set(r, [pc |-> "running",
                     env |-> IF PluginOf[a] = NoPlugin THEN {}
                             ELSE Contained(a, BuildActionEnv(a), run[r].secrets, last),
                     given |-> Given(a, run[r].secrets, last)])
    BY <1>2 DEF Execute
  <2> DEFINE c == [pc |-> "running",
                   env |-> IF PluginOf[a] = NoPlugin THEN {}
                           ELSE Contained(a, BuildActionEnv(a), run[r].secrets, last),
                   given |-> Given(a, run[r].secrets, last)]
  <2>1. Set(r, c) /\ Runnable(a, run[r].secrets)
    BY <2>0
  <2>2. /\ DOMAIN c = {"pc", "env", "given"} /\ c["pc"] = "running"
        /\ c["given"] = Given(a, run[r].secrets, last)
    OBVIOUS
  <2> HIDE DEF c
  <2> QED
    BY <1>0, <2>1, <2>2, WithinEffect
<1> QED
  BY <1>1, <1>2

LEMMA EndEffect ==
  ASSUME Shapes, RunTypes, NEW r \in Runs, Exit(r) \/ Kill(r)
  PROVE  Sound(r) /\ \E result : result.error \subseteq run[r].given /\ Returned(r, result)
<1>0. ObjectShapes' /\ run[r].pc = "running"
  BY RunObjects DEF Exit, Kill
<1>1. PICK exit \in {"zero", "nonzero"}, printed \in {"text", "success", "failure"}, said \in SUBSET run[r].given :
        Returns(r, Outcome(Action(r), exit, printed, said))
  BY DEF Exit, Kill
<1>2. Outcome(Action(r), exit, printed, said).error \subseteq run[r].given
  BY DEF Outcome
<1> QED
  BY <1>0, <1>1, <1>2, ReturnsEffect

LEMMA AccountEffect ==
  ASSUME Shapes, RunTypes, NEW r \in Runs, Account(r) \/ Report(r)
  PROVE  /\ Sound(r) /\ run[r].kind = "fire" /\ run[r].todo # <<>>
         /\ \/ Onward(r) /\ Set(r, Onwards(r))
            \/ /\ Account(r) /\ ~run[r].cancelled /\ ~run[r].result.success
               /\ run'[r].pc = "count" /\ run'[r].read = object[Action(r)].count
               /\ Changes(r, {"pc", "read"})
<1>0. ObjectShapes' /\ run[r].pc \in {"account", "log"}
  BY RunObjects DEF Step, Account, Report
<1>1. RunType(r) /\ run[r].todo # <<>> /\ run[r].kind = "fire"
  BY <1>0 DEF RunTypes, RunType
<1>2. CASE Set(r, Onwards(r))
  <2>1. Onward(r) /\ DOMAIN Onwards(r) \subseteq Fields
    BY <1>1, <1>2, OnwardFacts, IdleFields DEF Onwards, Fields
  <2>2. RunTypes' /\ Shapes' /\ Others(r)
    BY <1>0, <1>1, <1>2, <2>1, SetFacts, TypeKeeps DEF Shapes, ObjectShapes
  <2> QED
    BY <1>1, <1>2, <2>1, <2>2 DEF Sound
<1>3. CASE ~Set(r, Onwards(r))
  <2> DEFINE c == [pc |-> "count", read |-> object[Action(r)].count]
  <2>1. Set(r, c) /\ Account(r) /\ ~run[r].cancelled /\ ~run[r].result.success
    BY <1>3 DEF Account, Report
  <2>2. /\ DOMAIN c = {"pc", "read"} /\ c["pc"] = "count"
        /\ c["read"] = object[Action(r)].count
    OBVIOUS
  <2> HIDE DEF c
  <2> QED
    BY <1>0, <1>1, <2>1, <2>2, WithinEffect
<1> QED
  BY <1>2, <1>3

LEMMA NextEffect ==
  ASSUME Shapes, RunTypes, NEW r \in Runs, NextAction(r)
  PROVE  /\ Sound(r)
         /\ \/ run'[r] = Idle
            \/ /\ run'[r].pc = "next" /\ Changes(r, {"todo"})
            \/ /\ run'[r].pc = "secrets" /\ Changes(r, {"pc", "gen"}) /\ run[r].todo # <<>>
               /\ object[Action(r)].status = "active" /\ run'[r].gen = object[Action(r)].gen
<1>0. ObjectShapes' /\ run[r].pc = "next"
  BY RunObjects DEF Step, NextAction
<1>1. CASE run[r].todo = <<>>
  <2>1. run' = [run EXCEPT ![r] = Idle]
    BY <1>1 DEF NextAction
  <2>2. /\ run'[r] = Idle /\ Others(r) /\ run' = [q \in Runs |-> run'[q]]
        /\ \A q \in Runs : DOMAIN run'[q] = Fields
    BY <2>1, IdleFields DEF Others, Shapes
  <2> QED
    BY <1>0, <2>2, TypeKeeps DEF Sound, Shapes, ObjectShapes
<1>2. CASE run[r].todo # <<>> /\ object[Action(r)].status # "active"
  <2> DEFINE c == [todo |-> Tail(run[r].todo)]
  <2>1. Set(r, c) /\ DOMAIN c = {"todo"} /\ c["todo"] = Tail(run[r].todo)
    BY <1>2 DEF NextAction
  <2> HIDE DEF c
  <2>2. /\ Others(r) /\ run' = [q \in Runs |-> run'[q]] /\ \A q \in Runs : DOMAIN run'[q] = Fields
        /\ Changes(r, {"todo"}) /\ run'[r]["todo"] = c["todo"]
    BY <2>1, SetFacts, ZenonT(40) DEF Fields
  <2>3. run'[r]["pc"] = run[r]["pc"]
    BY <2>2 DEF Changes, Fields
  <2>4. run'[r].todo = Tail(run[r].todo)
    BY <2>1, <2>2
  <2> QED
    BY <1>0, <1>2, <2>2, <2>3, <2>4, TypeKeeps DEF Sound, Shapes, ObjectShapes
<1>3. CASE run[r].todo # <<>> /\ object[Action(r)].status = "active"
  <2> DEFINE c == [pc |-> "secrets", gen |-> object[Action(r)].gen]
  <2>1. Set(r, c) /\ DOMAIN c = {"pc", "gen"} /\ c["pc"] = "secrets" /\ c["gen"] = object[Action(r)].gen
    BY <1>3 DEF NextAction
  <2> HIDE DEF c
  <2>2. /\ Others(r) /\ run' = [q \in Runs |-> run'[q]] /\ \A q \in Runs : DOMAIN run'[q] = Fields
        /\ Changes(r, {"pc", "gen"}) /\ run'[r].pc = "secrets" /\ run'[r].gen = object[Action(r)].gen
    BY <2>1, SetFacts DEF Fields
  <2> QED
    BY <1>0, <1>3, <2>2, TypeKeeps DEF Sound, Shapes, ObjectShapes
<1> QED
  BY <1>1, <1>2, <1>3

LEMMA CancelEffect ==
  ASSUME Shapes, RunTypes, NEW r \in Runs, Cancel(r)
  PROVE  Sound(r) /\ Changes(r, {"cancelled"})
<1>0. ObjectShapes'
  BY RunObjects DEF Cancel
<1> DEFINE c == [cancelled |-> TRUE]
<1>1. Set(r, c) /\ DOMAIN c = {"cancelled"}
  BY DEF Cancel
<1> HIDE DEF c
<1>2. /\ Others(r) /\ run' = [q \in Runs |-> run'[q]] /\ \A q \in Runs : DOMAIN run'[q] = Fields
      /\ Changes(r, {"cancelled"})
  BY <1>1, SetFacts DEF Fields
<1> QED
  BY <1>0, <1>2, TypeKeeps DEF Sound, Shapes, ObjectShapes

\* A run begins.
LEMMA BeginEffect ==
  ASSUME Shapes, RunTypes, NEW r \in Runs, NEW t \in Triggers,
         Fire(r, t) \/ TestTrigger(r, t) \/ TestAction(r, t)
  PROVE  /\ Sound(r) /\ run[r].pc = "idle" /\ run'[r].pc \in {"next", "secrets"}
         /\ run'[r].pc = "next" \/ run'[r].kind = "test"
         /\ run'[r].secrets = NoSecrets
         /\ displaced' = displaced \ {r}
         /\ UNCHANGED <<store, redactor, object, leaked, streak, excused>>
<1>1. PICK kind \in {"fire", "test"}, actions \in Seq(Actions) :
        Begin(r, kind, t, actions) /\ (kind = "test" => actions # <<>>)
  <2>1. ActionsOf[t] \in Seq(Actions) /\ GroupOf[t] \in Seq(Actions)
    BY ExecutionAssumption
  <2>2. GroupOf[t] # <<>>
    <3>1. ActionsOf[t] # <<>> /\ ToSet(ActionsOf[t]) \subseteq ToSet(GroupOf[t])
      BY ExecutionAssumption
    <3>2. ActionsOf[t][1] \in ToSet(ActionsOf[t])
      BY <2>1, <3>1 DEF ToSet
    <3> QED
      BY <3>1, <3>2, SMTT(30) DEF ToSet
  <2>3. \A a \in ToSet(ActionsOf[t]) : <<a>> \in Seq(Actions) /\ <<a>> # <<>>
    BY <2>1 DEF ToSet
  <2> QED
    BY <2>1, <2>2, <2>3 DEF Fire, TestTrigger, TestAction
<1> DEFINE b == [Idle EXCEPT !.pc = IF kind = "fire" THEN "next" ELSE "secrets", !.kind = kind, !.todo = actions]
<1>2. /\ run[r].pc = "idle" /\ run' = [run EXCEPT ![r] = b]
      /\ displaced' = displaced \ {r} /\ UNCHANGED <<store, redactor, object, leaked, streak, excused>>
  BY <1>1 DEF Begin
<1>3. /\ DOMAIN b = Fields /\ b.pc = (IF kind = "fire" THEN "next" ELSE "secrets")
      /\ b.kind = kind /\ b.todo = actions /\ b.secrets = NoSecrets
  BY DEF Idle, Fields
<1> HIDE DEF b
<1>4. run'[r] = b /\ Others(r) /\ Shapes'
  BY <1>2, <1>3 DEF Others, Shapes
<1>5. RunType(r)'
  BY <1>1, <1>3, <1>4 DEF RunType, Pcs
<1>6. RunTypes'
  BY <1>4, <1>5 DEF RunTypes, RunType, Others
<1> QED
  BY <1>2, <1>3, <1>4, <1>6 DEF Sound

\* The rest of the world changes no run.
LEMMA WorldEffect ==
  ASSUME Shapes, \/ \E ref \in Refs : Rotate(ref)
                 \/ \E a \in Actions : SuspendAction(a) \/ ResumeAction(a)
                 \/ \E f \in Files : Reload(f)
  PROVE  Shapes' /\ UNCHANGED <<run, redactor, displaced, leaked>>
<1>1. UNCHANGED <<run, redactor, displaced, leaked>>
  BY DEF Rotate, SuspendAction, ResumeAction, Reload, history
<1>2. ObjectShapes'
  <2>1. CASE \E ref \in Refs : Rotate(ref)
    BY <2>1 DEF Rotate, history, Shapes, ObjectShapes
  <2>2. CASE \E a \in Actions : SuspendAction(a) \/ ResumeAction(a)
    <3>1. PICK a \in Actions, status \in {"active", "suspended"} : object' = [object EXCEPT ![a].status = status] /\ streak' = streak
      BY <2>2 DEF SuspendAction, ResumeAction, history
    <3> QED
      BY <3>1 DEF Shapes, ObjectShapes
  <2>3. CASE \E f \in Files : Reload(f)
    <3>1. PICK mine : /\ object' = [a \in Actions |->
                                     IF a \in mine THEN [count |-> 0, status |-> "active", gen |-> object[a].gen + 1]
                                     ELSE object[a]]
                      /\ streak' = [a \in Actions |-> IF a \in mine THEN 0 ELSE streak[a]]
      BY <2>3 DEF Reload
    <3>2. streak' = [a \in Actions |-> streak'[a]]
      BY <3>1
    <3>3. object' = [a \in Actions |-> object'[a]] /\ \A a \in Actions : DOMAIN object'[a] = {"count", "status", "gen"}
      BY <3>1 DEF Shapes
    <3> QED
      BY <3>2, <3>3 DEF ObjectShapes
  <2> QED
    BY <2>1, <2>2, <2>3
<1> QED
  BY <1>1, <1>2 DEF Shapes, ObjectShapes

-----------------------------------------------------------------------------
(* Secrets. *)

\* What a process is given of secrets is what its run resolved.
LEMMA GivenResolved ==
  ASSUME NEW a \in Actions, NEW secrets, NEW last \in Lasts(a), Runnable(a, secrets)
  PROVE  Given(a, secrets, last) \subseteq UpdateSecrets(secrets)
<1>1. \A k \in DOMAIN Options[a] : Words(Options[a][k], secrets) \subseteq UpdateSecrets(secrets)
  BY DEF Runnable, Resolvable, Resolves, Words, UpdateSecrets
<1>2. CASE PluginOf[a] = NoPlugin
  <2>1. CommandKey(a, secrets) \in DOMAIN Options[a]
    BY <1>2 DEF Runnable, CommandKey
  <2> QED
    BY <1>1, <1>2, <2>1 DEF Given
<1>3. CASE PluginOf[a] # NoPlugin
  <2>1. \A k \in PluginKeys(a) : Source(a, k, last) \in DOMAIN Options[a]
    BY DEF PluginKeys, Source, Lasts
  <2> QED
    BY <1>1, <1>3, <2>1 DEF Given, Contained
<1> QED
  BY <1>2, <1>3

\* So is what a warning says of a timeout.
LEMMA WarningResolved ==
  ASSUME NEW r \in Runs, RunType(r), run[r].todo # <<>>
  PROVE  Warning(r) \subseteq UpdateSecrets(run[r].secrets)
<1>1. Action(r) \in Actions
  BY HeadTailProperties DEF Action, RunType
<1> DEFINE a == Action(r)
<1>2. CASE Runnable(a, run[r].secrets) /\ Timeouts[a] = "invalid"
  <2>1. "timeout" \in DOMAIN Options[a]
    BY <1>1, <1>2, ExecutionAssumption
  <2> QED
    BY <1>2, <2>1 DEF Warning, Runnable, Resolvable, Resolves, Words, UpdateSecrets
<1>3. CASE ~(Runnable(a, run[r].secrets) /\ Timeouts[a] = "invalid")
  BY <1>3 DEF Warning
<1> QED
  BY <1>2, <1>3

Held(r) ==
  /\ run[r].pc = "redact" \/ r \in displaced \/ UpdateSecrets(run[r].secrets) \subseteq redactor
  /\ run[r].pc = "running" => run[r].given \subseteq UpdateSecrets(run[r].secrets)
  /\ run[r].pc \in {"account", "count", "log"} =>
       run[r].result.error \subseteq UpdateSecrets(run[r].secrets)

LEMMA NoSecretsHeld == UpdateSecrets(NoSecrets) = {} /\ UpdateSecrets(Idle.secrets) = {}
  BY DEF UpdateSecrets, NoSecrets, Idle

\* A run whose secrets the redactor keeps goes on.
LEMMA OnwardHeld ==
  ASSUME NEW r \in Runs, Held(r), RunType(r), run[r].pc # "redact", Onward(r), redactor' = redactor, displaced' = displaced
  PROVE  Held(r)'
<1>1. CASE run'[r] = Idle
  <2>1. run'[r].secrets = Idle.secrets /\ run'[r].pc = "idle"
    BY <1>1, IdleFields
  <2>2. UpdateSecrets(run'[r].secrets) = {}
    BY <2>1, NoSecretsHeld
  <2> QED
    BY <2>1, <2>2 DEF Held
<1>2. CASE run'[r] # Idle
  <2>1. run'[r]["secrets"] = run[r]["secrets"] /\ run'[r].pc \in {"next", "exec"}
    BY <1>2 DEF Onward, Changes, Fields
  <2> QED
    BY <2>1 DEF Held, UpdateSecrets
<1> QED
  BY <1>1, <1>2

\* The other runs are as they were, and the redactor too.
LEMMA OthersHeld ==
  ASSUME NEW r \in Runs, Others(r), \A q \in Runs : Held(q), redactor' = redactor,
         displaced' = displaced \/ displaced' = displaced \ {r}, Held(r)'
  PROVE  \A q \in Runs : Held(q)'
  BY DEF Others, Held, UpdateSecrets

\* A run that knows its words does not bring them into the log.
LEMMA LoggedHidden ==
  ASSUME LogHidesSecrets, NEW r \in Runs, Held(r), run[r].pc # "redact", NEW words,
         words \subseteq UpdateSecrets(run[r].secrets), Logged(r, words)
  PROVE  LogHidesSecrets'
<1>1. CASE r \notin displaced
  <2>1. words \ redactor = {}
    BY <1>1 DEF Held
  <2>2. leaked' = leaked
    BY <2>1 DEF Logged
  <2> QED
    BY <2>2 DEF LogHidesSecrets
<1>2. CASE r \in displaced
  <2>1. (r \in displaced) = TRUE
    BY <1>2
  <2>2. leaked' = leaked \union {[value |-> w, displaced |-> TRUE] : w \in words \ redactor}
    BY <2>1 DEF Logged
  <2> QED
    BY <2>2 DEF LogHidesSecrets
<1> QED
  BY <1>1, <1>2

LEMMA RunKeepsSecrets ==
  ASSUME Shapes, RunTypes, SecretsHeld, NEW r \in Runs, Step(r) \/ Exit(r) \/ Kill(r) \/ Cancel(r)
  PROVE  SecretsHeld'
<1>0. /\ RunType(r) /\ Held(r) /\ \A q \in Runs : Held(q)
      /\ LogHidesSecrets
  BY DEF RunTypes, SecretsHeld, Held
<1> SUFFICES (\A q \in Runs : Held(q)') /\ LogHidesSecrets'
  BY DEF SecretsHeld, Held
<1>1. CASE NextAction(r)
  <2>1. /\ UNCHANGED <<redactor, displaced, leaked>> /\ Others(r) /\ run[r].pc = "next"
        /\ run'[r].pc \in {"idle", "next", "secrets"}
        /\ run'[r].secrets = run[r].secrets \/ run'[r] = Idle
    <3>1. /\ UNCHANGED <<redactor, displaced, leaked>> /\ run[r].pc = "next"
      BY <1>1 DEF NextAction
    <3>2. CASE run'[r] = Idle
      BY <1>1, <3>1, <3>2, NextEffect, IdleFields DEF Sound
    <3>3. CASE run'[r] # Idle
      <4>1. run'[r]["secrets"] = run[r]["secrets"]
        BY <1>1, <3>3, NextEffect DEF Changes, Fields
      <4> QED
        BY <1>1, <3>1, <3>3, <4>1, NextEffect DEF Sound
    <3> QED
      BY <3>2, <3>3
  <2>2. Held(r)'
    BY <1>0, <2>1, NoSecretsHeld DEF Held, UpdateSecrets
  <2> QED
    BY <1>0, <2>1, <2>2, OthersHeld DEF LogHidesSecrets
<1>2. CASE ResolveSecrets(r)
  <2>1. UNCHANGED <<redactor, displaced, leaked>> /\ run[r].pc = "secrets"
    BY <1>2 DEF ResolveSecrets, history
  <2>2. /\ Others(r)
        /\ run'[r].pc = "redact" \/ (run'[r].pc = "exec" /\ run'[r]["secrets"] = run[r]["secrets"])
    <3>1. Changes(r, {"pc"}) => run'[r]["secrets"] = run[r]["secrets"]
      BY DEF Changes, Fields
    <3> QED
      BY <1>2, <3>1, ResolveEffect DEF Sound
  <2>3. Held(r)'
    BY <1>0, <2>1, <2>2 DEF Held, UpdateSecrets
  <2> QED
    BY <1>0, <2>1, <2>2, <2>3, OthersHeld DEF LogHidesSecrets
<1>3. CASE UpdateRedactor(r)
  <2>1. /\ redactor' = UpdateSecrets(run[r].secrets) /\ leaked' = leaked
        /\ displaced' = (displaced \ {r}) \union {q \in Runs \ {r} : run[q].secrets # NoSecrets}
    BY <1>3 DEF UpdateRedactor
  <2>2. Others(r) /\ run'[r].pc = "exec" /\ run'[r]["secrets"] = run[r]["secrets"]
    BY <1>3, GoOnEffect DEF Sound, Changes, Fields
  <2>3. Held(r)'
    BY <2>1, <2>2 DEF Held, UpdateSecrets
  <2>4. ASSUME NEW q \in Runs \ {r} PROVE Held(q)'
    <3>1. run'[q] = run[q] /\ Held(q)
      BY <1>0, <2>2 DEF Others
    <3>2. q \in displaced' \/ UpdateSecrets(run[q].secrets) = {}
      BY <2>1, NoSecretsHeld
    <3> QED
      BY <3>1, <3>2 DEF Held, UpdateSecrets
  <2> QED
    BY <1>0, <2>1, <2>3, <2>4 DEF LogHidesSecrets
<1>4. CASE Execute(r)
  <2>1. UNCHANGED <<redactor, displaced, leaked>> /\ run[r].pc = "exec" /\ Others(r)
    BY <1>4, ExecuteEffect DEF Execute, history, Sound
  <2>2. CASE Returned(r, NoResult)
    <3>1. CASE Onward(r)
      BY <1>0, <2>1, <3>1, OnwardHeld, OthersHeld DEF LogHidesSecrets
    <3>2. CASE ~Onward(r)
      <4>1. run'[r].result.error = {} /\ run'[r].pc = "account" /\ run'[r]["secrets"] = run[r]["secrets"]
        BY <2>2, <3>2 DEF Returned, NoResult, Changes, Fields
      <4>2. Held(r)'
        BY <1>0, <2>1, <4>1 DEF Held, UpdateSecrets
      <4> QED
        BY <1>0, <2>1, <4>2, OthersHeld DEF LogHidesSecrets
    <3> QED
      BY <3>1, <3>2
  <2>3. CASE ~Returned(r, NoResult)
    <3>1. Action(r) \in Actions
      BY <1>0, <2>1, HeadTailProperties DEF Action, RunType
    <3>2. /\ run'[r].pc = "running" /\ Changes(r, {"pc", "env", "given"})
          /\ Runnable(Action(r), run[r].secrets)
          /\ \E last \in Lasts(Action(r)) : run'[r].given = Given(Action(r), run[r].secrets, last)
      BY <1>4, <2>3, ExecuteEffect
    <3>3. run'[r].given \subseteq UpdateSecrets(run[r].secrets) /\ run'[r]["secrets"] = run[r]["secrets"]
      BY <3>1, <3>2, GivenResolved DEF Changes, Fields
    <3>4. Held(r)'
      BY <1>0, <2>1, <3>2, <3>3 DEF Held, UpdateSecrets
    <3> QED
      BY <1>0, <2>1, <3>4, OthersHeld DEF LogHidesSecrets
  <2> QED
    BY <2>2, <2>3
<1>5. CASE Exit(r) \/ Kill(r)
  <2>1. UNCHANGED <<redactor, displaced, leaked>> /\ run[r].pc = "running" /\ Others(r)
    BY <1>5, EndEffect DEF Exit, Kill, history, Sound
  <2>2. PICK result : result.error \subseteq run[r].given /\ Returned(r, result)
    BY <1>5, EndEffect
  <2>3. CASE Onward(r)
    BY <1>0, <2>1, <2>3, OnwardHeld, OthersHeld DEF LogHidesSecrets
  <2>4. CASE ~Onward(r)
    <3>1. /\ run'[r].result.error \subseteq run[r].given /\ run'[r].pc = "account"
          /\ run'[r]["secrets"] = run[r]["secrets"]
      BY <2>2, <2>4 DEF Returned, Changes, Fields
    <3>2. Held(r)'
      BY <1>0, <2>1, <3>1 DEF Held, UpdateSecrets
    <3> QED
      BY <1>0, <2>1, <3>2, OthersHeld DEF LogHidesSecrets
  <2> QED
    BY <2>3, <2>4
<1>6. CASE Account(r) \/ Report(r)
  <2>1. /\ UNCHANGED <<redactor, displaced>> /\ run[r].pc \in {"account", "log"} /\ Others(r)
        /\ run[r].todo # <<>>
    BY <1>6, AccountEffect DEF Account, Report, Sound
  <2>2. LogHidesSecrets'
    <3>1. Warning(r) \subseteq UpdateSecrets(run[r].secrets) /\ run[r].result.error \subseteq UpdateSecrets(run[r].secrets)
      BY <1>0, <2>1, WarningResolved DEF Held
    <3>2. Logged(r, Warning(r)) \/ Logged(r, run[r].result.error)
      BY <1>6 DEF Account, Report
    <3> QED
      BY <1>0, <2>1, <3>1, <3>2, LoggedHidden
  <2>3. CASE Onward(r)
    BY <1>0, <2>1, <2>2, <2>3, OnwardHeld, OthersHeld
  <2>4. CASE ~Onward(r)
    <3>1. run'[r].pc = "count" /\ run'[r]["secrets"] = run[r]["secrets"] /\ run'[r]["result"] = run[r]["result"]
      BY <1>6, <2>4, AccountEffect DEF Changes, Fields
    <3>2. Held(r)'
      BY <1>0, <2>1, <3>1 DEF Held, UpdateSecrets
    <3> QED
      BY <1>0, <2>1, <2>2, <3>2, OthersHeld
  <2> QED
    BY <2>3, <2>4
<1>7. CASE Count(r) \/ Cancel(r)
  <2>1. UNCHANGED <<redactor, displaced, leaked>>
    BY <1>7 DEF Count, Cancel, history
  <2>2. /\ Others(r) /\ run'[r]["secrets"] = run[r]["secrets"] /\ run'[r]["result"] = run[r]["result"]
        /\ run'[r]["given"] = run[r]["given"]
        /\ run'[r]["pc"] = run[r]["pc"] \/ (run'[r].pc = "log" /\ run[r].pc = "count")
    <3>1. CASE Cancel(r)
      BY <3>1, CancelEffect DEF Sound, Changes, Fields
    <3>2. CASE Count(r)
      <4>1. run[r].pc = "count" /\ ~UpdateRedactor(r)
        BY <3>2 DEF Count, UpdateRedactor
      <4> QED
        BY <3>2, <4>1, GoOnEffect DEF Sound, Changes, Fields
    <3> QED
      BY <1>7, <3>1, <3>2
  <2>3. Held(r)'
    BY <1>0, <2>1, <2>2 DEF Held, UpdateSecrets
  <2> QED
    BY <1>0, <2>1, <2>2, <2>3, OthersHeld DEF LogHidesSecrets
<1> QED
  BY <1>1, <1>2, <1>3, <1>4, <1>5, <1>6, <1>7 DEF Step

-----------------------------------------------------------------------------
(* The failures of an action. *)

FailuresOf(a) == Generation(a) /\ (a \notin excused => Counted(a))

\* An action that a run does not use, or gives up without having failed.
LEMMA GivenUpCounted ==
  ASSUME NEW r \in Runs, Others(r), NEW a \in Actions, FailuresOf(a),
         object'[a] = object[a], streak'[a] = streak[a], a \in excused => a \in excused',
         ~Uses(r, a)', ~Failing(r, a)
  PROVE  FailuresOf(a)'
<1>1. \A q \in Runs : /\ Uses(q, a)' => Uses(q, a) /\ run'[q] = run[q]
                      /\ Failing(q, a)' <=> Failing(q, a)
                      /\ Counting(q, a)' <=> Counting(q, a)
  BY DEF Others, Uses, Action, Failing, Counting
<1>2. Generation(a)'
  BY <1>1 DEF FailuresOf, Generation
<1>3. ASSUME Counted(a) PROVE Counted(a)'
  <2>1. \A q \in Runs : Counting(q, a)' => run'[q] = run[q]
    BY <1>1 DEF Counting, Failing
  <2> QED
    BY <1>1, <1>3, <2>1 DEF Counted
<1> QED
  BY <1>2, <1>3 DEF FailuresOf

\* An action that a run goes on to use without counting.
LEMMA UsedOnCounted ==
  ASSUME NEW r \in Runs, Others(r), NEW a \in Actions, FailuresOf(a),
         object'[a] = object[a], streak'[a] = streak[a], a \in excused => a \in excused',
         Uses(r, a), Uses(r, a)', run'[r].gen = run[r].gen,
         \/ run[r].pc \notin {"count", "log"} /\ run'[r].pc \notin {"count", "log"}
         \/ run'[r].pc = run[r].pc /\ run'[r].read = run[r].read
  PROVE  FailuresOf(a)'
<1>1. \A q \in Runs : /\ Uses(q, a)' <=> Uses(q, a)
                      /\ run'[q].gen = run[q].gen
                      /\ Failing(q, a)' <=> Failing(q, a)
                      /\ Counting(q, a)' <=> Counting(q, a)
                      /\ Counting(q, a) => run'[q].read = run[q].read
  BY DEF Others, Uses, Action, Failing, Counting
<1>2. Generation(a)'
  BY <1>1 DEF FailuresOf, Generation
<1>3. ASSUME Counted(a) PROVE Counted(a)'
  BY <1>1, <1>3 DEF Counted
<1> QED
  BY <1>2, <1>3 DEF FailuresOf

\* A step before the callback, or of a test.
LEMMA QuietCounted ==
  ASSUME FailuresCounted, NEW r \in Runs, Others(r), UNCHANGED <<object, streak, excused>>,
         run[r].pc \notin {"count", "log"}, run'[r].pc \notin {"count", "log"},
         \A a \in Actions : Uses(r, a)' => Uses(r, a) /\ run'[r].gen = run[r].gen
  PROVE  FailuresCounted'
<1> SUFFICES ASSUME NEW a \in Actions PROVE FailuresOf(a)'
  BY DEF FailuresCounted, FailuresOf
<1>1. FailuresOf(a)
  BY DEF FailuresCounted, FailuresOf
<1>2. CASE ~Uses(r, a)'
  BY <1>1, <1>2, GivenUpCounted DEF Failing
<1>3. CASE Uses(r, a)'
  BY <1>1, <1>3, UsedOnCounted
<1> QED
  BY <1>2, <1>3

LEMMA OnwardUses ==
  ASSUME NEW r \in Runs, Onward(r), NEW a
  PROVE  ~Uses(r, a)'
<1>1. CASE run'[r] = Idle
  BY <1>1, IdleFields DEF Uses
<1>2. CASE run'[r] # Idle
  <2>1. run[r].kind = "fire" => run'[r].pc = "next"
    BY <1>2 DEF Onward
  <2>2. run'[r]["kind"] = run[r]["kind"]
    BY <1>2 DEF Onward, Changes, Fields
  <2> QED
    BY <2>1, <2>2 DEF Uses
<1> QED
  BY <1>1, <1>2

\* A step within an action.
LEMMA SameUses ==
  ASSUME NEW r \in Runs, Changes(r, {"pc", "secrets", "cancelled", "env", "given", "result", "read"}),
         run[r].pc \notin {"idle", "next"}, run'[r].pc \notin {"idle", "next"}
  PROVE  run'[r].gen = run[r].gen /\ \A a : Uses(r, a)' <=> Uses(r, a)
<1>1. run'[r]["gen"] = run[r]["gen"] /\ run'[r]["kind"] = run[r]["kind"] /\ run'[r]["todo"] = run[r]["todo"]
  BY DEF Changes, Fields
<1> QED
  BY <1>1 DEF Uses, Action

LEMMA BeforeCounted ==
  ASSUME Shapes, RunTypes, FailuresCounted, NEW r \in Runs,
         ResolveSecrets(r) \/ UpdateRedactor(r) \/ Execute(r) \/ Exit(r) \/ Kill(r)
  PROVE  FailuresCounted'
<1>1. /\ UNCHANGED <<object, streak, excused>>
      /\ run[r].pc \in {"secrets", "redact", "exec", "running"}
  BY DEF ResolveSecrets, UpdateRedactor, Execute, Exit, Kill, history
<1>2. Others(r)
  BY ResolveEffect, GoOnEffect, ExecuteEffect, EndEffect DEF Sound
<1>3. \/ Onward(r)
      \/ /\ run'[r].pc \in {"redact", "exec", "running", "account"}
         /\ Changes(r, {"pc", "secrets", "cancelled", "env", "given", "result", "read"})
  <2>1. CASE ResolveSecrets(r)
    BY <2>1, ResolveEffect DEF Changes
  <2>2. CASE UpdateRedactor(r)
    BY <2>2, GoOnEffect DEF Changes
  <2>3. CASE Execute(r)
    BY <2>3, ExecuteEffect DEF Changes, Returned
  <2>4. CASE Exit(r) \/ Kill(r)
    BY <2>4, EndEffect DEF Changes, Returned
  <2> QED
    BY <2>1, <2>2, <2>3, <2>4
<1>4. CASE Onward(r)
  <2>1. run'[r].pc \notin {"count", "log"}
    BY <1>4, IdleFields DEF Onward
  <2> QED
    BY <1>1, <1>2, <1>4, <2>1, OnwardUses, QuietCounted
<1>5. CASE ~Onward(r)
  BY <1>1, <1>2, <1>3, <1>5, SameUses, QuietCounted
<1> QED
  BY <1>4, <1>5

LEMMA CancelCounted ==
  ASSUME Shapes, RunTypes, FailuresCounted, NEW r \in Runs, Cancel(r)
  PROVE  FailuresCounted'
<1> SUFFICES ASSUME NEW a \in Actions PROVE FailuresOf(a)'
  BY DEF FailuresCounted, FailuresOf
<1>1. Others(r) /\ UNCHANGED <<object, streak, excused>> /\ FailuresOf(a)
  BY CancelEffect DEF Cancel, history, Sound, FailuresCounted, FailuresOf
<1>2. /\ run'[r]["pc"] = run[r]["pc"] /\ run'[r]["gen"] = run[r]["gen"] /\ run'[r]["kind"] = run[r]["kind"]
      /\ run'[r]["todo"] = run[r]["todo"] /\ run'[r]["read"] = run[r]["read"]
  BY CancelEffect DEF Changes, Fields
<1>3. Uses(r, a)' <=> Uses(r, a)
  BY <1>2 DEF Uses, Action
<1>4. CASE Uses(r, a)
  BY <1>1, <1>2, <1>3, <1>4, UsedOnCounted
<1>5. CASE ~Uses(r, a)
  BY <1>1, <1>3, <1>5, GivenUpCounted DEF Failing
<1> QED
  BY <1>4, <1>5

LEMMA BeginCounted ==
  ASSUME Shapes, RunTypes, FailuresCounted, NEW r \in Runs, NEW t \in Triggers,
         Fire(r, t) \/ TestTrigger(r, t) \/ TestAction(r, t)
  PROVE  FailuresCounted'
<1>1. /\ Others(r) /\ UNCHANGED <<object, streak, excused>>
      /\ run[r].pc = "idle" /\ run'[r].pc \in {"next", "secrets"}
      /\ run'[r].pc = "next" \/ run'[r].kind = "test"
  BY BeginEffect DEF Sound
<1>2. \A a : ~Uses(r, a)'
  BY <1>1 DEF Uses
<1> QED
  BY <1>1, <1>2, QuietCounted

\* The start of an action: a run that finds another at it excuses the action.
LEMMA NextCounted ==
  ASSUME Shapes, RunTypes, FailuresCounted, NEW r \in Runs, NextAction(r)
  PROVE  FailuresCounted'
<1>1. run[r].pc = "next" /\ object' = object /\ streak' = streak /\ Others(r)
  BY NextEffect DEF NextAction, Sound
<1>2. CASE run'[r].pc # "secrets"
  <2>1. run'[r].pc \in {"idle", "next"}
    BY <1>1, <1>2, NextEffect, IdleFields DEF Sound
  <2>2. \A a : ~Uses(r, a)'
    BY <2>1 DEF Uses
  <2>3. \A a : a \in excused => a \in excused'
    BY DEF NextAction
  <2>4. ASSUME NEW a \in Actions PROVE FailuresOf(a)'
    BY <1>1, <2>2, <2>3, GivenUpCounted DEF Failing, FailuresCounted, FailuresOf
  <2> QED
    BY <2>4 DEF FailuresCounted, FailuresOf
<1>3. CASE run'[r].pc = "secrets"
  <2>0. PICK a : a = Action(r)
    OBVIOUS
  <2>1. /\ run[r].todo # <<>> /\ object[a].status = "active" /\ run'[r].gen = object[a].gen
        /\ run'[r]["todo"] = run[r]["todo"]
    BY <1>1, <1>3, <2>0, NextEffect, IdleFields DEF Changes, Fields
  <2>2. excused' = IF \E q \in Runs \ {r} : Uses(q, a) THEN excused \union {a} ELSE excused
    BY <1>3, <2>0, <2>1 DEF NextAction, Set
  <2>3. \A b : Uses(r, b)' => b = a
    BY <2>0, <2>1 DEF Uses, Action
  <2>4. ASSUME NEW b \in Actions, b # a PROVE FailuresOf(b)'
    BY <1>1, <2>2, <2>3, <2>4, GivenUpCounted DEF Failing, Uses, FailuresCounted, FailuresOf
  <2>5. a \in Actions
    BY <2>0, <2>1, HeadTailProperties DEF Action, RunTypes, RunType
  <2>6. Generation(a)'
    <3>1. Generation(a)
      BY <2>5 DEF FailuresCounted
    <3>2. \A q \in Runs \ {r} : Uses(q, a)' => Uses(q, a) /\ run'[q] = run[q]
      BY <1>1 DEF Others, Uses, Action
    <3> QED
      BY <1>1, <2>1, <3>1, <3>2 DEF Generation
  <2>7. ASSUME a \notin excused' PROVE Counted(a)'
    <3>1. a \notin excused /\ Counted(a) /\ Generation(a) /\ \A q \in Runs \ {r} : ~Uses(q, a)
      BY <2>2, <2>5, <2>7 DEF FailuresCounted
    <3>2. ~Uses(r, a)
      BY <1>1 DEF Uses
    <3>3. \A q \in Runs \ {r} : ~Uses(q, a)'
      BY <1>1, <3>1 DEF Others, Uses, Action
    <3>4. \A q \in Runs : ~Failing(q, a) /\ ~Counting(q, a) /\ ~Failing(q, a)' /\ ~Counting(q, a)'
      BY <1>3, <3>1, <3>2, <3>3 DEF Failing, Counting
    <3> QED
      BY <1>1, <2>1, <3>1, <3>3, <3>4 DEF Counted
  <2> QED
    BY <2>4, <2>5, <2>6, <2>7 DEF FailuresCounted, FailuresOf
<1> QED
  BY <1>2, <1>3

\* A run at its callback, about an action that nothing else is at.
LEMMA AtCallback ==
  ASSUME RunTypes, FailuresCounted, NEW r \in Runs, run[r].pc \in {"account", "count", "log"},
         NEW a, a = Action(r)
  PROVE  /\ a \in Actions /\ Uses(r, a) /\ FailuresOf(a) /\ (Current(r) <=> run[r].gen = object[a].gen)
         /\ run[r].kind = "fire" /\ run[r].todo # <<>>
         /\ \A b : Uses(r, b) <=> b = a
         /\ a \notin excused => \A q \in Runs \ {r} : ~Uses(q, a) /\ ~Failing(q, a) /\ ~Counting(q, a)
<1>1. run[r].kind = "fire" /\ run[r].todo # <<>> /\ run[r].todo \in Seq(Actions)
  BY DEF RunTypes, RunType
<1>2. a \in Actions /\ Uses(r, a) /\ \A b : Uses(r, b) <=> b = a
  BY <1>1, HeadTailProperties DEF Action, Uses
<1> QED
  BY <1>1, <1>2 DEF FailuresCounted, FailuresOf, Counted, Current, Failing, Counting

\* Actions that the callback is not about.
LEMMA RestCounted ==
  ASSUME FailuresCounted, NEW r \in Runs, Others(r), NEW a,
         excused' \in {excused, excused \union {a}},
         \A b \in Actions \ {a} : object'[b] = object[b] /\ streak'[b] = streak[b],
         \A b : Uses(r, b) => b = a,
         \A b : Uses(r, b)' => b = a,
         a \in Actions => FailuresOf(a)'
  PROVE  FailuresCounted'
<1>1. ASSUME NEW b \in Actions, b # a PROVE FailuresOf(b)'
  BY <1>1, GivenUpCounted DEF Failing, FailuresCounted, FailuresOf
<1> QED
  BY <1>1 DEF FailuresCounted, FailuresOf

\* The callback is done with the action.
LEMMA DoneCounted ==
  ASSUME RunTypes, FailuresCounted, NEW r \in Runs, Others(r), Onward(r), NEW a, a = Action(r),
         run[r].pc \in {"account", "log"}, excused' \in {excused, excused \union {a}},
         \A b \in Actions \ {a} : object'[b] = object[b] /\ streak'[b] = streak[b],
         object'[a].gen = object[a].gen, streak'[a] \in Nat,
         a \notin excused' => /\ streak'[a] = object'[a].count
                              /\ object'[a].status = "error" => Threshold[a] > 0 /\ streak'[a] >= Threshold[a]
                              /\ Threshold[a] > 0 /\ object'[a].status = "active" => streak'[a] < Threshold[a]
  PROVE  FailuresCounted'
<1>1. /\ a \in Actions /\ FailuresOf(a) /\ \A b : Uses(r, b) => b = a
      /\ a \notin excused => \A q \in Runs \ {r} : ~Uses(q, a)
  BY AtCallback
<1>2. \A b : ~Uses(r, b)'
  BY OnwardUses
<1>3. \A q \in Runs : Uses(q, a)' => Uses(q, a) /\ run'[q] = run[q]
  BY <1>2 DEF Others, Uses, Action
<1>4. Generation(a)'
  BY <1>1, <1>3 DEF FailuresOf, Generation
<1>5. ASSUME a \notin excused' PROVE Counted(a)'
  <2>1. \A q \in Runs : ~Uses(q, a)'
    BY <1>1, <1>2, <1>3, <1>5
  <2> QED
    BY <1>5, <2>1 DEF Counted, Counting, Failing
<1> QED
  BY <1>1, <1>2, <1>4, <1>5, RestCounted DEF FailuresOf

LEMMA AccountCounted ==
  ASSUME Shapes, RunTypes, FailuresCounted, NEW r \in Runs, Account(r)
  PROVE  FailuresCounted'
<1>0. PICK a : a = Action(r)
  OBVIOUS
<1>1. /\ Others(r) /\ run[r].pc = "account"
      /\ a \in Actions /\ Uses(r, a) /\ FailuresOf(a) /\ (Current(r) <=> run[r].gen = object[a].gen)
      /\ \A b : Uses(r, b) <=> b = a
      /\ a \notin excused => \A q \in Runs \ {r} : ~Uses(q, a) /\ ~Failing(q, a) /\ ~Counting(q, a)
  BY <1>0, AccountEffect, AtCallback DEF Account, Sound
<1>2. a \notin excused => /\ object[a].status # "error" /\ streak[a] = object[a].count
                          /\ Threshold[a] > 0 /\ object[a].status = "active" => streak[a] < Threshold[a]
  <2> HAVE a \notin excused
  <2>1. \A q \in Runs : ~Failing(q, a) /\ ~Counting(q, a)
    BY <1>1 DEF Failing, Counting
  <2> QED
    BY <1>1, <2>1 DEF FailuresOf, Counted
<1>3. CASE Onward(r) /\ Set(r, Onwards(r))
  <2>1. \/ UNCHANGED <<object, streak, excused>>
        \/ /\ object' = [object EXCEPT ![a].count = 0] /\ Remember(r)
           /\ run[r].result.success
        \/ ~run[r].cancelled /\ ~run[r].result.success
    BY <1>0 DEF Account
  <2>2. CASE UNCHANGED <<object, streak, excused>>
    BY <1>0, <1>1, <1>2, <1>3, <2>2, DoneCounted DEF FailuresOf, Generation
  <2>3. CASE object' = [object EXCEPT ![a].count = 0] /\ Remember(r) /\ run[r].result.success
    <3>0. /\ streak' = [streak EXCEPT ![a] = IF run[r].result.denied THEN @ + 1 ELSE 0]
          /\ excused' = IF run[r].result.denied THEN excused \union {a} ELSE excused
      BY <1>0, <2>3 DEF Remember
    <3>1. /\ object'[a].count = 0 /\ object'[a].gen = object[a].gen /\ object'[a].status = object[a].status
          /\ streak'[a] = IF run[r].result.denied THEN streak[a] + 1 ELSE 0
          /\ \A b \in Actions \ {a} : object'[b] = object[b] /\ streak'[b] = streak[b]
      BY <1>1, <2>3, <3>0 DEF Shapes
    <3>2. (Threshold[a] > 0 => 0 < Threshold[a]) /\ streak[a] \in Nat
      BY <1>1, ExecutionAssumption DEF FailuresOf, Generation
    <3>3. CASE run[r].result.denied
      BY <1>0, <1>1, <1>3, <3>0, <3>1, <3>2, <3>3, DoneCounted
    <3>4. CASE ~run[r].result.denied
      BY <1>0, <1>1, <1>2, <1>3, <3>0, <3>1, <3>2, <3>4, DoneCounted
    <3> QED
      BY <3>3, <3>4
  <2>4. CASE ~run[r].cancelled /\ ~run[r].result.success
    <3>1. /\ object' = object
          /\ Set(r, [pc |-> "count", read |-> object[a].count])
      BY <1>0, <2>4 DEF Account
    <3>2. run'[r].pc = "count"
      BY <3>1 DEF Set, Shapes, Idle
    <3> QED
      BY <1>3, <3>2, IdleFields DEF Onward
  <2> QED
    BY <2>1, <2>2, <2>3, <2>4
<1>4. CASE ~(Onward(r) /\ Set(r, Onwards(r)))
  <2>1. /\ ~run[r].cancelled /\ ~run[r].result.success
        /\ run'[r].pc = "count" /\ run'[r].read = object[a].count
        /\ Changes(r, {"pc", "read"})
    BY <1>0, <1>4, AccountEffect
  <2>2. /\ object' = object
        /\ streak' = IF Current(r) THEN [streak EXCEPT ![a] = @ + 1] ELSE streak
        /\ excused' \in {excused, excused \union {a}}
    BY <1>0, <2>1 DEF Account, Remember
  <2>3. /\ streak'[a] = IF Current(r) THEN streak[a] + 1 ELSE streak[a]
        /\ \A b \in Actions \ {a} : streak'[b] = streak[b]
    BY <1>1, <2>2 DEF Shapes
  <2>4. run'[r].gen = run[r].gen /\ \A b : Uses(r, b)' <=> Uses(r, b)
    BY <1>1, <2>1, SameUses DEF Changes
  <2>5. \A q \in Runs \ {r} : (Uses(q, a)' <=> Uses(q, a)) /\ run'[q] = run[q]
    BY <1>1 DEF Others, Uses, Action
  <2>6. Generation(a)'
    BY <1>1, <2>2, <2>3, <2>4, <2>5 DEF FailuresOf, Generation
  <2>7. ASSUME a \notin excused PROVE Counted(a)'
    <3>1. \A q \in Runs \ {r} : ~Uses(q, a)' /\ ~Counting(q, a)' /\ ~Failing(q, a)'
      BY <1>1, <2>5, <2>7 DEF Counting, Failing
    <3>2. /\ Counting(r, a)' <=> Current(r)
          /\ Failing(r, a)' <=> Current(r)
      BY <1>1, <2>1, <2>2, <2>4 DEF Counting, Failing
    <3>3. object[a].status # "error" /\ streak[a] = object[a].count
          /\ (Threshold[a] > 0 /\ object[a].status = "active" => streak[a] < Threshold[a])
      BY <1>2, <2>7
    <3>4. \A q \in Runs : Uses(q, a)' => q = r
      BY <3>1
    <3>5. CASE Current(r)
      BY <2>1, <2>2, <2>3, <3>1, <3>2, <3>3, <3>4, <3>5 DEF Counted
    <3>6. CASE ~Current(r)
      BY <2>1, <2>2, <2>3, <3>1, <3>2, <3>3, <3>4, <3>6 DEF Counted
    <3> QED
      BY <3>5, <3>6
  <2> QED
    BY <1>1, <2>2, <2>3, <2>4, <2>6, <2>7, RestCounted DEF FailuresOf
<1> QED
  BY <1>3, <1>4

LEMMA CountCounted ==
  ASSUME Shapes, RunTypes, FailuresCounted, NEW r \in Runs, Count(r)
  PROVE  FailuresCounted'
<1>0. PICK a : a = Action(r)
  OBVIOUS
<1>1. /\ Others(r) /\ run[r].pc = "count" /\ excused' = excused /\ streak' = streak
      /\ a \in Actions /\ Uses(r, a) /\ FailuresOf(a) /\ (Current(r) <=> run[r].gen = object[a].gen)
      /\ \A b : Uses(r, b) <=> b = a
      /\ a \notin excused => \A q \in Runs \ {r} : ~Uses(q, a) /\ ~Failing(q, a) /\ ~Counting(q, a)
  BY <1>0, GoOnEffect, AtCallback DEF Count, Sound, history
<1>2. run'[r].pc = "log" /\ Changes(r, {"pc"})
  BY <1>1, GoOnEffect DEF UpdateRedactor
<1>3. run'[r].gen = run[r].gen /\ \A b : Uses(r, b)' <=> Uses(r, b)
  BY <1>1, <1>2, SameUses DEF Changes
<1>4. object' = IF Current(r) THEN [object EXCEPT ![a].count = run[r].read + 1] ELSE object
  BY <1>0 DEF Count
<1>5. /\ object'[a].count = IF Current(r) THEN run[r].read + 1 ELSE object[a].count
      /\ object'[a].gen = object[a].gen /\ object'[a].status = object[a].status
      /\ \A b \in Actions \ {a} : object'[b] = object[b]
  BY <1>1, <1>4 DEF Shapes
<1>6. \A q \in Runs \ {r} : (Uses(q, a)' <=> Uses(q, a)) /\ run'[q] = run[q]
  BY <1>1 DEF Others, Uses, Action
<1>7. Generation(a)'
  BY <1>1, <1>3, <1>5, <1>6 DEF FailuresOf, Generation
<1>8. ASSUME a \notin excused PROVE Counted(a)'
  <2>1. \A q \in Runs \ {r} : ~Uses(q, a)' /\ ~Counting(q, a)' /\ ~Failing(q, a)'
    BY <1>1, <1>6, <1>8 DEF Counting, Failing
  <2>2. ~Counting(r, a)' /\ (Failing(r, a)' <=> Current(r))
    BY <1>1, <1>2, <1>3, <1>5 DEF Counting, Failing
  <2>3. /\ Counting(r, a) <=> Current(r)
        /\ Failing(r, a) <=> Current(r)
    BY <1>1 DEF Counting, Failing
  <2>4. Counted(a) /\ object[a].status # "error"
    BY <1>1, <1>8 DEF FailuresOf, Counted
  <2>5. CASE Current(r)
    <3>1. streak[a] = object[a].count + 1 /\ run[r].read = object[a].count
      BY <2>3, <2>4, <2>5 DEF Counted
    <3> QED
      BY <1>1, <1>5, <2>1, <2>2, <2>4, <2>5, <3>1 DEF Counted
  <2>6. CASE ~Current(r)
    <3>1. streak[a] = object[a].count
          /\ (Threshold[a] > 0 /\ object[a].status = "active" => streak[a] < Threshold[a])
      BY <1>1, <1>8, <2>3, <2>4, <2>6 DEF Counted
    <3> QED
      BY <1>1, <1>5, <2>1, <2>2, <2>4, <2>6, <3>1 DEF Counted
  <2> QED
    BY <2>5, <2>6
<1> QED
  BY <1>1, <1>3, <1>5, <1>7, <1>8, RestCounted DEF FailuresOf

LEMMA ReportCounted ==
  ASSUME Shapes, RunTypes, FailuresCounted, NEW r \in Runs, Report(r)
  PROVE  FailuresCounted'
<1>0. PICK a : a = Action(r)
  OBVIOUS
<1>1. /\ Others(r) /\ Onward(r) /\ run[r].pc = "log" /\ excused' = excused /\ streak' = streak
      /\ a \in Actions /\ Uses(r, a) /\ FailuresOf(a) /\ (Current(r) <=> run[r].gen = object[a].gen)
      /\ a \notin excused => \A q \in Runs \ {r} : ~Uses(q, a) /\ ~Failing(q, a) /\ ~Counting(q, a)
  BY <1>0, AccountEffect, AtCallback DEF Report, Account, Sound
<1>2. object' = IF Current(r) /\ Threshold[a] > 0 /\ object[a].count >= Threshold[a]
                THEN [object EXCEPT ![a].status = "error"] ELSE object
  BY <1>0 DEF Report
<1>3. /\ object'[a].count = object[a].count /\ object'[a].gen = object[a].gen
      /\ object'[a].status = IF Current(r) /\ Threshold[a] > 0 /\ object[a].count >= Threshold[a]
                             THEN "error" ELSE object[a].status
      /\ \A b \in Actions \ {a} : object'[b] = object[b]
  BY <1>1, <1>2 DEF Shapes
<1>4. ASSUME a \notin excused
      PROVE  /\ streak[a] = object[a].count /\ object[a].status # "error"
             /\ ~Current(r) => (Threshold[a] > 0 /\ object[a].status = "active" => streak[a] < Threshold[a])
  <2>1. ~Counting(r, a) /\ (Failing(r, a) <=> Current(r))
    BY <1>1 DEF Counting, Failing
  <2> QED
    BY <1>1, <1>4, <2>1 DEF FailuresOf, Counted
<1>5. streak[a] \in Nat /\ Threshold[a] \in Nat
  BY <1>1, ExecutionAssumption DEF FailuresOf, Generation
<1> QED
  BY <1>0, <1>1, <1>3, <1>4, <1>5, DoneCounted

\* Users suspend and resume an action.
LEMMA StatusCounted ==
  ASSUME Shapes, FailuresCounted, NEW a \in Actions, SuspendAction(a) \/ ResumeAction(a)
  PROVE  FailuresCounted'
<1> SUFFICES ASSUME NEW b \in Actions PROVE FailuresOf(b)'
  BY DEF FailuresCounted, FailuresOf
<1>1. run' = run /\ streak' = streak /\ FailuresOf(b)
  BY DEF SuspendAction, ResumeAction, history, FailuresCounted, FailuresOf
<1>2. PICK status \in {"active", "suspended"} :
        /\ object' = [object EXCEPT ![a].status = status]
        /\ excused' = (IF status = "active" /\ streak[a] >= Threshold[a] THEN excused \union {a} ELSE excused)
  <2>1. CASE SuspendAction(a)
    BY <2>1 DEF SuspendAction, history
  <2>2. CASE ResumeAction(a)
    BY <2>2 DEF ResumeAction
  <2> QED
    BY <2>1, <2>2
<1>3. /\ object'[b].count = object[b].count /\ object'[b].gen = object[b].gen
      /\ b # a => object'[b].status = object[b].status
      /\ b = a => object'[b].status = status
  BY <1>2 DEF Shapes
<1>4. \A r \in Runs : /\ Uses(r, b)' <=> Uses(r, b)
                      /\ Failing(r, b)' <=> Failing(r, b)
                      /\ Counting(r, b)' <=> Counting(r, b)
  BY <1>1, <1>3 DEF Uses, Action, Failing, Counting
<1>5. Generation(b)'
  BY <1>1, <1>3, <1>4 DEF FailuresOf, Generation
<1>6. ASSUME b \notin excused' PROVE Counted(b)'
  <2>1. Counted(b) /\ (b = a /\ status = "active" => streak[b] < Threshold[b])
    <3>1. streak[b] \in Nat /\ Threshold[b] \in Nat
      BY <1>1, ExecutionAssumption DEF FailuresOf, Generation
    <3> QED
      BY <1>1, <1>2, <1>6, <3>1 DEF FailuresOf
  <2> QED
    BY <1>1, <1>3, <1>4, <2>1 DEF Counted
<1> QED
  BY <1>5, <1>6 DEF FailuresOf

\* A reload: the runs of the objects that are replaced do not count any more.
LEMMA ReloadCounted ==
  ASSUME Shapes, FailuresCounted, NEW f \in Files, Reload(f)
  PROVE  FailuresCounted'
<1> SUFFICES ASSUME NEW b \in Actions PROVE FailuresOf(b)'
  BY DEF FailuresCounted, FailuresOf
<1>0. PICK mine : mine = {a \in Actions : File(a) = f}
  OBVIOUS
<1>1. /\ run' = run /\ FailuresOf(b)
      /\ object' = [a \in Actions |->
           IF a \in mine THEN [count |-> 0, status |-> "active", gen |-> object[a].gen + 1] ELSE object[a]]
      /\ streak' = [a \in Actions |-> IF a \in mine THEN 0 ELSE streak[a]]
      /\ excused' = excused \ {a \in mine : \A r \in Runs : ~Uses(r, a)}
  BY <1>0 DEF Reload, FailuresCounted, FailuresOf
<1>2. \A r \in Runs : Uses(r, b)' <=> Uses(r, b)
  BY <1>1 DEF Uses, Action
<1>3. CASE b \in mine
  <2>1. /\ object'[b].count = 0 /\ object'[b].status = "active" /\ object'[b].gen = object[b].gen + 1
        /\ streak'[b] = 0
    BY <1>1, <1>3
  <2>2. Generation(b) /\ Threshold[b] \in Nat
    BY <1>1, ExecutionAssumption DEF FailuresOf
  <2>3. Generation(b)'
    BY <1>1, <1>2, <2>1, <2>2 DEF Generation
  <2>4. \A r \in Runs : ~Failing(r, b)' /\ ~Counting(r, b)'
    BY <1>1, <1>2, <2>1, <2>2 DEF Failing, Counting, Generation
  <2>5. b \notin excused' => \A r, q \in Runs : Uses(r, b) /\ Uses(q, b) => r = q
    BY <1>1 DEF FailuresOf, Counted
  <2> QED
    BY <1>2, <2>1, <2>2, <2>3, <2>4, <2>5 DEF FailuresOf, Counted
<1>4. CASE b \notin mine
  <2>1. object'[b] = object[b] /\ streak'[b] = streak[b] /\ (b \in excused' <=> b \in excused)
    BY <1>1, <1>4
  <2>2. \A r \in Runs : /\ Failing(r, b)' <=> Failing(r, b)
                        /\ Counting(r, b)' <=> Counting(r, b)
    BY <1>1, <1>2, <2>1 DEF Failing, Counting
  <2> QED
    BY <1>1, <1>2, <2>1, <2>2 DEF FailuresOf, Generation, Counted
<1> QED
  BY <1>3, <1>4

-----------------------------------------------------------------------------

LEMMA ExecutionInit == Init => ExecutionInv
<1> SUFFICES ASSUME Init PROVE ExecutionInv
  OBVIOUS
<1>1. /\ run = [r \in Runs |-> Idle] /\ \A r \in Runs : run[r] = Idle
      /\ redactor = {} /\ displaced = {} /\ leaked = {} /\ excused = {}
      /\ object = [a \in Actions |-> [count |-> 0, status |-> "active", gen |-> 0]]
      /\ streak = [a \in Actions |-> 0]
  BY DEF Init
<1>2. Shapes
  BY <1>1, IdleFields DEF Shapes
<1>3. RunTypes
  <2>1. Idle.pc = "idle" /\ Idle.kind = "fire" /\ Idle.todo = <<>> /\ <<>> \in Seq(Actions)
    BY DEF Idle
  <2> QED
    BY <1>1, <2>1 DEF RunTypes, RunType, Pcs
<1>4. SecretsHeld
  BY <1>1, IdleFields, NoSecretsHeld DEF SecretsHeld, LogHidesSecrets
<1>5. FailuresCounted
  <2>1. \A r \in Runs, a \in Actions : ~Uses(r, a) /\ ~Failing(r, a) /\ ~Counting(r, a)
    BY <1>1, IdleFields DEF Uses, Failing, Counting
  <2>2. \A a \in Actions : /\ object[a].count = 0 /\ object[a].status = "active" /\ object[a].gen = 0
                           /\ streak[a] = 0 /\ Threshold[a] \in Nat
    BY <1>1, ExecutionAssumption
  <2> QED
    BY <2>1, <2>2 DEF FailuresCounted, Generation, Counted
<1> QED
  BY <1>2, <1>3, <1>4, <1>5 DEF ExecutionInv

LEMMA RunKeeps ==
  ASSUME ExecutionInv, NEW r \in Runs, Step(r) \/ Exit(r) \/ Kill(r) \/ Cancel(r)
  PROVE  ExecutionInv'
<1>1. Shapes /\ RunTypes /\ SecretsHeld /\ FailuresCounted
  BY DEF ExecutionInv
<1>2. Shapes' /\ RunTypes'
  BY <1>1, NextEffect, ResolveEffect, GoOnEffect, ExecuteEffect, EndEffect, AccountEffect, CancelEffect
     DEF Step, Sound
<1>3. SecretsHeld'
  BY <1>1, RunKeepsSecrets
<1>4. FailuresCounted'
  BY <1>1, BeforeCounted, CancelCounted, NextCounted, AccountCounted, CountCounted, ReportCounted DEF Step
<1> QED
  BY <1>2, <1>3, <1>4 DEF ExecutionInv

LEMMA BeginKeeps ==
  ASSUME ExecutionInv, NEW r \in Runs, NEW t \in Triggers,
         Fire(r, t) \/ TestTrigger(r, t) \/ TestAction(r, t)
  PROVE  ExecutionInv'
<1>1. Shapes /\ RunTypes /\ SecretsHeld /\ FailuresCounted
  BY DEF ExecutionInv
<1>2. /\ Sound(r) /\ Others(r) /\ run'[r].pc \in {"next", "secrets"} /\ run'[r].secrets = NoSecrets
      /\ displaced' = displaced \ {r} /\ UNCHANGED <<redactor, leaked>>
  BY <1>1, BeginEffect DEF Sound
<1>3. Held(r)'
  BY <1>2, NoSecretsHeld DEF Held, UpdateSecrets
<1>4. \A q \in Runs : Held(q)'
  BY <1>1, <1>2, <1>3, OthersHeld DEF SecretsHeld, Held
<1>5. SecretsHeld'
  BY <1>1, <1>2, <1>4 DEF SecretsHeld, Held, LogHidesSecrets
<1>6. FailuresCounted'
  BY <1>1, BeginCounted
<1> QED
  BY <1>2, <1>5, <1>6 DEF ExecutionInv, Sound

LEMMA WorldKeeps ==
  ASSUME ExecutionInv, \/ \E ref \in Refs : Rotate(ref)
                       \/ \E a \in Actions : SuspendAction(a) \/ ResumeAction(a)
                       \/ \E f \in Files : Reload(f)
  PROVE  ExecutionInv'
<1>1. Shapes /\ RunTypes /\ SecretsHeld /\ FailuresCounted
  BY DEF ExecutionInv
<1>2. Shapes' /\ run' = run /\ redactor' = redactor /\ displaced' = displaced /\ leaked' = leaked
  BY <1>1, WorldEffect
<1>3. RunTypes'
  BY <1>1, <1>2 DEF RunTypes, RunType
<1>4. SecretsHeld'
  BY <1>1, <1>2 DEF SecretsHeld, LogHidesSecrets, UpdateSecrets
<1>6. FailuresCounted'
  <2>1. CASE \E ref \in Refs : Rotate(ref)
    <3>1. UNCHANGED <<object, streak, excused>>
      BY <2>1 DEF Rotate, history
    <3> QED
      BY <1>1, <1>2, <3>1 DEF FailuresCounted, Generation, Counted, Uses, Action, Failing, Counting
  <2> QED
    BY <1>1, <2>1, StatusCounted, ReloadCounted
<1> QED
  BY <1>2, <1>3, <1>4, <1>6 DEF ExecutionInv

LEMMA ExecutionStep == ExecutionInv /\ [Next]_vars => ExecutionInv'
<1> SUFFICES ASSUME ExecutionInv, [Next]_vars PROVE ExecutionInv'
  OBVIOUS
<1>1. CASE UNCHANGED vars
  <2>1. UNCHANGED <<run, redactor, displaced, leaked, object, streak, excused>>
    BY <1>1 DEF vars, history
  <2>2. Shapes' /\ RunTypes'
    BY <2>1 DEF ExecutionInv, Shapes, RunTypes, RunType
  <2>3. SecretsHeld'
    BY <2>1 DEF ExecutionInv, SecretsHeld, LogHidesSecrets, UpdateSecrets
  <2>4. FailuresCounted'
    BY <2>1 DEF ExecutionInv, FailuresCounted, Generation, Counted, Uses, Action, Failing, Counting
  <2> QED
    BY <2>2, <2>3, <2>4 DEF ExecutionInv
<1>2. CASE Next
  BY <1>2, RunKeeps, BeginKeeps, WorldKeeps DEF Next
<1> QED
  BY <1>1, <1>2

LEMMA ExecutionInvariant == Spec => []ExecutionInv
  BY ExecutionInit, ExecutionStep, PTL DEF Spec

\* However secrets change, whatever processes print and however runs interleave, a secret of
\* a run is in the log in clear only if another run has put its own into the redactor since.
THEOREM LogAlwaysHides == Spec => []LogHidesSecrets
<1>1. ExecutionInv => LogHidesSecrets
  BY DEF ExecutionInv, SecretsHeld
<1> QED
  BY <1>1, ExecutionInvariant, PTL

\* An action is disabled by as many failures in a row as its threshold says and by nothing
\* less, for any number of runs, actions and reloads, unless runs of it overlap, it is
\* resumed after its errors, or its plugin reports success with an exit code that denies it.
THEOREM FailuresAlwaysDisable == Spec => []FailuresDisable
<1>1. ExecutionInv => FailuresDisable
  <2> SUFFICES ASSUME ExecutionInv, NEW a \in Actions \ excused, Threshold[a] > 0,
                      \A r \in Runs : Uses(r, a) => run[r].pc \notin {"count", "log"}
               PROVE  /\ object[a].status = "active" => streak[a] < Threshold[a]
                      /\ object[a].status = "error" => streak[a] >= Threshold[a]
    BY DEF FailuresDisable
  <2> QED
    BY DEF ExecutionInv, FailuresCounted, Counted, Failing
<1> QED
  BY <1>1, ExecutionInvariant, PTL
=============================================================================
