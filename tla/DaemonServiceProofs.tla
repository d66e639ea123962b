------------------------- MODULE DaemonServiceProofs --------------------------
(***************************************************************************)
(* Theorems about the daemon, for every value of its constants: a stopped  *)
(* engine stays empty, the state is of its type, the engine follows the    *)
(* registry, the state file follows the registry, and an acknowledged      *)
(* suspension survives.                                                    *)
(*                                                                         *)
(* Each but the first rests on the one before: TypeInv says what is where, *)
(* Roles who is in the middle of what, Fine what is true of one trigger,   *)
(* FileInv of the files, SuspendInv of a suspension.  The lemmas named     *)
(* ...Tasks say once what a step does to the goroutine that takes it, so   *)
(* that the others need not open the records.                              *)
(***************************************************************************)
EXTENDS DaemonService, WellFoundedInduction, TLAPS

-----------------------------------------------------------------------------
(* A stopped engine. *)

\* Activate does nothing to a stopped engine.
LEMMA StoppedRefuses ==
  ASSUME NEW t, EngineStopped, ActivateTrigger(t)
  PROVE  active' = active
BY DEF ActivateTrigger, engine

\* Whatever requests and callbacks were in progress when StopAll emptied the engine, and
\* however many come after it, no driver is started again before the process ends.
THEOREM StoppedAlways == Spec => []StoppedStaysEmpty
<1>1. Init => StoppedStaysEmpty
  BY DEF Init, StoppedStaysEmpty, EngineStopped
<1>2. StoppedStaysEmpty /\ [Next]_vars => StoppedStaysEmpty'
  <2> SUFFICES ASSUME StoppedStaysEmpty, [Next]_vars PROVE StoppedStaysEmpty'
    OBVIOUS
  <2> USE DEF StoppedStaysEmpty, EngineStopped
  <2>1. ASSUME NEW p \in Handlers, Request(p) PROVE StoppedStaysEmpty'
    BY <2>1 DEF Request, RegisterRecurfile, DeregisterRecurfile, SuspendTrigger, ResumeTrigger,
                UninstallPlugin, Begin, engine
  <2>2. ASSUME NEW p \in Handlers, Callback(p) PROVE StoppedStaysEmpty'
    BY <2>2 DEF Callback, OnFired, OnTriggerError, Begin, engine
  <2>3. ASSUME NEW p \in Writers, TaskStep(p) PROVE StoppedStaysEmpty'
    <3>1. CASE ActivateNext(p)
      <4>1. EngineStopped => active' = active
        BY <3>1, StoppedRefuses DEF ActivateNext, engine
      <4>2. life' = life
        BY <3>1 DEF ActivateNext
      <4> QED
        BY <4>1, <4>2
    <3>2. CASE DeactivateNext(p)
      BY <3>2 DEF DeactivateNext, DeactivateTrigger
    <3>3. CASE RegisterResolved(p) \/ ListTriggers(p) \/ DeregisterResolved(p) \/ ResumeGet(p)
               \/ MarkError(p)
      BY <3>3 DEF RegisterResolved, ListTriggers, DeregisterResolved, ResumeGet, MarkError, engine
    <3>4. CASE TakeSnapshot(p) \/ WriteSnapshot(p) \/ Saved(p)
      BY <3>4 DEF TakeSnapshot, WriteSnapshot, Saved, engine
    <3> QED
      BY <2>3, <3>1, <3>2, <3>3, <3>4 DEF TaskStep
  <2>4. ASSUME MainStep PROVE StoppedStaysEmpty'
    BY <2>4 DEF MainStep, Boot, RemoveTemps, LoadState, ScanAppFolder, Serve, SrvStop, Exit, Die,
                engine
  <2>5. ASSUME StopAll PROVE StoppedStaysEmpty'
    BY <2>5 DEF StopAll
  <2>6. ASSUME Crash PROVE StoppedStaysEmpty'
    BY <2>6 DEF Crash, Die
  <2>7. ASSUME NEW f \in Files, EditRecurfile(f) PROVE StoppedStaysEmpty'
    BY <2>7 DEF EditRecurfile, engine
  <2>8. ASSUME UNCHANGED vars PROVE StoppedStaysEmpty'
    BY <2>8 DEF vars, engine
  <2> QED
    BY <2>1, <2>2, <2>3, <2>4, <2>5, <2>6, <2>7, <2>8 DEF Next
<1> QED
  BY <1>1, <1>2, PTL DEF Spec

-----------------------------------------------------------------------------
(* Types. *)

\* What a task and a save consist of, and the types of each part of the state.
TaskRecord ==
  [pc : {"idle", "register", "list", "get", "activate", "deactivate",
         "remove", "mark", "snapshot", "save", "serve", "exit"},
   kind : Kinds, file : Files, touches : SUBSET Triggers,
   parsed : SUBSET Triggers, todo : SUBSET Triggers, held : SUBSET Triggers]

SaveRecord ==
  [pc : {"none", "open", "write", "rename"}, snapshot : Snapshots \union {NoFile},
   stamp : 0..MaxStamp, inode : Inodes \union {NoInode}, alone : BOOLEAN]

FileType ==
  /\ canonical \in Inodes \union {NoInode}
  /\ DOMAIN tmp \subseteq 1..MaxStamp /\ Range(tmp) \subseteq Inodes
  /\ data \in [Inodes -> Snapshots \union {Torn}]
  /\ save \in [Writers -> SaveRecord]
  /\ doubtful \in BOOLEAN

RegistryType ==
  /\ registered \subseteq Files
  /\ status \in [Triggers -> Statuses \union {"none"}]
  /\ \A t \in Known : FileOf[t] \in registered
  /\ installed \in BOOLEAN

EngineType == active \subseteq Triggers /\ loops \in [Triggers -> Nat]

TaskType == task \in [Writers -> TaskRecord]

OtherType ==
  /\ life \in {"down", "clean", "load", "scan", "start", "up", "stopping", "stopped"}
  /\ content \in [Files -> SUBSET Triggers]
  /\ unreadable \subseteq Files
  /\ excused \subseteq Triggers /\ acknowledged \subseteq Triggers
  /\ lossy \in BOOLEAN

\* All of them: TypeOK in parts.
Types == FileType /\ RegistryType /\ EngineType /\ TaskType /\ OtherType

LEMMA TypesAreTypeOK == Types <=> TypeOK
  BY DEF Types, FileType, RegistryType, EngineType, TaskType, OtherType, TaskRecord, SaveRecord,
         TypeOK

-----------------------------------------------------------------------------
(* The records of the tasks. *)

\* The goroutines are the handlers and Main.
LEMMA Members ==
  /\ Main \in Writers /\ Handlers \subseteq Writers /\ Main \notin Handlers
  /\ \A p \in Writers : p = Main \/ p \in Handlers
  BY ServiceAssumption

\* A goroutine that does nothing, and one that begins.
LEMMA IdleType ==
  /\ Idle \in TaskRecord /\ Idle.pc = "idle" /\ Idle.kind = "none"
  /\ Idle.touches = {} /\ Idle.todo = {} /\ Idle.held = {} /\ Idle.parsed = {}
<1>1. (CHOOSE f \in Files : TRUE) \in Files
  BY ServiceAssumption
<1> QED
  BY <1>1 DEF Idle, TaskRecord, Kinds

\* The ways a task record is made, and what is in its fields.
LEMMA NewTaskType ==
  ASSUME NEW kind \in Kinds, NEW ts \in SUBSET Triggers
  PROVE  /\ NewTask(kind, ts) \in TaskRecord
         /\ NewTask(kind, ts).pc = "idle" /\ NewTask(kind, ts).kind = kind
         /\ NewTask(kind, ts).touches = ts
         /\ NewTask(kind, ts).todo = {} /\ NewTask(kind, ts).held = {}
  BY IdleType DEF NewTask, TaskRecord

LEMMA DeactivateAllType ==
  ASSUME NEW k \in TaskRecord, NEW ts \in SUBSET Triggers
  PROVE  LET d == DeactivateAll(k, ts) IN
         /\ d \in TaskRecord
         /\ d.pc = IF ts = {} THEN AfterDeactivate(k.kind) ELSE "deactivate"
         /\ d.todo = ts /\ d.kind = k.kind /\ d.file = k.file /\ d.touches = k.touches
         /\ d.held = k.held /\ d.parsed = k.parsed
<1>1. AfterDeactivate(k.kind) \in {"list", "remove", "snapshot"}
  BY DEF AfterDeactivate
<1> QED
  BY <1>1 DEF DeactivateAll, TaskRecord

LEMMA ActivateAllType ==
  ASSUME NEW k \in TaskRecord, NEW ts \in SUBSET Triggers
  PROVE  LET d == ActivateAll(k, ts) IN
         /\ d \in TaskRecord
         /\ d.pc = IF ts = {} THEN AfterActivate(k.kind) ELSE "activate"
         /\ d.todo = ts /\ d.kind = k.kind /\ d.file = k.file /\ d.touches = k.touches
         /\ d.held = k.held /\ d.parsed = k.parsed
<1>1. AfterActivate(k.kind) \in {"serve", "snapshot"}
  BY DEF AfterActivate
<1> QED
  BY <1>1 DEF ActivateAll, TaskRecord

LEMMA BecomeType ==
  ASSUME TaskType, NEW p \in Writers, NEW k \in TaskRecord, Become(p, k)
  PROVE  TaskType' /\ task'[p] = k /\ \A q \in Writers \ {p} : task'[q] = task[q]
  BY DEF Become, TaskType

\* Forgetting changes held only.
LEMMA ForgetType ==
  ASSUME TaskType, NEW f \in Files
  PROVE  /\ Forget(f) \in [Writers -> TaskRecord]
         /\ \A q \in Writers :
              /\ Forget(f)[q].held = task[q].held \ TriggersOf(f)
              /\ Forget(f)[q].pc = task[q].pc /\ Forget(f)[q].kind = task[q].kind
              /\ Forget(f)[q].file = task[q].file /\ Forget(f)[q].touches = task[q].touches
              /\ Forget(f)[q].todo = task[q].todo /\ Forget(f)[q].parsed = task[q].parsed
  BY DEF Forget, TaskType, TaskRecord

-----------------------------------------------------------------------------
(* The files. *)

\* The bounds of the files.
LEMMA FileBounds ==
  /\ MaxStamp \in Nat /\ Inodes \subseteq Nat /\ NoInode \notin Inodes
  /\ 0 \in 0..MaxStamp /\ 1..MaxStamp \subseteq 0..MaxStamp
  BY StateFileAssumption DEF Inodes, NoInode

\* A non-empty set of time stamps has a newest one.
LEMMA NewestIsIn ==
  ASSUME NEW n \in Nat, NEW S \in SUBSET (1..n), S # {}
  PROVE  Max(S) \in S
<1> DEFINE T == {n - k : k \in S}
           R == {ss \in Nat \X Nat : ss[1] < ss[2]}
<1>1. T \subseteq Nat /\ T # {}
  <2>1. PICK k \in S : TRUE
    OBVIOUS
  <2>2. n - k \in T
    OBVIOUS
  <2> QED
    BY <2>2
<1>2. IsWellFoundedOn(R, Nat)
  BY NatLessThanWellFounded, Zenon DEF OpToRel
<1>3. PICK m \in T : \A x \in T : ~(<<x, m>> \in R)
  <2> HIDE DEF T, R
  <2> QED
    BY <1>1, <1>2, WFMin
<1>4. \A x \in T : m <= x
  <2> SUFFICES ASSUME NEW x \in T PROVE m <= x
    OBVIOUS
  <2>1. x \in Nat /\ m \in Nat
    BY <1>1
  <2>2. ~(x < m)
    BY <1>3, <2>1
  <2> QED
    BY <2>1, <2>2
<1>5. PICK k \in S : m = n - k
  OBVIOUS
<1>6. \A j \in S : k >= j
  <2> SUFFICES ASSUME NEW j \in S PROVE k >= j
    OBVIOUS
  <2>1. n - j \in T
    OBVIOUS
  <2>2. n - k <= n - j
    BY <2>1, <1>4, <1>5
  <2>3. j \in 1..n /\ k \in 1..n
    OBVIOUS
  <2> HIDE DEF T
  <2> QED
    BY <2>2, <2>3
<1> HIDE DEF T
<1> QED
  BY <1>5, <1>6 DEF Max

\* Each step of a save, of the recovery and of a crash keeps the types.
LEMMA SaveBeginType ==
  ASSUME FileType, NEW w \in Writers, NEW s \in Snapshots, SaveBegin(w, s)
  PROVE  FileType'
<1>1. save' \in [Writers -> SaveRecord]
  <2>1. [NotSaving EXCEPT !.pc = "open", !.snapshot = s, !.alone = Saving = {}] \in SaveRecord
    <3>1. PICK b \in BOOLEAN : b = (Saving = {})
      OBVIOUS
    <3>2. [NotSaving EXCEPT !.pc = "open", !.snapshot = s, !.alone = b] \in SaveRecord
      BY FileBounds DEF NotSaving, SaveRecord
    <3> QED
      BY <3>1, <3>2
  <2>2. \A v \in Writers : [save[v] EXCEPT !.alone = FALSE] \in SaveRecord
    BY DEF FileType, SaveRecord
  <2> QED
    BY <2>1, <2>2 DEF SaveBegin
<1> QED
  BY <1>1 DEF SaveBegin, FileType

\* The newest temporary file exists.
LEMMA StampType ==
  ASSUME FileType
  PROVE  DOMAIN tmp # {} => Newest \in DOMAIN tmp /\ Newest \in 1..MaxStamp
  BY FileBounds, NewestIsIn DEF FileType, Newest

\* The time stamp and the inode a writer gets.
OpenedAs(w, stamp, inode) ==
  /\ stamp \in 1..MaxStamp
  /\ IF stamp \in DOMAIN tmp THEN inode = tmp[stamp] ELSE inode \in Unused
  /\ tmp' = [s \in DOMAIN tmp \union {stamp} |-> IF s = stamp THEN inode ELSE tmp[s]]
  /\ data' = [data EXCEPT ![inode] = Torn]
  /\ save' = [save EXCEPT ![w].pc = "write", ![w].stamp = stamp, ![w].inode = inode]

\* os.WriteFile's open, with its choice spelled out.
LEMMA OpenTempIs ==
  ASSUME FileType, NEW w \in Writers, OpenTemp(w)
  PROVE  \E stamp \in 1..MaxStamp, inode \in Inodes : OpenedAs(w, stamp, inode)
<1> DEFINE last == IF DOMAIN tmp = {} THEN 0 ELSE Newest
           inode(s) == IF s \in DOMAIN tmp THEN tmp[s] ELSE CHOOSE i \in Unused : TRUE
<1>1. PICK stamp \in {last, last + 1} \ {0} :
        /\ stamp <= MaxStamp
        /\ stamp \in DOMAIN tmp \/ Unused # {}
        /\ tmp' = [s \in DOMAIN tmp \union {stamp} |-> IF s = stamp THEN inode(stamp) ELSE tmp[s]]
        /\ data' = [data EXCEPT ![inode(stamp)] = Torn]
        /\ save' = [save EXCEPT ![w].pc = "write", ![w].stamp = stamp, ![w].inode = inode(stamp)]
  BY DEF OpenTemp
<1>2. last \in Nat
  <2>1. CASE DOMAIN tmp = {}
    BY <2>1
  <2>2. CASE DOMAIN tmp # {}
    <3>1. last = Newest
      BY <2>2
    <3>2. Newest \in 1..MaxStamp
      BY <2>2, StampType
    <3> QED
      BY <3>1, <3>2, FileBounds
  <2> QED
    BY <2>1, <2>2
<1>3. stamp \in 1..MaxStamp
  BY <1>1, <1>2, FileBounds
<1>4. IF stamp \in DOMAIN tmp THEN inode(stamp) = tmp[stamp] ELSE inode(stamp) \in Unused
  BY <1>1
<1>5. inode(stamp) \in Inodes
  BY <1>4 DEF Unused, FileType, Range
<1> QED
  BY <1>1, <1>3, <1>4, <1>5 DEF OpenedAs

LEMMA OpenTempType ==
  ASSUME FileType, NEW w \in Writers, OpenTemp(w)
  PROVE  FileType'
<1>1. PICK stamp \in 1..MaxStamp, inode \in Inodes : OpenedAs(w, stamp, inode)
  BY OpenTempIs
<1>2. DOMAIN tmp' \subseteq 1..MaxStamp /\ Range(tmp') \subseteq Inodes
  BY <1>1 DEF OpenedAs, FileType, Range
<1>3. data' \in [Inodes -> Snapshots \union {Torn}]
  BY <1>1 DEF OpenedAs, FileType
<1>4. save' \in [Writers -> SaveRecord]
  <2>1. save[w] \in SaveRecord
    BY DEF FileType
  <2>2. [save[w] EXCEPT !.pc = "write", !.stamp = stamp, !.inode = inode] \in SaveRecord
    <3>1. stamp \in 0..MaxStamp
      BY FileBounds
    <3> QED
      BY <2>1, <3>1 DEF SaveRecord
  <2>3. save' = [save EXCEPT ![w] = [save[w] EXCEPT !.pc = "write", !.stamp = stamp, !.inode = inode]]
    BY <1>1 DEF OpenedAs
  <2> QED
    BY <2>2, <2>3 DEF FileType
<1> QED
  BY <1>2, <1>3, <1>4 DEF FileType, OpenTemp

LEMMA NotSavingType == NotSaving \in SaveRecord /\ NotSaving.pc = "none"
  BY FileBounds DEF NotSaving, SaveRecord

\* What is in a writer's hands is a snapshot.
SnapshotsHeld == \A w \in Writers : save[w].pc # "none" => save[w].snapshot \in Snapshots

LEMMA WriteTempType ==
  ASSUME FileType, SnapshotsHeld, NEW w \in Writers, WriteTemp(w)
  PROVE  FileType'
<1>1. save[w].snapshot \in Snapshots
  BY DEF WriteTemp, SnapshotsHeld
<1>2. data' \in [Inodes -> Snapshots \union {Torn}]
  BY <1>1 DEF WriteTemp, FileType
<1>3. save' \in [Writers -> SaveRecord]
  BY ZenonT(40) DEF WriteTemp, FileType, SaveRecord
<1> QED
  BY <1>2, <1>3 DEF WriteTemp, FileType

\* Freed inodes and names that go.
LEMMA FreedType ==
  ASSUME FileType, NEW is
  PROVE  Freed(is) \in [Inodes -> Snapshots \union {Torn}]
  BY DEF FileType, Freed

LEMMA RestrictType ==
  ASSUME FileType, NEW S \in SUBSET DOMAIN tmp
  PROVE  DOMAIN Restrict(tmp, S) = S /\ Range(Restrict(tmp, S)) \subseteq Range(tmp)
         /\ \A s \in S : Restrict(tmp, S)[s] = tmp[s]
  BY DEF Restrict, Range

LEMMA LeaveType ==
  ASSUME FileType, NEW w \in Writers, RenameTemp(w) \/ SaveFails(w)
  PROVE  FileType'
<1>1. save' \in [Writers -> SaveRecord]
  BY NotSavingType DEF RenameTemp, SaveFails, FileType
<1>2. canonical' \in Inodes \union {NoInode}
  BY DEF RenameTemp, SaveFails, FileType, Range
<1>3. data' \in [Inodes -> Snapshots \union {Torn}]
  BY FreedType DEF RenameTemp, SaveFails, FileType
<1>4. DOMAIN tmp' \subseteq 1..MaxStamp /\ Range(tmp') \subseteq Inodes
  <2>1. tmp' = tmp \/ tmp' = Restrict(tmp, DOMAIN tmp \ {save[w].stamp})
    BY DEF RenameTemp, SaveFails
  <2> QED
    BY <2>1, RestrictType DEF FileType
<1>5. doubtful' \in BOOLEAN
  BY DEF RenameTemp, SaveFails
<1> QED
  BY <1>1, <1>2, <1>3, <1>4, <1>5 DEF FileType

LEMMA RecoverType ==
  ASSUME FileType, FileCrash \/ Promote \/ CleanUp
  PROVE  FileType'
<1>1. CASE FileCrash
  BY <1>1, NotSavingType DEF FileCrash, FileType
<1>2. CASE Promote
  <2>1. canonical' \in Inodes \union {NoInode}
    BY <1>2, StampType DEF Promote, FileType, Range
  <2>2. data' \in [Inodes -> Snapshots \union {Torn}]
    BY <1>2, FreedType DEF Promote, FileType
  <2>3. DOMAIN tmp' \subseteq 1..MaxStamp /\ Range(tmp') \subseteq Inodes
    BY <1>2, RestrictType DEF Promote, FileType
  <2> QED
    BY <1>2, <2>1, <2>2, <2>3 DEF Promote, FileType
<1>3. CASE CleanUp
  <2>1. DOMAIN tmp' = {} /\ Range(tmp') = {}
    BY <1>3 DEF CleanUp, Range
  <2> QED
    BY <1>3, <2>1, FreedType DEF CleanUp, FileType
<1> QED
  BY <1>1, <1>2, <1>3

-----------------------------------------------------------------------------
(* The types, part by part. *)

\* What a step of the daemon does to the files.
LEMMA FileSteps ==
  ASSUME [Next]_vars
  PROVE  \/ UNCHANGED fileVars
         \/ \E w \in Writers : SaveBegin(w, Snapshot) \/ SaveStep(w) \/ RenameTemp(w) \/ SaveFails(w)
         \/ FileCrash \/ Promote \/ CleanUp
<1>1. ASSUME NEW p \in Handlers, Request(p) PROVE UNCHANGED fileVars
  BY <1>1 DEF Request, RegisterRecurfile, DeregisterRecurfile, SuspendTrigger, ResumeTrigger,
              UninstallPlugin, Begin
<1>2. ASSUME NEW p \in Handlers, Callback(p) PROVE UNCHANGED fileVars
  BY <1>2 DEF Callback, OnFired, OnTriggerError, Begin
<1>3. ASSUME NEW p \in Writers, TaskStep(p)
      PROVE  \/ UNCHANGED fileVars
             \/ SaveBegin(p, Snapshot) \/ SaveStep(p) \/ RenameTemp(p) \/ SaveFails(p)
  BY <1>3 DEF TaskStep, RegisterResolved, ListTriggers, DeregisterResolved, ResumeGet, MarkError,
              DeactivateNext, ActivateNext, TakeSnapshot, WriteSnapshot, Saved
<1>4. ASSUME MainStep PROVE UNCHANGED fileVars \/ Promote \/ CleanUp \/ FileCrash
  BY <1>4 DEF MainStep, Boot, RemoveTemps, LoadState, ScanAppFolder, Serve, SrvStop, Exit, Die
<1>5. ASSUME StopAll \/ \E f \in Files : EditRecurfile(f) PROVE UNCHANGED fileVars
  BY <1>5 DEF StopAll, EditRecurfile
<1>6. ASSUME Crash PROVE FileCrash
  BY <1>6 DEF Crash, Die
<1>7. ASSUME UNCHANGED vars PROVE UNCHANGED fileVars
  BY <1>7 DEF vars
<1> QED
  BY <1>1, <1>2, <1>3, <1>4, <1>5, <1>6, <1>7 DEF Next

\* The registry is a snapshot.
LEMMA SnapshotType == RegistryType => Snapshot \in Snapshots
  BY DEF RegistryType, Snapshot, Snapshots

\* The types of the files, and of what is saved.
LEMMA FileTypeStep ==
  ASSUME FileType, SnapshotsHeld, RegistryType, [Next]_vars
  PROVE  FileType' /\ SnapshotsHeld'
<1>1. CASE UNCHANGED fileVars
  BY <1>1 DEF fileVars, FileType, SnapshotsHeld
<1>2. ASSUME NEW w \in Writers, SaveBegin(w, Snapshot) PROVE FileType' /\ SnapshotsHeld'
  <2>1. Snapshot \in Snapshots
    BY SnapshotType
  <2>2. FileType'
    <3> PICK s \in Snapshots : s = Snapshot
      BY <2>1
    <3> QED
      BY <1>2, SaveBeginType
  <2>3. SnapshotsHeld'
    <3> PICK s \in Snapshots : s = Snapshot
      BY <2>1
    <3> SUFFICES ASSUME NEW v \in Writers, save'[v].pc # "none"
                 PROVE  save'[v].snapshot \in Snapshots
      BY DEF SnapshotsHeld
    <3>1. CASE v = w
      <4>1. save'[v].snapshot = s
        BY <1>2, <3>1 DEF SaveBegin, NotSaving
      <4> QED
        BY <4>1
    <3>2. CASE v # w
      <4>1. save'[v] = [save[v] EXCEPT !.alone = FALSE]
        BY <1>2, <3>2 DEF SaveBegin
      <4>2. save[v] \in SaveRecord
        BY DEF FileType
      <4>3. save'[v].pc = save[v].pc /\ save'[v].snapshot = save[v].snapshot
        BY <4>1, <4>2 DEF SaveRecord
      <4> QED
        BY <4>3 DEF SnapshotsHeld
    <3> QED
      BY <3>1, <3>2
  <2> QED
    BY <2>2, <2>3
<1>3. ASSUME NEW w \in Writers, OpenTemp(w) PROVE FileType' /\ SnapshotsHeld'
  <2>1. PICK stamp \in 1..MaxStamp, inode \in Inodes : OpenedAs(w, stamp, inode)
    BY <1>3, OpenTempIs
  <2>2. SnapshotsHeld'
    BY <1>3, <2>1 DEF OpenTemp, OpenedAs, FileType, SaveRecord, SnapshotsHeld
  <2> QED
    BY <1>3, <2>2, OpenTempType
<1>4. ASSUME NEW w \in Writers, WriteTemp(w) PROVE FileType' /\ SnapshotsHeld'
  <2>1. SnapshotsHeld'
    BY <1>4 DEF WriteTemp, FileType, SaveRecord, SnapshotsHeld
  <2> QED
    BY <1>4, <2>1, WriteTempType
<1>5. ASSUME NEW w \in Writers, RenameTemp(w) \/ SaveFails(w) PROVE FileType' /\ SnapshotsHeld'
  <2>1. save' = [save EXCEPT ![w] = NotSaving]
    BY <1>5 DEF RenameTemp, SaveFails
  <2>2. SnapshotsHeld'
    BY <2>1, NotSavingType DEF FileType, SnapshotsHeld
  <2> QED
    BY <1>5, <2>2, LeaveType
<1>6. CASE FileCrash \/ Promote \/ CleanUp
  <2>1. SnapshotsHeld'
    BY <1>6, NotSavingType DEF FileCrash, Promote, CleanUp, SnapshotsHeld
  <2> QED
    BY <1>6, <2>1, RecoverType
<1> QED
  BY <1>1, <1>2, <1>3, <1>4, <1>5, <1>6, FileSteps DEF SaveStep

\* A registration or removal changes the triggers of its file only.
LEMMA RegisteredType ==
  ASSUME RegistryType, NEW f \in Files, NEW ts
  PROVE  /\ Registered(status, f, ts) \in [Triggers -> Statuses \union {"none"}]
         /\ \A t \in Triggers : FileOf[t] # f => Registered(status, f, ts)[t] = status[t]
         /\ \A t \in Triggers : FileOf[t] = f =>
              Registered(status, f, ts)[t] = IF t \in ts THEN "active" ELSE "none"
  BY DEF RegistryType, Registered, Statuses

\* What a start reads: the file, or nothing.
Read == IF Load \in {Torn, NoFile} THEN [files |-> {}, status |-> NoTrigger] ELSE Load

LEMMA ReadType == FileType => Read \in Snapshots
<1> SUFFICES ASSUME FileType PROVE Read \in Snapshots
  OBVIOUS
<1>1. [files |-> {}, status |-> NoTrigger] \in Snapshots
  BY DEF Snapshots, NoTrigger
<1>2. Load \in {Torn, NoFile} \/ Load \in Snapshots
  BY DEF FileType, Load
<1> QED
  BY <1>1, <1>2 DEF Read

\* loadState leaves a registry of its type.
LEMMA LoadType ==
  ASSUME FileType, RegistryType, LoadState
  PROVE  RegistryType'
<1> PICK s \in Snapshots : s = Read
  BY ReadType
<1>0. s.files \subseteq Files /\ s.status \in [Triggers -> Statuses \union {"none"}]
  BY DEF Snapshots
<1>1. /\ registered' = s.files \ unreadable
      /\ status' = [t \in Triggers |-> IF FileOf[t] \notin s.files \/ t \notin OnDisk THEN "none"
                                       ELSE IF s.status[t] = "none" THEN "active"
                                       ELSE s.status[t]]
      /\ installed' = installed
  BY DEF LoadState, Read
<1> QED
  BY <1>0, <1>1 DEF RegistryType, Known, OnDisk, Statuses

\* A goroutine holds pointers to triggers of the registry only, and none when it is about to
\* replace or remove a recurfile.
HeldKnown ==
  \A p \in Writers :
    /\ task[p].held \subseteq Known
    /\ task[p].pc \in {"register", "remove"} \/ task[p].kind = "deregister" => task[p].held = {}
    /\ task[p].pc = "list" => task[p].kind # "deregister"

\* Before the daemon has loaded its state nothing runs.
AtRest ==
  life \in {"down", "clean", "load", "scan"} =>
    (\A p \in Writers : task[p] = Idle) /\ \A t \in Triggers : loops[t] = 0 /\ t \notin active

\* The types of the registry and of the engine.
LEMMA RegistryTypeStep ==
  ASSUME FileType, RegistryType, TaskType, HeldKnown, [Next]_vars
  PROVE  RegistryType'
<1>1. CASE UNCHANGED registry
  BY <1>1 DEF RegistryType, Known, registry
<1>2. ASSUME NEW p \in Handlers, Request(p) PROVE RegistryType'
  <2>1. ASSUME NEW t \in Triggers, SuspendTrigger(p, t) PROVE RegistryType'
    BY <2>1 DEF SuspendTrigger, RegistryType, Known, Statuses
  <2>2. ASSUME NEW t \in Triggers, ResumeTrigger(p, t) PROVE RegistryType'
    BY <2>2 DEF ResumeTrigger, RegistryType, Known, Statuses
  <2>3. CASE UninstallPlugin(p)
    BY <2>3 DEF UninstallPlugin, RegistryType, Known, Statuses
  <2>4. ASSUME NEW f \in Files, RegisterRecurfile(p, f) \/ DeregisterRecurfile(p, f)
        PROVE  RegistryType'
    <3>1. UNCHANGED registry
      BY <2>4 DEF RegisterRecurfile, DeregisterRecurfile
    <3> QED
      BY <3>1, <1>1
  <2> QED
    BY <1>2, <2>1, <2>2, <2>3, <2>4 DEF Request
<1>3. ASSUME NEW p \in Handlers, Callback(p) PROVE RegistryType'
  <2>1. UNCHANGED registry
    BY <1>3 DEF Callback, OnFired, OnTriggerError
  <2> QED
    BY <2>1, <1>1
<1>4. ASSUME NEW p \in Writers, TaskStep(p) PROVE RegistryType'
  <2>0. task[p].file \in Files
    BY DEF TaskType, TaskRecord
  <2>1. CASE RegisterResolved(p)
    <3>1. /\ registered' = registered \union {task[p].file}
          /\ status' = Registered(status, task[p].file, task[p].parsed)
          /\ installed' = installed
      BY <2>1 DEF RegisterResolved
    <3> QED
      BY <2>0, <3>1, RegisteredType DEF RegistryType, Known
  <2>2. CASE DeregisterResolved(p)
    <3>1. /\ registered' = registered \ {task[p].file}
          /\ status' = Registered(status, task[p].file, {})
          /\ installed' = installed
      BY <2>2 DEF DeregisterResolved
    <3> QED
      BY <2>0, <3>1, RegisteredType DEF RegistryType, Known
  <2>3. CASE MarkError(p)
    <3>1. task[p].held \subseteq Known
      BY DEF HeldKnown
    <3> QED
      BY <2>3, <3>1 DEF MarkError, RegistryType, Known, Statuses
  <2>4. CASE ~RegisterResolved(p) /\ ~DeregisterResolved(p) /\ ~MarkError(p)
    <3>1. UNCHANGED registry
      BY <1>4, <2>4 DEF TaskStep, ListTriggers, ResumeGet, DeactivateNext, ActivateNext,
                       TakeSnapshot, WriteSnapshot, Saved
    <3> QED
      BY <3>1, <1>1
  <2> QED
    BY <2>1, <2>2, <2>3, <2>4
<1>5. ASSUME MainStep PROVE RegistryType'
  <2>1. CASE Boot
    BY <2>1 DEF Boot, RegistryType, Known
  <2>2. CASE LoadState
    BY <2>2, LoadType
  <2>3. CASE ScanAppFolder
    <3>1. (Apps \ registered) \ unreadable \subseteq Files
      BY ServiceAssumption
    <3> QED
      BY <2>3, <3>1 DEF ScanAppFolder, RegistryType, Known, Statuses
  <2>4. CASE Exit
    BY <2>4 DEF Exit, Die, RegistryType, Known, NoTrigger, Statuses
  <2>5. CASE RemoveTemps \/ Serve \/ SrvStop
    <3>1. UNCHANGED registry
      BY <2>5 DEF RemoveTemps, Serve, SrvStop
    <3> QED
      BY <3>1, <1>1
  <2> QED
    BY <1>5, <2>1, <2>2, <2>3, <2>4, <2>5 DEF MainStep
<1>6. CASE Crash
  BY <1>6 DEF Crash, Die, RegistryType, Known, NoTrigger, Statuses
<1>7. ASSUME StopAll \/ \E f \in Files : EditRecurfile(f) PROVE RegistryType'
  <2>1. UNCHANGED registry
    BY <1>7 DEF StopAll, EditRecurfile
  <2> QED
    BY <2>1, <1>1
<1>8. CASE UNCHANGED vars
  BY <1>8, <1>1 DEF vars
<1> QED
  BY <1>2, <1>3, <1>4, <1>5, <1>6, <1>7, <1>8 DEF Next

LEMMA EngineTypeStep ==
  ASSUME EngineType, TaskType, [Next]_vars
  PROVE  EngineType'
<1>1. CASE UNCHANGED engine
  BY <1>1 DEF EngineType, engine
<1>2. ASSUME NEW p \in Handlers, Request(p) PROVE UNCHANGED engine
  BY <1>2 DEF Request, RegisterRecurfile, DeregisterRecurfile, SuspendTrigger, ResumeTrigger,
              UninstallPlugin
<1>3. ASSUME NEW p \in Handlers, Callback(p) PROVE EngineType'
  <2>1. ASSUME NEW t \in Triggers, OnTriggerError(p, t) PROVE EngineType'
    <3>1. loops' = [loops EXCEPT ![t] = loops[t] - 1] /\ loops[t] > 0 /\ active' = active
      BY <2>1 DEF OnTriggerError
    <3> QED
      BY <3>1 DEF EngineType
  <2>2. CASE OnFired(p)
    BY <1>1, <2>2 DEF OnFired
  <2> QED
    BY <1>3, <2>1, <2>2 DEF Callback
<1>4. ASSUME NEW p \in Writers, TaskStep(p) PROVE EngineType'
  <2>0. task[p].todo \subseteq Triggers
    BY DEF TaskType, TaskRecord
  <2>1. CASE ActivateNext(p)
    <3>1. PICK t \in task[p].todo : ActivateTrigger(t) \/ UNCHANGED engine
      BY <2>1 DEF ActivateNext
    <3> QED
      BY <1>1, <2>0, <3>1 DEF ActivateTrigger, EngineType, engine
  <2>2. CASE DeactivateNext(p)
    BY <2>2 DEF DeactivateNext, DeactivateTrigger, EngineType
  <2>3. CASE ~ActivateNext(p) /\ ~DeactivateNext(p)
    <3>1. UNCHANGED engine
      BY <1>4, <2>3 DEF TaskStep, RegisterResolved, ListTriggers, DeregisterResolved, ResumeGet,
                       MarkError, TakeSnapshot, WriteSnapshot, Saved
    <3> QED
      BY <3>1, <1>1
  <2> QED
    BY <2>1, <2>2, <2>3
<1>5. CASE MainStep \/ StopAll \/ Crash
  BY <1>5 DEF MainStep, Boot, RemoveTemps, LoadState, ScanAppFolder, Serve, SrvStop, Exit, Die,
              StopAll, Crash, EngineType, engine
<1>6. ASSUME NEW f \in Files, EditRecurfile(f) PROVE UNCHANGED engine
  BY <1>6 DEF EditRecurfile
<1>7. ASSUME UNCHANGED vars PROVE UNCHANGED engine
  BY <1>7 DEF vars
<1> QED
  BY <1>1, <1>2, <1>3, <1>4, <1>5, <1>6, <1>7 DEF Next

\* A task that only goes on, or only takes pointers.
Pcs == {"idle", "register", "list", "get", "activate", "deactivate",
        "remove", "mark", "snapshot", "save", "serve", "exit"}

\* The fields of a task that another has as well.
SameBut(k, d, pc) ==
  /\ d \in TaskRecord /\ d.pc = pc /\ d.kind = k.kind /\ d.file = k.file
  /\ d.touches = k.touches /\ d.parsed = k.parsed /\ d.todo = k.todo

LEMMA WithPc ==
  ASSUME NEW k \in TaskRecord, NEW pc \in Pcs
  PROVE  SameBut(k, [k EXCEPT !.pc = pc], pc) /\ [k EXCEPT !.pc = pc].held = k.held
  BY DEF TaskRecord, Pcs, SameBut

LEMMA WithHeld ==
  ASSUME NEW k \in TaskRecord, NEW ts \in SUBSET Triggers
  PROVE  /\ SameBut(k, [k EXCEPT !.held = ts], k.pc) /\ [k EXCEPT !.held = ts].held = ts
  BY DEF TaskRecord, SameBut

\* New tasks of these two kinds.
LEMMA ErrorTask ==
  ASSUME NEW ts \in SUBSET Triggers
  PROVE  LET d == [NewTask("error", ts) EXCEPT !.pc = "mark", !.held = ts]
         IN  /\ d \in TaskRecord /\ d.pc = "mark" /\ d.kind = "error"
             /\ d.touches = ts /\ d.todo = {} /\ d.held = ts
  BY IdleType DEF NewTask, TaskRecord, Kinds

LEMMA DeregisterTask ==
  ASSUME NEW f \in Files, NEW ts \in SUBSET Triggers
  PROVE  LET d == [NewTask("deregister", ts) EXCEPT !.file = f]
         IN  /\ d \in TaskRecord /\ d.pc = "idle" /\ d.kind = "deregister" /\ d.file = f
             /\ d.touches = ts /\ d.todo = {} /\ d.held = {}
  BY IdleType DEF NewTask, TaskRecord, Kinds

-----------------------------------------------------------------------------
(* What each step does to the tasks. *)

\* Where a goroutine is after a step ...
Now(p, pc, kind, touches, todo, held) ==
  /\ task'[p].pc = pc /\ task'[p].kind = kind /\ task'[p].touches = touches
  /\ task'[p].todo = todo /\ task'[p].held = held

\* ... the others being where they were.
Only(p) == TaskType' /\ \A q \in Writers \ {p} : task'[q] = task[q]

\* The triggers of a registered recurfile.
Of(f) == {t \in Known : FileOf[t] = f}

\* What each request and callback does to the tasks.
LEMMA RegisterTasks ==
  ASSUME TaskType, OtherType, NEW p \in Writers, NEW f \in Files, RegisterRecurfile(p, f)
  PROVE  /\ Only(p) /\ Now(p, "register", "register", TriggersOf(f), {}, {})
         /\ task'[p].file = f /\ task'[p].parsed = content[f]
<1>1. TriggersOf(f) \subseteq Triggers /\ content[f] \subseteq Triggers
  BY DEF TriggersOf, OtherType
<1> PICK ts \in SUBSET Triggers, parsed \in SUBSET Triggers : ts = TriggersOf(f) /\ parsed = content[f]
  BY <1>1
<1> PICK d : d = [NewTask("register", ts) EXCEPT !.pc = "register", !.file = f, !.parsed = parsed]
  OBVIOUS
<1>2. /\ d \in TaskRecord /\ d.pc = "register" /\ d.kind = "register" /\ d.file = f
      /\ d.touches = TriggersOf(f) /\ d.todo = {} /\ d.held = {} /\ d.parsed = content[f]
  <2>1. /\ d \in TaskRecord /\ d.pc = "register" /\ d.kind = "register" /\ d.file = f
        /\ d.touches = ts /\ d.todo = {} /\ d.held = {} /\ d.parsed = parsed
    BY IdleType DEF NewTask, TaskRecord, Kinds
  <2> QED
    BY <2>1
<1>3. Become(p, d)
  BY DEF RegisterRecurfile
<1> QED
  BY <1>2, <1>3, BecomeType DEF Only, Now

LEMMA DeregisterTasks ==
  ASSUME TaskType, NEW p \in Writers, NEW f \in Files, DeregisterRecurfile(p, f)
  PROVE  /\ Only(p) /\ task'[p].file = f
         /\ Now(p, IF Of(f) = {} THEN "remove" ELSE "deactivate", "deregister", TriggersOf(f),
                Of(f), {})
<1> PICK k : k = [NewTask("deregister", TriggersOf(f)) EXCEPT !.file = f]
  OBVIOUS
<1>1. TriggersOf(f) \subseteq Triggers /\ Of(f) \subseteq Triggers
  BY DEF TriggersOf, Of, Known
<1>2. /\ k \in TaskRecord /\ k.kind = "deregister" /\ k.file = f
      /\ k.touches = TriggersOf(f) /\ k.held = {}
  BY <1>1, DeregisterTask
<1> PICK ts \in SUBSET Triggers : ts = Of(f)
  BY <1>1
<1> PICK d : d = DeactivateAll(k, ts)
  OBVIOUS
<1>3. Become(p, d)
  BY DEF DeregisterRecurfile, Of
<1>4. /\ d \in TaskRecord /\ d.pc = IF Of(f) = {} THEN "remove" ELSE "deactivate"
      /\ d.todo = Of(f) /\ d.kind = "deregister" /\ d.file = f /\ d.touches = TriggersOf(f)
      /\ d.held = {}
  <2>1. AfterDeactivate(k.kind) = "remove"
    BY <1>2 DEF AfterDeactivate
  <2> QED
    BY <1>2, <2>1, DeactivateAllType, ZenonT(40)
<1> QED
  BY <1>3, <1>4, BecomeType DEF Only, Now

LEMMA SuspendTasks ==
  ASSUME TaskType, NEW p \in Writers, NEW t \in Triggers, SuspendTrigger(p, t)
  PROVE  Only(p) /\ Now(p, "deactivate", "suspend", {t}, {t}, {})
<1> PICK k : k = NewTask("suspend", {t})
  OBVIOUS
<1>1. k \in TaskRecord /\ k.kind = "suspend" /\ k.touches = {t} /\ k.held = {}
  BY NewTaskType DEF Kinds
<1> PICK ts \in SUBSET Triggers : ts = {t}
  OBVIOUS
<1> PICK d : d = DeactivateAll(k, ts)
  OBVIOUS
<1>2. Become(p, d)
  BY DEF SuspendTrigger
<1>3. /\ d \in TaskRecord /\ d.pc = "deactivate"
      /\ d.todo = {t} /\ d.kind = "suspend" /\ d.touches = {t} /\ d.held = {}
  BY <1>1, DeactivateAllType, ZenonT(40)
<1> QED
  BY <1>2, <1>3, BecomeType DEF Only, Now

LEMMA ResumeTasks ==
  ASSUME TaskType, NEW p \in Writers, NEW t \in Triggers, ResumeTrigger(p, t)
  PROVE  /\ Only(p)
         /\ Now(p, IF status[t] = "active" THEN "snapshot" ELSE "get", "resume", {t}, {}, {})
<1> PICK k : k = NewTask("resume", {t})
  OBVIOUS
<1>1. k \in TaskRecord /\ k.kind = "resume" /\ k.touches = {t} /\ k.todo = {} /\ k.held = {}
  BY NewTaskType DEF Kinds
<1> PICK pc \in Pcs : pc = IF status[t] = "active" THEN "snapshot" ELSE "get"
  BY DEF Pcs
<1> PICK d : d = [k EXCEPT !.pc = pc]
  OBVIOUS
<1>2. Become(p, d)
  BY DEF ResumeTrigger
<1>3. SameBut(k, d, pc) /\ d.held = k.held
  BY <1>1, WithPc
<1> QED
  BY <1>1, <1>2, <1>3, BecomeType DEF Only, Now, SameBut

\* The triggers an uninstall suspends.
Unsuspended == {t \in Known \intersect Dependent : status[t] # "suspended"}

LEMMA UninstallTasks ==
  ASSUME TaskType, NEW p \in Writers, UninstallPlugin(p)
  PROVE  /\ Only(p)
         /\ \/ Unsuspended = {} /\ task'[p] = Idle
            \/ Unsuspended # {} /\ Now(p, "deactivate", "uninstall", Dependent, Unsuspended, {})
<1>1. Dependent \subseteq Triggers /\ Unsuspended \subseteq Triggers
  BY ServiceAssumption DEF Unsuspended, Known
<1> PICK k : k = NewTask("uninstall", Dependent)
  OBVIOUS
<1>2. k \in TaskRecord /\ k.kind = "uninstall" /\ k.touches = Dependent /\ k.held = {}
  BY <1>1, NewTaskType DEF Kinds
<1> PICK d : d = DeactivateAll(k, Unsuspended)
  OBVIOUS
<1>3. Become(p, IF Unsuspended = {} THEN Idle ELSE d)
  BY DEF UninstallPlugin, Unsuspended
<1>4. /\ d \in TaskRecord /\ d.pc = IF Unsuspended = {} THEN "snapshot" ELSE "deactivate"
      /\ d.todo = Unsuspended /\ d.kind = "uninstall" /\ d.touches = Dependent /\ d.held = {}
  BY <1>1, <1>2, DeactivateAllType DEF AfterDeactivate
<1>5. CASE Unsuspended = {}
  BY <1>3, <1>5, IdleType, BecomeType DEF Only
<1>6. CASE Unsuspended # {}
  BY <1>3, <1>4, <1>6, BecomeType DEF Only, Now
<1> QED
  BY <1>5, <1>6

LEMMA ErrorTasks ==
  ASSUME TaskType, NEW p \in Writers, NEW t \in Triggers, OnTriggerError(p, t)
  PROVE  /\ Only(p)
         /\ \/ t \notin Known /\ task'[p] = Idle
            \/ t \in Known /\ Now(p, "mark", "error", {t}, {}, {t})
<1> PICK ts \in SUBSET Triggers : ts = {t}
  OBVIOUS
<1> PICK d : d = [NewTask("error", ts) EXCEPT !.pc = "mark", !.held = ts]
  OBVIOUS
<1>1. /\ d \in TaskRecord /\ d.pc = "mark" /\ d.kind = "error"
      /\ d.touches = {t} /\ d.todo = {} /\ d.held = {t}
  BY ErrorTask
<1>2. Become(p, IF t \notin Known THEN Idle ELSE d)
  BY DEF OnTriggerError
<1> QED
  BY <1>1, <1>2, IdleType, BecomeType DEF Only, Now

\* A task that has only to save.
LEMMA FreshTasks ==
  ASSUME TaskType, NEW p \in Writers, NEW kind \in {"fired", "startup", "shutdown"},
         Become(p, [NewTask(kind, {}) EXCEPT !.pc = "snapshot"])
  PROVE  Only(p) /\ Now(p, "snapshot", kind, {}, {}, {})
<1> PICK k : k = NewTask(kind, {})
  OBVIOUS
<1>1. k \in TaskRecord /\ k.kind = kind /\ k.touches = {} /\ k.todo = {} /\ k.held = {}
  BY NewTaskType DEF Kinds
<1>2. SameBut(k, [k EXCEPT !.pc = "snapshot"], "snapshot") /\ [k EXCEPT !.pc = "snapshot"].held = {}
  BY <1>1, WithPc DEF Pcs
<1> QED
  BY <1>1, <1>2, BecomeType DEF Only, Now, SameBut

\* A registration or removal: the others lose their pointers into the recurfile.
Reloads(p, d) ==
  /\ TaskType' /\ task'[p] = d
  /\ \A q \in Writers \ {p} :
       /\ Now(q, task[q].pc, task[q].kind, task[q].touches, task[q].todo,
              task[q].held \ TriggersOf(task[p].file))
       /\ task'[q].file = task[q].file

LEMMA ForgetTasks ==
  ASSUME TaskType, NEW p \in Writers, NEW d \in TaskRecord,
         task' = [Forget(task[p].file) EXCEPT ![p] = d]
  PROVE  Reloads(p, d)
<1>1. task[p].file \in Files
  BY DEF TaskType, TaskRecord
<1> PICK f \in Files : f = task[p].file
  BY <1>1
<1>2. task' = [Forget(f) EXCEPT ![p] = d]
  OBVIOUS
<1>3. TaskType'
  BY <1>2, ForgetType DEF TaskType
<1>4. task'[p] = d /\ \A q \in Writers \ {p} : task'[q] = Forget(f)[q]
  BY <1>2, ForgetType
<1> QED
  BY <1>3, <1>4, ForgetType DEF Reloads, Now

\* The two steps that reload a recurfile.
LEMMA ResolvedTasks ==
  ASSUME TaskType, NEW p \in Writers, RegisterResolved(p)
  PROVE  \E d \in TaskRecord :
           /\ Reloads(p, d)
           /\ d.pc = IF Of(task[p].file) = {} THEN AfterDeactivate(task[p].kind) ELSE "deactivate"
           /\ d.todo = Of(task[p].file) /\ d.kind = task[p].kind /\ d.file = task[p].file
           /\ d.touches = task[p].touches /\ d.held = task[p].held
<1> PICK k \in TaskRecord : k = task[p]
  BY DEF TaskType
<1>1. Of(k.file) \subseteq Triggers
  BY DEF Of, Known
<1> PICK d : d = DeactivateAll(k, Of(k.file))
  OBVIOUS
<1>2. task' = [Forget(task[p].file) EXCEPT ![p] = d]
  BY DEF RegisterResolved, Of
<1>3. /\ d \in TaskRecord
      /\ d.pc = IF Of(k.file) = {} THEN AfterDeactivate(k.kind) ELSE "deactivate"
      /\ d.todo = Of(k.file) /\ d.kind = k.kind /\ d.file = k.file /\ d.touches = k.touches
      /\ d.held = k.held
  BY <1>1, DeactivateAllType
<1> QED
  BY <1>2, <1>3, ForgetTasks

LEMMA RemovedTasks ==
  ASSUME TaskType, NEW p \in Writers, DeregisterResolved(p)
  PROVE  \E d \in TaskRecord :
           /\ Reloads(p, d)
           /\ \/ task[p].file \notin registered /\ d = Idle
              \/ task[p].file \in registered /\ SameBut(task[p], d, "snapshot")
                   /\ d.held = task[p].held
<1> PICK k \in TaskRecord : k = task[p]
  BY DEF TaskType
<1> PICK d : d = IF k.file \in registered THEN [k EXCEPT !.pc = "snapshot"] ELSE Idle
  OBVIOUS
<1>1. d \in TaskRecord /\ \/ k.file \notin registered /\ d = Idle
                          \/ k.file \in registered /\ SameBut(k, d, "snapshot") /\ d.held = k.held
  BY WithPc, IdleType, ZenonT(40) DEF SameBut, Pcs
<1>2. task' = [Forget(task[p].file) EXCEPT ![p] = d]
  BY DEF DeregisterResolved
<1> QED
  BY <1>1, <1>2, ForgetTasks

\* What a task sees when it lists the triggers.
Mine(p) == IF task[p].kind = "startup" THEN Known ELSE Of(task[p].file)

LEMMA ListTasks ==
  ASSUME TaskType, NEW p \in Writers, ListTriggers(p)
  PROVE  /\ Only(p) /\ task'[p].file = task[p].file
         /\ Now(p, IF Mine(p) = {} THEN AfterActivate(task[p].kind) ELSE "activate",
                task[p].kind, task[p].touches, Mine(p), Mine(p))
<1> PICK k \in TaskRecord : k = task[p]
  BY DEF TaskType
<1>1. Mine(p) \subseteq Triggers
  BY DEF Mine, Of, Known
<1> PICK ts \in SUBSET Triggers : ts = Mine(p)
  BY <1>1
<1>h. PICK h \in TaskRecord : h = [k EXCEPT !.held = ts]
  BY WithHeld DEF SameBut
<1>2. SameBut(k, h, k.pc) /\ h.held = ts
  BY <1>h, WithHeld
<1> PICK d : d = ActivateAll(h, ts)
  OBVIOUS
<1>3. Become(p, d)
  BY <1>h DEF ListTriggers, Mine, Of
<1>4. /\ d \in TaskRecord /\ d.pc = IF Mine(p) = {} THEN AfterActivate(k.kind) ELSE "activate"
      /\ d.todo = Mine(p) /\ d.kind = k.kind /\ d.file = k.file /\ d.touches = k.touches
      /\ d.held = Mine(p)
  <2>1. h \in TaskRecord /\ h.kind = k.kind /\ h.file = k.file /\ h.touches = k.touches
    BY <1>2 DEF SameBut
  <2>2. /\ d \in TaskRecord /\ d.pc = IF ts = {} THEN AfterActivate(h.kind) ELSE "activate"
        /\ d.todo = ts /\ d.kind = h.kind /\ d.file = h.file /\ d.touches = h.touches
        /\ d.held = h.held
    BY <2>1, ActivateAllType
  <2> QED
    BY <1>2, <2>1, <2>2
<1> QED
  BY <1>3, <1>4, BecomeType DEF Only, Now

\* The other steps of a task.
LEMMA GetTasks ==
  ASSUME TaskType, NEW p \in Writers, ResumeGet(p)
  PROVE  /\ Only(p) /\ task'[p].file = task[p].file
         /\ Now(p, IF task[p].touches \intersect Known = {} THEN AfterActivate(task[p].kind)
                   ELSE "activate",
                task[p].kind, task[p].touches, task[p].touches \intersect Known, task[p].held)
<1> PICK k \in TaskRecord : k = task[p]
  BY DEF TaskType
<1> PICK ts \in SUBSET Triggers : ts = k.touches \intersect Known
  BY DEF TaskRecord
<1> PICK d : d = ActivateAll(k, ts)
  OBVIOUS
<1>1. Become(p, d)
  BY DEF ResumeGet
<1>2. /\ d \in TaskRecord /\ d.pc = IF ts = {} THEN AfterActivate(k.kind) ELSE "activate"
      /\ d.todo = ts /\ d.kind = k.kind /\ d.file = k.file /\ d.touches = k.touches
      /\ d.held = k.held
  BY ActivateAllType
<1> QED
  BY <1>1, <1>2, BecomeType DEF Only, Now

LEMMA MarkTasks ==
  ASSUME TaskType, NEW p \in Writers, MarkError(p)
  PROVE  /\ Only(p) /\ task'[p].file = task[p].file
         /\ \/ /\ status' = [t \in Triggers |-> IF t \in task[p].held THEN "error" ELSE status[t]]
               /\ Now(p, IF task[p].touches = {} THEN AfterDeactivate(task[p].kind)
                         ELSE "deactivate",
                      task[p].kind, task[p].touches, task[p].touches, task[p].held)
            \/ /\ UNCHANGED status
               /\ Now(p, "snapshot", task[p].kind, task[p].touches, task[p].todo, task[p].held)
<1> PICK k \in TaskRecord : k = task[p]
  BY DEF TaskType
<1> PICK ts \in SUBSET Triggers : ts = k.touches
  BY DEF TaskRecord
<1> PICK d, e : d = DeactivateAll(k, ts) /\ e = [k EXCEPT !.pc = "snapshot"]
  OBVIOUS
<1>1. /\ d \in TaskRecord /\ d.pc = IF ts = {} THEN AfterDeactivate(k.kind) ELSE "deactivate"
      /\ d.todo = ts /\ d.kind = k.kind /\ d.file = k.file /\ d.touches = k.touches
      /\ d.held = k.held
  BY DeactivateAllType
<1>2. SameBut(k, e, "snapshot") /\ e.held = k.held
  BY WithPc DEF Pcs
<1>3. \/ /\ status' = [t \in Triggers |-> IF t \in task[p].held THEN "error" ELSE status[t]]
         /\ Become(p, d)
      \/ UNCHANGED status /\ Become(p, e)
  BY DEF MarkError
<1> QED
  BY <1>1, <1>2, <1>3, BecomeType DEF Only, Now, SameBut

LEMMA DeactivateTasks ==
  ASSUME TaskType, NEW p \in Writers, DeactivateNext(p)
  PROVE  /\ Only(p) /\ task'[p].file = task[p].file
         /\ \E t \in task[p].todo :
              /\ active' = active \ {t} /\ loops' = loops
              /\ Now(p, IF task[p].todo = {t} THEN AfterDeactivate(task[p].kind) ELSE "deactivate",
                     task[p].kind, task[p].touches, task[p].todo \ {t}, task[p].held)
<1> PICK k \in TaskRecord : k = task[p]
  BY DEF TaskType
<1> PICK t \in k.todo : DeactivateTrigger(t) /\ Become(p, DeactivateAll(k, k.todo \ {t}))
  BY DEF DeactivateNext
<1> PICK ts \in SUBSET Triggers : ts = k.todo \ {t}
  BY DEF TaskRecord
<1> PICK d : d = DeactivateAll(k, ts)
  OBVIOUS
<1>1. /\ d \in TaskRecord /\ d.pc = IF ts = {} THEN AfterDeactivate(k.kind) ELSE "deactivate"
      /\ d.todo = ts /\ d.kind = k.kind /\ d.file = k.file /\ d.touches = k.touches
      /\ d.held = k.held
  BY DeactivateAllType
<1>2. ts = {} <=> k.todo = {t}
  OBVIOUS
<1>3. Become(p, d)
  OBVIOUS
<1> QED
  BY <1>1, <1>2, <1>3, BecomeType DEF Only, Now, DeactivateTrigger

LEMMA ActivateTasks ==
  ASSUME TaskType, NEW p \in Writers, ActivateNext(p)
  PROVE  /\ Only(p) /\ task'[p].file = task[p].file
         /\ \E t \in task[p].todo :
              /\ \/ /\ task[p].kind = "resume" \/ t \notin task[p].held \/ status[t] = "active"
                    /\ ActivateTrigger(t)
                 \/ /\ task[p].kind # "resume"
                    /\ t \in task[p].held => status[t] # "active"
                    /\ UNCHANGED <<engine, excused>>
              /\ Now(p, IF task[p].todo = {t} THEN AfterActivate(task[p].kind) ELSE "activate",
                     task[p].kind, task[p].touches, task[p].todo \ {t}, task[p].held)
<1> PICK k \in TaskRecord : k = task[p]
  BY DEF TaskType
<1>0. PICK t \in k.todo :
        /\ \/ /\ k.kind = "resume" \/ t \notin k.held \/ status[t] = "active"
              /\ ActivateTrigger(t)
           \/ /\ k.kind # "resume"
              /\ t \in k.held => status[t] # "active"
              /\ UNCHANGED <<engine, excused>>
        /\ Become(p, ActivateAll(k, k.todo \ {t}))
  BY DEF ActivateNext
<1> PICK ts \in SUBSET Triggers : ts = k.todo \ {t}
  BY DEF TaskRecord
<1> PICK d : d = ActivateAll(k, ts)
  OBVIOUS
<1>1. /\ d \in TaskRecord /\ d.pc = IF ts = {} THEN AfterActivate(k.kind) ELSE "activate"
      /\ d.todo = ts /\ d.kind = k.kind /\ d.file = k.file /\ d.touches = k.touches
      /\ d.held = k.held
  BY ActivateAllType
<1>2. ts = {} <=> k.todo = {t}
  OBVIOUS
<1>3. Become(p, d)
  BY <1>0
<1>4. Only(p) /\ task'[p] = d
  BY <1>1, <1>3, BecomeType DEF Only
<1>5. Now(p, IF k.todo = {t} THEN AfterActivate(k.kind) ELSE "activate",
          k.kind, k.touches, k.todo \ {t}, k.held)
  BY <1>1, <1>2, <1>4 DEF Now
<1> QED
  BY <1>0, <1>1, <1>4, <1>5

LEMMA SnapshotTasks ==
  ASSUME TaskType, NEW p \in Writers, TakeSnapshot(p)
  PROVE  /\ Only(p) /\ task'[p].file = task[p].file
         /\ Now(p, "save", task[p].kind, task[p].touches, task[p].todo, task[p].held)
<1> PICK k \in TaskRecord : k = task[p]
  BY DEF TaskType
<1> PICK d : d = [k EXCEPT !.pc = "save"]
  OBVIOUS
<1>1. SameBut(k, d, "save") /\ d.held = k.held
  BY WithPc DEF Pcs
<1>2. Become(p, d)
  BY DEF TakeSnapshot
<1> QED
  BY <1>1, <1>2, BecomeType DEF Only, Now, SameBut

LEMMA SavedTasks ==
  ASSUME TaskType, NEW p \in Writers, Saved(p)
  PROVE  /\ Only(p)
         /\ \/ task[p].kind \notin {"startup", "shutdown"} /\ task'[p] = Idle
            \/ /\ task[p].kind \in {"startup", "shutdown"} /\ task'[p].file = task[p].file
               /\ Now(p, IF task[p].kind = "startup" THEN "list" ELSE "exit", task[p].kind,
                      task[p].touches, task[p].todo, task[p].held)
<1> PICK k \in TaskRecord : k = task[p]
  BY DEF TaskType
<1> PICK d, e : d = [k EXCEPT !.pc = "list"] /\ e = [k EXCEPT !.pc = "exit"]
  OBVIOUS
<1>1. SameBut(k, d, "list") /\ d.held = k.held /\ SameBut(k, e, "exit") /\ e.held = k.held
  BY WithPc DEF Pcs
<1>2. Become(p, CASE k.kind = "startup" -> d [] k.kind = "shutdown" -> e [] OTHER -> Idle)
  BY DEF Saved
<1>3. CASE k.kind = "startup"
  BY <1>1, <1>2, <1>3, BecomeType DEF Only, Now, SameBut
<1>4. CASE k.kind = "shutdown"
  BY <1>1, <1>2, <1>4, BecomeType DEF Only, Now, SameBut
<1>5. CASE k.kind \notin {"startup", "shutdown"}
  BY <1>2, <1>5, IdleType, BecomeType DEF Only
<1> QED
  BY <1>3, <1>4, <1>5

-----------------------------------------------------------------------------
(* The type invariant. *)

\* TypeOK is not inductive alone: who holds a pointer, and what is in a writer's hands,
\* must be known too.
TypeInv == Types /\ SnapshotsHeld /\ AtRest /\ HeldKnown

\* The end of a daemon leaves nothing that runs.
LEMMA DieTasks == Die => TaskType' /\ \A p \in Writers : task'[p] = Idle
  BY IdleType DEF Die, TaskType

\* What the steps of Main do to the tasks.
LEMMA RestTasks ==
  ASSUME TypeInv, life \in {"down", "clean", "load", "scan"}
  PROVE  \A p \in Writers : task[p].pc = "idle"
  BY IdleType DEF TypeInv, AtRest

LEMMA ScanTasks ==
  ASSUME TaskType, ScanAppFolder
  PROVE  Only(Main) /\ Now(Main, "snapshot", "startup", {}, {}, {})
  BY Members, FreshTasks DEF ScanAppFolder

LEMMA StopTasks ==
  ASSUME TaskType, SrvStop
  PROVE  Only(Main) /\ Now(Main, "snapshot", "shutdown", {}, {}, {})
  BY Members, FreshTasks DEF SrvStop

LEMMA ServeTasks ==
  ASSUME TaskType, Serve
  PROVE  Only(Main) /\ task'[Main] = Idle
  BY Members, IdleType, BecomeType DEF Serve, Only

LEMMA FiredTasks ==
  ASSUME TaskType, NEW p \in Writers, OnFired(p)
  PROVE  Only(p) /\ Now(p, "snapshot", "fired", {}, {}, {})
  BY FreshTasks DEF OnFired

\* The remaining parts are kept.
LEMMA TaskTypeStep ==
  ASSUME TaskType, OtherType, [Next]_vars
  PROVE  TaskType'
<1>1. CASE UNCHANGED task
  BY <1>1 DEF TaskType
<1>2. ASSUME NEW p \in Handlers, Request(p) PROVE TaskType'
  BY <1>2, Members, RegisterTasks, DeregisterTasks, SuspendTasks, ResumeTasks, UninstallTasks
     DEF Request, Only
<1>3. ASSUME NEW p \in Handlers, Callback(p) PROVE TaskType'
  BY <1>3, Members, ErrorTasks, FiredTasks DEF Callback, Only
<1>4. ASSUME NEW p \in Writers, TaskStep(p) PROVE TaskType'
  <2>1. CASE RegisterResolved(p) \/ DeregisterResolved(p)
    BY <2>1, ResolvedTasks, RemovedTasks DEF Reloads
  <2>2. CASE ListTriggers(p) \/ ResumeGet(p) \/ MarkError(p)
    BY <2>2, ListTasks, GetTasks, MarkTasks DEF Only
  <2>3. CASE DeactivateNext(p) \/ ActivateNext(p) \/ TakeSnapshot(p) \/ Saved(p)
    BY <2>3, DeactivateTasks, ActivateTasks, SnapshotTasks, SavedTasks DEF Only
  <2>4. CASE WriteSnapshot(p)
    BY <1>1, <2>4 DEF WriteSnapshot
  <2> QED
    BY <1>4, <2>1, <2>2, <2>3, <2>4 DEF TaskStep
<1>5. ASSUME MainStep PROVE TaskType'
  <2>1. CASE Boot \/ RemoveTemps \/ LoadState
    BY <1>1, <2>1 DEF Boot, RemoveTemps, LoadState
  <2>2. CASE ScanAppFolder \/ SrvStop \/ Serve
    BY <2>2, ScanTasks, StopTasks, ServeTasks DEF Only
  <2>3. CASE Exit
    BY <2>3, DieTasks DEF Exit
  <2> QED
    BY <1>5, <2>1, <2>2, <2>3 DEF MainStep
<1>6. CASE Crash
  BY <1>6, DieTasks DEF Crash
<1>7. ASSUME StopAll \/ \E f \in Files : EditRecurfile(f) PROVE UNCHANGED task
  BY <1>7 DEF StopAll, EditRecurfile
<1>8. ASSUME UNCHANGED vars PROVE UNCHANGED task
  BY <1>8 DEF vars
<1> QED
  BY <1>1, <1>2, <1>3, <1>4, <1>5, <1>6, <1>7, <1>8 DEF Next

LEMMA OtherTypeStep ==
  ASSUME OtherType, TaskType, [Next]_vars
  PROVE  OtherType'
<1>1. life' \in {"down", "clean", "load", "scan", "start", "up", "stopping", "stopped"}
  <2>1. ASSUME NEW p \in Handlers, Request(p) \/ Callback(p) PROVE life' = life
    BY <2>1 DEF Request, Callback, RegisterRecurfile, DeregisterRecurfile, SuspendTrigger,
       ResumeTrigger, UninstallPlugin, OnFired, OnTriggerError, Begin
  <2>2. ASSUME NEW p \in Writers, TaskStep(p) PROVE life' = life
    BY <2>2 DEF TaskStep, RegisterResolved, ListTriggers, DeregisterResolved, ResumeGet, MarkError,
       DeactivateNext, ActivateNext, TakeSnapshot, WriteSnapshot, Saved
  <2>3. CASE MainStep
    BY <2>3 DEF MainStep, Boot, RemoveTemps, LoadState, ScanAppFolder, Serve, SrvStop, Exit, Die
  <2>4. CASE StopAll \/ Crash
    BY <2>4 DEF StopAll, Crash, Die
  <2>5. ASSUME NEW f \in Files, EditRecurfile(f) PROVE life' = life
    BY <2>5 DEF EditRecurfile
  <2>6. UNCHANGED vars => life' = life
    BY DEF vars
  <2> QED
    BY <2>1, <2>2, <2>3, <2>4, <2>5, <2>6 DEF Next, OtherType
<1>2. content' \in [Files -> SUBSET Triggers] /\ unreadable' \subseteq Files
  <2>1. CASE UNCHANGED disk
    BY <2>1 DEF disk, OtherType
  <2>2. ASSUME NEW f \in Files, EditRecurfile(f)
        PROVE  content' \in [Files -> SUBSET Triggers] /\ unreadable' \subseteq Files
    BY <2>2 DEF EditRecurfile, OtherType, TriggersOf
  <2>3. (\A f \in Files : ~EditRecurfile(f)) => UNCHANGED disk
    BY DEF Next, vars, Request, Callback, TaskStep, MainStep, RegisterRecurfile,
         DeregisterRecurfile, SuspendTrigger, ResumeTrigger, UninstallPlugin, OnFired,
         OnTriggerError, Begin, RegisterResolved, ListTriggers, DeregisterResolved, ResumeGet,
         MarkError, DeactivateNext, ActivateNext, TakeSnapshot, WriteSnapshot, Saved, Boot,
         RemoveTemps, LoadState, ScanAppFolder, Serve, SrvStop, Exit, Die, StopAll, Crash
  <2> QED
    BY <2>1, <2>2, <2>3
<1>3. excused' \subseteq Triggers /\ acknowledged' \subseteq Triggers /\ lossy' \in BOOLEAN
  <2>1. CASE UNCHANGED history
    BY <2>1 DEF history, OtherType
  <2>2. ASSUME NEW p \in Handlers, Request(p) \/ Callback(p)
        PROVE  excused' \subseteq Triggers /\ acknowledged' \subseteq Triggers /\ lossy' \in BOOLEAN
    <3>1. PICK kind \in Kinds, ts \in SUBSET Triggers : Begin(p, kind, ts)
      BY <2>2, ServiceAssumption DEF Request, Callback, RegisterRecurfile, DeregisterRecurfile,
         SuspendTrigger, ResumeTrigger, UninstallPlugin, OnFired, OnTriggerError, TriggersOf, Kinds
    <3> QED
      BY <3>1 DEF Begin, OtherType
  <2>3. ASSUME NEW p \in Writers, TaskStep(p)
        PROVE  excused' \subseteq Triggers /\ acknowledged' \subseteq Triggers /\ lossy' \in BOOLEAN
    <3>0. task[p].todo \subseteq Triggers /\ task[p].touches \subseteq Triggers
      BY DEF TaskType, TaskRecord
    <3>1. CASE ActivateNext(p)
      BY <3>0, <3>1 DEF ActivateNext, ActivateTrigger, OtherType
    <3>2. CASE Saved(p)
      BY <3>0, <3>2 DEF Saved, OtherType
    <3>3. CASE ~ActivateNext(p) /\ ~Saved(p)
      <4>1. UNCHANGED history
        BY <2>3, <3>3 DEF TaskStep, RegisterResolved, ListTriggers, DeregisterResolved, ResumeGet,
           MarkError, DeactivateNext, TakeSnapshot, WriteSnapshot
      <4> QED
        BY <2>1, <4>1
    <3> QED
      BY <3>1, <3>2, <3>3
  <2>4. ASSUME MainStep \/ StopAll \/ Crash \/ \E f \in Files : EditRecurfile(f)
        PROVE  excused' \subseteq Triggers /\ acknowledged' \subseteq Triggers /\ lossy' \in BOOLEAN
    <3>1. CASE Exit \/ Crash
      BY <3>1 DEF Exit, Crash, Die, OtherType
    <3>2. CASE LoadState
      <4>1. lossy' \in BOOLEAN
        BY <3>2 DEF LoadState
      <4> QED
        BY <3>2, <4>1 DEF LoadState, OtherType
    <3>3. CASE ~Exit /\ ~Crash /\ ~LoadState
      <4>1. UNCHANGED history
        BY <2>4, <3>3 DEF MainStep, Boot, RemoveTemps, ScanAppFolder, Serve, SrvStop, StopAll,
           EditRecurfile
      <4> QED
        BY <2>1, <4>1
    <3> QED
      BY <3>1, <3>2, <3>3
  <2>5. UNCHANGED vars => UNCHANGED history
    BY DEF vars
  <2> QED
    BY <2>1, <2>2, <2>3, <2>4, <2>5 DEF Next
<1> QED
  BY <1>1, <1>2, <1>3 DEF OtherType

\* Nothing runs until the registry is loaded.
LEMMA RestStep ==
  ASSUME TypeInv, [Next]_vars
  PROVE  AtRest'
<1>0. /\ life \in {"down", "clean", "load", "scan"} =>
           /\ \A p \in Writers : task[p].pc = "idle"
           /\ \A t \in Triggers : loops[t] = 0
  BY RestTasks DEF TypeInv, AtRest
<1>1. CASE UNCHANGED <<life, task, engine>>
  BY <1>1 DEF TypeInv, AtRest, engine
<1>2. ASSUME NEW p \in Handlers, Request(p) PROVE AtRest'
  <2>1. Serving /\ life' = life
    BY <1>2 DEF Request, RegisterRecurfile, DeregisterRecurfile, SuspendTrigger, ResumeTrigger,
                UninstallPlugin, Begin
  <2> QED
    BY <2>1 DEF Serving, AtRest
<1>3. ASSUME NEW p \in Handlers, Callback(p) PROVE AtRest'
  <2>1. life' = life /\ \E t \in Triggers : loops[t] > 0
    BY <1>3 DEF Callback, OnFired, OnTriggerError, Begin
  <2> QED
    BY <1>0, <2>1 DEF AtRest
<1>4. ASSUME NEW p \in Writers, TaskStep(p) PROVE AtRest'
  <2>1. task[p].pc # "idle" \/ UNCHANGED <<life, task, engine>>
    BY <1>4 DEF TaskStep, RegisterResolved, ListTriggers, DeregisterResolved, ResumeGet, MarkError,
       DeactivateNext, ActivateNext, TakeSnapshot, WriteSnapshot, Saved
  <2>2. life' = life
    BY <1>4 DEF TaskStep, RegisterResolved, ListTriggers, DeregisterResolved, ResumeGet, MarkError,
       DeactivateNext, ActivateNext, TakeSnapshot, WriteSnapshot, Saved
  <2>3. CASE task[p].pc # "idle"
    BY <1>0, <2>2, <2>3 DEF AtRest
  <2> QED
    BY <1>1, <2>1, <2>3
<1>5. ASSUME Die PROVE AtRest'
  BY <1>5, DieTasks DEF Die, AtRest
<1>6. ASSUME MainStep PROVE AtRest'
  <2>1. CASE Boot \/ RemoveTemps \/ LoadState
    BY <2>1 DEF Boot, RemoveTemps, LoadState, TypeInv, AtRest, engine
  <2>2. CASE ScanAppFolder \/ Serve \/ SrvStop
    BY <2>2 DEF ScanAppFolder, Serve, SrvStop, AtRest
  <2>3. CASE Exit
    BY <1>5, <2>3 DEF Exit
  <2> QED
    BY <1>6, <2>1, <2>2, <2>3 DEF MainStep
<1>7. CASE StopAll
  BY <1>7 DEF StopAll, AtRest
<1>8. CASE Crash
  BY <1>5, <1>8 DEF Crash
<1>9. ASSUME NEW f \in Files, EditRecurfile(f) PROVE AtRest'
  BY <1>1, <1>9 DEF EditRecurfile
<1>10. CASE UNCHANGED vars
  BY <1>1, <1>10 DEF vars
<1> QED
  BY <1>2, <1>3, <1>4, <1>6, <1>7, <1>8, <1>9, <1>10 DEF Next

\* Pointers stay pointers into the registry.
LEMMA HeldStep ==
  ASSUME TypeInv, [Next]_vars
  PROVE  HeldKnown'
<1>0. TaskType /\ OtherType /\ RegistryType /\ HeldKnown
  BY DEF TypeInv, Types
\* A step of one goroutine, which keeps every trigger there is.
<1>1. ASSUME NEW p \in Writers, Only(p), task'[p].held \subseteq Known, Known \subseteq Known',
             task'[p].pc \in {"register", "remove"} \/ task'[p].kind = "deregister"
               => task'[p].held = {},
             task'[p].pc = "list" => task'[p].kind # "deregister"
      PROVE  HeldKnown'
  BY <1>0, <1>1 DEF Only, HeldKnown
<1>2. ASSUME UNCHANGED task, Known \subseteq Known' PROVE HeldKnown'
  BY <1>0, <1>2 DEF HeldKnown
<1>3. UNCHANGED registry => Known' = Known
  BY DEF registry, Known
<1>4. ASSUME \A p \in Writers : task'[p] = Idle PROVE HeldKnown'
  BY <1>4, IdleType DEF HeldKnown
<1>5. ASSUME NEW p \in Handlers, Request(p) PROVE HeldKnown'
  <2>0. Known \subseteq Known'
    BY <1>0, <1>5 DEF Request, RegisterRecurfile, DeregisterRecurfile, SuspendTrigger,
       ResumeTrigger, UninstallPlugin, registry, Known, RegistryType, Statuses
  <2>1. Only(p) /\ task'[p].held = {} /\ task'[p].pc # "list"
    BY <1>0, <1>5, Members, IdleType, RegisterTasks, DeregisterTasks, SuspendTasks, ResumeTasks,
       UninstallTasks DEF Request, Now
  <2> QED
    BY <1>1, <2>0, <2>1, Members
<1>6. ASSUME NEW p \in Handlers, Callback(p) PROVE HeldKnown'
  <2>0. Known' = Known
    BY <1>3, <1>6 DEF Callback, OnFired, OnTriggerError
  <2>1. CASE OnFired(p)
    BY <1>0, <1>1, <2>0, <2>1, Members, FiredTasks DEF Now
  <2>2. ASSUME NEW t \in Triggers, OnTriggerError(p, t) PROVE HeldKnown'
    <3>1. CASE task'[p] = Idle
      BY <1>0, <1>1, <2>0, <2>2, <3>1, Members, ErrorTasks, IdleType
    <3>2. CASE t \in Known /\ Now(p, "mark", "error", {t}, {}, {t})
      BY <1>0, <1>1, <2>0, <2>2, <3>2, Members, ErrorTasks DEF Now
    <3> QED
      BY <1>0, <2>2, <3>1, <3>2, Members, ErrorTasks
  <2> QED
    BY <1>6, <2>1, <2>2 DEF Callback
<1>7. ASSUME NEW p \in Writers, TaskStep(p) PROVE HeldKnown'
  <2>0. task[p] \in TaskRecord
    BY <1>0 DEF TaskType
  <2>1. CASE RegisterResolved(p) \/ DeregisterResolved(p)
    <3>1. task[p].held = {}
      BY <1>0, <2>1 DEF RegisterResolved, DeregisterResolved, HeldKnown
    <3>2. \E d \in TaskRecord : /\ Reloads(p, d) /\ d.held = {}
                                /\ d.pc = "list" => d.kind # "deregister"
      BY <1>0, <2>1, <3>1, ResolvedTasks, RemovedTasks, IdleType DEF AfterDeactivate, SameBut
    <3>3. \A t \in Known : FileOf[t] # task[p].file => t \in Known'
      <4>1. status' = Registered(status, task[p].file, task[p].parsed)
            \/ status' = Registered(status, task[p].file, {})
        BY <2>1 DEF RegisterResolved, DeregisterResolved
      <4>2. task[p].file \in Files
        BY <2>0 DEF TaskRecord
      <4> QED
        BY <1>0, <4>1, <4>2, RegisteredType DEF Known
    <3> QED
      BY <1>0, <3>2, <3>3 DEF Reloads, Now, HeldKnown, TriggersOf, Known
  <2>2. CASE ListTriggers(p)
    <3>1. Only(p) /\ task'[p].held \subseteq Known
      BY <1>0, <2>2, ListTasks DEF Now, Mine, Of
    <3>2. task'[p].pc \notin {"register", "remove"}
      BY <1>0, <2>2, ListTasks DEF Now, AfterActivate
    <3>3. task'[p].kind # "deregister" /\ task'[p].pc # "list"
      BY <1>0, <2>2, ListTasks DEF ListTriggers, Now, AfterActivate, HeldKnown
    <3> QED
      BY <1>0, <1>1, <1>3, <2>2, <3>1, <3>2, <3>3 DEF ListTriggers
  <2>3. CASE MarkError(p)
    <3>1. Known \subseteq Known'
      BY <1>0, <2>3 DEF MarkError, Known
    <3>2. Only(p) /\ task'[p].held = task[p].held /\ task'[p].kind = task[p].kind
      BY <1>0, <2>3, MarkTasks DEF Now
    <3>3. task'[p].pc = "remove" => task[p].kind = "deregister"
      BY <1>0, <2>3, MarkTasks DEF Now, AfterDeactivate
    <3>4. task'[p].pc # "register" /\ (task'[p].pc = "list" => task[p].kind # "deregister")
      BY <1>0, <2>3, MarkTasks DEF Now, AfterDeactivate
    <3> QED
      BY <1>0, <1>1, <3>1, <3>2, <3>3, <3>4 DEF HeldKnown
  <2>4. CASE ResumeGet(p) \/ ActivateNext(p) \/ DeactivateNext(p) \/ TakeSnapshot(p)
    <3>1. Known' = Known
      BY <1>3, <2>4 DEF ResumeGet, ActivateNext, DeactivateNext, TakeSnapshot
    <3>2. Only(p) /\ task'[p].held = task[p].held /\ task'[p].kind = task[p].kind
      BY <1>0, <2>4, GetTasks, ActivateTasks, DeactivateTasks, SnapshotTasks DEF Now
    <3>3. task'[p].pc = "remove" => task[p].kind = "deregister"
      BY <1>0, <2>4, GetTasks, ActivateTasks, DeactivateTasks, SnapshotTasks
         DEF Now, AfterDeactivate, AfterActivate
    <3>4. task'[p].pc # "register" /\ (task'[p].pc = "list" => task[p].kind # "deregister")
      BY <1>0, <2>4, GetTasks, ActivateTasks, DeactivateTasks, SnapshotTasks
         DEF Now, AfterDeactivate, AfterActivate
    <3> QED
      BY <1>0, <1>1, <3>1, <3>2, <3>3, <3>4 DEF HeldKnown
  <2>5. CASE Saved(p)
    <3>1. Known' = Known
      BY <1>3, <2>5 DEF Saved
    <3>2. CASE task'[p] = Idle
      BY <1>0, <1>1, <2>5, <3>1, <3>2, SavedTasks, IdleType
    <3>3. CASE Now(p, IF task[p].kind = "startup" THEN "list" ELSE "exit", task[p].kind,
                      task[p].touches, task[p].todo, task[p].held)
      BY <1>0, <1>1, <2>5, <3>1, <3>3, SavedTasks DEF Now, HeldKnown
    <3> QED
      BY <1>0, <2>5, <3>2, <3>3, SavedTasks
  <2>6. CASE WriteSnapshot(p)
    BY <1>2, <1>3, <2>6 DEF WriteSnapshot
  <2> QED
    BY <1>7, <2>1, <2>2, <2>3, <2>4, <2>5, <2>6 DEF TaskStep
<1>8. ASSUME MainStep PROVE HeldKnown'
  <2>1. CASE Boot \/ RemoveTemps \/ LoadState
    <3>1. \A p \in Writers : task'[p] = Idle
      BY <2>1 DEF Boot, RemoveTemps, LoadState, TypeInv, AtRest
    <3> QED
      BY <1>4, <3>1
  <2>2. CASE ScanAppFolder
    <3>1. \A p \in Writers : task[p] = Idle
      BY <2>2 DEF ScanAppFolder, TypeInv, AtRest
    <3>2. \A p \in Writers : task'[p].held = {} /\ task'[p].pc # "list"
      BY <1>0, <2>2, <3>1, ScanTasks, IdleType, Members DEF Only, Now
    <3> QED
      BY <3>2 DEF HeldKnown
  <2>3. CASE SrvStop
    BY <1>0, <1>1, <1>3, <2>3, StopTasks, Members DEF SrvStop, Now
  <2>4. CASE Serve
    BY <1>0, <1>1, <1>3, <2>4, ServeTasks, IdleType, Members DEF Serve
  <2>5. CASE Exit
    BY <1>4, <2>5, DieTasks DEF Exit
  <2> QED
    BY <1>8, <2>1, <2>2, <2>3, <2>4, <2>5 DEF MainStep
<1>9. CASE Crash
  BY <1>4, <1>9, DieTasks DEF Crash
<1>10. ASSUME StopAll \/ \E f \in Files : EditRecurfile(f) PROVE HeldKnown'
  <2>1. UNCHANGED task /\ UNCHANGED registry
    BY <1>10 DEF StopAll, EditRecurfile
  <2> QED
    BY <1>2, <1>3, <2>1
<1>11. CASE UNCHANGED vars
  BY <1>2, <1>3, <1>11 DEF vars
<1> QED
  BY <1>5, <1>6, <1>7, <1>8, <1>9, <1>10, <1>11 DEF Next

\* The type invariant holds initially and is kept.
LEMMA TypeInit == Init => TypeInv
<1> SUFFICES ASSUME Init PROVE TypeInv
  OBVIOUS
<1>1. FileType /\ SnapshotsHeld
  <2>1. DOMAIN tmp = {} /\ Range(tmp) = {}
    BY DEF Init, FileInit, Range
  <2>2. data \in [Inodes -> Snapshots \union {Torn}] /\ save \in [Writers -> SaveRecord]
    BY NotSavingType DEF Init, FileInit
  <2>3. SnapshotsHeld
    BY NotSavingType DEF Init, FileInit, SnapshotsHeld
  <2> QED
    BY <2>1, <2>2, <2>3 DEF Init, FileInit, FileType
<1>2. RegistryType /\ EngineType
  BY DEF Init, RegistryType, EngineType, NoTrigger, Known
<1>3. TaskType /\ AtRest /\ HeldKnown
  BY IdleType DEF Init, TaskType, AtRest, HeldKnown
<1>4. OtherType
  BY DEF Init, OtherType, TriggersOf
<1> QED
  BY <1>1, <1>2, <1>3, <1>4 DEF TypeInv, Types

LEMMA TypeStep == TypeInv /\ [Next]_vars => TypeInv'
<1> SUFFICES ASSUME TypeInv, [Next]_vars PROVE TypeInv'
  OBVIOUS
<1>1. Types /\ SnapshotsHeld /\ HeldKnown
  BY DEF TypeInv
<1>2. FileType' /\ SnapshotsHeld' /\ RegistryType' /\ EngineType' /\ TaskType' /\ OtherType'
  BY <1>1, FileTypeStep, RegistryTypeStep, EngineTypeStep, TaskTypeStep, OtherTypeStep DEF Types
<1> QED
  BY <1>2, RestStep, HeldStep DEF TypeInv, Types

\* Every variable of the daemon has its type, over crashes, recoveries and restarts.
THEOREM ServiceTypeCorrect == Spec => []TypeOK
<1>1. TypeInv => TypeOK
  BY TypesAreTypeOK DEF TypeInv
<1> QED
  BY <1>1, TypeInit, TypeStep, PTL DEF Spec

-----------------------------------------------------------------------------
(* Who works on what. *)

\* What a client may ask for.
Served == {"register", "deregister", "suspend", "resume", "uninstall"}

\* The stages of each kind of task.
Doing(kind, pc) ==
  \/ kind = "register" /\ pc \in {"register", "deactivate", "list", "activate", "snapshot", "save"}
  \/ kind = "deregister" /\ pc \in {"deactivate", "remove", "snapshot", "save"}
  \/ kind \in {"suspend", "uninstall"} /\ pc \in {"deactivate", "snapshot", "save"}
  \/ kind = "resume" /\ pc \in {"get", "activate", "snapshot", "save"}
  \/ kind = "error" /\ pc \in {"mark", "deactivate", "snapshot", "save"}
  \/ kind = "fired" /\ pc \in {"snapshot", "save"}

\* A handler is idle, or it serves a request or a callback and works on the triggers that
\* it is about; requests are served only while the server is there.
AtEase(k) == k.pc = "idle" /\ k.kind = "none" /\ k.touches = {}

Role(k) ==
  \/ AtEase(k)
  \/ /\ Doing(k.kind, k.pc)
     /\ k.kind \in {"register", "deregister"} => k.touches = TriggersOf(k.file)
     /\ k.kind = "error" => \E t \in Triggers : k.touches = {t}
     /\ k.kind = "fired" => k.touches = {}
     /\ k.todo \subseteq k.touches /\ k.held \subseteq k.touches
     /\ k.kind \in Served => life \in {"up", "stopping"}

\* Main is idle, or it starts or stops the daemon.
MainRole(k) ==
  \/ AtEase(k) /\ life # "start"
  \/ /\ life = "start" /\ k.kind = "startup" /\ k.touches = {}
     /\ k.pc \in {"snapshot", "save", "list", "activate", "serve"}
  \/ /\ life = "stopped" /\ k.kind = "shutdown" /\ k.touches = {}
     /\ k.pc \in {"snapshot", "save", "exit"}

\* Everybody has a role.
Roles == (\A p \in Handlers : Role(task[p])) /\ MainRole(task[Main])

\* An idle goroutine has its role.
LEMMA IdleRole == AtEase(Idle) /\ Role(Idle) /\ Role(Idle)'
  BY IdleType DEF Role, AtEase

LEMMA RolesInit == Init => Roles
  BY Members, IdleRole DEF Init, Roles, MainRole

\* A goroutine that stays where it is; a reload may take pointers from it.
Stays(q) ==
  /\ Now(q, task[q].pc, task[q].kind, task[q].touches, task[q].todo, task'[q].held)
  /\ task'[q].file = task[q].file /\ task'[q].held \subseteq task[q].held

\* A step moves one goroutine only.
LEMMA OthersStay ==
  ASSUME NEW p \in Writers, Only(p) \/ \E d : Reloads(p, d)
  PROVE  \A q \in Writers \ {p} : Stays(q)
  BY DEF Only, Reloads, Stays, Now

\* A step of a handler.
LEMMA HandlerRoles ==
  ASSUME Roles, NEW p \in Handlers, life' = life, Role(task[p])',
         Only(p) \/ \E d : Reloads(p, d)
  PROVE  Roles'
<1>1. \A q \in Writers \ {p} : Stays(q)
  BY Members, OthersStay
<1>2. MainRole(task[Main])'
  BY <1>1, Members DEF Roles, MainRole, Stays, Now, AtEase
<1>3. ASSUME NEW q \in Handlers PROVE Role(task[q])'
  <2>1. CASE q = p
    BY <2>1
  <2>2. CASE q # p
    <3>1. Stays(q) /\ Role(task[q])
      BY <1>1, <2>2, Members DEF Roles
    <3> QED
      BY <3>1 DEF Role, Stays, Now, AtEase
  <2> QED
    BY <2>1, <2>2
<1> QED
  BY <1>2, <1>3 DEF Roles

\* A step of Main, or of nobody, after which no request is served that could not be.
LEMMA MainRoles ==
  ASSUME Roles, \A p \in Handlers : task'[p] = task[p], MainRole(task[Main])',
         \/ life' = life \/ life' \in {"up", "stopping"}
         \/ \A p \in Handlers : task[p].kind \notin Served
  PROVE  Roles'
  BY DEF Roles, Role, AtEase

\* Requests, callbacks and the steps of a task keep the roles.
LEMMA RequestRoles ==
  ASSUME TypeInv, Roles, NEW p \in Handlers, Request(p)
  PROVE  Roles'
<1>0. TaskType /\ OtherType /\ RegistryType /\ p \in Writers
  BY Members DEF TypeInv, Types
<1>1. life' = life /\ life \in {"up", "stopping"}
  BY DEF Request, RegisterRecurfile, DeregisterRecurfile, SuspendTrigger, ResumeTrigger,
         UninstallPlugin, Begin, Serving
<1>2. Only(p) /\ Role(task[p])'
  <2>1. ASSUME NEW f \in Files, RegisterRecurfile(p, f) PROVE Only(p) /\ Role(task[p])'
    BY <1>0, <1>1, <2>1, RegisterTasks DEF Now, Role, Doing
  <2>2. ASSUME NEW f \in Files, DeregisterRecurfile(p, f) PROVE Only(p) /\ Role(task[p])'
    <3>1. Of(f) \subseteq TriggersOf(f)
      BY DEF Of, TriggersOf, Known
    <3> QED
      BY <1>0, <1>1, <2>2, <3>1, DeregisterTasks DEF Now, Role, Doing
  <2>3. ASSUME NEW t \in Triggers, SuspendTrigger(p, t) PROVE Only(p) /\ Role(task[p])'
    BY <1>0, <1>1, <2>3, SuspendTasks DEF Now, Role, Doing
  <2>4. ASSUME NEW t \in Triggers, ResumeTrigger(p, t) PROVE Only(p) /\ Role(task[p])'
    BY <1>0, <1>1, <2>4, ResumeTasks DEF Now, Role, Doing
  <2>5. CASE UninstallPlugin(p)
    <3>1. Unsuspended \subseteq Dependent
      BY DEF Unsuspended
    <3> QED
      BY <1>0, <1>1, <2>5, <3>1, IdleRole, UninstallTasks DEF Now, Role, Doing
  <2> QED
    BY <2>1, <2>2, <2>3, <2>4, <2>5 DEF Request
<1> QED
  BY <1>1, <1>2, HandlerRoles

LEMMA CallbackRoles ==
  ASSUME TypeInv, Roles, NEW p \in Handlers, Callback(p)
  PROVE  Roles'
<1>0. TaskType /\ p \in Writers
  BY Members DEF TypeInv, Types
<1>1. life' = life
  BY DEF Callback, OnFired, OnTriggerError, Begin
<1>2. Only(p) /\ Role(task[p])'
  <2>1. ASSUME NEW t \in Triggers, OnTriggerError(p, t) PROVE Only(p) /\ Role(task[p])'
    BY <1>0, <2>1, IdleRole, ErrorTasks DEF Now, Role, Doing, Served
  <2>2. CASE OnFired(p)
    BY <1>0, <2>2, FiredTasks DEF Now, Role, Doing, Served
  <2> QED
    BY <2>1, <2>2 DEF Callback
<1> QED
  BY <1>1, <1>2, HandlerRoles

\* Nobody but a handler goes through the stages of a request.
LEMMA MainStages ==
  ASSUME Roles, task[Main].pc \notin {"snapshot", "save", "list", "activate"}
  PROVE  ~TaskStep(Main)
  BY DEF Roles, MainRole, AtEase, TaskStep, RegisterResolved, ListTriggers, DeregisterResolved,
     ResumeGet, MarkError, DeactivateNext, ActivateNext, TakeSnapshot, WriteSnapshot, Saved

\* No task changes where Daemon.Run is.
LEMMA TaskLife ==
  ASSUME NEW p \in Writers, TaskStep(p)
  PROVE  life' = life
  BY DEF TaskStep, RegisterResolved, ListTriggers, DeregisterResolved, ResumeGet, MarkError,
     DeactivateNext, ActivateNext, TakeSnapshot, WriteSnapshot, Saved

\* What a task goes on with.
LEMMA Stage ==
  ASSUME Roles, NEW p \in Handlers, task[p].pc # "idle"
  PROVE  /\ Doing(task[p].kind, task[p].pc)
         /\ task[p].kind \in {"register", "deregister"} =>
              task[p].touches = TriggersOf(task[p].file)
         /\ task[p].kind = "error" => \E t \in Triggers : task[p].touches = {t}
         /\ task[p].kind = "fired" => task[p].touches = {}
         /\ task[p].todo \subseteq task[p].touches /\ task[p].held \subseteq task[p].touches
         /\ task[p].kind \in Served => life \in {"up", "stopping"}
  BY DEF Roles, Role, AtEase

\* A task that goes on keeps its role.
LEMMA GoesOn ==
  ASSUME Roles, NEW p \in Handlers, life' = life, task[p].pc # "idle",
         task'[p].kind = task[p].kind, task'[p].file = task[p].file,
         task'[p].touches = task[p].touches, Doing(task[p].kind, task'[p].pc),
         task'[p].todo \subseteq task[p].touches, task'[p].held \subseteq task[p].touches
  PROVE  Role(task[p])'
  BY Stage DEF Role

LEMMA TaskRoles ==
  ASSUME TypeInv, Roles, NEW p \in Handlers, TaskStep(p)
  PROVE  Roles'
<1>0. TaskType /\ OtherType /\ RegistryType /\ p \in Writers /\ life' = life
  BY Members, TaskLife DEF TypeInv, Types
<1> DEFINE k == task[p]
<1>1. CASE RegisterResolved(p)
  <2>1. k.pc = "register" /\ k.kind = "register" /\ k.touches = TriggersOf(k.file)
        /\ k.held \subseteq k.touches
    BY <1>1, Stage DEF RegisterResolved, Doing
  <2>2. Of(k.file) \subseteq TriggersOf(k.file) /\ AfterDeactivate(k.kind) = "list"
    BY <2>1 DEF Of, TriggersOf, Known, AfterDeactivate
  <2>3. PICK d \in TaskRecord :
           /\ Reloads(p, d)
           /\ d.pc = IF Of(task[p].file) = {} THEN AfterDeactivate(task[p].kind) ELSE "deactivate"
           /\ d.todo = Of(task[p].file) /\ d.kind = task[p].kind /\ d.file = task[p].file
           /\ d.touches = task[p].touches /\ d.held = task[p].held
    BY <1>0, <1>1, ResolvedTasks
  <2>4. Role(task[p])'
    BY <1>0, <2>1, <2>2, <2>3, GoesOn DEF Reloads, Doing
  <2> QED
    BY <1>0, <2>3, <2>4, HandlerRoles
<1>2. CASE DeregisterResolved(p)
  <2>1. k.pc = "remove" /\ k.kind = "deregister" /\ k.touches = TriggersOf(k.file)
        /\ k.held \subseteq k.touches /\ k.todo \subseteq k.touches
    BY <1>2, Stage DEF DeregisterResolved, Doing
  <2>2. PICK d \in TaskRecord :
           /\ Reloads(p, d)
           /\ \/ task[p].file \notin registered /\ d = Idle
              \/ task[p].file \in registered /\ SameBut(task[p], d, "snapshot")
                   /\ d.held = task[p].held
    BY <1>0, <1>2, RemovedTasks
  <2>3. CASE d = Idle
    BY <1>0, <2>2, <2>3, IdleRole, HandlerRoles DEF Reloads
  <2>4. CASE SameBut(task[p], d, "snapshot") /\ d.held = task[p].held
    <3>1. Role(task[p])'
      BY <1>0, <2>1, <2>2, <2>4, GoesOn DEF Reloads, Doing, SameBut
    <3> QED
      BY <1>0, <2>2, <3>1, HandlerRoles
  <2> QED
    BY <2>2, <2>3, <2>4
<1>3. CASE ListTriggers(p)
  <2>1. k.pc = "list" /\ k.kind = "register" /\ k.touches = TriggersOf(k.file)
    BY <1>3, Stage DEF ListTriggers, Doing
  <2>2. Mine(p) \subseteq k.touches /\ AfterActivate(k.kind) = "snapshot"
    BY <2>1 DEF Mine, Of, TriggersOf, Known, AfterActivate
  <2>3. Role(task[p])'
    BY <1>0, <1>3, <2>1, <2>2, ListTasks, GoesOn DEF Now, Doing
  <2> QED
    BY <1>0, <1>3, <2>3, ListTasks, HandlerRoles
<1>4. CASE ResumeGet(p)
  <2>1. k.pc = "get" /\ k.kind = "resume" /\ k.held \subseteq k.touches
    BY <1>4, Stage DEF ResumeGet, Doing
  <2>2. AfterActivate(k.kind) = "snapshot"
    BY <2>1 DEF AfterActivate
  <2>3. Role(task[p])'
    BY <1>0, <1>4, <2>1, <2>2, GetTasks, GoesOn DEF Now, Doing
  <2> QED
    BY <1>0, <1>4, <2>3, GetTasks, HandlerRoles
<1>5. CASE MarkError(p)
  <2>1. k.pc = "mark" /\ k.kind = "error" /\ k.touches # {}
        /\ k.held \subseteq k.touches /\ k.todo \subseteq k.touches
    BY <1>5, Stage DEF MarkError, Doing
  <2>2. Role(task[p])'
    BY <1>0, <1>5, <2>1, MarkTasks, GoesOn DEF Now, Doing
  <2> QED
    BY <1>0, <1>5, <2>2, MarkTasks, HandlerRoles
<1>6. CASE DeactivateNext(p)
  <2>1. k.pc = "deactivate" /\ Doing(k.kind, k.pc)
        /\ k.held \subseteq k.touches /\ k.todo \subseteq k.touches
    BY <1>6, Stage DEF DeactivateNext
  <2>2. Doing(k.kind, AfterDeactivate(k.kind))
    BY <2>1 DEF Doing, AfterDeactivate
  <2>3. Role(task[p])'
    BY <1>0, <1>6, <2>1, <2>2, DeactivateTasks, GoesOn DEF Now
  <2> QED
    BY <1>0, <1>6, <2>3, DeactivateTasks, HandlerRoles
<1>7. CASE ActivateNext(p)
  <2>1. k.pc = "activate" /\ Doing(k.kind, k.pc)
        /\ k.held \subseteq k.touches /\ k.todo \subseteq k.touches
    BY <1>7, Stage DEF ActivateNext
  <2>2. Doing(k.kind, AfterActivate(k.kind))
    BY <2>1 DEF Doing, AfterActivate
  <2>3. Role(task[p])'
    BY <1>0, <1>7, <2>1, <2>2, ActivateTasks, GoesOn DEF Now
  <2> QED
    BY <1>0, <1>7, <2>3, ActivateTasks, HandlerRoles
<1>8. CASE TakeSnapshot(p)
  <2>1. k.pc = "snapshot" /\ Doing(k.kind, k.pc)
        /\ k.held \subseteq k.touches /\ k.todo \subseteq k.touches
    BY <1>8, Stage DEF TakeSnapshot
  <2>2. Doing(k.kind, "save")
    BY <2>1 DEF Doing
  <2>3. Role(task[p])'
    BY <1>0, <1>8, <2>1, <2>2, SnapshotTasks, GoesOn DEF Now
  <2> QED
    BY <1>0, <1>8, <2>3, SnapshotTasks, HandlerRoles
<1>9. CASE WriteSnapshot(p)
  <2>1. task' = task
    BY <1>9 DEF WriteSnapshot
  <2> QED
    BY <1>0, <2>1 DEF Roles, Role, MainRole
<1>10. CASE Saved(p)
  <2>1. k.kind \notin {"startup", "shutdown"}
    BY <1>10, Stage DEF Saved, Doing
  <2> QED
    BY <1>0, <1>10, <2>1, SavedTasks, IdleRole, HandlerRoles
<1> QED
  BY <1>1, <1>2, <1>3, <1>4, <1>5, <1>6, <1>7, <1>8, <1>9, <1>10 DEF TaskStep

\* Main saves, lists and activates while the daemon starts, and saves when it stops.
LEMMA MainTaskRoles ==
  ASSUME TypeInv, Roles, TaskStep(Main)
  PROVE  /\ Roles' /\ task[Main].pc \in {"snapshot", "save", "list", "activate"}
         /\ \/ life = "start" /\ task[Main].kind = "startup"
            \/ life = "stopped" /\ task[Main].kind = "shutdown"
<1>0. TaskType /\ Main \in Writers /\ life' = life
  BY Members, TaskLife DEF TypeInv, Types
<1>1. task[Main].pc \in {"snapshot", "save", "list", "activate"}
  BY MainStages
<1>2. \/ /\ life = "start" /\ task[Main].kind = "startup" /\ task[Main].touches = {}
         /\ task[Main].pc \in {"snapshot", "save", "list", "activate"}
      \/ /\ life = "stopped" /\ task[Main].kind = "shutdown" /\ task[Main].touches = {}
         /\ task[Main].pc \in {"snapshot", "save"}
  BY <1>1 DEF Roles, MainRole, AtEase
<1>3. AfterActivate("startup") = "serve"
  BY DEF AfterActivate
<1>4. ListTriggers(Main) \/ ActivateNext(Main) \/ TakeSnapshot(Main) \/ WriteSnapshot(Main)
      \/ Saved(Main)
  BY <1>1 DEF TaskStep, RegisterResolved, DeregisterResolved, ResumeGet, MarkError, DeactivateNext
<1>5. MainRole(task[Main])' /\ \A p \in Handlers : task'[p] = task[p]
  <2>1. CASE ListTriggers(Main)
    <3>1. task[Main].pc = "list"
      BY <2>1 DEF ListTriggers
    <3> QED
      BY <1>0, <1>2, <1>3, <2>1, <3>1, ListTasks, Members DEF Only, Now, MainRole
  <2>2. CASE ActivateNext(Main)
    <3>1. task[Main].pc = "activate"
      BY <2>2 DEF ActivateNext
    <3> QED
      BY <1>0, <1>2, <1>3, <2>2, <3>1, ActivateTasks, Members DEF Only, Now, MainRole
  <2>3. CASE TakeSnapshot(Main)
    BY <1>0, <1>2, <2>3, SnapshotTasks, Members DEF Only, Now, MainRole
  <2>4. CASE WriteSnapshot(Main)
    BY <1>0, <2>4 DEF WriteSnapshot, Roles, MainRole
  <2>5. CASE Saved(Main)
    BY <1>0, <1>2, <2>5, SavedTasks, Members DEF Only, Now, MainRole
  <2> QED
    BY <1>4, <2>1, <2>2, <2>3, <2>4, <2>5
<1>6. Roles'
  BY <1>0, <1>5, MainRoles
<1> QED
  BY <1>1, <1>2, <1>6

\* The roles are kept by every step.
LEMMA RolesStep ==
  ASSUME TypeInv, Roles, [Next]_vars
  PROVE  Roles'
<1>0. TaskType
  BY DEF TypeInv, Types
<1>1. ASSUME UNCHANGED <<task, life>> PROVE Roles'
  BY <1>1 DEF Roles, Role, MainRole
<1>2. ASSUME \A p \in Writers : task'[p] = Idle, life' # "start" PROVE Roles'
  BY <1>2, Members, IdleRole DEF Roles, MainRole
<1>3. ASSUME NEW p \in Handlers, Request(p) \/ Callback(p) PROVE Roles'
  BY <1>3, RequestRoles, CallbackRoles
<1>4. ASSUME NEW p \in Writers, TaskStep(p) PROVE Roles'
  BY <1>4, Members, TaskRoles, MainTaskRoles
<1>5. ASSUME MainStep PROVE Roles'
  <2>1. CASE Boot \/ RemoveTemps \/ LoadState
    <3>1. \A p \in Writers : task'[p] = Idle
      BY <2>1 DEF Boot, RemoveTemps, LoadState, TypeInv, AtRest
    <3>2. life' # "start"
      BY <2>1 DEF Boot, RemoveTemps, LoadState
    <3> QED
      BY <1>2, <3>1, <3>2
  <2>2. CASE ScanAppFolder
    <3>1. \A p \in Writers : task[p] = Idle
      BY <2>2 DEF ScanAppFolder, TypeInv, AtRest
    <3>2. /\ \A p \in Handlers : task'[p] = task[p] /\ task[p].kind \notin Served
          /\ Now(Main, "snapshot", "startup", {}, {}, {})
      BY <1>0, <2>2, <3>1, ScanTasks, IdleType, Members DEF Only, Served
    <3>3. life' = "start"
      BY <2>2 DEF ScanAppFolder
    <3>4. MainRole(task[Main])'
      BY <3>2, <3>3 DEF MainRole, Now
    <3> QED
      BY <3>2, <3>4, MainRoles
  <2>3. CASE Serve
    <3>1. Only(Main) /\ task'[Main] = Idle /\ life' = "up"
      BY <1>0, <2>3, ServeTasks DEF Serve
    <3>2. MainRole(task[Main])'
      BY <3>1, IdleRole DEF MainRole
    <3> QED
      BY <3>1, <3>2, Members, MainRoles DEF Only
  <2>4. CASE SrvStop
    <3>1. Only(Main) /\ Now(Main, "snapshot", "shutdown", {}, {}, {}) /\ life' = "stopped"
      BY <1>0, <2>4, StopTasks DEF SrvStop
    <3>2. MainRole(task[Main])'
      BY <3>1 DEF MainRole, Now
    <3>3. ASSUME NEW p \in Handlers PROVE task[p].kind \notin Served
      <4>1. p \notin Requests
        BY <2>4 DEF SrvStop
      <4>2. task[p].pc = "idle" \/ task[p].kind \in {"error", "fired", "startup", "shutdown"}
        BY <4>1, Members DEF Requests, Busy
      <4>3. CASE task[p].pc = "idle"
        BY <4>3 DEF Roles, Role, AtEase, Doing, Served
      <4> QED
        BY <4>2, <4>3 DEF Served
    <3> QED
      BY <3>1, <3>2, <3>3, Members, MainRoles DEF Only
  <2>5. CASE Exit
    BY <1>2, <2>5, DieTasks DEF Exit, Die
  <2> QED
    BY <1>5, <2>1, <2>2, <2>3, <2>4, <2>5 DEF MainStep
<1>6. CASE StopAll
  BY <1>6 DEF StopAll, Roles, Role, MainRole
<1>7. CASE Crash
  BY <1>2, <1>7, DieTasks DEF Crash, Die
<1>8. ASSUME NEW f \in Files, EditRecurfile(f) PROVE Roles'
  BY <1>1, <1>8 DEF EditRecurfile
<1>9. CASE UNCHANGED vars
  BY <1>1, <1>9 DEF vars
<1> QED
  BY <1>3, <1>4, <1>5, <1>6, <1>7, <1>8, <1>9 DEF Next

-----------------------------------------------------------------------------
(* One trigger: is the engine in step with the registry? *)

\* The engine runs the trigger exactly if the registry says that it is active.
Steady(t) == t \in active <=> status[t] = "active"

\* What the one goroutine that works on a trigger has yet to do about it.
Midway(p, t) ==
  LET k == task[p] IN
  /\ k.pc \in {"register", "mark", "snapshot", "save"} => Steady(t)
  /\ k.pc = "mark" => t \in k.held
  /\ k.pc = "deactivate" =>
       /\ t \in active => t \in k.todo
       /\ k.kind = "register" => status[t] \in {"active", "none"}
       /\ k.kind \in {"suspend", "uninstall", "error"} => status[t] # "active"
  /\ k.pc = "list" => t \notin active /\ status[t] \in {"active", "none"}
  /\ k.pc = "remove" => t \notin active
  /\ k.pc = "get" => t \notin active /\ status[t] = "active"
  /\ k.pc = "activate" =>
       IF t \in k.todo
       THEN t \notin active /\ status[t] = "active" /\ (k.kind = "resume" \/ t \in k.held)
       ELSE Steady(t)

\* The handlers whose request or callback is about the trigger.
Touching(t) == {p \in Handlers : t \in task[p].touches}

\* The trigger is steady, or one handler is midway with it.
InStep(t) ==
  /\ \A p, q \in Touching(t) : p = q
  /\ \A p \in Touching(t) : Midway(p, t)
  /\ Touching(t) = {} => Steady(t)

\* The trigger waits for the start of the daemon: no driver, no callback, nobody at work.
Waits(t) == loops[t] = 0 /\ t \notin active /\ Touching(t) = {}

\* Main has yet to activate the trigger.
Activating(t) == life = "start" /\ task[Main].pc = "activate" /\ t \in task[Main].todo

\* The daemon has not come to the trigger yet.
NotYet(t) ==
  \/ life \in {"down", "clean", "load", "scan"}
  \/ life = "start" /\ task[Main].pc \in {"snapshot", "save", "list"}
  \/ Activating(t)

\* The inductive invariant, for one trigger.
Fine(t) ==
  /\ NotYet(t) => Waits(t)
  /\ Activating(t) => t \in task[Main].held
  /\ ~NotYet(t) /\ life \in {"start", "up"} /\ t \notin excused => InStep(t)

\* Before the daemon starts to work there is nothing to do.
LEMMA RestFine ==
  ASSUME TypeInv, NEW t \in Triggers, life \in {"down", "clean", "load", "scan"}
  PROVE  Fine(t)
<1>1. loops[t] = 0 /\ t \notin active /\ \A p \in Writers : task[p] = Idle
  BY DEF TypeInv, AtRest
<1>2. Touching(t) = {}
  BY <1>1, IdleType, Members DEF Touching
<1> QED
  BY <1>1, <1>2 DEF Fine, NotYet, Activating, Waits

\* What only concerns other triggers changes nothing for t.
SameFor(t) ==
  /\ life' = life /\ excused \subseteq excused'
  /\ status'[t] = status[t] /\ (t \in active' <=> t \in active)
  /\ loops[t] = 0 => loops'[t] = 0

\* A goroutine that is left alone is as far as it was.
LEMMA MidwayStays ==
  ASSUME NEW t \in Triggers, SameFor(t), NEW q \in Writers, Stays(q),
         t \in task[q].held => t \in task'[q].held, Midway(q, t)
  PROVE  Midway(q, t)'
<1>1. Steady(t)' <=> Steady(t)
  BY DEF Steady, SameFor
<1> QED
  BY <1>1 DEF Midway, Stays, Now, SameFor

\* The step of a handler that does not work on t, before or after.
LEMMA Elsewhere ==
  ASSUME NEW t \in Triggers, Fine(t), NEW p \in Handlers, SameFor(t),
         \A q \in Writers \ {p} : Stays(q) /\ (t \in task[q].held => t \in task'[q].held),
         t \notin task[p].touches, t \notin task'[p].touches
  PROVE  Fine(t)'
<1>1. Touching(t)' = Touching(t)
  <2>1. ASSUME NEW q \in Handlers PROVE t \in task'[q].touches <=> t \in task[q].touches
    BY <2>1, Members DEF Stays, Now
  <2> QED
    BY <2>1 DEF Touching
<1>2. Stays(Main) /\ (t \in task[Main].held => t \in task'[Main].held)
  BY Members
<1>3. /\ Activating(t)' <=> Activating(t)
      /\ NotYet(t)' <=> NotYet(t)
  BY <1>2 DEF Activating, NotYet, Stays, Now, SameFor
<1>4. Waits(t) => Waits(t)'
  BY <1>1 DEF Waits, SameFor
<1>5. ASSUME InStep(t) PROVE InStep(t)'
  <2>1. \A q \in Touching(t) : Midway(q, t)'
    <3> SUFFICES ASSUME NEW q \in Touching(t) PROVE Midway(q, t)'
      OBVIOUS
    <3>1. q \in Writers \ {p}
      BY Members DEF Touching
    <3>2. Midway(q, t)
      BY <1>5 DEF InStep
    <3> QED
      BY <3>1, <3>2, MidwayStays
  <2>2. Steady(t)' <=> Steady(t)
    BY DEF Steady, SameFor
  <2> QED
    BY <1>1, <1>5, <2>1, <2>2 DEF InStep
<1>6. life' = life /\ excused \subseteq excused'
  BY DEF SameFor
<1>7. Activating(t)' => t \in task'[Main].held
  BY <1>2, <1>3 DEF Fine
<1> QED
  BY <1>3, <1>4, <1>5, <1>6, <1>7 DEF Fine

\* The step of the handler that works on t.
LEMMA OwnStep ==
  ASSUME NEW t \in Triggers, Fine(t), NEW p \in Handlers, life' = life, excused \subseteq excused',
         \A q \in Writers \ {p} : Stays(q), t \in task[p].touches,
         life \in {"start", "up"} /\ t \notin excused' /\ Midway(p, t) =>
           IF t \in task'[p].touches THEN Midway(p, t)' ELSE Steady(t)'
  PROVE  Fine(t)'
<1>1. p \in Touching(t)
  BY DEF Touching
<1>2. ~NotYet(t)
  BY <1>1 DEF Fine, Waits
<1>3. Stays(Main)
  BY Members
<1>4. ~NotYet(t)' /\ ~Activating(t)'
  BY <1>2, <1>3 DEF NotYet, Activating, Stays, Now
<1>5. ASSUME life \in {"start", "up"}, t \notin excused' PROVE InStep(t)'
  <2>1. InStep(t)
    BY <1>2, <1>5 DEF Fine
  <2>2. \A q \in Touching(t) : q = p
    BY <1>1, <2>1 DEF InStep
  <2>3. \A q \in Touching(t)' : q = p
    BY <2>2, Members DEF Touching, Stays, Now
  <2>4. IF t \in task'[p].touches THEN Midway(p, t)' ELSE Steady(t)'
    BY <1>1, <1>5, <2>1 DEF InStep
  <2>5. CASE t \in task'[p].touches
    <3>1. p \in Touching(t)'
      BY <2>5 DEF Touching
    <3> QED
      BY <2>3, <2>4, <2>5, <3>1 DEF InStep
  <2>6. CASE t \notin task'[p].touches
    <3>1. Touching(t)' = {}
      BY <2>3, <2>6 DEF Touching
    <3> QED
      BY <2>4, <2>6, <3>1 DEF InStep
  <2> QED
    BY <2>5, <2>6
<1> QED
  BY <1>4, <1>5 DEF Fine

\* A handler begins to work on t.
LEMMA Begins ==
  ASSUME NEW t \in Triggers, Fine(t), NEW p \in Handlers, life' = life, excused \subseteq excused',
         Only(p), t \in task'[p].touches, ~NotYet(t),
         t \in excused' \/ Touching(t) = {},
         Steady(t) => Midway(p, t)'
  PROVE  Fine(t)'
<1>1. task'[Main] = task[Main]
  BY Members DEF Only
<1>2. ~NotYet(t)' /\ ~Activating(t)'
  BY <1>1 DEF NotYet, Activating
<1>3. ASSUME life \in {"start", "up"}, t \notin excused' PROVE InStep(t)'
  <2>1. InStep(t) /\ Touching(t) = {}
    BY <1>3 DEF Fine
  <2>2. Midway(p, t)'
    BY <2>1 DEF InStep
  <2>3. Touching(t)' = {p}
    BY <2>1, Members DEF Touching, Only
  <2> QED
    BY <2>2, <2>3 DEF InStep
<1> QED
  BY <1>2, <1>3 DEF Fine

\* Nothing that matters to t changes.
LEMMA Unmoved ==
  ASSUME NEW t \in Triggers, Fine(t), UNCHANGED <<task, life, status, active, loops, excused>>
  PROVE  Fine(t)'
  BY DEF Fine, NotYet, Activating, Waits, InStep, Touching, Midway, Steady

-----------------------------------------------------------------------------
(* The engine stays in step: requests and callbacks. *)

\* Nobody else moves.
LEMMA OnlyStays ==
  ASSUME NEW p \in Writers, Only(p)
  PROVE  \A q \in Writers \ {p} : Stays(q) /\ task'[q].held = task[q].held
  BY DEF Only, Stays, Now

\* Who is idle works on nothing.
LEMMA IdleTouches ==
  ASSUME Roles, NEW q \in Handlers, task[q].pc = "idle"
  PROVE  task[q].touches = {}
  BY DEF Roles, Role, AtEase, Doing

\* Whoever begins was idle, and overlapping requests are excused.
LEMMA Beginning ==
  ASSUME Roles, NEW p \in Handlers, NEW kind, NEW ts \in SUBSET Triggers, Begin(p, kind, ts)
  PROVE  /\ task[p].touches = {} /\ life' = life /\ excused \subseteq excused'
         /\ \A t \in ts : t \in excused' \/ Touching(t) = {}
<1>1. task[p].touches = {}
  BY IdleType DEF Begin
<1>2. ASSUME NEW t \in ts, t \notin excused', NEW q \in Touching(t) PROVE FALSE
  <2>1. q \in Handlers /\ q \in Writers /\ t \in task[q].touches
    BY Members DEF Touching
  <2>2. q \in Busy
    BY <2>1, IdleTouches DEF Busy
  <2> QED
    BY <1>2, <2>1, <2>2 DEF Begin
<1> QED
  BY <1>1, <1>2 DEF Begin

\* A request about the triggers in ts begins; the others do not notice.
LEMMA BeginFine ==
  ASSUME NEW t \in Triggers, Fine(t), Roles, NEW p \in Handlers, Only(p), NEW kind,
         NEW ts \in SUBSET Triggers, Begin(p, kind, ts), task'[p].touches = ts,
         t \notin ts => SameFor(t),
         t \in ts => ~NotYet(t) /\ (Steady(t) => Midway(p, t)')
  PROVE  Fine(t)'
<1>1. task[p].touches = {} /\ life' = life /\ excused \subseteq excused'
      /\ \A u \in ts : u \in excused' \/ Touching(u) = {}
  BY Beginning
<1>2. CASE t \in ts
  BY <1>1, <1>2, Begins
<1>3. CASE t \notin ts
  BY <1>1, <1>3, Members, OnlyStays, Elsewhere
<1> QED
  BY <1>2, <1>3

\* Each request and callback: it begins midway, because the trigger was steady.
LEMMA RegisterFine ==
  ASSUME TypeInv, Roles, NEW p \in Handlers, NEW f \in Files, RegisterRecurfile(p, f),
         NEW t \in Triggers, Fine(t)
  PROVE  Fine(t)'
<1>1. Only(p) /\ Now(p, "register", "register", TriggersOf(f), {}, {})
  BY Members, RegisterTasks DEF TypeInv, Types
<1>2. Begin(p, "register", TriggersOf(f)) /\ TriggersOf(f) \subseteq Triggers
  BY DEF RegisterRecurfile, TriggersOf
<1>3. life \in {"up", "stopping"} /\ UNCHANGED <<status, active, loops>>
  BY DEF RegisterRecurfile, Serving, registry, engine
<1>4. SameFor(t) /\ ~NotYet(t)
  BY <1>2, <1>3 DEF SameFor, Begin, NotYet, Activating
<1>5. Steady(t) => Midway(p, t)'
  BY <1>1, <1>3 DEF Now, Midway, Steady
<1> QED
  BY <1>1, <1>2, <1>4, <1>5, BeginFine DEF Now

LEMMA DeregisterFine ==
  ASSUME TypeInv, Roles, NEW p \in Handlers, NEW f \in Files, DeregisterRecurfile(p, f),
         NEW t \in Triggers, Fine(t)
  PROVE  Fine(t)'
<1>1. Only(p) /\ Now(p, IF Of(f) = {} THEN "remove" ELSE "deactivate", "deregister",
                     TriggersOf(f), Of(f), {})
  BY Members, DeregisterTasks DEF TypeInv, Types
<1>2. Begin(p, "deregister", TriggersOf(f)) /\ TriggersOf(f) \subseteq Triggers
  BY DEF DeregisterRecurfile, TriggersOf
<1>3. life \in {"up", "stopping"} /\ UNCHANGED <<status, active, loops>>
  BY DEF DeregisterRecurfile, Serving, registry, engine
<1>4. SameFor(t) /\ ~NotYet(t)
  BY <1>2, <1>3 DEF SameFor, Begin, NotYet, Activating
<1>5. ASSUME t \in TriggersOf(f), Steady(t) PROVE Midway(p, t)'
  <2>1. t \in active => t \in Of(f)
    BY <1>5 DEF Of, Known, TriggersOf, Steady
  <2> QED
    BY <1>1, <1>3, <2>1 DEF Now, Midway
<1> QED
  BY <1>1, <1>2, <1>4, <1>5, BeginFine DEF Now

LEMMA SuspendFine ==
  ASSUME TypeInv, Roles, NEW p \in Handlers, NEW u \in Triggers, SuspendTrigger(p, u),
         NEW t \in Triggers, Fine(t)
  PROVE  Fine(t)'
<1>1. Only(p) /\ Now(p, "deactivate", "suspend", {u}, {u}, {})
  BY Members, SuspendTasks DEF TypeInv, Types
<1>2. Begin(p, "suspend", {u})
  BY DEF SuspendTrigger
<1>3. life \in {"up", "stopping"} /\ UNCHANGED <<active, loops>>
  BY DEF SuspendTrigger, Serving, engine
<1>4. status'[u] = "suspended" /\ (t # u => status'[t] = status[t])
  BY DEF SuspendTrigger, TypeInv, Types, RegistryType
<1>5. ~NotYet(t) /\ (t # u => SameFor(t))
  BY <1>2, <1>3, <1>4 DEF SameFor, Begin, NotYet, Activating
<1>6. t = u => Midway(p, t)'
  BY <1>1, <1>4 DEF Now, Midway
<1> QED
  BY <1>1, <1>2, <1>5, <1>6, BeginFine DEF Now

LEMMA ResumeFine ==
  ASSUME TypeInv, Roles, NEW p \in Handlers, NEW u \in Triggers, ResumeTrigger(p, u),
         NEW t \in Triggers, Fine(t)
  PROVE  Fine(t)'
<1>1. Only(p) /\ Now(p, IF status[u] = "active" THEN "snapshot" ELSE "get", "resume", {u}, {}, {})
  BY Members, ResumeTasks DEF TypeInv, Types
<1>2. Begin(p, "resume", {u})
  BY DEF ResumeTrigger
<1>3. life \in {"up", "stopping"} /\ UNCHANGED <<active, loops>>
  BY DEF ResumeTrigger, Serving, engine
<1>4. status'[u] = "active" /\ (t # u => status'[t] = status[t])
  BY DEF ResumeTrigger, TypeInv, Types, RegistryType
<1>5. ~NotYet(t) /\ (t # u => SameFor(t))
  BY <1>2, <1>3, <1>4 DEF SameFor, Begin, NotYet, Activating
<1>6. t = u /\ Steady(t) => Midway(p, t)'
  BY <1>1, <1>3, <1>4 DEF Now, Midway, Steady
<1> QED
  BY <1>1, <1>2, <1>5, <1>6, BeginFine DEF Now

LEMMA UninstallFine ==
  ASSUME TypeInv, Roles, NEW p \in Handlers, UninstallPlugin(p), NEW t \in Triggers, Fine(t)
  PROVE  Fine(t)'
<1>1. /\ Only(p)
      /\ \/ Unsuspended = {} /\ task'[p] = Idle
         \/ Unsuspended # {} /\ Now(p, "deactivate", "uninstall", Dependent, Unsuspended, {})
  BY Members, UninstallTasks DEF TypeInv, Types
<1>2. Begin(p, "uninstall", Dependent) /\ Dependent \subseteq Triggers
  BY ServiceAssumption DEF UninstallPlugin
<1>3. life \in {"up", "stopping"} /\ UNCHANGED <<active, loops>>
  BY DEF UninstallPlugin, Serving, engine
<1>4. status'[t] = IF t \in Unsuspended THEN "suspended" ELSE status[t]
  BY DEF UninstallPlugin, Unsuspended
<1>5. ~NotYet(t) /\ (t \notin Unsuspended => SameFor(t))
  BY <1>2, <1>3, <1>4 DEF SameFor, Begin, NotYet, Activating
<1>6. CASE Unsuspended = {}
  <2>1. task[p].touches = {} /\ task'[p].touches = {} /\ SameFor(t)
    BY <1>1, <1>2, <1>5, <1>6, IdleType, Beginning
  <2> QED
    BY <1>1, <2>1, Members, OnlyStays, Elsewhere
<1>7. CASE Unsuspended # {}
  <2>1. Now(p, "deactivate", "uninstall", Dependent, Unsuspended, {})
    BY <1>1, <1>7
  <2>2. ASSUME t \in Dependent, Steady(t) PROVE Midway(p, t)'
    <3>1. t \in active => t \in Unsuspended
      BY <2>2 DEF Steady, Unsuspended, Known
    <3>2. status'[t] # "active"
      BY <1>4, <2>2 DEF Unsuspended, Known
    <3> QED
      BY <1>3, <2>1, <3>1, <3>2 DEF Now, Midway
  <2>3. t \notin Dependent => SameFor(t)
    BY <1>5 DEF Unsuspended
  <2> QED
    BY <1>1, <1>2, <1>5, <2>1, <2>2, <2>3, BeginFine DEF Now
<1> QED
  BY <1>6, <1>7

LEMMA ErrorFine ==
  ASSUME TypeInv, Roles, NEW p \in Handlers, NEW u \in Triggers, OnTriggerError(p, u),
         NEW t \in Triggers, Fine(t)
  PROVE  Fine(t)'
<1>1. /\ Only(p)
      /\ \/ u \notin Known /\ task'[p] = Idle
         \/ u \in Known /\ Now(p, "mark", "error", {u}, {}, {u})
  BY Members, ErrorTasks DEF TypeInv, Types
<1>2. Begin(p, "error", {u}) /\ UNCHANGED <<status, active>>
  BY DEF OnTriggerError, registry
<1>3. loops[u] > 0 /\ (t # u => loops'[t] = loops[t])
  BY DEF OnTriggerError, TypeInv, Types, EngineType
<1>4. SameFor(t)
  BY <1>2, <1>3 DEF SameFor, Begin
<1>5. t = u => ~NotYet(t)
  BY <1>3 DEF Fine, Waits
<1>6. CASE task'[p] = Idle
  <2>1. task[p].touches = {} /\ task'[p].touches = {}
    BY <1>2, <1>6, IdleType, Beginning
  <2> QED
    BY <1>1, <1>4, <2>1, Members, OnlyStays, Elsewhere
<1>7. CASE Now(p, "mark", "error", {u}, {}, {u})
  <2>1. t = u /\ Steady(t) => Midway(p, t)'
    BY <1>2, <1>7 DEF Now, Midway, Steady
  <2> QED
    BY <1>1, <1>2, <1>4, <1>5, <1>7, <2>1, BeginFine DEF Now
<1> QED
  BY <1>1, <1>6, <1>7

LEMMA FiredFine ==
  ASSUME TypeInv, Roles, NEW p \in Handlers, OnFired(p), NEW t \in Triggers, Fine(t)
  PROVE  Fine(t)'
<1>1. Only(p) /\ Now(p, "snapshot", "fired", {}, {}, {})
  BY Members, FiredTasks DEF TypeInv, Types
<1>2. Begin(p, "fired", {}) /\ UNCHANGED <<status, active, loops>>
  BY DEF OnFired, registry, engine
<1>3. SameFor(t)
  BY <1>2 DEF SameFor, Begin
<1> QED
  BY <1>1, <1>2, <1>3, BeginFine DEF Now

-----------------------------------------------------------------------------
(* The engine stays in step: the steps of a task. *)

\* A step of a task: its own triggers are followed through, the others do not notice.
LEMMA StepFine ==
  ASSUME NEW t \in Triggers, Fine(t), NEW p \in Handlers, life' = life, excused \subseteq excused',
         Only(p), task'[p].touches \subseteq task[p].touches,
         t \notin task[p].touches => SameFor(t),
         t \in task[p].touches /\ life \in {"start", "up"} /\ t \notin excused' /\ Midway(p, t) =>
           IF t \in task'[p].touches THEN Midway(p, t)' ELSE Steady(t)'
  PROVE  Fine(t)'
<1>1. \A q \in Writers \ {p} : Stays(q) /\ task'[q].held = task[q].held
  BY Members, OnlyStays
<1>2. CASE t \in task[p].touches
  BY <1>1, <1>2, OwnStep
<1>3. CASE t \notin task[p].touches
  BY <1>1, <1>3, Elsewhere
<1> QED
  BY <1>2, <1>3

\* The same for a registration or a removal, which take pointers from the others.
LEMMA ReloadFine ==
  ASSUME NEW t \in Triggers, Fine(t), NEW p \in Handlers, life' = life, excused \subseteq excused',
         NEW d, Reloads(p, d), d.touches \subseteq task[p].touches,
         task[p].touches = TriggersOf(task[p].file),
         t \notin task[p].touches => SameFor(t),
         t \in task[p].touches /\ Midway(p, t) =>
           IF t \in d.touches THEN Midway(p, t)' ELSE Steady(t)'
  PROVE  Fine(t)'
<1>1. \A q \in Writers \ {p} :
        Stays(q) /\ (t \notin task[p].touches /\ t \in task[q].held => t \in task'[q].held)
  BY DEF Reloads, Stays, Now
<1>2. CASE t \in task[p].touches
  BY <1>1, <1>2, OwnStep DEF Reloads
<1>3. CASE t \notin task[p].touches
  BY <1>1, <1>3, Elsewhere DEF Reloads
<1> QED
  BY <1>2, <1>3

\* Each step of a task: from midway to midway, and steady at the end.
LEMMA ResolvedFine ==
  ASSUME TypeInv, Roles, NEW p \in Handlers, RegisterResolved(p), NEW t \in Triggers, Fine(t)
  PROVE  Fine(t)'
<1> DEFINE f == task[p].file
<1>0. TaskType /\ RegistryType /\ p \in Writers /\ f \in Files
  BY Members DEF TypeInv, Types, TaskType, TaskRecord
<1>1. task[p].pc = "register" /\ task[p].kind = "register" /\ task[p].touches = TriggersOf(f)
  BY Stage DEF RegisterResolved, Doing
<1>2. PICK d \in TaskRecord :
        /\ Reloads(p, d)
        /\ d.pc = IF Of(task[p].file) = {} THEN AfterDeactivate(task[p].kind) ELSE "deactivate"
        /\ d.todo = Of(task[p].file) /\ d.kind = task[p].kind /\ d.file = task[p].file
        /\ d.touches = task[p].touches /\ d.held = task[p].held
  BY <1>0, ResolvedTasks
<1>3. UNCHANGED <<active, loops, life, excused>>
  BY DEF RegisterResolved, engine, history
<1>4. status' = Registered(status, f, task[p].parsed)
  BY DEF RegisterResolved
<1>5. /\ FileOf[t] # f => status'[t] = status[t]
      /\ FileOf[t] = f => status'[t] \in {"active", "none"}
  BY <1>0, <1>4, RegisteredType
<1>6. t \notin TriggersOf(f) => SameFor(t)
  BY <1>3, <1>5 DEF SameFor, TriggersOf
<1>7. ASSUME t \in TriggersOf(f), Midway(p, t) PROVE Midway(p, t)'
  <2>1. Steady(t)
    BY <1>1, <1>7 DEF Midway
  <2>2. t \in active => t \in Of(f)
    BY <1>7, <2>1 DEF Steady, Of, Known, TriggersOf
  <2>3. status'[t] \in {"active", "none"}
    BY <1>5, <1>7 DEF TriggersOf
  <2>4. AfterDeactivate("register") = "list"
    BY DEF AfterDeactivate
  <2>5. task'[p] = d
    BY <1>2 DEF Reloads
  <2>6. d.kind = "register" /\ d.todo = Of(f) /\ d.pc = IF Of(f) = {} THEN "list" ELSE "deactivate"
    BY <1>1, <1>2, <2>4
  <2> QED
    BY <1>3, <2>2, <2>3, <2>5, <2>6 DEF Midway
<1> QED
  BY <1>1, <1>2, <1>3, <1>6, <1>7, ReloadFine

LEMMA RemovedFine ==
  ASSUME TypeInv, Roles, NEW p \in Handlers, DeregisterResolved(p), NEW t \in Triggers, Fine(t)
  PROVE  Fine(t)'
<1> DEFINE f == task[p].file
<1>0. TaskType /\ RegistryType /\ p \in Writers /\ f \in Files
  BY Members DEF TypeInv, Types, TaskType, TaskRecord
<1>1. task[p].pc = "remove" /\ task[p].kind = "deregister" /\ task[p].touches = TriggersOf(f)
  BY Stage DEF DeregisterResolved, Doing
<1>2. PICK d \in TaskRecord :
        /\ Reloads(p, d)
        /\ \/ task[p].file \notin registered /\ d = Idle
           \/ task[p].file \in registered /\ SameBut(task[p], d, "snapshot")
                /\ d.held = task[p].held
  BY <1>0, RemovedTasks
<1>3. UNCHANGED <<active, loops, life, excused>>
  BY DEF DeregisterResolved, engine, history
<1>4. status' = Registered(status, f, {})
  BY DEF DeregisterResolved
<1>5. /\ FileOf[t] # f => status'[t] = status[t]
      /\ FileOf[t] = f => status'[t] = "none"
  BY <1>0, <1>4, RegisteredType
<1>6. t \notin TriggersOf(f) => SameFor(t)
  BY <1>3, <1>5 DEF SameFor, TriggersOf
<1>7. task'[p] = d /\ (d.touches = {} \/ (d.pc = "snapshot" /\ d.touches = task[p].touches))
  BY <1>2, IdleType DEF Reloads, SameBut
<1>8. ASSUME t \in TriggersOf(f), Midway(p, t)
      PROVE  IF t \in d.touches THEN Midway(p, t)' ELSE Steady(t)'
  <2>1. Steady(t)'
    BY <1>1, <1>3, <1>5, <1>8 DEF Midway, Steady, TriggersOf
  <2>2. t \in d.touches => d.pc = "snapshot"
    BY <1>7
  <2>3. t \in d.touches => Midway(p, t)'
    BY <1>7, <2>1, <2>2 DEF Midway
  <2> QED
    BY <2>1, <2>3
<1> QED
  BY <1>1, <1>2, <1>3, <1>6, <1>7, <1>8, ReloadFine

LEMMA ListFine ==
  ASSUME TypeInv, Roles, NEW p \in Handlers, ListTriggers(p), NEW t \in Triggers, Fine(t)
  PROVE  Fine(t)'
<1> DEFINE f == task[p].file
<1>1. task[p].pc = "list" /\ task[p].kind = "register" /\ task[p].touches = TriggersOf(f)
  BY Stage DEF ListTriggers, Doing
<1>2. /\ Only(p)
      /\ Now(p, IF Mine(p) = {} THEN AfterActivate(task[p].kind) ELSE "activate",
                task[p].kind, task[p].touches, Mine(p), Mine(p))
  BY Members, ListTasks DEF TypeInv, Types
<1>3. UNCHANGED <<active, loops, life, excused, status>>
  BY DEF ListTriggers, engine, history, registry
<1>4. Mine(p) = Of(f) /\ AfterActivate("register") = "snapshot"
  BY <1>1 DEF Mine, AfterActivate
<1>5. ASSUME t \in TriggersOf(f), Midway(p, t) PROVE Midway(p, t)'
  <2>1. t \notin active /\ status[t] \in {"active", "none"}
    BY <1>1, <1>5 DEF Midway
  <2>2. t \in Of(f) <=> status[t] = "active"
    BY <1>5, <2>1 DEF Of, Known, TriggersOf
  <2>3. Steady(t)' <=> status[t] # "active"
    BY <1>3, <2>1 DEF Steady
  <2> QED
    BY <1>1, <1>2, <1>3, <1>4, <2>1, <2>2, <2>3 DEF Now, Midway
<1>6. SameFor(t)
  BY <1>3 DEF SameFor
<1>7. task'[p].touches = task[p].touches
  BY <1>2 DEF Now
<1> QED
  BY <1>1, <1>2, <1>3, <1>5, <1>6, <1>7, StepFine

LEMMA GetFine ==
  ASSUME TypeInv, Roles, NEW p \in Handlers, ResumeGet(p), NEW t \in Triggers, Fine(t)
  PROVE  Fine(t)'
<1>1. task[p].pc = "get" /\ task[p].kind = "resume"
  BY Stage DEF ResumeGet, Doing
<1>2. /\ Only(p)
      /\ Now(p, IF task[p].touches \intersect Known = {} THEN AfterActivate(task[p].kind)
                ELSE "activate",
                task[p].kind, task[p].touches, task[p].touches \intersect Known, task[p].held)
  BY Members, GetTasks DEF TypeInv, Types
<1>3. UNCHANGED <<active, loops, life, excused, status>>
  BY DEF ResumeGet, engine, history, registry
<1>4. ASSUME t \in task[p].touches, Midway(p, t) PROVE Midway(p, t)'
  <2>1. t \notin active /\ status[t] = "active"
    BY <1>1, <1>4 DEF Midway
  <2>2. t \in task[p].touches \intersect Known
    BY <1>4, <2>1 DEF Known
  <2> QED
    BY <1>1, <1>2, <1>3, <2>1, <2>2 DEF Now, Midway
<1>5. SameFor(t) /\ task'[p].touches = task[p].touches
  BY <1>2, <1>3 DEF SameFor, Now
<1> QED
  BY <1>2, <1>3, <1>4, <1>5, StepFine

LEMMA MarkFine ==
  ASSUME TypeInv, Roles, NEW p \in Handlers, MarkError(p), NEW t \in Triggers, Fine(t)
  PROVE  Fine(t)'
<1>1. task[p].pc = "mark" /\ task[p].kind = "error" /\ task[p].touches # {}
      /\ task[p].held \subseteq task[p].touches
  BY Stage DEF MarkError, Doing
<1>2. /\ Only(p)
      /\ \/ /\ status' = [u \in Triggers |-> IF u \in task[p].held THEN "error" ELSE status[u]]
            /\ Now(p, IF task[p].touches = {} THEN AfterDeactivate(task[p].kind)
                      ELSE "deactivate",
                   task[p].kind, task[p].touches, task[p].touches, task[p].held)
         \/ /\ UNCHANGED status
            /\ Now(p, "snapshot", task[p].kind, task[p].touches, task[p].todo, task[p].held)
  BY Members, MarkTasks DEF TypeInv, Types
<1>3. UNCHANGED <<active, loops, life, excused>>
  BY DEF MarkError, engine, history
<1>4. ASSUME t \in task[p].touches, Midway(p, t) PROVE Midway(p, t)'
  <2>1. Steady(t) /\ t \in task[p].held
    BY <1>1, <1>4 DEF Midway
  <2>2. CASE UNCHANGED status /\ Now(p, "snapshot", task[p].kind, task[p].touches, task[p].todo,
                                     task[p].held)
    BY <1>3, <2>1, <2>2 DEF Now, Midway, Steady
  <2>3. CASE /\ status'[t] = "error"
             /\ Now(p, "deactivate", "error", task[p].touches, task[p].touches, task[p].held)
    BY <1>4, <2>3 DEF Now, Midway
  <2> QED
    BY <1>1, <1>2, <2>1, <2>2, <2>3
<1>5. t \notin task[p].touches => status'[t] = status[t]
  BY <1>1, <1>2
<1>6. t \notin task[p].touches => SameFor(t)
  BY <1>3, <1>5 DEF SameFor
<1>7. task'[p].touches = task[p].touches
  BY <1>2 DEF Now
<1> QED
  BY <1>2, <1>3, <1>4, <1>6, <1>7, StepFine

LEMMA DeactivateFine ==
  ASSUME TypeInv, Roles, NEW p \in Handlers, DeactivateNext(p), NEW t \in Triggers, Fine(t)
  PROVE  Fine(t)'
<1>1. /\ task[p].pc = "deactivate" /\ Doing(task[p].kind, "deactivate")
      /\ task[p].todo \subseteq task[p].touches
  BY Stage DEF DeactivateNext
<1>2. Only(p)
  BY Members, DeactivateTasks DEF TypeInv, Types
<1>3. PICK u \in task[p].todo :
        /\ active' = active \ {u} /\ loops' = loops
        /\ Now(p, IF task[p].todo = {u} THEN AfterDeactivate(task[p].kind) ELSE "deactivate",
               task[p].kind, task[p].touches, task[p].todo \ {u}, task[p].held)
  BY Members, DeactivateTasks DEF TypeInv, Types
<1>4. UNCHANGED <<life, excused, status>>
  BY DEF DeactivateNext, history, registry
<1>5. ASSUME t \in task[p].touches, Midway(p, t) PROVE Midway(p, t)'
  <2>1. /\ t \in active => t \in task[p].todo
        /\ task[p].kind = "register" => status[t] \in {"active", "none"}
        /\ task[p].kind \in {"suspend", "uninstall", "error"} => status[t] # "active"
    BY <1>1, <1>5 DEF Midway
  <2>2. CASE task[p].todo # {u}
    BY <1>3, <1>4, <2>1, <2>2 DEF Now, Midway
  <2>3. CASE task[p].todo = {u}
    <3>1. t \notin active' /\ status'[t] = status[t]
      BY <1>3, <1>4, <2>1, <2>3
    <3>2. task'[p].pc = AfterDeactivate(task[p].kind)
      BY <1>3, <2>3 DEF Now
    <3>3. CASE task[p].kind = "register"
      BY <2>1, <3>1, <3>2, <3>3 DEF AfterDeactivate, Midway
    <3>4. CASE task[p].kind = "deregister"
      BY <3>1, <3>2, <3>4 DEF AfterDeactivate, Midway
    <3>5. CASE task[p].kind \in {"suspend", "uninstall", "error"}
      BY <2>1, <3>1, <3>2, <3>5 DEF AfterDeactivate, Midway, Steady
    <3> QED
      BY <1>1, <3>3, <3>4, <3>5 DEF Doing
  <2> QED
    BY <2>2, <2>3
<1>6. t \notin task[p].touches => SameFor(t)
  BY <1>1, <1>3, <1>4 DEF SameFor
<1>7. task'[p].touches = task[p].touches
  BY <1>3 DEF Now
<1> QED
  BY <1>2, <1>4, <1>5, <1>6, <1>7, StepFine

LEMMA ActivateFine ==
  ASSUME TypeInv, Roles, NEW p \in Handlers, ActivateNext(p), NEW t \in Triggers, Fine(t)
  PROVE  Fine(t)'
<1>1. /\ task[p].pc = "activate" /\ task[p].kind \in {"register", "resume"}
      /\ task[p].todo \subseteq task[p].touches
  BY Stage DEF ActivateNext, Doing
<1>2. Only(p)
  BY Members, ActivateTasks DEF TypeInv, Types
<1>3. PICK u \in task[p].todo :
        /\ \/ /\ task[p].kind = "resume" \/ u \notin task[p].held \/ status[u] = "active"
              /\ ActivateTrigger(u)
           \/ /\ task[p].kind # "resume"
              /\ u \in task[p].held => status[u] # "active"
              /\ UNCHANGED <<engine, excused>>
        /\ Now(p, IF task[p].todo = {u} THEN AfterActivate(task[p].kind) ELSE "activate",
               task[p].kind, task[p].touches, task[p].todo \ {u}, task[p].held)
  BY Members, ActivateTasks DEF TypeInv, Types
<1>4. UNCHANGED <<life, status>> /\ excused \subseteq excused'
  BY <1>3 DEF ActivateNext, registry, ActivateTrigger
<1>5. t # u => (t \in active' <=> t \in active)
  BY <1>3 DEF ActivateTrigger, engine
<1>6. t # u => loops'[t] = loops[t]
  BY <1>3 DEF ActivateTrigger, engine, TypeInv, Types, EngineType
<1>7. ASSUME t \in task[p].touches, life \in {"start", "up"}, t \notin excused', Midway(p, t)
      PROVE  Midway(p, t)'
  <2>0. AfterActivate(task[p].kind) = "snapshot"
    BY <1>1 DEF AfterActivate
  <2>1. IF t \in task[p].todo
        THEN t \notin active /\ status[t] = "active" /\ (task[p].kind = "resume" \/ t \in task[p].held)
        ELSE Steady(t)
    BY <1>1, <1>7 DEF Midway
  <2>2. CASE t = u
    <3>1. t \notin active /\ status[t] = "active" /\ (task[p].kind = "resume" \/ t \in task[p].held)
      BY <2>1, <2>2
    <3>2. ActivateTrigger(t) /\ ~EngineStopped
      BY <1>3, <1>7, <2>2, <3>1 DEF EngineStopped
    <3>3. Steady(t)'
      BY <1>4, <1>7, <3>1, <3>2 DEF ActivateTrigger, Steady
    <3> QED
      BY <1>3, <2>0, <2>2, <3>3 DEF Now, Midway
  <2>3. CASE t # u
    <3>1. Steady(t)' <=> Steady(t)
      BY <1>4, <1>5, <2>3 DEF Steady
    <3>2. t \in task[p].todo \ {u} <=> t \in task[p].todo
      BY <2>3
    <3> QED
      BY <1>3, <1>4, <1>5, <2>0, <2>1, <2>3, <3>1, <3>2 DEF Now, Midway
  <2> QED
    BY <2>2, <2>3
<1>8. t \notin task[p].touches => SameFor(t)
  BY <1>1, <1>3, <1>4, <1>5, <1>6 DEF SameFor
<1>9. task'[p].touches = task[p].touches
  BY <1>3 DEF Now
<1> QED
  BY <1>2, <1>4, <1>7, <1>8, <1>9, StepFine

LEMMA SnapshotFine ==
  ASSUME TypeInv, Roles, NEW p \in Handlers, TakeSnapshot(p), NEW t \in Triggers, Fine(t)
  PROVE  Fine(t)'
<1>1. task[p].pc = "snapshot"
  BY DEF TakeSnapshot
<1>2. Only(p) /\ Now(p, "save", task[p].kind, task[p].touches, task[p].todo, task[p].held)
  BY Members, SnapshotTasks DEF TypeInv, Types
<1>3. UNCHANGED <<active, loops, life, excused, status>>
  BY DEF TakeSnapshot, engine, history, registry
<1>4. ASSUME t \in task[p].touches, Midway(p, t) PROVE Midway(p, t)'
  BY <1>1, <1>2, <1>3, <1>4 DEF Midway, Now, Steady
<1>5. SameFor(t) /\ task'[p].touches = task[p].touches
  BY <1>2, <1>3 DEF SameFor, Now
<1> QED
  BY <1>2, <1>3, <1>4, <1>5, StepFine

LEMMA SavedFine ==
  ASSUME TypeInv, Roles, NEW p \in Handlers, Saved(p), NEW t \in Triggers, Fine(t)
  PROVE  Fine(t)'
<1>1. task[p].pc = "save" /\ task[p].kind \notin {"startup", "shutdown"}
  BY Stage DEF Saved, Doing
<1>2. Only(p) /\ task'[p].touches = {}
  BY <1>1, Members, SavedTasks, IdleType DEF TypeInv, Types
<1>3. UNCHANGED <<active, loops, life, excused, status>>
  BY DEF Saved, engine, registry
<1>4. Midway(p, t) => Steady(t)'
  BY <1>1, <1>3 DEF Midway, Steady
<1>5. SameFor(t)
  BY <1>3 DEF SameFor
<1> QED
  BY <1>2, <1>3, <1>4, <1>5, StepFine

-----------------------------------------------------------------------------
(* The engine stays in step: the start and the end of the daemon. *)

\* A step of Main leaves the handlers alone.
LEMMA MainTouching ==
  ASSUME NEW t, \A p \in Handlers : task'[p] = task[p]
  PROVE  Touching(t)' = Touching(t)
  BY DEF Touching

\* Main leaves the triggers alone that it does not activate.
LEMMA InStepStays ==
  ASSUME NEW t \in Triggers, \A p \in Handlers : task'[p] = task[p], SameFor(t), InStep(t)
  PROVE  InStep(t)'
<1>1. Touching(t)' = Touching(t)
  BY MainTouching
<1>2. Steady(t)' <=> Steady(t)
  BY DEF SameFor, Steady
<1>3. \A p \in Touching(t) : Midway(p, t)'
  BY <1>2 DEF Touching, InStep, Midway, SameFor
<1> QED
  BY <1>1, <1>2, <1>3 DEF InStep

LEMMA WaitsStays ==
  ASSUME NEW t \in Triggers, \A p \in Handlers : task'[p] = task[p], SameFor(t), Waits(t)
  PROVE  Waits(t)'
  BY MainTouching DEF Waits, SameFor

\* Main starts the triggers one by one.
LEMMA StartFine ==
  ASSUME TypeInv, Roles, TaskStep(Main), life = "start", NEW t \in Triggers, Fine(t)
  PROVE  Fine(t)'
<1>0. Main \in Writers /\ TaskType /\ life' = life
  BY Members, TaskLife DEF TypeInv, Types
<1>1. /\ task[Main].kind = "startup" /\ task[Main].touches = {}
      /\ task[Main].pc \in {"snapshot", "save", "list", "activate"}
  BY MainTaskRoles, MainStages DEF Roles, MainRole, AtEase
<1>2. AfterActivate("startup") = "serve"
  BY DEF AfterActivate
<1>3. CASE WriteSnapshot(Main)
  <2>1. UNCHANGED <<task, life, status, active, loops, excused>>
    BY <1>3 DEF WriteSnapshot, registry, engine, history
  <2> QED
    BY <2>1, Unmoved
<1>4. CASE TakeSnapshot(Main) \/ Saved(Main)
  <2>1. /\ Only(Main) /\ task[Main].pc \in {"snapshot", "save"}
        /\ task'[Main].pc \in {"save", "list"}
    BY <1>0, <1>1, <1>4, SnapshotTasks, SavedTasks DEF Now, TakeSnapshot, Saved
  <2>2. SameFor(t)
    BY <1>4 DEF TakeSnapshot, Saved, SameFor, registry, engine, history
  <2>3. \A p \in Handlers : task'[p] = task[p]
    BY <2>1, Members DEF Only
  <2>4. NotYet(t) /\ NotYet(t)' /\ ~Activating(t)'
    BY <1>0, <2>1 DEF NotYet, Activating
  <2> QED
    BY <2>2, <2>3, <2>4, WaitsStays DEF Fine
<1>5. CASE ListTriggers(Main)
  <2>1. /\ Only(Main)
        /\ Now(Main, IF Known = {} THEN "serve" ELSE "activate", "startup", {}, Known, Known)
    BY <1>0, <1>1, <1>2, <1>5, ListTasks DEF Mine
  <2>2. SameFor(t)
    BY <1>5 DEF ListTriggers, SameFor, registry, engine, history
  <2>3. \A p \in Handlers : task'[p] = task[p]
    BY <2>1, Members DEF Only
  <2>4. Waits(t)
    BY <1>5 DEF ListTriggers, Fine, NotYet
  <2>5. Waits(t)'
    BY <2>2, <2>3, <2>4, WaitsStays
  <2>6. NotYet(t)' => t \in Known /\ task'[Main].held = Known
    BY <1>0, <2>1 DEF NotYet, Activating, Now
  <2>7. ~NotYet(t)' => t \notin Known
    BY <1>0, <2>1 DEF NotYet, Activating, Now
  <2>8. t \notin Known => InStep(t)'
    <3>1. t \notin Known => status'[t] = "none" /\ t \notin active'
      BY <2>2, <2>4 DEF Known, SameFor, Waits
    <3> QED
      BY <2>5, <3>1 DEF InStep, Waits, Steady
  <2>9. Activating(t)' => NotYet(t)'
    BY DEF NotYet
  <2> QED
    BY <2>5, <2>6, <2>7, <2>8, <2>9 DEF Fine
<1>6. CASE ActivateNext(Main)
  <2>0. task[Main].pc = "activate"
    BY <1>6 DEF ActivateNext
  <2>1. Only(Main)
    BY <1>0, <1>6, ActivateTasks
  <2>2. PICK u \in task[Main].todo :
          /\ \/ /\ u \notin task[Main].held \/ status[u] = "active"
                /\ ActivateTrigger(u)
             \/ /\ u \in task[Main].held => status[u] # "active"
                /\ UNCHANGED <<engine, excused>>
          /\ Now(Main, IF task[Main].todo = {u} THEN "serve" ELSE "activate",
                 "startup", {}, task[Main].todo \ {u}, task[Main].held)
    BY <1>0, <1>1, <1>2, <1>6, ActivateTasks
  <2>3. UNCHANGED status /\ excused \subseteq excused'
    BY <1>6, <2>2 DEF ActivateNext, registry, ActivateTrigger
  <2>4. \A p \in Handlers : task'[p] = task[p]
    BY <2>1, Members DEF Only
  <2>5. NotYet(t) <=> t \in task[Main].todo
    BY <2>0 DEF NotYet, Activating
  <2>6. (NotYet(t)' <=> t \in task[Main].todo \ {u}) /\ (Activating(t)' => NotYet(t)')
    BY <1>0, <2>2 DEF NotYet, Activating, Now
  <2>7. CASE t # u
    <3>1. SameFor(t)
      BY <1>0, <2>2, <2>3, <2>7 DEF SameFor, ActivateTrigger, engine, TypeInv, Types, EngineType
    <3>2. NotYet(t)' => Waits(t)' /\ t \in task'[Main].held
      <4>1. NotYet(t)' => Waits(t) /\ Activating(t)
        BY <2>0, <2>5, <2>6 DEF Fine, Activating
      <4> QED
        BY <2>2, <2>4, <3>1, <4>1, WaitsStays DEF Fine, Now
    <3>3. ~NotYet(t)' /\ t \notin excused' => InStep(t)'
      <4>1. ~NotYet(t)' /\ t \notin excused' => InStep(t)
        BY <2>3, <2>5, <2>6, <2>7 DEF Fine
      <4> QED
        BY <2>4, <3>1, <4>1, InStepStays
    <3> QED
      BY <2>6, <3>2, <3>3 DEF Fine
  <2>8. CASE t = u
    <3>1. Waits(t) /\ t \in task[Main].held
      BY <2>0, <2>5, <2>8 DEF Fine, Activating
    <3>2. ~NotYet(t)'
      BY <2>6, <2>8
    <3>3. Touching(t)' = {}
      BY <2>4, <3>1, MainTouching DEF Waits
    <3>4. t \notin excused' => Steady(t)'
      BY <2>2, <2>3, <2>8, <3>1 DEF Waits, ActivateTrigger, EngineStopped, engine, Steady
    <3> QED
      BY <2>6, <3>2, <3>3, <3>4 DEF Fine, InStep
  <2> QED
    BY <2>7, <2>8
<1>7. ListTriggers(Main) \/ ActivateNext(Main) \/ TakeSnapshot(Main) \/ WriteSnapshot(Main)
      \/ Saved(Main)
  BY <1>1 DEF TaskStep, RegisterResolved, DeregisterResolved, ResumeGet, MarkError, DeactivateNext
<1> QED
  BY <1>3, <1>4, <1>5, <1>6, <1>7

\* Every step keeps every trigger fine.
LEMMA FineStep ==
  ASSUME TypeInv, TypeInv', Roles, [Next]_vars, NEW t \in Triggers, Fine(t)
  PROVE  Fine(t)'
<1>0. TaskType
  BY DEF TypeInv, Types
<1>1. ASSUME life' \in {"down", "clean", "load", "scan"} PROVE Fine(t)'
  <2>1. loops'[t] = 0 /\ t \notin active' /\ \A p \in Writers : task'[p] = Idle
    BY <1>1 DEF TypeInv, AtRest
  <2>2. Touching(t)' = {}
    BY <2>1, IdleType, Members DEF Touching
  <2> QED
    BY <1>1, <2>1, <2>2 DEF Fine, NotYet, Activating, Waits
<1>2. ASSUME life' \in {"stopping", "stopped"} PROVE Fine(t)'
  BY <1>2 DEF Fine, NotYet, Activating
<1>3. ASSUME UNCHANGED <<task, life, status, active, loops, excused>> PROVE Fine(t)'
  BY <1>3, Unmoved
<1>4. ASSUME NEW p \in Handlers, Request(p) \/ Callback(p) PROVE Fine(t)'
  BY <1>4, RegisterFine, DeregisterFine, SuspendFine, ResumeFine, UninstallFine, ErrorFine,
     FiredFine DEF Request, Callback
<1>5. ASSUME NEW p \in Handlers, TaskStep(p) PROVE Fine(t)'
  <2>1. WriteSnapshot(p) => UNCHANGED <<task, life, status, active, loops, excused>>
    BY DEF WriteSnapshot, registry, engine, history
  <2> QED
    BY <1>3, <1>5, <2>1, ResolvedFine, RemovedFine, ListFine, GetFine, MarkFine, DeactivateFine,
       ActivateFine, SnapshotFine, SavedFine DEF TaskStep
<1>6. CASE TaskStep(Main)
  <2>1. CASE life = "start"
    BY <1>6, <2>1, StartFine
  <2>2. CASE life = "stopped"
    BY <1>2, <1>6, <2>2, TaskLife, Members
  <2> QED
    BY <1>6, <2>1, <2>2, MainTaskRoles
<1>7. CASE MainStep
  <2>1. CASE Boot \/ RemoveTemps \/ LoadState \/ Exit
    <3>1. life' \in {"down", "clean", "load", "scan"}
      BY <2>1 DEF Boot, RemoveTemps, LoadState, Exit, Die
    <3> QED
      BY <1>1, <3>1
  <2>2. CASE ScanAppFolder
    <3>1. Only(Main) /\ Now(Main, "snapshot", "startup", {}, {}, {}) /\ life' = "start"
      BY <1>0, <2>2, ScanTasks DEF ScanAppFolder
    <3>2. Waits(t)
      BY <2>2 DEF ScanAppFolder, Fine, NotYet
    <3>3. Waits(t)'
      <4>1. \A p \in Handlers : task'[p] = task[p]
        BY <3>1, Members DEF Only
      <4>2. UNCHANGED <<active, loops>>
        BY <2>2 DEF ScanAppFolder, engine
      <4> QED
        BY <3>2, <4>1, <4>2, MainTouching DEF Waits
    <3>4. NotYet(t)' /\ ~Activating(t)'
      BY <3>1 DEF Now, NotYet, Activating
    <3> QED
      BY <3>3, <3>4 DEF Fine
  <2>3. CASE Serve
    <3>1. Only(Main) /\ task'[Main] = Idle /\ life' = "up" /\ task[Main].pc = "serve"
      BY <1>0, <2>3, ServeTasks DEF Serve
    <3>2. life = "start"
      BY <3>1 DEF Roles, MainRole, AtEase
    <3>3. ~NotYet(t) /\ ~NotYet(t)' /\ ~Activating(t)'
      BY <3>1, <3>2 DEF NotYet, Activating
    <3>4. UNCHANGED <<status, active, loops, excused>>
      BY <2>3 DEF Serve, registry, engine, history
    <3>5. ASSUME InStep(t) PROVE InStep(t)'
      <4>1. \A p \in Handlers : task'[p] = task[p]
        BY <3>1, Members DEF Only
      <4>2. Touching(t)' = Touching(t)
        BY <4>1, MainTouching
      <4>3. (Steady(t)' <=> Steady(t)) /\ \A p \in Handlers : Midway(p, t)' <=> Midway(p, t)
        BY <3>4, <4>1 DEF Steady, Midway
      <4> QED
        BY <3>5, <4>2, <4>3 DEF InStep, Touching
    <3> QED
      BY <3>1, <3>2, <3>3, <3>4, <3>5 DEF Fine
  <2>4. CASE SrvStop
    BY <1>2, <2>4 DEF SrvStop
  <2> QED
    BY <1>7, <2>1, <2>2, <2>3, <2>4 DEF MainStep
<1>8. CASE StopAll
  BY <1>2, <1>8 DEF StopAll
<1>9. CASE Crash
  BY <1>1, <1>9 DEF Crash, Die
<1>10. ASSUME NEW f \in Files, EditRecurfile(f) PROVE Fine(t)'
  BY <1>3, <1>10 DEF EditRecurfile, registry, engine, history
<1>11. CASE UNCHANGED vars
  BY <1>3, <1>11 DEF vars, registry, engine, history
<1> QED
  BY <1>4, <1>5, <1>6, <1>7, <1>8, <1>9, <1>10, <1>11, Members DEF Next

\* When nobody is at work the engine runs exactly the active triggers, but for those whose
\* requests overlapped or whose plugin did not start: handlers change the registry first and
\* the engine afterwards, under different locks, and what one does about a trigger between
\* the two is undone by nobody else.
THEOREM EngineAlwaysFollows == Spec => []EngineFollowsRegistry
<1> DEFINE EngineInv == Roles /\ \A t \in Triggers : Fine(t)
<1>1. Init => TypeInv /\ EngineInv
  <2>1. Init => TypeInv /\ Roles
    BY TypeInit, RolesInit
  <2>2. Init => life = "down"
    BY DEF Init
  <2> QED
    BY <2>1, <2>2, RestFine
<1>2. TypeInv /\ EngineInv /\ [Next]_vars => TypeInv' /\ EngineInv'
  <2> SUFFICES ASSUME TypeInv, EngineInv, [Next]_vars PROVE TypeInv' /\ EngineInv'
    OBVIOUS
  <2>1. TypeInv'
    BY TypeStep
  <2>2. Roles'
    BY RolesStep
  <2>3. \A t \in Triggers : Fine(t)'
    BY <2>1, FineStep
  <2> QED
    BY <2>1, <2>2, <2>3
<1>3. EngineInv => EngineFollowsRegistry
  <2> SUFFICES ASSUME EngineInv, Quiescent, NEW t \in Triggers \ excused PROVE Steady(t)
    BY DEF EngineFollowsRegistry, Steady
  <2>1. ~NotYet(t) /\ life = "up"
    BY DEF Quiescent, NotYet, Activating
  <2>2. InStep(t)
    BY <2>1 DEF Fine
  <2>3. Touching(t) = {}
    <3>1. \A p \in Handlers : task[p].pc = "idle"
      BY Members DEF Quiescent, Busy
    <3> QED
      BY <3>1, IdleTouches DEF Touching
  <2> QED
    BY <2>2, <2>3 DEF InStep
<1>4. Spec => [](TypeInv /\ EngineInv)
  <2> HIDE DEF EngineInv
  <2> QED
    BY <1>1, <1>2, PTL DEF Spec
<1> QED
  BY <1>3, <1>4, PTL

-----------------------------------------------------------------------------
(* What the steps mean for the state file. *)

\* A save is in progress exactly while the task is at it.
SaveTasks == \A p \in Writers : save[p].pc # "none" <=> task[p].pc = "save"

\* No two names are names of one inode.
Names ==
  /\ canonical \notin Range(tmp)
  /\ \A r, s \in DOMAIN tmp : tmp[r] = tmp[s] => r = s

\* A task that still has to take the snapshot with its changes in it.
Dirty(p) ==
  /\ task[p].pc \in {"list", "get", "activate", "snapshot", "deactivate"}
  /\ task[p].pc = "deactivate" => task[p].kind # "deregister"
  /\ task[p].kind = "startup" => task[p].pc = "snapshot"

\* Somebody has yet to save.
Unsaved == \E p \in Writers : Dirty(p)

\* The registry holds what was loaded.
Loaded == life \in {"start", "up", "stopping", "stopped"}

\* A step that leaves the files alone: what it changes in the registry is yet to be saved.
Quiet ==
  /\ UNCHANGED fileVars
  /\ life' = "down" <=> life = "down"
  /\ \A p \in Writers : task'[p].pc = "save" <=> task[p].pc = "save"
  /\ Loaded' => Unsaved' \/ (Loaded /\ ~Unsaved /\ Snapshot' = Snapshot)

\* Who stays where it is has as much to save as before.
LEMMA DirtyStays ==
  ASSUME NEW q \in Writers, Stays(q)
  PROVE  Dirty(q)' <=> Dirty(q)
  BY DEF Stays, Now, Dirty

\* A task is at work while the daemon is loaded.
LEMMA WorkLoaded ==
  ASSUME TypeInv, NEW p \in Writers, task[p].pc # "idle"
  PROVE  Loaded
  BY RestTasks DEF TypeInv, Types, OtherType, Loaded

\* A step is quiet if the goroutine that takes it has yet to save what it changes.
LEMMA QuietBy ==
  ASSUME NEW p \in Writers, \A q \in Writers \ {p} : Stays(q), UNCHANGED fileVars,
         life' = life, Loaded, task[p].pc # "save", task'[p].pc # "save",
         Dirty(p)' \/ (~Dirty(p) /\ Snapshot' = Snapshot)
  PROVE  Quiet
<1>1. \A q \in Writers : task'[q].pc = "save" <=> task[q].pc = "save"
  BY DEF Stays, Now
<1>2. Loaded' => Unsaved' \/ (Loaded /\ ~Unsaved /\ Snapshot' = Snapshot)
  <2>1. CASE Dirty(p)'
    BY <2>1 DEF Unsaved
  <2>2. CASE ~Dirty(p) /\ Snapshot' = Snapshot
    <3>1. Unsaved => Unsaved'
      BY <2>2, DirtyStays DEF Unsaved
    <3> QED
      BY <2>2, <3>1
  <2> QED
    BY <2>1, <2>2
<1> QED
  BY <1>1, <1>2 DEF Quiet

\* Requests and callbacks come only once the registry is loaded.
LEMMA BeginLoaded ==
  ASSUME TypeInv, NEW p \in Handlers, Request(p) \/ Callback(p)
  PROVE  Loaded
<1>1. CASE Request(p)
  BY <1>1 DEF Request, RegisterRecurfile, DeregisterRecurfile, SuspendTrigger, ResumeTrigger,
              UninstallPlugin, Serving, Loaded
<1>2. CASE Callback(p)
  <2>1. \E t \in Triggers : loops[t] > 0
    BY <1>2 DEF Callback, OnFired, OnTriggerError
  <2> QED
    BY <2>1 DEF TypeInv, Types, AtRest, OtherType, Loaded
<1> QED
  BY <1>1, <1>2

\* Requests, callbacks and the steps before the snapshot are quiet.
LEMMA BeginQuiet ==
  ASSUME TypeInv, Roles, NEW p \in Handlers, Request(p) \/ Callback(p)
  PROVE  Quiet
<1>0. TaskType /\ OtherType /\ p \in Writers
  BY Members DEF TypeInv, Types
<1>1. task[p] = Idle /\ UNCHANGED <<fileVars, life>>
  BY DEF Request, Callback, RegisterRecurfile, DeregisterRecurfile, SuspendTrigger, ResumeTrigger,
         UninstallPlugin, OnFired, OnTriggerError, Begin
<1>2. Loaded
  BY BeginLoaded
<1>3. task[p].pc = "idle" /\ ~Dirty(p)
  BY <1>1, IdleType DEF Dirty
<1> DEFINE Started == Only(p) /\ task'[p].pc # "save" /\ (Dirty(p)' \/ Snapshot' = Snapshot)
<1>4. Started
  <2>1. ASSUME NEW f \in Files, RegisterRecurfile(p, f) PROVE Started
    BY <1>0, <2>1, RegisterTasks DEF Now, RegisterRecurfile, registry, Snapshot
  <2>2. ASSUME NEW f \in Files, DeregisterRecurfile(p, f) PROVE Started
    BY <1>0, <2>2, DeregisterTasks DEF Now, DeregisterRecurfile, registry, Snapshot
  <2>3. ASSUME NEW t \in Triggers, SuspendTrigger(p, t) PROVE Started
    BY <1>0, <2>3, SuspendTasks DEF Now, Dirty
  <2>4. ASSUME NEW t \in Triggers, ResumeTrigger(p, t) PROVE Started
    BY <1>0, <2>4, ResumeTasks DEF Now, Dirty
  <2>5. CASE UninstallPlugin(p)
    <3>1. Unsuspended = {} => Snapshot' = Snapshot
      BY <2>5 DEF UninstallPlugin, Unsuspended, TypeInv, Types, RegistryType, Snapshot
    <3> QED
      BY <1>0, <2>5, <3>1, IdleType, UninstallTasks DEF Now, Dirty
  <2>6. ASSUME NEW t \in Triggers, OnTriggerError(p, t) PROVE Started
    BY <1>0, <2>6, IdleType, ErrorTasks DEF Now, OnTriggerError, registry, Snapshot
  <2>7. CASE OnFired(p)
    BY <1>0, <2>7, FiredTasks DEF Now, Dirty
  <2> QED
    BY <2>1, <2>2, <2>3, <2>4, <2>5, <2>6, <2>7 DEF Request, Callback
<1> QED
  BY <1>0, <1>1, <1>2, <1>3, <1>4, OnlyStays, QuietBy

\* A removal of what is not there changes nothing.
LEMMA RemovedNothing ==
  ASSUME TypeInv, NEW p \in Writers, DeregisterResolved(p), task[p].file \notin registered
  PROVE  Snapshot' = Snapshot
<1>1. RegistryType /\ task[p].file \in Files
  BY DEF TypeInv, Types, TaskType, TaskRecord
<1>2. status' = Registered(status, task[p].file, {}) /\ registered' = registered
  BY DEF DeregisterResolved
<1>3. ASSUME NEW t \in Triggers PROVE status'[t] = status[t]
  <2>1. CASE FileOf[t] # task[p].file
    BY <1>1, <1>2, <2>1, RegisteredType
  <2>2. CASE FileOf[t] = task[p].file
    <3>1. t \notin Known
      BY <1>1, <2>2 DEF RegistryType
    <3> QED
      BY <1>1, <1>2, <2>2, <3>1, RegisteredType DEF Known
  <2> QED
    BY <2>1, <2>2
<1>4. status' = status
  BY <1>1, <1>2, <1>3, RegisteredType DEF RegistryType
<1> QED
  BY <1>2, <1>4 DEF Snapshot

LEMMA WorkQuiet ==
  ASSUME TypeInv, Roles, NEW p \in Writers,
         \/ RegisterResolved(p) \/ ListTriggers(p) \/ DeregisterResolved(p) \/ ResumeGet(p)
         \/ MarkError(p) \/ DeactivateNext(p) \/ ActivateNext(p)
  PROVE  Quiet
<1>0. TaskType
  BY DEF TypeInv, Types
<1>1. task[p].pc \notin {"idle", "save", "snapshot"} /\ UNCHANGED <<fileVars, life>>
  BY DEF RegisterResolved, ListTriggers, DeregisterResolved, ResumeGet, MarkError, DeactivateNext,
         ActivateNext
<1>2. Loaded
  BY <1>1, WorkLoaded
<1>3. /\ p \in Handlers => Doing(task[p].kind, task[p].pc)
      /\ p = Main => task[p].kind = "startup" /\ task[p].pc \in {"list", "activate"}
  <2>1. p = Main => task[p].pc \in {"list", "activate"}
    BY <1>1, MainStages DEF TaskStep
  <2> QED
    BY <1>1, <2>1, Stage DEF Roles, MainRole, AtEase
<1> USE DEF Now, Dirty, AfterDeactivate, AfterActivate
<1>4. CASE RegisterResolved(p)
  <2>1. PICK d \in TaskRecord :
           /\ Reloads(p, d)
           /\ d.pc = IF Of(task[p].file) = {} THEN AfterDeactivate(task[p].kind) ELSE "deactivate"
           /\ d.todo = Of(task[p].file) /\ d.kind = task[p].kind /\ d.file = task[p].file
           /\ d.touches = task[p].touches /\ d.held = task[p].held
    BY <1>0, <1>4, ResolvedTasks
  <2>2. task[p].kind = "register"
    BY <1>3, <1>4, Members DEF RegisterResolved, Doing
  <2>3. task'[p].pc \in {"list", "deactivate"} /\ task'[p].kind = "register"
    BY <2>1, <2>2 DEF Reloads
  <2>4. \A q \in Writers \ {p} : Stays(q)
    BY <2>1 DEF Reloads, Stays
  <2> QED
    BY <1>1, <1>2, <2>3, <2>4, QuietBy
<1>5. CASE DeregisterResolved(p)
  <2>1. PICK d \in TaskRecord :
           /\ Reloads(p, d)
           /\ \/ task[p].file \notin registered /\ d = Idle
              \/ task[p].file \in registered /\ SameBut(task[p], d, "snapshot")
                   /\ d.held = task[p].held
    BY <1>0, <1>5, RemovedTasks
  <2>2. task[p].kind = "deregister" /\ task[p].pc = "remove"
    BY <1>3, <1>5, Members DEF DeregisterResolved, Doing
  <2>3. \/ task'[p].pc = "snapshot" /\ task'[p].kind = "deregister"
        \/ task'[p].pc = "idle" /\ Snapshot' = Snapshot
    BY <1>5, <2>1, <2>2, RemovedNothing, IdleType DEF Reloads, SameBut
  <2>4. \A q \in Writers \ {p} : Stays(q)
    BY <2>1 DEF Reloads, Stays
  <2> QED
    BY <1>1, <1>2, <2>2, <2>3, <2>4, QuietBy
<1>6. CASE ListTriggers(p)
  <2>1. /\ Only(p) /\ task'[p].kind = task[p].kind
        /\ task'[p].pc \in {AfterActivate(task[p].kind), "activate"}
    BY <1>0, <1>6, ListTasks
  <2>2. Snapshot' = Snapshot /\ task[p].pc = "list"
    BY <1>6 DEF ListTriggers, registry, Snapshot
  <2> QED
    BY <1>1, <1>2, <2>1, <2>2, OnlyStays, QuietBy
<1>7. CASE ResumeGet(p)
  <2>1. /\ Only(p) /\ task'[p].kind = task[p].kind
        /\ task'[p].pc \in {AfterActivate(task[p].kind), "activate"}
    BY <1>0, <1>7, GetTasks
  <2>2. task[p].kind = "resume"
    BY <1>3, <1>7, Members DEF ResumeGet, Doing
  <2> QED
    BY <1>1, <1>2, <2>1, <2>2, OnlyStays, QuietBy
<1>8. CASE MarkError(p)
  <2>1. /\ Only(p) /\ task'[p].kind = task[p].kind
        /\ task'[p].pc \in {AfterDeactivate(task[p].kind), "deactivate", "snapshot"}
    BY <1>0, <1>8, MarkTasks
  <2>2. task[p].kind = "error"
    BY <1>3, <1>8, Members DEF MarkError, Doing
  <2> QED
    BY <1>1, <1>2, <2>1, <2>2, OnlyStays, QuietBy
<1>9. CASE DeactivateNext(p)
  <2>1. /\ Only(p) /\ task'[p].kind = task[p].kind
        /\ task'[p].pc \in {AfterDeactivate(task[p].kind), "deactivate"}
    BY <1>0, <1>9, DeactivateTasks
  <2>2. task[p].kind \in {"register", "deregister", "suspend", "uninstall", "error"}
    BY <1>3, <1>9, Members DEF DeactivateNext, Doing
  <2>3. Snapshot' = Snapshot /\ task[p].pc = "deactivate"
    BY <1>9 DEF DeactivateNext, registry, Snapshot
  <2> QED
    BY <1>1, <1>2, <2>1, <2>2, <2>3, OnlyStays, QuietBy
<1>10. CASE ActivateNext(p)
  <2>1. /\ Only(p) /\ task'[p].kind = task[p].kind
        /\ task'[p].pc \in {AfterActivate(task[p].kind), "activate"}
    BY <1>0, <1>10, ActivateTasks
  <2>2. Snapshot' = Snapshot /\ task[p].pc = "activate"
    BY <1>10 DEF ActivateNext, registry, Snapshot
  <2> QED
    BY <1>1, <1>2, <2>1, <2>2, OnlyStays, QuietBy
<1> QED
  BY <1>4, <1>5, <1>6, <1>7, <1>8, <1>9, <1>10

\* Every other step belongs to a save, to the recovery or to a crash.
LEMMA StepKinds ==
  ASSUME TypeInv, Roles, [Next]_vars
  PROVE  \/ Quiet
         \/ \E p \in Writers : TakeSnapshot(p) \/ WriteSnapshot(p) \/ Saved(p)
         \/ Boot \/ RemoveTemps \/ Die
<1>0. TaskType
  BY DEF TypeInv, Types
<1>1. ASSUME UNCHANGED <<fileVars, life, task, registered, status>> PROVE Quiet
  BY <1>1 DEF Quiet, Loaded, Unsaved, Dirty, Snapshot
<1>2. CASE LoadState
  BY <1>2 DEF LoadState, Quiet, Loaded
<1>3. CASE ScanAppFolder
  <2>1. Only(Main) /\ Now(Main, "snapshot", "startup", {}, {}, {})
    BY <1>0, <1>3, ScanTasks
  <2>2. \A p \in Writers : task[p].pc = "idle"
    BY <1>3, RestTasks DEF ScanAppFolder
  <2>3. Dirty(Main)'
    BY <2>1 DEF Now, Dirty
  <2> QED
    BY <1>3, <2>1, <2>2, <2>3, Members DEF Only, Now, Quiet, Unsaved, ScanAppFolder
<1>4. CASE Serve
  <2>1. Only(Main) /\ task'[Main] = Idle
    BY <1>0, <1>4, ServeTasks
  <2>2. task[Main].pc = "serve" /\ task'[Main].pc = "idle" /\ life = "start" /\ life' = "up"
    BY <1>4, <2>1, IdleType DEF Serve, Roles, MainRole, AtEase
  <2>3. Unsaved => Unsaved'
    BY <2>1, <2>2 DEF Only, Unsaved, Dirty
  <2> QED
    BY <1>4, <2>1, <2>2, <2>3 DEF Only, Quiet, Serve, registry, Snapshot, Loaded
<1>5. CASE SrvStop
  <2>1. Only(Main) /\ Now(Main, "snapshot", "shutdown", {}, {}, {})
    BY <1>0, <1>5, StopTasks
  <2>2. task[Main].pc # "save" /\ life = "stopping" /\ life' = "stopped"
    BY <1>5 DEF SrvStop, Roles, MainRole, AtEase
  <2>3. Dirty(Main)'
    BY <2>1 DEF Now, Dirty
  <2> QED
    BY <1>5, <2>1, <2>2, <2>3, Members DEF Only, Now, Quiet, Unsaved, SrvStop
<1>6. CASE StopAll
  BY <1>6 DEF StopAll, Quiet, Loaded, Unsaved, Dirty, registry, Snapshot
<1>7. ASSUME NEW f \in Files, EditRecurfile(f) PROVE Quiet
  BY <1>1, <1>7 DEF EditRecurfile, registry
<1>8. CASE UNCHANGED vars
  BY <1>1, <1>8 DEF vars, registry
<1>9. CASE MainStep
  BY <1>2, <1>3, <1>4, <1>5, <1>9 DEF MainStep, Exit
<1>10. CASE Crash
  BY <1>10 DEF Crash
<1>11. ASSUME NEW p \in Handlers, Request(p) \/ Callback(p) PROVE Quiet
  BY <1>11, BeginQuiet
<1>12. ASSUME NEW p \in Writers, TaskStep(p)
       PROVE  Quiet \/ TakeSnapshot(p) \/ WriteSnapshot(p) \/ Saved(p)
  BY <1>12, WorkQuiet DEF TaskStep
<1> QED
  BY <1>6, <1>7, <1>8, <1>9, <1>10, <1>11, <1>12 DEF Next

\* A save that has been alone since it began: where its temporary file is.
Alone(w) ==
  /\ Saving = {w}
  /\ save[w].pc = "open" => (~doubtful => DOMAIN tmp = {})
  /\ save[w].pc \in {"write", "rename"} =>
       /\ save[w].stamp \in DOMAIN tmp
       /\ ~doubtful => DOMAIN tmp = {save[w].stamp}
  /\ save[w].pc = "write" => save[w].inode = tmp[save[w].stamp] /\ data[save[w].inode] = Torn
  /\ save[w].pc = "rename" => data[tmp[save[w].stamp]] = save[w].snapshot
  /\ Unsaved \/ save[w].snapshot = Snapshot

\* The files while nothing is doubtful.
Clean ==
  /\ \A w \in Saving : save[w].alone
  /\ Saving = {} /\ life # "down" => DOMAIN tmp = {}
  /\ Saving = {} /\ Loaded => Unsaved \/ Load = Snapshot
  /\ \A r, s \in DOMAIN tmp : r = s

\* The inductive invariant of the files.
FileInv ==
  /\ SaveTasks /\ Names
  /\ \A w \in Saving : save[w].alone => Alone(w)
  /\ ~doubtful => Clean

\* It holds initially ...
LEMMA FileInvInit == Init => FileInv
<1> SUFFICES ASSUME Init PROVE FileInv
  OBVIOUS
<1>1. tmp = <<>> /\ life = "down" /\ \A w \in Writers : save[w].pc = "none" /\ task[w].pc = "idle"
  BY IdleType DEF Init, FileInit, NotSaving
<1>2. DOMAIN tmp = {} /\ Range(tmp) = {} /\ Saving = {}
  BY <1>1 DEF Range, Saving
<1> QED
  BY <1>1, <1>2 DEF FileInv, SaveTasks, Names, Clean, Loaded

\* ... and is kept by each kind of step: those that leave the files alone, ...
LEMMA QuietFile ==
  ASSUME FileInv, TypeInv', Quiet
  PROVE  FileInv'
<1>0. UNCHANGED <<canonical, tmp, data, save, doubtful>> /\ (life' = "down" <=> life = "down")
  BY DEF Quiet, fileVars
<1>1. SaveTasks' /\ Names' /\ Saving' = Saving /\ Load' = Load
  BY <1>0 DEF Quiet, FileInv, SaveTasks, Names, Saving, Load
<1>2. ASSUME NEW w \in Saving, save[w].alone PROVE Alone(w)'
  <2>1. Alone(w)
    BY <1>2 DEF FileInv
  <2>2. task'[w].pc = "save" /\ w \in Writers
    BY <1>0, <1>1 DEF SaveTasks, Saving
  <2>3. Loaded'
    BY <2>2, IdleType DEF TypeInv, Types, OtherType, AtRest, Loaded
  <2>4. Unsaved' \/ save[w].snapshot = Snapshot'
    BY <2>1, <2>3 DEF Alone, Quiet
  <2> QED
    BY <1>0, <1>1, <2>1, <2>4 DEF Alone
<1>3. ~doubtful' => Clean'
  BY <1>0, <1>1 DEF FileInv, Clean, Quiet
<1> QED
  BY <1>0, <1>1, <1>2, <1>3 DEF FileInv

\* ... the snapshot: a save begins, alone or with others, ...
LEMMA SnapshotFile ==
  ASSUME TypeInv, FileInv, NEW p \in Writers, TakeSnapshot(p)
  PROVE  FileInv'
<1>0. FileType /\ TaskType /\ Loaded /\ life' = life
  BY WorkLoaded DEF TypeInv, Types, TakeSnapshot
<1>1. /\ UNCHANGED <<canonical, tmp, data, registered, status>> /\ Snapshot' = Snapshot
      /\ doubtful' = (doubtful \/ Saving # {})
  BY DEF TakeSnapshot, SaveBegin, registry, Snapshot
<1>2. /\ save'[p].pc = "open" /\ save'[p].snapshot = Snapshot /\ (save'[p].alone <=> Saving = {})
      /\ \A v \in Writers \ {p} : save'[v].pc = save[v].pc /\ ~save'[v].alone
  <2>1. save' = [v \in Writers |->
                   IF v = p THEN [NotSaving EXCEPT !.pc = "open", !.snapshot = Snapshot,
                                                   !.alone = Saving = {}]
                   ELSE [save[v] EXCEPT !.alone = FALSE]]
    BY DEF TakeSnapshot, SaveBegin
  <2>2. \A v \in Writers \ {p} : save'[v].pc = save[v].pc /\ save'[v].alone = FALSE
    BY <1>0, <2>1 DEF FileType, SaveRecord
  <2>3. save'[p] = [NotSaving EXCEPT !.pc = "open", !.snapshot = Snapshot, !.alone = Saving = {}]
    BY <2>1
  <2>4. save'[p].pc = "open" /\ save'[p].snapshot = Snapshot /\ save'[p].alone = (Saving = {})
    BY <2>3 DEF NotSaving
  <2> QED
    BY <2>2, <2>4
<1>3. Only(p) /\ task'[p].pc = "save"
  BY <1>0, SnapshotTasks DEF Now
<1>4. SaveTasks' /\ Names'
  BY <1>1, <1>2, <1>3 DEF FileInv, SaveTasks, Names, Only
<1>5. Saving' = Saving \union {p} /\ p \notin Saving
  BY <1>2 DEF Saving, TakeSnapshot, SaveBegin
<1>6. ASSUME NEW w \in Saving', save'[w].alone PROVE Alone(w)'
  <2>1. w = p /\ Saving = {}
    BY <1>2, <1>6 DEF Saving
  <2>2. ~doubtful => DOMAIN tmp = {}
    BY <1>0, <2>1 DEF FileInv, Clean, Loaded
  <2>3. Saving' = {p}
    BY <1>5, <2>1
  <2> QED
    BY <1>1, <1>2, <2>1, <2>2, <2>3 DEF Alone
<1>7. ASSUME ~doubtful' PROVE Clean'
  <2>1. ~doubtful /\ Saving = {} /\ Clean /\ Saving' = {p}
    BY <1>1, <1>5, <1>7 DEF FileInv
  <2> QED
    BY <1>1, <1>2, <2>1 DEF Clean
<1> QED
  BY <1>4, <1>6, <1>7 DEF FileInv

\* Whoever saves with others is not alone, and neither are they.
LEMMA OnlyAlone ==
  ASSUME FileInv, NEW w \in Saving, NEW v \in Saving, save[v].alone
  PROVE  v = w
  BY DEF FileInv, Alone

\* A step of the save of p that changes nothing of the registry and the tasks.
LEMMA OpenFile ==
  ASSUME TypeInv, FileInv, NEW p \in Writers, WriteSnapshot(p), OpenTemp(p)
  PROVE  FileInv'
<1>0. FileType /\ UNCHANGED <<task, life, registered, status, canonical, doubtful>>
  BY DEF TypeInv, Types, WriteSnapshot, OpenTemp, registry
<1>1. PICK stamp \in 1..MaxStamp, inode \in Inodes : OpenedAs(p, stamp, inode)
  BY <1>0, OpenTempIs
<1>2. /\ save'[p].pc = "write" /\ save'[p].stamp = stamp /\ save'[p].inode = inode
      /\ save'[p].alone = save[p].alone /\ save'[p].snapshot = save[p].snapshot
      /\ \A v \in Writers \ {p} : save'[v] = save[v]
  BY <1>0, <1>1 DEF OpenedAs, FileType, SaveRecord
<1>3. /\ DOMAIN tmp' = DOMAIN tmp \union {stamp} /\ tmp'[stamp] = inode
      /\ \A s \in DOMAIN tmp : tmp'[s] = tmp[s]
  BY <1>1 DEF OpenedAs
<1>4. data'[inode] = Torn
  BY <1>0, <1>1 DEF OpenedAs, FileType
<1>5. Saving' = Saving /\ p \in Saving /\ save[p].pc = "open"
  BY <1>2 DEF Saving, OpenTemp
<1>6. SaveTasks'
  BY <1>0, <1>2, <1>5 DEF FileInv, SaveTasks, Saving
<1>7. Names'
  <2>1. CASE stamp \in DOMAIN tmp
    <3>1. DOMAIN tmp' = DOMAIN tmp /\ \A s \in DOMAIN tmp : tmp'[s] = tmp[s]
      BY <1>3, <2>1
    <3> QED
      BY <1>0, <3>1 DEF FileInv, Names, Range
  <2>2. CASE stamp \notin DOMAIN tmp
    <3>1. inode # canonical /\ inode \notin Range(tmp)
      BY <1>1, <2>2 DEF OpenedAs, Unused
    <3>2. canonical \notin Range(tmp')
      BY <1>3, <3>1 DEF Range, FileInv, Names
    <3>3. \A r, s \in DOMAIN tmp' : tmp'[r] = tmp'[s] => r = s
      BY <1>3, <3>1 DEF Range, FileInv, Names
    <3> QED
      BY <1>0, <3>2, <3>3 DEF Names
  <2> QED
    BY <2>1, <2>2
<1>8. Unsaved' <=> Unsaved
  BY <1>0 DEF Unsaved, Dirty
<1>9. Snapshot' = Snapshot
  BY <1>0 DEF Snapshot
<1>10. ASSUME NEW w \in Saving', save'[w].alone PROVE Alone(w)'
  <2>1. w = p /\ save[p].alone
    BY <1>2, <1>5, <1>10, OnlyAlone DEF Saving
  <2>2. Alone(p)
    BY <1>5, <2>1 DEF FileInv
  <2>3. ~doubtful => DOMAIN tmp' = {stamp}
    BY <1>3, <1>5, <2>2 DEF Alone
  <2> QED
    BY <1>0, <1>2, <1>3, <1>4, <1>5, <1>8, <1>9, <2>1, <2>2, <2>3 DEF Alone
<1>11. ASSUME ~doubtful' PROVE Clean'
  <2>1. ~doubtful /\ Clean /\ Alone(p)
    BY <1>0, <1>5, <1>11 DEF FileInv, Clean
  <2>2. DOMAIN tmp' = {stamp}
    BY <1>3, <1>5, <2>1 DEF Alone
  <2>3. \A w \in Saving' : save'[w].alone
    BY <1>2, <1>5, <2>1 DEF Clean, Saving
  <2> QED
    BY <1>5, <2>2, <2>3 DEF Clean
<1> QED
  BY <1>6, <1>7, <1>10, <1>11 DEF FileInv

\* ... the last byte of a temporary file, ...
LEMMA WriteFile ==
  ASSUME TypeInv, FileInv, NEW p \in Writers, WriteSnapshot(p), WriteTemp(p)
  PROVE  FileInv'
<1>0. FileType /\ UNCHANGED <<task, life, registered, status, canonical, tmp, doubtful>>
  BY DEF TypeInv, Types, WriteSnapshot, WriteTemp, registry
<1>1. /\ save'[p].pc = "rename" /\ save'[p].stamp = save[p].stamp
      /\ save'[p].alone = save[p].alone /\ save'[p].snapshot = save[p].snapshot
      /\ \A v \in Writers \ {p} : save'[v] = save[v]
  BY <1>0 DEF WriteTemp, FileType, SaveRecord
<1>2. data' = [data EXCEPT ![save[p].inode] = save[p].snapshot]
  BY DEF WriteTemp
<1>3. Saving' = Saving /\ p \in Saving /\ save[p].pc = "write"
  BY <1>1 DEF Saving, WriteTemp
<1>4. SaveTasks' /\ Names'
  BY <1>0, <1>1, <1>3 DEF FileInv, SaveTasks, Saving, Names
<1>5. Unsaved' <=> Unsaved
  BY <1>0 DEF Unsaved, Dirty
<1>6. Snapshot' = Snapshot
  BY <1>0 DEF Snapshot
<1>7. ASSUME NEW w \in Saving', save'[w].alone PROVE Alone(w)'
  <2>1. w = p /\ save[p].alone
    BY <1>1, <1>3, <1>7, OnlyAlone DEF Saving
  <2>2. Alone(p)
    BY <1>3, <2>1 DEF FileInv
  <2>3. data'[tmp[save[p].stamp]] = save[p].snapshot
    BY <1>0, <1>2, <1>3, <2>2 DEF Alone, FileType, Range
  <2> QED
    BY <1>0, <1>1, <1>3, <1>5, <1>6, <2>1, <2>2, <2>3 DEF Alone
<1>8. ASSUME ~doubtful' PROVE Clean'
  <2>1. Clean
    BY <1>0, <1>8 DEF FileInv
  <2>2. \A w \in Saving' : save'[w].alone
    BY <1>1, <1>3, <2>1 DEF Clean, Saving
  <2> QED
    BY <1>0, <1>3, <2>1, <2>2 DEF Clean
<1> QED
  BY <1>4, <1>7, <1>8 DEF FileInv

\* The name of a temporary file goes.
LEMMA Unnamed ==
  ASSUME FileType, Names, NEW s, NEW S, S = DOMAIN tmp \ {s}
  PROVE  /\ DOMAIN Restrict(tmp, S) = S
         /\ \A r \in S : Restrict(tmp, S)[r] = tmp[r]
         /\ canonical \notin Range(Restrict(tmp, S))
         /\ s \in DOMAIN tmp => tmp[s] \notin Range(Restrict(tmp, S))
  BY DEF Restrict, Range, Names

\* If a save leaves no doubt, a restart would read what it has saved.
LEMMA SavedLoad ==
  ASSUME TypeInv, FileInv, NEW p \in Writers, Saved(p), ~doubtful'
  PROVE  save[p].alone /\ Alone(p) /\ DOMAIN tmp' = {} /\ Load' = save[p].snapshot
<1> DEFINE s == save[p].stamp
<1>0. FileType /\ p \in Saving
  BY DEF TypeInv, Types, Saved, RenameTemp, SaveFails, Saving
<1>1. RenameTemp(p)
  BY DEF Saved, SaveFails
<1>2. save[p].alone
  BY <1>0, <1>1 DEF RenameTemp, FileInv, Clean
<1>3. Alone(p)
  BY <1>0, <1>2 DEF FileInv
<1>4. DOMAIN tmp = {s} /\ save[p].pc = "rename"
  BY <1>1, <1>2, <1>3 DEF RenameTemp, Alone
<1>5. DOMAIN tmp' = {}
  <2>1. tmp' = Restrict(tmp, DOMAIN tmp \ {s})
    BY <1>1 DEF RenameTemp
  <2>2. DOMAIN tmp' = DOMAIN tmp \ {s}
    BY <1>0, <2>1, Unnamed DEF FileInv
  <2> QED
    BY <1>4, <2>2
<1>6. Load' = save[p].snapshot
  <2>1. canonical' = tmp[s] /\ tmp[s] \in Inodes /\ tmp[s] # canonical
    BY <1>0, <1>1, <1>4 DEF RenameTemp, FileInv, Names, FileType, Range
  <2>2. data' = Freed({canonical})
    BY <1>1, <1>4 DEF RenameTemp
  <2>3. data'[tmp[s]] = data[tmp[s]]
    BY <2>1, <2>2 DEF Freed
  <2> QED
    BY <1>3, <1>4, <2>1, <2>3, FileBounds DEF Load, Alone
<1> QED
  BY <1>2, <1>3, <1>5, <1>6

\* ... the end of a save, ...
LEMMA SavedFile ==
  ASSUME TypeInv, FileInv, NEW p \in Writers, Saved(p)
  PROVE  FileInv'
<1>0. FileType /\ TaskType /\ UNCHANGED <<life, registered, status>>
  BY DEF TypeInv, Types, Saved, registry
<1>1. /\ save'[p].pc = "none" /\ \A v \in Writers \ {p} : save'[v] = save[v]
  BY <1>0, NotSavingType DEF Saved, RenameTemp, SaveFails, FileType
<1>2. Only(p) /\ task'[p].pc # "save"
  BY <1>0, SavedTasks, IdleType DEF Now
<1>3. SaveTasks'
  BY <1>1, <1>2 DEF FileInv, SaveTasks, Only
<1>4. Saving' = Saving \ {p} /\ p \in Saving
  BY <1>1 DEF Saving, Saved, RenameTemp, SaveFails
<1>5. \A w \in Saving' : ~save'[w].alone
  BY <1>1, <1>4, OnlyAlone DEF Saving
<1> DEFINE s == save[p].stamp
<1>6. Names'
  <2>1. CASE tmp' = tmp /\ canonical' = canonical
    BY <2>1 DEF FileInv, Names
  <2>2. CASE /\ tmp' = Restrict(tmp, DOMAIN tmp \ {s})
             /\ canonical' = IF s \in DOMAIN tmp THEN tmp[s] ELSE canonical
    <3>1. canonical' \notin Range(tmp')
      BY <1>0, <2>2, Unnamed DEF FileInv
    <3>2. DOMAIN tmp' \subseteq DOMAIN tmp /\ \A r \in DOMAIN tmp' : tmp'[r] = tmp[r]
      BY <1>0, <2>2, Unnamed, SMTT(30) DEF FileInv
    <3> QED
      BY <3>1, <3>2 DEF FileInv, Names
  <2>3. CASE tmp' = Restrict(tmp, DOMAIN tmp \ {s}) /\ canonical' = canonical
    <3>1. canonical' \notin Range(tmp')
      BY <1>0, <2>3, Unnamed DEF FileInv
    <3>2. DOMAIN tmp' \subseteq DOMAIN tmp /\ \A r \in DOMAIN tmp' : tmp'[r] = tmp[r]
      BY <1>0, <2>3, Unnamed DEF FileInv
    <3> QED
      BY <3>1, <3>2 DEF FileInv, Names
  <2> QED
    BY <2>1, <2>2, <2>3 DEF Saved, RenameTemp, SaveFails
<1>7. ASSUME ~doubtful' PROVE Clean'
  <2>1. save[p].alone /\ Alone(p) /\ DOMAIN tmp' = {} /\ Load' = save[p].snapshot
    BY <1>7, SavedLoad
  <2>3. Saving' = {}
    BY <1>4, <2>1 DEF Alone
  <2>6. Unsaved' \/ save[p].snapshot = Snapshot'
    <3>1. Unsaved => Unsaved'
      BY <1>2 DEF Unsaved, Dirty, Only, Saved
    <3>2. Snapshot' = Snapshot
      BY <1>0 DEF Snapshot
    <3> QED
      BY <2>1, <3>1, <3>2 DEF Alone
  <2> QED
    BY <2>1, <2>3, <2>6 DEF Clean
<1> QED
  BY <1>3, <1>5, <1>6, <1>7 DEF FileInv

\* Nobody saves before the daemon has loaded its state.
LEMMA RestSaving ==
  ASSUME TypeInv, SaveTasks, life \in {"down", "clean", "load", "scan"}
  PROVE  Saving = {}
  BY RestTasks DEF SaveTasks, Saving

\* ... the recovery and a crash.
LEMMA BootFile ==
  ASSUME TypeInv, FileInv, Boot
  PROVE  FileInv'
<1>0. FileType /\ UNCHANGED <<task, save, doubtful>> /\ life' = "clean"
  BY DEF TypeInv, Types, Boot, Promote
<1>1. Saving = {} /\ Saving' = {} /\ SaveTasks'
  BY <1>0, RestSaving DEF Boot, FileInv, SaveTasks, Saving
<1>2. CASE DOMAIN tmp = {}
  <2>1. UNCHANGED <<canonical, tmp>>
    BY <1>2 DEF Boot, Promote
  <2> QED
    BY <1>0, <1>1, <1>2, <2>1 DEF FileInv, Names, Clean, Loaded
<1>3. CASE DOMAIN tmp # {}
  <2>1. Newest \in DOMAIN tmp
    BY <1>0, <1>3, StampType
  <2>2. canonical' = tmp[Newest] /\ tmp' = Restrict(tmp, DOMAIN tmp \ {Newest})
    BY <1>3 DEF Boot, Promote
  <2>3. /\ DOMAIN tmp' = DOMAIN tmp \ {Newest} /\ canonical' \notin Range(tmp')
        /\ \A r \in DOMAIN tmp' : tmp'[r] = tmp[r]
    <3> PICK n \in DOMAIN tmp : n = Newest
      BY <2>1
    <3> QED
      BY <1>0, <2>2, Unnamed DEF FileInv
  <2>4. Names'
    BY <2>3 DEF FileInv, Names
  <2>5. ~doubtful' => DOMAIN tmp' = {}
    BY <1>0, <2>1, <2>3 DEF FileInv, Clean
  <2> QED
    BY <1>0, <1>1, <2>4, <2>5 DEF FileInv, Clean, Loaded
<1> QED
  BY <1>2, <1>3

LEMMA CleanUpFile ==
  ASSUME TypeInv, FileInv, RemoveTemps
  PROVE  FileInv'
<1>0. UNCHANGED <<task, save, doubtful, canonical>> /\ life' = "load"
  BY DEF RemoveTemps, CleanUp
<1>1. Saving = {} /\ Saving' = {} /\ SaveTasks'
  BY <1>0, RestSaving DEF RemoveTemps, FileInv, SaveTasks, Saving
<1>2. DOMAIN tmp' = {} /\ Range(tmp') = {}
  BY DEF RemoveTemps, CleanUp, Range
<1> QED
  BY <1>0, <1>1, <1>2 DEF FileInv, Names, Clean, Loaded

LEMMA DieFile ==
  ASSUME FileInv, Die
  PROVE  FileInv'
<1>1. UNCHANGED <<tmp, canonical>> /\ life' = "down" /\ (~doubtful' => ~doubtful)
  BY DEF Die, FileCrash
<1>2. Saving' = {} /\ SaveTasks'
  BY DieTasks, IdleType DEF Die, FileCrash, NotSaving, Saving, SaveTasks
<1> QED
  BY <1>1, <1>2 DEF FileInv, Names, Clean, Loaded

\* The invariant is kept by every step.
LEMMA FileInvStep ==
  ASSUME TypeInv, TypeInv', Roles, FileInv, [Next]_vars
  PROVE  FileInv'
<1>1. ASSUME NEW p \in Writers, WriteSnapshot(p) PROVE FileInv'
  BY <1>1, OpenFile, WriteFile DEF WriteSnapshot, SaveStep
<1> QED
  BY <1>1, StepKinds, QuietFile, SnapshotFile, SavedFile, BootFile, CleanUpFile, DieFile

\* When nobody is at work and no save is in doubt, a restart would read the registry as it
\* is: every change is followed by a snapshot that has it, and of saves that do not overlap
\* the last one is the file.
THEOREM FileAlwaysFollows == Spec => []FileFollowsRegistry
<1> DEFINE Inv == TypeInv /\ Roles /\ FileInv
<1>1. Init => Inv
  BY TypeInit, RolesInit, FileInvInit
<1>2. Inv /\ [Next]_vars => Inv'
  <2> SUFFICES ASSUME TypeInv, Roles, FileInv, [Next]_vars PROVE Inv'
    OBVIOUS
  <2>1. TypeInv' /\ Roles'
    BY TypeStep, RolesStep
  <2> QED
    BY <2>1, FileInvStep
<1>3. Inv => FileFollowsRegistry
  <2> SUFFICES ASSUME SaveTasks, FileInv, Quiescent, ~doubtful PROVE RestartReads = Snapshot
    BY DEF FileFollowsRegistry, FileInv
  <2>1. Saving = {} /\ ~Unsaved
    BY DEF Quiescent, Busy, SaveTasks, Saving, Unsaved, Dirty
  <2>2. Clean /\ Loaded /\ life # "down"
    BY DEF FileInv, Quiescent, Loaded
  <2> QED
    BY <2>1, <2>2 DEF Clean, RestartReads
<1>4. Spec => []Inv
  <2> HIDE DEF Inv
  <2> QED
    BY <1>1, <1>2, PTL DEF Spec
<1> QED
  BY <1>3, <1>4, PTL

-----------------------------------------------------------------------------
(* Suspensions that were acknowledged. *)

\* The registry has the trigger, and not as active.
Asleep(t) == status[t] \in {"suspended", "error"}

\* A snapshot that brings the trigger back as it is: suspended, in its recurfile.
Kept(s, t) ==
  s \notin {Torn, NoFile} /\ FileOf[t] \in s.files /\ s.status[t] \in {"suspended", "error"}

\* What keeps an acknowledged suspension: the registry, whoever works on the trigger, the save
\* in progress, and the files that a restart may find.
Remembered(t) ==
  /\ life \notin {"down", "clean", "load"} => Asleep(t)
  /\ \A p \in Handlers : t \in task[p].touches => task[p].kind \in {"suspend", "uninstall", "error"}
  /\ \A w \in Saving : save[w].alone => Kept(save[w].snapshot, t)
  /\ ~doubtful =>
       /\ DOMAIN tmp = {} => Kept(Load, t)
       /\ life = "down" => \A s \in DOMAIN tmp : Kept(data[tmp[s]], t)

\* A suspension in progress that nobody else interferes with.
Suspends(p) ==
  \A t \in task[p].touches \ excused :
    /\ Asleep(t)
    /\ Touching(t) = {p}
    /\ save[p].pc # "none" => Kept(save[p].snapshot, t)

\* Before loadState the registry is empty.
Unread == life \in {"down", "clean", "load"} => \A t \in Triggers : status[t] = "none"

\* The inductive invariant of suspensions.
SuspendInv ==
  /\ \A p \in Handlers : task[p].kind = "suspend" => Suspends(p)
  /\ ~lossy => \A t \in acknowledged : Remembered(t)
  /\ Unread

\* Initially nothing is suspended.
LEMMA SuspendInit == Init => SuspendInv
<1> SUFFICES ASSUME Init PROVE SuspendInv
  OBVIOUS
<1>1. acknowledged = {} /\ \A p \in Handlers : task[p].kind = "none"
  BY IdleType, Members DEF Init
<1> QED
  BY <1>1 DEF SuspendInv, Unread, Init, NoTrigger

\* A snapshot keeps what is asleep.
LEMMA AsleepKept ==
  ASSUME RegistryType, NEW t \in Triggers, Asleep(t)
  PROVE  Kept(Snapshot, t)
<1>1. Snapshot \notin {Torn, NoFile}
  BY SnapshotType, SnapshotAssumption
<1>2. FileOf[t] \in registered
  BY DEF RegistryType, Known, Asleep
<1> QED
  BY <1>1, <1>2 DEF Kept, Asleep, Snapshot

\* What wakes a trigger.
LEMMA AsleepStep ==
  ASSUME TypeInv, Roles, [Next]_vars, NEW t \in Triggers, Asleep(t)
  PROVE  \/ Asleep(t)' \/ LoadState \/ life' = "down"
         \/ \E p \in Handlers : ResumeTrigger(p, t)
         \/ \E p \in Handlers : t \in task[p].touches /\ task[p].kind \in {"register", "deregister"}
<1>0. RegistryType /\ TaskType
  BY DEF TypeInv, Types
<1>1. ASSUME status'[t] = status[t] PROVE Asleep(t)'
  BY <1>1 DEF Asleep
<1>2. ASSUME NEW p \in Handlers, Request(p) \/ Callback(p)
      PROVE  Asleep(t)' \/ ResumeTrigger(p, t)
  <2>1. ASSUME NEW f \in Files, RegisterRecurfile(p, f) \/ DeregisterRecurfile(p, f) PROVE Asleep(t)'
    BY <1>1, <2>1 DEF RegisterRecurfile, DeregisterRecurfile, registry
  <2>2. ASSUME NEW u \in Triggers, SuspendTrigger(p, u) PROVE Asleep(t)'
    BY <1>0, <2>2 DEF SuspendTrigger, RegistryType, Asleep
  <2>3. ASSUME NEW u \in Triggers, ResumeTrigger(p, u), u # t PROVE Asleep(t)'
    BY <1>0, <1>1, <2>3 DEF ResumeTrigger, RegistryType
  <2>4. CASE UninstallPlugin(p)
    BY <2>4 DEF UninstallPlugin, Asleep
  <2>5. CASE Callback(p)
    BY <1>1, <2>5 DEF Callback, OnFired, OnTriggerError, registry
  <2> QED
    BY <1>2, <2>1, <2>2, <2>3, <2>4, <2>5 DEF Request
<1>3. ASSUME NEW p \in Writers, TaskStep(p)
      PROVE  \/ Asleep(t)'
             \/ p \in Handlers /\ t \in task[p].touches /\ task[p].kind \in {"register", "deregister"}
  <2>1. CASE RegisterResolved(p) \/ DeregisterResolved(p)
    <3>1. task[p].pc \in {"register", "remove"}
      BY <2>1 DEF RegisterResolved, DeregisterResolved
    <3>2. p \in Handlers
      BY <1>3, <3>1, MainStages, Members
    <3>3. task[p].kind \in {"register", "deregister"} /\ task[p].touches = TriggersOf(task[p].file)
      BY <3>1, <3>2, Stage DEF Doing
    <3>4. FileOf[t] # task[p].file => status'[t] = status[t]
      BY <2>1 DEF RegisterResolved, DeregisterResolved, Registered
    <3> QED
      BY <1>1, <3>2, <3>3, <3>4 DEF TriggersOf
  <2>2. CASE MarkError(p)
    BY <2>2 DEF MarkError, Asleep
  <2>3. CASE ~(RegisterResolved(p) \/ DeregisterResolved(p) \/ MarkError(p))
    BY <1>1, <1>3, <2>3 DEF TaskStep, ListTriggers, ResumeGet, DeactivateNext, ActivateNext,
       TakeSnapshot, WriteSnapshot, Saved, registry
  <2> QED
    BY <2>1, <2>2, <2>3
<1>4. CASE MainStep
  <2>1. CASE ScanAppFolder
    <3>1. FileOf[t] \in registered
      BY <1>0 DEF RegistryType, Known, Asleep
    <3> QED
      BY <1>1, <2>1, <3>1 DEF ScanAppFolder
  <2>2. CASE LoadState \/ Exit
    BY <2>2 DEF LoadState, Exit, Die
  <2>3. CASE Boot \/ RemoveTemps \/ Serve \/ SrvStop
    BY <1>1, <2>3 DEF Boot, RemoveTemps, Serve, SrvStop, registry
  <2> QED
    BY <1>4, <2>1, <2>2, <2>3 DEF MainStep
<1>5. CASE StopAll \/ Crash \/ \E f \in Files : EditRecurfile(f)
  BY <1>1, <1>5 DEF StopAll, Crash, Die, EditRecurfile, registry
<1>6. CASE UNCHANGED vars
  BY <1>1, <1>6 DEF vars, registry
<1> QED
  BY <1>2, <1>3, <1>4, <1>5, <1>6 DEF Next

\* Who works on a trigger after a step, did so before or begins now.
LEMMA TouchStep ==
  ASSUME TypeInv, Roles, [Next]_vars, NEW p \in Handlers, NEW t \in task'[p].touches
  PROVE  \/ t \in task[p].touches /\ task'[p].kind = task[p].kind
         \/ /\ (Request(p) \/ Callback(p)) /\ Only(p) /\ Begin(p, task'[p].kind, task'[p].touches)
            /\ task'[p].kind \in {"register", "deregister", "suspend", "resume", "uninstall", "error"}
<1>0. TaskType /\ OtherType
  BY DEF TypeInv, Types
<1>1. ASSUME task'[p] = task[p] PROVE t \in task[p].touches /\ task'[p].kind = task[p].kind
  BY <1>1
<1>2. ASSUME NEW q \in Writers \ {p}, Only(q) PROVE task'[p] = task[p]
  BY <1>2, Members DEF Only
<1> DEFINE Began(q) ==
      /\ Only(q)
      /\ task'[q].touches # {} =>
           /\ Begin(q, task'[q].kind, task'[q].touches)
           /\ task'[q].kind \in {"register", "deregister", "suspend", "resume", "uninstall", "error"}
<1>3. ASSUME NEW q \in Handlers, Request(q) \/ Callback(q) PROVE Began(q)
  <2>0. q \in Writers
    BY Members
  <2>1. ASSUME NEW f \in Files, RegisterRecurfile(q, f) PROVE Began(q)
    BY <1>0, <2>0, <2>1, RegisterTasks DEF Now, RegisterRecurfile
  <2>2. ASSUME NEW f \in Files, DeregisterRecurfile(q, f) PROVE Began(q)
    BY <1>0, <2>0, <2>2, DeregisterTasks DEF Now, DeregisterRecurfile
  <2>3. ASSUME NEW u \in Triggers, SuspendTrigger(q, u) PROVE Began(q)
    BY <1>0, <2>0, <2>3, SuspendTasks DEF Now, SuspendTrigger
  <2>4. ASSUME NEW u \in Triggers, ResumeTrigger(q, u) PROVE Began(q)
    BY <1>0, <2>0, <2>4, ResumeTasks DEF Now, ResumeTrigger
  <2>5. CASE UninstallPlugin(q)
    BY <1>0, <2>0, <2>5, IdleType, UninstallTasks DEF Now, UninstallPlugin
  <2>6. ASSUME NEW u \in Triggers, OnTriggerError(q, u) PROVE Began(q)
    BY <1>0, <2>0, <2>6, IdleType, ErrorTasks DEF Now, OnTriggerError
  <2>7. CASE OnFired(q)
    BY <1>0, <2>0, <2>7, FiredTasks DEF Now
  <2> QED
    BY <1>3, <2>1, <2>2, <2>3, <2>4, <2>5, <2>6, <2>7 DEF Request, Callback
<1>4. ASSUME NEW q \in Writers, TaskStep(q)
      PROVE  t \in task[p].touches /\ task'[p].kind = task[p].kind
  <2>1. CASE RegisterResolved(q)
    <3>1. \E d \in TaskRecord :
            Reloads(q, d) /\ d.touches = task[q].touches /\ d.kind = task[q].kind
      BY <1>0, <2>1, ResolvedTasks
    <3> QED
      BY <3>1, Members DEF Reloads, Now
  <2>2. CASE DeregisterResolved(q)
    <3>1. \E d \in TaskRecord :
            Reloads(q, d) /\ (d.touches = {} \/ (d.touches = task[q].touches /\ d.kind = task[q].kind))
      BY <1>0, <2>2, IdleType, RemovedTasks DEF SameBut
    <3> QED
      BY <3>1, Members DEF Reloads, Now
  <2>3. CASE ListTriggers(q) \/ ResumeGet(q)
    BY <1>0, <1>1, <1>2, <2>3, ListTasks, GetTasks DEF Now
  <2>4. CASE MarkError(q)
    BY <1>0, <1>1, <1>2, <2>4, MarkTasks DEF Now
  <2>5. CASE DeactivateNext(q) \/ ActivateNext(q)
    BY <1>0, <1>1, <1>2, <2>5, DeactivateTasks, ActivateTasks DEF Now
  <2>6. CASE TakeSnapshot(q)
    BY <1>0, <1>1, <1>2, <2>6, SnapshotTasks DEF Now
  <2>7. CASE WriteSnapshot(q)
    BY <1>1, <2>7 DEF WriteSnapshot
  <2>8. CASE Saved(q)
    BY <1>0, <1>1, <1>2, <2>8, IdleType, SavedTasks DEF Now
  <2> QED
    BY <1>4, <2>1, <2>2, <2>3, <2>4, <2>5, <2>6, <2>7, <2>8 DEF TaskStep
<1>5. ASSUME MainStep \/ StopAll \/ Crash \/ \E f \in Files : EditRecurfile(f)
      PROVE  task'[p] = task[p]
  <2>1. CASE Exit \/ Crash
    BY <2>1, DieTasks, IdleType, Members DEF Exit, Crash
  <2>2. CASE ScanAppFolder \/ SrvStop \/ Serve
    BY <1>0, <2>2, ScanTasks, StopTasks, ServeTasks, Members DEF Only
  <2>3. CASE Boot \/ RemoveTemps \/ LoadState \/ StopAll \/ \E f \in Files : EditRecurfile(f)
    BY <2>3 DEF Boot, RemoveTemps, LoadState, StopAll, EditRecurfile
  <2> QED
    BY <1>5, <2>1, <2>2, <2>3 DEF MainStep
<1>6. UNCHANGED vars => task' = task
  BY DEF vars
<1>7. ASSUME NEW q \in Handlers, Request(q) \/ Callback(q)
      PROVE  \/ t \in task[p].touches /\ task'[p].kind = task[p].kind
             \/ q = p /\ Began(p) /\ (Request(p) \/ Callback(p))
  BY <1>1, <1>2, <1>3, <1>7, Members
<1> QED
  BY <1>1, <1>4, <1>5, <1>6, <1>7 DEF Next

\* A save in progress keeps what it saves; a new one saves the registry.
LEMMA SaveStays ==
  ASSUME TypeInv, Roles, [Next]_vars, NEW w \in Writers, save'[w].pc # "none"
  PROVE  \/ /\ save[w].pc # "none" /\ save'[w].snapshot = save[w].snapshot
            /\ save'[w].alone => save[w].alone
         \/ TakeSnapshot(w) /\ save'[w].snapshot = Snapshot
<1>0. FileType
  BY DEF TypeInv, Types
<1>1. ASSUME NEW p \in Writers, TakeSnapshot(p)
      PROVE  \/ save[w].pc # "none" /\ save'[w].snapshot = save[w].snapshot /\ ~save'[w].alone
             \/ w = p /\ save'[w].snapshot = Snapshot
  <2>1. save' = [v \in Writers |->
                   IF v = p THEN [NotSaving EXCEPT !.pc = "open", !.snapshot = Snapshot,
                                                   !.alone = Saving = {}]
                   ELSE [save[v] EXCEPT !.alone = FALSE]]
    BY <1>1 DEF TakeSnapshot, SaveBegin
  <2>2. CASE w = p
    BY <2>1, <2>2 DEF NotSaving
  <2>3. CASE w # p
    <3>1. save'[w] = [save[w] EXCEPT !.alone = FALSE]
      BY <2>1, <2>3
    <3> QED
      BY <1>0, <3>1 DEF FileType, SaveRecord
  <2> QED
    BY <2>2, <2>3
<1>2. ASSUME NEW p \in Writers, WriteSnapshot(p)
      PROVE  /\ save[w].pc # "none" /\ save'[w].snapshot = save[w].snapshot
             /\ save'[w].alone = save[w].alone
  <2>1. CASE OpenTemp(p)
    <3>1. \E stamp \in 1..MaxStamp, inode \in Inodes : OpenedAs(p, stamp, inode)
      BY <1>0, <2>1, OpenTempIs
    <3> QED
      BY <1>0, <2>1, <3>1 DEF OpenTemp, OpenedAs, FileType, SaveRecord
  <2>2. CASE WriteTemp(p)
    BY <1>0, <2>2 DEF WriteTemp, FileType, SaveRecord
  <2> QED
    BY <1>2, <2>1, <2>2 DEF WriteSnapshot, SaveStep
<1>3. ASSUME NEW p \in Writers, Saved(p) PROVE save'[w] = save[w]
  BY <1>0, <1>3, NotSavingType DEF Saved, RenameTemp, SaveFails, FileType
<1>4. ASSUME Quiet \/ Boot \/ RemoveTemps PROVE save' = save
  BY <1>4 DEF Quiet, fileVars, Boot, Promote, RemoveTemps, CleanUp
<1>5. ~Die
  BY NotSavingType DEF Die, FileCrash
<1> QED
  BY <1>1, <1>2, <1>3, <1>4, <1>5, StepKinds

\* Only the end of a suspension acknowledges anything.
LEMMA Acknowledging ==
  ASSUME Roles, [Next]_vars, NEW t \in acknowledged', t \notin acknowledged
  PROVE  \E p \in Handlers : /\ Saved(p) /\ task[p].kind = "suspend"
                             /\ t \in task[p].touches \ excused
<1>1. ASSUME NEW p \in Handlers, Request(p) \/ Callback(p) PROVE acknowledged' \subseteq acknowledged
  BY <1>1 DEF Request, Callback, RegisterRecurfile, DeregisterRecurfile, SuspendTrigger,
     ResumeTrigger, UninstallPlugin, OnFired, OnTriggerError, Begin
<1>2. ASSUME NEW p \in Writers, TaskStep(p), ~Saved(p) PROVE acknowledged' = acknowledged
  BY <1>2 DEF TaskStep, RegisterResolved, ListTriggers, DeregisterResolved, ResumeGet, MarkError,
     DeactivateNext, ActivateNext, TakeSnapshot, WriteSnapshot, history
<1>3. ASSUME NEW p \in Writers, Saved(p)
      PROVE  /\ task[p].kind = "suspend" => p \in Handlers
             /\ t \in acknowledged' => task[p].kind = "suspend" /\ t \in task[p].touches \ excused
  BY <1>3, Members DEF Saved, Roles, MainRole, AtEase
<1>4. ASSUME MainStep \/ StopAll \/ Crash \/ \E f \in Files : EditRecurfile(f)
      PROVE  acknowledged' \subseteq acknowledged
  BY <1>4 DEF MainStep, Boot, RemoveTemps, LoadState, ScanAppFolder, Serve, SrvStop, Exit, Die,
     StopAll, Crash, EditRecurfile, history
<1>5. UNCHANGED vars => acknowledged' = acknowledged
  BY DEF vars, history
<1> QED
  BY <1>1, <1>2, <1>3, <1>4, <1>5 DEF Next

\* A request takes back what was acknowledged about its triggers, or leaves them asleep.
LEMMA TakenBack ==
  ASSUME NEW p, NEW kind, NEW ts, Begin(p, kind, ts),
         kind \in {"register", "resume", "deregister"}
  PROVE  acknowledged' \intersect ts = {}
  BY DEF Begin

\* Once doubtful, a file stays so until a save; a loaded doubtful file is not forgotten.
LEMMA LossyStep == [Next]_vars /\ ~lossy' => ~lossy
  BY DEF Next, vars, Request, Callback, RegisterRecurfile, DeregisterRecurfile, SuspendTrigger,
     ResumeTrigger, UninstallPlugin, OnFired, OnTriggerError, Begin, TaskStep, RegisterResolved,
     ListTriggers, DeregisterResolved, ResumeGet, MarkError, DeactivateNext, ActivateNext,
     TakeSnapshot, WriteSnapshot, Saved, MainStep, Boot, RemoveTemps, LoadState, ScanAppFolder,
     Serve, SrvStop, Exit, Die, StopAll, Crash, EditRecurfile, history

\* Excuses last as long as the process.
LEMMA ExcusedStep ==
  ASSUME TypeInv, TypeInv', [Next]_vars, NEW p \in Writers, task'[p].pc # "idle"
  PROVE  excused \subseteq excused' /\ ~Die
<1>1. ~Die
  BY DieTasks, IdleType
<1> QED
  BY <1>1 DEF Next, vars, Request, Callback, RegisterRecurfile, DeregisterRecurfile,
     SuspendTrigger, ResumeTrigger, UninstallPlugin, OnFired, OnTriggerError, Begin, TaskStep,
     RegisterResolved, ListTriggers, DeregisterResolved, ResumeGet, MarkError, DeactivateNext,
     ActivateNext, ActivateTrigger, TakeSnapshot, WriteSnapshot, Saved, MainStep, Boot,
     RemoveTemps, LoadState, ScanAppFolder, Serve, SrvStop, Exit, StopAll, Crash, EditRecurfile,
     history

\* A suspension begins with SuspendTrigger.
LEMMA SuspendBegins ==
  ASSUME TypeInv, NEW p \in Handlers, Request(p) \/ Callback(p), task'[p].kind = "suspend"
  PROVE  \E t \in Triggers : SuspendTrigger(p, t) /\ task'[p].touches = {t}
<1>0. TaskType /\ OtherType /\ p \in Writers
  BY Members DEF TypeInv, Types
<1>1. ASSUME NEW f \in Files PROVE ~RegisterRecurfile(p, f) /\ ~DeregisterRecurfile(p, f)
  BY <1>0, RegisterTasks, DeregisterTasks DEF Now
<1>2. ASSUME NEW t \in Triggers PROVE ~ResumeTrigger(p, t) /\ ~OnTriggerError(p, t)
  BY <1>0, ResumeTasks, ErrorTasks, IdleType DEF Now
<1>3. ~UninstallPlugin(p) /\ ~OnFired(p)
  BY <1>0, UninstallTasks, FiredTasks, IdleType DEF Now
<1>4. \A t \in Triggers : SuspendTrigger(p, t) => task'[p].touches = {t}
  BY <1>0, SuspendTasks DEF Now
<1> QED
  BY <1>1, <1>2, <1>3, <1>4 DEF Request, Callback

\* Nobody joins in the work on a trigger without an excuse.
LEMMA NobodyJoins ==
  ASSUME TypeInv, Roles, [Next]_vars, NEW p \in Handlers, NEW t \in Triggers, t \notin excused',
         Touching(t) = {p}, t \in task'[p].touches
  PROVE  Touching(t)' = {p}
<1>1. ASSUME NEW q \in Handlers, t \in task'[q].touches, q # p PROVE FALSE
  <2>1. q \notin Touching(t) /\ Touching(t) # {}
    BY <1>1
  <2>2. t \notin task[q].touches
    BY <2>1 DEF Touching
  <2>3. Begin(q, task'[q].kind, task'[q].touches)
    BY <1>1, <2>2, TouchStep
  <2>4. task'[q].touches \in SUBSET Triggers
    BY <1>1, <2>2, Members, TouchStep DEF Only, TaskType, TaskRecord
  <2>5. t \in excused' \/ Touching(t) = {}
    BY <1>1, <2>3, <2>4, Beginning
  <2> QED
    BY <2>1, <2>5
<1> QED
  BY <1>1 DEF Touching

\* A suspension that nobody interferes with goes on undisturbed.
LEMMA SuspendsStep ==
  ASSUME TypeInv, TypeInv', Roles, Roles', FileInv, SuspendInv, [Next]_vars,
         NEW p \in Handlers, task'[p].kind = "suspend"
  PROVE  Suspends(p)'
<1>0. p \in Writers /\ RegistryType /\ TaskType'
  BY Members DEF TypeInv, Types
<1>1. task'[p].pc # "idle"
  BY DEF Roles, Role, AtEase, Doing
<1>2. excused \subseteq excused' /\ life' # "down" /\ ~LoadState
  <2>1. life' \notin {"down", "scan"}
    BY <1>0, <1>1, IdleType DEF TypeInv, AtRest
  <2> QED
    BY <1>0, <1>1, <2>1, ExcusedStep DEF LoadState
<1> SUFFICES ASSUME NEW t \in task'[p].touches, t \notin excused'
             PROVE  /\ Asleep(t)' /\ Touching(t)' = {p}
                    /\ save'[p].pc # "none" => Kept(save'[p].snapshot, t)
  BY DEF Suspends, Kept
<1>3. t \in Triggers
  BY <1>0 DEF TaskType, TaskRecord
<1>4. CASE t \in task[p].touches /\ task[p].kind = "suspend"
  <2>1. Asleep(t) /\ Touching(t) = {p} /\ (save[p].pc # "none" => Kept(save[p].snapshot, t))
    BY <1>2, <1>4 DEF SuspendInv, Suspends
  <2>2. Touching(t)' = {p}
    BY <1>3, <2>1, NobodyJoins
  <2>3. Asleep(t)'
    <3>1. ASSUME NEW q \in Handlers, ResumeTrigger(q, t) PROVE FALSE
      <4>1. Begin(q, "resume", {t})
        BY <3>1 DEF ResumeTrigger
      <4>2. t \in excused' \/ Touching(t) = {}
        BY <1>3, <4>1, Beginning
      <4> QED
        BY <2>1, <4>2
    <3>2. \A q \in Handlers : t \in task[q].touches => q = p
      BY <2>1 DEF Touching
    <3> QED
      BY <1>2, <1>3, <1>4, <2>1, <3>1, <3>2, AsleepStep
  <2>4. save'[p].pc # "none" => Kept(save'[p].snapshot, t)
    BY <1>0, <1>3, <2>1, SaveStays, AsleepKept
  <2> QED
    BY <2>2, <2>3, <2>4
<1>5. CASE (Request(p) \/ Callback(p)) /\ Only(p)
  <2>1. SuspendTrigger(p, t) /\ task'[p].touches = {t}
    BY <1>5, SuspendBegins
  <2>2. Begin(p, "suspend", {t}) /\ task[p] = Idle /\ save' = save
    BY <2>1 DEF SuspendTrigger, Begin, fileVars
  <2>3. Touching(t) = {}
    BY <1>3, <2>2, Beginning
  <2>4. Touching(t)' = {p}
    BY <1>5, <2>3, Members DEF Touching, Only
  <2>5. Asleep(t)'
    BY <1>0, <1>3, <2>1 DEF SuspendTrigger, RegistryType, Asleep
  <2>6. save'[p].pc = "none"
    BY <1>0, <2>2, IdleType DEF FileInv, SaveTasks
  <2> QED
    BY <2>4, <2>5, <2>6
<1> QED
  BY <1>4, <1>5, TouchStep

\* What a restart finds in the files.
Findable(t) ==
  ~doubtful =>
    /\ DOMAIN tmp = {} => Kept(Load, t)
    /\ life = "down" => \A s \in DOMAIN tmp : Kept(data[tmp[s]], t)

\* Every step leaves files in which a restart finds the suspension, or doubt.
LEMMA FindableStep ==
  ASSUME TypeInv, Roles, FileInv, [Next]_vars, NEW t \in Triggers, Remembered(t)
  PROVE  Findable(t)'
<1>0. FileType
  BY DEF TypeInv, Types
<1>1. CASE Quiet
  BY <1>1 DEF Quiet, fileVars, Remembered, Findable, Load, Kept
<1>2. ASSUME NEW p \in Writers, TakeSnapshot(p) PROVE Findable(t)'
  BY <1>2 DEF TakeSnapshot, SaveBegin, Remembered, Findable, Load, Kept
<1>3. ASSUME NEW p \in Writers, WriteSnapshot(p), ~doubtful' PROVE DOMAIN tmp' # {} /\ life' # "down"
  <2>1. life' = life /\ life # "down"
    BY <1>3, WorkLoaded DEF WriteSnapshot, Loaded
  <2>2. CASE OpenTemp(p)
    BY <1>0, <2>1, <2>2, OpenTempIs DEF OpenedAs
  <2>3. CASE WriteTemp(p)
    <3>1. p \in Saving /\ ~doubtful /\ tmp' = tmp /\ save[p].pc = "write"
      BY <1>3, <2>3 DEF WriteTemp, Saving
    <3>2. Alone(p)
      BY <3>1 DEF FileInv, Clean
    <3> QED
      BY <2>1, <3>1, <3>2 DEF Alone
  <2> QED
    BY <1>3, <2>2, <2>3 DEF WriteSnapshot, SaveStep
<1>4. ASSUME NEW p \in Writers, Saved(p), ~doubtful' PROVE Findable(t)'
  <2>1. save[p].alone /\ DOMAIN tmp' = {} /\ Load' = save[p].snapshot
    BY <1>4, SavedLoad
  <2>2. p \in Saving
    BY <1>4 DEF Saved, RenameTemp, SaveFails, Saving
  <2> QED
    BY <2>1, <2>2 DEF Remembered, Findable, Kept
<1>5. ASSUME Boot, ~doubtful' PROVE Findable(t)'
  <2>1. ~doubtful /\ life = "down" /\ life' = "clean" /\ Clean
    BY <1>5 DEF Boot, Promote, FileInv
  <2>2. CASE DOMAIN tmp = {}
    <3>1. UNCHANGED <<canonical, data>>
      BY <1>5, <2>2 DEF Boot, Promote
    <3> QED
      BY <2>1, <2>2, <3>1 DEF Remembered, Findable, Load, Kept
  <2>3. CASE DOMAIN tmp # {}
    <3>1. Newest \in DOMAIN tmp
      BY <1>0, <2>3, StampType
    <3>2. canonical' = tmp[Newest] /\ data' = Freed({canonical})
      BY <1>5, <2>3 DEF Boot, Promote
    <3>3. tmp[Newest] \in Inodes /\ tmp[Newest] # canonical
      BY <1>0, <3>1 DEF FileInv, Names, FileType, Range
    <3>4. Load' = data[tmp[Newest]]
      BY <3>2, <3>3, FileBounds DEF Load, Freed
    <3>5. Kept(data[tmp[Newest]], t)
      BY <2>1, <3>1 DEF Remembered
    <3> QED
      BY <2>1, <3>4, <3>5 DEF Findable, Kept
  <2> QED
    BY <2>2, <2>3
<1>6. ASSUME RemoveTemps, ~doubtful' PROVE Findable(t)'
  <2>1. ~doubtful /\ life = "clean" /\ life' = "load" /\ Clean /\ Saving = {}
    BY <1>6, RestSaving DEF RemoveTemps, CleanUp, FileInv
  <2>2. DOMAIN tmp = {} /\ Range(tmp) = {}
    BY <2>1 DEF Clean, Range
  <2>3. canonical' = canonical /\ data' = Freed({})
    BY <1>6, <2>2 DEF RemoveTemps, CleanUp
  <2>4. Load' = Load
    BY <1>0, <2>3 DEF Load, Freed, FileType
  <2> QED
    BY <2>1, <2>2, <2>4 DEF Remembered, Findable, Kept
<1>7. ASSUME Die, ~doubtful' PROVE Findable(t)'
  <2>1. UNCHANGED <<canonical, tmp, data>> /\ ~doubtful /\ \A s \in DOMAIN tmp : data[tmp[s]] # Torn
    BY <1>7 DEF Die, FileCrash
  <2>2. DOMAIN tmp = {} => Kept(Load, t)'
    BY <2>1 DEF Remembered, Load, Kept
  <2>3. ASSUME NEW s \in DOMAIN tmp PROVE Kept(data[tmp[s]], t)
    <3>1. CASE life = "down"
      BY <2>1, <3>1 DEF Remembered
    <3>2. CASE life # "down"
      <4>1. Clean
        BY <2>1 DEF FileInv
      <4>2. PICK w \in Saving : TRUE
        BY <3>2, <4>1 DEF Clean
      <4>3. save[w].alone /\ Alone(w)
        BY <4>1 DEF Clean, FileInv
      <4>4. save[w].pc \in {"open", "write", "rename"}
        BY <1>0 DEF Saving, FileType, SaveRecord
      <4>5. DOMAIN tmp = {save[w].stamp} /\ save[w].pc = "rename"
        BY <2>1, <2>3, <4>3, <4>4 DEF Alone
      <4> QED
        BY <4>3, <4>5 DEF Alone, Remembered
    <3> QED
      BY <3>1, <3>2
  <2> QED
    BY <2>1, <2>2, <2>3 DEF Findable, Kept
<1>8. doubtful' => Findable(t)'
  BY DEF Findable
<1> QED
  BY <1>1, <1>2, <1>3, <1>4, <1>5, <1>6, <1>7, <1>8, StepKinds DEF Findable

\* A restart brings back what it finds.
LEMMA LoadAsleep ==
  ASSUME TypeInv, FileInv, LoadState, ~lossy', NEW t \in acknowledged', Remembered(t), t \in Triggers
  PROVE  Asleep(t)'
<1>1. ~doubtful /\ t \in OnDisk
  BY DEF LoadState
<1>2. DOMAIN tmp = {}
  BY <1>1, RestSaving DEF LoadState, FileInv, Clean
<1>3. Kept(Load, t)
  BY <1>1, <1>2 DEF Remembered
<1>4. status'[t] = Load.status[t]
  BY <1>1, <1>3 DEF LoadState, Kept
<1> QED
  BY <1>3, <1>4 DEF Kept, Asleep

\* The registry stays empty until it is loaded.
LEMMA UnreadStep ==
  ASSUME TypeInv, Unread, [Next]_vars
  PROVE  Unread'
<1>1. ASSUME UNCHANGED <<status, life>> PROVE Unread'
  BY <1>1 DEF Unread
<1>2. ASSUME life' \notin {"down", "clean", "load"} PROVE Unread'
  BY <1>2 DEF Unread
<1>3. ASSUME NEW p \in Handlers, Request(p) \/ Callback(p) PROVE Unread'
  <2>1. life' = life
    BY <1>3 DEF Request, Callback, RegisterRecurfile, DeregisterRecurfile, SuspendTrigger,
       ResumeTrigger, UninstallPlugin, OnFired, OnTriggerError, Begin
  <2> QED
    BY <1>2, <1>3, <2>1, BeginLoaded DEF Loaded
<1>4. ASSUME NEW p \in Writers, TaskStep(p) PROVE Unread'
  <2>1. task[p].pc # "idle"
    BY <1>4 DEF TaskStep, RegisterResolved, ListTriggers, DeregisterResolved, ResumeGet, MarkError,
       DeactivateNext, ActivateNext, TakeSnapshot, WriteSnapshot, Saved
  <2> QED
    BY <1>2, <1>4, <2>1, WorkLoaded, TaskLife DEF Loaded
<1>5. CASE Boot \/ RemoveTemps
  BY <1>5 DEF Boot, RemoveTemps, registry, Unread
<1>6. CASE LoadState \/ ScanAppFolder \/ Serve \/ SrvStop \/ StopAll
  BY <1>2, <1>6 DEF LoadState, ScanAppFolder, Serve, SrvStop, StopAll
<1>7. CASE Exit \/ Crash
  BY <1>7 DEF Exit, Crash, Die, Unread, NoTrigger
<1>8. CASE UNCHANGED vars \/ \E f \in Files : EditRecurfile(f)
  BY <1>1, <1>8 DEF vars, EditRecurfile, registry
<1> QED
  BY <1>3, <1>4, <1>5, <1>6, <1>7, <1>8 DEF Next, MainStep

\* What is acknowledged stays remembered ...
LEMMA RememberedStep ==
  ASSUME TypeInv, TypeInv', Roles, FileInv, SuspendInv, [Next]_vars, ~lossy',
         NEW t \in acknowledged', Remembered(t), t \in Triggers
  PROVE  Remembered(t)'
<1>0. RegistryType
  BY DEF TypeInv, Types
<1>1. life' \notin {"down", "clean", "load"} => Asleep(t)'
  <2>1. CASE life \in {"down", "clean", "load"} /\ life' \notin {"down", "clean", "load"}
    <3>1. LoadState
      <4>1. ~Loaded /\ \A p \in Writers : task[p].pc = "idle"
        BY <2>1, RestTasks DEF Loaded
      <4>2. \A p \in Handlers : ~Request(p) /\ ~Callback(p)
        BY <4>1, BeginLoaded
      <4>3. \A p \in Writers : ~TaskStep(p)
        BY <2>1, TaskLife
      <4> QED
        BY <2>1, <4>1, <4>2, <4>3, Members DEF Next, MainStep, Boot, RemoveTemps, ScanAppFolder,
           Serve, SrvStop, Exit, Die, StopAll, Crash, EditRecurfile, vars
    <3> QED
      BY <3>1, LoadAsleep
  <2>2. CASE life \notin {"down", "clean", "load"} /\ life' # "down"
    <3>1. Asleep(t)
      BY <2>2 DEF Remembered
    <3>2. ASSUME NEW p \in Handlers PROVE ~ResumeTrigger(p, t)
      BY TakenBack DEF ResumeTrigger
    <3>3. \A p \in Handlers : t \in task[p].touches => task[p].kind \notin {"register", "deregister"}
      BY DEF Remembered
    <3>4. ~LoadState
      BY <2>2 DEF LoadState
    <3> QED
      BY <2>2, <3>1, <3>2, <3>3, <3>4, AsleepStep
  <2> QED
    BY <2>1, <2>2
<1>2. ASSUME NEW p \in Handlers, t \in task'[p].touches
      PROVE  task'[p].kind \in {"suspend", "uninstall", "error"}
  <2>1. CASE t \in task[p].touches /\ task'[p].kind = task[p].kind
    BY <2>1 DEF Remembered
  <2>2. CASE /\ Begin(p, task'[p].kind, task'[p].touches)
             /\ task'[p].kind \in {"register", "deregister", "suspend", "resume", "uninstall", "error"}
    BY <1>2, <2>2, TakenBack
  <2> QED
    BY <1>2, <2>1, <2>2, TouchStep
<1>3. ASSUME NEW w \in Saving', save'[w].alone PROVE Kept(save'[w].snapshot, t)
  <2>0. w \in Writers /\ save'[w].pc # "none"
    BY DEF Saving
  <2>1. CASE save[w].pc # "none" /\ save'[w].snapshot = save[w].snapshot /\ save[w].alone
    BY <2>0, <2>1 DEF Saving, Remembered
  <2>2. CASE TakeSnapshot(w) /\ save'[w].snapshot = Snapshot
    <3>1. Loaded
      BY <2>0, <2>2, WorkLoaded DEF TakeSnapshot
    <3>2. Asleep(t)
      BY <3>1 DEF Loaded, Remembered
    <3> QED
      BY <1>0, <2>2, <3>2, AsleepKept
  <2> QED
    BY <1>3, <2>0, <2>1, <2>2, SaveStays
<1>4. Findable(t)'
  BY FindableStep
<1> QED
  BY <1>1, <1>2, <1>3, <1>4 DEF Remembered, Findable, Kept

\* ... and what is acknowledged now has been saved.
LEMMA RememberedNow ==
  ASSUME TypeInv, Roles, FileInv, SuspendInv, NEW p \in Handlers, Saved(p),
         task[p].kind = "suspend", NEW t \in task[p].touches \ excused
  PROVE  Remembered(t)'
<1>0. p \in Writers /\ FileType /\ TaskType
  BY Members DEF TypeInv, Types
<1>1. Asleep(t) /\ Touching(t) = {p} /\ save[p].pc # "none" /\ Kept(save[p].snapshot, t)
  BY DEF SuspendInv, Suspends, Saved, RenameTemp, SaveFails
<1>2. Asleep(t)' /\ life' = life
  BY <1>1 DEF Saved, registry, Asleep
<1>3. Only(p) /\ task'[p].touches = {}
  BY <1>0, SavedTasks, IdleType
<1>4. \A q \in Handlers : t \notin task'[q].touches
  BY <1>1, <1>3, Members DEF Touching, Only
<1>5. ASSUME NEW w \in Saving' PROVE ~save'[w].alone
  <2>1. save' = [save EXCEPT ![p] = NotSaving]
    BY DEF Saved, RenameTemp, SaveFails
  <2>2. w # p /\ w \in Saving /\ save'[w] = save[w]
    BY <1>0, <2>1, NotSavingType DEF Saving, FileType
  <2>3. p \in Saving
    BY <1>0, <1>1 DEF Saving
  <2> QED
    BY <2>2, <2>3, OnlyAlone
<1>6. ~doubtful' => DOMAIN tmp' = {} /\ Load' = save[p].snapshot
  BY <1>0, SavedLoad
<1> QED
  BY <1>1, <1>2, <1>4, <1>5, <1>6 DEF Remembered, Kept

\* The invariant of suspensions is kept by every step.
LEMMA SuspendStep ==
  ASSUME TypeInv, TypeInv', Roles, Roles', FileInv, SuspendInv, [Next]_vars
  PROVE  SuspendInv'
<1>1. \A p \in Handlers : task'[p].kind = "suspend" => Suspends(p)'
  BY SuspendsStep
<1>2. ASSUME ~lossy', NEW t \in acknowledged' PROVE Remembered(t)'
  <2>1. t \in Triggers
    BY DEF TypeInv, Types, OtherType
  <2>2. CASE t \in acknowledged
    <3>1. Remembered(t)
      BY <1>2, <2>2, LossyStep DEF SuspendInv
    <3> QED
      BY <1>2, <2>1, <3>1, RememberedStep
  <2>3. CASE t \notin acknowledged
    BY <2>3, Acknowledging, RememberedNow
  <2> QED
    BY <2>2, <2>3
<1>3. Unread'
  BY UnreadStep DEF SuspendInv
<1> QED
  BY <1>1, <1>2, <1>3 DEF SuspendInv

\* An acknowledged suspension lasts until it is taken back: over crashes at any moment, in the
\* middle of a save too, over restarts and edits of the recurfile, unless the daemon has
\* loaded a doubtful state file or the recurfile no longer had the trigger at a restart.
THEOREM SuspensionAlwaysSurvives == Spec => []SuspensionSurvives
<1> DEFINE Inv == TypeInv /\ Roles /\ FileInv /\ SuspendInv
<1>1. Init => Inv
  BY TypeInit, RolesInit, FileInvInit, SuspendInit
<1>2. Inv /\ [Next]_vars => Inv'
  <2> SUFFICES ASSUME TypeInv, Roles, FileInv, SuspendInv, [Next]_vars PROVE Inv'
    OBVIOUS
  <2>1. TypeInv' /\ Roles'
    BY TypeStep, RolesStep
  <2>2. FileInv'
    BY <2>1, FileInvStep
  <2>3. SuspendInv'
    BY <2>1, SuspendStep
  <2> QED
    BY <2>1, <2>2, <2>3
<1>3. Inv => SuspensionSurvives
  <2> SUFFICES ASSUME TypeInv, SuspendInv, ~lossy, NEW t \in acknowledged PROVE status[t] # "active"
    BY DEF SuspensionSurvives
  <2>1. t \in Triggers /\ Remembered(t)
    BY DEF TypeInv, Types, OtherType, SuspendInv
  <2> QED
    BY <2>1 DEF Remembered, Asleep, SuspendInv, Unread
<1>4. Spec => []Inv
  <2> HIDE DEF Inv
  <2> QED
    BY <1>1, <1>2, PTL DEF Spec
<1> QED
  BY <1>3, <1>4, PTL
=============================================================================
