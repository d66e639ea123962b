--------------------------- MODULE ConfigStoreProofs ---------------------------
(***************************************************************************)
(* What is proved of ConfigStore: the cache of the layered store never     *)
(* shows an overlay that is out of date, the variables have their types, a *)
(* field changes for a request for that field only, a change that nothing  *)
(* overlapped leaves memory and file in agreement, and then config get     *)
(* shows what the daemon uses.                                             *)
(*                                                                         *)
(* AgreeInv is the inductive invariant of the last two: what every request *)
(* and command can be doing (TypeInv), names that are names of different   *)
(* files (Named), what overlaps with what (Solo), how far a change is that *)
(* has the running daemon for itself (OnTheWay), and that memory and file  *)
(* agree once it is answered (Agreement).                                  *)
(***************************************************************************)
EXTENDS ConfigStore, TLAPS, WellFoundedInduction

\* What a step may do to the layers and the cache: nothing, drop the cache, fill it from the
\* layers, or begin anew.  Every section under the store's lock is one of these.
CacheKept ==
  \/ UNCHANGED <<layers, cache>>
  \/ cache' = NoConfig
  \/ UNCHANGED layers /\ cache' = IF cache = NoConfig THEN Overlay ELSE cache
  \/ cache' = OverlayOne(OverlayOne(layers'[1], layers'[2]), layers'[3])

\* An action that keeps to that keeps the cache right.
LEMMA KeptIsOverlay ==
  ASSUME CacheIsOverlay, CacheKept
  PROVE  CacheIsOverlay'
  BY DEF CacheKept, CacheIsOverlay, Overlay

\* No command, request or start begins with a change of the store.
LEMMA BeginKeeps ==
  ASSUME NEW c \in Writers, Begin(c)
  PROVE  CacheKept
  BY DEF Begin, ConfigSet, ConfigDelete, ConfigGet, GetConfig, BootBegins, StartChange, Start,
         storeVars, CacheKept

\* The steps of a request to the daemon: SetField and ClearLayerField, the copy, the change
\* and the replacement of the layer for a plugin key, Get, and what follows outside the lock.
LEMMA RequestKeeps ==
  ASSUME NEW c \in Writers,
         \/ SetField(c) \/ ClearLayerField(c)
         \/ CopyLayer(c) \/ SetPluginKey(c) \/ DeletePluginKey(c) \/ Replace(c)
         \/ Get(c) \/ AllKeys(c) \/ Publish(c) \/ GetLayer(c) \/ Marshal(c)
  PROVE  CacheKept
<1>1. CASE SetField(c)
  BY <1>1 DEF SetField, CacheKept
<1>2. CASE ClearLayerField(c)
  BY <1>2 DEF ClearLayerField, CacheKept
<1>3. CASE CopyLayer(c) \/ SetPluginKey(c) \/ DeletePluginKey(c)
  BY <1>3 DEF CopyLayer, SetPluginKey, DeletePluginKey, CacheKept
<1>4. CASE Replace(c)
  BY <1>4 DEF Replace, CacheKept
<1>5. CASE Get(c)
  BY <1>5 DEF Get, CacheKept
<1>6. CASE AllKeys(c) \/ Publish(c) \/ GetLayer(c) \/ Marshal(c)
  BY <1>6 DEF AllKeys, Publish, GetLayer, Marshal, storeVars, CacheKept
<1> QED
  BY <1>1, <1>2, <1>3, <1>4, <1>5, <1>6

\* A process that opens config.yaml itself does not touch the daemon's store, but for the
\* daemon itself when it starts.
LEMMA FileKeeps ==
  ASSUME NEW c \in Writers,
         \/ RecoverScan(c) \/ RecoverPromote(c) \/ RecoverClean(c) \/ LoadFile(c) \/ ChangeOwn(c)
         \/ SaveMoves(c) \/ SaveEnds(c) \/ SaveBreaks(c)
         \/ Boot(c) \/ CommandEnds(c)
  PROVE  CacheKept
<1>1. CASE RecoverScan(c) \/ RecoverPromote(c) \/ RecoverClean(c) \/ LoadFile(c) \/ ChangeOwn(c)
  BY <1>1 DEF RecoverScan, RecoverPromote, RecoverClean, LoadFile, ChangeOwn, storeVars, CacheKept
<1>2. CASE SaveMoves(c) \/ SaveEnds(c) \/ SaveBreaks(c) \/ CommandEnds(c)
  BY <1>2 DEF SaveMoves, SaveEnds, SaveBreaks, CommandEnds, storeVars, CacheKept
<1>3. CASE Boot(c)
  BY <1>3 DEF Boot, storeVars, CacheKept
<1> QED
  BY <1>1, <1>2, <1>3

LEMMA CacheStep == CacheIsOverlay /\ [Next]_vars => CacheIsOverlay'
<1> SUFFICES ASSUME CacheIsOverlay, [Next]_vars PROVE CacheKept
  BY KeptIsOverlay
<1>1. ASSUME NEW c \in Writers, Begin(c) PROVE CacheKept
  BY <1>1, BeginKeeps
<1>2. ASSUME NEW c \in Writers, Continue(c) PROVE CacheKept
  BY <1>2, RequestKeeps, FileKeeps DEF Continue
<1>3. CASE DaemonEnds \/ MapFault
  BY <1>3 DEF DaemonEnds, MapFault, Gone, CacheKept
<1>4. CASE UNCHANGED vars
  BY <1>4 DEF vars, storeVars, CacheKept
<1> QED
  BY <1>1, <1>2, <1>3, <1>4 DEF Next

\* store.go:86-88: whatever the requests interleave and whenever the daemon ends and starts,
\* a cached overlay is that of the layers as they are.
THEOREM CacheAlwaysOverlay == Spec => []CacheIsOverlay
<1>1. Init => CacheIsOverlay
  BY DEF Init, CacheIsOverlay
<1> QED
  BY <1>1, CacheStep, PTL DEF Spec

-----------------------------------------------------------------------------
(* The types of the files. *)

FileTyped ==
  /\ canonical \in Inodes \union {NoInode}
  /\ DOMAIN tmp \subseteq 1..MaxStamp /\ Range(tmp) \subseteq Inodes
  /\ data \in [Inodes -> Documents \union {NoFile, Torn}]
  /\ save \in [Writers -> SaveType]

OpTyped ==
  /\ op \in [Writers -> OpType]
  /\ \A c \in Writers : op[c].kind = "set" => op[c].key \in Keys /\ op[c].text \in Texts

\* The bounds of the files.
LEMMA FileBounds ==
  /\ MaxStamp \in Nat /\ Inodes \subseteq Nat /\ NoInode \notin Inodes
  /\ 0 \in 0..MaxStamp /\ 1..MaxStamp \subseteq 0..MaxStamp
  BY StateFileAssumption DEF Inodes, NoInode

\* A non-empty set of time stamps has a newest one.
LEMMA NewestIsIn ==
  ASSUME NEW n \in Nat, NEW S \in SUBSET (1..n), S # {}
  PROVE  Max(S) \in S
<1> DEFINE T == {n - k : k \in S}
           R == {ss \in Nat \X Nat : ss[1] < ss[2]}
<1>1. T \subseteq Nat /\ T # {}
  <2>1. PICK k \in S : TRUE
    OBVIOUS
  <2>2. n - k \in T
    OBVIOUS
  <2> QED
    BY <2>2
<1>2. IsWellFoundedOn(R, Nat)
  BY NatLessThanWellFounded, Zenon DEF OpToRel
<1>3. PICK m \in T : \A x \in T : ~(<<x, m>> \in R)
  <2> HIDE DEF T, R
  <2> QED
    BY <1>1, <1>2, WFMin
<1>4. \A x \in T : m <= x
  <2> SUFFICES ASSUME NEW x \in T PROVE m <= x
    OBVIOUS
  <2>1. x \in Nat /\ m \in Nat
    BY <1>1
  <2>2. ~(x < m)
    BY <1>3, <2>1
  <2> QED
    BY <2>1, <2>2
<1>5. PICK k \in S : m = n - k
  OBVIOUS
<1>6. \A j \in S : k >= j
  <2> SUFFICES ASSUME NEW j \in S PROVE k >= j
    OBVIOUS
  <2>1. n - j \in T
    OBVIOUS
  <2>2. n - k <= n - j
    BY <2>1, <1>4, <1>5
  <2>3. j \in 1..n /\ k \in 1..n
    OBVIOUS
  <2> HIDE DEF T
  <2> QED
    BY <2>2, <2>3
<1> HIDE DEF T
<1> QED
  BY <1>5, <1>6 DEF Max

\* Each step of a save, of the recovery and of a crash keeps the types.
LEMMA SaveBeginType ==
  ASSUME FileTyped, NEW w \in Writers, NEW s \in Documents, SaveBegin(w, s)
  PROVE  FileTyped'
<1>1. save' \in [Writers -> SaveType]
  <2>1. [NotSaving EXCEPT !.pc = "open", !.snapshot = s, !.alone = Saving = {}] \in SaveType
    <3>1. PICK b \in BOOLEAN : b = (Saving = {})
      OBVIOUS
    <3>2. [NotSaving EXCEPT !.pc = "open", !.snapshot = s, !.alone = b] \in SaveType
      BY FileBounds DEF NotSaving, SaveType
    <3> QED
      BY <3>1, <3>2
  <2>2. \A v \in Writers : [save[v] EXCEPT !.alone = FALSE] \in SaveType
    BY DEF FileTyped, SaveType
  <2> QED
    BY <2>1, <2>2 DEF SaveBegin
<1> QED
  BY <1>1 DEF SaveBegin, FileTyped

\* The newest temporary file exists.
LEMMA StampType ==
  ASSUME FileTyped
  PROVE  DOMAIN tmp # {} => Newest \in DOMAIN tmp /\ Newest \in 1..MaxStamp
  BY FileBounds, NewestIsIn DEF FileTyped, Newest

\* The time stamp and the inode a writer gets.
OpenedAs(w, stamp, inode) ==
  /\ stamp \in 1..MaxStamp
  /\ IF stamp \in DOMAIN tmp THEN inode = tmp[stamp] ELSE inode \in Unused
  /\ tmp' = [s \in DOMAIN tmp \union {stamp} |-> IF s = stamp THEN inode ELSE tmp[s]]
  /\ data' = [data EXCEPT ![inode] = Torn]
  /\ save' = [save EXCEPT ![w].pc = "write", ![w].stamp = stamp, ![w].inode = inode]

\* os.WriteFile's open, with its choice spelled out.
LEMMA OpenTempIs ==
  ASSUME FileTyped, NEW w \in Writers, OpenTemp(w)
  PROVE  \E stamp \in 1..MaxStamp, inode \in Inodes : OpenedAs(w, stamp, inode)
<1> DEFINE last == IF DOMAIN tmp = {} THEN 0 ELSE Newest
           inode(s) == IF s \in DOMAIN tmp THEN tmp[s] ELSE CHOOSE i \in Unused : TRUE
<1>1. PICK stamp \in {last, last + 1} \ {0} :
        /\ stamp <= MaxStamp
        /\ stamp \in DOMAIN tmp \/ Unused # {}
        /\ tmp' = [s \in DOMAIN tmp \union {stamp} |-> IF s = stamp THEN inode(stamp) ELSE tmp[s]]
        /\ data' = [data EXCEPT ![inode(stamp)] = Torn]
        /\ save' = [save EXCEPT ![w].pc = "write", ![w].stamp = stamp, ![w].inode = inode(stamp)]
  BY DEF OpenTemp
<1>2. last \in Nat
  <2>1. CASE DOMAIN tmp = {}
    BY <2>1
  <2>2. CASE DOMAIN tmp # {}
    <3>1. last = Newest
      BY <2>2
    <3>2. Newest \in 1..MaxStamp
      BY <2>2, StampType
    <3> QED
      BY <3>1, <3>2, FileBounds
  <2> QED
    BY <2>1, <2>2
<1>3. stamp \in 1..MaxStamp
  BY <1>1, <1>2, FileBounds
<1>4. IF stamp \in DOMAIN tmp THEN inode(stamp) = tmp[stamp] ELSE inode(stamp) \in Unused
  BY <1>1
<1>5. inode(stamp) \in Inodes
  BY <1>4 DEF Unused, FileTyped, Range
<1> QED
  BY <1>1, <1>3, <1>4, <1>5 DEF OpenedAs

LEMMA OpenTempType ==
  ASSUME FileTyped, NEW w \in Writers, OpenTemp(w)
  PROVE  FileTyped'
<1>1. PICK stamp \in 1..MaxStamp, inode \in Inodes : OpenedAs(w, stamp, inode)
  BY OpenTempIs
<1>2. DOMAIN tmp' \subseteq 1..MaxStamp /\ Range(tmp') \subseteq Inodes
  BY <1>1 DEF OpenedAs, FileTyped, Range
<1>3. data' \in [Inodes -> Documents \union {NoFile, Torn}]
  BY <1>1 DEF OpenedAs, FileTyped
<1>4. save' \in [Writers -> SaveType]
  <2>1. save[w] \in SaveType
    BY DEF FileTyped
  <2>2. [save[w] EXCEPT !.pc = "write", !.stamp = stamp, !.inode = inode] \in SaveType
    <3>1. stamp \in 0..MaxStamp
      BY FileBounds
    <3> QED
      BY <2>1, <3>1 DEF SaveType
  <2>3. save' = [save EXCEPT ![w] = [save[w] EXCEPT !.pc = "write", !.stamp = stamp, !.inode = inode]]
    BY <1>1 DEF OpenedAs
  <2> QED
    BY <2>2, <2>3 DEF FileTyped
<1> QED
  BY <1>2, <1>3, <1>4 DEF FileTyped, OpenTemp

LEMMA NotSavingType == NotSaving \in SaveType /\ NotSaving.pc = "none"
  BY FileBounds DEF NotSaving, SaveType

LEMMA WriteTempType ==
  ASSUME FileTyped, NEW w \in Writers, WriteTemp(w)
  PROVE  FileTyped'
<1>1. save[w].snapshot \in Documents \union {NoFile}
  BY DEF FileTyped, SaveType
<1>2. data' \in [Inodes -> Documents \union {NoFile, Torn}]
  BY <1>1 DEF WriteTemp, FileTyped
<1>3. save' \in [Writers -> SaveType]
  BY ZenonT(40) DEF WriteTemp, FileTyped, SaveType
<1> QED
  BY <1>2, <1>3 DEF WriteTemp, FileTyped

\* Freed inodes and names that go.
LEMMA FreedType ==
  ASSUME FileTyped, NEW is
  PROVE  Freed(is) \in [Inodes -> Documents \union {NoFile, Torn}]
  BY DEF FileTyped, Freed

LEMMA RestrictType ==
  ASSUME FileTyped, NEW S \in SUBSET DOMAIN tmp
  PROVE  DOMAIN Restrict(tmp, S) = S /\ Range(Restrict(tmp, S)) \subseteq Range(tmp)
         /\ \A s \in S : Restrict(tmp, S)[s] = tmp[s]
  BY DEF Restrict, Range

LEMMA LeaveType ==
  ASSUME FileTyped, NEW w \in Writers, RenameTemp(w) \/ SaveFails(w)
  PROVE  FileTyped'
<1>1. save' \in [Writers -> SaveType]
  BY NotSavingType DEF RenameTemp, SaveFails, FileTyped
<1>2. canonical' \in Inodes \union {NoInode}
  BY DEF RenameTemp, SaveFails, FileTyped, Range
<1>3. data' \in [Inodes -> Documents \union {NoFile, Torn}]
  BY FreedType DEF RenameTemp, SaveFails, FileTyped
<1>4. DOMAIN tmp' \subseteq 1..MaxStamp /\ Range(tmp') \subseteq Inodes
  <2>1. tmp' = tmp \/ tmp' = Restrict(tmp, DOMAIN tmp \ {save[w].stamp})
    BY DEF RenameTemp, SaveFails
  <2> QED
    BY <2>1, RestrictType DEF FileTyped
<1> QED
  BY <1>1, <1>2, <1>3, <1>4 DEF FileTyped

\* A process that recovers promotes a temporary file and removes the others.
LEMMA RecoveryType ==
  ASSUME FileTyped, OpTyped, NEW c \in Writers, RecoverPromote(c) \/ RecoverClean(c)
  PROVE  FileTyped'
<1>1. CASE RecoverPromote(c)
  <2> DEFINE s == Max(op[c].entries)
  <2>1. tmp' = Restrict(tmp, DOMAIN tmp \ {s})
    BY <1>1 DEF RecoverPromote
  <2>2. DOMAIN tmp' \subseteq 1..MaxStamp /\ Range(tmp') \subseteq Inodes
    BY <2>1, RestrictType DEF FileTyped
  <2>3. canonical' \in Inodes \union {NoInode}
    BY <1>1 DEF RecoverPromote, FileTyped, Range
  <2>4. data' \in [Inodes -> Documents \union {NoFile, Torn}]
    BY <1>1, FreedType DEF RecoverPromote, FileTyped
  <2> QED
    BY <1>1, <2>2, <2>3, <2>4 DEF RecoverPromote, FileTyped
<1>2. CASE RecoverClean(c)
  <2> DEFINE others == op[c].entries \intersect DOMAIN tmp
  <2>1. tmp' = Restrict(tmp, DOMAIN tmp \ others)
    BY <1>2 DEF RecoverClean
  <2>2. DOMAIN tmp' \subseteq 1..MaxStamp /\ Range(tmp') \subseteq Inodes
    BY <2>1, RestrictType DEF FileTyped
  <2>3. data' \in [Inodes -> Documents \union {NoFile, Torn}]
    BY <1>2, FreedType DEF RecoverClean, FileTyped
  <2> QED
    BY <1>2, <2>2, <2>3 DEF RecoverClean, FileTyped
<1> QED
  BY <1>1, <1>2

-----------------------------------------------------------------------------
(* The types of configurations. *)

StoreTyped ==
  /\ running \in BOOLEAN /\ settled \in BOOLEAN
  /\ DOMAIN layers = 1..3
  /\ layers[1] = DefaultLayer /\ layers[2] \in ConfigType /\ layers[3] = FlagLayer
  /\ cache = NoConfig \/ cache \in ConfigType
  /\ heap \in [Maps -> PluginType]
  /\ config \in ConfigType /\ atRun \in ConfigType
  /\ launch \in PlainType

LEMMA Values ==
  /\ Unset \in PlainValues
  /\ \A f \in Fields, t \in Texts : Parse[f][t] # Invalid => Parse[f][t] \in PlainValues
<1>1. Unset \in PlainValues
  BY DEF PlainValues
<1>2. ASSUME NEW f \in Fields, NEW t \in Texts, Parse[f][t] # Invalid
      PROVE  Parse[f][t] \in PlainValues
  <2> DEFINE V(g) == {Parse[g][u] : u \in Texts} \union {Defaults[g], Flags[g]}
             U == UNION {V(g) : g \in Fields}
  <2>1. PlainValues = (U \ {Invalid}) \union {Unset}
    BY DEF PlainValues
  <2>2. Parse[f][t] \in V(f)
    OBVIOUS
  <2> HIDE DEF V
  <2>3. V(f) \in {V(g) : g \in Fields}
    OBVIOUS
  <2>4. Parse[f][t] \in U
    BY <2>2, <2>3
  <2> HIDE DEF U
  <2> QED
    BY <1>2, <2>1, <2>4
<1> QED
  BY <1>1, <1>2

LEMMA ConstantTypes ==
  /\ DefaultLayer \in ConfigType /\ FlagLayer \in ConfigType /\ ZeroConfig \in ConfigType
  /\ Empty \in Documents /\ NoPlugins \in PluginType /\ NoFields \in PlainType
<1>1. NoPlugins \in PluginType /\ NoFields \in PlainType
  BY Values DEF NoPlugins, NoFields, PluginType, PlainType
<1>2. Defaults \in PlainType /\ Flags \in PlainType
  BY DocumentsAssumption
<1> QED
  BY <1>1, <1>2 DEF DefaultLayer, FlagLayer, ZeroConfig, Empty, ConfigType, Documents

LEMMA OverlayType ==
  ASSUME NEW a \in ConfigType, NEW b \in ConfigType
  PROVE  OverlayOne(a, b) \in ConfigType
  BY DEF OverlayOne, ConfigType, PlainType

LEMMA LayersType ==
  ASSUME StoreTyped
  PROVE  Overlay \in ConfigType
  BY OverlayType, ConstantTypes DEF StoreTyped, Overlay

\* What is read from a file has its variables expanded.
LEMMA LoadRawType ==
  ASSUME NEW doc \in Documents \union {NoFile}
  PROVE  LoadRaw(doc) \in Documents
<1>1. CASE doc = NoFile
  BY <1>1, ConstantTypes DEF LoadRaw
<1>2. CASE doc # NoFile
  <2> DEFINE ps == [k \in PluginKeys |-> IF doc.plugins[k] = Unset THEN Unset ELSE Expand[doc.plugins[k]]]
  <2>1. doc \in Documents /\ doc.plugins \in PluginType
    BY <1>2 DEF Documents
  <2>2. ps \in PluginType
    BY <2>1, DocumentsAssumption DEF PluginType
  <2>3. LoadRaw(doc) = [doc EXCEPT !.plugins = ps]
    BY <1>2 DEF LoadRaw
  <2> QED
    BY <2>1, <2>2, <2>3 DEF Documents
<1> QED
  BY <1>1, <1>2

LEMMA ContentsType ==
  ASSUME StoreTyped, NEW c \in ConfigType
  PROVE  Contents(c) \in Documents
<1>1. c.plain \in PlainType /\ c.plugins \in Maps \union {NoMap}
  BY DEF ConfigType
<1>2. IF c.plugins = NoMap THEN NoPlugins \in PluginType ELSE heap[c.plugins] \in PluginType
  BY <1>1, ConstantTypes DEF StoreTyped
<1> QED
  BY <1>1, <1>2 DEF Contents, Documents

LEMMA LaunchType ==
  ASSUME NEW c \in ConfigType
  PROVE  LaunchArgs(c) \in PlainType
  BY DocumentsAssumption DEF LaunchArgs, ConfigType, PlainType

LEMMA ReadType ==
  ASSUME FileTyped
  PROVE  Load \in Documents \union {NoFile, Torn}
  BY DEF Load, FileTyped

\* A map made for a layer that had none.
LEMMA NewMapType ==
  ASSUME FreeMaps # {}
  PROVE  NewMap \in FreeMaps /\ NewMap \in Maps /\ NewMap # NoMap
<1>1. NewMap \in FreeMaps
  BY DEF NewMap
<1>2. FreeMaps \subseteq Maps
  BY DEF FreeMaps
<1>3. \A m \in Maps : m # NoMap
  BY DEF Maps, NoMap
<1> QED
  BY <1>1, <1>2, <1>3

-----------------------------------------------------------------------------
(* The types of operations. *)

Pcs == {"idle", "change", "mutate", "replace", "get", "iterate", "publish", "layer", "marshal",
        "saving", "scan", "promote", "clean", "load", "own"}

LEMMA IdleType ==
  /\ Idle \in OpType
  /\ Idle.pc = "idle" /\ Idle.via = "none" /\ Idle.kind = "none"
  /\ Idle.cfg = ZeroConfig /\ Idle.stale = FALSE /\ Idle.alone = FALSE
  BY ConstantTypes DEF Idle, OpType

\* A record of an operation that goes on.
Goes(o, r) ==
  /\ r \in OpType
  /\ r.via = o.via /\ r.kind = o.kind /\ r.key = o.key /\ r.text = o.text

LEMMA StepType ==
  ASSUME OpTyped, NEW c \in Writers, NEW r, Goes(op[c], r) \/ r = Idle, Step(c, r)
  PROVE  /\ OpTyped' /\ op'[c] = r
         /\ \A d \in Writers \ {c} : op'[d] = op[d]
  BY IdleType DEF OpTyped, Step, Goes

LEMMA MoveType ==
  ASSUME OpTyped, NEW c \in Writers, NEW pc \in Pcs, Goto(c, pc)
  PROVE  /\ OpTyped'
         /\ op'[c] = [op[c] EXCEPT !.pc = pc]
         /\ op'[c].pc = pc /\ op'[c].stale = op[c].stale /\ op'[c].alone = op[c].alone
         /\ op'[c].cfg = op[c].cfg /\ Goes(op[c], op'[c])
         /\ \A d \in Writers \ {c} : op'[d] = op[d]
<1> DEFINE r == [op[c] EXCEPT !.pc = pc]
<1>1. op[c] \in OpType
  BY DEF OpTyped
<1>2. Goes(op[c], r) /\ r.pc = pc /\ r.stale = op[c].stale /\ r.alone = op[c].alone /\ r.cfg = op[c].cfg
  BY <1>1 DEF Goes, OpType, Pcs
<1>3. Step(c, r)
  BY DEF Goto, Step
<1> HIDE DEF r
<1>4. OpTyped' /\ op'[c] = r /\ \A d \in Writers \ {c} : op'[d] = op[d]
  BY <1>2, <1>3, StepType
<1> QED
  BY <1>2, <1>4 DEF r

LEMMA FinishType ==
  ASSUME OpTyped, NEW c \in Writers, Finish(c)
  PROVE  /\ OpTyped' /\ op'[c] = Idle
         /\ \A d \in Writers \ {c} : op'[d] = op[d]
  BY StepType DEF Finish, Step

\* What others see of a change of the layer.
Outdated(o) == [o EXCEPT !.stale = o.pc \in {"mutate", "replace"}]

LEMMA OutdatedType ==
  ASSUME NEW o \in OpType
  PROVE  /\ Outdated(o) \in OpType /\ Goes(o, Outdated(o))
         /\ Outdated(o).pc = o.pc /\ Outdated(o).alone = o.alone /\ Outdated(o).cfg = o.cfg
         /\ Outdated(o).stale = (o.pc \in {"mutate", "replace"})
<1>1. CASE o.pc \in {"mutate", "replace"}
  <2>1. Outdated(o) = [o EXCEPT !.stale = TRUE]
    BY <1>1 DEF Outdated
  <2> QED
    BY <1>1, <2>1 DEF Goes, OpType
<1>2. CASE o.pc \notin {"mutate", "replace"}
  <2>1. (o.pc \in {"mutate", "replace"}) = FALSE
    BY <1>2
  <2>2. Outdated(o) = [o EXCEPT !.stale = FALSE]
    BY <2>1, Zenon DEF Outdated
  <2> QED
    BY <2>1, <2>2 DEF Goes, OpType
<1> QED
  BY <1>1, <1>2

LEMMA OthersType ==
  ASSUME OpTyped, NEW c \in Writers, NEW r, Goes(op[c], r), OthersStale(c, r)
  PROVE  /\ OpTyped' /\ op'[c] = r
         /\ \A d \in Writers \ {c} : op'[d] = Outdated(op[d])
<1>1. op' = [d \in Writers |-> IF d = c THEN r ELSE Outdated(op[d])]
  BY DEF OthersStale, Outdated
<1>2. \A d \in Writers : op[d] \in OpType
  BY DEF OpTyped
<1> QED
  BY <1>1, <1>2, OutdatedType DEF OpTyped, Goes

\* A request or a command that begins.
Starts(c, via, pc, kind) ==
  /\ OpTyped'
  /\ op[c].pc = "idle"
  /\ op'[c].pc = pc /\ op'[c].via = via /\ op'[c].kind = kind /\ op'[c].alone = (Busy = {})
  /\ op'[c].stale = FALSE
  /\ \A d \in Writers \ {c} :
       /\ Goes(op[d], op'[d]) /\ op'[d].pc = op[d].pc /\ op'[d].alone = FALSE
       /\ op'[d].cfg = op[d].cfg /\ op'[d].stale = op[d].stale

LEMMA StartType ==
  ASSUME OpTyped, NEW c \in Writers, NEW via \in {"daemon", "self"}, NEW pc \in Pcs,
         NEW kind \in {"set", "delete", "get", "read", "boot"},
         NEW k \in Keys \union {Unset}, NEW t \in Texts \union {Unset},
         kind = "set" => k \in Keys /\ t \in Texts,
         Start(c, via, pc, kind, k, t)
  PROVE  Starts(c, via, pc, kind)
<1> DEFINE r == [Idle EXCEPT !.pc = pc, !.via = via, !.kind = kind, !.key = k, !.text = t,
                             !.alone = (Busy = {})]
<1>1. op' = [d \in Writers |-> IF d = c THEN r ELSE [op[d] EXCEPT !.alone = FALSE]] /\ op[c].pc = "idle"
  BY DEF Start
<1>2. PICK b \in BOOLEAN : b = (Busy = {})
  OBVIOUS
<1>3. /\ r \in OpType
      /\ r.pc = pc /\ r.via = via /\ r.kind = kind /\ r.key = k /\ r.text = t
      /\ r.alone = (Busy = {}) /\ r.stale = FALSE
  <2>1. r = [Idle EXCEPT !.pc = pc, !.via = via, !.kind = kind, !.key = k, !.text = t, !.alone = b]
    BY <1>2
  <2>2. Idle \in OpType /\ Idle.stale = FALSE
    BY IdleType
  <2>3. /\ pc \in Pcs /\ via \in {"none", "daemon", "self"}
        /\ kind \in {"none", "set", "delete", "get", "read", "boot"}
    OBVIOUS
  <2> DEFINE r1 == [Idle EXCEPT !.pc = pc, !.via = via, !.kind = kind]
  <2>6. r1 \in OpType
    BY <2>2, <2>3, ZenonT(40) DEF OpType, Pcs
  <2>7. r = [r1 EXCEPT !.key = k, !.text = t, !.alone = b]
    BY <2>1, <2>2 DEF OpType
  <2> HIDE DEF r1
  <2>4. r \in OpType
    BY <2>6, <2>7, ZenonT(40) DEF OpType
  <2>5. /\ r.pc = pc /\ r.via = via /\ r.kind = kind /\ r.key = k /\ r.text = t
        /\ r.alone = b /\ r.stale = FALSE
    BY <2>1, <2>2 DEF OpType
  <2> QED
    BY <1>2, <2>4, <2>5
<1>4. \A d \in Writers :
        LET o == [op[d] EXCEPT !.alone = FALSE] IN
        /\ Goes(op[d], o) /\ o.pc = op[d].pc /\ o.alone = FALSE /\ o.cfg = op[d].cfg
        /\ o.stale = op[d].stale
  BY ZenonT(40) DEF OpTyped, OpType, Goes
<1> HIDE DEF r
<1> QED
  BY <1>1, <1>3, <1>4 DEF OpTyped, Goes, Starts

\* What a request or a command is when it begins.
Fresh(o) ==
  /\ o.stale = FALSE
  /\ \/ o.via = "daemon" /\ running /\ o.pc = "change" /\ o.kind \in {"set", "delete"}
     \/ o.via = "daemon" /\ running /\ o.pc = "get" /\ o.kind = "read"
     \/ o.via = "self" /\ o.pc = "scan" /\ o.kind = "get"
     \/ o.via = "self" /\ o.pc = "scan" /\ ~running /\ o.kind \in {"set", "delete"}
     \/ o.via = "self" /\ o.pc = "scan" /\ ~running /\ o.kind = "boot"
        /\ \A d \in Writers : op[d].kind # "boot"

\* The step with which it begins.
Opens(c) ==
  /\ OpTyped' /\ UNCHANGED storeVars /\ UNCHANGED fileVars
  /\ settled' \in BOOLEAN /\ (settled' <=> settled /\ Busy = {})
  /\ op[c].pc = "idle" /\ Fresh(op'[c]) /\ (op'[c].alone <=> Busy = {})
  /\ \A d \in Writers \ {c} :
       /\ Goes(op[d], op'[d]) /\ op'[d].pc = op[d].pc /\ op'[d].alone = FALSE
       /\ op'[d].cfg = op[d].cfg /\ op'[d].stale = op[d].stale

LEMMA BeginIs ==
  ASSUME OpTyped, NEW c \in Writers, Begin(c)
  PROVE  Opens(c)
<1>1. ASSUME NEW via \in {"daemon", "self"}, NEW pc \in Pcs,
             NEW kind \in {"set", "delete", "get", "read", "boot"},
             NEW k \in Keys \union {Unset}, NEW t \in Texts \union {Unset},
             kind = "set" => k \in Keys /\ t \in Texts,
             Start(c, via, pc, kind, k, t),
             Starts(c, via, pc, kind) => Fresh(op'[c])
      PROVE  Opens(c)
  <2>1. /\ UNCHANGED storeVars /\ UNCHANGED fileVars
        /\ settled' \in BOOLEAN /\ (settled' <=> settled /\ Busy = {})
    BY <1>1 DEF Start
  <2>2. Starts(c, via, pc, kind)
    BY <1>1, StartType
  <2> QED
    BY <1>1, <2>1, <2>2 DEF Starts, Opens
<1>0. "change" \in Pcs /\ "scan" \in Pcs /\ "get" \in Pcs
  BY DEF Pcs
<1>2. ASSUME NEW kind \in {"set", "delete"}, NEW k \in Keys, NEW t \in Texts \union {Unset},
             kind = "set" => t \in Texts, StartChange(c, kind, k, t)
      PROVE  Opens(c)
  <2>1. CASE running
    <3>1. Start(c, "daemon", "change", kind, k, t)
      BY <1>2, <2>1 DEF StartChange
    <3>2. Starts(c, "daemon", "change", kind) => Fresh(op'[c])
      BY <2>1 DEF Starts, Fresh
    <3> QED
      BY <1>0, <1>1, <1>2, <3>1, <3>2
  <2>2. CASE ~running
    <3>1. Start(c, "self", "scan", kind, k, t)
      BY <1>2, <2>2 DEF StartChange
    <3>2. Starts(c, "self", "scan", kind) => Fresh(op'[c])
      BY <2>2 DEF Starts, Fresh
    <3> QED
      BY <1>0, <1>1, <1>2, <3>1, <3>2
  <2> QED
    BY <2>1, <2>2
<1>3. CASE ConfigSet(c)
  BY <1>2, <1>3 DEF ConfigSet
<1>4. CASE ConfigDelete(c)
  BY <1>2, <1>4 DEF ConfigDelete
<1>5. CASE ConfigGet(c)
  <2>1. Start(c, "self", "scan", "get", Unset, Unset)
    BY <1>5 DEF ConfigGet
  <2>2. Starts(c, "self", "scan", "get") => Fresh(op'[c])
    BY DEF Starts, Fresh
  <2> QED
    BY <1>0, <1>1, <2>1, <2>2
<1>6. CASE GetConfig(c)
  <2>1. running /\ Start(c, "daemon", "get", "read", Unset, Unset)
    BY <1>6 DEF GetConfig
  <2>2. Starts(c, "daemon", "get", "read") => Fresh(op'[c])
    BY <2>1 DEF Starts, Fresh
  <2> QED
    BY <1>0, <1>1, <2>1, <2>2
<1>7. CASE BootBegins(c)
  <2>1. /\ Start(c, "self", "scan", "boot", Unset, Unset)
        /\ ~running /\ \A d \in Writers : op[d].kind # "boot"
    BY <1>7 DEF BootBegins
  <2>2. Starts(c, "self", "scan", "boot") => Fresh(op'[c])
    BY <2>1 DEF Starts, Fresh
  <2> QED
    BY <1>0, <1>1, <2>1, <2>2
<1> QED
  BY <1>3, <1>4, <1>5, <1>6, <1>7 DEF Begin

-----------------------------------------------------------------------------
(* The steps of a request to the daemon, with the types they keep. *)

Typed == StoreTyped /\ OpTyped /\ FileTyped

\* Client c has taken a step and is at pc, the others are where they were.
Moves(c, pc) ==
  /\ OpTyped'
  /\ Goes(op[c], op'[c]) /\ op'[c].pc = pc /\ op'[c].alone = op[c].alone
  /\ \A d \in Writers \ {c} : op'[d] = op[d]

Finishes(c) == OpTyped' /\ op'[c] = Idle /\ \A d \in Writers \ {c} : op'[d] = op[d]

\* The layer has changed under the others.
Outdates(c, pc) ==
  /\ OpTyped'
  /\ Goes(op[c], op'[c]) /\ op'[c].pc = pc /\ op'[c].alone = op[c].alone
  /\ op'[c].cfg \in {op[c].cfg, ZeroConfig}
  /\ \A d \in Writers \ {c} : op'[d] = Outdated(op[d])

\* SetByKey and DeleteByKey of a field.
LEMMA FieldIs ==
  ASSUME Typed, NEW c \in Writers, SetField(c) \/ ClearLayerField(c)
  PROVE  /\ op[c].via = "daemon" /\ op[c].pc = "change" /\ op[c].kind \in {"set", "delete"}
         /\ op[c].key \in Fields
         /\ UNCHANGED <<running, heap, config, atRun, launch, settled>> /\ UNCHANGED fileVars
         /\ \/ UNCHANGED <<layers, cache>> /\ Finishes(c)
            \/ /\ \E v \in PlainValues : layers' = [layers EXCEPT ![2].plain[op[c].key] = v]
               /\ cache' = NoConfig
               /\ Outdates(c, "get")
<1> DEFINE r == [op[c] EXCEPT !.pc = "get"]
<1>1. /\ op[c].via = "daemon" /\ op[c].pc = "change" /\ op[c].kind \in {"set", "delete"}
      /\ op[c].key \in Fields
      /\ UNCHANGED <<running, heap, config, atRun, launch, settled>> /\ UNCHANGED fileVars
  BY DEF SetField, ClearLayerField, At
<1>2. CASE Finish(c) /\ UNCHANGED <<layers, cache>>
  BY <1>1, <1>2, FinishType DEF Typed, Finishes
<1>3. CASE /\ \E v \in PlainValues : layers' = [layers EXCEPT ![2].plain[op[c].key] = v]
           /\ cache' = NoConfig /\ OthersStale(c, r)
  <2>1. Goes(op[c], r) /\ r.pc = "get" /\ r.alone = op[c].alone /\ r.cfg = op[c].cfg
    BY DEF Typed, OpTyped, OpType, Goes
  <2> HIDE DEF r
  <2>2. OpTyped' /\ op'[c] = r /\ \A d \in Writers \ {c} : op'[d] = Outdated(op[d])
    BY <1>3, <2>1, OthersType DEF Typed
  <2> QED
    BY <1>1, <1>3, <2>1, <2>2 DEF Outdates
<1>4. CASE SetField(c)
  <2>1. NewValue(op[c]) # Invalid => NewValue(op[c]) \in PlainValues
    <3>1. op[c].kind = "set" /\ op[c].key \in Fields /\ op[c].text \in Texts
      BY <1>1, <1>4 DEF SetField, Typed, OpTyped
    <3> QED
      BY <3>1, Values DEF NewValue
  <2> QED
    BY <1>2, <1>3, <1>4, <2>1 DEF SetField
<1>5. CASE ClearLayerField(c)
  BY <1>3, <1>5, Values DEF ClearLayerField
<1> QED
  BY <1>4, <1>5

\* The copy of the layer, with a map of its own if the layer has none.
Copied(c) ==
  /\ op[c].via = "daemon" /\ op[c].pc = "change"
  /\ UNCHANGED <<running, layers, cache, config, atRun, launch, settled>> /\ UNCHANGED fileVars
  /\ \/ Moves(c, "get") /\ UNCHANGED heap
     \/ /\ Moves(c, "mutate") /\ op'[c].cfg.plain = FileLayer.plain
        /\ \/ FileLayer.plugins # NoMap /\ UNCHANGED heap
           \/ /\ FileLayer.plugins = NoMap /\ FreeMaps # {}
              /\ heap' = [heap EXCEPT ![NewMap] = NoPlugins]

LEMMA CopyIs ==
  ASSUME Typed, NEW c \in Writers, CopyLayer(c)
  PROVE  Copied(c)
<1> DEFINE new == FileLayer.plugins = NoMap
           m == IF new THEN NewMap ELSE FileLayer.plugins
           r == [op[c] EXCEPT !.pc = "mutate", !.cfg = [FileLayer EXCEPT !.plugins = m]]
<1>1. /\ op[c].via = "daemon" /\ op[c].pc = "change"
      /\ UNCHANGED <<running, layers, cache, config, atRun, launch, settled>> /\ UNCHANGED fileVars
      /\ new => FreeMaps # {}
  BY DEF CopyLayer, At
<1>2. CASE new /\ op[c].kind = "delete"
  <2>1. Goto(c, "get") /\ UNCHANGED heap
    BY <1>2 DEF CopyLayer
  <2> QED
    BY <1>1, <2>1, MoveType DEF Copied, Typed, Pcs, Moves
<1>3. CASE ~(new /\ op[c].kind = "delete")
  <2>1. /\ Step(c, [op[c] EXCEPT !.pc = "mutate",
                                 !.cfg = [FileLayer EXCEPT !.plugins = IF new THEN NewMap ELSE @]])
        /\ heap' = IF new THEN [heap EXCEPT ![NewMap] = NoPlugins] ELSE heap
    BY <1>3 DEF CopyLayer
  <2>2. FileLayer \in ConfigType
    BY DEF Typed, StoreTyped, FileLayer
  <2>3. m \in Maps \union {NoMap}
    BY <1>1, <2>2, NewMapType DEF ConfigType
  <2>4. Step(c, r)
    BY <2>1
  <2> HIDE DEF m
  <2>5. [FileLayer EXCEPT !.plugins = m] \in ConfigType
        /\ [FileLayer EXCEPT !.plugins = m].plain = FileLayer.plain
    BY <2>2, <2>3 DEF ConfigType
  <2>6. /\ Goes(op[c], r) /\ r.pc = "mutate" /\ r.alone = op[c].alone /\ r.cfg.plain = FileLayer.plain
    BY <2>5, ZenonT(40) DEF Typed, OpTyped, OpType, Goes
  <2> HIDE DEF r
  <2>7. Moves(c, "mutate") /\ op'[c] = r
    BY <2>4, <2>6, StepType DEF Typed, Moves
  <2> QED
    BY <1>1, <2>1, <2>6, <2>7 DEF Copied
<1> QED
  BY <1>2, <1>3

\* The change of the map, in place.
Mutated(c) ==
  /\ op[c].via = "daemon" /\ op[c].pc = "mutate"
  /\ UNCHANGED <<running, layers, cache, config, atRun, launch, settled>> /\ UNCHANGED fileVars
  /\ heap' \in [Maps -> PluginType]
  /\ \/ Moves(c, "get")
     \/ Moves(c, "replace") /\ op'[c].cfg = op[c].cfg /\ op'[c].stale = op[c].stale

LEMMA MutateIs ==
  ASSUME Typed, NEW c \in Writers, SetPluginKey(c) \/ DeletePluginKey(c)
  PROVE  Mutated(c)
<1>1. /\ op[c].via = "daemon" /\ op[c].pc = "mutate"
      /\ UNCHANGED <<running, layers, cache, config, atRun, launch, settled>> /\ UNCHANGED fileVars
  BY DEF SetPluginKey, DeletePluginKey, At
<1>2. ASSUME NEW v \in Texts \union {Unset}, heap' = [heap EXCEPT ![op[c].cfg.plugins][op[c].key] = v]
      PROVE  heap' \in [Maps -> PluginType]
  BY <1>2 DEF Typed, StoreTyped, PluginType
<1>3. CASE SetPluginKey(c)
  <2>1. heap' = [heap EXCEPT ![op[c].cfg.plugins][op[c].key] = op[c].text] /\ Goto(c, "replace")
    BY <1>3 DEF SetPluginKey
  <2>2. op[c].text \in Texts \union {Unset}
    BY DEF Typed, OpTyped, OpType
  <2> QED
    BY <1>1, <1>2, <2>1, <2>2, MoveType DEF Mutated, Typed, Pcs, Moves
<1>4. CASE DeletePluginKey(c)
  <2>1. CASE heap[op[c].cfg.plugins] = NoPlugins
    <3> DEFINE r == [op[c] EXCEPT !.pc = "get", !.stale = FALSE]
    <3>1. Step(c, r) /\ UNCHANGED heap
      BY <1>4, <2>1 DEF DeletePluginKey
    <3>2. Goes(op[c], r) /\ r.pc = "get" /\ r.alone = op[c].alone
      BY ZenonT(40) DEF Typed, OpTyped, OpType, Goes
    <3> HIDE DEF r
    <3>3. Moves(c, "get")
      BY <3>1, <3>2, StepType DEF Typed, Moves
    <3> QED
      BY <1>1, <3>1, <3>3 DEF Mutated, Typed, StoreTyped
  <2>2. CASE heap[op[c].cfg.plugins] # NoPlugins
    <3>1. heap' = [heap EXCEPT ![op[c].cfg.plugins][op[c].key] = Unset] /\ Goto(c, "replace")
      BY <1>4, <2>2 DEF DeletePluginKey
    <3> QED
      BY <1>1, <1>2, <3>1, MoveType DEF Mutated, Typed, Pcs, Moves
  <2> QED
    BY <2>1, <2>2
<1> QED
  BY <1>3, <1>4

\* The copy takes the place of the layer.
LEMMA ReplaceIs ==
  ASSUME Typed, NEW c \in Writers, Replace(c)
  PROVE  /\ op[c].via = "daemon" /\ op[c].pc = "replace"
         /\ UNCHANGED <<running, heap, config, atRun, launch, settled>> /\ UNCHANGED fileVars
         /\ layers' = [layers EXCEPT ![2] = op[c].cfg] /\ cache' = NoConfig
         /\ Outdates(c, "get")
<1> DEFINE r == [op[c] EXCEPT !.pc = "get", !.cfg = ZeroConfig, !.stale = FALSE]
<1>1. OthersStale(c, r)
  BY DEF Replace
<1>2. /\ Goes(op[c], r) /\ r.pc = "get" /\ r.alone = op[c].alone /\ r.cfg = ZeroConfig
  BY ConstantTypes, ZenonT(40) DEF Typed, OpTyped, OpType, Goes
<1> HIDE DEF r
<1>3. OpTyped' /\ op'[c] = r /\ \A d \in Writers \ {c} : op'[d] = Outdated(op[d])
  BY <1>1, <1>2, OthersType DEF Typed
<1> QED
  BY <1>2, <1>3 DEF Replace, At, Outdates

\* Get, and what follows without a lock.
Got(c) ==
  /\ op[c].via = "daemon" /\ op[c].pc = "get"
  /\ UNCHANGED <<running, layers, heap, config, atRun, launch, settled>> /\ UNCHANGED fileVars
  /\ cache' = IF cache = NoConfig THEN Overlay ELSE cache
  /\ Moves(c, IF op[c].kind = "read" THEN "iterate" ELSE "publish") /\ op'[c].cfg = cache'

LEMMA GetIs ==
  ASSUME Typed, CacheIsOverlay, NEW c \in Writers, Get(c)
  PROVE  Got(c) /\ cache' = Overlay
<1> DEFINE pc == IF op[c].kind = "read" THEN "iterate" ELSE "publish"
           r == [op[c] EXCEPT !.pc = pc, !.cfg = cache']
<1>1. cache' = Overlay /\ cache' \in ConfigType
  BY LayersType DEF Get, CacheIsOverlay, Typed
<1>2. Step(c, r)
  BY DEF Get
<1>3. pc \in Pcs
  BY DEF Pcs
<1> HIDE DEF pc
<1>4. Goes(op[c], r) /\ r.pc = pc /\ r.alone = op[c].alone /\ r.cfg = cache'
  BY <1>1, <1>3, ZenonT(40) DEF Typed, OpTyped, OpType, Goes, Pcs
<1> HIDE DEF r
<1>5. Moves(c, pc) /\ op'[c] = r
  BY <1>2, <1>4, StepType DEF Typed, Moves
<1> QED
  BY <1>1, <1>4, <1>5 DEF Get, At, Got, pc

LEMMA PublishIs ==
  ASSUME Typed, NEW c \in Writers, Publish(c)
  PROVE  /\ op[c].via = "daemon" /\ op[c].pc = "publish" /\ Moves(c, "layer")
         /\ config' = op[c].cfg
         /\ UNCHANGED <<running, layers, cache, heap, atRun, launch, settled>> /\ UNCHANGED fileVars
  BY MoveType DEF Publish, At, Typed, Pcs, Moves

LEMMA GetLayerIs ==
  ASSUME Typed, NEW c \in Writers, GetLayer(c)
  PROVE  /\ op[c].via = "daemon" /\ op[c].pc = "layer" /\ Moves(c, "marshal")
         /\ op'[c].cfg = FileLayer
         /\ UNCHANGED storeVars /\ UNCHANGED settled /\ UNCHANGED fileVars
<1> DEFINE r == [op[c] EXCEPT !.pc = "marshal", !.cfg = FileLayer]
<1>1. FileLayer \in ConfigType
  BY DEF Typed, StoreTyped, FileLayer
<1>2. Step(c, r)
  BY DEF GetLayer
<1>3. Goes(op[c], r) /\ r.pc = "marshal" /\ r.alone = op[c].alone /\ r.cfg = FileLayer
  BY <1>1, ZenonT(40) DEF Typed, OpTyped, OpType, Goes
<1> HIDE DEF r
<1>4. Moves(c, "marshal") /\ op'[c] = r
  BY <1>2, <1>3, StepType DEF Typed, Moves
<1> QED
  BY <1>3, <1>4 DEF GetLayer, At

LEMMA MarshalIs ==
  ASSUME Typed, NEW c \in Writers, Marshal(c)
  PROVE  /\ op[c].via = "daemon" /\ op[c].pc = "marshal" /\ Moves(c, "saving")
         /\ SaveBegin(c, Contents(op[c].cfg)) /\ Contents(op[c].cfg) \in Documents
         /\ UNCHANGED storeVars /\ UNCHANGED settled
<1> DEFINE r == [op[c] EXCEPT !.pc = "saving", !.cfg = ZeroConfig]
<1>1. Contents(op[c].cfg) \in Documents
  BY ContentsType DEF Typed, OpTyped, OpType
<1>2. Step(c, r)
  BY DEF Marshal
<1>3. Goes(op[c], r) /\ r.pc = "saving" /\ r.alone = op[c].alone
  BY ConstantTypes, ZenonT(40) DEF Typed, OpTyped, OpType, Goes
<1> HIDE DEF r
<1>4. Moves(c, "saving")
  BY <1>2, <1>3, StepType DEF Typed, Moves
<1> QED
  BY <1>1, <1>4 DEF Marshal, At

-----------------------------------------------------------------------------
(* The steps of a process that opens the file itself. *)

LEMMA ScanIs ==
  ASSUME Typed, NEW c \in Writers, RecoverScan(c)
  PROVE  /\ op[c].via = "self" /\ op[c].pc = "scan"
         /\ Moves(c, IF DOMAIN tmp = {} THEN "load" ELSE "promote")
         /\ UNCHANGED storeVars /\ UNCHANGED settled /\ UNCHANGED fileVars
<1> DEFINE pc == IF DOMAIN tmp = {} THEN "load" ELSE "promote"
           r == [op[c] EXCEPT !.pc = pc, !.entries = DOMAIN tmp]
<1>1. Step(c, r)
  BY DEF RecoverScan
<1>2. pc \in Pcs
  BY DEF Pcs
<1>3. DOMAIN tmp \in SUBSET (1..MaxStamp)
  BY DEF Typed, FileTyped
<1> HIDE DEF pc
<1>4. Goes(op[c], r) /\ r.pc = pc /\ r.alone = op[c].alone
  BY <1>2, <1>3, ZenonT(40) DEF Typed, OpTyped, OpType, Goes, Pcs
<1> HIDE DEF r
<1>5. Moves(c, pc)
  BY <1>1, <1>4, StepType DEF Typed, Moves
<1> QED
  BY <1>5 DEF RecoverScan, At, pc

LEMMA RecoverIs ==
  ASSUME Typed, NEW c \in Writers, RecoverPromote(c) \/ RecoverClean(c)
  PROVE  /\ op[c].via = "self" /\ op[c].pc \in {"promote", "clean"}
         /\ Moves(c, "clean") \/ Moves(c, "load")
         /\ UNCHANGED storeVars /\ UNCHANGED <<settled, save>>
<1>1. /\ op[c].via = "self" /\ op[c].pc \in {"promote", "clean"}
      /\ UNCHANGED storeVars /\ UNCHANGED <<settled, save>>
  BY DEF RecoverPromote, RecoverClean, At
<1>2. PICK pc \in {"clean", "load"}, es \in {op[c].entries, {}} :
        Step(c, [op[c] EXCEPT !.pc = pc, !.entries = es])
  <2>1. CASE RecoverPromote(c)
    <3>1. CASE Max(op[c].entries) \in DOMAIN tmp
      BY <2>1, <3>1 DEF RecoverPromote, Typed, OpTyped, OpType
    <3>2. CASE Max(op[c].entries) \notin DOMAIN tmp
      BY <2>1, <3>2 DEF RecoverPromote
    <3> QED
      BY <3>1, <3>2
  <2>2. CASE RecoverClean(c)
    BY <2>2 DEF RecoverClean
  <2> QED
    BY <2>1, <2>2
<1> DEFINE r == [op[c] EXCEPT !.pc = pc, !.entries = es]
<1>6. op[c] \in OpType /\ es \in SUBSET (1..MaxStamp)
  BY DEF Typed, OpTyped, OpType
<1>3. Goes(op[c], r) /\ r.pc = pc /\ r.alone = op[c].alone
  BY <1>6 DEF OpType, Goes
<1>4. Step(c, r)
  BY <1>2
<1> HIDE DEF r
<1>5. Moves(c, pc)
  BY <1>4, <1>3, StepType DEF Typed, Moves
<1> QED
  BY <1>1, <1>5

LEMMA LoadIs ==
  ASSUME Typed, NEW c \in Writers, LoadFile(c)
  PROVE  /\ op[c].via = "self" /\ op[c].pc = "load"
         /\ Finishes(c) \/ (Moves(c, "own") /\ op[c].kind # "get")
         /\ UNCHANGED storeVars /\ UNCHANGED settled /\ UNCHANGED fileVars
<1>1. /\ op[c].via = "self" /\ op[c].pc = "load"
      /\ UNCHANGED storeVars /\ UNCHANGED settled /\ UNCHANGED fileVars
  BY DEF LoadFile, At
<1>2. CASE Finish(c)
  BY <1>1, <1>2, FinishType DEF Typed, Finishes
<1>3. CASE ~Finish(c)
  <2> DEFINE r == [op[c] EXCEPT !.pc = "own", !.doc = LoadRaw(Load)]
  <2>1. Load # Torn /\ op[c].kind # "get" /\ Step(c, r)
    BY <1>3 DEF LoadFile
  <2>2. LoadRaw(Load) \in Documents
    BY <2>1, LoadRawType, ReadType DEF Typed
  <2>3. Goes(op[c], r) /\ r.pc = "own" /\ r.alone = op[c].alone
    BY <2>2, ZenonT(40) DEF Typed, OpTyped, OpType, Goes
  <2> HIDE DEF r
  <2>4. Moves(c, "own")
    BY <2>1, <2>3, StepType DEF Typed, Moves
  <2> QED
    BY <1>1, <2>1, <2>4
<1> QED
  BY <1>2, <1>3

LEMMA OwnIs ==
  ASSUME Typed, NEW c \in Writers, op[c].kind \in {"set", "delete"}, ChangeOwn(c)
  PROVE  /\ op[c].via = "self" /\ op[c].pc = "own"
         /\ UNCHANGED storeVars /\ UNCHANGED settled
         /\ \/ Finishes(c) /\ UNCHANGED fileVars
            \/ Moves(c, "saving") /\ \E doc \in Documents : SaveBegin(c, doc)
<1> DEFINE o == op[c]
           v == IF o.kind = "delete" THEN Unset ELSE NewValue(o)
           doc == IF o.key \in Fields THEN [o.doc EXCEPT !.plain[o.key] = v]
                  ELSE [o.doc EXCEPT !.plugins[o.key] = v]
           r == [o EXCEPT !.pc = "saving", !.doc = Empty]
<1>1. /\ op[c].via = "self" /\ op[c].pc = "own"
      /\ UNCHANGED storeVars /\ UNCHANGED settled
  BY DEF ChangeOwn, At
<1>2. CASE Finish(c) /\ UNCHANGED fileVars
  BY <1>1, <1>2, FinishType DEF Typed, Finishes
<1>3. CASE v # Invalid /\ SaveBegin(c, doc) /\ Step(c, r)
  <2>1. Goes(op[c], r) /\ r.pc = "saving" /\ r.alone = op[c].alone
    BY ConstantTypes DEF Typed, OpTyped, OpType, Goes
  <2>2. doc \in Documents
    <3>1. o.doc \in Documents /\ o.doc.plain \in PlainType /\ o.doc.plugins \in PluginType
      BY DEF Typed, OpTyped, OpType, Documents
    <3>2. CASE o.key \in Fields
      <4>1. v \in PlainValues
        <5>1. o.kind = "set" => o.text \in Texts
          BY DEF Typed, OpTyped
        <5> QED
          BY <1>3, <3>2, <5>1, Values DEF NewValue
      <4>2. [o.doc.plain EXCEPT ![o.key] = v] \in PlainType
        BY <3>1, <4>1 DEF PlainType
      <4> QED
        BY <3>1, <3>2, <4>2 DEF Documents
    <3>3. CASE o.key \notin Fields
      <4>1. v \in Texts \union {Unset}
        BY <3>3 DEF NewValue, Typed, OpTyped, OpType
      <4>2. [o.doc.plugins EXCEPT ![o.key] = v] \in PluginType
        BY <3>1, <4>1 DEF PluginType
      <4> QED
        BY <3>1, <3>3, <4>2 DEF Documents
    <3> QED
      BY <3>2, <3>3
  <2> HIDE DEF r, doc
  <2>3. Moves(c, "saving")
    BY <1>3, <2>1, StepType DEF Typed, Moves
  <2> QED
    BY <1>1, <1>3, <2>2, <2>3
<1> QED
  BY <1>2, <1>3 DEF ChangeOwn

-----------------------------------------------------------------------------
(* Who is doing what. *)

DaemonPcs == {"change", "mutate", "replace", "get", "iterate", "publish", "layer", "marshal"}
SelfPcs   == {"scan", "promote", "clean", "load", "own"}
ChangePcs == {"publish", "layer", "marshal", "own", "saving"}

\* Requests are served by a daemon that runs, and only one daemon starts, when none runs.
Calls ==
  \A c \in Writers :
    /\ op[c].via = "daemon" => running /\ op[c].kind \in {"set", "delete", "read"}
    /\ op[c].via = "self" => op[c].kind \in {"set", "delete", "get", "boot"}
    /\ op[c].pc \in DaemonPcs => op[c].via = "daemon"
    /\ op[c].pc \in SelfPcs => op[c].via = "self"
    /\ op[c].pc \in ChangePcs => op[c].kind \in {"set", "delete"}
    /\ op[c].pc = "idle" => op[c].kind = "none"
    /\ op[c].kind = "boot" => ~running /\ \A d \in Writers : op[d].kind = "boot" => d = c
    /\ save[c].pc # "none" => op[c].pc = "saving"

\* The part of it that speaks of one client at a place.
Placed(o, pc) ==
  /\ pc # "idle"
  /\ pc \in DaemonPcs => o.via = "daemon"
  /\ pc \in SelfPcs => o.via = "self"
  /\ pc \in ChangePcs => o.kind \in {"set", "delete"}

LEMMA CallsMove ==
  ASSUME Calls, NEW c \in Writers, NEW pc, UNCHANGED running,
         Goes(op[c], op'[c]), op'[c].pc = pc, Placed(op[c], pc),
         \A d \in Writers \ {c} : Goes(op[d], op'[d]) /\ op'[d].pc = op[d].pc,
         \A d \in Writers \ {c} : save'[d].pc # "none" => save[d].pc # "none",
         save'[c].pc # "none" => pc = "saving"
  PROVE  Calls'
<1>1. \A d \in Writers : op'[d].via = op[d].via /\ op'[d].kind = op[d].kind
  BY DEF Goes
<1> QED
  BY <1>1 DEF Calls, Placed

LEMMA CallsFinish ==
  ASSUME Calls, NEW c \in Writers, UNCHANGED running, Finishes(c),
         \A d \in Writers : save'[d].pc # "none" => save[d].pc # "none" /\ d # c
  PROVE  Calls'
<1>1. Idle.pc = "idle" /\ Idle.via = "none" /\ Idle.kind = "none"
  BY IdleType
<1> QED
  BY <1>1 DEF Calls, Finishes, DaemonPcs, SelfPcs, ChangePcs

\* A writer that is not saving has no save in progress.
LEMMA NotSaved ==
  ASSUME Calls, NEW c \in Writers, op[c].pc # "saving"
  PROVE  save[c].pc = "none"
  BY DEF Calls

LEMMA SaveBeginPcs ==
  ASSUME FileTyped, NEW w \in Writers, NEW s, SaveBegin(w, s)
  PROVE  /\ save'[w].pc = "open" /\ save'[w].snapshot = s
         /\ \A v \in Writers \ {w} : save'[v].pc = save[v].pc /\ save'[v].stamp = save[v].stamp
         /\ save[w].pc = "none" /\ UNCHANGED <<canonical, tmp, data>>
<1>1. [NotSaving EXCEPT !.pc = "open", !.snapshot = s, !.alone = Saving = {}].pc = "open"
      /\ [NotSaving EXCEPT !.pc = "open", !.snapshot = s, !.alone = Saving = {}].snapshot = s
  BY DEF NotSaving
<1>2. \A v \in Writers : [save[v] EXCEPT !.alone = FALSE].pc = save[v].pc
                         /\ [save[v] EXCEPT !.alone = FALSE].stamp = save[v].stamp
  BY DEF FileTyped, SaveType
<1> QED
  BY <1>1, <1>2 DEF SaveBegin

-----------------------------------------------------------------------------
(* Types and places, step by step. *)

TypeInv == Typed /\ Calls

LEMMA OutdatedGoes ==
  ASSUME Typed, NEW c \in Writers, NEW pc, Outdates(c, pc)
  PROVE  \A d \in Writers \ {c} : Goes(op[d], op'[d]) /\ op'[d].pc = op[d].pc
  BY OutdatedType DEF Outdates, Typed, OpTyped

LEMMA SameGoes ==
  ASSUME Typed, NEW d \in Writers
  PROVE  Goes(op[d], op[d])
  BY DEF Typed, OpTyped, Goes

LEMMA SameFiles == FileTyped /\ UNCHANGED fileVars => FileTyped' /\ UNCHANGED save
  BY DEF FileTyped, fileVars

LEMMA SameStore == StoreTyped /\ UNCHANGED storeVars /\ settled' \in BOOLEAN => StoreTyped' /\ UNCHANGED running
  BY DEF StoreTyped, storeVars, DefaultLayer, FlagLayer

LEMMA FieldTyped ==
  ASSUME StoreTyped, NEW f \in Fields, NEW v \in PlainValues,
         layers' = [layers EXCEPT ![2].plain[f] = v]
  PROVE  /\ DOMAIN layers' = 1..3
         /\ layers'[1] = layers[1] /\ layers'[3] = layers[3] /\ layers'[2] \in ConfigType
         /\ layers'[2].plain = [layers[2].plain EXCEPT ![f] = v]
         /\ layers'[2].plugins = layers[2].plugins
<1>1. layers[2] \in ConfigType /\ layers[2].plain \in PlainType
  BY DEF StoreTyped, ConfigType
<1>2. [layers[2].plain EXCEPT ![f] = v] \in PlainType
  BY <1>1 DEF PlainType
<1>3. layers'[2] = [layers[2] EXCEPT !.plain = [layers[2].plain EXCEPT ![f] = v]]
  BY DEF StoreTyped
<1>4. DOMAIN layers' = 1..3 /\ layers'[1] = layers[1] /\ layers'[3] = layers[3]
  BY DEF StoreTyped
<1> QED
  BY <1>1, <1>2, <1>3, <1>4 DEF ConfigType

LEMMA BeginTyped ==
  ASSUME TypeInv, NEW c \in Writers, Begin(c)
  PROVE  TypeInv'
<1> USE DEF TypeInv
<1>1. Opens(c)
  BY BeginIs DEF Typed
<1>2. settled' \in BOOLEAN
  BY <1>1 DEF Opens
<1>3. Typed'
  BY <1>1, <1>2, SameStore, SameFiles DEF Opens, Typed
<1>4. /\ UNCHANGED <<running, save>>
      /\ \A d \in Writers \ {c} : op'[d].via = op[d].via /\ op'[d].kind = op[d].kind /\ op'[d].pc = op[d].pc
      /\ Fresh(op'[c]) /\ op[c].pc = "idle"
  BY <1>1 DEF Opens, Goes, storeVars, fileVars
<1>5. save[c].pc = "none" /\ op[c].kind = "none"
  BY <1>4, NotSaved DEF Calls
<1>6. ASSUME NEW d \in Writers \ {c}
      PROVE /\ op'[d].via = "daemon" => running' /\ op'[d].kind \in {"set", "delete", "read"}
            /\ op'[d].via = "self" => op'[d].kind \in {"set", "delete", "get", "boot"}
            /\ op'[d].pc \in DaemonPcs => op'[d].via = "daemon"
            /\ op'[d].pc \in SelfPcs => op'[d].via = "self"
            /\ op'[d].pc \in ChangePcs => op'[d].kind \in {"set", "delete"}
            /\ op'[d].pc = "idle" => op'[d].kind = "none"
            /\ op'[d].kind = "boot" => ~running' /\ op'[c].kind # "boot"
                                       /\ \A e \in Writers : op'[e].kind = "boot" => e = d
            /\ save'[d].pc # "none" => op'[d].pc = "saving"
  <2>1. op[d].kind = "boot" => op'[c].kind # "boot"
    BY <1>4 DEF Fresh
  <2> QED
    BY <1>4, <1>6, <2>1 DEF Calls
<1>7. /\ op'[c].via = "daemon" => running' /\ op'[c].kind \in {"set", "delete", "read"}
      /\ op'[c].via = "self" => op'[c].kind \in {"set", "delete", "get", "boot"}
      /\ op'[c].pc \in DaemonPcs => op'[c].via = "daemon"
      /\ op'[c].pc \in SelfPcs => op'[c].via = "self"
      /\ op'[c].pc \notin ChangePcs /\ op'[c].pc # "idle"
      /\ op'[c].kind = "boot" => ~running' /\ \A d \in Writers : op'[d].kind = "boot" => d = c
      /\ save'[c].pc = "none"
  BY <1>4, <1>5 DEF Fresh, DaemonPcs, SelfPcs, ChangePcs
<1>8. Calls'
  BY <1>6, <1>7 DEF Calls
<1> QED
  BY <1>3, <1>8

LEMMA RequestTyped ==
  ASSUME TypeInv, CacheIsOverlay, NEW c \in Writers,
         \/ SetField(c) \/ ClearLayerField(c)
         \/ CopyLayer(c) \/ SetPluginKey(c) \/ DeletePluginKey(c) \/ Replace(c)
         \/ Get(c) \/ AllKeys(c) \/ Publish(c) \/ GetLayer(c) \/ Marshal(c)
  PROVE  TypeInv'
<1> USE DEF TypeInv
<1>0. \A d \in Writers : Goes(op[d], op[d])
  BY SameGoes
<1>a. ASSUME NEW pc, Moves(c, pc), op[c].pc # "saving", Placed(op[c], pc), UNCHANGED <<running, save>>
      PROVE  Calls'
  <2>1. save'[c].pc = "none"
    BY <1>a, NotSaved
  <2> QED
    BY <1>a, <1>0, <2>1, CallsMove DEF Moves
<1>b. ASSUME Outdates(c, "get"), op[c].pc \in DaemonPcs, UNCHANGED <<running, save>>
      PROVE  Calls'
  <2>1. Placed(op[c], "get")
    BY <1>b DEF Calls, Placed, DaemonPcs, SelfPcs, ChangePcs
  <2>2. save'[c].pc = "none"
    BY <1>b, NotSaved DEF DaemonPcs
  <2> QED
    BY <1>b, <2>1, <2>2, OutdatedGoes, CallsMove DEF Outdates
<1>c. ASSUME NEW pc, Moves(c, pc), op[c].pc \in DaemonPcs, pc \in DaemonPcs, UNCHANGED <<running, save>>,
             pc \in ChangePcs => op[c].kind \in {"set", "delete"}
      PROVE  Calls'
  <2>1. Placed(op[c], pc) /\ op[c].pc # "saving"
    BY <1>c DEF Calls, Placed, DaemonPcs, SelfPcs
  <2> QED
    BY <1>a, <1>c, <2>1
<1>1. CASE SetField(c) \/ ClearLayerField(c)
  <2>1. /\ op[c].pc = "change" /\ op[c].key \in Fields
        /\ UNCHANGED <<running, heap, config, atRun, launch, settled>> /\ UNCHANGED fileVars
        /\ \/ UNCHANGED <<layers, cache>> /\ Finishes(c)
           \/ /\ \E v \in PlainValues : layers' = [layers EXCEPT ![2].plain[op[c].key] = v]
              /\ cache' = NoConfig
              /\ Outdates(c, "get")
    BY <1>1, FieldIs
  <2>2. CASE UNCHANGED <<layers, cache>> /\ Finishes(c)
    <3>1. Typed'
      BY <2>1, <2>2, SameStore, SameFiles DEF Typed, storeVars, Finishes, StoreTyped
    <3>2. \A d \in Writers : save'[d].pc # "none" => save[d].pc # "none" /\ d # c
      BY <2>1, NotSaved DEF fileVars
    <3> QED
      BY <2>1, <2>2, <3>1, <3>2, CallsFinish
  <2>3. CASE /\ \E v \in PlainValues : layers' = [layers EXCEPT ![2].plain[op[c].key] = v]
             /\ cache' = NoConfig
             /\ Outdates(c, "get")
    <3>1. StoreTyped'
      BY <2>1, <2>3, FieldTyped DEF Typed, StoreTyped, DefaultLayer, FlagLayer
    <3>2. Typed'
      BY <2>1, <2>3, <3>1, SameFiles DEF Typed, Outdates
    <3> QED
      BY <1>b, <2>1, <2>3, <3>2 DEF DaemonPcs, fileVars
  <2> QED
    BY <2>1, <2>2, <2>3
<1>2. CASE CopyLayer(c)
  <2>1. Copied(c)
    BY <1>2, CopyIs
  <2>2. heap' \in [Maps -> PluginType]
    BY <2>1, NewMapType, ConstantTypes DEF Copied, Typed, StoreTyped
  <2>3. Typed'
    BY <2>1, <2>2, SameFiles DEF Copied, Moves, Typed, StoreTyped, DefaultLayer, FlagLayer
  <2> QED
    BY <1>c, <2>1, <2>3 DEF Copied, DaemonPcs, ChangePcs, fileVars
<1>3. CASE SetPluginKey(c) \/ DeletePluginKey(c)
  <2>1. Mutated(c)
    BY <1>3, MutateIs
  <2>2. Typed'
    BY <2>1, SameFiles DEF Mutated, Moves, Typed, StoreTyped, DefaultLayer, FlagLayer
  <2> QED
    BY <1>c, <2>1, <2>2 DEF Mutated, DaemonPcs, ChangePcs, fileVars
<1>4. CASE Replace(c)
  <2>1. /\ op[c].pc = "replace"
        /\ UNCHANGED <<running, heap, config, atRun, launch, settled>> /\ UNCHANGED fileVars
        /\ layers' = [layers EXCEPT ![2] = op[c].cfg] /\ cache' = NoConfig
        /\ Outdates(c, "get")
    BY <1>4, ReplaceIs
  <2>2. op[c].cfg \in ConfigType
    BY DEF Typed, OpTyped, OpType
  <2>3. Typed'
    BY <2>1, <2>2, SameFiles DEF Outdates, Typed, StoreTyped, DefaultLayer, FlagLayer
  <2> QED
    BY <1>b, <2>1, <2>3 DEF DaemonPcs, fileVars
<1>5. CASE Get(c)
  <2>1. Got(c) /\ cache' = Overlay
    BY <1>5, GetIs
  <2>2. Typed'
    BY <2>1, LayersType, SameFiles DEF Got, Moves, Typed, StoreTyped, DefaultLayer, FlagLayer
  <2>3. op[c].kind \in {"set", "delete", "read"}
    BY <2>1 DEF Got, Calls
  <2> QED
    BY <1>c, <2>1, <2>2, <2>3 DEF Got, DaemonPcs, ChangePcs, fileVars
<1>6. CASE AllKeys(c)
  <2>1. Finishes(c) /\ op[c].pc = "iterate" /\ UNCHANGED storeVars /\ UNCHANGED settled /\ UNCHANGED fileVars
    BY <1>6, FinishType DEF AllKeys, At, Finishes, Typed
  <2>2. Typed'
    BY <2>1, SameStore, SameFiles DEF Finishes, Typed, StoreTyped
  <2>3. \A d \in Writers : save'[d].pc # "none" => save[d].pc # "none" /\ d # c
    BY <2>1, NotSaved DEF fileVars
  <2> QED
    BY <2>1, <2>2, <2>3, CallsFinish DEF storeVars
<1>7. CASE Publish(c)
  <2>1. /\ op[c].pc = "publish" /\ Moves(c, "layer") /\ config' = op[c].cfg
        /\ UNCHANGED <<running, layers, cache, heap, atRun, launch, settled>> /\ UNCHANGED fileVars
    BY <1>7, PublishIs
  <2>2. op[c].cfg \in ConfigType
    BY DEF Typed, OpTyped, OpType
  <2>3. Typed'
    BY <2>1, <2>2, SameFiles DEF Moves, Typed, StoreTyped, DefaultLayer, FlagLayer
  <2>4. op[c].kind \in {"set", "delete"}
    BY <2>1 DEF Calls, ChangePcs
  <2> QED
    BY <1>c, <2>1, <2>3, <2>4 DEF DaemonPcs, fileVars
<1>8. CASE GetLayer(c)
  <2>1. /\ op[c].pc = "layer" /\ Moves(c, "marshal")
        /\ UNCHANGED storeVars /\ UNCHANGED settled /\ UNCHANGED fileVars
    BY <1>8, GetLayerIs
  <2>2. Typed'
    BY <2>1, SameStore, SameFiles DEF Moves, Typed, StoreTyped
  <2>3. op[c].kind \in {"set", "delete"}
    BY <2>1 DEF Calls, ChangePcs
  <2> QED
    BY <1>c, <2>1, <2>2, <2>3 DEF DaemonPcs, storeVars, fileVars
<1>9. CASE Marshal(c)
  <2> DEFINE doc == Contents(op[c].cfg)
  <2>1. /\ op[c].pc = "marshal" /\ Moves(c, "saving") /\ SaveBegin(c, doc) /\ doc \in Documents
        /\ UNCHANGED storeVars /\ UNCHANGED settled
    BY <1>9, MarshalIs
  <2> HIDE DEF doc
  <2>2. Typed'
    BY <2>1, SameStore, SaveBeginType DEF Moves, Typed, StoreTyped
  <2>3. Placed(op[c], "saving")
    BY <2>1 DEF Calls, ChangePcs, DaemonPcs, SelfPcs, Placed
  <2>4. \A d \in Writers \ {c} : save'[d].pc # "none" => save[d].pc # "none"
    BY <2>1, SaveBeginPcs DEF Typed
  <2>5. Calls'
    BY <1>0, <2>1, <2>3, <2>4, CallsMove DEF Moves, storeVars
  <2> QED
    BY <2>2, <2>5
<1> QED
  BY <1>1, <1>2, <1>3, <1>4, <1>5, <1>6, <1>7, <1>8, <1>9

LEMMA SelfTyped ==
  ASSUME TypeInv, NEW c \in Writers,
         \/ RecoverScan(c) \/ RecoverPromote(c) \/ RecoverClean(c) \/ LoadFile(c) \/ ChangeOwn(c)
  PROVE  TypeInv'
<1> USE DEF TypeInv
<1>0. \A d \in Writers : Goes(op[d], op[d])
  BY SameGoes
<1>a. ASSUME NEW pc, Moves(c, pc), op[c].pc \in SelfPcs, pc \in SelfPcs, UNCHANGED <<running, save>>,
             pc \in ChangePcs => op[c].kind \in {"set", "delete"}
      PROVE  Calls'
  <2>1. Placed(op[c], pc) /\ op[c].pc # "saving"
    BY <1>a DEF Calls, Placed, DaemonPcs, SelfPcs
  <2>2. save'[c].pc = "none"
    BY <1>a, <2>1, NotSaved
  <2> QED
    BY <1>a, <1>0, <2>1, <2>2, CallsMove DEF Moves
<1>b. ASSUME Finishes(c), op[c].pc # "saving", UNCHANGED storeVars, UNCHANGED settled, UNCHANGED fileVars
      PROVE  TypeInv'
  <2>1. Typed'
    BY <1>b, SameStore, SameFiles DEF Finishes, Typed, StoreTyped
  <2>2. \A d \in Writers : save'[d].pc # "none" => save[d].pc # "none" /\ d # c
    BY <1>b, NotSaved DEF fileVars
  <2> QED
    BY <1>b, <2>1, <2>2, CallsFinish DEF storeVars
<1>1. CASE RecoverScan(c)
  <2> DEFINE pc == IF DOMAIN tmp = {} THEN "load" ELSE "promote"
  <2>1. /\ op[c].pc = "scan" /\ Moves(c, pc)
        /\ UNCHANGED storeVars /\ UNCHANGED settled /\ UNCHANGED fileVars
    BY <1>1, ScanIs
  <2>2. Typed'
    BY <2>1, SameStore, SameFiles DEF Moves, Typed, StoreTyped
  <2>3. pc \in SelfPcs /\ pc \notin ChangePcs
    BY DEF SelfPcs, ChangePcs
  <2> HIDE DEF pc
  <2> QED
    BY <1>a, <2>1, <2>2, <2>3 DEF SelfPcs, storeVars, fileVars
<1>2. CASE RecoverPromote(c) \/ RecoverClean(c)
  <2>1. /\ op[c].pc \in {"promote", "clean"}
        /\ Moves(c, "clean") \/ Moves(c, "load")
        /\ UNCHANGED storeVars /\ UNCHANGED <<settled, save>>
    BY <1>2, RecoverIs
  <2>2. FileTyped'
    BY <1>2, RecoveryType DEF Typed
  <2>3. Typed'
    BY <2>1, <2>2, SameStore DEF Moves, Typed, StoreTyped
  <2> QED
    BY <1>a, <2>1, <2>3 DEF SelfPcs, ChangePcs, storeVars
<1>3. CASE LoadFile(c)
  <2>1. /\ op[c].via = "self" /\ op[c].pc = "load" /\ op[c].kind # "boot"
        /\ Finishes(c) \/ (Moves(c, "own") /\ op[c].kind # "get")
        /\ UNCHANGED storeVars /\ UNCHANGED settled /\ UNCHANGED fileVars
    BY <1>3, LoadIs DEF LoadFile
  <2>2. op[c].kind # "get" => op[c].kind \in {"set", "delete"}
    BY <2>1 DEF Calls
  <2>3. CASE Finishes(c)
    BY <1>b, <2>1, <2>3
  <2>4. CASE Moves(c, "own") /\ op[c].kind # "get"
    <3>1. Typed'
      BY <2>1, <2>4, SameStore, SameFiles DEF Moves, Typed, StoreTyped
    <3> QED
      BY <1>a, <2>1, <2>2, <2>4, <3>1 DEF SelfPcs, storeVars, fileVars
  <2> QED
    BY <2>1, <2>3, <2>4
<1>4. CASE ChangeOwn(c)
  <2>1. op[c].kind \in {"set", "delete"}
    BY <1>4 DEF ChangeOwn, At, Calls, ChangePcs
  <2>2. /\ op[c].via = "self" /\ op[c].pc = "own"
        /\ UNCHANGED storeVars /\ UNCHANGED settled
        /\ \/ Finishes(c) /\ UNCHANGED fileVars
           \/ Moves(c, "saving") /\ \E doc \in Documents : SaveBegin(c, doc)
    BY <1>4, <2>1, OwnIs
  <2>3. CASE Finishes(c) /\ UNCHANGED fileVars
    BY <1>b, <2>2, <2>3
  <2>4. ASSUME Moves(c, "saving"), NEW doc \in Documents, SaveBegin(c, doc)
        PROVE  TypeInv'
    <3>1. Typed'
      BY <2>2, <2>4, SameStore, SaveBeginType DEF Moves, Typed, StoreTyped
    <3>2. Placed(op[c], "saving")
      BY <2>1 DEF ChangePcs, DaemonPcs, SelfPcs, Placed
    <3>3. \A d \in Writers \ {c} : save'[d].pc # "none" => save[d].pc # "none"
      BY <2>4, SaveBeginPcs DEF Typed
    <3>4. Calls'
      BY <1>0, <2>2, <2>4, <3>2, <3>3, CallsMove DEF Moves, storeVars
    <3> QED
      BY <3>1, <3>4
  <2> QED
    BY <2>2, <2>3, <2>4
<1> QED
  BY <1>1, <1>2, <1>3, <1>4

LEMMA SaveTyped ==
  ASSUME TypeInv, NEW c \in Writers, SaveMoves(c) \/ SaveEnds(c) \/ SaveBreaks(c) \/ CommandEnds(c)
  PROVE  TypeInv'
<1> USE DEF TypeInv
<1>1. CASE SaveMoves(c)
  <2>1. op[c].pc = "saving" /\ SaveStep(c) /\ UNCHANGED storeVars /\ UNCHANGED <<op, settled>>
    BY <1>1 DEF SaveMoves
  <2>2. FileTyped'
    BY <2>1, OpenTempType, WriteTempType DEF SaveStep, Typed
  <2>3. Typed'
    BY <2>1, <2>2, SameStore DEF Typed, StoreTyped, OpTyped
  <2>4. \A d \in Writers \ {c} : save'[d] = save[d]
    BY <2>1 DEF SaveStep, OpenTemp, WriteTemp, Typed, FileTyped
  <2>5. Calls'
    BY <2>1, <2>4 DEF Calls, storeVars
  <2> QED
    BY <2>3, <2>5
<1>2. CASE SaveEnds(c) \/ SaveBreaks(c) \/ CommandEnds(c)
  <2>1. /\ Finish(c) /\ UNCHANGED storeVars /\ settled' \in BOOLEAN
        /\ save' = [save EXCEPT ![c] = NotSaving]
    BY <1>2 DEF SaveEnds, SaveBreaks, CommandEnds, RenameTemp, SaveFails, Typed, StoreTyped
  <2>2. FileTyped'
    <3>1. CASE SaveEnds(c) \/ SaveBreaks(c)
      BY <3>1, LeaveType DEF SaveEnds, SaveBreaks, Typed
    <3>2. CASE CommandEnds(c)
      BY <3>2, <2>1, NotSavingType DEF CommandEnds, Typed, FileTyped
    <3> QED
      BY <1>2, <3>1, <3>2
  <2>3. Finishes(c)
    BY <2>1, FinishType DEF Finishes, Typed
  <2>4. Typed'
    BY <2>1, <2>2, <2>3, SameStore DEF Finishes, Typed
  <2>5. \A d \in Writers : save'[d].pc # "none" => save[d].pc # "none" /\ d # c
    BY <2>1, NotSavingType DEF Typed, FileTyped
  <2> QED
    BY <2>1, <2>3, <2>4, <2>5, CallsFinish DEF storeVars
<1> QED
  BY <1>1, <1>2

\* What the daemon has when it starts with what it has read.
Booted(c, doc, m) ==
  LET effective == OverlayOne(OverlayOne(DefaultLayer, [plain |-> doc.plain, plugins |-> m]), FlagLayer) IN
  /\ running' = TRUE
  /\ heap' = [heap EXCEPT ![1] = doc.plugins]
  /\ layers' = <<DefaultLayer, [plain |-> doc.plain, plugins |-> m], FlagLayer>>
  /\ cache' = effective /\ config' = effective /\ atRun' = effective
  /\ launch' = LaunchArgs(effective)
  /\ settled' = (op[c].alone /\ DOMAIN tmp = {})

LEMMA BootIs ==
  ASSUME TypeInv, NEW c \in Writers, Boot(c)
  PROVE  /\ op[c].kind = "boot" /\ op[c].pc = "load" /\ op[c].via = "self" /\ ~running
         /\ Finishes(c) /\ UNCHANGED fileVars
         /\ \/ UNCHANGED storeVars /\ UNCHANGED settled
            \/ /\ Load # Torn /\ LoadRaw(Load) \in Documents
               /\ \E m \in Maps \union {NoMap} :
                    /\ m = IF LoadRaw(Load).plugins = NoPlugins THEN NoMap ELSE 1
                    /\ Booted(c, LoadRaw(Load), m)
<1>1. op[c].kind = "boot" /\ op[c].pc = "load" /\ op[c].via = "self" /\ UNCHANGED fileVars /\ Finish(c)
  BY DEF Boot, At
<1>2. Finishes(c) /\ ~running
  BY <1>1, FinishType DEF TypeInv, Typed, Finishes, Calls
<1>3. CASE Load = Torn
  BY <1>1, <1>2, <1>3 DEF Boot
<1>4. CASE Load # Torn
  <2>1. LoadRaw(Load) \in Documents
    BY <1>4, ReadType, LoadRawType DEF TypeInv, Typed
  <2> DEFINE m == IF LoadRaw(Load).plugins = NoPlugins THEN NoMap ELSE 1
  <2>2. Booted(c, LoadRaw(Load), m)
    BY <1>4 DEF Boot, Booted
  <2>3. m \in Maps \union {NoMap}
    BY ConfigStoreAssumption DEF Maps
  <2> QED
    BY <1>1, <1>2, <1>4, <2>1, <2>2, <2>3
<1> QED
  BY <1>3, <1>4

LEMMA BootTyped ==
  ASSUME TypeInv, NEW c \in Writers, Boot(c)
  PROVE  TypeInv'
<1> USE DEF TypeInv
<1>0. /\ op[c].kind = "boot" /\ op[c].pc = "load" /\ op[c].via = "self" /\ ~running
      /\ Finishes(c) /\ UNCHANGED fileVars
      /\ \/ UNCHANGED storeVars /\ UNCHANGED settled
         \/ /\ Load # Torn /\ LoadRaw(Load) \in Documents
            /\ \E m \in Maps \union {NoMap} :
                 /\ m = IF LoadRaw(Load).plugins = NoPlugins THEN NoMap ELSE 1
                 /\ Booted(c, LoadRaw(Load), m)
  BY BootIs
<1>1. \A d \in Writers : save'[d].pc # "none" => save[d].pc # "none" /\ d # c
  BY <1>0, NotSaved DEF fileVars
<1>2. CASE UNCHANGED storeVars /\ UNCHANGED settled
  <2>1. Typed'
    BY <1>0, <1>2, SameStore, SameFiles DEF Finishes, Typed, StoreTyped
  <2> QED
    BY <1>0, <1>1, <1>2, <2>1, CallsFinish DEF storeVars
<1>3. ASSUME LoadRaw(Load) \in Documents, NEW m \in Maps \union {NoMap}, Booted(c, LoadRaw(Load), m)
      PROVE  TypeInv'
  <2> DEFINE doc == LoadRaw(Load)
             layer == [plain |-> doc.plain, plugins |-> m]
             effective == OverlayOne(OverlayOne(DefaultLayer, layer), FlagLayer)
  <2>1. doc.plain \in PlainType /\ doc.plugins \in PluginType
    BY <1>3 DEF Documents
  <2>2. layer \in ConfigType
    BY <2>1 DEF ConfigType
  <2>3. effective \in ConfigType
    <3> HIDE DEF layer
    <3> QED
      BY <2>2, ConstantTypes, OverlayType
  <2>4. /\ running' = TRUE
        /\ heap' = [heap EXCEPT ![1] = doc.plugins]
        /\ layers' = <<DefaultLayer, layer, FlagLayer>>
        /\ cache' = effective /\ config' = effective /\ atRun' = effective
        /\ launch' = LaunchArgs(effective)
        /\ settled' \in BOOLEAN
    BY <1>3 DEF Booted, Typed, OpTyped, OpType
  <2> HIDE DEF doc, layer, effective
  <2>5. heap' \in [Maps -> PluginType]
    BY <2>1, <2>4 DEF Typed, StoreTyped
  <2>6. DOMAIN layers' = 1..3 /\ layers'[1] = DefaultLayer /\ layers'[2] = layer /\ layers'[3] = FlagLayer
    BY <2>4
  <2>7. StoreTyped'
    BY <2>2, <2>3, <2>4, <2>5, <2>6, LaunchType DEF StoreTyped, DefaultLayer, FlagLayer
  <2>8. Typed'
    BY <1>0, <2>7, SameFiles DEF Finishes, Typed
  <2>9. Calls'
    <3>1. Idle.pc = "idle" /\ Idle.via = "none" /\ Idle.kind = "none"
      BY IdleType
    <3>2. \A d \in Writers \ {c} : op[d].kind # "boot"
      BY <1>0 DEF Calls
    <3>3. \A d \in Writers : op[d].via # "daemon"
      BY <1>0 DEF Calls
    <3> QED
      BY <1>0, <1>1, <3>1, <3>2, <3>3 DEF Calls, Finishes, DaemonPcs, SelfPcs, ChangePcs
  <2> QED
    BY <2>8, <2>9
<1> QED
  BY <1>0, <1>2, <1>3

LEMMA GoneTyped ==
  ASSUME TypeInv, Gone
  PROVE  /\ TypeInv'
         /\ \A c \in Writers : op'[c] = IF op[c].via = "daemon" THEN Idle ELSE op[c]
         /\ \A c \in Writers : save'[c] = IF op[c].via = "daemon" THEN NotSaving ELSE save[c]
<1> USE DEF TypeInv
<1>1. /\ \A c \in Writers : op'[c] = IF op[c].via = "daemon" THEN Idle ELSE op[c]
      /\ \A c \in Writers : save'[c] = IF op[c].via = "daemon" THEN NotSaving ELSE save[c]
  BY DEF Gone
<1>2. OpTyped'
  BY <1>1, IdleType DEF Gone, Typed, OpTyped
<1>3. FileTyped'
  BY <1>1, NotSavingType DEF Gone, Typed, FileTyped
<1>4. /\ layers' = <<DefaultLayer, ZeroConfig, FlagLayer>> /\ running' = FALSE
      /\ cache' = NoConfig /\ heap' = [m \in Maps |-> NoPlugins] /\ config' = ZeroConfig
      /\ atRun' = ZeroConfig /\ launch' = NoFields /\ settled' \in BOOLEAN
  BY DEF Gone
<1>5. DOMAIN layers' = 1..3 /\ layers'[1] = DefaultLayer /\ layers'[2] = ZeroConfig /\ layers'[3] = FlagLayer
  BY <1>4
<1>6. StoreTyped'
  BY <1>4, <1>5, ConstantTypes DEF StoreTyped, DefaultLayer, FlagLayer
<1>7. Calls'
  <2>1. Idle.pc = "idle" /\ Idle.via = "none" /\ Idle.kind = "none" /\ NotSaving.pc = "none"
    BY IdleType, NotSavingType
  <2> QED
    BY <1>1, <1>4, <2>1 DEF Calls, DaemonPcs, SelfPcs, ChangePcs
<1> QED
  BY <1>1, <1>2, <1>3, <1>6, <1>7 DEF Typed

LEMMA InitTyped == Init => TypeInv
<1> SUFFICES ASSUME Init PROVE TypeInv
  OBVIOUS
<1>1. /\ layers = <<DefaultLayer, ZeroConfig, FlagLayer>> /\ running \in BOOLEAN
      /\ heap = [m \in Maps |-> NoPlugins] /\ settled = TRUE
      /\ op = [c \in Writers |-> Idle] /\ FileInit
      /\ cache = IF running THEN Overlay ELSE NoConfig
      /\ config = IF running THEN Overlay ELSE ZeroConfig
      /\ atRun = config /\ launch = IF running THEN LaunchArgs(config) ELSE NoFields
  BY DEF Init
<1>2. DOMAIN layers = 1..3 /\ layers[1] = DefaultLayer /\ layers[2] = ZeroConfig /\ layers[3] = FlagLayer
  BY <1>1
<1>3. Overlay \in ConfigType
  BY <1>2, ConstantTypes, OverlayType DEF Overlay
<1>4. config \in ConfigType
  BY <1>1, <1>3, ConstantTypes
<1>5. StoreTyped
  BY <1>1, <1>2, <1>3, <1>4, ConstantTypes, LaunchType DEF StoreTyped
<1>6. OpTyped /\ \A c \in Writers : op[c].pc = "idle" /\ op[c].via = "none" /\ op[c].kind = "none"
  BY <1>1, IdleType DEF OpTyped
<1>7. FileTyped /\ \A c \in Writers : save[c].pc = "none"
  <2>1. DOMAIN tmp = {}
    BY <1>1 DEF FileInit
  <2> QED
    BY <1>1, <2>1, NotSavingType DEF FileInit, FileTyped, Range
<1> QED
  BY <1>5, <1>6, <1>7 DEF TypeInv, Typed, Calls, DaemonPcs, SelfPcs, ChangePcs

LEMMA TypeStep == TypeInv /\ CacheIsOverlay /\ [Next]_vars => TypeInv'
<1> SUFFICES ASSUME TypeInv, CacheIsOverlay, [Next]_vars PROVE TypeInv'
  OBVIOUS
<1>1. ASSUME NEW c \in Writers, Begin(c) PROVE TypeInv'
  BY <1>1, BeginTyped
<1>2. ASSUME NEW c \in Writers, Continue(c) PROVE TypeInv'
  BY <1>2, RequestTyped, SelfTyped, SaveTyped, BootTyped DEF Continue
<1>3. CASE DaemonEnds \/ MapFault
  BY <1>3, GoneTyped DEF DaemonEnds, MapFault
<1>4. CASE UNCHANGED vars
  BY <1>4 DEF vars, storeVars, fileVars, TypeInv, Typed, StoreTyped, OpTyped, FileTyped, Calls,
              DefaultLayer, FlagLayer
<1> QED
  BY <1>1, <1>2, <1>3, <1>4 DEF Next

-----------------------------------------------------------------------------
(* A field changes for a request for that field only. *)

\* The copy of the layer in the hands of a request is that of the layer as it is, unless the
\* layer has changed since.
Copies ==
  \A c \in Writers :
    op[c].pc \in {"mutate", "replace"} /\ ~op[c].stale => op[c].cfg.plain = FileLayer.plain

LEMMA CopiesKept ==
  ASSUME Copies, NEW c \in Writers, layers'[2] = layers[2],
         \A d \in Writers \ {c} : op'[d].pc = op[d].pc /\ op'[d].cfg = op[d].cfg /\ op'[d].stale = op[d].stale,
         op'[c].pc \notin {"mutate", "replace"}
  PROVE  Copies'
  BY DEF Copies, FileLayer

\* A change of the layer makes every copy stale but that of the client that made it.
LEMMA CopiesStale ==
  ASSUME Typed, NEW c \in Writers, Outdates(c, "get")
  PROVE  Copies'
<1>1. \A d \in Writers \ {c} : op'[d].pc \in {"mutate", "replace"} => op'[d].stale
  <2> SUFFICES ASSUME NEW d \in Writers \ {c}, op'[d].pc \in {"mutate", "replace"} PROVE op'[d].stale
    OBVIOUS
  <2>1. op'[d] = Outdated(op[d]) /\ op[d] \in OpType
    BY DEF Outdates, Typed, OpTyped
  <2>2. op[d].pc \in {"mutate", "replace"}
    BY <2>1, OutdatedType
  <2>3. (op[d].pc \in {"mutate", "replace"}) = TRUE
    BY <2>2
  <2>4. op'[d] = [op[d] EXCEPT !.stale = TRUE]
    BY <2>1, <2>3, Zenon DEF Outdated
  <2> QED
    BY <2>1, <2>4 DEF OpType
<1> QED
  BY <1>1 DEF Copies, Outdates

\* What a step does to the fields of the file layer.
LayerKept ==
  running /\ running' =>
    \A f \in Fields :
      layers'[2].plain[f] # layers[2].plain[f] =>
        \E c \in Writers : \/ op[c].pc = "change" /\ op[c].key = f
                           \/ op[c].pc = "replace" /\ op[c].stale

FollowInv == TypeInv /\ CacheIsOverlay /\ Copies

LEMMA ContinueFollows ==
  ASSUME FollowInv, NEW c \in Writers, Continue(c)
  PROVE  Copies' /\ LayerKept
<1> USE DEF FollowInv, TypeInv
<1>a. ASSUME NEW pc, Moves(c, pc), pc \notin {"mutate", "replace"}, UNCHANGED layers
      PROVE  Copies' /\ LayerKept
  BY <1>a, CopiesKept DEF Moves, LayerKept
<1>b. ASSUME Finishes(c), UNCHANGED layers
      PROVE  Copies' /\ LayerKept
  BY <1>b, CopiesKept, IdleType DEF Finishes, LayerKept
<1>1. CASE SetField(c) \/ ClearLayerField(c)
  <2>1. /\ op[c].pc = "change" /\ op[c].key \in Fields
        /\ \/ UNCHANGED <<layers, cache>> /\ Finishes(c)
           \/ /\ \E v \in PlainValues : layers' = [layers EXCEPT ![2].plain[op[c].key] = v]
              /\ Outdates(c, "get")
    BY <1>1, FieldIs
  <2>2. CASE UNCHANGED <<layers, cache>> /\ Finishes(c)
    BY <1>b, <2>2
  <2>3. CASE /\ \E v \in PlainValues : layers' = [layers EXCEPT ![2].plain[op[c].key] = v]
             /\ Outdates(c, "get")
    <3>1. Copies'
      BY <2>3, CopiesStale
    <3>2. PICK v \in PlainValues : layers'[2].plain = [layers[2].plain EXCEPT ![op[c].key] = v]
      BY <2>1, <2>3, FieldTyped DEF Typed
    <3>3. layers[2].plain \in PlainType
      BY DEF Typed, StoreTyped, ConfigType
    <3>4. \A f \in Fields : f # op[c].key => layers'[2].plain[f] = layers[2].plain[f]
      BY <3>2, <3>3 DEF PlainType
    <3> QED
      BY <2>1, <3>1, <3>4 DEF LayerKept
  <2> QED
    BY <2>1, <2>2, <2>3
<1>2. CASE CopyLayer(c)
  <2>1. Copied(c)
    BY <1>2, CopyIs
  <2>2. CASE Moves(c, "get")
    BY <1>a, <2>1, <2>2 DEF Copied
  <2>3. CASE Moves(c, "mutate") /\ op'[c].cfg.plain = FileLayer.plain
    BY <2>1, <2>3 DEF Copied, Moves, Copies, FileLayer, LayerKept
  <2> QED
    BY <2>1, <2>2, <2>3 DEF Copied
<1>3. CASE SetPluginKey(c) \/ DeletePluginKey(c)
  <2>1. Mutated(c)
    BY <1>3, MutateIs
  <2>2. CASE Moves(c, "get")
    BY <1>a, <2>1, <2>2 DEF Mutated
  <2>3. CASE Moves(c, "replace") /\ op'[c].cfg = op[c].cfg /\ op'[c].stale = op[c].stale
    BY <2>1, <2>3 DEF Mutated, Moves, Copies, FileLayer, LayerKept
  <2> QED
    BY <2>1, <2>2, <2>3 DEF Mutated
<1>4. CASE Replace(c)
  <2>1. /\ op[c].pc = "replace" /\ layers' = [layers EXCEPT ![2] = op[c].cfg] /\ Outdates(c, "get")
    BY <1>4, ReplaceIs
  <2>2. layers'[2] = op[c].cfg
    BY <2>1 DEF Typed, StoreTyped
  <2>3. ~op[c].stale => layers'[2].plain = layers[2].plain
    BY <2>1, <2>2 DEF Copies, FileLayer
  <2> QED
    BY <2>1, <2>3, CopiesStale DEF LayerKept
<1>5. CASE Get(c)
  <2>1. Got(c)
    BY <1>5, GetIs
  <2>2. CASE op[c].kind = "read"
    BY <1>a, <2>1, <2>2 DEF Got
  <2>3. CASE op[c].kind # "read"
    BY <1>a, <2>1, <2>3 DEF Got
  <2> QED
    BY <2>2, <2>3
<1>6. CASE AllKeys(c)
  BY <1>6, <1>b, FinishType DEF AllKeys, Finishes, Typed, storeVars
<1>7. CASE Publish(c)
  BY <1>7, <1>a, PublishIs
<1>8. CASE GetLayer(c)
  BY <1>8, <1>a, GetLayerIs DEF storeVars
<1>9. CASE Marshal(c)
  BY <1>9, <1>a, MarshalIs DEF storeVars
<1>10. CASE RecoverScan(c)
  <2>1. UNCHANGED layers /\ (Moves(c, "load") \/ Moves(c, "promote"))
    BY <1>10, ScanIs DEF storeVars
  <2> QED
    BY <1>a, <2>1
<1>11. CASE RecoverPromote(c) \/ RecoverClean(c)
  BY <1>11, <1>a, RecoverIs DEF storeVars
<1>12. CASE LoadFile(c)
  BY <1>12, <1>a, <1>b, LoadIs DEF storeVars
<1>13. CASE ChangeOwn(c)
  <2>1. op[c].kind \in {"set", "delete"}
    BY <1>13 DEF ChangeOwn, At, Calls, ChangePcs
  <2>2. UNCHANGED layers /\ (Finishes(c) \/ Moves(c, "saving"))
    BY <1>13, <2>1, OwnIs DEF storeVars
  <2> QED
    BY <1>a, <1>b, <2>2
<1>14. CASE SaveMoves(c)
  BY <1>14 DEF SaveMoves, storeVars, Copies, LayerKept, FileLayer
<1>15. CASE SaveEnds(c) \/ SaveBreaks(c) \/ CommandEnds(c)
  <2>1. UNCHANGED layers /\ Finishes(c)
    BY <1>15, FinishType DEF SaveEnds, SaveBreaks, CommandEnds, storeVars, Finishes, Typed
  <2> QED
    BY <1>b, <2>1
<1>16. CASE Boot(c)
  <2>1. ~running /\ Finishes(c)
    BY <1>16, BootIs
  <2>2. \A d \in Writers : op[d].pc \notin {"mutate", "replace"}
    BY <2>1 DEF Calls, DaemonPcs
  <2> QED
    BY <2>1, <2>2, IdleType DEF Finishes, Copies, LayerKept
<1> QED
  BY <1>1, <1>2, <1>3, <1>4, <1>5, <1>6, <1>7, <1>8, <1>9, <1>10, <1>11, <1>12, <1>13, <1>14, <1>15,
     <1>16 DEF Continue

LEMMA CopiesStep == FollowInv /\ [Next]_vars => Copies' /\ LayerKept
<1> SUFFICES ASSUME FollowInv, [Next]_vars PROVE Copies' /\ LayerKept
  OBVIOUS
<1>1. ASSUME NEW c \in Writers, Begin(c) PROVE Copies' /\ LayerKept
  <2>1. Opens(c)
    BY <1>1, BeginIs DEF FollowInv, TypeInv, Typed
  <2>2. /\ UNCHANGED layers /\ op'[c].pc \notin {"mutate", "replace"}
        /\ \A d \in Writers \ {c} : op'[d].pc = op[d].pc /\ op'[d].cfg = op[d].cfg /\ op'[d].stale = op[d].stale
    BY <2>1 DEF Opens, Fresh, storeVars
  <2> QED
    BY <2>2, CopiesKept DEF FollowInv, LayerKept
<1>2. ASSUME NEW c \in Writers, Continue(c) PROVE Copies' /\ LayerKept
  BY <1>2, ContinueFollows
<1>3. CASE DaemonEnds \/ MapFault
  <2>1. Gone /\ ~running'
    BY <1>3 DEF DaemonEnds, MapFault, Gone
  <2>2. \A c \in Writers : op'[c].pc \notin {"mutate", "replace"}
    BY <2>1, GoneTyped, IdleType DEF FollowInv, TypeInv, Calls, DaemonPcs
  <2> QED
    BY <2>1, <2>2 DEF Copies, LayerKept
<1>4. CASE UNCHANGED vars
  BY <1>4 DEF vars, storeVars, FollowInv, Copies, FileLayer, LayerKept
<1> QED
  BY <1>1, <1>2, <1>3, <1>4 DEF Next

LEMMA FollowStep == FollowInv /\ [Next]_vars => FollowInv'
  BY TypeStep, CopiesStep, CacheStep DEF FollowInv

LEMMA FollowInit == Init => FollowInv
<1> SUFFICES ASSUME Init PROVE FollowInv
  OBVIOUS
<1>1. \A c \in Writers : op[c].pc = "idle"
  BY IdleType DEF Init
<1> QED
  BY <1>1, InitTyped DEF FollowInv, Copies, Init, CacheIsOverlay

\* The store's, the requests' and the files' variables have their types, whatever is parsed,
\* merged, saved, recovered and loaded: a request that sets a key has a text, and the maps that
\* are referred to exist.
THEOREM ConfigTypeCorrect == Spec => []TypeOK
<1>1. FollowInv => TypeOK
  <2> SUFFICES ASSUME FollowInv PROVE TypeOK
    OBVIOUS
  <2>1. \A i \in 1..3 : layers[i] \in ConfigType
    <3>1. \A i \in 1..3 : i = 1 \/ i = 2 \/ i = 3
      OBVIOUS
    <3> QED
      BY <3>1, ConstantTypes DEF FollowInv, TypeInv, Typed, StoreTyped
  <2> QED
    BY <2>1 DEF FollowInv, TypeInv, Typed, StoreTyped, OpTyped, FileTyped, TypeOK
<1> QED
  BY <1>1, FollowInit, FollowStep, PTL DEF Spec

\* SetField, ClearLayerField and Set: a field of the file layer changes only for a request for
\* that field, or when a request for a plugin key puts back a copy it took before another change.
THEOREM FieldsAlwaysFollow == Spec => FieldsFollowRequests
<1>1. FollowInv /\ [Next]_vars =>
        [running /\ running' =>
           \A f \in Fields :
             layers'[2].plain[f] # layers[2].plain[f] =>
               \E c \in Writers : \/ op[c].pc = "change" /\ op[c].key = f
                                  \/ op[c].pc = "replace" /\ op[c].stale]_vars
  BY CopiesStep DEF LayerKept
<1> QED
  BY <1>1, FollowInit, FollowStep, PTL DEF Spec, FieldsFollowRequests

-----------------------------------------------------------------------------
(* No two names for one file. *)

Named ==
  /\ canonical \notin Range(tmp)
  /\ \A s, r \in DOMAIN tmp : tmp[s] = tmp[r] => s = r

\* Names that go leave the others as they are ...
LEMMA NamedLess ==
  ASSUME Named, NEW S \in SUBSET DOMAIN tmp, tmp' = Restrict(tmp, S), canonical' = canonical
  PROVE  Named'
  BY DEF Named, Restrict, Range

\* ... a temporary file that is renamed leaves its own ...
LEMMA NamedRename ==
  ASSUME Named, NEW s \in DOMAIN tmp,
         tmp' = Restrict(tmp, DOMAIN tmp \ {s}), canonical' = tmp[s]
  PROVE  Named'
  BY DEF Named, Restrict, Range

\* ... and one that is opened is a new file, unless it exists.
LEMMA NamedOpen ==
  ASSUME Named, NEW w, NEW stamp, NEW inode, OpenedAs(w, stamp, inode), canonical' = canonical
  PROVE  Named'
<1>1. \A s \in DOMAIN tmp : tmp[s] \in Range(tmp)
  BY DEF Range
<1>2. /\ DOMAIN tmp' = DOMAIN tmp \union {stamp} /\ tmp'[stamp] = inode
      /\ \A s \in DOMAIN tmp \ {stamp} : tmp'[s] = tmp[s]
  BY DEF OpenedAs
<1>3. IF stamp \in DOMAIN tmp THEN inode = tmp[stamp]
      ELSE inode # canonical /\ \A s \in DOMAIN tmp : inode # tmp[s]
  BY <1>1 DEF OpenedAs, Unused
<1>4. \A s \in DOMAIN tmp' : tmp'[s] # canonical
  BY <1>1, <1>2, <1>3 DEF Named
<1>5. \A s, r \in DOMAIN tmp' : tmp'[s] = tmp'[r] => s = r
  BY <1>2, <1>3 DEF Named
<1> QED
  BY <1>4, <1>5 DEF Named, Range

LEMMA NamedStep == FollowInv /\ Named /\ [Next]_vars => Named'
<1> SUFFICES ASSUME FollowInv, Named, [Next]_vars PROVE Named'
  OBVIOUS
<1> USE DEF FollowInv, TypeInv
<1>a. ASSUME UNCHANGED <<canonical, tmp>> PROVE Named'
  BY <1>a DEF Named
<1>1. ASSUME NEW c \in Writers, Begin(c) PROVE Named'
  BY <1>a, <1>1, BeginIs DEF Typed, Opens, fileVars
<1>2. ASSUME NEW c \in Writers, Continue(c) PROVE Named'
  <2>1. CASE \/ SetField(c) \/ ClearLayerField(c)
             \/ CopyLayer(c) \/ SetPluginKey(c) \/ DeletePluginKey(c) \/ Replace(c)
             \/ Get(c) \/ AllKeys(c) \/ Publish(c) \/ GetLayer(c)
             \/ RecoverScan(c) \/ LoadFile(c) \/ Boot(c)
    <3>1. UNCHANGED fileVars
      BY <2>1 DEF SetField, ClearLayerField, CopyLayer, SetPluginKey, DeletePluginKey, Replace, Get,
                  AllKeys, Publish, GetLayer, RecoverScan, LoadFile, Boot
    <3> QED
      BY <1>a, <3>1 DEF fileVars
  <2>2. CASE Marshal(c) \/ ChangeOwn(c) \/ CommandEnds(c)
    BY <1>a, <2>2 DEF Marshal, ChangeOwn, CommandEnds, SaveBegin, fileVars
  <2>3. CASE SaveMoves(c)
    <3>1. CASE OpenTemp(c)
      <4>1. PICK stamp \in 1..MaxStamp, inode \in Inodes : OpenedAs(c, stamp, inode)
        BY <3>1, OpenTempIs DEF Typed
      <4> QED
        BY <3>1, <4>1, NamedOpen DEF OpenTemp
    <3>2. CASE WriteTemp(c)
      BY <1>a, <3>2 DEF WriteTemp
    <3> QED
      BY <2>3, <3>1, <3>2 DEF SaveMoves, SaveStep
  <2>4. CASE SaveEnds(c)
    <3>1. RenameTemp(c)
      BY <2>4 DEF SaveEnds
    <3>2. CASE save[c].stamp \in DOMAIN tmp
      BY <3>1, <3>2, NamedRename DEF RenameTemp
    <3>3. CASE save[c].stamp \notin DOMAIN tmp
      BY <3>1, <3>3, NamedLess DEF RenameTemp
    <3> QED
      BY <3>2, <3>3
  <2>5. CASE SaveBreaks(c)
    <3>1. SaveFails(c)
      BY <2>5 DEF SaveBreaks
    <3>2. CASE save[c].pc = "write"
      BY <1>a, <3>1, <3>2 DEF SaveFails
    <3>3. CASE save[c].pc # "write"
      BY <3>1, <3>3, NamedLess DEF SaveFails
    <3> QED
      BY <3>2, <3>3
  <2>6. CASE RecoverPromote(c)
    <3>1. CASE Max(op[c].entries) \in DOMAIN tmp
      BY <2>6, <3>1, NamedRename DEF RecoverPromote
    <3>2. CASE Max(op[c].entries) \notin DOMAIN tmp
      BY <2>6, <3>2, NamedLess DEF RecoverPromote
    <3> QED
      BY <3>1, <3>2
  <2>7. CASE RecoverClean(c)
    BY <2>7, NamedLess DEF RecoverClean
  <2> QED
    BY <1>2, <2>1, <2>2, <2>3, <2>4, <2>5, <2>6, <2>7 DEF Continue
<1>3. CASE DaemonEnds \/ MapFault
  BY <1>a, <1>3 DEF DaemonEnds, MapFault, Gone
<1>4. CASE UNCHANGED vars
  BY <1>a, <1>4 DEF vars, fileVars
<1> QED
  BY <1>1, <1>2, <1>3, <1>4 DEF Next

-----------------------------------------------------------------------------
(* A change that nothing overlaps. *)

\* A request that began alone and that no other has joined is the only one.
Crowd == \A c \in Busy : op[c].alone => Busy = {c}

\* While a daemon runs, only config get opens the file alone.
Looks == \A c \in Writers : running /\ op[c].alone /\ op[c].via = "self" => op[c].kind = "get"

\* GetConfig does not change anything.
Reads == \A c \in Writers : op[c].kind = "read" => op[c].pc \in {"get", "iterate"}

\* The time stamps of the saves that are under way.
Stamps == {save[w].stamp : w \in {v \in Writers : save[v].pc \in {"write", "rename"}}}

\* Since the last change that had the file for itself: nothing has overlapped ...
Unmixed == settled => \A c \in Busy : op[c].alone

\* ... the only temporary files are those of saves under way, and so no recovery finds one.
Tidy == settled => DOMAIN tmp = Stamps /\ \A c \in Writers : op[c].pc \notin {"promote", "clean"}

Solo == Crowd /\ Looks /\ Reads /\ Unmixed /\ Tidy

\* What a step of a client that goes on is to the others and to itself.
Along(c) ==
  /\ op[c].pc # "idle"
  /\ \A d \in Writers \ {c} :
       /\ op'[d].pc = op[d].pc /\ op'[d].via = op[d].via /\ op'[d].kind = op[d].kind
       /\ op'[d].alone = op[d].alone
  /\ \/ op'[c].pc = "idle" /\ op'[c].via = "none" /\ op'[c].kind = "none" /\ op'[c].alone = FALSE
     \/ /\ op'[c].pc # "idle"
        /\ op'[c].via = op[c].via /\ op'[c].kind = op[c].kind /\ op'[c].alone = op[c].alone

LEMMA MovesAlong ==
  ASSUME NEW c \in Writers, NEW pc, op[c].pc # "idle", pc # "idle", Moves(c, pc)
  PROVE  Along(c)
  BY DEF Moves, Goes, Along

LEMMA FinishesAlong ==
  ASSUME NEW c \in Writers, op[c].pc # "idle", Finishes(c)
  PROVE  Along(c)
  BY IdleType DEF Finishes, Along

LEMMA OutdatesAlong ==
  ASSUME Typed, NEW c \in Writers, NEW pc, op[c].pc # "idle", pc # "idle", Outdates(c, pc)
  PROVE  Along(c) /\ \A d \in Writers \ {c} : op'[d].cfg = op[d].cfg
<1>1. \A d \in Writers : op[d] \in OpType
  BY DEF Typed, OpTyped
<1> QED
  BY <1>1, OutdatedType DEF Outdates, Goes, Along

\* Nobody joins by going on.
LEMMA BusyLess ==
  ASSUME Crowd, NEW c \in Writers, Along(c)
  PROVE  /\ Busy' \subseteq Busy /\ Crowd'
         /\ op[c].alone => Busy = {c}
         /\ \A d \in Busy : op[d].alone => d = c
         /\ Unmixed /\ (settled' => settled) => Unmixed'
<1>1. c \in Busy
  BY DEF Along, Busy
<1>2. Busy' \subseteq Busy
  BY <1>1 DEF Along, Busy
<1>3. \A d \in Busy' : op'[d].alone => op[d].alone
  BY DEF Along, Busy
<1>4. \A d \in Busy' : op[d].alone => op'[d].alone
  BY DEF Along, Busy
<1>5. \A d \in Busy : op[d].alone => d = c
  BY <1>1 DEF Crowd
<1>6. Crowd'
  <2> SUFFICES ASSUME NEW d \in Busy', op'[d].alone PROVE Busy' = {d}
    BY DEF Crowd
  <2>1. Busy = {d}
    BY <1>2, <1>3 DEF Crowd
  <2> QED
    BY <1>2, <2>1
<1> QED
  BY <1>1, <1>2, <1>4, <1>5, <1>6 DEF Crowd, Unmixed

\* A step that leaves the files alone.
LEMMA SoloAlong ==
  ASSUME Solo, NEW c \in Writers, Along(c), UNCHANGED running, settled' => settled,
         DOMAIN tmp' = DOMAIN tmp, Stamps' = Stamps,
         op[c].kind = "read" => op'[c].pc \in {"idle", "get", "iterate"},
         settled => op'[c].pc \notin {"promote", "clean"}
  PROVE  Solo'
<1>1. Crowd' /\ Unmixed'
  BY BusyLess DEF Solo
<1>2. Looks'
  BY DEF Solo, Looks, Along
<1>3. Reads'
  BY DEF Solo, Reads, Along
<1>4. Tidy'
  BY DEF Solo, Tidy, Along
<1> QED
  BY <1>1, <1>2, <1>3, <1>4 DEF Solo

LEMMA SoloBegin ==
  ASSUME FollowInv, Solo, NEW c \in Writers, Begin(c)
  PROVE  Solo'
<1>1. Opens(c)
  BY BeginIs DEF FollowInv, TypeInv, Typed
<1>2. \A d \in Writers \ {c} : /\ op'[d].pc = op[d].pc /\ op'[d].via = op[d].via /\ op'[d].kind = op[d].kind
                               /\ op'[d].alone = FALSE
  BY <1>1 DEF Opens, Goes
<1>3. c \in Busy' /\ Busy \subseteq Busy' /\ Busy' \subseteq Busy \union {c}
  BY <1>1, <1>2 DEF Opens, Fresh, Busy
<1>4. Crowd'
  <2> SUFFICES ASSUME NEW d \in Busy', op'[d].alone PROVE Busy' = {d}
    BY DEF Crowd
  <2>1. d = c
    BY <1>2 DEF Busy
  <2> QED
    BY <1>1, <1>3, <2>1 DEF Opens
<1>5. Looks'
  BY <1>1, <1>2 DEF Looks, Opens, Fresh, storeVars
<1>6. Reads'
  BY <1>1, <1>2 DEF Solo, Reads, Opens, Fresh
<1>7. Unmixed'
  BY <1>1, <1>3 DEF Unmixed, Opens
<1>8. Tidy'
  BY <1>1, <1>2 DEF Solo, Tidy, Opens, Fresh, fileVars, Stamps
<1> QED
  BY <1>4, <1>5, <1>6, <1>7, <1>8 DEF Solo

\* The steps of a request of the daemon and of a command up to its save.
LEMMA SoloRequest ==
  ASSUME FollowInv, Solo, NEW c \in Writers,
         \/ SetField(c) \/ ClearLayerField(c)
         \/ CopyLayer(c) \/ SetPluginKey(c) \/ DeletePluginKey(c) \/ Replace(c)
         \/ Get(c) \/ AllKeys(c) \/ Publish(c) \/ GetLayer(c) \/ LoadFile(c)
  PROVE  Solo'
<1> USE DEF FollowInv, TypeInv
<1>a. ASSUME UNCHANGED fileVars, UNCHANGED <<running, settled>>, Along(c),
             op[c].kind = "read" => op'[c].pc \in {"idle", "get", "iterate"},
             op'[c].pc \notin {"promote", "clean"}
      PROVE  Solo'
  BY <1>a, SoloAlong DEF fileVars, Stamps
<1>b. ASSUME NEW pc, Moves(c, pc), op[c].pc # "idle", pc \notin {"idle", "promote", "clean"},
             op[c].kind = "read" => pc \in {"get", "iterate"},
             UNCHANGED fileVars, UNCHANGED <<running, settled>>
      PROVE  Solo'
  BY <1>a, <1>b, MovesAlong DEF Moves
<1>c. ASSUME Finishes(c), op[c].pc # "idle", UNCHANGED fileVars, UNCHANGED <<running, settled>>
      PROVE  Solo'
  BY <1>a, <1>c, FinishesAlong, IdleType DEF Finishes
<1>d. ASSUME Outdates(c, "get"), op[c].pc # "idle", UNCHANGED fileVars, UNCHANGED <<running, settled>>
      PROVE  Solo'
  <2>1. op'[c].pc = "get"
    BY <1>d DEF Outdates
  <2> QED
    BY <1>a, <1>d, <2>1, OutdatesAlong
<1>e. op[c].pc \notin {"get", "iterate"} => op[c].kind # "read"
  BY DEF Solo, Reads
<1>1. CASE SetField(c) \/ ClearLayerField(c)
  BY <1>1, <1>c, <1>d, FieldIs
<1>2. CASE CopyLayer(c)
  BY <1>2, <1>b, <1>e, CopyIs DEF Copied
<1>3. CASE SetPluginKey(c) \/ DeletePluginKey(c)
  BY <1>3, <1>b, <1>e, MutateIs DEF Mutated
<1>4. CASE Replace(c)
  BY <1>4, <1>d, ReplaceIs
<1>5. CASE Get(c)
  <2>1. Got(c)
    BY <1>5, GetIs
  <2>2. CASE op[c].kind = "read"
    BY <1>b, <2>1, <2>2 DEF Got
  <2>3. CASE op[c].kind # "read"
    BY <1>b, <2>1, <2>3 DEF Got
  <2> QED
    BY <2>2, <2>3
<1>6. CASE AllKeys(c)
  <2>1. Finishes(c) /\ op[c].pc = "iterate" /\ UNCHANGED storeVars /\ UNCHANGED settled /\ UNCHANGED fileVars
    BY <1>6, FinishType DEF AllKeys, At, Finishes, Typed
  <2> QED
    BY <1>c, <2>1 DEF storeVars
<1>7. CASE Publish(c)
  BY <1>7, <1>b, <1>e, PublishIs
<1>8. CASE GetLayer(c)
  BY <1>8, <1>b, <1>e, GetLayerIs DEF storeVars
<1>9. CASE LoadFile(c)
  BY <1>9, <1>b, <1>c, <1>e, LoadIs DEF storeVars
<1> QED
  BY <1>1, <1>2, <1>3, <1>4, <1>5, <1>6, <1>7, <1>8, <1>9

\* Marshal and the command's own change begin a save.
LEMMA SoloSave ==
  ASSUME FollowInv, Solo, NEW c \in Writers, Marshal(c) \/ ChangeOwn(c)
  PROVE  Solo'
<1> USE DEF FollowInv, TypeInv
<1>1. op[c].kind \in {"set", "delete"} /\ op[c].pc # "idle"
  BY DEF Marshal, ChangeOwn, At, Calls, ChangePcs
<1>2. CASE Finishes(c) /\ UNCHANGED fileVars /\ UNCHANGED storeVars /\ UNCHANGED settled
  <2>1. Along(c) /\ op'[c].pc = "idle"
    BY <1>1, <1>2, FinishesAlong, IdleType DEF Finishes
  <2> QED
    BY <1>2, <2>1, SoloAlong DEF storeVars, fileVars, Stamps
<1>3. ASSUME Moves(c, "saving"), NEW doc \in Documents, SaveBegin(c, doc), UNCHANGED storeVars,
             UNCHANGED settled
      PROVE  Solo'
  <2>1. Along(c) /\ op'[c].pc = "saving"
    BY <1>1, <1>3, MovesAlong DEF Moves
  <2>2. Stamps' = Stamps /\ UNCHANGED tmp
    BY <1>3, SaveBeginPcs DEF Typed, Stamps
  <2> QED
    BY <1>1, <1>3, <2>1, <2>2, SoloAlong DEF storeVars
<1>4. CASE Marshal(c)
  BY <1>3, <1>4, MarshalIs
<1>5. CASE ChangeOwn(c)
  BY <1>1, <1>2, <1>3, <1>5, OwnIs
<1> QED
  BY <1>4, <1>5

\* A client that has the file for itself is the only one that saves.
LEMMA OnlySaver ==
  ASSUME Calls, Crowd, NEW c \in Writers, op[c].pc # "idle", op[c].alone
  PROVE  \A d \in Writers \ {c} : op[d].pc = "idle" /\ save[d].pc = "none"
<1>1. c \in Busy
  BY DEF Busy
<1>2. Busy = {c}
  BY <1>1 DEF Crowd
<1>3. \A d \in Writers \ {c} : op[d].pc = "idle"
  BY <1>2 DEF Busy
<1> QED
  BY <1>3 DEF Calls

\* Recovery finds nothing if the file is as the last change left it.
LEMMA SoloRecover ==
  ASSUME FollowInv, Solo, NEW c \in Writers, RecoverScan(c) \/ RecoverPromote(c) \/ RecoverClean(c)
  PROVE  Solo'
<1> USE DEF FollowInv, TypeInv
<1>0. op[c].pc \notin {"get", "iterate"} => op[c].kind # "read"
  BY DEF Solo, Reads
<1>1. CASE RecoverScan(c)
  <2> DEFINE pc == IF DOMAIN tmp = {} THEN "load" ELSE "promote"
  <2>1. /\ op[c].pc = "scan" /\ Moves(c, pc)
        /\ UNCHANGED storeVars /\ UNCHANGED settled /\ UNCHANGED fileVars
    BY <1>1, ScanIs
  <2>2. settled => pc = "load"
    <3> SUFFICES ASSUME settled PROVE DOMAIN tmp = {}
      OBVIOUS
    <3>1. op[c].alone
      BY <2>1 DEF Solo, Unmixed, Busy
    <3>2. \A d \in Writers : save[d].pc = "none"
      BY <2>1, <3>1, OnlySaver, NotSaved DEF Solo
    <3> QED
      BY <3>2 DEF Solo, Tidy, Stamps
  <2>3. pc # "idle" /\ pc \in {"load", "promote"}
    OBVIOUS
  <2> HIDE DEF pc
  <2>4. Along(c) /\ op'[c].pc = pc
    BY <2>1, <2>3, MovesAlong DEF Moves
  <2> QED
    BY <1>0, <2>1, <2>2, <2>3, <2>4, SoloAlong DEF storeVars, fileVars, Stamps
<1>2. CASE RecoverPromote(c) \/ RecoverClean(c)
  <2>1. /\ op[c].pc \in {"promote", "clean"}
        /\ Moves(c, "clean") \/ Moves(c, "load")
        /\ UNCHANGED storeVars /\ UNCHANGED <<settled, save>>
    BY <1>2, RecoverIs
  <2>2. ~settled /\ ~settled'
    BY <2>1 DEF Solo, Tidy
  <2>3. Along(c)
    BY <2>1, MovesAlong
  <2>4. Crowd'
    BY <2>3, BusyLess DEF Solo
  <2>5. Looks' /\ Reads'
    BY <1>0, <2>1, <2>3 DEF Solo, Looks, Reads, Along, storeVars
  <2> QED
    BY <2>2, <2>4, <2>5 DEF Solo, Unmixed, Tidy
<1> QED
  BY <1>1, <1>2

\* The steps of a save, and its end.
LEMMA SoloSaving ==
  ASSUME FollowInv, Solo, NEW c \in Writers, SaveMoves(c)
  PROVE  Solo'
<1> USE DEF FollowInv, TypeInv
<1>1. op[c].pc = "saving" /\ SaveStep(c) /\ UNCHANGED storeVars /\ UNCHANGED <<op, settled>>
  BY DEF SaveMoves
<1>2. Crowd' /\ Looks' /\ Reads' /\ Unmixed'
  BY <1>1 DEF Solo, Crowd, Looks, Reads, Unmixed, Busy, storeVars
<1>3. CASE OpenTemp(c)
  <2>1. PICK stamp \in 1..MaxStamp, inode \in Inodes : OpenedAs(c, stamp, inode)
    BY <1>3, OpenTempIs DEF Typed
  <2>2. DOMAIN tmp' = DOMAIN tmp \union {stamp}
    BY <2>1 DEF OpenedAs
  <2>3. /\ save'[c].pc = "write" /\ save'[c].stamp = stamp /\ save[c].pc = "open"
        /\ \A d \in Writers \ {c} : save'[d] = save[d]
    BY <1>3, <2>1 DEF OpenedAs, OpenTemp, Typed, FileTyped, SaveType
  <2>4. Stamps' = Stamps \union {stamp}
    BY <2>3 DEF Stamps
  <2> QED
    BY <1>1, <1>2, <2>2, <2>4 DEF Solo, Tidy
<1>4. CASE WriteTemp(c)
  <2>1. /\ save'[c].pc = "rename" /\ save'[c].stamp = save[c].stamp /\ save[c].pc = "write"
        /\ \A d \in Writers \ {c} : save'[d] = save[d]
        /\ UNCHANGED tmp
    BY <1>4 DEF WriteTemp, Typed, FileTyped, SaveType
  <2>2. Stamps' = Stamps
    BY <2>1 DEF Stamps
  <2> QED
    BY <1>1, <1>2, <2>1, <2>2 DEF Solo, Tidy
<1> QED
  BY <1>1, <1>3, <1>4 DEF SaveStep

\* A save that had the file for itself leaves no temporary file.
LEMMA SaveEndsIs ==
  ASSUME FollowInv, Solo, NEW c \in Writers, SaveEnds(c)
  PROVE  /\ op[c].pc = "saving" /\ save[c].pc = "rename" /\ RenameTemp(c)
         /\ Finishes(c) /\ UNCHANGED storeVars
         /\ save'[c].pc = "none" /\ \A d \in Writers \ {c} : save'[d] = save[d]
         /\ settled' => /\ op[c].alone /\ DOMAIN tmp = {save[c].stamp} /\ DOMAIN tmp' = {}
                        /\ \A d \in Writers \ {c} : op[d].pc = "idle" /\ save[d].pc = "none"
<1> USE DEF FollowInv, TypeInv
<1>1. /\ op[c].pc = "saving" /\ save[c].pc = "rename" /\ RenameTemp(c) /\ Finish(c) /\ UNCHANGED storeVars
      /\ settled' = (settled \/ (op[c].alone /\ DOMAIN tmp = {save[c].stamp}))
      /\ save' = [save EXCEPT ![c] = NotSaving]
      /\ tmp' = Restrict(tmp, DOMAIN tmp \ {save[c].stamp})
  BY DEF SaveEnds, RenameTemp
<1>2. save'[c].pc = "none" /\ \A d \in Writers \ {c} : save'[d] = save[d]
  BY <1>1, NotSavingType DEF Typed, FileTyped
<1>3. Finishes(c)
  BY <1>1, FinishType DEF Finishes, Typed
<1>4. settled' => op[c].alone
  BY <1>1 DEF Solo, Unmixed, Busy
<1>5. settled' => \A d \in Writers \ {c} : op[d].pc = "idle" /\ save[d].pc = "none"
  BY <1>1, <1>4, OnlySaver DEF Solo
<1>6. settled' => DOMAIN tmp = {save[c].stamp}
  <2>1. CASE settled
    <3>1. Stamps = {save[c].stamp}
      BY <1>1, <1>5, <2>1 DEF Stamps
    <3> QED
      BY <2>1, <3>1 DEF Solo, Tidy
  <2> QED
    BY <1>1, <2>1
<1>7. DOMAIN tmp' = DOMAIN tmp \ {save[c].stamp}
  BY <1>1 DEF Restrict
<1> QED
  BY <1>1, <1>2, <1>3, <1>4, <1>5, <1>6, <1>7

LEMMA SoloSaved ==
  ASSUME FollowInv, Solo, NEW c \in Writers, SaveEnds(c) \/ SaveBreaks(c) \/ CommandEnds(c)
  PROVE  Solo'
<1> USE DEF FollowInv, TypeInv
<1>1. op[c].pc # "idle" /\ Finishes(c) /\ UNCHANGED storeVars
  BY FinishType DEF SaveEnds, SaveBreaks, CommandEnds, Finishes, Typed
<1>2. Along(c) /\ op'[c].pc = "idle"
  BY <1>1, FinishesAlong, IdleType DEF Finishes
<1>3. Crowd' /\ Looks' /\ Reads'
  BY <1>1, <1>2, BusyLess, ZenonT(40) DEF Solo, Looks, Reads, Along, storeVars
<1>4. CASE SaveEnds(c)
  <2>1. settled' => /\ DOMAIN tmp' = {}
                    /\ \A d \in Writers : op'[d].pc = "idle" /\ save'[d].pc = "none"
    <3>1. /\ save'[c].pc = "none" /\ \A d \in Writers \ {c} : save'[d] = save[d]
          /\ settled' => /\ DOMAIN tmp' = {}
                         /\ \A d \in Writers \ {c} : op[d].pc = "idle" /\ save[d].pc = "none"
      BY <1>4, SaveEndsIs
    <3> QED
      BY <1>2, <3>1 DEF Along
  <2>2. Unmixed' /\ Tidy'
    BY <2>1 DEF Unmixed, Tidy, Busy, Stamps
  <2> QED
    BY <1>3, <2>2 DEF Solo
<1>5. CASE SaveBreaks(c) \/ CommandEnds(c)
  BY <1>3, <1>5 DEF SaveBreaks, CommandEnds, Solo, Unmixed, Tidy
<1> QED
  BY <1>4, <1>5

LEMMA SoloBoot ==
  ASSUME FollowInv, Solo, NEW c \in Writers, Boot(c)
  PROVE  Solo'
<1> USE DEF FollowInv, TypeInv
<1>0. /\ op[c].kind = "boot" /\ op[c].pc = "load" /\ op[c].via = "self" /\ ~running
      /\ Finishes(c) /\ UNCHANGED fileVars
      /\ \/ UNCHANGED storeVars /\ UNCHANGED settled
         \/ settled' = (op[c].alone /\ DOMAIN tmp = {})
  BY BootIs DEF Booted
<1>1. Along(c) /\ op'[c].pc = "idle"
  BY <1>0, FinishesAlong, IdleType DEF Finishes
<1>2. CASE UNCHANGED storeVars /\ UNCHANGED settled
  BY <1>0, <1>1, <1>2, SoloAlong DEF storeVars, fileVars, Stamps
<1>3. CASE settled' = (op[c].alone /\ DOMAIN tmp = {})
  <2>1. settled' => \A d \in Writers : op'[d].pc = "idle" /\ save'[d].pc = "none"
    <3> SUFFICES ASSUME settled' PROVE \A d \in Writers : op'[d].pc = "idle" /\ save'[d].pc = "none"
      OBVIOUS
    <3>1. op[c].alone /\ UNCHANGED save
      BY <1>0, <1>3 DEF fileVars
    <3>2. \A d \in Writers \ {c} : op[d].pc = "idle" /\ save[d].pc = "none"
      BY <1>0, <3>1, OnlySaver DEF Solo
    <3>3. save[c].pc = "none"
      BY <1>0, NotSaved
    <3> QED
      BY <1>1, <3>1, <3>2, <3>3 DEF Along
  <2>2. Unmixed' /\ Tidy'
    BY <1>0, <1>3, <2>1 DEF Unmixed, Tidy, Busy, Stamps, fileVars
  <2>3. Crowd' /\ Reads'
    BY <1>0, <1>1, BusyLess DEF Solo, Reads, Along
  <2>4. Looks'
    <3>1. c \in Busy
      BY <1>0 DEF Busy
    <3>2. \A d \in Writers \ {c} : op[d].via = "self" => ~op[d].alone
      BY <3>1, <1>0 DEF Solo, Crowd, Calls, Busy
    <3> QED
      BY <1>1, <3>2 DEF Looks, Along
  <2> QED
    BY <2>2, <2>3, <2>4 DEF Solo
<1> QED
  BY <1>0, <1>2, <1>3

LEMMA SoloStep == FollowInv /\ Solo /\ [Next]_vars => Solo'
<1> SUFFICES ASSUME FollowInv, Solo, [Next]_vars PROVE Solo'
  OBVIOUS
<1> USE DEF FollowInv, TypeInv
<1>1. ASSUME NEW c \in Writers, Begin(c) PROVE Solo'
  BY <1>1, SoloBegin
<1>2. ASSUME NEW c \in Writers, Continue(c) PROVE Solo'
  BY <1>2, SoloRequest, SoloSave, SoloRecover, SoloSaving, SoloSaved, SoloBoot DEF Continue
<1>3. CASE DaemonEnds \/ MapFault
  <2>1. Gone /\ ~running' /\ UNCHANGED tmp /\ settled' = (settled /\ Busy = {})
    BY <1>3 DEF DaemonEnds, MapFault, Gone
  <2>2. /\ \A c \in Writers : op'[c] = IF op[c].via = "daemon" THEN Idle ELSE op[c]
        /\ \A c \in Writers : save'[c] = IF op[c].via = "daemon" THEN NotSaving ELSE save[c]
    BY <2>1, GoneTyped
  <2>3. Busy' \subseteq Busy /\ \A c \in Busy' : op'[c].alone => op[c].alone
    BY <2>2, IdleType DEF Busy
  <2>4. Crowd'
    BY <2>3 DEF Solo, Crowd
  <2>5. Looks' /\ Reads'
    BY <2>1, <2>2, IdleType DEF Solo, Looks, Reads
  <2>6. settled' => \A c \in Writers : op'[c].pc = "idle" /\ save[c].pc = "none" /\ save'[c].pc = "none"
    BY <2>1, <2>2, IdleType, NotSavingType, NotSaved DEF Busy
  <2>7. Unmixed' /\ Tidy'
    BY <2>1, <2>6 DEF Solo, Unmixed, Tidy, Busy, Stamps
  <2> QED
    BY <2>4, <2>5, <2>7 DEF Solo
<1>4. CASE UNCHANGED vars
  BY <1>4 DEF vars, storeVars, fileVars, Solo, Crowd, Looks, Reads, Unmixed, Tidy, Stamps, Busy
<1> QED
  BY <1>1, <1>2, <1>3, <1>4 DEF Next

LEMMA SoloInit == Init => Named /\ Solo
<1> SUFFICES ASSUME Init PROVE Named /\ Solo
  OBVIOUS
<1>1. \A c \in Writers : op[c].pc = "idle" /\ op[c].kind = "none" /\ op[c].alone = FALSE
  BY IdleType DEF Init
<1>2. canonical = NoInode /\ DOMAIN tmp = {} /\ \A c \in Writers : save[c].pc = "none"
  BY NotSavingType DEF Init, FileInit
<1> QED
  BY <1>1, <1>2 DEF Named, Range, Solo, Crowd, Looks, Reads, Unmixed, Tidy, Stamps, Busy

-----------------------------------------------------------------------------
(* Memory and file agree. *)

\* A change that has the running daemon for itself.
Serving(c) == running /\ op[c].alone /\ op[c].kind \in {"set", "delete"}

\* How far it is: what it has read is as it is, and the file that it writes is its own.
Way(c) ==
  /\ op[c].pc = "publish" => op[c].cfg = Overlay
  /\ op[c].pc \in {"layer", "marshal", "saving"} => config = Overlay
  /\ op[c].pc = "marshal" => op[c].cfg = FileLayer
  /\ save[c].pc # "none" => save[c].snapshot = Contents(FileLayer)
  /\ save[c].pc = "write" => save[c].stamp \in DOMAIN tmp /\ tmp[save[c].stamp] = save[c].inode
  /\ save[c].pc = "rename" =>
       save[c].stamp \in DOMAIN tmp /\ data[tmp[save[c].stamp]] = save[c].snapshot

OnTheWay == \A c \in Writers : Serving(c) => Way(c)

\* What a daemon started now would load is what this one has.
Agreed ==
  /\ config = Overlay
  /\ RestartReads # Torn
  /\ LoadRaw(RestartReads) = LoadRaw(Contents(FileLayer))

\* A request that has changed nothing yet, or does not.
Untouched(c) == op[c].pc \in {"change", "scan", "load", "iterate"} \/ op[c].kind = "read"

Agreement == running /\ settled /\ (\A c \in Busy : Untouched(c)) => Agreed

AgreeInv == FollowInv /\ Named /\ Solo /\ OnTheWay /\ Agreement

LEMMA SameOverlay == UNCHANGED layers => Overlay' = Overlay /\ FileLayer' = FileLayer
  BY DEF Overlay, FileLayer

LEMMA SameContents == UNCHANGED <<layers, heap>> => Contents(FileLayer)' = Contents(FileLayer)
  BY DEF Contents, FileLayer

LEMMA AgreedSame ==
  ASSUME Agreed, UNCHANGED <<layers, config, heap>>, UNCHANGED fileVars
  PROVE  Agreed'
<1>1. RestartReads' = RestartReads
  BY DEF fileVars, RestartReads, Load, Newest
<1> QED
  BY <1>1, SameOverlay, SameContents DEF Agreed

\* Only the client that takes the step can be alone after it, and it was before.
LEMMA ServingWas ==
  ASSUME Calls, Solo, NEW c \in Writers, Along(c), running' => running
  PROVE  \A d \in Writers : Serving(d)' => /\ d = c /\ Serving(c) /\ op'[c].pc # "idle"
                                           /\ op[c].via # "self"
<1> SUFFICES ASSUME NEW d \in Writers, Serving(d)'
             PROVE  d = c /\ Serving(c) /\ op'[c].pc # "idle" /\ op[c].via # "self"
  OBVIOUS
<1>1. Serving(d)
  BY DEF Serving, Along
<1>2. d \in Busy /\ c \in Busy
  BY <1>1 DEF Serving, Calls, Busy, Along
<1>3. d = c
  BY <1>1, <1>2 DEF Serving, Solo, Crowd
<1> QED
  BY <1>1, <1>3 DEF Serving, Along, Solo, Looks

\* A step before the change has been made, and one that ends it.
LEMMA WayEarly ==
  ASSUME FollowInv, Solo, NEW c \in Writers, Along(c), running' => running,
         op'[c].pc \in DaemonPcs \ {"publish", "layer", "marshal"} \/ op'[c].pc = "idle" \/ op[c].via = "self",
         op[c].pc # "saving", UNCHANGED save
  PROVE  OnTheWay'
<1> SUFFICES ASSUME NEW d \in Writers, Serving(d)' PROVE Way(d)'
  BY DEF OnTheWay
<1>1. d = c /\ op'[c].pc # "idle" /\ op[c].via # "self"
  BY ServingWas DEF FollowInv, TypeInv
<1>2. save'[c].pc = "none"
  BY NotSaved DEF FollowInv, TypeInv
<1> QED
  BY <1>1, <1>2 DEF Way, DaemonPcs

\* One after which the daemon still has to publish or to save.
LEMMA AgreementLate ==
  ASSUME NEW c \in Writers, op'[c].pc \notin {"idle", "change", "scan", "load", "iterate"},
         op'[c].kind # "read"
  PROVE  Agreement'
  BY DEF Agreement, Untouched, Busy

\* One that leaves alone what agrees.
LEMMA AgreementSame ==
  ASSUME Agreement, Crowd, Unmixed, NEW c \in Writers, Along(c), Untouched(c),
         UNCHANGED <<running, settled, layers, config, heap>>, UNCHANGED fileVars
  PROVE  Agreement'
<1> SUFFICES ASSUME running, settled PROVE Agreed'
  BY DEF Agreement
<1>1. c \in Busy
  BY DEF Along, Busy
<1>2. Busy = {c}
  BY <1>1 DEF Unmixed, Crowd
<1> QED
  BY <1>2, AgreedSame DEF Agreement

LEMMA AgreeBegin ==
  ASSUME AgreeInv, NEW c \in Writers, Begin(c)
  PROVE  OnTheWay' /\ Agreement'
<1> USE DEF AgreeInv
<1>1. Opens(c)
  BY BeginIs DEF FollowInv, TypeInv, Typed
<1>2. OnTheWay'
  <2> SUFFICES ASSUME NEW d \in Writers, Serving(d)' PROVE Way(d)'
    BY DEF OnTheWay
  <2>1. d = c
    BY <1>1 DEF Opens, Serving
  <2>2. save'[c].pc = "none" /\ op'[c].pc \in {"change", "get", "scan"}
    BY <1>1, NotSaved DEF Opens, Fresh, fileVars, FollowInv, TypeInv
  <2> QED
    BY <2>1, <2>2 DEF Way
<1>3. Agreement'
  <2> SUFFICES ASSUME running', settled' PROVE Agreed'
    BY DEF Agreement
  <2>1. running /\ settled /\ Busy = {}
    BY <1>1 DEF Opens, storeVars
  <2>2. Agreed
    BY <2>1 DEF Agreement
  <2> QED
    BY <1>1, <2>2, AgreedSame DEF Opens, storeVars
<1> QED
  BY <1>2, <1>3

\* The part of a request that changes the layer.
LEMMA AgreeChange ==
  ASSUME AgreeInv, NEW c \in Writers,
         \/ SetField(c) \/ ClearLayerField(c)
         \/ CopyLayer(c) \/ SetPluginKey(c) \/ DeletePluginKey(c) \/ Replace(c)
  PROVE  OnTheWay' /\ Agreement'
<1> USE DEF AgreeInv, FollowInv, TypeInv
<1>0. op[c].pc \notin {"get", "iterate"} => op[c].kind # "read"
  BY DEF Solo, Reads
<1>a. ASSUME NEW pc \in {"get", "mutate", "replace"}, Moves(c, pc), op[c].pc \in {"change", "mutate"},
             UNCHANGED running, UNCHANGED fileVars
      PROVE  OnTheWay' /\ Agreement'
  <2>1. Along(c) /\ op'[c].pc = pc /\ op'[c].kind = op[c].kind
    BY <1>a, MovesAlong DEF Moves, Goes
  <2>2. OnTheWay'
    BY <1>a, <2>1, WayEarly DEF DaemonPcs, fileVars
  <2> QED
    BY <1>0, <1>a, <2>1, <2>2, AgreementLate
<1>b. ASSUME Outdates(c, "get"), op[c].pc \in {"change", "replace"}, UNCHANGED running, UNCHANGED fileVars
      PROVE  OnTheWay' /\ Agreement'
  <2>1. Along(c) /\ op'[c].pc = "get" /\ op'[c].kind = op[c].kind
    BY <1>b, OutdatesAlong DEF Outdates, Goes
  <2>2. OnTheWay'
    BY <1>b, <2>1, WayEarly DEF DaemonPcs, fileVars
  <2> QED
    BY <1>0, <1>b, <2>1, <2>2, AgreementLate
<1>1. CASE SetField(c) \/ ClearLayerField(c)
  <2>1. /\ op[c].pc = "change"
        /\ UNCHANGED <<running, heap, config, atRun, launch, settled>> /\ UNCHANGED fileVars
        /\ \/ UNCHANGED <<layers, cache>> /\ Finishes(c)
           \/ Outdates(c, "get")
    BY <1>1, FieldIs
  <2>2. CASE UNCHANGED layers /\ Finishes(c)
    <3>1. Along(c) /\ op'[c].pc = "idle"
      BY <2>1, <2>2, FinishesAlong, IdleType DEF Finishes
    <3>2. OnTheWay'
      BY <2>1, <3>1, WayEarly DEF fileVars
    <3> QED
      BY <2>1, <2>2, <3>1, <3>2, AgreementSame DEF Solo, Untouched
  <2> QED
    BY <1>b, <2>1, <2>2
<1>2. CASE CopyLayer(c)
  BY <1>2, <1>a, CopyIs DEF Copied
<1>3. CASE SetPluginKey(c) \/ DeletePluginKey(c)
  BY <1>3, <1>a, MutateIs DEF Mutated
<1>4. CASE Replace(c)
  BY <1>4, <1>b, ReplaceIs
<1> QED
  BY <1>1, <1>2, <1>3, <1>4

\* The part of a request that publishes the change, and GetConfig.
LEMMA AgreePublish ==
  ASSUME AgreeInv, NEW c \in Writers,
         Get(c) \/ AllKeys(c) \/ Publish(c) \/ GetLayer(c) \/ Marshal(c)
  PROVE  OnTheWay' /\ Agreement'
<1> USE DEF AgreeInv, FollowInv, TypeInv
<1>0. op[c].pc \notin {"get", "iterate"} => op[c].kind # "read"
  BY DEF Solo, Reads
<1>a. ASSUME NEW pc \in {"publish", "layer", "marshal", "saving"}, Moves(c, pc),
             op[c].pc # "idle", op[c].kind # "read", UNCHANGED running,
             Serving(c) /\ op'[c].pc = pc => Way(c)'
      PROVE  OnTheWay' /\ Agreement'
  <2>1. Along(c) /\ op'[c].pc = pc /\ op'[c].kind = op[c].kind
    BY <1>a, MovesAlong DEF Moves, Goes
  <2>2. OnTheWay'
    BY <1>a, <2>1, ServingWas DEF OnTheWay
  <2> QED
    BY <1>a, <2>1, <2>2, AgreementLate
<1>b. op[c].pc # "saving" => save[c].pc = "none"
  BY NotSaved
<1>1. CASE Get(c)
  <2>1. Got(c) /\ cache' = Overlay
    BY <1>1, GetIs
  <2>2. CASE op[c].kind = "read"
    <3>1. Moves(c, "iterate") /\ op[c].pc = "get" /\ UNCHANGED <<running, layers, heap, config, settled>>
          /\ UNCHANGED fileVars
      BY <2>1, <2>2 DEF Got
    <3>2. Along(c) /\ op'[c].pc = "iterate"
      BY <3>1, MovesAlong DEF Moves
    <3>3. OnTheWay'
      BY <3>1, <3>2, WayEarly DEF DaemonPcs, fileVars
    <3> QED
      BY <2>2, <3>1, <3>2, <3>3, AgreementSame DEF Solo, Untouched
  <2>3. CASE op[c].kind # "read"
    <3>1. /\ Moves(c, "publish") /\ op'[c].cfg = Overlay /\ op[c].pc = "get"
          /\ UNCHANGED <<running, layers>> /\ UNCHANGED fileVars
      BY <2>1, <2>3 DEF Got
    <3>2. op'[c].pc = "publish" => Way(c)'
      BY <1>b, <3>1, SameOverlay DEF Way, fileVars
    <3> QED
      BY <1>a, <2>3, <3>1, <3>2
  <2> QED
    BY <2>2, <2>3
<1>2. CASE AllKeys(c)
  <2>1. Finishes(c) /\ op[c].pc = "iterate" /\ UNCHANGED storeVars /\ UNCHANGED settled /\ UNCHANGED fileVars
    BY <1>2, FinishType DEF AllKeys, At, Finishes, Typed
  <2>2. Along(c) /\ op'[c].pc = "idle"
    BY <2>1, FinishesAlong, IdleType DEF Finishes
  <2>3. OnTheWay'
    BY <2>1, <2>2, WayEarly DEF storeVars, fileVars
  <2> QED
    BY <2>1, <2>2, <2>3, AgreementSame DEF Solo, Untouched, storeVars
<1>3. CASE Publish(c)
  <2>1. /\ op[c].pc = "publish" /\ Moves(c, "layer") /\ config' = op[c].cfg
        /\ UNCHANGED <<running, layers>> /\ UNCHANGED fileVars
    BY <1>3, PublishIs
  <2>2. Serving(c) /\ op'[c].pc = "layer" => Way(c)'
    BY <1>b, <2>1, SameOverlay DEF OnTheWay, Way, fileVars
  <2> QED
    BY <1>0, <1>a, <2>1, <2>2
<1>4. CASE GetLayer(c)
  <2>1. /\ op[c].pc = "layer" /\ Moves(c, "marshal") /\ op'[c].cfg = FileLayer
        /\ UNCHANGED storeVars /\ UNCHANGED fileVars
    BY <1>4, GetLayerIs
  <2>2. Serving(c) /\ op'[c].pc = "marshal" => Way(c)'
    BY <1>b, <2>1, SameOverlay DEF OnTheWay, Way, fileVars, storeVars
  <2> QED
    BY <1>0, <1>a, <2>1, <2>2 DEF storeVars
<1>5. CASE Marshal(c)
  <2>1. /\ op[c].pc = "marshal" /\ Moves(c, "saving") /\ SaveBegin(c, Contents(op[c].cfg))
        /\ UNCHANGED storeVars
    BY <1>5, MarshalIs
  <2>2. save'[c].pc = "open" /\ save'[c].snapshot = Contents(op[c].cfg)
    BY <2>1, SaveBeginPcs DEF Typed
  <2>3. Serving(c) => op[c].cfg = FileLayer /\ config = Overlay
    BY <2>1 DEF OnTheWay, Way
  <2>4. Overlay' = Overlay /\ Contents(FileLayer)' = Contents(FileLayer) /\ UNCHANGED <<config, running>>
    BY <2>1, SameOverlay, SameContents DEF storeVars
  <2>5. Serving(c) /\ op'[c].pc = "saving" => Way(c)'
    BY <2>2, <2>3, <2>4 DEF Way
  <2> QED
    BY <1>0, <1>a, <2>1, <2>4, <2>5
<1> QED
  BY <1>1, <1>2, <1>3, <1>4, <1>5

\* A process that opens the file itself: no daemon that runs is alone with one that changes it.
LEMMA AgreeSelf ==
  ASSUME AgreeInv, NEW c \in Writers,
         RecoverScan(c) \/ RecoverPromote(c) \/ RecoverClean(c) \/ LoadFile(c) \/ ChangeOwn(c)
  PROVE  OnTheWay' /\ Agreement'
<1> USE DEF AgreeInv, FollowInv, TypeInv
<1>1. /\ op[c].via = "self" /\ op[c].pc \in SelfPcs
      /\ UNCHANGED storeVars /\ UNCHANGED settled
  BY DEF RecoverScan, RecoverPromote, RecoverClean, LoadFile, ChangeOwn, At, SelfPcs
<1>2. Along(c)
  <2>1. CASE RecoverScan(c)
    BY <2>1, ScanIs, MovesAlong
  <2>2. CASE RecoverPromote(c) \/ RecoverClean(c)
    BY <2>2, RecoverIs, MovesAlong
  <2>3. CASE LoadFile(c)
    BY <2>3, LoadIs, MovesAlong, FinishesAlong
  <2>4. CASE ChangeOwn(c)
    <3>1. op[c].kind \in {"set", "delete"} /\ op[c].pc # "idle"
      BY <2>4 DEF ChangeOwn, At, Calls, ChangePcs
    <3> QED
      BY <2>4, <3>1, OwnIs, MovesAlong, FinishesAlong
  <2> QED
    BY <2>1, <2>2, <2>3, <2>4
<1>3. OnTheWay'
  <2> SUFFICES ASSUME NEW d \in Writers, Serving(d)' PROVE FALSE
    BY DEF OnTheWay
  <2> QED
    BY <1>1, <1>2, ServingWas DEF storeVars
<1>4. Agreement'
  <2> SUFFICES ASSUME running, settled PROVE Agreed'
    BY <1>1 DEF Agreement, storeVars
  <2>1. op[c].alone
    BY <1>1 DEF Solo, Unmixed, Busy, SelfPcs
  <2>2. op[c].kind = "get"
    BY <1>1, <2>1 DEF Solo, Looks
  <2>3. ~ChangeOwn(c)
    BY <2>2 DEF ChangeOwn, At, Calls, ChangePcs
  <2>4. ~RecoverPromote(c) /\ ~RecoverClean(c)
    BY DEF RecoverPromote, RecoverClean, At, Solo, Tidy
  <2>5. op[c].pc \in {"scan", "load"} /\ UNCHANGED fileVars
    BY <2>3, <2>4 DEF RecoverScan, LoadFile, At
  <2>6. Busy = {c}
    BY <1>2, <2>1, BusyLess DEF Solo
  <2>7. Agreed
    BY <2>5, <2>6 DEF Agreement, Untouched
  <2> QED
    BY <1>1, <2>5, <2>7, AgreedSame DEF storeVars
<1> QED
  BY <1>3, <1>4

\* No variable of a plugin's value stands for another.
ExpandsOnce == \A t \in Texts : Expand[Expand[t]] = Expand[t]

\* Then a document that has been read is read as it is.
LEMMA LoadTwice ==
  ASSUME ExpandsOnce, NEW doc \in Documents \union {NoFile}
  PROVE  LoadRaw(LoadRaw(doc)) = LoadRaw(doc)
<1> DEFINE once == LoadRaw(doc)
           ps == [k \in PluginKeys |-> IF once.plugins[k] = Unset THEN Unset ELSE Expand[once.plugins[k]]]
<1>1. once \in Documents /\ once # NoFile
  BY LoadRawType, DocumentsAssumption
<1>2. LoadRaw(once) = [once EXCEPT !.plugins = ps]
  <2> HIDE DEF once
  <2> QED
    BY <1>1 DEF LoadRaw
<1>3. ASSUME NEW k \in PluginKeys
      PROVE  once.plugins[k] = Unset \/ Expand[once.plugins[k]] = once.plugins[k]
  <2>1. CASE doc = NoFile
    BY <2>1 DEF LoadRaw, Empty, NoPlugins
  <2>2. CASE doc # NoFile
    <3>1. once.plugins[k] = IF doc.plugins[k] = Unset THEN Unset ELSE Expand[doc.plugins[k]]
      BY <2>2 DEF LoadRaw, Documents
    <3>2. doc.plugins[k] # Unset => doc.plugins[k] \in Texts
      BY <2>2 DEF Documents, PluginType
    <3> QED
      BY <3>1, <3>2 DEF ExpandsOnce
  <2> QED
    BY <2>1, <2>2
<1> HIDE DEF once
<1>4. once.plugins \in PluginType
  BY <1>1 DEF Documents
<1>5. ps = once.plugins
  BY <1>3, <1>4 DEF PluginType
<1> QED
  BY <1>1, <1>2, <1>5 DEF Documents, once

\* The steps of the save that ends a change, and its end.
LEMMA AgreeSaving ==
  ASSUME AgreeInv, NEW c \in Writers, SaveMoves(c)
  PROVE  OnTheWay' /\ Agreement'
<1> USE DEF AgreeInv, FollowInv, TypeInv
<1>1. op[c].pc = "saving" /\ SaveStep(c) /\ UNCHANGED storeVars /\ UNCHANGED <<op, settled>>
  BY DEF SaveMoves
<1>2. Overlay' = Overlay /\ Contents(FileLayer)' = Contents(FileLayer) /\ UNCHANGED <<config, running>>
  BY <1>1, SameOverlay, SameContents DEF storeVars
<1>3. Agreement'
  <2>1. op[c].kind \in {"set", "delete"}
    BY <1>1 DEF Calls, ChangePcs
  <2> QED
    BY <1>1, <2>1, AgreementLate
<1>4. SUFFICES ASSUME NEW d \in Writers, Serving(d), Way(d) PROVE Way(d)'
  BY <1>1, <1>2, <1>3 DEF OnTheWay, Serving
<1>5. d = c
  <2>1. c \in Busy /\ d \in Busy
    BY <1>1, <1>4 DEF Busy, Serving, Calls
  <2> QED
    BY <1>4, <2>1 DEF Serving, Solo, Crowd
<1>6. CASE OpenTemp(c)
  <2>1. PICK stamp \in 1..MaxStamp, inode \in Inodes : OpenedAs(c, stamp, inode)
    BY <1>6, OpenTempIs DEF Typed
  <2>2. /\ save'[c].pc = "write" /\ save'[c].stamp = stamp /\ save'[c].inode = inode
        /\ save'[c].snapshot = save[c].snapshot /\ save[c].pc = "open"
    BY <1>6, <2>1 DEF OpenedAs, OpenTemp, Typed, FileTyped, SaveType
  <2>3. stamp \in DOMAIN tmp' /\ tmp'[stamp] = inode
    BY <2>1 DEF OpenedAs
  <2> QED
    BY <1>1, <1>2, <1>4, <1>5, <2>2, <2>3 DEF Way
<1>7. CASE WriteTemp(c)
  <2>1. /\ save'[c].pc = "rename" /\ save'[c].stamp = save[c].stamp /\ save[c].pc = "write"
        /\ save'[c].snapshot = save[c].snapshot
        /\ UNCHANGED tmp /\ data' = [data EXCEPT ![save[c].inode] = save[c].snapshot]
    BY <1>7 DEF WriteTemp, Typed, FileTyped, SaveType
  <2>2. save[c].stamp \in DOMAIN tmp /\ tmp[save[c].stamp] = save[c].inode
    BY <1>4, <1>5, <2>1 DEF Way
  <2>3. tmp[save[c].stamp] \in Inodes
    BY <2>2 DEF Typed, FileTyped, Range
  <2>4. data'[tmp'[save'[c].stamp]] = save'[c].snapshot
    BY <2>1, <2>2, <2>3 DEF Typed, FileTyped
  <2> QED
    BY <1>1, <1>2, <1>4, <1>5, <2>1, <2>2, <2>4 DEF Way
<1> QED
  BY <1>1, <1>6, <1>7 DEF SaveStep

LEMMA AgreeSaved ==
  ASSUME AgreeInv, NEW c \in Writers, SaveEnds(c)
  PROVE  OnTheWay' /\ Agreement'
<1> USE DEF AgreeInv
<1>0. /\ op[c].pc = "saving" /\ save[c].pc = "rename" /\ RenameTemp(c)
      /\ Finishes(c) /\ UNCHANGED storeVars
      /\ settled' => op[c].alone /\ DOMAIN tmp' = {}
  BY SaveEndsIs
<1> USE DEF FollowInv, TypeInv
<1>1. Along(c) /\ op'[c].pc = "idle"
  BY <1>0, FinishesAlong, IdleType DEF Finishes
<1>2. OnTheWay'
  BY <1>0, <1>1, ServingWas DEF OnTheWay, storeVars
<1>3. Agreement'
  <2> SUFFICES ASSUME running', settled' PROVE Agreed'
    BY DEF Agreement
  <2>1. running /\ op[c].alone /\ op[c].kind \in {"set", "delete"} /\ DOMAIN tmp' = {}
    BY <1>0 DEF storeVars, Calls, ChangePcs
  <2> DEFINE s == save[c].stamp
  <2>2. /\ config = Overlay /\ save[c].snapshot = Contents(FileLayer)
        /\ s \in DOMAIN tmp /\ data[tmp[s]] = save[c].snapshot
    BY <1>0, <2>1 DEF OnTheWay, Serving, Way
  <2>3. canonical' = tmp[s] /\ data' = Freed({canonical})
    BY <1>0, <2>2 DEF RenameTemp
  <2>4. tmp[s] \in Inodes /\ tmp[s] # canonical /\ tmp[s] # NoInode
    BY <2>2, FileBounds DEF Typed, FileTyped, Named, Range
  <2> HIDE DEF s
  <2>5. data'[tmp[s]] = data[tmp[s]]
    BY <2>3, <2>4 DEF Freed
  <2>6. RestartReads' = save[c].snapshot
    BY <2>1, <2>2, <2>3, <2>4, <2>5 DEF RestartReads, Load
  <2>7. Contents(FileLayer) \in Documents
    BY ContentsType DEF Typed, StoreTyped, FileLayer
  <2>8. UNCHANGED config /\ Overlay' = Overlay /\ Contents(FileLayer)' = Contents(FileLayer)
    BY <1>0, SameOverlay, SameContents DEF storeVars
  <2> QED
    BY <2>2, <2>6, <2>7, <2>8, DocumentsAssumption DEF Agreed
<1> QED
  BY <1>2, <1>3

LEMMA AgreeBroken ==
  ASSUME AgreeInv, NEW c \in Writers, SaveBreaks(c) \/ CommandEnds(c)
  PROVE  OnTheWay' /\ Agreement'
<1> USE DEF AgreeInv, FollowInv, TypeInv
<1>1. op[c].pc # "idle" /\ Finishes(c) /\ UNCHANGED storeVars /\ settled' = FALSE
  BY FinishType DEF SaveBreaks, CommandEnds, Finishes, Typed
<1>2. Along(c) /\ op'[c].pc = "idle"
  BY <1>1, FinishesAlong, IdleType DEF Finishes
<1> QED
  BY <1>1, <1>2, ServingWas DEF OnTheWay, Agreement, storeVars

\* The daemon starts: it has what it has read.
LEMMA AgreeBoot ==
  ASSUME ExpandsOnce, AgreeInv, NEW c \in Writers, Boot(c)
  PROVE  OnTheWay' /\ Agreement'
<1> USE DEF AgreeInv, FollowInv, TypeInv
<1>0. /\ op[c].kind = "boot" /\ op[c].pc = "load" /\ ~running
      /\ Finishes(c) /\ UNCHANGED fileVars
      /\ \/ UNCHANGED storeVars /\ UNCHANGED settled
         \/ /\ Load # Torn /\ LoadRaw(Load) \in Documents
            /\ \E m \in Maps \union {NoMap} :
                 /\ m = IF LoadRaw(Load).plugins = NoPlugins THEN NoMap ELSE 1
                 /\ Booted(c, LoadRaw(Load), m)
  BY BootIs
<1>1. Along(c) /\ op'[c].pc = "idle"
  BY <1>0, FinishesAlong, IdleType DEF Finishes
<1>2. CASE UNCHANGED storeVars
  BY <1>0, <1>2 DEF OnTheWay, Agreement, Serving, storeVars
<1>3. ASSUME Load # Torn, LoadRaw(Load) \in Documents, NEW m \in Maps \union {NoMap},
             m = IF LoadRaw(Load).plugins = NoPlugins THEN NoMap ELSE 1,
             Booted(c, LoadRaw(Load), m)
      PROVE  OnTheWay' /\ Agreement'
  <2> DEFINE doc == LoadRaw(Load)
             layer == [plain |-> doc.plain, plugins |-> m]
  <2>1. /\ heap' = [heap EXCEPT ![1] = doc.plugins]
        /\ layers' = <<DefaultLayer, layer, FlagLayer>>
        /\ config' = OverlayOne(OverlayOne(DefaultLayer, layer), FlagLayer)
        /\ settled' = (op[c].alone /\ DOMAIN tmp = {})
    BY <1>3 DEF Booted
  <2>2. Load \in Documents \union {NoFile}
    BY <1>3, ReadType DEF Typed
  <2>3. doc \in Documents /\ doc.plugins \in PluginType
    BY <1>3 DEF Documents
  <2>4. LoadRaw(doc) = doc
    BY <2>2, LoadTwice
  <2>8. m = IF doc.plugins = NoPlugins THEN NoMap ELSE 1
    BY <1>3
  <2> HIDE DEF doc
  <2>5. config' = Overlay' /\ FileLayer' = layer
    BY <2>1 DEF Overlay, FileLayer
  <2>6. Contents(FileLayer)' = doc
    <3>1. heap'[1] = doc.plugins
      BY <2>1, ConfigStoreAssumption DEF Typed, StoreTyped, Maps
    <3>2. layer.plugins = NoMap => doc.plugins = NoPlugins
      BY <2>8 DEF NoMap
    <3>3. layer.plugins # NoMap => layer.plugins = 1
      BY <2>8
    <3>4. Contents(FileLayer)' = [plain |-> layer.plain,
                                  plugins |-> IF layer.plugins = NoMap THEN NoPlugins ELSE heap'[layer.plugins]]
      BY <2>5 DEF Contents
    <3>5. Contents(FileLayer)' = [plain |-> doc.plain, plugins |-> doc.plugins]
      BY <3>1, <3>2, <3>3, <3>4
    <3> QED
      BY <2>3, <3>5 DEF Documents
  <2>7. Agreement'
    <3> SUFFICES ASSUME settled' PROVE Agreed'
      BY DEF Agreement
    <3>1. RestartReads' = Load
      BY <1>0, <2>1 DEF RestartReads, Load, fileVars
    <3> QED
      BY <1>3, <2>4, <2>5, <2>6, <3>1 DEF Agreed, doc
  <2>9. OnTheWay'
    <3> SUFFICES ASSUME NEW d \in Writers, Serving(d)' PROVE FALSE
      BY DEF OnTheWay
    <3>1. c \in Busy /\ d # c /\ op[d].kind \in {"set", "delete"} /\ op[d].alone
      BY <1>0, <1>1 DEF Busy, Along, Serving
    <3> QED
      BY <3>1 DEF Solo, Crowd, Busy, Calls
  <2> QED
    BY <2>7, <2>9
<1> QED
  BY <1>0, <1>2, <1>3

LEMMA AgreeStep == ExpandsOnce /\ AgreeInv /\ [Next]_vars => AgreeInv'
<1> SUFFICES ASSUME ExpandsOnce, AgreeInv, [Next]_vars PROVE OnTheWay' /\ Agreement'
  BY FollowStep, NamedStep, SoloStep DEF AgreeInv
<1>1. ASSUME NEW c \in Writers, Begin(c) PROVE OnTheWay' /\ Agreement'
  BY <1>1, AgreeBegin
<1>2. ASSUME NEW c \in Writers, Continue(c) PROVE OnTheWay' /\ Agreement'
  BY <1>2, AgreeChange, AgreePublish, AgreeSelf, AgreeSaving, AgreeSaved, AgreeBroken, AgreeBoot DEF Continue
<1>3. CASE DaemonEnds \/ MapFault
  BY <1>3 DEF DaemonEnds, MapFault, Gone, OnTheWay, Agreement, Serving
<1>4. CASE UNCHANGED vars
  <2>1. UNCHANGED storeVars /\ UNCHANGED fileVars /\ UNCHANGED <<op, settled>>
    BY <1>4 DEF vars
  <2>2. Busy' = Busy /\ UNCHANGED <<running, config, layers, heap, tmp, data, save>>
    BY <2>1 DEF storeVars, fileVars, Busy
  <2>3. OnTheWay'
    BY <2>1, <2>2, SameOverlay, SameContents DEF AgreeInv, OnTheWay, Serving, Way
  <2>4. Agreement'
    BY <2>1, <2>2, AgreedSame DEF AgreeInv, Agreement, Untouched
  <2> QED
    BY <2>3, <2>4
<1> QED
  BY <1>1, <1>2, <1>3, <1>4 DEF Next

LEMMA AgreeInit == ExpandsOnce /\ Init => AgreeInv
<1> SUFFICES ASSUME ExpandsOnce, Init PROVE OnTheWay /\ Agreement
  BY FollowInit, SoloInit DEF AgreeInv
<1>1. \A c \in Writers : op[c].kind = "none"
  BY IdleType DEF Init
<1>2. /\ running => config = Overlay
      /\ layers = <<DefaultLayer, ZeroConfig, FlagLayer>> /\ FileInit
  BY DEF Init
<1>3. RestartReads = NoFile
  BY <1>2 DEF FileInit, RestartReads, Load
<1>4. LoadRaw(NoFile) = Empty /\ Contents(FileLayer) = Empty
  BY <1>2 DEF LoadRaw, Contents, FileLayer, ZeroConfig, Empty
<1>5. LoadRaw(Empty) = Empty
  BY <1>4, LoadTwice
<1> QED
  BY <1>1, <1>2, <1>3, <1>4, <1>5, StateFileAssumption DEF OnTheWay, Serving, Agreement, Agreed

\* cli-commands.md:309, SetConfig and DeleteConfig followed by Save: once the changes that had the
\* store for themselves are answered, d.config is the overlay and a daemon started now loads the
\* same file layer, however many crashes, recoveries and overlapping changes went before.
THEOREM SettledAlwaysAgrees ==
  ASSUME ExpandsOnce
  PROVE  Spec => []SettledAgrees
<1>1. AgreeInv => SettledAgrees
  BY DEF AgreeInv, Agreement, Agreed, SettledAgrees
<1>2. Init => AgreeInv
  BY AgreeInit
<1>3. AgreeInv /\ [Next]_vars => AgreeInv'
  BY AgreeStep
<1> QED
  BY <1>1, <1>2, <1>3, PTL DEF Spec

-----------------------------------------------------------------------------
(* What config get shows. *)

\* The value of the most specific of three layers that defines a field.
LEMMA LeastIs ==
  ASSUME NEW S \in SUBSET Nat, NEW m \in S, \A y \in S : m =< y
  PROVE  Min(S) = m
<1>1. \A x \in S : (\A y \in S : x =< y) => x = m
  OBVIOUS
<1> QED
  BY <1>1 DEF Min

LEMMA FirstIs ==
  ASSUME NEW a, NEW b, NEW d, NEW f
  PROVE  FirstDefined(<<a, b, d>>, f) =
           IF a[f] # Unset THEN a[f] ELSE IF b[f] # Unset THEN b[f] ELSE d[f]
<1> DEFINE ls == <<a, b, d>>
           at == {i \in DOMAIN ls : ls[i][f] # Unset}
<1>1. DOMAIN ls = {1, 2, 3} /\ ls[1] = a /\ ls[2] = b /\ ls[3] = d
  OBVIOUS
<1>2. at \in SUBSET {1, 2, 3} /\ at \in SUBSET Nat
  BY <1>1
<1>3. FirstDefined(ls, f) = IF at = {} THEN Unset ELSE ls[Min(at)][f]
  BY DEF FirstDefined
<1>4. /\ 1 \in at <=> a[f] # Unset
      /\ 2 \in at <=> b[f] # Unset
      /\ 3 \in at <=> d[f] # Unset
  BY <1>1
<1> HIDE DEF at, ls
<1>5. CASE 1 \in at
  <2>1. Min(at) = 1
    BY <1>2, <1>5, LeastIs
  <2> QED
    BY <1>1, <1>3, <1>4, <1>5, <2>1 DEF ls
<1>6. CASE 1 \notin at /\ 2 \in at
  <2>1. Min(at) = 2
    BY <1>2, <1>6, LeastIs
  <2> QED
    BY <1>1, <1>3, <1>4, <1>6, <2>1 DEF ls
<1>7. CASE 1 \notin at /\ 2 \notin at /\ 3 \in at
  <2>1. Min(at) = 3
    BY <1>2, <1>7, LeastIs
  <2> QED
    BY <1>1, <1>3, <1>4, <1>7, <2>1 DEF ls
<1>8. CASE 1 \notin at /\ 2 \notin at /\ 3 \notin at
  <2>1. at = {}
    BY <1>2, <1>8
  <2> QED
    BY <1>3, <1>4, <1>8, <2>1 DEF ls
<1> QED
  BY <1>5, <1>6, <1>7, <1>8

\* The daemon reports the launch arguments of the configuration it started with, where every
\* field that falls back to no other has a value.
Launched ==
  running =>
    /\ launch = LaunchArgs(atRun)
    /\ \A f \in Fields \ DOMAIN Fallback : atRun.plain[f] # Unset

\* The overlay of a layer on the defaults has them all.
LEMMA OverlayDefined ==
  ASSUME NEW layer, NEW f \in Fields \ DOMAIN Fallback
  PROVE  OverlayOne(OverlayOne(DefaultLayer, layer), FlagLayer).plain[f] # Unset
<1>1. Defaults[f] # Unset
  BY ConfigStoreAssumption
<1> QED
  BY <1>1 DEF OverlayOne, DefaultLayer

LEMMA LaunchedStep == FollowInv /\ Launched /\ [Next]_vars => Launched'
<1> SUFFICES ASSUME FollowInv, Launched, [Next]_vars PROVE Launched'
  OBVIOUS
<1>a. ASSUME UNCHANGED <<running, atRun, launch>> PROVE Launched'
  BY <1>a DEF Launched, LaunchArgs
<1>1. ASSUME NEW c \in Writers, Begin(c) PROVE Launched'
  BY <1>1, <1>a, BeginIs DEF FollowInv, TypeInv, Typed, Opens, storeVars
<1>2. ASSUME NEW c \in Writers, Continue(c) PROVE Launched'
  <2>1. CASE Boot(c)
    <3>1. CASE UNCHANGED storeVars
      BY <1>a, <3>1 DEF storeVars
    <3>2. ASSUME NEW m, Booted(c, LoadRaw(Load), m) PROVE Launched'
      BY <3>2, OverlayDefined DEF Booted, Launched
    <3> QED
      BY <2>1, <3>1, <3>2, BootIs DEF FollowInv
  <2>2. CASE ~Boot(c)
    BY <1>2, <1>a, <2>2
       DEF Continue, SetField, ClearLayerField, CopyLayer, SetPluginKey, DeletePluginKey, Replace, Get,
           AllKeys, Publish, GetLayer, Marshal, RecoverScan, RecoverPromote, RecoverClean, LoadFile,
           ChangeOwn, SaveMoves, SaveEnds, SaveBreaks, CommandEnds, storeVars
  <2> QED
    BY <2>1, <2>2
<1>3. CASE DaemonEnds \/ MapFault
  BY <1>3 DEF DaemonEnds, MapFault, Gone, Launched
<1>4. CASE UNCHANGED vars
  BY <1>a, <1>4 DEF vars, storeVars
<1> QED
  BY <1>1, <1>2, <1>3, <1>4 DEF Next

LEMMA LaunchedInit == Init => Launched
<1> SUFFICES ASSUME Init, running PROVE Launched
  BY DEF Launched
<1>1. /\ layers = <<DefaultLayer, ZeroConfig, FlagLayer>>
      /\ atRun = Overlay /\ launch = LaunchArgs(atRun)
  BY DEF Init
<1>2. Overlay = OverlayOne(OverlayOne(DefaultLayer, ZeroConfig), FlagLayer)
  BY <1>1 DEF Overlay
<1> QED
  BY <1>1, <1>2, OverlayDefined DEF Launched

\* If memory and file agree, the command's own overlay is the daemon's.
LEMMA AgreedShows ==
  ASSUME TypeInv, Agreed, Launched, running
  PROVE  \A f \in Fields : Shown(f) = Value(IF f \in Reported THEN atRun.plain ELSE config.plain, f)
<1> DEFINE onFile == LoadRaw(RestartReads).plain
<1>1. onFile = FileLayer.plain
  <2>1. FileLayer \in ConfigType
    BY DEF TypeInv, Typed, StoreTyped, FileLayer
  <2>2. Contents(FileLayer) \in Documents
    BY <2>1, ContentsType DEF TypeInv, Typed
  <2>3. Contents(FileLayer) # NoFile /\ Contents(FileLayer).plain = FileLayer.plain
    BY <2>2, DocumentsAssumption DEF Contents
  <2>4. LoadRaw(Contents(FileLayer)).plain = Contents(FileLayer).plain
    <3>1. \A doc \in Documents : \A ps : [doc EXCEPT !.plugins = ps].plain = doc.plain
      BY DEF Documents
    <3> QED
      BY <2>2, <2>3, <3>1 DEF LoadRaw
  <2> QED
    BY <2>3, <2>4 DEF Agreed
<1> HIDE DEF onFile
<1>2. ASSUME NEW f \in Fields
      PROVE  ShownPlain[f] = IF launch[f] # Unset THEN launch[f]
                             ELSE IF FileLayer.plain[f] # Unset THEN FileLayer.plain[f] ELSE Defaults[f]
  BY <1>1, FirstIs DEF ShownPlain, onFile
<1>3. ASSUME NEW f \in Fields
      PROVE  config.plain[f] = IF Flags[f] # Unset THEN Flags[f]
                               ELSE IF FileLayer.plain[f] # Unset THEN FileLayer.plain[f] ELSE Defaults[f]
  BY DEF Agreed, Overlay, OverlayOne, TypeInv, Typed, StoreTyped, DefaultLayer, FlagLayer, FileLayer
<1>4. ASSUME NEW f \in Fields
      PROVE  launch[f] = IF f \in Reported THEN atRun.plain[f] ELSE Flags[f]
  BY DEF Launched, LaunchArgs
<1>5. ASSUME NEW f \in Fields, f \notin Reported
      PROVE  ShownPlain[f] = config.plain[f]
  BY <1>2, <1>3, <1>4, <1>5
<1>6. ASSUME NEW f \in Fields PROVE Shown(f) = Value(IF f \in Reported THEN atRun.plain ELSE config.plain, f)
  <2>1. CASE f \in Reported
    <3>1. f \notin DOMAIN Fallback /\ atRun.plain[f] # Unset
      BY <2>1, ConfigStoreAssumption DEF Launched
    <3>2. ShownPlain[f] = atRun.plain[f]
      BY <1>2, <1>4, <2>1, <3>1
    <3> QED
      BY <2>1, <3>1, <3>2 DEF Shown, Value
  <2>2. CASE f \notin Reported
    <3>1. f \in DOMAIN Fallback => Fallback[f] \in Fields /\ Fallback[f] \notin Reported
      BY ConfigStoreAssumption DEF Range
    <3>2. f \in DOMAIN Fallback => ShownPlain[Fallback[f]] = config.plain[Fallback[f]]
      BY <1>5, <3>1
    <3>3. ShownPlain[f] = config.plain[f]
      BY <1>5, <2>2
    <3> QED
      BY <2>2, <3>2, <3>3 DEF Shown, Value
  <2> QED
    BY <2>1, <2>2
<1> QED
  BY <1>6

\* cli/config.go:79, populateCLIArgsFromDaemon: then config get shows what the daemon uses.
THEOREM CommandAlwaysShows ==
  ASSUME ExpandsOnce
  PROVE  Spec => []CommandShowsEffective
<1>1. AgreeInv /\ Launched => CommandShowsEffective
  <2> SUFFICES ASSUME AgreeInv, Launched, running, settled, Busy = {}
               PROVE  \A f \in Fields :
                        Shown(f) = Value(IF f \in Reported THEN atRun.plain ELSE config.plain, f)
    BY DEF CommandShowsEffective
  <2>1. Agreed
    BY DEF AgreeInv, Agreement
  <2> QED
    BY <2>1, AgreedShows DEF AgreeInv, FollowInv
<1>2. Init => AgreeInv /\ Launched
  BY AgreeInit, LaunchedInit
<1>3. AgreeInv /\ Launched /\ [Next]_vars => AgreeInv' /\ Launched'
  BY AgreeStep, LaunchedStep DEF AgreeInv
<1> QED
  BY <1>1, <1>2, <1>3, PTL DEF Spec
=============================================================================
