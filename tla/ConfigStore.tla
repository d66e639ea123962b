------------------------------ MODULE ConfigStore ------------------------------
(***************************************************************************)
(* The daemon's configuration: the layered store (pkg/config/store.go,     *)
(* overlay.go), its keys (src/domain/config/keys.go), config.yaml          *)
(* (src/infra/yaml/config), the requests SetConfig, DeleteConfig and       *)
(* GetConfig (src/app/recurd/daemon/api.go) and the config commands        *)
(* (src/app/recur/cli/config.go).                                          *)
(*                                                                         *)
(* A Config is copied field by field, except that its Plugins is a         *)
(* reference to a map: the layer, the cache, d.config and the copies held  *)
(* by requests share it, and the requests for plugin keys change it in     *)
(* place without a lock.  config.yaml is a file of StateFile.              *)
(*                                                                         *)
(* A definition whose comment begins with "Mutant of" is no part of the    *)
(* model: it is a plausible mistake that a property must notice.           *)
(***************************************************************************)
EXTENDS StateFile, Sequences

CONSTANTS
  Fields,     \* the plain keys
  PluginKeys, \* the keys of one plugin namespace
  Texts,      \* what a user can type as a value
  Parse,      \* [Fields -> [Texts -> value or Invalid]]
  Invalid,
  Unset,      \* a nil pointer, a key that is not in a map
  Expand,     \* [Texts -> Texts]: what ${VAR} stands for
  Fallback,   \* [subset of Fields -> Fields]
  Defaults,   \* [Fields -> value]: DefaultConfig
  Flags,      \* [Fields -> value]: the layer "cli args" of the daemon
  Reported,   \* the fields that the daemon reports as launch arguments whether they were or not
  NoConfig,   \* no cache, no daemon
  MaxMap,     \* bound: plugin maps that are referred to together
  MaxOps      \* bound: requests, commands and starts of the daemon in a behaviour

Keys == Fields \union PluginKeys

ASSUME ConfigStoreAssumption ==
  /\ Fields \intersect PluginKeys = {}
  /\ MaxMap \in Nat \ {0}
  /\ DOMAIN Fallback \subseteq Fields
  /\ \A f \in Fields \ DOMAIN Fallback : Defaults[f] # Unset
  /\ \A f \in DOMAIN Fallback : Fallback[f] \in Fields \ DOMAIN Fallback
  /\ Reported \subseteq Fields \ (DOMAIN Fallback \union Range(Fallback))

NoMap == 0
Maps  == 1..MaxMap

VARIABLES
  running, \* the daemon is up
  layers,  \* store.layers, from least to most specific
  cache,   \* store.overlayCache
  heap,    \* what every plugin map holds
  config,  \* *d.config
  atRun,   \* the Config that Run handed to the action executors
  launch,  \* the launch arguments the daemon reports
  begun,   \* requests, commands and starts so far
  op,      \* the request or command in progress of every client
  settled  \* history: since the last complete change, or the last start, that had
           \* the file for itself, no two overlapped and none failed

storeVars == <<running, layers, cache, heap, config, atRun, launch>>
vars == <<storeVars, begun, op, settled, fileVars>>

-----------------------------------------------------------------------------
(* Configurations, documents and the overlay. *)

NoFields  == [f \in Fields |-> Unset]
NoPlugins == [k \in PluginKeys |-> Unset]
ZeroConfig == [plain |-> NoFields, plugins |-> NoMap]
Empty == [plain |-> NoFields, plugins |-> NoPlugins]

DefaultLayer == [plain |-> Defaults, plugins |-> NoMap]
FlagLayer    == [plain |-> Flags, plugins |-> NoMap]

\* overlayStructFields: a field that is defined in the layer replaces the one below.
OverlayOne(to, from) ==
  [plain   |-> [f \in Fields |-> IF from.plain[f] # Unset THEN from.plain[f] ELSE to.plain[f]],
   plugins |-> IF from.plugins # NoMap THEN from.plugins ELSE to.plugins]

\* computeOverlay: the layers from the least specific to the most specific one.
Overlay == OverlayOne(OverlayOne(layers[1], layers[2]), layers[3])

FileLayer == layers[2]

\* What a Config holds, as yaml.Marshal writes it.
Contents(c) == [plain |-> c.plain, plugins |-> IF c.plugins = NoMap THEN NoPlugins ELSE heap[c.plugins]]

\* loadRaw: a missing file is the zero Config, and the variables in plugin values are expanded.
LoadRaw(doc) ==
  IF doc = NoFile THEN Empty
  ELSE [doc EXCEPT !.plugins = [k \in PluginKeys |-> IF @[k] = Unset THEN Unset ELSE Expand[@[k]]]]

\* The maps that nothing refers to, and the one that make returns.
FreeMaps ==
  Maps \ ({layers[2].plugins, config.plugins, atRun.plugins} \union {op[c].cfg.plugins : c \in Writers}
          \union IF cache = NoConfig THEN {} ELSE {cache.plugins})

NewMap == CHOOSE m \in FreeMaps : TRUE

\* The effective value of a field, with the fallback of GetByKey.
Value(plain, f) ==
  IF plain[f] = Unset /\ f \in DOMAIN Fallback THEN plain[Fallback[f]] ELSE plain[f]

-----------------------------------------------------------------------------

Idle == [pc |-> "idle", via |-> "none", kind |-> "none", key |-> Unset, text |-> Unset,
         cfg |-> ZeroConfig, doc |-> Empty, entries |-> {}, alone |-> FALSE, stale |-> FALSE]

Busy == {c \in Writers : op[c].pc # "idle"}

\* Mutant of LaunchArgs: the daemon reports all of its configuration.
LaunchArgsMutant(effective) == effective.plain

\* The launch arguments: the flags, and the socket address whatever set it.
LaunchArgs(effective) == [f \in Fields |-> IF f \in Reported THEN effective.plain[f] ELSE Flags[f]]

\* There is no config.yaml; the daemon is down, or it has started without one.
Init ==
  /\ running \in BOOLEAN
  /\ layers = <<DefaultLayer, ZeroConfig, FlagLayer>>
  /\ cache = IF running THEN Overlay ELSE NoConfig
  /\ heap = [m \in Maps |-> NoPlugins]
  /\ config = IF running THEN Overlay ELSE ZeroConfig
  /\ atRun = config
  /\ launch = IF running THEN LaunchArgs(config) ELSE NoFields
  /\ begun = 0
  /\ op = [c \in Writers |-> Idle]
  /\ settled = TRUE
  /\ FileInit

At(c, via, pc) == op[c].via = via /\ op[c].pc = pc

Goto(c, pc) == op' = [op EXCEPT ![c].pc = pc]

\* A step of a request that does not finish it, and one that does.
Step(c, o) == op' = [op EXCEPT ![c] = o]
Finish(c)  == op' = [op EXCEPT ![c] = Idle]

(* A command or a request starts. *)

Start(c, via, pc, kind, k, t) ==
  /\ op[c].pc = "idle"
  /\ begun < MaxOps
  /\ begun' = begun + 1
  /\ op' = [d \in Writers |->
              IF d = c
              THEN [Idle EXCEPT !.pc = pc, !.via = via, !.kind = kind, !.key = k, !.text = t, !.alone = (Busy = {})]
              ELSE [op[d] EXCEPT !.alone = FALSE]]
  /\ settled' = (settled /\ Busy = {})
  /\ UNCHANGED <<storeVars, fileVars>>

\* A change goes through the daemon if it can be reached now.
StartChange(c, kind, k, t) ==
  IF running THEN Start(c, "daemon", "change", kind, k, t) ELSE Start(c, "self", "scan", kind, k, t)

ConfigSet(c)    == \E k \in Keys, t \in Texts : StartChange(c, "set", k, t)
ConfigDelete(c) == \E k \in Keys : StartChange(c, "delete", k, Unset)

\* config get always opens the file itself.
ConfigGet(c) == Start(c, "self", "scan", "get", Unset, Unset)

\* The request GetConfig.
GetConfig(c) == running /\ Start(c, "daemon", "get", "read", Unset, Unset)

\* recurd starts, one at a time.
BootBegins(c) ==
  /\ ~running /\ \A d \in Writers : op[d].kind # "boot"
  /\ Start(c, "self", "scan", "boot", Unset, Unset)

-----------------------------------------------------------------------------
(* The store's part of SetConfig and DeleteConfig. *)

\* SetByKey: the value a text stands for.
NewValue(o) == IF o.key \in Fields THEN Parse[o.key][o.text] ELSE o.text

\* A request in between that holds a copy of the layer is out of date.
OthersStale(c, o) ==
  op' = [d \in Writers |->
           IF d = c THEN o ELSE [op[d] EXCEPT !.stale = op[d].pc \in {"mutate", "replace"}]]

\* Mutant of SetField: the cache stays.
SetFieldMutant(c) ==
  LET o == op[c] IN
  /\ At(c, "daemon", "change") /\ o.kind = "set" /\ o.key \in Fields
  /\ IF NewValue(o) = Invalid
     THEN Finish(c) /\ UNCHANGED layers
     ELSE /\ layers' = [layers EXCEPT ![2].plain[o.key] = NewValue(o)]
          /\ OthersStale(c, [o EXCEPT !.pc = "get"])
  /\ UNCHANGED <<running, cache, heap, config, atRun, launch, settled, fileVars>>

\* SetField, under the lock; a value that is not accepted changes nothing.
SetField(c) ==
  LET o == op[c] IN
  /\ At(c, "daemon", "change") /\ o.kind = "set" /\ o.key \in Fields
  /\ IF NewValue(o) = Invalid
     THEN Finish(c) /\ UNCHANGED <<layers, cache>>
     ELSE /\ layers' = [layers EXCEPT ![2].plain[o.key] = NewValue(o)]
          /\ cache' = NoConfig
          /\ OthersStale(c, [o EXCEPT !.pc = "get"])
  /\ UNCHANGED <<running, heap, config, atRun, launch, settled, fileVars>>

ClearLayerField(c) ==
  LET o == op[c] IN
  /\ At(c, "daemon", "change") /\ o.kind = "delete" /\ o.key \in Fields
  /\ layers' = [layers EXCEPT ![2].plain[o.key] = Unset]
  /\ cache' = NoConfig
  /\ OthersStale(c, [o EXCEPT !.pc = "get"])
  /\ UNCHANGED <<running, heap, config, atRun, launch, settled, fileVars>>

\* Mutant of CopyLayer: the copy is taken of the effective configuration.
CopyLayerMutant(c) ==
  /\ At(c, "daemon", "change") /\ op[c].key \in PluginKeys
  /\ Overlay.plugins # NoMap
  /\ Step(c, [op[c] EXCEPT !.pc = "mutate", !.cfg = Overlay])
  /\ UNCHANGED <<storeVars, settled, fileVars>>

\* setPluginByKey and deletePluginByKey: GetLayer copies the layer but not its map,
\* which is made if there is none to set a key in (bound: a map is left) ...
CopyLayer(c) ==
  LET o == op[c]
      new == FileLayer.plugins = NoMap
  IN /\ At(c, "daemon", "change") /\ o.key \in PluginKeys
     /\ new => FreeMaps # {}
     /\ IF new /\ o.kind = "delete"
        THEN Goto(c, "get") /\ UNCHANGED heap
        ELSE /\ Step(c, [o EXCEPT !.pc = "mutate",
                                  !.cfg = [FileLayer EXCEPT !.plugins = IF new THEN NewMap ELSE @]])
             /\ heap' = IF new THEN [heap EXCEPT ![NewMap] = NoPlugins] ELSE heap
     /\ UNCHANGED <<running, layers, cache, config, atRun, launch, settled, fileVars>>

\* ... the map is changed in place ...
SetPluginKey(c) ==
  LET o == op[c] IN
  /\ At(c, "daemon", "mutate") /\ o.kind = "set"
  /\ heap' = [heap EXCEPT ![o.cfg.plugins][o.key] = o.text]
  /\ Goto(c, "replace")
  /\ UNCHANGED <<running, layers, cache, config, atRun, launch, settled, fileVars>>

\* (a namespace without keys is not in it, and then nothing is put back) ...
DeletePluginKey(c) ==
  LET o == op[c] IN
  /\ At(c, "daemon", "mutate") /\ o.kind = "delete"
  /\ IF heap[o.cfg.plugins] = NoPlugins
     THEN Step(c, [o EXCEPT !.pc = "get", !.stale = FALSE]) /\ UNCHANGED heap
     ELSE Goto(c, "replace") /\ heap' = [heap EXCEPT ![o.cfg.plugins][o.key] = Unset]
  /\ UNCHANGED <<running, layers, cache, config, atRun, launch, settled, fileVars>>

\* ... and Set puts the copy back.
Replace(c) ==
  /\ At(c, "daemon", "replace")
  /\ layers' = [layers EXCEPT ![2] = op[c].cfg]
  /\ cache' = NoConfig
  /\ OthersStale(c, [op[c] EXCEPT !.pc = "get", !.cfg = ZeroConfig, !.stale = FALSE])
  /\ UNCHANGED <<running, heap, config, atRun, launch, settled, fileVars>>

\* Get: the cache, computed first if it has been dropped.
Get(c) ==
  /\ At(c, "daemon", "get")
  /\ cache' = IF cache = NoConfig THEN Overlay ELSE cache
  /\ Step(c, [op[c] EXCEPT !.pc = IF op[c].kind = "read" THEN "iterate" ELSE "publish", !.cfg = cache'])
  /\ UNCHANGED <<running, layers, heap, config, atRun, launch, settled, fileVars>>

\* GetConfig: AllKeys reads the shared map.
AllKeys(c) ==
  /\ At(c, "daemon", "iterate")
  /\ Finish(c)
  /\ UNCHANGED <<storeVars, settled, fileVars>>

\* Mutant of Publish: d.config stays the configuration of the start.
PublishMutant(c) ==
  /\ At(c, "daemon", "publish")
  /\ Goto(c, "layer")
  /\ UNCHANGED <<storeVars, settled, fileVars>>

\* s.daemon.config = &effective
Publish(c) ==
  /\ At(c, "daemon", "publish")
  /\ config' = op[c].cfg
  /\ Goto(c, "layer")
  /\ UNCHANGED <<running, layers, cache, heap, atRun, launch, settled, fileVars>>

GetLayer(c) ==
  /\ At(c, "daemon", "layer")
  /\ Step(c, [op[c] EXCEPT !.pc = "marshal", !.cfg = FileLayer])
  /\ UNCHANGED <<storeVars, settled, fileVars>>

\* Save: yaml.Marshal reads the shared map.
Marshal(c) ==
  /\ At(c, "daemon", "marshal")
  /\ SaveBegin(c, Contents(op[c].cfg))
  /\ Step(c, [op[c] EXCEPT !.pc = "saving", !.cfg = ZeroConfig])
  /\ UNCHANGED <<storeVars, settled>>

-----------------------------------------------------------------------------
(* A process that opens the file itself: InitStore, the change, Save. *)

\* Recover looks for temporary files, whoever is writing them ...
RecoverScan(c) ==
  /\ At(c, "self", "scan")
  /\ Step(c, [op[c] EXCEPT !.pc = IF DOMAIN tmp = {} THEN "load" ELSE "promote", !.entries = DOMAIN tmp])
  /\ UNCHANGED <<storeVars, settled, fileVars>>

\* ... gives the newest the name of the file, unless it is gone ...
RecoverPromote(c) ==
  LET s == Max(op[c].entries) IN
  /\ At(c, "self", "promote")
  /\ Step(c, [op[c] EXCEPT !.pc = IF s \in DOMAIN tmp THEN "clean" ELSE "load",
                           !.entries = IF s \in DOMAIN tmp THEN @ ELSE {}])
  /\ canonical' = IF s \in DOMAIN tmp THEN tmp[s] ELSE canonical
  /\ tmp' = Restrict(tmp, DOMAIN tmp \ {s})
  /\ data' = IF s \in DOMAIN tmp THEN Freed({canonical}) ELSE data
  /\ UNCHANGED <<storeVars, settled, save, doubtful>>

\* ... and removes the others.
RecoverClean(c) ==
  LET others == op[c].entries \intersect DOMAIN tmp IN
  /\ At(c, "self", "clean")
  /\ tmp' = Restrict(tmp, DOMAIN tmp \ others)
  /\ data' = Freed({tmp[s] : s \in others})
  /\ Step(c, [op[c] EXCEPT !.pc = "load", !.entries = {}])
  /\ UNCHANGED <<storeVars, settled, canonical, save, doubtful>>

\* NewStore for a command; a file that does not parse ends it, and so does config get.
LoadFile(c) ==
  LET o == op[c] IN
  /\ At(c, "self", "load") /\ o.kind # "boot"
  /\ IF Load = Torn \/ o.kind = "get"
     THEN Finish(c)
     ELSE Step(c, [o EXCEPT !.pc = "own", !.doc = LoadRaw(Load)])
  /\ UNCHANGED <<storeVars, settled, fileVars>>

\* SetByKey or DeleteByKey on the command's own store, and GetLayer.
ChangeOwn(c) ==
  LET o == op[c]
      v == IF o.kind = "delete" THEN Unset ELSE NewValue(o)
      doc == IF o.key \in Fields THEN [o.doc EXCEPT !.plain[o.key] = v]
             ELSE [o.doc EXCEPT !.plugins[o.key] = v]
  IN /\ At(c, "self", "own")
     /\ IF v = Invalid
        THEN Finish(c) /\ UNCHANGED fileVars
        ELSE SaveBegin(c, doc) /\ Step(c, [o EXCEPT !.pc = "saving", !.doc = Empty])
     /\ UNCHANGED <<storeVars, settled>>

\* atomicfile.Write, and the answer once the file has its name.
SaveMoves(c) ==
  /\ op[c].pc = "saving" /\ SaveStep(c)
  /\ UNCHANGED <<storeVars, op, settled>>

SaveEnds(c) ==
  /\ op[c].pc = "saving" /\ RenameTemp(c)
  /\ Finish(c)
  /\ settled' = (settled \/ (op[c].alone /\ DOMAIN tmp = {save[c].stamp}))
  /\ UNCHANGED storeVars

SaveBreaks(c) ==
  /\ op[c].pc = "saving" /\ SaveFails(c)
  /\ Finish(c)
  /\ settled' = FALSE
  /\ UNCHANGED storeVars

-----------------------------------------------------------------------------
(* The daemon's start and end. *)

\* main: the layers are set, and New and Run take the effective configuration.
Boot(c) ==
  LET doc == LoadRaw(Load)
      m == IF doc.plugins = NoPlugins THEN NoMap ELSE 1
      effective == OverlayOne(OverlayOne(DefaultLayer, [plain |-> doc.plain, plugins |-> m]), FlagLayer)
  IN /\ At(c, "self", "load") /\ op[c].kind = "boot"
     /\ Finish(c)
     /\ IF Load = Torn
        THEN UNCHANGED <<storeVars, settled>>
        ELSE /\ running' = TRUE
             /\ heap' = [heap EXCEPT ![1] = doc.plugins]
             /\ layers' = <<DefaultLayer, [plain |-> doc.plain, plugins |-> m], FlagLayer>>
             /\ cache' = effective
             /\ config' = effective
             /\ atRun' = effective
             /\ launch' = LaunchArgs(effective)
             /\ settled' = (op[c].alone /\ DOMAIN tmp = {})
     /\ UNCHANGED fileVars

\* The daemon's memory is gone, and so are its requests.
Gone ==
  /\ running' = FALSE
  /\ layers' = <<DefaultLayer, ZeroConfig, FlagLayer>>
  /\ cache' = NoConfig
  /\ heap' = [m \in Maps |-> NoPlugins]
  /\ config' = ZeroConfig
  /\ atRun' = ZeroConfig
  /\ launch' = NoFields
  /\ op' = [c \in Writers |-> IF op[c].via = "daemon" THEN Idle ELSE op[c]]
  /\ save' = [c \in Writers |-> IF op[c].via = "daemon" THEN NotSaving ELSE save[c]]
  /\ settled' = (settled /\ Busy = {})
  /\ UNCHANGED <<canonical, tmp, data, doubtful>>

DaemonEnds == running /\ Gone

\* The runtime stops a program that reads or writes a map while it is written, and a
\* write to a namespace that another request has just removed panics.
MapFault ==
  /\ \E c, d \in Writers :
       /\ c # d /\ At(c, "daemon", "mutate")
       /\ op[d].pc \in {"mutate", "marshal", "iterate"} /\ op[d].cfg.plugins = op[c].cfg.plugins
  /\ Gone

\* A command is interrupted while it has temporary files; before, it leaves nothing behind.
CommandEnds(c) ==
  /\ op[c].via = "self" /\ op[c].pc \in {"clean", "saving"}
  /\ Finish(c)
  /\ save' = [save EXCEPT ![c] = NotSaving]
  /\ settled' = FALSE
  /\ UNCHANGED <<storeVars, canonical, tmp, data, doubtful>>

Begin(c) == ConfigSet(c) \/ ConfigDelete(c) \/ ConfigGet(c) \/ GetConfig(c) \/ BootBegins(c)

Continue(c) ==
  \/ SetField(c) \/ ClearLayerField(c)
  \/ CopyLayer(c) \/ SetPluginKey(c) \/ DeletePluginKey(c) \/ Replace(c)
  \/ Get(c) \/ AllKeys(c) \/ Publish(c) \/ GetLayer(c) \/ Marshal(c)
  \/ RecoverScan(c) \/ RecoverPromote(c) \/ RecoverClean(c) \/ LoadFile(c) \/ ChangeOwn(c)
  \/ SaveMoves(c) \/ SaveEnds(c) \/ SaveBreaks(c)
  \/ Boot(c) \/ CommandEnds(c)

Next ==
  \/ \E c \in Writers : Begin(c)
  \/ UNCHANGED begun /\ (\E c \in Writers : Continue(c))
  \/ UNCHANGED begun /\ (DaemonEnds \/ MapFault)

Spec == Init /\ [][Next]_vars

-----------------------------------------------------------------------------
(* What config get shows. *)

FirstDefined(layersDown, f) ==
  LET at == {i \in DOMAIN layersDown : layersDown[i][f] # Unset}
  IN IF at = {} THEN Unset ELSE layersDown[Min(at)][f]

\* The command's own store: populateCLIArgsFromDaemon, the file after Recover, the defaults.
ShownPlain ==
  [f \in Fields |-> FirstDefined(<<launch, LoadRaw(RestartReads).plain, Defaults>>, f)]

Shown(f) == Value(ShownPlain, f)

-----------------------------------------------------------------------------
(* Properties. *)

PlainValues ==
  ((UNION {{Parse[f][t] : t \in Texts} \union {Defaults[f], Flags[f]} : f \in Fields})
     \ {Invalid}) \union {Unset}

PlainType == [Fields -> PlainValues]
PluginType == [PluginKeys -> Texts \union {Unset}]
ConfigType == [plain : PlainType, plugins : Maps \union {NoMap}]
Documents  == [plain : PlainType, plugins : PluginType]

ASSUME DocumentsAssumption ==
  /\ Torn \notin Documents /\ NoFile \notin Documents
  /\ \A t \in Texts : Expand[t] \in Texts
  /\ Defaults \in PlainType /\ Flags \in PlainType

OpType ==
  [pc : {"idle", "change", "mutate", "replace", "get", "iterate", "publish", "layer", "marshal",
         "saving", "scan", "promote", "clean", "load", "own"},
   via : {"none", "daemon", "self"}, kind : {"none", "set", "delete", "get", "read", "boot"},
   key : Keys \union {Unset}, text : Texts \union {Unset}, cfg : ConfigType, doc : Documents,
   entries : SUBSET (1..MaxStamp), alone : BOOLEAN, stale : BOOLEAN]

SaveType ==
  [pc : {"none", "open", "write", "rename"}, snapshot : Documents \union {NoFile},
   stamp : 0..MaxStamp, inode : Inodes \union {NoInode}, alone : BOOLEAN]

\* The variables have their types; a key that is being set has a text.
TypeOK ==
  /\ running \in BOOLEAN /\ settled \in BOOLEAN
  /\ DOMAIN layers = 1..3 /\ \A i \in 1..3 : layers[i] \in ConfigType
  /\ cache = NoConfig \/ cache \in ConfigType
  /\ heap \in [Maps -> PluginType]
  /\ config \in ConfigType /\ atRun \in ConfigType
  /\ launch \in PlainType
  /\ op \in [Writers -> OpType]
  /\ \A c \in Writers : op[c].kind = "set" => op[c].key \in Keys /\ op[c].text \in Texts
  /\ canonical \in Inodes \union {NoInode}
  /\ DOMAIN tmp \subseteq 1..MaxStamp /\ Range(tmp) \subseteq Inodes
  /\ data \in [Inodes -> Documents \union {NoFile, Torn}]
  /\ save \in [Writers -> SaveType]

\* store.go:86-88, "The result is cached until the next mutation": whatever the requests
\* interleave, a cache that is there is the overlay of the layers as they are now.
CacheIsOverlay == cache # NoConfig => cache = Overlay

\* cli-commands.md:309, "Persisted immediately to config.yaml and takes effect
\* immediately": once the changes that had the store for themselves have been answered,
\* d.config is the overlay of the layers, and a daemon started now, after a crash too,
\* loads the same file layer.
SettledAgrees ==
  running /\ settled /\ Busy = {} =>
    /\ config = Overlay
    /\ RestartReads # Torn
    /\ LoadRaw(RestartReads) = LoadRaw(Contents(FileLayer))

\* cli/config.go:79, "so its Store stays in sync": config get, which looks at the file and
\* at the launch arguments, shows what the daemon uses for every field, thresholds that
\* fall back included; for the socket address, the one it was started with.
CommandShowsEffective ==
  running /\ settled /\ Busy = {} =>
    \A f \in Fields : Shown(f) = Value(IF f \in Reported THEN atRun.plain ELSE config.plain, f)

\* A field of the file layer changes only for a request for that field, unless a request
\* for a plugin key puts back a copy it took before another request changed the layer.
FieldsFollowRequests ==
  [][running /\ running' =>
       \A f \in Fields :
         layers'[2].plain[f] # layers[2].plain[f] =>
           \E c \in Writers : \/ op[c].pc = "change" /\ op[c].key = f
                              \/ op[c].pc = "replace" /\ op[c].stale]_vars

-----------------------------------------------------------------------------
(* What the documents say and the code does not do (README, section 6); no *)
(* configuration lists it.                                                 *)

\* daemon-internals.md:89, "All configuration changes take effect immediately - no daemon
\* restart required": the executors run with the configuration the daemon has.
TakesEffect ==
  running /\ settled /\ Busy = {} => atRun.plain = config.plain
=============================================================================
