------------------------------ MODULE StateFile -------------------------------
(***************************************************************************)
(* state.json and its temporary files: atomicfile.Write and                *)
(* atomicfile.Recover (src/infra/fs/atomicfile/atomicfile.go), as used by  *)
(* Save, Recover and Load of src/infra/jsonfile/state/state.go.            *)
(*                                                                         *)
(* Nothing serialises the writers.  A file is a name for an inode: two     *)
(* writers that take their time stamp in the same millisecond open the     *)
(* same temporary file, and a writer keeps its inode when the name is      *)
(* renamed under it.  A file that is opened for writing is torn until its  *)
(* last byte is written.  The clock does not go back.                      *)
(***************************************************************************)
EXTENDS Naturals, FiniteSets, FiniteSetsExt, Functions

CONSTANTS
  Writers,  \* goroutines that save
  Torn,     \* what an incomplete file holds; it does not parse
  NoFile,   \* what Load returns if there is no file
  MaxStamp, \* bound: time stamps of temporary files that exist together
  MaxInode  \* bound: files that exist together

ASSUME StateFileAssumption ==
  /\ IsFiniteSet(Writers)
  /\ MaxStamp \in Nat
  /\ MaxInode > Cardinality(Writers)
  /\ Torn # NoFile

NoInode == 0
Inodes  == 1..MaxInode

VARIABLES
  canonical, \* the inode named state.json
  tmp,       \* time stamp -> inode, for the temporary files that exist
  data,      \* what every inode holds
  save,      \* the Save in progress of every writer
  doubtful   \* history: a restart may read something else than the last save

fileVars == <<canonical, tmp, data, save, doubtful>>

-----------------------------------------------------------------------------

NotSaving == [pc |-> "none", snapshot |-> NoFile, stamp |-> 0, inode |-> NoInode, alone |-> FALSE]

Saving == {w \in Writers : save[w].pc # "none"}

\* Inodes that neither a name nor an open file refers to.
Unused ==
  Inodes \ ({canonical} \union Range(tmp) \union {save[w].inode : w \in Writers})

\* The newest temporary file, by its name.
Newest == Max(DOMAIN tmp)

\* Files that lose their last name are freed.
Freed(is) == [i \in Inodes |-> IF i \in is THEN Torn ELSE data[i]]

FileInit ==
  /\ canonical = NoInode
  /\ tmp = <<>>
  /\ data = [i \in Inodes |-> Torn]
  /\ save = [w \in Writers |-> NotSaving]
  /\ doubtful = FALSE

\* Load: what state.json holds.
Load == IF canonical = NoInode THEN NoFile ELSE data[canonical]

-----------------------------------------------------------------------------
(* Save: the snapshot is taken first, under the registry's lock only. *)

SaveBegin(w, snapshot) ==
  LET alone == Saving = {} IN
  /\ save[w].pc = "none"
  /\ save' = [v \in Writers |->
                IF v = w THEN [NotSaving EXCEPT !.pc = "open", !.snapshot = snapshot, !.alone = alone]
                ELSE [save[v] EXCEPT !.alone = FALSE]]
  /\ doubtful' = (doubtful \/ ~alone)
  /\ UNCHANGED <<canonical, tmp, data>>

\* The time stamp, and os.WriteFile's open: it truncates a file of that name.  Bounds: MaxStamp,
\* and an inode left for a new file.
OpenTemp(w) ==
  LET last == IF DOMAIN tmp = {} THEN 0 ELSE Newest IN
  /\ save[w].pc = "open"
  /\ \E stamp \in {last, last + 1} \ {0} :
       LET inode == IF stamp \in DOMAIN tmp THEN tmp[stamp] ELSE CHOOSE i \in Unused : TRUE IN
       /\ stamp <= MaxStamp
       /\ stamp \in DOMAIN tmp \/ Unused # {}
       /\ tmp' = [s \in DOMAIN tmp \union {stamp} |-> IF s = stamp THEN inode ELSE tmp[s]]
       /\ data' = [data EXCEPT ![inode] = Torn]
       /\ save' = [save EXCEPT ![w].pc = "write", ![w].stamp = stamp, ![w].inode = inode]
  /\ UNCHANGED <<canonical, doubtful>>

WriteTemp(w) ==
  /\ save[w].pc = "write"
  /\ data' = [data EXCEPT ![save[w].inode] = save[w].snapshot]
  /\ save' = [save EXCEPT ![w].pc = "rename", ![w].inode = NoInode]
  /\ UNCHANGED <<canonical, tmp, doubtful>>

\* os.Rename fails if another writer of the same millisecond has taken the file away.
RenameTemp(w) ==
  LET s == save[w].stamp IN
  /\ save[w].pc = "rename"
  /\ canonical' = IF s \in DOMAIN tmp THEN tmp[s] ELSE canonical
  /\ tmp' = Restrict(tmp, DOMAIN tmp \ {s})
  /\ data' = IF s \in DOMAIN tmp THEN Freed({canonical}) ELSE data
  /\ save' = [save EXCEPT ![w] = NotSaving]
  /\ doubtful' = (doubtful /\ ~(save[w].alone /\ DOMAIN tmp = {s}))

\* os.WriteFile fails: the temporary file stays.  os.Rename fails: it is removed.
SaveFails(w) ==
  /\ save[w].pc \in {"write", "rename"}
  /\ tmp' = IF save[w].pc = "write" THEN tmp ELSE Restrict(tmp, DOMAIN tmp \ {save[w].stamp})
  /\ save' = [save EXCEPT ![w] = NotSaving]
  /\ doubtful' = TRUE
  /\ UNCHANGED <<canonical, data>>

SaveStep(w) == OpenTemp(w) \/ WriteTemp(w)

-----------------------------------------------------------------------------
(* Crash and Recover. *)

\* What has been written so far stays, open files are gone.
FileCrash ==
  /\ save' = [w \in Writers |-> NotSaving]
  /\ doubtful' = (doubtful \/ \E s \in DOMAIN tmp : data[tmp[s]] = Torn)
  /\ UNCHANGED <<canonical, tmp, data>>

\* Recover promotes the newest temporary file, whatever it holds ...
Promote ==
  /\ canonical' = IF DOMAIN tmp = {} THEN canonical ELSE tmp[Newest]
  /\ tmp' = IF DOMAIN tmp = {} THEN tmp ELSE Restrict(tmp, DOMAIN tmp \ {Newest})
  /\ data' = IF DOMAIN tmp = {} THEN data ELSE Freed({canonical})
  /\ UNCHANGED <<save, doubtful>>

\* ... and removes the others.
CleanUp ==
  /\ tmp' = <<>>
  /\ data' = Freed(Range(tmp))
  /\ UNCHANGED <<canonical, save, doubtful>>

\* What a restart would read.
RestartReads == IF DOMAIN tmp = {} THEN Load ELSE data[tmp[Newest]]
=============================================================================
