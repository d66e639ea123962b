----------------------------- MODULE EntityIndex -----------------------------
(***************************************************************************)
(* The daemon's index of entities (src/src/app/recurd/daemon/              *)
(* entity_index.go): a list of references, a map from IDs and one from     *)
(* names to positions in the list, and the set of positions whose entry    *)
(* was removed.  When that set is large enough the list is compacted and   *)
(* both maps are built anew.                                               *)
(*                                                                         *)
(* Names are compared without regard to case: a name here stands for its   *)
(* lower-case form.  The code keeps the positions of a name in ascending   *)
(* order, so a set says as much.                                           *)
(***************************************************************************)
EXTENDS Integers, Sequences, FiniteSets

CONSTANTS
  Names,           \* display names: labels, types and paths
  IDPrefixes,        \* what a user may type of an ID, three characters or more
  HasPrefix(_, _), \* HasPrefix(id, prefix)
  FlushAt          \* flushAt, the number of removals that causes a compaction

ASSUME IndexAssumption == FlushAt \in Nat \ {0}

VARIABLES
  entries,   \* the references, [type, id, name]; positions start at 1
  byID,      \* byID: ID to position
  byName,    \* byName: name to positions
  deleted    \* the positions of removed entries

index == <<entries, byID, byName, deleted>>

NewEntityIndex ==
  /\ entries = << >>
  /\ byID = << >>
  /\ byName = [n \in Names |-> {}]
  /\ deleted = {}

-----------------------------------------------------------------------------

\* The last position in a non-empty set.
LastOf(S) == CHOOSE k \in S : \A j \in S : j <= k

\* Mutant of Add: the entry of an ID that was known before is kept.
AddUnlessKnown(ref) ==
  /\ entries' = Append(entries, ref)
  /\ byID' = [id \in DOMAIN byID \union {ref.id} |->
                IF id \in DOMAIN byID THEN byID[id] ELSE Len(entries) + 1]
  /\ byName' = [byName EXCEPT ![ref.name] = @ \union {Len(entries) + 1}]
  /\ UNCHANGED deleted

Add(ref) ==
  /\ entries' = Append(entries, ref)
  /\ byID' = [id \in DOMAIN byID \union {ref.id} |->
                IF id = ref.id THEN Len(entries) + 1 ELSE byID[id]]
  /\ byName' = [byName EXCEPT ![ref.name] = @ \union {Len(entries) + 1}]
  /\ UNCHANGED deleted

\* The entries that stay, in their order: the k-th is the one that has k
\* entries that stay up to and including itself.
Compacted(removed) ==
  LET kept == DOMAIN entries \ removed
  IN  [k \in 1..Cardinality(kept) |->
         entries[CHOOSE i \in kept : Cardinality({j \in kept : j <= i}) = k]]

\* Mutant of Flush: the ID map keeps the positions before the compaction.
FlushKeepsByID(removed) ==
  LET new == Compacted(removed)
  IN  /\ entries' = new
      /\ byName' = [n \in Names |-> {k \in DOMAIN new : new[k].name = n}]
      /\ deleted' = {}
      /\ UNCHANGED byID

Flush(removed) ==
  LET new == Compacted(removed)
  IN  /\ entries' = new
      /\ byID' = [id \in {new[k].id : k \in DOMAIN new} |->
                    LastOf({k \in DOMAIN new : new[k].id = id})]
      /\ byName' = [n \in Names |-> {k \in DOMAIN new : new[k].name = n}]
      /\ deleted' = {}

RemoveID(id) ==
  IF id \notin DOMAIN byID THEN UNCHANGED index
  ELSE LET removed == deleted \union {byID[id]}
       IN  IF Cardinality(removed) >= FlushAt
           THEN Flush(removed)
           ELSE deleted' = removed /\ UNCHANGED <<entries, byID, byName>>

-----------------------------------------------------------------------------
(* Lookup: the positions that match an identifier, which is an ID, a name  *)
(* or a prefix of IDs.  The first kind of match that finds something wins. *)

MatchID(identifier) ==
  IF identifier \in DOMAIN byID THEN {byID[identifier]} \ deleted ELSE {}

MatchName(identifier) ==
  IF identifier \in Names THEN byName[identifier] \ deleted ELSE {}

MatchPrefix(identifier) ==
  IF identifier \in IDPrefixes
  THEN {byID[id] : id \in {i \in DOMAIN byID : HasPrefix(i, identifier)}} \ deleted
  ELSE {}

Lookup(identifier) ==
  IF MatchID(identifier) # {} THEN MatchID(identifier)
  ELSE IF MatchName(identifier) # {} THEN MatchName(identifier)
  ELSE MatchPrefix(identifier)

\* resolveEntity: the matches of the allowed types.
ResolveEntity(identifier, types) ==
  {i \in Lookup(identifier) : entries[i].type \in types}

\* findEntityByType: the first match of the type, if there is one.  Matches of
\* a prefix come in the order of a Go map, so any may be the first.
FindEntityByType(identifier, type) ==
  LET found == ResolveEntity(identifier, {type})
  IN  IF MatchID(identifier) = {} /\ MatchName(identifier) # {}
      THEN {entries[i].id : i \in {k \in found : \A j \in found : k <= j}}
      ELSE {entries[i].id : i \in found}

-----------------------------------------------------------------------------

\* What Lookup relies on: both maps refer to positions that exist, to entries of
\* that ID and of that name, and every entry is found by its name.  An index
\* out of range would end the daemon (entity_index.go:59, :68, :81).
IndexSound ==
  /\ \A id \in DOMAIN byID :
       byID[id] \in DOMAIN entries /\ entries[byID[id]].id = id
  /\ \A n \in Names : byName[n] = {i \in DOMAIN entries : entries[i].name = n}
  /\ deleted \subseteq DOMAIN entries
=============================================================================
