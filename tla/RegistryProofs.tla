--------------------------- MODULE RegistryProofs ---------------------------
(***************************************************************************)
(* For every set of recurfiles, every threshold of the index and any       *)
(* number of concurrent requests: the index never refers to an entry that  *)
(* does not exist or is another's and finds what is registered, the maps   *)
(* hold the entities of the registered files and no others, and the two    *)
(* ways to get at them agree.                                              *)
(***************************************************************************)
EXTENDS Registry, FiniteSetTheorems, FunctionTheorems, SequenceTheorems,
        WellFoundedInduction, TLAPS

-----------------------------------------------------------------------------
(* Lists, and the lists that are put together of lists. *)

\* A list is a function on 1..n.
LEMMA ListDomain ==
  ASSUME NEW s, IsList(s)
  PROVE  Len(s) \in Nat /\ DOMAIN s = 1..Len(s) /\ s = [i \in 1..Len(s) |-> s[i]]
  BY DEF IsList

LEMMA FunctionIsList ==
  ASSUME NEW n \in Nat, NEW s, s = [i \in 1..n |-> s[i]]
  PROVE  IsList(s) /\ DOMAIN s = 1..n /\ Len(s) = n
<1>1. s \in [1..n -> ToSet(s)]
  BY DEF ToSet
<1> QED
  BY <1>1 DEF IsList

\* No element is there twice.
Unique(s) == \A i, j \in DOMAIN s : s[i] = s[j] => i = j

\* A non-empty set of natural numbers has a least one.
LEMMA LeastNatural ==
  ASSUME NEW T \in SUBSET Nat, T # {}
  PROVE  \E n \in T : \A m \in T : n <= m
<1> DEFINE R == {ss \in Nat \X Nat : ss[1] < ss[2]}
<1>1. IsWellFoundedOn(R, Nat)
  BY NatLessThanWellFounded DEF OpToRel
<1>2. PICK n \in T : \A m \in T : <<m, n>> \notin R
  BY <1>1, WFMin
<1>3. ASSUME NEW m \in T PROVE n <= m
  <2>1. ~(m < n)
    BY <1>2
  <2> QED
    BY <2>1
<1> QED
  BY <1>3

LEMMA ConcatList ==
  ASSUME NEW s, NEW t, IsList(s), IsList(t)
  PROVE  /\ IsList(s \o t) /\ ToSet(s \o t) = ToSet(s) \union ToSet(t)
         /\ Unique(s) /\ Unique(t) /\ ToSet(s) \intersect ToSet(t) = {} => Unique(s \o t)
<1>0. PICK D : D = ToSet(s) \union ToSet(t)
  OBVIOUS
<1>1. s \in Seq(D) /\ t \in Seq(D)
  BY <1>0, SeqMonotonic DEF IsList
<1>2. PICK m \in Nat, n \in Nat : m = Len(s) /\ n = Len(t)
  BY <1>1
<1>3. /\ DOMAIN s = 1..m /\ DOMAIN t = 1..n
      /\ s \o t \in Seq(D) /\ Len(s \o t) = m + n /\ DOMAIN (s \o t) = 1..(m + n)
  BY <1>1, <1>2
<1>4. /\ \A i \in 1..m : (s \o t)[i] = s[i]
      /\ \A i \in 1..n : (s \o t)[m + i] = t[i]
      /\ \A i \in 1..(m + n) : i \notin 1..m => i - m \in 1..n /\ (s \o t)[i] = t[i - m]
  BY <1>1, <1>2, <1>3
<1> DEFINE u == s \o t
<1> HIDE DEF u
<1>5. ToSet(u) = ToSet(s) \union ToSet(t)
  <2>1. ASSUME NEW i \in 1..(m + n) PROVE u[i] \in ToSet(s) \union ToSet(t)
    <3>1. CASE i \in 1..m
      BY <1>3, <1>4, <3>1 DEF ToSet, u
    <3>2. CASE i \notin 1..m
      BY <1>3, <1>4, <3>2 DEF ToSet, u
    <3> QED
      BY <3>1, <3>2
  <2>2. ASSUME NEW i \in 1..m PROVE s[i] \in ToSet(u)
    BY <1>3, <1>4 DEF ToSet, u
  <2>3. ASSUME NEW i \in 1..n PROVE t[i] \in ToSet(u)
    <3>1. m + i \in 1..(m + n)
      OBVIOUS
    <3> QED
      BY <1>3, <1>4, <3>1 DEF ToSet, u
  <2> QED
    BY <1>3, <2>1, <2>2, <2>3 DEF ToSet, u
<1>6. IsList(u)
  BY <1>0, <1>3, <1>5 DEF IsList, u
<1>7. ASSUME Unique(s), Unique(t), ToSet(s) \intersect ToSet(t) = {} PROVE Unique(u)
  <2> SUFFICES ASSUME NEW i \in 1..(m + n), NEW j \in 1..(m + n), u[i] = u[j] PROVE i = j
    BY <1>3 DEF Unique, u
  <2>1. \A k \in 1..(m + n) : IF k \in 1..m THEN u[k] = s[k] /\ u[k] \in ToSet(s)
                              ELSE u[k] = t[k - m] /\ k - m \in 1..n /\ u[k] \in ToSet(t)
    BY <1>3, <1>4 DEF ToSet, u
  <2>2. CASE i \in 1..m /\ j \in 1..m
    BY <1>3, <1>7, <2>1, <2>2 DEF Unique
  <2>3. CASE i \notin 1..m /\ j \notin 1..m
    <3>1. i - m = j - m
      BY <1>3, <1>7, <2>1, <2>3 DEF Unique
    <3> QED
      BY <3>1
  <2>4. ~(i \in 1..m /\ j \notin 1..m) /\ ~(i \notin 1..m /\ j \in 1..m)
    BY <1>7, <2>1
  <2> QED
    BY <2>2, <2>3, <2>4
<1> QED
  BY <1>5, <1>6, <1>7 DEF u

\* The recursive function of FlattenSeq, for the first n lists.
FlatUpTo(f, s, n) == f = [i \in 1..n |-> IF i = 1 THEN s[i] ELSE f[i-1] \o s[i]]

\* It exists for every n: a least n for which it does not has a predecessor.
LEMMA FlatExists ==
  ASSUME NEW s, NEW n \in Nat
  PROVE  \E f : FlatUpTo(f, s, n)
<1> DEFINE T == {m \in Nat : ~\E f : FlatUpTo(f, s, m)}
<1> SUFFICES ASSUME T # {} PROVE FALSE
  OBVIOUS
<1>1. PICK m \in T : \A k \in T : m <= k
  BY LeastNatural
<1>2. FlatUpTo([i \in 1..0 |-> <<>>], s, 0)
  BY DEF FlatUpTo
<1>3. m # 0
  BY <1>2
<1>4. m - 1 \in Nat /\ m - 1 \notin T
  BY <1>1, <1>3
<1>5. PICK f : FlatUpTo(f, s, m - 1)
  BY <1>4
<1> DEFINE g == [i \in 1..m |-> IF i = m THEN IF m = 1 THEN s[m] ELSE f[m-1] \o s[m] ELSE f[i]]
<1>6. ASSUME NEW i \in 1..m
      PROVE  g[i] = IF i = 1 THEN s[i] ELSE g[i-1] \o s[i]
  <2>1. CASE i = m
    BY <1>3, <1>4, <2>1
  <2>2. CASE i # m
    <3>1. i \in 1..(m-1) /\ g[i] = f[i] /\ (i # 1 => i-1 \in 1..(m-1) /\ g[i-1] = f[i-1])
      BY <2>2
    <3>2. f[i] = IF i = 1 THEN s[i] ELSE f[i-1] \o s[i]
      BY <1>5, <3>1 DEF FlatUpTo
    <3> QED
      BY <3>1, <3>2
  <2> QED
    BY <2>1, <2>2
<1>7. FlatUpTo(g, s, m)
  <2>1. g = [i \in 1..m |-> g[i]]
    OBVIOUS
  <2> HIDE DEF g
  <2> QED
    BY <1>6, <2>1 DEF FlatUpTo
<1> QED
  BY <1>1, <1>7

LEMMA FlattenList ==
  ASSUME NEW n \in Nat, NEW s, s = [i \in 1..n |-> s[i]], \A i \in 1..n : IsList(s[i])
  PROVE  /\ IsList(FlattenSeq(s))
         /\ ToSet(FlattenSeq(s)) = UNION {ToSet(s[i]) : i \in 1..n}
         /\ (/\ \A i \in 1..n : Unique(s[i])
             /\ \A i, j \in 1..n : i # j => ToSet(s[i]) \intersect ToSet(s[j]) = {})
              => Unique(FlattenSeq(s))
<1> DEFINE Apart == /\ \A i \in 1..n : Unique(s[i])
                    /\ \A i, j \in 1..n : i # j => ToSet(s[i]) \intersect ToSet(s[j]) = {}
           f == CHOOSE f : FlatUpTo(f, s, n)
           T == {m \in 1..n : ~ /\ IsList(f[m])
                                /\ ToSet(f[m]) = UNION {ToSet(s[i]) : i \in 1..m}
                                /\ Apart => Unique(f[m])}
<1>0. Len(s) = n
  OBVIOUS
<1>1. CASE n = 0
  <2>1. s = <<>> /\ FlattenSeq(s) = s
    BY <1>0, <1>1 DEF FlattenSeq
  <2>2. ToSet(<<>>) = {} /\ <<>> \in Seq({}) /\ Unique(<<>>) /\ 1..n = {}
    BY <1>1 DEF ToSet, Unique
  <2>3. UNION {ToSet(s[i]) : i \in 1..n} = {}
    BY <2>2
  <2> QED
    BY <2>1, <2>2, <2>3 DEF IsList
<1>2. CASE n # 0
  <2>1. FlatUpTo(f, s, n)
    BY FlatExists
  <2>2. FlattenSeq(s) = f[n]
    BY <1>0, <1>2 DEF FlattenSeq, FlatUpTo
  <2> HIDE DEF f
  <2>3. \A i \in 1..n : f[i] = IF i = 1 THEN s[i] ELSE f[i-1] \o s[i]
    BY <2>1 DEF FlatUpTo
  <2>4. T = {}
    <3> SUFFICES ASSUME T # {} PROVE FALSE
      OBVIOUS
    <3>0. T \in SUBSET Nat
      OBVIOUS
    <3>1. PICK m \in T : \A k \in T : m <= k
      BY <3>0, LeastNatural
    <3>2. m \in 1..n
      OBVIOUS
    <3>3. m # 1
      <4>1. f[1] = s[1] /\ {s[i] : i \in 1..1} = {s[1]}
        BY <1>2, <2>3
      <4>2. ToSet(s[1]) = UNION {ToSet(s[i]) : i \in 1..1}
        OBVIOUS
      <4> QED
        BY <1>2, <4>1, <4>2
    <3>4. m - 1 \in 1..n /\ m - 1 \notin T
      <4>1. m - 1 \in 1..n /\ ~(m <= m - 1)
        BY <3>2, <3>3
      <4> HIDE DEF T
      <4> QED
        BY <3>1, <4>1
    <3>5. /\ IsList(f[m-1]) /\ ToSet(f[m-1]) = UNION {ToSet(s[i]) : i \in 1..(m-1)}
          /\ Apart => Unique(f[m-1])
      BY <3>4
    <3>6. f[m] = f[m-1] \o s[m] /\ IsList(s[m])
      BY <2>3, <3>2, <3>3
    <3>7. UNION {ToSet(s[i]) : i \in 1..m} = ToSet(f[m-1]) \union ToSet(s[m])
      <4>1. 1..m = 1..(m-1) \union {m}
        BY <3>2
      <4> QED
        BY <3>5, <4>1
    <3>8. IsList(f[m]) /\ ToSet(f[m]) = ToSet(f[m-1]) \union ToSet(s[m])
      BY <3>5, <3>6, ConcatList
    <3>9. ASSUME Apart PROVE Unique(f[m])
      <4>1. Unique(f[m-1]) /\ Unique(s[m])
        BY <3>2, <3>5, <3>9
      <4>2. ToSet(f[m-1]) \intersect ToSet(s[m]) = {}
        <5>1. \A i \in 1..(m-1) : i \in 1..n /\ i # m
          BY <3>2
        <5> QED
          BY <3>2, <3>5, <3>9, <5>1
      <4> QED
        BY <3>5, <3>6, <4>1, <4>2, ConcatList
    <3> HIDE DEF Apart
    <3> QED
      BY <3>7, <3>8, <3>9
  <2>5. n \in 1..n
    BY <1>2
  <2>6. n \notin T
    BY <2>4
  <2> QED
    BY <2>2, <2>5, <2>6
<1> QED
  BY <1>1, <1>2

-----------------------------------------------------------------------------
(* The index. *)

\* IndexSound needs that entries is a sequence and byName covers the names.
SoundInv ==
  /\ IsList(entries)
  /\ byName \in [Names -> SUBSET Nat]
  /\ IndexSound

\* A non-empty set of positions of a list has a last one.
LEMMA LastOfIsIn ==
  ASSUME NEW n \in Nat, NEW S \in SUBSET (1..n), S # {}
  PROVE  LastOf(S) \in S
<1> DEFINE T == {n - k : k \in S}
<1>1. T \subseteq Nat
  OBVIOUS
<1>2. T # {}
  <2>1. PICK k \in S : TRUE
    OBVIOUS
  <2>2. n - k \in T
    OBVIOUS
  <2> QED
    BY <2>2
<1>3. PICK m \in T : \A x \in T : m <= x
  <2> HIDE DEF T
  <2> QED
    BY <1>1, <1>2, LeastNatural
<1>4. PICK k \in S : m = n - k
  OBVIOUS
<1>5. \A j \in S : j <= k
  <2> SUFFICES ASSUME NEW j \in S PROVE j <= k
    OBVIOUS
  <2>1. n - j \in T
    OBVIOUS
  <2>2. n - k <= n - j
    BY <2>1, <1>3, <1>4
  <2> QED
    BY <2>2
<1> HIDE DEF T
<1> QED
  BY <1>4, <1>5 DEF LastOf

LEMMA InitSound == Init => SoundInv
  BY DEF Init, NewEntityIndex, SoundInv, IndexSound, IsList, ToSet

LEMMA AddKeeps ==
  ASSUME SoundInv, NEW ref, Add(ref)
  PROVE  SoundInv'
<1> DEFINE S == ToSet(entries)
           n == Len(entries)
<1>1. /\ n \in Nat /\ DOMAIN entries = 1..n
      /\ entries' \in Seq(S \union {ref})
      /\ Len(entries') = n + 1 /\ DOMAIN entries' = 1..(n + 1)
      /\ \A i \in 1..n : entries'[i] = entries[i]
      /\ entries'[n + 1] = ref
  <2>1. entries \in Seq(S)
    BY DEF SoundInv, IsList
  <2>2. entries' = Append(entries, ref)
    BY DEF Add
  <2> HIDE DEF S
  <2>3. entries \in Seq(S \union {ref}) /\ ref \in S \union {ref}
    BY <2>1, SeqMonotonic
  <2> QED
    BY <2>2, <2>3
<1> HIDE DEF S
<1>2. IsList(entries')
  <2>1. entries' = [i \in 1..(n + 1) |-> entries'[i]] /\ n + 1 \in Nat
    BY <1>1
  <2> HIDE DEF n
  <2> QED
    BY <2>1, FunctionIsList
<1>3. /\ byName' = [byName EXCEPT ![ref.name] = @ \union {n + 1}]
      /\ byID' = [id \in DOMAIN byID \union {ref.id} |-> IF id = ref.id THEN n + 1 ELSE byID[id]]
      /\ deleted' = deleted
  BY DEF Add
<1> HIDE DEF n
<1>4. byName' \in [Names -> SUBSET Nat]
  <2> DEFINE m == n + 1
  <2>1. m \in Nat /\ byName \in [Names -> SUBSET Nat]
    BY <1>1 DEF SoundInv
  <2>2. byName' = [byName EXCEPT ![ref.name] = byName[ref.name] \union {m}]
    BY <1>3
  <2> HIDE DEF m
  <2>3. CASE ref.name \in Names
    <3>1. byName[ref.name] \union {m} \in SUBSET Nat
      BY <2>1, <2>3
    <3> QED
      BY <2>1, <2>2, <2>3, <3>1
  <2>4. CASE ref.name \notin Names
    BY <2>1, <2>2, <2>4
  <2> QED
    BY <2>3, <2>4
<1>5. \A id \in DOMAIN byID' : byID'[id] \in DOMAIN entries' /\ entries'[byID'[id]].id = id
  BY <1>1, <1>3 DEF SoundInv, IndexSound
<1>6. ASSUME NEW x \in Names PROVE byName'[x] = {i \in DOMAIN entries' : entries'[i].name = x}
  <2>1. byName[x] = {i \in 1..n : entries[i].name = x}
    BY <1>1 DEF SoundInv, IndexSound
  <2>2. byName'[x] = IF x = ref.name THEN byName[x] \union {n + 1} ELSE byName[x]
    BY <1>3 DEF SoundInv
  <2>3. {i \in 1..(n + 1) : entries'[i].name = x}
          = {i \in 1..n : entries[i].name = x} \union (IF ref.name = x THEN {n + 1} ELSE {})
    BY <1>1
  <2> QED
    BY <1>1, <2>1, <2>2, <2>3
<1>7. deleted' \subseteq DOMAIN entries'
  BY <1>1, <1>3 DEF SoundInv, IndexSound
<1> QED
  BY <1>2, <1>4, <1>5, <1>6, <1>7 DEF SoundInv, IndexSound

LEMMA FlushKeeps ==
  ASSUME SoundInv, NEW removed, Flush(removed)
  PROVE  SoundInv'
<1> DEFINE kept == DOMAIN entries \ removed
           n == Cardinality(kept)
           new == Compacted(removed)
<1>1. n \in Nat
  <2>1. DOMAIN entries = 1..Len(entries) /\ Len(entries) \in Nat
    BY ListDomain DEF SoundInv
  <2>2. IsFiniteSet(DOMAIN entries)
    BY <2>1, FS_Interval
  <2> QED
    BY <2>2, FS_Subset, FS_CardinalityType
<1>2. new = [k \in 1..n |-> new[k]]
  BY DEF Compacted
<1>3. /\ entries' = new
      /\ byID' = [id \in {new[k].id : k \in DOMAIN new} |->
                    LastOf({k \in DOMAIN new : new[k].id = id})]
      /\ byName' = [x \in Names |-> {k \in DOMAIN new : new[k].name = x}]
      /\ deleted' = {}
  BY DEF Flush
<1> HIDE DEF kept, n, new
<1>4. DOMAIN new = 1..n
  BY <1>2
<1>5. IsList(entries')
  BY <1>1, <1>2, <1>3, FunctionIsList
<1>6. ASSUME NEW id \in DOMAIN byID'
      PROVE  byID'[id] \in DOMAIN entries' /\ entries'[byID'[id]].id = id
  <2> DEFINE P == {k \in 1..n : new[k].id = id}
  <2>1. P \in SUBSET (1..n) /\ P # {}
    BY <1>3, <1>4
  <2>2. byID'[id] = LastOf(P)
    BY <1>3, <1>4
  <2>3. LastOf(P) \in P
    <3> HIDE DEF P
    <3> QED
      BY <1>1, <2>1, LastOfIsIn
  <2> QED
    BY <1>3, <1>4, <2>2, <2>3
<1>7. byName' \in [Names -> SUBSET Nat]
  BY <1>1, <1>3, <1>4
<1> QED
  BY <1>3, <1>5, <1>6, <1>7 DEF SoundInv, IndexSound

LEMMA RemoveKeeps ==
  ASSUME SoundInv, NEW id, RemoveID(id)
  PROVE  SoundInv'
<1>1. CASE UNCHANGED index
  BY <1>1 DEF SoundInv, IndexSound, index
<1>2. CASE Flush(deleted \union {byID[id]})
  BY <1>2, FlushKeeps
<1>3. CASE /\ id \in DOMAIN byID /\ deleted' = deleted \union {byID[id]}
           /\ UNCHANGED <<entries, byID, byName>>
  BY <1>3 DEF SoundInv, IndexSound
<1> QED
  BY <1>1, <1>2, <1>3 DEF RemoveID

LEMMA StepSound == SoundInv /\ [Next]_vars => SoundInv'
<1> SUFFICES ASSUME SoundInv, [Next]_vars PROVE SoundInv'
  OBVIOUS
<1>1. CASE UNCHANGED index
  BY <1>1 DEF SoundInv, IndexSound, index
<1>2. CASE IndexStep
  BY <1>2, AddKeeps, RemoveKeeps DEF IndexStep
<1>3. ASSUME ~IndexStep PROVE UNCHANGED index
  BY <1>3 DEF Next, vars, RegisterResolved, Find, ResolveOne, FindResolved, ChangeStatus,
              DeregisterRecurfile, SuspendByPluginID, Relink
<1> QED
  BY <1>1, <1>2, <1>3

\* IndexSound holds for every registry: a look-up never reads an entry that is
\* out of range or belongs to another ID or name, however registrations,
\* removals and compactions interleave with requests (entity_index.go:53).
THEOREM SoundAlways == Spec => []IndexSound
<1>1. SoundInv => IndexSound
  BY DEF SoundInv
<1> QED
  BY <1>1, InitSound, StepSound, PTL DEF Spec

-----------------------------------------------------------------------------
(* The IDs and references of a recurfile. *)

LEMMA SingletonList ==
  ASSUME NEW x
  PROVE  IsList(<<x>>) /\ ToSet(<<x>>) = {x} /\ Unique(<<x>>)
  BY DEF IsList, ToSet, Unique

\* An earlier sibling of the same type has a smaller number.
LEMMA OccurrenceDiffers ==
  ASSUME NEW s, IsList(s), NEW i \in DOMAIN s, NEW j \in DOMAIN s, i < j, s[i].type = s[j].type
  PROVE  Occurrence(s, i) # Occurrence(s, j)
<1> DEFINE before(k) == {l \in 1..(k - 1) : s[l].type = s[k].type}
<1>1. i \in Nat /\ j \in Nat
  BY ListDomain
<1>2. IsFiniteSet(1..(j - 1))
  BY <1>1, FS_Interval
<1>3. IsFiniteSet(before(j))
  BY <1>2, FS_Subset
<1>4. before(i) \subseteq before(j) /\ i \in before(j) /\ i \notin before(i)
  BY <1>1, ListDomain
<1>5. Cardinality(before(i)) # Cardinality(before(j))
  <2> HIDE DEF before
  <2> QED
    BY <1>3, <1>4, FS_Subset
<1> QED
  BY <1>5 DEF Occurrence

LEMMA Siblings ==
  ASSUME NEW kind, NEW parent, NEW s, IsList(s)
  PROVE  LET ids == SiblingIDs(kind, parent, s) IN
         /\ IsList(ids) /\ DOMAIN ids = DOMAIN s /\ Unique(ids)
         /\ \A x \in ToSet(ids) : x[1] = kind /\ Parent(x) = parent
<1> DEFINE ids == SiblingIDs(kind, parent, s)
<1>1. /\ ids = [i \in DOMAIN s |-> ids[i]]
      /\ \A i \in DOMAIN s : ids[i] = <<kind, parent, s[i].type, Occurrence(s, i)>>
  BY DEF SiblingIDs
<1> HIDE DEF ids
<1>2. IsList(ids) /\ DOMAIN ids = DOMAIN s
  <2>1. DOMAIN s = 1..Len(s) /\ Len(s) \in Nat
    BY ListDomain
  <2> QED
    BY <1>1, <2>1, FunctionIsList
<1>3. ASSUME NEW i \in DOMAIN s, NEW j \in DOMAIN s, ids[i] = ids[j], i < j PROVE FALSE
  <2>1. ids[i][3] = s[i].type /\ ids[j][3] = s[j].type
    BY <1>1
  <2>2. ids[i][4] = Occurrence(s, i) /\ ids[j][4] = Occurrence(s, j)
    BY <1>1
  <2> QED
    BY <1>3, <2>1, <2>2, OccurrenceDiffers
<1>4. Unique(ids)
  <2>1. DOMAIN s \subseteq Nat
    BY ListDomain
  <2> SUFFICES ASSUME NEW i \in DOMAIN s, NEW j \in DOMAIN s, ids[i] = ids[j] PROVE i = j
    BY <1>2 DEF Unique
  <2>2. ~(i < j) /\ ~(j < i)
    BY <1>3
  <2> QED
    BY <2>1, <2>2
<1>5. ASSUME NEW x \in ToSet(ids) PROVE x[1] = kind /\ Parent(x) = parent
  <2>1. PICK i \in DOMAIN s : x = <<kind, parent, s[i].type, Occurrence(s, i)>>
    BY <1>1, <1>2 DEF ToSet
  <2> QED
    BY <2>1 DEF Parent
<1> QED
  BY <1>2, <1>4, <1>5 DEF ids

\* A group of a recurfile.
IsGroup(g) ==
  /\ g.name \in Names /\ IsList(g.triggers)
  /\ \A i \in DOMAIN g.triggers :
       /\ g.triggers[i].name \in Names /\ IsList(g.triggers[i].actions)
       /\ \A j \in DOMAIN g.triggers[i].actions : g.triggers[i].actions[j].name \in Names

LEMMA ContentGroups ==
  ASSUME NEW content, IsContent(content)
  PROVE  IsList(content) /\ \A k \in DOMAIN content : IsGroup(content[k])
  BY DEF IsContent, IsGroup, ToSet

LEMMA GroupTriggers ==
  ASSUME NEW wf, NEW g, IsGroup(g)
  PROVE  /\ IsList(TriggerIDs(wf, g)) /\ Unique(TriggerIDs(wf, g))
         /\ DOMAIN TriggerIDs(wf, g) = DOMAIN g.triggers
         /\ \A x \in ToSet(TriggerIDs(wf, g)) : x[1] = "trigger" /\ Parent(x) = GroupID(wf, g.name)
  BY Siblings DEF TriggerIDs, IsGroup

\* The actions of the i-th trigger of a group.
ActionsOf(wf, g, i) == SiblingIDs("action", TriggerIDs(wf, g)[i], g.triggers[i].actions)

LEMMA TriggerActions ==
  ASSUME NEW wf, NEW g, IsGroup(g), NEW i \in DOMAIN g.triggers
  PROVE  /\ IsList(ActionsOf(wf, g, i)) /\ Unique(ActionsOf(wf, g, i))
         /\ DOMAIN ActionsOf(wf, g, i) = DOMAIN g.triggers[i].actions
         /\ \A x \in ToSet(ActionsOf(wf, g, i)) : x[1] = "action" /\ Parent(x) = TriggerIDs(wf, g)[i]
  BY Siblings DEF ActionsOf, IsGroup

LEMMA GroupActions ==
  ASSUME NEW wf, NEW g, IsGroup(g)
  PROVE  /\ IsList(ActionIDs(wf, g)) /\ Unique(ActionIDs(wf, g))
         /\ ToSet(ActionIDs(wf, g)) = UNION {ToSet(ActionsOf(wf, g, i)) : i \in DOMAIN g.triggers}
<1> DEFINE s == [i \in DOMAIN g.triggers |-> ActionsOf(wf, g, i)]
           n == Len(g.triggers)
<1>1. n \in Nat /\ DOMAIN g.triggers = 1..n
  BY ListDomain DEF IsGroup
<1>2. ActionIDs(wf, g) = FlattenSeq(s)
  BY DEF ActionIDs, ActionsOf
<1>3. s = [i \in 1..n |-> s[i]] /\ \A i \in 1..n : s[i] = ActionsOf(wf, g, i)
  BY <1>1
<1> HIDE DEF s, n
<1>4. ASSUME NEW i \in 1..n PROVE IsList(s[i]) /\ Unique(s[i])
  <2>1. s[i] = ActionsOf(wf, g, i)
    BY <1>3
  <2>2. IsList(ActionsOf(wf, g, i)) /\ Unique(ActionsOf(wf, g, i))
    BY <1>1, TriggerActions
  <2> QED
    BY <2>1, <2>2
<1>5. ASSUME NEW i \in 1..n, NEW j \in 1..n, i # j PROVE ToSet(s[i]) \intersect ToSet(s[j]) = {}
  <2>1. TriggerIDs(wf, g)[i] # TriggerIDs(wf, g)[j]
    BY <1>1, <1>5, GroupTriggers DEF Unique
  <2> QED
    BY <1>1, <1>3, <2>1, TriggerActions
<1>6. /\ IsList(FlattenSeq(s)) /\ Unique(FlattenSeq(s))
      /\ ToSet(FlattenSeq(s)) = UNION {ToSet(s[i]) : i \in 1..n}
  BY <1>1, <1>3, <1>4, <1>5, FlattenList
<1> QED
  BY <1>1, <1>2, <1>3, <1>6

\* Every action ID leads to its group.
LEMMA GroupOfActions ==
  ASSUME NEW wf, NEW g, IsGroup(g)
  PROVE  \A x \in ToSet(ActionIDs(wf, g)) : Parent(Parent(x)) = GroupID(wf, g.name)
<1> SUFFICES ASSUME NEW x \in ToSet(ActionIDs(wf, g)) PROVE Parent(Parent(x)) = GroupID(wf, g.name)
  OBVIOUS
<1>1. PICK i \in DOMAIN g.triggers : x \in ToSet(ActionsOf(wf, g, i))
  BY GroupActions
<1>2. Parent(x) = TriggerIDs(wf, g)[i]
  BY <1>1, TriggerActions
<1>3. TriggerIDs(wf, g)[i] \in ToSet(TriggerIDs(wf, g))
  BY GroupTriggers DEF ToSet
<1> QED
  BY <1>2, <1>3, GroupTriggers

LEMMA FileGroups ==
  ASSUME NEW wf, NEW content, IsContent(content)
  PROVE  /\ IsList(GroupIDs(wf, content)) /\ DOMAIN GroupIDs(wf, content) = DOMAIN content
         /\ \A k \in DOMAIN content : GroupIDs(wf, content)[k] = GroupID(wf, content[k].name)
         /\ ToSet(GroupIDs(wf, content)) = {GroupID(wf, content[k].name) : k \in DOMAIN content}
<1>1. IsList(content) /\ DOMAIN content = 1..Len(content) /\ Len(content) \in Nat
  BY ContentGroups, ListDomain
<1>2. GroupIDs(wf, content) = [k \in 1..Len(content) |-> GroupIDs(wf, content)[k]]
  BY <1>1 DEF GroupIDs
<1>3. \A k \in DOMAIN content : GroupIDs(wf, content)[k] = GroupID(wf, content[k].name)
  BY DEF GroupIDs
<1>4. IsList(GroupIDs(wf, content)) /\ DOMAIN GroupIDs(wf, content) = DOMAIN content
  BY <1>1, <1>2, FunctionIsList
<1> QED
  BY <1>3, <1>4 DEF ToSet

\* Every ID leads to its recurfile.
LEMMA OwnersOf ==
  ASSUME NEW wf, NEW content, IsContent(content)
  PROVE  /\ \A x \in ToSet(GroupIDs(wf, content)) : x[1] = "group" /\ Parent(x) = wf
         /\ \A x \in AllTriggers(wf, content) : x[1] = "trigger" /\ RecurfileOfTrigger(x) = wf
         /\ \A x \in AllActions(wf, content) : x[1] = "action" /\ RecurfileOfAction(x) = wf
<1>0. \A name : GroupID(wf, name)[1] = "group" /\ Parent(GroupID(wf, name)) = wf
  BY DEF GroupID, Parent
<1>1. \A x \in ToSet(GroupIDs(wf, content)) : x[1] = "group" /\ Parent(x) = wf
  BY <1>0, FileGroups
<1>2. ASSUME NEW k \in DOMAIN content, NEW x \in ToSet(TriggerIDs(wf, content[k]))
      PROVE  x[1] = "trigger" /\ RecurfileOfTrigger(x) = wf
  BY <1>0, GroupTriggers, ContentGroups DEF RecurfileOfTrigger
<1>3. ASSUME NEW k \in DOMAIN content, NEW x \in ToSet(ActionIDs(wf, content[k]))
      PROVE  x[1] = "action" /\ RecurfileOfAction(x) = wf
  <2>1. IsGroup(content[k])
    BY ContentGroups
  <2>2. PICK i \in DOMAIN content[k].triggers : x \in ToSet(ActionsOf(wf, content[k], i))
    BY <2>1, GroupActions
  <2>3. x[1] = "action" /\ Parent(x) = TriggerIDs(wf, content[k])[i]
    BY <2>1, <2>2, TriggerActions
  <2>4. TriggerIDs(wf, content[k])[i] \in ToSet(TriggerIDs(wf, content[k]))
    BY <2>1, GroupTriggers DEF ToSet
  <2> QED
    BY <1>2, <2>3, <2>4 DEF RecurfileOfAction
<1> QED
  BY <1>1, <1>2, <1>3 DEF AllTriggers, AllActions

-----------------------------------------------------------------------------
(* The maps hold what is registered. *)

GroupRecord(wf, g) == [triggers |-> TriggerIDs(wf, g), actions |-> ActionIDs(wf, g)]

\* The maps m are those of the contents reg, in which no file has two groups of one name.
Holds(m, reg) ==
  /\ reg = [p \in DOMAIN reg |-> reg[p]]
  /\ \A p \in DOMAIN reg : reg[p] \in Contents /\ ~TwoGroupsOfOneName(reg[p])
  /\ DOMAIN m.recurfiles = {RecurfileID(p) : p \in DOMAIN reg}
  /\ \A p \in DOMAIN reg : m.recurfiles[RecurfileID(p)] = GroupIDs(RecurfileID(p), reg[p])
  /\ \A g : g \in DOMAIN m.groups <=> \E p \in DOMAIN reg : g \in ToSet(GroupIDs(RecurfileID(p), reg[p]))
  /\ \A p \in DOMAIN reg : \A k \in DOMAIN reg[p] :
       m.groups[GroupID(RecurfileID(p), reg[p][k].name)] = GroupRecord(RecurfileID(p), reg[p][k])
  /\ \A t : t \in DOMAIN m.triggers <=> \E p \in DOMAIN reg : t \in AllTriggers(RecurfileID(p), reg[p])
  /\ \A a : a \in DOMAIN m.actions <=> \E p \in DOMAIN reg : a \in AllActions(RecurfileID(p), reg[p])

LEMMA RecurfileIDs ==
  \A p : RecurfileID(p)[1] = "recurfile" /\ RecurfileID(p)[2] = p
  BY DEF RecurfileID

\* The groups of a registered recurfile are those of its content.
LEMMA HeldGroups ==
  ASSUME RegistryAssumption, NEW reg, Holds(Maps, reg), NEW p \in DOMAIN reg
  PROVE  LET wf == RecurfileID(p) IN
         /\ IsContent(reg[p])
         /\ wf \in DOMAIN recurfiles /\ recurfiles[wf] = GroupIDs(wf, reg[p])
         /\ \A k \in DOMAIN reg[p] : /\ recurfiles[wf][k] \in DOMAIN groups
                                    /\ groups[recurfiles[wf][k]] = GroupRecord(wf, reg[p][k])
<1>w. PICK wf : wf = RecurfileID(p)
  OBVIOUS
<1>c. PICK content : content = reg[p]
  OBVIOUS
<1> USE <1>w, <1>c
<1>1. IsContent(content)
  BY DEF Holds, RegistryAssumption
<1>2. wf \in DOMAIN recurfiles /\ recurfiles[wf] = GroupIDs(wf, content)
  BY DEF Holds, Maps
<1>3. ASSUME NEW k \in DOMAIN content
      PROVE  /\ recurfiles[wf][k] \in DOMAIN groups
             /\ groups[recurfiles[wf][k]] = GroupRecord(wf, content[k])
  <2>1. recurfiles[wf][k] = GroupID(wf, content[k].name)
    BY <1>1, <1>2, FileGroups
  <2>2. GroupID(wf, content[k].name) \in ToSet(GroupIDs(wf, content))
    BY <1>1, FileGroups
  <2> QED
    BY <2>1, <2>2 DEF Holds, Maps
<1> QED
  BY <1>1, <1>2, <1>3

\* What the lists of the groups of a registered recurfile give is all it has.
LEMMA ListedFacts ==
  ASSUME RegistryAssumption, NEW reg, Holds(Maps, reg), NEW p \in DOMAIN reg
  PROVE  LET wf == RecurfileID(p) IN
         /\ wf \in DOMAIN recurfiles /\ ToSet(recurfiles[wf]) = ToSet(GroupIDs(wf, reg[p]))
         /\ ToSet(Listed(wf, "triggers")) = AllTriggers(wf, reg[p])
         /\ ToSet(Listed(wf, "actions")) = AllActions(wf, reg[p])
         /\ IsList(Listed(wf, "triggers")) /\ Unique(Listed(wf, "triggers"))
         /\ IsList(Listed(wf, "actions")) /\ Unique(Listed(wf, "actions"))
<1>w. PICK wf : wf = RecurfileID(p)
  OBVIOUS
<1>c. PICK content : content = reg[p]
  OBVIOUS
<1> USE <1>w, <1>c
<1>0. IsContent(content)
  BY HeldGroups
<1>1. wf \in DOMAIN recurfiles /\ recurfiles[wf] = GroupIDs(wf, content)
  BY HeldGroups
<1>2. PICK n \in Nat : DOMAIN content = 1..n
  BY <1>0, ContentGroups, ListDomain
<1>3. \A k \in 1..n : IsGroup(content[k])
  BY <1>0, <1>2, ContentGroups
<1>4. \A k \in 1..n : /\ recurfiles[wf][k] \in DOMAIN groups
                      /\ groups[recurfiles[wf][k]] = GroupRecord(wf, content[k])
  BY <1>2, HeldGroups
<1>5. DOMAIN recurfiles[wf] = 1..n
  BY <1>0, <1>1, <1>2, FileGroups
<1>6. \A i, j \in 1..n : i # j => GroupID(wf, content[i].name) # GroupID(wf, content[j].name)
  <2>1. \A i, j \in 1..n : i # j => content[i].name # content[j].name
    BY <1>2 DEF Holds, TwoGroupsOfOneName
  <2> QED
    BY <2>1 DEF GroupID
<1>7. /\ ToSet(Listed(wf, "triggers")) = AllTriggers(wf, content)
      /\ IsList(Listed(wf, "triggers")) /\ Unique(Listed(wf, "triggers"))
  <2> DEFINE s == [k \in 1..n |-> TriggerIDs(wf, content[k])]
  <2>0. ASSUME NEW k \in 1..n
        PROVE  (IF recurfiles[wf][k] \in DOMAIN groups THEN groups[recurfiles[wf][k]]["triggers"] ELSE << >>)
                 = TriggerIDs(wf, content[k])
    <3>1. GroupRecord(wf, content[k])["triggers"] = TriggerIDs(wf, content[k])
      BY DEF GroupRecord
    <3> QED
      BY <1>4, <3>1
  <2>1. Listed(wf, "triggers") = FlattenSeq(s)
    BY <1>5, <2>0, Zenon DEF Listed
  <2>2. s = [k \in 1..n |-> s[k]] /\ \A k \in 1..n : s[k] = TriggerIDs(wf, content[k])
    OBVIOUS
  <2> HIDE DEF s
  <2>3. \A k \in 1..n : IsList(s[k])
    BY <1>3, <2>2, GroupTriggers
  <2>4. /\ IsList(FlattenSeq(s)) /\ ToSet(FlattenSeq(s)) = UNION {ToSet(s[k]) : k \in 1..n}
        /\ Unique(FlattenSeq(s))
    <3>1. \A k \in 1..n : Unique(s[k])
      BY <1>3, <2>2, GroupTriggers
    <3>2. \A i, j \in 1..n : i # j => ToSet(s[i]) \intersect ToSet(s[j]) = {}
      <4>1. \A k \in 1..n : \A x \in ToSet(s[k]) : Parent(x) = GroupID(wf, content[k].name)
        BY <1>3, <2>2, GroupTriggers
      <4> QED
        BY <1>6, <4>1
    <3> QED
      BY <2>2, <2>3, <3>1, <3>2, FlattenList
  <2> QED
    BY <1>2, <2>1, <2>2, <2>4 DEF AllTriggers
<1>8. /\ ToSet(Listed(wf, "actions")) = AllActions(wf, content)
      /\ IsList(Listed(wf, "actions")) /\ Unique(Listed(wf, "actions"))
  <2> DEFINE s == [k \in 1..n |-> ActionIDs(wf, content[k])]
  <2>0. ASSUME NEW k \in 1..n
        PROVE  (IF recurfiles[wf][k] \in DOMAIN groups THEN groups[recurfiles[wf][k]]["actions"] ELSE << >>)
                 = ActionIDs(wf, content[k])
    <3>1. GroupRecord(wf, content[k])["actions"] = ActionIDs(wf, content[k])
      BY DEF GroupRecord
    <3> QED
      BY <1>4, <3>1
  <2>1. Listed(wf, "actions") = FlattenSeq(s)
    BY <1>5, <2>0, Zenon DEF Listed
  <2>2. s = [k \in 1..n |-> s[k]] /\ \A k \in 1..n : s[k] = ActionIDs(wf, content[k])
    OBVIOUS
  <2> HIDE DEF s
  <2>3. \A k \in 1..n : IsList(s[k])
    BY <1>3, <2>2, GroupActions
  <2>4. /\ IsList(FlattenSeq(s)) /\ ToSet(FlattenSeq(s)) = UNION {ToSet(s[k]) : k \in 1..n}
        /\ Unique(FlattenSeq(s))
    <3>1. \A k \in 1..n : Unique(s[k])
      BY <1>3, <2>2, GroupActions
    <3>2. \A i, j \in 1..n : i # j => ToSet(s[i]) \intersect ToSet(s[j]) = {}
      <4>1. \A k \in 1..n : \A x \in ToSet(s[k]) : Parent(Parent(x)) = GroupID(wf, content[k].name)
        BY <1>3, <2>2, GroupOfActions
      <4> QED
        BY <1>6, <4>1
    <3> QED
      BY <2>2, <2>3, <3>1, <3>2, FlattenList
  <2> QED
    BY <1>2, <2>1, <2>2, <2>4 DEF AllActions
<1> QED
  BY <1>1, <1>7, <1>8

\* IDs of different files differ.
LEMMA Disjoint ==
  ASSUME NEW p, NEW q, p # q, NEW c, NEW d, IsContent(c), IsContent(d)
  PROVE  /\ RecurfileID(p) # RecurfileID(q)
         /\ ToSet(GroupIDs(RecurfileID(p), c)) \intersect ToSet(GroupIDs(RecurfileID(q), d)) = {}
         /\ AllTriggers(RecurfileID(p), c) \intersect AllTriggers(RecurfileID(q), d) = {}
         /\ AllActions(RecurfileID(p), c) \intersect AllActions(RecurfileID(q), d) = {}
<1>1. RecurfileID(p) # RecurfileID(q)
  BY RecurfileIDs
<1> QED
  BY <1>1, OwnersOf

LEMMA DeregisterHolds ==
  ASSUME RegistryAssumption, NEW reg, Holds(Maps, reg), NEW q \in DOMAIN reg
  PROVE  Holds(Deregistered(RecurfileID(q)), Without(reg, {q}))
<1>w. PICK wf : wf = RecurfileID(q)
  OBVIOUS
<1>r. PICK rest : rest = Without(reg, {q})
  OBVIOUS
<1>m. PICK m : m = Deregistered(RecurfileID(q))
  OBVIOUS
<1> USE <1>w, <1>r, <1>m
<1>1. DOMAIN rest = DOMAIN reg \ {q} /\ \A p \in DOMAIN rest : rest[p] = reg[p]
  BY DEF Without
<1>2. /\ m.recurfiles = Without(recurfiles, {wf})
      /\ m.groups = Without(groups, ToSet(GroupIDs(wf, reg[q])))
      /\ m.triggers = Without(triggers, AllTriggers(wf, reg[q]))
      /\ m.actions = Without(actions, AllActions(wf, reg[q]))
  BY ListedFacts DEF Deregistered
<1>3. \A p \in DOMAIN reg : IsContent(reg[p])
  BY DEF Holds, RegistryAssumption
<1>4. DOMAIN m.recurfiles = {RecurfileID(p) : p \in DOMAIN rest}
  <2>1. DOMAIN m.recurfiles = {RecurfileID(p) : p \in DOMAIN reg} \ {wf}
    BY <1>2 DEF Without, Holds, Maps
  <2> QED
    BY <1>1, <2>1, RecurfileIDs
<1>5. ASSUME NEW p \in DOMAIN rest
      PROVE  m.recurfiles[RecurfileID(p)] = GroupIDs(RecurfileID(p), rest[p])
  <2>1. RecurfileID(p) \in DOMAIN recurfiles \ {wf}
    BY <1>1, <1>3, Disjoint DEF Holds, Maps
  <2> QED
    BY <1>1, <1>2, <2>1 DEF Without, Holds, Maps
<1>6. \A g : g \in DOMAIN m.groups <=> \E p \in DOMAIN rest : g \in ToSet(GroupIDs(RecurfileID(p), rest[p]))
  <2>1. \A p \in DOMAIN rest : ToSet(GroupIDs(RecurfileID(p), reg[p])) \intersect ToSet(GroupIDs(wf, reg[q])) = {}
    BY <1>1, <1>3, Disjoint
  <2>2. \A g : g \in DOMAIN groups <=> \E p \in DOMAIN reg : g \in ToSet(GroupIDs(RecurfileID(p), reg[p]))
    BY DEF Holds, Maps
  <2>3. DOMAIN m.groups = DOMAIN groups \ ToSet(GroupIDs(wf, reg[q]))
    BY <1>2 DEF Without
  <2> QED
    BY <1>1, <2>1, <2>2, <2>3
<1>7. ASSUME NEW p \in DOMAIN rest, NEW k \in DOMAIN rest[p]
      PROVE  m.groups[GroupID(RecurfileID(p), rest[p][k].name)] = GroupRecord(RecurfileID(p), rest[p][k])
  <2>1. GroupID(RecurfileID(p), reg[p][k].name) \in ToSet(GroupIDs(RecurfileID(p), reg[p]))
    <3>1. IsContent(reg[p]) /\ k \in DOMAIN reg[p]
      BY <1>1, <1>3
    <3> QED
      BY <3>1, FileGroups
  <2>2. GroupID(RecurfileID(p), reg[p][k].name) \in DOMAIN groups \ ToSet(GroupIDs(wf, reg[q]))
    BY <1>1, <1>3, <2>1, Disjoint DEF Holds, Maps
  <2> QED
    BY <1>1, <1>2, <2>2 DEF Without, Holds, Maps
<1>8. \A t : t \in DOMAIN m.triggers <=> \E p \in DOMAIN rest : t \in AllTriggers(RecurfileID(p), rest[p])
  <2>1. \A p \in DOMAIN rest : AllTriggers(RecurfileID(p), reg[p]) \intersect AllTriggers(wf, reg[q]) = {}
    BY <1>1, <1>3, Disjoint
  <2>2. \A t : t \in DOMAIN triggers <=> \E p \in DOMAIN reg : t \in AllTriggers(RecurfileID(p), reg[p])
    BY DEF Holds, Maps
  <2>3. DOMAIN m.triggers = DOMAIN triggers \ AllTriggers(wf, reg[q])
    BY <1>2 DEF Without
  <2> QED
    BY <1>1, <2>1, <2>2, <2>3
<1>9. \A a : a \in DOMAIN m.actions <=> \E p \in DOMAIN rest : a \in AllActions(RecurfileID(p), rest[p])
  <2>1. \A p \in DOMAIN rest : AllActions(RecurfileID(p), reg[p]) \intersect AllActions(wf, reg[q]) = {}
    BY <1>1, <1>3, Disjoint
  <2>2. \A a : a \in DOMAIN actions <=> \E p \in DOMAIN reg : a \in AllActions(RecurfileID(p), reg[p])
    BY DEF Holds, Maps
  <2>3. DOMAIN m.actions = DOMAIN actions \ AllActions(wf, reg[q])
    BY <1>2 DEF Without
  <2> QED
    BY <1>1, <2>1, <2>2, <2>3
<1>10. \A p \in DOMAIN rest : rest[p] \in Contents /\ ~TwoGroupsOfOneName(rest[p])
  BY <1>1 DEF Holds
<1>11. rest = [p \in DOMAIN rest |-> rest[p]]
  BY DEF Without
<1> QED
  BY <1>4, <1>5, <1>6, <1>7, <1>8, <1>9, <1>10, <1>11 DEF Holds

\* Of groups whose names differ, the last of a name is the only one.
LEMMA LastGroup ==
  ASSUME NEW wf, NEW content, IsContent(content), ~TwoGroupsOfOneName(content), NEW k \in DOMAIN content
  PROVE  LastOf({j \in DOMAIN content : GroupID(wf, content[j].name) = GroupID(wf, content[k].name)}) = k
<1>1. \A name : GroupID(wf, name)[3] = name
  BY DEF GroupID
<1>2. \A j \in DOMAIN content : GroupID(wf, content[j].name) = GroupID(wf, content[k].name) => j = k
  BY <1>1 DEF TwoGroupsOfOneName
<1>3. {j \in DOMAIN content : GroupID(wf, content[j].name) = GroupID(wf, content[k].name)} = {k}
  BY <1>2
<1>4. k \in Nat
  BY ContentGroups, ListDomain
<1>5. LastOf({k}) = k
  BY <1>4 DEF LastOf
<1> QED
  BY <1>3, <1>5

\* The contents reg with that of one more path.
Adding(reg, path, content) == With(reg, [p \in {path} |-> content])

LEMMA RegisterHolds ==
  ASSUME RegistryAssumption, NEW m, NEW reg, Holds(m, reg), NEW path, path \notin DOMAIN reg,
         NEW content \in Contents, ~TwoGroupsOfOneName(content)
  PROVE  Holds(Registered(m, path, content), Adding(reg, path, content))
<1>w. PICK wf : wf = RecurfileID(path)
  OBVIOUS
<1>r. PICK all : all = Adding(reg, path, content)
  OBVIOUS
<1>n. PICK new : new = Registered(m, path, content)
  OBVIOUS
<1> USE <1>w, <1>r, <1>n
<1>1. /\ DOMAIN all = DOMAIN reg \union {path} /\ all[path] = content
      /\ \A p \in DOMAIN reg : all[p] = reg[p]
  BY DEF With, Adding
<1>2. DOMAIN new.recurfiles = DOMAIN m.recurfiles \union {wf}
      /\ new.recurfiles[wf] = GroupIDs(wf, content)
      /\ \A w \in DOMAIN m.recurfiles \ {wf} : new.recurfiles[w] = m.recurfiles[w]
  BY DEF With, Registered
<1>3. IsContent(content) /\ \A p \in DOMAIN reg : IsContent(reg[p])
  BY DEF Holds, RegistryAssumption
<1>4. /\ DOMAIN new.groups = DOMAIN m.groups \union ToSet(GroupIDs(wf, content))
      /\ \A g \in DOMAIN m.groups \ ToSet(GroupIDs(wf, content)) : new.groups[g] = m.groups[g]
      /\ \A k \in DOMAIN content :
           new.groups[GroupID(wf, content[k].name)] = GroupRecord(wf, content[k])
  <2> DEFINE last(g) == LastOf({k \in DOMAIN content : GroupID(wf, content[k].name) = g})
             G == [g \in ToSet(GroupIDs(wf, content)) |->
                     [triggers |-> TriggerIDs(wf, content[last(g)]),
                      actions |-> ActionIDs(wf, content[last(g)])]]
  <2>1. new.groups = With(m.groups, G)
    BY DEF Registered
  <2>2. DOMAIN G = ToSet(GroupIDs(wf, content))
    OBVIOUS
  <2>3. ASSUME NEW k \in DOMAIN content
        PROVE  /\ GroupID(wf, content[k].name) \in DOMAIN G
               /\ G[GroupID(wf, content[k].name)] = GroupRecord(wf, content[k])
    <3>1. GroupID(wf, content[k].name) \in ToSet(GroupIDs(wf, content))
      BY <1>3, FileGroups
    <3>2. last(GroupID(wf, content[k].name)) = k
      BY <1>3, LastGroup
    <3> HIDE DEF last
    <3> QED
      BY <3>1, <3>2 DEF GroupRecord
  <2> HIDE DEF G
  <2> QED
    BY <2>1, <2>2, <2>3 DEF With
<1>5. /\ DOMAIN new.triggers = DOMAIN m.triggers \union AllTriggers(wf, content)
      /\ DOMAIN new.actions = DOMAIN m.actions \union AllActions(wf, content)
  BY DEF With, Registered
<1>6. DOMAIN new.recurfiles = {RecurfileID(p) : p \in DOMAIN all}
  BY <1>1, <1>2 DEF Holds
<1>7. ASSUME NEW p \in DOMAIN all
      PROVE  new.recurfiles[RecurfileID(p)] = GroupIDs(RecurfileID(p), all[p])
  BY <1>1, <1>2, <1>3, Disjoint DEF Holds
<1>8. \A g : g \in DOMAIN new.groups <=> \E p \in DOMAIN all : g \in ToSet(GroupIDs(RecurfileID(p), all[p]))
  BY <1>1, <1>4 DEF Holds
<1>9. ASSUME NEW p \in DOMAIN all, NEW k \in DOMAIN all[p]
      PROVE  new.groups[GroupID(RecurfileID(p), all[p][k].name)] = GroupRecord(RecurfileID(p), all[p][k])
  <2>1. CASE p = path
    BY <1>1, <1>4, <1>9, <2>1
  <2>2. CASE p # path
    <3>1. p \in DOMAIN reg /\ all[p] = reg[p]
      BY <1>1, <2>2
    <3>2. GroupID(RecurfileID(p), reg[p][k].name) \in ToSet(GroupIDs(RecurfileID(p), reg[p]))
      BY <1>3, <1>9, <3>1, FileGroups
    <3>3. GroupID(RecurfileID(p), reg[p][k].name) \in DOMAIN m.groups \ ToSet(GroupIDs(wf, content))
      BY <1>3, <2>2, <3>1, <3>2, Disjoint DEF Holds
    <3> QED
      BY <1>4, <1>9, <3>1, <3>3 DEF Holds
  <2> QED
    BY <2>1, <2>2
<1>10. /\ \A t : t \in DOMAIN new.triggers <=> \E p \in DOMAIN all : t \in AllTriggers(RecurfileID(p), all[p])
       /\ \A a : a \in DOMAIN new.actions <=> \E p \in DOMAIN all : a \in AllActions(RecurfileID(p), all[p])
  BY <1>1, <1>5 DEF Holds
<1>11. \A p \in DOMAIN all : all[p] \in Contents /\ ~TwoGroupsOfOneName(all[p])
  BY <1>1 DEF Holds
<1>12. all = [p \in DOMAIN all |-> all[p]]
  BY DEF With, Adding
<1> QED
  BY <1>6, <1>7, <1>8, <1>9, <1>10, <1>11, <1>12 DEF Holds

-----------------------------------------------------------------------------

MapsInv == ~tainted => Holds(Maps, registered)

LEMMA MapsInit == Init => MapsInv
  BY DEF Init, MapsInv, Holds, Maps

\* A registered recurfile that is the same file is that of a path.
LEMMA SameFileFacts ==
  ASSUME NEW reg, Holds(Maps, reg), NEW path, NEW old \in SameFile(path)
  PROVE  \E q \in DOMAIN reg : old = RecurfileID(q) /\ old[2] = q
  BY RecurfileIDs DEF SameFile, Holds, Maps

\* A registration that is not exempt adds a file, or replaces the one that it is.
LEMMA RegisterCases ==
  ASSUME MapsInv, NEW path, NEW content, RegisterResolved(path, content), ~tainted'
  PROVE  /\ Holds(Maps, registered) /\ ~TwoGroupsOfOneName(content)
         /\ \/ /\ path \notin DOMAIN registered
               /\ Maps' = Registered(Maps, path, content)
               /\ registered' = Adding(registered, path, content)
               /\ todo' = Additions(FileRefs(path, content))
            \/ \E q \in DOMAIN registered :
                 /\ path \notin DOMAIN Without(registered, {q})
                 /\ Maps' = Registered(Deregistered(RecurfileID(q)), path, content)
                 /\ registered' = Adding(Without(registered, {q}), path, content)
                 /\ todo' = Removals(RemovedIDs(RecurfileID(q))) \o Additions(FileRefs(path, content))
<1>0. Holds(Maps, registered) /\ ~TwoGroupsOfOneName(content)
  BY DEF RegisterResolved, Record, MapsInv
<1>1. CASE /\ SetMaps(Registered(Maps, path, content)) /\ Record(path, {}, content)
           /\ todo' = Additions(FileRefs(path, content))
  <2>1. path \notin DOMAIN registered
    BY <1>1 DEF Record
  <2>2. registered' = Adding(registered, path, content)
    <3>1. registered = [p \in DOMAIN registered |-> registered[p]]
      BY <1>0 DEF Holds
    <3>2. Without(registered, {wf[2] : wf \in {}}) = registered
      BY <3>1 DEF Without
    <3> QED
      BY <1>1, <3>2 DEF Record, Adding
  <2>3. Maps' = Registered(Maps, path, content)
    BY <1>1 DEF SetMaps, Maps, Registered
  <2> QED
    BY <1>0, <1>1, <2>1, <2>2, <2>3
<1>2. ASSUME NEW old \in SameFile(path), SetMaps(Registered(Deregistered(old), path, content)),
             Record(path, {old}, content),
             todo' = Removals(RemovedIDs(old)) \o Additions(FileRefs(path, content))
      PROVE  \E q \in DOMAIN registered :
               /\ path \notin DOMAIN Without(registered, {q})
               /\ Maps' = Registered(Deregistered(RecurfileID(q)), path, content)
               /\ registered' = Adding(Without(registered, {q}), path, content)
               /\ todo' = Removals(RemovedIDs(RecurfileID(q))) \o Additions(FileRefs(path, content))
  <2>1. path \in DOMAIN registered => RecurfileID(path) = old
    BY <1>2 DEF Record
  <2>2. PICK q \in DOMAIN registered : old = RecurfileID(q) /\ old[2] = q
    BY <1>0, SameFileFacts
  <2>3. path \notin DOMAIN Without(registered, {q})
    BY <2>1, <2>2, RecurfileIDs DEF Without
  <2>4. Maps' = Registered(Deregistered(old), path, content)
    BY <1>2 DEF SetMaps, Maps, Registered
  <2>5. registered' = Adding(Without(registered, {q}), path, content)
    <3>1. {wf[2] : wf \in {old}} = {q}
      BY <2>2
    <3> QED
      BY <1>2, <3>1 DEF Record, Adding
  <2> QED
    BY <1>2, <2>2, <2>3, <2>4, <2>5
<1> QED
  BY <1>0, <1>1, <1>2 DEF RegisterResolved

LEMMA RegisterMaps ==
  ASSUME RegistryAssumption, MapsInv, NEW path \in Paths, NEW content \in Contents,
         RegisterResolved(path, content)
  PROVE  MapsInv'
<1> SUFFICES ASSUME ~tainted' PROVE Holds(Maps', registered')
  BY DEF MapsInv, Holds, Maps
<1>0. Holds(Maps, registered) /\ ~TwoGroupsOfOneName(content)
  BY RegisterCases
<1>1. CASE /\ path \notin DOMAIN registered
           /\ Maps' = Registered(Maps, path, content)
           /\ registered' = Adding(registered, path, content)
  <2>1. Holds(Registered(Maps, path, content), Adding(registered, path, content))
    BY <1>0, <1>1, RegisterHolds
  <2> QED
    BY <1>1, <2>1
<1>2. ASSUME NEW q \in DOMAIN registered, path \notin DOMAIN Without(registered, {q}),
             Maps' = Registered(Deregistered(RecurfileID(q)), path, content),
             registered' = Adding(Without(registered, {q}), path, content)
      PROVE  Holds(Maps', registered')
  <2>1. Holds(Deregistered(RecurfileID(q)), Without(registered, {q}))
    BY <1>0, DeregisterHolds
  <2>2. Holds(Registered(Deregistered(RecurfileID(q)), path, content),
              Adding(Without(registered, {q}), path, content))
    BY <1>0, <1>2, <2>1, RegisterHolds
  <2> QED
    BY <1>2, <2>2
<1> QED
  BY <1>1, <1>2, RegisterCases

\* The domains stay, and the groups.
LEMMA SameMaps ==
  ASSUME MapsInv, UNCHANGED <<recurfiles, groups, history>>,
         DOMAIN triggers' = DOMAIN triggers, DOMAIN actions' = DOMAIN actions
  PROVE  MapsInv'
  BY DEF MapsInv, Holds, Maps, history

LEMMA DeregisterMaps ==
  ASSUME RegistryAssumption, MapsInv, NEW c \in Clients, DeregisterRecurfile(c)
  PROVE  MapsInv'
<1>1. CASE UNCHANGED <<maps, history>>
  BY <1>1, SameMaps DEF maps
<1>2. CASE /\ request[c].id \in DOMAIN recurfiles /\ SetMaps(Deregistered(request[c].id))
           /\ registered' = Without(registered, {request[c].id[2]}) /\ UNCHANGED tainted
  <2> SUFFICES ASSUME ~tainted PROVE Holds(Maps', registered')
    BY <1>2 DEF MapsInv, Holds, Maps
  <2>1. Holds(Maps, registered)
    BY DEF MapsInv
  <2>2. PICK q \in DOMAIN registered : request[c].id = RecurfileID(q) /\ request[c].id[2] = q
    BY <1>2, <2>1, RecurfileIDs DEF Holds, Maps
  <2>3. Maps' = Deregistered(RecurfileID(q)) /\ registered' = Without(registered, {q})
    BY <1>2, <2>2 DEF SetMaps, Maps, Deregistered
  <2> QED
    BY <2>1, <2>3, DeregisterHolds
<1> QED
  BY <1>1, <1>2 DEF DeregisterRecurfile

LEMMA MapsStep == MapsInv /\ [Next]_vars => MapsInv'
<1> SUFFICES ASSUME MapsInv, [Next]_vars PROVE MapsInv'
  OBVIOUS
<1>1. CASE UNCHANGED <<maps, history>>
  BY <1>1, SameMaps DEF maps
<1>2. ASSUME NEW c \in Clients, ChangeStatus(c) PROVE MapsInv'
  BY <1>2, SameMaps DEF ChangeStatus
<1>3. CASE SuspendByPluginID
  BY <1>3, SameMaps DEF SuspendByPluginID
<1>4. CASE UNCHANGED vars
  BY <1>1, <1>4 DEF vars
<1>5. CASE IndexStep
  BY <1>1, <1>5 DEF IndexStep
<1>6. ASSUME NEW c \in Clients, NEW op, NEW type, NEW identifier, Find(c, op, type, identifier)
      PROVE  MapsInv'
  BY <1>1, <1>6 DEF Find
<1>7. ASSUME NEW c \in Clients, NEW op, NEW types, NEW identifier, ResolveOne(c, op, types, identifier)
      PROVE  MapsInv'
  BY <1>1, <1>7 DEF ResolveOne
<1>8. ASSUME NEW c \in Clients, FindResolved(c) PROVE MapsInv'
  BY <1>1, <1>8 DEF FindResolved
<1>9. ASSUME NEW p \in Paths, Relink(p) PROVE MapsInv'
  BY <1>1, <1>9 DEF Relink
<1> QED
  BY <1>2, <1>3, <1>4, <1>5, <1>6, <1>7, <1>8, <1>9, RegisterMaps, DeregisterMaps,
     RegistryAssumption DEF Next

-----------------------------------------------------------------------------
(* The references of a recurfile name its entities and no others. *)

IDsOf(refs, kind) == {r.id : r \in {x \in refs : x.type = kind}}

LEMMA IDsOfUnion ==
  ASSUME NEW S, NEW T, NEW kind
  PROVE  IDsOf(S \union T, kind) = IDsOf(S, kind) \union IDsOf(T, kind)
  BY DEF IDsOf

LEMMA IDsOfOne ==
  ASSUME NEW r, NEW kind
  PROVE  IDsOf({r}, kind) = IF r.type = kind THEN {r.id} ELSE {}
<1>1. CASE r.type = kind
  <2>1. {x \in {r} : x.type = kind} = {r}
    BY <1>1
  <2> QED
    BY <1>1, <2>1 DEF IDsOf
<1>2. CASE r.type # kind
  <2>1. {x \in {r} : x.type = kind} = {}
    BY <1>2
  <2> QED
    BY <1>2, <2>1 DEF IDsOf
<1> QED
  BY <1>1, <1>2

LEMMA IDsOfRef ==
  ASSUME NEW k, NEW id, NEW name
  PROVE  \A kind : IDsOf({Ref(k, id, name)}, kind) = IF kind = k THEN {id} ELSE {}
<1>1. PICK r : r = Ref(k, id, name)
  OBVIOUS
<1>2. r.type = k /\ r.id = id
  BY <1>1 DEF Ref
<1>3. \A kind : IDsOf({r}, kind) = IF r.type = kind THEN {r.id} ELSE {}
  BY IDsOfOne
<1> QED
  BY <1>1, <1>2, <1>3

\* The references of lists that are put together.
LEMMA IDsOfAll ==
  ASSUME NEW D, NEW s, NEW kind, NEW id
  PROVE  id \in IDsOf(UNION {ToSet(s[i]) : i \in D}, kind)
           <=> \E i \in D : id \in IDsOf(ToSet(s[i]), kind)
<1>1. ASSUME NEW i \in D, id \in IDsOf(ToSet(s[i]), kind)
      PROVE  id \in IDsOf(UNION {ToSet(s[j]) : j \in D}, kind)
  <2>1. PICK r \in ToSet(s[i]) : r.type = kind /\ r.id = id
    BY <1>1 DEF IDsOf
  <2>2. r \in UNION {ToSet(s[j]) : j \in D}
    BY <2>1
  <2> QED
    BY <2>1, <2>2 DEF IDsOf
<1>2. ASSUME id \in IDsOf(UNION {ToSet(s[j]) : j \in D}, kind)
      PROVE  \E i \in D : id \in IDsOf(ToSet(s[i]), kind)
  <2>1. PICK r \in UNION {ToSet(s[j]) : j \in D} : r.type = kind /\ r.id = id
    BY <1>2 DEF IDsOf
  <2>2. PICK i \in D : r \in ToSet(s[i])
    BY <2>1
  <2> QED
    BY <2>1, <2>2 DEF IDsOf
<1> QED
  BY <1>1, <1>2

LEMMA TriggerRefsFacts ==
  ASSUME NEW id, NEW t, IsList(t.actions)
  PROVE  /\ IsList(TriggerRefs(id, t))
         /\ \A kind : IDsOf(ToSet(TriggerRefs(id, t)), kind)
                        = IF kind = "trigger" THEN {id}
                          ELSE IF kind = "action" THEN ToSet(SiblingIDs("action", id, t.actions)) ELSE {}
<1> DEFINE ids == SiblingIDs("action", id, t.actions)
           s == [j \in DOMAIN t.actions |-> Ref("action", ids[j], t.actions[j].name)]
           one == <<Ref("trigger", id, t.name)>>
<1>1. PICK n \in Nat : n = Len(t.actions) /\ DOMAIN t.actions = 1..n
  BY ListDomain
<1>2. IsList(ids) /\ DOMAIN ids = 1..n
  BY <1>1, Siblings
<1>3. s = [j \in 1..n |-> s[j]] /\ \A j \in 1..n : s[j] = Ref("action", ids[j], t.actions[j].name)
  BY <1>1
<1>4. TriggerRefs(id, t) = one \o s
  BY DEF TriggerRefs
<1> HIDE DEF s, ids, one
<1>5. IsList(s) /\ DOMAIN s = 1..n
  BY <1>3, FunctionIsList
<1>6. IsList(one) /\ ToSet(one) = {Ref("trigger", id, t.name)}
  BY SingletonList DEF one
<1>7. IsList(one \o s) /\ ToSet(one \o s) = ToSet(one) \union ToSet(s)
  BY <1>5, <1>6, ConcatList
<1>8. ASSUME NEW kind PROVE IDsOf(ToSet(s), kind) = IF kind = "action" THEN ToSet(ids) ELSE {}
  <2>1. \A j \in 1..n : s[j].type = "action" /\ s[j].id = ids[j]
    BY <1>3 DEF Ref
  <2>2. \A x \in ToSet(s) : \E j \in 1..n : x = s[j]
    BY <1>5 DEF ToSet
  <2>3. \A j \in 1..n : s[j] \in ToSet(s) /\ ids[j] \in ToSet(ids)
    BY <1>2, <1>5 DEF ToSet
  <2>4. \A x \in ToSet(ids) : \E j \in 1..n : x = ids[j]
    BY <1>2 DEF ToSet
  <2> QED
    BY <2>1, <2>2, <2>3, <2>4 DEF IDsOf
<1>9. ASSUME NEW kind
      PROVE  IDsOf(ToSet(one \o s), kind)
               = IF kind = "trigger" THEN {id} ELSE IF kind = "action" THEN ToSet(ids) ELSE {}
  <2>1. IDsOf(ToSet(one), kind) = IF kind = "trigger" THEN {id} ELSE {}
    <3>1. IDsOf({Ref("trigger", id, t.name)}, kind) = IF kind = "trigger" THEN {id} ELSE {}
      BY IDsOfRef, Zenon
    <3> QED
      BY <1>6, <3>1, Zenon
  <2>2. IDsOf(ToSet(one \o s), kind) = IDsOf(ToSet(one), kind) \union IDsOf(ToSet(s), kind)
    BY <1>7, IDsOfUnion
  <2> QED
    BY <1>8, <2>1, <2>2
<1> QED
  BY <1>4, <1>7, <1>9 DEF ids

LEMMA GroupRefsFacts ==
  ASSUME NEW wf, NEW g, IsGroup(g)
  PROVE  /\ IsList(GroupRefs(wf, g))
         /\ IDsOf(ToSet(GroupRefs(wf, g)), "recurfile") = {}
         /\ IDsOf(ToSet(GroupRefs(wf, g)), "group") = {GroupID(wf, g.name)}
         /\ IDsOf(ToSet(GroupRefs(wf, g)), "trigger") = ToSet(TriggerIDs(wf, g))
         /\ IDsOf(ToSet(GroupRefs(wf, g)), "action") = ToSet(ActionIDs(wf, g))
<1> DEFINE n == Len(g.triggers)
           ids == TriggerIDs(wf, g)
           s == [i \in DOMAIN g.triggers |-> TriggerRefs(ids[i], g.triggers[i])]
           one == <<Ref("group", GroupID(wf, g.name), g.name)>>
<1>1. n \in Nat /\ DOMAIN g.triggers = 1..n
  BY ListDomain DEF IsGroup
<1>2. s = [i \in 1..n |-> s[i]] /\ \A i \in 1..n : s[i] = TriggerRefs(ids[i], g.triggers[i])
  BY <1>1
<1>3. GroupRefs(wf, g) = FlattenSeq(s) \o one
  BY DEF GroupRefs
<1> HIDE DEF n, ids, s, one
<1>4. ASSUME NEW i \in 1..n
      PROVE  /\ IsList(s[i])
             /\ \A kind : IDsOf(ToSet(s[i]), kind)
                            = IF kind = "trigger" THEN {ids[i]}
                              ELSE IF kind = "action" THEN ToSet(ActionsOf(wf, g, i)) ELSE {}
  <2>1. IsList(g.triggers[i].actions)
    BY <1>1 DEF IsGroup
  <2>2. /\ IsList(TriggerRefs(ids[i], g.triggers[i]))
        /\ \A kind : IDsOf(ToSet(TriggerRefs(ids[i], g.triggers[i])), kind)
                       = IF kind = "trigger" THEN {ids[i]}
                         ELSE IF kind = "action" THEN ToSet(ActionsOf(wf, g, i)) ELSE {}
    BY <2>1, TriggerRefsFacts DEF ActionsOf, ids
  <2> QED
    BY <1>2, <2>2
<1>5. IsList(FlattenSeq(s)) /\ ToSet(FlattenSeq(s)) = UNION {ToSet(s[i]) : i \in 1..n}
  BY <1>1, <1>2, <1>4, FlattenList
<1>6. IsList(one) /\ ToSet(one) = {Ref("group", GroupID(wf, g.name), g.name)}
  BY SingletonList DEF one
<1>7. /\ IsList(FlattenSeq(s) \o one)
      /\ ToSet(FlattenSeq(s) \o one) = ToSet(FlattenSeq(s)) \union ToSet(one)
  BY <1>5, <1>6, ConcatList
<1>8. ASSUME NEW kind
      PROVE  IDsOf(ToSet(GroupRefs(wf, g)), kind)
               = IDsOf(ToSet(FlattenSeq(s)), kind) \union IDsOf(ToSet(one), kind)
  BY <1>3, <1>7, IDsOfUnion
<1>9. \A kind : IDsOf(ToSet(one), kind) = IF kind = "group" THEN {GroupID(wf, g.name)} ELSE {}
  <2>1. \A kind : IDsOf({Ref("group", GroupID(wf, g.name), g.name)}, kind)
                    = IF kind = "group" THEN {GroupID(wf, g.name)} ELSE {}
    BY IDsOfRef, Zenon
  <2> QED
    BY <1>6, <2>1, Zenon
<1>10. \A kind, x : x \in IDsOf(ToSet(FlattenSeq(s)), kind)
                      <=> \E i \in 1..n : x \in IDsOf(ToSet(s[i]), kind)
  BY <1>5, IDsOfAll
<1>11. \A x : x \in ToSet(ids) <=> \E i \in 1..n : x = ids[i]
  <2>1. DOMAIN ids = 1..n
    BY <1>1, GroupTriggers DEF ids
  <2> QED
    BY <2>1 DEF ToSet
<1>12. \A x : x \in ToSet(ActionIDs(wf, g)) <=> \E i \in 1..n : x \in ToSet(ActionsOf(wf, g, i))
  BY <1>1, GroupActions
<1>13. IDsOf(ToSet(FlattenSeq(s)), "trigger") = ToSet(ids)
  <2>1. \A i \in 1..n : IDsOf(ToSet(s[i]), "trigger") = {ids[i]}
    BY <1>4
  <2>2. \A x : x \in IDsOf(ToSet(FlattenSeq(s)), "trigger") <=> x \in ToSet(ids)
    BY <1>10, <1>11, <2>1
  <2> QED
    BY <2>2
<1>14. IDsOf(ToSet(FlattenSeq(s)), "action") = ToSet(ActionIDs(wf, g))
  <2>1. \A i \in 1..n : IDsOf(ToSet(s[i]), "action") = ToSet(ActionsOf(wf, g, i))
    BY <1>4
  <2>2. \A x : x \in IDsOf(ToSet(FlattenSeq(s)), "action") <=> x \in ToSet(ActionIDs(wf, g))
    BY <1>10, <1>12, <2>1
  <2> QED
    BY <2>2
<1>15. IDsOf(ToSet(FlattenSeq(s)), "group") = {} /\ IDsOf(ToSet(FlattenSeq(s)), "recurfile") = {}
  BY <1>4, <1>10
<1>16. /\ IsList(GroupRefs(wf, g))
       /\ IDsOf(ToSet(GroupRefs(wf, g)), "recurfile") = {}
       /\ IDsOf(ToSet(GroupRefs(wf, g)), "group") = {GroupID(wf, g.name)}
       /\ IDsOf(ToSet(GroupRefs(wf, g)), "trigger") = ToSet(ids)
       /\ IDsOf(ToSet(GroupRefs(wf, g)), "action") = ToSet(ActionIDs(wf, g))
  <2>1. /\ IDsOf(ToSet(one), "recurfile") = {} /\ IDsOf(ToSet(one), "group") = {GroupID(wf, g.name)}
        /\ IDsOf(ToSet(one), "trigger") = {} /\ IDsOf(ToSet(one), "action") = {}
    BY <1>9
  <2> QED
    BY <1>3, <1>7, <1>8, <1>13, <1>14, <1>15, <2>1
<1> QED
  BY <1>16 DEF ids

LEMMA FileRefsFacts ==
  ASSUME NEW path, NEW content, IsContent(content)
  PROVE  LET wf == RecurfileID(path)
             refs == ToSet(FileRefs(path, content))
         IN  /\ IsList(FileRefs(path, content))
             /\ IDsOf(refs, "recurfile") = {wf}
             /\ IDsOf(refs, "group") = ToSet(GroupIDs(wf, content))
             /\ IDsOf(refs, "trigger") = AllTriggers(wf, content)
             /\ IDsOf(refs, "action") = AllActions(wf, content)
<1> DEFINE n == Len(content)
           wf == RecurfileID(path)
           s == [k \in DOMAIN content |-> GroupRefs(wf, content[k])]
           one == <<Ref("recurfile", wf, path)>>
<1>1. n \in Nat /\ DOMAIN content = 1..n /\ \A k \in 1..n : IsGroup(content[k])
  BY ContentGroups, ListDomain
<1>2. s = [k \in 1..n |-> s[k]] /\ \A k \in 1..n : s[k] = GroupRefs(wf, content[k])
  BY <1>1
<1>3. FileRefs(path, content) = FlattenSeq(s) \o one
  BY DEF FileRefs
<1> HIDE DEF n, wf, s, one
<1>4. ASSUME NEW k \in 1..n
      PROVE  /\ IsList(s[k])
             /\ IDsOf(ToSet(s[k]), "recurfile") = {}
             /\ IDsOf(ToSet(s[k]), "group") = {GroupID(wf, content[k].name)}
             /\ IDsOf(ToSet(s[k]), "trigger") = ToSet(TriggerIDs(wf, content[k]))
             /\ IDsOf(ToSet(s[k]), "action") = ToSet(ActionIDs(wf, content[k]))
  BY <1>1, <1>2, GroupRefsFacts
<1>5. IsList(FlattenSeq(s)) /\ ToSet(FlattenSeq(s)) = UNION {ToSet(s[k]) : k \in 1..n}
  BY <1>1, <1>2, <1>4, FlattenList
<1>6. IsList(one) /\ ToSet(one) = {Ref("recurfile", wf, path)}
  BY SingletonList DEF one
<1>7. /\ IsList(FlattenSeq(s) \o one)
      /\ ToSet(FlattenSeq(s) \o one) = ToSet(FlattenSeq(s)) \union ToSet(one)
  BY <1>5, <1>6, ConcatList
<1>8. ASSUME NEW kind
      PROVE  IDsOf(ToSet(FileRefs(path, content)), kind)
               = IDsOf(ToSet(FlattenSeq(s)), kind) \union IDsOf(ToSet(one), kind)
  BY <1>3, <1>7, IDsOfUnion
<1>9. \A kind : IDsOf(ToSet(one), kind) = IF kind = "recurfile" THEN {wf} ELSE {}
  <2>1. \A kind : IDsOf({Ref("recurfile", wf, path)}, kind) = IF kind = "recurfile" THEN {wf} ELSE {}
    BY IDsOfRef, Zenon
  <2> QED
    BY <1>6, <2>1, Zenon
<1>10. \A kind, x : x \in IDsOf(ToSet(FlattenSeq(s)), kind)
                      <=> \E k \in 1..n : x \in IDsOf(ToSet(s[k]), kind)
  BY <1>5, IDsOfAll
<1>11. \A x : x \in ToSet(GroupIDs(wf, content)) <=> \E k \in 1..n : x = GroupID(wf, content[k].name)
  BY <1>1, FileGroups
<1>12. IDsOf(ToSet(FlattenSeq(s)), "group") = ToSet(GroupIDs(wf, content))
  <2>0. \A k \in 1..n : IDsOf(ToSet(s[k]), "group") = {GroupID(wf, content[k].name)}
    BY <1>4
  <2>1. \A x : x \in IDsOf(ToSet(FlattenSeq(s)), "group") <=> x \in ToSet(GroupIDs(wf, content))
    BY <1>10, <1>11, <2>0
  <2> QED
    BY <2>1
<1>13. IDsOf(ToSet(FlattenSeq(s)), "trigger") = AllTriggers(wf, content)
  <2>1. \A x : x \in AllTriggers(wf, content) <=> \E k \in 1..n : x \in ToSet(TriggerIDs(wf, content[k]))
    BY <1>1 DEF AllTriggers
  <2>2. \A x : x \in IDsOf(ToSet(FlattenSeq(s)), "trigger") <=> x \in AllTriggers(wf, content)
    BY <1>4, <1>10, <2>1
  <2> QED
    BY <2>2
<1>14. IDsOf(ToSet(FlattenSeq(s)), "action") = AllActions(wf, content)
  <2>1. \A x : x \in AllActions(wf, content) <=> \E k \in 1..n : x \in ToSet(ActionIDs(wf, content[k]))
    BY <1>1 DEF AllActions
  <2>2. \A x : x \in IDsOf(ToSet(FlattenSeq(s)), "action") <=> x \in AllActions(wf, content)
    BY <1>4, <1>10, <2>1
  <2> QED
    BY <2>2
<1>15. IDsOf(ToSet(FlattenSeq(s)), "recurfile") = {}
  BY <1>4, <1>10
<1>16. /\ IsList(FileRefs(path, content))
       /\ IDsOf(ToSet(FileRefs(path, content)), "recurfile") = {wf}
       /\ IDsOf(ToSet(FileRefs(path, content)), "group") = ToSet(GroupIDs(wf, content))
       /\ IDsOf(ToSet(FileRefs(path, content)), "trigger") = AllTriggers(wf, content)
       /\ IDsOf(ToSet(FileRefs(path, content)), "action") = AllActions(wf, content)
  <2>1. /\ IDsOf(ToSet(one), "recurfile") = {wf} /\ IDsOf(ToSet(one), "group") = {}
        /\ IDsOf(ToSet(one), "trigger") = {} /\ IDsOf(ToSet(one), "action") = {}
    BY <1>9
  <2> QED
    BY <1>3, <1>7, <1>8, <1>12, <1>13, <1>14, <1>15, <2>1
<1> QED
  BY <1>16 DEF wf

LEMMA MapsHold == MapsInv => MapsHoldRegistered
<1> SUFFICES ASSUME MapsInv, ~tainted
             PROVE  /\ DOMAIN recurfiles = IDsOf(RegisteredRefs, "recurfile")
                    /\ DOMAIN groups = IDsOf(RegisteredRefs, "group")
                    /\ DOMAIN triggers = IDsOf(RegisteredRefs, "trigger")
                    /\ DOMAIN actions = IDsOf(RegisteredRefs, "action")
  BY DEF MapsHoldRegistered, IDsOf
<1>1. Holds(Maps, registered)
  BY DEF MapsInv
<1>2. \A p \in DOMAIN registered : IsContent(registered[p])
  BY <1>1, RegistryAssumption DEF Holds, RegistryAssumption
<1> DEFINE s == [p \in DOMAIN registered |-> FileRefs(p, registered[p])]
<1>3. \A kind, x : x \in IDsOf(RegisteredRefs, kind)
                     <=> \E p \in DOMAIN registered : x \in IDsOf(ToSet(FileRefs(p, registered[p])), kind)
  <2>1. \A p \in DOMAIN registered : s[p] = FileRefs(p, registered[p])
    OBVIOUS
  <2> HIDE DEF s
  <2>2. RegisteredRefs = UNION {ToSet(s[p]) : p \in DOMAIN registered}
    BY <2>1 DEF RegisteredRefs
  <2> QED
    BY <2>1, <2>2, IDsOfAll
<1>4. DOMAIN recurfiles = IDsOf(RegisteredRefs, "recurfile")
  BY <1>1, <1>2, <1>3, FileRefsFacts DEF Holds, Maps
<1>5. DOMAIN groups = IDsOf(RegisteredRefs, "group")
  <2>1. \A p \in DOMAIN registered :
          IDsOf(ToSet(FileRefs(p, registered[p])), "group") = ToSet(GroupIDs(RecurfileID(p), registered[p]))
    BY <1>2, FileRefsFacts
  <2>2. \A x : x \in DOMAIN groups <=> \E p \in DOMAIN registered : x \in ToSet(GroupIDs(RecurfileID(p), registered[p]))
    BY <1>1 DEF Holds, Maps
  <2>3. \A x : x \in DOMAIN groups <=> x \in IDsOf(RegisteredRefs, "group")
    BY <1>3, <2>1, <2>2
  <2> QED
    BY <2>3
<1>6. DOMAIN triggers = IDsOf(RegisteredRefs, "trigger")
  <2>1. \A p \in DOMAIN registered :
          IDsOf(ToSet(FileRefs(p, registered[p])), "trigger") = AllTriggers(RecurfileID(p), registered[p])
    BY <1>2, FileRefsFacts
  <2>2. \A x : x \in DOMAIN triggers <=> \E p \in DOMAIN registered : x \in AllTriggers(RecurfileID(p), registered[p])
    BY <1>1 DEF Holds, Maps
  <2>3. \A x : x \in DOMAIN triggers <=> x \in IDsOf(RegisteredRefs, "trigger")
    BY <1>3, <2>1, <2>2
  <2> QED
    BY <2>3
<1>7. DOMAIN actions = IDsOf(RegisteredRefs, "action")
  <2>1. \A p \in DOMAIN registered :
          IDsOf(ToSet(FileRefs(p, registered[p])), "action") = AllActions(RecurfileID(p), registered[p])
    BY <1>2, FileRefsFacts
  <2>2. \A x : x \in DOMAIN actions <=> \E p \in DOMAIN registered : x \in AllActions(RecurfileID(p), registered[p])
    BY <1>1 DEF Holds, Maps
  <2>3. \A x : x \in DOMAIN actions <=> x \in IDsOf(RegisteredRefs, "action")
    BY <1>3, <2>1, <2>2
  <2> QED
    BY <2>3
<1> QED
  BY <1>4, <1>5, <1>6, <1>7

\* MapsHoldRegistered holds for every registry: after any registrations,
\* reloads under other names of a file and removals, the four maps hold the
\* entities of the registered files and no others (registry.go:107, :265).
THEOREM MapsAlwaysHold == Spec => []MapsHoldRegistered
<1> QED
  BY MapsInit, MapsStep, MapsHold, PTL DEF Spec

-----------------------------------------------------------------------------
(* What the index finds. *)

Live == DOMAIN entries \ deleted
LiveRefs == {entries[i] : i \in Live}

\* The ID of an entry that was not removed leads to it.
LiveFound == \A i \in Live : entries[i].id \in DOMAIN byID /\ byID[entries[i].id] = i

LEMMA EntriesFinite ==
  ASSUME SoundInv
  PROVE  /\ Len(entries) \in Nat /\ DOMAIN entries = 1..Len(entries)
         /\ IsFiniteSet(DOMAIN entries) /\ IsFiniteSet(deleted)
<1>1. Len(entries) \in Nat /\ DOMAIN entries = 1..Len(entries)
  BY ListDomain DEF SoundInv
<1>2. IsFiniteSet(DOMAIN entries)
  BY <1>1, FS_Interval
<1> QED
  BY <1>1, <1>2, FS_Subset DEF SoundInv, IndexSound

LEMMA AddLive ==
  ASSUME SoundInv, LiveFound, NEW ref, \A r \in LiveRefs : r.id # ref.id, Add(ref)
  PROVE  LiveFound' /\ \A r : r \in LiveRefs' <=> r \in LiveRefs \/ r = ref
<1>1. PICK n \in Nat : n = Len(entries) /\ DOMAIN entries = 1..n
  BY EntriesFinite
<1>2. /\ DOMAIN entries' = 1..(n + 1) /\ entries'[n + 1] = ref
      /\ \A i \in 1..n : entries'[i] = entries[i]
  <2>1. entries \in Seq(ToSet(entries) \union {ref}) /\ ref \in ToSet(entries) \union {ref}
    BY SeqMonotonic DEF SoundInv, IsList
  <2>2. entries' = Append(entries, ref)
    BY DEF Add
  <2> QED
    BY <1>1, <2>1, <2>2
<1>3. deleted' = deleted /\ deleted \subseteq 1..n
  BY <1>1 DEF Add, SoundInv, IndexSound
<1>4. Live' = Live \union {n + 1} /\ n + 1 \notin Live /\ Live \subseteq 1..n
  BY <1>1, <1>2, <1>3 DEF Live
<1>5. /\ DOMAIN byID' = DOMAIN byID \union {ref.id}
      /\ byID'[ref.id] = n + 1
      /\ \A id \in DOMAIN byID : id # ref.id => byID'[id] = byID[id]
  BY <1>1 DEF Add
<1>6. \A i \in Live : entries'[i] = entries[i] /\ entries[i].id # ref.id
  BY <1>2, <1>4 DEF LiveRefs
<1>7. LiveFound'
  <2> SUFFICES ASSUME NEW i \in Live' PROVE entries'[i].id \in DOMAIN byID' /\ byID'[entries'[i].id] = i
    BY DEF LiveFound
  <2>1. CASE i = n + 1
    BY <1>2, <1>5, <2>1
  <2>2. CASE i \in Live
    BY <1>5, <1>6, <2>2 DEF LiveFound
  <2> QED
    BY <1>4, <2>1, <2>2
<1>8. ASSUME NEW r PROVE r \in LiveRefs' <=> r \in LiveRefs \/ r = ref
  <2>1. r \in LiveRefs' <=> \E i \in Live' : r = entries'[i]
    BY DEF LiveRefs
  <2>2. r \in LiveRefs <=> \E i \in Live : r = entries[i]
    BY DEF LiveRefs
  <2> QED
    BY <1>2, <1>4, <1>6, <2>1, <2>2
<1> QED
  BY <1>7, <1>8

\* The k-th of the positions that are kept.
At(kept, k) == CHOOSE i \in kept : Cardinality({j \in kept : j <= i}) = k

\* Every position that is kept has a place of its own.
LEMMA Ranks ==
  ASSUME NEW n \in Nat, NEW kept \in SUBSET (1..n)
  PROVE  /\ Cardinality(kept) \in Nat
         /\ \A k \in 1..Cardinality(kept) : At(kept, k) \in kept
         /\ \A k, l \in 1..Cardinality(kept) : At(kept, k) = At(kept, l) => k = l
         /\ \A i \in kept : \E k \in 1..Cardinality(kept) : At(kept, k) = i
<1> DEFINE upto(i) == {j \in kept : j <= i}
           rank == [i \in kept |-> Cardinality(upto(i))]
<1>1. IsFiniteSet(kept) /\ Cardinality(kept) \in Nat
  <2>1. IsFiniteSet(1..n)
    BY FS_Interval
  <2> QED
    BY <2>1, FS_Subset, FS_CardinalityType
<1>2. PICK m \in Nat : m = Cardinality(kept)
  BY <1>1
<1>3. \A i \in kept : IsFiniteSet(upto(i)) /\ Cardinality(upto(i)) \in Nat /\ Cardinality(upto(i)) <= m
  <2>1. \A i \in kept : upto(i) \in SUBSET kept
    OBVIOUS
  <2> HIDE DEF upto
  <2> QED
    BY <1>1, <1>2, <2>1, FS_Subset, FS_CardinalityType
<1>4. \A i \in kept : Cardinality(upto(i)) # 0
  <2>1. \A i \in kept : upto(i) # {}
    OBVIOUS
  <2> HIDE DEF upto
  <2> QED
    BY <1>3, <2>1, FS_EmptySet
<1>5. ASSUME NEW i \in kept, NEW j \in kept, i < j PROVE Cardinality(upto(i)) # Cardinality(upto(j))
  <2>0. kept \subseteq Nat
    OBVIOUS
  <2>1. upto(i) \in SUBSET upto(j) /\ j \in upto(j) /\ j \notin upto(i)
    <3>1. ~(j <= i) /\ j <= j /\ \A l \in kept : l <= i => l <= j
      BY <1>5, <2>0
    <3> QED
      BY <3>1
  <2> HIDE DEF upto
  <2> QED
    BY <1>3, <2>1, FS_Subset
<1>6. \A i, j \in kept : Cardinality(upto(i)) = Cardinality(upto(j)) => i = j
  <2> SUFFICES ASSUME NEW i \in kept, NEW j \in kept, Cardinality(upto(i)) = Cardinality(upto(j)) PROVE i = j
    OBVIOUS
  <2>1. ~(i < j) /\ ~(j < i)
    BY <1>5
  <2> QED
    BY <2>1
<1> HIDE DEF upto
<1>7. rank \in Injection(kept, 1..m)
  <2>1. rank \in [kept -> 1..m]
    BY <1>3, <1>4
  <2>2. IsInjective(rank)
    BY <1>6 DEF IsInjective
  <2> QED
    BY <2>1, <2>2 DEF Injection
<1>8. rank \in Surjection(kept, 1..m)
  <2>1. IsFiniteSet(1..m) /\ Cardinality(1..m) = m
    BY FS_Interval
  <2> HIDE DEF rank
  <2> QED
    BY <1>2, <1>7, <2>1, FS_Injection
<1>9. \A k \in 1..m : At(kept, k) \in kept /\ Cardinality(upto(At(kept, k))) = k
  <2>1. \A k \in 1..m : \E i \in kept : Cardinality(upto(i)) = k
    BY <1>8 DEF Surjection
  <2> QED
    BY <2>1 DEF At, upto
<1>10. \A i \in kept : Cardinality(upto(i)) \in 1..m /\ At(kept, Cardinality(upto(i))) = i
  <2>1. \A i \in kept : Cardinality(upto(i)) \in 1..m
    BY <1>3, <1>4
  <2> QED
    BY <1>6, <1>9, <2>1
<1> QED
  BY <1>2, <1>9, <1>10

LEMMA FlushLive ==
  ASSUME SoundInv, NEW removed \in SUBSET DOMAIN entries,
         \A i \in DOMAIN entries \ removed : entries[i].id \in DOMAIN byID /\ byID[entries[i].id] = i,
         Flush(removed)
  PROVE  /\ LiveFound'
         /\ \A r : r \in LiveRefs' <=> \E i \in DOMAIN entries \ removed : r = entries[i]
<1> DEFINE kept == DOMAIN entries \ removed
           at(k) == At(kept, k)
           new == Compacted(removed)
<1>1. PICK m \in Nat : m = Cardinality(kept)
  <2>1. kept \in SUBSET (1..Len(entries)) /\ Len(entries) \in Nat
    BY EntriesFinite
  <2> HIDE DEF kept
  <2> QED
    BY <2>1, Ranks
<1>2. /\ \A k \in 1..m : at(k) \in kept
      /\ \A k, l \in 1..m : at(k) = at(l) => k = l
      /\ \A i \in kept : \E k \in 1..m : at(k) = i
  <2>1. kept \in SUBSET (1..Len(entries)) /\ Len(entries) \in Nat
    BY EntriesFinite
  <2> HIDE DEF kept
  <2> QED
    BY <1>1, <2>1, Ranks
<1>3. DOMAIN new = 1..m /\ \A k \in 1..m : new[k] = entries[at(k)]
  BY <1>1 DEF Compacted, At
<1>4. /\ entries' = new
      /\ byID' = [id \in {new[k].id : k \in DOMAIN new} |->
                    LastOf({k \in DOMAIN new : new[k].id = id})]
      /\ deleted' = {}
  BY DEF Flush
<1> HIDE DEF at, new
<1>5. Live' = 1..m
  BY <1>3, <1>4 DEF Live
<1>6. \A k, l \in 1..m : new[k].id = new[l].id => k = l
  <2> SUFFICES ASSUME NEW k \in 1..m, NEW l \in 1..m, new[k].id = new[l].id PROVE k = l
    OBVIOUS
  <2>1. at(k) = byID[entries[at(k)].id] /\ at(l) = byID[entries[at(l)].id]
    BY <1>2
  <2> QED
    BY <1>2, <1>3, <2>1
<1>7. ASSUME NEW k \in 1..m PROVE new[k].id \in DOMAIN byID' /\ byID'[new[k].id] = k
  <2>1. {l \in DOMAIN new : new[l].id = new[k].id} = {k}
    BY <1>3, <1>6
  <2>2. LastOf({k}) = k
    BY DEF LastOf
  <2> QED
    BY <1>3, <1>4, <2>1, <2>2
<1>8. LiveFound'
  BY <1>4, <1>5, <1>7 DEF LiveFound
<1>9. ASSUME NEW r PROVE r \in LiveRefs' <=> \E i \in kept : r = entries[i]
  <2>1. r \in LiveRefs' <=> \E k \in 1..m : r = new[k]
    BY <1>4, <1>5 DEF LiveRefs
  <2> QED
    BY <1>2, <1>3, <2>1
<1> QED
  BY <1>8, <1>9

LEMMA RemoveLive ==
  ASSUME SoundInv, LiveFound, NEW id, RemoveID(id)
  PROVE  LiveFound' /\ \A r : r \in LiveRefs' <=> r \in LiveRefs /\ r.id # id
<1>1. CASE id \notin DOMAIN byID
  <2>1. UNCHANGED index
    BY <1>1 DEF RemoveID
  <2>2. \A i \in Live : entries[i].id # id
    BY <1>1 DEF LiveFound
  <2>3. LiveFound' /\ LiveRefs' = LiveRefs
    BY <2>1 DEF LiveFound, LiveRefs, Live, index
  <2> QED
    BY <2>2, <2>3 DEF LiveRefs
<1>2. CASE id \in DOMAIN byID
  <2> DEFINE removed == deleted \union {byID[id]}
             kept == DOMAIN entries \ removed
  <2>1. /\ removed \in SUBSET DOMAIN entries /\ entries[byID[id]].id = id
        /\ kept = Live \ {byID[id]}
    BY <1>2 DEF SoundInv, IndexSound, Live
  <2>2. \A i \in Live : i # byID[id] <=> entries[i].id # id
    BY <2>1 DEF LiveFound
  <2>3. \A r : (r \in LiveRefs /\ r.id # id) <=> \E i \in kept : r = entries[i]
    BY <2>1, <2>2 DEF LiveRefs
  <2>4. \A i \in kept : entries[i].id \in DOMAIN byID /\ byID[entries[i].id] = i
    BY <2>1 DEF LiveFound
  <2>5. CASE Flush(removed)
    <3>1. LiveFound' /\ \A r : r \in LiveRefs' <=> \E i \in kept : r = entries[i]
      <4> HIDE DEF removed
      <4> QED
        BY <2>1, <2>4, <2>5, FlushLive
    <3> QED
      BY <2>3, <3>1
  <2>6. CASE deleted' = removed /\ UNCHANGED <<entries, byID, byName>>
    <3>1. Live' = kept
      BY <2>6 DEF Live
    <3>2. LiveFound' /\ \A r : r \in LiveRefs' <=> \E i \in kept : r = entries[i]
      <4> HIDE DEF kept
      <4> QED
        BY <2>4, <2>6, <3>1 DEF LiveFound, LiveRefs
    <3> QED
      BY <2>3, <3>2
  <2> QED
    BY <1>2, <2>5, <2>6 DEF RemoveID
<1> QED
  BY <1>1, <1>2

\* Every entry that was not removed is one of a set of references, and each of those
\* is there once: so an identifier finds those that it means, each once.
LEMMA LookupMeans ==
  ASSUME SoundInv, LiveFound, \A r \in LiveRefs : r.name \in Names, NEW identifier
  PROVE  LET found == Lookup(identifier)
             meant == Meant(LiveRefs, identifier)
         IN  /\ {entries[i] : i \in found} = meant
             /\ Cardinality(found) = Cardinality(meant)
<1> DEFINE found == Lookup(identifier)
           ids == {i \in Live : entries[i].id = identifier}
           names == {i \in Live : entries[i].name = identifier}
           prefixes == {i \in Live : identifier \in IDPrefixes /\ HasPrefix(entries[i].id, identifier)}
           refsOf(S) == {entries[i] : i \in S}
<1>0. \A id \in DOMAIN byID : byID[id] \in DOMAIN entries /\ entries[byID[id]].id = id
  BY DEF SoundInv, IndexSound
<1>1. MatchID(identifier) = ids
  <2>1. \A i : i \in MatchID(identifier) <=> i \in ids
    BY <1>0 DEF MatchID, LiveFound, Live
  <2> QED
    BY <2>1
<1>2. MatchName(identifier) = names
  <2>1. \A i \in Live : entries[i].name \in Names
    BY DEF LiveRefs
  <2>2. \A i : i \in MatchName(identifier) <=> i \in names
    BY <2>1 DEF MatchName, SoundInv, IndexSound, Live
  <2> QED
    BY <2>2
<1>3. MatchPrefix(identifier) = prefixes
  <2>1. \A i : i \in MatchPrefix(identifier) <=> i \in prefixes
    BY <1>0 DEF MatchPrefix, LiveFound, Live
  <2> QED
    BY <2>1
<1>4. found = IF ids # {} THEN ids ELSE IF names # {} THEN names ELSE prefixes
  BY <1>1, <1>2, <1>3 DEF Lookup
<1>5. /\ {r \in LiveRefs : r.id = identifier} = refsOf(ids)
      /\ {r \in LiveRefs : r.name = identifier} = refsOf(names)
      /\ {r \in LiveRefs : identifier \in IDPrefixes /\ HasPrefix(r.id, identifier)} = refsOf(prefixes)
  BY DEF LiveRefs
<1>6. (ids = {} <=> refsOf(ids) = {}) /\ (names = {} <=> refsOf(names) = {})
  OBVIOUS
<1>7. Meant(LiveRefs, identifier) = IF ids # {} THEN refsOf(ids)
                                    ELSE IF names # {} THEN refsOf(names) ELSE refsOf(prefixes)
  <2> HIDE DEF ids, names, prefixes, refsOf
  <2> QED
    BY <1>5, <1>6 DEF Meant
<1>8. found \subseteq Live
  <2>1. ids \subseteq Live /\ names \subseteq Live /\ prefixes \subseteq Live
    OBVIOUS
  <2> HIDE DEF ids, names, prefixes
  <2> QED
    BY <1>4, <2>1
<1>9. refsOf(found) = Meant(LiveRefs, identifier)
  <2> HIDE DEF found, ids, names, prefixes, refsOf
  <2> QED
    BY <1>4, <1>7
<1> HIDE DEF found
<1>10. Cardinality(found) = Cardinality(refsOf(found))
  <2> DEFINE f == [i \in found |-> entries[i]]
  <2>1. f \in Injection(found, refsOf(found))
    <3>1. f \in [found -> refsOf(found)]
      OBVIOUS
    <3>2. \A i, j \in found : entries[i] = entries[j] => i = j
      BY <1>8 DEF LiveFound
    <3> QED
      BY <3>1, <3>2 DEF Injection, IsInjective
  <2>2. f \in Surjection(found, refsOf(found))
    BY DEF Surjection
  <2>3. ExistsBijection(found, refsOf(found))
    BY <2>1, <2>2 DEF Bijection, ExistsBijection
  <2>4. IsFiniteSet(found)
    BY <1>8, EntriesFinite, FS_Subset DEF Live
  <2> HIDE DEF refsOf
  <2> QED
    BY <2>3, <2>4, FS_Bijection
<1>11. refsOf(found) = Meant(LiveRefs, identifier) /\ Cardinality(found) = Cardinality(Meant(LiveRefs, identifier))
  BY <1>9, <1>10, Zenon
<1> QED
  BY <1>11 DEF found

-----------------------------------------------------------------------------
(* A recurfile has no two references of one ID. *)

Kinds == {"recurfile", "group", "trigger", "action"}

\* A list of references whose IDs differ and say what they are IDs of.
Proper(s) ==
  /\ IsList(s) /\ Unique(s)
  /\ \A x \in ToSet(s) : x.type \in Kinds /\ x.id[1] = x.type /\ x.name \in Names
  /\ \A x, y \in ToSet(s) : x.id = y.id => x = y

TriggerOf(x) == IF x.type = "trigger" THEN x.id ELSE Parent(x.id)
GroupOf(x) == IF x.type = "group" THEN x.id ELSE Parent(TriggerOf(x))

LEMMA RefFields ==
  ASSUME NEW kind, NEW id, NEW name
  PROVE  /\ Ref(kind, id, name).type = kind
         /\ Ref(kind, id, name).id = id
         /\ Ref(kind, id, name).name = name
  BY DEF Ref

LEMMA TriggerRefsProper ==
  ASSUME NEW id, id[1] = "trigger", NEW t, IsList(t.actions), t.name \in Names,
         \A j \in DOMAIN t.actions : t.actions[j].name \in Names
  PROVE  /\ Proper(TriggerRefs(id, t))
         /\ \A x \in ToSet(TriggerRefs(id, t)) : x.type \in {"trigger", "action"} /\ TriggerOf(x) = id
<1> DEFINE ids == SiblingIDs("action", id, t.actions)
           s == [j \in DOMAIN t.actions |-> Ref("action", ids[j], t.actions[j].name)]
           first == Ref("trigger", id, t.name)
           one == <<first>>
<1>1. PICK n \in Nat : n = Len(t.actions) /\ DOMAIN t.actions = 1..n
  BY ListDomain
<1>2. /\ IsList(ids) /\ DOMAIN ids = 1..n /\ Unique(ids)
      /\ \A x \in ToSet(ids) : x[1] = "action" /\ Parent(x) = id
  BY <1>1, Siblings
<1>3. s = [j \in 1..n |-> s[j]] /\ \A j \in 1..n : s[j] = Ref("action", ids[j], t.actions[j].name)
  BY <1>1
<1>4. TriggerRefs(id, t) = one \o s
  BY DEF TriggerRefs
<1>5. first.type = "trigger" /\ first.id = id /\ first.name \in Names
  BY RefFields
<1> HIDE DEF s, ids, first
<1>6. IsList(s) /\ DOMAIN s = 1..n
  BY <1>3, FunctionIsList
<1>7. \A j \in 1..n : s[j].type = "action" /\ s[j].id = ids[j] /\ s[j].name \in Names
  <2>1. \A j \in 1..n : /\ s[j].type = "action" /\ s[j].id = ids[j]
                         /\ s[j].name = t.actions[j].name
    BY <1>3, RefFields
  <2> QED
    BY <1>1, <2>1
<1>8. \A j \in 1..n : s[j].id[1] = "action" /\ Parent(s[j].id) = id
  <2>1. \A j \in 1..n : ids[j] \in ToSet(ids)
    BY <1>2 DEF ToSet
  <2> QED
    BY <1>2, <1>7, <2>1
<1>9. \A x : x \in ToSet(s) <=> \E j \in 1..n : x = s[j]
  BY <1>6 DEF ToSet
<1>10. \A i, j \in 1..n : s[i].id = s[j].id => i = j
  BY <1>2, <1>7 DEF Unique
<1>11. IsList(one) /\ ToSet(one) = {first} /\ Unique(one)
  BY SingletonList
<1> HIDE DEF one
<1>12. Unique(s)
  BY <1>6, <1>10 DEF Unique
<1>13. ToSet(one) \intersect ToSet(s) = {}
  BY <1>5, <1>7, <1>9, <1>11
<1>14. IsList(one \o s) /\ Unique(one \o s) /\ ToSet(one \o s) = ToSet(one) \union ToSet(s)
  BY <1>6, <1>11, <1>12, <1>13, ConcatList
<1>15. \A x : x \in ToSet(one \o s) <=> x = first \/ \E j \in 1..n : x = s[j]
  BY <1>9, <1>11, <1>14
<1>16. \A x \in ToSet(one \o s) : /\ x.id[1] = x.type /\ x.type \in {"trigger", "action"}
                                  /\ x.name \in Names /\ TriggerOf(x) = id
  BY <1>5, <1>7, <1>8, <1>15 DEF TriggerOf
<1>17. \A x, y \in ToSet(one \o s) : x.id = y.id => x = y
  BY <1>5, <1>7, <1>8, <1>10, <1>15
<1> QED
  BY <1>4, <1>14, <1>16, <1>17 DEF Proper, Kinds

LEMMA GroupRefsProper ==
  ASSUME NEW wf, NEW g, IsGroup(g)
  PROVE  /\ Proper(GroupRefs(wf, g))
         /\ \A x \in ToSet(GroupRefs(wf, g)) :
              x.type \in {"trigger", "action", "group"} /\ GroupOf(x) = GroupID(wf, g.name)
<1> DEFINE n == Len(g.triggers)
           ids == TriggerIDs(wf, g)
           gid == GroupID(wf, g.name)
           s == [i \in DOMAIN g.triggers |-> TriggerRefs(ids[i], g.triggers[i])]
           last == Ref("group", gid, g.name)
           one == <<last>>
<1>1. n \in Nat /\ DOMAIN g.triggers = 1..n
  BY ListDomain DEF IsGroup
<1>2. s = [i \in 1..n |-> s[i]] /\ \A i \in 1..n : s[i] = TriggerRefs(ids[i], g.triggers[i])
  BY <1>1
<1>3. GroupRefs(wf, g) = FlattenSeq(s) \o one
  BY DEF GroupRefs
<1>4. last.type = "group" /\ last.id = gid /\ gid[1] = "group" /\ last.name \in Names
  BY RefFields DEF GroupID, IsGroup
<1>5. /\ DOMAIN ids = 1..n /\ \A i, j \in 1..n : ids[i] = ids[j] => i = j
      /\ \A i \in 1..n : ids[i][1] = "trigger" /\ Parent(ids[i]) = gid
  BY <1>1, GroupTriggers DEF Unique, ToSet
<1> HIDE DEF n, ids, gid, s, last
<1>6. ASSUME NEW i \in 1..n
      PROVE  /\ Proper(s[i])
             /\ \A x \in ToSet(s[i]) : x.type \in {"trigger", "action"} /\ TriggerOf(x) = ids[i]
  <2>1. /\ IsList(g.triggers[i].actions) /\ g.triggers[i].name \in Names
        /\ \A j \in DOMAIN g.triggers[i].actions : g.triggers[i].actions[j].name \in Names
    BY <1>1 DEF IsGroup
  <2>2. /\ Proper(TriggerRefs(ids[i], g.triggers[i]))
        /\ \A x \in ToSet(TriggerRefs(ids[i], g.triggers[i])) :
             x.type \in {"trigger", "action"} /\ TriggerOf(x) = ids[i]
    BY <1>5, <2>1, TriggerRefsProper
  <2> QED
    BY <1>2, <2>2
<1>7. \A i, j \in 1..n : i # j => ToSet(s[i]) \intersect ToSet(s[j]) = {}
  BY <1>5, <1>6
<1>8. \A i \in 1..n : IsList(s[i]) /\ Unique(s[i])
  BY <1>6 DEF Proper
<1>9. /\ IsList(FlattenSeq(s)) /\ Unique(FlattenSeq(s))
      /\ ToSet(FlattenSeq(s)) = UNION {ToSet(s[i]) : i \in 1..n}
  BY <1>1, <1>2, <1>7, <1>8, FlattenList
<1>10. IsList(one) /\ ToSet(one) = {last} /\ Unique(one)
  BY SingletonList
<1> HIDE DEF one
<1>11. ToSet(FlattenSeq(s)) \intersect ToSet(one) = {}
  BY <1>4, <1>6, <1>9, <1>10
<1>12. /\ IsList(FlattenSeq(s) \o one) /\ Unique(FlattenSeq(s) \o one)
       /\ ToSet(FlattenSeq(s) \o one) = ToSet(FlattenSeq(s)) \union ToSet(one)
  BY <1>9, <1>10, <1>11, ConcatList
<1>13. \A x : x \in ToSet(FlattenSeq(s) \o one) <=> x = last \/ \E i \in 1..n : x \in ToSet(s[i])
  BY <1>9, <1>10, <1>12
<1>14. ASSUME NEW x \in ToSet(FlattenSeq(s) \o one)
       PROVE  /\ x.id[1] = x.type /\ x.type \in {"trigger", "action", "group"}
              /\ x.name \in Names /\ GroupOf(x) = gid
  <2>1. CASE x = last
    BY <1>4, <2>1 DEF GroupOf
  <2>2. ASSUME NEW i \in 1..n, x \in ToSet(s[i])
        PROVE  /\ x.id[1] = x.type /\ x.type \in {"trigger", "action", "group"}
              /\ x.name \in Names /\ GroupOf(x) = gid
    BY <1>5, <1>6, <2>2 DEF GroupOf, Proper
  <2> QED
    BY <1>13, <2>1, <2>2
<1>15. ASSUME NEW x \in ToSet(FlattenSeq(s) \o one), NEW y \in ToSet(FlattenSeq(s) \o one), x.id = y.id
       PROVE  x = y
  <2>1. x.type = y.type
    BY <1>14, <1>15
  <2>2. CASE x = last \/ y = last
    BY <1>4, <1>6, <1>13, <2>1, <2>2
  <2>3. ASSUME NEW i \in 1..n, NEW j \in 1..n, x \in ToSet(s[i]), y \in ToSet(s[j]) PROVE x = y
    <3>1. TriggerOf(x) = TriggerOf(y)
      BY <1>15, <2>1 DEF TriggerOf
    <3>2. i = j
      BY <1>5, <1>6, <2>3, <3>1
    <3> QED
      BY <1>6, <1>15, <2>3, <3>2 DEF Proper
  <2> QED
    BY <1>13, <2>2, <2>3
<1> QED
  BY <1>3, <1>12, <1>14, <1>15 DEF Proper, Kinds, gid

LEMMA FileRefsProper ==
  ASSUME NEW path \in Names, NEW content, IsContent(content), ~TwoGroupsOfOneName(content)
  PROVE  Proper(FileRefs(path, content))
<1> DEFINE n == Len(content)
           wf == RecurfileID(path)
           s == [k \in DOMAIN content |-> GroupRefs(wf, content[k])]
           last == Ref("recurfile", wf, path)
           one == <<last>>
<1>1. n \in Nat /\ DOMAIN content = 1..n /\ \A k \in 1..n : IsGroup(content[k])
  BY ContentGroups, ListDomain
<1>2. s = [k \in 1..n |-> s[k]] /\ \A k \in 1..n : s[k] = GroupRefs(wf, content[k])
  BY <1>1
<1>3. FileRefs(path, content) = FlattenSeq(s) \o one
  BY DEF FileRefs
<1>4. last.type = "recurfile" /\ last.id = wf /\ wf[1] = "recurfile" /\ last.name \in Names
  BY RefFields, RecurfileIDs
<1>5. \A k, l \in 1..n : GroupID(wf, content[k].name) = GroupID(wf, content[l].name) => k = l
  <2>1. \A name : GroupID(wf, name)[3] = name
    BY DEF GroupID
  <2> QED
    BY <1>1, <2>1 DEF TwoGroupsOfOneName
<1> HIDE DEF n, wf, s, last
<1>6. ASSUME NEW k \in 1..n
      PROVE  /\ Proper(s[k])
             /\ \A x \in ToSet(s[k]) : /\ x.type \in {"trigger", "action", "group"}
                                       /\ GroupOf(x) = GroupID(wf, content[k].name)
  BY <1>1, <1>2, GroupRefsProper
<1>7. \A k, l \in 1..n : k # l => ToSet(s[k]) \intersect ToSet(s[l]) = {}
  BY <1>5, <1>6
<1>8. \A k \in 1..n : IsList(s[k]) /\ Unique(s[k])
  BY <1>6 DEF Proper
<1>9. /\ IsList(FlattenSeq(s)) /\ Unique(FlattenSeq(s))
      /\ ToSet(FlattenSeq(s)) = UNION {ToSet(s[k]) : k \in 1..n}
  BY <1>1, <1>2, <1>7, <1>8, FlattenList
<1>10. IsList(one) /\ ToSet(one) = {last} /\ Unique(one)
  BY SingletonList
<1> HIDE DEF one
<1>11. ToSet(FlattenSeq(s)) \intersect ToSet(one) = {}
  BY <1>4, <1>6, <1>9, <1>10
<1>12. /\ IsList(FlattenSeq(s) \o one) /\ Unique(FlattenSeq(s) \o one)
       /\ ToSet(FlattenSeq(s) \o one) = ToSet(FlattenSeq(s)) \union ToSet(one)
  BY <1>9, <1>10, <1>11, ConcatList
<1>13. \A x : x \in ToSet(FlattenSeq(s) \o one) <=> x = last \/ \E k \in 1..n : x \in ToSet(s[k])
  BY <1>9, <1>10, <1>12
<1>14. \A x \in ToSet(FlattenSeq(s) \o one) : x.type \in Kinds /\ x.id[1] = x.type /\ x.name \in Names
  BY <1>4, <1>6, <1>13 DEF Proper, Kinds
<1>15. ASSUME NEW x \in ToSet(FlattenSeq(s) \o one), NEW y \in ToSet(FlattenSeq(s) \o one), x.id = y.id
       PROVE  x = y
  <2>1. x.type = y.type
    BY <1>14, <1>15
  <2>2. CASE x = last \/ y = last
    BY <1>4, <1>6, <1>13, <2>1, <2>2
  <2>3. ASSUME NEW k \in 1..n, NEW l \in 1..n, x \in ToSet(s[k]), y \in ToSet(s[l]) PROVE x = y
    <3>1. GroupOf(x) = GroupOf(y)
      BY <1>15, <2>1 DEF GroupOf, TriggerOf
    <3>2. k = l
      BY <1>5, <1>6, <2>3, <3>1
    <3> QED
      BY <1>6, <1>15, <2>3, <3>2 DEF Proper
  <2> QED
    BY <1>13, <2>2, <2>3
<1> QED
  BY <1>3, <1>12, <1>14, <1>15 DEF Proper

\* The IDs of a recurfile's entities.
EntityIDs(path, content) ==
  {RecurfileID(path)} \union ToSet(GroupIDs(RecurfileID(path), content))
    \union AllTriggers(RecurfileID(path), content) \union AllActions(RecurfileID(path), content)

LEMMA FileIDs ==
  ASSUME NEW path \in Names, NEW content, IsContent(content), ~TwoGroupsOfOneName(content), NEW id
  PROVE  id \in EntityIDs(path, content) <=> \E r \in ToSet(FileRefs(path, content)) : r.id = id
<1> DEFINE refs == ToSet(FileRefs(path, content))
<1>1. \A r \in refs : r.type \in Kinds
  BY FileRefsProper DEF Proper
<1>2. \A kind : id \in IDsOf(refs, kind) <=> \E r \in refs : r.type = kind /\ r.id = id
  BY DEF IDsOf
<1>3. EntityIDs(path, content) = IDsOf(refs, "recurfile") \union IDsOf(refs, "group")
                                   \union IDsOf(refs, "trigger") \union IDsOf(refs, "action")
  BY FileRefsFacts DEF EntityIDs
<1> HIDE DEF refs
<1>4. id \in EntityIDs(path, content)
        <=> id \in IDsOf(refs, "recurfile") \/ id \in IDsOf(refs, "group")
            \/ id \in IDsOf(refs, "trigger") \/ id \in IDsOf(refs, "action")
  BY <1>3
<1>5. id \in EntityIDs(path, content) <=> \E r \in refs : r.id = id
  BY <1>1, <1>2, <1>4 DEF Kinds
<1> QED
  BY <1>5 DEF refs

LEMMA OthersIDs ==
  ASSUME NEW p, NEW q, p # q, NEW c, NEW d, IsContent(c), IsContent(d)
  PROVE  EntityIDs(p, c) \intersect EntityIDs(q, d) = {}
<1>1. /\ RecurfileID(p)[1] = "recurfile" /\ RecurfileID(q)[1] = "recurfile"
      /\ \A x \in ToSet(GroupIDs(RecurfileID(p), c)) \union ToSet(GroupIDs(RecurfileID(q), d)) : x[1] = "group"
      /\ \A x \in AllTriggers(RecurfileID(p), c) \union AllTriggers(RecurfileID(q), d) : x[1] = "trigger"
      /\ \A x \in AllActions(RecurfileID(p), c) \union AllActions(RecurfileID(q), d) : x[1] = "action"
  BY RecurfileIDs, OwnersOf
<1> QED
  BY <1>1, Disjoint DEF EntityIDs

\* A removal takes the IDs of a recurfile out of the index, and no others.
LEMMA RemovedFacts ==
  ASSUME RegistryAssumption, NEW reg, Holds(Maps, reg), NEW p \in DOMAIN reg
  PROVE  LET ids == RemovedIDs(RecurfileID(p)) IN IsList(ids) /\ ToSet(ids) = EntityIDs(p, reg[p])
<1>w. PICK wf : wf = RecurfileID(p)
  OBVIOUS
<1>c. PICK content : content = reg[p]
  OBVIOUS
<1> USE <1>w, <1>c
<1>1. /\ IsContent(content) /\ recurfiles[wf] = GroupIDs(wf, content)
      /\ \A k \in DOMAIN content : /\ recurfiles[wf][k] \in DOMAIN groups
                                   /\ groups[recurfiles[wf][k]] = GroupRecord(wf, content[k])
  BY HeldGroups
<1>2. PICK n \in Nat : DOMAIN content = 1..n
  BY <1>1, ContentGroups, ListDomain
<1>3. ~TwoGroupsOfOneName(content)
  BY DEF Holds
<1> DEFINE gs == recurfiles[wf]
           one(k) == <<gs[k]>>
           part(k) == (TriggerIDs(wf, content[k]) \o ActionIDs(wf, content[k])) \o one(k)
           s == [k \in 1..n |-> part(k)]
<1>4. DOMAIN gs = 1..n /\ \A k \in 1..n : gs[k] = GroupID(wf, content[k].name)
  BY <1>1, <1>2, FileGroups
<1>5. \A j, k \in 1..n : gs[j] = gs[k] => j = k
  <2>1. \A name : GroupID(wf, name)[3] = name
    BY DEF GroupID
  <2> QED
    BY <1>2, <1>3, <1>4, <2>1 DEF TwoGroupsOfOneName
<1>6. RemovedIDs(wf) = FlattenSeq(s) \o <<wf>>
  <2> DEFINE first(k) == gs[k] \in DOMAIN groups /\ \A j \in 1..(k - 1) : gs[j] # gs[k]
             taken(k) == IF first(k) THEN groups[gs[k]].triggers \o groups[gs[k]].actions \o <<gs[k]>>
                         ELSE << >>
  <2>1. ASSUME NEW k \in 1..n PROVE taken(k) = part(k)
    <3>1. \A j \in 1..(k - 1) : j \in 1..n /\ j # k
      OBVIOUS
    <3>2. first(k)
      BY <1>1, <1>2, <1>5, <3>1
    <3>3. /\ groups[gs[k]].triggers = TriggerIDs(wf, content[k])
          /\ groups[gs[k]].actions = ActionIDs(wf, content[k])
      <4>1. /\ GroupRecord(wf, content[k]).triggers = TriggerIDs(wf, content[k])
            /\ GroupRecord(wf, content[k]).actions = ActionIDs(wf, content[k])
        BY DEF GroupRecord
      <4>2. groups[gs[k]] = GroupRecord(wf, content[k])
        BY <1>1, <1>2
      <4> QED
        BY <4>1, <4>2
    <3> HIDE DEF first
    <3> QED
      BY <3>2, <3>3
  <2>2. RemovedIDs(wf) = FlattenSeq([k \in DOMAIN gs |-> taken(k)]) \o <<wf>>
    BY DEF RemovedIDs
  <2> HIDE DEF taken, part, gs
  <2>3. [k \in DOMAIN gs |-> taken(k)] = s
    BY <1>4, <2>1
  <2> HIDE DEF s
  <2> QED
    BY <2>2, <2>3
<1>7. s = [k \in 1..n |-> s[k]] /\ \A k \in 1..n : s[k] = part(k)
  OBVIOUS
<1> HIDE DEF s
<1>8. ASSUME NEW k \in 1..n
      PROVE  /\ IsList(s[k])
             /\ ToSet(s[k]) = ToSet(TriggerIDs(wf, content[k])) \union ToSet(ActionIDs(wf, content[k]))
                                \union {GroupID(wf, content[k].name)}
  <2>1. IsGroup(content[k])
    BY <1>1, <1>2, ContentGroups
  <2>2. IsList(TriggerIDs(wf, content[k])) /\ IsList(ActionIDs(wf, content[k]))
    BY <2>1, GroupTriggers, GroupActions
  <2> DEFINE both == TriggerIDs(wf, content[k]) \o ActionIDs(wf, content[k])
  <2>3. /\ IsList(both)
        /\ ToSet(both) = ToSet(TriggerIDs(wf, content[k])) \union ToSet(ActionIDs(wf, content[k]))
    BY <2>2, ConcatList
  <2>4. IsList(one(k)) /\ ToSet(one(k)) = {gs[k]}
    BY SingletonList
  <2> HIDE DEF both, one, gs
  <2>5. IsList(both \o one(k)) /\ ToSet(both \o one(k)) = ToSet(both) \union ToSet(one(k))
    BY <2>3, <2>4, ConcatList
  <2>6. s[k] = both \o one(k)
    BY <1>7 DEF both
  <2> QED
    BY <1>4, <2>3, <2>4, <2>5, <2>6
<1>9. IsList(FlattenSeq(s)) /\ ToSet(FlattenSeq(s)) = UNION {ToSet(s[k]) : k \in 1..n}
  BY <1>7, <1>8, FlattenList
<1>10. IsList(<<wf>>) /\ ToSet(<<wf>>) = {wf}
  BY SingletonList
<1>11. IsList(FlattenSeq(s) \o <<wf>>) /\ ToSet(FlattenSeq(s) \o <<wf>>) = ToSet(FlattenSeq(s)) \union {wf}
  BY <1>9, <1>10, ConcatList
<1>12. \A x : x \in ToSet(FlattenSeq(s)) <=> \E k \in 1..n : x \in ToSet(s[k])
  BY <1>9
<1>13. \A x : x \in EntityIDs(p, content)
                <=> x = wf \/ \E k \in 1..n : \/ x \in ToSet(TriggerIDs(wf, content[k]))
                                              \/ x \in ToSet(ActionIDs(wf, content[k]))
                                              \/ x = GroupID(wf, content[k].name)
  <2>1. \A x : x \in ToSet(GroupIDs(wf, content)) <=> \E k \in 1..n : x = GroupID(wf, content[k].name)
    BY <1>1, <1>2, FileGroups
  <2>2. \A x : x \in AllTriggers(wf, content) <=> \E k \in 1..n : x \in ToSet(TriggerIDs(wf, content[k]))
    BY <1>2 DEF AllTriggers
  <2>3. \A x : x \in AllActions(wf, content) <=> \E k \in 1..n : x \in ToSet(ActionIDs(wf, content[k]))
    BY <1>2 DEF AllActions
  <2> QED
    BY <2>1, <2>2, <2>3 DEF EntityIDs
<1>14. \A x : x \in ToSet(FlattenSeq(s) \o <<wf>>) <=> x \in EntityIDs(p, content)
  <2>1. \A x : \A k \in 1..n : x \in ToSet(s[k]) <=> \/ x \in ToSet(TriggerIDs(wf, content[k]))
                                                   \/ x \in ToSet(ActionIDs(wf, content[k]))
                                                   \/ x = GroupID(wf, content[k].name)
    BY <1>8
  <2>2. \A x : x \in ToSet(FlattenSeq(s) \o <<wf>>) <=> x = wf \/ \E k \in 1..n : x \in ToSet(s[k])
    BY <1>11, <1>12
  <2> QED
    BY <1>13, <2>1, <2>2
<1>15. ToSet(RemovedIDs(wf)) = EntityIDs(p, content)
  BY <1>6, <1>14
<1> QED
  BY <1>6, <1>11, <1>15

-----------------------------------------------------------------------------
(* What the holder of r.mutex has still to do. *)

Removes(t, id) == \E k \in DOMAIN t : t[k].op = "remove" /\ t[k].id = id
Adds(t, ref) == \E k \in DOMAIN t : t[k].op = "add" /\ t[k].ref = ref

\* Removals come first, and an ID is added once.
Orderly(t) ==
  /\ IsList(t)
  /\ \A k \in DOMAIN t : t[k].op \in {"add", "remove"}
  /\ \A j, k \in DOMAIN t : t[j].op = "add" /\ t[k].op = "remove" => k < j
  /\ \A j, k \in DOMAIN t :
       t[j].op = "add" /\ t[k].op = "add" /\ t[j].ref.id = t[k].ref.id => j = k

LEMMA RemovalsOrderly ==
  ASSUME NEW ids, IsList(ids)
  PROVE  LET t == Removals(ids) IN
         /\ Orderly(t) /\ \A k \in DOMAIN t : t[k].op = "remove"
         /\ \A id : Removes(t, id) <=> id \in ToSet(ids)
         /\ \A ref : ~Adds(t, ref)
<1> DEFINE t == Removals(ids)
<1>1. PICK n \in Nat : DOMAIN ids = 1..n
  BY ListDomain
<1>2. t = [k \in 1..n |-> t[k]] /\ \A k \in 1..n : t[k].op = "remove" /\ t[k].id = ids[k]
  BY <1>1 DEF Removals
<1> HIDE DEF t
<1>3. IsList(t) /\ DOMAIN t = 1..n
  BY <1>2, FunctionIsList
<1>4. Orderly(t)
  BY <1>2, <1>3 DEF Orderly
<1>5. \A id : Removes(t, id) <=> id \in ToSet(ids)
  BY <1>1, <1>2, <1>3 DEF Removes, ToSet
<1>6. \A ref : ~Adds(t, ref)
  BY <1>2, <1>3 DEF Adds
<1> QED
  BY <1>2, <1>3, <1>4, <1>5, <1>6 DEF t

LEMMA AdditionsOrderly ==
  ASSUME NEW refs, Proper(refs)
  PROVE  LET t == Additions(refs) IN
         /\ Orderly(t) /\ \A k \in DOMAIN t : t[k].op = "add"
         /\ \A id : ~Removes(t, id)
         /\ \A ref : Adds(t, ref) <=> ref \in ToSet(refs)
<1> DEFINE t == Additions(refs)
<1>1. PICK n \in Nat : DOMAIN refs = 1..n
  BY ListDomain DEF Proper
<1>2. t = [k \in 1..n |-> t[k]] /\ \A k \in 1..n : t[k].op = "add" /\ t[k].ref = refs[k]
  BY <1>1 DEF Additions
<1> HIDE DEF t
<1>3. IsList(t) /\ DOMAIN t = 1..n
  BY <1>2, FunctionIsList
<1>4. \A j, k \in 1..n : refs[j].id = refs[k].id => j = k
  <2>1. \A k \in 1..n : refs[k] \in ToSet(refs)
    BY <1>1 DEF ToSet
  <2> QED
    BY <1>1, <2>1 DEF Proper, Unique
<1>5. Orderly(t)
  BY <1>2, <1>3, <1>4 DEF Orderly
<1>6. \A ref : Adds(t, ref) <=> ref \in ToSet(refs)
  BY <1>1, <1>2, <1>3 DEF Adds, ToSet
<1>7. \A id : ~Removes(t, id)
  BY <1>2, <1>3 DEF Removes
<1> QED
  BY <1>2, <1>3, <1>5, <1>6, <1>7 DEF t

\* Removals, and then additions.
LEMMA ConcatOrderly ==
  ASSUME NEW s, NEW t, Orderly(s), Orderly(t),
         \A k \in DOMAIN s : s[k].op = "remove", \A k \in DOMAIN t : t[k].op = "add"
  PROVE  /\ Orderly(s \o t)
         /\ \A id : Removes(s \o t, id) <=> Removes(s, id)
         /\ \A ref : Adds(s \o t, ref) <=> Adds(t, ref)
<1>1. IsList(s) /\ IsList(t)
  BY DEF Orderly
<1>2. PICK m \in Nat, n \in Nat : DOMAIN s = 1..m /\ DOMAIN t = 1..n /\ m = Len(s) /\ n = Len(t)
  BY <1>1, ListDomain
<1> DEFINE u == s \o t
<1>3. /\ IsList(u) /\ DOMAIN u = 1..(m + n)
      /\ \A k \in 1..m : u[k] = s[k]
      /\ \A k \in 1..(m + n) : k \notin 1..m => k - m \in 1..n /\ u[k] = t[k - m]
      /\ \A k \in 1..n : m + k \in 1..(m + n) /\ u[m + k] = t[k]
  <2>1. s \in Seq(ToSet(s) \union ToSet(t)) /\ t \in Seq(ToSet(s) \union ToSet(t))
    BY <1>1, SeqMonotonic DEF IsList
  <2>2. IsList(u)
    BY <1>1, ConcatList
  <2> QED
    BY <1>2, <2>1, <2>2
<1> HIDE DEF u
<1>4. ASSUME NEW k \in 1..(m + n) PROVE u[k].op = IF k \in 1..m THEN "remove" ELSE "add"
  <2>1. CASE k \in 1..m
    BY <1>2, <1>3, <2>1
  <2>2. CASE k \notin 1..m
    <3>1. u[k] = t[k - m] /\ k - m \in 1..n
      BY <1>3, <2>2
    <3> QED
      BY <1>2, <2>2, <3>1
  <2> QED
    BY <2>1, <2>2
<1>5. ASSUME NEW j \in 1..(m + n), NEW k \in 1..(m + n), u[j].op = "add", u[k].op = "remove" PROVE k < j
  BY <1>4, <1>5
<1>6. ASSUME NEW j \in 1..(m + n), NEW k \in 1..(m + n),
             u[j].op = "add", u[k].op = "add", u[j].ref.id = u[k].ref.id
      PROVE  j = k
  <2>1. j \notin 1..m /\ k \notin 1..m
    BY <1>4, <1>6
  <2>2. t[j - m].ref.id = t[k - m].ref.id /\ j - m \in 1..n /\ k - m \in 1..n
    BY <1>3, <1>6, <2>1
  <2>3. j - m = k - m
    BY <1>2, <2>2 DEF Orderly
  <2> QED
    BY <2>3
<1>7. Orderly(u)
  BY <1>3, <1>4, <1>5, <1>6 DEF Orderly
<1>8. ASSUME NEW id PROVE Removes(u, id) <=> Removes(s, id)
  <2>1. ASSUME NEW k \in 1..(m + n), u[k].op = "remove", u[k].id = id PROVE Removes(s, id)
    <3>1. k \in 1..m
      BY <1>4, <2>1
    <3> QED
      BY <1>2, <1>3, <2>1, <3>1 DEF Removes
  <2>2. ASSUME NEW k \in 1..m, s[k].op = "remove", s[k].id = id PROVE Removes(u, id)
    <3>1. k \in 1..(m + n) /\ u[k] = s[k]
      BY <1>3
    <3> QED
      BY <1>3, <2>2, <3>1 DEF Removes
  <2> QED
    BY <1>2, <1>3, <2>1, <2>2 DEF Removes
<1>9. ASSUME NEW ref PROVE Adds(u, ref) <=> Adds(t, ref)
  <2>1. ASSUME NEW k \in 1..(m + n), u[k].op = "add", u[k].ref = ref PROVE Adds(t, ref)
    <3>1. k \notin 1..m
      BY <1>4, <2>1
    <3>2. k - m \in 1..n /\ t[k - m] = u[k]
      BY <1>3, <3>1
    <3> QED
      BY <1>2, <2>1, <3>2 DEF Adds
  <2>2. ASSUME NEW k \in 1..n, t[k].op = "add", t[k].ref = ref PROVE Adds(u, ref)
    <3>1. m + k \in 1..(m + n) /\ u[m + k] = t[k]
      BY <1>3
    <3> QED
      BY <1>3, <2>2, <3>1 DEF Adds
  <2> QED
    BY <1>2, <1>3, <2>1, <2>2 DEF Adds
<1> QED
  BY <1>7, <1>8, <1>9 DEF u

LEMMA TailOrderly ==
  ASSUME NEW t, Orderly(t), t # << >>
  PROVE  /\ Orderly(Tail(t)) /\ Head(t).op \in {"add", "remove"}
         /\ Head(t).op = "remove" =>
              /\ \A id : Removes(t, id) <=> id = Head(t).id \/ Removes(Tail(t), id)
              /\ \A ref : Adds(t, ref) <=> Adds(Tail(t), ref)
         /\ Head(t).op = "add" =>
              /\ \A id : ~Removes(t, id) /\ ~Removes(Tail(t), id)
              /\ \A ref : Adds(t, ref) <=> ref = Head(t).ref \/ Adds(Tail(t), ref)
              /\ \A ref : Adds(Tail(t), ref) => ref.id # Head(t).ref.id
<1> DEFINE u == Tail(t)
<1>1. PICK n \in Nat : n = Len(t) /\ DOMAIN t = 1..n
  BY ListDomain DEF Orderly
<1>2. n # 0 /\ DOMAIN u = 1..(n - 1) /\ Head(t) = t[1] /\ \A k \in 1..(n - 1) : u[k] = t[k + 1]
  BY <1>1 DEF Orderly, IsList
<1>3. IsList(u)
  <2>0. u \in Seq(ToSet(t)) /\ Len(u) = n - 1
    BY <1>1, <1>2 DEF Orderly, IsList
  <2>1. u = [k \in 1..(n - 1) |-> u[k]] /\ n - 1 \in Nat
    <3> HIDE DEF u
    <3> QED
      BY <2>0
  <2> HIDE DEF u
  <2> QED
    BY <2>1, FunctionIsList
<1> HIDE DEF u
<1>4. \A k \in 1..(n - 1) : k + 1 \in 1..n /\ k + 1 # 1
  BY <1>1
<1>5. \A k \in 1..n : k = 1 \/ (k - 1 \in 1..(n - 1) /\ u[k - 1] = t[k])
  BY <1>1, <1>2
<1>6. 1 \in 1..n
  BY <1>1, <1>2
<1>7. Orderly(u)
  <2>1. \A k \in 1..(n - 1) : u[k].op \in {"add", "remove"}
    BY <1>1, <1>2, <1>4 DEF Orderly
  <2>2. \A j, k \in 1..(n - 1) : u[j].op = "add" /\ u[k].op = "remove" => k + 1 < j + 1
    BY <1>1, <1>2, <1>4 DEF Orderly
  <2>3. \A j, k \in 1..(n - 1) :
          u[j].op = "add" /\ u[k].op = "add" /\ u[j].ref.id = u[k].ref.id => j + 1 = k + 1
    BY <1>1, <1>2, <1>4 DEF Orderly
  <2> QED
    BY <1>2, <1>3, <2>1, <2>2, <2>3 DEF Orderly
<1>8. Head(t).op \in {"add", "remove"}
  BY <1>1, <1>2, <1>6 DEF Orderly
<1>9. ASSUME NEW id PROVE Removes(t, id) <=> (Head(t).op = "remove" /\ Head(t).id = id) \/ Removes(u, id)
  <2>1. ASSUME NEW k \in 1..n, t[k].op = "remove", t[k].id = id
        PROVE  (Head(t).op = "remove" /\ Head(t).id = id) \/ Removes(u, id)
    <3>1. CASE k = 1
      BY <1>2, <2>1, <3>1
    <3>2. CASE k - 1 \in 1..(n - 1) /\ u[k - 1] = t[k]
      BY <1>2, <2>1, <3>2 DEF Removes
    <3> QED
      BY <1>5, <3>1, <3>2
  <2>2. ASSUME NEW k \in 1..(n - 1), u[k].op = "remove", u[k].id = id PROVE Removes(t, id)
    <3>1. k + 1 \in 1..n /\ t[k + 1] = u[k]
      BY <1>2, <1>4
    <3> QED
      BY <1>1, <2>2, <3>1 DEF Removes
  <2>3. Head(t).op = "remove" /\ Head(t).id = id => Removes(t, id)
    BY <1>1, <1>2, <1>6 DEF Removes
  <2> QED
    BY <1>1, <1>2, <2>1, <2>2, <2>3 DEF Removes
<1>10. ASSUME NEW ref PROVE Adds(t, ref) <=> (Head(t).op = "add" /\ Head(t).ref = ref) \/ Adds(u, ref)
  <2>1. ASSUME NEW k \in 1..n, t[k].op = "add", t[k].ref = ref
        PROVE  (Head(t).op = "add" /\ Head(t).ref = ref) \/ Adds(u, ref)
    <3>1. CASE k = 1
      BY <1>2, <2>1, <3>1
    <3>2. CASE k - 1 \in 1..(n - 1) /\ u[k - 1] = t[k]
      BY <1>2, <2>1, <3>2 DEF Adds
    <3> QED
      BY <1>5, <3>1, <3>2
  <2>2. ASSUME NEW k \in 1..(n - 1), u[k].op = "add", u[k].ref = ref PROVE Adds(t, ref)
    <3>1. k + 1 \in 1..n /\ t[k + 1] = u[k]
      BY <1>2, <1>4
    <3> QED
      BY <1>1, <2>2, <3>1 DEF Adds
  <2>3. Head(t).op = "add" /\ Head(t).ref = ref => Adds(t, ref)
    BY <1>1, <1>2, <1>6 DEF Adds
  <2> QED
    BY <1>1, <1>2, <2>1, <2>2, <2>3 DEF Adds
<1>11. ASSUME Head(t).op = "add", NEW id PROVE ~Removes(t, id)
  <2>1. \A k \in 1..n : t[k].op = "remove" => k < 1
    BY <1>1, <1>2, <1>6, <1>11 DEF Orderly
  <2> QED
    BY <1>1, <2>1 DEF Removes
<1>12. ASSUME Head(t).op = "add", NEW ref, Adds(u, ref) PROVE ref.id # Head(t).ref.id
  <2>1. PICK k \in 1..(n - 1) : t[k + 1].op = "add" /\ t[k + 1].ref = ref
    BY <1>2, <1>12 DEF Adds
  <2> QED
    BY <1>1, <1>2, <1>4, <1>6, <1>12, <2>1 DEF Orderly
<1>13. "add" # "remove"
  OBVIOUS
<1> QED
  BY <1>7, <1>8, <1>9, <1>10, <1>11, <1>12, <1>13 DEF u

\* While nothing exempt has occurred: what is in the index and is not about to
\* be removed, with what is about to be added, is what is registered.
IndexInv ==
  /\ LiveFound
  /\ Orderly(todo)
  /\ \A r \in LiveRefs : \A x : Adds(todo, x) => Removes(todo, r.id) \/ r.id # x.id
  /\ \A r : r \in RegisteredRefs <=> (r \in LiveRefs /\ ~Removes(todo, r.id)) \/ Adds(todo, r)

FindInv ==
  /\ SoundInv
  /\ MapsInv
  /\ DOMAIN registered \subseteq Paths
  /\ ~tainted => IndexInv

LEMMA FindInit == Init => FindInv
<1> SUFFICES ASSUME Init PROVE FindInv
  OBVIOUS
<1>1. SoundInv /\ MapsInv
  BY InitSound, MapsInit
<1>2. DOMAIN registered = {} /\ todo = << >> /\ Live = {}
  BY DEF Init, NewEntityIndex, Live
<1>3. \A r : r \notin RegisteredRefs /\ r \notin LiveRefs
  BY <1>2 DEF RegisteredRefs, LiveRefs
<1>4. Orderly(todo) /\ \A x : ~Adds(todo, x)
  BY <1>2 DEF Orderly, Adds, IsList, ToSet
<1> QED
  BY <1>1, <1>2, <1>3, <1>4 DEF FindInv, IndexInv, LiveFound

LEMMA IndexStepFinds ==
  ASSUME SoundInv, IndexInv, IndexStep
  PROVE  IndexInv'
<1>1. /\ Orderly(todo) /\ todo # << >> /\ LiveFound /\ todo' = Tail(todo)
      /\ RegisteredRefs' = RegisteredRefs
  BY DEF IndexInv, IndexStep, RegisteredRefs, history
<1>2. CASE Head(todo).op = "add"
  <2>1. /\ Orderly(todo') /\ \A id : ~Removes(todo, id) /\ ~Removes(todo', id)
        /\ \A x : Adds(todo, x) <=> x = Head(todo).ref \/ Adds(todo', x)
        /\ \A x : Adds(todo', x) => x.id # Head(todo).ref.id
    BY <1>1, <1>2, TailOrderly
  <2>2. \A r \in LiveRefs : r.id # Head(todo).ref.id
    BY <2>1 DEF IndexInv
  <2>3. Add(Head(todo).ref)
    BY <1>2 DEF IndexStep
  <2>4. LiveFound' /\ \A r : r \in LiveRefs' <=> r \in LiveRefs \/ r = Head(todo).ref
    BY <1>1, <2>2, <2>3, AddLive
  <2>5. \A r \in LiveRefs' : \A x : Adds(todo', x) => Removes(todo', r.id) \/ r.id # x.id
    BY <2>1, <2>4 DEF IndexInv
  <2>6. \A r : r \in RegisteredRefs' <=> (r \in LiveRefs' /\ ~Removes(todo', r.id)) \/ Adds(todo', r)
    BY <1>1, <2>1, <2>4 DEF IndexInv
  <2> QED
    BY <2>1, <2>4, <2>5, <2>6 DEF IndexInv
<1>3. CASE Head(todo).op = "remove"
  <2>1. /\ Orderly(todo')
        /\ \A id : Removes(todo, id) <=> id = Head(todo).id \/ Removes(todo', id)
        /\ \A x : Adds(todo, x) <=> Adds(todo', x)
    BY <1>1, <1>3, TailOrderly
  <2>2. RemoveID(Head(todo).id)
    BY <1>3 DEF IndexStep
  <2>3. LiveFound' /\ \A r : r \in LiveRefs' <=> r \in LiveRefs /\ r.id # Head(todo).id
    BY <1>1, <2>2, RemoveLive
  <2>4. \A r \in LiveRefs' : \A x : Adds(todo', x) => Removes(todo', r.id) \/ r.id # x.id
    BY <2>1, <2>3 DEF IndexInv
  <2>5. \A r : r \in RegisteredRefs' <=> (r \in LiveRefs' /\ ~Removes(todo', r.id)) \/ Adds(todo', r)
    BY <1>1, <2>1, <2>3 DEF IndexInv
  <2> QED
    BY <2>1, <2>3, <2>4, <2>5 DEF IndexInv
<1> QED
  BY <1>1, <1>2, <1>3, TailOrderly

\* r.mutex is taken with nothing to do: what is to do then is what has changed.
LEMMA NewTodoFinds ==
  ASSUME IndexInv, todo = << >>, UNCHANGED index, Orderly(todo'), NEW I, NEW N,
         \A id : Removes(todo', id) <=> id \in I,
         \A r : Adds(todo', r) <=> r \in N,
         \A r \in RegisteredRefs : \A x \in N : r.id \in I \/ r.id # x.id,
         \A r : r \in RegisteredRefs' <=> (r \in RegisteredRefs /\ r.id \notin I) \/ r \in N
  PROVE  IndexInv'
<1>1. \A id, r : ~Removes(todo, id) /\ ~Adds(todo, r)
  BY DEF Removes, Adds
<1>2. \A r : r \in LiveRefs <=> r \in RegisteredRefs
  BY <1>1 DEF IndexInv
<1>3. LiveRefs' = LiveRefs /\ LiveFound'
  BY DEF IndexInv, LiveRefs, LiveFound, Live, index
<1> QED
  BY <1>2, <1>3 DEF IndexInv

\* The references of the contents reg.
RefsOf(reg) == UNION {ToSet(FileRefs(p, reg[p])) : p \in DOMAIN reg}

LEMMA RefsOfFacts ==
  ASSUME NEW reg, NEW r
  PROVE  r \in RefsOf(reg) <=> \E p \in DOMAIN reg : r \in ToSet(FileRefs(p, reg[p]))
  BY DEF RefsOf

LEMMA RefsWithout ==
  ASSUME RegistryAssumption, NEW reg, Holds(Maps, reg), DOMAIN reg \subseteq Paths, NEW q \in DOMAIN reg, NEW r
  PROVE  r \in RefsOf(Without(reg, {q})) <=> r \in RefsOf(reg) /\ r.id \notin EntityIDs(q, reg[q])
<1>1. \A p \in DOMAIN reg : p \in Names /\ IsContent(reg[p]) /\ ~TwoGroupsOfOneName(reg[p])
  BY DEF Holds, RegistryAssumption
<1>2. \A p \in DOMAIN reg : \A x \in ToSet(FileRefs(p, reg[p])) : x.id \in EntityIDs(p, reg[p])
  BY <1>1, FileIDs
<1>3. \A p \in DOMAIN reg : p # q => EntityIDs(p, reg[p]) \intersect EntityIDs(q, reg[q]) = {}
  BY <1>1, OthersIDs
<1>4. r \in RefsOf(reg) <=> \E p \in DOMAIN reg : r \in ToSet(FileRefs(p, reg[p]))
  BY RefsOfFacts
<1> DEFINE rest == Without(reg, {q})
<1>5. DOMAIN rest = DOMAIN reg \ {q} /\ \A p \in DOMAIN rest : rest[p] = reg[p]
  BY DEF Without
<1> HIDE DEF rest
<1>6. r \in RefsOf(rest) <=> \E p \in DOMAIN rest : r \in ToSet(FileRefs(p, rest[p]))
  BY RefsOfFacts
<1> QED
  BY <1>2, <1>3, <1>4, <1>5, <1>6 DEF rest

LEMMA RefsAdding ==
  ASSUME RegistryAssumption, NEW m, NEW reg, Holds(m, reg), DOMAIN reg \subseteq Paths,
         NEW path \in Paths, path \notin DOMAIN reg,
         NEW content \in Contents, ~TwoGroupsOfOneName(content), NEW r
  PROVE  /\ r \in RefsOf(Adding(reg, path, content))
              <=> r \in RefsOf(reg) \/ r \in ToSet(FileRefs(path, content))
         /\ r \in RefsOf(reg) => \A x \in ToSet(FileRefs(path, content)) : r.id # x.id
<1>1. \A p \in DOMAIN reg : p \in Names /\ IsContent(reg[p]) /\ ~TwoGroupsOfOneName(reg[p])
  BY DEF Holds, RegistryAssumption
<1>2. path \in Names /\ IsContent(content)
  BY DEF RegistryAssumption
<1> DEFINE all == Adding(reg, path, content)
<1>3. /\ DOMAIN all = DOMAIN reg \union {path} /\ all[path] = content
      /\ \A p \in DOMAIN reg : all[p] = reg[p]
  BY DEF Adding, With
<1> HIDE DEF all
<1>4. r \in RefsOf(reg) <=> \E p \in DOMAIN reg : r \in ToSet(FileRefs(p, reg[p]))
  BY RefsOfFacts
<1>5. r \in RefsOf(all) <=> \E p \in DOMAIN all : r \in ToSet(FileRefs(p, all[p]))
  BY RefsOfFacts
<1>6. r \in RefsOf(all) <=> r \in RefsOf(reg) \/ r \in ToSet(FileRefs(path, content))
  BY <1>3, <1>4, <1>5
<1>7. ASSUME NEW p \in DOMAIN reg, r \in ToSet(FileRefs(p, reg[p])), NEW x \in ToSet(FileRefs(path, content))
      PROVE  r.id # x.id
  <2>1. r.id \in EntityIDs(p, reg[p])
    BY <1>1, <1>7, FileIDs
  <2>2. x.id \in EntityIDs(path, content)
    BY <1>2, FileIDs
  <2>3. EntityIDs(p, reg[p]) \intersect EntityIDs(path, content) = {}
    BY <1>1, <1>2, OthersIDs
  <2> QED
    BY <2>1, <2>2, <2>3
<1> QED
  BY <1>4, <1>6, <1>7 DEF all

LEMMA RegisterFinds ==
  ASSUME RegistryAssumption, FindInv, NEW path \in Paths, NEW content \in Contents,
         RegisterResolved(path, content)
  PROVE  DOMAIN registered' \subseteq Paths /\ (~tainted' => IndexInv')
<1>1. DOMAIN registered' \subseteq Paths
  BY DEF FindInv, RegisterResolved, Record, With, Without
<1>2. ASSUME ~tainted' PROVE IndexInv'
  <2>0. /\ Holds(Maps, registered) /\ ~TwoGroupsOfOneName(content) /\ DOMAIN registered \subseteq Paths
        /\ IndexInv /\ todo = << >> /\ UNCHANGED index /\ RegistryAssumption
    BY <1>2, RegisterCases DEF FindInv, RegisterResolved, Record
  <2>1. Proper(FileRefs(path, content))
    BY <2>0, FileRefsProper DEF RegistryAssumption
  <2> DEFINE added == Additions(FileRefs(path, content))
             N == ToSet(FileRefs(path, content))
  <2>2. /\ Orderly(added) /\ \A k \in DOMAIN added : added[k].op = "add"
        /\ \A id : ~Removes(added, id)
        /\ \A r : Adds(added, r) <=> r \in N
    BY <2>1, AdditionsOrderly
  <2>3. RegisteredRefs = RefsOf(registered) /\ RegisteredRefs' = RefsOf(registered')
    BY DEF RegisteredRefs, RefsOf
  <2> HIDE DEF added, N
  <2>4. CASE /\ path \notin DOMAIN registered
             /\ registered' = Adding(registered, path, content)
             /\ todo' = added
    <3>1. \A r : /\ r \in RegisteredRefs' <=> r \in RegisteredRefs \/ r \in N
                 /\ r \in RegisteredRefs => \A x \in N : r.id # x.id
      BY <2>0, <2>3, <2>4, RefsAdding DEF N
    <3>2. PICK I : I = {}
      OBVIOUS
    <3>3. /\ Orderly(todo')
          /\ \A id : Removes(todo', id) <=> id \in I
          /\ \A r : Adds(todo', r) <=> r \in N
      BY <2>2, <2>4, <3>2
    <3>4. /\ \A r \in RegisteredRefs : \A x \in N : r.id \in I \/ r.id # x.id
          /\ \A r : r \in RegisteredRefs' <=> (r \in RegisteredRefs /\ r.id \notin I) \/ r \in N
      BY <3>1, <3>2
    <3> QED
      BY <2>0, <3>3, <3>4, NewTodoFinds
  <2>5. ASSUME NEW q \in DOMAIN registered, path \notin DOMAIN Without(registered, {q}),
               registered' = Adding(Without(registered, {q}), path, content),
               todo' = Removals(RemovedIDs(RecurfileID(q))) \o added
        PROVE  IndexInv'
    <3> DEFINE I == EntityIDs(q, registered[q])
               rest == Without(registered, {q})
               gone == Removals(RemovedIDs(RecurfileID(q)))
    <3>1. /\ Orderly(gone) /\ \A k \in DOMAIN gone : gone[k].op = "remove"
          /\ \A id : Removes(gone, id) <=> id \in I
      <4>1. /\ IsList(RemovedIDs(RecurfileID(q)))
            /\ ToSet(RemovedIDs(RecurfileID(q))) = I
        BY <2>0, RemovedFacts
      <4> HIDE DEF I
      <4> QED
        BY <4>1, RemovalsOrderly
    <3>2. Holds(Deregistered(RecurfileID(q)), rest)
      BY <2>0, DeregisterHolds
    <3>3. DOMAIN rest \subseteq Paths
      BY <2>0 DEF Without
    <3>4. \A r : r \in RefsOf(rest) <=> r \in RegisteredRefs /\ r.id \notin I
      BY <2>0, <2>3, RefsWithout
    <3> HIDE DEF I, gone, rest
    <3>5. \A r : /\ r \in RegisteredRefs' <=> r \in RefsOf(rest) \/ r \in N
                 /\ r \in RefsOf(rest) => \A x \in N : r.id # x.id
      <4>1. registered' = Adding(rest, path, content) /\ path \notin DOMAIN rest
        BY <2>5 DEF rest
      <4> QED
        BY <2>0, <2>3, <3>2, <3>3, <4>1, RefsAdding DEF N
    <3>6. todo' = gone \o added
      BY <2>5 DEF gone
    <3>7. /\ Orderly(todo')
          /\ \A id : Removes(todo', id) <=> id \in I
          /\ \A r : Adds(todo', r) <=> r \in N
      BY <2>2, <3>1, <3>6, ConcatOrderly
    <3>8. /\ \A r \in RegisteredRefs : \A x \in N : r.id \in I \/ r.id # x.id
          /\ \A r : r \in RegisteredRefs' <=> (r \in RegisteredRefs /\ r.id \notin I) \/ r \in N
      BY <3>4, <3>5
    <3> QED
      BY <2>0, <3>7, <3>8, NewTodoFinds
  <2> QED
    BY <1>2, <2>4, <2>5, RegisterCases DEF FindInv, added
<1> QED
  BY <1>1, <1>2

LEMMA DeregisterFinds ==
  ASSUME RegistryAssumption, FindInv, NEW c \in Clients, DeregisterRecurfile(c)
  PROVE  DOMAIN registered' \subseteq Paths /\ (~tainted' => IndexInv')
<1>1. CASE request[c].id \notin DOMAIN recurfiles
  <2>1. UNCHANGED <<index, todo, history>>
    BY <1>1 DEF DeregisterRecurfile
  <2> QED
    BY <2>1 DEF FindInv, IndexInv, LiveFound, LiveRefs, Live, RegisteredRefs, index, history
<1>2. CASE request[c].id \in DOMAIN recurfiles
  <2>1. /\ todo = << >> /\ UNCHANGED index /\ UNCHANGED tainted
        /\ registered' = Without(registered, {request[c].id[2]})
        /\ todo' = Removals(RemovedIDs(request[c].id))
    BY <1>2 DEF DeregisterRecurfile
  <2>2. DOMAIN registered' \subseteq Paths
    BY <2>1 DEF FindInv, Without
  <2>3. ASSUME ~tainted PROVE IndexInv'
    <3>0. Holds(Maps, registered) /\ DOMAIN registered \subseteq Paths /\ IndexInv /\ RegistryAssumption
      BY <2>3 DEF FindInv, MapsInv
    <3>1. PICK q \in DOMAIN registered : request[c].id = RecurfileID(q) /\ request[c].id[2] = q
      BY <1>2, <3>0, RecurfileIDs DEF Holds, Maps
    <3> DEFINE I == EntityIDs(q, registered[q])
    <3>2. /\ Orderly(todo')
          /\ \A id : Removes(todo', id) <=> id \in I
          /\ \A r : ~Adds(todo', r)
      <4>1. /\ IsList(RemovedIDs(RecurfileID(q)))
            /\ ToSet(RemovedIDs(RecurfileID(q))) = I
        BY <3>0, RemovedFacts
      <4>2. todo' = Removals(RemovedIDs(RecurfileID(q)))
        BY <2>1, <3>1
      <4> HIDE DEF I
      <4> QED
        BY <4>1, <4>2, RemovalsOrderly
    <3>3. \A r : r \in RegisteredRefs' <=> r \in RegisteredRefs /\ r.id \notin I
      <4>1. RegisteredRefs = RefsOf(registered) /\ RegisteredRefs' = RefsOf(Without(registered, {q}))
        BY <2>1, <3>1 DEF RegisteredRefs, RefsOf
      <4> QED
        BY <3>0, <4>1, RefsWithout
    <3> HIDE DEF I
    <3>4. PICK N : N = {}
      OBVIOUS
    <3>5. /\ \A r : Adds(todo', r) <=> r \in N
          /\ \A r \in RegisteredRefs : \A x \in N : r.id \in I \/ r.id # x.id
          /\ \A r : r \in RegisteredRefs' <=> (r \in RegisteredRefs /\ r.id \notin I) \/ r \in N
      BY <3>2, <3>3, <3>4
    <3> QED
      BY <2>1, <3>0, <3>2, <3>5, NewTodoFinds
  <2> QED
    BY <2>1, <2>2, <2>3
<1> QED
  BY <1>1, <1>2

LEMMA FindStep == FindInv /\ [Next]_vars => FindInv'
<1> SUFFICES ASSUME FindInv, [Next]_vars PROVE FindInv'
  OBVIOUS
<1>0. SoundInv' /\ MapsInv'
  BY StepSound, MapsStep DEF FindInv
<1>1. CASE UNCHANGED <<index, todo, history>>
  BY <1>0, <1>1 DEF FindInv, IndexInv, LiveFound, LiveRefs, Live, RegisteredRefs, index, history
<1>2. CASE IndexStep
  <2>1. UNCHANGED history
    BY <1>2 DEF IndexStep
  <2> QED
    BY <1>0, <1>2, <2>1, IndexStepFinds DEF FindInv, history
<1>3. ASSUME NEW p \in Paths, NEW content \in Contents, RegisterResolved(p, content) PROVE FindInv'
  BY <1>0, <1>3, RegisterFinds, RegistryAssumption DEF FindInv
<1>4. ASSUME NEW c \in Clients, DeregisterRecurfile(c) PROVE FindInv'
  BY <1>0, <1>4, DeregisterFinds, RegistryAssumption DEF FindInv
<1>5. ASSUME ~IndexStep,
             ~\E p \in Paths, content \in Contents : RegisterResolved(p, content),
             ~\E c \in Clients : DeregisterRecurfile(c)
      PROVE  UNCHANGED <<index, todo, history>>
  BY <1>5 DEF Next, vars, Find, ResolveOne, FindResolved, ChangeStatus, SuspendByPluginID, Relink
<1> QED
  BY <1>1, <1>2, <1>3, <1>4, <1>5

LEMMA FindsRegistered == FindInv => IndexFindsRegistered
<1> SUFFICES ASSUME FindInv, ~tainted, todo = << >>, NEW identifier \in Identifiers
             PROVE  LET found == Lookup(identifier)
                        meant == Meant(RegisteredRefs, identifier)
                    IN  /\ {entries[i] : i \in found} = meant
                        /\ Cardinality(found) = Cardinality(meant)
  BY DEF IndexFindsRegistered
<1>1. SoundInv /\ IndexInv /\ Holds(Maps, registered) /\ DOMAIN registered \subseteq Paths
  BY DEF FindInv, MapsInv
<1>2. \A id, r : ~Removes(todo, id) /\ ~Adds(todo, r)
  BY DEF Removes, Adds
<1>3. LiveRefs = RegisteredRefs
  <2>1. \A r : r \in LiveRefs <=> r \in RegisteredRefs
    BY <1>1, <1>2 DEF IndexInv
  <2> QED
    BY <2>1
<1>4. \A r \in LiveRefs : r.name \in Names
  <2>1. \A p \in DOMAIN registered : Proper(FileRefs(p, registered[p]))
    BY <1>1, FileRefsProper, RegistryAssumption DEF Holds, RegistryAssumption
  <2>2. \A r \in RegisteredRefs : \E p \in DOMAIN registered : r \in ToSet(FileRefs(p, registered[p]))
    BY DEF RegisteredRefs
  <2> QED
    BY <1>3, <2>1, <2>2 DEF Proper
<1>5. LET found == Lookup(identifier)
          meant == Meant(LiveRefs, identifier)
      IN  /\ {entries[i] : i \in found} = meant
          /\ Cardinality(found) = Cardinality(meant)
  BY <1>1, <1>4, LookupMeans DEF IndexInv
<1> QED
  BY <1>3, <1>5

\* IndexFindsRegistered holds for every registry: once the holder of r.mutex is
\* done with the index, an identifier finds the entities of the registered files
\* that it means, each once, whatever registrations, reloads, removals and
\* compactions came before (Lookup, entity_index.go:53).
THEOREM IndexAlwaysFinds == Spec => []IndexFindsRegistered
<1> QED
  BY FindInit, FindStep, FindsRegistered, PTL DEF Spec

-----------------------------------------------------------------------------
(* The two views of a recurfile. *)

\* A list in which nothing is twice is as long as the set of its elements.
LEMMA UniqueCount ==
  ASSUME NEW s, IsList(s), Unique(s)
  PROVE  IsFiniteSet(ToSet(s)) /\ Cardinality(ToSet(s)) = Len(s)
<1>1. PICK n \in Nat : n = Len(s) /\ DOMAIN s = 1..n /\ s = [i \in 1..n |-> s[i]]
  BY ListDomain
<1>2. ToSet(s) = {s[i] : i \in 1..n}
  BY <1>1 DEF ToSet
<1>3. s \in [1..n -> ToSet(s)]
  BY <1>1, <1>2
<1>4. s \in Injection(1..n, ToSet(s)) /\ s \in Surjection(1..n, ToSet(s))
  BY <1>1, <1>2, <1>3 DEF Injection, IsInjective, Surjection, Unique
<1>5. ExistsBijection(1..n, ToSet(s))
  BY <1>4 DEF Bijection, ExistsBijection
<1>6. IsFiniteSet(1..n) /\ Cardinality(1..n) = n
  BY FS_Interval
<1> QED
  BY <1>1, <1>5, <1>6, FS_Bijection

\* A file has as many triggers as it says, no two of one ID.
LEMMA SaidFacts ==
  ASSUME NEW wf, NEW content, IsContent(content), ~TwoGroupsOfOneName(content),
         IsFiniteSet(AllTriggers(wf, content))
  PROVE  Cardinality(AllTriggers(wf, content)) = Said(content)
<1> DEFINE P == UNION {{k} \X DOMAIN content[k].triggers : k \in DOMAIN content}
           f == [x \in P |-> TriggerIDs(wf, content[x[1]])[x[2]]]
<1>1. \A x \in P : /\ x[1] \in DOMAIN content /\ x[2] \in DOMAIN content[x[1]].triggers
                   /\ x = <<x[1], x[2]>>
  OBVIOUS
<1>2. \A k \in DOMAIN content : \A i \in DOMAIN content[k].triggers : <<k, i>> \in P
  OBVIOUS
<1>3. \A x \in P : f[x] = TriggerIDs(wf, content[x[1]])[x[2]]
  OBVIOUS
<1>4. \A k \in DOMAIN content :
        /\ DOMAIN TriggerIDs(wf, content[k]) = DOMAIN content[k].triggers
        /\ Unique(TriggerIDs(wf, content[k]))
        /\ \A t \in ToSet(TriggerIDs(wf, content[k])) : Parent(t) = GroupID(wf, content[k].name)
  BY ContentGroups, GroupTriggers
<1>5. \A t : t \in AllTriggers(wf, content)
               <=> \E k \in DOMAIN content : \E i \in DOMAIN content[k].triggers :
                     t = TriggerIDs(wf, content[k])[i]
  BY <1>4 DEF AllTriggers, ToSet
<1> DEFINE g == f
<1>6. g = [x \in P |-> g[x]]
  OBVIOUS
<1> HIDE DEF P, f, g
<1> USE DEF g
<1>7. f \in [P -> AllTriggers(wf, content)]
  BY <1>1, <1>3, <1>5, <1>6
<1>8. ASSUME NEW x \in P, NEW y \in P, f[x] = f[y] PROVE x = y
  <2>1. Parent(f[x]) = GroupID(wf, content[x[1]].name) /\ Parent(f[y]) = GroupID(wf, content[y[1]].name)
    BY <1>1, <1>3, <1>4 DEF ToSet
  <2>2. content[x[1]].name = content[y[1]].name
    BY <1>8, <2>1 DEF GroupID
  <2>3. x[1] = y[1]
    BY <1>1, <2>2 DEF TwoGroupsOfOneName
  <2>4. x[2] = y[2]
    BY <1>1, <1>3, <1>4, <1>8, <2>3 DEF Unique
  <2> QED
    BY <1>1, <2>3, <2>4
<1>9. \A t \in AllTriggers(wf, content) : \E x \in P : f[x] = t
  <2> SUFFICES ASSUME NEW t \in AllTriggers(wf, content) PROVE \E x \in P : f[x] = t
    OBVIOUS
  <2>0. PICK k \in DOMAIN content : \E i \in DOMAIN content[k].triggers : t = TriggerIDs(wf, content[k])[i]
    BY <1>5
  <2>1. PICK i \in DOMAIN content[k].triggers : t = TriggerIDs(wf, content[k])[i]
    BY <2>0
  <2>2. <<k, i>> \in P /\ <<k, i>>[1] = k /\ <<k, i>>[2] = i
    BY <1>2
  <2>3. f[<<k, i>>] = t
    BY <1>3, <2>1, <2>2
  <2> QED
    BY <2>2, <2>3
<1>10. ExistsBijection(P, AllTriggers(wf, content))
  <2>1. f \in Injection(P, AllTriggers(wf, content))
    BY <1>7, <1>8 DEF Injection, IsInjective
  <2>2. f \in Surjection(P, AllTriggers(wf, content))
    BY <1>7, <1>9 DEF Surjection
  <2> QED
    BY <2>1, <2>2 DEF Bijection, ExistsBijection
<1>11. Cardinality(P) = Cardinality(AllTriggers(wf, content))
  BY <1>10, Fun_ExistsBijSymmetric, FS_Bijection
<1> QED
  BY <1>11 DEF Said, P

\* The scans of the maps find what the file has.
LEMMA ScanFacts ==
  ASSUME RegistryAssumption, NEW reg, Holds(Maps, reg), NEW p \in DOMAIN reg
  PROVE  LET wf == RecurfileID(p) IN
         /\ RecurfileTriggers(wf) = AllTriggers(wf, reg[p])
         /\ RecurfileActions(wf) = AllActions(wf, reg[p])
<1>1. \A q \in DOMAIN reg : IsContent(reg[q])
  BY DEF Holds, RegistryAssumption
<1>2. \A q \in DOMAIN reg : RecurfileID(q) = RecurfileID(p) => q = p
  BY RecurfileIDs
<1>3. \A t : t \in RecurfileTriggers(RecurfileID(p)) <=> t \in AllTriggers(RecurfileID(p), reg[p])
  <2>1. \A t : t \in DOMAIN triggers <=> \E q \in DOMAIN reg : t \in AllTriggers(RecurfileID(q), reg[q])
    BY DEF Holds, Maps
  <2>2. \A q \in DOMAIN reg : \A t \in AllTriggers(RecurfileID(q), reg[q]) :
          RecurfileOfTrigger(t) = RecurfileID(q)
    BY <1>1, OwnersOf
  <2> QED
    BY <1>2, <2>1, <2>2 DEF RecurfileTriggers
<1>4. \A a : a \in RecurfileActions(RecurfileID(p)) <=> a \in AllActions(RecurfileID(p), reg[p])
  <2>1. \A a : a \in DOMAIN actions <=> \E q \in DOMAIN reg : a \in AllActions(RecurfileID(q), reg[q])
    BY DEF Holds, Maps
  <2>2. \A q \in DOMAIN reg : \A a \in AllActions(RecurfileID(q), reg[q]) :
          RecurfileOfAction(a) = RecurfileID(q)
    BY <1>1, OwnersOf
  <2> QED
    BY <1>2, <2>1, <2>2 DEF RecurfileActions
<1> QED
  BY <1>3, <1>4

\* The actions that a trigger runs are its own, each once.
LEMMA RunsItsOwn ==
  ASSUME RegistryAssumption, NEW reg, Holds(Maps, reg), NEW p \in DOMAIN reg,
         NEW t \in AllTriggers(RecurfileID(p), reg[p])
  PROVE  /\ ToSet(GetActionsForTrigger(t)) = TriggerActionIDs(t)
         /\ Len(GetActionsForTrigger(t)) = Cardinality(TriggerActionIDs(t))
<1>w. PICK wf : wf = RecurfileID(p)
  OBVIOUS
<1>c. PICK content : content = reg[p]
  OBVIOUS
<1> USE <1>w, <1>c
<1>1. IsContent(content) /\ ~TwoGroupsOfOneName(content)
  BY HeldGroups DEF Holds
<1>2. PICK k \in DOMAIN content : t \in ToSet(TriggerIDs(wf, content[k]))
  BY DEF AllTriggers
<1>3. IsGroup(content[k]) /\ Parent(t) = GroupID(wf, content[k].name)
  BY <1>1, <1>2, ContentGroups, GroupTriggers
<1>4. Parent(t) \in DOMAIN groups /\ groups[Parent(t)] = GroupRecord(wf, content[k])
  BY <1>1, <1>2, <1>3, HeldGroups, FileGroups
<1>5. t \in DOMAIN triggers
  BY DEF Holds, Maps
<1>6. PICK as : as = ActionIDs(wf, content[k])
  OBVIOUS
<1>7. groups[Parent(t)].actions = as /\ IsList(as) /\ Unique(as)
  BY <1>3, <1>4, <1>6, GroupActions DEF GroupRecord
<1>8. PICK n \in Nat : DOMAIN as = 1..n
  BY <1>7, ListDomain
<1> DEFINE s == [i \in 1..n |-> IF as[i] \in DOMAIN actions /\ Parent(as[i]) = t THEN <<as[i]>> ELSE << >>]
<1>9. GetActionsForTrigger(t) = FlattenSeq(s)
  BY <1>4, <1>5, <1>7, <1>8 DEF GetActionsForTrigger
<1>10. s = [i \in 1..n |-> s[i]]
  OBVIOUS
<1>11. \A i \in 1..n : s[i] = IF as[i] \in DOMAIN actions /\ Parent(as[i]) = t THEN <<as[i]>> ELSE << >>
  OBVIOUS
<1> HIDE DEF s
<1>12. \A i \in 1..n : /\ IsList(s[i]) /\ Unique(s[i])
                       /\ ToSet(s[i]) = IF as[i] \in DOMAIN actions /\ Parent(as[i]) = t THEN {as[i]} ELSE {}
  <2>1. IsList(<< >>) /\ Unique(<< >>) /\ ToSet(<< >>) = {}
    BY DEF IsList, Unique, ToSet
  <2> QED
    BY <1>11, <2>1, SingletonList
<1>13. \A i, j \in 1..n : i # j => ToSet(s[i]) \intersect ToSet(s[j]) = {}
  <2>1. \A i, j \in 1..n : i # j => as[i] # as[j]
    BY <1>7, <1>8 DEF Unique
  <2>2. \A i \in 1..n : \A x \in ToSet(s[i]) : x = as[i]
    BY <1>12
  <2> QED
    BY <2>1, <2>2
<1>14. /\ IsList(FlattenSeq(s)) /\ Unique(FlattenSeq(s))
       /\ ToSet(FlattenSeq(s)) = UNION {ToSet(s[i]) : i \in 1..n}
  BY <1>10, <1>12, <1>13, FlattenList
<1>15. ASSUME NEW a \in TriggerActionIDs(t) PROVE a \in ToSet(as)
  <2>1. a \in DOMAIN actions /\ Parent(a) = t
    BY <1>15 DEF TriggerActionIDs
  <2>2. PICK q \in DOMAIN reg : a \in AllActions(RecurfileID(q), reg[q])
    BY <2>1 DEF Holds, Maps
  <2>3. IsContent(reg[q])
    BY HeldGroups
  <2>4. RecurfileOfAction(a) = RecurfileID(q) /\ RecurfileOfTrigger(t) = wf
    BY <1>1, <2>2, <2>3, OwnersOf
  <2>5. q = p
    <3>1. RecurfileID(q) = RecurfileID(p)
      BY <2>1, <2>4 DEF RecurfileOfAction
    <3> QED
      BY <3>1, RecurfileIDs
  <2>6. PICK j \in DOMAIN content : a \in ToSet(ActionIDs(wf, content[j]))
    BY <2>2, <2>5 DEF AllActions
  <2>7. Parent(t) = GroupID(wf, content[j].name)
    BY <1>1, <2>1, <2>6, ContentGroups, GroupOfActions
  <2>8. content[j].name = content[k].name
    BY <1>3, <2>7 DEF GroupID
  <2>9. j = k
    BY <1>1, <2>8 DEF TwoGroupsOfOneName
  <2> QED
    BY <1>6, <2>6, <2>9
<1>16. \A a : a \in ToSet(FlattenSeq(s)) <=> a \in TriggerActionIDs(t)
  <2>1. \A a : a \in ToSet(FlattenSeq(s)) <=> a \in ToSet(as) /\ a \in DOMAIN actions /\ Parent(a) = t
    <3>1. \A a : a \in ToSet(FlattenSeq(s)) <=> \E i \in 1..n : a \in ToSet(s[i])
      BY <1>14
    <3>2. \A a : a \in ToSet(as) <=> \E i \in 1..n : a = as[i]
      BY <1>8 DEF ToSet
    <3>3. \A i \in 1..n : \A a : a \in ToSet(s[i]) <=> a = as[i] /\ a \in DOMAIN actions /\ Parent(a) = t
      BY <1>12
    <3> QED
      BY <3>1, <3>2, <3>3
  <2> QED
    BY <1>15, <2>1 DEF TriggerActionIDs
<1>17. ToSet(FlattenSeq(s)) = TriggerActionIDs(t)
  BY <1>16
<1> QED
  BY <1>9, <1>14, <1>17, UniqueCount

LEMMA MapsAgree == MapsInv => ViewsAgree
<1> SUFFICES ASSUME MapsInv, ~tainted, NEW wf \in DOMAIN recurfiles
             PROVE  /\ ToSet(Listed(wf, "triggers")) = RecurfileTriggers(wf)
                    /\ ToSet(Listed(wf, "actions")) = RecurfileActions(wf)
                    /\ Cardinality(RecurfileTriggers(wf)) = Said(registered[wf[2]])
                    /\ TriggerCount(wf) = Cardinality(RecurfileTriggers(wf))
                    /\ ActionCount(wf) = Cardinality(RecurfileActions(wf))
                    /\ \A t \in RecurfileTriggers(wf) :
                         /\ ToSet(GetActionsForTrigger(t)) = TriggerActionIDs(t)
                         /\ Len(GetActionsForTrigger(t)) = Cardinality(TriggerActionIDs(t))
  BY DEF ViewsAgree
<1>1. Holds(Maps, registered)
  BY DEF MapsInv
<1>2. PICK p \in DOMAIN registered : wf = RecurfileID(p) /\ wf[2] = p
  BY <1>1, RecurfileIDs DEF Holds, Maps
<1>3. IsContent(registered[p]) /\ ~TwoGroupsOfOneName(registered[p])
  BY <1>1, RegistryAssumption, HeldGroups DEF Holds
<1>4. /\ ToSet(Listed(wf, "triggers")) = AllTriggers(wf, registered[p])
      /\ ToSet(Listed(wf, "actions")) = AllActions(wf, registered[p])
      /\ IsList(Listed(wf, "triggers")) /\ Unique(Listed(wf, "triggers"))
      /\ IsList(Listed(wf, "actions")) /\ Unique(Listed(wf, "actions"))
  BY <1>1, <1>2, RegistryAssumption, ListedFacts
<1>5. /\ RecurfileTriggers(wf) = AllTriggers(wf, registered[p])
      /\ RecurfileActions(wf) = AllActions(wf, registered[p])
  BY <1>1, <1>2, RegistryAssumption, ScanFacts
<1>6. /\ IsFiniteSet(AllTriggers(wf, registered[p]))
      /\ Cardinality(AllTriggers(wf, registered[p])) = TriggerCount(wf)
      /\ Cardinality(AllActions(wf, registered[p])) = ActionCount(wf)
  BY <1>4, UniqueCount DEF TriggerCount, ActionCount
<1>7. Cardinality(AllTriggers(wf, registered[p])) = Said(registered[p])
  BY <1>3, <1>6, SaidFacts
<1>8. ASSUME NEW t \in RecurfileTriggers(wf)
      PROVE  /\ ToSet(GetActionsForTrigger(t)) = TriggerActionIDs(t)
             /\ Len(GetActionsForTrigger(t)) = Cardinality(TriggerActionIDs(t))
  BY <1>1, <1>2, <1>5, RegistryAssumption, RunsItsOwn
<1> QED
  BY <1>2, <1>4, <1>5, <1>6, <1>7, <1>8

\* ViewsAgree holds for every registry: what the groups of a recurfile list is
\* what a scan of the maps finds, as much as the file says, and a trigger that
\* fires runs its own actions, each once (registry.go:442, :500, :558, :572).
THEOREM ViewsAlwaysAgree == Spec => []ViewsAgree
<1> QED
  BY MapsInit, MapsStep, MapsAgree, PTL DEF Spec
=============================================================================
