---------------------------- MODULE RecurfileText ----------------------------
(***************************************************************************)
(* The text of a recurfile: what the parser reads from it                  *)
(* (src/infra/yaml/recurfile/parse.go), the fragment that recur add writes *)
(* (stub.go) and how the fragment is merged into a file                    *)
(* (src/domain/recurfile/merge.go).                                        *)
(*                                                                         *)
(* A text is the sequence that splitting it at the newlines gives; a line  *)
(* is its column, whether it starts with a dash, its key and its value.    *)
(* Comments are blank lines, the options of triggers and actions are left  *)
(* out, and secrets are told apart only by whether they can be read.       *)
(***************************************************************************)
EXTENDS Naturals, Sequences, SequencesExt, FiniteSets

CONSTANTS Invalid \* a text that is not accepted

Line(column, key, val) == [at |-> column, item |-> FALSE, key |-> key, val |-> val]
Item(column, key, val) == [at |-> column, item |-> TRUE, key |-> key, val |-> val]
Blank == Line(0, "", "")
Lines == [at : Nat, item : BOOLEAN, key : STRING, val : STRING]

\* strings.TrimSpace(line) == key + ":"
IsHeader(line, key) == ~line.item /\ line.key = key /\ line.val = ""

-----------------------------------------------------------------------------
(* The YAML library. *)

Solid(text) == {i \in DOMAIN text : text[i] # Blank}

\* The line that a line is nested in, 0 for the top level.
ParentOf(text, j) ==
  LET outer == {i \in Solid(text) : i < j /\ text[i].at < text[j].at}
  IN IF outer = {} THEN 0 ELSE Max(outer)

ChildrenOf(text, i) == {j \in Solid(text) : ParentOf(text, j) = i}

\* Every line sits where its parent allows: the rest of an item two columns to the
\* right, the entries under a key in one column, all items or none.
WellFormed(text) ==
  \A j \in Solid(text) :
    LET p == ParentOf(text, j) IN
    IF p = 0 THEN text[j].at = 0 /\ ~text[j].item
    ELSE IF text[p].item THEN text[j].at = text[p].at + 2 /\ ~text[j].item
    ELSE /\ text[p].val = ""
         /\ \A k \in ChildrenOf(text, p) : text[k].at = text[j].at /\ text[k].item = text[j].item

\* The entries of an item's mapping, as lines: its own and the ones below it.
EntriesOf(text, i) == {i} \union ChildrenOf(text, i)

\* The line of a key among some lines; of a key given twice the last counts.
Find(text, lines, key) ==
  LET found == {i \in lines : text[i].key = key} IN IF found = {} THEN 0 ELSE Max(found)

\* What stands under a key is a list.
IsList(text, i) == \E j \in ChildrenOf(text, i) : text[j].item

\* Some lines of a text, from the first to the last: up to the n-th there are n of them.
InOrder(lines) ==
  [n \in 1..Cardinality(lines) |-> CHOOSE i \in lines : Cardinality({j \in lines : j <= i}) = n]

-----------------------------------------------------------------------------
(* The parser: the faults it finds, and what it reads if there are none. *)

ReservedActionKeys == {"name", "options"}

\* parseAction: the detailed form has a type, the shorthand form one key, the plugin's.
ActionFault(text, i) ==
  LET keys == {text[j].key : j \in EntriesOf(text, i)} IN
  IF "type" \in keys
  THEN ~(keys \subseteq {"type", "name"})
  ELSE Cardinality(keys) > 1 \/ keys \intersect ReservedActionKeys # {}

ActionAt(text, i) ==
  LET t == Find(text, EntriesOf(text, i), "type") IN IF t # 0 THEN text[t].val ELSE text[i].key

ActionsFault(text, i) ==
  ~IsList(text, i) \/ \E j \in ChildrenOf(text, i) : ActionFault(text, j)

ParseActions(text, i) ==
  IF i = 0 THEN <<>>
  ELSE LET items == InOrder(ChildrenOf(text, i)) IN [n \in DOMAIN items |-> ActionAt(text, items[n])]

TriggerFault(text, i) ==
  LET entries == EntriesOf(text, i)
      keys == {text[j].key : j \in entries}
      do == Find(text, entries, "do")
  IN \/ "type" \notin keys \/ ~(keys \subseteq {"type", "name", "do"})
     \/ do # 0 /\ ActionsFault(text, do)

TriggerAt(text, i) ==
  [type    |-> text[Find(text, EntriesOf(text, i), "type")].val,
   actions |-> ParseActions(text, Find(text, EntriesOf(text, i), "do"))]

TriggersFault(text, i) ==
  ~IsList(text, i) \/ \E j \in ChildrenOf(text, i) : TriggerFault(text, j)

ParseTriggers(text, i) ==
  LET items == InOrder(ChildrenOf(text, i)) IN [n \in DOMAIN items |-> TriggerAt(text, items[n])]

\* parseAliases: a mapping of names to names.
AliasesFault(text, i) ==
  ChildrenOf(text, i) = {} \/ IsList(text, i) \/ \E j \in ChildrenOf(text, i) : text[j].val = ""

ParseAliases(text, i) ==
  IF i = 0 THEN <<>>
  ELSE LET entries == ChildrenOf(text, i)
       IN [k \in {text[j].key : j \in entries} |-> text[Find(text, entries, k)].val]

\* "triggers" is taken for "on".
OnOf(text, sections) ==
  LET on == Find(text, sections, "on") IN IF on # 0 THEN on ELSE Find(text, sections, "triggers")

GroupFault(text, i) ==
  LET sections == ChildrenOf(text, i)
      on == OnOf(text, sections)
      do == Find(text, sections, "do")
      aliases == Find(text, sections, "aliases")
  IN \/ sections = {} \/ IsList(text, i)
     \/ aliases # 0 /\ AliasesFault(text, aliases)
     \/ on = 0
     \/ on # 0 /\ TriggersFault(text, on)
     \/ do # 0 /\ ActionsFault(text, do)
     \/ ~({text[j].key : j \in sections} \subseteq {"aliases", "on", "triggers", "do"})

ParseGroup(text, i) ==
  LET sections == ChildrenOf(text, i) IN
  [name     |-> text[i].key,
   aliases  |-> ParseAliases(text, Find(text, sections, "aliases")),
   triggers |-> ParseTriggers(text, OnOf(text, sections)),
   actions  |-> ParseActions(text, Find(text, sections, "do"))]

\* parseSecrets: a reference that none of the forms matches is a fault.
SecretsFault(text, i) ==
  ChildrenOf(text, i) = {} \/ IsList(text, i) \/ \E j \in ChildrenOf(text, i) : text[j].val = "unrecognized"

Reserved == {"aliases", "secrets"}

TopLevel(text) == ChildrenOf(text, 0)
GroupLines(text) == {i \in TopLevel(text) : text[i].key \notin Reserved}

\* Parse: all faults are gathered; a file without a group is one.
Parse(text) ==
  LET aliases == Find(text, TopLevel(text), "aliases")
      secrets == {i \in TopLevel(text) : text[i].key = "secrets"}
      groups == InOrder(GroupLines(text))
      fault == \/ ~WellFormed(text) \/ Solid(text) = {}
               \/ aliases # 0 /\ AliasesFault(text, aliases)
               \/ \E i \in secrets : SecretsFault(text, i)
               \/ GroupLines(text) = {} \/ \E i \in GroupLines(text) : GroupFault(text, i)
  IN IF fault THEN Invalid
     ELSE [aliases |-> ParseAliases(text, aliases),
           groups  |-> [n \in DOMAIN groups |-> ParseGroup(text, groups[n])]]

-----------------------------------------------------------------------------
(* The fragment and the merge. *)

Entries(column, types) == [n \in DOMAIN types |-> Item(column, "type", types[n])]

Section(key, types) == IF types = <<>> THEN <<>> ELSE <<Line(2, key, "")>> \o Entries(4, types)

\* GenerateGroupStub, without --stub.
GenerateGroupStub(name, triggers, actions) ==
  <<Line(0, name, "")>> \o Section("on", triggers) \o Section("do", actions) \o <<Blank>>

TypesOf(triggers) == [n \in DOMAIN triggers |-> triggers[n].type]

(* append(append(before, new...), after...) where before = lines[:k] and after = lines[k:] *)
(* are slices of one array of the given capacity: if it has room, the new lines are        *)
(* written over the first ones of after before these are copied.                           *)
Insert(lines, k, new, capacity) ==
  LET before == SubSeq(lines, 1, k)
      after == SubSeq(lines, k + 1, Len(lines))
      overwritten == [i \in DOMAIN after |-> IF i <= Len(new) THEN new[i] ELSE after[i]]
  IN before \o new \o (IF k + Len(new) <= capacity THEN overwritten ELSE after)

\* The first index in the range for which the condition holds, or the default.
First(range, Condition(_), default) ==
  LET found == {i \in range : Condition(i)} IN IF found = {} THEN default ELSE Min(found)

GroupIndex(lines, name) == First(DOMAIN lines, LAMBDA i : IsHeader(lines[i], name), 0)

\* The index of the last line before the next top-level key.
GroupEnd(lines, g) ==
  First(g + 1..Len(lines), LAMBDA i : lines[i] # Blank /\ lines[i].at = 0, Len(lines) + 1) - 1

\* New triggers go before the first "do:" that follows "on:", wherever it is nested.
InsertTriggers(lines, g, triggers) ==
  LET end == GroupEnd(lines, g)
      new == Entries(4, TypesOf(triggers))
      on == First(g + 1..end, LAMBDA i : IsHeader(lines[i], "on"), 0)
      do == First(on + 1..end, LAMBDA i : IsHeader(lines[i], "do"), end + 1)
  IN IF on # 0 THEN Insert(lines, do - 1, new, Len(lines))
     ELSE Insert(lines, g, <<Line(2, "on", "")>> \o new, Len(lines))

\* New actions go to the end of the first "do:" of the group, wherever it is nested.
InsertActions(lines, g, end, actions, capacity) ==
  LET new == Entries(4, actions)
      do == First(g + 1..end, LAMBDA i : IsHeader(lines[i], "do"), 0)
      doEnd == First(do + 1..end, LAMBDA i : lines[i] # Blank /\ ~lines[i].item, end + 1)
  IN IF do # 0 THEN Insert(lines, doEnd - 1, new, capacity)
     ELSE Insert(lines, end, <<Line(2, "do", "")>> \o new, capacity)

\* MergeGroupIntoYAML; groupEnd moves with the lines that were put in, and the array that
\* strings.Split made has been replaced by one of at least twice the size.
MergeGroupIntoYAML(text, fg) ==
  LET g == GroupIndex(text, fg.name)
      lines == InsertTriggers(text, g, fg.triggers)
      end == GroupEnd(text, g) + (Len(lines) - Len(text))
      capacity == Max({2 * Len(text), Len(lines)})
  IN IF g = 0 THEN text \o GenerateGroupStub(fg.name, TypesOf(fg.triggers), fg.actions)
     ELSE IF fg.actions = <<>> THEN lines
     ELSE InsertActions(lines, g, end, fg.actions, capacity)

\* Merge: the first group of the fragment that the file has is merged, and no other;
\* if there is none the fragment is appended.
Merge(existing, fragment) ==
  LET old == Parse(existing)
      new == Parse(fragment)
      names == {old.groups[n].name : n \in DOMAIN old.groups}
      both == {n \in DOMAIN new.groups : new.groups[n].name \in names}
  IN IF Solid(existing) = {} THEN fragment
     ELSE IF old = Invalid \/ new = Invalid THEN Invalid
     ELSE IF both # {} THEN MergeGroupIntoYAML(existing, new.groups[Min(both)])
     ELSE existing \o fragment
=============================================================================
