-------------------------------- MODULE IdTable --------------------------------
(***************************************************************************)
(* The table of ids of the exporter, and the messages that go with it      *)
(* from the driver to the engines.                                         *)
(*                                                                         *)
(* A type, a definition id or an item reference is exported as a node: a   *)
(* value with an id, recorded in the table of the crate's session.  A      *)
(* document is written with its table (`WithTable::run`): each node in it, *)
(* and each node inside a value of the table, is then written as its id    *)
(* only.  A reader rebuilds the values from the ids while it reads, in a   *)
(* global table that serde cannot pass along.  Without `run`, nodes are    *)
(* written with their values.                                              *)
(*                                                                         *)
(* The driver of each crate writes its haxmeta file; cargo-hax reads them  *)
(* one after the other and forwards each to a new Rust engine, which asks  *)
(* the OCaml engine a first question with the table and the next ones      *)
(* without; or cargo-hax writes them as JSON.                              *)
(***************************************************************************)
EXTENDS Integers, Sequences, FiniteSets

CONSTANTS
  Type,      \* the types of values: TyKind, DefIdContents, ItemRefContents
  Crates,    \* bound: crates
  MaxNodes,  \* bound: nodes of each crate
  Commands   \* "rust" and "ocaml" (`into`, by engine), "json", "jsonIds" (--use-ids)

ASSUME BoundsAssumption == Crates \in Nat \ {0} /\ MaxNodes \in [1..Crates -> Nat]
ASSUME CommandsAssumption == Commands \subseteq {"rust", "ocaml", "json", "jsonIds"}

Process == {"cargo-hax", "engine"}
None == [none |-> TRUE]
Empty == [i \in {} |-> None]

VARIABLES
  command,   \* the command of cargo-hax
  crate,     \* the crate being treated
  at,        \* "export", "open", "read", "have", "asked", "end" or "panic"
  proc,      \* the process that reads or holds a document
  session,   \* the Session of the driver: its next id, its table
  held,      \* the nodes the driver holds
  original,  \* original[c]: what the driver of c exported
  file,      \* file[c]: its haxmeta file
  useIds,    \* SERIALIZATION_MODE_USE_IDS of each process
  state,     \* DESERIALIZATION_STATE of each process
  reading,   \* the message being read, how far, what of its table is read, and the state put aside
  doc,       \* the document the process has read
  kept,      \* the nodes of the original that this document should have
  wire       \* the last message for the OCaml engine or for the reader of the JSON

exportVars == <<session, held, original, file>>
readVars == <<state, reading, doc>>
vars == <<command, crate, at, proc, exportVars, useIds, readVars, kept, wire>>

NewSession == [next |-> 0, table |-> Empty]
NotReading == [msg |-> None, pos |-> 0, table |-> Empty, saved |-> Empty]

Init ==
  /\ command \in Commands
  /\ crate = 1 /\ at = "export" /\ proc = "cargo-hax"
  /\ session = NewSession /\ held = {}
  /\ original = << >> /\ file = << >>
  /\ useIds = [p \in Process |-> FALSE]
  /\ state = [p \in Process |-> Empty]
  /\ reading = NotReading
  /\ doc = None /\ kept = {} /\ wire = None

(***************************************************************************)
(* Nodes and tables.  A value has the nodes in `sub`; `data` stands for    *)
(* the rest of it.                                                         *)
(***************************************************************************)
Node(id, v) == [id |-> id, type |-> v.type, value |-> v]

Insert(table, id, v) == [i \in DOMAIN table \cup {id} |-> IF i = id THEN v ELSE table[i]]
\* Variant: the id is not used up.
FreshId_Same(s) == [s EXCEPT !.next = 0]
FreshId(s) == [s EXCEPT !.next = @ + 1]

\* `Node::new`, with nodes made before.
New(type, sub) ==
  /\ at = "export"
  /\ Cardinality(held) < MaxNodes[crate]
  /\ LET v == [type |-> type, data |-> Cardinality(held), sub |-> sub] IN
     /\ session' = [FreshId(session) EXCEPT !.table = Insert(@, session.next, v)]
     /\ held' = held \cup {Node(session.next, v)}
  /\ UNCHANGED <<command, crate, at, proc, original, file, useIds, readVars, kept, wire>>

(***************************************************************************)
(* Writing.                                                                *)
(***************************************************************************)
\* NodeRepr of a node, when the ids are used and when not.
Repr(n, ids) == IF ids THEN [n EXCEPT !.value = None] ELSE n
ReprValue(v, ids) == [v EXCEPT !.sub = {Repr(n, ids) : n \in @}]

\* Variant: in the order of the hash map.
SortedIds_Hash(table) ==
  CHOOSE s \in [1..Cardinality(DOMAIN table) -> DOMAIN table] :
    \A i, j \in DOMAIN s : i < j => s[i] > s[j]

\* The ids of a table, smallest first.
SortedIds(table) ==
  CHOOSE s \in [1..Cardinality(DOMAIN table) -> DOMAIN table] :
    \A i, j \in DOMAIN s : i < j => s[i] < s[j]

Pairs(table) ==
  LET ids == SortedIds(table)
  IN  [k \in DOMAIN ids |-> [id |-> ids[k], value |-> ReprValue(table[ids[k]], TRUE)]]

\* A document written by `WithTable::run`, and one written alone.
WithTable(table, root) == [pairs |-> Pairs(table), root |-> {Repr(n, TRUE) : n \in root}]
Alone(root, ids) == [pairs |-> << >>, root |-> {Repr(n, ids) : n \in root}]

\* Variant: `run` leaves the mode on.
FlagAfterRun_On == TRUE
FlagAfterRun == FALSE

\* `run` panics when it finds the mode on, before it writes anything.
Run(p, to) ==
  /\ at' = IF useIds[p] THEN "panic" ELSE to
  /\ useIds' = [useIds EXCEPT ![p] = IF @ THEN @ ELSE FlagAfterRun]
Written(p, m) == IF useIds[p] THEN wire ELSE m

\* The driver writes the document with the session's table and ends; the
\* driver of the next crate starts with a session of its own.
Export(root) ==
  /\ at = "export"
  /\ original' = Append(original, [table |-> session.table, root |-> root])
  /\ file' = Append(file, WithTable(session.table, root))
  /\ session' = NewSession /\ held' = {}
  /\ IF crate < Crates THEN crate' = crate + 1 /\ UNCHANGED at ELSE crate' = 1 /\ at' = "open"
  /\ UNCHANGED <<command, proc, useIds, readVars, kept, wire>>

(***************************************************************************)
(* Reading (`WithTable::deserialize`).                                     *)
(***************************************************************************)
Open(m) ==
  /\ reading' = [msg |-> m, pos |-> 0, table |-> Empty, saved |-> state[proc]]
  /\ state' = [state EXCEPT ![proc] = Empty]
  /\ UNCHANGED doc

OpenFile ==
  /\ at = "open" /\ proc = "cargo-hax"
  /\ Open(file[crate])
  /\ at' = "read" /\ kept' = original[crate].root
  /\ UNCHANGED <<command, crate, proc, exportVars, useIds, wire>>

\* `Node::try_from`: a node without a value is looked up, at its type.
Resolves(n) ==
  \/ n.value # None
  \/ n.id \in DOMAIN state[proc] /\ state[proc][n.id].type = n.type
Resolve(n) == IF n.value # None THEN n ELSE [n EXCEPT !.value = state[proc][n.id]]

\* The next pair goes into the global table as soon as it is read.
ReadPair ==
  /\ at = "read" /\ reading.pos < Len(reading.msg.pairs)
  /\ LET pair == reading.msg.pairs[reading.pos + 1]
         v == [pair.value EXCEPT !.sub = {Resolve(n) : n \in @}]
     IN  IF \A n \in pair.value.sub : Resolves(n)
         THEN /\ state' = [state EXCEPT ![proc] = Insert(@, pair.id, v)]
              /\ reading' = [reading EXCEPT !.pos = @ + 1, !.table = Insert(@, pair.id, v)]
              /\ UNCHANGED at
         ELSE at' = "panic" /\ UNCHANGED <<state, reading>>
  /\ UNCHANGED <<command, crate, proc, exportVars, useIds, doc, kept, wire>>

ReadRoot ==
  /\ at = "read" /\ reading.pos = Len(reading.msg.pairs)
  /\ state' = [state EXCEPT ![proc] = reading.saved]
  /\ reading' = NotReading
  /\ IF \A n \in reading.msg.root : Resolves(n)
     THEN doc' = [table |-> reading.table, root |-> {Resolve(n) : n \in reading.msg.root}] /\ at' = "have"
     ELSE at' = "panic" /\ UNCHANGED doc
  /\ UNCHANGED <<command, crate, proc, exportVars, useIds, kept, wire>>

(***************************************************************************)
(* What the processes do with a document.                                  *)
(***************************************************************************)
Done == IF crate < Crates THEN "open" ELSE "end"
NextCrate == crate' = IF crate < Crates THEN crate + 1 ELSE crate

\* `run_engine` with a Rust engine, a new process, perhaps after `prune_haxmeta`.
Forward(root) ==
  /\ at = "have" /\ proc = "cargo-hax" /\ command = "rust"
  /\ Run(proc, "read")
  /\ proc' = "engine" /\ kept' = root
  /\ state' = [state EXCEPT !["engine"] = Empty]
  /\ reading' = [msg |-> WithTable(doc.table, root), pos |-> 0, table |-> Empty, saved |-> Empty]
  /\ UNCHANGED <<command, crate, exportVars, doc, wire>>

\* `run_engine` with the OCaml engine, and `cargo hax json --use-ids`.
WriteWithTable(root) ==
  /\ at = "have" /\ proc = "cargo-hax" /\ command \in {"ocaml", "jsonIds"}
  /\ command = "jsonIds" => root = doc.root
  /\ Run(proc, Done)
  /\ wire' = Written(proc, WithTable(doc.table, root))
  /\ NextCrate
  /\ UNCHANGED <<command, proc, exportVars, readVars, kept>>

\* `cargo hax json`.
WriteAlone ==
  /\ at = "have" /\ proc = "cargo-hax" /\ command = "json"
  /\ wire' = Alone(doc.root, useIds[proc])
  /\ at' = Done
  /\ NextCrate
  /\ UNCHANGED <<command, proc, exportVars, useIds, readVars, kept>>

\* The Rust engine asks the OCaml engine to import the items, with the table.
QueryImport ==
  /\ at = "have" /\ proc = "engine"
  /\ Run(proc, "asked")
  /\ wire' = Written(proc, WithTable(doc.table, doc.root))
  /\ UNCHANGED <<command, crate, proc, exportVars, readVars, kept>>

\* Its later questions have no table; their metadata has nodes.  Then it ends.
QueryPlain ==
  /\ at = "asked"
  /\ wire' = Alone(doc.root, useIds[proc])
  /\ at' = Done /\ proc' = "cargo-hax"
  /\ useIds' = [useIds EXCEPT !["engine"] = FALSE]
  /\ NextCrate
  /\ UNCHANGED <<command, exportVars, readVars, kept>>

Ended == at \in {"end", "panic"} /\ UNCHANGED vars

Driver ==
  \/ \E type \in Type, sub \in SUBSET held : New(type, sub)
  \/ \E root \in SUBSET held : Export(root)
Reader == OpenFile \/ ReadPair \/ ReadRoot
Writer ==
  \/ at = "have" /\ \E root \in SUBSET doc.root : Forward(root) \/ WriteWithTable(root)
  \/ WriteAlone \/ QueryImport \/ QueryPlain
Next == Driver \/ Reader \/ Writer \/ Ended

Spec == Init /\ [][Next]_vars

(***************************************************************************)
(* Properties.                                                             *)
(***************************************************************************)
IsTable(table) == DOMAIN table \in SUBSET Nat /\ \A i \in DOMAIN table : table[i].type \in Type

\* Every variable has its type, and a session uses its ids from 0 on.
TypeOK ==
  /\ command \in Commands /\ crate \in 1..Crates /\ proc \in Process
  /\ at \in {"export", "open", "read", "have", "asked", "end", "panic"}
  /\ session.next \in 0..MaxNodes[crate] /\ DOMAIN session.table = 0..(session.next - 1)
  /\ IsTable(session.table)
  /\ Len(original) \in 0..Crates /\ Len(file) = Len(original)
  /\ useIds \in [Process -> BOOLEAN]
  /\ \A p \in Process : IsTable(state[p])
  /\ IsTable(reading.table)

\* No reader ever meets an id it does not know or knows at another type, and
\* no document is written inside the writing of another: Node::try_from
\* always succeeds and `run` never finds the mode on.
EveryIdResolves == at # "panic"

\* Every table in memory is one of nodes with their types, and a table that is read resolves.
TablesOK == TypeOK /\ EveryIdResolves

\* What a process has read is what the driver of this crate exported, but for
\* the items pruned on the way: the ids lead to the values they were given for,
\* whatever was read before in the same process, and all of the table is there
\* to be sent further.
RoundTrip ==
  at \in {"have", "asked"} =>
    /\ doc.table = original[crate].table
    /\ doc.root = kept
    /\ kept \subseteq original[crate].root

\* A message that leaves hax's own readers (for the OCaml engine, which keeps
\* the table in a hash table and fails on an id added twice, or for the reader
\* of the JSON) tells all: each node in it has its value, or is in the message's table, once and at its type.
MessagesSelfContained ==
  wire # None =>
    LET pairs == wire.pairs
        nodes == wire.root \cup UNION {pairs[k].value.sub : k \in DOMAIN pairs}
    IN  /\ \A j, k \in DOMAIN pairs : pairs[j].id = pairs[k].id => j = k
        /\ \A n \in nodes : n.value = None =>
             \E k \in DOMAIN pairs : pairs[k].id = n.id /\ pairs[k].value.type = n.type
=============================================================================
