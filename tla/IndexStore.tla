----------------------------- MODULE IndexStore -----------------------------
(***************************************************************************)
(* The SQLite index (crates/codewiki-storage): the rows of `files`,        *)
(* `nodes`, `edges` and `unresolved_refs`, and what each storage call does *)
(* to them in its one transaction.                                         *)
(*                                                                         *)
(* A text is one content a source file can have, and stands for its        *)
(* SHA-256: the extractor is a function of (path, text), so the constants  *)
(* Defs, Uses and Local say what it finds in a text.  A node id hashes     *)
(* path, kind, name and line; here it is the pair <<file, symbol>>.        *)
(***************************************************************************)
EXTENDS Integers, FiniteSets

CONSTANTS
  File,      \* source files of the project
  Symbol,    \* what a text can define
  Name,      \* what a reference can say: a symbol or a qualified name
  Content,   \* the texts
  Defs,      \* text -> the symbols it defines
  Uses,      \* text -> pairs <<symbol, name>>: references it makes
  Answers,   \* name -> the symbols the resolver accepts for it
  Local,     \* text -> pairs of symbols: edges the extractor emits itself
  SizeOf,    \* text -> its length without a byte-order mark
  NoRow      \* "no such row in files"

Row == [hash : Content, mtime : Nat, size : Nat, count : Nat]
Node == File \X Symbol
Edge == Node \X Node
Ref == [gen : Nat, src : Node, name : Name]
Choice == [edge : Edge, from : SUBSET Ref]   \* a ResolvedEdge

ASSUME TextAssumption ==
  /\ Defs \in [Content -> SUBSET Symbol]
  /\ \A c \in Content : IsFiniteSet(Defs[c])
  /\ Symbol \subseteq Name
  /\ Answers \in [Name -> SUBSET Symbol]
  /\ Uses \in [Content -> SUBSET (Symbol \X Name)]
  /\ \A c \in Content : \A u \in Uses[c] : u[1] \in Defs[c]
     \* several references between two symbols count as one
  /\ \A c \in Content : \A u, v \in Uses[c] :
       u # v /\ u[1] = v[1] => Answers[u[2]] \cap Answers[v[2]] = {}
  /\ Local \in [Content -> SUBSET (Symbol \X Symbol)]
  /\ SizeOf \in [Content -> Nat]
  /\ NoRow \notin Row

VARIABLES
  files,   \* file -> its row, or NoRow
  nodes,   \* the node ids present
  edges,   \* how many rows join a given pair of nodes (no UNIQUE on edges)
  refs,    \* unresolved_refs; gen stands for the AUTOINCREMENT id, never reused
  gen      \* next id

store == <<files, nodes, edges, refs, gen>>

StoreTypeOK ==
  /\ files \in [File -> Row \cup {NoRow}]
  /\ nodes \in SUBSET Node
  /\ edges \in [Edge -> Nat]
  /\ refs \in SUBSET Ref
  /\ gen \in Nat

-----------------------------------------------------------------------------
(* The FileRecord extraction returns for text c with timestamp t. *)
Extract(c, t) ==
  [hash |-> c, mtime |-> t, size |-> SizeOf[c], count |-> Cardinality(Defs[c])]

(* Extracted edges with an end the text never defined: "an extraction bug   *)
(* can emit an orphan edge" (storage_impl.rs:138).                          *)
Orphans(c) == Local[c] \ (Defs[c] \X Defs[c])

NodesOf(f, c) == {f} \X Defs[c]

(* Mutant: the gate looks at the node count alone. *)
SkipsByCount(f, row) == files[f] # NoRow /\ files[f].count = row.count
(* The hash gate: the stored row already describes this batch. *)
Skips(f, row) ==
  /\ files[f] # NoRow
  /\ files[f].hash = row.hash
  /\ files[f].count = row.count

(* Mutant: only the edges into the files S. *)
Enters(e, S) == e[2][1] \in S
(* An end of edge e is a node of the files S. *)
Touches(e, S) == e[1][1] \in S \/ e[2][1] \in S

IsLocal(e, row) ==
  /\ e[1][1] = e[2][1]
  /\ <<e[1][2], e[2][2]>> \in Local[row.hash] \ Orphans(row.hash)

(* Replace what is stored for the files S by what `row` describes.  Deleting *)
(* the old nodes cascades to every edge with an end in S, the resolved edges *)
(* that start in another file included, and to the references from S.        *)
Rewrite(S, row) ==
  /\ files' = [f \in File |-> IF f \in S THEN row[f] ELSE files[f]]
  /\ nodes' = {n \in nodes : n[1] \notin S}
                \cup {n \in Node : n[1] \in S /\ n[2] \in Defs[row[n[1]].hash]}
  /\ edges' = [e \in Edge |->
                 IF ~Touches(e, S) THEN edges[e]
                 ELSE IF e[1][1] \in S /\ IsLocal(e, row[e[1][1]]) THEN 1 ELSE 0]
  /\ refs' = {r \in refs : r.src[1] \notin S}
               \cup {r \in [gen : {gen}, src : Node, name : Name] :
                       /\ r.src[1] \in S
                       /\ <<r.src[2], r.name>> \in Uses[row[r.src[1]].hash]}
  /\ gen' = IF S = {} THEN gen ELSE gen + 1

(* store_extraction_batch: one file, one transaction.  An orphan edge breaks *)
(* its foreign key, and the transaction rolls back.                          *)
StoreBatch(f, row) ==
  IF Skips(f, row) \/ Orphans(row.hash) # {}
  THEN UNCHANGED store
  ELSE Rewrite({f}, [g \in {f} |-> row])

(* store_extraction_batch_bulk_init: every file of the chunk that is not     *)
(* skipped, in one transaction, orphan edges dropped.                        *)
StoreBulk(row) == Rewrite({f \in DOMAIN row : ~Skips(f, row[f])}, row)

(* delete_file *)
DeleteFile(f) ==
  /\ files' = [files EXCEPT ![f] = NoRow]
  /\ nodes' = {n \in nodes : n[1] # f}
  /\ edges' = [e \in Edge |-> IF Touches(e, {f}) THEN 0 ELSE edges[e]]
  /\ refs' = {r \in refs : r.src[1] # f}
  /\ gen' = gen

(* update_file_metadata, for one record of the batch *)
UpsertRow(f, row) ==
  /\ files' = [files EXCEPT ![f] = row]
  /\ UNCHANGED <<nodes, edges, refs, gen>>

(* commit_resolved_batch reads which ends exist before its transaction ...  *)
Existing(chosen) == {x \in chosen : x.edge[1] \in nodes /\ x.edge[2] \in nodes}

(* Mutant: foreign keys are not enforced. *)
NeverAborts(ok) == FALSE
(* ... and inside it a foreign key fails if one of them is gone by then.    *)
CommitAborts(ok) == \E x \in ok : x.edge[1] \notin nodes \/ x.edge[2] \notin nodes

(* Mutant: only the references without an edge are deleted. *)
CommitKeepsRefs(chosen, ok) ==
  /\ edges' = [e \in Edge |->
                 IF \E x \in ok : x.edge = e THEN edges[e] + 1 ELSE edges[e]]
  /\ refs' = refs \ UNION {x.from : x \in chosen \ ok}
  /\ UNCHANGED <<files, nodes, gen>>
(* Edges whose ends existed are inserted (OR IGNORE finds no conflict: the   *)
(* table is unique on its own id only); every reference of the batch is      *)
(* deleted by its id, the ones whose edge was dropped too.                   *)
CommitResolved(chosen, ok) ==
  /\ edges' = [e \in Edge |->
                 IF \E x \in ok : x.edge = e THEN edges[e] + 1 ELSE edges[e]]
  /\ refs' = refs \ UNION {x.from : x \in chosen}
  /\ UNCHANGED <<files, nodes, gen>>

-----------------------------------------------------------------------------
(* get_dependent_files: files with an edge into the files S, S excluded. *)
DependentFiles(S) ==
  {f \in File \ S : \E e \in Edge : edges[e] > 0 /\ e[1][1] = f /\ e[2][1] \in S}

RefsOfFiles(S) == {r \in refs : r.src[1] \in S}

(* get_unresolved_by_names compares names as they are written. *)
RefsByNames(names) == {r \in refs : r.name \in names}

-----------------------------------------------------------------------------
(* Foreign keys of the schema: an edge joins stored nodes, an unresolved    *)
(* reference starts at one, whatever interleaving of cascades and commits.  *)
ForeignKeys ==
  /\ \A e \in Edge : edges[e] > 0 => e[1] \in nodes /\ e[2] \in nodes
  /\ \A r \in refs : r.src \in nodes

(* The nodes of file f are those of the text its row names. *)
RowMatches(f) ==
  {n \in nodes : n[1] = f} =
    IF files[f] = NoRow THEN {} ELSE NodesOf(f, files[f].hash)

(* A row's hash is the text its nodes were extracted from: what the hash    *)
(* gate and the change detection of sync both rely on.                      *)
RowMatchesNodes == \A f \in File : RowMatches(f)
=============================================================================
