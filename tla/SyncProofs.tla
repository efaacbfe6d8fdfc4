----------------------------- MODULE SyncProofs -----------------------------
(***************************************************************************)
(* Invariants of SyncSystem, for any files, texts, processes and bounds:   *)
(* the types, the sync lock, the foreign keys, and, without storage faults *)
(* and without `index`, that a row names the text of its nodes.            *)
(***************************************************************************)
EXTENDS SyncProperties, FiniteSetTheorems, TLAPS

-----------------------------------------------------------------------------
(* What the operations of IndexStore return, preserve and need: each lemma   *)
(* is about one call on the store.                                          *)

(* A FileRecord of extraction is a row of `files`. *)
LEMMA ExtractType ==
  ASSUME NEW c \in Content, NEW t \in Nat
  PROVE  /\ Extract(c, t) \in Row
         /\ Extract(c, t).hash = c
  BY TextAssumption, FS_CardinalityType DEF Extract, Row

(* The replacement of files by what their records describe keeps the types. *)
LEMMA RewriteType ==
  ASSUME StoreTypeOK, NEW S \in SUBSET File, NEW row,
         \A f \in S : row[f] \in Row, Rewrite(S, row)
  PROVE  StoreTypeOK'
<1>1. files' \in [File -> Row \cup {NoRow}]
  BY DEF StoreTypeOK, Rewrite
<1>2. nodes' \in SUBSET Node
  BY DEF StoreTypeOK, Rewrite
<1>3. edges' \in [Edge -> Nat]
  BY DEF StoreTypeOK, Rewrite
<1>4. refs' \in SUBSET Ref
  BY DEF StoreTypeOK, Rewrite, Ref
<1>5. gen' \in Nat
  BY DEF StoreTypeOK, Rewrite
<1> QED BY <1>1, <1>2, <1>3, <1>4, <1>5 DEF StoreTypeOK

LEMMA StoreBatchType ==
  ASSUME StoreTypeOK, NEW f \in File, NEW row \in Row, StoreBatch(f, row)
  PROVE  StoreTypeOK'
<1>1. CASE UNCHANGED store
  BY <1>1 DEF store, StoreTypeOK
<1>2. CASE Rewrite({f}, [g \in {f} |-> row])
  BY <1>2, RewriteType
<1> QED BY <1>1, <1>2 DEF StoreBatch

LEMMA StoreBulkType ==
  ASSUME StoreTypeOK, NEW D \in SUBSET File, NEW row \in [D -> Row], StoreBulk(row)
  PROVE  StoreTypeOK'
<1> DEFINE S == {f \in DOMAIN row : ~Skips(f, row[f])}
<1>1. S \in SUBSET File /\ \A f \in S : row[f] \in Row
  OBVIOUS
<1>2. Rewrite(S, row)
  BY DEF StoreBulk
<1> HIDE DEF S
<1> QED BY <1>1, <1>2, RewriteType

LEMMA DeleteFileType ==
  ASSUME StoreTypeOK, NEW f \in File, DeleteFile(f)
  PROVE  StoreTypeOK'
  BY DEF StoreTypeOK, DeleteFile

LEMMA UpsertRowType ==
  ASSUME StoreTypeOK, NEW f \in File, NEW row \in Row, UpsertRow(f, row)
  PROVE  StoreTypeOK'
  BY DEF StoreTypeOK, UpsertRow

LEMMA CommitResolvedType ==
  ASSUME StoreTypeOK, NEW C, NEW K, CommitResolved(C, K)
  PROVE  StoreTypeOK'
  BY DEF StoreTypeOK, CommitResolved

-----------------------------------------------------------------------------
(* Re-extraction cascades from the old nodes and inserts only what joins new *)
(* ones, so no edge or reference is left without its node.                   *)
LEMMA RewriteForeignKeys ==
  ASSUME StoreTypeOK, ForeignKeys, NEW S \in SUBSET File, NEW row,
         \A f \in S : row[f] \in Row, Rewrite(S, row)
  PROVE  ForeignKeys'
<1>1. ASSUME NEW e \in Edge, edges'[e] > 0
      PROVE  e[1] \in nodes' /\ e[2] \in nodes'
  <2>1. e[1] \in Node /\ e[2] \in Node /\ e[1][1] \in File /\ e[2][1] \in File
        /\ e[1][2] \in Symbol /\ e[2][2] \in Symbol
    BY DEF Edge, Node
  <2>2. CASE ~Touches(e, S)
    <3>1. edges[e] > 0
      BY <1>1, <2>2 DEF Rewrite
    <3>2. e[1] \in nodes /\ e[2] \in nodes
      BY <3>1 DEF ForeignKeys
    <3> QED BY <2>2, <3>2 DEF Rewrite, Touches
  <2>3. CASE Touches(e, S)
    <3>1. e[1][1] \in S /\ IsLocal(e, row[e[1][1]])
      BY <1>1, <2>3 DEF Rewrite
    <3>2. row[e[1][1]].hash \in Content
      BY <3>1 DEF Row
    <3>3. <<e[1][2], e[2][2]>> \in Defs[row[e[1][1]].hash] \X Defs[row[e[1][1]].hash]
      BY <3>1, <3>2 DEF IsLocal, Orphans
    <3>4. e[2][1] = e[1][1]
      BY <3>1 DEF IsLocal
    <3>5. /\ e[1][2] \in Defs[row[e[1][1]].hash]
          /\ e[2][2] \in Defs[row[e[2][1]].hash]
      BY <3>3, <3>4
    <3> QED BY <2>1, <3>1, <3>4, <3>5 DEF Rewrite
  <2> QED BY <2>2, <2>3
<1>2. ASSUME NEW r \in refs'
      PROVE  r.src \in nodes'
  <2>1. CASE r \in refs /\ r.src[1] \notin S
    BY <2>1 DEF Rewrite, ForeignKeys
  <2>2. CASE r \notin refs \/ r.src[1] \in S
    <3>1. /\ r \in [gen : {gen}, src : Node, name : Name]
          /\ r.src[1] \in S
          /\ <<r.src[2], r.name>> \in Uses[row[r.src[1]].hash]
      BY <1>2, <2>2 DEF Rewrite
    <3>2. r.src \in Node /\ row[r.src[1]].hash \in Content
      BY <3>1 DEF Row
    <3>3. <<r.src[2], r.name>>[1] \in Defs[row[r.src[1]].hash]
      BY <3>1, <3>2, TextAssumption
    <3> QED BY <3>1, <3>2, <3>3 DEF Rewrite
  <2> QED BY <2>1, <2>2
<1> QED BY <1>1, <1>2 DEF ForeignKeys

LEMMA StoreBatchForeignKeys ==
  ASSUME StoreTypeOK, ForeignKeys, NEW f \in File, NEW row \in Row, StoreBatch(f, row)
  PROVE  ForeignKeys'
<1>1. CASE UNCHANGED store
  BY <1>1 DEF store, ForeignKeys
<1>2. CASE Rewrite({f}, [g \in {f} |-> row])
  BY <1>2, RewriteForeignKeys
<1> QED BY <1>1, <1>2 DEF StoreBatch

LEMMA StoreBulkForeignKeys ==
  ASSUME StoreTypeOK, ForeignKeys,
         NEW D \in SUBSET File, NEW row \in [D -> Row], StoreBulk(row)
  PROVE  ForeignKeys'
<1> DEFINE S == {f \in DOMAIN row : ~Skips(f, row[f])}
<1>1. S \in SUBSET File /\ \A f \in S : row[f] \in Row
  OBVIOUS
<1>2. Rewrite(S, row)
  BY DEF StoreBulk
<1> HIDE DEF S
<1> QED BY <1>1, <1>2, RewriteForeignKeys

LEMMA DeleteFileForeignKeys ==
  ASSUME StoreTypeOK, ForeignKeys, NEW f \in File, DeleteFile(f)
  PROVE  ForeignKeys'
<1>1. \A e \in Edge : edges'[e] > 0 => e[1] \in nodes' /\ e[2] \in nodes'
  BY DEF DeleteFile, ForeignKeys, Touches
<1>2. \A r \in refs' : r.src \in nodes'
  BY DEF DeleteFile, ForeignKeys
<1> QED BY <1>1, <1>2 DEF ForeignKeys

LEMMA UpsertRowForeignKeys ==
  ASSUME ForeignKeys, NEW f, NEW row, UpsertRow(f, row)
  PROVE  ForeignKeys'
  BY DEF ForeignKeys, UpsertRow

(* A commit whose edges all have their ends inserts no other edge. *)
LEMMA CommitResolvedForeignKeys ==
  ASSUME StoreTypeOK, ForeignKeys, NEW C, NEW K,
         ~CommitAborts(K), CommitResolved(C, K)
  PROVE  ForeignKeys'
<1>1. \A e \in Edge : edges'[e] > 0 => e[1] \in nodes' /\ e[2] \in nodes'
  <2> SUFFICES ASSUME NEW e \in Edge, edges'[e] > 0
               PROVE  e[1] \in nodes /\ e[2] \in nodes
    BY DEF CommitResolved
  <2>1. CASE \E x \in K : x.edge = e
    BY <2>1 DEF CommitAborts
  <2>2. CASE ~ \E x \in K : x.edge = e
    BY <2>2 DEF CommitResolved, ForeignKeys
  <2> QED BY <2>1, <2>2
<1>2. \A r \in refs' : r.src \in nodes'
  BY DEF CommitResolved, ForeignKeys
<1> QED BY <1>1, <1>2 DEF ForeignKeys

-----------------------------------------------------------------------------
(* A replaced file has the nodes of its new row, another file keeps its own. *)
LEMMA RewriteMatches ==
  ASSUME StoreTypeOK, NEW f \in File, NEW row \in Row, Rewrite({f}, [g \in {f} |-> row])
  PROVE  /\ files'[f] = row
         /\ RowMatches(f)'
         /\ \A g \in File \ {f} : files'[g] = files[g] /\ (RowMatches(g) => RowMatches(g)')
<1>1. files'[f] = row /\ \A g \in File \ {f} : files'[g] = files[g]
  BY DEF Rewrite, StoreTypeOK
<1>2. row # NoRow /\ Defs[row.hash] \subseteq Symbol
  BY TextAssumption DEF Row
<1>3. {n \in nodes' : n[1] = f} = {f} \X Defs[row.hash]
  BY <1>2 DEF Rewrite, Node, StoreTypeOK
<1>4. \A g \in File \ {f} : {n \in nodes' : n[1] = g} = {n \in nodes : n[1] = g}
  BY DEF Rewrite
<1> QED BY <1>1, <1>2, <1>3, <1>4 DEF RowMatches, NodesOf

LEMMA DeleteFileMatches ==
  ASSUME StoreTypeOK, NEW f \in File, DeleteFile(f)
  PROVE  /\ RowMatches(f)'
         /\ \A g \in File \ {f} : files'[g] = files[g] /\ (RowMatches(g) => RowMatches(g)')
<1>1. files'[f] = NoRow /\ \A g \in File \ {f} : files'[g] = files[g]
  BY DEF DeleteFile, StoreTypeOK
<1>2. {n \in nodes' : n[1] = f} = {}
  BY DEF DeleteFile
<1>3. \A g \in File \ {f} : {n \in nodes' : n[1] = g} = {n \in nodes : n[1] = g}
  BY DEF DeleteFile
<1> QED BY <1>1, <1>2, <1>3 DEF RowMatches

-----------------------------------------------------------------------------
(* Type correctness. *)

(* Whatever the resolver picks is an edge from a reference's own node. *)
LEMMA MatchesType ==
  ASSUME NEW rs \in SUBSET Ref, NEW ns \in SUBSET Node, NEW m \in Matches(rs, ns)
  PROVE  m \in SUBSET Choice
<1> DEFINE R == {r \in rs : \E n \in ns : n[2] \in Answers[r.name]}
           pick == {h \in [R -> ns] : \A r \in R : h[r][2] \in Answers[r.name]}
<1>1. PICK h \in pick : m = {[edge |-> <<r.src, h[r]>>, from |-> {r}] : r \in R}
  BY DEF Matches
<1>2. \A r \in R : r.src \in Node /\ h[r] \in Node /\ {r} \in SUBSET Ref
  BY DEF Ref
<1>3. \A r \in R : [edge |-> <<r.src, h[r]>>, from |-> {r}] \in Choice
  BY <1>2 DEF Choice, Edge
<1> QED BY <1>1, <1>3

LEMMA ImplementsType ==
  ASSUME NEW ns \in SUBSET Node
  PROVE  Implements(ns) \in SUBSET Edge
  BY DEF Implements, Edge

LEMMA StatType ==
  ASSUME TypeOK, NEW f \in File
  PROVE  StatTime(f) \in Nat /\ StampNow(f) \in Nat
  BY DEF TypeOK, StatTime, StampNow, Stamp

LEMMA BoundsType ==
  /\ CommitRetries \in Nat /\ MaxEdits \in Nat
  /\ NoProc \notin Proc /\ NoText \notin Content /\ NoFile \notin Stamp
  BY SystemAssumption DEF Stamp

(* A run that ends leaves well-typed, empty locals. *)
LEMMA ForgetType ==
  ASSUME TypeOK, NEW p \in Proc, Forget(p)
  PROVE  /\ left' \in [Proc -> SUBSET File]
         /\ work' \in [Proc -> SUBSET File]
         /\ gone' \in [Proc -> SUBSET File]
         /\ src' \in [Proc -> [File -> Content \cup {NoText}]]
         /\ batch' \in [Proc -> [File -> Row \cup {NoRow}]]
         /\ cache' \in [Proc -> SUBSET Node]
         /\ todo' \in [Proc -> SUBSET Ref]
         /\ joins' \in [Proc -> SUBSET Edge]
         /\ chosen' \in [Proc -> SUBSET Choice]
         /\ ok' \in [Proc -> SUBSET Choice]
         /\ tries' \in [Proc -> Nat]
  BY DEF TypeOK, Forget

LEMMA TypeInit == Init => TypeOK
<1> SUFFICES ASSUME Init PROVE TypeOK
  OBVIOUS
<1>1. disk \in [File -> Stamp \cup {NoFile}]
  <2>1. disk \in [File -> {NoFile} \cup [text : Content, mtime : {1}]]
    BY DEF Init
  <2> QED BY <2>1 DEF Stamp
<1>2. \A f \in File : disk[f] # NoFile =>
        disk[f].text \in Content /\ disk[f].mtime \in Nat
  BY <1>1 DEF Stamp
<1>3. \A f \in File : files[f] \in Row \cup {NoRow}
  <2> SUFFICES ASSUME NEW f \in File PROVE files[f] \in Row \cup {NoRow}
    OBVIOUS
  <2>1. CASE disk[f] = NoFile
    BY <2>1 DEF Init
  <2>2. CASE disk[f] # NoFile
    <3>1. (IF f \in ZeroStamp THEN 0 ELSE disk[f].mtime) \in Nat
      BY <1>2, <2>2
    <3>2. files[f] = Extract(disk[f].text, IF f \in ZeroStamp THEN 0 ELSE disk[f].mtime)
      BY <2>2 DEF Init
    <3> QED BY <1>2, <2>2, <3>1, <3>2, ExtractType
  <2> QED BY <2>1, <2>2
<1>4. files \in [File -> Row \cup {NoRow}]
  BY <1>3 DEF Init
<1>5. nodes \in SUBSET Node
  BY DEF Init
<1>6. PICK done : Resolved(done)
  BY DEF Init
<1>7. edges \in [Edge -> Nat] /\ refs \in SUBSET Ref
  BY <1>5, <1>6 DEF Resolved, FirstRefs, Ref
<1>8. StoreTypeOK
  BY <1>4, <1>5, <1>7 DEF StoreTypeOK, Init
<1>9. /\ src \in [Proc -> [File -> Content \cup {NoText}]]
      /\ batch \in [Proc -> [File -> Row \cup {NoRow}]]
  BY DEF Init
<1> QED BY <1>1, <1>8, <1>9 DEF TypeOK, Init

LEMMA StoreUnchangedType ==
  ASSUME StoreTypeOK, UNCHANGED store
  PROVE  StoreTypeOK'
  BY DEF StoreTypeOK, store

(* The user, the operating system and the start of a run. *)
LEMMA TypeEnvironment ==
  ASSUME TypeOK, Environment
  PROVE  TypeOK'
<1>1. ASSUME NEW f \in File, NEW c \in Content, NEW t \in 1 .. MaxEdits + 1, Edit(f, c, t)
      PROVE  TypeOK'
  <2>1. [text |-> c, mtime |-> t] \in Stamp
    BY BoundsType DEF Stamp
  <2> QED BY <1>1, <2>1, StoreUnchangedType
          DEF TypeOK, Edit, Notify, world, budgets, cycle, resolution
<1>2. ASSUME NEW f \in File, Erase(f)
      PROVE  TypeOK'
  BY <1>2, StoreUnchangedType DEF TypeOK, Erase, Notify, world, budgets, cycle, resolution
<1>3. ASSUME NEW p \in Proc, Crash(p)
      PROVE  TypeOK'
  <2>1. Forget(p)
    BY <1>3 DEF Crash
  <2> QED BY <1>3, <2>1, ForgetType, StoreUnchangedType DEF TypeOK, Crash, Goto, world
<1>4. ASSUME NEW p \in Proc, Restart(p)
      PROVE  TypeOK'
  BY <1>4, StoreUnchangedType DEF TypeOK, Restart, Goto, world, budgets, cycle, resolution
<1>5. ASSUME NEW p \in Proc, BeginIndex(p)
      PROVE  TypeOK'
  BY <1>5, StoreUnchangedType
     DEF TypeOK, BeginIndex, Goto, OnDisk, InIndex, world, resolution
<1> QED BY <1>1, <1>2, <1>3, <1>4, <1>5 DEF Environment

LEMMA TypeStart ==
  ASSUME TypeOK, NEW p \in Proc, Start(p)
  PROVE  TypeOK'
<1>1. CASE BeginCycle(p)
  BY <1>1, StoreUnchangedType
     DEF TypeOK, BeginCycle, Wake, Goto, OnDisk, InCycle, world, budgets, resolution
<1>2. CASE LockBusy(p)
  BY <1>2, StoreUnchangedType
     DEF TypeOK, LockBusy, Wake, world, budgets, cycle, resolution
<1> QED BY <1>1, <1>2 DEF Start

(* The steps of one sync cycle. *)
LEMMA TypeCycle ==
  ASSUME TypeOK, NEW p \in Proc,
         \/ Noop(p) \/ Classify(p) \/ RemoveFile(p) \/ BeginRead(p) \/ ReadSource(p)
         \/ BeginStore(p) \/ ExtractAndStore(p) \/ BeginMetadata(p) \/ WriteMetadata(p)
         \/ CycleFails(p) \/ BeginAgain(p) \/ EndCycle(p)
  PROVE  TypeOK'
<1>1. CASE Noop(p)
  <2>1. Forget(p)
    BY <1>1 DEF Noop
  <2> QED BY <1>1, <2>1, ForgetType, StoreUnchangedType
          DEF TypeOK, Noop, Goto, Unlock, world, budgets
<1>2. CASE Classify(p)
  <2>1. Changed(left[p]) \in SUBSET File /\ Rows \ left[p] \in SUBSET File
    BY DEF TypeOK, Changed, Rows
  <2> QED BY <1>2, <2>1, StoreUnchangedType
          DEF TypeOK, Classify, Goto, InCycle, world, budgets, resolution
<1>3. CASE RemoveFile(p)
  <2>1. PICK f \in left[p] :
          /\ left' = [left EXCEPT ![p] = @ \ {f}]
          /\ \/ DeleteFile(f) /\ NoFault
             \/ UNCHANGED store /\ Fault
    BY <1>3 DEF RemoveFile
  <2>2. f \in File /\ StoreTypeOK
    BY DEF TypeOK
  <2>3. StoreTypeOK'
    BY <2>1, <2>2, DeleteFileType, StoreUnchangedType
  <2>4. faults' \in Nat
    BY <2>1 DEF TypeOK, Fault, NoFault
  <2> QED BY <1>3, <2>1, <2>3, <2>4 DEF TypeOK, RemoveFile, world, resolution
<1>4. CASE BeginRead(p)
  BY <1>4, StoreUnchangedType
     DEF TypeOK, BeginRead, Goto, InCycle, world, budgets, resolution
<1>5. CASE ReadSource(p)
  <2>1. PICK f \in left[p] :
          /\ left' = [left EXCEPT ![p] = @ \ {f}]
          /\ src' = [src EXCEPT ![p][f] =
                       IF disk[f] = NoFile THEN NoText ELSE disk[f].text]
    BY <1>5 DEF ReadSource
  <2>2. (IF disk[f] = NoFile THEN NoText ELSE disk[f].text) \in Content \cup {NoText}
    BY DEF TypeOK, Stamp
  <2> QED BY <1>5, <2>1, <2>2, StoreUnchangedType
          DEF TypeOK, ReadSource, world, budgets, resolution
<1>6. CASE BeginStore(p)
  BY <1>6, StoreUnchangedType
     DEF TypeOK, BeginStore, Goto, InCycle, world, budgets, cycle, resolution
<1>7. CASE ExtractAndStore(p)
  <2> DEFINE row(f) == Extract(src[p][f], StampNow(f))
  <2>1. PICK f \in File :
          /\ src[p][f] # NoText
          /\ batch' = [batch EXCEPT ![p][f] = row(f)]
          /\ \/ StoreBatch(f, row(f)) /\ NoFault
             \/ UNCHANGED store /\ Fault
          /\ src' = [src EXCEPT ![p][f] = NoText]
    BY <1>7 DEF ExtractAndStore
  <2>2. row(f) \in Row
    <3>1. src[p][f] \in Content
      BY <2>1 DEF TypeOK
    <3> QED BY <3>1, StatType, ExtractType
  <2> HIDE DEF row
  <2>3. StoreTypeOK'
    <3>1. StoreTypeOK
      BY DEF TypeOK
    <3> QED BY <2>1, <2>2, <3>1, StoreBatchType, StoreUnchangedType
  <2>4. faults' \in Nat
    BY <2>1 DEF TypeOK, Fault, NoFault
  <2> QED BY <1>7, <2>1, <2>2, <2>3, <2>4 DEF TypeOK, ExtractAndStore, world, resolution
<1>8. CASE BeginMetadata(p)
  BY <1>8, StoreUnchangedType
     DEF TypeOK, BeginMetadata, Goto, InCycle, world, budgets, cycle, resolution
<1>9. CASE WriteMetadata(p)
  <2>1. PICK f \in File :
          /\ batch[p][f] # NoRow
          /\ UpsertRow(f, batch[p][f])
          /\ batch' = [batch EXCEPT ![p][f] = NoRow]
    BY <1>9 DEF WriteMetadata
  <2>2. StoreTypeOK'
    <3>1. StoreTypeOK /\ batch[p][f] \in Row
      BY <2>1 DEF TypeOK
    <3> QED BY <2>1, <3>1, UpsertRowType
  <2> QED BY <1>9, <2>1, <2>2 DEF TypeOK, WriteMetadata, world, budgets, resolution
<1>10. CASE CycleFails(p)
  <2>1. Forget(p)
    BY <1>10 DEF CycleFails
  <2> QED BY <1>10, <2>1, ForgetType, StoreUnchangedType
          DEF TypeOK, CycleFails, Goto, Unlock, Fault, world
<1>11. CASE BeginAgain(p)
  BY <1>11, StoreUnchangedType
     DEF TypeOK, BeginAgain, Goto, InCycle, world, budgets, resolution
<1>12. CASE EndCycle(p)
  BY <1>12, StoreUnchangedType
     DEF TypeOK, EndCycle, Goto, Unlock, InResolution, world, budgets, cycle, resolution
<1> QED BY <1>1, <1>2, <1>3, <1>4, <1>5, <1>6, <1>7, <1>8, <1>9, <1>10, <1>11, <1>12

(* The steps of a resolution pass. *)
LEMMA TypeResolution ==
  ASSUME TypeOK, NEW p \in Proc,
         \/ ScopeFull(p) \/ ScopeIncremental(p) \/ Match(p) \/ Warm(p) \/ FetchAll(p)
         \/ CheckEnds(p) \/ Commit(p) \/ RetryCommit(p) \/ GiveUpCommit(p)
         \/ ResolutionFails(p)
  PROVE  TypeOK'
<1>1. CASE ScopeFull(p)
  BY <1>1, StoreUnchangedType
     DEF TypeOK, ScopeFull, Goto, Fault, NoFault, InResolution, world, cycle, resolution
<1>2. CASE ScopeIncremental(p)
  <2>1. /\ todo' \in [Proc -> SUBSET Ref]
        /\ faults' \in Nat
    <3> DEFINE found == ScopedRefs(ChangedPaths(p))
    <3>1. \A R \in found : R \in SUBSET Ref
      BY DEF ScopedRefs, RefsOfFiles, RefsByNames, TypeOK, StoreTypeOK
    <3>2. \E S \in SUBSET found : todo' = [todo EXCEPT ![p] = UNION S]
      BY <1>2 DEF ScopeIncremental
    <3> HIDE DEF found
    <3>3. PICK S \in SUBSET found : todo' = [todo EXCEPT ![p] = UNION S]
      BY <3>2
    <3>4. UNION S \in SUBSET Ref
      BY <3>1
    <3>5. todo' \in [Proc -> SUBSET Ref]
      BY <3>3, <3>4 DEF TypeOK
    <3>6. faults' \in Nat
      BY <1>2 DEF ScopeIncremental, Fault, NoFault, TypeOK
    <3> QED BY <3>5, <3>6
  <2> QED BY <1>2, <2>1, StoreUnchangedType
          DEF TypeOK, ScopeIncremental, Goto, InResolution, world, cycle
<1>3. CASE Match(p)
  <2>1. PICK m \in Matches(todo[p], nodes) : chosen' = [chosen EXCEPT ![p] = m]
    BY <1>3 DEF Match
  <2>2. m \in SUBSET Choice
    <3>1. todo[p] \in SUBSET Ref /\ nodes \in SUBSET Node
      BY DEF TypeOK, StoreTypeOK
    <3> QED BY <3>1, MatchesType
  <2> QED BY <1>3, <2>1, <2>2, StoreUnchangedType
          DEF TypeOK, Match, Goto, InResolution, world, budgets, cycle
<1>4. CASE Warm(p)
  <2>1. nodes \in SUBSET Node /\ Implements(nodes) \in SUBSET Edge
    BY ImplementsType DEF TypeOK, StoreTypeOK
  <2> QED BY <1>4, <2>1, StoreUnchangedType
          DEF TypeOK, Warm, Goto, InResolution, world, budgets, cycle
<1>5. CASE FetchAll(p)
  <2>1. PICK m \in Matches(refs, cache[p]) : chosen' = [chosen EXCEPT ![p] = m]
    BY <1>5 DEF FetchAll
  <2>2. m \in SUBSET Choice
    <3>1. refs \in SUBSET Ref /\ cache[p] \in SUBSET Node
      BY DEF TypeOK, StoreTypeOK
    <3> QED BY <3>1, MatchesType
  <2> QED BY <1>5, <2>1, <2>2, StoreUnchangedType
          DEF TypeOK, FetchAll, Goto, InResolution, world, budgets, cycle
<1>6. CASE CheckEnds(p)
  <2>1. Existing(chosen[p]) \in SUBSET Choice
    BY DEF TypeOK, Existing
  <2> QED BY <1>6, <2>1, StoreUnchangedType
          DEF TypeOK, CheckEnds, Goto, InResolution, world, budgets, cycle
<1>7. CASE Commit(p)
  <2>1. StoreTypeOK'
    BY <1>7, CommitResolvedType DEF Commit, TypeOK
  <2>2. CASE joins[p] = {}
    <3>1. Forget(p)
      BY <1>7, <2>2 DEF Commit
    <3> QED BY <1>7, <2>1, <2>2, <3>1, ForgetType DEF TypeOK, Commit, Goto, world, budgets
  <2>3. CASE joins[p] # {}
    <3>1. [edge : joins[p], from : {{}}] \in SUBSET Choice
      BY DEF TypeOK, Choice
    <3>2. /\ chosen' \in [Proc -> SUBSET Choice]
          /\ joins' \in [Proc -> SUBSET Edge]
          /\ ok' \in [Proc -> SUBSET Choice]
          /\ tries' \in [Proc -> Nat]
      <4> DEFINE made == [edge : joins[p], from : {{}}]
      <4>1. /\ chosen' = [chosen EXCEPT ![p] = made]
            /\ joins' = [joins EXCEPT ![p] = {}]
            /\ ok' = [ok EXCEPT ![p] = {}]
            /\ tries' = [tries EXCEPT ![p] = CommitRetries]
        BY <1>7, <2>3 DEF Commit
      <4>2. made \in SUBSET Choice
        BY <3>1
      <4> HIDE DEF made
      <4> QED BY <4>1, <4>2, BoundsType DEF TypeOK
    <3>3. pc' = [pc EXCEPT ![p] = "check"] /\ UNCHANGED <<cycle, cache, todo>>
      BY <1>7, <2>3 DEF Commit, Goto
    <3>4. UNCHANGED <<world, lock, trigger, budgets>>
      BY <1>7 DEF Commit
    <3> QED BY <2>1, <3>2, <3>3, <3>4 DEF TypeOK, InResolution, world, budgets, cycle
  <2> QED BY <2>2, <2>3
<1>8. CASE RetryCommit(p)
  BY <1>8, StoreUnchangedType
     DEF TypeOK, RetryCommit, Goto, Fault, NoFault, InResolution, world, cycle
<1>9. CASE GiveUpCommit(p)
  <2>1. Forget(p) /\ faults' \in Nat
    BY <1>9 DEF GiveUpCommit, Fault, NoFault, TypeOK
  <2> QED BY <1>9, <2>1, ForgetType, StoreUnchangedType
          DEF TypeOK, GiveUpCommit, Goto, world
<1>10. CASE ResolutionFails(p)
  <2>1. Forget(p) /\ faults' \in Nat
    BY <1>10 DEF ResolutionFails, Fault, TypeOK
  <2> QED BY <1>10, <2>1, ForgetType, StoreUnchangedType
          DEF TypeOK, ResolutionFails, Goto, world
<1> QED BY <1>1, <1>2, <1>3, <1>4, <1>5, <1>6, <1>7, <1>8, <1>9, <1>10

(* The steps of `codewiki index`. *)
LEMMA TypeIndex ==
  ASSUME TypeOK, NEW p \in Proc, ExtractForIndex(p) \/ Flush(p) \/ EndIndex(p)
  PROVE  TypeOK'
<1>1. CASE ExtractForIndex(p)
  <2>1. PICK f \in File :
          /\ src[p][f] # NoText
          /\ batch' = [batch EXCEPT ![p][f] = Extract(src[p][f], StampNow(f))]
          /\ src' = [src EXCEPT ![p][f] = NoText]
    BY <1>1 DEF ExtractForIndex
  <2>2. Extract(src[p][f], StampNow(f)) \in Row
    <3>1. src[p][f] \in Content
      BY <2>1 DEF TypeOK
    <3> QED BY <3>1, StatType, ExtractType
  <2> QED BY <1>1, <2>1, <2>2, StoreUnchangedType
          DEF TypeOK, ExtractForIndex, world, budgets, resolution
<1>2. CASE Flush(p)
  <2> DEFINE D == {f \in File : batch[p][f] # NoRow}
  <2>1. [f \in D |-> batch[p][f]] \in [D -> Row]
    BY DEF TypeOK
  <2>2. StoreBulk([f \in D |-> batch[p][f]])
    BY <1>2 DEF Flush
  <2>3. StoreTypeOK'
    <3>1. StoreTypeOK
      BY DEF TypeOK
    <3> QED BY <2>1, <2>2, <3>1, StoreBulkType
  <2> QED BY <1>2, <2>3 DEF TypeOK, Flush, Goto, InResolution, world, budgets, resolution
<1>3. CASE EndIndex(p)
  <2>1. Forget(p) /\ faults' \in Nat
    BY <1>3 DEF EndIndex, Fault, NoFault, TypeOK
  <2> QED BY <1>3, <2>1, ForgetType, StoreUnchangedType DEF TypeOK, EndIndex, Goto, world
<1> QED BY <1>1, <1>2, <1>3

LEMMA TypeNext == TypeOK /\ [Next]_vars => TypeOK'
<1> SUFFICES ASSUME TypeOK, [Next]_vars PROVE TypeOK'
  OBVIOUS
<1>1. CASE UNCHANGED vars
  BY <1>1, StoreUnchangedType DEF TypeOK, vars, world, budgets, cycle, resolution
<1>2. CASE Environment
  BY <1>2, TypeEnvironment
<1>3. ASSUME NEW p \in Proc, Start(p)
      PROVE  TypeOK'
  BY <1>3, TypeStart
<1>4. ASSUME NEW p \in Proc, Work(p)
      PROVE  TypeOK'
  BY <1>4, TypeCycle, TypeResolution, TypeIndex DEF Work
<1> QED BY <1>1, <1>2, <1>3, <1>4 DEF Next

(* Every variable keeps the type TypeOK gives it. *)
THEOREM TypeCorrect == Spec => []TypeOK
  BY TypeInit, TypeNext, PTL DEF Spec

-----------------------------------------------------------------------------
(* The sync lock. *)

LEMMA LockInit == Init => LockHeld
  BY BoundsType DEF Init, LockHeld, InCycle

(* A step of p that leaves the lock alone keeps p on its side of it. *)
LEMMA LockKept ==
  ASSUME TypeOK, LockHeld, NEW p \in Proc, NEW to,
         UNCHANGED lock, pc' = [pc EXCEPT ![p] = to], pc[p] \in InCycle <=> to \in InCycle
  PROVE  LockHeld'
  BY DEF TypeOK, LockHeld

(* A step of the holder that drops the lock ends its cycle. *)
LEMMA LockDropped ==
  ASSUME TypeOK, LockHeld, NEW p \in Proc, NEW to,
         lock' = NoProc, pc' = [pc EXCEPT ![p] = to], pc[p] \in InCycle, to \notin InCycle
  PROVE  LockHeld'
  BY BoundsType DEF TypeOK, LockHeld

LEMMA LockCycle ==
  ASSUME TypeOK, LockHeld, NEW p \in Proc,
         \/ Noop(p) \/ Classify(p) \/ RemoveFile(p) \/ BeginRead(p) \/ ReadSource(p)
         \/ BeginStore(p) \/ ExtractAndStore(p) \/ BeginMetadata(p) \/ WriteMetadata(p)
         \/ CycleFails(p) \/ BeginAgain(p) \/ EndCycle(p)
  PROVE  LockHeld'
<1>1. CASE Noop(p) \/ CycleFails(p)
  <2>1. lock' = NoProc /\ pc' = [pc EXCEPT ![p] = "idle"] /\ pc[p] \in InCycle
    BY <1>1 DEF Noop, CycleFails, Goto, Unlock, InCycle
  <2> QED BY <2>1, LockDropped DEF InCycle
<1>2. CASE EndCycle(p)
  <2>1. lock' = NoProc /\ pc' = [pc EXCEPT ![p] = "scope"] /\ pc[p] \in InCycle
    BY <1>2 DEF EndCycle, Goto, Unlock, InCycle
  <2> QED BY <2>1, LockDropped DEF InCycle
<1>3. CASE RemoveFile(p) \/ ReadSource(p) \/ ExtractAndStore(p) \/ WriteMetadata(p)
  BY <1>3 DEF RemoveFile, ReadSource, ExtractAndStore, WriteMetadata, LockHeld
<1>4. CASE Classify(p)
  BY <1>4, LockKept DEF Classify, Goto, InCycle
<1>5. CASE BeginRead(p)
  BY <1>5, LockKept DEF BeginRead, Goto, InCycle
<1>6. CASE BeginStore(p)
  BY <1>6, LockKept DEF BeginStore, Goto, InCycle
<1>7. CASE BeginMetadata(p)
  BY <1>7, LockKept DEF BeginMetadata, Goto, InCycle
<1>8. CASE BeginAgain(p)
  BY <1>8, LockKept DEF BeginAgain, Goto, InCycle
<1> QED BY <1>1, <1>2, <1>3, <1>4, <1>5, <1>6, <1>7, <1>8

(* Resolution and `index` never touch the lock. *)
LEMMA LockOutside ==
  ASSUME TypeOK, LockHeld, NEW p \in Proc,
         \/ ScopeFull(p) \/ ScopeIncremental(p) \/ Match(p) \/ Warm(p) \/ FetchAll(p)
         \/ CheckEnds(p) \/ Commit(p) \/ RetryCommit(p) \/ GiveUpCommit(p)
         \/ ResolutionFails(p) \/ BeginIndex(p) \/ ExtractForIndex(p) \/ Flush(p) \/ EndIndex(p)
  PROVE  LockHeld'
<1>1. UNCHANGED lock
  BY DEF ScopeFull, ScopeIncremental, Match, Warm, FetchAll, CheckEnds, Commit,
         RetryCommit, GiveUpCommit, ResolutionFails, BeginIndex, ExtractForIndex, Flush,
         EndIndex
<1>2. CASE ExtractForIndex(p)
  BY <1>2 DEF ExtractForIndex, LockHeld
<1>3. CASE ~ExtractForIndex(p)
  <2>1. /\ pc[p] \notin InCycle
        /\ \E to \in {"idle"} \cup InResolution \cup InIndex : pc' = [pc EXCEPT ![p] = to]
    BY <1>3 DEF ScopeFull, ScopeIncremental, Match, Warm, FetchAll, CheckEnds, Commit,
         RetryCommit, GiveUpCommit, ResolutionFails, BeginIndex, Flush, EndIndex, Gathered,
         Goto, InCycle, InResolution, InIndex
  <2> QED BY <1>1, <2>1, LockKept DEF InCycle, InResolution, InIndex
<1> QED BY <1>2, <1>3

LEMMA LockEnvironment ==
  ASSUME TypeOK, LockHeld, Environment
  PROVE  LockHeld'
<1>1. ASSUME NEW f \in File, NEW c \in Content, NEW t \in 1 .. MaxEdits + 1, Edit(f, c, t)
      PROVE  LockHeld'
  BY <1>1 DEF Edit, LockHeld
<1>2. ASSUME NEW f \in File, Erase(f)
      PROVE  LockHeld'
  BY <1>2 DEF Erase, LockHeld
<1>3. ASSUME NEW p \in Proc, Crash(p)
      PROVE  LockHeld'
  BY <1>3, BoundsType DEF Crash, Goto, InCycle, LockHeld, TypeOK
<1>4. ASSUME NEW p \in Proc, Restart(p)
      PROVE  LockHeld'
  BY <1>4, LockKept DEF Restart, Goto, InCycle
<1>5. ASSUME NEW p \in Proc, BeginIndex(p)
      PROVE  LockHeld'
  BY <1>5, LockOutside
<1> QED BY <1>1, <1>2, <1>3, <1>4, <1>5 DEF Environment

LEMMA LockStart ==
  ASSUME TypeOK, LockHeld, NEW p \in Proc, Start(p)
  PROVE  LockHeld'
<1>1. CASE BeginCycle(p)
  BY <1>1, BoundsType DEF BeginCycle, LockFree, Goto, InCycle, LockHeld, TypeOK
<1>2. CASE LockBusy(p)
  BY <1>2 DEF LockBusy, LockHeld
<1> QED BY <1>1, <1>2 DEF Start

LEMMA LockNext == TypeOK /\ LockHeld /\ [Next]_vars => LockHeld'
<1> SUFFICES ASSUME TypeOK, LockHeld, [Next]_vars PROVE LockHeld'
  OBVIOUS
<1>1. CASE UNCHANGED vars
  BY <1>1 DEF LockHeld, vars
<1>2. CASE Environment
  BY <1>2, LockEnvironment
<1>3. ASSUME NEW p \in Proc, Start(p)
      PROVE  LockHeld'
  BY <1>3, LockStart
<1>4. ASSUME NEW p \in Proc, Work(p)
      PROVE  LockHeld'
  BY <1>4, LockCycle, LockOutside DEF Work
<1> QED BY <1>1, <1>2, <1>3, <1>4 DEF Next

(* Whoever is in a cycle holds .sync.lock, and only he: on every early       *)
(* return, error and crash of run_sync_cycle, for any number of processes.   *)
THEOREM LockExcludes == Spec => []LockHeld
  BY TypeCorrect, LockInit, LockNext, PTL DEF Spec

-----------------------------------------------------------------------------
(* Foreign keys. *)

LEMMA ForeignKeysInit == Init => ForeignKeys
<1> SUFFICES ASSUME Init PROVE ForeignKeys
  OBVIOUS
<1>1. TypeOK
  BY TypeInit
<1>2. PICK done \in Matches(FirstRefs, nodes) : Resolved(done)
  BY DEF Init
<1>3. ASSUME NEW e \in Edge, edges[e] > 0
      PROVE  e[1] \in nodes /\ e[2] \in nodes
  <2>1. CASE e[1] \in nodes /\ IsLocal(e, files[e[1][1]])
    <3>1. e[2] \in Node /\ e[1] \in Node
      BY DEF Edge
    <3>2. files[e[1][1]] # NoRow /\ files[e[1][1]] \in Row
      BY <1>1, <2>1, <3>1 DEF Init, TypeOK, StoreTypeOK, Node
    <3>3. <<e[1][2], e[2][2]>> \in Defs[files[e[1][1]].hash] \X Defs[files[e[1][1]].hash]
      BY <2>1, <3>2 DEF IsLocal, Orphans, Row
    <3>4. e[2][1] = e[1][1]
      BY <2>1 DEF IsLocal
    <3>5. e[2] \in nodes
      BY <3>1, <3>2, <3>3, <3>4 DEF Init
    <3> QED BY <2>1, <3>5
  <2>2. CASE \E x \in done : x.edge = e
    <3>1. PICK x \in done : x.edge = e
      BY <2>2
    <3>2. PICK h \in [{r \in FirstRefs : \E n \in nodes : n[2] \in Answers[r.name]} -> nodes] :
            done = {[edge |-> <<r.src, h[r]>>, from |-> {r}] :
                      r \in {r \in FirstRefs : \E n \in nodes : n[2] \in Answers[r.name]}}
      BY DEF Matches
    <3>3. PICK r \in FirstRefs : e = <<r.src, h[r]>> /\ h[r] \in nodes
      BY <3>1, <3>2
    <3> QED BY <3>3 DEF FirstRefs
  <2>3. CASE e \in Implements(nodes)
    BY <2>3 DEF Implements
  <2> QED BY <1>2, <1>3, <2>1, <2>2, <2>3 DEF Resolved
<1>4. \A r \in refs : r.src \in nodes
  BY <1>2 DEF Resolved, FirstRefs
<1> QED BY <1>3, <1>4 DEF ForeignKeys

LEMMA ForeignKeysKept ==
  ASSUME ForeignKeys, UNCHANGED store
  PROVE  ForeignKeys'
  BY DEF ForeignKeys, store

LEMMA ForeignKeysWork ==
  ASSUME TypeOK, ForeignKeys, NEW p \in Proc, Work(p)
  PROVE  ForeignKeys'
<1>1. StoreTypeOK
  BY DEF TypeOK
<1>2. CASE RemoveFile(p)
  <2>1. PICK f \in left[p] : DeleteFile(f) \/ UNCHANGED store
    BY <1>2 DEF RemoveFile
  <2>2. f \in File
    BY DEF TypeOK
  <2> QED BY <1>1, <2>1, <2>2, DeleteFileForeignKeys, ForeignKeysKept
<1>3. CASE ExtractAndStore(p)
  <2>1. PICK f \in File :
          /\ src[p][f] # NoText
          /\ \/ StoreBatch(f, Extract(src[p][f], StampNow(f)))
             \/ UNCHANGED store
    BY <1>3 DEF ExtractAndStore
  <2>2. Extract(src[p][f], StampNow(f)) \in Row
    <3>1. src[p][f] \in Content
      BY <2>1 DEF TypeOK
    <3> QED BY <3>1, StatType, ExtractType
  <2> QED BY <1>1, <2>1, <2>2, StoreBatchForeignKeys, ForeignKeysKept
<1>4. CASE WriteMetadata(p)
  BY <1>4, UpsertRowForeignKeys DEF WriteMetadata
<1>5. CASE Commit(p)
  BY <1>1, <1>5, CommitResolvedForeignKeys DEF Commit
<1>6. CASE Flush(p)
  <2> DEFINE D == {f \in File : batch[p][f] # NoRow}
  <2>1. [f \in D |-> batch[p][f]] \in [D -> Row]
    BY DEF TypeOK
  <2>2. StoreBulk([f \in D |-> batch[p][f]])
    BY <1>6 DEF Flush
  <2> QED BY <1>1, <2>1, <2>2, StoreBulkForeignKeys
<1>7. CASE ~(RemoveFile(p) \/ ExtractAndStore(p) \/ WriteMetadata(p) \/ Commit(p) \/ Flush(p))
  <2>1. UNCHANGED store
    BY <1>7 DEF Work, Noop, Classify, BeginRead, ReadSource, BeginStore, BeginMetadata,
         CycleFails, BeginAgain, EndCycle, ScopeFull, ScopeIncremental, Match, Warm,
         FetchAll, CheckEnds, RetryCommit, GiveUpCommit, ResolutionFails, ExtractForIndex,
         EndIndex
  <2> QED BY <2>1, ForeignKeysKept
<1> QED BY <1>2, <1>3, <1>4, <1>5, <1>6, <1>7

LEMMA EnvironmentKeepsStore ==
  ASSUME Environment \/ (\E p \in Proc : Start(p)) \/ UNCHANGED vars
  PROVE  UNCHANGED store
  BY DEF Environment, Edit, Erase, Crash, Restart, BeginIndex, Start, BeginCycle,
         LockBusy, vars

LEMMA ForeignKeysNext == TypeOK /\ ForeignKeys /\ [Next]_vars => ForeignKeys'
<1> SUFFICES ASSUME TypeOK, ForeignKeys, [Next]_vars PROVE ForeignKeys'
  OBVIOUS
<1>1. CASE Environment \/ (\E p \in Proc : Start(p)) \/ UNCHANGED vars
  BY <1>1, EnvironmentKeepsStore, ForeignKeysKept
<1>2. ASSUME NEW p \in Proc, Work(p)
      PROVE  ForeignKeys'
  BY <1>2, ForeignKeysWork
<1> QED BY <1>1, <1>2 DEF Next

(* No edge and no reference outlives its nodes, although resolution commits  *)
(* edges it chose long before, without the lock, while other processes       *)
(* delete and replace files: whatever the extractor finds, faults included.  *)
THEOREM ForeignKeysHold == Spec => []ForeignKeys
  BY TypeCorrect, ForeignKeysInit, ForeignKeysNext, PTL DEF Spec

-----------------------------------------------------------------------------
(* A row names the text of its nodes. *)

(* No process runs `index`, no storage call fails but for a foreign key, and *)
(* the extractor emits no orphan edge.                                       *)
SoundStorage ==
  /\ Indexer = {}
  /\ MaxFaults = 0
  /\ \A c \in Content : Orphans(c) = {}

(* What lets update_file_metadata write a record without looking: while a    *)
(* record waits for it, its cycle holds the lock and the store has the text. *)
BatchStored ==
  \A p \in Proc, f \in File : batch[p][f] # NoRow =>
    /\ pc[p] \in {"store", "meta"}
    /\ files[f] # NoRow
    /\ files[f].hash = batch[p][f].hash

NoIndex == \A p \in Proc : pc[p] \notin InIndex

IndexInv == NoIndex /\ BatchStored /\ RowMatchesNodes

LEMMA IndexInit == Init => IndexInv
<1> SUFFICES ASSUME Init PROVE NoIndex /\ BatchStored /\ RowMatchesNodes
  BY DEF IndexInv
<1> USE DEF NoIndex, InIndex
<1>1. NoIndex /\ BatchStored
  BY DEF Init, BatchStored
<1>2. ASSUME NEW f \in File
      PROVE  RowMatches(f)
  <2>1. nodes = {n \in Node : files[n[1]] # NoRow /\ n[2] \in Defs[files[n[1]].hash]}
    BY DEF Init
  <2>2. CASE files[f] = NoRow
    BY <2>1, <2>2 DEF RowMatches
  <2>3. CASE files[f] # NoRow
    <3>1. Defs[files[f].hash] \subseteq Symbol
      BY <2>3, TypeInit, TextAssumption DEF TypeOK, StoreTypeOK, Row
    <3>2. {n \in nodes : n[1] = f} = NodesOf(f, files[f].hash)
      BY <2>1, <2>3, <3>1 DEF NodesOf, Node
    <3> QED BY <2>3, <3>2 DEF RowMatches
  <2> QED BY <2>2, <2>3
<1> QED BY <1>1, <1>2 DEF RowMatchesNodes

(* A step that changes neither files nor nodes, and of the waiting records   *)
(* at most drops some.                                                      *)
LEMMA IndexKept ==
  ASSUME BatchStored, RowMatchesNodes, UNCHANGED <<files, nodes>>,
         \A p \in Proc, f \in File :
           batch'[p][f] # NoRow =>
             batch'[p][f] = batch[p][f] /\ pc'[p] \in {"store", "meta"}
  PROVE  BatchStored' /\ RowMatchesNodes'
<1>1. BatchStored'
  BY DEF BatchStored
<1>2. RowMatchesNodes'
  BY DEF RowMatchesNodes, RowMatches, NodesOf
<1> QED BY <1>1, <1>2

(* The step moves process p, which has no record waiting, and it alone. *)
LEMMA IndexMoved ==
  ASSUME TypeOK, BatchStored, RowMatchesNodes, UNCHANGED <<files, nodes, batch>>,
         NEW p \in Proc, NEW to, pc' = [pc EXCEPT ![p] = to],
         pc[p] \notin {"store", "meta"}
  PROVE  BatchStored' /\ RowMatchesNodes'
<1>1. \A q \in Proc, f \in File : batch'[q][f] # NoRow => pc'[q] \in {"store", "meta"}
  BY DEF TypeOK, BatchStored
<1> QED BY <1>1, IndexKept

(* The step ends the run of process p. *)
LEMMA IndexForgot ==
  ASSUME TypeOK, BatchStored, RowMatchesNodes, UNCHANGED <<files, nodes>>,
         NEW p \in Proc, NEW to, pc' = [pc EXCEPT ![p] = to], Forget(p)
  PROVE  BatchStored' /\ RowMatchesNodes'
<1>1. \A q \in Proc, f \in File : batch'[q][f] # NoRow => q # p /\ batch'[q][f] = batch[q][f]
  BY DEF TypeOK, Forget
<1>2. \A q \in Proc, f \in File : batch'[q][f] # NoRow => pc'[q] \in {"store", "meta"}
  BY <1>1 DEF TypeOK, BatchStored
<1> QED BY <1>1, <1>2, IndexKept

(* While p is in its cycle, no other process has a record waiting. *)
LEMMA NobodyElseStores ==
  ASSUME LockHeld, BatchStored, NEW p \in Proc, pc[p] \in InCycle,
         NEW q \in Proc, NEW f \in File, batch[q][f] # NoRow
  PROVE  q = p
  BY DEF LockHeld, BatchStored, InCycle

LEMMA IndexRemove ==
  ASSUME TypeOK, LockHeld, BatchStored, RowMatchesNodes, NEW p \in Proc, RemoveFile(p)
  PROVE  BatchStored' /\ RowMatchesNodes'
<1>1. PICK f \in left[p] : DeleteFile(f) \/ UNCHANGED store
  BY DEF RemoveFile
<1>2. f \in File /\ StoreTypeOK
  BY DEF TypeOK
<1>3. UNCHANGED <<pc, batch>> /\ pc[p] \in {"remove", "again"}
  BY DEF RemoveFile
<1>4. \A q \in Proc, h \in File : batch[q][h] = NoRow
  BY <1>3, NobodyElseStores DEF BatchStored, InCycle
<1>5. RowMatchesNodes'
  <2>1. CASE DeleteFile(f)
    BY <1>2, <2>1, DeleteFileMatches DEF RowMatchesNodes
  <2>2. CASE UNCHANGED store
    BY <1>3, <1>4, <2>2, IndexKept DEF store
  <2> QED BY <1>1, <2>1, <2>2
<1> QED BY <1>3, <1>4, <1>5 DEF BatchStored

LEMMA IndexStored ==
  ASSUME SoundStorage, TypeOK, LockHeld, BatchStored, RowMatchesNodes,
         NEW p \in Proc, ExtractAndStore(p)
  PROVE  BatchStored' /\ RowMatchesNodes'
<1> DEFINE rowOf(h) == Extract(src[p][h], StampNow(h))
<1>1. PICK f \in File :
        /\ src[p][f] # NoText
        /\ batch' = [batch EXCEPT ![p][f] = rowOf(f)]
        /\ \/ StoreBatch(f, rowOf(f)) /\ NoFault
           \/ UNCHANGED store /\ Fault
  BY DEF ExtractAndStore
<1>2. PICK row \in Row : row = rowOf(f) /\ row.hash \in Content
  <2>1. src[p][f] \in Content
    BY <1>1 DEF TypeOK
  <2> QED BY <2>1, StatType, ExtractType
<1> HIDE DEF rowOf
<1>3. StoreBatch(f, row)
  BY <1>1, <1>2 DEF Fault, SoundStorage, TypeOK
<1>4. pc[p] = "store" /\ UNCHANGED pc
  BY DEF ExtractAndStore
<1>5. /\ files'[f] # NoRow /\ files'[f].hash = row.hash
      /\ \A h \in File \ {f} : files'[h] = files[h]
      /\ RowMatchesNodes'
  <2>1. CASE Skips(f, row)
    <3>1. UNCHANGED <<files, nodes>>
      BY <1>3, <2>1 DEF StoreBatch, store
    <3> QED BY <2>1, <3>1 DEF Skips, RowMatchesNodes, RowMatches, NodesOf
  <2>2. CASE ~Skips(f, row)
    <3>1. Rewrite({f}, [g \in {f} |-> row])
      BY <1>2, <1>3, <2>2 DEF StoreBatch, SoundStorage
    <3>2. /\ files'[f] = row
          /\ RowMatches(f)'
          /\ \A g \in File \ {f} : files'[g] = files[g] /\ (RowMatches(g) => RowMatches(g)')
      BY <3>1, RewriteMatches DEF TypeOK
    <3>3. row # NoRow
      BY TextAssumption
    <3> QED BY <3>2, <3>3 DEF RowMatchesNodes
  <2> QED BY <2>1, <2>2
<1>6. BatchStored'
  <2> SUFFICES ASSUME NEW q \in Proc, NEW h \in File, batch'[q][h] # NoRow
               PROVE  /\ pc'[q] \in {"store", "meta"}
                      /\ files'[h] # NoRow /\ files'[h].hash = batch'[q][h].hash
    BY DEF BatchStored
  <2>1. CASE q = p /\ h = f
    BY <1>1, <1>2, <1>4, <1>5, <2>1 DEF TypeOK
  <2>2. CASE ~(q = p /\ h = f)
    <3>1. batch'[q][h] = batch[q][h]
      BY <1>1, <2>2 DEF TypeOK
    <3>2. q = p /\ h # f
      BY <1>4, <2>2, <3>1, NobodyElseStores DEF InCycle
    <3> QED BY <1>4, <1>5, <3>1, <3>2 DEF BatchStored
  <2> QED BY <2>1, <2>2
<1> QED BY <1>5, <1>6

LEMMA IndexMetadata ==
  ASSUME TypeOK, LockHeld, BatchStored, RowMatchesNodes, NEW p \in Proc, WriteMetadata(p)
  PROVE  BatchStored' /\ RowMatchesNodes'
<1>1. PICK f \in File :
        /\ batch[p][f] # NoRow
        /\ UpsertRow(f, batch[p][f])
        /\ batch' = [batch EXCEPT ![p][f] = NoRow]
  BY DEF WriteMetadata
<1>2. pc[p] = "meta" /\ UNCHANGED pc
  BY DEF WriteMetadata
<1>3. /\ files'[f] = batch[p][f] /\ files[f] # NoRow /\ files[f].hash = batch[p][f].hash
      /\ \A h \in File \ {f} : files'[h] = files[h]
      /\ UNCHANGED nodes
  BY <1>1 DEF UpsertRow, BatchStored, TypeOK, StoreTypeOK
<1>4. RowMatchesNodes'
  BY <1>1, <1>3 DEF RowMatchesNodes, RowMatches, NodesOf
<1>5. BatchStored'
  <2> SUFFICES ASSUME NEW q \in Proc, NEW h \in File, batch'[q][h] # NoRow
               PROVE  /\ pc'[q] \in {"store", "meta"}
                      /\ files'[h] # NoRow /\ files'[h].hash = batch'[q][h].hash
    BY DEF BatchStored
  <2>1. batch'[q][h] = batch[q][h] /\ ~(q = p /\ h = f)
    BY <1>1 DEF TypeOK
  <2>2. q = p /\ h # f
    BY <1>2, <2>1, NobodyElseStores DEF InCycle
  <2> QED BY <1>2, <1>3, <2>1, <2>2 DEF BatchStored
<1> QED BY <1>4, <1>5

LEMMA IndexWork ==
  ASSUME SoundStorage, TypeOK, LockHeld, NoIndex, BatchStored, RowMatchesNodes,
         NEW p \in Proc, Work(p)
  PROVE  BatchStored' /\ RowMatchesNodes'
<1>1. CASE RemoveFile(p) \/ ExtractAndStore(p) \/ WriteMetadata(p)
  BY <1>1, IndexRemove, IndexStored, IndexMetadata
<1>2. CASE Noop(p) \/ CycleFails(p)
  <2>1. UNCHANGED <<files, nodes>> /\ pc' = [pc EXCEPT ![p] = "idle"] /\ Forget(p)
    BY <1>2 DEF Noop, CycleFails, Goto, store
  <2> QED BY <2>1, IndexForgot
<1>3. CASE ReadSource(p)
  <2>1. UNCHANGED <<files, nodes, batch, pc>>
    BY <1>3 DEF ReadSource, store
  <2> QED BY <2>1, IndexKept DEF BatchStored
<1>4. CASE BeginMetadata(p)
  <2>1. /\ UNCHANGED <<files, nodes, batch>>
        /\ pc' = [pc EXCEPT ![p] = "meta"]
    BY <1>4 DEF BeginMetadata, Goto, store, cycle
  <2>2. \A q \in Proc, f \in File : batch'[q][f] # NoRow => pc'[q] \in {"store", "meta"}
    BY <2>1 DEF BatchStored, TypeOK
  <2> QED BY <2>1, <2>2, IndexKept
<1>5. CASE BeginAgain(p)
  <2>1. /\ UNCHANGED <<files, nodes, batch>>
        /\ pc' = [pc EXCEPT ![p] = "again"]
        /\ \A f \in File : batch[p][f] = NoRow
    BY <1>5 DEF BeginAgain, Goto, store
  <2>2. \A q \in Proc, f \in File : batch'[q][f] # NoRow => pc'[q] \in {"store", "meta"}
    BY <2>1 DEF BatchStored, TypeOK
  <2> QED BY <2>1, <2>2, IndexKept
<1>6. CASE Classify(p) \/ BeginRead(p) \/ BeginStore(p) \/ EndCycle(p)
  <2>1. /\ UNCHANGED <<files, nodes, batch>>
        /\ \E to \in {"remove", "read", "store", "scope"} : pc' = [pc EXCEPT ![p] = to]
        /\ pc[p] \notin {"store", "meta"}
    BY <1>6 DEF Classify, BeginRead, BeginStore, EndCycle, Goto, store, cycle
  <2> QED BY <2>1, IndexMoved
<1>7. CASE \/ ScopeFull(p) \/ ScopeIncremental(p) \/ Match(p) \/ Warm(p) \/ FetchAll(p)
           \/ CheckEnds(p) \/ RetryCommit(p) \/ (Commit(p) /\ joins[p] # {})
  <2>1. /\ UNCHANGED <<files, nodes, batch>>
        /\ \E to \in InResolution : pc' = [pc EXCEPT ![p] = to]
        /\ pc[p] \notin {"store", "meta"}
    BY <1>7 DEF ScopeFull, ScopeIncremental, Match, Warm, FetchAll, CheckEnds, RetryCommit,
         Commit, CommitResolved, InResolution, Goto, store, cycle
  <2> QED BY <2>1, IndexMoved
<1>8. CASE GiveUpCommit(p) \/ ResolutionFails(p) \/ (Commit(p) /\ joins[p] = {})
  <2>1. UNCHANGED <<files, nodes>> /\ pc' = [pc EXCEPT ![p] = "idle"] /\ Forget(p)
    BY <1>8 DEF GiveUpCommit, ResolutionFails, Commit, CommitResolved, Goto, store
  <2> QED BY <2>1, IndexForgot
<1>9. CASE ExtractForIndex(p) \/ Flush(p) \/ EndIndex(p)
  BY <1>9 DEF ExtractForIndex, Flush, EndIndex, Gathered, NoIndex, InIndex
<1> QED BY <1>1, <1>2, <1>3, <1>4, <1>5, <1>6, <1>7, <1>8, <1>9 DEF Work

LEMMA IndexOther ==
  ASSUME SoundStorage, TypeOK, BatchStored, RowMatchesNodes,
         Environment \/ (\E p \in Proc : Start(p)) \/ UNCHANGED vars
  PROVE  BatchStored' /\ RowMatchesNodes'
<1>1. UNCHANGED <<files, nodes>>
  BY EnvironmentKeepsStore DEF store
<1>2. CASE UNCHANGED <<batch, pc>>
  BY <1>1, <1>2, IndexKept DEF BatchStored
<1>3. ASSUME NEW p \in Proc, Crash(p)
      PROVE  BatchStored' /\ RowMatchesNodes'
  BY <1>1, <1>3, IndexForgot DEF Crash, Goto
<1>4. ASSUME NEW p \in Proc, Restart(p) \/ BeginCycle(p)
      PROVE  BatchStored' /\ RowMatchesNodes'
  BY <1>1, <1>4, IndexMoved DEF Restart, BeginCycle, Goto, cycle, Wake
<1>5. ASSUME NEW p \in Proc, BeginIndex(p)
      PROVE  FALSE
  BY <1>5 DEF BeginIndex, SoundStorage
<1> QED
  BY <1>2, <1>3, <1>4, <1>5 DEF Environment, Edit, Erase, Start, LockBusy, vars, cycle

LEMMA NoIndexNext ==
  ASSUME Indexer = {}, TypeOK, NoIndex, [Next]_vars
  PROVE  NoIndex'
<1>1. CASE UNCHANGED pc
  BY <1>1 DEF NoIndex
<1>2. ASSUME NEW p \in Proc, NEW to, to \notin InIndex, pc' = [pc EXCEPT ![p] = to]
      PROVE  NoIndex'
  BY <1>2 DEF NoIndex, TypeOK
<1>3. CASE Environment
  BY <1>1, <1>2, <1>3 DEF Environment, Edit, Erase, Crash, Restart, BeginIndex, Goto,
     InIndex
<1>4. ASSUME NEW p \in Proc, Start(p)
      PROVE  NoIndex'
  BY <1>1, <1>2, <1>4 DEF Start, BeginCycle, LockBusy, Goto, InIndex
<1>5. ASSUME NEW p \in Proc, Work(p)
      PROVE  NoIndex'
  BY <1>1, <1>2, <1>5 DEF Work, Noop, Classify, RemoveFile, BeginRead, ReadSource,
     BeginStore, ExtractAndStore, BeginMetadata, WriteMetadata, CycleFails, BeginAgain,
     EndCycle, ScopeFull, ScopeIncremental, Match, Warm, FetchAll, CheckEnds, Commit,
     RetryCommit, GiveUpCommit, ResolutionFails, ExtractForIndex, Flush, EndIndex, Goto,
     InIndex
<1> QED BY <1>1, <1>3, <1>4, <1>5 DEF Next, vars

LEMMA IndexNext ==
  ASSUME SoundStorage
  PROVE  TypeOK /\ LockHeld /\ IndexInv /\ [Next]_vars => IndexInv'
<1> SUFFICES ASSUME TypeOK, LockHeld, NoIndex, BatchStored, RowMatchesNodes, [Next]_vars
             PROVE  NoIndex' /\ BatchStored' /\ RowMatchesNodes'
  BY DEF IndexInv
<1>1. NoIndex'
  BY NoIndexNext DEF SoundStorage
<1>2. CASE Environment \/ (\E p \in Proc : Start(p)) \/ UNCHANGED vars
  BY <1>1, <1>2, IndexOther
<1>3. ASSUME NEW p \in Proc, Work(p)
      PROVE  BatchStored' /\ RowMatchesNodes'
  BY <1>3, IndexWork
<1> QED BY <1>1, <1>2, <1>3 DEF Next

(* Under any number of watchers and syncs, edits and crashes, a row's hash   *)
(* is the text whose nodes the index has: update_file_metadata, which writes *)
(* rows outside any transaction, never runs ahead of what was stored.        *)
THEOREM RowsMatch ==
  ASSUME SoundStorage
  PROVE  Spec => []RowMatchesNodes
<1>1. TypeOK /\ LockHeld /\ IndexInv /\ [Next]_vars => IndexInv'
  BY IndexNext
<1>2. IndexInv => RowMatchesNodes
  BY DEF IndexInv
<1> QED BY <1>1, <1>2, TypeCorrect, LockExcludes, IndexInit, PTL DEF Spec
=============================================================================
