----------------------------- MODULE EdgeProofs -----------------------------
(***************************************************************************)
(* Edges and references say what the stored texts say, while one process   *)
(* keeps the index current; and how far the index is behind the disk: what  *)
(* it does not show is detectable, work is found only where there is some,  *)
(* what a file says of itself is kept, rest means that nothing that can be  *)
(* named is left unresolved.  For any files, texts, edits and crashes.      *)
(***************************************************************************)
EXTENDS SyncProofs

(* One process, on storage that does what it is asked to: what two of them   *)
(* do to each other, resolving without the lock, makes the statement false.  *)
Alone == SoundStorage /\ \A p, q \in Proc : p = q

-----------------------------------------------------------------------------
(* Reference r is made by the text its file has in the index. *)
Made(r) ==
  /\ files[r.src[1]] # NoRow
  /\ <<r.src[2], r.name>> \in Uses[files[r.src[1]].hash]

(* Edge e answers such a reference, or joins a type to an interface. *)
Justified(e) ==
  /\ files[e[1][1]] # NoRow
  /\ \/ \E u \in Uses[files[e[1][1]].hash] : u[1] = e[1][2] /\ e[2][2] \in Answers[u[2]]
     \/ <<e[1][2], e[2][2]>> \in Structural

RefsMade == \A r \in refs : Made(r)

(* What a process has in mind for the store is justified by the store as it  *)
(* is now, and outside resolution it has nothing in mind: nobody else can    *)
(* replace a text between the fetch of a reference and the commit.           *)
Resting(p) == todo[p] = {} /\ joins[p] = {} /\ chosen[p] = {} /\ ok[p] = {}

PendingJustified ==
  \A p \in Proc :
    /\ pc[p] \notin InResolution => Resting(p)
    /\ \A r \in todo[p] : Made(r)
    /\ \A e \in joins[p] : Justified(e)
    /\ \A x \in chosen[p] \cup ok[p] : Justified(x.edge)

EdgesInv == EdgesJustified /\ RefsMade /\ PendingJustified

-----------------------------------------------------------------------------
(* The resolver and the structural pass choose justified edges. *)

LEMMA MatchesJustified ==
  ASSUME NEW rs \in SUBSET Ref, \A r \in rs : Made(r), NEW ns \in SUBSET Node,
         NEW m \in Matches(rs, ns), NEW x \in m
  PROVE  Justified(x.edge)
<1> DEFINE R == {r \in rs : \E n \in ns : n[2] \in Answers[r.name]}
           pick == {h \in [R -> ns] : \A r \in R : h[r][2] \in Answers[r.name]}
<1>1. PICK h \in pick : m = {[edge |-> <<r.src, h[r]>>, from |-> {r}] : r \in R}
  BY DEF Matches
<1>2. PICK r \in R : x.edge = <<r.src, h[r]>>
  BY <1>1
<1>3. Made(r) /\ h[r][2] \in Answers[r.name]
  BY <1>1
<1>4. x.edge[1] = r.src /\ x.edge[2] = h[r]
  BY <1>2
<1> DEFINE u == <<r.src[2], r.name>>
<1>5. u \in Uses[files[r.src[1]].hash] /\ u[1] = x.edge[1][2] /\ x.edge[2][2] \in Answers[u[2]]
  BY <1>3, <1>4 DEF Made
<1> HIDE DEF u
<1> QED BY <1>3, <1>4, <1>5 DEF Justified, Made

LEMMA ImplementsJustified ==
  ASSUME StoreTypeOK, RowMatchesNodes, NEW e \in Implements(nodes)
  PROVE  Justified(e)
<1>1. e[1] \in nodes /\ <<e[1][2], e[2][2]>> \in Structural
  BY DEF Implements
<1>2. e[1][1] \in File
  BY <1>1 DEF StoreTypeOK, Node
<1>3. files[e[1][1]] # NoRow
  BY <1>1, <1>2 DEF RowMatchesNodes, RowMatches
<1> QED BY <1>1, <1>3 DEF Justified

-----------------------------------------------------------------------------
(* What each call on the store keeps. *)

LEMMA RewriteKeepsEdges ==
  ASSUME StoreTypeOK, EdgesJustified, RefsMade, NEW f \in File, NEW row \in Row,
         Rewrite({f}, [g \in {f} |-> row])
  PROVE  EdgesJustified' /\ RefsMade'
<1>1. row # NoRow
  BY TextAssumption
<1>2. files'[f] = row /\ \A g \in File \ {f} : files'[g] = files[g]
  BY DEF Rewrite, StoreTypeOK
<1>3. ASSUME NEW e \in Edge, edges'[e] > 0
      PROVE  /\ files'[e[1][1]] # NoRow
             /\ \/ IsLocal(e, files'[e[1][1]])
                \/ \E u \in Uses[files'[e[1][1]].hash] : u[1] = e[1][2] /\ e[2][2] \in Answers[u[2]]
                \/ <<e[1][2], e[2][2]>> \in Structural
  <2>1. e[1][1] \in File
    BY DEF Edge, Node
  <2>2. CASE ~Touches(e, {f})
    <3>1. edges[e] > 0 /\ e[1][1] # f
      BY <1>3, <2>2 DEF Rewrite, Touches
    <3> QED BY <1>2, <2>1, <3>1 DEF EdgesJustified
  <2>3. CASE Touches(e, {f})
    <3>1. e[1][1] = f /\ IsLocal(e, row)
      BY <1>3, <2>3 DEF Rewrite
    <3> QED BY <1>1, <1>2, <3>1
  <2> QED BY <2>2, <2>3
<1>4. ASSUME NEW r \in refs'
      PROVE  files'[r.src[1]] # NoRow /\ <<r.src[2], r.name>> \in Uses[files'[r.src[1]].hash]
  <2>1. CASE r \in refs /\ r.src[1] # f
    <3>1. r.src[1] \in File
      BY <2>1 DEF StoreTypeOK, Ref, Node
    <3> QED BY <1>2, <2>1, <3>1 DEF RefsMade, Made
  <2>2. CASE r.src[1] = f /\ <<r.src[2], r.name>> \in Uses[row.hash]
    BY <1>1, <1>2, <2>2
  <2> QED BY <1>4, <2>1, <2>2 DEF Rewrite
<1> QED BY <1>3, <1>4 DEF EdgesJustified, RefsMade, Made

LEMMA DeleteKeepsEdges ==
  ASSUME StoreTypeOK, EdgesJustified, RefsMade, NEW f \in File, DeleteFile(f)
  PROVE  EdgesJustified' /\ RefsMade'
<1>1. \A g \in File \ {f} : files'[g] = files[g]
  BY DEF DeleteFile, StoreTypeOK
<1>2. ASSUME NEW e \in Edge, edges'[e] > 0
      PROVE  edges[e] > 0 /\ e[1][1] \in File \ {f}
  BY <1>2 DEF DeleteFile, Touches, Edge, Node
<1>3. \A r \in refs' : r \in refs /\ r.src[1] \in File \ {f}
  BY DEF DeleteFile, StoreTypeOK, Ref, Node
<1> QED BY <1>1, <1>2, <1>3 DEF EdgesJustified, RefsMade, Made

LEMMA UpsertKeepsEdges ==
  ASSUME StoreTypeOK, EdgesJustified, RefsMade, NEW f \in File, NEW row \in Row,
         files[f] # NoRow, files[f].hash = row.hash, UpsertRow(f, row)
  PROVE  EdgesJustified' /\ RefsMade'
<1>1. \A g \in File : files[g] # NoRow => files'[g] # NoRow /\ files'[g].hash = files[g].hash
  BY TextAssumption DEF UpsertRow, StoreTypeOK
<1>2. UNCHANGED <<edges, refs>>
  BY DEF UpsertRow
<1>3. \A e \in Edge : e[1][1] \in File
  BY DEF Edge, Node
<1>4. \A r \in refs : r.src[1] \in File
  BY DEF StoreTypeOK, Ref, Node
<1>5. EdgesJustified'
  BY <1>1, <1>2, <1>3 DEF EdgesJustified, IsLocal, Orphans
<1>6. RefsMade'
  BY <1>1, <1>2, <1>4 DEF RefsMade, Made
<1> QED BY <1>5, <1>6

LEMMA CommitKeepsEdges ==
  ASSUME StoreTypeOK, EdgesJustified, RefsMade, NEW C, NEW K,
         \A x \in K : Justified(x.edge), CommitResolved(C, K)
  PROVE  EdgesJustified' /\ RefsMade'
<1>1. UNCHANGED files /\ refs' \subseteq refs
  BY DEF CommitResolved
<1>2. ASSUME NEW e \in Edge, edges'[e] > 0
      PROVE  edges[e] > 0 \/ Justified(e)
  BY <1>2 DEF CommitResolved
<1> QED BY <1>1, <1>2 DEF EdgesJustified, Justified, RefsMade, Made

-----------------------------------------------------------------------------
(* What each kind of step keeps. *)

LEMMA EdgesInit == Init => EdgesInv
<1> SUFFICES ASSUME Init PROVE EdgesInv
  OBVIOUS
<1>1. StoreTypeOK /\ RowMatchesNodes
  BY TypeInit, IndexInit DEF TypeOK, IndexInv
<1>2. PICK done \in Matches(FirstRefs, nodes) : Resolved(done)
  BY DEF Init
<1>3. \A n \in nodes : n \in Node /\ files[n[1]] # NoRow
  BY DEF Init
<1>4. FirstRefs \in SUBSET Ref /\ \A r \in FirstRefs : Made(r)
  BY <1>3 DEF FirstRefs, Ref, Made
<1>5. \A x \in done : Justified(x.edge)
  BY <1>1, <1>2, <1>4, MatchesJustified DEF StoreTypeOK
<1>6. ASSUME NEW e \in Edge, edges[e] > 0
      PROVE  (files[e[1][1]] # NoRow /\ IsLocal(e, files[e[1][1]])) \/ Justified(e)
  <2>1. \/ e[1] \in nodes /\ IsLocal(e, files[e[1][1]])
        \/ \E x \in done : x.edge = e
        \/ e \in Implements(nodes)
    BY <1>2, <1>6 DEF Resolved
  <2> QED BY <1>1, <1>3, <1>5, <2>1, ImplementsJustified
<1>7. EdgesJustified
  BY <1>6 DEF EdgesJustified, Justified
<1>8. RefsMade
  BY <1>2, <1>4 DEF Resolved, RefsMade
<1>9. PendingJustified
  BY DEF Init, PendingJustified, Resting
<1> QED BY <1>7, <1>8, <1>9 DEF EdgesInv

(* The store stays, and so does what the processes have in mind. *)
LEMMA EdgesKept ==
  ASSUME EdgesInv, UNCHANGED <<files, edges, refs, todo, joins, chosen, ok>>,
         \A q \in Proc : pc'[q] \notin InResolution => pc[q] \notin InResolution
  PROVE  EdgesInv'
<1>1. \A e : Justified(e) => Justified(e)'
  BY DEF Justified
<1>2. \A r : Made(r) => Made(r)'
  BY DEF Made
<1>3. PendingJustified'
  BY <1>1, <1>2 DEF EdgesInv, PendingJustified, Resting
<1>4. EdgesJustified' /\ RefsMade'
  BY <1>2 DEF EdgesInv, EdgesJustified, RefsMade
<1> QED BY <1>3, <1>4 DEF EdgesInv

LEMMA EdgesMoved ==
  ASSUME TypeOK, EdgesInv, UNCHANGED <<files, edges, refs, todo, joins, chosen, ok>>,
         NEW p \in Proc, NEW to, pc' = [pc EXCEPT ![p] = to],
         to \notin InResolution => pc[p] \notin InResolution
  PROVE  EdgesInv'
<1>1. \A q \in Proc : pc'[q] \notin InResolution => pc[q] \notin InResolution
  BY DEF TypeOK
<1> QED BY <1>1, EdgesKept

LEMMA EdgesForgot ==
  ASSUME TypeOK, EdgesInv, UNCHANGED files, EdgesJustified', RefsMade',
         NEW p \in Proc, NEW to, pc' = [pc EXCEPT ![p] = to], Forget(p)
  PROVE  EdgesInv'
<1>1. Resting(p)'
  BY DEF Forget, TypeOK, Resting
<1>2. \A q \in Proc \ {p} : /\ pc'[q] = pc[q] /\ todo'[q] = todo[q] /\ joins'[q] = joins[q]
                            /\ chosen'[q] = chosen[q] /\ ok'[q] = ok[q]
  BY DEF Forget, TypeOK
<1>3. PendingJustified'
  BY <1>1, <1>2 DEF EdgesInv, PendingJustified, Made, Justified, Resting
<1> QED BY <1>3 DEF EdgesInv

(* The one process is in its cycle, where the store changes. *)
LEMMA EdgesStored ==
  ASSUME Alone, EdgesInv, NEW p \in Proc, pc[p] \in InCycle,
         UNCHANGED <<pc, resolution>>, EdgesJustified', RefsMade'
  PROVE  EdgesInv'
<1>1. \A q \in Proc : pc'[q] \notin InResolution /\ Resting(q)
  BY DEF Alone, EdgesInv, PendingJustified, InCycle, InResolution
<1>2. PendingJustified'
  BY <1>1 DEF PendingJustified, Resting, resolution
<1> QED BY <1>2 DEF EdgesInv

LEMMA EdgesCycle ==
  ASSUME Alone, TypeOK, IndexInv, EdgesInv, NEW p \in Proc,
         RemoveFile(p) \/ ExtractAndStore(p) \/ WriteMetadata(p)
  PROVE  EdgesInv'
<1> USE DEF IndexInv
<1>0. StoreTypeOK /\ EdgesJustified /\ RefsMade
  BY DEF TypeOK, EdgesInv
<1>1. UNCHANGED <<pc, resolution>> /\ pc[p] \in InCycle
  BY DEF RemoveFile, ExtractAndStore, WriteMetadata, InCycle
<1>2. CASE UNCHANGED store
  BY <1>0, <1>1, <1>2, EdgesStored DEF store, EdgesJustified, RefsMade, Made
<1>3. CASE RemoveFile(p)
  <2>1. PICK f \in File : DeleteFile(f) \/ UNCHANGED store
    BY <1>3 DEF RemoveFile, TypeOK
  <2> QED BY <1>0, <1>1, <1>2, <2>1, DeleteKeepsEdges, EdgesStored
<1>4. CASE ExtractAndStore(p)
  <2> DEFINE rowOf(h) == Extract(src[p][h], StampNow(h))
  <2>1. PICK f \in File : src[p][f] # NoText /\ (StoreBatch(f, rowOf(f)) \/ UNCHANGED store)
    BY <1>4 DEF ExtractAndStore
  <2>2. rowOf(f) \in Row
    BY <2>1, StatType, ExtractType DEF TypeOK
  <2> HIDE DEF rowOf
  <2>3. CASE Rewrite({f}, [g \in {f} |-> rowOf(f)])
    BY <1>0, <1>1, <2>2, <2>3, RewriteKeepsEdges, EdgesStored
  <2> QED BY <1>2, <2>1, <2>3 DEF StoreBatch
<1>5. CASE WriteMetadata(p)
  <2>1. PICK f \in File : batch[p][f] # NoRow /\ UpsertRow(f, batch[p][f])
    BY <1>5 DEF WriteMetadata
  <2>2. batch[p][f] \in Row /\ files[f] # NoRow /\ files[f].hash = batch[p][f].hash
    BY <2>1 DEF TypeOK, BatchStored
  <2> QED BY <1>0, <1>1, <2>1, <2>2, UpsertKeepsEdges, EdgesStored
<1> QED BY <1>3, <1>4, <1>5

(* After the edges of references a pass commits the structural ones.         *)
LEMMA JoinsHandedOver ==
  ASSUME TypeOK, NEW p \in Proc, Commit(p), joins[p] # {}
  PROVE  /\ chosen'[p] = [edge : joins[p], from : {{}}] /\ joins'[p] = {} /\ ok'[p] = {}
         /\ UNCHANGED todo
<1>1. p \in DOMAIN chosen /\ p \in DOMAIN joins /\ p \in DOMAIN ok
  BY DEF TypeOK
<1>2. /\ chosen' = [chosen EXCEPT ![p] = [edge : joins[p], from : {{}}]]
      /\ joins' = [joins EXCEPT ![p] = {}] /\ ok' = [ok EXCEPT ![p] = {}] /\ UNCHANGED todo
  BY DEF Commit
<1> QED BY <1>1, <1>2

LEMMA EdgesResolution ==
  ASSUME Alone, TypeOK, IndexInv, EdgesInv, NEW p \in Proc,
         ScopeIncremental(p) \/ Match(p) \/ Warm(p) \/ FetchAll(p) \/ CheckEnds(p) \/ Commit(p)
  PROVE  EdgesInv'
<1>0. /\ StoreTypeOK /\ EdgesJustified /\ RefsMade /\ RowMatchesNodes /\ PendingJustified
      /\ \A r \in todo[p] : Made(r)
      /\ \A e \in joins[p] : Justified(e)
      /\ \A x \in chosen[p] \cup ok[p] : Justified(x.edge)
      /\ \A q \in Proc : q = p
  BY DEF TypeOK, EdgesInv, IndexInv, PendingJustified, Alone
\* The process stays in resolution with justified edges in mind.
<1>1. ASSUME UNCHANGED files, EdgesJustified', RefsMade', pc'[p] \in InResolution,
             \A r \in todo'[p] : Made(r), \A e \in joins'[p] : Justified(e),
             \A x \in chosen'[p] \cup ok'[p] : Justified(x.edge)
      PROVE  EdgesInv'
  <2>1. PendingJustified'
    BY <1>0, <1>1 DEF PendingJustified, Made, Justified
  <2> QED BY <1>1, <2>1 DEF EdgesInv
<1>2. ASSUME UNCHANGED store PROVE UNCHANGED files /\ EdgesJustified' /\ RefsMade'
  BY <1>0, <1>2 DEF store, EdgesJustified, RefsMade, Made
<1>3. ASSUME NEW to \in InResolution, Goto(p, to) PROVE pc'[p] \in InResolution
  BY <1>3 DEF Goto, TypeOK
<1>4. CASE ScopeIncremental(p)
  <2>1. /\ UNCHANGED <<store, joins, chosen, ok>>
        /\ \E S \in SUBSET ScopedRefs(ChangedPaths(p)) : todo'[p] = UNION S
    BY <1>4 DEF ScopeIncremental, TypeOK
  <2>2. UNION ScopedRefs(ChangedPaths(p)) \subseteq refs
    BY DEF ScopedRefs, RefsOfFiles, RefsByNames
  <2>3. \A r \in todo'[p] : r \in refs
    BY <2>1, <2>2
  <2>4. Goto(p, "match") /\ "match" \in InResolution
    BY <1>4 DEF ScopeIncremental, InResolution
  <2> QED BY <1>0, <1>1, <1>2, <1>3, <2>1, <2>3, <2>4 DEF RefsMade
<1>5. CASE Match(p)
  <2>1. PICK m \in Matches(todo[p], nodes) : chosen' = [chosen EXCEPT ![p] = m]
    BY <1>5 DEF Match
  <2>2. chosen'[p] = m /\ todo'[p] = {} /\ UNCHANGED <<store, joins, ok>>
    BY <1>5, <2>1 DEF Match, TypeOK
  <2>3. \A x \in m : Justified(x.edge)
    BY <1>0, MatchesJustified DEF TypeOK, StoreTypeOK
  <2>4. Goto(p, "check") /\ "check" \in InResolution
    BY <1>5 DEF Match, InResolution
  <2> QED BY <1>0, <1>1, <1>2, <1>3, <2>2, <2>3, <2>4
<1>6. CASE Warm(p)
  <2>1. joins'[p] = Implements(nodes) /\ UNCHANGED <<store, todo, chosen, ok>>
    BY <1>6 DEF Warm, TypeOK
  <2>2. Goto(p, "fetch") /\ "fetch" \in InResolution
    BY <1>6 DEF Warm, InResolution
  <2> QED BY <1>0, <1>1, <1>2, <1>3, <2>1, <2>2, ImplementsJustified
<1>7. CASE FetchAll(p)
  <2>1. PICK m \in Matches(refs, cache[p]) : chosen' = [chosen EXCEPT ![p] = m]
    BY <1>7 DEF FetchAll
  <2>2. chosen'[p] = m /\ UNCHANGED <<store, todo, joins, ok>>
    BY <1>7, <2>1 DEF FetchAll, TypeOK
  <2>3. \A x \in m : Justified(x.edge)
    BY <1>0, MatchesJustified DEF TypeOK, StoreTypeOK, RefsMade
  <2>4. Goto(p, "check") /\ "check" \in InResolution
    BY <1>7 DEF FetchAll, InResolution
  <2> QED BY <1>0, <1>1, <1>2, <1>3, <2>2, <2>3, <2>4
<1>8. CASE CheckEnds(p)
  <2>1. ok'[p] \subseteq chosen[p] /\ UNCHANGED <<store, todo, joins, chosen>>
    BY <1>8 DEF CheckEnds, Existing, TypeOK
  <2>2. Goto(p, "commit") /\ "commit" \in InResolution
    BY <1>8 DEF CheckEnds, InResolution
  <2> QED BY <1>0, <1>1, <1>2, <1>3, <2>1, <2>2
<1>9. CASE Commit(p)
  <2>1. CommitResolved(chosen[p], ok[p]) /\ UNCHANGED files
    BY <1>9 DEF Commit, CommitResolved
  <2>2. EdgesJustified' /\ RefsMade'
    BY <1>0, <2>1, CommitKeepsEdges
  <2>3. CASE joins[p] = {}
    BY <1>9, <2>1, <2>2, <2>3, EdgesForgot DEF Commit, Goto
  <2>4. CASE joins[p] # {}
    <3>1. /\ chosen'[p] = [edge : joins[p], from : {{}}] /\ joins'[p] = {} /\ ok'[p] = {}
          /\ UNCHANGED todo
      BY <1>9, <2>4, JoinsHandedOver
    <3>2. Goto(p, "check") /\ "check" \in InResolution
      BY <1>9, <2>4 DEF Commit, InResolution
    <3>3. \A x \in chosen'[p] : x.edge \in joins[p]
      BY <3>1
    <3> QED BY <1>0, <1>1, <1>3, <2>1, <2>2, <3>1, <3>2, <3>3
  <2> QED BY <2>3, <2>4
<1> QED BY <1>4, <1>5, <1>6, <1>7, <1>8, <1>9

LEMMA EdgesWork ==
  ASSUME Alone, TypeOK, IndexInv, EdgesInv, NEW p \in Proc, Work(p)
  PROVE  EdgesInv'
<1>0. EdgesJustified /\ RefsMade
  BY DEF EdgesInv
<1>1. CASE RemoveFile(p) \/ ExtractAndStore(p) \/ WriteMetadata(p)
  BY <1>1, EdgesCycle
<1>2. CASE Noop(p) \/ CycleFails(p) \/ GiveUpCommit(p) \/ ResolutionFails(p)
  <2>1. UNCHANGED <<files, edges, refs>> /\ pc' = [pc EXCEPT ![p] = "idle"] /\ Forget(p)
    BY <1>2 DEF Noop, CycleFails, GiveUpCommit, ResolutionFails, Goto, store
  <2>2. EdgesJustified' /\ RefsMade'
    BY <1>0, <2>1 DEF EdgesJustified, RefsMade, Made
  <2> QED BY <2>1, <2>2, EdgesForgot
<1>3. CASE ReadSource(p)
  BY <1>3, EdgesKept DEF ReadSource, store, resolution
<1>4. CASE Classify(p) \/ BeginRead(p) \/ BeginStore(p) \/ BeginMetadata(p) \/ BeginAgain(p)
           \/ EndCycle(p)
  <2>1. /\ UNCHANGED <<files, edges, refs, todo, joins, chosen, ok>> /\ pc[p] \notin InResolution
        /\ \E to : pc' = [pc EXCEPT ![p] = to]
    BY <1>4 DEF Classify, BeginRead, BeginStore, BeginMetadata, BeginAgain, EndCycle, Goto, store,
                resolution, InResolution
  <2> QED BY <2>1, EdgesMoved
<1>5. CASE ScopeFull(p) \/ RetryCommit(p)
  <2>1. /\ UNCHANGED <<files, edges, refs, todo, joins, chosen, ok>>
        /\ \E to \in InResolution : pc' = [pc EXCEPT ![p] = to]
    BY <1>5 DEF ScopeFull, RetryCommit, Goto, store, resolution, InResolution
  <2> QED BY <2>1, EdgesMoved
<1>6. CASE \/ ScopeIncremental(p) \/ Match(p) \/ Warm(p) \/ FetchAll(p) \/ CheckEnds(p)
           \/ Commit(p)
  BY <1>6, EdgesResolution
<1>7. CASE ExtractForIndex(p) \/ Flush(p) \/ EndIndex(p)
  BY <1>7 DEF ExtractForIndex, Flush, EndIndex, Gathered, IndexInv, NoIndex, InIndex
<1> QED BY <1>1, <1>2, <1>3, <1>4, <1>5, <1>6, <1>7 DEF Work

LEMMA EdgesOther ==
  ASSUME Alone, TypeOK, EdgesInv,
         Environment \/ (\E p \in Proc : Start(p)) \/ UNCHANGED vars
  PROVE  EdgesInv'
<1>1. UNCHANGED <<files, edges, refs>>
  BY EnvironmentKeepsStore DEF store
<1>2. EdgesJustified' /\ RefsMade'
  BY <1>1 DEF EdgesInv, EdgesJustified, RefsMade, Made
<1>3. CASE UNCHANGED <<pc, resolution>>
  BY <1>1, <1>3, EdgesKept DEF resolution
<1>4. ASSUME NEW p \in Proc, Crash(p)
      PROVE  EdgesInv'
  BY <1>1, <1>2, <1>4, EdgesForgot DEF Crash, Goto
<1>5. ASSUME NEW p \in Proc, Restart(p) \/ BeginCycle(p)
      PROVE  EdgesInv'
  <2>1. /\ UNCHANGED <<todo, joins, chosen, ok>> /\ pc[p] \notin InResolution
        /\ \E to : pc' = [pc EXCEPT ![p] = to]
    BY <1>5 DEF Restart, BeginCycle, Wake, Goto, resolution, InResolution
  <2> QED BY <1>1, <2>1, EdgesMoved
<1>6. ASSUME NEW p \in Proc, BeginIndex(p)
      PROVE  FALSE
  BY <1>6 DEF BeginIndex, Alone, SoundStorage
<1> QED
  BY <1>3, <1>4, <1>5, <1>6 DEF Environment, Edit, Erase, Start, LockBusy, vars

LEMMA EdgesNext ==
  ASSUME Alone
  PROVE  TypeOK /\ IndexInv /\ EdgesInv /\ [Next]_vars => EdgesInv'
<1> SUFFICES ASSUME TypeOK, IndexInv, EdgesInv, [Next]_vars PROVE EdgesInv'
  OBVIOUS
<1>1. CASE Environment \/ (\E p \in Proc : Start(p)) \/ UNCHANGED vars
  BY <1>1, EdgesOther
<1>2. ASSUME NEW p \in Proc, Work(p) PROVE EdgesInv'
  BY <1>2, EdgesWork
<1> QED BY <1>1, <1>2 DEF Next

(* While the watcher of one server keeps the index, every edge stands on the     *)
(* text its source file has there, whatever the user edits and whenever the      *)
(* server is killed: re-extraction leaves no stale edge and resolution, outside  *)
(* the lock, commits none.                                                      *)
THEOREM EdgesStandOnTexts ==
  ASSUME Alone
  PROVE  Spec => []EdgesJustified
<1>0. SoundStorage
  BY DEF Alone
<1>1. TypeOK /\ LockHeld /\ IndexInv /\ [Next]_vars => IndexInv'
  BY <1>0, IndexNext
<1>2. TypeOK /\ IndexInv /\ EdgesInv /\ [Next]_vars => EdgesInv'
  BY EdgesNext
<1>3. EdgesInv => EdgesJustified
  BY DEF EdgesInv
<1> QED BY <1>1, <1>2, <1>3, TypeCorrect, LockExcludes, IndexInit, EdgesInit, PTL DEF Spec

-----------------------------------------------------------------------------
(* No reference becomes two edges. *)

(* What the extractor joins itself it does not leave as a reference as well. *)
Apart == \A c \in Content : \A u \in Uses[c] : \A s \in Answers[u[2]] : <<u[1], s>> \notin Local[c]

IsStructural(e) == <<e[1][2], e[2][2]>> \in Structural
AnswersRef(e, r) == r.src = e[1] /\ e[2][2] \in Answers[r.name]

RefsUnique == \A r, s \in refs : r.src = s.src /\ r.name = s.name => r = s

(* A reference that waits has none of the edges it could become ... *)
Open == \A e \in Edge : \A r \in refs : AnswersRef(e, r) /\ ~IsStructural(e) => edges[e] = 0

(* ... and an edge that waits to be committed stands for such a reference.   *)
Stands(x) == IsStructural(x.edge) \/ \E r \in refs : x.from = {r} /\ AnswersRef(x.edge, r)

PendingStands ==
  \A p \in Proc :
    /\ pc[p] # "match" => todo[p] = {}
    /\ pc[p] \notin {"check", "commit"} => ok[p] = {}
    /\ todo[p] \subseteq refs
    /\ \A e \in joins[p] : IsStructural(e)
    /\ ok[p] \subseteq chosen[p]
    /\ \A x \in chosen[p] : Stands(x)

OnceInv == NoDuplicateReferences /\ RefsUnique /\ Open /\ PendingStands

LEMMA MatchesAnswer ==
  ASSUME NEW rs, NEW ns, NEW m \in Matches(rs, ns), NEW x \in m
  PROVE  \E r \in rs : x.from = {r} /\ AnswersRef(x.edge, r)
<1> DEFINE R == {r \in rs : \E n \in ns : n[2] \in Answers[r.name]}
           pick == {h \in [R -> ns] : \A r \in R : h[r][2] \in Answers[r.name]}
<1>1. PICK h \in pick : m = {[edge |-> <<r.src, h[r]>>, from |-> {r}] : r \in R}
  BY DEF Matches
<1>2. PICK r \in R : x = [edge |-> <<r.src, h[r]>>, from |-> {r}]
  BY <1>1
<1> QED BY <1>1, <1>2 DEF AnswersRef

LEMMA ImplementsStructural ==
  \A e \in Implements(nodes) : IsStructural(e)
  BY DEF Implements, IsStructural

(* Two references of one symbol have no answer in common. *)
LEMMA NoCommonAnswer ==
  ASSUME StoreTypeOK, NEW r \in Ref, NEW s \in Ref, Made(r), Made(s), r.name # s.name, NEW e,
         AnswersRef(e, r), AnswersRef(e, s)
  PROVE  FALSE
<1> DEFINE c == files[r.src[1]].hash
           u == <<r.src[2], r.name>>
           v == <<s.src[2], s.name>>
<1>1. r.src[1] \in File /\ r.src = s.src
  BY DEF Ref, Node, AnswersRef
<1>2. c \in Content
  BY <1>1 DEF StoreTypeOK, Row, Made
<1>3. u \in Uses[c] /\ v \in Uses[c]
  BY <1>1 DEF Made
<1>4. u # v /\ u[1] = v[1] /\ u[2] = r.name /\ v[2] = s.name
  BY <1>1
<1> HIDE DEF c, u, v
<1>5. Answers[u[2]] \cap Answers[v[2]] = {}
  BY <1>2, <1>3, <1>4, TextAssumption
<1> QED BY <1>4, <1>5 DEF AnswersRef

(* A local edge is no answer to a reference of its text. *)
LEMMA LocalIsNoAnswer ==
  ASSUME Apart, NEW row \in Row, NEW e, NEW r, IsLocal(e, row), AnswersRef(e, r),
         <<r.src[2], r.name>> \in Uses[row.hash]
  PROVE  FALSE
<1> DEFINE u == <<r.src[2], r.name>>
<1>1. row.hash \in Content
  BY DEF Row
<1>2. u \in Uses[row.hash] /\ u[1] = e[1][2] /\ e[2][2] \in Answers[u[2]]
  BY DEF AnswersRef
<1> HIDE DEF u
<1>3. <<u[1], e[2][2]>> \notin Local[row.hash]
  BY <1>1, <1>2 DEF Apart
<1> QED BY <1>2, <1>3 DEF IsLocal

LEMMA RewriteKeepsOnce ==
  ASSUME Apart, StoreTypeOK, NoDuplicateReferences, RefsUnique, Open, NEW f \in File, NEW row \in Row,
         Rewrite({f}, [g \in {f} |-> row])
  PROVE  NoDuplicateReferences' /\ RefsUnique' /\ Open'
<1>1. \A e \in Edge : edges'[e] = IF ~Touches(e, {f}) THEN edges[e]
                                  ELSE IF e[1][1] = f /\ IsLocal(e, row) THEN 1 ELSE 0
  BY DEF Rewrite
<1>2. \A r \in refs' : \/ r \in refs /\ r.src[1] # f
                       \/ r.gen = gen /\ r.src[1] = f /\ <<r.src[2], r.name>> \in Uses[row.hash]
                          /\ r \in [gen : {gen}, src : Node, name : Name]
  BY DEF Rewrite
<1>3. NoDuplicateReferences'
  BY <1>1 DEF NoDuplicateReferences
<1>4. RefsUnique'
  <2> SUFFICES ASSUME NEW r \in refs', NEW s \in refs', r.src = s.src, r.name = s.name
               PROVE  r = s
    BY DEF RefsUnique
  <2>1. CASE r.src[1] # f
    BY <1>2, <2>1 DEF RefsUnique
  <2>2. CASE r.src[1] = f
    <3>1. \A t \in {r, s} : t.gen = gen /\ t \in [gen : {gen}, src : Node, name : Name]
      BY <1>2, <2>2
    <3> QED BY <3>1
  <2> QED BY <2>1, <2>2
<1>5. ASSUME NEW e \in Edge, NEW r \in refs', AnswersRef(e, r), ~IsStructural(e)
      PROVE  edges'[e] = 0
  <2>1. CASE r \in refs /\ r.src[1] # f
    BY <1>1, <1>5, <2>1 DEF Open, AnswersRef
  <2>2. CASE r.src[1] = f /\ <<r.src[2], r.name>> \in Uses[row.hash]
    <3>1. Touches(e, {f})
      BY <1>5, <2>2 DEF Touches, AnswersRef
    <3>2. ~IsLocal(e, row)
      BY <1>5, <2>2, LocalIsNoAnswer
    <3> QED BY <1>1, <3>1, <3>2
  <2> QED BY <1>2, <2>1, <2>2
<1> QED BY <1>3, <1>4, <1>5 DEF Open, AnswersRef, IsStructural

LEMMA DeleteKeepsOnce ==
  ASSUME NoDuplicateReferences, RefsUnique, Open, NEW f, DeleteFile(f)
  PROVE  NoDuplicateReferences' /\ RefsUnique' /\ Open'
<1>1. \A e \in Edge : edges'[e] = edges[e] \/ edges'[e] = 0
  BY DEF DeleteFile
<1>2. refs' \subseteq refs
  BY DEF DeleteFile
<1> QED BY <1>1, <1>2 DEF NoDuplicateReferences, RefsUnique, Open, AnswersRef, IsStructural

LEMMA CommitKeepsOnce ==
  ASSUME StoreTypeOK, RefsMade, OnceInv, NEW p \in Proc, CommitResolved(chosen[p], ok[p])
  PROVE  NoDuplicateReferences' /\ RefsUnique' /\ Open'
<1> USE DEF OnceInv
<1>0. ok[p] \subseteq chosen[p] /\ \A x \in chosen[p] : Stands(x)
  BY DEF PendingStands
<1>1. /\ \A e \in Edge : edges'[e] = IF \E x \in ok[p] : x.edge = e THEN edges[e] + 1 ELSE edges[e]
      /\ refs' = refs \ UNION {x.from : x \in chosen[p]}
  BY DEF CommitResolved
<1>2. ASSUME NEW e \in Edge, ~IsStructural(e), NEW x \in ok[p], x.edge = e
      PROVE  /\ edges[e] = 0
             /\ \A r \in refs' : ~AnswersRef(e, r)
  <2>1. PICK s \in refs : x.from = {s} /\ AnswersRef(e, s)
    BY <1>0, <1>2 DEF Stands
  <2>2. edges[e] = 0
    BY <1>2, <2>1 DEF Open
  <2>3. ASSUME NEW r \in refs', AnswersRef(e, r)
        PROVE  FALSE
    <3>1. s \notin refs' /\ r \in refs
      BY <1>0, <1>1, <1>2, <2>1
    <3>2. r.name # s.name
      BY <2>1, <2>3, <3>1 DEF RefsUnique, AnswersRef
    <3>3. r \in Ref /\ s \in Ref /\ Made(r) /\ Made(s)
      BY <2>1, <3>1 DEF StoreTypeOK, RefsMade
    <3> QED BY <2>1, <2>3, <3>2, <3>3, NoCommonAnswer
  <2> QED BY <2>2, <2>3
<1>3. NoDuplicateReferences'
  BY <1>1, <1>2 DEF NoDuplicateReferences, IsStructural
<1>4. RefsUnique'
  BY <1>1 DEF RefsUnique
<1>5. Open'
  <2> SUFFICES ASSUME NEW e \in Edge, NEW r \in refs', AnswersRef(e, r), ~IsStructural(e)
               PROVE  edges'[e] = 0
    BY DEF Open, AnswersRef, IsStructural
  <2>1. r \in refs /\ ~\E x \in ok[p] : x.edge = e
    BY <1>1, <1>2
  <2> QED BY <1>1, <2>1 DEF Open
<1> QED BY <1>3, <1>4, <1>5

LEMMA OnceInit ==
  ASSUME Apart
  PROVE  Init => OnceInv
<1> SUFFICES ASSUME Init PROVE OnceInv
  OBVIOUS
<1>1. StoreTypeOK
  BY TypeInit DEF TypeOK
<1>2. PICK done \in Matches(FirstRefs, nodes) : Resolved(done)
  BY DEF Init
<1>3. \A n \in nodes : n \in Node /\ files[n[1]] # NoRow
  BY DEF Init
<1>4. \A r \in FirstRefs : r \in Ref /\ Made(r) /\ r.gen = 0 /\ files[r.src[1]] \in Row
  BY <1>1, <1>3 DEF FirstRefs, Ref, Made, StoreTypeOK, Node
<1>5. \A r, s \in FirstRefs : r.src = s.src /\ r.name = s.name => r = s
  BY DEF FirstRefs
<1>6. \A x \in done : \E s \in FirstRefs : x.from = {s} /\ AnswersRef(x.edge, s)
  BY <1>2, MatchesAnswer
<1>7. \A e \in Edge, r \in FirstRefs : AnswersRef(e, r) => ~IsLocal(e, files[e[1][1]])
  BY <1>4, LocalIsNoAnswer DEF AnswersRef, Made
<1>8. \A e \in Edge : ~IsStructural(e) =>
        edges[e] = (IF e[1] \in nodes /\ IsLocal(e, files[e[1][1]]) THEN 1 ELSE 0)
                     + (IF \E x \in done : x.edge = e THEN 1 ELSE 0)
  BY <1>2, ImplementsStructural DEF Resolved
<1>9. NoDuplicateReferences
  BY <1>6, <1>7, <1>8 DEF NoDuplicateReferences, IsStructural
<1>10. refs \subseteq FirstRefs /\ \A r \in refs, x \in done : r \notin x.from
  BY <1>2 DEF Resolved
<1>11. RefsUnique
  BY <1>5, <1>10 DEF RefsUnique
<1>12. ASSUME NEW e \in Edge, NEW r \in refs, AnswersRef(e, r), ~IsStructural(e)
       PROVE  edges[e] = 0
  <2>1. ASSUME NEW x \in done, x.edge = e
        PROVE  FALSE
    <3>1. PICK s \in FirstRefs : x.from = {s} /\ AnswersRef(e, s)
      BY <1>6, <2>1
    <3>2. r \in FirstRefs /\ r # s /\ r.src = s.src
      BY <1>10, <1>12, <3>1 DEF AnswersRef
    <3>3. r.name # s.name
      BY <1>5, <3>2
    <3> QED BY <1>1, <1>4, <1>12, <3>1, <3>2, <3>3, NoCommonAnswer
  <2>2. ~IsLocal(e, files[e[1][1]])
    BY <1>7, <1>10, <1>12
  <2> QED BY <1>8, <1>12, <2>1, <2>2
<1>13. PendingStands
  BY DEF Init, PendingStands
<1> QED BY <1>9, <1>11, <1>12, <1>13 DEF OnceInv, Open

(* The processes keep what they have in mind, or forget it. *)
LEMMA OnceKept ==
  ASSUME OnceInv, UNCHANGED <<edges, refs>>,
         \A q \in Proc : \/ /\ todo'[q] = todo[q] /\ joins'[q] = joins[q]
                            /\ chosen'[q] = chosen[q] /\ ok'[q] = ok[q]
                            /\ \/ pc'[q] = pc[q] \/ pc[q] \notin {"match", "check", "commit"}
                               \/ pc[q] = "commit" /\ pc'[q] = "check"
                         \/ Resting(q)'
  PROVE  OnceInv'
<1>1. \A x : Stands(x) => Stands(x)'
  BY DEF Stands
<1>2. ASSUME NEW q \in Proc, Resting(q)'
      PROVE  /\ todo'[q] = {} /\ ok'[q] = {} /\ \A e \in joins'[q] : IsStructural(e)
             /\ \A x \in chosen'[q] : Stands(x)'
  BY <1>2 DEF Resting
<1>3. PendingStands'
  BY <1>1, <1>2 DEF OnceInv, PendingStands
<1> QED BY <1>3 DEF OnceInv, NoDuplicateReferences, RefsUnique, Open

(* The run of process p ends. *)
LEMMA OnceForgot ==
  ASSUME TypeOK, OnceInv, UNCHANGED <<edges, refs>>,
         NEW p \in Proc, NEW to, pc' = [pc EXCEPT ![p] = to], Forget(p)
  PROVE  OnceInv'
<1>1. Resting(p)'
  BY DEF Forget, TypeOK, Resting
<1>2. \A q \in Proc \ {p} : /\ todo'[q] = todo[q] /\ joins'[q] = joins[q]
                            /\ chosen'[q] = chosen[q] /\ ok'[q] = ok[q] /\ pc'[q] = pc[q]
  BY DEF Forget, TypeOK
<1> QED BY <1>1, <1>2, OnceKept

(* Process p moves and keeps what it has in mind. *)
LEMMA OnceMoved ==
  ASSUME TypeOK, OnceInv, UNCHANGED <<edges, refs, todo, joins, chosen, ok>>,
         NEW p \in Proc, NEW to, pc' = [pc EXCEPT ![p] = to],
         pc[p] \notin {"match", "check", "commit"} \/ (pc[p] = "commit" /\ to = "check")
  PROVE  OnceInv'
<1>1. \A q \in Proc : pc'[q] = IF q = p THEN to ELSE pc[q]
  BY DEF TypeOK
<1> QED BY <1>1, OnceKept

LEMMA OnceCycle ==
  ASSUME Alone, Apart, TypeOK, EdgesInv, OnceInv, NEW p \in Proc,
         RemoveFile(p) \/ ExtractAndStore(p) \/ WriteMetadata(p)
  PROVE  OnceInv'
<1>0. StoreTypeOK /\ NoDuplicateReferences /\ RefsUnique /\ Open
  BY DEF TypeOK, OnceInv
<1>1. UNCHANGED <<pc, resolution>> /\ pc[p] \in InCycle
  BY DEF RemoveFile, ExtractAndStore, WriteMetadata, InCycle
<1>2. \A q \in Proc : Resting(q)
  BY <1>1 DEF Alone, EdgesInv, PendingJustified, InCycle, InResolution
<1>3. PendingStands'
  BY <1>1, <1>2 DEF PendingStands, Resting, resolution
<1>4. ASSUME NoDuplicateReferences', RefsUnique', Open' PROVE OnceInv'
  BY <1>3, <1>4 DEF OnceInv
<1>5. CASE UNCHANGED <<edges, refs>>
  BY <1>0, <1>4, <1>5 DEF NoDuplicateReferences, RefsUnique, Open, AnswersRef, IsStructural
<1>6. CASE RemoveFile(p)
  <2>1. PICK f \in File : DeleteFile(f) \/ UNCHANGED store
    BY <1>6 DEF RemoveFile, TypeOK
  <2> QED BY <1>0, <1>4, <1>5, <2>1, DeleteKeepsOnce DEF store
<1>7. CASE ExtractAndStore(p)
  <2> DEFINE rowOf(h) == Extract(src[p][h], StampNow(h))
  <2>1. PICK f \in File : src[p][f] # NoText /\ (StoreBatch(f, rowOf(f)) \/ UNCHANGED store)
    BY <1>7 DEF ExtractAndStore
  <2>2. rowOf(f) \in Row
    BY <2>1, StatType, ExtractType DEF TypeOK
  <2> HIDE DEF rowOf
  <2>3. CASE Rewrite({f}, [g \in {f} |-> rowOf(f)])
    BY <1>0, <1>4, <2>2, <2>3, RewriteKeepsOnce
  <2> QED BY <1>5, <2>1, <2>3 DEF StoreBatch, store
<1>8. CASE WriteMetadata(p)
  BY <1>5, <1>8 DEF WriteMetadata, UpsertRow
<1> QED BY <1>6, <1>7, <1>8

LEMMA OnceResolution ==
  ASSUME Alone, TypeOK, EdgesInv, OnceInv, NEW p \in Proc,
         ScopeIncremental(p) \/ Match(p) \/ Warm(p) \/ FetchAll(p) \/ CheckEnds(p) \/ Commit(p)
  PROVE  OnceInv'
<1>0. /\ NoDuplicateReferences /\ RefsUnique /\ Open
      /\ pc[p] # "match" => todo[p] = {}
      /\ pc[p] \notin {"check", "commit"} => ok[p] = {}
      /\ todo[p] \subseteq refs
      /\ \A e \in joins[p] : IsStructural(e)
      /\ ok[p] \subseteq chosen[p]
      /\ \A x \in chosen[p] : Stands(x)
      /\ \A q \in Proc : q = p
  BY DEF OnceInv, PendingStands, Alone
\* The process has edges in mind that stand for references of the store.
<1>1. ASSUME UNCHANGED <<edges, refs>>, todo'[p] \subseteq refs, \A e \in joins'[p] : IsStructural(e),
             ok'[p] \subseteq chosen'[p], \A x \in chosen'[p] : Stands(x),
             pc'[p] # "match" => todo'[p] = {}, pc'[p] \notin {"check", "commit"} => ok'[p] = {}
      PROVE  OnceInv'
  <2>1. PendingStands'
    BY <1>0, <1>1 DEF PendingStands, Stands, AnswersRef, IsStructural
  <2> QED BY <1>0, <1>1, <2>1 DEF OnceInv, NoDuplicateReferences, RefsUnique, Open, AnswersRef, IsStructural
<1>2. \A x : (\E r \in refs : x.from = {r} /\ AnswersRef(x.edge, r)) => Stands(x)
  BY DEF Stands
<1>3. ASSUME NEW to, Goto(p, to) PROVE pc'[p] = to
  BY <1>3 DEF Goto, TypeOK
<1>4. CASE ScopeIncremental(p)
  <2>1. /\ UNCHANGED <<store, joins, chosen, ok>>
        /\ \E S \in SUBSET ScopedRefs(ChangedPaths(p)) : todo'[p] = UNION S
    BY <1>4 DEF ScopeIncremental, TypeOK
  <2>2. UNION ScopedRefs(ChangedPaths(p)) \subseteq refs
    BY DEF ScopedRefs, RefsOfFiles, RefsByNames
  <2>3. todo'[p] \subseteq refs
    BY <2>1, <2>2
  <2>4. pc[p] = "scope" /\ pc'[p] = "match"
    BY <1>3, <1>4 DEF ScopeIncremental
  <2> QED BY <1>0, <1>1, <2>1, <2>3, <2>4 DEF store
<1>5. CASE Match(p)
  <2>1. PICK m \in Matches(todo[p], nodes) : chosen' = [chosen EXCEPT ![p] = m]
    BY <1>5 DEF Match
  <2>2. chosen'[p] = m /\ todo'[p] = {} /\ UNCHANGED <<store, joins, ok>>
    BY <1>5, <2>1 DEF Match, TypeOK
  <2>3. \A x \in m : Stands(x)
    BY <1>0, <1>2, MatchesAnswer
  <2>4. pc[p] = "match" /\ pc'[p] = "check"
    BY <1>3, <1>5 DEF Match
  <2> QED BY <1>0, <1>1, <2>2, <2>3, <2>4 DEF store
<1>6. CASE Warm(p)
  <2>1. joins'[p] = Implements(nodes) /\ UNCHANGED <<store, todo, chosen, ok>>
    BY <1>6 DEF Warm, TypeOK
  <2>2. pc[p] = "warm" /\ pc'[p] = "fetch"
    BY <1>3, <1>6 DEF Warm
  <2> QED BY <1>0, <1>1, <2>1, <2>2, ImplementsStructural DEF store
<1>7. CASE FetchAll(p)
  <2>1. PICK m \in Matches(refs, cache[p]) : chosen' = [chosen EXCEPT ![p] = m]
    BY <1>7 DEF FetchAll
  <2>2. chosen'[p] = m /\ UNCHANGED <<store, todo, joins, ok>>
    BY <1>7, <2>1 DEF FetchAll, TypeOK
  <2>3. \A x \in m : Stands(x)
    BY <1>2, MatchesAnswer
  <2>4. pc[p] = "fetch" /\ pc'[p] = "check"
    BY <1>3, <1>7 DEF FetchAll
  <2> QED BY <1>0, <1>1, <2>2, <2>3, <2>4 DEF store
<1>8. CASE CheckEnds(p)
  <2>1. ok'[p] \subseteq chosen[p] /\ UNCHANGED <<store, todo, joins, chosen>>
    BY <1>8 DEF CheckEnds, Existing, TypeOK
  <2>2. pc[p] = "check" /\ pc'[p] = "commit"
    BY <1>3, <1>8 DEF CheckEnds
  <2> QED BY <1>0, <1>1, <2>1, <2>2 DEF store
<1>9. CASE Commit(p)
  <2>1. NoDuplicateReferences' /\ RefsUnique' /\ Open'
    BY <1>9, CommitKeepsOnce DEF Commit, TypeOK, EdgesInv
  <2>2. CASE joins[p] = {}
    <3>1. Resting(p)'
      BY <1>9, <2>2 DEF Commit, Forget, TypeOK, Resting
    <3>2. PendingStands'
      BY <1>0, <3>1 DEF PendingStands, Resting
    <3> QED BY <2>1, <3>2 DEF OnceInv
  <2>3. CASE joins[p] # {}
    <3>1. /\ chosen'[p] = [edge : joins[p], from : {{}}] /\ joins'[p] = {} /\ ok'[p] = {}
          /\ UNCHANGED todo
      BY <1>9, <2>3, JoinsHandedOver
    <3>2. \A x \in chosen'[p] : IsStructural(x.edge)
      BY <1>0, <3>1
    <3>3. todo'[p] = {} /\ pc'[p] = "check"
      BY <1>0, <1>3, <1>9, <2>3, <3>1 DEF Commit
    <3>4. \A x \in chosen'[p] : Stands(x)'
      BY <3>2 DEF Stands, IsStructural
    <3>5. PendingStands'
      BY <1>0, <3>1, <3>3, <3>4 DEF PendingStands
    <3> QED BY <2>1, <3>5 DEF OnceInv
  <2> QED BY <2>2, <2>3
<1> QED BY <1>4, <1>5, <1>6, <1>7, <1>8, <1>9

LEMMA OnceWork ==
  ASSUME Alone, Apart, TypeOK, IndexInv, EdgesInv, OnceInv, NEW p \in Proc, Work(p)
  PROVE  OnceInv'
<1>1. CASE RemoveFile(p) \/ ExtractAndStore(p) \/ WriteMetadata(p)
  BY <1>1, OnceCycle
<1>2. CASE Noop(p) \/ CycleFails(p) \/ GiveUpCommit(p) \/ ResolutionFails(p)
  <2>1. UNCHANGED <<edges, refs>> /\ pc' = [pc EXCEPT ![p] = "idle"] /\ Forget(p)
    BY <1>2 DEF Noop, CycleFails, GiveUpCommit, ResolutionFails, Goto, store
  <2> QED BY <2>1, OnceForgot
<1>3. CASE ReadSource(p)
  <2>1. UNCHANGED <<edges, refs, pc, todo, joins, chosen, ok>>
    BY <1>3 DEF ReadSource, store, resolution
  <2> QED BY <2>1, OnceKept
<1>4. CASE \/ Classify(p) \/ BeginRead(p) \/ BeginStore(p) \/ BeginMetadata(p) \/ BeginAgain(p)
           \/ EndCycle(p) \/ ScopeFull(p) \/ RetryCommit(p)
  <2>1. /\ UNCHANGED <<edges, refs, todo, joins, chosen, ok>>
        /\ \E to : /\ pc' = [pc EXCEPT ![p] = to]
                   /\ pc[p] \notin {"match", "check", "commit"} \/ (pc[p] = "commit" /\ to = "check")
    BY <1>4 DEF Classify, BeginRead, BeginStore, BeginMetadata, BeginAgain, EndCycle, ScopeFull,
                RetryCommit, Goto, store, resolution
  <2> QED BY <2>1, OnceMoved
<1>5. CASE \/ ScopeIncremental(p) \/ Match(p) \/ Warm(p) \/ FetchAll(p) \/ CheckEnds(p)
           \/ Commit(p)
  BY <1>5, OnceResolution
<1>6. CASE ExtractForIndex(p) \/ Flush(p) \/ EndIndex(p)
  BY <1>6 DEF ExtractForIndex, Flush, EndIndex, Gathered, IndexInv, NoIndex, InIndex
<1> QED BY <1>1, <1>2, <1>3, <1>4, <1>5, <1>6 DEF Work

LEMMA OnceOther ==
  ASSUME Alone, TypeOK, OnceInv,
         Environment \/ (\E p \in Proc : Start(p)) \/ UNCHANGED vars
  PROVE  OnceInv'
<1>1. UNCHANGED <<edges, refs>>
  BY EnvironmentKeepsStore DEF store
<1>2. CASE UNCHANGED <<pc, resolution>>
  BY <1>1, <1>2, OnceKept DEF resolution
<1>3. ASSUME NEW p \in Proc, Crash(p)
      PROVE  OnceInv'
  BY <1>1, <1>3, OnceForgot DEF Crash, Goto
<1>4. ASSUME NEW p \in Proc, Restart(p) \/ BeginCycle(p)
      PROVE  OnceInv'
  <2>1. /\ UNCHANGED <<todo, joins, chosen, ok>> /\ pc[p] \notin {"match", "check", "commit"}
        /\ \E to : pc' = [pc EXCEPT ![p] = to]
    BY <1>4 DEF Restart, BeginCycle, Wake, Goto, resolution
  <2> QED BY <1>1, <2>1, OnceMoved
<1>5. ASSUME NEW p \in Proc, BeginIndex(p)
      PROVE  FALSE
  BY <1>5 DEF BeginIndex, Alone, SoundStorage
<1> QED
  BY <1>2, <1>3, <1>4, <1>5 DEF Environment, Edit, Erase, Start, LockBusy, vars

LEMMA OnceNext ==
  ASSUME Alone, Apart
  PROVE  TypeOK /\ IndexInv /\ EdgesInv /\ OnceInv /\ [Next]_vars => OnceInv'
<1> SUFFICES ASSUME TypeOK, IndexInv, EdgesInv, OnceInv, [Next]_vars PROVE OnceInv'
  OBVIOUS
<1>1. CASE Environment \/ (\E p \in Proc : Start(p)) \/ UNCHANGED vars
  BY <1>1, OnceOther
<1>2. ASSUME NEW p \in Proc, Work(p) PROVE OnceInv'
  BY <1>2, OnceWork
<1> QED BY <1>1, <1>2 DEF Next

(* A reference becomes one edge, although no UNIQUE constraint says so: through   *)
(* scoped and full passes over the same references, edits, re-extractions and    *)
(* kills between a pass and its commit.                                         *)
THEOREM ReferencesOnce ==
  ASSUME Alone, Apart
  PROVE  Spec => []NoDuplicateReferences
<1>0. SoundStorage
  BY DEF Alone
<1>1. TypeOK /\ LockHeld /\ IndexInv /\ [Next]_vars => IndexInv'
  BY <1>0, IndexNext
<1>2. TypeOK /\ IndexInv /\ EdgesInv /\ [Next]_vars => EdgesInv'
  BY EdgesNext
<1>3. TypeOK /\ IndexInv /\ EdgesInv /\ OnceInv /\ [Next]_vars => OnceInv'
  BY OnceNext
<1>4. Init => OnceInv
  BY OnceInit
<1>5. OnceInv => NoDuplicateReferences
  BY DEF OnceInv
<1> QED BY <1>1, <1>2, <1>3, <1>4, <1>5, TypeCorrect, LockExcludes, IndexInit, EdgesInit, PTL DEF Spec

-----------------------------------------------------------------------------
(* Records come from the texts of their files and from the past. *)

(* Extraction made the record `row` of a text of file f, and stamped it no   *)
(* later than the next edit.                                                *)
RecordOf(f, row) ==
  row.hash \in Texts[f] /\ row.size = SizeOf[row.hash] /\ row.mtime <= edits + 1

DiskOf(f) == disk[f] # NoFile => disk[f].text \in Texts[f] /\ disk[f].mtime <= edits + 1

RecordsInv ==
  /\ \A f \in File : DiskOf(f)
  /\ \A f \in File : files[f] # NoRow => RecordOf(f, files[f])
  /\ \A p \in Proc, f \in File : src[p][f] # NoText => src[p][f] \in Texts[f]
  /\ \A p \in Proc, f \in File : batch[p][f] # NoRow => RecordOf(f, batch[p][f])

LEMMA RecordsInit == Init => RecordsInv
<1> SUFFICES ASSUME Init PROVE RecordsInv
  OBVIOUS
<1>1. ASSUME NEW f \in File
      PROVE  DiskOf(f) /\ (files[f] # NoRow => RecordOf(f, files[f]))
  <2>1. CASE disk[f] = NoFile
    BY <2>1 DEF Init, DiskOf
  <2>2. CASE disk[f] # NoFile
    <3>1. disk[f] \in [text : Content, mtime : {1}] /\ disk[f].text \in Texts[f] /\ edits = 0
      BY <2>2 DEF Init
    <3>2. disk[f].mtime = 1
      BY <3>1
    <3>3. files[f] = Extract(disk[f].text, IF f \in ZeroStamp THEN 0 ELSE disk[f].mtime)
      BY <2>2 DEF Init
    <3> QED BY <3>1, <3>2, <3>3 DEF DiskOf, RecordOf, Extract
  <2> QED BY <2>1, <2>2
<1>2. \A p \in Proc, f \in File : src[p][f] = NoText /\ batch[p][f] = NoRow
  BY DEF Init
<1> QED BY <1>1, <1>2 DEF RecordsInv

(* Nobody edits: what is new in the index or in the hands of a process is a  *)
(* record or a text as it has to be.                                        *)
LEMMA RecordsKept ==
  ASSUME RecordsInv, UNCHANGED <<disk, edits>>,
         \A f \in File : files'[f] \in {files[f], NoRow} \/ RecordOf(f, files'[f]),
         \A p \in Proc, f \in File : src'[p][f] \in {src[p][f], NoText} \cup Texts[f],
         \A p \in Proc, f \in File :
           batch'[p][f] \in {batch[p][f], NoRow} \/ RecordOf(f, batch'[p][f])
  PROVE  RecordsInv'
<1>1. (\A f \in File : DiskOf(f))'
  BY DEF RecordsInv, DiskOf
<1>2. \A f \in File : files'[f] # NoRow => RecordOf(f, files'[f])
  BY DEF RecordsInv
<1>3. \A p \in Proc, f \in File : src'[p][f] # NoText => src'[p][f] \in Texts[f]
  BY DEF RecordsInv
<1>4. \A p \in Proc, f \in File : batch'[p][f] # NoRow => RecordOf(f, batch'[p][f])
  BY DEF RecordsInv
<1> QED BY <1>1, <1>2, <1>3, <1>4 DEF RecordsInv, RecordOf

LEMMA RecordsForgot ==
  ASSUME TypeOK, RecordsInv, UNCHANGED <<disk, edits, files>>, NEW p \in Proc, Forget(p)
  PROVE  RecordsInv'
<1>1. \A q \in Proc, f \in File : src'[q][f] \in {src[q][f], NoText} /\ batch'[q][f] \in {batch[q][f], NoRow}
  BY DEF Forget, TypeOK
<1> QED BY <1>1, RecordsKept

(* The record made of a text that was read, stamped with the mtime of now. *)
LEMMA RecordMade ==
  ASSUME TypeOK, RecordsInv, NEW f \in File, NEW c \in Texts[f]
  PROVE  RecordOf(f, Extract(c, StampNow(f)))
<1>1. StampNow(f) <= edits + 1
  BY DEF TypeOK, Stamp, RecordsInv, DiskOf, StampNow, StatTime
<1> QED BY <1>1 DEF RecordOf, Extract

(* The files of a replacement are the rows of it. *)
LEMMA RewriteFiles ==
  ASSUME NEW S \in SUBSET File, NEW row, Rewrite(S, row), NEW f \in File
  PROVE  files'[f] = IF f \in S THEN row[f] ELSE files[f]
  BY DEF Rewrite

LEMMA RecordsWork ==
  ASSUME TypeOK, RecordsInv, NEW p \in Proc, Work(p)
  PROVE  RecordsInv'
<1>1. CASE Noop(p) \/ CycleFails(p) \/ GiveUpCommit(p) \/ ResolutionFails(p) \/ EndIndex(p)
  <2>1. UNCHANGED <<disk, edits, files>> /\ Forget(p)
    BY <1>1 DEF Noop, CycleFails, GiveUpCommit, ResolutionFails, EndIndex, store, world
  <2> QED BY <2>1, RecordsForgot
<1>2. CASE Classify(p) \/ BeginRead(p) \/ BeginStore(p) \/ BeginMetadata(p) \/ BeginAgain(p)
           \/ EndCycle(p) \/ ScopeFull(p) \/ ScopeIncremental(p) \/ Match(p) \/ Warm(p)
           \/ FetchAll(p) \/ CheckEnds(p) \/ RetryCommit(p)
  <2>1. UNCHANGED <<disk, edits, files, src, batch>>
    BY <1>2 DEF Classify, BeginRead, BeginStore, BeginMetadata, BeginAgain, EndCycle, ScopeFull,
                ScopeIncremental, Match, Warm, FetchAll, CheckEnds, RetryCommit, store, world,
                cycle
  <2> QED BY <2>1, RecordsKept
<1>3. CASE Commit(p)
  <2>1. UNCHANGED <<disk, edits, files>> /\ (Forget(p) \/ UNCHANGED <<src, batch>>)
    BY <1>3 DEF Commit, CommitResolved, world, cycle
  <2> QED BY <2>1, RecordsKept, RecordsForgot
<1>4. CASE RemoveFile(p)
  <2>1. PICK g \in File : DeleteFile(g) \/ UNCHANGED store
    BY <1>4 DEF RemoveFile, TypeOK
  <2>2. \A f \in File : files'[f] \in {files[f], NoRow}
    BY <2>1 DEF DeleteFile, store, TypeOK, StoreTypeOK
  <2>3. UNCHANGED <<disk, edits, src, batch>>
    BY <1>4 DEF RemoveFile, world
  <2> QED BY <2>2, <2>3, RecordsKept
<1>5. CASE ReadSource(p)
  <2>1. PICK g \in File :
          src' = [src EXCEPT ![p][g] = IF disk[g] = NoFile THEN NoText ELSE disk[g].text]
    BY <1>5 DEF ReadSource, TypeOK
  <2>2. disk[g] # NoFile => disk[g].text \in Texts[g]
    BY DEF RecordsInv, DiskOf
  <2>3. \A q \in Proc, f \in File : src'[q][f] \in {src[q][f], NoText} \cup Texts[f]
    BY <2>1, <2>2 DEF TypeOK
  <2>4. UNCHANGED <<disk, edits, files, batch>>
    BY <1>5 DEF ReadSource, store, world
  <2> QED BY <2>3, <2>4, RecordsKept
<1>6. CASE ExtractAndStore(p) \/ ExtractForIndex(p)
  <2> DEFINE rowOf(h) == Extract(src[p][h], StampNow(h))
  <2>1. PICK g \in File :
          /\ src[p][g] # NoText
          /\ batch' = [batch EXCEPT ![p][g] = rowOf(g)]
          /\ StoreBatch(g, rowOf(g)) \/ UNCHANGED store
          /\ src' = [src EXCEPT ![p][g] = NoText]
    BY <1>6 DEF ExtractAndStore, ExtractForIndex
  <2>2. RecordOf(g, rowOf(g))
    BY <2>1, RecordMade DEF RecordsInv
  <2> HIDE DEF rowOf
  <2>3. \A f \in File : files'[f] = files[f] \/ (f = g /\ files'[f] = rowOf(g))
    <3>1. CASE UNCHANGED store
      BY <3>1 DEF store
    <3>2. CASE Rewrite({g}, [h \in {g} |-> rowOf(g)])
      BY <3>2, RewriteFiles
    <3> QED BY <2>1, <3>1, <3>2 DEF StoreBatch
  <2>4. \A f \in File : files'[f] \in {files[f], NoRow} \/ RecordOf(f, files'[f])
    BY <2>2, <2>3
  <2>5. \A q \in Proc, f \in File : batch'[q][f] \in {batch[q][f], NoRow} \/ RecordOf(f, batch'[q][f])
    <3>1. \A q \in Proc, f \in File :
            batch'[q][f] = batch[q][f] \/ (f = g /\ batch'[q][f] = rowOf(g))
      BY <2>1 DEF TypeOK
    <3> QED BY <2>2, <3>1
  <2>6. \A q \in Proc, f \in File : src'[q][f] \in {src[q][f], NoText}
    BY <2>1 DEF TypeOK
  <2>7. UNCHANGED <<disk, edits>>
    BY <1>6 DEF ExtractAndStore, ExtractForIndex, world
  <2> QED BY <2>4, <2>5, <2>6, <2>7, RecordsKept
<1>7. CASE WriteMetadata(p)
  <2>1. PICK g \in File :
          /\ batch[p][g] # NoRow /\ files' = [files EXCEPT ![g] = batch[p][g]]
          /\ batch' = [batch EXCEPT ![p][g] = NoRow]
    BY <1>7 DEF WriteMetadata, UpsertRow
  <2>2. RecordOf(g, batch[p][g])
    BY <2>1 DEF RecordsInv
  <2>3. \A f \in File : files'[f] = files[f] \/ (f = g /\ files'[f] = batch[p][g])
    BY <2>1 DEF TypeOK, StoreTypeOK
  <2>4. \A q \in Proc, f \in File : batch'[q][f] \in {batch[q][f], NoRow}
    BY <2>1 DEF TypeOK
  <2>5. UNCHANGED <<disk, edits, src>>
    BY <1>7 DEF WriteMetadata, world
  <2> QED BY <2>2, <2>3, <2>4, <2>5, RecordsKept
<1>8. CASE Flush(p)
  <2> DEFINE D == {g \in File : batch[p][g] # NoRow}
             row == [f \in D |-> batch[p][f]]
             S == {f \in DOMAIN row : ~Skips(f, row[f])}
  <2>1. Rewrite(S, row)
    BY <1>8 DEF Flush, StoreBulk
  <2>2. S \in SUBSET File /\ \A f \in S : row[f] = batch[p][f] /\ batch[p][f] # NoRow
    OBVIOUS
  <2> HIDE DEF S, row
  <2>3. ASSUME NEW f \in File
        PROVE  files'[f] = files[f] \/ RecordOf(f, files'[f])
    <3>1. files'[f] = IF f \in S THEN row[f] ELSE files[f]
      BY <2>1, <2>2, RewriteFiles
    <3> QED BY <2>2, <3>1 DEF RecordsInv
  <2>4. /\ batch' = [batch EXCEPT ![p] = [f \in File |-> NoRow]]
        /\ UNCHANGED <<disk, edits, src>>
    BY <1>8 DEF Flush, world
  <2>5. \A q \in Proc, f \in File : batch'[q][f] \in {batch[q][f], NoRow}
    BY <2>4 DEF TypeOK
  <2> QED BY <2>3, <2>4, <2>5, RecordsKept
<1> QED BY <1>1, <1>2, <1>3, <1>4, <1>5, <1>6, <1>7, <1>8 DEF Work

LEMMA RecordsOther ==
  ASSUME TypeOK, RecordsInv, Environment \/ (\E p \in Proc : Start(p)) \/ UNCHANGED vars
  PROVE  RecordsInv'
<1>1. UNCHANGED files
  BY EnvironmentKeepsStore DEF store
<1>2. CASE UNCHANGED <<disk, edits, src, batch>>
  BY <1>1, <1>2, RecordsKept
<1>3. ASSUME NEW p \in Proc, Crash(p)
      PROVE  RecordsInv'
  BY <1>1, <1>3, RecordsForgot DEF Crash, world
<1>4. ASSUME NEW g \in File, edits' = edits + 1, UNCHANGED <<src, batch>>,
             \A f \in File \ {g} : disk'[f] = disk[f],
             disk'[g] # NoFile => disk'[g].text \in Texts[g] /\ disk'[g].mtime <= edits + 2
      PROVE  RecordsInv'
  <2>0. edits \in Nat
    BY DEF TypeOK
  <2>1. ASSUME NEW f \in File, disk'[f] # NoFile
        PROVE  disk'[f].text \in Texts[f] /\ disk'[f].mtime <= edits' + 1
    <3>1. CASE f = g
      BY <1>4, <2>0, <2>1, <3>1
    <3>2. CASE f # g
      BY <1>4, <2>0, <2>1, <3>2 DEF RecordsInv, DiskOf, TypeOK, Stamp
    <3> QED BY <3>1, <3>2
  <2>2. ASSUME NEW f \in File, NEW row \in Row, RecordOf(f, row)
        PROVE  row.hash \in Texts[f] /\ row.size = SizeOf[row.hash] /\ row.mtime <= edits' + 1
    BY <1>4, <2>0, <2>2 DEF RecordOf, Row
  <2>3. ASSUME NEW f \in File, files[f] # NoRow
        PROVE  /\ files[f].hash \in Texts[f] /\ files[f].size = SizeOf[files[f].hash]
               /\ files[f].mtime <= edits' + 1
    BY <2>2, <2>3 DEF RecordsInv, TypeOK, StoreTypeOK
  <2>4. ASSUME NEW p \in Proc, NEW f \in File, batch[p][f] # NoRow
        PROVE  /\ batch[p][f].hash \in Texts[f] /\ batch[p][f].size = SizeOf[batch[p][f].hash]
               /\ batch[p][f].mtime <= edits' + 1
    BY <2>2, <2>4 DEF RecordsInv, TypeOK
  <2>5. \A p \in Proc, f \in File : src'[p][f] # NoText => src'[p][f] \in Texts[f]
    BY <1>4 DEF RecordsInv
  <2> QED BY <1>1, <1>4, <2>1, <2>3, <2>4, <2>5 DEF RecordsInv, RecordOf, DiskOf
<1>5. ASSUME NEW g \in File, NEW c \in Content, NEW t \in 1 .. MaxEdits + 1, Edit(g, c, t)
      PROVE  RecordsInv'
  <2>1. /\ disk' = [disk EXCEPT ![g] = [text |-> c, mtime |-> t]] /\ c \in Texts[g]
        /\ edits' = edits + 1 /\ UNCHANGED <<src, batch>>
        /\ t = edits + 2 \/ (disk[g] # NoFile /\ t = disk[g].mtime)
    BY <1>5 DEF Edit, cycle
  <2>2. t <= edits + 2
    BY <2>1 DEF RecordsInv, DiskOf, TypeOK, Stamp
  <2>3. disk'[g] = [text |-> c, mtime |-> t] /\ \A f \in File \ {g} : disk'[f] = disk[f]
    BY <2>1 DEF TypeOK
  <2> QED BY <1>4, <2>1, <2>2, <2>3
<1>6. ASSUME NEW g \in File, Erase(g)
      PROVE  RecordsInv'
  <2>1. disk'[g] = NoFile /\ \A f \in File \ {g} : disk'[f] = disk[f]
    BY <1>6 DEF Erase, TypeOK
  <2> QED BY <1>4, <1>6, <2>1 DEF Erase, cycle
<1> QED
  BY <1>2, <1>3, <1>5, <1>6 DEF Environment, Restart, BeginIndex, Start, BeginCycle, LockBusy,
     vars, world, cycle

LEMMA RecordsNext == TypeOK /\ RecordsInv /\ [Next]_vars => RecordsInv'
  BY RecordsWork, RecordsOther DEF Next

(* A length with its byte-order mark, as stat reads it, tells two texts of   *)
(* one file apart from a length without, as a record has it.                 *)
LengthsDiffer ==
  \A f \in File : \A c, d \in Texts[f] : c # d => RawSize[c] # SizeOf[d]

(* A text the index does not show differs in length, so that the size tier   *)
(* finds it where the mtime does not: the record is stamped with the mtime   *)
(* of its storing, not of its reading, and an edit in between is not seen by *)
(* the mtime.  With any number of syncs, `index` runs, faults and crashes.   *)
THEOREM StaleIsFound ==
  ASSUME LengthsDiffer
  PROVE  Spec => []StaleIsDetectable
<1>1. TypeOK /\ RecordsInv => StaleIsDetectable
  <2> SUFFICES ASSUME RecordsInv, TypeOK, NEW f \in File, files[f] # NoRow, disk[f] # NoFile,
                      files[f].hash # disk[f].text
               PROVE  Modified(f)
    BY DEF StaleIsDetectable
  <2>1. files[f].hash \in Texts[f] /\ disk[f].text \in Texts[f] /\ files[f].size = SizeOf[files[f].hash]
    BY DEF RecordsInv, RecordOf, DiskOf
  <2>2. RawSize[disk[f].text] # SizeOf[files[f].hash]
    BY <2>1 DEF LengthsDiffer
  <2> QED BY <2>1, <2>2 DEF Modified, StatSize
<1> QED BY <1>1, TypeCorrect, RecordsInit, RecordsNext, PTL DEF Spec

-----------------------------------------------------------------------------
(* A cycle finds work only where there is some. *)

(* A row of a file the walk did not meet is older than the file: it came or  *)
(* came back after the walk, and while the cycle holds the lock nobody else  *)
(* writes rows.                                                             *)
NewSinceWalk ==
  \A p \in Proc, f \in File :
    pc[p] = "classify" /\ f \notin left[p] /\ disk[f] # NoFile /\ files[f] # NoRow
      => files[f].mtime < disk[f].mtime

WalkInv == NoIndex /\ NewSinceWalk

LEMMA WalkInit == Init => WalkInv
  BY DEF Init, WalkInv, NoIndex, InIndex, NewSinceWalk

LEMMA WalkKept ==
  ASSUME NewSinceWalk, UNCHANGED <<disk, files>>,
         \A q \in Proc : pc'[q] = "classify" => pc[q] = "classify" /\ left'[q] = left[q]
  PROVE  NewSinceWalk'
  BY DEF NewSinceWalk

(* Only BeginCycle goes to the classification of the files. *)
LEMMA WorkLeavesWalk ==
  ASSUME TypeOK, NoIndex, NEW p \in Proc, Work(p)
  PROVE  pc'[p] # "classify" /\ \A q \in Proc \ {p} : pc'[q] = pc[q] /\ left'[q] = left[q]
<1>1. CASE Noop(p) \/ CycleFails(p) \/ GiveUpCommit(p) \/ ResolutionFails(p) \/ EndIndex(p)
           \/ (Commit(p) /\ joins[p] = {})
  <2>1. pc' = [pc EXCEPT ![p] = "idle"] /\ left' = [left EXCEPT ![p] = {}]
    BY <1>1 DEF Noop, CycleFails, GiveUpCommit, ResolutionFails, EndIndex, Commit, Goto, Forget
  <2> QED BY <2>1 DEF TypeOK
<1>2. CASE RemoveFile(p) \/ ReadSource(p) \/ ExtractAndStore(p) \/ WriteMetadata(p)
  <2>1. UNCHANGED pc /\ pc[p] # "classify"
    BY <1>2 DEF RemoveFile, ReadSource, ExtractAndStore, WriteMetadata
  <2>2. UNCHANGED left \/ \E f : left' = [left EXCEPT ![p] = @ \ {f}]
    BY <1>2 DEF RemoveFile, ReadSource, ExtractAndStore, WriteMetadata
  <2> QED BY <2>1, <2>2 DEF TypeOK
<1>3. CASE Classify(p) \/ BeginRead(p) \/ BeginAgain(p)
  <2>1. /\ \E to \in {"remove", "read", "again"} : pc' = [pc EXCEPT ![p] = to]
        /\ \E F : left' = [left EXCEPT ![p] = F]
    BY <1>3 DEF Classify, BeginRead, BeginAgain, Goto
  <2> QED BY <2>1 DEF TypeOK
<1>4. CASE BeginStore(p) \/ BeginMetadata(p) \/ EndCycle(p) \/ ScopeFull(p) \/ ScopeIncremental(p)
           \/ Match(p) \/ Warm(p) \/ FetchAll(p) \/ CheckEnds(p) \/ RetryCommit(p)
           \/ (Commit(p) /\ joins[p] # {})
  <2>1. /\ \E to \in {"store", "meta"} \cup InResolution : pc' = [pc EXCEPT ![p] = to]
        /\ UNCHANGED left
    BY <1>4 DEF BeginStore, BeginMetadata, EndCycle, ScopeFull, ScopeIncremental, Match, Warm,
       FetchAll, CheckEnds, RetryCommit, Commit, Goto, InResolution, cycle
  <2> QED BY <2>1 DEF TypeOK, InResolution
<1>5. CASE ExtractForIndex(p) \/ Flush(p)
  BY <1>5 DEF ExtractForIndex, Flush, Gathered, NoIndex, InIndex
<1> QED BY <1>1, <1>2, <1>3, <1>4, <1>5 DEF Work

(* Outside a cycle only `index` writes rows. *)
LEMMA OutsideKeepsRows ==
  ASSUME NoIndex, NEW p \in Proc, Work(p), pc[p] \notin InCycle
  PROVE  UNCHANGED files
<1>1. CASE Commit(p)
  BY <1>1 DEF Commit, CommitResolved
<1>2. CASE ~Commit(p)
  BY <1>2 DEF Work, Noop, Classify, RemoveFile, BeginRead, ReadSource, BeginStore,
     ExtractAndStore, BeginMetadata, WriteMetadata, CycleFails, BeginAgain, EndCycle,
     ScopeFull, ScopeIncremental, Match, Warm, FetchAll, CheckEnds, RetryCommit,
     GiveUpCommit, ResolutionFails, ExtractForIndex, Flush, EndIndex, Gathered,
     NoIndex, InIndex, InCycle, store
<1> QED BY <1>1, <1>2

LEMMA WalkWork ==
  ASSUME TypeOK, LockHeld, WalkInv, NEW p \in Proc, Work(p)
  PROVE  NewSinceWalk'
<1>0. NoIndex /\ NewSinceWalk
  BY DEF WalkInv
<1>1. \A q \in Proc : pc'[q] = "classify" => q # p /\ pc[q] = "classify" /\ left'[q] = left[q]
  BY <1>0, WorkLeavesWalk
<1>2. CASE pc[p] \in InCycle
  <2>1. \A q \in Proc : pc'[q] # "classify"
    BY <1>1, <1>2 DEF LockHeld, InCycle
  <2> QED BY <2>1 DEF NewSinceWalk
<1>3. CASE pc[p] \notin InCycle
  <2>1. UNCHANGED disk
    BY DEF Work, Noop, Classify, RemoveFile, BeginRead, ReadSource, BeginStore,
       ExtractAndStore, BeginMetadata, WriteMetadata, CycleFails, BeginAgain, EndCycle,
       ScopeFull, ScopeIncremental, Match, Warm, FetchAll, CheckEnds, Commit, RetryCommit,
       GiveUpCommit, ResolutionFails, ExtractForIndex, Flush, EndIndex, world
  <2> QED BY <1>0, <1>1, <1>3, <2>1, OutsideKeepsRows, WalkKept
<1> QED BY <1>2, <1>3

LEMMA WalkOther ==
  ASSUME Indexer = {}, TypeOK, LockHeld, RecordsInv, WalkInv,
         Environment \/ (\E p \in Proc : Start(p)) \/ UNCHANGED vars
  PROVE  NewSinceWalk'
<1>0. NewSinceWalk /\ UNCHANGED files
  BY EnvironmentKeepsStore DEF WalkInv, store
<1>1. CASE UNCHANGED <<disk, pc, left>>
  BY <1>0, <1>1, WalkKept
<1>2. ASSUME NEW p \in Proc, Crash(p) \/ Restart(p)
      PROVE  NewSinceWalk'
  <2>1. \E to \in {"idle", "down"} : pc' = [pc EXCEPT ![p] = to]
    BY <1>2 DEF Crash, Restart, Goto
  <2>2. UNCHANGED left \/ left' = [left EXCEPT ![p] = {}]
    BY <1>2 DEF Crash, Restart, Forget, cycle
  <2>3. \A q \in Proc : pc'[q] = "classify" => pc[q] = "classify" /\ left'[q] = left[q]
    BY <2>1, <2>2 DEF TypeOK
  <2> QED BY <1>0, <1>2, <2>3, WalkKept DEF Crash, Restart, world
<1>3. ASSUME NEW p \in Proc, BeginCycle(p)
      PROVE  NewSinceWalk'
  <2>1. lock = NoProc /\ left' = [left EXCEPT ![p] = OnDisk] /\ UNCHANGED disk
        /\ pc' = [pc EXCEPT ![p] = "classify"]
    BY <1>3 DEF BeginCycle, LockFree, Goto, world
  <2>2. \A q \in Proc : pc[q] # "classify"
    BY <2>1, BoundsType DEF LockHeld, InCycle
  <2>3. \A q \in Proc : pc'[q] = "classify" => q = p /\ left'[q] = OnDisk
    BY <2>1, <2>2 DEF TypeOK
  <2> QED BY <2>1, <2>3 DEF NewSinceWalk, OnDisk
<1>4. ASSUME NEW p \in Proc, BeginIndex(p)
      PROVE  FALSE
  BY <1>4 DEF BeginIndex
<1>5. ASSUME NEW g \in File, NEW c \in Content, NEW t \in 1 .. MaxEdits + 1, Edit(g, c, t)
      PROVE  NewSinceWalk'
  <2>1. /\ disk' = [disk EXCEPT ![g] = [text |-> c, mtime |-> t]] /\ UNCHANGED <<pc, left>>
        /\ t = edits + 2 \/ (disk[g] # NoFile /\ t = disk[g].mtime)
    BY <1>5 DEF Edit, cycle
  <2>2. disk'[g] = [text |-> c, mtime |-> t] /\ \A f \in File \ {g} : disk'[f] = disk[f]
    BY <2>1 DEF TypeOK
  <2>3. disk'[g].mtime = t
    BY <2>2
  <2>4. files[g] # NoRow => files[g].mtime <= edits + 1 /\ files[g].mtime \in Nat /\ edits \in Nat
    BY DEF RecordsInv, RecordOf, TypeOK, StoreTypeOK, Row
  <2>5. ASSUME NEW q \in Proc, pc[q] = "classify", g \notin left[q], files[g] # NoRow
        PROVE  files[g].mtime < t
    BY <1>0, <2>1, <2>4, <2>5 DEF NewSinceWalk
  <2> SUFFICES ASSUME NEW q \in Proc, NEW f \in File,
                      pc'[q] = "classify", f \notin left'[q], disk'[f] # NoFile, files'[f] # NoRow
               PROVE  files'[f].mtime < disk'[f].mtime
    BY DEF NewSinceWalk
  <2>6. CASE f = g
    BY <1>0, <2>1, <2>3, <2>5, <2>6
  <2>7. CASE f # g
    BY <1>0, <2>1, <2>2, <2>7 DEF NewSinceWalk
  <2> QED BY <2>6, <2>7
<1>6. ASSUME NEW g \in File, Erase(g)
      PROVE  NewSinceWalk'
  <2>1. /\ disk'[g] = NoFile /\ \A f \in File \ {g} : disk'[f] = disk[f]
        /\ UNCHANGED <<pc, left>>
    BY <1>6 DEF Erase, TypeOK, cycle
  <2> QED BY <1>0, <2>1 DEF NewSinceWalk
<1> QED
  BY <1>1, <1>2, <1>3, <1>4, <1>5, <1>6 DEF Environment, Start, LockBusy, vars, world, cycle

LEMMA WalkNext ==
  ASSUME Indexer = {}
  PROVE  TypeOK /\ LockHeld /\ RecordsInv /\ WalkInv /\ [Next]_vars => WalkInv'
<1> SUFFICES ASSUME TypeOK, LockHeld, RecordsInv, WalkInv, [Next]_vars PROVE WalkInv'
  OBVIOUS
<1>1. NoIndex'
  BY NoIndexNext DEF WalkInv
<1>2. NewSinceWalk'
  BY WalkWork, WalkOther DEF Next
<1> QED BY <1>1, <1>2 DEF WalkInv

(* Only a file that is not as the index shows it, or that vanished under the *)
(* walk, makes a cycle of it.                                               *)
WorkHasCause ==
  \A p \in Proc : Classify(p) =>
    \E f \in File : ~Settled(f) \/ (f \in left[p] /\ disk[f] = NoFile)

LEMMA ClassifyHasCause == TypeOK /\ NewSinceWalk => WorkHasCause
<1> SUFFICES ASSUME TypeOK, NewSinceWalk, NEW p \in Proc, Classify(p)
             PROVE  \E f \in File : ~Settled(f) \/ (f \in left[p] /\ disk[f] = NoFile)
  BY DEF WorkHasCause
<1>0. pc[p] = "classify" /\ left[p] \subseteq File
  BY DEF Classify, TypeOK
<1>1. CASE \E f \in Rows : f \notin left[p]
  <2>1. PICK f \in File : files[f] # NoRow /\ f \notin left[p]
    BY <1>1 DEF Rows
  <2>2. CASE disk[f] = NoFile
    BY <2>1, <2>2 DEF Settled, Current
  <2>3. CASE disk[f] # NoFile
    <3>1. files[f].mtime < disk[f].mtime /\ files[f].mtime \in Nat /\ disk[f].mtime \in Nat
      BY <1>0, <2>1, <2>3 DEF NewSinceWalk, TypeOK, StoreTypeOK, Row, Stamp
    <3> QED BY <2>3, <3>1 DEF Settled
  <2> QED BY <2>2, <2>3
<1>2. CASE \E f \in left[p] : f \notin Rows
  BY <1>0, <1>2 DEF Rows, Settled, Current
<1>3. CASE \E f \in left[p] : f \in Rows /\ Modified(f)
  BY <1>0, <1>3 DEF Rows, Modified, StatTime, StatSize, Settled, Current
<1> QED BY <1>1, <1>2, <1>3 DEF Classify, Changed

(* While no `index` runs beside it, a sync has work only where the index is  *)
(* not as the disk is: neither a byte-order mark nor a file created between  *)
(* the walk and the comparison is taken for a change of what it shows.  An   *)
(* `index` beside it can add the file in between, which then counts as gone. *)
THEOREM WorkIsNeeded ==
  ASSUME Indexer = {}
  PROVE  Spec => CurrentMeansNoop
<1>1. TypeOK /\ LockHeld /\ RecordsInv /\ WalkInv /\ [Next]_vars => WalkInv'
  BY WalkNext
<1>2. TypeOK /\ WalkInv => WorkHasCause
  BY ClassifyHasCause DEF WalkInv
<1>3. Spec => [][WorkHasCause]_vars
  BY <1>1, <1>2, TypeCorrect, LockExcludes, RecordsInit, RecordsNext, WalkInit, PTL DEF Spec
<1> QED BY <1>3 DEF CurrentMeansNoop, WorkHasCause

-----------------------------------------------------------------------------
(* What a file says of itself is kept. *)

(* An edge to commit joins nodes of the index and answers the references     *)
(* that go with it.                                                         *)
Sound(x) ==
  /\ x.edge[1] \in nodes /\ x.edge[2] \in nodes
  /\ \A r \in x.from : AnswersRef(x.edge, r)

PendingSound ==
  \A p \in Proc :
    /\ IF pc[p] = "fetch" THEN cache[p] = nodes ELSE cache[p] = {}
    /\ IF pc[p] = "match" THEN todo[p] \subseteq refs ELSE todo[p] = {}
    /\ \A e \in joins[p] : e[1] \in nodes /\ e[2] \in nodes
    /\ \A x \in chosen[p] : Sound(x)
    /\ pc[p] = "commit" => ok[p] = chosen[p]

LEMMA MatchesSound ==
  ASSUME ForeignKeys, NEW rs \in SUBSET refs, NEW m \in Matches(rs, nodes), NEW x \in m
  PROVE  Sound(x)
<1> DEFINE R == {r \in rs : \E n \in nodes : n[2] \in Answers[r.name]}
           pick == {h \in [R -> nodes] : \A r \in R : h[r][2] \in Answers[r.name]}
<1>1. PICK h \in pick : m = {[edge |-> <<r.src, h[r]>>, from |-> {r}] : r \in R}
  BY DEF Matches
<1>2. PICK r \in R : x = [edge |-> <<r.src, h[r]>>, from |-> {r}]
  BY <1>1
<1>3. h[r] \in nodes /\ h[r][2] \in Answers[r.name] /\ r.src \in nodes
  BY <1>1 DEF ForeignKeys
<1> QED BY <1>2, <1>3 DEF Sound, AnswersRef

LEMMA SoundInit == Init => PendingSound
  BY DEF Init, PendingSound

(* The processes keep what they have in mind, or forget it. *)
LEMMA SoundKept ==
  ASSUME PendingSound, UNCHANGED <<nodes, refs>>,
         \A q \in Proc :
           \/ /\ cache'[q] = cache[q] /\ todo'[q] = todo[q] /\ joins'[q] = joins[q]
              /\ chosen'[q] = chosen[q] /\ ok'[q] = ok[q]
              /\ pc'[q] = pc[q] \/ (pc[q] \notin {"match", "fetch"} /\ pc'[q] \notin {"match", "fetch", "commit"})
           \/ Resting(q)' /\ cache'[q] = {} /\ pc'[q] \notin {"match", "fetch"}
  PROVE  PendingSound'
<1>1. \A x : Sound(x) => Sound(x)'
  BY DEF Sound, AnswersRef
<1> SUFFICES ASSUME NEW q \in Proc
             PROVE  /\ IF pc'[q] = "fetch" THEN cache'[q] = nodes' ELSE cache'[q] = {}
                    /\ IF pc'[q] = "match" THEN todo'[q] \subseteq refs' ELSE todo'[q] = {}
                    /\ \A e \in joins'[q] : e[1] \in nodes' /\ e[2] \in nodes'
                    /\ \A x \in chosen'[q] : Sound(x)'
                    /\ pc'[q] = "commit" => ok'[q] = chosen'[q]
  BY DEF PendingSound
<1>2. CASE Resting(q)' /\ cache'[q] = {} /\ pc'[q] \notin {"match", "fetch"}
  BY <1>2 DEF Resting
<1>3. CASE ~(Resting(q)' /\ cache'[q] = {} /\ pc'[q] \notin {"match", "fetch"})
  BY <1>1, <1>3 DEF PendingSound
<1> QED BY <1>2, <1>3

(* The run of process p ends. *)
LEMMA SoundForgot ==
  ASSUME TypeOK, PendingSound, UNCHANGED <<nodes, refs>>,
         NEW p \in Proc, NEW to, to \notin {"match", "fetch"}, pc' = [pc EXCEPT ![p] = to], Forget(p)
  PROVE  PendingSound'
<1>1. Resting(p)' /\ cache'[p] = {} /\ pc'[p] \notin {"match", "fetch"}
  BY DEF Forget, TypeOK, Resting
<1>2. \A q \in Proc \ {p} : /\ cache'[q] = cache[q] /\ todo'[q] = todo[q] /\ joins'[q] = joins[q]
                            /\ chosen'[q] = chosen[q] /\ ok'[q] = ok[q] /\ pc'[q] = pc[q]
  BY DEF Forget, TypeOK
<1> QED BY <1>1, <1>2, SoundKept

(* Process p moves and keeps what it has in mind. *)
LEMMA SoundMoved ==
  ASSUME TypeOK, PendingSound, UNCHANGED <<nodes, refs, cache, todo, joins, chosen, ok>>,
         NEW p \in Proc, NEW to, pc' = [pc EXCEPT ![p] = to],
         pc[p] \notin {"match", "fetch"}, to \notin {"match", "fetch", "commit"}
  PROVE  PendingSound'
<1>1. \A q \in Proc : pc'[q] = IF q = p THEN to ELSE pc[q]
  BY DEF TypeOK
<1> QED BY <1>1, SoundKept

(* The one process has nothing in mind while it changes the store. *)
LEMMA SoundCycle ==
  ASSUME Alone, TypeOK, EdgesInv, PendingSound, NEW p \in Proc,
         RemoveFile(p) \/ ExtractAndStore(p) \/ WriteMetadata(p)
  PROVE  PendingSound'
<1>1. UNCHANGED <<pc, resolution>> /\ pc[p] \in InCycle
  BY DEF RemoveFile, ExtractAndStore, WriteMetadata, InCycle
<1>2. \A q \in Proc : Resting(q) /\ pc[q] \in InCycle
  BY <1>1 DEF Alone, EdgesInv, PendingJustified, InCycle, InResolution
<1>3. \A q \in Proc : cache[q] = {}
  BY <1>2 DEF PendingSound, InCycle
<1> QED BY <1>1, <1>2, <1>3 DEF PendingSound, Resting, resolution, InCycle

LEMMA SoundResolution ==
  ASSUME Alone, TypeOK, ForeignKeys, PendingSound, NEW p \in Proc,
         ScopeIncremental(p) \/ Match(p) \/ Warm(p) \/ FetchAll(p) \/ CheckEnds(p) \/ Commit(p)
  PROVE  PendingSound'
<1>0. /\ IF pc[p] = "fetch" THEN cache[p] = nodes ELSE cache[p] = {}
      /\ IF pc[p] = "match" THEN todo[p] \subseteq refs ELSE todo[p] = {}
      /\ \A e \in joins[p] : e[1] \in nodes /\ e[2] \in nodes
      /\ \A x \in chosen[p] : Sound(x)
      /\ pc[p] = "commit" => ok[p] = chosen[p]
      /\ \A q \in Proc : q = p
  BY DEF PendingSound, Alone
<1>1. ASSUME UNCHANGED nodes,
             IF pc'[p] = "fetch" THEN cache'[p] = nodes ELSE cache'[p] = {},
             IF pc'[p] = "match" THEN todo'[p] \subseteq refs' ELSE todo'[p] = {},
             \A e \in joins'[p] : e[1] \in nodes /\ e[2] \in nodes,
             \A x \in chosen'[p] : Sound(x),
             pc'[p] = "commit" => ok'[p] = chosen'[p]
      PROVE  PendingSound'
  <2>1. \A x : Sound(x) => Sound(x)'
    BY <1>1 DEF Sound, AnswersRef
  <2> QED BY <1>0, <1>1, <2>1 DEF PendingSound
<1>2. ASSUME NEW to, Goto(p, to) PROVE pc'[p] = to
  BY <1>2 DEF Goto, TypeOK
<1>3. CASE ScopeIncremental(p)
  <2>1. /\ UNCHANGED <<nodes, refs, cache, joins, chosen, ok>>
        /\ \E S \in SUBSET ScopedRefs(ChangedPaths(p)) : todo'[p] = UNION S
    BY <1>3 DEF ScopeIncremental, TypeOK, store
  <2>2. UNION ScopedRefs(ChangedPaths(p)) \subseteq refs
    BY DEF ScopedRefs, RefsOfFiles, RefsByNames
  <2>3. todo'[p] \subseteq refs'
    BY <2>1, <2>2
  <2>4. pc[p] = "scope" /\ pc'[p] = "match"
    BY <1>2, <1>3 DEF ScopeIncremental
  <2> QED BY <1>0, <1>1, <2>1, <2>3, <2>4
<1>4. CASE Match(p)
  <2>1. PICK m \in Matches(todo[p], nodes) : chosen' = [chosen EXCEPT ![p] = m]
    BY <1>4 DEF Match
  <2>2. chosen'[p] = m /\ todo'[p] = {} /\ UNCHANGED <<nodes, refs, cache, joins, ok>>
    BY <1>4, <2>1 DEF Match, TypeOK, store
  <2>3. \A x \in m : Sound(x)
    BY <1>0, MatchesSound
  <2>4. pc[p] = "match" /\ pc'[p] = "check"
    BY <1>2, <1>4 DEF Match
  <2> QED BY <1>0, <1>1, <2>2, <2>3, <2>4
<1>5. CASE Warm(p)
  <2>1. /\ joins'[p] = Implements(nodes) /\ cache'[p] = nodes
        /\ UNCHANGED <<nodes, refs, todo, chosen, ok>>
    BY <1>5 DEF Warm, TypeOK, store
  <2>2. \A e \in Implements(nodes) : e[1] \in nodes /\ e[2] \in nodes
    BY DEF Implements
  <2>3. pc[p] = "warm" /\ pc'[p] = "fetch"
    BY <1>2, <1>5 DEF Warm
  <2> QED BY <1>0, <1>1, <2>1, <2>2, <2>3
<1>6. CASE FetchAll(p)
  <2>1. PICK m \in Matches(refs, cache[p]) : chosen' = [chosen EXCEPT ![p] = m]
    BY <1>6 DEF FetchAll
  <2>2. chosen'[p] = m /\ cache'[p] = {} /\ UNCHANGED <<nodes, refs, todo, joins, ok>>
    BY <1>6, <2>1 DEF FetchAll, TypeOK, store
  <2>3. pc[p] = "fetch" /\ pc'[p] = "check"
    BY <1>2, <1>6 DEF FetchAll
  <2>4. \A x \in m : Sound(x)
    BY <1>0, <2>1, <2>3, MatchesSound
  <2> QED BY <1>0, <1>1, <2>2, <2>3, <2>4
<1>7. CASE CheckEnds(p)
  <2>1. ok'[p] = Existing(chosen[p]) /\ UNCHANGED <<nodes, refs, cache, todo, joins, chosen>>
    BY <1>7 DEF CheckEnds, TypeOK, store
  <2>2. Existing(chosen[p]) = chosen[p]
    BY <1>0 DEF Existing, Sound
  <2>3. pc[p] = "check" /\ pc'[p] = "commit"
    BY <1>2, <1>7 DEF CheckEnds
  <2> QED BY <1>0, <1>1, <2>1, <2>2, <2>3
<1>8. CASE Commit(p) /\ joins[p] = {}
  <2>1. /\ pc'[p] = "idle" /\ cache'[p] = {} /\ todo'[p] = {} /\ joins'[p] = {}
        /\ chosen'[p] = {} /\ UNCHANGED nodes
    BY <1>2, <1>8 DEF Commit, CommitResolved, Forget, TypeOK
  <2> QED BY <1>1, <2>1
<1>9. CASE Commit(p) /\ joins[p] # {}
  <2>1. chosen'[p] = [edge : joins[p], from : {{}}] /\ joins'[p] = {} /\ UNCHANGED todo
    BY <1>9, JoinsHandedOver
  <2>2. pc[p] = "commit" /\ pc'[p] = "check" /\ UNCHANGED <<nodes, cache>>
    BY <1>2, <1>9 DEF Commit, CommitResolved
  <2>3. ASSUME NEW x \in chosen'[p]
        PROVE  Sound(x)
    <3>1. x.edge \in joins[p] /\ x.from = {}
      BY <2>1, <2>3
    <3> QED BY <1>0, <3>1 DEF Sound
  <2> QED BY <1>0, <1>1, <2>1, <2>2, <2>3
<1> QED BY <1>3, <1>4, <1>5, <1>6, <1>7, <1>8, <1>9

LEMMA SoundWork ==
  ASSUME Alone, TypeOK, IndexInv, EdgesInv, ForeignKeys, PendingSound, NEW p \in Proc, Work(p)
  PROVE  PendingSound'
<1>1. CASE RemoveFile(p) \/ ExtractAndStore(p) \/ WriteMetadata(p)
  BY <1>1, SoundCycle
<1>2. CASE Noop(p) \/ CycleFails(p) \/ GiveUpCommit(p) \/ ResolutionFails(p)
  <2>1. UNCHANGED <<nodes, refs>> /\ pc' = [pc EXCEPT ![p] = "idle"] /\ Forget(p)
    BY <1>2 DEF Noop, CycleFails, GiveUpCommit, ResolutionFails, Goto, store
  <2> QED BY <2>1, SoundForgot
<1>3. CASE ReadSource(p)
  BY <1>3, SoundKept DEF ReadSource, store, resolution
<1>4. CASE \/ Classify(p) \/ BeginRead(p) \/ BeginStore(p) \/ BeginMetadata(p) \/ BeginAgain(p)
           \/ EndCycle(p) \/ ScopeFull(p) \/ RetryCommit(p)
  <2>1. /\ UNCHANGED <<nodes, refs, cache, todo, joins, chosen, ok>>
        /\ pc[p] \notin {"match", "fetch"}
        /\ \E to \in {"remove", "read", "store", "meta", "again", "scope", "warm", "check"} :
             pc' = [pc EXCEPT ![p] = to]
    BY <1>4 DEF Classify, BeginRead, BeginStore, BeginMetadata, BeginAgain, EndCycle, ScopeFull,
                RetryCommit, Goto, store, resolution
  <2> QED BY <2>1, SoundMoved
<1>5. CASE \/ ScopeIncremental(p) \/ Match(p) \/ Warm(p) \/ FetchAll(p) \/ CheckEnds(p)
           \/ Commit(p)
  BY <1>5, SoundResolution
<1>6. CASE ExtractForIndex(p) \/ Flush(p) \/ EndIndex(p)
  BY <1>6 DEF ExtractForIndex, Flush, EndIndex, Gathered, IndexInv, NoIndex, InIndex
<1> QED BY <1>1, <1>2, <1>3, <1>4, <1>5, <1>6 DEF Work

LEMMA SoundOther ==
  ASSUME Alone, TypeOK, PendingSound,
         Environment \/ (\E p \in Proc : Start(p)) \/ UNCHANGED vars
  PROVE  PendingSound'
<1>1. UNCHANGED <<nodes, refs>>
  BY EnvironmentKeepsStore DEF store
<1>2. CASE UNCHANGED <<pc, resolution>>
  BY <1>1, <1>2, SoundKept DEF resolution
<1>3. ASSUME NEW p \in Proc, Crash(p)
      PROVE  PendingSound'
  <2>1. Forget(p) /\ \E to \in {"idle", "down"} : pc' = [pc EXCEPT ![p] = to]
    BY <1>3 DEF Crash, Goto
  <2> QED BY <1>1, <2>1, SoundForgot
<1>4. ASSUME NEW p \in Proc, Restart(p) \/ BeginCycle(p)
      PROVE  PendingSound'
  <2>1. /\ UNCHANGED <<cache, todo, joins, chosen, ok>> /\ pc[p] \notin {"match", "fetch"}
        /\ \E to \in {"idle", "classify"} : pc' = [pc EXCEPT ![p] = to]
    BY <1>4 DEF Restart, BeginCycle, Wake, Goto, resolution
  <2> QED BY <1>1, <2>1, SoundMoved
<1>5. ASSUME NEW p \in Proc, BeginIndex(p)
      PROVE  FALSE
  BY <1>5 DEF BeginIndex, Alone, SoundStorage
<1> QED
  BY <1>2, <1>3, <1>4, <1>5 DEF Environment, Edit, Erase, Start, LockBusy, vars

LEMMA SoundNext ==
  ASSUME Alone
  PROVE  TypeOK /\ IndexInv /\ EdgesInv /\ ForeignKeys /\ PendingSound /\ [Next]_vars
           => PendingSound'
  BY SoundWork, SoundOther DEF Next

(* No text of another file answers u, a reference of file f. *)
OnlyOwn(f, u) == \A g \in File \ {f} : \A c \in Texts[g] : Answers[u[2]] \cap Defs[c] = {}

(* What answers such a reference is a node of its file. *)
LEMMA OwnAnswer ==
  ASSUME TypeOK, RowMatchesNodes, RecordsInv, NEW f \in File, NEW u, OnlyOwn(f, u),
         NEW n \in nodes, n[2] \in Answers[u[2]]
  PROVE  n[1] = f
<1>1. n[1] \in File
  BY DEF TypeOK, StoreTypeOK, Node
<1>2. files[n[1]] # NoRow /\ n \in NodesOf(n[1], files[n[1]].hash)
  BY <1>1 DEF RowMatchesNodes, RowMatches
<1>3. n[2] \in Defs[files[n[1]].hash] /\ files[n[1]].hash \in Texts[n[1]]
  BY <1>1, <1>2 DEF NodesOf, RecordsInv, RecordOf
<1> QED BY <1>1, <1>3 DEF OnlyOwn

(* An edge that such a reference became stays in its file. *)
LEMMA OwnEdgeStays ==
  ASSUME TypeOK, ForeignKeys, RowMatchesNodes, RecordsInv,
         NEW f \in File, NEW u \in Symbol \X Name, OnlyOwn(f, u),
         NEW n \in Node, n[2] \in Answers[u[2]], edges[<< <<f, u[1]>>, n>>] > 0
  PROVE  n[1] = f
<1> DEFINE e == << <<f, u[1]>>, n>>
<1>1. e \in Edge /\ e[2] = n
  BY DEF Edge, Node
<1> HIDE DEF e
<1>2. n \in nodes
  BY <1>1 DEF ForeignKeys, e
<1> QED BY <1>2, OwnAnswer

(* Reference u of file f waits, or has become an edge within the file. *)
KeptInside(f, u) ==
  \/ \E r \in refs : r.src = <<f, u[1]>> /\ r.name = u[2]
  \/ \E n \in Node : n[1] = f /\ n[2] \in Answers[u[2]] /\ edges[<< <<f, u[1]>>, n>>] > 0

OwnKeptInside ==
  \A f \in File : files[f] # NoRow =>
    \A u \in Uses[files[f].hash] : OnlyOwn(f, u) => KeptInside(f, u)

LEMMA UsesType ==
  ASSUME StoreTypeOK, NEW f \in File, files[f] # NoRow, NEW u \in Uses[files[f].hash]
  PROVE  u \in Symbol \X Name
  BY TextAssumption DEF StoreTypeOK, Row

(* Inside and anywhere is the same, given where edges can lead. *)
LEMMA InsideIsKept ==
  ASSUME TypeOK, ForeignKeys, RowMatchesNodes, RecordsInv
  PROVE  OwnReferencesKept <=> OwnKeptInside
<1>1. ASSUME NEW f \in File, files[f] # NoRow, NEW u \in Uses[files[f].hash], OnlyOwn(f, u)
      PROVE  Kept(f, u) <=> KeptInside(f, u)
  <2>1. u \in Symbol \X Name
    BY <1>1, UsesType DEF TypeOK
  <2>2. \A n \in Node : n[2] \in Answers[u[2]] /\ edges[<< <<f, u[1]>>, n>>] > 0 => n[1] = f
    BY <1>1, <2>1, OwnEdgeStays
  <2> QED BY <2>2 DEF Kept, KeptInside
<1> QED BY <1>1 DEF OwnReferencesKept, OwnKeptInside, OnlyOwn

LEMMA RewriteKeepsOwn ==
  ASSUME StoreTypeOK, OwnKeptInside, NEW g \in File, NEW row \in Row,
         Rewrite({g}, [h \in {g} |-> row])
  PROVE  OwnKeptInside'
<1> SUFFICES ASSUME NEW f \in File, files'[f] # NoRow, NEW u \in Uses[files'[f].hash], OnlyOwn(f, u)
             PROVE  KeptInside(f, u)'
  BY DEF OwnKeptInside, OnlyOwn
<1>1. files'[f] = IF f = g THEN row ELSE files[f]
  BY DEF Rewrite
<1>2. CASE f = g
  <2> DEFINE r == [gen |-> gen, src |-> <<f, u[1]>>, name |-> u[2]]
  <2>1. u \in Symbol \X Name /\ u \in Uses[row.hash]
    BY <1>1, <1>2, TextAssumption DEF Row
  <2>2. r \in [gen : {gen}, src : Node, name : Name] /\ r.src[1] = g
    BY <1>2, <2>1 DEF Node
  <2>3. <<r.src[2], r.name>> \in Uses[row.hash]
    BY <2>1
  <2>4. r \in refs'
    BY <2>2, <2>3 DEF Rewrite
  <2> QED BY <2>4 DEF KeptInside
<1>3. CASE f # g
  <2>1. u \in Uses[files[f].hash] /\ u \in Symbol \X Name /\ KeptInside(f, u)
    BY <1>1, <1>3, UsesType DEF OwnKeptInside
  <2>2. ASSUME NEW r \in refs, r.src = <<f, u[1]>>, r.name = u[2]
        PROVE  r \in refs'
    BY <1>3, <2>2 DEF Rewrite
  <2>3. ASSUME NEW n \in Node, n[1] = f
        PROVE  edges'[<< <<f, u[1]>>, n>>] = edges[<< <<f, u[1]>>, n>>]
    <3>1. << <<f, u[1]>>, n>> \in Edge
      BY <2>1 DEF Edge, Node
    <3>2. ~Touches(<< <<f, u[1]>>, n>>, {g})
      BY <1>3, <2>3 DEF Touches
    <3> QED BY <3>1, <3>2 DEF Rewrite
  <2> QED BY <2>1, <2>2, <2>3 DEF KeptInside
<1> QED BY <1>2, <1>3

LEMMA DeleteKeepsOwn ==
  ASSUME StoreTypeOK, OwnKeptInside, NEW g \in File, DeleteFile(g)
  PROVE  OwnKeptInside'
<1> SUFFICES ASSUME NEW f \in File, files'[f] # NoRow, NEW u \in Uses[files'[f].hash], OnlyOwn(f, u)
             PROVE  KeptInside(f, u)'
  BY DEF OwnKeptInside, OnlyOwn
<1>1. f # g /\ files'[f] = files[f]
  BY DEF DeleteFile, StoreTypeOK
<1>2. u \in Symbol \X Name /\ KeptInside(f, u)
  BY <1>1, UsesType DEF OwnKeptInside
<1>3. ASSUME NEW r \in refs, r.src = <<f, u[1]>>
      PROVE  r \in refs'
  BY <1>1, <1>3 DEF DeleteFile
<1>4. ASSUME NEW n \in Node, n[1] = f
      PROVE  edges'[<< <<f, u[1]>>, n>>] = edges[<< <<f, u[1]>>, n>>]
  <2>1. << <<f, u[1]>>, n>> \in Edge
    BY <1>2 DEF Edge, Node
  <2>2. ~Touches(<< <<f, u[1]>>, n>>, {g})
    BY <1>1, <1>4 DEF Touches
  <2> QED BY <2>1, <2>2 DEF DeleteFile
<1> QED BY <1>2, <1>3, <1>4 DEF KeptInside

LEMMA UpsertKeepsOwn ==
  ASSUME StoreTypeOK, OwnKeptInside, NEW g \in File, NEW row \in Row,
         files[g] # NoRow, files[g].hash = row.hash, UpsertRow(g, row)
  PROVE  OwnKeptInside'
<1>1. \A f \in File : files'[f] # NoRow => files[f] # NoRow /\ files'[f].hash = files[f].hash
  BY DEF UpsertRow, StoreTypeOK
<1>2. UNCHANGED <<edges, refs>>
  BY DEF UpsertRow
<1> QED BY <1>1, <1>2 DEF OwnKeptInside, OnlyOwn, KeptInside

(* A reference that leaves unresolved_refs in a commit has its edge in it. *)
LEMMA CommitKeepsOwn ==
  ASSUME TypeOK, RowMatchesNodes, RecordsInv, PendingSound, OwnKeptInside,
         NEW p \in Proc, pc[p] = "commit", CommitResolved(chosen[p], ok[p])
  PROVE  OwnKeptInside'
<1>0. ok[p] = chosen[p] /\ \A x \in chosen[p] : Sound(x) /\ x.edge \in Edge
  BY DEF PendingSound, TypeOK, Choice
<1>1. /\ \A e \in Edge : edges'[e] = IF \E x \in chosen[p] : x.edge = e THEN edges[e] + 1 ELSE edges[e]
      /\ refs' = refs \ UNION {x.from : x \in chosen[p]}
      /\ UNCHANGED files
  BY <1>0 DEF CommitResolved
<1>2. \A e \in Edge : edges[e] \in Nat
  BY DEF TypeOK, StoreTypeOK
<1> SUFFICES ASSUME NEW f \in File, files[f] # NoRow, NEW u \in Uses[files[f].hash], OnlyOwn(f, u)
             PROVE  KeptInside(f, u)'
  BY <1>1 DEF OwnKeptInside, OnlyOwn
<1>3. u \in Symbol \X Name /\ KeptInside(f, u)
  BY UsesType DEF OwnKeptInside, TypeOK
<1>4. ASSUME NEW n \in Node, n[1] = f, n[2] \in Answers[u[2]], edges[<< <<f, u[1]>>, n>>] > 0
      PROVE  KeptInside(f, u)'
  <2>1. << <<f, u[1]>>, n>> \in Edge
    BY <1>3 DEF Edge, Node
  <2>2. edges'[<< <<f, u[1]>>, n>>] > 0
    BY <1>1, <1>2, <1>4, <2>1
  <2> QED BY <1>4, <2>2 DEF KeptInside
<1>5. ASSUME NEW r \in refs, r.src = <<f, u[1]>>, r.name = u[2]
      PROVE  KeptInside(f, u)'
  <2>1. CASE r \in refs'
    BY <1>5, <2>1 DEF KeptInside
  <2>2. CASE r \notin refs'
    <3>1. PICK x \in chosen[p] : r \in x.from
      BY <1>1, <2>2
    <3> DEFINE n == x.edge[2]
    <3>2. x.edge \in Edge /\ n \in nodes /\ x.edge[1] = r.src /\ n[2] \in Answers[u[2]]
      BY <1>0, <1>5, <3>1 DEF Sound, AnswersRef
    <3>3. x.edge = << <<f, u[1]>>, n>> /\ n \in Node
      BY <1>5, <3>2 DEF Edge
    <3> HIDE DEF n
    <3>4. n[1] = f
      BY <3>2, OwnAnswer
    <3>5. edges'[<< <<f, u[1]>>, n>>] > 0
      BY <1>1, <1>2, <3>1, <3>2, <3>3
    <3> QED BY <3>2, <3>3, <3>4, <3>5 DEF KeptInside
  <2> QED BY <2>1, <2>2
<1> QED BY <1>3, <1>4, <1>5 DEF KeptInside

LEMMA OwnInit == Init => OwnReferencesKept
<1> SUFFICES ASSUME Init, NEW f \in File, files[f] # NoRow, NEW u \in Uses[files[f].hash]
             PROVE  Kept(f, u)
  BY DEF OwnReferencesKept
<1>1. StoreTypeOK
  BY TypeInit DEF TypeOK
<1>2. PICK done \in Matches(FirstRefs, nodes) : Resolved(done)
  BY DEF Init
<1> DEFINE r == [gen |-> 0, src |-> <<f, u[1]>>, name |-> u[2]]
<1>3. u \in Symbol \X Name /\ u[1] \in Defs[files[f].hash]
  BY <1>1, TextAssumption DEF StoreTypeOK, Row
<1>4. <<f, u[1]>> \in nodes
  BY <1>3 DEF Init, Node
<1>5. <<r.src[2], r.name>> \in Uses[files[r.src[1]].hash]
  BY <1>3
<1>6. r \in FirstRefs
  BY <1>3, <1>4, <1>5 DEF FirstRefs
<1>7. CASE r \in refs
  BY <1>7 DEF Kept
<1>8. CASE r \notin refs
  <2>1. PICK x \in done : r \in x.from
    BY <1>2, <1>6, <1>8 DEF Resolved
  <2>2. PICK s \in FirstRefs : x.from = {s} /\ AnswersRef(x.edge, s)
    BY <1>2, <2>1, MatchesAnswer
  <2>3. s = r
    BY <2>1, <2>2
  <2>4. x.edge \in Edge
    <3>1. FirstRefs \in SUBSET Ref /\ nodes \in SUBSET Node
      BY <1>1 DEF FirstRefs, Ref, StoreTypeOK
    <3>2. done \in SUBSET Choice
      BY <1>2, <3>1, MatchesType
    <3> QED BY <2>1, <3>2 DEF Choice
  <2> DEFINE n == x.edge[2]
  <2>5. n \in Node /\ n[2] \in Answers[u[2]] /\ x.edge = << <<f, u[1]>>, n>>
    BY <2>2, <2>3, <2>4 DEF AnswersRef, Edge
  <2>6. edges[x.edge] > 0
    BY <1>2, <2>1, <2>4 DEF Resolved
  <2> QED BY <2>5, <2>6 DEF Kept
<1> QED BY <1>7, <1>8

LEMMA OwnWork ==
  ASSUME TypeOK, IndexInv, ForeignKeys, RecordsInv, PendingSound, OwnKeptInside,
         NEW p \in Proc, Work(p)
  PROVE  OwnKeptInside'
<1>0. StoreTypeOK
  BY DEF TypeOK
<1>1. CASE UNCHANGED store
  BY <1>1 DEF store, OwnKeptInside, OnlyOwn, KeptInside
<1>2. CASE RemoveFile(p)
  <2>1. PICK f \in File : DeleteFile(f) \/ UNCHANGED store
    BY <1>2 DEF RemoveFile, TypeOK
  <2> QED BY <1>0, <1>1, <2>1, DeleteKeepsOwn
<1>3. CASE ExtractAndStore(p)
  <2> DEFINE rowOf(h) == Extract(src[p][h], StampNow(h))
  <2>1. PICK f \in File : src[p][f] # NoText /\ (StoreBatch(f, rowOf(f)) \/ UNCHANGED store)
    BY <1>3 DEF ExtractAndStore
  <2>2. rowOf(f) \in Row
    BY <2>1, StatType, ExtractType DEF TypeOK
  <2> HIDE DEF rowOf
  <2>3. CASE Rewrite({f}, [g \in {f} |-> rowOf(f)])
    BY <1>0, <2>2, <2>3, RewriteKeepsOwn
  <2> QED BY <1>1, <2>1, <2>3 DEF StoreBatch
<1>4. CASE WriteMetadata(p)
  <2>1. PICK f \in File : batch[p][f] # NoRow /\ UpsertRow(f, batch[p][f])
    BY <1>4 DEF WriteMetadata
  <2>2. batch[p][f] \in Row /\ files[f] # NoRow /\ files[f].hash = batch[p][f].hash
    BY <2>1 DEF TypeOK, IndexInv, BatchStored
  <2> QED BY <1>0, <2>1, <2>2, UpsertKeepsOwn
<1>5. CASE Commit(p)
  BY <1>5, CommitKeepsOwn DEF Commit, IndexInv
<1>6. CASE ExtractForIndex(p) \/ Flush(p) \/ EndIndex(p)
  BY <1>6 DEF ExtractForIndex, Flush, EndIndex, Gathered, IndexInv, NoIndex, InIndex
<1>7. CASE ~(RemoveFile(p) \/ ExtractAndStore(p) \/ WriteMetadata(p) \/ Commit(p) \/ Flush(p))
  <2>1. UNCHANGED store
    BY <1>7 DEF Work, Noop, Classify, BeginRead, ReadSource, BeginStore, BeginMetadata,
         CycleFails, BeginAgain, EndCycle, ScopeFull, ScopeIncremental, Match, Warm,
         FetchAll, CheckEnds, RetryCommit, GiveUpCommit, ResolutionFails, ExtractForIndex,
         EndIndex
  <2> QED BY <1>1, <2>1
<1> QED BY <1>2, <1>3, <1>4, <1>5, <1>6, <1>7

LEMMA OwnNext ==
  TypeOK /\ IndexInv /\ ForeignKeys /\ RecordsInv /\ PendingSound /\ OwnKeptInside /\ [Next]_vars
    => OwnKeptInside'
<1> SUFFICES ASSUME TypeOK, IndexInv, ForeignKeys, RecordsInv, PendingSound, OwnKeptInside,
                    [Next]_vars
             PROVE  OwnKeptInside'
  OBVIOUS
<1>1. CASE Environment \/ (\E p \in Proc : Start(p)) \/ UNCHANGED vars
  <2>1. UNCHANGED store
    BY <1>1, EnvironmentKeepsStore
  <2> QED BY <2>1 DEF store, OwnKeptInside, OnlyOwn, KeptInside
<1>2. ASSUME NEW p \in Proc, Work(p) PROVE OwnKeptInside'
  BY <1>2, OwnWork
<1> QED BY <1>1, <1>2 DEF Next

(* A reference that only its own file can answer is unresolved or has its    *)
(* edge as long as the file's text makes it: no commit drops an edge whose   *)
(* reference it deletes, no re-extraction skips the references of a new      *)
(* text, whatever is edited and whenever the one process is killed.          *)
THEOREM OwnAreKept ==
  ASSUME Alone
  PROVE  Spec => []OwnReferencesKept
<1>0. SoundStorage
  BY DEF Alone
<1>1. TypeOK /\ LockHeld /\ IndexInv /\ [Next]_vars => IndexInv'
  BY <1>0, IndexNext
<1>2. TypeOK /\ IndexInv /\ EdgesInv /\ [Next]_vars => EdgesInv'
  BY EdgesNext
<1>3. TypeOK /\ IndexInv /\ EdgesInv /\ ForeignKeys /\ PendingSound /\ [Next]_vars => PendingSound'
  BY SoundNext
<1>4. TypeOK /\ IndexInv /\ ForeignKeys /\ RecordsInv => (OwnReferencesKept <=> OwnKeptInside)
  BY InsideIsKept DEF IndexInv
<1> QED BY <1>1, <1>2, <1>3, <1>4, TypeCorrect, LockExcludes, ForeignKeysHold, IndexInit, EdgesInit,
           RecordsInit, RecordsNext, SoundInit, OwnInit, OwnNext, PTL DEF Spec

-----------------------------------------------------------------------------
(* Rest means that nothing that can be named is left unresolved. *)

(* One process that is not killed, and a resolver that accepts a symbol for  *)
(* its own name.  What a kill between a cycle and its commit leaves, only a  *)
(* later cycle over the same files or a full pass takes up.                  *)
Undisturbed ==
  /\ Alone /\ Proc # {}
  /\ MaxCrashes = 0
  /\ \A s \in Symbol : s \in Answers[s]

InUpdate == {"remove", "read", "store", "meta", "again", "scope"}

(* What process p has in hand it has from its classification of the files.   *)
InHand(p) ==
  /\ pc[p] # "down"
  /\ pc[p] \in {"remove", "again"} => left[p] \subseteq gone[p]
  /\ pc[p] = "read" => left[p] \subseteq work[p]
  /\ \A f \in File : src[p][f] # NoText => pc[p] \in {"read", "store"} /\ f \in work[p]

(* Process p will come to reference r, which names node n: one of the two is *)
(* of a file that changed, until the references are fetched; then it is      *)
(* fetched, then it is resolved, and after the commit there is none such.    *)
Awaited(p, r, n) ==
  /\ pc[p] \notin {"idle", "down", "classify"}
  /\ pc[p] \in InUpdate => r.src[1] \in ChangedPaths(p) \/ n[1] \in ChangedPaths(p)
  /\ pc[p] = "match" => r \in todo[p]
  /\ pc[p] \in {"check", "commit"} => \E x \in chosen[p] : r \in x.from

AllAwaited(p) == \A r \in refs, n \in nodes : n[2] = r.name => Awaited(p, r, n)

AwaitedInv == \A p \in Proc : InHand(p) /\ AllAwaited(p)

(* The resolver leaves nothing of rs that a node of ns can answer. *)
LEMMA MatchesAll ==
  ASSUME NEW rs, NEW ns, NEW m \in Matches(rs, ns), NEW r \in rs, NEW n \in ns,
         n[2] \in Answers[r.name]
  PROVE  \E x \in m : r \in x.from
<1> DEFINE R == {s \in rs : \E k \in ns : k[2] \in Answers[s.name]}
           pick == {h \in [R -> ns] : \A s \in R : h[s][2] \in Answers[s.name]}
<1>1. PICK h \in pick : m = {[edge |-> <<s.src, h[s]>>, from |-> {s}] : s \in R}
  BY DEF Matches
<1>2. r \in R
  OBVIOUS
<1>3. [edge |-> <<r.src, h[r]>>, from |-> {r}] \in m
  BY <1>1, <1>2
<1> QED BY <1>3

LEMMA NamedAnswers ==
  ASSUME Undisturbed, NEW r, NEW n \in Node, n[2] = r.name
  PROVE  n[2] \in Answers[r.name]
  BY DEF Undisturbed, Node

LEMMA AwaitedInit ==
  ASSUME Undisturbed
  PROVE  Init => AwaitedInv
<1> SUFFICES ASSUME Init, NEW p \in Proc PROVE InHand(p) /\ AllAwaited(p)
  BY DEF AwaitedInv
<1>1. PICK done \in Matches(FirstRefs, nodes) : Resolved(done)
  BY DEF Init
<1>2. ASSUME NEW r \in refs, NEW n \in nodes, n[2] = r.name
      PROVE  FALSE
  <2>1. n[2] \in Answers[r.name]
    BY <1>2, NamedAnswers DEF Init
  <2>2. r \in FirstRefs /\ \A x \in done : r \notin x.from
    BY <1>1 DEF Resolved
  <2> QED BY <1>1, <2>1, <2>2, MatchesAll
<1>3. InHand(p)
  BY DEF Init, InHand
<1> QED BY <1>2, <1>3 DEF AllAwaited

LEMMA NothingFails ==
  ASSUME Undisturbed, TypeOK
  PROVE  ~Fault /\ \A p \in Proc : ~Crash(p) /\ ~BeginIndex(p)
  BY DEF Undisturbed, Alone, SoundStorage, Fault, Crash, BeginIndex, TypeOK

(* The one process goes on with what it has in hand. *)
LEMMA AwaitedStep ==
  ASSUME Undisturbed, NEW p \in Proc, InHand(p)', AllAwaited(p)'
  PROVE  AwaitedInv'
<1>1. \A q \in Proc : q = p
  BY DEF Undisturbed, Alone
<1> QED BY <1>1 DEF AwaitedInv

(* The files that change are those in hand. *)
LEMMA AwaitedStored ==
  ASSUME Undisturbed, TypeOK, AwaitedInv, NEW p \in Proc,
         RemoveFile(p) \/ ExtractAndStore(p) \/ WriteMetadata(p)
  PROVE  AwaitedInv'
<1>0. InHand(p) /\ AllAwaited(p) /\ UNCHANGED <<pc, work, gone>> /\ pc[p] \in {"remove", "again", "store", "meta"}
  BY DEF AwaitedInv, RemoveFile, ExtractAndStore, WriteMetadata
<1>1. CASE RemoveFile(p)
  <2>1. PICK f \in left[p] : left' = [left EXCEPT ![p] = @ \ {f}] /\ DeleteFile(f)
    BY <1>1, NothingFails DEF RemoveFile
  <2>2. left'[p] \subseteq left[p] /\ UNCHANGED src
    BY <1>1, <2>1 DEF RemoveFile, TypeOK
  <2>3. InHand(p)'
    BY <1>0, <2>2 DEF InHand
  <2>4. refs' \subseteq refs /\ nodes' \subseteq nodes
    BY <2>1 DEF DeleteFile
  <2>5. AllAwaited(p)'
    BY <1>0, <2>4 DEF AllAwaited, Awaited, InUpdate, ChangedPaths
  <2> QED BY <2>3, <2>5, AwaitedStep
<1>2. CASE ExtractAndStore(p)
  <2> DEFINE rowOf(h) == Extract(src[p][h], StampNow(h))
  <2>1. PICK g \in File : /\ src[p][g] # NoText
                          /\ StoreBatch(g, rowOf(g)) \/ UNCHANGED store
                          /\ src' = [src EXCEPT ![p][g] = NoText]
    BY <1>2 DEF ExtractAndStore
  <2> HIDE DEF rowOf
  <2>2. /\ \A f \in File : src'[p][f] # NoText => src[p][f] # NoText
        /\ UNCHANGED left
    BY <1>2, <2>1 DEF ExtractAndStore, TypeOK
  <2>3. InHand(p)'
    BY <1>0, <2>2 DEF InHand
  <2>4. g \in work[p] /\ pc[p] = "store"
    BY <1>2, <2>1, <1>0 DEF InHand, ExtractAndStore
  <2>5. /\ \A r \in refs' : r \in refs \/ r.src[1] = g
        /\ \A n \in nodes' : n \in nodes \/ n[1] = g
    <3>1. CASE UNCHANGED store
      BY <3>1 DEF store
    <3>2. CASE Rewrite({g}, [h \in {g} |-> rowOf(g)])
      BY <3>2 DEF Rewrite
    <3> QED BY <2>1, <3>1, <3>2 DEF StoreBatch
  <2>6. AllAwaited(p)'
    BY <1>0, <2>4, <2>5 DEF AllAwaited, Awaited, InUpdate, ChangedPaths
  <2> QED BY <2>3, <2>6, AwaitedStep
<1>3. CASE WriteMetadata(p)
  <2>1. UNCHANGED <<refs, nodes, src, left>> /\ pc[p] = "meta"
    BY <1>3 DEF WriteMetadata, UpsertRow
  <2>2. InHand(p)'
    BY <1>0, <2>1 DEF InHand
  <2>3. AllAwaited(p)'
    BY <1>0, <2>1 DEF AllAwaited, Awaited, InUpdate, ChangedPaths
  <2> QED BY <2>2, <2>3, AwaitedStep
<1> QED BY <1>1, <1>2, <1>3

(* The steps of a cycle between its calls on the store. *)
LEMMA AwaitedCycle ==
  ASSUME Undisturbed, TypeOK, NoIndex, AwaitedInv, NEW p \in Proc,
         \/ Noop(p) \/ Classify(p) \/ BeginRead(p) \/ ReadSource(p) \/ BeginStore(p)
         \/ BeginMetadata(p) \/ BeginAgain(p) \/ EndCycle(p)
  PROVE  AwaitedInv'
<1>0. InHand(p) /\ AllAwaited(p) /\ UNCHANGED <<refs, nodes>>
  BY DEF AwaitedInv, Noop, Classify, BeginRead, ReadSource, BeginStore, BeginMetadata, BeginAgain,
     EndCycle, store
<1>1. ASSUME NEW to, Goto(p, to) PROVE pc'[p] = to
  BY <1>1 DEF Goto, TypeOK
<1>2. CASE Noop(p)
  <2>1. pc[p] = "classify" /\ pc'[p] = "idle" /\ \A f \in File : src'[p][f] = NoText
    BY <1>1, <1>2 DEF Noop, Forget, TypeOK
  <2>2. InHand(p)'
    BY <2>1 DEF InHand
  <2>3. AllAwaited(p)'
    BY <1>0, <2>1 DEF AllAwaited, Awaited
  <2> QED BY <2>2, <2>3, AwaitedStep
<1>3. CASE Classify(p)
  <2>1. /\ pc[p] = "classify" /\ pc'[p] = "remove" /\ UNCHANGED src
        /\ gone'[p] = Rows \ left[p] /\ left'[p] = Rows \ left[p]
    BY <1>1, <1>3 DEF Classify, TypeOK
  <2>2. InHand(p)'
    BY <1>0, <2>1 DEF InHand
  <2>3. AllAwaited(p)'
    BY <1>0, <2>1 DEF AllAwaited, Awaited
  <2> QED BY <2>2, <2>3, AwaitedStep
<1>4. CASE BeginRead(p)
  <2>1. /\ pc[p] = "remove" /\ pc'[p] = "read" /\ UNCHANGED <<src, work, gone>>
        /\ left'[p] = work[p]
    BY <1>1, <1>4 DEF BeginRead, TypeOK
  <2>2. InHand(p)'
    BY <1>0, <2>1 DEF InHand
  <2>3. AllAwaited(p)'
    BY <1>0, <2>1 DEF AllAwaited, Awaited, InUpdate, ChangedPaths
  <2> QED BY <2>2, <2>3, AwaitedStep
<1>5. CASE ReadSource(p)
  <2>1. pc[p] = "read" /\ UNCHANGED <<pc, work, gone>>
    BY <1>5 DEF ReadSource, NoIndex, InIndex
  <2>2. PICK f \in left[p] :
          /\ left' = [left EXCEPT ![p] = @ \ {f}]
          /\ src' = [src EXCEPT ![p][f] = IF disk[f] = NoFile THEN NoText ELSE disk[f].text]
    BY <1>5 DEF ReadSource
  <2>3. left'[p] \subseteq left[p] /\ f \in work[p]
    BY <1>0, <2>1, <2>2 DEF TypeOK, InHand
  <2>4. \A h \in File \ {f} : src'[p][h] = src[p][h]
    BY <2>2 DEF TypeOK
  <2>5. InHand(p)'
    BY <1>0, <2>1, <2>3, <2>4 DEF InHand
  <2>6. AllAwaited(p)'
    BY <1>0, <2>1 DEF AllAwaited, Awaited, InUpdate, ChangedPaths
  <2> QED BY <2>5, <2>6, AwaitedStep
<1>6. CASE BeginStore(p) \/ BeginMetadata(p)
  <2>1. /\ UNCHANGED <<src, work, gone>>
        /\ pc[p] \in {"read", "store"} /\ pc'[p] \in {"store", "meta"}
        /\ pc'[p] = "meta" => \A f \in File : src[p][f] = NoText
    BY <1>1, <1>6 DEF BeginStore, BeginMetadata, cycle
  <2>2. InHand(p)'
    BY <1>0, <2>1 DEF InHand
  <2>3. AllAwaited(p)'
    BY <1>0, <2>1 DEF AllAwaited, Awaited, InUpdate, ChangedPaths
  <2> QED BY <2>2, <2>3, AwaitedStep
<1>7. CASE BeginAgain(p)
  <2>1. /\ pc[p] = "meta" /\ pc'[p] = "again" /\ UNCHANGED <<src, work, gone>>
        /\ left'[p] = gone[p]
    BY <1>1, <1>7 DEF BeginAgain, TypeOK
  <2>2. InHand(p)'
    BY <1>0, <2>1 DEF InHand
  <2>3. AllAwaited(p)'
    BY <1>0, <2>1 DEF AllAwaited, Awaited, InUpdate, ChangedPaths
  <2> QED BY <2>2, <2>3, AwaitedStep
<1>8. CASE EndCycle(p)
  <2>1. pc[p] = "again" /\ pc'[p] = "scope" /\ UNCHANGED <<src, work, gone>>
    BY <1>1, <1>8 DEF EndCycle, cycle
  <2>2. InHand(p)'
    BY <1>0, <2>1 DEF InHand
  <2>3. AllAwaited(p)'
    BY <1>0, <2>1 DEF AllAwaited, Awaited, InUpdate, ChangedPaths
  <2> QED BY <2>2, <2>3, AwaitedStep
<1> QED BY <1>2, <1>3, <1>4, <1>5, <1>6, <1>7, <1>8

(* What run_resolution_incremental fetches names every reference a change    *)
(* can have made resolvable.                                                *)
LEMMA ScopeFetches ==
  ASSUME NEW S, NEW r \in refs, NEW n \in nodes, n[2] = r.name, r.src[1] \in S \/ n[1] \in S
  PROVE  r \in UNION ScopedRefs(S)
<1>1. CASE r.src[1] \in S
  BY <1>1 DEF ScopedRefs, RefsOfFiles
<1>2. CASE n[1] \in S
  BY <1>2 DEF ScopedRefs, RefsByNames
<1> QED BY <1>1, <1>2

LEMMA AwaitedResolution ==
  ASSUME Undisturbed, TypeOK, PendingSound, AwaitedInv, NEW p \in Proc,
         \/ ScopeFull(p) \/ ScopeIncremental(p) \/ Match(p) \/ Warm(p) \/ FetchAll(p)
         \/ CheckEnds(p) \/ Commit(p)
  PROVE  AwaitedInv'
<1>0. /\ InHand(p) /\ AllAwaited(p) /\ UNCHANGED nodes /\ nodes \in SUBSET Node
      /\ pc[p] \in InResolution
  BY DEF AwaitedInv, ScopeFull, ScopeIncremental, Match, Warm, FetchAll, CheckEnds, Commit,
     CommitResolved, InResolution, store, TypeOK, StoreTypeOK
<1>1. ASSUME NEW to, Goto(p, to) PROVE pc'[p] = to
  BY <1>1 DEF Goto, TypeOK
<1>2. ASSUME pc'[p] \in InResolution \cup {"idle"}, UNCHANGED src \/ Forget(p)
      PROVE  InHand(p)'
  <2>1. \A f \in File : src'[p][f] = NoText
    <3>1. CASE Forget(p)
      BY <3>1 DEF Forget, TypeOK
    <3>2. CASE UNCHANGED src
      BY <1>0, <3>2 DEF InHand, InResolution
    <3> QED BY <1>2, <3>1, <3>2
  <2> QED BY <1>2, <2>1 DEF InHand, InResolution
<1>3. CASE ScopeFull(p)
  <2>1. pc'[p] = "warm" /\ UNCHANGED <<refs, src>>
    BY <1>1, <1>3 DEF ScopeFull, store, cycle
  <2>2. InHand(p)'
    BY <1>2, <2>1 DEF InResolution
  <2>3. AllAwaited(p)'
    BY <2>1 DEF AllAwaited, Awaited, InUpdate
  <2> QED BY <2>2, <2>3, AwaitedStep
<1>4. CASE ScopeIncremental(p)
  <2>1. /\ pc[p] = "scope" /\ pc'[p] = "match" /\ UNCHANGED <<refs, src>>
        /\ todo'[p] = UNION ScopedRefs(ChangedPaths(p))
    BY <1>1, <1>4, NothingFails DEF ScopeIncremental, store, cycle, TypeOK
  <2>2. InHand(p)'
    BY <1>2, <2>1 DEF InResolution
  <2>3. \A r \in refs, n \in nodes : n[2] = r.name => r \in todo'[p]
    BY <1>0, <2>1, ScopeFetches DEF AllAwaited, Awaited, InUpdate
  <2>4. AllAwaited(p)'
    BY <1>0, <2>1, <2>3 DEF AllAwaited, Awaited, InUpdate
  <2> QED BY <2>2, <2>4, AwaitedStep
<1>5. CASE Match(p) \/ FetchAll(p)
  <2>1. /\ pc'[p] = "check" /\ UNCHANGED <<refs, src>>
        /\ \E rs : /\ chosen'[p] \in Matches(rs, nodes)
                   /\ \A r \in refs, n \in nodes : n[2] = r.name => r \in rs
    <3>1. CASE Match(p)
      <4>1. pc[p] = "match" /\ \A r \in refs, n \in nodes : n[2] = r.name => r \in todo[p]
        BY <1>0, <3>1 DEF Match, AllAwaited, Awaited
      <4>2. chosen'[p] \in Matches(todo[p], nodes)
        BY <3>1 DEF Match, TypeOK
      <4> QED BY <1>1, <3>1, <4>1, <4>2 DEF Match, store, cycle
    <3>2. CASE FetchAll(p)
      <4>1. pc[p] = "fetch" /\ cache[p] = nodes
        BY <3>2 DEF FetchAll, PendingSound
      <4>2. chosen'[p] \in Matches(refs, nodes)
        BY <3>2, <4>1 DEF FetchAll, TypeOK
      <4> QED BY <1>1, <3>2, <4>2 DEF FetchAll, store, cycle
    <3> QED BY <1>5, <3>1, <3>2
  <2>2. InHand(p)'
    BY <1>2, <2>1 DEF InResolution
  <2>3. ASSUME NEW r \in refs, NEW n \in nodes, n[2] = r.name
        PROVE  \E x \in chosen'[p] : r \in x.from
    <3>1. n[2] \in Answers[r.name]
      BY <1>0, <2>3, NamedAnswers
    <3> QED BY <2>1, <2>3, <3>1, MatchesAll
  <2>4. AllAwaited(p)'
    BY <1>0, <2>1, <2>3 DEF AllAwaited, Awaited, InUpdate
  <2> QED BY <2>2, <2>4, AwaitedStep
<1>6. CASE Warm(p)
  <2>1. pc'[p] = "fetch" /\ UNCHANGED <<refs, src>>
    BY <1>1, <1>6 DEF Warm, store, cycle
  <2>2. InHand(p)'
    BY <1>2, <2>1 DEF InResolution
  <2>3. AllAwaited(p)'
    BY <2>1 DEF AllAwaited, Awaited, InUpdate
  <2> QED BY <2>2, <2>3, AwaitedStep
<1>7. CASE CheckEnds(p)
  <2>1. pc[p] = "check" /\ pc'[p] = "commit" /\ UNCHANGED <<refs, src, chosen>>
    BY <1>1, <1>7 DEF CheckEnds, store, cycle
  <2>2. InHand(p)'
    BY <1>2, <2>1 DEF InResolution
  <2>3. AllAwaited(p)'
    BY <1>0, <2>1 DEF AllAwaited, Awaited, InUpdate
  <2> QED BY <2>2, <2>3, AwaitedStep
<1>8. CASE Commit(p)
  <2>1. /\ pc[p] = "commit" /\ pc'[p] \in {"idle", "check"}
        /\ UNCHANGED src \/ Forget(p)
        /\ refs' = refs \ UNION {x.from : x \in chosen[p]}
    BY <1>1, <1>8 DEF Commit, CommitResolved, cycle
  <2>2. InHand(p)'
    BY <1>2, <2>1 DEF InResolution
  <2>3. ASSUME NEW r \in refs', NEW n \in nodes, n[2] = r.name
        PROVE  FALSE
    <3>1. \E x \in chosen[p] : r \in x.from
      BY <1>0, <2>1, <2>3 DEF AllAwaited, Awaited
    <3> QED BY <2>1, <2>3, <3>1
  <2>4. AllAwaited(p)'
    BY <1>0, <2>3 DEF AllAwaited
  <2> QED BY <2>2, <2>4, AwaitedStep
<1> QED BY <1>3, <1>4, <1>5, <1>6, <1>7, <1>8

LEMMA AwaitedWork ==
  ASSUME Undisturbed, TypeOK, NoIndex, PendingSound, AwaitedInv, NEW p \in Proc, Work(p)
  PROVE  AwaitedInv'
<1>1. CASE CycleFails(p) \/ ResolutionFails(p)
  BY <1>1, NothingFails DEF CycleFails, ResolutionFails
<1>2. CASE RetryCommit(p) \/ GiveUpCommit(p)
  <2>1. pc[p] = "commit" /\ CommitAborts(ok[p])
    BY <1>2, NothingFails DEF RetryCommit, GiveUpCommit
  <2> QED BY <2>1 DEF CommitAborts, PendingSound, Sound
<1>3. CASE ExtractForIndex(p) \/ Flush(p) \/ EndIndex(p)
  BY <1>3 DEF ExtractForIndex, Flush, EndIndex, Gathered, NoIndex, InIndex
<1> QED BY <1>1, <1>2, <1>3, AwaitedStored, AwaitedCycle, AwaitedResolution DEF Work

LEMMA AwaitedOther ==
  ASSUME Undisturbed, TypeOK, AwaitedInv,
         Environment \/ (\E p \in Proc : Start(p)) \/ UNCHANGED vars
  PROVE  AwaitedInv'
<1>1. UNCHANGED <<refs, nodes>>
  BY EnvironmentKeepsStore DEF store
<1>2. CASE UNCHANGED <<pc, left, work, gone, src, todo, chosen>>
  BY <1>1, <1>2 DEF AwaitedInv, InHand, AllAwaited, Awaited, ChangedPaths
<1>3. ASSUME NEW p \in Proc, Restart(p)
      PROVE  FALSE
  BY <1>3 DEF Restart, AwaitedInv, InHand
<1>4. ASSUME NEW p \in Proc, BeginCycle(p)
      PROVE  AwaitedInv'
  <2>1. pc[p] = "idle" /\ pc'[p] = "classify" /\ UNCHANGED <<src, work, gone>>
    BY <1>4 DEF BeginCycle, Wake, Goto, TypeOK
  <2>2. InHand(p)'
    BY <2>1 DEF InHand, AwaitedInv
  <2>3. AllAwaited(p)'
    BY <1>1, <2>1 DEF AwaitedInv, AllAwaited, Awaited
  <2> QED BY <2>2, <2>3, AwaitedStep
<1> QED
  BY <1>2, <1>3, <1>4, NothingFails DEF Environment, Edit, Erase, Start, LockBusy, vars, cycle,
     resolution

LEMMA AwaitedNext ==
  ASSUME Undisturbed
  PROVE  TypeOK /\ IndexInv /\ PendingSound /\ AwaitedInv /\ [Next]_vars => AwaitedInv'
  BY AwaitedWork, AwaitedOther DEF Next, IndexInv

(* Once nothing runs, no reference whose very name a node carries is left    *)
(* unresolved: the references of the changed files and those that name what  *)
(* they now define are all a change can make resolvable, whichever of the    *)
(* two passes a change takes and however many edits go by.                   *)
THEOREM RestIsResolved ==
  ASSUME Undisturbed
  PROVE  Spec => []QuietMeansResolved
<1>0. Alone /\ SoundStorage
  BY DEF Undisturbed, Alone
<1>1. TypeOK /\ LockHeld /\ IndexInv /\ [Next]_vars => IndexInv'
  BY <1>0, IndexNext
<1>2. TypeOK /\ IndexInv /\ EdgesInv /\ [Next]_vars => EdgesInv'
  BY <1>0, EdgesNext
<1>3. TypeOK /\ IndexInv /\ EdgesInv /\ ForeignKeys /\ PendingSound /\ [Next]_vars => PendingSound'
  BY <1>0, SoundNext
<1>4. TypeOK /\ IndexInv /\ PendingSound /\ AwaitedInv /\ [Next]_vars => AwaitedInv'
  BY AwaitedNext
<1>5. Init => AwaitedInv
  BY AwaitedInit
<1>6. AwaitedInv => QuietMeansResolved
  <2> SUFFICES ASSUME AwaitedInv, Quiet, NEW r \in refs, NEW n \in nodes, n[2] = r.name
               PROVE  FALSE
    BY DEF QuietMeansResolved, Nameable
  <2> QED BY DEF Undisturbed, AwaitedInv, AllAwaited, Awaited, Quiet, Idle
<1> QED BY <1>1, <1>2, <1>3, <1>4, <1>5, <1>6, TypeCorrect, LockExcludes, ForeignKeysHold, IndexInit,
           EdgesInit, SoundInit, PTL DEF Spec
=============================================================================
