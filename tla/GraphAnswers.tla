---------------------------- MODULE GraphAnswers ----------------------------
(***************************************************************************)
(* What callers of GraphTraverser make of its answers: the aggregated        *)
(* queries of StorageImpl behind the MCP tools, the subgraph responses of    *)
(* the web view, and the expansion of the roots a context search selected.   *)
(***************************************************************************)
EXTENDS GraphQueries

CONSTANTS
  NameOf,       \* the simple name of an id
  TestNode,     \* ids whose file is_test_file
  KindBonus,    \* kind_bonus of a node's kind
  MaxFamily,    \* MAX_FAMILY_NODES, 32 in the code
  MinWindow,    \* least expansion of a root, 4 in the code
  Starts,       \* nodes queries start from
  Caps,         \* values of cap, limit and max_nodes
  RootLists     \* sequences of search results

Degree(n) == Len(Incoming(n, AnyKind)) + Len(Outgoing(n, AnyKind))

Take(s, n) == SubSeq(s, 1, IF Len(s) < n THEN Len(s) ELSE n)

(* resolve_symbol_family: LIMIT without a total order keeps any MaxFamily of  *)
(* the nodes of the name; the best match is always one of the family.        *)
Families(best, bare) ==
  IF ~bare THEN {{best}}
  ELSE LET same == {n \in Node : NameOf[n] = NameOf[best]}
           size == Min({Cardinality(same), MaxFamily})
       IN {S \union {best} : S \in kSubset(size, same)}

FamilyOrder(fam) ==
  InOrder(fam, LAMBDA m, n : Degree(m) > Degree(n) \/ (Degree(m) = Degree(n) /\ m < n))

(* get_callers and get_callees of depth 1 over a family, as one set.         *)
NeighboursOf(op, fam) ==
  UNION {LET r == DepthFirst([op |-> op, start |-> f, depth |-> 1])
         IN {IF op = "callers" THEN e.source ELSE e.target : e \in ToSet(r.edges)} :
         f \in fam}

(* Mutant: by degree alone.                                                *)
RanksBeforeDegree(m, n) == Degree(m) > Degree(n) \/ (Degree(m) = Degree(n) /\ m < n)

(* rank_and_cap_neighbors: production before tests, then by degree.          *)
RanksBefore(m, n) ==
  \/ m \notin TestNode /\ n \in TestNode
  \/ /\ m \in TestNode <=> n \in TestNode
     /\ \/ Degree(m) > Degree(n)
        \/ Degree(m) = Degree(n) /\ m < n

CappedNeighbours(op, fam, cap) ==
  Take(InOrder(NeighboursOf(op, fam), RanksBefore), cap)

-----------------------------------------------------------------------------
(* get_impact_aggregated.                                                  *)

AnswerKinds == {"calls", "references", "implements", "extends", "instantiates", "uses"}
Markers == {"file", "namespace"}
Far == Cardinality(Node) + 1

(* Edges of the family's subgraphs, one for a pair of nodes: the first.       *)
PairOnce(es) ==
  FoldLeft(LAMBDA acc, e :
             IF \E f \in ToSet(acc) : f.source = e.source /\ f.target = e.target
             THEN acc ELSE Append(acc, e), <<>>, es)

ImpactOf(order, depth) ==
  LET subs == [i \in 1..Len(order) |->
                 DepthFirst([op |-> "impact", start |-> order[i], depth |-> depth])]
  IN [nodes |-> UNION {subs[i].nodes : i \in 1..Len(order)},
      edges |-> PairOnce(FlattenSeq([i \in 1..Len(order) |-> subs[i].edges]))]

(* Who depends on whom: the edges of the subgraph and, fetched again, those   *)
(* that enter a root.                                                       *)
Depends(sub, roots) ==
  {<<e.source, e.target>> : e \in
     {f \in ToSet(sub.edges) \union UNION {ToSet(Incoming(r, AnswerKinds)) : r \in roots} :
        /\ f.kind \in AnswerKinds
        /\ f.source \in sub.nodes /\ f.target \in sub.nodes}}

Layer(deps, roots) ==
  LET W[k \in 0..Cardinality(Node)] ==
        IF k = 0 THEN roots
        ELSE LET S == W[k-1] IN S \union {p[1] : p \in {d \in deps : d[2] \in S}}
  IN W

Distance(deps, roots, n) ==
  LET W == Layer(deps, roots)
  IN Min({Far} \union {k \in DOMAIN W : n \in W[k]})

AggregateImpact(fam, depth, cap) ==
  LET sub == ImpactOf(FamilyOrder(fam), depth)
      deps == Depends(sub, fam)
      dist == [n \in sub.nodes |-> Distance(deps, fam, n)]
      class == [n \in sub.nodes |->
                  IF n \in fam THEN 0 ELSE IF \E d \in deps : d[1] = n THEN 1 ELSE 2]
      shown == {n \in sub.nodes : n \in fam \/ KindOf[n] \notin Markers}
      first(m, n) ==
        \/ class[m] < class[n]
        \/ class[m] = class[n] /\ dist[m] < dist[n]
        \/ class[m] = class[n] /\ dist[m] = dist[n] /\ Degree(m) > Degree(n)
        \/ class[m] = class[n] /\ dist[m] = dist[n] /\ Degree(m) = Degree(n) /\ m < n
      direct == {n \in shown \ fam : dist[n] <= 1}
      room == Max({cap, Min({Cardinality(fam) + Cardinality(direct), Cardinality(shown)})})
      kept == IF Cardinality(shown) <= cap THEN shown
              ELSE ToSet(Take(InOrder(shown, first), room))
  IN [nodes |-> kept, visited |-> {},
      edges |-> SelectSeq(sub.edges, LAMBDA e : e.source \in kept /\ e.target \in kept)]

-----------------------------------------------------------------------------
(* The web view: build_subgraph_response and connected_core.                *)

EdgeOnce(es) ==
  FoldLeft(LAMBDA acc, e : IF e \in ToSet(acc) THEN acc ELSE Append(acc, e), <<>>, es)

Beside(es, n) ==
  LET at == SelectSeq(es, LAMBDA e : e.source = n \/ e.target = n)
  IN [i \in 1..Len(at) |-> Other(at[i], n)]

(* Nodes are kept in the order the walk meets them until limit.              *)
KeepInTurn(kept, found, limit) ==
  FoldLeft(LAMBDA acc, n : IF n \in ToSet(acc) \/ Len(acc) >= limit THEN acc ELSE Append(acc, n),
           kept, found)

(* The cores the walk may end with: where it starts again after a component   *)
(* is the order of a HashMap.  kept holds the nodes in the order of the queue *)
(* and done of them have been popped.                                        *)
RECURSIVE Cores(_, _, _, _, _)
Cores(nodes, es, limit, kept, done) ==
  IF Len(kept) >= limit \/ nodes \subseteq ToSet(kept) THEN {ToSet(kept)}
  ELSE IF done < Len(kept)
       THEN Cores(nodes, es, limit, KeepInTurn(kept, Beside(es, kept[done + 1]), limit), done + 1)
  ELSE UNION {Cores(nodes, es, limit, Append(kept, n), done) : n \in nodes \ ToSet(kept)}

ConnectedCores(nodes, es, roots, limit) ==
  Cores(nodes, SelectSeq(es, LAMBDA e : e.source \in nodes /\ e.target \in nodes), limit,
        KeepInTurn(<<>>, SelectSeq(roots, LAMBDA r : r \in nodes), limit), 0)

Responses(sub, roots, limit, exclude) ==
  LET nodes == sub.nodes \ exclude
      es == EdgeOnce(sub.edges)
      truncated == Cardinality(nodes) > limit
  IN {[nodes |-> k, truncated |-> truncated, visited |-> {},
       edges |-> SelectSeq(es, LAMBDA e : e.source \in k /\ e.target \in k)] :
      k \in IF truncated THEN ConnectedCores(nodes, es, roots, limit) ELSE {nodes}}

(* Mutant: as many nodes as a response shows.                               *)
RouteBfsExact(start, dir, depth, maxNodes) ==
  TraverseBfs([op |-> "bfs", start |-> start, depth |-> depth, limit |-> maxNodes,
               dir |-> dir, kinds |-> AnyKind])

(* The neighborhood and impact routes: one traversal, one node over the most   *)
(* a response shows.                                                       *)
RouteBfs(start, dir, depth, maxNodes) ==
  TraverseBfs([op |-> "bfs", start |-> start, depth |-> depth, limit |-> maxNodes + 1,
               dir |-> dir, kinds |-> AnyKind])

(* The file-graph route: one hop around each node of the file, until there     *)
(* are enough.                                                             *)
FileSubgraph(f, maxNodes) ==
  FoldLeft(LAMBDA acc, n :
             IF Cardinality(acc.nodes) >= maxNodes THEN acc
             ELSE LET sub == RouteBfs(n, "both", 1, maxNodes)
                  IN [acc EXCEPT !.nodes = @ \union sub.nodes, !.edges = @ \o sub.edges],
           NoAnswer, InOrder({n \in Node : FileOf[n] = f}, LAMBDA m, n : m < n))

-----------------------------------------------------------------------------
(* find_relevant_context, from the roots its search selected: all roots, then  *)
(* a share of the budget for what lies around each, then one anchor per root.  *)

(* The order nodes around root r enter: no test files, the root's own file,   *)
(* its file node last, by line there and by kind elsewhere.                  *)
ContextOrder(r, m, n) ==
  LET key(k) == <<IF k \in TestNode THEN 1 ELSE 0,
                  IF FileOf[k] = FileOf[r] THEN 0 ELSE 1,
                  IF FileOf[k] # FileOf[r] THEN 100 - KindBonus[k]
                  ELSE IF KindOf[k] = "file" THEN 1000 ELSE LineOf[k],
                  k>>
      a == key(m)
      b == key(n)
  IN \E i \in 1..4 : a[i] < b[i] /\ \A j \in 1..(i-1) : a[j] = b[j]

Expand(acc, roots, i, nl, depth, budget) ==
  LET r == roots[i]
      window == Max({(budget - Cardinality(acc.nodes)) \div (Len(roots) + 1 - i), MinWindow})
      sub == TraverseBfs([op |-> "bfs", start |-> r, depth |-> IF nl THEN 2 ELSE depth,
                          limit |-> budget, dir |-> IF nl THEN "both" ELSE "outgoing",
                          kinds |-> AnyKind])
      fresh == InOrder(sub.nodes \ acc.nodes, LAMBDA m, n : ContextOrder(r, m, n))
  IN IF depth = 0 \/ Cardinality(acc.nodes) >= budget THEN acc
     ELSE [acc EXCEPT
             !.nodes = @ \union ToSet(Take(fresh, Min({window, budget - Cardinality(@)}))),
             !.edges = @ \o sub.edges]

Anchor(acc, r, budget) ==
  IF Cardinality(acc.nodes) >= budget THEN acc
  ELSE [acc EXCEPT !.nodes = @ \union
          SiblingAnchors([start |-> r, max |-> 1, exclude |-> acc.nodes]).nodes]

Context(roots, nl, depth, budget) ==
  LET start == [NoAnswer EXCEPT !.nodes = ToSet(roots)]
      around == FoldLeft(LAMBDA acc, i : Expand(acc, roots, i, nl, depth, budget),
                         start, [i \in 1..Len(roots) |-> i])
  IN FoldLeft(LAMBDA acc, r : Anchor(acc, r, budget), around, roots)

-----------------------------------------------------------------------------
AskNeighbours ==
  Idle /\ \E n \in Starts, bare \in BOOLEAN, op \in {"callers", "callees"}, cap \in Caps :
    \E fam \in Families(n, bare) :
      LET q == [op |-> "agg" \o op, family |-> fam, cap |-> cap]
      IN Ask(q, [NoAnswer EXCEPT !.edges = CappedNeighbours(op, fam, cap)])

AskImpact ==
  Idle /\ \E n \in Starts, bare \in BOOLEAN, depth \in Depths, cap \in Caps :
    \E fam \in Families(n, bare) :
      Ask([op |-> "aggimpact", family |-> fam, depth |-> depth, cap |-> cap],
          AggregateImpact(fam, depth, cap))

AskRoute ==
  Idle /\ \E n \in Starts, dir \in {"incoming", "both"}, depth \in Depths, most, limit \in Caps,
     x \in {{}, {2}} :
    \E r \in Responses(RouteBfs(n, dir, depth, most), <<n>>, Min({limit, most}), x) :
      Ask([op |-> "route", start |-> n, dir |-> dir, depth |-> depth, exclude |-> x,
           limit |-> Min({limit, most})], r)

AskFileGraph ==
  Idle /\ \E f \in Files, most, limit \in Caps :
    \E r \in Responses(FileSubgraph(f, most),
                       InOrder({n \in Node : FileOf[n] = f}, LAMBDA m, n : m < n),
                       Min({limit, most}), {}) :
      Ask([op |-> "filegraph", file |-> f, limit |-> Min({limit, most})], r)

AskContext ==
  Idle /\ \E roots \in RootLists, nl \in BOOLEAN, depth \in Depths \union {0}, budget \in Caps :
    Ask([op |-> "context", roots |-> roots, nl |-> nl, budget |-> budget, depth |-> depth],
        Context(roots, nl, depth, budget))

(* The answer is returned and the connection is free for another query.      *)
Reply == query # NoQuery /\ query' = NoQuery /\ answer' = NoAnswer /\ UNCHANGED edges

Init ==
  /\ \E p \in Pools : \E rows \in SUBSET (1..Len(p)) :
       edges = LET order == InOrder(rows, LAMBDA i, j : i < j)
               IN [i \in 1..Len(order) |-> p[order[i]]]
  /\ query = NoQuery /\ answer = NoAnswer

Next ==
  \/ AskBfs \/ AskDfs
  \/ AskReach("callers") \/ AskReach("callees") \/ AskReach("impact")
  \/ AskTypes \/ AskPath \/ AskUsages \/ AskChildren \/ AskAncestors \/ AskAnchors
  \/ AskCycles \/ AskNeighbours \/ AskImpact \/ AskRoute \/ AskFileGraph \/ AskContext
  \/ Reply

Spec == Init /\ [][Next]_vars

-----------------------------------------------------------------------------
(***************************************************************************)
(* What the answers of GraphAnswers promise, against reachability as sets   *)
(* of nodes: no queue, no mark, no order of rows.                           *)
(***************************************************************************)

Asked(op) == query # NoQuery /\ query.op = op

(* Step relations: who is one hop from a node.                              *)
Beyond(dir, kinds) ==
  [n \in Node |->
    {e.target : e \in {f \in ToSet(edges) : f.source = n /\ f.kind \in kinds /\ dir # "incoming"}}
      \union
    {e.source : e \in {f \in ToSet(edges) : f.target = n /\ f.kind \in kinds /\ dir # "outgoing"}}]

(* Distances[k]: the nodes at most k hops from n.                           *)
Distances(step, n) ==
  LET W[k \in 0..Cardinality(Node)] ==
        IF k = 0 THEN {n} ELSE LET S == W[k-1] IN S \union UNION {step[m] : m \in S}
  IN W
Within(step, n, k) == Distances(step, n)[IF k < Cardinality(Node) THEN k ELSE Cardinality(Node)]
Reach(step, n) == Within(step, n, Cardinality(Node))
Hops(step, n, m) ==
  CHOOSE k \in 0..Cardinality(Node) :
    m \in Within(step, n, k) /\ (k > 0 => m \notin Within(step, n, k - 1))

Ends(es) == {e.source : e \in ToSet(es)} \union {e.target : e \in ToSet(es)}

-----------------------------------------------------------------------------
(* traverse_bfs finds exactly the nodes within max_depth unless the limit     *)
(* stopped it, and one edge for each but the start, from one hop closer: the   *)
(* many entries a node may have in the queue leave one tree.                  *)
BfsExact ==
  Asked("bfs") =>
    LET step == Beyond(query.dir, query.kinds)
        near == Within(step, query.start, query.depth)
        dist == [m \in near |-> Hops(step, query.start, m)]
    IN /\ answer.nodes \subseteq near
       /\ answer.nodes = near \/ Cardinality(answer.nodes) >= query.limit
       /\ Cardinality(near) < query.limit => Len(answer.edges) = Cardinality(near) - 1
       /\ Ends(answer.edges) \subseteq answer.nodes
       /\ \A m \in near \ {query.start} :
            LET into == {i \in 1..Len(answer.edges) :
                           \E k \in near : /\ Ends(<<answer.edges[i]>>) = {k, m}
                                           /\ dist[k] + 1 = dist[m]}
            IN Cardinality(near) < query.limit => into # {}

(* traverse_dfs goes no further than max_depth, and reaches everything when     *)
(* neither depth nor limit cuts it; each node is found over an edge that is in  *)
(* the answer.                                                              *)
DfsSound ==
  Asked("dfs") =>
    LET step == Beyond(query.dir, query.kinds)
    IN /\ answer.nodes \subseteq Within(step, query.start, query.depth)
       /\ query.depth >= Cardinality(Node) /\ query.limit > Cardinality(Node) =>
            answer.nodes = Reach(step, query.start)
       /\ answer.nodes \subseteq {query.start} \union Ends(answer.edges)

(* get_ancestors climbs a chain that ends: where a node has one container, the  *)
(* chain is all that contains the start, and a cycle stops it.               *)
ChainClosed ==
  Asked("chain") =>
    LET up == Beyond("incoming", {"contains"})
        all == UNION {Reach(up, m) : m \in up[query.start]}
    IN /\ answer.nodes \subseteq all
       /\ (\A n \in Node : Cardinality(up[n]) <= 1) => answer.nodes = all
       /\ Len(answer.edges) = Cardinality(answer.nodes)

(* get_callers and get_callees: every node one hop away is named, each by an   *)
(* edge that leads on from one named before, no row twice, nothing beyond     *)
(* max_depth, and all of it once the depth does not cut the walk.             *)
NeighboursFound ==
  \A op \in {"callers", "callees"} :
    Asked(op) =>
      LET step == Beyond(IF op = "callers" THEN "incoming" ELSE "outgoing", Flow)
          found(i) == IF op = "callers" THEN answer.edges[i].source ELSE answer.edges[i].target
          from(i) == IF op = "callers" THEN answer.edges[i].target ELSE answer.edges[i].source
          named == {found(i) : i \in 1..Len(answer.edges)}
      IN /\ named \subseteq Within(step, query.start, query.depth) \ {query.start}
         /\ step[query.start] \ {query.start} \subseteq named
         /\ query.depth >= Cardinality(Node) => named = Reach(step, query.start) \ {query.start}
         /\ \A i, j \in 1..Len(answer.edges) : i # j => answer.edges[i] # answer.edges[j]
         /\ \A i \in 1..Len(answer.edges) :
              from(i) = query.start \/ \E j \in 1..(i-1) : found(j) = from(i)

(* Who depends on a node, for get_impact_radius: the sources of the edges into *)
(* it, and its members if it is a container.                                *)
DependsOn ==
  [n \in Node |->
    Beyond("incoming", AnyKind)[n]
      \union (IF KindOf[n] \in Containers THEN Beyond("outgoing", {"contains"})[n] ELSE {})]

(* The impact of a node is part of what depends on it, holds every direct      *)
(* dependant and member, and all dependants once the depth does not cut it:    *)
(* the two marks, nodes and visited, leave no part of the graph unentered.    *)
ImpactCovers ==
  Asked("impact") =>
    /\ answer.nodes \subseteq Reach(DependsOn, query.start)
    /\ DependsOn[query.start] \subseteq answer.nodes
    /\ query.depth >= Cardinality(Node) => answer.nodes = Reach(DependsOn, query.start)
    /\ Ends(answer.edges) \subseteq answer.nodes

(* get_type_hierarchy is all supertypes and all subtypes, each once, in a      *)
(* hierarchy that has no cycle: a subtype met on the way up would be lost.     *)
HierarchyExact ==
  Asked("types") =>
    LET up == Reach(Beyond("outgoing", TypeEdges), query.start)
        down == Reach(Beyond("incoming", TypeEdges), query.start)
    IN /\ up \intersect down = {query.start} => answer.nodes = up \union down
       /\ Len(answer.edges) = Cardinality(answer.nodes) - 1

(* find_path is a path from start to goal, no other is shorter, and there is    *)
(* none only if the goal cannot be reached.                                 *)
PathShortest ==
  Asked("path") =>
    LET step == Beyond("outgoing", query.kinds)
        p == answer.edges
    IN IF query.goal \notin Reach(step, query.start) THEN answer = NoAnswer
       ELSE /\ answer.nodes # {}
            /\ Len(p) = Hops(step, query.start, query.goal)
            /\ \A i \in 1..Len(p) :
                 p[i].source = IF i = 1 THEN query.start ELSE p[i-1].target
            /\ p # <<>> => p[Len(p)].target = query.goal

(* find_circular_dependencies names only cycles, and one in each knot of files *)
(* that import each other.                                                  *)
CyclesFound ==
  Asked("cycles") =>
    LET step == [f \in Files |-> ToSet(ImportedFiles(f))]
        W[k \in 0..Cardinality(Files), f \in Files] ==
          IF k = 0 THEN step[f] ELSE LET S == W[k-1, f] IN S \union UNION {step[g] : g \in S}
        after(f) == W[Cardinality(Files), f]
        cycles == answer.edges
    IN /\ \A i \in 1..Len(cycles) : \A j \in 1..Len(cycles[i]) :
            cycles[i][(j % Len(cycles[i])) + 1] \in step[cycles[i][j]]
       /\ \A f \in Files : f \in after(f) =>
            \E i \in 1..Len(cycles) : \A j \in 1..Len(cycles[i]) :
              cycles[i][j] \in after(f) /\ f \in after(cycles[i][j])

-----------------------------------------------------------------------------
(* get_impact_aggregated keeps every direct dependant of the family, over any  *)
(* budget, and no marker; beyond the budget it keeps no more than those.       *)
DirectAnswersSurvive ==
  Asked("aggimpact") =>
    LET direct == {e.source : e \in {f \in ToSet(edges) : f.target \in query.family
                                                         /\ f.kind \in AnswerKinds}}
        markers == {n \in Node : KindOf[n] \in Markers}
    IN /\ query.family \subseteq answer.nodes
       /\ direct \ (markers \ query.family) \subseteq answer.nodes
       /\ answer.nodes \intersect markers \subseteq query.family
       /\ Cardinality(answer.nodes)
            <= Max({query.cap, Cardinality(query.family \union direct)})
       /\ Ends(answer.edges) \subseteq answer.nodes

(* A capped list of callers or callees names a test only when no production    *)
(* neighbour is left out, and is short only when there are no more.           *)
ProductionFirst ==
  \A op \in {"callers", "callees"} :
    Asked("agg" \o op) =>
      LET dir == IF op = "callers" THEN "incoming" ELSE "outgoing"
          all == UNION {Beyond(dir, Flow)[f] \ {f} : f \in query.family}
          shown == ToSet(answer.edges)
      IN /\ shown \subseteq all
         /\ Cardinality(shown) = Min({query.cap, Cardinality(all)})
         /\ shown \intersect TestNode # {} => all \ TestNode \subseteq shown

(* A response of the neighborhood or impact route that excludes nothing and    *)
(* does not say it is truncated shows everything within the depth; a response  *)
(* of the file-graph route does so if it has fewer nodes than it may show.    *)
TruncationTold ==
  /\ Asked("route") /\ query.exclude = {} /\ ~answer.truncated =>
       answer.nodes = Within(Beyond(query.dir, AnyKind), query.start, query.depth)
  /\ Asked("filegraph") /\ ~answer.truncated /\ Cardinality(answer.nodes) < query.limit =>
       \A n \in Node : FileOf[n] = query.file =>
         Within(Beyond("both", AnyKind), n, 1) \subseteq answer.nodes

(* A truncated response stays a connected core: of the edges the traversal     *)
(* found, those shown join all its nodes to the start, unless everything       *)
(* joined to the start is shown.                                            *)
CoreConnected ==
  Asked("route") /\ query.exclude = {} /\ query.limit > 0 =>
    LET step(es) == [n \in Node |-> {e.target : e \in {f \in ToSet(es) : f.source = n}}
                              \union {e.source : e \in {f \in ToSet(es) : f.target = n}}]
        joined == Reach(step(answer.edges), query.start)
    IN /\ Cardinality(answer.nodes) <= Max({query.limit, 1})
       /\ query.start \in answer.nodes
       /\ joined # answer.nodes =>
            \A e \in ToSet(RouteBfs(query.start, query.dir, query.depth, query.limit).edges) :
              e.source \in joined <=> e.target \in joined

(* Context keeps every selected root and adds only what the budget leaves.     *)
(* While there is budget left at the end, each root has what lies around it,    *)
(* or a window of it: roots expanded first do not starve those after them.     *)
ContextBounded ==
  Asked("context") =>
    LET roots == ToSet(query.roots)
        around(r) == IF query.nl THEN Within(Beyond("both", AnyKind), r, 2)
                     ELSE Within(Beyond("outgoing", AnyKind), r, query.depth)
    IN /\ roots \subseteq answer.nodes
       /\ Cardinality(answer.nodes) <= Max({query.budget, Cardinality(roots)})
       /\ query.depth > 0 /\ Cardinality(answer.nodes) < query.budget =>
            \A r \in roots :
              \/ around(r) \subseteq answer.nodes
              \/ Cardinality((around(r) \intersect answer.nodes) \ roots) >= MinWindow

-----------------------------------------------------------------------------
(* The properties above, by what they are about. *)

(* The traversals (traversal.rs, storage_impl.rs) find what can be reached as    *)
(* they are asked: bfs, the shortest path and the import cycles exactly that;    *)
(* dfs nothing else, and under a cut of the depth perhaps not all of it.         *)
TraversalsExact == BfsExact /\ DfsSound /\ PathShortest /\ CyclesFound

(* Whoever a change can concern is named: impact, callers and callees, the      *)
(* containers of a node and its type hierarchy.                              *)
DependantsFound == ImpactCovers /\ NeighboursFound /\ ChainClosed /\ HierarchyExact

(* A budget takes from an answer what matters least: direct dependants, roots   *)
(* and production code stay.                                                *)
BudgetsKept == DirectAnswersSurvive /\ ProductionFirst /\ ContextBounded

(* What the routes of the graph view show is all there is, or says that it is    *)
(* not and is connected.                                                   *)
ViewsHonest == TruncationTold /\ CoreConnected
=============================================================================
