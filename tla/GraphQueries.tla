---------------------------- MODULE GraphQueries ----------------------------
(***************************************************************************)
(* The queries of GraphTraverser over the rows of nodes and edges           *)
(* (codewiki-storage/src/graph/traversal.rs).  A connection answers one      *)
(* query at a time from a graph that does not change under it.              *)
(*                                                                         *)
(* The depth-first functions of the code share a scheme: fetch the edges at  *)
(* a node, and for each of them, in row order, test a mark, record node and  *)
(* edge, and recurse.  Here the recursion is a work list: entering a node    *)
(* puts its edges in front of what its callers have left to do.             *)
(***************************************************************************)
EXTENDS Integers, Sequences, SequencesExt, FiniteSets, FiniteSetsExt

CONSTANTS
  Node,        \* ids, ordered as the strings are
  KindOf,      \* the node kind of an id
  FileOf,      \* the file it is defined in
  LineOf,      \* its start_line
  Pools,       \* sequences of edge rows; a graph is a part of one of them
  Depths,      \* values of max_depth
  Limits       \* values of limit

VARIABLES edges, query, answer

vars == <<edges, query, answer>>

NoQuery == [op |-> "none"]
NoAnswer == [nodes |-> {}, visited |-> {}, edges |-> <<>>]

Flow == {"calls", "references", "imports"}
TypeEdges == {"extends", "implements"}
AnyKind == {e.kind : e \in UNION {ToSet(p) : p \in Pools}}
Containers == {"class", "interface", "struct", "trait", "protocol", "module", "enum"}

(* get_outgoing_edges and get_incoming_edges.  SQL leaves the order of the   *)
(* rows open; instances that number nodes or edges otherwise try others.    *)
Outgoing(n, kinds) == SelectSeq(edges, LAMBDA e : e.source = n /\ e.kind \in kinds)
Incoming(n, kinds) == SelectSeq(edges, LAMBDA e : e.target = n /\ e.kind \in kinds)

(* get_adjacent_edges.  Both repeats a self-loop, which nothing follows.    *)
Adjacent(n, dir, kinds) ==
  CASE dir = "outgoing" -> Outgoing(n, kinds)
    [] dir = "incoming" -> Incoming(n, kinds)
    [] dir = "both"     -> Outgoing(n, kinds) \o Incoming(n, kinds)

(* A set as a sequence, by a strict total order.                            *)
InOrder(S, before(_, _)) ==
  [i \in 1..Cardinality(S) |->
    CHOOSE x \in S : Cardinality({y \in S : before(y, x)}) = i - 1]

Other(e, n) == IF e.source = n THEN e.target ELSE e.source

-----------------------------------------------------------------------------
(* traverse_bfs.                                                           *)

SortRank(e) == CASE e.kind = "contains" -> 0 [] e.kind = "calls" -> 1 [] OTHER -> 2

(* sort_by_key is stable.                                                  *)
Ranked(es) ==
  SelectSeq(es, LAMBDA e : SortRank(e) = 0)
    \o SelectSeq(es, LAMBDA e : SortRank(e) = 1)
    \o SelectSeq(es, LAMBDA e : SortRank(e) = 2)

AtLimit(q, acc) == Cardinality(acc.nodes) >= q.limit

RECURSIVE BfsLoop(_, _, _)
BfsLoop(q, acc, queue) ==
  IF queue = <<>> \/ AtLimit(q, acc) THEN acc
  ELSE LET step == Head(queue)
           seen == acc.visited \union {step.node}
           next == SelectSeq(Ranked(Adjacent(step.node, q.dir, q.kinds)),
                             LAMBDA e : Other(e, step.node) \notin seen)
           here == [acc EXCEPT !.visited = seen, !.edges = @ \o step.edge]
       IN IF step.node \in acc.visited THEN BfsLoop(q, acc, Tail(queue))
          ELSE IF step.depth >= q.depth THEN BfsLoop(q, here, Tail(queue))
          ELSE BfsLoop(q,
                 [here EXCEPT !.nodes = @ \union {Other(e, step.node) : e \in ToSet(next)}],
                 Tail(queue) \o [i \in 1..Len(next) |->
                   [node |-> Other(next[i], step.node), edge |-> <<next[i]>>,
                    depth |-> step.depth + 1]])

TraverseBfs(q) ==
  BfsLoop(q, [NoAnswer EXCEPT !.nodes = {q.start}],
          << [node |-> q.start, edge |-> <<>>, depth |-> 0] >>)

-----------------------------------------------------------------------------
(* The depth-first queries.  An item of the work list is an edge to follow,  *)
(* the node it leads to, the depth the recursion would enter it with, and    *)
(* the mark (visited, or the nodes recorded so far) that makes it skipped.   *)

Items(es, end, depth, mark) ==
  [i \in 1..Len(es) |-> [edge |-> es[i], node |-> end[i], depth |-> depth, mark |-> mark]]
Sources(es) == [i \in 1..Len(es) |-> es[i].source]
Targets(es) == [i \in 1..Len(es) |-> es[i].target]

(* dfs_recursive, which follows edges in the directions asked for.          *)
DfsItems(q, n, depth) ==
  LET es == Adjacent(n, q.dir, q.kinds)
  IN Items(es, [i \in 1..Len(es) |-> Other(es[i], n)], depth + 1, "visited")

CallerItems(n, depth) ==
  Items(Incoming(n, Flow), Sources(Incoming(n, Flow)), depth + 1, "visited")

CalleeItems(n, depth) ==
  Items(Outgoing(n, Flow), Targets(Outgoing(n, Flow)), depth + 1, "visited")

(* Mutant: the members of a container are left out.                        *)
ImpactItemsAlone(n, depth) ==
  Items(Incoming(n, AnyKind), Sources(Incoming(n, AnyKind)), depth + 1, "nodes")

(* impact_recursive: the members of a container first, at the same depth.   *)
ImpactItems(n, depth) ==
  LET in == Incoming(n, AnyKind)
      members == IF KindOf[n] \in Containers THEN Outgoing(n, {"contains"}) ELSE <<>>
  IN Items(members, Targets(members), depth, "visited")
       \o Items(in, Sources(in), depth + 1, "nodes")

AncestorItems(n) ==
  Items(Outgoing(n, TypeEdges), Targets(Outgoing(n, TypeEdges)), 0, "nodes")

DescendantItems(n) ==
  Items(Incoming(n, TypeEdges), Sources(Incoming(n, TypeEdges)), 0, "nodes")

ItemsAt(q, n, depth) ==
  CASE q.op = "dfs"         -> DfsItems(q, n, depth)
    [] q.op = "callers"     -> CallerItems(n, depth)
    [] q.op = "callees"     -> CalleeItems(n, depth)
    [] q.op = "impact"      -> ImpactItems(n, depth)
    [] q.op = "ancestors"   -> AncestorItems(n)
    [] q.op = "descendants" -> DescendantItems(n)

(* The early returns at the entry of each recursive function.               *)
Refused(q, acc, n, depth) ==
  \/ n \in acc.visited
  \/ q.op \in {"dfs", "callers", "callees", "impact"} /\ depth >= q.depth
  \/ q.op = "dfs" /\ AtLimit(q, acc)

RECURSIVE Descend(_, _, _)
Descend(q, acc, work) ==
  IF work = <<>> THEN acc
  ELSE LET item == Head(work)
           taken == [acc EXCEPT !.nodes = @ \union {item.node},
                                !.edges = Append(@, item.edge)]
       IN IF item.node \in acc[item.mark] THEN Descend(q, acc, Tail(work))
          ELSE IF Refused(q, taken, item.node, item.depth)
               THEN Descend(q, taken, Tail(work))
          ELSE Descend(q, [taken EXCEPT !.visited = @ \union {item.node}],
                       ItemsAt(q, item.node, item.depth) \o Tail(work))

Enter(q, acc) ==
  IF Refused(q, acc, q.start, 0) THEN acc
  ELSE Descend(q, [acc EXCEPT !.visited = @ \union {q.start}], ItemsAt(q, q.start, 0))

DepthFirst(q) == Enter(q, [NoAnswer EXCEPT !.nodes = {q.start}])

(* get_type_hierarchy clears visited between its walks, and keeps nodes.    *)
TypeHierarchy(q) ==
  LET up == Enter([q EXCEPT !.op = "ancestors"], [NoAnswer EXCEPT !.nodes = {q.start}])
  IN Enter([q EXCEPT !.op = "descendants"], [up EXCEPT !.visited = {}])

-----------------------------------------------------------------------------
(* find_path: a queue of paths; the answer's edges are the path found.      *)
RECURSIVE PathLoop(_, _, _)
PathLoop(q, visited, queue) ==
  IF queue = <<>> THEN NoAnswer
  ELSE LET at == Head(queue).node
           path == Head(queue).path
           next == SelectSeq(Outgoing(at, q.kinds),
                             LAMBDA e : e.target \notin visited \union {at})
       IN IF at = q.goal
          THEN [nodes |-> {q.start} \union {e.target : e \in ToSet(path)},
                visited |-> visited, edges |-> path]
          ELSE IF at \in visited THEN PathLoop(q, visited, Tail(queue))
          ELSE PathLoop(q, visited \union {at},
                 Tail(queue) \o [i \in 1..Len(next) |->
                   [node |-> next[i].target, path |-> Append(path, next[i])]])

(* Mutant: the start is marked when it is queued.                            *)
FindPathMarked(q) == PathLoop(q, {q.start}, << [node |-> q.start, path |-> <<>>] >>)

FindPath(q) == PathLoop(q, {}, << [node |-> q.start, path |-> <<>>] >>)

(* find_usages and get_children: one hop.                                  *)
Usages(q) == [NoAnswer EXCEPT !.nodes = ToSet(Sources(Incoming(q.start, AnyKind))),
                              !.edges = Incoming(q.start, AnyKind)]

Children(q) ==
  LET es == Outgoing(q.start, {"contains"})
  IN [NoAnswer EXCEPT !.nodes = ToSet(Targets(es)), !.edges = es]

(* get_ancestors follows the first containing edge of each node.            *)
RECURSIVE AncestorLoop(_, _)
AncestorLoop(n, acc) ==
  LET up == Incoming(n, {"contains"})
      seen == [acc EXCEPT !.visited = @ \union {n}]
  IN IF n \in acc.visited \/ up = <<>> THEN seen
     ELSE AncestorLoop(up[1].source,
            [seen EXCEPT !.nodes = @ \union {up[1].source}, !.edges = Append(@, up[1])])

Containment(q) == AncestorLoop(q.start, NoAnswer)

(* sibling_anchors: siblings by line and id, then types that are neither.    *)
ByLine(S) ==
  InOrder(S, LAMBDA m, n : LineOf[m] < LineOf[n] \/ (LineOf[m] = LineOf[n] /\ m < n))

Siblings(q) ==
  LET up == Incoming(q.start, {"contains"})
  IN IF up = <<>> THEN {}
     ELSE ToSet(Targets(Outgoing(up[1].source, {"contains"}))) \ ({q.start} \union q.exclude)

TypeAnchors(q) ==
  (ToSet(Targets(Outgoing(q.start, TypeEdges)))
     \union ToSet(Sources(Incoming(q.start, TypeEdges))))
    \ ({q.start} \union q.exclude \union Siblings(q))

SiblingAnchors(q) ==
  LET both == ByLine(Siblings(q)) \o ByLine(TypeAnchors(q))
      cut == SubSeq(both, 1, IF Len(both) < q.max THEN Len(both) ELSE q.max)
  IN [NoAnswer EXCEPT !.nodes = ToSet(cut)]

-----------------------------------------------------------------------------
(* find_circular_dependencies: depth-first over files.  A frame is a file     *)
(* and the imports it has left to follow; the stack of frames is both the     *)
(* recursion stack and the path of the code.                                *)

FileNode(f) == {n \in Node : KindOf[n] = "file" /\ FileOf[n] = f}

ImportedFiles(f) ==
  IF FileNode(f) = {} THEN <<>>
  ELSE LET es == Outgoing(Min(FileNode(f)), {"imports"})
       IN SelectSeq([i \in 1..Len(es) |-> FileOf[es[i].target]], LAMBDA g : g # f)

PathFrom(stack, f) ==
  LET files == [i \in 1..Len(stack) |-> stack[i].file]
  IN SubSeq(files, CHOOSE i \in 1..Len(files) : files[i] = f, Len(files))

RECURSIVE CycleDfs(_, _, _)
CycleDfs(visited, stack, cycles) ==
  IF stack = <<>> THEN [visited |-> visited, cycles |-> cycles]
  ELSE LET top == Last(stack)
           f == Head(top.left)
           rest == Append(Front(stack), [top EXCEPT !.left = Tail(@)])
       IN IF top.left = <<>> THEN CycleDfs(visited, Front(stack), cycles)
          ELSE IF \E i \in 1..Len(stack) : stack[i].file = f
               THEN CycleDfs(visited, rest, Append(cycles, PathFrom(stack, f)))
          ELSE IF f \in visited THEN CycleDfs(visited, rest, cycles)
          ELSE CycleDfs(visited \union {f},
                        Append(rest, [file |-> f, left |-> ImportedFiles(f)]), cycles)

Files == {FileOf[n] : n \in Node}

RECURSIVE CyclesFrom(_, _, _)
CyclesFrom(todo, visited, cycles) ==
  IF todo = <<>> THEN cycles
  ELSE IF Head(todo) \in visited THEN CyclesFrom(Tail(todo), visited, cycles)
  ELSE LET f == Head(todo)
           walk == CycleDfs(visited \union {f},
                            << [file |-> f, left |-> ImportedFiles(f)] >>, cycles)
       IN CyclesFrom(Tail(todo), walk.visited, walk.cycles)

Circular(q) ==
  [NoAnswer EXCEPT !.edges = CyclesFrom(InOrder(Files, LAMBDA f, g : f < g), {}, <<>>)]

-----------------------------------------------------------------------------
Idle == query = NoQuery

Ask(q, result) == query' = q /\ answer' = result /\ UNCHANGED edges

AskBfs ==
  Idle /\ \E n \in Node, d \in Depths, l \in Limits, dir \in {"outgoing", "incoming", "both"},
     kinds \in {AnyKind, {"calls"}} :
    LET q == [op |-> "bfs", start |-> n, depth |-> d, limit |-> l, dir |-> dir,
              kinds |-> kinds]
    IN Ask(q, TraverseBfs(q))

AskDfs ==
  Idle /\ \E n \in Node, d \in Depths, l \in Limits, dir \in {"outgoing", "both"} :
    LET q == [op |-> "dfs", start |-> n, depth |-> d, limit |-> l, dir |-> dir,
              kinds |-> AnyKind]
    IN Ask(q, DepthFirst(q))

AskReach(op) ==
  Idle /\ \E n \in Node, d \in Depths :
    LET q == [op |-> op, start |-> n, depth |-> d] IN Ask(q, DepthFirst(q))

AskTypes ==
  Idle /\ \E n \in Node : LET q == [op |-> "types", start |-> n] IN Ask(q, TypeHierarchy(q))

AskPath ==
  Idle /\ \E n, m \in Node : LET q == [op |-> "path", start |-> n, goal |-> m, kinds |-> AnyKind]
                     IN Ask(q, FindPath(q))

AskUsages == Idle /\ \E n \in Node : LET q == [op |-> "usages", start |-> n] IN Ask(q, Usages(q))

AskChildren == Idle /\ \E n \in Node : LET q == [op |-> "children", start |-> n] IN Ask(q, Children(q))

AskAncestors ==
  Idle /\ \E n \in Node : LET q == [op |-> "chain", start |-> n] IN Ask(q, Containment(q))

AskAnchors ==
  Idle /\ \E n \in Node, m \in Limits, x \in {{}} \union {{k} : k \in Node} :
    LET q == [op |-> "anchors", start |-> n, max |-> m, exclude |-> x]
    IN Ask(q, SiblingAnchors(q))

AskCycles == Idle /\ LET q == [op |-> "cycles"] IN Ask(q, Circular(q))
=============================================================================
