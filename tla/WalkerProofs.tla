---------------------------- MODULE WalkerProofs ----------------------------
(***************************************************************************)
(* AstWalker: the batch of any file can be stored, whatever tree it has,   *)
(* where no two declarations of one kind and name stand on one line and    *)
(* the types that a hook knows have names (BatchesStore).  The walk comes  *)
(* to every node of the tree at most once (Seen), so that each declaration *)
(* has an id of its own; what a hook adds at a type starts at the id which *)
(* the walk gives that type in the same step.                              *)
(*                                                                         *)
(* The scopes on the stack are those of the text (ScopesAreKept): at each  *)
(* node to come the scope in force is what stands for the innermost        *)
(* declaration around it (Levels, Placed), and it has the name of the path *)
(* of Contains edges that leads to it (Titled, Joined).                    *)
(*                                                                         *)
(* A comment documents the declaration next below it (CommentsAreNext):    *)
(* what extract_docstring takes stands right above (Documents), and the    *)
(* walk goes down the text, so that it takes no comment twice (Onwards).   *)
(***************************************************************************)
EXTENDS AstWalker, SequenceTheorems, FiniteSetTheorems, WellFoundedInduction, TLAPS

-----------------------------------------------------------------------------
(* Nodes in document order. *)

LEMMA LeastOf ==
  ASSUME NEW S \in SUBSET Nat, S # {}
  PROVE  \E m \in S : \A x \in S : m <= x
<1> DEFINE R == OpToRel(<, Nat)
<1>1. IsWellFoundedOn(R, Nat)
  BY NatLessThanWellFounded
<1>2. \A x, y \in Nat : <<x, y>> \in R <=> x < y
  BY DEF OpToRel
<1> HIDE DEF R
<1>3. PICK m \in S : \A x \in S : <<x, m>> \notin R
  BY <1>1, WFMin
<1>4. ASSUME NEW x \in S PROVE m <= x
  <2>1. x \in Nat /\ m \in Nat /\ <<x, m>> \notin R
    BY <1>3
  <2> QED BY <1>2, <2>1
<1> QED BY <1>4

Sorted(s, S) ==
  /\ s \in [1..Cardinality(S) -> S]
  /\ \A i, j \in 1..Cardinality(S) : i < j => s[i] < s[j]

(* A finite set of numbers can be put in order: the least first, then the    *)
(* others.  (A smallest set that cannot would lose its least element.)       *)
LEMMA SortedExists ==
  ASSUME NEW S \in SUBSET Nat, IsFiniteSet(S)
  PROVE  \E s : Sorted(s, S)
<1> DEFINE Bad(n) == \E T \in SUBSET Nat : /\ IsFiniteSet(T) /\ Cardinality(T) = n
                                           /\ ~\E s : Sorted(s, T)
           U == {n \in Nat : Bad(n)}
<1> SUFFICES ASSUME ~\E s : Sorted(s, S) PROVE FALSE
  OBVIOUS
<1>1. Cardinality(S) \in U
  BY FS_CardinalityType
<1>2. PICK n \in U : \A k \in U : n <= k
  <2>1. U \in SUBSET Nat /\ U # {}
    BY <1>1
  <2> HIDE DEF U
  <2> QED BY <2>1, LeastOf
<1>3. PICK T \in SUBSET Nat : IsFiniteSet(T) /\ Cardinality(T) = n /\ ~\E s : Sorted(s, T)
  BY <1>2
<1>4. T # {}
  <2> SUFFICES ASSUME T = {} PROVE FALSE
    OBVIOUS
  <2>1. Cardinality(T) = 0
    BY FS_EmptySet
  <2>2. Sorted([i \in 1..0 |-> 0], T)
    BY <2>1 DEF Sorted
  <2> QED BY <1>3, <2>2
<1>5. PICK m \in T : \A x \in T : m <= x
  BY <1>4, LeastOf
<1> DEFINE rest == T \ {m}
<1>6. IsFiniteSet(rest) /\ Cardinality(rest) = n - 1 /\ n \in Nat /\ n - 1 \in Nat
  <2>1. IsFiniteSet(rest) /\ Cardinality(rest) = Cardinality(T) - 1
    BY <1>3, <1>5, FS_RemoveElement
  <2>2. Cardinality(rest) \in Nat
    BY <2>1, FS_CardinalityType
  <2> QED BY <1>2, <1>3, <2>1, <2>2
<1>7. n - 1 \notin U
  BY <1>2, <1>6
<1>8. PICK s : Sorted(s, rest)
  <2>1. rest \in SUBSET Nat
    BY <1>3
  <2> HIDE DEF rest
  <2> QED BY <1>6, <1>7, <2>1
<1> DEFINE f == [i \in 1..n |-> IF i = 1 THEN m ELSE s[i - 1]]
<1>9. \A i \in 1..n : i # 1 => i - 1 \in 1..(n - 1)
  BY <1>6
<1>10. \A i \in 1..(n - 1) : s[i] \in rest
  BY <1>6, <1>8 DEF Sorted
<1>11. f \in [1..n -> T]
  BY <1>5, <1>9, <1>10
<1>12. ASSUME NEW i \in 1..n, NEW j \in 1..n, i < j
       PROVE  f[i] < f[j]
  <2>1. f[j] = s[j - 1] /\ j - 1 \in 1..(n - 1) /\ s[j - 1] \in rest
    BY <1>9, <1>10, <1>12
  <2>2. CASE i = 1
    <3>1. m <= s[j - 1] /\ m # s[j - 1] /\ m \in Nat /\ s[j - 1] \in Nat
      BY <1>3, <1>5, <2>1
    <3> QED BY <2>1, <2>2, <3>1
  <2>3. CASE i # 1
    <3>1. i - 1 \in 1..(n - 1) /\ i - 1 < j - 1
      BY <1>9, <1>12, <2>3
    <3>2. s[i - 1] < s[j - 1]
      BY <1>6, <1>8, <2>1, <3>1 DEF Sorted
    <3> QED BY <2>1, <2>3, <3>2
  <2> QED BY <2>2, <2>3
<1>13. Sorted(f, T)
  <2> HIDE DEF f
  <2> QED BY <1>3, <1>11, <1>12 DEF Sorted
<1> QED BY <1>3, <1>13

(* What InOrder gives: each node of the set once, and nothing else.          *)
LEMMA InOrderIs ==
  ASSUME NEW S \in SUBSET Nat, IsFiniteSet(S)
  PROVE  /\ InOrder(S) \in Seq(S)
         /\ \A i, j \in 1..Len(InOrder(S)) : InOrder(S)[i] = InOrder(S)[j] => i = j
         /\ Len(InOrder(S)) = Cardinality(S)
<1> DEFINE s == InOrder(S)
           n == Cardinality(S)
<1>0. n \in Nat
  BY FS_CardinalityType
<1>1. Sorted(s, S)
  <2>1. \E x \in [1..n -> S] : \A i, j \in 1..n : i < j => x[i] < x[j]
    BY SortedExists DEF Sorted
  <2> QED BY <2>1 DEF InOrder, Sorted
<1> HIDE DEF s
<1>2. s \in Seq(S) /\ Len(s) = n
  <2>1. s \in [1..n -> S]
    BY <1>1 DEF Sorted
  <2> QED BY <1>0, <2>1
<1>3. ASSUME NEW i \in 1..n, NEW j \in 1..n, s[i] = s[j]
      PROVE  i = j
  <2>1. s[i] \in Nat /\ s[j] \in Nat
    BY <1>1 DEF Sorted
  <2>2. CASE i < j
    BY <1>1, <1>3, <2>1, <2>2 DEF Sorted
  <2>3. CASE j < i
    BY <1>1, <1>3, <2>1, <2>3 DEF Sorted
  <2> QED BY <1>0, <2>2, <2>3
<1> QED BY <1>2, <1>3 DEF s

-----------------------------------------------------------------------------
(* What may declare what. *)

DeclaredKinds == ScopeKinds \cup {"Variable", "Property", "Field"}

(* No two declarations of one kind and name stand on one line: their ids     *)
(* would be the same.                                                       *)
LinesApart ==
  \A t \in Trees : \A m, n \in Node(t), kind \in DeclaredKinds :
    (/\ MayBe(t, m, kind) /\ MayBe(t, n, kind)
     /\ t.line[m] = t.line[n] /\ Path(t, m) = Path(t, n) /\ Path(t, m) # <<0>>) => m = n

(* Where a hook computes the id of a type, the grammar gives the type a name. *)
TypesNamed ==
  \A t \in Trees : \A n \in Node(t) :
    LET L == Config[t.lang]
    IN  t.lang \in {"TypeScript", "CSharp"} /\ t.kind[n] \in L.class \cup L.struct \cup L.interface
          => t.name[n] # 0

\* File-scoped namespaces, which are declared before the walk comes to them.
FileScoped(t) ==
  {n \in Node(t) : /\ t.kind[n] = "file_scoped_namespace_declaration"
                   /\ Config[t.lang].namespace # {}}

-----------------------------------------------------------------------------
(* The inductive invariant. *)

Listed(s) == \E S : s \in Seq(S)

(* V: the nodes the walk has been at, or that were declared with their       *)
(* parent.  What is left to walk hangs below them, each node once.           *)
Seen(t, V, list) ==
  /\ V \in SUBSET Node(t)
  /\ \A n \in V : n = 1 \/ t.up[n] \in V
  /\ list \in Seq(Node(t) \cup {Pop})
  /\ \A i \in 1..Len(list) :
       list[i] # Pop => list[i] \notin V /\ (list[i] = 1 \/ t.up[list[i]] \in V)
  /\ \A i, j \in 1..Len(list) : list[i] = list[j] /\ list[i] # Pop => i = j

\* For every Pop to come there is a scope above the file.
Deep(list, depth) ==
  \E g \in [1..Len(list) + 1 -> Nat \ {0}] :
    /\ g[1] <= depth
    /\ \A i \in 1..Len(list) : g[i + 1] <= g[i] /\ (list[i] = Pop => g[i + 1] < g[i])

IdsOf(ns) == {ns[i].id : i \in 1..Len(ns)}

(* A node of the batch has an id of its own, from a node of the tree, and    *)
(* the edge that was made with it comes from a node before it.               *)
Batch(t, V, ns, cs) ==
  /\ Listed(ns) /\ Listed(cs)
  /\ Len(ns) = Len(cs) + 1
  /\ ns[1].id = FileId
  /\ \A i \in 2..Len(ns) : \E n \in V \cup FileScoped(t) : Source(t, ns[i].id, n)
  /\ \A i, j \in 1..Len(ns) : ns[i].id = ns[j].id => i = j
  /\ \A i \in 1..Len(cs) : /\ cs[i].child = ns[i + 1].id
                           /\ \E j \in 1..i : cs[i].parent = ns[j].id

Scoped(sc, ids) ==
  /\ Listed(sc) /\ sc # <<>> /\ sc[1] = FileId
  /\ \A i \in 1..Len(sc) : sc[i] \in ids

RefKinds == {"calls", "imports", "extends", "implements", "references"}
Anchored(rs, ids) ==
  Listed(rs) /\ \A i \in 1..Len(rs) : rs[i].from \in ids /\ rs[i].kind \in RefKinds

\* The walk of tree t has come to this.
WalkAt(t, list, sc, ns, cs, rs) ==
  /\ t \in Trees
  /\ \E V : Seen(t, V, list) /\ Batch(t, V, ns, cs)
  /\ Deep(list, Len(sc))
  /\ Scoped(sc, IdsOf(ns))
  /\ Anchored(rs, IdsOf(ns))

WalkInv == WalkAt(tree, todo, scope, nodes, contains, refs)

-----------------------------------------------------------------------------
(* Lists. *)

LEMMA ListedIs ==
  ASSUME NEW s, Listed(s)
  PROVE  Len(s) \in Nat /\ DOMAIN s = 1..Len(s)
  BY DEF Listed

LEMMA ListedOne ==
  ASSUME NEW x
  PROVE  Listed(<<x>>) /\ Len(<<x>>) = 1 /\ <<x>>[1] = x
<1>1. <<x>> \in Seq({x})
  OBVIOUS
<1> QED BY <1>1 DEF Listed

LEMMA ListedBoth ==
  ASSUME NEW s, NEW u, Listed(s), Listed(u)
  PROVE  /\ Listed(s \o u) /\ Len(s \o u) = Len(s) + Len(u)
         /\ \A i \in 1..Len(s) : (s \o u)[i] = s[i]
         /\ \A i \in 1..Len(u) : (s \o u)[Len(s) + i] = u[i]
<1>1. PICK S, U : s \in Seq(S) /\ u \in Seq(U)
  BY DEF Listed
<1>2. s \in Seq(S \cup U) /\ u \in Seq(S \cup U)
  BY <1>1
<1>3. s \o u \in Seq(S \cup U)
  BY <1>2
<1> QED BY <1>2, <1>3 DEF Listed

LEMMA ListedAppend ==
  ASSUME NEW s, NEW x, Listed(s)
  PROVE  Listed(Append(s, x)) /\ Append(s, x) = s \o <<x>>
<1>1. PICK S : s \in Seq(S)
  BY DEF Listed
<1>2. s \in Seq(S \cup {x})
  BY <1>1
<1>3. Append(s, x) \in Seq(S \cup {x}) /\ Append(s, x) = s \o <<x>>
  BY <1>2
<1> QED BY <1>3 DEF Listed

LEMMA ListedMap ==
  ASSUME NEW n \in Nat, NEW f, DOMAIN f = 1..n, f = [i \in 1..n |-> f[i]]
  PROVE  Listed(f) /\ Len(f) = n
<1>1. f \in [1..n -> {f[i] : i \in 1..n}]
  OBVIOUS
<1> DEFINE S == {f[i] : i \in 1..n}
<1> HIDE DEF S
<1>2. f \in Seq(S) /\ Len(f) = n
  BY <1>1 DEF S
<1> QED BY <1>2 DEF Listed

(* What the trees are made of. *)
LEMMA TreeIs ==
  ASSUME NEW t \in Trees
  PROVE  /\ Node(t) = 1..Len(t.kind) /\ Len(t.kind) \in Nat /\ 1 \in Node(t)
         /\ Node(t) \in SUBSET Nat /\ IsFiniteSet(Node(t)) /\ Pop \notin Node(t)
         /\ \A m \in Node(t) : /\ t.up[m] \in Nat /\ t.up[m] < m /\ (t.up[m] = 0 <=> m = 1)
                               /\ t.name[m] \in Nat /\ t.line[m] \in Nat
<1>1. t.kind \in Seq(STRING) /\ t.kind # <<>>
  BY TreeAssumption
<1>2. Node(t) = 1..Len(t.kind) /\ Len(t.kind) \in Nat /\ Len(t.kind) # 0
  BY <1>1 DEF Node
<1>3. IsFiniteSet(1..Len(t.kind))
  BY <1>2, FS_Interval
<1>4. \A m \in Node(t) : /\ t.up[m] \in Nat /\ t.up[m] < m /\ (t.up[m] = 0 <=> m = 1)
                         /\ t.name[m] \in Nat /\ t.line[m] \in Nat
  BY TreeAssumption
<1> QED BY <1>2, <1>3, <1>4 DEF Pop

(* Nodes in order are a list of them, each once. *)
LEMMA NodesInOrder ==
  ASSUME NEW t \in Trees, NEW S \in SUBSET Node(t)
  PROVE  /\ InOrder(S) \in Seq(S) /\ Len(InOrder(S)) \in Nat
         /\ \A i \in 1..Len(InOrder(S)) : InOrder(S)[i] \in S
         /\ \A i, j \in 1..Len(InOrder(S)) : InOrder(S)[i] = InOrder(S)[j] => i = j
<1>1. S \in SUBSET Nat /\ IsFiniteSet(S)
  BY TreeIs, FS_Subset
<1>2. InOrder(S) \in Seq(S) /\ \A i, j \in 1..Len(InOrder(S)) : InOrder(S)[i] = InOrder(S)[j] => i = j
  BY <1>1, InOrderIs
<1> QED BY <1>2

(* The walk goes from the node on top to children of it, perhaps with a Pop   *)
(* behind them; D are those children that it has declared and passes over.   *)
LEMMA SeenMoves ==
  ASSUME NEW t \in Trees, NEW V, NEW list, Seen(t, V, list), list # <<>>, Head(list) # Pop,
         NEW D \in SUBSET Children(t, Head(list)), NEW mid \in Seq(Node(t) \cup {Pop}),
         \A i \in 1..Len(mid) : mid[i] # Pop => mid[i] \in Children(t, Head(list)) \ D,
         \A i, j \in 1..Len(mid) : mid[i] = mid[j] /\ mid[i] # Pop => i = j
  PROVE  Seen(t, V \cup {Head(list)} \cup D, mid \o Tail(list))
<1> DEFINE top == Head(list)
           rest == Tail(list)
           new == mid \o rest
           W == V \cup {top} \cup D
<1>1. /\ top \in Node(t) /\ rest \in Seq(Node(t) \cup {Pop}) /\ top = list[1] /\ 1 \in 1..Len(list)
      /\ \A i \in 1..Len(rest) : rest[i] = list[i + 1] /\ i + 1 \in 1..Len(list) /\ i + 1 # 1
  BY DEF Seen
<1>2. /\ new \in Seq(Node(t) \cup {Pop}) /\ Len(new) = Len(mid) + Len(rest)
      /\ Len(mid) \in Nat /\ Len(rest) \in Nat
      /\ \A i \in 1..Len(mid) : new[i] = mid[i]
      /\ \A i \in 1..Len(rest) : new[Len(mid) + i] = rest[i]
  BY <1>1
<1>3. top \notin V /\ (top = 1 \/ t.up[top] \in V)
  BY <1>1 DEF Seen
<1>4. \A d \in Children(t, top) : d \in Node(t) /\ t.up[d] = top /\ d # top /\ d # 1 /\ d \notin V
  <2>1. SUFFICES ASSUME NEW d \in Children(t, top) PROVE d # top /\ d # 1 /\ d \notin V
    BY DEF Children
  <2>2. d \in Node(t) /\ t.up[d] = top /\ top \in Nat /\ top # 0 /\ t.up[d] < d /\ d \in Nat
    BY <1>1, TreeIs DEF Children, Pop
  <2>3. d # top /\ d # 1
    BY <2>2, TreeIs
  <2> QED BY <1>3, <2>2, <2>3 DEF Seen
<1>5. W \in SUBSET Node(t) /\ \A n \in W : n = 1 \/ t.up[n] \in W
  BY <1>1, <1>3, <1>4 DEF Seen
<1>6. ASSUME NEW i \in 1..Len(rest), rest[i] # Pop
      PROVE  /\ rest[i] \notin W /\ rest[i] \notin Children(t, top)
             /\ (rest[i] = 1 \/ t.up[rest[i]] \in W)
  <2>1. list[i + 1] = rest[i] /\ rest[i] \notin V /\ (rest[i] = 1 \/ t.up[rest[i]] \in V) /\ rest[i] # top
    BY <1>1, <1>6 DEF Seen
  <2>2. rest[i] \notin Children(t, top)
    BY <1>3, <1>4, <2>1
  <2> QED BY <2>1, <2>2
<1> HIDE DEF top, rest, new, W
<1>7. ASSUME NEW i \in 1..Len(new)
      PROVE  i \in 1..Len(mid) \/ \E k \in 1..Len(rest) : i = Len(mid) + k
  <2>1. CASE i <= Len(mid)
    BY <1>2, <2>1
  <2>2. CASE i > Len(mid)
    <3>1. i - Len(mid) \in 1..Len(rest) /\ i = Len(mid) + (i - Len(mid))
      BY <1>2, <2>2
    <3> QED BY <3>1
  <2> QED BY <1>2, <2>1, <2>2
<1>8. ASSUME NEW i \in 1..Len(mid), mid[i] # Pop
      PROVE  mid[i] \in Children(t, top) /\ mid[i] \notin W /\ t.up[mid[i]] \in W
  <2>1. mid[i] \in Children(t, top) \ D
    BY <1>8 DEF top
  <2> QED BY <1>4, <2>1 DEF W
<1>9. \A i \in 1..Len(new) :
        new[i] # Pop => new[i] \notin W /\ (new[i] = 1 \/ t.up[new[i]] \in W)
  <2> SUFFICES ASSUME NEW i \in 1..Len(new), new[i] # Pop
               PROVE  new[i] \notin W /\ (new[i] = 1 \/ t.up[new[i]] \in W)
    OBVIOUS
  <2>1. CASE i \in 1..Len(mid)
    <3>1. new[i] = mid[i]
      BY <1>2, <2>1
    <3> QED BY <1>8, <2>1, <3>1
  <2>2. ASSUME NEW k \in 1..Len(rest), i = Len(mid) + k
        PROVE  new[i] \notin W /\ (new[i] = 1 \/ t.up[new[i]] \in W)
    <3>1. new[i] = rest[k]
      BY <1>2, <2>2
    <3> QED BY <1>6, <3>1
  <2> QED BY <1>7, <2>1, <2>2
<1>10. ASSUME NEW i \in 1..Len(new), NEW j \in 1..Len(new), new[i] = new[j], new[i] # Pop
       PROVE  i = j
  <2>1. CASE i \in 1..Len(mid) /\ j \in 1..Len(mid)
    BY <1>2, <1>10, <2>1
  <2>2. ASSUME NEW k \in 1..Len(rest), NEW l \in 1..Len(rest), i = Len(mid) + k, j = Len(mid) + l
        PROVE  i = j
    <3>1. rest[k] = rest[l] /\ rest[k] # Pop
      BY <1>2, <1>10, <2>2
    <3>2. list[k + 1] = list[l + 1] /\ list[k + 1] # Pop /\ k + 1 \in 1..Len(list) /\ l + 1 \in 1..Len(list)
      BY <1>1, <3>1
    <3>3. k + 1 = l + 1
      BY <3>2 DEF Seen
    <3> QED BY <2>2, <3>3
  <2>3. ASSUME NEW x \in 1..Len(mid), NEW k \in 1..Len(rest), mid[x] = rest[k], mid[x] # Pop
        PROVE  FALSE
    BY <1>6, <1>8, <2>3
  <2>4. ASSUME i \in 1..Len(mid), NEW k \in 1..Len(rest), j = Len(mid) + k
        PROVE  FALSE
    <3>1. new[i] = mid[i] /\ new[j] = rest[k]
      BY <1>2, <2>4
    <3> QED BY <1>10, <2>3, <2>4, <3>1
  <2>5. ASSUME j \in 1..Len(mid), NEW k \in 1..Len(rest), i = Len(mid) + k
        PROVE  FALSE
    <3>1. new[j] = mid[j] /\ new[i] = rest[k]
      BY <1>2, <2>5
    <3> QED BY <1>10, <2>3, <2>5, <3>1
  <2> QED BY <1>7, <2>1, <2>2, <2>4, <2>5
<1> QED BY <1>2, <1>5, <1>9, <1>10 DEF Seen, top, rest, new, W

LEMMA SeenLeaves ==
  ASSUME NEW t \in Trees, NEW V, NEW list, Seen(t, V, list), list # <<>>, Head(list) = Pop
  PROVE  Seen(t, V, Tail(list))
<1>1. /\ Tail(list) \in Seq(Node(t) \cup {Pop})
      /\ \A i \in 1..Len(Tail(list)) : Tail(list)[i] = list[i + 1] /\ i + 1 \in 1..Len(list)
  BY DEF Seen
<1> DEFINE rest == Tail(list)
<1> HIDE DEF rest
<1>2. ASSUME NEW i \in 1..Len(rest), NEW j \in 1..Len(rest), rest[i] = rest[j], rest[i] # Pop
      PROVE  i = j
  <2>1. i + 1 = j + 1
    BY <1>1, <1>2 DEF Seen, rest
  <2> QED BY <2>1
<1> QED BY <1>1, <1>2 DEF Seen, rest

(* The scopes on the stack are enough for every Pop to come. *)
LEMMA DeepMoves ==
  ASSUME NEW S, NEW list \in Seq(S), list # <<>>, NEW mid \in Seq(S), NEW depth \in Nat,
         NEW new \in Nat, Deep(list, depth), depth <= new,
         \A i \in 1..Len(mid) : mid[i] = Pop => i = Len(mid) /\ depth < new
  PROVE  Deep(mid \o Tail(list), new)
<1>1. PICK g \in [1..Len(list) + 1 -> Nat \ {0}] :
        /\ g[1] <= depth
        /\ \A i \in 1..Len(list) : g[i + 1] <= g[i] /\ (list[i] = Pop => g[i + 1] < g[i])
  BY DEF Deep
<1> DEFINE rest == Tail(list)
           both == mid \o rest
           m == Len(mid)
           h == [i \in 1..Len(both) + 1 |-> IF i <= m THEN new ELSE g[i - m + 1]]
<1>2. /\ m \in Nat /\ Len(list) \in Nat /\ Len(list) >= 1 /\ Len(rest) = Len(list) - 1
      /\ \A i \in 1..Len(rest) : rest[i] = list[i + 1]
  OBVIOUS
<1>3. /\ both \in Seq(S) /\ Len(both) = m + Len(rest)
      /\ \A i \in 1..m : both[i] = mid[i]
      /\ \A i \in 1..Len(rest) : both[m + i] = rest[i]
  OBVIOUS
<1> HIDE DEF both, rest, m
<1>4. \A i \in 1..Len(both) + 1 : i > m => i - m + 1 \in 1..Len(list) + 1
  BY <1>2, <1>3
<1>5. g[1] \in Nat \ {0} /\ g[2] \in Nat \ {0} /\ g[2] <= g[1]
  <2>1. 1 \in 1..Len(list) /\ 1 \in 1..Len(list) + 1 /\ 1 + 1 \in 1..Len(list) + 1
    BY <1>2
  <2>2. g[1 + 1] <= g[1]
    BY <1>1, <2>1
  <2>3. g[1] \in Nat \ {0} /\ g[2] \in Nat \ {0}
    BY <2>1
  <2> QED BY <2>2, <2>3
<1>6. new # 0
  BY <1>1, <1>5
<1>7. h \in [1..Len(both) + 1 -> Nat \ {0}]
  <2>1. \A i \in 1..Len(both) + 1 : i > m => g[i - m + 1] \in Nat \ {0}
    BY <1>4
  <2>2. new \in Nat \ {0}
    BY <1>6
  <2>3. \A i \in 1..Len(both) + 1 : i \in Nat
    BY <1>2, <1>3
  <2> QED BY <1>2, <2>1, <2>2, <2>3
<1>8. h[1] <= new
  <2>1. 1 \in 1..Len(both) + 1
    BY <1>2, <1>3
  <2>2. CASE 1 <= m
    BY <2>1, <2>2
  <2>3. CASE ~(1 <= m)
    <3>1. m = 0
      BY <1>2, <2>3
    <3>2. h[1] = g[2]
      BY <2>1, <3>1
    <3> QED BY <1>1, <1>5, <3>2
  <2> QED BY <2>2, <2>3
<1>9. ASSUME NEW i \in 1..Len(both)
      PROVE  h[i + 1] <= h[i] /\ (both[i] = Pop => h[i + 1] < h[i])
  <2>1. i \in 1..Len(both) + 1 /\ i + 1 \in 1..Len(both) + 1 /\ i \in Nat
    BY <1>2, <1>3
  <2>2. CASE i < m
    <3>1. h[i] = new /\ h[i + 1] = new /\ i \in 1..m /\ i # m
      BY <1>2, <2>1, <2>2
    <3>2. both[i] # Pop
      BY <1>3, <3>1 DEF m
    <3> QED BY <3>1, <3>2
  <2>3. CASE i = m
    <3>1. h[i] = new /\ h[i + 1] = g[2]
      BY <1>2, <2>1, <2>3
    <3>2. both[i] = Pop => depth < new
      BY <1>2, <1>3, <2>1, <2>3 DEF m
    <3> QED BY <1>1, <1>5, <3>1, <3>2
  <2>4. CASE i > m
    <3> DEFINE k == i - m
    <3>1. k \in 1..Len(rest) /\ i = m + k /\ k + 1 \in 1..Len(list)
      BY <1>2, <1>3, <2>1, <2>4
    <3>2. h[i] = g[k + 1] /\ h[i + 1] = g[(k + 1) + 1]
      BY <1>2, <2>1, <2>4
    <3>3. both[i] = list[k + 1]
      BY <1>2, <1>3, <3>1
    <3> HIDE DEF h, k
    <3> QED BY <1>1, <3>1, <3>2, <3>3
  <2> QED BY <1>2, <2>1, <2>2, <2>3, <2>4
<1> HIDE DEF h
<1>10. Deep(both, new)
  BY <1>7, <1>8, <1>9 DEF Deep
<1> QED BY <1>10 DEF both, rest

LEMMA DeepLeaves ==
  ASSUME NEW S, NEW list \in Seq(S), list # <<>>, Head(list) = Pop, NEW depth \in Nat, Deep(list, depth)
  PROVE  Deep(Tail(list), depth - 1) /\ depth - 1 >= 1
<1>1. PICK g \in [1..Len(list) + 1 -> Nat \ {0}] :
        /\ g[1] <= depth
        /\ \A i \in 1..Len(list) : g[i + 1] <= g[i] /\ (list[i] = Pop => g[i + 1] < g[i])
  BY DEF Deep
<1> DEFINE rest == Tail(list)
           h == [i \in 1..Len(rest) + 1 |-> g[i + 1]]
<1>2. /\ Len(list) \in Nat /\ Len(list) >= 1 /\ Len(rest) = Len(list) - 1 /\ list[1] = Pop
      /\ \A i \in 1..Len(rest) : rest[i] = list[i + 1]
  OBVIOUS
<1> HIDE DEF rest
<1>3. h \in [1..Len(rest) + 1 -> Nat \ {0}]
  BY <1>1, <1>2
<1>4. g[2] < g[1] /\ g[2] \in Nat \ {0} /\ g[1] \in Nat
  BY <1>1, <1>2
<1>5. h[1] = g[2]
  BY <1>2
<1>6. ASSUME NEW i \in 1..Len(rest)
      PROVE  h[i + 1] <= h[i] /\ (rest[i] = Pop => h[i + 1] < h[i])
  <2>1. h[i + 1] = g[(i + 1) + 1] /\ h[i] = g[i + 1] /\ i + 1 \in 1..Len(list)
    BY <1>2
  <2> HIDE DEF h
  <2> QED BY <1>1, <1>2, <2>1
<1> HIDE DEF h
<1>7. h[1] <= depth - 1 /\ depth - 1 >= 1
  BY <1>1, <1>4, <1>5
<1>8. Deep(rest, depth - 1)
  BY <1>3, <1>6, <1>7 DEF Deep
<1> QED BY <1>7, <1>8 DEF rest

-----------------------------------------------------------------------------
(* The batch grows. *)

LEMMA IdsGrow ==
  ASSUME NEW ns, NEW new, Listed(ns), Listed(new)
  PROVE  IdsOf(ns \o new) = IdsOf(ns) \cup IdsOf(new)
<1>1. /\ Len(ns) \in Nat /\ Len(new) \in Nat /\ Len(ns \o new) = Len(ns) + Len(new)
      /\ \A i \in 1..Len(ns) : (ns \o new)[i] = ns[i]
      /\ \A i \in 1..Len(new) : (ns \o new)[Len(ns) + i] = new[i]
  BY ListedIs, ListedBoth
<1> DEFINE both == ns \o new
<1> HIDE DEF both
<1>2. ASSUME NEW i \in 1..Len(both)
      PROVE  both[i].id \in IdsOf(ns) \cup IdsOf(new)
  <2>1. CASE i <= Len(ns)
    <3>1. i \in 1..Len(ns) /\ both[i] = ns[i]
      BY <1>1, <2>1 DEF both
    <3> QED BY <3>1 DEF IdsOf
  <2>2. CASE i > Len(ns)
    <3>1. i - Len(ns) \in 1..Len(new) /\ Len(ns) + (i - Len(ns)) = i
      BY <1>1, <2>2 DEF both
    <3>2. both[i] = new[i - Len(ns)]
      BY <1>1, <3>1 DEF both
    <3> QED BY <3>1, <3>2 DEF IdsOf
  <2> QED BY <1>1, <2>1, <2>2
<1>3. ASSUME NEW i \in 1..Len(ns)
      PROVE  ns[i].id \in IdsOf(both)
  <2>1. i \in 1..Len(both) /\ both[i] = ns[i]
    BY <1>1 DEF both
  <2> QED BY <2>1 DEF IdsOf
<1>4. ASSUME NEW i \in 1..Len(new)
      PROVE  new[i].id \in IdsOf(both)
  <2>1. Len(ns) + i \in 1..Len(both) /\ both[Len(ns) + i] = new[i]
    BY <1>1 DEF both
  <2> QED BY <2>1 DEF IdsOf
<1>5. IdsOf(both) \subseteq IdsOf(ns) \cup IdsOf(new)
  BY <1>2 DEF IdsOf
<1>6. IdsOf(ns) \subseteq IdsOf(both) /\ IdsOf(new) \subseteq IdsOf(both)
  BY <1>3, <1>4 DEF IdsOf
<1> QED BY <1>5, <1>6 DEF both

(* New nodes that are unlike those before them, each with an edge from a node *)
(* that was there.                                                          *)
LEMMA BatchGrows ==
  ASSUME NEW t, NEW V, NEW W, NEW ns, NEW cs, Batch(t, V, ns, cs), V \subseteq W,
         NEW new, NEW joins, Listed(new), Listed(joins), Len(joins) = Len(new),
         NEW parent \in IdsOf(ns),
         \A i \in 1..Len(new) : /\ joins[i].child = new[i].id /\ joins[i].parent = parent
                                /\ new[i].id \notin IdsOf(ns)
                                /\ \E n \in W \cup FileScoped(t) : Source(t, new[i].id, n),
         \A i, j \in 1..Len(new) : new[i].id = new[j].id => i = j
  PROVE  Batch(t, W, ns \o new, cs \o joins)
<1> DEFINE nodes2 == ns \o new
           edges2 == cs \o joins
           k == Len(ns)
<1>1. /\ Listed(nodes2) /\ Len(nodes2) = k + Len(new) /\ Len(new) \in Nat /\ k \in Nat
      /\ \A i \in 1..k : nodes2[i] = ns[i]
      /\ \A i \in 1..Len(new) : nodes2[k + i] = new[i]
  <2>1. Listed(ns) /\ Listed(new)
    BY DEF Batch
  <2>2. Len(new) \in Nat /\ Len(ns) \in Nat
    BY <2>1, ListedIs
  <2>3. /\ Listed(ns \o new) /\ Len(ns \o new) = Len(ns) + Len(new)
        /\ \A i \in 1..Len(ns) : (ns \o new)[i] = ns[i]
        /\ \A i \in 1..Len(new) : (ns \o new)[Len(ns) + i] = new[i]
    BY <2>1, ListedBoth
  <2> QED BY <2>1, <2>2, <2>3
<1>2. /\ Listed(edges2) /\ Len(edges2) = Len(cs) + Len(joins) /\ Len(cs) \in Nat
      /\ \A i \in 1..Len(cs) : edges2[i] = cs[i]
      /\ \A i \in 1..Len(joins) : edges2[Len(cs) + i] = joins[i]
  <2>1. Listed(cs) /\ Listed(joins)
    BY DEF Batch
  <2>2. Len(cs) \in Nat
    BY <2>1, ListedIs
  <2>3. /\ Listed(cs \o joins) /\ Len(cs \o joins) = Len(cs) + Len(joins)
        /\ \A i \in 1..Len(cs) : (cs \o joins)[i] = cs[i]
        /\ \A i \in 1..Len(joins) : (cs \o joins)[Len(cs) + i] = joins[i]
    BY <2>1, ListedBoth
  <2> QED BY <2>1, <2>2, <2>3
<1>3. k = Len(cs) + 1
  BY DEF Batch
<1> HIDE DEF nodes2, edges2, k
<1>4. ASSUME NEW i \in 1..Len(nodes2)
      PROVE  i \in 1..k \/ \E x \in 1..Len(new) : i = k + x
  <2>1. CASE i > k
    <3>1. i - k \in 1..Len(new) /\ i = k + (i - k)
      BY <1>1, <2>1
    <3> QED BY <3>1
  <2> QED BY <1>1, <2>1
<1>5. \A i \in 1..Len(new) : nodes2[k + i].id \notin IdsOf(ns)
  BY <1>1
<1>6. \A i \in 1..k : nodes2[i].id \in IdsOf(ns)
  BY <1>1 DEF IdsOf, k
<1>7. nodes2[1].id = FileId
  <2>1. 1 \in 1..k
    BY <1>2, <1>3
  <2> QED BY <1>1, <2>1 DEF Batch
<1>8. ASSUME NEW i \in 2..Len(nodes2)
      PROVE  \E n \in W \cup FileScoped(t) : Source(t, nodes2[i].id, n)
  <2>1. i \in 1..Len(nodes2)
    OBVIOUS
  <2>2. CASE i \in 1..k
    <3>1. i \in 2..Len(ns) /\ nodes2[i] = ns[i]
      BY <1>1, <2>2 DEF k
    <3>2. PICK n \in V \cup FileScoped(t) : Source(t, ns[i].id, n)
      BY <3>1 DEF Batch
    <3> QED BY <3>1, <3>2
  <2>3. ASSUME NEW x \in 1..Len(new), i = k + x
        PROVE  \E n \in W \cup FileScoped(t) : Source(t, nodes2[i].id, n)
    <3>1. nodes2[i] = new[x]
      BY <1>1, <2>3
    <3> QED BY <3>1
  <2> QED BY <1>4, <2>1, <2>2, <2>3
<1>9. ASSUME NEW i \in 1..Len(nodes2), NEW j \in 1..Len(nodes2), nodes2[i].id = nodes2[j].id
      PROVE  i = j
  <2>1. CASE i \in 1..k /\ j \in 1..k
    <3>1. ns[i].id = ns[j].id
      BY <1>1, <1>9, <2>1
    <3> QED BY <2>1, <3>1 DEF Batch, k
  <2>2. ASSUME NEW x \in 1..Len(new), NEW y \in 1..Len(new), i = k + x, j = k + y
        PROVE  i = j
    <3>1. new[x].id = new[y].id
      BY <1>1, <1>9, <2>2
    <3>2. x = y
      BY <3>1
    <3> QED BY <2>2, <3>2
  <2>3. ASSUME i \in 1..k, NEW y \in 1..Len(new), j = k + y
        PROVE  FALSE
    BY <1>5, <1>6, <1>9, <2>3
  <2>4. ASSUME j \in 1..k, NEW y \in 1..Len(new), i = k + y
        PROVE  FALSE
    BY <1>5, <1>6, <1>9, <2>4
  <2> QED BY <1>4, <2>1, <2>2, <2>3, <2>4
<1>10. ASSUME NEW i \in 1..Len(edges2)
       PROVE  /\ edges2[i].child = nodes2[i + 1].id
              /\ \E j \in 1..i : edges2[i].parent = nodes2[j].id
  <2>1. CASE i <= Len(cs)
    <3>1. i \in 1..Len(cs) /\ edges2[i] = cs[i] /\ i + 1 \in 1..k
      BY <1>2, <1>3, <2>1
    <3>2. PICK j \in 1..i : cs[i].parent = ns[j].id
      BY <3>1 DEF Batch
    <3>3. j \in 1..k
      BY <1>3, <3>1
    <3>4. nodes2[j] = ns[j] /\ nodes2[i + 1] = ns[i + 1]
      BY <1>1, <3>1, <3>3
    <3>5. cs[i].child = ns[i + 1].id
      BY <3>1 DEF Batch
    <3> QED BY <3>1, <3>2, <3>4, <3>5
  <2>2. CASE i > Len(cs)
    <3> DEFINE x == i - Len(cs)
    <3>1. x \in 1..Len(new) /\ i = Len(cs) + x /\ i + 1 = k + x
      BY <1>2, <1>3, <2>2
    <3> HIDE DEF x
    <3>2. edges2[i] = joins[x]
      BY <1>2, <3>1
    <3>2a. nodes2[i + 1] = new[x]
      BY <1>1, <3>1
    <3>3. joins[x].child = new[x].id /\ joins[x].parent = parent
      BY <3>1
    <3>4. PICK j \in 1..Len(ns) : parent = ns[j].id
      BY DEF IdsOf
    <3>5. j \in 1..i /\ j \in 1..k
      BY <1>2, <1>3, <2>2, <3>4 DEF k
    <3>6. nodes2[j] = ns[j]
      BY <1>1, <3>5
    <3> QED BY <3>2, <3>2a, <3>3, <3>4, <3>5, <3>6
  <2> QED BY <1>2, <2>1, <2>2
<1>11. Len(nodes2) = Len(edges2) + 1
  BY <1>1, <1>2, <1>3
<1>12. Batch(t, W, nodes2, edges2)
  BY <1>1, <1>2, <1>7, <1>8, <1>9, <1>10, <1>11 DEF Batch
<1> QED BY <1>12 DEF nodes2, edges2

LEMMA MayBeKinds ==
  ASSUME NEW t, NEW n, NEW kind, MayBe(t, n, kind)
  PROVE  kind \in DeclaredKinds /\ kind # "File"
  BY DEF MayBe, DeclaredKinds, ScopeKinds, ClassKinds

LEMMA FileIdIs == FileId.kind = "File"
  BY DEF FileId, Id, PathId

(* Two nodes of the tree never give the same id. *)
LEMMA SourceOnce ==
  ASSUME LinesApart, NEW t \in Trees, NEW m \in Node(t), NEW n \in Node(t), NEW id,
         Source(t, id, m), Source(t, id, n)
  PROVE  m = n
<1>1. id.kind \in DeclaredKinds
  BY MayBeKinds DEF Source
<1> QED BY <1>1 DEF LinesApart, Source

(* A node where the walk has not been gives an id that is not there yet. *)
LEMMA Fresh ==
  ASSUME LinesApart, NEW t \in Trees, NEW V \in SUBSET Node(t), NEW ns, NEW cs, Batch(t, V, ns, cs),
         NEW n \in Node(t), n \notin V \cup FileScoped(t), NEW id, Source(t, id, n)
  PROVE  id \notin IdsOf(ns)
<1> SUFFICES ASSUME NEW i \in 1..Len(ns), ns[i].id = id
             PROVE  FALSE
  BY DEF IdsOf
<1>1. id.kind # "File"
  BY MayBeKinds DEF Source
<1>2. i # 1
  BY <1>1, FileIdIs DEF Batch
<1>3. i \in 2..Len(ns)
  BY <1>2, ListedIs DEF Batch
<1>4. PICK m \in V \cup FileScoped(t) : Source(t, id, m)
  BY <1>3 DEF Batch
<1>5. m \in Node(t)
  BY <1>4 DEF FileScoped
<1> QED BY <1>4, <1>5, SourceOnce

-----------------------------------------------------------------------------
(* References. *)

LEMMA AnchoredGrow ==
  ASSUME NEW rs, NEW new, NEW ids, NEW ids2, Anchored(rs, ids), ids \subseteq ids2, Anchored(new, ids2)
  PROVE  Anchored(rs \o new, ids2)
<1> DEFINE both == rs \o new
<1>1. /\ Listed(both) /\ Len(both) = Len(rs) + Len(new) /\ Len(new) \in Nat /\ Len(rs) \in Nat
      /\ \A i \in 1..Len(rs) : both[i] = rs[i]
      /\ \A i \in 1..Len(new) : both[Len(rs) + i] = new[i]
  BY ListedIs, ListedBoth DEF Anchored
<1> HIDE DEF both
<1>2. ASSUME NEW i \in 1..Len(both)
      PROVE  both[i].from \in ids2 /\ both[i].kind \in RefKinds
  <2>1. CASE i <= Len(rs)
    <3>1. i \in 1..Len(rs) /\ both[i] = rs[i]
      BY <1>1, <2>1
    <3> QED BY <3>1 DEF Anchored
  <2>2. CASE i > Len(rs)
    <3>1. i - Len(rs) \in 1..Len(new) /\ Len(rs) + (i - Len(rs)) = i
      BY <1>1, <2>2
    <3>2. both[i] = new[i - Len(rs)]
      BY <1>1, <3>1
    <3> QED BY <3>1, <3>2 DEF Anchored
  <2> QED BY <1>1, <2>1, <2>2
<1>3. Anchored(both, ids2)
  BY <1>1, <1>2 DEF Anchored
<1> QED BY <1>3 DEF both

LEMMA AnchoredNone ==
  ASSUME NEW ids
  PROVE  Anchored(<<>>, ids)
<1>1. <<>> \in Seq({}) /\ Len(<<>>) = 0
  OBVIOUS
<1> QED BY <1>1 DEF Anchored, Listed

LEMMA AnchoredOne ==
  ASSUME NEW ids, NEW from \in ids, NEW kind \in RefKinds, NEW name, NEW line
  PROVE  Anchored(<<Ref(from, kind, name, line)>>, ids)
<1> DEFINE r == Ref(from, kind, name, line)
<1>1. r.from = from /\ r.kind = kind
  BY DEF Ref
<1> HIDE DEF r
<1>2. Anchored(<<r>>, ids)
  BY <1>1, ListedOne DEF Anchored
<1> QED BY <1>2 DEF r

(* What a hook adds: references from ids that are there, none of them a call. *)
Aside(rs, ids) == Anchored(rs, ids) /\ \A i \in 1..Len(rs) : rs[i].kind # "calls"

LEMMA AsideNone ==
  ASSUME NEW ids
  PROVE  Aside(<<>>, ids)
<1>1. Len(<<>>) = 0
  OBVIOUS
<1> QED BY <1>1, AnchoredNone DEF Aside

LEMMA AsideBoth ==
  ASSUME NEW ids, NEW rs, NEW new, Aside(rs, ids), Aside(new, ids)
  PROVE  Aside(rs \o new, ids)
<1> DEFINE both == rs \o new
<1>1. /\ Listed(both) /\ Len(both) = Len(rs) + Len(new) /\ Len(new) \in Nat /\ Len(rs) \in Nat
      /\ \A i \in 1..Len(rs) : both[i] = rs[i]
      /\ \A i \in 1..Len(new) : both[Len(rs) + i] = new[i]
  BY ListedIs, ListedBoth DEF Aside, Anchored
<1>2. Anchored(both, ids)
  BY AnchoredGrow DEF Aside
<1> HIDE DEF both
<1>3. ASSUME NEW i \in 1..Len(both)
      PROVE  both[i].kind # "calls"
  <2>1. CASE i <= Len(rs)
    <3>1. i \in 1..Len(rs) /\ both[i] = rs[i]
      BY <1>1, <2>1
    <3> QED BY <3>1 DEF Aside
  <2>2. CASE i > Len(rs)
    <3>1. i - Len(rs) \in 1..Len(new) /\ Len(rs) + (i - Len(rs)) = i
      BY <1>1, <2>2
    <3>2. both[i] = new[i - Len(rs)]
      BY <1>1, <3>1
    <3> QED BY <3>1, <3>2 DEF Aside
  <2> QED BY <1>1, <2>1, <2>2
<1>4. Aside(both, ids)
  BY <1>2, <1>3 DEF Aside
<1> QED BY <1>4 DEF both

LEMMA HeritageAnchored ==
  ASSUME NEW t \in Trees, NEW n \in Node(t), NEW kinds, NEW ids,
         Id("Class", t.name[n], t.line[n]) \in ids
  PROVE  Aside(Heritage(t, n, kinds), ids)
<1> DEFINE S == {m \in Children(t, n) : t.kind[m] \in kinds}
           s == InOrder(S)
           h == Heritage(t, n, kinds)
<1>1. s \in Seq(S) /\ Len(s) \in Nat
  <2>1. S \in SUBSET Node(t)
    BY DEF Children
  <2> HIDE DEF S
  <2> QED BY <2>1, NodesInOrder
<1>2. Within(t, n, kinds) = s
  BY DEF Within
<1> HIDE DEF s
<1>3. DOMAIN s = 1..Len(s)
  BY <1>1
<1>4. h = [i \in 1..Len(s) |->
            Ref(Id("Class", t.name[n], t.line[n]),
                IF t.kind[s[i]] = "extends_clause" THEN "extends" ELSE "implements", t.name[s[i]],
                t.line[s[i]])]
  BY <1>2, <1>3 DEF Heritage, Map
<1> HIDE DEF h
<1>5. Listed(h) /\ Len(h) = Len(s)
  BY <1>1, <1>4, ListedMap
<1>6. \A i \in 1..Len(s) : h[i].from = Id("Class", t.name[n], t.line[n]) /\ h[i].kind \in RefKinds \ {"calls"}
  BY <1>4 DEF Ref, RefKinds
<1>7. Aside(h, ids)
  BY <1>5, <1>6 DEF Anchored, Aside
<1> QED BY <1>7 DEF h

LEMMA UsageAnchored ==
  ASSUME NEW t \in Trees, NEW n \in Node(t), NEW kind, NEW ids,
         Id(kind, t.name[n], t.line[n]) \in ids
  PROVE  Aside(TypeUsage(t, n, kind), ids)
<1> DEFINE s == InOrder(TypesUsed(t, n))
           u == TypeUsage(t, n, kind)
<1>1. TypesUsed(t, n) \in SUBSET Nat /\ IsFiniteSet(TypesUsed(t, n))
  <2> DEFINE T == {y \in Node(t) : /\ t.kind[y] = "type"
                                   /\ t.up[t.up[y]] = n
                                   /\ t.part[t.up[y]] = "body"
                                   /\ t.kind[t.up[y]] \in CSharp.field \cup CSharp.property \cup
                                                          CSharp.method}
             I == {t.name[x] : x \in T}
  <2>1. TypesUsed(t, n) = I \ {t.name[n]}
    BY DEF TypesUsed
  <2>2. T \in SUBSET Node(t)
    OBVIOUS
  <2> HIDE DEF T
  <2>3. IsFiniteSet(T)
    BY <2>2, TreeIs, FS_Subset
  <2>4. IsFiniteSet(I)
    <3> DEFINE f == [x \in T |-> t.name[x]]
    <3>1. f \in Surjection(T, I)
      BY DEF Surjection
    <3> HIDE DEF f, I
    <3> QED BY <2>3, <3>1, FS_Surjection
  <2>5. I \in SUBSET Nat
    BY <2>2, TreeIs
  <2> HIDE DEF I
  <2> QED BY <2>1, <2>4, <2>5, FS_Subset
<1>2. s \in Seq(TypesUsed(t, n)) /\ Len(s) \in Nat
  BY <1>1, InOrderIs
<1> HIDE DEF s
<1>3. DOMAIN s = 1..Len(s)
  BY <1>2
<1>4. u = [i \in 1..Len(s) |-> Ref(Id(kind, t.name[n], t.line[n]), "references", s[i], t.line[n])]
  BY <1>3 DEF TypeUsage, Map, s
<1> HIDE DEF u
<1>5. Listed(u) /\ Len(u) = Len(s)
  BY <1>2, <1>4, ListedMap
<1>6. \A i \in 1..Len(s) : u[i].from = Id(kind, t.name[n], t.line[n]) /\ u[i].kind \in RefKinds \ {"calls"}
  BY <1>4 DEF Ref, RefKinds
<1>7. Aside(u, ids)
  BY <1>5, <1>6 DEF Anchored, Aside
<1> QED BY <1>7 DEF u

LEMMA RequiresAnchored ==
  ASSUME NEW t \in Trees, NEW n \in Node(t), NEW ids, NEW from \in ids
  PROVE  Aside(Requires(t, n, from), ids)
<1>1. CASE t.kind[n] \notin JavaScript.variable
  <2>1. Requires(t, n, from) = <<>>
    BY <1>1 DEF Requires
  <2> QED BY <2>1, AsideNone
<1>2. CASE t.kind[n] \in JavaScript.variable
  <2>1. \E S \in SUBSET Node(t) :
          Requires(t, n, from) = [i \in DOMAIN InOrder(S) |->
             Ref(from, "imports", t.name[InOrder(S)[i]], t.line[InOrder(S)[i]])]
    BY <1>2 DEF Requires, Map
  <2>2. PICK S \in SUBSET Node(t) :
          Requires(t, n, from) = [i \in DOMAIN InOrder(S) |->
             Ref(from, "imports", t.name[InOrder(S)[i]], t.line[InOrder(S)[i]])]
    BY <2>1
  <2> DEFINE s == InOrder(S)
             u == Requires(t, n, from)
  <2>3. s \in Seq(S) /\ Len(s) \in Nat
    BY NodesInOrder
  <2> HIDE DEF s
  <2>4. u = [i \in 1..Len(s) |-> Ref(from, "imports", t.name[s[i]], t.line[s[i]])]
    BY <2>2, <2>3 DEF s
  <2> HIDE DEF u
  <2>5. Listed(u) /\ Len(u) = Len(s)
    BY <2>3, <2>4, ListedMap
  <2>6. \A i \in 1..Len(s) : u[i].from = from /\ u[i].kind \in RefKinds \ {"calls"}
    BY <2>4 DEF Ref, RefKinds
  <2>7. Aside(u, ids)
    BY <2>5, <2>6 DEF Anchored, Aside
  <2> QED BY <2>7 DEF u
<1> QED BY <1>1, <1>2

(* What a hook adds starts at the scope, or at the id its own node is given. *)
LEMMA HooksAnchored ==
  ASSUME NEW t \in Trees, NEW n \in Node(t), NEW ids, NEW from \in ids,
         t.lang = "TypeScript" /\ t.kind[n] \in TypeScript.class
           => Id("Class", t.name[n], t.line[n]) \in ids,
         t.lang = "CSharp" /\ t.kind[n] = "class_declaration"
           => Id("Class", t.name[n], t.line[n]) \in ids,
         t.lang = "CSharp" /\ t.kind[n] \in CSharp.struct
           => Id("Struct", t.name[n], t.line[n]) \in ids,
         t.lang = "CSharp" /\ t.kind[n] \in CSharp.interface
           => Id("Interface", t.name[n], t.line[n]) \in ids
  PROVE  Aside(HookRefs(t, n, from), ids)
<1>1. CASE t.lang = "TypeScript" /\ t.kind[n] \in TypeScript.class
  <2>1. HookRefs(t, n, from) = Heritage(t, n, {"extends_clause", "implements_clause"})
    BY <1>1 DEF HookRefs
  <2> QED BY <1>1, <2>1, HeritageAnchored
<1>2. CASE t.lang = "JavaScript"
  <2>1. HookRefs(t, n, from) = Requires(t, n, from)
    BY <1>2 DEF HookRefs
  <2> QED BY <1>2, <2>1, RequiresAnchored
<1>3. CASE t.lang = "CSharp"
  <2>1. HookRefs(t, n, from) = CSharpRefs(t, n)
    BY <1>3 DEF HookRefs
  <2>0. /\ CSharp.struct = {"struct_declaration", "record_declaration"}
        /\ CSharp.interface = {"interface_declaration"}
    BY DEF CSharp, Nothing
  <2>2. CASE t.kind[n] = "class_declaration"
    <3>0. t.kind[n] \notin CSharp.struct /\ t.kind[n] \notin CSharp.interface
      BY <2>0, <2>2
    <3>1. CSharpRefs(t, n) = Heritage(t, n, {"base_list"}) \o TypeUsage(t, n, "Class")
      BY <2>2, <3>0 DEF CSharpRefs
    <3>2. Id("Class", t.name[n], t.line[n]) \in ids
      BY <1>3, <2>2
    <3> DEFINE hs == Heritage(t, n, {"base_list"})
               us == TypeUsage(t, n, "Class")
    <3>3. Aside(hs, ids)
      BY <3>2, HeritageAnchored
    <3>4. Aside(us, ids)
      BY <3>2, UsageAnchored
    <3> HIDE DEF hs, us
    <3>6. Aside(hs \o us, ids)
      BY <3>3, <3>4, AsideBoth
    <3> QED BY <2>1, <3>1, <3>6 DEF hs, us
  <2>3. CASE t.kind[n] # "class_declaration" /\ t.kind[n] \in CSharp.struct
    <3>0. t.kind[n] \notin CSharp.interface
      BY <2>0, <2>3
    <3>1. CSharpRefs(t, n) = TypeUsage(t, n, "Struct")
      BY <2>3, <3>0 DEF CSharpRefs
    <3>2. Aside(TypeUsage(t, n, "Struct"), ids)
      BY <1>3, <2>3, UsageAnchored
    <3> QED BY <2>1, <3>1, <3>2
  <2>4. CASE t.kind[n] # "class_declaration" /\ t.kind[n] \notin CSharp.struct
               /\ t.kind[n] \in CSharp.interface
    <3>1. CSharpRefs(t, n) = TypeUsage(t, n, "Interface")
      BY <2>4 DEF CSharpRefs
    <3>2. Id("Interface", t.name[n], t.line[n]) \in ids
      BY <1>3, <2>4
    <3>3. Aside(TypeUsage(t, n, "Interface"), ids)
      BY <3>2, UsageAnchored
    <3> QED BY <2>1, <3>1, <3>3
  <2>5. CASE t.kind[n] # "class_declaration" /\ t.kind[n] \notin CSharp.struct
               /\ t.kind[n] \notin CSharp.interface
    <3>1. CSharpRefs(t, n) = <<>>
      BY <2>5 DEF CSharpRefs
    <3> QED BY <2>1, <3>1, AsideNone
  <2> QED BY <2>2, <2>3, <2>4, <2>5
<1>4. CASE /\ ~(t.lang = "TypeScript" /\ t.kind[n] \in TypeScript.class)
           /\ t.lang # "JavaScript" /\ t.lang # "CSharp"
  <2>1. HookRefs(t, n, from) = <<>>
    BY <1>4 DEF HookRefs
  <2> QED BY <2>1, AsideNone
<1> QED BY <1>1, <1>2, <1>3, <1>4

-----------------------------------------------------------------------------
(* What the tables of the languages say. *)

\* The kinds by which a node is declared, those of a namespace apart.
Declared(l) ==
  LET L == Config[l]
  IN  L.function \cup L.method \cup L.class \cup L.interface \cup L.struct \cup L.enum
        \cup L.alias \cup L.property \cup L.field \cup L.variable

\* The nodes whose id a hook computes before the walk gets to emit it.
HookedType(t, n) ==
  \/ t.lang = "TypeScript" /\ t.kind[n] \in TypeScript.class
  \/ t.lang = "CSharp" /\ t.kind[n] \in CSharp.class \cup CSharp.struct \cup CSharp.interface

LEMMA LanguagesAre ==
  /\ DOMAIN Config = {"TypeScript", "JavaScript", "Python", "Rust", "CSharp", "Go", "Cpp"}
  /\ Config["TypeScript"] = TypeScript /\ Config["JavaScript"] = JavaScript
  /\ Config["Python"] = Python /\ Config["Rust"] = Rust /\ Config["CSharp"] = CSharp
  /\ Config["Go"] = Go /\ Config["Cpp"] = Cpp
  BY DEF Config

(* No table holds the kinds that only a hook or only Start handles. *)
LEMMA DeclaredAre ==
  ASSUME NEW l \in DOMAIN Config, NEW k \in Declared(l)
  PROVE  k # "impl_item" /\ k # "file_scoped_namespace_declaration"
<1>1. CASE l = "TypeScript"
  BY <1>1, LanguagesAre DEF Declared, TypeScript, Nothing
<1>2. CASE l = "JavaScript"
  BY <1>2, LanguagesAre DEF Declared, JavaScript, TypeScript, Nothing
<1>3. CASE l = "Python"
  BY <1>3, LanguagesAre DEF Declared, Python, Nothing
<1>4. CASE l = "Rust"
  BY <1>4, LanguagesAre DEF Declared, Rust, Nothing
<1>5. CASE l = "CSharp"
  BY <1>5, LanguagesAre DEF Declared, CSharp, Nothing
<1>6. CASE l = "Go"
  BY <1>6, LanguagesAre DEF Declared, Go, Nothing
<1>7. CASE l = "Cpp"
  BY <1>7, LanguagesAre DEF Declared, Cpp, Nothing
<1> QED BY <1>1, <1>2, <1>3, <1>4, <1>5, <1>6, <1>7, LanguagesAre

(* Only C# has namespaces. *)
LEMMA NamespacesAre ==
  ASSUME NEW l \in DOMAIN Config, Config[l].namespace # {}
  PROVE  /\ l = "CSharp"
         /\ Config[l].namespace = {"namespace_declaration", "file_scoped_namespace_declaration"}
<1>1. CASE l = "TypeScript"
  BY <1>1, LanguagesAre DEF TypeScript, Nothing
<1>2. CASE l = "JavaScript"
  BY <1>2, LanguagesAre DEF JavaScript, TypeScript, Nothing
<1>3. CASE l = "Python"
  BY <1>3, LanguagesAre DEF Python, Nothing
<1>4. CASE l = "Rust"
  BY <1>4, LanguagesAre DEF Rust, Nothing
<1>5. CASE l = "CSharp"
  BY <1>5, LanguagesAre DEF CSharp, Nothing
<1>6. CASE l = "Go"
  BY <1>6, LanguagesAre DEF Go, Nothing
<1>7. CASE l = "Cpp"
  BY <1>7, LanguagesAre DEF Cpp, Nothing
<1> QED BY <1>1, <1>2, <1>3, <1>4, <1>5, <1>6, <1>7, LanguagesAre

(* A type that a hook knows has its kind in no other role. *)
LEMMA HookedAre ==
  ASSUME NEW t \in Trees, NEW n \in Node(t), HookedType(t, n)
  PROVE  LET L == Config[t.lang]
             k == t.kind[n]
         IN  /\ k \in L.class \cup L.struct \cup L.interface
             /\ k \notin L.namespace \cup L.function \cup L.method \cup L.enum \cup L.alias
                           \cup L.property \cup L.field \cup L.variable \cup L.import \cup L.call
             /\ t.lang \in {"TypeScript", "CSharp"}
<1>1. CASE t.lang = "TypeScript"
  <2>1. t.kind[n] \in TypeScript.class /\ Config[t.lang] = TypeScript
    BY <1>1, LanguagesAre DEF HookedType
  <2> QED BY <1>1, <2>1 DEF TypeScript, Nothing
<1>2. CASE t.lang = "CSharp"
  <2>1. t.kind[n] \in CSharp.class \cup CSharp.struct \cup CSharp.interface /\ Config[t.lang] = CSharp
    BY <1>2, LanguagesAre DEF HookedType
  <2> QED BY <1>2, <2>1 DEF CSharp, Nothing
<1> QED BY <1>1, <1>2 DEF HookedType

(* What a hook adds starts at the scope, or at the id of the type it is for. *)
LEMMA HooksQuiet ==
  ASSUME NEW t \in Trees, NEW n \in Node(t), NEW ids, NEW from \in ids, ~HookedType(t, n)
  PROVE  Aside(HookRefs(t, n, from), ids)
<1>1. ~(t.lang = "TypeScript" /\ t.kind[n] \in TypeScript.class)
  BY DEF HookedType
<1>2. /\ ~(t.lang = "CSharp" /\ t.kind[n] = "class_declaration")
      /\ ~(t.lang = "CSharp" /\ t.kind[n] \in CSharp.struct)
      /\ ~(t.lang = "CSharp" /\ t.kind[n] \in CSharp.interface)
  BY DEF HookedType, CSharp, Nothing
<1> QED BY <1>1, <1>2, HooksAnchored

-----------------------------------------------------------------------------
(* One step of the walk. *)

\* Children of n that are not in D, each once.
KidsOf(t, n, D, kids) ==
  /\ kids \in Seq(Node(t) \cup {Pop})
  /\ \A i \in 1..Len(kids) : kids[i] \in Children(t, n) \ D
  /\ \A i, j \in 1..Len(kids) : kids[i] = kids[j] => i = j

LEMMA KidsInOrder ==
  ASSUME NEW t \in Trees, NEW n, NEW S \in SUBSET Children(t, n)
  PROVE  KidsOf(t, n, {}, InOrder(S))
<1>1. S \in SUBSET Node(t)
  BY DEF Children
<1>2. /\ InOrder(S) \in Seq(S)
      /\ \A i \in 1..Len(InOrder(S)) : InOrder(S)[i] \in S
      /\ \A i, j \in 1..Len(InOrder(S)) : InOrder(S)[i] = InOrder(S)[j] => i = j
  BY <1>1, NodesInOrder
<1> DEFINE s == InOrder(S)
<1> HIDE DEF s
<1>3. s \in Seq(Node(t) \cup {Pop})
  BY <1>1, <1>2 DEF s
<1>4. \A i \in 1..Len(s) : s[i] \in Children(t, n) \ {}
  BY <1>2 DEF s
<1>5. KidsOf(t, n, {}, s)
  BY <1>2, <1>3, <1>4 DEF KidsOf, s
<1> QED BY <1>5 DEF s

LEMMA KidsAre ==
  ASSUME NEW t \in Trees, NEW n
  PROVE  /\ KidsOf(t, n, {}, Kids(t, n))
         /\ KidsOf(t, n, {}, Part(t, n, "body"))
         /\ \A D : KidsOf(t, n, D, <<>>)
<1>1. KidsOf(t, n, {}, InOrder(Children(t, n)))
  BY KidsInOrder
<1>2. KidsOf(t, n, {}, InOrder({m \in Children(t, n) : t.part[m] = "body"}))
  BY KidsInOrder
<1>3. \A D : KidsOf(t, n, D, <<>>)
  BY DEF KidsOf
<1> QED BY <1>1, <1>2, <1>3 DEF Kids, Part

LEMMA TopIs ==
  ASSUME NEW t \in Trees, NEW V, NEW list, Seen(t, V, list), list # <<>>, Head(list) # Pop
  PROVE  /\ V \in SUBSET Node(t) /\ Head(list) \in Node(t) /\ Head(list) \notin V
         /\ \A d \in Children(t, Head(list)) : d \in Node(t) /\ d \notin V
<1> DEFINE top == Head(list)
<1>1. top \in Node(t) /\ 1 \in 1..Len(list) /\ top = list[1]
  BY DEF Seen
<1>2. top \notin V /\ V \in SUBSET Node(t)
  BY <1>1 DEF Seen
<1> HIDE DEF top
<1>3. ASSUME NEW d \in Children(t, top)
      PROVE  d \in Node(t) /\ d \notin V
  <2>1. d \in Node(t) /\ t.up[d] = top /\ top # 0
    BY <1>1, TreeIs DEF Children, Pop
  <2>2. d # 1
    BY <2>1, TreeIs
  <2> QED BY <1>2, <2>1, <2>2 DEF Seen
<1> QED BY <1>1, <1>2, <1>3 DEF top

(* The walk leaves the node on top for kids of it: it adds nodes that come    *)
(* from that node and its children D, may open one scope over the kids, and  *)
(* adds references from ids the batch then has.                              *)
LEMMA Moves ==
  ASSUME LinesApart, NEW t, NEW list, NEW sc, NEW ns, NEW cs, NEW rs, WalkAt(t, list, sc, ns, cs, rs),
         list # <<>>, Head(list) # Pop,
         NEW D \in SUBSET Children(t, Head(list)), NEW kids, KidsOf(t, Head(list), D, kids),
         NEW new, NEW joins, Listed(new), Listed(joins), Len(joins) = Len(new),
         NEW parent \in IdsOf(ns),
         \A i \in 1..Len(new) :
           /\ joins[i].child = new[i].id /\ joins[i].parent = parent
           /\ \E n \in ({Head(list)} \cup D) \ FileScoped(t) : Source(t, new[i].id, n),
         \A i, j \in 1..Len(new) : new[i].id = new[j].id => i = j,
         NEW up, Listed(up), \A i \in 1..Len(up) : up[i] \in IdsOf(ns) \cup IdsOf(new),
         NEW mid, mid = kids \/ (mid = kids \o <<Pop>> /\ Len(up) # 0),
         NEW more, Anchored(more, IdsOf(ns) \cup IdsOf(new))
  PROVE  WalkAt(t, mid \o Tail(list), sc \o up, ns \o new, cs \o joins, rs \o more)
<1> DEFINE ids == IdsOf(ns \o new)
           top == Head(list)
           S == Node(t) \cup {Pop}
<1>0. t \in Trees /\ Deep(list, Len(sc)) /\ Scoped(sc, IdsOf(ns)) /\ Anchored(rs, IdsOf(ns))
  BY DEF WalkAt
<1>1. PICK V : Seen(t, V, list) /\ Batch(t, V, ns, cs)
  BY DEF WalkAt
<1> DEFINE W == V \cup {top} \cup D
<1>2. /\ V \in SUBSET Node(t) /\ top \in Node(t) /\ top \notin V
      /\ \A d \in Children(t, top) : d \in Node(t) /\ d \notin V
  BY <1>0, <1>1, TopIs
<1>3. Listed(ns) /\ ids = IdsOf(ns) \cup IdsOf(new)
  <2>1. Listed(ns)
    BY <1>1 DEF Batch
  <2> QED BY <2>1, IdsGrow
<1>4. /\ mid \in Seq(S)
      /\ \A i \in 1..Len(mid) : mid[i] # Pop => mid[i] \in Children(t, top) \ D
      /\ \A i, j \in 1..Len(mid) : mid[i] = mid[j] /\ mid[i] # Pop => i = j
      /\ \A i \in 1..Len(mid) : mid[i] = Pop => i = Len(mid) /\ Len(up) # 0
  <2>0. \A i \in 1..Len(kids) : kids[i] # Pop
    <3>1. Pop \notin Node(t)
      BY <1>0, TreeIs
    <3> QED BY <1>2, <3>1 DEF KidsOf
  <2>1. CASE mid = kids
    BY <2>0, <2>1 DEF KidsOf
  <2>2. CASE mid = kids \o <<Pop>> /\ Len(up) # 0
    <3>1. kids \in Seq(S) /\ Len(kids) \in Nat
      BY DEF KidsOf
    <3>2. <<Pop>> \in Seq(S)
      OBVIOUS
    <3>3. /\ mid \in Seq(S) /\ Len(mid) = Len(kids) + 1 /\ mid[Len(mid)] = Pop
          /\ \A i \in 1..Len(kids) : mid[i] = kids[i]
      BY <2>2, <3>1, <3>2
    <3>4. \A i \in 1..Len(mid) : i # Len(mid) => i \in 1..Len(kids)
      BY <3>1, <3>3
    <3>5. ASSUME NEW i \in 1..Len(mid), NEW j \in 1..Len(mid), mid[i] = mid[j], mid[i] # Pop
          PROVE  i = j
      <4>1. i \in 1..Len(kids) /\ j \in 1..Len(kids)
        BY <3>3, <3>4, <3>5
      <4>2. kids[i] = kids[j]
        BY <3>3, <3>5, <4>1
      <4> QED BY <4>1, <4>2 DEF KidsOf
    <3>6. ASSUME NEW i \in 1..Len(mid), mid[i] # Pop
          PROVE  mid[i] \in Children(t, top) \ D
      <4>1. i \in 1..Len(kids)
        BY <3>3, <3>4, <3>6
      <4> QED BY <3>3, <4>1 DEF KidsOf
    <3>7. ASSUME NEW i \in 1..Len(mid), mid[i] = Pop
          PROVE  i = Len(mid)
      BY <2>0, <3>3, <3>4, <3>7
    <3> QED BY <2>2, <3>3, <3>5, <3>6, <3>7
  <2> QED BY <2>1, <2>2
<1>5. Seen(t, W, mid \o Tail(list))
  BY <1>0, <1>1, <1>4, SeenMoves
<1>6. ASSUME NEW i \in 1..Len(new)
      PROVE  /\ new[i].id \notin IdsOf(ns)
             /\ \E n \in W \cup FileScoped(t) : Source(t, new[i].id, n)
  <2>1. PICK n \in ({top} \cup D) \ FileScoped(t) : Source(t, new[i].id, n)
    OBVIOUS
  <2>2. n \in Node(t) /\ n \notin V \cup FileScoped(t)
    BY <1>2
  <2>3. new[i].id \notin IdsOf(ns)
    BY <1>0, <1>1, <1>2, <2>1, <2>2, Fresh
  <2> QED BY <2>1, <2>3
<1>7. Batch(t, W, ns \o new, cs \o joins)
  <2>1. V \subseteq W
    OBVIOUS
  <2> HIDE DEF W
  <2> QED BY <1>1, <1>6, <2>1, BatchGrows
<1>8. /\ Listed(sc) /\ Listed(sc \o up) /\ Len(sc) \in Nat /\ Len(up) \in Nat
      /\ Len(sc \o up) = Len(sc) + Len(up)
      /\ \A i \in 1..Len(sc) : (sc \o up)[i] = sc[i]
      /\ \A i \in 1..Len(up) : (sc \o up)[Len(sc) + i] = up[i]
  <2>1. Listed(sc)
    BY <1>0 DEF Scoped
  <2>2. Len(sc) \in Nat /\ Len(up) \in Nat
    BY <2>1, ListedIs
  <2>3. /\ Listed(sc \o up) /\ Len(sc \o up) = Len(sc) + Len(up)
        /\ \A i \in 1..Len(sc) : (sc \o up)[i] = sc[i]
        /\ \A i \in 1..Len(up) : (sc \o up)[Len(sc) + i] = up[i]
    BY <2>1, ListedBoth
  <2> QED BY <2>1, <2>2, <2>3
<1>9. Deep(mid \o Tail(list), Len(sc \o up))
  <2> DEFINE depth == Len(sc)
             depth2 == Len(sc \o up)
  <2>1. depth \in Nat /\ depth2 \in Nat /\ depth <= depth2 /\ (Len(up) # 0 => depth < depth2)
    BY <1>8
  <2>2. list \in Seq(S)
    BY <1>1 DEF Seen
  <2>3. Deep(list, depth)
    BY <1>0
  <2> HIDE DEF depth, depth2, S
  <2>4. Deep(mid \o Tail(list), depth2)
    BY <1>4, <2>1, <2>2, <2>3, DeepMoves
  <2> QED BY <2>4 DEF depth2
<1>10. Scoped(sc \o up, ids)
  <2> DEFINE both == sc \o up
  <2>1. Listed(both) /\ Len(both) = Len(sc) + Len(up)
    BY <1>8
  <2>2. Len(sc) # 0
    <3>1. PICK X : sc \in Seq(X)
      BY <1>8 DEF Listed
    <3> QED BY <1>0, <3>1 DEF Scoped
  <2>3. both # <<>> /\ both[1] = FileId
    <3>1. Len(both) # 0
      BY <1>8, <2>1, <2>2
    <3>2. 1 \in 1..Len(sc)
      BY <1>8, <2>2
    <3>3. both[1] = FileId
      BY <1>0, <1>8, <3>2 DEF Scoped
    <3> HIDE DEF both
    <3>4. both # <<>>
      BY <3>1
    <3> QED BY <3>3, <3>4
  <2>4. ASSUME NEW i \in 1..Len(both)
        PROVE  both[i] \in ids
    <3>1. CASE i <= Len(sc)
      <4>1. i \in 1..Len(sc)
        BY <1>8, <3>1
      <4>2. both[i] = sc[i]
        BY <1>8, <4>1
      <4> QED BY <1>0, <1>3, <4>1, <4>2 DEF Scoped
    <3>2. CASE i > Len(sc)
      <4>1. i - Len(sc) \in 1..Len(up) /\ Len(sc) + (i - Len(sc)) = i
        BY <1>8, <2>1, <3>2
      <4>2. both[i] = up[i - Len(sc)]
        BY <1>8, <4>1
      <4> QED BY <1>3, <4>1, <4>2
    <3> QED BY <1>8, <2>1, <3>1, <3>2
  <2> HIDE DEF both, ids
  <2>5. Scoped(both, ids)
    BY <2>1, <2>3, <2>4 DEF Scoped
  <2> QED BY <2>5 DEF both
<1>11. Anchored(rs \o more, ids)
  <2>1. IdsOf(ns) \subseteq ids /\ Anchored(more, ids)
    BY <1>3
  <2> HIDE DEF ids
  <2> QED BY <1>0, <2>1, AnchoredGrow
<1>12. \E X : Seen(t, X, mid \o Tail(list)) /\ Batch(t, X, ns \o new, cs \o joins)
  <2> HIDE DEF W
  <2> QED BY <1>5, <1>7
<1> QED BY <1>0, <1>9, <1>10, <1>11, <1>12 DEF WalkAt

LEMMA WalkInvIs == WalkInv <=> WalkAt(tree, todo, scope, nodes, contains, refs)
  BY DEF WalkInv, WalkAt

LEMMA InnermostIs ==
  ASSUME NEW sc, NEW ids, Scoped(sc, ids)
  PROVE  sc[Len(sc)] \in ids /\ FileId \in ids /\ Listed(sc)
<1>1. PICK X : sc \in Seq(X)
  BY DEF Scoped, Listed
<1>2. Len(sc) \in 1..Len(sc) /\ 1 \in 1..Len(sc)
  BY <1>1 DEF Scoped
<1> QED BY <1>2 DEF Scoped

LEMMA AppendIs ==
  ASSUME NEW s, NEW x, Listed(s)
  PROVE  s \o <<x>> = Append(s, x)
  BY ListedAppend

LEMMA NothingAdded ==
  /\ Listed(<<>>) /\ Len(<<>>) = 0 /\ IdsOf(<<>>) = {}
  /\ \A s : Listed(s) => s \o <<>> = s
<1>1. <<>> \in Seq({}) /\ Len(<<>>) = 0
  OBVIOUS
<1>2. ASSUME NEW s, Listed(s) PROVE s \o <<>> = s
  <2>1. PICK X : s \in Seq(X)
    BY <1>2 DEF Listed
  <2> QED BY <2>1
<1> QED BY <1>1, <1>2 DEF Listed, IdsOf

LEMMA ListsOf ==
  ASSUME NEW t, NEW list, NEW sc, NEW ns, NEW cs, NEW rs, WalkAt(t, list, sc, ns, cs, rs)
  PROVE  Listed(sc) /\ Listed(ns) /\ Listed(cs) /\ Listed(rs)
  BY DEF WalkAt, Scoped, Batch, Anchored

-----------------------------------------------------------------------------
Recursion(f, n, next, own) ==
  f = [i \in 1..n |-> own[i] \cup IF next[i] = 0 THEN {} ELSE f[next[i]]]

(* A function that is defined by its values at smaller arguments exists.     *)
LEMMA RecursionIs ==
  ASSUME NEW n \in Nat, NEW next \in [1..n -> Nat], \A i \in 1..n : next[i] < i, NEW own
  PROVE  \E f : Recursion(f, n, next, own)
<1> DEFINE Is(k, f) ==
             /\ DOMAIN f = 1..k /\ f = [i \in 1..k |-> f[i]]
             /\ \A i \in 1..k : f[i] = own[i] \cup IF next[i] = 0 THEN {} ELSE f[next[i]]
           U == {k \in 0..n : ~\E f : Is(k, f)}
<1>0. ASSUME NEW f, Is(n, f) PROVE Recursion(f, n, next, own)
  <2>1. [i \in 1..n |-> own[i] \cup IF next[i] = 0 THEN {} ELSE f[next[i]]] = [i \in 1..n |-> f[i]]
    BY <1>0
  <2> QED BY <1>0, <2>1 DEF Recursion
<1> SUFFICES ASSUME ~\E f : Is(n, f) PROVE FALSE
  BY <1>0
<1>1. n \in U /\ U \in SUBSET Nat
  OBVIOUS
<1>2. PICK k \in U : \A j \in U : k <= j
  <2> HIDE DEF U
  <2> QED BY <1>1, LeastOf
<1>3. k \in 0..n /\ ~\E f : Is(k, f)
  OBVIOUS
<1>4. k # 0
  <2> SUFFICES ASSUME k = 0 PROVE FALSE
    OBVIOUS
  <2> DEFINE none == [i \in 1..0 |-> {}]
  <2>1. Is(0, none)
    OBVIOUS
  <2> QED BY <1>3, <2>1
<1>5. k - 1 \in 0..n /\ k - 1 \notin U /\ k \in 1..n
  <2>1. k - 1 \in 0..n /\ k \in 1..n
    BY <1>3, <1>4
  <2>2. k - 1 \in U => k <= k - 1
    BY <1>2
  <2> QED BY <1>3, <2>1, <2>2
<1>6. PICK f : Is(k - 1, f)
  BY <1>5
<1> DEFINE last == own[k] \cup IF next[k] = 0 THEN {} ELSE f[next[k]]
           g == [i \in 1..k |-> IF i = k THEN last ELSE f[i]]
<1>7. ASSUME NEW i \in 1..k
      PROVE  g[i] = own[i] \cup IF next[i] = 0 THEN {} ELSE g[next[i]]
  <2>1. next[i] \in Nat /\ next[i] < i /\ k \in Nat /\ i \in 1..n
    BY <1>5
  <2>2. next[i] # 0 => next[i] \in 1..k /\ next[i] # k /\ g[next[i]] = f[next[i]]
    BY <2>1
  <2>3. CASE i = k
    BY <2>2, <2>3
  <2>4. CASE i # k
    <3>1. i \in 1..(k - 1)
      BY <2>1, <2>4
    <3>2. f[i] = own[i] \cup IF next[i] = 0 THEN {} ELSE f[next[i]]
      BY <1>6, <3>1
    <3> QED BY <2>2, <2>4, <3>2
  <2> QED BY <2>3, <2>4
<1>8. Is(k, g)
  <2>1. DOMAIN g = 1..k /\ g = [i \in 1..k |-> g[i]]
    OBVIOUS
  <2> HIDE DEF g
  <2> QED BY <1>7, <2>1
<1> QED BY <1>3, <1>8

LEMMA AboveIs ==
  ASSUME NEW t \in Trees, NEW n \in Node(t)
  PROVE  Above(t, n) = IF t.up[n] = 0 THEN {} ELSE {t.up[n]} \cup Above(t, t.up[n])
<1> DEFINE k == Len(t.kind)
           next == [m \in 1..k |-> t.up[m]]
           own == [m \in 1..k |-> IF t.up[m] = 0 THEN {} ELSE {t.up[m]}]
           Is(f) == f = [m \in Node(t) |-> IF t.up[m] = 0 THEN {} ELSE {t.up[m]} \cup f[t.up[m]]]
<1>1. /\ Node(t) = 1..k /\ k \in Nat
      /\ \A m \in Node(t) : t.up[m] \in Nat /\ t.up[m] < m /\ m \in Nat
  BY TreeIs
<1>2. PICK f : Recursion(f, k, next, own)
  <2>1. next \in [1..k -> Nat] /\ \A m \in 1..k : next[m] < m
    BY <1>1
  <2> HIDE DEF next, own, k
  <2> QED BY <1>1, <2>1, RecursionIs
<1>3. Is(f)
  <2>1. \A m \in 1..k : own[m] \cup (IF next[m] = 0 THEN {} ELSE f[next[m]])
                          = IF t.up[m] = 0 THEN {} ELSE {t.up[m]} \cup f[t.up[m]]
    OBVIOUS
  <2> HIDE DEF own, next, k
  <2> QED BY <1>1, <1>2, <2>1 DEF Recursion
<1> DEFINE g == CHOOSE f_1 : Is(f_1)
<1>4. Is(g)
  BY <1>3
<1>5. \A m : Above(t, m) = g[m]
  BY DEF Above
<1> HIDE DEF g
<1>6. t.up[n] # 0 => t.up[n] \in Node(t)
  BY <1>1
<1> QED BY <1>4, <1>5, <1>6

(* What stands above a node comes before it. *)
LEMMA AboveBefore ==
  ASSUME NEW t \in Trees, NEW n \in Node(t)
  PROVE  Above(t, n) \in SUBSET Node(t) /\ \A a \in Above(t, n) : a < n
<1> DEFINE Ok(m) == Above(t, m) \in SUBSET Node(t) /\ \A a \in Above(t, m) : a < m
           U == {m \in Node(t) : ~Ok(m)}
<1> SUFFICES ASSUME ~Ok(n) PROVE FALSE
  OBVIOUS
<1>1. U \in SUBSET Nat /\ U # {} /\ Node(t) = 1..Len(t.kind) /\ Len(t.kind) \in Nat
  BY TreeIs
<1>2. PICK m \in U : \A x \in U : m <= x
  <2> HIDE DEF U
  <2> QED BY <1>1, LeastOf
<1>3. m \in Node(t) /\ m \in Nat /\ t.up[m] \in Nat /\ t.up[m] < m
  BY <1>1, TreeIs
<1>4. Above(t, m) = IF t.up[m] = 0 THEN {} ELSE {t.up[m]} \cup Above(t, t.up[m])
  BY <1>3, AboveIs
<1>5. CASE t.up[m] = 0
  BY <1>2, <1>4, <1>5
<1>6. CASE t.up[m] # 0
  <2>1. t.up[m] \in Node(t) /\ t.up[m] \notin U
    BY <1>1, <1>2, <1>3, <1>6
  <2>2. Ok(t.up[m])
    BY <2>1
  <2>3. \A a \in Above(t, t.up[m]) : a \in Nat /\ a < m
    BY <1>1, <1>3, <2>2
  <2>4. Ok(m)
    BY <1>3, <1>4, <1>6, <2>1, <2>2, <2>3
  <2> QED BY <1>2, <2>4
<1> QED BY <1>5, <1>6

LEMMA AboveKid ==
  ASSUME NEW t \in Trees, NEW n \in Node(t), NEW d \in Children(t, n)
  PROVE  d \in Node(t) /\ Above(t, d) = {n} \cup Above(t, n)
<1>1. d \in Node(t) /\ t.up[d] = n /\ n # 0
  BY TreeIs DEF Children
<1> QED BY <1>1, AboveIs

(* What is above a node that the walk has been at, or is about to come to,   *)
(* the walk has been at.                                                     *)
LEMMA AboveSeen ==
  ASSUME NEW t \in Trees, NEW V, NEW list, Seen(t, V, list), NEW n \in Node(t),
         n = 1 \/ t.up[n] \in V
  PROVE  Above(t, n) \subseteq V
<1> DEFINE U == {m \in V : ~(Above(t, m) \subseteq V)}
<1>1. V \in SUBSET Node(t) /\ \A m \in V : m = 1 \/ t.up[m] \in V
  BY DEF Seen
<1>2. ASSUME NEW m \in Node(t), m = 1 \/ t.up[m] \in V, m # 1 => t.up[m] \notin U
      PROVE  Above(t, m) \subseteq V
  <2>1. Above(t, m) = IF t.up[m] = 0 THEN {} ELSE {t.up[m]} \cup Above(t, t.up[m])
    BY AboveIs
  <2>2. t.up[m] = 0 <=> m = 1
    BY TreeIs
  <2> QED BY <1>2, <2>1, <2>2
<1>3. U = {}
  <2> SUFFICES ASSUME U # {} PROVE FALSE
    OBVIOUS
  <2>1. U \in SUBSET Nat
    BY <1>1, TreeIs
  <2>2. PICK m \in U : \A x \in U : m <= x
    <3> HIDE DEF U
    <3> QED BY <2>1, LeastOf
  <2>3. m \in Node(t) /\ m \in Nat /\ t.up[m] \in Nat /\ t.up[m] < m /\ (m = 1 \/ t.up[m] \in V)
    BY <1>1, TreeIs
  <2>4. t.up[m] \notin U
    <3>1. t.up[m] \in U => m <= t.up[m]
      BY <2>2
    <3> QED BY <2>3, <3>1
  <2>5. Above(t, m) \subseteq V
    BY <1>2, <2>3, <2>4
  <2> QED BY <2>2, <2>5
<1> QED BY <1>2, <1>3

-----------------------------------------------------------------------------
(* The scopes that are in force. *)

\* The depth of the scopes at each entry of the list: a Pop takes one away.
Levels(list, depth, g) ==
  /\ g \in [1..Len(list) + 1 -> Nat \ {0}] /\ g[1] = depth
  /\ \A i \in 1..Len(list) : g[i + 1] = IF list[i] = Pop THEN g[i] - 1 ELSE g[i]
  /\ \A i, j \in 1..Len(list) + 1 : i <= j => g[j] <= g[i]

\* What comes later on the list hangs no lower in the tree.
Nested(t, list) ==
  \A i, j \in 1..Len(list) :
    i < j /\ list[i] # Pop /\ list[j] # Pop => Above(t, list[j]) \subseteq Above(t, list[i])

\* The d-th scope is that of node n.
Fits(t, ids, n, sc, d) ==
  IF Around(t, ids, n) = {} THEN \A k \in 1..d : sc[k].kind \in {"File", "Namespace"}
  ELSE sc[d] \in Holders(t, ids, LastOf(Around(t, ids, n)))

Placed(t, ids, list, sc, g) ==
  \A i \in 1..Len(list) : list[i] # Pop => Fits(t, ids, list[i], sc, g[i])

\* Each impl the walk has been at has its owner.
Owned(t, V, ids) == \A a \in V : t.kind[a] = "impl_item" => Holders(t, ids, a) # {}

CallsOf(rs) == {i \in 1..Len(rs) : rs[i].kind = "calls"}
Charged(t, V, ids, rs) ==
  \E at \in [CallsOf(rs) -> V] :
    /\ \A i, j \in CallsOf(rs) : at[i] = at[j] => i = j
    /\ \A i \in CallsOf(rs) : CallAt(t, at[i], rs[i]) /\ ChargedTo(t, ids, at[i], rs[i].from)

GoMethod(t, id) == t.lang = "Go" /\ id.kind = "Method"

(* A scope has the name that the scopes below it give it; the file is below   *)
(* all others.                                                               *)
Titled(t, ns, sc) ==
  /\ \A k \in 1..Len(sc), i \in 1..Len(ns) :
       ns[i].id = sc[k] /\ sc[k].kind # "File" /\ ~GoMethod(t, sc[k]) =>
         ns[i].qualified = Append(NamesTo(sc, k - 1), NameOf(sc[k]))
  /\ \A k \in 1..Len(sc) : sc[k].kind = "File" => \A j \in 1..k : sc[j].kind = "File"

Joined(t, ns, cs) ==
  \A i \in 1..Len(cs), j \in 1..Len(ns) :
    cs[i].parent = ns[j].id /\ ~GoMethod(t, cs[i].child) /\ ~GoMethod(t, cs[i].parent) =>
      ns[i + 1].qualified =
        (IF cs[i].parent.kind = "File" THEN <<>> ELSE ns[j].qualified) \o <<NameOf(cs[i].child)>>

OwnerKinds == {"Struct", "Trait", "Class", "Enum"}

\* A Rust type that an impl may be for stands in no scope but the file.
Plain(t, ns) ==
  t.lang = "Rust" =>
    \A i \in 1..Len(ns) : ns[i].id.kind \in OwnerKinds => ns[i].qualified = <<NameOf(ns[i].id)>>

\* The walk of tree t has come to this, and its scopes are those of the text.
ScopesAt(t, list, sc, ns, cs, rs) ==
  /\ \E V : /\ Seen(t, V, list) /\ Batch(t, V, ns, cs)
            /\ Owned(t, V, IdsOf(ns)) /\ Charged(t, V, IdsOf(ns), rs)
  /\ \E g : Levels(list, Len(sc), g) /\ Placed(t, IdsOf(ns), list, sc, g)
  /\ Nested(t, list) /\ Titled(t, ns, sc) /\ Joined(t, ns, cs) /\ Plain(t, ns)

ScopeInv == ScopesAt(tree, todo, scope, nodes, contains, refs)

LEMMA LastIs ==
  ASSUME NEW t \in Trees, NEW S \in SUBSET Node(t), S # {}
  PROVE  LastOf(S) \in S /\ \A y \in S : y <= LastOf(S)
<1> DEFINE n == Len(t.kind)
           T == {n - x : x \in S}
<1>1. n \in Nat /\ \A x \in S : x \in 1..n
  BY TreeIs
<1> HIDE DEF n
<1>2. T \in SUBSET Nat /\ T # {}
  BY <1>1
<1>3. PICK m \in T : \A x \in T : m <= x
  <2> HIDE DEF T
  <2> QED BY <1>2, LeastOf
<1>4. PICK x \in S : m = n - x
  OBVIOUS
<1>5. \A y \in S : y <= x
  <2> SUFFICES ASSUME NEW y \in S PROVE y <= x
    OBVIOUS
  <2>1. n - x <= n - y
    BY <1>3, <1>4
  <2> QED BY <1>1, <2>1
<1> QED BY <1>4, <1>5 DEF LastOf

(* New ids from nodes that the walk had not been at change nothing for the    *)
(* nodes that it had.                                                        *)
Beyond(t, V, ids, ids2) ==
  /\ ids \subseteq ids2
  /\ \A id \in ids2 \ ids : \E n \in Node(t) \ V : Source(t, id, n)

LEMMA HoldersStay ==
  ASSUME LinesApart, NEW t \in Trees, NEW V \in SUBSET Node(t), NEW ids, NEW ids2,
         Beyond(t, V, ids, ids2), Owned(t, V, ids), NEW a \in V
  PROVE  /\ Holders(t, ids, a) \subseteq Holders(t, ids2, a)
         /\ Holders(t, ids2, a) = {} <=> Holders(t, ids, a) = {}
<1>1. CASE t.kind[a] = "impl_item"
  <2>1. Holders(t, ids, a) \subseteq Holders(t, ids2, a)
    BY <1>1 DEF Holders, Beyond
  <2>2. Holders(t, ids, a) # {}
    BY <1>1 DEF Owned
  <2> QED BY <2>1, <2>2
<1>2. CASE t.kind[a] # "impl_item"
  <2>1. Holders(t, ids, a) = {id \in ids : Source(t, id, a) /\ id.kind \in ScopeKinds \ {"Type"}}
    BY <1>2 DEF Holders
  <2>2. Holders(t, ids2, a) = {id \in ids2 : Source(t, id, a) /\ id.kind \in ScopeKinds \ {"Type"}}
    BY <1>2 DEF Holders
  <2>3. ASSUME NEW id \in ids2 \ ids, Source(t, id, a) PROVE FALSE
    <3>1. PICK n \in Node(t) \ V : Source(t, id, n)
      BY DEF Beyond
    <3> QED BY <2>3, <3>1, SourceOnce
  <2>4. Holders(t, ids2, a) = Holders(t, ids, a)
    BY <2>1, <2>2, <2>3 DEF Beyond
  <2> QED BY <2>4
<1> QED BY <1>1, <1>2

LEMMA AroundStays ==
  ASSUME LinesApart, NEW t \in Trees, NEW V \in SUBSET Node(t), NEW ids, NEW ids2,
         Beyond(t, V, ids, ids2), Owned(t, V, ids), NEW n, Above(t, n) \subseteq V
  PROVE  /\ Around(t, ids2, n) = Around(t, ids, n)
         /\ Around(t, ids, n) # {} => LastOf(Around(t, ids, n)) \in V
<1>1. Around(t, ids2, n) = Around(t, ids, n)
  BY HoldersStay DEF Around
<1>2. Around(t, ids, n) \in SUBSET Node(t) /\ Around(t, ids, n) \subseteq V
  BY DEF Around
<1> QED BY <1>1, <1>2, LastIs

LEMMA FitsStays ==
  ASSUME LinesApart, NEW t \in Trees, NEW V \in SUBSET Node(t), NEW ids, NEW ids2,
         Beyond(t, V, ids, ids2), Owned(t, V, ids), NEW n, Above(t, n) \subseteq V,
         NEW sc, NEW sc2, NEW d \in Nat \ {0}, \A k \in 1..d : sc2[k] = sc[k], Fits(t, ids, n, sc, d)
  PROVE  Fits(t, ids2, n, sc2, d)
<1>1. Around(t, ids2, n) = Around(t, ids, n)
  BY AroundStays
<1>2. CASE Around(t, ids, n) = {}
  BY <1>1, <1>2 DEF Fits
<1>3. CASE Around(t, ids, n) # {}
  <2> DEFINE a == LastOf(Around(t, ids, n))
  <2>1. a \in V
    BY <1>3, AroundStays
  <2>2. sc[d] \in Holders(t, ids, a)
    BY <1>3 DEF Fits
  <2> HIDE DEF a
  <2>3. sc2[d] \in Holders(t, ids2, a)
    <3>1. sc2[d] = sc[d]
      OBVIOUS
    <3> QED BY <2>1, <2>2, <3>1, HoldersStay
  <2> QED BY <1>1, <1>3, <2>3 DEF Fits, a
<1> QED BY <1>2, <1>3

LEMMA ChargedStays ==
  ASSUME LinesApart, NEW t \in Trees, NEW V \in SUBSET Node(t), NEW ids, NEW ids2,
         Beyond(t, V, ids, ids2), Owned(t, V, ids), NEW n, Above(t, n) \subseteq V,
         NEW id, ChargedTo(t, ids, n, id)
  PROVE  ChargedTo(t, ids2, n, id)
<1>1. Around(t, ids2, n) = Around(t, ids, n)
  BY AroundStays
<1>2. CASE Around(t, ids, n) = {}
  BY <1>1, <1>2 DEF ChargedTo
<1>3. CASE Around(t, ids, n) # {}
  <2> DEFINE a == LastOf(Around(t, ids, n))
  <2>1. a \in V
    BY <1>3, AroundStays
  <2>2. id \in Holders(t, ids, a)
    BY <1>3 DEF ChargedTo
  <2> HIDE DEF a
  <2>3. id \in Holders(t, ids2, a)
    BY <2>1, <2>2, HoldersStay
  <2> QED BY <1>1, <1>3, <2>3 DEF ChargedTo, a
<1> QED BY <1>2, <1>3

LEMMA AroundKid ==
  ASSUME NEW t \in Trees, NEW ids, NEW n \in Node(t), NEW d \in Children(t, n)
  PROVE  /\ Holders(t, ids, n) = {} => Around(t, ids, d) = Around(t, ids, n)
         /\ Holders(t, ids, n) # {} => Around(t, ids, d) # {} /\ LastOf(Around(t, ids, d)) = n
<1>1. Above(t, d) = {n} \cup Above(t, n)
  BY AboveKid
<1>2. Above(t, n) \in SUBSET Node(t) /\ \A a \in Above(t, n) : a < n
  BY AboveBefore
<1>3. CASE Holders(t, ids, n) = {}
  BY <1>1, <1>3 DEF Around
<1>4. CASE Holders(t, ids, n) # {}
  <2> DEFINE S == Around(t, ids, d)
  <2>1. n \in S /\ S \in SUBSET Node(t) /\ \A a \in S : a = n \/ a < n
    BY <1>1, <1>2, <1>4 DEF Around
  <2> HIDE DEF S
  <2>2. LastOf(S) \in S /\ n <= LastOf(S)
    BY <2>1, LastIs
  <2>3. LastOf(S) \in Nat /\ n \in Nat
    BY <2>1, <2>2, TreeIs
  <2>4. LastOf(S) = n
    BY <2>1, <2>2, <2>3
  <2> QED BY <1>4, <2>1, <2>4 DEF S
<1> QED BY <1>3, <1>4

(* The children of a node that has become a scope fit it, and those of one    *)
(* that has not fit where the node itself does.                              *)
LEMMA FitsKid ==
  ASSUME NEW t \in Trees, NEW ids, NEW n \in Node(t), NEW d \in Children(t, n), NEW sc, NEW k,
         sc[k] \in Holders(t, ids, n) \/ (Holders(t, ids, n) = {} /\ Fits(t, ids, n, sc, k))
  PROVE  Fits(t, ids, d, sc, k)
  BY AroundKid DEF Fits

-----------------------------------------------------------------------------
(* The list when the node on top gives way to its kids. *)

LEMMA ListMoves ==
  ASSUME NEW S, NEW list \in Seq(S), list # <<>>, NEW mid \in Seq(S)
  PROVE  /\ Len(list) \in Nat \ {0} /\ Len(mid) \in Nat
         /\ mid \o Tail(list) \in Seq(S)
         /\ Len(mid \o Tail(list)) = Len(mid) + Len(list) - 1
         /\ \A i \in 1..Len(mid) : (mid \o Tail(list))[i] = mid[i]
         /\ \A i \in 1..Len(mid \o Tail(list)) : i > Len(mid) =>
              /\ i - Len(mid) + 1 \in 2..Len(list)
              /\ (mid \o Tail(list))[i] = list[i - Len(mid) + 1]
<1> DEFINE rest == Tail(list)
           both == mid \o rest
           m == Len(mid)
<1>1. /\ m \in Nat /\ Len(list) \in Nat \ {0} /\ rest \in Seq(S) /\ Len(rest) = Len(list) - 1
      /\ \A i \in 1..Len(rest) : rest[i] = list[i + 1]
  <2>1. m \in Nat /\ rest \in Seq(S)
    OBVIOUS
  <2>2. Len(list) \in Nat /\ Len(list) # 0
    OBVIOUS
  <2>3. Len(rest) = Len(list) - 1 /\ \A i \in 1..Len(rest) : rest[i] = list[i + 1]
    OBVIOUS
  <2> QED BY <2>1, <2>2, <2>3
<1> HIDE DEF rest
<1>2. /\ both \in Seq(S) /\ Len(both) = m + Len(rest)
      /\ \A i \in 1..m : both[i] = mid[i]
      /\ \A i \in 1..Len(rest) : both[m + i] = rest[i]
  <2>1. rest \in Seq(S)
    BY <1>1
  <2> QED BY <2>1
<1> HIDE DEF both, m
<1>3. ASSUME NEW i \in 1..Len(both), i > m
      PROVE  i - m + 1 \in 2..Len(list) /\ both[i] = list[i - m + 1]
  <2>1. i - m \in 1..Len(rest) /\ m + (i - m) = i
    BY <1>1, <1>2, <1>3
  <2>2. both[i] = rest[i - m]
    BY <1>2, <2>1
  <2>3. rest[i - m] = list[(i - m) + 1]
    BY <1>1, <2>1
  <2>4. i \in Int /\ i - m + 1 = (i - m) + 1 /\ i - m + 1 \in 2..Len(list)
    BY <1>1, <2>1
  <2> QED BY <2>2, <2>3, <2>4
<1> QED BY <1>1, <1>2, <1>3 DEF both, m, rest

(* The kids are at the new depth, the rest at the depth it was at, or one      *)
(* deeper when a scope came that is not popped.                              *)
LEMMA LevelsMove ==
  ASSUME NEW S, NEW list \in Seq(S), list # <<>>, Head(list) # Pop, NEW mid \in Seq(S),
         NEW depth \in Nat, NEW new \in Nat, NEW g, Levels(list, depth, g),
         NEW s \in {0, 1},
         \A i \in 1..Len(mid) : mid[i] = Pop => i = Len(mid),
         new = depth + s + IF mid # <<>> /\ mid[Len(mid)] = Pop THEN 1 ELSE 0,
         NEW t, NEW ids, NEW sc,
         \A i \in 1..Len(mid) : mid[i] # Pop => Fits(t, ids, mid[i], sc, new),
         \A i \in 2..Len(list) : list[i] # Pop => Fits(t, ids, list[i], sc, g[i] + s)
  PROVE  \E h : Levels(mid \o Tail(list), new, h) /\ Placed(t, ids, mid \o Tail(list), sc, h)
<1> DEFINE both == mid \o Tail(list)
           m == Len(mid)
           l == Len(list)
           h == [i \in 1..Len(both) + 1 |-> IF i <= m THEN new ELSE g[i - m + 1] + s]
<1>1. /\ l \in Nat \ {0} /\ m \in Nat /\ both \in Seq(S) /\ Len(both) = m + l - 1
      /\ \A i \in 1..m : both[i] = mid[i]
      /\ \A i \in 1..Len(both) : i > m => i - m + 1 \in 2..l /\ both[i] = list[i - m + 1]
  BY ListMoves
<1>2. /\ g \in [1..l + 1 -> Nat \ {0}] /\ g[1] = depth
      /\ \A i \in 1..l : g[i + 1] = IF list[i] = Pop THEN g[i] - 1 ELSE g[i]
      /\ \A i, j \in 1..l + 1 : i <= j => g[j] <= g[i]
  BY DEF Levels
<1>3. g[2] = depth /\ depth # 0
  <2>1. 1 \in 1..l /\ list[1] # Pop /\ 1 \in 1..l + 1
    BY <1>1
  <2> QED BY <1>2, <2>1
<1>4. m # 0 <=> mid # <<>>
  OBVIOUS
<1>5. new \in Nat \ {0} /\ depth + s <= new
  BY <1>3
<1> HIDE DEF both, m, l
<1>6. \A i \in 1..Len(both) + 1 : i > m => i - m + 1 \in 2..(l + 1)
  BY <1>1
<1>7. ASSUME NEW i \in 1..Len(both) + 1
      PROVE  h[i] \in Nat \ {0} /\ h[i] <= new
  <2>1. CASE i <= m
    BY <1>5, <2>1
  <2>2. CASE i > m
    <3>1. i - m + 1 \in 2..(l + 1) /\ h[i] = g[i - m + 1] + s
      BY <1>1, <1>6, <2>2
    <3> HIDE DEF h
    <3>2. i - m + 1 \in 1..l + 1 /\ 2 \in 1..l + 1 /\ 2 <= i - m + 1
      BY <1>1, <3>1
    <3>3. g[i - m + 1] \in Nat \ {0} /\ g[i - m + 1] <= g[2]
      BY <1>2, <3>2
    <3> QED BY <1>3, <1>5, <3>1, <3>3
  <2> QED BY <1>1, <2>1, <2>2
<1>8. h \in [1..Len(both) + 1 -> Nat \ {0}]
  BY <1>7
<1>9. h[1] = new
  <2>1. 1 \in 1..Len(both) + 1
    BY <1>1
  <2>2. CASE 1 <= m
    BY <2>1, <2>2
  <2>3. CASE ~(1 <= m)
    <3>1. m = 0 /\ mid = <<>>
      BY <1>1, <1>4, <2>3
    <3>2. h[1] = g[2] + s
      BY <2>1, <3>1
    <3> QED BY <1>3, <3>1, <3>2
  <2> QED BY <2>2, <2>3
<1>10. ASSUME NEW i \in 1..Len(both)
       PROVE  /\ h[i + 1] = IF both[i] = Pop THEN h[i] - 1 ELSE h[i]
              /\ both[i] # Pop => Fits(t, ids, both[i], sc, h[i])
  <2>1. i \in 1..Len(both) + 1 /\ i + 1 \in 1..Len(both) + 1 /\ i \in Nat
    BY <1>1
  <2>2. CASE i < m
    <3>1. h[i] = new /\ h[i + 1] = new /\ i \in 1..m /\ i # m
      BY <1>1, <2>1, <2>2
    <3>2. both[i] = mid[i] /\ mid[i] # Pop
      BY <1>1, <3>1 DEF m
    <3>3. Fits(t, ids, mid[i], sc, new)
      BY <3>1, <3>2 DEF m
    <3> QED BY <3>1, <3>2, <3>3
  <2>3. CASE i = m
    <3>1. h[i] = new /\ h[i + 1] = g[2] + s /\ i \in 1..m
      BY <1>1, <2>1, <2>3
    <3>2. both[i] = mid[i] /\ mid # <<>>
      BY <1>1, <1>4, <2>3, <3>1
    <3>3. mid[i] # Pop => Fits(t, ids, mid[i], sc, new)
      BY <3>1 DEF m
    <3>4. new = depth + s + IF mid[i] = Pop THEN 1 ELSE 0
      BY <2>3, <3>2 DEF m
    <3> HIDE DEF h
    <3> QED BY <1>3, <3>1, <3>2, <3>3, <3>4
  <2>4. CASE i > m
    <3> DEFINE k == i - m + 1
    <3>1. k \in 2..l /\ both[i] = list[k] /\ k \in 1..l
      BY <1>1, <2>4
    <3>2. h[i] = g[k] + s /\ h[i + 1] = g[k + 1] + s
      BY <1>1, <2>1, <2>4
    <3> HIDE DEF h, k
    <3>3. g[k + 1] = IF list[k] = Pop THEN g[k] - 1 ELSE g[k]
      BY <1>2, <3>1
    <3>4. k \in 1..l + 1 /\ k + 1 \in 1..l + 1
      BY <1>1, <3>1
    <3>5. g[k] \in Nat /\ g[k + 1] \in Nat
      BY <1>2, <3>4
    <3>6. list[k] # Pop => Fits(t, ids, list[k], sc, g[k] + s)
      BY <3>1 DEF l
    <3> QED BY <3>1, <3>2, <3>3, <3>5, <3>6
  <2> QED BY <1>1, <2>1, <2>2, <2>3, <2>4
<1>11. ASSUME NEW i \in 1..Len(both) + 1, NEW j \in 1..Len(both) + 1, i <= j
       PROVE  h[j] <= h[i]
  <2>1. CASE i <= m
    BY <1>7, <2>1
  <2>2. CASE i > m
    <3>1. /\ i - m + 1 \in 1..l + 1 /\ j - m + 1 \in 1..l + 1 /\ i - m + 1 <= j - m + 1
          /\ h[i] = g[i - m + 1] + s /\ h[j] = g[j - m + 1] + s
      BY <1>1, <1>6, <1>11, <2>2
    <3> HIDE DEF h
    <3>2. g[j - m + 1] <= g[i - m + 1] /\ g[j - m + 1] \in Nat /\ g[i - m + 1] \in Nat
      BY <1>2, <3>1
    <3> QED BY <3>1, <3>2
  <2> QED BY <1>1, <2>1, <2>2
<1> HIDE DEF h
<1>12. Levels(both, new, h) /\ Placed(t, ids, both, sc, h)
  BY <1>8, <1>9, <1>10, <1>11 DEF Levels, Placed
<1> QED BY <1>12 DEF both

LEMMA NestedMoves ==
  ASSUME NEW t \in Trees, NEW list \in Seq(Node(t) \cup {Pop}), list # <<>>, Head(list) # Pop,
         Nested(t, list), NEW mid \in Seq(Node(t) \cup {Pop}),
         \A i \in 1..Len(mid) : mid[i] # Pop => mid[i] \in Children(t, Head(list))
  PROVE  Nested(t, mid \o Tail(list))
<1> DEFINE both == mid \o Tail(list)
           m == Len(mid)
           l == Len(list)
           top == Head(list)
<1>1. /\ l \in Nat \ {0} /\ m \in Nat /\ Len(both) = m + l - 1
      /\ \A i \in 1..m : both[i] = mid[i]
      /\ \A i \in 1..Len(both) : i > m => i - m + 1 \in 2..l /\ both[i] = list[i - m + 1]
  BY ListMoves
<1>2. top = list[1] /\ top # Pop /\ top \in Node(t) /\ 1 \in 1..l
  OBVIOUS
<1> HIDE DEF both, m, l, top
<1>3. ASSUME NEW i \in 1..m, both[i] # Pop
      PROVE  Above(t, both[i]) = {top} \cup Above(t, top)
  <2>1. both[i] \in Children(t, top)
    BY <1>1, <1>3 DEF m, top
  <2> QED BY <1>2, <2>1, AboveKid
<1>4. ASSUME NEW i \in 1..Len(both), i > m, both[i] # Pop
      PROVE  Above(t, both[i]) \subseteq Above(t, top)
  <2>1. i - m + 1 \in 2..l /\ both[i] = list[i - m + 1]
    BY <1>1, <1>4
  <2>2. 1 < i - m + 1 /\ i - m + 1 \in 1..l
    BY <1>1, <2>1
  <2> QED BY <1>2, <1>4, <2>1, <2>2 DEF Nested, l
<1>5. ASSUME NEW i \in 1..Len(both), NEW j \in 1..Len(both), i < j, both[i] # Pop, both[j] # Pop
      PROVE  Above(t, both[j]) \subseteq Above(t, both[i])
  <2>1. CASE j <= m
    <3>1. i \in 1..m /\ j \in 1..m
      BY <1>1, <1>5, <2>1
    <3> QED BY <1>3, <1>5, <3>1
  <2>2. CASE i <= m /\ j > m
    <3>1. i \in 1..m
      BY <1>1, <2>2
    <3> QED BY <1>3, <1>4, <1>5, <2>2, <3>1
  <2>3. CASE i > m
    <3>1. /\ i - m + 1 \in 1..l /\ j - m + 1 \in 1..l /\ i - m + 1 < j - m + 1
          /\ both[i] = list[i - m + 1] /\ both[j] = list[j - m + 1]
      <4>1. i - m + 1 \in 2..l /\ both[i] = list[i - m + 1]
        BY <1>1, <2>3
      <4>2. j > m
        BY <1>1, <1>5, <2>3
      <4>3. j - m + 1 \in 2..l /\ both[j] = list[j - m + 1]
        BY <1>1, <4>2
      <4> QED BY <1>1, <1>5, <4>1, <4>3
    <3> QED BY <1>5, <3>1 DEF Nested, l
  <2> QED BY <1>1, <2>1, <2>2, <2>3
<1> QED BY <1>5 DEF Nested, both

-----------------------------------------------------------------------------
(* The names of the scopes. *)

(* Numbers in order are all there, and in one order only. *)
LEMMA SortedOnto ==
  ASSUME NEW S \in SUBSET Nat, IsFiniteSet(S), NEW s, Sorted(s, S), NEW x \in S
  PROVE  \E i \in 1..Cardinality(S) : s[i] = x
<1> DEFINE n == Cardinality(S)
           D == 1..n
<1>1. n \in Nat
  BY FS_CardinalityType
<1>2. IsFiniteSet(D) /\ Cardinality(D) = n
  <2>1. 1 \in Int /\ n \in Int /\ n - 1 + 1 = n /\ (1 > n <=> n = 0)
    BY <1>1
  <2> HIDE DEF n
  <2>2. IsFiniteSet(1..n) /\ Cardinality(1..n) = IF 1 > n THEN 0 ELSE n - 1 + 1
    BY <2>1, FS_Interval
  <2> QED BY <2>1, <2>2
<1>3. s \in Injection(D, S)
  <2>1. s \in [D -> S] /\ \A i, j \in D : i < j => s[i] < s[j]
    BY DEF Sorted
  <2>2. ASSUME NEW i \in D, NEW j \in D, s[i] = s[j] PROVE i = j
    <3>1. s[i] \in Nat /\ s[j] \in Nat
      BY <2>1
    <3>2. ~(i < j) /\ ~(j < i)
      BY <2>1, <2>2, <3>1
    <3> QED BY <1>1, <3>2
  <2> HIDE DEF D
  <2> QED BY <2>1, <2>2 DEF Injection, IsInjective
<1> HIDE DEF D
<1>4. s \in Surjection(D, S)
  BY <1>2, <1>3, FS_Injection
<1> QED BY <1>4 DEF Surjection, D

LEMMA SortedOnce ==
  ASSUME NEW S \in SUBSET Nat, IsFiniteSet(S), NEW s, NEW u, Sorted(s, S), Sorted(u, S)
  PROVE  s = u
<1> DEFINE n == Cardinality(S)
           U == {i \in 1..n : s[i] # u[i]}
<1>1. n \in Nat /\ s \in [1..n -> S] /\ u \in [1..n -> S]
  BY FS_CardinalityType DEF Sorted
<1>2. ASSUME NEW a, NEW b, Sorted(a, S), Sorted(b, S), NEW i \in 1..n,
             \A j \in 1..n : j < i => a[j] = b[j], a[i] < b[i]
      PROVE  FALSE
  <2>1. a \in [1..n -> S] /\ b \in [1..n -> S]
    BY <1>2 DEF Sorted
  <2>2. PICK j \in 1..n : b[j] = a[i]
    <3>1. a[i] \in S
      BY <2>1
    <3>2. \A x \in S : \E j \in 1..Cardinality(S) : b[j] = x
      BY <1>2, SortedOnto
    <3> QED BY <3>1, <3>2
  <2>3. a[i] \in Nat /\ b[i] \in Nat /\ a[j] \in Nat /\ b[j] \in Nat
    BY <2>1
  <2>4. CASE j < i
    <3>1. a[j] = b[j] /\ a[j] < a[i]
      BY <1>2, <2>4 DEF Sorted
    <3> QED BY <2>2, <2>3, <3>1
  <2>5. CASE i < j
    <3>1. b[i] < b[j]
      BY <1>2, <2>5 DEF Sorted
    <3> QED BY <1>2, <2>2, <2>3, <3>1
  <2>6. CASE i = j
    BY <1>2, <2>2, <2>3, <2>6
  <2> HIDE DEF n
  <2> QED BY <1>1, <2>4, <2>5, <2>6
<1>3. U = {}
  <2> SUFFICES ASSUME U # {} PROVE FALSE
    OBVIOUS
  <2>1. U \in SUBSET Nat
    BY <1>1
  <2>2. PICK i \in U : \A x \in U : i <= x
    <3> HIDE DEF U
    <3> QED BY <2>1, LeastOf
  <2>3. i \in 1..n /\ s[i] # u[i]
    OBVIOUS
  <2>4. ASSUME NEW j \in 1..n, j < i PROVE s[j] = u[j]
    <3>1. j \in U => i <= j
      BY <2>2
    <3>2. ~(i <= j)
      BY <1>1, <2>4
    <3> QED BY <3>1, <3>2
  <2>5. s[i] \in Nat /\ u[i] \in Nat
    BY <1>1
  <2> HIDE DEF n, U
  <2>6. s[i] < u[i] \/ u[i] < s[i]
    BY <2>3, <2>5
  <2> QED BY <1>2, <2>3, <2>4, <2>6
<1> QED BY <1>1, <1>3

LEMMA OrderSorted ==
  ASSUME NEW S \in SUBSET Nat, IsFiniteSet(S)
  PROVE  Sorted(InOrder(S), S)
<1>1. \E x \in [1..Cardinality(S) -> S] : \A i, j \in 1..Cardinality(S) : i < j => x[i] < x[j]
  BY SortedExists DEF Sorted
<1> QED BY <1>1 DEF InOrder, Sorted

(* A number above the others comes last. *)
LEMMA OrderAppends ==
  ASSUME NEW S \in SUBSET Nat, IsFiniteSet(S), NEW m \in Nat, \A x \in S : x < m
  PROVE  InOrder(S \cup {m}) = Append(InOrder(S), m)
<1> DEFINE s == InOrder(S)
           n == Cardinality(S)
           T == S \cup {m}
           u == Append(s, m)
<1>1. n \in Nat /\ s \in [1..n -> S] /\ \A i, j \in 1..n : i < j => s[i] < s[j]
  BY OrderSorted, FS_CardinalityType DEF Sorted
<1>2. IsFiniteSet(T) /\ Cardinality(T) = n + 1 /\ T \in SUBSET Nat
  <2>1. m \notin S
    BY <1>1
  <2> QED BY <2>1, FS_AddElement
<1> HIDE DEF n, s
<1>3. s \in Seq(S) /\ Len(s) = n
  BY <1>1
<1>4. u \in Seq(T) /\ Len(u) = n + 1 /\ u[n + 1] = m /\ \A i \in 1..n : u[i] = s[i]
  <2>1. s \in Seq(T) /\ m \in T
    BY <1>3
  <2> HIDE DEF T
  <2> QED BY <1>3, <2>1
<1> HIDE DEF u, T
<1>5. u \in [1..(n + 1) -> T]
  BY <1>1, <1>4
<1>6. ASSUME NEW i \in 1..(n + 1), NEW j \in 1..(n + 1), i < j PROVE u[i] < u[j]
  <2>1. i \in 1..n /\ u[i] = s[i] /\ s[i] \in S
    BY <1>1, <1>4, <1>6
  <2>2. CASE j = n + 1
    BY <1>4, <2>1, <2>2
  <2>3. CASE j # n + 1
    <3>1. j \in 1..n /\ u[j] = s[j]
      BY <1>1, <1>4, <2>3
    <3> QED BY <1>1, <1>6, <2>1, <3>1
  <2> QED BY <2>2, <2>3
<1>7. Sorted(u, T)
  BY <1>2, <1>5, <1>6 DEF Sorted
<1>8. InOrder(T) = u
  BY <1>2, <1>7, OrderSorted, SortedOnce
<1> QED BY <1>8 DEF T, u, s

\* The scopes that have a name, of the first k.
Titles(sc, k) == {i \in 1..k : sc[i].kind # "File"}

LEMMA TitlesAre ==
  ASSUME NEW sc, NEW k \in Nat
  PROVE  /\ Titles(sc, k) \in SUBSET Nat /\ IsFiniteSet(Titles(sc, k))
         /\ NamesTo(sc, k) = [i \in DOMAIN InOrder(Titles(sc, k)) |->
                                NameOf(sc[InOrder(Titles(sc, k))[i]])]
         /\ InOrder(Titles(sc, k)) \in Seq(Titles(sc, k))
<1>1. Titles(sc, k) \in SUBSET Nat /\ Titles(sc, k) \in SUBSET (1..k)
  BY DEF Titles
<1>2. IsFiniteSet(Titles(sc, k))
  <2>1. IsFiniteSet(1..k)
    BY FS_Interval
  <2> QED BY <1>1, <2>1, FS_Subset
<1>3. InOrder(Titles(sc, k)) \in Seq(Titles(sc, k))
  BY <1>1, <1>2, InOrderIs
<1> QED BY <1>1, <1>2, <1>3 DEF NamesTo, Map, Titles

LEMMA NamesSame ==
  ASSUME NEW sc, NEW sc2, NEW k \in Nat, \A i \in 1..k : sc2[i] = sc[i]
  PROVE  NamesTo(sc2, k) = NamesTo(sc, k)
<1> DEFINE T == Titles(sc, k)
           o == InOrder(T)
<1>1. Titles(sc2, k) = T
  BY DEF Titles
<1>2. o \in Seq(T) /\ T \subseteq 1..k
  BY TitlesAre DEF Titles
<1>3. \A i \in DOMAIN o : sc2[o[i]] = sc[o[i]]
  <2> HIDE DEF o, T
  <2> SUFFICES ASSUME NEW i \in DOMAIN o PROVE sc2[o[i]] = sc[o[i]]
    OBVIOUS
  <2>1. o[i] \in T
    BY <1>2
  <2> QED BY <1>2, <2>1
<1>4. NamesTo(sc2, k) = [i \in DOMAIN o |-> NameOf(sc2[o[i]])]
  BY <1>1, TitlesAre
<1>5. NamesTo(sc, k) = [i \in DOMAIN o |-> NameOf(sc[o[i]])]
  BY TitlesAre
<1> HIDE DEF o
<1> QED BY <1>3, <1>4, <1>5

LEMMA NamesNone ==
  ASSUME NEW sc, NEW k \in Nat, \A i \in 1..k : sc[i].kind = "File"
  PROVE  NamesTo(sc, k) = <<>>
<1> DEFINE o == InOrder(Titles(sc, k))
<1>1. Titles(sc, k) = {}
  BY DEF Titles
<1>2. o \in Seq({})
  BY <1>1, TitlesAre
<1>3. NamesTo(sc, k) = [i \in DOMAIN o |-> NameOf(sc[o[i]])]
  BY TitlesAre
<1> HIDE DEF o
<1>4. Len(o) = 0 /\ DOMAIN o = {}
  BY <1>2
<1> QED BY <1>3, <1>4

LEMMA NamesNext ==
  ASSUME NEW sc, NEW k \in Nat \ {0}
  PROVE  NamesTo(sc, k) = IF sc[k].kind = "File" THEN NamesTo(sc, k - 1)
                          ELSE Append(NamesTo(sc, k - 1), NameOf(sc[k]))
<1> DEFINE T == Titles(sc, k - 1)
           o == InOrder(T)
           n == Len(o)
           u == InOrder(Titles(sc, k))
<1>1. k - 1 \in Nat /\ k \in Nat
  OBVIOUS
<1>2. CASE sc[k].kind = "File"
  <2>1. Titles(sc, k) = T
    BY <1>1, <1>2 DEF Titles
  <2> QED BY <1>1, <1>2, <2>1 DEF NamesTo, Titles
<1>3. CASE sc[k].kind # "File"
  <2>1. Titles(sc, k) = T \cup {k}
    BY <1>1, <1>3 DEF Titles
  <2>2. T \in SUBSET Nat /\ IsFiniteSet(T) /\ (\A x \in T : x < k) /\ o \in Seq(T)
    <3>1. \A x \in T : x < k
      BY <1>1 DEF Titles
    <3> QED BY <1>1, <3>1, TitlesAre
  <2>3. u = Append(o, k)
    BY <2>1, <2>2, OrderAppends
  <2>4. n \in Nat /\ DOMAIN o = 1..n /\ DOMAIN u = 1..(n + 1) /\ u[n + 1] = k
        /\ \A i \in 1..n : u[i] = o[i]
    <3> HIDE DEF o, u
    <3>1. o \in Seq(Nat)
      BY <2>2
    <3> HIDE DEF T
    <3> QED BY <2>3, <3>1
  <2> DEFINE old == NamesTo(sc, k - 1)
             new == NamesTo(sc, k)
  <2>5. old = [i \in DOMAIN o |-> NameOf(sc[o[i]])]
    BY <1>1, TitlesAre
  <2>6. new = [i \in DOMAIN u |-> NameOf(sc[u[i]])]
    BY <1>1, TitlesAre
  <2> HIDE DEF o, u, old, new, T
  <2>7. Listed(old) /\ Len(old) = n /\ \A i \in 1..n : old[i] = NameOf(sc[o[i]])
    <3>1. DOMAIN old = 1..n /\ old = [i \in 1..n |-> old[i]]
      BY <2>4, <2>5
    <3> HIDE DEF n
    <3> QED BY <2>4, <2>5, <3>1, ListedMap
  <2>8. DOMAIN new = 1..(n + 1) /\ new = [i \in 1..(n + 1) |-> new[i]]
        /\ new[n + 1] = NameOf(sc[k]) /\ \A i \in 1..n : new[i] = old[i]
    BY <2>4, <2>5, <2>6
  <2>9. new = Append(old, NameOf(sc[k]))
    <3> DEFINE z == NameOf(sc[k])
               w == Append(old, z)
    <3>1. PICK X : old \in Seq(X)
      BY <2>7 DEF Listed
    <3>2. old \in Seq(X \cup {z})
      BY <3>1
    <3> HIDE DEF z
    <3>3. w \in Seq(X \cup {z}) /\ Len(w) = n + 1 /\ w[n + 1] = z /\ \A i \in 1..n : w[i] = old[i]
      BY <2>7, <3>2
    <3> HIDE DEF n
    <3> HIDE DEF w
    <3>4. DOMAIN w = 1..(n + 1) /\ w = [i \in 1..(n + 1) |-> w[i]]
      <4>1. w \in [1..(n + 1) -> X \cup {z}]
        BY <2>4, <3>3
      <4> QED BY <4>1
    <3>5. \A i \in 1..(n + 1) : w[i] = new[i]
      <4> SUFFICES ASSUME NEW i \in 1..(n + 1) PROVE w[i] = new[i]
        OBVIOUS
      <4>1. i = n + 1 \/ i \in 1..n
        BY <2>4
      <4>2. w[n + 1] = new[n + 1]
        BY <2>8, <3>3 DEF z
      <4> QED BY <2>8, <3>3, <4>1, <4>2
    <3>6. w = new
      BY <2>8, <3>4, <3>5
    <3> QED BY <3>6 DEF w, z
  <2> QED BY <1>3, <2>9 DEF old, new
<1> QED BY <1>2, <1>3

-----------------------------------------------------------------------------
(* What a step of the walk does to the scopes. *)

\* Each entry of two lists in one is from the one or the other.
LEMMA BothAre ==
  ASSUME NEW s, NEW u, Listed(s), Listed(u)
  PROVE  /\ Listed(s \o u) /\ Len(s) \in Nat /\ Len(u) \in Nat /\ Len(s \o u) = Len(s) + Len(u)
         /\ \A i \in 1..Len(s) : i \in 1..Len(s \o u) /\ (s \o u)[i] = s[i]
         /\ \A i \in 1..Len(u) : Len(s) + i \in 1..Len(s \o u) /\ (s \o u)[Len(s) + i] = u[i]
         /\ \A i \in 1..Len(s \o u) : i \in 1..Len(s) \/ \E k \in 1..Len(u) : i = Len(s) + k
<1> DEFINE both == s \o u
<1>1. /\ Listed(both) /\ Len(s) \in Nat /\ Len(u) \in Nat /\ Len(both) = Len(s) + Len(u)
      /\ \A i \in 1..Len(s) : both[i] = s[i]
      /\ \A i \in 1..Len(u) : both[Len(s) + i] = u[i]
  BY ListedBoth, ListedIs
<1> HIDE DEF both
<1>2. /\ \A i \in 1..Len(s) : i \in 1..Len(both)
      /\ \A i \in 1..Len(u) : Len(s) + i \in 1..Len(both)
  BY <1>1
<1>3. ASSUME NEW i \in 1..Len(both)
      PROVE  i \in 1..Len(s) \/ \E k \in 1..Len(u) : i = Len(s) + k
  <2>1. CASE i > Len(s)
    <3>1. i - Len(s) \in 1..Len(u) /\ i = Len(s) + (i - Len(s))
      BY <1>1, <2>1
    <3> QED BY <3>1
  <2> QED BY <1>1, <2>1
<1> QED BY <1>1, <1>2, <1>3 DEF both

(* New nodes have ids that no scope has. *)
LEMMA TitledStays ==
  ASSUME NEW t, NEW ns, NEW new, NEW sc, Titled(t, ns, sc), Listed(ns), Listed(new),
         Scoped(sc, IdsOf(ns)), \A i \in 1..Len(new) : new[i].id \notin IdsOf(ns)
  PROVE  Titled(t, ns \o new, sc)
<1> DEFINE both == ns \o new
<1>0. /\ \A i \in 1..Len(ns) : both[i] = ns[i]
      /\ \A i \in 1..Len(new) : both[Len(ns) + i] = new[i]
      /\ \A i \in 1..Len(both) : i \in 1..Len(ns) \/ \E j \in 1..Len(new) : i = Len(ns) + j
  BY BothAre
<1> HIDE DEF both
<1>1. ASSUME NEW k \in 1..Len(sc), NEW i \in 1..Len(both), both[i].id = sc[k]
      PROVE  i \in 1..Len(ns) /\ both[i] = ns[i]
  <2>1. sc[k] \in IdsOf(ns)
    BY DEF Scoped
  <2>2. ASSUME NEW j \in 1..Len(new), i = Len(ns) + j PROVE FALSE
    <3>1. both[i] = new[j]
      BY <1>0, <2>2
    <3> QED BY <1>1, <2>1, <3>1
  <2> QED BY <1>0, <2>2
<1>2. Titled(t, both, sc)
  BY <1>1 DEF Titled
<1> QED BY <1>2 DEF both

LEMMA TitledOpens ==
  ASSUME NEW t, NEW ns, NEW sc, Titled(t, ns, sc), Listed(sc), NEW id,
         id.kind = "File" => \A k \in 1..Len(sc) : sc[k].kind = "File",
         id.kind # "File" /\ ~GoMethod(t, id) => \A i \in 1..Len(ns) :
           ns[i].id = id => ns[i].qualified = Append(NamesTo(sc, Len(sc)), NameOf(id))
  PROVE  Titled(t, ns, Append(sc, id))
<1> DEFINE n == Len(sc)
           sc2 == Append(sc, id)
<1>1. n \in Nat /\ Len(sc2) = n + 1 /\ sc2[n + 1] = id /\ \A k \in 1..n : sc2[k] = sc[k]
  <2>1. PICK S : sc \in Seq(S)
    BY DEF Listed
  <2>2. sc \in Seq(S \cup {id}) /\ id \in S \cup {id}
    BY <2>1
  <2> QED BY <2>2
<1> HIDE DEF sc2
<1>2. ASSUME NEW k \in 1..Len(sc2)
      PROVE  /\ k - 1 \in Nat /\ k \in Nat /\ NamesTo(sc2, k - 1) = NamesTo(sc, k - 1)
             /\ (k \in 1..n /\ sc2[k] = sc[k]) \/ (k = n + 1 /\ sc2[k] = id)
  <2>1. k - 1 \in Nat /\ k \in Nat /\ k - 1 <= n /\ (k \in 1..n \/ k = n + 1)
    BY <1>1
  <2>2. \A i \in 1..(k - 1) : sc2[i] = sc[i]
    BY <1>1, <2>1
  <2>3. NamesTo(sc2, k - 1) = NamesTo(sc, k - 1)
    BY <2>1, <2>2, NamesSame
  <2> QED BY <1>1, <2>1, <2>3
<1> HIDE DEF n
<1>3. ASSUME NEW k \in 1..Len(sc2), NEW i \in 1..Len(ns), ns[i].id = sc2[k], sc2[k].kind # "File",
             ~GoMethod(t, sc2[k])
      PROVE  ns[i].qualified = Append(NamesTo(sc2, k - 1), NameOf(sc2[k]))
  <2>1. CASE k \in 1..n /\ sc2[k] = sc[k]
    BY <1>2, <1>3, <2>1 DEF Titled, n
  <2>2. CASE k = n + 1 /\ sc2[k] = id
    <3>1. ns[i].qualified = Append(NamesTo(sc, n), NameOf(id))
      BY <1>3, <2>2 DEF n
    <3>2. k - 1 = n
      BY <1>1, <2>2
    <3> QED BY <1>2, <2>2, <3>1, <3>2
  <2> QED BY <1>2, <2>1, <2>2
<1>4. ASSUME NEW k \in 1..Len(sc2), sc2[k].kind = "File", NEW j \in 1..k
      PROVE  sc2[j].kind = "File"
  <2>1. CASE k \in 1..n /\ sc2[k] = sc[k]
    <3>1. j \in 1..n
      BY <1>1, <2>1
    <3> QED BY <1>1, <1>4, <2>1, <3>1 DEF Titled, n
  <2>2. CASE k = n + 1 /\ sc2[k] = id
    <3>1. j \in 1..n \/ j = k
      BY <1>1, <2>2
    <3> QED BY <1>1, <1>4, <2>2, <3>1 DEF n
  <2> QED BY <1>2, <2>1, <2>2
<1> QED BY <1>3, <1>4 DEF Titled, sc2

LEMMA TitledLeaves ==
  ASSUME NEW t, NEW ns, NEW sc, Titled(t, ns, sc), Listed(sc), NEW sc2, Listed(sc2), Len(sc2) <= Len(sc),
         \A k \in 1..Len(sc2) : sc2[k] = sc[k]
  PROVE  Titled(t, ns, sc2)
<1>1. Len(sc) \in Nat /\ Len(sc2) \in Nat
  BY ListedIs
<1>2. ASSUME NEW k \in 1..Len(sc2)
      PROVE  k \in 1..Len(sc) /\ sc2[k] = sc[k] /\ NamesTo(sc2, k - 1) = NamesTo(sc, k - 1)
             /\ \A j \in 1..k : sc2[j] = sc[j]
  <2>1. k \in 1..Len(sc) /\ k - 1 \in Nat /\ \A j \in 1..k : j \in 1..Len(sc2)
    BY <1>1
  <2>2. \A i \in 1..(k - 1) : sc2[i] = sc[i]
    BY <1>1, <2>1
  <2> QED BY <2>1, <2>2, NamesSame
<1> QED BY <1>2 DEF Titled

(* The names of all scopes are the qualified name of the innermost one. *)
LEMMA InnermostNamed ==
  ASSUME NEW t, NEW ns, NEW sc, Titled(t, ns, sc), Scoped(sc, IdsOf(ns)),
         ~GoMethod(t, sc[Len(sc)])
  PROVE  /\ sc[Len(sc)].kind = "File" => NamesTo(sc, Len(sc)) = <<>>
         /\ \A i \in 1..Len(ns) : ns[i].id = sc[Len(sc)] /\ sc[Len(sc)].kind # "File" =>
              ns[i].qualified = NamesTo(sc, Len(sc))
<1> DEFINE n == Len(sc)
<1>1. n \in Nat \ {0} /\ n \in 1..n
  <2>1. PICK S : sc \in Seq(S)
    BY DEF Scoped, Listed
  <2> QED BY <2>1 DEF Scoped
<1> HIDE DEF n
<1>2. ASSUME sc[n].kind = "File" PROVE NamesTo(sc, n) = <<>>
  <2>1. \A j \in 1..n : sc[j].kind = "File"
    BY <1>1, <1>2 DEF Titled, n
  <2> QED BY <1>1, <2>1, NamesNone
<1>3. ASSUME NEW i \in 1..Len(ns), ns[i].id = sc[n], sc[n].kind # "File"
      PROVE  ns[i].qualified = NamesTo(sc, n)
  <2>1. ns[i].qualified = Append(NamesTo(sc, n - 1), NameOf(sc[n]))
    BY <1>1, <1>3 DEF Titled, n
  <2> QED BY <1>1, <1>3, <2>1, NamesNext
<1> QED BY <1>2, <1>3 DEF n

(* A new node is named by all scopes, and joined to the innermost one (or to  *)
(* the file, when only the file is in scope).                                *)
Told(t, sc, new, parent) ==
  /\ parent = sc[Len(sc)] \/ (parent.kind = "File" /\ sc[Len(sc)].kind = "File")
  /\ \A i \in 1..Len(new) : ~GoMethod(t, new[i].id) =>
       new[i].qualified = Append(NamesTo(sc, Len(sc)), NameOf(new[i].id))

LEMMA NamesListed ==
  ASSUME NEW sc, NEW k \in Nat
  PROVE  Listed(NamesTo(sc, k))
<1> DEFINE o == InOrder(Titles(sc, k))
           ns == NamesTo(sc, k)
<1>1. ns = [i \in DOMAIN o |-> NameOf(sc[o[i]])]
  BY TitlesAre
<1>2. o \in Seq(Titles(sc, k))
  BY TitlesAre
<1> HIDE DEF o, ns
<1>3. Len(o) \in Nat /\ DOMAIN o = 1..Len(o)
  BY <1>2
<1>4. DOMAIN ns = 1..Len(o) /\ ns = [i \in 1..Len(o) |-> ns[i]]
  BY <1>1, <1>3
<1>5. Listed(ns)
  BY <1>3, <1>4, ListedMap
<1> QED BY <1>5 DEF ns

LEMMA JoinedMoves ==
  ASSUME NEW t, NEW ns, NEW cs, NEW sc, Joined(t, ns, cs), Titled(t, ns, sc),
         Scoped(sc, IdsOf(ns)), Listed(ns), Listed(cs), Len(ns) = Len(cs) + 1,
         \A i \in 1..Len(cs) : cs[i].parent \in IdsOf(ns),
         NEW new, NEW joins, Listed(new), Listed(joins), Len(joins) = Len(new),
         NEW parent \in IdsOf(ns), Told(t, sc, new, parent),
         \A i \in 1..Len(new) : /\ joins[i].child = new[i].id /\ joins[i].parent = parent
                                /\ new[i].id \notin IdsOf(ns)
  PROVE  Joined(t, ns \o new, cs \o joins)
<1> DEFINE nodes2 == ns \o new
           edges2 == cs \o joins
           last == sc[Len(sc)]
<1>1. /\ \A i \in 1..Len(ns) : nodes2[i] = ns[i]
      /\ \A i \in 1..Len(new) : nodes2[Len(ns) + i] = new[i]
      /\ \A i \in 1..Len(nodes2) : i \in 1..Len(ns) \/ \E k \in 1..Len(new) : i = Len(ns) + k
  BY ONLY Listed(ns), Listed(new), BothAre
<1>2. /\ \A i \in 1..Len(cs) : edges2[i] = cs[i]
      /\ \A i \in 1..Len(joins) : edges2[Len(cs) + i] = joins[i]
      /\ \A i \in 1..Len(edges2) : i \in 1..Len(cs) \/ \E k \in 1..Len(joins) : i = Len(cs) + k
  BY ONLY Listed(cs), Listed(joins), BothAre
<1>3. Len(ns) \in Nat /\ Len(cs) \in Nat /\ Len(new) \in Nat /\ Len(sc) \in Nat
  BY ListedIs DEF Scoped
<1> HIDE DEF nodes2, edges2
<1>4. ASSUME NEW j \in 1..Len(nodes2), nodes2[j].id \in IdsOf(ns)
      PROVE  j \in 1..Len(ns) /\ nodes2[j] = ns[j]
  <2>1. ASSUME NEW k \in 1..Len(new), j = Len(ns) + k PROVE FALSE
    <3>1. nodes2[j] = new[k]
      BY <1>1, <2>1
    <3> QED BY <1>4, <3>1
  <2> QED BY <1>1, <2>1
<1> DEFINE Right(e, x, y) ==
             x.qualified = (IF e.parent.kind = "File" THEN <<>> ELSE y.qualified) \o <<NameOf(e.child)>>
<1>5. ASSUME NEW i \in 1..Len(edges2), NEW j \in 1..Len(nodes2), edges2[i].parent = nodes2[j].id,
             ~GoMethod(t, edges2[i].child), ~GoMethod(t, edges2[i].parent)
      PROVE  Right(edges2[i], nodes2[i + 1], nodes2[j])
  <2>1. CASE i \in 1..Len(cs)
    <3>1. edges2[i] = cs[i] /\ i + 1 \in 1..Len(ns)
      BY <1>2, <1>3, <2>1
    <3>2. nodes2[i + 1] = ns[i + 1] /\ cs[i].parent \in IdsOf(ns)
      BY <1>1, <2>1, <3>1
    <3>3. j \in 1..Len(ns) /\ nodes2[j] = ns[j]
      BY <1>4, <1>5, <3>1, <3>2
    <3> QED BY <1>5, <2>1, <3>1, <3>2, <3>3 DEF Joined
  <2>2. ASSUME NEW k \in 1..Len(joins), i = Len(cs) + k
        PROVE  Right(edges2[i], nodes2[i + 1], nodes2[j])
    <3>1. edges2[i] = joins[k] /\ k \in 1..Len(new) /\ i + 1 = Len(ns) + k
      <4>1. edges2[i] = joins[k]
        BY <1>2, <2>2
      <4>2. k \in Nat /\ k \in 1..Len(new) /\ Len(ns) = Len(cs) + 1
        BY <1>3
      <4> QED BY <1>3, <2>2, <4>1, <4>2
    <3>2. nodes2[i + 1] = new[k] /\ joins[k].child = new[k].id /\ joins[k].parent = parent
      BY <1>1, <3>1
    <3>3. j \in 1..Len(ns) /\ nodes2[j] = ns[j] /\ ns[j].id = parent
      BY <1>4, <1>5, <3>1, <3>2
    <3>4. new[k].qualified = Append(NamesTo(sc, Len(sc)), NameOf(new[k].id))
      BY <1>5, <3>1, <3>2 DEF Told
    <3>5. ~GoMethod(t, last)
      <4>1. ~GoMethod(t, parent)
        BY <1>5, <3>1, <3>2
      <4>2. CASE parent = last
        BY <4>1, <4>2
      <4>3. CASE last.kind = "File"
        BY <4>3 DEF GoMethod
      <4> QED BY <4>2, <4>3 DEF Told
    <3>6. /\ last.kind = "File" => NamesTo(sc, Len(sc)) = <<>>
          /\ ns[j].id = last /\ last.kind # "File" => ns[j].qualified = NamesTo(sc, Len(sc))
      BY <3>3, <3>5, InnermostNamed
    <3> DEFINE names == NamesTo(sc, Len(sc))
    <3>7. Append(names, NameOf(new[k].id)) = names \o <<NameOf(new[k].id)>>
      BY <1>3, NamesListed, AppendIs
    <3>8. (parent = last) \/ (parent.kind = "File" /\ last.kind = "File")
      BY DEF Told
    <3> HIDE DEF names, last
    <3>9. names = IF parent.kind = "File" THEN <<>> ELSE ns[j].qualified
      BY <3>3, <3>6, <3>8 DEF names
    <3>10. new[k].qualified = names \o <<NameOf(new[k].id)>>
      BY <3>4, <3>7 DEF names
    <3> QED BY <3>1, <3>2, <3>3, <3>9, <3>10
  <2> QED BY <1>2, <2>1, <2>2
<1>6. Joined(t, nodes2, edges2)
  BY <1>5 DEF Joined
<1> QED BY <1>6 DEF nodes2, edges2

(* The references that are made at node n: at most one is a call, which is    *)
(* charged to this id.                                                       *)
CallsHere(t, n, id, more) ==
  /\ \A i \in CallsOf(more) : CallAt(t, n, more[i]) /\ more[i].from = id
  /\ \A i, j \in CallsOf(more) : i = j

LEMMA ChargedMoves ==
  ASSUME LinesApart, NEW t \in Trees, NEW V \in SUBSET Node(t), NEW ids, NEW ids2,
         Beyond(t, V, ids, ids2), Owned(t, V, ids), \A n \in V : Above(t, n) \subseteq V,
         NEW rs, Listed(rs), Charged(t, V, ids, rs), NEW n \in Node(t), n \notin V,
         Above(t, n) \subseteq V, NEW id, ChargedTo(t, ids, n, id),
         NEW more, Listed(more), CallsHere(t, n, id, more), NEW W, V \subseteq W, n \in W
  PROVE  Charged(t, W, ids2, rs \o more)
<1> DEFINE both == rs \o more
           k == Len(rs)
<1>1. /\ k \in Nat
      /\ \A i \in 1..k : i \in 1..Len(both) /\ both[i] = rs[i]
      /\ \A i \in 1..Len(more) : k + i \in 1..Len(both) /\ both[k + i] = more[i]
      /\ \A i \in 1..Len(both) : i \in 1..k \/ \E x \in 1..Len(more) : i = k + x
  BY BothAre
<1> HIDE DEF both, k
<1>2. PICK at \in [CallsOf(rs) -> V] :
        /\ \A i, j \in CallsOf(rs) : at[i] = at[j] => i = j
        /\ \A i \in CallsOf(rs) : CallAt(t, at[i], rs[i]) /\ ChargedTo(t, ids, at[i], rs[i].from)
  BY DEF Charged
<1> DEFINE at2 == [i \in CallsOf(both) |-> IF i \in 1..k THEN at[i] ELSE n]
<1>3. ASSUME NEW i \in CallsOf(both), i \in 1..k
      PROVE  i \in CallsOf(rs) /\ both[i] = rs[i] /\ at2[i] = at[i] /\ at[i] \in V
  <2>1. both[i] = rs[i] /\ both[i].kind = "calls"
    BY <1>1, <1>3 DEF CallsOf
  <2>2. i \in CallsOf(rs)
    BY <1>3, <2>1 DEF CallsOf, k
  <2> QED BY <1>2, <1>3, <2>1, <2>2
<1>4. ASSUME NEW i \in CallsOf(both), i \notin 1..k
      PROVE  \E x \in CallsOf(more) : i = k + x /\ both[i] = more[x] /\ at2[i] = n
  <2>1. i \in 1..Len(both) /\ both[i].kind = "calls"
    BY DEF CallsOf
  <2>2. PICK x \in 1..Len(more) : i = k + x
    BY <1>1, <1>4, <2>1
  <2>3. both[i] = more[x] /\ x \in CallsOf(more)
    BY <1>1, <2>1, <2>2 DEF CallsOf
  <2> QED BY <1>4, <2>2, <2>3
<1>5. at2 \in [CallsOf(both) -> W]
  BY <1>3, <1>4
<1> HIDE DEF at2
<1>6. ASSUME NEW i \in CallsOf(both), NEW j \in CallsOf(both), at2[i] = at2[j]
      PROVE  i = j
  <2>1. CASE i \in 1..k /\ j \in 1..k
    BY <1>2, <1>3, <1>6, <2>1
  <2>2. CASE i \notin 1..k /\ j \notin 1..k
    <3>1. PICK x \in CallsOf(more) : i = k + x
      BY <1>4, <2>2
    <3>2. PICK y \in CallsOf(more) : j = k + y
      BY <1>4, <2>2
    <3>3. x = y
      BY DEF CallsHere
    <3> QED BY <3>1, <3>2, <3>3
  <2>3. CASE (i \in 1..k) # (j \in 1..k)
    <3>1. ASSUME i \in 1..k, j \notin 1..k PROVE FALSE
      BY <1>3, <1>4, <1>6, <3>1
    <3>2. ASSUME j \in 1..k, i \notin 1..k PROVE FALSE
      BY <1>3, <1>4, <1>6, <3>2
    <3> QED BY <2>3, <3>1, <3>2
  <2> QED BY <2>1, <2>2, <2>3
<1>7. ASSUME NEW i \in CallsOf(both)
      PROVE  CallAt(t, at2[i], both[i]) /\ ChargedTo(t, ids2, at2[i], both[i].from)
  <2>1. CASE i \in 1..k
    <3>1. i \in CallsOf(rs) /\ both[i] = rs[i] /\ at2[i] = at[i] /\ at[i] \in V
      BY <1>3, <2>1
    <3>2. CallAt(t, at[i], rs[i]) /\ ChargedTo(t, ids, at[i], rs[i].from) /\ Above(t, at[i]) \subseteq V
      BY <1>2, <3>1
    <3> DEFINE m == at[i]
               to == rs[i].from
    <3>3. ChargedTo(t, ids, m, to) /\ Above(t, m) \subseteq V
      BY <3>2
    <3> HIDE DEF m, to
    <3>4. ChargedTo(t, ids2, m, to)
      BY <3>3, ChargedStays
    <3> QED BY <3>1, <3>2, <3>4 DEF m, to
  <2>2. CASE i \notin 1..k
    <3>1. PICK x \in CallsOf(more) : i = k + x /\ both[i] = more[x] /\ at2[i] = n
      BY <1>4, <2>2
    <3>2. CallAt(t, n, more[x]) /\ more[x].from = id
      BY DEF CallsHere
    <3>3. ChargedTo(t, ids2, n, id)
      BY ChargedStays
    <3> QED BY <3>1, <3>2, <3>3
  <2> QED BY <2>1, <2>2
<1>8. Charged(t, W, ids2, both)
  BY <1>5, <1>6, <1>7 DEF Charged
<1> QED BY <1>8 DEF both

LEMMA OwnedMoves ==
  ASSUME LinesApart, NEW t \in Trees, NEW V \in SUBSET Node(t), NEW ids, NEW ids2,
         Beyond(t, V, ids, ids2), Owned(t, V, ids), NEW W,
         \A a \in W \ V : t.kind[a] = "impl_item" => Holders(t, ids2, a) # {}
  PROVE  Owned(t, W, ids2)
<1> SUFFICES ASSUME NEW a \in W, t.kind[a] = "impl_item"
             PROVE  Holders(t, ids2, a) # {}
  BY DEF Owned
<1>1. CASE a \in V
  <2>1. Holders(t, ids, a) # {}
    BY <1>1 DEF Owned
  <2> QED BY <1>1, <2>1, HoldersStay
<1>2. CASE a \notin V
  BY <1>2
<1> QED BY <1>1, <1>2

LEMMA PlainMoves ==
  ASSUME NEW t, NEW ns, Plain(t, ns), Listed(ns), NEW new, Listed(new),
         t.lang = "Rust" => \A i \in 1..Len(new) :
           new[i].id.kind \in OwnerKinds => new[i].qualified = <<NameOf(new[i].id)>>
  PROVE  Plain(t, ns \o new)
<1> DEFINE both == ns \o new
<1>1. /\ \A i \in 1..Len(ns) : both[i] = ns[i]
      /\ \A i \in 1..Len(new) : both[Len(ns) + i] = new[i]
      /\ \A i \in 1..Len(both) : i \in 1..Len(ns) \/ \E k \in 1..Len(new) : i = Len(ns) + k
  BY BothAre
<1> HIDE DEF both
<1>2. ASSUME t.lang = "Rust", NEW i \in 1..Len(both), both[i].id.kind \in OwnerKinds
      PROVE  both[i].qualified = <<NameOf(both[i].id)>>
  <2>1. CASE i \in 1..Len(ns)
    <3>1. both[i] = ns[i]
      BY <1>1, <2>1
    <3> QED BY <1>2, <2>1, <3>1 DEF Plain
  <2>2. ASSUME NEW k \in 1..Len(new), i = Len(ns) + k PROVE both[i].qualified = <<NameOf(both[i].id)>>
    <3>1. both[i] = new[k]
      BY <1>1, <2>2
    <3> QED BY <1>2, <3>1
  <2> QED BY <1>1, <2>1, <2>2
<1>3. Plain(t, both)
  BY <1>2 DEF Plain
<1> QED BY <1>3 DEF both

(* What a step adds for the node on top, and for the children D that it       *)
(* declares with it, before it goes on to kids of it.                        *)
Adds(t, list, ns, D, kids, new, joins, parent) ==
  /\ D \in SUBSET Children(t, Head(list)) /\ KidsOf(t, Head(list), D, kids)
  /\ Listed(new) /\ Listed(joins) /\ Len(joins) = Len(new) /\ parent \in IdsOf(ns)
  /\ \A i \in 1..Len(new) :
       /\ joins[i].child = new[i].id /\ joins[i].parent = parent
       /\ \E n \in ({Head(list)} \cup D) \ FileScoped(t) : Source(t, new[i].id, n)
  /\ \A i, j \in 1..Len(new) : new[i].id = new[j].id => i = j

Among(t, n, D, kids, mid) ==
  /\ mid \in Seq(Node(t) \cup {Pop})
  /\ \A i \in 1..Len(mid) : mid[i] # Pop => mid[i] \in Children(t, n) \ D
  /\ \A i, j \in 1..Len(mid) : mid[i] = mid[j] /\ mid[i] # Pop => i = j
  /\ \A i \in 1..Len(mid) : mid[i] = Pop => i = Len(mid) /\ mid = kids \o <<Pop>>
  /\ mid = kids => ~(mid # <<>> /\ mid[Len(mid)] = Pop)
  /\ mid = kids \o <<Pop>> => mid # <<>> /\ mid[Len(mid)] = Pop

\* Kids, perhaps with a Pop behind them.
LEMMA MidIs ==
  ASSUME NEW t \in Trees, NEW n \in Node(t), NEW D, NEW kids, KidsOf(t, n, D, kids),
         NEW mid, mid = kids \/ mid = kids \o <<Pop>>
  PROVE  Among(t, n, D, kids, mid)
<1> DEFINE S == Node(t) \cup {Pop}
<1>1. \A i \in 1..Len(kids) : kids[i] # Pop
  <2>1. Pop \notin Node(t)
    BY TreeIs
  <2> QED BY <2>1 DEF KidsOf, Children
<1>2. kids \in Seq(S) /\ Len(kids) \in Nat
  BY DEF KidsOf
<1> DEFINE two == kids \o <<Pop>>
<1>3. /\ two \in Seq(S) /\ Len(two) = Len(kids) + 1 /\ two[Len(two)] = Pop /\ two # <<>>
      /\ \A i \in 1..Len(kids) : two[i] = kids[i]
  <2>1. <<Pop>> \in Seq(S)
    OBVIOUS
  <2>2. /\ two \in Seq(S) /\ Len(two) = Len(kids) + 1 /\ two[Len(two)] = Pop
        /\ \A i \in 1..Len(kids) : two[i] = kids[i]
    BY <1>2, <2>1
  <2> HIDE DEF two
  <2> QED BY <1>2, <2>2
<1> HIDE DEF two, S
<1>4. \A i \in 1..Len(two) : i # Len(two) => i \in 1..Len(kids)
  BY <1>2, <1>3
<1>5. CASE mid = kids
  <2>1. mid # <<>> => Len(mid) \in 1..Len(mid)
    BY <1>2, <1>5
  <2>2. mid # two
    BY <1>2, <1>3, <1>5
  <2> QED BY <1>1, <1>5, <2>1, <2>2 DEF KidsOf, two, Among
<1>6. CASE mid = two
  <2>1. ASSUME NEW i \in 1..Len(mid), NEW j \in 1..Len(mid), mid[i] = mid[j], mid[i] # Pop
        PROVE  i = j
    <3>1. i \in 1..Len(kids) /\ j \in 1..Len(kids) /\ kids[i] = kids[j]
      BY <1>3, <1>4, <1>6, <2>1
    <3> QED BY <3>1 DEF KidsOf
  <2>2. ASSUME NEW i \in 1..Len(mid), mid[i] # Pop
        PROVE  mid[i] \in Children(t, n) \ D
    <3>1. i \in 1..Len(kids) /\ mid[i] = kids[i]
      BY <1>3, <1>4, <1>6, <2>2
    <3> QED BY <3>1 DEF KidsOf
  <2>3. ASSUME NEW i \in 1..Len(mid), mid[i] = Pop
        PROVE  i = Len(mid)
    BY <1>1, <1>3, <1>4, <1>6, <2>3
  <2>4. mid # kids
    BY <1>2, <1>3, <1>6
  <2> QED BY <1>3, <1>6, <2>1, <2>2, <2>3, <2>4 DEF two, S, Among
<1> QED BY <1>5, <1>6 DEF two

\* With nodes that are unlike those before them the walk has come to this list.
Onward(t, V, W, list, ns, cs, new, joins) ==
  /\ Seen(t, W, list) /\ Batch(t, W, ns \o new, cs \o joins)
  /\ \A i \in 1..Len(new) : new[i].id \notin IdsOf(ns)
  /\ IdsOf(ns \o new) = IdsOf(ns) \cup IdsOf(new)
  /\ Beyond(t, V, IdsOf(ns), IdsOf(ns \o new))

LEMMA MovesOn ==
  ASSUME LinesApart, NEW t \in Trees, NEW list, NEW ns, NEW cs,
         NEW V, Seen(t, V, list), Batch(t, V, ns, cs), list # <<>>, Head(list) # Pop,
         NEW D, NEW kids, NEW new, NEW joins, NEW parent, Adds(t, list, ns, D, kids, new, joins, parent),
         NEW mid, mid = kids \/ mid = kids \o <<Pop>>
  PROVE  Onward(t, V, V \cup {Head(list)} \cup D, mid \o Tail(list), ns, cs, new, joins)
<1> DEFINE top == Head(list)
           W == V \cup {top} \cup D
<1>1. /\ V \in SUBSET Node(t) /\ top \in Node(t) /\ top \notin V
      /\ \A d \in Children(t, top) : d \in Node(t) /\ d \notin V
  BY TopIs
<1>2. D \in SUBSET Children(t, top) /\ KidsOf(t, top, D, kids)
  BY DEF Adds
<1>3. Among(t, top, D, kids, mid)
  BY <1>1, <1>2, MidIs
<1>4. Seen(t, W, mid \o Tail(list))
  BY <1>2, <1>3, SeenMoves DEF Among
<1>5. ASSUME NEW i \in 1..Len(new)
      PROVE  /\ new[i].id \notin IdsOf(ns)
             /\ \E n \in Node(t) \ V : n \in W /\ Source(t, new[i].id, n)
  <2>1. PICK n \in ({top} \cup D) \ FileScoped(t) : Source(t, new[i].id, n)
    BY DEF Adds
  <2>2. n \in Node(t) /\ n \notin V \cup FileScoped(t) /\ n \in W
    BY <1>1, <1>2
  <2>3. new[i].id \notin IdsOf(ns)
    BY <1>1, <2>1, <2>2, Fresh
  <2> QED BY <2>1, <2>2, <2>3
<1>6. Batch(t, W, ns \o new, cs \o joins)
  <2>1. V \subseteq W
    OBVIOUS
  <2>2. /\ Listed(new) /\ Listed(joins) /\ Len(joins) = Len(new) /\ parent \in IdsOf(ns)
        /\ \A i, j \in 1..Len(new) : new[i].id = new[j].id => i = j
    BY DEF Adds
  <2>3. \A i \in 1..Len(new) : /\ joins[i].child = new[i].id /\ joins[i].parent = parent
                               /\ new[i].id \notin IdsOf(ns)
                               /\ \E n \in W \cup FileScoped(t) : Source(t, new[i].id, n)
    BY <1>5 DEF Adds
  <2> HIDE DEF W
  <2> QED BY <2>1, <2>2, <2>3, BatchGrows
<1>7. IdsOf(ns \o new) = IdsOf(ns) \cup IdsOf(new)
  <2>1. Listed(ns) /\ Listed(new)
    BY DEF Batch, Adds
  <2> QED BY <2>1, IdsGrow
<1>8. Beyond(t, V, IdsOf(ns), IdsOf(ns \o new))
  <2> SUFFICES ASSUME NEW id \in IdsOf(new) PROVE \E n \in Node(t) \ V : Source(t, id, n)
    BY <1>7 DEF Beyond
  <2>1. PICK i \in 1..Len(new) : id = new[i].id
    BY DEF IdsOf
  <2> QED BY <1>5, <2>1
<1> QED BY <1>4, <1>5, <1>6, <1>7, <1>8 DEF Onward

(* How the step treats the scopes: it opens none over the kids (and the node  *)
(* is none), or the one of the node, which it closes after them; an impl for  *)
(* a type without a plain name leaves the file on top of the file.           *)
Opens(t, ids, ns, sc, n, kids, up, mid) ==
  \/ /\ up = <<>> /\ mid = kids
     /\ t.kind[n] # "impl_item" /\ (kids = <<>> \/ Holders(t, ids, n) = {})
  \/ \E id \in Holders(t, ids, n) :
       /\ up = <<id>> /\ mid = kids \o <<Pop>> /\ id.kind # "File"
       /\ ~GoMethod(t, id) => \A i \in 1..Len(ns) :
            ns[i].id = id => ns[i].qualified = Append(NamesTo(sc, Len(sc)), NameOf(id))
  \/ /\ up = <<FileId>> /\ mid = kids /\ FileId \in Holders(t, ids, n)
     /\ Around(t, ids, n) = {} /\ \A k \in 1..Len(sc) : sc[k].kind = "File"

(* The node on top fits where the walk is, so that its calls are charged to   *)
(* the innermost scope.                                                      *)
LEMMA TopFits ==
  ASSUME NEW t \in Trees, NEW list, list # <<>>, Head(list) # Pop, NEW V, Seen(t, V, list),
         NEW sc, NEW ids, Scoped(sc, ids), NEW g, Levels(list, Len(sc), g), Placed(t, ids, list, sc, g)
  PROVE  /\ Fits(t, ids, Head(list), sc, Len(sc)) /\ ChargedTo(t, ids, Head(list), sc[Len(sc)])
         /\ Len(sc) \in Nat \ {0}
<1>1. list[1] = Head(list) /\ 1 \in 1..Len(list)
  BY DEF Seen
<1>2. Len(sc) \in Nat \ {0}
  <2>1. PICK S : sc \in Seq(S)
    BY DEF Scoped, Listed
  <2> QED BY <2>1 DEF Scoped
<1>3. Fits(t, ids, Head(list), sc, Len(sc))
  BY <1>1 DEF Levels, Placed
<1>4. ChargedTo(t, ids, Head(list), sc[Len(sc)])
  <2>1. Len(sc) \in 1..Len(sc)
    BY <1>2
  <2> QED BY <1>3, <2>1 DEF Fits, ChargedTo
<1> QED BY <1>2, <1>3, <1>4

(* What the walk has been at, or is about to come to, hangs below what it has *)
(* been at.                                                                  *)
LEMMA SeenAbove ==
  ASSUME NEW t \in Trees, NEW V, NEW list, Seen(t, V, list)
  PROVE  /\ \A n \in V : Above(t, n) \subseteq V
         /\ \A i \in 1..Len(list) : list[i] # Pop => Above(t, list[i]) \subseteq V
<1>1. ASSUME NEW n \in V PROVE Above(t, n) \subseteq V
  <2>1. n \in Node(t) /\ (n = 1 \/ t.up[n] \in V)
    BY DEF Seen
  <2> QED BY <2>1, AboveSeen
<1>2. ASSUME NEW i \in 1..Len(list), list[i] # Pop PROVE Above(t, list[i]) \subseteq V
  <2>1. list[i] \in Node(t) /\ (list[i] = 1 \/ t.up[list[i]] \in V)
    BY <1>2 DEF Seen
  <2> QED BY <2>1, AboveSeen
<1> QED BY <1>1, <1>2

\* The scopes of what is left when a step has opened its own.
LEMMA LevelsOpen ==
  ASSUME LinesApart, NEW t \in Trees, NEW list, list # <<>>, Head(list) # Pop,
         NEW V, Seen(t, V, list), NEW sc, NEW ids, Scoped(sc, ids), NEW g,
         Levels(list, Len(sc), g), Placed(t, ids, list, sc, g), Nested(t, list),
         NEW ids2, Beyond(t, V, ids, ids2), Owned(t, V, ids),
         NEW D, NEW kids, KidsOf(t, Head(list), D, kids),
         NEW ns, NEW up, NEW mid, Opens(t, ids2, ns, sc, Head(list), kids, up, mid)
  PROVE  \E h : /\ Levels(mid \o Tail(list), Len(sc \o up), h)
                /\ Placed(t, ids2, mid \o Tail(list), sc \o up, h)
<1> DEFINE top == Head(list)
           S == Node(t) \cup {Pop}
           depth == Len(sc)
           sc2 == sc \o up
           new == Len(sc2)
<1>1. top \in Node(t) /\ V \in SUBSET Node(t) /\ list \in Seq(S) /\ list[1] = top /\ 1 \in 1..Len(list)
  BY TopIs DEF Seen
<1>2. Fits(t, ids, top, sc, depth) /\ depth \in Nat \ {0} /\ Listed(sc)
  BY TopFits DEF Scoped
<1>3. mid = kids \/ mid = kids \o <<Pop>>
  BY DEF Opens
<1>4. Among(t, top, D, kids, mid)
  BY <1>1, <1>3, MidIs
<1>5. Above(t, top) \subseteq V /\ \A i \in 1..Len(list) : list[i] # Pop => Above(t, list[i]) \subseteq V
  <2>1. \A i \in 1..Len(list) : list[i] # Pop => Above(t, list[i]) \subseteq V
    BY SeenAbove
  <2> QED BY <1>1, <2>1
<1>6. Fits(t, ids2, top, sc, depth)
  BY <1>1, <1>2, <1>5, FitsStays
<1>7. ASSUME NEW i \in 2..Len(list), list[i] # Pop
      PROVE  /\ g[i] \in Nat \ {0} /\ g[i] <= depth /\ i \in 1..Len(list)
             /\ Fits(t, ids, list[i], sc, g[i]) /\ Above(t, list[i]) \subseteq V
             /\ Above(t, list[i]) \subseteq Above(t, top)
  <2>1. i \in 1..Len(list) /\ i \in 1..Len(list) + 1 /\ 1 \in 1..Len(list) + 1 /\ 1 <= i /\ 1 < i
    BY <1>1
  <2>2. g[i] \in Nat \ {0} /\ g[i] <= depth
    BY <2>1 DEF Levels
  <2>3. Above(t, list[i]) \subseteq Above(t, top)
    BY <1>1, <1>7, <2>1 DEF Nested
  <2> QED BY <1>5, <1>7, <2>1, <2>2, <2>3 DEF Placed
<1>8. /\ Listed(up) => /\ Len(sc2) = depth + Len(up) /\ Len(up) \in Nat
                       /\ \A k \in 1..depth : sc2[k] = sc[k]
                       /\ \A k \in 1..Len(up) : sc2[depth + k] = up[k]
  BY <1>2, ListedBoth, ListedIs
<1>9. ASSUME Listed(up), NEW s \in {0, 1}, new = depth + s + IF mid # <<>> /\ mid[Len(mid)] = Pop THEN 1 ELSE 0,
             kids = <<>> \/ (sc2[new] \in Holders(t, ids2, top) \/ (Holders(t, ids2, top) = {} /\ up = <<>>)),
             \A i \in 2..Len(list) : list[i] # Pop => Fits(t, ids2, list[i], sc2, g[i] + s)
      PROVE  \E h : Levels(mid \o Tail(list), new, h) /\ Placed(t, ids2, mid \o Tail(list), sc2, h)
  <2>1. new \in Nat
    BY <1>2, <1>9
  <2>2. ASSUME NEW i \in 1..Len(mid), mid[i] # Pop PROVE Fits(t, ids2, mid[i], sc2, new)
    <3> DEFINE d == mid[i]
    <3>1. d \in Children(t, top)
      BY <1>4, <2>2 DEF Among
    <3>2. kids # <<>>
      <4> SUFFICES ASSUME kids = <<>> PROVE FALSE
        OBVIOUS
      <4>1. CASE mid = kids
        <5>1. Len(mid) = 0
          BY <4>1
        <5> QED BY <5>1
      <4>2. CASE mid = kids \o <<Pop>>
        <5>1. mid = <<Pop>>
          BY <4>2
        <5> QED BY <2>2, <5>1
      <4> QED BY <1>3, <4>1, <4>2
    <3>3. CASE sc2[new] \in Holders(t, ids2, top)
      <4> HIDE DEF d, sc2, new, top
      <4> QED BY <1>1, <3>1, <3>3, FitsKid DEF d
    <3>4. CASE Holders(t, ids2, top) = {} /\ up = <<>>
      <4>1. sc2 = sc
        BY <1>2, <3>4, NothingAdded
      <4>2. Fits(t, ids2, top, sc2, new)
        BY <1>6, <4>1
      <4> HIDE DEF d, sc2, new, top
      <4> QED BY <1>1, <3>1, <3>4, <4>2, FitsKid DEF d
    <3> QED BY <1>9, <3>2, <3>3, <3>4
  <2>3. mid \in Seq(S) /\ \A i \in 1..Len(mid) : mid[i] = Pop => i = Len(mid)
    BY <1>4 DEF Among
  <2>4. Levels(list, depth, g) /\ depth \in Nat
    BY <1>2
  <2> HIDE DEF S, new, sc2, depth
  <2> QED BY <1>1, <1>9, <2>1, <2>2, <2>3, <2>4, LevelsMove
<1>10. ASSUME Listed(up), NEW i \in 2..Len(list), list[i] # Pop
       PROVE  Fits(t, ids2, list[i], sc2, g[i])
  <2>1. /\ g[i] \in Nat \ {0} /\ g[i] <= depth
        /\ Fits(t, ids, list[i], sc, g[i]) /\ Above(t, list[i]) \subseteq V
    BY <1>7, <1>10
  <2>2. \A k \in 1..g[i] : sc2[k] = sc[k]
    <3>1. \A k \in 1..g[i] : k \in 1..depth
      BY <1>2, <2>1
    <3> QED BY <1>8, <1>10, <3>1
  <2> HIDE DEF sc2
  <2> QED BY <1>1, <2>1, <2>2, FitsStays
<1>11. CASE up = <<>> /\ mid = kids /\ (kids = <<>> \/ Holders(t, ids2, top) = {})
  <2>1. Listed(up) /\ Len(up) = 0
    BY <1>11, NothingAdded
  <2>2. ~(mid # <<>> /\ mid[Len(mid)] = Pop)
    BY <1>4, <1>11 DEF Among
  <2>3. new = depth + 0 + IF mid # <<>> /\ mid[Len(mid)] = Pop THEN 1 ELSE 0
    <3>1. sc2 = sc
      BY <1>2, <1>11, NothingAdded
    <3>2. new = depth
      BY <3>1
    <3> HIDE DEF new, depth
    <3> QED BY <1>2, <2>2, <3>2
  <2>4. \A i \in 2..Len(list) : list[i] # Pop => Fits(t, ids2, list[i], sc2, g[i] + 0)
    <3> SUFFICES ASSUME NEW i \in 2..Len(list), list[i] # Pop
                 PROVE  Fits(t, ids2, list[i], sc2, g[i] + 0)
      OBVIOUS
    <3>1. g[i] + 0 = g[i]
      BY <1>7
    <3> QED BY <1>10, <2>1, <3>1
  <2> HIDE DEF new, sc2, depth, top
  <2> QED BY <1>9, <1>11, <2>1, <2>3, <2>4 DEF new, sc2
<1>12. ASSUME NEW id \in Holders(t, ids2, top), up = <<id>>, mid = kids \o <<Pop>>
       PROVE  \E h : Levels(mid \o Tail(list), new, h) /\ Placed(t, ids2, mid \o Tail(list), sc2, h)
  <2>1. Listed(up) /\ Len(up) = 1 /\ up[1] = id
    BY <1>12, ListedOne
  <2>2. mid # <<>> /\ mid[Len(mid)] = Pop
    BY <1>4, <1>12 DEF Among
  <2>3. new = depth + 0 + IF mid # <<>> /\ mid[Len(mid)] = Pop THEN 1 ELSE 0
    BY <1>2, <1>8, <2>1, <2>2
  <2>4. \A i \in 2..Len(list) : list[i] # Pop => Fits(t, ids2, list[i], sc2, g[i] + 0)
    <3> SUFFICES ASSUME NEW i \in 2..Len(list), list[i] # Pop
                 PROVE  Fits(t, ids2, list[i], sc2, g[i] + 0)
      OBVIOUS
    <3>1. g[i] + 0 = g[i]
      BY <1>7
    <3> QED BY <1>10, <2>1, <3>1
  <2>5. sc2[new] = id
    <3>1. 1 \in 1..Len(up) /\ new = depth + 1
      BY <1>2, <1>8, <2>1
    <3> QED BY <1>8, <2>1, <3>1
  <2> HIDE DEF new, sc2, depth, top
  <2> QED BY <1>9, <1>12, <2>1, <2>3, <2>4, <2>5 DEF new, sc2
<1>13. CASE /\ up = <<FileId>> /\ mid = kids /\ FileId \in Holders(t, ids2, top)
            /\ Around(t, ids2, top) = {} /\ \A k \in 1..depth : sc[k].kind = "File"
  <2>1. Listed(up) /\ Len(up) = 1 /\ up[1] = FileId
    BY <1>13, ListedOne
  <2>2. ~(mid # <<>> /\ mid[Len(mid)] = Pop)
    BY <1>4, <1>13 DEF Among
  <2>3. new = depth + 1 + IF mid # <<>> /\ mid[Len(mid)] = Pop THEN 1 ELSE 0
    BY <1>2, <1>8, <2>1, <2>2
  <2>4. sc2[new] = FileId /\ \A k \in 1..new : sc2[k].kind \in {"File", "Namespace"}
    <3>1. 1 \in 1..Len(up) /\ new = depth + 1
      BY <1>2, <1>8, <2>1
    <3>2. sc2[new] = FileId
      BY <1>8, <2>1, <3>1
    <3>3. \A k \in 1..new : k \in 1..depth \/ k = new
      BY <1>2, <3>1
    <3> HIDE DEF new, sc2, depth
    <3> QED BY <1>8, <1>13, <2>1, <3>2, <3>3, FileIdIs
  <2>5. \A i \in 2..Len(list) : list[i] # Pop => Fits(t, ids2, list[i], sc2, g[i] + 1)
    <3> SUFFICES ASSUME NEW i \in 2..Len(list), list[i] # Pop
                 PROVE  Fits(t, ids2, list[i], sc2, g[i] + 1)
      OBVIOUS
    <3>1. g[i] \in Nat /\ g[i] <= depth /\ Above(t, list[i]) \subseteq Above(t, top)
      BY <1>7
    <3>2. Around(t, ids2, list[i]) = {}
      BY <1>13, <3>1 DEF Around
    <3>3. \A k \in 1..(g[i] + 1) : k \in 1..new
      BY <1>2, <1>8, <2>1, <3>1
    <3> HIDE DEF new, sc2
    <3> QED BY <2>4, <3>2, <3>3 DEF Fits
  <2> HIDE DEF new, sc2, depth, top
  <2> QED BY <1>9, <1>13, <2>1, <2>3, <2>4, <2>5 DEF new, sc2
<1> QED BY <1>11, <1>12, <1>13 DEF Opens

(* A step that adds nodes, opens scopes and makes references as it should     *)
(* keeps all of it.                                                          *)
LEMMA ScopesMove ==
  ASSUME LinesApart, NEW t \in Trees, NEW list, list # <<>>, Head(list) # Pop,
         NEW sc, NEW ns, NEW cs, NEW rs, ScopesAt(t, list, sc, ns, cs, rs),
         Scoped(sc, IdsOf(ns)), Listed(rs),
         NEW D, NEW kids, NEW new, NEW joins, NEW parent, Adds(t, list, ns, D, kids, new, joins, parent),
         \A d \in D : t.kind[d] # "impl_item",
         NEW up, NEW mid, Opens(t, IdsOf(ns \o new), ns \o new, sc, Head(list), kids, up, mid),
         Told(t, sc, new, parent),
         t.lang = "Rust" => \A i \in 1..Len(new) :
           new[i].id.kind \in OwnerKinds => new[i].qualified = <<NameOf(new[i].id)>>,
         NEW more, Listed(more), CallsHere(t, Head(list), sc[Len(sc)], more)
  PROVE  ScopesAt(t, mid \o Tail(list), sc \o up, ns \o new, cs \o joins, rs \o more)
<1> DEFINE top == Head(list)
           ids == IdsOf(ns)
           ns2 == ns \o new
           ids2 == IdsOf(ns2)
           cs2 == cs \o joins
           rs2 == rs \o more
           sc2 == sc \o up
           list2 == mid \o Tail(list)
<1>1. PICK V : /\ Seen(t, V, list) /\ Batch(t, V, ns, cs) /\ Owned(t, V, ids) /\ Charged(t, V, ids, rs)
  BY DEF ScopesAt
<1>2. PICK g : Levels(list, Len(sc), g) /\ Placed(t, ids, list, sc, g)
  BY DEF ScopesAt
<1>3. Nested(t, list) /\ Titled(t, ns, sc) /\ Joined(t, ns, cs) /\ Plain(t, ns)
  BY DEF ScopesAt
<1>4. mid = kids \/ mid = kids \o <<Pop>>
  BY DEF Opens
<1> DEFINE W == V \cup {top} \cup D
<1>5. /\ Seen(t, W, list2) /\ Batch(t, W, ns2, cs2) /\ Beyond(t, V, ids, ids2)
      /\ \A i \in 1..Len(new) : new[i].id \notin ids
  <2>1. Onward(t, V, V \cup {Head(list)} \cup D, mid \o Tail(list), ns, cs, new, joins)
    BY <1>1, <1>4, MovesOn
  <2> QED BY <2>1 DEF Onward
<1>6. /\ V \in SUBSET Node(t) /\ top \in Node(t) /\ top \notin V
      /\ (\A n \in V : Above(t, n) \subseteq V) /\ Above(t, top) \subseteq V
      /\ KidsOf(t, top, D, kids)
  <2>1. V \in SUBSET Node(t) /\ top \in Node(t) /\ top \notin V
    BY <1>1, TopIs
  <2>2. (\A n \in V : Above(t, n) \subseteq V) /\ \A i \in 1..Len(list) : list[i] # Pop => Above(t, list[i]) \subseteq V
    BY <1>1, SeenAbove
  <2>3. list[1] = top /\ 1 \in 1..Len(list)
    BY <1>1 DEF Seen
  <2> QED BY <2>1, <2>2, <2>3 DEF Adds
<1>7. Owned(t, W, ids2)
  <2>1. t.kind[top] = "impl_item" => Holders(t, ids2, top) # {}
    BY DEF Opens
  <2>2. \A a \in W \ V : t.kind[a] = "impl_item" => Holders(t, ids2, a) # {}
    BY <2>1
  <2> HIDE DEF W, ids, ids2, top
  <2> QED BY <1>1, <1>5, <1>6, <2>2, OwnedMoves
<1>8. Charged(t, W, ids2, rs2)
  <2>1. ChargedTo(t, ids, top, sc[Len(sc)])
    BY <1>1, <1>2, TopFits
  <2> DEFINE id == sc[Len(sc)]
  <2>2. CallsHere(t, top, id, more) /\ ChargedTo(t, ids, top, id) /\ V \subseteq W /\ top \in W
    BY <2>1
  <2> HIDE DEF W, ids, ids2, top, id
  <2> QED BY <1>1, <1>5, <1>6, <2>2, ChargedMoves
<1>9. \E h : Levels(list2, Len(sc2), h) /\ Placed(t, ids2, list2, sc2, h)
  <2>1. Opens(t, ids2, ns2, sc, Head(list), kids, up, mid) /\ KidsOf(t, Head(list), D, kids)
    BY <1>6
  <2>2. Scoped(sc, ids)
    OBVIOUS
  <2> HIDE DEF ids, ids2, ns2
  <2> QED BY <1>1, <1>2, <1>3, <1>5, <2>1, <2>2, LevelsOpen
<1>10. Nested(t, list2)
  <2>1. Among(t, top, D, kids, mid)
    BY <1>4, <1>6, MidIs
  <2>2. /\ mid \in Seq(Node(t) \cup {Pop}) /\ list \in Seq(Node(t) \cup {Pop})
        /\ \A i \in 1..Len(mid) : mid[i] # Pop => mid[i] \in Children(t, Head(list))
    BY <1>1, <2>1 DEF Among, Seen
  <2> QED BY <1>3, <2>2, NestedMoves
<1>11. Listed(ns) /\ Listed(cs) /\ Len(ns) = Len(cs) + 1 /\ Listed(new) /\ Listed(joins)
       /\ Len(joins) = Len(new) /\ parent \in ids
       /\ \A i \in 1..Len(cs) : cs[i].parent \in ids
  <2>1. Listed(ns) /\ Listed(cs) /\ Len(ns) = Len(cs) + 1
    BY <1>1 DEF Batch
  <2>2. ASSUME NEW i \in 1..Len(cs) PROVE cs[i].parent \in ids
    <3>1. PICK j \in 1..i : cs[i].parent = ns[j].id
      BY <1>1 DEF Batch
    <3>2. j \in 1..Len(ns)
      BY <2>1, ListedIs
    <3> QED BY <3>1, <3>2 DEF IdsOf
  <2> QED BY <2>1, <2>2 DEF Adds
<1>12. Joined(t, ns2, cs2)
  <2>1. \A i \in 1..Len(new) : /\ joins[i].child = new[i].id /\ joins[i].parent = parent
                               /\ new[i].id \notin IdsOf(ns)
    BY <1>5 DEF Adds
  <2> HIDE DEF ns2, cs2
  <2> QED BY <1>3, <1>11, <2>1, JoinedMoves DEF ns2, cs2
<1>13. Plain(t, ns2)
  <2> HIDE DEF ns2
  <2> QED BY <1>3, <1>11, PlainMoves DEF ns2
<1>14. Titled(t, ns2, sc)
  <2> HIDE DEF ns2
  <2> QED BY <1>3, <1>5, <1>11, TitledStays DEF ns2
<1>15. Titled(t, ns2, sc2)
  <2>0. Listed(sc)
    BY DEF Scoped
  <2>1. CASE up = <<>>
    <3>1. sc2 = sc
      BY <2>0, <2>1, NothingAdded
    <3> QED BY <1>14, <3>1
  <2>2. ASSUME NEW id, up = <<id>>,
               id.kind = "File" => \A k \in 1..Len(sc) : sc[k].kind = "File",
               id.kind # "File" /\ ~GoMethod(t, id) => \A i \in 1..Len(ns2) :
                 ns2[i].id = id => ns2[i].qualified = Append(NamesTo(sc, Len(sc)), NameOf(id))
        PROVE  Titled(t, ns2, sc2)
    <3>1. sc2 = Append(sc, id)
      BY <2>0, <2>2, AppendIs
    <3> HIDE DEF ns2, sc2
    <3>2. Titled(t, ns2, Append(sc, id))
      BY <1>14, <2>0, <2>2, TitledOpens
    <3> QED BY <3>1, <3>2
  <2>3. CASE \E id \in Holders(t, ids2, top) :
               /\ up = <<id>> /\ mid = kids \o <<Pop>> /\ id.kind # "File"
               /\ ~GoMethod(t, id) => \A i \in 1..Len(ns2) :
                    ns2[i].id = id => ns2[i].qualified = Append(NamesTo(sc, Len(sc)), NameOf(id))
    BY <2>2, <2>3
  <2>4. CASE up = <<FileId>> /\ \A k \in 1..Len(sc) : sc[k].kind = "File"
    <3> DEFINE id == FileId
    <3>1. up = <<id>> /\ id.kind = "File"
      BY <2>4, FileIdIs
    <3> HIDE DEF id
    <3> QED BY <2>2, <2>4, <3>1
  <2> HIDE DEF ns2, ids2, top, sc2
  <2> QED BY <2>1, <2>3, <2>4 DEF Opens, ns2, ids2, top
<1> HIDE DEF W, ns2, ids2, cs2, rs2, sc2, list2
<1>16. ScopesAt(t, list2, sc2, ns2, cs2, rs2)
  <2>1. ids2 = IdsOf(ns2)
    BY DEF ids2
  <2> QED BY <1>5, <1>7, <1>8, <1>9, <1>10, <1>12, <1>13, <1>15, <2>1 DEF ScopesAt
<1> QED BY <1>16 DEF ns2, cs2, rs2, sc2, list2

LEMMA ScopesLeave ==
  ASSUME NEW t \in Trees, NEW list, list # <<>>, Head(list) = Pop,
         NEW sc, NEW ns, NEW cs, NEW rs, ScopesAt(t, list, sc, ns, cs, rs), Listed(sc)
  PROVE  ScopesAt(t, Tail(list), SubSeq(sc, 1, Len(sc) - 1), ns, cs, rs)
<1> DEFINE ids == IdsOf(ns)
           rest == Tail(list)
           n == Len(sc)
           sc2 == SubSeq(sc, 1, n - 1)
<1>1. PICK V : /\ Seen(t, V, list) /\ Batch(t, V, ns, cs) /\ Owned(t, V, ids) /\ Charged(t, V, ids, rs)
  BY DEF ScopesAt
<1>2. PICK g : Levels(list, n, g) /\ Placed(t, ids, list, sc, g)
  BY DEF ScopesAt
<1>3. Nested(t, list) /\ Titled(t, ns, sc) /\ Joined(t, ns, cs) /\ Plain(t, ns)
  BY DEF ScopesAt
<1>4. /\ Len(list) \in Nat \ {0} /\ list[1] = Pop /\ Len(rest) = Len(list) - 1
      /\ \A i \in 1..Len(rest) : rest[i] = list[i + 1]
  <2>1. list \in Seq(Node(t) \cup {Pop})
    BY <1>1 DEF Seen
  <2> QED BY <2>1
<1>5. Seen(t, V, rest)
  BY <1>1, SeenLeaves
<1>6. n \in Nat /\ g[2] = n - 1 /\ n - 1 \in Nat \ {0}
  <2>1. n \in Nat /\ 1 \in 1..Len(list) /\ 2 \in 1..Len(list) + 1 /\ 1 + 1 = 2
    BY <1>4, ListedIs
  <2>2. g[1] = n /\ g[2] \in Nat \ {0} /\ g[2] = g[1] - 1
    <3> HIDE DEF n
    <3> QED BY <1>2, <1>4, <2>1 DEF Levels
  <2> QED BY <2>1, <2>2
<1>7. Listed(sc2) /\ Len(sc2) = n - 1 /\ \A k \in 1..(n - 1) : sc2[k] = sc[k]
  <2>1. PICK S : sc \in Seq(S)
    BY DEF Listed
  <2>2. sc2 \in Seq(S) /\ Len(sc2) = n - 1 /\ \A k \in 1..(n - 1) : sc2[k] = sc[k]
    <3>1. n - 1 >= 1 /\ n \in Nat
      <4> HIDE DEF n
      <4> QED BY <1>6
    <3>2. /\ sc2 \in Seq(S) /\ Len(sc2) = n - 1
          /\ \A k \in 1..Len(sc2) : sc2[k] = sc[k] /\ k \in 1..Len(sc)
      BY ONLY <2>1, <3>1
    <3> QED BY <3>2
  <2> QED BY <2>2 DEF Listed
<1>8. Titled(t, ns, sc2)
  <2>1. Len(sc2) <= Len(sc) /\ \A k \in 1..Len(sc2) : sc2[k] = sc[k]
    BY <1>6, <1>7
  <2> HIDE DEF sc2
  <2> QED BY <1>3, <1>7, <2>1, TitledLeaves
<1> HIDE DEF rest, sc2
<1>9. Nested(t, rest)
  <2> SUFFICES ASSUME NEW i \in 1..Len(rest), NEW j \in 1..Len(rest), i < j, rest[i] # Pop, rest[j] # Pop
               PROVE  Above(t, rest[j]) \subseteq Above(t, rest[i])
    BY DEF Nested
  <2>1. /\ i + 1 \in 1..Len(list) /\ j + 1 \in 1..Len(list) /\ i + 1 < j + 1
        /\ rest[i] = list[i + 1] /\ rest[j] = list[j + 1]
    BY <1>4
  <2> QED BY <1>3, <2>1 DEF Nested
<1> DEFINE h == [i \in 1..Len(rest) + 1 |-> g[i + 1]]
<1>10. \A i \in 1..Len(rest) + 1 : i + 1 \in 1..Len(list) + 1 /\ h[i] = g[i + 1]
  BY <1>4
<1>11. Levels(rest, n - 1, h)
  <2>1. /\ g \in [1..Len(list) + 1 -> Nat \ {0}]
        /\ \A i \in 1..Len(list) : g[i + 1] = IF list[i] = Pop THEN g[i] - 1 ELSE g[i]
        /\ \A i, j \in 1..Len(list) + 1 : i <= j => g[j] <= g[i]
    BY <1>2 DEF Levels
  <2>2. h \in [1..Len(rest) + 1 -> Nat \ {0}]
    BY <1>10, <2>1
  <2>3. h[1] = n - 1
    <3>1. 1 \in 1..Len(rest) + 1 /\ 1 + 1 = 2
      BY <1>4
    <3> HIDE DEF h
    <3> QED BY <1>6, <1>10, <3>1
  <2> HIDE DEF h
  <2>4. ASSUME NEW i \in 1..Len(rest)
        PROVE  h[i + 1] = IF rest[i] = Pop THEN h[i] - 1 ELSE h[i]
    <3>1. i \in 1..Len(rest) + 1 /\ i + 1 \in 1..Len(rest) + 1 /\ i + 1 \in 1..Len(list)
      BY <1>4
    <3>2. h[i] = g[i + 1] /\ h[i + 1] = g[(i + 1) + 1] /\ rest[i] = list[i + 1]
      BY <1>4, <1>10, <3>1
    <3> QED BY <2>1, <3>1, <3>2
  <2>5. ASSUME NEW i \in 1..Len(rest) + 1, NEW j \in 1..Len(rest) + 1, i <= j
        PROVE  h[j] <= h[i]
    <3>1. i + 1 \in 1..Len(list) + 1 /\ j + 1 \in 1..Len(list) + 1 /\ i + 1 <= j + 1
      BY <1>4, <1>10, <2>5
    <3> QED BY <1>10, <2>1, <3>1
  <2> QED BY <2>2, <2>3, <2>4, <2>5 DEF Levels
<1>12. Placed(t, ids, rest, sc2, h)
  <2> SUFFICES ASSUME NEW i \in 1..Len(rest), rest[i] # Pop
               PROVE  Fits(t, ids, rest[i], sc2, h[i])
    BY DEF Placed
  <2>1. /\ i \in 1..Len(rest) + 1 /\ i + 1 \in 1..Len(list) /\ rest[i] = list[i + 1]
        /\ i + 1 \in 1..Len(list) + 1 /\ 2 \in 1..Len(list) + 1 /\ 2 <= i + 1
    BY <1>4
  <2>2. h[i] = g[i + 1]
    BY <1>10, <2>1
  <2>3. g[i + 1] \in Nat \ {0} /\ g[i + 1] <= g[2]
    BY <1>2, <2>1 DEF Levels
  <2>4. Fits(t, ids, rest[i], sc, g[i + 1])
    BY <1>2, <2>1 DEF Placed
  <2> HIDE DEF h
  <2> DEFINE d == g[i + 1]
  <2>5. d \in Nat \ {0} /\ d <= n - 1 /\ d \in 1..d
    BY <1>6, <2>3
  <2>6. \A k \in 1..d : sc2[k] = sc[k]
    BY <1>6, <1>7, <2>5
  <2> HIDE DEF d
  <2>7. Fits(t, ids, rest[i], sc, d)
    BY <2>4 DEF d
  <2>8. Fits(t, ids, rest[i], sc2, d)
    BY <2>5, <2>6, <2>7 DEF Fits
  <2> QED BY <2>2, <2>8 DEF d
<1> HIDE DEF h, n
<1>13. ScopesAt(t, rest, sc2, ns, cs, rs)
  BY <1>1, <1>3, <1>5, <1>7, <1>8, <1>9, <1>11, <1>12 DEF ScopesAt
<1> QED BY <1>13 DEF rest, sc2, n

-----------------------------------------------------------------------------
(* What the actions do. *)

(* What these scopes ask of a tree: an impl is Rust's, and a file has at most *)
(* one file-scoped namespace.                                                *)
Regular(t) ==
  /\ \A n \in Node(t) : t.kind[n] = "impl_item" => t.lang = "Rust"
  /\ \A m, n \in FileScoped(t) \cap Children(t, 1) : m = n

\* The step keeps what the batch and the scopes are.
Kept == /\ WalkInv'
        /\ Regular(tree) /\ ~LocalItem(tree) /\ ScopeInv => ScopeInv'

LEMMA KeptIs ==
  ASSUME tree' = tree, WalkAt(tree, todo', scope', nodes', contains', refs'),
         Regular(tree) /\ ~LocalItem(tree) /\ ScopesAt(tree, todo, scope, nodes, contains, refs)
           => ScopesAt(tree, todo', scope', nodes', contains', refs')
  PROVE  Kept
<1>1. WalkInv'
  BY DEF WalkInv, WalkAt
<1>2. Regular(tree) /\ ~LocalItem(tree) /\ ScopeInv => ScopeInv'
  BY DEF ScopeInv
<1> QED BY <1>1, <1>2 DEF Kept

LEMMA ScopeInvIs == ScopeInv <=> ScopesAt(tree, todo, scope, nodes, contains, refs)
  BY DEF ScopeInv

LEMMA AsideCalls ==
  ASSUME NEW ids, NEW rs, Aside(rs, ids), NEW t, NEW n, NEW id
  PROVE  CallsHere(t, n, id, rs) /\ Listed(rs)
<1>1. CallsOf(rs) = {}
  BY DEF Aside, CallsOf
<1> QED BY <1>1 DEF CallsHere, Aside, Anchored

(* A declaration of the node on top. *)
LEMMA ScopesDeclare ==
  ASSUME LinesApart, NEW t \in Trees, NEW list, list # <<>>, Head(list) # Pop,
         NEW sc, NEW ns, NEW cs, NEW rs, ScopesAt(t, list, sc, ns, cs, rs),
         Scoped(sc, IdsOf(ns)), Listed(rs),
         NEW kids, KidsOf(t, Head(list), {}, kids), t.kind[Head(list)] # "impl_item",
         NEW x, Source(t, x.id, Head(list)), Head(list) \notin FileScoped(t),
         x.qualified = Append(NamesTo(sc, Len(sc)), NameOf(x.id)) \/ GoMethod(t, x.id),
         t.lang = "Rust" /\ x.id.kind \in OwnerKinds => NamesTo(sc, Len(sc)) = <<>>,
         NEW e, e.parent = sc[Len(sc)], e.child = x.id,
         NEW more, Listed(more), CallsHere(t, Head(list), sc[Len(sc)], more)
  PROVE  /\ x.id.kind \in ScopeKinds \ {"Type"} =>
              ScopesAt(t, kids \o <<Pop>> \o Tail(list), Append(sc, x.id), Append(ns, x),
                       Append(cs, e), rs \o more)
         /\ kids = <<>> \/ x.id.kind \notin ScopeKinds \ {"Type"} =>
              ScopesAt(t, kids \o Tail(list), sc, Append(ns, x), Append(cs, e), rs \o more)
<1> DEFINE top == Head(list)
           new == <<x>>
           joins == <<e>>
           one == <<x.id>>
           none == <<>>
           D == {}
           parent == sc[Len(sc)]
           mid == kids \o <<Pop>>
           ns2 == ns \o new
           ids2 == IdsOf(ns2)
<1>1. PICK V : Seen(t, V, list) /\ Batch(t, V, ns, cs)
  BY DEF ScopesAt
<1>2. /\ Listed(new) /\ Listed(joins) /\ Listed(one)
      /\ Len(new) = 1 /\ Len(joins) = 1
      /\ new[1] = x /\ joins[1] = e /\ \A i \in 1..Len(new) : i = 1
  <2>1. \A y : Listed(<<y>>) /\ Len(<<y>>) = 1 /\ <<y>>[1] = y
    BY ListedOne
  <2> QED BY <2>1
<1>3. Listed(ns) /\ Listed(cs) /\ Listed(sc) /\ parent \in IdsOf(ns)
  BY <1>1, InnermostIs DEF Batch
<1>4. /\ ns2 = Append(ns, x) /\ cs \o joins = Append(cs, e) /\ sc \o one = Append(sc, x.id)
      /\ sc \o none = sc
  BY <1>3, AppendIs, NothingAdded
<1>5. x.id \notin IdsOf(ns) /\ V \in SUBSET Node(t) /\ top \in Node(t)
  <2>1. V \in SUBSET Node(t) /\ top \in Node(t) /\ top \notin V
    BY <1>1, TopIs
  <2> QED BY <1>1, <2>1, Fresh
<1>6. ids2 = IdsOf(ns) \cup {x.id}
  <2>1. IdsOf(new) = {x.id}
    <3> HIDE DEF new
    <3>1. 1 \in 1..Len(new)
      BY <1>2
    <3> QED BY <1>2, <3>1 DEF IdsOf
  <2> QED BY <1>2, <1>3, <2>1, IdsGrow
<1>7. \A i \in 1..Len(ns2) : ns2[i].id = x.id => ns2[i] = x
  <2> SUFFICES ASSUME NEW i \in 1..Len(ns2), ns2[i].id = x.id PROVE ns2[i] = x
    OBVIOUS
  <2>1. /\ \A j \in 1..Len(ns) : ns2[j] = ns[j]
        /\ \A j \in 1..Len(new) : ns2[Len(ns) + j] = new[j]
        /\ i \in 1..Len(ns) \/ \E k \in 1..Len(new) : i = Len(ns) + k
    <3> HIDE DEF new
    <3> QED BY <1>2, <1>3, BothAre
  <2> HIDE DEF ns2, new
  <2>2. i \notin 1..Len(ns)
    BY <1>5, <2>1 DEF IdsOf
  <2> QED BY <1>2, <2>1, <2>2
<1>8. Adds(t, list, ns, D, kids, new, joins, parent)
  <2>1. \A i \in 1..Len(new) :
           /\ joins[i].child = new[i].id /\ joins[i].parent = parent
           /\ \E n \in ({top} \cup D) \ FileScoped(t) : Source(t, new[i].id, n)
    BY <1>2
  <2>2. \A i, j \in 1..Len(new) : new[i].id = new[j].id => i = j
    BY <1>2
  <2>3. Len(joins) = Len(new) /\ D \in SUBSET Children(t, top) /\ KidsOf(t, top, D, kids)
    BY <1>2
  <2> HIDE DEF new, joins, D, parent
  <2> QED BY <1>2, <1>3, <2>1, <2>2, <2>3 DEF Adds
<1>9. Told(t, sc, new, parent)
  <2>1. ASSUME NEW i \in 1..Len(new), ~GoMethod(t, new[i].id)
        PROVE  new[i].qualified = Append(NamesTo(sc, Len(sc)), NameOf(new[i].id))
    <3>1. new[i] = x
      BY <1>2
    <3> HIDE DEF new
    <3> QED BY <2>1, <3>1
  <2> QED BY <2>1 DEF Told
<1>10. t.lang = "Rust" => \A i \in 1..Len(new) :
         new[i].id.kind \in OwnerKinds => new[i].qualified = <<NameOf(new[i].id)>>
  <2> SUFFICES ASSUME t.lang = "Rust", NEW i \in 1..Len(new), new[i].id.kind \in OwnerKinds
               PROVE  new[i].qualified = <<NameOf(new[i].id)>>
    OBVIOUS
  <2>1. new[i] = x
    BY <1>2
  <2>2. x.qualified = Append(<<>>, NameOf(x.id))
    <3>1. ~GoMethod(t, x.id)
      BY DEF GoMethod
    <3>2. NamesTo(sc, Len(sc)) = <<>>
      BY <2>1
    <3> QED BY <3>1, <3>2
  <2>3. \A y : Append(<<>>, y) = <<y>>
    OBVIOUS
  <2> HIDE DEF new
  <2> QED BY <2>1, <2>2, <2>3
<1>11. \A d \in D : t.kind[d] # "impl_item"
  OBVIOUS
<1>12. ASSUME x.id.kind \in ScopeKinds \ {"Type"}
       PROVE  Opens(t, ids2, ns2, sc, top, kids, one, mid)
  <2>1. x.id \in Holders(t, ids2, top)
    BY <1>6, <1>12 DEF Holders
  <2>2. x.id.kind # "File"
    BY MayBeKinds DEF Source
  <2>3. ~GoMethod(t, x.id) => \A i \in 1..Len(ns2) :
          ns2[i].id = x.id => ns2[i].qualified = Append(NamesTo(sc, Len(sc)), NameOf(x.id))
    BY <1>7
  <2> HIDE DEF ids2, ns2, top
  <2> QED BY <2>1, <2>2, <2>3 DEF Opens
<1>13. ASSUME kids = <<>> \/ x.id.kind \notin ScopeKinds \ {"Type"}
       PROVE  Opens(t, ids2, ns2, sc, top, kids, none, kids)
  <2>1. CASE kids = <<>>
    BY <2>1 DEF Opens
  <2>2. CASE x.id.kind \notin ScopeKinds \ {"Type"}
    <3>1. ASSUME NEW id \in Holders(t, ids2, top) PROVE FALSE
      <4>1. id \in ids2 /\ Source(t, id, top) /\ id.kind \in ScopeKinds \ {"Type"}
        BY DEF Holders
      <4>2. id \in IdsOf(ns)
        BY <1>6, <2>2, <4>1
      <4>3. top \notin V
        BY <1>1, TopIs
      <4> QED BY <1>1, <1>5, <4>1, <4>2, <4>3, Fresh
    <3> QED BY <3>1 DEF Opens
  <2> QED BY <1>13, <2>1, <2>2
<1> HIDE DEF new, joins, one, none, D, parent, ns2, ids2
<1>14. ASSUME x.id.kind \in ScopeKinds \ {"Type"}
       PROVE  ScopesAt(t, mid \o Tail(list), sc \o one, ns2, cs \o joins, rs \o more)
  <2>1. Opens(t, IdsOf(ns \o new), ns \o new, sc, Head(list), kids, one, mid)
    BY <1>12, <1>14 DEF ids2, ns2
  <2> HIDE DEF mid
  <2>2. ScopesAt(t, mid \o Tail(list), sc \o one, ns \o new, cs \o joins, rs \o more)
    BY <1>8, <1>9, <1>10, <1>11, <2>1, ScopesMove
  <2> QED BY <2>2 DEF ns2
<1>15. ASSUME kids = <<>> \/ x.id.kind \notin ScopeKinds \ {"Type"}
       PROVE  ScopesAt(t, kids \o Tail(list), sc \o none, ns2, cs \o joins, rs \o more)
  <2>1. Opens(t, IdsOf(ns \o new), ns \o new, sc, Head(list), kids, none, kids)
    BY <1>13, <1>15 DEF ids2, ns2
  <2>2. ScopesAt(t, kids \o Tail(list), sc \o none, ns \o new, cs \o joins, rs \o more)
    BY <1>8, <1>9, <1>10, <1>11, <2>1, ScopesMove
  <2> QED BY <2>2 DEF ns2
<1> QED BY <1>4, <1>14, <1>15

(* The node on top is none, or one whose declaration needs no walk. *)
LEMMA ScopesPass ==
  ASSUME LinesApart, NEW t \in Trees, NEW list, list # <<>>, Head(list) # Pop,
         NEW sc, NEW ns, NEW cs, NEW rs, ScopesAt(t, list, sc, ns, cs, rs),
         Scoped(sc, IdsOf(ns)), Listed(rs),
         NEW kids, KidsOf(t, Head(list), {}, kids), t.kind[Head(list)] # "impl_item",
         kids = <<>> \/ Head(list) \notin FileScoped(t),
         NEW more, Listed(more), CallsHere(t, Head(list), sc[Len(sc)], more)
  PROVE  ScopesAt(t, kids \o Tail(list), sc, ns, cs, rs \o more)
<1> DEFINE top == Head(list)
           none == <<>>
           D == {}
           parent == sc[Len(sc)]
           ids2 == IdsOf(ns \o none)
<1>1. PICK V : Seen(t, V, list) /\ Batch(t, V, ns, cs)
  BY DEF ScopesAt
<1>2. Listed(ns) /\ Listed(cs) /\ Listed(sc) /\ parent \in IdsOf(ns)
  BY <1>1, InnermostIs DEF Batch
<1>3. /\ ns \o none = ns /\ cs \o none = cs /\ sc \o none = sc
      /\ Listed(none) /\ \A i \in 1..Len(none) : FALSE
  BY <1>2, NothingAdded
<1>4. Opens(t, ids2, ns \o none, sc, top, kids, none, kids)
  <2>1. CASE kids = <<>>
    BY <2>1 DEF Opens
  <2>2. CASE top \notin FileScoped(t)
    <3>1. ASSUME NEW id \in Holders(t, ids2, top) PROVE FALSE
      <4>1. id \in IdsOf(ns) /\ Source(t, id, top)
        BY <1>3 DEF Holders
      <4>2. V \in SUBSET Node(t) /\ top \in Node(t) /\ top \notin V
        BY <1>1, TopIs
      <4> QED BY <1>1, <2>2, <4>1, <4>2, Fresh
    <3> QED BY <3>1 DEF Opens
  <2> QED BY <2>1, <2>2
<1>5. D \in SUBSET Children(t, top) /\ KidsOf(t, top, D, kids) /\ \A d \in D : t.kind[d] # "impl_item"
  OBVIOUS
<1> HIDE DEF none, D, parent
<1>6. Adds(t, list, ns, D, kids, none, none, parent)
  BY <1>2, <1>3, <1>5 DEF Adds
<1>7. Told(t, sc, none, parent)
  BY <1>3 DEF Told, parent
<1>8. t.lang = "Rust" => \A i \in 1..Len(none) :
         none[i].id.kind \in OwnerKinds => none[i].qualified = <<NameOf(none[i].id)>>
  BY <1>3
<1>9. Opens(t, IdsOf(ns \o none), ns \o none, sc, Head(list), kids, none, kids)
  BY <1>4
<1> HIDE DEF ids2, top
<1>10. ScopesAt(t, kids \o Tail(list), sc \o none, ns \o none, cs \o none, rs \o more)
  BY <1>5, <1>6, <1>7, <1>8, <1>9, ScopesMove
<1> QED BY <1>3, <1>10

(* A Rust type or impl that stands in no other declaration is named plainly.  *)
LEMMA PlainHere ==
  ASSUME NEW t \in Trees, ~LocalItem(t), t.lang = "Rust",
         NEW list, list # <<>>, Head(list) # Pop, NEW sc, NEW ns, NEW cs, NEW rs,
         ScopesAt(t, list, sc, ns, cs, rs), Scoped(sc, IdsOf(ns)),
         t.kind[Head(list)] \in {"impl_item", "struct_item", "enum_item"}
  PROVE  /\ Around(t, IdsOf(ns), Head(list)) = {} /\ NamesTo(sc, Len(sc)) = <<>>
         /\ \A k \in 1..Len(sc) : sc[k].kind = "File"
<1> DEFINE top == Head(list)
           ids == IdsOf(ns)
<1>0. Config[t.lang] = Rust
  BY LanguagesAre
<1>1. PICK V : Seen(t, V, list) /\ Batch(t, V, ns, cs)
  BY DEF ScopesAt
<1>2. PICK g : Levels(list, Len(sc), g) /\ Placed(t, ids, list, sc, g)
  BY DEF ScopesAt
<1>3. top \in Node(t)
  BY <1>1, TopIs
<1>4. \A a \in Above(t, top) : t.kind[a] \in {"mod_item", "source_file"}
  BY <1>3 DEF LocalItem
<1>5. ASSUME NEW a \in Above(t, top) PROVE Holders(t, ids, a) = {}
  <2> SUFFICES ASSUME NEW id \in Holders(t, ids, a) PROVE FALSE
    OBVIOUS
  <2>1. t.kind[a] \in {"mod_item", "source_file"}
    BY <1>4
  <2>2. MayBe(t, a, id.kind) /\ id.kind \in ScopeKinds \ {"Type"}
    BY <2>1 DEF Holders, Source
  <2> QED BY <1>0, <2>1, <2>2 DEF MayBe, Rust, Nothing
<1>6. Around(t, ids, top) = {}
  BY <1>5 DEF Around
<1>7. Fits(t, ids, top, sc, Len(sc)) /\ Len(sc) \in Nat
  BY <1>1, <1>2, TopFits
<1>8. \A k \in 1..Len(sc) : sc[k].kind \in {"File", "Namespace"}
  BY <1>6, <1>7 DEF Fits
<1>9. ASSUME NEW k \in 1..Len(sc) PROVE sc[k].kind = "File"
  <2>1. PICK i \in 1..Len(ns) : sc[k] = ns[i].id
    BY DEF Scoped, IdsOf
  <2>2. CASE i = 1
    BY <1>1, <2>1, <2>2, FileIdIs DEF Batch
  <2>3. CASE i # 1
    <3>1. i \in 2..Len(ns)
      BY <1>1, <2>3, ListedIs DEF Batch
    <3>2. PICK n \in V \cup FileScoped(t) : Source(t, ns[i].id, n)
      BY <1>1, <3>1 DEF Batch
    <3>3. MayBe(t, n, sc[k].kind)
      BY <2>1, <3>2 DEF Source
    <3>4. sc[k].kind # "Namespace"
      BY <1>0, <3>3 DEF MayBe, Rust, Nothing
    <3> QED BY <1>8, <3>4
  <2> QED BY <2>2, <2>3
<1>10. NamesTo(sc, Len(sc)) = <<>>
  BY <1>7, <1>9, NamesNone
<1> QED BY <1>6, <1>9, <1>10

(* The node on top is declared and becomes the scope of its kids. *)
LEMMA Declares ==
  ASSUME LinesApart, NEW t, NEW list, NEW sc, NEW ns, NEW cs, NEW rs, WalkAt(t, list, sc, ns, cs, rs),
         list # <<>>, Head(list) # Pop, NEW kids, KidsOf(t, Head(list), {}, kids),
         NEW x, Source(t, x.id, Head(list)), Head(list) \notin FileScoped(t),
         NEW e, e.parent \in IdsOf(ns), e.child = x.id,
         NEW more, Anchored(more, IdsOf(ns) \cup {x.id})
  PROVE  /\ WalkAt(t, kids \o <<Pop>> \o Tail(list), Append(sc, x.id), Append(ns, x), Append(cs, e),
                rs \o more)
         /\ WalkAt(t, kids \o Tail(list), sc, Append(ns, x), Append(cs, e), rs \o more)
<1>1. /\ Listed(<<x>>) /\ Listed(<<e>>) /\ Listed(<<x.id>>)
      /\ Len(<<x>>) = 1 /\ Len(<<e>>) = 1 /\ Len(<<x.id>>) = 1
      /\ <<x>>[1] = x /\ <<e>>[1] = e /\ <<x.id>>[1] = x.id
  BY ListedOne
<1> DEFINE new == <<x>>
           joins == <<e>>
           one == <<x.id>>
           mid == kids \o <<Pop>>
<1>2. IdsOf(new) = {x.id}
  <2>1. 1..1 = {1}
    OBVIOUS
  <2> QED BY <1>1, <2>1 DEF IdsOf
<1> DEFINE D == {}
           parent == e.parent
           up == <<>>
<1>3. D \in SUBSET Children(t, Head(list)) /\ KidsOf(t, Head(list), D, kids) /\ parent \in IdsOf(ns)
  OBVIOUS
<1>4. \A i \in 1..Len(new) :
        /\ joins[i].child = new[i].id /\ joins[i].parent = parent
        /\ \E n \in ({Head(list)} \cup D) \ FileScoped(t) : Source(t, new[i].id, n)
  <2>1. \A i \in 1..Len(new) : i = 1
    BY <1>1
  <2> QED BY <1>1, <2>1
<1>5. \A i, j \in 1..Len(new) : new[i].id = new[j].id => i = j
  BY <1>1
<1>6. \A i \in 1..Len(one) : one[i] \in IdsOf(ns) \cup IdsOf(new)
  BY <1>1, <1>2
<1>7. /\ sc \o one = Append(sc, x.id) /\ ns \o new = Append(ns, x) /\ cs \o joins = Append(cs, e)
      /\ Listed(new) /\ Listed(joins) /\ Listed(one) /\ Len(joins) = Len(new) /\ Len(one) # 0
      /\ sc \o up = sc /\ Listed(up) /\ \A i \in 1..Len(up) : up[i] \in IdsOf(ns) \cup IdsOf(new)
  <2>1. sc \o one = Append(sc, x.id) /\ ns \o new = Append(ns, x) /\ cs \o joins = Append(cs, e)
    BY ListsOf, AppendIs
  <2>2. sc \o up = sc /\ Listed(up) /\ \A i \in 1..Len(up) : FALSE
    BY ListsOf, NothingAdded
  <2> QED BY <1>1, <2>1, <2>2
<1>8. Anchored(more, IdsOf(ns) \cup IdsOf(new))
  BY <1>2
<1> HIDE DEF new, joins, one, D, parent, up
<1>9. WalkAt(t, mid \o Tail(list), sc \o one, ns \o new, cs \o joins, rs \o more)
  <2>1. mid = kids \/ (mid = kids \o <<Pop>> /\ Len(one) # 0)
    BY <1>7
  <2> HIDE DEF mid
  <2> QED BY <1>3, <1>4, <1>5, <1>6, <1>7, <1>8, <2>1, Moves
<1>10. WalkAt(t, kids \o Tail(list), sc \o up, ns \o new, cs \o joins, rs \o more)
  <2>1. kids = kids \/ (kids = kids \o <<Pop>> /\ Len(up) # 0)
    OBVIOUS
  <2> QED BY <1>3, <1>4, <1>5, <1>7, <1>8, <2>1, Moves
<1> QED BY <1>7, <1>9, <1>10

(* No node is added. *)
LEMMA Passes ==
  ASSUME LinesApart, NEW t, NEW list, NEW sc, NEW ns, NEW cs, NEW rs, WalkAt(t, list, sc, ns, cs, rs),
         list # <<>>, Head(list) # Pop, NEW kids, KidsOf(t, Head(list), {}, kids),
         NEW up, Listed(up), \A i \in 1..Len(up) : up[i] \in IdsOf(ns),
         NEW mid, mid = kids \/ (mid = kids \o <<Pop>> /\ Len(up) # 0),
         NEW more, Anchored(more, IdsOf(ns))
  PROVE  WalkAt(t, mid \o Tail(list), sc \o up, ns, cs, rs \o more)
<1> DEFINE none == <<>>
           D == {}
<1>1. Listed(none) /\ Len(none) = 0 /\ IdsOf(none) = {} /\ ns \o none = ns /\ cs \o none = cs
  BY ListsOf, NothingAdded
<1>2. \A i \in 1..Len(none) : FALSE
  BY <1>1
<1>3. D \in SUBSET Children(t, Head(list)) /\ KidsOf(t, Head(list), D, kids) /\ FileId \in IdsOf(ns)
  BY InnermostIs DEF WalkAt
<1> HIDE DEF none, D
<1>4. /\ \A i \in 1..Len(up) : up[i] \in IdsOf(ns) \cup IdsOf(none)
      /\ Anchored(more, IdsOf(ns) \cup IdsOf(none))
  BY <1>1
<1>5. WalkAt(t, mid \o Tail(list), sc \o up, ns \o none, cs \o none, rs \o more)
  <2>1. \A i \in 1..Len(none) :
           /\ none[i].child = none[i].id /\ none[i].parent = FileId
           /\ \E n \in ({Head(list)} \cup D) \ FileScoped(t) : Source(t, none[i].id, n)
    BY <1>2
  <2>2. \A i, j \in 1..Len(none) : none[i].id = none[j].id => i = j
    BY <1>2
  <2> QED BY <1>1, <1>3, <1>4, <2>1, <2>2, Moves
<1> QED BY <1>1, <1>5

LEMMA SourceIs ==
  ASSUME NEW t, NEW n, NEW kind, MayBe(t, n, kind), t.name[n] # 0, t.kind[n] # "impl_item",
         ~(t.lang = "Go" /\ t.kind[n] = "method_declaration")
  PROVE  /\ Source(t, Id(kind, t.name[n], t.line[n]), n)
         /\ Id(kind, t.name[n], t.line[n]).kind = kind
<1> DEFINE id == Id(kind, t.name[n], t.line[n])
<1>1. id.kind = kind /\ id.path = <<t.name[n]>> /\ id.line = t.line[n]
  BY DEF Id, PathId
<1>2. Path(t, n) = <<t.name[n]>>
  BY DEF Path
<1>3. <<t.name[n]>> # <<0>>
  OBVIOUS
<1> HIDE DEF id
<1>4. Source(t, id, n) /\ id.kind = kind
  BY <1>1, <1>2, <1>3 DEF Source
<1> QED BY <1>4 DEF id

LEMMA HookFrom ==
  ASSUME WalkInv, todo # <<>>, Top # Pop
  PROVE  /\ Top \in Node(tree) /\ tree \in Trees /\ tree.lang \in DOMAIN Config
         /\ scope[Len(scope)] \in IdsOf(nodes)
<1>1. PICK V : Seen(tree, V, todo)
  BY DEF WalkInv, WalkAt
<1>2. tree \in Trees /\ tree.lang \in DOMAIN Config
  BY TreeAssumption DEF WalkInv, WalkAt
<1>3. Head(todo) \in Node(tree)
  <2>1. Head(todo) # Pop
    BY DEF Top
  <2> QED BY <1>1, <1>2, <2>1, TopIs
<1>4. scope[Len(scope)] \in IdsOf(nodes)
  BY InnermostIs DEF WalkInv, WalkAt
<1> QED BY <1>2, <1>3, <1>4 DEF Top

(* A declaration by a table or a hook: of the node on top, whose id holds its *)
(* own name.                                                                *)
LEMMA DeclareStep ==
  ASSUME LinesApart, WalkInv, tree' = tree, todo # <<>>, Top # Pop,
         NEW id, Source(tree, id, Top), Kind \notin {"impl_item", "file_scoped_namespace_declaration"},
         tree.lang = "Rust" /\ id.kind \in OwnerKinds => Kind \in {"struct_item", "enum_item"},
         NEW x, x.id = id, x.qualified = QualifiedName(NameOf(id)) \/ GoMethod(tree, id),
         NEW kids, KidsOf(tree, Top, {}, kids),
         nodes' = Append(nodes, x), contains' = Append(contains, Contain(id)),
         \/ WalkInside(id, kids) /\ id.kind \in ScopeKinds \ {"Type"}
         \/ Walk(kids) /\ scope' = scope /\ (kids = <<>> \/ id.kind \notin ScopeKinds \ {"Type"}),
         NEW more, refs' = refs \o more, Aside(more, IdsOf(nodes) \cup {id})
  PROVE  Kept
<1> DEFINE e == Contain(id)
           inside == kids \o <<Pop>> \o Tail(todo)
           on == kids \o Tail(todo)
           deeper == Append(scope, x.id)
           nodes2 == Append(nodes, x)
           edges2 == Append(contains, e)
           refs2 == refs \o more
<1>1. e.parent = scope[Len(scope)] /\ e.child = id
  BY DEF Contain
<1>2. e.parent \in IdsOf(nodes)
  BY <1>1, HookFrom
<1>3. WalkAt(tree, todo, scope, nodes, contains, refs) /\ Head(todo) # Pop /\ Head(todo) = Top
  BY WalkInvIs DEF Top
<1>4. Source(tree, x.id, Head(todo)) /\ KidsOf(tree, Head(todo), {}, kids)
      /\ Head(todo) \notin FileScoped(tree) /\ e.child = x.id
      /\ Anchored(more, IdsOf(nodes) \cup {x.id})
  BY <1>1, <1>3 DEF FileScoped, Kind, Aside
<1> HIDE DEF e
<1>5. /\ WalkAt(tree, inside, deeper, nodes2, edges2, refs2)
      /\ WalkAt(tree, on, scope, nodes2, edges2, refs2)
  BY <1>2, <1>3, <1>4, Declares
<1>6. ASSUME Regular(tree), ~LocalItem(tree), ScopesAt(tree, todo, scope, nodes, contains, refs)
      PROVE  /\ id.kind \in ScopeKinds \ {"Type"} =>
                  ScopesAt(tree, inside, deeper, nodes2, edges2, refs2)
             /\ kids = <<>> \/ id.kind \notin ScopeKinds \ {"Type"} =>
                  ScopesAt(tree, on, scope, nodes2, edges2, refs2)
  <2>1. tree \in Trees /\ Scoped(scope, IdsOf(nodes)) /\ Listed(refs)
    BY <1>3 DEF WalkAt, Anchored
  <2>2. CallsHere(tree, Head(todo), scope[Len(scope)], more) /\ Listed(more)
    BY AsideCalls
  <2>3. tree.lang = "Rust" /\ x.id.kind \in OwnerKinds => NamesTo(scope, Len(scope)) = <<>>
    <3> SUFFICES ASSUME tree.lang = "Rust", x.id.kind \in OwnerKinds
                 PROVE  NamesTo(scope, Len(scope)) = <<>>
      OBVIOUS
    <3>1. tree.kind[Head(todo)] \in {"impl_item", "struct_item", "enum_item"}
      BY <1>3 DEF Kind
    <3> QED BY <1>3, <1>6, <2>1, <3>1, PlainHere
  <2>4. tree.kind[Head(todo)] # "impl_item"
    BY <1>3 DEF Kind
  <2>5. x.qualified = Append(NamesTo(scope, Len(scope)), NameOf(x.id)) \/ GoMethod(tree, x.id)
    BY DEF QualifiedName
  <2> QED BY <1>1, <1>3, <1>4, <1>6, <2>1, <2>2, <2>3, <2>4, <2>5, ScopesDeclare
<1>7. nodes' = nodes2 /\ contains' = edges2 /\ refs' = refs2
  BY DEF e
<1> DEFINE opens == id.kind \in ScopeKinds \ {"Type"}
<1>8. CASE WalkInside(id, kids) /\ opens
  <2>1. todo' = inside /\ scope' = deeper
    BY <1>8 DEF WalkInside
  <2> HIDE DEF inside, deeper, nodes2, edges2, refs2
  <2>2. WalkAt(tree, todo', scope', nodes', contains', refs')
    BY <1>5, <1>7, <2>1
  <2> QED BY <1>6, <1>7, <1>8, <2>1, <2>2, KeptIs
<1>9. CASE Walk(kids) /\ scope' = scope /\ (kids = <<>> \/ ~opens)
  <2>1. todo' = on
    BY <1>9 DEF Walk
  <2> HIDE DEF on, nodes2, edges2, refs2
  <2>2. WalkAt(tree, todo', scope', nodes', contains', refs')
    BY <1>5, <1>7, <1>9, <2>1
  <2> QED BY <1>6, <1>7, <1>9, <2>1, <2>2, KeptIs
<1> QED BY <1>8, <1>9

(* A node that only lets the walk go on. *)
LEMMA PassStep ==
  ASSUME LinesApart, WalkInv, tree' = tree, todo # <<>>, Top # Pop,
         Regular(tree) => Kind # "impl_item",
         NEW kids, KidsOf(tree, Top, {}, kids), Walk(kids), kids = <<>> \/ Top \notin FileScoped(tree),
         scope' = scope, nodes' = nodes, contains' = contains,
         NEW more, refs' = refs \o more, Anchored(more, IdsOf(nodes)),
         CallsHere(tree, Top, scope[Len(scope)], more)
  PROVE  Kept
<1> DEFINE up == <<>>
<1>1. WalkAt(tree, todo, scope, nodes, contains, refs) /\ Head(todo) # Pop /\ Head(todo) = Top
  BY WalkInvIs DEF Top
<1>2. Listed(up) /\ (\A i \in 1..Len(up) : up[i] \in IdsOf(nodes)) /\ scope \o up = scope
  BY <1>1, ListsOf, NothingAdded
<1> HIDE DEF up
<1>3. KidsOf(tree, Head(todo), {}, kids) /\ (kids = kids \/ (kids = kids \o <<Pop>> /\ Len(up) # 0))
  BY <1>1
<1>4. WalkAt(tree, kids \o Tail(todo), scope \o up, nodes, contains, refs \o more)
  BY <1>1, <1>2, <1>3, Passes
<1>5. todo' = kids \o Tail(todo) /\ refs' = refs \o more
  BY DEF Walk
<1>6. WalkAt(tree, todo', scope', nodes', contains', refs')
  BY <1>2, <1>4, <1>5
<1>7. ASSUME Regular(tree), ScopesAt(tree, todo, scope, nodes, contains, refs)
      PROVE  ScopesAt(tree, todo', scope', nodes', contains', refs')
  <2>1. tree \in Trees /\ Scoped(scope, IdsOf(nodes)) /\ Listed(refs) /\ Listed(more)
    BY <1>1 DEF WalkAt, Anchored
  <2>2. /\ CallsHere(tree, Head(todo), scope[Len(scope)], more)
        /\ tree.kind[Head(todo)] # "impl_item" /\ (kids = <<>> \/ Head(todo) \notin FileScoped(tree))
    BY <1>1, <1>7 DEF Kind
  <2>3. ScopesAt(tree, kids \o Tail(todo), scope, nodes, contains, refs \o more)
    BY <1>1, <1>3, <1>7, <2>1, <2>2, ScopesPass
  <2> QED BY <1>5, <2>3
<1> QED BY <1>6, <1>7, KeptIs

-----------------------------------------------------------------------------
(* Each action keeps the invariant. *)

\* A declaration that a table of the language asks for.
LEMMA TableStep ==
  ASSUME LinesApart, WalkInv, tree' = tree, todo # <<>>, Top # Pop, Named,
         Kind \in Declared(tree.lang), Kind \notin Taken[tree.lang],
         NEW kind, MayBe(tree, Top, kind), NEW docs, NEW kids, KidsOf(tree, Top, {}, kids),
         Emit(IdOf(kind), docs), Hooked,
         \/ WalkInside(IdOf(kind), kids) /\ kind \in ScopeKinds \ {"Type"}
         \/ Walk(kids) /\ scope' = scope /\ (kids = <<>> \/ kind \notin ScopeKinds \ {"Type"}),
         Aside(HookRefs(tree, Top, scope[Len(scope)]), IdsOf(nodes) \cup {IdOf(kind)})
  PROVE  Kept
<1> DEFINE id == IdOf(kind)
           x == N(id, QualifiedName(NameOf(id)), docs)
           more == HookRefs(tree, Top, scope[Len(scope)])
<1>1. Kind \notin {"impl_item", "file_scoped_namespace_declaration"}
  BY HookFrom, DeclaredAre
<1>2. ~(tree.lang = "Go" /\ Kind = "method_declaration")
  <2>1. Taken["Go"] = {"type_spec", "method_declaration"}
    BY LanguagesAre DEF Taken
  <2> QED BY <2>1
<1>3. Source(tree, id, Top) /\ id.kind = kind
  BY <1>1, <1>2, SourceIs DEF IdOf, Named, Kind
<1>4. x.id = id /\ x.qualified = QualifiedName(NameOf(id))
  BY DEF N
<1>5. nodes' = Append(nodes, x) /\ contains' = Append(contains, Contain(id)) /\ refs' = refs \o more
  BY DEF Emit, Hooked
<1>6. tree.lang = "Rust" /\ kind \in OwnerKinds => Kind \in {"struct_item", "enum_item"}
  <2> SUFFICES ASSUME tree.lang = "Rust", kind \in OwnerKinds
               PROVE  Kind \in {"struct_item", "enum_item"}
    OBVIOUS
  <2>1. Config[tree.lang] = Rust
    BY LanguagesAre
  <2>2. Kind \in {"function_item", "trait_item", "struct_item", "enum_item", "type_item",
                  "let_declaration", "const_item", "static_item"}
    BY <2>1 DEF Declared, Rust, Nothing
  <2>3. /\ kind \in {"Struct", "Trait", "Class", "Enum"} /\ Rust.class = {}
        /\ Rust.struct = {"struct_item"} /\ Rust.enum = {"enum_item"}
    BY DEF OwnerKinds, Rust, Nothing
  <2> QED BY <2>1, <2>2, <2>3 DEF MayBe, Kind
<1> HIDE DEF id, x, more
<1>7. Aside(more, IdsOf(nodes) \cup {id})
  BY DEF more, id
<1>8. \/ WalkInside(id, kids) /\ id.kind \in ScopeKinds \ {"Type"}
      \/ Walk(kids) /\ scope' = scope /\ (kids = <<>> \/ id.kind \notin ScopeKinds \ {"Type"})
  BY <1>3 DEF id
<1> QED BY <1>1, <1>3, <1>4, <1>5, <1>6, <1>7, <1>8, DeclareStep

\* Hooks add nothing at a type when the walk is not at one.
LEMMA QuietHere ==
  ASSUME WalkInv, todo # <<>>, Top # Pop, ~HookedType(tree, Top), NEW ids, IdsOf(nodes) \subseteq ids
  PROVE  Aside(HookRefs(tree, Top, scope[Len(scope)]), ids)
  BY HookFrom, HooksQuiet

LEMMA NotHooked ==
  ASSUME WalkInv, todo # <<>>, Top # Pop,
         \/ Kind \in Lang.namespace \cup Lang.function \cup Lang.method \cup Lang.alias
                       \cup Lang.property \cup Lang.field \cup Lang.variable \cup Lang.import
                       \cup Lang.call
         \/ tree.lang \notin {"TypeScript", "CSharp"}
  PROVE  ~HookedType(tree, Top)
  BY HookFrom, HookedAre DEF Lang, Kind

LEMMA BodyIs ==
  ASSUME WalkInv, todo # <<>>, Top # Pop
  PROVE  KidsOf(tree, Top, {}, Body) /\ KidsOf(tree, Top, {}, AllKids) /\ KidsOf(tree, Top, {}, <<>>)
  BY HookFrom, KidsAre DEF Body, AllKids

LEMMA NamespaceStep ==
  ASSUME LinesApart, WalkInv, VisitNamespace
  PROVE  Kept
<1> DEFINE id == IdOf("Namespace")
           more == HookRefs(tree, Top, scope[Len(scope)])
<1>1. /\ todo # <<>> /\ Top # Pop /\ Kind \in Lang.namespace /\ tree' = tree
      /\ refs' = refs \o more
  BY DEF VisitNamespace, Default, Visiting, Declare, Hooked
<1>2. ~HookedType(tree, Top)
  BY <1>1, NotHooked
<1>3. Aside(more, IdsOf(nodes)) /\ Aside(more, IdsOf(nodes) \cup {id})
  BY <1>1, <1>2, QuietHere
<1>4. KidsOf(tree, Top, {}, Body) /\ KidsOf(tree, Top, {}, <<>>)
  BY <1>1, BodyIs
<1> HIDE DEF more
<1>5. CASE Kind = "file_scoped_namespace_declaration"
  <2>1. Walk(<<>>) /\ scope' = scope /\ nodes' = nodes /\ contains' = contains
    BY <1>5 DEF VisitNamespace
  <2>2. Anchored(more, IdsOf(nodes)) /\ CallsHere(tree, Top, scope[Len(scope)], more)
    BY <1>3, AsideCalls DEF Aside
  <2>3. Kind # "impl_item" /\ (<<>> = <<>> \/ Top \notin FileScoped(tree))
    BY <1>5
  <2> QED BY <1>1, <1>4, <2>1, <2>2, <2>3, PassStep
<1>6. CASE Kind # "file_scoped_namespace_declaration"
  <2>1. Named /\ Emit(id, {}) /\ WalkInside(id, Body)
    BY <1>6 DEF VisitNamespace, Declare
  <2>2. Kind = "namespace_declaration"
    <3>1. tree.lang \in DOMAIN Config /\ Config[tree.lang].namespace # {}
      BY <1>1, HookFrom DEF Lang
    <3>2. Config[tree.lang].namespace = {"namespace_declaration", "file_scoped_namespace_declaration"}
      BY <3>1, NamespacesAre
    <3> QED BY <1>1, <1>6, <3>2 DEF Lang
  <2>3. Source(tree, id, Top) /\ id.kind = "Namespace"
    <3>1. MayBe(tree, Top, "Namespace")
      BY <1>1 DEF MayBe, Lang, Kind
    <3>2. /\ tree.kind[Top] # "impl_item" /\ tree.name[Top] # 0
          /\ ~(tree.lang = "Go" /\ tree.kind[Top] = "method_declaration")
      BY <2>1, <2>2 DEF Kind, Named
    <3> QED BY <3>1, <3>2, SourceIs DEF IdOf
  <2> DEFINE x == N(id, QualifiedName(NameOf(id)), {})
  <2>4. /\ x.id = id /\ x.qualified = QualifiedName(NameOf(id))
        /\ nodes' = Append(nodes, x) /\ contains' = Append(contains, Contain(id))
    BY <2>1 DEF N, Emit
  <2> HIDE DEF x, id
  <2>5. id.kind \in ScopeKinds \ {"Type"} /\ id.kind \notin OwnerKinds
    BY <2>3 DEF ScopeKinds, OwnerKinds
  <2>6. Kind \notin {"impl_item", "file_scoped_namespace_declaration"}
    BY <2>2
  <2> QED BY <1>1, <1>3, <1>4, <2>1, <2>3, <2>4, <2>5, <2>6, DeclareStep
<1> QED BY <1>5, <1>6

LEMMA FunctionStep ==
  ASSUME LinesApart, WalkInv, VisitFunction
  PROVE  Kept
<1>1. /\ todo # <<>> /\ Top # Pop /\ Kind \in Lang.function /\ Kind \notin Taken[tree.lang]
      /\ tree' = tree /\ Named /\ Emit(IdOf("Function"), Documenting(Top))
      /\ WalkInside(IdOf("Function"), Body) /\ Hooked
  BY DEF VisitFunction, Default, Visiting, Declare
<1>2. Kind \in Declared(tree.lang) /\ MayBe(tree, Top, "Function")
      /\ "Function" \in ScopeKinds \ {"Type"}
  BY <1>1 DEF Declared, Lang, MayBe, Kind, ScopeKinds
<1>3. Aside(HookRefs(tree, Top, scope[Len(scope)]), IdsOf(nodes) \cup {IdOf("Function")})
  BY <1>1, NotHooked, QuietHere
<1> QED BY <1>1, <1>2, <1>3, BodyIs, TableStep

LEMMA MethodStep ==
  ASSUME LinesApart, WalkInv, VisitMethod
  PROVE  Kept
<1>1. /\ todo # <<>> /\ Top # Pop /\ Kind \in Lang.method /\ Kind \notin Taken[tree.lang]
      /\ tree' = tree /\ Named /\ Emit(IdOf("Method"), Documenting(Top))
      /\ WalkInside(IdOf("Method"), Body) /\ Hooked
  BY DEF VisitMethod, Default, Visiting, Declare
<1>2. Kind \in Declared(tree.lang) /\ MayBe(tree, Top, "Method")
      /\ "Method" \in ScopeKinds \ {"Type"}
  BY <1>1 DEF Declared, Lang, MayBe, Kind, ScopeKinds
<1>3. Aside(HookRefs(tree, Top, scope[Len(scope)]), IdsOf(nodes) \cup {IdOf("Method")})
  BY <1>1, NotHooked, QuietHere
<1> QED BY <1>1, <1>2, <1>3, BodyIs, TableStep

(* A type gets the id that the hooks have computed for it. *)
LEMMA TypeKindIs ==
  ASSUME WalkInv, todo # <<>>, Top # Pop,
         Kind \in Lang.class \cup Lang.interface \cup Lang.struct \cup Lang.enum
  PROVE  /\ MayBe(tree, Top, TypeKind)
         /\ tree.lang = "TypeScript" /\ Kind \in TypeScript.class => TypeKind = "Class"
         /\ tree.lang = "CSharp" /\ Kind = "class_declaration" => TypeKind = "Class"
         /\ tree.lang = "CSharp" /\ Kind \in CSharp.struct => TypeKind = "Struct"
         /\ tree.lang = "CSharp" /\ Kind \in CSharp.interface => TypeKind = "Interface"
<1>1. \/ TypeKind = "Class" /\ Kind \in Lang.class
      \/ TypeKind = "Interface" /\ Kind \in Lang.interface
      \/ TypeKind = "Struct" /\ Kind \in Lang.struct
      \/ /\ TypeKind = "Enum" /\ Kind \in Lang.enum
         /\ Kind \notin Lang.class /\ Kind \notin Lang.interface /\ Kind \notin Lang.struct
  <2>1. CASE Kind \in Lang.class
    BY <2>1 DEF TypeKind
  <2>2. CASE Kind \notin Lang.class /\ Kind \in Lang.interface
    BY <2>2 DEF TypeKind
  <2>3. CASE Kind \notin Lang.class /\ Kind \notin Lang.interface /\ Kind \in Lang.struct
    BY <2>3 DEF TypeKind
  <2>4. CASE Kind \notin Lang.class /\ Kind \notin Lang.interface /\ Kind \notin Lang.struct
    BY <2>4 DEF TypeKind
  <2> QED BY <2>1, <2>2, <2>3, <2>4
<1>2. MayBe(tree, Top, TypeKind)
  BY <1>1 DEF MayBe, Lang, Kind
<1>3. CASE tree.lang = "TypeScript"
  <2>1. /\ Lang.class = TypeScript.class /\ TypeScript.struct = {}
        /\ TypeScript.class = {"class_declaration", "abstract_class_declaration"}
        /\ Lang.interface = {"interface_declaration"} /\ Lang.struct = {}
    BY <1>3, LanguagesAre DEF Lang, TypeScript, Nothing
  <2> QED BY <1>1, <1>2, <1>3, <2>1
<1>4. CASE tree.lang = "CSharp"
  <2>1. /\ Lang.class = {"class_declaration"} /\ Lang.interface = {"interface_declaration"}
        /\ Lang.struct = {"struct_declaration", "record_declaration"}
        /\ CSharp.interface = {"interface_declaration"}
        /\ CSharp.struct = {"struct_declaration", "record_declaration"}
    BY <1>4, LanguagesAre DEF Lang, CSharp, Nothing
  <2> QED BY <1>1, <1>2, <1>4, <2>1
<1>5. CASE tree.lang # "TypeScript" /\ tree.lang # "CSharp"
  BY <1>2, <1>5
<1> QED BY <1>3, <1>4, <1>5

LEMMA TypeStep ==
  ASSUME LinesApart, WalkInv, VisitType
  PROVE  Kept
<1> DEFINE ids == IdsOf(nodes) \cup {IdOf(TypeKind)}
<1>1. /\ todo # <<>> /\ Top # Pop /\ Kind \notin Taken[tree.lang]
      /\ Kind \in Lang.class \cup Lang.interface \cup Lang.struct \cup Lang.enum
      /\ tree' = tree /\ Named /\ Emit(IdOf(TypeKind), Documenting(Top))
      /\ WalkInside(IdOf(TypeKind), AllKids) /\ Hooked
  BY DEF VisitType, Default, Visiting, Declare
<1>2. Kind \in Declared(tree.lang) /\ MayBe(tree, Top, TypeKind)
      /\ TypeKind \in ScopeKinds \ {"Type"}
  <2>1. TypeKind \in {"Class", "Interface", "Struct", "Enum"}
    BY DEF TypeKind
  <2> QED BY <1>1, <2>1, TypeKindIs DEF Declared, Lang, ScopeKinds, ClassKinds
<1>3. Aside(HookRefs(tree, Top, scope[Len(scope)]), ids)
  <2>1. /\ tree.lang = "TypeScript" /\ Kind \in TypeScript.class => IdOf("Class") \in ids
        /\ tree.lang = "CSharp" /\ Kind = "class_declaration" => IdOf("Class") \in ids
        /\ tree.lang = "CSharp" /\ Kind \in CSharp.struct => IdOf("Struct") \in ids
        /\ tree.lang = "CSharp" /\ Kind \in CSharp.interface => IdOf("Interface") \in ids
    BY <1>1, TypeKindIs
  <2>2. scope[Len(scope)] \in ids
    BY <1>1, HookFrom
  <2> HIDE DEF ids
  <2> QED BY <1>1, <2>1, <2>2, HookFrom, HooksAnchored DEF IdOf, Kind
<1> QED BY <1>1, <1>2, <1>3, BodyIs, TableStep

LEMMA AliasStep ==
  ASSUME LinesApart, WalkInv, VisitAlias
  PROVE  Kept
<1>1. /\ todo # <<>> /\ Top # Pop /\ Kind \in Lang.alias /\ Kind \notin Taken[tree.lang]
      /\ tree' = tree /\ Named /\ Emit(IdOf("Type"), {})
      /\ Walk(AllKids) /\ scope' = scope /\ Hooked
  BY DEF VisitAlias, Default, Visiting
<1>2. Kind \in Declared(tree.lang) /\ MayBe(tree, Top, "Type")
  BY <1>1 DEF Declared, Lang, MayBe, Kind
<1>3. Aside(HookRefs(tree, Top, scope[Len(scope)]), IdsOf(nodes) \cup {IdOf("Type")})
  BY <1>1, NotHooked, QuietHere
<1> QED BY <1>1, <1>2, <1>3, BodyIs, TableStep

LEMMA MemberStep ==
  ASSUME LinesApart, WalkInv, VisitMember
  PROVE  Kept
<1> DEFINE kind == IF Kind \in Lang.property THEN "Property" ELSE "Field"
<1>1. /\ todo # <<>> /\ Top # Pop /\ Kind \in Lang.property \cup Lang.field
      /\ Kind \notin Taken[tree.lang]
      /\ tree' = tree /\ Named /\ Emit(IdOf(kind), {})
      /\ Walk(<<>>) /\ scope' = scope /\ Hooked
  BY DEF VisitMember, Default, Visiting
<1>2. Kind \in Declared(tree.lang) /\ MayBe(tree, Top, kind)
  BY <1>1 DEF Declared, Lang, MayBe, Kind
<1> HIDE DEF kind
<1>3. Aside(HookRefs(tree, Top, scope[Len(scope)]), IdsOf(nodes) \cup {IdOf(kind)})
  BY <1>1, NotHooked, QuietHere
<1> QED BY <1>1, <1>2, <1>3, BodyIs, TableStep

LEMMA ReferencesAre ==
  ASSUME NEW l \in DOMAIN Config, NEW k \in Config[l].import \cup Config[l].call
  PROVE  k # "impl_item" /\ k # "file_scoped_namespace_declaration"
<1>1. CASE l = "TypeScript"
  BY <1>1, LanguagesAre DEF TypeScript, Nothing
<1>2. CASE l = "JavaScript"
  BY <1>2, LanguagesAre DEF JavaScript, TypeScript, Nothing
<1>3. CASE l = "Python"
  BY <1>3, LanguagesAre DEF Python, Nothing
<1>4. CASE l = "Rust"
  BY <1>4, LanguagesAre DEF Rust, Nothing
<1>5. CASE l = "CSharp"
  BY <1>5, LanguagesAre DEF CSharp, Nothing
<1>6. CASE l = "Go"
  BY <1>6, LanguagesAre DEF Go, Nothing
<1>7. CASE l = "Cpp"
  BY <1>7, LanguagesAre DEF Cpp, Nothing
<1> QED BY <1>1, <1>2, <1>3, <1>4, <1>5, <1>6, <1>7, LanguagesAre

\* Beside what a hook adds there is one call, or none.
LEMMA CallsOne ==
  ASSUME NEW ids, NEW hooks, Aside(hooks, ids), NEW t, NEW n, NEW id, NEW r,
         r.kind = "calls" => CallAt(t, n, r) /\ r.from = id
  PROVE  CallsHere(t, n, id, hooks \o <<r>>)
<1> DEFINE one == <<r>>
           both == hooks \o one
<1>1. Listed(hooks) /\ Listed(one) /\ Len(one) = 1 /\ one[1] = r
  BY ListedOne DEF Aside, Anchored
<1> HIDE DEF one
<1>2. /\ Listed(both) /\ Len(hooks) \in Nat /\ Len(one) \in Nat /\ Len(both) = Len(hooks) + Len(one)
      /\ \A i \in 1..Len(hooks) : i \in 1..Len(both) /\ both[i] = hooks[i]
      /\ \A i \in 1..Len(one) : Len(hooks) + i \in 1..Len(both) /\ both[Len(hooks) + i] = one[i]
      /\ \A i \in 1..Len(both) : i \in 1..Len(hooks) \/ \E k \in 1..Len(one) : i = Len(hooks) + k
  BY <1>1, BothAre
<1> HIDE DEF both
<1>3. ASSUME NEW i \in CallsOf(both)
      PROVE  i = Len(hooks) + 1 /\ both[i] = r /\ r.kind = "calls"
  <2>1. i \in 1..Len(both) /\ both[i].kind = "calls"
    BY DEF CallsOf
  <2>2. i \notin 1..Len(hooks)
    BY <1>2, <2>1 DEF Aside
  <2>3. PICK k \in 1..Len(one) : i = Len(hooks) + k
    BY <1>2, <2>1, <2>2
  <2>4. k = 1
    BY <1>1
  <2> QED BY <1>1, <1>2, <2>1, <2>3, <2>4
<1>4. CallsHere(t, n, id, both)
  BY <1>3 DEF CallsHere
<1> QED BY <1>4 DEF both, one

LEMMA ReferenceStep ==
  ASSUME LinesApart, WalkInv, VisitReference
  PROVE  Kept
<1> DEFINE kind == IF Kind \in Lang.import THEN "imports" ELSE "calls"
           name == IF Kind = "require" THEN Require ELSE tree.name[Top]
           from == scope[Len(scope)]
           hooks == HookRefs(tree, Top, from)
           one == <<Ref(from, kind, name, tree.line[Top])>>
<1>1. /\ todo # <<>> /\ Top # Pop /\ Kind \in Lang.import \cup Lang.call
      /\ tree' = tree /\ Walk(AllKids)
      /\ scope' = scope /\ nodes' = nodes /\ contains' = contains
      /\ refs' = Append(refs \o hooks, Ref(from, kind, name, tree.line[Top]))
  BY DEF VisitReference, Default, Visiting, HookedWith
<1>2. from \in IdsOf(nodes) /\ kind \in RefKinds
  BY <1>1, HookFrom DEF RefKinds
<1>3. Anchored(hooks, IdsOf(nodes))
  BY <1>1, NotHooked, QuietHere DEF Aside
<1>0. Aside(hooks, IdsOf(nodes))
  BY <1>1, NotHooked, QuietHere
<1>8. CallsHere(tree, Top, from, hooks \o one)
  <2> DEFINE r == Ref(from, kind, name, tree.line[Top])
  <2>1. /\ r.kind = kind /\ r.from = from /\ r.line = tree.line[Top]
        /\ r.name = IF tree.kind[Top] = "require" THEN Require ELSE tree.name[Top]
    BY DEF Ref, Kind
  <2>2. kind = "calls" => tree.kind[Top] \in Config[tree.lang].call
    BY <1>1 DEF Kind, Lang
  <2> HIDE DEF r, kind, name, from, hooks
  <2>3. r.kind = "calls" => CallAt(tree, Top, r) /\ r.from = from
    BY <2>1, <2>2 DEF CallAt
  <2>4. CallsHere(tree, Top, from, hooks \o <<r>>)
    BY <1>0, <2>3, CallsOne
  <2> QED BY <2>4 DEF r
<1> HIDE DEF kind, name, from, hooks
<1>4. Anchored(one, IdsOf(nodes)) /\ Listed(one)
  BY <1>2, AnchoredOne, ListedOne
<1>5. refs' = refs \o (hooks \o one) /\ Anchored(hooks \o one, IdsOf(nodes))
  <2> DEFINE ids == IdsOf(nodes)
  <2>1. Anchored(hooks, ids) /\ Anchored(one, ids) /\ ids \subseteq ids
    BY <1>3, <1>4
  <2>2. Listed(refs) /\ Listed(hooks)
    BY <1>3 DEF WalkInv, WalkAt, Anchored
  <2>3. PICK A, B, C : refs \in Seq(A) /\ hooks \in Seq(B) /\ one \in Seq(C)
    BY <1>4, <2>2 DEF Listed
  <2> HIDE DEF ids
  <2>4. Anchored(hooks \o one, ids)
    BY <2>1, AnchoredGrow
  <2>5. Append(refs \o hooks, Ref(from, kind, name, tree.line[Top])) = refs \o (hooks \o one)
    <3> DEFINE r == Ref(from, kind, name, tree.line[Top])
               U == (A \cup B) \cup {r}
    <3> HIDE DEF r
    <3>1. refs \in Seq(U) /\ hooks \in Seq(U) /\ <<r>> \in Seq(U) /\ r \in U
      BY <2>3
    <3> HIDE DEF U
    <3>2. refs \o hooks \in Seq(U)
      BY <3>1
    <3>3. Append(refs \o hooks, r) = (refs \o hooks) \o <<r>>
      BY <3>1, <3>2, AppendIsConcat
    <3>4. (refs \o hooks) \o <<r>> = refs \o (hooks \o <<r>>)
      BY <3>1, ConcatAssociative
    <3>5. Append(refs \o hooks, r) = refs \o (hooks \o <<r>>)
      BY <3>3, <3>4
    <3> QED BY <3>5 DEF r
  <2>6. refs' = refs \o (hooks \o one)
    BY <1>1, <2>5
  <2> QED BY <2>4, <2>6 DEF ids
<1> DEFINE more == hooks \o one
<1> HIDE DEF more, one
<1>6. /\ refs' = refs \o more /\ Anchored(more, IdsOf(nodes))
      /\ CallsHere(tree, Top, scope[Len(scope)], more)
  BY <1>5, <1>8 DEF more, from
<1>7. KidsOf(tree, Top, {}, AllKids)
  BY <1>1, BodyIs
<1>9. Kind # "impl_item" /\ Top \notin FileScoped(tree)
  BY <1>1, HookFrom, ReferencesAre DEF Lang, Kind, FileScoped
<1> QED BY <1>1, <1>6, <1>7, <1>9, PassStep

LEMMA WalkOnStep ==
  ASSUME LinesApart, TypesNamed, WalkInv, WalkOn
  PROVE  Kept
<1>1. /\ todo # <<>> /\ Top # Pop /\ Untold /\ tree' = tree /\ Walk(AllKids)
      /\ scope' = scope /\ nodes' = nodes /\ contains' = contains
      /\ refs' = refs \o HookRefs(tree, Top, scope[Len(scope)])
  BY DEF WalkOn, Hooked
<1>2. ~HookedType(tree, Top)
  <2> SUFFICES ASSUME HookedType(tree, Top) PROVE FALSE
    OBVIOUS
  <2>1. /\ Kind \in Lang.class \cup Lang.struct \cup Lang.interface
        /\ Kind \notin Lang.namespace \cup Lang.property \cup Lang.field \cup Lang.variable
        /\ tree.lang \in {"TypeScript", "CSharp"}
    BY <1>1, HookFrom, HookedAre DEF Kind, Lang
  <2>2. tree.name[Top] # 0
    BY <1>1, <2>1, HookFrom DEF TypesNamed, Lang, Kind
  <2>3. Kind \in UNION {Lang[role] : role \in {"namespace", "function", "method", "class",
                      "interface", "struct", "enum", "alias", "property", "field", "variable",
                      "import", "call"}}
    <3>1. Kind \in Lang["class"] \/ Kind \in Lang["struct"] \/ Kind \in Lang["interface"]
      BY <2>1
    <3> HIDE DEF Lang, Kind
    <3> QED BY <3>1
  <2> QED BY <1>1, <2>1, <2>2, <2>3 DEF Untold, Named
<1> DEFINE more == HookRefs(tree, Top, scope[Len(scope)])
<1>3. Anchored(more, IdsOf(nodes)) /\ CallsHere(tree, Top, scope[Len(scope)], more)
  <2>1. Aside(more, IdsOf(nodes))
    BY <1>1, <1>2, QuietHere
  <2> QED BY <2>1, AsideCalls DEF Aside
<1>4. Kind = "impl_item" => tree.lang # "Rust"
  <2> SUFFICES ASSUME Kind = "impl_item", tree.lang = "Rust" PROVE FALSE
    OBVIOUS
  <2>1. Lang = Rust /\ Taken["Rust"] = {"impl_item"}
    BY LanguagesAre DEF Lang, Taken
  <2>2. Kind \notin Rust.property \cup Rust.field \cup Rust.variable
    BY DEF Rust, Nothing
  <2> QED BY <1>1, <2>1, <2>2 DEF Untold
<1>5. Regular(tree) => Kind # "impl_item"
  BY <1>1, <1>4, HookFrom DEF Regular, Kind
<1>6. Top \notin FileScoped(tree)
  <2> SUFFICES ASSUME Kind = "file_scoped_namespace_declaration", Lang.namespace # {} PROVE FALSE
    BY DEF FileScoped, Kind, Lang
  <2>1. Lang.namespace = {"namespace_declaration", "file_scoped_namespace_declaration"}
    BY <1>1, HookFrom, NamespacesAre DEF Lang
  <2>2. Kind \in UNION {Lang[role] : role \in {"namespace", "function", "method", "class",
                      "interface", "struct", "enum", "alias", "property", "field", "variable",
                      "import", "call"}}
    <3>1. Kind \in Lang["namespace"]
      BY <2>1
    <3> HIDE DEF Lang, Kind
    <3> QED BY <3>1
  <2>3. Kind \notin Lang.property \cup Lang.field \cup Lang.variable
    <3>1. Lang.property \cup Lang.field \cup Lang.variable \subseteq Declared(tree.lang)
      BY DEF Declared, Lang
    <3> QED BY <1>1, <3>1, HookFrom, DeclaredAre
  <2> QED BY <1>1, <2>2, <2>3 DEF Untold
<1> HIDE DEF more
<1>7. refs' = refs \o more
  BY <1>1 DEF more
<1> QED BY <1>1, <1>3, <1>5, <1>6, <1>7, BodyIs, PassStep

LEMMA SkipStep ==
  ASSUME LinesApart, WalkInv, SkipForward
  PROVE  Kept
<1> DEFINE more == <<>>
<1>1. /\ todo # <<>> /\ Top # Pop /\ tree' = tree /\ Walk(<<>>)
      /\ scope' = scope /\ nodes' = nodes /\ contains' = contains /\ refs' = refs
  BY DEF SkipForward, Visiting
<1>4. Kind # "impl_item" /\ (<<>> = <<>> \/ Top \notin FileScoped(tree))
  BY DEF SkipForward, Visiting
<1>2. Anchored(more, IdsOf(nodes)) /\ CallsHere(tree, Top, scope[Len(scope)], more)
  BY AsideNone, AsideCalls DEF Aside
<1>3. refs' = refs \o more
  <2>1. Listed(refs)
    BY DEF WalkInv, WalkAt, Anchored
  <2> QED BY <1>1, <2>1, NothingAdded
<1> HIDE DEF more
<1> QED BY <1>1, <1>2, <1>3, <1>4, BodyIs, PassStep

LEMMA LeaveStep ==
  ASSUME WalkInv, Leave
  PROVE  Kept
<1>1. /\ todo # <<>> /\ Head(todo) = Pop /\ todo' = Tail(todo)
      /\ scope' = SubSeq(scope, 1, Len(scope) - 1)
      /\ tree' = tree /\ nodes' = nodes /\ contains' = contains /\ refs' = refs
  BY DEF Leave, Top
<1>2. tree \in Trees /\ Deep(todo, Len(scope)) /\ Scoped(scope, IdsOf(nodes)) /\ Anchored(refs, IdsOf(nodes))
  BY DEF WalkInv, WalkAt
<1>3. PICK V : Seen(tree, V, todo) /\ Batch(tree, V, nodes, contains)
  BY DEF WalkInv, WalkAt
<1>4. Seen(tree, V, Tail(todo))
  BY <1>1, <1>2, <1>3, SeenLeaves
<1>5. PICK X : scope \in Seq(X)
  BY <1>2 DEF Scoped, Listed
<1> DEFINE depth == Len(scope)
           S == Node(tree) \cup {Pop}
<1>6. depth \in Nat /\ todo \in Seq(S)
  BY <1>3, <1>5 DEF Seen
<1>7. Deep(Tail(todo), depth - 1) /\ depth - 1 >= 1
  <2>1. Deep(todo, depth)
    BY <1>2
  <2> HIDE DEF depth, S
  <2> QED BY <1>1, <1>6, <2>1, DeepLeaves
<1> DEFINE rest == SubSeq(scope, 1, Len(scope) - 1)
<1>8. /\ rest \in Seq(X) /\ Len(rest) = depth - 1
      /\ \A i \in 1..Len(rest) : rest[i] = scope[i] /\ i \in 1..Len(scope)
  BY <1>5, <1>6, <1>7
<1>9. Scoped(rest, IdsOf(nodes))
  <2>1. rest # <<>> /\ rest[1] = FileId
    <3>1. 1 \in 1..Len(rest)
      BY <1>6, <1>7, <1>8
    <3> HIDE DEF rest
    <3>2. rest # <<>>
      BY <3>1
    <3> QED BY <1>2, <1>8, <3>1, <3>2 DEF Scoped
  <2> HIDE DEF rest
  <2> QED BY <1>2, <1>8, <2>1 DEF Scoped, Listed
<1>10. Deep(todo', Len(scope'))
  <2> HIDE DEF rest
  <2>1. scope' = rest
    BY <1>1 DEF rest
  <2> QED BY <1>1, <1>7, <1>8, <2>1
<1> HIDE DEF rest
<1>11. WalkAt(tree, todo', scope', nodes', contains', refs')
  <2>1. scope' = rest
    BY <1>1 DEF rest
  <2> QED BY <1>1, <1>2, <1>3, <1>4, <1>9, <1>10, <2>1 DEF WalkAt
<1>12. ASSUME ScopesAt(tree, todo, scope, nodes, contains, refs)
       PROVE  ScopesAt(tree, todo', scope', nodes', contains', refs')
  <2>1. Listed(scope)
    BY <1>2 DEF Scoped
  <2>2. ScopesAt(tree, Tail(todo), SubSeq(scope, 1, Len(scope) - 1), nodes, contains, refs)
    BY <1>1, <1>2, <1>12, <2>1, ScopesLeave
  <2> QED BY <1>1, <2>2
<1> QED BY <1>1, <1>11, <1>12, KeptIs

LEMMA GoTypeStep ==
  ASSUME LinesApart, WalkInv, VisitGoType
  PROVE  Kept
<1>1. /\ todo # <<>> /\ Top # Pop /\ Kind = "type_spec" /\ tree' = tree /\ Named /\ tree.lang = "Go"
  BY DEF VisitGoType, Visiting
<1>2. \E kind \in {"Struct", "Interface", "Type"} :
        /\ Emit(IdOf(kind), {}) /\ Hooked
        /\ \/ WalkInside(IdOf(kind), AllKids) /\ kind # "Type"
           \/ Walk(<<>>) /\ scope' = scope
  BY DEF VisitGoType, Declare
<1>3. PICK kind \in {"Struct", "Interface", "Type"} :
        /\ Emit(IdOf(kind), {}) /\ Hooked
        /\ \/ WalkInside(IdOf(kind), AllKids) /\ kind # "Type"
           \/ Walk(<<>>) /\ scope' = scope
  BY <1>2
<1> DEFINE id == IdOf(kind)
           x == N(id, QualifiedName(NameOf(id)), {})
           more == HookRefs(tree, Top, scope[Len(scope)])
<1>4. Source(tree, id, Top) /\ id.kind = kind
  <2>1. MayBe(tree, Top, kind)
    BY <1>1 DEF MayBe, Kind
  <2> QED BY <1>1, <2>1, SourceIs DEF IdOf, Kind, Named
<1>5. /\ x.id = id /\ x.qualified = QualifiedName(NameOf(id))
      /\ nodes' = Append(nodes, x) /\ contains' = Append(contains, Contain(id))
      /\ refs' = refs \o more
  BY <1>3 DEF N, Emit, Hooked
<1>6. Aside(more, IdsOf(nodes) \cup {id})
  BY <1>1, NotHooked, QuietHere
<1>7. KidsOf(tree, Top, {}, AllKids) /\ KidsOf(tree, Top, {}, <<>>)
  BY <1>1, BodyIs
<1>8. Kind \notin {"impl_item", "file_scoped_namespace_declaration"} /\ tree.lang # "Rust"
  BY <1>1
<1> HIDE DEF x, more, id
<1>9. CASE WalkInside(id, AllKids) /\ kind # "Type"
  <2>1. id.kind \in ScopeKinds \ {"Type"}
    BY <1>4, <1>9 DEF ScopeKinds, ClassKinds
  <2> QED BY <1>1, <1>4, <1>5, <1>6, <1>7, <1>8, <1>9, <2>1, DeclareStep
<1>10. CASE Walk(<<>>) /\ scope' = scope
  BY <1>1, <1>4, <1>5, <1>6, <1>7, <1>8, <1>10, DeclareStep
<1> QED BY <1>3, <1>9, <1>10 DEF id

LEMMA CppFunctionStep ==
  ASSUME LinesApart, WalkInv, VisitCppFunction
  PROVE  Kept
<1> DEFINE kind == IF IsInClassScope \/ Within(tree, Top, {"qualifier"}) # <<>>
                   THEN "Method" ELSE "Function"
           id == IdOf(kind)
           x == N(id, QualifiedName(NameOf(id)), {})
           more == HookRefs(tree, Top, scope[Len(scope)])
<1>1. /\ todo # <<>> /\ Top # Pop /\ Kind = "function_definition" /\ tree' = tree /\ Named
      /\ tree.lang = "Cpp" /\ Emit(id, {}) /\ WalkInside(id, Body) /\ Hooked
  BY DEF VisitCppFunction, Visiting, Declare
<1>2. kind \in {"Method", "Function"}
  OBVIOUS
<1> HIDE DEF kind
<1>3. Source(tree, id, Top) /\ id.kind \in ScopeKinds \ {"Type"} /\ id.kind \notin OwnerKinds
  <2>1. MayBe(tree, Top, kind)
    BY <1>1, <1>2 DEF MayBe, Kind
  <2>2. Source(tree, id, Top) /\ id.kind = kind
    BY <1>1, <2>1, SourceIs DEF IdOf, Kind, Named
  <2> QED BY <1>2, <2>2 DEF ScopeKinds, OwnerKinds
<1>4. /\ x.id = id /\ x.qualified = QualifiedName(NameOf(id))
      /\ nodes' = Append(nodes, x) /\ contains' = Append(contains, Contain(id))
      /\ refs' = refs \o more
  BY <1>1 DEF N, Emit, Hooked
<1>5. Aside(more, IdsOf(nodes) \cup {id})
  BY <1>1, NotHooked, QuietHere
<1>6. KidsOf(tree, Top, {}, Body) /\ Kind \notin {"impl_item", "file_scoped_namespace_declaration"}
  BY <1>1, BodyIs
<1> HIDE DEF x, more, id
<1> QED BY <1>1, <1>3, <1>4, <1>5, <1>6, DeclareStep

LEMMA WithinIs ==
  ASSUME NEW t \in Trees, NEW n, NEW kinds
  PROVE  Len(Within(t, n, kinds)) \in Nat /\ DOMAIN Within(t, n, kinds) = 1..Len(Within(t, n, kinds))
<1> DEFINE S == {m \in Children(t, n) : t.kind[m] \in kinds}
           o == InOrder(S)
<1>1. o \in Seq(S) /\ Len(o) \in Nat
  <2>1. S \in SUBSET Node(t)
    BY DEF Children
  <2> HIDE DEF S
  <2> QED BY <2>1, NodesInOrder
<1> HIDE DEF o
<1>2. DOMAIN o = 1..Len(o)
  BY <1>1
<1> QED BY <1>1, <1>2 DEF Within, o

LEMMA GoMethodStep ==
  ASSUME LinesApart, WalkInv, VisitGoMethod
  PROVE  Kept
<1> DEFINE receiver == Map(Within(tree, Top, {"receiver"}), LAMBDA r : tree.name[r])
           qualified == Append(receiver, tree.name[Top])
           id == PathId("Method", qualified, tree.line[Top])
           x == N(id, qualified, {})
           more == HookRefs(tree, Top, scope[Len(scope)])
<1>1. /\ todo # <<>> /\ Top # Pop /\ Kind = "method_declaration" /\ tree' = tree /\ Named
      /\ tree.lang = "Go" /\ nodes' = Append(nodes, x) /\ contains' = Append(contains, Contain(id))
      /\ WalkInside(id, Body) /\ refs' = refs \o more
  BY DEF VisitGoMethod, Visiting, Hooked
<1>2. id.kind = "Method" /\ id.path = qualified /\ id.line = tree.line[Top]
  BY DEF PathId
<1>3. qualified = Path(tree, Top)
  BY <1>1 DEF Path, Kind
<1>4. qualified # <<0>>
  <2>1. Listed(receiver)
    <3> DEFINE w == Within(tree, Top, {"receiver"})
    <3>1. Len(w) \in Nat /\ DOMAIN w = 1..Len(w)
      BY <1>1, HookFrom, WithinIs
    <3>2. receiver = [i \in 1..Len(w) |-> tree.name[w[i]]]
      BY <3>1 DEF Map
    <3> HIDE DEF w, receiver
    <3> QED BY <3>1, <3>2, ListedMap
  <2> HIDE DEF receiver
  <2>2. PICK R : receiver \in Seq(R)
    BY <2>1 DEF Listed
  <2>3. Len(qualified) = Len(receiver) + 1 /\ qualified[Len(receiver) + 1] = tree.name[Top]
        /\ Len(receiver) \in Nat
    BY <2>2
  <2>4. tree.name[Top] # 0
    BY <1>1 DEF Named
  <2> HIDE DEF qualified
  <2> DEFINE z == <<0>>
  <2>5. Len(z) = 1 /\ z[1] = 0
    OBVIOUS
  <2> HIDE DEF z
  <2>6. qualified # z
    BY <2>3, <2>4, <2>5
  <2> QED BY <2>6 DEF z
<1>5. Source(tree, id, Top)
  <2>1. MayBe(tree, Top, "Method")
    BY <1>1 DEF MayBe, Kind
  <2> HIDE DEF id, qualified
  <2> QED BY <1>2, <1>3, <1>4, <2>1 DEF Source
<1>6. /\ x.id = id /\ GoMethod(tree, id)
      /\ id.kind \in ScopeKinds \ {"Type"} /\ id.kind \notin OwnerKinds
  BY <1>1, <1>2 DEF N, GoMethod, ScopeKinds, OwnerKinds
<1>7. Aside(more, IdsOf(nodes) \cup {id})
  BY <1>1, NotHooked, QuietHere
<1>8. KidsOf(tree, Top, {}, Body) /\ Kind \notin {"impl_item", "file_scoped_namespace_declaration"}
  BY <1>1, BodyIs
<1> HIDE DEF x, more, id
<1> QED BY <1>1, <1>5, <1>6, <1>7, <1>8, DeclareStep

LEMMA CppTypeStep ==
  ASSUME LinesApart, WalkInv, VisitCppType
  PROVE  Kept
<1> DEFINE kind == IF Kind = "struct_specifier" THEN "Struct" ELSE "Class"
           kids == IF Kind = "macro_class" THEN Body ELSE AllKids
           id == IdOf(kind)
           x == N(id, QualifiedName(NameOf(id)), Documenting(Top))
           more == Bases(kind)
<1>1. /\ todo # <<>> /\ Top # Pop /\ Kind \in {"macro_class", "class_specifier", "struct_specifier"}
      /\ tree' = tree /\ Named /\ tree.lang = "Cpp" /\ Emit(id, Documenting(Top))
      /\ WalkInside(id, kids) /\ refs' = refs \o more
  BY DEF VisitCppType, Visiting
<1>2. MayBe(tree, Top, kind) /\ kind \in {"Struct", "Class"}
  BY <1>1 DEF MayBe, Kind
<1> HIDE DEF kind
<1>3. Source(tree, id, Top) /\ id.kind \in ScopeKinds \ {"Type"}
  <2>1. Source(tree, id, Top) /\ id.kind = kind
    BY <1>1, <1>2, SourceIs DEF IdOf, Kind, Named
  <2> QED BY <1>2, <2>1 DEF ScopeKinds, ClassKinds
<1>4. /\ x.id = id /\ x.qualified = QualifiedName(NameOf(id))
      /\ nodes' = Append(nodes, x) /\ contains' = Append(contains, Contain(id))
  BY <1>1 DEF N, Emit
<1>5. Aside(more, IdsOf(nodes) \cup {id})
  <2> DEFINE w == Within(tree, Top, {"base"})
  <2>1. Len(w) \in Nat /\ DOMAIN w = 1..Len(w)
    BY <1>1, HookFrom, WithinIs
  <2>2. more = [i \in 1..Len(w) |-> Ref(id, "extends", tree.name[w[i]], tree.line[w[i]])]
    BY <2>1 DEF Bases, Map
  <2> HIDE DEF w, more, id
  <2>3. Listed(more) /\ Len(more) = Len(w)
    BY <2>1, <2>2, ListedMap
  <2>4. \A i \in 1..Len(more) : /\ more[i].from = id /\ more[i].kind \in RefKinds
                                /\ more[i].kind # "calls"
    BY <2>2, <2>3 DEF Ref, RefKinds
  <2> QED BY <2>3, <2>4 DEF Aside, Anchored
<1>6. /\ KidsOf(tree, Top, {}, kids) /\ tree.lang # "Rust"
      /\ Kind \notin {"impl_item", "file_scoped_namespace_declaration"}
  BY <1>1, BodyIs
<1> HIDE DEF x, more, id, kids
<1> QED BY <1>1, <1>3, <1>4, <1>5, <1>6, DeclareStep

LEMMA ImplOwnerIs ==
  ASSUME WalkInv, todo # <<>>, Top # Pop, Kind = "impl_item", NEW self,
         <<self>> = Path(tree, Top)
  PROVE  IF Made(ImplOwner(self))
         THEN Source(tree, ImplOwner(self), Top)
         ELSE ImplOwner(self) \in IdsOf(nodes)
<1> DEFINE known == {i \in DOMAIN nodes : /\ nodes[i].id.path = <<self>>
                                     /\ nodes[i].id.kind \in {"Struct", "Trait", "Class", "Enum"}}
<1>1. PICK V : Batch(tree, V, nodes, contains)
  BY DEF WalkInv, WalkAt
<1>2. DOMAIN nodes = 1..Len(nodes) /\ Len(nodes) \in Nat
  BY <1>1, ListedIs DEF Batch
<1>3. ASSUME ~Made(ImplOwner(self))
      PROVE  ImplOwner(self) \in IdsOf(nodes)
  BY <1>2, <1>3 DEF Made, IdsOf
<1>4. ASSUME NEW i \in 1..Len(nodes), ImplOwner(self) = nodes[i].id
      PROVE  ~Made(ImplOwner(self))
  BY <1>2, <1>4 DEF Made
<1>5. CASE self = 0
  <2>1. ImplOwner(self) = FileId
    BY <1>5 DEF ImplOwner
  <2>2. 1 \in 1..Len(nodes) /\ nodes[1].id = FileId
    <3>1. Len(nodes) # 0
      <4>1. Len(contains) \in Nat /\ Len(nodes) = Len(contains) + 1
        BY <1>1, ListedIs DEF Batch
      <4> QED BY <4>1
    <3> QED BY <1>1, <1>2, <3>1 DEF Batch
  <2> QED BY <1>3, <1>4, <2>1, <2>2
<1>6. CASE self # 0 /\ known # {}
  <2>1. known \in SUBSET Nat /\ known \in SUBSET (1..Len(nodes))
    BY <1>2
  <2> HIDE DEF known
  <2>2. \E i \in known : \A j \in known : i <= j
    BY <1>6, <2>1, LeastOf
  <2> DEFINE least == CHOOSE i \in known : \A j \in known : i <= j
  <2>3. least \in known
    BY <2>2
  <2>4. ImplOwner(self) = nodes[least].id
    BY <1>6 DEF ImplOwner, known
  <2> HIDE DEF least
  <2> QED BY <1>3, <1>4, <2>1, <2>3, <2>4
<1>7. CASE self # 0 /\ known = {}
  <2> DEFINE id == Id("Type", self, tree.line[Top])
  <2>1. ImplOwner(self) = id
    BY <1>7 DEF ImplOwner
  <2>2. id.kind = "Type" /\ id.path = <<self>> /\ id.line = tree.line[Top]
    BY DEF Id, PathId
  <2>3. MayBe(tree, Top, "Type")
    BY DEF MayBe, Kind
  <2>4. <<self>> # <<0>>
    BY <1>7
  <2> HIDE DEF id
  <2>5. Source(tree, id, Top)
    BY <2>2, <2>3, <2>4 DEF Source
  <2> QED BY <1>3, <2>1, <2>5
<1> QED BY <1>5, <1>6, <1>7

LEMMA OwnerOf ==
  ASSUME WalkInv, NEW self
  PROVE  /\ self = 0 => ImplOwner(self) = FileId
         /\ self # 0 => /\ ImplOwner(self).path = <<self>>
                        /\ ImplOwner(self).kind \in OwnerKinds \cup {"Type"}
                        /\ ImplOwner(self).kind = "Type" => ImplOwner(self).line = tree.line[Top]
<1> DEFINE known == {i \in DOMAIN nodes : /\ nodes[i].id.path = <<self>>
                                     /\ nodes[i].id.kind \in {"Struct", "Trait", "Class", "Enum"}}
<1>1. CASE self = 0
  BY <1>1 DEF ImplOwner
<1>2. CASE self # 0 /\ known # {}
  <2>1. known \in SUBSET Nat
    <3>1. Listed(nodes)
      BY DEF WalkInv, WalkAt, Batch
    <3> QED BY <3>1, ListedIs
  <2> HIDE DEF known
  <2>2. \E i \in known : \A j \in known : i <= j
    BY <1>2, <2>1, LeastOf
  <2> DEFINE least == CHOOSE i \in known : \A j \in known : i <= j
  <2>3. least \in known
    BY <2>2
  <2>4. ImplOwner(self) = nodes[least].id
    BY <1>2 DEF ImplOwner, known
  <2> HIDE DEF least
  <2>5. nodes[least].id.path = <<self>> /\ nodes[least].id.kind \in OwnerKinds
    BY <2>3 DEF known, OwnerKinds
  <2> QED BY <1>2, <2>4, <2>5 DEF OwnerKinds
<1>3. CASE self # 0 /\ known = {}
  BY <1>3 DEF ImplOwner, Id, PathId
<1> QED BY <1>1, <1>2, <1>3

(* An impl stands in the file, so that its type is named plainly.            *)
LEMMA ScopesImpl ==
  ASSUME LinesApart, NEW t \in Trees, ~LocalItem(t), t.lang = "Rust",
         NEW list, list # <<>>, Head(list) # Pop, t.kind[Head(list)] = "impl_item",
         NEW sc, NEW ns, NEW cs, NEW rs, ScopesAt(t, list, sc, ns, cs, rs),
         Scoped(sc, IdsOf(ns)), Listed(rs),
         NEW self, <<self>> = Path(t, Head(list)), NEW owner, self = 0 => owner = FileId,
         self # 0 => /\ owner.path = <<self>> /\ owner.kind \in OwnerKinds \cup {"Type"}
                     /\ owner.kind = "Type" => owner.line = t.line[Head(list)],
         NEW kids, KidsOf(t, Head(list), {}, kids),
         NEW mid, mid = IF self # 0 THEN kids \o <<Pop>> ELSE kids,
         NEW x, x.id = owner, x.qualified = Append(NamesTo(sc, Len(sc)), self),
         NEW e, e.parent = FileId, e.child = owner,
         NEW new, NEW joins,
         \/ /\ new = <<x>> /\ joins = <<e>> /\ owner \notin IdsOf(ns) /\ Source(t, owner, Head(list))
         \/ new = <<>> /\ joins = <<>> /\ owner \in IdsOf(ns),
         NEW more, Listed(more), CallsHere(t, Head(list), sc[Len(sc)], more)
  PROVE  ScopesAt(t, mid \o Tail(list), Append(sc, owner), ns \o new, cs \o joins, rs \o more)
<1> DEFINE top == Head(list)
           ns2 == ns \o new
           ids2 == IdsOf(ns2)
           up == <<owner>>
           D == {}
<1>1. PICK V : Seen(t, V, list) /\ Batch(t, V, ns, cs)
  BY DEF ScopesAt
<1>2. /\ V \in SUBSET Node(t) /\ top \in Node(t) /\ top \notin V /\ top \notin FileScoped(t)
  BY <1>1, TopIs DEF FileScoped
<1>3. /\ Around(t, IdsOf(ns), top) = {} /\ NamesTo(sc, Len(sc)) = <<>>
      /\ \A k \in 1..Len(sc) : sc[k].kind = "File"
  BY PlainHere
<1>4. Listed(sc) /\ Len(sc) \in 1..Len(sc) /\ FileId \in IdsOf(ns) /\ Listed(ns) /\ Listed(cs)
  <2>1. PICK X : sc \in Seq(X)
    BY DEF Scoped, Listed
  <2>2. Len(sc) \in 1..Len(sc)
    BY <2>1 DEF Scoped
  <2> QED BY <1>1, <2>2, InnermostIs DEF Batch
<1>5. /\ Listed(new) /\ Listed(joins) /\ Len(joins) = Len(new)
      /\ \A i \in 1..Len(new) : /\ i = 1 /\ new[i] = x /\ joins[i] = e
                                /\ owner \notin IdsOf(ns) /\ Source(t, owner, top)
  <2>1. CASE new = <<>> /\ joins = <<>>
    BY <2>1, NothingAdded
  <2>2. CASE new = <<x>> /\ joins = <<e>> /\ owner \notin IdsOf(ns) /\ Source(t, owner, top)
    <3>1. Listed(new) /\ Listed(joins) /\ Len(joins) = 1 /\ Len(new) = 1 /\ new[1] = x /\ joins[1] = e
      BY <2>2, ListedOne
    <3> HIDE DEF top
    <3> QED BY <2>2, <3>1
  <2> QED BY <2>1, <2>2
<1>6. IdsOf(ns2) = IdsOf(ns) \cup IdsOf(new) /\ owner \in ids2
  <2>1. IdsOf(ns2) = IdsOf(ns) \cup IdsOf(new)
    BY <1>4, <1>5, IdsGrow
  <2>2. owner \in IdsOf(ns) \cup IdsOf(new)
    <3>1. CASE new = <<x>>
      <4>1. 1 \in 1..Len(new) /\ new[1].id = owner
        BY <3>1, ListedOne
      <4> QED BY <4>1 DEF IdsOf
    <3> QED BY <3>1
  <2> QED BY <2>1, <2>2
<1>7. self # 0 => owner.kind # "File" /\ NameOf(owner) = self /\ ~GoMethod(t, owner)
  <2> SUFFICES ASSUME self # 0 PROVE owner.kind # "File" /\ NameOf(owner) = self /\ ~GoMethod(t, owner)
    OBVIOUS
  <2>1. owner.kind # "File"
    BY DEF OwnerKinds
  <2>2. owner.path = <<self>> /\ NameOf(owner) = owner.path[Len(owner.path)]
    BY DEF NameOf
  <2>3. <<self>>[Len(<<self>>)] = self
    BY ListedOne
  <2>4. NameOf(owner) = self
    BY <2>2, <2>3
  <2> QED BY <2>1, <2>4 DEF GoMethod
<1>8. owner \in Holders(t, ids2, top)
  <2>1. CASE self = 0
    <3>1. owner.kind = "File" /\ owner.path = <<self>>
      BY <2>1 DEF FileId, Id, PathId
    <3> HIDE DEF ids2
    <3> QED BY <1>6, <3>1 DEF Holders
  <2>2. CASE self # 0
    <3>1. owner.path = <<self>> /\ owner.kind \in ClassKinds \cup {"Type", "File"}
      BY <2>2 DEF OwnerKinds, ClassKinds
    <3> HIDE DEF ids2
    <3> QED BY <1>6, <2>2, <3>1 DEF Holders
  <2> QED BY <2>1, <2>2
<1>9. ASSUME self # 0, NEW i \in 1..Len(ns2), ns2[i].id = owner
      PROVE  ns2[i].qualified = Append(NamesTo(sc, Len(sc)), NameOf(owner))
  <2>1. Append(NamesTo(sc, Len(sc)), NameOf(owner)) = <<NameOf(owner)>>
    BY <1>3
  <2>2. /\ \A k \in 1..Len(ns) : ns2[k] = ns[k]
        /\ \A k \in 1..Len(new) : ns2[Len(ns) + k] = new[k]
        /\ i \in 1..Len(ns) \/ \E k \in 1..Len(new) : i = Len(ns) + k
    BY <1>4, <1>5, BothAre
  <2> HIDE DEF ns2
  <2>3. CASE i \in 1..Len(ns)
    <3>1. ns[i].id = owner /\ owner \in IdsOf(ns)
      BY <1>9, <2>2, <2>3 DEF IdsOf
    <3>2. owner.kind # "Type"
      <4> SUFFICES ASSUME owner.kind = "Type" PROVE FALSE
        OBVIOUS
      <4>1. MayBe(t, top, owner.kind)
        BY DEF MayBe
      <4>2. owner.path = Path(t, top) /\ owner.line = t.line[top]
        BY <1>9
      <4>4. owner.path # <<0>>
        <5>1. owner.path = <<self>> /\ self # 0
          BY <1>9
        <5> QED BY ONLY <5>1
      <4>3. Source(t, owner, top)
        BY <4>1, <4>2, <4>4 DEF Source
      <4> QED BY <1>1, <1>2, <3>1, <4>3, Fresh
    <3>3. ns[i].qualified = <<NameOf(owner)>>
      <4>1. Plain(t, ns) /\ owner.kind \in OwnerKinds
        BY <1>9, <3>2 DEF ScopesAt
      <4> QED BY <2>3, <3>1, <4>1 DEF Plain
    <3> QED BY <2>1, <2>2, <2>3, <3>3
  <2>4. ASSUME NEW k \in 1..Len(new), i = Len(ns) + k
        PROVE  ns2[i].qualified = Append(NamesTo(sc, Len(sc)), NameOf(owner))
    BY <1>5, <1>7, <1>9, <2>2, <2>4
  <2> QED BY <2>2, <2>3, <2>4
<1>10. Opens(t, ids2, ns2, sc, Head(list), kids, up, mid)
  <2>1. CASE self = 0
    <3>1. owner = FileId /\ mid = kids
      BY <2>1
    <3>2. Around(t, ids2, top) = {}
      <4>1. new = <<>>
        BY <1>4, <2>1
      <4>2. ids2 = IdsOf(ns)
        BY <1>4, <4>1, NothingAdded
      <4> QED BY <1>3, <4>2
    <3> HIDE DEF ids2, ns2
    <3> QED BY <1>3, <1>8, <3>1, <3>2 DEF Opens
  <2>2. CASE self # 0
    <3>1. mid = kids \o <<Pop>> /\ owner.kind # "File"
      BY <1>7, <2>2
    <3> HIDE DEF ids2, ns2
    <3> QED BY <1>8, <1>9, <2>2, <3>1 DEF Opens
  <2> QED BY <2>1, <2>2
<1>11. D \in SUBSET Children(t, top) /\ KidsOf(t, top, D, kids) /\ \A d \in D : t.kind[d] # "impl_item"
  OBVIOUS
<1> HIDE DEF up, D
<1>12. Adds(t, list, ns, D, kids, new, joins, FileId)
  <2>1. \A i \in 1..Len(new) :
          /\ joins[i].child = new[i].id /\ joins[i].parent = FileId
          /\ \E n \in ({Head(list)} \cup D) \ FileScoped(t) : Source(t, new[i].id, n)
    BY <1>2, <1>5
  <2>2. \A i, j \in 1..Len(new) : new[i].id = new[j].id => i = j
    BY <1>5
  <2> QED BY <1>4, <1>5, <1>11, <2>1, <2>2 DEF Adds
<1>13. ASSUME NEW i \in 1..Len(new)
       PROVE  /\ new[i].qualified = Append(NamesTo(sc, Len(sc)), NameOf(new[i].id))
              /\ new[i].qualified = <<NameOf(new[i].id)>>
  <2>1. self # 0
    <3>1. owner.path # <<0>> /\ owner.path = Path(t, top)
      BY <1>5 DEF Source
    <3> QED BY <3>1
  <2>2. new[i].id = owner /\ new[i].qualified = Append(NamesTo(sc, Len(sc)), self)
    BY <1>5
  <2> QED BY <1>3, <1>7, <2>1, <2>2
<1>14. Told(t, sc, new, FileId)
  BY <1>3, <1>4, <1>13, FileIdIs DEF Told
<1>15. t.lang = "Rust" => \A i \in 1..Len(new) :
           new[i].id.kind \in OwnerKinds => new[i].qualified = <<NameOf(new[i].id)>>
  BY <1>13
<1>16. Opens(t, IdsOf(ns \o new), ns \o new, sc, Head(list), kids, up, mid)
  BY <1>10
<1> HIDE DEF ids2, ns2, top
<1>17. ScopesAt(t, mid \o Tail(list), sc \o up, ns \o new, cs \o joins, rs \o more)
  BY <1>11, <1>12, <1>14, <1>15, <1>16, ScopesMove
<1>18. sc \o up = Append(sc, owner)
  BY <1>4, AppendIs DEF up
<1> QED BY <1>17, <1>18

LEMMA ImplStep ==
  ASSUME LinesApart, WalkInv, VisitImpl
  PROVE  Kept
<1> DEFINE self == IF ImplNames = <<>> THEN 0 ELSE tree.name[ImplNames[Len(ImplNames)]]
           owner == ImplOwner(self)
           x == N(owner, QualifiedName(self), {})
           e == [parent |-> FileId, child |-> owner]
           r == Ref(owner, "implements", tree.name[ImplNames[1]], tree.line[Top])
           mid == IF self # 0 THEN Body \o <<Pop>> ELSE Body
           more == IF Len(ImplNames) >= 2 THEN <<r>> ELSE <<>>
           ids == IdsOf(nodes) \cup {owner}
<1>1. /\ todo # <<>> /\ Top # Pop /\ Kind = "impl_item" /\ tree' = tree /\ tree.lang = "Rust"
      /\ nodes' = (IF Made(owner) THEN Append(nodes, x) ELSE nodes)
      /\ contains' = (IF Made(owner) THEN Append(contains, e) ELSE contains)
      /\ refs' = (IF Len(ImplNames) >= 2 THEN Append(refs, r) ELSE refs)
      /\ scope' = Append(scope, owner) /\ todo' = ImplWalk(self)
  BY DEF VisitImpl, Visiting
<1>2. <<self>> = Path(tree, Top)
  BY <1>1 DEF Path, ImplNames, Kind
<1>3. IF Made(owner) THEN Source(tree, owner, Top) ELSE owner \in IdsOf(nodes)
  <2> HIDE DEF self
  <2> QED BY <1>1, <1>2, ImplOwnerIs
<1>4. KidsOf(tree, Top, {}, Body) /\ Top \notin FileScoped(tree)
  BY <1>1, BodyIs DEF FileScoped, Kind
<1>5. todo' = mid \o Tail(todo)
  <2>1. Body \o <<>> = Body
    <3>1. Listed(Body)
      BY <1>4 DEF KidsOf, Listed
    <3> QED BY <3>1, NothingAdded
  <2> HIDE DEF self
  <2> QED BY <1>1, <2>1 DEF ImplWalk
<1>6. x.id = owner /\ e.parent = FileId /\ e.child = owner
  BY DEF N
<1>7. FileId \in IdsOf(nodes) /\ Listed(scope) /\ Listed(refs)
  BY InnermostIs DEF WalkInv, WalkAt, Anchored
<1> HIDE DEF owner, x, e, r
<1>8. Aside(more, ids) /\ Anchored(more, ids) /\ refs' = refs \o more
  <2>1. CASE Len(ImplNames) >= 2
    <3>1. Anchored(<<r>>, ids) /\ r.kind = "implements"
      BY AnchoredOne DEF r, RefKinds, Ref
    <3>2. Len(<<r>>) = 1 /\ <<r>>[1] = r
      BY ListedOne
    <3>3. Aside(<<r>>, ids)
      <4> DEFINE one == <<r>>
      <4>1. Anchored(one, ids) /\ Len(one) = 1 /\ one[1] = r
        BY <3>1, <3>2
      <4> HIDE DEF one
      <4>2. Aside(one, ids)
        BY <3>1, <4>1 DEF Aside
      <4> QED BY <4>2 DEF one
    <3> QED BY <1>1, <1>7, <2>1, <3>1, <3>3, AppendIs
  <2>2. CASE ~(Len(ImplNames) >= 2)
    BY <1>1, <1>7, <2>2, AnchoredNone, AsideNone, NothingAdded
  <2> QED BY <2>1, <2>2
<1> HIDE DEF more
<1>9. WalkAt(tree, todo, scope, nodes, contains, refs) /\ Head(todo) # Pop /\ Head(todo) = Top
  BY <1>1, WalkInvIs DEF Top
<1>10. WalkAt(tree, mid \o Tail(todo), Append(scope, owner), nodes', contains', refs')
  <2>1. CASE Made(owner)
    <3>1. self # 0
      <4>1. Source(tree, owner, Top)
        BY <1>3, <2>1
      <4>2. Path(tree, Top) # <<0>>
        BY <4>1 DEF Source
      <4> HIDE DEF self
      <4> QED BY <1>2, <4>2
    <3>2. Source(tree, x.id, Head(todo)) /\ Head(todo) \notin FileScoped(tree)
          /\ KidsOf(tree, Head(todo), {}, Body)
          /\ e.parent \in IdsOf(nodes) /\ e.child = x.id /\ Anchored(more, IdsOf(nodes) \cup {x.id})
      BY <1>3, <1>4, <1>6, <1>7, <1>8, <1>9, <2>1
    <3>3. WalkAt(tree, Body \o <<Pop>> \o Tail(todo), Append(scope, x.id), Append(nodes, x),
              Append(contains, e), refs \o more)
      BY <1>1, <1>9, <3>2, Declares
    <3>4. mid = Body \o <<Pop>>
      BY <3>1
    <3> HIDE DEF mid
    <3> QED BY <1>1, <1>6, <1>8, <2>1, <3>3, <3>4
  <2>2. CASE ~Made(owner)
    <3> DEFINE up == <<owner>>
    <3>1. owner \in IdsOf(nodes) /\ ids = IdsOf(nodes)
      BY <1>3, <2>2
    <3>2. Listed(up) /\ Len(up) = 1 /\ up[1] = owner
      BY ListedOne
    <3>3. scope \o up = Append(scope, owner)
      BY <1>7, AppendIs
    <3> HIDE DEF up
    <3>4. \A i \in 1..Len(up) : up[i] \in IdsOf(nodes)
      BY <3>1, <3>2
    <3>5. mid = Body \/ (mid = Body \o <<Pop>> /\ Len(up) # 0)
      BY <3>2
    <3>6. KidsOf(tree, Head(todo), {}, Body) /\ Anchored(more, IdsOf(nodes))
      BY <1>4, <1>8, <1>9, <3>1
    <3> HIDE DEF mid
    <3>7. WalkAt(tree, mid \o Tail(todo), scope \o up, nodes, contains, refs \o more)
      BY <1>1, <1>9, <3>2, <3>4, <3>5, <3>6, Passes
    <3> QED BY <1>1, <1>8, <2>2, <3>3, <3>7
  <2> QED BY <2>1, <2>2
<1>11. WalkAt(tree, todo', scope', nodes', contains', refs')
  <2> HIDE DEF mid, self
  <2> QED BY <1>1, <1>5, <1>10
<1>12. ASSUME ~LocalItem(tree), ScopesAt(tree, todo, scope, nodes, contains, refs)
       PROVE  ScopesAt(tree, todo', scope', nodes', contains', refs')
  <2> DEFINE new == IF Made(owner) THEN <<x>> ELSE <<>>
             joins == IF Made(owner) THEN <<e>> ELSE <<>>
  <2>1. /\ Listed(nodes) /\ Listed(contains) /\ Listed(refs) /\ Listed(more)
        /\ tree \in Trees /\ Scoped(scope, IdsOf(nodes))
    BY <1>8, <1>9, ListsOf DEF WalkAt, Anchored
  <2>2. nodes' = nodes \o new /\ contains' = contains \o joins
    <3>1. Append(nodes, x) = nodes \o <<x>> /\ Append(contains, e) = contains \o <<e>>
          /\ nodes \o <<>> = nodes /\ contains \o <<>> = contains
      BY <2>1, AppendIs, NothingAdded
    <3> HIDE DEF self, mid
    <3> QED BY <1>1, <3>1
  <2>3. x.qualified = Append(NamesTo(scope, Len(scope)), self)
    BY DEF x, N, QualifiedName
  <2>4. /\ self = 0 => owner = FileId
        /\ self # 0 => /\ owner.path = <<self>> /\ owner.kind \in OwnerKinds \cup {"Type"}
                       /\ owner.kind = "Type" => owner.line = tree.line[Top]
    <3> HIDE DEF self
    <3> QED BY OwnerOf DEF owner
  <2>5. \/ /\ new = <<x>> /\ joins = <<e>> /\ owner \notin IdsOf(nodes) /\ Source(tree, owner, Top)
        \/ new = <<>> /\ joins = <<>> /\ owner \in IdsOf(nodes)
    <3>1. CASE Made(owner)
      <4>1. DOMAIN nodes = 1..Len(nodes)
        BY <2>1, ListedIs
      <4>2. owner \notin IdsOf(nodes)
        BY <3>1, <4>1 DEF Made, IdsOf
      <4> QED BY <1>3, <3>1, <4>2
    <3>2. CASE ~Made(owner)
      BY <1>3, <3>2
    <3> QED BY <3>1, <3>2
  <2>6. CallsHere(tree, Head(todo), scope[Len(scope)], more)
    BY <1>8, AsideCalls
  <2>7. /\ tree.kind[Head(todo)] = "impl_item" /\ KidsOf(tree, Head(todo), {}, Body)
        /\ <<self>> = Path(tree, Head(todo)) /\ mid = IF self # 0 THEN Body \o <<Pop>> ELSE Body
    BY <1>1, <1>2, <1>4, <1>9 DEF Kind
  <2> HIDE DEF new, joins, mid, self
  <2>8. ScopesAt(tree, mid \o Tail(todo), Append(scope, owner), nodes \o new, contains \o joins,
                 refs \o more)
    BY <1>1, <1>6, <1>9, <1>12, <2>1, <2>3, <2>4, <2>5, <2>6, <2>7, ScopesImpl
  <2> QED BY <1>1, <1>5, <1>8, <2>2, <2>8
<1> QED BY <1>1, <1>11, <1>12, KeptIs


(* The nodes and edges made for a list of names, in one step. *)
LEMMA VariableStep ==
  ASSUME LinesApart, WalkInv, VisitVariable
  PROVE  Kept
<1> DEFINE declarators == {m \in Children(tree, Top) : tree.kind[m] = "variable_declarator"}
           S == {m \in IF declarators = {} THEN {Top} ELSE declarators : tree.name[m] # 0}
           named == InOrder(S)
           ids == Map(named, LAMBDA m : Id("Variable", tree.name[m], tree.line[m]))
           new == Map(ids, LAMBDA id : N(id, QualifiedName(NameOf(id)), {}))
           joins == Map(ids, Contain)
           D == declarators
           parent == scope[Len(scope)]
           more == HookRefs(tree, Top, parent)
           none == <<>>
<1>1. /\ todo # <<>> /\ Top # Pop /\ Kind \in Lang.variable /\ Kind \notin Taken[tree.lang]
      /\ tree' = tree /\ nodes' = nodes \o new /\ contains' = contains \o joins
      /\ todo' = none \o Tail(todo) /\ scope' = scope /\ refs' = refs \o more
  BY DEF VisitVariable, Default, Visiting, Walk, Hooked
<1>2. Top \in Node(tree) /\ tree \in Trees /\ tree.lang \in DOMAIN Config /\ parent \in IdsOf(nodes)
  BY <1>1, HookFrom
<1>3. S \in SUBSET Node(tree) /\ S \in SUBSET ({Top} \cup D) /\ D \in SUBSET Children(tree, Top)
  BY <1>2 DEF Children
<1>4. ASSUME NEW m \in S
      PROVE  /\ m \notin FileScoped(tree)
             /\ Source(tree, Id("Variable", tree.name[m], tree.line[m]), m)
  <2>1. tree.name[m] # 0
    OBVIOUS
  <2>2. CASE tree.kind[m] = "variable_declarator"
    <3>1. MayBe(tree, m, "Variable") /\ m \notin FileScoped(tree)
      BY <2>2 DEF MayBe, FileScoped
    <3> QED BY <2>1, <2>2, <3>1, SourceIs
  <2>3. CASE m = Top
    <3>1. Kind \in Declared(tree.lang) /\ MayBe(tree, Top, "Variable")
      BY <1>1 DEF Declared, Lang, MayBe, Kind
    <3>2. Kind # "impl_item" /\ Kind # "file_scoped_namespace_declaration"
      BY <1>2, <3>1, DeclaredAre
    <3>3. ~(tree.lang = "Go" /\ Kind = "method_declaration")
      <4>1. Taken["Go"] = {"type_spec", "method_declaration"}
        BY LanguagesAre DEF Taken
      <4> QED BY <1>1, <4>1
    <3>4. Top \notin FileScoped(tree)
      BY <3>2 DEF FileScoped, Kind
    <3> QED BY <2>1, <2>3, <3>1, <3>2, <3>3, <3>4, SourceIs DEF Kind
  <2> QED BY <2>2, <2>3
<1>4a. Kind # "impl_item" /\ \A d \in D : tree.kind[d] # "impl_item"
  <2>1. Kind \in Declared(tree.lang)
    BY <1>1 DEF Declared, Lang
  <2> QED BY <1>2, <2>1, DeclaredAre
<1> HIDE DEF D, S, declarators
<1>5. /\ Len(named) \in Nat /\ DOMAIN named = 1..Len(named)
      /\ \A i \in 1..Len(named) : named[i] \in S
      /\ \A i, j \in 1..Len(named) : named[i] = named[j] => i = j
  <2>1. /\ named \in Seq(S) /\ Len(named) \in Nat
        /\ \A i \in 1..Len(named) : named[i] \in S
        /\ \A i, j \in 1..Len(named) : named[i] = named[j] => i = j
    BY <1>2, <1>3, NodesInOrder
  <2> HIDE DEF named
  <2>2. DOMAIN named = 1..Len(named)
    BY <2>1
  <2> QED BY <2>1, <2>2
<1> DEFINE n == Len(named)
<1> HIDE DEF named
<1>6. ids = [i \in 1..n |-> Id("Variable", tree.name[named[i]], tree.line[named[i]])]
  BY <1>5 DEF Map
<1>7. DOMAIN ids = 1..n
  BY <1>6
<1>8. \A i \in 1..n : ids[i] = Id("Variable", tree.name[named[i]], tree.line[named[i]])
  BY <1>6
<1> HIDE DEF ids, n
<1>9. /\ new = [i \in 1..n |-> N(ids[i], QualifiedName(NameOf(ids[i])), {})]
      /\ joins = [i \in 1..n |-> Contain(ids[i])]
  BY <1>7 DEF Map
<1> HIDE DEF new, joins
<1>10. /\ n \in Nat /\ Listed(new) /\ Listed(joins) /\ Len(new) = n /\ Len(joins) = n
       /\ \A i \in 1..n : /\ new[i].id = ids[i] /\ new[i].qualified = QualifiedName(NameOf(ids[i]))
                          /\ joins[i].child = ids[i] /\ joins[i].parent = parent
  <2>1. n \in Nat
    BY <1>5 DEF n
  <2>2. Listed(new) /\ Listed(joins) /\ Len(new) = n /\ Len(joins) = n
    BY <1>9, <2>1, ListedMap
  <2>3. \A i \in 1..n : /\ new[i].id = ids[i] /\ new[i].qualified = QualifiedName(NameOf(ids[i]))
                        /\ joins[i].child = ids[i] /\ joins[i].parent = parent
    BY <1>9 DEF N, Contain
  <2> QED BY <2>1, <2>2, <2>3
<1> HIDE DEF parent
<1>11. \A i \in 1..Len(new) :
         /\ joins[i].child = new[i].id /\ joins[i].parent = parent
         /\ \E m \in ({Head(todo)} \cup D) \ FileScoped(tree) : Source(tree, new[i].id, m)
  <2> SUFFICES ASSUME NEW i \in 1..Len(new)
               PROVE  /\ joins[i].child = new[i].id /\ joins[i].parent = parent
                      /\ \E m \in ({Head(todo)} \cup D) \ FileScoped(tree) :
                           Source(tree, new[i].id, m)
    OBVIOUS
  <2>1. i \in 1..n /\ named[i] \in S
    BY <1>5, <1>10 DEF n
  <2>2. new[i].id = Id("Variable", tree.name[named[i]], tree.line[named[i]])
    BY <1>8, <1>10, <2>1
  <2>3. named[i] \notin FileScoped(tree) /\ Source(tree, new[i].id, named[i])
    BY <1>4, <2>1, <2>2
  <2>4. named[i] \in {Head(todo)} \cup D
    BY <1>3, <2>1 DEF Top
  <2> QED BY <1>10, <2>1, <2>3, <2>4
<1>12. \A i, j \in 1..Len(new) : new[i].id = new[j].id => i = j
  <2> SUFFICES ASSUME NEW i \in 1..Len(new), NEW j \in 1..Len(new), new[i].id = new[j].id
               PROVE  i = j
    OBVIOUS
  <2>1. i \in 1..n /\ j \in 1..n /\ named[i] \in S /\ named[j] \in S
    BY <1>5, <1>10 DEF n
  <2>2. ids[i] = ids[j]
    BY <1>10, <2>1
  <2>3. Source(tree, ids[i], named[i]) /\ Source(tree, ids[j], named[j])
    BY <1>4, <1>8, <2>1
  <2>4. named[i] = named[j]
    BY <1>2, <1>3, <2>1, <2>2, <2>3, SourceOnce
  <2> QED BY <1>5, <2>1, <2>4 DEF n
<1>13. WalkAt(tree, todo, scope, nodes, contains, refs) /\ Head(todo) # Pop /\ Head(todo) = Top
  BY <1>1, WalkInvIs DEF Top
<1>14. /\ Listed(none) /\ Len(none) = 0 /\ scope \o none = scope
       /\ D \in SUBSET Children(tree, Head(todo)) /\ KidsOf(tree, Head(todo), D, none)
  <2>1. Listed(none) /\ Len(none) = 0 /\ scope \o none = scope
    BY <1>13, ListsOf, NothingAdded
  <2>2. \A X : KidsOf(tree, Head(todo), X, <<>>)
    BY <1>2, KidsAre
  <2> QED BY <1>3, <1>13, <2>1, <2>2
<1>15. Aside(more, IdsOf(nodes) \cup IdsOf(new))
  BY <1>1, NotHooked, QuietHere DEF parent
<1>16. \A i \in 1..Len(none) : none[i] \in IdsOf(nodes) \cup IdsOf(new)
  BY <1>14
<1> HIDE DEF none, more
<1>17. WalkAt(tree, none \o Tail(todo), scope \o none, nodes \o new, contains \o joins, refs \o more)
  <2>1. none = none \/ (none = none \o <<Pop>> /\ Len(none) # 0)
    OBVIOUS
  <2>2. Len(joins) = Len(new)
    BY <1>10
  <2>3. Anchored(more, IdsOf(nodes) \cup IdsOf(new))
    BY <1>15 DEF Aside
  <2> QED BY <1>1, <1>2, <1>10, <1>11, <1>12, <1>13, <1>14, <1>16, <2>1, <2>2, <2>3, Moves
<1>18. WalkAt(tree, todo', scope', nodes', contains', refs')
  BY <1>1, <1>14, <1>17
<1>19. ASSUME ScopesAt(tree, todo, scope, nodes, contains, refs)
       PROVE  ScopesAt(tree, todo', scope', nodes', contains', refs')
  <2>1. Scoped(scope, IdsOf(nodes)) /\ Listed(refs) /\ Listed(more)
    BY <1>13, <1>15 DEF WalkAt, Anchored, Aside
  <2>2. Adds(tree, todo, nodes, D, none, new, joins, parent)
    <3>1. /\ D \in SUBSET Children(tree, Head(todo)) /\ KidsOf(tree, Head(todo), D, none)
          /\ Listed(new) /\ Listed(joins) /\ Len(joins) = Len(new) /\ parent \in IdsOf(nodes)
      BY <1>2, <1>10, <1>14
    <3> QED BY <1>11, <1>12, <3>1 DEF Adds
  <2>3. Opens(tree, IdsOf(nodes \o new), nodes \o new, scope, Head(todo), none, none, none)
    <3>1. none = <<>> /\ tree.kind[Head(todo)] # "impl_item"
      BY <1>4a, <1>13 DEF none, Kind
    <3> QED BY <3>1 DEF Opens
  <2>4. ASSUME NEW i \in 1..Len(new)
        PROVE  /\ new[i].qualified = Append(NamesTo(scope, Len(scope)), NameOf(new[i].id))
               /\ new[i].id.kind = "Variable"
    <3>1. i \in 1..n
      BY <1>10
    <3>2. new[i].id = ids[i] /\ new[i].qualified = QualifiedName(NameOf(ids[i]))
      BY <1>10, <3>1
    <3>3. ids[i].kind = "Variable"
      <4>1. ids[i] = Id("Variable", tree.name[named[i]], tree.line[named[i]])
        BY <1>8, <3>1
      <4> QED BY ONLY <4>1 DEF Id, PathId
    <3> QED BY <3>2, <3>3 DEF QualifiedName
  <2>5. Told(tree, scope, new, parent)
    BY <2>4 DEF Told, parent
  <2>6. tree.lang = "Rust" => \A i \in 1..Len(new) :
           new[i].id.kind \in OwnerKinds => new[i].qualified = <<NameOf(new[i].id)>>
    BY <2>4 DEF OwnerKinds
  <2>7. CallsHere(tree, Head(todo), scope[Len(scope)], more)
    BY <1>15, AsideCalls
  <2>8. ScopesAt(tree, none \o Tail(todo), scope \o none, nodes \o new, contains \o joins, refs \o more)
    BY <1>1, <1>2, <1>4a, <1>13, <1>19, <2>1, <2>2, <2>3, <2>5, <2>6, <2>7, ScopesMove
  <2> QED BY <1>1, <1>14, <2>8
<1> QED BY <1>1, <1>18, <1>19, KeptIs

(* Before the walk: the file, and its file-scoped namespaces in one another. *)
LEMMA WalkInit ==
  ASSUME LinesApart, Init
  PROVE  WalkInv /\ (Regular(tree) => ScopeInv)
<1> DEFINE S == {m \in Children(tree, 1) : /\ tree.kind[m] = "file_scoped_namespace_declaration"
                                           /\ Lang.namespace # {} /\ tree.name[m] # 0}
           ns == InOrder(S)
           spaces == Map(ns, LAMBDA m : Id("Namespace", tree.name[m], tree.line[m]))
           ids == <<FileId>> \o spaces
           k == Len(ns)
<1>1. /\ tree \in Trees /\ todo = <<1>> /\ refs = <<>> /\ scope = ids
      /\ nodes = Map(ids, LAMBDA id : N(id, id.path, {}))
      /\ contains = [i \in 1..k |-> [parent |-> ids[i], child |-> ids[i + 1]]]
  BY DEF Init, Start
<1>2. S \in SUBSET Node(tree)
  BY DEF Children
<1>3. ASSUME NEW m \in S
      PROVE  /\ m \in FileScoped(tree)
             /\ Source(tree, Id("Namespace", tree.name[m], tree.line[m]), m)
  <2>1. /\ tree.kind[m] = "file_scoped_namespace_declaration" /\ Config[tree.lang].namespace # {}
        /\ tree.name[m] # 0 /\ m \in Node(tree)
    BY DEF Lang, Children
  <2>2. tree.lang \in DOMAIN Config
    BY <1>1, TreeAssumption
  <2>3. tree.kind[m] \in Config[tree.lang].namespace
    <3>1. Config[tree.lang].namespace = {"namespace_declaration", "file_scoped_namespace_declaration"}
      BY <2>1, <2>2, NamespacesAre
    <3> QED BY <2>1, <3>1
  <2>4. MayBe(tree, m, "Namespace")
    BY <2>3 DEF MayBe
  <2> QED BY <2>1, <2>4, SourceIs DEF FileScoped
<1> HIDE DEF S
<1>4. /\ k \in Nat /\ DOMAIN ns = 1..k
      /\ \A i \in 1..k : ns[i] \in S
      /\ \A i, j \in 1..k : ns[i] = ns[j] => i = j
  <2>1. /\ ns \in Seq(S) /\ Len(ns) \in Nat
        /\ \A i \in 1..Len(ns) : ns[i] \in S
        /\ \A i, j \in 1..Len(ns) : ns[i] = ns[j] => i = j
    BY <1>1, <1>2, NodesInOrder
  <2> HIDE DEF ns
  <2>2. DOMAIN ns = 1..Len(ns)
    BY <2>1
  <2> QED BY <2>1, <2>2
<1> HIDE DEF ns, k
<1>5. spaces = [i \in 1..k |-> Id("Namespace", tree.name[ns[i]], tree.line[ns[i]])]
  BY <1>4 DEF Map
<1>6. \A i \in 1..k : spaces[i] = Id("Namespace", tree.name[ns[i]], tree.line[ns[i]])
  BY <1>5
<1>7. Listed(spaces) /\ Len(spaces) = k
  <2> HIDE DEF spaces
  <2> QED BY <1>4, <1>5, ListedMap
<1> HIDE DEF spaces
<1>8. Listed(<<FileId>>) /\ Len(<<FileId>>) = 1 /\ <<FileId>>[1] = FileId
  BY ListedOne
<1>9. /\ Listed(ids) /\ Len(ids) = 1 + k /\ ids[1] = FileId
      /\ \A i \in 1..k : ids[1 + i] = spaces[i]
  <2> DEFINE one == <<FileId>>
  <2>1. /\ Listed(one \o spaces) /\ Len(one \o spaces) = Len(one) + Len(spaces)
        /\ \A i \in 1..Len(one) : (one \o spaces)[i] = one[i]
        /\ \A i \in 1..Len(spaces) : (one \o spaces)[Len(one) + i] = spaces[i]
    <3> HIDE DEF one
    <3> QED BY <1>7, <1>8, ListedBoth DEF one
  <2>2. 1 \in 1..Len(one)
    BY <1>8
  <2> HIDE DEF one
  <2>3. Len(one) = 1 /\ one[1] = FileId /\ ids = one \o spaces
    BY <1>8 DEF one
  <2> HIDE DEF ids
  <2> QED BY <1>7, <2>1, <2>2, <2>3
<1> HIDE DEF ids
<1>10. DOMAIN ids = 1..(k + 1)
  BY <1>4, <1>9, ListedIs
<1>11. nodes = [i \in 1..(k + 1) |-> N(ids[i], ids[i].path, {})]
  BY <1>1, <1>10 DEF Map
<1>12. Listed(nodes) /\ Len(nodes) = k + 1 /\ \A i \in 1..(k + 1) : nodes[i].id = ids[i]
  <2>1. k + 1 \in Nat
    BY <1>4
  <2>2. Listed(nodes) /\ Len(nodes) = k + 1
    BY <1>11, <2>1, ListedMap
  <2>3. \A i \in 1..(k + 1) : nodes[i].id = ids[i]
    BY <1>11 DEF N
  <2> QED BY <2>2, <2>3
<1>13. Listed(contains) /\ Len(contains) = k
       /\ \A i \in 1..k : contains[i].parent = ids[i] /\ contains[i].child = ids[i + 1]
  <2>1. contains = [i \in 1..k |-> [parent |-> ids[i], child |-> ids[i + 1]]]
    BY <1>1
  <2>2. Listed(contains) /\ Len(contains) = k
    BY <1>4, <2>1, ListedMap
  <2> QED BY <2>1, <2>2
<1>14. ASSUME NEW i \in 2..(k + 1)
       PROVE  /\ ns[i - 1] \in S /\ i - 1 \in 1..k
              /\ Source(tree, ids[i], ns[i - 1]) /\ ns[i - 1] \in FileScoped(tree)
  <2>1. i - 1 \in 1..k /\ i = 1 + (i - 1)
    BY <1>4
  <2>2. ids[i] = spaces[i - 1]
    BY <1>9, <2>1
  <2>3. ns[i - 1] \in S /\ ids[i] = Id("Namespace", tree.name[ns[i - 1]], tree.line[ns[i - 1]])
    BY <1>4, <1>6, <2>1, <2>2
  <2> QED BY <1>3, <2>1, <2>3
<1>15. ASSUME NEW i \in 1..(k + 1), NEW j \in 1..(k + 1), ids[i] = ids[j]
       PROVE  i = j
  <2>1. ASSUME NEW a \in 2..(k + 1) PROVE ids[a] # ids[1]
    <3>1. ids[a].kind # "File"
      BY <1>14, <2>1, MayBeKinds DEF Source
    <3> QED BY <1>9, <3>1, FileIdIs
  <2>2. CASE i = 1 \/ j = 1
    BY <1>4, <1>15, <2>1, <2>2
  <2>3. CASE i # 1 /\ j # 1
    <3>1. i \in 2..(k + 1) /\ j \in 2..(k + 1)
      BY <1>4, <2>3
    <3>2. Source(tree, ids[i], ns[i - 1]) /\ Source(tree, ids[i], ns[j - 1])
          /\ ns[i - 1] \in Node(tree) /\ ns[j - 1] \in Node(tree)
          /\ i - 1 \in 1..k /\ j - 1 \in 1..k
      BY <1>2, <1>14, <1>15, <3>1
    <3>3. ns[i - 1] = ns[j - 1]
      BY <1>1, <3>2, SourceOnce
    <3>4. i - 1 = j - 1
      BY <1>4, <3>2, <3>3
    <3> QED BY <1>4, <3>4
  <2> QED BY <2>2, <2>3
<1>16. Batch(tree, {}, nodes, contains)
  <2>1. nodes[1].id = FileId
    <3>1. 1 \in 1..(k + 1)
      BY <1>4
    <3> QED BY <1>9, <1>12, <3>1
  <2>2. \A i \in 2..Len(nodes) : \E n \in {} \cup FileScoped(tree) : Source(tree, nodes[i].id, n)
    <3> SUFFICES ASSUME NEW i \in 2..Len(nodes)
                 PROVE  \E n \in {} \cup FileScoped(tree) : Source(tree, nodes[i].id, n)
      OBVIOUS
    <3>1. i \in 2..(k + 1) /\ i \in 1..(k + 1)
      BY <1>4, <1>12
    <3> QED BY <1>12, <1>14, <3>1
  <2>3. \A i, j \in 1..Len(nodes) : nodes[i].id = nodes[j].id => i = j
    BY <1>12, <1>15
  <2>4. ASSUME NEW i \in 1..Len(contains)
        PROVE  contains[i].child = nodes[i + 1].id /\ \E j \in 1..i : contains[i].parent = nodes[j].id
    <3>1. i \in 1..k /\ i \in 1..(k + 1) /\ i + 1 \in 1..(k + 1) /\ i \in 1..i
      BY <1>4, <1>13
    <3> QED BY <1>12, <1>13, <3>1
  <2> QED BY <1>4, <1>12, <1>13, <2>1, <2>2, <2>3, <2>4 DEF Batch
<1>17. Seen(tree, {}, todo)
  <2>1. 1 \in Node(tree)
    BY <1>1, TreeIs
  <2>2. todo \in Seq(Node(tree) \cup {Pop}) /\ Len(todo) = 1 /\ todo[1] = 1
    BY <1>1, <2>1
  <2> QED BY <2>2 DEF Seen
<1>18. Deep(todo, Len(scope))
  <2> DEFINE g == [i \in 1..2 |-> 1]
  <2>1. Len(todo) = 1 /\ todo[1] = 1 /\ todo[1] # Pop
    BY <1>1 DEF Pop
  <2>2. g \in [1..Len(todo) + 1 -> Nat \ {0}]
    BY <2>1
  <2>3. g[1] <= Len(scope) /\ \A i \in 1..Len(todo) : g[i + 1] <= g[i] /\ (todo[i] = Pop => g[i + 1] < g[i])
    BY <1>1, <1>4, <1>9, <2>1
  <2> HIDE DEF g
  <2> QED BY <2>2, <2>3 DEF Deep
<1>19. Scoped(scope, IdsOf(nodes))
  <2>1. Len(ids) # 0
    BY <1>4, <1>9
  <2>2. ids # <<>>
    BY <2>1
  <2>3. \A i \in 1..Len(ids) : ids[i] \in IdsOf(nodes)
    <3> SUFFICES ASSUME NEW i \in 1..Len(ids) PROVE ids[i] \in IdsOf(nodes)
      OBVIOUS
    <3>1. i \in 1..(k + 1) /\ i \in 1..Len(nodes)
      BY <1>4, <1>9, <1>12
    <3> QED BY <1>12, <3>1 DEF IdsOf
  <2> QED BY <1>1, <1>9, <2>2, <2>3 DEF Scoped
<1>20. Anchored(refs, IdsOf(nodes))
  BY <1>1, AnchoredNone
<1>21. WalkInv
  BY <1>1, <1>16, <1>17, <1>18, <1>19, <1>20 DEF WalkInv, WalkAt
<1>22. ASSUME NEW i \in 2..(k + 1)
       PROVE  ids[i].kind = "Namespace" /\ ids[i].path = <<NameOf(ids[i])>>
  <2>1. i - 1 \in 1..k /\ i = 1 + (i - 1)
    BY <1>4
  <2>2. ids[i] = Id("Namespace", tree.name[ns[i - 1]], tree.line[ns[i - 1]])
    BY <1>6, <1>9, <2>1
  <2> DEFINE name == tree.name[ns[i - 1]]
  <2>3. ids[i].kind = "Namespace" /\ ids[i].path = <<name>>
    BY <2>2 DEF Id, PathId
  <2> HIDE DEF name
  <2>4. Len(<<name>>) = 1 /\ <<name>>[1] = name
    BY ListedOne
  <2>5. NameOf(ids[i]) = name
    BY <2>3, <2>4 DEF NameOf
  <2> QED BY <2>3, <2>5
<1>23. \A i \in 1..(k + 1) : /\ ids[i].kind \in {"File", "Namespace"}
                             /\ ids[i].kind = "File" <=> i = 1
  <2> SUFFICES ASSUME NEW i \in 1..(k + 1)
               PROVE  /\ ids[i].kind \in {"File", "Namespace"}
                      /\ ids[i].kind = "File" <=> i = 1
    OBVIOUS
  <2>1. CASE i = 1
    BY <1>9, <2>1, FileIdIs
  <2>2. CASE i # 1
    <3>1. i \in 2..(k + 1)
      BY <1>4, <2>2
    <3> QED BY <1>22, <2>2, <3>1
  <2> QED BY <2>1, <2>2
<1>24. \A i \in 1..(k + 1) : nodes[i].qualified = ids[i].path
  BY <1>11 DEF N
<1>25. ASSUME Regular(tree)
       PROVE  \A i \in 1..(k + 1) : i # 1 => i = 2 /\ k = 1
  <2>1. ASSUME NEW a \in 1..k, NEW b \in 1..k PROVE a = b
    <3>1. ns[a] \in S /\ ns[b] \in S
      BY <1>4
    <3>2. {ns[a], ns[b]} \subseteq FileScoped(tree) \cap Children(tree, 1)
      BY <1>3, <3>1 DEF S
    <3>3. ns[a] = ns[b]
      BY <1>25, <3>2 DEF Regular
    <3> QED BY <1>4, <3>3
  <2>2. k <= 1
    <3> SUFFICES ASSUME k > 1 PROVE FALSE
      BY <1>4
    <3>1. 1 \in 1..k /\ 2 \in 1..k
      BY <1>4
    <3> QED BY <2>1, <3>1
  <2> QED BY <1>4, <2>2
<1>26. NamesTo(scope, 1) = <<>>
  <2>1. \A i \in 1..1 : scope[i].kind = "File"
    BY <1>1, <1>9, FileIdIs
  <2> QED BY <2>1, NamesNone
<1>27. ASSUME Regular(tree) PROVE ScopesAt(tree, todo, scope, nodes, contains, refs)
  <2>1. Owned(tree, {}, IdsOf(nodes)) /\ Charged(tree, {}, IdsOf(nodes), refs)
    <3>1. CallsOf(refs) = {}
      <4>1. Len(refs) = 0
        BY <1>1
      <4> QED BY <4>1 DEF CallsOf
    <3>2. [x \in {} |-> x] \in [CallsOf(refs) -> {}]
      BY <3>1
    <3> QED BY <3>1, <3>2 DEF Owned, Charged
  <2>2. Len(todo) = 1 /\ todo[1] = 1 /\ 1 # Pop
    BY <1>1 DEF Pop
  <2>3. Len(scope) = k + 1 /\ k + 1 \in Nat \ {0}
    BY <1>1, <1>4, <1>9
  <2> DEFINE depth == k + 1
             g == [i \in 1..2 |-> depth]
  <2>4. Levels(todo, Len(scope), g)
    <3> HIDE DEF depth
    <3>1. depth \in Nat \ {0} /\ Len(scope) = depth
      BY <2>3 DEF depth
    <3>2. g \in [1..Len(todo) + 1 -> Nat \ {0}] /\ \A i \in 1..2 : g[i] = depth
      BY <2>2, <3>1
    <3> HIDE DEF g
    <3> QED BY <2>2, <3>1, <3>2 DEF Levels
  <2>5. Placed(tree, IdsOf(nodes), todo, scope, g)
    <3>1. Around(tree, IdsOf(nodes), 1) = {}
      <4>1. Above(tree, 1) = {}
        <5>1. 1 \in Node(tree) /\ tree.up[1] = 0
          BY <1>1, TreeIs
        <5> QED BY <1>1, <5>1, AboveIs
      <4> QED BY <4>1 DEF Around
    <3>2. \A i \in 1..(k + 1) : scope[i].kind \in {"File", "Namespace"}
      BY <1>1, <1>23
    <3>3. Fits(tree, IdsOf(nodes), 1, scope, depth)
      BY <3>1, <3>2 DEF Fits
    <3>4. g[1] = depth
      OBVIOUS
    <3> HIDE DEF g, depth
    <3> QED BY <2>2, <3>3, <3>4 DEF Placed
  <2>6. Nested(tree, todo)
    BY <2>2 DEF Nested
  <2>7. Titled(tree, nodes, scope)
    <3>1. ASSUME NEW d \in 1..Len(scope), NEW i \in 1..Len(nodes), nodes[i].id = scope[d], scope[d].kind # "File"
          PROVE  nodes[i].qualified = Append(NamesTo(scope, d - 1), NameOf(scope[d]))
      <4>1. d \in 1..(k + 1) /\ i \in 1..(k + 1) /\ ids[i] = ids[d] /\ scope[d] = ids[d]
        BY <1>1, <1>12, <2>3, <3>1
      <4>2. i = d /\ d # 1
        BY <1>15, <1>23, <3>1, <4>1
      <4>3. d = 2
        BY <1>25, <1>27, <4>1, <4>2
      <4>4. d - 1 = 1 /\ d \in 2..(k + 1)
        BY <4>1, <4>3
      <4>5. nodes[i].qualified = <<NameOf(scope[d])>>
        BY <1>22, <1>24, <4>1, <4>2, <4>4
      <4> QED BY <1>26, <4>4, <4>5
    <3>2. ASSUME NEW d \in 1..Len(scope), scope[d].kind = "File"
          PROVE  \A j \in 1..d : scope[j].kind = "File"
      <4>1. d = 1
        BY <1>1, <1>23, <2>3, <3>2
      <4> QED BY <3>2, <4>1
    <3> QED BY <3>1, <3>2 DEF Titled
  <2>8. Joined(tree, nodes, contains)
    <3>1. ASSUME NEW i \in 1..Len(contains)
          PROVE  /\ contains[i].parent.kind = "File"
                 /\ nodes[i + 1].qualified = <<>> \o <<NameOf(contains[i].child)>>
      <4>1. i \in 1..k /\ i + 1 \in 1..(k + 1) /\ i + 1 # 1 /\ i + 1 \in 2..(k + 1) /\ i \in 1..(k + 1)
        BY <1>4, <1>13
      <4>2. i + 1 = 2
        BY <1>25, <1>27, <4>1
      <4>3. i = 1
        BY <4>1, <4>2
      <4>4. contains[i].parent.kind = "File" /\ contains[i].child = ids[i + 1]
        BY <1>13, <1>23, <4>1, <4>3
      <4>5. nodes[i + 1].qualified = <<NameOf(contains[i].child)>>
        BY <1>22, <1>24, <4>1, <4>4
      <4>6. <<>> \o <<NameOf(contains[i].child)>> = <<NameOf(contains[i].child)>>
        OBVIOUS
      <4> QED BY <4>4, <4>5, <4>6
    <3> QED BY <3>1 DEF Joined
  <2>9. Plain(tree, nodes)
    BY <1>12, <1>23 DEF Plain, OwnerKinds
  <2> HIDE DEF g, depth
  <2> QED BY <1>16, <1>17, <2>1, <2>4, <2>5, <2>6, <2>7, <2>8, <2>9 DEF ScopesAt
<1> QED BY <1>21, <1>27, ScopeInvIs

LEMMA WalkNext ==
  ASSUME LinesApart, TypesNamed, WalkInv, [Next]_vars
  PROVE  Kept
<1>1. CASE VisitNamespace BY <1>1, NamespaceStep
<1>2. CASE VisitFunction BY <1>2, FunctionStep
<1>3. CASE VisitMethod BY <1>3, MethodStep
<1>4. CASE VisitType BY <1>4, TypeStep
<1>5. CASE VisitAlias BY <1>5, AliasStep
<1>6. CASE VisitMember BY <1>6, MemberStep
<1>7. CASE VisitVariable BY <1>7, VariableStep
<1>8. CASE VisitReference BY <1>8, ReferenceStep
<1>9. CASE VisitImpl BY <1>9, ImplStep
<1>10. CASE VisitGoType BY <1>10, GoTypeStep
<1>11. CASE VisitGoMethod BY <1>11, GoMethodStep
<1>12. CASE VisitCppFunction BY <1>12, CppFunctionStep
<1>13. CASE VisitCppType BY <1>13, CppTypeStep
<1>14. CASE SkipForward BY <1>14, SkipStep
<1>15. CASE WalkOn BY <1>15, WalkOnStep
<1>16. CASE Leave BY <1>16, LeaveStep
<1>17. CASE UNCHANGED vars
  <2>1. /\ tree' = tree /\ todo' = todo /\ scope' = scope /\ nodes' = nodes
        /\ contains' = contains /\ refs' = refs
    BY <1>17 DEF vars
  <2>2. WalkAt(tree, todo', scope', nodes', contains', refs')
    BY <2>1, WalkInvIs
  <2>3. ScopesAt(tree, todo, scope, nodes, contains, refs)
          => ScopesAt(tree, todo', scope', nodes', contains', refs')
    BY <2>1
  <2> QED BY <2>1, <2>2, <2>3, KeptIs
<1> QED BY <1>1, <1>2, <1>3, <1>4, <1>5, <1>6, <1>7, <1>8, <1>9, <1>10, <1>11, <1>12, <1>13, <1>14,
           <1>15, <1>16, <1>17 DEF Next

(* A list whose entries have ids of their own is as long as its ids are many. *)
LEMMA IdsMany ==
  ASSUME NEW ns, Listed(ns), \A i, j \in 1..Len(ns) : ns[i].id = ns[j].id => i = j
  PROVE  Cardinality(IdsOf(ns)) = Len(ns)
<1> DEFINE n == Len(ns)
           S == 1..n
           T == IdsOf(ns)
           f == [i \in S |-> ns[i].id]
<1>1. n \in Nat
  BY ListedIs
<1>2. f \in Bijection(S, T)
  <2>1. f \in [S -> T] /\ \A i \in S : f[i] = ns[i].id
    BY DEF IdsOf
  <2>2. \A i, j \in S : f[i] = f[j] => i = j
    BY <2>1
  <2>3. \A y \in T : \E i \in S : f[i] = y
    BY <2>1 DEF IdsOf
  <2> HIDE DEF f, S, T
  <2> QED BY <2>1, <2>2, <2>3 DEF Bijection, Injection, Surjection, IsInjective
<1>3. IsFiniteSet(S) /\ Cardinality(S) = n
  <2>1. 1 \in Int /\ n \in Int /\ n - 1 + 1 = n /\ (1 > n <=> n = 0)
    BY <1>1
  <2> HIDE DEF n
  <2>2. IsFiniteSet(1..n) /\ Cardinality(1..n) = IF 1 > n THEN 0 ELSE n - 1 + 1
    BY <2>1, FS_Interval
  <2> QED BY <2>1, <2>2
<1> HIDE DEF n, f, S, T
<1>4. Cardinality(T) = Cardinality(S)
  BY <1>2, <1>3, FS_Bijection DEF ExistsBijection
<1> QED BY <1>3, <1>4 DEF n, T

LEMMA WalkStores ==
  ASSUME WalkInv
  PROVE  BatchStores
<1>1. PICK V : Seen(tree, V, todo) /\ Batch(tree, V, nodes, contains)
  BY DEF WalkInv, WalkAt
<1>2. Scoped(scope, IdsOf(nodes)) /\ Anchored(refs, IdsOf(nodes))
  BY DEF WalkInv, WalkAt
<1>3. /\ DOMAIN nodes = 1..Len(nodes) /\ DOMAIN contains = 1..Len(contains)
      /\ DOMAIN refs = 1..Len(refs) /\ Len(nodes) \in Nat /\ Len(contains) \in Nat
      /\ Len(nodes) = Len(contains) + 1
  <2>1. Listed(nodes) /\ Listed(contains) /\ Listed(refs)
    BY <1>1, <1>2 DEF Batch, Anchored
  <2> QED BY <1>1, <2>1, ListedIs DEF Batch
<1>4. Ids = IdsOf(nodes)
  BY <1>3 DEF Ids, IdsOf
<1>5. TypeOK
  <2>1. \A i \in DOMAIN todo : todo[i] \in Node(tree) \cup {Pop}
    BY <1>1 DEF Seen
  <2>2. ASSUME NEW i \in DOMAIN nodes
        PROVE  nodes[i].id.kind \in ScopeKinds \cup {"File", "Variable", "Property", "Field"}
    <3>1. CASE i = 1
      BY <1>1, <3>1, FileIdIs DEF Batch
    <3>2. CASE i # 1
      <4>1. i \in 2..Len(nodes)
        BY <1>3, <3>2
      <4>2. \E n : Source(tree, nodes[i].id, n)
        BY <1>1, <4>1 DEF Batch
      <4>3. nodes[i].id.kind \in DeclaredKinds
        BY <4>2, MayBeKinds DEF Source
      <4> QED BY <4>3 DEF DeclaredKinds
    <3> QED BY <3>1, <3>2
  <2>3. \A i \in DOMAIN refs : refs[i].kind \in RefKinds
    BY <1>2, <1>3 DEF Anchored
  <2>4. scope # <<>> /\ scope[1] = FileId
    BY <1>2 DEF Scoped
  <2> QED BY <2>1, <2>2, <2>3, <2>4 DEF TypeOK, RefKinds
<1>6. ASSUME NEW i \in 1..Len(contains)
      PROVE  /\ contains[i].child = nodes[i + 1].id /\ i + 1 \in 1..Len(nodes)
             /\ \E j \in 1..i : contains[i].parent = nodes[j].id /\ j \in 1..Len(nodes)
  <2>1. contains[i].child = nodes[i + 1].id /\ \E j \in 1..i : contains[i].parent = nodes[j].id
    BY <1>1 DEF Batch
  <2>2. i + 1 \in 1..Len(nodes) /\ \A j \in 1..i : j \in 1..Len(nodes)
    BY <1>3
  <2> QED BY <2>1, <2>2
<1>7. RefsAnchored
  <2>1. \A i \in DOMAIN refs : refs[i].from \in Ids
    BY <1>2, <1>3, <1>4 DEF Anchored
  <2>2. ASSUME NEW i \in DOMAIN contains
        PROVE  {contains[i].parent, contains[i].child} \subseteq Ids
    <3>1. contains[i].child \in IdsOf(nodes) /\ contains[i].parent \in IdsOf(nodes)
      BY <1>3, <1>6 DEF IdsOf
    <3> QED BY <1>4, <3>1
  <2> QED BY <2>1, <2>2 DEF RefsAnchored
<1>8. ContainsIsTree
  <2>1. Len(nodes) = Cardinality(Ids)
    <3>1. Listed(nodes) /\ \A i, j \in 1..Len(nodes) : nodes[i].id = nodes[j].id => i = j
      BY <1>1 DEF Batch
    <3> QED BY <1>4, <3>1, IdsMany
  <2>2. Len(contains) = Len(nodes) - 1
    BY <1>3
  <2>3. ASSUME NEW i \in 2..Len(nodes)
        PROVE  \E e \in Range(contains), j \in 1..(i - 1) :
                 e.child = nodes[i].id /\ e.parent = nodes[j].id
    <3>1. i - 1 \in 1..Len(contains) /\ (i - 1) + 1 = i
      BY <1>3
    <3>2. contains[i - 1].child = nodes[i].id
      BY <1>6, <3>1
    <3>3. PICK j \in 1..(i - 1) : contains[i - 1].parent = nodes[j].id
      BY <1>6, <3>1
    <3>4. contains[i - 1] \in Range(contains)
      BY <1>3, <3>1 DEF Range
    <3> QED BY <3>2, <3>3, <3>4
  <2> QED BY <2>1, <2>2, <2>3 DEF ContainsIsTree
<1> QED BY <1>5, <1>7, <1>8 DEF BatchStores

LEMMA WalkMatches ==
  ASSUME WalkInv, ScopeInv
  PROVE  ScopesMatch
<1>1. PICK V : /\ Seen(tree, V, todo) /\ Batch(tree, V, nodes, contains)
               /\ Charged(tree, V, IdsOf(nodes), refs)
  BY DEF ScopeInv, ScopesAt
<1>2. Joined(tree, nodes, contains)
  BY DEF ScopeInv, ScopesAt
<1>3. /\ DOMAIN nodes = 1..Len(nodes) /\ DOMAIN contains = 1..Len(contains)
      /\ DOMAIN refs = 1..Len(refs) /\ Len(nodes) \in Nat /\ Len(contains) \in Nat
      /\ Len(nodes) = Len(contains) + 1
  <2>1. Listed(nodes) /\ Listed(contains) /\ Listed(refs)
    BY <1>1 DEF Batch, WalkInv, WalkAt, Anchored
  <2> QED BY <1>1, <2>1, ListedIs DEF Batch
<1>4. Ids = IdsOf(nodes)
  BY <1>3 DEF Ids, IdsOf
<1>5. CallsCharged
  <2> DEFINE calls == {i \in DOMAIN refs : refs[i].kind = "calls"}
             sites == {n \in Node(tree) : tree.kind[n] \in Lang.call}
  <2>1. calls = CallsOf(refs)
    BY <1>3 DEF CallsOf
  <2>2. PICK at \in [CallsOf(refs) -> V] :
          /\ \A i, j \in CallsOf(refs) : at[i] = at[j] => i = j
          /\ \A i \in CallsOf(refs) :
               CallAt(tree, at[i], refs[i]) /\ ChargedTo(tree, IdsOf(nodes), at[i], refs[i].from)
    BY <1>1 DEF Charged
  <2>3. \A i \in CallsOf(refs) : at[i] \in sites
    <3>1. V \in SUBSET Node(tree)
      BY <1>1 DEF Seen
    <3> QED BY <2>2, <3>1 DEF CallAt, Lang
  <2> HIDE DEF calls, sites
  <2>4. at \in Injection(calls, sites)
    BY <2>1, <2>2, <2>3 DEF Injection, IsInjective
  <2>5. \A i \in calls : CallAt(tree, at[i], refs[i]) /\ ChargedTo(tree, Ids, at[i], refs[i].from)
    BY <1>4, <2>1, <2>2
  <2>6. \E f \in Injection(calls, sites) : \A i \in calls :
          CallAt(tree, f[i], refs[i]) /\ ChargedTo(tree, Ids, f[i], refs[i].from)
    BY <2>4, <2>5
  <2> QED BY <2>6 DEF CallsCharged, calls, sites
<1>6. QualifiedIsPath
  <2> SUFFICES ASSUME NEW e \in Range(contains), NEW i \in DOMAIN nodes, NEW j \in DOMAIN nodes,
                      nodes[i].id = e.parent, nodes[j].id = e.child,
                      ~(tree.lang = "Go" /\ "Method" \in {e.child.kind, e.parent.kind})
               PROVE  nodes[j].qualified =
                        (IF e.parent.kind = "File" THEN <<>> ELSE nodes[i].qualified) \o <<NameOf(e.child)>>
    BY DEF QualifiedIsPath
  <2>1. PICK m \in 1..Len(contains) : e = contains[m]
    BY <1>3 DEF Range
  <2>2. m + 1 \in 1..Len(nodes) /\ i \in 1..Len(nodes) /\ j \in 1..Len(nodes)
    BY <1>3
  <2>3. nodes[m + 1].id = nodes[j].id
    BY <1>1, <2>1 DEF Batch
  <2>4. j = m + 1
    BY <1>1, <2>2, <2>3 DEF Batch
  <2>5. ~GoMethod(tree, contains[m].child) /\ ~GoMethod(tree, contains[m].parent)
    BY <2>1 DEF GoMethod
  <2> QED BY <1>2, <2>1, <2>2, <2>4, <2>5 DEF Joined
<1> QED BY <1>5, <1>6 DEF ScopesMatch

LEMMA NextKeeps ==
  ASSUME [Next]_vars
  PROVE  tree' = tree
  BY DEF Next, vars, VisitNamespace, VisitFunction, VisitMethod, VisitType, VisitAlias, VisitMember,
         VisitVariable, VisitReference, VisitImpl, VisitGoType, VisitGoMethod, VisitCppFunction,
         VisitCppType, SkipForward, WalkOn, Leave

(* Whatever a file holds, its batch can be stored: no reference or edge      *)
(* starts or ends at an id without a node, every declaration has one node    *)
(* and one container, and Contains is a tree below the file.                 *)
THEOREM BatchesStore ==
  ASSUME LinesApart, TypesNamed
  PROVE  Spec => []BatchStores
<1>1. Init => WalkInv
  BY WalkInit
<1>2. WalkInv /\ [Next]_vars => WalkInv'
  BY WalkNext DEF Kept
<1>3. WalkInv => BatchStores
  BY WalkStores
<1> QED BY <1>1, <1>2, <1>3, PTL DEF Spec

(* The scopes that the walk pushes and pops are those of the text: each call *)
(* is charged once, to the innermost declaration around it, and a            *)
(* declaration is qualified by the path of Contains edges that leads to it.  *)
(* This asks of the trees what the walk does: that an impl is Rust's and     *)
(* that a file has one file-scoped namespace at most.                        *)
THEOREM ScopesAreKept ==
  ASSUME LinesApart, TypesNamed, \A t \in Trees : Regular(t)
  PROVE  Spec => []ScopesMatch
<1> DEFINE Inv == WalkInv /\ (~LocalItem(tree) => ScopeInv)
<1>1. Init => Inv
  <2> SUFFICES ASSUME Init PROVE Inv
    OBVIOUS
  <2>1. WalkInv /\ (Regular(tree) => ScopeInv)
    BY WalkInit
  <2>2. Regular(tree)
    BY DEF Init
  <2> QED BY <2>1, <2>2
<1>2. Inv /\ [Next]_vars => Inv'
  <2> SUFFICES ASSUME Inv, [Next]_vars PROVE Inv'
    OBVIOUS
  <2>1. WalkInv' /\ (Regular(tree) /\ ~LocalItem(tree) /\ ScopeInv => ScopeInv')
    BY WalkNext DEF Kept
  <2>2. tree' = tree
    BY NextKeeps
  <2>3. Regular(tree)
    BY DEF WalkInv, WalkAt
  <2>4. LocalItem(tree)' <=> LocalItem(tree)
    BY <2>2
  <2> QED BY <2>1, <2>3, <2>4
<1>3. Inv => ScopesMatch
  <2>1. ASSUME Inv, LocalItem(tree) PROVE ScopesMatch
    BY <2>1 DEF ScopesMatch, CallsCharged, QualifiedIsPath
  <2> QED BY <2>1, WalkMatches
<1> HIDE DEF Inv
<1> QED BY <1>1, <1>2, <1>3, PTL DEF Spec

-----------------------------------------------------------------------------
(* Which declaration a comment is for. *)

\* The kinds that the walk gives the comment above them.
Documented(t, n) ==
  LET L == Config[t.lang]
  IN  t.kind[n] \in L.function \cup L.method \cup L.class \cup L.interface \cup L.struct
                     \cup L.enum \cup {"macro_class"}

\* The first child of a node.
Leads(t, n) ==
  /\ n # 1 /\ t.part[n] = "head"
  /\ \A m \in Children(t, t.up[n]) : t.part[m] = "head" => n <= m

Comments(t) == {n \in Node(t) : t.kind[n] \in Config[t.lang].doc}
DepthFirst(t) == \A m, n \in Node(t) : t.up[n] < m /\ m < n => t.up[n] <= t.up[m]
HeadsFirst(t) ==
  \A m, n \in Node(t) : m < n /\ t.up[m] = t.up[n] /\ t.part[m] = "body" => t.part[n] = "body"
CommentsAreLeaves(t) == \A n \in Node(t) : n # 1 => t.up[n] \notin Comments(t)
LinesRise(t) ==
  \A m, n \in Node(t) : (n # 1 => t.line[n] # 0) /\ (m <= n => t.line[m] <= t.line[n])

(* Of a declaration that is the first child of a statement, the comment      *)
(* above is that of the statement.  Were the statement a declaration too,    *)
(* both would have it, or the statement would stand between.                 *)
LeadsAlone(t) ==
  \A n \in Node(t) : Documented(t, n) /\ Leads(t, n) /\ t.up[n] - 1 \in Comments(t) =>
    /\ ~Documented(t, t.up[n])
    /\ (\E kind \in DeclaredKinds : MayBe(t, t.up[n], kind)) => t.line[n] = t.line[t.up[n]]

(* What the comments ask of a tree, below a root that is the file: that it   *)
(* is written down in the order of the text, and nothing inside a comment.   *)
Written(t) ==
  /\ DepthFirst(t) /\ HeadsFirst(t) /\ CommentsAreLeaves(t) /\ LinesRise(t)
  /\ LeadsAlone(t) /\ ~Documented(t, 1)

\* Comment c stands right above declaration n, or above what n comes first in.
Documents(t, c, n) ==
  /\ c \in Comments(t)
  /\ \E d \in Node(t) : /\ c < d /\ \A m \in c..(d - 1) : m \in Comments(t)
                        /\ d = n \/ (n = d + 1 /\ t.up[n] = d /\ Leads(t, n))

LEMMA CommentsAre ==
  ASSUME NEW l \in DOMAIN Config, NEW k \in Config[l].doc
  PROVE  k \notin Declared(l) \cup Config[l].namespace \cup
           {"function_definition", "method_declaration", "class_specifier", "macro_class",
            "struct_specifier", "type_spec", "impl_item", "variable_declarator"}
<1>1. CASE l = "TypeScript"
  BY <1>1, LanguagesAre DEF Declared, TypeScript, Nothing
<1>2. CASE l = "JavaScript"
  BY <1>2, LanguagesAre DEF Declared, JavaScript, TypeScript, Nothing
<1>3. CASE l = "Python"
  BY <1>3, LanguagesAre DEF Declared, Python, Nothing
<1>4. CASE l = "Rust"
  BY <1>4, LanguagesAre DEF Declared, Rust, Nothing
<1>5. CASE l = "CSharp"
  BY <1>5, LanguagesAre DEF Declared, CSharp, Nothing
<1>6. CASE l = "Go"
  BY <1>6, LanguagesAre DEF Declared, Go, Nothing
<1>7. CASE l = "Cpp"
  BY <1>7, LanguagesAre DEF Declared, Cpp, Nothing
<1> QED BY <1>1, <1>2, <1>3, <1>4, <1>5, <1>6, <1>7, LanguagesAre

(* A comment declares nothing. *)
LEMMA CommentIs ==
  ASSUME NEW t \in Trees, NEW c \in Comments(t)
  PROVE  ~Documented(t, c) /\ \A kind : ~MayBe(t, c, kind)
<1>1. t.lang \in DOMAIN Config /\ t.kind[c] \in Config[t.lang].doc
  BY TreeAssumption DEF Comments
<1>2. t.kind[c] \notin Declared(t.lang) \cup Config[t.lang].namespace \cup
           {"function_definition", "method_declaration", "class_specifier", "macro_class",
            "struct_specifier", "type_spec", "impl_item", "variable_declarator"}
  BY <1>1, CommentsAre
<1>3. ~Documented(t, c)
  BY <1>2 DEF Documented, Declared
<1>4. ASSUME NEW kind PROVE ~MayBe(t, c, kind)
  BY <1>2 DEF MayBe, Declared
<1> QED BY <1>3, <1>4

(* Between a comment and the next child of its part there is nothing. *)
LEMMA NextSibling ==
  ASSUME NEW t \in Trees, Written(t), NEW p \in Comments(t), NEW x \in Node(t), p < x,
         t.up[p] = t.up[x],
         \A y \in Node(t) : y < x /\ t.up[y] = t.up[x] /\ t.part[y] = t.part[x] => y <= p,
         t.part[p] = t.part[x]
  PROVE  p = x - 1
<1> DEFINE S == {m \in Node(t) : p < m /\ m < x}
<1>0. /\ Node(t) = 1..Len(t.kind) /\ Len(t.kind) \in Nat /\ p \in Node(t)
      /\ \A m \in Node(t) : t.up[m] \in Nat /\ t.up[m] < m /\ m \in Nat /\ (t.up[m] = 0 <=> m = 1)
                            /\ t.part[m] \in {"head", "body"}
  BY TreeIs, TreeAssumption DEF Comments
<1> SUFFICES ASSUME p # x - 1 PROVE FALSE
  OBVIOUS
<1>1. p + 1 \in S
  BY <1>0
<1>2. PICK m \in S : \A y \in S : m <= y
  <2>1. S # {} /\ S \in SUBSET Nat
    BY <1>0, <1>1
  <2> HIDE DEF S
  <2> QED BY <2>1, LeastOf
<1>3. m \in Node(t) /\ p < m /\ m < x /\ t.up[m] < m /\ t.up[m] \in Nat /\ m # 1
  BY <1>0, <1>2
<1>4. t.up[x] <= t.up[m]
  BY <1>0, <1>3 DEF Written, DepthFirst
<1>5. t.up[m] <= p
  <2>1. t.up[m] \in Node(t)
    BY <1>0, <1>3
  <2>2. t.up[m] \notin S
    BY <1>0, <1>2, <1>3, <2>1
  <2> QED BY <1>0, <1>3, <2>1, <2>2
<1>6. t.up[m] # p
  BY <1>3 DEF Written, CommentsAreLeaves
<1>7. t.up[m] = t.up[x]
  <2> SUFFICES ASSUME t.up[x] < t.up[m] PROVE FALSE
    BY <1>0, <1>3, <1>4
  <2>1. t.up[m] < p /\ p < m
    BY <1>0, <1>3, <1>5, <1>6
  <2>2. t.up[m] <= t.up[p]
    BY <1>0, <1>3, <2>1 DEF Written, DepthFirst
  <2> QED BY <1>0, <1>3, <2>2
<1>8. t.part[m] # t.part[x]
  BY <1>0, <1>3, <1>7
<1>9. CASE t.part[m] = "body"
  BY <1>0, <1>3, <1>7, <1>8, <1>9 DEF Written, HeadsFirst
<1>10. CASE t.part[m] = "head"
  <2>1. t.part[x] = "body" /\ t.part[p] = "body"
    BY <1>0, <1>8, <1>10
  <2> QED BY <1>0, <1>3, <1>7, <1>10, <2>1 DEF Written, HeadsFirst
<1> QED BY <1>0, <1>3, <1>9, <1>10

(* The first child comes right after its parent. *)
LEMMA FirstChild ==
  ASSUME NEW t \in Trees, Written(t), NEW n \in Node(t), Leads(t, n)
  PROVE  n = t.up[n] + 1 /\ t.up[n] \in Node(t)
<1> DEFINE u == t.up[n]
           S == {m \in Node(t) : u < m /\ m < n}
<1>0. /\ Node(t) = 1..Len(t.kind) /\ Len(t.kind) \in Nat
      /\ \A m \in Node(t) : t.up[m] \in Nat /\ t.up[m] < m /\ m \in Nat /\ (t.up[m] = 0 <=> m = 1)
                            /\ t.part[m] \in {"head", "body"}
  BY TreeIs, TreeAssumption
<1>1. u \in Node(t) /\ u < n
  BY <1>0 DEF Leads
<1> SUFFICES ASSUME n # u + 1 PROVE FALSE
  BY <1>1
<1>2. u + 1 \in S
  BY <1>0, <1>1
<1>3. PICK m \in S : \A y \in S : m <= y
  <2>1. S # {} /\ S \in SUBSET Nat
    BY <1>0, <1>2
  <2> HIDE DEF S
  <2> QED BY <2>1, LeastOf
<1>4. m \in Node(t) /\ u < m /\ m < n /\ t.up[m] < m /\ t.up[m] \in Nat /\ m # 1
  BY <1>0, <1>1, <1>3
<1>5. u <= t.up[m]
  BY <1>0, <1>4 DEF Written, DepthFirst
<1>6. t.up[m] = u
  <2>1. t.up[m] \in Node(t) /\ t.up[m] \notin S
    BY <1>0, <1>3, <1>4
  <2> QED BY <1>0, <1>1, <1>4, <1>5, <2>1
<1>7. t.part[m] = "body" /\ t.part[n] = "head"
  BY <1>0, <1>4, <1>6 DEF Leads, Children
<1> QED BY <1>0, <1>4, <1>6, <1>7 DEF Written, HeadsFirst

(* A comment belongs to one declaration. *)
LEMMA DocumentsOne ==
  ASSUME NEW t \in Trees, Written(t), NEW c, NEW m \in Node(t), NEW n \in Node(t),
         Documented(t, m), Documented(t, n), Documents(t, c, m), Documents(t, c, n)
  PROVE  m = n
<1>0. /\ Node(t) \in SUBSET Nat /\ c \in Nat /\ c \in Comments(t)
      /\ m \notin Comments(t) /\ n \notin Comments(t) /\ m \in Nat /\ n \in Nat
  BY TreeIs, CommentIs DEF Documents, Comments
<1>1. PICK d \in Node(t) : /\ c < d /\ \A y \in c..(d - 1) : y \in Comments(t)
                           /\ d = m \/ (m = d + 1 /\ t.up[m] = d /\ Leads(t, m))
  BY DEF Documents
<1>2. PICK e \in Node(t) : /\ c < e /\ \A y \in c..(e - 1) : y \in Comments(t)
                           /\ e = n \/ (n = e + 1 /\ t.up[n] = e /\ Leads(t, n))
  BY DEF Documents
<1>3. d \notin Comments(t) /\ e \notin Comments(t) /\ d \in Nat /\ e \in Nat
  BY <1>0, <1>1, <1>2 DEF Written, CommentsAreLeaves, Leads
<1>4. d = e
  <2>1. ~(d < e)
    BY <1>0, <1>1, <1>2, <1>3
  <2>2. ~(e < d)
    BY <1>0, <1>1, <1>2, <1>3
  <2> QED BY <1>3, <2>1, <2>2
<1>5. d - 1 \in Comments(t)
  BY <1>0, <1>1, <1>3
<1>6. CASE d = m /\ n # d
  BY <1>2, <1>4, <1>5, <1>6 DEF Written, LeadsAlone
<1>7. CASE d = n /\ m # d
  BY <1>1, <1>4, <1>5, <1>7 DEF Written, LeadsAlone
<1> QED BY <1>1, <1>2, <1>4, <1>6, <1>7

(* No declaration comes between a comment and what it documents. *)
LEMMA DocumentsNext ==
  ASSUME NEW t \in Trees, Written(t), NEW c, NEW n \in Node(t), Documented(t, n), Documents(t, c, n)
  PROVE  /\ t.line[c] <= t.line[n] /\ t.line[c] # 0 /\ t.line[c] \in Nat /\ t.line[n] \in Nat
         /\ \A m \in Node(t), kind \in DeclaredKinds :
              MayBe(t, m, kind) => ~(t.line[c] < t.line[m] /\ t.line[m] < t.line[n])
<1>0. /\ Node(t) \in SUBSET Nat /\ c \in Node(t) /\ c \in Comments(t) /\ 1 \in Node(t)
      /\ \A y \in Node(t) : t.line[y] \in Nat /\ t.up[y] \in Nat /\ t.up[y] < y /\ (t.up[y] = 0 <=> y = 1)
  BY TreeIs DEF Documents, Comments
<1>1. PICK d \in Node(t) : /\ c < d /\ \A y \in c..(d - 1) : y \in Comments(t)
                           /\ d = n \/ (n = d + 1 /\ t.up[n] = d /\ Leads(t, n))
  BY DEF Documents
<1>2. c # 1
  <2> SUFFICES ASSUME c = 1 PROVE FALSE
    OBVIOUS
  <2>1. t.up[d] \in c..(d - 1) /\ d # 1
    BY <1>0, <1>1
  <2> QED BY <1>1, <2>1 DEF Written, CommentsAreLeaves
<1>3. c <= n
  BY <1>0, <1>1
<1>4. t.line[c] <= t.line[n] /\ t.line[c] # 0
  BY <1>0, <1>2, <1>3 DEF Written, LinesRise
<1>5. ASSUME NEW m \in Node(t), NEW kind \in DeclaredKinds, MayBe(t, m, kind),
             t.line[c] < t.line[m], t.line[m] < t.line[n]
      PROVE  FALSE
  <2>1. c < m /\ m < n
    BY <1>0, <1>5 DEF Written, LinesRise
  <2>2. m \notin Comments(t)
    BY <1>5, CommentIs
  <2>3. d <= m
    BY <1>0, <1>1, <2>1, <2>2
  <2>4. n = d + 1 /\ t.up[n] = d /\ Leads(t, n) /\ m = d
    BY <1>0, <1>1, <2>1, <2>3
  <2>5. d - 1 \in Comments(t)
    BY <1>0, <1>1
  <2>6. t.line[n] = t.line[d]
    BY <1>5, <2>4, <2>5 DEF Written, LeadsAlone
  <2> QED BY <1>0, <1>5, <2>4, <2>6
<1> QED BY <1>0, <1>4, <1>5

LEMMA BeforeIs ==
  ASSUME tree \in Trees, NEW x \in Node(tree), Before(x) # {}
  PROVE  LET p == LastOf(Before(x))
         IN  /\ p \in Node(tree) /\ p < x /\ tree.up[p] = tree.up[x] /\ tree.part[p] = tree.part[x]
             /\ \A y \in Node(tree) :
                  y < x /\ tree.up[y] = tree.up[x] /\ tree.part[y] = tree.part[x] => y <= p
<1>1. Before(x) \in SUBSET Node(tree)
  BY DEF Before
<1>2. Before(x) \in SUBSET Nat /\ IsFiniteSet(Before(x))
  BY <1>1, TreeIs, FS_Subset
<1>3. LastOf(Before(x)) \in Before(x) /\ \A y \in Before(x) : y <= LastOf(Before(x))
  BY <1>1, LastIs
<1> QED BY <1>3 DEF Before

(* The run of comments that ends at a comment: nothing else is in between. *)
LEMMA RunsOf ==
  ASSUME tree \in Trees, Written(tree), NEW run,
         run = [x \in Node(tree) |->
                  {x} \cup (IF /\ Lang.run /\ tree.kind[x] # "/**" /\ Before(x) # {}
                               /\ tree.kind[LastOf(Before(x))] = tree.kind[x]
                               /\ Adjacent(LastOf(Before(x)), x)
                            THEN run[LastOf(Before(x))] ELSE {})],
         NEW x \in Comments(tree), NEW c \in run[x]
  PROVE  c \in Nat /\ c <= x /\ \A m \in c..x : m \in Comments(tree)
<1> DEFINE Well(y) == \A a \in run[y] : a \in Nat /\ a <= y /\ \A m \in a..y : m \in Comments(tree)
           S == {y \in Comments(tree) : ~Well(y)}
<1>0. Comments(tree) \in SUBSET Node(tree) /\ Node(tree) \in SUBSET Nat
  BY TreeIs DEF Comments
<1> SUFFICES ASSUME S # {} PROVE FALSE
  OBVIOUS
<1>1. PICK y \in S : \A z \in S : y <= z
  <2>1. S \in SUBSET Nat
    BY <1>0
  <2> HIDE DEF S
  <2> QED BY <2>1, LeastOf
<1>2. y \in Comments(tree) /\ y \in Node(tree) /\ y \in Nat
  BY <1>0, <1>1
<1> DEFINE p == LastOf(Before(y))
           goes == /\ Lang.run /\ tree.kind[y] # "/**" /\ Before(y) # {}
                   /\ tree.kind[p] = tree.kind[y] /\ Adjacent(p, y)
<1>3. run[y] = {y} \cup (IF goes THEN run[p] ELSE {})
  BY <1>2
<1>4. ASSUME NEW a \in run[y]
      PROVE  a \in Nat /\ a <= y /\ \A m \in a..y : m \in Comments(tree)
  <2>1. CASE a = y
    BY <1>2, <2>1
  <2>2. CASE a # y
    <3>1. goes /\ a \in run[p]
      BY <1>3, <2>2
    <3>2. /\ p \in Node(tree) /\ p < y /\ tree.up[p] = tree.up[y] /\ tree.part[p] = tree.part[y]
          /\ \A z \in Node(tree) :
               z < y /\ tree.up[z] = tree.up[y] /\ tree.part[z] = tree.part[y] => z <= p
      BY <1>2, <3>1, BeforeIs
    <3>3. p \in Comments(tree)
      BY <1>2, <3>1, <3>2 DEF Comments
    <3> HIDE DEF p
    <3>4. p = y - 1
      BY <1>2, <3>2, <3>3, NextSibling
    <3>5. p \in Nat /\ p \notin S
      <4>1. p \in Nat /\ \A z \in S : y <= z
        BY <1>0, <1>1, <3>2
      <4> HIDE DEF S
      <4> QED BY <1>2, <3>2, <4>1
    <3>6. a \in Nat /\ a <= p /\ \A m \in a..p : m \in Comments(tree)
      BY <3>1, <3>3, <3>5
    <3> QED BY <1>2, <3>4, <3>5, <3>6
  <2> QED BY <2>1, <2>2
<1> QED BY <1>1, <1>4

(* What extract_docstring takes stands right above the declaration. *)
LEMMA DocumentingIs ==
  ASSUME tree \in Trees, Written(tree), NEW n \in Node(tree), Documented(tree, n),
         NEW c \in Documenting(n)
  PROVE  Documents(tree, c, n)
<1> DEFINE decl == IF Before(n) # {} \/ tree.part[n] = "body" THEN n ELSE tree.up[n]
           Is(f) == f = [x \in Node(tree) |->
                  {x} \cup (IF /\ Lang.run /\ tree.kind[x] # "/**" /\ Before(x) # {}
                               /\ tree.kind[LastOf(Before(x))] = tree.kind[x]
                               /\ Adjacent(LastOf(Before(x)), x)
                            THEN f[LastOf(Before(x))] ELSE {})]
           k == Len(tree.kind)
           goes(x) == /\ Lang.run /\ tree.kind[x] # "/**" /\ Before(x) # {}
                      /\ tree.kind[LastOf(Before(x))] = tree.kind[x]
                      /\ Adjacent(LastOf(Before(x)), x)
           next == [x \in 1..k |-> IF goes(x) THEN LastOf(Before(x)) ELSE 0]
           own == [x \in 1..k |-> {x}]
<1>0. /\ Node(tree) = 1..k /\ k \in Nat /\ n \in Nat /\ n # 1
      /\ \A m \in Node(tree) : /\ tree.up[m] \in Nat /\ tree.up[m] < m /\ (tree.up[m] = 0 <=> m = 1)
                               /\ tree.part[m] \in {"head", "body"}
  BY TreeIs, TreeAssumption DEF Written
<1>1. \A x \in 1..k : Before(x) # {} =>
        LastOf(Before(x)) \in Nat /\ LastOf(Before(x)) < x /\ LastOf(Before(x)) # 0
  BY <1>0, BeforeIs
<1>2. \E f : Is(f)
  <2>1. next \in [1..k -> Nat] /\ \A x \in 1..k : next[x] < x
    BY <1>0, <1>1
  <2>2. \A x \in 1..k : next[x] = IF goes(x) THEN LastOf(Before(x)) ELSE 0
    OBVIOUS
  <2>3. \A x \in 1..k : own[x] = {x}
    OBVIOUS
  <2> HIDE DEF next, own
  <2>4. PICK f : Recursion(f, k, next, own)
    BY <1>0, <2>1, RecursionIs
  <2>5. \A x \in 1..k : own[x] \cup (IF next[x] = 0 THEN {} ELSE f[next[x]])
                          = {x} \cup (IF goes(x) THEN f[LastOf(Before(x))] ELSE {})
    BY <1>1, <2>2, <2>3
  <2> HIDE DEF goes
  <2>6. f = [x \in 1..k |-> {x} \cup (IF goes(x) THEN f[LastOf(Before(x))] ELSE {})]
    BY <2>4, <2>5 DEF Recursion
  <2>7. Is(f)
    BY <1>0, <2>6 DEF goes
  <2> QED BY <2>7
<1> DEFINE run == CHOOSE f : Is(f)
           x == LastOf(Before(decl))
<1>3. Is(run)
  BY <1>2
<1>4. Documenting(n) = IF Before(decl) # {} /\ tree.kind[x] \in Lang.doc /\ Adjacent(x, decl)
                       THEN run[x] ELSE {}
  BY DEF Documenting
<1>5. Before(decl) # {} /\ tree.kind[x] \in Lang.doc /\ c \in run[x]
  BY <1>4
<1>6. decl \in Node(tree) /\ decl \in Nat
  BY <1>0
<1>7. decl = n \/ (decl = tree.up[n] /\ Leads(tree, n))
  <2> SUFFICES ASSUME decl # n PROVE decl = tree.up[n] /\ Leads(tree, n)
    OBVIOUS
  <2>1. Before(n) = {} /\ tree.part[n] = "head" /\ decl = tree.up[n]
    BY <1>0
  <2>2. ASSUME NEW m \in Children(tree, tree.up[n]), tree.part[m] = "head" PROVE n <= m
    BY <1>0, <2>1, <2>2 DEF Before, Children
  <2> QED BY <1>0, <2>1, <2>2 DEF Leads
<1> HIDE DEF decl, run, Is
<1>8. /\ x \in Node(tree) /\ x < decl /\ tree.up[x] = tree.up[decl] /\ tree.part[x] = tree.part[decl]
      /\ \A y \in Node(tree) :
           y < decl /\ tree.up[y] = tree.up[decl] /\ tree.part[y] = tree.part[decl] => y <= x
  BY <1>5, <1>6, BeforeIs
<1>9. x \in Comments(tree)
  BY <1>5, <1>8 DEF Comments, Lang
<1> HIDE DEF x
<1>10. x = decl - 1
  BY <1>6, <1>8, <1>9, NextSibling
<1>11. c \in Nat /\ c <= x /\ \A m \in c..x : m \in Comments(tree)
  BY <1>3, <1>5, <1>9, RunsOf DEF Is
<1>12. c \in Comments(tree) /\ c < decl /\ \A m \in c..(decl - 1) : m \in Comments(tree)
  BY <1>0, <1>6, <1>8, <1>10, <1>11
<1>13. decl = n \/ (n = decl + 1 /\ tree.up[n] = decl /\ Leads(tree, n))
  BY <1>6, <1>7, FirstChild
<1> QED BY <1>6, <1>12, <1>13 DEF Documents

-----------------------------------------------------------------------------
\* The walk goes down the text: what is left to walk stands in order, no part inside another.
Onwards(t, list) ==
  \A i, j \in 1..Len(list) : i < j /\ list[i] # Pop /\ list[j] # Pop =>
    list[i] < list[j] /\ t.up[list[j]] < list[i]

Past(n, list) == \A i \in 1..Len(list) : list[i] # Pop => n < list[i]

\* Node x of the batch is the declaration at n, and has the comments of that.
DocsOf(t, x, n) ==
  /\ Documented(t, n) /\ x.id.line = t.line[n]
  /\ \A c \in x.docs : Documents(t, c, n)

DocsAt(t, list, ns) ==
  /\ Onwards(t, list)
  /\ \A i \in 1..Len(ns) : ns[i].docs = {} \/ \E n \in Node(t) : DocsOf(t, ns[i], n) /\ Past(n, list)
  /\ \A i, j \in 1..Len(ns) : (\E c \in ns[i].docs : c \in ns[j].docs) => i = j

DocsInv == DocsAt(tree, todo, nodes)

\* Children of n in order, perhaps with a Pop.
Rising(t, n, mid) ==
  /\ mid \in Seq(Node(t) \cup {Pop})
  /\ \A i \in 1..Len(mid) : mid[i] # Pop => mid[i] \in Children(t, n)
  /\ \A i, j \in 1..Len(mid) : i < j /\ mid[i] # Pop /\ mid[j] # Pop => mid[i] < mid[j]

LEMMA InOrderRises ==
  ASSUME NEW t \in Trees, NEW S \in SUBSET Node(t)
  PROVE  \A i, j \in 1..Len(InOrder(S)) : i < j => InOrder(S)[i] < InOrder(S)[j]
<1> DEFINE s == InOrder(S)
           n == Cardinality(S)
<1>1. S \in SUBSET Nat /\ IsFiniteSet(S)
  BY TreeIs, FS_Subset
<1>2. \E x \in [1..n -> S] : \A i, j \in 1..n : i < j => x[i] < x[j]
  BY <1>1, SortedExists DEF Sorted
<1>3. \A i, j \in 1..n : i < j => s[i] < s[j]
  BY <1>2 DEF InOrder
<1>4. Len(s) = n
  BY <1>1, InOrderIs
<1> QED BY <1>3, <1>4

LEMMA RisesWith ==
  ASSUME NEW t \in Trees, NEW n, NEW S \in SUBSET Children(t, n)
  PROVE  Rising(t, n, InOrder(S)) /\ Rising(t, n, InOrder(S) \o <<Pop>>)
<1> DEFINE s == InOrder(S)
           u == s \o <<Pop>>
<1>0. S \in SUBSET Node(t)
  BY DEF Children
<1>1. /\ s \in Seq(S) /\ Len(s) \in Nat /\ \A i \in 1..Len(s) : s[i] \in S
      /\ \A i, j \in 1..Len(s) : i < j => s[i] < s[j]
  BY <1>0, NodesInOrder, InOrderRises
<1> HIDE DEF s
<1>2. s \in Seq(Node(t) \cup {Pop})
  BY <1>0, <1>1
<1>3. <<Pop>> \in Seq(Node(t) \cup {Pop})
  OBVIOUS
<1>4. /\ u \in Seq(Node(t) \cup {Pop}) /\ Len(u) = Len(s) + 1 /\ u[Len(s) + 1] = Pop
      /\ \A i \in 1..Len(s) : u[i] = s[i]
  BY <1>1, <1>2, <1>3
<1> HIDE DEF u
<1>5. Rising(t, n, s)
  BY <1>1, <1>2 DEF Rising
<1>6. \A i \in 1..Len(u) : u[i] # Pop => i \in 1..Len(s)
  BY <1>1, <1>4
<1>7. Rising(t, n, u)
  BY <1>1, <1>4, <1>6 DEF Rising
<1> QED BY <1>5, <1>7 DEF s, u

LEMMA KidsRise ==
  ASSUME NEW t \in Trees, NEW n
  PROVE  /\ Rising(t, n, Kids(t, n)) /\ Rising(t, n, Kids(t, n) \o <<Pop>>)
         /\ Rising(t, n, Part(t, n, "body")) /\ Rising(t, n, Part(t, n, "body") \o <<Pop>>)
         /\ Rising(t, n, <<>>)
<1>1. Rising(t, n, InOrder(Children(t, n))) /\ Rising(t, n, InOrder(Children(t, n)) \o <<Pop>>)
  BY RisesWith
<1> DEFINE S == {m \in Children(t, n) : t.part[m] = "body"}
<1>2. Rising(t, n, InOrder(S)) /\ Rising(t, n, InOrder(S) \o <<Pop>>)
  BY RisesWith
<1>3. Rising(t, n, <<>>)
  BY DEF Rising
<1> QED BY <1>1, <1>2, <1>3 DEF Kids, Part

\* What was passed stays passed, and so does the node that the walk now leaves.
LEMMA WalksOn ==
  ASSUME NEW t \in Trees, Written(t), NEW list \in Seq(Node(t) \cup {Pop}), list # <<>>,
         Head(list) # Pop, Onwards(t, list), NEW mid, Rising(t, Head(list), mid)
  PROVE  /\ Onwards(t, mid \o Tail(list)) /\ Past(Head(list), mid \o Tail(list))
         /\ \A n \in Node(t) : Past(n, list) => Past(n, mid \o Tail(list)) /\ n # Head(list)
<1> DEFINE top == Head(list)
           rest == Tail(list)
           new == mid \o rest
<1>1. /\ top \in Node(t) /\ rest \in Seq(Node(t) \cup {Pop}) /\ top = list[1] /\ 1 \in 1..Len(list)
      /\ \A i \in 1..Len(rest) : rest[i] = list[i + 1] /\ i + 1 \in 1..Len(list) /\ 1 < i + 1
  BY DEF Pop
<1>2. mid \in Seq(Node(t) \cup {Pop})
  BY DEF Rising
<1>3. /\ new \in Seq(Node(t) \cup {Pop}) /\ Len(new) = Len(mid) + Len(rest)
      /\ Len(mid) \in Nat /\ Len(rest) \in Nat
      /\ \A i \in 1..Len(mid) : new[i] = mid[i]
      /\ \A i \in 1..Len(new) : i \notin 1..Len(mid) =>
           i - Len(mid) \in 1..Len(rest) /\ new[i] = rest[i - Len(mid)]
  BY <1>1, <1>2
<1>4. /\ Node(t) \in SUBSET Nat
      /\ \A m \in Node(t) : t.up[m] \in Nat /\ t.up[m] < m
  BY TreeIs
<1>5. ASSUME NEW i \in 1..Len(rest), rest[i] # Pop
      PROVE  rest[i] \in Node(t) /\ top < rest[i] /\ t.up[rest[i]] < top
  <2>1. rest[i] \in Node(t)
    BY <1>1, <1>5
  <2> QED BY <1>1, <1>5, <2>1 DEF Onwards
<1>6. ASSUME NEW i \in 1..Len(mid), mid[i] # Pop
      PROVE  mid[i] \in Node(t) /\ t.up[mid[i]] = top /\ top < mid[i]
  BY <1>4, <1>6 DEF Rising, Children
<1>7. ASSUME NEW i \in 1..Len(mid), mid[i] # Pop, NEW j \in 1..Len(rest), rest[j] # Pop
      PROVE  mid[i] < rest[j] /\ t.up[rest[j]] < mid[i]
  <2> DEFINE k == mid[i]
             y == rest[j]
  <2>1. k \in Node(t) /\ t.up[k] = top /\ top < k
    BY <1>6, <1>7
  <2>2. y \in Node(t) /\ top < y /\ t.up[y] < top
    BY <1>5, <1>7
  <2> HIDE DEF k, y
  <2>3. k # y /\ ~(y < k)
    BY <1>1, <1>4, <2>1, <2>2 DEF Written, DepthFirst
  <2>4. k < y /\ t.up[y] < k
    BY <1>1, <1>4, <2>1, <2>2, <2>3
  <2> QED BY <2>4 DEF k, y
<1>8. ASSUME NEW i \in 1..Len(mid), mid[i] # Pop, NEW j \in 1..Len(mid), mid[j] # Pop, i < j
      PROVE  mid[i] < mid[j] /\ t.up[mid[j]] < mid[i]
  BY <1>6, <1>8 DEF Rising
<1>9. ASSUME NEW i \in 1..Len(rest), rest[i] # Pop, NEW j \in 1..Len(rest), rest[j] # Pop, i < j
      PROVE  rest[i] < rest[j] /\ t.up[rest[j]] < rest[i]
  BY <1>1, <1>9 DEF Onwards
<1> HIDE DEF top, rest, new
<1>10. ASSUME NEW i \in 1..Len(new), NEW j \in 1..Len(new), i < j, new[i] # Pop, new[j] # Pop
       PROVE  new[i] < new[j] /\ t.up[new[j]] < new[i]
  <2>1. CASE j \in 1..Len(mid)
    <3>1. i \in 1..Len(mid) /\ new[i] = mid[i] /\ new[j] = mid[j]
      BY <1>3, <1>10, <2>1
    <3> QED BY <1>8, <1>10, <2>1, <3>1
  <2>2. CASE i \in 1..Len(mid) /\ j \notin 1..Len(mid)
    <3>1. new[i] = mid[i] /\ j - Len(mid) \in 1..Len(rest) /\ new[j] = rest[j - Len(mid)]
      BY <1>3, <2>2
    <3> QED BY <1>7, <1>10, <2>2, <3>1
  <2>3. CASE i \notin 1..Len(mid) /\ j \notin 1..Len(mid)
    <3>1. /\ i - Len(mid) \in 1..Len(rest) /\ new[i] = rest[i - Len(mid)]
          /\ j - Len(mid) \in 1..Len(rest) /\ new[j] = rest[j - Len(mid)]
          /\ i - Len(mid) < j - Len(mid)
      BY <1>3, <1>10, <2>3
    <3> QED BY <1>9, <1>10, <3>1
  <2> QED BY <2>1, <2>2, <2>3
<1>11. Onwards(t, new)
  BY <1>10 DEF Onwards
<1>12. ASSUME NEW i \in 1..Len(new), new[i] # Pop PROVE top < new[i]
  <2>1. CASE i \in 1..Len(mid)
    BY <1>3, <1>6, <1>12, <2>1
  <2>2. CASE i \notin 1..Len(mid)
    BY <1>3, <1>5, <1>12, <2>2
  <2> QED BY <2>1, <2>2
<1>13. Past(top, new)
  BY <1>12 DEF Past
<1>14. ASSUME NEW n \in Node(t), Past(n, list)
       PROVE  Past(n, new) /\ n # top
  <2>1. n < top
    BY <1>1, <1>14 DEF Past, top
  <2>2. \A i \in 1..Len(new) : new[i] # Pop => n < new[i]
    <3> SUFFICES ASSUME NEW i \in 1..Len(new), new[i] # Pop PROVE n < new[i]
      OBVIOUS
    <3>1. new[i] \in Node(t) /\ top < new[i]
      BY <1>3, <1>12
    <3> QED BY <1>1, <1>4, <2>1, <3>1
  <2> QED BY <1>1, <1>4, <2>1, <2>2 DEF Past
<1> QED BY <1>11, <1>13, <1>14 DEF top, rest, new

(* A step from the node on top that adds one declaration of that node, or    *)
(* several without comments.                                                 *)
LEMMA DocsMove ==
  ASSUME NEW t \in Trees, Written(t), NEW list \in Seq(Node(t) \cup {Pop}), list # <<>>,
         Head(list) # Pop, NEW ns, Listed(ns), DocsAt(t, list, ns),
         NEW mid, Rising(t, Head(list), mid), NEW new, Listed(new),
         \/ \A i \in 1..Len(new) : new[i].docs = {}
         \/ Len(new) = 1 /\ DocsOf(t, new[1], Head(list))
  PROVE  DocsAt(t, mid \o Tail(list), ns \o new)
<1> DEFINE top == Head(list)
           rest == mid \o Tail(list)
           ns2 == ns \o new
<1>1. /\ Onwards(t, rest) /\ Past(top, rest)
      /\ \A n \in Node(t) : Past(n, list) => Past(n, rest) /\ n # top
  BY WalksOn DEF DocsAt
<1>2. top \in Node(t)
  BY DEF Pop
<1>3. /\ Len(ns) \in Nat /\ Len(new) \in Nat /\ Len(ns2) = Len(ns) + Len(new)
      /\ \A i \in 1..Len(ns) : ns2[i] = ns[i]
      /\ \A i \in 1..Len(ns2) : i \notin 1..Len(ns) =>
           i - Len(ns) \in 1..Len(new) /\ ns2[i] = new[i - Len(ns)]
  <2>1. /\ Len(ns) \in Nat /\ Len(new) \in Nat /\ Len(ns2) = Len(ns) + Len(new)
        /\ \A i \in 1..Len(ns) : ns2[i] = ns[i]
        /\ \A i \in 1..Len(new) : ns2[Len(ns) + i] = new[i]
    BY ListedBoth, ListedIs
  <2> HIDE DEF ns2
  <2>2. ASSUME NEW i \in 1..Len(ns2), i \notin 1..Len(ns)
        PROVE  i - Len(ns) \in 1..Len(new) /\ ns2[i] = new[i - Len(ns)]
    <3>1. i - Len(ns) \in 1..Len(new) /\ Len(ns) + (i - Len(ns)) = i
      BY <2>1, <2>2
    <3> QED BY <2>1, <3>1
  <2> QED BY <2>1, <2>2
<1> HIDE DEF top, rest, ns2
<1>4. ASSUME NEW i \in 1..Len(ns)
      PROVE  ns[i].docs = {} \/ \E n \in Node(t) : DocsOf(t, ns[i], n) /\ Past(n, rest) /\ n # top
  BY <1>1 DEF DocsAt
<1>5. ASSUME NEW i \in 1..Len(ns2), i \notin 1..Len(ns)
      PROVE  ns2[i].docs = {} \/ (DocsOf(t, ns2[i], top) /\ i = Len(ns) + 1 /\ Len(new) = 1)
  <2> DEFINE k == i - Len(ns)
  <2>1. k \in 1..Len(new) /\ ns2[i] = new[k] /\ i \in 1..Len(ns2) /\ Len(ns) \in Nat /\ Len(ns2) \in Nat
    BY <1>3, <1>5
  <2>2. CASE \A j \in 1..Len(new) : new[j].docs = {}
    BY <2>1, <2>2
  <2>3. CASE Len(new) = 1 /\ DocsOf(t, new[1], Head(list))
    <3>1. k = 1 /\ i = Len(ns) + 1
      BY <2>1, <2>3
    <3> QED BY <2>1, <2>3, <3>1 DEF top
  <2> QED BY <2>2, <2>3
<1>6. ASSUME NEW i \in 1..Len(ns2)
      PROVE  ns2[i].docs = {} \/ \E n \in Node(t) : DocsOf(t, ns2[i], n) /\ Past(n, rest)
  <2>1. CASE i \in 1..Len(ns)
    BY <1>3, <1>4, <2>1
  <2>2. CASE i \notin 1..Len(ns)
    BY <1>1, <1>2, <1>5, <2>2
  <2> QED BY <2>1, <2>2
<1>7. ASSUME NEW i \in 1..Len(ns), NEW j \in 1..Len(ns2), j \notin 1..Len(ns),
             NEW c, c \in ns2[i].docs, c \in ns2[j].docs
      PROVE  FALSE
  <2>1. DocsOf(t, ns2[j], top)
    BY <1>5, <1>7
  <2>2. PICK n \in Node(t) : DocsOf(t, ns2[i], n) /\ n # top
    BY <1>3, <1>4, <1>7
  <2>3. /\ Documented(t, n) /\ Documented(t, top) /\ Documents(t, c, n) /\ Documents(t, c, top)
    BY <1>7, <2>1, <2>2 DEF DocsOf
  <2> QED BY <1>2, <2>2, <2>3, DocumentsOne
<1>8. ASSUME NEW i \in 1..Len(ns2), NEW j \in 1..Len(ns2), NEW c, c \in ns2[i].docs, c \in ns2[j].docs
      PROVE  i = j
  <2>1. CASE i \in 1..Len(ns) /\ j \in 1..Len(ns)
    BY <1>3, <1>8, <2>1 DEF DocsAt
  <2>2. CASE i \in 1..Len(ns) /\ j \notin 1..Len(ns)
    BY <1>7, <1>8, <2>2
  <2>3. CASE i \notin 1..Len(ns) /\ j \in 1..Len(ns)
    BY <1>7, <1>8, <2>3
  <2>4. CASE i \notin 1..Len(ns) /\ j \notin 1..Len(ns)
    BY <1>5, <1>8, <2>4
  <2> QED BY <2>1, <2>2, <2>3, <2>4
<1>9. DocsAt(t, rest, ns2)
  BY <1>1, <1>6, <1>8 DEF DocsAt
<1> QED BY <1>9 DEF rest, ns2

LEMMA DocsStep ==
  ASSUME WalkInv, Written(tree), DocsInv, tree' = tree, todo # <<>>, Top # Pop,
         NEW mid, Rising(tree, Top, mid), todo' = mid \o Tail(todo),
         NEW new, Listed(new), nodes' = nodes \o new,
         \/ \A i \in 1..Len(new) : new[i].docs = {}
         \/ Len(new) = 1 /\ DocsOf(tree, new[1], Top)
  PROVE  DocsInv'
<1>1. PICK V : Seen(tree, V, todo) /\ Batch(tree, V, nodes, contains)
  BY DEF WalkInv, WalkAt
<1>2. /\ tree \in Trees /\ todo \in Seq(Node(tree) \cup {Pop}) /\ Listed(nodes)
      /\ Head(todo) # Pop /\ Rising(tree, Head(todo), mid) /\ DocsAt(tree, todo, nodes)
      /\ \/ \A i \in 1..Len(new) : new[i].docs = {}
         \/ Len(new) = 1 /\ DocsOf(tree, new[1], Head(todo))
  BY <1>1 DEF WalkInv, WalkAt, Seen, Batch, DocsInv, Top
<1>3. DocsAt(tree, mid \o Tail(todo), nodes \o new)
  BY <1>2, DocsMove
<1>4. DocsAt(tree', todo', nodes')
  BY <1>3
<1> QED BY <1>4 DEF DocsInv

\* The walk goes on and adds nothing.
LEMMA DocsPass ==
  ASSUME WalkInv, Written(tree), DocsInv, tree' = tree, todo # <<>>, Top # Pop, nodes' = nodes,
         NEW mid, Rising(tree, Top, mid), todo' = mid \o Tail(todo)
  PROVE  DocsInv'
<1> DEFINE none == <<>>
<1>1. Listed(none) /\ Len(none) = 0 /\ nodes \o none = nodes
  BY ListsOf, NothingAdded, WalkInvIs
<1> HIDE DEF none
<1>2. \A i \in 1..Len(none) : none[i].docs = {}
  BY <1>1
<1> QED BY <1>1, <1>2, DocsStep

\* The walk declares the node on top, with its comments or without.
LEMMA DocsDeclare ==
  ASSUME WalkInv, Written(tree), DocsInv, tree' = tree, todo # <<>>, Top # Pop,
         NEW mid, Rising(tree, Top, mid), todo' = mid \o Tail(todo),
         NEW x, nodes' = Append(nodes, x),
         \/ x.docs = {}
         \/ Documented(tree, Top) /\ x.id.line = tree.line[Top] /\ x.docs = Documenting(Top)
  PROVE  DocsInv'
<1>1. Listed(nodes) /\ tree \in Trees /\ Top \in Node(tree)
  BY ListsOf, WalkInvIs, HookFrom
<1> DEFINE new == <<x>>
<1>2. Listed(new) /\ Len(new) = 1 /\ new[1] = x /\ nodes' = nodes \o new
  BY <1>1, ListedOne, ListedAppend
<1> HIDE DEF new
<1>3. CASE x.docs = {}
  <2>1. \A i \in 1..Len(new) : new[i].docs = {}
    BY <1>2, <1>3
  <2> QED BY <1>2, <2>1, DocsStep
<1>4. CASE Documented(tree, Top) /\ x.id.line = tree.line[Top] /\ x.docs = Documenting(Top)
  <2>1. \A c \in x.docs : Documents(tree, c, Top)
    BY <1>1, <1>4, DocumentingIs
  <2>2. DocsOf(tree, new[1], Top)
    BY <1>2, <1>4, <2>1 DEF DocsOf
  <2> QED BY <1>2, <2>2, DocsStep
<1> QED BY <1>3, <1>4

\* Emit with WalkInside or Walk.
LEMMA DocsEmit ==
  ASSUME WalkInv, Written(tree), DocsInv, tree' = tree, todo # <<>>, Top # Pop,
         NEW id, NEW docs, Emit(id, docs),
         docs = {} \/ (Documented(tree, Top) /\ id.line = tree.line[Top] /\ docs = Documenting(Top)),
         NEW kids, kids \in {Body, AllKids, <<>>}, WalkInside(id, kids) \/ Walk(kids)
  PROVE  DocsInv'
<1> DEFINE x == N(id, QualifiedName(NameOf(id)), docs)
<1>1. x.id = id /\ x.docs = docs /\ nodes' = Append(nodes, x)
  BY DEF N, Emit
<1> HIDE DEF x
<1>2. tree \in Trees
  BY HookFrom
<1>3. Rising(tree, Top, kids) /\ (kids # <<>> => Rising(tree, Top, kids \o <<Pop>>))
  BY <1>2, KidsRise DEF Body, AllKids
<1>4. Rising(tree, Top, <<>> \o <<Pop>>)
  <2>1. <<>> \o <<Pop>> = <<Pop>> /\ Pop = Pop
    OBVIOUS
  <2>2. <<Pop>> \in Seq(Node(tree) \cup {Pop}) /\ Len(<<Pop>>) = 1 /\ <<Pop>>[1] = Pop
    OBVIOUS
  <2> QED BY <2>1, <2>2 DEF Rising
<1>5. CASE WalkInside(id, kids)
  <2>1. todo' = (kids \o <<Pop>>) \o Tail(todo) /\ Rising(tree, Top, kids \o <<Pop>>)
    BY <1>3, <1>4, <1>5 DEF WalkInside
  <2> QED BY <1>1, <2>1, DocsDeclare
<1>6. CASE Walk(kids)
  <2>1. todo' = kids \o Tail(todo)
    BY <1>6 DEF Walk
  <2> QED BY <1>1, <1>3, <2>1, DocsDeclare
<1> QED BY <1>5, <1>6

-----------------------------------------------------------------------------
(* Each action keeps the comments. *)

LEMMA LineOf == \A kind : IdOf(kind).line = tree.line[Top]
  BY DEF IdOf, Id, PathId

LEMMA DocsPlain ==
  ASSUME WalkInv, Written(tree), DocsInv,
         VisitNamespace \/ VisitAlias \/ VisitMember \/ VisitReference \/ SkipForward \/ WalkOn
  PROVE  DocsInv'
<1>1. tree' = tree /\ todo # <<>> /\ Top # Pop
  BY DEF VisitNamespace, VisitAlias, VisitMember, VisitReference, SkipForward, WalkOn, Default, Visiting
<1>2. tree \in Trees
  BY HookFrom, <1>1
<1>3. Rising(tree, Top, AllKids) /\ Rising(tree, Top, <<>>)
  BY <1>2, KidsRise DEF AllKids
<1>4. CASE nodes' = nodes /\ (Walk(<<>>) \/ Walk(AllKids))
  <2>1. todo' = <<>> \o Tail(todo) \/ todo' = AllKids \o Tail(todo)
    BY <1>4 DEF Walk
  <2> QED BY <1>1, <1>3, <1>4, <2>1, DocsPass
<1>5. ASSUME NEW id, NEW kids \in {Body, AllKids, <<>>}, Emit(id, {}), WalkInside(id, kids) \/ Walk(kids)
      PROVE  DocsInv'
  BY <1>1, <1>5, DocsEmit
<1>6. CASE VisitNamespace
  BY <1>4, <1>5, <1>6 DEF VisitNamespace, Declare
<1>7. CASE VisitAlias
  BY <1>5, <1>7 DEF VisitAlias
<1>8. CASE VisitMember
  BY <1>5, <1>8 DEF VisitMember
<1>9. CASE VisitReference \/ SkipForward \/ WalkOn
  BY <1>4, <1>9 DEF VisitReference, SkipForward, WalkOn
<1> QED BY <1>6, <1>7, <1>8, <1>9

\* What is declared with its comments.
LEMMA DocsTable ==
  ASSUME WalkInv, Written(tree), DocsInv, VisitFunction \/ VisitMethod \/ VisitType
  PROVE  DocsInv'
<1>1. /\ tree' = tree /\ todo # <<>> /\ Top # Pop
      /\ Kind \in Lang.function \cup Lang.method \cup Lang.class \cup Lang.interface
                    \cup Lang.struct \cup Lang.enum
  BY DEF VisitFunction, VisitMethod, VisitType, Default, Visiting
<1>2. Documented(tree, Top)
  BY <1>1 DEF Documented, Lang, Kind
<1>3. \E kind : \E kids \in {Body, AllKids, <<>>} :
        Emit(IdOf(kind), Documenting(Top)) /\ WalkInside(IdOf(kind), kids)
  BY DEF VisitFunction, VisitMethod, VisitType, Declare
<1> QED BY <1>1, <1>2, <1>3, LineOf, DocsEmit

LEMMA DocsVariable ==
  ASSUME WalkInv, Written(tree), DocsInv, VisitVariable
  PROVE  DocsInv'
<1> DEFINE declarators == {m \in Children(tree, Top) : tree.kind[m] = "variable_declarator"}
           S == {m \in IF declarators = {} THEN {Top} ELSE declarators : tree.name[m] # 0}
           named == InOrder(S)
           ids == Map(named, LAMBDA m : Id("Variable", tree.name[m], tree.line[m]))
           new == Map(ids, LAMBDA id : N(id, QualifiedName(NameOf(id)), {}))
           n == Len(named)
<1>1. /\ todo # <<>> /\ Top # Pop /\ tree' = tree /\ nodes' = nodes \o new
      /\ todo' = <<>> \o Tail(todo)
  BY DEF VisitVariable, Default, Visiting, Walk
<1>2. Top \in Node(tree) /\ tree \in Trees
  BY <1>1, HookFrom
<1>3. S \in SUBSET Node(tree)
  BY <1>2 DEF Children
<1> HIDE DEF S
<1>4. n \in Nat /\ DOMAIN named = 1..n
  <2>1. named \in Seq(S)
    BY <1>2, <1>3, NodesInOrder
  <2> HIDE DEF named
  <2> QED BY <2>1
<1> HIDE DEF named, n
<1>5. DOMAIN ids = 1..n
  BY <1>4 DEF Map
<1> HIDE DEF ids
<1>6. new = [i \in 1..n |-> N(ids[i], QualifiedName(NameOf(ids[i])), {})]
  BY <1>5 DEF Map
<1>7. DOMAIN new = 1..n /\ new = [i \in 1..n |-> new[i]] /\ \A i \in 1..n : new[i].docs = {}
  <2> HIDE DEF new
  <2>1. DOMAIN new = 1..n
    BY <1>6
  <2>2. \A i \in 1..n : new[i] = N(ids[i], QualifiedName(NameOf(ids[i])), {})
    BY <1>6
  <2>3. new = [i \in 1..n |-> new[i]]
    BY <1>6
  <2> QED BY <2>1, <2>2, <2>3 DEF N
<1> HIDE DEF new
<1>8. Listed(new) /\ \A i \in 1..Len(new) : new[i].docs = {}
  BY <1>4, <1>7, ListedMap
<1>9. Rising(tree, Top, <<>>)
  BY <1>2, KidsRise
<1> QED BY <1>1, <1>8, <1>9, DocsStep

LEMMA DocsImpl ==
  ASSUME WalkInv, Written(tree), DocsInv, VisitImpl
  PROVE  DocsInv'
<1> DEFINE self == IF ImplNames = <<>> THEN 0 ELSE tree.name[ImplNames[Len(ImplNames)]]
           owner == ImplOwner(self)
           x == N(owner, QualifiedName(self), {})
           mid == IF self # 0 THEN Body \o <<Pop>> ELSE Body
<1>1. /\ todo # <<>> /\ Top # Pop /\ tree' = tree /\ todo' = ImplWalk(self)
      /\ nodes' = (IF Made(owner) THEN Append(nodes, x) ELSE nodes)
  BY DEF VisitImpl, Visiting
<1>2. tree \in Trees
  BY <1>1, HookFrom
<1>3. Rising(tree, Top, Body) /\ Rising(tree, Top, Body \o <<Pop>>)
  BY <1>2, KidsRise DEF Body
<1>4. todo' = mid \o Tail(todo) /\ Rising(tree, Top, mid)
  <2>1. Body \o <<>> = Body
    <3>1. Listed(Body)
      BY <1>3 DEF Rising, Listed
    <3> QED BY <3>1, NothingAdded
  <2> HIDE DEF self
  <2> QED BY <1>1, <1>3, <2>1 DEF ImplWalk
<1>5. x.docs = {}
  BY DEF N
<1> HIDE DEF self, owner, x, mid
<1>6. CASE Made(owner)
  BY <1>1, <1>4, <1>5, <1>6, DocsDeclare
<1>7. CASE ~Made(owner)
  BY <1>1, <1>4, <1>7, DocsPass
<1> QED BY <1>6, <1>7

LEMMA DocsGo ==
  ASSUME WalkInv, Written(tree), DocsInv, VisitGoType \/ VisitGoMethod
  PROVE  DocsInv'
<1>1. CASE VisitGoType
  <2>1. todo # <<>> /\ Top # Pop /\ tree' = tree
    BY <1>1 DEF VisitGoType, Visiting
  <2>2. \E kind : \E kids \in {Body, AllKids, <<>>} :
          Emit(IdOf(kind), {}) /\ (WalkInside(IdOf(kind), kids) \/ Walk(kids))
    BY <1>1 DEF VisitGoType, Declare
  <2> QED BY <2>1, <2>2, DocsEmit
<1>2. CASE VisitGoMethod
  <2> DEFINE receiver == Map(Within(tree, Top, {"receiver"}), LAMBDA r : tree.name[r])
             qualified == Append(receiver, tree.name[Top])
             id == PathId("Method", qualified, tree.line[Top])
             x == N(id, qualified, {})
  <2>1. /\ todo # <<>> /\ Top # Pop /\ tree' = tree /\ nodes' = Append(nodes, x)
        /\ WalkInside(id, Body)
    BY <1>2 DEF VisitGoMethod, Visiting
  <2>2. todo' = (Body \o <<Pop>>) \o Tail(todo) /\ x.docs = {}
    BY <2>1 DEF WalkInside, N
  <2> HIDE DEF x, id
  <2>3. Rising(tree, Top, Body \o <<Pop>>)
    BY <2>1, HookFrom, KidsRise DEF Body
  <2> QED BY <2>1, <2>2, <2>3, DocsDeclare
<1> QED BY <1>1, <1>2

LEMMA DocsCpp ==
  ASSUME WalkInv, Written(tree), DocsInv, VisitCppFunction \/ VisitCppType
  PROVE  DocsInv'
<1>1. todo # <<>> /\ Top # Pop /\ tree' = tree
  BY DEF VisitCppFunction, VisitCppType, Visiting
<1>2. CASE VisitCppFunction
  <2>1. \E id : Emit(id, {}) /\ WalkInside(id, Body)
    BY <1>2 DEF VisitCppFunction, Declare
  <2> QED BY <1>1, <2>1, DocsEmit
<1>3. CASE VisitCppType
  <2>1. Documented(tree, Top)
    <3>1. tree.lang = "Cpp" /\ Kind \in {"macro_class", "class_specifier", "struct_specifier"}
      BY <1>3 DEF VisitCppType, Visiting
    <3>2. Config[tree.lang].class = {"class_specifier"} /\ Config[tree.lang].struct = {"struct_specifier"}
      BY <3>1, LanguagesAre DEF Cpp, Nothing
    <3> QED BY <3>1, <3>2 DEF Documented, Kind
  <2>2. \E kind : \E kids \in {Body, AllKids, <<>>} :
          Emit(IdOf(kind), Documenting(Top)) /\ WalkInside(IdOf(kind), kids)
    BY <1>3 DEF VisitCppType
  <2> QED BY <1>1, <2>1, <2>2, LineOf, DocsEmit
<1> QED BY <1>2, <1>3

LEMMA DocsLeave ==
  ASSUME WalkInv, DocsInv, Leave
  PROVE  DocsInv'
<1>1. todo # <<>> /\ todo' = Tail(todo) /\ tree' = tree /\ nodes' = nodes
  BY DEF Leave
<1>2. PICK V : Seen(tree, V, todo)
  BY DEF WalkInv, WalkAt
<1> DEFINE rest == Tail(todo)
<1>3. /\ Len(rest) \in Nat
      /\ \A i \in 1..Len(rest) : rest[i] = todo[i + 1] /\ i + 1 \in 1..Len(todo)
      /\ \A i, j \in 1..Len(rest) : i < j => i + 1 < j + 1
  <2>1. todo \in Seq(Node(tree) \cup {Pop})
    BY <1>2 DEF Seen
  <2> QED BY <1>1, <2>1
<1> HIDE DEF rest
<1>4. Onwards(tree, rest)
  BY <1>3 DEF DocsInv, DocsAt, Onwards
<1>5. \A n : Past(n, todo) => Past(n, rest)
  BY <1>3 DEF Past
<1>6. DocsAt(tree, rest, nodes)
  BY <1>4, <1>5 DEF DocsInv, DocsAt
<1>7. DocsAt(tree', todo', nodes')
  BY <1>1, <1>6 DEF rest
<1> QED BY <1>7 DEF DocsInv

LEMMA DocsInit ==
  ASSUME Init
  PROVE  DocsInv
<1> DEFINE S == {m \in Children(tree, 1) : /\ tree.kind[m] = "file_scoped_namespace_declaration"
                                           /\ Lang.namespace # {} /\ tree.name[m] # 0}
           ids == <<FileId>> \o Map(InOrder(S), LAMBDA m : Id("Namespace", tree.name[m], tree.line[m]))
<1>1. todo = <<1>> /\ nodes = Map(ids, LAMBDA id : N(id, id.path, {})) /\ tree \in Trees
  BY DEF Init, Start
<1>2. DOMAIN ids = 1..Len(ids) /\ Len(ids) \in Nat
  <2>1. S \in SUBSET Node(tree)
    BY DEF Children
  <2> HIDE DEF S
  <2> DEFINE s == InOrder(S)
  <2>2. Len(s) \in Nat /\ DOMAIN s = 1..Len(s)
    <3>1. s \in Seq(S)
      BY <1>1, <2>1, NodesInOrder
    <3> HIDE DEF s
    <3> QED BY <3>1
  <2> HIDE DEF s
  <2> DEFINE u == Map(s, LAMBDA m : Id("Namespace", tree.name[m], tree.line[m]))
  <2>3. u = [i \in 1..Len(s) |-> Id("Namespace", tree.name[s[i]], tree.line[s[i]])]
    BY <2>2 DEF Map
  <2>4. DOMAIN u = 1..Len(s) /\ u = [i \in 1..Len(s) |-> u[i]]
    BY <2>3
  <2> HIDE DEF u
  <2>5. Listed(u)
    BY <2>2, <2>4, ListedMap
  <2>6. Listed(<<FileId>> \o u)
    BY <2>5, ListedOne, ListedBoth
  <2> QED BY <2>6, ListedIs DEF u, s
<1> HIDE DEF ids
<1>3. nodes = [i \in 1..Len(ids) |-> N(ids[i], ids[i].path, {})]
  BY <1>1, <1>2 DEF Map
<1>4. Len(nodes) = Len(ids)
  BY <1>2, <1>3, ListedMap
<1>5. \A i \in 1..Len(nodes) : nodes[i].docs = {}
  BY <1>3, <1>4 DEF N
<1>6. Onwards(tree, <<1>>)
  BY DEF Onwards
<1>7. DocsAt(tree, todo, nodes)
  BY <1>1, <1>5, <1>6 DEF DocsAt
<1> QED BY <1>7 DEF DocsInv

LEMMA DocsNext ==
  ASSUME WalkInv, Written(tree), DocsInv, [Next]_vars
  PROVE  DocsInv'
<1>1. CASE VisitNamespace \/ VisitAlias \/ VisitMember \/ VisitReference \/ SkipForward \/ WalkOn
  BY <1>1, DocsPlain
<1>2. CASE VisitFunction \/ VisitMethod \/ VisitType
  BY <1>2, DocsTable
<1>3. CASE VisitVariable
  BY <1>3, DocsVariable
<1>4. CASE VisitImpl
  BY <1>4, DocsImpl
<1>5. CASE VisitGoType \/ VisitGoMethod
  BY <1>5, DocsGo
<1>6. CASE VisitCppFunction \/ VisitCppType
  BY <1>6, DocsCpp
<1>7. CASE Leave
  BY <1>7, DocsLeave
<1>8. CASE UNCHANGED vars
  BY <1>8 DEF vars, DocsInv
<1> QED BY <1>1, <1>2, <1>3, <1>4, <1>5, <1>6, <1>7, <1>8 DEF Next

\* What a node of the batch is made from is no comment.
LEMMA DocsTell ==
  ASSUME WalkInv, Written(tree), DocsInv
  PROVE  DocsNextBelow
<1>1. PICK V : Seen(tree, V, todo) /\ Batch(tree, V, nodes, contains)
  BY DEF WalkInv, WalkAt
<1>2. DOMAIN nodes = 1..Len(nodes) /\ Len(nodes) \in Nat /\ nodes[1].id = FileId /\ tree \in Trees
  BY <1>1, ListedIs DEF Batch, WalkInv, WalkAt
<1> SUFFICES ASSUME NEW i \in 1..Len(nodes), NEW j \in 1..Len(nodes), NEW c \in nodes[i].docs
             PROVE  /\ tree.line[c] <= nodes[i].id.line
                    /\ c \in nodes[j].docs => i = j
                    /\ ~(tree.line[c] < nodes[j].id.line /\ nodes[j].id.line < nodes[i].id.line)
  BY <1>2 DEF DocsNextBelow
<1>3. c \in nodes[j].docs => i = j
  BY DEF DocsInv, DocsAt
<1>4. PICK n \in Node(tree) : DocsOf(tree, nodes[i], n)
  BY DEF DocsInv, DocsAt
<1>5. Documented(tree, n) /\ Documents(tree, c, n) /\ nodes[i].id.line = tree.line[n]
  BY <1>4 DEF DocsOf
<1>6. /\ tree.line[c] <= tree.line[n] /\ tree.line[c] # 0 /\ tree.line[c] \in Nat /\ tree.line[n] \in Nat
      /\ \A m \in Node(tree), kind \in DeclaredKinds :
           MayBe(tree, m, kind) => ~(tree.line[c] < tree.line[m] /\ tree.line[m] < tree.line[n])
  BY <1>2, <1>5, DocumentsNext
<1>7. CASE j = 1
  <2>1. nodes[j].id.line = 1
    BY <1>2, <1>7 DEF FileId, Id, PathId
  <2> QED BY <1>3, <1>5, <1>6, <2>1
<1>8. CASE j # 1
  <2>1. j \in 2..Len(nodes)
    BY <1>2, <1>8
  <2>2. PICK m \in V \cup FileScoped(tree) : Source(tree, nodes[j].id, m)
    BY <1>1, <2>1 DEF Batch
  <2>3. m \in Node(tree)
    BY <1>1, <2>2 DEF Seen, FileScoped
  <2>4. MayBe(tree, m, nodes[j].id.kind) /\ nodes[j].id.line = tree.line[m]
    BY <2>2 DEF Source
  <2>5. nodes[j].id.kind \in DeclaredKinds
    BY <2>4 DEF MayBe, DeclaredKinds, ScopeKinds, ClassKinds
  <2>6. ~(tree.line[c] < tree.line[m] /\ tree.line[m] < tree.line[n])
    BY <1>6, <2>3, <2>4, <2>5
  <2> QED BY <1>3, <1>5, <1>6, <2>4, <2>6
<1> QED BY <1>7, <1>8

(* A comment documents one declaration, the next one below it: no other has  *)
(* it, and none stands in between.  This asks of the trees that they are     *)
(* written down in the order of the text with nothing inside a comment, and  *)
(* that no declaration with a comment above it begins with a second one that *)
(* takes the same comment too, or that starts on a later line.               *)
THEOREM CommentsAreNext ==
  ASSUME LinesApart, TypesNamed, \A t \in Trees : Written(t)
  PROVE  Spec => []DocsNextBelow
<1> DEFINE Inv == WalkInv /\ DocsInv
<1>1. Init => Inv
  BY WalkInit, DocsInit
<1>2. Inv /\ [Next]_vars => Inv'
  <2> SUFFICES ASSUME Inv, [Next]_vars PROVE Inv'
    OBVIOUS
  <2>1. Written(tree)
    BY DEF WalkInv, WalkAt
  <2> QED BY <2>1, WalkNext, DocsNext DEF Kept
<1>3. Inv => DocsNextBelow
  <2> SUFFICES ASSUME Inv PROVE DocsNextBelow
    OBVIOUS
  <2>1. Written(tree)
    BY DEF WalkInv, WalkAt
  <2> QED BY <2>1, DocsTell
<1> HIDE DEF Inv
<1> QED BY <1>1, <1>2, <1>3, PTL DEF Spec
=============================================================================
