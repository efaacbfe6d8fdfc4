------------------------------ MODULE AstWalker -----------------------------
(***************************************************************************)
(* extract_with_config and walk_node of ast_walker.rs: one file's syntax   *)
(* tree becomes the nodes, Contains edges and unresolved references of an  *)
(* ExtractionBatch.  The recursion of walk_node is the stack `todo`: a     *)
(* positive entry is a tree node to walk, Pop the scope.pop() after a      *)
(* declaration's children.                                                 *)
(***************************************************************************)
EXTENDS Languages, SequencesExt

CONSTANT Trees      \* the syntax trees of the files that are extracted

(* Trees are in document order: a node comes after its parent.               *)
ASSUME TreeAssumption ==
  \A t \in Trees :
    /\ t.lang \in DOMAIN Config
    /\ t.kind \in Seq(STRING) /\ t.kind # <<>>
    /\ t.part \in [Node(t) -> {"head", "body"}] /\ t.up \in [Node(t) -> Nat]
    /\ t.name \in [Node(t) -> Nat] /\ t.line \in [Node(t) -> Nat]
    /\ \A m \in Node(t) : t.up[m] < m /\ (t.up[m] = 0 <=> m = 1)

VARIABLES tree, todo, scope, nodes, contains, refs
vars == <<tree, todo, scope, nodes, contains, refs>>

Pop == 0
FileId == Id("File", 0, 1)
Lang == Config[tree.lang]
ClassKinds == {"Class", "Struct", "Interface", "Trait", "Enum", "Component"}

\* The scopes since the innermost file node, which both searches stop at.
Inner ==
  LET files == {i \in DOMAIN scope : scope[i].kind = "File"}
  IN  {scope[i] : i \in {j \in DOMAIN scope : \A f \in files : f < j}}
IsInClassScope == \E id \in Inner : id.kind \in ClassKinds
IsInFunctionScope == \E id \in Inner : id.kind \in {"Function", "Method"}

\* Mutant: the innermost scope only.
NameInInnermost(name) ==
  LET id == scope[Len(scope)]
  IN  (IF id.kind = "File" THEN <<>> ELSE <<NameOf(id)>>) \o <<name>>

\* The names of the first k scopes, files left out.
NamesTo(sc, k) ==
  Map(InOrder({i \in 1..k : sc[i].kind # "File"}), LAMBDA i : NameOf(sc[i]))
QualifiedName(name) == Append(NamesTo(scope, Len(scope)), name)

N(id, qualified, docs) == [id |-> id, qualified |-> qualified, docs |-> docs]

-----------------------------------------------------------------------------
Before(n) == {x \in Node(tree) : /\ tree.up[x] = tree.up[n] /\ x < n
                                 /\ tree.part[x] = tree.part[n]}
LastOf(S) == CHOOSE x \in S : \A y \in S : y <= x
Adjacent(x, y) == tree.line[y] <= tree.line[x] + 1

\* Mutant: the first child of a body takes the comment above its parent.
DocumentingAlsoFirst(n) ==
  LET decl == IF Before(n) # {} \/ tree.up[n] = 1 THEN n ELSE tree.up[n]
      run[x \in Node(tree)] ==
        LET p == LastOf(Before(x))
        IN  {x} \cup (IF /\ Lang.run /\ tree.kind[x] # "/**" /\ Before(x) # {}
                        /\ tree.kind[p] = tree.kind[x] /\ Adjacent(p, x)
                     THEN run[p] ELSE {})
      x == LastOf(Before(decl))
  IN  IF Before(decl) # {} /\ tree.kind[x] \in Lang.doc /\ Adjacent(x, decl) THEN run[x] ELSE {}

(* extract_docstring: the comment right above the declaration or, when it is *)
(* the first child of a statement that exports it, above its parent; with    *)
(* line comments the whole run that ends there.  (Before a body stands the   *)
(* name or the parameter list.)                                              *)
Documenting(n) ==
  LET decl == IF Before(n) # {} \/ tree.part[n] = "body" THEN n ELSE tree.up[n]
      run[x \in Node(tree)] ==
        LET p == LastOf(Before(x))
        IN  {x} \cup (IF /\ Lang.run /\ tree.kind[x] # "/**" /\ Before(x) # {}
                        /\ tree.kind[p] = tree.kind[x] /\ Adjacent(p, x)
                     THEN run[p] ELSE {})
      x == LastOf(Before(decl))
  IN  IF Before(decl) # {} /\ tree.kind[x] \in Lang.doc /\ Adjacent(x, decl) THEN run[x] ELSE {}

-----------------------------------------------------------------------------
Walk(kids) == todo' = kids \o Tail(todo)
WalkInside(id, kids) == todo' = kids \o <<Pop>> \o Tail(todo) /\ scope' = Append(scope, id)

Contain(id) == [parent |-> scope[Len(scope)], child |-> id]
Emit(id, docs) ==
  /\ nodes' = Append(nodes, N(id, QualifiedName(NameOf(id)), docs))
  /\ contains' = Append(contains, Contain(id))

Top == Head(todo)
Kind == tree.kind[Top]
IdOf(kind) == Id(kind, tree.name[Top], tree.line[Top])
AllKids == Kids(tree, Top)
Body == Part(tree, Top, "body")
Hooked == refs' = refs \o HookRefs(tree, Top, scope[Len(scope)])
HookedWith(ref) == refs' = Append(refs \o HookRefs(tree, Top, scope[Len(scope)]), ref)
Visiting(kinds) == todo # <<>> /\ Top # Pop /\ Kind \in kinds
Named == tree.name[Top] # 0

\* Kinds a hook handles alone.
Taken == [l \in DOMAIN Config |->
           CASE l = "Go" -> {"type_spec", "method_declaration"}
             [] l = "Cpp" -> {"function_definition", "macro_class", "forward_class",
                              "class_specifier", "struct_specifier"}
             [] l = "Rust" -> {"impl_item"}
             [] OTHER -> {}]
Default(kinds) == Visiting(kinds \ Taken[tree.lang])

Declare(kind, docs, kids) ==
  /\ Emit(IdOf(kind), docs) /\ WalkInside(IdOf(kind), kids) /\ Hooked

Start ==
  /\ LET ns == InOrder({m \in Children(tree, 1) :
                         /\ tree.kind[m] = "file_scoped_namespace_declaration"
                         /\ Lang.namespace # {} /\ tree.name[m] # 0})
         ids == <<FileId>> \o Map(ns, LAMBDA m : Id("Namespace", tree.name[m], tree.line[m]))
     IN  /\ scope = ids
         /\ nodes = Map(ids, LAMBDA id : N(id, id.path, {}))
         /\ contains = [i \in 1..Len(ns) |-> [parent |-> ids[i], child |-> ids[i + 1]]]
  /\ todo = <<1>> /\ refs = <<>>

Init == tree \in Trees /\ Start

\* A namespace, of which a file-scoped one is left to Start.
VisitNamespace ==
  /\ Default(Lang.namespace)
  /\ IF Kind = "file_scoped_namespace_declaration"
     THEN Walk(<<>>) /\ UNCHANGED <<scope, nodes, contains>> /\ Hooked
     ELSE Named /\ Declare("Namespace", {}, Body)
  /\ UNCHANGED tree

VisitFunction ==
  /\ Default(Lang.function)
  /\ Named /\ ~(IsInClassScope /\ Kind \in Lang.method)
  /\ Declare("Function", Documenting(Top), Body)
  /\ UNCHANGED tree

VisitMethod ==
  /\ Default(Lang.method)
  /\ Named /\ (IsInClassScope \/ Kind \notin Lang.function)
  /\ Declare("Method", Documenting(Top), Body)
  /\ UNCHANGED tree

\* Mutant: structs are lumped in with classes.
TypeKindLumped ==
  CASE Kind \in Lang.class \cup Lang.struct -> "Class"
    [] Kind \in Lang.interface -> "Interface"
    [] OTHER -> "Enum"

TypeKind ==
  CASE Kind \in Lang.class -> "Class"
    [] Kind \in Lang.interface -> "Interface"
    [] Kind \in Lang.struct -> "Struct"
    [] OTHER -> "Enum"

VisitType ==
  /\ Default(Lang.class \cup Lang.interface \cup Lang.struct \cup Lang.enum)
  /\ Named
  /\ Declare(TypeKind, Documenting(Top), AllKids)
  /\ UNCHANGED tree

VisitAlias ==
  /\ Default(Lang.alias)
  /\ Named
  /\ Emit(IdOf("Type"), {}) /\ Walk(AllKids) /\ Hooked
  /\ UNCHANGED <<tree, scope>>

\* A property or field of a type; what it is initialised with is not walked.
VisitMember ==
  /\ Default(Lang.property \cup Lang.field)
  /\ IsInClassScope /\ Named
  /\ Emit(IdOf(IF Kind \in Lang.property THEN "Property" ELSE "Field"), {})
  /\ Walk(<<>>) /\ Hooked
  /\ UNCHANGED <<tree, scope>>

VisitVariable ==
  /\ Default(Lang.variable)
  /\ ~IsInClassScope /\ ~IsInFunctionScope
  /\ LET declarators == {m \in Children(tree, Top) : tree.kind[m] = "variable_declarator"}
         named == InOrder({m \in IF declarators = {} THEN {Top} ELSE declarators :
                             tree.name[m] # 0})
         ids == Map(named, LAMBDA m : Id("Variable", tree.name[m], tree.line[m]))
     IN  /\ nodes' = nodes \o Map(ids, LAMBDA id : N(id, QualifiedName(NameOf(id)), {}))
         /\ contains' = contains \o Map(ids, Contain)
  /\ Walk(<<>>) /\ Hooked
  /\ UNCHANGED <<tree, scope>>

Require == 99
VisitReference ==
  /\ Default(Lang.import \cup Lang.call)
  /\ Named
  /\ HookedWith(Ref(scope[Len(scope)], IF Kind \in Lang.import THEN "imports" ELSE "calls",
                    IF Kind = "require" THEN Require ELSE tree.name[Top], tree.line[Top]))
  /\ Walk(AllKids)
  /\ UNCHANGED <<tree, scope, nodes, contains>>

-----------------------------------------------------------------------------
(* `impl [Trait for] Type`: its plain type names, the last of which is taken *)
(* for Type.  A struct, trait or enum of that name that was already met owns *)
(* the methods, else a Type node made for it, else the file.                 *)
ImplNames == Within(tree, Top, {"type_identifier"})
ImplOwner(self) ==
  LET known == {i \in DOMAIN nodes : /\ nodes[i].id.path = <<self>>
                                     /\ nodes[i].id.kind \in {"Struct", "Trait", "Class", "Enum"}}
  IN  IF self = 0 THEN FileId
      ELSE IF known # {} THEN nodes[CHOOSE i \in known : \A j \in known : i <= j].id
      ELSE Id("Type", self, tree.line[Top])

Made(owner) == \A i \in DOMAIN nodes : nodes[i].id # owner

\* The body is walked here and only here; only a named owner is popped again.
ImplWalk(self) == Body \o (IF self # 0 THEN <<Pop>> ELSE <<>>) \o Tail(todo)

VisitImpl ==
  /\ tree.lang = "Rust" /\ Visiting({"impl_item"})
  /\ LET self == IF ImplNames = <<>> THEN 0 ELSE tree.name[ImplNames[Len(ImplNames)]]
         owner == ImplOwner(self)
         made == Made(owner)
     IN  /\ nodes' = IF made THEN Append(nodes, N(owner, QualifiedName(self), {})) ELSE nodes
         /\ contains' = IF made THEN Append(contains, [parent |-> FileId, child |-> owner])
                        ELSE contains
         /\ refs' = IF Len(ImplNames) >= 2
                    THEN Append(refs, Ref(owner, "implements", tree.name[ImplNames[1]],
                                          tree.line[Top]))
                    ELSE refs
         /\ scope' = Append(scope, owner)
         /\ todo' = ImplWalk(self)
  /\ UNCHANGED tree

\* A type_spec is a struct or an interface, which are scopes, or another type.
VisitGoType ==
  /\ tree.lang = "Go" /\ Visiting({"type_spec"}) /\ Named
  /\ LET kinds == {tree.kind[k] : k \in Range(AllKids)}
     IN  IF "struct_type" \in kinds THEN Declare("Struct", {}, AllKids)
         ELSE IF "interface_type" \in kinds THEN Declare("Interface", {}, AllKids)
         ELSE Emit(IdOf("Type"), {}) /\ Walk(<<>>) /\ Hooked /\ UNCHANGED scope
  /\ UNCHANGED tree

\* A Go method is named by its receiver, whatever scope it stands in.
VisitGoMethod ==
  /\ tree.lang = "Go" /\ Visiting({"method_declaration"}) /\ Named
  /\ LET receiver == Map(Within(tree, Top, {"receiver"}), LAMBDA r : tree.name[r])
         qualified == Append(receiver, tree.name[Top])
         id == PathId("Method", qualified, tree.line[Top])
     IN  /\ nodes' = Append(nodes, N(id, qualified, {}))
         /\ contains' = Append(contains, Contain(id))
         /\ WalkInside(id, Body)
  /\ Hooked
  /\ UNCHANGED tree

Bases(kind) ==
  Map(Within(tree, Top, {"base"}),
      LAMBDA b : Ref(IdOf(kind), "extends", tree.name[b], tree.line[b]))

\* A function, which is a method in a class or when its name is qualified.
VisitCppFunction ==
  /\ tree.lang = "Cpp" /\ Visiting({"function_definition"}) /\ Named
  /\ Declare(IF IsInClassScope \/ Within(tree, Top, {"qualifier"}) # <<>>
             THEN "Method" ELSE "Function", {}, Body)
  /\ UNCHANGED tree

(* A class or struct with a body, also behind an export macro, where the      *)
(* grammar takes it for a function.  One without (forward_class) is skipped.  *)
VisitCppType ==
  /\ tree.lang = "Cpp" /\ Visiting({"macro_class", "class_specifier", "struct_specifier"}) /\ Named
  /\ LET kind == IF Kind = "struct_specifier" THEN "Struct" ELSE "Class"
     IN  /\ Emit(IdOf(kind), Documenting(Top))
         /\ WalkInside(IdOf(kind), IF Kind = "macro_class" THEN Body ELSE AllKids)
         /\ refs' = refs \o Bases(kind)
  /\ UNCHANGED tree

SkipForward ==
  /\ tree.lang = "Cpp" /\ Visiting({"forward_class"})
  /\ Walk(<<>>)
  /\ UNCHANGED <<tree, scope, nodes, contains, refs>>

\* Any other node, and a declaration that has no name here: only its children.
Untold ==
  \/ Kind \notin (UNION {Lang[role] : role \in {"namespace", "function", "method", "class",
                      "interface", "struct", "enum", "alias", "property", "field", "variable",
                      "import", "call"}}) \cup Taken[tree.lang]
  \/ ~Named /\ Kind \notin Lang.variable \cup {"file_scoped_namespace_declaration", "impl_item",
                                              "forward_class"}
  \/ Kind \in Lang.property \cup Lang.field /\ ~IsInClassScope
  \/ Kind \in Lang.variable /\ (IsInClassScope \/ IsInFunctionScope)

WalkOn ==
  /\ todo # <<>> /\ Top # Pop /\ Untold
  /\ Walk(AllKids) /\ Hooked
  /\ UNCHANGED <<tree, scope, nodes, contains>>

Leave ==
  /\ todo # <<>> /\ Top = Pop
  /\ scope' = SubSeq(scope, 1, Len(scope) - 1) /\ todo' = Tail(todo)
  /\ UNCHANGED <<tree, nodes, contains, refs>>

Next == \/ VisitNamespace \/ VisitFunction \/ VisitMethod \/ VisitType \/ VisitAlias
        \/ VisitMember \/ VisitVariable \/ VisitReference \/ VisitImpl \/ VisitGoType
        \/ VisitGoMethod \/ VisitCppFunction \/ VisitCppType \/ SkipForward \/ WalkOn \/ Leave

Spec == Init /\ [][Next]_vars

-----------------------------------------------------------------------------
(* What a batch must be when the walk of its file has ended.                *)

Ids == {nodes[i].id : i \in DOMAIN nodes}
Done == todo = <<>>
ScopeKinds == ClassKinds \cup {"Namespace", "Function", "Method", "Type"}

(* Types: the stack holds tree nodes, every id kind is known.                *)
TypeOK ==
  /\ \A i \in DOMAIN todo : todo[i] \in Node(tree) \cup {Pop}
  /\ \A i \in DOMAIN nodes : nodes[i].id.kind \in
        ScopeKinds \cup {"File", "Variable", "Property", "Field"}
  /\ \A i \in DOMAIN refs : refs[i].kind \in
        {"calls", "imports", "extends", "implements", "references"}
  /\ scope # <<>> /\ scope[1] = FileId

(* A reference or edge never starts or ends at an id that has no node in the *)
(* batch: the foreign keys of the store would take the whole batch back.     *)
(* The hooks compute ids of nodes that are emitted later, elsewhere.         *)
RefsAnchored ==
  Done => /\ \A i \in DOMAIN refs : refs[i].from \in Ids
          /\ \A i \in DOMAIN contains : {contains[i].parent, contains[i].child} \subseteq Ids

(* Contains is a tree below the file: every declaration is emitted once and  *)
(* has one container, itself emitted before it.                              *)
ContainsIsTree ==
  Done => /\ Len(nodes) = Cardinality(Ids)
          /\ Len(contains) = Len(nodes) - 1
          /\ \A i \in 2..Len(nodes) : \E e \in Range(contains), j \in 1..(i - 1) :
               e.child = nodes[i].id /\ e.parent = nodes[j].id

(* The kinds of id that node n may be given, by its role in the language or   *)
(* by the hook that handles it, and the path of its name.                    *)
MayBe(t, n, kind) ==
  LET k == t.kind[n]
      L == Config[t.lang]
  IN  \/ kind = "Namespace" /\ k \in L.namespace
      \/ kind = "Function" /\ k \in L.function \cup {"function_definition"}
      \/ kind = "Method" /\ k \in L.function \cup L.method
                                  \cup {"function_definition", "method_declaration"}
      \/ kind = "Class" /\ k \in L.class \cup {"class_specifier", "macro_class"}
      \/ kind = "Struct" /\ k \in L.struct \cup {"struct_specifier", "type_spec"}
      \/ kind = "Interface" /\ k \in L.interface \cup {"type_spec"}
      \/ kind = "Enum" /\ k \in L.enum
      \/ kind = "Type" /\ k \in L.alias \cup {"type_spec", "impl_item"}
      \/ kind = "Property" /\ k \in L.property
      \/ kind = "Field" /\ k \in L.field
      \/ kind = "Variable" /\ k \in L.variable \cup {"variable_declarator"}

Path(t, n) ==
  LET types == Within(t, n, {"type_identifier"})
      receiver == Map(Within(t, n, {"receiver"}), LAMBDA r : t.name[r])
  IN  CASE t.kind[n] = "impl_item" -> << IF types = <<>> THEN 0 ELSE t.name[types[Len(types)]] >>
        [] t.lang = "Go" /\ t.kind[n] = "method_declaration" -> Append(receiver, t.name[n])
        [] OTHER -> <<t.name[n]>>

\* The id is that of the declaration at tree node n.
Source(t, id, n) ==
  /\ MayBe(t, n, id.kind) /\ id.path = Path(t, n) /\ id.path # <<0>> /\ id.line = t.line[n]

Above(t, n) ==
  LET above[m \in Node(t)] == IF t.up[m] = 0 THEN {} ELSE {t.up[m]} \cup above[t.up[m]]
  IN  above[n]

(* What stands for tree node n as the scope of what is below it, of these    *)
(* ids: the declaration there, or for an impl the type it is for (the file   *)
(* when that has no plain name).  An alias is no scope.                      *)
Holders(t, ids, n) ==
  IF t.kind[n] = "impl_item"
  THEN {id \in ids : /\ id.path = Path(t, n) /\ id.kind \in ClassKinds \cup {"Type", "File"}
                     /\ id.kind = "Type" => id.line = t.line[n]}
  ELSE {id \in ids : Source(t, id, n) /\ id.kind \in ScopeKinds \ {"Type"}}

Around(t, ids, n) == {a \in Above(t, n) : Holders(t, ids, a) # {}}

\* The id is the innermost declaration around n, or what Start has put around the file.
ChargedTo(t, ids, n, id) ==
  IF Around(t, ids, n) = {} THEN id.kind \in {"File", "Namespace"}
  ELSE id \in Holders(t, ids, LastOf(Around(t, ids, n)))

\* Reference r is what the call at node n was made into.
CallAt(t, n, r) ==
  /\ t.kind[n] \in Config[t.lang].call /\ r.kind = "calls"
  /\ r.line = t.line[n] /\ r.name = IF t.kind[n] = "require" THEN Require ELSE t.name[n]

(* An impl, or a type that could be taken for its own, elsewhere than in the *)
(* file and its modules, which is not where the code expects it: the type is *)
(* looked up by its plain name, and an impl without one is never popped (see *)
(* the README).                                                              *)
LocalItem(t) ==
  \E n \in Node(t) : /\ t.kind[n] \in {"impl_item", "struct_item", "enum_item"}
                     /\ \E a \in Above(t, n) : t.kind[a] \notin {"mod_item", "source_file"}

(* Each call is charged once, to the innermost declaration around it (to the *)
(* file or its namespace where there is none): push and pop of the scopes    *)
(* match on every path through the extractors.                               *)
CallsCharged ==
  (Done /\ ~LocalItem(tree)) =>
    LET calls == {i \in DOMAIN refs : refs[i].kind = "calls"}
        sites == {n \in Node(tree) : tree.kind[n] \in Lang.call}
    IN  \E at \in Injection(calls, sites) : \A i \in calls :
          CallAt(tree, at[i], refs[i]) /\ ChargedTo(tree, Ids, at[i], refs[i].from)

(* The qualified name of a declaration is the path of Contains edges that    *)
(* leads to it.  (A Go method is named by its receiver, which types inside   *)
(* it ignore.)                                                               *)
QualifiedIsPath ==
  (Done /\ ~LocalItem(tree)) => \A e \in Range(contains), i, j \in DOMAIN nodes :
    (/\ nodes[i].id = e.parent /\ nodes[j].id = e.child
     /\ ~(tree.lang = "Go" /\ "Method" \in {e.child.kind, e.parent.kind})) =>
      nodes[j].qualified =
        (IF e.parent.kind = "File" THEN <<>> ELSE nodes[i].qualified) \o <<NameOf(e.child)>>

(* A comment documents one declaration, the next one below it.               *)
DocsNextBelow ==
  Done => \A i, j \in DOMAIN nodes : \A c \in nodes[i].docs :
    /\ tree.line[c] <= nodes[i].id.line
    /\ c \in nodes[j].docs => i = j
    /\ ~(tree.line[c] < nodes[j].id.line /\ nodes[j].id.line < nodes[i].id.line)

-----------------------------------------------------------------------------
(* The properties above, by what they are about. *)

(* A batch can be stored: its ends are there, and its nodes are one tree.       *)
BatchStores == TypeOK /\ RefsAnchored /\ ContainsIsTree

(* The scopes that the walk pushes and pops are those of the text: by them calls *)
(* are charged and names are qualified.                                      *)
ScopesMatch == CallsCharged /\ QualifiedIsPath
=============================================================================
