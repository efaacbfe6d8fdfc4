----------------------------- MODULE Languages -----------------------------
(***************************************************************************)
(* The LanguageConfig tables of codewiki-extraction/src/languages, which   *)
(* say what the walker (AstWalker) does with a node of the syntax tree, by *)
(* the kind tree-sitter gives it, and the visit_node_hook of a language:   *)
(* what it adds in front of the walk (HookRefs here), or does in its place *)
(* (the actions of AstWalker that are named after a language).             *)
(*                                                                         *)
(* A tree is a record of sequences indexed by the nodes in document order: *)
(* kind, up (the parent), part ("body": a child of the node's body; "head":*)
(* any other named child), name (0: none) and line.  Node 1 is the root.   *)
(***************************************************************************)
EXTENDS Naturals, Sequences, FiniteSets

Nothing == [namespace |-> {}, function |-> {}, method |-> {}, class |-> {}, interface |-> {},
            struct |-> {}, enum |-> {}, alias |-> {}, property |-> {}, field |-> {},
            variable |-> {}, import |-> {}, call |-> {}, doc |-> {}, run |-> FALSE]

\* doc: the kinds of comment that document what follows; run: several lines of them do.
TypeScript ==
  [Nothing EXCEPT !.function = {"function_declaration", "arrow_function", "function_expression"},
                  !.class = {"class_declaration", "abstract_class_declaration"},
                  !.method = {"method_definition", "public_field_definition"},
                  !.interface = {"interface_declaration"}, !.enum = {"enum_declaration"},
                  !.alias = {"type_alias_declaration"}, !.import = {"import_statement"},
                  !.call = {"call_expression"},
                  !.variable = {"lexical_declaration", "variable_declaration"}, !.doc = {"/**"}]

JavaScript ==
  [TypeScript EXCEPT !.class = {"class_declaration"}, !.interface = {}, !.enum = {}, !.alias = {},
                     !.call = {"call_expression", "require"}]

Python ==
  [Nothing EXCEPT !.function = {"function_definition"}, !.method = {"function_definition"},
                  !.class = {"class_definition"}, !.call = {"call"}, !.variable = {"assignment"},
                  !.import = {"import_statement", "import_from_statement"}]

Rust ==
  [Nothing EXCEPT !.function = {"function_item"}, !.method = {"function_item"},
                  !.interface = {"trait_item"}, !.struct = {"struct_item"}, !.enum = {"enum_item"},
                  !.alias = {"type_item"}, !.import = {"use_declaration"},
                  !.call = {"call_expression"},
                  !.variable = {"let_declaration", "const_item", "static_item"},
                  !.doc = {"/**", "///"}, !.run = TRUE]

CSharp ==
  [Nothing EXCEPT !.class = {"class_declaration"},
                  !.method = {"method_declaration", "constructor_declaration"},
                  !.interface = {"interface_declaration"},
                  !.struct = {"struct_declaration", "record_declaration"},
                  !.enum = {"enum_declaration"}, !.import = {"using_directive"},
                  !.call = {"invocation_expression"}, !.variable = {"local_declaration_statement"},
                  !.property = {"property_declaration"}, !.field = {"field_declaration"},
                  !.namespace = {"namespace_declaration", "file_scoped_namespace_declaration"},
                  !.doc = {"///"}, !.run = TRUE]

\* Its methods, structs and interfaces are made by the hook.
Go ==
  [Nothing EXCEPT !.function = {"function_declaration"}, !.method = {"method_declaration"},
                  !.alias = {"type_spec"}, !.import = {"import_spec"}, !.call = {"call_expression"},
                  !.variable = {"var_declaration", "short_var_declaration", "const_declaration"},
                  !.doc = {"//"}, !.run = TRUE]

\* Its functions, classes and structs are made by the hook.
Cpp ==
  [Nothing EXCEPT !.function = {"function_definition"}, !.method = {"function_definition"},
                  !.class = {"class_specifier"}, !.struct = {"struct_specifier"},
                  !.enum = {"enum_specifier"},
                  !.alias = {"type_definition"}, !.import = {"preproc_include"},
                  !.call = {"call_expression"}, !.variable = {"declaration"},
                  !.field = {"field_declaration"}, !.doc = {"/**", "///"}, !.run = TRUE]

Config == [TypeScript |-> TypeScript, JavaScript |-> JavaScript, Python |-> Python, Rust |-> Rust,
           CSharp |-> CSharp, Go |-> Go, Cpp |-> Cpp]
-----------------------------------------------------------------------------
Node(t) == DOMAIN t.kind

\* Nodes in document order.
InOrder(S) ==
  LET D == 1..Cardinality(S)
  IN  CHOOSE s \in [D -> S] : \A i, j \in D : i < j => s[i] < s[j]

\* The named children of a node, and those of its body or of some kinds.
Children(t, n) == {m \in Node(t) : t.up[m] = n}
Kids(t, n) == InOrder(Children(t, n))
Part(t, n, part) == InOrder({m \in Children(t, n) : t.part[m] = part})
Within(t, n, kinds) == InOrder({m \in Children(t, n) : t.kind[m] \in kinds})

\* generate_node_id, a hash taken to be injective.  Only Go gives it a longer path.
PathId(kind, path, line) == [kind |-> kind, path |-> path, line |-> line]
Id(kind, name, line) == PathId(kind, <<name>>, line)
NameOf(id) == id.path[Len(id.path)]

Ref(from, kind, name, line) == [from |-> from, kind |-> kind, name |-> name, line |-> line]

Map(s, Op(_)) == [i \in DOMAIN s |-> Op(s[i])]

(* The clauses of a class that name a supertype become references from the  *)
(* id the class node is going to get.                                       *)
Heritage(t, n, kinds) ==
  Map(Within(t, n, kinds),
      LAMBDA c : Ref(Id("Class", t.name[n], t.line[n]),
                     IF t.kind[c] = "extends_clause" THEN "extends" ELSE "implements",
                     t.name[c], t.line[c]))

(* The types a C# declaration uses: of its fields and properties, and what  *)
(* its methods return and take.  One reference each, none to itself.        *)
TypesUsed(t, n) ==
  {t.name[x] : x \in {y \in Node(t) : /\ t.kind[y] = "type"
                                      /\ t.up[t.up[y]] = n
                                      /\ t.part[t.up[y]] = "body"
                                      /\ t.kind[t.up[y]] \in CSharp.field \cup CSharp.property \cup
                                                             CSharp.method}} \ {t.name[n]}

TypeUsage(t, n, kind) ==
  Map(InOrder(TypesUsed(t, n)),
      LAMBDA x : Ref(Id(kind, t.name[n], t.line[n]), "references", x, t.line[n]))

CSharpRefs(t, n) ==
  CASE t.kind[n] = "class_declaration" -> Heritage(t, n, {"base_list"}) \o TypeUsage(t, n, "Class")
    [] t.kind[n] \in CSharp.struct -> TypeUsage(t, n, "Struct")
    [] t.kind[n] \in CSharp.interface -> TypeUsage(t, n, "Interface")
    [] OTHER -> <<>>

(* The require calls below a JavaScript variable, which is not walked when   *)
(* it is at module level.  A call of require is a kind of its own here.      *)
Requires(t, n, scope) ==
  LET under[m \in Node(t)] == m = n \/ (m # 1 /\ under[t.up[m]])
  IN  IF t.kind[n] \in JavaScript.variable
      THEN Map(InOrder({m \in Node(t) : t.kind[m] = "require" /\ under[m]}),
               LAMBDA m : Ref(scope, "imports", t.name[m], t.line[m]))
      ELSE <<>>

\* visit_node_hook where it only adds references: scope is the innermost one.
HookRefs(t, n, scope) ==
  CASE t.lang = "TypeScript" /\ t.kind[n] \in TypeScript.class
         -> Heritage(t, n, {"extends_clause", "implements_clause"})
    [] t.lang = "JavaScript" -> Requires(t, n, scope)
    [] t.lang = "CSharp" -> CSharpRefs(t, n)
    [] OTHER -> <<>>
=============================================================================
