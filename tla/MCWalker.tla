------------------------------ MODULE MCWalker ------------------------------
(* All trees of up to five nodes that these grammars give, one node a line,  *)
(* with or without a blank line below a comment.  A declaration is named   *)
(* by its place, so that names are distinct; the type names of an impl and   *)
(* of a C# member are chosen among those.                                    *)
EXTENDS AstWalker, TLC

H(kinds) == {<<"head", k>> : k \in kinds}
B(kinds) == {<<"body", k>> : k \in kinds}

Grammar == [
  TypeScript |->
    "program" :> B({"function_declaration", "class_declaration", "lexical_declaration",
                    "import_statement", "/**", "export_statement", "interface_declaration"}) @@
    "export_statement" :> H({"function_declaration", "class_declaration"}) @@
    "function_declaration" :> H({"call_expression"}) \cup
        B({"call_expression", "lexical_declaration", "function_declaration"}) @@
    "class_declaration" :> H({"extends_clause", "implements_clause"}) \cup
        B({"method_definition", "public_field_definition", "/**"}) @@
    "method_definition" :> B({"call_expression", "function_expression"}) @@
    "public_field_definition" :> H({"call_expression"}) @@
    "lexical_declaration" :> H({"variable_declarator"}) @@
    "variable_declarator" :> H({"call_expression", "arrow_function"}) @@
    "call_expression" :> H({"function_expression"}) @@
    "function_expression" :> B({"call_expression"}) @@
    "arrow_function" :> B({"call_expression"}),
  JavaScript |->
    "program" :> B({"function_declaration", "lexical_declaration", "require"}) @@
    "function_declaration" :> B({"lexical_declaration", "require"}) @@
    "lexical_declaration" :> H({"variable_declarator"}) @@
    "variable_declarator" :> H({"require", "call_expression", "function_expression"}) @@
    "function_expression" :> B({"lexical_declaration", "call_expression"}) @@
    "call_expression" :> H({"require"}),
  Python |->
    "module" :> B({"function_definition", "class_definition", "assignment", "import_statement"}) @@
    "function_definition" :> H({"call"}) \cup
        B({"function_definition", "class_definition", "assignment", "call"}) @@
    "class_definition" :> B({"function_definition", "assignment"}) @@
    "assignment" :> H({"call"}) @@ "call" :> H({"call"}),
  Rust |->
    "source_file" :> B({"function_item", "struct_item", "trait_item", "impl_item", "const_item",
                        "use_declaration", "///", "/**", "mod_item", "type_item"}) @@
    "mod_item" :> B({"function_item", "impl_item", "struct_item"}) @@
    "trait_item" :> B({"function_item"}) @@
    "impl_item" :> H({"type_identifier", "generic_type"}) \cup B({"function_item", "///"}) @@
    "function_item" :> B({"call_expression", "let_declaration", "impl_item"}) @@
    "let_declaration" :> H({"call_expression"}) @@ "const_item" :> H({"call_expression"}),
  CSharp |->
    "compilation_unit" :> B({"file_scoped_namespace_declaration", "namespace_declaration",
                             "class_declaration", "using_directive", "///", "interface_declaration",
                             "local_declaration_statement"}) @@
    "namespace_declaration" :> B({"class_declaration", "struct_declaration", "enum_declaration"}) @@
    "class_declaration" :> H({"base_list"}) \cup B({"method_declaration", "property_declaration",
                             "field_declaration", "///", "class_declaration"}) @@
    "struct_declaration" :> B({"field_declaration"}) @@
    "interface_declaration" :> B({"method_declaration"}) @@
    "method_declaration" :> H({"type"}) \cup B({"invocation_expression", "local_declaration_statement"}) @@
    "property_declaration" :> H({"type", "invocation_expression"}) @@
    "field_declaration" :> H({"type"}) @@
    "local_declaration_statement" :> H({"invocation_expression"}),
  Go |->
    "source_file" :> B({"function_declaration", "method_declaration", "type_spec", "//",
                        "import_spec", "var_declaration"}) @@
    "type_spec" :> H({"struct_type", "interface_type"}) @@
    "function_declaration" :> B({"call_expression", "short_var_declaration", "type_spec"}) @@
    "method_declaration" :> H({"receiver"}) \cup B({"call_expression", "type_spec"}) @@
    "var_declaration" :> H({"call_expression"}) @@ "short_var_declaration" :> H({"call_expression"}),
  Cpp |->
    "translation_unit" :> B({"function_definition", "class_specifier", "macro_class", "///",
                             "namespace_definition", "declaration", "forward_class"}) @@
    "namespace_definition" :> B({"function_definition", "struct_specifier"}) @@
    "class_specifier" :> H({"base"}) \cup
        B({"function_definition", "field_declaration", "class_specifier"}) @@
    "struct_specifier" :> B({"function_definition"}) @@
    "macro_class" :> H({"base"}) \cup B({"function_definition"}) @@
    "function_definition" :> H({"qualifier"}) \cup B({"call_expression", "declaration"}) @@
    "declaration" :> H({"call_expression"})]

RootKind == [TypeScript |-> "program", JavaScript |-> "program", Python |-> "module",
             Rust |-> "source_file", CSharp |-> "compilation_unit", Go |-> "source_file",
             Cpp |-> "translation_unit"]
Anonymous == {"function_expression", "var_declaration", "short_var_declaration", "mod_item",
              "export_statement", "namespace_definition", "local_declaration_statement",
              "lexical_declaration"}
Chosen == {"type_identifier", "generic_type", "type", "receiver"}
Comments == {"/**", "///", "//"}
\* Some children come at most once, and an impl has one or two types.
Single == {"generic_type", "base_list", "extends_clause", "receiver", "qualifier", "struct_type",
           "interface_type", "type", "variable_declarator", "file_scoped_namespace_declaration"}

Root(l) == [lang |-> l, kind |-> <<RootKind[l]>>, up |-> <<0>>, part |-> <<"body">>,
            name |-> <<0>>, line |-> <<0>>]

\* The nodes that may still get a child in document order: the last and those above.
RECURSIVE Spine(_, _)
Spine(t, n) == IF n = 0 THEN {} ELSE {n} \cup Spine(t, t.up[n])

Grow(t) ==
  LET n == Len(t.kind) + 1
      line == t.line[n - 1] + 1
      lines == IF t.kind[n - 1] \in Comments THEN {line, line + 1} ELSE {line}
      rules(p) == IF t.kind[p] \in DOMAIN Grammar[t.lang] THEN Grammar[t.lang][t.kind[p]] ELSE {}
      fits(p, g) == /\ g[1] = "head" => Part(t, p, "body") = <<>>
                    /\ g[2] \in Single => Within(t, p, {g[2]}) = <<>>
                    /\ g[2] \in {"type_identifier", "generic_type"} => Len(Kids(t, p)) < 2
                    /\ t.kind[p] = "impl_item" /\ g[1] = "body" => Part(t, p, "head") # <<>>
                    /\ t.kind[p] \in {"export_statement", "type_spec", "variable_declarator"}
                         => Kids(t, p) = <<>>
      names(k) == IF k \in Anonymous THEN {0} ELSE IF k \in Chosen THEN {2, 3, 20} ELSE {n}
  IN  {[t EXCEPT !.kind = Append(@, x[1][2][2]), !.up = Append(@, x[1][1]),
                 !.part = Append(@, x[1][2][1]), !.name = Append(@, x[2]), !.line = Append(@, x[3])] :
        x \in UNION {UNION {{<<p, g>>} \X names(g[2]) \X lines :
                              g \in {r \in rules(p) : fits(p, r)}} : p \in Spine(t, n - 1)}}

\* What must have a child, or no tree-sitter grammar gives it.
Whole(t) ==
  \A n \in Node(t) : t.kind[n] \in {"lexical_declaration", "export_statement", "impl_item"} =>
    Kids(t, n) # <<>>

Grown(T) == UNION {Grow(t) : t \in T}
Two == Grown({Root(l) : l \in DOMAIN Config})
Three == Grown(Two)
Small == Two \cup Three \cup Grown(Three)
SmallTrees == {t \in Small : Whole(t)}

\* Trees of one node more, without the set of them all.
GrownInit == /\ \E t \in Small : tree \in Grow(t)
             /\ Whole(tree)
             /\ Start
GrownSpec == (Init \/ GrownInit) /\ [][Next]_vars
=============================================================================
