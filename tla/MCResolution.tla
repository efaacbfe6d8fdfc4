---------------------------- MODULE MCResolution ----------------------------
(* Projects of up to three of six files in five languages, with names that     *)
(* meet across files, languages and capitals.                                *)
EXTENDS ReferenceResolver, TLC

Ts == <<"src", "/", "user", ".", "ts">>
Store2 == <<"lib", "/", "db", "/", "store", ".", "ts">>
Py == <<"app", "/", "user", ".", "py">>
Mjs == <<"app", "/", "util", ".", "mjs">>
Vue == <<"ui", "/", "user", ".", "vue">>
Mine == <<"src", "/", "db", "/", "store", ".", "ts">>

N(id, name, qname, kind, file, line, lang, exported) ==
  [id |-> id, name |-> name, qname |-> qname, kind |-> kind, file |-> file, line |-> line,
   lang |-> lang, exported |-> exported]
FileNode(id, name, file, lang) == N(id, name, file, "file", file, 1, lang, FALSE)

MCBlock == (
  Ts :> << FileNode(10, <<"user", ".", "ts">>, Ts, 0),
           N(11, <<"User">>, <<"User">>, "class", Ts, 2, 0, TRUE),
           N(12, <<"get">>, <<"User", "::", "get">>, "method", Ts, 3, 0, FALSE),
           N(13, <<"save">>, <<"save">>, "variable", Ts, 60, 0, FALSE) >> @@
  Store2 :> << FileNode(20, <<"store", ".", "ts">>, Store2, 0),
           N(21, <<"Store">>, <<"Store">>, "class", Store2, 2, 0, TRUE),
           N(22, <<"get">>, <<"Store", "::", "get">>, "method", Store2, 3, 0, FALSE),
           N(23, <<"save">>, <<"save">>, "function", Store2, 9, 0, TRUE),
           N(24, <<"use", "Fetch">>, <<"use", "Fetch">>, "function", Store2, 20, 0, TRUE) >> @@
  Py :> << FileNode(30, <<"user", ".", "py">>, Py, 1),
           N(31, <<"User">>, <<"User">>, "class", Py, 2, 1, TRUE),
           N(32, <<"get">>, <<"User", "::", "get">>, "method", Py, 3, 1, FALSE),
           N(33, <<"save">>, <<"save">>, "function", Py, 9, 1, TRUE),
           N(34, <<"find">>, <<"find">>, "function", Py, 30, 1, FALSE) >> @@
  Mjs :> << FileNode(40, <<"util", ".", "mjs">>, Mjs, 0),
           N(41, <<"save">>, <<"save">>, "function", Mjs, 5, 0, FALSE),
           N(42, <<"Save">>, <<"Save">>, "function", Mjs, 7, 0, FALSE) >> @@
  Vue :> << FileNode(50, <<"user", ".", "vue">>, Vue, 255),
           N(51, <<"save">>, <<"save">>, "function", Vue, 5, 255, TRUE) >> @@
  Mine :> << FileNode(60, <<"store", ".", "ts">>, Mine, 0),
           N(61, <<"My", "User">>, <<"My", "User">>, "class", Mine, 2, 0, FALSE),
           N(62, <<"find">>, <<"My", "User", "::", "find">>, "method", Mine, 3, 0, FALSE),
           N(63, <<"save">>, <<"save">>, "class", Mine, 5, 0, TRUE) >>)

MCNames == { <<"save">>, <<"Save">>, <<"get">>, <<"find">>, <<"use", "Fetch">>,
             <<"user", ".", "get">>, <<"User", ".", "get">>, <<"store", ".", "save">>,
             <<"User", "::", "get">>, <<"User", "::", "find">>, <<"Store", "::", "get">>,
             <<"src", "/", "user", ".", "ts">>, <<"db", "/", "store", ".", "ts">>, <<".", "/", "user">>,
             <<"app", ".", "user", ".", "get">>, <<"console", ".", "get">>, <<"none">> }

In(f, kinds, lines) ==
  [name : MCNames, kind : kinds, file : {f}, line : lines, from : {MCBlock[f][1].id}]
From(f) == In(f, {"calls", "decorates"}, {4}) \union In(f, {"calls", "instantiates"}, {70})
MCAsked == From(Ts) \union From(Py) \union From(Mjs) \union From(Vue)

MCCapital == ("user" :> "User" @@ "store" :> "Store" @@ "save" :> "Save" @@ "app" :> "App"
              @@ "console" :> "Console" @@ "src" :> "Src" @@ "db" :> "Db"
              @@ "." :> ".")
MCCapitalOf == [w \in DOMAIN MCCapital \union {"User", "Store", "Save", "My", "get", "find"} |->
                  IF w \in DOMAIN MCCapital THEN MCCapital[w] ELSE w]
MCTokens == UNION {ToSet(n) : n \in MCNames}
            \union UNION {UNION {ToSet(n.name) : n \in ToSet(MCBlock[f])} : f \in DOMAIN MCBlock}
MCUpper == ("User" :> "user" @@ "Store" :> "store" @@ "Save" :> "save" @@ "My" :> "my"
            @@ "Fetch" :> "fetch")
MCLower == [w \in MCTokens |-> IF w \in DOMAIN MCUpper THEN MCUpper[w] ELSE w]

MCGroup == ("ts" :> 0 @@ "py" :> 1 @@ "mjs" :> 255 @@ "vue" :> 255)
MCLanguage == ("ts" :> "js" @@ "py" :> "python" @@ "mjs" :> "unknown" @@ "vue" :> "unknown")
MCBuiltin == ("js" :> {<<"console">>} @@ "python" :> {<<"get">>} @@ "unknown" :> {})
MCBuiltinStem == ("js" :> {<<"console">>} @@ "python" :> {} @@ "unknown" :> {})
MCPythonMethod == {<<"get">>}
MCSelfName == {<<"use", "Fetch">>}
MCImports == (Ts :> {[local |-> <<"save">>, original |-> <<"get">>]})

Dir(d, f) == [dir |-> d, name |-> f]
M(name, exported, params) == [name |-> name, exported |-> exported, params |-> params]
MCMethods == { M("Get", TRUE, <<>>), M("Get", TRUE, <<"plain">>), M("Put", TRUE, <<"plain">>),
               M("Put", TRUE, <<"func", "plain">>), M("put", FALSE, <<>>) }
Typed(f) == [what |-> "type", type |-> "T", exported |-> TRUE, file |-> f]
Declared(f, m) == [what |-> "method", type |-> "T", method |-> m, file |-> f]
Small == {s \in SUBSET MCMethods : Cardinality(s) <= 1}
MCGoProjects ==
  { {Typed(Dir("a", "t")), Typed(Dir("b", "t")),
     [what |-> "interface", type |-> "I", exported |-> pub, file |-> Dir("b", "i"), methods |-> need]}
    \union {Declared(Dir("a", "t"), m) : m \in own}
    \union {Declared(Dir("a", "u"), m) : m \in split}
    \union {Declared(Dir("b", "t"), m) : m \in other} :
      need \in {s \in SUBSET MCMethods : Cardinality(s) <= 2}, own \in Small, split \in Small,
      other \in Small, pub \in BOOLEAN }
=============================================================================
