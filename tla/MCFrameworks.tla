---------------------------- MODULE MCFrameworks ----------------------------
(* Samples of a few pieces for each framework and language, and a project of    *)
(* two files, one of them configuration.                                     *)
EXTENDS FrameworkSystem, TLC

S(of, bys) == {[of |-> of, by |-> b] : b \in bys}
MCSamples ==
  S("strip", CommentLang)
    \union S("scan", {"fastapi", "flask", "django", "express", "gin", "laravel", "rails", "spring", "vapor", "aspnet", "minimal", "nestjs",
                      "angular", "react"})
    \union S("brackets", {"any"}) \union S("tree", {"vue", "angular"}) \union S("place", {"nuxt", "svelte", "next"})
    \union S("crates", {"cargo"})
    \union S("rules", {"django", "flask", "fastapi", "rails", "laravel", "express", "nestjs", "angular", "spring", "gin", "aspnet",
                       "vapor", "react", "svelte", "vue"})
    \union S("detect", {"django", "express", "spring", "gin", "aspnet", "react", "cargo"})

K(k, r) == [k |-> k, ind |-> FALSE] @@ r
In(k, r) == [k |-> k, ind |-> TRUE] @@ r
Dec(verb, path, nested) == K("decorator", [verb |-> verb, path |-> path, nested |-> nested])
Def(n) == K("def", [name |-> n])
Blanks == K("blank", [x \in {} |-> ""])
N(parts) == [f |-> "name", parts |-> parts, params |-> <<>>]
Fn(params) == [f |-> "fn", parts |-> <<>>, params |-> params]
To(recv, verb, path, args) == K("route", [recv |-> recv, verb |-> verb, path |-> path, args |-> args, rooted |-> TRUE])
Group(recv, var, p) == K("group", [recv |-> recv, var |-> var, prefix |-> <<p>>])
H(f) == [f |-> f, method |-> "index", class |-> "C"]
Url(e) == K("path", [path |-> <<"u">>, expr |-> e])
E(f, parts) == [f |-> f, parts |-> parts, module |-> "m"]
Cls(dec, path, n) == K("class", [dec |-> dec, path |-> path, name |-> n])
Op(op, path) == K("op", [op |-> op, path |-> path])
Comp(dec, uses) ==
  K("decorator", [dec |-> dec, standalone |-> "unset", imports |-> uses, template |-> {"Item"}, declares |-> uses, provides |-> {"Svc"}])

Statements(by) ==
  CASE by = "fastapi" -> {Dec("GET", <<"a">>, FALSE), Dec("POST", <<"b">>, TRUE), Dec("ROUTE", <<>>, FALSE), Def("f"), Def("g"), Blanks}
    [] by = "flask" -> {Dec("ROUTE", <<"a">>, FALSE), Dec("ROUTE", <<"b">>, TRUE), Dec("GET", <<>>, FALSE), Def("f"), Def("g"), Blanks}
    [] by = "django" -> {Url(E("name", <<"v">>)), Url(E("as_view", <<"v", "V">>)), Url(E("include", <<>>)),
                         Url(E("call", <<"v", "m">>)), Url(E("call", <<"d">>))}
    [] by = "express" -> {To("app", v, <<"a">>, a) : v \in {"GET", "USE"},
                          a \in {<<N(<<"h">>)>>, <<N(<<"mw">>), N(<<"c", "h">>)>>, <<N(<<"mw">>), Fn(<<<<"req">>, <<"res">>>>)>>,
                                 <<N(<<"mw">>), Fn(<<>>)>>, <<Fn(<<<<"x">>>>), N(<<"h">>)>>}}
    [] by = "gin" -> {Group("r", "v1", "api"), Group("router", "v1", "v2"), Group("v1", "v2", "in"), Group("app", "v2", "x"),
                      To("v1", "GET", <<"a">>, <<N(<<"mw">>), N(<<"h">>)>>), To("v2", "HANDLE", <<"b">>, <<Fn(<<>>)>>),
                      To("r", "POST", <<"c">>, <<N(<<"h">>)>>)}
    [] by = "laravel" -> {K("route", [verb |-> "GET", path |-> <<"a">>, h |-> H(f)]) : f \in {"tuple", "at", "class", "closure"}}
                           \union {K("resource", [verb |-> "RESOURCE", path |-> <<"b">>, h |-> H("class")])}
    [] by = "rails" -> {K("route", [verb |-> "GET", path |-> <<"a">>, f |-> f, action |-> "index"]) : f \in {"to", "arrow", "block"}}
                         \union {Blanks}
    [] by = "spring" -> {K("mapping", [verb |-> "GetMapping", path |-> <<"a">>]), In("mapping", [verb |-> "RequestMapping", path |-> <<>>])}
                          \union {K(k, [modifier |-> b, name |-> k]) : k \in {"method", "fieldnew"}, b \in BOOLEAN}
    [] by = "vapor" -> {K("route", [verb |-> "GET", segments |-> <<"a", "b">>, use |-> u]) : u \in {<<>>, <<"c", "h">>}} \union {Blanks}
    [] by = "aspnet" -> {K("routeattr", [path |-> <<"api", "[controller]">>]), K("routeattr", [path |-> <<"v2">>]),
                         K("class", [name |-> <<"my", "account", "controller">>]),
                         In("httpattr", [verb |-> "GET", path |-> <<"list">>]), In("httpattr", [verb |-> "POST", path |-> <<"[action]">>]),
                         In("method", [modifier |-> TRUE, name |-> <<"get", "all">>])}
    [] by = "minimal" -> {K("mapgroup", [var |-> "g", recv |-> "app", path |-> <<"api">>]),
                          K("mapgroup", [var |-> "h", recv |-> "g", path |-> <<"users">>]),
                          In("map", [recv |-> "h", verb |-> "GET", path |-> <<"x">>, name |-> <<"handle">>]),
                          K("map", [recv |-> "app", verb |-> "PUT", path |-> <<"y">>, name |-> <<>>])}
                          \union {K("mapany", [recv |-> "app", path |-> <<"z">>, name |-> <<>>]), K("hub", [path |-> <<"hub">>, name |-> <<"chat">>]),
                                  K("register", [interface |-> <<"i">>, name |-> <<"svc">>]), K("register", [interface |-> <<>>, name |-> <<"svc">>])}
    [] by = "nestjs" -> {Cls("Controller", <<"cats">>, "Cats"), Cls("Controller", <<>>, "Root"), Cls("Resolver", <<>>, "R"),
                         Op("GET", <<"a">>), Op("QUERY", <<>>), Op("MESSAGE", <<"m">>), Op("WS", <<"w">>),
                         K("deco", [nested |-> TRUE, name |-> "s"]), K("deco", [nested |-> FALSE, name |-> "s"]),
                         K("method", [name |-> "list"])}
    [] by = "angular" -> {Comp("Component", {"Item", "NgIf"}), Comp("NgModule", {"Item"}), Comp("Injectable", {}),
                          K("class", [name |-> "A"]), K("class", [name |-> "B"]), K("constructor", [types |-> {"Svc", "string"}]),
                          K("inject", [type |-> "Svc"]), K("view", [type |-> "Item"])}
    [] by = "react" -> {K("function", [name |-> "Card", pascal |-> TRUE, exported |-> TRUE, default |-> d]) : d \in BOOLEAN}
                         \union {K("jsx", [default |-> FALSE, name |-> "x"]), K("hook", [name |-> "useX", exported |-> TRUE, default |-> FALSE]),
                                 K("store", [name |-> "Cart", default |-> FALSE])}

Characters(lang) ==
  CASE lang = "python" -> {"#", "'", "\\", "nl"} [] lang = "ruby" -> {"#", "=begin", "=end", "'", "nl"}
    [] lang \in {"javascript", "java"} -> {"/", "*", "\"", "\\", "nl", "tick"} [] lang = "go" -> {"/", "*", "\"", "tick", "\\"}
    [] lang = "rust" -> {"/", "*", "\"", "\\"} [] lang = "php" -> {"#", "/", "*", "\"", "nl"}

R(path, rooted, component, lazy, first, children) ==
  [path |-> path, rooted |-> rooted, component |-> component, lazy |-> lazy, guards |-> {}, redirect |-> FALSE,
   children |-> children, childrenFirst |-> first]
Leaf == {R(<<"a">>, FALSE, "A", "none", FALSE, <<>>), R(<<"b">>, TRUE, "none", "lazy", FALSE, <<>>),
         [R(<<>>, FALSE, "none", "none", FALSE, <<>>) EXCEPT !.redirect = TRUE, !.guards = {"auth"}]}
Parents(below) ==
  {R(p, FALSE, c, "none", first, b) : p \in {<<"p">>, <<"absent">>}, c \in {"none", "P"}, first \in BOOLEAN, b \in below}
Trees == Leaf \union Parents({<<l>> : l \in Leaf} \union {<<l, m>> : l, m \in Leaf}
                             \union {<<p>> : p \in {R(<<"q">>, FALSE, "Q", "none", FALSE, <<l>>) : l \in Leaf}})

D(p, n) == [p |-> p, n |-> n]
Crate(at, name, deps) == [at |-> <<"crates", at>>, manifest |-> [name |-> name, deps |-> deps]]
Named(w) == [words |-> w, sep |-> "-"]
Dep(w, up, at) == [name |-> Named(w), up |-> up, path |-> <<at>>]

Node(name, kind, at) == [name |-> name, kind |-> kind, at |-> at]

MCPieces(x) ==
  CASE x.of = "strip" -> Characters(x.by)
    [] x.of = "scan" -> Statements(x.by)
    [] x.of = "brackets" -> {"(", ")", "[", "]", "'"}
    [] x.of = "tree" -> Trees
    [] x.of = "place" -> {D("plain", "pages"), D("plain", "routes"), D("plain", "app"), D("plain", "x"), D("param", "id"),
                          D("rest", "all"), D("optional", "lang"), D("plain", "server"), D("plain", "api"),
                          D("plain", "middleware"), D("plain", "composables")}
                           \ (IF x.by = "next" THEN {D("plain", "pages")} ELSE {})
    [] x.of = "crates" -> {Crate(at, n, d) : at \in {"a", "b", "c"}, n \in {Named(<<>>), Named(<<"my", "lib">>)},
                                             d \in {{}, {Dep(<<"a">>, TRUE, "b")}, {Dep(<<"my", "lib">>, TRUE, "x")}, {Dep(<<"c">>, FALSE, "b")}}}
    [] x.of = "rules" -> {Node("N", k, at) : k \in {"class", "function", "component", "struct"},
                                               at \in {{}, {"service"}, {"controller", "own"}, {"entity", "near"}}}
                           \union {Node("m", "method", {"own"}), Node("m", "variable", {"file"}), Node("N", "module", {"pipe"})}
    [] x.of = "detect" -> {[end |-> e, marks |-> m] : e \in {"py", "controller.ts", "java", "Controller.java", "go", "jsx",
                                                             "Controllers/Controller.cs", "lock"},
                                                      m \in {{}, {"django", "express", "spring", "aspnet"}}}

MCLength(x) ==
  CASE x.of = "strip" -> IF x.by \in {"python", "rust"} THEN 7 ELSE 5
    [] x.of = "scan" -> IF x.by = "aspnet" THEN 5 ELSE 4
    [] x.of = "brackets" -> 6
    [] x.of = "tree" -> 1
    [] x.of = "place" -> 4
    [] x.of = "crates" -> 2
    [] x.of = "rules" -> 2
    [] x.of = "detect" -> 3

F(stem, verb, ext, hook) == [stem |-> stem, verb |-> verb, ext |-> ext, hook |-> hook]
MCFileNames ==
  {F(D("plain", "page"), "none", "ts", FALSE), F(D("plain", "index"), "none", "vue", FALSE), F(D("param", "id"), "get", "ts", FALSE),
   F(D("plain", "+page"), "none", "svelte", FALSE), F(D("plain", "+server"), "none", "ts", FALSE), F(D("plain", "useX"), "none", "ts", TRUE)}
MCMetas ==
  {[path |-> <<"none">>, aliases |-> {}, middleware |-> {}], [path |-> <<"/own">>, aliases |-> {<<"/old">>}, middleware |-> {"auth"}]}

Ref(tags, member) == [tags |-> tags, name |-> "N", member |-> member]
MCReferences ==
  {Ref({"service", "pascal", "upper", "name"}, "m"), Ref({"controller", "pascal", "upper", "name", "plain"}, "m"),
   Ref({"handler", "name"}, "m"), Ref({"repository", "pascal", "name"}, "m"), Ref({"at"}, "m"), Ref({"static"}, "m"),
   Ref({"imports"}, "m"), Ref({"controller.m"}, "m"), Ref({"builtin", "rune", "macro"}, "m"), Ref({"contains", "name"}, "m"),
   Ref({"alias", "lib"}, "file"), Ref({"pascal-call"}, "m"), Ref({"context", "pascal"}, "m"), Ref({"pinia", "composable"}, "m"),
   Ref({"router", "get_"}, "m"), Ref({"middleware"}, "m")}
MCRoots ==
  {{}, {[name |-> "package.json", marks |-> {"express", "react"}]}, {[name |-> "go.mod", marks |-> {}], [name |-> "Cargo.toml", marks |-> {"cargo"}]}}
=============================================================================
