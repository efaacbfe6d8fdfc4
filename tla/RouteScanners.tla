----------------------------- MODULE RouteScanners -----------------------------
(***************************************************************************)
(* The route scanners of codewiki-resolution for frameworks that name a       *)
(* handler beside the path: FastAPI, Flask, Django, Express, Go, Laravel,     *)
(* Rails, Spring and Vapor.  Each is one regular expression run over the      *)
(* stripped text of a file.                                                   *)
(*                                                                            *)
(* A file is a sequence of statements, one per line: a record whose k says    *)
(* what the statement is and whose ind says whether it is indented.  A path   *)
(* is a sequence of segments, a name a sequence of its dotted parts.          *)
(***************************************************************************)
LOCAL INSTANCE Integers
LOCAL INSTANCE Sequences
LOCAL INSTANCE SequencesExt

None == "none"

\* lines().count() + 1 counts the line an indented match stands on as well.
Line(s, i) == IF s[i].ind THEN i + 1 ELSE i

Route(line, verb, path) == [line |-> line, verb |-> verb, path |-> path]
Found(route, handler, kind) == [route |-> route, handler |-> handler, kind |-> kind]
Plainly(route, handler) == Found(route, handler, "references")

Those(s, k) == {i \in DOMAIN s : s[i].k = k}
FirstAfter(s, i, k) == SelectInSeq(SubSeq(s, i + 1, Len(s)), LAMBDA t : t.k = k) + i

(* --- Python -------------------------------------------------------------- *)

\* The first function after the decorator, whatever stands between.
HandlerAfter(s, i) ==
  IF \E j \in (i + 1)..Len(s) : s[j].k = "def" THEN s[FirstAfter(s, i, "def")].name ELSE None

FastApi(s) ==
  {Plainly(Route(Line(s, i), s[i].verb, s[i].path), HandlerAfter(s, i)) :
     i \in {j \in Those(s, "decorator") : s[j].verb # "ROUTE"}}

\* The function must follow the decorator, with blank lines between at most,
\* and the arguments of the decorator must not hold a parenthesis.
FlaskBinds(s, i) ==
  LET next == SelectInSeq(SubSeq(s, i + 1, Len(s)), LAMBDA t : t.k # "blank")
  IN ~s[i].nested /\ next > 0 /\ s[i + next].k = "def"

Flask(s) ==
  {Plainly(Route(Line(s, i), "GET", s[i].path), HandlerAfter(s, i)) :
     i \in {j \in Those(s, "decorator") : s[j].verb = "ROUTE" /\ FlaskBinds(s, j)}}

\* The handler expression up to its first closing parenthesis:
\* a name, X.as_view(..), a.b(..), f(..), include('m') or include((..)).
HandlerName(e) ==
  CASE e.f = "include" -> [handler |-> e.module, kind |-> "imports"]
    [] e.f \in {"name", "as_view"} -> [handler |-> Last(e.parts), kind |-> "references"]
    [] e.f = "call" /\ Len(e.parts) > 1 -> [handler |-> e.parts[Len(e.parts) - 1], kind |-> "references"]
    [] OTHER -> [handler |-> None, kind |-> "references"]

Django(s) ==
  {LET h == HandlerName(s[i].expr) IN Found(Route(Line(s, i), "", s[i].path), h.handler, h.kind) :
     i \in Those(s, "path")}

(* --- Arguments cut at the first closing parenthesis ----------------------- *)

\* An argument is a name, or a call or function with parameters of its own.
IsName(arg) == arg.f = "name"

\* What stands before a name must be a dot, a comma or the start of the text.
TailOfCut(arg) ==
  LET n == Len(arg.params)
      last == arg.params[n]
  IN CASE IsName(arg) -> Last(arg.parts)
       [] n = 0 -> None
       [] n > 1 \/ Len(last) > 1 -> Last(last)
       [] OTHER -> None

\* The last comma-separated piece of the arguments, up to the first ")".
HandlerOf(args) ==
  LET cut == SelectInSeq(args, LAMBDA a : ~IsName(a))
  IN TailOfCut(args[IF cut = 0 THEN Len(args) ELSE cut])

Express(s) ==
  {Plainly(Route(Line(s, i), s[i].verb, s[i].path), HandlerOf(s[i].args)) :
     i \in {j \in Those(s, "route") : s[j].verb = "USE" => s[j].rooted}}

(* --- Go ------------------------------------------------------------------- *)

Routers == {"r", "router", "app"}

\* Only r.Group("/p", func(v ..)); the last group of a variable counts.
GroupPrefix(s, var) ==
  LET groups == SelectSeq(s, LAMBDA t : t.k = "group" /\ t.recv \in Routers /\ t.var = var)
  IN IF groups = <<>> THEN <<>> ELSE Last(groups).prefix

NormaliseVerb(verb) == IF verb \in {"HANDLE", "HANDLEFUNC"} THEN "ANY" ELSE verb

Gin(s) ==
  {Plainly(Route(Line(s, i), NormaliseVerb(s[i].verb), GroupPrefix(s, s[i].recv) \o s[i].path), HandlerOf(s[i].args)) :
     i \in Those(s, "route")}

(* --- PHP and Ruby --------------------------------------------------------- *)

\* [C::class, 'm'], 'C@m', C::class, a closure, or no handler at all.
LaravelHandler(h) ==
  CASE h.f \in {"tuple", "at"} -> [handler |-> h.method, kind |-> "references"]
    [] h.f = "class" -> [handler |-> h.class, kind |-> "imports"]
    [] OTHER -> [handler |-> None, kind |-> "references"]

Laravel(s) ==
  {LET h == LaravelHandler(s[i].h) IN Found(Route(Line(s, i), s[i].verb, s[i].path), h.handler, h.kind) :
     i \in Those(s, "route") \union Those(s, "resource")}

\* verb 'path', to: 'c#a'  and  verb 'path' => 'c#a'; the controller is dropped.
Rails(s) ==
  {Plainly(Route(Line(s, i), s[i].verb, s[i].path), s[i].action) :
     i \in {j \in Those(s, "route") : s[j].f \in {"to", "arrow"}}}

(* --- Java and Swift -------------------------------------------------------- *)

AnnotationToMethod(a) ==
  CASE a = "GetMapping" -> "GET" [] a = "PostMapping" -> "POST" [] a = "PutMapping" -> "PUT"
    [] a = "PatchMapping" -> "PATCH" [] a = "DeleteMapping" -> "DELETE" [] OTHER -> "ANY"

\* What reads as a method: a modifier, a word, a name and a parenthesis.  A
\* field with "= new X(" does, a method without modifier does not.
ReadsAsMethod(t) == t.k \in {"method", "fieldnew"} /\ t.modifier

SpringHandler(s, i) ==
  LET next == SelectInSeq(SubSeq(s, i + 1, Len(s)), ReadsAsMethod)
  IN IF next = 0 THEN None ELSE s[i + next].name

Spring(s) ==
  {Plainly(Route(Line(s, i), AnnotationToMethod(s[i].verb), s[i].path), SpringHandler(s, i)) :
     i \in {j \in Those(s, "mapping") : s[j].path # <<>>}}

\* The quoted arguments make the path, use: names the handler, if both stand
\* before the first closing parenthesis.
Vapor(s) ==
  {Plainly(Route(Line(s, i), s[i].verb, s[i].segments), IF s[i].use = <<>> THEN None ELSE Last(s[i].use)) :
     i \in Those(s, "route")}

Routes(framework, s) ==
  CASE framework = "fastapi" -> FastApi(s) [] framework = "flask" -> Flask(s)
    [] framework = "django" -> Django(s) [] framework = "express" -> Express(s)
    [] framework = "gin" -> Gin(s) [] framework = "laravel" -> Laravel(s)
    [] framework = "rails" -> Rails(s) [] framework = "spring" -> Spring(s)
    [] framework = "vapor" -> Vapor(s)
=============================================================================
