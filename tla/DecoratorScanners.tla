--------------------------- MODULE DecoratorScanners ---------------------------
(***************************************************************************)
(* The scanners that read the decorators of a class: NestJS (nestjs.rs) and   *)
(* Angular (angular.rs).  A file is a sequence of statements as in            *)
(* RouteScanners: decorated classes, decorators of methods, methods.          *)
(***************************************************************************)
LOCAL INSTANCE Integers
LOCAL INSTANCE Sequences
LOCAL INSTANCE SequencesExt
LOCAL INSTANCE RouteScanners

CONSTANTS Window,      \* how many statements make the 500 bytes after a decorator
          BuiltIn,     \* symbols of Angular itself
          TsBuiltin    \* types that are not injected

(* --- NestJS ---------------------------------------------------------------- *)

\* A class is what lies between its decorator and that of the next class.
ScopeOf(s, i) == SelectLastInSeq(SubSeq(s, 1, i), LAMBDA t : t.k = "class")

InA(s, i, dec) == ScopeOf(s, i) # 0 /\ s[ScopeOf(s, i)].dec = dec
ScopePath(s, i, dec) == IF InA(s, i, dec) THEN s[ScopeOf(s, i)].path ELSE <<>>

\* The method below, past other decorators.  Of a decorator whose arguments
\* hold a parenthesis the last letter of its name is read as the method.
MethodNameAfter(s, i) ==
  LET next == SelectInSeq(SubSeq(s, i + 1, Len(s)), LAMBDA t : t.k = "method" \/ (t.k = "deco" /\ t.nested))
  IN IF next = 0 THEN None ELSE s[i + next].name

HttpVerbs == {"GET", "POST", "PUT", "PATCH", "DELETE", "HEAD", "OPTIONS", "ALL"}
GqlOps == {"QUERY", "MUTATION", "SUBSCRIPTION"}
OrUnknown(name) == IF name = None THEN "unknown" ELSE name

HttpRoutes(s) ==
  {Plainly(Route(i, s[i].op, ScopePath(s, i, "Controller") \o s[i].path), OrUnknown(MethodNameAfter(s, i))) :
     i \in {j \in Those(s, "op") : s[j].op \in HttpVerbs /\ InA(s, j, "Controller")}}

\* Without a name of its own the operation has the name of its method.
GraphQlOperations(s) ==
  {LET handler == MethodNameAfter(s, i)
       name == IF s[i].path # <<>> THEN s[i].path ELSE IF handler = None THEN <<>> ELSE <<handler>>
   IN Plainly(Route(i, s[i].op, name), handler) :
     i \in {j \in Those(s, "op") : s[j].op \in GqlOps /\ InA(s, j, "Resolver")}}

\* In any class.
MessageRoutes(s) ==
  {Plainly(Route(i, s[i].op, s[i].path), OrUnknown(MethodNameAfter(s, i))) :
     i \in {j \in Those(s, "op") : s[j].op \in {"MESSAGE", "EVENT"}}}

SocketRoutes(s) ==
  {Plainly(Route(i, "WS", ScopePath(s, i, "WebSocketGateway") \o s[i].path), OrUnknown(MethodNameAfter(s, i))) :
     i \in {j \in Those(s, "op") : s[j].op = "WS"}}

NestJs(s) == HttpRoutes(s) \union GraphQlOperations(s) \union MessageRoutes(s) \union SocketRoutes(s)

(* --- Angular --------------------------------------------------------------- *)

NodeKindOf(dec) ==
  CASE dec \in {"Component", "Directive"} -> "component"
    [] dec \in {"Pipe", "Injectable"} -> "class"
    [] dec = "NgModule" -> "module"

\* The class of a decorator stands near below it; 0 if there is none.
ClassNameAfter(s, i) ==
  LET next == SelectInSeq(SubSeq(s, i + 1, Len(s)), LAMBDA t : t.k = "class")
  IN IF next = 0 \/ next > Window THEN 0 ELSE i + next

Decorated(s) == {i \in Those(s, "decorator") : ClassNameAfter(s, i) # 0}
AngularNode(s, i) == [dec |-> s[i].dec, line |-> i, name |-> s[ClassNameAfter(s, i)].name, kind |-> NodeKindOf(s[i].dec)]
\* A class reaches to the next one.
ClassOf(s, i) == SelectLastInSeq(SubSeq(s, 1, i), LAMBDA t : t.k = "class")

\* The first node with the name of the class that the text at i is in.
Owner(s, i, other(_)) ==
  LET class == ClassOf(s, i)
      named == {j \in Decorated(s) : class # 0 /\ AngularNode(s, j).name = s[class].name}
  IN IF named # {} THEN AngularNode(s, CHOOSE j \in named : \A l \in named : j <= l) ELSE other(class)

FileNode == [dec |-> "file", line |-> 0, name |-> None, kind |-> "file"]
InFile(class) == FileNode

Reference(from, tag, name, kind) == [from |-> from, tag |-> tag, name |-> name, kind |-> kind]
Uses(s, i, tag, names) == {Reference(AngularNode(s, i), tag, n, "uses") : n \in names \ BuiltIn}

\* What the arguments of the decorator name.  The template is scanned for
\* elements and pipes, which may be built in.
DecoratorRefs(s, i, byDefault) ==
  CASE s[i].dec = "Component" ->
         (IF s[i].standalone = "true" \/ (s[i].standalone = "unset" /\ byDefault) THEN Uses(s, i, "", s[i].imports) ELSE {})
           \union {Reference(AngularNode(s, i), "tpl", n, "uses") : n \in s[i].template}
    [] s[i].dec = "NgModule" ->
         {Reference(AngularNode(s, i), "", n, "contains") : n \in s[i].declares \ BuiltIn}
           \union Uses(s, i, "prov", s[i].provides) \union Uses(s, i, "imp", s[i].imports)
    [] OTHER -> {}

\* A class without a decorator gets the id of a node that is never made.
ConstructorRefs(s) ==
  UNION {LET undecorated(class) == [dec |-> "class", line |-> 0, name |-> s[class].name, kind |-> "class"]
         IN {Reference(Owner(s, i, undecorated), "", n, "references") : n \in s[i].types \ TsBuiltin} :
           i \in {j \in Those(s, "constructor") : \E l \in 1..j : s[l].k = "class"}}

InjectRefs(s) ==
  {Reference(Owner(s, i, InFile), "", s[i].type, "references") : i \in {j \in Those(s, "inject") : s[j].type \notin TsBuiltin}}

ViewRefs(s) ==
  {Reference(Owner(s, i, InFile), "", s[i].type, "references") :
     i \in {j \in Those(s, "view") : s[j].type \notin TsBuiltin \union BuiltIn}}

\* References with the same ends are one, of the kind that comes first.
AngularRefs(s, byDefault) ==
  LET declared == UNION {DecoratorRefs(s, i, byDefault) : i \in Decorated(s)}
      injected == ConstructorRefs(s) \union InjectRefs(s) \union ViewRefs(s)
  IN declared \union {r \in injected : ~\E d \in declared : d.from = r.from /\ d.tag = "" /\ d.name = r.name}
=============================================================================
