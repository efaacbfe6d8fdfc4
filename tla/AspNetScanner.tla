----------------------------- MODULE AspNetScanner -----------------------------
(***************************************************************************)
(* The ASP.NET scanner (csharp.rs): attribute routes with the prefix of       *)
(* their class, minimal API routes with the prefix of their group, hubs, and  *)
(* the registrations of services.  A file is a sequence of statements as in   *)
(* RouteScanners.  A name is the sequence of its words, lower case, and a     *)
(* segment of a path is "[controller]", "[action]" or a string.               *)
(***************************************************************************)
LOCAL INSTANCE Integers
LOCAL INSTANCE Sequences
LOCAL INSTANCE SequencesExt
LOCAL INSTANCE RouteScanners

NoName == <<>>

\* The name of the class without Controller, in one word.
Lower(words) == FoldSeq(LAMBDA w, rest : w \o rest, "", words)
ControllerToken(class) ==
  Lower(IF class # <<>> /\ Last(class) = "controller" THEN Front(class) ELSE class)

\* MyAccount becomes my-account.
PascalToKebab(words) == IF words = <<>> THEN "" ELSE FoldLeft(LAMBDA a, w : a \o "-" \o w, words[1], Tail(words))

ExpandControllerToken(path, class) ==
  [i \in DOMAIN path |-> IF path[i] = "[controller]" THEN ControllerToken(class) ELSE path[i]]
ExpandActionToken(path, method) ==
  [i \in DOMAIN path |-> IF path[i] = "[action]" /\ method # NoName THEN PascalToKebab(method) ELSE path[i]]

\* The [Route] attributes that a class follows: the prefix holds from the class
\* to the next [Route], of a class or of a method.
ClassRoutePrefixes(s) ==
  LET routes == Those(s, "routeattr")
      following(i) == {j \in Those(s, "class") : j > i}
      class(i) == CHOOSE j \in following(i) : \A l \in following(i) : j <= l
      end(i) == IF \E j \in routes : j > i
                THEN CHOOSE j \in routes : j > i /\ \A l \in routes : l > i => j <= l
                ELSE Len(s) + 1
  IN {[from |-> class(i), to |-> end(i), prefix |-> ExpandControllerToken(s[i].path, s[class(i)].name)] :
        i \in {j \in routes : following(j) # {}}}

PrefixAt(s, i) ==
  LET holding == {p \in ClassRoutePrefixes(s) : p.from <= i /\ i < p.to}
  IN IF holding = {} THEN <<>> ELSE (CHOOSE p \in holding : TRUE).prefix

\* The first word, name and parenthesis after a modifier, of any method below.
ActionAfter(s, i) ==
  LET next == SelectInSeq(SubSeq(s, i + 1, Len(s)), LAMBDA t : t.k = "method" /\ t.modifier)
  IN IF next = 0 THEN NoName ELSE s[i + next].name

AttributeRoutes(s) ==
  {LET action == ActionAfter(s, i)
   IN Plainly(Route(Line(s, i), s[i].verb,
                    ExpandActionToken(PrefixAt(s, i), action) \o ExpandActionToken(s[i].path, action)), action) :
     i \in Those(s, "httpattr")}

(* Mutant: a group has its own prefix only.                                  *)
MapGroupPrefixesFlat(s) ==
  FoldLeft(LAMBDA known, t : IF t.k # "mapgroup" \/ t.var \in DOMAIN known THEN known
                             ELSE [v \in DOMAIN known \union {t.var} |-> IF v = t.var THEN t.path ELSE known[v]],
           [v \in {} |-> <<>>], s)

\* var X = P.MapGroup("/p"), in source order: the first one of a variable
\* counts, below the prefix of P if that is known by then.
MapGroupPrefixes(s) ==
  LET full(known, t) == (IF t.recv \in DOMAIN known THEN known[t.recv] ELSE <<>>) \o t.path
  IN FoldLeft(LAMBDA known, t : IF t.k # "mapgroup" \/ t.var \in DOMAIN known THEN known
                                ELSE [v \in DOMAIN known \union {t.var} |-> IF v = t.var THEN full(known, t) ELSE known[v]],
              [v \in {} |-> <<>>], s)

\* A lambda has no name.  A match that starts at a dot is inside its line.
MinimalRoutes(s) ==
  LET prefixes == MapGroupPrefixes(s)
      grouped(i) == s[i].recv \in DOMAIN prefixes
  IN {IF grouped(i) THEN Plainly(Route(Line(s, i), s[i].verb, prefixes[s[i].recv] \o s[i].path), s[i].name)
      ELSE Plainly(Route(i + 1, s[i].verb, s[i].path), s[i].name) : i \in Those(s, "map")}

\* app.Map(..) takes any verb, on app only and without the prefix of a group.
CatchAllRoutes(s) ==
  {Plainly(Route(Line(s, i), "ANY", s[i].path), s[i].name) : i \in {j \in Those(s, "mapany") : s[j].recv = "app"}}

Hubs(s) == {Plainly(Route(i + 1, "HUB", s[i].path), s[i].name) : i \in Those(s, "hub")}

AspNet(s) == AttributeRoutes(s) \union MinimalRoutes(s) \union CatchAllRoutes(s) \union Hubs(s)

\* Add..<I, C>() and Add..<C>(): a reference of the file to C; I is dropped.
Registrations(s) ==
  {[line |-> i + 1, name |-> s[i].name, kind |-> IF s[i].interface = NoName THEN "references" ELSE "implements"] :
     i \in Those(s, "register")}
=============================================================================
