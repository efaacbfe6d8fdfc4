---------------------------- MODULE FrameworkSystem ----------------------------
(***************************************************************************)
(* The framework resolvers over the texts they meet, and the routes of a      *)
(* project in its index.  A behaviour either grows one sample, a step for     *)
(* each character, statement, directory or file, and what a resolver makes of *)
(* it follows from the sample; or it is a project whose files change and are  *)
(* indexed.                                                                   *)
(***************************************************************************)
EXTENDS RouteManifests, Sequences, SequencesExt, CommentStripper, CargoWorkspace

CONSTANTS Samples,         \* what may grow: [of, by], the kind of sample and its framework or language
          Pieces(_),       \* what a sample grows by
          Length(_),       \* bound on the length of a sample
          Window, BuiltIn, TsBuiltin, JavaCap

Scan == INSTANCE RouteScanners
Net == INSTANCE AspNetScanner
Deco == INSTANCE DecoratorScanners
Tree == INSTANCE RouterConfigs
Place == INSTANCE FileRoutes
Rules == INSTANCE FrameworkRules

VARIABLE sample            \* [of, by, text], or NoSample in a project
vars == <<sample, projectVars>>

NoSample == [of |-> "none", by |-> "none", text |-> <<>>]

Init ==
  /\ ProjectInit
  /\ sample \in {[of |-> x.of, by |-> x.by, text |-> <<>>] : x \in Samples} \union {NoSample}

Grow ==
  /\ sample # NoSample
  /\ Len(sample.text) < Length(sample)
  /\ \E x \in Pieces(sample) : sample' = [sample EXCEPT !.text = Append(@, x)]
  /\ UNCHANGED projectVars

InProject ==
  /\ sample = NoSample
  /\ ProjectNext
  /\ UNCHANGED sample

Next == Grow \/ InProject
Spec == Init /\ [][Next]_vars

-----------------------------------------------------------------------------
(* What the framework resolvers promise of what they find.                    *)

CONSTANTS FileNames,      \* names of files of file-based routers
          Metas,          \* what definePageMeta may say
          References,     \* names that resolvers are asked for
          Roots           \* files at the root of a project

text == sample.text
Is(of) == sample.of = of
By(frameworks) == sample.of = "scan" /\ sample.by \in frameworks
FileAt(dirs, name) ==
  [dirs |-> dirs, stem |-> name.stem, verb |-> name.verb, ext |-> name.ext, hook |-> name.hook]

PlaceRoute(by, f) ==
  CASE by = "nuxt" -> {r.path : r \in Place!Nuxt(f, [path |-> Place!NoRoute, aliases |-> {}, middleware |-> {}]).routes}
    [] by = "svelte" -> {r.path : r \in Place!SvelteKit(f, {})}
    [] by = "next" -> {Place!NextRoute(f)} \ {Place!NoRoute}

Members == {text[i].at : i \in DOMAIN text}
Manifests == [m \in Members |-> text[CHOOSE i \in DOMAIN text : text[i].at = m].manifest]

ScannedOK ==
  LET found == CASE sample.by \in {"aspnet", "minimal"} -> Net!AspNet(text)
                 [] sample.by = "nestjs" -> Deco!NestJs(text)
                 [] sample.by \in {"angular", "react"} -> {}
                 [] OTHER -> Scan!Routes(sample.by, text)
  IN /\ \A r \in found : r.route.line \in 1..(Len(text) + 1)
     /\ sample.by = "minimal" => \A r \in Net!Registrations(text) : r.kind \in {"references", "implements"}
     /\ sample.by = "angular" =>
          \A d \in BOOLEAN : \A r \in Deco!AngularRefs(text, d) : r.kind \in {"uses", "contains", "references"}
     /\ sample.by = "react" =>
          /\ \A c \in Place!ReactComponents(text, Window) \union Place!ReactHooks(text) : c.exported \in BOOLEAN
          /\ Cardinality(Place!PiniaStores(text)) <= Len(text)
          /\ \A n \in FileNames : Cardinality(Place!ReactRoutes(FileAt(<<Place!Plain("pages")>>, n), text)) <= 1

PlacedOK ==
  \A n \in FileNames :
    LET f == FileAt(text, n)
    IN /\ \A m \in Metas : Place!InPages(f) => m.aliases \subseteq {r.path : r \in Place!Nuxt(f, m).routes}
       /\ Cardinality(Place!NuxtMiddleware(f)) <= 1 /\ Place!Composables(f) \subseteq {n.stem.n}
       /\ \A e \in {{}, {"get", "post"}} : Cardinality(Place!SvelteKit(f, e)) <= 2

CratesOK ==
  LET known == {<<"crates", m>> : m \in {"a", "b"}}
      globs == ExpandGlobMembers({[glob |-> TRUE, path |-> <<"crates">>]}, {Append(k, "Cargo.toml") : k \in known})
  IN /\ globs = known
     /\ \A c \in Crates(Members, Manifests) : ResolveCrate(Members, Manifests, Underscored(c), {Dashed(c)}) = {Dashed(c)}

(* The scanners find routes on lines of the file, references of known kinds,   *)
(* and no more files, stores or members than there are.                      *)
TypeOK ==
  /\ sample # NoSample => Len(text) <= Length(sample)
  /\ Is("strip") => Blanked(sample.by, text) \subseteq DOMAIN text
  /\ Is("scan") => ScannedOK
  /\ Is("place") => PlacedOK
  /\ Is("crates") => CratesOK
  /\ disk \in [Files -> Texts \union {NoText}] /\ indexed \in [Files -> Texts \union {NoText}]
  /\ routes \subseteq Files \X Paths /\ todo \subseteq Files /\ raced \subseteq Files
  /\ manifests \in [Files -> (1..Cardinality(Paths)) \union {NoManifest}]

(* --- Text ----------------------------------------------------------------- *)

Pair(i, a, b) == i < Len(text) /\ text[i] = a /\ text[i + 1] = b
Line == {"#", "//"}
Marker(lang, i) ==
  CASE Pair(i, "/", "*") /\ lang \notin {"python", "ruby"} -> "/*"
    [] Pair(i, "/", "/") /\ lang \notin {"python", "ruby"} -> "//"
    [] text[i] = "#" /\ lang \in {"python", "ruby", "php"} -> "#"
    [] text[i] = "\"" -> "\""
    [] text[i] = "'" /\ lang \notin {"java", "go", "rust"} -> "'"
    [] OTHER -> "code"
Step(lang, was, i) ==
  CASE was.in = "code" -> LET m == Marker(lang, i) IN [in |-> m, skip |-> m \in {"/*", "//"}]
    [] was.skip -> [was EXCEPT !.skip = FALSE]
    [] was.in \in Line -> IF text[i] = "nl" THEN [in |-> "code", skip |-> FALSE] ELSE was
    [] was.in = "/*" -> IF Pair(i, "*", "/") THEN [in |-> "closing", skip |-> FALSE] ELSE was
    [] was.in = "closing" -> [in |-> "code", skip |-> FALSE]
    [] text[i] = "\\" -> [was EXCEPT !.skip = TRUE]
    [] text[i] = was.in \/ (text[i] = "nl" /\ lang # "rust") -> [in |-> "code", skip |-> FALSE]
    [] OTHER -> was
\* Where a reader of one character at a time is after each of them.
States ==
  LET read[i \in 0..Len(text)] == IF i = 0 THEN [in |-> "code", skip |-> FALSE] ELSE Step(sample.by, read[i - 1], i)
  IN [i \in DOMAIN text |-> [was |-> read[i - 1].in, is |-> read[i].in]]
Comments == Line \union {"/*", "closing"}
\* Nested comments and what triple quotes or backquotes hold is read otherwise.
Simple ==
  /\ ~\E i \in DOMAIN text : Triple(text, i) \/ text[i] \in {"tick", "=begin", "=end"}
  /\ sample.by = "rust" => Cardinality({i \in DOMAIN text : Pair(i, "/", "*")}) <= 1

(* A comment is blanked and nothing else is: a marker inside a string opens no  *)
(* comment, a quote inside a comment opens no string, an escaped quote does not *)
(* close one, and a line keeps its end.  Rust strings are blanked as well.   *)
CommentsBlanked ==
  Is("strip") /\ Simple /\ text # <<>> /\ States[Len(text)].is \notin {"/*", "closing"} =>
    \A i \in DOMAIN text :
      LET at == States[i]
          comment == at.was \in Comments \/ at.is \in Comments
          string == sample.by = "rust" /\ (at.was = "\"" \/ at.is = "\"")
      IN StripComments(sample.by, text)[i] = IF text[i] # "nl" /\ (comment \/ string) THEN " " ELSE text[i]

(* The closer that read_balanced returns closes what it started with: what is   *)
(* between, strings aside, has as many openers as closers, and closes nowhere   *)
(* before if closers of other kinds do not come in.                           *)
BalancedCloses ==
  Is("brackets") /\ text # <<>> /\ text[1] = "(" =>
    LET end == Tree!ReadBalanced(text, 1, ")")
        quoted == {i \in 1..end : Cardinality({p \in 1..(i - 1) : text[p] \in Tree!Quotes}) % 2 = 1}
        depth(i) == Cardinality({j \in 1..i : text[j] \in Tree!Openers /\ j \notin quoted})
                      - Cardinality({j \in 1..i : text[j] \in Tree!Closers /\ j \notin quoted})
    IN end # Tree!Unbalanced => 
         /\ depth(end) = 0 /\ text[end] = ")"
         /\ (\A i \in 1..end : text[i] \in Tree!Closers \ {")"} => i \in quoted) => \A i \in 1..(end - 1) : depth(i) > 0

(* --- Handlers and prefixes ------------------------------------------------- *)

Owns(i, j, kinds) == i < j /\ \A l \in (i + 1)..(j - 1) : text[l].k \in kinds
Handled(found, line, name) == \A r \in found : r.route.line = line => r.handler = name
Plainly(i) == ~text[i].ind

(* The handler of a route is the function that its decorator stands on, past    *)
(* blank lines and decorators of other kinds, and never that of another route.*)
HandlersDecorated ==
  /\ By({"fastapi"}) => \A i, j \in DOMAIN text :
       Plainly(i) /\ text[i].k = "decorator" /\ text[j].k = "def" /\ Owns(i, j, {"decorator", "blank"})
         => Handled(Scan!FastApi(text), i, text[j].name)
  /\ By({"flask"}) => \A i, j \in DOMAIN text :
       Plainly(i) /\ text[i].k = "decorator" /\ text[i].verb = "ROUTE" /\ text[j].k = "def" /\ Owns(i, j, {"blank"}) /\ ~text[i].nested
         => (\E r \in Scan!Flask(text) : r.route.line = i) /\ Handled(Scan!Flask(text), i, text[j].name)
  /\ By({"spring"}) => \A i, j \in DOMAIN text :
       Plainly(i) /\ text[i].k = "mapping" /\ text[j].k = "method" /\ text[j].modifier /\ Owns(i, j, {"mapping"})
         => Handled(Scan!Spring(text), i, text[j].name)
  /\ By({"nestjs"}) => \A i, j \in DOMAIN text :
       text[i].k = "op" /\ text[j].k = "method" /\ Owns(i, j, {"op", "deco"})
         /\ ~(\E l \in i..j : text[l].k = "deco" /\ text[l].nested)
         => Handled(Deco!NestJs(text), i, text[j].name)

(* Of the arguments of a route the last is its handler.  A middleware before it *)
(* is never taken for the handler, whatever the handler is written as.        *)
LastArgumentHandles ==
  By({"express", "gin"}) =>
    \A i \in DOMAIN text :
      text[i].k = "route" /\ (\A a \in DOMAIN text[i].args : a < Len(text[i].args) => Scan!IsName(text[i].args[a])) =>
        LET final == Last(text[i].args)
            handler == Scan!HandlerOf(text[i].args)
        IN IF Scan!IsName(final) THEN handler = Last(final.parts)
           ELSE \A a \in 1..(Len(text[i].args) - 1) : handler # Last(text[i].args[a].parts)

Groups(kind) == {i \in DOMAIN text : text[i].k = kind}
Once(kind) == \A i, j \in Groups(kind) : text[i].var = text[j].var => i = j
Names(kind) == {text[i].var : i \in Groups(kind)}
Prefix(kind, x, field(_)) ==
  LET full[i \in 0..Len(text)] ==
        IF i = 0 THEN <<>>
        ELSE LET up == {j \in Groups(kind) : j < i /\ text[j].var = text[i].recv}
             IN full[IF up = {} THEN 0 ELSE CHOOSE j \in up : TRUE] \o field(text[i])
  IN full[x]

(* A route has the prefixes of all the groups it is in, from the outside in: in *)
(* a minimal API groups stand in groups, made before they are used; in Go they *)
(* stand on the router.  (A name that is used for two groups has one prefix.) *)
GroupsCompose ==
  /\ By({"minimal"}) /\ Once("mapgroup")
       /\ (\A i, j \in Groups("mapgroup") : text[i].recv = text[j].var => j < i) =>
       \A i \in Groups("map") : (\A j \in Groups("mapgroup") : text[j].var = text[i].recv => j < i) =>
         \E r \in Net!MinimalRoutes(text) :
           r.route.line \in {i, i + 1} /\ r.route.path = Prefix("mapgroup", i, LAMBDA t : t.path)
  /\ By({"gin"}) /\ Once("group") =>
       \A i \in Groups("route") : \A j \in Groups("group") : text[j].var = text[i].recv /\ text[j].recv \in Scan!Routers =>
         \E r \in Scan!Gin(text) : r.route.line \in {i, i + 1} /\ r.route.path = text[j].prefix \o text[i].path

(* A method has the prefix of the class it stands in: where each class has its   *)
(* own prefix, or says that it has none, no class takes that of another.      *)
PrefixesOwn ==
  /\ By({"aspnet"}) /\ (\A i \in DOMAIN text : text[i].k = "class" <=> i > 1 /\ text[i - 1].k = "routeattr") =>
       \A r \in Net!AttributeRoutes(text) : \A c \in Groups("class") :
         LET i == r.route.line - 1
         IN c < i /\ ~(\E l \in (c + 1)..i : text[l].k = "class")
              => IsPrefix(Net!ExpandControllerToken(text[c - 1].path, text[c].name), r.route.path)
  /\ By({"nestjs"}) =>
       \A r \in Deco!HttpRoutes(text) : \E c \in 1..r.route.line :
         /\ text[c].k = "class" /\ text[c].dec = "Controller" /\ ~\E l \in (c + 1)..r.route.line : text[l].k = "class"
         /\ r.route.path = text[c].path \o text[r.route.line].path

(* What a class injects is the reference of that class: the node that a         *)
(* constructor's types are referred from has the name of its class.           *)
InjectionsOwned ==
  By({"angular"}) =>
    \A i \in DOMAIN text : text[i].k = "constructor" =>
      LET c == SelectLastInSeq(SubSeq(text, 1, i), LAMBDA t : t.k = "class")
      IN c # 0 => \A n \in text[i].types \ TsBuiltin : \E r \in Deco!ConstructorRefs(text) : r.name = n /\ r.from.name = text[c].name

(* --- Routes from objects and places ----------------------------------------- *)

RECURSIVE Routed(_, _)
\* The paths from the root to each object that has one.
Routed(rs, prefix) ==
  UNION {LET full == IF r.path = Tree!Absent THEN prefix ELSE IF r.rooted THEN r.path ELSE prefix \o r.path
         IN (IF r.path = Tree!Absent THEN {} ELSE {full}) \union Routed(r.children, full) : r \in ToSet(rs)}

RECURSIVE PathsFirst(_)
PathsFirst(rs) == \A i \in DOMAIN rs : rs[i].path # Tree!Absent /\ ~rs[i].childrenFirst /\ PathsFirst(rs[i].children)

Found(by) == IF by = "vue" THEN Tree!VueRoutes(text, <<>>) ELSE Tree!AngularRoutes(text, <<>>)

(* Nested routes are found at the paths they are served at: a relative path is  *)
(* below its parent's and an absolute one replaces it, when each object has    *)
(* its path before its children.                                              *)
RoutesNested ==
  Is("tree") /\ PathsFirst(text) =>
    {f.path : f \in ToSet(Found(sample.by))} = Routed(text, <<>>)

(* Two files of the same name in different directories below the one that marks *)
(* routes have different routes, wherever else the mark is a directory's name. *)
PlacesDistinct ==
  Is("place") =>
    \A n \in FileNames : \A i \in DOMAIN text :
      LET mark == CASE sample.by = "nuxt" -> "pages" [] sample.by = "svelte" -> "routes" [] OTHER -> "app"
          f == FileAt(text, n)
          g == FileAt(RemoveAt(text, i), n)
          first == SelectInSeq(text, LAMBDA d : d.n = mark)
      IN first # 0 /\ i > first /\ n.stem.n # "index" /\ PlaceRoute(sample.by, f) # {}
           => PlaceRoute(sample.by, f) # PlaceRoute(sample.by, g)

(* A path dependency on a sibling is an edge to the crate at that path, whatever *)
(* its manifest or the dependency calls it.                                   *)
SiblingsLinked ==
  Is("crates") =>
    \A m \in Members : \A d \in Manifests[m].deps :
      LET at == Front(m) \o d.path
      IN d.up /\ at \in Members => <<PackageName(Manifests, m), PackageName(Manifests, at)>> \in Dependencies(Members, Manifests)

(* --- Rules ------------------------------------------------------------------ *)

Conventional == {"spring", "gin", "aspnet", "vapor", "nestjs"}
Broad == {"pascal", "name"}

(* A name that says what it is is resolved where such things are: if just one   *)
(* candidate of a rule for its ending is in that rule's directories, it is      *)
(* chosen, and the rule for any capitalised name does not come before.        *)
ConventionWins ==
  Is("rules") /\ sample.by \in Conventional =>
    \A r \in References :
      LET own(u) == u.when \intersect r.tags # {} /\ u.when \intersect Broad = {}
          rules == {u \in ToSet(Rules!RulesOf(sample.by)) : own(u)}
          inDir(u) == {i \in ToSet(Rules!Candidates(u, r, text)) : ToSet(u.dirs) \intersect text[i].at # {}}
      IN \A u \in rules : Cardinality(rules) = 1 /\ Cardinality(inDir(u)) = 1
           => Rules!Resolve(sample.by, r, text) = [to |-> CHOOSE i \in inDir(u) : TRUE, conf |-> u.conf]

(* A framework is detected by what is in the project and not by how much else   *)
(* is: a file more never hides it, except that of Java files whose name         *)
(* promises nothing the first few are read.                                   *)
DetectionGrows ==
  Is("detect") =>
    \A root \in Roots : \A i \in DOMAIN text :
      Rules!Detect(sample.by, root, RemoveAt(text, i))
        /\ (sample.by = "spring" => ~Rules!MarkedJava("spring", RemoveAt(text, i)) \/ Rules!Marked("spring", RemoveAt(text, i)))
        => Rules!Detect(sample.by, root, text)

-----------------------------------------------------------------------------
(* The properties above, by what they are about. *)

(* What the scanners read is the text as its language reads it.                *)
TextsRead == CommentsBlanked /\ BalancedCloses

(* A route is found where it is declared, with its whole path and its own        *)
(* handler, and an injection with its own class.                             *)
RoutesFound ==
  /\ TypeOK
  /\ HandlersDecorated /\ LastArgumentHandles
  /\ GroupsCompose /\ PrefixesOwn /\ InjectionsOwned
  /\ RoutesNested /\ PlacesDistinct

(* The rules of the frameworks and of Cargo hold whatever else a project has.   *)
RulesHold == ConventionWins /\ DetectionGrows /\ SiblingsLinked
=============================================================================
