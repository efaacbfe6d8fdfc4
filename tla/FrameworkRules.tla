----------------------------- MODULE FrameworkRules -----------------------------
(***************************************************************************)
(* What each framework resolver looks for: the marks by which detect() finds  *)
(* the framework in a project, and the rules by which resolve() picks the     *)
(* node a name refers to.                                                     *)
(*                                                                            *)
(* A reference is a record: tags, what is true of its name and kind; name and *)
(* member, the names looked up for it (member is the part after the last      *)
(* separator, the base of a name, or a file).  A node is a record: name, kind,*)
(* and at, the marks that its path holds.  Nodes are in the order of the name *)
(* cache.                                                                     *)
(***************************************************************************)
LOCAL INSTANCE Integers
LOCAL INSTANCE Sequences
LOCAL INSTANCE SequencesExt

CONSTANT JavaCap       \* how many Java files are read for a mark (20)

(* --- Rules ----------------------------------------------------------------- *)

AnyKind == {"any"}
Callable == {"function", "method"}

\* Prefer: the first node of the kinds in the first directory that has one, or
\* the first of the kinds.  Require: only in a directory.  Convention: as prefer,
\* less sure outside the directory.  Self: the source itself.  Stop: nothing.
Rule(pick, when, of, kinds, dirs, conf) ==
  [pick |-> pick, when |-> when, of |-> of, kinds |-> kinds, dirs |-> dirs, conf |-> conf]
Prefer(when, kinds, dirs, conf) == Rule("prefer", when, "name", kinds, dirs, conf)
Require(when, of, kinds, dirs, conf) == Rule("require", when, of, kinds, dirs, conf)
Convention(suffix) == Rule("convention", {suffix}, "name", {"class"}, <<suffix>>, 85)
Self(when) == Rule("self", when, "name", AnyKind, <<>>, 100)
Stop(when) == Rule("stop", when, "name", AnyKind, <<>>, 0)

DjangoRules ==
  << Prefer({"upper", "model"}, {"class"}, <<"models", "app/models">>, 80),
     Prefer({"view"}, {"class", "function"}, <<"views", "app/views", "api/views">>, 80),
     Prefer({"form"}, {"class"}, <<"forms", "app/forms">>, 80) >>
FlaskRules == << Prefer({"blueprint"}, AnyKind, <<>>, 80) >>
FastApiRules == << Prefer({"router"}, AnyKind, <<>>, 80), Prefer({"get_"}, {"function"}, <<>>, 75) >>
RailsRules ==
  << Rule("require", {"pascal"}, "name", {"class"}, <<"app/models">>, 80),
     Require({"controller"}, "name", {"class"}, <<"controllers">>, 85),
     Prefer({"helper", "service", "job"}, AnyKind, <<>>, 80) >>
LaravelRules ==
  << Require({"at"}, "member", Callable, <<"own">>, 85),
     Require({"static"}, "member", Callable, <<"models-or-own">>, 80),
     Prefer({"static"}, {"class"}, <<>>, 70),
     Prefer({"controller", "imports"}, {"class"}, <<>>, 80),
     Require({"plain"}, "name", Callable, <<"controller">>, 75) >>
ExpressRules ==
  << Prefer({"middleware"}, AnyKind, <<>>, 80),
     Require({"controller.m"}, "member", Callable, <<"own">>, 85),
     Require({"service.m"}, "member", Callable, <<"own">>, 80) >>
NestRules == << Convention("service"), Convention("controller"), Convention("guard") >>
AngularRules ==
  << Stop({"builtin", "imports"}), Convention("service"), Convention("guard"),
     Prefer({"contains"}, {"component"}, <<>>, 90),
     Prefer({"name"}, {"component"}, <<>>, 85),
     Prefer({"name"}, {"module"}, <<>>, 80),
     Require({"name"}, "name", {"class"}, <<"pipe">>, 75),
     Require({"name"}, "name", {"variable", "constant"}, <<"tokens-or-constants">>, 75) >>

SpringFirst == << Prefer({"pascal"}, {"class"}, <<"entity", "model", "domain">>, 70) >>
SpringOwn ==
  << Prefer({"service"}, {"class"}, <<"service">>, 85),
     Prefer({"repository"}, {"class"}, <<"repository">>, 85),
     Prefer({"controller"}, {"class"}, <<"controller">>, 85),
     Prefer({"component"}, {"class"}, <<"component", "config">>, 80) >>
SpringLast == << Prefer({"name"}, Callable, <<>>, 65) >>
SpringRules == SpringOwn \o SpringFirst \o SpringLast

GinRules ==
  << Prefer({"handler"}, Callable, <<"handler", "controller">>, 85),
     Prefer({"service", "repository"}, {"struct", "interface", "function"}, <<"service", "repository">>, 80),
     Prefer({"middleware", "auth"}, Callable, <<"middleware">>, 80),
     Prefer({"pascal"}, {"struct", "class"}, <<"model", "entity">>, 70) >>
AspNetRules ==
  << Prefer({"controller"}, {"class"}, <<"controller">>, 85),
     Prefer({"service", "interface"}, {"class", "interface"}, <<"service", "application">>, 85),
     Prefer({"repository"}, {"class"}, <<"repository", "data">>, 85),
     Prefer({"handler"}, {"class", "function", "method"}, <<"handler", "features">>, 85),
     Prefer({"validator"}, {"class"}, <<"validator">>, 80),
     Prefer({"viewmodel"}, {"class"}, <<"viewmodel", "model">>, 80),
     Prefer({"hub"}, {"class"}, <<"hub">>, 85),
     Prefer({"pascal"}, {"class"}, <<"model", "entity", "domain">>, 70),
     Prefer({"name"}, Callable, <<>>, 65) >>
VaporRules ==
  << Prefer({"controller"}, {"class", "struct"}, <<"controller", "routes">>, 85),
     Prefer({"middleware"}, {"class", "struct"}, <<"middleware">>, 80),
     Prefer({"pascal"}, {"class", "struct"}, <<"model", "entity">>, 75) >>
ReactRules ==
  << Prefer({"pascal"}, {"component", "function", "class"}, <<"near", "components">>, 80),
     Prefer({"hook"}, {"function"}, <<"hooks">>, 85),
     Prefer({"context"}, AnyKind, <<"contexts">>, 80),
     Rule("orelse", {"context"}, "member", AnyKind, <<>>, 80) >>
SvelteRules ==
  << Self({"rune"}),
     Rule("prefer", {"store"}, "member", {"variable", "constant"}, <<>>, 85),
     Self({"virtual"}),
     Rule("prefer", {"lib"}, "file", AnyKind, <<>>, 90),
     Prefer({"pascal-call"}, {"component"}, <<"near">>, 80) >>
VueRules ==
  << Self({"macro", "virtual"}),
     Rule("prefer", {"alias"}, "file", AnyKind, <<>>, 90),
     Prefer({"pascal-call"}, {"component"}, <<"near">>, 80),
     Rule("prefer", {"kebab-call"}, "member", {"component"}, <<"near">>, 75),
     Require({"composable"}, "name", {"function", "variable"}, <<"composables">>, 85),
     Prefer({"pinia"}, {"function", "variable"}, <<>>, 85),
     Prefer({"pinia"}, AnyKind, <<>>, 80),
     Require({"references"}, "name", {"function"}, <<"middleware">>, 85) >>

RulesOf(framework) ==
  CASE framework = "django" -> DjangoRules [] framework = "flask" -> FlaskRules
    [] framework = "fastapi" -> FastApiRules [] framework = "rails" -> RailsRules
    [] framework = "laravel" -> LaravelRules [] framework = "express" -> ExpressRules
    [] framework = "nestjs" -> NestRules [] framework = "angular" -> AngularRules
    [] framework = "spring" -> SpringRules [] framework = "gin" -> GinRules
    [] framework = "aspnet" -> AspNetRules [] framework = "vapor" -> VaporRules
    [] framework = "react" -> ReactRules [] framework = "svelte" -> SvelteRules
    [] framework = "vue" -> VueRules

Unresolved == [to |-> 0, conf |-> 0]
Source == -1

LookedUp(u, r, n) ==
  CASE u.of = "name" -> n.name = r.name
    [] u.of = "member" -> n.name = r.member
    [] u.of = "file" -> r.member \in n.at

Candidates(u, r, nodes) ==
  SelectSeq([i \in DOMAIN nodes |-> i], LAMBDA i : LookedUp(u, r, nodes[i]) /\ (u.kinds = AnyKind \/ nodes[i].kind \in u.kinds))

\* resolve_by_name_kind: the directories in their order.
InDirs(u, found, nodes) ==
  LET dir == SelectInSeq(u.dirs, LAMBDA d : \E i \in DOMAIN found : d \in nodes[found[i]].at)
  IN IF dir = 0 THEN 0 ELSE found[SelectInSeq(found, LAMBDA i : u.dirs[dir] \in nodes[i].at)]

Pick(u, r, nodes) ==
  LET found == Candidates(u, r, nodes)
      inDir == InDirs(u, found, nodes)
      named == \E i \in DOMAIN nodes : nodes[i].name = r.name
  IN CASE u.pick = "self" -> [to |-> Source, conf |-> u.conf]
       [] found = <<>> \/ (u.pick = "require" /\ inDir = 0) \/ (u.pick = "orelse" /\ named) -> Unresolved
       [] inDir # 0 -> [to |-> inDir, conf |-> u.conf]
       [] OTHER -> [to |-> Head(found), conf |-> IF u.pick = "convention" THEN 70 ELSE u.conf]

\* The first rule that applies and finds a node.
Resolve(framework, r, nodes) ==
  LET rules == SelectSeq(RulesOf(framework), LAMBDA u : u.when \intersect r.tags # {})
      at == SelectInSeq(rules, LAMBDA u : u.pick = "stop" \/ Pick(u, r, nodes) # Unresolved)
  IN IF at = 0 \/ rules[at].pick = "stop" THEN Unresolved ELSE Pick(rules[at], r, nodes)

(* --- Detection ------------------------------------------------------------- *)

\* Manifests at the root that must name the framework, files that must exist,
\* endings of known files that are enough, and endings that need a mark.
Marks(manifests, exist, known, scanned) == [manifests |-> manifests, exist |-> exist, known |-> known, scanned |-> scanned]

DjangoMarks == Marks({"requirements.txt", "setup.py", "pyproject.toml"}, {"manage.py"}, {}, {"py"})
FlaskMarks == Marks({"requirements.txt", "pyproject.toml", "app.py", "main.py"}, {}, {}, {})
FastApiMarks == Marks({"requirements.txt", "pyproject.toml", "app.py", "main.py", "api.py"}, {}, {}, {})
RailsMarks == Marks({"Gemfile"}, {"config/application.rb", "config/routes.rb"}, {}, {})
LaravelMarks == Marks({}, {"artisan", "routes/web.php"}, {}, {})
ExpressMarks == Marks({"package.json"}, {}, {}, {"js", "ts", "component.ts", "controller.ts", "jsx"})
NestMarks == Marks({"package.json"}, {}, {}, {"controller.ts"})
AngularMarks == Marks({"package.json"}, {"angular.json"}, {}, {"component.ts"})
SpringMarks == Marks({"pom.xml", "build.gradle"}, {}, {}, {"Controller.java"})
GinMarks == Marks({}, {"go.mod"}, {"go"}, {})
AspNetMarks == Marks({"Program.cs"}, {"Startup.cs"}, {"Controllers/Controller.cs"}, {"cs", "Controllers/Controller.cs"})
VaporMarks == Marks({"Package.swift"}, {}, {}, {"swift"})
ReactMarks == Marks({"package.json"}, {}, {"jsx"}, {})
SvelteMarks == Marks({"package.json"}, {}, {"svelte"}, {})
VueMarks == Marks({"package.json"}, {}, {"vue"}, {})
CargoMarks == Marks({"Cargo.toml"}, {}, {}, {})
MarksOf(framework) ==
  CASE framework = "django" -> DjangoMarks [] framework = "flask" -> FlaskMarks
    [] framework = "fastapi" -> FastApiMarks [] framework = "rails" -> RailsMarks
    [] framework = "laravel" -> LaravelMarks [] framework = "express" -> ExpressMarks
    [] framework = "nestjs" -> NestMarks [] framework = "angular" -> AngularMarks
    [] framework = "spring" -> SpringMarks [] framework = "gin" -> GinMarks
    [] framework = "aspnet" -> AspNetMarks [] framework = "vapor" -> VaporMarks
    [] framework = "react" -> ReactMarks [] framework = "svelte" -> SvelteMarks
    [] framework = "vue" -> VueMarks [] framework = "cargo" -> CargoMarks

JavaEndings == {"java", "Controller.java"}

(* Mutant: the names that promise a mark are looked for among the first files. *)
MarkedEarly(framework, known) ==
  LET read == IF framework = "spring" THEN SubSeq(known, 1, IF Len(known) < JavaCap THEN Len(known) ELSE JavaCap) ELSE known
  IN \E i \in DOMAIN read : read[i].end \in MarksOf(framework).scanned /\ framework \in read[i].marks

\* A known file with an ending that promises it and a mark in its text.
Marked(framework, known) ==
  \E i \in DOMAIN known : known[i].end \in MarksOf(framework).scanned /\ framework \in known[i].marks

\* Of other Java files the first few are read.
MarkedJava(framework, known) ==
  LET java == SelectSeq(known, LAMBDA f : f.end \in JavaEndings)
  IN framework = "spring" /\ \E i \in DOMAIN java : i <= JavaCap /\ framework \in java[i].marks

\* root is the set of files at the root: [name, marks].
Detect(framework, root, known) ==
  \/ \E f \in root : f.name \in MarksOf(framework).manifests /\ framework \in f.marks
  \/ \E f \in root : f.name \in MarksOf(framework).exist
  \/ \E i \in DOMAIN known : known[i].end \in MarksOf(framework).known
  \/ Marked(framework, known)
  \/ MarkedJava(framework, known)
=============================================================================
