-------------------------- MODULE ReferenceResolver --------------------------
(***************************************************************************)
(* resolve_one (codewiki-resolution/src/resolver.rs): what a reference of    *)
(* the index resolves to, over the nodes that warm_caches found.  A project   *)
(* is the sequence of its files, each with its nodes in source order; the     *)
(* scan that fills the indexes returns the nodes in the order their files     *)
(* were stored.                                                             *)
(***************************************************************************)
EXTENDS NameMatching, StructuralInterfaces

CONSTANTS
  Block,        \* file -> its nodes, the file's own node first
  Asked,        \* the references asked for
  MaxFiles,     \* bound: files of a project
  Imports,      \* file -> the imports in its text, [local, original]
  Language,     \* file extension -> language_from_file_path
  Builtin,      \* language -> names taken for built in
  BuiltinStem,  \* language -> receivers whose members are taken for built in
  PythonMethod, \* python_builtin_methods
  GoProjects,   \* projects of Go declarations
  SelfName      \* names that a framework resolver answers with the referrer

(* Every file has a node of its own, named as the file; node ids are unique,    *)
(* as the primary key of the table makes them.                              *)
NodesIn(f) == {Block[f][i] : i \in DOMAIN Block[f]}
ProjectAssumption ==
  /\ MaxFiles \in Nat
  /\ \A f \in DOMAIN Block :
       /\ Block[f] \in Seq(NodesIn(f)) \ {<<>>}
       /\ Block[f][1].name = FileName(f)
       /\ \A n \in NodesIn(f) : n.file = f /\ n.line \in Nat /\ n.exported \in BOOLEAN
  /\ \A f, g \in DOMAIN Block : \A i \in DOMAIN Block[f], j \in DOMAIN Block[g] :
       Block[f][i].id = Block[g][j].id => f = g /\ i = j
ASSUME ProjectAssumption

(* A qualified name ends in the name, behind the scopes of a declaration or the  *)
(* directories of a file; only those of routes ("app.ts::GET:/users") do not.   *)
Separators(name) == {i \in DOMAIN name : name[i] \in {".", "::"}}
QnameAssumption ==
  \A f \in DOMAIN Block : \A n \in NodesIn(f) :
    \/ n.name \in {After(n.qname, LastAt(n.qname, "::")), FileName(n.qname)}
    \/ Cardinality(Separators(n.qname)) > 1
ASSUME QnameAssumption

(* A reference comes from a node of its file, and has a name.                *)
AskedAssumption ==
  \A r \in Asked : /\ r.name \in Seq(ToSet(r.name)) \ {<<>>} /\ r.line \in Nat /\ r.file \in DOMAIN Block
                   /\ r.from \in {n.id : n \in NodesIn(r.file)}
ASSUME AskedAssumption

(* A package of Go declares an interface once.                              *)
GoAssumption ==
  \A go \in GoProjects :
    /\ \A d \in go : d.what = "interface" => d.methods \subseteq Method
    /\ \A d \in go : d.what = "method" => d.method \in Method
    /\ \A d, e \in go : d.what = "interface" /\ e.what = "interface"
                         /\ DirOf(d) = DirOf(e) /\ d.type = e.type => d = e
ASSUME GoAssumption

VARIABLES files, ask, answer
asks == <<files, ask, answer>>

Scan(fs) ==
  UNION {{[at |-> <<i, j>>, node |-> Block[fs[i]][j]] : j \in DOMAIN Block[fs[i]]} :
           i \in DOMAIN fs}
NodesOf(scan) == {e.node : e \in scan}
KnownNames(scan) == {n.name : n \in NodesOf(scan)}

LanguageOf(ref) == Language[Last(ref.file)]

IsBuiltinOrExternal(scan, ref) ==
  LET name == ref.name
      lang == LanguageOf(ref)
      dot == At(name, ".")
      stem == Before(name, dot)
  IN \/ name \in Builtin[lang]
     \/ dot > 0 /\ stem \in BuiltinStem[lang]
     \/ /\ lang = "python" /\ dot > 0
        /\ After(name, dot) \in PythonMethod
        /\ Capitalized(stem) \notin KnownNames(scan)

(* Mutant: of a name with a separator only the receiver is looked up. *)
HasReceiverMatch(scan, name) ==
  LET cut(sep) == IF Has(name, sep) THEN {Before(name, At(name, sep))} ELSE {}
  IN ({name, FileName(name)} \union cut(".") \union cut("::")) \intersect KnownNames(scan) # {}

HasAnyPossibleMatch(scan, name) ==
  LET known == KnownNames(scan)
      Sides(sep) == IF Has(name, sep)
                    THEN {Before(name, At(name, sep)), After(name, At(name, sep))} ELSE {}
      receiver == Before(name, At(name, "."))
      capital == IF receiver = <<>> THEN {} ELSE {Capitalized(receiver)}
  IN ({name, FileName(name)} \union Sides(".") \union Sides("::") \union capital)
        \intersect known # {}

(* ResolverCaches::new leaves every cache empty, and no code fills file_cache *)
(* (nor name_cache and node_cache, which the framework resolvers look in).    *)
FileCache == {}

Mappings(ref) == IF ref.file \in FileCache THEN Imports[ref.file] ELSE {}

MatchesAnyImport(ref) ==
  \E m \in Mappings(ref) : m.local = ref.name \/ IsPrefix(m.local \o <<".">>, ref.name)

ResolveViaImport(scan, ref) ==
  LET hits == {m \in Mappings(ref) : m.local = ref.name}
      original == (CHOOSE m \in hits : TRUE).original
      exported == {e \in Named(scan, original) : e.node.exported}
  IN IF hits = {} THEN NoMatch
     ELSE OrElse(FirstOf(exported, 180), FirstOf(Named(scan, ref.name), 140))

(* all_resolvers: every framework resolver is asked, detected or not.  What   *)
(* they can answer without a cache is the referrer itself, for the names of   *)
(* Vue macros, Nuxt imports and Svelte runes.                                *)
FrameworkAnswers(ref) == ref.name \in SelfName

ResolveViaNameMatcher(scan, ref) ==
  LET sure(m) == IF m.conf < 60 THEN NoMatch ELSE m IN sure(MatchReference(scan, ref))

Unresolved == [target |-> 0, conf |-> 0]
Edge(match) == [target |-> match.node.id, conf |-> match.conf]

(* Of equal confidence the last candidate, the name matcher's, is taken.      *)
Strategies(scan, ref, import, named) ==
  IF \/ IsBuiltinOrExternal(scan, ref)
     \/ ~HasAnyPossibleMatch(scan, ref.name) /\ ~MatchesAnyImport(ref) THEN Unresolved
  ELSE IF FrameworkAnswers(ref) THEN [target |-> ref.from, conf |-> 200]
  ELSE IF import.conf >= 180 THEN Edge(import)
  ELSE IF named # NoMatch /\ named.conf >= import.conf THEN Edge(named)
  ELSE IF import # NoMatch THEN Edge(import) ELSE Unresolved

ResolveIn(scan, ref) ==
  Strategies(scan, ref, ResolveViaImport(scan, ref), ResolveViaNameMatcher(scan, ref))

ResolveOne(fs, ref) == ResolveIn(Scan(fs), ref)

NoAsk == [name |-> <<>>]

Init == files = <<>> /\ ask = NoAsk /\ answer = Unresolved

(* A file of the project is stored.                                          *)
Store ==
  /\ ask = NoAsk /\ Len(files) < MaxFiles
  /\ \E f \in DOMAIN Block \ ToSet(files) : files' = Append(files, f)
  /\ UNCHANGED <<ask, answer>>

(* A reference of a stored file is resolved.                                 *)
Resolve ==
  /\ ask = NoAsk
  /\ \E r \in Asked : r.file \in ToSet(files) /\ ask' = r /\ answer' = ResolveOne(files, r)
  /\ UNCHANGED files

Return == ask # NoAsk /\ ask' = NoAsk /\ answer' = Unresolved /\ UNCHANGED files

(* The pass over Go sources that resolution runs once over a whole project.   *)
SynthesizeStructural ==
  /\ ask = NoAsk /\ files = <<>>
  /\ \E go \in GoProjects : ask' = [name |-> <<>>, go |-> go] /\ answer' = Synthesize(go)
  /\ UNCHANGED files

Next == Store \/ Resolve \/ SynthesizeStructural \/ Return

Spec == Init /\ [][Next]_asks

-----------------------------------------------------------------------------
(* What reference resolution promises, whatever the project.                *)

AskedNode == ask # NoAsk /\ ask.name # <<>>
AskedGo == ask # NoAsk /\ ask.name = <<>>

(* The table of languages and the table of groups agree for the file; .mjs,   *)
(* .cjs, .pyi, .pyw and .kts are in the first only.                          *)
KnownExtension(ref) == \A n \in NodesIn(ref.file) : SpeaksOf(n, ref)

(* Variables keep their types: an answer names a node of the stored files,    *)
(* with a confidence.                                                      *)
TypeOK ==
  /\ files \in Seq(DOMAIN Block) /\ Len(files) <= MaxFiles
  /\ AskedNode => /\ ask \in Asked
                  /\ answer.conf \in 0..200
                  /\ answer.conf > 0 => answer.target \in {n.id : n \in NodesOf(Scan(files))}
  /\ AskedGo => \A e \in answer : e.conf \in {110, 150} /\ {e.from, e.to} \subseteq ask.go

(* "Same file: strongest signal": of several nodes with the referenced name,  *)
(* one in the file of the reference is taken before one in any other file,    *)
(* and one in its language before one in any other, whatever their kinds,      *)
(* visibility and places.                                                  *)
NearestWins ==
  AskedNode /\ KnownExtension(ask) /\ Tier(Scan(files), ask) = 4 /\ answer.conf \in 60..180 =>
    LET cands == {n \in NodesOf(Scan(files)) : n.name = ask.name}
        chosen == CHOOSE n \in cands : n.id = answer.target
    IN /\ (\E n \in cands : n.file = ask.file) => chosen.file = ask.file
       /\ (\E n \in cands : SpeaksOf(n, ask)) => SpeaksOf(chosen, ask)

(* The pre-filter of known names drops no reference that the name matcher     *)
(* would have found by path, qualified name, receiver or name, when the name   *)
(* has one separator at most.  (A fuzzy match, a file without its extension    *)
(* and "a.b.c" are dropped.)                                                *)
PrefilterKeeps ==
  AskedNode =>
    LET scan == Scan(files)
    IN \/ Cardinality(Separators(ask.name)) > 1
       \/ Tier(scan, ask) \in {5, 6}
       \/ /\ Tier(scan, ask) = 1
          /\ \A f \in Paths(scan) : FileName(f) # FileName(ask.name)
       \/ MatchReference(scan, ask).conf < 60
       \/ IsBuiltinOrExternal(scan, ask)
       \/ answer.conf > 0

(* The order in which files came into the index decides between equals only:  *)
(* whether a reference resolves and with which confidence does not depend on  *)
(* it, unless the fuzzy tier answers.                                       *)
OrderIrrelevant ==
  AskedNode /\ Tier(Scan(files), ask) # 5 =>
    \A p \in {p \in [DOMAIN files -> DOMAIN files] : ToSet(p) = DOMAIN files} :
      ResolveOne([i \in DOMAIN files |-> files[p[i]]], ask).conf = answer.conf

(* A project that grows keeps its resolved references: a reference that        *)
(* resolves without a file resolves with it, except when every node of that    *)
(* name is of another language (two foreign candidates fall below the          *)
(* threshold that one of them passed), and when the name is a path on which    *)
(* two files now end, or one that two file names now begin with.              *)
Ambiguous(scan, name) ==
  \E f, g \in Paths(scan) :
    /\ f # g
    /\ \/ IsSuffix(name, f) /\ IsSuffix(name, g)
       \/ IsPrefix(FileName(name), FileName(f)) /\ IsPrefix(FileName(name), FileName(g))

GrowthKeepsResolved ==
  AskedNode =>
    \/ answer.conf > 0
    \/ LET cands == {n \in NodesOf(Scan(files)) : n.name = ask.name}
       IN \/ cands # {} /\ \A n \in cands : ~SpeaksOf(n, ask)
          \/ \A k \in DOMAIN files :
               files[k] # ask.file /\ ResolveOne(RemoveAt(files, k), ask).conf > 0
                 => Ambiguous(Scan(files), ask.name)

(* The Go rule, for interfaces that embed nothing and take no function         *)
(* parameters: a type has an edge to an interface exactly if the methods that  *)
(* its package declares for it, in whatever file, include those the interface  *)
(* lists, with their parameters; and an interface of unexported methods only    *)
(* is satisfied by nobody here.                                             *)
Declares(go, t, m) ==
  \E d \in go : d.what = "method" /\ d.type = t.type /\ d.file.dir = t.file.dir /\ d.method = m

GoRule ==
  AskedGo =>
    \A t \in {d \in ask.go : d.what = "type"}, i \in {d \in ask.go : d.what = "interface"} :
      LET public == {m \in i.methods : m.exported}
      IN (\A d \in ask.go : d.what = "method" => \A k \in DOMAIN d.method.params :
                              d.method.params[k] = "plain")
         /\ (\A m \in i.methods : \A k \in DOMAIN m.params : m.params[k] = "plain")
         => ((\E e \in answer : e.from = t /\ e.to = i) <=>
               (public # {} /\ t.exported /\ i.exported
                  /\ \A m \in public : Declares(ask.go, t, m)))

-----------------------------------------------------------------------------
(* The properties above, by what they are about. *)

(* An answer is a stored node, and depends on neither the order of the files    *)
(* nor on files that have nothing to do with it.                             *)
AnswersStable == TypeOK /\ OrderIrrelevant /\ GrowthKeepsResolved
=============================================================================
