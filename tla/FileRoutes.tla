------------------------------ MODULE FileRoutes ------------------------------
(***************************************************************************)
(* Routes that come from the place of a file: Nuxt (vue.rs), SvelteKit        *)
(* (svelte.rs) and Next.js (react.rs), and the components and stores that     *)
(* these scanners find in a file.                                             *)
(*                                                                            *)
(* A file is a record: dirs, the directories of its absolute path; stem and   *)
(* verb, the parts of its name ("users.get" has the verb get); ext.  A        *)
(* directory is a record [p, n]: plain, or a parameter in brackets.           *)
(***************************************************************************)
LOCAL INSTANCE Integers
LOCAL INSTANCE Sequences
LOCAL INSTANCE SequencesExt

None == "none"

Plain(n) == [p |-> "plain", n |-> n]
Names(dirs) == [i \in DOMAIN dirs |-> dirs[i].n]

\* [...x] is *x, [[x]] is :x?, [x] is :x.
ConvertSegment(seg) ==
  CASE seg.p = "rest" -> "*" \o seg.n
    [] seg.p = "optional" -> ":" \o seg.n \o "?"
    [] seg.p = "param" -> ":" \o seg.n
    [] OTHER -> seg.n
Converted(segs) == [i \in DOMAIN segs |-> ConvertSegment(segs[i])]

\* What is below the first directory with one of the names.
NoMark == <<Plain(None)>>
NoRoute == <<None>>
Below(dirs, marks) ==
  LET at == SelectInSeq(dirs, LAMBDA d : d.p = "plain" /\ d.n \in marks)
  IN IF at = 0 THEN NoMark ELSE SubSeq(dirs, at + 1, Len(dirs))

RECURSIVE WithoutIndex(_)
\* Every index at the end goes.
WithoutIndex(segs) == IF segs # <<>> /\ Last(segs) = Plain("index") THEN WithoutIndex(Front(segs)) ELSE segs

(* --- Nuxt ------------------------------------------------------------------ *)

ApiVerbs == {"get", "post", "put", "patch", "delete", "head", "options"}
Upper == [get |-> "GET", post |-> "POST", put |-> "PUT", patch |-> "PATCH", delete |-> "DELETE",
          head |-> "HEAD", options |-> "OPTIONS"]

WebExt == {"vue", "ts", "js"}
\* An ending that is not of the web stays in the name.
NuxtStem(f) ==
  LET n == IF f.verb = None THEN f.stem.n ELSE f.stem.n \o "." \o f.verb
  IN IF f.ext \in WebExt THEN [f.stem EXCEPT !.n = n] ELSE Plain(n \o "." \o f.ext)

InPages(f) == Below(f.dirs, {"pages"}) # NoMark
PageRoute(f) == Converted(WithoutIndex(Append(Below(f.dirs, {"pages"}), NuxtStem(f))))

\* definePageMeta overrides the path, adds aliases and names middleware.
NuxtPage(f, meta) ==
  LET path == IF meta.path = NoRoute THEN PageRoute(f) ELSE meta.path
  IN [routes |-> {[verb |-> "GET", path |-> p] : p \in {path} \union meta.aliases}, middleware |-> meta.middleware]

\* server/api: two directories, one after the other, and the first such pair.
ApiAt(dirs) ==
  {i \in 1..(Len(dirs) - 1) : dirs[i] = Plain("server") /\ dirs[i + 1] = Plain("api")}
BelowApi(dirs) == SubSeq(dirs, 2 + (CHOOSE i \in ApiAt(dirs) : \A j \in ApiAt(dirs) : i <= j), Len(dirs))

NuxtVerb(f) == IF f.verb \in ApiVerbs /\ f.ext \in WebExt THEN Upper[f.verb] ELSE "ENDPOINT"
NuxtApi(f) ==
  LET named == IF NuxtVerb(f) = "ENDPOINT" THEN NuxtStem(f) ELSE f.stem
  IN [verb |-> NuxtVerb(f), path |-> <<"api">> \o Converted(WithoutIndex(Append(BelowApi(f.dirs), named)))]

\* Pages, server/api and middleware in this order, whatever else the file is.
Nuxt(f, meta) ==
  CASE InPages(f) -> NuxtPage(f, meta)
    [] ~InPages(f) /\ ApiAt(f.dirs) # {} -> [routes |-> {NuxtApi(f)}, middleware |-> {}]
    [] OTHER -> [routes |-> {}, middleware |-> {}]
NuxtMiddleware(f) ==
  IF InPages(f) \/ ApiAt(f.dirs) # {} \/ Below(f.dirs, {"middleware"}) = NoMark THEN {} ELSE {NuxtStem(f).n}

(* --- SvelteKit ------------------------------------------------------------- *)

SvelteFile(f) ==
  \/ f.stem.n \in {"+page", "+layout"} /\ f.verb = None /\ f.ext \in {"svelte", "ts", "js"}
  \/ f.stem.n \in {"+page", "+layout"} /\ f.verb = "server" /\ f.ext \in {"ts", "js"}
  \/ f.stem.n = "+server" /\ f.verb = None /\ f.ext \in {"ts", "js"}
  \/ f.stem.n = "+error" /\ f.verb = None /\ f.ext = "svelte"

\* One route for the directory, or one for each method that +server exports as
\* a function.  The handler it refers to is the verb and Handler.
SvelteKit(f, exported) ==
  IF Below(f.dirs, {"routes"}) = NoMark \/ ~SvelteFile(f) THEN {}
  ELSE LET path == Converted(Below(f.dirs, {"routes"}))
       IN IF f.stem.n # "+server" THEN {[verb |-> "", path |-> path, handler |-> None]}
          ELSE IF exported = {} THEN {[verb |-> "ENDPOINT", path |-> path, handler |-> None]}
          ELSE {[verb |-> Upper[m], path |-> path, handler |-> m \o "Handler"] : m \in exported}

(* --- Next.js --------------------------------------------------------------- *)

\* [ becomes : and ] goes, wherever they are.
NextSegment(seg) ==
  CASE seg.p = "rest" -> ":..." \o seg.n
    [] seg.p = "optional" -> "::" \o seg.n
    [] seg.p = "param" -> ":" \o seg.n
    [] OTHER -> seg.n
NextConverted(segs) == [i \in DOMAIN segs |-> NextSegment(segs[i])]

\* The marks are parts of names.  One index at the end goes; below app a name
\* must end in page, which goes when a directory stands before it.
NextRoute(f) ==
  LET pages == Below(f.dirs, {"pages", "subpages"})
      app == Below(f.dirs, {"app", "webapp"})
      name == IF f.verb = None THEN f.stem ELSE Plain(f.stem.n \o "." \o f.verb)
      index == IF pages # NoMark THEN name = Plain("index") ELSE name = Plain("page") /\ app # <<>>
      dirs == IF pages # NoMark THEN pages ELSE app
  IN IF pages # NoMark \/ (app # NoMark /\ f.stem.n \in {"page", "homepage"})
     THEN NextConverted(IF index THEN dirs ELSE Append(dirs, name)) ELSE NoRoute

(* --- Components, hooks and stores in a file ------------------------------- *)

\* A function with a capital and JSX in the text that follows, its own or not.
ReactComponents(s, window) ==
  {[name |-> s[i].name, exported |-> s[i].exported /\ ~s[i].default] :
     i \in {j \in DOMAIN s : s[j].k = "function" /\ s[j].pascal
              /\ \E l \in (j + 1)..Len(s) : l <= j + window /\ s[l].k = "jsx"}}
ReactHooks(s) == {[name |-> s[i].name, exported |-> s[i].exported] : i \in {j \in DOMAIN s : s[j].k = "hook"}}
\* Only a file with a default export is a page.
ReactRoutes(f, s) ==
  IF NextRoute(f) # NoRoute /\ \E i \in DOMAIN s : s[i].default THEN {NextRoute(f)} ELSE {}

PiniaStores(s) == {"use" \o s[i].name \o "Store" : i \in {j \in DOMAIN s : s[j].k = "store"}}
Composables(f) ==
  IF Below(f.dirs, {"composables"}) # NoMark /\ f.hook /\ f.ext \in {"ts", "js", "mjs"} THEN {f.stem.n} ELSE {}
=============================================================================
