----------------------------- MODULE RouterConfigs -----------------------------
(***************************************************************************)
(* Route objects of vue-router (vue.rs) and the Angular router (angular.rs):  *)
(* nested objects of a routes array, read with regular expressions over the   *)
(* text of the object, its children included.                                 *)
(*                                                                            *)
(* A route object is a record: path, a sequence of segments or Absent;        *)
(* rooted, whether it starts with "/"; component, its own component or None;  *)
(* lazy, the file it loads or None; guards; redirect; children, a sequence of *)
(* route objects; and childrenFirst, whether they are written before the rest.*)
(***************************************************************************)
LOCAL INSTANCE Integers
LOCAL INSTANCE Sequences
LOCAL INSTANCE SequencesExt

None == "none"
Absent == <<"absent">>

(* --- Balanced delimiters (scan_utils.rs) ---------------------------------- *)

Openers == {"(", "[", "{"}
Closers == {")", "]", "}"}
Quotes == {"'", "\"", "tick"}
Unbalanced == 0

\* The position after a quoted string that starts at i.
StringEnd(text, i) ==
  LET e[j \in Nat] == IF j > Len(text) THEN j
                      ELSE IF text[j] = "\\" THEN e[j + 2]
                      ELSE IF text[j] = text[i] THEN j + 1 ELSE e[j + 1]
  IN e[i + 1]

(* Mutant: a string may hold brackets that count.                            *)
ReadBalancedRaw(text, open, close) ==
  LET e[j \in Nat, depth \in Nat] ==
        IF j > Len(text) THEN Unbalanced
        ELSE IF text[j] \in Openers THEN e[j + 1, depth + 1]
        ELSE IF text[j] \in Closers THEN IF depth = 1 /\ text[j] = close THEN j ELSE e[j + 1, IF depth = 0 THEN 0 ELSE depth - 1]
        ELSE e[j + 1, depth]
  IN e[open, 0]

\* The position of the closer: every opener counts, strings are skipped, and a
\* closer of another kind lowers the depth like any other.  The depth wraps below
\* 0 (a debug build stops there).
ReadBalanced(text, open, close) ==
  LET e[j \in Nat, depth \in Int] ==
        IF j > Len(text) THEN Unbalanced
        ELSE IF text[j] \in Openers THEN e[j + 1, depth + 1]
        ELSE IF text[j] = close THEN IF depth = 1 THEN j ELSE e[j + 1, depth - 1]
        ELSE IF text[j] \in Closers THEN IF depth = 0 THEN Unbalanced ELSE e[j + 1, depth - 1]
        ELSE IF text[j] \in Quotes THEN e[StringEnd(text, j), depth]
        ELSE e[j + 1, depth]
  IN e[open, 0]

(* --- The text of a route object -------------------------------------------- *)

RECURSIVE Texts(_)
\* The objects whose fields stand in the text of a route, in the order of the text.
Texts(r) ==
  LET below == FlattenSeq([i \in DOMAIN r.children |-> Texts(r.children[i])])
  IN IF r.childrenFirst THEN below \o <<r>> ELSE <<r>> \o below

\* The first of them with a field, or the route itself.
First(r, Has(_)) ==
  LET found == SelectInSeq(Texts(r), Has) IN IF found = 0 THEN r ELSE Texts(r)[found]

HasPath(r) == r.path # Absent
HasComponent(r) == r.component # None
HasLazy(r) == r.lazy # None
HasGuards(r) == r.guards # {}
Redirects(r) == r.redirect

\* Absolute paths replace the prefix, an empty one inherits it.
ComposeRoutePath(parent, r) == IF r.rooted THEN r.path ELSE parent \o r.path

(* --- vue-router ------------------------------------------------------------ *)

\* A lazy component anywhere in the text comes before a named one.
FindComponentRef(r) ==
  IF First(r, HasLazy).lazy # None THEN [name |-> First(r, HasLazy).lazy, kind |-> "imports"]
  ELSE [name |-> First(r, HasComponent).component, kind |-> "references"]

RECURSIVE VueRoutes(_, _)
\* The routes in the order they are found; the place in it is their line.
VueRoutes(routes, prefix) ==
  LET pathed(r) == First(r, HasPath)
      here(r) == HasPath(pathed(r))
      full(r) == IF here(r) THEN ComposeRoutePath(prefix, pathed(r)) ELSE prefix
      found(r) == (IF here(r) THEN <<[path |-> full(r), component |-> FindComponentRef(r)]>> ELSE <<>>)
                    \o VueRoutes(r.children, full(r))
  IN FlattenSeq([i \in DOMAIN routes |-> found(routes[i])])

(* --- Angular --------------------------------------------------------------- *)

\* A route that only redirects names nothing.
AngularTargets(r) ==
  LET component == First(r, HasComponent).component
      lazy == First(r, HasLazy).lazy
  IN IF First(r, Redirects).redirect /\ component = None /\ lazy = None THEN {}
     ELSE ({component, lazy} \ {None}) \union First(r, HasGuards).guards

RECURSIVE AngularRoutes(_, _)
AngularRoutes(routes, prefix) ==
  LET pathed(r) == First(r, HasPath)
      here(r) == HasPath(pathed(r))
      full(r) == IF here(r) THEN ComposeRoutePath(prefix, pathed(r)) ELSE prefix
      found(r) == (IF here(r) THEN <<[path |-> full(r), targets |-> AngularTargets(r)]>> ELSE <<>>)
                    \o AngularRoutes(r.children, full(r))
  IN FlattenSeq([i \in DOMAIN routes |-> found(routes[i])])
=============================================================================
