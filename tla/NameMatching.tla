---------------------------- MODULE NameMatching ----------------------------
(***************************************************************************)
(* The five tiers that find the node a name refers to                       *)
(* (codewiki-resolution/src/name_matcher.rs).                               *)
(*                                                                         *)
(* A name, a qualified name and a path are sequences of tokens: "." "::" "/" *)
(* and word parts ("MyUser" is <<"My", "User">>), so that a suffix may start *)
(* inside a word, as it may in a string.  A confidence c of the code is the *)
(* integer 200 * c, which makes the score of the fourth tier an addition.    *)
(*                                                                         *)
(* A scan is a set of entries [at, node]: at <<i, j>> is the j-th node of the  *)
(* i-th file.  An index of warm_caches maps a key to the entries with it.      *)
(***************************************************************************)
EXTENDS Integers, Sequences, SequencesExt, FiniteSets

CONSTANTS
  Capital,     \* word part -> the same with its first letter capital
  Lower,       \* token -> the same in lower case
  Group        \* file extension -> language_group_from_file

Has(name, sep) == \E i \in DOMAIN name : name[i] = sep
At(name, sep) == SelectInSeq(name, LAMBDA t : t = sep)
LastAt(name, sep) == SelectLastInSeq(name, LAMBDA t : t = sep)
Before(name, i) == SubSeq(name, 1, i - 1)
After(name, i) == SubSeq(name, i + 1, Len(name))

Capitalized(name) == [name EXCEPT ![1] = Capital[@]]
Lowered(name) == [i \in DOMAIN name |-> Lower[name[i]]]
FileName(path) == After(path, LastAt(path, "/"))
GroupOf(path) == Group[Last(path)]

(* The indexes of warm_caches, and the first entry in scan order.            *)
Named(scan, name) == {e \in scan : e.node.name = name}
LowerNamed(scan, name) == {e \in scan : Lowered(e.node.name) = name}
Qualified(scan, name) == {e \in scan : e.node.qname = name}
InFile(scan, file) == {e \in scan : e.node.file = file}
Paths(scan) == {e.node.file : e \in scan}

AtOrBefore(d, e) == d.at[1] < e.at[1] \/ (d.at[1] = e.at[1] /\ d.at[2] <= e.at[2])
First(entries) == CHOOSE e \in entries : \A d \in entries : AtOrBefore(e, d)

NoMatch == [conf |-> 0]
Match(node, conf) == [node |-> node, conf |-> conf]
OrElse(match, other) == IF match # NoMatch THEN match ELSE other
FirstOf(entries, conf) == IF entries = {} THEN NoMatch ELSE Match(First(entries).node, conf)

One(set) == \E x \in set : set = {x}

(* The first node of the file, if there is one file only.                    *)
OnlyFile(scan, files, conf) ==
  IF One(files) THEN FirstOf(UNION {InFile(scan, f) : f \in files}, conf)
                ELSE NoMatch

TryFilePath(scan, name) ==
  LET fileLike == Has(name, "/") \/ (Has(name, ".") /\ ~Has(name, "::"))
      exact == OnlyFile(scan, {name} \intersect Paths(scan), 190)
      suffix == OnlyFile(scan, {f \in Paths(scan) : IsSuffix(name, f)}, 170)
      byName == OnlyFile(scan, {f \in Paths(scan) : IsPrefix(FileName(name), FileName(f))}, 140)
  IN IF fileLike THEN OrElse(exact, OrElse(suffix, byName)) ELSE NoMatch

(* rsplit("::") always yields a part: a name with dots only is its own last  *)
(* part, and is not looked for as a suffix.                                 *)
TryQualified(scan, name) ==
  LET exact == Qualified(scan, name)
      last == After(name, LastAt(name, "::"))
      suffixed == {e \in Named(scan, last) : IsSuffix(name, e.node.qname)}
      byEnd == IF last = name THEN NoMatch ELSE FirstOf(suffixed, 170)
  IN IF Has(name, "::") \/ Has(name, ".") THEN OrElse(FirstOf(exact, 190), byEnd) ELSE NoMatch

Callable == {"method", "function"}

(* If the reference has no file, any language will do; it always has one.    *)
SpeaksOf(node, ref) == node.lang = GroupOf(ref.file)

Closeness(a, b) == LET dist == IF a > b THEN a - b ELSE b - a
                   IN IF dist > 20 THEN 0 ELSE 20 - dist

KindBonus(node, ref) ==
  CASE ref.kind = "calls" /\ node.kind \in Callable -> 25
    [] ref.kind = "instantiates" /\ node.kind \in {"class", "struct"} -> 25
    [] ref.kind = "decorates" /\ node.kind = "function" -> 25
    [] ref.kind = "decorates" /\ node.kind = "class" -> 15
    [] OTHER -> 0

(* Mutant: the kind of a node counts more than its language. *)
ScoreKindFirst(node, ref) ==
  (IF node.file = ref.file THEN 100 + Closeness(node.line, ref.line) ELSE 0)
  + 4 * KindBonus(node, ref) + (IF node.exported THEN 10 ELSE 0)

ScoreNode(node, ref) ==
  (IF node.file = ref.file THEN 100 + Closeness(node.line, ref.line) ELSE 0)
  + (IF SpeaksOf(node, ref) THEN 50 ELSE -80)
  + KindBonus(node, ref)
  + (IF node.exported THEN 10 ELSE 0)

(* Mutant: the first candidate, whatever its score. *)
FindFirst(cands, ref) == First(cands)

(* max_by_key: of equal scores the last.                                    *)
FindBest(cands, ref) ==
  CHOOSE e \in cands : \A d \in cands :
    \/ ScoreNode(d.node, ref) < ScoreNode(e.node, ref)
    \/ ScoreNode(d.node, ref) = ScoreNode(e.node, ref) /\ AtOrBefore(d, e)

CallablesNamed(scan, name) == {e \in Named(scan, name) : e.node.kind \in Callable}

(* The first method of this name beside the first class whose file has one.   *)
MethodBeside(scan, classes, method, conf) ==
  LET Methods(file) == CallablesNamed(scan, method) \intersect InFile(scan, file)
      hosts == {e \in classes : Methods(e.node.file) # {}}
  IN IF hosts = {} THEN NoMatch ELSE FirstOf(Methods(First(hosts).node.file), conf)

TryMethodCall(scan, name, ref) ==
  LET cut == IF Has(name, "::") THEN At(name, "::") ELSE LastAt(name, ".")
      receiver == Before(name, cut)
      method == After(name, cut)
      classes == {e \in Named(scan, receiver) : e.node.kind \in {"class", "struct", "interface"}}
      capitals == IF Capitalized(receiver) = receiver THEN {}
                  ELSE Named(scan, Capitalized(receiver))
      methods == CallablesNamed(scan, method)
      alone == IF methods = {} THEN NoMatch ELSE Match(FindBest(methods, ref).node, 130)
      direct == MethodBeside(scan, classes, method, 170)
      capital == MethodBeside(scan, capitals, method, 150)
  IN IF cut = 0 \/ receiver = <<>> \/ method = <<>> THEN NoMatch
     ELSE OrElse(direct, OrElse(capital, alone))

TryExactName(scan, name, ref) ==
  LET cands == Named(scan, name)
      best == FindBest(cands, ref).node
      scored == 80 + ScoreNode(best, ref)
  IN CASE cands = {} -> NoMatch
       [] One(cands) -> Match(best, IF SpeaksOf(best, ref) THEN 180 ELSE 100)
       [] OTHER -> Match(best, IF scored > 180 THEN 180 ELSE scored)

TryFuzzyLower(scan, name, ref) ==
  LET cands == {e \in LowerNamed(scan, Lowered(name)) : e.node.kind \in Callable \union {"class"}}
      first == First(cands).node
  IN IF cands = {} THEN NoMatch ELSE Match(first, IF SpeaksOf(first, ref) THEN 100 ELSE 60)

Tries(scan, ref) ==
  << TryFilePath(scan, ref.name), TryQualified(scan, ref.name), TryMethodCall(scan, ref.name, ref),
     TryExactName(scan, ref.name, ref), TryFuzzyLower(scan, ref.name, ref) >>

(* The tier that answers, 6 when none does.                                  *)
FirstTry(tries) ==
  CHOOSE t \in 1..6 : (\A i \in 1..(t - 1) : tries[i] = NoMatch) /\ (t < 6 => tries[t] # NoMatch)

Tier(scan, ref) == FirstTry(Tries(scan, ref))

MatchReference(scan, ref) ==
  LET tries == Tries(scan, ref)
      tier == FirstTry(tries)
  IN IF tier = 6 THEN NoMatch ELSE tries[tier]
=============================================================================
