--------------------------- MODULE FullTextSearch ---------------------------
(***************************************************************************)
(* codewiki-storage/src/search: what a query of symbols finds, and in which  *)
(* order.  A query is a sequence of tokens [key, sep, value]: a plain word    *)
(* has no key, `kind:class` has the separator ":", `User::get` has "::".  All *)
(* words are in lower case.  A symbol has the words that the full-text index  *)
(* cuts its name and documentation into (words); the weight that bm25 gives   *)
(* a match is a constant.  Symbols are numbered in the order of their names.  *)
(* Scores are in units of 1/6000.                                           *)
(***************************************************************************)
LOCAL INSTANCE Integers
LOCAL INSTANCE Sequences
LOCAL INSTANCE FiniteSets
LOCAL INSTANCE SequencesExt
LOCAL INSTANCE FiniteSetsExt
LOCAL INSTANCE Functions
LOCAL INSTANCE TLC

CONSTANTS
  Symbol,      \* id -> [name, qname, words, kind, lang, dirs, stem, test]
  Bm25,        \* id -> the score of a full-text match
  ValidKind,   \* the values `kind:` takes
  Canonical,   \* the values `lang:` takes -> language
  MinFetch,    \* the least number of full-text matches that are scored (100)
  Fetched      \* full-text matches scored per result asked for (5)

Unit == 6000

\* kind_bonus
KindBonus(kind) ==
  CASE kind \in {"function", "method"} -> 10
    [] kind \in {"interface", "trait", "route"} -> 9
    [] kind \in {"class", "component"} -> 8
    [] kind \in {"type_alias", "struct"} -> 6
    [] kind = "enum" -> 5
    [] kind \in {"module", "namespace"} -> 4
    [] kind \in {"constant", "enum_member", "property", "field"} -> 3
    [] kind = "variable" -> 2
    [] OTHER -> 0

-----------------------------------------------------------------------------
Starts(w, p) == Len(p) <= Len(w) /\ SubSeq(w, 1, Len(p)) = p
HasPart(w, p) == \E i \in 0..(Len(w) - Len(p)) : SubSeq(w, i + 1, i + Len(p)) = p
Ends(w, p) == Len(p) <= Len(w) /\ SubSeq(w, Len(w) - Len(p) + 1, Len(w)) = p
Without(w, k) == SubSeq(w, 1, Len(w) - k)

TakeUpTo(s, n) == SubSeq(s, 1, Min({n, Len(s)}))
SumOf(f) == FoldFunction(+, 0, f)

Plain(w) == [key |-> "", sep |-> "", value |-> w]
Raw(t) == t.key \o t.sep \o t.value
Joined(ts) == IF ts = <<>> THEN ""
              ELSE FoldLeft(LAMBDA acc, t : acc \o " " \o Raw(t), Raw(Head(ts)), Tail(ts))

\* parse_query: `path::x` and `name::x` are filters too, for ":x".
IsFilter(t) ==
  \/ t.key = "kind" /\ t.sep = ":" /\ t.value \in ValidKind
  \/ t.key = "lang" /\ t.sep = ":" /\ t.value \in DOMAIN Canonical
  \/ t.key \in {"path", "name"}

Values(q, key) == {IF t.sep = "::" THEN ":" \o t.value ELSE t.value :
                     t \in {t \in ToSet(q) : IsFilter(t) /\ t.key = key}}

ParseQuery(q) ==
  [text |-> SelectSeq(q, LAMBDA t : ~IsFilter(t)), kinds |-> Values(q, "kind"),
   langs |-> {Canonical[v] : v \in Values(q, "lang")}, paths |-> Values(q, "path"),
   names |-> Values(q, "name")]

(* bounded_edit_distance, row by row, until a whole row is over the bound.    *)
Upto(n) == [i \in 1..n |-> i]

NextRow(row, a, i, b) ==
  FoldLeft(LAMBDA cur, j :
             Append(cur, Min({Last(cur) + 1, row[j + 1] + 1,
                              row[j] + IF SubSeq(a, i, i) = SubSeq(b, j, j) THEN 0 ELSE 1})),
           <<i>>, Upto(Len(b)))

LastRow(a, b, max, Over(_, _)) ==
  LET kept(row) == IF Over(Min(ToSet(row)), max) THEN <<>> ELSE row
  IN FoldLeft(LAMBDA row, i : IF row = <<>> THEN <<>> ELSE kept(NextRow(row, a, i, b)),
              [j \in 1..(Len(b) + 1) |-> j - 1], Upto(Len(a)))

BoundedEditDistance(a, b, max) ==
  CASE a = b -> 0
    [] Len(a) > Len(b) + max \/ Len(b) > Len(a) + max -> max + 1
    [] OTHER -> Last(<<max + 1>> \o LastRow(a, b, max, >))

-----------------------------------------------------------------------------
(* name_match_bonus, for the words of a query, and score_path_relevance.      *)
NameMatchBonus(name, words) ==
  LET compact == FoldLeft(LAMBDA acc, w : acc \o w, "", words)
      terms == SelectSeq(words, LAMBDA w : Len(w) >= 2)
  IN CASE name = compact -> 80
       [] Len(terms) > 1 /\ name \in ToSet(terms) -> 60
       [] Starts(name, compact) -> (20 * Len(name) + 60 * Len(compact) + Len(name)) \div (2 * Len(name))
       [] Len(terms) > 1 /\ \A t \in ToSet(terms) : HasPart(name, t) -> 15
       [] HasPart(name, compact) -> 10
       [] OTHER -> 0

SearchTerms(words) == {w \in ToSet(words) : Len(w) >= 3}
IsTestQuery(words) == \E w \in ToSet(words) : HasPart(w, "test") \/ HasPart(w, "spec")

PathRelevance(s, words) ==
  LET worth == [t \in SearchTerms(words) |->
                  IF HasPart(s.stem, t) THEN 10
                  ELSE IF \E d \in ToSet(s.dirs) : HasPart(d, t) THEN 5 ELSE 0]
  IN IF SearchTerms(words) = {} THEN 0
     ELSE SumOf(worth) - IF s.test /\ ~IsTestQuery(words) THEN 15 ELSE 0

Hit(n, score) == [node |-> n, score |-> score]
Ids(hits) == {hits[i].node : i \in DOMAIN hits}

\* A stable sort: what comes first stays first among equals.
SortedBy(hits, Before(_, _)) ==
  LET order == SortSeq(Upto(Len(hits)),
                 LAMBDA i, j : \/ Before(hits[i], hits[j])
                               \/ ~Before(hits[j], hits[i]) /\ i < j)
  IN [k \in DOMAIN hits |-> hits[order[k]]]
ByScore(hits) == SortedBy(hits, LAMBDA a, b : a.score > b.score)

InIdOrder(ids) == SelectSeq(Upto(Len(Symbol)), LAMBDA n : n \in ids)
Passes(s, kinds, langs) == (kinds = {} \/ s.kind \in kinds) /\ (langs = {} \/ s.lang \in langs)

\* The terms of a full-text query; `a::b` is two of them, `a:b` is one, "ab".
FtsTerms(ts) ==
  UNION {CASE t.sep = "::" -> {t.key, t.value} [] OTHER -> {t.key \o t.value} : t \in ToSet(ts)}
FtsMatches(s, terms) == \E t \in terms, w \in ToSet(s.words) : Starts(w, t)

\* search_fts_raw
SearchFts(index, ts, kinds, langs, limit) ==
  LET found == {n \in index : Passes(Symbol[n], kinds, langs) /\ FtsMatches(Symbol[n], FtsTerms(ts))}
      hits(order) == [i \in DOMAIN order |-> Hit(order[i], Bm25[order[i]])]
  IN TakeUpTo(ByScore(hits(InIdOrder(found))), Max({Fetched * limit, MinFetch}))

\* search_nodes_like: the language filter is not looked at.
LikeScore(s, text) ==
  CASE s.name = text -> Unit
    [] Starts(s.name, text) -> (9 * Unit) \div 10
    [] HasPart(s.name, text) -> (8 * Unit) \div 10
    [] HasPart(s.qname, text) -> (7 * Unit) \div 10
    [] OTHER -> 0

SearchLike(index, text, kinds, limit) ==
  LET found == {n \in index : Passes(Symbol[n], kinds, {}) /\ LikeScore(Symbol[n], text) > 0}
      hits(order) == [i \in DOMAIN order |-> Hit(order[i], LikeScore(Symbol[order[i]], text))]
  IN TakeUpTo(SortedBy(hits(InIdOrder(found)), LAMBDA a, b :
                \/ a.score > b.score
                \/ a.score = b.score /\ Len(Symbol[a.node].name) < Len(Symbol[b.node].name)),
              limit)

\* search_nodes_fuzzy: nor here.  Of the names in reach, nearest first, some
\* symbols each.
SearchFuzzy(index, text, kinds, limit) ==
  LET max == IF Len(text) <= 4 THEN 1 ELSE 2
      dist == [n \in index |-> BoundedEditDistance(Symbol[n].name, text, max)]
      Named(m) == {n \in index : Symbol[n].name = Symbol[m].name}
      names == SortSeq(InIdOrder({m \in index : dist[m] <= max /\ \A n \in Named(m) : m <= n}),
                       LAMBDA m, n : dist[m] < dist[n] \/ (dist[m] = dist[n] /\ m < n))
      few(m) == TakeUpTo(InIdOrder({n \in Named(m) : Passes(Symbol[n], kinds, {})}), 5)
      hits(m) == [j \in DOMAIN few(m) |-> Hit(few(m)[j], Unit \div (1 + dist[m]))]
      near == TakeUpTo(names, Max({2 * limit, 50}))
  IN TakeUpTo(FlattenSeq([i \in DOMAIN near |-> hits(near[i])]), limit)

\* search_all_by_filters
SearchByFilters(index, kinds, langs, limit) ==
  LET order == InIdOrder({n \in index : Passes(Symbol[n], kinds, langs)})
  IN TakeUpTo([i \in DOMAIN order |-> Hit(order[i], Unit)], limit)

FirstFound(a, b) == IF a # <<>> THEN a ELSE b

(* Mutant: full text that found as many as it may is not supplemented.        *)
SupplementIfShort(index, q, kinds, langs, hits) ==
  LET best == Max({hits[i].score : i \in DOMAIN hits} \union {0})
      named(t) == TakeUpTo(InIdOrder({n \in index : Symbol[n].name = Raw(t) /\ Passes(Symbol[n], kinds, langs)}), 20)
      missed(t) == SelectSeq(named(t), LAMBDA n : n \notin Ids(hits))
  IN IF Len(hits) >= MinFetch THEN hits
     ELSE hits \o FlattenSeq([i \in DOMAIN q |-> [j \in DOMAIN missed(q[i]) |-> Hit(missed(q[i])[j], best)]])

(* The symbols named exactly as a word of the query that full text missed.   *)
Supplement(index, q, kinds, langs, hits) ==
  LET best == Max({hits[i].score : i \in DOMAIN hits} \union {0})
      terms == SelectSeq(q, LAMBDA t : Len(Raw(t)) >= 2)
      named(t) == TakeUpTo(InIdOrder({n \in index : Symbol[n].name = Raw(t) /\ Passes(Symbol[n], kinds, langs)}), 20)
      missed(t) == SelectSeq(named(t), LAMBDA n : n \notin Ids(hits))
  IN hits \o FlattenSeq([i \in DOMAIN terms |->
                           [j \in DOMAIN missed(terms[i]) |-> Hit(missed(terms[i])[j], best)]])

Rescored(hits, words) ==
  ByScore([i \in DOMAIN hits |->
    LET s == Symbol[hits[i].node]
    IN [hits[i] EXCEPT !.score = @ + Unit * (KindBonus(s.kind) + PathRelevance(s, words)
                                               + NameMatchBonus(s.name, words))]])

\* The path: and name: filters, after the results are cut to the limit.
HardFiltered(hits, p) ==
  SelectSeq(hits, LAMBDA h :
    LET s == Symbol[h.node]
    IN /\ \/ p.paths = {}
          \/ \E f \in p.paths, d \in ToSet(s.dirs) \union {s.stem} : HasPart(d, f)
       /\ p.names = {} \/ \E f \in p.names : HasPart(s.name, f))

LooseTiers(index, text, kinds, limit) ==
  FirstFound(IF Len(text) >= 2 THEN SearchLike(index, text, kinds, limit) ELSE <<>>,
             IF Len(text) >= 3 THEN SearchFuzzy(index, text, kinds, limit) ELSE <<>>)

Tier(index, p, kinds, limit) ==
  IF p.text = <<>> THEN SearchByFilters(index, kinds, p.langs, Fetched * limit)
  ELSE FirstFound(SearchFts(index, p.text, kinds, p.langs, limit),
                  LooseTiers(index, Joined(p.text), kinds, limit))

Raws(ts) == [i \in DOMAIN ts |-> Raw(ts[i])]

(* search_nodes_fts, from the parsed query on.                              *)
Answer(index, q, p, kinds, limit) ==
  LET supplemented(hits) ==
        IF hits = <<>> THEN <<>> ELSE Supplement(index, q, kinds, p.langs, hits)
  IN HardFiltered(
       TakeUpTo(Rescored(supplemented(Tier(index, p, kinds, limit)),
                         Raws(IF p.text = <<>> THEN q ELSE p.text)), limit), p)

SearchNodes(index, q, asked, limit) ==
  LET parsed(p) == Answer(index, q, p, asked \union p.kinds, limit) IN parsed(ParseQuery(q))
=============================================================================
