--------------------------- MODULE ContextRanking ---------------------------
(***************************************************************************)
(* The search half of find_relevant_context (storage_impl.rs): the symbols    *)
(* that a question selects as roots, which GraphAnswers!Context then grows.   *)
(* A question is a sequence of lower-case words; Titled are those written      *)
(* with a capital.  Every channel gives hits [node, score]; scores are merged  *)
(* by their maximum, then weighted by what the whole question says.           *)
(***************************************************************************)
EXTENDS FullTextSearch, Integers, Sequences, FiniteSets, SequencesExt, FiniteSetsExt, Functions, TLC

CONSTANTS
  Titled,      \* words written with a capital first
  Common,      \* common words: no symbol is looked for
  Stop,        \* words that do not make a question natural language
  FtsStop,     \* Stop, and words that match too much
  Idf          \* [nodes, matching nodes] -> inverse document frequency, x100

ExactKind == {"function", "method", "class", "interface", "type_alias", "struct", "trait",
              "component", "route", "variable", "constant", "enum", "module", "namespace"}
DefKind == {"class", "interface", "struct", "trait", "enum", "type_alias"}
ActionKind == {"function", "method", "class", "interface", "struct"}
TextKind == ExactKind \union {"file", "property", "field", "enum_member", "export"}
NlKind == {"function", "method", "class", "struct", "interface", "trait", "route", "component",
           "enum", "type_alias"}
LeafKind == {"variable", "parameter", "file", "import", "export"}

\* extract_symbols_from_query
Symbols(words) == {w \in ToSet(words) : Len(w) >= 3 /\ w \notin Common}

\* get_stem_variants
StemVariants(w) ==
  (IF Ends(w, "caching") THEN {Without(w, 7) \o "cache"} ELSE {})
  \union (IF Ends(w, "ing") /\ Len(w) > 4 THEN {Without(w, 3)} ELSE {})
  \union (IF Ends(w, "s") /\ Len(w) > 3 THEN {Without(w, 1)} ELSE {})
  \union (IF Ends(w, "ed") /\ Len(w) > 4 THEN {Without(w, 2), Without(w, 2) \o "e"} ELSE {})

\* The verbs and adjectives that an abstract noun comes from.
Cut(w, suffix, longer) ==
  IF Ends(w, suffix) /\ Len(w) > longer
  THEN {Without(w, Len(suffix)), Without(w, Len(suffix)) \o "e"} ELSE {}

NounStems(w) == Cut(w, "tion", 6) \union Cut(w, "ation", 7) \union Cut(w, "ity", 5)

ActionStems(w) ==
  NounStems(w)
  \union (IF Ends(w, "ied") THEN IF Len(w) > 5 THEN {Without(w, 3) \o "y"} ELSE {}
          ELSE Cut(w, "ed", 4))

NlTerms(words) ==
  LET base == {w \in ToSet(words) : Len(w) >= 3 /\ w \notin FtsStop}
  IN base \union UNION {NounStems(w) \union Cut(w, "ing", 5)
                          \union {v \in StemVariants(w) : Len(v) >= 3} : w \in base}

IsNaturalLanguage(words) ==
  /\ Len(SelectSeq(words, LAMBDA w : Len(w) >= 3 /\ w \notin Stop)) >= 2
  /\ Len(words) >= 4

\* Words are taken in this order where the program has the order of a hash table.
InOrder(words) == FoldSet(LAMBDA w, acc : Append(acc, w), <<>>, words)

-----------------------------------------------------------------------------
\* A hit is added, or raises the score that its symbol has.
Raise(hits, h) ==
  IF h.node \in Ids(hits)
  THEN [i \in DOMAIN hits |-> IF hits[i].node = h.node
                              THEN [hits[i] EXCEPT !.score = Max({@, h.score})] ELSE hits[i]]
  ELSE Append(hits, h)

RaiseAll(hits, more) == FoldLeft(Raise, hits, more)

(* Step 2: the symbols with exactly a word's name, and 20 more for each other *)
(* word that has one in the same file.                                      *)
ExactMatches(index, words, limit) ==
  TakeUpTo(InIdOrder({n \in index : Symbol[n].name \in Symbols(words)
                                       /\ Symbol[n].kind \in ExactKind}), 5 * limit)

ExactChannel(index, words, limit) ==
  LET beside(n, ns) == {Symbol[m].name : m \in {m \in ns :
                          Symbol[m].dirs = Symbol[n].dirs /\ Symbol[m].stem = Symbol[n].stem}}
      hits(first) == [i \in DOMAIN first |->
                        Hit(first[i], Unit * (1 + KindBonus(Symbol[first[i]].kind)
                              + 20 * (Cardinality(beside(first[i], ToSet(first))) - 1)))]
  IN TakeUpTo(ByScore(hits(ExactMatches(index, words, limit))), 2 * limit)

\* What a search for a stem adds: names that start with it, not found before.
StemHits(index, stem, kinds, limit, before, bonus, brevity) ==
  LET brief(h) == Max({0, (Unit * (3 * brevity - (Len(Symbol[h.node].name) - Len(stem)))) \div 3})
      scored(hits) ==
        [i \in DOMAIN hits |-> [hits[i] EXCEPT !.score = @ + Unit * bonus + brief(hits[i])]]
  IN scored(SelectSeq(SearchNodes(index, <<Plain(stem)>>, kinds, limit),
              LAMBDA h : h.node \notin before /\ Starts(Symbol[h.node].name, stem)))

\* Step 2b: definitions whose name starts with a word or a variant of it.
DefinitionChannel(index, words, exact, limit) ==
  LET expanded == Symbols(words) \union UNION {StemVariants(w) : w \in Symbols(words)}
      stems == SelectSeq(InOrder(expanded), LAMBDA w : w # "" /\ w \notin Titled)
  IN TakeUpTo(ByScore(FoldLeft(LAMBDA hits, w :
                RaiseAll(hits, StemHits(index, w, DefKind, 30, Ids(exact), 15, 10)), exact, stems)),
              3 * limit)

\* Step 2c: in a question, what does the thing that a noun of it names.
ActionChannel(index, words, hits, limit) ==
  LET stems == SelectSeq(InOrder(UNION {ActionStems(w) : w \in Symbols(words)}),
                         LAMBDA w : Len(w) >= 3)
  IN IF ~IsNaturalLanguage(words) THEN hits
     ELSE TakeUpTo(ByScore(FoldLeft(LAMBDA acc, w :
                     RaiseAll(acc, StemHits(index, w, ActionKind, 2 * limit, Ids(hits), 12, 8)),
                     hits, stems)), 8 * limit)

(* Step 3: what full text finds for each word, and 5 times the rarity of       *)
(* every word but the commonest that a symbol covers.                        *)
Covers(s, t, found) ==
  \/ s \in found[t]
  \/ HasPart(Symbol[s].name, t) \/ HasPart(Symbol[s].qname, t) \/ HasPart(Symbol[s].stem, t)

Rarity(index, t) ==
  Idf[Cardinality(index), Cardinality({n \in index : FtsMatches(Symbol[n], {t})})]

Coverage(index, covered) ==
  LET weight == [t \in covered |-> Rarity(index, t)]
  IN IF Cardinality(covered) <= 1 THEN 0
     ELSE 5 * (Unit \div 100) * (SumOf(weight) - Min(Range(weight)))

\* The hits of each word in one list, raised by the words that they cover.
ByCoverage(index, hits, found) ==
  LET covered(n) == {t \in DOMAIN hits : Covers(n, t, found)}
      words(h) == Cardinality(covered(h.node))
      scored(all) == [i \in DOMAIN all |->
                        [all[i] EXCEPT !.score = @ + Coverage(index, covered(all[i].node))]]
      all == FoldLeft(LAMBDA acc, t : RaiseAll(acc, hits[t]), <<>>, InOrder(DOMAIN hits))
  IN SortedBy(scored(all), LAMBDA a, b :
       \/ a.score > b.score
       \/ a.score = b.score /\ words(a) > words(b)
       \/ a.score = b.score /\ words(a) = words(b) /\ a.node < b.node)

TextChannel(index, words, limit) ==
  LET ranked(hits) == ByCoverage(index, hits, [t \in DOMAIN hits |-> Ids(hits[t])])
  IN TakeUpTo(ranked([t \in SearchTerms(words) |->
                        SearchNodes(index, <<Plain(t)>>, TextKind, 2 * limit)]), 2 * limit)

(* OPT-12: a question that found little is asked as a whole and by the stems  *)
(* of its words.  Only symbols that were not found before are added.          *)
ByPasses(passes) ==
  LET times(n) == Cardinality({i \in DOMAIN passes : n \in Ids(passes[i])})
      raised(all) == [i \in DOMAIN all |->
                        [all[i] EXCEPT !.score = @ + 10 * Unit * (times(all[i].node) - 1)]]
  IN SortedBy(raised(FoldLeft(RaiseAll, <<>>, passes)),
              LAMBDA a, b : a.score > b.score \/ (a.score = b.score /\ a.node < b.node))

NlPasses(index, words, most) ==
  LET asked == <<words>> \o [i \in DOMAIN InOrder(NlTerms(words)) |-> <<InOrder(NlTerms(words))[i]>>]
      plain(ws) == [i \in DOMAIN ws |-> Plain(ws[i])]
  IN [i \in DOMAIN asked |-> SearchNodes(index, plain(asked[i]), NlKind, most)]

NlFallback(index, words, hits, limit) ==
  LET most == Max({6 * limit, 18})
  IN IF ~IsNaturalLanguage(words) \/ Len(hits) >= limit THEN hits
     ELSE hits \o SelectSeq(TakeUpTo(ByPasses(NlPasses(index, words, most)), most),
                            LAMBDA h : h.node \notin Ids(hits))

-----------------------------------------------------------------------------
(* Step 5: less for what lies in a test file.                               *)
Deprioritized(words, hits) ==
  [i \in DOMAIN hits |->
     IF Symbol[hits[i].node].test /\ ~IsTestQuery(words)
     THEN [hits[i] EXCEPT !.score = (3 * @) \div 10] ELSE hits[i]]

(* Step 5a: the words of which one is part of another are one concept.        *)
Concepts(words) ==
  LET terms == SortSeq(InOrder(SearchTerms(words)), LAMBDA a, b : Len(a) >= Len(b))
      near(t) == {o \in SearchTerms(words) : HasPart(t, o)}
      group(acc, t) == IF t \in UNION acc THEN acc ELSE acc \union {near(t) \ UNION acc}
  IN FoldLeft(group, {}, terms)

Singular(t) == {t} \union IF Ends(t, "s") /\ Len(t) > 3 THEN {Without(t, 1)} ELSE {}

(* Mutant: only where a symbol lies is looked at.                            *)
MatchedByPlace(s, group) ==
  \E t \in group : \E v \in Singular(t) : HasPart(s.stem, v) \/ \E d \in ToSet(s.dirs) : HasPart(d, v)

Matched(s, group) ==
  \E t \in group : \E v \in Singular(t) :
    HasPart(s.name, v) \/ HasPart(s.stem, v) \/ \E d \in ToSet(s.dirs) : HasPart(d, v)

Reweighted(words, known, hits) ==
  LET weigh(h) ==
        LET s == Symbol[h.node]
            count == Cardinality({g \in Concepts(words) : Matched(s, g)})
            named == s.name \in Symbols(words)
        IN CASE count >= 2 \/ (named /\ s.stem = s.name /\ ~s.test)
                  -> [h EXCEPT !.score = (@ * (2 + Max({count, 2}))) \div 2]
             [] h.node \in known \/ named -> h
             [] OTHER -> [h EXCEPT !.score = (6 * @) \div 10]
  IN IF Cardinality(SearchTerms(words)) < 2 THEN hits
     ELSE SortedBy([i \in DOMAIN hits |-> weigh(hits[i])],
                   LAMBDA a, b : a.score > b.score \/ (a.score = b.score /\ a.node < b.node))

\* In a question, leaves of one name and kind count once.
LeafOnce(words, hits) ==
  LET same(i, j) == Symbol[hits[i].node].name = Symbol[hits[j].node].name
                    /\ Symbol[hits[i].node].kind = Symbol[hits[j].node].kind
      kept == {i \in DOMAIN hits : \/ ~IsNaturalLanguage(words)
                                   \/ Symbol[hits[i].node].kind \notin LeafKind
                                   \/ \A j \in 1..(i - 1) : ~same(i, j)}
      order == SelectSeq(Upto(Len(hits)), LAMBDA i : i \in kept)
  IN [k \in DOMAIN order |-> hits[order[k]]]

(* All candidates in their final order, and the roots: the first of them.     *)
Finished(index, words, limit, defs, acts) ==
  LET known == ToSet(ExactMatches(index, words, limit)) \union (Ids(acts) \ Ids(defs))
      merged == RaiseAll(acts, TextChannel(index, words, limit))
  IN Reweighted(words, known, Deprioritized(words, NlFallback(index, words, merged, limit)))

Candidates(index, words, limit) ==
  LET defined(exact) == IF Symbols(words) = {} THEN <<>> ELSE DefinitionChannel(index, words, exact, limit)
      finished(defs) == Finished(index, words, limit, defs, ActionChannel(index, words, defs, limit))
  IN finished(defined(ExactChannel(index, words, limit)))

Roots(index, words, limit, least) ==
  LET most == IF IsNaturalLanguage(words) THEN Max({limit, 6}) ELSE limit
      good == SelectSeq(Candidates(index, words, limit), LAMBDA h : h.score >= least)
  IN TakeUpTo(LeafOnce(words, good), most)
=============================================================================
