---------------------------- MODULE SearchSystem ----------------------------
(***************************************************************************)
(* The tools that look symbols up by words, over an index that grows:         *)
(* codewiki_search, the roots of codewiki_context, and codewiki_explore,      *)
(* which lays the source of a set of symbols out (explore.rs).  A symbol has   *)
(* the lines from..to of its file.                                          *)
(***************************************************************************)
EXTENDS ContextRanking

CONSTANTS
  Queries,     \* token sequences asked of codewiki_search
  Questions,   \* word sequences asked of codewiki_context
  Limits,      \* result limits
  MaxIndex,    \* bound: symbols indexed at once
  MaxExplored, \* bound: symbols that one call of codewiki_explore lays out
  Weights,     \* importance of a symbol: 10 an entry, 3 beside one, 1 other
  Gap, PerFile, Total, \* gap_threshold in lines; the two budgets, in lines too
  Words,       \* words whose distance is measured
  MaxFiles     \* files of which source is shown

VARIABLES index, query, answer

vars == <<index, query, answer>>

NoQuery == [op |-> "none"]
NoAnswer == <<>>
MinScore == (3 * Unit) \div 10

FileOf(n) == [dirs |-> Symbol[n].dirs, stem |-> Symbol[n].stem]

(* merge_into_clusters: symbols in the order of their lines join the last      *)
(* cluster when at most Gap lines lie between.                              *)
Cluster(n, weight) == [nodes |-> <<n>>, from |-> Symbol[n].from, to |-> Symbol[n].to, weight |-> weight]

(* Mutant: a cluster ends where its last symbol ends.                        *)
MergeToLast(c, d) ==
  [nodes |-> c.nodes \o d.nodes, from |-> Min({c.from, d.from}), to |-> d.to,
   weight |-> c.weight + d.weight]

MergeWith(c, d) ==
  [nodes |-> c.nodes \o d.nodes, from |-> Min({c.from, d.from}), to |-> Max({c.to, d.to}),
   weight |-> c.weight + d.weight]

\* A symbol that ends on line 0, which no extractor stores, has its own.
Clusters(nodes, weight) ==
  LET order == SortSeq(InIdOrder(nodes), LAMBDA m, n :
                 Symbol[m].from < Symbol[n].from \/ (Symbol[m].from = Symbol[n].from /\ m < n))
      join(acc, n) == IF acc # <<>> /\ Symbol[n].to # 0 /\ Symbol[n].from - Last(acc).to <= Gap
                      THEN Append(Front(acc), MergeWith(Last(acc), Cluster(n, weight[n])))
                      ELSE Append(acc, Cluster(n, weight[n]))
  IN FoldLeft(join, <<>>, order)

ByWeight(cs) ==
  LET order == SortSeq(Upto(Len(cs)), LAMBDA i, j :
                 cs[i].weight > cs[j].weight \/ (cs[i].weight = cs[j].weight /\ i < j))
  IN [k \in DOMAIN cs |-> cs[order[k]]]

\* 20 for each unit of importance, 5 units for each word of the query that the
\* path has; files of tests and of icons and translations count less.
FileWeight(f, nodes, weight, words) ==
  LET Has(w) == \E d \in ToSet(f.dirs) \union {f.stem} : HasPart(d, w)
      sum == SumOf([n \in {m \in nodes : FileOf(m) = f} |-> 20 * weight[n]])
               + 100 * Len(SelectSeq(words, Has))
      kept == IF Has("test") \/ Has("spec") THEN (7 * sum) \div 10 ELSE sum
  IN IF Has("icon") \/ Has("i18n") \/ Has("locale") THEN kept \div 2 ELSE kept

(* One block per cluster: the source of its first symbol, as far as the file's *)
(* and the whole budget go.                                                 *)
Block(acc, c) ==
  LET rep == Head(c.nodes)
      used == SumOf([i \in DOMAIN acc |-> acc[i].lines])
      inFile == SumOf([i \in {i \in DOMAIN acc : FileOf(acc[i].node) = FileOf(rep)} |-> acc[i].lines])
  IN IF used >= Total \/ inFile >= PerFile THEN acc
     ELSE Append(acc, [node |-> rep, from |-> c.from,
                       lines |-> Min({Symbol[rep].to - Symbol[rep].from + 1, PerFile - inFile,
                                      Total - used})])

Explore(nodes, weight, words) ==
  LET files == {FileOf(n) : n \in nodes}
      ranked == SortSeq(InOrder(files), LAMBDA f, g :
                  FileWeight(f, nodes, weight, words) >= FileWeight(g, nodes, weight, words))
      shown == TakeUpTo(ranked, MaxFiles)
      blocks(f) == ByWeight(Clusters({n \in nodes : FileOf(n) = f}, weight))
  IN [blocks |-> FoldLeft(LAMBDA acc, f : FoldLeft(Block, acc, blocks(f)), <<>>, shown),
      \* "Complete source code is included above for all relevant files."
      complete |-> Len(shown) = Len(ranked)]

-----------------------------------------------------------------------------
Init == index = {} /\ query = NoQuery /\ answer = NoAnswer

Ask(q, a) == query = NoQuery /\ query' = q /\ answer' = a /\ UNCHANGED index

Insert ==
  /\ query = NoQuery /\ Cardinality(index) < MaxIndex
  /\ \E n \in DOMAIN Symbol \ index : index' = index \union {n}
  /\ UNCHANGED <<query, answer>>

AskSearch ==
  \E q \in Queries, limit \in Limits, kinds \in {{}, {"class"}} :
    Ask([op |-> "search", tokens |-> q, limit |-> limit, kinds |-> kinds],
        SearchNodes(index, q, kinds, limit))

AskContext ==
  \E w \in Questions, limit \in Limits :
    Ask([op |-> "context", words |-> w, limit |-> limit], Roots(index, w, limit, MinScore))

AskExplore ==
  /\ Cardinality(index) \in 1..MaxExplored
  /\ \E weight \in [index -> Weights], w \in Questions :
       Ask([op |-> "explore", weight |-> weight, words |-> w], Explore(index, weight, w))

\* Two names are compared.
AskDistance ==
  /\ index = {}
  /\ \E a, b \in Words, max \in 1..2 :
       Ask([op |-> "distance", a |-> a, b |-> b, max |-> max], BoundedEditDistance(a, b, max))

Reply == query # NoQuery /\ query' = NoQuery /\ answer' = NoAnswer /\ UNCHANGED index

Next == Insert \/ AskSearch \/ AskContext \/ AskExplore \/ AskDistance \/ Reply

Spec == Init /\ [][Next]_vars

-----------------------------------------------------------------------------
(* What the tools that look symbols up promise.                              *)

Searched == query.op = "search"
Asked == query.op = "context"
Explored == query.op = "explore"

Text == SelectSeq(query.tokens, LAMBDA t : ~IsFilter(t))
FtsFinds == \E n \in index : FtsMatches(Symbol[n], FtsTerms(Text))
                              /\ Passes(Symbol[n], query.kinds \union Values(query.tokens, "kind"),
                                        ParseQuery(query.tokens).langs)

(* Variables keep their types: an answer names indexed symbols, each once      *)
(* unless a query says a word twice, and no more than were asked for.          *)
TypeOK ==
  /\ index \in SUBSET DOMAIN Symbol /\ Cardinality(index) <= MaxIndex
  /\ Searched \/ Asked =>
       /\ Ids(answer) \subseteq index
       /\ Len(answer) <= IF Searched THEN query.limit ELSE Max({query.limit, 6})
       /\ (Asked \/ \A i, j \in DOMAIN query.tokens : i # j => query.tokens[i] # query.tokens[j])
            => IsInjective([i \in DOMAIN answer |-> answer[i].node])

(* The filters of a query are filters: in whatever way a symbol was found, it  *)
(* is of a kind that was asked for, in a path and with a name that the query   *)
(* limits to, and, unless full text found nothing, in a language of it.        *)
FiltersHold ==
  Searched =>
    LET p == ParseQuery(query.tokens)
    IN \A i \in DOMAIN answer :
         LET s == Symbol[answer[i].node]
         IN /\ query.kinds \union p.kinds # {} => s.kind \in query.kinds \union p.kinds
            /\ p.names # {} => \E f \in p.names : HasPart(s.name, f)
            /\ p.paths # {} => \E f \in p.paths, d \in ToSet(s.dirs) \union {s.stem} : HasPart(d, f)
            /\ p.langs # {} /\ (FtsFinds \/ Text = <<>>) => s.lang \in p.langs

(* A symbol that is named exactly as the word that was asked for comes first,   *)
(* also when better-rated full-text matches fill the list before it is reached: *)
(* the exact-name supplement has to find it, and the bonus to lift it.        *)
ExactNameFirst ==
  Searched /\ Len(query.tokens) = 1 /\ Text = query.tokens =>
    LET w == Raw(Head(query.tokens))
    IN (\E n \in index : Symbol[n].name = w /\ Passes(Symbol[n], query.kinds, {}))
         => answer # <<>> /\ Symbol[Head(answer).node].name = w

(* "FTS, then LIKE, then fuzzy": a query is answered by looser matches only     *)
(* when there is no closer one, so a symbol that merely resembles the query     *)
(* never stands beside one that contains it.                                *)
NoLooserBeside ==
  Searched /\ Len(query.tokens) = 1 /\ Text = query.tokens =>
    LET w == Raw(Head(query.tokens))
        close == {n \in Ids(answer) : FtsMatches(Symbol[n], FtsTerms(Text))
                                        \/ HasPart(Symbol[n].name, w) \/ HasPart(Symbol[n].qname, w)}
    IN close = {} \/ close = Ids(answer)

(* bounded_edit_distance is the edit distance wherever one of the two is       *)
(* within the bound: no name in reach is lost, and none out of reach counts.  *)
Distance(a, b) ==
  LET d[i \in 0..Len(a), j \in 0..Len(b)] ==
        IF i = 0 \/ j = 0 THEN i + j
        ELSE IF SubSeq(a, i, i) = SubSeq(b, j, j) THEN d[i - 1, j - 1]
        ELSE 1 + Min({d[i - 1, j], d[i, j - 1], d[i - 1, j - 1]})
  IN d[Len(a), Len(b)]

DistanceBounded ==
  query.op = "distance" =>
    LET d == Distance(query.a, query.b)
    IN answer <= query.max \/ d <= query.max => answer = d

(* "Test-file deprioritize": with two symbols alike but for their place, one in *)
(* a test file, a question of several words that says nothing of tests does    *)
(* not select the one in the test before the other.                         *)
Alike(m, n) ==
  /\ Symbol[m].name = Symbol[n].name /\ Symbol[m].kind = Symbol[n].kind
  /\ Symbol[m].words = Symbol[n].words
  /\ SelectSeq(Symbol[m].dirs, LAMBDA d : d # "test") = Symbol[n].dirs
  /\ Symbol[m].stem = Symbol[n].stem

Before(m, n) ==
  \E i, j \in DOMAIN answer : answer[i].node = m /\ answer[j].node = n /\ i < j

TestsYield ==
  Asked /\ Cardinality(SearchTerms(query.words)) >= 2 /\ ~IsTestQuery(query.words) =>
    \A m, n \in index :
      Alike(m, n) /\ Symbol[m].test /\ ~Symbol[n].test /\ Bm25[m] <= Bm25[n] /\ m > n
        => ~Before(m, n)

(* "a node that covers an additional query term is promoted": of two symbols   *)
(* that full text finds for a word with the same weight, the one whose name    *)
(* has another word of the question too is never selected after the other.    *)
CoveragePromotes ==
  Asked /\ Cardinality(SearchTerms(query.words)) = 2 =>
    \A m, n \in Ids(answer) :
      LET a == Symbol[m]
          b == Symbol[n]
          In(s, t) == HasPart(s.name, t)
      IN (/\ a.kind = b.kind /\ a.dirs = b.dirs /\ a.stem = b.stem /\ a.test = b.test
          /\ Bm25[m] >= Bm25[n]
          /\ \A t \in SearchTerms(query.words) : In(a, t)
          /\ a.name \notin ToSet(query.words) /\ b.name \notin ToSet(query.words)
          /\ \E t \in SearchTerms(query.words) : ~In(b, t) /\ ~FtsMatches(b, {t}))
         => ~Before(n, m)

(* Two symbols of one file that explore shows in blocks of their own are more  *)
(* than Gap lines apart, and the first line of a block is the first of the     *)
(* symbol whose source it shows.                                            *)
ClustersApart ==
  Explored =>
    /\ \A b \in ToSet(answer.blocks) : b.from = Symbol[b.node].from
    /\ \A b, c \in ToSet(answer.blocks) :
         FileOf(b.node) = FileOf(c.node) /\ b.from < c.from
           => Symbol[c.node].from - Symbol[b.node].to > Gap

-----------------------------------------------------------------------------
(* The properties above, by what they are about. *)

(* A search answers what was asked: its filters, the exact name first, looser    *)
(* matches only for want of closer ones, by a distance that is one.          *)
AnswersAsAsked == TypeOK /\ FiltersHold /\ ExactNameFirst /\ NoLooserBeside /\ DistanceBounded

(* The order of the roots of a question: coverage promotes, tests yield.       *)
RankingKept == TestsYield /\ CoveragePromotes
=============================================================================
