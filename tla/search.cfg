CONSTANTS
  Symbol <- MCSymbol
  Bm25 <- MCBm25
  ValidKind = {"class", "function", "method", "variable"}
  Canonical <- MCCanonical
  MinFetch = 2
  Fetched = 1
  Titled = {"store"}
  Common = {"how", "does", "the"}
  Stop = {"how", "does", "the"}
  FtsStop = {"how", "does", "the", "users"}
  Idf <- MCIdf
  Queries <- MCQueries
  Questions <- MCQuestions
  Limits = {1, 6}
  MaxIndex = 4
  MaxExplored = 3
  Weights = {1, 10}
  Gap = 2
  PerFile = 9
  Total = 15
  MaxFiles = 2
  Words <- MCWords
SPECIFICATION Spec
INVARIANTS AnswersAsAsked RankingKept ClustersApart
