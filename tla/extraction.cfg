CONSTANTS
  Trees <- SmallTrees
SPECIFICATION GrownSpec
CHECK_DEADLOCK FALSE
INVARIANTS BatchStores ScopesMatch DocsNextBelow
