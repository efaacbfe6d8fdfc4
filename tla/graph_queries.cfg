CONSTANTS
  Node <- MCNode
  KindOf <- MCKindOf
  FileOf <- MCFileOf
  LineOf <- MCLineOf
  NameOf <- MCNameOf
  TestNode <- MCTestNode
  KindBonus <- MCKindBonus
  Pools <- MCPools
  RootLists <- MCRootLists
  Depths = {1, 2, 6}
  Limits = {2, 7}
  Caps = {2, 5}
  Starts = {1, 2, 3}
  MaxFamily = 2
  MinWindow = 2
SPECIFICATION Spec
INVARIANTS TraversalsExact DependantsFound BudgetsKept ViewsHonest
