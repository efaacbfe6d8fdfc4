CONSTANTS
  Samples <- MCSamples
  Pieces <- MCPieces
  Length <- MCLength
  Window = 2
  BuiltIn = {"NgIf"}
  TsBuiltin = {"string"}
  JavaCap = 1
  FileNames <- MCFileNames
  Metas <- MCMetas
  References <- MCReferences
  Roots <- MCRoots
  Files = {"app.py", "setup.py"}
  Setup = {"setup.py"}
  Paths = {"/a", "/b"}
  Bodies = {"one", "two"}
  MaxEdits = 3
SPECIFICATION Spec
CHECK_DEADLOCK FALSE
INVARIANTS TextsRead RoutesFound RulesHold NoGhostRoutes
