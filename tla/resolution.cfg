CONSTANTS
  Capital <- MCCapitalOf
  Lower <- MCLower
  Group <- MCGroup
  Block <- MCBlock
  Asked <- MCAsked
  MaxFiles = 3
  Imports <- MCImports
  Language <- MCLanguage
  Builtin <- MCBuiltin
  BuiltinStem <- MCBuiltinStem
  PythonMethod <- MCPythonMethod
  GoProjects <- MCGoProjects
  SelfName <- MCSelfName
SPECIFICATION Spec
INVARIANTS NearestWins PrefilterKeeps AnswersStable GoRule
