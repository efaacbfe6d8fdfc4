CONSTANTS
  a = a  b = b  x = x  y = y  q = q  a1 = a1  a2 = a2  b1 = b1  b2 = b2
  w = w  g = g  h = h
  NoRow = NoRow NoProc = NoProc NoFile = NoFile NoText = NoText
  File = {a, b}
  Symbol = {x, y}
  Name = {x, y, q}
  Content = {a1, a2, b1, b2}
  Defs <- MCDefs
  Uses <- MCUses
  Answers <- MCAnswers
  Local <- MCLocal
  Structural <- MCStructural
  Texts <- MCTexts
  SizeOf <- MCSizeOf
  RawSize <- MCRawSize
  ZeroStamp = {}
  Live = {w}
  Cli = {}
  Indexer = {}
  CoarseClock = TRUE
  FallbackDivisor = 1
  CommitRetries = 1
  MaxEdits = 1
  MaxRuns = 0
  MaxFaults = 0
  MaxCrashes = 0
SPECIFICATION Spec
INVARIANTS DependantsResolved
CHECK_DEADLOCK FALSE
