CONSTANTS
  Versions <- MCVersions
  Starts <- MCStarts
  Edits <- MCEdits
  Breaks = {"torn"}
  Lists = {"list"}
  Headers <- MCHeaders
  MaxSteps = 4
SPECIFICATION Spec
CHECK_DEADLOCK FALSE
INVARIANTS OwnKept EndsAsSaid
PROPERTIES InstallIsStable
