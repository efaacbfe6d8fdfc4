CONSTANTS
  c1 = c1  c2 = c2  NoConn = NoConn  x = x  t = t  u = u
  Conn = {c1, c2}
  Loaders = {c1}
  Writers = {c2}
  Id = {x}
  Text = {t, u}
  Versions = {5, 6}
  InitVersions = {1}
  MaxRow = 3
  MaxMishaps = 1
SPECIFICATION Spec
INVARIANTS SearchSound
PROPERTIES OpensWell
SYMMETRY Symmetry
