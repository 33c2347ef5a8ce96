\* Four calls of PoolConn, with a URL that parses and one that does not.
CONSTANTS
  c1 = c1
  c2 = c2
  c3 = c3
  c4 = c4
  NoPool = NoPool
  Callers = {c1, c2, c3, c4}
SPECIFICATION Spec
SYMMETRY Symmetry
INVARIANTS
  TypeOK
  ReturnedPoolExists
PROPERTIES
  CreatedOnlyAtFirst
  SettledForGood
