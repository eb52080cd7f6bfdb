CONSTANTS
  c1 = c1
  c2 = c2
  c3 = c3
  Conn = {c1, c2, c3}
  SomeConns = 1
  ManyConns = 2
  ExpireFew = 3
  ExpireSome = 2
  ExpireMany = 1
  MaxPass = 5
SYMMETRY ConnSymmetry
SPECIFICATION ExpireSpec
PROPERTIES
  OnlyDeadExpired
CHECK_DEADLOCK FALSE
