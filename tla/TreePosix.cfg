SPECIFICATION Spec
CONSTANTS
  n1 = n1
  n2 = n2
  b1 = b1
  b2 = b2
  b3 = b3
  c1 = c1
  c2 = c2
  RootIno = 100
  FirstIno = 200
  NULL = NULL
  ZERO = ZERO
  Nul = Nul
  Junk = Junk
  Names = {n1, n2}
  LastIno = 201
  MaxLinks = 1
  Buffers = {b1, b2, b3}
  SizeClass <- Classes
  Payloads <- Writes
  MaxSize = 3
  Faults = {}
SYMMETRY Symmetry
INVARIANTS NoLeak
PROPERTIES ImplementsPosixFs
