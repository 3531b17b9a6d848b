SPECIFICATION LinkedSpec
CONSTANTS
  n1 = n1
  n2 = n2
  b1 = b1
  b2 = b2
  r1 = r1
  r2 = r2
  r3 = r3
  r4 = r4
  c1 = c1
  RootIno = 100
  FirstIno = 200
  NULL = NULL
  ZERO = ZERO
  Nul = Nul
  Junk = Junk
  Refused = Refused
  Token = t1
  SizeClass <- Exact
  Names = {n1, n2}
  LastIno = 201
  MaxLinks = 2
  Buffers = {b1, b2}
  Payloads <- Writes
  MaxSize = 2
  Faults = {"lost", "answer", "nomem", "load", "copy", "junk"}
  Ids = {r1, r2}
  ListRoom = 9
  MaxBehind = 1
SYMMETRY Symmetry
CONSTRAINTS OneFile OnlyWritten
INVARIANTS TreeInDatabase LoadedFits
PROPERTIES NoNewJunk
