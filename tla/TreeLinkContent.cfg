SPECIFICATION Spec
CONSTANTS
  n1 = n1
  n2 = n2
  b1 = b1
  b2 = b2
  b3 = b3
  c1 = c1
  c2 = c2
  RootIno = 100
  FirstIno = 200
  NULL = NULL
  ZERO = ZERO
  Nul = Nul
  Junk = Junk
  Names = {n1, n2}
  LastIno = 200
  MaxLinks = 2
  Buffers = {b1, b2}
  SizeClass <- Classes
  Payloads <- OneByte
  MaxSize = 2
  Faults = {}
PROPERTIES LinksKeepContent
