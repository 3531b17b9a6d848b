SPECIFICATION Spec
CONSTANTS
  t1 = t1
  t2 = t2
  n1 = n1
  n2 = n2
  c1 = c1
  c2 = c2
  RootIno = 100
  FirstIno = 200
  Nul = Nul
  Refused = Refused
  Names = {n1, n2}
  Tokens = {t1}
  LastIno = 200
  Ids = {r1, r2}
  Payloads <- Writes
  MaxSize = 3
SYMMETRY Symmetry
INVARIANTS UnlinkRemovesLink
