SPECIFICATION Spec
CONSTANTS
  t1 = t1
  t2 = t2
  n1 = n1
  n2 = n2
  c1 = c1
  c2 = c2
  RootIno = 100
  FirstIno = 200
  Nul = Nul
  Refused = Refused
  Names = {n1, n2}
  Tokens = {t1, t2}
  LastIno = 201
  Ids = {r1, r2, r3}
  Payloads <- Writes
  MaxSize = 2
SYMMETRY SymmetryTokens
INVARIANTS UniqueNames NlinkCountsRows ChunksDisjoint ChunksOwned
PROPERTIES TokenIsolation ReadBack
