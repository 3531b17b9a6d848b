SPECIFICATION ApartSpec
CONSTANTS
  Threads = {t1, t2}
  LastDir = 1
  Names = {n1, n2}
  FirstIno = 200
  LastIno = 201
  LastEntry = 3
  Objects = {o1, o2, o3}
  Idle = Idle
INVARIANTS LastName PointersLive CountsSettle EntriesOnce
SYMMETRY Symmetry
