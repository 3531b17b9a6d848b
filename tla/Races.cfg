SPECIFICATION Spec
CONSTANTS
  Threads = {t1, t2}
  LastDir = 1
  Names = {n1, n2}
  FirstIno = 200
  LastIno = 208
  LastEntry = 4
  Objects = {o1, o2, o3}
  Idle = Idle
INVARIANT LastName
