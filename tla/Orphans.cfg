SPECIFICATION Spec
CONSTANTS
  p1 = p1  p2 = p2
  c1 = c1  c2 = c2
  Procs = {p1, p2}
  Conns = {c1, c2}
  NoConn = NoConn
  Names = {"n1", "n2"}
  Machines = {"m1", "m2"}
  Paths = {"d1"}
  MaxIdle = 2
  MaxFileId = 2
  MaxWatcherId = 2
SYMMETRY Interchangeable
INVARIANTS NoOrphans
