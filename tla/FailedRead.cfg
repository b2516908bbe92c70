SPECIFICATION OutcomeSpec
CONSTANTS
  p1 = p1  p2 = p2
  n1 = n1  n2 = n2
  d1 = d1  d2 = d2  d3 = d3
  f1 = f1  f2 = f2  f3 = f3
  Procs = {p1}
  Names = {n1}
  Machines = {"m1"}
  Dirs = {d1, d2}
  Roots = {d1}
  Files = {f1, f2}
  Subdirs <- SmallTree
  DirOf <- SmallDirOf
  FkModes = {TRUE}
  Ignorable = {}
  FlushExisting = {FALSE}
  Idle = Idle
  MaxFileId = 3
  MaxWatcherId = 1
SYMMETRY Interchangeable
INVARIANTS SuccessMeansReconciled
