SPECIFICATION FairSpec
CONSTANTS
  p1 = p1  p2 = p2
  top = top  sub = sub  dest = dest
  a = a  b = b
  Procs = {p1, p2}
  Names = {"n1"}
  Machines = {"m1", "m2"}
  Dirs = {top, dest}
  Under <- SmallUnder
  Targets = {dest}
  Bases = {a}
  Versions = {"v1"}
  Broken = Broken
  Absent = Absent
  NoFile = NoFile
  FkModes = {TRUE}
  Watchers <- OneWatcher
  MaxFileId = 1
INVARIANTS SessionsAreThePool
PROPERTIES FlushEnds
