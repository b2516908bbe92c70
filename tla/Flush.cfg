SPECIFICATION OutcomeSpec
CONSTANTS
  p1 = p1  p2 = p2
  top = top  sub = sub  dest = dest
  a = a  b = b
  Procs = {p1}
  Names = {"n1"}
  Machines = {"m1"}
  Dirs = {top, dest}
  Under <- SmallUnder
  Targets = {top, dest}
  Bases = {a, b}
  Versions = {"v1"}
  Broken = Broken
  Absent = Absent
  NoFile = NoFile
  FkModes = {TRUE}
  Watchers <- OneWatcher
  MaxFileId = 2
INVARIANTS TypeOK DeliversApart
PROPERTIES FlushAdvances
