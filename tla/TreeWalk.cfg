SPECIFICATION WalkSpec
CONSTANTS
  top = top  left = left  right = right  deep = deep
  fTop = fTop  fLeft = fLeft  fDeep = fDeep
  Dirs = {top, left, right, deep}
  Files = {fTop, fLeft, fDeep}
  Subdirs <- TreeOfFour
  DirOf <- FilesOfThree
  Root = top
  Ignored = {fLeft}
INVARIANTS WalkTypeOK SurvivesOneFailure
PROPERTIES ImplementsScan WalkEnds WalkAdvances
