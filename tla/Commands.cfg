SPECIFICATION FairSpec
CONSTANTS
  c1 = c1  c2 = c2
  n1 = n1  n2 = n2
  m1 = m1  m2 = m2
  s1 = s1
  Cmds = {c1, c2}
  Names = {n1, n2}
  Machines = {m1}
  Paths = {s1}
  Workloads <- Everyday
  FkModes = {TRUE}
  ClientOIDC = TRUE
  ServerOIDC = TRUE
  Free = Free
  Window = 1
  MaxLogins = 2
  MaxWatcherId = 1
INVARIANTS TypeOK LeavesNothing AnswerIsTrue TokensFollowAccount
PROPERTIES CommandEnds FinishedHandlersEnd KeepsContract
