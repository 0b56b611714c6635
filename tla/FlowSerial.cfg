SPECIFICATION FairSpec
CONSTANTS
  f1 = f1  f2 = f2  c1 = c1  c2 = c2  s1 = s1  w1 = w1  w2 = w2  a1 = a1
  Flows = {f1, f2}
  Clients = {c1}
  Staff = {c1}
  Approvers = {}
  Workers = {w1}
  Faulty = {}
  Disciplined = TRUE
  Overlap = FALSE
  MaxRow = 1
  StepTypes <- DepositSteps
  BranchNames <- DepositBranches
  Def <- DepositDef
  InitialStep <- InitSteps
INVARIANTS
  StepResultsKept
  SessionFollowsFlows
PROPERTIES
  RunningHasWork
CHECK_DEADLOCK FALSE
