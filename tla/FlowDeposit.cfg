SPECIFICATION Spec
CONSTANTS
  f1 = f1  f2 = f2  c1 = c1  c2 = c2  s1 = s1  w1 = w1  w2 = w2  a1 = a1
  Flows = {f1}
  Clients = {c1}
  Staff = {s1}
  Approvers = {}
  Workers = {w1}
  Faulty = {c1, s1, w1}
  Disciplined = TRUE
  Overlap = TRUE
  MaxRow = 1
  StepTypes <- DepositSteps
  BranchNames <- DepositBranches
  Def <- DepositDef
  InitialStep <- InitSteps
INVARIANTS
  OneOpenStep
PROPERTIES
  SettledStays
  RetriesCounted
CHECK_DEADLOCK FALSE
