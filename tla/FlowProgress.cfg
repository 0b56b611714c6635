SPECIFICATION FairSpec
CONSTANTS
  f1 = f1  f2 = f2  c1 = c1  c2 = c2  s1 = s1  w1 = w1  w2 = w2  a1 = a1
  Flows = {f1}
  Clients = {c1}
  Staff = {}
  Approvers = {c1}
  Workers = {w1, w2}
  Faulty = {}
  Disciplined = TRUE
  Overlap = TRUE
  MaxRow = 1
  StepTypes <- CallSteps
  BranchNames <- NoBranches
  Def <- CallDef
  InitialStep <- AskFirst
INVARIANTS
  OneExecutor
PROPERTIES
  QueuedStepSettles
CHECK_DEADLOCK FALSE
