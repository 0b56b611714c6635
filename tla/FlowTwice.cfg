SPECIFICATION Spec
CONSTANTS
  f1 = f1  f2 = f2  c1 = c1  c2 = c2  s1 = s1  w1 = w1  w2 = w2  a1 = a1
  Flows = {f1}
  Clients = {c1, c2}
  Staff = {}
  Approvers = {}
  Workers = {}
  Faulty = {}
  Disciplined = TRUE
  Overlap = TRUE
  MaxRow = 1
  StepTypes <- DocumentSteps
  BranchNames <- NoBranches
  Def <- DocumentDef
  InitialStep <- SubmitFirst
INVARIANTS
  OneOpenStep
CHECK_DEADLOCK FALSE
