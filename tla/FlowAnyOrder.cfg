SPECIFICATION Spec
CONSTANTS
  f1 = f1  f2 = f2  c1 = c1  c2 = c2  s1 = s1  w1 = w1  w2 = w2  a1 = a1
  Flows = {f1}
  Clients = {c1}
  Staff = {c1}
  Approvers = {}
  Workers = {w1}
  Faulty = {}
  Disciplined = FALSE
  Overlap = TRUE
  MaxRow = 1
  StepTypes <- AskSteps
  BranchNames <- NoBranches
  Def <- AskDef
  InitialStep <- AskFirst
INVARIANTS
  TypeOK
  FlowNamesRows
  AttemptsBounded
CHECK_DEADLOCK FALSE
