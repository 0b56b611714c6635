SPECIFICATION Spec
CONSTANTS
  Null = Null
  Unrendered = Unrendered
  Unparsable = Unparsable
  Absent = Absent
  FlowFiles <- MCFlowFiles
  SessionFiles <- MCSessionFiles
  Boots <- MCBoots
  SessionRequests <- MCSessionRequests
  FlowRequests <- MCFlowRequests
  Inputs <- MCInputs
  Replies <- MCReplies
  Numbers <- MCNumbers
  Code <- MCCode
  UserId = "u1"
  MaxAdds = 2
  MaxNow = 1
INVARIANTS
  TypeOK
  RegistryClosed
  
  TriesBounded
  PhoneAgrees
  
  ScoreIsVerified
  
CHECK_DEADLOCK FALSE
