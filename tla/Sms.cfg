SPECIFICATION FairSpec
CONSTANTS
  r1 = r1  r2 = r2
  Requests = {r1, r2}
  Chains <- SomeChains
  Msisdns <- SomeNumbers
  Impatient = {r1}
  MaxAttempts = 2
  Spacing = 1
  MaxTokens = 6
INVARIANTS
  TypeOK
  RefusedTokenNotReused
  NoNeedlessFetch
  SameRecipient
PROPERTIES
  ImplementsContract
  SendsSpaced
  Answered
CHECK_DEADLOCK FALSE
