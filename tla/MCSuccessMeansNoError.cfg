CONSTANTS
  P = P
  T = T
  C = C
  D = D
  Requests = 1
  Partner = {P, T}
  Unknown = P
  Denied = Denied
  TestPartners = {T}
  Consumer = {C, D}
  ConsumerLists <- OneList
  CheckAfter = 1
  MaxBundle = 2
SPECIFICATION Spec
INVARIANTS
  SuccessMeansNoError
CHECK_DEADLOCK FALSE
