CONSTANTS
  s1 = s1
  h1 = h1
  Stream = {s1}
  Source = {h1}
  SourceOf <- OneHost
  max_permits = 1
  MaxAttempts = 1
  MaxTx = 2
  MaxTpus = 2
SPECIFICATION Spec
PROPERTIES
  PermitsFed
CHECK_DEADLOCK FALSE
