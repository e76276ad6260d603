CONSTANTS
  s1 = s1
  h1 = h1
  Stream = {s1}
  Source = {h1}
  SourceOf <- OneHost
  max_permits = 1
  MaxAttempts = 3
  MaxTx = 1
  MaxTpus = 2
SPECIFICATION FairSpec
INVARIANTS
  TypeOK
  RetryNeverEnds
  ForwardBooks
PROPERTIES
  FeedersEnd
  CopiesEnd
CHECK_DEADLOCK FALSE
