CONSTANTS
  N_CONSUMERS = 3
  N_COPIES = 2
  c1 = c1
  c2 = c2
  c3 = c3
  c4 = c4
  x1 = x1
  x2 = x2
  x3 = x3
  x4 = x4
  MaxStake = 2
  MaxTotal = 7
  Inputs <- Calls
SPECIFICATION Spec
INVARIANTS
  TypeOK
  MatchesClosedForm
  QuotaFilled
  LeadersHaveCopies
  EntriesHaveTpu
CHECK_DEADLOCK FALSE
