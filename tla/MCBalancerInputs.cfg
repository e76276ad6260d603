CONSTANTS
  N_CONSUMERS = 2
  N_COPIES = 2
  A = A
  B = B
  X = X
  sa1 = sa1
  sa2 = sa2
  sb = sb
  sn = sn
  Session = {sa1, sn}
  Identity = {A, B, X}
  IdentityOf <- IdentityOfSession
  NoIdentity = NoIdentity
  NoSession = NoSession
  Request = {r1}
  PING = PING
  Updater = Updater
  StakeTask = StakeTask
  Capacity = 1
  LeaderSets = {{X}}
  StakeMaps <- SomeStakes
  Inputs = {"metrics", "rtt", "pong"}
  U64 = 8
  RttSamples = {2, 3}
  MaxRtt = 3
  MaxPings = 1
SPECIFICATION Spec
INVARIANTS
  TypeOK
  ResetSeriesOwned
  RttInRange
CHECK_DEADLOCK FALSE
