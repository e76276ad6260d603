CONSTANTS
  N_CONSUMERS = 2
  N_COPIES = 2
  A = A
  B = B
  X = X
  sa1 = sa1
  sa2 = sa2
  sb = sb
  sn = sn
  Session = {sa1, sa2}
  Identity = {A}
  IdentityOf <- IdentityOfSession
  NoIdentity = NoIdentity
  NoSession = NoSession
  Request = {r1}
  PING = PING
  Updater = Updater
  StakeTask = StakeTask
  Capacity = 1
  LeaderSets = {}
  StakeMaps = {}
  Inputs = {}
  U64 = 8
  RttSamples = {}
  MaxRtt = 0
  MaxPings = 1
SPECIFICATION FairSpec
PROPERTIES
  DepartedRemoved
  ToldEnds
  RequestAnswered
CHECK_DEADLOCK FALSE
