CONSTANTS
  A = A
  B = B
  C = C
  Identity = {A, B, C}
  Schedules <- ThreeEpochs
  SLOTS_PER_EPOCH = 2
  N_LEADERS = 2
  SlotsPerLeader = 1
  InfoMaps = {{A, C}}
  FirstSlot = 1
  MaxSlot = 4
  Failures = {"subscription", "schedule", "no_schedule", "nodes", "epoch", "stakes"}
SPECIFICATION FairSpec
INVARIANTS
  TypeOK
  NoChangeLost
  LeadersUpcoming
  StakesNotOlder
PROPERTIES
  ProducerAnnounced
  LeadersFollowed
  StakesFollowed
CHECK_DEADLOCK FALSE
