CONSTANTS
  P = P
  T = T
  C = C
  D = D
  Requests = 3
  Partner = {P, T}
  Unknown = P
  Denied = Denied
  TestPartners = {T}
  Consumer = {C, D}
  ConsumerLists <- SomeLists
  CheckAfter = 0
  MaxBundle = 2
SPECIFICATION FairSpec
INVARIANTS
  TypeOK
  BooksBalance
  OnePlace
  NoUndueCredit
  DueInFront
PROPERTIES
  PublishedIsCounted
  KeepsPromise
CHECK_DEADLOCK FALSE
