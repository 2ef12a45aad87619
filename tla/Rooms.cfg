CONSTANTS
  alice = alice  bob = bob  carol = carol
  h1 = h1  h2 = h2  h3 = h3
  i1 = i1  i2 = i2
  Users = {alice, bob, carol}
  Creators = {}
  MaxLevel = 2
  Start <- MCStart
  Requests <- MCRequests
  Handlers = {h1, h2}
  Instances = {i1, i2}
  Home <- OneEach
  MaxPos = 3
  MaxSweeps = 1
  MaxFaults = 2
SPECIFICATION Spec
CHECK_DEADLOCK FALSE
INVARIANTS TypeOK LinearHistory NothingLandsAfterAKick ProjectionsAgree RetriesAgree NobodyRisesAboveTheGranter ReadersSeeTheirHistory
PROPERTY ImplementsRoomHistory
