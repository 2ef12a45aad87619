CONSTANTS
  alice = alice  bob = bob  carol = carol
  h1 = h1  h2 = h2  h3 = h3
  i1 = i1  i2 = i2
  Users = {alice, bob, carol}
  Creators = {}
  MaxLevel = 2
  Start <- MCStart
  Requests <- MCFewRequests
  Handlers = {h1, h2, h3}
  Instances = {i1, i2}
  Home <- TwoInstances
  MaxPos = 3
  MaxSweeps = 0
  MaxFaults = 1
SPECIFICATION FairSpec
CHECK_DEADLOCK FALSE
PROPERTY WritesEnd
