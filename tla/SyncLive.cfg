SPECIFICATION FairSpec
CONSTANTS
  a = a
  b = b
  h1 = h1
  h2 = h2
  r1 = r1
  r2 = r2
  Rooms = {r1}
  Handlers = {h1, h2}
  Instances = {a}
  Home <- OneHome
  Wants = {TRUE}
  Widens = {FALSE}
  MaxPos = 1
  MaxData = 1
  MaxGen = 4
  MaxNid = 2
  MaxFaults = 2
PROPERTIES CommittedIsDelivered
CHECK_DEADLOCK FALSE
