SPECIFICATION Spec
CONSTANTS
  a = a
  b = b
  h1 = h1
  h2 = h2
  r1 = r1
  r2 = r2
  Rooms = {r1}
  Handlers = {h1, h2}
  Instances = {a, b}
  Home <- TwoHomes
  Wants = {TRUE}
  Widens = {FALSE}
  MaxPos = 1
  MaxData = 0
  MaxGen = 2
  MaxNid = 2
  MaxFaults = 1
INVARIANTS NothingTrustedIsMissing
CHECK_DEADLOCK FALSE
