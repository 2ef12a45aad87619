SPECIFICATION Spec
CONSTANTS
  a = a
  b = b
  h1 = h1
  h2 = h2
  r1 = r1
  r2 = r2
  Rooms = {r1, r2}
  Handlers = {h1, h2}
  Instances = {a}
  Home <- OneHome
  Wants = {TRUE}
  Widens = {TRUE, FALSE}
  MaxPos = 2
  MaxData = 1
  MaxGen = 2
  MaxNid = 2
  MaxFaults = 1
INVARIANTS TypeOK NothingTrustedIsMissing NoDataIsMissing NothingComesTwice
SYMMETRY Symmetry
CHECK_DEADLOCK FALSE
