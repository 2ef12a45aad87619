SPECIFICATION FairSpec
CONSTANTS
  d1 = d1  d2 = d2
  h1 = h1  h2 = h2
  Devices = {d1, d2}
  Handlers = {h1, h2}
  Requests <- MCRequests
  MaxRequests = 3
  MaxFaults = 1
INVARIANTS TypeOK SpentOnce TheOldEnds NothingComesBack
PROPERTY RequestsEnd
CHECK_DEADLOCK FALSE
