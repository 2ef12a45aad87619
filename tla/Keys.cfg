SPECIFICATION Spec
CONSTANTS
  h1 = h1  h2 = h2
  v1 = v1  v2 = v2  f1 = f1  f2 = f2  m1 = m1  m2 = m2
  None = None
  Handlers = {h1, h2}
  Uploads <- MCUploads
  MaxOneTimeKeys = 2
  MaxUploads = 3
  MaxClaims = 3
  MaxFaults = 1
SYMMETRY Symmetric
INVARIANTS TypeOK HandedOutOnce OneTimeKeysWithinTheCap NothingAcceptedIsLost
           UnusedFallbackIsUnused StaleMeansNews
CHECK_DEADLOCK FALSE
