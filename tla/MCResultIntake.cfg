SPECIFICATION Spec
CHECK_DEADLOCK FALSE
CONSTANTS
  r1 = r1
  r2 = r2
  r3 = r3
  g1 = g1
  g2 = g2
  i1 = i1
  s1 = s1
  s2 = s2
  seed = seed
  Empty = Empty
  None = None
  Missing = Missing
  Malformed = Malformed
  Unparsable = Unparsable
  Requests <- MCRequests
  Guests <- MCGuests
  Instances <- MCInstances
  Runs <- MCRuns
  Uploads <- MCUploads
  Options <- MCOptions
  RawConfigs <- MCRawConfigs
  Secrets <- MCSecrets
  RandomSecret = s1
  DefaultMaxScore = 2
  DefaultMaxAge = 1
  DefaultSkew = 1
  MsPerSecond = 2
  SecondsPerMinute = 2
  Production = TRUE
  LastTime = 1
  MaxEdits = 2
SYMMETRY MCSymmetry
INVARIANTS
  RetryExplained
  DocumentedOrder
  RegisteredConfigIsUsed
  UnsignedOnlyAfterEdit
