SPECIFICATION FairSpec
CONSTANTS
  r1 = r1
  r2 = r2
  r3 = r3
  g1 = g1
  g2 = g2
  h1 = h1
  h2 = h2
  Requests <- MCRequests2
  Guests <- MCGuests
  Hashes <- MCHashes
  ScoreBound = 2
  Submissions <- MCSubmissions
  MaxAttempts = 3
  None = None
PROPERTIES
  Termination
  CacheSpec
