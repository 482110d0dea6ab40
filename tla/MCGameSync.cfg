SPECIFICATION Spec
CONSTANTS
  r1 = r1
  r2 = r2
  r3 = r3
  g1 = g1
  g2 = g2
  h1 = h1
  h2 = h2
  Requests <- MCRequests3
  Guests <- MCGuests
  Hashes <- MCHashes
  ScoreBound = 2
  Submissions <- MCSubmissions
  MaxAttempts = 3
  None = None
SYMMETRY MCSymmetry
INVARIANTS
  OneRowPerKey
  BoardIsBest
  TruthfulVerdicts
  BestCoversAccepted
  RedisNeverAhead
  RedisConverges
PROPERTIES
  OnlyForward
  LedgerSpec
