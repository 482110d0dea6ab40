SPECIFICATION FairSpec
CONSTANTS
  w1 = w1
  job = job
  i1 = i1
  q1 = q1
  Guests <- MCGuests
  Warmers <- MCWarmers
  Instances <- MCInstances
  Readers <- MCReaders
  Writers <- MCWriters
  ScoreBound = 2
  MaxFaults = 1
  None = None
  TieBreakerBase = 4
  SuffixSpan = 2
  MaxScore = 2
  Mantissa = 8
  Double <- MCDouble
INVARIANTS
  PagesAgree
  HigherScoreFirst
PROPERTIES
  EventuallyInSync
