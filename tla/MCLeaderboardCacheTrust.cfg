SPECIFICATION Spec
CONSTANTS
  g1 = g1
  g2 = g2
  w1 = w1
  w2 = w2
  job = job
  i1 = i1
  q1 = q1
  Guests <- MCGuests
  Warmers <- MCWarmers
  Instances <- MCInstances
  Readers <- MCReaders
  ScoreBound = 2
  MaxFaults = 1
  None = None
  Writers <- MCWriters1
PROPERTIES
  TrustedInSync
