SPECIFICATION Spec
CONSTANTS
  i1 = i1
  i2 = i2
  old1 = old1
  old2 = old2
  u1 = u1
  u2 = u2
  g1 = g1
  g2 = g2
  h1 = h1
  h2 = h2
  None = None
  Instances <- MCInstances
  FirstMonth = 1
  LastMonth = 2
  RowIds <- MCRowIds
  LegacyRows <- MCLegacyRows
  Legacy <- MCLegacy
  Guests <- MCGuests
  Hashes <- MCHashes
  MonthsAhead = 1
  RetentionMonths = 1
  KeyRetentionMonths = 1
  BatchSize = 1
SYMMETRY MCSymmetry
INVARIANTS
  CreatedOnce
  LookAheadHolds
  ExpiredGone
  ExpiredRowsGone
  StoredOnce
  RefusalIsTrue
PROPERTIES
  KeptForRetention
  PruneLeavesNothing
  PrunesOweLess
