SPECIFICATION Spec
CONSTANTS
  s1 = s1
  s2 = s2
  s3 = s3
  s4 = s4
  s5 = s5
  g1 = g1
  a1 = a1
  Slots <- MCSlots
  Guests <- MCGuests
  Addresses <- MCAddresses
  Limit = 2
  IpLimit = 3
  Window = 2
  MaxFaults = 1
  None = None
SYMMETRY MCSymmetry
INVARIANTS
  AtMostTwice
  OnlyFaultsLockOut
PROPERTIES
  BlockEndsClean
