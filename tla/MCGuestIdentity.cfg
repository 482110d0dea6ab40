SPECIFICATION Spec
CONSTANTS
  r1 = r1
  r2 = r2
  r3 = r3
  r4 = r4
  phone = phone
  web = web
  i1 = i1
  n1 = n1
  Requests <- MCRequests
  Devices <- MCDevices
  InstallOf <- MCInstallOf
  Renames <- MCRenames
  None = None
SYMMETRY MCSymmetry
CHECK_DEADLOCK FALSE
INVARIANTS
  OneGuestPerInstall
  SecretAlwaysRelinks
  LockedOutExplained
  TokenNamesGuest
PROPERTIES
  SameGuestForEver
  TokensNeverReturn
  RegistrySpec
