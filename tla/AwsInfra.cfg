SPECIFICATION FairSpec
CONSTANTS
  Instances = {1, 2, 3, 4}
  NoInstance = 0
  Eips = {1, 2}
  NoEip = 0
  MaxFaults = 3
CHECK_DEADLOCK FALSE
INVARIANTS AtMostOneEip SpinDownReleases
PROPERTIES AddressStays TerminationCompletes KeepsPromises
