\* Which pack is loaded when the first language has none.
CONSTANTS
  PackFiles = {1, 2, 3, 4}
  Codes = 3
  Cultures = {"en", "de", "it", "zh"}
  Default = "en"
  CultureOf <- MCCultureOf
  CommonName = {"Base", "Items"}
  PackInfo <- MCPackInfo
  Disks <- MCDisks
SPECIFICATION Spec
INVARIANTS FallbackLoads
