\* Whose text is shown of two packs that translate the same file.
CONSTANTS
  PackFiles = {1, 2, 3, 4}
  Codes = 3
  Cultures = {"en", "de", "it", "zh"}
  Default = "en"
  CultureOf <- MCCultureOf
  CommonName = {"Base", "Items"}
  PackInfo <- MCPackInfo
  Disks <- MCDisks
SPECIFICATION Spec
INVARIANTS HigherOverrides
