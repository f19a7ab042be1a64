\* Four packs on a disk the page may leave, three languages for them.
CONSTANTS
  PackFiles = {1, 2, 3, 4}
  Codes = 3
  Cultures = {"en", "de", "it", "zh"}
  Default = "en"
  CultureOf <- MCCultureOf
  CommonName = {"Base", "Items"}
  PackInfo <- MCPackInfo
  Disks <- MCDisks
SPECIFICATION Spec
INVARIANTS TypeOK PacksServed MenuTrue CompletedText
