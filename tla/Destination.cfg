\* The same sessions: switches stand before and between the pathnames.
CONSTANTS
  Header = 2
  RamStart = 65524
  WordSize = 65536
  CountSize = 1000000
  IntLimit = 500000
  Snapshots = {}
  Literals = {0, 1, 2, 3, 4, 5, 6, 7}
  Programs <- MCPrograms
  Kind <- MCKind
  CommandLines <- MCCommandLines
  Sessions <- MCSessions
  Disks <- MCDisks
SPECIFICATION SessionSpec
PROPERTY DestinationNamed
