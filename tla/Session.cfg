\* Single runs with up to three arguments after the first, in any order, over
\* seven disks; and sessions of four and five runs.
CONSTANTS
  Header = 2
  RamStart = 65524
  WordSize = 65536
  CountSize = 1000000
  IntLimit = 500000
  Snapshots = {}
  Literals = {0, 1, 2, 3, 4, 5, 6, 7}
  Programs <- MCPrograms
  Kind <- MCKind
  CommandLines <- MCCommandLines
  Sessions <- MCSessions
  Disks <- MCDisks
SPECIFICATION SessionSpec
INVARIANTS PatchedAsNamed RefusedUnchanged SavesInside ListedAgain
