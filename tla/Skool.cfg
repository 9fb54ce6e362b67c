\* Every file of at most three lines over SkoolLines, at any of six addresses.
CONSTANTS
  ByteSize = 4
  WordSize = 16
  DefaultOrg = 5
  Names = {"a", "b"}
  NoName = "none"
  Sources <- SkoolSources
  Files <- SkoolFiles
  BitOr <- MCBitOr
  BitAnd <- MCBitAnd
SPECIFICATION SkoolSpec
INVARIANTS AscendingAssembles AscendingHolesSound AscendingBlocksCover
PROPERTIES SkoolEnds AscendingRefines
