\* Every text of at most three lines over SymbolLines, in both relative modes.
CONSTANTS
  ByteSize = 4
  WordSize = 16
  DefaultOrg = 5
  Names = {"a", "b"}
  NoName = "none"
  Sources <- SymbolSources
  BitOr <- MCBitOr
  BitAnd <- MCBitAnd
SPECIFICATION Spec
INVARIANTS TypeOK HolesSound SymbolsDisjoint RelativeLandsOnTarget BlocksTile
PROPERTIES ImplementsTwoPass FixupsWriteOnce
