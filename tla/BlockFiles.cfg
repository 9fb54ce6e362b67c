\* Every blocks file of at most four tokens, and those dump_blocks prints.
CONSTANTS
  Header = 2
  WordSize = 16
  CountSize = 64
  IntLimit = 32
  Snapshots <- BlockFiles
  Programs <- PrintedPrograms
SPECIFICATION Spec
INVARIANTS ReadTypeOK ReadsWhatIsPrinted DefinedIfLineEnded
PROPERTY ReadingEnds
