\* Raw bytes listed as code, and blocks that do not fit the memory.
CONSTANTS
  Literals <- MCLiterals
  Programs <- Snapshots
SPECIFICATION Spec
INVARIANT FittingBlocksListed
PROPERTIES StableListing Termination
