\* Every instruction of the assembler, every text of at most three statements and
\* every skool file of at most three lines with gaps between them.
CONSTANTS
  Literals <- MCLiterals
  Programs <- AssembledPrograms
SPECIFICATION Spec
INVARIANTS CountIsLeft UndefinedOnlyOnMisfit CompleteListing
PROPERTIES FaithfulListing DollarAtInstruction
