\* What test/main.cpp does: every instruction, listed in hexadecimal.
CONSTANTS
  Literals <- MCLiterals
  Programs <- WrittenPrograms
SPECIFICATION Spec
PROPERTY HexadecimalListing
