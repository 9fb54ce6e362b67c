\* Numbers of bits past 7.
CONSTANTS
  Literals <- LiteralsBeyond7
  Programs <- WrittenPrograms
SPECIFICATION Spec
PROPERTY BitAsWritten
