\* Every sequence of three literals.
CONSTANTS
  ByteSize = 256
  WordSize = 65536
  IntLimit = 200000
  LongLimit = 5000000
  MaxLiterals = 3
  Following = {0, 44, 200}
  Literals <- MCLiterals
SPECIFICATION Spec
INVARIANTS TypeOK ValueAsWritten CharacterInByte ValueIsOwn
