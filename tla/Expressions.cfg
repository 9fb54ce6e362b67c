\* Every text of at most two lines over ExpressionLines, in both relative modes.
CONSTANTS
  ByteSize = 4
  WordSize = 16
  DefaultOrg = 5
  Names = {"a", "b"}
  NoName = "none"
  Sources <- ExpressionSources
  BitOr <- MCBitOr
  BitAnd <- MCBitAnd
SPECIFICATION Spec
INVARIANTS NoDollarDeferred AccBalanced OperandsOnStack UndefinedOnlyFrom
PROPERTIES ImplementsTwoPass Termination
