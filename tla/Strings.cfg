\* Every string of up to eight characters.
CONSTANTS
  Strings <- MCStrings
  Backslash = 92
SPECIFICATION Spec
INVARIANT PushesUnescaped
PROPERTY UnescapingEnds
