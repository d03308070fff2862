CONSTANTS
  PknWidth = 2
  Alphabet = {"[", "]", ",", "1"}
  MaxTextLen = 7
SPECIFICATION Spec
INVARIANT OddGroupRejected
