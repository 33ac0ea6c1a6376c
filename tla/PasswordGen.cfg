SPECIFICATION Spec
CONSTANTS
  upper = upper  digits = digits  symbols = symbols
  A = A  I = I  zero = zero  plus = plus
  Categories <- MCCategories
  CharsOf <- MCCharsOf
  AMBIGUOUS <- MCAmbiguous
  MIN_LENGTH = 2
  MAX_LENGTH = 4
  Lengths = {0, 1, 2, 3, 4, 5}
INVARIANT PasswordMeetsPolicy
PROPERTY CallsEnd
CHECK_DEADLOCK FALSE
