SPECIFICATION Spec
CONSTANTS
  pw1 = pw1  pw2 = pw2  t1 = t1  t2 = t2
  s1 = s1  s2 = s2  s3 = s3  d1 = d1  d2 = d2
  Garbled = Garbled  Malformed = Malformed  Nothing = Nothing  Zeroed = Zeroed
  Passwords <- MCPasswords
  Plaintexts <- MCPlaintexts
  Salts <- MCSalts
  Deks <- MCDeks
  Params <- MCParams
  MaxCounter = 2
  MaxFiles = 5
  SessionsContinue = FALSE
SYMMETRY Symmetry
INVARIANTS TypeOK SessionWiped
PROPERTY ImplementsSealedVault
CHECK_DEADLOCK FALSE
