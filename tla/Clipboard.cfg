SPECIFICATION Spec
CONSTANTS
  c1 = c1  c2 = c2  s1 = s1  s2 = s2  u1 = u1  u2 = u2
  Empty = Empty
  Commands <- MCCommands
  SecretOf <- MCSecretOf
  UserTexts <- MCUserTexts
  Interrupted = {c2}
  Unreliable = {c2}
INVARIANTS TypeOK DoneMeansGone NeverUnattended
PROPERTY SecretLeaves
