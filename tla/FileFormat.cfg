SPECIFICATION Spec
CONSTANTS
  FileParts <- MCFileParts
  DamageBytes = {0, 17, 255}
  MaxDamage = 2
INVARIANTS RoundTrip Canonical ResizeRejected
CHECK_DEADLOCK FALSE
