SPECIFICATION Spec
CONSTANTS
  w1 = w1  w2 = w2  v1 = v1  v2 = v2
  i1 = i1  i2 = i2  i3 = i3  i4 = i4
  Nothing = Nothing
  DirSyncWorks = TRUE
  Writers <- MCWriters
  Values <- MCValues
  Inodes <- MCInodes
SYMMETRY Symmetry
INVARIANTS VaultNeverTorn NoStrayTempFile OwnTempStays
PROPERTY ImplementsAtomicStore
