SPECIFICATION CliFairSpec
CONSTANTS
  p1 = p1  p2 = p2  pw1 = pw1  pw2 = pw2  id1 = id1  id2 = id2
  a = a  password = password
  Nothing = Nothing
  Procs <- TwoProcs
  Creators <- TwoProcs
  Menu <- MCMenu
  Passwords <- MCPasswords
  Ids <- TwoIds
  Fields <- OneField
  Data = {a}
  MaxEntries = 2
  MaxCounter = 3
  HasFlock = TRUE
  DirSyncWorks = TRUE
  FailingWrites = {p2}
  LongLived = {}
INVARIANT HeldOnlyInside
PROPERTIES OnlyCreateReplaces RefusedChangesNothing SuccessIsDurable ChangesOnlyItsOwn CommandsEnd
