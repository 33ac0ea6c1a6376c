SPECIFICATION FairSpec
CONSTANTS
  p1 = p1  p2 = p2  p3 = p3  pw1 = pw1  pw2 = pw2  id1 = id1  id2 = id2  id3 = id3
  a = a  b = b  username = username  password = password
  Nothing = Nothing
  Procs <- ThreeProcs
  Creators <- OneCreator
  Passwords <- MCPasswords
  Ids <- TwoIds
  Fields <- TwoFields
  Data <- MCData
  MaxEntries = 2
  MaxCounter = 3
  HasFlock = TRUE
  DirSyncWorks = TRUE
  FailingWrites = {p2, p3}
  LongLived = {p1}
INVARIANTS TypeOK LockIsSession SessionIsCurrent IdsUnique AcknowledgedIsDurable NeverBehind
PROPERTIES ImplementsVaultSpec SavingKeepsPassword CounterMonotonic WritesWhatIsShown OperationsEnd
