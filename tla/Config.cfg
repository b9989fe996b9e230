SPECIFICATION FairSpec
CONSTANTS
  Files <- MCFiles
  environment <- MCEnvironment
  CommandLines <- MCCommandLines
  SizeMod = 1000000000
  MaxEdits = 3
INVARIANTS UnsafeFieldsKept NoLostUpdate
PROPERTIES ChangeApplied
CHECK_DEADLOCK FALSE
