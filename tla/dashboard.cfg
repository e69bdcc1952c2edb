SPECIFICATION FairSpec
CONSTANTS
  Activities = {a1, a2}
  MaxTenants = 2
  MaxChanges = 1
  MaxImports = 1
  MaxKeys = 2
  MaxFaults = 1
  MaxReloads = 1
  None = None
INVARIANTS
  TypeOK
  NoPayoutIsForgotten
  ViewIsCurrent
PROPERTIES
  ErrorHasCause
  ButtonsComeBack
CHECK_DEADLOCK FALSE
