SPECIFICATION Spec
CONSTANTS
  First = First
  Fresh = {f1}
  Tables = {t1}
  NoDialog = NoDialog
  MaxGen = 3
  MaxArr = 3
  MaxRun = 2
  MaxStmt = 2
  MaxEdit = 1
  MaxHarm = 1
INVARIANTS CancelKeepsTabs
CHECK_DEADLOCK FALSE
