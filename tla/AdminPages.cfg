SPECIFICATION SpecOfAny
CONSTANTS
  Ids = {r1, r2}
  None = None
  MaxOpen = 2
  Dirs = {d1, d2}
  Names = {n1, n2}
  Texts = {t1, t2}
  Folder = Folder
  Missing = Missing
  MaxCalls = 2
  MaxAsked = 2
  MaxPressed = 3
  MaxHarm = 1
SYMMETRY Symmetry
INVARIANTS TypesOK SavesAsMeant TypedIsSaved QuietTableIsTrue QuietListingIsTrue TextIsKept RenamesItsFile SettingsHold
CHECK_DEADLOCK FALSE
