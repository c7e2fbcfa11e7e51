SPECIFICATION SpecOfEither
CONSTANTS
  Assets = {a1, a2}
  Null = Null
  MaxConn = 4
  Databases = {1, 2}
  Titles = {2, 3}
  Texts = {3}
  AtFirst <- Given
  None = None
  MaxTabs = 1
  MaxUnderWay = 1
  MaxSent = 5
  MaxHarm = 1
INVARIANTS TypesOK NeverAlone ConnectedIsQuiet ExpandedIsConnected  TabsAreOfTables
CHECK_DEADLOCK FALSE
