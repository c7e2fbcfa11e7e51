SPECIFICATION LiveSpec
CONSTANTS
  Sessions = {s1}
  Handlers = {h1, h2}
  NoHandler = NoHandler
  Observers = {}
  Admin = Admin
  Mode = "native"
  Faults = {"update"}
PROPERTIES KickEnds LeaverForgotten
CHECK_DEADLOCK FALSE
