SPECIFICATION Spec
CONSTANTS
  Sessions = {s1}
  Handlers = {h1, h2}
  NoHandler = NoHandler
  Observers = {o1}
  Admin = Admin
  Mode = "guacd"
  Faults = {}
SYMMETRY Symmetry
INVARIANTS NoGhost 
