SPECIFICATION SpecOfAny
CONSTANTS
  Keys = {k1, k2, k3}
  Reported = k1
  Options = {o1, o2}
  MaxEdit = 2
  Columns = {c1, c2}
  MaxParts = 2
  Values = {v1, v2}
  MaxRow = 1
  MaxSent = 2
  Texts = {t1, t2}
  Blank = Blank
  Template = Template
  None = None
  MaxHarm = 1
SYMMETRY Symmetry
INVARIANTS TypesOK SentIsShown EditsAreKept    PreviewIsText
CHECK_DEADLOCK FALSE
