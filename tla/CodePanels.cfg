SPECIFICATION Spec
CONSTANTS
  Texts = {t1, t2}
  Blank = Blank
  Template = Template
  Options = {o1, o2}
  None = None
PROPERTY SavesWhatIsShown
CHECK_DEADLOCK FALSE
