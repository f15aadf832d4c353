SPECIFICATION Spec
CONSTANTS
  Label = {a, b}
  Session = {s, t}
  NoSession = none
  MaxEdits = 3
INVARIANT GoneIsNotAbsent
CHECK_DEADLOCK FALSE
