CONSTANTS
  k1 = k1
  k2 = k2
  w1 = w1
  w2 = w2
  w3 = w3
  w4 = w4
  h1 = h1
  h2 = h2
  s1 = s1
  s2 = s2
  s3 = s3
  work = work
  home = home
  Label = {work, home}
  Client = {w1, h2}
  Boot = {w1}
  Session = {s1, s2}
  LabelOf <- MCLabelOf
  SessionOf <- MCSessionOf
  Call = {k1}
  MaxEdits = 1
  OverlappingReloads = FALSE
  MaxForgets = 3
  None = None
  Other = Other
SPECIFICATION Spec
CHECK_DEADLOCK FALSE
INVARIANTS
  NothingServedUnlocked
