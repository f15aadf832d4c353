SPECIFICATION MCSpec
CONSTANTS
  c3 = c3
  s1 = s1
  s2 = s2
  work = work
  Client = {c1, c3}
  Label = {work}
  Session = {s1, s2}
  LabelOf <- MCLabelOf
  SessionOf <- MCSessionOf
  MaxForgets = 1
  None = None
  Other = Other
  Account = {a1, a2}
  Caller = {u1, u2}
  Closer = {runner}
  MaxGeneration = 2
  Sender = {u1}
  Seconds = {5}
  HistoryMax = 1
  MaxMessages = 2
  MaxRestarts = 1
  Limit = 1
  PipeSize = 1
  MaxWrites = 2
  Root = root
  Child = {x, y}
  Stranger = {s}
  Hosts = {"posix", "windows"}
  HttpClient = {u1, u2}
  MaxSessions = 2
  MaxIds = 4
  MaxRuns = 2
INVARIANTS
  EveryLockHasAnOwner
  ServingLeaseIsHeld
  NothingPublishedAfterStop
  ManagersAreKept
  SecretsAreKept
  ChildrenAreDoneWith
PROPERTIES
  StopFreesEverySession
  ServedIsCurrent
  EverythingEnds
CHECK_DEADLOCK FALSE
