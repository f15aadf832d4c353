SPECIFICATION MCSpec
CONSTANTS
  Callers = {c1, c2}
  a = a
  b = b
  g = g
  k1 = k1
  k2 = k2
  GateChat = {k1}
  ChatOmitted = k2
  RateDelay = 2
  CallBudget = 3
  GateTime = 3
  RawLabel = {a, b, g}
  ButtonPayload = {1, 2}
  KeyboardEdits = 1
  ButtonRestarts = 1
  QueueEditor = {c1, c2}
  QueueText = {1, 2}
  QueuePeriod = {}
  QueueMax = 1
  QueueTime = 1
  FolderChat = {k1, k2}
  FolderLimit = 2
  FolderCreations = 2
  PollOption = {a, b}
  PollCeiling = 2
  PollFallback = 1
  PollFloor = 1
  PollMargin = 1
  PollLag = 1
  PollTime = 2
  PollVotes = 1
  ListCaller = {c1, c2}
  ListItem = {a, b, g}
  ListCap = 2
  ListWindow = 1
  ListRequests = 2
  ListOverlap = FALSE
  ChatUser = {a}
  ChatLink = {k1, k2}
  LinkLimit = 1
  MemberCalls = 2
  RightPerson = {a, b}
  AdminRight = {k1, k2}
  WithheldRight = {k2}
  RightParameter = {k1, k2}
  CloseFriend = {b}
  RuleLimit = 3
  RightEdits = 1
  MessageId = {1, 2, 3}
  OtherChatId = {3}
  ChunkSize = 1
  PassLimit = 2
  NameWanted = {k1, k2}
  NameClaims = 2
  OpenedMedia = {a}
  OpenedVoice = {}
  NameTries = 1
  TimerCeiling = 1
  TimerSends = 1
  EffectId = {1, 2}
  EffectHour = 1
  EffectUnknown = 1
  EffectTime = 2
  EffectChanges = 1
  EffectChecks = 3
  LookupChat = {k1, k2}
  LookupDialogs = {k1}
  WarmWindow = 1
  LookupTime = 2
  WarmLimit = 2
SYMMETRY Symmetry
INVARIANT QuizzesCanBeClosed
CHECK_DEADLOCK FALSE
