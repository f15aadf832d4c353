CONSTANTS
  work = work
  home = home
  w1 = w1
  w2 = w2
  h1 = h1
  bob = bob
  bot = bot
  v1 = v1
  v2 = v2
  Label = {work}
  Client = {w1, w2}
  LabelOf <- TwoLogins
  Chat = {bob, bot}
  BotChat = {bot}
  Msg = {1, 2}
  Waiter = {v1}
  Unnamed = Unnamed
  None = None
  PendingMax = 2
  InnerTask = TRUE
  HotSwap = TRUE
SPECIFICATION FairSpec
CHECK_DEADLOCK FALSE
PROPERTIES
  PeopleAreHeard
