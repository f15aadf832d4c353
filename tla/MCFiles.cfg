SPECIFICATION MCSpec
CONSTANTS
  c1 = c1
  c2 = c2
  l1 = l1
  s1 = s1
  s2 = s2
  MaxSize = 3
  MaxAge = 2
  MaxTime = 8
  Faulty = TRUE
  Saver = {c1, c2}
  NameAttempts = 2
  MaxFiles = 2
  Requester = {c1}
  Directory = {d1, d2}
  CommandLine = {d1}
  OptIn = FALSE
  RootEdits = 2
  RootChanges = 2
  QrLogin = {c1, c2}
  PanelKey = {l1, l2}
  PanelViewer = {d1}
  PanelAccount = {d2}
  PanelChat = {s1, s2}
  PanelEdits = 1
  VerdictAge = 2
  PanelTime = 1
  EnvTool = {"manager", "generator"}
  EnvLabel = {l1, l2}
  EnvSession = {s1, s2}
  NoSession = none
  EnvKeep <- TwoKeeps
  EnvTime = 1
  EnvEdits = 3
  PerSecond = 2
  SnapshotEdits = 3
  OwnedFile = {f1}
  OwnedDir = d1
  MaxGrants = 2
  AliasProcess = {c1, c2}
  AliasThread = {c1, c2}
  ThreadProcess <- TwoProcesses
  AliasName = {l1, l2}
  Contact = {1}
  Sole = "main"
  MaxWrites = 2
  PoolProcess = {c1, c2}
  Slots = 3
  MaxStarts = 3
  PictureDoc = {d1, d2}
  PictureTotal = 4
  PictureMost = 3
  PictureWidth = 2
  PictureCount = 2
  WinHandle = {s1, s2}
  WinSizes <- ThreeSizes
  WinRegions <- TwoRegions
  WinFirst <- TwoWindows
  WinSide = 2
  WinPixels = 3
  WinBytes = 3
  WinDimension = 1
  WinNative = 2
  WinFrames = 2
  WinEncoded = 2
  WinMoves = 1
  NoWin = none
INVARIANTS
  DiskIsBounded
  FilesKeepTheirOwners
  PrivateStaysPrivate
  RedirectionsAreNoticed
  AccountsAreAsWritten
  PicturesAreWhole
PROPERTIES
  NothingRecentIsDropped
  ImplementsAliasMap
  NothingIsTakenAway
CHECK_DEADLOCK FALSE
