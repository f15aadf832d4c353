CONSTANTS
  Task = {t1, t2, t3}
  Caller = {k1, k2}
  Settle = {fast, slow}
  Default = slow
  Runner = Runner
  None = None
SPECIFICATION FairSpec
CHECK_DEADLOCK FALSE
INVARIANTS
  OneConsumer
  EveryConsumerIsOwned
  StateIsReportedAsItIs
PROPERTIES
  EveryTransitionEnds
