SPECIFICATION FairSpec
CONSTANTS
  a1 = a1
  a2 = a2
  s1 = s1
  up = up
  down = down
  AsyncCalls = {a1}
  SyncCalls = {s1}
  CallbackCalls = {s1}
  WarnCalls = {a1}
  Dispatchers = {d1, d2}
  Loop = loop
  Cleaner = cleaner
  MainLoop = TRUE
  Services = {up, down}
  ServiceOf <- Pair
  MaxSession = 2
  AnswerKinds = {"ok", "error"}
  MaxChanges = 1
  NoCall = NoCall
INVARIANTS
  TypeOK
  HandlerExclusive
  HandlerKept
  CauseOfFailure
  NoAnswerBehindMainLoop
PROPERTIES
  Promise
  Answered
  Unblocked
CHECK_DEADLOCK FALSE
