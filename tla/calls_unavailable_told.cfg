SPECIFICATION FairSpec
CONSTANTS
  a1 = a1
  a2 = a2
  s1 = s1
  up = up
  down = down
  AsyncCalls = {a1, a2}
  SyncCalls = {}
  CallbackCalls = {}
  WarnCalls = {}
  Dispatchers = {d1}
  Loop = loop
  Cleaner = cleaner
  MainLoop = TRUE
  Services = {up, down}
  ServiceOf <- Pair
  MaxSession = 2
  AnswerKinds = {"ok"}
  MaxChanges = 0
  NoCall = NoCall
PROPERTIES
  UnavailableTold
CHECK_DEADLOCK FALSE
