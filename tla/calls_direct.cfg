SPECIFICATION Spec
CONSTANTS
  a1 = a1
  a2 = a2
  s1 = s1
  up = up
  down = down
  AsyncCalls = {a1, a2}
  SyncCalls = {s1}
  CallbackCalls = {}
  WarnCalls = {a1}
  Dispatchers = {d1}
  Loop = loop
  Cleaner = cleaner
  MainLoop = FALSE
  Services = {up}
  ServiceOf <- One
  MaxSession = 2
  AnswerKinds = {"ok"}
  MaxChanges = 1
  NoCall = NoCall
INVARIANTS
  HandlerExclusive
  NoEntryReplaced
  
  OwnAnswer
CHECK_DEADLOCK FALSE
