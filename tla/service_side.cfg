SPECIFICATION FairSpec
CONSTANTS
  app1 = app1
  app2 = app2
  a1 = a1
  a2 = a2
  r1 = r1
  r2 = r2
  Apps = {app1, app2}
  Loop = loop
  Dispatcher = dispatcher
  Cleaner = cleaner
  TimedOut = timedOut
  Handlers <- MCHandlers
  Pushers <- MCPushers
  Entries <- MCEntries
  Adapters = {a1, a2}
  Nothing = nothing
  Requests = {r1}
  Kinds = {"call", "unknown"}
  FactoryUsers = {r1}
  Repliers = {k1, k2}
INVARIANTS TypeOK FdCounts FrontKept ConnectionCounted RepliedOnce
PROPERTIES StubKept RequestsSettled UnregisterReturns
CHECK_DEADLOCK FALSE
