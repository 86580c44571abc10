SPECIFICATION FairSpec
CONSTANTS
  p1 = p1
  p2 = p2
  Proxies = {p1, p2}
  LoopProxies = {p1}
  MaxChanges = 0
  MaxListeners = 2
PROPERTIES CallbackReturns
CHECK_DEADLOCK FALSE
