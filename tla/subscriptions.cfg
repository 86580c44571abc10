SPECIFICATION Spec
CONSTANTS
  p1 = p1
  p2 = p2
  Proxies = {p1, p2}
  LoopProxies = {}
  MaxChanges = 1
  MaxListeners = 2
SYMMETRY Symmetry
INVARIANTS TypeOK RegisteredWhileListening NoSpuriousStatus InitialOnce ServiceRequested OnlyReceiverLeft KnowsWhenQuiet EveryoneTold EveryoneHears
CHECK_DEADLOCK FALSE
