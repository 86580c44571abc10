SPECIFICATION Spec
CONSTANTS
  Requests = {r1, r2}
  Waiters = {}
  Listeners = {}
  MaxChanges = 1
  MaxDrops = 0
  Nobody = Nobody
INVARIANT SentWhenAvailable
CHECK_DEADLOCK FALSE
