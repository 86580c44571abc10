SPECIFICATION Spec
CONSTANTS
  Requests = {r1, r2}
  Waiters = {}
  Listeners = {}
  MaxChanges = 1
  MaxDrops = 0
  Nobody = Nobody
INVARIANT NoThreadDestroyed
CHECK_DEADLOCK FALSE
