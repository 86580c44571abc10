SPECIFICATION FairSpec
CONSTANTS
  Requests = {r1, r2}
  Waiters = {w1}
  Listeners = {}
  MaxChanges = 1
  MaxDrops = 0
  Nobody = Nobody
PROPERTIES EventuallyAnswered SomeWaiterReturns
CHECK_DEADLOCK FALSE
