SPECIFICATION Spec
CONSTANTS
  Requests = {r1, r2}
  Waiters = {}
  Listeners = {l1}
  MaxChanges = 2
  MaxDrops = 1
  Nobody = Nobody
INVARIANTS TypeOK CalledBackOnce Attended CauseOfAnswer ListenersUpToDate
CHECK_DEADLOCK FALSE
