SPECIFICATION Spec
CONSTANTS
  Devices = {d1}
  Callers = {c1}
  TaskIds = {t1, t2, t3}
  MaxQueue = 1
  None = None
INVARIANT SubscribeIsRemembered
