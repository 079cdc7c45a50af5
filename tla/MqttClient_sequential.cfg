SPECIFICATION Spec
CONSTANTS
  Devices = {d1, d2}
  Callers = {c1}
  TaskIds = {t1, t2, t3}
  MaxQueue = 2
  None = None
SYMMETRY Alike
INVARIANT ConnectionCarriesSubscriptions
