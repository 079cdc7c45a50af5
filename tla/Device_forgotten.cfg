SPECIFICATION Spec
CONSTANTS
  Jobs = {j1, j2}
  Worker = worker
  Slots = 1
  Interval = 1
  CheckSize = 1
  Overlapping = FALSE
SYMMETRY Alike
INVARIANT NoForgottenTask
