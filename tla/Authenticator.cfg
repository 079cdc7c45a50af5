SPECIFICATION FairSpec
CONSTANTS
  Callers = {c1, c2}
  Refresher = refresher
  Callbacks = {b1}
  Tokens = {k1, k2, k3, k4}
  Validity = 3
  MaxTasks = 2
  None = None
INVARIANT TypeOK
INVARIANT NoStrayTimer
INVARIANT KeptFresh
INVARIANT CallbacksInformed
INVARIANT TeardownIsFinal
PROPERTY LoginReplacesExpired
PROPERTY CallsReturn
