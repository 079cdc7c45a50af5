SPECIFICATION FairSpec
CONSTANTS
  Jobs = {j1, j2, j3}
  Worker = worker
  Slots = 2
  Interval = 2
  CheckSize = 2
  Overlapping = FALSE
INVARIANT InitializedIsWatched
INVARIANT ChecksBelongToWorker
PROPERTY SilenceIsReported
PROPERTY ReturnIsReported
