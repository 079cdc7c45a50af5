SPECIFICATION FairSpec
CONSTANTS
  Devices = {d1}
  Callers = {c1}
  TaskIds = {t1, t2}
  MaxQueue = 2
  None = None
PROPERTY LostConnectionComesBack
PROPERTY QueuedChangeIsTaken
