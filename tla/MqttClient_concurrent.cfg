SPECIFICATION LoopSpec
CONSTANTS
  Devices = {d1}
  Callers = {c1, c2}
  TaskIds = {t1, t2, t3}
  MaxQueue = 1
  None = None
PROPERTY CallsReturn
PROPERTY OrphanByOvertaking
PROPERTY DisconnectFailsOvertaken
