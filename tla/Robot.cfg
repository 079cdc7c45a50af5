SPECIFICATION MCSpec
CONSTANTS
  Robots = {robot1}
  Values = {v1, v2}
  None = None
  Ids = {i1, i2}
  CacheSize = 1
  Slots = 1
  Subsets = {1, 2}
  TraceLength = 400
  MaxMoves = 1
  MaxQueue = 1
  Contents = {c1, c2}
  NotInUse = NotInUse
  MaxChanges = 1
  MaxPages = 2
  MaxDrawn = 3
  MaxCoordinate = 1
  MaxPoints = 4
  Side = 2
  PieceSize = 3
  MaxDots = 2
SYMMETRY Alike
INVARIANT FollowsRobot
INVARIANT ServedWhenAnswered
INVARIANT NeverStuck
INVARIANT RefreshTellsTheTruth
INVARIANT KeptIsRepaired
INVARIANT RoomsReported
INVARIANT PiecesRepaired
INVARIANT PictureIsCurrent
INVARIANT TraceComplete
INVARIANT PathDrawsPoints
INVARIANT PartsMeet
PROPERTY NeverShownUnconfirmed
PROPERTY CleaningBegins
