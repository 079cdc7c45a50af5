SPECIFICATION MapSpec
CONSTANTS
  state = state
  availability = availability
  map = map
  onState = onState
  onMap1 = onMap1
  onMap2 = onMap2
  plainHook = plainHook
  slowHook = slowHook
  p1 = p1
  p2 = p2
  None = None
  StateType = state
  AvailabilityType = availability
  TypeOf <- ClassOfCallback
  HookType <- HookOnMap
  Hooks = {plainHook, slowHook}
  SuspendingHooks = {slowHook}
  DebouncedTypes = {map}
  Debounce = 2
  RefreshableTypes = {}
  MaxDeliveries = 2
  MaxRefreshes = 1
  MaxCalls = 2
  EventTypes = {map}
  Payloads = {p1, p2}
  Callbacks = {onMap1, onMap2}
SYMMETRY Alike
INVARIANT SubscribersUpToDate
INVARIANT LastNotificationWins
INVARIANT PostponedInTime
INVARIANT HookRunOnce
INVARIANT HooksServeFirstSubscribers
PROPERTY BusIsRegister
