SPECIFICATION Spec
CONSTANTS
  state = state
  availability = availability
  map = map
  onState = onState
  onMap1 = onMap1
  onMap2 = onMap2
  plainHook = plainHook
  slowHook = slowHook
  p1 = p1
  p2 = p2
  None = None
  StateType = state
  AvailabilityType = availability
  TypeOf <- ClassOfCallback
  HookType <- HookOnMap
  Hooks = {plainHook}
  SuspendingHooks = {}
  DebouncedTypes = {}
  Debounce = 1
  RefreshableTypes = {}
  MaxDeliveries = 1
  MaxRefreshes = 1
  MaxCalls = 2
  EventTypes = {map}
  Payloads = {p1}
  Callbacks = {onMap1}
INVARIANT FirstSubscriptionRunsHook
