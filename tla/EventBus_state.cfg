SPECIFICATION FairSpec
CONSTANTS
  state = state
  availability = availability
  map = map
  onState = onState
  onMap1 = onMap1
  onMap2 = onMap2
  plainHook = plainHook
  slowHook = slowHook
  p1 = p1
  p2 = p2
  None = None
  StateType = state
  AvailabilityType = availability
  TypeOf <- ClassOfCallback
  HookType <- HookOnMap
  Hooks = {}
  SuspendingHooks = {}
  DebouncedTypes = {state}
  Debounce = 1
  RefreshableTypes = {state}
  MaxDeliveries = 1
  MaxRefreshes = 1
  MaxCalls = 1
  EventTypes = {state, availability}
  Payloads = {p1}
  Callbacks = {onState}
PROPERTY RecoveryRefreshesAll
PROPERTY PostponedIsEmitted
PROPERTY RequestIsServed
PROPERTY StableEventIsSeen
