------------------------------ MODULE EventBus ------------------------------
(***************************************************************************)
(* The event bus of one device (deebot_client/event_bus.py): subscribers,  *)
(* notification with debouncing, on-demand refresh and the callbacks that  *)
(* are run for the first subscriber of an event type ("hooks" here).       *)
(*                                                                         *)
(* Every call of the bus is synchronous, so it is one action.  What it     *)
(* hands to create_task runs later: a delivery to a subscriber, a refresh, *)
(* the call of a hook.  asyncio starts tasks in the order they were        *)
(* created.  The model keeps that order for the deliveries to one callback *)
(* (inbox) and leaves it open between unrelated tasks, which only adds     *)
(* behaviours.                                                             *)
(***************************************************************************)
EXTENDS Naturals, Sequences

CONSTANTS
  EventTypes,        \* the event classes
  StateType,         \* StateEvent        (need not be in EventTypes)
  AvailabilityType,  \* AvailabilityEvent (need not be in EventTypes)
  Payloads,          \* the values of the other event classes
  Callbacks,         \* the subscriber callbacks
  TypeOf,            \* the event class each callback subscribes to
  Hooks,             \* the _OnSubscriptionCallback objects
  HookType,          \* the event class each hook is registered for
  SuspendingHooks,   \* the hooks whose callback awaits something
  DebouncedTypes,    \* the event classes notified with a debounce time
  Debounce,          \* that debounce time, in ticks
  RefreshableTypes,  \* the event classes that have refresh commands
  MaxDeliveries,     \* bound: deliveries to one callback that wait to start
  MaxRefreshes,      \* bound: refreshes of one class that wait to start
  MaxCalls,          \* bound: calls of one hook that wait, run or are in force
  None

ASSUME DebounceAssumption == Debounce \in Nat \ {0}
ASSUME BoundAssumption    == /\ MaxDeliveries \in Nat \ {0}
                             /\ MaxRefreshes \in Nat \ {0}
                             /\ MaxCalls \in Nat \ {0}
ASSUME TypingAssumption   == /\ TypeOf \in [Callbacks -> EventTypes]
                             /\ HookType \in [Hooks -> EventTypes]
ASSUME KindAssumption     == StateType # AvailabilityType

(* The values an event of class t can have: equality of events is equality *)
(* of these.                                                               *)
StateValues == {"idle", "docked", "cleaning"}
AvailabilityValues == {"available", "unavailable"}
ValuesOf(t) == CASE t = StateType -> StateValues
                 [] t = AvailabilityType -> AvailabilityValues
                 [] OTHER -> Payloads
Values == StateValues \cup AvailabilityValues \cup Payloads

(* last_event_time starts in the year 1: older than every debounce window. *)
LongAgo == 2 * Debounce + 1

Timers == [event : Values, left : 0 .. Debounce]

ASSUME NoneAssumption == None \notin Values \cup Timers

VARIABLES
  subscribed,   \* the callbacks in some subscriber_callbacks
  lastEvent,    \* last_event of each class
  elapsed,      \* ticks since last_event_time, up to LongAgo
  timer,        \* notify_handle: None, or the event and the ticks it waits
  inbox,        \* per callback: the events of its tasks not started yet
  seen,         \* observer: the event the callback was last run with
  notified,     \* observer: the event notify was last called with
  refreshTasks, \* per class: refresh tasks not started yet
  refreshing,   \* per class: the semaphore is held
  hookState,    \* "new", "added" (in on_subscription_callbacks), "removed"
  hookTasks,    \* per hook: tasks of call() not started yet
  hookRunning,  \* per hook: runs of call() that await the callback
  unsub,        \* per hook: _unsub is set
  active,       \* observer, per hook: callbacks run and not undone
  phase         \* "up", "tearing" (teardown awaits the tasks), "down"

busVars   == <<subscribed, lastEvent, elapsed, timer, inbox, seen, notified>>
fetchVars == <<refreshTasks, refreshing>>
hookVars  == <<hookState, hookTasks, hookRunning, unsub, active>>
vars      == <<busVars, fetchVars, hookVars, phase>>

(* One type invariant: every field keeps the shape the code gives it.      *)
TypeOK ==
  /\ subscribed \subseteq Callbacks
  /\ lastEvent \in [EventTypes -> Values \cup {None}]
  /\ elapsed \in [EventTypes -> 0 .. LongAgo]
  /\ timer \in [EventTypes -> Timers \cup {None}]
  /\ inbox \in [Callbacks -> Seq(Values)]
  /\ seen \in [Callbacks -> Values \cup {None}]
  /\ notified \in [EventTypes -> Values \cup {None}]
  /\ refreshTasks \in [EventTypes -> Nat]
  /\ refreshing \in [EventTypes -> BOOLEAN]
  /\ hookState \in [Hooks -> {"new", "added", "removed"}]
  /\ hookTasks \in [Hooks -> Nat]
  /\ hookRunning \in [Hooks -> Nat]
  /\ unsub \in [Hooks -> BOOLEAN]
  /\ active \in [Hooks -> Nat]
  /\ phase \in {"up", "tearing", "down"}

Init ==
  /\ subscribed = {}
  /\ lastEvent = [t \in EventTypes |-> None]
  /\ elapsed = [t \in EventTypes |-> LongAgo]
  /\ timer = [t \in EventTypes |-> None]
  /\ inbox = [c \in Callbacks |-> <<>>]
  /\ seen = [c \in Callbacks |-> None]
  /\ notified = [t \in EventTypes |-> None]
  /\ refreshTasks = [t \in EventTypes |-> 0]
  /\ refreshing = [t \in EventTypes |-> FALSE]
  /\ hookState = [h \in Hooks |-> "new"]
  /\ hookTasks = [h \in Hooks |-> 0]
  /\ hookRunning = [h \in Hooks |-> 0]
  /\ unsub = [h \in Hooks |-> FALSE]
  /\ active = [h \in Hooks |-> 0]
  /\ phase = "up"

-----------------------------------------------------------------------------
(* Helpers                                                                 *)

SubscribersOf(t) == {c \in subscribed : TypeOf[c] = t}
HasSubscribers(t) == SubscribersOf(t) # {}
AddedHooks(t) == {h \in Hooks : HookType[h] = t /\ hookState[h] = "added"}

(* refreshTasks after request_refresh of each class in T that would have a *)
(* subscriber given the set S of subscribed callbacks.                     *)
Requested(T, S) ==
  [t \in EventTypes |->
     IF t \in T /\ (\E c \in S : TypeOf[c] = t)
       THEN refreshTasks[t] + 1 ELSE refreshTasks[t]]

(* A cleaner that charges reports idle: after docked, idle means docked.   *)
Effective(t, e) ==
  IF t = StateType /\ e = "idle" /\ lastEvent[t] = "docked" THEN "docked" ELSE e

Recovers(t, e) ==
  t = AvailabilityType /\ e = "available" /\ lastEvent[t] = "unavailable"

CallsOf(h) == hookTasks[h] + hookRunning[h] + active[h]

(* The bounds, as guards of the calls that create tasks.  A pending timer  *)
(* keeps a place in the inboxes, so that it can always fire.               *)
RoomToEmit(t) ==
  /\ \A c \in SubscribersOf(t) : Len(inbox[c]) < MaxDeliveries
  /\ t = AvailabilityType => \A u \in EventTypes : refreshTasks[u] < MaxRefreshes
RoomToSubscribe(c) ==
  /\ Len(inbox[c]) + (IF timer[TypeOf[c]] # None THEN 1 ELSE 0) < MaxDeliveries
  /\ refreshTasks[TypeOf[c]] < MaxRefreshes
  /\ \A h \in AddedHooks(TypeOf[c]) : CallsOf(h) < MaxCalls

(* Seeded faults of Emit, used to test the properties below: the pending   *)
(* timer is kept; an equal event is sent again; the event sent is not the  *)
(* one stored; recovery is not noticed.                                    *)
EmitKeepingTimer(t, e) ==
  LET event == Effective(t, e) IN
  /\ elapsed' = [elapsed EXCEPT ![t] = 0]
  /\ timer' = [timer EXCEPT ![t] = IF @ # None /\ @.left > 0 THEN @ ELSE None]
  /\ lastEvent' = [lastEvent EXCEPT ![t] = event]
  /\ inbox' = [c \in Callbacks |->
                 IF c \in SubscribersOf(t) /\ event # lastEvent[t]
                   THEN Append(inbox[c], event) ELSE inbox[c]]
  /\ UNCHANGED refreshTasks
EmitRepeating(t, e) ==
  /\ elapsed' = [elapsed EXCEPT ![t] = 0]
  /\ timer' = [timer EXCEPT ![t] = None]
  /\ lastEvent' = [lastEvent EXCEPT ![t] = Effective(t, e)]
  /\ inbox' = [c \in Callbacks |-> IF c \in SubscribersOf(t)
                                     THEN Append(inbox[c], Effective(t, e)) ELSE inbox[c]]
  /\ UNCHANGED refreshTasks
EmitSending(t, event, sent) ==
  /\ elapsed' = [elapsed EXCEPT ![t] = 0]
  /\ timer' = [timer EXCEPT ![t] = None]
  /\ lastEvent' = [lastEvent EXCEPT ![t] = event]
  /\ inbox' = [c \in Callbacks |->
                 IF c \in SubscribersOf(t) /\ event # lastEvent[t]
                   THEN Append(inbox[c], sent) ELSE inbox[c]]
  /\ UNCHANGED refreshTasks
EmitUnmapped(t, e) == EmitSending(t, e, Effective(t, e))
EmitWithoutRecovery(t, e) == EmitSending(t, Effective(t, e), Effective(t, e))

(* The inner function _notify.                                             *)
Emit(t, e) ==
  LET event == Effective(t, e) IN
  /\ elapsed' = [elapsed EXCEPT ![t] = 0]
  /\ timer' = [timer EXCEPT ![t] = None]
  /\ lastEvent' = [lastEvent EXCEPT ![t] = event]
  /\ inbox' = [c \in Callbacks |->
                 IF c \in SubscribersOf(t) /\ event # lastEvent[t]
                   THEN Append(inbox[c], event) ELSE inbox[c]]
  /\ refreshTasks' = IF Recovers(t, e)
                       THEN Requested(EventTypes \ {AvailabilityType}, subscribed)
                       ELSE refreshTasks

(* Seeded fault of UnsubscribeHooks: _unsub is not reset.                  *)
UnsubscribeHooksOnce(H) ==
  /\ active' = [h \in Hooks |->
                  IF h \in H /\ unsub[h] THEN active[h] - 1 ELSE active[h]]
  /\ UNCHANGED unsub

(* _OnSubscriptionCallback.unsubscribe of every hook in H.                 *)
UnsubscribeHooks(H) ==
  /\ active' = [h \in Hooks |->
                  IF h \in H /\ unsub[h] THEN active[h] - 1 ELSE active[h]]
  /\ unsub' = [h \in Hooks |-> IF h \in H THEN FALSE ELSE unsub[h]]

-----------------------------------------------------------------------------
(* Calls of the bus                                                        *)

(* Seeded fault: the last event is replayed to the first subscriber only.  *)
SubscribeWithoutReplay(c) ==
  /\ c \notin subscribed
  /\ RoomToSubscribe(c)
  /\ subscribed' = subscribed \cup {c}
  /\ inbox' = IF lastEvent[TypeOf[c]] # None /\ ~HasSubscribers(TypeOf[c])
                THEN [inbox EXCEPT ![c] = Append(@, lastEvent[TypeOf[c]])] ELSE inbox
  /\ UNCHANGED <<lastEvent, elapsed, timer, seen, notified, fetchVars, hookVars, phase>>

Subscribe(c) ==
  LET t == TypeOf[c]
      first == lastEvent[t] = None /\ ~HasSubscribers(t) IN
  /\ c \notin subscribed
  /\ RoomToSubscribe(c)
  /\ subscribed' = subscribed \cup {c}
  /\ inbox' = IF lastEvent[t] # None
                THEN [inbox EXCEPT ![c] = Append(@, lastEvent[t])] ELSE inbox
  /\ refreshTasks' = IF first THEN Requested({t}, subscribed') ELSE refreshTasks
  /\ hookTasks' = [h \in Hooks |-> IF first /\ h \in AddedHooks(t)
                                     THEN hookTasks[h] + 1 ELSE hookTasks[h]]
  /\ UNCHANGED <<lastEvent, elapsed, timer, seen, notified, refreshing,
                 hookState, hookRunning, unsub, active, phase>>

(* The function returned by subscribe.                                     *)
Unsubscribe(c) ==
  /\ c \in subscribed
  /\ subscribed' = subscribed \ {c}
  /\ UnsubscribeHooks(IF SubscribersOf(TypeOf[c]) = {c}
                        THEN AddedHooks(TypeOf[c]) ELSE {})
  /\ UNCHANGED <<lastEvent, elapsed, timer, inbox, seen, notified, fetchVars,
                 hookState, hookTasks, hookRunning, phase>>

(* notify, when the debounce time is zero or has passed.                   *)
NotifyNow(t, e, debounce) ==
  /\ debounce = 0 \/ elapsed[t] > debounce
  /\ RoomToEmit(t)
  /\ Emit(t, e)
  /\ notified' = [notified EXCEPT ![t] = e]
  /\ UNCHANGED <<subscribed, seen, refreshing, hookVars, phase>>

(* Seeded faults of NotifyLater: every debounced event waits; waiting      *)
(* events move last_event_time.                                            *)
Postpone(t, e, debounce) ==
  /\ debounce # 0 /\ RoomToEmit(t)
  /\ timer' = [timer EXCEPT ![t] = [event |-> e, left |-> debounce]]
  /\ notified' = [notified EXCEPT ![t] = e]
  /\ UNCHANGED <<subscribed, lastEvent, inbox, seen, fetchVars, hookVars, phase>>
NotifyAlwaysLater(t, e, debounce) == Postpone(t, e, debounce) /\ UNCHANGED elapsed
NotifyLaterAnew(t, e, debounce) ==
  /\ elapsed[t] <= debounce
  /\ Postpone(t, e, debounce)
  /\ elapsed' = [elapsed EXCEPT ![t] = 0]

(* notify, within the debounce time: the pending call_later is replaced.   *)
NotifyLater(t, e, debounce) ==
  /\ debounce # 0 /\ elapsed[t] <= debounce
  /\ RoomToEmit(t)
  /\ timer' = [timer EXCEPT ![t] = [event |-> e, left |-> debounce]]
  /\ notified' = [notified EXCEPT ![t] = e]
  /\ UNCHANGED <<subscribed, lastEvent, elapsed, inbox, seen, fetchVars,
                 hookVars, phase>>

Notify(t, e) ==
  \E debounce \in IF t \in DebouncedTypes THEN {0, Debounce} ELSE {0} :
    NotifyNow(t, e, debounce) \/ NotifyLater(t, e, debounce)

RequestRefresh(t) ==
  /\ HasSubscribers(t) /\ refreshTasks[t] < MaxRefreshes
  /\ refreshTasks' = Requested({t}, subscribed)
  /\ UNCHANGED <<busVars, refreshing, hookVars, phase>>

AddHook(h) ==
  /\ hookState[h] = "new" /\ CallsOf(h) < MaxCalls
  /\ hookState' = [hookState EXCEPT ![h] = "added"]
  /\ hookTasks' = IF HasSubscribers(HookType[h])
                    THEN [hookTasks EXCEPT ![h] = @ + 1] ELSE hookTasks
  /\ UNCHANGED <<busVars, fetchVars, hookRunning, unsub, active, phase>>

(* The function returned by add_on_subscription_callback.                  *)
RemoveHook(h) ==
  /\ hookState[h] = "added"
  /\ hookState' = [hookState EXCEPT ![h] = "removed"]
  /\ UnsubscribeHooks({h})
  /\ UNCHANGED <<busVars, fetchVars, hookTasks, hookRunning, phase>>

(* teardown up to its await: every task of the bus is cancelled.  A refresh *)
(* that holds the semaphore releases it when the cancellation reaches it.  *)
BeginTeardown ==
  /\ phase = "up"
  /\ phase' = "tearing"
  /\ inbox' = [c \in Callbacks |-> <<>>]
  /\ refreshTasks' = [t \in EventTypes |-> 0]
  /\ hookTasks' = [h \in Hooks |-> 0]
  /\ hookRunning' = [h \in Hooks |-> 0]
  /\ UNCHANGED <<subscribed, lastEvent, elapsed, timer, seen, notified,
                 refreshing, hookState, unsub, active>>

(* teardown after its await: the pending timers are cancelled.             *)
EndTeardown ==
  /\ phase = "tearing"
  /\ phase' = "down"
  /\ timer' = [t \in EventTypes |-> None]
  /\ UNCHANGED <<subscribed, lastEvent, elapsed, inbox, seen, notified,
                 fetchVars, hookVars>>

-----------------------------------------------------------------------------
(* The event loop                                                          *)

(* A delivery task starts: the callback is run with its event.             *)
Deliver(c) ==
  /\ inbox[c] # <<>>
  /\ seen' = [seen EXCEPT ![c] = Head(inbox[c])]
  /\ inbox' = [inbox EXCEPT ![c] = Tail(@)]
  /\ UNCHANGED <<subscribed, lastEvent, elapsed, timer, notified, fetchVars,
                 hookVars, phase>>

(* Seeded fault of StartRefresh: the check of the semaphore is inverted.   *)
StartRefreshIfLocked(t) ==
  /\ refreshTasks[t] > 0
  /\ refreshTasks' = [refreshTasks EXCEPT ![t] = @ - 1]
  /\ UNCHANGED <<busVars, refreshing, hookVars, phase>>

(* A refresh task starts: it stops at once when one is running already.    *)
StartRefresh(t) ==
  /\ refreshTasks[t] > 0
  /\ refreshTasks' = [refreshTasks EXCEPT ![t] = @ - 1]
  /\ refreshing' = [refreshing EXCEPT ![t] = @ \/ t \in RefreshableTypes]
  /\ UNCHANGED <<busVars, hookVars, phase>>

(* The refresh commands are done, failed or cancelled.                     *)
EndRefresh(t) ==
  /\ refreshing[t]
  /\ refreshing' = [refreshing EXCEPT ![t] = FALSE]
  /\ UNCHANGED <<busVars, refreshTasks, hookVars, phase>>

(* A task of call() starts, finds _unsub set and ends.                     *)
SkipHook(h) ==
  /\ hookTasks[h] > 0 /\ unsub[h]
  /\ hookTasks' = [hookTasks EXCEPT ![h] = @ - 1]
  /\ UNCHANGED <<busVars, fetchVars, hookState, hookRunning, unsub, active, phase>>

(* Seeded fault of CallHook: _unsub is not checked.                        *)
CallHookAgain(h) ==
  /\ h \notin SuspendingHooks /\ hookTasks[h] > 0
  /\ hookTasks' = [hookTasks EXCEPT ![h] = @ - 1]
  /\ active' = [active EXCEPT ![h] = @ + 1]
  /\ unsub' = [unsub EXCEPT ![h] = TRUE]
  /\ UNCHANGED <<busVars, fetchVars, hookState, hookRunning, phase>>

(* A task of call() starts and its callback never suspends.                *)
CallHook(h) ==
  /\ h \notin SuspendingHooks
  /\ hookTasks[h] > 0 /\ ~unsub[h]
  /\ hookTasks' = [hookTasks EXCEPT ![h] = @ - 1]
  /\ active' = [active EXCEPT ![h] = @ + 1]
  /\ unsub' = [unsub EXCEPT ![h] = TRUE]
  /\ UNCHANGED <<busVars, fetchVars, hookState, hookRunning, phase>>

(* A task of call() starts and its callback suspends; it returns later.    *)
SuspendHook(h) ==
  /\ h \in SuspendingHooks
  /\ hookTasks[h] > 0 /\ ~unsub[h]
  /\ hookTasks' = [hookTasks EXCEPT ![h] = @ - 1]
  /\ hookRunning' = [hookRunning EXCEPT ![h] = @ + 1]
  /\ UNCHANGED <<busVars, fetchVars, hookState, unsub, active, phase>>

ReturnHook(h) ==
  /\ hookRunning[h] > 0
  /\ hookRunning' = [hookRunning EXCEPT ![h] = @ - 1]
  /\ active' = [active EXCEPT ![h] = @ + 1]
  /\ unsub' = [unsub EXCEPT ![h] = TRUE]
  /\ UNCHANGED <<busVars, fetchVars, hookState, hookTasks, phase>>

(* The loop runs a due call_later.                                         *)
TimerFires(t) ==
  /\ timer[t] # None /\ timer[t].left = 0
  /\ Emit(t, timer[t].event)
  /\ UNCHANGED <<subscribed, seen, notified, refreshing, hookVars, phase>>

(* One tick of time.  The loop is not blocked for a whole tick: a due      *)
(* timer is run before the next one.                                       *)
Tick ==
  /\ \A t \in EventTypes : timer[t] # None => timer[t].left > 0
  /\ elapsed' = [t \in EventTypes |->
                   IF elapsed[t] < LongAgo THEN elapsed[t] + 1 ELSE LongAgo]
  /\ timer' = [t \in EventTypes |->
                 IF timer[t] # None THEN [timer[t] EXCEPT !.left = @ - 1]
                                    ELSE None]
  /\ UNCHANGED <<subscribed, lastEvent, inbox, seen, notified, fetchVars,
                 hookVars, phase>>

-----------------------------------------------------------------------------
Calls ==
  \/ \E c \in Callbacks : Subscribe(c) \/ Unsubscribe(c)
  \/ \E t \in EventTypes : RequestRefresh(t) \/ \E e \in ValuesOf(t) : Notify(t, e)
  \/ \E h \in Hooks : AddHook(h) \/ RemoveHook(h)
  \/ BeginTeardown \/ EndTeardown

Loop ==
  \/ \E c \in Callbacks : Deliver(c)
  \/ \E t \in EventTypes : StartRefresh(t) \/ EndRefresh(t) \/ TimerFires(t)
  \/ \E h \in Hooks : SkipHook(h) \/ CallHook(h) \/ SuspendHook(h) \/ ReturnHook(h)
  \/ Tick

Next == Calls \/ Loop

Spec == Init /\ [][Next]_vars

(* The event loop runs every task it has, and time passes.  Nobody is      *)
(* obliged to call the bus, and a refresh may hang.                        *)
Fairness ==
  /\ \A c \in Callbacks : WF_vars(Deliver(c))
  /\ \A t \in EventTypes : WF_vars(StartRefresh(t)) /\ WF_vars(TimerFires(t))
  /\ \A h \in Hooks : WF_vars(SkipHook(h)) /\ WF_vars(CallHook(h))
                       /\ WF_vars(SuspendHook(h)) /\ WF_vars(ReturnHook(h))
  /\ WF_vars(Tick)

FairSpec == Spec /\ Fairness

-----------------------------------------------------------------------------
(* Properties                                                              *)

(* The newest event callback c has been handed, run with it or not yet.    *)
Newest(c) == IF inbox[c] # <<>> THEN inbox[c][Len(inbox[c])] ELSE seen[c]

(* However subscribe, unsubscribe, notify and the timers interleave, the   *)
(* newest event a subscriber has been handed is the last event of its      *)
(* class: nobody is left with a stale value by the replay on subscription, *)
(* by the skipping of equal events or by a late timer.                     *)
SubscribersUpToDate ==
  phase = "up" => \A c \in subscribed :
    lastEvent[TypeOf[c]] # None => Newest(c) = lastEvent[TypeOf[c]]

(* The event notify was called with last is the one that stays: a          *)
(* postponed event never overtakes or undoes a later notification.         *)
LastNotificationWins ==
  phase = "up" => \A t \in EventTypes :
    IF timer[t] # None THEN timer[t].event = notified[t]
    ELSE \/ lastEvent[t] = notified[t]
         \/ /\ t = StateType /\ notified[t] = "idle"
            /\ lastEvent[t] = "docked"

(* However often notify is repeated, a postponed event is due no later     *)
(* than two debounce times after the last event of its class was emitted.  *)
PostponedInTime ==
  \A t \in EventTypes :
    timer[t] # None => elapsed[t] + timer[t].left <= 2 * Debounce

(* A hook whose callback does not suspend is never run twice without being *)
(* undone in between, and its undo function is never lost.                 *)
HookRunOnce ==
  \A h \in Hooks \ SuspendingHooks : active[h] = IF unsub[h] THEN 1 ELSE 0

(* While a class has subscribers and no event yet, its hooks have been run *)
(* or are about to be: no order of first subscriptions, last               *)
(* unsubscriptions and late hook tasks leaves a subscriber without them.   *)
HooksServeFirstSubscribers ==
  phase = "up" => \A t \in EventTypes : \A h \in AddedHooks(t) :
    HasSubscribers(t) /\ lastEvent[t] = None =>
      active[h] > 0 \/ hookTasks[h] > 0 \/ hookRunning[h] > 0

(* Repeated notifications do not starve the subscribers: a postponed event *)
(* is eventually emitted, or replaced by one that is emitted at once.      *)
PostponedIsEmitted ==
  \A t \in EventTypes : timer[t] # None ~> timer[t] = None

(* A requested refresh is never dropped: one runs that had not ended when  *)
(* the request was made.                                                   *)
RequestIsServed ==
  \A t \in RefreshableTypes :
    refreshTasks[t] > 0 ~> refreshing[t] \/ phase # "up"

(* An event that stays is seen: whatever was queued or postponed before,   *)
(* a subscriber that stays subscribed is run with the last event.          *)
StableEventIsSeen ==
  \A c \in Callbacks : \A e \in ValuesOf(TypeOf[c]) :
    <>[](c \in subscribed /\ lastEvent[TypeOf[c]] = e /\ phase = "up")
      => <>[](seen[c] = e)

Recovery ==
  /\ AvailabilityType \in EventTypes
  /\ lastEvent[AvailabilityType] = "unavailable"
  /\ lastEvent'[AvailabilityType] = "available"

(* A device that answers again is read again: the step that reports it     *)
(* available after unavailable leaves a refresh waiting for every other    *)
(* class that has subscribers.                                             *)
RecoveryRefreshesAll ==
  [][\A u \in EventTypes \ {AvailabilityType} :
       Recovery /\ HasSubscribers(u) => refreshTasks'[u] > 0]_vars

(* add_on_subscription_callback documents "Add callback, which is called   *)
(* on the first subscription of the given event": whenever a class has     *)
(* subscribers, its callbacks are in force or their tasks are about to run.*)
FirstSubscriptionRunsHook ==
  phase = "up" => \A t \in EventTypes : \A h \in AddedHooks(t) :
    HasSubscribers(t) /\ hookTasks[h] = 0 /\ hookRunning[h] = 0 => active[h] > 0

(* The bus is a register for each event class: in whatever order calls,    *)
(* tasks and timers come, a subscriber is run with the event it found and  *)
(* with every change since, in order and each once; a postponed event is   *)
(* the last one notified; and teardown alone loses anything.               *)
Waiting == [t \in EventTypes |-> timer[t] # None]
Promise == INSTANCE Register WITH
  Classes   <- EventTypes,
  Listeners <- Callbacks,
  ClassOf   <- TypeOf,
  Kept      <- {<<StateType, "docked", "idle">>},
  written   <- notified,
  postponed <- Waiting,
  shown     <- lastEvent,
  listening <- subscribed,
  unread    <- inbox,
  read      <- seen,
  closed    <- phase # "up"
BusIsRegister == Promise!Spec
=============================================================================
