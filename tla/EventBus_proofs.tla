--------------------------- MODULE EventBus_proofs ---------------------------
(***************************************************************************)
(* Proofs about EventBus, for every set of event classes, callbacks and    *)
(* hooks, every debounce time and every bound.                             *)
(***************************************************************************)
EXTENDS EventBus, QueueFacts, TLAPS

(* A hook whose _unsub is set has been run and not been undone.            *)
HookOwned == \A h \in Hooks : unsub[h] => active[h] > 0

TypeInv == TypeOK /\ HookOwned

-----------------------------------------------------------------------------
(* What a call stores in lastEvent is an event.                            *)
LEMMA EffectiveIsEvent ==
  ASSUME NEW t \in EventTypes, NEW e \in Values
  PROVE  Effective(t, e) \in Values
BY DEF Effective, Values, StateValues

(* Every event of a class is an event.                                     *)
LEMMA ValuesOfAreEvents ==
  ASSUME NEW t \in EventTypes
  PROVE  ValuesOf(t) \subseteq Values
BY DEF ValuesOf, Values

(* Emitting an event keeps the types of the variables it writes.           *)
LEMMA EmitType ==
  ASSUME TypeOK, NEW t \in EventTypes, NEW e \in Values, Emit(t, e)
  PROVE  /\ elapsed' \in [EventTypes -> 0 .. LongAgo]
         /\ timer' \in [EventTypes -> Timers \cup {None}]
         /\ lastEvent' \in [EventTypes -> Values \cup {None}]
         /\ inbox' \in [Callbacks -> Seq(Values)]
         /\ refreshTasks' \in [EventTypes -> Nat]
<1>1. Effective(t, e) \in Values
  BY EffectiveIsEvent
<1>2. elapsed' \in [EventTypes -> 0 .. LongAgo]
  BY DebounceAssumption DEF Emit, TypeOK, LongAgo
<1>3. timer' \in [EventTypes -> Timers \cup {None}]
  BY DEF Emit, TypeOK
<1>4. lastEvent' \in [EventTypes -> Values \cup {None}]
  BY <1>1 DEF Emit, TypeOK
<1>5. inbox' \in [Callbacks -> Seq(Values)]
  BY <1>1 DEF Emit, TypeOK
<1>6. refreshTasks' \in [EventTypes -> Nat]
  BY DEF Emit, TypeOK, Requested
<1>7. QED
  BY <1>2, <1>3, <1>4, <1>5, <1>6

(* A pending timer after a tick is a timer of the same event.              *)
LEMMA TickedTimer ==
  ASSUME NEW r \in Timers, r.left > 0
  PROVE  /\ [r EXCEPT !.left = @ - 1] \in Timers
         /\ [r EXCEPT !.left = @ - 1].event = r.event
         /\ [r EXCEPT !.left = @ - 1].left = r.left - 1
<1>1. r.left - 1 \in 0 .. Debounce
  BY DebounceAssumption DEF Timers
<1>2. QED
  BY <1>1 DEF Timers

(* Undoing hooks keeps what is known of them.                              *)
LEMMA UnsubscribeHooksInv ==
  ASSUME TypeInv, NEW H, UnsubscribeHooks(H)
  PROVE  /\ unsub' \in [Hooks -> BOOLEAN]
         /\ active' \in [Hooks -> Nat]
         /\ HookOwned'
<1>1. unsub' \in [Hooks -> BOOLEAN]
  BY DEF TypeInv, TypeOK, UnsubscribeHooks
<1>2. ASSUME NEW h \in Hooks
      PROVE  active'[h] \in Nat /\ (unsub'[h] => active'[h] > 0)
  <2>1. active[h] \in Nat /\ unsub[h] \in BOOLEAN /\ (unsub[h] => active[h] > 0)
    BY DEF TypeInv, TypeOK, HookOwned
  <2>2. active'[h] = IF h \in H /\ unsub[h] THEN active[h] - 1 ELSE active[h]
    BY DEF UnsubscribeHooks
  <2>3. unsub'[h] = IF h \in H THEN FALSE ELSE unsub[h]
    BY DEF UnsubscribeHooks
  <2>4. CASE h \in H /\ unsub[h]
    BY <2>1, <2>2, <2>3, <2>4
  <2>5. CASE ~(h \in H /\ unsub[h])
    BY <2>1, <2>2, <2>3, <2>5
  <2>6. QED
    BY <2>4, <2>5
<1>3. active' \in [Hooks -> Nat]
  BY <1>2 DEF UnsubscribeHooks
<1>4. QED
  BY <1>1, <1>2, <1>3 DEF HookOwned

-----------------------------------------------------------------------------
(* Every step keeps the types; HookOwned is what makes the counter of the  *)
(* runs in force stay a natural number.                                    *)
LEMMA TypeInvStep == TypeInv /\ [Next]_vars => TypeInv'
<1> SUFFICES ASSUME TypeInv, [Next]_vars PROVE TypeInv'
  OBVIOUS
<1> USE DEF TypeInv
<1>1. ASSUME NEW c \in Callbacks, Subscribe(c) PROVE TypeInv'
  <2>1. TypeOf[c] \in EventTypes
    BY TypingAssumption
  <2>2. inbox' \in [Callbacks -> Seq(Values)]
    BY <1>1, <2>1 DEF Subscribe, TypeOK
  <2>3. refreshTasks' \in [EventTypes -> Nat] /\ hookTasks' \in [Hooks -> Nat]
    BY <1>1, <2>1 DEF Subscribe, TypeOK, Requested
  <2>4. QED
    BY <1>1, <2>2, <2>3 DEF Subscribe, TypeOK, HookOwned
<1>2. ASSUME NEW c \in Callbacks, Unsubscribe(c) PROVE TypeInv'
  <2>1. PICK H : UnsubscribeHooks(H)
    BY <1>2 DEF Unsubscribe
  <2>2. QED
    BY <1>2, <2>1, UnsubscribeHooksInv DEF Unsubscribe, TypeOK, fetchVars
<1>3. ASSUME NEW t \in EventTypes, RequestRefresh(t) PROVE TypeInv'
  BY <1>3 DEF RequestRefresh, TypeOK, HookOwned, Requested, busVars, hookVars
<1>4. ASSUME NEW t \in EventTypes, NEW e \in ValuesOf(t), Notify(t, e)
      PROVE TypeInv'
  <2>1. e \in Values
    BY ValuesOfAreEvents
  <2>2. PICK debounce \in {0, Debounce} :
          NotifyNow(t, e, debounce) \/ NotifyLater(t, e, debounce)
    BY <1>4 DEF Notify
  <2>3. CASE NotifyNow(t, e, debounce)
    BY <2>1, <2>3, EmitType DEF NotifyNow, TypeOK, HookOwned, hookVars
  <2>4. CASE NotifyLater(t, e, debounce)
    <3>1. debounce = Debounce
      BY <2>2, <2>4 DEF NotifyLater
    <3>2. [event |-> e, left |-> debounce] \in Timers
      BY <2>1, <3>1, DebounceAssumption DEF Timers
    <3>3. QED
      BY <2>1, <2>4, <3>2 DEF NotifyLater, TypeOK, HookOwned, hookVars, fetchVars
  <2>5. QED
    BY <2>2, <2>3, <2>4
<1>5. ASSUME NEW h \in Hooks, AddHook(h) PROVE TypeInv'
  BY <1>5 DEF AddHook, TypeOK, HookOwned, busVars, fetchVars
<1>6. ASSUME NEW h \in Hooks, RemoveHook(h) PROVE TypeInv'
  <2>1. UnsubscribeHooks({h})
    BY <1>6 DEF RemoveHook
  <2>2. QED
    BY <1>6, <2>1, UnsubscribeHooksInv DEF RemoveHook, TypeOK, busVars, fetchVars
<1>7. CASE BeginTeardown
  BY <1>7 DEF BeginTeardown, TypeOK, HookOwned
<1>8. CASE EndTeardown
  BY <1>8 DEF EndTeardown, TypeOK, HookOwned, fetchVars, hookVars
<1>9. ASSUME NEW c \in Callbacks, Deliver(c) PROVE TypeInv'
  BY <1>9 DEF Deliver, TypeOK, HookOwned, fetchVars, hookVars
<1>10. ASSUME NEW t \in EventTypes, StartRefresh(t) PROVE TypeInv'
  BY <1>10 DEF StartRefresh, TypeOK, HookOwned, busVars, hookVars
<1>11. ASSUME NEW t \in EventTypes, EndRefresh(t) PROVE TypeInv'
  BY <1>11 DEF EndRefresh, TypeOK, HookOwned, busVars, hookVars
<1>12. ASSUME NEW t \in EventTypes, TimerFires(t) PROVE TypeInv'
  <2>1. timer[t].event \in Values
    BY <1>12 DEF TimerFires, TypeOK, Timers
  <2>2. QED
    BY <1>12, <2>1, EmitType DEF TimerFires, TypeOK, HookOwned, hookVars
<1>13. ASSUME NEW h \in Hooks, SkipHook(h) PROVE TypeInv'
  BY <1>13 DEF SkipHook, TypeOK, HookOwned, busVars, fetchVars
<1>14. ASSUME NEW h \in Hooks, CallHook(h) PROVE TypeInv'
  BY <1>14 DEF CallHook, TypeOK, HookOwned, busVars, fetchVars
<1>15. ASSUME NEW h \in Hooks, SuspendHook(h) PROVE TypeInv'
  BY <1>15 DEF SuspendHook, TypeOK, HookOwned, busVars, fetchVars
<1>16. ASSUME NEW h \in Hooks, ReturnHook(h) PROVE TypeInv'
  BY <1>16 DEF ReturnHook, TypeOK, HookOwned, busVars, fetchVars
<1>17. CASE Tick
  <2>1. elapsed' \in [EventTypes -> 0 .. LongAgo]
    BY <1>17, DebounceAssumption DEF Tick, TypeOK, LongAgo
  <2>2. ASSUME NEW t \in EventTypes, timer[t] # None
        PROVE  [timer[t] EXCEPT !.left = @ - 1] \in Timers
    <3>1. timer[t] \in Timers /\ timer[t].left > 0
      BY <1>17, <2>2 DEF Tick, TypeOK
    <3>2. QED
      BY <3>1, TickedTimer
  <2>3. timer' \in [EventTypes -> Timers \cup {None}]
    BY <1>17, <2>2 DEF Tick, TypeOK
  <2>4. QED
    BY <1>17, <2>1, <2>3 DEF Tick, TypeOK, HookOwned, fetchVars, hookVars
<1>18. CASE UNCHANGED vars
  BY <1>18 DEF vars, busVars, fetchVars, hookVars, TypeOK, HookOwned
<1>19. QED
  BY <1>1, <1>2, <1>3, <1>4, <1>5, <1>6, <1>7, <1>8, <1>9, <1>10, <1>11,
     <1>12, <1>13, <1>14, <1>15, <1>16, <1>17, <1>18 DEF Next, Calls, Loop

(* The bus is type correct.                                                *)
THEOREM TypeCorrect == Spec => [](TypeOK /\ HookOwned)
<1>1. Init => TypeInv
  BY DebounceAssumption DEF Init, TypeInv, TypeOK, HookOwned, LongAgo
<1>2. TypeInv => TypeOK /\ HookOwned
  BY DEF TypeInv
<1>3. QED
  BY <1>1, <1>2, TypeInvStep, PTL DEF Spec

-----------------------------------------------------------------------------
(* Emitting an event keeps every subscriber up to date.                    *)
LEMMA EmitUpToDate ==
  ASSUME TypeOK, SubscribersUpToDate, NEW t \in EventTypes, NEW e \in Values,
         Emit(t, e), UNCHANGED <<subscribed, seen, phase>>
  PROVE  SubscribersUpToDate'
<1> SUFFICES ASSUME phase = "up", NEW c \in subscribed,
                    lastEvent'[TypeOf[c]] # None
             PROVE  Newest(c)' = lastEvent'[TypeOf[c]]
  BY DEF SubscribersUpToDate
<1> DEFINE event == Effective(t, e)
<1>1. c \in Callbacks /\ TypeOf[c] \in EventTypes /\ event \in Values
  BY TypingAssumption, EffectiveIsEvent DEF TypeOK
<1>2. inbox[c] \in Seq(Values) /\ lastEvent'[t] = event
  BY <1>1 DEF TypeOK, Emit
<1>3. CASE TypeOf[c] # t
  BY <1>1, <1>3 DEF Emit, TypeOK, SubscribersUpToDate, SubscribersOf, Newest
<1>4. CASE TypeOf[c] = t /\ event = lastEvent[t]
  BY <1>1, <1>2, <1>4 DEF Emit, TypeOK, SubscribersUpToDate, SubscribersOf, Newest
<1>5. CASE TypeOf[c] = t /\ event # lastEvent[t]
  <2>1. inbox'[c] = Append(inbox[c], event)
    BY <1>1, <1>5 DEF Emit, SubscribersOf
  <2>2. inbox'[c] # <<>> /\ inbox'[c][Len(inbox'[c])] = event
    BY <1>1, <1>2, <2>1, LastOfAppend
  <2>3. QED
    BY <1>2, <1>5, <2>2 DEF Newest
<1>6. QED
  BY <1>3, <1>4, <1>5

(* A step that leaves the events and their subscribers alone keeps         *)
(* SubscribersUpToDate.                                                    *)
LEMMA QuietUpToDate ==
  ASSUME SubscribersUpToDate, UNCHANGED <<subscribed, lastEvent, inbox, seen, phase>>
  PROVE  SubscribersUpToDate'
BY DEF SubscribersUpToDate, Newest

(* Every step keeps SubscribersUpToDate.                                   *)
LEMMA UpToDateStep ==
  TypeInv /\ SubscribersUpToDate /\ [Next]_vars => SubscribersUpToDate'
<1> SUFFICES ASSUME TypeInv, SubscribersUpToDate, [Next]_vars
             PROVE  SubscribersUpToDate'
  OBVIOUS
<1>0. TypeOK
  BY DEF TypeInv
<1>1. ASSUME NEW c \in Callbacks, Subscribe(c) PROVE SubscribersUpToDate'
  <2> SUFFICES ASSUME phase = "up", NEW d \in subscribed',
                      lastEvent[TypeOf[d]] # None
               PROVE  Newest(d)' = lastEvent[TypeOf[d]]
    BY <1>1 DEF Subscribe, SubscribersUpToDate
  <2>1. d \in Callbacks /\ TypeOf[d] \in EventTypes
    BY <1>0, <1>1, TypingAssumption DEF Subscribe, TypeOK
  <2>2. CASE d = c
    <3>1. inbox'[c] = Append(inbox[c], lastEvent[TypeOf[c]])
      BY <1>0, <1>1, <2>2 DEF Subscribe, TypeOK
    <3>2. inbox[c] \in Seq(Values) /\ lastEvent[TypeOf[c]] \in Values
      BY <1>0, <2>1, <2>2 DEF TypeOK
    <3>3. QED
      BY <2>2, <3>1, <3>2, LastOfAppend DEF Newest
  <2>3. CASE d # c
    <3>1. d \in subscribed /\ inbox'[d] = inbox[d] /\ seen'[d] = seen[d]
      BY <1>0, <1>1, <2>1, <2>3 DEF Subscribe, TypeOK
    <3>2. QED
      BY <3>1 DEF SubscribersUpToDate, Newest
  <2>4. QED
    BY <2>2, <2>3
<1>2. ASSUME NEW c \in Callbacks, Unsubscribe(c) PROVE SubscribersUpToDate'
  BY <1>2 DEF Unsubscribe, SubscribersUpToDate, Newest
<1>3. ASSUME NEW t \in EventTypes, RequestRefresh(t) PROVE SubscribersUpToDate'
  BY <1>3, QuietUpToDate DEF RequestRefresh, busVars
<1>4. ASSUME NEW t \in EventTypes, NEW e \in ValuesOf(t), Notify(t, e)
      PROVE  SubscribersUpToDate'
  <2>1. e \in Values
    BY ValuesOfAreEvents
  <2>2. PICK debounce :
          NotifyNow(t, e, debounce) \/ NotifyLater(t, e, debounce)
    BY <1>4 DEF Notify
  <2>3. CASE NotifyNow(t, e, debounce)
    BY <1>0, <2>1, <2>3, EmitUpToDate DEF NotifyNow
  <2>4. CASE NotifyLater(t, e, debounce)
    BY <2>4, QuietUpToDate DEF NotifyLater
  <2>5. QED
    BY <2>2, <2>3, <2>4
<1>5. ASSUME NEW h \in Hooks, AddHook(h) \/ RemoveHook(h)
      PROVE  SubscribersUpToDate'
  BY <1>5, QuietUpToDate DEF AddHook, RemoveHook, busVars
<1>6. CASE BeginTeardown
  BY <1>6 DEF BeginTeardown, SubscribersUpToDate
<1>7. CASE EndTeardown
  BY <1>7 DEF EndTeardown, SubscribersUpToDate
<1>8. ASSUME NEW c \in Callbacks, Deliver(c) PROVE SubscribersUpToDate'
  <2> SUFFICES ASSUME phase = "up", NEW d \in subscribed,
                      lastEvent[TypeOf[d]] # None
               PROVE  Newest(d)' = lastEvent[TypeOf[d]]
    BY <1>8 DEF Deliver, SubscribersUpToDate
  <2>1. d \in Callbacks /\ Newest(d) = lastEvent[TypeOf[d]]
    BY <1>0 DEF SubscribersUpToDate, TypeOK
  <2>2. CASE d = c
    <3>1. /\ inbox[c] \in Seq(Values) /\ inbox[c] # <<>>
          /\ inbox'[c] = Tail(inbox[c]) /\ seen'[c] = Head(inbox[c])
      BY <1>0, <1>8 DEF Deliver, TypeOK
    <3>2. QED
      BY <2>1, <2>2, <3>1, LastOfTail DEF Newest
  <2>3. CASE d # c
    <3>1. inbox'[d] = inbox[d] /\ seen'[d] = seen[d]
      BY <1>0, <1>8, <2>1, <2>3 DEF Deliver, TypeOK
    <3>2. QED
      BY <2>1, <3>1 DEF Newest
  <2>4. QED
    BY <2>2, <2>3
<1>9. ASSUME NEW t \in EventTypes, StartRefresh(t) \/ EndRefresh(t)
      PROVE  SubscribersUpToDate'
  BY <1>9, QuietUpToDate DEF StartRefresh, EndRefresh, busVars
<1>10. ASSUME NEW t \in EventTypes, TimerFires(t) PROVE SubscribersUpToDate'
  <2>1. timer[t].event \in Values
    BY <1>0, <1>10 DEF TimerFires, TypeOK, Timers
  <2>2. QED
    BY <1>0, <1>10, <2>1, EmitUpToDate DEF TimerFires
<1>11. ASSUME NEW h \in Hooks,
              SkipHook(h) \/ CallHook(h) \/ SuspendHook(h) \/ ReturnHook(h)
       PROVE  SubscribersUpToDate'
  BY <1>11, QuietUpToDate DEF SkipHook, CallHook, SuspendHook, ReturnHook, busVars
<1>12. CASE Tick
  BY <1>12, QuietUpToDate DEF Tick
<1>13. CASE UNCHANGED vars
  BY <1>13, QuietUpToDate DEF vars, busVars
<1>14. QED
  BY <1>1, <1>2, <1>3, <1>4, <1>5, <1>6, <1>7, <1>8, <1>9, <1>10, <1>11,
     <1>12, <1>13 DEF Next, Calls, Loop

(* However the calls of the bus, its tasks and its timers interleave, the  *)
(* newest event a subscriber has been handed is the last of its class.     *)
THEOREM UpToDate == Spec => []SubscribersUpToDate
<1>1. Init => TypeInv /\ SubscribersUpToDate
  BY DebounceAssumption DEF Init, TypeInv, TypeOK, HookOwned, LongAgo,
     SubscribersUpToDate
<1>2. QED
  BY <1>1, TypeInvStep, UpToDateStep, PTL DEF Spec

-----------------------------------------------------------------------------
(* Every step keeps LastNotificationWins.                                  *)
LEMMA WinsStep ==
  TypeInv /\ LastNotificationWins /\ [Next]_vars => LastNotificationWins'
<1> SUFFICES ASSUME TypeInv, LastNotificationWins, [Next]_vars
             PROVE  LastNotificationWins'
  OBVIOUS
<1>0. TypeOK
  BY DEF TypeInv
<1>1. ASSUME UNCHANGED <<lastEvent, timer, notified, phase>>
      PROVE  LastNotificationWins'
  BY <1>1 DEF LastNotificationWins
<1>2. ASSUME NEW c \in Callbacks,
             Subscribe(c) \/ Unsubscribe(c) \/ Deliver(c)
      PROVE  LastNotificationWins'
  BY <1>1, <1>2 DEF Subscribe, Unsubscribe, Deliver
<1>3. ASSUME NEW t \in EventTypes,
             RequestRefresh(t) \/ StartRefresh(t) \/ EndRefresh(t)
      PROVE  LastNotificationWins'
  BY <1>1, <1>3 DEF RequestRefresh, StartRefresh, EndRefresh, busVars
<1>4. ASSUME NEW t \in EventTypes, NEW e \in ValuesOf(t), Notify(t, e)
      PROVE  LastNotificationWins'
  <2>1. PICK debounce \in {0, Debounce} :
          NotifyNow(t, e, debounce) \/ NotifyLater(t, e, debounce)
    BY <1>4 DEF Notify
  <2> SUFFICES ASSUME phase' = "up", NEW u \in EventTypes
               PROVE  IF timer'[u] # None THEN timer'[u].event = notified'[u]
                      ELSE \/ lastEvent'[u] = notified'[u]
                           \/ /\ u = StateType /\ notified'[u] = "idle"
                              /\ lastEvent'[u] = "docked"
    BY DEF LastNotificationWins
  <2>2. phase = "up"
    BY <2>1 DEF NotifyNow, NotifyLater
  <2>3. CASE u # t
    BY <1>0, <2>1, <2>2, <2>3 DEF NotifyNow, NotifyLater, Emit, TypeOK,
       LastNotificationWins
  <2>4. CASE u = t /\ NotifyNow(t, e, debounce)
    <3>1. timer'[t] = None /\ lastEvent'[t] = Effective(t, e) /\ notified'[t] = e
      BY <1>0, <2>4 DEF NotifyNow, Emit, TypeOK
    <3>2. QED
      BY <2>4, <3>1 DEF Effective
  <2>5. CASE u = t /\ NotifyLater(t, e, debounce)
    <3>1. e \in Values
      BY ValuesOfAreEvents
    <3>2. timer'[t] = [event |-> e, left |-> debounce] /\ notified'[t] = e
      BY <1>0, <2>5 DEF NotifyLater, TypeOK
    <3>3. timer'[t].event = notified'[t]
      BY <3>2
    <3>4. timer'[t] # None
      <4>1. debounce = Debounce
        BY <2>1, <2>5 DEF NotifyLater
      <4>2. QED
        BY <3>1, <3>2, <4>1, NoneAssumption, DebounceAssumption DEF Timers
    <3>5. QED
      BY <2>5, <3>3, <3>4
  <2>6. QED
    BY <2>1, <2>3, <2>4, <2>5
<1>5. ASSUME NEW h \in Hooks,
             \/ AddHook(h) \/ RemoveHook(h) \/ SkipHook(h) \/ CallHook(h)
             \/ SuspendHook(h) \/ ReturnHook(h)
      PROVE  LastNotificationWins'
  BY <1>1, <1>5 DEF AddHook, RemoveHook, SkipHook, CallHook, SuspendHook,
     ReturnHook, busVars
<1>6. CASE BeginTeardown \/ EndTeardown
  BY <1>6 DEF BeginTeardown, EndTeardown, LastNotificationWins
<1>7. ASSUME NEW t \in EventTypes, TimerFires(t) PROVE LastNotificationWins'
  <2> SUFFICES ASSUME phase = "up", NEW u \in EventTypes
               PROVE  IF timer'[u] # None THEN timer'[u].event = notified[u]
                      ELSE \/ lastEvent'[u] = notified[u]
                           \/ /\ u = StateType /\ notified[u] = "idle"
                              /\ lastEvent'[u] = "docked"
    BY <1>7 DEF TimerFires, LastNotificationWins
  <2>1. CASE u # t
    BY <1>0, <1>7, <2>1 DEF TimerFires, Emit, TypeOK, LastNotificationWins
  <2>2. CASE u = t
    <3>1. timer'[t] = None /\ lastEvent'[t] = Effective(t, timer[t].event)
      BY <1>0, <1>7 DEF TimerFires, Emit, TypeOK
    <3>2. timer[t].event = notified[t]
      BY <1>7 DEF TimerFires, LastNotificationWins
    <3>3. QED
      BY <2>2, <3>1, <3>2 DEF Effective
  <2>3. QED
    BY <2>1, <2>2
<1>8. CASE Tick
  <2> SUFFICES ASSUME phase = "up", NEW u \in EventTypes
               PROVE  IF timer'[u] # None THEN timer'[u].event = notified[u]
                      ELSE \/ lastEvent[u] = notified[u]
                           \/ /\ u = StateType /\ notified[u] = "idle"
                              /\ lastEvent[u] = "docked"
    BY <1>8 DEF Tick, LastNotificationWins
  <2>1. CASE timer[u] = None
    BY <1>8, <2>1 DEF Tick, LastNotificationWins
  <2>2. CASE timer[u] # None
    <3>1. /\ timer[u] \in Timers /\ timer[u].left > 0
          /\ timer[u].event = notified[u]
      BY <1>0, <1>8, <2>2 DEF Tick, TypeOK, LastNotificationWins
    <3>2. timer'[u] = [timer[u] EXCEPT !.left = @ - 1]
      BY <1>8, <2>2 DEF Tick
    <3>3. timer'[u] # None /\ timer'[u].event = notified[u]
      BY <3>1, <3>2, TickedTimer, NoneAssumption
    <3>4. QED
      BY <3>3
  <2>3. QED
    BY <2>1, <2>2
<1>9. CASE UNCHANGED vars
  BY <1>1, <1>9 DEF vars, busVars
<1>10. QED
  BY <1>2, <1>3, <1>4, <1>5, <1>6, <1>7, <1>8, <1>9 DEF Next, Calls, Loop

(* The event notify was called with last is never overtaken by an earlier  *)
(* one that was postponed.                                                 *)
THEOREM LastWins == Spec => []LastNotificationWins
<1>1. Init => TypeInv /\ LastNotificationWins
  BY DebounceAssumption DEF Init, TypeInv, TypeOK, HookOwned, LongAgo,
     LastNotificationWins
<1>2. QED
  BY <1>1, TypeInvStep, WinsStep, PTL DEF Spec

-----------------------------------------------------------------------------
(* Every step keeps PostponedInTime.                                       *)
LEMMA InTimeStep ==
  TypeInv /\ PostponedInTime /\ [Next]_vars => PostponedInTime'
<1> SUFFICES ASSUME TypeInv, PostponedInTime, [Next]_vars
             PROVE  PostponedInTime'
  OBVIOUS
<1>0. TypeOK
  BY DEF TypeInv
<1>1. ASSUME UNCHANGED <<elapsed, timer>>
      PROVE  PostponedInTime'
  BY <1>1 DEF PostponedInTime
<1>2. ASSUME NEW t \in EventTypes, NEW e, Emit(t, e) PROVE PostponedInTime'
  BY <1>0, <1>2 DEF Emit, TypeOK, PostponedInTime
<1>3. ASSUME NEW c \in Callbacks,
             Subscribe(c) \/ Unsubscribe(c) \/ Deliver(c)
      PROVE  PostponedInTime'
  BY <1>1, <1>3 DEF Subscribe, Unsubscribe, Deliver
<1>4. ASSUME NEW t \in EventTypes,
             RequestRefresh(t) \/ StartRefresh(t) \/ EndRefresh(t)
      PROVE  PostponedInTime'
  BY <1>1, <1>4 DEF RequestRefresh, StartRefresh, EndRefresh, busVars
<1>5. ASSUME NEW t \in EventTypes, NEW e \in ValuesOf(t), Notify(t, e)
      PROVE  PostponedInTime'
  <2>1. PICK debounce \in {0, Debounce} :
          NotifyNow(t, e, debounce) \/ NotifyLater(t, e, debounce)
    BY <1>5 DEF Notify
  <2>2. CASE NotifyNow(t, e, debounce)
    BY <1>2, <2>2 DEF NotifyNow
  <2>3. CASE NotifyLater(t, e, debounce)
    <3>1. debounce = Debounce /\ elapsed[t] <= Debounce
      BY <2>1, <2>3 DEF NotifyLater
    <3>2. timer'[t].left = Debounce
      BY <1>0, <2>3, <3>1 DEF NotifyLater, TypeOK
    <3>3. elapsed[t] + timer'[t].left <= 2 * Debounce
      BY <1>0, <3>1, <3>2, DebounceAssumption DEF TypeOK, LongAgo
    <3>4. \A u \in EventTypes \ {t} : timer'[u] = timer[u]
      BY <1>0, <2>3 DEF NotifyLater, TypeOK
    <3>5. elapsed' = elapsed
      BY <2>3 DEF NotifyLater
    <3>6. QED
      BY <3>3, <3>4, <3>5 DEF PostponedInTime
  <2>4. QED
    BY <2>1, <2>2, <2>3
<1>6. ASSUME NEW h \in Hooks,
             \/ AddHook(h) \/ RemoveHook(h) \/ SkipHook(h) \/ CallHook(h)
             \/ SuspendHook(h) \/ ReturnHook(h)
      PROVE  PostponedInTime'
  BY <1>1, <1>6 DEF AddHook, RemoveHook, SkipHook, CallHook, SuspendHook,
     ReturnHook, busVars
<1>7. CASE BeginTeardown
  BY <1>1, <1>7 DEF BeginTeardown
<1>8. CASE EndTeardown
  BY <1>8 DEF EndTeardown, PostponedInTime
<1>9. ASSUME NEW t \in EventTypes, TimerFires(t) PROVE PostponedInTime'
  BY <1>2, <1>9 DEF TimerFires
<1>10. CASE Tick
  <2> SUFFICES ASSUME NEW u \in EventTypes, timer'[u] # None
               PROVE  elapsed'[u] + timer'[u].left <= 2 * Debounce
    BY DEF PostponedInTime
  <2>1. timer[u] # None /\ timer'[u] = [timer[u] EXCEPT !.left = @ - 1]
    BY <1>10 DEF Tick
  <2>2. timer[u] \in Timers /\ elapsed[u] \in Nat /\ timer[u].left \in Nat
    BY <1>0, <2>1 DEF TypeOK, Timers
  <2>3. elapsed[u] + timer[u].left <= 2 * Debounce
    BY <2>1 DEF PostponedInTime
  <2>4. timer'[u].left = timer[u].left - 1
    BY <1>10, <2>1, <2>2, TickedTimer DEF Tick
  <2>5. elapsed'[u] <= elapsed[u] + 1 /\ elapsed'[u] \in Nat
    BY <1>0, <1>10, <2>2, DebounceAssumption DEF Tick, LongAgo, TypeOK
  <2>6. QED
    BY <2>2, <2>3, <2>4, <2>5, DebounceAssumption
<1>11. CASE UNCHANGED vars
  BY <1>1, <1>11 DEF vars, busVars
<1>12. QED
  BY <1>3, <1>4, <1>5, <1>6, <1>7, <1>8, <1>9, <1>10, <1>11
     DEF Next, Calls, Loop

(* A postponed event is due within two debounce times of the last event.   *)
THEOREM InTime == Spec => []PostponedInTime
<1>1. Init => TypeInv /\ PostponedInTime
  BY DebounceAssumption DEF Init, TypeInv, TypeOK, HookOwned, LongAgo,
     PostponedInTime
<1>2. QED
  BY <1>1, TypeInvStep, InTimeStep, PTL DEF Spec

-----------------------------------------------------------------------------
(* The inductive invariant of the hooks: a hook that does not suspend is   *)
(* never in the middle of its run.                                         *)
HookInv ==
  /\ HookRunOnce
  /\ HooksServeFirstSubscribers
  /\ \A h \in Hooks \ SuspendingHooks : hookRunning[h] = 0

(* Emitting an event never makes lastEvent None.                           *)
LEMMA EmitHookInv ==
  ASSUME TypeInv, HookInv, NEW t \in EventTypes, NEW e \in Values, Emit(t, e),
         UNCHANGED <<subscribed, hookVars, phase>>
  PROVE  HookInv'
<1>1. Effective(t, e) # None
  BY EffectiveIsEvent, NoneAssumption
<1>2. \A u \in EventTypes : lastEvent'[u] = None => lastEvent[u] = None
  BY <1>1 DEF Emit, TypeInv, TypeOK
<1>3. QED
  BY <1>2 DEF HookInv, HookRunOnce, HooksServeFirstSubscribers, hookVars,
     AddedHooks, HasSubscribers, SubscribersOf

(* Every step keeps what is known of the hooks.                            *)
LEMMA HookInvStep == TypeInv /\ HookInv /\ [Next]_vars => HookInv'
<1> SUFFICES ASSUME TypeInv, HookInv, [Next]_vars PROVE HookInv'
  OBVIOUS
<1> USE DEF HookInv
<1>0. TypeOK /\ HookOwned
  BY DEF TypeInv
<1>1. ASSUME UNCHANGED <<subscribed, lastEvent, hookVars, phase>>
      PROVE  HookInv'
  BY <1>1 DEF HookRunOnce, HooksServeFirstSubscribers, hookVars, AddedHooks,
     HasSubscribers, SubscribersOf
<1>2. ASSUME NEW c \in Callbacks, Subscribe(c) PROVE HookInv'
  <2>1. HookRunOnce' /\ (\A h \in Hooks \ SuspendingHooks : hookRunning'[h] = 0)
    BY <1>2 DEF Subscribe, HookRunOnce
  <2>2. ASSUME phase = "up", NEW t \in EventTypes, NEW h \in AddedHooks(t),
               HasSubscribers(t)', lastEvent[t] = None
        PROVE  active[h] > 0 \/ hookTasks'[h] > 0 \/ hookRunning[h] > 0
    <3>1. /\ h \in Hooks /\ hookTasks[h] \in Nat
          /\ hookTasks'[h] \in Nat /\ hookTasks'[h] >= hookTasks[h]
      BY <1>0, <1>2 DEF AddedHooks, TypeOK, Subscribe
    <3>2. CASE HasSubscribers(t)
      BY <2>2, <3>1, <3>2 DEF HooksServeFirstSubscribers
    <3>3. CASE ~HasSubscribers(t)
      <4>1. TypeOf[c] = t
        BY <1>2, <2>2, <3>3 DEF Subscribe, HasSubscribers, SubscribersOf
      <4>2. hookTasks'[h] = hookTasks[h] + 1
        BY <1>2, <2>2, <3>1, <3>3, <4>1 DEF Subscribe
      <4>3. QED
        BY <3>1, <4>2
    <3>4. QED
      BY <3>2, <3>3
  <2>3. HooksServeFirstSubscribers'
    BY <1>2, <2>2 DEF Subscribe, HooksServeFirstSubscribers, AddedHooks
  <2>4. QED
    BY <2>1, <2>3
<1>3. ASSUME NEW c \in Callbacks, Unsubscribe(c) PROVE HookInv'
  <2> DEFINE H == IF SubscribersOf(TypeOf[c]) = {c}
                    THEN AddedHooks(TypeOf[c]) ELSE {}
  <2>1. UnsubscribeHooks(H)
    BY <1>3 DEF Unsubscribe
  <2>2. HookRunOnce'
    BY <1>0, <2>1 DEF UnsubscribeHooks, HookRunOnce, TypeOK
  <2>3. \A h \in Hooks \ SuspendingHooks : hookRunning'[h] = 0
    BY <1>3 DEF Unsubscribe
  <2>4. ASSUME phase = "up", NEW t \in EventTypes, NEW h \in AddedHooks(t),
               HasSubscribers(t)', lastEvent[t] = None
        PROVE  active'[h] > 0 \/ hookTasks[h] > 0 \/ hookRunning[h] > 0
    <3>1. HasSubscribers(t)
      BY <1>3, <2>4 DEF Unsubscribe, HasSubscribers, SubscribersOf
    <3>2. h \notin H
      BY <1>3, <2>4 DEF Unsubscribe, HasSubscribers, SubscribersOf, AddedHooks
    <3>3. active'[h] = active[h]
      BY <2>1, <2>4, <3>2 DEF UnsubscribeHooks, AddedHooks
    <3>4. QED
      BY <2>4, <3>1, <3>3 DEF HooksServeFirstSubscribers
  <2>5. HooksServeFirstSubscribers'
    BY <1>3, <2>4 DEF Unsubscribe, HooksServeFirstSubscribers, AddedHooks
  <2>6. QED
    BY <2>2, <2>3, <2>5
<1>4. ASSUME NEW t \in EventTypes,
             RequestRefresh(t) \/ StartRefresh(t) \/ EndRefresh(t)
      PROVE  HookInv'
  BY <1>1, <1>4 DEF RequestRefresh, StartRefresh, EndRefresh, busVars
<1>5. ASSUME NEW t \in EventTypes, NEW e \in ValuesOf(t), Notify(t, e)
      PROVE  HookInv'
  <2>1. e \in Values
    BY ValuesOfAreEvents
  <2>2. PICK debounce :
          NotifyNow(t, e, debounce) \/ NotifyLater(t, e, debounce)
    BY <1>5 DEF Notify
  <2>3. CASE NotifyNow(t, e, debounce)
    BY <2>1, <2>3, EmitHookInv DEF NotifyNow
  <2>4. CASE NotifyLater(t, e, debounce)
    BY <1>1, <2>4 DEF NotifyLater
  <2>5. QED
    BY <2>2, <2>3, <2>4
<1>6. ASSUME NEW h \in Hooks, AddHook(h) PROVE HookInv'
  <2>1. HookRunOnce' /\ (\A g \in Hooks \ SuspendingHooks : hookRunning'[g] = 0)
    BY <1>6 DEF AddHook, HookRunOnce
  <2>2. ASSUME phase = "up", NEW t \in EventTypes, NEW g \in AddedHooks(t)',
               HasSubscribers(t), lastEvent[t] = None
        PROVE  active[g] > 0 \/ hookTasks'[g] > 0 \/ hookRunning[g] > 0
    <3>1. g \in Hooks /\ HookType[g] = t /\ hookTasks[g] \in Nat
      BY <1>0, <2>2 DEF AddedHooks, TypeOK
    <3>2. CASE g = h
      <4>1. hookTasks'[g] = hookTasks[g] + 1
        BY <1>0, <1>6, <2>2, <3>1, <3>2 DEF AddHook, TypeOK
      <4>2. QED
        BY <3>1, <4>1
    <3>3. CASE g # h
      BY <1>0, <1>6, <2>2, <3>1, <3>3 DEF AddHook, TypeOK, AddedHooks,
         HooksServeFirstSubscribers
    <3>4. QED
      BY <3>2, <3>3
  <2>3. HooksServeFirstSubscribers'
    BY <1>6, <2>2 DEF AddHook, busVars, HooksServeFirstSubscribers,
       HasSubscribers, SubscribersOf
  <2>4. QED
    BY <2>1, <2>3
<1>7. ASSUME NEW h \in Hooks, RemoveHook(h) PROVE HookInv'
  <2>1. UnsubscribeHooks({h})
    BY <1>7 DEF RemoveHook
  <2>2. HookRunOnce'
    BY <1>0, <2>1 DEF UnsubscribeHooks, HookRunOnce, TypeOK
  <2>3. \A g \in Hooks \ SuspendingHooks : hookRunning'[g] = 0
    BY <1>7 DEF RemoveHook
  <2>4. ASSUME phase = "up", NEW t \in EventTypes, NEW g \in AddedHooks(t)',
               HasSubscribers(t), lastEvent[t] = None
        PROVE  active'[g] > 0 \/ hookTasks[g] > 0 \/ hookRunning[g] > 0
    <3>1. g \in Hooks /\ HookType[g] = t /\ hookState'[g] = "added"
      BY <2>4 DEF AddedHooks
    <3>2. g # h /\ hookState[g] = "added"
      BY <1>0, <1>7, <3>1 DEF RemoveHook, TypeOK
    <3>3. active'[g] = active[g]
      BY <2>1, <3>1, <3>2 DEF UnsubscribeHooks
    <3>4. QED
      BY <2>4, <3>1, <3>2, <3>3 DEF HooksServeFirstSubscribers, AddedHooks
  <2>5. HooksServeFirstSubscribers'
    BY <1>7, <2>4 DEF RemoveHook, busVars, HooksServeFirstSubscribers,
       HasSubscribers, SubscribersOf
  <2>6. QED
    BY <2>2, <2>3, <2>5
<1>8. CASE BeginTeardown
  BY <1>8 DEF BeginTeardown, HookRunOnce, HooksServeFirstSubscribers
<1>9. CASE EndTeardown
  BY <1>9 DEF EndTeardown, HookRunOnce, HooksServeFirstSubscribers, hookVars
<1>10. ASSUME NEW c \in Callbacks, Deliver(c) PROVE HookInv'
  BY <1>1, <1>10 DEF Deliver
<1>11. ASSUME NEW t \in EventTypes, TimerFires(t) PROVE HookInv'
  <2>1. timer[t].event \in Values
    BY <1>0, <1>11 DEF TimerFires, TypeOK, Timers
  <2>2. QED
    BY <1>11, <2>1, EmitHookInv DEF TimerFires
<1>12. ASSUME NEW h \in Hooks, SkipHook(h) PROVE HookInv'
  BY <1>0, <1>12 DEF SkipHook, busVars, TypeOK, HookOwned, HookRunOnce,
     HooksServeFirstSubscribers, AddedHooks, HasSubscribers, SubscribersOf
<1>13. ASSUME NEW h \in Hooks, CallHook(h) PROVE HookInv'
  BY <1>0, <1>13 DEF CallHook, busVars, TypeOK, HookRunOnce,
     HooksServeFirstSubscribers, AddedHooks, HasSubscribers, SubscribersOf
<1>14. ASSUME NEW h \in Hooks, SuspendHook(h) PROVE HookInv'
  BY <1>0, <1>14 DEF SuspendHook, busVars, TypeOK, HookRunOnce,
     HooksServeFirstSubscribers, AddedHooks, HasSubscribers, SubscribersOf
<1>15. ASSUME NEW h \in Hooks, ReturnHook(h) PROVE HookInv'
  BY <1>0, <1>15 DEF ReturnHook, busVars, TypeOK, HookRunOnce,
     HooksServeFirstSubscribers, AddedHooks, HasSubscribers, SubscribersOf
<1>16. CASE Tick
  BY <1>1, <1>16 DEF Tick
<1>17. CASE UNCHANGED vars
  BY <1>1, <1>17 DEF vars, busVars
<1>18. QED
  BY <1>2, <1>3, <1>4, <1>5, <1>6, <1>7, <1>8, <1>9, <1>10, <1>11, <1>12,
     <1>13, <1>14, <1>15, <1>16, <1>17 DEF Next, Calls, Loop

(* A hook that does not suspend is never run twice without being undone.   *)
THEOREM RunOnce == Spec => []HookRunOnce
<1>1. Init => TypeInv /\ HookInv
  BY DebounceAssumption DEF Init, TypeInv, TypeOK, HookOwned, LongAgo,
     HookInv, HookRunOnce, HooksServeFirstSubscribers, HasSubscribers, SubscribersOf
<1>2. HookInv => HookRunOnce
  BY DEF HookInv
<1>3. QED
  BY <1>1, <1>2, TypeInvStep, HookInvStep, PTL DEF Spec

(* Subscribers of a class without an event have their hooks run.           *)
THEOREM HooksServe == Spec => []HooksServeFirstSubscribers
<1>1. Init => TypeInv /\ HookInv
  BY DebounceAssumption DEF Init, TypeInv, TypeOK, HookOwned, LongAgo,
     HookInv, HookRunOnce, HooksServeFirstSubscribers, HasSubscribers, SubscribersOf
<1>2. HookInv => HooksServeFirstSubscribers
  BY DEF HookInv
<1>3. QED
  BY <1>1, <1>2, TypeInvStep, HookInvStep, PTL DEF Spec

-----------------------------------------------------------------------------
(* What RecoveryRefreshesAll says of one step                              *)
Refreshed ==
  \A u \in EventTypes \ {AvailabilityType} :
    Recovery /\ HasSubscribers(u) => refreshTasks'[u] > 0

(* Only an event that is "available" itself, and that recovers, is stored  *)
(* as "available" after "unavailable": nothing else is mapped to it, and   *)
(* what _notify requests then are all other classes.                       *)
LEMMA EmitRefreshes ==
  ASSUME TypeOK, NEW t \in EventTypes, NEW e \in Values, Emit(t, e)
  PROVE  Refreshed
<1>1. SUFFICES ASSUME NEW u \in EventTypes \ {AvailabilityType}, Recovery, HasSubscribers(u)
               PROVE  refreshTasks'[u] > 0
  BY DEF Refreshed
<1>2. lastEvent' = [lastEvent EXCEPT ![t] = Effective(t, e)]
  BY DEF Emit
<1>3. t = AvailabilityType
  BY <1>1, <1>2 DEF Recovery, TypeOK
<1>4. Effective(t, e) = e
  BY <1>3, KindAssumption DEF Effective
<1>5. e = "available" /\ Recovers(t, e)
  BY <1>1, <1>2, <1>3, <1>4 DEF Recovery, Recovers, TypeOK
<1>6. refreshTasks' = Requested(EventTypes \ {AvailabilityType}, subscribed)
  BY <1>5 DEF Emit
<1>7. \E c \in subscribed : TypeOf[c] = u
  BY <1>1 DEF HasSubscribers, SubscribersOf
<1>8. QED
  BY <1>1, <1>6, <1>7 DEF Requested, TypeOK

(* Every step that reports a device available again requests the refreshes.*)
LEMMA StepRefreshes == ASSUME TypeOK, [Next]_vars PROVE Refreshed
<1>1. CASE lastEvent' = lastEvent
  BY <1>1 DEF Refreshed, Recovery
<1>2. ASSUME NEW t \in EventTypes, NEW e \in ValuesOf(t), Notify(t, e) PROVE Refreshed
  <2>1. PICK debounce : NotifyNow(t, e, debounce) \/ NotifyLater(t, e, debounce)
    BY <1>2 DEF Notify
  <2>2. CASE NotifyNow(t, e, debounce)
    BY <2>2, <1>2, ValuesOfAreEvents, EmitRefreshes DEF NotifyNow
  <2>3. QED
    BY <1>1, <2>1, <2>2 DEF NotifyLater
<1>3. ASSUME NEW t \in EventTypes, TimerFires(t) PROVE Refreshed
  <2>1. timer[t].event \in Values
    BY <1>3 DEF TimerFires, TypeOK, Timers
  <2>2. QED
    BY <1>3, <2>1, EmitRefreshes DEF TimerFires
<1>4. CASE \E c \in Callbacks : Subscribe(c) \/ Unsubscribe(c) \/ Deliver(c)
  BY <1>1, <1>4 DEF Subscribe, Unsubscribe, Deliver
<1>5. CASE \E t \in EventTypes : RequestRefresh(t) \/ StartRefresh(t) \/ EndRefresh(t)
  BY <1>1, <1>5 DEF RequestRefresh, StartRefresh, EndRefresh, busVars
<1>6. CASE \E h \in Hooks : \/ AddHook(h) \/ RemoveHook(h) \/ SkipHook(h)
                          \/ CallHook(h) \/ SuspendHook(h) \/ ReturnHook(h)
  BY <1>1, <1>6 DEF AddHook, RemoveHook, SkipHook, CallHook, SuspendHook, ReturnHook, busVars
<1>7. CASE BeginTeardown \/ EndTeardown \/ Tick \/ UNCHANGED vars
  BY <1>1, <1>7 DEF BeginTeardown, EndTeardown, Tick, vars, busVars
<1>8. QED
  BY <1>2, <1>3, <1>4, <1>5, <1>6, <1>7 DEF Next, Calls, Loop

(* A device that is available again has a refresh waiting for every other  *)
(* class with subscribers, whatever happened while it was away.            *)
THEOREM RecoveryRefreshes == Spec => RecoveryRefreshesAll
<1>1. TypeOK /\ [Next]_vars => [Refreshed]_vars
  BY StepRefreshes
<1>2. Spec => [](TypeOK /\ HookOwned)
  BY TypeCorrect
<1>3. [Refreshed]_vars =>
        [\A u \in EventTypes \ {AvailabilityType} :
           Recovery /\ HasSubscribers(u) => refreshTasks'[u] > 0]_vars
  BY DEF Refreshed
<1>4. QED
  BY <1>1, <1>2, <1>3, PTL DEF Spec, RecoveryRefreshesAll

-----------------------------------------------------------------------------
(* The bus implements Register.  Time, hooks and refreshes are the detail  *)
(* it hides, and the event in a timer is the last one notified: in every   *)
(* phase of the bus, also in a teardown that events go on coming into.     *)
TimerIsLast == \A t \in EventTypes : timer[t] # None => timer[t].event = notified[t]

PromiseInv == TypeInv /\ TimerIsLast

(* The class of a timer that is set waits, that of one that is not does    *)
(* not, and the others are left alone.                                     *)
LEMMA WaitingChanges ==
  ASSUME TypeOK, NEW t \in EventTypes, NEW r \in Timers \cup {None},
         timer' = [timer EXCEPT ![t] = r]
  PROVE  /\ r = None => Waiting' = [Waiting EXCEPT ![t] = FALSE]
         /\ r # None => Waiting' = [Waiting EXCEPT ![t] = TRUE]
<1>1. \A u \in EventTypes : timer'[u] = IF u = t THEN r ELSE timer[u]
  BY DEF TypeOK
<1>2. CASE r = None
  BY <1>1, <1>2 DEF Waiting
<1>3. CASE r # None
  BY <1>1, <1>3 DEF Waiting
<1>4. QED
  BY <1>2, <1>3

(* What _notify makes of an event is what the register shows of it, the    *)
(* rule for idle after docked included, and it tells whom _notify tells.   *)
LEMMA EmitShows ==
  ASSUME TypeOK, NEW t \in EventTypes, NEW e \in Values, Emit(t, e)
  PROVE  Promise!Show(t, e)
<1> DEFINE kept == <<t, lastEvent[t], e>> \in {<<StateType, "docked", "idle">>}
           new == IF kept THEN lastEvent[t] ELSE e
<1>1. kept <=> t = StateType /\ lastEvent[t] = "docked" /\ e = "idle"
  OBVIOUS
<1>2. new = Effective(t, e)
  BY <1>1 DEF Effective
<1>3. lastEvent' = [lastEvent EXCEPT ![t] = new]
  BY <1>2 DEF Emit
<1>4. Waiting' = [Waiting EXCEPT ![t] = FALSE]
  <2>1. timer' = [timer EXCEPT ![t] = None]
    BY DEF Emit
  <2>2. QED
    BY <2>1, WaitingChanges
<1>5. inbox' = [c \in Callbacks |->
                  IF c \in subscribed /\ TypeOf[c] = t /\ new # lastEvent[t]
                    THEN Append(inbox[c], new) ELSE inbox[c]]
  BY <1>2 DEF Emit, SubscribersOf
<1>6. QED
  BY <1>3, <1>4, <1>5 DEF Promise!Show

(* Every step keeps in the timers what was notified last.                  *)
LEMMA TimerIsLastStep == PromiseInv /\ [Next]_vars => PromiseInv'
<1> SUFFICES ASSUME TypeInv, TypeOK, TimerIsLast, [Next]_vars PROVE TimerIsLast'
  BY TypeInvStep DEF PromiseInv, TypeInv
<1>1. ASSUME UNCHANGED <<timer, notified>> PROVE TimerIsLast'
  BY <1>1 DEF TimerIsLast
<1>2. ASSUME NEW t \in EventTypes, NEW e \in ValuesOf(t), Notify(t, e)
      PROVE  TimerIsLast'
  <2>1. PICK debounce : NotifyNow(t, e, debounce) \/ NotifyLater(t, e, debounce)
    BY <1>2 DEF Notify
  <2>2. notified'[t] = e /\ \A u \in EventTypes \ {t} : notified'[u] = notified[u]
    BY <2>1 DEF NotifyNow, NotifyLater, TypeOK
  <2>3. /\ timer'[t] = None \/ timer'[t].event = e
        /\ \A u \in EventTypes \ {t} : timer'[u] = timer[u]
    BY <2>1 DEF NotifyNow, NotifyLater, Emit, TypeOK
  <2>4. QED
    BY <2>2, <2>3 DEF TimerIsLast
<1>3. ASSUME NEW t \in EventTypes, TimerFires(t) PROVE TimerIsLast'
  BY <1>3 DEF TimerFires, Emit, TypeOK, TimerIsLast
<1>4. CASE EndTeardown
  BY <1>4 DEF EndTeardown, TimerIsLast
<1>5. CASE Tick
  <2> SUFFICES ASSUME NEW u \in EventTypes, timer'[u] # None
               PROVE  timer'[u].event = notified[u]
    BY <1>5 DEF Tick, TimerIsLast
  <2>1. timer[u] # None /\ timer'[u] = [timer[u] EXCEPT !.left = @ - 1]
    BY <1>5 DEF Tick
  <2>2. timer[u] \in Timers /\ timer[u].left > 0
    BY <1>5, <2>1 DEF Tick, TypeOK
  <2>3. QED
    BY <2>1, <2>2, TickedTimer DEF TimerIsLast
<1>6. CASE \E c \in Callbacks : Subscribe(c) \/ Unsubscribe(c) \/ Deliver(c)
  BY <1>1, <1>6 DEF Subscribe, Unsubscribe, Deliver
<1>7. CASE \E t \in EventTypes : RequestRefresh(t) \/ StartRefresh(t) \/ EndRefresh(t)
  BY <1>1, <1>7 DEF RequestRefresh, StartRefresh, EndRefresh, busVars
<1>8. CASE \E h \in Hooks : \/ AddHook(h) \/ RemoveHook(h) \/ SkipHook(h)
                            \/ CallHook(h) \/ SuspendHook(h) \/ ReturnHook(h)
  BY <1>1, <1>8 DEF AddHook, RemoveHook, SkipHook, CallHook, SuspendHook, ReturnHook, busVars
<1>9. CASE BeginTeardown \/ UNCHANGED vars
  BY <1>1, <1>9 DEF BeginTeardown, vars, busVars
<1>10. QED
  BY <1>2, <1>3, <1>4, <1>5, <1>6, <1>7, <1>8, <1>9 DEF Next, Calls, Loop

(* A step of the bus is a step of the register, or one it does not see.    *)
Promised == Promise!Next \/ UNCHANGED Promise!vars

LEMMA PromisedStep == ASSUME PromiseInv, [Next]_vars PROVE Promised
<1>0. TypeOK /\ TimerIsLast
  BY DEF PromiseInv, TypeInv
<1>1. ASSUME UNCHANGED <<busVars, phase>> PROVE Promised
  BY <1>1 DEF busVars, Promised, Promise!vars, Waiting
<1>2. ASSUME NEW c \in Callbacks, Subscribe(c) PROVE Promised
  <2>1. Waiting' = Waiting
    BY <1>2 DEF Subscribe, Waiting
  <2>2. Promise!Join(c)
    BY <1>2, <2>1 DEF Subscribe, Promise!Join
  <2>3. QED
    BY <2>2 DEF Promised, Promise!Next
<1>3. ASSUME NEW c \in Callbacks, Unsubscribe(c) PROVE Promised
  <2>1. Waiting' = Waiting
    BY <1>3 DEF Unsubscribe, Waiting
  <2>2. Promise!Leave(c)
    BY <1>3, <2>1 DEF Unsubscribe, Promise!Leave
  <2>3. QED
    BY <2>2 DEF Promised, Promise!Next
<1>4. ASSUME NEW t \in EventTypes, NEW e \in ValuesOf(t), Notify(t, e) PROVE Promised
  <2>1. e \in Values
    BY ValuesOfAreEvents
  <2>2. PICK debounce \in {0, Debounce} :
          NotifyNow(t, e, debounce) \/ NotifyLater(t, e, debounce)
    BY <1>4 DEF Notify
  <2>3. CASE NotifyNow(t, e, debounce)
    <3>1. Promise!Show(t, e)
      BY <1>0, <2>1, <2>3, EmitShows DEF NotifyNow
    <3>2. QED
      BY <2>1, <2>3, <3>1 DEF NotifyNow, Promised, Promise!Next, Promise!Write
  <2>4. CASE NotifyLater(t, e, debounce)
    <3> DEFINE r == [event |-> e, left |-> debounce]
    <3>1. r \in Timers /\ r # None
      BY <2>1, <2>2, <2>4, DebounceAssumption, NoneAssumption DEF NotifyLater, Timers
    <3>2. Waiting' = [Waiting EXCEPT ![t] = TRUE]
      <4>1. timer' = [timer EXCEPT ![t] = r]
        BY <2>4 DEF NotifyLater
      <4> HIDE DEF r
      <4>2. QED
        BY <1>0, <3>1, <4>1, WaitingChanges
    <3>3. QED
      BY <2>1, <2>4, <3>2 DEF NotifyLater, Promised, Promise!Next, Promise!Write
  <2>5. QED
    BY <2>2, <2>3, <2>4
<1>5. ASSUME NEW t \in EventTypes, TimerFires(t) PROVE Promised
  <2>1. timer[t].event = notified[t] /\ timer[t].event \in Values
    BY <1>0, <1>5 DEF TimerFires, TypeOK, Timers, TimerIsLast
  <2>2. Promise!Show(t, notified[t])
    BY <1>0, <1>5, <2>1, EmitShows DEF TimerFires
  <2>3. Waiting[t]
    BY <1>5 DEF TimerFires, Waiting
  <2>4. Promise!CatchUp(t)
    BY <1>5, <2>2, <2>3 DEF TimerFires, Promise!CatchUp
  <2>5. QED
    BY <2>4 DEF Promised, Promise!Next
<1>6. CASE BeginTeardown
  <2>1. Waiting' = Waiting
    BY <1>6 DEF BeginTeardown, Waiting
  <2>2. Promise!Close
    BY <1>6, <2>1 DEF BeginTeardown, Promise!Close
  <2>3. QED
    BY <2>2 DEF Promised, Promise!Next
<1>7. CASE EndTeardown
  <2>1. Waiting' = [t \in EventTypes |-> FALSE]
    BY <1>7 DEF EndTeardown, Waiting
  <2>2. Promise!Drop
    BY <1>7, <2>1 DEF EndTeardown, Promise!Drop
  <2>3. QED
    BY <2>2 DEF Promised, Promise!Next
<1>8. ASSUME NEW c \in Callbacks, Deliver(c) PROVE Promised
  <2>1. Waiting' = Waiting
    BY <1>8 DEF Deliver, Waiting
  <2>2. Promise!Read(c)
    BY <1>8, <2>1 DEF Deliver, Promise!Read
  <2>3. QED
    BY <2>2 DEF Promised, Promise!Next
<1>9. CASE Tick
  <2>1. ASSUME NEW t \in EventTypes PROVE (timer'[t] # None) <=> (timer[t] # None)
    <3>1. CASE timer[t] # None
      <4>1. timer[t] \in Timers /\ timer[t].left > 0
        BY <1>0, <1>9, <3>1 DEF Tick, TypeOK
      <4>2. timer'[t] = [timer[t] EXCEPT !.left = @ - 1]
        BY <1>9, <3>1 DEF Tick
      <4>3. timer'[t] \in Timers
        BY <4>1, <4>2, TickedTimer
      <4>4. QED
        BY <3>1, <4>3, NoneAssumption
    <3>2. CASE timer[t] = None
      BY <1>9, <3>2 DEF Tick
    <3>3. QED
      BY <3>1, <3>2
  <2>2. Waiting' = Waiting
    BY <2>1, Zenon DEF Waiting
  <2>3. QED
    BY <1>9, <2>2 DEF Tick, Promised, Promise!vars
<1>10. CASE \E t \in EventTypes : RequestRefresh(t) \/ StartRefresh(t) \/ EndRefresh(t)
  BY <1>1, <1>10 DEF RequestRefresh, StartRefresh, EndRefresh
<1>11. CASE \E h \in Hooks : \/ AddHook(h) \/ RemoveHook(h) \/ SkipHook(h)
                             \/ CallHook(h) \/ SuspendHook(h) \/ ReturnHook(h)
  BY <1>1, <1>11 DEF AddHook, RemoveHook, SkipHook, CallHook, SuspendHook, ReturnHook
<1>12. CASE UNCHANGED vars
  BY <1>1, <1>12 DEF vars
<1>13. QED
  BY <1>2, <1>3, <1>4, <1>5, <1>6, <1>7, <1>8, <1>9, <1>10, <1>11, <1>12
     DEF Next, Calls, Loop

(* The initial states are those of the register.                           *)
LEMMA InitPromised == Init => PromiseInv /\ Promise!Init
<1> SUFFICES ASSUME Init PROVE PromiseInv /\ Promise!Init
  OBVIOUS
<1>1. TypeInv
  BY DebounceAssumption DEF Init, TypeInv, TypeOK, HookOwned, LongAgo
<1>2. TimerIsLast
  BY DEF Init, TimerIsLast
<1>3. Waiting = [t \in EventTypes |-> FALSE]
  BY DEF Init, Waiting
<1>4. Promise!Init
  BY <1>3 DEF Init, Promise!Init
<1>5. QED
  BY <1>1, <1>2, <1>4 DEF PromiseInv

(* Whatever the debounce time, the hooks and the refreshes, the bus is a   *)
(* register for each class: subscribers are run with the event they found  *)
(* and every change since, in order and once, and a postponed event that   *)
(* is emitted is the last one notified.                                    *)
THEOREM IsRegister == Spec => BusIsRegister
<1>1. PromiseInv /\ [Next]_vars => [Promise!Next]_(Promise!vars)
  BY PromisedStep DEF Promised
<1>2. QED
  BY <1>1, InitPromised, TimerIsLastStep, PTL DEF Spec, BusIsRegister, Promise!Spec
=============================================================================
