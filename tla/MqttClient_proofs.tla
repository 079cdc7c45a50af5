-------------------------- MODULE MqttClient_proofs --------------------------
(***************************************************************************)
(* Theorems about MqttClient, for all devices, task identities and bounds. *)
(* They hold whatever calls overlap: types are kept, no call waits in      *)
(* vain, and a task that is left to nobody or that outlives disconnect is  *)
(* the work of a call that another one has overtaken.  The subscriptions   *)
(* of a connection are shown for behaviours in which no call is overtaken. *)
(***************************************************************************)
EXTENDS MqttClient, FiniteSetTheorems, TLAPS

USE QueueAssumption, NoneAssumption DEF connVars

-----------------------------------------------------------------------------
(* Types.  The replay compares the sizes of _subscriptions: they are       *)
(* numbers because it gains one device at a time.  A subscribe queues its  *)
(* device when it is over, so it must have kept it.                        *)
SubscribesDevice ==
  \A c \in Callers : call[c].op = "subscribe" => call[c].dev \in Devices

Typed == TypeOK /\ IsFiniteSet(subscriptions) /\ SubscribesDevice

LEMMA InitTyped == Init => Typed
<1> SUFFICES ASSUME Init PROVE Typed
  OBVIOUS
<1>1. IsFiniteSet(subscriptions)
  BY FS_EmptySet DEF Init
<1>2. call \in [Callers -> Calls]
  BY DEF Init, Idle, Calls
<1>3. queue \in Seq(Changes)
  BY DEF Init
<1>4. task \in [TaskIds -> TaskStates]
  BY DEF Init, TaskStates
<1>5. SubscribesDevice
  BY DEF Init, Idle, SubscribesDevice
<1> QED
  BY <1>1, <1>2, <1>3, <1>4, <1>5 DEF Init, TypeOK, Typed

(* A change that is queued is a change.                                    *)
LEMMA PutTyped ==
  ASSUME TypeOK, NEW d \in Devices, NEW add \in BOOLEAN, Put(d, add)
  PROVE  queue' \in Seq(Changes) /\ wanted' \subseteq Devices
<1>1. [dev |-> d, add |-> add] \in Changes
  BY DEF Changes
<1> QED
  BY <1>1 DEF TypeOK, Put

LEMMA CallTypes ==
  /\ Idle \in Calls /\ Idle.op = "none"
  /\ \A op \in {"disconnect", "changed"} :
       [Idle EXCEPT !.op = op] \in Calls /\ [Idle EXCEPT !.op = op].op = op
  /\ \A d \in Devices :
       LET asked == [Idle EXCEPT !.op = "subscribe", !.dev = d, !.pc = "authenticating"]
       IN  asked \in Calls /\ asked.dev = d
  BY DEF Idle, Calls

LEMMA AwaitTyped ==
  ASSUME Typed, NEW c \in Callers, NEW callOf \in Calls, AwaitCancellation(c, callOf),
         callOf.op = "subscribe" => callOf.dev \in Devices,
         stopped' \in BOOLEAN
  PROVE  Typed'
<1> USE DEF Typed, TypeOK, AwaitCancellation, SubscribesDevice
<1> DEFINE waiting == [callOf EXCEPT !.pc = "cancelling", !.waits = mqttTask]
<1>1. mqttTask \in TaskIds
  BY DEF IsLive
<1>2. waiting \in Calls /\ waiting.op = callOf.op /\ waiting.dev = callOf.dev
  BY <1>1 DEF Calls
<1>3. call' = [call EXCEPT ![c] = waiting]
  OBVIOUS
<1> HIDE DEF waiting
<1>4. call' \in [Callers -> Calls] /\ SubscribesDevice'
  BY <1>2, <1>3
<1> QED
  BY <1>1, <1>4

LEMMA FinishTyped ==
  ASSUME Typed, NEW c \in Callers, Finish(c)
  PROVE  Typed'
<1> USE DEF Typed, TypeOK, Finish, SubscribesDevice
<1>1. call' \in [Callers -> Calls] /\ SubscribesDevice'
  BY CallTypes
<1>2. CASE call[c].op = "disconnect"
  BY <1>1, <1>2
<1>3. CASE call[c].op # "disconnect"
  <2>1. mqttTask' \in TaskIds /\ task' \in [TaskIds -> TaskStates]
    BY <1>3 DEF TaskStates
  <2>2. queue' \in Seq(Changes) /\ wanted' \subseteq Devices
    BY <1>3, PutTyped
  <2> QED
    BY <1>1, <1>3, <2>1, <2>2
<1> QED
  BY <1>2, <1>3

LEMMA LeaveTyped ==
  ASSUME Typed, NEW t \in TaskIds, NEW next \in TaskStates, LeaveClient(t, next),
         cancelled' \subseteq TaskIds
  PROVE  Typed'
  BY DEF Typed, TypeOK, LeaveClient, SubscribesDevice

LEMMA ChangeDoneTyped ==
  ASSUME Typed, NEW t \in TaskIds, ChangeDone(t)
  PROVE  Typed'
<1> USE DEF Typed, TypeOK, ChangeDone, SubscribesDevice
<1>1. worker[t] \in Changes
  OBVIOUS
<1>2. /\ worker[t].dev \in Devices
      /\ subscriptions' \in {subscriptions \cup {worker[t].dev}, subscriptions \ {worker[t].dev}}
  BY <1>1 DEF Changes
<1>3. IsFiniteSet(subscriptions')
  BY <1>2, FS_AddElement, FS_RemoveElement
<1>4. topics' \in [TaskIds -> SUBSET Devices]
  BY <1>2
<1> QED
  BY <1>2, <1>3, <1>4

LEMMA NextTyped == Typed /\ [Next]_vars => Typed'
<1> SUFFICES ASSUME Typed, [Next]_vars PROVE Typed'
  OBVIOUS
<1> USE DEF Typed, TypeOK, SubscribesDevice
<1>1. ASSUME NEW d \in Devices, SubscribeConnected(d) \/ Unsubscribe(d) PROVE Typed'
  BY <1>1, PutTyped DEF SubscribeConnected, Unsubscribe
<1>2. ASSUME NEW d \in Devices, NEW c \in Callers, SubscribeConnecting(c, d) PROVE Typed'
  BY <1>2, CallTypes DEF SubscribeConnecting
<1>3. ASSUME NEW d \in Devices, NEW t \in TaskIds, Replay(t, d) PROVE Typed'
  BY <1>3 DEF Replay
<1>4. ASSUME NEW c \in Callers, Authenticated(c) PROVE Typed'
  <2>1. CASE AwaitCancellation(c, call[c]) /\ UNCHANGED stopped
    BY <2>1, AwaitTyped
  <2>2. CASE Finish(c)
    BY <2>2, FinishTyped
  <2> QED
    BY <1>4, <2>1, <2>2 DEF Authenticated
<1>5. ASSUME NEW c \in Callers, NotAuthenticated(c) PROVE Typed'
  BY <1>5, CallTypes DEF NotAuthenticated
<1>6. ASSUME NEW c \in Callers, Disconnect(c) PROVE Typed'
  BY <1>6, AwaitTyped, CallTypes DEF Disconnect
<1>7. ASSUME NEW c \in Callers, CredentialsChanged(c) PROVE Typed'
  <2>1. CASE AwaitCancellation(c, [Idle EXCEPT !.op = "changed"]) /\ stopped' = FALSE
    BY <2>1, AwaitTyped, CallTypes
  <2>2. CASE ~AwaitCancellation(c, [Idle EXCEPT !.op = "changed"])
    BY <1>7, <2>2 DEF CredentialsChanged, TaskStates
  <2> QED
    BY <1>7, <2>1, <2>2 DEF CredentialsChanged
<1>8. ASSUME NEW c \in Callers, Resume(c) PROVE Typed'
  BY <1>8, FinishTyped DEF Resume
<1>9. CASE DisconnectIdle
  BY <1>9 DEF DisconnectIdle
<1>10. ASSUME NEW t \in TaskIds, Connected(t) PROVE Typed'
  BY <1>10, FS_CardinalityType DEF Connected, TaskStates
<1>11. ASSUME NEW t \in TaskIds, ReplayDone(t) \/ Retry(t) PROVE Typed'
  BY <1>11 DEF ReplayDone, Retry, TaskStates
<1>12. ASSUME NEW t \in TaskIds,
              \/ ReplayBreaks(t) \/ ConnectionLost(t) \/ ConnectionAbandoned(t)
              \/ CancellationDelivered(t)
       PROVE  Typed'
  <2>1. PICK next \in TaskStates : LeaveClient(t, next)
    BY <1>12 DEF ReplayBreaks, ConnectionLost, ConnectionAbandoned,
                 CancellationDelivered, TaskStates
  <2>2. cancelled' \subseteq TaskIds
    BY <1>12 DEF ReplayBreaks, ConnectionLost, ConnectionAbandoned, CancellationDelivered
  <2> QED
    BY <2>1, <2>2, LeaveTyped
<1>13. ASSUME NEW t \in TaskIds, TakeChange(t) PROVE Typed'
  BY <1>13 DEF TakeChange
<1>14. ASSUME NEW t \in TaskIds, ChangeDone(t) PROVE Typed'
  BY <1>14, ChangeDoneTyped
<1>15. CASE UNCHANGED vars
  BY <1>15 DEF vars
<1> QED
  BY <1>1, <1>2, <1>3, <1>4, <1>5, <1>6, <1>7, <1>8, <1>9, <1>10, <1>11, <1>12,
     <1>13, <1>14, <1>15 DEF Next

(* Every variable of the client keeps its type, however calls overlap; in  *)
(* particular a subscribe has its device until it has queued it, and what  *)
(* the worker holds is a change.                                           *)
THEOREM TypeCorrect == Spec => []TypeOK
<1>1. Typed => TypeOK
  BY DEF Typed
<1> QED
  BY <1>1, InitTyped, NextTyped, PTL DEF Spec

-----------------------------------------------------------------------------
(* With any number of callers.  What a call waits for has ended or is      *)
(* being cancelled, and its identity is not given to another task before   *)
(* the call has seen it: nothing that the task does by itself can make it  *)
(* live on, or start again, under a call that waits for its end.           *)
EndIsComing(c) == call[c].waits \in cancelled \/ task[call[c].waits] = "done"
WaitsForEnd ==
  \A c \in Callers :
    call[c].pc = "cancelling" => call[c].waits \in TaskIds /\ EndIsComing(c)

LEMMA InitWaits == Init => WaitsForEnd
BY DEF Init, Idle, WaitsForEnd

(* A new task has an identity that no call waits for.                      *)
LEMMA CreationWaits ==
  ASSUME Typed, WaitsForEnd, NEW t \in TaskIds, Unused(t),
         task' = [task EXCEPT ![t] = "connecting"], UNCHANGED cancelled,
         \A c \in Callers : call'[c] = call[c] \/ call'[c].pc # "cancelling"
  PROVE  WaitsForEnd'
BY DEF Typed, TypeOK, WaitsForEnd, EndIsComing, Unused

LEMMA FinishWaits ==
  ASSUME Typed, WaitsForEnd, NEW c \in Callers, Finish(c)
  PROVE  WaitsForEnd'
<1>1. \A b \in Callers : call'[b] = call[b] \/ call'[b].pc # "cancelling"
  BY DEF Finish, Idle, Typed, TypeOK
<1>2. CASE call[c].op = "disconnect"
  BY <1>1, <1>2 DEF Finish, WaitsForEnd, EndIsComing
<1>3. CASE call[c].op # "disconnect"
  BY <1>1, <1>3, CreationWaits DEF Finish
<1> QED
  BY <1>2, <1>3

(* Several calls may cancel the same task, and it is cancelled once.       *)
LEMMA AwaitWaits ==
  ASSUME Typed, WaitsForEnd, NEW c \in Callers, NEW callOf \in Calls,
         AwaitCancellation(c, callOf)
  PROVE  WaitsForEnd'
<1> DEFINE waiting == [callOf EXCEPT !.pc = "cancelling", !.waits = mqttTask]
<1>1. waiting.waits = mqttTask
  BY DEF Calls
<1>2. call' = [call EXCEPT ![c] = waiting] /\ mqttTask \in TaskIds
  BY DEF AwaitCancellation, IsLive
<1> HIDE DEF waiting
<1> QED
  BY <1>1, <1>2 DEF AwaitCancellation, Typed, TypeOK, WaitsForEnd, EndIsComing

(* A task that is neither cancelled nor ended is not waited for: it may do *)
(* what it likes.                                                          *)
LEMMA TaskWaits ==
  ASSUME Typed, WaitsForEnd, NEW t \in TaskIds, UNCHANGED call,
         cancelled \ {t} \subseteq cancelled',
         \A u \in TaskIds \ {t} : task'[u] = task[u],
         \/ t \notin cancelled /\ task[t] # "done"
         \/ task'[t] = "done"
  PROVE  WaitsForEnd'
BY DEF WaitsForEnd, EndIsComing

LEMMA NextWaits == ASSUME Typed, WaitsForEnd, [Next]_vars PROVE WaitsForEnd'
<1> USE DEF Typed, TypeOK
<1>1. ASSUME NEW d \in Devices, SubscribeConnected(d) \/ Unsubscribe(d) PROVE WaitsForEnd'
  BY <1>1 DEF SubscribeConnected, Unsubscribe, WaitsForEnd, EndIsComing
<1>2. ASSUME NEW c \in Callers, NEW d \in Devices, SubscribeConnecting(c, d)
      PROVE  WaitsForEnd'
  BY <1>2 DEF SubscribeConnecting, Idle, WaitsForEnd, EndIsComing
<1>3. ASSUME NEW t \in TaskIds, NEW d \in Devices, Replay(t, d) PROVE WaitsForEnd'
  BY <1>3 DEF Replay, WaitsForEnd, EndIsComing
<1>4. ASSUME NEW c \in Callers, Authenticated(c) PROVE WaitsForEnd'
  BY <1>4, AwaitWaits, FinishWaits DEF Authenticated
<1>5. ASSUME NEW c \in Callers, NotAuthenticated(c) PROVE WaitsForEnd'
  BY <1>5 DEF NotAuthenticated, Idle, WaitsForEnd, EndIsComing
<1>6. ASSUME NEW c \in Callers, Disconnect(c) PROVE WaitsForEnd'
  BY <1>6, AwaitWaits, CallTypes DEF Disconnect
<1>7. ASSUME NEW c \in Callers, CredentialsChanged(c) PROVE WaitsForEnd'
  BY <1>7, AwaitWaits, CreationWaits, CallTypes DEF CredentialsChanged
<1>8. ASSUME NEW c \in Callers, Resume(c) PROVE WaitsForEnd'
  BY <1>8, FinishWaits DEF Resume
<1>9. CASE DisconnectIdle
  BY <1>9 DEF DisconnectIdle, WaitsForEnd, EndIsComing
<1>10. ASSUME NEW t \in TaskIds, Connected(t) \/ ReplayDone(t) \/ Retry(t)
       PROVE  WaitsForEnd'
  BY <1>10, TaskWaits DEF Connected, ReplayDone, Retry
<1>11. ASSUME NEW t \in TaskIds,
              ReplayBreaks(t) \/ ConnectionLost(t) \/ ConnectionAbandoned(t)
       PROVE  WaitsForEnd'
  <2>1. PICK next : LeaveClient(t, next)
    BY <1>11 DEF ReplayBreaks, ConnectionLost, ConnectionAbandoned
  <2>2. t \notin cancelled /\ task[t] # "done" /\ UNCHANGED cancelled
    BY <1>11 DEF ReplayBreaks, ConnectionLost, ConnectionAbandoned
  <2>3. UNCHANGED call /\ \A u \in TaskIds \ {t} : task'[u] = task[u]
    BY <2>1 DEF LeaveClient
  <2> QED
    BY <2>2, <2>3, TaskWaits
<1>12. ASSUME NEW t \in TaskIds, CancellationDelivered(t) PROVE WaitsForEnd'
  BY <1>12, TaskWaits DEF CancellationDelivered, LeaveClient
<1>13. ASSUME NEW t \in TaskIds, TakeChange(t) \/ ChangeDone(t) PROVE WaitsForEnd'
  BY <1>13 DEF TakeChange, ChangeDone, WaitsForEnd, EndIsComing
<1>14. CASE UNCHANGED vars
  BY <1>14 DEF vars, WaitsForEnd, EndIsComing
<1> QED
  BY <1>1, <1>2, <1>3, <1>4, <1>5, <1>6, <1>7, <1>8, <1>9, <1>10, <1>11, <1>12,
     <1>13, <1>14 DEF Next

(* However many calls overlap, and even when several of them have          *)
(* cancelled the same task: what a call waits for has ended, or its        *)
(* cancellation is on the way and nothing can take it back.  No call waits *)
(* for a task that lives on, which is what CallsReturn needs beside the    *)
(* fairness of the event loop.                                             *)
THEOREM NoCallWaitsInVain == Spec => []WaitsForEnd
<1>1. Typed /\ WaitsForEnd /\ [Next]_vars => Typed' /\ WaitsForEnd'
  BY NextTyped, NextWaits
<1> QED
  BY <1>1, InitTyped, InitWaits, PTL DEF Spec

-----------------------------------------------------------------------------
(* With any number of callers.  What a call is between two of its steps:   *)
(* only a subscribe authenticates; every cancelled task lives and is       *)
(* awaited; and while a disconnect is the last call there is no other.     *)
CallInv ==
  /\ \A c \in Callers : call[c].pc = "authenticating" => call[c].op = "subscribe"
  /\ \A t \in cancelled :
       /\ task[t] \in Live
       /\ \E c \in Callers : call[c].pc = "cancelling" /\ call[c].waits = t
  /\ stopped => \A c \in Callers : call[c].pc = "idle"

(* The states of a task in which it has not ended.                         *)
LEMMA LiveStates ==
  /\ Live = {"connecting", "replaying", "running", "waiting"}
  /\ \A t \in TaskIds : IsLive(t) <=> task[t] \in Live
BY DEF Live, IsLive

LEMMA InitCall == Init => CallInv
BY DEF Init, Idle, CallInv

(* A new task was not cancelled: the one that had its identity had ended.  *)
LEMMA CreationCall ==
  ASSUME Typed, CallInv, NEW t \in TaskIds, Unused(t),
         task' = [task EXCEPT ![t] = "connecting"], UNCHANGED <<call, cancelled>>,
         ~stopped'
  PROVE  CallInv'
BY DEF Typed, TypeOK, CallInv, Unused, Live

(* One call returns, and each cancelled task is awaited by another one.    *)
LEMMA ReturnCall ==
  ASSUME Typed, CallInv, NEW c \in Callers, call'[c].pc = "idle",
         \A b \in Callers \ {c} : call'[b] = call[b],
         UNCHANGED cancelled, \A t \in cancelled : task'[t] = task[t],
         \A t \in cancelled : \E b \in Callers \ {c} :
           call[b].pc = "cancelling" /\ call[b].waits = t,
         stopped' => \A b \in Callers : call'[b].pc = "idle"
  PROVE  CallInv'
<1>1. ASSUME NEW b \in Callers, call'[b].pc = "authenticating"
      PROVE  call'[b].op = "subscribe"
  <2>1. b # c
    BY <1>1
  <2>2. call'[b] = call[b]
    BY <2>1
  <2> QED
    BY <1>1, <2>2 DEF CallInv
<1>2. ASSUME NEW t \in cancelled'
      PROVE  /\ task'[t] \in Live
             /\ \E b \in Callers : call'[b].pc = "cancelling" /\ call'[b].waits = t
  <2>1. PICK b \in Callers \ {c} : call[b].pc = "cancelling" /\ call[b].waits = t
    OBVIOUS
  <2>2. call'[b] = call[b]
    OBVIOUS
  <2> QED
    BY <2>1, <2>2 DEF CallInv
<1> QED
  BY <1>1, <1>2 DEF CallInv

(* A call that returns has seen its task end: no cancelled task is         *)
(* awaited by it alone.                                                    *)
LEMMA FinishCall ==
  ASSUME Typed, CallInv, NEW c \in Callers, Finish(c), ~stopped,
         call[c].pc = "cancelling" => task[call[c].waits] = "done"
  PROVE  CallInv'
<1> USE DEF Typed, TypeOK
<1>1. /\ call'[c].pc = "idle"
      /\ \A b \in Callers \ {c} : call'[b] = call[b]
      /\ UNCHANGED cancelled
  BY DEF Finish, Idle
<1>2. \A t \in cancelled : task'[t] = task[t]
  <2>1. \A t \in cancelled : t \in TaskIds /\ ~Unused(t)
    BY DEF CallInv, Unused, Live
  <2>2. \/ task' = task
        \/ \E u \in TaskIds : Unused(u) /\ task' = [task EXCEPT ![u] = "connecting"]
    BY DEF Finish
  <2> QED
    BY <2>1, <2>2
<1>3. \A t \in cancelled : \E b \in Callers \ {c} :
        call[b].pc = "cancelling" /\ call[b].waits = t
  BY DEF CallInv, Live
<1>4. stopped' => \A b \in Callers : call'[b].pc = "idle"
  BY <1>1 DEF Finish, IsIdle
<1> QED
  BY <1>1, <1>2, <1>3, <1>4, ReturnCall

LEMMA AwaitCall ==
  ASSUME Typed, CallInv, NEW c \in Callers, NEW callOf \in Calls,
         AwaitCancellation(c, callOf), ~stopped',
         call[c].pc # "cancelling"
  PROVE  CallInv'
<1> USE DEF Typed, TypeOK
<1> DEFINE waiting == [callOf EXCEPT !.pc = "cancelling", !.waits = mqttTask]
<1>1. waiting.pc = "cancelling" /\ waiting.waits = mqttTask
  BY DEF Calls
<1>2. /\ call' = [call EXCEPT ![c] = waiting]
      /\ cancelled' = cancelled \cup {mqttTask}
      /\ task' = task
      /\ mqttTask \in TaskIds /\ task[mqttTask] \in Live
  BY DEF AwaitCancellation, IsLive
<1> HIDE DEF waiting
<1>3. call'[c] = waiting /\ \A b \in Callers \ {c} : call'[b] = call[b]
  BY <1>2
<1>4. \A b \in Callers : call'[b].pc = "authenticating" => call'[b].op = "subscribe"
  BY <1>1, <1>3 DEF CallInv
<1>5. ASSUME NEW t \in cancelled'
      PROVE  /\ task'[t] \in Live
             /\ \E b \in Callers : call'[b].pc = "cancelling" /\ call'[b].waits = t
  <2>1. CASE t = mqttTask
    BY <1>1, <1>2, <1>3, <2>1
  <2>2. CASE t # mqttTask
    <3>1. PICK b \in Callers : call[b].pc = "cancelling" /\ call[b].waits = t
      BY <1>2, <2>2 DEF CallInv
    <3>2. call'[b] = call[b]
      BY <1>3, <3>1
    <3> QED
      BY <1>2, <2>2, <3>1, <3>2 DEF CallInv
  <2> QED
    BY <2>1, <2>2
<1> QED
  BY <1>4, <1>5 DEF CallInv

(* What a task that is not cancelled does by itself.                       *)
LEMMA TaskCall ==
  ASSUME Typed, CallInv, NEW t \in TaskIds, t \notin cancelled,
         UNCHANGED <<call, cancelled, stopped>>,
         \A u \in TaskIds \ {t} : task'[u] = task[u]
  PROVE  CallInv'
BY DEF Typed, TypeOK, CallInv

LEMMA NextCall == ASSUME Typed, CallInv, [Next]_vars PROVE CallInv'
<1> USE DEF Typed, TypeOK
<1>1. ASSUME UNCHANGED <<call, task, cancelled, stopped>> PROVE CallInv'
  BY <1>1 DEF CallInv
<1>2. ASSUME NEW c \in Callers, NEW d \in Devices, SubscribeConnecting(c, d)
      PROVE  CallInv'
  <2> DEFINE asked == [Idle EXCEPT !.op = "subscribe", !.dev = d, !.pc = "authenticating"]
  <2>1. asked.op = "subscribe" /\ asked.pc = "authenticating"
    BY DEF Idle
  <2>2. call' = [call EXCEPT ![c] = asked] /\ call[c].pc = "idle"
    BY <1>2 DEF SubscribeConnecting, IsIdle
  <2>3. task' = task /\ cancelled' = cancelled /\ ~stopped'
    BY <1>2 DEF SubscribeConnecting
  <2> HIDE DEF asked
  <2> QED
    BY <2>1, <2>2, <2>3 DEF CallInv
<1>3. ASSUME NEW c \in Callers, Authenticated(c) PROVE CallInv'
  <2>1. ~stopped /\ call[c].pc = "authenticating"
    BY <1>3 DEF Authenticated, CallInv
  <2>2. CASE AwaitCancellation(c, call[c]) /\ UNCHANGED stopped
    BY <2>1, <2>2, AwaitCall
  <2>3. CASE Finish(c)
    BY <2>1, <2>3, FinishCall
  <2> QED
    BY <1>3, <2>2, <2>3 DEF Authenticated
<1>4. ASSUME NEW c \in Callers, NotAuthenticated(c) PROVE CallInv'
  <2>1. /\ call[c].pc = "authenticating" /\ call'[c].pc = "idle"
        /\ \A b \in Callers \ {c} : call'[b] = call[b]
        /\ UNCHANGED <<task, cancelled>> /\ ~stopped'
    BY <1>4 DEF NotAuthenticated, Idle, CallInv
  <2>2. \A t \in cancelled : \E b \in Callers \ {c} :
          call[b].pc = "cancelling" /\ call[b].waits = t
    BY <2>1 DEF CallInv
  <2> QED
    BY <2>1, <2>2, ReturnCall
<1>5. ASSUME NEW c \in Callers, Disconnect(c) PROVE CallInv'
  BY <1>5, AwaitCall, CallTypes DEF Disconnect, IsIdle
<1>6. ASSUME NEW c \in Callers, CredentialsChanged(c) PROVE CallInv'
  <2>1. CASE AwaitCancellation(c, [Idle EXCEPT !.op = "changed"])
    BY <1>6, <2>1, AwaitCall, CallTypes DEF CredentialsChanged, IsIdle
  <2>2. CASE ~AwaitCancellation(c, [Idle EXCEPT !.op = "changed"])
    BY <1>6, <2>2, CreationCall DEF CredentialsChanged
  <2> QED
    BY <2>1, <2>2
<1>7. ASSUME NEW c \in Callers, Resume(c) PROVE CallInv'
  <2>1. ~stopped
    BY <1>7 DEF Resume, CallInv
  <2> QED
    BY <1>7, <2>1, FinishCall DEF Resume
<1>8. CASE DisconnectIdle
  BY <1>8 DEF DisconnectIdle, CallInv, IsIdle
<1>9. ASSUME NEW t \in TaskIds, Connected(t) \/ ReplayDone(t) \/ Retry(t) PROVE CallInv'
  BY <1>9, TaskCall DEF Connected, ReplayDone, Retry
<1>10. ASSUME NEW t \in TaskIds,
              ReplayBreaks(t) \/ ConnectionLost(t) \/ ConnectionAbandoned(t)
       PROVE  CallInv'
  BY <1>10, TaskCall DEF ReplayBreaks, ConnectionLost, ConnectionAbandoned, LeaveClient
<1>11. ASSUME NEW t \in TaskIds, CancellationDelivered(t) PROVE CallInv'
  <2>1. /\ cancelled' = cancelled \ {t}
        /\ \A u \in TaskIds \ {t} : task'[u] = task[u]
        /\ UNCHANGED <<call, stopped>>
    BY <1>11 DEF CancellationDelivered, LeaveClient
  <2> QED
    BY <2>1 DEF CallInv
<1>12. CASE UNCHANGED vars
  BY <1>1, <1>12 DEF vars
<1>13. ASSUME NEW d \in Devices, SubscribeConnected(d) \/ Unsubscribe(d) PROVE CallInv'
  BY <1>1, <1>13 DEF SubscribeConnected, Unsubscribe
<1>14. ASSUME NEW t \in TaskIds, NEW d \in Devices, Replay(t, d) PROVE CallInv'
  BY <1>1, <1>14 DEF Replay
<1>15. ASSUME NEW t \in TaskIds, TakeChange(t) \/ ChangeDone(t) PROVE CallInv'
  BY <1>1, <1>15 DEF TakeChange, ChangeDone
<1> QED
  BY <1>2, <1>3, <1>4, <1>5, <1>6, <1>7, <1>8, <1>9, <1>10, <1>11, <1>12, <1>13,
     <1>14, <1>15 DEF Next

LEMMA CallInvariant == Spec => [](Typed /\ CallInv)
<1>1. Typed /\ CallInv /\ [Next]_vars => Typed' /\ CallInv'
  BY NextTyped, NextCall
<1> QED
  BY <1>1, InitTyped, InitCall, PTL DEF Spec

(* However calls overlap, a step that leaves a task to nobody is one in    *)
(* which a call that was overtaken at its await assigns _mqtt_task: the    *)
(* assignment of mqtt_client.py:246 is the only one that can.              *)
THEOREM OrphansByOvertaking == Spec => OrphanByOvertaking
<1> DEFINE LeftByOvertaken ==
      \A t \in TaskIds :
        Orphan(t)' /\ ~Orphan(t) =>
          \E c \in Callers :
            Overtaken(c) /\ call[c].op # "disconnect" /\ call'[c] = Idle
<1>1. ASSUME Typed, CallInv, [Next]_vars PROVE LeftByOvertaken
  <2> USE <1>1 DEF Typed, TypeOK
  <2> SUFFICES ASSUME NEW t \in TaskIds, Orphan(t)', ~Orphan(t)
               PROVE  \E c \in Callers :
                        Overtaken(c) /\ call[c].op # "disconnect" /\ call'[c] = Idle
    OBVIOUS
  <2>1. task'[t] \in Live /\ t # mqttTask' /\ t \notin cancelled'
    BY DEF Orphan, IsLive
  <2>2. ASSUME UNCHANGED <<task, mqttTask>>, cancelled \subseteq cancelled' PROVE FALSE
    BY <2>1, <2>2 DEF Orphan, IsLive
  \* A new task is the one of _mqtt_task: only the old one can be left.
  <2>3. ASSUME NEW u \in TaskIds, mqttTask' = u, task' = [task EXCEPT ![u] = "connecting"],
               UNCHANGED cancelled
        PROVE  t = mqttTask /\ task[t] \in Live
    BY <2>1, <2>3 DEF Orphan, IsLive
  <2>4. ASSUME NEW c \in Callers, Finish(c)
        PROVE  /\ t = mqttTask /\ task[t] \in Live
               /\ call[c].op # "disconnect" /\ call'[c] = Idle
    <3>1. CASE call[c].op = "disconnect"
      BY <2>2, <2>4, <3>1 DEF Finish
    <3>2. CASE call[c].op # "disconnect"
      BY <2>3, <2>4, <3>2 DEF Finish
    <3> QED
      BY <3>1, <3>2
  <2>5. ASSUME NEW c \in Callers, Authenticated(c) PROVE FALSE
    <3>1. CASE AwaitCancellation(c, call[c])
      BY <2>2, <3>1 DEF AwaitCancellation
    <3>2. CASE ~IsLive(mqttTask) /\ Finish(c)
      BY <2>4, <3>2 DEF IsLive
    <3> QED
      BY <2>5, <3>1, <3>2 DEF Authenticated
  <2>6. ASSUME NEW c \in Callers, CredentialsChanged(c) PROVE FALSE
    <3>1. CASE AwaitCancellation(c, [Idle EXCEPT !.op = "changed"])
      BY <2>2, <3>1 DEF AwaitCancellation
    <3>2. CASE ~AwaitCancellation(c, [Idle EXCEPT !.op = "changed"])
      BY <2>3, <2>6, <3>2 DEF CredentialsChanged, IsLive
    <3> QED
      BY <3>1, <3>2
  <2>7. ASSUME NEW c \in Callers, Resume(c)
        PROVE  Overtaken(c) /\ call[c].op # "disconnect" /\ call'[c] = Idle
    BY <2>4, <2>7 DEF Resume, Overtaken, Live
  \* The task of a connection changes its own state only, and lives already.
  <2>8. ASSUME NEW u \in TaskIds, \A v \in TaskIds \ {u} : task'[v] = task[v],
               UNCHANGED <<mqttTask, cancelled>>, task[u] \in Live
        PROVE  FALSE
    BY <2>1, <2>8 DEF Orphan, IsLive
  <2>9. ASSUME NEW u \in TaskIds, CancellationDelivered(u) PROVE FALSE
    <3>1. task'[u] = "done" /\ \A v \in TaskIds \ {u} : task'[v] = task[v]
      BY <2>9 DEF CancellationDelivered, LeaveClient
    <3>2. cancelled' = cancelled \ {u} /\ UNCHANGED mqttTask
      BY <2>9 DEF CancellationDelivered, LeaveClient
    <3> QED
      BY <2>1, <3>1, <3>2 DEF Orphan, IsLive, Live
  <2>10. ASSUME NEW u \in TaskIds,
                Connected(u) \/ ReplayDone(u) \/ Retry(u)
         PROVE  FALSE
    BY <2>8, <2>10 DEF Connected, ReplayDone, Retry, Live
  <2>11. ASSUME NEW u \in TaskIds,
                ReplayBreaks(u) \/ ConnectionLost(u) \/ ConnectionAbandoned(u)
         PROVE  FALSE
    BY <2>8, <2>11 DEF ReplayBreaks, ConnectionLost, ConnectionAbandoned, LeaveClient, Live
  <2>12. ASSUME NEW d \in Devices, NEW c \in Callers, SubscribeConnecting(c, d) PROVE FALSE
    BY <2>2, <2>12 DEF SubscribeConnecting
  <2>13. ASSUME NEW d \in Devices, SubscribeConnected(d) \/ Unsubscribe(d) PROVE FALSE
    BY <2>2, <2>13 DEF SubscribeConnected, Unsubscribe
  <2>14. ASSUME NEW u \in TaskIds, NEW d \in Devices, Replay(u, d) PROVE FALSE
    BY <2>2, <2>14 DEF Replay
  <2>15. ASSUME NEW u \in TaskIds, TakeChange(u) \/ ChangeDone(u) PROVE FALSE
    BY <2>2, <2>15 DEF TakeChange, ChangeDone
  <2>16. ASSUME NEW c \in Callers, NotAuthenticated(c) \/ Disconnect(c) PROVE FALSE
    BY <2>2, <2>16 DEF NotAuthenticated, Disconnect, AwaitCancellation
  <2>17. CASE DisconnectIdle \/ UNCHANGED vars
    BY <2>2, <2>17 DEF DisconnectIdle, vars
  <2> QED
    BY <2>5, <2>6, <2>7, <2>9, <2>10, <2>11, <2>12, <2>13, <2>14, <2>15, <2>16, <2>17
       DEF Next
<1>2. [][LeftByOvertaken]_vars => OrphanByOvertaking
  BY PTL DEF OrphanByOvertaking
<1> HIDE DEF LeftByOvertaken
<1> QED
  BY <1>1, <1>2, CallInvariant, PTL DEF Spec

(* However calls overlap, a step that returns from disconnect with a task  *)
(* left is the return of a disconnect that was overtaken, or the task was  *)
(* left to nobody before.                                                  *)
THEOREM DisconnectsUnlessOvertaken == Spec => DisconnectFailsOvertaken
<1> DEFINE FailsOvertaken ==
      DisconnectDisconnects /\ ~DisconnectDisconnects' =>
        \/ \E t \in TaskIds : Orphan(t)
        \/ \E c \in Callers :
             Overtaken(c) /\ call[c].op = "disconnect" /\ call'[c] = Idle
<1>1. ASSUME Typed, CallInv, [Next]_vars PROVE FailsOvertaken
  <2> USE <1>1 DEF Typed, TypeOK
  <2> SUFFICES ASSUME DisconnectDisconnects, ~DisconnectDisconnects',
                      \A t \in TaskIds : ~Orphan(t)
               PROVE  \E c \in Callers :
                        Overtaken(c) /\ call[c].op = "disconnect" /\ call'[c] = Idle
    OBVIOUS
  <2>1. PICK t \in TaskIds : task'[t] \in Live
    BY DEF DisconnectDisconnects, IsLive
  <2>2. stopped'
    BY DEF DisconnectDisconnects
  \* While the client is stopped nothing lives, and only a call changes that.
  <2>3. ASSUME stopped' => stopped,
               \A u \in TaskIds : task'[u] \in Live => task[u] \in Live
        PROVE  FALSE
    BY <2>1, <2>2, <2>3 DEF DisconnectDisconnects, IsLive
  <2>4. ASSUME UNCHANGED task, ~IsLive(mqttTask) PROVE t \in cancelled
    BY <2>1, <2>4 DEF Orphan, IsLive
  <2>5. ASSUME NEW c \in Callers, Finish(c), call[c].pc # "idle" PROVE
          /\ call[c].op = "disconnect" /\ call'[c] = Idle
          /\ UNCHANGED task /\ \A b \in Callers \ {c} : call[b].pc = "idle"
    <3>1. ~stopped
      BY <2>5 DEF CallInv
    <3> QED
      BY <2>2, <2>5, <3>1 DEF Finish, IsIdle
  <2>6. ASSUME NEW c \in Callers, Resume(c)
        PROVE  Overtaken(c) /\ call[c].op = "disconnect" /\ call'[c] = Idle
    <3>1. /\ call[c].pc = "cancelling" /\ task[call[c].waits] = "done"
          /\ call[c].op = "disconnect" /\ call'[c] = Idle
          /\ UNCHANGED task /\ \A b \in Callers \ {c} : call[b].pc = "idle"
      BY <2>5, <2>6 DEF Resume
    \* A cancelled task is awaited by this call, and has not ended.
    <3>2. t \notin cancelled
      BY <2>1, <3>1 DEF CallInv, Live
    <3>3. IsLive(mqttTask)
      BY <2>4, <3>1, <3>2
    <3> QED
      BY <3>1, <3>3 DEF Overtaken, IsLive, Live
  <2>7. ASSUME NEW c \in Callers, Authenticated(c) PROVE FALSE
    <3>1. call[c].pc = "authenticating" /\ call[c].op = "subscribe" /\ ~stopped
      BY <2>7 DEF Authenticated, CallInv
    <3> QED
      BY <2>2, <2>5, <2>7, <3>1 DEF Authenticated
  <2>8. ASSUME DisconnectIdle PROVE FALSE
    <3>1. cancelled = {}
      BY <2>2, <2>8 DEF DisconnectIdle, IsIdle, CallInv
    <3> QED
      BY <2>4, <2>8, <3>1 DEF DisconnectIdle
  <2>9. ASSUME NEW c \in Callers, CredentialsChanged(c) \/ Disconnect(c) PROVE FALSE
    BY <2>2, <2>9 DEF CredentialsChanged, Disconnect
  <2>10. ASSUME NEW c \in Callers, NotAuthenticated(c) PROVE FALSE
    BY <2>3, <2>10 DEF NotAuthenticated
  <2>11. ASSUME NEW d \in Devices, NEW c \in Callers, SubscribeConnecting(c, d) PROVE FALSE
    BY <2>2, <2>11 DEF SubscribeConnecting
  <2>12. ASSUME NEW d \in Devices, SubscribeConnected(d) \/ Unsubscribe(d) PROVE FALSE
    BY <2>3, <2>12 DEF SubscribeConnected, Unsubscribe
  <2>13. ASSUME NEW u \in TaskIds, NEW d \in Devices, Replay(u, d) PROVE FALSE
    BY <2>3, <2>13 DEF Replay
  <2>14. ASSUME NEW u \in TaskIds,
                \/ Connected(u) \/ ReplayDone(u) \/ Retry(u)
                \/ TakeChange(u) \/ ChangeDone(u)
         PROVE  FALSE
    BY <2>3, <2>14 DEF Connected, ReplayDone, Retry, TakeChange, ChangeDone, Live
  <2>15. ASSUME NEW u \in TaskIds,
                ReplayBreaks(u) \/ ConnectionLost(u) \/ ConnectionAbandoned(u)
         PROVE  FALSE
    BY <2>3, <2>15 DEF ReplayBreaks, ConnectionLost, ConnectionAbandoned, LeaveClient, Live
  <2>16. ASSUME NEW u \in TaskIds, CancellationDelivered(u) PROVE FALSE
    BY <2>3, <2>16 DEF CancellationDelivered, LeaveClient, Live
  <2>17. CASE UNCHANGED vars
    BY <2>3, <2>17 DEF vars
  <2> QED
    BY <2>6, <2>7, <2>8, <2>9, <2>10, <2>11, <2>12, <2>13, <2>14, <2>15, <2>16, <2>17
       DEF Next
<1>2. [][FailsOvertaken]_vars => DisconnectFailsOvertaken
  BY PTL DEF DisconnectFailsOvertaken
<1> HIDE DEF FailsOvertaken
<1> QED
  BY <1>1, <1>2, CallInvariant, PTL DEF Spec

-----------------------------------------------------------------------------
(* As long as no call is overtaken: a call creates a task only when none   *)
(* is left, so that one lives at most.  It alone can change                *)
(* _subscriptions, and it does so only once its own replay is over.        *)
OneTask == \A t \in TaskIds : task[t] \in Live => t = mqttTask
NotConnectedEmpty ==
  \A t \in TaskIds : task[t] \notin {"replaying", "running"} => topics[t] = {}

IInv == OneTask /\ NotConnectedEmpty /\ ConnectionCarriesSubscriptions

LEMMA InitIInv == Init => IInv
BY DEF Init, IInv, OneTask, NotConnectedEmpty, ConnectionCarriesSubscriptions, Live

(* A step that leaves the tasks, their connections and _subscriptions      *)
(* alone.                                                                  *)
LEMMA StillKeeps ==
  ASSUME IInv, UNCHANGED <<mqttTask, task, topics, rest, subscriptions>>
  PROVE  IInv'
BY DEF IInv, OneTask, NotConnectedEmpty, ConnectionCarriesSubscriptions

(* A task is created when none lives.                                      *)
LEMMA CreationKeeps ==
  ASSUME Typed, IInv, NEW t \in TaskIds, mqttTask' = t,
         task' = [task EXCEPT ![t] = "connecting"],
         UNCHANGED <<topics, rest, subscriptions>>,
         \A u \in TaskIds : task[u] \notin Live
  PROVE  IInv'
<1> USE DEF Typed, TypeOK, IInv
<1>1. task'[t] = "connecting" /\ \A u \in TaskIds \ {t} : task'[u] = task[u]
  OBVIOUS
<1>2. topics[t] = {}
  BY DEF NotConnectedEmpty, Live
<1> QED
  BY <1>1, <1>2 DEF Live, OneTask, NotConnectedEmpty, ConnectionCarriesSubscriptions

LEMMA FinishKeeps ==
  ASSUME Typed, IInv, NEW c \in Callers, Finish(c), ~IsLive(mqttTask)
  PROVE  IInv'
<1>1. \A u \in TaskIds : task[u] \notin Live
  BY DEF IInv, OneTask, IsLive
<1>2. CASE call[c].op = "disconnect"
  BY <1>2, StillKeeps DEF Finish
<1>3. CASE call[c].op # "disconnect"
  BY <1>1, <1>3, CreationKeeps DEF Finish
<1> QED
  BY <1>2, <1>3

(* The connection of one task changes: the other tasks have none.          *)
LEMMA TaskKeeps ==
  ASSUME Typed, IInv, NEW t \in TaskIds, task[t] \in Live, UNCHANGED mqttTask,
         \A u \in TaskIds \ {t} : task'[u] = task[u] /\ topics'[u] = topics[u],
         task'[t] \notin {"replaying", "running"} => topics'[t] = {},
         task'[t] = "running" => topics'[t] = subscriptions',
         task'[t] = "replaying" => topics'[t] \cup rest'[t] = subscriptions'
  PROVE  IInv'
<1> USE DEF Typed, TypeOK, IInv
<1>1. t = mqttTask /\ \A u \in TaskIds \ {t} : task[u] \notin Live
  BY DEF OneTask
<1> QED
  BY <1>1 DEF Live, OneTask, NotConnectedEmpty, ConnectionCarriesSubscriptions

LEMMA NextIInv == ASSUME Typed, IInv, NobodyOvertaken, [Next]_vars PROVE IInv'
<1> USE DEF Typed, TypeOK
<1>1. ASSUME NEW d \in Devices, SubscribeConnected(d) \/ Unsubscribe(d) PROVE IInv'
  BY <1>1, StillKeeps DEF SubscribeConnected, Unsubscribe
<1>2. ASSUME NEW d \in Devices, NEW c \in Callers, SubscribeConnecting(c, d) PROVE IInv'
  BY <1>2, StillKeeps DEF SubscribeConnecting
<1>3. ASSUME NEW d \in Devices, NEW t \in TaskIds, Replay(t, d) PROVE IInv'
  <2>1. topics[t] \cup rest[t] = subscriptions /\ d \in rest[t]
    BY <1>3 DEF Replay, IInv, ConnectionCarriesSubscriptions
  <2>2. topics'[t] \cup rest'[t] = subscriptions' /\ task'[t] = "replaying"
    BY <1>3, <2>1 DEF Replay
  <2> QED
    BY <1>3, <2>2, TaskKeeps DEF Replay, Live
<1>4. ASSUME NEW c \in Callers, Authenticated(c) PROVE IInv'
  <2>1. CASE AwaitCancellation(c, call[c])
    BY <2>1, StillKeeps DEF AwaitCancellation
  <2>2. CASE ~IsLive(mqttTask) /\ Finish(c)
    BY <2>2, FinishKeeps
  <2> QED
    BY <1>4, <2>1, <2>2 DEF Authenticated
<1>5. ASSUME NEW c \in Callers, NotAuthenticated(c) \/ Disconnect(c) PROVE IInv'
  BY <1>5, StillKeeps DEF NotAuthenticated, Disconnect, AwaitCancellation
<1>6. ASSUME NEW c \in Callers, CredentialsChanged(c) PROVE IInv'
  <2>1. CASE AwaitCancellation(c, [Idle EXCEPT !.op = "changed"])
    BY <2>1, StillKeeps DEF AwaitCancellation
  <2>2. CASE ~AwaitCancellation(c, [Idle EXCEPT !.op = "changed"])
    BY <1>6, <2>2, CreationKeeps DEF CredentialsChanged, IInv, OneTask, IsLive
  <2> QED
    BY <2>1, <2>2
<1>7. ASSUME NEW c \in Callers, Resume(c) PROVE IInv'
  <2>1. task[mqttTask] = "done"
    BY <1>7 DEF Resume, NobodyOvertaken, Overtaken
  <2> QED
    BY <1>7, <2>1, FinishKeeps DEF Resume, IsLive, Live
<1>8. CASE DisconnectIdle \/ UNCHANGED vars
  BY <1>8, StillKeeps DEF DisconnectIdle, vars
<1>9. ASSUME NEW t \in TaskIds, Connected(t) PROVE IInv'
  <2>1. topics[t] = {}
    BY <1>9 DEF Connected, IInv, NotConnectedEmpty
  <2>2. task'[t] = "replaying" /\ topics'[t] \cup rest'[t] = subscriptions'
    BY <1>9, <2>1 DEF Connected
  <2> QED
    BY <1>9, <2>2, TaskKeeps DEF Connected, Live
<1>10. ASSUME NEW t \in TaskIds, ReplayDone(t) PROVE IInv'
  <2>1. topics[t] = subscriptions
    BY <1>10 DEF ReplayDone, IInv, ConnectionCarriesSubscriptions
  <2>2. task'[t] = "running" /\ topics'[t] = subscriptions'
    BY <1>10, <2>1 DEF ReplayDone
  <2> QED
    BY <1>10, <2>2, TaskKeeps DEF ReplayDone, Live
<1>11. ASSUME NEW t \in TaskIds, Retry(t) PROVE IInv'
  <2>1. topics[t] = {}
    BY <1>11 DEF Retry, IInv, NotConnectedEmpty
  <2> QED
    BY <1>11, <2>1, TaskKeeps DEF Retry, Live
<1>12. ASSUME NEW t \in TaskIds, NEW next \in {"waiting", "done"}, LeaveClient(t, next),
              task[t] \in Live \/ next = "done"
       PROVE  IInv'
  <2>1. topics'[t] = {} /\ task'[t] = next
    BY <1>12 DEF LeaveClient
  <2>2. CASE task[t] \in Live
    BY <1>12, <2>1, <2>2, TaskKeeps DEF LeaveClient
  <2>3. CASE task[t] \notin Live /\ next = "done"
    BY <1>12, <2>1, <2>3 DEF LeaveClient, IInv, Live, OneTask, NotConnectedEmpty,
       ConnectionCarriesSubscriptions
  <2> QED
    BY <1>12, <2>2, <2>3
<1>13. ASSUME NEW t \in TaskIds,
              \/ ReplayBreaks(t) \/ ConnectionLost(t) \/ ConnectionAbandoned(t)
              \/ CancellationDelivered(t)
       PROVE  IInv'
  BY <1>12, <1>13 DEF ReplayBreaks, ConnectionLost, ConnectionAbandoned,
                      CancellationDelivered, Live
<1>14. ASSUME NEW t \in TaskIds, TakeChange(t) PROVE IInv'
  BY <1>14, StillKeeps DEF TakeChange
<1>15. ASSUME NEW t \in TaskIds, ChangeDone(t) PROVE IInv'
  <2>1. topics[t] = subscriptions
    BY <1>15 DEF ChangeDone, IInv, ConnectionCarriesSubscriptions
  <2>2. task'[t] = "running" /\ topics'[t] = subscriptions'
    BY <1>15, <2>1 DEF ChangeDone
  <2> QED
    BY <1>15, <2>2, TaskKeeps DEF ChangeDone, Live
<1> QED
  BY <1>1, <1>2, <1>3, <1>4, <1>5, <1>6, <1>7, <1>8, <1>9, <1>10, <1>11, <1>13,
     <1>14, <1>15 DEF Next

(* Calls that follow each other overtake nobody.                           *)
OneCaller == \A b, c \in Callers : b = c

LEMMA OneOvertakesNobody == ASSUME OneCaller PROVE Spec => []NobodyOvertaken
<1>1. Init => NobodyOvertaken
  BY DEF Init, Idle, NobodyOvertaken, Overtaken
<1>2. ASSUME Typed, NobodyOvertaken, [Next]_vars PROVE NobodyOvertaken'
  <2> USE <1>2 DEF Typed, TypeOK, NobodyOvertaken, Overtaken
  <2>1. ASSUME UNCHANGED mqttTask,
               \A c \in Callers : call'[c].pc = "cancelling" => call'[c] = call[c]
        PROVE  NobodyOvertaken'
    BY <2>1
  <2>2. ASSUME \A c \in Callers : call'[c].pc = "idle" PROVE NobodyOvertaken'
    BY <2>2
  <2>3. ASSUME NEW c \in Callers, Finish(c) PROVE NobodyOvertaken'
    <3>1. call'[c].pc = "idle"
      BY <2>3 DEF Finish, Idle
    <3> QED
      BY <2>2, <3>1 DEF OneCaller
  <2>4. ASSUME NEW c \in Callers, NEW callOf \in Calls, AwaitCancellation(c, callOf)
        PROVE  NobodyOvertaken'
    <3> DEFINE waiting == [callOf EXCEPT !.pc = "cancelling", !.waits = mqttTask]
    <3>1. waiting.waits = mqttTask
      BY DEF Calls
    <3>2. call' = [call EXCEPT ![c] = waiting] /\ UNCHANGED mqttTask
      BY <2>4 DEF AwaitCancellation
    <3> HIDE DEF waiting
    <3>3. call'[c] = waiting
      BY <3>2
    <3> QED
      BY <3>1, <3>2, <3>3 DEF OneCaller
  <2>5. ASSUME NEW c \in Callers, Authenticated(c) \/ Resume(c) PROVE NobodyOvertaken'
    BY <2>3, <2>4, <2>5 DEF Authenticated, Resume
  <2>6. ASSUME NEW c \in Callers, Disconnect(c) PROVE NobodyOvertaken'
    BY <2>4, <2>6, CallTypes DEF Disconnect
  <2>7. ASSUME NEW c \in Callers, CredentialsChanged(c) PROVE NobodyOvertaken'
    <3>1. CASE AwaitCancellation(c, [Idle EXCEPT !.op = "changed"])
      BY <2>4, <3>1, CallTypes
    <3>2. CASE ~AwaitCancellation(c, [Idle EXCEPT !.op = "changed"])
      <4>1. UNCHANGED call /\ call[c].pc = "idle"
        BY <2>7, <3>2 DEF CredentialsChanged, IsIdle
      <4> QED
        BY <2>2, <4>1 DEF OneCaller
    <3> QED
      BY <3>1, <3>2
  <2>8. ASSUME NEW c \in Callers, NEW d \in Devices, SubscribeConnecting(c, d)
        PROVE  NobodyOvertaken'
    <3>1. call'[c].pc = "authenticating"
      BY <2>8 DEF SubscribeConnecting, Idle
    <3> QED
      BY <3>1 DEF OneCaller
  <2>9. ASSUME UNCHANGED <<call, mqttTask>> PROVE NobodyOvertaken'
    BY <2>1, <2>9
  <2>10. CASE DisconnectIdle \/ UNCHANGED vars
    BY <2>9, <2>10 DEF DisconnectIdle, vars
  <2>11. ASSUME NEW d \in Devices, NEW t \in TaskIds, Replay(t, d)
         PROVE  NobodyOvertaken'
    BY <2>9, <2>11 DEF Replay
  <2>12. ASSUME NEW t \in TaskIds,
                \/ Connected(t) \/ ReplayDone(t) \/ ReplayBreaks(t)
                \/ ConnectionLost(t) \/ ConnectionAbandoned(t) \/ Retry(t)
                \/ CancellationDelivered(t) \/ TakeChange(t) \/ ChangeDone(t)
         PROVE  NobodyOvertaken'
    BY <2>9, <2>12 DEF Connected, ReplayDone, ReplayBreaks, ConnectionLost,
       ConnectionAbandoned, Retry, CancellationDelivered, LeaveClient, TakeChange, ChangeDone
  <2>13. ASSUME NEW d \in Devices, SubscribeConnected(d) \/ Unsubscribe(d)
         PROVE  NobodyOvertaken'
    BY <2>9, <2>13 DEF SubscribeConnected, Unsubscribe
  <2>14. ASSUME NEW c \in Callers, NotAuthenticated(c) PROVE NobodyOvertaken'
    <3>1. call'[c].pc = "idle"
      BY <2>14 DEF NotAuthenticated, Idle
    <3> QED
      BY <2>2, <3>1 DEF OneCaller
  <2> QED
    BY <2>5, <2>6, <2>7, <2>8, <2>10, <2>11, <2>12, <2>13, <2>14 DEF Next
<1> QED
  BY <1>1, <1>2, InitTyped, NextTyped, PTL DEF Spec

(* As long as no call is overtaken at its await, however many there are, a *)
(* connection that runs is subscribed to every device in _subscriptions,   *)
(* and one that replays is or will be: losing it, reconnecting and         *)
(* replacing the task forget no device.  So it is in particular when calls *)
(* follow each other.                                                      *)
THEOREM CarriesSubscriptions ==
  /\ Spec /\ []NobodyOvertaken => []ConnectionCarriesSubscriptions
  /\ OneCaller => (Spec => []ConnectionCarriesSubscriptions)
<1>1. Typed /\ IInv /\ NobodyOvertaken /\ [Next]_vars => Typed' /\ IInv'
  BY NextTyped, NextIInv
<1>2. IInv => ConnectionCarriesSubscriptions
  BY DEF IInv
<1>3. Spec /\ []NobodyOvertaken => []ConnectionCarriesSubscriptions
  BY <1>1, <1>2, InitTyped, InitIInv, PTL DEF Spec
<1>4. ASSUME OneCaller PROVE Spec => []ConnectionCarriesSubscriptions
  BY <1>3, <1>4, OneOvertakesNobody, PTL
<1> QED
  BY <1>3, <1>4

=============================================================================
