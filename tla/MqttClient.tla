----------------------------- MODULE MqttClient -----------------------------
(***************************************************************************)
(* The MQTT client (deebot_client/mqtt_client.py): the task that holds the *)
(* connection, the callers that replace or cancel it, and the queue of     *)
(* subscription changes.                                                   *)
(*                                                                         *)
(* An action is the code between two awaits.  A call (connect, disconnect, *)
(* the callback on changed credentials) is a record in `call`; it waits    *)
(* for the authenticator or for the task it has cancelled.  The three      *)
(* topics of a device are one topic here: a device is subscribed at the    *)
(* broker when all three are.                                              *)
(***************************************************************************)
EXTENDS Naturals, Sequences, FiniteSets

CONSTANTS
  Devices,    \* the devices, by their did
  Callers,    \* the calls that can be in progress at the same time
  TaskIds,    \* identities of mqtt() tasks; reused once nobody refers to them
  MaxQueue,   \* bound: changes in _subscription_changes
  None

ASSUME QueueAssumption == MaxQueue \in Nat \ {0}
ASSUME NoneAssumption  == None \notin Devices \cup TaskIds

Changes == [dev : Devices, add : BOOLEAN]

(* "free": no such task.  "connecting": in _get_client or entering the     *)
(* client.  "replaying": subscribing to the previous subscriptions.        *)
(* "running": listen() and the worker run.  "waiting": in the sleep before *)
(* the next attempt.  "done": the coroutine has ended.                     *)
TaskStates == {"free", "connecting", "replaying", "running", "waiting", "done"}
Live == {"connecting", "replaying", "running", "waiting"}

(* op: what is called.  pc: idle, in authenticate(), or waiting for the    *)
(* cancelled task `waits`.                                                 *)
Idle == [op |-> "none", dev |-> None, pc |-> "idle", waits |-> None]
Calls == [op    : {"none", "subscribe", "disconnect", "changed"},
          dev   : Devices \cup {None},
          pc    : {"idle", "authenticating", "cancelling"},
          waits : TaskIds \cup {None}]

VARIABLES
  call,          \* per caller: the call in progress
  mqttTask,      \* _mqtt_task
  task,          \* per task: its state
  cancelled,     \* the tasks whose cancellation is requested, not delivered
  topics,        \* per task: the devices its connection is subscribed to
  rest,          \* per task: the subscriptions it has still to replay
  size,          \* per task: the size of the dict the replay iterates over
  worker,        \* per task: the change its worker has taken, or None
  subscriptions, \* _subscriptions
  queue,         \* _subscription_changes
  wanted,        \* observer: the devices whose last change asked to add them
  stopped        \* observer: disconnect was the last call, and has returned

connVars == <<task, cancelled, topics, rest, size, worker>>
vars == <<call, mqttTask, connVars, subscriptions, queue, wanted, stopped>>

TypeOK ==
  /\ call \in [Callers -> Calls]
  /\ mqttTask \in TaskIds \cup {None}
  /\ task \in [TaskIds -> TaskStates]
  /\ cancelled \subseteq TaskIds
  /\ topics \in [TaskIds -> SUBSET Devices]
  /\ rest \in [TaskIds -> SUBSET Devices]
  /\ size \in [TaskIds -> Nat]
  /\ worker \in [TaskIds -> Changes \cup {None}]
  /\ subscriptions \subseteq Devices
  /\ queue \in Seq(Changes)
  /\ wanted \subseteq Devices
  /\ stopped \in BOOLEAN

Init ==
  /\ call = [c \in Callers |-> Idle]
  /\ mqttTask = None
  /\ task = [t \in TaskIds |-> "free"]
  /\ cancelled = {}
  /\ topics = [t \in TaskIds |-> {}]
  /\ rest = [t \in TaskIds |-> {}]
  /\ size = [t \in TaskIds |-> 0]
  /\ worker = [t \in TaskIds |-> None]
  /\ subscriptions = {}
  /\ queue = <<>>
  /\ wanted = {}
  /\ stopped = FALSE

-----------------------------------------------------------------------------
(* Helpers                                                                 *)

IsIdle(c) == call[c].pc = "idle"
IsLive(t) == t \in TaskIds /\ task[t] \in Live

(* An identity that no variable and no call refers to any more.            *)
Unused(t) == /\ task[t] \in {"free", "done"}
             /\ t # mqttTask
             /\ \A c \in Callers : call[c].waits # t

(* The bounds, as guards of the calls: each call in progress keeps a task  *)
(* identity, and a place in the queue if it is a subscribe, so that it can *)
(* always finish.                                                          *)
RoomForTask ==
  Cardinality({t \in TaskIds : Unused(t)})
    > Cardinality({c \in Callers : ~IsIdle(c)})
RoomForChange ==
  Len(queue) + Cardinality({c \in Callers : call[c].op = "subscribe"}) < MaxQueue

(* _subscription_changes.put_nowait                                        *)
Put(d, add) ==
  /\ queue' = Append(queue, [dev |-> d, add |-> add])
  /\ wanted' = IF add THEN wanted \cup {d} ELSE wanted \ {d}

(* What a call does once the old task is gone.  connect and the credential *)
(* callback create a task, whatever _mqtt_task refers to by now; subscribe *)
(* queues its change after that.                                           *)
Finish(c) ==
  /\ call' = [call EXCEPT ![c] = Idle]
  /\ IF call[c].op = "disconnect"
       THEN /\ stopped' = \A b \in Callers \ {c} : IsIdle(b)
            /\ UNCHANGED <<mqttTask, task, queue, wanted>>
       ELSE /\ \E t \in TaskIds :
                 /\ Unused(t)
                 /\ mqttTask' = t
                 /\ task' = [task EXCEPT ![t] = "connecting"]
            /\ IF call[c].op = "subscribe" THEN Put(call[c].dev, TRUE)
                                           ELSE UNCHANGED <<queue, wanted>>
            /\ UNCHANGED stopped
  /\ UNCHANGED <<cancelled, topics, rest, size, worker, subscriptions>>

(* _cancel_mqtt_task up to its await: the call waits for the live task it  *)
(* has cancelled.                                                          *)
AwaitCancellation(c, callOf) ==
  /\ IsLive(mqttTask)
  /\ cancelled' = cancelled \cup {mqttTask}
  /\ call' = [call EXCEPT ![c] = [callOf EXCEPT !.pc = "cancelling",
                                                 !.waits = mqttTask]]
  /\ UNCHANGED <<mqttTask, task, topics, rest, size, worker, subscriptions,
                 queue, wanted>>

-----------------------------------------------------------------------------
(* Calls                                                                   *)

(* subscribe, when a connection task exists: the change is queued.         *)
SubscribeConnected(d) ==
  /\ IsLive(mqttTask) /\ RoomForChange
  /\ Put(d, TRUE)
  /\ UNCHANGED <<call, mqttTask, connVars, subscriptions, stopped>>

(* subscribe, when there is none: connect calls the authenticator first.   *)
SubscribeConnecting(c, d) ==
  /\ IsIdle(c) /\ ~IsLive(mqttTask)
  /\ RoomForTask /\ RoomForChange
  /\ call' = [call EXCEPT ![c] = [Idle EXCEPT !.op = "subscribe", !.dev = d,
                                               !.pc = "authenticating"]]
  /\ stopped' = FALSE
  /\ UNCHANGED <<mqttTask, connVars, subscriptions, queue, wanted>>

(* The function returned by subscribe.                                     *)
Unsubscribe(d) ==
  /\ d \in wanted /\ RoomForChange
  /\ Put(d, FALSE)
  /\ UNCHANGED <<call, mqttTask, connVars, subscriptions, stopped>>

(* authenticate() returns or raises.                                       *)
Authenticated(c) ==
  /\ call[c].pc = "authenticating"
  /\ \/ AwaitCancellation(c, call[c]) /\ UNCHANGED stopped
     \/ ~IsLive(mqttTask) /\ Finish(c)

NotAuthenticated(c) ==
  /\ call[c].pc = "authenticating"
  /\ call' = [call EXCEPT ![c] = Idle]
  /\ UNCHANGED <<mqttTask, connVars, subscriptions, queue, wanted, stopped>>

(* Seeded fault of Disconnect: it does not await the cancelled task.       *)
DisconnectAtOnce(c) ==
  /\ IsIdle(c) /\ IsLive(mqttTask)
  /\ cancelled' = cancelled \cup {mqttTask}
  /\ stopped' = \A b \in Callers : IsIdle(b)
  /\ UNCHANGED <<call, mqttTask, task, topics, rest, size, worker,
                 subscriptions, queue, wanted>>

(* disconnect, with a live task to cancel or without.                      *)
Disconnect(c) ==
  /\ IsIdle(c)
  /\ AwaitCancellation(c, [Idle EXCEPT !.op = "disconnect"])
  /\ stopped' = FALSE

DisconnectIdle ==
  /\ ~IsLive(mqttTask)
  /\ stopped' = \A b \in Callers : IsIdle(b)
  /\ UNCHANGED <<call, mqttTask, connVars, subscriptions, queue, wanted>>

(* Seeded fault of CredentialsChanged: the old task is not cancelled.      *)
CredentialsChangedAlongside(c) ==
  /\ IsIdle(c) /\ RoomForTask
  /\ \E t \in TaskIds :
       /\ Unused(t)
       /\ mqttTask' = t
       /\ task' = [task EXCEPT ![t] = "connecting"]
  /\ stopped' = FALSE
  /\ UNCHANGED <<call, cancelled, topics, rest, size, worker, subscriptions,
                 queue, wanted>>

(* on_credentials_changed: a login of anybody replaces the connection.     *)
CredentialsChanged(c) ==
  /\ IsIdle(c) /\ RoomForTask
  /\ \/ /\ AwaitCancellation(c, [Idle EXCEPT !.op = "changed"])
        /\ stopped' = FALSE
     \/ /\ ~IsLive(mqttTask)
        /\ \E t \in TaskIds :
             /\ Unused(t)
             /\ mqttTask' = t
             /\ task' = [task EXCEPT ![t] = "connecting"]
        /\ stopped' = FALSE
        /\ UNCHANGED <<call, cancelled, topics, rest, size, worker,
                       subscriptions, queue, wanted>>

(* The cancelled task has ended: _cancel_mqtt_task returns.                *)
Resume(c) ==
  /\ call[c].pc = "cancelling" /\ task[call[c].waits] = "done"
  /\ Finish(c)

-----------------------------------------------------------------------------
(* The task: mqtt()                                                        *)

(* Leaving the client context ends the connection and the worker with it:  *)
(* the change it had taken from the queue is gone.                         *)
LeaveClient(t, next) ==
  /\ task' = [task EXCEPT ![t] = next]
  /\ topics' = [topics EXCEPT ![t] = {}]
  /\ rest' = [rest EXCEPT ![t] = {}]
  /\ size' = [size EXCEPT ![t] = 0]
  /\ worker' = [worker EXCEPT ![t] = None]
  /\ UNCHANGED <<call, mqttTask, subscriptions, queue, wanted, stopped>>

(* Seeded fault of Connected: nothing is subscribed to again.              *)
ConnectedWithoutReplay(t) ==
  /\ task[t] = "connecting" /\ t \notin cancelled
  /\ task' = [task EXCEPT ![t] = "replaying"]
  /\ size' = [size EXCEPT ![t] = Cardinality(subscriptions)]
  /\ UNCHANGED <<call, mqttTask, cancelled, topics, rest, worker, subscriptions,
                 queue, wanted, stopped>>

(* The client is connected: the loop over _subscriptions starts.           *)
Connected(t) ==
  /\ task[t] = "connecting" /\ t \notin cancelled
  /\ task' = [task EXCEPT ![t] = "replaying"]
  /\ rest' = [rest EXCEPT ![t] = subscriptions]
  /\ size' = [size EXCEPT ![t] = Cardinality(subscriptions)]
  /\ UNCHANGED <<call, mqttTask, cancelled, topics, worker, subscriptions,
                 queue, wanted, stopped>>

(* The loop subscribes to one more device.                                 *)
Replay(t, d) ==
  /\ task[t] = "replaying" /\ t \notin cancelled
  /\ Cardinality(subscriptions) = size[t]
  /\ d \in rest[t]
  /\ rest' = [rest EXCEPT ![t] = @ \ {d}]
  /\ topics' = [topics EXCEPT ![t] = @ \cup {d}]
  /\ UNCHANGED <<call, mqttTask, task, cancelled, size, worker, subscriptions,
                 queue, wanted, stopped>>

(* Seeded fault of ReplayDone: without subscriptions, nothing is started.  *)
ReplayDoneIfAny(t) ==
  /\ task[t] = "replaying" /\ t \notin cancelled
  /\ Cardinality(subscriptions) = size[t]
  /\ rest[t] = {} /\ subscriptions # {}
  /\ task' = [task EXCEPT ![t] = "running"]
  /\ UNCHANGED <<call, mqttTask, cancelled, topics, rest, size, worker,
                 subscriptions, queue, wanted, stopped>>

(* The loop is over: listen() and the worker are started.                  *)
ReplayDone(t) ==
  /\ task[t] = "replaying" /\ t \notin cancelled
  /\ Cardinality(subscriptions) = size[t]
  /\ rest[t] = {}
  /\ task' = [task EXCEPT ![t] = "running"]
  /\ UNCHANGED <<call, mqttTask, cancelled, topics, rest, size, worker,
                 subscriptions, queue, wanted, stopped>>

(* "dictionary changed size during iteration": the task logs it and ends.  *)
ReplayBreaks(t) ==
  /\ task[t] = "replaying" /\ t \notin cancelled
  /\ Cardinality(subscriptions) # size[t]
  /\ LeaveClient(t, "done")
  /\ UNCHANGED cancelled

(* The broker refuses or drops the connection, or an answer to a subscribe *)
(* does not come: the next attempt is made after RECONNECT_INTERVAL.       *)
ConnectionLost(t) ==
  /\ task[t] \in {"connecting", "replaying", "running"} /\ t \notin cancelled
  /\ LeaveClient(t, "waiting")
  /\ UNCHANGED cancelled

(* AuthenticationError while connecting, or an exception that is none of   *)
(* the broker's while connecting, replaying or running: the task logs it   *)
(* and ends.                                                               *)
ConnectionAbandoned(t) ==
  /\ task[t] \in {"connecting", "replaying", "running"} /\ t \notin cancelled
  /\ LeaveClient(t, "done")
  /\ UNCHANGED cancelled

(* Seeded fault of Retry: the sleep is repeated, not the attempt.          *)
RetrySleep(t) ==
  /\ task[t] = "waiting" /\ t \notin cancelled
  /\ UNCHANGED vars

(* The sleep of RECONNECT_INTERVAL is over.                                *)
Retry(t) ==
  /\ task[t] = "waiting" /\ t \notin cancelled
  /\ task' = [task EXCEPT ![t] = "connecting"]
  /\ UNCHANGED <<call, mqttTask, cancelled, topics, rest, size, worker,
                 subscriptions, queue, wanted, stopped>>

(* Seeded fault of CancellationDelivered: it is handled like a lost        *)
(* connection.                                                             *)
CancellationSwallowed(t) ==
  /\ t \in cancelled
  /\ cancelled' = cancelled \ {t}
  /\ LeaveClient(t, "waiting")

(* The requested cancellation reaches the task.                            *)
CancellationDelivered(t) ==
  /\ t \in cancelled
  /\ cancelled' = cancelled \ {t}
  /\ LeaveClient(t, "done")

(* The worker: _pending_subscriptions_worker                               *)
TakeChange(t) ==
  /\ task[t] = "running" /\ worker[t] = None /\ queue # <<>>
  /\ worker' = [worker EXCEPT ![t] = Head(queue)]
  /\ queue' = Tail(queue)
  /\ UNCHANGED <<call, mqttTask, task, cancelled, topics, rest, size,
                 subscriptions, wanted, stopped>>

(* The broker has answered for the change the worker had taken.            *)
ChangeDone(t) ==
  LET change == worker[t]
      With(S) == IF change.add THEN S \cup {change.dev} ELSE S \ {change.dev} IN
  /\ task[t] = "running" /\ change # None
  /\ topics' = [topics EXCEPT ![t] = With(@)]
  /\ subscriptions' = With(subscriptions)
  /\ worker' = [worker EXCEPT ![t] = None]
  /\ UNCHANGED <<call, mqttTask, task, cancelled, rest, size, queue, wanted,
                 stopped>>

-----------------------------------------------------------------------------
Next ==
  \/ \E d \in Devices :
       \/ SubscribeConnected(d) \/ Unsubscribe(d)
       \/ \E c \in Callers : SubscribeConnecting(c, d)
       \/ \E t \in TaskIds : Replay(t, d)
  \/ \E c \in Callers :
       \/ Authenticated(c) \/ NotAuthenticated(c) \/ Disconnect(c)
       \/ CredentialsChanged(c) \/ Resume(c)
  \/ DisconnectIdle
  \/ \E t \in TaskIds :
       \/ Connected(t) \/ ReplayDone(t) \/ ReplayBreaks(t)
       \/ ConnectionLost(t) \/ ConnectionAbandoned(t) \/ Retry(t)
       \/ CancellationDelivered(t) \/ TakeChange(t) \/ ChangeDone(t)

Spec == Init /\ [][Next]_vars

(* The event loop delivers cancellations, resumes calls and wakes          *)
(* sleepers, and authenticate() returns (its requests have a timeout).     *)
LoopFairness ==
  /\ \A c \in Callers : WF_vars(Resume(c)) /\ WF_vars(Authenticated(c) \/ NotAuthenticated(c))
  /\ \A t \in TaskIds : WF_vars(CancellationDelivered(t))

(* The broker is not down for ever: an attempt that is repeated for ever   *)
(* succeeds, and so does each step of the replay and of the worker.        *)
BrokerFairness ==
  \A t \in TaskIds :
    /\ WF_vars(Retry(t)) /\ WF_vars(ReplayBreaks(t))
    /\ SF_vars(Connected(t)) /\ SF_vars(ReplayDone(t))
    /\ SF_vars(TakeChange(t)) /\ SF_vars(ChangeDone(t))
    /\ \A d \in Devices : SF_vars(Replay(t, d))

LoopSpec == Spec /\ LoopFairness
FairSpec == LoopSpec /\ BrokerFairness

-----------------------------------------------------------------------------
(* Properties                                                              *)

(* A connection that runs is subscribed at the broker to every device in   *)
(* _subscriptions, and one that replays is or will be: reconnecting and    *)
(* replacing the task forget no device.                                    *)
ConnectionCarriesSubscriptions ==
  \A t \in TaskIds :
    /\ task[t] = "running" => topics[t] = subscriptions
    /\ task[t] = "replaying" => topics[t] \cup rest[t] = subscriptions

(* A task that nobody refers to: it lives, _mqtt_task is another one, and  *)
(* nobody has cancelled it.                                                *)
Orphan(t) == IsLive(t) /\ t # mqttTask /\ t \notin cancelled

(* A call that is overtaken: it still waits for the end of a task, while   *)
(* another call, which had seen that end, has put a new one in _mqtt_task. *)
Overtaken(c) == call[c].pc = "cancelling" /\ call[c].waits # mqttTask
NobodyOvertaken == \A c \in Callers : ~Overtaken(c)

(* However calls overlap, a task is left to nobody in one way only: a call *)
(* that was overtaken at its await (mqtt_client.py:194) assigns _mqtt_task *)
(* after it (mqtt_client.py:246), over the task of the call that overtook  *)
(* it.  Neither the first of several calls that wait for the same task,    *)
(* nor one that finds the task ended, nor a reconnection leaves one.       *)
OrphanByOvertaking ==
  [][\A t \in TaskIds :
       Orphan(t)' /\ ~Orphan(t) =>
         \E c \in Callers :
           Overtaken(c) /\ call[c].op # "disconnect" /\ call'[c] = Idle]_vars

(* disconnect documents "Disconnect from MQTT.", and the test              *)
(* test_client_reconnect_manual expects no message after it: when          *)
(* disconnect has returned and nobody has called since, no task holds a    *)
(* connection.                                                             *)
DisconnectDisconnects == stopped => \A t \in TaskIds : ~IsLive(t)

(* However calls overlap, a disconnect that returns with a task left has   *)
(* been overtaken itself, or the task was left to nobody before: it never  *)
(* forgets, or fails to await, the task it finds in _mqtt_task.            *)
DisconnectFailsOvertaken ==
  [][DisconnectDisconnects /\ ~DisconnectDisconnects' =>
       \/ \E t \in TaskIds : Orphan(t)
       \/ \E c \in Callers :
            Overtaken(c) /\ call[c].op = "disconnect" /\ call'[c] = Idle]_vars

(* subscribe documents "Subscribe for messages from given device.": the    *)
(* request is in the queue, in the hands of a worker or in _subscriptions. *)
SubscribeIsRemembered ==
  \A d \in wanted :
    \/ d \in subscriptions
    \/ \E i \in DOMAIN queue : queue[i] = [dev |-> d, add |-> TRUE]
    \/ \E t \in TaskIds : worker[t] = [dev |-> d, add |-> TRUE]

(* A connection that was lost comes back: the task that waits to reconnect *)
(* runs again unless it is ended or cancelled.                             *)
LostConnectionComesBack ==
  \A t \in TaskIds :
    task[t] = "waiting" ~> task[t] \in {"running", "done"} \/ t \in cancelled

(* Every call returns: the task it cancels ends, even when several calls   *)
(* cancel the same one.                                                    *)
CallsReturn == \A c \in Callers : ~IsIdle(c) ~> IsIdle(c)

(* A queued change is taken by a worker unless the client is stopped.      *)
QueuedChangeIsTaken ==
  queue # <<>> ~> \/ \E t \in TaskIds : worker[t] # None
                  \/ ~IsLive(mqttTask)
=============================================================================
