----------------------------- MODULE P2PCommands ----------------------------
(***************************************************************************)
(* How the bus follows a setting of a robot (MqttClient._handle_p2p and    *)
(* the handle_mqtt_p2p of the set commands).  The broker copies the        *)
(* requests of every app to the client, and the robot's responses to them. *)
(* A request is kept for some time; the response says whether the robot    *)
(* did what it asks, and only then its arguments are shown, or what they   *)
(* are about is read again.  The same setting is read by refreshes of the  *)
(* bus.  Copies may be lost and requests may come late, never or in        *)
(* numbers the cache cannot hold.                                          *)
(***************************************************************************)
EXTENDS Naturals, Sequences, SequencesExt, FiniteSets

CONSTANTS Robots,       \* subscribed devices
          Values,       \* values of the setting
          None,         \* not known yet
          Ids,          \* request ids; every request has its own
          CacheSize     \* maxsize of the TTLCache

ASSUME P2PAssumption == /\ None \notin Robots \cup Values
                        /\ CacheSize \in Nat \ {0}

VARIABLES resettable,   \* robots whose setting is a life span that is reset
          value,        \* the robot's value
          had,          \* all the values it has had
          shown,        \* the value of the last event
          request,      \* what is asked by which id
          travelling,   \* ids of requests the robot has not seen
          inbox,        \* copies on their way to the client, in order
          received,     \* _received_p2p_commands: its keys, oldest first
          dropped,      \* ids the client cannot know, or know any more
          due,          \* robots whose refresh the bus has begun
          reading,      \* values read by a refresh, not handled yet
          missed        \* robots of which the client missed a change

vars == <<resettable, value, had, shown, request, travelling, inbox, received,
          dropped, due, reading, missed>>

NoRequest        == [robot |-> None]
Response(id, ok) == [id |-> id, is_request |-> FALSE, ok |-> ok]
RequestCopy(id)  == [id |-> id, is_request |-> TRUE, ok |-> FALSE]
Refreshing(r)  == r \in due \/ \E x \in reading : x.robot = r
Answered(r)    == \A i \in 1..Len(inbox) : inbox[i].is_request \/ request[inbox[i].id].robot # r

Init ==
  /\ resettable \in SUBSET Robots
  /\ value \in [Robots -> Values]
  /\ had = [r \in Robots |-> {value[r]}]
  /\ shown = [r \in Robots |-> None]
  /\ request = [id \in Ids |-> NoRequest]
  /\ travelling = {} /\ inbox = <<>> /\ received = <<>> /\ dropped = {}
  /\ due = {} /\ reading = {}
  /\ missed = Robots

-----------------------------------------------------------------------------
(* The apps, the broker and the robot                                      *)

(* A request to the robot and its copy to the client                       *)
Ask(id, r, v) ==
  /\ request[id] = NoRequest
  /\ request' = [request EXCEPT ![id] = [robot |-> r, value |-> v]]
  /\ travelling' = travelling \cup {id}
  /\ \/ inbox' = Append(inbox, RequestCopy(id)) /\ UNCHANGED dropped
     \/ dropped' = dropped \cup {id} /\ UNCHANGED inbox
  /\ UNCHANGED <<resettable, value, had, shown, received, due, reading, missed>>

LoseRequest(id) ==
  /\ id \in travelling
  /\ travelling' = travelling \ {id}
  /\ UNCHANGED <<resettable, value, had, shown, request, inbox, received, dropped, due,
                 reading, missed>>

(* The robot does what it is asked and says so.  The client misses it if   *)
(* the copy is lost, or if a refresh that has read the value before it     *)
(* will show that value after it.                                          *)
Obey(id, lost) ==
  LET r == request[id].robot
      v == request[id].value
  IN  /\ id \in travelling
      /\ travelling' = travelling \ {id}
      /\ value' = [value EXCEPT ![r] = v]
      /\ had' = [had EXCEPT ![r] = @ \cup {v}]
      /\ inbox' = IF lost THEN inbox ELSE Append(inbox, Response(id, TRUE))
      /\ missed' = missed \cup {x \in {r} : lost \/ \E y \in reading : y.robot = r}
      /\ UNCHANGED <<resettable, shown, request, received, dropped, due, reading>>

Refuse(id) ==
  /\ id \in travelling
  /\ travelling' = travelling \ {id}
  /\ inbox' = Append(inbox, Response(id, FALSE))
  /\ UNCHANGED <<resettable, value, had, shown, request, received, dropped, due, reading,
                 missed>>

-----------------------------------------------------------------------------
(* MqttClient._handle_p2p                                                  *)

(* A request is created from the copy and kept; the oldest one makes room. *)
(* A fault: one request is kept at a time.                                 *)
KeepLast(id) == /\ received' = <<id>>
                /\ UNCHANGED dropped
Keep(id) ==
  IF Len(received) < CacheSize
    THEN received' = Append(received, id) /\ UNCHANGED dropped
    ELSE /\ received' = Append(Tail(received), id)
         /\ dropped' = dropped \cup {Head(received)}

(* SetCommand._handle_mqtt_p2p shows the arguments, that of ResetLifeSpan  *)
(* requests a refresh; it is dropped if one is in progress.                *)
Confirm(r, v) ==
  IF r \in resettable
    THEN due' = due \cup {x \in {r} : ~Refreshing(r)} /\ UNCHANGED shown
    ELSE shown' = [shown EXCEPT ![r] = v] /\ UNCHANGED due

HandleRequest ==
  /\ inbox # <<>> /\ Head(inbox).is_request
  /\ Keep(Head(inbox).id)
  /\ inbox' = Tail(inbox)
  /\ UNCHANGED <<resettable, value, had, shown, request, travelling, due, reading, missed>>

(* The command is taken out of the cache whatever the response says; one   *)
(* that came too late is only logged.                                      *)
(* A fault: the response is not looked at.                                 *)
HandleResponseUnread ==
  LET id == Head(inbox).id
      r  == request[id].robot
  IN  /\ inbox # <<>> /\ ~Head(inbox).is_request
      /\ inbox' = Tail(inbox)
      /\ \/ \E i \in 1..Len(received) :
              /\ received[i] = id
              /\ received' = RemoveAt(received, i)
              /\ Confirm(r, request[id].value)
         \/ ~Contains(received, id) /\ UNCHANGED <<received, shown, due>>
      /\ missed' = missed \cup {x \in {r} : id \in dropped}
      /\ UNCHANGED <<resettable, value, had, request, travelling, dropped, reading>>

HandleResponse ==
  LET id == Head(inbox).id
      r  == request[id].robot
      ok == Head(inbox).ok
  IN  /\ inbox # <<>> /\ ~Head(inbox).is_request
      /\ inbox' = Tail(inbox)
      /\ \/ \E i \in 1..Len(received) :
              /\ received[i] = id
              /\ received' = RemoveAt(received, i)
              /\ IF ok THEN Confirm(r, request[id].value) ELSE UNCHANGED <<shown, due>>
         \/ ~Contains(received, id) /\ UNCHANGED <<received, shown, due>>
      /\ missed' = missed \cup {x \in {r} : ok /\ id \in dropped}
      /\ UNCHANGED <<resettable, value, had, request, travelling, dropped, reading>>

(* The time to live of the oldest request is over.                         *)
Expire ==
  /\ received # <<>>
  /\ received' = Tail(received)
  /\ dropped' = dropped \cup {Head(received)}
  /\ UNCHANGED <<resettable, value, had, shown, request, travelling, inbox, due, reading,
                 missed>>

-----------------------------------------------------------------------------
(* A refresh of the bus: one at a time for each robot.                     *)
RequestRefresh(r) ==
  /\ ~Refreshing(r)
  /\ due' = due \cup {r}
  /\ UNCHANGED <<resettable, value, had, shown, request, travelling, inbox, received,
                 dropped, reading, missed>>

(* The robot answers the get command with its value.  What was missed      *)
(* before is made good, unless a response of before is still on its way    *)
(* and will be handled after it.                                           *)
Read(r) ==
  /\ r \in due
  /\ due' = due \ {r}
  /\ reading' = reading \cup {[robot |-> r, value |-> value[r]]}
  /\ missed' = missed \ {x \in {r} : Answered(r)}
  /\ UNCHANGED <<resettable, value, had, shown, request, travelling, inbox, received, dropped>>

HandleRead(x) ==
  /\ x \in reading
  /\ reading' = reading \ {x}
  /\ shown' = [shown EXCEPT ![x.robot] = x.value]
  /\ UNCHANGED <<resettable, value, had, request, travelling, inbox, received, dropped,
                 due, missed>>

Next ==
  \/ \E id \in Ids, r \in Robots, v \in Values : Ask(id, r, v)
  \/ \E id \in Ids : LoseRequest(id) \/ Obey(id, TRUE) \/ Obey(id, FALSE) \/ Refuse(id)
  \/ HandleRequest \/ HandleResponse \/ Expire
  \/ \E r \in Robots : RequestRefresh(r) \/ Read(r)
  \/ \E x \in reading : HandleRead(x)

Spec == Init /\ [][Next]_vars

-----------------------------------------------------------------------------
(* Requests, responses and refreshes together keep what Setting promises:  *)
(* what is shown is a value the robot has had.                             *)
Promise    == INSTANCE Setting
NeverShownUnconfirmed == Promise!Spec

(* When nothing of a robot is on its way and no change of it was missed,   *)
(* the bus shows its value, in whatever order requests, responses and      *)
(* refreshes were interleaved.                                             *)
Quiet(r) == ~Refreshing(r) /\ Answered(r)
FollowsRobot == \A r \in Robots : Quiet(r) /\ r \notin missed => shown[r] = value[r]
=============================================================================
