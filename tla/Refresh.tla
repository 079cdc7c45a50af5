------------------------------- MODULE Refresh ------------------------------
(***************************************************************************)
(* What a model's table, the commands and their handlers do together when  *)
(* the bus asks for an event: the commands of the table wait for a slot of *)
(* the device (Device._execute_command), are executed, and those that      *)
(* their handlers request are executed inside them (Command.execute).  The *)
(* robot answers in any order, may not answer, may refuse, and may send    *)
(* what a handler cannot use.                                              *)
(*                                                                         *)
(* A job is what is going on: the refresh of an event, the execution of a  *)
(* command for the user, the handling of a message of the robot, or of its *)
(* response to a set command of somebody else.                             *)
(***************************************************************************)
EXTENDS Protocols

CONSTANTS Jobs,         \* the jobs that occur, as module MCJobs makes them
          Slots         \* commands a device executes at once, 3 in the code

VARIABLES job,          \* the job
          arriving,     \* TRUE until its message or response has been handled
          waiting,      \* commands that wait for a slot
          holders,      \* commands that hold one
          pending,      \* <<h, c>>: c is being executed, inside or as holder h
          reached,      \* the holders whose own answer was a success
          failed,       \* TRUE if something did not end in success, or
                        \* left out what was asked for
          notified      \* the events notified since the job began; what was
                        \* is of no interest once something failed

vars == <<job, arriving, waiting, holders, pending, reached, failed, notified>>

Done == ~arriving /\ waiting = {} /\ holders = {}

Init ==
  /\ job \in Jobs
  /\ arriving = (job.message # <<>> \/ job.set # "")
  /\ waiting = job.queue
  /\ holders = {} /\ pending = {}
  /\ reached = {} /\ notified = {} /\ failed = FALSE

Notify(events) == notified' = IF failed' THEN {} ELSE notified \cup events

(* Device._handle_message: the robot is there; what the message requests   *)
(* is executed by a task of its own, each command in a slot.               *)
HandleMessage ==
  /\ arriving /\ job.message # <<>>
  /\ arriving' = FALSE
  /\ \E o \in Handle(job.device, job.message) :
       /\ waiting' = Requested(o)
       /\ failed' = ~Complete(o)
       /\ Notify(o.events \cup {"AvailabilityEvent"})
  /\ UNCHANGED <<job, holders, pending, reached>>

(* MqttClient._handle_p2p: a response to a set command that can be         *)
(* followed is handled, any other is only logged.                          *)
HandleP2P ==
  /\ arriving /\ job.set # ""
  /\ arriving' = FALSE
  /\ \/ /\ FollowsP2P(job.device, job.set)
        /\ \E o \in HandleMqttP2P(job.device, job.set) :
             failed' = ~Complete(o) /\ Notify(o.events)
     \/ /\ ~FollowsP2P(job.device, job.set)
        /\ UNCHANGED <<failed, notified>>
  /\ UNCHANGED <<job, waiting, holders, pending, reached>>

(* Device._execute_command enters the semaphore                            *)
Enter(c) ==
  /\ c \in waiting
  /\ Cardinality(holders) < Slots
  /\ waiting' = waiting \ {c}
  /\ holders' = holders \cup {c}
  /\ pending' = pending \cup {<<c, c>>}
  /\ UNCHANGED <<job, arriving, reached, notified, failed>>

(* Command.execute: a command is answered, handled, and what its handler   *)
(* requested is executed before it returns.                                *)
(* A fault: what a handler requests is forgotten.                          *)
ForgetRequested(h, o)  == {}
ExecuteRequested(h, o) == {<<h, c>> : c \in Requested(o)}

(* A fault: what is requested waits for a slot of its own while its        *)
(* requester keeps its slot until all of it is done.                       *)
AnswerThroughSlots(h, c) ==
  LET isWait == Head(c) = "requested"
  IN  /\ <<h, c>> \in pending
      /\ isWait => c[2] \cap (waiting \cup holders) = {}
      /\ \E o \in IF isWait THEN {Success({})} ELSE Execute(job.device, c) :
           /\ waiting' = waiting \cup Requested(o)
           /\ pending' = (pending \ {<<h, c>>})
                \cup {<<h, <<"requested", R>>>> : R \in {Requested(o)} \ {{}}}
           /\ failed' = (failed \/ ~Complete(o))
           /\ Notify(o.events)
           /\ reached' = reached \cup {x \in {h} : x = c /\ DeviceReached(o, TargetsBot(c))}
      /\ UNCHANGED <<job, arriving, holders>>

Answer(h, c) ==
  /\ <<h, c>> \in pending
  /\ \E o \in Execute(job.device, c) :
       /\ pending' = (pending \ {<<h, c>>}) \cup ExecuteRequested(h, o)
       /\ failed' = (failed \/ ~Complete(o))
       /\ Notify(o.events)
       /\ reached' = reached \cup {x \in {h} : x = c /\ DeviceReached(o, TargetsBot(c))}
  /\ UNCHANGED <<job, arriving, waiting, holders>>

(* Device._execute_command leaves the semaphore                            *)
Leave(h) ==
  /\ h \in holders
  /\ \A p \in pending : p[1] # h
  /\ holders' = holders \ {h}
  /\ UNCHANGED <<job, arriving, waiting, pending, reached, failed>>
  /\ Notify({e \in {"AvailabilityEvent"} : h \in reached})

Step == \/ HandleMessage \/ HandleP2P
        \/ \E c \in waiting : Enter(c)
        \/ \E p \in pending : Answer(p[1], p[2])
        \/ \E h \in holders : Leave(h)
(* Then the device has nothing to do until the next job.                   *)
Idle == Done /\ UNCHANGED vars
Next == Step \/ Idle

Spec == Init /\ [][Next]_vars

-----------------------------------------------------------------------------
(* What no answer brings, whatever the robot says: consumables the table   *)
(* offers but does not ask for; the trace of old models, whose command is  *)
(* only acknowledged; their rooms, whose subsets have no name; and the     *)
(* state of a robot that rests off its dock where the table reads it with  *)
(* getWorkState.                                                           *)
NeverReported(j) ==
  j.device.unasked
    \cup {e \in {"MapTraceEvent"} : <<"GetTrM">> \in j.queue}
    \cup {e \in {"RoomsEvent"} : <<"GetMapSt">> \in j.queue}
    \cup {e \in {"StateEvent"} : <<"getWorkState">> \in j.queue}

(* Rooms are reported at once, or one by one and then by the map; a map    *)
(* without rooms has none to report.                                       *)
Serves(events, e) ==
  \/ e \in events
  \/ e = "RoomsEvent" /\ {"RoomSubsetEvent", "EmptyRoomSetEvent"} \cap events # {}
Served(e) == Serves(notified, e)

(* Whoever waits for an event gets it when every command of the table and  *)
(* every command requested on the way was answered with success and in     *)
(* full, and a setting that somebody else changed is notified when the     *)
(* robot confirms it: tables, commands and handlers agree, for every       *)
(* supported model.                                                        *)
ServedWhenAnswered ==
  Done /\ ~failed => \A e \in job.expects \ NeverReported(job) : Served(e)

(* What that asks of the tables, the commands and the handlers alone: of a *)
(* job one command, message or response brings the event whatever the      *)
(* robot says, if it says it with success and in full; at once, or by a    *)
(* command that is requested, or by one that this command requests.  Any   *)
(* command that the robot answers says that it is there.                   *)
BringsAtOnce(d, c, e) ==
  \A o \in Execute(d, c) : Complete(o) => Serves(o.events, e)
BringsNext(d, c, e) ==
  \A o \in Execute(d, c) :
    Complete(o) => Serves(o.events, e) \/ \E r \in Requested(o) : BringsAtOnce(d, r, e)
Brings(d, c, e) ==
  \A o \in Execute(d, c) :
    Complete(o) => Serves(o.events, e) \/ \E r \in Requested(o) : BringsNext(d, r, e)

QueueBrings(j, e) ==
  \E c \in j.queue : Brings(j.device, c, e) \/ (e = "AvailabilityEvent" /\ TargetsBot(c))
MessageBrings(j, e) ==
  \A o \in Handle(j.device, j.message) :
    Complete(o) => \/ Serves(o.events \cup {"AvailabilityEvent"}, e)
                   \/ \E c \in Requested(o) : Brings(j.device, c, e)
ResponseBrings(j, e) ==
  /\ FollowsP2P(j.device, j.set)
  /\ \A o \in HandleMqttP2P(j.device, j.set) : Complete(o) => Serves(o.events, e)

JobBrings(j, e) ==
  /\ j.message = <<>> /\ j.set = "" => QueueBrings(j, e)
  /\ j.message # <<>> => MessageBrings(j, e)
  /\ j.set # "" => ResponseBrings(j, e)
TablesBring == \A j \in Jobs : \A e \in j.expects \ NeverReported(j) : JobBrings(j, e)

(* Until a job is done something of it can go on: commands that are        *)
(* executed inside others need no slot, so nobody waits for a slot that    *)
(* its own requests hold.                                                  *)
NeverStuck == Done \/ ENABLED Step
=============================================================================
