-------------------------------- MODULE Device --------------------------------
(***************************************************************************)
(* A device (deebot_client/device.py): the worker that checks whether the  *)
(* robot still answers, the commands that run under a semaphore, the       *)
(* messages that arrive, initialize and teardown.                          *)
(*                                                                         *)
(* A job is one _execute_command: of the availability check, requested by  *)
(* a message, or of anybody else.  The commands a command requests itself  *)
(* are executed inside it and are part of the time the job runs.  The      *)
(* robot is alive while it and the service that relays to it answer.       *)
(***************************************************************************)
EXTENDS Naturals, FiniteSets

CONSTANTS
  Jobs,         \* identities of commands in execution
  Worker,       \* _available_task
  Slots,        \* the semaphore: 3 in the code
  Interval,     \* _AVAILABLE_CHECK_INTERVAL, in ticks
  CheckSize,    \* how many refresh commands AvailabilityEvent has
  Overlapping   \* whether initialize and teardown may overlap

ASSUME WorkerAssumption == Worker \notin Jobs
ASSUME SizeAssumption   == /\ Slots \in Nat \ {0}
                           /\ Interval \in Nat \ {0}
                           /\ CheckSize \in Nat
ASSUME OverlapAssumption == Overlapping \in BOOLEAN

Tasks == Jobs \cup {Worker}

VARIABLES
  alive,        \* environment: the robot answers
  available,    \* the last AvailabilityEvent
  age,          \* ticks since _last_time_available, up to Interval
  worker,       \* "none", "sleeping" or "checking"
  nap,          \* ticks the worker still sleeps
  job,          \* per job: "none", "waiting", "running", "reached", "failed"
  source,       \* per job: "check", "message" or "other"
  owned,        \* _running_tasks
  subscribed,   \* _unsubscribe is set
  initializing, \* initialize awaits client.subscribe
  tearing,      \* teardown is in progress
  stopping,     \* the task teardown has cancelled and awaits, if any
  todo          \* the tasks teardown has still to cancel

jobVars      == <<job, source>>
workerVars   == <<worker, nap>>
contactVars  == <<available, age>>
teardownVars == <<tearing, stopping, todo>>
vars == <<alive, contactVars, workerVars, jobVars, owned, subscribed,
          initializing, teardownVars>>

TypeOK ==
  /\ alive \in BOOLEAN
  /\ available \in {"unknown", "available", "unavailable"}
  /\ age \in 0 .. Interval
  /\ worker \in {"none", "sleeping", "checking"}
  /\ nap \in 0 .. Interval
  /\ job \in [Jobs -> {"none", "waiting", "running", "reached", "failed"}]
  /\ source \in [Jobs -> {"check", "message", "other"}]
  /\ owned \subseteq Tasks
  /\ subscribed \in BOOLEAN
  /\ initializing \in BOOLEAN
  /\ tearing \in BOOLEAN
  /\ stopping \subseteq Tasks
  /\ todo \subseteq Tasks

Init ==
  /\ alive \in BOOLEAN
  /\ available = "unknown"
  /\ age = 0
  /\ worker = "none"
  /\ nap = 0
  /\ job = [j \in Jobs |-> "none"]
  /\ source = [j \in Jobs |-> "other"]
  /\ owned = {}
  /\ subscribed = FALSE
  /\ initializing = FALSE
  /\ tearing = FALSE
  /\ stopping = {}
  /\ todo = {}

-----------------------------------------------------------------------------
(* Helpers                                                                 *)

Running == {j \in Jobs : job[j] = "running"}
CheckJobs == {j \in Jobs : source[j] = "check" /\ job[j] # "none"}

(* A cancelled task takes no further step; the worker's checks, which it   *)
(* awaits in a gather, are cancelled with it.                              *)
Goes(j) == /\ j \notin stopping
           /\ source[j] = "check" => Worker \notin stopping

(* _set_available                                                          *)
SetAvailable(yes) ==
  /\ available' = IF yes THEN "available" ELSE "unavailable"
  /\ age' = IF yes THEN 0 ELSE age

(* Jobs J, idle so far, are handed to the event loop.                      *)
Create(J, from) ==
  /\ J \subseteq {j \in Jobs : job[j] = "none"}
  /\ job' = [j \in Jobs |-> IF j \in J THEN "waiting" ELSE job[j]]
  /\ source' = [j \in Jobs |-> IF j \in J THEN from ELSE source[j]]

(* Bound: others leave the identities the next check needs.                *)
Spare == \/ worker = "checking"
         \/ Cardinality({j \in Jobs : job[j] = "none"}) > CheckSize

DropChecks == job' = [j \in Jobs |-> IF j \in CheckJobs THEN "none" ELSE job[j]]

-----------------------------------------------------------------------------
(* initialize                                                              *)

(* The worker is created unless it is running.                             *)
StartWorker ==
  IF worker = "none"
    THEN /\ worker' = "sleeping" /\ nap' = 0
         /\ owned' = owned \cup {Worker}
    ELSE UNCHANGED <<workerVars, owned>>

(* initialize up to its await, or as a whole when it is subscribed.        *)
BeginInitialize ==
  /\ ~initializing /\ (tearing => Overlapping)
  /\ IF subscribed
       THEN StartWorker /\ UNCHANGED initializing
       ELSE initializing' = TRUE /\ UNCHANGED <<workerVars, owned>>
  /\ UNCHANGED <<alive, contactVars, jobVars, subscribed, teardownVars>>

EndInitialize ==
  /\ initializing
  /\ initializing' = FALSE
  /\ subscribed' = TRUE
  /\ StartWorker
  /\ UNCHANGED <<alive, contactVars, jobVars, teardownVars>>

(* client.subscribe raises: no credentials.                                *)
SubscribeFails ==
  /\ initializing
  /\ initializing' = FALSE
  /\ UNCHANGED <<alive, contactVars, workerVars, jobVars, owned, subscribed,
                 teardownVars>>

-----------------------------------------------------------------------------
(* teardown                                                                *)

(* The tasks in T are left: one is cancelled and awaited, or, after the    *)
(* last, _running_tasks is cleared, whatever was added to it meanwhile.    *)
StopOneOf(T) ==
  IF T = {}
    THEN /\ tearing' = FALSE /\ stopping' = {} /\ todo' = {}
         /\ owned' = {}
    ELSE /\ tearing' = TRUE
         /\ \E t \in T : stopping' = {t} /\ todo' = T \ {t}
         /\ UNCHANGED owned

(* Seeded fault of BeginTeardown: _unsubscribe is not reset.               *)
BeginTeardownOfTasks ==
  /\ ~tearing /\ (initializing => Overlapping)
  /\ StopOneOf(owned)
  /\ UNCHANGED <<alive, contactVars, workerVars, jobVars, subscribed, initializing>>

(* teardown up to its first await, or as a whole when nothing runs.        *)
BeginTeardown ==
  /\ ~tearing /\ (initializing => Overlapping)
  /\ subscribed' = FALSE
  /\ StopOneOf(owned)
  /\ UNCHANGED <<alive, contactVars, workerVars, jobVars, initializing>>

(* Seeded fault of EndTask: the worker leaves the checks it has started.   *)
EndTaskAlone(t) ==
  /\ t \in stopping
  /\ stopping' = {}
  /\ owned' = owned \ {t}
  /\ IF t = Worker
       THEN worker' = "none" /\ UNCHANGED job
       ELSE job' = [job EXCEPT ![t] = "none"] /\ UNCHANGED worker
  /\ UNCHANGED <<alive, contactVars, nap, source, subscribed, initializing,
                 tearing, todo>>

(* The cancelled task ends.                                                *)
EndTask(t) ==
  /\ t \in stopping
  /\ stopping' = {}
  /\ owned' = owned \ {t}
  /\ IF t = Worker
       THEN worker' = "none" /\ DropChecks
       ELSE job' = [job EXCEPT ![t] = "none"] /\ UNCHANGED worker
  /\ UNCHANGED <<alive, contactVars, nap, source, subscribed, initializing,
                 tearing, todo>>

(* teardown goes on, past the tasks that are done already.                 *)
ContinueTeardown ==
  /\ tearing /\ stopping = {}
  /\ StopOneOf(todo)
  /\ UNCHANGED <<alive, contactVars, workerVars, jobVars, subscribed, initializing>>

-----------------------------------------------------------------------------
(* The availability worker                                                 *)

(* Seeded faults of Wake: the check is made while the last contact is      *)
(* fresh, and the check is not made while the device is unavailable.       *)
WakeIf(needed) ==
  /\ worker = "sleeping" /\ nap = 0 /\ Worker \notin stopping
  /\ IF needed
       THEN /\ \E J \in SUBSET Jobs : Cardinality(J) = CheckSize /\ Create(J, "check")
            /\ worker' = "checking"
            /\ UNCHANGED nap
       ELSE /\ nap' = Interval
            /\ UNCHANGED <<worker, jobVars>>
  /\ UNCHANGED <<alive, contactVars, owned, subscribed, initializing, teardownVars>>
WakeInverted == WakeIf(age < Interval)
WakeWhileAvailable == WakeIf(age > Interval - 1 /\ available # "unavailable")

(* The sleep is over: the last contact is recent enough, or the check's    *)
(* commands are created.                                                   *)
Wake ==
  /\ worker = "sleeping" /\ nap = 0 /\ Worker \notin stopping
  /\ IF age > Interval - 1
       THEN /\ \E J \in SUBSET Jobs : Cardinality(J) = CheckSize /\ Create(J, "check")
            /\ worker' = "checking"
            /\ UNCHANGED nap
       ELSE /\ nap' = Interval
            /\ UNCHANGED <<worker, jobVars>>
  /\ UNCHANGED <<alive, contactVars, owned, subscribed, initializing, teardownVars>>

(* All results are there.  Command.execute raises nothing but cancellation *)
(* (command.py:75-99), so the except around the check has nothing to do.   *)
EndCheck ==
  /\ worker = "checking" /\ Worker \notin stopping
  /\ \A j \in CheckJobs : job[j] \in {"reached", "failed"}
  /\ SetAvailable(\A j \in CheckJobs : job[j] = "reached")
  /\ DropChecks
  /\ worker' = "sleeping"
  /\ nap' = Interval
  /\ UNCHANGED <<alive, source, owned, subscribed, initializing, teardownVars>>

-----------------------------------------------------------------------------
(* Commands and messages                                                   *)

(* execute_command, by the user or a refresh.                              *)
Execute ==
  /\ Spare
  /\ \E j \in Jobs : Create({j}, "other")
  /\ UNCHANGED <<alive, contactVars, workerVars, owned, subscribed, initializing,
                 teardownVars>>

(* A job gets the semaphore.                                               *)
StartJob(j) ==
  /\ job[j] = "waiting" /\ Goes(j) /\ Cardinality(Running) < Slots
  /\ job' = [job EXCEPT ![j] = "running"]
  /\ UNCHANGED <<alive, contactVars, workerVars, source, owned, subscribed,
                 initializing, teardownVars>>

(* A command ends: answered, timed out or in error.  Not every command     *)
(* that is answered reaches the robot, but a check does.  The result of a  *)
(* check is kept for the worker; a job a message requested leaves          *)
(* _running_tasks.  Answering 4200, the service says the robot is offline. *)
FinishJob(j) ==
  /\ job[j] = "running" /\ Goes(j)
  /\ \E reached \in IF alive /\ source[j] # "check" THEN BOOLEAN ELSE {alive} :
       /\ job' = [job EXCEPT ![j] = IF source[j] # "check" THEN "none"
                                    ELSE IF reached THEN "reached" ELSE "failed"]
       /\ IF reached
            THEN SetAvailable(TRUE)
            ELSE UNCHANGED contactVars \/ (~alive /\ SetAvailable(FALSE))
  /\ owned' = owned \ {j}
  /\ todo' = todo \ {j}
  /\ UNCHANGED <<alive, workerVars, source, subscribed, initializing, tearing, stopping>>

(* _handle_message: the robot is there, and the message may request        *)
(* commands.  Messages go on arriving after unsubscribe, until the change  *)
(* it queued has reached the broker, and a CustomCommandEvent is handled   *)
(* as one at any time: none depends on _unsubscribe.                       *)
HandleMessage ==
  /\ alive
  /\ SetAvailable(TRUE)
  /\ \/ UNCHANGED <<jobVars, owned>>
     \/ /\ Spare
        /\ \E j \in Jobs : Create({j}, "message") /\ owned' = owned \cup {j}
  /\ UNCHANGED <<alive, workerVars, subscribed, initializing, teardownVars>>

-----------------------------------------------------------------------------
(* The environment                                                         *)

RobotChanges ==
  /\ alive' = ~alive
  /\ UNCHANGED <<contactVars, workerVars, jobVars, owned, subscribed, initializing,
                 teardownVars>>

(* One tick of time.  A sleep that is over wakes the worker before it, and *)
(* a cancelled task ends.                                                  *)
Tick ==
  /\ stopping = {}
  /\ worker = "sleeping" => nap > 0
  /\ age' = IF age < Interval THEN age + 1 ELSE age
  /\ nap' = IF worker = "sleeping" THEN nap - 1 ELSE nap
  /\ UNCHANGED <<alive, available, worker, jobVars, owned, subscribed,
                 initializing, teardownVars>>

-----------------------------------------------------------------------------
Next ==
  \/ BeginInitialize \/ EndInitialize \/ SubscribeFails
  \/ BeginTeardown \/ ContinueTeardown \/ \E t \in Tasks : EndTask(t)
  \/ Wake \/ EndCheck
  \/ Execute \/ \E j \in Jobs : StartJob(j) \/ FinishJob(j)
  \/ HandleMessage \/ RobotChanges \/ Tick

Spec == Init /\ [][Next]_vars

(* The loop runs what is ready, every request has a timeout, and           *)
(* asyncio.Semaphore serves its waiters in order, so that no job waits     *)
(* while others overtake it for ever.                                      *)
Fairness ==
  /\ WF_vars(Wake) /\ WF_vars(EndCheck) /\ WF_vars(Tick)
  /\ WF_vars(ContinueTeardown) /\ \A t \in Tasks : WF_vars(EndTask(t))
  /\ \A j \in Jobs : SF_vars(StartJob(j)) /\ WF_vars(FinishJob(j))

FairSpec == Spec /\ Fairness

-----------------------------------------------------------------------------
(* Properties                                                              *)

(* initialize and teardown undo each other: once none is in progress, the  *)
(* availability worker runs if and only if the device is subscribed, after *)
(* any number of them, of subscriptions that failed and of checks that     *)
(* were cut short.                                                         *)
InitializedIsWatched ==
  ~initializing /\ ~tearing => (subscribed <=> worker # "none")

(* The commands of a check belong to the worker: none survives it, and     *)
(* none is left over to be counted in the next check.                      *)
ChecksBelongToWorker ==
  IF worker = "checking" THEN Cardinality(CheckJobs) = CheckSize
                         ELSE CheckJobs = {}

(* teardown finds the worker among the tasks it stops.                     *)
WorkerIsOwned == worker # "none" => Worker \in owned

(* teardown documents "Tear down bot including stopping task and           *)
(* unsubscribing.": every task the device has started is in                *)
(* _running_tasks, where this or the next teardown finds it.               *)
NoForgottenTask ==
  /\ WorkerIsOwned
  /\ \A j \in Jobs : source[j] = "message" /\ job[j] # "none" => j \in owned

(* A robot that stays unreachable is reported unavailable in the end, and  *)
(* no late answer or result of an old check changes that.                  *)
SilenceIsReported ==
  <>[](~alive /\ worker # "none") => <>[](available = "unavailable")

(* A robot that stays reachable is reported available in the end, though   *)
(* it was found unreachable before and nobody sends it a command.          *)
ReturnIsReported ==
  <>[](alive /\ worker # "none") => <>[](available = "available")
=============================================================================
