---------------------------- MODULE Device_proofs ----------------------------
(***************************************************************************)
(* Theorems about Device, for every number of jobs and slots and every     *)
(* interval.                                                               *)
(***************************************************************************)
EXTENDS Device, TLAPS

USE WorkerAssumption, SizeAssumption
    DEF Tasks, contactVars, workerVars, jobVars, teardownVars

(* Every variable of the device keeps its type; in particular the nap of   *)
(* the worker never goes below zero, because a sleep that is over is ended *)
(* before time goes on.                                                    *)
THEOREM TypeCorrect == Spec => []TypeOK
<1>1. Init => TypeOK
  <2> SUFFICES ASSUME Init PROVE TypeOK
    OBVIOUS
  <2>1. 0 \in 0 .. Interval
    OBVIOUS
  <2>2. alive \in BOOLEAN /\ subscribed \in BOOLEAN /\ initializing \in BOOLEAN /\ tearing \in BOOLEAN
    BY DEF Init
  <2>3. job \in [Jobs -> {"none", "waiting", "running", "reached", "failed"}]
    BY DEF Init
  <2>4. source \in [Jobs -> {"check", "message", "other"}]
    BY DEF Init
  <2> QED
    BY <2>1, <2>2, <2>3, <2>4 DEF Init, TypeOK
<1>2. TypeOK /\ [Next]_vars => TypeOK'
  <2> SUFFICES ASSUME TypeOK, [Next]_vars PROVE TypeOK'
    OBVIOUS
  <2> USE DEF TypeOK
  <2>0. ASSUME StartWorker
        PROVE  /\ worker' \in {"none", "sleeping", "checking"}
               /\ nap' \in 0 .. Interval
               /\ owned' \subseteq Tasks
    BY <2>0 DEF StartWorker
  <2>1. CASE BeginInitialize
    BY <2>0, <2>1 DEF BeginInitialize
  <2>2. CASE EndInitialize
    BY <2>0, <2>2 DEF EndInitialize
  <2>3. CASE SubscribeFails
    BY <2>3 DEF SubscribeFails
  <2>4. CASE BeginTeardown
    BY <2>4 DEF BeginTeardown, StopOneOf
  <2>5. CASE ContinueTeardown
    BY <2>5 DEF ContinueTeardown, StopOneOf
  <2>6. ASSUME NEW t \in Tasks, EndTask(t) PROVE TypeOK'
    BY <2>6 DEF EndTask, DropChecks
  <2>7. CASE Wake
    BY <2>7 DEF Wake, Create
  <2>8. CASE EndCheck
    BY <2>8 DEF EndCheck, SetAvailable, DropChecks
  <2>9. CASE Execute
    BY <2>9 DEF Execute, Create
  <2>10. ASSUME NEW j \in Jobs, StartJob(j) PROVE TypeOK'
    BY <2>10 DEF StartJob
  <2>11. ASSUME NEW j \in Jobs, FinishJob(j) PROVE TypeOK'
    BY <2>11 DEF FinishJob, SetAvailable
  <2>12. CASE HandleMessage
    BY <2>12 DEF HandleMessage, SetAvailable, Create
  <2>13. CASE RobotChanges
    BY <2>13 DEF RobotChanges
  <2>14. CASE Tick
    BY <2>14 DEF Tick
  <2>15. CASE UNCHANGED vars
    BY <2>15 DEF vars
  <2> QED
    BY <2>1, <2>2, <2>3, <2>4, <2>5, <2>6, <2>7, <2>8, <2>9, <2>10, <2>11,
       <2>12, <2>13, <2>14, <2>15 DEF Next
<1> QED
  BY <1>1, <1>2, PTL DEF Spec

(* What initialize and teardown rely on when they do not overlap: only a   *)
(* teardown in progress stops tasks, one at a time, and meets neither a    *)
(* subscription nor an initialize; the worker is among the tasks it has    *)
(* still to stop, and outside of it among those it will find.              *)
TeardownInv ==
  /\ tearing => ~subscribed /\ ~initializing
  /\ initializing => ~subscribed
  /\ ~tearing => stopping = {} /\ (subscribed <=> worker # "none")
  /\ \A s, t \in stopping : s = t
  /\ WorkerIsOwned
  /\ tearing /\ worker # "none" => Worker \in todo \cup stopping

(* Most steps leave the worker where it is.                                *)
LEMMA WorkerKept ==
  ASSUME TeardownInv,
         UNCHANGED <<subscribed, initializing, tearing, stopping>>,
         worker' = worker \/ "none" \notin {worker, worker'},
         owned \cap {Worker} \subseteq owned', todo \cap {Worker} \subseteq todo'
  PROVE  TeardownInv'
BY DEF TeardownInv, WorkerIsOwned

(* A teardown that is in no await stops one more task or is over.          *)
LEMMA StopKeeps ==
  ASSUME NEW T, StopOneOf(T), ~subscribed', ~initializing', UNCHANGED worker,
         WorkerIsOwned, worker # "none" => Worker \in T
  PROVE  TeardownInv'
<1>1. CASE T = {}
  BY <1>1 DEF StopOneOf, TeardownInv, WorkerIsOwned
<1>2. CASE T # {}
  <2>1. PICK t \in T : stopping' = {t} /\ todo' = T \ {t}
    BY <1>2 DEF StopOneOf
  <2>2. tearing' /\ owned' = owned
    BY <1>2 DEF StopOneOf
  <2> QED
    BY <2>1, <2>2 DEF TeardownInv, WorkerIsOwned
<1> QED
  BY <1>1, <1>2

LEMMA TeardownStep == ASSUME ~Overlapping, TeardownInv, [Next]_vars PROVE TeardownInv'
<1>1. CASE BeginInitialize
  BY <1>1 DEF BeginInitialize, StartWorker, TeardownInv, WorkerIsOwned
<1>2. CASE EndInitialize
  BY <1>2 DEF EndInitialize, StartWorker, TeardownInv, WorkerIsOwned
<1>3. CASE SubscribeFails
  BY <1>3 DEF SubscribeFails, TeardownInv, WorkerIsOwned
<1>4. CASE BeginTeardown
  BY <1>4, StopKeeps DEF BeginTeardown, TeardownInv, WorkerIsOwned
<1>5. CASE ContinueTeardown
  <2>1. worker # "none" => Worker \in todo
    BY <1>5 DEF ContinueTeardown, TeardownInv
  <2> QED
    BY <1>5, <2>1, StopKeeps DEF ContinueTeardown, TeardownInv
<1>6. ASSUME NEW t \in Tasks, EndTask(t) PROVE TeardownInv'
  <2>1. tearing /\ stopping = {t} /\ ~subscribed /\ ~initializing
    BY <1>6 DEF EndTask, TeardownInv
  <2>2. CASE t = Worker
    BY <1>6, <2>1, <2>2 DEF EndTask, TeardownInv, WorkerIsOwned
  <2>3. CASE t # Worker
    BY <1>6, <2>1, <2>3 DEF EndTask, TeardownInv, WorkerIsOwned
  <2> QED
    BY <2>2, <2>3
<1>7. CASE Wake
  BY <1>7, WorkerKept DEF Wake
<1>8. CASE EndCheck
  BY <1>8, WorkerKept DEF EndCheck
<1>9. CASE Execute
  BY <1>9, WorkerKept DEF Execute
<1>10. ASSUME NEW j \in Jobs, StartJob(j) \/ FinishJob(j) PROVE TeardownInv'
  BY <1>10, WorkerKept DEF StartJob, FinishJob
<1>11. CASE HandleMessage
  BY <1>11, WorkerKept DEF HandleMessage
<1>12. CASE RobotChanges \/ Tick \/ UNCHANGED vars
  BY <1>12, WorkerKept DEF RobotChanges, Tick, vars
<1> QED
  BY <1>1, <1>2, <1>3, <1>4, <1>5, <1>6, <1>7, <1>8, <1>9, <1>10, <1>11, <1>12 DEF Next

LEMMA InitTeardown == Init => TeardownInv
BY DEF Init, TeardownInv, WorkerIsOwned

(* A device is watched by its worker exactly while it is subscribed, after *)
(* any sequence of initialize and teardown of which no two overlap.        *)
THEOREM Watched == ASSUME ~Overlapping PROVE Spec => []InitializedIsWatched
<1>1. TeardownInv => InitializedIsWatched
  BY DEF TeardownInv, InitializedIsWatched
<1>2. TeardownInv /\ [Next]_vars => TeardownInv'
  BY TeardownStep
<1> QED
  BY <1>1, <1>2, InitTeardown, PTL DEF Spec

(* Of the tasks of a device, the worker at least is always found by        *)
(* teardown; those that messages create during a teardown are not.         *)
THEOREM WorkerFound == ASSUME ~Overlapping PROVE Spec => []WorkerIsOwned
<1>1. TeardownInv => WorkerIsOwned
  BY DEF TeardownInv
<1>2. TeardownInv /\ [Next]_vars => TeardownInv'
  BY TeardownStep
<1> QED
  BY <1>1, <1>2, InitTeardown, PTL DEF Spec

-----------------------------------------------------------------------------
(* The jobs teardown may cancel are those a message requested, and none of *)
(* them is cancelled twice: the checks are cancelled with their worker.    *)
OwnedInv ==
  /\ \A j \in Jobs : j \in owned \cup todo \cup stopping =>
                       job[j] # "none" /\ source[j] = "message"
  /\ stopping \cap todo = {}

CheckInv == OwnedInv /\ ChecksBelongToWorker

(* A command that is no check is created beside the checks.                *)
LEMMA CreateBeside ==
  ASSUME TypeOK, NEW J, NEW from \in {"message", "other"}, Create(J, from)
  PROVE  CheckJobs' = CheckJobs
BY DEF TypeOK, Create, CheckJobs

(* A step that leaves the worker and its checks alone keeps the invariant. *)
LEMMA ChecksKept ==
  ASSUME ChecksBelongToWorker, CheckJobs' = CheckJobs,
         worker' = worker \/ "checking" \notin {worker, worker'}
  PROVE  ChecksBelongToWorker'
BY DEF ChecksBelongToWorker

(* The worker's end and the end of a check leave no check behind.          *)
LEMMA ChecksDropped ==
  ASSUME TypeOK, DropChecks, source' = source
  PROVE  /\ CheckJobs' = {}
         /\ \A j \in Jobs : source[j] = "message" => job'[j] = job[j]
BY DEF TypeOK, DropChecks, CheckJobs

(* The commands of an availability check are exactly those the worker      *)
(* waits for: none outlives a worker that is torn down, and none is left   *)
(* over to be counted in the next check.                                   *)
THEOREM ChecksOwned == Spec => []ChecksBelongToWorker
<1>1. Init => CheckInv
  BY DEF Init, CheckInv, OwnedInv, ChecksBelongToWorker, CheckJobs
<1>2. TypeOK /\ CheckInv /\ [Next]_vars => CheckInv'
  <2> SUFFICES ASSUME TypeOK, CheckInv, [Next]_vars PROVE CheckInv'
    OBVIOUS
  <2> USE DEF CheckInv
  <2>1. CASE BeginInitialize \/ EndInitialize
    <3>1. OwnedInv'
      BY <2>1 DEF BeginInitialize, EndInitialize, StartWorker, OwnedInv, TypeOK
    <3>2. CheckJobs' = CheckJobs
      BY <2>1 DEF BeginInitialize, EndInitialize, CheckJobs
    <3>3. worker' = worker \/ "checking" \notin {worker, worker'}
      BY <2>1 DEF BeginInitialize, EndInitialize, StartWorker
    <3> QED
      BY <3>1, <3>2, <3>3, ChecksKept
  <2>2. CASE SubscribeFails
    BY <2>2 DEF SubscribeFails, OwnedInv, ChecksBelongToWorker, CheckJobs
  <2>3. CASE BeginTeardown \/ ContinueTeardown
    <3>1. OwnedInv'
      BY <2>3 DEF BeginTeardown, ContinueTeardown, StopOneOf, OwnedInv
    <3> QED
      BY <2>3, <3>1
         DEF BeginTeardown, ContinueTeardown, ChecksBelongToWorker, CheckJobs
  <2>4. ASSUME NEW t \in Tasks, EndTask(t) PROVE CheckInv'
    <3>1. CASE t = Worker
      <4>1. CheckJobs' = {} /\ \A j \in Jobs : source[j] = "message" => job'[j] = job[j]
        BY <2>4, <3>1, ChecksDropped DEF EndTask
      <4>2. OwnedInv'
        BY <2>4, <4>1 DEF EndTask, OwnedInv
      <4> QED
        BY <2>4, <3>1, <4>1, <4>2 DEF EndTask, ChecksBelongToWorker
    <3>2. CASE t # Worker
      <4>1. t \in Jobs /\ source[t] = "message"
        BY <2>4, <3>2 DEF EndTask, OwnedInv
      <4>2. CheckJobs' = CheckJobs
        BY <2>4, <3>2, <4>1 DEF EndTask, CheckJobs, TypeOK
      <4>3. OwnedInv'
        BY <2>4, <3>2, <4>1 DEF EndTask, OwnedInv, TypeOK
      <4> QED
        BY <2>4, <3>2, <4>2, <4>3, ChecksKept DEF EndTask
    <3> QED
      BY <3>1, <3>2
  <2>5. CASE Wake
    <3>1. CASE age > Interval - 1
      <4>1. PICK J \in SUBSET Jobs : Cardinality(J) = CheckSize /\ Create(J, "check")
        BY <2>5, <3>1 DEF Wake
      <4>2. CheckJobs' = J
        BY <2>5, <4>1 DEF Wake, Create, CheckJobs, ChecksBelongToWorker, TypeOK
      <4>3. OwnedInv'
        BY <2>5, <4>1 DEF Wake, Create, OwnedInv, TypeOK
      <4> QED
        BY <2>5, <3>1, <4>1, <4>2, <4>3 DEF Wake, ChecksBelongToWorker
    <3>2. CASE ~(age > Interval - 1)
      BY <2>5, <3>2 DEF Wake, OwnedInv, ChecksBelongToWorker, CheckJobs
    <3> QED
      BY <3>1, <3>2
  <2>6. CASE EndCheck
    <3>1. CheckJobs' = {} /\ \A j \in Jobs : source[j] = "message" => job'[j] = job[j]
      BY <2>6, ChecksDropped DEF EndCheck
    <3>2. OwnedInv'
      BY <2>6, <3>1 DEF EndCheck, OwnedInv
    <3> QED
      BY <2>6, <3>1, <3>2 DEF EndCheck, ChecksBelongToWorker
  <2>7. CASE Execute
    <3>1. PICK j \in Jobs : Create({j}, "other")
      BY <2>7 DEF Execute
    <3>2. OwnedInv'
      BY <2>7, <3>1 DEF Execute, Create, OwnedInv, TypeOK
    <3> QED
      BY <2>7, <3>1, <3>2, CreateBeside, ChecksKept DEF Execute
  <2>8. ASSUME NEW j \in Jobs, StartJob(j) PROVE CheckInv'
    <3>1. CheckJobs' = CheckJobs
      BY <2>8 DEF StartJob, CheckJobs, TypeOK
    <3>2. OwnedInv'
      BY <2>8 DEF StartJob, OwnedInv, TypeOK
    <3> QED
      BY <2>8, <3>1, <3>2, ChecksKept DEF StartJob
  <2>9. ASSUME NEW j \in Jobs, FinishJob(j) PROVE CheckInv'
    <3>1. CheckJobs' = CheckJobs
      BY <2>9 DEF FinishJob, CheckJobs, TypeOK
    <3>2. OwnedInv'
      BY <2>9 DEF FinishJob, Goes, OwnedInv, TypeOK
    <3> QED
      BY <2>9, <3>1, <3>2, ChecksKept DEF FinishJob
  <2>10. CASE HandleMessage
    <3>1. CASE UNCHANGED <<jobVars, owned>>
      BY <2>10, <3>1 DEF HandleMessage, OwnedInv, ChecksBelongToWorker, CheckJobs
    <3>2. ASSUME NEW j \in Jobs, Create({j}, "message"), owned' = owned \cup {j}
          PROVE  CheckInv'
      <4>1. OwnedInv'
        BY <2>10, <3>2 DEF HandleMessage, Create, OwnedInv, TypeOK
      <4> QED
        BY <2>10, <3>2, <4>1, CreateBeside, ChecksKept DEF HandleMessage
    <3> QED
      BY <2>10, <3>1, <3>2 DEF HandleMessage
  <2>11. CASE RobotChanges
    BY <2>11 DEF RobotChanges, OwnedInv, ChecksBelongToWorker, CheckJobs
  <2>12. CASE Tick
    BY <2>12 DEF Tick, OwnedInv, ChecksBelongToWorker, CheckJobs
  <2>13. CASE UNCHANGED vars
    BY <2>13 DEF vars, OwnedInv, ChecksBelongToWorker, CheckJobs
  <2> QED
    BY <2>1, <2>2, <2>3, <2>4, <2>5, <2>6, <2>7, <2>8, <2>9, <2>10, <2>11,
       <2>12, <2>13 DEF Next
<1>3. CheckInv => ChecksBelongToWorker
  BY DEF CheckInv
<1> QED
  BY <1>1, <1>2, <1>3, TypeCorrect, PTL DEF Spec
=============================================================================
