------------------------- MODULE Authenticator_proofs -------------------------
(***************************************************************************)
(* Proofs about Authenticator, for every set of callers and callbacks,     *)
(* every validity and every bound.                                         *)
(***************************************************************************)
EXTENDS Authenticator, QueueFacts

USE ActorAssumption, ValidityAssumption, TasksAssumption, TokenAssumption
    DEF Actors, RefreshAfter, credentialVars, callbackVars

-----------------------------------------------------------------------------
(* The types hold at first.                                                *)
LEMMA TypeInit == Init => TypeOK
<1> SUFFICES ASSUME Init PROVE TypeOK
  OBVIOUS
<1>1. unattended \in BOOLEAN /\ quiet \in BOOLEAN
  BY Zenon DEF Init
<1>2. /\ left \in 0 .. Validity /\ timers \subseteq 0 .. RefreshAfter
      /\ subscribed \subseteq Callbacks /\ owed \subseteq Callbacks
      /\ credentials = None /\ handle = None
  BY DEF Init
<1>3. /\ pc \in [Actors -> {"idle", "waiting", "busy"}]
      /\ op \in [Actors -> {"authenticate", "verify", "refresh"}]
      /\ tasks \in [Callbacks -> Seq(Tokens)]
      /\ told \in [Callbacks -> Tokens \cup {None}]
  BY DEF Init
<1>4. QED
  BY <1>1, <1>2, <1>3 DEF TypeOK

(* Every step keeps the types.                                             *)
LEMMA TypeStep == TypeOK /\ [Next]_vars => TypeOK'
<1> SUFFICES ASSUME TypeOK, [Next]_vars PROVE TypeOK'
  OBVIOUS
<1> USE DEF TypeOK
<1>1. ASSUME NEW c \in Callers, NEW operation \in {"authenticate", "verify"},
             Call(c, operation)
      PROVE  TypeOK'
  BY <1>1 DEF Call
<1>2. ASSUME NEW c \in Callers, Cancel(c) PROVE TypeOK'
  BY <1>2 DEF Cancel
<1>3. ASSUME NEW a \in Actors, Enter(a) PROVE TypeOK'
  BY <1>3 DEF Enter
<1>4. ASSUME NEW a \in Actors, Succeed(a) PROVE TypeOK'
  <2>1. PICK k \in Tokens : SetCredentials(k)
    BY <1>4 DEF Succeed
  <2>2. tasks' \in [Callbacks -> Seq(Tokens)]
    BY <2>1 DEF SetCredentials
  <2>3. /\ credentials' \in Tokens /\ left' \in 0 .. Validity
        /\ timers' \subseteq 0 .. RefreshAfter /\ handle' \in 0 .. RefreshAfter
        /\ owed' \subseteq Callbacks
    BY <2>1 DEF SetCredentials
  <2>4. unattended' \in BOOLEAN
    BY <2>1, Zenon DEF SetCredentials
  <2>5. QED
    BY <1>4, <2>2, <2>3, <2>4 DEF Succeed
<1>5. ASSUME NEW a \in Actors, Fail(a) PROVE TypeOK'
  BY <1>5 DEF Fail
<1>6. ASSUME NEW b \in Callbacks, Subscribe(b) \/ Unsubscribe(b) PROVE TypeOK'
  BY <1>6 DEF Subscribe, Unsubscribe
<1>7. ASSUME NEW b \in Callbacks, RunCallback(b) PROVE TypeOK'
  <2>1. /\ Head(tasks[b]) \in Tokens
        /\ Tail(tasks[b]) \in Seq(Tokens)
    BY <1>7 DEF RunCallback
  <2>2. QED
    BY <1>7, <2>1 DEF RunCallback
<1>8. CASE Teardown
  BY <1>8 DEF Teardown
<1>9. CASE TimerFires
  BY <1>9 DEF TimerFires
<1>10. CASE Tick
  <2>1. timers' \subseteq 0 .. RefreshAfter
    BY <1>10 DEF Tick
  <2>2. handle' \in (0 .. RefreshAfter) \cup {None}
    BY <1>10 DEF Tick
  <2>3. QED
    BY <1>10, <2>1, <2>2 DEF Tick
<1>11. CASE UNCHANGED vars
  BY <1>11 DEF vars
<1>12. QED
  BY <1>1, <1>2, <1>3, <1>4, <1>5, <1>6, <1>7, <1>8, <1>9, <1>10, <1>11 DEF Next

(* The authenticator is type correct.                                      *)
THEOREM TypeCorrect == Spec => []TypeOK
BY TypeInit, TypeStep, PTL DEF Spec

-----------------------------------------------------------------------------
(* The lock: one login at a time, and authenticate() logs in only while    *)
(* there are no valid credentials, because nobody else can bring new ones. *)
LockInv ==
  /\ \A a, b \in Actors : pc[a] = "busy" /\ pc[b] = "busy" => a = b
  /\ \A c \in Callers : pc[c] = "busy" /\ op[c] = "authenticate" => ~Valid

(* Every step keeps LockInv.                                               *)
LEMMA LockStep == TypeOK /\ LockInv /\ [Next]_vars => LockInv'
<1> SUFFICES ASSUME TypeOK, LockInv, [Next]_vars PROVE LockInv'
  OBVIOUS
<1> USE DEF TypeOK, LockInv, Valid
<1>1. ASSUME NEW c \in Callers, NEW operation \in {"authenticate", "verify"},
             Call(c, operation)
      PROVE  LockInv'
  BY <1>1 DEF Call
<1>2. ASSUME NEW c \in Callers, Cancel(c) PROVE LockInv'
  BY <1>2 DEF Cancel
<1>3. ASSUME NEW a \in Actors, Enter(a) PROVE LockInv'
  BY <1>3 DEF Enter, LockFree
<1>4. ASSUME NEW a \in Actors, Succeed(a) PROVE LockInv'
  BY <1>4 DEF Succeed
<1>5. ASSUME NEW a \in Actors, Fail(a) PROVE LockInv'
  BY <1>5 DEF Fail
<1>6. ASSUME NEW b \in Callbacks,
             Subscribe(b) \/ Unsubscribe(b) \/ RunCallback(b)
      PROVE  LockInv'
  BY <1>6 DEF Subscribe, Unsubscribe, RunCallback
<1>7. CASE Teardown
  BY <1>7 DEF Teardown
<1>8. CASE TimerFires
  BY <1>8 DEF TimerFires
<1>9. CASE Tick
  BY <1>9 DEF Tick
<1>10. CASE UNCHANGED vars
  BY <1>10 DEF vars
<1>11. QED
  BY <1>1, <1>2, <1>3, <1>4, <1>5, <1>6, <1>7, <1>8, <1>9, <1>10 DEF Next

(* Callers that waited for somebody's login do not log in again: a call of *)
(* authenticate() replaces only credentials that are missing or expired.   *)
THEOREM ReplacesExpired == Spec => LoginReplacesExpired
<1>1. Init => TypeOK /\ LockInv
  BY TypeInit DEF Init, LockInv
<1>2. LockInv =>
        \A c \in Callers : pc[c] = "busy" /\ op[c] = "authenticate" => ~Valid
  BY DEF LockInv
<1>3. LockInv /\ [Next]_vars =>
        [\A c \in Callers :
           pc[c] = "busy" /\ op[c] = "authenticate" /\ pc'[c] = "idle"
           /\ credentials' # credentials => ~Valid]_vars
  BY <1>2
<1>4. QED
  BY <1>1, <1>3, TypeStep, LockStep, PTL DEF Spec, LoginReplacesExpired

-----------------------------------------------------------------------------
(* The refresh timer.  KeptFresh needs to know that the pending timer is   *)
(* the one the handle refers to, and that async_refresh always forces a    *)
(* login; TeardownIsFinal needs that nobody is calling.                    *)
TimerInv ==
  /\ NoStrayTimer
  /\ KeptFresh
  /\ op[Refresher] = "refresh"
  /\ quiet => timers = {} /\ \A a \in Actors : pc[a] = "idle"

(* Every step keeps TimerInv.                                              *)
LEMMA TimerStep == TypeOK /\ TimerInv /\ [Next]_vars => TimerInv'
<1> SUFFICES ASSUME TypeOK, TimerInv, [Next]_vars PROVE TimerInv'
  OBVIOUS
<1> USE DEF TypeOK, TimerInv, NoStrayTimer, KeptFresh
<1>1. ASSUME NEW c \in Callers, NEW operation \in {"authenticate", "verify"},
             Call(c, operation)
      PROVE  TimerInv'
  BY <1>1 DEF Call
<1>2. ASSUME NEW c \in Callers, Cancel(c) PROVE TimerInv'
  BY <1>2 DEF Cancel
<1>3. ASSUME NEW a \in Actors, Enter(a) PROVE TimerInv'
  BY <1>3 DEF Enter
<1>4. ASSUME NEW a \in Actors, Succeed(a) PROVE TimerInv'
  <2>1. /\ timers' = {RefreshAfter} /\ handle' = RefreshAfter
        /\ left' = Validity /\ ~quiet /\ ~quiet'
    BY <1>4 DEF Succeed, SetCredentials
  <2>2. op'[Refresher] = "refresh"
    BY <1>4 DEF Succeed
  <2>3. QED
    BY <2>1, <2>2
<1>5. ASSUME NEW a \in Actors, Fail(a) PROVE TimerInv'
  BY <1>5 DEF Fail
<1>6. ASSUME NEW b \in Callbacks,
             Subscribe(b) \/ Unsubscribe(b) \/ RunCallback(b)
      PROVE  TimerInv'
  <2>1. UNCHANGED <<pc, op, credentials, left, timers, handle, unattended, quiet>>
    BY <1>6 DEF Subscribe, Unsubscribe, RunCallback
  <2>2. QED
    BY <2>1
<1>7. CASE Teardown
  <2>1. timers' = {}
    BY <1>7 DEF Teardown
  <2>2. QED
    BY <1>7, <2>1 DEF Teardown
<1>8. CASE TimerFires
  <2>1. timers' = {} /\ ~quiet
    BY <1>8 DEF TimerFires
  <2>2. QED
    BY <1>8, <2>1 DEF TimerFires
<1>9. CASE Tick
  <2>1. NoStrayTimer'
    BY <1>9 DEF Tick
  <2>2. ASSUME credentials' # None, ~unattended'
        PROVE  left' > 0 /\ \E d \in timers' : d < left'
    <3>1. PICK d \in timers : d < left
      BY <1>9, <2>2 DEF Tick
    <3>2. d \in Nat \ {0} /\ d - 1 \in timers' /\ left' = left - 1
      BY <1>9, <3>1 DEF Tick
    <3>3. QED
      BY <3>1, <3>2
  <2>3. quiet' => timers' = {} /\ \A a \in Actors : pc'[a] = "idle"
    BY <1>9 DEF Tick
  <2>4. QED
    BY <1>9, <2>1, <2>2, <2>3 DEF Tick
<1>10. CASE UNCHANGED vars
  BY <1>10 DEF vars
<1>11. QED
  BY <1>1, <1>2, <1>3, <1>4, <1>5, <1>6, <1>7, <1>8, <1>9, <1>10 DEF Next

(* TimerInv always holds.                                                  *)
LEMMA TimerAlways == Spec => []TimerInv
<1>1. Init => TypeOK /\ TimerInv
  BY TypeInit DEF Init, TimerInv, NoStrayTimer, KeptFresh
<1>2. QED
  BY <1>1, TypeStep, TimerStep, PTL DEF Spec

(* No refresh is ever pending that _refresh_handle does not refer to.      *)
THEOREM OneTimer == Spec => []NoStrayTimer
<1>1. TimerInv => NoStrayTimer
  BY DEF TimerInv
<1>2. QED
  BY <1>1, TimerAlways, PTL

(* Credentials whose refresh neither failed nor was torn down never expire.*)
THEOREM Fresh == Spec => []KeptFresh
<1>1. TimerInv => KeptFresh
  BY DEF TimerInv
<1>2. QED
  BY <1>1, TimerAlways, PTL

(* Nothing logs in again after a teardown that nobody overlaps.            *)
THEOREM Final == Spec => []TeardownIsFinal
<1>1. TimerInv => TeardownIsFinal
  BY DEF TimerInv, TeardownIsFinal
<1>2. QED
  BY <1>1, TimerAlways, PTL

-----------------------------------------------------------------------------
(* Every step keeps CallbacksInformed.                                     *)
LEMMA InformedStep ==
  TypeOK /\ CallbacksInformed /\ [Next]_vars => CallbacksInformed'
<1> SUFFICES ASSUME TypeOK, CallbacksInformed, [Next]_vars
             PROVE  CallbacksInformed'
  OBVIOUS
<1>1. ASSUME UNCHANGED <<credentials, tasks, told>>, owed' \subseteq owed
      PROVE  CallbacksInformed'
  BY <1>1 DEF CallbacksInformed
<1>2. ASSUME NEW c \in Callers, NEW operation \in {"authenticate", "verify"},
             Call(c, operation) \/ Cancel(c)
      PROVE  CallbacksInformed'
  BY <1>1, <1>2 DEF Call, Cancel
<1>3. ASSUME NEW a \in Actors, Enter(a) \/ Fail(a) PROVE CallbacksInformed'
  BY <1>1, <1>3 DEF Enter, Fail
<1>4. ASSUME NEW a \in Actors, Succeed(a) PROVE CallbacksInformed'
  <2>1. PICK k \in Tokens : SetCredentials(k)
    BY <1>4 DEF Succeed
  <2>2. ASSUME NEW b \in subscribed
        PROVE  tasks'[b] # <<>> /\ tasks'[b][Len(tasks'[b])] = k
    <3>1. b \in Callbacks /\ tasks[b] \in Seq(Tokens)
      BY <2>2 DEF TypeOK
    <3>2. tasks'[b] = Append(tasks[b], k)
      BY <2>1, <2>2, <3>1 DEF SetCredentials
    <3>3. QED
      BY <3>1, <3>2, LastOfAppend
  <2>3. QED
    BY <2>1, <2>2 DEF SetCredentials, CallbacksInformed
<1>5. ASSUME NEW b \in Callbacks, Subscribe(b) \/ Unsubscribe(b)
      PROVE  CallbacksInformed'
  BY <1>1, <1>5 DEF Subscribe, Unsubscribe
<1>6. ASSUME NEW b \in Callbacks, RunCallback(b) PROVE CallbacksInformed'
  <2>1. tasks[b] \in Seq(Tokens) /\ tasks[b] # <<>>
    BY <1>6 DEF RunCallback, TypeOK
  <2>2. /\ tasks'[b] = Tail(tasks[b]) /\ told'[b] = Head(tasks[b])
        /\ \A d \in Callbacks \ {b} : tasks'[d] = tasks[d] /\ told'[d] = told[d]
        /\ credentials' = credentials /\ owed' = owed
    BY <1>6 DEF RunCallback, TypeOK
  <2>3. (IF tasks'[b] # <<>> THEN tasks'[b][Len(tasks'[b])] ELSE told'[b])
          = tasks[b][Len(tasks[b])]
    BY <2>1, <2>2, LastOfTail
  <2>4. owed \subseteq Callbacks
    BY DEF TypeOK
  <2>5. QED
    BY <2>1, <2>2, <2>3, <2>4 DEF CallbacksInformed
<1>7. CASE Teardown
  BY <1>7 DEF Teardown, CallbacksInformed
<1>8. CASE TimerFires \/ Tick
  BY <1>1, <1>8 DEF TimerFires, Tick
<1>9. CASE UNCHANGED vars
  BY <1>1, <1>9 DEF vars
<1>10. QED
  BY <1>2, <1>3, <1>4, <1>5, <1>6, <1>7, <1>8, <1>9 DEF Next

(* A subscribed callback has been or will be told of the credentials in    *)
(* force, whichever way they were obtained.                                *)
THEOREM Informed == Spec => []CallbacksInformed
<1>1. Init => TypeOK /\ CallbacksInformed
  BY TypeInit DEF Init, CallbacksInformed
<1>2. QED
  BY <1>1, TypeStep, InformedStep, PTL DEF Spec
=============================================================================
