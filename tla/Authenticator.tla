---------------------------- MODULE Authenticator ----------------------------
(***************************************************************************)
(* The authenticator (class Authenticator of                               *)
(* deebot_client/authentication.py): the credentials, the lock around a    *)
(* login, the timer that refreshes the credentials before they expire and  *)
(* the callbacks that are told of new ones.                                *)
(*                                                                         *)
(* An actor is a caller (a command, the API client, the MQTT client) or    *)
(* the task async_refresh.  A login, with all its requests and retries, is *)
(* the time an actor holds the lock; it succeeds or fails.                 *)
(***************************************************************************)
EXTENDS Naturals, Sequences, FiniteSets

CONSTANTS
  Callers,    \* the calls that can be in progress at the same time
  Refresher,  \* the task async_refresh
  Callbacks,  \* what is passed to subscribe
  Tokens,     \* identities of credentials; reused once nobody refers to them
  Validity,   \* ticks until new credentials expire
  MaxTasks,   \* bound: tasks of one callback that wait to start
  None

ASSUME ActorAssumption    == Refresher \notin Callers
ASSUME ValidityAssumption == Validity \in Nat /\ Validity > 1
ASSUME TasksAssumption    == MaxTasks \in Nat \ {0}
ASSUME TokenAssumption    == None \notin Tokens \cup Nat

Actors == Callers \cup {Refresher}

(* The refresh is due at 99 % of the validity: within the last tick.       *)
RefreshAfter == Validity - 1

VARIABLES
  pc,           \* per actor: "idle", "waiting" for _lock, "busy" with a login
  op,           \* per actor: "authenticate", "verify" or "refresh"
  credentials,  \* _credentials, None at first
  left,         \* ticks until they expire
  timers,       \* the pending call_later's of refresh, by the ticks they wait
  handle,       \* _refresh_handle: one of them, or one that is over
  subscribed,   \* _on_credentials_changed
  tasks,        \* per callback: the credentials of its tasks not started yet
  told,         \* observer: the credentials a callback was last run with
  owed,         \* observer: the callbacks to be told of the credentials
  unattended,   \* observer: the refresh of the credentials failed or was ended
  quiet         \* observer: teardown was the last call and found none running

credentialVars == <<credentials, left, timers, handle>>
callbackVars   == <<subscribed, tasks, told, owed>>
vars == <<pc, op, credentialVars, callbackVars, unattended, quiet>>

TypeOK ==
  /\ pc \in [Actors -> {"idle", "waiting", "busy"}]
  /\ op \in [Actors -> {"authenticate", "verify", "refresh"}]
  /\ credentials \in Tokens \cup {None}
  /\ left \in 0 .. Validity
  /\ timers \subseteq 0 .. RefreshAfter
  /\ handle \in (0 .. RefreshAfter) \cup {None}
  /\ subscribed \subseteq Callbacks
  /\ tasks \in [Callbacks -> Seq(Tokens)]
  /\ told \in [Callbacks -> Tokens \cup {None}]
  /\ owed \subseteq Callbacks
  /\ unattended \in BOOLEAN
  /\ quiet \in BOOLEAN

Init ==
  /\ pc = [a \in Actors |-> "idle"]
  /\ op = [a \in Actors |-> IF a = Refresher THEN "refresh" ELSE "authenticate"]
  /\ credentials = None
  /\ left = 0
  /\ timers = {}
  /\ handle = None
  /\ subscribed = {}
  /\ tasks = [b \in Callbacks |-> <<>>]
  /\ told = [b \in Callbacks |-> None]
  /\ owed = {}
  /\ unattended = FALSE
  /\ quiet = FALSE

-----------------------------------------------------------------------------
(* Helpers                                                                 *)

LockFree == \A a \in Actors : pc[a] # "busy"
Valid == credentials # None /\ left > 0

(* Credentials nobody refers to.                                           *)
New(k) == /\ k # credentials
          /\ \A b \in Callbacks :
               /\ k # told[b]
               /\ \A i \in 1 .. Len(tasks[b]) : tasks[b][i] # k

(* Seeded faults of SetCredentials: the old timer is not cancelled, the    *)
(* new one is, it is set too late, or the callbacks are forgotten.         *)
SetCredentialsAnd(k, timersAfter, handleAfter, callbacks) ==
  /\ credentials' = k
  /\ left' = Validity
  /\ timers' = timersAfter
  /\ handle' = handleAfter
  /\ tasks' = [b \in Callbacks |->
                 IF b \in callbacks THEN Append(tasks[b], k) ELSE tasks[b]]
  /\ owed' = subscribed
  /\ unattended' = FALSE
SetCredentialsKeepingTimer(k) ==
  SetCredentialsAnd(k, timers \cup {RefreshAfter}, RefreshAfter, subscribed)
SetCredentialsCancellingLast(k) ==
  SetCredentialsAnd(k, timers \ {handle}, RefreshAfter, subscribed)
SetCredentialsLate(k) ==
  SetCredentialsAnd(k, {RefreshAfter + 1}, RefreshAfter + 1, subscribed)
SetCredentialsSilently(k) ==
  SetCredentialsAnd(k, (timers \ {handle}) \cup {RefreshAfter}, RefreshAfter, {})

(* _set_credentials: the pending refresh is cancelled, a new one scheduled *)
(* and a task is created for every callback.                               *)
SetCredentials(k) ==
  /\ credentials' = k
  /\ left' = Validity
  /\ timers' = (timers \ {handle}) \cup {RefreshAfter}
  /\ handle' = RefreshAfter
  /\ tasks' = [b \in Callbacks |->
                 IF b \in subscribed THEN Append(tasks[b], k) ELSE tasks[b]]
  /\ owed' = subscribed
  /\ unattended' = FALSE

-----------------------------------------------------------------------------
(* Calls                                                                   *)

(* authenticate() and verify_device(), up to the lock.                     *)
Call(c, operation) ==
  /\ pc[c] = "idle"
  /\ pc' = [pc EXCEPT ![c] = "waiting"]
  /\ op' = [op EXCEPT ![c] = operation]
  /\ quiet' = FALSE
  /\ UNCHANGED <<credentialVars, callbackVars, unattended>>

(* Seeded fault of Enter: there is no lock.                                *)
EnterUnlocked(a) ==
  /\ pc[a] = "waiting"
  /\ pc' = [pc EXCEPT ![a] = IF op[a] = "authenticate" /\ Valid THEN "idle" ELSE "busy"]
  /\ UNCHANGED <<op, credentialVars, callbackVars, unattended, quiet>>

(* An actor gets the lock.  authenticate() returns the credentials if they *)
(* are valid; otherwise, and with force, a login is started.               *)
Enter(a) ==
  /\ pc[a] = "waiting" /\ LockFree
  /\ pc' = [pc EXCEPT ![a] = IF op[a] = "authenticate" /\ Valid THEN "idle" ELSE "busy"]
  /\ UNCHANGED <<op, credentialVars, callbackVars, unattended, quiet>>

(* The login succeeds: its result is stored and the lock is released.      *)
Succeed(a) ==
  /\ pc[a] = "busy"
  /\ \A b \in subscribed : Len(tasks[b]) < MaxTasks
  /\ pc' = [pc EXCEPT ![a] = "idle"]
  /\ \E k \in Tokens : New(k) /\ SetCredentials(k)
  /\ UNCHANGED <<op, subscribed, told, quiet>>

(* Seeded fault of Fail: the login is repeated without end.               *)
FailRetrying(a) ==
  /\ pc[a] = "busy"
  /\ pc' = [pc EXCEPT ![a] = "waiting"]
  /\ UNCHANGED <<op, credentialVars, callbackVars, unattended, quiet>>

(* The login fails.  async_refresh logs the exception and ends.            *)
Fail(a) ==
  /\ pc[a] = "busy"
  /\ pc' = [pc EXCEPT ![a] = "idle"]
  /\ unattended' = (unattended \/ a = Refresher)
  /\ UNCHANGED <<op, credentialVars, callbackVars, quiet>>

(* The caller is cancelled, as the MQTT client cancels its task.           *)
Cancel(c) ==
  /\ pc[c] # "idle"
  /\ pc' = [pc EXCEPT ![c] = "idle"]
  /\ UNCHANGED <<op, credentialVars, callbackVars, unattended, quiet>>

Subscribe(b) ==
  /\ b \notin subscribed
  /\ subscribed' = subscribed \cup {b}
  /\ UNCHANGED <<pc, op, credentialVars, tasks, told, owed, unattended, quiet>>

(* The function returned by subscribe.                                     *)
Unsubscribe(b) ==
  /\ b \in subscribed
  /\ subscribed' = subscribed \ {b}
  /\ owed' = owed \ {b}
  /\ UNCHANGED <<pc, op, credentialVars, tasks, told, unattended, quiet>>

(* Seeded fault of Teardown: the timer is not cancelled.                   *)
TeardownOfTasks ==
  /\ pc' = [pc EXCEPT ![Refresher] = "idle"]
  /\ tasks' = [b \in Callbacks |-> <<>>]
  /\ owed' = {}
  /\ unattended' = TRUE
  /\ quiet' = \A c \in Callers : pc[c] = "idle"
  /\ UNCHANGED <<op, credentialVars, subscribed, told>>

(* teardown: the pending refresh and the tasks are cancelled.              *)
Teardown ==
  /\ timers' = timers \ {handle}
  /\ pc' = [pc EXCEPT ![Refresher] = "idle"]
  /\ tasks' = [b \in Callbacks |-> <<>>]
  /\ owed' = {}
  /\ unattended' = TRUE
  /\ quiet' = \A c \in Callers : pc[c] = "idle"
  /\ UNCHANGED <<op, credentials, left, handle, subscribed, told>>

-----------------------------------------------------------------------------
(* The event loop                                                          *)

(* refresh(): async_refresh is created.                                    *)
TimerFires ==
  /\ 0 \in timers /\ pc[Refresher] = "idle"
  /\ timers' = timers \ {0}
  /\ handle' = None
  /\ pc' = [pc EXCEPT ![Refresher] = "waiting"]
  /\ UNCHANGED <<op, credentials, left, callbackVars, unattended, quiet>>

(* The task of a callback starts.                                          *)
RunCallback(b) ==
  /\ tasks[b] # <<>>
  /\ told' = [told EXCEPT ![b] = Head(tasks[b])]
  /\ tasks' = [tasks EXCEPT ![b] = Tail(@)]
  /\ UNCHANGED <<pc, op, credentialVars, subscribed, owed, unattended, quiet>>

(* One tick of time: less than 1 % of the validity of the credentials, and *)
(* longer than a refresh takes.  A due timer fires before the next tick.   *)
Tick ==
  /\ 0 \notin timers /\ pc[Refresher] = "idle"
  /\ left' = IF left > 0 THEN left - 1 ELSE 0
  /\ timers' = {d - 1 : d \in timers}
  /\ handle' = IF handle \in timers THEN handle - 1 ELSE handle
  /\ UNCHANGED <<pc, op, credentials, callbackVars, unattended, quiet>>

-----------------------------------------------------------------------------
Next ==
  \/ \E c \in Callers :
       \/ \E operation \in {"authenticate", "verify"} : Call(c, operation)
       \/ Cancel(c)
  \/ \E a \in Actors : Enter(a) \/ Succeed(a) \/ Fail(a)
  \/ \E b \in Callbacks : Subscribe(b) \/ Unsubscribe(b) \/ RunCallback(b)
  \/ Teardown \/ TimerFires \/ Tick

Spec == Init /\ [][Next]_vars

(* asyncio.Lock serves its waiters in order, so nobody is overtaken for    *)
(* ever; every request of a login has a timeout; the loop runs its tasks.  *)
Fairness ==
  /\ \A a \in Actors : SF_vars(Enter(a)) /\ WF_vars(Succeed(a) \/ Fail(a))
  /\ \A b \in Callbacks : WF_vars(RunCallback(b))

FairSpec == Spec /\ Fairness

-----------------------------------------------------------------------------
(* Properties                                                              *)

(* Every pending refresh is the one _refresh_handle refers to: however     *)
(* logins, verifications and refreshes follow each other, no timer is left *)
(* that teardown and the next login cannot cancel.                         *)
NoStrayTimer == timers \subseteq {handle}

(* Unless the refresh has failed or been torn down, there always is one    *)
(* to come, it comes before the credentials expire, and they have not      *)
(* expired.                                                                *)
KeptFresh ==
  credentials # None /\ ~unattended =>
    /\ left > 0
    /\ \/ pc[Refresher] # "idle"
       \/ \E d \in timers : d < left

(* A call of authenticate() never replaces credentials that are valid: the *)
(* callers that waited for the login of another use what it brought.       *)
LoginReplacesExpired ==
  [][\A c \in Callers :
       pc[c] = "busy" /\ op[c] = "authenticate" /\ pc'[c] = "idle"
       /\ credentials' # credentials => ~Valid]_vars

(* The newest credentials a subscribed callback has been or will be run    *)
(* with are the current ones, whichever way they were obtained.            *)
CallbacksInformed ==
  \A b \in owed :
    (IF tasks[b] # <<>> THEN tasks[b][Len(tasks[b])] ELSE told[b]) = credentials

(* After teardown, unless somebody was or is calling, nothing is left      *)
(* that would log in again.                                                *)
TeardownIsFinal == quiet => timers = {} /\ pc[Refresher] = "idle"

(* Every call returns, though it may have to wait for the logins of others *)
(* that fail or are cancelled.                                             *)
CallsReturn == \A c \in Callers : pc[c] # "idle" ~> pc[c] = "idle"
=============================================================================
