---------------------------- MODULE Robot_proofs ----------------------------
(***************************************************************************)
(* Theorems about what the client shows of a robot apart from its map.     *)
(* The tables: whoever waits for an event gets it when all that was asked  *)
(* for was answered, for any number of slots.  The state: what a refresh   *)
(* that nothing disturbs shows is true in whatever order its two answers   *)
(* are handled, and a command to clean that was decided on a state that is *)
(* still true makes the robot clean; for any number of moves and messages. *)
(* The settings: what is proved of them alone holds beside the others.     *)
(***************************************************************************)
EXTENDS MCRobot, P2PCommands_proofs, TLAPS

-----------------------------------------------------------------------------
(* While a job goes on that did not fail, every event that it owes was     *)
(* notified or is coming: a command that brings it waits or is executed,   *)
(* or, if it is only about the robot being there, any command that says so *)
(* has not left its slot.                                                  *)
Tells(c, e) == e = "AvailabilityEvent" /\ Tables!TargetsBot(c)
Coming(e) ==
  \/ arriving
  \/ \E c \in waiting : Tables!Brings(job.device, c, e) \/ Tells(c, e)
  \/ \E p \in pending : Tables!Brings(job.device, p[2], e)
  \/ \E h \in holders : Tells(h, e)
Owed == job.expects \ Tables!NeverReported(job)
ServeInv ==
  /\ job \in Made!Jobs
  /\ arriving => (job.message # <<>> \/ job.set # "") /\ waiting = {} /\ holders = {}
  /\ \A p \in pending : p[1] \in holders
  /\ ~failed => \A h \in holders :
                  Tables!TargetsBot(h) => <<h, h>> \in pending \/ h \in reached
  /\ ~failed => \A e \in Owed : Tables!Served(e) \/ Coming(e)

(* Only a job without message and response has commands in its queue.      *)
UserJobs(d)   == {Made!ExecuteJob(Made!Seen(d, {c}), c) : c \in Made!UserCommands}
LegacyJobs    ==
  {Made!ExecuteJob(Made!Seen(Made!Model_2pv572, {}), <<n>>) :
     n \in {"Charge", "Clean", "PlaySound", "SetCleanSpeed", "ResetLifeSpan", "PullMP"}}
JsonJobs(d)   ==
  {Made!MessageJob(d, <<"on", p[1], p[2]>>, IF "map" \in d.fields THEN p[3] ELSE {}) :
     p \in Made!JsonPushes}
XmlJobs       == {Made!MessageJob(Made!Model_2pv572, <<"", p[1], "">>, p[2]) : p \in Made!XmlPushes}
LEMMA JobsFact ==
  ASSUME NEW j \in Made!Jobs
  PROVE  j.queue = {} \/ (j.message = <<>> /\ j.set = "")
<1>1. CASE j \in Made!RefreshJobs
  <2>1. PICK d, e : j = [Made!RefreshJob(d, e) EXCEPT
                           !.device = Made!Seen(d, Made!GetRefreshCommands(d, e))]
    BY <1>1 DEF Made!RefreshJobs
  <2> QED
    BY <2>1 DEF Made!RefreshJob
<1>2. CASE j \in Made!ExecuteJobs
  <2>1. \A d, c : Made!ExecuteJob(d, c).message = <<>> /\ Made!ExecuteJob(d, c).set = ""
    BY DEF Made!ExecuteJob
  <2>2. (\E d : j \in UserJobs(d)) \/ j \in LegacyJobs
    BY <1>2, Zenon DEF Made!ExecuteJobs, UserJobs, LegacyJobs
  <2>3. \E d, c : j = Made!ExecuteJob(d, c)
    BY <2>2, Zenon DEF UserJobs, LegacyJobs
  <2> QED
    BY <2>1, <2>3
<1>3. CASE j \in Made!MessageJobs
  <2>1. \A d, name, events : Made!MessageJob(d, name, events).queue = {}
    BY DEF Made!MessageJob
  <2>2. (\E d : j \in JsonJobs(d)) \/ j \in XmlJobs
    BY <1>3, Zenon DEF Made!MessageJobs, JsonJobs, XmlJobs
  <2>3. \E d, name, events : j = Made!MessageJob(d, name, events)
    BY <2>2, Zenon DEF JsonJobs, XmlJobs
  <2> QED
    BY <2>1, <2>3
<1>4. CASE j \in Made!FollowJobs
  <2>1. \A d, s : Made!FollowJob(d, s).queue = {}
    BY DEF Made!FollowJob
  <2>2. j.queue = {}
    BY <1>4, <2>1 DEF Made!FollowJobs
  <2> QED
    BY <2>2
<1> QED
  BY <1>1, <1>2, <1>3, <1>4 DEF Made!Jobs

(* What was notified stays so.                                             *)
LEMMA ServesMore ==
  ASSUME NEW events, NEW more, NEW e, Tables!Serves(events, e)
  PROVE  Tables!Serves(more \cup events, e) /\ Tables!Serves(events \cup more, e)
BY DEF Tables!Serves

(* What brings an event in fewer steps brings it.                          *)
LEMMA Sooner ==
  ASSUME NEW d, NEW c, NEW e, Tables!BringsNext(d, c, e)
  PROVE  Tables!Brings(d, c, e)
<1>1. \A r : Tables!BringsAtOnce(d, r, e) => Tables!BringsNext(d, r, e)
  BY DEF Tables!BringsAtOnce, Tables!BringsNext
<1> QED
  BY <1>1 DEF Tables!BringsNext, Tables!Brings

(* What the tables bring, of the job that goes on                          *)
LEMMA JobFact ==
  ASSUME job \in Made!Jobs, NEW e \in Owed
  PROVE  Tables!JobBrings(job, e)
BY TableAssumption DEF Tables!TablesBring, Owed

LEMMA InitServe == Tables!Init => ServeInv
<1> SUFFICES ASSUME Tables!Init PROVE ServeInv
  OBVIOUS
<1>1. job \in Made!Jobs /\ waiting = job.queue /\ holders = {} /\ pending = {} /\ failed = FALSE
      /\ arriving = (job.message # <<>> \/ job.set # "")
  BY DEF Tables!Init
<1>2. ASSUME NEW e \in Owed, ~arriving PROVE Coming(e)
  <2>1. Tables!QueueBrings(job, e)
    BY <1>1, <1>2, JobFact DEF Tables!JobBrings
  <2> QED
    BY <1>1, <2>1 DEF Tables!QueueBrings, Coming, Tells
<1> QED
  BY <1>1, <1>2, JobsFact DEF ServeInv, Coming

(* What an event is owed to does not change while the job goes on.         *)
LEMMA OwedKept == ASSUME job' = job PROVE Owed' = Owed
BY DEF Owed, Tables!NeverReported

LEMMA HandlesMessage == ASSUME ServeInv, Tables!HandleMessage PROVE ServeInv'
<1>1. PICK o \in Tables!Handle(job.device, job.message) :
        /\ waiting' = Tables!Requested(o)
        /\ failed' = ~Tables!Complete(o)
        /\ notified' = IF failed' THEN {} ELSE notified \cup (o.events \cup {"AvailabilityEvent"})
  BY DEF Tables!HandleMessage, Tables!Notify
<1>2. /\ arriving /\ job.message # <<>> /\ arriving' = FALSE
      /\ UNCHANGED <<job, holders, pending, reached>> /\ holders = {} /\ pending = {}
      /\ job \in Made!Jobs /\ Owed' = Owed
  BY OwedKept DEF Tables!HandleMessage, ServeInv
<1>3. ASSUME NEW e \in Owed, ~failed' PROVE Tables!Served(e)' \/ Coming(e)'
  <2>1. Tables!MessageBrings(job, e)
    BY <1>2, JobFact DEF Tables!JobBrings
  <2>2. CASE Tables!Serves(o.events \cup {"AvailabilityEvent"}, e)
    BY <1>1, <1>3, <2>2, ServesMore DEF Tables!Served
  <2>3. CASE \E c \in Tables!Requested(o) : Tables!Brings(job.device, c, e)
    <3>1. PICK c \in waiting' : Tables!Brings(job.device, c, e)
      BY <1>1, <2>3
    <3>2. Tables!Brings(job.device, c, e)' 
      BY <1>2, <3>1
    <3> QED
      BY <3>2 DEF Coming
  <2> QED
    BY <1>1, <1>3, <2>1, <2>2, <2>3 DEF Tables!MessageBrings
<1> QED
  BY <1>2, <1>3 DEF ServeInv

LEMMA HandlesResponse == ASSUME ServeInv, Tables!HandleP2P PROVE ServeInv'
<1>1. /\ arriving /\ job.set # "" /\ arriving' = FALSE
      /\ UNCHANGED <<job, waiting, holders, pending, reached>> /\ holders = {} /\ pending = {}
      /\ job \in Made!Jobs /\ Owed' = Owed
  BY OwedKept DEF Tables!HandleP2P, ServeInv
<1>2. ASSUME NEW e \in Owed, ~failed' PROVE Tables!Served(e)'
  <2>1. Tables!ResponseBrings(job, e)
    BY <1>1, JobFact DEF Tables!JobBrings
  <2>2. PICK o \in Tables!HandleMqttP2P(job.device, job.set) :
          /\ failed' = ~Tables!Complete(o)
          /\ notified' = IF failed' THEN {} ELSE notified \cup o.events
    BY <2>1 DEF Tables!HandleP2P, Tables!Notify, Tables!ResponseBrings
  <2>3. Tables!Serves(o.events, e)
    BY <1>2, <2>1, <2>2 DEF Tables!ResponseBrings
  <2> QED
    BY <1>2, <2>2, <2>3, ServesMore DEF Tables!Served
<1> QED
  BY <1>1, <1>2 DEF ServeInv

LEMMA Enters == ASSUME ServeInv, NEW c \in waiting, Tables!Enter(c) PROVE ServeInv'
<1>1. /\ waiting' = waiting \ {c} /\ holders' = holders \cup {c}
      /\ pending' = pending \cup {<<c, c>>}
      /\ UNCHANGED <<job, arriving, reached, notified, failed>> /\ Owed' = Owed
  BY OwedKept DEF Tables!Enter
<1>2. ASSUME NEW e \in Owed, Coming(e) PROVE Coming(e)'
  <2>1. CASE Tells(c, e)
    BY <1>1, <2>1 DEF Coming, Tells
  <2>2. CASE Tables!Brings(job.device, c, e)
    <3>1. <<c, c>> \in pending' /\ <<c, c>>[2] = c
      BY <1>1
    <3>2. Tables!Brings(job.device, <<c, c>>[2], e)'
      BY <1>1, <2>2
    <3> QED
      BY <3>1, <3>2 DEF Coming
  <2>3. CASE ~Tells(c, e) /\ ~Tables!Brings(job.device, c, e)
    BY <1>1, <1>2, <2>3 DEF Coming, Tells
  <2> QED
    BY <2>1, <2>2, <2>3
<1>3. \A e \in Owed : Tables!Served(e)' = Tables!Served(e)
  BY <1>1 DEF Tables!Served
<1>4. ~arriving
  BY DEF ServeInv
<1>5. \A p \in pending' : p[1] \in holders'
  <2>1. <<c, c>>[1] \in holders'
    BY <1>1
  <2> QED
    BY <1>1, <2>1 DEF ServeInv
<1>6. ASSUME ~failed', NEW h \in holders', Tables!TargetsBot(h)
      PROVE  <<h, h>> \in pending' \/ h \in reached'
  BY <1>1, <1>6 DEF ServeInv
<1>7. ASSUME ~failed' PROVE \A e \in Owed : Tables!Served(e)' \/ Coming(e)'
  BY <1>1, <1>2, <1>3, <1>7 DEF ServeInv
<1> QED
  BY <1>1, <1>4, <1>5, <1>6, <1>7 DEF ServeInv

LEMMA Answers == ASSUME ServeInv, NEW h, NEW c, Tables!Answer(h, c) PROVE ServeInv'
<1>1. PICK o \in Tables!Execute(job.device, c) :
        /\ pending' = (pending \ {<<h, c>>}) \cup Tables!ExecuteRequested(h, o)
        /\ failed' = (failed \/ ~Tables!Complete(o))
        /\ notified' = IF failed' THEN {} ELSE notified \cup o.events
        /\ reached' = reached \cup
             {x \in {h} : x = c /\ Tables!DeviceReached(o, Tables!TargetsBot(c))}
  BY DEF Tables!Answer, Tables!Notify
<1>2. /\ <<h, c>> \in pending /\ UNCHANGED <<job, arriving, waiting, holders>> /\ Owed' = Owed
  BY OwedKept DEF Tables!Answer
<1>3. /\ h \in holders
      /\ \A p \in pending' : p[1] \in holders
  <2>1. h \in holders
    <3>1. <<h, c>>[1] \in holders
      BY <1>2 DEF ServeInv
    <3> QED
      BY <3>1
  <2>2. \A p \in Tables!ExecuteRequested(h, o) : p[1] = h
    BY DEF Tables!ExecuteRequested
  <2> QED
    BY <1>1, <2>1, <2>2 DEF ServeInv
<1>4. ASSUME ~failed', NEW x \in holders, Tables!TargetsBot(x)
      PROVE  <<x, x>> \in pending' \/ x \in reached'
  <2>1. CASE x = h /\ x = c
    BY <1>1, <1>4, <2>1 DEF Tables!DeviceReached, Tables!Complete
  <2>2. CASE ~(x = h /\ x = c)
    BY <1>1, <1>4, <2>2 DEF ServeInv
  <2> QED
    BY <2>1, <2>2
<1>5. ASSUME ~failed', NEW e \in Owed PROVE Tables!Served(e)' \/ Coming(e)'
  <2>1. ~failed /\ Tables!Complete(o) /\ notified' = notified \cup o.events
    BY <1>1, <1>5
  <2>2. CASE Tables!Served(e)
    BY <2>1, <2>2, ServesMore DEF Tables!Served
  <2>3. ASSUME Tables!Brings(job.device, c, e) PROVE Tables!Served(e)' \/ Coming(e)'
    <3>1. \/ Tables!Serves(o.events, e)
          \/ \E r \in Tables!Requested(o) : Tables!BringsNext(job.device, r, e)
      BY <2>1, <2>3 DEF Tables!Brings
    <3>2. CASE Tables!Serves(o.events, e)
      BY <2>1, <3>2, ServesMore DEF Tables!Served
    <3>3. ASSUME NEW r \in Tables!Requested(o), Tables!BringsNext(job.device, r, e)
          PROVE  Coming(e)'
      <4>1. <<h, r>> \in pending' /\ <<h, r>>[2] = r
        BY <1>1 DEF Tables!ExecuteRequested
      <4>2. Tables!Brings(job.device, r, e)
        BY <3>3, Sooner
      <4>3. Tables!Brings(job.device, <<h, r>>[2], e)'
        BY <1>2, <4>2
      <4> QED
        BY <4>1, <4>3 DEF Coming
    <3> QED
      BY <3>1, <3>2, <3>3
  <2>4. ASSUME NEW p \in pending, Tables!Brings(job.device, p[2], e), p # <<h, c>>
        PROVE  Coming(e)'
    <3>1. p \in pending' /\ Tables!Brings(job.device, p[2], e)'
      BY <1>1, <1>2, <2>4
    <3> QED
      BY <3>1 DEF Coming
  <2>5. CASE \/ arriving
             \/ \E x \in waiting : Tables!Brings(job.device, x, e) \/ Tells(x, e)
             \/ \E x \in holders : Tells(x, e)
    BY <1>2, <2>5 DEF Coming, Tells
  <2>6. Tables!Served(e) \/ Coming(e)
    BY <2>1 DEF ServeInv
  <2> QED
    BY <2>2, <2>3, <2>4, <2>5, <2>6 DEF Coming
<1> QED
  BY <1>2, <1>3, <1>4, <1>5 DEF ServeInv

LEMMA Leaves == ASSUME ServeInv, NEW h \in holders, Tables!Leave(h) PROVE ServeInv'
<1>1. /\ \A p \in pending : p[1] # h
      /\ holders' = holders \ {h}
      /\ UNCHANGED <<job, arriving, waiting, pending, reached, failed>> /\ Owed' = Owed
      /\ ~failed => notified' = notified \cup {e \in {"AvailabilityEvent"} : h \in reached}
  BY OwedKept DEF Tables!Leave, Tables!Notify
<1>2. ASSUME ~failed, NEW e \in Owed PROVE Tables!Served(e)' \/ Coming(e)'
  <2>1. CASE Tables!Served(e)
    BY <1>1, <1>2, <2>1, ServesMore DEF Tables!Served
  <2>2. CASE Tells(h, e)
    <3>1. <<h, h>> \notin pending
      BY <1>1
    <3>2. h \in reached
      BY <1>2, <2>2, <3>1 DEF ServeInv, Tells
    <3>3. e \in notified'
      BY <1>1, <1>2, <2>2, <3>2 DEF Tells
    <3> QED
      BY <3>3 DEF Tables!Served, Tables!Serves
  <2>3. CASE Coming(e) /\ ~Tells(h, e)
    BY <1>1, <2>3 DEF Coming, Tells
  <2> QED
    BY <1>2, <2>1, <2>2, <2>3 DEF ServeInv
<1> QED
  BY <1>1, <1>2 DEF ServeInv

LEMMA NextServe == ASSUME ServeInv, [Tables!Next]_(Tables!vars) PROVE ServeInv'
<1>1. CASE UNCHANGED Tables!vars
  <2>1. /\ UNCHANGED <<job, arriving, waiting, holders, pending, reached, failed, notified>>
        /\ Owed' = Owed
    BY <1>1, OwedKept DEF Tables!vars
  <2>2. \A e : Coming(e)' = Coming(e) /\ Tables!Served(e)' = Tables!Served(e)
    BY <2>1 DEF Coming, Tells, Tables!Served
  <2> QED
    BY <2>1, <2>2 DEF ServeInv
<1>2. CASE \/ Tables!HandleMessage \/ Tables!HandleP2P
           \/ \E c \in waiting : Tables!Enter(c)
           \/ \E p \in pending : Tables!Answer(p[1], p[2])
           \/ \E h \in holders : Tables!Leave(h)
  BY <1>2, HandlesMessage, HandlesResponse, Enters, Answers, Leaves
<1> QED
  BY <1>1, <1>2 DEF Tables!Next, Tables!Step, Tables!Idle

(* Where MCRobot puts the parts side by side, a step of this part is one   *)
(* of Refresh.                                                             *)
LEMMA TablesStep ==
  ASSUME [MCNext]_MCvars
  PROVE  part' = part /\ (part = "tables" => [Tables!Next]_(Tables!vars))
BY DEF MCNext, MCvars, Tables!vars, tables

(* Whoever waits for an event gets it when all that was asked for it was   *)
(* answered with success and in full, in any order, and with any number of *)
(* slots.                                                                  *)
THEOREM TablesServe ==
  /\ Tables!Spec => []Tables!ServedWhenAnswered
  /\ MCSpec => []ServedWhenAnswered
<1>1. ServeInv => Tables!ServedWhenAnswered
  <2> SUFFICES ASSUME ServeInv, Tables!Done, ~failed, NEW e \in Owed
               PROVE  Tables!Served(e)
    BY DEF Tables!ServedWhenAnswered, Owed
  <2>1. ~arriving /\ waiting = {} /\ holders = {} /\ pending = {}
    BY DEF Tables!Done, ServeInv
  <2> QED
    BY <2>1 DEF ServeInv, Coming
<1>2. ServeInv /\ [Tables!Next]_(Tables!vars) => ServeInv'
  BY NextServe
<1>3. Tables!Spec => []Tables!ServedWhenAnswered
  BY <1>1, <1>2, InitServe, PTL DEF Tables!Spec
<1> DEFINE Inv == part = "tables" => ServeInv
<1>4. MCInit => Inv
  BY InitServe DEF MCInit
<1>5. Inv /\ [MCNext]_MCvars => Inv'
  BY <1>2, TablesStep
<1>6. Inv => ServedWhenAnswered
  BY <1>1 DEF ServedWhenAnswered
<1>7. MCSpec => []ServedWhenAnswered
  BY <1>4, <1>5, <1>6, PTL DEF MCSpec
<1> QED
  BY <1>3, <1>7


-----------------------------------------------------------------------------
(* The command to clean carries the decision that was made when it was     *)
(* given, and what was believed then.                                      *)
Decided ==
  \/ clean = State!NoClean
  \/ /\ clean.asked \in {"start", "resume", "pause", "stop"}
     /\ clean.act = CASE clean.asked = "resume" /\ clean.believed \notin {"none", "PAUSED"} -> "start"
                      [] clean.asked = "start" /\ clean.believed = "PAUSED" -> "resume"
                      [] OTHER -> clean.asked
CleanInv == doing \in State!Doings /\ Decided

LEMMA CleanInductive ==
  /\ State!Init => CleanInv
  /\ CleanInv /\ [State!Next]_(State!vars) => CleanInv'
<1>1. State!Init => CleanInv
  BY DEF State!Init, CleanInv, Decided
<1>2. ASSUME CleanInv, [State!Next]_(State!vars) PROVE CleanInv'
  <2>1. ASSUME NEW action \in {"start", "resume", "pause", "stop"}, State!Clean(action)
        PROVE  CleanInv'
    <3>1. /\ doing' = doing
          /\ clean' = [asked |-> action, act |-> State!CleanAct(action), believed |-> showing]
      BY <2>1 DEF State!Clean
    <3>2. clean'.asked = action /\ clean'.act = State!CleanAct(action) /\ clean'.believed = showing
      BY <3>1
    <3> QED
      BY <1>2, <3>1, <3>2 DEF CleanInv, Decided, State!CleanAct
  <2>2. CASE State!Obeys
    <3>1. doing' \in State!Doings
      BY <1>2, <2>2 DEF State!Obeys, CleanInv, State!Doings
    <3> QED
      BY <2>2, <3>1 DEF State!Obeys, CleanInv, Decided
  <2>3. ASSUME NEW next \in State!Doings, State!Moves(next) PROVE CleanInv'
    BY <1>2, <2>3 DEF State!Moves, CleanInv, Decided
  <2>4. CASE UNCHANGED <<doing, clean>>
    BY <1>2, <2>4 DEF CleanInv, Decided
  <2>5. \/ \E next \in State!Doings : State!Moves(next)
        \/ \E action \in {"start", "resume", "pause", "stop"} : State!Clean(action)
        \/ State!Obeys
        \/ UNCHANGED <<doing, clean>>
    BY <1>2 DEF State!Next, State!vars, State!Sends, State!HandleMessage,
       State!RequestRefresh, State!Answers, State!HandleResponse
  <2> QED
    BY <2>1, <2>2, <2>3, <2>4, <2>5
<1> QED
  BY <1>1, <1>2

(* Where MCRobot puts the parts side by side, a step of this part is one   *)
(* of RobotState.                                                          *)
LEMMA StateStep ==
  ASSUME [MCNext]_MCvars
  PROVE  part' = part /\ (part = "state" => [State!Next]_(State!vars))
BY DEF MCNext, MCvars, State!vars, shared, state

(* Whatever was believed when the command was given, if it is the truth    *)
(* when the command arrives, a start or a resume makes the robot clean,    *)
(* unless it is stuck.                                                     *)
THEOREM CleanObeyed ==
  /\ State!Spec => State!CleaningBegins
  /\ MCSpec => CleaningBegins
<1>1. CleanInv /\ [State!Next]_(State!vars) => [State!Begins]_(State!vars)
  <2> SUFFICES ASSUME CleanInv, State!Next, clean.asked \in {"start", "resume"},
                      clean' = State!NoClean, clean.believed = State!Truth[doing]
               PROVE  doing' \in {"cleaning", "stuck"}
    BY DEF State!Begins
  <2>1. clean # State!NoClean
    BY DEF State!NoClean
  <2>2. State!Obeys
    BY <2>1 DEF State!Next, State!vars, State!Moves, State!Sends, State!HandleMessage,
       State!RequestRefresh, State!Answers, State!HandleResponse, State!Clean, State!NoClean
  <2>3. /\ clean.act = "resume" => doing = "paused"
        /\ clean.act = "start" => doing # "paused"
        /\ clean.act \in {"resume", "start"}
    BY <2>1 DEF CleanInv, Decided, State!Truth, State!Doings
  <2> QED
    BY <2>2, <2>3 DEF State!Obeys, CleanInv, State!Doings
<1>2. State!Spec => State!CleaningBegins
  BY <1>1, CleanInductive, PTL DEF State!Spec, State!CleaningBegins
<1> DEFINE Inv == part = "state" => CleanInv
<1>3. MCInit => Inv
  BY CleanInductive DEF MCInit
<1>4. Inv /\ [MCNext]_MCvars => Inv'
  BY CleanInductive, StateStep
<1>5. Inv /\ [MCNext]_MCvars => [part = "state" => State!Begins]_MCvars
  <2> SUFFICES ASSUME Inv, MCNext, part = "state" PROVE State!Begins \/ UNCHANGED MCvars
    OBVIOUS
  <2>1. CleanInv /\ [State!Next]_(State!vars)
    BY StateStep
  <2>2. CASE State!Begins
    BY <2>2
  <2>3. CASE UNCHANGED State!vars
    <3>1. clean' = clean
      BY <2>3 DEF State!vars
    <3> QED
      BY <2>1, <3>1 DEF State!Begins, CleanInv, Decided, State!NoClean
  <2> QED
    BY <1>1, <2>1, <2>2, <2>3
<1>6. MCSpec => CleaningBegins
  BY <1>3, <1>4, <1>5, PTL DEF MCSpec, CleaningBegins
<1> QED
  BY <1>2, <1>6

-----------------------------------------------------------------------------
(* What the bus shows when it showed old and hears new                     *)
Hears(old, new) ==
  CASE new = "none"                   -> old
    [] new = "IDLE" /\ old = "DOCKED" -> "DOCKED"
    [] OTHER                          -> new

ChargeReport(report) == report \in State!Reports /\ report.of = State!Charge
InfoReport(report)   == report \in State!Reports /\ report.of = info

(* In a refresh that is not disturbed each command is asked, answered or   *)
(* handled, and what is shown is what was shown before it, changed by the  *)
(* answers that are handled, in their order.                               *)
Waiting(c) == c \in asked \/ \E a \in answers : a.of = c
Expected ==
  /\ asked \subseteq {State!Charge, info}
  /\ \A a \in answers : a \in State!Reports /\ a.of \in {State!Charge, info} \ asked
  /\ \A a, b \in answers : a.of = b.of => a = b
Shown ==
  /\ Waiting(State!Charge) /\ Waiting(info) => showing = before
  /\ ~Waiting(State!Charge) /\ Waiting(info) =>
       \E c \in State!Reports : c.of = State!Charge /\ showing = Hears(before, c.state)
  /\ Waiting(State!Charge) /\ ~Waiting(info) =>
       \E i \in State!Reports : i.of = info /\ showing = Hears(before, i.state)
  /\ ~Waiting(State!Charge) /\ ~Waiting(info) =>
       \E c, i \in State!Reports :
         /\ c.of = State!Charge /\ i.of = info
         /\ \/ showing = Hears(Hears(before, c.state), i.state)
            \/ showing = Hears(Hears(before, i.state), c.state)
RefreshInv ==
  /\ info \in State!Infos /\ doing \in State!Doings
  /\ ~disturbed => pushes = <<>> /\ Expected /\ Shown

(* The commands are told apart, and a report is of one of them.            *)
LEMMA ReportsFact ==
  ASSUME info \in State!Infos
  PROVE  /\ State!Charge # info
         /\ \A r \in State!Reports : r.of \in {State!Charge, info}
         /\ \A r \in State!Reports :
              /\ r.of = State!Charge =>
                   \E c \in State!ChargeContent : r.state = State!ReadCharge(c)
              /\ r.of = info => \E c \in State!InfoContent : r.state = State!ReadInfo(c)
<1>1. State!Charge # info
  BY DEF State!Charge, State!Json, State!Infos
<1>2. \A r \in State!Reports :
        \/ /\ r.of = State!Charge
           /\ \E c \in State!ChargeContent : r.state = State!ReadCharge(c)
        \/ r.of = info /\ \E c \in State!InfoContent : r.state = State!ReadInfo(c)
  BY DEF State!Reports
<1> QED
  BY <1>1, <1>2

(* What the two reports say of a robot whose state can be told: either     *)
(* only the second says something, or both say it is docked.               *)
LEMMA ChargeSays ==
  ASSUME info \in State!Infos, doing \in State!Doings, State!Told, NEW c \in State!ChargeContent
  PROVE  State!ReadCharge(c) = IF doing \in {"docked", "station"} THEN "DOCKED" ELSE "none"
<1>1. CASE doing \in {"docked", "station"}
  <2>1. c[1] = "charging"
    BY <1>1 DEF State!ChargeContent
  <2> QED
    BY <1>1, <2>1 DEF State!ReadCharge, State!GetChargeState, State!XmlChargeState
<1>2. CASE doing \notin {"docked", "station"}
  <2>1. c[1] = "notCharging"
    BY <1>2 DEF State!ChargeContent, State!Told
  <2> QED
    BY <1>2, <2>1 DEF State!ReadCharge, State!GetChargeState, State!XmlChargeState
<1> QED
  BY <1>1, <1>2

Says(word) ==
  IF doing \in {"docked", "station"} THEN word \in {"DOCKED", "IDLE", "none"}
  ELSE word = State!Truth[doing] /\ (word = "IDLE" => before # "DOCKED")

LEMMA CleanInfoSays ==
  ASSUME info = "getCleanInfo", doing \in State!Doings, State!Told, NEW c \in State!InfoContent
  PROVE  Says(State!GetCleanInfo(c))
<1>1. CASE doing = "cleaning"
  BY <1>1 DEF State!InfoContent, State!GetCleanInfo, Says, State!Truth
<1>2. CASE doing = "paused"
  BY <1>2 DEF State!InfoContent, State!GetCleanInfo, Says, State!Truth
<1>3. CASE doing = "returning"
  <2>1. c = <<"clean", "goCharging">> \/ c = <<"goCharging">>
    BY <1>3 DEF State!InfoContent
  <2>2. CASE c = <<"clean", "goCharging">>
    BY <1>3, <2>2 DEF State!GetCleanInfo, Says, State!Truth
  <2>3. CASE c = <<"goCharging">>
    BY <1>3, <2>3 DEF State!GetCleanInfo, Says, State!Truth
  <2> QED
    BY <2>1, <2>2, <2>3
<1>4. CASE doing \in {"docked", "station", "resting"}
  BY <1>4 DEF State!InfoContent, State!GetCleanInfo, Says, State!Truth, State!Told
<1> QED
  BY <1>1, <1>2, <1>3, <1>4 DEF State!Doings, State!Told

LEMMA WorkStateSays ==
  ASSUME info = "getWorkState", doing \in State!Doings, State!Told, NEW c \in State!InfoContent
  PROVE  Says(State!OnWorkState(c))
<1>1. CASE doing = "cleaning"
  BY <1>1 DEF State!InfoContent, State!OnWorkState, Says, State!Truth
<1>2. CASE doing = "paused"
  BY <1>2 DEF State!InfoContent, State!OnWorkState, Says, State!Truth
<1>3. CASE doing = "returning"
  <2>1. c \in {<<r, s>> : r \in {"idle", "cleaning"}, s \in {"goCharging", "goEmptying"}}
    BY <1>3 DEF State!InfoContent
  <2>2. PICK r \in {"idle", "cleaning"}, s \in {"goCharging", "goEmptying"} : c = <<r, s>>
    BY <2>1
  <2> QED
    BY <1>3, <2>2 DEF State!OnWorkState, Says, State!Truth
<1>4. CASE doing = "station"
  <2>1. c \in {<<r, s>> : r \in {"idle", "cleaning"}, s \in {"emptying", "washing", "drying"}}
    BY <1>4 DEF State!InfoContent
  <2>2. PICK r \in {"idle", "cleaning"}, s \in {"emptying", "washing", "drying"} : c = <<r, s>>
    BY <2>1
  <2> QED
    BY <1>4, <2>2 DEF State!OnWorkState, Says, State!Truth
<1>5. CASE doing = "docked"
  BY <1>5 DEF State!InfoContent, State!OnWorkState, Says, State!Truth
<1> QED
  BY <1>1, <1>2, <1>3, <1>4, <1>5 DEF State!Doings, State!Told

LEMMA CleanReportSays ==
  ASSUME info = "GetCleanState", doing \in State!Doings, State!Told, NEW c \in State!InfoContent
  PROVE  Says(State!CleanReport(c))
<1>1. CASE doing = "cleaning"
  BY <1>1 DEF State!InfoContent, State!CleanReport, Says, State!Truth
<1>2. CASE doing = "paused"
  BY <1>2 DEF State!InfoContent, State!CleanReport, Says, State!Truth
<1>3. CASE doing \in {"docked", "station", "resting"}
  BY <1>3 DEF State!InfoContent, State!CleanReport, Says, State!Truth, State!Told
<1> QED
  BY <1>1, <1>2, <1>3 DEF State!Doings, State!Told, State!Json

LEMMA BothTell ==
  ASSUME info \in State!Infos, doing \in State!Doings, State!Told,
         NEW c \in State!Reports, NEW i \in State!Reports, c.of = State!Charge, i.of = info
  PROVE  /\ Hears(Hears(before, c.state), i.state) = State!Truth[doing]
         /\ Hears(Hears(before, i.state), c.state) = State!Truth[doing]
<1>1. c.state = IF doing \in {"docked", "station"} THEN "DOCKED" ELSE "none"
  BY ReportsFact, ChargeSays
<1>2. Says(i.state)
  <2>1. PICK content \in State!InfoContent : i.state = State!ReadInfo(content)
    BY ReportsFact
  <2>2. CASE info = "getCleanInfo"
    BY <2>1, <2>2, CleanInfoSays DEF State!ReadInfo
  <2>3. CASE info = "getWorkState"
    BY <2>1, <2>3, WorkStateSays DEF State!ReadInfo
  <2>4. CASE info = "GetCleanState"
    BY <2>1, <2>4, CleanReportSays DEF State!ReadInfo
  <2> QED
    BY <2>2, <2>3, <2>4 DEF State!Infos
<1>3. CASE doing \in {"docked", "station"}
  <2>1. State!Truth[doing] = "DOCKED"
    BY <1>3 DEF State!Truth
  <2>2. c.state = "DOCKED" /\ i.state \in {"DOCKED", "IDLE", "none"}
    BY <1>1, <1>2, <1>3 DEF Says
  <2>3. \A old : Hears(old, "DOCKED") = "DOCKED"
    BY DEF Hears
  <2>4. Hears("DOCKED", i.state) = "DOCKED"
    BY <2>2 DEF Hears
  <2> QED
    BY <2>1, <2>2, <2>3, <2>4
<1>4. CASE doing \notin {"docked", "station"}
  <2>1. c.state = "none" /\ i.state = State!Truth[doing] /\ (i.state = "IDLE" => before # "DOCKED")
    BY <1>1, <1>2, <1>4 DEF Says
  <2>2. State!Truth[doing] # "none"
    BY DEF State!Truth, State!Doings
  <2>3. \A old : Hears(old, "none") = old
    BY DEF Hears
  <2>4. Hears(before, i.state) = State!Truth[doing]
    BY <2>1, <2>2 DEF Hears
  <2> QED
    BY <2>1, <2>3, <2>4
<1> QED
  BY <1>3, <1>4

(* The robot goes on saying the same while it does the same.               *)
LEMMA ReportsKept ==
  ASSUME UNCHANGED <<info, doing>>
  PROVE  State!Reports' = State!Reports /\ State!Charge' = State!Charge
<1>1. State!ChargeContent' = State!ChargeContent /\ State!Charge' = State!Charge
  BY DEF State!ChargeContent, State!Charge, State!Json
<1>2. State!InfoContent' = State!InfoContent
  BY DEF State!InfoContent
<1>3. \A c : State!ReadCharge(c)' = State!ReadCharge(c)
  BY DEF State!ReadCharge, State!Json
<1>4. \A c : State!ReadInfo(c)' = State!ReadInfo(c)
  BY DEF State!ReadInfo
<1> QED
  BY <1>1, <1>2, <1>3, <1>4 DEF State!Reports

LEMMA InitRefresh == State!Init => RefreshInv
BY DEF State!Init, RefreshInv

LEMMA RefreshKept ==
  ASSUME RefreshInv, UNCHANGED <<info, doing, showing, asked, answers, pushes, disturbed, before>>
  PROVE  RefreshInv'
<1>1. State!Reports' = State!Reports /\ State!Charge' = State!Charge
  BY ReportsKept
<1> QED
  BY <1>1 DEF RefreshInv, Expected, Shown, Waiting

LEMMA BeginsRefresh == ASSUME RefreshInv, State!RequestRefresh PROVE RefreshInv'
<1>1. /\ asked' = {State!Charge, info} /\ answers' = {} /\ UNCHANGED <<info, doing>>
      /\ ~disturbed' => pushes' = <<>> /\ before' = showing /\ showing' = showing
  BY DEF State!RequestRefresh
<1>2. State!Charge' = State!Charge /\ Waiting(State!Charge)' /\ Waiting(info)'
  BY <1>1, ReportsKept DEF Waiting
<1> QED
  BY <1>1, <1>2 DEF RefreshInv, Expected, Shown

LEMMA AnswersRefresh ==
  ASSUME RefreshInv, NEW r \in State!Reports, State!Answers(r) PROVE RefreshInv'
<1>1. /\ r.of \in asked /\ asked' = asked \ {r.of} /\ answers' = answers \cup {r}
      /\ UNCHANGED <<info, doing, showing, pushes, disturbed, before>>
  BY DEF State!Answers
<1>2. State!Reports' = State!Reports /\ State!Charge' = State!Charge
  BY <1>1, ReportsKept
<1>3. ASSUME ~disturbed PROVE Expected' /\ Shown'
  <2>1. Expected /\ Shown
    BY <1>3 DEF RefreshInv
  <2>2. Expected'
    BY <1>1, <1>2, <2>1 DEF Expected
  <2>3. \A c : Waiting(c)' <=> Waiting(c)
    BY <1>1 DEF Waiting
  <2>4. (Waiting(State!Charge)' <=> Waiting(State!Charge)) /\ (Waiting(info)' <=> Waiting(info))
    BY <1>1, <1>2 DEF Waiting
  <2> QED
    BY <1>1, <1>2, <2>1, <2>2, <2>4 DEF Shown
<1> QED
  BY <1>1, <1>3 DEF RefreshInv

LEMMA HandlesRefresh ==
  ASSUME RefreshInv, NEW r \in answers, State!HandleResponse(r) PROVE RefreshInv'
<1>1. /\ answers' = answers \ {r} /\ showing' = Hears(showing, r.state)
      /\ UNCHANGED <<info, doing, asked, pushes, disturbed, before>>
  BY DEF State!HandleResponse, State!Notify, Hears
<1>2. State!Reports' = State!Reports /\ State!Charge' = State!Charge
  BY <1>1, ReportsKept
<1>3. ASSUME ~disturbed PROVE Expected' /\ Shown'
  <2>1. Expected /\ Shown /\ State!Charge # info
    BY <1>3, ReportsFact DEF RefreshInv
  <2>2. Expected'
    BY <1>1, <1>2, <2>1 DEF Expected
  <2>3. r \in State!Reports /\ r.of \in {State!Charge, info} /\ Waiting(r.of)
    BY <2>1 DEF Expected, Waiting
  <2>4. ~(r.of \in asked' \/ \E a \in answers' : a.of = r.of)
    BY <1>1, <2>1 DEF Expected
  <2>5. \A c : c # r.of => (Waiting(c)' <=> Waiting(c))
    BY <1>1 DEF Waiting
  <2>6. CASE r.of = State!Charge
    <3>1. ~Waiting(State!Charge)' /\ (Waiting(info)' <=> Waiting(info)) /\ Waiting(State!Charge)
      BY <1>1, <1>2, <2>1, <2>3, <2>4, <2>6 DEF Waiting
    <3>2. CASE Waiting(info)
      <4>1. showing' = Hears(before, r.state)
        BY <1>1, <2>1, <3>1, <3>2 DEF Shown
      <4> QED
        BY <1>1, <1>2, <2>2, <2>3, <2>6, <3>1, <3>2, <4>1 DEF Shown, Hears
    <3>3. CASE ~Waiting(info)
      <4>1. PICK i \in State!Reports : i.of = info /\ showing = Hears(before, i.state)
        BY <2>1, <3>1, <3>3 DEF Shown
      <4>2. showing' = Hears(Hears(before, i.state), r.state)
        BY <1>1, <4>1
      <4> QED
        BY <1>1, <1>2, <2>2, <2>3, <2>6, <3>1, <3>3, <4>1, <4>2 DEF Shown, Hears
    <3> QED
      BY <3>2, <3>3
  <2>7. CASE r.of = info
    <3>1. ~Waiting(info)' /\ (Waiting(State!Charge)' <=> Waiting(State!Charge)) /\ Waiting(info)
      BY <1>1, <1>2, <2>1, <2>3, <2>4, <2>7 DEF Waiting
    <3>2. CASE Waiting(State!Charge)
      <4>1. showing' = Hears(before, r.state)
        BY <1>1, <2>1, <3>1, <3>2 DEF Shown
      <4> QED
        BY <1>1, <1>2, <2>2, <2>3, <2>7, <3>1, <3>2, <4>1 DEF Shown, Hears
    <3>3. CASE ~Waiting(State!Charge)
      <4>1. PICK c \in State!Reports : c.of = State!Charge /\ showing = Hears(before, c.state)
        BY <2>1, <3>1, <3>3 DEF Shown
      <4>2. showing' = Hears(Hears(before, c.state), r.state)
        BY <1>1, <4>1
      <4> QED
        BY <1>1, <1>2, <2>2, <2>3, <2>7, <3>1, <3>3, <4>1, <4>2 DEF Shown, Hears
    <3> QED
      BY <3>2, <3>3
  <2> QED
    BY <2>3, <2>6, <2>7
<1> QED
  BY <1>1, <1>3 DEF RefreshInv

LEMMA NextRefresh == ASSUME RefreshInv, [State!Next]_(State!vars) PROVE RefreshInv'
<1>1. ASSUME NEW next \in State!Doings, State!Moves(next) PROVE RefreshInv'
  BY <1>1 DEF State!Moves, State!Disturb, RefreshInv
<1>2. ASSUME NEW r \in State!Reports, State!Sends(r) PROVE RefreshInv'
  BY <1>2 DEF State!Sends, State!Disturb, RefreshInv
<1>3. CASE State!HandleMessage
  BY <1>3 DEF State!HandleMessage, RefreshInv
<1>4. ASSUME NEW action, State!Clean(action) PROVE RefreshInv'
  BY <1>4, RefreshKept DEF State!Clean
<1>5. CASE State!Obeys
  <2>1. doing' \in State!Doings /\ info' = info /\ disturbed'
    BY <1>5 DEF State!Obeys, State!Disturb, RefreshInv, State!Doings
  <2> QED
    BY <2>1 DEF RefreshInv
<1>6. CASE UNCHANGED State!vars
  BY <1>6, RefreshKept DEF State!vars
<1> QED
  BY <1>1, <1>2, <1>3, <1>4, <1>5, <1>6, BeginsRefresh, AnswersRefresh,
     HandlesRefresh DEF State!Next

(* When a refresh is over that nothing disturbed, the StateEvent is true   *)
(* wherever the reports can tell it, whichever answer was handled first    *)
(* and whatever was shown before.                                          *)
THEOREM TruthShown ==
  /\ State!Spec => []State!RefreshTellsTheTruth
  /\ MCSpec => []RefreshTellsTheTruth
<1>1. RefreshInv => State!RefreshTellsTheTruth
  <2> SUFFICES ASSUME RefreshInv, asked = {}, answers = {}, ~disturbed, State!Told
               PROVE  showing = State!Truth[doing]
    BY DEF State!RefreshTellsTheTruth
  <2>1. ~Waiting(State!Charge) /\ ~Waiting(info) /\ Shown
    BY DEF Waiting, RefreshInv
  <2>2. PICK c \in State!Reports, i \in State!Reports :
          /\ c.of = State!Charge /\ i.of = info
          /\ \/ showing = Hears(Hears(before, c.state), i.state)
             \/ showing = Hears(Hears(before, i.state), c.state)
    BY <2>1 DEF Shown
  <2> QED
    BY <2>2, BothTell DEF RefreshInv
<1>2. RefreshInv /\ [State!Next]_(State!vars) => RefreshInv'
  BY NextRefresh
<1>3. State!Spec => []State!RefreshTellsTheTruth
  BY <1>1, <1>2, InitRefresh, PTL DEF State!Spec
<1> DEFINE Inv == part = "state" => RefreshInv
<1>4. MCInit => Inv
  BY InitRefresh DEF MCInit
<1>5. Inv /\ [MCNext]_MCvars => Inv'
  BY <1>2, StateStep
<1>6. Inv => RefreshTellsTheTruth
  BY <1>1 DEF RefreshTellsTheTruth
<1>7. MCSpec => []RefreshTellsTheTruth
  BY <1>4, <1>5, <1>6, PTL DEF MCSpec
<1> QED
  BY <1>3, <1>7

-----------------------------------------------------------------------------
(* The settings.  Beside the other parts, they start and move as they do   *)
(* alone.                                                                  *)
LEMMA SettingStart == MCInit => Init
BY DEF MCInit, NoSetting

LEMMA SettingStep == [MCNext]_MCvars => [Next]_vars
BY DEF MCNext, MCvars, setting

(* Beside the other parts too, the bus shows of a setting only what the    *)
(* robot has had, and the robot's value when nothing is under way.         *)
THEOREM SettingsShown == MCSpec => NeverShownUnconfirmed /\ []FollowsRobot
<1>1. MCSpec => Spec
  BY SettingStart, SettingStep, PTL DEF MCSpec, Spec
<1> QED
  BY <1>1, NeverUnconfirmed, BusFollows, PTL

=============================================================================
