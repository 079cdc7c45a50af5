------------------------ MODULE P2PCommands_proofs --------------------------
(***************************************************************************)
(* The bus never shows a value of a setting that the robot has not had:    *)
(* P2PCommands implements Setting.  And it follows the robot: when nothing *)
(* is under way, the value shown is the robot's.  For all robots, values,  *)
(* request ids and sizes of the cache.                                     *)
(***************************************************************************)
EXTENDS P2PCommands, SequenceTheorems, TLAPS

RequestOfAnApp == [robot : Robots, value : Values]
Copy == [id : Ids, is_request : BOOLEAN, ok : BOOLEAN]

(* The types the argument needs; the cache may hold anything.              *)
Types ==
  /\ value \in [Robots -> Values]
  /\ had \in [Robots -> SUBSET Values]
  /\ shown \in [Robots -> Values \cup {None}]
  /\ request \in [Ids -> RequestOfAnApp \cup {NoRequest}]
  /\ travelling \subseteq Ids
  /\ \A id \in travelling : request[id] # NoRequest
  /\ inbox \in Seq(Copy)
  /\ reading \subseteq RequestOfAnApp

(* A response that says yes comes from a robot that has had the value.     *)
SaysYes(m)   == ~m.is_request /\ m.ok
WasHad(m) == request[m.id] # NoRequest /\ request[m.id].value \in had[request[m.id].robot]
Within(s, m) == \E i \in 1..Len(s) : s[i] = m
ConfirmedHad == \A m \in Copy : Within(inbox, m) /\ SaysYes(m) => WasHad(m)

(* What can be shown next has been had: the value, what was read, what was *)
(* confirmed.                                                              *)
IInv ==
  /\ Types
  /\ \A r \in Robots : value[r] \in had[r]
  /\ \A x \in reading : x.value \in had[x.robot]
  /\ ConfirmedHad

USE P2PAssumption

(* What an app asks is told apart from no request by its robot.            *)
LEMMA RequestFact ==
  /\ \A q \in RequestOfAnApp : q # NoRequest /\ q.robot \in Robots /\ q.value \in Values
  /\ \A q \in RequestOfAnApp \cup {NoRequest} : q # NoRequest => q \in RequestOfAnApp
  BY DEF RequestOfAnApp, NoRequest

(* The initial states are those of Setting and satisfy the invariant.      *)
LEMMA InitFact == Init => IInv /\ Promise!Init
<1> SUFFICES ASSUME Init PROVE IInv /\ Promise!Init
  OBVIOUS
<1>1. had \in [Robots -> {{v} : v \in Values}]
  BY DEF Init
<1>2. Promise!Init
  BY <1>1 DEF Init, Promise!Init
<1>3. Types
  BY DEF Init, Types
<1>4. QED
  BY <1>2, <1>3 DEF Init, IInv, ConfirmedHad, Within

(* The client only takes from the head of the inbox.                       *)
LEMMA TailFact ==
  ASSUME inbox \in Seq(Copy), inbox # <<>>
  PROVE  /\ Head(inbox) \in Copy /\ Within(inbox, Head(inbox))
         /\ Tail(inbox) \in Seq(Copy)
         /\ \A m \in Copy : Within(Tail(inbox), m) => Within(inbox, m)
<1>1. /\ Head(inbox) \in Copy /\ Head(inbox) = inbox[1] /\ 1 \in 1..Len(inbox)
      /\ Tail(inbox) \in Seq(Copy)
  OBVIOUS
<1>2. \A i \in 1..Len(Tail(inbox)) : /\ i + 1 \in 1..Len(inbox)
                                     /\ Tail(inbox)[i] = inbox[i + 1]
  OBVIOUS
<1> QED
  BY <1>1, <1>2 DEF Within

(* What arrives arrives at the end of the inbox.                           *)
LEMMA AppendFact ==
  ASSUME inbox \in Seq(Copy), NEW m \in Copy
  PROVE  /\ Append(inbox, m) \in Seq(Copy)
         /\ \A n \in Copy : Within(Append(inbox, m), n) => Within(inbox, n) \/ n = m
<1>1. Append(inbox, m) \in Seq(Copy)
  OBVIOUS
<1>2. \A i \in 1..Len(Append(inbox, m)) :
        \/ i \in 1..Len(inbox) /\ Append(inbox, m)[i] = inbox[i]
        \/ Append(inbox, m)[i] = m
  OBVIOUS
<1> QED
  BY <1>1, <1>2 DEF Within

(* What was confirmed stays so while nothing is added to the inbox.        *)
LEMMA ConfirmedKept ==
  ASSUME IInv, inbox' = inbox \/ (inbox # <<>> /\ inbox' = Tail(inbox)),
         request' = request, had' = had
  PROVE  inbox' \in Seq(Copy) /\ ConfirmedHad'
<1>1. inbox \in Seq(Copy) /\ ConfirmedHad
  BY DEF IInv, Types
<1>2. inbox' \in Seq(Copy) /\ \A m \in Copy : Within(inbox', m) => Within(inbox, m)
  BY <1>1, TailFact
<1> QED
  BY <1>1, <1>2 DEF ConfirmedHad, WasHad, SaysYes

(* A request is given to an id that had none.                              *)
LEMMA AskStep ==
  ASSUME IInv, NEW id \in Ids, NEW r \in Robots, NEW v \in Values, Ask(id, r, v)
  PROVE  IInv' /\ UNCHANGED <<had, shown>>
<1> USE DEF IInv, Types
<1> DEFINE q == [robot |-> r, value |-> v]
<1>1. q \in RequestOfAnApp /\ q # NoRequest
  BY RequestFact DEF RequestOfAnApp
<1>2. request' = [request EXCEPT ![id] = q] /\ travelling' = travelling \cup {id}
  BY DEF Ask
<1>3. /\ request' \in [Ids -> RequestOfAnApp \cup {NoRequest}]
      /\ \A x \in travelling' : request'[x] # NoRequest
  BY <1>1, <1>2
<1>4. \A x \in Ids : request[x] # NoRequest => request'[x] = request[x]
  BY <1>2 DEF Ask
<1>5. UNCHANGED <<value, had, shown, reading>>
  BY DEF Ask
<1>6. RequestCopy(id) \in Copy /\ ~SaysYes(RequestCopy(id))
  BY DEF RequestCopy, Copy, SaysYes
<1>7. \A m \in Copy : WasHad(m) => WasHad(m)'
  BY <1>4, <1>5 DEF WasHad, Copy
<1>8. inbox' = inbox \/ inbox' = Append(inbox, RequestCopy(id))
  BY DEF Ask
<1>9. inbox' \in Seq(Copy) /\ ConfirmedHad'
  <2>1. /\ Append(inbox, RequestCopy(id)) \in Seq(Copy)
        /\ \A m \in Copy :
             Within(Append(inbox, RequestCopy(id)), m) => Within(inbox, m) \/ m = RequestCopy(id)
    BY <1>6, AppendFact
  <2>2. CASE inbox' = inbox
    BY <1>6, <1>7, <2>2 DEF ConfirmedHad, SaysYes
  <2>3. CASE inbox' = Append(inbox, RequestCopy(id))
    BY <1>6, <1>7, <2>1, <2>3 DEF ConfirmedHad, SaysYes
  <2> QED
    BY <1>8, <2>2, <2>3
<1>10. travelling' \subseteq Ids
  BY <1>2
<1> QED
  BY <1>3, <1>5, <1>9, <1>10

(* Whoever obeys has had the value from then on, and says so afterwards.   *)
LEMMA ObeyStep ==
  ASSUME IInv, NEW id \in Ids, NEW lost \in BOOLEAN, Obey(id, lost)
  PROVE  IInv' /\ \E r \in Robots, v \in Values : Promise!Change(r, v)
<1> USE DEF IInv, Types
<1> DEFINE r == request[id].robot
           v == request[id].value
<1>1. id \in travelling /\ request[id] # NoRequest
  BY DEF Obey
<1>2. r \in Robots /\ v \in Values
  BY <1>1, RequestFact
<1>3. /\ value' = [value EXCEPT ![r] = v]
      /\ had' = [had EXCEPT ![r] = @ \cup {v}]
      /\ travelling' = travelling \ {id}
      /\ UNCHANGED <<shown, request, reading>>
  BY DEF Obey
<1>4. value' \in [Robots -> Values] /\ had' \in [Robots -> SUBSET Values]
  BY <1>2, <1>3
<1>5. \A x \in Robots : had[x] \subseteq had'[x] /\ value'[x] \in had'[x]
  BY <1>2, <1>3
<1>6. v \in had'[r]
  BY <1>2, <1>3
<1>7. \A x \in reading' : x.value \in had'[x.robot]
  BY <1>3, <1>5 DEF RequestOfAnApp
<1>8. \A m \in Copy : WasHad(m) => WasHad(m)'
  BY <1>3, <1>5, RequestFact DEF WasHad, Copy
<1>9. Response(id, TRUE) \in Copy /\ WasHad(Response(id, TRUE))'
  BY <1>1, <1>3, <1>6 DEF Response, Copy, WasHad
<1>10. inbox' = inbox \/ inbox' = Append(inbox, Response(id, TRUE))
  BY DEF Obey
<1>11. inbox' \in Seq(Copy) /\ ConfirmedHad'
  <2>1. /\ Append(inbox, Response(id, TRUE)) \in Seq(Copy)
        /\ \A m \in Copy :
             Within(Append(inbox, Response(id, TRUE)), m) => Within(inbox, m) \/ m = Response(id, TRUE)
    BY <1>9, AppendFact
  <2>2. CASE inbox' = inbox
    BY <1>8, <1>9, <2>2 DEF ConfirmedHad, SaysYes
  <2>3. CASE inbox' = Append(inbox, Response(id, TRUE))
    BY <1>8, <1>9, <2>1, <2>3 DEF ConfirmedHad, SaysYes
  <2> QED
    BY <1>10, <2>2, <2>3
<1>12. IInv'
  BY <1>3, <1>4, <1>5, <1>7, <1>11
<1>13. Promise!Change(r, v)
  BY <1>3 DEF Promise!Change
<1> QED
  BY <1>2, <1>12, <1>13

(* A refusal says no, whatever was asked.                                  *)
LEMMA RefuseStep ==
  ASSUME IInv, NEW id \in Ids, Refuse(id)
  PROVE  IInv' /\ UNCHANGED <<had, shown>>
<1> USE DEF IInv, Types
<1>1. Response(id, FALSE) \in Copy /\ ~SaysYes(Response(id, FALSE))
  BY DEF Response, Copy, SaysYes
<1>2. /\ inbox' = Append(inbox, Response(id, FALSE))
      /\ travelling' = travelling \ {id}
      /\ UNCHANGED <<value, had, shown, request, reading>>
  BY DEF Refuse
<1>3. /\ inbox' \in Seq(Copy)
      /\ \A m \in Copy : Within(inbox', m) => Within(inbox, m) \/ m = Response(id, FALSE)
  BY <1>1, <1>2, AppendFact
<1>4. ConfirmedHad'
  BY <1>1, <1>2, <1>3 DEF ConfirmedHad, SaysYes, WasHad
<1> QED
  BY <1>2, <1>3, <1>4

(* What a response or a request handled makes of the bus: a value that was *)
(* confirmed is shown, or nothing is.                                      *)
LEMMA ResponseStep ==
  ASSUME IInv, HandleResponse
  PROVE  /\ IInv'
         /\ \/ UNCHANGED <<had, shown>>
            \/ \E r \in Robots, v \in Values : Promise!Show(r, v)
<1> USE DEF IInv, Types
<1> DEFINE m == Head(inbox)
           r == request[m.id].robot
           v == request[m.id].value
<1>1. /\ inbox # <<>> /\ ~m.is_request /\ inbox' = Tail(inbox)
      /\ UNCHANGED <<value, had, request, travelling, reading>>
  BY DEF HandleResponse
<1>2. inbox' \in Seq(Copy) /\ ConfirmedHad'
  BY <1>1, ConfirmedKept
<1>3. m \in Copy /\ m.id \in Ids /\ Within(inbox, m)
  BY <1>1, TailFact DEF Copy
<1>4. CASE UNCHANGED shown
  BY <1>1, <1>2, <1>4
<1>5. CASE m.ok /\ Confirm(r, v) /\ ~UNCHANGED shown
  <2>1. shown' = [shown EXCEPT ![r] = v]
    BY <1>5 DEF Confirm
  <2>2. WasHad(m)
    BY <1>1, <1>3, <1>5 DEF ConfirmedHad, SaysYes
  <2>3. r \in Robots /\ v \in Values /\ v \in had[r]
    BY <1>3, <2>2, RequestFact DEF WasHad
  <2>4. shown' \in [Robots -> Values \cup {None}]
    BY <2>1, <2>3
  <2>5. Promise!Show(r, v)
    BY <1>1, <2>1, <2>3 DEF Promise!Show
  <2> QED
    BY <1>1, <1>2, <2>3, <2>4, <2>5
<1> QED
  BY <1>4, <1>5 DEF HandleResponse

(* A refresh reads the value the robot has and shows it later.             *)
LEMMA ReadStep ==
  ASSUME IInv, NEW r \in Robots, Read(r)
  PROVE  IInv' /\ UNCHANGED <<had, shown>>
<1> USE DEF IInv, Types
<1>1. /\ reading' = reading \cup {[robot |-> r, value |-> value[r]]}
      /\ UNCHANGED <<value, had, shown, request, travelling, inbox>>
  BY DEF Read
<1>2. [robot |-> r, value |-> value[r]] \in RequestOfAnApp
  BY DEF RequestOfAnApp
<1>3. inbox' \in Seq(Copy) /\ ConfirmedHad'
  BY <1>1, ConfirmedKept
<1> QED
  BY <1>1, <1>2, <1>3

LEMMA HandleReadStep ==
  ASSUME IInv, NEW x \in reading, HandleRead(x)
  PROVE  IInv' /\ \E r \in Robots, v \in Values : Promise!Show(r, v)
<1> USE DEF IInv, Types
<1>1. /\ reading' = reading \ {x}
      /\ shown' = [shown EXCEPT ![x.robot] = x.value]
      /\ UNCHANGED <<value, had, request, travelling, inbox>>
  BY DEF HandleRead
<1>2. x.robot \in Robots /\ x.value \in Values /\ x.value \in had[x.robot]
  BY DEF RequestOfAnApp
<1>3. inbox' \in Seq(Copy) /\ ConfirmedHad'
  BY <1>1, ConfirmedKept
<1>4. Promise!Show(x.robot, x.value)
  BY <1>1, <1>2 DEF Promise!Show
<1> QED
  BY <1>1, <1>2, <1>3, <1>4

(* The other steps neither tell the bus anything nor change the robot.     *)
LEMMA OtherStep ==
  ASSUME IInv,
         \/ \E id \in Ids : LoseRequest(id)
         \/ HandleRequest \/ Expire
         \/ \E r \in Robots : RequestRefresh(r)
         \/ UNCHANGED vars
  PROVE  IInv' /\ UNCHANGED <<had, shown>>
<1> USE DEF IInv, Types
<1>1. /\ inbox' = inbox \/ (inbox # <<>> /\ inbox' = Tail(inbox))
      /\ travelling' \subseteq travelling
      /\ UNCHANGED <<value, had, shown, request, reading>>
  BY DEF LoseRequest, HandleRequest, Expire, RequestRefresh, vars
<1>2. inbox' \in Seq(Copy) /\ ConfirmedHad'
  BY <1>1, ConfirmedKept
<1> QED
  BY <1>1, <1>2

(* Every step keeps the invariant, and is one that Setting allows.         *)
LEMMA StepFact == IInv /\ [Next]_vars => IInv' /\ [Promise!Next]_(Promise!vars)
<1> SUFFICES ASSUME IInv, [Next]_vars PROVE IInv' /\ [Promise!Next]_(Promise!vars)
  OBVIOUS
<1> DEFINE Simulated == IInv' /\ (Promise!Next \/ UNCHANGED <<had, shown>>)
<1> USE DEF Promise!Next
<1>1. ASSUME NEW id \in Ids, NEW r \in Robots, NEW v \in Values, Ask(id, r, v)
      PROVE Simulated
  BY <1>1, AskStep
<1>2. ASSUME NEW id \in Ids, NEW lost \in BOOLEAN, Obey(id, lost) PROVE Simulated
  BY <1>2, ObeyStep
<1>3. ASSUME NEW id \in Ids, Refuse(id) PROVE Simulated
  BY <1>3, RefuseStep
<1>4. ASSUME HandleResponse PROVE Simulated
  BY <1>4, ResponseStep
<1>5. ASSUME NEW r \in Robots, Read(r) PROVE Simulated
  BY <1>5, ReadStep
<1>6. ASSUME NEW x \in reading, HandleRead(x) PROVE Simulated
  BY <1>6, HandleReadStep
<1>7. ASSUME \/ \E id \in Ids : LoseRequest(id)
             \/ HandleRequest \/ Expire
             \/ \E r \in Robots : RequestRefresh(r)
             \/ UNCHANGED vars
      PROVE Simulated
  BY <1>7, OtherStep
<1>8. Simulated
  BY <1>1, <1>2, <1>3, <1>4, <1>5, <1>6, <1>7 DEF Next
<1> QED
  BY <1>8 DEF Promise!vars

(* What the bus shows of a setting is a value the robot has had, whatever  *)
(* is lost, late, refused, dropped from the cache or read in between: the  *)
(* detailed specification implements Setting.                              *)
THEOREM NeverUnconfirmed == Spec => NeverShownUnconfirmed
<1>1. Init => IInv /\ Promise!Init
  BY InitFact
<1>2. IInv /\ [Next]_vars => IInv' /\ [Promise!Next]_(Promise!vars)
  BY StepFact
<1> QED
  BY <1>1, <1>2, PTL DEF Spec, NeverShownUnconfirmed, Promise!Spec

-----------------------------------------------------------------------------
(* That the bus follows the robot takes two arguments.  The client knows   *)
(* the command of every response it handles, or has missed it: requests    *)
(* and responses keep their order, and each request is answered once.      *)
AnsweredOnce ==
  \A i \in 1..Len(inbox) : ~inbox[i].is_request =>
    /\ inbox[i].id \notin travelling /\ request[inbox[i].id] # NoRequest
    /\ \A j \in 1..Len(inbox) :
         ~inbox[j].is_request /\ inbox[j].id = inbox[i].id => j = i

Kept(id) == id \in dropped \/ \E i \in 1..Len(received) : received[i] = id
CopyWithin(id, n) == \E j \in 1..n : inbox[j].is_request /\ inbox[j].id = id

Traceable ==
  \A id \in Ids :
    /\ id \in travelling => Kept(id) \/ CopyWithin(id, Len(inbox))
    /\ \A i \in 1..Len(inbox) :
         ~inbox[i].is_request /\ inbox[i].id = id => Kept(id) \/ CopyWithin(id, i - 1)

Traced == received \in Seq(Ids) /\ AnsweredOnce /\ Traceable

(* What a sequence is after an element has been added or taken.            *)
LEMMA AppendIndex ==
  ASSUME NEW S, NEW s \in Seq(S), NEW e \in S
  PROVE  /\ Append(s, e) \in Seq(S)
         /\ Len(s) \in Nat /\ Len(Append(s, e)) = Len(s) + 1
         /\ \A i \in 1..Len(s) : Append(s, e)[i] = s[i]
         /\ Append(s, e)[Len(s) + 1] = e
OBVIOUS

LEMMA TailIndex ==
  ASSUME NEW S, NEW s \in Seq(S), s # <<>>
  PROVE  /\ Tail(s) \in Seq(S) /\ Head(s) = s[1] /\ 1 \in 1..Len(s)
         /\ Len(s) \in Nat /\ Len(Tail(s)) = Len(s) - 1
         /\ \A i \in 1..Len(s) - 1 : Tail(s)[i] = s[i + 1]
OBVIOUS

LEMMA CopyIndex ==
  ASSUME NEW s \in Seq(Copy), NEW i \in 1..Len(s)
  PROVE  s[i] \in Copy /\ s[i].id \in Ids /\ s[i].is_request \in BOOLEAN /\ s[i].ok \in BOOLEAN
<1>1. s[i] \in Copy
  OBVIOUS
<1> QED
  BY <1>1 DEF Copy

LEMMA RemoveIndex ==
  ASSUME NEW S, NEW s \in Seq(S), NEW i \in 1..Len(s)
  PROVE  /\ RemoveAt(s, i) \in Seq(S)
         /\ \A j \in 1..Len(s) : j # i =>
              \E k \in 1..Len(RemoveAt(s, i)) : RemoveAt(s, i)[k] = s[j]
<1> DEFINE front == SubSeq(s, 1, i - 1)
           back  == SubSeq(s, i + 1, Len(s))
<1>1. /\ front \in Seq(S) /\ Len(front) = i - 1
      /\ \A j \in 1..i - 1 : front[j] = s[j]
      /\ back \in Seq(S) /\ Len(back) = Len(s) - i
      /\ \A j \in 1..Len(s) - i : back[j] = s[i + j]
      /\ Len(s) \in Nat
  <2>1. front \in Seq(S) /\ Len(front) = i - 1 /\ Len(s) \in Nat
    OBVIOUS
  <2>2. \A j \in 1..i - 1 : front[j] = s[j]
    OBVIOUS
  <2>3. back \in Seq(S) /\ Len(back) = Len(s) - i
    OBVIOUS
  <2>4. \A j \in 1..Len(s) - i : back[j] = s[i + j]
    OBVIOUS
  <2> QED
    BY <2>1, <2>2, <2>3, <2>4
<1>2. RemoveAt(s, i) = front \o back
  BY DEF RemoveAt
<1> HIDE DEF front, back
<1>3. /\ RemoveAt(s, i) \in Seq(S) /\ Len(RemoveAt(s, i)) = Len(s) - 1
      /\ \A j \in 1..i - 1 : RemoveAt(s, i)[j] = s[j]
  <2>1. front \o back \in Seq(S) /\ Len(front \o back) = Len(front) + Len(back)
    BY <1>1, ConcatProperties
  <2>2. \A j \in 1..Len(front) : (front \o back)[j] = front[j]
    BY <1>1
  <2> QED
    BY <1>1, <1>2, <2>1, <2>2
<1>4. ASSUME NEW j \in i + 1..Len(s) PROVE RemoveAt(s, i)[j - 1] = s[j]
  <2>1. j - i \in 1..Len(back) /\ back[j - i] = s[j] /\ Len(front) + (j - i) = j - 1
    BY <1>1
  <2> QED
    BY <1>1, <1>2, <2>1
<1>5. ASSUME NEW j \in 1..Len(s), j # i
      PROVE  \E k \in 1..Len(RemoveAt(s, i)) : RemoveAt(s, i)[k] = s[j]
  <2>1. CASE j < i
    <3>1. j \in 1..i - 1 /\ j \in 1..Len(RemoveAt(s, i))
      BY <1>1, <1>3, <2>1
    <3> QED
      BY <1>3, <3>1
  <2>2. CASE j > i
    <3>1. j \in i + 1..Len(s) /\ j - 1 \in 1..Len(RemoveAt(s, i))
      BY <1>1, <1>3, <2>2
    <3> QED
      BY <1>4, <3>1
  <2> QED
    BY <1>5, <2>1, <2>2
<1> QED
  BY <1>3, <1>5

(* What leaves the cache for want of room or time is dropped.              *)
LEMMA KeepFact ==
  ASSUME received \in Seq(Ids), NEW id \in Ids,
         Keep(id) \/ Expire
  PROVE  /\ received' \in Seq(Ids)
         /\ \A x \in Ids : Kept(x) => Kept(x)'
         /\ Keep(id) => Kept(id)'
<1>1. received # <<>> \/ (Keep(id) /\ Len(received) < CacheSize)
  BY DEF Keep, Expire
<1>2. CASE Keep(id) /\ Len(received) < CacheSize
  <2>1. received' = Append(received, id) /\ dropped' = dropped
    BY <1>2 DEF Keep
  <2>2. \A i \in 1..Len(received) : i \in 1..Len(received') /\ received'[i] = received[i]
    BY <2>1, AppendIndex
  <2>3. Len(received) + 1 \in 1..Len(received') /\ received'[Len(received) + 1] = id
    BY <2>1, AppendIndex
  <2> QED
    BY <2>1, <2>2, <2>3, AppendIndex DEF Kept
<1>3. CASE received # <<>> /\ ~(Keep(id) /\ Len(received) < CacheSize)
  <2> DEFINE left == Tail(received)
  <2>1. /\ dropped' = dropped \cup {received[1]}
        /\ \/ Keep(id) /\ received' = Append(left, id)
           \/ ~Keep(id) /\ received' = left
    BY <1>3, TailIndex DEF Keep, Expire
  <2>2. /\ left \in Seq(Ids) /\ Len(left) = Len(received) - 1 /\ Len(left) \in Nat
        /\ \A i \in 1..Len(left) : left[i] = received[i + 1]
    BY <1>3, TailIndex
  <2> HIDE DEF left
  <2>3. /\ received' \in Seq(Ids)
        /\ \A i \in 1..Len(left) : i \in 1..Len(received') /\ received'[i] = left[i]
        /\ Keep(id) => \E i \in 1..Len(received') : received'[i] = id
    <3>1. CASE received' = left /\ ~Keep(id)
      BY <2>2, <3>1
    <3>2. CASE received' = Append(left, id)
      <4>1. Len(left) + 1 \in 1..Len(received') /\ received'[Len(left) + 1] = id
        BY <2>2, <3>2, AppendIndex
      <4> QED
        BY <2>2, <3>2, <4>1, AppendIndex
    <3> QED
      BY <2>1, <3>1, <3>2
  <2>4. ASSUME NEW x \in Ids, Kept(x) PROVE Kept(x)'
    <3>1. CASE x \in dropped'
      BY <3>1 DEF Kept
    <3>2. CASE x \notin dropped'
      <4>1. PICK i \in 1..Len(received) : received[i] = x
        BY <2>1, <2>4, <3>2 DEF Kept
      <4>2. i # 1
        BY <2>1, <3>2, <4>1
      <4>3. i - 1 \in 1..Len(left) /\ left[i - 1] = x
        BY <2>2, <4>1, <4>2
      <4> QED
        BY <2>3, <4>3 DEF Kept
    <3> QED
      BY <3>1, <3>2
  <2> QED
    BY <2>3, <2>4 DEF Kept
<1> QED
  BY <1>1, <1>2, <1>3

(* A step that leaves the inbox alone: what is travelling was, or is a new *)
(* request that the client will not see.                                   *)
LEMMA UnmovedTraced ==
  ASSUME Types, Traced, inbox' = inbox, received' \in Seq(Ids),
         \A x \in Ids : Kept(x) => Kept(x)',
         \A x \in Ids : request[x] # NoRequest => request'[x] # NoRequest,
         travelling' \subseteq Ids,
         \A x \in travelling' : x \in travelling \/ (Kept(x)' /\ request[x] = NoRequest)
  PROVE  Traced'
<1> USE DEF Types, Traced
<1>1. \A i \in 1..Len(inbox) : inbox[i].id \in Ids
  BY CopyIndex
<1>2. AnsweredOnce'
  BY <1>1 DEF AnsweredOnce
<1>3. ASSUME NEW x \in Ids PROVE Kept(x) => Kept(x)'
  OBVIOUS
<1>4. ASSUME NEW x \in Ids, NEW k, CopyWithin(x, k) PROVE CopyWithin(x, k)'
  BY <1>4 DEF CopyWithin
<1>5. ASSUME NEW x \in Ids, x \in travelling'
      PROVE  Kept(x)' \/ CopyWithin(x, Len(inbox))'
  <2>1. CASE x \in travelling
    <3>1. Kept(x) \/ CopyWithin(x, Len(inbox))
      BY <2>1 DEF Traceable
    <3> QED
      BY <1>3, <1>4, <3>1
  <2>2. CASE x \notin travelling
    BY <1>5, <2>2
  <2> QED
    BY <2>1, <2>2
<1>6. ASSUME NEW x \in Ids, NEW i \in 1..Len(inbox), ~inbox[i].is_request, inbox[i].id = x
      PROVE  Kept(x)' \/ CopyWithin(x, i - 1)'
  <2>1. Kept(x) \/ CopyWithin(x, i - 1)
    BY <1>6 DEF Traceable
  <2> QED
    BY <1>3, <1>4, <2>1
<1> HIDE DEF Types, Traced
<1>7. Traceable'
  BY <1>5, <1>6 DEF Traceable, CopyWithin
<1> QED
  BY <1>2, <1>7 DEF Traced

(* A copy arrives: that of a new request, or the one response to a request *)
(* that was travelling.                                                    *)
LEMMA ArrivedTraced ==
  ASSUME Types, Traced, NEW m \in Copy, inbox' = Append(inbox, m),
         UNCHANGED <<received, dropped>>,
         \A x \in Ids : request[x] # NoRequest => request'[x] # NoRequest,
         m.is_request => request[m.id] = NoRequest /\ travelling' = travelling \cup {m.id},
         ~m.is_request => /\ m.id \in travelling /\ request[m.id] # NoRequest
                          /\ travelling' = travelling \ {m.id}
  PROVE  Traced'
<1> USE DEF Types, Traced
<1> DEFINE n == Len(inbox)
<1>1. /\ inbox' \in Seq(Copy) /\ n \in Nat /\ Len(inbox') = n + 1
      /\ \A i \in 1..n : inbox'[i] = inbox[i]
      /\ inbox'[n + 1] = m
  BY AppendIndex
<1> HIDE DEF n
<1>2. \A i \in 1..Len(inbox') : (i \in 1..n /\ inbox'[i] = inbox[i]) \/ (i = n + 1 /\ inbox'[i] = m)
  BY <1>1
<1>3. m.id \in Ids /\ m.is_request \in BOOLEAN /\ \A i \in 1..n : inbox[i].id \in Ids
  BY CopyIndex DEF Copy, n
<1>4. \A i \in 1..n : ~inbox[i].is_request => inbox[i].id # m.id /\ inbox[i].id \notin travelling'
  BY <1>3 DEF AnsweredOnce, n
<1>5. AnsweredOnce'
  BY <1>1, <1>2, <1>3, <1>4 DEF AnsweredOnce, n
<1>6. \A x \in Ids, k \in 0..n : CopyWithin(x, k) => \E j \in 1..k : inbox'[j].is_request /\ inbox'[j].id = x
  BY <1>1 DEF CopyWithin
<1>7. \A x \in Ids : x \in travelling =>
        Kept(x) \/ \E j \in 1..n : inbox'[j].is_request /\ inbox'[j].id = x
  BY <1>1, <1>6 DEF Traceable, n
<1>8. ASSUME NEW x \in Ids, x \in travelling'
      PROVE  Kept(x)' \/ \E j \in 1..Len(inbox') : inbox'[j].is_request /\ inbox'[j].id = x
  <2>1. CASE x \in travelling
    BY <1>1, <1>7, <2>1 DEF Kept
  <2>2. CASE m.is_request /\ x = m.id
    <3>1. n + 1 \in 1..Len(inbox')
      BY <1>1
    <3> QED
      BY <1>1, <2>2, <3>1
  <2> QED
    BY <1>3, <1>8, <2>1, <2>2
<1>9. ASSUME NEW x \in Ids, NEW i \in 1..Len(inbox'), ~inbox'[i].is_request, inbox'[i].id = x
      PROVE  Kept(x)' \/ \E j \in 1..i - 1 : inbox'[j].is_request /\ inbox'[j].id = x
  <2>1. CASE i \in 1..n /\ inbox'[i] = inbox[i]
    <3>1. Kept(x) \/ CopyWithin(x, i - 1)
      BY <1>9, <2>1 DEF Traceable, n
    <3>2. i - 1 \in 0..n
      BY <1>1, <2>1
    <3> QED
      BY <1>6, <3>1, <3>2 DEF Kept
  <2>2. CASE i = n + 1 /\ inbox'[i] = m
    <3>1. x \in travelling /\ i - 1 = n
      BY <1>1, <1>9, <2>2
    <3> QED
      BY <1>7, <3>1 DEF Kept
  <2> QED
    BY <1>2, <2>1, <2>2
<1> HIDE DEF Types, Traced, n
<1>10. Traceable'
  BY <1>8, <1>9 DEF Traceable, CopyWithin
<1> QED
  BY <1>5, <1>10 DEF Traced

(* The client handles a copy: it keeps a request, and forgets at most what *)
(* a response is about.                                                    *)
LEMMA HandledTraced ==
  ASSUME Types, Traced, inbox # <<>>, inbox' = Tail(inbox), received' \in Seq(Ids),
         \A x \in Ids : Kept(x) => Kept(x)' \/ (~inbox[1].is_request /\ x = inbox[1].id),
         \A x \in Ids : inbox[1].is_request /\ inbox[1].id = x => Kept(x)',
         UNCHANGED <<request, travelling>>
  PROVE  Traced'
<1> USE DEF Types, Traced
<1> DEFINE n == Len(inbox)
<1>1. /\ n \in Nat /\ Len(inbox') = n - 1 /\ 1 \in 1..n
      /\ \A i \in 1..n - 1 : i + 1 \in 1..n /\ inbox'[i] = inbox[i + 1]
  BY TailIndex
<1> HIDE DEF n
<1>2. \A i \in 1..n : inbox[i].id \in Ids
  BY CopyIndex DEF n
<1>3. AnsweredOnce'
  BY <1>1, <1>2 DEF AnsweredOnce, n
<1>4. \A x \in Ids, k \in 1..n :
        CopyWithin(x, k) => \/ Kept(x)'
                            \/ \E j \in 1..k - 1 : inbox'[j].is_request /\ inbox'[j].id = x
  <2> SUFFICES ASSUME NEW x \in Ids, NEW k \in 1..n,
                      NEW j \in 1..k, inbox[j].is_request, inbox[j].id = x
               PROVE  \/ Kept(x)'
                      \/ \E l \in 1..k - 1 : inbox'[l].is_request /\ inbox'[l].id = x
    BY DEF CopyWithin
  <2>1. CASE j = 1
    BY <2>1
  <2>2. CASE j # 1
    <3>1. j - 1 \in 1..k - 1 /\ inbox'[j - 1] = inbox[j]
      BY <1>1, <2>2
    <3> QED
      BY <3>1
  <2> QED
    BY <2>1, <2>2
<1>5. ASSUME NEW x \in Ids, x \in travelling'
      PROVE  Kept(x)' \/ \E j \in 1..Len(inbox') : inbox'[j].is_request /\ inbox'[j].id = x
  <2>1. ~inbox[1].is_request => inbox[1].id # x
    BY <1>1, <1>5 DEF AnsweredOnce, n
  <2>2. Kept(x) \/ CopyWithin(x, n)
    BY <1>5 DEF Traceable, n
  <2> QED
    BY <1>1, <1>4, <2>1, <2>2
<1>6. ASSUME NEW x \in Ids, NEW i \in 1..Len(inbox'), ~inbox'[i].is_request, inbox'[i].id = x
      PROVE  Kept(x)' \/ \E j \in 1..i - 1 : inbox'[j].is_request /\ inbox'[j].id = x
  <2>1. i \in 1..n - 1 /\ i + 1 \in 1..n /\ i \in 1..n /\ i + 1 # 1 /\ (i + 1) - 1 = i
    BY <1>1
  <2>2. ~inbox[i + 1].is_request /\ inbox[i + 1].id = x
    BY <1>1, <1>6, <2>1
  <2>3. ~inbox[1].is_request => inbox[1].id # x
    BY <1>1, <2>1, <2>2 DEF AnsweredOnce, n
  <2>4. Kept(x) \/ CopyWithin(x, i)
    BY <2>1, <2>2 DEF Traceable, n
  <2> QED
    BY <1>4, <2>1, <2>3, <2>4
<1>7. Traceable'
  BY ONLY <1>5, <1>6 DEF Traceable, CopyWithin
<1> QED
  BY <1>3, <1>7

LEMMA InitTraced == Init => Traced
<1> SUFFICES ASSUME Init PROVE Traced
  OBVIOUS
<1>1. received = <<>> /\ inbox = <<>> /\ travelling = {}
  BY DEF Init
<1> QED
  BY <1>1 DEF Traced, AnsweredOnce, Traceable

LEMMA NextTraced == ASSUME Types, Traced, [Next]_vars PROVE Traced'
<1> USE DEF Types, Traced
<1>1. ASSUME NEW id \in Ids, NEW r \in Robots, NEW v \in Values, Ask(id, r, v)
      PROVE  Traced'
  <2>1. /\ request[id] = NoRequest /\ travelling' = travelling \cup {id}
        /\ request' = [request EXCEPT ![id] = [robot |-> r, value |-> v]]
        /\ UNCHANGED received
    BY <1>1 DEF Ask
  <2>2. \A x \in Ids : request[x] # NoRequest => request'[x] # NoRequest
    BY <2>1
  <2>3. CASE inbox' = Append(inbox, RequestCopy(id)) /\ UNCHANGED dropped
    <3>1. RequestCopy(id) \in Copy /\ RequestCopy(id).id = id /\ RequestCopy(id).is_request
      BY DEF RequestCopy, Copy
    <3> QED
      BY <2>1, <2>2, <2>3, <3>1, ArrivedTraced
  <2>4. CASE dropped' = dropped \cup {id} /\ UNCHANGED inbox
    <3>1. Kept(id)' /\ \A x \in Ids : Kept(x) => Kept(x)'
      BY <2>1, <2>4 DEF Kept
    <3>2. \A x \in travelling' : x \in travelling \/ (Kept(x)' /\ request[x] = NoRequest)
      BY <2>1, <2>4 DEF Kept
    <3> QED
      BY <2>1, <2>2, <2>4, <3>1, <3>2, UnmovedTraced
  <2> QED
    BY <1>1, <2>3, <2>4 DEF Ask
<1>2. ASSUME NEW id \in Ids, NEW ok \in BOOLEAN,
             id \in travelling, travelling' = travelling \ {id},
             inbox' = Append(inbox, Response(id, ok)), UNCHANGED <<request, received, dropped>>
      PROVE  Traced'
  <2>1. Response(id, ok) \in Copy /\ Response(id, ok).id = id /\ ~Response(id, ok).is_request
    BY DEF Response, Copy
  <2> QED
    BY <1>2, <2>1, ArrivedTraced
<1>3. ASSUME NEW id \in Ids, NEW lost \in BOOLEAN,
             (Obey(id, lost) /\ inbox' # inbox) \/ Refuse(id)
      PROVE  Traced'
  BY <1>2, <1>3 DEF Obey, Refuse
<1>4. ASSUME UNCHANGED <<inbox, request, received, dropped>>, travelling' \subseteq travelling
      PROVE  Traced'
  <2>1. \A x \in Ids : Kept(x) => Kept(x)'
    BY <1>4 DEF Kept
  <2> QED
    BY <1>4, <2>1, UnmovedTraced
<1>5. ASSUME NEW id \in Ids, NEW lost \in BOOLEAN,
             LoseRequest(id) \/ (Obey(id, lost) /\ inbox' = inbox)
      PROVE  Traced'
  <2>1. UNCHANGED <<inbox, request, received, dropped>> /\ travelling' \subseteq travelling
    BY <1>5 DEF LoseRequest, Obey
  <2> QED
    BY <1>4, <2>1
<1>6. CASE HandleRequest
  <2>1. /\ inbox # <<>> /\ inbox[1].is_request /\ inbox[1].id \in Ids /\ inbox' = Tail(inbox)
        /\ Keep(inbox[1].id) /\ UNCHANGED <<request, travelling>>
    BY <1>6, TailIndex, CopyIndex DEF HandleRequest
  <2>2. PICK id \in Ids : inbox[1].id = id
    BY <2>1
  <2>3. received' \in Seq(Ids) /\ Kept(id)' /\ \A x \in Ids : Kept(x) => Kept(x)'
    BY <2>1, <2>2, KeepFact
  <2> QED
    BY <2>1, <2>2, <2>3, HandledTraced
<1>7. CASE HandleResponse
  <2>1. /\ inbox # <<>> /\ ~inbox[1].is_request /\ inbox[1].id \in Ids /\ inbox' = Tail(inbox)
        /\ UNCHANGED <<request, travelling, dropped>>
    BY <1>7, TailIndex, CopyIndex DEF HandleResponse
  <2>2. PICK id \in Ids : inbox[1].id = id
    BY <2>1
  <2>3. CASE UNCHANGED received
    BY <2>1, <2>2, <2>3, HandledTraced DEF Kept
  <2>4. ASSUME NEW i \in 1..Len(received), received[i] = id, received' = RemoveAt(received, i)
        PROVE  Traced'
    <3> DEFINE rest == RemoveAt(received, i)
    <3>1. received \in Seq(Ids) /\ i \in 1..Len(received)
      BY DEF Traced
    <3>2. /\ rest \in Seq(Ids)
          /\ \A j \in 1..Len(received) : j # i => \E k \in 1..Len(rest) : rest[k] = received[j]
      BY ONLY <3>1, RemoveIndex
    <3> HIDE DEF rest
    <3>3. received' = rest
      BY <2>4 DEF rest
    <3>4. \A x \in Ids : Kept(x) /\ x # id => Kept(x)'
      <4> SUFFICES ASSUME NEW x \in Ids, Kept(x), x # id PROVE Kept(x)'
        OBVIOUS
      <4>1. CASE x \in dropped
        BY <2>1, <4>1 DEF Kept
      <4>2. CASE \E j \in 1..Len(received) : received[j] = x
        <5>1. PICK j \in 1..Len(received) : received[j] = x
          BY <4>2
        <5>2. j # i
          BY <2>4, <5>1
        <5> QED
          BY <3>2, <3>3, <5>1, <5>2 DEF Kept
      <4> QED
        BY <4>1, <4>2 DEF Kept
    <3> QED
      BY <2>1, <2>2, <3>2, <3>3, <3>4, HandledTraced
  <2> QED
    BY <1>7, <2>1, <2>2, <2>3, <2>4, TailIndex DEF HandleResponse
<1>8. CASE Expire
  <2>1. ASSUME NEW id \in Ids PROVE Traced'
    <3>1. received' \in Seq(Ids) /\ \A x \in Ids : Kept(x) => Kept(x)'
      BY <1>8, KeepFact
    <3> QED
      BY <1>8, <3>1, UnmovedTraced DEF Expire
  <2>2. received[1] \in Ids
    BY <1>8 DEF Expire
  <2> QED
    BY <2>1, <2>2
<1>9. ASSUME NEW r \in Robots, RequestRefresh(r) \/ Read(r) PROVE Traced'
  BY <1>4, <1>9 DEF RequestRefresh, Read
<1>10. ASSUME NEW x \in reading, HandleRead(x) PROVE Traced'
  BY <1>4, <1>10 DEF HandleRead
<1>11. CASE UNCHANGED vars
  BY <1>4, <1>11 DEF vars
<1> QED
  BY <1>1, <1>3, <1>5, <1>6, <1>7, <1>8, <1>9, <1>10, <1>11 DEF Next

(* Of a robot of which no change was missed: the last response that says   *)
(* yes is about its value, what a refresh has read is its value, and       *)
(* unless one of these is still to come, its value is shown.               *)
YesAt(i, r) == SaysYes(inbox[i]) /\ request[inbox[i].id].robot = r

Confirms(r) ==
  \A i \in 1..Len(inbox) : YesAt(i, r) =>
    \/ request[inbox[i].id].value = value[r]
    \/ \E j \in i + 1..Len(inbox) : YesAt(j, r)
Reads(r) == \A x \in reading : x.robot = r => x.value = value[r]
Comes(r) == Refreshing(r) \/ \E i \in 1..Len(inbox) : YesAt(i, r)

Follows(r) == r \in missed \/ (Confirms(r) /\ Reads(r) /\ (Comes(r) \/ shown[r] = value[r]))

(* A robot whose answer is on its way to the bus is not asked again.       *)
OneRefresh == \A x \in reading : x.robot \notin due

Followed == OneRefresh /\ \A r \in Robots : Follows(r)

(* A step whose message, if it has one, says no yes of the robot.          *)
Silent(r) ==
  /\ value'[r] = value[r]
  /\ \A x \in Ids : request[x] # NoRequest => request'[x] = request[x]
  /\ \/ inbox' = inbox
     \/ \E m \in Copy : /\ inbox' = Append(inbox, m)
                        /\ SaysYes(m) => request'[m.id].robot # r
     \/ inbox # <<>> /\ ~YesAt(1, r) /\ inbox' = Tail(inbox)

LEMMA Saying ==
  ASSUME Types, Traced, NEW r \in Robots, Silent(r)
  PROVE  /\ Confirms(r) => Confirms(r)'
         /\ (\E i \in 1..Len(inbox) : YesAt(i, r)) => (\E i \in 1..Len(inbox') : YesAt(i, r)')
<1> USE DEF Types, Traced, Silent
<1> DEFINE n == Len(inbox)
<1>1. \A i \in 1..n : inbox[i].id \in Ids /\ inbox[i].is_request \in BOOLEAN
  BY CopyIndex
<1>2. \A i \in 1..n : SaysYes(inbox[i]) => request'[inbox[i].id] = request[inbox[i].id]
  BY <1>1 DEF AnsweredOnce, SaysYes
<1>3. CASE inbox' = inbox
  <2>1. \A i \in 1..n : YesAt(i, r)' <=> YesAt(i, r)
    BY <1>2, <1>3 DEF YesAt, SaysYes
  <2>2. \A i \in 1..n : YesAt(i, r) => request'[inbox[i].id].value = request[inbox[i].id].value
    BY <1>2 DEF YesAt
  <2>3. \A i \in 1..n : \A j \in i + 1..n : j \in 1..n
    OBVIOUS
  <2> QED
    BY <1>3, <2>1, <2>2, <2>3 DEF Confirms
<1>4. ASSUME NEW m \in Copy, inbox' = Append(inbox, m), SaysYes(m) => request'[m.id].robot # r
      PROVE  /\ Confirms(r) => Confirms(r)'
             /\ (\E i \in 1..Len(inbox) : YesAt(i, r)) => (\E i \in 1..Len(inbox') : YesAt(i, r)')
  <2>1. /\ n \in Nat /\ Len(inbox') = n + 1
        /\ \A i \in 1..n : inbox'[i] = inbox[i]
        /\ inbox'[n + 1] = m
    BY <1>4, AppendIndex
  <2>2. \A i \in 1..n : YesAt(i, r)' <=> YesAt(i, r)
    BY <1>2, <2>1 DEF YesAt, SaysYes
  <2>3. \A i \in {n + 1} : ~YesAt(i, r)'
    BY <1>4, <2>1 DEF YesAt, SaysYes
  <2> HIDE DEF n
  <2>4. \A i \in 1..Len(inbox') : YesAt(i, r)' => i \in 1..n /\ YesAt(i, r)
    BY <2>1, <2>2, <2>3
  <2>5. 1..n \subseteq 1..Len(inbox')
    BY <2>1
  <2>6. \A i \in 1..n : YesAt(i, r) => request'[inbox'[i].id].value = request[inbox[i].id].value
    BY <1>2, <2>1 DEF YesAt
  <2>7. ASSUME Confirms(r), NEW i \in 1..Len(inbox'), YesAt(i, r)'
        PROVE  \/ request'[inbox'[i].id].value = value'[r]
               \/ \E j \in i + 1..Len(inbox') : YesAt(j, r)'
    <3>1. i \in 1..n /\ YesAt(i, r)
      BY <2>4, <2>7
    <3>2. \/ request[inbox[i].id].value = value[r]
          \/ \E j \in i + 1..n : YesAt(j, r)
      BY <2>7, <3>1 DEF Confirms, n
    <3>3. \A j \in i + 1..n : j \in 1..n /\ j \in i + 1..Len(inbox')
      BY <2>1, <3>1
    <3> QED
      BY <2>2, <2>6, <3>1, <3>2, <3>3
  <2>8. Confirms(r) => Confirms(r)'
    BY <2>7 DEF Confirms
  <2> QED
    BY <2>2, <2>5, <2>8 DEF n
<1>5. CASE inbox # <<>> /\ ~YesAt(1, r) /\ inbox' = Tail(inbox)
  <2>1. /\ n \in Nat /\ Len(inbox') = n - 1 /\ 1 \in 1..n
        /\ \A i \in 1..n - 1 : i + 1 \in 1..n /\ inbox'[i] = inbox[i + 1]
    <3>1. inbox \in Seq(Copy) /\ inbox # <<>>
      BY <1>5 DEF Types
    <3>2. /\ Len(Tail(inbox)) = Len(inbox) - 1 /\ Len(inbox) \in Nat \ {0}
          /\ \A i \in 1..Len(inbox) - 1 : Tail(inbox)[i] = inbox[i + 1]
      BY ONLY <3>1, TailIndex
    <3>3. inbox' = Tail(inbox)
      BY <1>5
    <3>4. n \in Nat \ {0} /\ Len(inbox') = n - 1 /\ \A i \in 1..n - 1 : inbox'[i] = inbox[i + 1]
      BY ONLY <3>2, <3>3 DEF n
    <3>5. 1 \in 1..n /\ \A i \in 1..n - 1 : i + 1 \in 1..n
      BY ONLY <3>4
    <3> QED
      BY ONLY <3>4, <3>5
  <2>2. \A i \in 1..n - 1 : YesAt(i, r)' <=> YesAt(i + 1, r)
    <3> SUFFICES ASSUME NEW i \in 1..n - 1 PROVE YesAt(i, r)' <=> YesAt(i + 1, r)
      OBVIOUS
    <3>1. i + 1 \in 1..n /\ inbox'[i] = inbox[i + 1]
      BY <2>1
    <3> QED
      BY <1>2, <3>1 DEF YesAt, SaysYes
  <2>3. \A i \in 1..n - 1 : YesAt(i + 1, r) =>
          request'[inbox'[i].id].value = request[inbox[i + 1].id].value
    BY <1>2, <2>1 DEF YesAt
  <2> HIDE DEF n
  <2>4. ASSUME NEW k \in Nat, NEW i \in k + 1..n, YesAt(i, r)
        PROVE  \E j \in k..Len(inbox') : j \in 1..Len(inbox') /\ YesAt(j, r)'
    <3>1. i # 1
      BY <1>5, <2>4
    <3>2. i - 1 \in 1..n - 1 /\ i - 1 \in k..Len(inbox') /\ (i - 1) + 1 = i
      BY <2>1, <3>1
    <3> QED
      BY <2>1, <2>2, <2>4, <3>2
  <2>5. ASSUME Confirms(r), NEW i \in 1..Len(inbox'), YesAt(i, r)'
        PROVE  \/ request'[inbox'[i].id].value = value'[r]
               \/ \E j \in i + 1..Len(inbox') : YesAt(j, r)'
    <3>1. i \in 1..n - 1 /\ i + 1 \in 1..n /\ i + 1 \in Nat
      BY <2>1
    <3>3. YesAt(i + 1, r)
      BY <2>2, <2>5, <3>1
    <3>2. \/ request[inbox[i + 1].id].value = value[r]
          \/ \E j \in (i + 1) + 1..n : YesAt(j, r)
      BY <2>5, <3>1, <3>3 DEF Confirms, n
    <3> QED
      BY <2>3, <2>4, <3>1, <3>2, <3>3
  <2>6. Confirms(r) => Confirms(r)'
    BY <2>5 DEF Confirms
  <2>7. (\E i \in 1..n : YesAt(i, r)) => \E j \in 1..Len(inbox') : YesAt(j, r)'
    <3>1. \A i \in 1..n : i \in 0 + 1..n
      BY <2>1
    <3> QED
      BY <2>4, <3>1
  <2> QED
    BY <2>6, <2>7 DEF n
<1> QED
  BY <1>3, <1>4, <1>5

(* A step that is about other robots.                                      *)
Elsewhere(r) ==
  /\ Silent(r)
  /\ shown'[r] = shown[r]
  /\ Refreshing(r) => Refreshing(r)'
  /\ \A x \in reading' : x.robot = r => x \in reading
  /\ r \in missed => r \in missed'

LEMMA ElsewhereFollows ==
  ASSUME Types, Traced, NEW r \in Robots, Follows(r), Elsewhere(r)
  PROVE  Follows(r)'
<1>1. /\ Confirms(r) => Confirms(r)'
      /\ (\E i \in 1..Len(inbox) : YesAt(i, r)) => (\E i \in 1..Len(inbox') : YesAt(i, r)')
  BY Saying DEF Elsewhere
<1>2. Comes(r) => Comes(r)'
  BY <1>1 DEF Comes, Elsewhere
<1>3. Reads(r) => Reads(r)'
  BY DEF Reads, Elsewhere, Silent
<1> QED
  BY <1>1, <1>2, <1>3 DEF Follows, Elsewhere, Silent

LEMMA InitFollowed == Init => Followed
  BY DEF Init, Followed, OneRefresh, Follows

(* The robot obeys: its response is the last, unless the client missed it. *)
LEMMA ObeyFollows ==
  ASSUME IInv, Traced, Followed, NEW id \in Ids, NEW lost \in BOOLEAN, Obey(id, lost)
  PROVE  Followed'
<1> USE DEF IInv, Types
<1>1. PICK o \in Robots, v \in Values : request[id].robot = o /\ request[id].value = v
  BY RequestFact DEF Obey
<1>2. /\ value' = [value EXCEPT ![o] = v]
      /\ inbox' = IF lost THEN inbox ELSE Append(inbox, Response(id, TRUE))
      /\ missed' = missed \cup {x \in {o} : lost \/ \E y \in reading : y.robot = o}
      /\ UNCHANGED <<shown, request, due, reading>>
  BY <1>1 DEF Obey
<1>3. value'[o] = v /\ \A r \in Robots : r # o => value'[r] = value[r]
  BY <1>1, <1>2
<1>4. Response(id, TRUE) \in Copy /\ Response(id, TRUE).id = id /\ SaysYes(Response(id, TRUE))
  BY DEF Response, Copy, SaysYes
<1>5. ASSUME NEW r \in Robots, r # o PROVE Follows(r)'
  <2>1. Silent(r)
    BY <1>1, <1>2, <1>3, <1>4, <1>5 DEF Silent
  <2>2. Elsewhere(r)
    BY <1>2, <2>1 DEF Elsewhere, Refreshing
  <2> QED
    BY <2>2, ElsewhereFollows DEF Followed
<1>6. ASSUME o \notin missed' PROVE Follows(o)'
  <2>1. inbox' = Append(inbox, Response(id, TRUE)) /\ \A y \in reading' : y.robot # o
    BY <1>2, <1>6
  <2>2. PICK m \in Copy : m = Response(id, TRUE)
    BY <1>4
  <2>3. /\ Len(inbox) \in Nat /\ Len(inbox') = Len(inbox) + 1
        /\ inbox'[Len(inbox) + 1] = m
    <3>1. inbox \in Seq(Copy)
      OBVIOUS
    <3>2. inbox' = Append(inbox, m)
      BY <2>1, <2>2
    <3> QED
      BY ONLY <3>1, <3>2, AppendIndex
  <2>4. PICK last \in 1..Len(inbox') : last = Len(inbox') /\ inbox'[last] = Response(id, TRUE)
    <3>1. Len(inbox') \in 1..Len(inbox') /\ inbox'[Len(inbox')] = m
      BY <2>3
    <3> QED
      BY <2>2, <3>1
  <2>5. YesAt(last, o)' /\ request'[inbox'[last].id].value = value'[o]
    BY <1>1, <1>2, <1>3, <1>4, <2>4 DEF YesAt
  <2>6. \A i \in 1..Len(inbox') : i = last \/ last \in i + 1..Len(inbox')
    BY <2>2, <2>4
  <2>7. Confirms(o)' /\ Comes(o)'
    BY <2>5, <2>6 DEF Confirms, Comes
  <2> QED
    BY <2>1, <2>7 DEF Follows, Reads
<1>7. OneRefresh'
  BY <1>2 DEF Followed, OneRefresh
<1> QED
  BY <1>5, <1>6, <1>7 DEF Followed, Follows

(* A response is handled.  If it says yes, the client has its request or   *)
(* has missed the change; what it shows then is the robot's value unless   *)
(* another such response follows.                                          *)
LEMMA ResponseFollows ==
  ASSUME IInv, Traced, Followed, HandleResponse
  PROVE  Followed'
<1> USE DEF IInv, Types
<1>1. /\ inbox # <<>> /\ ~inbox[1].is_request /\ inbox[1] \in Copy /\ inbox[1].id \in Ids
      /\ 1 \in 1..Len(inbox)
      /\ inbox[1].ok \in BOOLEAN /\ inbox' = Tail(inbox)
      /\ UNCHANGED <<value, request, travelling, dropped, reading>>
  BY TailIndex, CopyIndex DEF HandleResponse
<1>2. request[inbox[1].id] # NoRequest
  BY <1>1 DEF Traced, AnsweredOnce
<1>3. PICK id \in Ids, o \in Robots, v \in Values :
        inbox[1].id = id /\ request[id].robot = o /\ request[id].value = v
  BY <1>1, <1>2, RequestFact
<1>4. /\ missed' = missed \cup {x \in {o} : inbox[1].ok /\ id \in dropped}
      /\ \/ inbox[1].ok /\ Confirm(o, v)
         \/ ~inbox[1].ok /\ UNCHANGED <<shown, due>>
         \/ (\A i \in 1..Len(received) : received[i] # id) /\ UNCHANGED <<shown, due>>
  BY <1>1, <1>3, TailIndex DEF HandleResponse, Contains
<1>5. /\ \A r \in Robots : r # o => shown'[r] = shown[r]
      /\ due \subseteq due' /\ due' \subseteq due \cup {x \in {o} : ~Refreshing(x)}
  BY <1>4 DEF Confirm
<1>6. \A r \in Robots : Refreshing(r) => Refreshing(r)'
  BY <1>1, <1>5 DEF Refreshing
<1>7. ASSUME NEW r \in Robots, r # o \/ (~inbox[1].ok /\ UNCHANGED shown) PROVE Follows(r)'
  <2>1. ~YesAt(1, r)
    BY <1>3, <1>7 DEF YesAt, SaysYes
  <2>2. Elsewhere(r)
    BY <1>1, <1>4, <1>5, <1>6, <1>7, <2>1 DEF Elsewhere, Silent
  <2> QED
    BY <2>2, ElsewhereFollows DEF Followed
<1>8. ASSUME inbox[1].ok, o \notin missed' PROVE Follows(o)'
  <2>1. id \notin dropped /\ o \notin missed
    BY <1>4, <1>8
  <2>2. \E i \in 1..Len(received) : received[i] = id
    BY <1>1, <1>3, <2>1 DEF Traced, Traceable, Kept, CopyWithin
  <2>3. Confirm(o, v)
    BY <1>4, <1>8, <2>2
  <2>4. YesAt(1, o) /\ Confirms(o) /\ Reads(o)
    BY <1>1, <1>3, <1>8, <2>1 DEF YesAt, SaysYes, Followed, Follows
  <2>5. Reads(o)'
    BY <1>1, <2>4 DEF Reads
  <2>6. /\ Len(inbox) \in Nat /\ Len(inbox') = Len(inbox) - 1
        /\ \A i \in 1..Len(inbox) - 1 : inbox'[i] = inbox[i + 1]
    BY <1>1, TailIndex
  <2>7. \A i \in 1..Len(inbox') : YesAt(i, o)' <=> YesAt(i + 1, o)
    BY <1>1, <2>6 DEF YesAt
  <2>8. ASSUME NEW i \in 1..Len(inbox), YesAt(i, o), request[inbox[i].id].value # value[o]
        PROVE  \E j \in i..Len(inbox') : YesAt(j, o)'
    <3>1. PICK j \in i + 1..Len(inbox) : YesAt(j, o)
      BY <2>4, <2>8 DEF Confirms
    <3>2. j - 1 \in 1..Len(inbox') /\ j - 1 \in i..Len(inbox') /\ (j - 1) + 1 = j
      BY <2>6
    <3> QED
      BY <2>7, <3>1, <3>2
  <2>9. ASSUME NEW i \in 1..Len(inbox'), YesAt(i, o)'
        PROVE  \/ request'[inbox'[i].id].value = value'[o]
               \/ \E j \in i + 1..Len(inbox') : YesAt(j, o)'
    <3>1. i + 1 \in 1..Len(inbox) /\ inbox'[i] = inbox[i + 1] /\ YesAt(i + 1, o)
      BY <2>6, <2>7, <2>9
    <3> QED
      BY <1>1, <2>8, <3>1
  <2>10. Confirms(o)'
    BY <2>9 DEF Confirms
  <2>11. Comes(o)' \/ shown'[o] = value'[o]
    <3>1. CASE o \in resettable
      BY <1>5, <1>6, <2>3, <3>1 DEF Confirm, Comes, Refreshing
    <3>2. CASE o \notin resettable /\ v = value[o]
      BY <1>1, <2>3, <3>2 DEF Confirm
    <3>3. CASE v # value[o]
      <4>1. PICK j \in 1..Len(inbox') : YesAt(j, o)'
        BY <1>1, <1>3, <2>4, <2>8, <3>3
      <4> QED
        BY <4>1 DEF Comes
    <3> QED
      BY <3>1, <3>2, <3>3
  <2> QED
    BY <2>5, <2>10, <2>11 DEF Follows
<1>9. OneRefresh'
  BY <1>1, <1>5 DEF OneRefresh, Followed, Refreshing
<1>10. ~inbox[1].ok => UNCHANGED shown
  BY <1>4
<1> QED
  BY <1>7, <1>8, <1>9, <1>10 DEF Followed, Follows

(* The robot is asked its value: nothing it said before is still to come   *)
(* if what was missed is made good.                                        *)
LEMMA ReadFollows ==
  ASSUME IInv, Followed, NEW o \in Robots, Read(o)
  PROVE  Followed'
<1> USE DEF IInv, Types
<1>1. /\ o \in due /\ due' = due \ {o}
      /\ reading' = reading \cup {[robot |-> o, value |-> value[o]]}
      /\ missed' = missed \ {x \in {o} : Answered(o)}
      /\ UNCHANGED <<value, shown, request, inbox>>
  BY DEF Read
<1>2. Refreshing(o)'
  <2>1. [robot |-> o, value |-> value[o]] \in reading' /\ [robot |-> o, value |-> value[o]].robot = o
    BY <1>1
  <2> QED
    BY <2>1, Zenon DEF Refreshing
<1>3. \A r \in Robots : Confirms(r) => Confirms(r)'
  BY <1>1 DEF Confirms, YesAt
<1>4. \A r \in Robots : Comes(r) => Comes(r)'
  <2>1. Refreshing(o)'
    BY <1>2
  <2>2. \A r \in Robots : Refreshing(r) => Refreshing(r)'
    BY <1>1, <2>1 DEF Refreshing
  <2> QED
    BY <1>1, <2>2 DEF Comes, YesAt
<1>5. ASSUME NEW r \in Robots, r # o PROVE Follows(r)'
  BY <1>1, <1>3, <1>4, <1>5 DEF Followed, Follows, Reads
<1>6. ASSUME o \notin missed' PROVE Follows(o)'
  <2>1. Reads(o)'
    BY <1>1 DEF Reads, Followed, OneRefresh
  <2>2. Comes(o)'
    BY <1>2 DEF Comes
  <2>3. Confirms(o)'
    <3>1. CASE o \notin missed
      BY <1>3, <3>1 DEF Followed, Follows
    <3>2. CASE Answered(o)
      <4>1. \A i \in 1..Len(inbox) : ~YesAt(i, o)
        BY <3>2 DEF Answered, YesAt, SaysYes
      <4> QED
        BY <1>3, <4>1 DEF Confirms
    <3> QED
      BY <1>1, <1>6, <3>1, <3>2
  <2> QED
    BY <2>1, <2>2, <2>3 DEF Follows
<1>7. OneRefresh'
  BY <1>1 DEF OneRefresh, Followed
<1> QED
  BY <1>5, <1>6, <1>7 DEF Followed, Follows

(* What was read of a robot is shown.                                      *)
LEMMA HandleReadFollows ==
  ASSUME IInv, Followed, NEW x \in reading, HandleRead(x)
  PROVE  Followed'
<1> USE DEF IInv, Types
<1>1. /\ reading' = reading \ {x} /\ shown' = [shown EXCEPT ![x.robot] = x.value]
      /\ UNCHANGED <<value, request, inbox, due, missed>>
  BY DEF HandleRead
<1>2. \A r \in Robots : Confirms(r) => Confirms(r)'
  BY <1>1 DEF Confirms, YesAt
<1>3. \A r \in Robots : Reads(r) => Reads(r)'
  BY <1>1 DEF Reads
<1>4. x.robot \in Robots
  BY DEF RequestOfAnApp
<1>5. ASSUME NEW r \in Robots, r # x.robot PROVE Follows(r)'
  <2>1. Comes(r) => Comes(r)'
    BY <1>1, <1>5 DEF Comes, Refreshing, YesAt
  <2>2. shown'[r] = shown[r]
    BY <1>1, <1>5
  <2> QED
    BY <1>1, <1>2, <1>3, <2>1, <2>2 DEF Followed, Follows
<1>6. ASSUME NEW r \in Robots, r = x.robot, r \notin missed PROVE Follows(r)'
  <2>1. x.value = value[r]
    BY <1>6 DEF Followed, Follows, Reads
  <2>2. shown'[r] = value'[r]
    BY <1>1, <1>6, <2>1
  <2> QED
    BY <1>2, <1>3, <1>6, <2>2 DEF Followed, Follows
<1>7. OneRefresh'
  BY <1>1 DEF OneRefresh, Followed
<1> QED
  BY <1>1, <1>5, <1>6, <1>7 DEF Followed, Follows

(* The other steps show nothing, and no robot says yes in them.            *)
LEMMA OtherFollows ==
  ASSUME IInv, Traced, Followed,
         \/ \E id \in Ids, r \in Robots, v \in Values : Ask(id, r, v)
         \/ \E id \in Ids : LoseRequest(id) \/ Refuse(id)
         \/ HandleRequest \/ Expire
         \/ \E r \in Robots : RequestRefresh(r)
         \/ UNCHANGED vars
  PROVE  Followed'
<1> USE DEF IInv, Types
<1>1. /\ UNCHANGED <<value, shown, reading, missed>>
      /\ \/ UNCHANGED due
         \/ \E r \in Robots : ~Refreshing(r) /\ due' = due \cup {r}
      /\ \A x \in Ids : request[x] # NoRequest => request'[x] = request[x]
  BY DEF Ask, LoseRequest, Refuse, HandleRequest, Expire, RequestRefresh, vars
<1>2. \/ inbox' = inbox
      \/ \E m \in Copy : inbox' = Append(inbox, m) /\ ~SaysYes(m)
      \/ inbox # <<>> /\ inbox[1].is_request /\ inbox' = Tail(inbox)
  <2>1. \A id \in Ids : /\ RequestCopy(id) \in Copy /\ ~SaysYes(RequestCopy(id))
                        /\ Response(id, FALSE) \in Copy /\ ~SaysYes(Response(id, FALSE))
    BY DEF RequestCopy, Response, Copy, SaysYes
  <2>2. inbox # <<>> => Head(inbox) = inbox[1]
    BY TailIndex
  <2> QED
    BY <2>1, <2>2 DEF Ask, LoseRequest, Refuse, HandleRequest, Expire, RequestRefresh, vars
<1>3. ASSUME NEW r \in Robots PROVE Follows(r)'
  <2>1. Silent(r)
    BY <1>1, <1>2 DEF Silent, YesAt, SaysYes
  <2>2. Elsewhere(r)
    BY <1>1, <2>1 DEF Elsewhere, Refreshing
  <2> QED
    BY <2>2, ElsewhereFollows DEF Followed
<1>4. OneRefresh'
  BY <1>1 DEF OneRefresh, Followed, Refreshing
<1> QED
  BY <1>3, <1>4 DEF Followed

LEMMA NextFollowed == ASSUME IInv, Traced, Followed, [Next]_vars PROVE Followed'
BY ObeyFollows, ResponseFollows, ReadFollows, HandleReadFollows, OtherFollows DEF Next

(* When nothing of a robot is on its way and no change of it was missed,   *)
(* the bus shows its value, in whatever order requests, responses and      *)
(* refreshes were handled and whatever the cache had no room for.          *)
THEOREM BusFollows == Spec => []FollowsRobot
<1>1. Init => IInv /\ Traced /\ Followed
  BY InitFact, InitTraced, InitFollowed
<1>2. IInv /\ Traced /\ Followed /\ [Next]_vars => IInv' /\ Traced' /\ Followed'
  BY StepFact, NextTraced, NextFollowed DEF IInv
<1>3. Followed => FollowsRobot
  BY DEF Followed, Follows, Comes, FollowsRobot, Quiet, Answered, YesAt, SaysYes
<1> QED
  BY <1>1, <1>2, <1>3, PTL DEF Spec

=============================================================================
