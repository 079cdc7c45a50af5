----------------------------- MODULE Map_proofs -----------------------------
(***************************************************************************)
(* Theorems about the parts of a map: a refresh that nothing disturbs      *)
(* repairs the trace, the background and the walls, zones and rooms,       *)
(* whatever was lost, late or repeated before; and the lines of the        *)
(* picture are those that were meant.  For all runs, pieces, ids,          *)
(* contents and points, and for maps of any size.                          *)
(***************************************************************************)
EXTENDS MCRobot, Integers, SequenceTheorems, WellFoundedInduction, TLAPS

-----------------------------------------------------------------------------
(* The trace, page by page                                                 *)
Drawing == Seq(Contents \X Nat)
Page    == [start : Nat, total : Nat, data : Drawing]

LEMMA NoneIsNoPage == None \notin Nat \cup Page
BY NoneAssumption DEF Page, Drawing

PagesOf(r, n) == [p \in 1..n |-> <<r, p>>]

TraceTypes ==
  /\ run \in Contents /\ length \in Nat /\ points \in Drawing
  /\ lastTrace \in Page \cup {None}
  /\ asked \in Nat \cup {None} /\ answer \in Page \cup {None}

(* One page is asked for or to be handled at a time.  If the last page is  *)
(* a first one, the map shows it and nothing else, so that it may be left  *)
(* out when it comes again.                                                *)
OnePage == asked = None \/ answer = None
FirstShown ==
  listening /\ lastTrace # None /\ lastTrace.start = 0 => points = lastTrace.data

(* In a refresh that is not disturbed: n is the next page, and the map     *)
(* shows those before it.                                                  *)
Before(n) ==
  n > 0 => /\ n < length /\ points = PagesOf(run, n)
           /\ lastTrace # None /\ lastTrace.start = n - 1
InOrder ==
  ~disturbed =>
    /\ listening
    /\ asked # None => Before(asked)
    /\ answer # None => /\ Before(answer.start) /\ answer.total = length
                        /\ answer.data = IF answer.start < length
                                           THEN <<<<run, answer.start + 1>>>> ELSE <<>>
    /\ asked = None /\ answer = None => points = PagesOf(run, length)

TraceInv == TraceTypes /\ OnePage /\ FirstShown /\ InOrder

LEMMA PagesFact ==
  ASSUME NEW r \in Contents
  PROVE  /\ \A n \in Nat : PagesOf(r, n) \in Drawing
         /\ PagesOf(r, 0) = <<>>
         /\ \A n \in Nat : PagesOf(r, n) \o <<<<r, n + 1>>>> = PagesOf(r, n + 1)
<1>1. ASSUME NEW n \in Nat PROVE PagesOf(r, n) \in Drawing /\ Len(PagesOf(r, n)) = n
  BY <1>1 DEF PagesOf, Drawing
<1>2. PagesOf(r, 0) = <<>>
  BY <1>1
<1>3. ASSUME NEW n \in Nat PROVE PagesOf(r, n) \o <<<<r, n + 1>>>> = PagesOf(r, n + 1)
  <2> DEFINE s == PagesOf(r, n)
             e == <<<<r, n + 1>>>>
  <2>1. e \in Drawing /\ Len(e) = 1 /\ e[1] = <<r, n + 1>>
    BY DEF Drawing
  <2>2. s \in Drawing /\ Len(s) = n /\ \A i \in 1..n : s[i] = <<r, i>>
    BY <1>1 DEF PagesOf
  <2> HIDE DEF s, e
  <2>3. /\ s \o e \in Drawing /\ Len(s \o e) = n + 1
        /\ \A i \in 1..n + 1 : (s \o e)[i] = IF i <= n THEN s[i] ELSE e[i - n]
    <3>1. s \in Seq(Contents \X Nat) /\ e \in Seq(Contents \X Nat)
      BY <2>1, <2>2 DEF Drawing
    <3>2. /\ s \o e \in Seq(Contents \X Nat) /\ Len(s \o e) = Len(s) + Len(e)
          /\ \A i \in 1..Len(s) + Len(e) :
               (s \o e)[i] = IF i <= Len(s) THEN s[i] ELSE e[i - Len(s)]
      BY ONLY <3>1, ConcatProperties
    <3> QED
      BY <2>1, <2>2, <3>2 DEF Drawing
  <2>4. \A i \in 1..n + 1 : (s \o e)[i] = <<r, i>>
    BY <2>1, <2>2, <2>3
  <2>5. PagesOf(r, n + 1) \in Drawing /\ Len(PagesOf(r, n + 1)) = n + 1
    BY <1>1
  <2>6. \A i \in 1..n + 1 : PagesOf(r, n + 1)[i] = <<r, i>>
    BY DEF PagesOf
  <2>7. s \o e = PagesOf(r, n + 1)
    BY <2>3, <2>4, <2>5, <2>6, SeqEqual DEF Drawing
  <2> QED
    BY <2>7 DEF s, e
<1> QED
  BY <1>1, <1>2, <1>3

LEMMA InitTrace == Traces!Init => TraceInv
<1> SUFFICES ASSUME Traces!Init PROVE TraceInv
  OBVIOUS
<1>1. points \in Drawing /\ length \in Nat
  BY DEF Traces!Init, Drawing
<1> QED
  BY <1>1 DEF Traces!Init, TraceInv, TraceTypes, OnePage, FirstShown, InOrder

(* What a page that is handled leaves on the map.                          *)
LEMMA OnMapTraceFact ==
  ASSUME TraceTypes, NEW page \in Page, Traces!OnMapTrace(page)
  PROVE  /\ points' \in Drawing
         /\ page.start = 0 => points' = page.data
         /\ page.start # 0 => points' = points \o page.data
<1>1. page.data \in Drawing
  BY DEF Page
<1>2. <<>> \o page.data = page.data /\ points \o page.data \in Drawing
  BY <1>1 DEF TraceTypes, Drawing
<1> QED
  BY <1>1, <1>2 DEF Traces!OnMapTrace

LEMMA ListenTrace == ASSUME TraceInv, Traces!Listen PROVE TraceInv'
<1> USE DEF TraceInv, TraceTypes, Traces!Listen
<1>1. CASE lastTrace = None
  BY <1>1 DEF OnePage, FirstShown, InOrder
<1>2. CASE lastTrace # None
  <2>1. points' \in Drawing /\ (lastTrace.start = 0 => points' = lastTrace.data)
    BY <1>2, OnMapTraceFact
  <2> QED
    BY <1>2, <2>1 DEF OnePage, FirstShown, InOrder
<1> QED
  BY <1>1, <1>2

LEMMA AnswerTrace == ASSUME TraceInv, Traces!Answer PROVE TraceInv'
<1> USE NoneIsNoPage DEF TraceInv, TraceTypes, Traces!Answer
<1> DEFINE page == IF asked < length THEN <<<<run, asked + 1>>>> ELSE <<>>
<1>1. page \in Drawing
  <2>1. CASE asked < length
    <3>1. <<run, asked + 1>> \in Contents \X Nat
      BY <2>1
    <3> QED
      BY <2>1, <3>1 DEF Drawing
  <2>2. CASE ~(asked < length)
    BY <2>2 DEF Drawing
  <2> QED
    BY <2>1, <2>2
<1>2. asked < length => Traces!Trace[asked + 1] = <<run, asked + 1>>
  BY DEF Traces!Trace
<1>3. answer' = [start |-> asked, total |-> length, data |-> page]
  BY <1>2
<1> HIDE DEF page
<1>4. answer' \in Page /\ answer'.start = asked /\ answer'.total = length /\ answer'.data = page
  BY <1>1, <1>3 DEF Page
<1>5. InOrder'
  BY <1>4 DEF InOrder, Before, page
<1> QED
  BY <1>4, <1>5 DEF OnePage, FirstShown

(* The next page continues what is shown, a first one begins it anew, and  *)
(* one that equals the last is left out because it is shown already.       *)
LEMMA HandleTrace == ASSUME TraceInv, Traces!HandleResponse PROVE TraceInv'
<1> USE NoneIsNoPage DEF TraceInv, TraceTypes
<1> DEFINE n == answer.start
<1>1. /\ answer \in Page /\ n \in Nat /\ answer.total \in Nat
      /\ asked = None /\ answer' = None /\ lastTrace' = answer
      /\ asked' = IF n + 1 < answer.total THEN n + 1 ELSE None
      /\ UNCHANGED <<run, length, listening, disturbed>>
  BY DEF Traces!HandleResponse, OnePage, Page
<1>2. \/ Traces!OnMapTrace(answer)
      \/ points' = points /\ (~listening \/ answer = lastTrace)
  BY DEF Traces!HandleResponse
<1>3. /\ points' \in Drawing
      /\ listening /\ n = 0 => points' = answer.data
      /\ listening /\ n # 0 /\ answer # lastTrace => points' = points \o answer.data
  <2>1. CASE Traces!OnMapTrace(answer)
    BY <1>1, <2>1, OnMapTraceFact
  <2>2. CASE points' = points /\ (~listening \/ answer = lastTrace)
    BY <1>1, <2>2 DEF FirstShown
  <2> QED
    BY <1>2, <2>1, <2>2
<1>4. TraceTypes' /\ OnePage' /\ FirstShown'
  BY <1>1, <1>3 DEF OnePage, FirstShown
<1>5. ASSUME ~disturbed
      PROVE  /\ listening
             /\ n < length => points' = PagesOf(run, n + 1)
             /\ n >= length => points' = PagesOf(run, length)
  <2>1. /\ listening /\ Before(n) /\ answer.total = length
        /\ answer.data = IF n < length THEN <<<<run, n + 1>>>> ELSE <<>>
    BY <1>1, <1>5 DEF InOrder
  <2>2. CASE n = 0
    <3>1. PagesOf(run, 0) = <<>>
      BY PagesFact
    <3>2. PagesOf(run, 1) = <<<<run, 1>>>>
      <4>1. \A x : [p \in 1..1 |-> <<run, p>>] = <<<<run, 1>>>>
        OBVIOUS
      <4> QED
        BY <4>1 DEF PagesOf
    <3>3. points' = answer.data /\ listening
      BY <1>1, <1>3, <2>1, <2>2
    <3>4. CASE length = 0
      <4>1. ~(n < length) /\ PagesOf(run, length) = <<>>
        BY <2>2, <3>1, <3>4
      <4>2. answer.data = <<>>
        BY <2>1, <4>1
      <4> QED
        BY ONLY <3>3, <4>1, <4>2
    <3>5. CASE length # 0
      <4>1. n < length /\ ~(n >= length) /\ n + 1 = 1
        BY <2>2, <3>5
      <4>2. answer.data = <<<<run, 1>>>>
        BY <2>1, <4>1
      <4> QED
        BY ONLY <3>2, <3>3, <4>1, <4>2
    <3> QED
      BY <3>4, <3>5
  <2>3. CASE n # 0
    <3>1. /\ n < length /\ points = PagesOf(run, n) /\ answer # lastTrace
      BY <1>1, <2>1, <2>3 DEF Before
    <3>2. points' = PagesOf(run, n) \o <<<<run, n + 1>>>>
      BY <1>3, <2>1, <2>3, <3>1
    <3>3. PagesOf(run, n) \o <<<<run, n + 1>>>> = PagesOf(run, n + 1)
      BY <1>1, PagesFact
    <3>4. listening /\ ~(n >= length)
      BY <1>1, <2>1, <3>1
    <3> QED
      BY ONLY <3>2, <3>3, <3>4
  <2> QED
    BY <2>2, <2>3
<1>6. InOrder'
  <2> SUFFICES ASSUME ~disturbed PROVE InOrder'
    BY <1>1 DEF InOrder
  <2>1. answer.total = length
    BY <1>1 DEF InOrder
  <2>2. CASE n + 1 < length
    <3>1. asked' = n + 1 /\ points' = PagesOf(run, n + 1)
      BY <1>1, <1>5, <2>1, <2>2
    <3>2. (n + 1) - 1 = n /\ answer # None
      BY <1>1
    <3> QED
      BY <1>1, <1>5, <2>2, <3>1, <3>2 DEF InOrder, Before
  <2>3. CASE ~(n + 1 < length)
    <3>1. asked' = None /\ (n + 1 = length \/ n >= length)
      BY <1>1, <2>1, <2>3
    <3>2. points' = PagesOf(run, length)
      BY <1>1, <1>5, <3>1
    <3> QED
      BY <1>1, <1>5, <3>1, <3>2 DEF InOrder
  <2> QED
    BY <2>2, <2>3
<1> QED
  BY <1>4, <1>6

LEMMA NextTrace == ASSUME TraceInv, [Traces!Next]_(Traces!vars) PROVE TraceInv'
<1> USE DEF TraceInv, TraceTypes
<1>1. CASE Traces!Cease
  BY <1>1 DEF Traces!Cease, OnePage, FirstShown, InOrder
<1>2. CASE Traces!Grow
  BY <1>2 DEF Traces!Grow, OnePage, FirstShown, InOrder
<1>3. ASSUME NEW next \in Contents, Traces!Begin(next) PROVE TraceInv'
  BY <1>3 DEF Traces!Begin, OnePage, FirstShown, InOrder
<1>4. CASE Traces!RequestRefresh
  BY <1>4, NoneIsNoPage DEF Traces!RequestRefresh, OnePage, FirstShown, InOrder, Before
<1>5. CASE Traces!Fail
  BY <1>5 DEF Traces!Fail, OnePage, FirstShown, InOrder
<1>6. CASE UNCHANGED Traces!vars
  BY <1>6 DEF Traces!vars, OnePage, FirstShown, InOrder, Before
<1> QED
  BY <1>1, <1>2, <1>3, <1>4, <1>5, <1>6, ListenTrace, AnswerTrace, HandleTrace
     DEF Traces!Next

(* Where MCRobot puts the parts side by side, a step is one of the part    *)
(* that is looked at, and its invariant holds on.                          *)
LEMMA TraceOfRobot == MCSpec => [](part = "trace" => TraceInv)
<1>1. MCInit => (part = "trace" => TraceInv)
  BY InitTrace DEF MCInit
<1>2. (part = "trace" => TraceInv) /\ [MCNext]_MCvars => (part = "trace" => TraceInv)'
  <2> SUFFICES ASSUME part = "trace" => TraceInv, [MCNext]_MCvars, part' = "trace"
               PROVE  TraceInv'
    OBVIOUS
  <2>1. part = "trace" /\ [Traces!Next]_(Traces!vars)
    BY DEF MCNext, MCvars, Traces!vars, shared, trace
  <2> QED
    BY <2>1, NextTrace
<1> QED
  BY <1>1, <1>2, PTL DEF MCSpec

(* Whatever page was lost, repeated or of another run before, a refresh    *)
(* that nothing disturbs leaves the trace of the robot, each page once and *)
(* in order.                                                               *)
THEOREM WholeTrace ==
  /\ Traces!Spec => []Traces!TraceComplete
  /\ MCSpec => []TraceComplete
<1>1. TraceInv => Traces!TraceComplete
  BY DEF TraceInv, InOrder, Traces!TraceComplete, Traces!Trace, PagesOf
<1>2. TraceInv /\ [Traces!Next]_(Traces!vars) => TraceInv'
  BY NextTrace
<1>3. Traces!Spec => []Traces!TraceComplete
  BY <1>1, <1>2, InitTrace, PTL DEF Traces!Spec
<1>4. (part = "trace" => TraceInv) => TraceComplete
  BY <1>1 DEF TraceComplete
<1>5. MCSpec => []TraceComplete
  BY <1>4, TraceOfRobot, PTL
<1> QED
  BY <1>3, <1>5

-----------------------------------------------------------------------------
(* The background.                                                         *)
MinorOf(i)      == <<"minor", i>>
MajorAnswer     == <<"major", robot>>
MinorAnswer(i)  == <<"minor", <<i, robot[i]>>>>

PieceTypes ==
  /\ pieces = [i \in Ids |-> pieces[i]]
  /\ robot = [i \in Ids |-> robot[i]]
  /\ asked \subseteq {<<"major">>} \cup {MinorOf(i) : i \in Ids}

(* In a refresh that is not disturbed the answers are those of the robot   *)
(* as it is; until the major map is handled every piece may be wrong, from *)
(* then on those that are asked for.                                       *)
AnswersTrue ==
  \A a \in answers : a = MajorAnswer \/ \E i \in Ids : a = MinorAnswer(i)
MajorComes  == <<"major">> \in asked \/ MajorAnswer \in answers
PieceComes(i) ==
  i \in skipped \/ pieces[i] = robot[i] \/ MinorOf(i) \in asked \/ MinorAnswer(i) \in answers
Repairing ==
  ~disturbed => listening /\ AnswersTrue /\ (MajorComes \/ \A i \in Ids : PieceComes(i))

PieceInv == PieceTypes /\ Repairing /\ Places!PictureIsCurrent

LEMMA InitPieces == Places!Init => PieceInv
<1> SUFFICES ASSUME Places!Init PROVE PieceInv
  OBVIOUS
<1>1. robot = [i \in Ids |-> robot[i]] /\ pieces = [i \in Ids |-> pieces[i]]
  BY DEF Places!Init, Places!Images, Places!Blank
<1> QED
  BY <1>1 DEF Places!Init, PieceInv, PieceTypes, Repairing, Places!PictureIsCurrent

(* What a major map does to the pieces: it clears what is not in use, and  *)
(* asks for the others that differ if it was requested.                    *)
LEMMA OnMajorMapFact ==
  ASSUME PieceTypes, NEW values, NEW requested \in BOOLEAN,
         Places!OnMajorMap(values, requested)
  PROVE  /\ pieces' = [i \in Ids |-> pieces'[i]]
         /\ asked \subseteq asked' /\ (~requested => asked' = asked)
         /\ asked' \subseteq {<<"major">>} \cup {MinorOf(i) : i \in Ids}
         /\ \A i \in Ids :
              /\ pieces'[i] \in {pieces[i], NotInUse}
              /\ pieces[i] = values[i] => pieces'[i] = values[i]
              /\ requested => pieces'[i] = values[i] \/ MinorOf(i) \in asked'
<1> USE DEF PieceTypes, Places!OnMajorMap, Places!Cleared
<1>1. \A i \in Ids : /\ pieces'[i] = IF values[i] = NotInUse THEN NotInUse ELSE pieces[i]
  OBVIOUS
<1>2. asked' = asked \cup {MinorOf(i) : i \in {x \in Places!Outdated(values) : requested}}
  BY DEF MinorOf
<1>3. Places!Outdated(values) = {i \in Ids : values[i] \notin {NotInUse, pieces[i]}}
  BY DEF Places!Outdated
<1> QED
  BY <1>1, <1>2, <1>3

(* A piece that is updated is what it should be; if that changes it, the   *)
(* picture has to be drawn again.                                          *)
LEMMA UpdatePieceFact ==
  ASSUME NEW now, now = [i \in Ids |-> now[i]], NEW i, NEW content,
         Places!UpdatePiece(now, i, content)
  PROVE  /\ pieces' = [x \in Ids |-> pieces'[x]]
         /\ i \in Ids => pieces'[i] = content
         /\ \A x \in Ids : x # i => pieces'[x] = now[x]
         /\ ~changed' => ~changed /\ \A x \in Ids : pieces'[x] = now[x]
BY DEF Places!UpdatePiece

(* What any major map does, whether or not the map is told of it.          *)
MajorClears(values) ==
  \A i \in Ids : /\ pieces'[i] \in {pieces[i], NotInUse}
                 /\ pieces[i] = values[i] => pieces'[i] = values[i]
MajorKeeps(values) ==
  /\ pieces' = [i \in Ids |-> pieces'[i]]
  /\ asked \subseteq asked' /\ asked' \subseteq {<<"major">>} \cup {MinorOf(i) : i \in Ids}
  /\ changed' = changed /\ (~disturbed => skipped \subseteq skipped')
  /\ MajorClears(values)
MajorRepairs(values) ==
  ~disturbed =>
    \A i \in Ids : i \in skipped' \/ pieces'[i] = values[i] \/ MinorOf(i) \in asked'

LEMMA NotifyMajorFact ==
  ASSUME PieceTypes, NEW values, NEW requested \in BOOLEAN,
         Places!NotifyMajor(values, requested)
  PROVE  MajorKeeps(values) /\ (requested => MajorRepairs(values))
<1>1. changed' = changed
  BY DEF Places!NotifyMajor
<1>2. CASE Places!OnMajorMap(values, requested) /\ UNCHANGED skipped
  <2>1. /\ pieces' = [i \in Ids |-> pieces'[i]]
        /\ asked \subseteq asked'
        /\ asked' \subseteq {<<"major">>} \cup {MinorOf(i) : i \in Ids}
        /\ \A i \in Ids :
             /\ pieces'[i] \in {pieces[i], NotInUse}
             /\ pieces[i] = values[i] => pieces'[i] = values[i]
             /\ requested => pieces'[i] = values[i] \/ MinorOf(i) \in asked'
    BY <1>2, OnMajorMapFact
  <2> QED
    BY <1>1, <1>2, <2>1 DEF MajorKeeps, MajorClears, MajorRepairs
<1>3. CASE Places!Skip({i \in Ids : pieces[i] # values[i]}) /\ UNCHANGED <<pieces, asked>>
  BY <1>1, <1>3 DEF MajorKeeps, MajorClears, MajorRepairs, PieceTypes, Places!Skip
<1> QED
  BY <1>2, <1>3 DEF Places!NotifyMajor

LEMMA HandleMajorFact ==
  ASSUME PieceTypes, NEW values, Places!HandleMajor(values)
  PROVE  MajorKeeps(values) /\ (listening => MajorRepairs(values))
<1>1. CASE Places!NotifyMajor(values, TRUE)
  BY <1>1, NotifyMajorFact
<1>2. CASE /\ IF listening THEN Places!OnMajorMap(values, TRUE) ELSE UNCHANGED <<pieces, asked>>
           /\ UNCHANGED <<changed, skipped>>
  <2>1. CASE listening
    <3>1. /\ pieces' = [i \in Ids |-> pieces'[i]]
          /\ asked \subseteq asked'
          /\ asked' \subseteq {<<"major">>} \cup {MinorOf(i) : i \in Ids}
          /\ \A i \in Ids :
               /\ pieces'[i] \in {pieces[i], NotInUse}
               /\ pieces[i] = values[i] => pieces'[i] = values[i]
               /\ pieces'[i] = values[i] \/ MinorOf(i) \in asked'
      BY <1>2, <2>1, OnMajorMapFact
    <3> QED
      BY <1>2, <2>1, <3>1 DEF MajorKeeps, MajorClears, MajorRepairs
  <2>2. CASE ~listening
    BY <1>2, <2>2 DEF MajorKeeps, MajorClears, PieceTypes
  <2> QED
    BY <2>1, <2>2
<1> QED
  BY <1>1, <1>2 DEF Places!HandleMajor

(* What a piece that is read does.                                         *)
LEMMA HandleMinorFact ==
  ASSUME PieceTypes, NEW i, NEW content, Places!HandleMinor(i, content)
  PROVE  /\ pieces' = [x \in Ids |-> pieces'[x]]
         /\ asked' = asked
         /\ ~disturbed => /\ skipped \subseteq skipped'
                          /\ i \in Ids => i \in skipped' \/ pieces'[i] = content
         /\ \A x \in Ids : x # i => pieces'[x] = pieces[x]
         /\ ~changed' => ~changed /\ \A x \in Ids : pieces'[x] = pieces[x]
         /\ i \in Ids /\ pieces[i] = content => pieces'[i] = content
<1>1. CASE Places!UpdatePiece(pieces, i, content) /\ UNCHANGED <<skipped, asked>>
  BY <1>1, UpdatePieceFact DEF PieceTypes
<1>2. CASE Places!Skip({x \in {i} : pieces[x] # content}) /\ UNCHANGED <<pieces, changed, asked>>
  BY <1>2 DEF PieceTypes, Places!Skip
<1> QED
  BY <1>1, <1>2 DEF Places!HandleMinor

(* The picture stays that of the pieces while nothing says it changed.     *)
LEMMA PictureKept ==
  ASSUME Places!PictureIsCurrent, image' = image,
         \/ /\ changed' = changed
            /\ \A i \in Ids : pieces'[i] \in {pieces[i], NotInUse}
         \/ ~changed' => ~changed /\ \A i \in Ids : pieces'[i] \in {pieces[i], NotInUse}
  PROVE  Places!PictureIsCurrent'
BY DEF Places!PictureIsCurrent

LEMMA ListenPieces == ASSUME PieceInv, Places!Listen PROVE PieceInv'
<1> USE DEF PieceInv, PieceTypes
<1> DEFINE told == lastMajor # None
           now  == IF told THEN Places!Cleared(lastMajor[1]) ELSE pieces
<1>1. /\ disturbed' /\ robot' = robot /\ image' = image
      /\ asked' = asked \cup
           (IF told /\ lastMajor[2]
              THEN {MinorOf(i) : i \in Places!Outdated(lastMajor[1])} ELSE {})
      /\ IF lastMinor # None THEN Places!UpdatePiece(now, lastMinor[1], lastMinor[2])
                             ELSE pieces' = now /\ UNCHANGED changed
  BY DEF Places!Listen, Places!Disturb, MinorOf
<1>2. now = [i \in Ids |-> now[i]] /\ \A i \in Ids : now[i] \in {pieces[i], NotInUse}
  BY DEF Places!Cleared
<1>3. asked' \subseteq {<<"major">>} \cup {MinorOf(i) : i \in Ids}
  <2>1. \A values : Places!Outdated(values) \subseteq Ids
    BY DEF Places!Outdated
  <2> QED
    BY <1>1, <2>1
<1> HIDE DEF now, told
<1>4. /\ pieces' = [i \in Ids |-> pieces'[i]]
      /\ \/ changed' = changed /\ pieces' = now
         \/ ~changed' => ~changed /\ \A i \in Ids : pieces'[i] = now[i]
  BY <1>1, <1>2, UpdatePieceFact
<1>5. Places!PictureIsCurrent'
  BY <1>1, <1>2, <1>4, PictureKept
<1> QED
  BY <1>1, <1>3, <1>4, <1>5 DEF Repairing

LEMMA ResponsePieces == ASSUME PieceInv, NEW a \in answers, Places!HandleResponse(a) PROVE PieceInv'
<1> USE DEF PieceInv, PieceTypes
<1>1. /\ answers' = answers \ {a} /\ UNCHANGED <<robot, listening, image, disturbed>>
      /\ IF a[1] = "major" THEN Places!HandleMajor(a[2])
                           ELSE Places!HandleMinor(a[2][1], a[2][2])
  BY DEF Places!HandleResponse
<1>2. CASE Places!HandleMajor(a[2]) /\ a[1] = "major"
  <2>1. MajorKeeps(a[2]) /\ (listening => MajorRepairs(a[2]))
    BY <1>2, HandleMajorFact
  <2>2. PieceTypes' /\ Places!PictureIsCurrent'
    <3>1. Places!PictureIsCurrent'
      <4>1. image' = image /\ changed' = changed
        BY <1>1, <2>1 DEF MajorKeeps
      <4>2. \A i \in Ids : pieces'[i] \in {pieces[i], NotInUse}
        <5>1. MajorClears(a[2])
          BY ONLY <2>1 DEF MajorKeeps
        <5> QED
          BY ONLY <5>1 DEF MajorClears
      <4> QED
        BY ONLY PieceInv, <4>1, <4>2, PictureKept DEF PieceInv
    <3>2. PieceTypes'
      BY <1>1, <2>1 DEF MajorKeeps
    <3> QED
      BY <3>1, <3>2
  <2>3. ASSUME ~disturbed PROVE listening /\ AnswersTrue' /\ \A i \in Ids : PieceComes(i)'
    <3>1. AnswersTrue /\ listening
      BY <2>3 DEF Repairing
    <3>2. a[2] = robot
      BY <1>2, <3>1 DEF AnswersTrue, MajorAnswer, MinorAnswer
    <3>3. \A i \in Ids : i \in skipped' \/ pieces'[i] = robot[i] \/ MinorOf(i) \in asked'
      BY <2>1, <2>3, <3>1, <3>2 DEF MajorRepairs
    <3>4. AnswersTrue'
      BY <1>1, <3>1 DEF AnswersTrue, MajorAnswer, MinorAnswer
    <3> QED
      BY <1>1, <3>1, <3>3, <3>4 DEF PieceComes, MinorOf
  <2>4. Repairing'
    BY <1>1, <2>3 DEF Repairing
  <2> QED
    BY <2>2, <2>4
<1>3. CASE Places!HandleMinor(a[2][1], a[2][2]) /\ a[1] # "major"
  <2>1. /\ pieces' = [x \in Ids |-> pieces'[x]]
        /\ asked' = asked
        /\ ~changed' => ~changed /\ \A x \in Ids : pieces'[x] = pieces[x]
    BY <1>3, HandleMinorFact
  <2>2. PieceTypes' /\ Places!PictureIsCurrent'
    BY <1>1, <2>1, PictureKept
  <2>3. ASSUME ~disturbed
        PROVE  listening /\ AnswersTrue' /\ (MajorComes' \/ \A i \in Ids : PieceComes(i)')
    <3>1. AnswersTrue /\ listening /\ (MajorComes \/ \A i \in Ids : PieceComes(i))
      BY <2>3 DEF Repairing
    <3>2. PICK p \in Ids : a = MinorAnswer(p)
      BY <1>3, <3>1 DEF AnswersTrue, MajorAnswer
    <3>3. a[2][1] = p /\ a[2][2] = robot[p]
      BY <3>2 DEF MinorAnswer
    <3>4. /\ skipped \subseteq skipped'
          /\ p \in skipped' \/ pieces'[p] = robot[p]
          /\ \A x \in Ids : x # p => pieces'[x] = pieces[x]
      BY <1>3, <2>3, <3>3, HandleMinorFact
    <3>5. AnswersTrue'
      BY <1>1, <3>1 DEF AnswersTrue, MajorAnswer, MinorAnswer
    <3>6. MajorComes => MajorComes'
      BY <1>1, <1>3, <2>1 DEF MajorComes, MajorAnswer
    <3>7. ASSUME NEW i \in Ids, PieceComes(i) PROVE PieceComes(i)'
      <4>1. CASE i = p
        BY <1>1, <3>4, <4>1 DEF PieceComes
      <4>2. CASE i # p
        <5>1. MinorAnswer(i) # a
          BY <3>2, <4>2 DEF MinorAnswer
        <5> QED
          BY <1>1, <2>1, <3>4, <3>7, <4>2, <5>1 DEF PieceComes, MinorOf, MinorAnswer
      <4> QED
        BY <4>1, <4>2
    <3> QED
      BY <3>1, <3>5, <3>6, <3>7
  <2>4. Repairing'
    BY <1>1, <2>3 DEF Repairing
  <2> QED
    BY <2>2, <2>4
<1> QED
  BY <1>1, <1>2, <1>3

(* The robot answers with what it has; the answer is one to come.          *)
LEMMA AnswerPieces == ASSUME PieceInv, NEW c \in asked, Places!Answer(c) PROVE PieceInv'
<1> USE DEF PieceInv, PieceTypes
<1>1. /\ asked' = asked \ {c}
      /\ answers' = answers \cup {IF c[1] = "major" THEN MajorAnswer
                                                    ELSE <<"minor", <<c[2], robot[c[2]]>>>>}
      /\ UNCHANGED <<robot, pieces, changed, image, skipped, disturbed, listening>>
  BY DEF Places!Answer, MajorAnswer
<1>2. Places!PictureIsCurrent'
  BY <1>1 DEF Places!PictureIsCurrent
<1>3. CASE c = <<"major">>
  <2>1. answers' = answers \cup {MajorAnswer}
    BY <1>1, <1>3
  <2>2. MajorAnswer' = MajorAnswer /\ MajorComes'
    BY <1>1, <2>1 DEF MajorAnswer, MajorComes
  <2>3. AnswersTrue => AnswersTrue'
    BY <1>1, <2>1, <2>2 DEF AnswersTrue, MinorAnswer
  <2> QED
    BY <1>1, <1>2, <2>2, <2>3 DEF Repairing
<1>4. ASSUME NEW p \in Ids, c = MinorOf(p) PROVE PieceInv'
  <2>1. answers' = answers \cup {MinorAnswer(p)}
    BY <1>1, <1>4 DEF MinorOf, MinorAnswer
  <2>2. \A i \in Ids : MinorAnswer(i)' = MinorAnswer(i)
    BY <1>1 DEF MinorAnswer
  <2>3. AnswersTrue => AnswersTrue'
    BY <1>1, <2>1, <2>2 DEF AnswersTrue, MajorAnswer
  <2>4. MajorComes => MajorComes'
    BY <1>1, <1>4, <2>1 DEF MajorComes, MajorAnswer, MinorOf
  <2>5. ASSUME NEW i \in Ids, PieceComes(i) PROVE PieceComes(i)'
    <3>1. CASE i = p
      BY <2>1, <2>2, <3>1 DEF PieceComes
    <3>2. CASE i # p
      <4>1. MinorOf(i) # c
        BY <1>4, <3>2 DEF MinorOf
      <4> QED
        BY <1>1, <2>1, <2>2, <2>5, <4>1 DEF PieceComes, MinorOf
    <3> QED
      BY <3>1, <3>2
  <2>6. Repairing'
    BY <1>1, <2>3, <2>4, <2>5 DEF Repairing
  <2> QED
    BY <1>1, <1>2, <2>6
<1> QED
  BY <1>3, <1>4

(* The robot tells of its map on its own: pieces that are right stay so.   *)
LEMMA MessagePieces ==
  ASSUME PieceInv, Places!OnMajorMapMessage \/ \E p \in Ids : Places!OnMinorMapMessage(p)
  PROVE  PieceInv'
<1> USE DEF PieceInv, PieceTypes
<1>1. /\ UNCHANGED <<robot, listening, image, answers, disturbed>>
      /\ \/ Places!NotifyMajor(robot, FALSE)
         \/ \E p \in Ids : Places!HandleMinor(p, robot[p])
  BY DEF Places!OnMajorMapMessage, Places!OnMinorMapMessage
<1>2. /\ pieces' = [x \in Ids |-> pieces'[x]]
      /\ asked \subseteq asked'
      /\ asked' \subseteq {<<"major">>} \cup {MinorOf(i) : i \in Ids}
      /\ ~disturbed => skipped \subseteq skipped'
      /\ \A x \in Ids : pieces[x] = robot[x] => pieces'[x] = robot[x]
      /\ \/ changed' = changed /\ \A x \in Ids : pieces'[x] \in {pieces[x], NotInUse}
         \/ ~changed' => ~changed /\ \A x \in Ids : pieces'[x] = pieces[x]
  <2>1. CASE Places!NotifyMajor(robot, FALSE)
    <3>1. MajorKeeps(robot)
      BY <2>1, NotifyMajorFact
    <3>2. /\ changed' = changed /\ (~disturbed => skipped \subseteq skipped')
          /\ asked \subseteq asked'
          /\ asked' \subseteq {<<"major">>} \cup {MinorOf(i) : i \in Ids}
          /\ pieces' = [x \in Ids |-> pieces'[x]]
          /\ MajorClears(robot)
      BY ONLY <3>1 DEF MajorKeeps
    <3>3. /\ \A x \in Ids : pieces[x] = robot[x] => pieces'[x] = robot[x]
          /\ \A x \in Ids : pieces'[x] \in {pieces[x], NotInUse}
      BY ONLY <3>2 DEF MajorClears
    <3> QED
      BY ONLY <3>2, <3>3
  <2>2. ASSUME NEW p \in Ids, Places!HandleMinor(p, robot[p])
        PROVE  /\ pieces' = [x \in Ids |-> pieces'[x]] /\ asked' = asked
               /\ ~disturbed => skipped \subseteq skipped'
               /\ \A x \in Ids : pieces[x] = robot[x] => pieces'[x] = robot[x]
               /\ ~changed' => ~changed /\ \A x \in Ids : pieces'[x] = pieces[x]
    BY <2>2, HandleMinorFact
  <2>3. CASE \E p \in Ids : Places!HandleMinor(p, robot[p])
    <3>1. /\ pieces' = [x \in Ids |-> pieces'[x]] /\ asked' = asked
          /\ ~disturbed => skipped \subseteq skipped'
          /\ \A x \in Ids : pieces[x] = robot[x] => pieces'[x] = robot[x]
          /\ ~changed' => ~changed /\ \A x \in Ids : pieces'[x] = pieces[x]
      BY <2>2, <2>3
    <3>2. asked' \subseteq {<<"major">>} \cup {MinorOf(i) : i \in Ids}
      BY <3>1
    <3> HIDE DEF PieceInv, PieceTypes
    <3> QED
      BY <3>1, <3>2
  <2> QED
    BY <1>1, <2>1, <2>3
<1>3. Places!PictureIsCurrent'
  BY <1>1, <1>2, PictureKept
<1>4. ~disturbed => (AnswersTrue => AnswersTrue') /\ (MajorComes => MajorComes')
                    /\ \A i \in Ids : PieceComes(i) => PieceComes(i)'
  BY <1>1, <1>2 DEF AnswersTrue, MajorComes, MajorAnswer, MinorAnswer, PieceComes, MinorOf
<1> QED
  BY <1>1, <1>2, <1>3, <1>4 DEF Repairing

LEMMA NextPieces == ASSUME PieceInv, [Places!Next]_(Places!vars) PROVE PieceInv'
<1> USE DEF PieceInv, PieceTypes
<1>1. CASE Places!Cease
  BY <1>1 DEF Places!Cease, Places!Disturb, Repairing, Places!PictureIsCurrent
<1>2. CASE Places!GetSvgMap
  <2>1. /\ UNCHANGED <<robot, pieces, asked, answers, disturbed, listening, skipped>>
        /\ image' \in {None, pieces}
    BY <1>2 DEF Places!GetSvgMap
  <2>2. Repairing'
    BY <2>1 DEF Repairing, AnswersTrue, MajorComes, MajorAnswer, MinorAnswer, PieceComes, MinorOf
  <2> QED
    BY <2>1, <2>2 DEF Places!PictureIsCurrent
<1>3. CASE Places!RequestRefresh
  <2>1. /\ listening' /\ answers' = {} /\ asked' = {<<"major">>}
        /\ UNCHANGED <<robot, pieces, changed, image>>
    BY <1>3 DEF Places!RequestRefresh
  <2> QED
    BY <2>1 DEF Repairing, AnswersTrue, MajorComes, Places!PictureIsCurrent
<1>4. ASSUME NEW i \in Ids, NEW content \in Contents \cup {NotInUse},
             Places!Change(i, content)
      PROVE PieceInv'
  BY <1>4 DEF Places!Change, Places!Disturb, Repairing, Places!PictureIsCurrent
<1>5. ASSUME NEW c \in asked, Places!Fail(c) PROVE PieceInv'
  BY <1>5 DEF Places!Fail, Places!Disturb, Repairing, Places!PictureIsCurrent
<1>6. CASE UNCHANGED Places!vars
  BY <1>6 DEF Places!vars, Repairing, AnswersTrue, MajorComes, MajorAnswer, MinorAnswer,
     PieceComes, MinorOf, Places!PictureIsCurrent
<1> QED
  BY <1>1, <1>2, <1>3, <1>4, <1>5, <1>6, ListenPieces, AnswerPieces, ResponsePieces,
     MessagePieces DEF Places!Next

LEMMA PiecesInvariant == Places!Spec => []PieceInv
<1>1. PieceInv /\ [Places!Next]_(Places!vars) => PieceInv'
  BY NextPieces
<1> QED
  BY <1>1, InitPieces, PTL DEF Places!Spec

LEMMA PiecesOfRobot == MCSpec => [](part = "pieces" => PieceInv)
<1>1. MCInit => (part = "pieces" => PieceInv)
  BY InitPieces DEF MCInit
<1>2. (part = "pieces" => PieceInv) /\ [MCNext]_MCvars => (part = "pieces" => PieceInv)'
  <2> SUFFICES ASSUME part = "pieces" => PieceInv, [MCNext]_MCvars, part' = "pieces"
               PROVE  PieceInv'
    OBVIOUS
  <2>1. part = "pieces" /\ [Places!Next]_(Places!vars)
    BY DEF MCNext, MCvars, Places!vars, shared, pieced
  <2> QED
    BY <2>1, NextPieces
<1> QED
  BY <1>1, <1>2, PTL DEF MCSpec

(* Whatever was lost, or happened while nobody listened, a refresh that    *)
(* nothing disturbs repairs every piece of the background, apart from what *)
(* the bus withheld because it equalled the last event.                    *)
THEOREM BackgroundRepaired ==
  /\ Places!Spec => []Places!PiecesRepaired
  /\ MCSpec => []PiecesRepaired
<1>1. PieceInv => Places!PiecesRepaired
  BY DEF PieceInv, Repairing, MajorComes, PieceComes, Places!PiecesRepaired
<1>2. Places!Spec => []Places!PiecesRepaired
  BY <1>1, PiecesInvariant, PTL
<1>3. (part = "pieces" => PieceInv) => PiecesRepaired
  BY <1>1 DEF PiecesRepaired
<1>4. MCSpec => []PiecesRepaired
  BY <1>3, PiecesOfRobot, PTL
<1> QED
  BY <1>2, <1>4

(* While the map data says nothing changed, the picture is that of the     *)
(* pieces, apart from those a major map cleared.                           *)
THEOREM PictureCurrent ==
  /\ Places!Spec => []Places!PictureIsCurrent
  /\ MCSpec => []PictureIsCurrent
<1>1. PieceInv => Places!PictureIsCurrent
  BY DEF PieceInv
<1>2. Places!Spec => []Places!PictureIsCurrent
  BY <1>1, PiecesInvariant, PTL
<1>3. (part = "pieces" => PieceInv) => PictureIsCurrent
  BY <1>1 DEF PictureIsCurrent
<1>4. MCSpec => []PictureIsCurrent
  BY <1>3, PiecesOfRobot, PTL
<1> QED
  BY <1>2, <1>4

-----------------------------------------------------------------------------
(* The walls, zones and rooms                                              *)

SetAnswer       == <<"set", robot>>
SubsetOf(i)     == <<"subset", i>>
SubsetAnswer(i) == <<"subset", <<i, robot[i]>>>>
Named           == read[1] = "getMapSet_V2_named"

SetTypes ==
  /\ read \in Sets!Reads
  /\ kept = [i \in Ids |-> kept[i]]
  /\ robot = [i \in Ids |-> robot[i]]

(* What the rooms are counted by is the set the bus said last.             *)
Counted == Sets!OfRooms /\ lastSet # None => amount = Sets!Cardinality(lastSet)

(* In a refresh that is not disturbed the answers are those of the robot   *)
(* as it is.  The set comes first and alone; when it was handled every id  *)
(* is right or asked for, and the rooms are said when they are complete.   *)
ReadTrue == \A a \in answers : a = SetAnswer \/ \E i \in Ids : a = SubsetAnswer(i)
SetComes == <<"set">> \in asked \/ SetAnswer \in answers
SetAlone ==
  SetComes => /\ ~learned
              /\ \/ asked = {<<"set">>} /\ answers = {}
                 \/ asked = {} /\ answers = {SetAnswer}
SubsetComes(i) ==
  i \in skipped \/ kept[i] = robot[i] \/ SubsetOf(i) \in asked \/ SubsetAnswer(i) \in answers
RoomsSaid ==
  Sets!OfRooms => /\ amount = Sets!Cardinality(Sets!In(robot))
                  /\ learned /\ kept = robot => rooms = robot
SetHandled ==
  ~SetComes => IF Named THEN asked = {} /\ answers = {} /\ rooms = robot
                        ELSE RoomsSaid /\ \A i \in Ids : SubsetComes(i)
Reading == ~disturbed => ReadTrue /\ SetAlone /\ SetHandled

SetInv == SetTypes /\ Counted /\ Reading

LEMMA InitSets == Sets!Init => SetInv
<1> SUFFICES ASSUME Sets!Init PROVE SetInv
  OBVIOUS
<1>1. robot = [i \in Ids |-> robot[i]] /\ kept = [i \in Ids |-> kept[i]]
  BY DEF Sets!Init, Sets!Nothing
<1> QED
  BY <1>1 DEF Sets!Init, SetInv, SetTypes, Counted, Reading

(* Actions that only disturb, or change nothing of what the refresh reads. *)
LEMMA SetsDisturbed ==
  ASSUME SetInv, Sets!Disturb, UNCHANGED <<read, lastSet, kept, amount>>,
         robot' = [i \in Ids |-> robot'[i]]
  PROVE  SetInv'
BY DEF SetInv, SetTypes, Counted, Reading, Sets!Disturb, Sets!OfRooms

LEMMA SetsKept ==
  ASSUME SetInv, lastSet' \in {lastSet, None},
         UNCHANGED <<read, robot, kept, amount, rooms, skipped, learned, asked, answers, disturbed>>
  PROVE  SetInv'
<1>1. SetTypes' /\ Counted'
  BY DEF SetInv, SetTypes, Counted, Sets!OfRooms
<1>2. Reading'
  BY DEF SetInv, Reading, ReadTrue, SetAlone, SetHandled, SetComes, SetAnswer, SubsetComes,
     SubsetAnswer, SubsetOf, RoomsSaid, Named, Sets!OfRooms, Sets!In
<1> QED
  BY <1>1, <1>2 DEF SetInv

LEMMA AnswerSetFact == ASSUME SetInv, Sets!AnswerSet PROVE SetInv'
<1>1. /\ UNCHANGED <<read, robot, lastSet, kept, amount, rooms, skipped, learned, disturbed>>
      /\ <<"set">> \in asked
      /\ asked' = asked \ {<<"set">>} /\ answers' = answers \cup {SetAnswer}
  BY DEF Sets!AnswerSet, SetAnswer
<1>2. SetTypes' /\ Counted'
  BY <1>1 DEF SetInv, SetTypes, Counted, Sets!OfRooms
<1>3. ASSUME ~disturbed PROVE ReadTrue' /\ SetAlone' /\ SetHandled'
  <2>1. asked = {<<"set">>} /\ answers = {} /\ ~learned
    BY <1>1, <1>3 DEF SetInv, Reading, SetAlone, SetComes, SetAnswer
  <2>2. asked' = {} /\ answers' = {SetAnswer} /\ ~learned' /\ SetAnswer' = SetAnswer
    BY <1>1, <2>1 DEF SetAnswer
  <2> QED
    BY <2>2 DEF ReadTrue, SetAlone, SetHandled, SetComes
<1> QED
  BY <1>1, <1>2, <1>3 DEF SetInv, Reading

LEMMA AnswerSubsetFact == ASSUME SetInv, NEW p \in Ids, Sets!AnswerSubset(p) PROVE SetInv'
<1>1. /\ UNCHANGED <<read, robot, lastSet, kept, amount, rooms, skipped, learned, disturbed>>
      /\ SubsetOf(p) \in asked
      /\ asked' = asked \ {SubsetOf(p)} /\ answers' = answers \cup {SubsetAnswer(p)}
  BY DEF Sets!AnswerSubset, SubsetOf, SubsetAnswer
<1>2. SetTypes' /\ Counted'
  BY <1>1 DEF SetInv, SetTypes, Counted, Sets!OfRooms
<1>3. ASSUME ~disturbed PROVE ReadTrue' /\ SetAlone' /\ SetHandled'
  <2>1. /\ ~SetComes /\ ReadTrue /\ ~Named
        /\ RoomsSaid /\ \A i \in Ids : SubsetComes(i)
    BY <1>1, <1>3 DEF SetInv, Reading, SetAlone, SetHandled, SubsetOf
  <2>2. SetAnswer' = SetAnswer /\ (\A i \in Ids : SubsetAnswer(i)' = SubsetAnswer(i))
    BY <1>1 DEF SetAnswer, SubsetAnswer
  <2>3. ReadTrue'
    BY <1>1, <2>1, <2>2 DEF ReadTrue
  <2>4. ~SetComes' /\ ~Named'
    BY <1>1, <2>1, <2>2 DEF SetComes, SetAnswer, SubsetAnswer, Named
  <2>5. ASSUME NEW i \in Ids PROVE SubsetComes(i)'
    <3>1. CASE i = p
      BY <1>1, <2>2, <3>1 DEF SubsetComes
    <3>2. CASE i # p
      <4>1. SubsetOf(i) # SubsetOf(p)
        BY <3>2 DEF SubsetOf
      <4> QED
        BY <1>1, <2>1, <2>2, <4>1 DEF SubsetComes, SubsetOf
    <3> QED
      BY <3>1, <3>2
  <2>6. RoomsSaid'
    BY <1>1, <2>1 DEF RoomsSaid, Sets!OfRooms, Sets!In
  <2> QED
    BY <2>3, <2>4, <2>5, <2>6 DEF SetAlone, SetHandled
<1> QED
  BY <1>1, <1>2, <1>3 DEF SetInv, Reading

(* What a set that the bus notifies leaves.                                *)
LEMMA NotifySetFact ==
  ASSUME SetInv, NEW ids \in SUBSET Ids, NEW now, now = [i \in Ids |-> now[i]],
         Sets!NotifySet(ids, now), read' = read
  PROVE  /\ kept' = [i \in Ids |-> kept'[i]]
         /\ Counted' /\ (Sets!OfRooms => amount' = Sets!Cardinality(ids))
         /\ \A i \in ids : kept'[i] = now[i]
         /\ ids # lastSet => \A i \in Ids \ ids : kept'[i] = None
         /\ ids = lastSet => kept' = now
<1>1. lastSet' = ids /\ ids # None
  BY NoneAssumption DEF Sets!NotifySet
<1>2. ASSUME Sets!OfRooms PROVE amount' = Sets!Cardinality(ids)
  <2>1. CASE ids = lastSet
    <3>1. amount' = amount
      BY <2>1 DEF Sets!NotifySet
    <3>2. amount = Sets!Cardinality(lastSet)
      BY <1>1, <1>2, <2>1 DEF SetInv, Counted
    <3> QED
      BY ONLY <2>1, <3>1, <3>2
  <2>2. CASE ids # lastSet
    <3>1. amount' = Sets!Cardinality(ids)
      BY <1>2, <2>2 DEF Sets!NotifySet
    <3> QED
      BY <3>1
  <2> QED
    BY <2>1, <2>2
<1>3. Counted'
  BY <1>1, <1>2 DEF Counted, Sets!OfRooms
<1>4. CASE ids = lastSet
  BY <1>2, <1>3, <1>4 DEF Sets!NotifySet
<1>5. CASE ids # lastSet
  <2>1. kept' = [i \in Ids |-> IF i \in ids THEN now[i] ELSE None]
    BY <1>5 DEF Sets!NotifySet, Sets!Restricted
  <2> QED
    BY <1>2, <1>3, <1>5, <2>1
<1> QED
  BY <1>4, <1>5

(* In a refresh that is not disturbed a set that is handled is the robot's *)
(* and the only answer.                                                    *)
LEMMA SetAnswerAlone ==
  ASSUME SetInv, ~disturbed, NEW a \in answers, a[1] = "set"
  PROVE  ~learned /\ asked = {} /\ answers = {SetAnswer} /\ a = SetAnswer /\ a[2] = robot
<1>1. ReadTrue /\ SetAlone
  BY DEF SetInv, Reading
<1>2. a = SetAnswer
  BY <1>1 DEF ReadTrue, SetAnswer, SubsetAnswer
<1>3. a[2] = robot
  BY <1>2 DEF SetAnswer
<1> QED
  BY <1>1, <1>2, <1>3 DEF SetAlone, SetComes, SetAnswer

(* What the handlers of a set leave, one that asks for the subsets first.  *)
LEMMA HandleSetFact ==
  ASSUME SetInv, NEW set, Sets!HandleSet(set),
         NEW a \in answers, a[1] = "set", a[2] = set,
         answers' = answers \ {a}, UNCHANGED <<read, robot>>
  PROVE  SetInv'
<1>1. CASE Sets!In(set) = {} /\ read[1] = "getMapSet"
  <2>1. Sets!Disturb /\ UNCHANGED <<read, lastSet, kept, amount>>
    BY <1>1 DEF Sets!HandleSet
  <2> QED
    BY <2>1, SetsDisturbed DEF SetInv, SetTypes
<1>2. CASE ~(Sets!In(set) = {} /\ read[1] = "getMapSet")
  <2>1. /\ Sets!NotifySet(Sets!In(set), kept)
        /\ asked' = asked \cup {SubsetOf(i) : i \in Sets!In(set)}
        /\ Sets!Skip(Sets!Withheld(set))
        /\ UNCHANGED <<learned, disturbed, rooms>>
        /\ read[1] \in {"getMapSet", "GetMapSet"} \/ read = <<"getMapSet_V2", "rooms">>
    BY <1>2 DEF Sets!HandleSet, SubsetOf
  <2> ~Named
    BY <2>1 DEF Named
  <2>2. Sets!In(set) \in SUBSET Ids
    BY DEF Sets!In
  <2>3. /\ kept' = [i \in Ids |-> kept'[i]]
        /\ Counted' /\ (Sets!OfRooms => amount' = Sets!Cardinality(Sets!In(set)))
        /\ Sets!In(set) # lastSet => \A i \in Ids \ Sets!In(set) : kept'[i] = None
        /\ Sets!In(set) = lastSet => kept' = kept
    BY <2>1, <2>2, NotifySetFact DEF SetInv, SetTypes
  <2>4. ASSUME ~disturbed PROVE ReadTrue' /\ SetAlone' /\ SetHandled'
    <3>1. /\ ~learned /\ asked = {} /\ answers = {SetAnswer} /\ a = SetAnswer /\ set = robot
      BY <2>4, SetAnswerAlone
    <3>2. answers' = {} /\ ~SetComes' /\ ~Named' /\ ~learned'
      BY <2>1, <3>1 DEF SetComes, SetAnswer, SubsetOf, Named
    <3>3. ASSUME NEW i \in Ids PROVE SubsetComes(i)'
      <4>1. CASE i \in Sets!In(set)
        BY <2>1, <4>1 DEF SubsetComes, SubsetOf
      <4>2. CASE i \notin Sets!In(set) /\ Sets!In(set) # lastSet
        BY <2>3, <3>1, <4>2 DEF SubsetComes, Sets!In
      <4>3. CASE i \notin Sets!In(set) /\ Sets!In(set) = lastSet
        <5>1. kept'[i] = kept[i] /\ set[i] = None
          BY <2>3, <4>3 DEF Sets!In
        <5>2. kept[i] # None => i \in skipped'
          BY <2>1, <2>4, <4>3, <5>1 DEF Sets!Skip, Sets!Withheld
        <5> QED
          BY <3>1, <5>1, <5>2 DEF SubsetComes
      <4> QED
        BY <4>1, <4>2, <4>3
    <3>4. RoomsSaid'
      BY <2>3, <3>1, <3>2 DEF RoomsSaid, Sets!OfRooms, Sets!In
    <3> QED
      BY <3>2, <3>3, <3>4 DEF ReadTrue, SetAlone, SetHandled
  <2> QED
    BY <2>1, <2>3, <2>4 DEF SetInv, SetTypes, Reading
<1> QED
  BY <1>1, <1>2

(* A whole set: what is not withheld is as the robot has it.               *)
LEMMA HandleWholeSetFact ==
  ASSUME SetInv, NEW set, Sets!HandleWholeSet(set),
         NEW a \in answers, a[1] = "set", a[2] = set,
         answers' = answers \ {a}, UNCHANGED <<read, robot>>
  PROVE  SetInv'
<1>1. /\ read = <<"getMapSet_V2", "walls">>
      /\ UNCHANGED <<rooms, learned, asked, disturbed>>
  BY DEF Sets!HandleWholeSet
<1>2. ~Named /\ ~Sets!OfRooms
  BY <1>1 DEF Named, Sets!OfRooms
<1>3. Sets!In(set) \in SUBSET Ids /\ \A i \in Ids \ Sets!In(set) : set[i] = None
  BY DEF Sets!In
(* now is what is kept before the set is notified; what differs from the   *)
(* set is withheld, or not in it.                                          *)
<1>4. \E now : /\ now = [i \in Ids |-> now[i]]
               /\ Sets!NotifySet(Sets!In(set), now)
               /\ \A i \in Ids \ Sets!In(set) : now[i] = kept[i]
               /\ ~disturbed => /\ Sets!Withheld(set) \subseteq skipped'
                                /\ \A i \in Sets!In(set) : now[i] = set[i] \/ i \in skipped'
  <2>1. CASE /\ Sets!In(set) = {} /\ Sets!NotifySet({}, kept)
             /\ Sets!Skip(Sets!Withheld(set))
    BY <2>1 DEF Sets!Skip, SetInv, SetTypes
  <2> DEFINE now(known)    == [i \in Ids |-> IF i \in known THEN set[i] ELSE kept[i]]
             unheard(known) == {i \in Sets!In(set) \ known : kept[i] # set[i]}
             Known(known)  == /\ known \subseteq Sets!In(set)
                              /\ Sets!NotifySet(Sets!In(set), now(known))
                              /\ Sets!Skip(Sets!Withheld(set) \cup unheard(known))
  <2>2. \/ /\ Sets!In(set) = {} /\ Sets!NotifySet({}, kept)
           /\ Sets!Skip(Sets!Withheld(set))
        \/ \E known : Known(known)
    BY DEF Sets!HandleWholeSet
  <2>3. ASSUME NEW known, Known(known)
        PROVE  /\ now(known) = [i \in Ids |-> now(known)[i]]
               /\ Sets!NotifySet(Sets!In(set), now(known))
               /\ \A i \in Ids \ Sets!In(set) : now(known)[i] = kept[i]
               /\ ~disturbed =>
                    /\ Sets!Withheld(set) \subseteq skipped'
                    /\ \A i \in Sets!In(set) : now(known)[i] = set[i] \/ i \in skipped'
    <3>1. now(known) = [i \in Ids |-> now(known)[i]]
      OBVIOUS
    <3>2. \A i \in Ids \ Sets!In(set) : now(known)[i] = kept[i]
      BY <1>3, <2>3
    <3>3. ~disturbed => /\ Sets!Withheld(set) \subseteq skipped'
                        /\ \A i \in Sets!In(set) : now(known)[i] = set[i] \/ i \in skipped'
      BY <1>3, <2>3 DEF Sets!Skip
    <3> QED
      BY <2>3, <3>1, <3>2, <3>3
  <2> HIDE DEF now, Known
  <2> QED
    BY <2>1, <2>2, <2>3
<1>5. PICK now : /\ now = [i \in Ids |-> now[i]]
                 /\ Sets!NotifySet(Sets!In(set), now)
                 /\ \A i \in Ids \ Sets!In(set) : now[i] = kept[i]
                 /\ ~disturbed => /\ Sets!Withheld(set) \subseteq skipped'
                                  /\ \A i \in Sets!In(set) : now[i] = set[i] \/ i \in skipped'
  BY <1>4
<1>6. /\ kept' = [i \in Ids |-> kept'[i]]
      /\ Counted'
      /\ \A i \in Sets!In(set) : kept'[i] = now[i]
      /\ Sets!In(set) # lastSet => \A i \in Ids \ Sets!In(set) : kept'[i] = None
      /\ Sets!In(set) = lastSet => kept' = now
  BY <1>3, <1>5, NotifySetFact
<1>7. ASSUME ~disturbed PROVE ReadTrue' /\ SetAlone' /\ SetHandled'
  <2>1. /\ ~learned /\ asked = {} /\ answers = {SetAnswer} /\ a = SetAnswer /\ set = robot
    BY <1>7, SetAnswerAlone
  <2>2. answers' = {} /\ asked' = {} /\ ~SetComes' /\ ~Named' /\ ~Sets!OfRooms'
    BY <1>1, <1>2, <2>1 DEF SetComes, SetAnswer, Named, Sets!OfRooms
  <2>3. ASSUME NEW i \in Ids PROVE SubsetComes(i)'
    <3>1. CASE i \in Sets!In(set)
      BY <1>5, <1>6, <1>7, <2>1, <3>1 DEF SubsetComes
    <3>2. CASE i \notin Sets!In(set) /\ Sets!In(set) # lastSet
      BY <1>3, <1>6, <2>1, <3>2 DEF SubsetComes
    <3>3. CASE i \notin Sets!In(set) /\ Sets!In(set) = lastSet
      <4>1. kept'[i] = kept[i] /\ set[i] = None
        BY <1>3, <1>5, <1>6, <3>3
      <4>2. kept[i] # None => i \in skipped'
        BY <1>5, <1>7, <3>3, <4>1 DEF Sets!Withheld
      <4> QED
        BY <2>1, <4>1, <4>2 DEF SubsetComes
    <3> QED
      BY <3>1, <3>2, <3>3
  <2> QED
    BY <2>2, <2>3 DEF ReadTrue, SetAlone, SetHandled, RoomsSaid
<1> QED
  BY <1>1, <1>6, <1>7 DEF SetInv, SetTypes, Reading

LEMMA HandleNamedFact ==
  ASSUME SetInv, NEW set, Sets!HandleNamedRooms(set),
         NEW a \in answers, a[1] = "set", a[2] = set,
         answers' = answers \ {a}, UNCHANGED <<read, robot>>
  PROVE  SetInv'
<1>1. /\ read = <<"getMapSet_V2_named", "rooms">> /\ rooms' = set
      /\ UNCHANGED <<lastSet, kept, amount, asked, disturbed>>
  BY DEF Sets!HandleNamedRooms
<1>2. Named' /\ SetTypes' /\ Counted'
  BY <1>1 DEF SetInv, SetTypes, Counted, Sets!OfRooms, Named
<1>3. ASSUME ~disturbed PROVE ReadTrue' /\ SetAlone' /\ SetHandled'
  <2>1. asked = {} /\ answers = {SetAnswer} /\ a = SetAnswer /\ set = robot
    BY <1>3, SetAnswerAlone
  <2>2. answers' = {} /\ asked' = {} /\ rooms' = robot'
    BY <1>1, <2>1 DEF SetAnswer
  <2> QED
    BY <1>2, <2>2 DEF ReadTrue, SetAlone, SetHandled, SetComes
<1> QED
  BY <1>1, <1>2, <1>3 DEF SetInv, Reading

(* A subset is learned, or withheld because it was the last one.  A room   *)
(* that completes what is kept makes it the rooms that are said.           *)
LEMMA HandleSubsetFact ==
  ASSUME SetInv, NEW a \in answers, a[1] # "set", Sets!HandleSubset(a[2][1], a[2][2]),
         answers' = answers \ {a}, UNCHANGED <<read, robot>>
  PROVE  SetInv'
<1> DEFINE content == a[2][2]
<1>1. /\ UNCHANGED <<lastSet, amount, asked, disturbed>>
      /\ \/ /\ Sets!Skip({x \in {a[2][1]} : kept[x] # content})
            /\ UNCHANGED <<kept, rooms, learned>>
         \/ Sets!Learn(a[2][1], content) /\ UNCHANGED skipped
  BY DEF Sets!HandleSubset
<1>2. SetTypes' /\ Counted'
  <2>1. kept' = [i \in Ids |-> kept'[i]]
    BY <1>1 DEF Sets!Learn, SetInv, SetTypes
  <2> QED
    BY <1>1, <2>1 DEF SetInv, SetTypes, Counted, Sets!OfRooms
<1>3. ASSUME ~disturbed PROVE ReadTrue' /\ SetAlone' /\ SetHandled'
  <2>1. ReadTrue /\ SetAlone /\ SetHandled
    BY <1>3 DEF SetInv, Reading
  <2>2. PICK p \in Ids : a = SubsetAnswer(p)
    BY <2>1 DEF ReadTrue, SetAnswer
  <2>3. a[2][1] = p /\ content = robot[p]
    BY <2>2 DEF SubsetAnswer
  <2>4. ~SetComes /\ ~Named /\ RoomsSaid /\ \A i \in Ids : SubsetComes(i)
    BY <2>1, <2>2 DEF SetAlone, SetHandled, SetAnswer, SubsetAnswer
  <2>5. SetAnswer' = SetAnswer /\ \A i \in Ids : SubsetAnswer(i)' = SubsetAnswer(i)
    BY DEF SetAnswer, SubsetAnswer
  <2>6. ReadTrue' /\ ~SetComes' /\ ~Named'
    BY <1>1, <2>1, <2>4, <2>5 DEF ReadTrue, SetComes, Named
  <2> HIDE DEF content
  <2>7. /\ skipped \subseteq skipped'
        /\ p \in skipped' \/ kept'[p] = robot[p]
        /\ \A i \in Ids : i # p => kept'[i] = kept[i]
    <3>1. CASE /\ Sets!Skip({x \in {p} : kept[x] # robot[p]})
               /\ UNCHANGED <<kept, rooms, learned>>
      BY <1>3, <3>1 DEF Sets!Skip
    <3>2. CASE Sets!Learn(p, robot[p]) /\ UNCHANGED skipped
      BY <3>2 DEF Sets!Learn, SetInv, SetTypes
    <3> QED
      BY <1>1, <2>3, <3>1, <3>2
  <2>8. ASSUME NEW i \in Ids PROVE SubsetComes(i)'
    <3>1. CASE i = p
      BY <2>7, <3>1 DEF SubsetComes
    <3>2. CASE i # p
      <4>1. SubsetAnswer(i) # a
        BY <2>2, <3>2 DEF SubsetAnswer
      <4> QED
        BY <1>1, <2>4, <2>5, <2>7, <3>2, <4>1 DEF SubsetComes, SubsetOf
    <3> QED
      BY <3>1, <3>2
  <2>9. RoomsSaid'
    <3> SUFFICES ASSUME Sets!OfRooms
                 PROVE  /\ amount' = Sets!Cardinality(Sets!In(robot))
                        /\ learned' /\ kept' = robot => rooms' = robot
      BY DEF RoomsSaid, Sets!OfRooms, Sets!In
    <3>1. amount' = Sets!Cardinality(Sets!In(robot))
      BY <1>1, <2>4 DEF RoomsSaid
    <3>2. CASE UNCHANGED <<kept, rooms, learned>>
      BY <2>4, <3>1, <3>2 DEF RoomsSaid
    <3>3. CASE Sets!Learn(p, robot[p])
      <4>1. CASE kept[p] = robot[p]
        <5>1. UNCHANGED <<kept, rooms>> /\ (learned' => learned)
          BY <3>3, <4>1 DEF Sets!Learn, SetInv, SetTypes
        <5> QED
          BY <2>4, <3>1, <5>1 DEF RoomsSaid
      <4>2. CASE kept[p] # robot[p]
        <5>1. Sets!Cardinality(Sets!In(kept')) = amount => rooms' = kept'
          BY <3>3, <4>2 DEF Sets!Learn
        <5>2. amount = amount'
          BY <1>1
        <5> QED
          BY <3>1, <5>1, <5>2
      <4> QED
        BY <4>1, <4>2
    <3>4. Sets!Learn(p, robot[p]) \/ UNCHANGED <<kept, rooms, learned>>
      BY <1>1, <2>3
    <3> QED
      BY <3>2, <3>3, <3>4
  <2> QED
    BY <2>6, <2>8, <2>9 DEF SetAlone, SetHandled
<1> QED
  BY <1>1, <1>2, <1>3 DEF SetInv, Reading

LEMMA NextSets == ASSUME SetInv, [Sets!Next]_(Sets!vars) PROVE SetInv'
<1>1. CASE Sets!RequestRefresh
  <2>1. /\ asked' = {<<"set">>} /\ answers' = {} /\ ~learned'
        /\ UNCHANGED <<read, robot, lastSet, kept, amount>>
    BY <1>1 DEF Sets!RequestRefresh
  <2>2. SetTypes' /\ Counted'
    BY <2>1 DEF SetInv, SetTypes, Counted, Sets!OfRooms
  <2>3. ReadTrue' /\ SetAlone' /\ SetHandled'
    BY <2>1 DEF ReadTrue, SetAlone, SetHandled, SetComes
  <2> QED
    BY <2>2, <2>3 DEF SetInv, Reading
<1>2. CASE Sets!OnMapSet
  BY <1>2, SetsDisturbed DEF Sets!OnMapSet, SetInv, SetTypes
<1>3. CASE Sets!ReadOther
  BY <1>3, SetsKept DEF Sets!ReadOther
<1>4. ASSUME NEW i \in Ids, NEW content \in Contents \cup {None}, Sets!Change(i, content)
      PROVE SetInv'
  <2>1. robot' = [x \in Ids |-> robot'[x]]
    BY <1>4 DEF Sets!Change, SetInv, SetTypes
  <2> QED
    BY <1>4, <2>1, SetsDisturbed DEF Sets!Change
<1>5. ASSUME NEW c \in asked, Sets!Fail(c) PROVE SetInv'
  BY <1>5, SetsDisturbed DEF Sets!Fail, SetInv, SetTypes
<1>6. ASSUME NEW a \in answers, Sets!HandleResponse(a) PROVE SetInv'
  <2>1. answers' = answers \ {a} /\ UNCHANGED <<read, robot>>
    BY <1>6 DEF Sets!HandleResponse
  <2>2. CASE a[1] = "set"
    <3>1. Sets!HandleSet(a[2]) \/ Sets!HandleWholeSet(a[2]) \/ Sets!HandleNamedRooms(a[2])
      BY <1>6, <2>2 DEF Sets!HandleResponse
    <3> QED
      BY <2>1, <2>2, <3>1, HandleSetFact, HandleWholeSetFact, HandleNamedFact
  <2>3. CASE a[1] # "set"
    <3>1. Sets!HandleSubset(a[2][1], a[2][2])
      BY <1>6, <2>3 DEF Sets!HandleResponse
    <3> QED
      BY <2>1, <2>3, <3>1, HandleSubsetFact
  <2> QED
    BY <2>2, <2>3
<1>7. CASE UNCHANGED Sets!vars
  BY <1>7, SetsKept DEF Sets!vars
<1> QED
  BY <1>1, <1>2, <1>3, <1>4, <1>5, <1>6, <1>7, AnswerSetFact, AnswerSubsetFact DEF Sets!Next

LEMMA SetsInvariant == Sets!Spec => []SetInv
<1>1. SetInv /\ [Sets!Next]_(Sets!vars) => SetInv'
  BY NextSets
<1> QED
  BY <1>1, InitSets, PTL DEF Sets!Spec

LEMMA SetsOfRobot == MCSpec => [](part = "sets" => SetInv)
<1>1. MCInit => (part = "sets" => SetInv)
  BY InitSets DEF MCInit
<1>2. (part = "sets" => SetInv) /\ [MCNext]_MCvars => (part = "sets" => SetInv)'
  <2> SUFFICES ASSUME part = "sets" => SetInv, [MCNext]_MCvars, part' = "sets"
               PROVE  SetInv'
    OBVIOUS
  <2>1. part = "sets" /\ [Sets!Next]_(Sets!vars)
    BY DEF MCNext, MCvars, Sets!vars, shared, sets
  <2> QED
    BY <2>1, NextSets
<1> QED
  BY <1>1, <1>2, PTL DEF MCSpec

(* Whatever was lost, late or overlapping before, a refresh that nothing   *)
(* disturbs leaves the walls, zones and rooms of the robot, apart from     *)
(* what the bus withheld because it equalled the last event.               *)
THEOREM SetsRepaired ==
  /\ Sets!Spec => []Sets!KeptIsRepaired
  /\ MCSpec => []KeptIsRepaired
<1>1. SetInv => Sets!KeptIsRepaired
  BY DEF SetInv, Reading, SetHandled, SetComes, SubsetComes, Named, Sets!Refreshed,
     Sets!KeptIsRepaired
<1>2. Sets!Spec => []Sets!KeptIsRepaired
  BY <1>1, SetsInvariant, PTL
<1>3. (part = "sets" => SetInv) => KeptIsRepaired
  BY <1>1 DEF KeptIsRepaired
<1>4. MCSpec => []KeptIsRepaired
  BY <1>3, SetsOfRobot, PTL
<1> QED
  BY <1>2, <1>4

(* Nor does such a refresh, when it learned of a room, leave a RoomsEvent  *)
(* that is incomplete, or of rooms the robot does not have.                *)
THEOREM RoomsTrue ==
  /\ Sets!Spec => []Sets!RoomsReported
  /\ MCSpec => []RoomsReported
<1>1. SetInv => Sets!RoomsReported
  <2> SUFFICES ASSUME SetInv, Sets!Refreshed, Sets!OfRooms, learned, skipped = {}
               PROVE  rooms = robot
    BY DEF Sets!RoomsReported
  <2>1. SetHandled /\ ~SetComes /\ asked = {} /\ answers = {}
    BY DEF SetInv, Reading, SetComes, Sets!Refreshed
  <2>2. CASE Named
    BY <2>1, <2>2 DEF SetHandled
  <2>3. CASE ~Named
    <3>1. \A i \in Ids : kept[i] = robot[i]
      BY <2>1, <2>3 DEF SetHandled, SubsetComes
    <3>2. kept = robot
      BY <3>1 DEF SetInv, SetTypes
    <3> QED
      BY <2>1, <2>3, <3>2 DEF SetHandled, RoomsSaid
  <2> QED
    BY <2>2, <2>3
<1>2. Sets!Spec => []Sets!RoomsReported
  BY <1>1, SetsInvariant, PTL
<1>3. (part = "sets" => SetInv) => RoomsReported
  BY <1>1 DEF RoomsReported
<1>4. MCSpec => []RoomsReported
  BY <1>3, SetsOfRobot, PTL
<1> QED
  BY <1>2, <1>4

-----------------------------------------------------------------------------
(* The picture.  Its side is even, so that it has a middle: with one more  *)
(* pixel, background and positions would be a pixel apart.                 *)

(* Numbers of a square of k by k, and their rows and columns               *)
LEMMA TimesFact ==
  ASSUME NEW a \in Nat, NEW b \in Nat, NEW c \in Nat, a <= b PROVE a * c <= b * c
OBVIOUS

LEMMA DivideFact ==
  ASSUME NEW k \in Nat \ {0}, NEW n \in Nat
  PROVE  n \div k \in Nat /\ n % k \in 0..(k - 1) /\ k * (n \div k) <= n
<1>1. n \div k \in Nat /\ n % k \in 0..(k - 1) /\ n = k * (n \div k) + (n % k)
  OBVIOUS
<1> QED
  BY <1>1

LEMMA InSquare ==
  ASSUME NEW k \in Nat \ {0}, NEW n \in 0..(k * k - 1)
  PROVE  n \div k \in 0..(k - 1) /\ n % k \in 0..(k - 1)
<1> DEFINE q == n \div k
<1>1. n \in Nat /\ n < k * k
  OBVIOUS
<1>2. q \in Nat /\ n % k \in 0..(k - 1) /\ k * q <= n
  BY <1>1, DivideFact
<1> HIDE DEF q
<1>3. ASSUME k <= q PROVE FALSE
  <2>1. k * k <= q * k
    BY <1>2, <1>3, TimesFact
  <2>2. q * k = k * q
    BY <1>2
  <2> QED
    BY <1>1, <1>2, <2>1, <2>2
<1>4. q <= k - 1
  BY <1>2, <1>3
<1> QED
  BY <1>2, <1>4 DEF q

LEMMA PlaceFact ==
  ASSUME NEW m \in Nat \ {0}, NEW k \in Nat \ {0}, NEW q \in 0..(m - 1), NEW r \in 0..(k - 1)
  PROVE  /\ q * k + r \in 0..(m * k - 1)
         /\ q * k \in Nat /\ m * k \in Nat /\ (q + 1) * k = q * k + k
<1>1. q * k \in Nat /\ m * k \in Nat /\ (q + 1) * k \in Nat
  OBVIOUS
<1>2. (q + 1) * k <= m * k
  BY TimesFact
<1>3. (q + 1) * k = q * k + k
  OBVIOUS
<1> QED
  BY <1>1, <1>2, <1>3

(* Every pixel is one of the picture, and the spot it stands for is as far *)
(* from the middle of the map as the pixel from that of the picture.       *)
LEMMA PixelFact ==
  ASSUME NEW d \in Pixels!Dot
  PROVE  LET o == Pixels!Offset
             x == Pixels!Pixel(d)[1]
             y == Pixels!Pixel(d)[2]
         IN  /\ o \in Nat
             /\ x \in 0..(2 * o - 1) /\ y \in 0..(2 * o - 1)
             /\ Pixels!Pixel(d) = <<x, y>>
             /\ Pixels!Corner(d) = <<5 * (x - o), 5 * (o - 1 - y)>>
<1> DEFINE o == Pixels!Offset
           M == Side * PieceSize
           c == d[1] \div Side
           r == d[1] % Side
           s == d[2] \div PieceSize
           t == d[2] % PieceSize
<1>1. d[1] \in 0..(Side * Side - 1) /\ d[2] \in 0..(PieceSize * PieceSize - 1)
  BY DEF Pixels!Dot
<1>2. c \in 0..(Side - 1) /\ r \in 0..(Side - 1)
  BY <1>1, InSquare, SizeAssumption
<1>3. s \in 0..(PieceSize - 1) /\ t \in 0..(PieceSize - 1)
  BY <1>1, InSquare, SizeAssumption
<1>4. Pixels!MapSize = M /\ Pixels!Offset = M \div 2
  BY DEF Pixels!Offset, Pixels!MapSize
<1>5. /\ Pixels!Pixel(d) = <<c * PieceSize + s,
                             M - (r + 1) * PieceSize + PieceSize - 1 - t>>
      /\ Pixels!Corner(d) = <<5 * (c * PieceSize + s - o), 5 * ((r * PieceSize) + t - o)>>
  BY <1>4 DEF Pixels!Pixel, Pixels!PieceX, Pixels!PieceY, Pixels!Corner
<1> HIDE DEF c, r, s, t
<1>6. /\ c * PieceSize + s \in 0..(M - 1) /\ r * PieceSize + t \in 0..(M - 1)
      /\ c * PieceSize \in Nat /\ r * PieceSize \in Nat /\ M \in Nat
      /\ (r + 1) * PieceSize = r * PieceSize + PieceSize
  BY <1>2, <1>3, PlaceFact, SizeAssumption
<1> DEFINE u == c * PieceSize
           v == r * PieceSize
           w == (r + 1) * PieceSize
<1>7. M \in Nat /\ o \in Nat /\ M = 2 * o
  BY <1>4, <1>6, SizeAssumption
<1> HIDE DEF M, o
<1>8. /\ Pixels!Pixel(d) = <<u + s, M - w + PieceSize - 1 - t>>
      /\ Pixels!Corner(d) = <<5 * (u + s - o), 5 * (v + t - o)>>
  BY <1>5
<1>9. /\ u \in Nat /\ v \in Nat /\ w = v + PieceSize /\ PieceSize \in Nat
      /\ u + s \in 0..(M - 1) /\ v + t \in 0..(M - 1) /\ s \in Nat /\ t \in Nat
  BY <1>3, <1>6, SizeAssumption
<1> HIDE DEF u, v, w
<1>10. M - w + PieceSize - 1 - t = M - 1 - (v + t)
  BY <1>7, <1>9
<1>11. v + t - o = o - 1 - (M - 1 - (v + t))
  BY <1>7, <1>9
<1>12. /\ Pixels!Pixel(d) = <<u + s, M - 1 - (v + t)>>
       /\ Pixels!Corner(d) = <<5 * (u + s - o), 5 * (o - 1 - (M - 1 - (v + t)))>>
  BY <1>8, <1>10, <1>11
<1>13. M - 1 - (v + t) \in 0..(2 * o - 1) /\ u + s \in 0..(2 * o - 1)
  BY <1>7, <1>9
<1> DEFINE a == u + s
           b == M - 1 - (v + t)
<1>14. /\ Pixels!Pixel(d) = <<a, b>> /\ Pixels!Corner(d) = <<5 * (a - o), 5 * (o - 1 - b)>>
       /\ a \in 0..(2 * o - 1) /\ b \in 0..(2 * o - 1)
  <2>1. a \in 0..(2 * o - 1) /\ b \in 0..(2 * o - 1)
    BY <1>13
  <2>2. Pixels!Pixel(d) = <<a, b>>
    BY <1>12
  <2>3. Pixels!Corner(d) = <<5 * (a - o), 5 * (o - 1 - b)>>
    BY <1>7, <1>9, <1>12
  <2> QED
    BY <2>1, <2>2, <2>3
<1> HIDE DEF a, b
<1>15. Pixels!Pixel(d)[1] = a /\ Pixels!Pixel(d)[2] = b
  BY <1>14
<1> QED
  BY <1>7, <1>14, <1>15 DEF o

(* A set of numbers that is bounded has a least and a greatest one.        *)
LEMMA Least ==
  ASSUME NEW S \in SUBSET Nat, S # {}
  PROVE  \E x \in S : \A y \in S : x <= y
<1> DEFINE R == OpToRel(<, Nat)
<1>1. IsWellFoundedOn(R, Nat)
  BY NatLessThanWellFounded
<1>2. \A x, y \in Nat : <<y, x>> \in R <=> y < x
  BY DEF OpToRel
<1> HIDE DEF R
<1>3. PICK x \in S : \A y \in S : ~ (<<y, x>> \in R)
  BY <1>1, WFMin
<1>4. ASSUME NEW y \in S PROVE x <= y
  <2>1. x \in Nat /\ y \in Nat /\ ~(y < x)
    BY <1>2, <1>3
  <2> QED
    BY <2>1
<1> QED
  BY <1>3, <1>4

LEMMA MinMaxFact ==
  ASSUME NEW S \in SUBSET Nat, S # {}, NEW n \in Nat, \A s \in S : s <= n
  PROVE  /\ Pixels!Min(S) \in S /\ \A s \in S : Pixels!Min(S) <= s
         /\ Pixels!Max(S) \in S /\ \A s \in S : s <= Pixels!Max(S)
<1>1. Pixels!Min(S) \in S /\ \A s \in S : Pixels!Min(S) <= s
  BY Least DEF Pixels!Min
<1>2. \E x \in S : \A y \in S : x >= y
  <2> DEFINE T == {n - s : s \in S}
  <2>1. T \in SUBSET Nat /\ T # {}
    <3>1. \A s \in S : s \in Nat /\ n - s \in Nat
      OBVIOUS
    <3>2. T \in SUBSET Nat
      BY <3>1
    <3>3. PICK s \in S : TRUE
      OBVIOUS
    <3> QED
      BY <3>2, <3>3
  <2>2. PICK least \in T : \A u \in T : least <= u
    BY <2>1, Least
  <2>3. PICK x \in S : least = n - x
    BY <2>2
  <2>4. \A y \in S : n - x <= n - y
    BY <2>2, <2>3
  <2> QED
    BY <2>4
<1>3. Pixels!Max(S) \in S /\ \A s \in S : s <= Pixels!Max(S)
  BY <1>2 DEF Pixels!Max
<1> QED
  BY <1>1, <1>3

LEMMA BoundedFact ==
  ASSUME NEW n \in Int, NEW least \in Int, NEW greatest \in Int, least <= n, n <= greatest
  PROVE  Pixels!Bounded(n, least, greatest) = n
<1>1. Pixels!Max({n, least}) = n
  BY DEF Pixels!Max
<1>2. Pixels!Min({n, greatest}) = n
  BY DEF Pixels!Min
<1> QED
  BY <1>1, <1>2 DEF Pixels!Bounded

(* The view box holds every pixel that is there.                           *)
LEMMA BoxFact ==
  ASSUME dots \subseteq Pixels!Dot, NEW d \in dots
  PROVE  LET o == Pixels!Offset
             x == Pixels!Pixel(d)[1]
             y == Pixels!Pixel(d)[2]
         IN  /\ Pixels!Box.minX \in Int /\ Pixels!Box.minX <= x - o
             /\ Pixels!Box.maxX \in Int /\ x + 1 - o <= Pixels!Box.maxX
             /\ Pixels!Box.minY \in Int /\ Pixels!Box.minY <= y - o
             /\ Pixels!Box.maxY \in Int /\ y + 1 - o <= Pixels!Box.maxY
<1> DEFINE o == Pixels!Offset
           x == Pixels!Pixel(d)[1]
           y == Pixels!Pixel(d)[2]
           n == 2 * o - 1
<1>1. o \in Nat /\ x \in 0..n /\ y \in 0..n
  BY PixelFact
<1>2. n \in Nat
  BY <1>1
<1>3. Pixels!Xs \in SUBSET (0..n) /\ Pixels!Ys \in SUBSET (0..n)
  BY PixelFact DEF Pixels!Xs, Pixels!Ys
<1>4. x \in Pixels!Xs /\ y \in Pixels!Ys
  BY DEF Pixels!Xs, Pixels!Ys
<1> HIDE DEF n
<1>5. /\ Pixels!Xs \in SUBSET Nat /\ Pixels!Xs # {} /\ \A i \in Pixels!Xs : i <= n
      /\ Pixels!Ys \in SUBSET Nat /\ Pixels!Ys # {} /\ \A i \in Pixels!Ys : i <= n
  BY <1>2, <1>3, <1>4
<1>6. /\ Pixels!Min(Pixels!Xs) \in Nat /\ Pixels!Min(Pixels!Xs) <= x
      /\ Pixels!Max(Pixels!Xs) \in Nat /\ x <= Pixels!Max(Pixels!Xs)
  BY <1>2, <1>4, <1>5, MinMaxFact
<1>7. /\ Pixels!Min(Pixels!Ys) \in Nat /\ Pixels!Min(Pixels!Ys) <= y
      /\ Pixels!Max(Pixels!Ys) \in Nat /\ y <= Pixels!Max(Pixels!Ys)
  BY <1>2, <1>4, <1>5, MinMaxFact
<1>8. /\ Pixels!Box.minX = Pixels!Min(Pixels!Xs) - o
      /\ Pixels!Box.maxX = Pixels!Max(Pixels!Xs) + 1 - o
      /\ Pixels!Box.minY = Pixels!Min(Pixels!Ys) - o
      /\ Pixels!Box.maxY = Pixels!Max(Pixels!Ys) + 1 - o
  BY DEF Pixels!Box
<1>9. x \in Nat /\ y \in Nat
  BY <1>1
<1> HIDE DEF o, x, y
<1>10. /\ Pixels!Box.minX \in Int /\ Pixels!Box.minX <= x - o
      /\ Pixels!Box.maxX \in Int /\ x + 1 - o <= Pixels!Box.maxX
  BY <1>1, <1>6, <1>8, <1>9
<1>11. /\ Pixels!Box.minY \in Int /\ Pixels!Box.minY <= y - o
       /\ Pixels!Box.maxY \in Int /\ y + 1 - o <= Pixels!Box.maxY
  BY <1>1, <1>7, <1>8, <1>9
<1> QED
  BY <1>10, <1>11 DEF o, x, y

(* A rotation turns positions and the trace alike.                         *)
LEMMA RotationFact ==
  ASSUME NEW x \in Int, NEW y \in Int, NEW rotation \in Pixels!Rotations
  PROVE  Pixels!CalcPoint(10 * x, 10 * y, rotation) = Pixels!TracePlace(x, y, rotation)
<1>1. CASE rotation = 0
  BY <1>1 DEF Pixels!CalcPoint, Pixels!TracePlace, Pixels!TraceRotated
<1>2. CASE rotation = 90
  BY <1>2 DEF Pixels!CalcPoint, Pixels!TracePlace, Pixels!TraceRotated
<1>3. CASE rotation = 180
  BY <1>3 DEF Pixels!CalcPoint, Pixels!TracePlace, Pixels!TraceRotated
<1>4. CASE rotation = 270
  BY <1>4 DEF Pixels!CalcPoint, Pixels!TracePlace, Pixels!TraceRotated
<1> QED
  BY <1>1, <1>2, <1>3, <1>4 DEF Pixels!Rotations

LEMMA SpotFact ==
  ASSUME dots \subseteq Pixels!Dot, NEW d \in dots, NEW a \in 0..5, NEW b \in 0..5
  PROVE  LET x == Pixels!Corner(d)[1] + a
             y == Pixels!Corner(d)[2] + b
         IN  /\ x \in Int /\ y \in Int
             /\ Pixels!InCell(<<10 * x, -(10 * y)>>, Pixels!Pixel(d))
             /\ Pixels!CalcPointInBox(10 * x, 10 * y, 0) = <<10 * x, -(10 * y)>>
<1> DEFINE o == Pixels!Offset
           px == Pixels!Pixel(d)[1]
           py == Pixels!Pixel(d)[2]
           x == Pixels!Corner(d)[1] + a
           y == Pixels!Corner(d)[2] + b
           box == Pixels!Box
<1>1. /\ o \in Nat /\ px \in Int /\ py \in Int
      /\ Pixels!Corner(d)[1] = 5 * (px - o) /\ Pixels!Corner(d)[2] = 5 * (o - 1 - py)
  BY PixelFact
<1>2. /\ box.minX \in Int /\ box.minX <= px - o /\ box.maxX \in Int /\ px + 1 - o <= box.maxX
      /\ box.minY \in Int /\ box.minY <= py - o /\ box.maxY \in Int /\ py + 1 - o <= box.maxY
  BY BoxFact
<1>3. x = 5 * (px - o) + a /\ y = 5 * (o - 1 - py) + b
  BY <1>1
<1>4. Pixels!InCell(<<10 * x, -(10 * y)>>, Pixels!Pixel(d))
      <=> /\ 10 * x \in (px - o) * 50 .. (px + 1 - o) * 50
          /\ -(10 * y) \in (py - o) * 50 .. (py + 1 - o) * 50
  BY DEF Pixels!InCell, Pixels!PixelWidth
<1>5. Pixels!CalcPointInBox(10 * x, 10 * y, 0)
        = <<Pixels!Bounded(10 * x, box.minX * 50, box.maxX * 50),
            Pixels!Bounded(-(10 * y), box.minY * 50, box.maxY * 50)>>
  BY DEF Pixels!CalcPointInBox, Pixels!CalcPoint, Pixels!PixelWidth
<1> HIDE DEF o, px, py, x, y, box
<1>6. /\ x \in Int /\ y \in Int
      /\ 10 * x \in (px - o) * 50 .. (px + 1 - o) * 50
      /\ -(10 * y) \in (py - o) * 50 .. (py + 1 - o) * 50
  BY <1>1, <1>3
<1>7. /\ box.minX * 50 \in Int /\ box.minX * 50 <= 10 * x
      /\ box.maxX * 50 \in Int /\ 10 * x <= box.maxX * 50
      /\ box.minY * 50 \in Int /\ box.minY * 50 <= -(10 * y)
      /\ box.maxY * 50 \in Int /\ -(10 * y) <= box.maxY * 50
  BY <1>1, <1>2, <1>6
<1>8. /\ Pixels!Bounded(10 * x, box.minX * 50, box.maxX * 50) = 10 * x
      /\ Pixels!Bounded(-(10 * y), box.minY * 50, box.maxY * 50) = -(10 * y)
  BY <1>6, <1>7, BoundedFact
<1> QED
  BY <1>4, <1>5, <1>6, <1>8 DEF x, y

(* For every map with a middle and whatever of it there is, the background *)
(* shows a spot of the world where positions and the trace show it, inside *)
(* of the view box, and every rotation turns positions and trace alike.    *)
THEOREM PartsAgree ==
  /\ Pixels!Spec => []Pixels!PartsMeet
  /\ MCSpec => []PartsMeet
<1>1. Pixels!Init => dots \subseteq Pixels!Dot
  BY DEF Pixels!Init
<1>2. dots \subseteq Pixels!Dot /\ [Pixels!Next]_dots => (dots \subseteq Pixels!Dot)'
  BY DEF Pixels!Next, Pixels!Empty, Pixels!Set, Pixels!Dot
<1>3. dots \subseteq Pixels!Dot => Pixels!PartsMeet
  <2> SUFFICES ASSUME dots \subseteq Pixels!Dot, NEW d \in dots, NEW a \in 0..5, NEW b \in 0..5
               PROVE  LET x == Pixels!Corner(d)[1] + a
                          y == Pixels!Corner(d)[2] + b
                      IN /\ Pixels!InCell(Pixels!CalcPointInBox(10 * x, 10 * y, 0),
                                          Pixels!Pixel(d))
                         /\ Pixels!CalcPointInBox(10 * x, 10 * y, 0) = Pixels!TracePlace(x, y, 0)
                         /\ \A rotation \in Pixels!Rotations :
                              Pixels!CalcPoint(10 * x, 10 * y, rotation)
                                = Pixels!TracePlace(x, y, rotation)
    BY DEF Pixels!PartsMeet
  <2> DEFINE x == Pixels!Corner(d)[1] + a
             y == Pixels!Corner(d)[2] + b
  <2>1. /\ x \in Int /\ y \in Int
        /\ Pixels!InCell(<<10 * x, -(10 * y)>>, Pixels!Pixel(d))
        /\ Pixels!CalcPointInBox(10 * x, 10 * y, 0) = <<10 * x, -(10 * y)>>
    BY SpotFact
  <2> HIDE DEF x, y
  <2>2. \A rotation \in Pixels!Rotations :
          Pixels!CalcPoint(10 * x, 10 * y, rotation) = Pixels!TracePlace(x, y, rotation)
    BY <2>1, RotationFact
  <2>3. Pixels!CalcPoint(10 * x, 10 * y, 0) = <<10 * x, -(10 * y)>> /\ 0 \in Pixels!Rotations
    BY DEF Pixels!CalcPoint, Pixels!Rotations
  <2>4. Pixels!TracePlace(x, y, 0) = <<10 * x, -(10 * y)>>
    BY <2>2, <2>3
  <2> QED
    BY <2>1, <2>2, <2>4 DEF x, y
<1>4. Pixels!Spec => []Pixels!PartsMeet
  BY <1>1, <1>2, <1>3, PTL DEF Pixels!Spec
<1> DEFINE Inv == part = "pixels" => dots \subseteq Pixels!Dot
<1>5. MCInit => Inv
  BY <1>1 DEF MCInit
<1>6. Inv /\ [MCNext]_MCvars => Inv'
  <2> SUFFICES ASSUME Inv, [MCNext]_MCvars, part' = "pixels"
               PROVE  (dots \subseteq Pixels!Dot)'
    OBVIOUS
  <2>1. part = "pixels" /\ [Pixels!Next]_dots
    BY DEF MCNext, MCvars
  <2> QED
    BY <2>1, <1>2
<1>7. Inv => PartsMeet
  BY <1>3 DEF PartsMeet
<1>8. MCSpec => []PartsMeet
  BY <1>5, <1>6, <1>7, PTL DEF MCSpec
<1> QED
  BY <1>4, <1>8

-----------------------------------------------------------------------------
(* The lines of the picture.  Path and Read are recursive functions; what  *)
(* they are for every number of points and of marks follows by induction,  *)
(* from the least number for which it would be false.                      *)
LEMMA Upward ==
  ASSUME NEW S, 0 \in S, \A n \in Nat : n \in S => n + 1 \in S
  PROVE  \A n \in Nat : n \in S
<1> SUFFICES ASSUME Nat \ S # {} PROVE FALSE
  OBVIOUS
<1>1. PICK least \in Nat \ S : \A n \in Nat \ S : least <= n
  BY Least
<1>2. least - 1 \in Nat
  BY <1>1
<1>3. least - 1 \in S
  BY <1>1, <1>2
<1> QED
  BY <1>1, <1>2, <1>3

(* The path after point i, and what is known after number i                *)
FirstPath(pts) ==
  Drawn!Write([text |-> <<>>], "M",
              <<<<"M", pts[1].x>>, <<Drawn!Space(pts[1].y >= 0), pts[1].y>>>>)
PathStep(pts, force, g, i) ==
  IF i = 1 THEN FirstPath(pts) ELSE Drawn!Extend(g[i - 1], pts[i - 1], pts[i], force)

FirstRead ==
  [command |-> "M", numbers |-> <<>>, at |-> <<0, 0>>, legible |-> TRUE,
   start |-> <<0, 0>>, lines |-> {}]
ReadStep(text, g, i) ==
  IF i = 0 THEN FirstRead ELSE Drawn!ReadNumber(g[i - 1], text[i][1], text[i][2])

LEMMA PathExists ==
  ASSUME NEW pts, NEW force
  PROVE  \A n \in Nat : \E g : g = [i \in 1..n |-> PathStep(pts, force, g, i)]
<1> DEFINE S == {n \in Nat : \E g : g = [i \in 1..n |-> PathStep(pts, force, g, i)]}
<1>1. 0 \in S
  <2> DEFINE g == [i \in 1..0 |-> 0]
  <2>1. g = [i \in 1..0 |-> PathStep(pts, force, g, i)]
    OBVIOUS
  <2> QED
    BY <2>1
<1>2. ASSUME NEW n \in Nat, n \in S PROVE n + 1 \in S
  <2>1. PICK g : g = [i \in 1..n |-> PathStep(pts, force, g, i)]
    BY <1>2
  <2> DEFINE h == [i \in 1..(n + 1) |-> IF i = n + 1 THEN PathStep(pts, force, g, n + 1) ELSE g[i]]
  <2>2. ASSUME NEW i \in 1..(n + 1) PROVE h[i] = PathStep(pts, force, h, i)
    <3>1. i # 1 => i - 1 \in 1..n /\ h[i - 1] = g[i - 1]
      OBVIOUS
    <3>2. PathStep(pts, force, h, i) = PathStep(pts, force, g, i)
      BY <3>1 DEF PathStep
    <3>3. i # n + 1 => h[i] = g[i] /\ g[i] = PathStep(pts, force, g, i)
      BY <2>1
    <3> QED
      BY <3>2, <3>3
  <2>3. h = [i \in 1..(n + 1) |-> PathStep(pts, force, h, i)]
    BY <2>2
  <2> HIDE DEF h
  <2>4. \E k : k = [i \in 1..(n + 1) |-> PathStep(pts, force, k, i)]
    BY <2>3
  <2> QED
    BY <2>4
<1> HIDE DEF S
<1>3. \A n \in Nat : n \in S
  BY <1>1, <1>2, Upward
<1> QED
  BY <1>3 DEF S

LEMMA PathFact ==
  ASSUME NEW pts, Len(pts) \in Nat, NEW force
  PROVE  Drawn!Path(pts, force)
           = [i \in 1..Len(pts) |-> PathStep(pts, force, Drawn!Path(pts, force), i)]
<1>1. Drawn!Path(pts, force)
        = CHOOSE g : g = [i \in 1..Len(pts) |-> PathStep(pts, force, g, i)]
  BY DEF Drawn!Path, PathStep, FirstPath
<1>2. \E g : g = [i \in 1..Len(pts) |-> PathStep(pts, force, g, i)]
  BY PathExists
<1> QED
  BY <1>1, <1>2

LEMMA ReadExists ==
  ASSUME NEW text
  PROVE  \A n \in Nat : \E g : g = [i \in 0..n |-> ReadStep(text, g, i)]
<1> DEFINE S == {n \in Nat : \E g : g = [i \in 0..n |-> ReadStep(text, g, i)]}
<1>1. 0 \in S
  <2> DEFINE g == [i \in 0..0 |-> FirstRead]
  <2>1. \A i \in 0..0 : g[i] = ReadStep(text, g, i)
    BY DEF ReadStep
  <2>2. g = [i \in 0..0 |-> ReadStep(text, g, i)]
    BY <2>1
  <2> QED
    BY <2>2
<1>2. ASSUME NEW n \in Nat, n \in S PROVE n + 1 \in S
  <2>1. PICK g : g = [i \in 0..n |-> ReadStep(text, g, i)]
    BY <1>2
  <2> DEFINE h == [i \in 0..(n + 1) |-> IF i = n + 1 THEN ReadStep(text, g, n + 1) ELSE g[i]]
  <2>2. ASSUME NEW i \in 0..(n + 1) PROVE h[i] = ReadStep(text, h, i)
    <3>1. i # 0 => i - 1 \in 0..n /\ h[i - 1] = g[i - 1]
      OBVIOUS
    <3>2. ReadStep(text, h, i) = ReadStep(text, g, i)
      BY <3>1 DEF ReadStep
    <3>3. i # n + 1 => h[i] = g[i] /\ g[i] = ReadStep(text, g, i)
      BY <2>1
    <3> QED
      BY <3>2, <3>3
  <2>3. h = [i \in 0..(n + 1) |-> ReadStep(text, h, i)]
    BY <2>2
  <2> HIDE DEF h
  <2>4. \E k : k = [i \in 0..(n + 1) |-> ReadStep(text, k, i)]
    BY <2>3
  <2> QED
    BY <2>4
<1> HIDE DEF S
<1>3. \A n \in Nat : n \in S
  BY <1>1, <1>2, Upward
<1> QED
  BY <1>3 DEF S

LEMMA ReadFact ==
  ASSUME NEW text, Len(text) \in Nat
  PROVE  Drawn!Read(text) = [i \in 0..Len(text) |-> ReadStep(text, Drawn!Read(text), i)]
<1>1. Drawn!Read(text) = CHOOSE g : g = [i \in 0..Len(text) |-> ReadStep(text, g, i)]
  BY DEF Drawn!Read, ReadStep, FirstRead
<1>2. \E g : g = [i \in 0..Len(text) |-> ReadStep(text, g, i)]
  BY ReadExists
<1> QED
  BY <1>1, <1>2

(* A text is read from the left: what comes after it changes nothing of    *)
(* what was known.                                                         *)
LEMMA ReadAppend ==
  ASSUME NEW E, NEW text \in Seq(E), NEW e \in E
  PROVE  Drawn!Reading(Append(text, e)) = Drawn!ReadNumber(Drawn!Reading(text), e[1], e[2])
<1> DEFINE longer == Append(text, e)
           n == Len(text)
           f == Drawn!Read(text)
           g == Drawn!Read(longer)
<1>1. /\ n \in Nat /\ Len(longer) = n + 1
      /\ \A i \in 1..n : longer[i] = text[i]
      /\ longer[n + 1] = e
  OBVIOUS
<1> HIDE DEF longer, n
<1>2. f = [i \in 0..n |-> ReadStep(text, f, i)]
  BY <1>1, ReadFact DEF n
<1>3. g = [i \in 0..(n + 1) |-> ReadStep(longer, g, i)]
  BY <1>1, ReadFact
<1> HIDE DEF f, g
<1> DEFINE S == {i \in Nat : i <= n => g[i] = f[i]}
<1>4. 0 \in S
  <2>1. 0 \in 0..n /\ 0 \in 0..(n + 1)
    BY <1>1
  <2>2. g[0] = ReadStep(longer, g, 0) /\ f[0] = ReadStep(text, f, 0)
    BY <1>2, <1>3, <2>1
  <2> QED
    BY <2>2 DEF ReadStep
<1>5. ASSUME NEW i \in Nat, i \in S PROVE i + 1 \in S
  <2> SUFFICES ASSUME i + 1 <= n PROVE g[i + 1] = f[i + 1]
    OBVIOUS
  <2>1. i + 1 \in 0..n /\ i + 1 \in 0..(n + 1) /\ i + 1 \in 1..n /\ i + 1 # 0 /\ (i + 1) - 1 = i
    BY <1>1
  <2>2. g[i] = f[i]
    BY <1>1, <1>5, <2>1
  <2>3. g[i + 1] = ReadStep(longer, g, i + 1) /\ f[i + 1] = ReadStep(text, f, i + 1)
    BY <1>2, <1>3, <2>1
  <2>4. longer[i + 1] = text[i + 1]
    BY <1>1, <2>1
  <2> QED
    BY <2>1, <2>2, <2>3, <2>4 DEF ReadStep
<1> HIDE DEF S
<1>6. n \in S
  BY <1>1, <1>4, <1>5, Upward
<1>7. g[n] = f[n]
  BY <1>1, <1>6 DEF S
<1>8. n + 1 \in 0..(n + 1) /\ n + 1 # 0 /\ (n + 1) - 1 = n
  BY <1>1
<1>9. g[n + 1] = ReadStep(longer, g, n + 1)
  BY <1>3, <1>8
<1>10. g[n + 1] = Drawn!ReadNumber(f[n], e[1], e[2])
  BY <1>1, <1>7, <1>8, <1>9 DEF ReadStep
<1> QED
  BY <1>1, <1>10 DEF Drawn!Reading, f, g, longer, n

(* What a reader knows between two commands                                *)
Spot  == Int \X Int
Entry == (Drawn!Letters \cup {" ", ""}) \X Int
Knows(letter, at, start, lines) ==
  [command |-> letter, numbers |-> <<>>, at |-> at, legible |-> TRUE,
   start |-> start, lines |-> lines]

LEMMA AppendOne ==
  ASSUME NEW n \in Int
  PROVE  /\ Append(<<>>, n) \in Seq(Int) /\ Len(Append(<<>>, n)) = 1
         /\ Append(<<>>, n)[1] = n
<1>1. <<>> \in Seq(Int) /\ Len(<<>>) = 0
  OBVIOUS
<1> QED
  BY <1>1, AppendProperties

LEMMA AppendTwo ==
  ASSUME NEW n \in Int, NEW m \in Int
  PROVE  LET s == Append(Append(<<>>, n), m)
         IN  s \in Seq(Int) /\ Len(s) = 2 /\ s[1] = n /\ s[2] = m
<1> DEFINE t == Append(<<>>, n)
<1>1. t \in Seq(Int) /\ Len(t) = 1 /\ t[1] = n
  BY AppendOne
<1> HIDE DEF t
<1>2. /\ Append(t, m) \in Seq(Int) /\ Len(Append(t, m)) = Len(t) + 1
      /\ Append(t, m)[Len(t) + 1] = m
  <2>1. t \in Seq(Int) /\ m \in Int
    BY <1>1
  <2> QED
    BY ONLY <2>1, AppendProperties
<1>3. Append(t, m)[1] = n
  BY <1>1
<1>4. Len(t) + 1 = 2
  BY ONLY <1>1
<1>5. Len(Append(t, m)) = 2 /\ Append(t, m)[2] = m
  BY ONLY <1>2, <1>4
<1> QED
  BY <1>2, <1>3, <1>5 DEF t

(* A number that a command waits for, and one that completes it            *)
Now(r, mark)      == IF mark \in Drawn!Letters THEN mark ELSE r.command
Legible(r, mark, n) ==
  /\ r.legible = TRUE /\ (mark = "" => n < 0)
  /\ mark \in Drawn!Letters => r.numbers = <<>>
Complete(r, mark, n) ==
  Len(Append(r.numbers, n)) >= IF Now(r, mark) \in {"h", "v"} THEN 1 ELSE 2
Comes(r, mark, n) == Drawn!Target(Now(r, mark), r.at, Append(r.numbers, n))

LEMMA NumberRead ==
  ASSUME NEW r, NEW mark, NEW n, Legible(r, mark, n), Len(Append(r.numbers, n)) \in Nat
  PROVE  Drawn!ReadNumber(r, mark, n) =
           IF ~Complete(r, mark, n)
           THEN [r EXCEPT !.command = Now(r, mark), !.numbers = Append(r.numbers, n),
                          !.legible = TRUE]
           ELSE Knows(CASE Now(r, mark) = "M" -> "L" [] Now(r, mark) = "m" -> "l"
                        [] OTHER -> Now(r, mark),
                      Comes(r, mark, n),
                      IF Now(r, mark) \in {"M", "m"} THEN Comes(r, mark, n) ELSE r.start,
                      IF Now(r, mark) \in {"M", "m"} THEN r.lines
                      ELSE r.lines \cup {<<r.at, Comes(r, mark, n)>>})
<1> DEFINE numbers == Append(r.numbers, n)
           new     == Now(r, mark)
           to      == Comes(r, mark, n)
<1>1. (/\ r.legible
       /\ mark = "" => n < 0
       /\ mark \in Drawn!Letters => r.numbers = <<>>) = TRUE
  BY DEF Legible
<1>2. Drawn!ReadNumber(r, mark, n)
        = IF Len(numbers) < (IF new \in {"h", "v"} THEN 1 ELSE 2)
          THEN [r EXCEPT !.command = new, !.numbers = numbers, !.legible = TRUE]
          ELSE Knows(CASE new = "M" -> "L" [] new = "m" -> "l" [] OTHER -> new, to,
                     IF new \in {"M", "m"} THEN to ELSE r.start,
                     IF new \in {"M", "m"} THEN r.lines ELSE r.lines \cup {<<r.at, to>>})
  BY <1>1, Zenon DEF Drawn!ReadNumber, Knows, Now, Comes
<1>3. Len(numbers) < (IF new \in {"h", "v"} THEN 1 ELSE 2) <=> ~Complete(r, mark, n)
  BY DEF Complete
<1>4. CASE Complete(r, mark, n)
  <2>1. ~(Len(numbers) < (IF new \in {"h", "v"} THEN 1 ELSE 2))
    BY <1>3, <1>4
  <2> HIDE DEF numbers, new, to
  <2> QED
    BY <1>2, <1>4, <2>1, Zenon DEF numbers, new, to
<1>5. CASE ~Complete(r, mark, n)
  <2>1. Len(numbers) < (IF new \in {"h", "v"} THEN 1 ELSE 2)
    BY <1>3, <1>5
  <2> HIDE DEF numbers, new, to
  <2> QED
    BY <1>2, <1>5, <2>1, Zenon DEF numbers, new, to
<1> QED
  BY <1>4, <1>5

(* A letter, or none if the command goes on, and one number or two         *)
Straight(new, at, n, start, lines) ==
  LET to == IF new = "h" THEN <<at[1] + n, at[2]>> ELSE <<at[1], at[2] + n>>
  IN Knows(new, to, start, lines \cup {<<at, to>>})
Slanted(new, at, n, m, start, lines) ==
  LET to == IF new = "M" THEN <<n, m>> ELSE <<at[1] + n, at[2] + m>>
  IN Knows(IF new = "M" THEN "L" ELSE "l", to, IF new = "l" THEN start ELSE to,
           IF new = "l" THEN lines \cup {<<at, to>>} ELSE lines)

Ready(letter, at, mark, n, new) ==
  /\ letter \in Drawn!Letters \cup {"L"} /\ at \in Spot /\ n \in Int
  /\ \/ mark = new
     \/ mark \notin Drawn!Letters /\ letter = new /\ (mark = "" => n < 0)
Follows(second, m) ==
  m \in Int /\ second \notin Drawn!Letters /\ (second = "" => m < 0)

LEMMA SingleRead ==
  ASSUME NEW letter, NEW at, NEW start, NEW lines, NEW mark, NEW n, NEW new,
         new \in {"h", "v"}, Ready(letter, at, mark, n, new)
  PROVE  Drawn!ReadNumber(Knows(letter, at, start, lines), mark, n)
           = Straight(new, at, n, start, lines)
<1> DEFINE r == Knows(letter, at, start, lines)
           to == IF new = "h" THEN <<at[1] + n, at[2]>> ELSE <<at[1], at[2] + n>>
           s  == Append(<<>>, n)
<1> USE DEF Ready
<1>1. /\ r.command = letter /\ r.numbers = <<>> /\ r.at = at /\ r.legible = TRUE
      /\ r.start = start /\ r.lines = lines
  BY DEF Knows
<1>2. s[1] = n /\ Len(s) = 1
  BY AppendOne
<1> HIDE DEF r, s
<1>3. Drawn!Target(new, at, s) = to
  BY <1>2 DEF Drawn!Target
<1>4. Now(r, mark) = new
  BY <1>1 DEF Drawn!Letters, Now
<1> HIDE DEF to
<1>5. Append(r.numbers, n) = s
  BY <1>1 DEF s
<1>6. Legible(r, mark, n)
  <2>1. mark = "" => n < 0
    BY DEF Drawn!Letters
  <2> QED
    BY <1>1, <2>1 DEF Legible
<1>7. Complete(r, mark, n)
  <2>1. Len(s) >= 1
    BY ONLY <1>2
  <2> QED
    BY <1>4, <1>5, <2>1 DEF Complete
<1>8. Comes(r, mark, n) = to
  BY <1>1, <1>3, <1>4, <1>5 DEF Comes
<1>9. /\ new # "M" /\ new # "m" /\ new \notin {"M", "m"}
      /\ (CASE new = "M" -> "L" [] new = "m" -> "l" [] OTHER -> new) = new
  OBVIOUS
<1>10. Len(Append(r.numbers, n)) \in Nat
  BY ONLY <1>2, <1>5
<1>11. Drawn!ReadNumber(r, mark, n) = Knows(new, to, start, lines \cup {<<at, to>>})
  <2> HIDE DEF Knows
  <2> QED
    BY <1>1, <1>4, <1>6, <1>7, <1>8, <1>9, <1>10, NumberRead
<1> QED
  BY <1>11 DEF r, to, Straight

LEMMA PairRead ==
  ASSUME NEW letter, NEW at, NEW start, NEW lines, NEW mark, NEW n, NEW new,
         NEW second, NEW m, new \in {"M", "m", "l"}, Ready(letter, at, mark, n, new),
         Follows(second, m)
  PROVE  Drawn!ReadNumber(Drawn!ReadNumber(Knows(letter, at, start, lines), mark, n), second, m)
           = Slanted(new, at, n, m, start, lines)
<1> DEFINE r  == Knows(letter, at, start, lines)
           to == IF new = "M" THEN <<n, m>> ELSE <<at[1] + n, at[2] + m>>
           s  == Append(<<>>, n)
           t  == Append(s, m)
           q  == Drawn!ReadNumber(r, mark, n)
<1> USE DEF Ready, Follows
<1>1. /\ r.command = letter /\ r.numbers = <<>> /\ r.at = at /\ r.legible = TRUE
      /\ r.start = start /\ r.lines = lines
  BY DEF Knows
<1>2. Len(s) = 1 /\ t[1] = n /\ t[2] = m /\ Len(t) = 2
  BY AppendOne, AppendTwo
<1> HIDE DEF s, t, r
<1>3. Now(r, mark) = new /\ Append(r.numbers, n) = s
  BY <1>1 DEF Drawn!Letters, Now, s
<1>4. Legible(r, mark, n)
  <2>1. mark = "" => n < 0
    BY DEF Drawn!Letters
  <2> QED
    BY <1>1, <2>1 DEF Legible
<1>5. ~Complete(r, mark, n)
  <2>1. new \notin {"h", "v"}
    OBVIOUS
  <2>2. ~(Len(s) >= 2)
    BY ONLY <1>2
  <2> QED
    BY <1>3, <2>1, <2>2 DEF Complete
<1>6. q = [r EXCEPT !.command = new, !.numbers = s, !.legible = TRUE]
  <2>1. Len(Append(r.numbers, n)) \in Nat
    BY ONLY <1>2, <1>3
  <2> QED
    BY <1>3, <1>4, <1>5, <2>1, NumberRead, Zenon
<1> HIDE DEF q
<1>7. /\ q.command = new /\ q.numbers = s /\ q.at = at /\ q.legible = TRUE
      /\ q.start = start /\ q.lines = lines
  BY <1>6 DEF r, Knows
<1>8. Now(q, second) = new /\ Append(q.numbers, m) = t
  BY <1>7 DEF Now, t
<1>9. Legible(q, second, m)
  BY <1>7 DEF Legible
<1>10. Complete(q, second, m)
  <2>1. new \notin {"h", "v"}
    OBVIOUS
  <2>2. Len(t) >= 2
    BY ONLY <1>2
  <2> QED
    BY <1>8, <2>1, <2>2 DEF Complete
<1>11. Comes(q, second, m) = to
  <2>1. Drawn!Target(new, at, t) = to
    BY <1>2 DEF Drawn!Target
  <2> QED
    BY <1>7, <1>8, <2>1 DEF Comes
<1> HIDE DEF to
<1>12. Len(Append(q.numbers, m)) \in Nat
  BY ONLY <1>2, <1>8
<1>13. /\ (CASE new = "M" -> "L" [] new = "m" -> "l" [] OTHER -> new)
            = IF new = "M" THEN "L" ELSE "l"
       /\ new \in {"M", "m"} <=> new # "l"
  OBVIOUS
<1>14. Drawn!ReadNumber(q, second, m)
        = Knows(IF new = "M" THEN "L" ELSE "l", to, IF new \in {"M", "m"} THEN to ELSE start,
                IF new \in {"M", "m"} THEN lines ELSE lines \cup {<<at, to>>})
  <2>1. Drawn!ReadNumber(q, second, m)
          = Knows(CASE new = "M" -> "L" [] new = "m" -> "l" [] OTHER -> new, to,
                  IF new \in {"M", "m"} THEN to ELSE q.start,
                  IF new \in {"M", "m"} THEN q.lines ELSE q.lines \cup {<<q.at, to>>})
    BY <1>8, <1>9, <1>10, <1>11, <1>12, NumberRead, Zenon
  <2> QED
    BY <1>7, <1>13, <2>1, Zenon
<1>15. Drawn!ReadNumber(q, second, m)
        = Knows(IF new = "M" THEN "L" ELSE "l", to, IF new = "l" THEN start ELSE to,
                IF new = "l" THEN lines \cup {<<at, to>>} ELSE lines)
  <2>1. CASE new = "l"
    BY <1>13, <1>14, <2>1
  <2>2. CASE new # "l"
    BY <1>13, <1>14, <2>2
  <2> QED
    BY <2>1, <2>2
<1> QED
  BY <1>15 DEF q, r, to, Slanted

(* What the letter that was written last says to a reader, and what the    *)
(* text of a path tells him when it has come to point p                    *)
After(letter) == CASE letter = "M" -> "L" [] letter = "m" -> "l" [] OTHER -> letter
Place(p) == <<p.x, p.y>>
Tells(g, p, start, lines) ==
  /\ g.text \in Seq(Entry) /\ g.last \in Drawn!Letters
  /\ Drawn!Reading(g.text) = Knows(After(g.last), Place(p), start, lines)

Dot == [x : Int, y : Int, connected : BOOLEAN]

Says(g, letter, r) ==
  g.text \in Seq(Entry) /\ g.last = letter /\ Drawn!Reading(g.text) = r

LEMMA WriteOne ==
  ASSUME NEW g, g.text \in Seq(Entry), NEW letter,
         NEW mark, NEW n, <<mark, n>> \in Entry
  PROVE  Says(Drawn!Write(g, letter, <<<<mark, n>>>>), letter,
              Drawn!ReadNumber(Drawn!Reading(g.text), mark, n))
<1> DEFINE e == <<mark, n>>
<1>1. e \in Entry /\ e[1] = mark /\ e[2] = n
  OBVIOUS
<1> HIDE DEF e
<1>2. g.text \o <<e>> = Append(g.text, e)
  BY <1>1, AppendIsConcat
<1>3. Append(g.text, e) \in Seq(Entry)
  BY <1>1, AppendProperties
<1>4. Drawn!Reading(Append(g.text, e)) = Drawn!ReadNumber(Drawn!Reading(g.text), mark, n)
  BY <1>1, ReadAppend
<1> QED
  BY <1>2, <1>3, <1>4 DEF Drawn!Write, Says, e

LEMMA WriteTwo ==
  ASSUME NEW g, g.text \in Seq(Entry), NEW letter,
         NEW mark, NEW n, <<mark, n>> \in Entry, NEW second, NEW m, <<second, m>> \in Entry
  PROVE  Says(Drawn!Write(g, letter, <<<<mark, n>>, <<second, m>>>>), letter,
              Drawn!ReadNumber(Drawn!ReadNumber(Drawn!Reading(g.text), mark, n), second, m))
<1> DEFINE e == <<mark, n>>
           f == <<second, m>>
           t == Append(g.text, e)
<1>1. e \in Entry /\ f \in Entry /\ f[1] = second /\ f[2] = m
  OBVIOUS
<1>2. e[1] = mark /\ e[2] = n
  OBVIOUS
<1> HIDE DEF e, f
<1>3. <<e>> \in Seq(Entry) /\ <<f>> \in Seq(Entry) /\ <<e, f>> = Append(<<e>>, f)
  BY <1>1
<1>4. <<e, f>> = <<e>> \o <<f>>
  BY <1>1, <1>3, AppendIsConcat
<1>5. t \in Seq(Entry) /\ t = g.text \o <<e>>
  BY <1>1, AppendIsConcat, AppendProperties
<1>6. Drawn!Reading(t) = Drawn!ReadNumber(Drawn!Reading(g.text), mark, n)
  BY <1>1, <1>2, ReadAppend
<1> HIDE DEF t
<1>7. Append(t, f) \in Seq(Entry) /\ Append(t, f) = t \o <<f>>
  BY <1>1, <1>5, AppendIsConcat, AppendProperties
<1>8. Drawn!Reading(Append(t, f)) = Drawn!ReadNumber(Drawn!Reading(t), second, m)
  BY <1>1, <1>5, ReadAppend
<1>9. g.text \o <<e, f>> = Append(t, f)
  BY <1>3, <1>4, <1>5, <1>7, ConcatAssociative
<1> QED
  BY <1>6, <1>7, <1>8, <1>9 DEF Drawn!Write, Says, e, f

(* What is written before a number                                         *)
LEMMA Spaces ==
  ASSUME NEW n \in Int
  PROVE  /\ Drawn!Space(n >= 0) \in {" ", ""} /\ Drawn!Space(n > 0) \in {" ", ""}
         /\ Drawn!Space(n >= 0) = "" => n < 0
         /\ n # 0 /\ Drawn!Space(n > 0) = "" => n < 0
BY DEF Drawn!Space

LEMMA Marks ==
  ASSUME NEW mark \in Drawn!Letters \cup {" ", ""}, NEW n \in Int
  PROVE  <<mark, n>> \in Entry
BY DEF Entry

LEMMA Mark ==
  ASSUME NEW g, NEW letter \in {"v", "h", "l"}, NEW n \in Int
  PROVE  /\ <<Drawn!Letter(g, letter, n), n>> \in Entry
         /\ \/ Drawn!Letter(g, letter, n) = letter
            \/ /\ Drawn!Letter(g, letter, n) \notin Drawn!Letters /\ g.last = letter
               /\ Drawn!Letter(g, letter, n) = "" => n < 0
<1>1. CASE g.last # letter
  <2>1. Drawn!Letter(g, letter, n) = letter
    BY <1>1 DEF Drawn!Letter
  <2>2. letter \in Drawn!Letters \cup {" ", ""}
    BY DEF Drawn!Letters
  <2> QED
    BY <2>1, <2>2, Marks
<1>2. CASE g.last = letter
  <2> DEFINE mark == Drawn!Space(n >= 0)
  <2>1. Drawn!Letter(g, letter, n) = mark
    BY <1>2 DEF Drawn!Letter
  <2>2. mark \in {" ", ""} /\ (mark = "" => n < 0)
    BY Spaces
  <2> HIDE DEF mark
  <2>3. mark \notin Drawn!Letters /\ mark \in Drawn!Letters \cup {" ", ""}
    BY <2>2 DEF Drawn!Letters
  <2>4. <<mark, n>> \in Entry
    BY <2>3, Marks
  <2> QED
    BY <1>2, <2>1, <2>2, <2>3, <2>4
<1> QED
  BY <1>1, <1>2

(* One more point: a line to it, or a move; the start of what is drawn is  *)
(* only another one after a move.                                          *)
StartAt(start, p, q, force) ==
  IF (q.connected \/ force) \/ Place(p) = Place(q) THEN start ELSE Place(q)
With(lines, p, q, force) ==
  IF q.connected \/ force THEN lines \cup Drawn!Line(p, q) ELSE lines

LEMMA Extended ==
  ASSUME NEW g, NEW p \in Dot, NEW q \in Dot, NEW force \in BOOLEAN, NEW start, NEW lines,
         Tells(g, p, start, lines)
  PROVE  Tells(Drawn!Extend(g, p, q, force), q,
               StartAt(start, p, q, force), With(lines, p, q, force))
<1> USE DEF StartAt, With
<1> DEFINE x    == q.x - p.x
           y    == q.y - p.y
           line == q.connected \/ force
           e    == Drawn!Extend(g, p, q, force)
           at   == Place(p)
           to   == Place(q)
           c    == After(g.last)
<1>1. /\ x \in Int /\ y \in Int /\ line \in BOOLEAN /\ at \in Spot /\ to \in Spot
      /\ to = <<at[1] + x, at[2] + y>>
      /\ x = 0 => to = <<at[1], at[2] + y>>
      /\ y = 0 => to = <<at[1] + x, at[2]>>
      /\ (x = 0 /\ y = 0) <=> (at = to)
  BY DEF Dot, Place, Spot
<1>2. /\ g.text \in Seq(Entry) /\ g.last \in Drawn!Letters
      /\ Drawn!Reading(g.text) = Knows(c, at, start, lines)
  BY DEF Tells
<1>3. c \in Drawn!Letters \cup {"L"}
  BY <1>2 DEF After, Drawn!Letters
<1>4. /\ x = 0 /\ y = 0 => e = g
      /\ (x # 0 \/ y # 0) /\ ~line => e = Drawn!MoveBy(g, x, y)
      /\ x = 0 /\ y # 0 /\ line => e = Drawn!Write(g, "v", <<<<Drawn!Letter(g, "v", y), y>>>>)
      /\ x # 0 /\ y = 0 /\ line => e = Drawn!Write(g, "h", <<<<Drawn!Letter(g, "h", x), x>>>>)
      /\ x # 0 /\ y # 0 /\ line =>
           e = Drawn!Write(g, "l", <<<<Drawn!Letter(g, "l", x), x>>, <<Drawn!Space(y > 0), y>>>>)
  BY <1>1 DEF Drawn!Extend
<1>5. Drawn!Line(p, q) = IF at = to THEN {} ELSE {<<at, to>>}
  BY DEF Drawn!Line, Place
<1>6. /\ g.last = "v" => c = "v"
      /\ g.last = "h" => c = "h"
      /\ g.last = "l" => c = "l"
  BY DEF After
<1> HIDE DEF x, y, line, e, at, to, c
<1>7. CASE x = 0 /\ y = 0
  <2>1. at = to /\ e = g /\ Drawn!Line(p, q) = {}
    BY <1>1, <1>4, <1>5, <1>7
  <2>2. lines \cup {} = lines
    OBVIOUS
  <2> QED
    BY <1>2, <2>1, <2>2 DEF Tells, e, at, to, c, line
<1>9. CASE (x # 0 \/ y # 0) /\ ~line
  <2> DEFINE mark == Drawn!Space(y >= 0)
  <2>1. mark \in {" ", ""} /\ (mark = "" => y < 0)
    BY <1>1, Spaces
  <2> HIDE DEF mark
  <2>2. mark \notin Drawn!Letters /\ "m" \in Drawn!Letters
    BY <2>1 DEF Drawn!Letters
  <2>3. <<"m", x>> \in Entry /\ <<mark, y>> \in Entry
    BY <1>1, <2>1, <2>2, Marks
  <2>4. e = Drawn!Write(g, "m", <<<<"m", x>>, <<mark, y>>>>)
    BY <1>4, <1>9 DEF Drawn!MoveBy, mark
  <2>5. Says(e, "m", Drawn!ReadNumber(Drawn!ReadNumber(Knows(c, at, start, lines), "m", x), mark, y))
    BY <1>2, <2>3, <2>4, WriteTwo
  <2>6. Drawn!ReadNumber(Drawn!ReadNumber(Knows(c, at, start, lines), "m", x), mark, y)
          = Slanted("m", at, x, y, start, lines)
    <3>1. Ready(c, at, "m", x, "m")
      BY <1>1, <1>3 DEF Ready
    <3>2. Follows(mark, y)
      BY <1>1, <2>1, <2>2 DEF Follows
    <3> QED
      BY <3>1, <3>2, PairRead
  <2>7. Slanted("m", at, x, y, start, lines) = Knows("l", to, to, lines)
    BY <1>1 DEF Slanted
  <2>8. at # to
    BY <1>1, <1>9
  <2> QED
    BY <1>9, <2>2, <2>5, <2>6, <2>7, <2>8 DEF Says, Tells, After, e, to, at, line
<1>10. CASE x = 0 /\ y # 0 /\ line
  <2> DEFINE mark == Drawn!Letter(g, "v", y)
  <2>1. /\ <<mark, y>> \in Entry /\ "v" \in Drawn!Letters
        /\ \/ mark = "v"
           \/ mark \notin Drawn!Letters /\ c = "v" /\ (mark = "" => y < 0)
    <3>1. "v" \in Drawn!Letters
      BY DEF Drawn!Letters
    <3> QED
      BY <1>1, <1>6, <3>1, Mark
  <2> HIDE DEF mark
  <2>2. e = Drawn!Write(g, "v", <<<<mark, y>>>>)
    BY <1>4, <1>10 DEF mark
  <2>3. Says(e, "v", Drawn!ReadNumber(Knows(c, at, start, lines), mark, y))
    BY <1>2, <2>1, <2>2, WriteOne
  <2>4. Drawn!ReadNumber(Knows(c, at, start, lines), mark, y) = Straight("v", at, y, start, lines)
    <3>1. Ready(c, at, mark, y, "v")
      BY <1>1, <1>3, <2>1 DEF Ready
    <3> QED
      BY <3>1, SingleRead
  <2>5. Straight("v", at, y, start, lines) = Knows("v", to, start, lines \cup {<<at, to>>})
    BY <1>1, <1>10 DEF Straight
  <2>6. Drawn!Line(p, q) = {<<at, to>>}
    BY <1>1, <1>5, <1>10
  <2> QED
    BY <1>10, <2>1, <2>3, <2>4, <2>5, <2>6 DEF Says, Tells, After, e, to, at, line
<1>11. CASE x # 0 /\ y = 0 /\ line
  <2> DEFINE mark == Drawn!Letter(g, "h", x)
  <2>1. /\ <<mark, x>> \in Entry /\ "h" \in Drawn!Letters
        /\ \/ mark = "h"
           \/ mark \notin Drawn!Letters /\ c = "h" /\ (mark = "" => x < 0)
    <3>1. "h" \in Drawn!Letters
      BY DEF Drawn!Letters
    <3> QED
      BY <1>1, <1>6, <3>1, Mark
  <2> HIDE DEF mark
  <2>2. e = Drawn!Write(g, "h", <<<<mark, x>>>>)
    BY <1>4, <1>11 DEF mark
  <2>3. Says(e, "h", Drawn!ReadNumber(Knows(c, at, start, lines), mark, x))
    BY <1>2, <2>1, <2>2, WriteOne
  <2>4. Drawn!ReadNumber(Knows(c, at, start, lines), mark, x) = Straight("h", at, x, start, lines)
    <3>1. Ready(c, at, mark, x, "h")
      BY <1>1, <1>3, <2>1 DEF Ready
    <3> QED
      BY <3>1, SingleRead
  <2>5. Straight("h", at, x, start, lines) = Knows("h", to, start, lines \cup {<<at, to>>})
    BY <1>1, <1>11 DEF Straight
  <2>6. Drawn!Line(p, q) = {<<at, to>>}
    BY <1>1, <1>5, <1>11
  <2> QED
    BY <1>11, <2>1, <2>3, <2>4, <2>5, <2>6 DEF Says, Tells, After, e, to, at, line
<1>12. CASE x # 0 /\ y # 0 /\ line
  <2> DEFINE mark   == Drawn!Letter(g, "l", x)
             second == Drawn!Space(y > 0)
  <2>1. /\ <<mark, x>> \in Entry /\ "l" \in Drawn!Letters
        /\ \/ mark = "l"
           \/ mark \notin Drawn!Letters /\ c = "l" /\ (mark = "" => x < 0)
    <3>1. "l" \in Drawn!Letters
      BY DEF Drawn!Letters
    <3> HIDE DEF second
    <3> QED
      BY <1>1, <1>6, <3>1, Mark
  <2>2. second \in {" ", ""} /\ (second = "" => y < 0)
    BY <1>1, <1>12, Spaces
  <2> HIDE DEF mark, second
  <2>3. <<second, y>> \in Entry /\ second \notin Drawn!Letters
    <3>1. second \notin Drawn!Letters
      BY <2>2 DEF Drawn!Letters
    <3> QED
      BY <1>1, <2>2, <3>1, Marks
  <2>4. e = Drawn!Write(g, "l", <<<<mark, x>>, <<second, y>>>>)
    BY <1>4, <1>12 DEF mark, second
  <2>5. Says(e, "l", Drawn!ReadNumber(Drawn!ReadNumber(Knows(c, at, start, lines), mark, x), second, y))
    BY <1>2, <2>1, <2>3, <2>4, WriteTwo
  <2>6. Drawn!ReadNumber(Drawn!ReadNumber(Knows(c, at, start, lines), mark, x), second, y)
          = Slanted("l", at, x, y, start, lines)
    <3>1. Ready(c, at, mark, x, "l")
      BY <1>1, <1>3, <2>1 DEF Ready
    <3>2. Follows(second, y)
      BY <1>1, <2>2, <2>3 DEF Follows
    <3> QED
      BY <3>1, <3>2, PairRead
  <2>7. Slanted("l", at, x, y, start, lines) = Knows("l", to, start, lines \cup {<<at, to>>})
    BY <1>1 DEF Slanted
  <2>8. Drawn!Line(p, q) = {<<at, to>>}
    BY <1>1, <1>5, <1>12
  <2> QED
    BY <1>12, <2>1, <2>5, <2>6, <2>7, <2>8 DEF Says, Tells, After, e, to, at, line
<1>13. line \in BOOLEAN /\ x \in Int /\ y \in Int
  BY <1>1
<1> QED
  BY <1>7, <1>9, <1>10, <1>11, <1>12, <1>13

(* The lines that have been drawn when the path comes to point n           *)
LinesTo(pts, force, n) ==
  UNION {Drawn!Line(pts[i - 1], pts[i]) : i \in {i \in 2..n : pts[i].connected \/ force}}
Unbroken(pts, force) == \A i \in 2..Len(pts) : pts[i].connected \/ force

LEMMA OneMoreLine ==
  ASSUME NEW pts, NEW force, NEW n \in Nat \ {0}
  PROVE  LinesTo(pts, force, n + 1) = With(LinesTo(pts, force, n), pts[n], pts[n + 1], force)
<1> DEFINE S(k) == {i \in 2..k : pts[i].connected \/ force}
           L(i) == Drawn!Line(pts[i - 1], pts[i])
<1>1. LinesTo(pts, force, n) = UNION {L(i) : i \in S(n)}
      /\ LinesTo(pts, force, n + 1) = UNION {L(i) : i \in S(n + 1)}
  BY DEF LinesTo
<1>2. S(n + 1) = IF pts[n + 1].connected \/ force THEN S(n) \cup {n + 1} ELSE S(n)
  <2>1. 2..(n + 1) = (2..n) \cup {n + 1}
    OBVIOUS
  <2> QED
    BY <2>1
<1>3. L(n + 1) = Drawn!Line(pts[n], pts[n + 1])
  <2>1. (n + 1) - 1 = n
    OBVIOUS
  <2> QED
    BY <2>1
<1> HIDE DEF S, L
<1>4. UNION {L(i) : i \in S(n) \cup {n + 1}} = (UNION {L(i) : i \in S(n)}) \cup L(n + 1)
  OBVIOUS
<1> QED
  BY <1>1, <1>2, <1>3, <1>4 DEF With

(* The first point: the text begins with a letter and two numbers.         *)
LEMMA FirstTells ==
  ASSUME NEW pts \in Seq(Dot), Len(pts) >= 1, NEW force
  PROVE  Tells(FirstPath(pts), pts[1], Place(pts[1]), LinesTo(pts, force, 1))
<1> DEFINE x    == pts[1].x
           y    == pts[1].y
           mark == Drawn!Space(y >= 0)
           none == [text |-> <<>>]
           e    == FirstPath(pts)
<1>1. pts[1] \in Dot
  <2>1. 1 \in 1..Len(pts)
    OBVIOUS
  <2> QED
    BY <2>1, ElementOfSeq
<1>2. x \in Int /\ y \in Int
  BY <1>1 DEF Dot
<1>3. none.text \in Seq(Entry) /\ none.text = <<>>
  OBVIOUS
<1>4. e = Drawn!Write(none, "M", <<<<"M", x>>, <<mark, y>>>>)
  BY DEF FirstPath
<1>5. Place(pts[1]) = <<x, y>>
  BY DEF Place
<1> HIDE DEF x, y, none, e
<1>6. mark \in {" ", ""} /\ (mark = "" => y < 0)
  BY <1>2, Spaces
<1> HIDE DEF mark
<1>7. mark \notin Drawn!Letters /\ "M" \in Drawn!Letters
  BY <1>6 DEF Drawn!Letters
<1>8. <<"M", x>> \in Entry /\ <<mark, y>> \in Entry
  BY <1>2, <1>6, <1>7, Marks
<1>9. Says(e, "M", Drawn!ReadNumber(Drawn!ReadNumber(Drawn!Reading(<<>>), "M", x), mark, y))
  BY <1>3, <1>4, <1>8, WriteTwo
<1>10. Drawn!Reading(<<>>) = Knows("M", <<0, 0>>, <<0, 0>>, {})
  <2> DEFINE nothing == <<>>
             f == Drawn!Read(nothing)
  <2>1. Len(nothing) = 0
    OBVIOUS
  <2> HIDE DEF nothing
  <2>2. f = [i \in 0..0 |-> ReadStep(nothing, f, i)]
    BY <2>1, ReadFact
  <2> HIDE DEF f
  <2>3. f[0] = ReadStep(nothing, f, 0)
    BY <2>2
  <2>4. f[0] = FirstRead
    BY <2>3 DEF ReadStep
  <2> QED
    BY <2>1, <2>4 DEF Drawn!Reading, f, nothing, FirstRead, Knows
<1>11. Ready("M", <<0, 0>>, "M", x, "M") /\ Follows(mark, y)
  <2>1. <<0, 0>> \in Spot
    BY DEF Spot
  <2>2. Ready("M", <<0, 0>>, "M", x, "M")
    BY <1>2, <1>7, <2>1 DEF Ready
  <2> QED
    BY <1>2, <1>6, <1>7, <2>2 DEF Follows
<1>12. Drawn!ReadNumber(Drawn!ReadNumber(Knows("M", <<0, 0>>, <<0, 0>>, {}), "M", x), mark, y)
         = Slanted("M", <<0, 0>>, x, y, <<0, 0>>, {})
  BY <1>11, PairRead
<1>13. Slanted("M", <<0, 0>>, x, y, <<0, 0>>, {}) = Knows("L", <<x, y>>, <<x, y>>, {})
  BY DEF Slanted
<1>14. LinesTo(pts, force, 1) = {}
  BY DEF LinesTo
<1>15. e.text \in Seq(Entry) /\ e.last = "M" /\ Drawn!Reading(e.text) = Knows("L", <<x, y>>, <<x, y>>, {})
  BY <1>9, <1>10, <1>12, <1>13 DEF Says
<1>16. After("M") = "L"
  BY DEF After
<1> QED
  BY <1>5, <1>7, <1>14, <1>15, <1>16 DEF Tells, e

(* By induction over the points: the text of the path to point n has been  *)
(* read as the lines to it, and the start is the first point unless a gap  *)
(* came in between.                                                        *)
LEMMA PathTells ==
  ASSUME NEW pts \in Seq(Dot), Len(pts) >= 1, NEW force \in BOOLEAN
  PROVE  \E start : /\ Tells(Drawn!Path(pts, force)[Len(pts)], pts[Len(pts)], start,
                             LinesTo(pts, force, Len(pts)))
                    /\ Unbroken(pts, force) => start = Place(pts[1])
<1> DEFINE g == Drawn!Path(pts, force)
           L == Len(pts)
           Told(n) == \E start : /\ Tells(g[n], pts[n], start, LinesTo(pts, force, n))
                                 /\ Unbroken(pts, force) => start = Place(pts[1])
           S == {n \in Nat : n + 1 <= L => Told(n + 1)}
<1>1. L \in Nat /\ L >= 1
  OBVIOUS
<1>2. g = [i \in 1..L |-> PathStep(pts, force, g, i)]
  BY <1>1, PathFact
<1>3. \A i \in 1..L : pts[i] \in Dot
  BY ElementOfSeq
<1>4. \A i \in 2..L : Unbroken(pts, force) => pts[i].connected \/ force
  BY DEF Unbroken
<1> HIDE DEF g, L
<1>5. Told(1)
  <2>1. 1 \in 1..L
    BY <1>1
  <2>2. g[1] = PathStep(pts, force, g, 1)
    BY <1>2, <2>1
  <2>3. g[1] = FirstPath(pts)
    BY <2>2 DEF PathStep
  <2> QED
    BY <2>3, FirstTells
<1>6. ASSUME NEW n \in Nat \ {0}, n + 1 <= L, Told(n) PROVE Told(n + 1)
  <2> DEFINE p == pts[n]
             q == pts[n + 1]
  <2>1. PICK start : /\ Tells(g[n], p, start, LinesTo(pts, force, n))
                     /\ Unbroken(pts, force) => start = Place(pts[1])
    BY <1>6
  <2>2. /\ n \in 1..L /\ n + 1 \in 1..L /\ n + 1 \in 2..L /\ n + 1 # 1 /\ (n + 1) - 1 = n
    BY <1>1, <1>6
  <2>3. p \in Dot /\ q \in Dot
    BY <1>3, <2>2
  <2>4. g[n + 1] = Drawn!Extend(g[n], p, q, force)
    <3>1. g[n + 1] = PathStep(pts, force, g, n + 1)
      BY <1>2, <2>2
    <3> QED
      BY <2>2, <3>1 DEF PathStep
  <2>5. Unbroken(pts, force) => q.connected \/ force
    BY <1>4, <2>2
  <2>6. LinesTo(pts, force, n + 1) = With(LinesTo(pts, force, n), p, q, force)
    BY OneMoreLine
  <2> HIDE DEF p, q
  <2> DEFINE new == StartAt(start, p, q, force)
  <2>7. Tells(g[n + 1], q, new, LinesTo(pts, force, n + 1))
    BY <2>1, <2>3, <2>4, <2>6, Extended
  <2>8. Unbroken(pts, force) => new = Place(pts[1])
    BY <2>1, <2>5 DEF StartAt
  <2> HIDE DEF new
  <2> QED
    BY <2>7, <2>8 DEF q
<1> HIDE DEF Told
<1>7. 0 \in S
  BY <1>5
<1>8. ASSUME NEW n \in Nat, n \in S PROVE n + 1 \in S
  <2> SUFFICES ASSUME (n + 1) + 1 <= L PROVE Told((n + 1) + 1)
    OBVIOUS
  <2>1. n + 1 <= L /\ n + 1 \in Nat \ {0}
    BY <1>1
  <2>2. Told(n + 1)
    BY <1>8, <2>1
  <2> QED
    BY <1>6, <2>1, <2>2
<1> HIDE DEF S
<1>9. \A n \in Nat : n \in S
  BY <1>7, <1>8, Upward
<1>10. L - 1 \in Nat /\ (L - 1) + 1 = L
  BY <1>1
<1>11. Told(L)
  BY <1>1, <1>9, <1>10 DEF S
<1> QED
  BY <1>11 DEF Told, g, L

LEMMA TextDraws ==
  ASSUME NEW pts \in Seq(Dot), Len(pts) >= 2, NEW force \in BOOLEAN
  PROVE  /\ Drawn!Draws(Drawn!PathText(pts, force), Drawn!Lines(pts, force))
         /\ Unbroken(pts, force) =>
              Drawn!Closing(Drawn!Reading(Drawn!PathText(pts, force)))
                = Drawn!Line(pts[Len(pts)], pts[1])
<1> DEFINE g == Drawn!Path(pts, force)[Len(pts)]
           text == Drawn!PathText(pts, force)
           last == pts[Len(pts)]
<1>1. text = g.text
  BY DEF Drawn!PathText
<1>2. LinesTo(pts, force, Len(pts)) = Drawn!Lines(pts, force)
  BY DEF LinesTo, Drawn!Lines
<1>3. PICK start : /\ Tells(g, last, start, Drawn!Lines(pts, force))
                   /\ Unbroken(pts, force) => start = Place(pts[1])
  BY <1>2, PathTells
<1> HIDE DEF text, g, last
<1>4. Drawn!Reading(text) = Knows(After(g.last), Place(last), start, Drawn!Lines(pts, force))
  BY <1>1, <1>3 DEF Tells
<1>5. Drawn!Draws(text, Drawn!Lines(pts, force))
  BY <1>4 DEF Drawn!Draws, Knows
<1>6. Unbroken(pts, force) => Drawn!Closing(Drawn!Reading(text)) = Drawn!Line(last, pts[1])
  <2> DEFINE r == Drawn!Reading(text)
  <2>1. r.at = Place(last) /\ r.start = start
    BY <1>4 DEF Knows
  <2> HIDE DEF r
  <2>2. Drawn!Closing(r) = IF Place(last) = start THEN {} ELSE {<<Place(last), start>>}
    BY <2>1 DEF Drawn!Closing
  <2>3. Drawn!Line(last, pts[1])
          = IF Place(last) = Place(pts[1]) THEN {} ELSE {<<Place(last), Place(pts[1])>>}
    BY DEF Drawn!Line, Place
  <2> QED
    BY <1>3, <2>2, <2>3 DEF r
<1> QED
  BY <1>5, <1>6 DEF text, last

(* An outline is one point longer, or as it is; the points of an area are  *)
(* where they were, and connected.                                         *)
LEMMA OutlineFact ==
  ASSUME NEW pts \in Seq(Dot), Len(pts) >= 2
  PROVE  Drawn!Outline(pts) \in Seq(Dot) /\ Len(Drawn!Outline(pts)) >= 2
<1>1. pts[1] \in Dot
  <2>1. 1 \in 1..Len(pts)
    OBVIOUS
  <2> QED
    BY <2>1, ElementOfSeq
<1>2. Append(pts, pts[1]) \in Seq(Dot) /\ Len(Append(pts, pts[1])) >= 2
  BY <1>1, AppendProperties
<1> QED
  BY <1>2 DEF Drawn!Outline

LEMMA AreaFact ==
  ASSUME NEW pts \in Seq(Dot), Len(pts) >= 2
  PROVE  /\ Drawn!Area(pts) \in Seq(Dot) /\ Len(Drawn!Area(pts)) = Len(pts)
         /\ Unbroken(Drawn!Area(pts), FALSE)
         /\ Drawn!Lines(Drawn!Area(pts), FALSE) = Drawn!Lines(pts, TRUE)
         /\ Drawn!Line(Drawn!Area(pts)[Len(pts)], Drawn!Area(pts)[1])
              = Drawn!Line(pts[Len(pts)], pts[1])
<1> DEFINE n == Len(pts)
           area == Drawn!Area(pts)
<1>1. n \in Nat /\ n >= 2 /\ DOMAIN pts = 1..n /\ \A i \in 1..n : pts[i] \in Dot
  BY ElementOfSeq
<1>2. area = [i \in 1..n |-> [pts[i] EXCEPT !.connected = TRUE]]
  BY <1>1 DEF Drawn!Area
<1> HIDE DEF n, area
<1>3. \A i \in 1..n : /\ area[i] \in Dot /\ area[i].connected = TRUE
                      /\ area[i].x = pts[i].x /\ area[i].y = pts[i].y
  BY <1>1, <1>2 DEF Dot
<1>4. area \in Seq(Dot) /\ Len(area) = n
  <2>1. area \in [1..n -> Dot]
    BY <1>2, <1>3
  <2>2. area \in Seq(Dot)
    BY <1>1, <2>1, SeqDef
  <2> QED
    BY <1>1, <2>1, <2>2, LenProperties
<1>5. Unbroken(area, FALSE)
  BY <1>1, <1>3, <1>4 DEF Unbroken
<1>6. ASSUME NEW i \in 1..n, NEW j \in 1..n
      PROVE  Drawn!Line(area[i], area[j]) = Drawn!Line(pts[i], pts[j])
  BY <1>3 DEF Drawn!Line
<1>7. Drawn!Lines(area, FALSE) = Drawn!Lines(pts, TRUE)
  <2>1. \A i \in 2..n : i \in 1..n /\ i - 1 \in 1..n
    BY <1>1
  <2>2. /\ {i \in 2..n : area[i].connected \/ FALSE} = 2..n
        /\ {i \in 2..n : pts[i].connected \/ TRUE} = 2..n
    BY <1>3, <2>1
  <2>3. /\ Drawn!Lines(area, FALSE) = UNION {Drawn!Line(area[i - 1], area[i]) : i \in 2..n}
        /\ Drawn!Lines(pts, TRUE) = UNION {Drawn!Line(pts[i - 1], pts[i]) : i \in 2..n}
    BY <1>4, <2>2 DEF Drawn!Lines, n
  <2>4. \A i \in 2..n : Drawn!Line(area[i - 1], area[i]) = Drawn!Line(pts[i - 1], pts[i])
    BY <1>6, <2>1
  <2> QED
    BY <2>3, <2>4
<1>8. Drawn!Line(area[n], area[1]) = Drawn!Line(pts[n], pts[1])
  BY <1>1, <1>6
<1> QED
  BY <1>4, <1>5, <1>7, <1>8 DEF n, area

LEMMA DotsDraw == points \in Seq(Dot) => Drawn!PathDrawsPoints
<1> SUFFICES ASSUME points \in Seq(Dot), Len(points) >= 2
             PROVE  /\ \A pts \in {points, Drawn!Outline(points)}, force \in BOOLEAN :
                         Drawn!Draws(Drawn!PathText(pts, force), Drawn!Lines(pts, force))
                    /\ Drawn!Draws(Drawn!PathText(Drawn!Area(points), FALSE),
                                   Drawn!Lines(points, TRUE))
                    /\ Drawn!Closing(Drawn!Reading(Drawn!PathText(Drawn!Area(points), FALSE)))
                         = Drawn!Line(points[Len(points)], points[1])
  BY DEF Drawn!PathDrawsPoints
<1>1. \A pts \in {points, Drawn!Outline(points)} : pts \in Seq(Dot) /\ Len(pts) >= 2
  BY OutlineFact
<1>2. ASSUME NEW pts \in {points, Drawn!Outline(points)}, NEW force \in BOOLEAN
      PROVE  Drawn!Draws(Drawn!PathText(pts, force), Drawn!Lines(pts, force))
  BY <1>1, <1>2, TextDraws
<1>3. Drawn!Draws(Drawn!PathText(Drawn!Area(points), FALSE), Drawn!Lines(points, TRUE))
  BY AreaFact, TextDraws
<1>4. Drawn!Closing(Drawn!Reading(Drawn!PathText(Drawn!Area(points), FALSE)))
        = Drawn!Line(points[Len(points)], points[1])
  BY AreaFact, TextDraws
<1> QED
  BY <1>2, <1>3, <1>4

LEMMA InitDots == Drawn!Init => points \in Seq(Dot)
BY DEF Drawn!Init

LEMMA NextDots ==
  ASSUME points \in Seq(Dot), [Drawn!Next]_points PROVE points' \in Seq(Dot)
<1>1. Drawn!Point \subseteq Dot
  BY SizeAssumption DEF Drawn!Point, Dot
<1>2. CASE Drawn!Clear
  BY <1>2 DEF Drawn!Clear
<1>3. ASSUME NEW p \in Drawn!Point, Drawn!Add(p) PROVE points' \in Seq(Dot)
  <2>1. p \in Dot
    BY <1>1
  <2> QED
    BY <1>3, <2>1 DEF Drawn!Add
<1>4. CASE UNCHANGED points
  BY <1>4
<1> QED
  BY <1>2, <1>3, <1>4 DEF Drawn!Next

(* Whatever points are drawn, with gaps or forced, as a trace, an outline  *)
(* or an area: a reader of the text finds the lines that are meant, though *)
(* letters and spaces are left out wherever that is possible.              *)
THEOREM PathDrawn ==
  /\ Drawn!Spec => []Drawn!PathDrawsPoints
  /\ MCSpec => []PathDrawsPoints
<1>1. points \in Seq(Dot) /\ [Drawn!Next]_points => (points \in Seq(Dot))'
  BY NextDots
<1>2. Drawn!Spec => []Drawn!PathDrawsPoints
  BY <1>1, InitDots, DotsDraw, PTL DEF Drawn!Spec
<1>3. MCInit => (part = "lines" => points \in Seq(Dot))
  BY InitDots DEF MCInit
<1>4. (part = "lines" => points \in Seq(Dot)) /\ [MCNext]_MCvars
        => (part = "lines" => points \in Seq(Dot))'
  <2> SUFFICES ASSUME part = "lines" => points \in Seq(Dot), [MCNext]_MCvars, part' = "lines"
               PROVE  points' \in Seq(Dot)
    OBVIOUS
  <2>1. part = "lines" /\ [Drawn!Next]_points
    BY DEF MCNext, MCvars
  <2> QED
    BY <2>1, NextDots
<1>5. (part = "lines" => points \in Seq(Dot)) => PathDrawsPoints
  BY DotsDraw DEF PathDrawsPoints
<1>6. MCSpec => []PathDrawsPoints
  BY <1>3, <1>4, <1>5, PTL DEF MCSpec
<1> QED
  BY <1>2, <1>6
=============================================================================
