------------------------------ MODULE MapSets -------------------------------
(***************************************************************************)
(* The walls, zones and rooms of a map (Map.on_map_set, on_map_subset and  *)
(* MapRoomHandling, with the commands that read them).  The set of ids and *)
(* what each id stands for come in separate answers, of which several may  *)
(* be on their way: a refresh of the bus and the messages of the robot ask *)
(* independently.  The bus hands an event on only if it differs from the   *)
(* last one of its class, whatever kind of set that one was about.         *)
(***************************************************************************)
EXTENDS Naturals, FiniteSets

CONSTANTS Ids,          \* of walls or of rooms
          Contents,     \* their coordinates and names
          None,
          MaxChanges    \* the robot's sets change this often

(* How a model reads the sets, and what the set is of.  A whole set is in  *)
(* the answer of getMapSet_V2, for rooms where they have names there.      *)
Reads == {<<"getMapSet", "walls">>,    <<"GetMapSet", "walls">>, <<"getMapSet_V2", "walls">>,
          <<"getMapSet", "rooms">>,    <<"getMapSet_V2", "rooms">>,
          <<"getMapSet_V2_named", "rooms">>}

VARIABLES read,         \* one of Reads
          robot,        \* what the robot has, None where it has nothing
          lastSet,      \* the ids of the last MapSetEvent, None if of another set
          lastSubset,   \* the last MapSubsetEvent, None if of another set
          kept,         \* map_subsets or, for rooms, _rooms
          amount,       \* _amount_rooms
          rooms,        \* the last RoomsEvent
          skipped,      \* ids of which the bus withheld something new since the
                        \* refresh began, while not disturbed
          learned,      \* since it began a room was new or changed, likewise
          asked,        \* commands the robot has not answered
          answers,      \* its answers that are not handled yet
          disturbed,    \* since the refresh began the robot's set changed, an
                        \* answer was no success, or somebody else asked too
          changes       \* counts up to MaxChanges

vars == <<read, robot, lastSet, lastSubset, kept, amount, rooms, skipped, learned,
          asked, answers, disturbed, changes>>

Nothing == [i \in Ids |-> None]
In(set) == {i \in Ids : set[i] # None}
OfRooms == read[2] = "rooms"
Rooms   == {None} \cup [Ids -> Contents \cup {None}]

Init ==
  /\ read \in Reads
  /\ robot \in [Ids -> Contents \cup {None}]
  /\ lastSet = None /\ lastSubset = None
  /\ kept = Nothing /\ amount = 0 /\ rooms = None
  /\ skipped = {} /\ learned = FALSE /\ asked = {} /\ answers = {}
  /\ disturbed = TRUE
  /\ changes = 0

Disturb   == disturbed' = TRUE /\ skipped' = {} /\ learned' = FALSE
Skip(set) == skipped' = IF disturbed THEN {} ELSE skipped \cup set

-----------------------------------------------------------------------------
(* The subscribers of MapSetEvent: what is not in the set is forgotten.    *)
Restricted(set, ids) == [i \in Ids |-> IF i \in ids THEN set[i] ELSE None]

(* The bus notifies a MapSetEvent with these ids, after kept became now.   *)
(* A fault: nothing is forgotten.                                          *)
NotifySetAdding(ids, now) ==
  /\ lastSet' = ids
  /\ kept' = now
  /\ amount' = IF ids # lastSet /\ OfRooms THEN Cardinality(ids) ELSE amount
NotifySet(ids, now) ==
  /\ lastSet' = ids
  /\ kept' = IF ids = lastSet THEN now ELSE Restricted(now, ids)
  /\ amount' = IF ids # lastSet /\ OfRooms THEN Cardinality(ids) ELSE amount

(* What is withheld from kept if the last events are repeated              *)
Withheld(set) == {i \in Ids : In(set) = lastSet /\ set[i] = None /\ kept[i] # None}

(* The handler of getMapSet and GetMapSet, or the one of getMapSet_V2 for  *)
(* rooms: the subsets are asked for.  An empty set is no success for       *)
(* getMapSet.                                                              *)
HandleSet(set) ==
  /\ read[1] \in {"getMapSet", "GetMapSet"} \/ read = <<"getMapSet_V2", "rooms">>
  /\ IF In(set) = {} /\ read[1] = "getMapSet"
       THEN Disturb /\ UNCHANGED <<lastSet, kept, amount, asked>>
       ELSE /\ NotifySet(In(set), kept)
            /\ asked' = asked \cup {<<"subset", i>> : i \in In(set)}
            /\ Skip(Withheld(set))
            /\ UNCHANGED <<learned, disturbed>>
  /\ UNCHANGED <<lastSubset, rooms>>

(* The handler of getMapSet_V2 for walls: every subset, and then the set.  *)
(* The robot has them in some order; only the first can be the last one.   *)
HandleWholeSet(set) ==
  LET repeated(i) == lastSubset = <<i, set[i]>>
  IN  /\ read = <<"getMapSet_V2", "walls">>
      /\ \/ /\ In(set) = {}
            /\ NotifySet({}, kept)
            /\ Skip(Withheld(set))
            /\ UNCHANGED lastSubset
         \/ \E first, last \in In(set) :
              LET known == In(set) \ {i \in {first} : repeated(i)}
              IN  /\ Cardinality(In(set)) > 1 => first # last
                  /\ lastSubset' = <<last, set[last]>>
                  /\ NotifySet(In(set), [i \in Ids |-> IF i \in known THEN set[i] ELSE kept[i]])
                  /\ Skip(Withheld(set) \cup {i \in In(set) \ known : kept[i] # set[i]})
      /\ UNCHANGED <<rooms, learned, asked, disturbed>>

(* The handler of getMapSet_V2 for rooms with names: they are notified.    *)
HandleNamedRooms(set) ==
  /\ read = <<"getMapSet_V2_named", "rooms">>
  /\ rooms' = set
  /\ learned' = ~disturbed
  /\ UNCHANGED <<lastSet, lastSubset, kept, amount, skipped, asked, disturbed>>

(* The handler of a subset, and on_map_subset: when a new or changed room  *)
(* completes the set, the rooms are notified.                              *)
(* A fault: the rooms are notified only when a room is new.                *)
LearnNew(i, content) ==
  /\ kept' = [kept EXCEPT ![i] = content]
  /\ rooms' = IF OfRooms /\ kept[i] = None /\ Cardinality(In(kept')) = amount
                THEN kept' ELSE rooms
  /\ learned' = (~disturbed /\ (learned \/ kept[i] # content))
Learn(i, content) ==
  /\ kept' = [kept EXCEPT ![i] = content]
  /\ rooms' = IF OfRooms /\ kept[i] # content /\ Cardinality(In(kept')) = amount
                THEN kept' ELSE rooms
  /\ learned' = (~disturbed /\ (learned \/ kept[i] # content))

HandleSubset(i, content) ==
  /\ lastSubset' = <<i, content>>
  /\ IF lastSubset = <<i, content>>
       THEN /\ Skip({x \in {i} : kept[i] # content})
            /\ UNCHANGED <<kept, rooms, learned>>
       ELSE /\ Learn(i, content)
            /\ UNCHANGED skipped
  /\ UNCHANGED <<lastSet, amount, asked, disturbed>>

-----------------------------------------------------------------------------
(* A refresh of the bus, once the one before is over; somebody else may    *)
(* ask while it is not (onMapSet_V2 and the refreshes of other events).    *)
RequestRefresh ==
  /\ asked = {} /\ answers = {}
  /\ asked' = {<<"set">>}
  /\ skipped' = {} /\ learned' = FALSE
  /\ disturbed' = FALSE
  /\ UNCHANGED <<read, robot, lastSet, lastSubset, kept, amount, rooms, answers, changes>>

OnMapSet ==
  /\ <<"set">> \notin asked
  /\ asked # {} \/ answers # {}
  /\ asked' = asked \cup {<<"set">>}
  /\ Disturb
  /\ UNCHANGED <<read, robot, lastSet, lastSubset, kept, amount, rooms,
                 answers, changes>>

(* The user changes one wall or room, or the robot finds one.              *)
Change(i, content) ==
  /\ changes < MaxChanges
  /\ content # robot[i]
  /\ robot' = [robot EXCEPT ![i] = content]
  /\ changes' = changes + 1
  /\ Disturb
  /\ UNCHANGED <<read, lastSet, lastSubset, kept, amount, rooms, asked, answers>>

(* The set of another kind is read in between.                             *)
ReadOther ==
  /\ lastSet' = None /\ lastSubset' = None
  /\ UNCHANGED <<read, robot, kept, amount, rooms, skipped, learned, asked, answers,
                 disturbed, changes>>

AnswerSet ==
  /\ <<"set">> \in asked
  /\ asked' = asked \ {<<"set">>}
  /\ answers' = answers \cup {<<"set", robot>>}
  /\ UNCHANGED <<read, robot, lastSet, lastSubset, kept, amount, rooms, skipped, learned,
                 disturbed, changes>>

AnswerSubset(i) ==
  /\ <<"subset", i>> \in asked
  /\ robot[i] # None
  /\ asked' = asked \ {<<"subset", i>>}
  /\ answers' = answers \cup {<<"subset", <<i, robot[i]>>>>}
  /\ UNCHANGED <<read, robot, lastSet, lastSubset, kept, amount, rooms, skipped, learned,
                 disturbed, changes>>

(* No answer, or one that the handler cannot use                           *)
Fail(command) ==
  /\ command \in asked
  /\ asked' = asked \ {command}
  /\ Disturb
  /\ UNCHANGED <<read, robot, lastSet, lastSubset, kept, amount, rooms,
                 answers, changes>>

HandleResponse(a) ==
  /\ a \in answers
  /\ answers' = answers \ {a}
  /\ IF a[1] = "set"
       THEN HandleSet(a[2]) \/ HandleWholeSet(a[2]) \/ HandleNamedRooms(a[2])
       ELSE HandleSubset(a[2][1], a[2][2])
  /\ UNCHANGED <<read, robot, changes>>

Next ==
  \/ RequestRefresh \/ OnMapSet \/ ReadOther \/ AnswerSet
  \/ \E i \in Ids, content \in Contents \cup {None} : Change(i, content)
  \/ \E i \in Ids : AnswerSubset(i)
  \/ \E command \in asked : Fail(command)
  \/ \E a \in answers : HandleResponse(a)

Spec == Init /\ [][Next]_vars

-----------------------------------------------------------------------------
Refreshed == asked = {} /\ answers = {} /\ ~disturbed

(* Whatever was lost, late or overlapping before, a refresh that nothing   *)
(* disturbs and whose answers are all of use repairs what the map keeps,   *)
(* apart from what the bus withheld because it equalled the last event.    *)
KeptIsRepaired ==
  Refreshed /\ read[1] # "getMapSet_V2_named"
    => \A i \in Ids \ skipped : kept[i] = robot[i]

(* If such a refresh learns of a room, or gets all of them at once, the    *)
(* RoomsEvent is true when it is over: a part of them, or rooms of before, *)
(* are never the last that was said.                                       *)
RoomsReported ==
  Refreshed /\ OfRooms /\ learned /\ skipped = {} => rooms = robot
=============================================================================
