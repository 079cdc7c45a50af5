----------------------------- MODULE MapPieces ------------------------------
(***************************************************************************)
(* The pieces of the background of a map and the picture made of them      *)
(* (Map._subscribe_minor_major_map_events, get_svg_map, MapData and        *)
(* MapPiece).  A major map has the checksum of every piece; those that are *)
(* not what the client has are asked for one by one.  A piece that is not  *)
(* in use has a checksum of its own and is cleared at once.  The map       *)
(* listens only while somebody is interested in its changes; then the bus  *)
(* repeats the last event of each class.                                   *)
(***************************************************************************)
EXTENDS Naturals

CONSTANTS Pieces,
          Contents,     \* what a piece shows; stands for its checksum too
          NotInUse,     \* a piece without content
          None,
          MaxChanges    \* the robot's map changes this often

Images == [Pieces -> Contents \cup {NotInUse}]
Blank  == [i \in Pieces |-> NotInUse]

VARIABLES command,      \* how the model reads the major map
          robot,        \* the robot's pieces
          lastMajor,    \* the last MajorMapEvent, None before
          lastMinor,    \* the last MinorMapEvent, None before
          listening,    \* the map is subscribed to both
          pieces,       \* map_pieces
          changed,      \* MapData.changed
          image,        \* _last_image, None before
          skipped,      \* pieces of which the bus withheld something new since
                        \* the refresh began, while not disturbed
          asked,        \* commands the robot has not answered
          answers,      \* its answers that are not handled yet
          disturbed,    \* since the refresh began the map changed, an answer
                        \* was no success, or the map began or ceased to listen
          changes       \* counts up to MaxChanges

vars == <<command, robot, lastMajor, lastMinor, listening, pieces, changed, image,
          skipped, asked, answers, disturbed, changes>>

Init ==
  /\ command \in {"getMajorMap", "GetMapM"}
  /\ robot \in Images
  /\ lastMajor = None /\ lastMinor = None
  /\ listening = FALSE
  /\ pieces = Blank /\ changed = FALSE /\ image = None
  /\ skipped = {} /\ asked = {} /\ answers = {}
  /\ disturbed = TRUE
  /\ changes = 0

Disturb   == disturbed' = TRUE /\ skipped' = {}
Skip(set) == skipped' = IF disturbed THEN {} ELSE skipped \cup set

-----------------------------------------------------------------------------
(* MapPiece                                                                *)

(* crc32_indicates_update clears what is not in use, and says nothing of   *)
(* it; for the rest it tells whether there is something new.               *)
Cleared(values) ==
  [i \in Pieces |-> IF values[i] = NotInUse THEN NotInUse ELSE pieces[i]]
Outdated(values) == {i \in Pieces : values[i] \notin {NotInUse, pieces[i]}}

(* update_points, and on_change if it changed something                    *)
(* A fault: a piece that was there already is no change.                   *)
UpdateNewPiece(now, i, content) ==
  /\ pieces' = [now EXCEPT ![i] = content]
  /\ changed' = (changed \/ (now[i] = NotInUse /\ content # NotInUse))
UpdatePiece(now, i, content) ==
  /\ pieces' = [now EXCEPT ![i] = content]
  /\ changed' = (changed \/ now[i] # content)

-----------------------------------------------------------------------------
(* on_major_map: what is outdated is asked for if the event was requested. *)
(* A fault: only what is new on the map is asked for.                      *)
OnMajorMapNew(values, requested) ==
  /\ pieces' = Cleared(values)
  /\ asked' = asked \cup {<<"minor", i>> : i \in
                {x \in Outdated(values) : requested /\ pieces[x] = NotInUse}}
OnMajorMap(values, requested) ==
  /\ pieces' = Cleared(values)
  /\ asked' = asked \cup {<<"minor", i>> : i \in {x \in Outdated(values) : requested}}

NotifyMajor(values, requested) ==
  /\ lastMajor' = <<values, requested>>
  /\ IF listening /\ lastMajor # <<values, requested>>
       THEN OnMajorMap(values, requested) /\ UNCHANGED skipped
       ELSE /\ Skip({i \in Pieces : pieces[i] # values[i]})
            /\ UNCHANGED <<pieces, asked>>
  /\ UNCHANGED <<lastMinor, changed>>

(* GetMajorMap notifies what was not requested first, as its message does, *)
(* so that the requested one is never equal to the last.                   *)
HandleMajor(values) ==
  \/ command = "GetMapM" /\ NotifyMajor(values, TRUE)
  \/ /\ command = "getMajorMap"
     /\ lastMajor' = <<values, TRUE>>
     /\ IF listening THEN OnMajorMap(values, TRUE) ELSE UNCHANGED <<pieces, asked>>
     /\ UNCHANGED <<lastMinor, changed, skipped>>

(* GetMinorMap, PullMP and on_minor_map                                    *)
HandleMinor(i, content) ==
  /\ lastMinor' = <<i, content>>
  /\ IF listening /\ lastMinor # <<i, content>>
       THEN UpdatePiece(pieces, i, content) /\ UNCHANGED skipped
       ELSE /\ Skip({x \in {i} : pieces[i] # content})
            /\ UNCHANGED <<pieces, changed>>
  /\ UNCHANGED <<lastMajor, asked>>

-----------------------------------------------------------------------------
(* The first subscription to MapChangedEvent, and its end: the map is told *)
(* the last major map, and then the last piece, however old they are.      *)
Listen ==
  /\ ~listening
  /\ listening' = TRUE
  /\ Disturb
  /\ LET told == lastMajor # None
         now  == IF told THEN Cleared(lastMajor[1]) ELSE pieces
     IN  /\ asked' = asked \cup
              (IF told /\ lastMajor[2]
                 THEN {<<"minor", i>> : i \in Outdated(lastMajor[1])} ELSE {})
         /\ IF lastMinor # None
              THEN UpdatePiece(now, lastMinor[1], lastMinor[2])
              ELSE pieces' = now /\ UNCHANGED changed
  /\ UNCHANGED <<command, robot, lastMajor, lastMinor, image, answers, changes>>

Cease ==
  /\ listening
  /\ listening' = FALSE
  /\ Disturb
  /\ UNCHANGED <<command, robot, lastMajor, lastMinor, pieces, changed, image,
                 asked, answers, changes>>

(* Map.get_svg_map; without a piece in use there is no picture, and the    *)
(* next call draws again.                                                  *)
GetSvgMap ==
  /\ image = None \/ changed
  /\ image' = IF pieces = Blank THEN None ELSE pieces
  /\ changed' = FALSE
  /\ UNCHANGED <<command, robot, lastMajor, lastMinor, listening, pieces, skipped,
                 asked, answers, disturbed, changes>>

(* A refresh of the bus, which asks only if somebody listens               *)
RequestRefresh ==
  /\ listening /\ asked = {} /\ answers = {}
  /\ asked' = {<<"major">>}
  /\ skipped' = {}
  /\ disturbed' = FALSE
  /\ UNCHANGED <<command, robot, lastMajor, lastMinor, listening, pieces, changed,
                 image, answers, changes>>

(* The robot's map changes; it may tell, with a new major map or with the  *)
(* pieces themselves.                                                      *)
Change(i, content) ==
  /\ changes < MaxChanges
  /\ content # robot[i]
  /\ robot' = [robot EXCEPT ![i] = content]
  /\ changes' = changes + 1
  /\ Disturb
  /\ UNCHANGED <<command, lastMajor, lastMinor, listening, pieces, changed, image, asked, answers>>

OnMajorMapMessage ==
  /\ command = "getMajorMap"
  /\ NotifyMajor(robot, FALSE)
  /\ UNCHANGED <<command, robot, listening, image, answers, disturbed, changes>>

(* MapP of XML models, and onMinorMap of JSON models, which the legacy way *)
(* hands to GetMinorMap: a piece that nobody asked for.                    *)
OnMinorMapMessage(i) ==
  /\ HandleMinor(i, robot[i])
  /\ UNCHANGED <<command, robot, listening, image, answers, disturbed, changes>>

Answer(c) ==
  /\ c \in asked
  /\ asked' = asked \ {c}
  /\ answers' = answers \cup {IF c[1] = "major" THEN <<"major", robot>>
                                                ELSE <<"minor", <<c[2], robot[c[2]]>>>>}
  /\ UNCHANGED <<command, robot, lastMajor, lastMinor, listening, pieces, changed,
                 image, skipped, disturbed, changes>>

Fail(c) ==
  /\ c \in asked
  /\ asked' = asked \ {c}
  /\ Disturb
  /\ UNCHANGED <<command, robot, lastMajor, lastMinor, listening, pieces, changed,
                 image, answers, changes>>

HandleResponse(a) ==
  /\ a \in answers
  /\ answers' = answers \ {a}
  /\ IF a[1] = "major" THEN HandleMajor(a[2]) ELSE HandleMinor(a[2][1], a[2][2])
  /\ UNCHANGED <<command, robot, listening, image, disturbed, changes>>

Next ==
  \/ Listen \/ Cease \/ GetSvgMap \/ RequestRefresh \/ OnMajorMapMessage
  \/ \E i \in Pieces, content \in Contents \cup {NotInUse} : Change(i, content)
  \/ \E i \in Pieces : OnMinorMapMessage(i)
  \/ \E c \in asked : Answer(c) \/ Fail(c)
  \/ \E a \in answers : HandleResponse(a)

Spec == Init /\ [][Next]_vars

-----------------------------------------------------------------------------
(* Whatever was lost, or happened while nobody listened, a refresh that    *)
(* nothing disturbs repairs every piece, apart from what the bus withheld  *)
(* because it equalled the last event.                                     *)
PiecesRepaired ==
  listening /\ asked = {} /\ answers = {} /\ ~disturbed
    => \A i \in Pieces \ skipped : pieces[i] = robot[i]

(* "Indicate if data was changed": while it does not, the picture is that  *)
(* of the pieces the client has.  Pieces that a major map cleared are the  *)
(* exception: the picture goes on showing them.                            *)
PictureIsCurrent ==
  image # None /\ ~changed => \A i \in Pieces : pieces[i] \in {image[i], NotInUse}
=============================================================================
