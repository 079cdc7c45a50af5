--------------------------- MODULE MCEventBusMap ----------------------------
(***************************************************************************)
(* The map class.  What its subscribers are told does not depend on its    *)
(* hooks, which only look at who is subscribed.  One run looks at both: a  *)
(* behaviour is about deliveries, with debouncing and without hooks, or    *)
(* about hooks, with one payload, one delivery at a time and no debouncing. *)
(***************************************************************************)
EXTENDS MCEventBus

VARIABLE about

MapInit == Init /\ about \in {"deliveries", "hooks"}

MapNext ==
  /\ Next
  /\ UNCHANGED about
  /\ about = "deliveries" => UNCHANGED hookState
  /\ about = "hooks" =>
       /\ UNCHANGED timer
       /\ \A t \in EventTypes : /\ elapsed'[t] \in {0, LongAgo}
                                /\ notified[t] \in {None, notified'[t]}
       /\ \A c \in Callbacks : Len(inbox'[c]) < 2

MapSpec == MapInit /\ [][MapNext]_<<vars, about>>
=============================================================================
