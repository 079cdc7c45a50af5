----------------------------- MODULE MCEventBus -----------------------------
(***************************************************************************)
(* Instances of EventBus for TLC.  Each configuration picks the event      *)
(* classes, callbacks and hooks its question is about.                     *)
(***************************************************************************)
EXTENDS EventBus, TLC

CONSTANTS state, availability, map,            \* event classes
          onState, onMap1, onMap2,             \* callbacks
          plainHook, slowHook,                 \* hooks
          p1, p2                               \* payloads

ClassOfCallback == [c \in Callbacks |-> IF c = onState THEN state ELSE map]

HookOnMap == [h \in Hooks |-> map]

(* The subscribers of the map class are alike, and so are the payloads.    *)
Alike == Permutations(Callbacks \ {onState}) \cup Permutations(Payloads)
=============================================================================
