------------------------------ MODULE Register ------------------------------
(***************************************************************************)
(* What the event bus promises those who write to it and those who listen: *)
(* each event class is a register.  What is written is shown at once or    *)
(* later; then it is the last value written that is shown.  A listener     *)
(* reads, in order and once, the value it found and every change since.    *)
(***************************************************************************)
EXTENDS Sequences

CONSTANTS
  Classes,     \* the event classes
  Listeners,   \* who can listen
  ClassOf,     \* to which class
  Values,      \* what can be written
  Kept,        \* <<class, old, new>>: old goes on being shown if new is written
  None         \* nothing yet

VARIABLES
  written,     \* per class: the value written last
  postponed,   \* per class: it is still to be shown
  shown,       \* per class: the value shown
  listening,   \* the listeners
  unread,      \* per listener: the values it has still to read, in order
  read,        \* per listener: the value it has read last
  closed       \* the register is being taken down

vars == <<written, postponed, shown, listening, unread, read, closed>>

Init ==
  /\ written = [t \in Classes |-> None]
  /\ postponed = [t \in Classes |-> FALSE]
  /\ shown = [t \in Classes |-> None]
  /\ listening = {}
  /\ unread = [c \in Listeners |-> <<>>]
  /\ read = [c \in Listeners |-> None]
  /\ closed = FALSE

(* A value is shown: whoever listens will read it, if it is another one.   *)
Show(t, v) ==
  LET new == IF <<t, shown[t], v>> \in Kept THEN shown[t] ELSE v IN
  /\ shown' = [shown EXCEPT ![t] = new]
  /\ postponed' = [postponed EXCEPT ![t] = FALSE]
  /\ unread' = [c \in Listeners |->
                  IF c \in listening /\ ClassOf[c] = t /\ new # shown[t]
                    THEN Append(unread[c], new) ELSE unread[c]]

Write(t, v) ==
  /\ written' = [written EXCEPT ![t] = v]
  /\ \/ Show(t, v)
     \/ /\ postponed' = [postponed EXCEPT ![t] = TRUE]
        /\ UNCHANGED <<shown, unread>>
  /\ UNCHANGED <<listening, read, closed>>

(* What was postponed is shown: the value written last.                    *)
CatchUp(t) ==
  /\ postponed[t]
  /\ Show(t, written[t])
  /\ UNCHANGED <<written, listening, read, closed>>

(* A new listener will read what is shown now, before anything else new.   *)
Join(c) ==
  /\ c \notin listening
  /\ listening' = listening \cup {c}
  /\ unread' = IF shown[ClassOf[c]] # None
                 THEN [unread EXCEPT ![c] = Append(@, shown[ClassOf[c]])]
                 ELSE unread
  /\ UNCHANGED <<written, postponed, shown, read, closed>>

(* Who leaves is told nothing new.                                         *)
Leave(c) ==
  /\ c \in listening
  /\ listening' = listening \ {c}
  /\ UNCHANGED <<written, postponed, shown, unread, read, closed>>

Read(c) ==
  /\ unread[c] # <<>>
  /\ read' = [read EXCEPT ![c] = Head(unread[c])]
  /\ unread' = [unread EXCEPT ![c] = Tail(@)]
  /\ UNCHANGED <<written, postponed, shown, listening, closed>>

(* The only losses: what is unread when the register is closed, once, and  *)
(* what is postponed after that.                                           *)
Close ==
  /\ ~closed
  /\ closed' = TRUE
  /\ unread' = [c \in Listeners |-> <<>>]
  /\ UNCHANGED <<written, postponed, shown, listening, read>>

Drop ==
  /\ closed
  /\ postponed' = [t \in Classes |-> FALSE]
  /\ UNCHANGED <<written, shown, listening, unread, read, closed>>

Next ==
  \/ \E t \in Classes : CatchUp(t) \/ \E v \in Values : Write(t, v)
  \/ \E c \in Listeners : Join(c) \/ Leave(c) \/ Read(c)
  \/ Close \/ Drop

Spec == Init /\ [][Next]_vars
=============================================================================
