------------------------------ MODULE Handling ------------------------------
(***************************************************************************)
(* What becomes of a message and of the answer to a command:               *)
(* deebot_client/message.py, command.py and the bases of the JSON and XML  *)
(* commands.  A handler is the set of its outcomes, one for each kind of   *)
(* content the robot may send; an outcome says which events the handler    *)
(* notified before it returned or raised, the state it returned and the    *)
(* commands it requested.  The content itself, the parsing and the logging *)
(* are left out.                                                           *)
(***************************************************************************)
EXTENDS FiniteSets, Sequences

(* HandlingResult, with the events notified on the way.  It is whole       *)
(* unless the answer left out something that it was asked for, which a     *)
(* handler may take as a success all the same (Lacking).                   *)
HandlingResult(state, events, requests) ==
  [state |-> state, events |-> events, requests |-> requests, whole |-> TRUE]
Success(events)              == HandlingResult("SUCCESS", events, {})
Requesting(events, requests) == HandlingResult("SUCCESS", events, requests)
Lacking(events)              == [Success(events) EXCEPT !.whole = FALSE]
Failed                       == HandlingResult("FAILED", {}, {})
Analyse                      == HandlingResult("ANALYSE", {}, {})
Raising(events)              == HandlingResult("RAISED", events, {})

(* _handle_error_or_analyse around every level of handle: an exception is  *)
(* logged and becomes ERROR, ANALYSE is logged once.                       *)
HandleErrorOrAnalyse(o) ==
  CASE o.state = "RAISED"  -> [o EXCEPT !.state = "ERROR"]
    [] o.state = "ANALYSE" -> [o EXCEPT !.state = "ANALYSE_LOGGED", !.requests = {}]
    [] OTHER               -> o

(* MessageStr.handle: content that is not text, or not XML, raises.        *)
MessageStr(handler) == {HandleErrorOrAnalyse(o) : o \in handler \cup {Raising({})}}

(* MessageDictOrJson.handle and the levels below it: any JSON message may  *)
(* name the firmware, which is reported before the rest is looked at; a    *)
(* level that is missing or has another type ends at the abstract base,    *)
(* whose missing result is an error.                                       *)
MessageDictOrJson(handler) ==
  LET handled == {HandleErrorOrAnalyse(o) : o \in handler \cup {Raising({})}}
  IN  handled \cup {[o EXCEPT !.events = @ \cup {"FirmwareEvent"}] : o \in handled}

(* CommandWithMessageHandling._handle_response: "ok" is for the handler,   *)
(* 4200 means that the robot is offline, 500 that it did not answer, and   *)
(* anything else is to be analysed.  A result of the handler keeps its     *)
(* requests only where a command overrides this and adds them.             *)
HandleResponse(handled) ==
  handled \cup {HandlingResult("FAILED", {"AvailabilityEvent"}, {}), Failed,
                HandleErrorOrAnalyse(Analyse)}

(* Command._execute: the api timed out or the answer could not be read.    *)
ExecuteApiRequest(answers) ==
  {HandleErrorOrAnalyse(o) : o \in answers} \cup {HandleErrorOrAnalyse(Raising({}))}

(* JsonCommandWithMessageHandling and XmlCommandWithMessageHandling        *)
JsonCommandWithMessageHandling(handler) ==
  ExecuteApiRequest(HandleResponse(MessageDictOrJson(handler)))
XmlCommandWithMessageHandling(handler) ==
  ExecuteApiRequest(HandleResponse(MessageStr(handler)))

(* Command.execute: what was requested is executed only after SUCCESS, and *)
(* only then, if it targets the robot, the robot counts as reached.        *)
Requested(o)              == IF o.state = "SUCCESS" THEN o.requests ELSE {}
DeviceReached(o, targets) == o.state = "SUCCESS" /\ targets

(* Answered with success, and with all that was asked for.                 *)
Complete(o) == o.state = "SUCCESS" /\ o.whole

=============================================================================
