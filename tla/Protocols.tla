------------------------------ MODULE Protocols -----------------------------
(***************************************************************************)
(* The two protocols behind one interface: deebot_client/commands and      *)
(* deebot_client/messages choose by the data type of the model.            *)
(***************************************************************************)
EXTENDS Capabilities, Handling, Naturals

CONSTANTS Subsets,        \* ids of the subsets a map set can have
          TraceLength     \* the longest trace

Json == INSTANCE JsonCommands
Xml  == INSTANCE XmlCommands

(* The answers to a command.  The old models read the network with a       *)
(* command of the JSON protocol.                                           *)
Execute(d, c) ==
  CASE Head(c) = "GetNetInfo" -> JsonCommandWithMessageHandling(Json!GetNetInfoLegacy)
    [] OTHER -> IF d.protocol = "json" THEN Json!Execute(d, c) ELSE Xml!Execute(d, c)

(* What the answer of the api to a command says of the robot               *)
TargetsBot(c) == Head(c) # "GetCleanLogs"

(* COMMANDS_WITH_MQTT_P2P_HANDLING                                         *)
FollowsP2P(d, set) ==
  set \in IF d.protocol = "json" THEN Json!COMMANDS_WITH_MQTT_P2P_HANDLING(d)
                                 ELSE Xml!COMMANDS_WITH_MQTT_P2P_HANDLING

(* SetCommand._handle_mqtt_p2p of the JSON protocol: the response the      *)
(* robot gave to somebody else is handled, and if it says yes the linked   *)
(* get command handles the arguments as it does an answer.                 *)
HandleMqttP2P(d, set) ==
  LET command == Json!SetCommands(d)[set]
  IN  UNION {IF o.state = "SUCCESS"
               THEN {[c EXCEPT !.events = @ \cup o.events] : c \in command.confirmed}
               ELSE {o} : o \in MessageDictOrJson(command.answers)}

(* get_message, for a name given as prefix, base and suffix: the message   *)
(* of that name, then the one without _V2, then the legacy way.  The empty *)
(* set: there is none.                                                     *)
GetMessage(d, name) ==
  LET exact     == name[1] \o name[2] \o name[3]
      converted == name[1] \o name[2]
      json      == Json!MESSAGES(d)
      known     == {exact, converted} \cap DOMAIN json
  IN  CASE d.protocol = "json" /\ known # {} -> json[IF exact \in known THEN exact ELSE converted]
        [] d.protocol = "json" /\ known = {} -> Json!GetLegacyMessage(d, name[2])
        [] d.protocol # "json" /\ exact \in DOMAIN Xml!MESSAGES -> Xml!MESSAGES[exact]
        [] OTHER                             -> {}

(* Message.handle; a message nobody knows is only logged.                  *)
Handle(d, name) ==
  LET message == GetMessage(d, name)
  IN  IF message = {} THEN {Success({})}
      ELSE IF d.protocol = "json" THEN MessageDictOrJson(message) ELSE MessageStr(message)
=============================================================================
