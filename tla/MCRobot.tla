------------------------------ MODULE MCRobot -------------------------------
(***************************************************************************)
(* Instances for TLC of the modules about what the client shows of a       *)
(* robot: its settings (P2PCommands), the events its tables can bring      *)
(* (Refresh), its state (RobotState), the parts of its map (MapSets,       *)
(* MapPieces, MapTrace) and the picture of it (MapLines, MapPixels).       *)
(* These share no state, so a behaviour is one of a single part; the       *)
(* others stay as they are.  Parts may use a variable or a set of values   *)
(* of the same name.                                                       *)
(***************************************************************************)
EXTENDS P2PCommands, Integers, TLC

CONSTANTS Slots, Subsets, TraceLength,    \* of Refresh
          MaxMoves, MaxQueue,                   \* of RobotState
          Contents, NotInUse, MaxChanges,       \* of MapSets and MapPieces
          MaxPages, MaxDrawn,                   \* of MapTrace
          MaxCoordinate, MaxPoints,             \* of MapLines
          Side, PieceSize, MaxDots              \* of MapPixels

VARIABLES part, job, arriving, waiting, holders, pending, reached, failed, notified,
          info, doing, showing, pushes, before, clean, moves,
          read, robot, lastSet, lastSubset, kept, amount, rooms, learned,
          command, lastMajor, lastMinor, pieces, changed, image,
          run, length, lastTrace, points, answer, dots,
          asked, answers, disturbed, skipped, changes, listening

Made   == INSTANCE MCJobs
Tables == INSTANCE Refresh    WITH Jobs <- Made!Jobs
State  == INSTANCE RobotState WITH shown <- showing
Sets   == INSTANCE MapSets
Places == INSTANCE MapPieces  WITH Pieces <- Ids
Traces == INSTANCE MapTrace   WITH Runs <- Contents
Drawn  == INSTANCE MapLines   WITH Coordinates <- -MaxCoordinate..MaxCoordinate
Pixels == INSTANCE MapPixels

(* None is told apart from the pages of a trace and the sets of ids; the   *)
(* picture has a middle, as 8 pieces of 100 pixels have.                   *)
ASSUME NoneAssumption ==
  /\ \A ids \in SUBSET Ids : ids # None
  /\ None \notin Nat \cup [start : Nat, total : Nat, data : Seq(Contents \X Nat)]
ASSUME SizeAssumption ==
  /\ Side \in Nat \ {0} /\ PieceSize \in Nat \ {0} /\ MaxCoordinate \in Nat
  /\ 2 * Pixels!Offset = Pixels!MapSize

(* Every job the tables make has something that brings what is expected.   *)
ASSUME TableAssumption == Tables!TablesBring

Alike == Permutations(Contents) \cup Permutations(Ids)

-----------------------------------------------------------------------------
(* The parts that are not looked at                                        *)
NoSetting ==
  /\ resettable = {}
  /\ value = [r \in Robots |-> CHOOSE v \in Values : TRUE]
  /\ Init
NoTables ==
  /\ job = None /\ arriving = None /\ waiting = None /\ holders = None
  /\ pending = None /\ reached = None /\ failed = None /\ notified = None
NoState ==
  /\ info = None /\ doing = None /\ showing = None /\ pushes = None
  /\ before = None /\ clean = None /\ moves = None
NoSets ==
  /\ read = None /\ lastSet = None /\ lastSubset = None /\ kept = None
  /\ amount = None /\ rooms = None /\ learned = None
NoPieces ==
  /\ command = None /\ lastMajor = None /\ lastMinor = None
  /\ pieces = None /\ changed = None /\ image = None
NoTrace == run = None /\ length = None /\ lastTrace = None /\ answer = None
NoPicture == points = None /\ dots = None
NoAnswers == asked = None /\ answers = None /\ disturbed = None
NoChanges == robot = None /\ skipped = None /\ changes = None

MCInit ==
  \/ /\ part = "setting" /\ Init
     /\ NoTables /\ NoState /\ NoSets /\ NoPieces /\ NoTrace /\ NoPicture
     /\ NoAnswers /\ NoChanges /\ listening = None
  \/ /\ part = "tables" /\ Tables!Init
     /\ NoSetting /\ NoState /\ NoSets /\ NoPieces /\ NoTrace /\ NoPicture
     /\ NoAnswers /\ NoChanges /\ listening = None
  \/ /\ part = "state" /\ State!Init
     /\ NoSetting /\ NoTables /\ NoSets /\ NoPieces /\ NoTrace
     /\ NoPicture /\ NoChanges /\ listening = None
  \/ /\ part = "sets" /\ Sets!Init
     /\ NoSetting /\ NoTables /\ NoState /\ NoPieces /\ NoTrace
     /\ NoPicture /\ listening = None
  \/ /\ part = "pieces" /\ Places!Init
     /\ NoSetting /\ NoTables /\ NoState /\ NoSets /\ NoTrace /\ NoPicture
  \/ /\ part = "trace" /\ Traces!Init
     /\ NoSetting /\ NoTables /\ NoState /\ NoSets /\ NoPieces
     /\ answers = None /\ NoChanges /\ dots = None
  \/ /\ part = "lines" /\ Drawn!Init
     /\ NoSetting /\ NoTables /\ NoState /\ NoSets /\ NoPieces /\ NoTrace
     /\ NoAnswers /\ NoChanges /\ listening = None /\ dots = None
  \/ /\ part = "pixels" /\ Pixels!Init
     /\ NoSetting /\ NoTables /\ NoState /\ NoSets /\ NoPieces /\ NoTrace
     /\ NoAnswers /\ NoChanges /\ listening = None /\ points = None

setting == vars
tables  == <<job, arriving, waiting, holders, pending, reached, failed, notified>>
state   == <<info, doing, showing, pushes, before, clean, moves>>
sets    == <<read, lastSet, lastSubset, kept, amount, rooms, learned>>
pieced  == <<command, lastMajor, lastMinor, pieces, changed, image>>
trace   == <<run, length, lastTrace, answer>>
shared  == <<asked, answers, disturbed, robot, skipped, changes, listening>>
MCvars  == <<part, setting, tables, state, sets, pieced, trace, shared, points, dots>>

MCNext ==
  \/ /\ part = "setting" /\ Next
     /\ UNCHANGED <<part, tables, state, sets, pieced, trace, shared, points, dots>>
  \/ /\ part = "tables" /\ Tables!Next
     /\ UNCHANGED <<part, setting, state, sets, pieced, trace, shared, points, dots>>
  \/ /\ part = "state" /\ State!Next
     /\ UNCHANGED <<part, setting, tables, sets, pieced, trace, robot, skipped,
                    changes, listening, points, dots>>
  \/ /\ part = "sets" /\ Sets!Next
     /\ UNCHANGED <<part, setting, tables, state, pieced, trace, listening, points, dots>>
  \/ /\ part = "pieces" /\ Places!Next
     /\ UNCHANGED <<part, setting, tables, state, sets, trace, points, dots>>
  \/ /\ part = "trace" /\ Traces!Next
     /\ UNCHANGED <<part, setting, tables, state, sets, pieced, answers, robot,
                    skipped, changes, dots>>
  \/ /\ part = "lines" /\ Drawn!Next
     /\ UNCHANGED <<part, setting, tables, state, sets, pieced, trace, shared, dots>>
  \/ /\ part = "pixels" /\ Pixels!Next
     /\ UNCHANGED <<part, setting, tables, state, sets, pieced, trace, shared, points>>

MCSpec == MCInit /\ [][MCNext]_MCvars

-----------------------------------------------------------------------------
(* The properties of the parts, as their modules state and explain them;   *)
(* FollowsRobot and NeverShownUnconfirmed are those of P2PCommands.        *)

(* Tables, commands and handlers agree on what a refresh brings.           *)
ServedWhenAnswered == part = "tables" => Tables!ServedWhenAnswered

(* No command waits for a slot that its own requests hold.                 *)
NeverStuck == part = "tables" => Tables!NeverStuck

(* An undisturbed refresh shows the robot's state, as far as it is told.   *)
RefreshTellsTheTruth == part = "state" => State!RefreshTellsTheTruth

(* A robot does what a start or resume asks if what was believed is true.  *)
CleaningBegins == [][part = "state" => State!Begins]_MCvars

(* An undisturbed refresh repairs walls and rooms.                         *)
KeptIsRepaired == part = "sets" => Sets!KeptIsRepaired

(* The rooms that were said last are the robot's.                          *)
RoomsReported == part = "sets" => Sets!RoomsReported

(* An undisturbed refresh repairs the background.                          *)
PiecesRepaired == part = "pieces" => Places!PiecesRepaired

(* A picture that is not drawn again is that of the pieces.                *)
PictureIsCurrent == part = "pieces" => Places!PictureIsCurrent

(* An undisturbed refresh leaves the whole trace.                          *)
TraceComplete == part = "trace" => Traces!TraceComplete

(* A reader of the picture finds the lines that are meant.                 *)
PathDrawsPoints == part = "lines" => Drawn!PathDrawsPoints

(* Background, positions and trace are drawn to the same scale and place.  *)
PartsMeet == part = "pixels" => Pixels!PartsMeet
=============================================================================
