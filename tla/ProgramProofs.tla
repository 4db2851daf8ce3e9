--------------------------- MODULE ProgramProofs ---------------------------
(***************************************************************************)
(* Theorems about Program, for every value of its constants: what is       *)
(* proved of the menus, the console and the editor alone holds of the      *)
(* whole, for a step of the program is, for each of them, a step of its    *)
(* own or none.                                                            *)
(***************************************************************************)
EXTENDS Program, TLAPS

CP == INSTANCE ConsoleProofs
DP == INSTANCE DevClientProofs

-----------------------------------------------------------------------------
(* The menus.  Neither property of theirs is inductive: they speak of the  *)
(* last screen, and the choice was made some screens before.  Before the   *)
(* notice and the choice of a name the address must be good already        *)
(* (ServerChosen, ClientChosen); and a button that was pressed must be one *)
(* of the screen's (TypeOK), for its release is what chooses.              *)

AddrGood == addr \in lines["ip"] \cap M!Visible

(* Nothing has been chosen before the launch.                             *)
NotLaunched == screen = "start" => run = "none"

(* What was chosen to serve at, when the notice asks to begin.             *)
ServerChosen == screen = "notice" /\ run = "server" /\ isOpen => AddrGood

(* What was chosen to play at, when the name is asked for.                 *)
ClientChosen == asking = "name" /\ run = "client" /\ isOpen => AddrGood

(* The bound on the lines added is only passed as the window is closed.    *)
WithinBound == isOpen \/ screen \in {"start", "type"} => added <= MaxAdded

MenusInv ==
  /\ M!TypeOK
  /\ WithinBound
  /\ NotLaunched
  /\ ServerChosen
  /\ ClientChosen
  /\ M!ServesChosen
  /\ M!PlaysNamed

(* What the invariant says depends on lines, addr and user only by what    *)
(* was chosen: it survives when lines are added.                           *)
LEMMA LinesGrow ==
  ASSUME M!TypeOK, M!AddLine
  PROVE  /\ lines' \in [{"ip", "name"} -> SUBSET (Texts \cup {NoText})]
         /\ lines["ip"] \subseteq lines'["ip"]
         /\ lines["name"] \subseteq lines'["name"]
BY DEF M!TypeOK, M!AddLine

(* The program starts in the invariant, by any command line.               *)
LEMMA MenusInit == ASSUME M!MenusConstants, M!Init PROVE MenusInv
<1>1. FirstLines \in [{"ip", "name"} -> SUBSET (Texts \cup {NoText})]
  BY DEF M!MenusConstants
<1>2. added \in 0..(MaxAdded + 1) /\ added <= MaxAdded
  BY DEF M!Init, M!MenusConstants
<1>3. {entry, addr, user} \subseteq Texts \cup {NoText}
  BY DEF M!Init
<1>4. M!TypeOK
  BY <1>1, <1>2, <1>3 DEF M!Init, M!TypeOK
<1>5. QED
  BY <1>2, <1>4 DEF M!Init, MenusInv, NotLaunched, WithinBound, ServerChosen,
     ClientChosen, M!ServesChosen, M!PlaysNamed

(* Nothing is chosen by launching.                                         *)
LEMMA LaunchStep == ASSUME MenusInv, M!Launch PROVE MenusInv'
<1>1. M!TypeOK'
  <2>1. clicked' = {}
    BY DEF MenusInv, M!TypeOK, M!Launch, M!choice, M!Options
  <2>2. /\ screen' \in {"serving", "menu", "devMenu"}
        /\ run' \in M!Runs \cup {"none", "windowless"}
        /\ isOpen' \in BOOLEAN
    BY DEF MenusInv, M!TypeOK, M!Launch, M!Windowless, M!WithWindow
  <2>3. {entry', addr', user'} \subseteq Texts \cup {NoText}
    BY DEF MenusInv, M!TypeOK, M!Launch, M!Windowless, M!WithWindow, M!text
  <2>4. QED BY <2>1, <2>2, <2>3 DEF MenusInv, M!TypeOK, M!Launch, M!choice,
     M!text
<1>2. /\ NotLaunched' /\ WithinBound' /\ ServerChosen' /\ ClientChosen'
      /\ M!ServesChosen' /\ M!PlaysNamed'
  <2>0. added' <= MaxAdded
    BY DEF MenusInv, WithinBound, M!Launch, M!text
  <2>1. run' \in {"none", "windowless"} /\ screen' # "start" /\ screen' # "game"
    BY DEF MenusInv, NotLaunched, M!Launch, M!Windowless, M!WithWindow
  <2>2. QED
    BY <2>1, <2>0 DEF NotLaunched, WithinBound, ServerChosen, ClientChosen,
       M!ServesChosen, M!PlaysNamed
<1>3. QED BY <1>1, <1>2 DEF MenusInv

(* A button pressed is one of the screen's, which stays.                   *)
LEMMA PressedStep == ASSUME MenusInv, NEW b \in M!Options, M!Pressed(b) PROVE MenusInv'
<1>1. M!Options' = M!Options
  BY DEF M!Pressed, M!text, M!Options, M!LinesOf
<1>2. M!TypeOK'
  BY <1>1 DEF MenusInv, M!TypeOK, M!Pressed, M!text
<1>3. QED
  BY <1>2 DEF MenusInv, NotLaunched, WithinBound, ServerChosen, ClientChosen,
     M!ServesChosen, M!PlaysNamed, AddrGood, M!Pressed, M!text

(* What get_from_file returns, and where the choice was made.              *)
LEMMA ChosenStep ==
  ASSUME MenusInv, screen \in {"choose", "type"}, run' = run, isOpen' = isOpen,
         clicked' = {}, added' \in 0..(MaxAdded + 1), entry' \in Texts \cup {NoText},
         lines' \in [{"ip", "name"} -> SUBSET (Texts \cup {NoText})],
         lines["ip"] \subseteq lines'["ip"],
         NEW str \in Texts \cup {NoText}, M!Chosen(str),
         isOpen => str \in lines'[asking] \cap M!Visible /\ added' <= MaxAdded
  PROVE  MenusInv'
<1>1. CASE asking = "ip" /\ run = "server" /\ addr' = str /\ screen' = "notice"
           /\ UNCHANGED <<asking, user>>
  <2>1. M!TypeOK'
    BY <1>1 DEF MenusInv, M!TypeOK
  <2>2. QED
    BY <1>1, <2>1 DEF MenusInv, NotLaunched, WithinBound, ServerChosen,
       ClientChosen, M!ServesChosen, M!PlaysNamed, AddrGood
<1>2. CASE asking = "ip" /\ run = "client" /\ addr' = str /\ asking' = "name"
           /\ screen' = "choose" /\ UNCHANGED user
  <2>1. M!TypeOK'
    BY <1>2 DEF MenusInv, M!TypeOK
  <2>2. QED
    BY <1>2, <2>1 DEF MenusInv, NotLaunched, WithinBound, ServerChosen,
       ClientChosen, M!ServesChosen, M!PlaysNamed, AddrGood
<1>3. CASE asking = "name" /\ user' = str /\ screen' = "game" /\ UNCHANGED <<asking, addr>>
  <2>1. M!TypeOK'
    BY <1>3 DEF MenusInv, M!TypeOK
  <2>2. QED
    BY <1>3, <2>1 DEF MenusInv, NotLaunched, WithinBound, ServerChosen,
       ClientChosen, M!ServesChosen, M!PlaysNamed, AddrGood
<1>4. QED BY <1>1, <1>2, <1>3 DEF M!Chosen

(* A choice among the lines of the file, none of which is blank.           *)
LEMMA ChoiceStep ==
  ASSUME MenusInv, NEW b \in M!Options, M!ChoiceClicked(b), isOpen, clicked' = {},
         UNCHANGED <<lines, added>>
  PROVE  MenusInv'
<1>1. CASE b = M!AddNew /\ screen' = "type" /\ entry' = NoText /\ UNCHANGED <<asking, addr, user>>
  <2>1. M!TypeOK'
    BY <1>1 DEF MenusInv, M!TypeOK, M!ChoiceClicked
  <2>2. QED
    BY <1>1, <2>1 DEF MenusInv, NotLaunched, WithinBound, ServerChosen,
       ClientChosen, M!ServesChosen, M!PlaysNamed, AddrGood, M!ChoiceClicked
<1>2. CASE b # M!AddNew /\ M!Chosen(b) /\ UNCHANGED entry
  <2>1. b \in M!LinesOf(asking)
    BY <1>2 DEF M!ChoiceClicked, M!Options
  <2>2. b \in lines[asking] \cap M!Visible
    BY <2>1 DEF M!LinesOf, M!Visible, MenusInv, M!TypeOK
  <2>3. b \in Texts \cup {NoText}
    BY <2>2 DEF M!Visible
  <2>4. QED
    BY <1>2, <2>2, <2>3, ChosenStep DEF M!ChoiceClicked, MenusInv, M!TypeOK,
       WithinBound
<1>3. QED BY <1>1, <1>2 DEF M!ChoiceClicked

(* A button of the main menu chooses a mode and goes on to its first       *)
(* question.                                                               *)
LEMMA MenuStep ==
  ASSUME MenusInv, NEW b \in M!Options, M!MenuClicked(b), clicked' = {}, UNCHANGED <<lines, added>>
  PROVE  MenusInv'
<1>1. b \in M!Runs
  BY DEF M!MenuClicked, M!Options
<1>2. screen' \in {"notice", "choose"} /\ asking' \in {"ip", "name"}
  BY DEF M!MenuClicked
<1>3. M!TypeOK'
  BY <1>1, <1>2 DEF MenusInv, M!TypeOK, M!MenuClicked
<1>4. /\ screen' = "notice" => run' = "local"
      /\ asking' = "name" => run' = "develop"
  BY DEF M!MenuClicked
<1>5. QED
  BY <1>2, <1>3, <1>4 DEF MenusInv, NotLaunched, WithinBound, ServerChosen,
     ClientChosen, M!ServesChosen, M!PlaysNamed, M!MenuClicked

(* The button of the notice starts the server, or the program ends.        *)
LEMMA NoticeStep ==
  ASSUME MenusInv, M!NoticeClicked, isOpen, clicked' = {}, UNCHANGED <<lines, added>>
  PROVE  MenusInv'
<1>1. screen' \in {"serving", "ended"} /\ isOpen' \in BOOLEAN
  BY DEF M!NoticeClicked
<1>2. M!TypeOK'
  BY <1>1 DEF MenusInv, M!TypeOK, M!NoticeClicked
<1>3. QED
  BY <1>1, <1>2 DEF MenusInv, NotLaunched, WithinBound, ServerChosen,
     ClientChosen, M!ServesChosen, M!PlaysNamed, AddrGood, M!NoticeClicked

(* The mouse released over a button does what the screen makes of it.      *)
LEMMA ReleasedStep == ASSUME MenusInv, NEW b, M!Released(b) PROVE MenusInv'
<1>1. CASE b \in clicked /\ (M!MenuClicked(b) \/ M!ChoiceClicked(b) \/ M!NoticeClicked)
  <2>1. b \in M!Options
    BY <1>1 DEF MenusInv, M!TypeOK
  <2>2. QED BY <1>1, <2>1, MenuStep, ChoiceStep, NoticeStep DEF M!Released
<1>2. CASE b \notin clicked /\ UNCHANGED <<screen, run, isOpen, asking, entry, addr, user>>
  <2>1. M!TypeOK'
    BY <1>2 DEF MenusInv, M!TypeOK, M!Released
  <2>2. QED
    BY <1>2, <2>1 DEF MenusInv, NotLaunched, WithinBound, ServerChosen,
       ClientChosen, M!ServesChosen, M!PlaysNamed, AddrGood, M!Released
<1>3. QED BY <1>1, <1>2 DEF M!Released

(* While a line is typed there are no buttons.                             *)
LEMMA TypingStep ==
  ASSUME MenusInv, M!TextTyped \/ M!BackspaceReleased
  PROVE  MenusInv'
<1>1. entry' \in Texts \cup {NoText} /\ clicked' = {}
  BY DEF MenusInv, M!TypeOK, M!TextTyped, M!BackspaceReleased, M!choice,
     M!Options
<1>2. M!TypeOK'
  BY <1>1 DEF MenusInv, M!TypeOK, M!TextTyped, M!BackspaceReleased, M!choice
<1>3. QED
  BY <1>2 DEF MenusInv, NotLaunched, WithinBound, ServerChosen, ClientChosen,
     M!ServesChosen, M!PlaysNamed, AddrGood, M!TextTyped, M!BackspaceReleased,
     M!choice

(* Enter ends the entry of a line, which is the address or the name asked  *)
(* for.                                                                    *)
LEMMA EnterStep == ASSUME M!MenusConstants, MenusInv, M!EnterReleased PROVE MenusInv'
<1>1. /\ M!AddLine /\ clicked' = {}
      /\ added' \in 0..(MaxAdded + 1) /\ added' <= MaxAdded
  BY DEF MenusInv, M!TypeOK, M!EnterReleased, M!AddLine, M!choice, M!Options,
     M!MenusConstants
<1>2. /\ lines' \in [{"ip", "name"} -> SUBSET (Texts \cup {NoText})]
      /\ lines["ip"] \subseteq lines'["ip"]
  BY <1>1, LinesGrow DEF MenusInv
<1>3. M!TypeOK'
  BY <1>1, <1>2 DEF MenusInv, M!TypeOK, M!EnterReleased, M!choice
<1>4. QED
  BY <1>1, <1>2, <1>3 DEF MenusInv, NotLaunched, WithinBound, ServerChosen,
     ClientChosen, M!ServesChosen, M!PlaysNamed, AddrGood, M!EnterReleased,
     M!choice

(* With the window closed nothing that is chosen counts.                   *)
LEMMA CloseStep == ASSUME MenusInv, M!Close \/ M!GameOver PROVE MenusInv'
<1>1. screen' \in {screen, "ended"} /\ isOpen' \in {isOpen, FALSE}
  BY DEF M!Close, M!GameOver
<1>2. M!Options' = M!Options \/ clicked' = {}
  BY DEF MenusInv, M!TypeOK, M!Close, M!GameOver, M!choice, M!text, M!Options,
     M!LinesOf
<1>3. M!TypeOK'
  BY <1>1, <1>2 DEF MenusInv, M!TypeOK, M!Close, M!GameOver, M!choice, M!text
<1>4. QED
  BY <1>1, <1>3 DEF MenusInv, NotLaunched, WithinBound, ServerChosen,
     ClientChosen, M!ServesChosen, M!PlaysNamed, AddrGood, M!Close, M!GameOver,
     M!choice, M!text

(* A closed window ends each loop, with what is typed so far.              *)
LEMMA ClosedStep == ASSUME M!MenusConstants, MenusInv, M!ClosedLoop PROVE MenusInv'
<1>1. CASE M!ClosedMenu
  <2>1. M!TypeOK'
    BY <1>1 DEF MenusInv, M!TypeOK, M!ClosedLoop, M!ClosedMenu, M!text
  <2>2. QED
    BY <1>1, <2>1 DEF MenusInv, NotLaunched, WithinBound, ServerChosen,
       ClientChosen, M!ServesChosen, M!PlaysNamed, M!ClosedLoop, M!ClosedMenu
<1>2. CASE M!ClosedChoice
  BY <1>2, ChosenStep DEF M!ClosedLoop, M!ClosedChoice, M!text, MenusInv,
     M!TypeOK
<1>3. CASE M!ClosedEntry
  <2>1. added' \in 0..(MaxAdded + 1)
    BY <1>3 DEF M!ClosedEntry, M!AddLine, MenusInv, M!TypeOK, WithinBound,
       M!MenusConstants
  <2>2. QED
    BY <1>3, <2>1, LinesGrow, ChosenStep DEF M!ClosedLoop, M!ClosedEntry,
       MenusInv, M!TypeOK
<1>4. QED BY <1>1, <1>2, <1>3 DEF M!ClosedLoop
(* Every step of the menus keeps the invariant.                            *)
LEMMA MenusKeep == ASSUME M!MenusConstants, MenusInv, [M!Next]_(M!menuVars) PROVE MenusInv'
<1>1. CASE UNCHANGED M!menuVars
  <2>1. M!Options' = M!Options
    BY <1>1 DEF M!menuVars, M!choice, M!text, M!Options, M!LinesOf
  <2>2. M!TypeOK'
    BY <1>1, <2>1 DEF MenusInv, M!TypeOK, M!menuVars, M!choice, M!text
  <2>3. QED
    BY <1>1, <2>2 DEF MenusInv, NotLaunched, WithinBound, ServerChosen,
       ClientChosen, M!ServesChosen, M!PlaysNamed, AddrGood, M!menuVars,
       M!choice, M!text
<1>2. CASE M!Step
  BY <1>2, LaunchStep, PressedStep, ReleasedStep, TypingStep, EnterStep,
     ClosedStep DEF M!Step
<1>3. CASE M!Close \/ M!GameOver
  BY <1>3, CloseStep
<1>4. QED BY <1>1, <1>2, <1>3 DEF M!Next

(* Every reachable state of the menus satisfies the inductive invariant.   *)
LEMMA MenusInvariance == ASSUME M!MenusConstants PROVE M!Spec => []MenusInv
<1>1. M!Init => MenusInv
  BY MenusInit
<1>2. MenusInv /\ [M!Next]_(M!menuVars) => MenusInv'
  BY MenusKeep
<1>3. QED BY <1>1, <1>2, PTL DEF M!Spec

-----------------------------------------------------------------------------
(* The parts in the whole.                                                 *)

(* The assumption on the constants of the program is that of each of its   *)
(* parts.                                                                  *)
LEMMA Constants ==
  M!MenusConstants /\ CP!ConsoleConstants /\ DP!DevClientConstants
<1>1. M!MenusConstants
  BY ProgramAssumption
<1>2. CP!ConsoleConstants
  BY ProgramAssumption DEF C!ConsoleConstants, CP!ConsoleConstants, C!Scriptable,
     C!Loadable, C!AllCommands, CP!Scriptable, CP!Loadable, CP!AllCommands
<1>3. DP!DevClientConstants
  BY ProgramAssumption DEF D!DevClientConstants, DP!DevClientConstants, D!Range,
     DP!Range
<1>4. QED BY <1>1, <1>2, <1>3

(* A step of the program is a step of the menus, or none.                  *)
LEMMA MenusStep == Next => M!Next \/ UNCHANGED menuVars
BY DEF Next, Menu, Play, Develop, Close, Escaped, Closed, M!Next

(* What the program does to the variables of the menus is a behaviour of   *)
(* the menus alone.                                                        *)
LEMMA MenusRefined == Spec => M!Spec
<1>1. [Next]_vars => [M!Next]_(M!menuVars)
  <2>1. UNCHANGED menuVars => UNCHANGED M!menuVars
    BY DEF menuVars, M!menuVars, M!choice, M!text
  <2>2. UNCHANGED vars => UNCHANGED menuVars
    BY DEF vars
  <2>3. QED BY <2>1, <2>2, MenusStep
<1>2. QED BY <1>1, PTL DEF Spec, Init, M!Spec

(* And of the console.                                                     *)
LEMMA ConsoleStep == Next => C!Next \/ UNCHANGED consoleVars
BY DEF Next, Menu, Play, Develop, Close, Escaped, Closed, C!Next

(* What it does to the variables of the console is a behaviour of the      *)
(* console alone.                                                          *)
LEMMA ConsoleRefined == Spec => CP!Spec
<1>1. Init => CP!Init
  BY DEF Init, C!Init, CP!Init, C!NoKey, CP!NoKey
<1>2. [Next]_vars => [CP!Next]_(CP!vars)
  <2>1. C!Next => CP!Next
    <3>1. ASSUME NEW k \in C!Keys PROVE C!KeyReleased(k) => CP!KeyReleased(k)
      BY DEF C!KeyReleased, C!KeyReleasedInChat, C!KeyReleasedInGame,
         C!AfterEscape, C!AfterHotKey, C!Handles, C!NoKey, C!modes, C!points,
         C!turns, CP!KeyReleased, CP!KeyReleasedInChat, CP!KeyReleasedInGame,
         CP!AfterEscape, CP!AfterHotKey, CP!Handles, CP!NoKey, CP!modes, CP!points,
         CP!turns
    <3>2. C!TextEntered => CP!TextEntered
      BY DEF C!TextEntered, C!ChatText, C!TileText, C!OtherText, C!StrayClick,
         C!Printable, C!Handles, C!NoKey, C!chat, C!points, CP!TextEntered,
         CP!ChatText, CP!TileText, CP!OtherText, CP!StrayClick, CP!Printable,
         CP!Handles, CP!NoKey, CP!chat, CP!points
    <3>3. (C!MouseReleased => CP!MouseReleased) /\ (C!UpdateTile => CP!UpdateTile)
          /\ (C!Leave => CP!Leave)
      BY DEF C!MouseReleased, C!UpdateTile, C!Leave, C!Handles, C!NoKey,
         C!modes, C!chat, C!points, C!turns, C!keys, CP!MouseReleased,
         CP!UpdateTile, CP!Leave, CP!Handles, CP!NoKey, CP!modes, CP!chat,
         CP!points, CP!turns, CP!keys
    <3>0. ASSUME NEW S PROVE C!Cardinality(S) = CP!Cardinality(S)
      BY DEF C!Cardinality, CP!Cardinality
    <3>4. ASSUME NEW commands
          PROVE  /\ C!Run(commands) = CP!Run(commands)
                 /\ C!PointsIn(commands) = CP!PointsIn(commands)
                 /\ C!After(commands) = CP!After(commands)
      BY <3>0 DEF C!Run, C!PointsIn, C!After, CP!Run, CP!PointsIn, CP!After
    <3>5. ASSUME NEW commands, NEW back PROVE C!BackOf(commands, back) = CP!BackOf(commands, back)
      <4>1. ASSUME NEW command PROVE C!ActionOf(command) = CP!ActionOf(command)
        BY DEF C!ActionOf, CP!ActionOf
      <4>2. C!Queued(commands) = CP!Queued(commands)
        BY <3>4, <4>1 DEF C!Queued, CP!Queued
      <4>3. ASSUME NEW S PROVE C!Max(S) = CP!Max(S)
        BY DEF C!Max, CP!Max
      <4>4. QED BY <4>1, <4>2, <4>3 DEF C!BackOf, CP!BackOf
    <3>6. ASSUME NEW back, NEW sent PROVE C!DoTurn(back, sent) => CP!DoTurn(back, sent)
      BY <3>4, <3>5 DEF C!DoTurn, C!RunsScript, CP!DoTurn, CP!RunsScript
    <3>7. C!UpdateTurn => CP!UpdateTurn
      BY <3>6 DEF C!UpdateTurn, C!Handles, C!NoKey, C!RunsScript, C!modes,
         C!keys, CP!UpdateTurn, CP!Handles, CP!NoKey, CP!RunsScript, CP!modes,
         CP!keys
    <3>8. ASSUME NEW command, NEW known PROVE C!Command(command, known) => CP!Command(command, known)
      <4>1. ASSUME NEW back, NEW sent
            PROVE  C!MaybeCommand(back, sent, known) => CP!MaybeCommand(back, sent, known)
        BY <3>6 DEF C!MaybeCommand, C!StartTurn, C!AddPoints, C!PushInfo, C!NoAction,
           CP!MaybeCommand, CP!StartTurn, CP!AddPoints, CP!PushInfo, CP!NoAction
      <4>2. /\ C!Handled(command) = CP!Handled(command)
            /\ C!RunsScript = CP!RunsScript
        BY DEF C!Handled, CP!Handled, C!RunsScript, CP!RunsScript
      <4>3. ASSUME NEW c, NEW commands PROVE C!Runs(c, commands) = CP!Runs(c, commands)
        BY <3>4 DEF C!Runs, CP!Runs
      <4>4. QED BY <3>4, <3>5, <4>1, <4>2, <4>3 DEF C!Command, CP!Command
    <3>9. (C!OpenChat => CP!OpenChat) /\ (C!SendLine => CP!SendLine)
      BY <3>8 DEF C!OpenChat, C!SendLine, C!chat, C!points, C!turns,
         CP!OpenChat, CP!SendLine, CP!chat, CP!points, CP!turns
    <3>10. ASSUME NEW k \in C!Keys PROVE C!KeyPressed(k) => CP!KeyPressed(k)
      BY <3>0, <3>9 DEF C!KeyPressed, C!Handles, C!NoKey, C!TextKeys, C!Keys,
         C!chat, C!points, C!turns, CP!KeyPressed, CP!Handles, CP!NoKey,
         CP!TextKeys, CP!Keys, CP!chat, CP!points, CP!turns
    <3>11. C!Keys = CP!Keys
      BY DEF C!Keys, CP!Keys
    <3>12. QED
      BY <3>1, <3>2, <3>3, <3>7, <3>10, <3>11 DEF C!Next, C!Step, CP!Next,
         CP!Step
  <2>2. UNCHANGED consoleVars => UNCHANGED CP!vars
    BY DEF consoleVars, CP!vars, CP!modes, CP!chat, CP!points, CP!turns, CP!keys
  <2>3. UNCHANGED vars => UNCHANGED consoleVars
    BY DEF vars
  <2>4. QED BY <2>1, <2>2, <2>3, ConsoleStep
<1>3. QED BY <1>1, <1>2, PTL DEF Spec, CP!Spec

(* And of the editor.                                                      *)
LEMMA DevClientStep == Next => D!Next \/ UNCHANGED devVars
BY DEF Next, Menu, Play, Develop, Close, Escaped, Closed

(* What it does to those of the editor is a behaviour of the editor alone. *)
LEMMA DevClientRefined == Spec => DP!Spec
<1>1. Init => DP!Init
  BY DEF Init, D!Init, DP!Init, D!NoLayout, DP!NoLayout, D!Cells, DP!Cells,
     D!Letters, DP!Letters, D!Range, DP!Range
<1>2. [Next]_vars => [DP!Next]_(DP!devVars)
  <2>1. D!Next => DP!Next
    BY DEF D!Next, D!Letters, D!Cells, D!Default, D!WithMark, D!Edit,
       D!Readable, D!OpenFails, D!OpenReads, D!Open, D!Save, D!PollChat, D!HasNull,
       D!RowsRead, D!BoardUpdate, D!PollJson, D!Range, D!Max, DP!Next, DP!Letters,
       DP!Cells, DP!Default, DP!WithMark, DP!Edit, DP!Readable, DP!OpenFails,
       DP!OpenReads, DP!Open, DP!Save, DP!PollChat, DP!HasNull, DP!RowsRead,
       DP!BoardUpdate, DP!PollJson, DP!Range, DP!Max
  <2>2. UNCHANGED devVars => UNCHANGED DP!devVars
    BY DEF devVars, DP!devVars
  <2>3. UNCHANGED vars => UNCHANGED devVars
    BY DEF vars
  <2>4. QED BY <2>1, <2>2, <2>3, DevClientStep
<1>3. QED BY <1>1, <1>2, PTL DEF Spec, DP!Spec

-----------------------------------------------------------------------------
(* The theorems.                                                           *)

(* Every variable of the program keeps its type.                           *)
THEOREM TypeCorrect == Spec => []TypeOK
<1>1. MenusInv /\ CP!TypeOK /\ DP!TypeOK => TypeOK
  <2>1. MenusInv => M!TypeOK
    BY DEF MenusInv
  <2>2. CP!TypeOK => C!TypeOK
    BY DEF C!TypeOK, C!Keys, C!NoKey, C!TextKeys, C!Actions, CP!TypeOK, CP!Keys,
       CP!NoKey, CP!TextKeys, CP!Actions
  <2>3. DP!TypeOK => D!TypeOK
    BY DEF D!TypeOK, D!Layouts, D!RowsOf, D!Letters, D!Cells, D!Range,
       DP!TypeOK, DP!Layouts, DP!RowsOf, DP!Letters, DP!Cells, DP!Range
  <2>4. QED BY <2>1, <2>2, <2>3 DEF TypeOK
<1>2. /\ M!Spec => []MenusInv
      /\ CP!Spec => []CP!TypeOK
      /\ DP!Spec => []DP!TypeOK
  BY Constants, MenusInvariance, CP!TypeCorrect, DP!TypeCorrect
<1>3. QED BY <1>1, <1>2, MenusRefined, ConsoleRefined, DevClientRefined, PTL

(* The window gives way to a server only at an address that was chosen     *)
(* (application.cpp:73).                                                   *)
THEOREM ServedAsChosen == Spec => []ServesChosen
<1>1. MenusInv => ServesChosen
  BY DEF MenusInv, ServesChosen
<1>2. M!Spec => []MenusInv
  BY Constants, MenusInvariance
<1>3. QED BY <1>1, <1>2, MenusRefined, PTL

(* With the window open, who plays has a name, and an address              *)
(* (window_io.cpp:198-202).                                                *)
THEOREM PlayedAsNamed == Spec => []PlaysNamed
<1>1. MenusInv => PlaysNamed
  BY DEF MenusInv, PlaysNamed
<1>2. M!Spec => []MenusInv
  BY Constants, MenusInvariance
<1>3. QED BY <1>1, <1>2, MenusRefined, PTL

(* What is typed goes to the chat or to a cell, never to both              *)
(* (context.cpp:187, 199).                                                 *)
THEOREM OneModeAtATime == Spec => []ModesExclusive
<1>1. CP!ModesExclusive => ModesExclusive
  BY DEF ModesExclusive, C!ModesExclusive, CP!ModesExclusive
<1>2. CP!Spec => []CP!ModesExclusive
  BY Constants, CP!OneModeAtATime
<1>3. QED BY <1>1, <1>2, ConsoleRefined, PTL

(* Points are given here only as the others are told, and without scripts  *)
(* all of them, once, but for those of a player who is unknown here        *)
(* (context.cpp:192-194, 271-275; game_io.cpp:69, 298).                    *)
THEOREM PointsGivenAsTold == Spec => []PointsBothWays
<1>1. CP!PointsBothWays => PointsBothWays
  BY DEF PointsBothWays, C!PointsBothWays, CP!PointsBothWays
<1>2. CP!Spec => []CP!PointsBothWays
  BY Constants, CP!PointsGivenAsTold
<1>3. QED BY <1>1, <1>2, ConsoleRefined, PTL

(* A letter typed into a cell is not also the hot key                      *)
(* (context.cpp:211-217).                                                  *)
THEOREM LetterIsNoHotKey == Spec => HotKeySpared
<1>1. CP!HotKeySpared => HotKeySpared
  <2>1. [hidden' # hidden => ~typed]_(CP!vars) => [hidden' # hidden => ~typed]_(C!vars)
    BY DEF C!vars, C!modes, C!chat, C!points, C!turns, C!keys, CP!vars,
       CP!modes, CP!chat, CP!points, CP!turns, CP!keys
  <2>2. QED BY <2>1, PTL DEF HotKeySpared, C!HotKeySpared, CP!HotKeySpared
<1>2. CP!Spec => CP!HotKeySpared
  BY Constants, CP!LetterIsNoHotKey
<1>3. QED BY <1>1, <1>2, ConsoleRefined, PTL

(* What will be saved is what the board shows                              *)
(* (devclient.cpp:27, 61, 96).                                             *)
THEOREM SavedAsShown == Spec => []BoardShowsData
<1>1. DP!BoardShowsData => BoardShowsData
  BY DEF BoardShowsData, D!BoardShowsData, D!Letters, D!Range,
     DP!BoardShowsData, DP!Letters, DP!Range
<1>2. DP!Spec => []DP!BoardShowsData
  BY Constants, DP!SavedAsShown
<1>3. QED BY <1>1, <1>2, DevClientRefined, PTL

(* A file that can be read is only overwritten by its own data             *)
(* (devclient.cpp:49, 77).                                                 *)
THEOREM NoOtherOverwritten == Spec => OnlyOwnFile
<1>1. DP!OnlyOwnFile => OnlyOwnFile
  <2>1. [\A f \in Files : DP!Parses(disk[f]) /\ disk'[f] # disk[f] => f = related]_(DP!devVars)
          => [\A f \in Files : D!Parses(disk[f]) /\ disk'[f] # disk[f] => f = related]_(D!devVars)
    BY DEF D!Parses, DP!Parses, D!devVars, DP!devVars
  <2>2. QED BY <2>1, PTL DEF OnlyOwnFile, D!OnlyOwnFile, DP!OnlyOwnFile
<1>2. DP!Spec => DP!OnlyOwnFile
  BY Constants, DP!NoOtherOverwritten
<1>3. QED BY <1>1, <1>2, DevClientRefined, PTL
=============================================================================
