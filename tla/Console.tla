------------------------------ MODULE Console ------------------------------
(***************************************************************************)
(* What a player's keyboard and mouse do in a game: GameContext::          *)
(* parse_input with GameIO::do_event before it, the chat line, the         *)
(* commands, the queue of actions and the scripts.                         *)
(*                                                                         *)
(* The line being typed is blank, chat, or a command (it starts with a     *)
(* slash); which command it is, is chosen when it is sent, and so is       *)
(* whether the player it names exists.  What a command does to the bag,    *)
(* the turn and the scores of the others is in Hands and Game: here it     *)
(* queues actions, relays points, and loads a script.                      *)
(*                                                                         *)
(* "pointsCut" is a "/points" without a second part.  One whose difference *)
(* is 0 is "quiet", as is what queues no action and relays no points.      *)
(* LoadFile and TurnEndFile are what a file says with the files it loads   *)
(* in their places, for "/load" in a file is handled there and then.  Left *)
(* out: a file that loads itself, for ever, and "/loadscript" in the       *)
(* script of the end of a turn, which grows the vector that is being gone  *)
(* through.                                                                *)
(***************************************************************************)
EXTENDS Naturals, Sequences, FiniteSetsExt

CONSTANTS Commands,     \* what the player sends: a subset of AllCommands
          LoadFile,     \* the commands in the file of "/load"
          TurnEndFile,  \* those in the file of "/loadscript"
          MaxHeld,      \* bound: keys held at once
          MaxPoints     \* bound: points relayed

Scriptable  == {"points", "pointsCut", "turn", "push", "quiet"}
Loadable    == Scriptable \cup {"loadscript"}
AllCommands == Loadable \cup {"load"}

(* What Program assumes of the constants.                                 *)
ConsoleConstants ==
  /\ Commands \subseteq AllCommands
  /\ LoadFile \in Seq(Loadable) /\ TurnEndFile \in Seq(Scriptable)
  /\ \A i, j \in DOMAIN LoadFile :
       LoadFile[i] = "loadscript" /\ LoadFile[j] = "loadscript" => i = j
  /\ MaxHeld \in Nat /\ MaxPoints \in Nat

VARIABLES
  ioMode,    \* GameIO::mode_: "normal" or "chat"
  mode,      \* GameContext::mode_: "default" or "setTile"
  line,      \* the chat line, partial_action_: "blank", "chat" or "command"
  last,      \* queue_.back(): queue_ is never popped, and only its back read
  just,      \* just_entered_char_
  hidden,    \* hide_things_, which H toggles
  turn,      \* turn_: "none", "empty", or with "letters"
  script,    \* turn_end_script_ is loaded
  state,     \* "running", "leaving" (~running_), "left", "crashed" by
             \* /push, or "misread": by a /points that is cut
  held,      \* the keys held down
  owed,      \* the key whose TextEntered comes next
  relayed,   \* history: points relayed to the others
  gained,    \* history: points given in this player's own game
  ignored,   \* history: those it warned of, for a player who does not exist
  scripted,  \* history: a script has queued its actions
  typed      \* history: H has been typed into a cell, and no key released since

modes   == <<ioMode, mode>>
chat    == <<line, last>>
points  == <<relayed, gained, ignored, scripted>>
turns   == <<turn, script>>
keys    == <<held, owed>>
vars    == <<modes, chat, points, turns, keys, just, typed, hidden, state>>

(* "H" stands for the printable keys, and is also the hot key.             *)
NoKey     == "none"
Keys      == {"enter", "slash", "back", "escape", "shift", "H"}
Printable == {"slash", "H"}
TextKeys     == Keys \ {"shift"}

Actions == {"none", "ChatCharacter", "ChatWord", "TurnStart", "PushInfo", "AddPoints"}

Init ==
  /\ ioMode = "normal" /\ mode = "default"
  /\ line = "blank" /\ last = "none"
  /\ just = FALSE /\ hidden = FALSE
  /\ turn = "none" /\ script = FALSE
  /\ state = "running"
  /\ held = {} /\ owed = NoKey
  /\ relayed = 0 /\ gained = 0 /\ ignored = 0 /\ scripted = FALSE /\ typed = FALSE

Handles == state \in {"running", "leaving"}

-----------------------------------------------------------------------------
(* Commands.                                                               *)

(* Commands in a row are run up to one that is cut, where args[1] is read  *)
(* from beyond the vector.  (What lies there may also read as 0: "quiet".) *)
Run(commands) == {i \in DOMAIN commands : \A j \in 1..i : commands[j] # "pointsCut"}
Runs(command, commands) == \E i \in Run(commands) : commands[i] = command
After(commands) == IF Run(commands) = DOMAIN commands THEN state ELSE "misread"

(* What a command puts in queue_, and what is at its back after some; each *)
(* "/points" is relayed at once.                                           *)
ActionOf(command) ==
  CASE command = "points" -> "AddPoints"
    [] command = "turn"   -> "TurnStart"
    [] command = "push"   -> "PushInfo"
    [] OTHER              -> "none"

Queued(commands) == {i \in Run(commands) : ActionOf(commands[i]) # "none"}
BackOf(commands, back) ==
  IF Queued(commands) = {} THEN back ELSE ActionOf(commands[Max(Queued(commands))])
PointsIn(commands) == Cardinality({i \in Run(commands) : commands[i] = "points"})

(* The commands that handle_command runs for one that was sent.            *)
Handled(command) == IF command = "load" THEN LoadFile ELSE <<command>>

(* do_turn, after what led to it left `back' at the back of queue_ and     *)
(* `sent' points relayed: a turn with letters ends with the script, whose  *)
(* commands are handled and whose actions are queued.                      *)
RunsScript == script' /\ turn = "letters"
DoTurn(back, sent) ==
  LET run == IF RunsScript THEN TurnEndFile ELSE <<>> IN
  /\ turn' = "empty"
  /\ last' = BackOf(run, back)
  /\ relayed' = sent + PointsIn(run)
  /\ state' = After(run)

(* maybe_command, for the action at the back of queue_, which names a      *)
(* player who is known or not.  A turn is only started, and points are     *)
(* only given, to one who is.                                              *)
StartTurn(back, sent, known) ==
  /\ back = "TurnStart" /\ known
  /\ DoTurn(back, sent)
  /\ UNCHANGED <<gained, ignored>>

AddPoints(back, known) ==
  /\ back = "AddPoints"
  /\ gained' = gained + (IF known THEN 1 ELSE 0)
  /\ ignored' = ignored + (IF known THEN 0 ELSE 1)
  /\ UNCHANGED state

(* PushInfo falls through to add_points, with nothing to split: args[1] is *)
(* read from an empty vector.                                              *)
PushInfo(back) ==
  /\ back = "PushInfo"
  /\ state' = "crashed"
  /\ UNCHANGED <<gained, ignored>>

NoAction(back, known) ==
  /\ back \notin {"AddPoints", "PushInfo"}
  /\ back = "TurnStart" => ~known
  /\ UNCHANGED <<gained, ignored, state>>

MaybeCommand(back, sent, known) ==
  \/ StartTurn(back, sent, known)
  \/ /\ AddPoints(back, known) \/ PushInfo(back) \/ NoAction(back, known)
     /\ last' = back /\ relayed' = sent
     /\ UNCHANGED turn

(* A command that was sent.  (Bound: the script is loaded once.)           *)
Command(command, known) ==
  LET handled == Handled(command)
      back    == BackOf(handled, last)
      sent    == relayed + PointsIn(handled) IN
  /\ Runs("loadscript", handled) => ~script
  /\ script' = (script \/ Runs("loadscript", handled))
  /\ scripted' = (scripted \/ command = "load"
                  \/ (back = "TurnStart" /\ known /\ RunsScript))
  /\ \/ /\ After(handled) = state
        /\ MaybeCommand(back, sent, known)
     \/ /\ After(handled) # state
        /\ state' = "misread"
        /\ last' = back /\ relayed' = sent
        /\ UNCHANGED <<turn, gained, ignored>>
  /\ relayed' <= MaxPoints

-----------------------------------------------------------------------------
(* Events.                                                                 *)

(* do_enter, for Enter and for the slash, which opens the chat too.        *)
OpenChat ==
  /\ ioMode = "normal"
  /\ ioMode' = "chat"
  /\ UNCHANGED <<chat, points, turns, state>>

SendLine ==
  /\ ioMode = "chat"
  /\ ioMode' = "normal"
  /\ line' = "blank"
  /\ \/ line = "blank" /\ UNCHANGED <<last, points, turns, state>>
     \/ line = "chat" /\ last' = "ChatWord" /\ UNCHANGED <<points, turns, state>>
     \/ line = "command"
        /\ \E command \in Commands, known \in BOOLEAN : Command(command, known)

(* mutant: the keys go to the chat while a cell waits too.                 *)
PressedAnywhere(k) ==
  /\ Handles
  /\ owed = NoKey
  /\ held' = held \cup {k}
  /\ Cardinality(held') <= MaxHeld
  /\ owed' = IF k \in TextKeys THEN k ELSE NoKey
  /\ \/ k \in {"enter", "slash"} /\ (OpenChat \/ SendLine)
     \/ k \notin {"enter", "slash"} /\ UNCHANGED <<ioMode, chat, points, turns, state>>
  /\ UNCHANGED <<mode, just, typed, hidden>>

(* The text of a key is the next event after its press; a key that is held *)
(* down repeats.                                                           *)
KeyPressed(k) ==
  /\ Handles
  /\ owed = NoKey
  /\ held' = held \cup {k}
  /\ Cardinality(held') <= MaxHeld
  /\ owed' = IF k \in TextKeys THEN k ELSE NoKey
  /\ \/ /\ k \in {"enter", "slash"} /\ mode # "setTile"
        /\ OpenChat \/ SendLine
     \/ /\ k \notin {"enter", "slash"} \/ mode = "setTile"
        /\ UNCHANGED <<ioMode, chat, points, turns, state>>
  /\ UNCHANGED <<mode, just, typed, hidden>>

(* parse_mouse_released, for an event that is not a click: TextEntered     *)
(* falls through to it, and the coordinates it reads are whatever is there.*)
StrayClick(from) == mode' \in {from, "setTile"}

(* mutant: the character is not queued.                                    *)
TextNotQueued ==
  /\ ioMode = "chat"
  /\ line' \in IF line = "blank" THEN {"blank", "chat", "command"} ELSE {line}
  /\ UNCHANGED <<last, mode, just, typed, turn>>

(* A character joins the chat line.                                        *)
ChatText ==
  /\ ioMode = "chat"
  /\ \/ /\ owed \in Printable
        /\ last' = "ChatCharacter"
        /\ line' \in IF line = "blank" THEN {"blank", "chat", "command"} ELSE {line}
     \/ owed \notin Printable /\ UNCHANGED chat
  /\ UNCHANGED <<mode, just, typed, turn>>

(* mutant: just_entered_char_ is not set.                                  *)
TileTextForgotten ==
  /\ ioMode = "normal" /\ mode = "setTile"
  /\ StrayClick("default")
  /\ turn' \in {turn, IF turn = "none" THEN turn ELSE "letters"}
  /\ typed' = (typed \/ owed = "H")
  /\ UNCHANGED <<chat, just>>

(* A character for the pending cell: parse_text_entered.  It lands there   *)
(* unless the setting enforce-hand forbids it.                             *)
TileText ==
  /\ ioMode = "normal" /\ mode = "setTile"
  /\ StrayClick("default")
  /\ \/ /\ owed \in Printable
        /\ turn' \in {turn, IF turn = "none" THEN turn ELSE "letters"}
        /\ just' = TRUE
        /\ typed' = (typed \/ owed = "H")
     \/ owed \notin Printable /\ UNCHANGED <<turn, just, typed>>
  /\ UNCHANGED chat

(* A character for nothing.                                                *)
OtherText ==
  /\ ioMode = "normal" /\ mode = "default"
  /\ StrayClick("default")
  /\ UNCHANGED <<chat, turn, just, typed>>

TextEntered ==
  /\ Handles
  /\ owed # NoKey
  /\ owed' = NoKey
  /\ ChatText \/ TileText \/ OtherText
  /\ UNCHANGED <<ioMode, points, script, held, hidden, state>>

(* A key is released.  In the chat only the backspace means anything.      *)
KeyReleasedInChat(k) ==
  /\ ioMode = "chat"
  /\ line' \in IF k = "back" THEN {line, "blank"} ELSE {line}
  /\ UNCHANGED <<just, hidden, state>>

(* parse_escape, whether a cell is chosen or not, and the hot keys of      *)
(* parse_key_released: C reads the configuration again, D prints.          *)
AfterEscape(k) == IF k = "escape" THEN "leaving" ELSE state
AfterHotKey(k) == IF k = "H" THEN ~hidden ELSE hidden

KeyReleasedInGame(k) ==
  /\ ioMode = "normal"
  /\ state' = AfterEscape(k)
  /\ hidden' = IF mode = "default" /\ ~just THEN AfterHotKey(k) ELSE hidden
  /\ just' = FALSE
  /\ UNCHANGED line

KeyReleased(k) ==
  /\ Handles
  /\ owed = NoKey
  /\ k \in held
  /\ held' = held \ {k}
  /\ typed' = FALSE
  /\ KeyReleasedInChat(k) \/ KeyReleasedInGame(k)
  /\ UNCHANGED <<modes, last, points, turns, owed>>

(* The mouse is released over a cell.                                      *)
MouseReleased ==
  /\ Handles
  /\ owed = NoKey
  /\ mode' = IF ioMode = "chat" THEN mode ELSE "setTile"
  /\ UNCHANGED <<ioMode, chat, points, turns, keys, just, typed, hidden, state>>

-----------------------------------------------------------------------------
(* Updates, once the events of a tick are handled.                         *)

UpdateTurn ==
  /\ Handles
  /\ owed = NoKey
  /\ UNCHANGED script
  /\ DoTurn(last, relayed)
  /\ relayed' <= MaxPoints
  /\ scripted' = (scripted \/ RunsScript)
  /\ UNCHANGED <<modes, line, gained, ignored, keys, just, typed, hidden>>

UpdateTile ==
  /\ Handles
  /\ owed = NoKey
  /\ turn = "empty"
  /\ turn' = "letters"
  /\ UNCHANGED <<modes, chat, points, script, keys, just, typed, hidden, state>>

(* The loop ends.                                                          *)
Leave ==
  /\ state = "leaving"
  /\ owed = NoKey
  /\ state' = "left"
  /\ UNCHANGED <<modes, chat, points, turns, keys, just, typed, hidden>>

Step ==
  \/ \E k \in Keys : KeyPressed(k) \/ KeyReleased(k)
  \/ TextEntered
  \/ MouseReleased
  \/ UpdateTurn
  \/ UpdateTile

Next == Step \/ Leave

Spec == Init /\ [][Next]_vars

-----------------------------------------------------------------------------
(* Properties.                                                             *)

(* Every variable has its type.                                            *)
TypeOK ==
  /\ ioMode \in {"normal", "chat"} /\ mode \in {"default", "setTile"}
  /\ line \in {"blank", "chat", "command"} /\ last \in Actions
  /\ {just, hidden, script, scripted, typed} \subseteq BOOLEAN
  /\ turn \in {"none", "empty", "letters"}
  /\ state \in {"running", "leaving", "left", "crashed", "misread"}
  /\ held \subseteq Keys /\ owed \in TextKeys \cup {NoKey}
  /\ relayed \in 0..MaxPoints /\ {gained, ignored} \subseteq Nat

(* The chat and the pending cell never both wait for a character: what the *)
(* player types goes to one place, whatever came before, stray clicks      *)
(* included (context.cpp:187, 199; game_io.cpp:45).                        *)
ModesExclusive == ~(ioMode = "chat" /\ mode = "setTile")

(* The H that was typed into a cell is not also the hot key, as long as no *)
(* other key is released before it (context.cpp:211-217).                  *)
HotKeySpared == [][hidden' # hidden => ~typed]_vars

(* Points are never given in this player's game that the others were not   *)
(* told of.  Without scripts all that they were told of are, once, but for *)
(* those of a player whom this one does not know: no command executes      *)
(* again an action that an earlier one queued (context.cpp:192-194,        *)
(* 271-275; game_io.cpp:69, 298).                                          *)
PointsBothWays ==
  /\ gained + ignored <= relayed
  /\ ~scripted => gained + ignored = relayed

(* "Push all information about the current state to other users"           *)
(* (context.cpp:247): /push ends no game.  It does, by falling through to  *)
(* add_points (context.cpp:251).                                           *)
PushIsHarmless == state # "crashed"

=============================================================================
