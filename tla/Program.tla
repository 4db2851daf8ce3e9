------------------------------ MODULE Program ------------------------------
(***************************************************************************)
(* Application: the menus of Menus lead to a game.  In run_webclient the   *)
(* game is the events and updates of Console; in run_develop it is the     *)
(* file editor of DevClient, whose input is the chat and the letters that  *)
(* come out of a console that is as in the other game, and left out.  The  *)
(* loop of either game ends when the window is closed or running_ is false.*)
(***************************************************************************)
EXTENDS Naturals, Sequences

CONSTANTS Texts, Spaces, NoText, FirstLines, MaxAdded,
          Commands, LoadFile, TurnEndFile, MaxHeld, MaxPoints,
          Files, NoFile, FirstDisk, Rows, Width, Marks, Zero, Null, Unset,
          Other, Garbage, Absent, Locked, MaxEdits

VARIABLES screen, run, isOpen, clicked, asking, entry, lines, addr,
          user, added
VARIABLES ioMode, mode, line, last, just, hidden, turn, script, state, held,
          owed, relayed, gained, ignored, scripted, typed
VARIABLES file, data, needsUpdate, chat, disk, board, edits, partial, related

M == INSTANCE Menus
C == INSTANCE Console
D == INSTANCE DevClient

ASSUME ProgramAssumption ==
  M!MenusConstants /\ C!ConsoleConstants /\ D!DevClientConstants

menuVars    == <<screen, run, isOpen, clicked, asking, entry, lines,
                 addr, user, added>>
consoleVars == <<ioMode, mode, line, last, just, hidden, turn, script, state, held,
                 owed, relayed, gained, ignored, scripted, typed>>
devVars     == <<file, data, needsUpdate, chat, disk, board, edits, partial, related>>
vars        == <<menuVars, consoleVars, devVars>>

Init == M!Init /\ C!Init /\ D!Init

-----------------------------------------------------------------------------
InGame(which) == screen = "game" /\ run = which

(* On the menus, where closing the window ends the loop that runs.         *)
Menu == M!Step /\ UNCHANGED <<consoleVars, devVars>>

(* An event or an update of the game, as long as the window is open.       *)
Play ==
  /\ InGame("client") /\ isOpen
  /\ C!Step
  /\ UNCHANGED <<menuVars, devVars>>

Develop ==
  /\ InGame("develop") /\ isOpen
  /\ D!Next
  /\ UNCHANGED <<menuVars, consoleVars>>

Close ==
  /\ M!Close
  /\ state \notin {"crashed", "misread"}
  /\ UNCHANGED <<consoleVars, devVars>>

(* The loop of the game finds that running_ is false.                      *)
Escaped ==
  /\ M!GameOver /\ isOpen
  /\ \/ run = "client" /\ C!Leave
     \/ run = "develop" /\ UNCHANGED consoleVars
  /\ UNCHANGED devVars

(* It finds the window closed.                                             *)
Closed ==
  /\ M!GameOver /\ ~isOpen
  /\ UNCHANGED <<consoleVars, devVars>>

Next == Menu \/ Play \/ Develop \/ Close \/ Escaped \/ Closed

Spec == Init /\ [][Next]_vars

(* A loop that has the thread to itself comes to its condition: once the   *)
(* window is closed it has no events.                                      *)
FairSpec ==
  /\ Spec
  /\ WF_vars(M!ClosedLoop /\ UNCHANGED <<consoleVars, devVars>>)
  /\ WF_vars(Closed)

-----------------------------------------------------------------------------
(* Properties: those of the parts, as they hold of the whole.              *)

(* Every variable has its type.                                            *)
TypeOK == M!TypeOK /\ C!TypeOK /\ D!TypeOK

(* Menus: the window gives way to a server only at an address that was     *)
(* chosen (application.cpp:73).                                            *)
ServesChosen == M!ServesChosen

(* Menus: with the window open, who plays has a name, and an address       *)
(* (window_io.cpp:198-202).                                                *)
PlaysNamed == M!PlaysNamed

(* Menus: closing the window ends the program, from the menus and from the *)
(* games (todo.md:51; application.cpp:116, 167; window_io.cpp:19, 116).    *)
CloseEnds == M!CloseEnds

(* Console: what is typed goes to the chat or to a cell                    *)
(* (context.cpp:187, 199).                                                 *)
ModesExclusive == C!ModesExclusive

(* Console: a letter typed into a cell is not also a hot key               *)
(* (context.cpp:211-217).                                                  *)
HotKeySpared == C!HotKeySpared

(* Console: points are given here as the others are told, and once, but    *)
(* for those of a player unknown here (context.cpp:192-194, 271-275;       *)
(* game_io.cpp:69, 298).                                                   *)
PointsBothWays == C!PointsBothWays

(* Console: /push pushes information, and ends no game                     *)
(* (context.cpp:247).                                                      *)
PushIsHarmless == C!PushIsHarmless

(* DevClient: what will be saved is what the board shows                   *)
(* (devclient.cpp:27, 61, 96).                                             *)
BoardShowsData == D!BoardShowsData

(* DevClient: a file that can be read is only overwritten by its own data  *)
(* (devclient.cpp:49, 77).                                                 *)
OnlyOwnFile == D!OnlyOwnFile

=============================================================================
