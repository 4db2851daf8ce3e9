------------------------------- MODULE Menus -------------------------------
(***************************************************************************)
(* The screens from Application::launch to a game or a server: the menu,   *)
(* the choice of an address or a name among the lines of a file, the entry *)
(* of a new line, and the notice; each is a loop of its own over the       *)
(* events of the window, which may be closed at any of them.               *)
(*                                                                         *)
(* A text is a model value; typing or deleting a character makes any text  *)
(* of the one before.  The lines of a file are a set.                      *)
(***************************************************************************)
EXTENDS Naturals, FiniteSets

CONSTANTS Texts,      \* what may be typed, one character at least
          Spaces,     \* the one of them that has no visible character
          NoText,     \* the empty one
          FirstLines, \* the lines that the files begin with
          MaxAdded    \* bound: lines added to the files

Visible == Texts \ {Spaces}
AddNew == "Add New"   \* the last button of a choice, which may be typed too
Runs   == {"server", "client", "local", "develop"}

(* What Program assumes of the constants.                                 *)
MenusConstants ==
  /\ Spaces \in Texts /\ NoText \notin Texts
  /\ FirstLines \in [{"ip", "name"} -> SUBSET Texts]
  /\ MaxAdded \in Nat

VARIABLES screen,    \* the loop that runs; "devMenu" is the menu in developer mode
          run,       \* the run_ function called by launch
          isOpen,    \* of the window
          clicked,   \* the buttons pressed: clicked_
          asking,    \* what the choice is of: "ip" or "name"
          entry,     \* input_str
          lines,     \* the lines of the two files
          addr, user,
          added      \* lines added

choice   == <<clicked, asking>>
text     == <<entry, lines, added>>
menuVars == <<screen, run, isOpen, choice, text, addr, user>>

Init ==
  /\ screen = "start"
  /\ run = "none"
  /\ isOpen = FALSE
  /\ clicked = {}
  /\ asking = "ip"
  /\ entry = NoText
  /\ lines = FirstLines
  /\ addr = NoText /\ user = NoText
  /\ added = 0

-----------------------------------------------------------------------------
(* main and launch: a server with no window, its address an argument or    *)
(* asked for in the terminal, or the window with the menu.                 *)
Windowless ==
  /\ screen' = "serving"
  /\ run' = "windowless"
  /\ addr' \in Texts \cup {NoText}
  /\ UNCHANGED isOpen

WithWindow ==
  /\ screen' \in {"menu", "devMenu"}
  /\ isOpen' = TRUE
  /\ UNCHANGED <<run, addr>>

Launch ==
  /\ screen = "start"
  /\ Windowless \/ WithWindow
  /\ UNCHANGED <<choice, text, user>>

(* mutant: ReadMode::NonEmpty.                                             *)
NonEmptyLines(file) == lines[file] \ {NoText}

(* get_lines, with ReadMode::HasChars.                                     *)
LinesOf(file) == lines[file] \ {Spaces, NoText}

Options ==
  CASE screen = "devMenu" -> Runs
    [] screen = "menu"    -> Runs \ {"develop"}
    [] screen = "choose"  -> LinesOf(asking) \cup {AddNew}
    [] screen = "notice"  -> {"Okay"}
    [] OTHER              -> {}

(* get_from_file returns `str', to run_webserver, or to run_webclient,     *)
(* which connects and makes the game, or to GameIO::init, after which      *)
(* GameContext::init joins the game.                                       *)
Chosen(str) ==
  \/ /\ asking = "ip" /\ run = "server"
     /\ addr' = str
     /\ screen' = "notice"
     /\ UNCHANGED <<asking, user>>
  \/ /\ asking = "ip" /\ run = "client"
     /\ addr' = str
     /\ asking' = "name"
     /\ screen' = "choose"
     /\ UNCHANGED user
  \/ /\ asking = "name"
     /\ user' = str
     /\ screen' = "game"
     /\ UNCHANGED <<asking, addr>>

(* A button is clicked: pressed and released over it.                      *)
MenuClicked(b) ==
  /\ screen \in {"menu", "devMenu"}
  /\ run' = b
  /\ screen' = IF b = "local" THEN "notice" ELSE "choose"
  /\ asking' = IF b = "develop" THEN "name" ELSE "ip"
  /\ UNCHANGED <<isOpen, entry, addr, user>>

ChoiceClicked(b) ==
  /\ screen = "choose"
  /\ \/ b = AddNew /\ screen' = "type" /\ entry' = NoText /\ UNCHANGED <<asking, addr, user>>
     \/ b # AddNew /\ Chosen(b) /\ UNCHANGED entry
  /\ UNCHANGED <<run, isOpen>>

NoticeClicked ==
  /\ screen = "notice"
  /\ screen' = IF run = "server" THEN "serving" ELSE "ended"
  /\ isOpen' = (isOpen /\ run # "server")
  /\ UNCHANGED <<run, asking, entry, addr, user>>

Pressed(b) ==
  /\ isOpen
  /\ clicked' = clicked \cup {b}
  /\ UNCHANGED <<screen, run, isOpen, asking, text, addr, user>>

(* mutant: a button that was pressed stays so.                             *)
ReleasedOnly(b) ==
  /\ isOpen /\ Options # {}
  /\ clicked' = clicked
  /\ \/ b \in clicked /\ (MenuClicked(b) \/ ChoiceClicked(b) \/ NoticeClicked)
     \/ b \notin clicked /\ UNCHANGED <<screen, run, isOpen, asking, entry, addr, user>>
  /\ UNCHANGED <<lines, added>>

(* accept_release: every button is reset, whichever the release is over.   *)
Released(b) ==
  /\ isOpen /\ Options # {}
  /\ clicked' = {}
  /\ \/ b \in clicked /\ (MenuClicked(b) \/ ChoiceClicked(b) \/ NoticeClicked)
     \/ b \notin clicked /\ UNCHANGED <<screen, run, isOpen, asking, entry, addr, user>>
  /\ UNCHANGED <<lines, added>>

(* The entry of a line.  Enter counts when it is released.                 *)
AddLine == lines' = [lines EXCEPT ![asking] = @ \cup {entry}] /\ added' = added + 1

TextTyped ==
  /\ screen = "type" /\ isOpen
  /\ added < MaxAdded
  /\ entry' \in Texts
  /\ UNCHANGED <<screen, run, isOpen, choice, lines, added, addr, user>>

BackspaceReleased ==
  /\ screen = "type" /\ isOpen
  /\ entry # NoText
  /\ entry' \in Texts \cup {NoText}
  /\ UNCHANGED <<screen, run, isOpen, choice, lines, added, addr, user>>

EnterReleased ==
  /\ screen = "type" /\ isOpen
  /\ added < MaxAdded
  /\ AddLine
  /\ screen' = "choose"
  /\ UNCHANGED <<run, isOpen, choice, entry, addr, user>>

-----------------------------------------------------------------------------
(* The window is closed, and each loop ends, with what it has.             *)
Close ==
  /\ isOpen
  /\ screen \notin {"serving", "ended"}
  /\ isOpen' = FALSE
  /\ UNCHANGED <<screen, run, choice, text, addr, user>>

(* mutant: run_webserver does not ask whether the window is still open.    *)
ServesAnyway ==
  /\ screen \in {"menu", "devMenu", "notice"}
  /\ screen' = IF screen = "notice" /\ run = "server" THEN "serving" ELSE "ended"
  /\ UNCHANGED <<asking, text, addr, user>>

ClosedMenu ==
  /\ screen \in {"menu", "devMenu", "notice"}
  /\ screen' = "ended"
  /\ UNCHANGED <<asking, text, addr, user>>

ClosedChoice == screen = "choose" /\ Chosen(NoText) /\ UNCHANGED text

(* mutant: the loop of the entry does not look at the window.              *)
EntryFreezes ==
  /\ screen = "type"
  /\ UNCHANGED <<screen, asking, text, addr, user>>

(* What was typed so far becomes a line of the file.                       *)
ClosedEntry ==
  /\ screen = "type"
  /\ AddLine
  /\ Chosen(NoText)
  /\ UNCHANGED entry

ClosedLoop ==
  /\ ~isOpen
  /\ ClosedMenu \/ ClosedChoice \/ ClosedEntry
  /\ clicked' = {}
  /\ UNCHANGED <<run, isOpen>>

(* The loop of a game ends: the window is closed, or the game is over.     *)
GameOver ==
  /\ screen = "game"
  /\ screen' = "ended"
  /\ UNCHANGED <<run, isOpen, choice, text, addr, user>>

Step ==
  \/ Launch
  \/ \E b \in Options : Pressed(b)
  \/ \E b \in Options \cup {"none"} : Released(b)
  \/ TextTyped
  \/ BackspaceReleased
  \/ EnterReleased
  \/ ClosedLoop

Next == Step \/ Close \/ GameOver

Spec == Init /\ [][Next]_menuVars

-----------------------------------------------------------------------------
(* Properties.                                                             *)

(* Every variable has its type.                                            *)
TypeOK ==
  /\ screen \in {"start", "menu", "devMenu", "choose", "type", "notice", "game", "serving", "ended"}
  /\ run \in Runs \cup {"none", "windowless"}
  /\ isOpen \in BOOLEAN
  /\ asking \in {"ip", "name"} /\ clicked \subseteq Options
  /\ {entry, addr, user} \subseteq Texts \cup {NoText}
  /\ lines \in [{"ip", "name"} -> SUBSET (Texts \cup {NoText})]
  /\ added \in 0..(MaxAdded + 1)

(* The window gives way to a server only at an address that can be read,   *)
(* and not because it was closed (application.cpp:73; window_io.cpp:201).  *)
ServesChosen ==
  screen = "serving" /\ run = "server" => addr \in lines["ip"] \cap Visible

(* As long as the window is open, who plays has a name that can be read,   *)
(* and went where the addresses say; only who closed the window on the     *)
(* menus joins under the empty name (window_io.cpp:198-202;                *)
(* application.cpp:104-113).                                               *)
PlaysNamed ==
  screen = "game" /\ isOpen =>
    /\ user \in lines["name"] \cap Visible
    /\ run = "client" => addr \in lines["ip"] \cap Visible

(* Closing the window ends the program, at whichever loop                  *)
(* (todo.md:51, "Game freezes when clicking 'x' in text entry", fixed).    *)
CloseEnds ==
  screen # "start" /\ ~isOpen ~> screen \in {"ended", "serving"}

=============================================================================
