--------------------------- MODULE ConsoleProofs ---------------------------
(***************************************************************************)
(* Theorems about Console for any commands, scripts and bounds: the chat   *)
(* and a pending cell never both wait for a character, a letter typed into *)
(* a cell is not also the hot key, and points are given in this player's   *)
(* game only as the others are told of them.                               *)
(*                                                                         *)
(* The last of these is not inductive: queue_ keeps the action at its back *)
(* when it has been executed, and what keeps a command from executing it   *)
(* again is that the command had to be typed, and its characters are       *)
(* queued behind the action (Typed).  A script may queue points after      *)
(* that; but then it has relayed them too.                                 *)
(***************************************************************************)
EXTENDS Console, FiniteSetTheorems, WellFoundedInduction, TLAPS

-----------------------------------------------------------------------------
(* What commands queue, and relay.                                         *)

(* The maximum of a set of positions.                                      *)
LEMMA MaxIsIn ==
  ASSUME NEW n \in Nat, NEW T \in SUBSET (1..n), T # {}
  PROVE  Max(T) \in T
<1> DEFINE D == {n - i : i \in T}
<1>1. D \in SUBSET Nat /\ D # {}
  <2>1. \A i \in T : n - i \in Nat
    OBVIOUS
  <2>2. QED BY <2>1
<1>2. \E x \in D : \A y \in D : <<y, x>> \notin OpToRel(<, Nat)
  BY <1>1, NatLessThanWellFounded, WFMin
<1>3. PICK x \in D : \A y \in D : ~(y < x)
  BY <1>1, <1>2 DEF OpToRel
<1>4. PICK i \in T : x = n - i
  OBVIOUS
<1>5. \A j \in T : i >= j
  <2>1. TAKE j \in T
  <2>2. ~(n - j < n - i)
    BY <1>3, <1>4
  <2>3. QED BY <2>2
<1>6. QED BY <1>5 DEF Max

(* A sequence of commands relays a number of points; it leaves the back of *)
(* the queue as it was, or an action of one of them, and points only if it *)
(* has relayed some.                                                       *)
LEMMA CommandsQueue ==
  ASSUME NEW S, NEW commands \in Seq(S), NEW back \in Actions
  PROVE  /\ PointsIn(commands) \in Nat
         /\ BackOf(commands, back) \in Actions
         /\ BackOf(commands, back) = "AddPoints" => back = "AddPoints" \/ PointsIn(commands) >= 1
<1> DEFINE P == {i \in Run(commands) : commands[i] = "points"}
<1>0. Run(commands) \subseteq DOMAIN commands
  BY DEF Run
<1>1. IsFiniteSet(P) /\ Cardinality(P) \in Nat
  <2>1. Len(commands) \in Nat /\ DOMAIN commands = 1..Len(commands)
    OBVIOUS
  <2>2. IsFiniteSet(DOMAIN commands)
    BY <2>1, FS_Interval
  <2>3. P \subseteq DOMAIN commands
    BY <1>0
  <2>4. QED BY <2>2, <2>3, FS_Subset, FS_CardinalityType
<1>2. PointsIn(commands) = Cardinality(P)
  BY DEF PointsIn
<1>3. CASE Queued(commands) = {}
  BY <1>1, <1>2, <1>3 DEF BackOf
<1>4. CASE Queued(commands) # {}
  <2>1. Max(Queued(commands)) \in Queued(commands)
    <3>1. Queued(commands) \in SUBSET (1..Len(commands)) /\ Len(commands) \in Nat
      BY <1>0 DEF Queued
    <3>2. QED BY <1>4, <3>1, MaxIsIn
  <2>2. PICK i \in Run(commands) : BackOf(commands, back) = ActionOf(commands[i])
    BY <1>4, <2>1 DEF BackOf, Queued
  <2>3. ActionOf(commands[i]) \in Actions
    BY DEF ActionOf, Actions
  <2>4. ActionOf(commands[i]) = "AddPoints" => commands[i] = "points"
    BY DEF ActionOf
  <2>5. P # {} => Cardinality(P) >= 1
    <3>1. Cardinality(P) = 0 <=> P = {}
      BY <1>1, FS_EmptySet, Zenon
    <3> HIDE DEF P
    <3>2. QED BY <1>1, <3>1
  <2>6. QED BY <1>1, <1>2, <2>2, <2>3, <2>4, <2>5
<1>5. QED BY <1>3, <1>4

(* One command alone.                                                      *)
LEMMA OneCommand ==
  ASSUME NEW command, NEW back
  PROVE  /\ PointsIn(<<command>>) = IF command = "points" THEN 1 ELSE 0
         /\ BackOf(<<command>>, back) =
              IF ActionOf(command) = "none" THEN back ELSE ActionOf(command)
         /\ command # "pointsCut" => After(<<command>>) = state
<1>1. DOMAIN <<command>> = {1} /\ <<command>>[1] = command
  OBVIOUS
<1>2. Run(<<command>>) = IF command = "pointsCut" THEN {} ELSE {1}
  <2>1. 1..1 = {1}
    OBVIOUS
  <2>2. QED BY <1>1, <2>1 DEF Run
<1>3. PointsIn(<<command>>) = IF command = "points" THEN 1 ELSE 0
  <2> DEFINE P == {i \in Run(<<command>>) : <<command>>[i] = "points"}
  <2>1. P = IF command = "points" THEN {1} ELSE {}
    BY <1>1, <1>2
  <2>2. Cardinality({1}) = 1 /\ Cardinality({}) = 0
    BY FS_Singleton, FS_EmptySet, Zenon
  <2> HIDE DEF P
  <2>3. Cardinality(P) = IF command = "points" THEN 1 ELSE 0
    BY <2>1, <2>2
  <2>4. QED BY <2>3 DEF PointsIn, P
<1>4. Queued(<<command>>) = IF ActionOf(command) = "none" THEN {} ELSE {1}
  <2>1. ActionOf("pointsCut") = "none"
    BY DEF ActionOf
  <2>2. QED BY <1>1, <1>2, <2>1 DEF Queued
<1>5. Max({1}) = 1
  BY DEF Max
<1>6. BackOf(<<command>>, back) = IF ActionOf(command) = "none" THEN back ELSE ActionOf(command)
  BY <1>1, <1>4, <1>5 DEF BackOf
<1>7. QED BY <1>1, <1>2, <1>3, <1>6 DEF After

(* And none.                                                               *)
LEMMA NoCommand ==
  ASSUME NEW back PROVE PointsIn(<<>>) = 0 /\ BackOf(<<>>, back) = back /\ After(<<>>) = state
<1>1. DOMAIN <<>> = {}
  OBVIOUS
<1>2. Run(<<>>) = {}
  BY <1>1 DEF Run
<1>3. {i \in Run(<<>>) : <<>>[i] = "points"} = {} /\ Queued(<<>>) = {}
  BY <1>2 DEF Queued
<1>4. QED BY <1>1, <1>2, <1>3, FS_EmptySet DEF PointsIn, BackOf, After

-----------------------------------------------------------------------------
(* The inductive invariant.                                                *)

(* A command was typed behind all that was queued before; what is at the   *)
(* back since was queued by a script, which has relayed its points.        *)
CommandTyped ==
  line = "command" =>
    /\ ~scripted => last = "ChatCharacter"
    /\ last = "AddPoints" => gained + ignored < relayed

(* just_entered_char_ is set for the key that was typed into a cell.       *)
TypedIsJust == typed => just

Inv ==
  /\ TypeOK
  /\ ModesExclusive
  /\ PointsBothWays
  /\ CommandTyped
  /\ TypedIsJust

(* A turn that ends runs a script, or nothing.                             *)
LEMMA TurnEnds ==
  ASSUME ConsoleConstants, NEW back \in Actions, NEW sent \in Nat, DoTurn(back, sent)
  PROVE  /\ turn' = "empty"
         /\ last' \in Actions
         /\ relayed' \in Nat /\ relayed' >= sent
         /\ last' = "AddPoints" => back = "AddPoints" \/ relayed' > sent
         /\ ~RunsScript => last' = back /\ relayed' = sent
         /\ state' \in {state, "misread"}
<1>1. CASE RunsScript
  <2>1. TurnEndFile \in Seq(Scriptable)
    BY DEF ConsoleConstants
  <2>2. /\ last' = BackOf(TurnEndFile, back)
        /\ relayed' = sent + PointsIn(TurnEndFile)
        /\ turn' = "empty" /\ state' \in {state, "misread"}
    BY <1>1 DEF DoTurn, After
  <2>3. QED BY <1>1, <2>1, <2>2, CommandsQueue
<1>2. CASE ~RunsScript
  <2>1. /\ last' = BackOf(<<>>, back) /\ relayed' = sent + PointsIn(<<>>)
        /\ turn' = "empty" /\ state' = After(<<>>)
    BY <1>2 DEF DoTurn
  <2>2. QED BY <1>2, <2>1, NoCommand
<1>3. QED BY <1>1, <1>2

(* A command that was sent, whatever it loads or ends.                     *)
LEMMA CommandStep ==
  ASSUME ConsoleConstants, Inv, line = "command", NEW command \in Commands,
         NEW known \in BOOLEAN, Command(command, known)
  PROVE  /\ last' \in Actions /\ turn' \in {turn, "empty"}
         /\ relayed' \in 0..MaxPoints /\ gained' \in Nat /\ ignored' \in Nat
         /\ script' \in BOOLEAN /\ scripted' \in BOOLEAN
         /\ state' \in {state, "crashed", "misread"}
         /\ PointsBothWays'
<1> DEFINE handled == Handled(command)
           back    == BackOf(handled, last)
           sent    == relayed + PointsIn(handled)
<1>1. handled \in Seq(Loadable) \/ handled \in Seq(Commands)
  BY DEF Handled, ConsoleConstants
<1>2. last \in Actions /\ relayed \in Nat /\ gained \in Nat /\ ignored \in Nat
  BY DEF Inv, TypeOK, ConsoleConstants
<1>3. /\ PointsIn(handled) \in Nat /\ back \in Actions
      /\ back = "AddPoints" => last = "AddPoints" \/ PointsIn(handled) >= 1
  BY <1>1, <1>2, CommandsQueue
<1>4. /\ gained + ignored <= relayed
      /\ last = "AddPoints" => gained + ignored < relayed
      /\ ~scripted => gained + ignored = relayed /\ last = "ChatCharacter"
  BY DEF Inv, PointsBothWays, CommandTyped
<1>5. /\ script' \in BOOLEAN /\ scripted' \in BOOLEAN
      /\ ~scripted' =>
           ~scripted /\ command # "load" /\ ~(back = "TurnStart" /\ known /\ RunsScript)
      /\ \/ MaybeCommand(back, sent, known)
         \/ /\ After(handled) # state /\ state' = "misread"
            /\ last' = back /\ relayed' = sent
            /\ UNCHANGED <<turn, gained, ignored>>
      /\ relayed' <= MaxPoints
  <2>1. script \in BOOLEAN /\ scripted \in BOOLEAN
    BY DEF Inv, TypeOK
  <2>2. (script \/ Runs("loadscript", handled)) \in BOOLEAN
    OBVIOUS
  <2>3. QED BY <2>1, <2>2 DEF Command
<1>6. ~scripted' =>
        /\ sent = relayed + (IF command = "points" THEN 1 ELSE 0)
        /\ back = IF ActionOf(command) = "none" THEN last ELSE ActionOf(command)
        /\ After(handled) # state => command = "pointsCut"
  BY <1>5, OneCommand DEF Handled
<1>7. ActionOf(command) = "AddPoints" <=> command = "points"
  BY DEF ActionOf
<1>8. MaxPoints \in Nat
  BY DEF ConsoleConstants
<1> HIDE DEF handled, back, sent
<1>9. sent \in Nat /\ sent >= relayed /\ (back = "AddPoints" => gained + ignored < sent)
  BY <1>2, <1>3, <1>4 DEF sent
<1>10. CASE StartTurn(back, sent, known)
  <2>1. back = "TurnStart" /\ known /\ DoTurn(back, sent) /\ UNCHANGED <<gained, ignored>>
    BY <1>10 DEF StartTurn
  <2>2. /\ turn' = "empty" /\ last' \in Actions /\ relayed' \in Nat /\ relayed' >= sent
        /\ state' \in {state, "misread"}
    BY <1>3, <1>9, <2>1, TurnEnds
  <2>3. ~RunsScript => relayed' = sent
    BY <1>3, <1>9, <2>1, TurnEnds
  <2>4. ~scripted' => sent = relayed
    BY <1>2, <1>4, <1>5, <1>6, <1>7, <2>1
  <2>5. PointsBothWays'
    BY <1>2, <1>4, <1>5, <1>9, <2>1, <2>2, <2>3, <2>4 DEF PointsBothWays
  <2>6. QED BY <1>2, <1>5, <1>8, <2>1, <2>2, <2>5
<1>11. CASE /\ AddPoints(back, known) \/ PushInfo(back) \/ NoAction(back, known)
            /\ last' = back /\ relayed' = sent
            /\ UNCHANGED turn
  <2>1. /\ gained' \in Nat /\ ignored' \in Nat
        /\ gained' + ignored' = gained + ignored + (IF back = "AddPoints" THEN 1 ELSE 0)
        /\ state' \in {state, "crashed"}
    BY <1>2, <1>11 DEF AddPoints, PushInfo, NoAction
  <2>2. last' = back /\ relayed' = sent /\ turn' = turn
    BY <1>11
  <2>3. gained + ignored + (IF back = "AddPoints" THEN 1 ELSE 0) <= sent
    BY <1>2, <1>4, <1>9
  <2>4. gained' + ignored' <= relayed'
    BY <2>1, <2>2, <2>3
  <2>5. ~scripted' => gained' + ignored' = relayed'
    BY <1>2, <1>4, <1>5, <1>6, <1>7, <2>1, <2>2
  <2>6. relayed' \in 0..MaxPoints
    BY <1>5, <1>8, <1>9, <2>2
  <2>7. QED BY <1>3, <1>5, <2>1, <2>2, <2>4, <2>5, <2>6 DEF PointsBothWays
<1>12. CASE /\ After(handled) # state /\ state' = "misread"
            /\ last' = back /\ relayed' = sent
            /\ UNCHANGED <<turn, gained, ignored>>
  <2>1. gained' + ignored' <= relayed'
    BY <1>2, <1>4, <1>9, <1>12
  <2>2. ~scripted' => gained' + ignored' = relayed'
    BY <1>2, <1>4, <1>5, <1>6, <1>12
  <2>3. QED BY <1>2, <1>3, <1>5, <1>8, <1>9, <1>12, <2>1, <2>2 DEF PointsBothWays
<1>13. QED BY <1>5, <1>10, <1>11, <1>12 DEF MaybeCommand

(* Enter or the slash: the chat opens, or the line is sent, and its mode   *)
(* ends.                                                                   *)
LEMMA EnterStep ==
  ASSUME ConsoleConstants, Inv, OpenChat \/ SendLine
  PROVE  /\ last' \in Actions /\ turn' \in {"none", "empty", "letters"}
         /\ relayed' \in 0..MaxPoints /\ gained' \in Nat /\ ignored' \in Nat
         /\ script' \in BOOLEAN /\ scripted' \in BOOLEAN
         /\ state' \in {"running", "leaving", "left", "crashed", "misread"}
         /\ line' \in {"blank", "chat", "command"} /\ ioMode' \in {"normal", "chat"}
         /\ PointsBothWays' /\ CommandTyped'
<1>1. CASE OpenChat
  BY <1>1 DEF OpenChat, chat, points, turns, Inv, TypeOK, PointsBothWays,
     CommandTyped
<1>2. CASE SendLine
  <2>1. ioMode' = "normal" /\ line' = "blank"
    BY <1>2 DEF SendLine
  <2>2. CASE line = "blank" /\ UNCHANGED <<last, points, turns, state>>
    BY <2>1, <2>2 DEF points, turns, Inv, TypeOK, PointsBothWays, CommandTyped
  <2>3. CASE line = "chat" /\ last' = "ChatWord" /\ UNCHANGED <<points, turns, state>>
    BY <2>1, <2>3 DEF points, turns, Inv, TypeOK, PointsBothWays, CommandTyped,
       Actions
  <2>4. CASE /\ line = "command"
             /\ \E command \in Commands, known \in BOOLEAN : Command(command, known)
    BY <2>1, <2>4, CommandStep DEF Inv, TypeOK, CommandTyped
  <2>5. QED BY <1>2, <2>2, <2>3, <2>4 DEF SendLine
<1>3. QED BY <1>1, <1>2

(* A key pressed: enter and slash open the chat or send its line, and the  *)
(* others only make their text due.                                        *)
LEMMA KeyPressedStep ==
  ASSUME ConsoleConstants, Inv, NEW k \in Keys, KeyPressed(k)
  PROVE  Inv'
<1>1. /\ held' \subseteq Keys /\ owed' \in TextKeys \cup {NoKey}
      /\ UNCHANGED <<mode, just, typed, hidden>>
  BY DEF KeyPressed, Inv, TypeOK
<1>2. CASE k \in {"enter", "slash"} /\ mode # "setTile" /\ (OpenChat \/ SendLine)
  <2>1. ModesExclusive'
    BY <1>1, <1>2 DEF ModesExclusive
  <2>2. QED
    BY <1>1, <1>2, <2>1, EnterStep DEF Inv, TypeOK, TypedIsJust
<1>3. CASE UNCHANGED <<ioMode, chat, points, turns, state>>
  BY <1>1, <1>3 DEF chat, points, turns, Inv, TypeOK, ModesExclusive,
     PointsBothWays, CommandTyped, TypedIsJust
<1>4. QED BY <1>2, <1>3 DEF KeyPressed

(* The text of a key: it goes to the chat line or to the tile, or is       *)
(* dropped after enter.                                                    *)
LEMMA TextEnteredStep == ASSUME Inv, TextEntered PROVE Inv'
<1>1. /\ owed' = NoKey
      /\ UNCHANGED <<ioMode, relayed, gained, ignored, scripted, script, held, hidden, state>>
  BY DEF TextEntered, points
<1>2. CASE ChatText
  <2>1. /\ line' \in {"blank", "chat", "command"}
        /\ last' = "ChatCharacter" \/ (last' = last /\ line' = line)
        /\ UNCHANGED <<mode, just, typed, turn>>
    BY <1>2 DEF ChatText, chat, Inv, TypeOK
  <2>2. QED
    BY <1>1, <2>1 DEF Inv, TypeOK, ModesExclusive, PointsBothWays, CommandTyped,
       TypedIsJust, Actions
<1>3. CASE TileText \/ OtherText
  <2>1. /\ ioMode = "normal" /\ mode' \in {"default", "setTile"}
        /\ turn' \in {"none", "empty", "letters"}
        /\ just' \in BOOLEAN /\ typed' \in BOOLEAN
        /\ typed' => just'
        /\ UNCHANGED <<line, last>>
    <3>1. CASE OtherText
      BY <3>1 DEF OtherText, StrayClick, chat, Inv, TypeOK, TypedIsJust
    <3>2. CASE TileText
      <4>1. just \in BOOLEAN /\ typed \in BOOLEAN /\ (typed => just)
            /\ turn \in {"none", "empty", "letters"}
        BY DEF Inv, TypeOK, TypedIsJust
      <4>2. /\ ioMode = "normal" /\ mode' \in {"default", "setTile"} /\ UNCHANGED <<line, last>>
        BY <3>2 DEF TileText, StrayClick, chat
      <4>3. CASE /\ turn' \in {turn, IF turn = "none" THEN turn ELSE "letters"}
                 /\ just' = TRUE /\ typed' = (typed \/ owed = "H")
        BY <4>1, <4>2, <4>3
      <4>4. CASE UNCHANGED <<turn, just, typed>>
        BY <4>1, <4>2, <4>4
      <4>5. QED BY <3>2, <4>3, <4>4 DEF TileText
    <3>3. QED BY <1>3, <3>1, <3>2
  <2>2. QED
    BY <1>1, <2>1 DEF Inv, TypeOK, ModesExclusive, PointsBothWays, CommandTyped,
       TypedIsJust
<1>4. QED BY <1>2, <1>3 DEF TextEntered

(* A key released: the backspace of the chat, escape and the hot keys.     *)
LEMMA KeyReleasedStep == ASSUME Inv, NEW k \in Keys, KeyReleased(k) PROVE Inv'
<1>1. /\ held' \subseteq Keys /\ typed' = FALSE
      /\ UNCHANGED <<ioMode, mode, last, relayed, gained, ignored, scripted, turn, script, owed>>
  BY DEF KeyReleased, modes, points, turns, Inv, TypeOK
<1>2. /\ line' \in {line, "blank"} /\ just' \in BOOLEAN /\ hidden' \in BOOLEAN
      /\ state' \in {state, "leaving"}
  BY DEF KeyReleased, KeyReleasedInChat, KeyReleasedInGame, AfterEscape,
     AfterHotKey, Inv, TypeOK
<1>3. QED
  BY <1>1, <1>2 DEF Inv, TypeOK, ModesExclusive, PointsBothWays, CommandTyped,
     TypedIsJust

(* A click, or what is taken for one.                                      *)
LEMMA MouseReleasedStep == ASSUME Inv, MouseReleased PROVE Inv'
BY DEF MouseReleased, chat, points, turns, keys, Inv, TypeOK, ModesExclusive,
   PointsBothWays, CommandTyped, TypedIsJust

(* The update of a turn, after which the script of the end of a turn runs. *)
LEMMA UpdateTurnStep == ASSUME ConsoleConstants, Inv, UpdateTurn PROVE Inv'
<1>1. last \in Actions /\ relayed \in Nat /\ {gained, ignored} \subseteq Nat /\ MaxPoints \in Nat
  BY DEF Inv, TypeOK, ConsoleConstants
<1>2. DoTurn(last, relayed)
  BY DEF UpdateTurn
<1>3. /\ turn' = "empty" /\ last' \in Actions
      /\ relayed' \in Nat /\ relayed' >= relayed
      /\ last' = "AddPoints" => last = "AddPoints" \/ relayed' > relayed
      /\ ~RunsScript => last' = last /\ relayed' = relayed
      /\ state' \in {state, "misread"}
  BY <1>1, <1>2, TurnEnds
<1>4. /\ relayed' <= MaxPoints /\ scripted' = (scripted \/ RunsScript)
      /\ UNCHANGED <<ioMode, mode, line, gained, ignored, held, owed, just, typed, hidden, script>>
  BY DEF UpdateTurn, modes, keys
<1>5. scripted' \in BOOLEAN /\ (~scripted' => ~scripted /\ ~RunsScript)
  BY <1>4 DEF Inv, TypeOK
<1>6. TypeOK'
  BY <1>1, <1>3, <1>4, <1>5 DEF Inv, TypeOK
<1>7. PointsBothWays' /\ CommandTyped'
  BY <1>1, <1>3, <1>4, <1>5 DEF Inv, PointsBothWays, CommandTyped
<1>8. QED BY <1>4, <1>6, <1>7 DEF Inv, ModesExclusive, TypedIsJust

(* The update of a tile and the end of the console touch nothing the       *)
(* invariant is about.                                                     *)
LEMMA OtherStep == ASSUME Inv, UpdateTile \/ Leave \/ UNCHANGED vars PROVE Inv'
<1>1. /\ turn' \in {turn, "letters"} /\ state' \in {state, "left"}
      /\ UNCHANGED <<ioMode, mode, line, last, just, hidden, script, held, owed,
                     relayed, gained, ignored, scripted, typed>>
  BY DEF UpdateTile, Leave, vars, modes, chat, points, turns, keys
<1>2. QED
  BY <1>1 DEF Inv, TypeOK, ModesExclusive, PointsBothWays, CommandTyped,
     TypedIsJust

(* Every step of the console keeps the invariant.                          *)
LEMMA StepHolds == ASSUME ConsoleConstants, Inv, [Next]_vars PROVE Inv'
BY KeyPressedStep, KeyReleasedStep, TextEnteredStep, MouseReleasedStep,
   UpdateTurnStep, OtherStep DEF Next, Step

(* The console starts in the invariant.                                    *)
LEMMA InitHolds == ASSUME ConsoleConstants, Init PROVE Inv
<1>1. {just, hidden, script, scripted, typed} \subseteq BOOLEAN /\ last \in Actions
  BY DEF Init, Actions
<1>2. held \subseteq Keys /\ owed \in TextKeys \cup {NoKey} /\ relayed \in 0..MaxPoints
  BY DEF Init, ConsoleConstants
<1>3. TypeOK
  BY <1>1, <1>2 DEF Init, TypeOK
<1>4. QED
  BY <1>3 DEF Init, Inv, ModesExclusive, PointsBothWays, CommandTyped,
     TypedIsJust

-----------------------------------------------------------------------------
(* The theorems.                                                           *)

(* Every reachable state of the console satisfies the inductive invariant. *)
THEOREM Invariance == ASSUME ConsoleConstants PROVE Spec => []Inv
<1>1. Init => Inv
  BY InitHolds
<1>2. Inv /\ [Next]_vars => Inv'
  BY StepHolds
<1>3. QED BY <1>1, <1>2, PTL DEF Spec

(* Every variable keeps its type, for any commands, scripts and bounds.    *)
THEOREM TypeCorrect == ASSUME ConsoleConstants PROVE Spec => []TypeOK
<1>1. Inv => TypeOK
  BY DEF Inv
<1>2. QED BY <1>1, Invariance, PTL

(* What is typed goes to the chat or to a cell, never to both              *)
(* (context.cpp:187, 199).                                                 *)
THEOREM OneModeAtATime == ASSUME ConsoleConstants PROVE Spec => []ModesExclusive
<1>1. Inv => ModesExclusive
  BY DEF Inv
<1>2. QED BY <1>1, Invariance, PTL

(* Points are given here only as the others are told, and without scripts  *)
(* all of them, once, but for those of a player who is unknown here        *)
(* (context.cpp:192-194, 271-275; game_io.cpp:69, 298).                    *)
THEOREM PointsGivenAsTold == ASSUME ConsoleConstants PROVE Spec => []PointsBothWays
<1>1. Inv => PointsBothWays
  BY DEF Inv
<1>2. QED BY <1>1, Invariance, PTL

(* A letter typed into a cell is not also the hot key                      *)
(* (context.cpp:211-217).                                                  *)
THEOREM LetterIsNoHotKey == ASSUME ConsoleConstants PROVE Spec => HotKeySpared
<1>1. ASSUME Inv, [Next]_vars PROVE hidden' # hidden => ~typed
  <2>1. CASE \E k \in Keys : KeyReleased(k)
    BY <1>1, <2>1 DEF KeyReleased, KeyReleasedInChat, KeyReleasedInGame, Inv,
       TypedIsJust
  <2>2. CASE ~\E k \in Keys : KeyReleased(k)
    BY <1>1, <2>2 DEF Next, Step, KeyPressed, TextEntered, MouseReleased,
       UpdateTurn, UpdateTile, Leave, vars
  <2>3. QED BY <2>1, <2>2
<1>2. Inv /\ [Next]_vars => [hidden' # hidden => ~typed]_vars
  BY <1>1
<1>3. QED BY <1>2, Invariance, PTL DEF Spec, HotKeySpared
=============================================================================
