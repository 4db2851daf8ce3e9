-------------------------------- MODULE Game --------------------------------
(***************************************************************************)
(* The replicated game: one GameContext per player (src/src/context.cpp),  *)
(* kept alike only by the updates the players send each other.  The server *)
(* is what Server proves it to be, a broadcast: an update is appended, at  *)
(* once, to the inbox of everyone else connected, in the same order for    *)
(* all.  A player applies its own updates when it makes them and those of  *)
(* the others when GameContext::update polls them, one per frame.          *)
(*                                                                         *)
(* The score of a turn is the number of its letters: what the board makes  *)
(* of them is a function of the letters, the board and the loaded scores   *)
(* of letters.  There is one file of scores; a player may type characters  *)
(* that it lacks, a space or a digit.  The layout is in Board, the drawing *)
(* of tiles in Hands, and chat, scripts, "/push" and the window in         *)
(* Console.                                                                *)
(***************************************************************************)
EXTENDS Integers, Sequences, FiniteSets

CONSTANTS Players,     \* the players, by their names
          NoPlayer,    \* no host, or no turn
          Leavers,     \* the players who may leave
          Moves,       \* what players do: a subset of the moves below
          Typed,       \* the characters they type, as Characters tells them apart
          Points,      \* the differences they give
          HolderOnly,  \* players act by the rules below MayMove
          MaxMoves     \* bound: moves in a game

AllMoves == {"scores", "turn", "tile", "points"}

(* A character is 1 if the file of scores has it, and else 0.              *)
Characters == {0, 1}

ASSUME GameAssumption ==
  /\ NoPlayer \notin Players
  /\ Leavers \subseteq Players
  /\ Moves \subseteq AllMoves
  /\ Typed \subseteq Characters
  /\ Points \subseteq Int
  /\ HolderOnly \in BOOLEAN
  /\ MaxMoves \in Nat

VARIABLES
  phase,   \* away, connected, playing, crashed or gone
  online,  \* who the server relays to
  host,    \* the server's host_
  inbox,   \* updates relayed to a player and not applied
  isHost,  \* is_host_
  roster,  \* the keys of players_
  scored,  \* the letters have scores: board_.scores_ is not empty
  strange, \* a character without a score is "on" the board, or in the "turn"
  score,   \* my_score_, and the values of players_
  turn,    \* turn_: whose, and how many letters were placed
  moves,   \* moves made so far
  hosts    \* history: everyone the server ever made host

local  == <<isHost, roster, scored, strange, score, turn>>
vars   == <<phase, online, host, inbox, local, moves, hosts>>

NoTurn == [player |-> NoPlayer, letters |-> 0]

(* The updates.  About a player, or a list of players, or with a value:    *)
(* the points given, or the character of a tile.  "noscores" is what       *)
(* "/charsc" sends of a file that it cannot open or parse.                 *)
Valued(kind, player, value) ==
  [kind |-> kind, player |-> player, players |-> {}, value |-> value]
Message(kind, player) == Valued(kind, player, 0)
Playerlist(names)     == [Message("playerlist", NoPlayer) EXCEPT !.players = names]
Kinds == {"host", "join", "disconnect", "playerlist", "turn", "tile", "points", "charscores",
          "noscores"}

Init ==
  /\ phase = [p \in Players |-> "away"]
  /\ online = {}
  /\ host = NoPlayer
  /\ inbox = [p \in Players |-> <<>>]
  /\ isHost = [p \in Players |-> FALSE]
  /\ roster = [p \in Players |-> {}]
  /\ scored = [p \in Players |-> FALSE]
  /\ strange = [p \in Players |-> "none"]
  /\ score = [p \in Players |-> [q \in Players |-> 0]]
  /\ turn = [p \in Players |-> NoTurn]
  /\ moves = 0
  /\ hosts = {}

-----------------------------------------------------------------------------
(* The broadcast: m goes to everyone online but p.                         *)
Relay(boxes, p, m) ==
  [q \in Players |-> IF q \in online \ {p} THEN Append(boxes[q], m) ELSE boxes[q]]

Publish(p, m) == inbox' = Relay(inbox, p, m)

(* The update polled is the first in the inbox.                            *)
Polled(p) == [inbox EXCEPT ![p] = Tail(@)]
Received(p, kind) ==
  /\ phase[p] = "playing"
  /\ inbox[p] # <<>>
  /\ Head(inbox[p]).kind = kind

Known(p) == roster[p] \cup {p}

(* set_tile before it tracked turns for the updates of others.             *)
OnlyOwnTiles(p, char) == \* mutant
  /\ turn' = IF turn[p].player # p THEN turn ELSE [turn EXCEPT ![p].letters = @ + 1]
  /\ UNCHANGED strange

(* set_tile: a tile on the board counts for the turn, if there is one.     *)
SetTile(p, char) ==
  /\ turn' = IF turn[p].player = NoPlayer THEN turn ELSE [turn EXCEPT ![p].letters = @ + 1]
  /\ strange' = IF char = 1 THEN strange
                ELSE [strange EXCEPT ![p] = IF turn[p].player = NoPlayer THEN "on" ELSE "turn"]

(* add_points to a player who may not exist.                               *)
AddPoints(p, q, diff) ==
  score' = IF q \in Known(p) THEN [score EXCEPT ![p][q] = @ + diff] ELSE score

(* do_turn: end_turn counts the letters of the turn so far, but looks each *)
(* up with map_.at and the player of the turn with players_.at, which      *)
(* throw if the letter has no score or the player is not there.  So do     *)
(* those before them that their words touch.  Nothing catches the          *)
(* exception.                                                              *)
NoScoreOf(p) == ~scored[p] \/ strange[p] = "turn"
Throws(p) == turn[p].letters > 0 /\ (NoScoreOf(p) \/ turn[p].player \notin Known(p))
MayThrow(p) == Throws(p) \/ (turn[p].letters > 0 /\ strange[p] = "on")

EndTurn(p) ==
  IF turn[p].letters = 0 THEN score
  ELSE [score EXCEPT ![p][turn[p].player] = @ + turn[p].letters]

DoTurn(p, q) ==
  \/ /\ MayThrow(p)
     /\ phase' = [phase EXCEPT ![p] = "crashed"]
     /\ UNCHANGED <<score, turn>>
  \/ /\ ~Throws(p)
     /\ score' = EndTurn(p)
     /\ turn' = [turn EXCEPT ![p] = [player |-> q, letters |-> 0]]
     /\ UNCHANGED phase

-----------------------------------------------------------------------------
(* Connections.                                                            *)

AlwaysClaims == TRUE \* mutant
Claims == host = NoPlayer

(* The server accepts p and makes it host if there is none.                *)
Connect(p) ==
  /\ phase[p] = "away"
  /\ phase' = [phase EXCEPT ![p] = "connected"]
  /\ online' = online \cup {p}
  /\ host' = IF Claims THEN p ELSE host
  /\ hosts' = IF Claims THEN hosts \cup {p} ELSE hosts
  /\ inbox' = [inbox EXCEPT ![p] = IF Claims THEN <<Message("host", p)>> ELSE <<>>]
  /\ UNCHANGED <<local, moves>>

(* GameContext::init announces the player.                                 *)
Join(p) ==
  /\ phase[p] = "connected"
  /\ phase' = [phase EXCEPT ![p] = "playing"]
  /\ Publish(p, Message("join", p))
  /\ UNCHANGED <<online, host, local, moves, hosts>>

(* A player closes the window or is cut off, or has crashed; the server    *)
(* tells the others, and forgets its host.                                 *)
Leave(p) ==
  /\ p \in online
  /\ p \in Leavers \/ phase[p] = "crashed"
  /\ phase' = [phase EXCEPT ![p] = "gone"]
  /\ online' = online \ {p}
  /\ host' = IF host = p THEN NoPlayer ELSE host
  /\ inbox' = [Relay(inbox, p, Message("disconnect", p)) EXCEPT ![p] = <<>>]
  /\ UNCHANGED <<local, moves, hosts>>

-----------------------------------------------------------------------------
(* GameContext::update, one action for each kind of update.                *)

UpdateHost(p) ==
  /\ Received(p, "host")
  /\ isHost' = [isHost EXCEPT ![p] = TRUE]
  /\ inbox' = Polled(p)
  /\ UNCHANGED <<phase, online, host, roster, score, turn, scored, strange, moves, hosts>>

(* A player has joined: the host sends everyone the list of players, after *)
(* it has added the new one.                                               *)
ListWithoutHost(p, q) == roster[p] \cup {q} \* mutant
ListWith(p, q) == Known(p) \cup {q}

UpdateJoin(p) ==
  /\ Received(p, "join")
  /\ LET q == Head(inbox[p]).player IN
       /\ roster' = [roster EXCEPT ![p] = @ \cup {q}]
       /\ inbox' = IF isHost[p] THEN Relay(Polled(p), p, Playerlist(ListWith(p, q)))
                                ELSE Polled(p)
  /\ UNCHANGED <<phase, online, host, isHost, score, turn, scored, strange, moves, hosts>>

(* players_.erase: the score goes with the player.                         *)
StillThere(p, q) == roster[p] \* mutant
Without(p, q) == roster[p] \ {q}

UpdateDisconnect(p) ==
  /\ Received(p, "disconnect")
  /\ LET q == Head(inbox[p]).player IN
       /\ roster' = [roster EXCEPT ![p] = Without(p, q)]
       /\ score' = [score EXCEPT ![p][q] = 0]
  /\ inbox' = Polled(p)
  /\ UNCHANGED <<phase, online, host, isHost, turn, scored, strange, moves, hosts>>

UpdatePlayerlist(p) ==
  /\ Received(p, "playerlist")
  /\ roster' = [roster EXCEPT ![p] = @ \cup (Head(inbox[p]).players \ {p})]
  /\ inbox' = Polled(p)
  /\ UNCHANGED <<phase, online, host, isHost, score, turn, scored, strange, moves, hosts>>

UpdatePoints(p) ==
  /\ Received(p, "points")
  /\ AddPoints(p, Head(inbox[p]).player, Head(inbox[p]).value)
  /\ inbox' = Polled(p)
  /\ UNCHANGED <<phase, online, host, isHost, roster, turn, scored, strange, moves, hosts>>

UpdateTurn(p) ==
  /\ Received(p, "turn")
  /\ DoTurn(p, Head(inbox[p]).player)
  /\ inbox' = Polled(p)
  /\ UNCHANGED <<online, host, isHost, roster, scored, strange, moves, hosts>>

UpdateTile(p) ==
  /\ Received(p, "tile")
  /\ SetTile(p, Head(inbox[p]).value)
  /\ inbox' = Polled(p)
  /\ UNCHANGED <<phase, online, host, isHost, roster, score, scored, moves, hosts>>

(* from_json adds the scores that there are to those from before.          *)
UpdateCharscores(p) ==
  /\ \E kind \in {"charscores", "noscores"} :
       /\ Received(p, kind)
       /\ scored' = [scored EXCEPT ![p] = @ \/ kind = "charscores"]
  /\ inbox' = Polled(p)
  /\ UNCHANGED <<phase, online, host, isHost, roster, strange, score, turn, moves, hosts>>

-----------------------------------------------------------------------------
(* What a player does.                                                     *)

(* Nothing in the program keeps two players from acting at once.  The      *)
(* rules a table keeps to: when everyone is there the host loads the       *)
(* scores of letters, then starts the first turn, and another when the     *)
(* player whose turn it is has left; else only the player whose turn it is *)
(* places tiles and passes the turn on.                                    *)
Prepares(p) == isHost[p] /\ ~scored[p] /\ Known(p) = Players
Begins(p) ==
  /\ isHost[p]
  /\ \/ turn[p].player = NoPlayer /\ scored[p] /\ Known(p) = Players
     \/ turn[p].player # NoPlayer /\ turn[p].player \notin Known(p)
Holds(p)  == turn[p].player = p

MayMove(p, move) ==
  /\ phase[p] = "playing"
  /\ move \in Moves
  /\ moves < MaxMoves
  /\ HolderOnly => \/ Holds(p)
                   \/ move = "scores" /\ Prepares(p)
                   \/ move = "turn" /\ Begins(p)
                   \/ move = "points" /\ turn[p].player # NoPlayer

(* "/charsc=file".  A file that cannot be opened or parsed has no scores,  *)
(* which is what it adds, and what the others are sent: is_error, which    *)
(* looks for a key, does not recognise the array {OpenError}.              *)
LoadScores(p, kind) ==
  /\ MayMove(p, "scores")
  /\ kind \in {"charscores", "noscores"}
  /\ scored' = [scored EXCEPT ![p] = @ \/ kind = "charscores"]
  /\ Publish(p, Message(kind, NoPlayer))
  /\ moves' = moves + 1
  /\ UNCHANGED <<phase, online, host, isHost, roster, strange, score, turn, hosts>>

(* "/turn=q", for a player maybe_command finds.  If do_turn throws, the    *)
(* update it follows may have gone out or not: another thread sends it.    *)
StartTurn(p, q) ==
  /\ MayMove(p, "turn")
  /\ q \in Known(p)
  /\ DoTurn(p, q)
  /\ \/ Publish(p, Message("turn", q))
     \/ phase' # phase /\ UNCHANGED inbox
  /\ moves' = moves + 1
  /\ UNCHANGED <<online, host, isHost, roster, scored, strange, hosts>>

(* A character typed into a cell.                                          *)
PlaceTile(p, char) ==
  /\ MayMove(p, "tile")
  /\ SetTile(p, char)
  /\ Publish(p, Valued("tile", NoPlayer, char))
  /\ moves' = moves + 1
  /\ UNCHANGED <<phase, online, host, isHost, roster, score, scored, hosts>>

(* "/points=q=diff".                                                       *)
GivePoints(p, q, diff) ==
  /\ MayMove(p, "points")
  /\ diff # 0
  /\ Publish(p, Valued("points", q, diff))
  /\ AddPoints(p, q, diff)
  /\ moves' = moves + 1
  /\ UNCHANGED <<phase, online, host, isHost, roster, turn, scored, strange, hosts>>

Update(p) == \/ UpdateHost(p) \/ UpdateJoin(p) \/ UpdateDisconnect(p)
             \/ UpdatePlayerlist(p) \/ UpdatePoints(p) \/ UpdateTurn(p) \/ UpdateTile(p)
             \/ UpdateCharscores(p)

Move(p) == \/ \E char \in Typed : PlaceTile(p, char)
           \/ \E kind \in Kinds : LoadScores(p, kind)
           \/ \E q \in Players : \/ StartTurn(p, q)
                                 \/ \E diff \in Points : GivePoints(p, q, diff)

Next == \E p \in Players : Connect(p) \/ Join(p) \/ Leave(p) \/ Update(p) \/ Move(p)

(* The loop of the program polls an update in every frame.                 *)
Fairness == \A p \in Players : WF_vars(Update(p))

Spec == Init /\ [][Next]_vars
FairSpec == Spec /\ Fairness

-----------------------------------------------------------------------------
(* Properties.                                                             *)

Messages == [kind : Kinds, player : Players \cup {NoPlayer}, players : SUBSET Players,
             value : Int]

(* Every variable has its type; a score may fall below nothing             *)
(* (context.cpp:263-279).                                                  *)
TypeOK ==
  /\ phase \in [Players -> {"away", "connected", "playing", "crashed", "gone"}]
  /\ online \subseteq Players
  /\ host \in Players \cup {NoPlayer}
  /\ inbox \in [Players -> Seq(Messages)]
  /\ isHost \in [Players -> BOOLEAN]
  /\ roster \in [Players -> SUBSET Players]
  /\ scored \in [Players -> BOOLEAN]
  /\ strange \in [Players -> {"none", "on", "turn"}]
  /\ score \in [Players -> [Players -> Int]]
  /\ turn \in [Players -> {NoTurn} \cup [player : Players, letters : Nat]]
  /\ moves \in 0 .. MaxMoves
  /\ hosts \subseteq Players

Playing == {p \in Players : phase[p] = "playing"}
UpToDate == {p \in Playing : inbox[p] = <<>>}

(* Of the players online at most one acts as the host, or is about to.     *)
ToldHost(p) == \/ isHost[p]
               \/ \E i \in DOMAIN inbox[p] : inbox[p][i].kind = "host"
OneHost == \A p, q \in online : ToldHost(p) /\ ToldHost(q) => p = q

(* While the first host stays, its list of players is exact whenever it    *)
(* has no update left to apply.                                            *)
HostRosterExact == \A h \in UpToDate :
  hosts = {h} => roster[h] = {q \in Players : phase[q] \in {"playing", "crashed"}} \ {h}

(* While the first host stays, players who have applied all their updates  *)
(* miss no one, once the host plays: its list and the joins between them   *)
(* reach everyone, in whatever order players join.  (A list may name a     *)
(* player who has left since: the other direction does not hold.)          *)
NobodyMissing ==
  hosts \subseteq Playing /\ Playing = UpToDate =>
    \A p, q \in Playing : q \in Known(p)

(* Players who keep the rules of HolderOnly and have applied all their     *)
(* updates have the same turn, and the same scores of everyone who plays,  *)
(* though each has computed them alone and from its own mixture of moves   *)
(* and updates, whoever left and whoever is host by now.  (Of a player who *)
(* has left, those may keep a score whom a late list told of it again.)    *)
ScoresAgree == \A p, q \in UpToDate :
  turn[p] = turn[q] /\ \A r \in Playing : score[p][r] = score[q][r]

(* No player's program dies of an update or a command.                     *)
NoCrash == \A p \in Players : phase[p] # "crashed"

(* By the rules of HolderOnly it does only if someone has left or the dead *)
(* player's board has a character without a score: what a turn ends with   *)
(* is else there, the scores of letters and the player of the turn.  (The  *)
(* rules have everyone join before the scores are loaded: who joins later  *)
(* has none.)                                                              *)
CrashHasCause == \A p \in Players :
  phase[p] = "crashed" => strange[p] # "none" \/ \E q \in Players : phase[q] = "gone"

(* While the first host plays, everyone who stays comes to know everyone   *)
(* else who stays.                                                         *)
JoinersMeet == \A p, q \in Players :
  {p, q} \subseteq Playing ~>
    (q \in Known(p) \/ ~({p, q} \cup hosts \subseteq Playing))
=============================================================================
