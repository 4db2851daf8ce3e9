------------------------------- MODULE Hands -------------------------------
(***************************************************************************)
(* The bag of tiles, the hands of the players and the setting that decides *)
(* whether a hand binds its player (GameIO, Settings, and the part of      *)
(* GameContext::update that is about them).  There is no bag but each      *)
(* player's copy of it, charset_: who draws tiles takes them from its own  *)
(* copy and sends what is left to all others, who replace theirs.          *)
(*                                                                         *)
(* As in Game the server is a broadcast.  Tiles are told apart, and a hand *)
(* is a bag of them, for two players may come to hold the same tile.       *)
(***************************************************************************)
EXTENDS Naturals, Sequences, FiniteSets, FiniteSetsExt, Functions

CONSTANTS Players,
          Tiles,     \* the tiles a charset may hold
          Charsets,  \* what files of charsets hold
          Numbers,   \* the numbers of tiles players ask for
          Commands,  \* what players do: a subset of AllCommands
          MaxMoves   \* bound: commands given and tiles played

AllCommands == {"charset", "draw", "drawtill", "drawtillall", "push", "config", "play"}

ASSUME HandsAssumption ==
  /\ Charsets \subseteq SUBSET Tiles
  /\ Numbers \subseteq Nat \ {0}
  /\ Commands \subseteq AllCommands
  /\ MaxMoves \in Nat

VARIABLES
  phase,     \* away, playing, or ended
  inbox,     \* updates relayed to a player and not applied
  charset,   \* charset_
  hand,      \* hand_: how many of each tile
  enforce,   \* the option enforce_hand: "unset", "on" or "off"
  spent,     \* history: tiles played from a hand
  bag,       \* history: the charset last published
  informed,  \* history: who was there when it was, and may have it
  loads,     \* history: charsets loaded
  careless,  \* history: a charset was published from a copy not up to date,
             \* or a second one was loaded
  supplied,  \* history: who has loaded a charset, or been sent one
  wiped,     \* history: one was published by a player who never had one,
             \* or a second one was loaded
  rule,      \* history: the setting last published,
  told,      \*   who was there then,
  disputed,  \*   and whether settings were given at once, or not understood
  moves

bagHistory  == <<bag, informed, loads, careless, supplied, wiped>>
ruleHistory == <<rule, told, disputed>>
vars == <<phase, inbox, charset, hand, enforce, spent, bagHistory, ruleHistory, moves>>

Online == {p \in Players : phase[p] = "playing"}

NoHand == [t \in Tiles |-> 0]

CharsetUpdate(tiles) == [kind |-> "charset", tiles |-> tiles, number |-> 0, value |-> "unset"]
DrawTillUpdate(n)    == [kind |-> "drawtill", tiles |-> {}, number |-> n, value |-> "unset"]
SettingUpdate(v)     == [kind |-> "setting", tiles |-> {}, number |-> 0, value |-> v]

Init ==
  /\ phase = [p \in Players |-> "away"]
  /\ inbox = [p \in Players |-> <<>>]
  /\ charset = [p \in Players |-> {}]
  /\ hand = [p \in Players |-> NoHand]
  /\ enforce = [p \in Players |-> "unset"]
  /\ spent = NoHand
  /\ bag = {}
  /\ informed = {}
  /\ loads = {}
  /\ careless = FALSE
  /\ supplied = {}
  /\ wiped = FALSE
  /\ rule = "unset"
  /\ told = {}
  /\ disputed = FALSE
  /\ moves = 0

-----------------------------------------------------------------------------
(* The broadcast.                                                          *)

Relay(boxes, p, m) ==
  [q \in Players |-> IF q \in Online \ {p} THEN Append(boxes[q], m) ELSE boxes[q]]

Polled(p) == [inbox EXCEPT ![p] = Tail(@)]
Received(p, kind) ==
  /\ phase[p] = "playing"
  /\ inbox[p] # <<>>
  /\ Head(inbox[p]).kind = kind

Pending(p, kind) == \E i \in DOMAIN inbox[p] : inbox[p][i].kind = kind

(* A copy of the bag is up to date if it is what was last published: the   *)
(* player was there, and has no other on the way.                          *)
UpToDate(p) == p \in informed /\ ~Pending(p, "charset")

(* What publishing the tiles left by p is to the history of the bag.       *)
Published(p, tiles) ==
  /\ bag' = tiles
  /\ informed' = Online
  /\ careless' = (careless \/ ~UpToDate(p))
  /\ wiped' = (wiped \/ p \notin supplied)

-----------------------------------------------------------------------------
(* Drawing.                                                                *)

HandSize(p) == FoldFunction(LAMBDA n, sum : n + sum, 0, hand[p])

(* select_randomly_destructively with its test one too low.                *)
SelectionsToTheLast(p, n) == \* mutant
  IF n > Cardinality(charset[p]) THEN {{}} ELSE kSubset(n, charset[p])

(* select_randomly_destructively: nothing at all if as many tiles are      *)
(* asked for as there are, or more.                                        *)
Selections(p, n) ==
  IF n >= Cardinality(charset[p]) THEN {{}} ELSE kSubset(n, charset[p])

(* What is left of the copy: if the tiles drawn were not erased, or if     *)
(* tiles were erased before it is known that there are enough of them.     *)
NothingErased(p, tiles) == charset[p] \* mutant
ErasedAnyway(p, tiles)  == IF tiles = {} THEN {} ELSE charset[p] \ tiles \* mutant
Left(p, tiles)          == charset[p] \ tiles

(* What draw_tiles sends, and would if it sent it first.                   *)
SentFirst(p, tiles) == CharsetUpdate(charset[p]) \* mutant
CharsetSent(p, tiles) == CharsetUpdate(Left(p, tiles))

(* draw_tiles(n), n > 0, of which the tiles drawn are left to chance.  The *)
(* copy goes out, with a message after it if there is one.                 *)
DrawTiles(p, n, boxes, after) == \E tiles \in Selections(p, n) :
  /\ hand' = [hand EXCEPT ![p] = [t \in Tiles |-> @[t] + (IF t \in tiles THEN 1 ELSE 0)]]
  /\ charset' = [charset EXCEPT ![p] = Left(p, tiles)]
  /\ LET sent == Relay(boxes, p, CharsetSent(p, tiles))
     IN inbox' = IF after = <<>> THEN sent ELSE Relay(sent, p, after[1])
  /\ Published(p, Left(p, tiles))

NoDraw == UNCHANGED <<hand, charset, bag, informed, careless, wiped>>

-----------------------------------------------------------------------------
(* Commands.                                                               *)

MayMove(p, command) ==
  /\ phase[p] = "playing"
  /\ command \in Commands
  /\ moves < MaxMoves
  /\ moves' = moves + 1

(* "/charset=file": load_charset.  A second one puts tiles that have been  *)
(* drawn back into the bag, and reaches who has drawn from the first: for  *)
(* the histories it is as one published from a copy that is not up to date *)
(* (careless), and the tiles of the first that nobody drew are lost to     *)
(* those it reaches (wiped).                                               *)
LoadCharset(p, tiles) ==
  /\ MayMove(p, "charset")
  /\ charset' = [charset EXCEPT ![p] = tiles]
  /\ inbox' = Relay(inbox, p, CharsetUpdate(tiles))
  /\ bag' = tiles
  /\ informed' = Online
  /\ careless' = (careless \/ loads # {} \/ Pending(p, "charset"))
  /\ loads' = loads \cup {tiles}
  /\ supplied' = supplied \cup {p}
  /\ wiped' = (wiped \/ loads # {})
  /\ UNCHANGED <<phase, hand, enforce, spent, ruleHistory>>

(* "/draw=n".                                                              *)
Draw(p, n) ==
  /\ MayMove(p, "draw")
  /\ DrawTiles(p, n, inbox, <<>>)
  /\ UNCHANGED <<phase, enforce, spent, loads, supplied, ruleHistory>>

(* "/drawtill=n".                                                          *)
DrawTill(p, n) ==
  /\ MayMove(p, "drawtill")
  /\ n > HandSize(p)
  /\ DrawTiles(p, n - HandSize(p), inbox, <<>>)
  /\ UNCHANGED <<phase, enforce, spent, loads, supplied, ruleHistory>>

(* "/drawtillall=n": the player draws, and tells the others to.            *)
DrawTillAll(p, n) ==
  /\ MayMove(p, "drawtillall")
  /\ \/ /\ n > HandSize(p)
        /\ DrawTiles(p, n - HandSize(p), inbox, <<DrawTillUpdate(n)>>)
     \/ /\ n <= HandSize(p)
        /\ inbox' = Relay(inbox, p, DrawTillUpdate(n))
        /\ NoDraw
  /\ UNCHANGED <<phase, enforce, spent, loads, supplied, ruleHistory>>

(* "/push" sends the charset, and ends the program of the player (Console  *)
(* says why), whose other thread may have sent it or not.                  *)
Push(p) ==
  /\ MayMove(p, "push")
  /\ \/ /\ inbox' = [Relay(inbox, p, CharsetUpdate(charset[p])) EXCEPT ![p] = <<>>]
        /\ Published(p, charset[p])
     \/ /\ inbox' = [inbox EXCEPT ![p] = <<>>]
        /\ UNCHANGED <<bag, informed, careless, wiped>>
  /\ phase' = [phase EXCEPT ![p] = "ended"]
  /\ UNCHANGED <<charset, hand, enforce, spent, loads, supplied, ruleHistory>>

(* Settings::load_command for enforce_hand.  load_default makes the option *)
(* true before the value is read; a value that is neither yes nor no is    *)
(* not taken, and the command not relayed, but the default stays.          *)
Values == {"on", "off", "neither"}
TakenAsIs(v)  == TRUE \* mutant
Understood(v) == v # "neither"

(* With insert where the code assigns.                                     *)
LoadCommandOnce(p, v) == \* mutant
  [enforce EXCEPT ![p] = IF @ = "unset" /\ Understood(v) THEN v
                         ELSE IF @ = "unset" THEN "on" ELSE @]
LoadCommand(p, v) ==
  [enforce EXCEPT ![p] = IF Understood(v) THEN v
                         ELSE IF @ = "unset" THEN "on" ELSE @]

(* "/config.enforce_hand=v".                                               *)
Config(p, v) ==
  /\ MayMove(p, "config")
  /\ enforce' = LoadCommand(p, v)
  /\ inbox' = IF Understood(v) THEN Relay(inbox, p, SettingUpdate(v)) ELSE inbox
  /\ rule' = IF Understood(v) THEN v ELSE rule
  /\ told' = IF Understood(v) THEN Online ELSE told
  /\ disputed' = (disputed \/ Pending(p, "setting") \/ ~Understood(v))
  /\ UNCHANGED <<phase, charset, hand, spent, bagHistory>>

(* get_default(enforce_hand, false).                                       *)
Enforced(p) == enforce[p] = "on"

(* parse_text_entered with a cell chosen: the letter goes on the board, to *)
(* all, and out of the hand if it is there.  (The letter itself is Game's, *)
(* Board's and Console's business.)                                        *)
PlayTile(p, t) == hand' = [hand EXCEPT ![p][t] = @ - 1]

Play(p, t) ==
  /\ MayMove(p, "play")
  /\ hand[p][t] = 0 => ~Enforced(p)
  /\ \/ /\ hand[p][t] > 0
        /\ PlayTile(p, t)
        /\ spent' = [spent EXCEPT ![t] = @ + 1]
     \/ /\ hand[p][t] = 0
        /\ UNCHANGED <<hand, spent>>
  /\ UNCHANGED <<phase, inbox, charset, enforce, bagHistory, ruleHistory>>

-----------------------------------------------------------------------------
(* Updates.                                                                *)

Connect(p) ==
  /\ phase[p] = "away"
  /\ phase' = [phase EXCEPT ![p] = "playing"]
  /\ UNCHANGED <<inbox, charset, hand, enforce, spent, bagHistory, ruleHistory, moves>>

UpdateCharset(p) ==
  /\ Received(p, "charset")
  /\ charset' = [charset EXCEPT ![p] = Head(inbox[p]).tiles]
  /\ supplied' = supplied \cup {p}
  /\ inbox' = Polled(p)
  /\ UNCHANGED <<phase, hand, enforce, spent, bag, informed, loads, careless, wiped,
                 ruleHistory, moves>>

(* The others draw when they are told to, each from its own copy.          *)
UpdateDrawTill(p) ==
  /\ Received(p, "drawtill")
  /\ LET n == Head(inbox[p]).number IN
       \/ /\ n > HandSize(p)
          /\ DrawTiles(p, n - HandSize(p), Polled(p), <<>>)
       \/ /\ n <= HandSize(p)
          /\ inbox' = Polled(p)
          /\ NoDraw
  /\ UNCHANGED <<phase, enforce, spent, loads, supplied, ruleHistory, moves>>

UpdateSetting(p) ==
  /\ Received(p, "setting")
  /\ enforce' = LoadCommand(p, Head(inbox[p]).value)
  /\ inbox' = Polled(p)
  /\ UNCHANGED <<phase, charset, hand, spent, bagHistory, ruleHistory, moves>>

Update(p) == UpdateCharset(p) \/ UpdateDrawTill(p) \/ UpdateSetting(p)

Command(p) ==
  \/ \E tiles \in Charsets : LoadCharset(p, tiles)
  \/ \E n \in Numbers : Draw(p, n) \/ DrawTill(p, n) \/ DrawTillAll(p, n)
  \/ Push(p)
  \/ \E v \in Values : Config(p, v)
  \/ \E t \in Tiles : Play(p, t)

Next == \E p \in Players : Connect(p) \/ Update(p) \/ Command(p)

Spec == Init /\ [][Next]_vars

-----------------------------------------------------------------------------
(* Properties.                                                             *)

Messages == [kind : {"charset", "drawtill", "setting"}, tiles : SUBSET Tiles,
             number : Nat, value : {"unset"} \cup Values]

(* Every variable has its type: a setting that was not understood is       *)
(* neither kept nor relayed (settings.cpp:43-70).                          *)
TypeOK ==
  /\ phase \in [Players -> {"away", "playing", "ended"}]
  /\ inbox \in [Players -> Seq(Messages)]
  /\ charset \in [Players -> SUBSET Tiles]
  /\ hand \in [Players -> [Tiles -> Nat]]
  /\ enforce \in [Players -> {"unset", "on", "off"}]
  /\ spent \in [Tiles -> Nat]
  /\ bag \in SUBSET Tiles
  /\ informed \in SUBSET Players
  /\ loads \in SUBSET Charsets
  /\ careless \in BOOLEAN
  /\ supplied \in SUBSET Players
  /\ wiped \in BOOLEAN
  /\ rule \in {"unset", "on", "off"}
  /\ told \in SUBSET Players
  /\ disputed \in BOOLEAN
  /\ moves \in Nat

(* While nobody publishes from a copy that is not up to date, nor loads a  *)
(* second charset, the copies that are agree: every drawing reaches        *)
(* everyone, whole and in order.                                           *)
CopiesAgree == ~careless => \A p \in informed \cap Online : UpToDate(p) => charset[p] = bag

(* And then every tile loaded is in one place: in the bag, in one hand, or *)
(* played.  (Two players who draw at once draw the same tile: each from    *)
(* its own copy.)                                                          *)
Undrawn(t) == \A p \in Players : hand[p][t] = 0
HeldOnce(t) == \E p \in Players :
  hand[p][t] = 1 /\ \A q \in Players \ {p} : hand[q][t] = 0
TilesOnce == ~careless =>
  \A t \in UNION loads :
    \/ t \in bag    /\ Undrawn(t)  /\ spent[t] = 0
    \/ t \notin bag /\ HeldOnce(t) /\ spent[t] = 0
    \/ t \notin bag /\ Undrawn(t)  /\ spent[t] = 1

(* Whoever draws, at whatever time, no tile is lost: one that nobody has   *)
(* drawn is in the copy of everyone who has one.  (Not so if a player who  *)
(* was never sent a charset draws, who sends everyone the empty one, nor   *)
(* once a second charset is loaded over the first.)                        *)
Held(t) == spent[t] > 0 \/ \E p \in Players : hand[p][t] > 0
NothingLost == ~wiped =>
  \A t \in UNION loads :
    Held(t) \/ \A p \in informed \cap Online : UpToDate(p) => t \in charset[p]

(* Players who were there when a setting was last given, and have applied  *)
(* it, go by it, unless two were given at once or one was not understood.  *)
SettingsAgree == ~disputed =>
  \A p \in told \cap Online : ~Pending(p, "setting") => enforce[p] = rule
=============================================================================
