----------------------------- MODULE GameProofs -----------------------------
(***************************************************************************)
(* Theorems about Game for any number of players, moves and leavers: every *)
(* variable keeps its type; of the players online at most one is the host  *)
(* or is about to become it; while the first host stays its list is exact  *)
(* and nobody is missing from anyone's, once up to date; and players who   *)
(* keep the rules of HolderOnly kill no program before one of them leaves, *)
(* and agree on the turn and on the scores whenever they are up to date.   *)
(*                                                                         *)
(* That there is one host is not inductive: the server decides it when a   *)
(* player connects, and the player knows it only when it has applied the   *)
(* update.  HostTold ties all players who have been told to the host_ of   *)
(* the server, which is one.                                               *)
(*                                                                         *)
(* The lists are exact only when no update is left, so the invariant Met   *)
(* says what the updates on their way will make of them: Listed of the     *)
(* host, and Introduced of everyone else, who learns of a player from the  *)
(* player's join or from the host's answer to its own.                     *)
(*                                                                         *)
(* Scores of letters and the player of a turn are looked up where a turn   *)
(* ends: Fair says that before anything of a game can happen everyone has  *)
(* joined and is named to everyone (AllThere), and that every inbox keeps  *)
(* names and scores of letters before turns, and turns before letters      *)
(* (Ordered).                                                              *)
(*                                                                         *)
(* Scores agree because all come to the same when each has applied its own *)
(* inbox: Leads relates what a player reckons with now to what it will     *)
(* then.  Whoever makes a move counts it before what its inbox holds, all  *)
(* others after that.  Token, Succession and Opening say why the order     *)
(* does not matter: who makes a move that counts for a turn has read all   *)
(* that does, and nobody else may make one.                                *)
(***************************************************************************)
EXTENDS Game, WellFoundedInduction, TLAPS

USE GameAssumption

(* Who the server has a session of.                                        *)
There == {"connected", "playing", "crashed"}

(* An update of a kind, about a player.                                    *)
Is(m, kind, q) == m.kind = kind /\ m.player = q

(* All updates but these are about a player.                               *)
About(m) == m.kind \notin {"playerlist", "tile", "charscores", "noscores"} => m.player \in Players
Proper == {m \in Messages : About(m)}

(* The host is on its way to a player.                                     *)
Promised(box) == \E i \in DOMAIN box : box[i].kind = "host"

Present == \A p \in Players :
  /\ p \in online <=> phase[p] \in There
  /\ phase[p] = "away" => ~isHost[p]

HostTold == \A p \in online : ToldHost(p) => host = p

Inv == TypeOK /\ inbox \in [Players -> Seq(Proper)] /\ Present /\ HostTold

-----------------------------------------------------------------------------
(* Updates and inboxes.                                                    *)

(* The updates that the program makes are proper; one makes a host.        *)
LEMMA MessageFacts ==
  /\ \A p \in Players : \A k \in Kinds :
       /\ Message(k, p) \in Proper
       /\ Message(k, p).kind = k /\ Message(k, p).player = p
  /\ \A k \in {"charscores", "noscores"} :
       Message(k, NoPlayer) \in Proper /\ Message(k, NoPlayer).kind = k
  /\ \A v \in Int : /\ Valued("tile", NoPlayer, v) \in Proper
                     /\ Valued("tile", NoPlayer, v).kind = "tile"
                     /\ \A q \in Players : /\ Valued("points", q, v) \in Proper
                                            /\ Is(Valued("points", q, v), "points", q)
                                            /\ Valued("points", q, v).value = v
  /\ \A s \in SUBSET Players :
       Playerlist(s) \in Proper /\ Playerlist(s).kind = "playerlist"
BY DEF Message, Valued, Playerlist, Proper, Messages, Kinds, About, Is

(* An update pushed and one popped.                                        *)
LEMMA BoxFacts ==
  ASSUME NEW S, NEW box \in Seq(S)
  PROVE  /\ \A m \in S : /\ Append(box, m) \in Seq(S)
                         /\ m.kind # "host" => (Promised(Append(box, m)) => Promised(box))
         /\ box # <<>> => /\ Head(box) \in S /\ Tail(box) \in Seq(S)
                          /\ Promised(Tail(box)) => Promised(box)
                          /\ Head(box).kind = "host" => Promised(box)
<1>1. ASSUME NEW m \in S PROVE Append(box, m) \in Seq(S)
  OBVIOUS
<1>2. ASSUME NEW m \in S, m.kind # "host", Promised(Append(box, m)) PROVE Promised(box)
  <2>1. PICK i \in DOMAIN Append(box, m) : Append(box, m)[i].kind = "host"
    BY <1>2 DEF Promised
  <2>2. i \in DOMAIN box /\ Append(box, m)[i] = box[i]
    BY <1>2, <2>1
  <2>3. QED BY <2>1, <2>2 DEF Promised
<1>3. ASSUME box # <<>>
      PROVE  /\ Head(box) \in S /\ Tail(box) \in Seq(S) /\ Head(box) = box[1] /\ 1 \in DOMAIN box
             /\ \A i \in DOMAIN Tail(box) : i + 1 \in DOMAIN box /\ Tail(box)[i] = box[i + 1]
  BY <1>3
<1>4. ASSUME box # <<>>, Promised(Tail(box)) PROVE Promised(box)
  BY <1>3, <1>4 DEF Promised
<1>5. ASSUME box # <<>>, Head(box).kind = "host" PROVE Promised(box)
  BY <1>3, <1>5 DEF Promised
<1>6. QED BY <1>1, <1>2, <1>3, <1>4, <1>5

(* What is relayed is nobody's promise, unless it is of the host.          *)
LEMMA RelayFacts ==
  ASSUME NEW boxes \in [Players -> Seq(Proper)], NEW p \in Players, NEW m \in Proper,
         m.kind # "host"
  PROVE  /\ Relay(boxes, p, m) \in [Players -> Seq(Proper)]
         /\ \A q \in Players : Promised(Relay(boxes, p, m)[q]) => Promised(boxes[q])
<1>1. ASSUME NEW q \in Players
      PROVE  /\ boxes[q] \in Seq(Proper) /\ Append(boxes[q], m) \in Seq(Proper)
             /\ Promised(Append(boxes[q], m)) => Promised(boxes[q])
  BY BoxFacts
<1>2. QED BY <1>1 DEF Relay

(* An update polled.                                                       *)
LEMMA PolledFacts ==
  ASSUME inbox \in [Players -> Seq(Proper)], NEW p \in Players, inbox[p] # <<>>
  PROVE  /\ Polled(p) \in [Players -> Seq(Proper)]
         /\ \A q \in Players : Promised(Polled(p)[q]) => Promised(inbox[q])
         /\ Head(inbox[p]) \in Proper
         /\ Head(inbox[p]).kind = "host" => Promised(inbox[p])
<1>1. inbox[p] \in Seq(Proper)
  OBVIOUS
<1>2. /\ Head(inbox[p]) \in Proper /\ Tail(inbox[p]) \in Seq(Proper)
      /\ Promised(Tail(inbox[p])) => Promised(inbox[p])
      /\ Head(inbox[p]).kind = "host" => Promised(inbox[p])
  BY <1>1, BoxFacts
<1>3. QED BY <1>1, <1>2 DEF Polled

(* Inboxes of proper messages are inboxes.                                 *)
LEMMA ProperAreMessages ==
  ASSUME NEW boxes \in [Players -> Seq(Proper)] PROVE boxes \in [Players -> Seq(Messages)]
<1>1. \A s \in Seq(Proper) : s \in Seq(Messages)
  BY DEF Proper
<1>2. QED BY <1>1

(* A step that neither promises nor connects keeps the host.               *)
LEMMA HostKept ==
  ASSUME Inv, UNCHANGED <<online, host, isHost>>,
         \A q \in Players : /\ phase'[q] \in There <=> phase[q] \in There
                            /\ phase'[q] = "away" => phase[q] = "away",
         \A q \in Players : Promised(inbox'[q]) => Promised(inbox[q])
  PROVE  Present' /\ HostTold'
<1>1. Present'
  BY DEF Inv, Present
<1>2. HostTold'
  BY DEF Inv, TypeOK, HostTold, ToldHost, Promised
<1>3. QED BY <1>1, <1>2

-----------------------------------------------------------------------------
(* The steps.                                                              *)

(* The players start away, with nobody told anything.                      *)
LEMMA InitHolds == Init => Inv
<1> SUFFICES ASSUME Init PROVE Inv
  OBVIOUS
<1>1. \A S : <<>> \in Seq(S)
  OBVIOUS
<1>2. inbox \in [Players -> Seq(Proper)] /\ inbox \in [Players -> Seq(Messages)]
  <2>1. <<>> \in Seq(Proper) /\ <<>> \in Seq(Messages)
    OBVIOUS
  <2>2. QED BY <2>1 DEF Init
<1>3. TypeOK
  BY <1>2 DEF Init, TypeOK, NoTurn
<1>4. Present /\ HostTold
  BY DEF Init, Present, HostTold, There
<1>5. QED BY <1>2, <1>3, <1>4 DEF Inv

(* A player is connected: it is the host if the server has none.           *)
LEMMA ConnectStep == ASSUME Inv, NEW p \in Players, Connect(p) PROVE Inv'
<1>1. p \notin online /\ ~isHost[p]
  BY DEF Inv, Present, Connect, There
<1>2. <<Message("host", p)>> \in Seq(Proper) /\ <<>> \in Seq(Proper)
  BY MessageFacts DEF Kinds
<1>3. inbox' \in [Players -> Seq(Proper)]
  BY <1>2 DEF Inv, Connect
<1>4. inbox' \in [Players -> Seq(Messages)]
  BY <1>3, ProperAreMessages
<1>5. TypeOK'
  BY <1>4 DEF Inv, TypeOK, Connect, local, Claims
<1>6. Present'
  BY <1>1 DEF Inv, TypeOK, Present, Connect, There, local
<1>7. HostTold'
  <2> SUFFICES ASSUME NEW q \in online', ToldHost(q)' PROVE host' = q
    BY DEF HostTold
  <2>1. CASE q = p
    <3>1. ~isHost'[p]
      BY <1>1 DEF Connect, local
    <3>2. CASE Claims
      BY <2>1, <3>2 DEF Connect
    <3>3. CASE ~Claims
      <4>1. inbox'[p] = <<>>
        BY <3>3 DEF Inv, TypeOK, Connect
      <4>2. QED BY <2>1, <3>1, <4>1 DEF ToldHost
    <3>4. QED BY <3>2, <3>3
  <2>2. CASE q # p
    <3>1. q \in online /\ isHost'[q] = isHost[q] /\ inbox'[q] = inbox[q]
      BY <2>2 DEF Inv, TypeOK, Connect, local
    <3>2. host = q
      BY <3>1 DEF Inv, HostTold, ToldHost
    <3>3. host # NoPlayer
      BY <3>1, <3>2 DEF Inv, TypeOK
    <3>4. QED BY <3>2, <3>3 DEF Connect, Claims
  <2>3. QED BY <2>1, <2>2
<1>8. QED BY <1>3, <1>5, <1>6, <1>7 DEF Inv

(* Most steps: the rest is typed, and HostKept says the rest of it.        *)
Phases == {"away", "connected", "playing", "crashed", "gone"}
Boxed ==
  /\ inbox' \in [Players -> Seq(Proper)]
  /\ \A q \in Players : Promised(inbox'[q]) => Promised(inbox[q])
Phased ==
  /\ phase' \in [Players -> Phases]
  /\ \A q \in Players : /\ phase'[q] \in There <=> phase[q] \in There
                        /\ phase'[q] = "away" => phase[q] = "away"
Counted ==
  /\ score' \in [Players -> [Players -> Int]]
  /\ turn' \in [Players -> {NoTurn} \cup [player : Players, letters : Nat]]
  /\ strange' \in [Players -> {"none", "on", "turn"}]

(* A step that leaves the host and who is online alone, and promises no    *)
(* one anything, keeps the invariant.                                      *)
LEMMA StepKept ==
  ASSUME Inv, UNCHANGED <<online, host, isHost, hosts>>, Boxed, Phased, Counted,
         roster' \in [Players -> SUBSET Players], scored' \in [Players -> BOOLEAN],
         moves' \in 0 .. MaxMoves
  PROVE  Inv'
<1>1. Present' /\ HostTold'
  BY HostKept DEF Boxed, Phased
<1>2. inbox' \in [Players -> Seq(Messages)]
  BY ProperAreMessages DEF Boxed
<1>3. TypeOK'
  BY <1>2 DEF Inv, TypeOK, Phased, Phases, Counted
<1>4. QED BY <1>1, <1>3 DEF Inv, Boxed

(* What does not change is typed as before.                                *)
LEMMA Unchanged ==
  ASSUME Inv
  PROVE  /\ UNCHANGED phase => Phased
         /\ UNCHANGED <<score, turn, strange>> => Counted
         /\ UNCHANGED roster => roster' \in [Players -> SUBSET Players]
         /\ UNCHANGED scored => scored' \in [Players -> BOOLEAN]
         /\ UNCHANGED moves => moves' \in 0 .. MaxMoves
         /\ UNCHANGED inbox => Boxed
BY DEF Inv, TypeOK, Phased, Phases, Counted, Boxed

(* An update is received, and popped.                                      *)
LEMMA Pops ==
  ASSUME Inv, NEW p \in Players, NEW kind \in Kinds, Received(p, kind)
  PROVE  /\ inbox' = Polled(p) => Boxed
         /\ kind \in {"join", "disconnect", "turn", "points"} => Head(inbox[p]).player \in Players
         /\ Head(inbox[p]).players \subseteq Players /\ Head(inbox[p]).value \in Int
<1>1. inbox \in [Players -> Seq(Proper)] /\ inbox[p] # <<>>
  BY DEF Inv, Received
<1>2. Head(inbox[p]) \in Proper /\ (inbox' = Polled(p) => Boxed)
  BY <1>1, PolledFacts DEF Boxed
<1>3. QED BY <1>2 DEF Received, Proper, About, Messages

(* An update is published.                                                 *)
LEMMA Publishes ==
  ASSUME Inv, NEW p \in Players, NEW m \in Proper, m.kind # "host", Publish(p, m)
  PROVE  Boxed
BY RelayFacts DEF Inv, Boxed, Publish

(* A turn is done, or the program dies of it.                              *)
LEMMA DoTurnFacts ==
  ASSUME Inv, NEW p \in Players, NEW q \in Players, phase[p] = "playing", DoTurn(p, q),
         UNCHANGED strange
  PROVE  Phased /\ Counted
<1>1. CASE phase' = [phase EXCEPT ![p] = "crashed"] /\ UNCHANGED <<score, turn>>
  BY <1>1 DEF Inv, TypeOK, Phased, Phases, There, Counted
<1>2. CASE /\ UNCHANGED phase /\ score' = EndTurn(p)
           /\ turn' = [turn EXCEPT ![p] = [player |-> q, letters |-> 0]]
  <2>1. UNCHANGED phase /\ score' = EndTurn(p)
        /\ turn' = [turn EXCEPT ![p] = [player |-> q, letters |-> 0]]
    BY <1>2
  <2>2. turn' \in [Players -> {NoTurn} \cup [player : Players, letters : Nat]]
    BY <2>1 DEF Inv, TypeOK
  <2>3. EndTurn(p) \in [Players -> [Players -> Int]]
    <3>1. CASE turn[p].letters = 0
      BY <3>1 DEF Inv, TypeOK, EndTurn
    <3>2. CASE turn[p].letters # 0
      <4>1. turn[p] \in [player : Players, letters : Nat]
        BY <3>2 DEF Inv, TypeOK, NoTurn
      <4>2. /\ score \in [Players -> [Players -> Int]]
            /\ turn[p].player \in Players /\ turn[p].letters \in Nat
        BY <4>1 DEF Inv, TypeOK
      <4>3. score[p][turn[p].player] + turn[p].letters \in Int
        BY <4>2
      <4>4. QED BY <3>2, <4>2, <4>3 DEF EndTurn
    <3>3. QED BY <3>1, <3>2
  <2>4. QED BY <2>1, <2>2, <2>3, Unchanged DEF Inv, TypeOK, Counted
<1>3. QED BY <1>1, <1>2 DEF DoTurn

(* A letter placed is counted, and points are given, as numbers.           *)
LEMMA CountFacts ==
  ASSUME Inv, NEW p \in Players
  PROVE  /\ \A char \in Int : SetTile(p, char) /\ UNCHANGED score => Counted
         /\ \A q \in Players, diff \in Int :
              AddPoints(p, q, diff) /\ UNCHANGED <<turn, strange>> => Counted
<1>1. ASSUME NEW char \in Int, SetTile(p, char), UNCHANGED score PROVE Counted
  <2>0. strange' \in [Players -> {"none", "on", "turn"}]
    BY <1>1 DEF Inv, TypeOK, SetTile
  <2>1. turn \in [Players -> {NoTurn} \cup [player : Players, letters : Nat]]
    BY DEF Inv, TypeOK
  <2>2. CASE turn[p].player = NoPlayer
    BY <1>1, <2>0, <2>2 DEF Inv, TypeOK, SetTile, Counted
  <2>3. CASE turn[p].player # NoPlayer
    <3>1. turn[p] \in [player : Players, letters : Nat]
      BY <2>1, <2>3 DEF NoTurn
    <3>2. [turn[p] EXCEPT !.letters = turn[p].letters + 1] \in [player : Players, letters : Nat]
      BY <3>1
    <3>3. turn' = [turn EXCEPT ![p] = [turn[p] EXCEPT !.letters = turn[p].letters + 1]]
      BY <1>1, <2>1, <2>3 DEF SetTile
    <3>4. turn' \in [Players -> {NoTurn} \cup [player : Players, letters : Nat]]
      BY <2>1, <3>2, <3>3
    <3>5. QED BY <1>1, <2>0, <3>4 DEF Inv, TypeOK, Counted
  <2>4. QED BY <2>2, <2>3
<1>2. ASSUME NEW q \in Players, NEW diff \in Int, AddPoints(p, q, diff),
             UNCHANGED <<turn, strange>>
      PROVE  Counted
  <2>1. score \in [Players -> [Players -> Int]]
    BY DEF Inv, TypeOK
  <2>2. score' \in [Players -> [Players -> Int]]
    BY <1>2, <2>1 DEF AddPoints
  <2>3. QED BY <1>2, <2>2 DEF Inv, TypeOK, Counted
<1>3. QED BY <1>1, <1>2

(* A player announces itself; another takes its leave.                     *)
LEMMA JoinStep == ASSUME Inv, NEW p \in Players, Join(p) PROVE Inv'
<1>1. Boxed
  BY Publishes, MessageFacts DEF Join, Kinds
<1>2. Phased
  BY DEF Inv, TypeOK, Join, Phased, Phases, There
<1>3. QED BY <1>1, <1>2, Unchanged, StepKept DEF Join, local

(* A player that leaves may have been the host, which is then forgotten.   *)
LEMMA LeaveStep == ASSUME Inv, NEW p \in Players, Leave(p) PROVE Inv'
<1> DEFINE boxes == Relay(inbox, p, Message("disconnect", p))
<1>1. /\ boxes \in [Players -> Seq(Proper)]
      /\ \A q \in Players : Promised(boxes[q]) => Promised(inbox[q])
  BY MessageFacts, RelayFacts DEF Inv, Kinds
<1>2. inbox' = [boxes EXCEPT ![p] = <<>>]
  BY DEF Leave
<1> HIDE DEF boxes
<1>3. <<>> \in Seq(Proper)
  OBVIOUS
<1>4. inbox' \in [Players -> Seq(Proper)] /\ inbox' \in [Players -> Seq(Messages)]
  BY <1>1, <1>2, <1>3, ProperAreMessages
<1>5. TypeOK'
  BY <1>4 DEF Inv, TypeOK, Leave, local
<1>6. Present'
  BY DEF Inv, TypeOK, Present, Leave, There, local
<1>7. HostTold'
  <2> SUFFICES ASSUME NEW q \in online', ToldHost(q)' PROVE host' = q
    BY DEF HostTold
  <2>1. q \in online /\ q # p /\ q \in Players /\ isHost' = isHost
    BY DEF Inv, TypeOK, Leave, local
  <2>2. Promised(inbox'[q]) => Promised(inbox[q])
    BY <1>1, <1>2, <2>1
  <2>3. ToldHost(q)
    BY <2>1, <2>2 DEF ToldHost, Promised
  <2>4. QED BY <2>1, <2>3 DEF Inv, HostTold, Leave
<1>8. QED BY <1>4, <1>5, <1>6, <1>7 DEF Inv

(* The player who was promised to be the host becomes it.                  *)
LEMMA UpdateHostStep == ASSUME Inv, NEW p \in Players, UpdateHost(p) PROVE Inv'
<1>1. /\ inbox' \in [Players -> Seq(Proper)]
      /\ \A q \in Players : Promised(inbox'[q]) => Promised(inbox[q])
      /\ Promised(inbox[p])
  BY PolledFacts DEF Inv, UpdateHost, Received
<1>2. TypeOK'
  BY <1>1, ProperAreMessages DEF Inv, TypeOK, UpdateHost
<1>3. Present'
  BY DEF Inv, TypeOK, Present, UpdateHost, Received, There
<1>4. HostTold'
  <2> SUFFICES ASSUME NEW q \in online', ToldHost(q)' PROVE host' = q
    BY DEF HostTold
  <2>1. q \in online /\ q \in Players /\ host' = host
    BY DEF Inv, TypeOK, UpdateHost
  <2>2. ToldHost(q)
    <3>1. CASE q = p
      BY <1>1, <3>1 DEF ToldHost, Promised
    <3>2. CASE q # p
      <4>1. isHost'[q] = isHost[q]
        BY <2>1, <3>2 DEF Inv, TypeOK, UpdateHost
      <4>2. QED BY <1>1, <2>1, <4>1 DEF ToldHost, Promised
    <3>3. QED BY <3>1, <3>2
  <2>3. QED BY <2>1, <2>2 DEF Inv, HostTold
<1>5. QED BY <1>1, <1>2, <1>3, <1>4 DEF Inv

(* The host answers a join with its list.                                  *)
LEMMA UpdateJoinStep == ASSUME Inv, NEW p \in Players, UpdateJoin(p) PROVE Inv'
<1> DEFINE q == Head(inbox[p]).player
<1>1. q \in Players
  BY Pops DEF UpdateJoin, Kinds
<1>2. roster' \in [Players -> SUBSET Players]
  BY <1>1 DEF Inv, TypeOK, UpdateJoin
<1>3. Boxed
  <2>1. /\ Polled(p) \in [Players -> Seq(Proper)]
        /\ \A r \in Players : Promised(Polled(p)[r]) => Promised(inbox[r])
    BY PolledFacts DEF Inv, UpdateJoin, Received
  <2>2. ListWith(p, q) \in SUBSET Players
    BY <1>1 DEF Inv, TypeOK, ListWith, Known
  <2>3. Playerlist(ListWith(p, q)) \in Proper /\ Playerlist(ListWith(p, q)).kind # "host"
    BY <2>2, MessageFacts
  <2>4. /\ Relay(Polled(p), p, Playerlist(ListWith(p, q))) \in [Players -> Seq(Proper)]
        /\ \A r \in Players : Promised(Relay(Polled(p), p, Playerlist(ListWith(p, q)))[r])
                                => Promised(Polled(p)[r])
    BY <2>1, <2>3, RelayFacts
  <2>5. inbox' = Polled(p) \/ inbox' = Relay(Polled(p), p, Playerlist(ListWith(p, q)))
    BY DEF UpdateJoin
  <2>6. QED BY <2>1, <2>4, <2>5 DEF Boxed
<1>4. QED BY <1>2, <1>3, Unchanged, StepKept DEF UpdateJoin

(* The other updates.                                                      *)
LEMMA UpdateStep == ASSUME Inv, NEW p \in Players, Update(p) PROVE Inv'
<1>1. CASE UpdateHost(p)
  BY <1>1, UpdateHostStep
<1>2. CASE UpdateJoin(p)
  BY <1>2, UpdateJoinStep
<1>3. CASE UpdateDisconnect(p)
  <2>1. Boxed /\ Head(inbox[p]).player \in Players
    BY <1>3, Pops DEF UpdateDisconnect, Kinds
  <2>2. roster' \in [Players -> SUBSET Players]
    BY <1>3 DEF Inv, TypeOK, UpdateDisconnect, Without
  <2>3. Counted
    BY <1>3, <2>1 DEF Inv, TypeOK, UpdateDisconnect, Counted
  <2>4. QED BY <1>3, <2>1, <2>2, <2>3, Unchanged, StepKept DEF UpdateDisconnect
<1>4. CASE UpdatePlayerlist(p)
  <2>1. Boxed /\ Head(inbox[p]).players \subseteq Players
    BY <1>4, Pops DEF UpdatePlayerlist, Kinds
  <2>2. roster' \in [Players -> SUBSET Players]
    BY <1>4, <2>1 DEF Inv, TypeOK, UpdatePlayerlist
  <2>3. QED BY <1>4, <2>1, <2>2, Unchanged, StepKept DEF UpdatePlayerlist
<1>5. CASE UpdatePoints(p)
  <2>1. Boxed /\ Head(inbox[p]).player \in Players /\ Head(inbox[p]).value \in Int
    BY <1>5, Pops DEF UpdatePoints, Kinds
  <2>2. Counted
    BY <1>5, <2>1, CountFacts DEF UpdatePoints
  <2>3. QED BY <1>5, <2>1, <2>2, Unchanged, StepKept DEF UpdatePoints
<1>6. CASE UpdateTurn(p)
  <2>1. Boxed /\ Head(inbox[p]).player \in Players
    BY <1>6, Pops DEF UpdateTurn, Kinds
  <2>2. Phased /\ Counted
    BY <1>6, <2>1, DoTurnFacts DEF UpdateTurn, Received
  <2>3. QED BY <1>6, <2>1, <2>2, Unchanged, StepKept DEF UpdateTurn
<1>7. CASE UpdateTile(p)
  <2>1. Boxed /\ Head(inbox[p]).value \in Int
    BY <1>7, Pops DEF UpdateTile, Kinds
  <2>2. Counted
    BY <1>7, <2>1, CountFacts DEF UpdateTile
  <2>3. QED BY <1>7, <2>1, <2>2, Unchanged, StepKept DEF UpdateTile
<1>8. CASE UpdateCharscores(p)
  <2>1. Boxed
    BY <1>8, Pops DEF UpdateCharscores, Kinds
  <2>2. scored' \in [Players -> BOOLEAN]
    BY <1>8 DEF Inv, TypeOK, UpdateCharscores
  <2>3. QED BY <1>8, <2>1, <2>2, Unchanged, StepKept DEF UpdateCharscores
<1>9. QED BY <1>1, <1>2, <1>3, <1>4, <1>5, <1>6, <1>7, <1>8 DEF Update

(* The moves of a player.                                                  *)
LEMMA MoveStep == ASSUME Inv, NEW p \in Players, Move(p) PROVE Inv'
<1>0. ASSUME NEW move, MayMove(p, move), moves' = moves + 1
      PROVE  moves' \in 0 .. MaxMoves /\ phase[p] = "playing"
  BY <1>0 DEF Inv, TypeOK, MayMove
<1>1. ASSUME NEW char \in Typed, PlaceTile(p, char) PROVE Inv'
  <2>0. char \in Int
    BY DEF Characters
  <2>1. Boxed
    BY <1>1, <2>0, Publishes, MessageFacts DEF PlaceTile
  <2>2. Counted /\ moves' \in 0 .. MaxMoves
    BY <1>0, <1>1, <2>0, CountFacts DEF PlaceTile
  <2>3. QED BY <1>1, <2>1, <2>2, Unchanged, StepKept DEF PlaceTile
<1>2. ASSUME NEW kind \in Kinds, LoadScores(p, kind) PROVE Inv'
  <2>1. Boxed
    BY <1>2, Publishes, MessageFacts DEF LoadScores
  <2>2. scored' \in [Players -> BOOLEAN] /\ moves' \in 0 .. MaxMoves
    BY <1>0, <1>2 DEF Inv, TypeOK, LoadScores
  <2>3. QED BY <1>2, <2>1, <2>2, Unchanged, StepKept DEF LoadScores
<1>3. ASSUME NEW q \in Players, StartTurn(p, q) PROVE Inv'
  <2>1. Boxed
    BY <1>3, Publishes, MessageFacts, Unchanged DEF StartTurn, Kinds
  <2>2. Phased /\ Counted /\ moves' \in 0 .. MaxMoves
    BY <1>0, <1>3, DoTurnFacts DEF StartTurn
  <2>3. QED BY <1>3, <2>1, <2>2, Unchanged, StepKept DEF StartTurn
<1>4. ASSUME NEW q \in Players, NEW diff \in Points, GivePoints(p, q, diff) PROVE Inv'
  <2>0. diff \in Int
    OBVIOUS
  <2>1. Boxed
    <3>1. /\ Valued("points", q, diff) \in Proper
          /\ Valued("points", q, diff).kind = "points"
      BY <2>0, MessageFacts DEF Is
    <3>2. QED BY <1>4, <3>1, Publishes DEF GivePoints
  <2>2. Counted /\ moves' \in 0 .. MaxMoves
    BY <1>0, <1>4, <2>0, CountFacts DEF GivePoints
  <2>3. QED BY <1>4, <2>1, <2>2, Unchanged, StepKept DEF GivePoints
<1>5. QED BY <1>1, <1>2, <1>3, <1>4 DEF Move

(* Every step of every player keeps the invariant.                         *)
LEMMA NextHolds == Inv /\ [Next]_vars => Inv'
<1> SUFFICES ASSUME Inv, [Next]_vars PROVE Inv'
  OBVIOUS
<1>1. ASSUME NEW p \in Players, Connect(p) \/ Join(p) \/ Leave(p) \/ Update(p) \/ Move(p)
      PROVE  Inv'
  BY <1>1, ConnectStep, JoinStep, LeaveStep, UpdateStep, MoveStep
<1>2. CASE UNCHANGED vars
  <2>1. UNCHANGED <<phase, online, host, inbox, isHost, roster, scored, strange, score, turn,
                    moves, hosts>>
    BY <1>2 DEF vars, local
  <2>2. QED BY <2>1, Unchanged, StepKept
<1>3. QED BY <1>1, <1>2 DEF Next

(* The invariant holds always.                                             *)
LEMMA InvHolds == Spec => []Inv
BY InitHolds, NextHolds, PTL DEF Spec

-----------------------------------------------------------------------------
(* The theorems.                                                           *)

(* Every variable keeps its type: a turn and a list name players only      *)
(* (context.cpp:48-120).                                                   *)
THEOREM TypeCorrect == Spec => []TypeOK
BY InvHolds, PTL DEF Inv

(* Of the players online at most one acts as the host, or is about to, in  *)
(* whatever order they join and leave (context.cpp:72-86).                 *)
THEOREM AtMostOneHost == Spec => []OneHost
<1>1. Inv => OneHost
  BY DEF Inv, HostTold, OneHost
<1>2. QED BY <1>1, InvHolds, PTL

-----------------------------------------------------------------------------
(* What an inbox says, and in which order.                                 *)

IsNamed(m, q)  == Is(m, "join", q) \/ (m.kind = "playerlist" /\ q \in m.players)

Has(box, kind, q) == \E i \in DOMAIN box : Is(box[i], kind, q)
HasKind(box, kind) == \E i \in DOMAIN box : box[i].kind = kind
Named(box, q)     == \E i \in DOMAIN box : IsNamed(box[i], q)

(* At most one disconnect of q.                                            *)
OneBye(box, q) == \A i, j \in DOMAIN box :
  Is(box[i], "disconnect", q) /\ Is(box[j], "disconnect", q) => i = j

(* A disconnect of q, and no join after it.                                *)
Closes(box, q) == \E i \in DOMAIN box :
  /\ Is(box[i], "disconnect", q)
  /\ \A j \in DOMAIN box : Is(box[j], "join", q) => j < i

(* The join of p, and the join of q after it.                              *)
Follows(box, p, q) == \E i, j \in DOMAIN box :
  i < j /\ Is(box[i], "join", p) /\ Is(box[j], "join", q)

(* Every update of one kind comes after one of the other, or after q is    *)
(* named.                                                                  *)
After(box, kind, first) == \A k \in DOMAIN box : box[k].kind = kind =>
  \E j \in DOMAIN box : j < k /\ box[j].kind = first
AfterNamed(box, kind, q) == \A k \in DOMAIN box : box[k].kind = kind =>
  \E j \in DOMAIN box : j < k /\ IsNamed(box[j], q)

(* An update pushed.                                                       *)
LEMMA Pushed ==
  ASSUME NEW box \in Seq(Proper), NEW m \in Proper
  PROVE  /\ Append(box, m) \in Seq(Proper) /\ Append(box, m) # <<>>
         /\ DOMAIN Append(box, m) = DOMAIN box \cup {Len(box) + 1}
         /\ DOMAIN box = 1 .. Len(box) /\ Len(box) \in Nat
         /\ \A i \in DOMAIN box : Append(box, m)[i] = box[i]
         /\ Append(box, m)[Len(box) + 1] = m
OBVIOUS

(* The first update stays the first.                                       *)
LEMMA PushHead ==
  ASSUME NEW box \in Seq(Proper), NEW m \in Proper, box # <<>>
  PROVE  Head(Append(box, m)) = Head(box)
OBVIOUS

(* The first update popped.                                                *)
LEMMA Popped ==
  ASSUME NEW box \in Seq(Proper), box # <<>>
  PROVE  /\ Tail(box) \in Seq(Proper) /\ Head(box) \in Proper
         /\ Len(box) \in Nat \ {0} /\ 1 \in DOMAIN box
         /\ DOMAIN box = 1 .. Len(box) /\ DOMAIN Tail(box) = 1 .. (Len(box) - 1)
         /\ \A i \in DOMAIN Tail(box) : Tail(box)[i] = box[i + 1] /\ i + 1 \in DOMAIN box
         /\ \A i \in DOMAIN box : i = 1 \/ (i - 1 \in DOMAIN Tail(box) /\ Tail(box)[i - 1] = box[i])
         /\ box[1] = Head(box)
OBVIOUS

(* What is said by an inbox with one more update.                          *)
LEMMA PushSays ==
  ASSUME NEW box \in Seq(Proper), NEW m \in Proper
  PROVE  /\ \A kind, q : Has(Append(box, m), kind, q) <=> Has(box, kind, q) \/ Is(m, kind, q)
         /\ \A kind : HasKind(Append(box, m), kind) <=> HasKind(box, kind) \/ m.kind = kind
         /\ \A q : Named(Append(box, m), q) <=> Named(box, q) \/ IsNamed(m, q)
BY Pushed DEF Has, HasKind, Named

(* The order of an inbox with one more update.                             *)
LEMMA PushOrders ==
  ASSUME NEW box \in Seq(Proper), NEW m \in Proper
  PROVE  /\ \A q : OneBye(box, q) /\ ~(Has(box, "disconnect", q) /\ Is(m, "disconnect", q))
                     => OneBye(Append(box, m), q)
         /\ \A q : Closes(box, q) /\ ~Is(m, "join", q) => Closes(Append(box, m), q)
         /\ \A q : Is(m, "disconnect", q) => Closes(Append(box, m), q)
         /\ \A p, q : Follows(box, p, q) => Follows(Append(box, m), p, q)
         /\ \A p, q : Has(box, "join", p) /\ Is(m, "join", q) => Follows(Append(box, m), p, q)
         /\ \A kind, first : After(box, kind, first) /\ (m.kind = kind => HasKind(box, first))
                               => After(Append(box, m), kind, first)
         /\ \A kind, q : AfterNamed(box, kind, q) /\ (m.kind = kind => Named(box, q))
                           => AfterNamed(Append(box, m), kind, q)
<1>0. /\ DOMAIN Append(box, m) = DOMAIN box \cup {Len(box) + 1}
      /\ DOMAIN box = 1 .. Len(box) /\ Len(box) \in Nat
      /\ \A i \in DOMAIN box : Append(box, m)[i] = box[i]
      /\ Append(box, m)[Len(box) + 1] = m
  BY Pushed
<1>1. ASSUME NEW q, OneBye(box, q), ~(Has(box, "disconnect", q) /\ Is(m, "disconnect", q))
      PROVE  OneBye(Append(box, m), q)
  BY <1>1, <1>0 DEF OneBye, Has
<1>2. ASSUME NEW q, Closes(box, q), ~Is(m, "join", q) PROVE Closes(Append(box, m), q)
  BY <1>2, <1>0 DEF Closes
<1>3. ASSUME NEW q, Is(m, "disconnect", q) PROVE Closes(Append(box, m), q)
  <2>1. /\ Len(box) + 1 \in DOMAIN Append(box, m)
        /\ Is(Append(box, m)[Len(box) + 1], "disconnect", q)
    BY <1>3, <1>0
  <2>2. ASSUME NEW j \in DOMAIN Append(box, m), Is(Append(box, m)[j], "join", q)
        PROVE  j < Len(box) + 1
    BY <1>3, <2>2, <1>0 DEF Is
  <2>3. QED BY <2>1, <2>2 DEF Closes
<1>4. ASSUME NEW p, NEW q, Follows(box, p, q) PROVE Follows(Append(box, m), p, q)
  BY <1>4, <1>0 DEF Follows
<1>5. ASSUME NEW p, NEW q, Has(box, "join", p), Is(m, "join", q)
      PROVE  Follows(Append(box, m), p, q)
  BY <1>5, <1>0 DEF Follows, Has
<1>6. ASSUME NEW kind, NEW first, After(box, kind, first), m.kind = kind => HasKind(box, first)
      PROVE  After(Append(box, m), kind, first)
  <2> SUFFICES ASSUME NEW k \in DOMAIN Append(box, m), Append(box, m)[k].kind = kind
               PROVE  \E j \in DOMAIN Append(box, m) :
                        j < k /\ Append(box, m)[j].kind = first
    BY DEF After
  <2>1. \E j \in DOMAIN box : j < k /\ box[j].kind = first
    BY <1>0, <1>6 DEF After, HasKind
  <2>2. QED BY <1>0, <2>1
<1>7. ASSUME NEW kind, NEW q, AfterNamed(box, kind, q), m.kind = kind => Named(box, q)
      PROVE  AfterNamed(Append(box, m), kind, q)
  <2> SUFFICES ASSUME NEW k \in DOMAIN Append(box, m), Append(box, m)[k].kind = kind
               PROVE  \E j \in DOMAIN Append(box, m) : j < k /\ IsNamed(Append(box, m)[j], q)
    BY DEF AfterNamed
  <2>1. \E j \in DOMAIN box : j < k /\ IsNamed(box[j], q)
    BY <1>0, <1>7 DEF AfterNamed, Named
  <2>2. QED BY <1>0, <2>1
<1>8. QED BY <1>1, <1>2, <1>3, <1>4, <1>5, <1>6, <1>7

(* What is said by an inbox, and by what follows its first update.         *)
LEMMA PopSays ==
  ASSUME NEW box \in Seq(Proper), box # <<>>
  PROVE  /\ \A kind, q : Has(box, kind, q) <=> Has(Tail(box), kind, q) \/ Is(Head(box), kind, q)
         /\ \A kind : HasKind(box, kind) <=> HasKind(Tail(box), kind) \/ Head(box).kind = kind
         /\ \A q : Named(box, q) <=> Named(Tail(box), q) \/ IsNamed(Head(box), q)
<1>0. /\ 1 \in DOMAIN box /\ box[1] = Head(box)
      /\ \A i \in DOMAIN Tail(box) : Tail(box)[i] = box[i + 1] /\ i + 1 \in DOMAIN box
      /\ \A i \in DOMAIN box : i = 1 \/ (i - 1 \in DOMAIN Tail(box) /\ Tail(box)[i - 1] = box[i])
  BY Popped
<1>1. ASSUME NEW kind, NEW q
      PROVE  Has(box, kind, q) <=> Has(Tail(box), kind, q) \/ Is(Head(box), kind, q)
  BY <1>0 DEF Has
<1>2. ASSUME NEW kind
      PROVE  HasKind(box, kind) <=> HasKind(Tail(box), kind) \/ Head(box).kind = kind
  BY <1>0 DEF HasKind
<1>3. ASSUME NEW q PROVE Named(box, q) <=> Named(Tail(box), q) \/ IsNamed(Head(box), q)
  BY <1>0 DEF Named
<1>4. QED BY <1>1, <1>2, <1>3

(* The order of an inbox, and of what follows its first update.            *)
LEMMA PopOrders ==
  ASSUME NEW box \in Seq(Proper), box # <<>>
  PROVE  /\ \A q : OneBye(box, q) => /\ OneBye(Tail(box), q)
                                     /\ Is(Head(box), "disconnect", q)
                                          => ~Has(Tail(box), "disconnect", q)
         /\ \A q : Closes(box, q) => \/ Closes(Tail(box), q)
                                     \/ /\ Is(Head(box), "disconnect", q)
                                        /\ ~Has(Tail(box), "join", q)
         /\ \A p, q : Follows(box, p, q) => \/ Follows(Tail(box), p, q)
                                            \/ /\ Is(Head(box), "join", p)
                                               /\ Has(Tail(box), "join", q)
         /\ \A kind, first : After(box, kind, first) =>
              /\ After(Tail(box), kind, first) \/ Head(box).kind = first
              /\ Head(box).kind # kind
         /\ \A kind, q : AfterNamed(box, kind, q) =>
              /\ AfterNamed(Tail(box), kind, q) \/ IsNamed(Head(box), q)
              /\ Head(box).kind # kind
<1>0. /\ DOMAIN box = 1 .. Len(box) /\ DOMAIN Tail(box) = 1 .. (Len(box) - 1)
      /\ Len(box) \in Nat \ {0} /\ box[1] = Head(box)
      /\ \A i \in DOMAIN Tail(box) : Tail(box)[i] = box[i + 1] /\ i + 1 \in DOMAIN box
      /\ \A i \in DOMAIN box : i = 1 \/ (i - 1 \in DOMAIN Tail(box) /\ Tail(box)[i - 1] = box[i])
  BY Popped
<1>1. ASSUME NEW q, OneBye(box, q)
      PROVE  OneBye(Tail(box), q)
             /\ (Is(Head(box), "disconnect", q) => ~Has(Tail(box), "disconnect", q))
  BY <1>1, <1>0 DEF OneBye, Has
<1>2. ASSUME NEW q, Closes(box, q)
      PROVE  Closes(Tail(box), q)
             \/ (Is(Head(box), "disconnect", q) /\ ~Has(Tail(box), "join", q))
  <2>1. PICK i \in DOMAIN box : /\ Is(box[i], "disconnect", q)
                                 /\ \A j \in DOMAIN box : Is(box[j], "join", q) => j < i
    BY <1>2 DEF Closes
  <2>2. ASSUME NEW j \in DOMAIN Tail(box), Is(Tail(box)[j], "join", q) PROVE j < i - 1
    BY <1>0, <2>1, <2>2
  <2>3. CASE i = 1
    BY <1>0, <2>1, <2>2, <2>3 DEF Has
  <2>4. CASE i # 1
    <3>1. i - 1 \in DOMAIN Tail(box) /\ Tail(box)[i - 1] = box[i]
      BY <1>0, <2>4
    <3>2. PICK k \in DOMAIN Tail(box) : k = i - 1 /\ Is(Tail(box)[k], "disconnect", q)
      BY <2>1, <3>1
    <3>3. \A j \in DOMAIN Tail(box) : Is(Tail(box)[j], "join", q) => j < k
      BY <2>2, <3>2
    <3>4. QED BY <3>2, <3>3 DEF Closes
  <2>5. QED BY <2>3, <2>4
<1>3. ASSUME NEW p, NEW q, Follows(box, p, q)
      PROVE  Follows(Tail(box), p, q)
             \/ (Is(Head(box), "join", p) /\ Has(Tail(box), "join", q))
  <2>1. PICK i, j \in DOMAIN box : i < j /\ Is(box[i], "join", p) /\ Is(box[j], "join", q)
    BY <1>3 DEF Follows
  <2>2. j - 1 \in DOMAIN Tail(box) /\ Is(Tail(box)[j - 1], "join", q)
    BY <1>0, <2>1
  <2>3. CASE i = 1
    BY <1>0, <2>1, <2>2, <2>3 DEF Has
  <2>4. CASE i # 1
    <3>1. i - 1 \in DOMAIN Tail(box) /\ Tail(box)[i - 1] = box[i]
      BY <1>0, <2>4
    <3>2. PICK k \in DOMAIN Tail(box) : k = i - 1 /\ Is(Tail(box)[k], "join", p)
      BY <2>1, <3>1
    <3>3. PICK l \in DOMAIN Tail(box) : l = j - 1 /\ Is(Tail(box)[l], "join", q)
      BY <2>2
    <3>4. k < l
      BY <1>0, <2>1, <3>2, <3>3
    <3>5. QED BY <3>2, <3>3, <3>4 DEF Follows
  <2>5. QED BY <2>3, <2>4
<1>4. ASSUME NEW kind, NEW first, After(box, kind, first)
      PROVE  /\ After(Tail(box), kind, first) \/ Head(box).kind = first
             /\ Head(box).kind # kind
  <2>1. Head(box).kind # kind
    BY <1>0, <1>4 DEF After
  <2>2. ASSUME Head(box).kind # first, NEW k \in DOMAIN Tail(box), Tail(box)[k].kind = kind
        PROVE  \E j \in DOMAIN Tail(box) : j < k /\ Tail(box)[j].kind = first
    <3>1. k + 1 \in DOMAIN box /\ box[k + 1].kind = kind
      BY <1>0, <2>2
    <3>2. PICK j \in DOMAIN box : j < k + 1 /\ box[j].kind = first
      BY <1>4, <3>1 DEF After
    <3>3. j # 1 /\ j - 1 \in DOMAIN Tail(box) /\ Tail(box)[j - 1] = box[j]
      BY <1>0, <2>2, <3>2
    <3>4. QED BY <1>0, <3>2, <3>3
  <2>3. QED BY <2>1, <2>2 DEF After
<1>5. ASSUME NEW kind, NEW q, AfterNamed(box, kind, q)
      PROVE  /\ AfterNamed(Tail(box), kind, q) \/ IsNamed(Head(box), q)
             /\ Head(box).kind # kind
  <2>1. Head(box).kind # kind
    BY <1>0, <1>5 DEF AfterNamed
  <2>2. ASSUME ~IsNamed(Head(box), q), NEW k \in DOMAIN Tail(box), Tail(box)[k].kind = kind
        PROVE  \E j \in DOMAIN Tail(box) : j < k /\ IsNamed(Tail(box)[j], q)
    <3>1. k + 1 \in DOMAIN box /\ box[k + 1].kind = kind
      BY <1>0, <2>2
    <3>2. PICK j \in DOMAIN box : j < k + 1 /\ IsNamed(box[j], q)
      BY <1>5, <3>1 DEF AfterNamed
    <3>3. j # 1 /\ j - 1 \in DOMAIN Tail(box) /\ Tail(box)[j - 1] = box[j]
      BY <1>0, <2>2, <3>2
    <3>4. QED BY <1>0, <3>2, <3>3
  <2>3. QED BY <2>1, <2>2 DEF AfterNamed
<1>6. QED BY <1>1, <1>2, <1>3, <1>4, <1>5

-----------------------------------------------------------------------------
(* Who has been told of whom.                                              *)

Joined == {p \in Players : phase[p] \in {"playing", "crashed"}}
Gone   == {p \in Players : phase[p] = "gone"}

(* The one host there has been, which is still there.                      *)
First(h) == hosts = {h} /\ h \in online

(* Nothing is sent to who is not online; who has not joined knows nobody.  *)
Silent == \A p \in Players : /\ p \notin online => inbox[p] = <<>>
                             /\ phase[p] \in {"away", "connected"} => roster[p] = {}

(* Everyone whom the server ever made host, and the host it has.           *)
Appointed ==
  /\ \A p \in hosts : phase[p] # "away"
  /\ host # NoPlayer => host \in hosts /\ host \in online
  /\ \A p \in hosts : p \in online => host = p
  /\ hosts = {} => \A p \in Players : phase[p] = "away"
  /\ \A p \in Players : isHost[p] \/ Promised(inbox[p]) => p \in hosts

(* Who is named has joined, and who is said to be gone is, once.           *)
Truthful == \A p, q \in Players :
  /\ q \in roster[p] \/ Named(inbox[p], q) => q \in Joined \/ q \in Gone
  /\ Has(inbox[p], "disconnect", q) => q \in Gone
  /\ OneBye(inbox[p], q)
  /\ p \notin roster[p] /\ ~Has(inbox[p], "join", p)

(* No host knows the hosts there were before it.                           *)
Superseded == \A h, g \in hosts :
  h # g /\ h \in online => g \in Gone /\ g \notin roster[h] /\ ~Named(inbox[h], g)

(* The first host learns that it is before anything else, and is told of   *)
(* everyone who joins and who leaves, by themselves.                       *)
Listed == \A h \in Players : First(h) =>
  /\ \/ isHost[h]
     \/ roster[h] = {} /\ inbox[h] # <<>> /\ Head(inbox[h]).kind = "host"
  /\ ~HasKind(inbox[h], "playerlist")
  /\ \A q \in Joined : q = h \/ q \in roster[h] \/ Has(inbox[h], "join", q)
  /\ \A q \in Gone : \/ q \notin roster[h] /\ ~Has(inbox[h], "join", q)
                     \/ Closes(inbox[h], q)

(* Of a player who has joined every other one knows, or is about to be     *)
(* told, or will be by the host, which has its join still to answer and    *)
(* knows the player before it does.                                        *)
Introduced == \A h \in Players : First(h) => \A p \in Joined, q \in online :
  \/ p = q
  \/ q = h
  \/ p \in roster[q]
  \/ Named(inbox[q], p)
  \/ phase[q] = "connected"
  \/ (p \in roster[h] \/ p = h) /\ Has(inbox[h], "join", q)
  \/ Follows(inbox[h], p, q)

Met == Silent /\ Appointed /\ Truthful /\ Superseded /\ Listed /\ Introduced

(* Two inboxes that say the same of who is there.                          *)
Alike(b, c) ==
  /\ \A kind \in {"join", "disconnect"} : \A q : Has(c, kind, q) <=> Has(b, kind, q)
  /\ \A q : Named(c, q) <=> Named(b, q)
  /\ HasKind(c, "playerlist") => HasKind(b, "playerlist")
  /\ Promised(c) => Promised(b)
  /\ \A q : (OneBye(b, q) => OneBye(c, q)) /\ (Closes(b, q) => Closes(c, q))
  /\ \A p, q : Follows(b, p, q) => Follows(c, p, q)
  /\ b # <<>> /\ Head(b).kind = "host" => c # <<>> /\ Head(c).kind = "host"

(* The updates of a game say nothing of who is there.                      *)
Played == {"charscores", "noscores", "turn", "tile", "points"}

(* An update of the game pushed says nothing of who is there.              *)
LEMMA AlikePush ==
  ASSUME NEW box \in Seq(Proper), NEW m \in Proper, m.kind \in Played
  PROVE  Alike(box, Append(box, m))
<1>0. \A q : ~Is(m, "join", q) /\ ~Is(m, "disconnect", q) /\ ~IsNamed(m, q)
  BY DEF Is, IsNamed, Played
<1>1. /\ \A kind \in {"join", "disconnect"} : \A q :
           Has(Append(box, m), kind, q) <=> Has(box, kind, q)
      /\ \A q : Named(Append(box, m), q) <=> Named(box, q)
      /\ HasKind(Append(box, m), "playerlist") => HasKind(box, "playerlist")
  BY <1>0, PushSays DEF Played
<1>2. /\ \A q : OneBye(box, q) => OneBye(Append(box, m), q)
      /\ \A q : Closes(box, q) => Closes(Append(box, m), q)
      /\ \A p, q : Follows(box, p, q) => Follows(Append(box, m), p, q)
  BY <1>0, PushOrders
<1>3. Promised(Append(box, m)) => Promised(box)
  BY BoxFacts DEF Played
<1>4. box # <<>> => Append(box, m) # <<>> /\ Head(Append(box, m)) = Head(box)
  BY Pushed, PushHead
<1>5. QED BY <1>1, <1>2, <1>3, <1>4 DEF Alike

(* Nor does one popped.                                                    *)
LEMMA AlikePop ==
  ASSUME NEW box \in Seq(Proper), box # <<>>, Head(box).kind \in Played
  PROVE  Alike(box, Tail(box))
<1>0. \A q : /\ ~Is(Head(box), "join", q) /\ ~Is(Head(box), "disconnect", q)
             /\ ~IsNamed(Head(box), q)
  BY DEF Is, IsNamed, Played
<1>1. /\ \A kind \in {"join", "disconnect"} : \A q :
           Has(Tail(box), kind, q) <=> Has(box, kind, q)
      /\ \A q : Named(Tail(box), q) <=> Named(box, q)
      /\ HasKind(Tail(box), "playerlist") => HasKind(box, "playerlist")
  BY <1>0, PopSays
<1>2. /\ \A q : OneBye(box, q) => OneBye(Tail(box), q)
      /\ \A q : Closes(box, q) => Closes(Tail(box), q)
      /\ \A p, q : Follows(box, p, q) => Follows(Tail(box), p, q)
  BY <1>0, PopOrders
<1>3. Promised(Tail(box)) => Promised(box)
  BY BoxFacts
<1>4. Head(box).kind # "host"
  BY DEF Played
<1>5. QED BY <1>1, <1>2, <1>3, <1>4 DEF Alike

(* A step that leaves the players, what they know and what their inboxes   *)
(* say of each other as they are.                                          *)
LEMMA MetKept ==
  ASSUME Inv, Met, UNCHANGED <<online, host, hosts, isHost, roster>>,
         \A q \in Players : /\ q \in Joined' <=> q \in Joined
                            /\ phase'[q] = phase[q] \/ {q} \subseteq Joined \cap Joined',
         \A q \in Players : Alike(inbox[q], inbox'[q]),
         \A q \in Players : inbox[q] = <<>> /\ q \notin online => inbox'[q] = <<>>
  PROVE  Met'
<1>0. /\ online \subseteq Players /\ hosts \subseteq Players
      /\ \A q \in Players : /\ q \in Gone' <=> q \in Gone
                            /\ phase'[q] = "away" <=> phase[q] = "away"
                            /\ phase'[q] = "connected" <=> phase[q] = "connected"
  BY DEF Inv, TypeOK, Joined, Gone
<1>1. Silent'
  BY <1>0 DEF Met, Silent
<1>2. Appointed'
  BY <1>0 DEF Met, Appointed, Alike
<1>3. Truthful'
  BY <1>0 DEF Met, Truthful, Alike
<1>4. Superseded'
  BY <1>0 DEF Met, Superseded, Alike
<1>5. Joined' = Joined /\ Gone' = Gone
  BY <1>0 DEF Joined, Gone
<1>6. Listed'
  BY <1>0, <1>5 DEF Met, Listed, Alike, First
<1>7. Introduced'
  BY <1>0, <1>5 DEF Met, Introduced, Alike, First
<1>8. QED BY <1>1, <1>2, <1>3, <1>4, <1>6, <1>7 DEF Met

(* The types that the steps need.                                          *)
LEMMA Basics ==
  ASSUME Inv
  PROVE  /\ online \subseteq Players /\ hosts \subseteq Players
         /\ roster \in [Players -> SUBSET Players] /\ isHost \in [Players -> BOOLEAN]
         /\ phase \in [Players -> {"away", "connected", "playing", "crashed", "gone"}]
         /\ inbox \in [Players -> Seq(Proper)]
         /\ \A p \in Players : inbox[p] \in Seq(Proper)
         /\ \A p \in Players : p \in online <=> phase[p] \in There
BY DEF Inv, TypeOK, Present

(* An update published reaches everyone online but its sender.             *)
LEMMA Reaches ==
  ASSUME Inv, NEW p \in Players, NEW m \in Proper, Publish(p, m)
  PROVE  \A q \in Players : inbox'[q] = IF q \in online /\ q # p THEN Append(inbox[q], m)
                                                                ELSE inbox[q]
BY DEF Publish, Relay

(* An update polled leaves the inbox of its reader.                        *)
LEMMA Polls ==
  ASSUME Inv, NEW p \in Players, NEW kind, Received(p, kind)
  PROVE  /\ inbox[p] # <<>> /\ Head(inbox[p]).kind = kind /\ Head(inbox[p]) \in Proper
         /\ p \in online /\ p \in Joined /\ phase[p] = "playing"
         /\ \A q \in Players : Polled(p)[q] = IF q = p THEN Tail(inbox[p]) ELSE inbox[q]
<1>1. inbox \in [Players -> Seq(Proper)] /\ inbox[p] \in Seq(Proper) /\ inbox[p] # <<>>
  BY Basics DEF Received
<1>2. Head(inbox[p]) \in Proper
  BY <1>1, Popped
<1>3. \A q \in Players : Polled(p)[q] = IF q = p THEN Tail(inbox[p]) ELSE inbox[q]
  BY <1>1 DEF Polled
<1>4. QED BY <1>1, <1>2, <1>3, Basics DEF Received, Joined, There

(* The steps that are of the game: no inbox says anything else of who is   *)
(* there, whoever dies of them.                                            *)
LEMMA PlayMeets ==
  ASSUME Inv, Met, NEW p \in Players,
         \/ Move(p) \/ UpdatePoints(p) \/ UpdateTurn(p) \/ UpdateTile(p) \/ UpdateCharscores(p)
  PROVE  Met'
<1>0. UNCHANGED <<online, host, hosts, isHost, roster>>
  BY DEF Move, PlaceTile, LoadScores, StartTurn, GivePoints, UpdatePoints, UpdateTurn, UpdateTile,
     UpdateCharscores
<1>1. phase' = phase \/ (phase[p] = "playing" /\ phase' = [phase EXCEPT ![p] = "crashed"])
  BY DEF Move, PlaceTile, LoadScores, StartTurn, GivePoints, UpdatePoints, UpdateTurn, UpdateTile,
     UpdateCharscores, DoTurn, MayMove, Received
<1>2. \A q \in Players : /\ q \in Joined' <=> q \in Joined
                         /\ phase'[q] = phase[q] \/ {q} \subseteq Joined \cap Joined'
  BY <1>1, Basics DEF Joined
<1>3. CASE \E kind \in Played : Received(p, kind) /\ inbox' = Polled(p)
  <2>1. PICK kind \in Played : Received(p, kind) /\ inbox' = Polled(p)
    BY <1>3
  <2>2. /\ Head(inbox[p]).kind \in Played /\ inbox[p] # <<>> /\ p \in online
        /\ inbox[p] \in Seq(Proper)
        /\ \A q \in Players : inbox'[q] = IF q = p THEN Tail(inbox[p]) ELSE inbox[q]
    BY <2>1, Polls, Basics
  <2>3. Alike(inbox[p], Tail(inbox[p])) /\ \A q \in Players : Alike(inbox[q], inbox[q])
    BY <2>2, AlikePop DEF Alike
  <2>4. \A q \in Players : Alike(inbox[q], inbox'[q])
    BY <2>2, <2>3
  <2>5. QED BY <1>0, <1>2, <2>2, <2>4, MetKept
<1>4. CASE inbox' = inbox \/ \E m \in Proper : m.kind \in Played /\ Publish(p, m)
  <2>1. \A q \in Players : Alike(inbox[q], inbox[q])
    BY DEF Alike
  <2>2. CASE inbox' = inbox
    BY <1>0, <1>2, <2>1, <2>2, MetKept
  <2>3. ASSUME NEW m \in Proper, m.kind \in Played, Publish(p, m) PROVE Met'
    <3>1. \A q \in Players : inbox'[q] = IF q \in online /\ q # p THEN Append(inbox[q], m)
                                                                 ELSE inbox[q]
      BY <2>3, Reaches
    <3>2. \A q \in Players : Alike(inbox[q], Append(inbox[q], m))
      BY <2>3, Basics, AlikePush
    <3>3. \A q \in Players : Alike(inbox[q], inbox'[q])
      BY <2>1, <3>1, <3>2
    <3>4. QED BY <1>0, <1>2, <3>1, <3>3, MetKept
  <2>4. QED BY <1>4, <2>2, <2>3
<1>5. CASE Move(p)
  <2>1. PICK m : /\ inbox' = inbox \/ Publish(p, m)
                 /\ \/ \E char \in Typed : m = Valued("tile", NoPlayer, char)
                    \/ \E kind \in {"charscores", "noscores"} : m = Message(kind, NoPlayer)
                    \/ \E q \in Players : m = Message("turn", q)
                    \/ \E q \in Players, diff \in Points : m = Valued("points", q, diff)
    BY <1>5 DEF Move, PlaceTile, LoadScores, StartTurn, GivePoints
  <2>2. m \in Proper /\ m.kind \in Played
    BY <2>1, MessageFacts DEF Kinds, Played, Characters, Is
  <2>3. QED BY <1>4, <2>1, <2>2
<1>6. CASE UpdatePoints(p) \/ UpdateTurn(p) \/ UpdateTile(p) \/ UpdateCharscores(p)
  BY <1>3, <1>6 DEF UpdatePoints, UpdateTurn, UpdateTile, UpdateCharscores, Played
<1>7. QED BY <1>5, <1>6

(* A player connects, and is the first host or finds one.                  *)
LEMMA ConnectMeets == ASSUME Inv, Met, NEW p \in Players, Connect(p) PROVE Met'
<1>0. /\ p \notin online /\ phase[p] = "away" /\ ~isHost[p] /\ roster[p] = {}
      /\ p \notin hosts /\ p \notin Joined /\ p \notin Gone
      /\ UNCHANGED <<isHost, roster>> /\ online' = online \cup {p}
  BY Basics DEF Connect, Inv, Present, Met, Silent, There, Appointed, Joined, Gone, local
<1>1. /\ \A q \in Players : phase'[q] = IF q = p THEN "connected" ELSE phase[q]
      /\ \A q \in Players : q # p => inbox'[q] = inbox[q]
      /\ Joined' = Joined /\ Gone' = Gone
  BY <1>0, Basics DEF Connect, Joined, Gone
<1>2. /\ host = NoPlayer => /\ host' = p /\ hosts' = hosts \cup {p}
                            /\ inbox'[p] = <<Message("host", p)>>
      /\ host # NoPlayer => UNCHANGED <<host, hosts>> /\ inbox'[p] = <<>>
  BY Basics DEF Connect, Claims
<1>3. /\ \A kind \in {"join", "disconnect"} : \A q : ~Has(inbox'[p], kind, q)
      /\ \A q : ~Named(inbox'[p], q)
      /\ \A q : OneBye(inbox'[p], q)
      /\ ~HasKind(inbox'[p], "playerlist")
      /\ Promised(inbox'[p]) => host = NoPlayer
      /\ host = NoPlayer => inbox'[p] # <<>> /\ Head(inbox'[p]).kind = "host"
  BY <1>2 DEF Has, Named, OneBye, HasKind, Promised, Is, IsNamed, Message, Valued
<1>4. Silent'
  BY <1>0, <1>1 DEF Met, Silent
<1>5. Appointed'
  <2>1. \A g \in hosts' : phase'[g] # "away"
    BY <1>0, <1>1, <1>2, Basics DEF Met, Appointed
  <2>2. host' # NoPlayer => host' \in hosts' /\ host' \in online'
    BY <1>0, <1>2 DEF Met, Appointed
  <2>3. \A g \in hosts' : g \in online' => host' = g
    <3>1. \A g \in hosts : g \in online => host = g /\ g # NoPlayer
      BY Basics DEF Met, Appointed
    <3>2. QED BY <1>0, <1>2, <3>1
  <2>4. hosts' # {}
    BY <1>2 DEF Met, Appointed
  <2>5. \A q \in Players : isHost'[q] \/ Promised(inbox'[q]) => q \in hosts'
    <3>1. \A q \in Players : isHost[q] \/ Promised(inbox[q]) => q \in hosts
      BY DEF Met, Appointed
    <3>2. QED BY <1>0, <1>1, <1>2, <1>3, <3>1
  <2>6. QED BY <2>1, <2>2, <2>3, <2>4, <2>5 DEF Appointed
<1>6. Truthful'
  BY <1>0, <1>1, <1>3 DEF Met, Truthful
<1>7. Superseded'
  <2>1. host = NoPlayer => \A g \in hosts : g \notin online /\ g \in Gone
    <3>1. \A g \in hosts : /\ g \in Players /\ phase[g] # "away"
                           /\ g \in online => host = g /\ g # NoPlayer
      BY Basics DEF Met, Appointed
    <3>2. QED BY <3>1, Basics DEF Gone, There
  <2>2. QED BY <1>0, <1>1, <1>2, <1>3, <2>1, Basics DEF Met, Superseded
<1>8. ASSUME NEW h \in Players, First(h)' PROVE \/ h # p /\ First(h)
                                               \/ /\ h = p /\ hosts = {} /\ host = NoPlayer
                                                  /\ \A q \in Players : phase[q] = "away"
  BY <1>0, <1>2, <1>8 DEF First, Met, Appointed
<1>9. Listed'
  <2> SUFFICES ASSUME NEW h \in Players, First(h)'
               PROVE  (/\ \/ isHost[h]
                          \/ roster[h] = {} /\ inbox[h] # <<>> /\ Head(inbox[h]).kind = "host"
                       /\ ~HasKind(inbox[h], "playerlist")
                       /\ \A q \in Joined : q = h \/ q \in roster[h] \/ Has(inbox[h], "join", q)
                       /\ \A q \in Gone : \/ q \notin roster[h] /\ ~Has(inbox[h], "join", q)
                                          \/ Closes(inbox[h], q))'
    BY DEF Listed, First
  <2>1. CASE h # p /\ First(h)
    BY <1>0, <1>1, <2>1 DEF Met, Listed
  <2>2. CASE h = p /\ host = NoPlayer /\ \A q \in Players : phase[q] = "away"
    <3>1. Joined = {} /\ Gone = {}
      BY <2>2 DEF Joined, Gone
    <3>2. QED BY <1>0, <1>1, <1>3, <2>2, <3>1
  <2>3. QED BY <1>8, <2>1, <2>2
<1>10. Introduced'
  <2> SUFFICES ASSUME NEW h \in Players, First(h)', NEW a \in Joined', NEW q \in online'
               PROVE  (\/ a = q
                       \/ q = h
                       \/ a \in roster[q]
                       \/ Named(inbox[q], a)
                       \/ phase[q] = "connected"
                       \/ (a \in roster[h] \/ a = h) /\ Has(inbox[h], "join", q)
                       \/ Follows(inbox[h], a, q))'
    BY DEF Introduced, First
  <2>1. CASE q = p
    BY <1>1, <2>1
  <2>2. CASE q # p
    BY <1>0, <1>1, <1>8, <2>2, Basics DEF Met, Introduced, Joined
  <2>3. QED BY <2>1, <2>2
<1>11. QED BY <1>4, <1>5, <1>6, <1>7, <1>9, <1>10 DEF Met

(* A player joins, and everyone online will know.                          *)
LEMMA JoinMeets == ASSUME Inv, Met, NEW p \in Players, Join(p) PROVE Met'
<1> DEFINE m == Message("join", p)
<1>0. /\ p \in online /\ phase[p] = "connected" /\ p \notin Joined /\ p \notin Gone
      /\ UNCHANGED <<online, host, hosts, isHost, roster>>
      /\ m \in Proper /\ m.kind = "join" /\ m.player = p
  BY Basics, MessageFacts DEF Join, There, Joined, Gone, local, Kinds
<1>1. /\ \A q \in Players : phase'[q] = IF q = p THEN "playing" ELSE phase[q]
      /\ Joined' = Joined \cup {p} /\ Gone' = Gone
  BY <1>0, Basics DEF Join, Joined, Gone
<1>2. \A q \in Players : inbox'[q] = IF q \in online /\ q # p THEN Append(inbox[q], m) ELSE inbox[q]
  BY <1>0, Reaches DEF Join
<1> HIDE DEF m
<1>3. ASSUME NEW q \in Players, q \in online, q # p
      PROVE  /\ \A x : Has(inbox'[q], "join", x) <=> Has(inbox[q], "join", x) \/ x = p
             /\ \A x : Has(inbox'[q], "disconnect", x) <=> Has(inbox[q], "disconnect", x)
             /\ \A x : Named(inbox'[q], x) <=> Named(inbox[q], x) \/ x = p
             /\ HasKind(inbox'[q], "playerlist") => HasKind(inbox[q], "playerlist")
             /\ Promised(inbox'[q]) => Promised(inbox[q])
             /\ \A x : OneBye(inbox[q], x) => OneBye(inbox'[q], x)
             /\ \A x : Closes(inbox[q], x) /\ x # p => Closes(inbox'[q], x)
             /\ \A x, y : Follows(inbox[q], x, y) => Follows(inbox'[q], x, y)
             /\ \A x : Has(inbox[q], "join", x) => Follows(inbox'[q], x, p)
             /\ inbox[q] # <<>> => inbox'[q] # <<>> /\ Head(inbox'[q]) = Head(inbox[q])
  <2>1. inbox[q] \in Seq(Proper) /\ inbox'[q] = Append(inbox[q], m)
    BY <1>2, <1>3, Basics
  <2>2. \A x : /\ Is(m, "join", x) <=> x = p
               /\ ~Is(m, "disconnect", x)
               /\ IsNamed(m, x) <=> x = p
    BY <1>0 DEF Is, IsNamed
  <2>3. inbox[q] # <<>> => inbox'[q] # <<>> /\ Head(inbox'[q]) = Head(inbox[q])
    BY <1>0, <2>1, PushHead, Pushed
  <2>4. Promised(inbox'[q]) => Promised(inbox[q])
    BY <1>0, <2>1, BoxFacts
  <2>5. /\ \A x : Has(inbox'[q], "join", x) <=> Has(inbox[q], "join", x) \/ x = p
        /\ \A x : Has(inbox'[q], "disconnect", x) <=> Has(inbox[q], "disconnect", x)
        /\ \A x : Named(inbox'[q], x) <=> Named(inbox[q], x) \/ x = p
        /\ HasKind(inbox'[q], "playerlist") => HasKind(inbox[q], "playerlist")
    BY <1>0, <2>1, <2>2, PushSays
  <2>6. /\ \A x : OneBye(inbox[q], x) => OneBye(inbox'[q], x)
        /\ \A x : Closes(inbox[q], x) /\ x # p => Closes(inbox'[q], x)
        /\ \A x, y : Follows(inbox[q], x, y) => Follows(inbox'[q], x, y)
        /\ \A x : Has(inbox[q], "join", x) => Follows(inbox'[q], x, p)
    BY <1>0, <2>1, <2>2, PushOrders
  <2>7. QED BY <2>3, <2>4, <2>5, <2>6
<1>4. Silent'
  BY <1>0, <1>1, <1>2 DEF Met, Silent
<1>5. Appointed'
  <2>1. \A q \in Players : Promised(inbox'[q]) => Promised(inbox[q])
    BY <1>2, <1>3
  <2>2. phase[p] = "connected" /\ \A q \in Players : phase'[q] = "away" => phase[q] = "away"
    BY <1>0, <1>1
  <2>3. QED BY <1>0, <1>1, <2>1, <2>2, Basics DEF Met, Appointed
<1>6. Truthful'
  BY <1>0, <1>1, <1>2, <1>3 DEF Met, Truthful
<1>7. Superseded'
  <2> SUFFICES ASSUME NEW h \in hosts, NEW g \in hosts, h # g, h \in online'
               PROVE  g \in Gone' /\ g \notin roster'[h] /\ ~Named(inbox'[h], g)
    BY <1>0 DEF Superseded
  <2>1. h \in Players /\ h \in online /\ g \in Gone /\ g \notin roster[h] /\ ~Named(inbox[h], g)
    BY <1>0, Basics DEF Met, Superseded
  <2>2. QED BY <1>0, <1>1, <1>2, <1>3, <2>1
<1>8. Listed'
  BY <1>0, <1>1, <1>2, <1>3 DEF Met, Listed, First
<1>9. Introduced'
  <2> SUFFICES ASSUME NEW h \in Players, First(h)', NEW a \in Joined', NEW q \in online'
               PROVE  (\/ a = q
                       \/ q = h
                       \/ a \in roster[q]
                       \/ Named(inbox[q], a)
                       \/ phase[q] = "connected"
                       \/ (a \in roster[h] \/ a = h) /\ Has(inbox[h], "join", q)
                       \/ Follows(inbox[h], a, q))'
    BY DEF Introduced, First
  <2>0. First(h) /\ q \in online /\ q \in Players /\ h \in online
    BY <1>0, Basics DEF First
  <2>1. CASE a = p
    BY <1>2, <1>3, <2>0, <2>1
  <2>2. CASE q = p /\ q # h /\ a # p
    <3>1. a = h \/ a \in roster[h] \/ Has(inbox[h], "join", a)
      BY <1>1, <2>0, <2>2 DEF Met, Listed
    <3>2. QED BY <1>0, <1>3, <2>0, <2>2, <3>1
  <2>3. CASE q # p /\ a # p
    <3>1. \/ a = q
          \/ q = h
          \/ a \in roster[q]
          \/ Named(inbox[q], a)
          \/ phase[q] = "connected"
          \/ (a \in roster[h] \/ a = h) /\ Has(inbox[h], "join", q)
          \/ Follows(inbox[h], a, q)
      BY <1>1, <2>0, <2>3 DEF Met, Introduced
    <3>2. QED BY <1>0, <1>1, <1>2, <1>3, <2>0, <2>3, <3>1
  <2>4. QED BY <2>1, <2>2, <2>3
<1>10. QED BY <1>4, <1>5, <1>6, <1>7, <1>8, <1>9 DEF Met

(* A player leaves, and everyone else is told.                             *)
LEMMA LeaveMeets == ASSUME Inv, Met, NEW p \in Players, Leave(p) PROVE Met'
<1> DEFINE m == Message("disconnect", p)
<1>0. /\ p \in online /\ p \notin Gone /\ phase[p] # "away"
      /\ UNCHANGED <<hosts, isHost, roster>> /\ online' = online \ {p}
      /\ host' = IF host = p THEN NoPlayer ELSE host
      /\ m \in Proper /\ m.kind = "disconnect" /\ m.player = p
  BY Basics, MessageFacts DEF Leave, There, Gone, local, Kinds
<1>1. /\ \A q \in Players : phase'[q] = IF q = p THEN "gone" ELSE phase[q]
      /\ Joined' = Joined \ {p} /\ Gone' = Gone \cup {p}
  BY Basics DEF Leave, Joined, Gone
<1>2. \A q \in Players : inbox'[q] = IF q = p THEN <<>> ELSE
                                     IF q \in online THEN Append(inbox[q], m) ELSE inbox[q]
  BY Basics DEF Leave, Relay
<1> HIDE DEF m
<1>3. ASSUME NEW q \in Players, q \in online, q # p
      PROVE  /\ \A x : Has(inbox'[q], "join", x) <=> Has(inbox[q], "join", x)
             /\ \A x : Has(inbox'[q], "disconnect", x) <=> Has(inbox[q], "disconnect", x) \/ x = p
             /\ \A x : Named(inbox'[q], x) <=> Named(inbox[q], x)
             /\ HasKind(inbox'[q], "playerlist") => HasKind(inbox[q], "playerlist")
             /\ Promised(inbox'[q]) => Promised(inbox[q])
             /\ \A x : OneBye(inbox[q], x) /\ (x = p => ~Has(inbox[q], "disconnect", x))
                         => OneBye(inbox'[q], x)
             /\ \A x : Closes(inbox[q], x) => Closes(inbox'[q], x)
             /\ Closes(inbox'[q], p)
             /\ \A x, y : Follows(inbox[q], x, y) => Follows(inbox'[q], x, y)
             /\ inbox[q] # <<>> => inbox'[q] # <<>> /\ Head(inbox'[q]) = Head(inbox[q])
  <2>1. inbox[q] \in Seq(Proper) /\ inbox'[q] = Append(inbox[q], m)
    BY <1>2, <1>3, Basics
  <2>2. \A x : /\ ~Is(m, "join", x)
               /\ Is(m, "disconnect", x) <=> x = p
               /\ ~IsNamed(m, x)
    BY <1>0 DEF Is, IsNamed
  <2>3. inbox[q] # <<>> => inbox'[q] # <<>> /\ Head(inbox'[q]) = Head(inbox[q])
    BY <1>0, <2>1, PushHead, Pushed
  <2>4. Promised(inbox'[q]) => Promised(inbox[q])
    BY <1>0, <2>1, BoxFacts
  <2>5. /\ \A x : Has(inbox'[q], "join", x) <=> Has(inbox[q], "join", x)
        /\ \A x : Has(inbox'[q], "disconnect", x) <=> Has(inbox[q], "disconnect", x) \/ x = p
        /\ \A x : Named(inbox'[q], x) <=> Named(inbox[q], x)
        /\ HasKind(inbox'[q], "playerlist") => HasKind(inbox[q], "playerlist")
    BY <1>0, <2>1, <2>2, PushSays
  <2>6. /\ \A x : OneBye(inbox[q], x) /\ (x = p => ~Has(inbox[q], "disconnect", x))
                    => OneBye(inbox'[q], x)
        /\ \A x : Closes(inbox[q], x) => Closes(inbox'[q], x)
        /\ Closes(inbox'[q], p)
        /\ \A x, y : Follows(inbox[q], x, y) => Follows(inbox'[q], x, y)
    BY <1>0, <2>1, <2>2, PushOrders
  <2>7. QED BY <2>3, <2>4, <2>5, <2>6
<1>4. /\ \A kind, x : ~Has(<<>>, kind, x) /\ ~Named(<<>>, x) /\ OneBye(<<>>, x)
      /\ ~Promised(<<>>)
  BY DEF Has, Named, OneBye, Promised
<1>5. Silent'
  BY <1>0, <1>1, <1>2 DEF Met, Silent
<1>6. Appointed'
  <2>1. \A q \in Players : Promised(inbox'[q]) => Promised(inbox[q])
    BY <1>2, <1>3, <1>4
  <2>2. QED BY <1>0, <1>1, <2>1, Basics DEF Met, Appointed
<1>7. Truthful'
  <2> SUFFICES ASSUME NEW a \in Players, NEW q \in Players
               PROVE  (/\ q \in roster[a] \/ Named(inbox[a], q) => q \in Joined \/ q \in Gone
                       /\ Has(inbox[a], "disconnect", q) => q \in Gone
                       /\ OneBye(inbox[a], q)
                       /\ a \notin roster[a] /\ ~Has(inbox[a], "join", a))'
    BY DEF Truthful
  <2>1. /\ q \in roster[a] \/ Named(inbox[a], q) => q \in Joined \/ q \in Gone
        /\ Has(inbox[a], "disconnect", q) => q \in Gone
        /\ OneBye(inbox[a], q)
        /\ a \notin roster[a] /\ ~Has(inbox[a], "join", a)
    BY DEF Met, Truthful
  <2>2. CASE a = p
    BY <1>0, <1>1, <1>2, <1>4, <2>1, <2>2
  <2>3. CASE a # p /\ a \in online
    BY <1>0, <1>1, <1>3, <2>1, <2>3
  <2>4. CASE a # p /\ a \notin online
    BY <1>0, <1>1, <1>2, <2>1, <2>4
  <2>5. QED BY <2>2, <2>3, <2>4
<1>8. Superseded'
  <2> SUFFICES ASSUME NEW h \in hosts, NEW g \in hosts, h # g, h \in online'
               PROVE  g \in Gone' /\ g \notin roster'[h] /\ ~Named(inbox'[h], g)
    BY <1>0 DEF Superseded
  <2>1. h \in Players /\ h \in online /\ g \in Gone /\ g \notin roster[h] /\ ~Named(inbox[h], g)
    BY <1>0, Basics DEF Met, Superseded
  <2>2. QED BY <1>0, <1>1, <1>2, <1>3, <2>1
<1>9. Listed'
  BY <1>0, <1>1, <1>2, <1>3 DEF Met, Listed, First
<1>10. Introduced'
  <2> SUFFICES ASSUME NEW h \in Players, First(h)', NEW a \in Joined', NEW q \in online'
               PROVE  (\/ a = q
                       \/ q = h
                       \/ a \in roster[q]
                       \/ Named(inbox[q], a)
                       \/ phase[q] = "connected"
                       \/ (a \in roster[h] \/ a = h) /\ Has(inbox[h], "join", q)
                       \/ Follows(inbox[h], a, q))'
    BY DEF Introduced, First
  <2>0. First(h) /\ q \in online /\ q \in Players /\ h \in online /\ q # p /\ h # p /\ a \in Joined
    BY <1>0, <1>1, Basics DEF First
  <2>1. \/ a = q
        \/ q = h
        \/ a \in roster[q]
        \/ Named(inbox[q], a)
        \/ phase[q] = "connected"
        \/ (a \in roster[h] \/ a = h) /\ Has(inbox[h], "join", q)
        \/ Follows(inbox[h], a, q)
    BY <2>0 DEF Met, Introduced
  <2>2. QED BY <1>0, <1>1, <1>3, <2>0, <2>1
<1>11. QED BY <1>5, <1>6, <1>7, <1>8, <1>9, <1>10 DEF Met

(* What an inbox says after an update of another kind.                     *)
LEMMA PollSays ==
  ASSUME Inv, NEW p \in Players, inbox[p] # <<>>
  PROVE  /\ \A kind, x : Has(inbox[p], kind, x) <=> \/ Has(Tail(inbox[p]), kind, x)
                                                    \/ Is(Head(inbox[p]), kind, x)
         /\ \A x : Named(inbox[p], x) <=> \/ Named(Tail(inbox[p]), x)
                                          \/ IsNamed(Head(inbox[p]), x)
         /\ HasKind(Tail(inbox[p]), "playerlist") => HasKind(inbox[p], "playerlist")
         /\ Head(inbox[p]).kind = "playerlist" => HasKind(inbox[p], "playerlist")
         /\ Promised(Tail(inbox[p])) => Promised(inbox[p])
         /\ \A x : OneBye(inbox[p], x) => /\ OneBye(Tail(inbox[p]), x)
                                          /\ Is(Head(inbox[p]), "disconnect", x)
                                               => ~Has(Tail(inbox[p]), "disconnect", x)
         /\ \A x : Closes(inbox[p], x) => \/ Closes(Tail(inbox[p]), x)
                                          \/ /\ Is(Head(inbox[p]), "disconnect", x)
                                             /\ ~Has(Tail(inbox[p]), "join", x)
         /\ \A x, y : Follows(inbox[p], x, y) => \/ Follows(Tail(inbox[p]), x, y)
                                                 \/ /\ Is(Head(inbox[p]), "join", x)
                                                    /\ Has(Tail(inbox[p]), "join", y)
<1>1. inbox[p] \in Seq(Proper)
  BY Basics
<1>2. /\ \A kind, x : Has(inbox[p], kind, x) <=> \/ Has(Tail(inbox[p]), kind, x)
                                                 \/ Is(Head(inbox[p]), kind, x)
      /\ \A kind : HasKind(inbox[p], kind) <=> \/ HasKind(Tail(inbox[p]), kind)
                                               \/ Head(inbox[p]).kind = kind
      /\ \A x : Named(inbox[p], x) <=> Named(Tail(inbox[p]), x) \/ IsNamed(Head(inbox[p]), x)
  BY <1>1, PopSays
<1>3. Promised(Tail(inbox[p])) => Promised(inbox[p])
  BY <1>1, BoxFacts
<1>4. /\ \A x : OneBye(inbox[p], x) => /\ OneBye(Tail(inbox[p]), x)
                                       /\ Is(Head(inbox[p]), "disconnect", x)
                                            => ~Has(Tail(inbox[p]), "disconnect", x)
      /\ \A x : Closes(inbox[p], x) => \/ Closes(Tail(inbox[p]), x)
                                       \/ /\ Is(Head(inbox[p]), "disconnect", x)
                                          /\ ~Has(Tail(inbox[p]), "join", x)
      /\ \A x, y : Follows(inbox[p], x, y) => \/ Follows(Tail(inbox[p]), x, y)
                                              \/ /\ Is(Head(inbox[p]), "join", x)
                                                 /\ Has(Tail(inbox[p]), "join", y)
  BY <1>1, PopOrders
<1>5. QED BY <1>2, <1>3, <1>4

(* An update that is neither a join nor a disconnect.                      *)
LEMMA PollOther ==
  ASSUME Inv, NEW p \in Players, inbox[p] # <<>>,
         Head(inbox[p]).kind \notin {"join", "disconnect"}
  PROVE  /\ \A x : Has(inbox[p], "join", x) <=> Has(Tail(inbox[p]), "join", x)
         /\ \A x : Has(inbox[p], "disconnect", x) <=> Has(Tail(inbox[p]), "disconnect", x)
         /\ \A x : Named(inbox[p], x) <=> \/ Named(Tail(inbox[p]), x)
                                          \/ /\ Head(inbox[p]).kind = "playerlist"
                                             /\ x \in Head(inbox[p]).players
         /\ HasKind(Tail(inbox[p]), "playerlist") => HasKind(inbox[p], "playerlist")
         /\ Head(inbox[p]).kind = "playerlist" => HasKind(inbox[p], "playerlist")
         /\ Promised(Tail(inbox[p])) => Promised(inbox[p])
         /\ \A x : OneBye(inbox[p], x) => OneBye(Tail(inbox[p]), x)
         /\ \A x : Closes(inbox[p], x) => Closes(Tail(inbox[p]), x)
         /\ \A x, y : Follows(inbox[p], x, y) => Follows(Tail(inbox[p]), x, y)
<1>1. \A x : /\ ~Is(Head(inbox[p]), "join", x) /\ ~Is(Head(inbox[p]), "disconnect", x)
             /\ IsNamed(Head(inbox[p]), x) <=> /\ Head(inbox[p]).kind = "playerlist"
                                               /\ x \in Head(inbox[p]).players
  BY DEF Is, IsNamed
<1>2. /\ \A x : Has(inbox[p], "join", x) <=> \/ Has(Tail(inbox[p]), "join", x)
                                             \/ Is(Head(inbox[p]), "join", x)
      /\ \A x : Has(inbox[p], "disconnect", x) <=> \/ Has(Tail(inbox[p]), "disconnect", x)
                                                   \/ Is(Head(inbox[p]), "disconnect", x)
      /\ \A x : Named(inbox[p], x) <=> Named(Tail(inbox[p]), x) \/ IsNamed(Head(inbox[p]), x)
  BY PollSays
<1>3. /\ \A x : Has(inbox[p], "join", x) <=> Has(Tail(inbox[p]), "join", x)
      /\ \A x : Has(inbox[p], "disconnect", x) <=> Has(Tail(inbox[p]), "disconnect", x)
      /\ \A x : Named(inbox[p], x) <=> \/ Named(Tail(inbox[p]), x)
                                       \/ /\ Head(inbox[p]).kind = "playerlist"
                                          /\ x \in Head(inbox[p]).players
  BY <1>1, <1>2
<1>4. /\ HasKind(Tail(inbox[p]), "playerlist") => HasKind(inbox[p], "playerlist")
      /\ Head(inbox[p]).kind = "playerlist" => HasKind(inbox[p], "playerlist")
      /\ Promised(Tail(inbox[p])) => Promised(inbox[p])
      /\ \A x : OneBye(inbox[p], x) => OneBye(Tail(inbox[p]), x)
  BY PollSays
<1>5. /\ \A x : Closes(inbox[p], x) => Closes(Tail(inbox[p]), x)
      /\ \A x, y : Follows(inbox[p], x, y) => Follows(Tail(inbox[p]), x, y)
  <2>1. /\ \A x : Closes(inbox[p], x) => \/ Closes(Tail(inbox[p]), x)
                                         \/ Is(Head(inbox[p]), "disconnect", x)
        /\ \A x, y : Follows(inbox[p], x, y) => \/ Follows(Tail(inbox[p]), x, y)
                                                \/ Is(Head(inbox[p]), "join", x)
    BY PollSays
  <2>2. QED BY <1>1, <2>1
<1>6. QED BY <1>3, <1>4, <1>5

(* A player who is polled keeps Silent: it is online, and not away.        *)
LEMMA PollMeets ==
  ASSUME Inv, Met, NEW p \in Players, p \in Joined, p \in online, UNCHANGED <<online, phase>>,
         \A q \in Players : q # p => inbox'[q] = inbox[q] \/ q \in online,
         \A q \in Players : q # p => roster'[q] = roster[q]
  PROVE  Silent' /\ Joined' = Joined /\ Gone' = Gone
BY DEF Met, Silent, Joined, Gone

(* The player that the server made host finds out.                         *)
LEMMA UpdateHostMeets == ASSUME Inv, Met, NEW p \in Players, UpdateHost(p) PROVE Met'
<1>0. /\ UNCHANGED <<phase, online, host, hosts, roster>> /\ p \in online /\ p \in Joined
      /\ inbox[p] # <<>> /\ Head(inbox[p]).kind = "host"
      /\ \A q \in Players : inbox'[q] = IF q = p THEN Tail(inbox[p]) ELSE inbox[q]
      /\ \A q \in Players : isHost'[q] = IF q = p THEN TRUE ELSE isHost[q]
  BY Polls, Basics DEF UpdateHost
<1>1. Silent' /\ Joined' = Joined /\ Gone' = Gone
  BY <1>0, PollMeets
<1>2. Promised(inbox[p])
  BY <1>0, BoxFacts, Basics
<1>3. /\ \A x : Has(inbox[p], "join", x) <=> Has(Tail(inbox[p]), "join", x)
      /\ \A x : Has(inbox[p], "disconnect", x) <=> Has(Tail(inbox[p]), "disconnect", x)
      /\ \A x : Named(inbox[p], x) <=> Named(Tail(inbox[p]), x)
      /\ HasKind(Tail(inbox[p]), "playerlist") => HasKind(inbox[p], "playerlist")
      /\ Promised(Tail(inbox[p])) => Promised(inbox[p])
      /\ \A x : OneBye(inbox[p], x) => OneBye(Tail(inbox[p]), x)
      /\ \A x : Closes(inbox[p], x) => Closes(Tail(inbox[p]), x)
      /\ \A x, y : Follows(inbox[p], x, y) => Follows(Tail(inbox[p]), x, y)
  BY <1>0, PollOther
<1>4. Appointed'
  BY <1>0, <1>2, <1>3 DEF Met, Appointed
<1>5. Truthful'
  BY <1>0, <1>1, <1>3 DEF Met, Truthful
<1>6. Superseded'
  BY <1>0, <1>1, <1>3, Basics DEF Met, Superseded
<1>7. Listed'
  <2> SUFFICES ASSUME NEW h \in Players, First(h)'
               PROVE  (/\ \/ isHost[h]
                          \/ roster[h] = {} /\ inbox[h] # <<>> /\ Head(inbox[h]).kind = "host"
                       /\ ~HasKind(inbox[h], "playerlist")
                       /\ \A q \in Joined : q = h \/ q \in roster[h] \/ Has(inbox[h], "join", q)
                       /\ \A q \in Gone : \/ q \notin roster[h] /\ ~Has(inbox[h], "join", q)
                                          \/ Closes(inbox[h], q))'
    BY DEF Listed, First
  <2>1. First(h)
    BY <1>0 DEF First
  <2>2. /\ isHost[h] \/ (roster[h] = {} /\ inbox[h] # <<>> /\ Head(inbox[h]).kind = "host")
        /\ ~HasKind(inbox[h], "playerlist")
        /\ \A q \in Joined : q = h \/ q \in roster[h] \/ Has(inbox[h], "join", q)
        /\ \A q \in Gone : \/ q \notin roster[h] /\ ~Has(inbox[h], "join", q)
                           \/ Closes(inbox[h], q)
    BY <2>1 DEF Met, Listed
  <2>3. QED BY <1>0, <1>1, <1>3, <2>1, <2>2
<1>8. Introduced'
  <2> SUFFICES ASSUME NEW h \in Players, First(h)', NEW a \in Joined', NEW q \in online'
               PROVE  (\/ a = q
                       \/ q = h
                       \/ a \in roster[q]
                       \/ Named(inbox[q], a)
                       \/ phase[q] = "connected"
                       \/ (a \in roster[h] \/ a = h) /\ Has(inbox[h], "join", q)
                       \/ Follows(inbox[h], a, q))'
    BY DEF Introduced, First
  <2>1. First(h) /\ q \in online /\ q \in Players /\ a \in Joined
    BY <1>0, <1>1, Basics DEF First
  <2>2. \/ a = q
        \/ q = h
        \/ a \in roster[q]
        \/ Named(inbox[q], a)
        \/ phase[q] = "connected"
        \/ (a \in roster[h] \/ a = h) /\ Has(inbox[h], "join", q)
        \/ Follows(inbox[h], a, q)
    BY <2>1 DEF Met, Introduced
  <2>3. QED BY <1>0, <1>1, <1>3, <2>1, <2>2
<1>9. QED BY <1>1, <1>4, <1>5, <1>6, <1>7, <1>8 DEF Met

(* A player is told that one has left, and erases it.                      *)
LEMMA UpdateDisconnectMeets ==
  ASSUME Inv, Met, NEW p \in Players, UpdateDisconnect(p) PROVE Met'
<1> DEFINE x == Head(inbox[p]).player
<1>0. /\ UNCHANGED <<phase, online, host, hosts, isHost>> /\ p \in online /\ p \in Joined
      /\ inbox[p] # <<>> /\ Head(inbox[p]).kind = "disconnect"
      /\ \A q \in Players : inbox'[q] = IF q = p THEN Tail(inbox[p]) ELSE inbox[q]
      /\ \A q \in Players : roster'[q] = IF q = p THEN roster[p] \ {x} ELSE roster[q]
  BY Polls, Basics DEF UpdateDisconnect, Without
<1>1. Silent' /\ Joined' = Joined /\ Gone' = Gone
  BY <1>0, PollMeets
<1>2. \A y : /\ ~Is(Head(inbox[p]), "join", y) /\ ~IsNamed(Head(inbox[p]), y)
             /\ Is(Head(inbox[p]), "disconnect", y) <=> y = x
  BY <1>0 DEF Is, IsNamed
<1> HIDE DEF x
<1>3. /\ \A y : Has(inbox[p], "join", y) <=> Has(Tail(inbox[p]), "join", y)
      /\ \A y : Has(inbox[p], "disconnect", y) <=> Has(Tail(inbox[p]), "disconnect", y) \/ y = x
      /\ \A y : Named(inbox[p], y) <=> Named(Tail(inbox[p]), y)
      /\ HasKind(Tail(inbox[p]), "playerlist") => HasKind(inbox[p], "playerlist")
      /\ Promised(Tail(inbox[p])) => Promised(inbox[p])
      /\ \A y : OneBye(inbox[p], y) => OneBye(Tail(inbox[p]), y)
      /\ \A y : Closes(inbox[p], y) => \/ Closes(Tail(inbox[p]), y)
                                       \/ y = x /\ ~Has(Tail(inbox[p]), "join", y)
      /\ \A y, z : Follows(inbox[p], y, z) => Follows(Tail(inbox[p]), y, z)
  BY <1>0, <1>2, PollSays
<1>4. \A a \in Joined : a # x
  BY <1>0, <1>3 DEF Met, Truthful, Joined, Gone
<1>5. Appointed'
  BY <1>0, <1>3 DEF Met, Appointed
<1>6. Truthful'
  BY <1>0, <1>1, <1>3 DEF Met, Truthful
<1>7. Superseded'
  BY <1>0, <1>1, <1>3, Basics DEF Met, Superseded
<1>8. Listed'
  <2> SUFFICES ASSUME NEW h \in Players, First(h)'
               PROVE  (/\ \/ isHost[h]
                          \/ roster[h] = {} /\ inbox[h] # <<>> /\ Head(inbox[h]).kind = "host"
                       /\ ~HasKind(inbox[h], "playerlist")
                       /\ \A q \in Joined : q = h \/ q \in roster[h] \/ Has(inbox[h], "join", q)
                       /\ \A q \in Gone : \/ q \notin roster[h] /\ ~Has(inbox[h], "join", q)
                                          \/ Closes(inbox[h], q))'
    BY DEF Listed, First
  <2>1. First(h)
    BY <1>0 DEF First
  <2>2. /\ isHost[h] \/ (roster[h] = {} /\ inbox[h] # <<>> /\ Head(inbox[h]).kind = "host")
        /\ ~HasKind(inbox[h], "playerlist")
        /\ \A q \in Joined : q = h \/ q \in roster[h] \/ Has(inbox[h], "join", q)
        /\ \A q \in Gone : \/ q \notin roster[h] /\ ~Has(inbox[h], "join", q)
                           \/ Closes(inbox[h], q)
    BY <2>1 DEF Met, Listed
  <2>3. QED BY <1>0, <1>1, <1>3, <1>4, <2>1, <2>2
<1>9. Introduced'
  <2> SUFFICES ASSUME NEW h \in Players, First(h)', NEW a \in Joined', NEW q \in online'
               PROVE  (\/ a = q
                       \/ q = h
                       \/ a \in roster[q]
                       \/ Named(inbox[q], a)
                       \/ phase[q] = "connected"
                       \/ (a \in roster[h] \/ a = h) /\ Has(inbox[h], "join", q)
                       \/ Follows(inbox[h], a, q))'
    BY DEF Introduced, First
  <2>1. First(h) /\ q \in online /\ q \in Players /\ a \in Joined
    BY <1>0, <1>1, Basics DEF First
  <2>2. \/ a = q
        \/ q = h
        \/ a \in roster[q]
        \/ Named(inbox[q], a)
        \/ phase[q] = "connected"
        \/ (a \in roster[h] \/ a = h) /\ Has(inbox[h], "join", q)
        \/ Follows(inbox[h], a, q)
    BY <2>1 DEF Met, Introduced
  <2>3. QED BY <1>0, <1>1, <1>3, <1>4, <2>1, <2>2
<1>10. QED BY <1>1, <1>5, <1>6, <1>7, <1>8, <1>9 DEF Met

(* A player is told of all players by the host, who is another.            *)
LEMMA UpdatePlayerlistMeets ==
  ASSUME Inv, Met, NEW p \in Players, UpdatePlayerlist(p) PROVE Met'
<1> DEFINE l == Head(inbox[p]).players
<1>0. /\ UNCHANGED <<phase, online, host, hosts, isHost>> /\ p \in online /\ p \in Joined
      /\ inbox[p] # <<>> /\ Head(inbox[p]).kind = "playerlist"
      /\ \A q \in Players : inbox'[q] = IF q = p THEN Tail(inbox[p]) ELSE inbox[q]
      /\ \A q \in Players : roster'[q] = IF q = p THEN roster[p] \cup (l \ {p}) ELSE roster[q]
  BY Polls, Basics DEF UpdatePlayerlist
<1>1. Silent' /\ Joined' = Joined /\ Gone' = Gone
  BY <1>0, PollMeets
<1>2. /\ \A y : Has(inbox[p], "join", y) <=> Has(Tail(inbox[p]), "join", y)
      /\ \A y : Has(inbox[p], "disconnect", y) <=> Has(Tail(inbox[p]), "disconnect", y)
      /\ \A y : Named(inbox[p], y) <=> Named(Tail(inbox[p]), y) \/ y \in l
      /\ HasKind(inbox[p], "playerlist")
      /\ Promised(Tail(inbox[p])) => Promised(inbox[p])
      /\ \A y : OneBye(inbox[p], y) => OneBye(Tail(inbox[p]), y)
      /\ \A y : Closes(inbox[p], y) => Closes(Tail(inbox[p]), y)
      /\ \A y, z : Follows(inbox[p], y, z) => Follows(Tail(inbox[p]), y, z)
  BY <1>0, PollOther
<1> HIDE DEF l
<1>3. ~First(p)
  BY <1>2 DEF Met, Listed
<1>4. Appointed'
  BY <1>0, <1>2 DEF Met, Appointed
<1>5. Truthful'
  BY <1>0, <1>1, <1>2 DEF Met, Truthful
<1>6. Superseded'
  BY <1>0, <1>1, <1>2, Basics DEF Met, Superseded
<1>7. Listed'
  <2> SUFFICES ASSUME NEW h \in Players, First(h)'
               PROVE  (/\ \/ isHost[h]
                          \/ roster[h] = {} /\ inbox[h] # <<>> /\ Head(inbox[h]).kind = "host"
                       /\ ~HasKind(inbox[h], "playerlist")
                       /\ \A q \in Joined : q = h \/ q \in roster[h] \/ Has(inbox[h], "join", q)
                       /\ \A q \in Gone : \/ q \notin roster[h] /\ ~Has(inbox[h], "join", q)
                                          \/ Closes(inbox[h], q))'
    BY DEF Listed, First
  <2>1. First(h)
    BY <1>0 DEF First
  <2>2. /\ isHost[h] \/ (roster[h] = {} /\ inbox[h] # <<>> /\ Head(inbox[h]).kind = "host")
        /\ ~HasKind(inbox[h], "playerlist")
        /\ \A q \in Joined : q = h \/ q \in roster[h] \/ Has(inbox[h], "join", q)
        /\ \A q \in Gone : \/ q \notin roster[h] /\ ~Has(inbox[h], "join", q)
                           \/ Closes(inbox[h], q)
    BY <2>1 DEF Met, Listed
  <2>3. QED BY <1>0, <1>1, <1>2, <1>3, <2>1, <2>2
<1>8. Introduced'
  <2> SUFFICES ASSUME NEW h \in Players, First(h)', NEW a \in Joined', NEW q \in online'
               PROVE  (\/ a = q
                       \/ q = h
                       \/ a \in roster[q]
                       \/ Named(inbox[q], a)
                       \/ phase[q] = "connected"
                       \/ (a \in roster[h] \/ a = h) /\ Has(inbox[h], "join", q)
                       \/ Follows(inbox[h], a, q))'
    BY DEF Introduced, First
  <2>1. First(h) /\ q \in online /\ q \in Players /\ a \in Joined
    BY <1>0, <1>1, Basics DEF First
  <2>2. \/ a = q
        \/ q = h
        \/ a \in roster[q]
        \/ Named(inbox[q], a)
        \/ phase[q] = "connected"
        \/ (a \in roster[h] \/ a = h) /\ Has(inbox[h], "join", q)
        \/ Follows(inbox[h], a, q)
    BY <2>1 DEF Met, Introduced
  <2>3. QED BY <1>0, <1>1, <1>2, <1>3, <2>1, <2>2
<1>9. QED BY <1>1, <1>4, <1>5, <1>6, <1>7, <1>8 DEF Met

(* The joiner is known, and the host's answer names everyone it knows.     *)
LEMMA Answers ==
  ASSUME Inv, Met, NEW p \in Players, UpdateJoin(p)
  PROVE  \E x \in Players, m \in Proper :
           /\ UNCHANGED <<phase, online, host, hosts, isHost, scored, score, turn>>
           /\ p \in online /\ p \in Joined /\ inbox[p] # <<>> /\ Head(inbox[p]).kind = "join"
           /\ \A q \in Players : roster'[q] = IF q = p THEN roster[p] \cup {x} ELSE roster[q]
           /\ Head(inbox[p]).player = x /\ x # p /\ (x \in Joined \/ x \in Gone)
           /\ m.kind = "playerlist" /\ m.players = roster[p] \cup {p} \cup {x}
           /\ \A q \in Players : inbox'[q] = IF q = p THEN Tail(inbox[p]) ELSE
                                             IF isHost[p] /\ q \in online THEN Append(inbox[q], m)
                                             ELSE inbox[q]
<1> DEFINE x == Head(inbox[p]).player
           m == Playerlist(roster[p] \cup {p} \cup {x})
<1>0. /\ UNCHANGED <<phase, online, host, hosts, isHost, scored, score, turn>>
      /\ p \in online /\ p \in Joined
      /\ inbox[p] # <<>> /\ Head(inbox[p]).kind = "join" /\ inbox[p] \in Seq(Proper)
      /\ \A q \in Players : roster'[q] = IF q = p THEN roster[p] \cup {x} ELSE roster[q]
  BY Polls, Basics DEF UpdateJoin
<1>1. x \in Players
  BY Pops DEF UpdateJoin, Kinds
<1>2. Is(Head(inbox[p]), "join", x) /\ IsNamed(Head(inbox[p]), x)
  BY <1>0 DEF Is, IsNamed
<1>3. x # p /\ (x \in Joined \/ x \in Gone)
  <2>1. Has(inbox[p], "join", x) <=> \/ Has(Tail(inbox[p]), "join", x)
                                    \/ Is(Head(inbox[p]), "join", x)
    BY <1>0, PollSays
  <2>2. Named(inbox[p], x) <=> Named(Tail(inbox[p]), x) \/ IsNamed(Head(inbox[p]), x)
    BY <1>0, PollSays
  <2>3. QED BY <1>1, <1>2, <2>1, <2>2 DEF Met, Truthful
<1>4. m \in Proper /\ m.kind = "playerlist" /\ m.players = roster[p] \cup {p} \cup {x}
  <2>1. roster[p] \cup {p} \cup {x} \in SUBSET Players
    BY <1>1, Basics
  <2>2. QED BY <2>1, MessageFacts DEF Playerlist
<1>5. \A q \in Players : inbox'[q] = IF q = p THEN Tail(inbox[p]) ELSE
                                     IF isHost[p] /\ q \in online THEN Append(inbox[q], m)
                                     ELSE inbox[q]
  <2>1. \A q \in Players : Polled(p)[q] = IF q = p THEN Tail(inbox[p]) ELSE inbox[q]
    BY Polls DEF UpdateJoin
  <2>2. inbox' = IF isHost[p] THEN Relay(Polled(p), p, m) ELSE Polled(p)
    BY DEF UpdateJoin, ListWith, Known
  <2>3. QED BY <2>1, <2>2 DEF Relay
<1>6. Head(inbox[p]).player = x
  OBVIOUS
<1> HIDE DEF x, m
<1>7. QED BY <1>0, <1>1, <1>3, <1>4, <1>5, <1>6

(* A player is told that one has joined; the host answers with its list.   *)
LEMMA UpdateJoinMeets == ASSUME Inv, Met, NEW p \in Players, UpdateJoin(p) PROVE Met'
<1>0. PICK x \in Players, m \in Proper :
        /\ UNCHANGED <<phase, online, host, hosts, isHost, scored, score, turn>>
        /\ p \in online /\ p \in Joined /\ inbox[p] # <<>> /\ Head(inbox[p]).kind = "join"
        /\ \A q \in Players : roster'[q] = IF q = p THEN roster[p] \cup {x} ELSE roster[q]
        /\ Head(inbox[p]).player = x /\ x # p /\ (x \in Joined \/ x \in Gone)
        /\ m.kind = "playerlist" /\ m.players = roster[p] \cup {p} \cup {x}
        /\ \A q \in Players : inbox'[q] = IF q = p THEN Tail(inbox[p]) ELSE
                                          IF isHost[p] /\ q \in online THEN Append(inbox[q], m)
                                          ELSE inbox[q]
  BY Answers
<1>1. inbox[p] \in Seq(Proper)
  BY Basics
<1>2. \A y : /\ Is(Head(inbox[p]), "join", y) <=> y = x
             /\ ~Is(Head(inbox[p]), "disconnect", y)
             /\ IsNamed(Head(inbox[p]), y) <=> y = x
  BY <1>0 DEF Is, IsNamed
<1>5. \A y \in m.players : y \in Joined \/ y \in Gone
  BY <1>0, Basics DEF Met, Truthful
<1>7. /\ \A y : Has(inbox[p], "join", y) <=> Has(Tail(inbox[p]), "join", y) \/ y = x
      /\ \A y : Has(inbox[p], "disconnect", y) <=> Has(Tail(inbox[p]), "disconnect", y)
      /\ \A y : Named(inbox[p], y) <=> Named(Tail(inbox[p]), y) \/ y = x
      /\ HasKind(Tail(inbox[p]), "playerlist") => HasKind(inbox[p], "playerlist")
      /\ Promised(Tail(inbox[p])) => Promised(inbox[p])
      /\ \A y : OneBye(inbox[p], y) => OneBye(Tail(inbox[p]), y)
      /\ \A y : Closes(inbox[p], y) => Closes(Tail(inbox[p]), y)
      /\ \A y, z : Follows(inbox[p], y, z) => \/ Follows(Tail(inbox[p]), y, z)
                                              \/ y = x /\ Has(Tail(inbox[p]), "join", z)
  <2>1. /\ \A y : Has(inbox[p], "join", y) <=> \/ Has(Tail(inbox[p]), "join", y)
                                               \/ Is(Head(inbox[p]), "join", y)
        /\ \A y : Has(inbox[p], "disconnect", y) <=> \/ Has(Tail(inbox[p]), "disconnect", y)
                                                     \/ Is(Head(inbox[p]), "disconnect", y)
        /\ \A y : Named(inbox[p], y) <=> Named(Tail(inbox[p]), y) \/ IsNamed(Head(inbox[p]), y)
    BY <1>0, PollSays
  <2>2. /\ HasKind(Tail(inbox[p]), "playerlist") => HasKind(inbox[p], "playerlist")
        /\ Promised(Tail(inbox[p])) => Promised(inbox[p])
        /\ \A y : OneBye(inbox[p], y) => OneBye(Tail(inbox[p]), y)
    BY <1>0, PollSays
  <2>3. /\ \A y : Closes(inbox[p], y) => \/ Closes(Tail(inbox[p]), y)
                                         \/ Is(Head(inbox[p]), "disconnect", y)
        /\ \A y, z : Follows(inbox[p], y, z) => \/ Follows(Tail(inbox[p]), y, z)
                                                \/ /\ Is(Head(inbox[p]), "join", y)
                                                   /\ Has(Tail(inbox[p]), "join", z)
    BY <1>0, PollSays
  <2>4. /\ \A y : Has(inbox[p], "join", y) <=> Has(Tail(inbox[p]), "join", y) \/ y = x
        /\ \A y : Has(inbox[p], "disconnect", y) <=> Has(Tail(inbox[p]), "disconnect", y)
        /\ \A y : Named(inbox[p], y) <=> Named(Tail(inbox[p]), y) \/ y = x
    BY <1>2, <2>1
  <2>5. /\ \A y : Closes(inbox[p], y) => Closes(Tail(inbox[p]), y)
        /\ \A y, z : Follows(inbox[p], y, z) => \/ Follows(Tail(inbox[p]), y, z)
                                                \/ y = x /\ Has(Tail(inbox[p]), "join", z)
    BY <1>2, <2>3
  <2>6. QED BY <2>2, <2>4, <2>5
<1>8. ASSUME NEW q \in Players, q # p, isHost[p], q \in online
      PROVE  /\ \A y : Has(inbox'[q], "join", y) <=> Has(inbox[q], "join", y)
             /\ \A y : Has(inbox'[q], "disconnect", y) <=> Has(inbox[q], "disconnect", y)
             /\ \A y : Named(inbox'[q], y) <=> Named(inbox[q], y) \/ y \in m.players
             /\ Promised(inbox'[q]) => Promised(inbox[q])
             /\ \A y : OneBye(inbox[q], y) => OneBye(inbox'[q], y)
             /\ \A y, z : Follows(inbox[q], y, z) => Follows(inbox'[q], y, z)
  <2>1. inbox[q] \in Seq(Proper) /\ inbox'[q] = Append(inbox[q], m)
    BY <1>0, <1>8, Basics
  <2>2. \A y : /\ ~Is(m, "join", y) /\ ~Is(m, "disconnect", y)
               /\ IsNamed(m, y) <=> y \in m.players
    BY <1>0 DEF Is, IsNamed
  <2>3. Promised(inbox'[q]) => Promised(inbox[q])
    BY <1>0, <2>1, BoxFacts
  <2>4. /\ \A y : Has(inbox'[q], "join", y) <=> Has(inbox[q], "join", y)
        /\ \A y : Has(inbox'[q], "disconnect", y) <=> Has(inbox[q], "disconnect", y)
        /\ \A y : Named(inbox'[q], y) <=> Named(inbox[q], y) \/ y \in m.players
    BY <1>0, <2>1, <2>2, PushSays
  <2>5. /\ \A y : OneBye(inbox[q], y) => OneBye(inbox'[q], y)
        /\ \A y, z : Follows(inbox[q], y, z) => Follows(inbox'[q], y, z)
    BY <1>0, <2>1, <2>2, PushOrders
  <2>6. QED BY <2>3, <2>4, <2>5
<1>9. Silent' /\ Joined' = Joined /\ Gone' = Gone
  BY <1>0, PollMeets
<1>10. isHost[p] => p \in hosts /\ host = p
  BY <1>0 DEF Met, Appointed
<1>11. \A q \in Players : Promised(inbox'[q]) => Promised(inbox[q])
  BY <1>0, <1>7, <1>8
<1>12. Appointed'
  BY <1>0, <1>11 DEF Met, Appointed
<1>13. Truthful'
  <2> SUFFICES ASSUME NEW a \in Players, NEW q \in Players
               PROVE  (/\ q \in roster[a] \/ Named(inbox[a], q) => q \in Joined \/ q \in Gone
                       /\ Has(inbox[a], "disconnect", q) => q \in Gone
                       /\ OneBye(inbox[a], q)
                       /\ a \notin roster[a] /\ ~Has(inbox[a], "join", a))'
    BY DEF Truthful
  <2>1. /\ q \in roster[a] \/ Named(inbox[a], q) => q \in Joined \/ q \in Gone
        /\ Has(inbox[a], "disconnect", q) => q \in Gone
        /\ OneBye(inbox[a], q)
        /\ a \notin roster[a] /\ ~Has(inbox[a], "join", a)
    BY DEF Met, Truthful
  <2>2. CASE a = p
    BY <1>0, <1>7, <1>9, <2>1, <2>2
  <2>3. CASE a # p /\ isHost[p] /\ a \in online
    BY <1>0, <1>5, <1>8, <1>9, <2>1, <2>3
  <2>4. CASE a # p /\ ~(isHost[p] /\ a \in online)
    BY <1>0, <1>9, <2>1, <2>4
  <2>5. QED BY <2>2, <2>3, <2>4
<1>14. Superseded'
  <2> SUFFICES ASSUME NEW h \in hosts, NEW g \in hosts, h # g, h \in online'
               PROVE  g \in Gone' /\ g \notin roster'[h] /\ ~Named(inbox'[h], g)
    BY <1>0 DEF Superseded
  <2>1. /\ h \in Players /\ h \in online /\ host = h
        /\ g \in Gone /\ g \notin roster[h] /\ ~Named(inbox[h], g)
    BY <1>0, Basics DEF Met, Superseded, Appointed
  <2>2. CASE h = p
    BY <1>0, <1>7, <1>9, <2>1, <2>2
  <2>3. CASE h # p
    BY <1>0, <1>9, <1>10, <2>1, <2>3
  <2>4. QED BY <2>2, <2>3
<1>15. ASSUME NEW h \in Players, First(h), h # p PROVE ~isHost[p] /\ inbox'[h] = inbox[h]
  BY <1>0, <1>10, <1>15 DEF First
<1>16. First(p) => isHost[p]
  BY <1>0 DEF Met, Listed
<1>17. Listed'
  <2> SUFFICES ASSUME NEW h \in Players, First(h)'
               PROVE  (/\ \/ isHost[h]
                          \/ roster[h] = {} /\ inbox[h] # <<>> /\ Head(inbox[h]).kind = "host"
                       /\ ~HasKind(inbox[h], "playerlist")
                       /\ \A q \in Joined : q = h \/ q \in roster[h] \/ Has(inbox[h], "join", q)
                       /\ \A q \in Gone : \/ q \notin roster[h] /\ ~Has(inbox[h], "join", q)
                                          \/ Closes(inbox[h], q))'
    BY DEF Listed, First
  <2>1. First(h)
    BY <1>0 DEF First
  <2>2. /\ isHost[h] \/ (roster[h] = {} /\ inbox[h] # <<>> /\ Head(inbox[h]).kind = "host")
        /\ ~HasKind(inbox[h], "playerlist")
        /\ \A q \in Joined : q = h \/ q \in roster[h] \/ Has(inbox[h], "join", q)
        /\ \A q \in Gone : \/ q \notin roster[h] /\ ~Has(inbox[h], "join", q)
                           \/ Closes(inbox[h], q)
    BY <2>1 DEF Met, Listed
  <2>3. CASE h = p
    BY <1>0, <1>7, <1>9, <1>16, <2>1, <2>2, <2>3
  <2>4. CASE h # p
    BY <1>0, <1>9, <1>15, <2>1, <2>2, <2>4
  <2>5. QED BY <2>3, <2>4
<1>18. Introduced'
  <2> SUFFICES ASSUME NEW h \in Players, First(h)', NEW a \in Joined', NEW q \in online'
               PROVE  (\/ a = q
                       \/ q = h
                       \/ a \in roster[q]
                       \/ Named(inbox[q], a)
                       \/ phase[q] = "connected"
                       \/ (a \in roster[h] \/ a = h) /\ Has(inbox[h], "join", q)
                       \/ Follows(inbox[h], a, q))'
    BY DEF Introduced, First
  <2>1. First(h) /\ q \in online /\ q \in Players /\ a \in Joined
    BY <1>0, <1>9, Basics DEF First
  <2>2. \/ a = q
        \/ q = h
        \/ a \in roster[q]
        \/ Named(inbox[q], a)
        \/ phase[q] = "connected"
        \/ (a \in roster[h] \/ a = h) /\ Has(inbox[h], "join", q)
        \/ Follows(inbox[h], a, q)
    BY <2>1 DEF Met, Introduced
  <2>3. CASE h # p
    BY <1>0, <1>7, <1>15, <2>1, <2>2, <2>3
  <2>4. CASE h = p /\ q # p
    <3>1. isHost[p] /\ \A y : Named(inbox'[q], y) <=> Named(inbox[q], y) \/ y \in m.players
      BY <1>8, <1>16, <2>1, <2>4
    <3>2. inbox'[p] = Tail(inbox[p])
      BY <1>0
    <3>3. CASE (a \in roster[h] \/ a = h) /\ Has(inbox[h], "join", q)
      BY <1>0, <1>7, <2>4, <3>1, <3>2, <3>3
    <3>4. CASE Follows(inbox[h], a, q)
      BY <1>0, <1>7, <2>4, <3>2, <3>4
    <3>5. CASE a \in roster[q] \/ Named(inbox[q], a) \/ phase[q] = "connected"
      BY <1>0, <2>1, <2>4, <3>1, <3>5
    <3>6. QED BY <2>2, <2>4, <3>3, <3>4, <3>5
  <2>5. CASE h = p /\ q = p
    BY <2>5
  <2>6. QED BY <2>3, <2>4, <2>5
<1>19. QED BY <1>9, <1>12, <1>13, <1>14, <1>17, <1>18 DEF Met

(* Nobody is there at first.                                               *)
LEMMA MetInit == Init => Met
<1> SUFFICES ASSUME Init PROVE Met
  OBVIOUS
<1>1. /\ \A kind, x : ~Has(<<>>, kind, x) /\ ~Named(<<>>, x) /\ OneBye(<<>>, x)
      /\ ~Promised(<<>>)
  BY DEF Has, Named, OneBye, Promised
<1>2. /\ Joined = {} /\ Gone = {} /\ hosts = {} /\ online = {} /\ host = NoPlayer
      /\ \A p \in Players : /\ inbox[p] = <<>> /\ roster[p] = {} /\ ~isHost[p]
                            /\ phase[p] = "away"
  BY DEF Init, Joined, Gone
<1>3. Silent /\ Appointed /\ Superseded
  BY <1>1, <1>2 DEF Silent, Appointed, Superseded
<1>4. Truthful
  BY <1>1, <1>2 DEF Truthful
<1>5. Listed /\ Introduced
  BY <1>2 DEF Listed, Introduced, First
<1>6. QED BY <1>3, <1>4, <1>5 DEF Met

(* Every step of every player keeps who has been told of whom.             *)
LEMMA MetNext == Inv /\ Met /\ [Next]_vars => Met'
<1> SUFFICES ASSUME Inv, Met, [Next]_vars PROVE Met'
  OBVIOUS
<1>1. ASSUME NEW p \in Players, Connect(p) \/ Join(p) \/ Leave(p) \/ Update(p) \/ Move(p)
      PROVE  Met'
  BY <1>1, ConnectMeets, JoinMeets, LeaveMeets, UpdateHostMeets, UpdateJoinMeets,
     UpdateDisconnectMeets, UpdatePlayerlistMeets, PlayMeets DEF Update
<1>2. CASE UNCHANGED vars
  <2>1. UNCHANGED <<phase, online, host, hosts, isHost, roster, inbox>>
    BY <1>2 DEF vars, local
  <2>2. \A q \in Players : Alike(inbox[q], inbox'[q]) /\ (q \in Joined' <=> q \in Joined)
    BY <2>1 DEF Alike, Joined
  <2>3. QED BY <2>1, <2>2, MetKept
<1>3. QED BY <1>1, <1>2 DEF Next

(* The invariant of the meetings.                                          *)
LEMMA MetHolds == Spec => []Met
BY MetInit, MetNext, InvHolds, PTL DEF Spec

(* While the first host stays, its list of players is exact when it has no *)
(* update left to apply, in whatever order players have joined and left    *)
(* (context.cpp:87-110).                                                   *)
THEOREM FirstHostListsAll == Spec => []HostRosterExact
<1>1. Inv /\ Met => HostRosterExact
  <2> SUFFICES ASSUME Inv, Met, NEW h \in UpToDate, hosts = {h}
               PROVE  roster[h] = {q \in Players : phase[q] \in {"playing", "crashed"}} \ {h}
    BY DEF HostRosterExact
  <2>1. h \in Players /\ phase[h] = "playing" /\ inbox[h] = <<>> /\ First(h)
    BY Basics DEF UpToDate, Playing, First, There
  <2>2. \A kind, x : ~Has(inbox[h], kind, x) /\ ~Closes(inbox[h], x)
    BY <2>1 DEF Has, Closes
  <2>3. /\ \A q \in Joined : q = h \/ q \in roster[h]
        /\ \A q \in Gone : q \notin roster[h]
    BY <2>1, <2>2 DEF Met, Listed
  <2>4. \A q \in roster[h] : q # h /\ q \in Players /\ (q \in Joined \/ q \in Gone)
    BY <2>1, Basics DEF Met, Truthful
  <2>5. QED BY <2>3, <2>4 DEF Joined
<1>2. QED BY <1>1, MetHolds, InvHolds, PTL

(* While the first host stays, players who have no update left to apply    *)
(* miss no one: joins reach who is there, and the host's answers who is    *)
(* not yet (context.cpp:87-110).                                           *)
THEOREM NoneMissed == Spec => []NobodyMissing
<1>1. Inv /\ Met => NobodyMissing
  <2> SUFFICES ASSUME Inv, Met, hosts \subseteq Playing, Playing = UpToDate,
                      NEW p \in Playing, NEW q \in Playing
               PROVE  q \in Known(p)
    BY DEF NobodyMissing
  <2>1. \A r \in Playing : /\ r \in Players /\ inbox[r] = <<>> /\ r \in online /\ r \in Joined
                           /\ phase[r] = "playing"
    BY Basics DEF UpToDate, Playing, There, Joined
  <2>2. \A x, y : /\ ~Has(<<>>, "join", x) /\ ~Named(<<>>, x) /\ ~Follows(<<>>, x, y)
                  /\ ~Closes(<<>>, x)
    BY DEF Has, Named, Follows, Closes
  <2>3. hosts # {}
    BY <2>1 DEF Met, Appointed
  <2>4. PICK h \in hosts : TRUE
    BY <2>3
  <2>5. h \in Players /\ h \in Playing /\ First(h)
    BY <2>1, <2>4 DEF Met, Appointed, First
  <2>6. CASE p = h
    <3>1. q = h \/ q \in roster[h] \/ Has(inbox[h], "join", q)
      BY <2>1, <2>5 DEF Met, Listed
    <3>2. QED BY <2>1, <2>2, <2>5, <2>6, <3>1 DEF Known
  <2>7. CASE p # h
    <3>0. Introduced /\ q \in Joined /\ p \in online
      BY <2>1 DEF Met
    <3>1. \/ q = p
          \/ q \in roster[p]
          \/ Named(inbox[p], q)
          \/ phase[p] = "connected"
          \/ (q \in roster[h] \/ q = h) /\ Has(inbox[h], "join", p)
          \/ Follows(inbox[h], q, p)
      BY <3>0, <2>5, <2>7 DEF Introduced
    <3>2. inbox[p] = <<>> /\ inbox[h] = <<>> /\ phase[p] = "playing"
      BY <2>1, <2>5
    <3>3. q = p \/ q \in roster[p]
      BY <2>2, <3>1, <3>2
    <3>4. QED BY <3>3 DEF Known
  <2>8. QED BY <2>6, <2>7
<1>2. QED BY <1>1, MetHolds, InvHolds, PTL

-----------------------------------------------------------------------------
(* The game between players who keep the rules of HolderOnly.              *)

(* Something of the game has happened, or the host may make it happen.     *)
Underway == \E p \in Players :
  \/ scored[p]
  \/ turn[p] # NoTurn
  \/ \E q \in Players : score[p][q] # 0
  \/ \E kind \in Played : HasKind(inbox[p], kind)
Complete == \E h \in Joined : First(h) /\ roster[h] \cup {h} = Players
Open == Underway \/ Complete

(* By then everyone has joined, one player has been host from the start,   *)
(* all who are there are known, or will be, to everyone, and to the host   *)
(* until they leave.                                                       *)
AllThere == Open =>
  /\ \A p \in Players : p \in Joined \/ p \in Gone
  /\ \A g, h \in hosts : g = h
  /\ \A r \in online : \A q \in Players :
       q = r \/ q \in Gone \/ q \in roster[r] \/ Named(inbox[r], q)
  /\ \A h \in hosts : h \in online => \A q \in Players :
       q = h \/ q \in roster[h] \/ (q \in Gone /\ ~Has(inbox[h], "disconnect", q))

(* Turns come after everyone is named and the letters have their scores,   *)
(* letters and points after a turn; and everyone is told of both.          *)
Ordered ==
  /\ \A r \in online :
       /\ \A q \in Players :
            q = r \/ q \in Gone \/ q \in roster[r] \/ AfterNamed(inbox[r], "turn", q)
       /\ scored[r] \/ After(inbox[r], "turn", "charscores")
       /\ turn[r].player # NoPlayer \/ After(inbox[r], "tile", "turn")
       /\ turn[r].player # NoPlayer \/ After(inbox[r], "points", "turn")
       /\ turn[r].player # NoPlayer =>
            scored[r] /\ \A q \in Players : q = r \/ q \in Gone \/ q \in roster[r]
  /\ \A p \in Players, r \in online : scored[p] \/ HasKind(inbox[p], "charscores")
       => scored[r] \/ HasKind(inbox[r], "charscores")
  /\ \A p \in Players, r \in online : turn[p].player # NoPlayer \/ HasKind(inbox[p], "turn")
       => turn[r].player # NoPlayer \/ HasKind(inbox[r], "turn")

Fair == AllThere /\ Ordered

(* An inbox to which something was added or from which something was taken *)
(* that is not of the game.                                                *)
Gentle(b, c) ==
  /\ \A kind \in Played : HasKind(c, kind) <=> HasKind(b, kind)
  /\ After(b, "turn", "charscores") => After(c, "turn", "charscores")
  /\ After(b, "tile", "turn") => After(c, "tile", "turn")
  /\ After(b, "points", "turn") => After(c, "points", "turn")

(* An update pushed that is not of the game disturbs no order of it.       *)
LEMMA GentlePush ==
  ASSUME NEW box \in Seq(Proper), NEW m \in Proper, m.kind \notin Played
  PROVE  /\ Gentle(box, Append(box, m))
         /\ \A q : Named(box, q) => Named(Append(box, m), q)
         /\ \A q : AfterNamed(box, "turn", q) => AfterNamed(Append(box, m), "turn", q)
<1>1. /\ \A kind \in Played : HasKind(Append(box, m), kind) <=> HasKind(box, kind)
      /\ \A q : Named(box, q) => Named(Append(box, m), q)
  BY PushSays
<1>2. m.kind # "turn" /\ m.kind # "tile" /\ m.kind # "points"
  BY DEF Played
<1>3. /\ After(box, "turn", "charscores") => After(Append(box, m), "turn", "charscores")
      /\ After(box, "tile", "turn") => After(Append(box, m), "tile", "turn")
      /\ After(box, "points", "turn") => After(Append(box, m), "points", "turn")
      /\ \A q : AfterNamed(box, "turn", q) => AfterNamed(Append(box, m), "turn", q)
  BY <1>2, PushOrders
<1>4. QED BY <1>1, <1>3 DEF Gentle

(* Nor does one popped, unless it was the one that named someone.          *)
LEMMA GentlePop ==
  ASSUME NEW box \in Seq(Proper), box # <<>>, Head(box).kind \notin Played
  PROVE  /\ Gentle(box, Tail(box))
         /\ \A q : Named(box, q) => Named(Tail(box), q) \/ IsNamed(Head(box), q)
         /\ \A q : AfterNamed(box, "turn", q)
                     => AfterNamed(Tail(box), "turn", q) \/ IsNamed(Head(box), q)
<1>1. /\ \A kind \in Played : HasKind(Tail(box), kind) <=> HasKind(box, kind)
      /\ \A q : Named(box, q) => Named(Tail(box), q) \/ IsNamed(Head(box), q)
  BY PopSays
<1>2. Head(box).kind # "turn" /\ Head(box).kind # "charscores"
  BY DEF Played
<1>3. /\ After(box, "turn", "charscores") => After(Tail(box), "turn", "charscores")
      /\ After(box, "tile", "turn") => After(Tail(box), "tile", "turn")
      /\ After(box, "points", "turn") => After(Tail(box), "points", "turn")
      /\ \A q : AfterNamed(box, "turn", q)
                  => AfterNamed(Tail(box), "turn", q) \/ IsNamed(Head(box), q)
  BY <1>2, PopOrders
<1>4. QED BY <1>1, <1>3 DEF Gentle

(* A step that is not of the game, after which everyone knows as much.     *)
LEMMA FairKept ==
  ASSUME Inv, Fair, UNCHANGED <<scored, turn>>,
         \A r, q \in Players : score'[r][q] # 0 => score[r][q] # 0,
         online' \subseteq online, Gone \subseteq Gone',
         \A r \in Players : r \in Joined \/ r \in Gone => r \in Joined' \/ r \in Gone',
         \A r \in Players : Gentle(inbox[r], inbox'[r]) \/ (r \notin online' /\ inbox'[r] = <<>>),
         \A r \in online' : \A q \in Players : q \in Gone' \/ q = r \/
           /\ q \in roster[r] => q \in roster'[r]
           /\ Named(inbox[r], q) => q \in roster'[r] \/ Named(inbox'[r], q)
           /\ AfterNamed(inbox[r], "turn", q)
                => q \in roster'[r] \/ AfterNamed(inbox'[r], "turn", q)
  PROVE  /\ Underway' => Underway
         /\ Ordered'
         /\ Open /\ hosts' = hosts =>
              /\ \A p \in Players : p \in Joined' \/ p \in Gone'
              /\ \A g, h \in hosts' : g = h
              /\ \A r \in online' : \A q \in Players :
                   q = r \/ q \in Gone' \/ q \in roster'[r] \/ Named(inbox'[r], q)
<1>0. \A kind : ~HasKind(<<>>, kind)
  BY DEF HasKind
<1>1. \A r \in Players : \A kind \in Played : HasKind(inbox'[r], kind) => HasKind(inbox[r], kind)
  BY <1>0 DEF Gentle
<1>2. Underway' => Underway
  BY <1>1 DEF Underway
<1>3. \A r \in online' : r \in Players /\ r \in online /\ Gentle(inbox[r], inbox'[r])
  BY Basics
<1>4. Ordered'
  <2>1. ASSUME NEW r \in online'
        PROVE  /\ \A q \in Players :
                    q = r \/ q \in Gone' \/ q \in roster'[r] \/ AfterNamed(inbox'[r], "turn", q)
               /\ scored'[r] \/ After(inbox'[r], "turn", "charscores")
               /\ turn'[r].player # NoPlayer \/ After(inbox'[r], "tile", "turn")
               /\ turn'[r].player # NoPlayer \/ After(inbox'[r], "points", "turn")
               /\ turn'[r].player # NoPlayer =>
                    scored'[r] /\ \A q \in Players : q = r \/ q \in Gone' \/ q \in roster'[r]
    BY <1>3, <2>1 DEF Fair, Ordered, Gentle
  <2>2. \A p \in Players, r \in online' : scored'[p] \/ HasKind(inbox'[p], "charscores")
          => scored'[r] \/ HasKind(inbox'[r], "charscores")
    BY <1>1, <1>3 DEF Fair, Ordered, Gentle, Played
  <2>3. \A p \in Players, r \in online' : turn'[p].player # NoPlayer \/ HasKind(inbox'[p], "turn")
          => turn'[r].player # NoPlayer \/ HasKind(inbox'[r], "turn")
    BY <1>1, <1>3 DEF Fair, Ordered, Gentle, Played
  <2>4. QED BY <2>1, <2>2, <2>3 DEF Ordered
<1>5. ASSUME Open, hosts' = hosts
      PROVE  /\ \A p \in Players : p \in Joined' \/ p \in Gone'
             /\ \A g, h \in hosts' : g = h
             /\ \A r \in online' : \A q \in Players :
                  q = r \/ q \in Gone' \/ q \in roster'[r] \/ Named(inbox'[r], q)
  BY <1>3, <1>5 DEF Fair, AllThere
<1>6. QED BY <1>2, <1>4, <1>5

(* Before the game there is nothing to order.                              *)
LEMMA NothingYet == ASSUME Inv, ~Underway PROVE Ordered
<1>1. \A p \in Players : /\ ~scored[p] /\ turn[p].player = NoPlayer
                         /\ \A kind \in Played : ~HasKind(inbox[p], kind)
  BY DEF Underway, NoTurn
<1>2. \A r \in Players : /\ \A q : AfterNamed(inbox[r], "turn", q)
                         /\ After(inbox[r], "turn", "charscores")
                         /\ After(inbox[r], "tile", "turn")
                         /\ After(inbox[r], "points", "turn")
  BY <1>1 DEF AfterNamed, After, HasKind, Played
<1>3. QED BY <1>1, <1>2, Basics DEF Ordered, Played

(* Who connects finds no game.                                             *)
LEMMA ConnectFair == ASSUME Inv, Met, Fair, NEW p \in Players, Connect(p), Inv' PROVE Fair'
<1>0. /\ phase[p] = "away" /\ p \notin Joined /\ p \notin Gone /\ p \notin online
      /\ UNCHANGED <<roster, scored, score, turn>> /\ online' = online \cup {p}
      /\ hosts' = IF host = NoPlayer THEN hosts \cup {p} ELSE hosts
  BY Basics DEF Connect, Joined, Gone, There, local, Claims
<1>1. ~Underway /\ ~Complete
  BY <1>0 DEF Fair, AllThere, Open
<1>2. \A q \in Players : \A kind \in Played : ~HasKind(inbox'[q], kind)
  <2>1. \A q \in Players : q # p => inbox'[q] = inbox[q]
    BY Basics DEF Connect
  <2>2. inbox'[p] = <<Message("host", p)>> \/ inbox'[p] = <<>>
    BY Basics DEF Connect
  <2>3. \A kind \in Played : ~HasKind(inbox'[p], kind)
    BY <2>2 DEF HasKind, Message, Valued, Played
  <2>4. \A q \in Players : \A kind \in Played : ~HasKind(inbox[q], kind)
    BY <1>1 DEF Underway
  <2>5. QED BY <2>1, <2>3, <2>4
<1>3. ~Underway'
  BY <1>0, <1>1, <1>2 DEF Underway
<1>4. ~Complete'
  <2> SUFFICES ASSUME NEW h \in Joined', First(h)', roster[h] \cup {h} = Players PROVE FALSE
    BY <1>0 DEF Complete, First
  <2>1. h \in Joined /\ h # p
    BY <1>0, Basics DEF Connect, Joined
  <2>2. hosts = {h} /\ h \in online
    BY <1>0, <2>1 DEF First
  <2>3. QED BY <1>1, <2>1, <2>2 DEF Complete, First
<1>5. Ordered'
  <2>1. \A q \in Players : ~scored'[q] /\ turn'[q].player = NoPlayer
    BY <1>0, <1>1 DEF Underway, NoTurn
  <2>2. \A r \in Players : /\ \A q : AfterNamed(inbox'[r], "turn", q)
                           /\ After(inbox'[r], "turn", "charscores")
                           /\ After(inbox'[r], "tile", "turn")
                           /\ After(inbox'[r], "points", "turn")
    BY <1>2 DEF AfterNamed, After, HasKind, Played
  <2>3. online' \subseteq Players
    BY <1>0, Basics
  <2>4. QED BY <1>2, <2>1, <2>2, <2>3 DEF Ordered, Played
<1>6. QED BY <1>3, <1>4, <1>5 DEF Fair, AllThere, Open

(* Who joins finds none either; that player may be the only one.           *)
LEMMA JoinFair == ASSUME Inv, Met, Fair, NEW p \in Players, Join(p) PROVE Fair'
<1> DEFINE m == Message("join", p)
<1>0. /\ p \in online /\ phase[p] = "connected" /\ p \notin Joined /\ p \notin Gone
      /\ UNCHANGED <<online, host, hosts, isHost, roster, scored, score, turn>>
      /\ m \in Proper /\ m.kind \notin Played /\ Publish(p, m)
      /\ roster[p] = {} /\ Joined' = Joined \cup {p} /\ Gone' = Gone
  BY Basics, MessageFacts DEF Join, There, Joined, Gone, local, Kinds, Met, Silent, Played
<1>1. \A q \in Players : inbox'[q] = IF q \in online /\ q # p THEN Append(inbox[q], m) ELSE inbox[q]
  BY <1>0, Reaches
<1> HIDE DEF m
<1>2. \A q \in Players :
        /\ Gentle(inbox[q], inbox'[q])
        /\ \A x : Named(inbox[q], x) => Named(inbox'[q], x)
        /\ \A x : AfterNamed(inbox[q], "turn", x) => AfterNamed(inbox'[q], "turn", x)
  <2>1. \A q \in Players : Gentle(inbox[q], inbox[q])
    BY DEF Gentle
  <2>2. ASSUME NEW q \in Players, q \in online, q # p
        PROVE  /\ Gentle(inbox[q], inbox'[q])
               /\ \A x : Named(inbox[q], x) => Named(inbox'[q], x)
               /\ \A x : AfterNamed(inbox[q], "turn", x) => AfterNamed(inbox'[q], "turn", x)
    <3>1. inbox[q] \in Seq(Proper) /\ inbox'[q] = Append(inbox[q], m)
      BY <1>1, <2>2, Basics
    <3>2. QED BY <1>0, <3>1, GentlePush
  <2>3. QED BY <1>1, <2>1, <2>2
<1>3. (Underway' => Underway) /\ Ordered'
  BY <1>0, <1>2, FairKept, Basics
<1>4. ~Underway /\ ~Complete
  BY <1>0 DEF Fair, AllThere, Open
<1>5. AllThere'
  <2> SUFFICES ASSUME NEW h \in Joined', First(h)', roster'[h] \cup {h} = Players PROVE AllThere'
    BY <1>3, <1>4 DEF AllThere, Open, Complete, First
  <2>1. First(h)
    BY <1>0 DEF First
  <2>2. h = p
    BY <1>0, <1>4, <2>1 DEF Complete
  <2>3. Players = {p} /\ online' \subseteq {p} /\ hosts' = {p} /\ p \in Joined'
    BY <1>0, <2>1, <2>2, Basics DEF First
  <2>4. QED BY <2>3 DEF AllThere
<1>6. QED BY <1>3, <1>5 DEF Fair

(* Who leaves was there, is gone, and takes nothing with it.               *)
LEMMA Leaves ==
  ASSUME Inv, NEW p \in Players, Leave(p)
  PROVE  /\ p \in online /\ p \notin Gone /\ online' = online \ {p}
         /\ UNCHANGED <<hosts, isHost, roster, scored, score, turn>>
         /\ Joined' = Joined \ {p} /\ Gone' = Gone \cup {p} /\ Playing' = Playing \ {p}
<1>1. /\ p \in online /\ online' = online \ {p} /\ phase' = [phase EXCEPT ![p] = "gone"]
      /\ UNCHANGED <<hosts, isHost, roster, scored, score, turn>>
  BY DEF Leave, local
<1>2. phase[p] # "gone" /\ phase \in [Players -> Phases]
  BY <1>1, Basics DEF There, Inv, TypeOK, Phases
<1>3. \A q \in Players : phase'[q] = IF q = p THEN "gone" ELSE phase[q]
  BY <1>1, <1>2
<1>4. QED BY <1>1, <1>2, <1>3 DEF Gone, Playing, Joined

(* Who leaves was known to the host.                                       *)
LEMMA LeaveFair == ASSUME Inv, Met, Fair, NEW p \in Players, Leave(p) PROVE Fair'
<1> DEFINE m == Message("disconnect", p)
<1>0. /\ p \in online /\ p \notin Gone
      /\ UNCHANGED <<hosts, isHost, roster, scored, score, turn>> /\ online' = online \ {p}
      /\ m \in Proper /\ m.kind \notin Played /\ m.kind = "disconnect" /\ m.player = p
      /\ Joined' = Joined \ {p} /\ Gone' = Gone \cup {p}
  <2>1. m \in Proper /\ m.kind = "disconnect" /\ m.player = p
    BY MessageFacts DEF Kinds
  <2>2. QED BY <2>1, Leaves DEF Played
<1>1. \A q \in Players : inbox'[q] = IF q = p THEN <<>> ELSE
                                     IF q \in online THEN Append(inbox[q], m) ELSE inbox[q]
  BY Basics DEF Leave, Relay
<1> HIDE DEF m
<1>2. \A q \in Players : q # p =>
        /\ Gentle(inbox[q], inbox'[q])
        /\ \A x : Named(inbox[q], x) => Named(inbox'[q], x)
        /\ \A x : AfterNamed(inbox[q], "turn", x) => AfterNamed(inbox'[q], "turn", x)
  BY <1>0, <1>1, GentlePush, Basics DEF Gentle
<1>3. /\ Underway' => Underway
      /\ Ordered'
      /\ Open =>
           /\ \A r \in Players : r \in Joined' \/ r \in Gone'
           /\ \A g, h \in hosts' : g = h
           /\ \A r \in online' : \A q \in Players :
                q = r \/ q \in Gone' \/ q \in roster'[r] \/ Named(inbox'[r], q)
  <2>1. \A r \in Players : Gentle(inbox[r], inbox'[r]) \/ (r \notin online' /\ inbox'[r] = <<>>)
    BY <1>0, <1>1, <1>2
  <2>2. \A r \in online' : \A q \in Players : q \in Gone' \/ q = r \/
          /\ q \in roster[r] => q \in roster'[r]
          /\ Named(inbox[r], q) => q \in roster'[r] \/ Named(inbox'[r], q)
          /\ AfterNamed(inbox[r], "turn", q)
               => q \in roster'[r] \/ AfterNamed(inbox'[r], "turn", q)
    BY <1>0, <1>2, Basics
  <2>3. QED BY <1>0, <2>1, <2>2, FairKept
<1>4. Complete' => Complete
  BY <1>0 DEF Complete, First
<1>5. ASSUME Open, NEW h \in hosts', h \in online', NEW q \in Players
      PROVE  q = h \/ q \in roster'[h] \/ (q \in Gone' /\ ~Has(inbox'[h], "disconnect", q))
  <2>1. h \in online /\ h # p /\ h \in Players /\ h \in hosts
    BY <1>0, <1>5, Basics
  <2>2. q = h \/ q \in roster[h] \/ (q \in Gone /\ ~Has(inbox[h], "disconnect", q))
    BY <1>5, <2>1 DEF Fair, AllThere
  <2>3. inbox'[h] = Append(inbox[h], m) /\ inbox[h] \in Seq(Proper)
    BY <1>1, <2>1, Basics
  <2>4. Has(inbox'[h], "disconnect", q) => Has(inbox[h], "disconnect", q) \/ q = p
    BY <1>0, <2>3, PushSays DEF Is
  <2>5. QED BY <1>0, <2>2, <2>4
<1>6. QED BY <1>3, <1>4, <1>5 DEF Fair, AllThere, Open

(* An update that is not of the game, whose reader comes to know everyone  *)
(* it names.                                                               *)
LEMMA PollFair ==
  ASSUME Inv, Met, Fair, NEW p \in Players, inbox[p] # <<>>, Head(inbox[p]).kind \notin Played,
         UNCHANGED <<phase, online, hosts, scored, turn>>,
         \A r, q \in Players : score'[r][q] # 0 => score[r][q] # 0,
         \A q \in Players : q # p => roster'[q] = roster[q],
         inbox'[p] = Tail(inbox[p]),
         \A q \in Players : q # p => /\ Gentle(inbox[q], inbox'[q])
                                     /\ \A x : Named(inbox[q], x) => Named(inbox'[q], x)
                                     /\ \A x : AfterNamed(inbox[q], "turn", x)
                                                 => AfterNamed(inbox'[q], "turn", x),
         \A q \in Players : q \in Gone \/ q = p \/
           (q \in roster[p] \/ IsNamed(Head(inbox[p]), q) => q \in roster'[p])
  PROVE  /\ Underway' => Underway
         /\ Ordered'
         /\ Open => /\ \A r \in Players : r \in Joined' \/ r \in Gone'
                    /\ \A g, h \in hosts' : g = h
                    /\ \A r \in online' : \A q \in Players :
                         q = r \/ q \in Gone' \/ q \in roster'[r] \/ Named(inbox'[r], q)
<1>1. Joined' = Joined /\ Gone' = Gone
  BY DEF Joined, Gone
<1>2. inbox[p] \in Seq(Proper)
  BY Basics
<1>3. /\ Gentle(inbox[p], inbox'[p])
      /\ \A q : Named(inbox[p], q) => Named(inbox'[p], q) \/ IsNamed(Head(inbox[p]), q)
      /\ \A q : AfterNamed(inbox[p], "turn", q)
                  => AfterNamed(inbox'[p], "turn", q) \/ IsNamed(Head(inbox[p]), q)
  BY <1>2, GentlePop
<1>4. \A r \in Players : Gentle(inbox[r], inbox'[r])
  BY <1>3
<1>5. \A r \in online' : \A q \in Players : q \in Gone' \/ q = r \/
        /\ q \in roster[r] => q \in roster'[r]
        /\ Named(inbox[r], q) => q \in roster'[r] \/ Named(inbox'[r], q)
        /\ AfterNamed(inbox[r], "turn", q)
             => q \in roster'[r] \/ AfterNamed(inbox'[r], "turn", q)
  <2> SUFFICES ASSUME NEW r \in online', NEW q \in Players, q \notin Gone', q # r
               PROVE  /\ q \in roster[r] => q \in roster'[r]
                      /\ Named(inbox[r], q) => q \in roster'[r] \/ Named(inbox'[r], q)
                      /\ AfterNamed(inbox[r], "turn", q)
                           => q \in roster'[r] \/ AfterNamed(inbox'[r], "turn", q)
    OBVIOUS
  <2>1. r \in Players
    BY Basics
  <2>2. CASE r = p
    BY <1>1, <1>3, <2>2
  <2>3. CASE r # p
    BY <2>1, <2>3
  <2>4. QED BY <2>2, <2>3
<1>6. QED BY <1>1, <1>4, <1>5, FairKept

(* Inboxes that stay as they are.                                          *)
LEMMA GentleStays == \A b : Gentle(b, b)
BY DEF Gentle

(* The player who becomes the host knows nothing new of anyone.            *)
LEMMA UpdateHostFair == ASSUME Inv, Met, Fair, NEW p \in Players, UpdateHost(p) PROVE Fair'
<1>0. /\ UNCHANGED <<phase, online, host, hosts, roster, scored, score, turn>>
      /\ inbox[p] # <<>> /\ Head(inbox[p]).kind = "host"
      /\ \A q \in Players : inbox'[q] = IF q = p THEN Tail(inbox[p]) ELSE inbox[q]
  BY Polls, Basics DEF UpdateHost
<1>1. \A x : ~IsNamed(Head(inbox[p]), x)
  BY <1>0 DEF Is, IsNamed
<1>2. /\ Underway' => Underway
      /\ Ordered'
      /\ Open => /\ \A r \in Players : r \in Joined' \/ r \in Gone'
                 /\ \A g, h \in hosts' : g = h
                 /\ \A r \in online' : \A q \in Players :
                      q = r \/ q \in Gone' \/ q \in roster'[r] \/ Named(inbox'[r], q)
  BY <1>0, <1>1, PollFair, GentleStays DEF Played
<1>3. Joined' = Joined /\ Gone' = Gone
  BY <1>0 DEF Joined, Gone
<1>4. Complete' => Complete
  BY <1>0, <1>3 DEF Complete, First
<1>5. ASSUME Open, NEW h \in hosts', h \in online', NEW q \in Players
      PROVE  q = h \/ q \in roster'[h] \/ (q \in Gone' /\ ~Has(inbox'[h], "disconnect", q))
  <2>1. h \in online /\ h \in Players /\ h \in hosts
    BY <1>0, <1>5, Basics
  <2>2. q = h \/ q \in roster[h] \/ (q \in Gone /\ ~Has(inbox[h], "disconnect", q))
    BY <1>5, <2>1 DEF Fair, AllThere
  <2>3. Has(inbox'[h], "disconnect", q) => Has(inbox[h], "disconnect", q)
    BY <1>0, <2>1, PollOther
  <2>4. QED BY <1>0, <1>3, <2>2, <2>3
<1>6. QED BY <1>2, <1>4, <1>5 DEF Fair, AllThere, Open

(* Who has left is forgotten by one more player, for good if it is the     *)
(* host.                                                                   *)
LEMMA UpdateDisconnectFair ==
  ASSUME Inv, Met, Fair, NEW p \in Players, UpdateDisconnect(p), Inv' PROVE Fair'
<1> DEFINE x == Head(inbox[p]).player
<1>0. /\ UNCHANGED <<phase, online, host, hosts, scored, turn>>
      /\ inbox[p] # <<>> /\ Head(inbox[p]).kind = "disconnect"
      /\ \A q \in Players : inbox'[q] = IF q = p THEN Tail(inbox[p]) ELSE inbox[q]
      /\ \A q \in Players : roster'[q] = IF q = p THEN roster[p] \ {x} ELSE roster[q]
      /\ score' = [score EXCEPT ![p][x] = 0]
  BY Polls, Basics DEF UpdateDisconnect, Without
<1>1. /\ Is(Head(inbox[p]), "disconnect", x)
      /\ \A y : ~IsNamed(Head(inbox[p]), y)
  BY <1>0 DEF Is, IsNamed
<1>2. \A y : Is(Head(inbox[p]), "disconnect", y) => y = x
  BY DEF Is
<1> HIDE DEF x
<1>3. \A r, q \in Players : score'[r][q] # 0 => score[r][q] # 0
  BY <1>0 DEF Inv, TypeOK
<1>4. Joined' = Joined /\ Gone' = Gone
  BY <1>0 DEF Joined, Gone
<1>5. x \in Gone /\ \A y : Has(inbox[p], "disconnect", y) => y \notin Players \/ y \in Gone
  <2>1. Has(inbox[p], "disconnect", x) <=> \/ Has(Tail(inbox[p]), "disconnect", x)
                                          \/ Is(Head(inbox[p]), "disconnect", x)
    BY <1>0, PollSays
  <2>2. x \in Players
    BY Pops DEF UpdateDisconnect, Kinds, x
  <2>3. QED BY <1>1, <2>1, <2>2 DEF Met, Truthful
<1>6. /\ Underway' => Underway
      /\ Ordered'
      /\ Open => /\ \A r \in Players : r \in Joined' \/ r \in Gone'
                 /\ \A g, h \in hosts' : g = h
                 /\ \A r \in online' : \A q \in Players :
                      q = r \/ q \in Gone' \/ q \in roster'[r] \/ Named(inbox'[r], q)
  <2>1. /\ Head(inbox[p]).kind \notin Played
        /\ \A q \in Players : q # p => /\ roster'[q] = roster[q] /\ inbox'[q] = inbox[q]
        /\ \A q \in Players : q \in Gone \/ q = p \/
             (q \in roster[p] \/ IsNamed(Head(inbox[p]), q) => q \in roster'[p])
    BY <1>0, <1>1, <1>5 DEF Played
  <2>2. QED BY <1>0, <1>3, <2>1, PollFair, GentleStays
<1>7. Complete' => Complete
  <2> SUFFICES ASSUME NEW h \in Joined', First(h)', roster'[h] \cup {h} = Players PROVE Complete
    BY DEF Complete
  <2>1. h \in Joined /\ First(h)
    BY <1>0, <1>4 DEF First
  <2>2. h \in Players /\ roster'[h] \subseteq roster[h] /\ roster[h] \subseteq Players
    BY <1>0, <2>1, Basics DEF Joined
  <2>3. roster[h] \cup {h} = Players
    BY <2>2
  <2>4. QED BY <2>1, <2>3 DEF Complete
<1>8. ASSUME Open, NEW h \in hosts', h \in online', NEW q \in Players
      PROVE  q = h \/ q \in roster'[h] \/ (q \in Gone' /\ ~Has(inbox'[h], "disconnect", q))
  <2>1. h \in online /\ h \in Players /\ h \in hosts
    BY <1>0, <1>8, Basics
  <2>2. q = h \/ q \in roster[h] \/ (q \in Gone /\ ~Has(inbox[h], "disconnect", q))
    BY <1>8, <2>1 DEF Fair, AllThere
  <2>3. CASE h # p
    BY <1>0, <1>4, <2>1, <2>2, <2>3
  <2>4. CASE h = p
    <3>1. Has(inbox'[p], "disconnect", q) => Has(inbox[p], "disconnect", q)
      BY <1>0, PollSays
    <3>2. ASSUME q = x PROVE ~Has(inbox'[p], "disconnect", q)
      <4>1. OneBye(inbox[p], q)
        BY DEF Met, Truthful
      <4>2. Is(Head(inbox[p]), "disconnect", q)
        BY <1>1, <3>2
      <4>3. ~Has(Tail(inbox[p]), "disconnect", q)
        BY <1>0, <4>1, <4>2, PollSays
      <4>4. QED BY <1>0, <4>3
    <3>3. QED BY <1>0, <1>4, <1>5, <2>2, <2>4, <3>1, <3>2
  <2>5. QED BY <2>3, <2>4
<1>9. QED BY <1>6, <1>7, <1>8 DEF Fair, AllThere, Open

(* The first host is sent no list: everyone else only learns from one.     *)
LEMMA UpdatePlayerlistFair ==
  ASSUME Inv, Met, Fair, NEW p \in Players, UpdatePlayerlist(p) PROVE Fair'
<1> DEFINE l == Head(inbox[p]).players
<1>0. /\ UNCHANGED <<phase, online, host, hosts, scored, score, turn>>
      /\ inbox[p] # <<>> /\ Head(inbox[p]).kind = "playerlist"
      /\ \A q \in Players : inbox'[q] = IF q = p THEN Tail(inbox[p]) ELSE inbox[q]
      /\ \A q \in Players : roster'[q] = IF q = p THEN roster[p] \cup (l \ {p}) ELSE roster[q]
  BY Polls, Basics DEF UpdatePlayerlist
<1>1. \A y : IsNamed(Head(inbox[p]), y) => y \in l
  BY <1>0 DEF Is, IsNamed
<1>2. ~First(p)
  BY <1>0, PollOther DEF Met, Listed
<1> HIDE DEF l
<1>3. Joined' = Joined /\ Gone' = Gone
  BY <1>0 DEF Joined, Gone
<1>4. /\ Underway' => Underway
      /\ Ordered'
      /\ Open => /\ \A r \in Players : r \in Joined' \/ r \in Gone'
                 /\ \A g, h \in hosts' : g = h
                 /\ \A r \in online' : \A q \in Players :
                      q = r \/ q \in Gone' \/ q \in roster'[r] \/ Named(inbox'[r], q)
  <2>1. /\ Head(inbox[p]).kind \notin Played
        /\ \A q \in Players : q # p => /\ roster'[q] = roster[q] /\ inbox'[q] = inbox[q]
        /\ \A q \in Players : q \in Gone \/ q = p \/
             (q \in roster[p] \/ IsNamed(Head(inbox[p]), q) => q \in roster'[p])
    BY <1>0, <1>1 DEF Played
  <2>2. QED BY <1>0, <2>1, PollFair, GentleStays
<1>5. Complete' => Complete
  BY <1>0, <1>2, <1>3 DEF Complete, First
<1>6. ASSUME Open, NEW h \in hosts', h \in online', NEW q \in Players
      PROVE  q = h \/ q \in roster'[h] \/ (q \in Gone' /\ ~Has(inbox'[h], "disconnect", q))
  <2>1. h \in online /\ h \in Players /\ h \in hosts
    BY <1>0, <1>6, Basics
  <2>2. q = h \/ q \in roster[h] \/ (q \in Gone /\ ~Has(inbox[h], "disconnect", q))
    BY <1>6, <2>1 DEF Fair, AllThere
  <2>3. Has(inbox'[h], "disconnect", q) => Has(inbox[h], "disconnect", q)
    BY <1>0, <2>1, PollSays
  <2>4. QED BY <1>0, <1>3, <2>1, <2>2, <2>3
<1>7. QED BY <1>4, <1>5, <1>6 DEF Fair, AllThere, Open

(* The host may have learnt of the last player, and tells everyone.        *)
LEMMA UpdateJoinFair == ASSUME Inv, Met, Fair, NEW p \in Players, UpdateJoin(p) PROVE Fair'
<1>0. PICK x \in Players, m \in Proper :
        /\ UNCHANGED <<phase, online, host, hosts, isHost, scored, score, turn>>
        /\ p \in online /\ p \in Joined /\ inbox[p] # <<>> /\ Head(inbox[p]).kind = "join"
        /\ \A q \in Players : roster'[q] = IF q = p THEN roster[p] \cup {x} ELSE roster[q]
        /\ Head(inbox[p]).player = x /\ x # p /\ (x \in Joined \/ x \in Gone)
        /\ m.kind = "playerlist" /\ m.players = roster[p] \cup {p} \cup {x}
        /\ \A q \in Players : inbox'[q] = IF q = p THEN Tail(inbox[p]) ELSE
                                          IF isHost[p] /\ q \in online THEN Append(inbox[q], m)
                                          ELSE inbox[q]
  BY Answers
<1>1. Joined' = Joined /\ Gone' = Gone
  BY <1>0 DEF Joined, Gone
<1>2. ASSUME NEW q \in Players, q # p
      PROVE  /\ Gentle(inbox[q], inbox'[q])
             /\ \A y : Named(inbox[q], y) => Named(inbox'[q], y)
             /\ \A y : AfterNamed(inbox[q], "turn", y) => AfterNamed(inbox'[q], "turn", y)
  <2>1. CASE isHost[p] /\ q \in online
    <3>1. inbox'[q] = Append(inbox[q], m) /\ inbox[q] \in Seq(Proper) /\ m.kind \notin Played
      BY <1>0, <1>2, <2>1, Basics DEF Played
    <3>2. QED BY <1>0, <3>1, GentlePush
  <2>2. CASE ~(isHost[p] /\ q \in online)
    BY <1>0, <1>2, <2>2, GentleStays
  <2>3. QED BY <2>1, <2>2
<1>3. /\ Underway' => Underway
      /\ Ordered'
      /\ Open => /\ \A r \in Players : r \in Joined' \/ r \in Gone'
                 /\ \A g, h \in hosts' : g = h
                 /\ \A r \in online' : \A q \in Players :
                      q = r \/ q \in Gone' \/ q \in roster'[r] \/ Named(inbox'[r], q)
  <2>1. /\ Head(inbox[p]).kind \notin Played
        /\ \A q \in Players : q # p => roster'[q] = roster[q]
        /\ \A q \in Players : q \in Gone \/ q = p \/
             (q \in roster[p] \/ IsNamed(Head(inbox[p]), q) => q \in roster'[p])
    BY <1>0 DEF Played, Is, IsNamed
  <2>2. QED BY <1>0, <1>2, <2>1, PollFair
<1>4. ASSUME NEW h \in hosts', h \in online'
      PROVE  /\ h \in Players /\ h \in hosts /\ h \in online
             /\ isHost[p] => h = p
  BY <1>0, <1>4, Basics DEF Met, Appointed
<1>5. ASSUME Open, NEW h \in hosts', h \in online', NEW q \in Players
      PROVE  q = h \/ q \in roster'[h] \/ (q \in Gone' /\ ~Has(inbox'[h], "disconnect", q))
  <2>1. q = h \/ q \in roster[h] \/ (q \in Gone /\ ~Has(inbox[h], "disconnect", q))
    BY <1>4, <1>5 DEF Fair, AllThere
  <2>2. CASE h # p
    BY <1>0, <1>1, <1>4, <1>5, <2>1, <2>2
  <2>3. CASE h = p
    <3>1. Has(inbox'[p], "disconnect", q) => Has(inbox[p], "disconnect", q)
      BY <1>0, PollSays
    <3>2. QED BY <1>0, <1>1, <2>1, <2>3, <3>1
  <2>4. QED BY <2>2, <2>3
<1>6. ASSUME ~Open, NEW h \in Joined', First(h)', roster'[h] \cup {h} = Players PROVE AllThere'
  <2>1. First(h) /\ h \in Joined /\ h \in Players
    BY <1>0, <1>1, <1>6 DEF First, Joined
  <2>2. h = p
    BY <1>0, <1>6, <2>1 DEF Open, Complete
  <2>3. roster[p] \cup {x} \cup {p} = Players
    BY <1>0, <1>6, <2>2
  <2>4. isHost[p]
    BY <1>0, <2>1, <2>2 DEF Met, Listed
  <2>5. \A q \in Players : q \in Joined' \/ q \in Gone'
    <3>1. \A q \in roster[p] : q \in Joined \/ q \in Gone
      BY Basics DEF Met, Truthful
    <3>2. QED BY <1>0, <1>1, <2>3, <3>1
  <2>6. \A g, k \in hosts' : g = k
    BY <1>0, <2>1 DEF First
  <2>7. ASSUME NEW r \in online', NEW q \in Players, r # p PROVE Named(inbox'[r], q)
    <3>1. /\ r \in online /\ r \in Players
          /\ inbox'[r] = Append(inbox[r], m) /\ inbox[r] \in Seq(Proper)
      BY <1>0, <2>4, <2>7, Basics
    <3>2. IsNamed(m, q)
      BY <1>0, <2>3 DEF IsNamed
    <3>3. QED BY <1>0, <3>1, <3>2, PushSays
  <2>8. QED BY <1>0, <1>4, <2>3, <2>4, <2>5, <2>6, <2>7 DEF AllThere
<1>7. AllThere'
  <2>1. CASE Open
    BY <1>3, <1>5, <2>1 DEF AllThere
  <2>2. CASE ~Open
    BY <1>3, <1>6, <2>2 DEF AllThere, Open, Complete
  <2>3. QED BY <2>1, <2>2
<1>8. QED BY <1>3, <1>7 DEF Fair

(* What a step says of who has the scores of letters, and who a turn.      *)
Plays(p, kind) ==
  /\ UNCHANGED <<online, hosts, roster>> /\ Joined' = Joined /\ Gone' = Gone
  /\ \A r \in Players : r # p => scored'[r] = scored[r] /\ turn'[r] = turn[r]
  /\ scored'[p] <=> scored[p] \/ kind = "charscores"
  /\ turn'[p].player # NoPlayer <=> turn[p].player # NoPlayer \/ kind = "turn"

(* An update of the game is applied by a player who was ready for it.      *)
LEMMA PopFair ==
  ASSUME Inv, Met, Fair, NEW p \in Players, NEW kind \in Played, Received(p, kind),
         inbox' = Polled(p), Plays(p, kind)
  PROVE  Fair'
<1>0. /\ inbox[p] # <<>> /\ Head(inbox[p]).kind = kind /\ p \in online
      /\ inbox[p] \in Seq(Proper)
      /\ \A q \in Players : inbox'[q] = IF q = p THEN Tail(inbox[p]) ELSE inbox[q]
  BY Polls, Basics
<1>1. \A q : ~IsNamed(Head(inbox[p]), q) /\ ~Is(Head(inbox[p]), "disconnect", q)
  BY <1>0 DEF Is, IsNamed, Played
<1>2. /\ \A k : HasKind(inbox[p], k) <=> HasKind(inbox'[p], k) \/ k = kind
      /\ \A q : Named(inbox[p], q) <=> Named(inbox'[p], q)
      /\ \A q : Has(inbox[p], "disconnect", q) <=> Has(inbox'[p], "disconnect", q)
  <2>1. /\ \A k : HasKind(inbox[p], k) <=> HasKind(Tail(inbox[p]), k) \/ Head(inbox[p]).kind = k
        /\ \A q : Named(inbox[p], q) <=> Named(Tail(inbox[p]), q) \/ IsNamed(Head(inbox[p]), q)
        /\ \A q : Has(inbox[p], "disconnect", q) <=> \/ Has(Tail(inbox[p]), "disconnect", q)
                                                     \/ Is(Head(inbox[p]), "disconnect", q)
    BY <1>0, PopSays
  <2>2. QED BY <1>0, <1>1, <2>1
<1>3. /\ \A q : AfterNamed(inbox[p], "turn", q) => AfterNamed(inbox'[p], "turn", q) /\ kind # "turn"
      /\ After(inbox[p], "turn", "charscores") =>
           (After(inbox'[p], "turn", "charscores") \/ kind = "charscores") /\ kind # "turn"
      /\ After(inbox[p], "tile", "turn") => After(inbox'[p], "tile", "turn") \/ kind = "turn"
      /\ After(inbox[p], "points", "turn") => After(inbox'[p], "points", "turn") \/ kind = "turn"
  <2>1. /\ \A q : AfterNamed(inbox[p], "turn", q) =>
             /\ AfterNamed(Tail(inbox[p]), "turn", q) \/ IsNamed(Head(inbox[p]), q)
             /\ Head(inbox[p]).kind # "turn"
        /\ \A k, first : After(inbox[p], k, first) =>
             /\ After(Tail(inbox[p]), k, first) \/ Head(inbox[p]).kind = first
             /\ Head(inbox[p]).kind # k
    BY <1>0, PopOrders
  <2>2. QED BY <1>0, <1>1, <2>1
<1>4. online' = online /\ online \subseteq Players /\ hosts' = hosts /\ roster' = roster
      /\ Joined' = Joined /\ Gone' = Gone
  BY Basics DEF Plays
<1>5. \A q \in Players : q # p =>
        inbox'[q] = inbox[q] /\ scored'[q] = scored[q] /\ turn'[q] = turn[q]
  BY <1>0 DEF Plays
<1>6. AllThere'
  <2>1. Open
    <3>1. HasKind(inbox[p], kind)
      BY <1>2
    <3>2. QED BY <3>1 DEF Open, Underway
  <2>2. /\ \A q \in Players : q \in Joined \/ q \in Gone
        /\ \A g, h \in hosts : g = h
        /\ \A r \in online : \A q \in Players :
             q = r \/ q \in Gone \/ q \in roster[r] \/ Named(inbox[r], q)
        /\ \A h \in hosts : h \in online => \A q \in Players :
             q = h \/ q \in roster[h] \/ (q \in Gone /\ ~Has(inbox[h], "disconnect", q))
    BY <2>1 DEF Fair, AllThere
  <2>3. \A r \in online' : \A q \in Players :
          q = r \/ q \in Gone' \/ q \in roster'[r] \/ Named(inbox'[r], q)
    BY <1>2, <1>4, <1>5, <2>2
  <2>4. \A h \in hosts' : h \in online' => \A q \in Players :
          q = h \/ q \in roster'[h] \/ (q \in Gone' /\ ~Has(inbox'[h], "disconnect", q))
    BY <1>2, <1>4, <1>5, <2>2
  <2>5. QED BY <1>4, <2>2, <2>3, <2>4 DEF AllThere
<1>7. Ordered'
  <2>1. ASSUME NEW r \in online'
        PROVE  /\ \A q \in Players :
                    q = r \/ q \in Gone' \/ q \in roster'[r] \/ AfterNamed(inbox'[r], "turn", q)
               /\ scored'[r] \/ After(inbox'[r], "turn", "charscores")
               /\ turn'[r].player # NoPlayer \/ After(inbox'[r], "tile", "turn")
               /\ turn'[r].player # NoPlayer \/ After(inbox'[r], "points", "turn")
               /\ turn'[r].player # NoPlayer =>
                    scored'[r] /\ \A q \in Players : q = r \/ q \in Gone' \/ q \in roster'[r]
    <3>1. /\ \A q \in Players :
               q = r \/ q \in Gone \/ q \in roster[r] \/ AfterNamed(inbox[r], "turn", q)
          /\ scored[r] \/ After(inbox[r], "turn", "charscores")
          /\ turn[r].player # NoPlayer \/ After(inbox[r], "tile", "turn")
          /\ turn[r].player # NoPlayer \/ After(inbox[r], "points", "turn")
          /\ turn[r].player # NoPlayer =>
               scored[r] /\ \A q \in Players : q = r \/ q \in Gone \/ q \in roster[r]
      BY <1>4, <2>1 DEF Fair, Ordered
    <3>2. CASE r # p
      BY <1>4, <1>5, <2>1, <3>1, <3>2
    <3>3. CASE r = p
      BY <1>3, <1>4, <3>1, <3>3 DEF Plays
    <3>4. QED BY <3>2, <3>3
  <2>2. \A r \in Players :
          /\ scored'[r] \/ HasKind(inbox'[r], "charscores")
               <=> scored[r] \/ HasKind(inbox[r], "charscores")
          /\ turn'[r].player # NoPlayer \/ HasKind(inbox'[r], "turn")
               <=> turn[r].player # NoPlayer \/ HasKind(inbox[r], "turn")
    BY <1>2, <1>5 DEF Plays
  <2>3. /\ \A a \in Players, r \in online' : scored'[a] \/ HasKind(inbox'[a], "charscores")
             => scored'[r] \/ HasKind(inbox'[r], "charscores")
        /\ \A a \in Players, r \in online' :
             turn'[a].player # NoPlayer \/ HasKind(inbox'[a], "turn")
               => turn'[r].player # NoPlayer \/ HasKind(inbox'[r], "turn")
    BY <1>4, <2>2 DEF Fair, Ordered
  <2>4. QED BY <2>1, <2>3 DEF Ordered
<1>8. QED BY <1>6, <1>7 DEF Fair

(* A player makes a move it may make, and everyone will be ready for it.   *)
LEMMA PushFair ==
  ASSUME Inv, Met, Fair, Open, NEW p \in online, NEW m \in Proper, m.kind \in Played,
         Publish(p, m), Plays(p, m.kind),
         m.kind = "turn" =>
           scored[p] /\ \A q \in Players : q = p \/ q \in Gone \/ q \in roster[p],
         m.kind \in {"tile", "points"} => turn[p].player # NoPlayer
  PROVE  Fair'
<1>0. p \in Players /\ online' = online /\ online \subseteq Players /\ hosts' = hosts
      /\ roster' = roster /\ Joined' = Joined /\ Gone' = Gone
  BY Basics DEF Plays
<1>1. \A q \in Players : inbox'[q] = IF q \in online /\ q # p THEN Append(inbox[q], m) ELSE inbox[q]
  BY <1>0, Reaches
<1>2. ASSUME NEW r \in online, r # p
      PROVE  /\ r \in Players /\ inbox[r] \in Seq(Proper) /\ inbox'[r] = Append(inbox[r], m)
             /\ scored'[r] = scored[r] /\ turn'[r] = turn[r]
  BY <1>0, <1>1, <1>2, Basics DEF Plays
<1>3. /\ m.kind # "playerlist" /\ m.kind # "disconnect" /\ m.kind # "join"
      /\ \A q : ~Is(m, "disconnect", q)
  BY DEF Played, Is
<1>4. /\ \A q \in Players : q \in Joined \/ q \in Gone
      /\ \A g, h \in hosts : g = h
      /\ \A r \in online : \A q \in Players :
           q = r \/ q \in Gone \/ q \in roster[r] \/ Named(inbox[r], q)
      /\ \A h \in hosts : h \in online => \A q \in Players :
           q = h \/ q \in roster[h] \/ (q \in Gone /\ ~Has(inbox[h], "disconnect", q))
  BY DEF Fair, AllThere
<1>5. AllThere'
  <2>1. ASSUME NEW r \in online, NEW q \in Players
        PROVE  /\ Named(inbox[r], q) => Named(inbox'[r], q)
               /\ Has(inbox'[r], "disconnect", q) => Has(inbox[r], "disconnect", q)
    <3>1. CASE r = p
      BY <1>0, <1>1, <3>1
    <3>2. CASE r # p
      <4>1. inbox[r] \in Seq(Proper) /\ inbox'[r] = Append(inbox[r], m)
        BY <1>2, <3>2
      <4>2. /\ \A x : Named(Append(inbox[r], m), x) <=> Named(inbox[r], x) \/ IsNamed(m, x)
            /\ \A x : Has(Append(inbox[r], m), "disconnect", x)
                      <=> Has(inbox[r], "disconnect", x) \/ Is(m, "disconnect", x)
        BY <4>1, PushSays
      <4>3. QED BY <1>3, <4>1, <4>2
    <3>3. QED BY <3>1, <3>2
  <2>2. QED BY <1>0, <1>4, <2>1 DEF AllThere
<1>6. Ordered'
  <2>0. ASSUME NEW r \in online
        PROVE  /\ \A q \in Players :
                    q = r \/ q \in Gone \/ q \in roster[r] \/ AfterNamed(inbox[r], "turn", q)
               /\ scored[r] \/ After(inbox[r], "turn", "charscores")
               /\ turn[r].player # NoPlayer \/ After(inbox[r], "tile", "turn")
               /\ turn[r].player # NoPlayer \/ After(inbox[r], "points", "turn")
               /\ turn[r].player # NoPlayer =>
                    scored[r] /\ \A q \in Players : q = r \/ q \in Gone \/ q \in roster[r]
               /\ scored[p] => scored[r] \/ HasKind(inbox[r], "charscores")
               /\ turn[p].player # NoPlayer =>
                    turn[r].player # NoPlayer \/ HasKind(inbox[r], "turn")
    BY <1>0, <2>0 DEF Fair, Ordered
  <2>1. ASSUME NEW r \in online'
        PROVE  /\ \A q \in Players :
                    q = r \/ q \in Gone' \/ q \in roster'[r] \/ AfterNamed(inbox'[r], "turn", q)
               /\ scored'[r] \/ After(inbox'[r], "turn", "charscores")
               /\ turn'[r].player # NoPlayer \/ After(inbox'[r], "tile", "turn")
               /\ turn'[r].player # NoPlayer \/ After(inbox'[r], "points", "turn")
               /\ turn'[r].player # NoPlayer =>
                    scored'[r] /\ \A q \in Players : q = r \/ q \in Gone' \/ q \in roster'[r]
    <3>0. r \in online
      BY <1>0, <2>1
    <3>1. CASE r = p
      BY <1>0, <1>1, <2>0, <3>0, <3>1 DEF Plays
    <3>2. CASE r # p
      <4>1. /\ \A kind, first :
                 After(inbox[r], kind, first) /\ (m.kind = kind => HasKind(inbox[r], first))
                   => After(inbox'[r], kind, first)
            /\ \A kind, q :
                 AfterNamed(inbox[r], kind, q) /\ (m.kind = kind => Named(inbox[r], q))
                   => AfterNamed(inbox'[r], kind, q)
        <5>1. inbox[r] \in Seq(Proper) /\ inbox'[r] = Append(inbox[r], m)
          BY <1>2, <3>0, <3>2
        <5>2. /\ \A kind, first :
                   After(inbox[r], kind, first) /\ (m.kind = kind => HasKind(inbox[r], first))
                     => After(Append(inbox[r], m), kind, first)
              /\ \A kind, q :
                   AfterNamed(inbox[r], kind, q) /\ (m.kind = kind => Named(inbox[r], q))
                     => AfterNamed(Append(inbox[r], m), kind, q)
          BY <5>1, PushOrders
        <5>3. QED BY <5>1, <5>2
      <4>2. \A q \in Players :
              q = r \/ q \in Gone' \/ q \in roster'[r] \/ AfterNamed(inbox'[r], "turn", q)
        BY <1>0, <1>4, <2>0, <3>0, <4>1
      <4>3. scored'[r] \/ After(inbox'[r], "turn", "charscores")
        BY <1>2, <2>0, <3>0, <3>2, <4>1
      <4>4. turn'[r].player # NoPlayer \/ After(inbox'[r], "tile", "turn")
        BY <1>2, <2>0, <3>0, <3>2, <4>1
      <4>5. turn'[r].player # NoPlayer \/ After(inbox'[r], "points", "turn")
        BY <1>2, <2>0, <3>0, <3>2, <4>1
      <4>6. turn'[r].player # NoPlayer =>
              scored'[r] /\ \A q \in Players : q = r \/ q \in Gone' \/ q \in roster'[r]
        BY <1>0, <1>2, <2>0, <3>0, <3>2
      <4>7. QED BY <4>2, <4>3, <4>4, <4>5, <4>6
    <3>3. QED BY <3>1, <3>2
  <2>2. ASSUME NEW r \in online, r # p
        PROVE  \A kind : HasKind(inbox'[r], kind) <=> HasKind(inbox[r], kind) \/ m.kind = kind
    <3>1. inbox[r] \in Seq(Proper) /\ inbox'[r] = Append(inbox[r], m)
      BY <1>2, <2>2
    <3>2. \A kind : HasKind(Append(inbox[r], m), kind) <=> HasKind(inbox[r], kind) \/ m.kind = kind
      BY <3>1, PushSays
    <3>3. QED BY <3>1, <3>2
  <2>3. \A a \in Players : /\ a \notin online => inbox'[a] = inbox[a]
                           /\ a # p => scored'[a] = scored[a] /\ turn'[a] = turn[a]
    BY <1>1 DEF Plays
  <2>4. \A a \in Players, r \in online : scored'[a] \/ HasKind(inbox'[a], "charscores")
             => scored'[r] \/ HasKind(inbox'[r], "charscores")
    <3>1. ASSUME NEW a \in Players, scored'[a] \/ HasKind(inbox'[a], "charscores")
          PROVE  scored[a] \/ HasKind(inbox[a], "charscores") \/ m.kind = "charscores"
      BY <1>0, <1>1, <2>2, <2>3, <3>1 DEF Plays
    <3>2. ASSUME NEW r \in online,
                 scored[r] \/ HasKind(inbox[r], "charscores") \/ m.kind = "charscores"
          PROVE  scored'[r] \/ HasKind(inbox'[r], "charscores")
      BY <1>0, <1>1, <1>2, <2>2, <3>2 DEF Plays
    <3>3. QED BY <3>1, <3>2 DEF Fair, Ordered
  <2>5. \A a \in Players, r \in online : turn'[a].player # NoPlayer \/ HasKind(inbox'[a], "turn")
             => turn'[r].player # NoPlayer \/ HasKind(inbox'[r], "turn")
    <3>1. ASSUME NEW a \in Players, turn'[a].player # NoPlayer \/ HasKind(inbox'[a], "turn")
          PROVE  turn[a].player # NoPlayer \/ HasKind(inbox[a], "turn") \/ m.kind = "turn"
      BY <1>0, <1>1, <2>2, <2>3, <3>1 DEF Plays
    <3>2. ASSUME NEW r \in online,
                 turn[r].player # NoPlayer \/ HasKind(inbox[r], "turn") \/ m.kind = "turn"
          PROVE  turn'[r].player # NoPlayer \/ HasKind(inbox'[r], "turn")
      BY <1>0, <1>1, <1>2, <2>2, <3>2 DEF Plays
    <3>3. QED BY <3>1, <3>2 DEF Fair, Ordered
  <2>6. QED BY <1>0, <2>1, <2>4, <2>5 DEF Ordered
<1>7. QED BY <1>5, <1>6 DEF Fair

(* Someone who dies of a turn has not left yet.                            *)
LEMMA Dies ==
  ASSUME Inv, NEW p \in Players, phase[p] = "playing",
         phase' = phase \/ phase' = [phase EXCEPT ![p] = "crashed"]
  PROVE  Joined' = Joined /\ Gone' = Gone
BY Basics DEF Joined, Gone

(* A turn is someone's or nobody's; one with letters is someone's.         *)
LEMMA Turns ==
  ASSUME Inv, NEW p \in Players
  PROVE  /\ turn \in [Players -> {NoTurn} \cup [player : Players, letters : Nat]]
         /\ turn[p].letters \in Nat /\ NoPlayer \notin Players
         /\ turn[p].player # NoPlayer => turn[p].player \in Players
         /\ turn[p].letters > 0 => turn[p].player # NoPlayer
BY DEF Inv, TypeOK, NoTurn

(* A turn is done as Plays says, whether or not the program dies of it.    *)
LEMMA DoTurnPlays ==
  ASSUME Inv, NEW p \in Players, NEW q \in Players, phase[p] = "playing", DoTurn(p, q),
         UNCHANGED <<online, hosts, roster, scored>>
  PROVE  Plays(p, "turn")
<1>1. turn \in [Players -> {NoTurn} \cup [player : Players, letters : Nat]]
      /\ q # NoPlayer /\ (MayThrow(p) => turn[p].player # NoPlayer)
  BY Turns DEF Throws, MayThrow
<1>2. phase' = phase \/ phase' = [phase EXCEPT ![p] = "crashed"]
  BY DEF DoTurn
<1>3. Joined' = Joined /\ Gone' = Gone
  BY <1>2, Dies
<1>4. /\ \A r \in Players : r # p => turn'[r] = turn[r]
      /\ turn'[p].player # NoPlayer
  BY <1>1 DEF DoTurn
<1>5. QED BY <1>3, <1>4 DEF Plays

(* A letter counts for a turn there is.                                    *)
LEMMA SetTilePlays ==
  ASSUME Inv, NEW p \in Players, NEW char, SetTile(p, char),
         UNCHANGED <<phase, online, hosts, roster, scored>>
  PROVE  Plays(p, "tile")
<1>1. turn \in [Players -> {NoTurn} \cup [player : Players, letters : Nat]]
  BY Turns
<1>2. \A r \in Players : r # p => turn'[r] = turn[r]
  BY <1>1 DEF SetTile
<1>3. turn'[p].player = turn[p].player
  <2>1. CASE turn[p].player = NoPlayer
    BY <2>1 DEF SetTile
  <2>2. CASE turn[p].player # NoPlayer
    <3>1. turn[p] \in [player : Players, letters : Nat]
      BY <1>1, <2>2 DEF NoTurn
    <3>2. turn'[p] = [turn[p] EXCEPT !.letters = turn[p].letters + 1]
      BY <1>1, <2>2 DEF SetTile
    <3>3. QED BY <3>1, <3>2
  <2>3. QED BY <2>1, <2>2
<1>4. Joined' = Joined /\ Gone' = Gone
  BY DEF Joined, Gone
<1>5. QED BY <1>2, <1>3, <1>4 DEF Plays

(* The updates of the game.                                                *)
LEMMA UpdatePlayFair ==
  ASSUME Inv, Met, Fair, NEW p \in Players,
         UpdatePoints(p) \/ UpdateTurn(p) \/ UpdateTile(p) \/ UpdateCharscores(p)
  PROVE  Fair'
<1>1. CASE UpdatePoints(p)
  <2>1. Plays(p, "points")
    BY <1>1 DEF UpdatePoints, Plays, Joined, Gone
  <2>2. QED BY <1>1, <2>1, PopFair DEF UpdatePoints, Played
<1>2. CASE UpdateTurn(p)
  <2>1. Head(inbox[p]).player \in Players
    BY <1>2, Pops DEF UpdateTurn, Kinds
  <2>2. Plays(p, "turn")
    BY <1>2, <2>1, DoTurnPlays DEF UpdateTurn, Received
  <2>3. QED BY <1>2, <2>2, PopFair DEF UpdateTurn, Played
<1>3. CASE UpdateTile(p)
  <2>1. Plays(p, "tile")
    BY <1>3, SetTilePlays DEF UpdateTile
  <2>2. QED BY <1>3, <2>1, PopFair DEF UpdateTile, Played
<1>4. CASE UpdateCharscores(p)
  <2>1. scored \in [Players -> BOOLEAN]
    BY DEF Inv, TypeOK
  <2>2. PICK kind \in {"charscores", "noscores"} :
          Received(p, kind) /\ scored' = [scored EXCEPT ![p] = @ \/ kind = "charscores"]
    BY <1>4 DEF UpdateCharscores
  <2>3. Plays(p, kind)
    BY <1>4, <2>1, <2>2 DEF UpdateCharscores, Plays, Joined, Gone
  <2>4. QED BY <1>4, <2>2, <2>3, PopFair DEF UpdateCharscores, Played
<1>5. QED BY <1>1, <1>2, <1>3, <1>4

(* By the rules of the table a player who moves plays a game that is on:   *)
(* it has a turn, or has everyone's names and, to start a turn, the scores *)
(* of the letters.                                                         *)
LEMMA MayMoveFair ==
  ASSUME HolderOnly, Inv, Met, Fair, NEW p \in Players, NEW move, MayMove(p, move)
  PROVE  /\ p \in online /\ phase[p] = "playing" /\ Open
         /\ move = "turn" => /\ scored[p]
                             /\ \A q \in Players : q = p \/ q \in Gone \/ q \in roster[p]
         /\ move \in {"tile", "points"} => turn[p].player # NoPlayer
<1>0. /\ phase[p] = "playing" /\ p \in online /\ p \in Joined
      /\ isHost[p] => p \in hosts /\ host = p
      /\ isHost \in [Players -> BOOLEAN] /\ roster[p] \subseteq Players
  BY Basics DEF MayMove, There, Joined, Met, Appointed
<1>1. turn[p].player # NoPlayer =>
        /\ Open /\ scored[p] /\ \A q \in Players : q = p \/ q \in Gone \/ q \in roster[p]
  BY <1>0 DEF Open, Underway, NoTurn, Fair, Ordered
<1>2. Holds(p) => turn[p].player # NoPlayer
  BY DEF Holds
<1>3. ASSUME isHost[p], Known(p) = Players PROVE Open
  <2>1. \A g \in hosts : g = p
    BY <1>0, <1>3, Basics DEF Known, Met, Superseded
  <2>2. First(p) /\ roster[p] \cup {p} = Players
    BY <1>0, <1>3, <2>1 DEF First, Known
  <2>3. QED BY <1>0, <2>2 DEF Open, Complete
<1>4. Prepares(p) => Open
  BY <1>3 DEF Prepares
<1>5. ASSUME Begins(p)
      PROVE  Open /\ scored[p] /\ \A q \in Players : q = p \/ q \in Gone \/ q \in roster[p]
  <2>1. CASE turn[p].player # NoPlayer
    BY <1>1, <2>1
  <2>2. CASE turn[p].player = NoPlayer
    BY <1>3, <1>5, <2>2 DEF Begins, Known
  <2>3. QED BY <2>1, <2>2
<1>6. \/ Holds(p)
      \/ move = "scores" /\ Prepares(p)
      \/ move = "turn" /\ Begins(p)
      \/ move = "points" /\ turn[p].player # NoPlayer
  BY DEF MayMove
<1>7. QED BY <1>0, <1>1, <1>2, <1>4, <1>5, <1>6

(* The moves, made by the rules.                                           *)
LEMMA MoveFair == ASSUME HolderOnly, Inv, Met, Fair, NEW p \in Players, Move(p) PROVE Fair'
<1>1. ASSUME NEW char \in Typed, PlaceTile(p, char) PROVE Fair'
  <2>1. p \in online /\ Open /\ turn[p].player # NoPlayer
    BY <1>1, MayMoveFair DEF PlaceTile
  <2>2. PICK m \in Proper : m.kind = "tile" /\ Publish(p, m)
    BY <1>1, MessageFacts DEF PlaceTile, Characters
  <2>3. Plays(p, m.kind)
    BY <1>1, <2>2, SetTilePlays DEF PlaceTile
  <2>4. QED BY <2>1, <2>2, <2>3, PushFair DEF Played
<1>2. ASSUME NEW kind \in Kinds, LoadScores(p, kind) PROVE Fair'
  <2>1. p \in online /\ Open /\ kind \in {"charscores", "noscores"}
    BY <1>2, MayMoveFair DEF LoadScores
  <2>2. PICK m \in Proper : m.kind = kind /\ Publish(p, m)
    BY <1>2, <2>1, MessageFacts DEF LoadScores
  <2>3. scored \in [Players -> BOOLEAN]
    BY DEF Inv, TypeOK
  <2>4. Plays(p, kind)
    BY <1>2, <2>3 DEF LoadScores, Plays, Joined, Gone
  <2>5. QED BY <2>1, <2>2, <2>4, PushFair DEF Played
<1>3. ASSUME NEW q \in Players, StartTurn(p, q) PROVE Fair'
  <2>1. /\ p \in online /\ Open /\ phase[p] = "playing" /\ scored[p]
        /\ \A r \in Players : r = p \/ r \in Gone \/ r \in roster[p]
    BY <1>3, MayMoveFair DEF StartTurn
  <2>2. Plays(p, "turn")
    BY <1>3, <2>1, DoTurnPlays DEF StartTurn
  <2>3. ASSUME Publish(p, Message("turn", q)) PROVE Fair'
    <3>1. PICK m \in Proper : m.kind = "turn" /\ Publish(p, m)
      BY <2>3, MessageFacts DEF Kinds
    <3>2. QED BY <2>1, <2>2, <3>1, PushFair DEF Played
  <2>4. ASSUME phase' # phase, UNCHANGED inbox PROVE Fair'
    <3>1. /\ UNCHANGED <<online, hosts, roster, scored, turn>>
          /\ Joined' = Joined /\ Gone' = Gone
      BY <1>3, <2>2, <2>4 DEF StartTurn, DoTurn, Plays
    <3>2. AllThere'
      <4>1. /\ \A r \in Players : r \in Joined \/ r \in Gone
            /\ \A g, h \in hosts : g = h
            /\ \A r \in online : \A x \in Players :
                 x = r \/ x \in Gone \/ x \in roster[r] \/ Named(inbox[r], x)
            /\ \A h \in hosts : h \in online => \A x \in Players :
                 x = h \/ x \in roster[h] \/ (x \in Gone /\ ~Has(inbox[h], "disconnect", x))
        BY <2>1 DEF Fair, AllThere
      <4>2. QED BY <2>4, <3>1, <4>1 DEF AllThere
    <3>3. Ordered'
      BY <2>4, <3>1 DEF Fair, Ordered
    <3>4. QED BY <3>2, <3>3 DEF Fair
  <2>5. QED BY <1>3, <2>3, <2>4 DEF StartTurn
<1>4. ASSUME NEW q \in Players, NEW diff \in Points, GivePoints(p, q, diff) PROVE Fair'
  <2>1. p \in online /\ Open /\ turn[p].player # NoPlayer
    BY <1>4, MayMoveFair DEF GivePoints
  <2>2. PICK m \in Proper : m.kind = "points" /\ Publish(p, m)
    BY <1>4, MessageFacts DEF GivePoints, Is
  <2>3. Plays(p, "points")
    BY <1>4 DEF GivePoints, Plays, Joined, Gone
  <2>4. QED BY <2>1, <2>2, <2>3, PushFair DEF Played
<1>5. QED BY <1>1, <1>2, <1>3, <1>4 DEF Move

(* Before anyone connects there is no game.                                *)
LEMMA FairInit == Init => Fair
<1> SUFFICES ASSUME Init PROVE Fair
  OBVIOUS
<1>1. ~Underway /\ ~Open
  BY DEF Init, Open, Underway, Complete, First, HasKind
<1>2. QED BY <1>1, InitHolds, NothingYet DEF Fair, AllThere

(* Every step by the rules keeps the game fair.                            *)
LEMMA FairNext == HolderOnly /\ Inv /\ Met /\ Fair /\ [Next]_vars => Fair'
<1> SUFFICES ASSUME HolderOnly, Inv, Met, Fair, [Next]_vars PROVE Fair'
  OBVIOUS
<1>0. Inv'
  BY NextHolds
<1>1. ASSUME NEW p \in Players, Connect(p) \/ Join(p) \/ Leave(p) \/ Update(p) \/ Move(p)
      PROVE  Fair'
  BY <1>0, <1>1, ConnectFair, JoinFair, LeaveFair, UpdateHostFair, UpdateJoinFair,
     UpdateDisconnectFair, UpdatePlayerlistFair, UpdatePlayFair, MoveFair DEF Update
<1>2. CASE UNCHANGED vars
  <2>1. UNCHANGED <<phase, online, hosts, roster, scored, score, turn, inbox>>
    BY <1>2 DEF vars, local
  <2>2. /\ Joined' = Joined /\ Gone' = Gone
        /\ Open' <=> Open
    BY <2>1 DEF Joined, Gone, Open, Underway, Complete, First
  <2>3. AllThere'
    BY <2>1, <2>2 DEF Fair, AllThere
  <2>4. Ordered'
    BY <2>1, <2>2 DEF Fair, Ordered
  <2>5. QED BY <2>3, <2>4 DEF Fair
<1>3. QED BY <1>1, <1>2 DEF Next

(* Nobody leaves for nothing, and no character leaves the board.           *)
Caused(p) == strange[p] # "none" \/ Gone # {}

(* A cause of death lasts.                                                 *)
LEMMA CausesLast ==
  ASSUME Inv, [Next]_vars, NEW p \in Players, Caused(p) PROVE Caused(p)'
<1>0. phase \in [Players -> Phases] /\ strange \in [Players -> {"none", "on", "turn"}]
      /\ \A q \in Gone : q \notin online /\ q \in Players
  BY Basics DEF Inv, TypeOK, Phases, Gone, There
<1>1. CASE UNCHANGED vars
  BY <1>1 DEF vars, local, Caused, Gone
<1>2. ASSUME NEW o \in Players, Connect(o) \/ Join(o) \/ Leave(o) \/ Update(o) \/ Move(o)
      PROVE  /\ \A q \in Gone : phase'[q] = "gone"
             /\ strange[p] # "none" => strange'[p] # "none"
  <2>1. \A q \in Gone : phase'[q] = "gone"
    BY <1>0, <1>2 DEF Gone, Connect, Join, Leave, Update, UpdateHost, UpdateJoin,
       UpdateDisconnect, UpdatePlayerlist, UpdatePoints, UpdateTurn, UpdateTile,
       UpdateCharscores, Move, PlaceTile, LoadScores, StartTurn, GivePoints, DoTurn, MayMove,
       Received
  <2>2. strange' = strange \/ \E char : SetTile(o, char)
    BY <1>2 DEF Connect, Join, Leave, Update, UpdateHost, UpdateJoin, UpdateDisconnect,
       UpdatePlayerlist, UpdatePoints, UpdateTurn, UpdateTile, UpdateCharscores, Move, PlaceTile,
       LoadScores, StartTurn, GivePoints, local
  <2>3. QED BY <1>0, <2>1, <2>2 DEF SetTile
<1>3. CASE Next
  BY <1>2, <1>3 DEF Next, Caused, Gone
<1>4. QED BY <1>1, <1>3

(* Who dies of a turn has a cause.                                         *)
LEMMA DeathHasCause ==
  ASSUME Inv, Fair, NEW p \in Players, phase[p] = "playing", MayThrow(p) PROVE Caused(p)
<1> SUFFICES ASSUME Gone = {}, strange[p] = "none" PROVE FALSE
  BY DEF Caused
<1>1. Throws(p) /\ p \in online /\ turn[p].player \in Players /\ turn[p].player # NoPlayer
  BY Turns, Basics DEF MayThrow, Throws, There
<1>2. scored[p] /\ \A q \in Players : q = p \/ q \in roster[p]
  BY <1>1 DEF Fair, Ordered
<1>3. QED BY <1>1, <1>2 DEF Throws, NoScoreOf, Known

(* Who is dead after a step was so before, or dies of a turn.              *)
LEMMA WhoDies ==
  ASSUME Inv, [Next]_vars, NEW p \in Players, phase'[p] = "crashed"
  PROVE  phase[p] = "crashed" \/ (phase[p] = "playing" /\ MayThrow(p))
<1>0. phase \in [Players -> Phases]
  BY DEF Inv, TypeOK, Phases
<1>1. CASE UNCHANGED vars
  BY <1>1 DEF vars
<1>2. CASE Next
  BY <1>0, <1>2 DEF Next, Connect, Join, Leave, Update, UpdateHost, UpdateJoin,
     UpdateDisconnect, UpdatePlayerlist, UpdatePoints, UpdateTurn, UpdateTile, UpdateCharscores,
     Move, PlaceTile, LoadScores, StartTurn, GivePoints, DoTurn, MayMove, Received
<1>3. QED BY <1>1, <1>2

(* Whoever has died had a cause, and it has lasted.                        *)
Dead == \A p \in Players : phase[p] = "crashed" => Caused(p)

LEMMA DeadNext == Inv /\ Fair /\ Dead /\ [Next]_vars => Dead'
BY CausesLast, DeathHasCause, WhoDies DEF Dead

(* Of players who keep the rules of HolderOnly none's program dies, as     *)
(* long as nobody leaves and it has seen no character without a score: the *)
(* letters have their scores and the player of a turn is known wherever a  *)
(* turn ends (context.cpp:284-331; scoring.hpp:16).                        *)
THEOREM RulesKeepAlive == ASSUME HolderOnly PROVE Spec => []CrashHasCause
<1>1. Init => Fair /\ Dead
  BY FairInit DEF Init, Dead
<1>2. Inv /\ Met /\ Fair /\ Dead /\ [Next]_vars => Fair' /\ Dead'
  BY FairNext, DeadNext
<1>3. Dead => CrashHasCause
  BY DEF Dead, Caused, Gone, CrashHasCause
<1>4. QED BY <1>1, <1>2, <1>3, InvHolds, MetHolds, PTL DEF Spec

-----------------------------------------------------------------------------
(* What an update makes of a turn and of one player's score.               *)

States == [player : Players \cup {NoPlayer}, letters : Nat, points : Int]

(* What p reckons with: whose turn it is, its letters, and the score of r. *)
Reckoned(p, r) ==
  [player |-> turn[p].player, letters |-> turn[p].letters, points |-> score[p][r]]

(* A turn ends the one before, a letter counts if there is a turn, points  *)
(* are given to r or to someone else.                                      *)
Result(r, s, m) ==
  IF m.kind = "turn"
  THEN [player |-> m.player, letters |-> 0,
        points |-> s.points + (IF s.player = r THEN s.letters ELSE 0)]
  ELSE IF m.kind = "tile" /\ s.player # NoPlayer THEN [s EXCEPT !.letters = @ + 1]
  ELSE IF m.kind = "points" /\ m.player = r THEN [s EXCEPT !.points = @ + m.value]
  ELSE s

(* f is the way from s through the updates of an inbox.                    *)
Way(r, box, f) ==
  /\ f \in [0 .. Len(box) -> States]
  /\ \A i \in 1 .. Len(box) : f[i] = Result(r, f[i - 1], box[i])
Leads(r, box, s, t) == \E f : Way(r, box, f) /\ f[0] = s /\ f[Len(box)] = t

TurnOrTile == {"turn", "tile"}
Quiet(box) == \A k \in DOMAIN box : box[k].kind \notin TurnOrTile

(* A nonempty set of numbers has a least one.                              *)
LEMMA Least == ASSUME NEW T \in SUBSET Nat, T # {} PROVE \E x \in T : \A y \in T : x <= y
<1>1. PICK x \in T : \A y \in T : ~(<<y, x>> \in OpToRel(<, Nat))
  BY NatLessThanWellFounded, WFMin
<1>2. \A y \in T : <<y, x>> \in OpToRel(<, Nat) <=> y < x
  BY DEF OpToRel
<1>3. ASSUME NEW y \in T PROVE x <= y
  <2>1. ~(y < x) /\ x \in Nat /\ y \in Nat
    BY <1>1, <1>2
  <2>2. QED BY <2>1
<1>4. QED BY <1>3

(* An update leads from a state to a state.                                *)
LEMMA ResultType ==
  ASSUME NEW r, NEW s \in States, NEW m \in Proper
  PROVE  Result(r, s, m) \in States
<1>1. (m.kind = "turn" => m.player \in Players) /\ m.value \in Int
  BY DEF Proper, About, Messages
<1>2. QED BY <1>1 DEF Result, States

(* Points may be given before or after anything, and turns and letters     *)
(* before or after anything that is neither.                               *)
LEMMA ResultsCommute ==
  ASSUME NEW r, NEW s \in States, NEW b \in Proper, NEW m \in Proper,
         m.kind \notin TurnOrTile \/ b.kind \notin TurnOrTile
  PROVE  Result(r, Result(r, s, b), m) = Result(r, Result(r, s, m), b)
<1>1. /\ s.player \in Players \cup {NoPlayer} /\ s.letters \in Nat /\ s.points \in Int
      /\ b.value \in Int /\ m.value \in Int
      /\ s = [player |-> s.player, letters |-> s.letters, points |-> s.points]
  BY DEF States, Proper, Messages
<1>2. CASE m.kind \notin TurnOrTile
  BY <1>1, <1>2 DEF Result, States, TurnOrTile
<1>3. CASE b.kind \notin TurnOrTile
  BY <1>1, <1>3 DEF Result, States, TurnOrTile
<1>4. QED BY <1>2, <1>3

(* Nothing leads nowhere else.                                             *)
LEMMA LeadsNone ==
  ASSUME NEW r, NEW s, NEW t, Leads(r, <<>>, s, t) PROVE s = t
BY DEF Leads

(* Nor do updates that are not of the game.                                *)
LEMMA LeadsStays ==
  ASSUME NEW r, NEW box \in Seq(Proper), NEW s \in States,
         \A k \in DOMAIN box : box[k].kind \notin Played
  PROVE  Leads(r, box, s, s)
<1> DEFINE f == [i \in 0 .. Len(box) |-> s]
<1>1. Len(box) \in Nat /\ DOMAIN box = 1 .. Len(box)
  OBVIOUS
<1>2. \A i \in 1 .. Len(box) : Result(r, s, box[i]) = s
  BY <1>1 DEF Result, Played
<1>3. Way(r, box, f) /\ f[0] = s /\ f[Len(box)] = s
  BY <1>1, <1>2 DEF Way
<1>4. QED BY <1>3 DEF Leads

(* One update more, one step more.                                         *)
LEMMA LeadsPush ==
  ASSUME NEW r, NEW box \in Seq(Proper), NEW m \in Proper, NEW s, NEW t, Leads(r, box, s, t)
  PROVE  Leads(r, Append(box, m), s, Result(r, t, m))
<1>0. /\ Append(box, m) \in Seq(Proper) /\ Len(Append(box, m)) = Len(box) + 1
      /\ Len(box) \in Nat
      /\ \A i \in 1 .. Len(box) : Append(box, m)[i] = box[i]
      /\ Append(box, m)[Len(box) + 1] = m
  OBVIOUS
<1>1. PICK f : Way(r, box, f) /\ f[0] = s /\ f[Len(box)] = t
  BY DEF Leads
<1> DEFINE n == Len(box)
           g == [i \in 0 .. (n + 1) |-> IF i = n + 1 THEN Result(r, t, m) ELSE f[i]]
<1>2. t \in States /\ Result(r, t, m) \in States
  BY <1>0, <1>1, ResultType DEF Way
<1>3. g \in [0 .. (n + 1) -> States]
  BY <1>0, <1>1, <1>2 DEF Way
<1>4. g[0] = s /\ g[n] = t /\ g[n + 1] = Result(r, t, m)
  BY <1>0, <1>1
<1>5. ASSUME NEW i \in 1 .. (n + 1) PROVE g[i] = Result(r, g[i - 1], Append(box, m)[i])
  <2>1. CASE i = n + 1
    BY <1>0, <1>4, <2>1
  <2>2. CASE i # n + 1
    <3>1. i \in 1 .. n /\ i - 1 \in 0 .. n /\ i - 1 # n + 1
      BY <1>0, <2>2
    <3>2. g[i] = f[i] /\ g[i - 1] = f[i - 1]
      BY <2>2, <3>1
    <3>3. QED BY <1>0, <1>1, <3>1, <3>2 DEF Way
  <2>3. QED BY <2>1, <2>2
<1>6. Way(r, Append(box, m), g)
  BY <1>0, <1>3, <1>5 DEF Way
<1>7. QED BY <1>0, <1>4, <1>6 DEF Leads

(* One update less, one step less.                                         *)
LEMMA LeadsPop ==
  ASSUME NEW r, NEW box \in Seq(Proper), box # <<>>, NEW s, NEW t, Leads(r, box, s, t)
  PROVE  Leads(r, Tail(box), Result(r, s, Head(box)), t)
<1>0. /\ Tail(box) \in Seq(Proper) /\ Len(Tail(box)) = Len(box) - 1
      /\ Len(box) \in Nat \ {0} /\ box[1] = Head(box)
      /\ \A i \in 1 .. (Len(box) - 1) : Tail(box)[i] = box[i + 1]
  OBVIOUS
<1>1. PICK f : Way(r, box, f) /\ f[0] = s /\ f[Len(box)] = t
  BY DEF Leads
<1> DEFINE n == Len(box) - 1
           g == [i \in 0 .. n |-> f[i + 1]]
<1>2. n \in Nat /\ n + 1 = Len(box) /\ Len(Tail(box)) = n
  BY <1>0
<1>3. \A i \in 0 .. n : i + 1 \in 1 .. Len(box) /\ i + 1 \in 0 .. Len(box) /\ g[i] = f[i + 1]
  BY <1>2
<1>4. g \in [0 .. n -> States]
  BY <1>1, <1>3 DEF Way
<1>5. g[0] = Result(r, s, Head(box)) /\ g[n] = t
  <2>1. g[0] = f[1] /\ g[n] = f[n + 1] /\ 1 \in 1 .. Len(box) /\ 1 - 1 = 0
    BY <1>0, <1>2, <1>3
  <2>2. QED BY <1>0, <1>1, <1>2, <2>1 DEF Way
<1>6. ASSUME NEW i \in 1 .. n PROVE g[i] = Result(r, g[i - 1], Tail(box)[i])
  <2>1. /\ i \in 0 .. n /\ i - 1 \in 0 .. n /\ i - 1 + 1 = i
        /\ (i + 1) - 1 = i /\ i + 1 \in 1 .. Len(box)
    BY <1>2
  <2>2. g[i] = f[i + 1] /\ g[i - 1] = f[i] /\ Tail(box)[i] = box[i + 1]
    BY <1>0, <1>2, <1>3, <2>1
  <2>3. f[i + 1] = Result(r, f[i], box[i + 1])
    BY <1>1, <2>1 DEF Way
  <2>4. QED BY <2>2, <2>3
<1>7. Way(r, Tail(box), g)
  BY <1>2, <1>4, <1>6 DEF Way
<1>8. QED BY <1>2, <1>5, <1>7 DEF Leads

(* Who makes a move that nothing in its inbox can tell apart from a later  *)
(* one comes to where it would come if it had waited.                      *)
LEMMA LeadsLater ==
  ASSUME NEW r, NEW box \in Seq(Proper), NEW m \in Proper, NEW s, NEW t, Leads(r, box, s, t),
         m.kind \notin TurnOrTile \/ Quiet(box)
  PROVE  Leads(r, box, Result(r, s, m), Result(r, t, m))
<1>0. Len(box) \in Nat /\ DOMAIN box = 1 .. Len(box) /\ \A i \in 1 .. Len(box) : box[i] \in Proper
  OBVIOUS
<1>1. PICK f : Way(r, box, f) /\ f[0] = s /\ f[Len(box)] = t
  BY DEF Leads
<1> DEFINE g == [i \in 0 .. Len(box) |-> Result(r, f[i], m)]
<1>2. \A i \in 0 .. Len(box) : f[i] \in States /\ Result(r, f[i], m) \in States
  BY <1>1, ResultType DEF Way
<1>3. g \in [0 .. Len(box) -> States]
  BY <1>2
<1>4. ASSUME NEW i \in 1 .. Len(box) PROVE g[i] = Result(r, g[i - 1], box[i])
  <2>1. i \in 0 .. Len(box) /\ i - 1 \in 0 .. Len(box)
    BY <1>0
  <2>2. g[i] = Result(r, f[i], m) /\ g[i - 1] = Result(r, f[i - 1], m)
    BY <2>1
  <2>3. f[i] = Result(r, f[i - 1], box[i])
    BY <1>1 DEF Way
  <2>4. f[i - 1] \in States /\ box[i] \in Proper
    BY <1>0, <1>2, <2>1
  <2>5. m.kind \notin TurnOrTile \/ box[i].kind \notin TurnOrTile
    BY <1>0 DEF Quiet
  <2>6. Result(r, Result(r, f[i - 1], box[i]), m) = Result(r, Result(r, f[i - 1], m), box[i])
    BY <2>4, <2>5, ResultsCommute
  <2>7. QED BY <2>2, <2>3, <2>6
<1>5. Way(r, box, g)
  BY <1>3, <1>4 DEF Way
<1>6. g[0] = Result(r, s, m) /\ g[Len(box)] = Result(r, t, m)
  BY <1>0, <1>1
<1>7. QED BY <1>5, <1>6 DEF Leads

-----------------------------------------------------------------------------
(* Whose turn it is, and will be.                                          *)

(* The turn of x begins with the i-th update, or, for i = 0, is the one    *)
(* there is, w's.                                                          *)
Reigns(w, box, i, x) ==
  \/ i = 0 /\ w = x
  \/ i \in DOMAIN box /\ Is(box[i], "turn", x)

(* Nothing that counts for a turn follows one of x: it is x that makes it. *)
Idle(w, box, x) == \A i \in 0 .. Len(box) : Reigns(w, box, i, x) =>
  \A k \in DOMAIN box : i < k => box[k].kind \notin TurnOrTile

(* Once x, who has gone, has a turn, nothing more counts until its         *)
(* disconnect is read, and nothing after that if its turn is still on.     *)
Heeded(w, box, x) == \A i \in 0 .. Len(box) : Reigns(w, box, i, x) =>
  \A k \in DOMAIN box : i < k /\ box[k].kind \in TurnOrTile =>
    \E j \in DOMAIN box : i < j /\ Is(box[j], "disconnect", x)
Passed(w, box, x) == \A i \in 0 .. Len(box) : Reigns(w, box, i, x) =>
  \A j, k \in DOMAIN box :
    i < j /\ j < k /\ Is(box[j], "disconnect", x) /\ box[k].kind \in TurnOrTile =>
      \E l \in DOMAIN box : i < l /\ l < j /\ box[l].kind = "turn"

(* No turn follows the i-th update.                                        *)
Unended(box, i) == \A l \in DOMAIN box : i < l => box[l].kind # "turn"

(* A turn that nothing ends is still on at the end.                        *)
LEMMA TurnLasts ==
  ASSUME NEW r, NEW box \in Seq(Proper), NEW s, NEW t, Leads(r, box, s, t), NEW x,
         NEW i \in 0 .. Len(box), Reigns(s.player, box, i, x), Unended(box, i)
  PROVE  t.player = x
<1>0. Len(box) \in Nat /\ DOMAIN box = 1 .. Len(box)
  OBVIOUS
<1>1. PICK f : Way(r, box, f) /\ f[0] = s /\ f[Len(box)] = t
  BY DEF Leads
<1> DEFINE bad == {k \in Nat : i <= k /\ k <= Len(box) /\ f[k].player # x}
<1> SUFFICES ASSUME bad # {} PROVE FALSE
  BY <1>0, <1>1
<1>2. PICK k \in bad : \A j \in bad : k <= j
  BY Least
<1>3. CASE k = i
  <2>1. CASE i = 0
    BY <1>0, <1>1, <1>2, <1>3, <2>1 DEF Reigns
  <2>2. CASE i # 0
    <3>1. i \in 1 .. Len(box) /\ Is(box[i], "turn", x)
      BY <1>0, <2>2 DEF Reigns
    <3>2. f[i] = Result(r, f[i - 1], box[i])
      BY <1>1, <3>1 DEF Way
    <3>3. f[i].player = x
      BY <3>1, <3>2 DEF Is, Result
    <3>4. QED BY <1>2, <1>3, <3>3
  <2>3. QED BY <2>1, <2>2
<1>4. CASE k # i
  <2>1. k \in 1 .. Len(box) /\ k - 1 \in 0 .. Len(box) /\ i <= k - 1 /\ i < k /\ k - 1 \in Nat
    BY <1>0, <1>2, <1>4
  <2>2. k - 1 \notin bad
    BY <1>2, <2>1
  <2>3. f[k - 1].player = x /\ f[k - 1] \in States
    BY <1>1, <2>1, <2>2 DEF Way
  <2>4. f[k] = Result(r, f[k - 1], box[k]) /\ box[k].kind # "turn"
    BY <1>0, <1>1, <2>1 DEF Way, Unended
  <2>5. f[k].player = x
    BY <2>3, <2>4 DEF Result, States
  <2>6. QED BY <1>2, <2>5
<1>5. QED BY <1>3, <1>4

(* The update read becomes the turn there is, or leaves it.                *)
Becomes(w, m) == IF m.kind = "turn" THEN m.player ELSE w

(* A reign in what is left is one in the inbox, one place further.         *)
LEMMA ReignsPop ==
  ASSUME NEW w, NEW box \in Seq(Proper), box # <<>>, NEW x, NEW i \in 0 .. Len(Tail(box)),
         Reigns(Becomes(w, Head(box)), Tail(box), i, x)
  PROVE  \/ Reigns(w, box, i + 1, x) /\ i + 1 \in 0 .. Len(box)
         \/ i = 0 /\ Reigns(w, box, 0, x) /\ Head(box).kind # "turn"
<1>0. /\ DOMAIN box = 1 .. Len(box) /\ DOMAIN Tail(box) = 1 .. (Len(box) - 1)
      /\ Len(Tail(box)) = Len(box) - 1
      /\ Len(box) \in Nat \ {0} /\ box[1] = Head(box)
      /\ \A k \in DOMAIN Tail(box) : Tail(box)[k] = box[k + 1] /\ k + 1 \in DOMAIN box
  BY Popped
<1>1. CASE i = 0
  <2>1. Becomes(w, Head(box)) = x
    BY <1>0, <1>1 DEF Reigns
  <2>2. CASE Head(box).kind = "turn"
    BY <1>0, <1>1, <2>1, <2>2 DEF Becomes, Reigns, Is
  <2>3. CASE Head(box).kind # "turn"
    BY <1>1, <2>1, <2>3 DEF Becomes, Reigns
  <2>4. QED BY <2>2, <2>3
<1>2. CASE i # 0
  BY <1>0, <1>2 DEF Reigns
<1>3. QED BY <1>1, <1>2

(* Reading one update leaves the rest as orderly.                          *)
LEMMA TurnsPop ==
  ASSUME NEW w, NEW box \in Seq(Proper), box # <<>>, NEW x
  PROVE  /\ Idle(w, box, x) => Idle(Becomes(w, Head(box)), Tail(box), x)
         /\ Heeded(w, box, x) /\ Passed(w, box, x) =>
              /\ Heeded(Becomes(w, Head(box)), Tail(box), x)
              /\ Passed(Becomes(w, Head(box)), Tail(box), x)
<1> DEFINE v == Becomes(w, Head(box))
           c == Tail(box)
<1>0. /\ DOMAIN box = 1 .. Len(box) /\ DOMAIN c = 1 .. (Len(box) - 1)
      /\ Len(c) = Len(box) - 1
      /\ Len(box) \in Nat \ {0} /\ box[1] = Head(box)
      /\ \A k \in DOMAIN c : c[k] = box[k + 1] /\ k + 1 \in DOMAIN box
      /\ \A k \in DOMAIN box : k = 1 \/ (k - 1 \in DOMAIN c /\ c[k - 1] = box[k])
  BY Popped
<1>1. ASSUME NEW i \in 0 .. Len(c), Reigns(v, c, i, x)
      PROVE  \E h \in 0 .. Len(box) : /\ Reigns(w, box, h, x) /\ h <= i + 1
                                      /\ h = i + 1 \/ (h = 0 /\ i = 0 /\ box[1].kind # "turn")
  <2>1. \/ Reigns(w, box, i + 1, x) /\ i + 1 \in 0 .. Len(box)
        \/ i = 0 /\ Reigns(w, box, 0, x) /\ Head(box).kind # "turn"
    BY <1>1, ReignsPop
  <2>2. QED BY <1>0, <2>1
<1>2. ASSUME Idle(w, box, x), NEW i \in 0 .. Len(c), Reigns(v, c, i, x),
             NEW k \in DOMAIN c, i < k
      PROVE  c[k].kind \notin TurnOrTile
  <2>1. PICK h \in 0 .. Len(box) : Reigns(w, box, h, x) /\ h <= i + 1
    BY <1>1, <1>2
  <2>2. k + 1 \in DOMAIN box /\ h < k + 1 /\ c[k] = box[k + 1]
    BY <1>0, <1>2, <2>1
  <2>3. QED BY <1>2, <2>1, <2>2 DEF Idle
<1>3. ASSUME Heeded(w, box, x), Passed(w, box, x), NEW i \in 0 .. Len(c), Reigns(v, c, i, x),
             NEW k \in DOMAIN c, i < k, c[k].kind \in TurnOrTile
      PROVE  \E j \in DOMAIN c : i < j /\ Is(c[j], "disconnect", x)
  <2>1. PICK h \in 0 .. Len(box) : /\ Reigns(w, box, h, x) /\ h <= i + 1
                                   /\ h = i + 1 \/ (h = 0 /\ i = 0 /\ box[1].kind # "turn")
    BY <1>1, <1>3
  <2>2. k + 1 \in DOMAIN box /\ h < k + 1 /\ box[k + 1].kind \in TurnOrTile
    BY <1>0, <1>3, <2>1
  <2>3. PICK j \in DOMAIN box : h < j /\ Is(box[j], "disconnect", x)
    BY <1>3, <2>1, <2>2 DEF Heeded
  <2>4. ASSUME j = 1 PROVE FALSE
    <3>1. h = 0 /\ box[1].kind # "turn" /\ j < k + 1
      BY <1>0, <1>3, <2>1, <2>3, <2>4
    <3>2. \E l \in DOMAIN box : h < l /\ l < j /\ box[l].kind = "turn"
      BY <1>3, <2>1, <2>2, <2>3, <3>1 DEF Passed
    <3>3. QED BY <1>0, <2>4, <3>1, <3>2
  <2>5. j - 1 \in DOMAIN c /\ c[j - 1] = box[j]
    BY <1>0, <2>4
  <2>6. i < j - 1
    BY <1>0, <1>3, <2>1, <2>3, <2>5
  <2>7. QED BY <2>3, <2>5, <2>6
<1>4. ASSUME Passed(w, box, x), NEW i \in 0 .. Len(c), Reigns(v, c, i, x),
             NEW j \in DOMAIN c, NEW k \in DOMAIN c,
             i < j, j < k, Is(c[j], "disconnect", x), c[k].kind \in TurnOrTile
      PROVE  \E l \in DOMAIN c : i < l /\ l < j /\ c[l].kind = "turn"
  <2>1. PICK h \in 0 .. Len(box) : /\ Reigns(w, box, h, x) /\ h <= i + 1
                                   /\ h = i + 1 \/ (h = 0 /\ i = 0 /\ box[1].kind # "turn")
    BY <1>1, <1>4
  <2>2. /\ j + 1 \in DOMAIN box /\ k + 1 \in DOMAIN box /\ h < j + 1 /\ j + 1 < k + 1
        /\ Is(box[j + 1], "disconnect", x) /\ box[k + 1].kind \in TurnOrTile
    BY <1>0, <1>4, <2>1
  <2>3. PICK l \in DOMAIN box : h < l /\ l < j + 1 /\ box[l].kind = "turn"
    BY <1>4, <2>1, <2>2 DEF Passed
  <2>4. l - 1 \in DOMAIN c /\ c[l - 1] = box[l]
    BY <1>0, <2>1, <2>3
  <2>5. i < l - 1 /\ l - 1 < j
    BY <1>0, <2>1, <2>3, <2>4
  <2>6. QED BY <2>3, <2>4, <2>5
<1>5. QED BY <1>2, <1>3, <1>4 DEF Idle, Heeded, Passed

(* Another turn follows each one of x; x has one, or one is on its way.    *)
Ended(w, box, x) == \A i \in 0 .. Len(box) : Reigns(w, box, i, x) =>
  \E l \in DOMAIN box : i < l /\ box[l].kind = "turn"
Reigned(w, box, x) == \E i \in 0 .. Len(box) : Reigns(w, box, i, x)

(* An inbox in which nothing counts for a turn is orderly.                 *)
LEMMA QuietTurns ==
  ASSUME NEW box, Quiet(box), NEW w, NEW x
  PROVE  Idle(w, box, x) /\ Heeded(w, box, x) /\ Passed(w, box, x)
BY DEF Quiet, Idle, Heeded, Passed

(* A reign in an inbox with one more update is an earlier one or begins    *)
(* with it.                                                                *)
LEMMA ReignsPush ==
  ASSUME NEW w, NEW box \in Seq(Proper), NEW m \in Proper, NEW x,
         NEW i \in 0 .. Len(Append(box, m)), Reigns(w, Append(box, m), i, x)
  PROVE  (i \in 0 .. Len(box) /\ Reigns(w, box, i, x)) \/ i = Len(box) + 1
<1>0. /\ DOMAIN Append(box, m) = DOMAIN box \cup {Len(box) + 1}
      /\ DOMAIN box = 1 .. Len(box) /\ Len(box) \in Nat
      /\ Len(Append(box, m)) = Len(box) + 1
      /\ \A k \in DOMAIN box : Append(box, m)[k] = box[k]
  BY Pushed
<1>1. QED BY <1>0 DEF Reigns

(* One more update leaves an inbox orderly if it does not count for a turn *)
(* or no turn of x is on when it comes, and if it is the disconnect of x.  *)
LEMMA TurnsPush ==
  ASSUME NEW w, NEW box \in Seq(Proper), NEW m \in Proper, NEW x
  PROVE  /\ Idle(w, box, x) /\ (m.kind \in TurnOrTile => ~Reigned(w, box, x)) =>
              Idle(w, Append(box, m), x)
         /\ Heeded(w, box, x) /\ Passed(w, box, x)
            /\ (m.kind \in TurnOrTile => Ended(w, box, x)) =>
              Heeded(w, Append(box, m), x) /\ Passed(w, Append(box, m), x)
         /\ Is(m, "disconnect", x) /\ ~Has(box, "disconnect", x) =>
              Heeded(w, Append(box, m), x) /\ Passed(w, Append(box, m), x)
<1> DEFINE c == Append(box, m)
           n == Len(box) + 1
<1>0. /\ DOMAIN c = DOMAIN box \cup {n} /\ DOMAIN c = 1 .. n /\ DOMAIN box = 1 .. Len(box)
      /\ Len(box) \in Nat /\ Len(c) = n
      /\ \A k \in DOMAIN box : c[k] = box[k]
      /\ c[n] = m
  BY Pushed
<1>1. ASSUME NEW i \in 0 .. Len(c), Reigns(w, c, i, x), NEW k \in DOMAIN c, i < k
      PROVE  i \in 0 .. Len(box) /\ Reigns(w, box, i, x)
  <2>1. i # n
    BY <1>0, <1>1
  <2>2. QED BY <1>1, <2>1, ReignsPush
<1>2. ASSUME Idle(w, box, x), m.kind \in TurnOrTile => ~Reigned(w, box, x),
             NEW i \in 0 .. Len(c), Reigns(w, c, i, x), NEW k \in DOMAIN c, i < k
      PROVE  c[k].kind \notin TurnOrTile
  <2>1. i \in 0 .. Len(box) /\ Reigns(w, box, i, x)
    BY <1>1, <1>2
  <2>2. CASE k = n
    BY <1>0, <1>2, <2>1, <2>2 DEF Reigned
  <2>3. CASE k # n
    BY <1>0, <1>2, <2>1, <2>3 DEF Idle
  <2>4. QED BY <2>2, <2>3
<1>3. ASSUME Heeded(w, box, x), m.kind \in TurnOrTile => Ended(w, box, x),
             NEW i \in 0 .. Len(c), Reigns(w, c, i, x), NEW k \in DOMAIN c, i < k,
             c[k].kind \in TurnOrTile
      PROVE  \E j \in DOMAIN c : i < j /\ Is(c[j], "disconnect", x)
  <2>1. i \in 0 .. Len(box) /\ Reigns(w, box, i, x)
    BY <1>1, <1>3
  <2>2. \E l \in DOMAIN box : i < l /\ box[l].kind \in TurnOrTile
    <3>1. CASE k = n
      <4>1. \E l \in DOMAIN box : i < l /\ box[l].kind = "turn"
        BY <1>0, <1>3, <2>1, <3>1 DEF Ended
      <4>2. QED BY <4>1 DEF TurnOrTile
    <3>2. CASE k # n
      BY <1>0, <1>3, <3>2
    <3>3. QED BY <3>1, <3>2
  <2>3. PICK j \in DOMAIN box : i < j /\ Is(box[j], "disconnect", x)
    BY <1>3, <2>1, <2>2 DEF Heeded
  <2>4. QED BY <1>0, <2>3
<1>4. ASSUME Passed(w, box, x), m.kind \in TurnOrTile => Ended(w, box, x),
             NEW i \in 0 .. Len(c), Reigns(w, c, i, x), NEW j \in DOMAIN c, NEW k \in DOMAIN c,
             i < j, j < k, Is(c[j], "disconnect", x), c[k].kind \in TurnOrTile
      PROVE  \E l \in DOMAIN c : i < l /\ l < j /\ c[l].kind = "turn"
  <2>1. /\ i \in 0 .. Len(box) /\ Reigns(w, box, i, x)
        /\ j \in DOMAIN box /\ Is(box[j], "disconnect", x)
    <3>1. i < k
      BY <1>0, <1>4
    <3>2. QED BY <1>0, <1>1, <1>4, <3>1
  <2>2. CASE k # n
    <3>1. k \in DOMAIN box /\ box[k].kind \in TurnOrTile
      BY <1>0, <1>4, <2>2
    <3>2. PICK l \in DOMAIN box : i < l /\ l < j /\ box[l].kind = "turn"
      BY <1>4, <2>1, <3>1 DEF Passed
    <3>3. QED BY <1>0, <3>2
  <2>3. CASE k = n
    <3>1. PICK l \in DOMAIN box : i < l /\ box[l].kind = "turn"
      BY <1>0, <1>4, <2>1, <2>3 DEF Ended
    <3>2. CASE l < j
      BY <1>0, <3>1, <3>2
    <3>3. CASE ~(l < j)
      <4>1. j < l
        <5>1. j # l
          BY <2>1, <3>1 DEF Is
        <5>2. QED BY <1>0, <2>1, <3>1, <3>3, <5>1
      <4>2. PICK a \in DOMAIN box : i < a /\ a < j /\ box[a].kind = "turn"
        BY <1>4, <2>1, <3>1, <4>1 DEF Passed, TurnOrTile
      <4>3. QED BY <1>0, <4>2
    <3>4. QED BY <3>2, <3>3
  <2>4. QED BY <2>2, <2>3
<1>5. ASSUME Is(m, "disconnect", x), ~Has(box, "disconnect", x)
      PROVE  Heeded(w, c, x) /\ Passed(w, c, x)
  <2>1. \A j \in DOMAIN c : Is(c[j], "disconnect", x) <=> j = n
    BY <1>0, <1>5 DEF Has
  <2>2. n \in DOMAIN c /\ c[n].kind \notin TurnOrTile
    BY <1>0, <1>5 DEF Is, TurnOrTile
  <2>3. Heeded(w, c, x)
    <3> SUFFICES ASSUME NEW i \in 0 .. Len(c), NEW k \in DOMAIN c, i < k PROVE i < n
      BY <2>1, <2>2 DEF Heeded
    <3> QED BY <1>0
  <2>4. Passed(w, c, x)
    BY <1>0, <2>1 DEF Passed
  <2>5. QED BY <2>3, <2>4
<1>6. QED BY <1>2, <1>3, <1>4, <1>5 DEF Idle, Heeded, Passed

-----------------------------------------------------------------------------
(* What everyone will have reckoned.                                       *)

(* All who play come to the same turn and the same score of r when they    *)
(* have applied their updates.                                             *)
Agree == \A r \in Playing : \E t \in States : \A p \in Playing :
  Leads(r, inbox[p], Reckoned(p, r), t)

(* Only its player plays in a turn, or the first host, once that player    *)
(* has gone and the host has read so.                                      *)
Token == \A p \in Playing : Idle(turn[p].player, inbox[p], p)
Succession == \A h \in Playing : First(h) => \A x \in Gone :
  Heeded(turn[h].player, inbox[h], x) /\ Passed(turn[h].player, inbox[h], x)

(* The first host makes the first turn.                                    *)
Opening == \A h \in Players : First(h) /\ turn[h].player = NoPlayer => \A p \in Players :
  /\ turn[p].player = NoPlayer
  /\ \A kind \in {"turn", "tile", "points"} : ~HasKind(inbox[p], kind)

Table == Agree /\ Token /\ Succession /\ Opening

(* The types of what is reckoned.                                          *)
LEMMA ReckonedType == ASSUME Inv, NEW p \in Players, NEW r \in Players
                      PROVE  Reckoned(p, r) \in States /\ Reckoned(p, r).player = turn[p].player
<1>1. score \in [Players -> [Players -> Int]]
  BY DEF Inv, TypeOK
<1>2. turn[p] \in {NoTurn} \cup [player : Players, letters : Nat]
  BY Turns
<1>3. turn[p].player \in Players \cup {NoPlayer} /\ turn[p].letters \in Nat
  BY <1>2 DEF NoTurn
<1>4. score[p][r] \in Int
  BY <1>1
<1>5. QED BY <1>3, <1>4 DEF Reckoned, States

(* Before the game there is nothing to reckon.                             *)
LEMMA TableYet == Inv /\ ~Underway => Table
<1> SUFFICES ASSUME Inv, ~Underway PROVE Table
  OBVIOUS
<1>1. \A p \in Players : /\ turn[p] = NoTurn /\ \A r \in Players : score[p][r] = 0
                         /\ \A kind \in Played : ~HasKind(inbox[p], kind)
                         /\ inbox[p] \in Seq(Proper)
  BY Basics DEF Underway
<1>2. \A p \in Players : \A k \in DOMAIN inbox[p] : inbox[p][k].kind \notin Played
  BY <1>1 DEF HasKind
<1>3. \A p \in Players : Quiet(inbox[p])
  BY <1>2 DEF Quiet, TurnOrTile, Played
<1>4. Playing \subseteq Players
  BY DEF Playing
<1>5. Agree
  <2> SUFFICES ASSUME NEW r \in Playing
               PROVE  \E t \in States : \A p \in Playing : Leads(r, inbox[p], Reckoned(p, r), t)
    BY DEF Agree
  <2> DEFINE t == [player |-> NoPlayer, letters |-> 0, points |-> 0]
  <2>1. t \in States
    BY DEF States
  <2>2. \A p \in Players : Reckoned(p, r) = t
    BY <1>1, <1>4 DEF Reckoned, NoTurn
  <2> HIDE DEF t
  <2>3. \A p \in Playing : Leads(r, inbox[p], t, t)
    BY <1>1, <1>2, <1>4, <2>1, LeadsStays
  <2>4. QED BY <1>4, <2>1, <2>2, <2>3
<1>6. Token /\ Succession
  BY <1>3, <1>4, QuietTurns DEF Token, Succession
<1>7. Opening
  BY <1>1 DEF Opening, NoTurn, Played
<1>8. QED BY <1>5, <1>6, <1>7 DEF Table

(* While someone has yet to connect or to join there is no game, and       *)
(* there still is none.                                                    *)
LEMMA NoGameYet ==
  ASSUME Inv, Met, Fair, NEW p \in Players, Connect(p) \/ Join(p) PROVE ~Underway'
<1>0. /\ phase[p] \in {"away", "connected"} /\ p \notin Joined /\ p \notin Gone
      /\ UNCHANGED <<scored, score, turn>>
  BY DEF Connect, Join, Joined, Gone, local
<1>1. ~Underway
  BY <1>0 DEF Fair, AllThere, Open
<1>2. \A q \in Players : \A kind \in Played : ~HasKind(inbox'[q], kind)
  <2>1. \A q \in Players : \A kind \in Played : ~HasKind(inbox[q], kind)
    BY <1>1 DEF Underway
  <2>2. CASE Connect(p)
    <3>1. \A q \in Players : q # p => inbox'[q] = inbox[q]
      BY <2>2, Basics DEF Connect
    <3>2. inbox'[p] = <<Message("host", p)>> \/ inbox'[p] = <<>>
      BY <2>2, Basics DEF Connect
    <3>3. \A kind \in Played : ~HasKind(inbox'[p], kind)
      BY <3>2 DEF HasKind, Message, Valued, Played
    <3>4. QED BY <2>1, <3>1, <3>3
  <2>3. CASE Join(p)
    <3>1. PICK m \in Proper : m.kind = "join" /\ Publish(p, m)
      BY <2>3, MessageFacts DEF Join, Kinds
    <3>2. \A q \in Players : \/ inbox'[q] = inbox[q]
                             \/ inbox'[q] = Append(inbox[q], m) /\ inbox[q] \in Seq(Proper)
      <4>1. \A q \in Players : inbox'[q] = IF q \in online /\ q # p THEN Append(inbox[q], m)
                                                                     ELSE inbox[q]
        BY <3>1, Reaches
      <4>2. \A q \in Players : inbox[q] \in Seq(Proper)
        BY Basics
      <4>3. QED BY <4>1, <4>2
    <3>3. \A q \in Players : \A kind \in Played :
            inbox[q] \in Seq(Proper) => ~HasKind(Append(inbox[q], m), kind)
      BY <2>1, <3>1, PushSays DEF Played
    <3>4. QED BY <2>1, <3>2, <3>3
  <2>4. QED BY <2>2, <2>3
<1>3. QED BY <1>0, <1>1, <1>2 DEF Underway

(* From the agreement on what will be reckoned to that on what is.         *)
LEMMA AgreedOn == ASSUME Inv, Table PROVE ScoresAgree
<1> SUFFICES ASSUME NEW p \in UpToDate, NEW q \in UpToDate
             PROVE  turn[p] = turn[q] /\ \A r \in Playing : score[p][r] = score[q][r]
  BY DEF ScoresAgree
<1>0. /\ p \in Playing /\ q \in Playing /\ inbox[p] = <<>> /\ inbox[q] = <<>>
      /\ Playing \subseteq Players
  BY DEF UpToDate, Playing
<1>1. ASSUME NEW r \in Playing PROVE Reckoned(p, r) = Reckoned(q, r)
  <2>1. PICK t \in States : \A o \in Playing : Leads(r, inbox[o], Reckoned(o, r), t)
    BY DEF Table, Agree
  <2>2. Leads(r, <<>>, Reckoned(p, r), t) /\ Leads(r, <<>>, Reckoned(q, r), t)
    BY <1>0, <2>1
  <2>3. Reckoned(p, r) = t /\ Reckoned(q, r) = t
    BY <2>2, LeadsNone
  <2>4. QED BY <2>3
<1>2. \A r \in Playing : score[p][r] = score[q][r]
  BY <1>1 DEF Reckoned
<1>3. turn[p].player = turn[q].player /\ turn[p].letters = turn[q].letters
  BY <1>0, <1>1 DEF Reckoned
<1>4. turn[p] = turn[q]
  <2>1. turn[p] \in [player : Players \cup {NoPlayer}, letters : Nat]
        /\ turn[q] \in [player : Players \cup {NoPlayer}, letters : Nat]
    BY <1>0 DEF Inv, TypeOK, NoTurn
  <2>2. QED BY <1>3, <2>1
<1>5. QED BY <1>2, <1>4

(* An update on its way that is not of the game changes nothing in what    *)
(* anyone comes to.                                                        *)
LEMMA LeadsPast ==
  ASSUME NEW r, NEW box \in Seq(Proper), NEW m \in Proper, m.kind \notin Played, NEW s, NEW t,
         Leads(r, box, s, t)
  PROVE  Leads(r, Append(box, m), s, t)
<1>1. Result(r, t, m) = t
  BY DEF Result, Played
<1>2. QED BY <1>1, LeadsPush

(* Nor does it count for a turn.                                           *)
LEMMA TurnsPast ==
  ASSUME NEW w, NEW box \in Seq(Proper), NEW m \in Proper, m.kind \notin Played, NEW x
  PROVE  /\ Idle(w, box, x) => Idle(w, Append(box, m), x)
         /\ Heeded(w, box, x) /\ Passed(w, box, x) =>
              Heeded(w, Append(box, m), x) /\ Passed(w, Append(box, m), x)
         /\ \A kind \in Played : HasKind(Append(box, m), kind) <=> HasKind(box, kind)
<1>1. m.kind \notin TurnOrTile
  BY DEF Played, TurnOrTile
<1>2. QED BY <1>1, TurnsPush, PushSays

(* What others are told is at most an update that is not of the game.      *)
Told(q) == \/ inbox'[q] = inbox[q]
           \/ \E m \in Proper : m.kind \notin Played /\ inbox'[q] = Append(inbox[q], m)

(* Of such a player, as long as it does nothing itself.                    *)
LEMMA ToldTable ==
  ASSUME Inv, NEW q \in Players, Told(q), turn'[q] = turn[q], score'[q] = score[q]
  PROVE  /\ \A r, t : Leads(r, inbox[q], Reckoned(q, r), t) =>
                        Leads(r, inbox'[q], Reckoned(q, r)', t)
         /\ \A x : Idle(turn[q].player, inbox[q], x) => Idle(turn'[q].player, inbox'[q], x)
         /\ \A x : Heeded(turn[q].player, inbox[q], x) /\ Passed(turn[q].player, inbox[q], x) =>
              Heeded(turn'[q].player, inbox'[q], x) /\ Passed(turn'[q].player, inbox'[q], x)
         /\ \A kind \in Played : HasKind(inbox'[q], kind) <=> HasKind(inbox[q], kind)
<1>1. inbox[q] \in Seq(Proper)
  BY Basics
<1>2. \A r : Reckoned(q, r)' = Reckoned(q, r)
  BY DEF Reckoned
<1>3. CASE inbox'[q] = inbox[q]
  BY <1>2, <1>3
<1>4. ASSUME NEW m \in Proper, m.kind \notin Played, inbox'[q] = Append(inbox[q], m)
      PROVE  /\ \A r, t : Leads(r, inbox[q], Reckoned(q, r), t) =>
                            Leads(r, inbox'[q], Reckoned(q, r), t)
             /\ \A x : Idle(turn[q].player, inbox[q], x) => Idle(turn[q].player, inbox'[q], x)
             /\ \A x : Heeded(turn[q].player, inbox[q], x) /\ Passed(turn[q].player, inbox[q], x)
                  => Heeded(turn[q].player, inbox'[q], x) /\ Passed(turn[q].player, inbox'[q], x)
             /\ \A kind \in Played : HasKind(inbox'[q], kind) <=> HasKind(inbox[q], kind)
  <2>1. \A r, t : Leads(r, inbox[q], Reckoned(q, r), t) =>
                    Leads(r, Append(inbox[q], m), Reckoned(q, r), t)
    BY <1>1, <1>4, LeadsPast
  <2>2. /\ \A x : Idle(turn[q].player, inbox[q], x) =>
                    Idle(turn[q].player, Append(inbox[q], m), x)
        /\ \A x : Heeded(turn[q].player, inbox[q], x) /\ Passed(turn[q].player, inbox[q], x) =>
                    /\ Heeded(turn[q].player, Append(inbox[q], m), x)
                    /\ Passed(turn[q].player, Append(inbox[q], m), x)
    BY <1>1, <1>4, TurnsPast
  <2>3. \A kind \in Played : HasKind(Append(inbox[q], m), kind) <=> HasKind(inbox[q], kind)
    BY <1>1, <1>4, TurnsPast
  <2>4. QED BY <1>4, <2>1, <2>2, <2>3
<1>5. CASE \E m \in Proper : m.kind \notin Played /\ inbox'[q] = Append(inbox[q], m)
  BY <1>2, <1>4, <1>5
<1>6. QED BY <1>3, <1>5 DEF Told

(* An update of any kind is applied.  Its reader comes to what it would    *)
(* have come to; a host may answer it.                                     *)
LEMMA PollTable ==
  ASSUME Inv, Table, NEW p \in Players, inbox[p] # <<>>, inbox'[p] = Tail(inbox[p]),
         UNCHANGED <<online, hosts>>, Playing' \subseteq Playing, Gone' = Gone,
         \A q \in Players : q # p => turn'[q] = turn[q] /\ score'[q] = score[q] /\ Told(q),
         Head(inbox[p]).kind # "turn" => turn'[p].player = turn[p].player,
         turn[p].player # NoPlayer => turn'[p].player # NoPlayer,
         p \in Playing' => \A r \in Playing' :
           Reckoned(p, r)' = Result(r, Reckoned(p, r), Head(inbox[p]))
  PROVE  Table'
<1> DEFINE m == Head(inbox[p])
<1>0. inbox[p] \in Seq(Proper) /\ m \in Proper /\ Playing \subseteq Players
  BY Basics, Popped DEF Playing
<1>1. ASSUME NEW q \in Players, q # p
      PROVE  /\ \A r, t : Leads(r, inbox[q], Reckoned(q, r), t) =>
                            Leads(r, inbox'[q], Reckoned(q, r)', t)
             /\ \A x : Idle(turn[q].player, inbox[q], x) => Idle(turn'[q].player, inbox'[q], x)
             /\ \A x : Heeded(turn[q].player, inbox[q], x) /\ Passed(turn[q].player, inbox[q], x)
                  => Heeded(turn'[q].player, inbox'[q], x) /\ Passed(turn'[q].player, inbox'[q], x)
             /\ \A kind \in Played : HasKind(inbox'[q], kind) <=> HasKind(inbox[q], kind)
  BY <1>1, ToldTable
<1>2. p \in Playing' => turn'[p].player = Becomes(turn[p].player, m)
  <2> SUFFICES ASSUME p \in Playing' PROVE turn'[p].player = Becomes(turn[p].player, m)
    OBVIOUS
  <2>1. Reckoned(p, p)' = Result(p, Reckoned(p, p), m)
    OBVIOUS
  <2>2. Reckoned(p, p)'.player = turn'[p].player
    BY DEF Reckoned
  <2>3. Reckoned(p, p) \in States /\ Reckoned(p, p).player = turn[p].player
    BY ReckonedType
  <2>4. Result(p, Reckoned(p, p), m).player = Becomes(turn[p].player, m)
    BY <2>3 DEF Result, Becomes, States
  <2>5. QED BY <2>1, <2>2, <2>4
<1>3. Agree'
  <2> SUFFICES ASSUME NEW r \in Playing'
               PROVE  \E t \in States : \A q \in Playing' : Leads(r, inbox'[q], Reckoned(q, r)', t)
    BY DEF Agree
  <2>1. PICK t \in States : \A q \in Playing : Leads(r, inbox[q], Reckoned(q, r), t)
    BY DEF Table, Agree
  <2>2. ASSUME NEW q \in Playing' PROVE Leads(r, inbox'[q], Reckoned(q, r)', t)
    <3>1. q \in Playing /\ q \in Players /\ Leads(r, inbox[q], Reckoned(q, r), t)
      BY <1>0, <2>1
    <3>2. CASE q = p
      <4>1. Leads(r, Tail(inbox[p]), Result(r, Reckoned(p, r), m), t)
        BY <1>0, <3>1, <3>2, LeadsPop
      <4>2. Reckoned(p, r)' = Result(r, Reckoned(p, r), m)
        BY <3>2
      <4>3. QED BY <3>2, <4>1, <4>2
    <3>3. CASE q # p
      BY <1>1, <3>1, <3>3
    <3>4. QED BY <3>2, <3>3
  <2>3. QED BY <2>2
<1>4. Token'
  <2> SUFFICES ASSUME NEW q \in Playing' PROVE Idle(turn'[q].player, inbox'[q], q)
    BY DEF Token
  <2>1. q \in Players /\ Idle(turn[q].player, inbox[q], q)
    BY <1>0 DEF Table, Token
  <2>2. CASE q = p
    <3>1. Idle(Becomes(turn[p].player, m), Tail(inbox[p]), p)
      BY <1>0, <2>1, <2>2, TurnsPop
    <3>2. QED BY <1>2, <2>2, <3>1
  <2>3. CASE q # p
    BY <1>1, <2>1, <2>3
  <2>4. QED BY <2>2, <2>3
<1>5. Succession'
  <2> SUFFICES ASSUME NEW h \in Playing', First(h)', NEW x \in Gone'
               PROVE  Heeded(turn'[h].player, inbox'[h], x) /\ Passed(turn'[h].player, inbox'[h], x)
    BY DEF Succession
  <2>1. /\ h \in Players /\ First(h) /\ x \in Gone /\ h \in Playing
        /\ Heeded(turn[h].player, inbox[h], x) /\ Passed(turn[h].player, inbox[h], x)
    BY <1>0 DEF Table, Succession, First
  <2>2. CASE h = p
    <3>1. /\ Heeded(Becomes(turn[p].player, m), Tail(inbox[p]), x)
          /\ Passed(Becomes(turn[p].player, m), Tail(inbox[p]), x)
      BY <1>0, <2>1, <2>2, TurnsPop
    <3>2. QED BY <1>2, <2>2, <3>1
  <2>3. CASE h # p
    BY <1>1, <2>1, <2>3
  <2>4. QED BY <2>2, <2>3
<1>6. Opening'
  <2> SUFFICES ASSUME NEW h \in Players, First(h)', turn'[h].player = NoPlayer, NEW q \in Players
               PROVE  /\ turn'[q].player = NoPlayer
                      /\ \A kind \in {"turn", "tile", "points"} : ~HasKind(inbox'[q], kind)
    BY DEF Opening
  <2>1. First(h) /\ turn[h].player = NoPlayer
    BY DEF First
  <2>2. \A o \in Players : /\ turn[o].player = NoPlayer
                           /\ \A kind \in {"turn", "tile", "points"} : ~HasKind(inbox[o], kind)
    BY <2>1 DEF Table, Opening
  <2>3. /\ \A kind : HasKind(inbox[p], kind) <=> HasKind(Tail(inbox[p]), kind) \/ m.kind = kind
    BY <1>0, PopSays
  <2>4. CASE q = p
    <3>1. m.kind # "turn" /\ turn[p].player = NoPlayer
      BY <2>2, <2>3
    <3>2. turn'[p].player = NoPlayer
      BY <3>1
    <3>3. \A kind \in {"turn", "tile", "points"} : ~HasKind(inbox[p], kind)
      BY <2>2
    <3>4. \A kind \in {"turn", "tile", "points"} : ~HasKind(Tail(inbox[p]), kind)
      BY <2>3, <3>3
    <3>5. QED BY <2>4, <3>2, <3>4
  <2>5. CASE q # p
    BY <1>1, <2>2, <2>5 DEF Played
  <2>6. QED BY <2>4, <2>5
<1>7. QED BY <1>3, <1>4, <1>5, <1>6 DEF Table

(* Who leaves tells so, after all it has played.                           *)
LEMMA LeaveTable == ASSUME Inv, Met, Table, NEW p \in Players, Leave(p) PROVE Table'
<1> DEFINE m == Message("disconnect", p)
<1>0. /\ p \in online /\ p \notin Gone
      /\ UNCHANGED <<hosts, score, turn>> /\ online' = online \ {p}
      /\ m \in Proper /\ m.kind \notin Played /\ Is(m, "disconnect", p)
      /\ Gone' = Gone \cup {p} /\ Playing' = Playing \ {p} /\ Playing \subseteq Players
  <2>1. m \in Proper /\ m.kind = "disconnect" /\ m.player = p
    BY MessageFacts DEF Kinds
  <2>2. QED BY <2>1, Leaves DEF Is, Played, Playing
<1>1. \A q \in Players : inbox'[q] = IF q = p THEN <<>> ELSE
                                     IF q \in online THEN Append(inbox[q], m) ELSE inbox[q]
  BY Basics DEF Leave, Relay
<1> HIDE DEF m
<1>2. ASSUME NEW q \in Players, q # p
      PROVE  /\ \A r, t : Leads(r, inbox[q], Reckoned(q, r), t) =>
                            Leads(r, inbox'[q], Reckoned(q, r)', t)
             /\ \A x : Idle(turn[q].player, inbox[q], x) => Idle(turn'[q].player, inbox'[q], x)
             /\ \A x : Heeded(turn[q].player, inbox[q], x) /\ Passed(turn[q].player, inbox[q], x)
                  => Heeded(turn'[q].player, inbox'[q], x) /\ Passed(turn'[q].player, inbox'[q], x)
             /\ \A kind \in Played : HasKind(inbox'[q], kind) <=> HasKind(inbox[q], kind)
  <2>1. Told(q)
    BY <1>0, <1>1, <1>2 DEF Told
  <2>2. turn'[q] = turn[q] /\ score'[q] = score[q]
    BY <1>0
  <2>3. QED BY <2>1, <2>2, ToldTable
<1>3. Agree'
  <2> SUFFICES ASSUME NEW r \in Playing'
               PROVE  \E t \in States : \A q \in Playing' : Leads(r, inbox'[q], Reckoned(q, r)', t)
    BY DEF Agree
  <2>1. PICK t \in States : \A q \in Playing : Leads(r, inbox[q], Reckoned(q, r), t)
    BY <1>0 DEF Table, Agree
  <2>2. \A q \in Playing' : Leads(r, inbox'[q], Reckoned(q, r)', t)
    BY <1>0, <1>2, <2>1
  <2>3. QED BY <2>2
<1>4. Token'
  <2> SUFFICES ASSUME NEW q \in Playing' PROVE Idle(turn'[q].player, inbox'[q], q)
    BY DEF Token
  <2>1. q \in Players /\ q # p /\ Idle(turn[q].player, inbox[q], q)
    BY <1>0 DEF Table, Token
  <2>2. QED BY <1>2, <2>1
<1>5. Succession'
  <2> SUFFICES ASSUME NEW h \in Playing', First(h)', NEW x \in Gone'
               PROVE  Heeded(turn'[h].player, inbox'[h], x) /\ Passed(turn'[h].player, inbox'[h], x)
    BY DEF Succession
  <2>1. h \in Players /\ h # p /\ First(h) /\ h \in Playing
    BY <1>0 DEF First
  <2>2. CASE x \in Gone
    BY <1>2, <2>1, <2>2 DEF Table, Succession
  <2>3. CASE x = p
    <3>1. ~Has(inbox[h], "disconnect", p)
      BY <1>0, <2>1 DEF Met, Truthful
    <3>2. inbox[h] \in Seq(Proper) /\ inbox'[h] = Append(inbox[h], m)
      BY <1>1, <2>1, Basics DEF First
    <3>3. /\ Heeded(turn[h].player, Append(inbox[h], m), p)
          /\ Passed(turn[h].player, Append(inbox[h], m), p)
      BY <1>0, <3>1, <3>2, TurnsPush
    <3>4. QED BY <1>0, <2>3, <3>2, <3>3
  <2>4. QED BY <1>0, <2>2, <2>3
<1>6. Opening'
  <2> SUFFICES ASSUME NEW h \in Players, First(h)', turn'[h].player = NoPlayer, NEW q \in Players
               PROVE  /\ turn'[q].player = NoPlayer
                      /\ \A kind \in {"turn", "tile", "points"} : ~HasKind(inbox'[q], kind)
    BY DEF Opening
  <2>1. First(h) /\ turn[h].player = NoPlayer
    BY <1>0 DEF First
  <2>2. /\ turn[q].player = NoPlayer
        /\ \A kind \in {"turn", "tile", "points"} : ~HasKind(inbox[q], kind)
    BY <2>1 DEF Table, Opening
  <2>3. CASE q = p
    BY <1>0, <1>1, <2>2, <2>3 DEF HasKind
  <2>4. CASE q # p
    BY <1>0, <1>2, <2>2, <2>4 DEF Played
  <2>5. QED BY <2>3, <2>4
<1>7. QED BY <1>3, <1>4, <1>5, <1>6 DEF Table

(* Who has a turn on its way to it, or has it, will have it at the end: it *)
(* is idle from there on.                                                  *)
LEMMA IdleReigns ==
  ASSUME NEW r, NEW w, NEW box \in Seq(Proper), NEW s, NEW t, Leads(r, box, s, t), w = s.player,
         NEW x, Idle(w, box, x), Reigned(w, box, x)
  PROVE  t.player = x
<1>1. PICK i \in 0 .. Len(box) : Reigns(s.player, box, i, x)
  BY DEF Reigned
<1>2. Unended(box, i)
  BY <1>1 DEF Idle, TurnOrTile, Unended
<1>3. QED BY <1>1, <1>2, TurnLasts

(* A reign of someone who is not the last ends.                            *)
LEMMA OthersEnd ==
  ASSUME NEW r, NEW w, NEW box \in Seq(Proper), NEW s, NEW t, Leads(r, box, s, t), w = s.player,
         NEW x, t.player # x
  PROVE  Ended(w, box, x)
<1> SUFFICES ASSUME NEW i \in 0 .. Len(box), Reigns(w, box, i, x),
                    Unended(box, i)
             PROVE  FALSE
  BY DEF Ended, Unended
<1>1. Reigns(s.player, box, i, x)
  OBVIOUS
<1>2. t.player = x
  BY <1>1, TurnLasts
<1>3. QED BY <1>2

(* Who has nothing to read that counts for a turn has the turn.            *)
LEMMA QuietLasts ==
  ASSUME NEW r, NEW box \in Seq(Proper), NEW s, NEW t, Leads(r, box, s, t), Quiet(box)
  PROVE  t.player = s.player
<1>1. 0 \in 0 .. Len(box) /\ Reigns(s.player, box, 0, s.player)
  BY DEF Reigns
<1>2. Unended(box, 0)
  BY DEF Quiet, TurnOrTile, Unended
<1>3. QED BY <1>1, <1>2, TurnLasts

(* A move by the rules.  Who makes one that counts for a turn has read all *)
(* that does, has the turn or is the first host, and nobody who plays has  *)
(* it.                                                                     *)
LEMMA MoveTable ==
  ASSUME Inv, Table, NEW p \in Playing, NEW m \in Proper, m.kind \in Played, Publish(p, m),
         Plays(p, m.kind), Playing' \subseteq Playing,
         \A q \in Players : q # p => score'[q] = score[q],
         m.kind # "turn" => turn'[p].player = turn[p].player,
         p \in Playing' => \A r \in Playing' : Reckoned(p, r)' = Result(r, Reckoned(p, r), m),
         m.kind \in TurnOrTile => /\ Quiet(inbox[p])
                                  /\ turn[p].player = p \/ First(p)
                                  /\ turn[p].player \notin Playing \ {p},
         m.kind \in {"tile", "points"} => turn[p].player # NoPlayer
  PROVE  Table'
<1>0. /\ p \in Players /\ Playing \subseteq online /\ Playing \subseteq Players
      /\ \A q \in Players : inbox[q] \in Seq(Proper)
      /\ UNCHANGED <<online, hosts>> /\ Gone' = Gone
      /\ \A q \in Players : q # p => turn'[q] = turn[q] /\ score'[q] = score[q]
  BY Basics DEF Playing, Plays, There
<1>1. \A q \in Players : inbox'[q] = IF q \in online /\ q # p THEN Append(inbox[q], m) ELSE inbox[q]
  BY <1>0, Reaches
<1>2. \A q \in Players : q # p => \A r : Reckoned(q, r)' = Reckoned(q, r)
  BY <1>0 DEF Reckoned
<1>3. \A r \in Players, q \in Players : /\ Reckoned(q, r) \in States
                                        /\ Reckoned(q, r).player = turn[q].player
  BY ReckonedType
<1>4. Agree'
  <2> SUFFICES ASSUME NEW r \in Playing'
               PROVE  \E t \in States : \A q \in Playing' : Leads(r, inbox'[q], Reckoned(q, r)', t)
    BY DEF Agree
  <2>1. PICK t \in States : \A q \in Playing : Leads(r, inbox[q], Reckoned(q, r), t)
    BY DEF Table, Agree
  <2>2. Result(r, t, m) \in States
    BY ResultType
  <2>3. ASSUME NEW q \in Playing' PROVE Leads(r, inbox'[q], Reckoned(q, r)', Result(r, t, m))
    <3>1. /\ q \in Playing /\ q \in Players /\ q \in online /\ inbox[q] \in Seq(Proper)
          /\ Leads(r, inbox[q], Reckoned(q, r), t)
      BY <1>0, <2>1
    <3>2. CASE q = p
      <4>1. Leads(r, inbox[p], Result(r, Reckoned(p, r), m), Result(r, t, m))
        BY <3>1, <3>2, LeadsLater
      <4>2. inbox'[p] = inbox[p] /\ Reckoned(p, r)' = Result(r, Reckoned(p, r), m)
        BY <1>0, <1>1, <3>2
      <4>3. QED BY <3>2, <4>1, <4>2
    <3>3. CASE q # p
      <4>1. Leads(r, Append(inbox[q], m), Reckoned(q, r), Result(r, t, m))
        BY <3>1, LeadsPush
      <4>2. inbox'[q] = Append(inbox[q], m) /\ Reckoned(q, r)' = Reckoned(q, r)
        BY <1>1, <1>2, <3>1, <3>3
      <4>3. QED BY <4>1, <4>2
    <3>4. QED BY <3>2, <3>3
  <2>4. QED BY <2>2, <2>3
<1>5. ASSUME m.kind \in TurnOrTile, NEW q \in Playing, q # p
      PROVE  /\ ~Reigned(turn[q].player, inbox[q], q)
             /\ turn[p].player = p =>
                  \A x : x # p => Ended(turn[q].player, inbox[q], x)
  <2>1. PICK t \in States : \A o \in Playing : Leads(q, inbox[o], Reckoned(o, q), t)
    BY DEF Table, Agree
  <2>2. Leads(q, inbox[p], Reckoned(p, q), t) /\ Leads(q, inbox[q], Reckoned(q, q), t)
    BY <1>5, <2>1
  <2>3. t.player = turn[p].player
    BY <1>0, <1>3, <1>5, <2>2, QuietLasts
  <2>4. inbox[q] \in Seq(Proper) /\ turn[q].player = Reckoned(q, q).player
    BY <1>0, <1>3
  <2>5. ~Reigned(turn[q].player, inbox[q], q)
    <3> SUFFICES ASSUME Reigned(turn[q].player, inbox[q], q) PROVE FALSE
      OBVIOUS
    <3>1. Idle(turn[q].player, inbox[q], q)
      BY DEF Table, Token
    <3>2. t.player = q
      BY <2>2, <2>4, <3>1, IdleReigns
    <3>3. QED BY <1>5, <2>3, <3>2
  <2>6. ASSUME turn[p].player = p, NEW x, x # p PROVE Ended(turn[q].player, inbox[q], x)
    BY <2>2, <2>3, <2>4, <2>6, OthersEnd
  <2>7. QED BY <2>5, <2>6
<1>6. Token'
  <2> SUFFICES ASSUME NEW q \in Playing' PROVE Idle(turn'[q].player, inbox'[q], q)
    BY DEF Token
  <2>1. /\ q \in Playing /\ q \in Players /\ q \in online /\ inbox[q] \in Seq(Proper)
        /\ Idle(turn[q].player, inbox[q], q)
    BY <1>0 DEF Table, Token
  <2>2. CASE q = p
    <3>1. inbox'[p] = inbox[p]
      BY <1>0, <1>1
    <3>2. CASE m.kind \in TurnOrTile
      BY <2>2, <3>1, <3>2, QuietTurns
    <3>3. CASE m.kind \notin TurnOrTile
      <4>1. turn'[p].player = turn[p].player
        BY <3>3 DEF TurnOrTile
      <4>2. QED BY <2>1, <2>2, <3>1, <4>1
    <3>4. QED BY <3>2, <3>3
  <2>3. CASE q # p
    <3>1. m.kind \in TurnOrTile => ~Reigned(turn[q].player, inbox[q], q)
      BY <1>5, <2>1, <2>3
    <3>2. Idle(turn[q].player, Append(inbox[q], m), q)
      BY <2>1, <3>1, TurnsPush
    <3>3. inbox'[q] = Append(inbox[q], m) /\ turn'[q] = turn[q]
      BY <1>0, <1>1, <2>1, <2>3
    <3>4. QED BY <3>2, <3>3
  <2>4. QED BY <2>2, <2>3
<1>7. Succession'
  <2> SUFFICES ASSUME NEW h \in Playing', First(h)', NEW x \in Gone'
               PROVE  Heeded(turn'[h].player, inbox'[h], x) /\ Passed(turn'[h].player, inbox'[h], x)
    BY DEF Succession
  <2>1. /\ h \in Players /\ First(h) /\ x \in Gone /\ h \in Playing /\ h \in online
        /\ inbox[h] \in Seq(Proper)
        /\ Heeded(turn[h].player, inbox[h], x) /\ Passed(turn[h].player, inbox[h], x)
    BY <1>0 DEF Table, Succession, First
  <2>2. CASE h = p
    <3>1. inbox'[p] = inbox[p]
      BY <1>0, <1>1
    <3>2. CASE m.kind \in TurnOrTile
      BY <2>2, <3>1, <3>2, QuietTurns
    <3>3. CASE m.kind \notin TurnOrTile
      <4>1. turn'[p].player = turn[p].player
        BY <3>3 DEF TurnOrTile
      <4>2. QED BY <2>1, <2>2, <3>1, <4>1
    <3>4. QED BY <3>2, <3>3
  <2>3. CASE h # p
    <3>1. m.kind \in TurnOrTile => Ended(turn[h].player, inbox[h], x)
      <4> SUFFICES ASSUME m.kind \in TurnOrTile PROVE Ended(turn[h].player, inbox[h], x)
        OBVIOUS
      <4>1. turn[p].player = p
        BY <2>1, <2>3 DEF First
      <4>2. x # p
        BY <2>1 DEF Gone, Playing
      <4>3. QED BY <1>5, <2>1, <2>3, <4>1, <4>2
    <3>2. /\ Heeded(turn[h].player, Append(inbox[h], m), x)
          /\ Passed(turn[h].player, Append(inbox[h], m), x)
      BY <2>1, <3>1, TurnsPush
    <3>3. inbox'[h] = Append(inbox[h], m) /\ turn'[h] = turn[h]
      BY <1>0, <1>1, <2>1, <2>3
    <3>4. QED BY <3>2, <3>3
  <2>4. QED BY <2>2, <2>3
<1>8. Opening'
  <2> SUFFICES ASSUME NEW h \in Players, First(h)', turn'[h].player = NoPlayer, NEW q \in Players
               PROVE  /\ turn'[q].player = NoPlayer
                      /\ \A kind \in {"turn", "tile", "points"} : ~HasKind(inbox'[q], kind)
    BY DEF Opening
  <2>1. First(h) /\ turn[h].player = NoPlayer
    BY <1>0 DEF First, Plays
  <2>2. \A o \in Players : /\ turn[o].player = NoPlayer
                           /\ \A kind \in {"turn", "tile", "points"} : ~HasKind(inbox[o], kind)
    BY <2>1 DEF Table, Opening
  <2>3. m.kind \notin {"tile", "points"}
    BY <1>0, <2>2
  <2>4. m.kind # "turn"
    <3> SUFFICES ASSUME m.kind = "turn" PROVE FALSE
      OBVIOUS
    <3>1. First(p)
      BY <1>0, <2>2 DEF TurnOrTile
    <3>2. p = h /\ turn'[p].player # NoPlayer
      BY <2>1, <3>1 DEF First, Plays
    <3>3. QED BY <3>2
  <2>5. turn'[q].player = NoPlayer
    BY <1>0, <2>2, <2>4
  <2>6. \A kind \in {"turn", "tile", "points"} : ~HasKind(Append(inbox[q], m), kind)
    <3>1. \A kind : HasKind(Append(inbox[q], m), kind) <=> HasKind(inbox[q], kind) \/ m.kind = kind
      BY <1>0, PushSays
    <3>2. QED BY <2>2, <2>3, <2>4, <3>1
  <2>7. QED BY <1>1, <2>2, <2>5, <2>6
<1>9. QED BY <1>4, <1>6, <1>7, <1>8 DEF Table

-----------------------------------------------------------------------------
(* The program reckons as Result does.                                     *)

(* do_turn, if the program survives it.                                    *)
LEMMA DoTurnReckons ==
  ASSUME Inv, NEW p \in Players, NEW q \in Players, DoTurn(p, q), phase'[p] = "playing",
         NEW m, Is(m, "turn", q), NEW r \in Players
  PROVE  Reckoned(p, r)' = Result(r, Reckoned(p, r), m)
<1>0. /\ score \in [Players -> [Players -> Int]] /\ phase \in [Players -> Phases]
      /\ turn \in [Players -> {NoTurn} \cup [player : Players, letters : Nat]]
      /\ turn[p].letters \in Nat /\ (turn[p].letters > 0 => turn[p].player \in Players)
  BY Turns DEF Inv, TypeOK, Phases
<1>1. /\ score' = EndTurn(p)
      /\ turn' = [turn EXCEPT ![p] = [player |-> q, letters |-> 0]]
  BY <1>0 DEF DoTurn
<1>2. turn'[p] = [player |-> q, letters |-> 0]
  BY <1>0, <1>1
<1>3. score'[p][r] = score[p][r] + (IF turn[p].player = r THEN turn[p].letters ELSE 0)
  <2>1. score[p][r] \in Int /\ score[p] \in [Players -> Int]
    BY <1>0
  <2>2. CASE turn[p].letters = 0
    BY <1>1, <2>1, <2>2 DEF EndTurn
  <2>3. CASE turn[p].letters # 0
    <3>1. turn[p].player \in Players
      BY <1>0, <2>3
    <3>2. score' = [score EXCEPT ![p][turn[p].player] = @ + turn[p].letters]
      BY <1>1, <2>3 DEF EndTurn
    <3>3. CASE turn[p].player = r
      BY <1>0, <2>1, <3>1, <3>2, <3>3
    <3>4. CASE turn[p].player # r
      BY <1>0, <2>1, <3>1, <3>2, <3>4
    <3>5. QED BY <3>3, <3>4
  <2>4. QED BY <2>2, <2>3
<1>4. Reckoned(p, r)' = [player |-> q, letters |-> 0, points |-> score'[p][r]]
  BY <1>2 DEF Reckoned
<1>5. QED BY <1>3, <1>4 DEF Result, Reckoned, Is

(* set_tile.                                                               *)
LEMMA SetTileReckons ==
  ASSUME Inv, NEW p \in Players, NEW char, SetTile(p, char), score' = score,
         NEW m, m.kind = "tile", NEW r \in Players
  PROVE  Reckoned(p, r)' = Result(r, Reckoned(p, r), m)
<1>0. turn \in [Players -> {NoTurn} \cup [player : Players, letters : Nat]]
  BY Turns
<1>1. CASE turn[p].player = NoPlayer
  BY <1>1 DEF SetTile, Result, Reckoned
<1>2. CASE turn[p].player # NoPlayer
  <2>1. turn[p] \in [player : Players, letters : Nat]
    BY <1>0, <1>2 DEF NoTurn
  <2>2. turn'[p] = [turn[p] EXCEPT !.letters = turn[p].letters + 1]
    BY <1>0, <1>2 DEF SetTile
  <2>3. turn'[p].player = turn[p].player /\ turn'[p].letters = turn[p].letters + 1
    BY <2>1, <2>2
  <2>4. QED BY <1>2, <2>3 DEF Result, Reckoned
<1>3. QED BY <1>1, <1>2

(* add_points, to players who are known; to others, who have gone, they    *)
(* are lost.                                                               *)
LEMMA AddPointsReckons ==
  ASSUME Inv, NEW p \in Players, NEW q \in Players, NEW diff, AddPoints(p, q, diff),
         turn' = turn, NEW m, Is(m, "points", q), m.value = diff, NEW r \in Players, q \in Known(p) \/ q # r
  PROVE  Reckoned(p, r)' = Result(r, Reckoned(p, r), m)
<1>0. score \in [Players -> [Players -> Int]]
  BY DEF Inv, TypeOK
<1>1. score'[p][r] = IF q = r THEN score[p][r] + diff ELSE score[p][r]
  BY <1>0 DEF AddPoints
<1>2. QED BY <1>1 DEF Result, Reckoned, Is

(* What is not of the game changes no turn, and the score of nobody who    *)
(* plays.                                                                  *)
LEMMA OtherReckons ==
  ASSUME NEW p, NEW r, NEW m, m.kind \notin {"turn", "tile", "points"}, turn'[p] = turn[p],
         score'[p][r] = score[p][r]
  PROVE  Reckoned(p, r)' = Result(r, Reckoned(p, r), m)
BY DEF Result, Reckoned

(* Everyone who plays is known to everyone who has a turn.                 *)
LEMMA KnownByNow ==
  ASSUME Inv, Fair, NEW p \in Playing, turn[p].player # NoPlayer
  PROVE  \A q \in Players : q \in Known(p) \/ q \in Gone
<1>1. p \in online
  BY Basics DEF Playing, There
<1>2. QED BY <1>1 DEF Fair, Ordered, Known

-----------------------------------------------------------------------------
(* The steps.                                                              *)

(* The updates of who is there.                                            *)
LEMMA UpdateRosterTable ==
  ASSUME Inv, Met, Table, NEW p \in Players,
         \/ UpdateHost(p) \/ UpdateJoin(p) \/ UpdateDisconnect(p) \/ UpdatePlayerlist(p)
  PROVE  Table'
<1> DEFINE m == Head(inbox[p])
<1>1. /\ UNCHANGED <<phase, online, hosts, turn>>
      /\ inbox[p] # <<>> /\ m.kind \in {"host", "join", "disconnect", "playerlist"}
      /\ inbox[p] \in Seq(Proper) /\ m \in Proper
  <2>1. PICK kind \in {"host", "join", "disconnect", "playerlist"} : Received(p, kind)
    BY DEF UpdateHost, UpdateJoin, UpdateDisconnect, UpdatePlayerlist
  <2>2. inbox[p] # <<>> /\ m.kind = kind /\ m \in Proper /\ inbox[p] \in Seq(Proper)
    BY <2>1, Polls, Basics
  <2>3. QED BY <2>2 DEF UpdateHost, UpdateJoin, UpdateDisconnect, UpdatePlayerlist
<1>2. Playing' = Playing /\ Gone' = Gone
  BY <1>1 DEF Playing, Gone
<1>3. /\ \A q \in Players : q # p => score'[q] = score[q]
      /\ \A r \in Playing : score'[p][r] = score[p][r]
  <2>1. score \in [Players -> [Players -> Int]]
    BY DEF Inv, TypeOK
  <2>2. CASE UpdateDisconnect(p)
    <3>1. /\ score' = [score EXCEPT ![p][m.player] = 0] /\ m.kind = "disconnect"
      BY <2>2 DEF UpdateDisconnect, Received
    <3>2. m.player \in Players
      BY <1>1, <3>1 DEF Proper, About
    <3>3. Has(inbox[p], "disconnect", m.player)
      BY <1>1, <3>1, PopSays DEF Is
    <3>4. m.player \notin Playing
      BY <3>2, <3>3 DEF Met, Truthful, Gone, Playing
    <3>5. QED BY <2>1, <3>1, <3>2, <3>4 DEF Playing
  <2>3. CASE ~UpdateDisconnect(p)
    BY <2>3 DEF UpdateHost, UpdateJoin, UpdatePlayerlist
  <2>4. QED BY <2>2, <2>3
<1>4. inbox'[p] = Tail(inbox[p]) /\ \A q \in Players : q # p => Told(q)
  <2>0. \A q \in Players : Polled(p)[q] = IF q = p THEN Tail(inbox[p]) ELSE inbox[q]
    BY Basics DEF Polled
  <2>1. CASE inbox' = Polled(p)
    BY <2>0, <2>1 DEF Told
  <2>2. CASE inbox' # Polled(p)
    <3>1. UpdateJoin(p) /\ m.player \in Players
      <4>1. UpdateJoin(p) /\ m.kind = "join"
        BY <2>2 DEF UpdateHost, UpdateJoin, UpdateDisconnect, UpdatePlayerlist, Received
      <4>2. QED BY <1>1, <4>1 DEF Proper, About
    <3>2. ListWith(p, m.player) \in SUBSET Players
      BY <3>1, Basics DEF ListWith, Known, Inv, TypeOK
    <3>3. PICK a \in Proper : a.kind = "playerlist" /\ inbox' = Relay(Polled(p), p, a)
      BY <2>2, <3>1, <3>2, MessageFacts DEF UpdateJoin
    <3>4. \A q \in Players : inbox'[q] = IF q \in online /\ q # p THEN Append(Polled(p)[q], a)
                                                                  ELSE Polled(p)[q]
      BY <3>3 DEF Relay
    <3>5. inbox'[p] = Tail(inbox[p])
      BY <2>0, <3>4
    <3>6. ASSUME NEW q \in Players, q # p PROVE Told(q)
      <4>1. inbox'[q] = Append(inbox[q], a) \/ inbox'[q] = inbox[q]
        BY <2>0, <3>4, <3>6
      <4>2. a.kind \notin Played
        BY <3>3 DEF Played
      <4>3. QED BY <3>3, <4>1, <4>2 DEF Told
    <3>7. QED BY <3>5, <3>6
  <2>3. QED BY <2>1, <2>2
<1>5. \A r \in Playing : Reckoned(p, r)' = Result(r, Reckoned(p, r), m)
  BY <1>1, <1>3, OtherReckons
<1>6. turn'[p].player = turn[p].player /\ \A q \in Players : turn'[q] = turn[q]
  BY <1>1
<1>7. QED BY <1>1, <1>2, <1>3, <1>4, <1>5, <1>6, PollTable

(* The updates of the game.                                                *)
LEMMA UpdatePlayTable ==
  ASSUME Inv, Met, Fair, Table, NEW p \in Players,
         UpdatePoints(p) \/ UpdateTurn(p) \/ UpdateTile(p) \/ UpdateCharscores(p)
  PROVE  Table'
<1> DEFINE m == Head(inbox[p])
<1>1. /\ UNCHANGED <<online, hosts>> /\ phase[p] = "playing" /\ p \in Playing /\ p \in online
      /\ inbox[p] # <<>> /\ inbox[p] \in Seq(Proper) /\ m \in Proper
      /\ inbox'[p] = Tail(inbox[p]) /\ \A q \in Players : q # p => Told(q)
  <2>1. PICK kind \in Played : Received(p, kind) /\ inbox' = Polled(p)
    BY DEF UpdatePoints, UpdateTurn, UpdateTile, UpdateCharscores, Played
  <2>2. /\ inbox[p] # <<>> /\ inbox[p] \in Seq(Proper) /\ m \in Proper
        /\ p \in online /\ phase[p] = "playing"
        /\ \A q \in Players : Polled(p)[q] = IF q = p THEN Tail(inbox[p]) ELSE inbox[q]
    BY <2>1, Polls, Basics
  <2>3. inbox'[p] = Tail(inbox[p]) /\ \A q \in Players : q # p => Told(q)
    BY <2>1, <2>2 DEF Told
  <2>4. QED BY <2>2, <2>3 DEF UpdatePoints, UpdateTurn, UpdateTile, UpdateCharscores, Playing
<1>2. m.kind \in {"turn", "points"} => m.player \in Players
  BY <1>1 DEF Proper, About
<1>3. phase' = phase \/ phase' = [phase EXCEPT ![p] = "crashed"]
  BY DEF UpdatePoints, UpdateTurn, UpdateTile, UpdateCharscores, DoTurn
<1>4. Playing' \subseteq Playing /\ Gone' = Gone
  <2>1. phase \in [Players -> Phases]
    BY DEF Inv, TypeOK, Phases
  <2>2. QED BY <1>1, <1>3, <2>1 DEF Playing, Gone
<1>5. /\ turn \in [Players -> {NoTurn} \cup [player : Players, letters : Nat]]
      /\ score \in [Players -> [Players -> Int]]
  BY Turns DEF Inv, TypeOK
<1>6. CASE UpdatePoints(p)
  <2>1. m.kind = "points" /\ AddPoints(p, m.player, m.value) /\ turn' = turn
    BY <1>6 DEF UpdatePoints, Received
  <2>2. \A q \in Players : q # p => score'[q] = score[q]
    BY <1>5, <2>1 DEF AddPoints
  <2>3. turn[p].player # NoPlayer
    <3>1. turn[p].player # NoPlayer \/ After(inbox[p], "points", "turn")
      BY <1>1 DEF Fair, Ordered
    <3>2. After(inbox[p], "points", "turn") => m.kind # "points"
      BY <1>1, PopOrders
    <3>3. QED BY <2>1, <3>1, <3>2
  <2>4. ASSUME NEW r \in Playing' PROVE Reckoned(p, r)' = Result(r, Reckoned(p, r), m)
    <3>1. r \in Players /\ r \notin Gone
      BY <1>4 DEF Playing, Gone
    <3>2. r \in Known(p) /\ Is(m, "points", m.player)
      BY <1>1, <2>1, <2>3, <3>1, KnownByNow DEF Is
    <3>3. m.player \in Known(p) \/ m.player # r
      BY <3>2
    <3>4. QED BY <1>2, <2>1, <3>1, <3>2, <3>3, AddPointsReckons
  <2>5. turn'[p] = turn[p] /\ \A q \in Players : turn'[q] = turn[q]
    BY <2>1
  <2>6. QED BY <1>1, <1>4, <2>2, <2>4, <2>5, PollTable
<1>7. CASE UpdateTurn(p)
  <2>1. m.kind = "turn" /\ DoTurn(p, m.player) /\ m.player \in Players
    BY <1>2, <1>7 DEF UpdateTurn, Received
  <2>2. \A q \in Players : q # p => turn'[q] = turn[q] /\ score'[q] = score[q]
    BY <1>5, <2>1 DEF DoTurn, EndTurn
  <2>3. turn[p].player # NoPlayer => turn'[p].player # NoPlayer
    BY <1>5, <2>1, Turns DEF DoTurn
  <2>4. ASSUME p \in Playing', NEW r \in Playing'
        PROVE  Reckoned(p, r)' = Result(r, Reckoned(p, r), m)
    <3>1. phase'[p] = "playing" /\ r \in Players /\ Is(m, "turn", m.player)
      BY <2>1, <2>4 DEF Playing, Is
    <3>2. QED BY <2>1, <3>1, DoTurnReckons
  <2>5. QED BY <1>1, <1>4, <2>1, <2>2, <2>3, <2>4, PollTable
<1>8. CASE UpdateTile(p)
  <2>1. m.kind = "tile" /\ SetTile(p, m.value) /\ score' = score
    BY <1>8 DEF UpdateTile, Received
  <2>2. Plays(p, "tile")
    BY <1>8, SetTilePlays DEF UpdateTile
  <2>3. \A q \in Players : q # p => turn'[q] = turn[q] /\ score'[q] = score[q]
    BY <2>1, <2>2 DEF Plays
  <2>4. turn'[p].player = turn[p].player
    <3>1. Reckoned(p, p)' = Result(p, Reckoned(p, p), m)
      BY <2>1, SetTileReckons
    <3>2. Result(p, Reckoned(p, p), m).player = turn[p].player
      BY <2>1, ReckonedType DEF Result, States
    <3>3. QED BY <3>1, <3>2 DEF Reckoned
  <2>5. \A r \in Playing' : Reckoned(p, r)' = Result(r, Reckoned(p, r), m)
    BY <1>4, <2>1, SetTileReckons DEF Playing
  <2>6. QED BY <1>1, <1>4, <2>3, <2>4, <2>5, PollTable
<1>9. CASE UpdateCharscores(p)
  <2>1. m.kind \in {"charscores", "noscores"} /\ turn' = turn /\ score' = score
    BY <1>9 DEF UpdateCharscores, Received
  <2>2. \A r \in Playing' : Reckoned(p, r)' = Result(r, Reckoned(p, r), m)
    BY <2>1, OtherReckons
  <2>3. /\ turn'[p].player = turn[p].player
        /\ \A q \in Players : turn'[q] = turn[q] /\ score'[q] = score[q]
    BY <2>1
  <2>4. QED BY <1>1, <1>4, <2>2, <2>3, PollTable
<1>10. QED BY <1>6, <1>7, <1>8, <1>9

(* Who makes a move that counts for a turn has read all that does, and is  *)
(* the only one who plays and may.                                         *)
LEMMA MayTurn ==
  ASSUME HolderOnly, Inv, Met, Fair, Table, NEW p \in Players, NEW move \in TurnOrTile,
         MayMove(p, move)
  PROVE  Quiet(inbox[p]) /\ (turn[p].player = p \/ First(p)) /\ turn[p].player \notin Playing \ {p}
<1>0. /\ p \in online /\ p \in Playing /\ Open /\ inbox[p] \in Seq(Proper)
      /\ DOMAIN inbox[p] = 1 .. Len(inbox[p])
  BY MayMoveFair, Basics DEF MayMove, Playing
<1>1. Holds(p) \/ Begins(p)
  BY DEF MayMove, TurnOrTile
<1>2. CASE Holds(p)
  <2>1. Idle(turn[p].player, inbox[p], p) /\ turn[p].player = p
    BY <1>0, <1>2 DEF Table, Token, Holds
  <2>2. 0 \in 0 .. Len(inbox[p]) /\ Reigns(turn[p].player, inbox[p], 0, p)
    BY <1>0, <2>1 DEF Reigns
  <2>3. \A k \in DOMAIN inbox[p] : inbox[p][k].kind \notin TurnOrTile
    BY <1>0, <2>1, <2>2 DEF Idle
  <2>4. QED BY <2>1, <2>3 DEF Quiet
<1>3. CASE Begins(p)
  <2>1. First(p)
    <3>1. p \in hosts
      BY <1>3 DEF Begins, Met, Appointed
    <3>2. \A g \in hosts : g = p
      BY <1>0, <3>1, Basics DEF Fair, AllThere
    <3>3. QED BY <1>0, <3>1, <3>2 DEF First
  <2>2. CASE turn[p].player = NoPlayer
    <3>1. ~HasKind(inbox[p], "turn") /\ ~HasKind(inbox[p], "tile")
      BY <2>1, <2>2 DEF Table, Opening
    <3>2. Quiet(inbox[p])
      BY <3>1 DEF HasKind, Quiet, TurnOrTile
    <3>3. QED BY <2>1, <2>2, <3>2 DEF Playing
  <2>3. CASE turn[p].player # NoPlayer
    <3> DEFINE x == turn[p].player
    <3>1. x \in Players /\ x \notin Known(p)
      BY <1>3, <2>3, Turns DEF Begins
    <3>2. x \in Gone /\ ~Has(inbox[p], "disconnect", x)
      BY <1>0, <2>1, <3>1 DEF Fair, AllThere, Known, First
    <3>3. Heeded(x, inbox[p], x)
      BY <1>0, <2>1, <3>2 DEF Table, Succession
    <3>4. 0 \in 0 .. Len(inbox[p]) /\ Reigns(x, inbox[p], 0, x)
      BY <1>0 DEF Reigns
    <3>5. \A k \in DOMAIN inbox[p] : inbox[p][k].kind \notin TurnOrTile
      BY <1>0, <3>2, <3>3, <3>4 DEF Heeded, Has
    <3>6. QED BY <2>1, <3>2, <3>5 DEF Quiet, Gone, Playing
  <2>4. QED BY <2>2, <2>3
<1>4. QED BY <1>1, <1>2, <1>3

(* The moves, made by the rules.                                           *)
LEMMA MovesTable ==
  ASSUME HolderOnly, Inv, Met, Fair, Table, NEW p \in Players, Move(p)
  PROVE  Table'
<1>0. /\ phase[p] = "playing" /\ p \in Playing /\ p \in online
      /\ phase \in [Players -> Phases] /\ score \in [Players -> [Players -> Int]]
  BY Basics DEF Move, PlaceTile, LoadScores, StartTurn, GivePoints, MayMove, Playing, There,
     Inv, TypeOK, Phases
<1>1. Playing' \subseteq Playing /\ Playing \subseteq Players
  <2>1. phase' = phase \/ phase' = [phase EXCEPT ![p] = "crashed"]
    BY DEF Move, PlaceTile, LoadScores, StartTurn, GivePoints, DoTurn
  <2>2. QED BY <1>0, <2>1 DEF Playing
<1>2. ASSUME NEW char \in Typed, PlaceTile(p, char) PROVE Table'
  <2>1. MayMove(p, "tile") /\ SetTile(p, char) /\ score' = score
    BY <1>2 DEF PlaceTile
  <2>2. PICK m \in Proper : m.kind = "tile" /\ Publish(p, m)
    BY <1>2, MessageFacts DEF PlaceTile, Characters
  <2>3. Plays(p, m.kind)
    BY <1>2, <2>2, SetTilePlays DEF PlaceTile
  <2>4. \A r \in Players : Reckoned(p, r)' = Result(r, Reckoned(p, r), m)
    BY <2>1, <2>2, SetTileReckons
  <2>5. turn'[p].player = turn[p].player
    <3>1. Result(p, Reckoned(p, p), m).player = turn[p].player
      BY <2>2, ReckonedType DEF Result, States
    <3>2. Reckoned(p, p)' = Result(p, Reckoned(p, p), m)
      BY <2>4
    <3>3. QED BY <3>1, <3>2 DEF Reckoned
  <2>6. /\ Quiet(inbox[p]) /\ (turn[p].player = p \/ First(p))
        /\ turn[p].player \notin Playing \ {p}
    BY <2>1, MayTurn DEF TurnOrTile
  <2>7. turn[p].player # NoPlayer
    BY <2>1, MayMoveFair
  <2>8. \A r \in Playing' : Reckoned(p, r)' = Result(r, Reckoned(p, r), m)
    BY <1>1, <2>4
  <2>9. QED BY <1>0, <1>1, <2>1, <2>2, <2>3, <2>5, <2>6, <2>7, <2>8, MoveTable DEF Played
<1>3. ASSUME NEW kind \in Kinds, LoadScores(p, kind) PROVE Table'
  <2>1. turn' = turn /\ score' = score /\ kind \in {"charscores", "noscores"}
    BY <1>3 DEF LoadScores
  <2>2. PICK m \in Proper : m.kind = kind /\ Publish(p, m)
    BY <1>3, <2>1, MessageFacts DEF LoadScores
  <2>3. scored \in [Players -> BOOLEAN]
    BY DEF Inv, TypeOK
  <2>4. Plays(p, kind)
    BY <1>3, <2>3 DEF LoadScores, Plays, Joined, Gone
  <2>5. \A r \in Playing' : Reckoned(p, r)' = Result(r, Reckoned(p, r), m)
    BY <2>1, <2>2, OtherReckons
  <2>6. m.kind \in Played /\ m.kind \notin TurnOrTile /\ m.kind \notin {"tile", "points"}
    BY <2>1, <2>2 DEF Played, TurnOrTile
  <2>7. QED BY <1>0, <1>1, <2>1, <2>2, <2>4, <2>5, <2>6, MoveTable
<1>4. ASSUME NEW q \in Players, StartTurn(p, q) PROVE Table'
  <2>1. MayMove(p, "turn") /\ DoTurn(p, q)
    BY <1>4 DEF StartTurn
  <2>2. Plays(p, "turn")
    BY <1>0, <1>4, DoTurnPlays DEF StartTurn
  <2>3. \A o \in Players : o # p => score'[o] = score[o]
    BY <1>0, <2>1 DEF DoTurn, EndTurn
  <2>4. ASSUME Publish(p, Message("turn", q)) PROVE Table'
    <3>1. PICK m \in Proper : m.kind = "turn" /\ m.player = q /\ Publish(p, m)
      BY <2>4, MessageFacts DEF Kinds
    <3>2. ASSUME p \in Playing', NEW r \in Playing'
          PROVE  Reckoned(p, r)' = Result(r, Reckoned(p, r), m)
      <4>1. phase'[p] = "playing" /\ r \in Players /\ Is(m, "turn", q)
        BY <3>1, <3>2 DEF Playing, Is
      <4>2. QED BY <2>1, <4>1, DoTurnReckons
    <3>3. /\ Quiet(inbox[p]) /\ (turn[p].player = p \/ First(p))
          /\ turn[p].player \notin Playing \ {p}
      BY <2>1, MayTurn DEF TurnOrTile
    <3>4. m.kind \in Played /\ m.kind \notin {"tile", "points"} /\ Plays(p, m.kind)
      BY <2>2, <3>1 DEF Played
    <3>5. QED BY <1>0, <1>1, <2>3, <3>1, <3>2, <3>3, <3>4, MoveTable
  <2>5. ASSUME phase' # phase, UNCHANGED inbox PROVE Table'
    <3>1. /\ UNCHANGED <<online, hosts, score, turn, inbox>>
          /\ phase' = [phase EXCEPT ![p] = "crashed"] /\ Gone' = Gone
      BY <1>4, <2>2, <2>5 DEF StartTurn, DoTurn, Plays
    <3>2. \A o, r : Reckoned(o, r)' = Reckoned(o, r)
      BY <3>1 DEF Reckoned
    <3>3. Agree'
      <4> SUFFICES ASSUME NEW r \in Playing'
                   PROVE  \E t \in States : \A o \in Playing' :
                            Leads(r, inbox'[o], Reckoned(o, r)', t)
        BY DEF Agree
      <4>1. PICK t \in States : \A o \in Playing : Leads(r, inbox[o], Reckoned(o, r), t)
        BY <1>1 DEF Table, Agree
      <4>2. \A o \in Playing' : Leads(r, inbox'[o], Reckoned(o, r)', t)
        BY <1>1, <3>1, <3>2, <4>1
      <4>3. QED BY <4>2
    <3>4. Token'
      BY <1>1, <3>1 DEF Table, Token
    <3>5. Succession'
      BY <1>1, <3>1 DEF Table, Succession, First
    <3>6. Opening'
      BY <3>1 DEF Table, Opening, First
    <3>7. QED BY <3>3, <3>4, <3>5, <3>6 DEF Table
  <2>6. QED BY <1>4, <2>4, <2>5 DEF StartTurn
<1>5. ASSUME NEW q \in Players, NEW diff \in Points, GivePoints(p, q, diff) PROVE Table'
  <2>1. MayMove(p, "points") /\ AddPoints(p, q, diff) /\ turn' = turn
    BY <1>5 DEF GivePoints
  <2>2. turn[p].player # NoPlayer
    BY <2>1, MayMoveFair
  <2>3. PICK m \in Proper : /\ m.kind = "points" /\ m.player = q /\ m.value = diff
                            /\ Publish(p, m)
    BY <1>5, MessageFacts DEF GivePoints, Is
  <2>4. Plays(p, "points")
    BY <1>5 DEF GivePoints, Plays, Joined, Gone
  <2>5. \A o \in Players : o # p => score'[o] = score[o]
    BY <1>0, <2>1 DEF AddPoints
  <2>6. ASSUME NEW r \in Playing' PROVE Reckoned(p, r)' = Result(r, Reckoned(p, r), m)
    <3>1. r \in Players /\ r \notin Gone
      BY <1>1 DEF Playing, Gone
    <3>2. r \in Known(p) /\ Is(m, "points", q)
      BY <1>0, <2>2, <2>3, <3>1, KnownByNow DEF Is
    <3>3. q \in Known(p) \/ q # r
      BY <3>2
    <3>4. m.value = diff
      BY <2>3
    <3>5. QED BY <2>1, <3>1, <3>2, <3>3, <3>4, AddPointsReckons
  <2>7. m.kind \in Played /\ m.kind \notin TurnOrTile /\ m.kind # "turn"
    BY <2>3 DEF Played, TurnOrTile
  <2>8. QED BY <1>0, <1>1, <2>1, <2>2, <2>3, <2>4, <2>5, <2>6, <2>7, MoveTable
<1>6. QED BY <1>2, <1>3, <1>4, <1>5 DEF Move

(* Every step by the rules keeps the agreement.                            *)
LEMMA TableNext == HolderOnly /\ Inv /\ Met /\ Fair /\ Table /\ [Next]_vars => Table'
<1> SUFFICES ASSUME HolderOnly, Inv, Met, Fair, Table, [Next]_vars PROVE Table'
  OBVIOUS
<1>1. ASSUME NEW p \in Players, Connect(p) \/ Join(p) PROVE Table'
  <2>1. Inv' /\ ~Underway'
    BY <1>1, NextHolds, NoGameYet
  <2>2. QED BY <2>1, TableYet, PTL
<1>2. ASSUME NEW p \in Players, Leave(p) \/ Update(p) \/ Move(p) PROVE Table'
  BY <1>2, LeaveTable, UpdateRosterTable, UpdatePlayTable, MovesTable DEF Update
<1>3. CASE UNCHANGED vars
  <2>1. UNCHANGED <<phase, online, hosts, turn, score, inbox>>
    BY <1>3 DEF vars, local
  <2>2. Playing' = Playing /\ Gone' = Gone /\ \A o, r : Reckoned(o, r)' = Reckoned(o, r)
    BY <2>1 DEF Playing, Gone, Reckoned
  <2>3. Agree'
    BY <2>1, <2>2 DEF Table, Agree
  <2>4. Token' /\ Succession' /\ Opening'
    BY <2>1, <2>2 DEF Table, Token, Succession, Opening, First
  <2>5. QED BY <2>3, <2>4 DEF Table
<1>4. QED BY <1>1, <1>2, <1>3 DEF Next

(* Players who keep the rules of HolderOnly agree on the turn and on the   *)
(* scores of all who play whenever they have applied their updates         *)
(* (context.cpp:233-331).                                                  *)
THEOREM RulesMakeScoresAgree == ASSUME HolderOnly PROVE Spec => []ScoresAgree
<1>1. Init => Fair /\ Table
  <2> SUFFICES ASSUME Init PROVE Fair /\ Table
    OBVIOUS
  <2>1. Inv /\ Fair /\ ~Underway
    BY InitHolds, FairInit DEF Init, Underway, HasKind
  <2>2. QED BY <2>1, TableYet
<1>2. Inv /\ Met /\ Fair /\ Table /\ [Next]_vars => Fair' /\ Table'
  BY FairNext, TableNext
<1>3. Inv /\ Table => ScoresAgree
  BY AgreedOn
<1>4. QED BY <1>1, <1>2, <1>3, InvHolds, MetHolds, PTL DEF Spec
=============================================================================
