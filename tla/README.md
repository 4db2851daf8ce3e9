# A verification development for WordGame

WordGame is a word board game played over the network. Each player runs a
program with a window (SFML); one more runs a server (Boost.Asio and
Boost.Beast) that knows almost nothing of the game and forwards what one player
sends to all others. This directory holds TLA+ models of its parts, the TLC
configurations that check them on small instances, and TLAPS proofs of the most
important results for every instance. Paths below are those of the repository.

## 1. Inventory

| Component | State it keeps | Operations | Interacts by |
|---|---|---|---|
| Server: acceptor, `Session`, `WebSocketSession`, `Connections` (`src/web`) | live sessions, `connections_` (raw pointer to name), `host_`, a `write_queue_` per session | handlers of accept, read, write; `queue_write`, `alert_connections`, `remove_connection`, `claim_host`, `set_user` | handlers of one thread that call each other's sessions |
| `WebSocketClient` and `web::Client` | stage of the connection, `message_`, `message_queue_`, `seq_`, `recv_queue_`, `cache_` | connect, send, read, poll, cache, shut down | two threads: posted handlers one way, a locked queue the other |
| `GameContext` | `players_`, `my_score_`, `is_host_`, `turn_`, input mode | `update` (one polled update per frame), events, commands, setting tiles, ending turns | updates to and from all players, through the server |
| `GameIO` | chat line, action queue, `charset_`, `hand_`, the script | typing, commands, drawing tiles | calls from and to `GameContext`; updates |
| `Board`, `ScoreMap`, multipliers | table of tiles, scores of letters | `score`, `set_tile`, `set_layout`, `parse_board_update` | called by `GameContext` |
| `Settings` | options | `load_command`, `get_default` | called by the two above; a setting is an update |
| `dev::Client` | a file, its JSON, lines of chat | opens, edits and saves layouts; answers polls from them | in place of `web::Client` |
| `Application`, menus (`window_io`, `window_items`) | the loop that runs, buttons pressed, text typed, lines of two files | launch, choose, type, close | nested loops over the events of one window |
| Rendering, resources, logging | nothing the game depends on | | |

What is hard about it:

* **The server.** One thread, but the handlers complete in any order. The
  lifetime of a session is that of its outstanding operations (`shared_ptr`s in
  handlers), while `connections_` holds raw pointers: the destructor must keep
  the two in step. A session is registered *before* its handshake is over.
  Whether to launch a write is decided in four places from the length of a
  queue. The host is reassigned when it leaves.
* **The client.** Two threads; `message_` is the slot of a write, the flag that
  one is outstanding and the lock that keeps messages back until the handshake.
  The cache has one place. Errors end the thread without telling anyone. The
  window's thread joins it at the end.
* **The game.** Replicated with no arbiter: every player computes the scores
  from its own moves and the updates of the others, in the order in which it
  happens to see them. Players join late, leave, and the host (who alone sends
  the list of players) may leave.
* **The bag of tiles.** There is none: each player has a copy, draws from it, and
  sends what is left to all others, who replace theirs.
* **Events.** A key is pressed, gives a text, and is released, and the code
  handles the three in different modes; two classes have a mode each; a `switch`
  falls through in two places; of a queue of actions only the last is executed.
* **Screens.** Every screen is a loop of its own, inside that of its caller, and
  the window can be closed in each: what the loop then returns is used.

`PROJECT.json` lists each hazard at its line under `hazards`, with the
properties that would catch it.

## 2. Modules

| Module | Models |
|---|---|
| `Server` | the server, handler by handler |
| `Broadcast` | what the server promises: one log, of which every member is shown, in order, what others published since it joined |
| `Filters` | what is left of a sequence when all outside a set is dropped, for the two above |
| `WebSocketClient` | the client's two threads, from `update()` to the wire and from the wire to `poll_*` |
| `Fifo` | what each direction of it promises |
| `Game` | the game contexts of all players over a broadcast: host, roster, turns, scores |
| `Hands` | the bag, the hands and the setting `enforce_hand` of all players over a broadcast |
| `Board` | one player's board: setting tiles, layouts and multipliers, and what `Board::score` counts at the end of a turn; the rules it is checked against |
| `Console` | one player's keyboard and mouse: modes, the chat line, commands, actions, scripts |
| `DevClient` | the files of the developer mode, and the board that shows them |
| `Menus` | the screens between `main` and a game or a server |
| `Program` | `Application`: `Menus` that lead to a `Console` or to a `DevClient` |
| `MCServer`, `MCClient`, `MCGame`, `MCHands`, `MCBoard`, `MCProgram` | instances for TLC |
| `ServerProofs`, `ClientProofs`, `GameProofs`, `HandsProofs`, `BoardProofs` | theorems about the module of the name |
| `ConsoleProofs`, `DevClientProofs` | theorems about two of the parts of `Program`, each alone |
| `ProgramProofs` | theorems about the menus, and about `Program` from those about its parts |

The layers meet in their promises: `Server` implements `Broadcast`,
`WebSocketClient` implements `Fifo` in both directions, and `Game` and `Hands` are
written over a broadcast with FIFO inboxes. Making a move and its relaying is one
step of `Game` and `Hands`; a player's own latency to the server only delays when
the others see the move, and the step stands for the moment at which the server
relays it (what the player did alone before that moment commutes with what the
others did, since it had not yet seen it). What they leave out of the layers below
is their failure: a client whose connection never opens, a session deaf after a
refused write, and moves of a leaving player that were never sent.

`GameContext` and `GameIO` are split by what the parts of their state have to do
with each other, not by file: `Game` and `Hands` have the updates and the commands
that cause them, with all players; `Console` has how a command comes to be given,
with one player. A command of `Console` queues its action, relays points and
loads a script; what it does to the bag, the turn and others' scores is in the
other two. `Program` composes `Console` with the screens before and around it.

### Server

An action is a handler, and the handler is atomic because `ioc_.run()` is
called by one thread. `phase` says which operation keeps the object alive:
`http` (a `Session` reads the request), `handshake`, `reading` (the read is
always outstanding), `draining` (the read has failed but a write still holds the
object), `dead`. `inflight` counts outstanding writes and `queue` is
`write_queue_`. Dropping the last reference (`Release`, and the last `OnWrite`
or `OnWriteFailed` of a draining session) runs the destructor in the same step:
`Destroy` is `remove_connection`, with the messages it queues and the writes it
launches. `written`, `log` and `since` are histories. `EventsOf` is what a session is
sent without the acks and the host command, and `Feed` of `Broadcast` what a member
that joined after `since` events is owed of the log: `StreamMatchesLog` says that
the one, written or queued, is the other.

`early` marks a write launched on a stream whose handshake had not ended:
Boost.Beast fails such a write with `operation_aborted`, or may let it through
if the handshake ends first; both outcomes are allowed. The frames a peer sends
are those of this repository's client, in its order: the empty message of its
handshake, the `SERVER` join, the join for the others, and then game data.
Malformed frames, on which `nlohmann::json::parse` would throw out of the
handler, are outside the model. A peer's name does not change; names are
distinct in the runs, one per connection.

### WebSocketClient

`pc` is where the loop of `Application::run_webclient` is; the actions of the
network thread are its handlers. `posted` is the queue of `asio::post`. A send
may be made while input is parsed and while an update is applied. `net` is the
stage of the connection; every error path of the code (resolve, connect,
handshake, read, write) is there. Messages are numbers: 0 is the empty message
that `message_` starts with. Of the server's messages the model tells apart
those for the game and blank ones; an ack, which `parse_message` drops, changes
nothing and is no step.

`EmptyReads` is what dereferencing an empty optional in `cache_once` does:
nothing, a stale message, or the end of the program. All three are allowed.
`misreadAt` remembers where the first stale message was applied: up to there
the way in is a FIFO channel, and after it nothing is claimed. `received` holds
what was for the game, blanks left out; how many of those come is not bounded,
only how many wait.

### Game

`inbox[p]` is what the server has relayed to p and p has not polled. `phase`
has `connected` for a player whom the server has accepted and who has not yet
announced itself (`init` asks for the user's name, which takes as long as it
takes), `crashed` for a program that has ended by an exception or by a read
past a vector, and `gone` for one that has left. `roster` is the keys of
`players_`, `score` holds both `my_score_` and the values of `players_`. A turn
scores one per letter: every player computes `Board::score` from the same letters
and the same board, and its value does not matter to the agreement. That every
player has the same layout, and that no turn-end script is loaded, is assumed.
Points may be taken away, and a score fall below 0. `scored` says whether a player has
loaded, or been sent, the file with the scores of letters: without them
`ScoreMap::of` throws at the first letter counted. It throws too, at the end of the
turn, for a character that the file lacks: `get_game_char` lets a space or a digit
be typed, and scoring a space is a critical bug of `src/todo.md:35`. Of a character
the model knows whether the file has it (`Characters`), and of a board whether one
that it lacks is in the turn or was there before (`strange`): the first ends the
program with the turn, the second may, if a word of the turn touches it. A file of
scores that cannot be opened or parsed is not refused, as the code means to do
(`is_error` looks for a key in an array): it adds no scores, and is relayed as one
that has none (`noscores`).

`HolderOnly` is not in the code: it is the discipline of a table, and the
assumption under which scores can agree. When everyone is there, the host loads
the scores of letters and then starts the first turn; it starts a new one when the
holder of the turn has left; otherwise only the holder places tiles or passes the
turn on; anyone may give points during a turn. Under it players may leave at any
time, the host and the holder of the turn too. That everyone is there when the scores
are loaded is much to ask: a player who joins later has none, and its program ends
with the next turn.

### Hands

`charset[p]` is p's copy of the bag and `hand[p]` a bag of tiles, for two players
may come to hold the same one. Drawing is one step with the sending of what is
left, as `draw_tiles` is; which tiles are drawn is left to chance; asking for as
many tiles as the copy has, or more, draws none and sends the copy all the same.
`/drawtillall` draws and then tells the others to, and each of them draws when it
applies the update: the code itself makes players draw at the same time. `/push`
sends the charset and ends the program that gave it, before or after its other
thread has sent it. `Config` is `Settings::load_command`, which makes the option
true before it reads the value; it and the update of a setting share the
operator, as they share the function.

The histories name the disciplines under which the properties hold, none of which
the code enforces: `careless` (somebody published a copy that was not up to date),
`wiped` (by somebody who never had one) and `disputed` (two settings at once, or
one that is not understood). A second charset loaded over the first sets `careless`
and `wiped` too, for it puts tiles back into the bag that have been drawn, and takes
out those that were not. `NothingLost` needs only the second: races
duplicate tiles, they never lose any.

### Board

`character` and `multipliers` are the two members of an `Item` that matter;
`letters` are the tiles of the turn, each with the multipliers its cell had when it
was set. `Score` follows `Board::score`: the direction is read from the first two
tiles, the word is scanned from the first, each tile adds what its character
multiplier is worth and, if a neighbour of it is set, the word across. The code
has each scan twice, with x and y exchanged; the model has it once, with the
direction as a parameter. The guards of the two are alike.

`RulesScore` is the reference: a word is a set of cells of one line without gaps,
its worth a sum and a product over the set. The sums of both are folds of the
community modules over functions, whose order of adding up is nobody's: the loops of
the code add up in the order of the tiles, which for a sum is the same. `Play` is what the comment in
`end_turn` assumes (tiles in a straight line), made precise: at least two tiles,
in different cells, in one word. `Game` and `Board` meet in `DoTurn`: one counts
a letter for a point and is about who agrees, the other counts it right.

### Console

An action is one event as `parse_input` handles it, `GameIO::do_event` first. The
text of a key is the next event after its press (`owed`); until it has come nothing
else happens, and a key held down repeats both. `"H"` stands for all printable
keys but the slash, and is the hot key whose effect is seen. The line typed is
blank, chat, or a command, for only its first character decides what becomes of
it; which command it is, is chosen when it is sent. `last` is `queue_.back()`: the
queue is never popped and only its last element is read, so it is all there is
to it.

`TextEntered` falls through to `parse_mouse_released`, which reads the mouse
member of an event that has none. What it reads depends on the memory of the
event, so the model lets the stray click hit a cell or miss (`StrayClick`). The
other fall-through, from `PushInfo` to `add_points`, splits an empty string and
reads the second element of the empty result: the model ends the program there. A
`/points` without a second part (`pointsCut`) reads beyond its vector in the same
way, and the model ends the program there too, as `misread`; if what lies beyond can be
read as 0, the command does nothing, as one that gives 0 points does (`quiet`).

A command names a player who exists here or not (`known`): `maybe_command` starts
no turn of one who does not, and `add_points` gives nothing, though the points have been
relayed already (`ignored`). `script` and `scripted` are about the commands of files (`/load`, and
`/loadscript`, which are run at the end of every turn with letters in it). The code
handles a `/load` in a file there and then, so that the sequences of the
model stand for files with the files they load in their places. Left out are a file
that loads itself, which never ends (`game_io.cpp:410-417`), a `/loadscript` in the script
of the turn's end, which grows the vector that `end_turn` is going through
(`game_io.cpp:461`), and a second `/loadscript`.

### DevClient

`data` is the layout in the JSON that is edited. A JSON array that is set beyond
its end is padded with nulls; `parse_board_update` throws at the first of them,
catches it and gives up, with the rows before it applied (`RowsRead`). A file
contains what does not parse, what is no object, or a layout; it may not exist, or
not be readable at all (and then it is not writable either: a file that can be read
and not written is "saved" in silence by the code, one that can be written and not read is
overwritten by `ensure_file_exists`, and the model has neither). `related` is a history: the file the data came from or went
to, which is not always `file_`.

### Menus and Program

A screen is a loop over the events of the window: the menu, the choice from a file,
the entry of a line, the notice, a game. `clicked` is `clicked_` of all buttons; a
click is a press and a release over the same one. What a loop does when the window
is closed is an action of its own, `ClosedLoop`, since there the code goes on with
what the loop returned: an entry that was not finished becomes a line of the file,
and a choice that was not made is the empty text. A text is a model value, `Spaces`
the one without a visible character, which `get_lines` hides.

`Program` puts a step of a game where its loop is (`Play`, `Develop`), and ends it
when `running_` is false (`Escaped`) or the window is closed (`Closed`). The three
parts share no variable. In developer mode the events come through a console too;
there it is left out, and what comes out of it, marks and lines of chat, are
the inputs of `DevClient`.

## 3. What is checked

All runs are in `PROJECT.json`. The properties are stated, with the code they
are about, at the end of each module.

| Run | Shows | Bounds |
|---|---|---|
| `server_three` | `ConnectionsLive`, `WriteChain`, `HostIsTold`, `StreamMatchesLog`, `HostStable` | 3 connections, 1 frame each |
| `server_two` | `TypeOK`, `JoinsAreClosed`, `ImplementsBroadcast`, `LostPeerForgotten`, `QueueDrains` | 2 connections, 3 and 1 frames |
| `client` | `TypeOK`, `WriteSlot`, `ConsecutiveFrames`, `OutgoingIsFifo`, `IncomingIsFifo`, `ShutdownEnds`, `SendsGetOut`, `UpdatesGetIn` | 3 sends, 2 messages received |
| `game_roster` | `OneHost`, `HostRosterExact`, `NobodyMissing`, `JoinersMeet` | 3 players, no moves |
| `game_scores` | `ScoresAgree`, `CrashHasCause` | 3 players, 4 moves, characters with and without a score, all may leave |
| `hands` | `TypeOK`, `CopiesAgree`, `TilesOnce`, `NothingLost`, `SettingsAgree` | 3 players, 3 tiles, 3 moves |
| `board_rules` | `ScoresByTheRules`, `OrderIsIrrelevant` | 3x3 cells, one letter of 2 points, two layouts, 7 moves |
| `program` | `TypeOK`, `ServesChosen`, `PlaysNamed`, `ModesExclusive`, `PointsBothWays`, `BoardShowsData`, `HotKeySpared`, `OnlyOwnFile`, `CloseEnds` | 2 keys held, 2 points, one line added, 3 files, 2x2 cells, 2 marks typed |

Why the bounds are enough for the cases that matter:

* *Server.* Three connections are the fewest with a session that dies, one it
  alerts and one that is being accepted, and one frame each fills every queue with
  a relayed message, an ack, a disconnect and a host command in all orders; the
  third frame of a peer is the join for the others, the first message with a name,
  so that in `server_two` one peer sends three.
* *Client.* Three sends are one in the slot and two behind it; two updates are one
  in the cache and one behind it.
* *Game.* Three players are the fewest with a host, a newcomer and one who must hear
  of the newcomer; four moves are the scores of letters, a turn, a tile, and a turn
  that ends it or points given meanwhile, before, between and after which players
  leave. The points given are -1 and 2. By the rules no tile is placed before the
  first turn, so that in the runs `strange` is "turn" and never "on", which only the
  theorems and other constants reach.
* *Hands.* Three moves are a charset and two draws that race; a third player sees
  both, or joins after the charset. With three tiles a draw leaves some, or asks for
  as many as there are. A `/drawtillall` makes the others draw without a move.
* *Board.* On 3x3 cells a scan meets both borders, a gap and a run of full length,
  and seven moves are a layout, a turn, and five tiles before and in it: a play with
  words across two of its tiles.
* *Program.* Two keys held are a letter and the Shift that goes with it, or the next
  letter of a fast typist. `/load` has points and a turn, in the order in which the
  points are not the action that counts, and the script of the turn has points
  alone. What a command names exists or not. The script is loaded once. One name can be typed, and one line without
  visible characters. The three files do not parse, do not exist, and hold no
  object; a save makes each of them a layout. Lines of chat are read before the next
  command of the developer.

Sessions, players and tiles are permuted by symmetry in some of the safety runs; no
run with a liveness property uses symmetry. Deadlock is not checked, because every
one of these systems may stop: the server after a signal, the client after its
join, players who have nothing left to apply, a program that has ended.

**Disagreements.** Four runs expect a violation, each of one property:

* `client_empty_read`: `cache_once` dereferences an empty optional whenever
  nothing has been received.
* `game_leaver`: a player places a tile and leaves; the next turn ends the
  host's program, since `end_turn` looks the player up with `players_.at`.
  `add_points` and `maybe_command` test for this case.
* `board_across`: a multiplied letter's additional points are counted twice in the
  word across it. (`ScoresByTheRules` holds apart from this and from words across
  that begin in row or column 0 beside a tile of row or column 1, where the guard
  `y > 1` misses a letter.)
* `console_push`: `/push` falls through into `/points` with an empty argument and
  reads past the end of a vector.

What the models do as the code does, and the properties leave out by name, because
no line of the repository says what should happen:

* The hot key of a letter fires when Shift is released before it: the flag that
  spares it (`just_entered_char_`) is reset by the release of any key
  (`src/src/context.cpp:215`).
* A player who types a character that the file of scores lacks, as a space, ends all
  programs with the turn (`src/todo.md:35`), and so does `/charsc` of a file
  that cannot be opened, given instead of one that can.
* `/points` for a player who is unknown here is relayed to the others all the same.
* The slash opens the chat as Enter does, and sends the line if it is typed in it.
* Of several actions queued by a script only the last is executed, while each
  `/points` is relayed; the script at the end of a turn leaves an action behind which
  the next command that queues nothing executes again (`scripted`).
* A value of `enforce_hand` that is neither yes nor no turns the setting on for the
  player who gave it, and for nobody else (`disputed`).
* A player who joins after the charset was loaded, and draws, empties the bag of
  everyone (`wiped`). Players who draw at once draw the same tile (`careless`).
* A window closed while a line is typed adds the part typed so far to the file, and
  one closed on the choice of a name joins the game under the empty name.
* In developer mode, `save` after an `open` that failed writes the data of the file
  before over the one that did not parse.
* A list of players may bring back a player who left while it was on its way.

**Fairness.** Server: the `io_context` runs every handler whose operation has
completed, and every operation completes, for the HTTP read has a timeout of two
minutes, the stream has the suggested timeouts for its handshake and for idle
peers, and a write reaches the socket or fails. `Accept` and `LinkDown` are not
fair: nobody needs to connect or leave. No fairness is assumed of `OnRead`.
Client: the loop of the window goes on, connecting has the timeouts of the
system and the stream, posted handlers run while the `io_context` does, writes
finish or fail, and a read on a broken connection fails. Nothing says a
connection breaks or a message is sent. Game: a player's loop polls in every
frame. Nothing says that a player joins: `init` asks the user for a name first.
Program: a loop that has the thread to itself comes to its condition, so once the
window is closed the loop of a screen (`ClosedLoop`) and that of a game (`Closed`)
end. Nothing says that anybody types, clicks or closes a window.

**Mutants.** Each property of a passing run is broken by a mutated definition,
written beside it and marked `mutant`: a dropped guard, a forgotten
reset, a swapped order, a message not recorded. `PROJECT.json` pairs them.

## 4. What is proved

Eight modules hold proofs, and all theorems are for any values of the constants:
any number of sessions, names, frames, players, tiles, files, texts, keys held and
so on, with the bounds as parameters. The assumptions are those named in the
modules (`ServerAssumption`, `ClientAssumption`, `GameAssumption`,
`HandsAssumption`, `BoardAssumption`, `ProgramAssumption`): that constants have their types, and that
the model values that stand for `nullptr`, an empty optional, an empty string and
the like are not among the things they stand beside.

| Module | Theorems |
|---|---|
| `ServerProofs` | `TypeCorrect`, `NoDanglingSession` (`ConnectionsLive`), `WritesAreChained` (`WriteChain`), `OneHost` (`HostIsTold`), `HostNeverReplaced` (`HostStable`), `NothingLostOrTwice` (`StreamMatchesLog`), `RosterEntriesUndone` (`JoinsAreClosed`), `BroadcastImplemented` (`ImplementsBroadcast`) |
| `ClientProofs` | `TypeCorrect`, `OneWriteAtATime` (`WriteSlot`), `NumberedInOrder` (`ConsecutiveFrames`), `OutgoingImplementsFifo` (`OutgoingIsFifo`), `IncomingImplementsFifo` (`IncomingIsFifo`) |
| `GameProofs` | `TypeCorrect`, `AtMostOneHost` (`OneHost`), `FirstHostListsAll` (`HostRosterExact`), `NoneMissed` (`NobodyMissing`), `RulesKeepAlive` (`CrashHasCause`, for `HolderOnly`), `RulesMakeScoresAgree` (`ScoresAgree`, for `HolderOnly`) |
| `HandsProofs` | `TypeCorrect`, `CopiesAgreeWhileCareful` (`CopiesAgree`), `EveryTileOnce` (`TilesOnce`), `NoTileIsLost` (`NothingLost`), `SettingsAgreeWhileUndisputed` (`SettingsAgree`) |
| `BoardProofs` | `ScoredByTheRules` (`ScoresByTheRules`), `AddedTwiceAcross`, `AnyTileFirst` (`OrderIsIrrelevant`), `ScoredInAnyOrder` |
| `ProgramProofs` | `TypeCorrect`, `ServedAsChosen`, `PlayedAsNamed`, `OneModeAtATime`, `PointsGivenAsTold`, `LetterIsNoHotKey`, `SavedAsShown`, `NoOtherOverwritten`: every property of the run `program` but `CloseEnds` |

Each module has one inductive invariant, `Inv`, one lemma per action that disturbs
it, one lemma that collects them, and the theorems.

**Server.** `Inv` is the three properties, the types, and `Fresh`: what is true of
a connection no websocket session has been made of, whose queues are empty.
`Fresh` is needed because `Upgrade` brings a session into the invariants that has
not been in them before: it must come with no write outstanding and no host command
in its queue. The invariants of a session's queue are stated of one session
(`ChainOf`, `HostOf`), and two lemmas about the helpers, `QueueWritePushes` and
`DestroyPushes`, say what a step of one session does to the queue of another: it
stays, or one message that is not the host command is pushed and a write launched
if it is the first.

The histories need a second invariant, `HistoryInv`: that a disconnect in the log
is of a session that is dead (`LogInv`), that who has relayed its join was named
before (`Named`), and that every join under way carries that name (`Introduced`).
A lemma (`Forms`) says that every step does one of four things to the log and the
queues: it logs nothing and adds nothing that counts as an event, registers a
session, which starts at the end of the log, lets a session speak, or removes one;
in the last two the one event logged is pushed to every other session. From that
each history is a short proof. `BroadcastImplemented` maps what has been written to
the view of the abstract member. The four forms are its actions, but for the
writes, each of which shows one member one more event, or an ack.

*Recursion.* `Within`, the filter the histories are stated with, is a recursive
function. Its value is proved without induction over data: `Least`, that a set
of numbers has a least member, follows from the library's theorems on well-founded
relations, and what a recursion computes is shown at the least index where it
would be wrong. With it `WithinAppend` (one event more) and `WithinBegins` (prefixes
stay prefixes) are all that the proofs need.

**Client.** `WriteSlot` is inductive with the types, the numbers are not. A message
passes from `posted` to `messageQueue`, to `message` and to the wire. `Numbered`
says that these four together hold consecutive messages, `Counted` that
`seq` is the length of the wire and of what is being written, and `SentInOrder`
that until the shutdown nothing the game has sent is anywhere else. From them
`OutgoingImplementsFifo` proves the refinement: the initial state maps to the
empty channel, and of all steps only the end of a write moves a message, the next
one, to the far end; a shutdown that drops what waits leaves a channel that stops.
`Delivered` is the same for the way in: until the first stale read, what has been
applied, what is in the cache and what waits in `recvQueue` are the updates received,
in their order, with any number of blanks between them.

**Game.** That there is one host is not inductive: the server decides it when a
player connects, and the player knows it only when it has applied the update.
`HostTold` ties all players who have been told, or are about to be, to the `host_`
of the server, which is one; `Present` says that the server relays to exactly the
players who are there.

The lists of players are right only when all updates have been applied, so the
invariant (`Met`) says what the updates on their way will make of them, under any
interleaving of joins, answers and leaves. `Listed` is about the first host: it
learns that it is host before anything else, each player who has joined is in its
list or has a join on the way to it, and each who has left is not, or a disconnect
is on the way that no join of that player follows. `Introduced` is about everyone
else: of a player p, q has been told, or is about to be, by p's join or by a list,
or the host has q's join still to answer and will know p by then. The last case is
the point: whether the list that answers q has p in it is decided by the order of
two joins in the host's inbox. `Superseded` says why the case of a second host is
different, and where the properties stop: a later host never hears of earlier ones.

`RulesKeepAlive` is about what `players_.at` and `map_.at` look up at the end of a
turn. By the rules of `HolderOnly` a game begins when one player has all others
in its list. `AllThere` says that then everyone has joined, there has been one host,
and everyone is in, or on the way to, everyone's list; `Ordered` that no inbox
has a turn before the names of all who stay and the scores of letters, or a letter or
points before a turn. Hence a player who applies or makes a move is ready for
it, unless a character without a score is on its board. That is one cause of the end
of a program that `CrashHasCause` names, and the one that `src/todo.md:35` calls
critical; that somebody has left is the other: `game_leaver` is the run in which a
player that is gone ends the program of another. What the theorem does not say is
that players keep the rules: one who joins after the scores were loaded breaks them.

`RulesMakeScoresAgree` is about scores that nobody sends: each player computes them
from its own moves and from the updates it gets, in an order of its own, since
whoever makes a move counts it before what its inbox still holds and all others
after that. The invariant (`Table`) has four parts. `Agree` says that all come to
the same turn and the same score of whoever plays when each applies its own inbox.
`Leads` states that as a relation between what a player reckons with now and what it
will then, by a function from places in the inbox to what is reckoned there, since
a recursion over the inbox could not be reasoned about. Points that are given
commute with everything else in an inbox (`ResultsCommute`); turns and letters do
not, and the rest says why that does no harm. `Token`: nothing that counts for a
turn follows a turn of one's own in one's inbox, so a player who may play has read
all that counts (`TurnLasts`). `Succession`: the first host, who may end the turn of
a player that has gone, does so only once it has read the disconnect, and all that
this player did is before that. `Opening`: until the first host makes the first
turn there is nothing to count. Before everyone has joined nothing of a game can be
on its way (`TableYet`, `NoGameYet`), and since the server appoints a host only when
somebody connects, no later host takes part in a game.

**Hands.** All three properties speak of players who have nothing left to apply.
The invariants say of all others what their inboxes hold: the last charset on the
way to a player is the one last published (`BagInv`), so is the last setting
(`RuleInv`), and a tile that nobody has drawn is in every copy and in every charset
on the way (`LostInv`). Steps that send nothing of a kind leave the invariant of
that kind alone (`Calm`); a broadcast makes it true of everyone it reaches
(`Tells`). `OnceInv`, that of every tile in use there is one, in the bag, in one hand
or played, is stated over places, not as a sum: a draw takes from the bag and gives
to one hand (`DrawMoves`), a play takes from a hand, and while nobody is careless
the copy drawn from is the bag.

**Board.** Here the invariant is short: the tiles of a turn are tiles, there are none
before the first turn, and of the tiles set in a cell the last one is there (`Shown`).
What takes work is the algorithm, which is proved equal to its reference in three
parts.

*Sums.* `SumFunction` and `Product` are folds of the library: a solution, which is
chosen, of a recursion over the subsets of a finite set, which adds some element at a
time. `RecurExists` says that there is one; `TotalSums` that for any commutative
operation any element may be the next. From these follow the four facts that are
needed: elements may go by other names (`TotalRenamed`), those that add nothing may be
left out (`TotalWithin`), a sum of sums is the sum of both (`SumOfBoth`), and the fold
over a single element is that element (`SumOfOne`, `ProductOfOne`). Each is proved at a least set
where it would fail (`LeastSet`, from the library's theorems on well-founded
relations): this takes the place of induction.

*Scans.* `WordAt` says by indices which cells the word through a cell has, and
`ScanIsWord` that scanning back and then forth reads each of them once, whatever cell
of the word the scan began in (`WordSame`). `CrossScoreIs` says the same of the scan
across a tile. Here the first exception of `ScoresByTheRules` is needed: for
a tile of row or column 1 the code does not look back, and so begins too late.

*Plays.* The tiles of a play are in different cells (`PlayIs`, from
the number of its cells), so each is the one that is shown there (`Shown`), and
numbering them names the cells once. Hence the sums over tiles in the code are the
sums over cells in the rules (`WorthOfPlay`); a word across has no other tile of the
play (`OneAcross`), and by `WorthAcrossIs` its worth is what the code adds but for
the additional points of the tile, which the code adds twice (`Twice`). So the finding
of `board_across` is proved to be the whole of the difference (`AddedTwiceAcross`),
and the second exception of `ScoresByTheRules` is where there is none. That the order of the tiles does not
matter (`PlayReordered`) is `TotalRenamed` again, with `WordSame` for the first tile
and `DirectionOfPlay` for the first two. The run tries the orders that begin with
another tile; `ScoredInAnyOrder` is about all.

**Program.** The console and the editor are proved about each alone,
under the assumptions on its constants, and the menus in `ProgramProofs`, which shows that what the program
does to the variables of each is a behaviour of it alone (`MenusRefined`,
`ConsoleRefined`, `DevClientRefined`), a refinement by projection, and the theorems
on the parts carry over. The invariants that had to be found: what each screen
says of the choices made before it (`ServerChosen`, `ClientChosen`,
`NotLaunched`); that a command that has been typed has the action of its own last
character behind all that earlier commands queued, or what a script queued and
relayed (`CommandTyped`); and that a file of the editor that parses is the one its data belongs
to (`Related`).

**Only model-checked.**

* Liveness (`LostPeerForgotten`, `QueueDrains`, `ShutdownEnds`, `SendsGetOut`,
  `UpdatesGetIn`, `JoinersMeet`, `CloseEnds`): fairness and ENABLED are outside what
  TLAPS 1.4.5 handles.
* The four runs that expect a violation, which are examples.

Every safety property of a passing run is stated by a theorem.

## 5. Not modelled, and why

* Rendering, fonts, colours, logging, `load_config` and `set_config`, `print_debug`:
  no state the game depends on. Texts on the screen are left out. Of the commands
  that are not complete, `/points` and `/turn` are in `Console`; the others draw nothing,
  or load a file without a name as one that cannot be opened.
* What `/loadscript` and `/load` do to themselves, and files that can only be read or only be
  written, as section 2 says of `Console` and `DevClient`.
* Values of letters. One letter of two points is enough for the rules of `Board`,
  and `Game` counts letters. `map_.insert`, which keeps the scores loaded first, and
  the exceptions of `std::stoi` on numbers that are too long, are therefore not seen.
* What a write puts on the wire when its buffer is the destroyed temporary of
  `format_message`: the model writes the message that was meant.
* The server's destruction after `ioc_.stop()`, and how long a synchronous
  close takes.
* A player who reconnects, under the same name or another; and one who joins when
  the others have a layout already, which it never gets.
* Malformed frames and updates: players run this repository's client.
* `WebSocketSession::shutdown`, `Session::on_write`, `Connections::is_host`,
  `read_all`, `num_waiting`, `format_general`: never called. The test client and
  server are not built.

## 6. What could follow

The plan began with the server, the client and the game, and went on to the board,
the tiles, settings, events, menus and the developer mode; all of it is done. What
would add most from here:

1. `Game` with a player who reconnects before its old session is found out, and with
   layouts that late joiners lack.
2. `Game` over `Broadcast` itself, now that the server is proved to implement it.
3. The scores of `Board` in `Game`, now that the order in which tiles are set is proved
   not to matter: what is missing is that all players have the same layout.
