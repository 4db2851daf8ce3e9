--------------------------- MODULE WebSocketClient ---------------------------
(***************************************************************************)
(* The client's side of the connection: WebSocketClient (src/web/client),  *)
(* its adapter web::Client (webclient.cpp) and the loop of                 *)
(* Application::run_webclient that drives them.                            *)
(*                                                                         *)
(* Two threads.  The game thread runs the loop: input, update, cache_once. *)
(* The other runs the io_context, one handler at a time.  They share the   *)
(* queue of posted handlers, which asio guards, and recv_queue_, which     *)
(* recv_mutex_ guards, so a handler and a statement of the loop are each   *)
(* one step.                                                               *)
(*                                                                         *)
(* Messages are numbered: 0 is the empty message of the handshake, then    *)
(* the sends of the game in their order; likewise what the server sends.   *)
(***************************************************************************)
EXTENDS Naturals, Sequences

CONSTANTS NoMessage,    \* an empty optional
          EmptyReads,   \* what dereferencing an empty optional may do
          FirstSeq,     \* the random start of seq_
          MaxSends,     \* bound: messages the game sends
          MaxReceives   \* bound: messages the server sends

ASSUME ClientAssumption ==
  /\ NoMessage \notin Nat \cup [n : Nat, kind : {"blank", "update"}]
  /\ EmptyReads \subseteq {"nothing", "stale", "crash"}
  /\ FirstSeq \in Nat
  /\ MaxSends \in Nat /\ MaxReceives \in Nat

VARIABLES
  pc,            \* game thread: where run_webclient is
  open,          \* window.isOpen() && game.running()
  cache,         \* cache_
  posted,        \* handlers posted to ioc_ and not run
  ioc,           \* ioc_.run() is "running" or has "returned"
  net,           \* the stage of the connection
  message,       \* message_
  messageQueue,  \* message_queue_
  writing,       \* number of async_write operations outstanding
  reading,       \* an async_read is outstanding
  seq,           \* seq_
  recvQueue,     \* recv_queue_
  sent,          \* history: the messages the game sent
  wire,          \* history: the frames written, [seq, msg]
  received,      \* history: the updates received
  applied,       \* history: the updates the game applied
  misreadAt      \* history: which of them was the first stale one, or 0

game  == <<pc, open, cache, applied, misreadAt>>
write == <<message, messageQueue, writing, seq, wire>>
read  == <<reading, recvQueue, received>>
vars  == <<game, posted, sent, ioc, net, write, read>>

Hello == 0

(* What the game thread posts to the io_context.                           *)
SendOf(n) == [op |-> "send", n |-> n]
Shutdown  == [op |-> "shutdown", n |-> 0]

(* The server's messages: the n-th one for the game, or a blank one that   *)
(* has_chars rejects.  (Acks are dropped by parse_message at once.)        *)
Blank == [n |-> 0, kind |-> "blank"]
Update(n) == [n |-> n, kind |-> "update"]

Init ==
  /\ pc = "input"
  /\ open = TRUE
  /\ cache = NoMessage
  /\ posted = <<>>
  /\ ioc = "running"
  /\ net = "resolve"
  /\ message = Hello
  /\ messageQueue = <<>>
  /\ writing = 0
  /\ reading = FALSE
  /\ seq = FirstSeq
  /\ recvQueue = <<>>
  /\ sent = <<>>
  /\ wire = <<>>
  /\ received = <<>>
  /\ applied = <<>>
  /\ misreadAt = 0

-----------------------------------------------------------------------------
(* The game thread.                                                        *)

(* An update of the game goes out through web::Client::send, which posts   *)
(* WebSocketClient::send.                                                  *)
Send ==
  /\ pc \in {"input", "update"}
  /\ Len(sent) < MaxSends
  /\ sent' = Append(sent, Len(sent) + 1)
  /\ posted' = Append(posted, SendOf(Len(sent) + 1))
  /\ UNCHANGED <<game, ioc, net, write, read>>

(* The event loop ends, perhaps after an event that closes the window.     *)
ParseInput ==
  /\ pc = "input"
  /\ pc' = "update"
  /\ open' \in {open, FALSE}
  /\ UNCHANGED <<cache, applied, misreadAt, posted, sent, ioc, net, write, read>>

NotConsumed == cache \* mutant
Consumed == NoMessage

(* GameContext::update: one of poll_game, poll_chat and poll_conf consumes *)
(* the cached message, whatever it is.                                     *)
ApplyUpdate ==
  /\ pc = "update"
  /\ pc' = "cache"
  /\ cache' = Consumed
  /\ applied' = IF cache = NoMessage THEN applied ELSE Append(applied, cache)
  /\ UNCHANGED <<open, misreadAt, posted, sent, ioc, net, write, read>>

RejectsAll(m) == FALSE \* mutant
HasChars(m) == m # Blank

EndOfLoop == IF open THEN "input" ELSE "shutdown"

(* cache_once with a message waiting.                                      *)
CacheOne ==
  /\ pc = "cache"
  /\ recvQueue # <<>>
  /\ recvQueue' = Tail(recvQueue)
  /\ cache' = IF HasChars(Head(recvQueue)) THEN Head(recvQueue) ELSE cache
  /\ pc' = EndOfLoop
  /\ UNCHANGED <<open, applied, misreadAt, posted, sent, ioc, net, write, reading, received>>

(* cache_once with none: read_once returns an empty optional, and the code *)
(* dereferences it.  (Bound: a stale message is not applied for ever.)     *)
CacheNone ==
  /\ pc = "cache"
  /\ recvQueue = <<>>
  /\ \/ /\ "nothing" \in EmptyReads
        /\ pc' = EndOfLoop
        /\ UNCHANGED <<cache, misreadAt>>
     \/ /\ "stale" \in EmptyReads
        /\ applied # <<>> /\ Len(applied) < 2 * MaxReceives
        /\ cache' = applied[Len(applied)]
        /\ misreadAt' = IF misreadAt = 0 THEN Len(applied) + 1 ELSE misreadAt
        /\ pc' = EndOfLoop
     \/ /\ "crash" \in EmptyReads
        /\ pc' = "crashed"
        /\ UNCHANGED <<cache, misreadAt>>
  /\ UNCHANGED <<open, applied, posted, sent, ioc, net, write, read>>

(* web::Client::shutdown(true): post the shutdown and join the thread.     *)
QueueShutdown ==
  /\ pc = "shutdown"
  /\ pc' = "joining"
  /\ posted' = Append(posted, Shutdown)
  /\ UNCHANGED <<open, cache, applied, misreadAt, sent, ioc, net, write, read>>

Join ==
  /\ pc = "joining"
  /\ ioc = "returned"
  /\ pc' = "done"
  /\ UNCHANGED <<open, cache, applied, misreadAt, posted, sent, ioc, net, write, read>>

-----------------------------------------------------------------------------
(* The thread of the io_context.                                           *)

(* on_resolve and on_connect: the next operation, or an error and none.    *)
OnStage ==
  /\ ioc = "running"
  /\ \/ net = "resolve" /\ net' \in {"connect", "failed"}
     \/ net = "connect" /\ net' \in {"handshake", "failed"}
  /\ UNCHANGED <<game, posted, sent, ioc, write, read>>

(* format_message numbers the frame of message_, and async_write starts.   *)
LaunchWrite(m, queue) ==
  /\ message' = m
  /\ messageQueue' = queue
  /\ writing' = writing + 1
  /\ seq' = seq + 1

(* on_handshake: write the message that was there from the start, and      *)
(* begin to read.                                                          *)
OnHandshake ==
  /\ ioc = "running"
  /\ net = "handshake"
  /\ \/ /\ net' = "open"
        /\ LaunchWrite(message, messageQueue)
        /\ reading' = TRUE
     \/ /\ net' = "failed"
        /\ UNCHANGED <<message, messageQueue, writing, seq, reading>>
  /\ UNCHANGED <<game, posted, sent, ioc, wire, recvQueue, received>>

(* The connection breaks; the operations outstanding on it will fail.      *)
LoseLink ==
  /\ net = "open"
  /\ net' = "lost"
  /\ UNCHANGED <<game, posted, sent, ioc, write, read>>

(* message_ is empty: no write is outstanding.                             *)
AlwaysIdle == TRUE \* mutant
Idle == message = NoMessage

(* WebSocketClient::send: queue the message, and write the first in the    *)
(* queue unless a write is outstanding or the handshake is not over.       *)
RunSend ==
  /\ ioc = "running"
  /\ posted # <<>> /\ Head(posted) # Shutdown
  /\ posted' = Tail(posted)
  /\ LET queue == Append(messageQueue, Head(posted).n) IN
       \/ /\ Idle
          /\ LaunchWrite(Head(queue), Tail(queue))
       \/ /\ ~Idle
          /\ messageQueue' = queue
          /\ UNCHANGED <<message, writing, seq>>
  /\ UNCHANGED <<game, sent, ioc, net, wire, read>>

StopSkipped == "running" \* mutant
Stopped == "returned"

(* WebSocketClient::shutdown: close the stream, which may throw, and stop  *)
(* the io_context.  Whatever is outstanding never completes.               *)
RunShutdown ==
  /\ ioc = "running"
  /\ posted # <<>> /\ Head(posted) = Shutdown
  /\ posted' = Tail(posted)
  /\ ioc' = Stopped
  /\ net' = IF net = "open" THEN "closed" ELSE net
  /\ UNCHANGED <<game, sent, write, read>>

(* What on_write goes on with: the front of the queue, if there is one.    *)
ForgetsQueue == FALSE \* mutant
MoreToWrite == messageQueue # <<>>

OnWrite ==
  /\ ioc = "running"
  /\ net = "open" /\ writing > 0
  /\ wire' = Append(wire, [seq |-> seq - 1, msg |-> message])
  /\ \/ /\ MoreToWrite
        /\ message' = Head(messageQueue)
        /\ messageQueue' = Tail(messageQueue)
        /\ seq' = seq + 1
        /\ UNCHANGED writing
     \/ /\ ~MoreToWrite
        /\ message' = NoMessage
        /\ writing' = writing - 1
        /\ UNCHANGED <<messageQueue, seq>>
  /\ UNCHANGED <<game, posted, sent, ioc, net, read>>

(* on_write with an error leaves message_ set, and nothing is ever written *)
(* again.                                                                  *)
OnWriteFailed ==
  /\ ioc = "running"
  /\ net = "lost" /\ writing > 0
  /\ writing' = writing - 1
  /\ UNCHANGED <<game, posted, sent, ioc, net, message, messageQueue, seq, wire, read>>

(* on_read: parse_message, push what is for the game, and read again.      *)
(* (Bound: no blank message while MaxReceives messages wait.)              *)
OnRead ==
  /\ ioc = "running"
  /\ net \in {"open", "lost"} /\ reading
  /\ \/ /\ Len(received) < MaxReceives
        /\ received' = Append(received, Update(Len(received) + 1))
        /\ recvQueue' = Append(recvQueue, Update(Len(received) + 1))
     \/ /\ Len(recvQueue) < MaxReceives
        /\ recvQueue' = Append(recvQueue, Blank)
        /\ UNCHANGED received
  /\ UNCHANGED <<game, posted, sent, ioc, net, write, reading>>

OnReadFailed ==
  /\ ioc = "running"
  /\ net = "lost" /\ reading
  /\ reading' = FALSE
  /\ UNCHANGED <<game, posted, sent, ioc, net, write, recvQueue, received>>

(* ioc_.run() returns when no handler is posted and no operation is        *)
(* outstanding.  Handlers posted after that never run.                     *)
RunReturns ==
  /\ ioc = "running"
  /\ posted = <<>>
  /\ net \notin {"resolve", "connect", "handshake"}
  /\ writing = 0 /\ ~reading
  /\ ioc' = "returned"
  /\ UNCHANGED <<game, posted, sent, net, write, read>>

Game == Send \/ ParseInput \/ ApplyUpdate \/ CacheOne \/ CacheNone \/ QueueShutdown \/ Join
Network == \/ OnStage \/ OnHandshake \/ RunSend \/ RunShutdown \/ OnWrite \/ OnWriteFailed
           \/ OnRead \/ OnReadFailed \/ RunReturns
Next == Game \/ Network \/ LoseLink

(* The loop runs until the window is closed.  The io_context runs what is  *)
(* posted, and every operation completes: connecting has the timeouts of   *)
(* the system and of the stream, a write reaches the socket or fails, and  *)
(* a read on a broken connection fails.                                    *)
Fairness ==
  /\ WF_vars(ParseInput \/ ApplyUpdate \/ CacheOne \/ CacheNone \/ QueueShutdown \/ Join)
  /\ WF_vars(OnStage \/ OnHandshake)
  /\ WF_vars(RunSend \/ RunShutdown)
  /\ WF_vars(OnWrite \/ OnWriteFailed)
  /\ WF_vars(OnReadFailed)
  /\ WF_vars(RunReturns)

Spec == Init /\ [][Next]_vars
FairSpec == Spec /\ Fairness

-----------------------------------------------------------------------------
(* Properties.                                                             *)

Updates == {Update(n) : n \in 1 .. MaxReceives}
Inbound == Updates \cup {Blank}

(* Every variable has its type; at most one write is outstanding           *)
(* (client.cpp:87-101, 201-214).                                           *)
TypeOK ==
  /\ pc \in {"input", "update", "cache", "shutdown", "joining", "done", "crashed"}
  /\ open \in BOOLEAN
  /\ cache \in Inbound \cup {NoMessage}
  /\ posted \in Seq({SendOf(n) : n \in 1 .. MaxSends} \cup {Shutdown})
  /\ ioc \in {"running", "returned"}
  /\ net \in {"resolve", "connect", "handshake", "open", "lost", "closed", "failed"}
  /\ message \in 0 .. MaxSends \cup {NoMessage}
  /\ messageQueue \in Seq(1 .. MaxSends)
  /\ writing \in 0 .. 1
  /\ reading \in BOOLEAN
  /\ seq \in Nat
  /\ recvQueue \in Seq(Inbound)
  /\ sent \in Seq(1 .. MaxSends)
  /\ wire \in Seq([seq : Nat, msg : 0 .. MaxSends])
  /\ received \in Seq(Updates)
  /\ applied \in Seq(Inbound)
  /\ misreadAt \in Nat

(* message_ is the slot of the write outstanding and, before the           *)
(* handshake, what keeps send from writing: on_handshake asserts that it   *)
(* is set, messages wait only behind a full slot, and a full slot has a    *)
(* write outstanding unless the connection is not open.                    *)
WriteSlot ==
  /\ net \in {"resolve", "connect", "handshake", "failed"} => message = Hello
  /\ writing = 1 => message # NoMessage
  /\ messageQueue # <<>> => message # NoMessage
  /\ net = "open" /\ message # NoMessage => writing = 1

(* The server warns of a frame whose number is not the successor of the    *)
(* last: it never does, whatever send and on_write were interleaved with.  *)
ConsecutiveFrames ==
  \A i \in 1 .. Len(wire) : wire[i] = [seq |-> FirstSeq + i - 1, msg |-> i - 1]

(* From the game to the wire, after the empty message of the handshake,    *)
(* the client is a FIFO channel that may stop.                             *)
Outgoing == INSTANCE Fifo WITH
  Messages <- 1 .. MaxSends,
  arrived <- [i \in 1 .. (IF wire = <<>> THEN 0 ELSE Len(wire) - 1) |-> wire[i + 1].msg]

OutgoingIsFifo == Outgoing!Spec

(* And from the server to the game, as far as the first stale message.     *)
Genuine == IF misreadAt = 0 THEN applied ELSE SubSeq(applied, 1, misreadAt - 1)

Incoming == INSTANCE Fifo WITH
  Messages <- Updates,
  sent <- received,
  arrived <- Genuine

IncomingIsFifo == Incoming!Spec

(* Closing the window ends the program, whatever the connection is doing:  *)
(* the join waits for a thread that does return.                           *)
ShutdownEnds == (pc = "shutdown") ~> (pc = "done")

Cut == net \in {"failed", "lost"} \/ ioc = "returned"

(* What the game sends gets out, unless the connection fails or is closed. *)
SendsGetOut == \A n \in 1 .. MaxSends : (Len(sent) >= n) ~> (Len(wire) > n \/ Cut)

(* What the client received the game applies, unless it is being closed,   *)
(* or an empty read ends the program.                                      *)
UpdatesGetIn == \A n \in 1 .. MaxReceives :
  (Len(received) >= n) ~> (Len(Genuine) >= n \/ misreadAt > 0 \/ ~open \/ pc = "crashed")

(* "check for messages on the web client": a check that finds none leaves  *)
(* the game as it is.                                                      *)
CheckIsHarmless ==
  [][pc = "cache" /\ recvQueue = <<>> => cache' = cache /\ pc' # "crashed"]_vars
=============================================================================
