------------------------------- MODULE Server -------------------------------
(***************************************************************************)
(* The game server: Server, Session, WebSocketSession and Connections of   *)
(* src/src/web.  One thread runs ioc_.run(), so a handler is atomic and    *)
(* the actions below are the handlers.  What interleaves is the order in   *)
(* which the operating system completes the asynchronous operations.       *)
(*                                                                         *)
(* A session object lives as long as an asynchronous operation holds a     *)
(* shared_ptr to it.  The handler that drops the last one destroys it, in  *)
(* the same step, and the destructor tells every other session.            *)
(*                                                                         *)
(* Sessions are identities of connections and are used once.  The frames   *)
(* a peer sends are those of this repository's client: the empty message   *)
(* of its handshake, the SERVER join, the join for the other players, and  *)
(* then game data.  Sequence numbers are in WebSocketClient.               *)
(***************************************************************************)
EXTENDS Naturals, Sequences, Filters

CONSTANTS Sessions,   \* the connections that may ever be made
          NoSession,  \* host_ == nullptr
          Names,      \* player names
          NoName,     \* the empty string
          NameOf,     \* the name the player behind a connection chose
          MaxReads    \* bound: the number of frames each peer sends

ASSUME ServerAssumption ==
  /\ NoSession \notin Sessions
  /\ NoName \notin Names
  /\ NameOf \in [Sessions -> Names]
  /\ MaxReads \in [Sessions -> Nat]

VARIABLES
  running,     \* ioc_ has not been stopped
  listening,   \* an async_accept is outstanding
  phase,       \* which operation keeps the object of a connection alive
  link,        \* "down" once the peer closed, crashed or cannot be reached
  queue,       \* write_queue_
  inflight,    \* number of async_write operations outstanding
  early,       \* the write outstanding was launched before the handshake ended
  registered,  \* the keys of connections_
  user,        \* the values of connections_
  host,        \* host_
  reads,       \* frames read so far from a connection
  written,     \* history: the messages written to a connection
  log,         \* history: every event relayed or announced, in order
  since        \* history: Len(log) when the session was registered

conn == <<registered, user, host>>
vars == <<running, listening, phase, link, queue, inflight, early,
          registered, user, host, reads, written, log, since>>

Phases == {"new", "http", "handshake", "reading", "draining", "dead"}
Kinds  == {"ack", "host", "disconnect", "empty", "join", "data"}

Messages == [kind : Kinds, from : Sessions \cup {NoSession}, name : Names \cup {NoName}]

Ack           == [kind |-> "ack",  from |-> NoSession, name |-> NoName]
Configure     == [kind |-> "host", from |-> NoSession, name |-> NoName]

(* queue_disconnect of the name remove_connection looked up.               *)
Nameless(s)   == [kind |-> "disconnect", from |-> s, name |-> NoName] \* mutant
Disconnect(s) == [kind |-> "disconnect", from |-> s, name |-> user[s]]

(* The k-th frame of the peer, numbered from 0.                            *)
FrameKind(k) == CASE k = 0 -> "empty" [] k = 1 -> "SERVER" [] k = 2 -> "join"
                  [] OTHER -> "data"

(* on_read keeps a frame with a SERVER command to itself.                  *)
NeverForServer(k) == FALSE \* mutant
ForServer(k) == FrameKind(k) = "SERVER"

Relayed(s, k) == [kind |-> FrameKind(k), from |-> s,
                  name |-> IF FrameKind(k) = "join" THEN NameOf[s] ELSE NoName]

Init ==
  /\ running = TRUE
  /\ listening = TRUE
  /\ phase = [s \in Sessions |-> "new"]
  /\ link = [s \in Sessions |-> "up"]
  /\ queue = [s \in Sessions |-> <<>>]
  /\ inflight = [s \in Sessions |-> 0]
  /\ early = [s \in Sessions |-> FALSE]
  /\ registered = {}
  /\ user = [s \in Sessions |-> NoName]
  /\ host = NoSession
  /\ reads = [s \in Sessions |-> 0]
  /\ written = [s \in Sessions |-> <<>>]
  /\ log = <<>>
  /\ since = [s \in Sessions |-> 0]

-----------------------------------------------------------------------------
(* A message pushed onto write_queue_ launches a write if it is the only   *)
(* one there.                                                              *)
LaunchesAlways(t) == TRUE \* mutant
Launches(t) == queue[t] = <<>>

(* queue_write, for every session t at once: out[t] is what is pushed onto *)
(* its write queue.                                                        *)
QueueWrite(out) ==
  LET launch(t) == out[t] # <<>> /\ Launches(t)
  IN /\ queue' = [t \in Sessions |-> queue[t] \o out[t]]
     /\ inflight' = [t \in Sessions |-> inflight[t] + (IF launch(t) THEN 1 ELSE 0)]
     /\ early' = [t \in Sessions |->
                    IF launch(t) THEN phase[t] = "handshake" ELSE early[t]]

(* alert_connections: message m to every connection but s.                 *)
AlertAll(s, m) == [t \in Sessions |-> IF t \in registered THEN <<m>> ELSE <<>>] \* mutant
Alert(s, m) == [t \in Sessions |-> IF t \in registered \ {s} THEN <<m>> ELSE <<>>]

(* claim_host succeeds while there is no host, and remove_connection       *)
(* forgets the host only if it is the session that goes.                   *)
ClaimsAnyway(s) == TRUE \* mutant
ClaimsHost(s) == host = NoSession
HostForgotten(s) == NoSession \* mutant
HostDangling(s) == host \* mutant
HostWithout(s) == IF host = s THEN NoSession ELSE host

(* The last shared_ptr to a registered session is gone: the destructor     *)
(* runs remove_connection.  Its own queue dies with it.                    *)
Destroy(s) ==
  LET others == registered \ {s}
      launch(t) == t \in others /\ Launches(t)
  IN /\ phase' = [phase EXCEPT ![s] = "dead"]
     /\ registered' = others
     /\ user' = [user EXCEPT ![s] = NoName]
     /\ host' = HostWithout(s)
     /\ log' = Append(log, Disconnect(s))
     /\ queue' = [t \in Sessions |->
                    IF t = s THEN <<>>
                    ELSE IF t \in others THEN Append(queue[t], Disconnect(s))
                    ELSE queue[t]]
     /\ inflight' = [t \in Sessions |->
                       IF t = s THEN 0
                       ELSE inflight[t] + (IF launch(t) THEN 1 ELSE 0)]
     /\ early' = [t \in Sessions |->
                    IF t = s THEN FALSE
                    ELSE IF launch(t) THEN phase[t] = "handshake" ELSE early[t]]

(* A handler of s returns without starting another operation.  The object  *)
(* dies unless a write still holds it.                                     *)
Lingers(s) == \* mutant
  /\ phase' = [phase EXCEPT ![s] = "draining"]
  /\ UNCHANGED <<queue, inflight, early, registered, user, host, log>>
Release(s) ==
  IF inflight[s] > 0
  THEN /\ phase' = [phase EXCEPT ![s] = "draining"]
       /\ UNCHANGED <<queue, inflight, early, registered, user, host, log>>
  ELSE Destroy(s)

-----------------------------------------------------------------------------
(* SIGINT or SIGTERM: ioc_.stop(), after which no handler runs.            *)
Stop ==
  /\ running
  /\ running' = FALSE
  /\ UNCHANGED <<listening, phase, link, queue, inflight, early, registered,
                 user, host, reads, written, log, since>>

(* Server::on_accept with an error returns before it accepts again.        *)
AcceptFailed ==
  /\ running /\ listening
  /\ listening' = FALSE
  /\ UNCHANGED <<running, phase, link, queue, inflight, early, registered,
                 user, host, reads, written, log, since>>

(* Server::on_accept: a Session reads the HTTP request; accept the next.   *)
Accept(s) ==
  /\ running /\ listening
  /\ phase[s] = "new"
  /\ phase' = [phase EXCEPT ![s] = "http"]
  /\ UNCHANGED <<running, listening, link, queue, inflight, early, registered,
                 user, host, reads, written, log, since>>

(* Session::on_read with an error, its two minutes over, or a request that *)
(* is no upgrade: the Session goes away, no WebSocketSession was made.     *)
HttpClosed(s) ==
  /\ running
  /\ phase[s] = "http"
  /\ phase' = [phase EXCEPT ![s] = "dead"]
  /\ UNCHANGED <<running, listening, link, queue, inflight, early, registered,
                 user, host, reads, written, log, since>>

(* Session::on_read with an upgrade, and WebSocketSession::launch, which   *)
(* registers the session before the websocket handshake begins.            *)
Upgrade(s) ==
  /\ running
  /\ phase[s] = "http"
  /\ phase' = [phase EXCEPT ![s] = "handshake"]
  /\ registered' = registered \cup {s}
  /\ user' = [user EXCEPT ![s] = NoName]
  /\ since' = [since EXCEPT ![s] = Len(log)]
  /\ UNCHANGED <<running, listening, link, queue, inflight, early, host, reads,
                 written, log>>

(* WebSocketSession::on_accept: claim_host, tell the new host, and read.   *)
OnAccept(s) ==
  /\ running
  /\ phase[s] = "handshake"
  /\ phase' = [phase EXCEPT ![s] = "reading"]
  /\ \/ /\ ClaimsHost(s)
        /\ host' = s
        /\ queue' = [queue EXCEPT ![s] = Append(@, Configure)]
        /\ inflight' = [inflight EXCEPT ![s] = IF Launches(s) THEN @ + 1 ELSE @]
        /\ UNCHANGED early
     \/ /\ ~ClaimsHost(s)
        /\ UNCHANGED <<host, queue, inflight, early>>
  /\ UNCHANGED <<running, listening, link, registered, user, reads, written,
                 log, since>>

(* WebSocketSession::on_accept with an error.                              *)
OnAcceptFailed(s) ==
  /\ running
  /\ phase[s] = "handshake"
  /\ link[s] = "down"
  /\ Release(s)
  /\ UNCHANGED <<running, listening, link, reads, written, since>>

(* WebSocketSession::on_read: acknowledge, then set the user of a SERVER   *)
(* join or relay the frame to all other connections.                       *)
OnRead(s) ==
  /\ running
  /\ phase[s] = "reading"
  /\ reads[s] < MaxReads[s]
  /\ reads' = [reads EXCEPT ![s] = @ + 1]
  /\ \/ /\ ForServer(reads[s])
        /\ user' = [user EXCEPT ![s] = NameOf[s]]
        /\ QueueWrite([t \in Sessions |-> IF t = s THEN <<Ack>> ELSE <<>>])
        /\ UNCHANGED log
     \/ /\ ~ForServer(reads[s])
        /\ log' = Append(log, Relayed(s, reads[s]))
        /\ QueueWrite([Alert(s, Relayed(s, reads[s])) EXCEPT ![s] = <<Ack>> \o @])
        /\ UNCHANGED user
  /\ UNCHANGED <<running, listening, phase, link, registered, host, written, since>>

(* WebSocketSession::on_read with an error: the peer closed or was lost.   *)
OnReadFailed(s) ==
  /\ running
  /\ phase[s] = "reading"
  /\ link[s] = "down"
  /\ Release(s)
  /\ UNCHANGED <<running, listening, link, reads, written, since>>

(* on_write finds another message behind the one it pops.                  *)
NothingBehind(s) == FALSE \* mutant
AnotherWaits(s) == Len(queue[s]) > 1

(* WebSocketSession::on_write: pop, and launch the next write.  The last   *)
(* write of a session that no longer reads destroys it.                    *)
OnWrite(s) ==
  /\ running
  /\ phase[s] \in {"reading", "draining"}
  /\ inflight[s] > 0
  /\ written' = [written EXCEPT ![s] = Append(@, Head(queue[s]))]
  /\ \/ /\ phase[s] = "draining"
        /\ ~AnotherWaits(s)
        /\ Destroy(s)
     \/ /\ phase[s] = "reading" \/ AnotherWaits(s)
        /\ queue' = [queue EXCEPT ![s] = Tail(@)]
        /\ inflight' = [inflight EXCEPT ![s] = IF AnotherWaits(s) THEN @ ELSE @ - 1]
        /\ early' = [early EXCEPT ![s] = FALSE]
        /\ UNCHANGED <<phase, registered, user, host, log>>
  /\ UNCHANGED <<running, listening, link, reads, since>>

(* WebSocketSession::on_write with an error returns without popping and    *)
(* launches nothing, so queue_write never launches a write again.  A write *)
(* fails when the peer is gone, or when it was launched on a stream whose  *)
(* handshake had not ended, which Boost.Beast refuses.                     *)
OnWriteFailed(s) ==
  /\ running
  /\ inflight[s] > 0
  /\ link[s] = "down" \/ early[s]
  /\ \/ /\ phase[s] = "draining"
        /\ Destroy(s)
     \/ /\ phase[s] # "draining"
        /\ inflight' = [inflight EXCEPT ![s] = @ - 1]
        /\ UNCHANGED <<phase, queue, early, registered, user, host, log>>
  /\ UNCHANGED <<running, listening, link, reads, written, since>>

(* The peer closes the connection, crashes, or becomes unreachable.        *)
LinkDown(s) ==
  /\ running
  /\ phase[s] \notin {"new", "dead"}
  /\ link[s] = "up"
  /\ link' = [link EXCEPT ![s] = "down"]
  /\ UNCHANGED <<running, listening, phase, queue, inflight, early, registered,
                 user, host, reads, written, log, since>>

Handler(s) == \/ Accept(s) \/ HttpClosed(s) \/ Upgrade(s) \/ OnAccept(s)
              \/ OnAcceptFailed(s) \/ OnRead(s) \/ OnReadFailed(s)
              \/ OnWrite(s) \/ OnWriteFailed(s)

Next == Stop \/ AcceptFailed \/ \E s \in Sessions : Handler(s) \/ LinkDown(s)

(* The io_context runs every handler whose operation has completed, and    *)
(* every operation completes: the HTTP read has a timeout of two minutes,  *)
(* the websocket stream the suggested ones for its handshake and for a     *)
(* peer that is gone, and a write either reaches the socket or fails.      *)
Fairness == \A s \in Sessions :
  /\ WF_vars(HttpClosed(s) \/ Upgrade(s))
  /\ WF_vars(OnAccept(s) \/ OnAcceptFailed(s))
  /\ WF_vars(OnReadFailed(s))
  /\ WF_vars(OnWrite(s) \/ OnWriteFailed(s))

Spec == Init /\ [][Next]_vars
FairSpec == Spec /\ Fairness
-----------------------------------------------------------------------------
(* Properties.                                                             *)

TypeOK ==
  /\ running \in BOOLEAN
  /\ listening \in BOOLEAN
  /\ phase \in [Sessions -> Phases]
  /\ link \in [Sessions -> {"up", "down"}]
  /\ queue \in [Sessions -> Seq(Messages)]
  /\ inflight \in [Sessions -> Nat]
  /\ early \in [Sessions -> BOOLEAN]
  /\ registered \subseteq Sessions
  /\ user \in [Sessions -> Names \cup {NoName}]
  /\ host \in Sessions \cup {NoSession}
  /\ reads \in [Sessions -> Nat]
  /\ written \in [Sessions -> Seq(Messages)]
  /\ log \in Seq(Messages)
  /\ since \in [Sessions -> Nat]

Open == {"handshake", "reading", "draining"}

(* connections_ holds raw pointers, and every handler that alerts the      *)
(* others dereferences all of them: it must hold exactly the sessions that *)
(* some operation keeps alive, through every order of failures, and host_  *)
(* must be one of them.                                                    *)
ConnectionsLive ==
  /\ registered = {s \in Sessions : phase[s] \in Open}
  /\ host = NoSession \/ host \in registered
  /\ \A s \in Sessions : phase[s] = "draining" => inflight[s] > 0

(* queue_write, on_read, on_accept and remove_connection all decide from   *)
(* the length of write_queue_ whether to launch a write.  Two writes must  *)
(* never be outstanding on one stream, an outstanding write must be of the *)
(* front of the queue, and a queue with messages and no write outstanding  *)
(* is stuck for ever: that may happen only after a write failed, because   *)
(* the peer is gone or the write was launched during the handshake.        *)
WriteChain == \A s \in Sessions :
  /\ inflight[s] <= 1
  /\ inflight[s] = 1 => queue[s] # <<>>
  /\ queue[s] # <<>> => \/ inflight[s] = 1
                        \/ link[s] = "down"
                        \/ early[s]

Occurs(m, messages) == \E i \in 1 .. Len(messages) : messages[i] = m

(* The session that holds host_ is the one, and the only one of those      *)
(* alive, that has been sent the command that makes its client the host:   *)
(* two hosts would both answer a join with their playerlists, none would   *)
(* leave the players without.                                              *)
HostIsTold == \A s \in registered :
  host = s <=> Occurs(Configure, written[s]) \/ Occurs(Configure, queue[s])

SentTo(s) == written[s] \o queue[s]

(* The events a session is sent: what is neither an ack nor the command    *)
(* that makes a client the host.                                           *)
Relayable  == {m \in Messages : m.kind \in {"empty", "join", "data"}}
Departures == {m \in Messages : m.kind = "disconnect"}
EventsOf(messages) == Within(messages, Relayable \cup Departures)

(* The server is the broadcast: the events written to a session are what   *)
(* the abstract member has been shown.                                     *)
Departed == {s \in Sessions : \E i \in DOMAIN log : /\ log[i].kind = "disconnect"
                                                    /\ log[i].from = s}

Relays == INSTANCE Broadcast WITH
  Members <- Sessions,
  Payload <- Relayable,
  members <- registered,
  left <- Departed,
  view <- [s \in Sessions |-> EventsOf(written[s])]

(* What a session is sent is the log since it was registered without its   *)
(* own events: the same order for everyone, nothing lost between the       *)
(* handlers, nothing twice.                                                *)
StreamMatchesLog == \A s \in registered : EventsOf(SentTo(s)) = Relays!Feed(s, log)

(* A player added to a roster is removed from it: a live session that was  *)
(* sent the join of a player who is gone is sent, after it, a disconnect   *)
(* that carries the same name, and after that nothing more of the player.  *)
JoinsAreClosed == \A s \in registered, t \in Sessions :
  phase[t] = "dead" =>
    \A i \in DOMAIN SentTo(s) :
      SentTo(s)[i].kind = "join" /\ SentTo(s)[i].from = t =>
        \E j \in (i + 1) .. Len(SentTo(s)) :
          /\ SentTo(s)[j].kind = "disconnect"
          /\ SentTo(s)[j].from = t
          /\ SentTo(s)[j].name = SentTo(s)[i].name
          /\ \A k \in (j + 1) .. Len(SentTo(s)) : SentTo(s)[k].from # t

(* No step takes the host away from a session that is alive after it.      *)
HostStable == [][host # NoSession /\ host \in registered' => host' = host]_vars

(* A session whose peer is gone is found out and destroyed, whatever its   *)
(* reads and writes were doing, as long as the server runs.                *)
LostPeerForgotten == \A s \in Sessions :
  (s \in registered /\ link[s] = "down") ~> (s \notin registered \/ ~running)

(* Every message queued for a peer that stays is written, unless a write   *)
(* was refused during the handshake.                                       *)
QueueDrains == \A s \in Sessions :
  (queue[s] # <<>>) ~> (queue[s] = <<>> \/ link[s] = "down" \/ early[s] \/ ~running)

(* Server implements Broadcast, step by step.                              *)
ImplementsBroadcast == Relays!Spec
=============================================================================
