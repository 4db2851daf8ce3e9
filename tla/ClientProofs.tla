---------------------------- MODULE ClientProofs ----------------------------
(***************************************************************************)
(* Theorems about WebSocketClient for any number of messages in either     *)
(* direction, and whatever an empty read does: message_ is the slot of the *)
(* one write outstanding, frames are numbered without a gap, and what the  *)
(* game sends reaches the wire in its order, as Fifo says; so does what    *)
(* the server sends reach the game, up to the first bad empty read.        *)
(*                                                                         *)
(* The write slot is inductive with the types, the numbers are not.  A     *)
(* message passes from posted to messageQueue, to message_ and to the      *)
(* wire, and Numbered says that all of them together hold consecutive      *)
(* messages; the wire grows by what is in the slot, and this is the next.  *)
(* Delivered says the same of the way in, through recv_queue_ and the      *)
(* cache, where the blank messages between the updates do not count.       *)
(***************************************************************************)
EXTENDS WebSocketClient, SequenceTheorems, TLAPS

USE ClientAssumption

(* The stages in which nothing has been written yet.                       *)
Before == {"resolve", "connect", "handshake", "failed"}

(* How many messages the network thread has taken over.                    *)
Slot  == IF message = NoMessage THEN 0 ELSE 1
Taken == Len(wire) + Slot + Len(messageQueue)

(* The slot, the queue and the posted handlers continue the wire.          *)
Numbered ==
  /\ message # NoMessage => message = Len(wire)
  /\ \A i \in 1 .. Len(messageQueue) : messageQueue[i] = Len(wire) + i
  /\ \A i \in 1 .. Len(posted) : \/ posted[i] = SendOf(Taken + i - 1)
                                 \/ posted[i] = Shutdown /\ i = Len(posted)

(* Until the game shuts down, what it has sent is taken or posted.         *)
SentInOrder ==
  /\ \A i \in 1 .. Len(sent) : sent[i] = i
  /\ Taken <= Len(sent) + 1
  /\ \A i \in 1 .. Len(posted) : posted[i] # Shutdown => Taken + i <= Len(sent) + 1
  /\ pc \in {"input", "update", "cache", "shutdown"} =>
       /\ Len(sent) + 1 = Taken + Len(posted)
       /\ \A i \in 1 .. Len(posted) : posted[i] # Shutdown

(* seq_ counts the frames written and the one being written.               *)
Launched == IF net \in Before \/ message = NoMessage THEN 0 ELSE 1
Counted == /\ seq = FirstSeq + Len(wire) + Launched
           /\ net \in Before => writing = 0

Inv == TypeOK /\ WriteSlot /\ ConsecutiveFrames /\ Numbered /\ SentInOrder /\ Counted

-----------------------------------------------------------------------------
(* Queues.                                                                 *)

(* A sequence after a push at its back.                                    *)
LEMMA AppendFacts ==
  ASSUME NEW S, NEW q \in Seq(S), NEW m \in S
  PROVE  /\ Append(q, m) \in Seq(S)
         /\ Append(q, m) # <<>>
         /\ Len(Append(q, m)) = Len(q) + 1
         /\ \A i \in 1 .. Len(q) : Append(q, m)[i] = q[i]
         /\ Append(q, m)[Len(q) + 1] = m
OBVIOUS

(* A sequence after a pop of its front.                                    *)
LEMMA TailFacts ==
  ASSUME NEW S, NEW q \in Seq(S), q # <<>>
  PROVE  /\ Head(q) \in S /\ Head(q) = q[1]
         /\ Len(q) \in Nat /\ Len(q) >= 1
         /\ Tail(q) \in Seq(S)
         /\ Len(Tail(q)) = Len(q) - 1
         /\ \A i \in 1 .. Len(Tail(q)) : Tail(q)[i] = q[i + 1]
OBVIOUS

(* The empty sequence.                                                     *)
LEMMA EmptySeqIn == ASSUME NEW S PROVE <<>> \in Seq(S)
OBVIOUS

(* A sequence is empty exactly if its length is 0.                         *)
LEMMA EmptyFacts ==
  ASSUME NEW S, NEW q \in Seq(S)
  PROVE  /\ Len(q) \in Nat
         /\ q = <<>> <=> Len(q) = 0
BY EmptySeq

(* The updates of the server are updates.                                  *)
LEMMA InboundFacts ==
  /\ Blank \in Inbound /\ \A n \in 1 .. MaxReceives : Update(n) \in Updates
  /\ Updates \subseteq Inbound /\ NoMessage \notin Inbound
  /\ NoMessage \notin Nat
  /\ \A n \in Nat : SendOf(n) # Shutdown /\ SendOf(n).n = n
<1>1. /\ Blank \in [n : Nat, kind : {"blank", "update"}]
      /\ \A n \in 1 .. MaxReceives : Update(n) \in [n : Nat, kind : {"blank", "update"}]
  BY DEF Blank, Update
<1>2. Inbound \subseteq [n : Nat, kind : {"blank", "update"}]
  BY <1>1 DEF Inbound, Updates
<1>3. NoMessage \notin Nat /\ NoMessage \notin Inbound
  BY <1>2
<1>4. \A n \in Nat : SendOf(n) # Shutdown /\ SendOf(n).n = n
  BY DEF SendOf, Shutdown
<1>5. /\ Blank \in Inbound /\ \A n \in 1 .. MaxReceives : Update(n) \in Updates
      /\ Updates \subseteq Inbound
  BY DEF Inbound, Updates
<1>6. QED BY <1>3, <1>4, <1>5

Posts == {SendOf(n) : n \in 1 .. MaxSends} \cup {Shutdown}

(* The numbers that the counting invariants add are natural numbers.       *)
LEMMA Lengths ==
  ASSUME TypeOK
  PROVE  /\ Len(wire) \in Nat /\ Len(messageQueue) \in Nat /\ Len(posted) \in Nat
         /\ Len(sent) \in Nat /\ Slot \in 0 .. 1 /\ Taken \in Nat
<1>1. Len(wire) \in Nat /\ Len(messageQueue) \in Nat /\ Len(posted) \in Nat /\ Len(sent) \in Nat
  BY EmptyFacts DEF TypeOK
<1>2. QED BY <1>1 DEF Slot, Taken

-----------------------------------------------------------------------------
(* The steps.                                                              *)

(* The program starts in the invariant, with the empty message in the slot *)
(* of the write.                                                           *)
LEMMA InitHolds == Init => Inv
<1> SUFFICES ASSUME Init PROVE Inv
  OBVIOUS
<1>1. TypeOK
  <2>1. posted \in Seq({SendOf(n) : n \in 1 .. MaxSends} \cup {Shutdown})
    BY EmptySeqIn DEF Init
  <2>2. /\ messageQueue \in Seq(1 .. MaxSends) /\ sent \in Seq(1 .. MaxSends)
        /\ recvQueue \in Seq(Inbound) /\ received \in Seq(Updates) /\ applied \in Seq(Inbound)
        /\ wire \in Seq([seq : Nat, msg : 0 .. MaxSends])
    BY EmptySeqIn DEF Init
  <2>3. /\ message \in 0 .. MaxSends \cup {NoMessage} /\ writing \in 0 .. 1 /\ seq \in Nat
        /\ misreadAt \in Nat
    BY DEF Init, Hello
  <2>4. QED BY <2>1, <2>2, <2>3 DEF Init, TypeOK
<1>2. Len(<<>>) = 0
  OBVIOUS
<1>3. Hello # NoMessage
  BY DEF Hello
<1>4. Slot = 1 /\ Taken = 1
  BY <1>2, <1>3 DEF Init, Slot, Taken
<1>5. WriteSlot /\ ConsecutiveFrames
  BY <1>2, <1>3 DEF Init, WriteSlot, ConsecutiveFrames
<1>6. Numbered /\ SentInOrder /\ Counted
  BY <1>2, <1>3, <1>4 DEF Init, Numbered, SentInOrder, Counted, Launched, Before, Hello
<1>7. QED BY <1>1, <1>5, <1>6 DEF Inv

(* A step of the game thread leaves the network's variables alone.         *)
LEMMA WriteKept ==
  ASSUME Inv, UNCHANGED <<net, write>>
  PROVE  /\ WriteSlot' /\ ConsecutiveFrames' /\ Counted'
         /\ Taken' = Taken /\ Slot' = Slot
BY DEF Inv, WriteSlot, ConsecutiveFrames, Counted, Launched, Taken, Slot, write

(* web::Client::send of the game thread: the message is numbered, recorded *)
(* and posted.                                                             *)
LEMMA SendStep == Inv /\ Send => Inv'
<1> SUFFICES ASSUME Inv, Send PROVE Inv'
  OBVIOUS
<1> DEFINE n == Len(sent) + 1
<1>0. TypeOK /\ Len(sent) \in Nat /\ Len(posted) \in Nat /\ Taken \in Nat
  BY Lengths DEF Inv
<1>1. n \in 1 .. MaxSends /\ pc \in {"input", "update"}
  BY <1>0 DEF Send
<1>2. sent \in Seq(1 .. MaxSends) /\ posted \in Seq(Posts) /\ SendOf(n) \in Posts
  BY <1>0, <1>1 DEF TypeOK, Posts
<1>3. sent' = Append(sent, n) /\ posted' = Append(posted, SendOf(n))
  BY DEF Send
<1>4. UNCHANGED <<game, ioc, net, write, read>>
  BY DEF Send
<1>5. /\ sent' \in Seq(1 .. MaxSends) /\ Len(sent') = Len(sent) + 1
      /\ \A i \in 1 .. Len(sent) : sent'[i] = sent[i]
      /\ sent'[Len(sent) + 1] = n
  BY <1>1, <1>2, <1>3, AppendFacts
<1>6. /\ posted' \in Seq(Posts) /\ Len(posted') = Len(posted) + 1
      /\ \A i \in 1 .. Len(posted) : posted'[i] = posted[i]
      /\ posted'[Len(posted) + 1] = SendOf(n)
  BY <1>2, <1>3, AppendFacts
<1>7. TypeOK'
  BY <1>0, <1>4, <1>5, <1>6 DEF TypeOK, game, write, read, Posts
<1>8. WriteSlot' /\ ConsecutiveFrames' /\ Counted' /\ Taken' = Taken
  BY <1>4, WriteKept
<1>9. /\ Len(sent) + 1 = Taken + Len(posted)
      /\ \A i \in 1 .. Len(posted) : posted[i] # Shutdown
  BY <1>1 DEF Inv, SentInOrder
<1> HIDE DEF n
<1>10. n = Taken + (Len(posted) + 1) - 1
  BY <1>0, <1>9 DEF n
<1>11. Numbered'
  <2>1. \A i \in 1 .. Len(posted') : posted'[i] = SendOf(Taken + i - 1)
    BY <1>0, <1>6, <1>9, <1>10 DEF Inv, Numbered
  <2>2. UNCHANGED <<message, messageQueue, wire>>
    BY <1>4 DEF write
  <2>3. QED BY <1>8, <2>1, <2>2 DEF Inv, Numbered
<1>12. SentInOrder'
  <2>1. \A i \in 1 .. Len(sent') : sent'[i] = i
    BY <1>0, <1>5 DEF Inv, SentInOrder, n
  <2>2. \A i \in 1 .. Len(posted') : posted'[i] # Shutdown
    BY <1>0, <1>1, <1>6, <1>9, InboundFacts
  <2>3. QED BY <1>0, <1>5, <1>6, <1>8, <1>9, <2>1, <2>2 DEF SentInOrder
<1>13. QED BY <1>7, <1>8, <1>11, <1>12 DEF Inv

(* The steps of the game thread that send nothing and post nothing.        *)
LEMMA LoopStep ==
  Inv /\ (ParseInput \/ ApplyUpdate \/ CacheOne \/ CacheNone \/ Join) => Inv'
<1> SUFFICES ASSUME Inv, ParseInput \/ ApplyUpdate \/ CacheOne \/ CacheNone \/ Join PROVE Inv'
  OBVIOUS
<1>1. UNCHANGED <<posted, sent, ioc, net, write, reading, received>>
  BY DEF ParseInput, ApplyUpdate, CacheOne, CacheNone, Join, read
<1>2. WriteSlot' /\ ConsecutiveFrames' /\ Counted' /\ Taken' = Taken
  BY <1>1, WriteKept
<1>3. Numbered'
  BY <1>1, <1>2 DEF Inv, Numbered, write
<1>4. pc' \in {"input", "update", "cache", "shutdown"}
        => pc \in {"input", "update", "cache", "shutdown"}
  BY DEF ParseInput, ApplyUpdate, CacheOne, CacheNone, Join, EndOfLoop
<1>5. SentInOrder'
  BY <1>1, <1>2, <1>4 DEF Inv, SentInOrder
<1>6. TypeOK'
  <2>1. TypeOK
    BY DEF Inv
  <2>2. CASE ParseInput
    BY <2>1, <2>2 DEF TypeOK, ParseInput, write, read
  <2>3. CASE ApplyUpdate
    <3>1. cache # NoMessage => Append(applied, cache) \in Seq(Inbound)
      BY <2>1, AppendFacts DEF TypeOK
    <3>2. QED BY <2>1, <2>3, <3>1 DEF TypeOK, ApplyUpdate, Consumed, write, read
  <2>4. CASE CacheOne
    <3>1. Head(recvQueue) \in Inbound /\ Tail(recvQueue) \in Seq(Inbound)
      BY <2>1, <2>4, TailFacts DEF TypeOK, CacheOne
    <3>2. QED BY <2>1, <2>4, <3>1 DEF TypeOK, CacheOne, EndOfLoop, write
  <2>5. CASE CacheNone
    <3>1. applied # <<>> => applied[Len(applied)] \in Inbound
      BY <2>1 DEF TypeOK
    <3>2. Len(applied) + 1 \in Nat
      BY <2>1 DEF TypeOK
    <3>3. /\ cache' \in Inbound \cup {NoMessage}
          /\ misreadAt' \in Nat
          /\ pc' \in {"input", "shutdown", "crashed"}
      BY <2>1, <2>5, <3>1, <3>2 DEF TypeOK, CacheNone, EndOfLoop
    <3>4. QED BY <2>1, <2>5, <3>3 DEF TypeOK, CacheNone, write, read
  <2>6. CASE Join
    BY <2>1, <2>6 DEF TypeOK, Join, write, read
  <2>7. QED BY <2>2, <2>3, <2>4, <2>5, <2>6
<1>7. QED BY <1>2, <1>3, <1>5, <1>6 DEF Inv

(* Nothing is sent after the shutdown is posted.                           *)
LEMMA QueueShutdownStep == Inv /\ QueueShutdown => Inv'
<1> SUFFICES ASSUME Inv, QueueShutdown PROVE Inv'
  OBVIOUS
<1>0. TypeOK /\ Len(posted) \in Nat /\ Taken \in Nat /\ Len(sent) \in Nat
  BY Lengths DEF Inv
<1>1. UNCHANGED <<sent, ioc, net, write, read>>
  BY DEF QueueShutdown
<1>2. posted \in Seq(Posts) /\ Shutdown \in Posts /\ posted' = Append(posted, Shutdown)
  BY <1>0 DEF TypeOK, Posts, QueueShutdown
<1>3. /\ posted' \in Seq(Posts) /\ Len(posted') = Len(posted) + 1
      /\ \A i \in 1 .. Len(posted) : posted'[i] = posted[i]
      /\ posted'[Len(posted) + 1] = Shutdown
  BY <1>2, AppendFacts
<1>4. TypeOK'
  BY <1>0, <1>1, <1>3 DEF TypeOK, Posts, QueueShutdown, write, read
<1>5. WriteSlot' /\ ConsecutiveFrames' /\ Counted' /\ Taken' = Taken
  BY <1>1, WriteKept
<1>6. /\ Len(sent) + 1 = Taken + Len(posted)
      /\ \A i \in 1 .. Len(posted) : posted[i] # Shutdown
  BY DEF Inv, SentInOrder, QueueShutdown
<1>7. Numbered'
  <2>1. \A i \in 1 .. Len(posted) : posted'[i] = SendOf(Taken + i - 1)
    BY <1>3, <1>6 DEF Inv, Numbered
  <2>2. UNCHANGED <<message, messageQueue, wire>>
    BY <1>1 DEF write
  <2>3. \A i \in 1 .. Len(posted') : \/ posted'[i] = SendOf(Taken + i - 1)
                                     \/ posted'[i] = Shutdown /\ i = Len(posted')
    BY <1>0, <1>3, <2>1
  <2>4. QED BY <1>5, <2>2, <2>3 DEF Inv, Numbered
<1>8. SentInOrder'
  BY <1>0, <1>1, <1>3, <1>5, <1>6 DEF Inv, SentInOrder, QueueShutdown
<1>9. QED BY <1>4, <1>5, <1>7, <1>8 DEF Inv

(* Where the connection goes next, and what is read, has no part in what   *)
(* is written, before the handshake and after.                             *)
LEMMA NetworkStep ==
  Inv /\ (OnStage \/ LoseLink \/ OnRead \/ OnReadFailed \/ RunReturns) => Inv'
<1> SUFFICES ASSUME Inv, OnStage \/ LoseLink \/ OnRead \/ OnReadFailed \/ RunReturns PROVE Inv'
  OBVIOUS
<1>1. UNCHANGED <<pc, open, cache, applied, misreadAt, posted, sent, message, messageQueue,
                  writing, seq, wire>>
  BY DEF OnStage, LoseLink, OnRead, OnReadFailed, RunReturns, game, write
<1>2. net' \in Before <=> net \in Before
  BY DEF OnStage, LoseLink, OnRead, OnReadFailed, RunReturns, Before
<1>3. Taken' = Taken
  BY <1>1 DEF Taken, Slot
<1>4. net' = "open" => net = "open"
  BY DEF OnStage, LoseLink, OnRead, OnReadFailed, RunReturns
<1>5. WriteSlot' /\ ConsecutiveFrames' /\ Numbered' /\ SentInOrder' /\ Counted'
  <2>1. WriteSlot'
    BY <1>1, <1>2, <1>4 DEF Inv, WriteSlot, Before
  <2>2. ConsecutiveFrames' /\ Numbered' /\ SentInOrder'
    BY <1>1, <1>3 DEF Inv, ConsecutiveFrames, Numbered, SentInOrder
  <2>3. Counted'
    BY <1>1, <1>2 DEF Inv, Counted, Launched
  <2>4. QED BY <2>1, <2>2, <2>3
<1>6. /\ ioc' \in {"running", "returned"}
      /\ net' \in {"resolve", "connect", "handshake", "open", "lost", "closed", "failed"}
      /\ reading' \in BOOLEAN
  BY DEF Inv, TypeOK, OnStage, LoseLink, OnRead, OnReadFailed, RunReturns, read
<1>7. recvQueue' \in Seq(Inbound) /\ received' \in Seq(Updates)
  <2>1. recvQueue \in Seq(Inbound) /\ received \in Seq(Updates) /\ Len(received) \in Nat
    BY DEF Inv, TypeOK
  <2>2. CASE OnRead
    <3>1. CASE recvQueue' = Append(recvQueue, Blank) /\ received' = received
      BY <2>1, <3>1, InboundFacts, AppendFacts
    <3>2. CASE /\ Len(received) < MaxReceives
               /\ received' = Append(received, Update(Len(received) + 1))
               /\ recvQueue' = Append(recvQueue, Update(Len(received) + 1))
      <4>1. Update(Len(received) + 1) \in Updates /\ Update(Len(received) + 1) \in Inbound
        BY <2>1, <3>2, InboundFacts
      <4>2. QED BY <2>1, <3>2, <4>1, AppendFacts
    <3>3. QED BY <2>2, <3>1, <3>2 DEF OnRead
  <2>3. CASE ~OnRead
    BY <2>1, <2>3 DEF OnStage, LoseLink, OnReadFailed, RunReturns, read
  <2>4. QED BY <2>2, <2>3
<1>8. TypeOK'
  BY <1>1, <1>6, <1>7 DEF Inv, TypeOK
<1>9. QED BY <1>5, <1>8 DEF Inv

(* The handshake is over: the write of the first message starts.           *)
LEMMA OnHandshakeStep == Inv /\ OnHandshake => Inv'
<1> SUFFICES ASSUME Inv, OnHandshake PROVE Inv'
  OBVIOUS
<1>0. UNCHANGED <<pc, open, cache, applied, misreadAt, posted, sent, ioc, message, messageQueue,
                  wire, recvQueue, received>>
  BY DEF OnHandshake, LaunchWrite, game
<1>1. net = "handshake" /\ net \in Before /\ message = Hello /\ message # NoMessage
  BY InboundFacts DEF OnHandshake, Before, Inv, WriteSlot, Hello
<1>2. writing = 0 /\ seq = FirstSeq + Len(wire)
  BY <1>1, Lengths DEF Inv, Counted, Launched
<1>3. Taken' = Taken
  BY <1>0 DEF Taken, Slot
<1>4. ConsecutiveFrames' /\ Numbered' /\ SentInOrder'
  BY <1>0, <1>3 DEF Inv, ConsecutiveFrames, Numbered, SentInOrder
<1>5. CASE net' = "open"
  <2>1. writing' = 1 /\ seq' = seq + 1 /\ reading' \in BOOLEAN
    BY <1>2, <1>5 DEF OnHandshake, LaunchWrite
  <2>2. WriteSlot'
    BY <1>0, <1>1, <1>5, <2>1 DEF WriteSlot
  <2>3. Counted'
    BY <1>0, <1>1, <1>2, <1>5, <2>1, Lengths DEF Counted, Launched, Before, Inv
  <2>4. TypeOK'
    BY <1>0, <1>5, <2>1 DEF Inv, TypeOK
  <2>5. QED BY <1>4, <2>2, <2>3, <2>4 DEF Inv
<1>6. CASE net' # "open"
  <2>1. net' = "failed" /\ UNCHANGED <<writing, seq, reading>>
    BY <1>6 DEF OnHandshake
  <2>2. WriteSlot' /\ Counted'
    BY <1>0, <1>1, <1>2, <2>1 DEF Inv, WriteSlot, Counted, Launched, Before
  <2>3. TypeOK'
    BY <1>0, <2>1 DEF Inv, TypeOK
  <2>4. QED BY <1>4, <2>2, <2>3 DEF Inv
<1>7. QED BY <1>5, <1>6

(* A posted send runs: its message is the next to be taken, and goes into  *)
(* the slot if this is free, behind the others if not.                     *)
LEMMA RunSendStep == Inv /\ RunSend => Inv'
<1> SUFFICES ASSUME Inv, RunSend PROVE Inv'
  OBVIOUS
<1>0. TypeOK /\ Slot \in 0 .. 1 /\ Taken \in Nat /\ Len(wire) \in Nat /\ Len(sent) \in Nat
      /\ Len(messageQueue) \in Nat
  BY Lengths DEF Inv
<1>1. UNCHANGED <<pc, open, cache, applied, misreadAt, sent, ioc, net, wire, reading, recvQueue,
                  received>>
  BY DEF RunSend, LaunchWrite, game, read
<1>2. posted \in Seq(Posts) /\ posted # <<>>
  BY <1>0 DEF TypeOK, Posts, RunSend
<1>3. /\ posted[1] = Head(posted) /\ Head(posted) \in Posts
      /\ posted' \in Seq(Posts) /\ Len(posted) \in Nat /\ Len(posted) >= 1
      /\ Len(posted') = Len(posted) - 1
      /\ \A i \in 1 .. Len(posted') : posted'[i] = posted[i + 1]
  BY <1>2, TailFacts DEF RunSend
<1>4. Head(posted) = SendOf(Taken)
  <2>1. posted[1] # Shutdown
    BY <1>3 DEF RunSend
  <2>2. posted[1] = SendOf(Taken + 1 - 1)
    BY <1>3, <2>1 DEF Inv, Numbered
  <2>3. QED BY <1>0, <1>3, <2>2
<1>5. Head(posted).n = Taken /\ Taken \in 1 .. MaxSends
  <2>1. PICK k \in 1 .. MaxSends : Head(posted) = SendOf(k)
    BY <1>3 DEF Posts, RunSend
  <2>2. QED BY <1>0, <1>4, <2>1, InboundFacts
<1>6. ASSUME Taken' = Taken + 1
      PROVE  \A i \in 1 .. Len(posted') : \/ posted'[i] = SendOf(Taken' + i - 1)
                                          \/ posted'[i] = Shutdown /\ i = Len(posted')
  <2>1. \A i \in 1 .. Len(posted') : i + 1 \in 1 .. Len(posted)
    BY <1>3
  <2>2. \A i \in 1 .. Len(posted') : \/ posted'[i] = SendOf(Taken + (i + 1) - 1)
                                     \/ posted'[i] = Shutdown /\ i + 1 = Len(posted)
    BY <1>3, <2>1 DEF Inv, Numbered
  <2>3. TAKE i \in 1 .. Len(posted')
  <2>4. Taken + (i + 1) - 1 = Taken' + i - 1 /\ (i + 1 = Len(posted) => i = Len(posted'))
    BY <1>0, <1>3, <1>6
  <2>5. SendOf(Taken + (i + 1) - 1) = SendOf(Taken' + i - 1)
    BY <2>4, Zenon
  <2>6. QED BY <2>2, <2>4, <2>5
<1>7. Taken' = Taken + 1 => SentInOrder'
  <2> SUFFICES ASSUME Taken' = Taken + 1 PROVE SentInOrder'
    OBVIOUS
  <2>1. /\ \A i \in 1 .. Len(posted) : posted[i] # Shutdown => Taken + i <= Len(sent) + 1
        /\ posted[1] # Shutdown
    BY <1>3 DEF Inv, SentInOrder, RunSend
  <2>2. Taken + 1 <= Len(sent) + 1
    BY <1>0, <1>3, <2>1
  <2>3. \A i \in 1 .. Len(posted') : posted'[i] # Shutdown => Taken' + i <= Len(sent) + 1
    <3>1. TAKE i \in 1 .. Len(posted')
    <3>2. i + 1 \in 1 .. Len(posted) /\ posted'[i] = posted[i + 1]
      BY <1>3
    <3>3. posted'[i] # Shutdown => Taken + (i + 1) <= Len(sent) + 1
      BY <2>1, <3>2
    <3>4. QED BY <1>0, <3>3
  <2>4. pc \in {"input", "update", "cache", "shutdown"} =>
          /\ Len(sent) + 1 = Taken' + Len(posted')
          /\ \A i \in 1 .. Len(posted') : posted'[i] # Shutdown
    <3>1. ASSUME pc \in {"input", "update", "cache", "shutdown"}
          PROVE  /\ Len(sent) + 1 = Taken + Len(posted)
                 /\ \A i \in 1 .. Len(posted) : posted[i] # Shutdown
      BY <3>1 DEF Inv, SentInOrder
    <3>2. \A i \in 1 .. Len(posted') : i + 1 \in 1 .. Len(posted) /\ posted'[i] = posted[i + 1]
      BY <1>3
    <3>3. QED BY <1>0, <1>3, <3>1, <3>2
  <2>5. QED BY <1>1, <2>2, <2>3, <2>4 DEF Inv, SentInOrder
<1>8. CASE Idle
  <2>1. message = NoMessage /\ messageQueue = <<>> /\ net \notin Before /\ writing = 0
    BY <1>0, <1>8, InboundFacts DEF Idle, Inv, WriteSlot, Before, Hello, TypeOK
  <2>2. Slot = 0 /\ Len(messageQueue) = 0 /\ Taken = Len(wire)
    BY <1>0, <2>1 DEF Slot, Taken
  <2>3. Head(Append(messageQueue, Taken)) = Taken /\ Tail(Append(messageQueue, Taken)) = <<>>
    BY <2>1
  <2>4. message' = Len(wire) /\ messageQueue' = <<>> /\ writing' = 1 /\ seq' = seq + 1
    BY <1>5, <1>8, <2>1, <2>2, <2>3 DEF RunSend, LaunchWrite, Idle
  <2>5. message' # NoMessage /\ Slot' = 1 /\ Len(messageQueue') = 0
    BY <1>0, <2>4, InboundFacts DEF Slot
  <2>6. Taken' = Taken + 1
    BY <1>0, <1>1, <2>2, <2>5 DEF Taken
  <2>7. WriteSlot' /\ ConsecutiveFrames'
    BY <1>1, <2>1, <2>4, <2>5 DEF Inv, WriteSlot, ConsecutiveFrames, Before
  <2>8. Numbered'
    BY <1>1, <1>6, <2>4, <2>5, <2>6 DEF Numbered
  <2>9. Counted'
    BY <1>0, <1>1, <2>1, <2>4, <2>5 DEF Inv, TypeOK, Counted, Launched
  <2>10. TypeOK'
    <3>1. message' \in 0 .. MaxSends /\ writing' \in 0 .. 1 /\ seq' \in Nat
          /\ messageQueue' \in Seq(1 .. MaxSends)
      BY <1>0, <1>5, <2>2, <2>4, EmptySeqIn DEF TypeOK
    <3>2. QED BY <1>0, <1>1, <1>3, <3>1 DEF TypeOK, Posts
  <2>11. QED BY <1>7, <2>6, <2>7, <2>8, <2>9, <2>10 DEF Inv
<1>9. CASE ~Idle
  <2>1. message # NoMessage /\ UNCHANGED <<message, writing, seq>>
        /\ messageQueue' = Append(messageQueue, Taken)
    BY <1>5, <1>9 DEF Idle, RunSend
  <2>2. /\ messageQueue' \in Seq(1 .. MaxSends) /\ Len(messageQueue') = Len(messageQueue) + 1
        /\ \A i \in 1 .. Len(messageQueue) : messageQueue'[i] = messageQueue[i]
        /\ messageQueue'[Len(messageQueue) + 1] = Taken
    BY <1>0, <1>5, <2>1, AppendFacts DEF TypeOK
  <2>3. Slot = 1 /\ Slot' = 1 /\ Taken = Len(wire) + Len(messageQueue) + 1 /\ Taken' = Taken + 1
    BY <1>0, <1>1, <2>1, <2>2 DEF Slot, Taken
  <2>4. WriteSlot' /\ ConsecutiveFrames' /\ Counted'
    BY <1>1, <2>1 DEF Inv, WriteSlot, ConsecutiveFrames, Counted, Launched
  <2>5. \A i \in 1 .. Len(messageQueue') : messageQueue'[i] = Len(wire) + i
    <3>1. TAKE i \in 1 .. Len(messageQueue')
    <3>2. CASE i \in 1 .. Len(messageQueue)
      BY <2>2, <3>2 DEF Inv, Numbered
    <3>3. CASE i = Len(messageQueue) + 1
      BY <1>0, <2>2, <2>3, <3>3
    <3>4. QED BY <1>0, <2>2, <3>2, <3>3
  <2>6. Numbered'
    BY <1>1, <1>6, <2>1, <2>3, <2>5 DEF Inv, Numbered
  <2>7. TypeOK'
    BY <1>0, <1>1, <1>3, <2>1, <2>2 DEF TypeOK, Posts
  <2>8. QED BY <1>7, <2>3, <2>4, <2>6, <2>7 DEF Inv
<1>10. QED BY <1>8, <1>9

(* The shutdown runs; it was posted last.                                  *)
LEMMA RunShutdownStep == Inv /\ RunShutdown => Inv'
<1> SUFFICES ASSUME Inv, RunShutdown PROVE Inv'
  OBVIOUS
<1>0. TypeOK /\ Taken \in Nat
  BY Lengths DEF Inv
<1>1. UNCHANGED <<pc, open, cache, applied, misreadAt, sent, message, messageQueue, writing, seq,
                  wire, reading, recvQueue, received>>
  BY DEF RunShutdown, game, write, read
<1>2. /\ posted[1] = Shutdown /\ posted' \in Seq(Posts) /\ Len(posted) \in Nat
      /\ Len(posted) >= 1 /\ Len(posted') = Len(posted) - 1
  <2>1. posted \in Seq(Posts) /\ posted # <<>>
    BY <1>0 DEF TypeOK, Posts, RunShutdown
  <2>2. QED BY <2>1, TailFacts DEF RunShutdown
<1>3. Len(posted) = 1
  <2>1. \/ posted[1] = SendOf(Taken + 1 - 1)
        \/ posted[1] = Shutdown /\ 1 = Len(posted)
    BY <1>2 DEF Inv, Numbered
  <2>2. Taken + 1 - 1 \in Nat
    BY <1>0
  <2>3. QED BY <1>2, <2>1, <2>2, InboundFacts
<1>4. Len(posted') = 0 /\ Taken' = Taken
  BY <1>1, <1>2, <1>3 DEF Taken, Slot
<1>5. pc \notin {"input", "update", "cache", "shutdown"}
  BY <1>2 DEF Inv, SentInOrder
<1>6. Numbered' /\ SentInOrder' /\ ConsecutiveFrames'
  BY <1>1, <1>4, <1>5 DEF Inv, Numbered, SentInOrder, ConsecutiveFrames
<1>7. /\ net' \in Before <=> net \in Before
      /\ net' = "open" => net = "open"
      /\ ioc' = "returned"
      /\ net' \in {"resolve", "connect", "handshake", "open", "lost", "closed", "failed"}
  BY <1>0 DEF RunShutdown, Before, Stopped, TypeOK
<1>8. WriteSlot' /\ Counted'
  BY <1>1, <1>7 DEF Inv, WriteSlot, Counted, Launched, Before
<1>9. TypeOK'
  BY <1>0, <1>1, <1>2, <1>7 DEF TypeOK, Posts
<1>10. QED BY <1>6, <1>8, <1>9 DEF Inv

(* A write has finished: what was in the slot is the next on the wire.     *)
LEMMA OnWriteStep == Inv /\ OnWrite => Inv'
<1> SUFFICES ASSUME Inv, OnWrite PROVE Inv'
  OBVIOUS
<1>0. TypeOK /\ Taken \in Nat /\ Len(wire) \in Nat /\ Len(messageQueue) \in Nat
  BY Lengths DEF Inv
<1>1. UNCHANGED <<pc, open, cache, applied, misreadAt, posted, sent, ioc, net, reading, recvQueue,
                  received>>
  BY DEF OnWrite, game, read
<1>2. net = "open" /\ writing = 1 /\ message = Len(wire) /\ net \notin Before
  BY <1>0 DEF OnWrite, TypeOK, Inv, WriteSlot, Numbered, Before
<1>3. message # NoMessage /\ message \in 0 .. MaxSends
  BY <1>0, <1>2, InboundFacts DEF TypeOK
<1>4. seq = FirstSeq + Len(wire) + 1 /\ Slot = 1
  BY <1>0, <1>2, <1>3 DEF Inv, Counted, Launched, Slot
<1> DEFINE frame == [seq |-> FirstSeq + Len(wire), msg |-> Len(wire)]
<1>5. wire' = Append(wire, frame) /\ frame \in [seq : Nat, msg : 0 .. MaxSends]
  BY <1>0, <1>2, <1>3, <1>4 DEF OnWrite
<1>6. /\ wire' \in Seq([seq : Nat, msg : 0 .. MaxSends]) /\ Len(wire') = Len(wire) + 1
      /\ \A i \in 1 .. Len(wire) : wire'[i] = wire[i]
      /\ wire'[Len(wire) + 1] = frame
  BY <1>0, <1>5, AppendFacts DEF TypeOK
<1>7. ConsecutiveFrames'
  <2>1. \A i \in 1 .. Len(wire) : wire'[i] = [seq |-> FirstSeq + i - 1, msg |-> i - 1]
    BY <1>6 DEF Inv, ConsecutiveFrames
  <2>2. frame = [seq |-> FirstSeq + (Len(wire) + 1) - 1, msg |-> (Len(wire) + 1) - 1]
    BY <1>0
  <2> HIDE DEF frame
  <2>3. \A i \in 1 .. Len(wire') : wire'[i] = [seq |-> FirstSeq + i - 1, msg |-> i - 1]
    <3>1. TAKE i \in 1 .. Len(wire')
    <3>2. i \in 1 .. Len(wire) \/ i = Len(wire) + 1
      BY <1>0, <1>6
    <3>3. CASE i \in 1 .. Len(wire)
      BY <1>6, <2>1, <3>3
    <3>4. CASE i = Len(wire) + 1
      BY <1>6, <2>2, <3>4
    <3>5. QED BY <3>2, <3>3, <3>4
  <2>4. QED BY <2>3 DEF ConsecutiveFrames
<1> HIDE DEF frame
<1>8. Taken' = Taken => SentInOrder'
  BY <1>1 DEF Inv, SentInOrder
<1>9. CASE MoreToWrite
  <2>1. /\ message' = messageQueue[1] /\ messageQueue' \in Seq(1 .. MaxSends)
        /\ message' \in 1 .. MaxSends
        /\ Len(messageQueue) >= 1 /\ Len(messageQueue') = Len(messageQueue) - 1
        /\ \A i \in 1 .. Len(messageQueue') : messageQueue'[i] = messageQueue[i + 1]
    <3>1. messageQueue \in Seq(1 .. MaxSends) /\ messageQueue # <<>>
      BY <1>0, <1>9 DEF MoreToWrite, TypeOK
    <3>2. message' = Head(messageQueue) /\ messageQueue' = Tail(messageQueue)
      BY <1>9 DEF OnWrite, MoreToWrite
    <3>3. QED BY <3>1, <3>2, TailFacts
  <2>2. seq' = seq + 1 /\ writing' = 1
    BY <1>2, <1>9 DEF OnWrite
  <2>3. message' = Len(wire') /\ message' # NoMessage /\ Slot' = 1
    BY <1>0, <1>6, <2>1, InboundFacts DEF Inv, Numbered, Slot
  <2>4. Taken' = Taken
    BY <1>0, <1>4, <1>6, <2>1, <2>3 DEF Taken
  <2>5. WriteSlot'
    BY <1>1, <1>2, <2>2, <2>3 DEF WriteSlot, Before
  <2>6. \A i \in 1 .. Len(messageQueue') : messageQueue'[i] = Len(wire') + i
    <3>1. TAKE i \in 1 .. Len(messageQueue')
    <3>2. i + 1 \in 1 .. Len(messageQueue) /\ messageQueue'[i] = messageQueue[i + 1]
      BY <1>0, <2>1
    <3>3. messageQueue[i + 1] = Len(wire) + (i + 1)
      BY <3>2 DEF Inv, Numbered
    <3>4. QED BY <1>0, <1>6, <2>1, <3>2, <3>3
  <2>7. Numbered'
    BY <1>1, <2>3, <2>4, <2>6 DEF Inv, Numbered
  <2>8. Counted'
    BY <1>0, <1>1, <1>2, <1>4, <1>6, <2>2, <2>3 DEF Counted, Launched
  <2>9. TypeOK'
    BY <1>0, <1>1, <1>6, <2>1, <2>2 DEF TypeOK
  <2>10. QED BY <1>7, <1>8, <2>4, <2>5, <2>7, <2>8, <2>9 DEF Inv
<1>10. CASE ~MoreToWrite
  <2>1. messageQueue = <<>> /\ message' = NoMessage /\ writing' = 0
        /\ UNCHANGED <<messageQueue, seq>>
    BY <1>2, <1>10 DEF OnWrite, MoreToWrite
  <2>2. Len(messageQueue) = 0 /\ Slot' = 0
    BY <2>1 DEF Slot
  <2>3. Taken' = Taken
    BY <1>0, <1>4, <1>6, <2>1, <2>2 DEF Taken
  <2>4. WriteSlot'
    BY <1>1, <1>2, <2>1 DEF WriteSlot, Before
  <2>5. Numbered'
    BY <1>1, <2>1, <2>2, <2>3 DEF Inv, Numbered
  <2>6. Counted'
    BY <1>0, <1>1, <1>2, <1>4, <1>6, <2>1 DEF Counted, Launched
  <2>7. TypeOK'
    BY <1>0, <1>1, <1>6, <2>1 DEF TypeOK
  <2>8. QED BY <1>7, <1>8, <2>3, <2>4, <2>5, <2>6, <2>7 DEF Inv
<1>11. QED BY <1>9, <1>10

(* A write has failed, on a connection that is not open any more.          *)
LEMMA OnWriteFailedStep == Inv /\ OnWriteFailed => Inv'
<1> SUFFICES ASSUME Inv, OnWriteFailed PROVE Inv'
  OBVIOUS
<1>1. UNCHANGED <<pc, open, cache, applied, misreadAt, posted, sent, ioc, net, message,
                  messageQueue, seq, wire, reading, recvQueue, received>>
  BY DEF OnWriteFailed, game, read
<1>2. net = "lost" /\ writing' = 0
  BY DEF OnWriteFailed, Inv, TypeOK
<1>3. WriteSlot'
  BY <1>1, <1>2 DEF Inv, WriteSlot
<1>4. Taken' = Taken /\ Launched' = Launched
  BY <1>1 DEF Taken, Slot, Launched
<1>5. ConsecutiveFrames' /\ Numbered' /\ SentInOrder' /\ Counted'
  BY <1>1, <1>2, <1>4 DEF Inv, ConsecutiveFrames, Numbered, SentInOrder, Counted
<1>6. TypeOK'
  BY <1>1, <1>2 DEF Inv, TypeOK
<1>7. QED BY <1>3, <1>5, <1>6 DEF Inv

(* Every step of either thread keeps the invariant.                        *)
LEMMA NextHolds == Inv /\ [Next]_vars => Inv'
<1> SUFFICES ASSUME Inv, [Next]_vars PROVE Inv'
  OBVIOUS
<1>1. CASE Game
  BY <1>1, SendStep, LoopStep, QueueShutdownStep DEF Game
<1>2. CASE Network
  BY <1>2, NetworkStep, OnHandshakeStep, RunSendStep, RunShutdownStep, OnWriteStep,
     OnWriteFailedStep DEF Network
<1>3. CASE LoseLink
  BY <1>3, NetworkStep
<1>4. CASE UNCHANGED vars
  <2>1. UNCHANGED <<pc, open, cache, posted, ioc, net, message, messageQueue, writing, reading,
                    seq, recvQueue, sent, wire, received, applied, misreadAt>>
    BY <1>4 DEF vars, game, write, read
  <2>2. TypeOK' /\ WriteSlot' /\ ConsecutiveFrames'
    BY <2>1 DEF Inv, TypeOK, WriteSlot, ConsecutiveFrames
  <2>3. Taken' = Taken /\ Launched' = Launched
    BY <2>1 DEF Taken, Slot, Launched
  <2>4. Numbered' /\ SentInOrder' /\ Counted'
    BY <2>1, <2>3 DEF Inv, Numbered, SentInOrder, Counted
  <2>5. QED BY <2>2, <2>4 DEF Inv
<1>5. QED BY <1>1, <1>2, <1>3, <1>4 DEF Next

(* The invariant holds always.                                             *)
LEMMA InvHolds == Spec => []Inv
BY InitHolds, NextHolds, PTL DEF Spec

-----------------------------------------------------------------------------
(* The theorems.                                                           *)

(* Every variable keeps its type; a write is outstanding at most once, and *)
(* MaxSends and MaxReceives are the only bounds (client.hpp:48-72).        *)
THEOREM TypeCorrect == Spec => []TypeOK
BY InvHolds, PTL DEF Inv

(* message_ is the slot of the one write, in every stage of the connection *)
(* (client.cpp:73-101 and 201-214).                                        *)
THEOREM OneWriteAtATime == Spec => []WriteSlot
BY InvHolds, PTL DEF Inv

(* Frames carry the messages in their order and consecutive numbers, from  *)
(* the empty message on (client.cpp:154-159, format_message).              *)
THEOREM NumberedInOrder == Spec => []ConsecutiveFrames
BY InvHolds, PTL DEF Inv

-----------------------------------------------------------------------------
(* The refinement of Fifo.                                                 *)

(* What has arrived when w is on the wire.                                 *)
ArrivedOf(w) == [i \in 1 .. (IF w = <<>> THEN 0 ELSE Len(w) - 1) |-> w[i + 1].msg]

(* It is the sequence of the first messages.                               *)
LEMMA ArrivedIs ==
  ASSUME NEW w \in Seq([seq : Nat, msg : 0 .. MaxSends]), \A i \in 1 .. Len(w) : w[i].msg = i - 1
  PROVE  /\ ArrivedOf(w) \in Seq(Nat)
         /\ Len(ArrivedOf(w)) = IF Len(w) = 0 THEN 0 ELSE Len(w) - 1
         /\ \A i \in 1 .. Len(ArrivedOf(w)) : ArrivedOf(w)[i] = i
<1> DEFINE n == IF Len(w) = 0 THEN 0 ELSE Len(w) - 1
<1>1. Len(w) \in Nat /\ (w = <<>> <=> Len(w) = 0) /\ n \in Nat
  BY EmptyFacts
<1>2. \A i \in 1 .. n : w[i + 1].msg = i
  <2>1. \A i \in 1 .. n : i + 1 \in 1 .. Len(w) /\ (i + 1) - 1 = i
    BY <1>1
  <2>2. QED BY <2>1
<1>3. ArrivedOf(w) = [i \in 1 .. n |-> w[i + 1].msg]
  BY <1>1 DEF ArrivedOf
<1> HIDE DEF n
<1>4. ArrivedOf(w) = [i \in 1 .. n |-> i]
  BY <1>2, <1>3
<1>5. QED BY <1>1, <1>4 DEF n

(* What ConsecutiveFrames says of the messages alone.                      *)
LEMMA FrameMessages ==
  ASSUME NEW w, \A i \in 1 .. Len(w) : w[i] = [seq |-> FirstSeq + i - 1, msg |-> i - 1]
  PROVE  \A i \in 1 .. Len(w) : w[i].msg = i - 1
<1>1. TAKE i \in 1 .. Len(w)
<1>2. w[i] = [seq |-> FirstSeq + i - 1, msg |-> i - 1]
  OBVIOUS
<1>3. QED BY <1>2

(* A sequence is the longer by its last element.                           *)
LEMMA Longer ==
  ASSUME NEW s \in Seq(Nat), NEW r \in Seq(Nat), Len(r) = Len(s) + 1,
         \A i \in 1 .. Len(s) : r[i] = s[i]
  PROVE  r = Append(s, r[Len(r)])
<1>1. r[Len(r)] \in Nat /\ Append(s, r[Len(r)]) \in Seq(Nat)
  OBVIOUS
<1>2. Len(Append(s, r[Len(r)])) = Len(r)
  OBVIOUS
<1>3. \A i \in 1 .. Len(r) : r[i] = Append(s, r[Len(r)])[i]
  BY <1>1
<1>4. QED BY <1>1, <1>2, <1>3, SeqEqual

(* The wire is empty at first, and so is what has arrived.                 *)
LEMMA OutgoingInit == Init => Outgoing!Init
<1> SUFFICES ASSUME Init PROVE ArrivedOf(wire) = <<>> /\ sent = <<>>
  BY DEF Outgoing!Init, ArrivedOf
<1>1. wire \in Seq([seq : Nat, msg : 0 .. MaxSends]) /\ Len(wire) = 0
  BY InitHolds DEF Inv, Init, TypeOK
<1>2. ArrivedOf(wire) \in Seq(Nat) /\ Len(ArrivedOf(wire)) = 0
  <2>1. \A i \in 1 .. Len(wire) : wire[i].msg = i - 1
    BY <1>1
  <2>2. QED BY <1>1, <2>1, ArrivedIs
<1>3. QED BY <1>2, EmptyFacts DEF Init

(* Each frame but the first is the arrival of the next message sent.       *)
LEMMA OutgoingNext == Inv /\ Inv' /\ [Next]_vars => [Outgoing!Next]_Outgoing!vars
<1> SUFFICES ASSUME Inv, Inv', [Next]_vars
             PROVE  \/ /\ \E m \in 1 .. MaxSends : sent' = Append(sent, m)
                       /\ ArrivedOf(wire') = ArrivedOf(wire)
                    \/ /\ Len(ArrivedOf(wire)) < Len(sent)
                       /\ ArrivedOf(wire') = Append(ArrivedOf(wire), sent[Len(ArrivedOf(wire)) + 1])
                       /\ UNCHANGED sent
                    \/ UNCHANGED <<sent, ArrivedOf(wire)>>
  BY DEF Outgoing!Next, Outgoing!Send, Outgoing!Arrive, Outgoing!vars, ArrivedOf
<1>0. TypeOK /\ Len(sent) \in Nat /\ Len(wire) \in Nat /\ Len(messageQueue) \in Nat
  BY Lengths DEF Inv
<1>1. CASE Send
  <2>1. Len(sent) + 1 \in 1 .. MaxSends /\ sent' = Append(sent, Len(sent) + 1)
    BY <1>0, <1>1 DEF Send
  <2>2. wire' = wire
    BY <1>1 DEF Send, write
  <2>3. QED BY <2>1, <2>2 DEF ArrivedOf
<1>2. CASE OnWrite
  <2>1. UNCHANGED sent /\ Len(wire') = Len(wire) + 1 /\ message # NoMessage
    <3>1. /\ wire \in Seq([seq : Nat, msg : 0 .. MaxSends])
        /\ wire' \in Seq([seq : Nat, msg : 0 .. MaxSends])
      BY DEF Inv, TypeOK
    <3>2. wire' = Append(wire, [seq |-> seq - 1, msg |-> message])
      BY <1>2 DEF OnWrite
    <3>3. QED BY <1>0, <1>2, <3>1, <3>2 DEF OnWrite, Inv, WriteSlot, TypeOK
  <2>2. Len(wire) <= Len(sent)
    BY <1>0, <2>1 DEF Inv, SentInOrder, Taken, Slot
  <2>3. /\ ArrivedOf(wire) \in Seq(Nat)
        /\ Len(ArrivedOf(wire)) = IF Len(wire) = 0 THEN 0 ELSE Len(wire) - 1
        /\ \A i \in 1 .. Len(ArrivedOf(wire)) : ArrivedOf(wire)[i] = i
    <3>1. \A i \in 1 .. Len(wire) : wire[i].msg = i - 1
      BY FrameMessages DEF Inv, ConsecutiveFrames
    <3>2. QED BY <1>0, <3>1, ArrivedIs DEF TypeOK
  <2>4. /\ ArrivedOf(wire') \in Seq(Nat)
        /\ Len(ArrivedOf(wire')) = Len(wire)
        /\ \A i \in 1 .. Len(ArrivedOf(wire')) : ArrivedOf(wire')[i] = i
    <3>1. \A i \in 1 .. Len(wire') : wire'[i].msg = i - 1
      BY FrameMessages DEF Inv, ConsecutiveFrames
    <3>2. wire' \in Seq([seq : Nat, msg : 0 .. MaxSends])
      BY DEF Inv, TypeOK
    <3>3. /\ ArrivedOf(wire') \in Seq(Nat)
          /\ Len(ArrivedOf(wire')) = IF Len(wire') = 0 THEN 0 ELSE Len(wire') - 1
          /\ \A i \in 1 .. Len(ArrivedOf(wire')) : ArrivedOf(wire')[i] = i
      BY <3>1, <3>2, ArrivedIs
    <3>4. QED BY <1>0, <2>1, <3>3
  <2> HIDE DEF ArrivedOf
  <2>5. CASE Len(wire) = 0
    BY <2>1, <2>3, <2>4, <2>5, EmptyFacts
  <2>6. CASE Len(wire) > 0
    <3>1. Len(ArrivedOf(wire)) + 1 = Len(wire) /\ Len(ArrivedOf(wire)) \in Nat
      BY <1>0, <2>3, <2>6
    <3>2. sent[Len(wire)] = Len(wire)
      BY <1>0, <2>2, <2>6 DEF Inv, SentInOrder
    <3>3. /\ \A i \in 1 .. Len(ArrivedOf(wire)) : ArrivedOf(wire')[i] = ArrivedOf(wire)[i]
          /\ ArrivedOf(wire')[Len(ArrivedOf(wire'))] = Len(wire)
      BY <2>3, <2>4, <3>1
    <3>4. ArrivedOf(wire') = Append(ArrivedOf(wire), Len(wire))
      BY <2>3, <2>4, <3>1, <3>3, Longer
    <3>5. QED BY <1>0, <2>1, <2>2, <3>1, <3>2, <3>4
  <2>7. QED BY <1>0, <2>5, <2>6
<1>3. CASE \/ ParseInput \/ ApplyUpdate \/ CacheOne \/ CacheNone \/ QueueShutdown \/ Join
           \/ OnStage \/ OnHandshake \/ RunSend \/ RunShutdown \/ OnWriteFailed
           \/ OnRead \/ OnReadFailed \/ RunReturns \/ LoseLink \/ UNCHANGED vars
  <2>1. UNCHANGED <<sent, wire>>
    BY <1>3 DEF ParseInput, ApplyUpdate, CacheOne, CacheNone, QueueShutdown, Join, OnStage,
         OnHandshake, RunSend, RunShutdown, OnWriteFailed, OnRead, OnReadFailed, RunReturns,
         LoseLink, LaunchWrite, vars, write
  <2>2. QED BY <2>1 DEF ArrivedOf
<1>4. QED BY <1>1, <1>2, <1>3 DEF Next, Game, Network

(* From the game to the wire the client is a FIFO channel that may stop:   *)
(* nothing is skipped, doubled or reordered by the two threads, whatever   *)
(* becomes of the connection (client.cpp:87-101, 201-214).                 *)
THEOREM OutgoingImplementsFifo == Spec => OutgoingIsFifo
BY OutgoingInit, OutgoingNext, InvHolds, PTL DEF Spec, OutgoingIsFifo, Outgoing!Spec

-----------------------------------------------------------------------------
(* The other direction.                                                    *)

(* The updates in a queue are those after the t-th up to the r-th, in      *)
(* their order.                                                            *)
Follows(q, t, r) ==
  /\ \A i \in 1 .. Len(q) : q[i] = Blank \/ \E n \in (t + 1) .. r : q[i] = Update(n)
  /\ \A n \in (t + 1) .. r : \E i \in 1 .. Len(q) : q[i] = Update(n)
  /\ \A i, j \in 1 .. Len(q) : i < j /\ q[i] # Blank /\ q[j] # Blank => q[i].n < q[j].n

(* How many updates the game has taken from the queue.                     *)
Fetched == Len(applied) + (IF cache = NoMessage THEN 0 ELSE 1)

(* Until a message is read that is none, the game is given the updates in  *)
(* order, and the queue holds the rest.                                    *)
Delivered ==
  /\ \A i \in 1 .. Len(received) : received[i] = Update(i)
  /\ misreadAt <= Len(applied) + 1
  /\ pc = "cache" => cache = NoMessage
  /\ misreadAt = 0 =>
       /\ cache # NoMessage => cache = Update(Len(applied) + 1)
       /\ \A i \in 1 .. Len(applied) : applied[i] = Update(i)
       /\ Fetched <= Len(received)
       /\ Follows(recvQueue, Fetched, Len(received))

(* Updates are told apart by their numbers.                                *)
LEMMA UpdateFacts ==
  /\ \A n \in Nat : Update(n) # Blank /\ Update(n).n = n
  /\ \A m, n \in Nat : Update(m) = Update(n) => m = n
BY DEF Update, Blank

(* What follows in a queue after a push.                                   *)
LEMMA FollowsPush ==
  ASSUME NEW q \in Seq(Inbound), NEW t \in Nat, NEW r \in Nat, Follows(q, t, r)
  PROVE  /\ Follows(Append(q, Blank), t, r)
         /\ t <= r => Follows(Append(q, Update(r + 1)), t, r + 1)
<1> DEFINE k == Len(q)
<1>0. k \in Nat
  BY EmptyFacts
<1>1. ASSUME NEW m, NEW p, p = Append(q, m)
      PROVE  Len(p) = k + 1 /\ p[k + 1] = m /\ \A i \in 1 .. k : p[i] = q[i]
  BY <1>1
<1>2. Follows(Append(q, Blank), t, r)
  <2>1. PICK p : p = Append(q, Blank)
    OBVIOUS
  <2>2. Len(p) = k + 1 /\ p[k + 1] = Blank /\ \A i \in 1 .. k : p[i] = q[i]
    BY <1>1, <2>1
  <2>3. \A i \in 1 .. Len(p) : i \in 1 .. k \/ i = k + 1
    BY <1>0, <2>2
  <2>4. \A i \in 1 .. Len(p) : p[i] = Blank \/ \E n \in (t + 1) .. r : p[i] = Update(n)
    BY <2>2, <2>3 DEF Follows
  <2>5. \A n \in (t + 1) .. r : \E i \in 1 .. Len(p) : p[i] = Update(n)
    BY <1>0, <2>2 DEF Follows
  <2>6. \A i, j \in 1 .. Len(p) : i < j /\ p[i] # Blank /\ p[j] # Blank => p[i].n < p[j].n
    BY <2>2, <2>3 DEF Follows
  <2>7. QED BY <2>1, <2>4, <2>5, <2>6 DEF Follows
<1>3. ASSUME t <= r PROVE Follows(Append(q, Update(r + 1)), t, r + 1)
  <2>1. PICK p : p = Append(q, Update(r + 1))
    OBVIOUS
  <2>2. Len(p) = k + 1 /\ p[k + 1] = Update(r + 1) /\ \A i \in 1 .. k : p[i] = q[i]
    BY <1>1, <2>1
  <2>3. \A i \in 1 .. Len(p) : i \in 1 .. k \/ i = k + 1
    BY <1>0, <2>2
  <2>4. \A n \in (t + 1) .. (r + 1) : n \in (t + 1) .. r \/ n = r + 1
    OBVIOUS
  <2>5. r + 1 \in (t + 1) .. (r + 1) /\ (t + 1) .. r \subseteq (t + 1) .. (r + 1)
    BY <1>3
  <2>6. \A i \in 1 .. Len(p) : p[i] = Blank \/ \E n \in (t + 1) .. (r + 1) : p[i] = Update(n)
    BY <2>2, <2>3, <2>5 DEF Follows
  <2>7. ASSUME NEW n \in (t + 1) .. (r + 1) PROVE \E i \in 1 .. Len(p) : p[i] = Update(n)
    <3>1. k + 1 \in 1 .. Len(p) /\ \A i \in 1 .. k : i \in 1 .. Len(p)
      BY <1>0, <2>2
    <3>2. n = r + 1 => p[k + 1] = Update(n)
      BY <2>2
    <3>3. n # r + 1 => \E i \in 1 .. k : q[i] = Update(n)
      BY <2>4 DEF Follows
    <3>4. QED BY <2>2, <3>1, <3>2, <3>3
  <2>8. ASSUME NEW i \in 1 .. Len(p), NEW j \in 1 .. Len(p), i < j, p[i] # Blank, p[j] # Blank
        PROVE  p[i].n < p[j].n
    <3>1. i \in 1 .. k
      BY <1>0, <2>2, <2>8
    <3>2. CASE j \in 1 .. k
      BY <2>2, <2>8, <3>1, <3>2 DEF Follows
    <3>3. CASE j = k + 1
      <4>1. PICK n \in (t + 1) .. r : p[i] = Update(n)
        BY <2>2, <2>8, <3>1 DEF Follows
      <4>2. p[i].n = n /\ p[j].n = r + 1
        BY <2>2, <3>3, <4>1, UpdateFacts
      <4>3. QED BY <4>1, <4>2
    <3>4. QED BY <2>3, <3>2, <3>3
  <2>9. QED BY <2>1, <2>6, <2>7, <2>8 DEF Follows
<1>4. QED BY <1>2, <1>3

(* What follows after a pop: the front is blank or the next.               *)
LEMMA FollowsPop ==
  ASSUME NEW q \in Seq(Inbound), q # <<>>, NEW t \in Nat, NEW r \in Nat, Follows(q, t, r)
  PROVE  /\ Head(q) = Blank => Follows(Tail(q), t, r)
         /\ Head(q) # Blank => /\ Head(q) = Update(t + 1) /\ t + 1 <= r
                               /\ Follows(Tail(q), t + 1, r)
<1>1. PICK p \in Seq(Inbound), k \in Nat :
        /\ p = Tail(q) /\ k = Len(p) /\ Len(q) = k + 1 /\ Head(q) = q[1]
        /\ \A i \in 1 .. k : p[i] = q[i + 1]
  <2>1. /\ Len(q) \in Nat /\ Len(q) >= 1 /\ Len(Tail(q)) = Len(q) - 1 /\ Head(q) = q[1]
        /\ Tail(q) \in Seq(Inbound)
        /\ \A i \in 1 .. Len(Tail(q)) : Tail(q)[i] = q[i + 1]
    BY TailFacts
  <2>2. Len(Tail(q)) \in Nat /\ Len(q) = Len(Tail(q)) + 1
    BY <2>1
  <2>3. QED BY <2>1, <2>2
<1>2. /\ \A i \in 1 .. k : i + 1 \in 1 .. Len(q) /\ 1 < i + 1
      /\ \A i \in 1 .. Len(q) : i = 1 \/ (i - 1 \in 1 .. k /\ p[i - 1] = q[i])
      /\ 1 \in 1 .. Len(q)
  BY <1>1
<1>3. \A i, j \in 1 .. k : i < j /\ p[i] # Blank /\ p[j] # Blank => p[i].n < p[j].n
  <2>1. \A i, j \in 1 .. k : i < j => i + 1 < j + 1
    OBVIOUS
  <2>2. QED BY <1>1, <1>2, <2>1 DEF Follows
<1>4. ASSUME Head(q) = Blank PROVE Follows(p, t, r)
  <2>1. \A i \in 1 .. k : p[i] = Blank \/ \E n \in (t + 1) .. r : p[i] = Update(n)
    BY <1>1, <1>2 DEF Follows
  <2>2. ASSUME NEW n \in (t + 1) .. r PROVE \E i \in 1 .. k : p[i] = Update(n)
    <3>1. PICK i \in 1 .. Len(q) : q[i] = Update(n)
      BY DEF Follows
    <3>2. i # 1
      BY <1>1, <1>4, <3>1, UpdateFacts
    <3>3. QED BY <1>2, <3>1, <3>2
  <2>3. QED BY <1>1, <1>3, <2>1, <2>2 DEF Follows
<1>5. ASSUME Head(q) # Blank
      PROVE  Head(q) = Update(t + 1) /\ t + 1 <= r /\ Follows(p, t + 1, r)
  <2>1. PICK n \in (t + 1) .. r : q[1] = Update(n)
    BY <1>1, <1>2, <1>5 DEF Follows
  <2>2. n \in Nat /\ t + 1 \in (t + 1) .. r
    BY <2>1
  <2>3. PICK i \in 1 .. Len(q) : q[i] = Update(t + 1)
    BY <2>2 DEF Follows
  <2>4. q[1].n = n /\ q[i].n = t + 1 /\ q[i] # Blank /\ q[1] # Blank
    BY <2>1, <2>2, <2>3, UpdateFacts
  <2>5. i = 1 \/ n < t + 1
    BY <1>2, <2>4 DEF Follows
  <2>6. n = t + 1
    BY <2>1, <2>2, <2>3, <2>4, <2>5
  <2>7. ASSUME NEW j \in 1 .. k, p[j] # Blank
        PROVE  \E m \in (t + 1 + 1) .. r : p[j] = Update(m)
    <3>1. PICK m \in (t + 1) .. r : q[j + 1] = Update(m)
      BY <1>1, <1>2, <2>7 DEF Follows
    <3>2. n < m
      <4>1. q[1].n < q[j + 1].n
        BY <1>1, <1>2, <2>4, <2>7 DEF Follows
      <4>2. q[j + 1].n = m
        BY <3>1, UpdateFacts
      <4>3. QED BY <2>4, <4>1, <4>2
    <3>3. m \in (t + 1 + 1) .. r
      BY <2>6, <3>1, <3>2
    <3>4. QED BY <1>1, <3>1, <3>3
  <2>8. ASSUME NEW m \in (t + 1 + 1) .. r PROVE \E j \in 1 .. k : p[j] = Update(m)
    <3>1. PICK j \in 1 .. Len(q) : q[j] = Update(m)
      BY DEF Follows
    <3>2. j # 1
      BY <2>1, <2>6, <3>1, UpdateFacts
    <3>3. QED BY <1>2, <3>1, <3>2
  <2>9. Follows(p, t + 1, r)
    BY <1>1, <1>3, <2>7, <2>8 DEF Follows
  <2>10. QED BY <1>1, <2>1, <2>2, <2>6, <2>9
<1>6. QED BY <1>1, <1>4, <1>5

(* The lengths and kinds that the steps of the delivery are about.         *)
LEMMA DeliveryTypes ==
  ASSUME Inv
  PROVE  /\ recvQueue \in Seq(Inbound) /\ received \in Seq(Updates) /\ applied \in Seq(Inbound)
         /\ cache \in Inbound \cup {NoMessage} /\ misreadAt \in Nat
         /\ Len(applied) \in Nat /\ Len(received) \in Nat /\ Fetched \in Nat
BY EmptyFacts DEF Inv, TypeOK, Fetched

(* A message is received.                                                  *)
LEMMA OnReadDelivers == ASSUME Inv, Delivered, OnRead PROVE Delivered'
<1>0. /\ UNCHANGED <<pc, cache, applied, misreadAt>> /\ Fetched' = Fetched
      /\ recvQueue \in Seq(Inbound) /\ received \in Seq(Updates)
      /\ Len(received) \in Nat /\ Fetched \in Nat
  BY DeliveryTypes DEF OnRead, game, Fetched
<1>1. CASE recvQueue' = Append(recvQueue, Blank) /\ received' = received
  <2>1. misreadAt = 0 => Follows(recvQueue', Fetched, Len(received))
    BY <1>0, <1>1, FollowsPush DEF Delivered
  <2>2. QED BY <1>0, <1>1, <2>1 DEF Delivered
<1>2. CASE /\ Len(received) < MaxReceives
           /\ received' = Append(received, Update(Len(received) + 1))
           /\ recvQueue' = Append(recvQueue, Update(Len(received) + 1))
  <2>1. Update(Len(received) + 1) \in Updates
    <3>1. Len(received) + 1 \in 1 .. MaxReceives
      BY <1>0, <1>2, ClientAssumption
    <3>2. QED BY <3>1, InboundFacts
  <2>2. /\ Len(received') = Len(received) + 1
        /\ \A i \in 1 .. Len(received) : received'[i] = received[i]
        /\ received'[Len(received) + 1] = Update(Len(received) + 1)
    BY <1>0, <1>2, <2>1, AppendFacts
  <2>3. \A i \in 1 .. Len(received') : received'[i] = Update(i)
    <3>1. TAKE i \in 1 .. Len(received')
    <3>2. i \in 1 .. Len(received) \/ i = Len(received) + 1
      BY <1>0, <2>2
    <3>3. QED BY <2>2, <3>2 DEF Delivered
  <2>4. misreadAt = 0 => Follows(recvQueue', Fetched, Len(received) + 1)
    BY <1>0, <1>2, FollowsPush DEF Delivered
  <2>5. QED BY <1>0, <2>2, <2>3, <2>4 DEF Delivered
<1>3. QED BY <1>1, <1>2 DEF OnRead

(* A message leaves the queue for the cache, which is empty then.          *)
LEMMA CacheOneDelivers == ASSUME Inv, Delivered, CacheOne PROVE Delivered'
<1>0. /\ UNCHANGED <<applied, misreadAt, received>> /\ pc' # "cache"
      /\ cache = NoMessage /\ recvQueue # <<>> /\ recvQueue' = Tail(recvQueue)
      /\ cache' = IF Head(recvQueue) # Blank THEN Head(recvQueue) ELSE cache
  BY DEF CacheOne, Delivered, EndOfLoop, HasChars
<1>1. /\ recvQueue \in Seq(Inbound) /\ Len(received) \in Nat
      /\ Fetched = Len(applied) /\ Len(applied) \in Nat
  BY <1>0, DeliveryTypes DEF Fetched
<1> SUFFICES ASSUME misreadAt = 0 PROVE Delivered'
  BY <1>0 DEF Delivered
<1>2. /\ Head(recvQueue) = Blank => Follows(recvQueue', Fetched, Len(received))
      /\ Head(recvQueue) # Blank => /\ Head(recvQueue) = Update(Fetched + 1)
                                    /\ Fetched + 1 <= Len(received)
                                    /\ Follows(recvQueue', Fetched + 1, Len(received))
  BY <1>0, <1>1, FollowsPop DEF Delivered
<1>3. Head(recvQueue) # NoMessage
  BY <1>0, <1>1, TailFacts, InboundFacts
<1>4. Fetched' = IF Head(recvQueue) = Blank THEN Fetched ELSE Fetched + 1
  BY <1>0, <1>1, <1>3 DEF Fetched
<1>5. QED BY <1>0, <1>1, <1>2, <1>4 DEF Delivered

(* The game applies the cached message, if there is one.                   *)
LEMMA ApplyDelivers == ASSUME Inv, Delivered, ApplyUpdate PROVE Delivered'
<1>0. /\ UNCHANGED <<misreadAt, received, recvQueue>> /\ cache' = NoMessage
      /\ applied' = IF cache = NoMessage THEN applied ELSE Append(applied, cache)
  BY DEF ApplyUpdate, Consumed, read
<1>1. applied \in Seq(Inbound) /\ Len(applied) \in Nat /\ misreadAt \in Nat
      /\ cache \in Inbound \cup {NoMessage}
  BY DeliveryTypes
<1>2. CASE cache = NoMessage
  <2>1. applied' = applied /\ Fetched' = Fetched
    BY <1>0, <1>2 DEF Fetched
  <2>2. QED BY <1>0, <1>2, <2>1 DEF Delivered
<1>3. CASE cache # NoMessage
  <2>1. /\ Len(applied') = Len(applied) + 1
        /\ \A i \in 1 .. Len(applied) : applied'[i] = applied[i]
        /\ applied'[Len(applied) + 1] = cache
    BY <1>0, <1>1, <1>3, AppendFacts
  <2>2. Fetched' = Fetched
    BY <1>0, <1>1, <1>3, <2>1 DEF Fetched
  <2>3. misreadAt' <= Len(applied') + 1
    BY <1>0, <1>1, <2>1 DEF Delivered
  <2>4. ASSUME misreadAt = 0, NEW i \in 1 .. Len(applied') PROVE applied'[i] = Update(i)
    <3>1. i \in 1 .. Len(applied) \/ i = Len(applied) + 1
      BY <1>1, <2>1
    <3>2. QED BY <1>3, <2>1, <2>4, <3>1 DEF Delivered
  <2>5. QED BY <1>0, <2>2, <2>3, <2>4 DEF Delivered
<1>4. QED BY <1>2, <1>3

(* A check of the empty queue finds nothing, or an old message.            *)
LEMMA CacheNoneDelivers == ASSUME Inv, Delivered, CacheNone PROVE Delivered'
<1>0. /\ UNCHANGED <<applied, received, recvQueue>> /\ pc' # "cache"
      /\ Len(applied) \in Nat /\ misreadAt \in Nat
  BY DeliveryTypes DEF CacheNone, EndOfLoop, read
<1>1. CASE UNCHANGED <<cache, misreadAt>>
  BY <1>0, <1>1 DEF Delivered, Fetched
<1>2. CASE misreadAt' = IF misreadAt = 0 THEN Len(applied) + 1 ELSE misreadAt
  BY <1>0, <1>2 DEF Delivered
<1>3. QED BY <1>1, <1>2 DEF CacheNone

(* All other steps leave the delivery alone.                               *)
LEMMA DeliveredStep == Inv /\ Delivered /\ [Next]_vars => Delivered'
<1> SUFFICES ASSUME Inv, Delivered, [Next]_vars PROVE Delivered'
  OBVIOUS
<1>1. ASSUME UNCHANGED <<cache, applied, misreadAt, recvQueue, received>>,
             pc' = "cache" => pc = "cache"
      PROVE  Delivered'
  BY <1>1 DEF Delivered, Fetched
<1>2. CASE Send \/ ParseInput \/ QueueShutdown \/ Join
  BY <1>1, <1>2 DEF Send, ParseInput, QueueShutdown, Join, game, read
<1>3. CASE \/ OnStage \/ OnHandshake \/ RunSend \/ RunShutdown \/ OnWrite \/ OnWriteFailed
           \/ OnReadFailed \/ RunReturns \/ LoseLink \/ UNCHANGED vars
  BY <1>1, <1>3 DEF OnStage, OnHandshake, RunSend, RunShutdown, OnWrite, OnWriteFailed,
     OnReadFailed, RunReturns, LoseLink, vars, game, read
<1>4. QED
  BY <1>2, <1>3, OnReadDelivers, CacheOneDelivers, ApplyDelivers, CacheNoneDelivers
     DEF Next, Game, Network

(* Nothing is received or applied at first.                                *)
LEMMA DeliveredInit == Init => Delivered
<1> SUFFICES ASSUME Init PROVE Delivered
  OBVIOUS
<1>1. Len(<<>>) = 0 /\ Fetched = 0
  BY DEF Init, Fetched
<1>2. Follows(<<>>, 0, 0)
  BY <1>1 DEF Follows
<1>3. QED BY <1>1, <1>2 DEF Init, Delivered

(* The invariant of the delivery.                                          *)
LEMMA DeliveredHolds == Spec => []Delivered
BY DeliveredInit, DeliveredStep, InvHolds, PTL DEF Spec

(* The updates that were received arrive one by one.                       *)
LEMMA IncomingNext ==
  Inv /\ Delivered /\ [Next]_vars => [Incoming!Next]_Incoming!vars
<1> SUFFICES ASSUME Inv, Delivered, [Next]_vars
             PROVE  \/ (\E m \in Updates : received' = Append(received, m)) /\ Genuine' = Genuine
                    \/ /\ Len(Genuine) < Len(received)
                       /\ Genuine' = Append(Genuine, received[Len(Genuine) + 1])
                       /\ UNCHANGED received
                    \/ UNCHANGED <<received, Genuine>>
  BY DEF Incoming!Next, Incoming!Send, Incoming!Arrive, Incoming!vars
<1>0. /\ applied \in Seq(Inbound) /\ Len(applied) \in Nat /\ misreadAt \in Nat
      /\ Len(received) \in Nat
  BY DeliveryTypes
<1>1. ASSUME UNCHANGED <<applied, misreadAt, received>> PROVE UNCHANGED <<received, Genuine>>
  BY <1>1 DEF Genuine
<1>2. CASE OnRead
  <2>1. UNCHANGED <<applied, misreadAt>>
    BY <1>2 DEF OnRead, game
  <2>2. Genuine' = Genuine
    BY <2>1 DEF Genuine
  <2>3. CASE received' = received
    BY <2>2, <2>3
  <2>4. CASE Len(received) < MaxReceives /\ received' = Append(received, Update(Len(received) + 1))
    <3>1. Len(received) + 1 \in 1 .. MaxReceives
      BY <1>0, <2>4, ClientAssumption
    <3>2. Update(Len(received) + 1) \in Updates
      BY <3>1, InboundFacts
    <3>3. QED BY <2>2, <2>4, <3>2
  <2>5. QED BY <1>2, <2>3, <2>4 DEF OnRead
<1>3. CASE ApplyUpdate
  <2>0. /\ UNCHANGED <<misreadAt, received>>
        /\ applied' = IF cache = NoMessage THEN applied ELSE Append(applied, cache)
    BY <1>3 DEF ApplyUpdate, read
  <2>1. CASE cache = NoMessage
    BY <1>1, <2>0, <2>1
  <2>2. CASE cache # NoMessage /\ misreadAt = 0
    <3>1. Genuine = applied /\ Genuine' = Append(applied, cache)
      BY <2>0, <2>2 DEF Genuine
    <3>2. Len(applied) + 1 <= Len(received) /\ cache = Update(Len(applied) + 1)
      BY <2>2 DEF Delivered, Fetched
    <3>3. received[Len(applied) + 1] = cache
      BY <1>0, <3>2 DEF Delivered
    <3>4. QED BY <1>0, <2>0, <3>1, <3>2, <3>3
  <2>3. CASE cache # NoMessage /\ misreadAt # 0
    <3>1. cache \in Inbound /\ misreadAt - 1 <= Len(applied) /\ misreadAt - 1 \in Nat
      BY <1>0, <2>3, DeliveryTypes DEF Delivered
    <3>2. PICK n \in Nat : n = misreadAt - 1 /\ n <= Len(applied)
      BY <3>1
    <3>3. SubSeq(Append(applied, cache), 1, n) = SubSeq(applied, 1, n)
      <4>1. /\ Append(applied, cache) \in Seq(Inbound)
            /\ Len(Append(applied, cache)) = Len(applied) + 1
        BY <1>0, <3>1, AppendFacts
      <4>2. /\ SubSeq(Append(applied, cache), 1, n) \in Seq(Inbound)
            /\ SubSeq(applied, 1, n) \in Seq(Inbound)
            /\ Len(SubSeq(Append(applied, cache), 1, n)) = n /\ Len(SubSeq(applied, 1, n)) = n
            /\ \A i \in 1 .. n : SubSeq(Append(applied, cache), 1, n)[i] = SubSeq(applied, 1, n)[i]
        BY <1>0, <3>1, <3>2, <4>1
      <4>3. QED BY <4>2, SeqEqual
    <3>4. Genuine' = Genuine
      BY <2>0, <2>3, <3>2, <3>3 DEF Genuine
    <3>5. QED BY <2>0, <3>4
  <2>4. QED BY <2>1, <2>2, <2>3
<1>4. CASE CacheNone
  <2>1. UNCHANGED <<received, applied>>
    BY <1>4 DEF CacheNone, read
  <2>2. CASE misreadAt' = misreadAt
    BY <1>1, <2>1, <2>2
  <2>3. CASE misreadAt = 0 /\ misreadAt' = Len(applied) + 1
    <3>1. Genuine = applied /\ Genuine' = SubSeq(applied, 1, Len(applied))
      BY <1>0, <2>1, <2>3 DEF Genuine
    <3>2. SubSeq(applied, 1, Len(applied)) = applied
      BY <1>0, SubSeqFull
    <3>3. QED BY <2>1, <3>1, <3>2
  <2>4. QED BY <1>4, <2>2, <2>3 DEF CacheNone
<1>5. CASE Send \/ ParseInput \/ CacheOne \/ QueueShutdown \/ Join
  BY <1>1, <1>5 DEF Send, ParseInput, CacheOne, QueueShutdown, Join, game, read
<1>6. CASE \/ OnStage \/ OnHandshake \/ RunSend \/ RunShutdown \/ OnWrite \/ OnWriteFailed
           \/ OnReadFailed \/ RunReturns \/ LoseLink \/ UNCHANGED vars
  BY <1>1, <1>6 DEF OnStage, OnHandshake, RunSend, RunShutdown, OnWrite, OnWriteFailed,
     OnReadFailed, RunReturns, LoseLink, vars, game, read
<1>7. QED BY <1>2, <1>3, <1>4, <1>5, <1>6 DEF Next, Game, Network

(* From the server to the game the client is a FIFO channel too, as far as *)
(* the first message that an empty read repeats: nothing is skipped,       *)
(* doubled or reordered between the threads (client.cpp:103-121, 222-229,  *)
(* webclient.cpp:188-211).                                                 *)
THEOREM IncomingImplementsFifo == Spec => IncomingIsFifo
<1>1. Init => Incoming!Init
  BY DEF Init, Incoming!Init, Genuine
<1>2. QED
  BY <1>1, IncomingNext, DeliveredHolds, InvHolds, PTL DEF Spec, IncomingIsFifo, Incoming!Spec
=============================================================================
