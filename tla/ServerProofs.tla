---------------------------- MODULE ServerProofs ----------------------------
(***************************************************************************)
(* Theorems about Server for every set of sessions and any number of       *)
(* frames: the connection table holds exactly the live sessions, a session *)
(* never has two writes outstanding or a stuck queue without a failure,    *)
(* the host and the session told to be host are the same, and a live host  *)
(* is never replaced.  What a session is sent is the log, every join of a  *)
(* player who has gone is undone, and the server implements Broadcast.     *)
(*                                                                         *)
(* None of the invariants is inductive alone.  That a message popped by    *)
(* on_write exists needs WriteChain, that only live sessions are pushed to *)
(* needs ConnectionsLive, and that a session registered anew was never     *)
(* told it is the host needs Fresh, that nothing was sent to it before.    *)
(*                                                                         *)
(* The histories need more: that every disconnect in the log is of a dead  *)
(* session (LogInv), that a session that has relayed its join was named    *)
(* before (Named), and that the joins under way carry that name            *)
(* (Introduced).  Every step then has one of four forms: nothing is        *)
(* logged, a session is registered, speaks, or leaves.                     *)
(*                                                                         *)
(* Within is recursive.  What it returns for one event more is proved from *)
(* its definition: that the recursion has a solution, and only one, by the *)
(* least index at which it would fail.                                     *)
(***************************************************************************)
EXTENDS Server, SequenceTheorems, WellFoundedInduction, TLAPS

(* The elements of a sequence within a set.                                *)

(* The first n steps of the recursion that is Within.                      *)
Steps(q, set, f, n) ==
  /\ f[0] = <<>>
  /\ \A i \in 1 .. n : f[i] = IF q[i] \in set THEN Append(f[i - 1], q[i]) ELSE f[i - 1]

(* A nonempty set of numbers has a least one.                              *)
LEMMA Least == ASSUME NEW T \in SUBSET Nat, T # {} PROVE \E x \in T : \A y \in T : x <= y
<1>1. PICK x \in T : \A y \in T : ~(<<y, x>> \in OpToRel(<, Nat))
  BY NatLessThanWellFounded, WFMin
<1>2. \A y \in T : <<y, x>> \in OpToRel(<, Nat) <=> y < x
  BY DEF OpToRel
<1>3. ASSUME NEW y \in T PROVE x <= y
  <2>1. ~(y < x) /\ x \in Nat /\ y \in Nat
    BY <1>1, <1>2
  <2>2. QED BY <2>1
<1>4. QED BY <1>3

(* They can be taken.                                                      *)
LEMMA StepsExist ==
  ASSUME NEW S, NEW q \in Seq(S), NEW set
  PROVE  \A n \in 0 .. Len(q) : \E f \in [0 .. n -> Seq(S)] : Steps(q, set, f, n)
<1> DEFINE Fits(n) == \E f \in [0 .. n -> Seq(S)] : Steps(q, set, f, n)
           bad == {n \in Nat : n <= Len(q) /\ ~Fits(n)}
<1> HIDE DEF Fits
<1> SUFFICES ASSUME bad # {} PROVE FALSE
  BY DEF Fits
<1>1. PICK n \in bad : \A m \in bad : n <= m
  BY Least
<1>2. Fits(0)
  <2>1. [i \in 0 .. 0 |-> <<>>] \in [0 .. 0 -> Seq(S)]
    OBVIOUS
  <2>2. Steps(q, set, [i \in 0 .. 0 |-> <<>>], 0)
    BY DEF Steps
  <2>3. QED BY <2>1, <2>2 DEF Fits
<1>3. n \in Nat /\ n # 0 /\ n <= Len(q) /\ n - 1 \in Nat /\ Fits(n - 1)
  BY <1>1, <1>2
<1>4. PICK f \in [0 .. n - 1 -> Seq(S)] : Steps(q, set, f, n - 1)
  BY <1>3 DEF Fits
<1> DEFINE last == IF q[n] \in set THEN Append(f[n - 1], q[n]) ELSE f[n - 1]
           g == [i \in 0 .. n |-> IF i = n THEN last ELSE f[i]]
<1>5. last \in Seq(S)
  <2>1. q[n] \in S /\ f[n - 1] \in Seq(S)
    BY <1>3, <1>4
  <2>2. QED BY <2>1
<1> HIDE DEF last
<1>6. g \in [0 .. n -> Seq(S)]
  BY <1>3, <1>4, <1>5
<1>7. Steps(q, set, g, n)
  <2>1. g[0] = <<>>
    BY <1>3, <1>4 DEF Steps
  <2>2. ASSUME NEW i \in 1 .. n
        PROVE  g[i] = IF q[i] \in set THEN Append(g[i - 1], q[i]) ELSE g[i - 1]
    <3>1. g[i - 1] = f[i - 1]
      BY <1>3, <2>2
    <3>2. CASE i = n
      BY <1>3, <3>1, <3>2 DEF last
    <3>3. CASE i # n
      <4>1. i \in 1 .. n - 1 /\ g[i] = f[i]
        BY <1>3, <2>2, <3>3
      <4>2. QED BY <1>4, <3>1, <4>1 DEF Steps
    <3>4. QED BY <3>2, <3>3
  <2>3. QED BY <2>1, <2>2 DEF Steps
<1>8. QED BY <1>1, <1>6, <1>7 DEF Fits

(* Two recursions through the same events give the same.                   *)
LEMMA StepsAgree ==
  ASSUME NEW q, NEW r, NEW set, NEW f, NEW g, NEW n \in Nat,
         \A i \in 1 .. n : q[i] = r[i], Steps(q, set, f, n), Steps(r, set, g, n)
  PROVE  \A i \in 0 .. n : f[i] = g[i]
<1> DEFINE bad == {i \in Nat : i <= n /\ f[i] # g[i]}
<1> SUFFICES ASSUME bad # {} PROVE FALSE
  OBVIOUS
<1>1. PICK i \in bad : \A j \in bad : i <= j
  BY Least
<1>2. i # 0
  BY <1>1 DEF Steps
<1>3. i \in 1 .. n /\ i - 1 \in Nat /\ f[i - 1] = g[i - 1]
  BY <1>1, <1>2
<1>4. QED BY <1>1, <1>3 DEF Steps

(* Within is the recursion it is meant to be.                              *)
LEMMA WithinSteps ==
  ASSUME NEW S, NEW q \in Seq(S), NEW set
  PROVE  \E f : /\ Steps(q, set, f, Len(q)) /\ Within(q, set) = f[Len(q)]
                /\ \A i \in 0 .. Len(q) : f[i] \in Seq(S)
<1> DEFINE Rec(f) == [n \in 0 .. Len(q) |->
             IF n = 0 THEN <<>>
             ELSE IF q[n] \in set THEN Append(f[n - 1], q[n])
             ELSE f[n - 1]]
           upTo == CHOOSE f : f = Rec(f)
<1>0. Len(q) \in Nat /\ Len(q) \in 0 .. Len(q)
  OBVIOUS
<1>1. PICK f \in [0 .. Len(q) -> Seq(S)] : Steps(q, set, f, Len(q))
  BY <1>0, StepsExist
<1>2. f = Rec(f)
  <2>1. ASSUME NEW n \in 0 .. Len(q) PROVE f[n] = Rec(f)[n]
    <3>1. CASE n = 0
      BY <1>1, <3>1 DEF Steps
    <3>2. CASE n # 0
      <4>1. n \in 1 .. Len(q)
        BY <1>0, <3>2
      <4>2. QED BY <1>1, <4>1 DEF Steps
    <3>3. QED BY <3>1, <3>2
  <2>2. f = [n \in 0 .. Len(q) |-> f[n]]
    OBVIOUS
  <2>3. QED BY <2>1, <2>2
<1>3. upTo = Rec(upTo)
  <2> HIDE DEF Rec
  <2> QED BY <1>2
<1>4. Within(q, set) = upTo[Len(q)]
  BY DEF Within
<1> HIDE DEF upTo
<1>5. Steps(q, set, upTo, Len(q))
  <2>1. ASSUME NEW n \in 0 .. Len(q) PROVE upTo[n] = Rec(upTo)[n]
    BY <1>3
  <2>2. upTo[0] = <<>>
    BY <1>0, <2>1
  <2>3. ASSUME NEW n \in 1 .. Len(q)
        PROVE  upTo[n] = IF q[n] \in set THEN Append(upTo[n - 1], q[n]) ELSE upTo[n - 1]
    <3>1. n \in 0 .. Len(q) /\ n # 0
      BY <1>0, <2>3
    <3>2. QED BY <2>1, <3>1
  <2>4. QED BY <2>2, <2>3 DEF Steps
<1>6. upTo[Len(q)] = f[Len(q)]
  BY <1>0, <1>1, <1>5, StepsAgree
<1>7. QED BY <1>1, <1>4, <1>6

(* It is a sequence of the same elements, and empty for the empty one.     *)
LEMMA WithinType ==
  ASSUME NEW S, NEW q \in Seq(S), NEW set
  PROVE  Within(q, set) \in Seq(S) /\ Within(<<>>, set) = <<>>
<1>1. Within(q, set) \in Seq(S)
  BY WithinSteps
<1>2. PICK f : Steps(<<>>, set, f, Len(<<>>)) /\ Within(<<>>, set) = f[Len(<<>>)]
  <2>1. <<>> \in Seq(S)
    OBVIOUS
  <2>2. QED BY <2>1, WithinSteps
<1>3. QED BY <1>1, <1>2 DEF Steps

(* What one more element adds.                                             *)
LEMMA WithinNext ==
  ASSUME NEW S, NEW q \in Seq(S), NEW r \in Seq(S), NEW set, NEW n \in Nat,
         Len(q) = n, Len(r) = n + 1, \A i \in 1 .. n : q[i] = r[i]
  PROVE  Within(r, set)
           = IF r[n + 1] \in set THEN Append(Within(q, set), r[n + 1]) ELSE Within(q, set)
<1>1. PICK f : Steps(q, set, f, n) /\ Within(q, set) = f[n]
  BY WithinSteps
<1>2. PICK g : Steps(r, set, g, n + 1) /\ Within(r, set) = g[n + 1]
  BY WithinSteps
<1>3. Steps(r, set, g, n)
  <2>1. \A i \in 1 .. n : i \in 1 .. n + 1
    OBVIOUS
  <2>2. QED BY <1>2, <2>1 DEF Steps
<1>4. \A i \in 0 .. n : f[i] = g[i]
  BY <1>1, <1>3, StepsAgree
<1>5. n \in 0 .. n /\ n + 1 \in 1 .. n + 1 /\ (n + 1) - 1 = n
  OBVIOUS
<1>6. g[n + 1] = IF r[n + 1] \in set THEN Append(g[n], r[n + 1]) ELSE g[n]
  BY <1>2, <1>5 DEF Steps
<1>7. QED BY <1>1, <1>2, <1>4, <1>5, <1>6

LEMMA WithinAppend ==
  ASSUME NEW S, NEW q \in Seq(S), NEW e \in S, NEW set
  PROVE  Within(Append(q, e), set)
           = IF e \in set THEN Append(Within(q, set), e) ELSE Within(q, set)
<1>1. PICK r \in Seq(S), n \in Nat :
        /\ r = Append(q, e) /\ Len(q) = n /\ Len(r) = n + 1
        /\ r[n + 1] = e /\ \A i \in 1 .. n : q[i] = r[i]
  <2>1. /\ Append(q, e) \in Seq(S) /\ Len(q) \in Nat /\ Len(Append(q, e)) = Len(q) + 1
        /\ Append(q, e)[Len(q) + 1] = e /\ \A i \in 1 .. Len(q) : q[i] = Append(q, e)[i]
    OBVIOUS
  <2>2. QED BY <2>1
<1>2. Within(r, set) = IF r[n + 1] \in set THEN Append(Within(q, set), r[n + 1]) ELSE Within(q, set)
  <2>1. Len(q) = n /\ Len(r) = n + 1 /\ \A i \in 1 .. n : q[i] = r[i]
    BY <1>1
  <2>2. QED BY ONLY <2>1, WithinNext, q \in Seq(S), r \in Seq(S), n \in Nat
<1>3. QED BY <1>1, <1>2

(* The beginning of a sequence, and of what is within the set.             *)
Begins(a, b) == Len(a) <= Len(b) /\ \A i \in 1 .. Len(a) : a[i] = b[i]

(* A beginning is one of what is appended to, too.                         *)
LEMMA BeginsAppend ==
  ASSUME NEW S, NEW a \in Seq(S), NEW b \in Seq(S), NEW e \in S
  PROVE  Begins(a, a) /\ (Begins(a, b) => Begins(a, Append(b, e)))
<1>1. Len(a) \in Nat /\ Len(b) \in Nat /\ Len(Append(b, e)) = Len(b) + 1
      /\ \A i \in 1 .. Len(b) : Append(b, e)[i] = b[i]
  OBVIOUS
<1>2. QED BY <1>1 DEF Begins

LEMMA WithinBegins ==
  ASSUME NEW S, NEW q \in Seq(S), NEW r \in Seq(S), NEW set, Begins(q, r)
  PROVE  Begins(Within(q, set), Within(r, set))
<1>0. Len(q) \in Nat /\ Len(r) \in Nat
  OBVIOUS
<1>1. PICK n \in Nat, k \in Nat :
        n = Len(q) /\ k = Len(r) /\ n <= k /\ \A i \in 1 .. n : q[i] = r[i]
  BY <1>0 DEF Begins
<1>2. PICK f : Steps(q, set, f, n) /\ Within(q, set) = f[n]
  BY <1>1, WithinSteps
<1>3. PICK g : /\ Steps(r, set, g, k) /\ Within(r, set) = g[k]
                /\ \A i \in 0 .. k : g[i] \in Seq(S)
  BY <1>1, WithinSteps
<1>4. f[n] = g[n]
  <2>1. \A i \in 1 .. n : i \in 1 .. k
    BY <1>1
  <2>2. Steps(r, set, g, n)
    BY <1>3, <2>1 DEF Steps
  <2>3. \A i \in 0 .. n : f[i] = g[i]
    BY <1>1, <1>2, <2>2, StepsAgree
  <2>4. QED BY <1>1, <2>3
<1> DEFINE bad == {j \in Nat : n <= j /\ j <= k /\ ~Begins(g[n], g[j])}
<1>5. bad = {}
  <2> SUFFICES ASSUME bad # {} PROVE FALSE
    OBVIOUS
  <2>1. PICK j \in bad : \A i \in bad : j <= i
    BY Least
  <2>2. g[n] \in Seq(S) /\ g[j] \in Seq(S)
    BY <1>1, <1>3, <2>1
  <2>3. Begins(g[n], g[n])
    BY <2>2 DEF Begins
  <2>4. j - 1 \in Nat /\ j \in 1 .. k /\ n <= j - 1 /\ j - 1 <= k
    BY <1>1, <2>1, <2>3
  <2>5. Begins(g[n], g[j - 1])
    BY <2>1, <2>4
  <2>6. g[j - 1] \in Seq(S) /\ r[j] \in S
    BY <1>1, <1>3, <2>4
  <2>7. g[j] = g[j - 1] \/ g[j] = Append(g[j - 1], r[j])
    BY <1>3, <2>4 DEF Steps
  <2>8. Begins(g[n], g[j])
    BY <2>2, <2>5, <2>6, <2>7, BeginsAppend
  <2>9. QED BY <2>1, <2>8
<1>6. Begins(g[n], g[k])
  BY <1>1, <1>5
<1>7. QED BY <1>2, <1>3, <1>4, <1>6

-----------------------------------------------------------------------------
(* The connections.                                                        *)

(* Nothing is sent to a connection before it is registered, and nothing is *)
(* on its way once it is gone.                                             *)
Fresh == \A s \in Sessions :
  phase[s] \notin Open =>
    /\ queue[s] = <<>>
    /\ inflight[s] = 0
    /\ phase[s] = "dead" \/ written[s] = <<>>

Inv == TypeOK /\ ConnectionsLive /\ WriteChain /\ Fresh /\ HostIsTold

USE ServerAssumption

(* The messages of the server are messages, and only one of them makes a   *)
(* client the host.                                                        *)
LEMMA MessageTypes ==
  ASSUME TypeOK, NEW s \in Sessions, NEW k \in Nat
  PROVE  /\ Ack \in Messages /\ Ack # Configure
         /\ Configure \in Messages
         /\ Disconnect(s) \in Messages /\ Disconnect(s) # Configure
         /\ ~ForServer(k) => Relayed(s, k) \in Messages /\ Relayed(s, k) # Configure
BY DEF TypeOK, Messages, Kinds, Ack, Configure, Disconnect, Relayed, ForServer, FrameKind

(* A queue is not empty after a push.                                      *)
LEMMA AppendNotEmpty ==
  ASSUME NEW S, NEW q \in Seq(S), NEW m \in S PROVE Append(q, m) # <<>>
OBVIOUS

(* What occurs in a queue after a push, and after a pop.                   *)
LEMMA OccursInAppend ==
  ASSUME NEW S, NEW q \in Seq(S), NEW e \in S, NEW m
  PROVE  Occurs(m, Append(q, e)) <=> Occurs(m, q) \/ e = m
<1>1. Occurs(m, Append(q, e)) => Occurs(m, q) \/ e = m
  BY DEF Occurs
<1>2. Occurs(m, q) => Occurs(m, Append(q, e))
  <2>1. ASSUME NEW i \in 1 .. Len(q), q[i] = m
        PROVE  i \in 1 .. Len(Append(q, e)) /\ Append(q, e)[i] = m
    BY <2>1
  <2>2. QED BY <2>1 DEF Occurs
<1>3. e = m => Occurs(m, Append(q, e))
  <2>1. /\ Len(q) + 1 \in 1 .. Len(Append(q, e))
        /\ Append(q, e)[Len(q) + 1] = e
    OBVIOUS
  <2>2. QED BY <2>1 DEF Occurs
<1>4. QED BY <1>1, <1>2, <1>3

(* A queue with others after it.                                           *)
LEMMA ConcatSeq ==
  ASSUME NEW S, NEW a \in Seq(S), NEW b \in Seq(S) PROVE a \o b \in Seq(S)
OBVIOUS

(* A queue without its head.                                               *)
LEMMA TailFacts ==
  ASSUME NEW S, NEW q \in Seq(S), q # <<>>
  PROVE  Tail(q) \in Seq(S) /\ (Len(q) > 1 <=> Tail(q) # <<>>)
<1>1. Len(q) \in Nat /\ Len(q) # 0
  OBVIOUS
<1>2. Tail(q) \in Seq(S) /\ Len(Tail(q)) = Len(q) - 1
  BY <1>1
<1>3. Tail(q) = <<>> <=> Len(Tail(q)) = 0
  BY <1>2, EmptySeq
<1>4. QED BY <1>1, <1>2, <1>3

(* What a queue holds is its head or is in the rest.                       *)
LEMMA OccursInTail ==
  ASSUME NEW S, NEW q \in Seq(S), q # <<>>, NEW m
  PROVE  Occurs(m, q) <=> Head(q) = m \/ Occurs(m, Tail(q))
<1>1. ASSUME NEW i \in 1 .. Len(q), q[i] = m, Head(q) # m
      PROVE  i - 1 \in 1 .. Len(Tail(q)) /\ Tail(q)[i - 1] = m
  BY <1>1
<1>2. ASSUME NEW i \in 1 .. Len(Tail(q)), Tail(q)[i] = m
      PROVE  i + 1 \in 1 .. Len(q) /\ q[i + 1] = m
  BY <1>2
<1>3. Head(q) = m => 1 \in 1 .. Len(q) /\ q[1] = m
  OBVIOUS
<1>4. QED BY <1>1, <1>2, <1>3 DEF Occurs

(* What every push onto write queues has in common: the chain of writes of *)
(* the session t is intact, and t is not told that it is the host.         *)
Pushed(t) ==
  /\ inflight'[t] >= inflight[t]
  /\ inflight'[t] <= 1
  /\ inflight'[t] = 1 => queue'[t] # <<>>
  /\ queue'[t] # <<>> => inflight'[t] = 1 \/ link[t] = "down" \/ early'[t]
  /\ Occurs(Configure, queue'[t]) <=> Occurs(Configure, queue[t])
  /\ t \notin registered => queue'[t] = queue[t] /\ inflight'[t] = inflight[t]

QueueTypes == /\ queue \in [Sessions -> Seq(Messages)]
              /\ inflight \in [Sessions -> Nat]
              /\ early \in [Sessions -> BOOLEAN]

ChainOf(t) ==
  /\ queue[t] \in Seq(Messages)
  /\ inflight[t] \in 0 .. 1
  /\ early[t] \in BOOLEAN
  /\ inflight[t] = 1 => queue[t] # <<>>
  /\ queue[t] # <<>> => inflight[t] = 1 \/ link[t] = "down" \/ early[t]

(* The chain of writes of every session, one at a time.                    *)
LEMMA ChainFacts == Inv => \A t \in Sessions : ChainOf(t)
BY DEF Inv, TypeOK, WriteChain, ChainOf

(* queue_write to any number of registered sessions.                       *)
LEMMA QueueWritePushes ==
  ASSUME Inv, NEW out \in [Sessions -> Seq(Messages)], QueueWrite(out),
         \A t \in Sessions :
           \/ out[t] = <<>>
           \/ t \in registered /\ \E m \in Messages : m # Configure /\ out[t] = <<m>>
  PROVE  QueueTypes' /\ \A t \in Sessions : Pushed(t)
<1>1. QueueTypes'
  <2>1. queue' \in [Sessions -> Seq(Messages)]
    <3>1. queue' = [t \in Sessions |-> queue[t] \o out[t]]
      BY DEF QueueWrite
    <3>2. \A t \in Sessions : queue[t] \in Seq(Messages) /\ out[t] \in Seq(Messages)
      BY DEF Inv, TypeOK
    <3>3. \A t \in Sessions : queue[t] \o out[t] \in Seq(Messages)
      BY <3>2, ConcatSeq
    <3>4. QED BY <3>1, <3>3
  <2>2. inflight' \in [Sessions -> Nat]
    <3>1. inflight' = [t \in Sessions |->
                         inflight[t] + (IF out[t] # <<>> /\ Launches(t) THEN 1 ELSE 0)]
      BY DEF QueueWrite
    <3>2. \A t \in Sessions : inflight[t] \in Nat
      BY DEF Inv, TypeOK
    <3>3. ASSUME NEW t \in Sessions
          PROVE  inflight[t] + (IF out[t] # <<>> /\ Launches(t) THEN 1 ELSE 0) \in Nat
      <4>1. inflight[t] + 1 \in Nat /\ inflight[t] + 0 \in Nat
        BY <3>2
      <4>2. CASE out[t] # <<>> /\ Launches(t)
        BY <4>1, <4>2
      <4>3. CASE ~(out[t] # <<>> /\ Launches(t))
        BY <4>1, <4>3
      <4>4. QED BY <4>2, <4>3
    <3>4. QED BY <3>1, <3>3
  <2>3. early' \in [Sessions -> BOOLEAN]
    BY DEF Inv, TypeOK, QueueWrite
  <2>4. QED BY <2>1, <2>2, <2>3 DEF QueueTypes
<1>2. ASSUME NEW t \in Sessions PROVE Pushed(t)
  <2>0. ChainOf(t)
    BY ChainFacts
  <2>1. CASE out[t] = <<>>
    <3>1. /\ queue'[t] = queue[t]
          /\ inflight'[t] = inflight[t]
          /\ early'[t] = early[t]
      BY <2>0, <2>1 DEF QueueWrite, ChainOf
    <3>2. QED BY <2>0, <3>1 DEF Pushed, ChainOf
  <2>2. CASE t \in registered /\ \E m \in Messages : m # Configure /\ out[t] = <<m>>
    <3>1. PICK m \in Messages : m # Configure /\ out[t] = <<m>>
      BY <2>2
    <3>2. out[t] # <<>>
      BY <3>1
    <3>0. queue'[t] = queue[t] \o <<m>>
      BY <3>1 DEF QueueWrite
    <3>3. queue'[t] = Append(queue[t], m) /\ queue'[t] # <<>>
      BY <2>0, <3>0 DEF ChainOf
    <3>4. inflight'[t] = inflight[t] + (IF queue[t] = <<>> THEN 1 ELSE 0)
      BY <3>2 DEF QueueWrite, Launches
    <3>5. queue[t] # <<>> => early'[t] = early[t]
      BY <3>2 DEF QueueWrite, Launches
    <3>6. Occurs(Configure, queue'[t]) <=> Occurs(Configure, queue[t])
      BY <2>0, <3>1, <3>3, OccursInAppend DEF ChainOf
    <3>7. QED BY <2>0, <2>2, <3>3, <3>4, <3>5, <3>6 DEF Pushed, ChainOf
  <2>3. QED BY <2>1, <2>2
<1>3. QED BY <1>1, <1>2

(* The destructor pushes onto the queues of the others, and dies with its  *)
(* own.                                                                    *)
LEMMA DestroyPushes ==
  ASSUME Inv, NEW s \in registered, Destroy(s)
  PROVE  /\ QueueTypes'
         /\ \A t \in Sessions \ {s} : Pushed(t)
         /\ queue'[s] = <<>> /\ inflight'[s] = 0
<1>0. s \in Sessions /\ Disconnect(s) \in Messages /\ Disconnect(s) # Configure
  BY MessageTypes, 0 \in Nat DEF Inv, TypeOK
<1>1. QueueTypes'
  <2>1. queue' \in [Sessions -> Seq(Messages)]
    <3>1. ASSUME NEW t \in Sessions
          PROVE  Append(queue[t], Disconnect(s)) \in Seq(Messages) /\ queue[t] \in Seq(Messages)
      BY <1>0, ChainFacts DEF ChainOf
    <3>2. QED BY <3>1 DEF Destroy
  <2>2. inflight' \in [Sessions -> Nat]
    BY DEF Inv, TypeOK, Destroy
  <2>3. early' \in [Sessions -> BOOLEAN]
    BY DEF Inv, TypeOK, Destroy
  <2>4. QED BY <2>1, <2>2, <2>3 DEF QueueTypes
<1>2. queue'[s] = <<>> /\ inflight'[s] = 0
  BY <1>0 DEF Destroy
<1>3. ASSUME NEW t \in Sessions \ {s} PROVE Pushed(t)
  <2>0. ChainOf(t)
    BY ChainFacts
  <2>1. CASE t \notin registered
    <3>1. /\ queue'[t] = queue[t]
          /\ inflight'[t] = inflight[t]
          /\ early'[t] = early[t]
      BY <2>0, <2>1 DEF Destroy, ChainOf
    <3>2. QED BY <2>0, <3>1 DEF Pushed, ChainOf
  <2>2. CASE t \in registered
    <3>0. queue'[t] = Append(queue[t], Disconnect(s))
      BY <2>2 DEF Destroy
    <3>1. queue[t] \in Seq(Messages) /\ queue'[t] # <<>>
      <4>1. queue[t] \in Seq(Messages)
        BY <2>0 DEF ChainOf
      <4>2. QED BY <1>0, <3>0, <4>1, AppendNotEmpty
    <3>2. inflight'[t] = inflight[t] + (IF queue[t] = <<>> THEN 1 ELSE 0)
      BY <2>2 DEF Destroy, Launches
    <3>3. queue[t] # <<>> => early'[t] = early[t]
      BY <2>2 DEF Destroy, Launches
    <3>4. Occurs(Configure, queue'[t]) <=> Occurs(Configure, queue[t])
      BY <1>0, <3>0, <3>1, OccursInAppend
    <3>5. QED BY <2>0, <2>2, <3>0, <3>1, <3>2, <3>3, <3>4 DEF Pushed, ChainOf
  <2>3. QED BY <2>1, <2>2
<1>4. QED BY <1>1, <1>2, <1>3

(* The state read by the conjuncts of Inv, at one session.                 *)
HostOf(t) == host = t <=> Occurs(Configure, written[t]) \/ Occurs(Configure, queue[t])

(* What a registered session may know of the host.                         *)
LEMMA HostFacts == Inv => \A t \in registered : t \in Sessions /\ HostOf(t)
BY DEF Inv, TypeOK, HostIsTold, HostOf

-----------------------------------------------------------------------------
(* A registered session is destroyed.                                      *)
LEMMA DestroyStep ==
  ASSUME Inv, NEW s \in registered, Destroy(s),
         written' \in [Sessions -> Seq(Messages)],
         \A t \in Sessions \ {s} : written'[t] = written[t],
         UNCHANGED <<running, listening, link, reads, since>>
  PROVE  Inv'
<1>0. s \in Sessions /\ Disconnect(s) \in Messages
  BY MessageTypes, 0 \in Nat DEF Inv, TypeOK
<1>p. /\ QueueTypes'
      /\ \A t \in Sessions \ {s} : Pushed(t)
      /\ queue'[s] = <<>> /\ inflight'[s] = 0
  BY DestroyPushes
<1>1. TypeOK'
  <2>1. phase' \in [Sessions -> Phases] /\ user' \in [Sessions -> Names \cup {NoName}]
    BY <1>0 DEF Inv, TypeOK, Destroy, Phases
  <2>2. log' \in Seq(Messages)
    BY <1>0 DEF Inv, TypeOK, Destroy
  <2>3. host' \in Sessions \cup {NoSession} /\ registered' \subseteq Sessions
    BY DEF Inv, TypeOK, Destroy, HostWithout
  <2>4. QED BY <1>p, <2>1, <2>2, <2>3 DEF Inv, TypeOK, QueueTypes
<1>2. ConnectionsLive'
  <2>1. registered' = {t \in Sessions : phase'[t] \in Open}
    BY <1>0 DEF Inv, TypeOK, ConnectionsLive, Destroy, Open
  <2>2. host' = NoSession \/ host' \in registered'
    BY <1>0 DEF Inv, ConnectionsLive, Destroy, HostWithout
  <2>3. ASSUME NEW t \in Sessions, phase'[t] = "draining" PROVE inflight'[t] > 0
    <3>1. t # s /\ phase[t] = "draining"
      BY <1>0, <2>3 DEF Inv, TypeOK, Destroy
    <3>2. QED BY <3>1, <1>p DEF Inv, ConnectionsLive, Pushed, TypeOK, QueueTypes
  <2>4. QED BY <2>1, <2>2, <2>3 DEF ConnectionsLive
<1>3. WriteChain'
  BY <1>p DEF WriteChain, Pushed
<1>4. Fresh'
  <2>1. ASSUME NEW t \in Sessions, phase'[t] \notin Open
        PROVE  /\ queue'[t] = <<>> /\ inflight'[t] = 0
               /\ phase'[t] = "dead" \/ written'[t] = <<>>
    <3>1. CASE t = s
      BY <3>1, <1>0, <1>p DEF Inv, TypeOK, Destroy
    <3>2. CASE t # s
      <4>1. phase'[t] = phase[t] /\ t \notin registered
        BY <3>2, <2>1 DEF Inv, TypeOK, Destroy, ConnectionsLive
      <4>2. QED BY <3>2, <2>1, <4>1, <1>p DEF Inv, Fresh, Pushed
    <3>3. QED BY <3>1, <3>2
  <2>2. QED BY <2>1 DEF Fresh
<1>5. HostIsTold'
  <2>1. ASSUME NEW t \in registered' PROVE HostOf(t)'
    <3>1. t \in Sessions \ {s} /\ t \in registered /\ HostOf(t)
      BY HostFacts DEF Destroy
    <3>2. Occurs(Configure, written'[t]) <=> Occurs(Configure, written[t])
      BY <3>1
    <3>3. Occurs(Configure, queue'[t]) <=> Occurs(Configure, queue[t])
      BY <3>1, <1>p DEF Pushed
    <3>4. host' = t <=> host = t
      BY <3>1, <1>0 DEF Destroy, HostWithout
    <3>5. QED BY <3>1, <3>2, <3>3, <3>4 DEF HostOf
  <2>2. QED BY <2>1 DEF HostIsTold, HostOf
<1>6. QED BY <1>1, <1>2, <1>3, <1>4, <1>5 DEF Inv

(* A handler ends without starting another operation.                      *)
LEMMA ReleaseStep ==
  ASSUME Inv, NEW s \in registered, Release(s),
         UNCHANGED <<running, listening, link, reads, written, since>>
  PROVE  Inv'
<1>1. CASE inflight[s] > 0
  <2>0. /\ s \in Sessions
        /\ phase' = [phase EXCEPT ![s] = "draining"]
        /\ UNCHANGED <<queue, inflight, early, registered, user, host, log>>
    BY <1>1 DEF Release, Inv, TypeOK
  <2>1. TypeOK'
    BY <2>0 DEF Inv, TypeOK, Phases
  <2>2. ConnectionsLive'
    BY <2>0, <1>1 DEF Inv, TypeOK, ConnectionsLive, Open
  <2>3. WriteChain' /\ HostIsTold'
    BY <2>0 DEF Inv, WriteChain, HostIsTold
  <2>4. Fresh'
    BY <2>0 DEF Inv, TypeOK, Fresh, Open
  <2>5. QED BY <2>1, <2>2, <2>3, <2>4 DEF Inv
<1>2. CASE ~(inflight[s] > 0)
  <2>1. Destroy(s)
    BY <1>2 DEF Release
  <2>2. QED BY <2>1, DestroyStep DEF Inv, TypeOK
<1>3. QED BY <1>1, <1>2

-----------------------------------------------------------------------------
(* Every handler preserves the invariant.                                  *)
LEMMA OutsideStep ==
  ASSUME Inv, NEW s \in Sessions,
         Stop \/ AcceptFailed \/ Accept(s) \/ HttpClosed(s) \/ LinkDown(s)
  PROVE  Inv'
<1>1. CASE Stop \/ AcceptFailed
  BY <1>1 DEF Stop, AcceptFailed, Inv, TypeOK, ConnectionsLive, WriteChain, Fresh, HostIsTold
<1>2. CASE Accept(s) \/ HttpClosed(s)
  <2>0. /\ phase[s] \in {"new", "http"}
        /\ \E p \in {"http", "dead"} :
             /\ phase' = [phase EXCEPT ![s] = p]
             /\ phase[s] = "new" \/ p = "dead"
        /\ UNCHANGED <<running, listening, link, queue, inflight, early, registered,
                       user, host, reads, written, log, since>>
    BY <1>2 DEF Accept, HttpClosed
  <2>1. TypeOK' /\ ConnectionsLive'
    BY <2>0 DEF Inv, TypeOK, Phases, ConnectionsLive, Open
  <2>2. WriteChain' /\ HostIsTold'
    BY <2>0 DEF Inv, WriteChain, HostIsTold
  <2>3. Fresh'
    BY <2>0 DEF Inv, TypeOK, Fresh, Open
  <2>4. QED BY <2>1, <2>2, <2>3 DEF Inv
<1>3. CASE LinkDown(s)
  <2>1. TypeOK' /\ ConnectionsLive'
    BY <1>3 DEF LinkDown, Inv, TypeOK, ConnectionsLive
  <2>2. WriteChain'
    BY <1>3 DEF LinkDown, Inv, TypeOK, WriteChain
  <2>3. Fresh' /\ HostIsTold'
    BY <1>3 DEF LinkDown, Inv, Fresh, HostIsTold
  <2>4. QED BY <2>1, <2>2, <2>3 DEF Inv
<1>4. QED BY <1>1, <1>2, <1>3

(* A request to upgrade makes a websocket session, with empty queues.      *)
LEMMA UpgradeStep == ASSUME Inv, NEW s \in Sessions, Upgrade(s) PROVE Inv'
<1>1. TypeOK'
  BY DEF Inv, TypeOK, Upgrade, Phases
<1>2. ConnectionsLive'
  BY DEF Inv, TypeOK, ConnectionsLive, Open, Upgrade
<1>3. WriteChain' /\ Fresh'
  BY DEF Inv, TypeOK, WriteChain, Fresh, Open, Upgrade
<1>4. HostIsTold'
  <2>1. host # s /\ queue[s] = <<>> /\ written[s] = <<>>
    BY DEF Inv, Upgrade, Fresh, ConnectionsLive, Open, TypeOK
  <2>2. HostOf(s)'
    BY <2>1 DEF HostOf, Occurs, Upgrade
  <2>3. QED BY <2>2 DEF HostOf, HostIsTold, Upgrade, Inv
<1>5. QED BY <1>1, <1>2, <1>3, <1>4 DEF Inv

(* The end of the handshake.                                               *)
LEMMA OnAcceptStep == ASSUME Inv, NEW s \in Sessions, OnAccept(s) PROVE Inv'
<1>0. s \in registered /\ ChainOf(s)
  BY ChainFacts DEF OnAccept, Inv, ConnectionsLive, Open
<1>1. CASE ClaimsHost(s)
  <2>0. /\ host = NoSession /\ host' = s
        /\ queue' = [queue EXCEPT ![s] = Append(@, Configure)]
        /\ inflight' = [inflight EXCEPT ![s] = IF queue[s] = <<>> THEN @ + 1 ELSE @]
        /\ UNCHANGED early
    BY <1>1 DEF OnAccept, ClaimsHost, Launches
  <2>1. /\ Configure \in Messages
        /\ Append(queue[s], Configure) \in Seq(Messages)
        /\ Append(queue[s], Configure) # <<>>
    <3>1. Configure \in Messages
      BY DEF Configure, Messages, Kinds
    <3>2. QED BY <3>1, <1>0 DEF ChainOf
  <2>2. TypeOK'
    BY <2>0, <2>1 DEF OnAccept, Inv, TypeOK, Phases
  <2>3. ConnectionsLive'
    BY <1>0, <2>0 DEF OnAccept, Inv, TypeOK, ConnectionsLive, Open
  <2>4. WriteChain'
    <3>1. ASSUME NEW t \in Sessions, t # s PROVE ChainOf(t)'
      BY <3>1, <2>0, ChainFacts DEF ChainOf, OnAccept, Inv, TypeOK
    <3>2. /\ queue'[s] = Append(queue[s], Configure)
          /\ inflight'[s] = inflight[s] + (IF queue[s] = <<>> THEN 1 ELSE 0)
          /\ early'[s] = early[s] /\ link'[s] = link[s]
      BY <2>0, <1>0 DEF OnAccept, Inv, TypeOK, ChainOf
    <3>3. ChainOf(s)'
      BY <1>0, <2>1, <3>2 DEF ChainOf
    <3>4. QED BY <3>1, <3>3 DEF ChainOf, WriteChain
  <2>5. Fresh'
    BY <2>0 DEF OnAccept, Inv, TypeOK, Fresh, Open
  <2>6. HostIsTold'
    <3>1. ASSUME NEW t \in registered', t # s PROVE HostOf(t)'
      BY <3>1, <2>0, HostFacts DEF HostOf, OnAccept, Inv, TypeOK
    <3>2. HostOf(s)'
      <4>1. queue'[s] = Append(queue[s], Configure)
        BY <2>0 DEF Inv, TypeOK
      <4>2. Occurs(Configure, queue'[s])
        BY <4>1, <2>1, <1>0, OccursInAppend DEF ChainOf
      <4>3. QED BY <4>2, <2>0 DEF HostOf
    <3>3. QED BY <3>1, <3>2 DEF HostOf, HostIsTold
  <2>7. QED BY <2>2, <2>3, <2>4, <2>5, <2>6 DEF Inv
<1>2. CASE ~ClaimsHost(s)
  <2>0. UNCHANGED <<host, queue, inflight, early>>
    BY <1>2 DEF OnAccept
  <2>1. TypeOK' /\ ConnectionsLive'
    BY <2>0 DEF OnAccept, Inv, TypeOK, Phases, ConnectionsLive, Open
  <2>2. WriteChain' /\ HostIsTold'
    BY <2>0 DEF OnAccept, Inv, WriteChain, HostIsTold
  <2>3. Fresh'
    BY <2>0 DEF OnAccept, Inv, TypeOK, Fresh, Open
  <2>4. QED BY <2>1, <2>2, <2>3 DEF Inv
<1>3. QED BY <1>1, <1>2

(* A frame is read: the session is named, made host or relays it.          *)
LEMMA OnReadStep == ASSUME Inv, NEW s \in Sessions, OnRead(s) PROVE Inv'
<1>0. /\ s \in registered /\ phase[s] = "reading" /\ reads[s] \in Nat
      /\ reads' = [reads EXCEPT ![s] = @ + 1]
      /\ UNCHANGED <<running, listening, phase, link, registered, host, written, since>>
  BY DEF OnRead, Inv, TypeOK, ConnectionsLive, Open
<1>1. /\ QueueTypes' /\ \A t \in Sessions : Pushed(t)
      /\ log' \in Seq(Messages)
      /\ user' \in [Sessions -> Names \cup {NoName}]
  <2>1. CASE ForServer(reads[s])
    <3> DEFINE out == [t \in Sessions |-> IF t = s THEN <<Ack>> ELSE <<>>]
    <3>1. QueueWrite(out) /\ user' = [user EXCEPT ![s] = NameOf[s]] /\ UNCHANGED log
      BY <2>1 DEF OnRead
    <3>2. Ack \in Messages /\ Ack # Configure
      BY <1>0, MessageTypes DEF Inv
    <3>3. /\ out \in [Sessions -> Seq(Messages)]
          /\ \A t \in Sessions :
               \/ out[t] = <<>>
               \/ t \in registered /\ \E m \in Messages : m # Configure /\ out[t] = <<m>>
      BY <3>2, <1>0
    <3> HIDE DEF out
    <3>4. QueueTypes' /\ \A t \in Sessions : Pushed(t)
      BY <3>1, <3>3, QueueWritePushes
    <3>5. QED BY <3>1, <3>4 DEF Inv, TypeOK
  <2>2. CASE ~ForServer(reads[s])
    <3> DEFINE m == Relayed(s, reads[s])
               out == [Alert(s, m) EXCEPT ![s] = <<Ack>> \o @]
    <3>1. QueueWrite(out) /\ log' = Append(log, m) /\ UNCHANGED user
      BY <2>2 DEF OnRead
    <3>2. Ack \in Messages /\ Ack # Configure /\ m \in Messages /\ m # Configure
      BY <1>0, <2>2, MessageTypes DEF Inv
    <3> HIDE DEF m
    <3>3. ASSUME NEW t \in Sessions
          PROVE  out[t] = IF t = s THEN <<Ack>> ELSE IF t \in registered THEN <<m>> ELSE <<>>
      BY <3>2 DEF Alert
    <3>4. /\ out \in [Sessions -> Seq(Messages)]
          /\ \A t \in Sessions :
               \/ out[t] = <<>>
               \/ t \in registered /\ \E x \in Messages : x # Configure /\ out[t] = <<x>>
      <4>0. <<>> \in Seq(Messages) /\ <<Ack>> \in Seq(Messages) /\ <<m>> \in Seq(Messages)
        BY <3>2
      <4>1. ASSUME NEW t \in Sessions PROVE out[t] \in Seq(Messages)
        BY <3>3, <4>0
      <4>2. out \in [Sessions -> Seq(Messages)]
        BY <4>1 DEF Alert
      <4>3. QED BY <3>2, <3>3, <4>2, <1>0
    <3> HIDE DEF out
    <3>5. QueueTypes' /\ \A t \in Sessions : Pushed(t)
      BY <3>1, <3>4, QueueWritePushes
    <3>6. log' \in Seq(Messages)
      BY <3>1, <3>2 DEF Inv, TypeOK
    <3>7. QED BY <3>1, <3>5, <3>6 DEF Inv, TypeOK
  <2>3. QED BY <2>1, <2>2
<1>2. TypeOK'
  <2>1. reads' \in [Sessions -> Nat]
    BY <1>0 DEF Inv, TypeOK
  <2>2. QED BY <1>0, <1>1, <2>1 DEF Inv, TypeOK, QueueTypes
<1>3. ConnectionsLive'
  <2>1. ASSUME NEW t \in Sessions, phase[t] = "draining" PROVE inflight'[t] > 0
    <3>1. inflight[t] \in Nat /\ inflight'[t] \in Nat /\ inflight[t] > 0
      BY <2>1, <1>1 DEF Inv, TypeOK, ConnectionsLive, QueueTypes
    <3>2. QED BY <3>1, <1>1 DEF Pushed
  <2>2. QED BY <2>1, <1>0 DEF Inv, ConnectionsLive
<1>4. WriteChain'
  BY <1>0, <1>1 DEF WriteChain, Pushed
<1>5. Fresh'
  BY <1>0, <1>1 DEF Inv, Fresh, ConnectionsLive, Open, Pushed
<1>6. HostIsTold'
  BY <1>0, <1>1 DEF Inv, TypeOK, HostIsTold, Pushed
<1>7. QED BY <1>2, <1>3, <1>4, <1>5, <1>6 DEF Inv

(* A write ends, and the next one is launched if a message waits.          *)
LEMMA OnWriteStep == ASSUME Inv, NEW s \in Sessions, OnWrite(s) PROVE Inv'
<1>0. /\ s \in registered /\ ChainOf(s) /\ queue[s] # <<>>
      /\ Head(queue[s]) \in Messages
      /\ Append(written[s], Head(queue[s])) \in Seq(Messages)
      /\ written' = [written EXCEPT ![s] = Append(@, Head(queue[s]))]
      /\ UNCHANGED <<running, listening, link, reads, since>>
  <2>1. s \in registered /\ ChainOf(s) /\ queue[s] # <<>>
    BY ChainFacts DEF OnWrite, Inv, ConnectionsLive, Open, ChainOf
  <2>2. Head(queue[s]) \in Messages
    BY <2>1 DEF ChainOf
  <2>3. QED BY <2>1, <2>2 DEF OnWrite, Inv, TypeOK
<1>1. written' \in [Sessions -> Seq(Messages)]
  BY <1>0 DEF Inv, TypeOK
<1>2. CASE Destroy(s)
  BY <1>0, <1>1, <1>2, DestroyStep DEF Inv, TypeOK
<1>3. CASE /\ phase[s] = "reading" \/ AnotherWaits(s)
           /\ queue' = [queue EXCEPT ![s] = Tail(@)]
           /\ inflight' = [inflight EXCEPT ![s] = IF AnotherWaits(s) THEN @ ELSE @ - 1]
           /\ early' = [early EXCEPT ![s] = FALSE]
           /\ UNCHANGED <<phase, registered, user, host, log>>
  <2>0. /\ Tail(queue[s]) \in Seq(Messages)
        /\ inflight[s] = 1
        /\ AnotherWaits(s) <=> Tail(queue[s]) # <<>>
        /\ queue'[s] = Tail(queue[s])
        /\ inflight'[s] = IF AnotherWaits(s) THEN 1 ELSE 0
    <3>1. queue[s] \in Seq(Messages) /\ inflight[s] = 1
      BY <1>0 DEF ChainOf, OnWrite
    <3>2. Tail(queue[s]) \in Seq(Messages) /\ (AnotherWaits(s) <=> Tail(queue[s]) # <<>>)
      BY <3>1, <1>0, TailFacts DEF AnotherWaits
    <3>3. queue'[s] = Tail(queue[s]) /\ inflight'[s] = IF AnotherWaits(s) THEN 1 ELSE 0
      BY <3>1, <1>3 DEF Inv, TypeOK
    <3>4. QED BY <3>1, <3>2, <3>3
  <2>1. TypeOK'
    <3>1. inflight' \in [Sessions -> Nat]
      BY <1>3, <2>0 DEF Inv, TypeOK
    <3>2. queue' \in [Sessions -> Seq(Messages)] /\ early' \in [Sessions -> BOOLEAN]
      BY <1>3, <2>0 DEF Inv, TypeOK
    <3>3. QED BY <1>0, <1>1, <1>3, <3>1, <3>2 DEF Inv, TypeOK
  <2>2. ConnectionsLive'
    <3>1. ASSUME NEW t \in Sessions, phase'[t] = "draining" PROVE inflight'[t] > 0
      <4>1. CASE t = s
        BY <3>1, <4>1, <1>3, <2>0
      <4>2. CASE t # s
        BY <3>1, <4>2, <1>3 DEF Inv, TypeOK, ConnectionsLive
      <4>3. QED BY <4>1, <4>2
    <3>2. QED BY <3>1, <1>3 DEF Inv, ConnectionsLive
  <2>3. WriteChain'
    <3>1. ASSUME NEW t \in Sessions, t # s PROVE ChainOf(t)'
      BY <3>1, <1>0, <1>3, ChainFacts DEF ChainOf, Inv, TypeOK
    <3>2. /\ inflight'[s] <= 1
          /\ inflight'[s] = 1 <=> queue'[s] # <<>>
      BY <2>0
    <3>3. QED BY <3>1, <3>2 DEF ChainOf, WriteChain
  <2>4. Fresh'
    <3>1. phase[s] \in Open
      BY <1>0 DEF Inv, ConnectionsLive
    <3>2. QED BY <3>1, <1>0, <1>3 DEF Inv, TypeOK, Fresh
  <2>5. HostIsTold'
    <3>1. ASSUME NEW t \in registered', t # s PROVE HostOf(t)'
      BY <3>1, <1>0, <1>3, HostFacts DEF HostOf, Inv, TypeOK
    <3>2. HostOf(s)'
      <4>1. /\ written'[s] = Append(written[s], Head(queue[s]))
            /\ written[s] \in Seq(Messages) /\ queue[s] \in Seq(Messages)
        BY <1>0 DEF Inv, TypeOK
      <4>2. Occurs(Configure, written'[s])
              <=> Occurs(Configure, written[s]) \/ Head(queue[s]) = Configure
        BY <4>1, <1>0, OccursInAppend
      <4>3. Occurs(Configure, queue[s])
              <=> Head(queue[s]) = Configure \/ Occurs(Configure, queue'[s])
        BY <4>1, <1>0, <2>0, OccursInTail
      <4>4. QED BY <4>2, <4>3, <1>0, <1>3, HostFacts DEF HostOf
    <3>3. QED BY <3>1, <3>2 DEF HostOf, HostIsTold
  <2>6. QED BY <2>1, <2>2, <2>3, <2>4, <2>5 DEF Inv
<1>4. QED BY <1>2, <1>3 DEF OnWrite

(* A failed write launches no other, and may be the last hold on a session.*)
LEMMA OnWriteFailedStep == ASSUME Inv, NEW s \in Sessions, OnWriteFailed(s) PROVE Inv'
<1>0. /\ s \in registered /\ ChainOf(s)
      /\ inflight[s] > 0 /\ (link[s] = "down" \/ early[s])
      /\ UNCHANGED <<running, listening, link, reads, written, since>>
  <2>1. ChainOf(s) /\ inflight[s] > 0 /\ (link[s] = "down" \/ early[s])
    BY ChainFacts DEF OnWriteFailed
  <2>2. s \in registered
    BY <2>1 DEF Inv, TypeOK, ConnectionsLive, Fresh
  <2>3. QED BY <2>1, <2>2 DEF OnWriteFailed
<1>1. CASE Destroy(s)
  BY <1>0, <1>1, DestroyStep DEF Inv, TypeOK
<1>2. CASE /\ phase[s] # "draining"
           /\ inflight' = [inflight EXCEPT ![s] = @ - 1]
           /\ UNCHANGED <<phase, queue, early, registered, user, host, log>>
  <2>1. inflight[s] = 1 /\ inflight' \in [Sessions -> Nat] /\ inflight'[s] = 0
    BY <1>0, <1>2 DEF ChainOf, Inv, TypeOK
  <2>2. TypeOK'
    BY <1>0, <1>2, <2>1 DEF Inv, TypeOK
  <2>3. ConnectionsLive'
    BY <1>0, <1>2, <2>1 DEF Inv, TypeOK, ConnectionsLive
  <2>4. WriteChain'
    <3>1. ASSUME NEW t \in Sessions, t # s PROVE ChainOf(t)'
      BY <3>1, <1>0, <1>2, ChainFacts DEF ChainOf, Inv, TypeOK
    <3>2. QED BY <3>1, <1>0, <1>2, <2>1 DEF ChainOf, WriteChain
  <2>5. Fresh'
    BY <1>0, <1>2, <2>1 DEF Inv, TypeOK, Fresh
  <2>6. HostIsTold'
    BY <1>0, <1>2 DEF Inv, HostIsTold
  <2>7. QED BY <2>2, <2>3, <2>4, <2>5, <2>6 DEF Inv
<1>3. QED BY <1>1, <1>2 DEF OnWriteFailed

-----------------------------------------------------------------------------
(* The server starts in the invariant, without a connection.               *)
LEMMA Start == Init => Inv
<1> SUFFICES ASSUME Init PROVE Inv
  OBVIOUS
<1>1. TypeOK
  BY DEF Init, TypeOK, Phases
<1>2. ConnectionsLive /\ WriteChain /\ Fresh /\ HostIsTold
  BY DEF Init, ConnectionsLive, Open, WriteChain, Fresh, HostIsTold
<1>3. QED BY <1>1, <1>2 DEF Inv

(* Every handler keeps the invariant.                                      *)
LEMMA Step == Inv /\ [Next]_vars => Inv'
<1> SUFFICES ASSUME Inv, [Next]_vars PROVE Inv'
  OBVIOUS
<1>1. CASE Stop \/ AcceptFailed
  BY <1>1 DEF Stop, AcceptFailed, Inv, TypeOK, ConnectionsLive, WriteChain, Fresh, HostIsTold
<1>2. ASSUME NEW s \in Sessions, Handler(s) \/ LinkDown(s) PROVE Inv'
  <2>1. CASE Accept(s) \/ HttpClosed(s) \/ LinkDown(s)
    BY <2>1, OutsideStep
  <2>2. CASE Upgrade(s)
    BY <2>2, UpgradeStep
  <2>3. CASE OnAccept(s)
    BY <2>3, OnAcceptStep
  <2>4. CASE OnAcceptFailed(s)
    <3>1. s \in registered
      BY <2>4 DEF OnAcceptFailed, Inv, ConnectionsLive, Open
    <3>2. QED BY <3>1, <2>4, ReleaseStep DEF OnAcceptFailed
  <2>5. CASE OnRead(s)
    BY <2>5, OnReadStep
  <2>6. CASE OnReadFailed(s)
    <3>1. s \in registered
      BY <2>6 DEF OnReadFailed, Inv, ConnectionsLive, Open
    <3>2. QED BY <3>1, <2>6, ReleaseStep DEF OnReadFailed
  <2>7. CASE OnWrite(s)
    BY <2>7, OnWriteStep
  <2>8. CASE OnWriteFailed(s)
    BY <2>8, OnWriteFailedStep
  <2>9. QED
    BY <1>2, <2>1, <2>2, <2>3, <2>4, <2>5, <2>6, <2>7, <2>8 DEF Handler
<1>3. CASE UNCHANGED vars
  BY <1>3 DEF vars, Inv, TypeOK, ConnectionsLive, WriteChain, Fresh, HostIsTold
<1>4. QED BY <1>1, <1>2, <1>3 DEF Next

(* The invariant, from which the theorems on its parts follow, holds       *)
(* always.                                                                 *)
THEOREM Invariance == Spec => []Inv
BY Start, Step, PTL DEF Spec

(* Every variable of the server keeps its type; in particular on_write     *)
(* never pops an empty queue.                                              *)
THEOREM TypeCorrect == Spec => []TypeOK
<1>1. Inv => TypeOK
  BY DEF Inv
<1>2. QED BY <1>1, Invariance, PTL

(* connections_ never holds a session that is gone, nor misses one that is *)
(* alive, and host_ never dangles.                                         *)
THEOREM NoDanglingSession == Spec => []ConnectionsLive
<1>1. Inv => ConnectionsLive
  BY DEF Inv
<1>2. QED BY <1>1, Invariance, PTL

(* At most one write is outstanding on a stream, and a queue is never      *)
(* stuck but after a failed write.                                         *)
THEOREM WritesAreChained == Spec => []WriteChain
<1>1. Inv => WriteChain
  BY DEF Inv
<1>2. QED BY <1>1, Invariance, PTL

(* The live session that was told that it is the host is the host.         *)
THEOREM OneHost == Spec => []HostIsTold
<1>1. Inv => HostIsTold
  BY DEF Inv
<1>2. QED BY <1>1, Invariance, PTL

(* A host that stays connected stays the host.                             *)
THEOREM HostNeverReplaced == Spec => HostStable
<1>1. ASSUME Inv, [Next]_vars, host # NoSession, host \in registered'
      PROVE  host' = host
  <2>1. ASSUME NEW s \in Sessions, Destroy(s) PROVE host' = host
    BY <1>1, <2>1 DEF Destroy, HostWithout
  <2>2. ASSUME NEW s \in Sessions, Release(s) PROVE host' = host
    BY <2>1, <2>2 DEF Release
  <2>3. ASSUME NEW s \in Sessions, OnAccept(s) PROVE host' = host
    BY <1>1, <2>3 DEF OnAccept, ClaimsHost
  <2>4. CASE Stop \/ AcceptFailed \/ UNCHANGED vars
    BY <2>4 DEF Stop, AcceptFailed, vars
  <2>5. ASSUME NEW s \in Sessions, Handler(s) \/ LinkDown(s) PROVE host' = host
    BY <2>1, <2>2, <2>3, <2>5 DEF Handler, Accept, HttpClosed, Upgrade, OnAcceptFailed,
       OnRead, OnReadFailed, OnWrite, OnWriteFailed, LinkDown
  <2>6. QED BY <1>1, <2>4, <2>5 DEF Next
<1>2. Inv /\ [Next]_vars => [host # NoSession /\ host \in registered' => host' = host]_vars
  BY <1>1
<1>3. QED BY <1>2, Invariance, PTL DEF Spec, HostStable

-----------------------------------------------------------------------------
(* What the sessions are sent.                                             *)

Events == Relayable \cup Departures

(* The same operator, by its name in the abstract specification.           *)
LEMMA SameWithin == \A q, set : Relays!Within(q, set) = Within(q, set)
BY DEF Relays!Within, Within

(* A message pushed, and one written.                                      *)
LEMMA SentFacts ==
  ASSUME NEW S, NEW w \in Seq(S), NEW q \in Seq(S)
  PROVE  /\ w \o q \in Seq(S)
         /\ \A m \in S : w \o Append(q, m) = Append(w \o q, m)
         /\ q # <<>> => Append(w, Head(q)) \o Tail(q) = w \o q
<1>1. w \o q \in Seq(S)
  OBVIOUS
<1>2. ASSUME NEW m \in S PROVE w \o Append(q, m) = Append(w \o q, m)
  <2>1. /\ w \o Append(q, m) \in Seq(S) /\ Append(w \o q, m) \in Seq(S)
        /\ Len(w \o Append(q, m)) = Len(Append(w \o q, m))
    OBVIOUS
  <2>2. \A i \in 1 .. Len(Append(w \o q, m)) : (w \o Append(q, m))[i] = Append(w \o q, m)[i]
    OBVIOUS
  <2>3. QED BY <2>1, <2>2, SeqEqual
<1>3. ASSUME q # <<>> PROVE Append(w, Head(q)) \o Tail(q) = w \o q
  <2>1. /\ Head(q) \in S /\ Tail(q) \in Seq(S) /\ Len(q) \in Nat \ {0} /\ Len(w) \in Nat
        /\ Len(Tail(q)) = Len(q) - 1 /\ \A i \in 1 .. Len(Tail(q)) : Tail(q)[i] = q[i + 1]
        /\ Head(q) = q[1]
    BY <1>3, EmptySeq, HeadTailProperties
  <2>2. /\ Append(w, Head(q)) \o Tail(q) \in Seq(S) /\ w \o q \in Seq(S)
        /\ Len(Append(w, Head(q)) \o Tail(q)) = Len(w \o q)
    BY <2>1
  <2>3. \A i \in 1 .. Len(w \o q) : (Append(w, Head(q)) \o Tail(q))[i] = (w \o q)[i]
    BY <2>1
  <2>4. QED BY <2>2, <2>3, SeqEqual
<1>4. QED BY <1>1, <1>2, <1>3

(* The part of the log that a session is to be sent, of which one was      *)
(* logged.                                                                 *)
LEMMA LogFacts ==
  ASSUME NEW S, NEW l \in Seq(S), NEW n \in Nat, n <= Len(l)
  PROVE  /\ SubSeq(l, n + 1, Len(l)) \in Seq(S)
         /\ n = Len(l) => SubSeq(l, n + 1, Len(l)) = <<>>
         /\ \A e \in S : SubSeq(Append(l, e), n + 1, Len(Append(l, e)))
                           = Append(SubSeq(l, n + 1, Len(l)), e)
<1>1. SubSeq(l, n + 1, Len(l)) \in Seq(S) /\ Len(SubSeq(l, n + 1, Len(l))) = Len(l) - n
  OBVIOUS
<1>2. n = Len(l) => SubSeq(l, n + 1, Len(l)) = <<>>
  BY SubSeqEmpty
<1>3. ASSUME NEW e \in S
      PROVE  SubSeq(Append(l, e), n + 1, Len(Append(l, e))) = Append(SubSeq(l, n + 1, Len(l)), e)
  <2>1. /\ SubSeq(Append(l, e), n + 1, Len(Append(l, e))) \in Seq(S)
        /\ Append(SubSeq(l, n + 1, Len(l)), e) \in Seq(S)
        /\ Len(SubSeq(Append(l, e), n + 1, Len(Append(l, e))))
             = Len(Append(SubSeq(l, n + 1, Len(l)), e))
    BY <1>1
  <2>2. \A i \in 1 .. Len(SubSeq(Append(l, e), n + 1, Len(Append(l, e)))) :
          SubSeq(Append(l, e), n + 1, Len(Append(l, e)))[i]
            = Append(SubSeq(l, n + 1, Len(l)), e)[i]
    BY <1>1
  <2>3. QED BY <2>1, <2>2, SeqEqual
<1>4. QED BY <1>1, <1>2, <1>3

-----------------------------------------------------------------------------
(* What a step does to what sessions are sent.                             *)

Told(t, m) == SentTo(t)' = Append(SentTo(t), m)

(* Nothing is relayed or announced.                                        *)
Quiet ==
  /\ UNCHANGED <<log, since, registered>>
  /\ \A t \in registered : SentTo(t)' = SentTo(t) \/ Told(t, Ack) \/ Told(t, Configure)

(* Event e of the session s is, to all others.                             *)
Announces(s, e) ==
  /\ s \in registered /\ e \in Events /\ e.from = s
  /\ log' = Append(log, e) /\ since' = since
  /\ registered' \subseteq registered
  /\ \A t \in registered' : t # s => Told(t, e)
  /\ s \in registered' => Told(s, Ack)

(* The state of the queues that the lemmas below read.                     *)
LEMMA Sequences ==
  ASSUME Inv
  PROVE  /\ registered \subseteq Sessions /\ log \in Seq(Messages)
         /\ \A t \in Sessions : /\ queue[t] \in Seq(Messages) /\ written[t] \in Seq(Messages)
                                /\ SentTo(t) \in Seq(Messages)
<1>1. \A t \in Sessions : queue[t] \in Seq(Messages) /\ written[t] \in Seq(Messages)
  BY DEF Inv, TypeOK
<1>2. QED BY <1>1, SentFacts DEF Inv, TypeOK, SentTo

(* What is pushed onto the queue of a session is what it is told.          *)
LEMMA PushTells ==
  ASSUME Inv, NEW t \in Sessions, NEW m \in Messages, written'[t] = written[t],
         queue'[t] = Append(queue[t], m)
  PROVE  Told(t, m)
<1>1. queue[t] \in Seq(Messages) /\ written[t] \in Seq(Messages)
  BY Sequences
<1>2. \A w, q \in Seq(Messages) : w \o Append(q, m) = Append(w \o q, m)
  BY SentFacts
<1>3. QED BY <1>1, <1>2 DEF Told, SentTo

(* The others are told of the end of a session.                            *)
LEMMA DestroyAnnounces ==
  ASSUME Inv, NEW s \in registered, Destroy(s), since' = since,
         \A t \in Sessions \ {s} : written'[t] = written[t]
  PROVE  /\ Announces(s, Disconnect(s)) /\ s \notin registered'
         /\ phase' = [phase EXCEPT ![s] = "dead"]
<1>1. s \in Sessions /\ Disconnect(s) \in Messages /\ Disconnect(s) \in Events
      /\ Disconnect(s).from = s
  BY MessageTypes, 0 \in Nat DEF Inv, TypeOK, Events, Departures, Disconnect
<1>2. /\ log' = Append(log, Disconnect(s)) /\ registered' = registered \ {s}
      /\ phase' = [phase EXCEPT ![s] = "dead"]
  BY DEF Destroy
<1>3. ASSUME NEW t \in registered', t # s PROVE Told(t, Disconnect(s))
  <2>1. t \in Sessions /\ t \in registered
    BY <1>2, Sequences
  <2>2. queue'[t] = Append(queue[t], Disconnect(s))
    BY <1>3, <2>1 DEF Destroy
  <2>3. QED BY <1>1, <1>3, <2>1, <2>2, PushTells
<1>4. QED BY <1>1, <1>2, <1>3 DEF Announces

(* A frame read is acknowledged and, unless it is for the server, relayed. *)
LEMMA ReadTells ==
  ASSUME Inv, NEW s \in Sessions, OnRead(s)
  PROVE  /\ s \in registered
         /\ ForServer(reads[s]) => Quiet
         /\ ~ForServer(reads[s]) => Announces(s, Relayed(s, reads[s]))
<1>1. /\ s \in registered /\ reads[s] \in Nat
      /\ UNCHANGED <<since, registered, written>>
  BY DEF OnRead, Inv, TypeOK, ConnectionsLive, Open
<1>2. Ack \in Messages
  BY <1>1, MessageTypes DEF Inv
<1>3. ASSUME ForServer(reads[s]) PROVE Quiet
  <2>1. /\ QueueWrite([t \in Sessions |-> IF t = s THEN <<Ack>> ELSE <<>>])
        /\ log' = log
    BY <1>3 DEF OnRead
  <2>2. ASSUME NEW t \in registered PROVE SentTo(t)' = SentTo(t) \/ Told(t, Ack)
    <3>1. t \in Sessions /\ queue[t] \in Seq(Messages)
      BY Sequences
    <3>2. queue'[t] = queue[t] \o (IF t = s THEN <<Ack>> ELSE <<>>)
      BY <2>1, <3>1 DEF QueueWrite
    <3>3. CASE t = s
      <4>1. queue'[t] = Append(queue[t], Ack)
        BY <1>2, <3>1, <3>2, <3>3
      <4>2. QED BY <1>1, <1>2, <3>1, <4>1, PushTells
    <3>4. CASE t # s
      <4>1. queue'[t] = queue[t]
        BY <3>1, <3>2, <3>4
      <4>2. QED BY <1>1, <4>1 DEF SentTo
    <3>5. QED BY <3>3, <3>4
  <2>3. QED BY <1>1, <2>1, <2>2 DEF Quiet
<1>4. ASSUME ~ForServer(reads[s]) PROVE Announces(s, Relayed(s, reads[s]))
  <2> DEFINE e == Relayed(s, reads[s])
  <2>1. /\ QueueWrite([Alert(s, e) EXCEPT ![s] = <<Ack>> \o @])
        /\ log' = Append(log, e)
    BY <1>4 DEF OnRead
  <2>2. e \in Messages /\ e.from = s /\ e.kind \in {"empty", "join", "data"}
    <3>1. e \in Messages
      BY <1>1, <1>4, MessageTypes DEF Inv
    <3>2. e.from = s /\ e.kind = FrameKind(reads[s])
      BY DEF Relayed
    <3>3. FrameKind(reads[s]) \in {"empty", "join", "data"}
      BY <1>1, <1>4 DEF ForServer, FrameKind
    <3>4. QED BY <3>1, <3>2, <3>3
  <2>3. e \in Events
    BY <2>2 DEF Events, Relayable
  <2> HIDE DEF e
  <2>4. ASSUME NEW t \in registered
        PROVE  queue'[t] = IF t = s THEN Append(queue[t], Ack) ELSE Append(queue[t], e)
    <3>1. t \in Sessions /\ queue[t] \in Seq(Messages)
      BY Sequences
    <3>2. queue'[t] = queue[t] \o [Alert(s, e) EXCEPT ![s] = <<Ack>> \o @][t]
      BY <2>1, <3>1 DEF QueueWrite
    <3>3. [Alert(s, e) EXCEPT ![s] = <<Ack>> \o @][t] = IF t = s THEN <<Ack>> ELSE <<e>>
      BY <1>2, <3>1 DEF Alert
    <3>4. \A m \in Messages : queue[t] \o <<m>> = Append(queue[t], m)
      BY <3>1
    <3>5. QED BY <1>2, <2>2, <3>2, <3>3, <3>4
  <2>5. ASSUME NEW t \in registered
        PROVE  (t # s => Told(t, e)) /\ (t = s => Told(t, Ack))
    <3>1. t \in Sessions
      BY Sequences
    <3>2. QED BY <1>1, <1>2, <2>2, <2>4, <3>1, PushTells
  <2>6. QED BY <1>1, <2>1, <2>2, <2>3, <2>5 DEF Announces, e
<1>5. QED BY <1>1, <1>3, <1>4

(* A message is written to s, and to nobody else.                          *)
Shows(s) ==
  /\ s \in registered /\ queue[s] # <<>>
  /\ written' = [written EXCEPT ![s] = Append(@, Head(queue[s]))]

(* The three forms a step may have, but for Upgrade.                       *)
Silent == Quiet /\ (written' = written \/ \E s \in Sessions : Shows(s))
Speaks(s) ==
  /\ OnRead(s) /\ ~ForServer(reads[s])
  /\ Announces(s, Relayed(s, reads[s]))
  /\ UNCHANGED <<registered, phase, written>>
Leaves(s) ==
  /\ Announces(s, Disconnect(s))
  /\ registered' = registered \ {s}
  /\ phase' = [phase EXCEPT ![s] = "dead"]
  /\ written' = written \/ Shows(s)
  /\ reads' = reads

(* Nothing is sent, or a write ends.                                       *)
LEMMA WriteIsSilent ==
  ASSUME Inv, NEW s \in registered, queue[s] # <<>>, Shows(s),
         queue' = [queue EXCEPT ![s] = Tail(@)], UNCHANGED <<log, since, registered>>
  PROVE  Silent
<1>1. ASSUME NEW t \in registered PROVE SentTo(t)' = SentTo(t)
  <2>1. t \in Sessions /\ queue[t] \in Seq(Messages) /\ written[t] \in Seq(Messages)
    BY Sequences
  <2>2. CASE t = s
    <3>1. queue'[t] = Tail(queue[t]) /\ written'[t] = Append(written[t], Head(queue[t]))
      BY <2>1, <2>2 DEF Inv, TypeOK, Shows
    <3>2. Append(written[t], Head(queue[t])) \o Tail(queue[t]) = written[t] \o queue[t]
      <4>1. \A w, q \in Seq(Messages) : q # <<>> => Append(w, Head(q)) \o Tail(q) = w \o q
        BY SentFacts
      <4>2. QED BY <2>1, <2>2, <4>1
    <3>3. QED BY <3>1, <3>2 DEF SentTo
  <2>3. CASE t # s
    BY <2>1, <2>3 DEF Inv, TypeOK, Shows, SentTo
  <2>4. QED BY <2>2, <2>3
<1>2. QED BY <1>1, Sequences DEF Silent, Quiet

(* A handler ends: the session lives on, or it leaves.                     *)
LEMMA ReleaseForms ==
  ASSUME Inv, NEW s \in registered, Release(s), UNCHANGED <<since, written, reads>>
  PROVE  Silent \/ Leaves(s)
<1>1. CASE inflight[s] > 0
  <2>1. UNCHANGED <<queue, written, registered, log, since>>
    BY <1>1 DEF Release
  <2>2. QED BY <2>1 DEF Silent, Quiet, SentTo
<1>2. CASE ~(inflight[s] > 0)
  <2>1. Destroy(s)
    BY <1>2 DEF Release
  <2>2. QED BY <2>1, DestroyAnnounces DEF Leaves, Destroy
<1>3. QED BY <1>1, <1>2

(* Every step is of one of the forms.                                      *)
LEMMA Forms ==
  ASSUME Inv, [Next]_vars
  PROVE  Silent \/ \E s \in Sessions : Upgrade(s) \/ Speaks(s) \/ Leaves(s)
<1>1. ASSUME UNCHANGED <<queue, written, registered, log, since>> PROVE Silent
  BY <1>1 DEF Silent, Quiet, SentTo
<1>2. CASE Stop \/ AcceptFailed \/ UNCHANGED vars
  BY <1>1, <1>2 DEF Stop, AcceptFailed, vars
<1>3. ASSUME NEW s \in Sessions, Accept(s) \/ HttpClosed(s) \/ LinkDown(s) PROVE Silent
  BY <1>1, <1>3 DEF Accept, HttpClosed, LinkDown
<1>4. ASSUME NEW s \in Sessions, OnAccept(s) PROVE Silent
  <2>0. s \in registered /\ UNCHANGED <<log, since, registered, written>>
    BY <1>4 DEF OnAccept, Inv, ConnectionsLive, Open
  <2>1. CASE queue' = [queue EXCEPT ![s] = Append(@, Configure)]
    <3>1. Configure \in Messages
      BY DEF Configure, Messages, Kinds
    <3>2. ASSUME NEW t \in registered PROVE SentTo(t)' = SentTo(t) \/ Told(t, Configure)
      <4>1. t \in Sessions
        BY Sequences
      <4>2. queue'[t] = IF t = s THEN Append(queue[t], Configure) ELSE queue[t]
        BY <2>1, <4>1 DEF Inv, TypeOK
      <4>3. t = s => Told(t, Configure)
        BY <2>0, <3>1, <4>1, <4>2, PushTells
      <4>4. t # s => SentTo(t)' = SentTo(t)
        BY <2>0, <4>2 DEF SentTo
      <4>5. QED BY <4>3, <4>4
    <3>3. QED BY <2>0, <3>2 DEF Silent, Quiet
  <2>2. CASE queue' = queue
    BY <1>1, <2>0, <2>2
  <2>3. QED BY <1>4, <2>1, <2>2 DEF OnAccept
<1>5. ASSUME NEW s \in Sessions, OnAcceptFailed(s) \/ OnReadFailed(s) PROVE Silent \/ Leaves(s)
  <2>1. s \in registered /\ Release(s) /\ UNCHANGED <<since, written, reads>>
    BY <1>5 DEF OnAcceptFailed, OnReadFailed, Inv, ConnectionsLive, Open
  <2>2. QED BY <2>1, ReleaseForms
<1>6. ASSUME NEW s \in Sessions, OnRead(s) PROVE Silent \/ Speaks(s)
  <2>1. UNCHANGED <<registered, phase, written>>
    BY <1>6 DEF OnRead
  <2>2. QED BY <1>6, <2>1, ReadTells DEF Silent, Speaks
<1>7. ASSUME NEW s \in Sessions, OnWrite(s) PROVE Silent \/ Leaves(s)
  <2>1. /\ s \in registered /\ queue[s] # <<>> /\ Shows(s) /\ UNCHANGED <<since, reads>>
        /\ \A t \in Sessions \ {s} : written'[t] = written[t]
    <3>1. s \in registered /\ queue[s] # <<>>
      BY <1>7, ChainFacts DEF OnWrite, Inv, ConnectionsLive, Open, ChainOf
    <3>2. QED BY <1>7, <3>1 DEF OnWrite, Shows, Inv, TypeOK
  <2>2. CASE Destroy(s)
    BY <2>1, <2>2, DestroyAnnounces DEF Leaves, Destroy
  <2>3. CASE queue' = [queue EXCEPT ![s] = Tail(@)] /\ UNCHANGED <<registered, log>>
    BY <2>1, <2>3, WriteIsSilent
  <2>4. QED BY <1>7, <2>2, <2>3 DEF OnWrite
<1>8. ASSUME NEW s \in Sessions, OnWriteFailed(s) PROVE Silent \/ Leaves(s)
  <2>1. s \in registered /\ UNCHANGED <<since, written, reads>>
    BY <1>8 DEF OnWriteFailed, Inv, TypeOK, ConnectionsLive, Fresh
  <2>2. CASE Destroy(s)
    BY <2>1, <2>2, DestroyAnnounces DEF Leaves, Destroy
  <2>3. CASE UNCHANGED <<queue, registered, log>>
    BY <1>1, <2>1, <2>3
  <2>4. QED BY <1>8, <2>2, <2>3 DEF OnWriteFailed
<1>9. QED BY <1>2, <1>3, <1>4, <1>5, <1>6, <1>7, <1>8 DEF Next, Handler

(* Only events are logged, and no disconnect of a session that lives.      *)
LogInv ==
  /\ \A i \in DOMAIN log : /\ log[i] \in Events
                           /\ log[i].kind = "disconnect" =>
                                log[i].from \in Sessions /\ phase[log[i].from] = "dead"
  /\ \A s \in Sessions : since[s] <= Len(log)

(* Frames are read after the handshake, and the join that is relayed after *)
(* the one that names the session to the server.                           *)
Named == \A s \in Sessions :
  /\ phase[s] \in {"new", "http", "handshake"} => reads[s] = 0
  /\ s \in registered /\ reads[s] >= 2 => user[s] = NameOf[s]

Known(m, frames) == m.kind = "join" =>
  m.from \in Sessions /\ m.name = NameOf[m.from] /\ frames[m.from] >= 3
AllKnown(q, frames) == \A i \in DOMAIN q : Known(q[i], frames)
Introduced == \A s \in registered : AllKnown(SentTo(s), reads)

HistoryInv == Inv /\ LogInv /\ Named /\ Introduced /\ StreamMatchesLog /\ JoinsAreClosed

(* What holds of every step: nobody comes back from the dead, frames read  *)
(* stay read, and who dies unregistered had read none.                     *)
LEMMA Progress ==
  ASSUME Inv, Named, [Next]_vars, NEW t \in Sessions
  PROVE  /\ phase[t] = "dead" => phase'[t] = "dead"
         /\ reads[t] \in Nat /\ reads'[t] \in Nat /\ reads'[t] >= reads[t]
         /\ phase'[t] = "dead" =>
              phase[t] = "dead" \/ reads[t] = 0 \/ (t \in registered /\ t \notin registered')
<1>0. TypeOK /\ ConnectionsLive /\ reads[t] \in Nat
  BY DEF Inv, TypeOK
<1> DEFINE Goal == /\ phase[t] = "dead" => phase'[t] = "dead"
                   /\ phase'[t] = "dead" =>
                        phase[t] = "dead" \/ reads[t] = 0
                        \/ (t \in registered /\ t \notin registered')
<1>2. ASSUME NEW s \in registered, Destroy(s) PROVE Goal
  BY <1>0, <1>2 DEF TypeOK, Destroy
<1>3. ASSUME NEW s \in registered, phase' = [phase EXCEPT ![s] = "draining"] PROVE Goal
  BY <1>0, <1>3 DEF TypeOK, ConnectionsLive, Open
<1>4. ASSUME NEW s \in registered, Release(s) PROVE Goal
  BY <1>2, <1>3, <1>4 DEF Release
<1>5. ASSUME NEW s \in Sessions, Handler(s) \/ LinkDown(s)
      PROVE  reads'[t] \in Nat /\ reads'[t] >= reads[t]
  <2>1. CASE OnRead(s)
    BY <1>0, <2>1 DEF OnRead, TypeOK
  <2>2. CASE ~OnRead(s)
    <3>1. reads' = reads
      BY <1>5, <2>2 DEF Handler, LinkDown, Accept, HttpClosed, Upgrade, OnAccept,
         OnAcceptFailed, OnReadFailed, OnWrite, OnWriteFailed
    <3>2. QED BY <1>0, <3>1
  <2>3. QED BY <2>1, <2>2
<1>6. ASSUME NEW s \in Sessions, Handler(s) \/ LinkDown(s) PROVE Goal
  <2>1. ASSUME UNCHANGED phase PROVE Goal
    BY <2>1
  <2>2. CASE Accept(s) \/ HttpClosed(s) \/ Upgrade(s) \/ OnAccept(s)
    BY <1>0, <2>2 DEF TypeOK, Named, Accept, HttpClosed, Upgrade, OnAccept
  <2>3. CASE OnAcceptFailed(s) \/ OnReadFailed(s)
    <3>1. s \in registered /\ Release(s)
      BY <1>0, <2>3 DEF OnAcceptFailed, OnReadFailed, ConnectionsLive, Open
    <3>2. QED BY <1>4, <3>1
  <2>4. CASE OnRead(s) \/ LinkDown(s)
    <3>1. phase' = phase
      BY <2>4 DEF OnRead, LinkDown
    <3>2. QED BY <2>1, <3>1
  <2>5. CASE OnWrite(s)
    <3>1. s \in registered
      BY <1>0, <2>5 DEF OnWrite, ConnectionsLive, Open
    <3>2. CASE Destroy(s)
      BY <1>2, <3>1, <3>2
    <3>3. QED BY <2>1, <2>5, <3>2 DEF OnWrite
  <2>6. CASE OnWriteFailed(s)
    <3>1. s \in registered
      BY <2>6 DEF OnWriteFailed, Inv, TypeOK, ConnectionsLive, Fresh
    <3>2. CASE Destroy(s)
      BY <1>2, <3>1, <3>2
    <3>3. QED BY <2>1, <2>6, <3>2 DEF OnWriteFailed
  <2>7. QED BY <1>6, <2>2, <2>3, <2>4, <2>5, <2>6 DEF Handler
<1>7. CASE Stop \/ AcceptFailed \/ UNCHANGED vars
  <2>1. UNCHANGED <<phase, reads>>
    BY <1>7 DEF Stop, AcceptFailed, vars
  <2>2. QED BY <1>0, <2>1
<1>8. QED BY <1>0, <1>5, <1>6, <1>7 DEF Next

(* The names.                                                              *)
LEMMA NamedStep == Inv /\ Named /\ [Next]_vars => Named'
<1> SUFFICES ASSUME Inv, Named, [Next]_vars, NEW t \in Sessions
             PROVE  /\ phase'[t] \in {"new", "http", "handshake"} => reads'[t] = 0
                    /\ t \in registered' /\ reads'[t] >= 2 => user'[t] = NameOf[t]
  BY DEF Named
<1> DEFINE Goal == /\ phase'[t] \in {"new", "http", "handshake"} => reads'[t] = 0
                   /\ t \in registered' /\ reads'[t] >= 2 => user'[t] = NameOf[t]
<1>0. /\ TypeOK /\ ConnectionsLive /\ reads[t] \in Nat
      /\ phase[t] \in {"new", "http", "handshake"} => reads[t] = 0
      /\ t \in registered /\ reads[t] >= 2 => user[t] = NameOf[t]
  BY DEF Inv, TypeOK, Named
<1>2. ASSUME NEW s \in registered, Destroy(s), reads' = reads PROVE Goal
  BY <1>0, <1>2 DEF TypeOK, Destroy
<1>3. ASSUME NEW s \in registered, Release(s), reads' = reads PROVE Goal
  <2>1. CASE inflight[s] > 0
    BY <1>0, <1>3, <2>1 DEF TypeOK, Release
  <2>2. CASE ~(inflight[s] > 0)
    BY <1>2, <1>3, <2>2 DEF Release
  <2>3. QED BY <2>1, <2>2
<1>4. ASSUME NEW s \in Sessions, Handler(s) \/ LinkDown(s) PROVE Goal
  <2>1. CASE Accept(s) \/ HttpClosed(s) \/ OnAccept(s) \/ LinkDown(s)
    BY <1>0, <2>1 DEF TypeOK, Accept, HttpClosed, OnAccept, LinkDown
  <2>2. CASE Upgrade(s)
    BY <1>0, <2>2 DEF TypeOK, Upgrade
  <2>3. CASE OnAcceptFailed(s) \/ OnReadFailed(s)
    <3>1. s \in registered /\ Release(s) /\ reads' = reads
      BY <1>0, <2>3 DEF OnAcceptFailed, OnReadFailed, ConnectionsLive, Open
    <3>2. QED BY <1>3, <3>1
  <2>4. CASE OnRead(s)
    <3>1. /\ reads' = [reads EXCEPT ![s] = @ + 1] /\ UNCHANGED <<phase, registered>>
          /\ phase[s] = "reading"
      BY <2>4 DEF OnRead
    <3>2. CASE t # s
      <4>1. reads'[t] = reads[t] /\ user'[t] = user[t]
        BY <1>0, <2>4, <3>1, <3>2 DEF OnRead, TypeOK
      <4>2. QED BY <1>0, <3>1, <4>1
    <3>3. CASE t = s
      <4>1. reads'[s] = reads[s] + 1
        BY <1>0, <3>1, <3>3 DEF TypeOK
      <4>2. reads[s] = 1 => user'[s] = NameOf[s]
        BY <1>0, <2>4, <3>3 DEF OnRead, TypeOK, ForServer, FrameKind
      <4>3. reads[s] > 1 => user'[s] = user[s]
        BY <1>0, <2>4, <3>3 DEF OnRead, TypeOK, ForServer, FrameKind
      <4>4. QED BY <1>0, <3>1, <3>3, <4>1, <4>2, <4>3
    <3>4. QED BY <3>2, <3>3
  <2>5. CASE OnWrite(s)
    <3>1. s \in registered /\ reads' = reads
      BY <1>0, <2>5 DEF OnWrite, ConnectionsLive, Open
    <3>2. CASE Destroy(s)
      BY <1>2, <3>1, <3>2
    <3>3. CASE UNCHANGED <<phase, registered, user>>
      BY <1>0, <3>1, <3>3
    <3>4. QED BY <2>5, <3>2, <3>3 DEF OnWrite
  <2>6. CASE OnWriteFailed(s)
    <3>1. s \in registered /\ reads' = reads
      BY <2>6 DEF OnWriteFailed, Inv, TypeOK, ConnectionsLive, Fresh
    <3>2. CASE Destroy(s)
      BY <1>2, <3>1, <3>2
    <3>3. CASE UNCHANGED <<phase, registered, user>>
      BY <1>0, <3>1, <3>3
    <3>4. QED BY <2>6, <3>2, <3>3 DEF OnWriteFailed
  <2>7. QED BY <1>4, <2>1, <2>2, <2>3, <2>4, <2>5, <2>6 DEF Handler
<1>5. CASE Stop \/ AcceptFailed \/ UNCHANGED vars
  BY <1>0, <1>5 DEF Stop, AcceptFailed, vars
<1>6. QED BY <1>4, <1>5 DEF Next

(* What a session is due of a log, from the length of it at its            *)
(* registration on.                                                        *)
Foreign(s) == {e \in Events : e.from # s}
Due(s, l, n) == Within(SubSeq(l, n + 1, Len(l)), Foreign(s))

(* What the abstract member is due is that, now and after a step.          *)
LEMMA FeedIsDue ==
  /\ \A s : Relays!Feed(s, log) = Due(s, log, since[s])
  /\ \A s : Relays!Feed(s, log)' = Due(s, log', since'[s])
BY SameWithin DEF Relays!Feed, Relays!NotFrom, Due, Foreign, Events

(* An event more, or no event, at the end of what a session is sent.       *)
LEMMA EventsOfAppend ==
  ASSUME NEW q \in Seq(Messages), NEW m \in Messages
  PROVE  EventsOf(Append(q, m)) = IF m \in Events THEN Append(EventsOf(q), m) ELSE EventsOf(q)
BY WithinAppend DEF EventsOf, Events

(* A session is due an event that is logged unless it is its own.          *)
LEMMA DueAppend ==
  ASSUME NEW s, NEW l \in Seq(Messages), NEW n \in Nat, NEW e \in Events, n <= Len(l)
  PROVE  Due(s, Append(l, e), n) = IF e.from # s THEN Append(Due(s, l, n), e) ELSE Due(s, l, n)
<1>1. e \in Messages
  BY DEF Events, Relayable, Departures
<1>2. /\ SubSeq(l, n + 1, Len(l)) \in Seq(Messages)
      /\ SubSeq(Append(l, e), n + 1, Len(Append(l, e))) = Append(SubSeq(l, n + 1, Len(l)), e)
  BY ONLY <1>1, LogFacts, l \in Seq(Messages), n \in Nat, n <= Len(l)
<1>3. PICK p \in Seq(Messages) : p = SubSeq(l, n + 1, Len(l))
  BY <1>2
<1>4. Within(Append(p, e), Foreign(s))
        = IF e \in Foreign(s) THEN Append(Within(p, Foreign(s)), e) ELSE Within(p, Foreign(s))
  BY ONLY <1>1, WithinAppend, p \in Seq(Messages)
<1>5. e \in Foreign(s) <=> e.from # s
  BY DEF Foreign
<1>6. QED BY <1>2, <1>3, <1>4, <1>5 DEF Due

(* What the server sends of its own accord is no event.                    *)
LEMMA NoEvents == /\ Ack \in Messages \ Events /\ Configure \in Messages \ Events
                  /\ Ack.from = NoSession /\ Configure.from = NoSession
                  /\ Ack.kind = "ack" /\ Configure.kind = "host"
BY DEF Ack, Configure, Messages, Kinds, Events, Relayable, Departures

(* A session that has just been registered has been sent nothing.          *)
LEMMA FreshSession ==
  ASSUME Inv, NEW s \in Sessions, Upgrade(s)
  PROVE  /\ SentTo(s)' = <<>> /\ s \notin registered
         /\ registered' = registered \cup {s} /\ since' = [since EXCEPT ![s] = Len(log)]
         /\ UNCHANGED <<log, queue, written, reads>>
         /\ phase' = [phase EXCEPT ![s] = "handshake"] /\ phase[s] = "http"
<1>1. /\ queue[s] = <<>> /\ written[s] = <<>> /\ s \notin registered
  BY DEF Inv, TypeOK, Fresh, Open, Upgrade, ConnectionsLive
<1>2. SentTo(s)' = <<>>
  BY <1>1 DEF SentTo, Upgrade
<1>3. QED BY <1>1, <1>2 DEF Upgrade, Inv, TypeOK

(* The log.                                                                *)
LEMMA LogStep == Inv /\ LogInv /\ Named /\ [Next]_vars => LogInv'
<1> SUFFICES ASSUME Inv, LogInv, Named, [Next]_vars PROVE LogInv'
  OBVIOUS
<1>0. /\ log \in Seq(Messages) /\ Len(log) \in Nat
      /\ \A t \in Sessions : phase[t] = "dead" => phase'[t] = "dead"
  BY Progress, Sequences
<1>1. CASE Silent
  BY <1>0, <1>1 DEF Silent, Quiet, LogInv
<1>2. ASSUME NEW s \in Sessions, Upgrade(s) PROVE LogInv'
  <2>1. log' = log /\ since' = [since EXCEPT ![s] = Len(log)]
    BY <1>2, FreshSession
  <2>2. QED BY <1>0, <2>1 DEF LogInv, Inv, TypeOK
<1>3. ASSUME NEW s \in Sessions, NEW e \in Events, Announces(s, e),
             e.kind = "disconnect" => phase'[s] = "dead"
      PROVE  LogInv'
  <2>1. log' = Append(log, e) /\ since' = since /\ e.from = s
    BY <1>3 DEF Announces
  <2>2. /\ Len(log') = Len(log) + 1 /\ log'[Len(log) + 1] = e
        /\ DOMAIN log' = 1 .. Len(log) + 1 /\ DOMAIN log = 1 .. Len(log)
        /\ \A i \in 1 .. Len(log) : log'[i] = log[i]
    BY <1>0, <2>1
  <2>3. ASSUME NEW i \in DOMAIN log'
        PROVE  /\ log'[i] \in Events
               /\ log'[i].kind = "disconnect" =>
                    log'[i].from \in Sessions /\ phase'[log'[i].from] = "dead"
    <3>1. CASE i = Len(log) + 1
      BY <1>3, <2>1, <2>2, <3>1
    <3>2. CASE i # Len(log) + 1
      <4>1. i \in DOMAIN log /\ log'[i] = log[i]
        BY <1>0, <2>2, <3>2
      <4>2. QED BY <1>0, <4>1 DEF LogInv
    <3>3. QED BY <3>1, <3>2
  <2>4. \A t \in Sessions : since'[t] <= Len(log')
    BY <1>0, <2>1, <2>2 DEF LogInv, Inv, TypeOK
  <2>5. QED BY <2>3, <2>4 DEF LogInv
<1>4. ASSUME NEW s \in Sessions, Speaks(s) PROVE LogInv'
  <2>1. Relayed(s, reads[s]).kind # "disconnect"
    BY DEF Relayed, FrameKind
  <2>2. QED BY <1>3, <1>4, <2>1 DEF Speaks, Announces
<1>5. ASSUME NEW s \in Sessions, Leaves(s) PROVE LogInv'
  <2>1. Announces(s, Disconnect(s)) /\ phase'[s] = "dead"
    BY <1>5 DEF Leaves, Inv, TypeOK
  <2>2. QED BY <1>3, <2>1 DEF Announces
<1>6. QED BY <1>1, <1>2, <1>4, <1>5, Forms

(* The stream of a session and the log grow together.                      *)
LEMMA StreamStep ==
  Inv /\ LogInv /\ StreamMatchesLog /\ [Next]_vars => StreamMatchesLog'
<1> SUFFICES ASSUME Inv, LogInv, StreamMatchesLog, [Next]_vars, NEW t \in registered'
             PROVE  EventsOf(SentTo(t)') = Due(t, log', since'[t])
  BY FeedIsDue DEF StreamMatchesLog, EventsOf
<1>0. /\ log \in Seq(Messages) /\ registered \subseteq Sessions
      /\ \A s \in Sessions : since[s] \in Nat /\ since[s] <= Len(log)
      /\ \A s \in registered : /\ SentTo(s) \in Seq(Messages)
                               /\ EventsOf(SentTo(s)) = Due(s, log, since[s])
  BY Sequences, FeedIsDue DEF StreamMatchesLog, LogInv, Inv, TypeOK
<1>1. CASE Silent
  <2>1. /\ t \in registered /\ UNCHANGED <<log, since>>
        /\ SentTo(t)' = SentTo(t) \/ Told(t, Ack) \/ Told(t, Configure)
    BY <1>1 DEF Silent, Quiet
  <2>2. EventsOf(SentTo(t)') = EventsOf(SentTo(t))
    BY <1>0, <2>1, NoEvents, EventsOfAppend DEF Told
  <2>3. QED BY <1>0, <2>1, <2>2
<1>2. ASSUME NEW s \in Sessions, Upgrade(s) PROVE EventsOf(SentTo(t)') = Due(t, log', since'[t])
  <2>1. CASE t = s
    <3>1. SentTo(t)' = <<>> /\ since'[t] = Len(log) /\ log' = log
      BY <1>2, <2>1, FreshSession DEF Inv, TypeOK
    <3>2. SubSeq(log, Len(log) + 1, Len(log)) = <<>>
      BY <1>0, LogFacts
    <3>3. EventsOf(<<>>) = <<>> /\ Within(<<>>, Foreign(t)) = <<>>
      <4>1. <<>> \in Seq(Messages)
        OBVIOUS
      <4>2. \A set : Within(<<>>, set) = <<>>
        BY <4>1, WithinType
      <4>3. QED BY <4>2 DEF EventsOf
    <3>4. QED BY <3>1, <3>2, <3>3 DEF Due
  <2>2. CASE t # s
    <3>1. t \in registered /\ since'[t] = since[t] /\ log' = log /\ SentTo(t)' = SentTo(t)
      <4>1. /\ registered' = registered \cup {s} /\ UNCHANGED <<log, queue, written>>
            /\ since' = [since EXCEPT ![s] = Len(log)]
        BY <1>2, FreshSession
      <4>2. QED BY <1>0, <2>2, <4>1 DEF Inv, TypeOK, SentTo
    <3>2. QED BY <1>0, <3>1
  <2>3. QED BY <2>1, <2>2
<1>3. ASSUME NEW s \in Sessions, NEW e \in Events, Announces(s, e)
      PROVE  EventsOf(SentTo(t)') = Due(t, log', since'[t])
  <2>1. /\ t \in registered /\ log' = Append(log, e) /\ since' = since /\ e.from = s
        /\ t # s => Told(t, e)
        /\ t = s => Told(t, Ack)
    BY <1>3 DEF Announces
  <2>2. Due(t, log', since'[t])
          = IF t # s THEN Append(Due(t, log, since[t]), e) ELSE Due(t, log, since[t])
    <3>1. t \in Sessions /\ since[t] \in Nat /\ since[t] <= Len(log)
      BY <1>0, <2>1
    <3>2. PICK n \in Nat : n = since[t] /\ n <= Len(log)
      BY <3>1
    <3>3. log \in Seq(Messages)
      BY <1>0
    <3>4. Due(t, Append(log, e), n)
            = IF e.from # t THEN Append(Due(t, log, n), e) ELSE Due(t, log, n)
      BY ONLY <3>2, <3>3, DueAppend, e \in Events
    <3>5. QED BY <2>1, <3>2, <3>4
  <2>3. e \in Messages
    BY DEF Events, Relayable, Departures
  <2>4. EventsOf(SentTo(t)')
          = IF t # s THEN Append(EventsOf(SentTo(t)), e) ELSE EventsOf(SentTo(t))
    <3>1. SentTo(t) \in Seq(Messages)
      BY <1>0, <2>1
    <3>2. /\ EventsOf(Append(SentTo(t), e)) = Append(EventsOf(SentTo(t)), e)
          /\ EventsOf(Append(SentTo(t), Ack)) = EventsOf(SentTo(t))
      BY <2>3, <3>1, NoEvents, EventsOfAppend
    <3>3. QED BY <2>1, <3>2 DEF Told
  <2>5. QED BY <1>0, <2>1, <2>2, <2>4
<1>4. QED BY <1>1, <1>2, <1>3, Forms DEF Speaks, Leaves, Announces

(* A join in a sequence is followed by the disconnect that undoes it, and  *)
(* nothing else of the player after that.                                  *)
ClosedBy(q, i, j, t) ==
  /\ q[j].kind = "disconnect"
  /\ q[j].from = t
  /\ q[j].name = q[i].name
  /\ \A k \in (j + 1) .. Len(q) : q[k].from # t
Closed(q, t) ==
  \A i \in DOMAIN q : q[i].kind = "join" /\ q[i].from = t =>
    \E j \in (i + 1) .. Len(q) : ClosedBy(q, i, j, t)

(* Messages of others undo nothing that was undone.                        *)
LEMMA ClosedAppend ==
  ASSUME NEW q \in Seq(Messages), NEW m \in Messages, NEW t, m.from # t, Closed(q, t)
  PROVE  Closed(Append(q, m), t)
<1>1. PICK r \in Seq(Messages), n \in Nat :
        /\ r = Append(q, m) /\ n = Len(q) /\ Len(r) = n + 1 /\ r[n + 1] = m
        /\ DOMAIN q = 1 .. n /\ DOMAIN r = 1 .. n + 1
        /\ \A i \in 1 .. n : r[i] = q[i]
  <2>1. /\ Append(q, m) \in Seq(Messages) /\ Len(q) \in Nat
        /\ Len(Append(q, m)) = Len(q) + 1 /\ Append(q, m)[Len(q) + 1] = m
        /\ \A i \in 1 .. Len(q) : Append(q, m)[i] = q[i]
        /\ DOMAIN q = 1 .. Len(q) /\ DOMAIN Append(q, m) = 1 .. Len(q) + 1
    OBVIOUS
  <2>2. QED BY <2>1
<1>2. ASSUME NEW i \in DOMAIN r, r[i].kind = "join", r[i].from = t
      PROVE  \E j \in (i + 1) .. Len(r) : ClosedBy(r, i, j, t)
  <2>1. i \in 1 .. n /\ r[i] = q[i]
    BY <1>1, <1>2
  <2>2. PICK j \in (i + 1) .. n : ClosedBy(q, i, j, t)
    BY <1>1, <1>2, <2>1 DEF Closed
  <2>3. j \in (i + 1) .. Len(r) /\ r[j] = q[j]
    BY <1>1, <2>1, <2>2
  <2>4. ASSUME NEW k \in (j + 1) .. Len(r) PROVE r[k].from # t
    <3>1. k \in (j + 1) .. n \/ k = n + 1
      BY <1>1, <2>1, <2>2
    <3>2. k \in (j + 1) .. n => r[k] = q[k] /\ q[k].from # t
      BY <1>1, <2>1, <2>2 DEF ClosedBy
    <3>3. QED BY <1>1, <3>1, <3>2
  <2>5. ClosedBy(r, i, j, t)
    BY <2>1, <2>2, <2>3, <2>4 DEF ClosedBy
  <2>6. QED BY <2>3, <2>5
<1>3. QED BY <1>1, <1>2 DEF Closed

(* A disconnect under the name of the joins undoes them.                   *)
LEMMA ClosedByLast ==
  ASSUME NEW q \in Seq(Messages), NEW m \in Messages, NEW t,
         m.kind = "disconnect", m.from = t,
         \A i \in DOMAIN q : q[i].kind = "join" /\ q[i].from = t => q[i].name = m.name
  PROVE  Closed(Append(q, m), t)
<1>1. PICK r \in Seq(Messages), n \in Nat :
        /\ r = Append(q, m) /\ n = Len(q) /\ Len(r) = n + 1 /\ r[n + 1] = m
        /\ DOMAIN q = 1 .. n /\ DOMAIN r = 1 .. n + 1
        /\ \A i \in 1 .. n : r[i] = q[i]
  <2>1. /\ Append(q, m) \in Seq(Messages) /\ Len(q) \in Nat
        /\ Len(Append(q, m)) = Len(q) + 1 /\ Append(q, m)[Len(q) + 1] = m
        /\ \A i \in 1 .. Len(q) : Append(q, m)[i] = q[i]
        /\ DOMAIN q = 1 .. Len(q) /\ DOMAIN Append(q, m) = 1 .. Len(q) + 1
    OBVIOUS
  <2>2. QED BY <2>1
<1>2. ASSUME NEW i \in DOMAIN r, r[i].kind = "join", r[i].from = t
      PROVE  \E j \in (i + 1) .. Len(r) : ClosedBy(r, i, j, t)
  <2>1. i \in 1 .. n /\ r[i] = q[i]
    BY <1>1, <1>2
  <2>2. n + 1 \in (i + 1) .. Len(r) /\ r[n + 1].name = r[i].name
    BY <1>1, <1>2, <2>1
  <2>3. ClosedBy(r, i, n + 1, t)
    BY <1>1, <2>2 DEF ClosedBy
  <2>4. QED BY <2>2, <2>3
<1>3. QED BY <1>1, <1>2 DEF Closed

(* A property of messages, of what is appended to.                         *)
LEMMA KnownAppend ==
  ASSUME NEW frames, NEW q \in Seq(Messages), NEW m \in Messages,
         Known(m, frames), AllKnown(q, frames)
  PROVE  AllKnown(Append(q, m), frames)
<1>1. ASSUME NEW i \in DOMAIN Append(q, m) PROVE Known(Append(q, m)[i], frames)
  <2>1. (i \in DOMAIN q /\ Append(q, m)[i] = q[i]) \/ Append(q, m)[i] = m
    OBVIOUS
  <2>2. QED BY <2>1 DEF AllKnown
<1>2. QED BY <1>1 DEF AllKnown

(* The joins that are under way name their players.                        *)
LEMMA IntroducedStep ==
  Inv /\ Named /\ Introduced /\ [Next]_vars => Introduced'
<1> SUFFICES ASSUME Inv, Named, Introduced, [Next]_vars, NEW t \in registered'
             PROVE  AllKnown(SentTo(t)', reads')
  BY DEF Introduced
<1>0. /\ registered \subseteq Sessions
      /\ \A s \in registered : SentTo(s) \in Seq(Messages)
      /\ \A s \in Sessions : reads[s] \in Nat /\ reads'[s] \in Nat /\ reads'[s] >= reads[s]
  BY Progress, Sequences
<1>1. \A m : Known(m, reads) => Known(m, reads')
  BY <1>0 DEF Known
<1>2. t \in registered => AllKnown(SentTo(t), reads')
  BY <1>1 DEF Introduced, AllKnown
<1>3. ASSUME t \in registered, NEW m \in Messages, Known(m, reads'), Told(t, m)
      PROVE  AllKnown(SentTo(t)', reads')
  <2>1. SentTo(t) \in Seq(Messages)
    BY <1>0, <1>3
  <2>2. AllKnown(Append(SentTo(t), m), reads')
    BY <1>2, <1>3, <2>1, KnownAppend
  <2>3. QED BY <1>3, <2>2 DEF Told
<1>4. CASE Silent
  <2>1. /\ t \in registered
        /\ SentTo(t)' = SentTo(t) \/ Told(t, Ack) \/ Told(t, Configure)
    BY <1>4 DEF Silent, Quiet
  <2>2. Known(Ack, reads') /\ Known(Configure, reads')
    BY NoEvents DEF Known
  <2>3. QED BY <1>2, <1>3, <2>1, <2>2, NoEvents
<1>5. ASSUME NEW s \in Sessions, Upgrade(s)
      PROVE  AllKnown(SentTo(t)', reads')
  <2>1. CASE t = s
    BY <1>5, <2>1, FreshSession DEF AllKnown
  <2>2. CASE t # s
    <3>1. t \in registered /\ SentTo(t)' = SentTo(t)
      <4>1. registered' = registered \cup {s} /\ UNCHANGED <<queue, written>>
        BY <1>5, FreshSession
      <4>2. QED BY <2>2, <4>1 DEF SentTo
    <3>2. QED BY <1>2, <3>1
  <2>3. QED BY <2>1, <2>2
<1>6. ASSUME NEW s \in Sessions, NEW e \in Events, Announces(s, e), Known(e, reads')
      PROVE  AllKnown(SentTo(t)', reads')
  <2>1. /\ t \in registered
        /\ Told(t, e) \/ Told(t, Ack)
    BY <1>6 DEF Announces
  <2>2. Known(Ack, reads') /\ Ack \in Messages /\ e \in Messages
    BY NoEvents DEF Known, Events, Relayable, Departures
  <2>3. QED BY <1>3, <1>6, <2>1, <2>2
<1>7. ASSUME NEW s \in Sessions, Speaks(s) PROVE Known(Relayed(s, reads[s]), reads')
  <2>1. reads'[s] = reads[s] + 1
    BY <1>7 DEF Speaks, OnRead, Inv, TypeOK
  <2>2. FrameKind(reads[s]) = "join" => reads[s] = 2
    BY <1>0 DEF FrameKind
  <2>3. QED BY <1>0, <2>1, <2>2 DEF Known, Relayed
<1>8. ASSUME NEW s \in Sessions PROVE Known(Disconnect(s), reads')
  BY DEF Known, Disconnect
<1>9. QED BY <1>4, <1>5, <1>6, <1>7, <1>8, Forms DEF Speaks, Leaves, Announces

(* The joins of whoever is gone are undone: who dies in a step and was     *)
(* relayed is announced in that step.                                      *)
LEMMA JoinsStep ==
  Inv /\ Named /\ Introduced /\ JoinsAreClosed /\ [Next]_vars => JoinsAreClosed'
<1> SUFFICES ASSUME Inv, Named, Introduced, JoinsAreClosed, [Next]_vars,
                    NEW s \in registered', NEW t \in Sessions, phase'[t] = "dead"
             PROVE  Closed(SentTo(s)', t)
  BY DEF JoinsAreClosed, Closed, ClosedBy
<1>0. /\ registered \subseteq Sessions
      /\ \A u \in registered : SentTo(u) \in Seq(Messages)
      /\ t # NoSession
      /\ phase[t] = "dead" \/ reads[t] = 0 \/ (t \in registered /\ t \notin registered')
  <2>1. /\ registered \subseteq Sessions
        /\ \A u \in registered : SentTo(u) \in Seq(Messages)
    BY Sequences
  <2>2. phase[t] = "dead" \/ reads[t] = 0 \/ (t \in registered /\ t \notin registered')
    BY Progress
  <2>3. QED BY <2>1, <2>2, ServerAssumption
<1>1. s \in registered /\ phase[t] = "dead" => Closed(SentTo(s), t)
  BY DEF JoinsAreClosed, Closed, ClosedBy
<1>2. s \in registered /\ reads[t] = 0 => Closed(SentTo(s), t)
  BY DEF Introduced, AllKnown, Known, Closed
<1>3. ASSUME s \in registered, NEW m \in Messages, Told(s, m), m.from # t, Closed(SentTo(s), t)
      PROVE  Closed(SentTo(s)', t)
  <2>1. SentTo(s) \in Seq(Messages)
    BY <1>0, <1>3
  <2>2. Closed(Append(SentTo(s), m), t)
    BY <1>3, <2>1, ClosedAppend
  <2>3. QED BY <1>3, <2>2 DEF Told
<1>4. CASE Silent
  <2>1. /\ registered' = registered
        /\ SentTo(s)' = SentTo(s) \/ Told(s, Ack) \/ Told(s, Configure)
    BY <1>4 DEF Silent, Quiet
  <2>2. Closed(SentTo(s), t)
    BY <1>0, <1>1, <1>2, <2>1
  <2>3. QED BY <1>0, <1>3, <2>1, <2>2, NoEvents
<1>5. ASSUME NEW u \in Sessions, Upgrade(u) PROVE Closed(SentTo(s)', t)
  <2>0. registered' = registered \cup {u} /\ UNCHANGED <<queue, written>>
    BY <1>5, FreshSession
  <2>1. CASE s = u
    BY <1>5, <2>1, FreshSession DEF Closed
  <2>2. CASE s # u
    <3>1. s \in registered /\ SentTo(s)' = SentTo(s)
      BY <2>0, <2>2 DEF SentTo
    <3>2. QED BY <1>0, <1>1, <1>2, <2>0, <3>1
  <2>3. QED BY <2>1, <2>2
<1>6. ASSUME NEW u \in Sessions, Speaks(u) PROVE Closed(SentTo(s)', t)
  <2>1. /\ s \in registered /\ phase' = phase /\ u \in registered
        /\ Told(s, Relayed(u, reads[u])) \/ Told(s, Ack)
    BY <1>6 DEF Speaks, Announces
  <2>2. /\ Relayed(u, reads[u]) \in Messages /\ Relayed(u, reads[u]).from = u
    BY <1>6 DEF Speaks, Announces, Events, Relayable, Departures
  <2>3. u # t
    BY <2>1 DEF Inv, ConnectionsLive, Open
  <2>4. QED BY <1>0, <1>1, <1>3, <2>1, <2>2, <2>3, NoEvents
<1>7. ASSUME NEW u \in Sessions, Leaves(u) PROVE Closed(SentTo(s)', t)
  <2>1. /\ s \in registered /\ s # u /\ u \in registered
        /\ phase' = [phase EXCEPT ![u] = "dead"]
        /\ Told(s, Disconnect(u)) /\ Disconnect(u) \in Messages
    BY <1>7 DEF Leaves, Announces, Events, Relayable, Departures
  <2>2. Disconnect(u).from = u /\ Disconnect(u).kind = "disconnect"
        /\ Disconnect(u).name = user[u]
    BY DEF Disconnect
  <2>3. CASE t = u
    <3>1. SentTo(s) \in Seq(Messages)
      BY <1>0, <2>1
    <3>2. ASSUME NEW i \in DOMAIN SentTo(s), SentTo(s)[i].kind = "join", SentTo(s)[i].from = t
          PROVE  SentTo(s)[i].name = user[u]
      <4>1. SentTo(s)[i].name = NameOf[t] /\ reads[t] >= 3
        BY <2>1, <3>2 DEF Introduced, AllKnown, Known
      <4>2. reads[t] \in Nat /\ user[t] = NameOf[t]
        BY <2>1, <2>3, <4>1 DEF Named, Inv, TypeOK
      <4>3. QED BY <2>3, <4>1, <4>2
    <3>3. Closed(Append(SentTo(s), Disconnect(u)), t)
      BY <2>1, <2>2, <2>3, <3>1, <3>2, ClosedByLast
    <3>4. QED BY <2>1, <3>3 DEF Told
  <2>4. CASE t # u
    <3>1. phase[t] = "dead"
      BY <2>1, <2>4 DEF Inv, TypeOK
    <3>2. QED BY <1>1, <1>3, <2>1, <2>2, <2>4, <3>1
  <2>5. QED BY <2>3, <2>4
<1>8. QED BY <1>4, <1>5, <1>6, <1>7, Forms

(* The histories are empty at the start.                                   *)
LEMMA HistoryStart == Init => HistoryInv
<1> SUFFICES ASSUME Init PROVE HistoryInv
  OBVIOUS
<1>1. Inv
  BY Start
<1>2. LogInv /\ Named /\ Introduced /\ StreamMatchesLog /\ JoinsAreClosed
  BY DEF Init, LogInv, Named, Introduced, StreamMatchesLog, JoinsAreClosed
<1>3. QED BY <1>1, <1>2 DEF HistoryInv

(* Every step keeps the whole.                                             *)
LEMMA HistoryStep == HistoryInv /\ [Next]_vars => HistoryInv'
BY Step, LogStep, NamedStep, IntroducedStep, StreamStep, JoinsStep DEF HistoryInv

(* The inductive invariant of the histories holds of every run.            *)
THEOREM HistoryInvariance == Spec => []HistoryInv
BY HistoryStart, HistoryStep, PTL DEF Spec

(* A live session is sent the log since its registration but its own       *)
(* events: one order for everybody, without a gap, nothing twice.          *)
THEOREM NothingLostOrTwice == Spec => []StreamMatchesLog
<1>1. HistoryInv => StreamMatchesLog
  BY DEF HistoryInv
<1>2. QED BY <1>1, HistoryInvariance, PTL

(* A join that a live session is sent of a player who is gone is followed  *)
(* by the disconnect under the same name, and by nothing of the player     *)
(* after that.                                                             *)
THEOREM RosterEntriesUndone == Spec => []JoinsAreClosed
<1>1. HistoryInv => JoinsAreClosed
  BY DEF HistoryInv
<1>2. QED BY <1>1, HistoryInvariance, PTL

-----------------------------------------------------------------------------
(* What the members of the broadcast have been shown.                      *)
View == [s \in Sessions |-> EventsOf(written[s])]

(* What has been written is the beginning of what is sent.                 *)
LEMMA ViewBegins ==
  ASSUME NEW w \in Seq(Messages), NEW q \in Seq(Messages), q # <<>>
  PROVE  /\ Head(q) \in Messages
         /\ Begins(EventsOf(Append(w, Head(q))), EventsOf(w \o q))
<1>1. Head(q) \in Messages /\ Append(w, Head(q)) \in Seq(Messages) /\ w \o q \in Seq(Messages)
  BY HeadTailProperties, EmptySeq
<1>2. Begins(Append(w, Head(q)), w \o q)
  BY HeadTailProperties, EmptySeq DEF Begins
<1>3. QED BY <1>1, <1>2, WithinBegins DEF EventsOf

(* A write shows the session the next event it is due, if it is of one.    *)
LEMMA WriteShows ==
  ASSUME HistoryInv, NEW s \in Sessions, Shows(s)
  PROVE  View' = View \/ Relays!ShowNext(s)
<1>0. /\ s \in registered /\ queue[s] \in Seq(Messages) /\ written[s] \in Seq(Messages)
      /\ queue[s] # <<>>
      /\ written' = [written EXCEPT ![s] = Append(@, Head(queue[s]))]
      /\ written \in [Sessions -> Seq(Messages)]
  BY Sequences DEF Shows, HistoryInv, Inv, TypeOK
<1> DEFINE m == Head(queue[s])
           shown == EventsOf(written[s])
           feed == Relays!Feed(s, log)
<1>1. m \in Messages /\ Begins(EventsOf(Append(written[s], m)), EventsOf(SentTo(s)))
  BY <1>0, ViewBegins DEF SentTo
<1>2. EventsOf(SentTo(s)) = feed
  BY <1>0 DEF HistoryInv, StreamMatchesLog
<1>3. EventsOf(Append(written[s], m)) = IF m \in Events THEN Append(shown, m) ELSE shown
  BY <1>0, <1>1, EventsOfAppend
<1>4. shown \in Seq(Messages)
  BY <1>0, WithinType DEF EventsOf
<1>5. View' = [View EXCEPT ![s] = EventsOf(Append(written[s], m))]
  BY <1>0 DEF View
<1>6. View[s] = shown
  BY <1>0 DEF View
<1>7. CASE m \notin Events
  BY <1>3, <1>5, <1>6, <1>7 DEF View
<1>8. CASE m \in Events
  <2>1. Begins(Append(shown, m), feed)
    BY <1>1, <1>2, <1>3, <1>8
  <2> HIDE DEF m, shown, feed
  <2>2. Len(shown) \in Nat /\ Len(Append(shown, m)) = Len(shown) + 1
        /\ Append(shown, m)[Len(shown) + 1] = m
    BY <1>1, <1>4
  <2>3. Len(shown) + 1 <= Len(feed) /\ feed[Len(shown) + 1] = m
    BY <2>1, <2>2 DEF Begins
  <2>4. Len(feed) \in Nat
    <3>1. feed \in Seq(Messages)
      <4>1. SentTo(s) \in Seq(Messages)
        BY <1>0, Sequences DEF HistoryInv
      <4>2. EventsOf(SentTo(s)) \in Seq(Messages)
        BY <4>1, WithinType DEF EventsOf
      <4>3. QED BY <1>2, <4>2
    <3>2. QED BY <3>1
  <2>5. View' = [View EXCEPT ![s] = Append(shown, feed[Len(shown) + 1])]
    BY <1>3, <1>5, <1>8, <2>3 DEF shown
  <2>6. Len(shown) < Len(feed)
    BY <2>2, <2>3, <2>4
  <2>7. Relays!ShowNext(s)
    BY <1>6, <2>5, <2>6 DEF Relays!ShowNext, View, feed
  <2>8. QED BY <2>7
<1>9. QED BY <1>7, <1>8

(* The server begins as the broadcast does.                                *)
LEMMA BroadcastStart == Init => Relays!Init
<1> SUFFICES ASSUME Init PROVE Relays!Init
  OBVIOUS
<1>1. \A s \in Sessions : EventsOf(written[s]) = <<>>
  <2>1. <<>> \in Seq(Messages)
    OBVIOUS
  <2>2. QED BY <2>1, WithinType DEF Init, EventsOf
<1>2. Departed = {}
  BY DEF Init, Departed
<1>3. QED BY <1>1, <1>2 DEF Init, Relays!Init

(* Who has departed, with an event logged.                                 *)
LEMMA DepartedAppend ==
  ASSUME HistoryInv, NEW e \in Events, log' = Append(log, e)
  PROVE  Departed' = IF e.kind = "disconnect" /\ e.from \in Sessions
                     THEN Departed \cup {e.from} ELSE Departed
<1>1. /\ log \in Seq(Messages) /\ Len(log) \in Nat
      /\ DOMAIN log = 1 .. Len(log) /\ DOMAIN log' = 1 .. Len(log) + 1
      /\ log'[Len(log) + 1] = e /\ \A i \in 1 .. Len(log) : log'[i] = log[i]
  <2>1. log \in Seq(Messages) /\ e \in Messages
    BY Sequences DEF HistoryInv, Events, Relayable, Departures
  <2>2. QED BY <2>1
<1>2. ASSUME NEW s \in Sessions
      PROVE  s \in Departed' <=> s \in Departed \/ (e.kind = "disconnect" /\ e.from = s)
  BY <1>1 DEF Departed
<1>3. Departed' \subseteq Sessions /\ Departed \subseteq Sessions
  BY DEF Departed
<1>4. QED BY <1>2, <1>3

(* A handler is a step of the broadcast, or none of it.                    *)
LEMMA BroadcastStep == HistoryInv /\ [Next]_vars => [Relays!Next]_(Relays!vars)
<1> SUFFICES ASSUME HistoryInv, [Next]_vars PROVE [Relays!Next]_(Relays!vars)
  OBVIOUS
<1>0. Inv
  BY DEF HistoryInv
<1>1. CASE Silent
  <2>1. UNCHANGED <<log, since, registered, Departed>>
    BY <1>1 DEF Silent, Quiet, Departed
  <2>2. CASE View' = View
    BY <2>1, <2>2 DEF Relays!vars, View
  <2>3. CASE View' # View
    <3>1. PICK s \in Sessions : Shows(s)
      BY <1>1, <2>3 DEF Silent, View
    <3>2. Relays!ShowNext(s) /\ s \in registered
      BY <2>3, <3>1, WriteShows DEF Shows
    <3>3. Relays!Show(s)
      BY <2>1, <3>2 DEF Relays!Show
    <3>4. QED BY <3>3 DEF Relays!Next
  <2>4. QED BY <2>2, <2>3
<1>2. ASSUME NEW s \in Sessions, Upgrade(s) PROVE [Relays!Next]_(Relays!vars)
  <2>1. /\ s \notin registered /\ registered' = registered \cup {s}
        /\ since' = [since EXCEPT ![s] = Len(log)]
        /\ UNCHANGED <<log, written>> /\ phase[s] = "http"
    BY <1>0, <1>2, FreshSession
  <2>2. s \notin Departed
    BY <2>1 DEF HistoryInv, LogInv, Departed
  <2>3. Relays!Join(s)
    BY <2>1, <2>2 DEF Relays!Join, Departed
  <2>4. QED BY <2>3 DEF Relays!Next
<1>3. ASSUME NEW s \in Sessions, Speaks(s) PROVE [Relays!Next]_(Relays!vars)
  <2>1. /\ s \in registered /\ Relayed(s, reads[s]) \in Events
        /\ log' = Append(log, Relayed(s, reads[s])) /\ Relayed(s, reads[s]).from = s
        /\ UNCHANGED <<registered, since, written>>
    BY <1>3 DEF Speaks, Announces
  <2>2. Relayed(s, reads[s]).kind # "disconnect"
    BY DEF Relayed, FrameKind
  <2>3. Departed' = Departed /\ Relayed(s, reads[s]) \in Relayable
    BY <2>1, <2>2, DepartedAppend DEF Events, Departures
  <2>4. Relays!Publish(s)
    BY <2>1, <2>3 DEF Relays!Publish
  <2>5. QED BY <2>4 DEF Relays!Next
<1>4. ASSUME NEW s \in Sessions, Leaves(s) PROVE [Relays!Next]_(Relays!vars)
  <2>1. /\ s \in registered /\ Disconnect(s) \in Events
        /\ log' = Append(log, Disconnect(s)) /\ Disconnect(s).from = s
        /\ registered' = registered \ {s} /\ since' = since
        /\ written' = written \/ Shows(s)
    BY <1>4 DEF Leaves, Announces
  <2>2. Disconnect(s).kind = "disconnect"
    BY DEF Disconnect
  <2>3. Departed' = Departed \cup {s} /\ Disconnect(s) \in Departures
    BY <2>1, <2>2, DepartedAppend DEF Events, Departures, Relayable
  <2>4. View' = View \/ Relays!ShowNext(s)
    BY <2>1, WriteShows DEF View
  <2>5. Relays!Leave(s)
    BY <2>1, <2>3, <2>4 DEF Relays!Leave, View
  <2>6. QED BY <2>5 DEF Relays!Next
<1>5. QED BY <1>0, <1>1, <1>2, <1>3, <1>4, Forms

(* The server, with its sockets, write queues and failures, is an          *)
(* implementation of the broadcast.                                        *)
THEOREM BroadcastImplemented == Spec => ImplementsBroadcast
<1>1. Spec => Relays!Spec
  BY BroadcastStart, BroadcastStep, HistoryInvariance, PTL DEF Spec, Relays!Spec
<1>2. QED BY <1>1 DEF ImplementsBroadcast
=============================================================================
