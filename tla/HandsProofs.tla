---------------------------- MODULE HandsProofs ----------------------------
(***************************************************************************)
(* Theorems about Hands for any players, tiles and commands: the copies of *)
(* the bag agree while nobody publishes one that is not up to date, no     *)
(* tile is lost in any case but the one NothingLost names, and players go  *)
(* by the same setting.                                                    *)
(*                                                                         *)
(* All three speak of players who have nothing left to apply, and are not  *)
(* inductive.  The invariants say of all others what their inboxes hold:   *)
(* the last charset, or setting, on the way to a player is the one that    *)
(* was last published, and a tile that nobody has drawn is in every        *)
(* charset on the way.                                                     *)
(***************************************************************************)
EXTENDS Hands, TLAPS

USE HandsAssumption

(* A message of a kind is in a box; the last of them is one of ms; all of  *)
(* them are.                                                               *)
Has(box, k) == \E i \in DOMAIN box : box[i].kind = k
Says(box, k, ms) == \A i \in DOMAIN box :
  box[i].kind = k /\ (\A j \in DOMAIN box : j > i => box[j].kind # k) => box[i] \in ms
Only(box, k, ms) == \A i \in DOMAIN box : box[i].kind = k => box[i] \in ms

Bags(b)      == {m \in Messages : m.tiles = b}
BagsWith(t)  == {m \in Messages : t \in m.tiles}
Settings(v)  == {m \in Messages : m.value = v}

Seen == \A p \in Players : phase[p] = "away" =>
  p \notin informed /\ p \notin told /\ inbox[p] = <<>>

BagOf(p) == /\ Says(inbox[p], "charset", Bags(bag))
            /\ ~Has(inbox[p], "charset") => charset[p] = bag
BagInv == ~careless => \A p \in Online : p \in informed => BagOf(p)

RuleOf(p) == /\ Says(inbox[p], "setting", Settings(rule))
             /\ ~Has(inbox[p], "setting") => enforce[p] = rule
RuleInv == ~disputed => \A p \in Online : p \in told => RuleOf(p)

Kept(t) == /\ \A p \in supplied : t \in charset[p]
           /\ \A p \in Online : Only(inbox[p], "charset", BagsWith(t))
LostInv == ~wiped =>
  /\ loads = {} => supplied = {} /\ \A p \in Online : ~Has(inbox[p], "charset")
  /\ \A p \in Online : p \in informed => p \in supplied \/ Has(inbox[p], "charset")
  /\ \A t \in UNION loads : Held(t) \/ Kept(t)

Inv == TypeOK /\ Seen /\ BagInv /\ RuleInv /\ LostInv

-----------------------------------------------------------------------------
(* Boxes.                                                                  *)

(* A box after a push.                                                     *)
LEMMA AppendFacts ==
  ASSUME NEW S, NEW box \in Seq(S), NEW m \in S, NEW k
  PROVE  /\ Append(box, m) \in Seq(S)
         /\ m.kind # k => (Has(Append(box, m), k) <=> Has(box, k))
         /\ m.kind = k => Has(Append(box, m), k)
         /\ \A ms : m.kind # k /\ Says(box, k, ms) => Says(Append(box, m), k, ms)
         /\ \A ms : m.kind = k /\ m \in ms => Says(Append(box, m), k, ms)
         /\ \A ms : (m.kind = k => m \in ms) /\ Only(box, k, ms) => Only(Append(box, m), k, ms)
<1> DEFINE new == Append(box, m)
           n == Len(box) + 1
<1>1. /\ new \in Seq(S) /\ n \in DOMAIN new /\ new[n] = m
      /\ DOMAIN box \subseteq DOMAIN new
      /\ \A i \in DOMAIN box : new[i] = box[i] /\ n > i
      /\ \A i \in DOMAIN new : i \in DOMAIN box \/ i = n
      /\ \A i \in DOMAIN new : ~(i > n)
  OBVIOUS
<1> HIDE DEF new, n
<1>2. /\ m.kind # k => (Has(new, k) <=> Has(box, k))
      /\ m.kind = k => Has(new, k)
  BY <1>1 DEF Has
<1>3. ASSUME NEW ms, m.kind # k, Says(box, k, ms) PROVE Says(new, k, ms)
  <2> SUFFICES ASSUME NEW i \in DOMAIN new, new[i].kind = k,
                      \A j \in DOMAIN new : j > i => new[j].kind # k
               PROVE  new[i] \in ms
    BY DEF Says
  <2>1. i \in DOMAIN box /\ new[i] = box[i]
    BY <1>1, <1>3
  <2>2. \A j \in DOMAIN box : j > i => box[j].kind # k
    BY <1>1
  <2>3. QED BY <1>3, <2>1, <2>2 DEF Says
<1>4. ASSUME NEW ms, m.kind = k, m \in ms PROVE Says(new, k, ms)
  <2> SUFFICES ASSUME NEW i \in DOMAIN new, \A j \in DOMAIN new : j > i => new[j].kind # k
               PROVE  new[i] \in ms
    BY DEF Says
  <2>1. i = n
    BY <1>1, <1>4
  <2>2. QED BY <1>1, <1>4, <2>1
<1>5. ASSUME NEW ms, m.kind = k => m \in ms, Only(box, k, ms) PROVE Only(new, k, ms)
  BY <1>1, <1>5 DEF Only
<1>6. QED BY <1>1, <1>2, <1>3, <1>4, <1>5 DEF new

(* A box after a pop.                                                      *)
LEMMA TailFacts ==
  ASSUME NEW S, NEW box \in Seq(S), box # <<>>, NEW k
  PROVE  /\ Tail(box) \in Seq(S) /\ Head(box) \in S
         /\ Head(box).kind # k => (Has(Tail(box), k) <=> Has(box, k))
         /\ Has(Tail(box), k) => Has(box, k)
         /\ Head(box).kind = k => Has(box, k)
         /\ \A ms : Says(box, k, ms) => Says(Tail(box), k, ms)
         /\ \A ms : Says(box, k, ms) /\ Head(box).kind = k /\ ~Has(Tail(box), k) => Head(box) \in ms
         /\ \A ms : Only(box, k, ms) => Only(Tail(box), k, ms)
         /\ \A ms : Only(box, k, ms) /\ Head(box).kind = k => Head(box) \in ms
<1> DEFINE new == Tail(box)
           h == Head(box)
<1>1. /\ new \in Seq(S) /\ h \in S /\ 1 \in DOMAIN box /\ h = box[1]
      /\ \A i \in DOMAIN new : i + 1 \in DOMAIN box /\ new[i] = box[i + 1]
      /\ \A i \in DOMAIN box : i = 1 \/ (i - 1 \in DOMAIN new /\ new[i - 1] = box[i])
      /\ DOMAIN box \subseteq Nat /\ DOMAIN new \subseteq Nat
  OBVIOUS
<1> HIDE DEF new, h
<1>2. /\ h.kind # k => (Has(new, k) <=> Has(box, k))
      /\ Has(new, k) => Has(box, k)
      /\ h.kind = k => Has(box, k)
  BY <1>1 DEF Has
<1>3. ASSUME NEW ms, Says(box, k, ms) PROVE Says(new, k, ms)
  <2> SUFFICES ASSUME NEW i \in DOMAIN new, new[i].kind = k,
                      \A j \in DOMAIN new : j > i => new[j].kind # k
               PROVE  new[i] \in ms
    BY DEF Says
  <2>1. i \in Nat /\ i + 1 \in DOMAIN box /\ new[i] = box[i + 1]
    BY <1>1
  <2>2. ASSUME NEW j \in DOMAIN box, j > i + 1 PROVE box[j].kind # k
    <3>1. j \in Nat /\ j # 1
      BY <1>1, <2>1, <2>2
    <3>2. j - 1 \in DOMAIN new /\ new[j - 1] = box[j] /\ j - 1 > i
      BY <1>1, <2>1, <2>2, <3>1
    <3>3. QED BY <3>2
  <2>3. QED BY <1>3, <2>1, <2>2 DEF Says
<1>4. ASSUME NEW ms, Says(box, k, ms), h.kind = k, ~Has(new, k) PROVE h \in ms
  <2>1. ASSUME NEW j \in DOMAIN box, j > 1 PROVE box[j].kind # k
    <3>1. j - 1 \in DOMAIN new /\ new[j - 1] = box[j]
      BY <1>1, <2>1
    <3>2. QED BY <1>4, <3>1 DEF Has
  <2>2. QED BY <1>1, <1>4, <2>1 DEF Says
<1>5. ASSUME NEW ms, Only(box, k, ms) PROVE Only(new, k, ms) /\ (h.kind = k => h \in ms)
  BY <1>1, <1>5 DEF Only
<1>6. QED BY <1>1, <1>2, <1>3, <1>4, <1>5 DEF new, h

-----------------------------------------------------------------------------
(* Inboxes.  Those of c say of a kind what those of b say.                 *)

Calm(b, c, k) == \A q \in Online' :
  /\ Has(c[q], k) <=> Has(b[q], k)
  /\ \A ms : Says(b[q], k, ms) => Says(c[q], k, ms)
  /\ \A ms : Only(b[q], k, ms) => Only(c[q], k, ms)

(* Those of c say m as their last, but that of p is as it was.             *)
Tells(b, c, p, m) == \A q \in Online' :
  /\ q # p => /\ Has(c[q], m.kind)
              /\ \A ms : m \in ms => Says(c[q], m.kind, ms)
  /\ q = p => /\ Has(c[q], m.kind) <=> Has(b[q], m.kind)
              /\ \A ms : Says(b[q], m.kind, ms) => Says(c[q], m.kind, ms)
  /\ \A ms : m \in ms /\ Only(b[q], m.kind, ms) => Only(c[q], m.kind, ms)

Boxes == [Players -> Seq(Messages)]

(* A message relayed.                                                      *)
LEMMA RelayFacts ==
  ASSUME NEW boxes \in Boxes, NEW p \in Players, NEW m \in Messages, Online' \subseteq Online,
         Online \subseteq Players
  PROVE  /\ Relay(boxes, p, m) \in Boxes
         /\ \A k : k # m.kind => Calm(boxes, Relay(boxes, p, m), k)
         /\ Tells(boxes, Relay(boxes, p, m), p, m)
         /\ \A q \in Players : q \notin Online => Relay(boxes, p, m)[q] = boxes[q]
<1>1. \A q \in Players : boxes[q] \in Seq(Messages) /\ Append(boxes[q], m) \in Seq(Messages)
  BY AppendFacts DEF Boxes
<1>2. /\ Relay(boxes, p, m) \in Boxes
      /\ \A q \in Players : q \notin Online => Relay(boxes, p, m)[q] = boxes[q]
      /\ \A q \in Players : q = p => Relay(boxes, p, m)[q] = boxes[q]
      /\ \A q \in Online : q # p => Relay(boxes, p, m)[q] = Append(boxes[q], m)
  BY <1>1 DEF Relay, Boxes
<1>3. ASSUME NEW k, k # m.kind PROVE Calm(boxes, Relay(boxes, p, m), k)
  <2> SUFFICES ASSUME NEW q \in Online'
               PROVE  /\ Has(Relay(boxes, p, m)[q], k) <=> Has(boxes[q], k)
                      /\ \A ms : Says(boxes[q], k, ms) => Says(Relay(boxes, p, m)[q], k, ms)
                      /\ \A ms : Only(boxes[q], k, ms) => Only(Relay(boxes, p, m)[q], k, ms)
    BY DEF Calm
  <2>1. CASE q = p
    BY <1>2, <2>1
  <2>2. CASE q # p
    <3>1. q \in Players /\ q \in Online /\ boxes[q] \in Seq(Messages)
      BY <1>1
    <3>2. Relay(boxes, p, m)[q] = Append(boxes[q], m)
      BY <1>2, <2>2, <3>1
    <3>3. /\ Has(Append(boxes[q], m), k) <=> Has(boxes[q], k)
          /\ \A ms : Says(boxes[q], k, ms) => Says(Append(boxes[q], m), k, ms)
          /\ \A ms : Only(boxes[q], k, ms) => Only(Append(boxes[q], m), k, ms)
      BY <1>3, <3>1, AppendFacts
    <3>4. QED BY <3>2, <3>3
  <2>3. QED BY <2>1, <2>2
<1>4. Tells(boxes, Relay(boxes, p, m), p, m)
  <2> SUFFICES ASSUME NEW q \in Online'
               PROVE
      /\ q # p => /\ Has(Relay(boxes, p, m)[q], m.kind)
                  /\ \A ms : m \in ms => Says(Relay(boxes, p, m)[q], m.kind, ms)
      /\ q = p => /\ Has(Relay(boxes, p, m)[q], m.kind) <=> Has(boxes[q], m.kind)
                  /\ \A ms : Says(boxes[q], m.kind, ms) => Says(Relay(boxes, p, m)[q], m.kind, ms)
      /\ \A ms : m \in ms /\ Only(boxes[q], m.kind, ms) => Only(Relay(boxes, p, m)[q], m.kind, ms)
    BY DEF Tells
  <2>1. CASE q = p
    BY <1>2, <2>1
  <2>2. CASE q # p
    <3>1. q \in Players /\ q \in Online /\ boxes[q] \in Seq(Messages)
      BY <1>1
    <3>2. Relay(boxes, p, m)[q] = Append(boxes[q], m)
      BY <1>2, <2>2, <3>1
    <3>3. /\ Has(Append(boxes[q], m), m.kind)
          /\ \A ms : m \in ms => Says(Append(boxes[q], m), m.kind, ms)
          /\ \A ms : m \in ms /\ Only(boxes[q], m.kind, ms) => Only(Append(boxes[q], m), m.kind, ms)
      BY <3>1, AppendFacts
    <3>4. QED BY <2>2, <3>2, <3>3
  <2>3. QED BY <2>1, <2>2
<1>5. QED BY <1>2, <1>3, <1>4

(* A message polled.                                                       *)
LEMMA PolledFacts ==
  ASSUME inbox \in Boxes, NEW p \in Players, inbox[p] # <<>>, Online' \subseteq Online,
         Online \subseteq Players, phase[p] = "playing"
  PROVE  /\ Polled(p) \in Boxes
         /\ Head(inbox[p]) \in Messages
         /\ \A k : k # Head(inbox[p]).kind => Calm(inbox, Polled(p), k)
         /\ \A q \in Players : q \notin Online => Polled(p)[q] = inbox[q]
         /\ Polled(p)[p] = Tail(inbox[p])
         /\ \A q \in Players : q # p => Polled(p)[q] = inbox[q]
<1>1. inbox[p] \in Seq(Messages)
  BY DEF Boxes
<1>2. Tail(inbox[p]) \in Seq(Messages) /\ Head(inbox[p]) \in Messages
  BY <1>1, TailFacts
<1>3. /\ Polled(p) \in Boxes /\ Polled(p)[p] = Tail(inbox[p])
      /\ \A q \in Players : q # p => Polled(p)[q] = inbox[q]
      /\ \A q \in Players : q \notin Online => Polled(p)[q] = inbox[q]
  BY <1>2 DEF Polled, Boxes, Online
<1>4. ASSUME NEW k, k # Head(inbox[p]).kind PROVE Calm(inbox, Polled(p), k)
  <2> SUFFICES ASSUME NEW q \in Online'
               PROVE  /\ Has(Polled(p)[q], k) <=> Has(inbox[q], k)
                      /\ \A ms : Says(inbox[q], k, ms) => Says(Polled(p)[q], k, ms)
                      /\ \A ms : Only(inbox[q], k, ms) => Only(Polled(p)[q], k, ms)
    BY DEF Calm
  <2>1. CASE q = p
    <3>1. /\ Has(Tail(inbox[p]), k) <=> Has(inbox[p], k)
          /\ \A ms : Says(inbox[p], k, ms) => Says(Tail(inbox[p]), k, ms)
          /\ \A ms : Only(inbox[p], k, ms) => Only(Tail(inbox[p]), k, ms)
      BY <1>1, <1>4, TailFacts
    <3>2. QED BY <1>3, <2>1, <3>1
  <2>2. CASE q # p
    BY <1>3, <2>2
  <2>3. QED BY <2>1, <2>2
<1>5. QED BY <1>2, <1>3, <1>4

(* Two steps of the boxes, one calm.                                       *)
LEMMA CalmFacts ==
  ASSUME NEW a, NEW b, NEW c, NEW k
  PROVE  /\ Calm(a, a, k)
         /\ Calm(a, b, k) /\ Calm(b, c, k) => Calm(a, c, k)
         /\ \A p, m : m.kind = k /\ Calm(a, b, k) /\ Tells(b, c, p, m) => Tells(a, c, p, m)
         /\ \A p, m : m.kind = k /\ Tells(a, b, p, m) /\ Calm(b, c, k) => Tells(a, c, p, m)
<1>1. Calm(a, a, k)
  BY DEF Calm
<1>2. Calm(a, b, k) /\ Calm(b, c, k) => Calm(a, c, k)
  BY DEF Calm
<1>3. ASSUME NEW p, NEW m, m.kind = k, Calm(a, b, k), Tells(b, c, p, m) PROVE Tells(a, c, p, m)
  BY <1>3 DEF Calm, Tells
<1>4. ASSUME NEW p, NEW m, m.kind = k, Tells(a, b, p, m), Calm(b, c, k) PROVE Tells(a, c, p, m)
  BY <1>4 DEF Calm, Tells
<1>5. QED BY <1>1, <1>2, <1>3, <1>4

-----------------------------------------------------------------------------
(* What keeps each part of the invariant.                                  *)

(* Who is online, and the inboxes.                                         *)
LEMMA OnlineFacts ==
  ASSUME TypeOK
  PROVE  /\ Online \subseteq Players /\ inbox \in Boxes
         /\ UNCHANGED phase => Online' = Online
         /\ \A p \in Players : phase[p] = "playing" <=> p \in Online
BY DEF TypeOK, Online, Boxes

(* The three updates are of their kinds and say what they are to say.      *)
LEMMA MessageFacts ==
  /\ \A b \in SUBSET Tiles : CharsetUpdate(b) \in Bags(b) /\ CharsetUpdate(b).kind = "charset"
  /\ \A b \in SUBSET Tiles : \A t \in b : CharsetUpdate(b) \in BagsWith(t)
  /\ \A n \in Numbers : DrawTillUpdate(n) \in Messages /\ DrawTillUpdate(n).kind = "drawtill"
  /\ \A v \in Values : SettingUpdate(v) \in Settings(v) /\ SettingUpdate(v).kind = "setting"
BY DEF CharsetUpdate, DrawTillUpdate, SettingUpdate, Messages, Bags, BagsWith, Settings

(* Nobody is told anything before connecting.                              *)
LEMMA SeenKept ==
  ASSUME Inv, informed' \in {informed, Online}, told' \in {told, Online},
         \A q \in Players : phase'[q] = "away" => phase[q] = "away",
         \A q \in Players : phase[q] = "away" => inbox'[q] = inbox[q]
  PROVE  Seen'
BY DEF Inv, Seen, Online

(* The players agree on the setting still if none is sent or applied.      *)
LEMMA RuleKept ==
  ASSUME Inv, Online' \subseteq Online, Calm(inbox, inbox', "setting"),
         UNCHANGED <<enforce, rule, told, disputed>>
  PROVE  RuleInv'
BY DEF Inv, RuleInv, RuleOf, Calm

(* The players agree on the bag still if no charset is sent or applied.    *)
LEMMA BagKept ==
  ASSUME Inv, Online' \subseteq Online, Calm(inbox, inbox', "charset"),
         UNCHANGED <<charset, bag, informed, careless>>
  PROVE  BagInv'
BY DEF Inv, BagInv, BagOf, Calm

(* No tile is lost if no bag is sent or applied and none leaves a hand.    *)
LEMMA LostKept ==
  ASSUME Inv, Online' \subseteq Online, Calm(inbox, inbox', "charset"),
         UNCHANGED <<charset, informed, loads, supplied, wiped>>,
         \A t \in Tiles : Held(t) => Held(t)'
  PROVE  LostInv'
<1>1. \A t \in UNION loads : t \in Tiles
  BY HandsAssumption DEF Inv, TypeOK
<1>2. ASSUME ~wiped', NEW t \in UNION loads, ~Held(t) PROVE Kept(t)'
  <2>1. Kept(t)
    BY <1>2 DEF Inv, LostInv
  <2>2. QED BY <2>1 DEF Kept, Calm
<1>3. ~wiped' => /\ loads' = {} => supplied' = {} /\ \A p \in Online' : ~Has(inbox'[p], "charset")
                 /\ \A p \in Online' :
                      p \in informed' => p \in supplied' \/ Has(inbox'[p], "charset")
  BY DEF Inv, LostInv, Calm
<1>4. ~wiped' => \A t \in UNION loads' : Held(t)' \/ Kept(t)'
  BY <1>1, <1>2
<1>5. QED BY <1>3, <1>4 DEF LostInv

(* A charset is published: it is the last that everyone else is sent.      *)
LEMMA BagPublished ==
  ASSUME Inv, NEW p \in Online, NEW b \in SUBSET Tiles, Online' \subseteq Online,
         Tells(inbox, inbox', p, CharsetUpdate(b)), p \in Online' => charset'[p] = b,
         bag' = b, informed' = Online,
         ~careless' => ~Has(inbox[p], "charset")
  PROVE  BagInv'
<1> SUFFICES ASSUME ~careless', NEW q \in Online' PROVE BagOf(q)'
  BY DEF BagInv
<1>1. /\ CharsetUpdate(b).kind = "charset" /\ CharsetUpdate(b) \in Bags(b)
  BY MessageFacts
<1>2. CASE q # p
  <2>1. Has(inbox'[q], "charset") /\ Says(inbox'[q], "charset", Bags(b))
    BY <1>1, <1>2 DEF Tells
  <2>2. QED BY <2>1 DEF BagOf
<1>3. CASE q = p
  <2>1. ~Has(inbox'[p], "charset")
    BY <1>1, <1>3 DEF Tells
  <2>2. Says(inbox'[p], "charset", Bags(b))
    BY <2>1 DEF Says, Has
  <2>3. QED BY <1>3, <2>1, <2>2 DEF BagOf
<1>4. QED BY <1>2, <1>3

(* It has all tiles that nobody holds, if the copy it was made of did.     *)
LEMMA LostPublished ==
  ASSUME Inv, NEW p \in Online, NEW b \in SUBSET Tiles, Online' \subseteq Online,
         Tells(inbox, inbox', p, CharsetUpdate(b)), charset' = [charset EXCEPT ![p] = b],
         informed' = Online, wiped' = (wiped \/ p \notin supplied), UNCHANGED <<loads, supplied>>,
         \A t \in Tiles : Held(t) => Held(t)',
         \A t \in charset[p] : t \in b \/ Held(t)'
  PROVE  LostInv'
<1> SUFFICES ASSUME ~wiped' PROVE LostInv'
  BY DEF LostInv
<1>1. ~wiped /\ p \in supplied /\ loads # {} /\ p \in Players
  BY DEF Inv, LostInv, Online
<1>2. CharsetUpdate(b).kind = "charset"
  BY MessageFacts
<1>3. \A q \in Online' : q # p => Has(inbox'[q], "charset")
  BY <1>2 DEF Tells
<1>4. ASSUME NEW t \in UNION loads, ~Held(t)' PROVE Kept(t)'
  <2>1. t \in Tiles /\ ~Held(t)
    BY <1>4, HandsAssumption DEF Inv, TypeOK
  <2>2. Kept(t)
    BY <1>1, <2>1 DEF Inv, LostInv
  <2>3. t \in b
    BY <1>1, <1>4, <2>2 DEF Kept
  <2>4. \A q \in supplied' : t \in charset'[q]
    BY <2>2, <2>3 DEF Kept, Inv, TypeOK
  <2>5. \A q \in Online' : Only(inbox'[q], "charset", BagsWith(t))
    <3>1. CharsetUpdate(b) \in BagsWith(t)
      BY <2>3, MessageFacts
    <3>2. QED BY <1>2, <2>2, <3>1 DEF Kept, Tells
  <2>6. QED BY <2>4, <2>5 DEF Kept
<1>5. QED BY <1>1, <1>3, <1>4 DEF LostInv

-----------------------------------------------------------------------------
(* The steps.                                                              *)

(* The players start away, with empty bags and hands.                      *)
LEMMA InitHolds == Init => Inv
<1> SUFFICES ASSUME Init PROVE Inv
  OBVIOUS
<1>1. inbox \in [Players -> Seq(Messages)]
  <2>1. <<>> \in Seq(Messages)
    OBVIOUS
  <2>2. QED BY <2>1 DEF Init
<1>2. TypeOK
  BY <1>1 DEF Init, TypeOK, NoHand
<1>3. \A p \in Players : ~(p \in Online) /\ inbox[p] = <<>>
  BY DEF Init, Online
<1>4. Seen /\ BagInv /\ RuleInv
  BY <1>3 DEF Init, Seen, BagInv, RuleInv, Online
<1>5. LostInv
  BY <1>3 DEF Init, LostInv, Online
<1>6. QED BY <1>2, <1>4, <1>5 DEF Inv

(* Tiles are drawn, and what is left of the copy is published.             *)
LEMMA DrawStep ==
  ASSUME Inv, NEW p \in Players, phase[p] = "playing", NEW n, NEW boxes \in Boxes,
         Calm(inbox, boxes, "charset"), Calm(inbox, boxes, "setting"),
         \A q \in Players : q \notin Online => boxes[q] = inbox[q],
         NEW after, after = <<>> \/ \E k \in Numbers : after = <<DrawTillUpdate(k)>>,
         DrawTiles(p, n, boxes, after), moves' \in Nat,
         UNCHANGED <<phase, enforce, spent, loads, supplied, ruleHistory>>
  PROVE  Inv'
<1>0. TypeOK /\ p \in Online /\ Online' = Online /\ Online \subseteq Players
  BY OnlineFacts DEF Inv
<1>1. PICK tiles \in Selections(p, n) :
        /\ hand' = [hand EXCEPT
             ![p] = [t \in Tiles |-> hand[p][t] + (IF t \in tiles THEN 1 ELSE 0)]]
        /\ charset' = [charset EXCEPT ![p] = Left(p, tiles)]
        /\ LET sent == Relay(boxes, p, CharsetSent(p, tiles))
           IN inbox' = IF after = <<>> THEN sent ELSE Relay(sent, p, after[1])
        /\ Published(p, Left(p, tiles))
  BY DEF DrawTiles
<1> DEFINE b    == charset[p] \ tiles
           sent == Relay(boxes, p, CharsetUpdate(b))
<1>2. b \in SUBSET Tiles /\ charset' = [charset EXCEPT ![p] = b]
      /\ inbox' = (IF after = <<>> THEN sent ELSE Relay(sent, p, after[1]))
      /\ bag' = b /\ informed' = Online
      /\ careless' = (careless \/ ~UpToDate(p)) /\ wiped' = (wiped \/ p \notin supplied)
  BY <1>0, <1>1 DEF Left, CharsetSent, Published, TypeOK
<1>3. CharsetUpdate(b).kind = "charset" /\ CharsetUpdate(b) \in Messages
  BY <1>2, MessageFacts DEF Bags
<1>4. /\ sent \in Boxes /\ Tells(boxes, sent, p, CharsetUpdate(b)) /\ Calm(boxes, sent, "setting")
      /\ \A q \in Players : q \notin Online => sent[q] = boxes[q]
  BY <1>0, <1>3, RelayFacts
<1> HIDE DEF b, sent
<1>5. /\ inbox' \in Boxes /\ Tells(boxes, inbox', p, CharsetUpdate(b))
      /\ Calm(boxes, inbox', "setting")
      /\ \A q \in Players : q \notin Online => inbox'[q] = boxes[q]
  <2>1. CASE after = <<>>
    BY <1>2, <1>4, <2>1
  <2>2. CASE after # <<>>
    <3>1. PICK k \in Numbers : after = <<DrawTillUpdate(k)>>
      BY <2>2
    <3>2. inbox' = Relay(sent, p, DrawTillUpdate(k))
      BY <1>2, <3>1
    <3>3. /\ inbox' \in Boxes /\ Calm(sent, inbox', "charset") /\ Calm(sent, inbox', "setting")
          /\ \A q \in Players : q \notin Online => inbox'[q] = sent[q]
      BY <1>0, <1>4, <3>2, RelayFacts, MessageFacts
    <3>4. Tells(boxes, inbox', p, CharsetUpdate(b)) /\ Calm(boxes, inbox', "setting")
      BY <1>3, <1>4, <3>3, CalmFacts
    <3>5. QED BY <1>4, <3>3, <3>4
  <2>3. QED BY <2>1, <2>2
<1>6. Tells(inbox, inbox', p, CharsetUpdate(b)) /\ Calm(inbox, inbox', "setting")
  BY <1>3, <1>5, CalmFacts
<1>7. hand' \in [Players -> [Tiles -> Nat]]
  BY <1>0, <1>1 DEF TypeOK
<1>8. TypeOK'
  BY <1>0, <1>2, <1>5, <1>7 DEF TypeOK, Boxes, ruleHistory
<1>9. Seen'
  BY <1>2, <1>5, SeenKept DEF Online, ruleHistory
<1>10. RuleInv'
  BY <1>0, <1>6, RuleKept DEF ruleHistory
<1>11. BagInv'
  <2>1. ~careless' => ~Has(inbox[p], "charset")
    BY <1>2 DEF UpToDate, Pending, Has
  <2>2. charset'[p] = b
    BY <1>0, <1>2 DEF TypeOK
  <2>3. QED BY <1>0, <1>2, <1>6, <2>1, <2>2, BagPublished
<1>12. LostInv'
  <2>1. ASSUME NEW t \in Tiles, Held(t) PROVE Held(t)'
    <3>1. CASE spent[t] > 0
      BY <3>1 DEF Held
    <3>2. ASSUME NEW q \in Players, hand[q][t] > 0 PROVE hand'[q][t] > 0
      BY <1>0, <1>1, <3>2 DEF TypeOK
    <3>3. QED BY <2>1, <3>1, <3>2 DEF Held
  <2>2. ASSUME NEW t \in charset[p], t \notin b PROVE Held(t)'
    <3>1. t \in Tiles /\ t \in tiles
      BY <1>0, <2>2 DEF TypeOK, b
    <3>2. hand'[p][t] > 0
      BY <1>0, <1>1, <3>1 DEF TypeOK
    <3>3. QED BY <3>2 DEF Held
  <2>3. QED BY <1>0, <1>2, <1>6, <2>1, <2>2, LostPublished
<1>13. QED BY <1>8, <1>9, <1>10, <1>11, <1>12 DEF Inv

(* A charset is loaded and published.                                      *)
LEMMA LoadCharsetStep ==
  ASSUME Inv, NEW p \in Players, NEW tiles \in Charsets, LoadCharset(p, tiles) PROVE Inv'
<1>0. /\ TypeOK /\ p \in Online /\ Online' = Online /\ Online \subseteq Players /\ inbox \in Boxes
      /\ tiles \in SUBSET Tiles /\ moves' \in Nat
  BY OnlineFacts, HandsAssumption DEF Inv, TypeOK, LoadCharset, MayMove
<1>1. CharsetUpdate(tiles).kind = "charset" /\ CharsetUpdate(tiles) \in Messages
  BY <1>0, MessageFacts DEF Bags
<1>2. inbox' = Relay(inbox, p, CharsetUpdate(tiles))
  BY DEF LoadCharset
<1>3. /\ inbox' \in Boxes /\ Tells(inbox, inbox', p, CharsetUpdate(tiles))
      /\ Calm(inbox, inbox', "setting")
      /\ \A q \in Players : q \notin Online => inbox'[q] = inbox[q]
  BY <1>0, <1>1, <1>2, RelayFacts
<1>4. TypeOK'
  BY <1>0, <1>3 DEF TypeOK, Boxes, LoadCharset, ruleHistory
<1>5. Seen'
  BY <1>3, SeenKept DEF Online, LoadCharset, ruleHistory
<1>6. RuleInv'
  BY <1>0, <1>3, RuleKept DEF LoadCharset, ruleHistory
<1>7. BagInv'
  <2>1. /\ charset'[p] = tiles /\ bag' = tiles /\ informed' = Online
        /\ ~careless' => ~Has(inbox[p], "charset")
    BY <1>0 DEF TypeOK, LoadCharset, Pending, Has
  <2>2. QED BY <1>0, <1>3, <2>1, BagPublished
<1>8. LostInv'
  <2> SUFFICES ASSUME ~wiped' PROVE LostInv'
    BY DEF LostInv
  <2>1. /\ ~wiped /\ loads = {} /\ supplied = {} /\ \A q \in Online : ~Has(inbox[q], "charset")
        /\ loads' = {tiles} /\ supplied' = {p} /\ informed' = Online /\ charset'[p] = tiles
    BY <1>0 DEF Inv, LostInv, TypeOK, LoadCharset
  <2>2. \A q \in Online' : q # p => Has(inbox'[q], "charset")
    BY <1>1, <1>3 DEF Tells
  <2>3. ASSUME NEW t \in tiles PROVE Kept(t)'
    <3>1. \A q \in Online : Only(inbox[q], "charset", BagsWith(t))
      BY <2>1 DEF Only, Has
    <3>2. CharsetUpdate(tiles) \in BagsWith(t)
      BY <1>0, <2>3, MessageFacts
    <3>3. \A q \in Online' : Only(inbox'[q], "charset", BagsWith(t))
      BY <1>0, <1>1, <1>3, <3>1, <3>2 DEF Tells
    <3>4. QED BY <2>1, <2>3, <3>3 DEF Kept
  <2>4. QED BY <1>0, <2>1, <2>2, <2>3 DEF LostInv
<1>9. QED BY <1>4, <1>5, <1>6, <1>7, <1>8 DEF Inv

(* The commands that draw.                                                 *)
LEMMA DrawCommands ==
  ASSUME Inv, NEW p \in Players, NEW n \in Numbers,
         Draw(p, n) \/ DrawTill(p, n) \/ DrawTillAll(p, n)
  PROVE  Inv'
<1>0. /\ TypeOK /\ p \in Online /\ Online \subseteq Players /\ inbox \in Boxes
      /\ phase[p] = "playing" /\ moves' \in Nat /\ Online' = Online
  BY OnlineFacts DEF Inv, TypeOK, Draw, DrawTill, DrawTillAll, MayMove
<1>1. Calm(inbox, inbox, "charset") /\ Calm(inbox, inbox, "setting")
  BY CalmFacts
<1>2. CASE \E k, after : /\ DrawTiles(p, k, inbox, after)
                         /\ after = <<>> \/ \E i \in Numbers : after = <<DrawTillUpdate(i)>>
  <2>1. UNCHANGED <<phase, enforce, spent, loads, supplied, ruleHistory>>
    BY DEF Draw, DrawTill, DrawTillAll
  <2>2. QED BY <1>0, <1>1, <1>2, <2>1, DrawStep
<1>3. CASE DrawTillAll(p, n) /\ inbox' = Relay(inbox, p, DrawTillUpdate(n)) /\ NoDraw
  <2>1. DrawTillUpdate(n).kind = "drawtill" /\ DrawTillUpdate(n) \in Messages
    BY MessageFacts
  <2>2. /\ inbox' \in Boxes /\ Calm(inbox, inbox', "charset") /\ Calm(inbox, inbox', "setting")
        /\ \A q \in Players : q \notin Online => inbox'[q] = inbox[q]
    BY <1>0, <1>3, <2>1, RelayFacts
  <2>3. UNCHANGED <<phase, hand, charset, bag, informed, careless, wiped, enforce, spent, loads,
                    supplied, rule, told, disputed>>
    BY <1>3 DEF NoDraw, DrawTillAll, ruleHistory
  <2>4. TypeOK'
    BY <1>0, <2>2, <2>3 DEF TypeOK, Boxes
  <2>5. Seen'
    BY <2>2, <2>3, SeenKept DEF Online
  <2>6. BagInv' /\ RuleInv'
    BY <1>0, <2>2, <2>3, BagKept, RuleKept
  <2>7. LostInv'
    <3>1. \A t \in Tiles : Held(t) => Held(t)'
      BY <2>3 DEF Held
    <3>2. QED BY <1>0, <2>2, <2>3, <3>1, LostKept
  <2>8. QED BY <2>4, <2>5, <2>6, <2>7 DEF Inv
<1>4. QED
  <2>1. CASE Draw(p, n)
    BY <1>2, <2>1 DEF Draw
  <2>2. CASE DrawTill(p, n)
    BY <1>2, <2>2 DEF DrawTill
  <2>3. CASE DrawTillAll(p, n)
    BY <1>2, <1>3, <2>3 DEF DrawTillAll
  <2>4. QED BY <2>1, <2>2, <2>3

(* The charset is pushed, perhaps, and the player is gone.                 *)
LEMMA PushStep == ASSUME Inv, NEW p \in Players, Push(p) PROVE Inv'
<1>0. /\ TypeOK /\ p \in Online /\ Online' = Online \ {p} /\ Online \subseteq Players
      /\ inbox \in Boxes /\ moves' \in Nat
  BY OnlineFacts DEF Inv, TypeOK, Push, MayMove, Online
<1> DEFINE b    == charset[p]
           sent == Relay(inbox, p, CharsetUpdate(b))
<1>1. b \in SUBSET Tiles
  BY <1>0 DEF TypeOK
<1>2. CharsetUpdate(b).kind = "charset" /\ CharsetUpdate(b) \in Messages
  BY <1>1, MessageFacts DEF Bags
<1>3. /\ sent \in Boxes /\ Tells(inbox, sent, p, CharsetUpdate(b)) /\ Calm(inbox, sent, "setting")
      /\ \A q \in Players : q \notin Online => sent[q] = inbox[q]
  BY <1>0, <1>2, RelayFacts
<1>4. /\ UNCHANGED <<charset, hand, enforce, spent, loads, supplied, rule, told, disputed>>
      /\ phase' = [phase EXCEPT ![p] = "ended"]
      /\ \/ /\ inbox' = [sent EXCEPT ![p] = <<>>]
            /\ Published(p, b)
         \/ /\ inbox' = [inbox EXCEPT ![p] = <<>>]
            /\ UNCHANGED <<bag, informed, careless, wiped>>
  BY DEF Push, ruleHistory
<1> HIDE DEF b, sent
<1>5. \A t \in Tiles : Held(t) => Held(t)'
  BY <1>4 DEF Held
<1>6. <<>> \in Seq(Messages)
  OBVIOUS
<1>7. ASSUME NEW boxes \in Boxes
      PROVE  /\ [boxes EXCEPT ![p] = <<>>] \in Boxes
             /\ \A q \in Players : q # p => [boxes EXCEPT ![p] = <<>>][q] = boxes[q]
             /\ \A k : Calm(boxes, [boxes EXCEPT ![p] = <<>>], k)
  <2>1. /\ [boxes EXCEPT ![p] = <<>>] \in Boxes
        /\ \A q \in Players : q # p => [boxes EXCEPT ![p] = <<>>][q] = boxes[q]
    BY <1>6 DEF Boxes
  <2>2. \A q \in Online' : [boxes EXCEPT ![p] = <<>>][q] = boxes[q]
    BY <1>0, <2>1
  <2>3. QED BY <2>1, <2>2 DEF Calm
<1>8. CASE inbox' = [sent EXCEPT ![p] = <<>>] /\ Published(p, b)
  <2>1. /\ inbox' \in Boxes /\ Calm(sent, inbox', "charset") /\ Calm(sent, inbox', "setting")
        /\ \A q \in Players : q # p => inbox'[q] = sent[q]
    BY <1>3, <1>7, <1>8
  <2>2. Tells(inbox, inbox', p, CharsetUpdate(b)) /\ Calm(inbox, inbox', "setting")
    BY <1>2, <1>3, <2>1, CalmFacts
  <2>3. /\ bag' = b /\ informed' = Online
        /\ careless' = (careless \/ ~UpToDate(p)) /\ wiped' = (wiped \/ p \notin supplied)
    BY <1>8 DEF Published
  <2>4. TypeOK'
    BY <1>0, <1>1, <1>4, <2>1, <2>3 DEF TypeOK, Boxes
  <2>5. Seen'
    <3>1. \A q \in Players : phase'[q] = "away" => phase[q] = "away"
      BY <1>0, <1>4 DEF TypeOK
    <3>2. \A q \in Players : phase[q] = "away" => q # p /\ q \notin Online
      BY <1>0 DEF Online
    <3>3. QED BY <1>3, <1>4, <2>1, <2>3, <3>1, <3>2, SeenKept
  <2>6. RuleInv'
    BY <1>0, <1>4, <2>2, RuleKept
  <2>7. BagInv'
    <3>1. ~careless' => ~Has(inbox[p], "charset")
      BY <2>3 DEF UpToDate, Pending, Has
    <3>2. QED BY <1>0, <1>1, <2>2, <2>3, <3>1, BagPublished
  <2>8. LostInv'
    <3>1. charset' = [charset EXCEPT ![p] = b]
      BY <1>0, <1>4 DEF TypeOK, b
    <3>2. \A t \in charset[p] : t \in b
      BY DEF b
    <3>3. QED BY <1>0, <1>1, <1>4, <1>5, <2>2, <2>3, <3>1, <3>2, LostPublished
  <2>9. QED BY <2>4, <2>5, <2>6, <2>7, <2>8 DEF Inv
<1>9. CASE inbox' = [inbox EXCEPT ![p] = <<>>] /\ UNCHANGED <<bag, informed, careless, wiped>>
  <2>1. /\ inbox' \in Boxes /\ Calm(inbox, inbox', "charset") /\ Calm(inbox, inbox', "setting")
        /\ \A q \in Players : q # p => inbox'[q] = inbox[q]
    BY <1>0, <1>7, <1>9
  <2>2. TypeOK'
    BY <1>0, <1>4, <1>9, <2>1 DEF TypeOK, Boxes
  <2>3. Seen'
    <3>1. \A q \in Players : phase'[q] = "away" => phase[q] = "away"
      BY <1>0, <1>4 DEF TypeOK
    <3>2. \A q \in Players : phase[q] = "away" => q # p
      BY <1>0 DEF Online
    <3>3. QED BY <1>4, <1>9, <2>1, <3>1, <3>2, SeenKept
  <2>4. RuleInv' /\ BagInv' /\ LostInv'
    BY <1>0, <1>4, <1>5, <1>9, <2>1, RuleKept, BagKept, LostKept
  <2>5. QED BY <2>2, <2>3, <2>4 DEF Inv
<1>10. QED BY <1>4, <1>8, <1>9

(* A setting that is understood is or becomes one of the two.              *)
LEMMA LoadCommandFacts ==
  ASSUME TypeOK, NEW p \in Players, NEW v \in {"unset"} \cup Values
  PROVE  /\ LoadCommand(p, v) \in [Players -> {"unset", "on", "off"}]
         /\ Understood(v) => LoadCommand(p, v)[p] = v
         /\ \A q \in Players : q # p => LoadCommand(p, v)[q] = enforce[q]
BY DEF TypeOK, LoadCommand, Understood, Values

(* /config: the setting is loaded and spread, be it a value that is known  *)
(* or not.                                                                 *)
LEMMA ConfigStep == ASSUME Inv, NEW p \in Players, NEW v \in Values, Config(p, v) PROVE Inv'
<1>0. /\ TypeOK /\ p \in Online /\ Online' = Online /\ Online \subseteq Players /\ inbox \in Boxes
      /\ moves' \in Nat
      /\ UNCHANGED <<phase, charset, hand, spent, bag, informed, loads, careless, supplied, wiped>>
  BY OnlineFacts DEF Inv, TypeOK, Config, MayMove, bagHistory
<1>1. SettingUpdate(v).kind = "setting" /\ SettingUpdate(v) \in Messages
      /\ SettingUpdate(v) \in Settings(v)
  BY MessageFacts DEF Settings
<1>2. /\ enforce' \in [Players -> {"unset", "on", "off"}]
      /\ Understood(v) => enforce'[p] = v
  BY <1>0, LoadCommandFacts DEF Config
<1>3. /\ inbox' \in Boxes /\ Calm(inbox, inbox', "charset")
      /\ Understood(v) => Tells(inbox, inbox', p, SettingUpdate(v))
      /\ \A q \in Players : q \notin Online => inbox'[q] = inbox[q]
  <2>1. CASE Understood(v)
    <3>1. inbox' = Relay(inbox, p, SettingUpdate(v))
      BY <2>1 DEF Config
    <3>2. QED BY <1>0, <1>1, <3>1, RelayFacts
  <2>2. CASE ~Understood(v)
    BY <1>0, <2>2, CalmFacts DEF Config
  <2>3. QED BY <2>1, <2>2
<1>4. TypeOK'
  <2>1. /\ rule' \in {"unset", "on", "off"} /\ told' \in SUBSET Players /\ disputed' \in BOOLEAN
    BY <1>0 DEF TypeOK, Config, Understood, Values
  <2>2. QED BY <1>0, <1>2, <1>3, <2>1 DEF TypeOK, Boxes
<1>5. Seen'
  BY <1>0, <1>3, SeenKept DEF Config, Online
<1>6. BagInv' /\ LostInv'
  <2>1. \A t \in Tiles : Held(t) => Held(t)'
    BY <1>0 DEF Held
  <2>2. QED BY <1>0, <1>3, <2>1, BagKept, LostKept
<1>7. RuleInv'
  <2> SUFFICES ASSUME ~disputed', NEW q \in Online' PROVE RuleOf(q)'
    BY DEF RuleInv
  <2>1. Understood(v) /\ ~Has(inbox[p], "setting") /\ rule' = v
    BY DEF Config, Pending, Has
  <2>2. CASE q # p
    <3>1. Has(inbox'[q], "setting") /\ Says(inbox'[q], "setting", Settings(v))
      BY <1>1, <1>3, <2>1, <2>2 DEF Tells
    <3>2. QED BY <2>1, <3>1 DEF RuleOf
  <2>3. CASE q = p
    <3>1. ~Has(inbox'[p], "setting")
      BY <1>1, <1>3, <2>1, <2>3 DEF Tells
    <3>2. Says(inbox'[p], "setting", Settings(v))
      BY <3>1 DEF Says, Has
    <3>3. QED BY <1>2, <2>1, <2>3, <3>1, <3>2 DEF RuleOf
  <2>4. QED BY <2>2, <2>3
<1>8. QED BY <1>4, <1>5, <1>6, <1>7 DEF Inv

(* A tile leaves the hand, and is spent.                                   *)
LEMMA PlayStep == ASSUME Inv, NEW p \in Players, NEW t \in Tiles, Play(p, t) PROVE Inv'
<1>0. /\ TypeOK /\ Online' = Online /\ Online \subseteq Players /\ inbox \in Boxes /\ moves' \in Nat
      /\ UNCHANGED <<phase, inbox, charset, enforce, bag, informed, loads, careless, supplied,
                     wiped, rule, told, disputed>>
  BY OnlineFacts DEF Inv, TypeOK, Play, MayMove, bagHistory, ruleHistory
<1>1. Calm(inbox, inbox', "charset") /\ Calm(inbox, inbox', "setting")
  BY <1>0, CalmFacts
<1>2. /\ hand' \in [Players -> [Tiles -> Nat]] /\ spent' \in [Tiles -> Nat]
      /\ \A u \in Tiles : Held(u) => Held(u)'
  <2>1. CASE hand[p][t] > 0
    <3>1. /\ hand' = [hand EXCEPT ![p][t] = hand[p][t] - 1]
          /\ spent' = [spent EXCEPT ![t] = spent[t] + 1]
      BY <2>1 DEF Play, PlayTile
    <3>2. hand[p][t] \in Nat /\ hand[p][t] - 1 \in Nat /\ spent[t] \in Nat
      BY <1>0, <2>1 DEF TypeOK
    <3>3. hand' \in [Players -> [Tiles -> Nat]] /\ spent' \in [Tiles -> Nat]
      BY <1>0, <3>1, <3>2 DEF TypeOK
    <3>4. ASSUME NEW u \in Tiles, Held(u) PROVE Held(u)'
      <4>1. CASE u = t
        <5>1. spent'[t] > 0
          BY <1>0, <3>1, <3>2 DEF TypeOK
        <5>2. QED BY <4>1, <5>1 DEF Held
      <4>2. CASE u # t
        <5>1. spent'[u] = spent[u] /\ \A q \in Players : hand'[q][u] = hand[q][u]
          BY <1>0, <3>1, <4>2 DEF TypeOK
        <5>2. QED BY <3>4, <5>1 DEF Held
      <4>3. QED BY <4>1, <4>2
    <3>5. QED BY <3>3, <3>4
  <2>2. CASE hand[p][t] = 0
    <3>1. UNCHANGED <<hand, spent>>
      BY <2>2 DEF Play
    <3>2. QED BY <1>0, <3>1 DEF TypeOK, Held
  <2>3. QED
    <3>1. hand[p][t] > 0 \/ hand[p][t] = 0
      BY DEF Play
    <3>2. QED BY <2>1, <2>2, <3>1
<1>3. TypeOK'
  BY <1>0, <1>2 DEF TypeOK
<1>4. Seen' /\ BagInv' /\ RuleInv' /\ LostInv'
  BY <1>0, <1>1, <1>2, SeenKept, BagKept, RuleKept, LostKept
<1>5. QED BY <1>3, <1>4 DEF Inv

(* A player connects, who has been told nothing.                           *)
LEMMA ConnectStep == ASSUME Inv, NEW p \in Players, Connect(p) PROVE Inv'
<1>0. /\ TypeOK /\ Online' = Online \cup {p}
      /\ p \notin informed /\ p \notin told /\ inbox[p] = <<>>
      /\ UNCHANGED <<inbox, charset, hand, enforce, spent, bag, informed, loads, careless,
                     supplied, wiped, rule, told, disputed, moves>>
  BY DEF Inv, TypeOK, Seen, Connect, Online, bagHistory, ruleHistory
<1>1. ~Has(inbox[p], "charset") /\ \A ms : Only(inbox[p], "charset", ms)
  BY <1>0 DEF Has, Only
<1>2. TypeOK' /\ Seen'
  BY <1>0 DEF Inv, TypeOK, Seen, Connect
<1>3. BagInv' /\ RuleInv'
  BY <1>0 DEF Inv, BagInv, BagOf, RuleInv, RuleOf
<1>4. LostInv'
  <2>1. \A t : Kept(t) => Kept(t)'
    BY <1>0, <1>1 DEF Kept
  <2>2. \A t : Held(t) => Held(t)'
    BY <1>0 DEF Held
  <2>3. QED BY <1>0, <1>1, <2>1, <2>2 DEF Inv, LostInv
<1>5. QED BY <1>2, <1>3, <1>4 DEF Inv

-----------------------------------------------------------------------------
(* The updates.                                                            *)

(* What is polled, of whatever kind.                                       *)
LEMMA Polls ==
  ASSUME Inv, NEW p \in Players, NEW k, Received(p, k)
  PROVE  /\ TypeOK /\ p \in Online /\ Online \subseteq Players /\ inbox \in Boxes
         /\ phase[p] = "playing" /\ inbox[p] # <<>> /\ Head(inbox[p]).kind = k
         /\ Head(inbox[p]) \in Messages /\ inbox[p] \in Seq(Messages)
         /\ \A q \in Players : phase[q] = "away" => q # p /\ q \notin Online
         /\ Has(inbox[p], k)
<1>1. /\ TypeOK /\ p \in Online /\ Online \subseteq Players /\ inbox \in Boxes
      /\ phase[p] = "playing" /\ inbox[p] # <<>> /\ Head(inbox[p]).kind = k
      /\ \A q \in Players : phase[q] = "away" => q # p /\ q \notin Online
  BY OnlineFacts DEF Inv, Received, Online
<1>2. inbox[p] \in Seq(Messages)
  BY <1>1 DEF Boxes
<1>3. Head(inbox[p]) \in Messages /\ Has(inbox[p], k)
  BY <1>1, <1>2, TailFacts
<1>4. QED BY <1>1, <1>2, <1>3

(* The copy becomes the one that was sent.                                 *)
LEMMA UpdateCharsetStep == ASSUME Inv, NEW p \in Players, UpdateCharset(p) PROVE Inv'
<1> DEFINE m == Head(inbox[p])
<1>0. /\ TypeOK /\ p \in Online /\ Online \subseteq Players /\ inbox \in Boxes
      /\ phase[p] = "playing" /\ inbox[p] # <<>> /\ m.kind = "charset" /\ m \in Messages
      /\ inbox[p] \in Seq(Messages) /\ Has(inbox[p], "charset")
      /\ \A q \in Players : phase[q] = "away" => q # p /\ q \notin Online
  BY Polls DEF UpdateCharset
<1>1. /\ inbox' = Polled(p) /\ Online' = Online
      /\ charset' = [charset EXCEPT ![p] = m.tiles] /\ supplied' = supplied \cup {p}
      /\ UNCHANGED <<phase, hand, enforce, spent, bag, informed, loads, careless, wiped, rule, told,
                     disputed, moves>>
  BY DEF UpdateCharset, Online, ruleHistory
<1>2. /\ inbox' \in Boxes /\ Calm(inbox, inbox', "setting") /\ inbox'[p] = Tail(inbox[p])
      /\ \A q \in Players : q # p => inbox'[q] = inbox[q]
  BY <1>0, <1>1, PolledFacts
<1>3. \A ms :
        /\ Says(inbox[p], "charset", ms) => Says(inbox'[p], "charset", ms)
        /\ Says(inbox[p], "charset", ms) /\ ~Has(inbox'[p], "charset") => m \in ms
        /\ Only(inbox[p], "charset", ms) => Only(inbox'[p], "charset", ms) /\ m \in ms
  BY <1>0, <1>2, TailFacts
<1> HIDE DEF m
<1>4. m.tiles \in SUBSET Tiles
  BY <1>0 DEF Messages
<1>5. TypeOK'
  BY <1>0, <1>1, <1>2, <1>4 DEF TypeOK, Boxes
<1>6. Seen'
  BY <1>0, <1>1, <1>2, SeenKept
<1>7. RuleInv'
  BY <1>1, <1>2, RuleKept
<1>8. BagInv'
  <2> SUFFICES ASSUME ~careless', NEW q \in Online', q \in informed' PROVE BagOf(q)'
    BY DEF BagInv
  <2>1. BagOf(q) /\ q \in Players
    BY <1>0, <1>1 DEF Inv, BagInv
  <2>2. CASE q = p
    <3>1. Says(inbox[p], "charset", Bags(bag))
      BY <2>1, <2>2 DEF BagOf
    <3>2. Says(inbox'[p], "charset", Bags(bag)) /\ (~Has(inbox'[p], "charset") => m \in Bags(bag))
      BY <1>3, <3>1
    <3>3. charset'[p] = m.tiles
      BY <1>0, <1>1 DEF TypeOK
    <3>4. QED BY <1>1, <2>2, <3>2, <3>3 DEF BagOf, Bags
  <2>3. CASE q # p
    <3>1. charset'[q] = charset[q] /\ inbox'[q] = inbox[q]
      BY <1>0, <1>1, <1>2, <2>1, <2>3 DEF TypeOK
    <3>2. QED BY <1>1, <2>1, <3>1 DEF BagOf
  <2>4. QED BY <2>2, <2>3
<1>9. LostInv'
  <2> SUFFICES ASSUME ~wiped' PROVE LostInv'
    BY DEF LostInv
  <2>1. /\ loads # {}
        /\ \A q \in Online : q \in informed => q \in supplied \/ Has(inbox[q], "charset")
    BY <1>0, <1>1 DEF Inv, LostInv
  <2>2. \A q \in Online' : q \in informed' => q \in supplied' \/ Has(inbox'[q], "charset")
    BY <1>0, <1>1, <1>2, <2>1
  <2>3. ASSUME NEW t \in UNION loads, ~Held(t) PROVE Kept(t)'
    <3>1. Kept(t)
      BY <1>1, <2>3 DEF Inv, LostInv
    <3>2. Only(inbox'[p], "charset", BagsWith(t)) /\ t \in m.tiles
      BY <1>0, <1>3, <3>1 DEF Kept, BagsWith
    <3>3. \A q \in Online' : Only(inbox'[q], "charset", BagsWith(t))
      BY <1>0, <1>1, <1>2, <3>1, <3>2 DEF Kept
    <3>4. \A q \in supplied' : t \in charset'[q]
      BY <1>0, <1>1, <3>1, <3>2 DEF Kept, TypeOK
    <3>5. QED BY <3>3, <3>4 DEF Kept
  <2>4. \A t : Held(t)' <=> Held(t)
    BY <1>1 DEF Held
  <2>5. QED BY <1>1, <2>1, <2>2, <2>3, <2>4 DEF LostInv
<1>10. QED BY <1>5, <1>6, <1>7, <1>8, <1>9 DEF Inv

(* The setting becomes the one that was sent.                              *)
LEMMA UpdateSettingStep == ASSUME Inv, NEW p \in Players, UpdateSetting(p) PROVE Inv'
<1> DEFINE m == Head(inbox[p])
<1>0. /\ TypeOK /\ p \in Online /\ Online \subseteq Players /\ inbox \in Boxes
      /\ phase[p] = "playing" /\ inbox[p] # <<>> /\ m.kind = "setting" /\ m \in Messages
      /\ inbox[p] \in Seq(Messages)
      /\ \A q \in Players : phase[q] = "away" => q # p /\ q \notin Online
  BY Polls DEF UpdateSetting
<1>1. /\ inbox' = Polled(p) /\ Online' = Online /\ enforce' = LoadCommand(p, m.value)
      /\ UNCHANGED <<phase, charset, hand, spent, bag, informed, loads, careless, supplied, wiped,
                     rule, told, disputed, moves>>
  BY DEF UpdateSetting, Online, ruleHistory, bagHistory
<1>2. /\ inbox' \in Boxes /\ Calm(inbox, inbox', "charset") /\ inbox'[p] = Tail(inbox[p])
      /\ \A q \in Players : q # p => inbox'[q] = inbox[q]
  BY <1>0, <1>1, PolledFacts
<1>3. \A ms :
        /\ Says(inbox[p], "setting", ms) => Says(inbox'[p], "setting", ms)
        /\ Says(inbox[p], "setting", ms) /\ ~Has(inbox'[p], "setting") => m \in ms
  BY <1>0, <1>2, TailFacts
<1> HIDE DEF m
<1>4. m.value \in {"unset"} \cup Values
  BY <1>0 DEF Messages
<1>5. /\ enforce' \in [Players -> {"unset", "on", "off"}]
      /\ Understood(m.value) => enforce'[p] = m.value
      /\ \A q \in Players : q # p => enforce'[q] = enforce[q]
  BY <1>0, <1>1, <1>4, LoadCommandFacts
<1>6. TypeOK'
  BY <1>0, <1>1, <1>2, <1>5 DEF TypeOK, Boxes
<1>7. Seen'
  BY <1>0, <1>1, <1>2, SeenKept
<1>8. BagInv' /\ LostInv'
  <2>1. \A t \in Tiles : Held(t) => Held(t)'
    BY <1>1 DEF Held
  <2>2. QED BY <1>1, <1>2, <2>1, BagKept, LostKept
<1>9. RuleInv'
  <2> SUFFICES ASSUME ~disputed', NEW q \in Online', q \in told' PROVE RuleOf(q)'
    BY DEF RuleInv
  <2>1. RuleOf(q) /\ q \in Players
    BY <1>0, <1>1 DEF Inv, RuleInv
  <2>2. CASE q = p
    <3>1. Says(inbox[p], "setting", Settings(rule))
      BY <2>1, <2>2 DEF RuleOf
    <3>2. Says(inbox'[p], "setting", Settings(rule))
          /\ (~Has(inbox'[p], "setting") => m \in Settings(rule))
      BY <1>3, <3>1
    <3>3. m \in Settings(rule) => m.value = rule /\ Understood(m.value)
      BY <1>0 DEF Settings, TypeOK, Understood
    <3>4. QED BY <1>1, <1>5, <2>2, <3>2, <3>3 DEF RuleOf
  <2>3. CASE q # p
    BY <1>1, <1>2, <1>5, <2>1, <2>3 DEF RuleOf
  <2>4. QED BY <2>2, <2>3
<1>10. QED BY <1>6, <1>7, <1>8, <1>9 DEF Inv

(* A player who is told to draw does, or has enough.                       *)
LEMMA UpdateDrawTillStep == ASSUME Inv, NEW p \in Players, UpdateDrawTill(p) PROVE Inv'
<1>0. /\ TypeOK /\ p \in Online /\ Online \subseteq Players /\ inbox \in Boxes
      /\ phase[p] = "playing" /\ inbox[p] # <<>> /\ Head(inbox[p]).kind = "drawtill"
      /\ \A q \in Players : phase[q] = "away" => q # p /\ q \notin Online
  BY Polls DEF UpdateDrawTill
<1>1. Online' = Online /\ moves' \in Nat
      /\ UNCHANGED <<phase, enforce, spent, loads, supplied, ruleHistory>>
  BY <1>0 DEF UpdateDrawTill, Online, TypeOK
<1>2. /\ Polled(p) \in Boxes
      /\ Calm(inbox, Polled(p), "charset") /\ Calm(inbox, Polled(p), "setting")
      /\ \A q \in Players : q \notin Online => Polled(p)[q] = inbox[q]
  BY <1>0, <1>1, PolledFacts
<1>3. CASE \E n : DrawTiles(p, n, Polled(p), <<>>)
  BY <1>0, <1>1, <1>2, <1>3, DrawStep
<1>4. CASE inbox' = Polled(p) /\ NoDraw
  <2>1. UNCHANGED <<hand, charset, bag, informed, careless, wiped, rule, told, disputed>>
    BY <1>1, <1>4 DEF NoDraw, ruleHistory
  <2>2. TypeOK'
    BY <1>0, <1>1, <1>2, <1>4, <2>1 DEF TypeOK, Boxes
  <2>3. Seen'
    BY <1>0, <1>1, <1>2, <1>4, <2>1, SeenKept
  <2>4. BagInv' /\ RuleInv' /\ LostInv'
    <3>1. \A t \in Tiles : Held(t) => Held(t)'
      BY <1>1, <2>1 DEF Held
    <3>2. QED BY <1>1, <1>2, <1>4, <2>1, <3>1, BagKept, RuleKept, LostKept
  <2>5. QED BY <2>2, <2>3, <2>4 DEF Inv
<1>5. QED BY <1>3, <1>4 DEF UpdateDrawTill

(* Every step of every player keeps the invariant.                         *)
LEMMA NextHolds == Inv /\ [Next]_vars => Inv'
<1> SUFFICES ASSUME Inv, [Next]_vars PROVE Inv'
  OBVIOUS
<1>1. ASSUME NEW p \in Players, Update(p) PROVE Inv'
  BY <1>1, UpdateCharsetStep, UpdateDrawTillStep, UpdateSettingStep DEF Update
<1>2. ASSUME NEW p \in Players, Command(p) PROVE Inv'
  BY <1>2, LoadCharsetStep, DrawCommands, PushStep, ConfigStep, PlayStep DEF Command
<1>3. ASSUME NEW p \in Players, Connect(p) PROVE Inv'
  BY <1>3, ConnectStep
<1>4. CASE UNCHANGED vars
  <2>1. UNCHANGED <<phase, inbox, charset, hand, enforce, spent, bag, informed, loads, careless,
                    supplied, wiped, rule, told, disputed, moves>>
    BY <1>4 DEF vars, bagHistory, ruleHistory
  <2>2. Online' = Online
    BY <2>1 DEF Online
  <2>3. TypeOK' /\ Seen' /\ BagInv' /\ RuleInv'
    BY <2>1, <2>2 DEF Inv, TypeOK, Seen, BagInv, BagOf, RuleInv, RuleOf
  <2>4. LostInv'
    BY <2>1, <2>2 DEF Inv, LostInv, Kept, Held
  <2>5. QED BY <2>3, <2>4 DEF Inv
<1>5. QED BY <1>1, <1>2, <1>3, <1>4 DEF Next

(* The invariant holds always.                                             *)
LEMMA InvHolds == Spec => []Inv
BY InitHolds, NextHolds, PTL DEF Spec

-----------------------------------------------------------------------------
(* Where the tiles are.                                                    *)

OnePlace(t) ==
  \/ t \in bag    /\ Undrawn(t)  /\ spent[t] = 0
  \/ t \notin bag /\ HeldOnce(t) /\ spent[t] = 0
  \/ t \notin bag /\ Undrawn(t)  /\ spent[t] = 1

(* Before a charset is loaded there are no tiles anywhere.                 *)
Nowhere == bag = {} /\ \A t \in Tiles : Undrawn(t) /\ spent[t] = 0

OnceInv == ~careless =>
  /\ loads = {} => Nowhere
  /\ \A t \in UNION loads : OnePlace(t)

(* A step that moves no tile.                                              *)
LEMMA OnceKept ==
  ASSUME OnceInv, UNCHANGED <<hand, spent, bag, loads>>, careless => careless'
  PROVE  OnceInv'
BY DEF OnceInv, Nowhere, OnePlace, Undrawn, HeldOnce

(* A player who publishes from a copy that is up to date has the bag.      *)
LEMMA CopyIsBag ==
  ASSUME Inv, ~careless, NEW p \in Players, phase[p] = "playing", UpToDate(p)
  PROVE  charset[p] = bag
<1>1. ~Has(inbox[p], "charset") /\ p \in informed /\ p \in Online
  BY DEF UpToDate, Pending, Has, Online
<1>2. QED BY <1>1 DEF Inv, BagInv, BagOf

(* The tiles drawn leave the bag for one hand.                             *)
LEMMA DrawMoves ==
  ASSUME Inv, OnceInv, NEW p \in Players, phase[p] = "playing", NEW n, NEW boxes, NEW after,
         DrawTiles(p, n, boxes, after), UNCHANGED <<spent, loads>>
  PROVE  OnceInv'
<1>0. TypeOK /\ UNION loads \subseteq Tiles
  BY HandsAssumption DEF Inv, TypeOK
<1>1. PICK tiles \in Selections(p, n) :
        /\ hand' = [hand EXCEPT
             ![p] = [t \in Tiles |-> hand[p][t] + (IF t \in tiles THEN 1 ELSE 0)]]
        /\ Published(p, Left(p, tiles))
  BY DEF DrawTiles
<1>2. tiles \subseteq charset[p]
  BY <1>1 DEF Selections, kSubset
<1>3. bag' = charset[p] \ tiles /\ careless' = (careless \/ ~UpToDate(p))
  BY <1>1 DEF Published, Left
<1> SUFFICES ASSUME ~careless' PROVE OnceInv'
  BY DEF OnceInv
<1>4. /\ tiles \subseteq bag /\ bag' = bag \ tiles /\ ~careless
      /\ loads = {} => Nowhere
      /\ \A t \in UNION loads : OnePlace(t)
  BY <1>2, <1>3, CopyIsBag DEF OnceInv
<1>5. \A q \in Players, t \in Tiles :
        /\ hand[q][t] \in Nat
        /\ hand'[q][t] = IF q = p /\ t \in tiles THEN hand[q][t] + 1 ELSE hand[q][t]
  BY <1>0, <1>1 DEF TypeOK
<1>6. ASSUME loads' = {} PROVE Nowhere'
  BY <1>4, <1>5, <1>6 DEF Nowhere, Undrawn
<1>7. ASSUME NEW t \in UNION loads' PROVE OnePlace(t)'
  <2>0. t \in Tiles /\ OnePlace(t)
    BY <1>0, <1>4, <1>7
  <2>1. CASE t \in tiles
    <3>1. t \in bag /\ Undrawn(t) /\ spent[t] = 0
      BY <1>4, <2>0, <2>1 DEF OnePlace
    <3>2. t \notin bag' /\ spent'[t] = 0 /\ HeldOnce(t)'
      BY <1>4, <1>5, <2>0, <2>1, <3>1 DEF Undrawn, HeldOnce
    <3>3. QED BY <3>2 DEF OnePlace
  <2>2. CASE t \notin tiles
    <3>1. /\ t \in bag' <=> t \in bag
          /\ spent'[t] = spent[t] /\ \A q \in Players : hand'[q][t] = hand[q][t]
      BY <1>4, <1>5, <2>0, <2>2
    <3>2. QED BY <2>0, <3>1 DEF OnePlace, Undrawn, HeldOnce
  <2>3. QED BY <2>1, <2>2
<1>8. QED BY <1>6, <1>7 DEF OnceInv

(* The first charset that is loaded is the bag.                            *)
LEMMA LoadMoves ==
  ASSUME Inv, OnceInv, NEW p \in Players, NEW tiles \in Charsets, LoadCharset(p, tiles)
  PROVE  OnceInv'
<1> SUFFICES ASSUME ~careless' PROVE OnceInv'
  BY DEF OnceInv
<1>1. /\ bag' = tiles /\ loads = {} /\ loads' = {tiles} /\ UNCHANGED <<hand, spent>>
      /\ ~careless /\ tiles \subseteq Tiles
  BY HandsAssumption DEF LoadCharset
<1>2. Nowhere
  BY <1>1 DEF OnceInv
<1>3. \A t \in tiles : OnePlace(t)'
  BY <1>1, <1>2 DEF Nowhere, OnePlace, Undrawn
<1>4. QED BY <1>1, <1>3 DEF OnceInv

(* The tile played was in the one hand.                                    *)
LEMMA PlayMoves ==
  ASSUME Inv, OnceInv, NEW p \in Players, NEW u \in Tiles, Play(p, u)
  PROVE  OnceInv'
<1>0. TypeOK /\ UNION loads \subseteq Tiles /\ UNCHANGED <<bag, loads, careless>>
  BY HandsAssumption DEF Inv, TypeOK, Play, bagHistory
<1>1. CASE UNCHANGED <<hand, spent>>
  BY <1>0, <1>1, OnceKept
<1>2. CASE hand[p][u] > 0 /\ PlayTile(p, u) /\ spent' = [spent EXCEPT ![u] = @ + 1]
  <2> SUFFICES ASSUME ~careless PROVE OnceInv'
    BY <1>0 DEF OnceInv
  <2>1. /\ loads = {} => Nowhere
        /\ \A t \in UNION loads : OnePlace(t)
    BY DEF OnceInv
  <2>2. /\ \A q \in Players, t \in Tiles :
             /\ hand[q][t] \in Nat
             /\ hand'[q][t] = IF q = p /\ t = u THEN hand[q][t] - 1 ELSE hand[q][t]
        /\ \A t \in Tiles : spent'[t] = IF t = u THEN spent[t] + 1 ELSE spent[t]
    BY <1>0, <1>2 DEF TypeOK, PlayTile
  <2>3. loads # {}
    BY <1>2, <2>1 DEF Nowhere, Undrawn
  <2>4. ASSUME NEW t \in UNION loads PROVE OnePlace(t)'
    <3>0. t \in Tiles /\ OnePlace(t)
      BY <1>0, <2>1, <2>4
    <3>1. CASE t = u
      <4>1. t \notin bag /\ HeldOnce(t) /\ spent[t] = 0
        BY <1>2, <3>0, <3>1 DEF OnePlace, Undrawn
      <4>2. hand[p][t] = 1 /\ \A q \in Players \ {p} : hand[q][t] = 0
        BY <1>2, <3>1, <4>1 DEF HeldOnce
      <4>3. Undrawn(t)' /\ spent'[t] = 1
        BY <2>2, <3>0, <3>1, <4>1, <4>2 DEF Undrawn
      <4>4. QED BY <1>0, <4>1, <4>3 DEF OnePlace
    <3>2. CASE t # u
      <4>1. spent'[t] = spent[t] /\ \A q \in Players : hand'[q][t] = hand[q][t]
        BY <2>2, <3>0, <3>2
      <4>2. QED BY <1>0, <3>0, <4>1 DEF OnePlace, Undrawn, HeldOnce
    <3>3. QED BY <3>1, <3>2
  <2>5. QED BY <1>0, <2>3, <2>4 DEF OnceInv
<1>3. QED BY <1>1, <1>2 DEF Play

(* A push publishes the bag as it is.                                      *)
LEMMA PushMoves == ASSUME Inv, OnceInv, NEW p \in Players, Push(p) PROVE OnceInv'
<1>0. UNCHANGED <<hand, spent, loads>> /\ phase[p] = "playing"
  BY DEF Push, MayMove
<1>1. CASE UNCHANGED <<bag, careless>>
  BY <1>0, <1>1, OnceKept
<1>2. CASE Published(p, charset[p])
  <2>1. bag' = charset[p] /\ careless' = (careless \/ ~UpToDate(p))
    BY <1>2 DEF Published
  <2>2. CASE careless'
    BY <2>2 DEF OnceInv
  <2>3. CASE ~careless'
    <3>1. bag' = bag /\ ~careless
      BY <1>0, <2>1, <2>3, CopyIsBag
    <3>2. QED BY <1>0, <3>1, OnceKept
  <2>4. QED BY <2>2, <2>3
<1>3. QED BY <1>1, <1>2 DEF Push

(* Nothing else moves a tile.                                              *)
LEMMA OnceStep == Inv /\ OnceInv /\ [Next]_vars => OnceInv'
<1> SUFFICES ASSUME Inv, OnceInv, [Next]_vars PROVE OnceInv'
  OBVIOUS
<1>1. CASE UNCHANGED vars
  BY <1>1, OnceKept DEF vars, bagHistory
<1>2. ASSUME NEW p \in Players, Connect(p) \/ UpdateCharset(p) \/ UpdateSetting(p) PROVE OnceInv'
  BY <1>2, OnceKept DEF Connect, UpdateCharset, UpdateSetting, bagHistory
<1>3. ASSUME NEW p \in Players, NEW v \in Values, Config(p, v) PROVE OnceInv'
  BY <1>3, OnceKept DEF Config, bagHistory
<1>4. ASSUME NEW p \in Players, UpdateDrawTill(p) PROVE OnceInv'
  <2>1. phase[p] = "playing" /\ UNCHANGED <<spent, loads>>
    BY <1>4 DEF UpdateDrawTill, Received
  <2>2. CASE NoDraw
    BY <2>1, <2>2, OnceKept DEF NoDraw
  <2>3. CASE \E n, boxes : DrawTiles(p, n, boxes, <<>>)
    BY <2>1, <2>3, DrawMoves
  <2>4. QED BY <1>4, <2>2, <2>3 DEF UpdateDrawTill
<1>5. ASSUME NEW p \in Players, NEW n \in Numbers, Draw(p, n) \/ DrawTill(p, n) \/ DrawTillAll(p, n)
      PROVE  OnceInv'
  <2>1. phase[p] = "playing" /\ UNCHANGED <<spent, loads>>
    BY <1>5 DEF Draw, DrawTill, DrawTillAll, MayMove
  <2>2. CASE NoDraw
    BY <2>1, <2>2, OnceKept DEF NoDraw
  <2>3. CASE \E k, after : DrawTiles(p, k, inbox, after)
    BY <2>1, <2>3, DrawMoves
  <2>4. QED BY <1>5, <2>2, <2>3 DEF Draw, DrawTill, DrawTillAll
<1>6. ASSUME NEW p \in Players, Command(p) PROVE OnceInv'
  BY <1>3, <1>5, <1>6, LoadMoves, PushMoves, PlayMoves DEF Command
<1>7. QED BY <1>1, <1>2, <1>4, <1>6 DEF Next, Update

-----------------------------------------------------------------------------
(* The theorems.                                                           *)

(* Every variable keeps its type: no hand falls below nothing, and no      *)
(* player goes by a setting that was not understood (settings.cpp:43-70).  *)
THEOREM TypeCorrect == Spec => []TypeOK
BY InvHolds, PTL DEF Inv

(* While nobody publishes from a copy that is not up to date, the copies   *)
(* of the bag that are agree (game_io.cpp:438-444, context.cpp:130-134).   *)
THEOREM CopiesAgreeWhileCareful == Spec => []CopiesAgree
<1>1. Inv => CopiesAgree
  <2>1. \A p : UpToDate(p) => ~Has(inbox[p], "charset")
    BY DEF UpToDate, Pending, Has
  <2>2. QED BY <2>1 DEF Inv, BagInv, BagOf, CopiesAgree
<1>2. QED BY <1>1, InvHolds, PTL

(* And every tile loaded is then in one place: in the bag, in one hand, or *)
(* played (game_io.cpp:438-444).                                           *)
THEOREM EveryTileOnce == Spec => []TilesOnce
<1>1. Init => OnceInv
  BY DEF Init, OnceInv, Nowhere, Undrawn, NoHand
<1>2. Spec => []OnceInv
  BY <1>1, InvHolds, OnceStep, PTL DEF Spec
<1>3. OnceInv => TilesOnce
  BY DEF OnceInv, OnePlace, TilesOnce
<1>4. QED BY <1>2, <1>3, PTL

(* However the players draw, and from whatever copies, a tile that nobody  *)
(* has drawn is not lost, unless an empty copy is published                *)
(* (game_io.cpp:438-444).                                                  *)
THEOREM NoTileIsLost == Spec => []NothingLost
<1>1. Inv => NothingLost
  <2> SUFFICES ASSUME Inv, ~wiped, NEW t \in UNION loads, ~Held(t),
                      NEW p \in informed \cap Online, UpToDate(p)
               PROVE  t \in charset[p]
    BY DEF NothingLost
  <2>1. ~Has(inbox[p], "charset")
    BY DEF UpToDate, Pending, Has
  <2>2. p \in supplied
    BY <2>1 DEF Inv, LostInv
  <2>3. QED BY <2>2 DEF Inv, LostInv, Kept
<1>2. QED BY <1>1, InvHolds, PTL

(* Players who have applied the last setting go by it                      *)
(* (context.cpp:135-140, game_io.cpp:328-333).                             *)
THEOREM SettingsAgreeWhileUndisputed == Spec => []SettingsAgree
<1>1. Inv => SettingsAgree
  <2>1. \A p : ~Pending(p, "setting") => ~Has(inbox[p], "setting")
    BY DEF Pending, Has
  <2>2. QED BY <2>1 DEF Inv, RuleInv, RuleOf, SettingsAgree
<1>2. QED BY <1>1, InvHolds, PTL
=============================================================================
