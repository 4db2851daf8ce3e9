------------------------------- MODULE Board --------------------------------
(***************************************************************************)
(* The board of one player (src/src/board.cpp) and what it makes of the    *)
(* tiles of a turn.  A cell is <<x, y>>: its column and its row, from 0.   *)
(* Every letter has a score here; Game models a letter that has none.      *)
(***************************************************************************)
EXTENDS Integers, FiniteSetsExt, Functions, Sequences

CONSTANTS Size,        \* Table::table_size
          Letters,     \* the characters set
          Blank,       \* no character
          ScoreOf,     \* ScoreMap::of
          Layouts,     \* the layouts loaded: numbers of multipliers, of some cells
          MaxMoves     \* bound: tiles set, turns and layouts

Indices == 0 .. Size - 1
Cells   == Indices \X Indices

ASSUME BoardAssumption ==
  /\ Size \in Nat
  /\ Blank \notin Letters
  /\ ScoreOf \in [Letters -> Nat]
  /\ \A l \in Layouts : DOMAIN l \subseteq Cells /\ \A c \in DOMAIN l : l[c] \in Nat
  /\ MaxMoves \in Nat

VARIABLES
  character,    \* Item::character_ of each cell
  multipliers,  \* Item::multipliers_ of each cell
  turn,         \* turn_ is there
  letters,      \* turn_->letters_
  points,       \* points counted so far
  moves         \* tiles set, turns and layouts so far

vars == <<character, multipliers, turn, letters, points, moves>>

Init ==
  /\ character = [c \in Cells |-> Blank]
  /\ multipliers = [c \in Cells |-> {}]
  /\ turn = FALSE
  /\ letters = <<>>
  /\ points = 0
  /\ moves = 0

-----------------------------------------------------------------------------
(* Multipliers.                                                            *)

Flags == {"DoubleWord", "DoubleChar", "TripleWord", "TripleChar", "QuadWord", "QuadChar"}

Decode(i) ==
  CASE i = 1 -> {"DoubleChar"}  [] i = 2 -> {"DoubleWord"}
    [] i = 3 -> {"TripleChar"}  [] i = 4 -> {"TripleWord"}
    [] i = 5 -> {"QuadWord"}    [] i = 6 -> {"QuadChar"}
    [] i = 7 -> {"DoubleChar", "DoubleWord"}
    [] i = 8 -> {"TripleChar", "DoubleWord"}
    [] i = 9 -> {"DoubleChar", "TripleWord"}
    [] OTHER -> {}

(* A factor without the "+ 1" of an absent flag.                           *)
Factor(mask, flag, n) == IF flag \in mask THEN n ELSE 1
GetWord(mask) ==
  Factor(mask, "DoubleWord", 2) * Factor(mask, "TripleWord", 3) * Factor(mask, "QuadWord", 4)
GetChar(mask) ==
  Factor(mask, "DoubleChar", 2) * Factor(mask, "TripleChar", 3) * Factor(mask, "QuadChar", 4)

-----------------------------------------------------------------------------
(* Board::score.  Its two directions are one, with the axes exchanged:     *)
(* a counts along the word and b across it.                                *)

(* The product of the numbers that f names, as SumFunction is their sum.   *)
Product(f) == FoldFunction(LAMBDA x, y : x * y, 1, f)

IsSet(c) == character[c] # Blank

At(dir, a, b) == IF dir = "horizontal" THEN <<a, b>> ELSE <<b, a>>
Along(dir, c)  == IF dir = "horizontal" THEN c[1] ELSE c[2]
Across(dir, c) == IF dir = "horizontal" THEN c[2] ELSE c[1]
Other(dir)     == IF dir = "horizontal" THEN "vertical" ELSE "horizontal"

(* The first two tiles tell the direction; one tile has none.              *)
Direction(word) ==
  CASE Len(word) < 2 -> "none"
    [] word[1].pos[1] # word[2].pos[1] -> "horizontal"
    [] OTHER -> "vertical"

(* Scanning back from a, which is set, and forth from there, to add up the *)
(* letters.                                                                *)
NoScan(dir, a, b) == a \* mutant
ScanBack(dir, a, b) == Min({s \in 0 .. a : \A k \in s .. a - 1 : IsSet(At(dir, k, b))})
SumFrom(dir, s, b) ==
  LET scanned == {e \in s .. Size - 1 : \A k \in s .. e : IsSet(At(dir, k, b))}
  IN SumFunction([k \in scanned |-> ScoreOf[character[At(dir, k, b)]]])

(* The word that the first tile is part of.                                *)
WordScore(word) ==
  LET dir == Direction(word)
      a == Along(dir, word[1].pos)
      b == Across(dir, word[1].pos)
  IN IF dir = "none" THEN 0 ELSE SumFrom(dir, ScanBack(dir, a, b), b)

(* What a tile's character multiplier adds to its letter.                  *)
Additional(t) == (GetChar(t.mask) - 1) * ScoreOf[t.letter]

(* The word across a tile.  The letter's additional points are counted     *)
(* within the word, and again after it.                                    *)
CrossScore(dir, t) ==
  LET o == Other(dir)
      a == Along(o, t.pos)
      b == Across(o, t.pos)
      back  == a > 1 /\ IsSet(At(o, a - 1, b))
      forth == a + 1 < Size /\ IsSet(At(o, a + 1, b))
      start == IF back THEN ScanBack(o, a, b) ELSE a
  IN IF dir # "none" /\ (back \/ forth)
     THEN (Additional(t) + SumFrom(o, start, b)) * GetWord(t.mask) + Additional(t)
     ELSE 0

Score(word) ==
  LET additional == [i \in DOMAIN word |-> Additional(word[i])]
      word_multiplier == [i \in DOMAIN word |-> GetWord(word[i].mask)]
      across == [i \in DOMAIN word |-> CrossScore(Direction(word), word[i])]
  IN (WordScore(word) + SumFunction(additional)) * Product(word_multiplier)
       + SumFunction(across)

-----------------------------------------------------------------------------
(* Operations.                                                             *)

Moving == moves < MaxMoves /\ moves' = moves + 1

(* A tile set, by this player or another.                                  *)
SetTile(c, ch) ==
  /\ Moving
  /\ letters' = IF turn THEN Append(letters, [pos |-> c, letter |-> ch, mask |-> multipliers[c]])
                        ELSE letters
  /\ character' = [character EXCEPT ![c] = ch]
  /\ UNCHANGED <<multipliers, turn, points>>

(* A turn begins, and ends the one before.                                 *)
DoTurn ==
  /\ Moving
  /\ turn' = TRUE
  /\ points' = IF letters = <<>> THEN points ELSE points + Score(letters)
  /\ letters' = <<>>
  /\ UNCHANGED <<character, multipliers>>

SetLayout(layout) ==
  /\ Moving
  /\ multipliers' = [c \in Cells |->
       IF c \in DOMAIN layout THEN Decode(layout[c]) ELSE multipliers[c]]
  /\ UNCHANGED <<character, turn, letters, points>>

Next == \/ \E c \in Cells, ch \in Letters : SetTile(c, ch)
        \/ DoTurn
        \/ \E l \in Layouts : SetLayout(l)

Spec == Init /\ [][Next]_vars

-----------------------------------------------------------------------------
(* Properties.                                                             *)

(* The rules of the game, with no scanning.  The word through c is the set *)
(* of cells of its line with no gap between them and c; a word is worth    *)
(* its letters, those just placed times their multipliers.                 *)
Line(dir, c) == {d \in Cells : Across(dir, d) = Across(dir, c)}
Between(dir, c, d) ==
  {e \in Line(dir, c) : \/ Along(dir, c) <= Along(dir, e) /\ Along(dir, e) <= Along(dir, d)
                        \/ Along(dir, d) <= Along(dir, e) /\ Along(dir, e) <= Along(dir, c)}
Word(dir, c) == {d \in Line(dir, c) : \A e \in Between(dir, c, d) : IsSet(e)}
Placed == {letters[i].pos : i \in DOMAIN letters}
MaskOn(c) == letters[CHOOSE i \in DOMAIN letters : letters[i].pos = c].mask

Multiplier(c) == IF c \in Placed THEN GetChar(MaskOn(c)) ELSE 1
Worth(cells) ==
  SumFunction([c \in cells |-> ScoreOf[character[c]] * Multiplier(c)])
    * Product([c \in cells \cap Placed |-> GetWord(MaskOn(c))])

(* One letter is no word.                                                  *)
WorthAcross(dir, c) ==
  LET word == Word(Other(dir), c) IN IF word = {c} THEN 0 ELSE Worth(word)
RulesScore(dir) ==
  Worth(Word(dir, letters[1].pos)) + SumFunction([c \in Placed |-> WorthAcross(dir, c)])

(* A play: at least two tiles in different cells of one line, in one word. *)
Play(dir) ==
  /\ Cardinality(Placed) = Len(letters)
  /\ Len(letters) > 1
  /\ Placed \subseteq Word(dir, letters[1].pos)

(* A word across a tile of row or column 1 that begins in row or column 0: *)
(* the code's test is a > 1.                                               *)
AtTheEdge(dir) == \E c \in Placed :
  Across(dir, c) = 1 /\ IsSet(At(dir, Along(dir, c), 0))

(* A tile on a character multiplier with a word across it.                 *)
MultipliedAcross(dir) == \E c \in Placed :
  GetChar(MaskOn(c)) > 1 /\ Word(Other(dir), c) # {c}

(* What the scans of Board::score count for a play is what the rules say,  *)
(* on every board and layout, but for the two cases above.                 *)
ScoresByTheRules == \A dir \in {"horizontal", "vertical"} :
  Play(dir) /\ ~AtTheEdge(dir) /\ ~MultipliedAcross(dir) => Score(letters) = RulesScore(dir)

(* Board::score reads the word from the first tile set, and its direction  *)
(* from the first two: a play is worth the same whichever came first.      *)
OrderIsIrrelevant ==
  (\E dir \in {"horizontal", "vertical"} : Play(dir)) =>
    \A i \in DOMAIN letters :
      Score(SubSeq(letters, i + 1, Len(letters)) \o SubSeq(letters, 1, i)) = Score(letters)

(* "We must include that multiplied value again (as previously, only the   *)
(* additional points, not the full points, as the letter is already        *)
(* counted once)": across, as along, a multiplied letter is worth its      *)
(* score and the additional points, once.                                  *)
AdditionalOnce == \A dir \in {"horizontal", "vertical"} :
  Play(dir) /\ ~AtTheEdge(dir) => Score(letters) = RulesScore(dir)
=============================================================================
