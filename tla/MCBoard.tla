------------------------------ MODULE MCBoard -------------------------------
(* Instances of Board for TLC.                                             *)
EXTENDS Board, TLC

CONSTANT letterA

LetterScore == letterA :> 2

(* A layout with multipliers of words, and one with multipliers of letters.*)
WordLayout == <<2, 2>> :> 2 @@ <<0, 1>> :> 4 @@ <<1, 2>> :> 7
CharLayout == <<2, 2>> :> 1 @@ <<0, 1>> :> 3 @@ <<1, 2>> :> 9
TheLayouts == {WordLayout, CharLayout}
=============================================================================
