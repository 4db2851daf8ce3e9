------------------------------ MODULE MCHands ------------------------------
(* An instance of Hands for TLC: one file of charsets, with every tile.    *)
EXTENDS Hands, TLC

AllTiles == {Tiles}
Symmetry == Permutations(Players) \cup Permutations(Tiles)
=============================================================================
