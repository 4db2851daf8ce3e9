------------------------------- MODULE MCGame -------------------------------
(* Instances of Game for TLC.                                              *)
EXTENDS Game, TLC

(* Points given and points taken; a .cfg has no negative numbers.          *)
MCPoints == {-1, 2}

Symmetry == Permutations(Players)
=============================================================================
