------------------------------ MODULE MCServer ------------------------------
(* Instances of Server for TLC: every player has a name of its own, the    *)
(* sessions themselves standing for the names, so that permuting the       *)
(* sessions permutes the names with them.                                  *)
EXTENDS Server, TLC

CONSTANTS Talker,       \* a session whose peer sends more than the others, if any
          TalkerReads,  \* how many frames it sends
          OtherReads    \* how many the others send

MCNameOf == [s \in Sessions |-> s]

MCMaxReads == [s \in Sessions |-> IF s = Talker THEN TalkerReads ELSE OtherReads]

Symmetry == Permutations(Sessions)
=============================================================================
