----------------------------- MODULE MCProgram -----------------------------
(* A player with one name, who may type another; a file of layouts of each *)
(* kind; scripts whose last action is, and is not, the one that counts.    *)
EXTENDS Program, TLC

CONSTANTS ann, fGarbage, fAbsent, fOther

MCFirstLines  == [ip |-> {ann}, name |-> {}]
MCLoadFile    == <<"points", "turn">>
MCTurnEndFile == <<"points">>
MCRows        == <<"A", "B">>
MCFirstDisk   == (fGarbage :> Garbage) @@ (fAbsent :> Absent) @@ (fOther :> Other)

=============================================================================
