------------------------------- MODULE Filters -------------------------------
(***************************************************************************)
(* The elements of a sequence that are in a set, in their order: what      *)
(* SelectSeq selects, as a function of the sequence's length, so that      *)
(* proofs can speak of it.                                                 *)
(***************************************************************************)
EXTENDS Naturals, Sequences

Within(events, set) ==
  LET upTo[n \in 0 .. Len(events)] ==
        IF n = 0 THEN <<>>
        ELSE IF events[n] \in set THEN Append(upTo[n - 1], events[n])
        ELSE upTo[n - 1]
  IN upTo[Len(events)]
=============================================================================
