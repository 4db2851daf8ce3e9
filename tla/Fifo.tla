-------------------------------- MODULE Fifo --------------------------------
(***************************************************************************)
(* What either direction of the web client promises: messages arrive in    *)
(* the order in which they were sent, none twice and none skipped.  The    *)
(* channel may stop at any point, and then the rest never arrives.         *)
(***************************************************************************)
EXTENDS Naturals, Sequences

CONSTANT Messages

VARIABLES sent,    \* everything sent
          arrived  \* everything that has arrived

vars == <<sent, arrived>>

Init == sent = <<>> /\ arrived = <<>>

Send == /\ \E m \in Messages : sent' = Append(sent, m)
        /\ UNCHANGED arrived

Arrive == /\ Len(arrived) < Len(sent)
          /\ arrived' = Append(arrived, sent[Len(arrived) + 1])
          /\ UNCHANGED sent

Next == Send \/ Arrive

Spec == Init /\ [][Next]_vars
=============================================================================
