------------------------------- MODULE MCAbr -------------------------------
(* A ladder of three rates whose neighbours differ by more than the margin *)
(* of 15 percent, as in hung_rate_set.                                     *)
EXTENDS AbrClient

Ladder == [l \in 1 .. 3 |-> <<4, 7, 12>>[l]]
=============================================================================
