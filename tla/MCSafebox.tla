------------------------------- MODULE MCSafebox -------------------------------
(* Two accounts, one of which keeps what the other shares.                                       *)
EXTENDS Safebox, TLC

CONSTANTS lea, max, r1, r2, s1, night

Symmetry == Permutations(Requests)
=============================================================================
