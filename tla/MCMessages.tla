------------------------------ MODULE MCMessages ------------------------------
(* A group of two, its administrator and a member.                                               *)
EXTENDS Messages, TLC

CONSTANTS lea, max, r1, r2, hello, secret, copy

MCAuthorOf == [s \in Sends |-> lea]

Symmetry == Permutations(Requests)
=============================================================================
