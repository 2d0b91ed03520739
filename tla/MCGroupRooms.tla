------------------------------ MODULE MCGroupRooms ------------------------------
(* Instances of GroupRooms: awa opens the room, binta is invited and may     *)
(* come back on a second connection of her phone.                           *)
EXTENDS GroupRooms, TLC

CONSTANTS awa, binta, a1, b1, b2, phoneA, phoneB

MCUserOf  == [x \in Sockets |-> IF x = a1 THEN awa ELSE binta]
MCPhoneOf == [x \in Sockets |-> IF x = a1 THEN phoneA ELSE phoneB]

\* Executions differ by what they run only, and so do binta's connections.
MCSymmetry == Permutations(Slots) \union Permutations({b1, b2})
=============================================================================
