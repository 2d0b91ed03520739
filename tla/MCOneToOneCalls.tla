---------------------------- MODULE MCOneToOneCalls ----------------------------
(* Instances of OneToOneCalls: awa and coura have a phone, binta a phone    *)
(* and a tablet.                                                           *)
EXTENDS OneToOneCalls, TLC

CONSTANTS awa, binta, coura, phoneA, phoneB, tabletB, phoneC

MCUserOf == [d \in Devices |-> CASE d = phoneA -> awa
                                 [] d = phoneC -> coura
                                 [] OTHER      -> binta]
MCAsleep    == {<<phoneA, 1>>, <<phoneC, 1>>} \cap Sockets
MCPhones    == {<<phoneA, 1>>, <<phoneB, 1>>}
MCAllLive   == Sockets
MCCallerDrops == {<<phoneA, 1>>}

\* Executions differ by what they run only.
SlotSymmetry == Permutations(Slots)
DeviceSymmetry == SlotSymmetry \union Permutations({phoneB, tabletB})
=============================================================================
