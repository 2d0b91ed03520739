--------------------------- MODULE GroupRoomContract ---------------------------
(***************************************************************************)
(* What a group-call room of socket/state/groupRooms.js promises, whoever  *)
(* runs its operations, in whatever order, on however many instances:      *)
(*   - a seat is given up by the one who asked to leave, by a grace that    *)
(*     runs on that seat at that very moment, or with the whole room, when  *)
(*     somebody ended it or opened it again;                               *)
(*   - a newcomer finds a free seat, one who comes back finds his own;     *)
(*   - the right to end the call does not leave with the organiser.        *)
(***************************************************************************)
EXTENDS FiniteSets, Integers

CONSTANTS Users, Organiser, None, VideoLimit, AudioLimit

VARIABLES roster,  \* who has a seat
          held,    \* whose seat is only kept, for a grace
          chief,   \* who may end the call for everyone (None: any participant)
          video,   \* the limit is that of a video call
          leaving, \* who has asked to leave
          ending   \* somebody has asked to end the room, or to open it anew

room == <<roster, held, chief, video>>
vars == <<roster, held, chief, video, leaving, ending>>

Limit == IF video THEN VideoLimit ELSE AudioLimit

Nobody(r, h, c, v) == r = {} /\ h = {} /\ c = None /\ v = FALSE

Init == Nobody(roster, held, chief, video) /\ leaving = {} /\ ending \in BOOLEAN

\* Requests are made, and met or lost.
Requests == leaving' \subseteq Users /\ ending' \in BOOLEAN /\ UNCHANGED room

\* The organiser announces the room, then takes his seat.
Announce(v) == chief' = Organiser /\ video' = v /\ UNCHANGED <<roster, held>>
Seat        == roster' = roster \union {Organiser} /\ UNCHANGED <<held, chief, video>>

Enter(u) ==
  /\ u \in roster \/ Cardinality(roster) < Limit
  /\ roster' = roster \union {u} /\ held' = held \ {u}
  /\ UNCHANGED <<chief, video>>

Hold(u) == u \in roster /\ held' = held \union {u} /\ UNCHANGED <<roster, chief, video>>

\* The seat of u is given up; the last one out closes the room.
GiveUp(u) ==
  IF roster \subseteq {u}
  THEN Nobody(roster', held', chief', video')
  ELSE /\ roster' = roster \ {u} /\ held' = held \ {u}
       /\ chief' = IF chief = u THEN None ELSE chief
       /\ UNCHANGED video

Leave(u) == u \in leaving /\ GiveUp(u)
Expel(u) == u \in held /\ GiveUp(u)
Close    == ending /\ Nobody(roster', held', chief', video')

Next ==
  \/ Requests
  \/ /\ \/ \E v \in BOOLEAN : Announce(v)
        \/ Seat \/ Close
        \/ \E u \in Users : Enter(u) \/ Hold(u) \/ Leave(u) \/ Expel(u)
     /\ leaving' \subseteq leaving /\ ending' \in BOOLEAN

Spec == Init /\ [][Next]_vars
=============================================================================
