------------------------------- MODULE GroupRooms -------------------------------
(***************************************************************************)
(* One group-call room: socket/state/groupRooms.js, the handlers of        *)
(* socket/handlers/calls.js that call it (create, join, leave, end and     *)
(* disconnect), the row of device ownership they keep for each account and *)
(* the worker that runs the expiry of a grace.                             *)
(*                                                                         *)
(* As in OneToOneCalls an execution occupies a slot and is at the await it *)
(* resumes from. With Redis (shared) each Lua script and each command is a *)
(* step and executions interleave; with the Maps of one process a handler  *)
(* runs through, but for create_group_call's look at the subscription.     *)
(***************************************************************************)
EXTENDS Integers, FiniteSets

CONSTANTS Users, Organiser, None,
          Sockets, NoSocket,
          UserOf, PhoneOf,        \* the account and the device of a socket
          VideoLimit, AudioLimit, \* maxParticipants
          Slots,
          MaxEvents,              \* bound: events the clients send or cause
          MaxCrashes              \* bound: crashes of a server process

ASSUME GroupRoomsAssumption ==
  /\ Organiser \in Users /\ None \notin Users /\ None \notin Slots
  /\ NoSocket \notin Sockets
  /\ IsFiniteSet(Users)
  /\ UserOf \in [Sockets -> Users]
  /\ VideoLimit \in Nat /\ AudioLimit \in Nat
  /\ MaxEvents \in Nat /\ MaxCrashes \in Nat

VARIABLES
  shared,   \* the store the deployment is configured with; it never changes
  meta,     \* the room's metadata: does it exist, is it video, whose is it
  parts,    \* its participants
  grace,    \* account -> token of the grace that runs on its seat (0: none)
  seq,      \* the last token given
  tomb,     \* the tombstone of a room that was ended
  job,      \* account -> its row of job_queue, or its setTimeout
  own,      \* account -> device ownership under the key of the room
  live,     \* connected sockets
  inRoom,   \* the sockets whose currentGroupRoom is set
  engaged,  \* the accounts callState holds as in_group
  proc, loop,
  events, crashes, \* so far
  seated    \* history: account -> socket of its last successful join or create

room == <<meta, parts, grace, seq, tomb>>
vars == <<shared, meta, parts, grace, seq, tomb, job, own, live, inRoom, engaged,
          proc, loop, events, crashes, seated>>

Tokens == Nat
NoMeta == [exists |-> FALSE, video |-> FALSE, owner |-> None]
Metas  == [exists : BOOLEAN, video : BOOLEAN, owner : Users \union {None}]
NoJob  == [armed |-> FALSE, token |-> 0, lock |-> None]
Jobs   == [armed : BOOLEAN, token : Tokens, lock : Slots \union {None}]
NoOwner == [state |-> "none", sock |-> NoSocket]
Owners  == [state : {"none", "ringing", "active"}, sock : Sockets \union {NoSocket}]

CreateAt == {"c_check", "c_cancel", "c_del", "c_meta", "c_part", "c_own", "c_ring"}
JoinAt   == {"j_ring", "j_claim", "j_join", "j_cancel", "j_tag"}
LeaveAt  == {"l_retire", "l_cancel", "l_forget", "l_untag"}
EndAt    == {"e_cancel", "e_tomb", "e_del", "e_release", "e_untag"}
DropAt   == {"d_read", "d_forget", "d_arm", "d_cancel", "d_enqueue"}
ExpiryAt == {"w_expire", "w_cancel", "w_done"}
Points   == CreateAt \union JoinAt \union LeaveAt \union EndAt \union DropAt \union ExpiryAt

\* u the account, x the socket, token and video the values carried, todo the
\* accounts whose graces were read.
Execs == [at : Points \union {"idle"}, u : Users \union {None}, x : Sockets \union {NoSocket},
          token : Tokens, video : BOOLEAN, todo : SUBSET Users]
Idle  == [at |-> "idle", u |-> None, x |-> NoSocket, token |-> 0, video |-> FALSE, todo |-> {}]

Goto(s, p) ==
  /\ proc' = [proc EXCEPT ![s] = p]
  /\ loop' = IF shared \/ p.at = "c_check" THEN None ELSE s
\* An event that arrives at p.at.
Arrive(s, p) == events < MaxEvents /\ events' = events + 1 /\ Goto(s, p)

Done(s)   == proc' = [proc EXCEPT ![s] = Idle] /\ loop' = None
Free(s)   == loop = None /\ proc[s].at = "idle"
At(s, pt) == loop \in {None, s} /\ proc[s].at = pt

InGrace        == {u \in Users : grace[u] # 0}
Cancelled(U)   == [u \in Users |-> IF u \in U THEN NoJob ELSE job[u]]
NoGraces       == [u \in Users |-> 0]

\* Mutant: the key of the graces is left out of a DEL.
GracesKept == grace

\* The graces after the room's keys are deleted.
GracesWiped == NoGraces

Limit          == IF meta.video THEN VideoLimit ELSE AudioLimit
Keep           == UNCHANGED <<shared, events, crashes, seated>>

Init ==
  /\ shared \in BOOLEAN
  /\ meta = NoMeta /\ parts = {} /\ grace = NoGraces /\ seq = 0 /\ tomb = FALSE
  /\ job = [u \in Users |-> NoJob]
  /\ own = [u \in Users |-> NoOwner]
  /\ live = Sockets /\ inRoom = {} /\ engaged = {}
  /\ proc = [s \in Slots |-> Idle] /\ loop = None
  /\ events = 0 /\ crashes = 0
  /\ seated = [u \in Users |-> NoSocket]

-----------------------------------------------------------------------------
(* create_group_call, and its replays on the same identifier               *)

Create(s, x, v) ==
  /\ Free(s) /\ x \in live /\ UserOf[x] = Organiser
  /\ Arrive(s, [Idle EXCEPT !.at = "c_check", !.u = Organiser, !.x = x, !.video = v])
  /\ UNCHANGED <<room, job, own, live, inRoom, engaged>> /\ UNCHANGED <<shared, crashes, seated>>

\* checkOutgoing is back: refused, or the graces of an earlier room are read.
Check(s) ==
  /\ At(s, "c_check")
  /\ Done(s) \/ Goto(s, [proc[s] EXCEPT !.at = "c_cancel", !.todo = InGrace])
  /\ UNCHANGED <<room, job, own, live, inRoom, engaged>> /\ Keep

CancelOld(s) ==
  /\ At(s, "c_cancel")
  /\ job' = Cancelled(proc[s].todo)
  /\ Goto(s, [proc[s] EXCEPT !.at = "c_del", !.todo = {}])
  /\ UNCHANGED <<room, own, live, inRoom, engaged>> /\ Keep

\* One DEL of all the keys, the tombstone's included; the counter of tokens
\* of the Maps outlives the room.
Wipe(s) ==
  /\ At(s, "c_del")
  /\ meta' = NoMeta /\ parts' = {} /\ grace' = GracesWiped
  /\ seq' = IF shared THEN 0 ELSE seq
  /\ tomb' = FALSE
  /\ Goto(s, [proc[s] EXCEPT !.at = "c_meta"])
  /\ UNCHANGED <<job, own, live, inRoom, engaged>> /\ Keep

Announce(s) ==
  /\ At(s, "c_meta")
  /\ meta' = [exists |-> TRUE, video |-> proc[s].video, owner |-> Organiser]
  /\ Goto(s, [proc[s] EXCEPT !.at = "c_part", !.video = FALSE])
  /\ UNCHANGED <<parts, grace, seq, tomb, job, own, live, inRoom, engaged>> /\ Keep

SeatOrganiser(s) ==
  /\ At(s, "c_part")
  /\ parts' = parts \union {Organiser}
  /\ Goto(s, [proc[s] EXCEPT !.at = "c_own"])
  /\ UNCHANGED <<meta, grace, seq, tomb, job, own, live, inRoom, engaged>> /\ Keep

\* currentGroupRoom is set, on a socket that may be gone by now.
OwnRoom(s) ==
  LET x == proc[s].x
  IN /\ At(s, "c_own")
     /\ own' = [own EXCEPT ![Organiser] = [state |-> "active", sock |-> x]]
     /\ inRoom' = inRoom \union {x}
     /\ engaged' = engaged \union {Organiser}
     /\ seated' = [seated EXCEPT ![Organiser] = x]
     /\ Goto(s, [proc[s] EXCEPT !.at = "c_ring"])
     /\ UNCHANGED <<room, job, live, shared, events, crashes>>

\* The targets that are not busy, in this room or otherwise, ring.
RingTargets(s) ==
  /\ At(s, "c_ring")
  /\ \E U \in SUBSET (Users \ (engaged \union {Organiser})) :
       own' = [u \in Users |-> IF u \in U THEN [state |-> "ringing", sock |-> NoSocket]
                               ELSE own[u]]
  /\ Done(s)
  /\ UNCHANGED <<room, job, live, inRoom, engaged>> /\ Keep

-----------------------------------------------------------------------------
(* join_group_call                                                         *)

Join(s, x) ==
  /\ Free(s) /\ x \in live
  /\ Arrive(s, [Idle EXCEPT !.at = IF own[UserOf[x]].state = "none" THEN "j_ring" ELSE "j_claim",
                          !.u = UserOf[x], !.x = x])
  /\ UNCHANGED <<room, job, own, live, inRoom, engaged>> /\ UNCHANGED <<shared, crashes, seated>>

RingLate(s) ==
  /\ At(s, "j_ring")
  /\ own' = [own EXCEPT ![proc[s].u] = [state |-> "ringing", sock |-> NoSocket]]
  /\ Goto(s, [proc[s] EXCEPT !.at = "j_claim"])
  /\ UNCHANGED <<room, job, live, inRoom, engaged>> /\ Keep

\* tryClaim: refused without a row, or when another device is active.
ClaimRoom(s) ==
  LET p == proc[s]  o == own[p.u]
      elsewhere == o.state = "active" /\ o.sock # NoSocket /\ PhoneOf[o.sock] # PhoneOf[p.x]
  IN /\ At(s, "j_claim")
     /\ IF o.state = "none" \/ elsewhere
        THEN UNCHANGED own /\ Done(s)
        ELSE /\ own' = [own EXCEPT ![p.u] = [state |-> "active", sock |-> p.x]]
             /\ Goto(s, [p EXCEPT !.at = "j_join"])
     /\ UNCHANGED <<room, job, live, inRoom, engaged>> /\ Keep

\* The script JOIN. A room that does not exist is born audio, without owner.
Full(u) == u \notin parts /\ Cardinality(parts) >= Limit

JoinRoom(s) ==
  LET p == proc[s]
  IN /\ At(s, "j_join")
     /\ IF tomb THEN Done(s) /\ UNCHANGED <<room, seated>>
        ELSE /\ meta' = [meta EXCEPT !.exists = TRUE]
             /\ IF Full(p.u)
                THEN Done(s) /\ UNCHANGED <<parts, grace, seated>>
                ELSE /\ parts' = parts \union {p.u}
                     /\ grace' = [grace EXCEPT ![p.u] = 0]
                     /\ seated' = [seated EXCEPT ![p.u] = p.x]
                     /\ Goto(s, [p EXCEPT !.at = IF grace[p.u] # 0 THEN "j_cancel" ELSE "j_tag"])
             /\ UNCHANGED <<seq, tomb>>
     /\ UNCHANGED <<shared, job, own, live, inRoom, engaged, events, crashes>>

CancelOnReturn(s) ==
  /\ At(s, "j_cancel")
  /\ job' = Cancelled({proc[s].u})
  /\ Goto(s, [proc[s] EXCEPT !.at = "j_tag"])
  /\ UNCHANGED <<room, own, live, inRoom, engaged>> /\ Keep

Enter(s) ==
  /\ At(s, "j_tag")
  /\ inRoom' = inRoom \union {proc[s].x}
  /\ engaged' = engaged \union {proc[s].u}
  /\ Done(s)
  /\ UNCHANGED <<room, job, own, live>> /\ Keep

-----------------------------------------------------------------------------
(* leave_group_call; the script EXPIRE_OU_PART is that of an expiry too     *)

\* Mutant: the right to end the call leaves with the organiser.
RightTaken(u) == meta

RightGivenBack(u) == IF meta.owner = u THEN [meta EXCEPT !.owner = None] ELSE meta

Retire(u) ==
  /\ parts' = parts \ {u}
  /\ IF parts' = {} THEN meta' = NoMeta /\ grace' = GracesWiped
     ELSE meta' = RightGivenBack(u) /\ grace' = [grace EXCEPT ![u] = 0]
  /\ UNCHANGED <<seq, tomb>>

Leave(s, x) ==
  /\ Free(s) /\ x \in live
  /\ Arrive(s, [Idle EXCEPT !.at = "l_retire", !.u = UserOf[x], !.x = x])
  /\ UNCHANGED <<room, job, own, live, inRoom, engaged>> /\ UNCHANGED <<shared, crashes, seated>>

GiveUp(s) ==
  /\ At(s, "l_retire")
  /\ Retire(proc[s].u)
  /\ Goto(s, [proc[s] EXCEPT !.at = "l_cancel"])
  /\ UNCHANGED <<job, own, live, inRoom, engaged>> /\ Keep

CancelOnLeave(s) ==
  /\ At(s, "l_cancel")
  /\ job' = Cancelled({proc[s].u})
  /\ Goto(s, [proc[s] EXCEPT !.at = "l_forget"])
  /\ UNCHANGED <<room, own, live, inRoom, engaged>> /\ Keep

\* forget, then clearGroup.
Forget(s) ==
  /\ At(s, "l_forget")
  /\ own' = [own EXCEPT ![proc[s].u] = NoOwner]
  /\ engaged' = engaged \ {proc[s].u}
  /\ Goto(s, [proc[s] EXCEPT !.at = "l_untag"])
  /\ UNCHANGED <<room, job, live, inRoom>> /\ Keep

Untag(s) ==
  /\ At(s, "l_untag")
  /\ inRoom' = inRoom \ {proc[s].x}
  /\ Done(s)
  /\ UNCHANGED <<room, job, own, live, engaged>> /\ Keep

-----------------------------------------------------------------------------
(* end_group_call                                                          *)

\* Only a room that exists is guarded.
MayEnd(u) == meta.exists => (meta.owner = u \/ (meta.owner = None /\ u \in parts))

End(s, x) ==
  /\ Free(s) /\ x \in live /\ MayEnd(UserOf[x])
  /\ Arrive(s, [Idle EXCEPT !.at = "e_cancel", !.u = UserOf[x], !.x = x, !.todo = InGrace])
  /\ UNCHANGED <<room, job, own, live, inRoom, engaged>> /\ UNCHANGED <<shared, crashes, seated>>

CancelAll(s) ==
  /\ At(s, "e_cancel")
  /\ job' = Cancelled(proc[s].todo)
  /\ Goto(s, [proc[s] EXCEPT !.at = "e_tomb", !.todo = {}])
  /\ UNCHANGED <<room, own, live, inRoom, engaged>> /\ Keep

Bury(s) ==
  /\ At(s, "e_tomb")
  /\ tomb' = TRUE
  /\ Goto(s, [proc[s] EXCEPT !.at = "e_del"])
  /\ UNCHANGED <<meta, parts, grace, seq, job, own, live, inRoom, engaged>> /\ Keep

Destroy(s) ==
  /\ At(s, "e_del")
  /\ meta' = NoMeta /\ parts' = {} /\ grace' = GracesWiped
  /\ seq' = IF shared THEN 0 ELSE seq
  /\ Goto(s, [proc[s] EXCEPT !.at = "e_release"])
  /\ UNCHANGED <<tomb, job, own, live, inRoom, engaged>> /\ Keep

\* clearGroup of the accounts that have a row, then release.
ReleaseRoom(s) ==
  /\ At(s, "e_release")
  /\ engaged' = {u \in engaged : own[u].state = "none"}
  /\ own' = [u \in Users |-> NoOwner]
  /\ Goto(s, [proc[s] EXCEPT !.at = "e_untag"])
  /\ UNCHANGED <<room, job, live, inRoom>> /\ Keep

\* currentGroupRoom is reset on the sockets of the process that runs this.
UntagLocal(s) ==
  /\ At(s, "e_untag")
  /\ \E X \in SUBSET (inRoom \intersect live) :
       /\ ~shared => X = inRoom \intersect live
       /\ inRoom' = inRoom \ X
  /\ Done(s)
  /\ UNCHANGED <<room, job, own, live, engaged>> /\ Keep

-----------------------------------------------------------------------------
(* disconnect                                                              *)

Disconnect(s, x) ==
  /\ Free(s) /\ x \in live
  /\ live' = live \ {x}
  /\ Arrive(s, [Idle EXCEPT !.at = "d_read", !.u = UserOf[x], !.x = x])
  /\ UNCHANGED <<room, job, own, inRoom, engaged, shared, crashes, seated>>

\* Mutant: any active row is that of a newer socket.
AlwaysStale(o, x) == o.state = "active"

\* A newer socket of the account holds the seat.
StaleSocket(o, x) == o.sock \notin {NoSocket, x}

\* armGroupRoomGraceOnDisconnect, on the socket that is in the room.
ReadOwner(s) ==
  LET p == proc[s]
  IN /\ At(s, "d_read")
     /\ inRoom' = inRoom \ {p.x}
     /\ IF p.x \notin inRoom \/ StaleSocket(own[p.u], p.x) THEN Done(s)
        ELSE Goto(s, [p EXCEPT !.at = "d_forget"])
     /\ UNCHANGED <<room, job, own, live, engaged>> /\ Keep

ForgetDropped(s) ==
  /\ At(s, "d_forget")
  /\ own' = [own EXCEPT ![proc[s].u] = NoOwner]
  /\ Goto(s, [proc[s] EXCEPT !.at = "d_arm"])
  /\ UNCHANGED <<room, job, live, inRoom, engaged>> /\ Keep

\* The script ARM.
ArmGrace(s) ==
  LET p == proc[s]
  IN /\ At(s, "d_arm")
     /\ IF ~meta.exists \/ p.u \notin parts THEN Done(s) /\ UNCHANGED room
        ELSE /\ seq' = seq + 1
             /\ grace' = [grace EXCEPT ![p.u] = seq + 1]
             /\ Goto(s, [p EXCEPT !.at = "d_cancel", !.token = seq + 1])
             /\ UNCHANGED <<meta, parts, tomb>>
     /\ UNCHANGED <<job, own, live, inRoom, engaged>> /\ Keep

CancelOldGrace(s) ==
  /\ At(s, "d_cancel")
  /\ job' = Cancelled({proc[s].u})
  /\ Goto(s, [proc[s] EXCEPT !.at = "d_enqueue"])
  /\ UNCHANGED <<room, own, live, inRoom, engaged>> /\ Keep

\* enqueue keeps a row that has the same key.
EnqueueGrace(s) ==
  LET p == proc[s]
  IN /\ At(s, "d_enqueue")
     /\ job' = IF job[p.u].armed THEN job
               ELSE [job EXCEPT ![p.u] = [armed |-> TRUE, token |-> p.token, lock |-> None]]
     /\ Done(s)
     /\ UNCHANGED <<room, own, live, inRoom, engaged>> /\ Keep

-----------------------------------------------------------------------------
(* The expiry of a grace, by a worker or by a timer                        *)

Fire(s, u) ==
  /\ Free(s) /\ job[u].armed /\ job[u].lock = None
  /\ job' = [job EXCEPT ![u] = IF shared THEN [job[u] EXCEPT !.lock = s] ELSE NoJob]
  /\ Goto(s, [Idle EXCEPT !.at = "w_expire", !.u = u, !.token = job[u].token])
  /\ UNCHANGED <<room, own, live, inRoom, engaged>> /\ Keep

\* Mutant: the token is not looked at.
AnyToken(u, token) == TRUE

Consumes(u, token) == grace[u] = token

ExpireGrace(s) ==
  LET p == proc[s]
  IN /\ At(s, "w_expire")
     /\ IF Consumes(p.u, p.token)
        THEN Retire(p.u) /\ Goto(s, [p EXCEPT !.at = "w_cancel"])
        ELSE UNCHANGED room /\ Goto(s, [p EXCEPT !.at = "w_done"])
     /\ UNCHANGED <<job, own, live, inRoom, engaged>> /\ Keep

CancelExpired(s) ==
  /\ At(s, "w_cancel")
  /\ job' = Cancelled({proc[s].u})
  /\ Goto(s, [proc[s] EXCEPT !.at = "w_done"])
  /\ UNCHANGED <<room, own, live, inRoom, engaged>> /\ Keep

\* The row is deleted by its identifier.
DeleteRow(s) ==
  LET u == proc[s].u
  IN /\ At(s, "w_done")
     /\ job' = IF job[u].lock = s THEN Cancelled({u}) ELSE job
     /\ Done(s)
     /\ UNCHANGED <<room, own, live, inRoom, engaged>> /\ Keep

-----------------------------------------------------------------------------
(* Time and crashes                                                        *)

TombExpires ==
  /\ loop = None /\ tomb /\ tomb' = FALSE
  /\ UNCHANGED <<meta, parts, grace, seq, job, own, live, inRoom, engaged, proc, loop>> /\ Keep

\* A process takes an execution and sockets with it; the only process takes
\* all there is, but for the devices that had not connected yet.
Crash ==
  /\ crashes < MaxCrashes /\ crashes' = crashes + 1
  /\ loop' = None
  /\ IF shared
     THEN /\ \E s \in Slots : proc' = [proc EXCEPT ![s] = Idle]
          /\ \E X \in SUBSET live : live' = live \ X
          /\ UNCHANGED <<room, job, own, inRoom, engaged, seated>>
     ELSE /\ proc' = [s \in Slots |-> Idle]
          /\ live' = live \ (inRoom \union {proc[s].x : s \in Slots})
          /\ meta' = NoMeta /\ parts' = {} /\ grace' = NoGraces /\ seq' = 0 /\ tomb' = FALSE
          /\ job' = Cancelled(Users)
          /\ own' = [u \in Users |-> NoOwner]
          /\ inRoom' = {} /\ engaged' = {}
          /\ seated' = [u \in Users |-> NoSocket]
  /\ UNCHANGED <<shared, events>>

\* reclaimOrphans: the row of an execution that died is free again.
ReclaimOrphan(u) ==
  /\ job[u].lock \in Slots
  /\ proc[job[u].lock].at \notin ExpiryAt \/ proc[job[u].lock].u # u
  /\ job' = [job EXCEPT ![u] = [job[u] EXCEPT !.lock = None]]
  /\ UNCHANGED <<room, own, live, inRoom, engaged, proc, loop>> /\ Keep

-----------------------------------------------------------------------------

Request(s) ==
  \/ \E x \in Sockets : \/ \E v \in BOOLEAN : Create(s, x, v)
                       \/ Join(s, x) \/ Leave(s, x) \/ End(s, x) \/ Disconnect(s, x)
  \/ \E u \in Users : Fire(s, u)

Resume(s) ==
  \/ Check(s) \/ CancelOld(s) \/ Wipe(s) \/ Announce(s) \/ SeatOrganiser(s)
  \/ OwnRoom(s) \/ RingTargets(s)
  \/ RingLate(s) \/ ClaimRoom(s) \/ JoinRoom(s) \/ CancelOnReturn(s) \/ Enter(s)
  \/ GiveUp(s) \/ CancelOnLeave(s) \/ Forget(s) \/ Untag(s)
  \/ CancelAll(s) \/ Bury(s) \/ Destroy(s) \/ ReleaseRoom(s) \/ UntagLocal(s)
  \/ ReadOwner(s) \/ ForgetDropped(s) \/ ArmGrace(s) \/ CancelOldGrace(s) \/ EnqueueGrace(s)
  \/ ExpireGrace(s) \/ CancelExpired(s) \/ DeleteRow(s)

Next ==
  \/ \E s \in Slots : Request(s) \/ Resume(s)
  \/ TombExpires \/ Crash
  \/ \E u \in Users : ReclaimOrphan(u)

Spec == Init /\ [][Next]_vars

-----------------------------------------------------------------------------
(* Properties                                                              *)

\* Every variable stays in its range, and a grace runs under a token that was
\* given (DEL takes the graces with the counter).
TypeOK ==
  /\ shared \in BOOLEAN
  /\ meta \in Metas /\ parts \subseteq Users /\ grace \in [Users -> Tokens]
  /\ seq \in Tokens /\ tomb \in BOOLEAN
  /\ \A u \in Users : grace[u] <= seq
  /\ job \in [Users -> Jobs] /\ own \in [Users -> Owners]
  /\ live \subseteq Sockets /\ inRoom \subseteq Sockets /\ engaged \subseteq Users
  /\ proc \in [Slots -> Execs] /\ loop \in Slots \union {None}
  /\ events \in 0 .. MaxEvents /\ crashes \in 0 .. MaxCrashes
  /\ seated \in [Users -> Sockets \union {NoSocket}]

Quiet == \A s \in Slots : proc[s].at = "idle"

\* What the room promises. The memory of one process may lose it in a crash.
Contract == INSTANCE GroupRoomContract WITH
  roster  <- parts,
  held    <- InGrace,
  chief   <- meta.owner,
  video   <- meta.video,
  leaving <- {proc[s].u : s \in {r \in Slots : proc[r].at = "l_retire"}},
  ending  <- \/ \E s \in Slots : proc[s].at \in {"c_check", "c_cancel", "c_del",
                                              "e_cancel", "e_tomb", "e_del"}
             \/ ~shared /\ crashes < MaxCrashes

\* In every interleaving, on any number of instances, the room keeps its
\* contract: whoever loses a seat asked for it, or let a grace that still runs
\* on that very seat expire; the room has never one more than its limit by a
\* join (JOIN, ARM, EXPIRE_OU_PART, create, destroy).
ContractKept == Contract!Spec

\* No call that nobody can end: whenever no create_group_call is under way, the
\* right to end a room that has participants belongs to one of them, or to all
\* (the comment of leave, groupRooms.js). A crash inside create is left out.
SomebodyMayEnd ==
  (crashes = 0 /\ meta.exists /\ parts # {} /\ \A s \in Slots : proc[s].at \notin CreateAt)
     => meta.owner \in parts \union {None}

Returned(u) == seated[u] \in live \intersect inRoom
Consumed(s) == At(s, "w_expire") /\ proc'[s].at = "w_cancel"

\* An expiry never removes an account that came back: one whose last join
\* stands on a socket that is connected and in the room (the stale-socket guard
\* of disconnect, the disarming inside JOIN, the token inside EXPIRE_OU_PART).
ReturnedIsSpared ==
  [][\A s \in Slots : (Consumed(s) /\ Returned(proc[s].u)) => parts' = parts]_vars

Occupied(u) == \E x \in inRoom \intersect live : UserOf[x] = u
Waited(u)   == grace[u] # 0 /\ job[u].armed /\ job[u].token = grace[u]

\* No ghost in the Maps of one process: at rest every participant has a
\* connected socket in the room, or a grace with the timer that will end it
\* (presence.js, handleDisconnect). The organiser is apart: his phone may drop
\* while create_group_call looks at his subscription.
NoGhostInMemory ==
  (~shared /\ Quiet) => \A u \in parts \ {Organiser} : Occupied(u) \/ Waited(u)

\* An account at rest can be reached: once the room is gone, on the Maps of
\* one process and with no handler under way, no account is still held to be
\* in a group call (in_group, so busy for any other call).
GoneRoomFreesAll == (~shared /\ Quiet /\ ~meta.exists) => engaged = {}
=============================================================================
