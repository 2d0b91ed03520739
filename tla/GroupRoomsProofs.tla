---------------------------- MODULE GroupRoomsProofs ----------------------------
(***************************************************************************)
(* Proofs about GroupRooms, for any accounts, sockets, slots, limits and   *)
(* bounds: type correctness, that the room implements its contract and     *)
(* that somebody may end it, for both stores, and that the Maps of one     *)
(* process keep no ghost. The contract rests on the token of a grace, which *)
(* is never 0, the mark of a seat without grace, so that a token that       *)
(* matches is that of a grace that runs. The ghosts rest on what is due,    *)
(* at each point of the handler that runs, to the guest it works for; the   *)
(* others are followed throughout, since handlers are atomic in the Maps.   *)
(***************************************************************************)
EXTENDS GroupRooms, FiniteSetTheorems, TLAPS

Wellformed(p) ==
  /\ p \in Execs
  /\ p.at # "idle" => p.u \in Users
  /\ p.at \in CreateAt \union JoinAt => p.x \in Sockets
  /\ p.at \in {"d_cancel", "d_enqueue", "w_expire"} => p.token # 0

ExecsOK == \A s \in Slots : Wellformed(proc[s])
JobsOK  == \A u \in Users : job[u].armed => job[u].token # 0
IInv    == TypeOK /\ ExecsOK /\ JobsOK

\* What an action that leaves the room alone must establish of the rest.
StoresOK == job \in [Users -> Jobs] /\ own \in [Users -> Owners] /\ JobsOK
SocketsOK == /\ live \subseteq Sockets /\ inRoom \subseteq Sockets /\ engaged \subseteq Users
             /\ seated \in [Users -> Sockets \union {NoSocket}]
RoomOK == /\ meta \in Metas /\ parts \subseteq Users /\ grace \in [Users -> Tokens]
          /\ seq \in Tokens /\ tomb \in BOOLEAN
          /\ \A u \in Users : grace[u] <= seq
RunsOK == /\ proc \in [Slots -> Execs] /\ loop \in Slots \union {None} /\ ExecsOK
          /\ events \in 0 .. MaxEvents

Leaving == {proc[s].u : s \in {r \in Slots : proc[r].at = "l_retire"}}

\* The parts of the invariant.
LEMMA Parts ==
  IInv <=> /\ RoomOK /\ StoresOK /\ SocketsOK /\ RunsOK
           /\ shared \in BOOLEAN /\ crashes \in 0 .. MaxCrashes
BY DEF IInv, TypeOK, RoomOK, StoresOK, SocketsOK, RunsOK

\* The same, of the next state.
LEMMA PartsNext ==
  ASSUME RoomOK', StoresOK', SocketsOK', RunsOK', shared' \in BOOLEAN, crashes' \in 0 .. MaxCrashes
  PROVE  IInv'
BY DEF IInv, TypeOK, RoomOK, StoresOK, SocketsOK, RunsOK

-----------------------------------------------------------------------------
(* Executions                                                              *)

\* A free slot is well formed.
LEMMA IdleWell == Wellformed(Idle)
BY DEF Wellformed, Idle, Execs, Points, Tokens, CreateAt, JoinAt

\* An execution that goes on stays well formed.
LEMMA GoesOn ==
  ASSUME RunsOK, NEW s \in Slots, NEW p, Wellformed(p), Goto(s, p), events' = events
  PROVE  RunsOK'
BY DEF RunsOK, ExecsOK, Goto, Wellformed

\* An execution that starts is well formed.
LEMMA Arrives ==
  ASSUME RunsOK, NEW s \in Slots, NEW p, Wellformed(p), Arrive(s, p)
  PROVE  RunsOK'
BY GroupRoomsAssumption DEF RunsOK, ExecsOK, Arrive, Goto, Wellformed

\* An execution that ends leaves a well-formed slot.
LEMMA Stops ==
  ASSUME RunsOK, NEW s \in Slots, Done(s), events' = events
  PROVE  RunsOK'
BY IdleWell DEF RunsOK, ExecsOK, Done, Wellformed

\* The leave_group_call under way are fewer when none starts.
LEMMA FewerLeave ==
  ASSUME RunsOK, NEW s \in Slots, NEW p, p.at # "l_retire", proc' = [proc EXCEPT ![s] = p]
  PROVE  Leaving' \subseteq Leaving
BY DEF RunsOK, Leaving

\* Deleting graces leaves well-formed graces.
LEMMA CancelledOK ==
  ASSUME StoresOK, NEW U
  PROVE  /\ Cancelled(U) \in [Users -> Jobs]
         /\ \A u \in Users : Cancelled(U)[u].armed => Cancelled(U)[u].token # 0
BY DEF StoresOK, JobsOK, Cancelled, NoJob, Jobs, Tokens

\* The writes of the device ownership keep its type.
LEMMA OwnersOK ==
  /\ NoOwner \in Owners
  /\ [state |-> "ringing", sock |-> NoSocket] \in Owners
  /\ \A x \in Sockets : [state |-> "active", sock |-> x] \in Owners
BY DEF NoOwner, Owners

-----------------------------------------------------------------------------
(* Every action keeps the invariant                                        *)

\* The invariant holds at the start.
LEMMA Initially == Init => IInv
<1> SUFFICES ASSUME Init PROVE IInv
  OBVIOUS
<1>1. RoomOK
  <2>1. meta \in Metas /\ parts \subseteq Users /\ tomb \in BOOLEAN
    BY DEF Init, NoMeta, Metas
  <2>2. seq = 0 /\ grace = [u \in Users |-> 0]
    BY DEF Init, NoGraces
  <2>3. grace \in [Users -> Tokens] /\ seq \in Tokens /\ \A u \in Users : grace[u] <= seq
    BY <2>2 DEF Tokens
  <2> QED BY <2>1, <2>3 DEF RoomOK
<1>2. StoresOK
  BY DEF Init, StoresOK, JobsOK, NoJob, Jobs, NoOwner, Owners, Tokens
<1>3. SocketsOK
  BY DEF Init, SocketsOK
<1>4. RunsOK
  BY IdleWell, GroupRoomsAssumption DEF Init, RunsOK, ExecsOK, Wellformed
<1> QED BY <1>1, <1>2, <1>3, <1>4, Parts, GroupRoomsAssumption DEF Init

\* The slot s holds an execution at pt.
LEMMA Running ==
  ASSUME RunsOK, NEW s \in Slots
  PROVE  /\ proc[s] \in Execs
         /\ proc[s].at # "idle" => proc[s].u \in Users
         /\ proc[s].at \in CreateAt \union JoinAt => proc[s].x \in Sockets
         /\ proc[s].at \in {"d_cancel", "d_enqueue", "w_expire"} => proc[s].token # 0
BY DEF RunsOK, ExecsOK, Wellformed

\* The executions are well formed after an event arrives,
LEMMA RequestRuns ==
  ASSUME IInv, NEW s \in Slots, Request(s)
  PROVE  RunsOK'
<1> USE GroupRoomsAssumption
<1>1. RunsOK /\ SocketsOK /\ StoresOK
  BY Parts
<1>2. ASSUME NEW x \in Sockets, NEW v \in BOOLEAN, Create(s, x, v) PROVE RunsOK'
  <2> DEFINE p == [Idle EXCEPT !.at = "c_check", !.u = Organiser, !.x = x, !.video = v]
  <2>1. Wellformed(p)
    BY DEF Wellformed, Idle, Execs, Points, CreateAt, JoinAt, Tokens
  <2> QED BY <1>1, <1>2, <2>1, Arrives DEF Create
<1>3. ASSUME NEW x \in Sockets, Join(s, x) PROVE RunsOK'
  <2> DEFINE at == IF own[UserOf[x]].state = "none" THEN "j_ring" ELSE "j_claim"
             p == [Idle EXCEPT !.at = at, !.u = UserOf[x], !.x = x]
  <2>1. Wellformed(p)
    BY DEF Wellformed, Idle, Execs, Points, CreateAt, JoinAt, Tokens
  <2> QED BY <1>1, <1>3, <2>1, Arrives DEF Join
<1>4. ASSUME NEW x \in Sockets, Leave(s, x) PROVE RunsOK'
  <2> DEFINE p == [Idle EXCEPT !.at = "l_retire", !.u = UserOf[x], !.x = x]
  <2>1. Wellformed(p)
    BY DEF Wellformed, Idle, Execs, Points, CreateAt, JoinAt, LeaveAt, Tokens
  <2> QED BY <1>1, <1>4, <2>1, Arrives DEF Leave
<1>5. ASSUME NEW x \in Sockets, End(s, x) PROVE RunsOK'
  <2> DEFINE p == [Idle EXCEPT !.at = "e_cancel", !.u = UserOf[x], !.x = x, !.todo = InGrace]
  <2>1. Wellformed(p)
    BY DEF Wellformed, Idle, Execs, Points, CreateAt, JoinAt, EndAt, Tokens, InGrace
  <2> QED BY <1>1, <1>5, <2>1, Arrives DEF End
<1>6. ASSUME NEW x \in Sockets, Disconnect(s, x) PROVE RunsOK'
  <2> DEFINE p == [Idle EXCEPT !.at = "d_read", !.u = UserOf[x], !.x = x]
  <2>1. Wellformed(p)
    BY DEF Wellformed, Idle, Execs, Points, CreateAt, JoinAt, DropAt, Tokens
  <2> QED BY <1>1, <1>6, <2>1, Arrives DEF Disconnect
<1>7. ASSUME NEW u \in Users, Fire(s, u) PROVE RunsOK'
  <2> DEFINE p == [Idle EXCEPT !.at = "w_expire", !.u = u, !.token = job[u].token]
  <2>1. job[u].token \in Tokens /\ job[u].token # 0
    BY <1>1, <1>7 DEF Fire, StoresOK, JobsOK, Jobs
  <2>2. Wellformed(p)
    BY <2>1 DEF Wellformed, Idle, Execs, Points, CreateAt, JoinAt, ExpiryAt
  <2>3. events' = events
    BY <1>7 DEF Fire, Keep
  <2> QED BY <1>1, <1>7, <2>2, <2>3, GoesOn DEF Fire
<1> QED BY <1>2, <1>3, <1>4, <1>5, <1>6, <1>7 DEF Request

\* and so is the rest.
LEMMA RequestRest ==
  ASSUME IInv, NEW s \in Slots, Request(s)
  PROVE  /\ StoresOK' /\ SocketsOK' /\ UNCHANGED room
         /\ shared' = shared /\ crashes' = crashes
<1>1. SocketsOK /\ StoresOK
  BY Parts
<1>2. ASSUME NEW x \in Sockets, NEW v \in BOOLEAN,
             Create(s, x, v) \/ Join(s, x) \/ Leave(s, x) \/ End(s, x)
      PROVE  UNCHANGED <<room, job, own, live, inRoom, engaged, shared, crashes, seated>>
  BY <1>2 DEF Create, Join, Leave, End
<1>3. ASSUME NEW x \in Sockets, Disconnect(s, x)
      PROVE  /\ UNCHANGED <<room, job, own, inRoom, engaged, shared, crashes, seated>>
             /\ live' \subseteq live
  BY <1>3 DEF Disconnect
<1>4. ASSUME NEW u \in Users, Fire(s, u)
      PROVE  /\ UNCHANGED <<room, own, live, inRoom, engaged, shared, crashes, seated>>
             /\ job' \in [Users -> Jobs] /\ JobsOK'
  BY <1>1, <1>4 DEF Fire, Keep, StoresOK, JobsOK, Jobs, NoJob, Tokens
<1> QED
  <2>1. CASE \E x \in Sockets, v \in BOOLEAN :
               Create(s, x, v) \/ Join(s, x) \/ Leave(s, x) \/ End(s, x)
    BY <1>1, <1>2, <2>1 DEF StoresOK, SocketsOK, JobsOK
  <2>2. CASE \E x \in Sockets : Disconnect(s, x)
    BY <1>1, <1>3, <2>2 DEF StoresOK, SocketsOK, JobsOK
  <2>3. CASE \E u \in Users : Fire(s, u)
    BY <1>1, <1>4, <2>3 DEF StoresOK, SocketsOK
  <2> QED BY <2>1, <2>2, <2>3 DEF Request

\* The executions are well formed after one goes on.
LEMMA ResumeRuns ==
  ASSUME IInv, NEW s \in Slots, Resume(s)
  PROVE  RunsOK'
<1> USE DEF Wellformed, Execs, Points, CreateAt, JoinAt, LeaveAt, EndAt, DropAt, ExpiryAt
<1>1. RunsOK /\ seq \in Nat /\ InGrace \subseteq Users
  BY Parts DEF RoomOK, Tokens, InGrace
<1>2. events' = events
  BY DEF Check, CancelOld, Wipe, Announce, SeatOrganiser, OwnRoom, RingTargets,
     RingLate, ClaimRoom, JoinRoom, CancelOnReturn, Enter, GiveUp, CancelOnLeave,
     Forget, Untag, CancelAll, Bury, Destroy, ReleaseRoom, UntagLocal, ReadOwner,
     ForgetDropped, ArmGrace, CancelOldGrace, EnqueueGrace, ExpireGrace, CancelExpired,
     DeleteRow, Resume, Keep
<1>3. Wellformed(proc[s])
  BY <1>1 DEF RunsOK, ExecsOK
<1>4. CASE Check(s)
  <2>1. Wellformed([proc[s] EXCEPT !.at = "c_cancel", !.todo = InGrace])
    BY <1>1, <1>3, <1>4 DEF Check, At, Tokens
  <2> QED BY <1>1, <1>2, <1>4, <2>1, GoesOn, Stops DEF Check
<1>5. CASE CancelOld(s)
  <2>1. Wellformed([proc[s] EXCEPT !.at = "c_del", !.todo = {}])
    BY <1>1, <1>3, <1>5 DEF CancelOld, At, Tokens
  <2> QED BY <1>1, <1>2, <1>5, <2>1, GoesOn DEF CancelOld
<1>6. CASE Wipe(s)
  <2>1. Wellformed([proc[s] EXCEPT !.at = "c_meta"])
    BY <1>1, <1>3, <1>6 DEF Wipe, At, Tokens
  <2> QED BY <1>1, <1>2, <1>6, <2>1, GoesOn DEF Wipe
<1>7. CASE Announce(s)
  <2>1. Wellformed([proc[s] EXCEPT !.at = "c_part", !.video = FALSE])
    BY <1>1, <1>3, <1>7 DEF Announce, At, Tokens
  <2> QED BY <1>1, <1>2, <1>7, <2>1, GoesOn DEF Announce
<1>8. CASE SeatOrganiser(s)
  <2>1. Wellformed([proc[s] EXCEPT !.at = "c_own"])
    BY <1>1, <1>3, <1>8 DEF SeatOrganiser, At, Tokens
  <2> QED BY <1>1, <1>2, <1>8, <2>1, GoesOn DEF SeatOrganiser
<1>9. CASE OwnRoom(s)
  <2>1. Wellformed([proc[s] EXCEPT !.at = "c_ring"])
    BY <1>1, <1>3, <1>9 DEF OwnRoom, At, Tokens
  <2> QED BY <1>1, <1>2, <1>9, <2>1, GoesOn DEF OwnRoom
<1>10. CASE RingTargets(s)
  <2> QED BY <1>1, <1>2, <1>10, Stops DEF RingTargets
<1>11. CASE RingLate(s)
  <2>1. Wellformed([proc[s] EXCEPT !.at = "j_claim"])
    BY <1>1, <1>3, <1>11 DEF RingLate, At, Tokens
  <2> QED BY <1>1, <1>2, <1>11, <2>1, GoesOn DEF RingLate
<1>12. CASE ClaimRoom(s)
  <2>1. Wellformed([proc[s] EXCEPT !.at = "j_join"])
    BY <1>1, <1>3, <1>12 DEF ClaimRoom, At, Tokens
  <2> QED BY <1>1, <1>2, <1>12, <2>1, GoesOn, Stops DEF ClaimRoom
<1>13. CASE JoinRoom(s)
  <2>1. Wellformed([proc[s] EXCEPT !.at = "j_cancel"])
    BY <1>1, <1>3, <1>13 DEF JoinRoom, At, Tokens
  <2>2. Wellformed([proc[s] EXCEPT !.at = "j_tag"])
    BY <1>1, <1>3, <1>13 DEF JoinRoom, At, Tokens
  <2> QED BY <1>1, <1>2, <1>13, <2>1, <2>2, GoesOn, Stops DEF JoinRoom
<1>14. CASE CancelOnReturn(s)
  <2>1. Wellformed([proc[s] EXCEPT !.at = "j_tag"])
    BY <1>1, <1>3, <1>14 DEF CancelOnReturn, At, Tokens
  <2> QED BY <1>1, <1>2, <1>14, <2>1, GoesOn DEF CancelOnReturn
<1>15. CASE Enter(s)
  <2> QED BY <1>1, <1>2, <1>15, Stops DEF Enter
<1>16. CASE GiveUp(s)
  <2>1. Wellformed([proc[s] EXCEPT !.at = "l_cancel"])
    BY <1>1, <1>3, <1>16 DEF GiveUp, At, Tokens
  <2> QED BY <1>1, <1>2, <1>16, <2>1, GoesOn DEF GiveUp
<1>17. CASE CancelOnLeave(s)
  <2>1. Wellformed([proc[s] EXCEPT !.at = "l_forget"])
    BY <1>1, <1>3, <1>17 DEF CancelOnLeave, At, Tokens
  <2> QED BY <1>1, <1>2, <1>17, <2>1, GoesOn DEF CancelOnLeave
<1>18. CASE Forget(s)
  <2>1. Wellformed([proc[s] EXCEPT !.at = "l_untag"])
    BY <1>1, <1>3, <1>18 DEF Forget, At, Tokens
  <2> QED BY <1>1, <1>2, <1>18, <2>1, GoesOn DEF Forget
<1>19. CASE Untag(s)
  <2> QED BY <1>1, <1>2, <1>19, Stops DEF Untag
<1>20. CASE CancelAll(s)
  <2>1. Wellformed([proc[s] EXCEPT !.at = "e_tomb", !.todo = {}])
    BY <1>1, <1>3, <1>20 DEF CancelAll, At, Tokens
  <2> QED BY <1>1, <1>2, <1>20, <2>1, GoesOn DEF CancelAll
<1>21. CASE Bury(s)
  <2>1. Wellformed([proc[s] EXCEPT !.at = "e_del"])
    BY <1>1, <1>3, <1>21 DEF Bury, At, Tokens
  <2> QED BY <1>1, <1>2, <1>21, <2>1, GoesOn DEF Bury
<1>22. CASE Destroy(s)
  <2>1. Wellformed([proc[s] EXCEPT !.at = "e_release"])
    BY <1>1, <1>3, <1>22 DEF Destroy, At, Tokens
  <2> QED BY <1>1, <1>2, <1>22, <2>1, GoesOn DEF Destroy
<1>23. CASE ReleaseRoom(s)
  <2>1. Wellformed([proc[s] EXCEPT !.at = "e_untag"])
    BY <1>1, <1>3, <1>23 DEF ReleaseRoom, At, Tokens
  <2> QED BY <1>1, <1>2, <1>23, <2>1, GoesOn DEF ReleaseRoom
<1>24. CASE UntagLocal(s)
  <2> QED BY <1>1, <1>2, <1>24, Stops DEF UntagLocal
<1>25. CASE ReadOwner(s)
  <2>1. Wellformed([proc[s] EXCEPT !.at = "d_forget"])
    BY <1>1, <1>3, <1>25 DEF ReadOwner, At, Tokens
  <2> QED BY <1>1, <1>2, <1>25, <2>1, GoesOn, Stops DEF ReadOwner
<1>26. CASE ForgetDropped(s)
  <2>1. Wellformed([proc[s] EXCEPT !.at = "d_arm"])
    BY <1>1, <1>3, <1>26 DEF ForgetDropped, At, Tokens
  <2> QED BY <1>1, <1>2, <1>26, <2>1, GoesOn DEF ForgetDropped
<1>27. CASE ArmGrace(s)
  <2> DEFINE token == seq + 1
  <2>0. token \in Nat /\ token # 0
    BY <1>1
  <2> HIDE DEF token
  <2>1. Wellformed([proc[s] EXCEPT !.at = "d_cancel", !.token = token])
    BY <2>0, <1>1, <1>3, <1>27 DEF ArmGrace, At, Tokens
  <2> QED BY <1>1, <1>2, <1>27, <2>1, GoesOn, Stops DEF ArmGrace, token
<1>28. CASE CancelOldGrace(s)
  <2>1. Wellformed([proc[s] EXCEPT !.at = "d_enqueue"])
    BY <1>1, <1>3, <1>28 DEF CancelOldGrace, At, Tokens
  <2> QED BY <1>1, <1>2, <1>28, <2>1, GoesOn DEF CancelOldGrace
<1>29. CASE EnqueueGrace(s)
  <2> QED BY <1>1, <1>2, <1>29, Stops DEF EnqueueGrace
<1>30. CASE ExpireGrace(s)
  <2>1. Wellformed([proc[s] EXCEPT !.at = "w_cancel"])
    BY <1>1, <1>3, <1>30 DEF ExpireGrace, At, Tokens
  <2>2. Wellformed([proc[s] EXCEPT !.at = "w_done"])
    BY <1>1, <1>3, <1>30 DEF ExpireGrace, At, Tokens
  <2> QED BY <1>1, <1>2, <1>30, <2>1, <2>2, GoesOn DEF ExpireGrace
<1>31. CASE CancelExpired(s)
  <2>1. Wellformed([proc[s] EXCEPT !.at = "w_done"])
    BY <1>1, <1>3, <1>31 DEF CancelExpired, At, Tokens
  <2> QED BY <1>1, <1>2, <1>31, <2>1, GoesOn DEF CancelExpired
<1>32. CASE DeleteRow(s)
  <2> QED BY <1>1, <1>2, <1>32, Stops DEF DeleteRow
<1> QED BY <1>4, <1>5, <1>6, <1>7, <1>8, <1>9, <1>10, <1>11, <1>12, <1>13, <1>14, <1>15,
           <1>16, <1>17, <1>18, <1>19, <1>20, <1>21, <1>22, <1>23, <1>24, <1>25, <1>26,
           <1>27, <1>28, <1>29, <1>30, <1>31, <1>32 DEF Resume

\* The actions that leave the room as it is.
QuietResume(s) ==
  \/ Check(s) \/ CancelOld(s) \/ OwnRoom(s) \/ RingTargets(s)
  \/ RingLate(s) \/ ClaimRoom(s) \/ CancelOnReturn(s) \/ Enter(s)
  \/ CancelOnLeave(s) \/ Forget(s) \/ Untag(s)
  \/ CancelAll(s) \/ ReleaseRoom(s) \/ UntagLocal(s)
  \/ ReadOwner(s) \/ ForgetDropped(s) \/ CancelOldGrace(s) \/ EnqueueGrace(s)
  \/ CancelExpired(s) \/ DeleteRow(s)

\* The rest is well formed after a step that leaves the room alone.
LEMMA QuietRest ==
  ASSUME IInv, NEW s \in Slots, QuietResume(s)
  PROVE  /\ StoresOK' /\ SocketsOK' /\ UNCHANGED room
         /\ shared' = shared /\ crashes' = crashes
<1> USE DEF CreateAt, JoinAt, StoresOK, JobsOK, SocketsOK, Keep, At
<1>1. RunsOK /\ StoresOK /\ SocketsOK
  BY Parts
<1>2. CASE Check(s)
  BY <1>1, <1>2 DEF Check
<1>3. CASE CancelOld(s)
  BY <1>1, <1>3, CancelledOK DEF CancelOld
<1>4. CASE OwnRoom(s)
  BY <1>1, <1>4, OwnersOK, Running, GroupRoomsAssumption DEF OwnRoom
<1>5. CASE RingTargets(s)
  BY <1>1, <1>5, OwnersOK DEF RingTargets
<1>6. CASE RingLate(s)
  BY <1>1, <1>6, OwnersOK DEF RingLate
<1>7. CASE ClaimRoom(s)
  BY <1>1, <1>7, OwnersOK, Running DEF ClaimRoom
<1>8. CASE CancelOnReturn(s)
  BY <1>1, <1>8, CancelledOK DEF CancelOnReturn
<1>9. CASE Enter(s)
  BY <1>1, <1>9, Running DEF Enter
<1>10. CASE CancelOnLeave(s)
  BY <1>1, <1>10, CancelledOK DEF CancelOnLeave
<1>11. CASE Forget(s)
  BY <1>1, <1>11, OwnersOK DEF Forget
<1>12. CASE Untag(s)
  BY <1>1, <1>12 DEF Untag
<1>13. CASE CancelAll(s)
  BY <1>1, <1>13, CancelledOK DEF CancelAll
<1>14. CASE ReleaseRoom(s)
  BY <1>1, <1>14, OwnersOK DEF ReleaseRoom
<1>15. CASE UntagLocal(s)
  BY <1>1, <1>15 DEF UntagLocal
<1>16. CASE ReadOwner(s)
  BY <1>1, <1>16 DEF ReadOwner
<1>17. CASE ForgetDropped(s)
  BY <1>1, <1>17, OwnersOK DEF ForgetDropped
<1>18. CASE CancelOldGrace(s)
  BY <1>1, <1>18, CancelledOK DEF CancelOldGrace
<1>19. CASE EnqueueGrace(s)
  BY <1>1, <1>19, Running DEF EnqueueGrace, Jobs, Execs
<1>20. CASE CancelExpired(s)
  BY <1>1, <1>20, CancelledOK DEF CancelExpired
<1>21. CASE DeleteRow(s)
  BY <1>1, <1>21, CancelledOK DEF DeleteRow
<1> QED BY <1>2, <1>3, <1>4, <1>5, <1>6, <1>7, <1>8, <1>9, <1>10, <1>11, <1>12, <1>13,
           <1>14, <1>15, <1>16, <1>17, <1>18, <1>19, <1>20, <1>21 DEF QuietResume

\* An action that leaves the room alone is a request of the contract.
LEMMA QuietStep ==
  ASSUME RunsOK', UNCHANGED <<parts, grace>>, meta'.owner = meta.owner, meta'.video = meta.video
  PROVE  Contract!Next
<1>1. Leaving' \subseteq Users
  BY DEF RunsOK, ExecsOK, Wellformed, Leaving
<1> QED BY <1>1 DEF Contract!Next, Contract!Requests, Contract!room, Leaving, InGrace

-----------------------------------------------------------------------------
(* The actions that change the room                                        *)

\* Those that no leave_group_call is behind only have to answer for the room.
LEMMA LoudStep ==
  ASSUME RunsOK, NEW s \in Slots, NEW p, p.at # "l_retire", proc' = [proc EXCEPT ![s] = p],
         \/ \E v \in BOOLEAN : Contract!Announce(v)
         \/ Contract!Seat \/ Contract!Close
         \/ \E u \in Users : Contract!Enter(u) \/ Contract!Hold(u) \/ Contract!Leave(u)
                              \/ Contract!Expel(u)
  PROVE  Contract!Next
BY FewerLeave DEF Contract!Next, Leaving

\* A wiped room is well formed.
LEMMA WipedOK ==
  ASSUME RoomOK, meta' = NoMeta, parts' = {}, grace' = NoGraces,
         seq' \in {0, seq}, tomb' \in BOOLEAN
  PROVE  /\ RoomOK'
         /\ Contract!Nobody(parts', InGrace', meta'.owner, meta'.video)
<1>1. grace' \in [Users -> Tokens] /\ \A u \in Users : grace'[u] = 0
  BY DEF NoGraces, Tokens
<1>2. seq' \in Nat
  BY DEF RoomOK, Tokens
<1>3. \A u \in Users : grace'[u] <= seq'
  BY <1>1, <1>2
<1>4. meta' \in Metas /\ meta'.owner = None /\ meta'.video = FALSE
  BY DEF NoMeta, Metas
<1> QED BY <1>1, <1>2, <1>3, <1>4 DEF RoomOK, Tokens, InGrace, Contract!Nobody

\* DEL of the room is a close of the contract, at the end of a call and at its
\* creation.
LEMMA WipeSteps ==
  ASSUME IInv, NEW s \in Slots, Wipe(s) \/ Destroy(s)
  PROVE  RoomOK' /\ Contract!Next
<1>1. RunsOK /\ RoomOK
  BY Parts
<1>2. /\ meta' = NoMeta /\ parts' = {} /\ grace' = NoGraces
      /\ seq' \in {0, seq} /\ tomb' \in BOOLEAN
  BY <1>1 DEF Wipe, Destroy, GracesWiped, RoomOK
<1>3. proc[s].at \in {"c_del", "e_del"}
  BY DEF Wipe, Destroy, At
<1>4. PICK p : p.at # "l_retire" /\ proc' = [proc EXCEPT ![s] = p]
  <2>1. CASE Wipe(s)
    <3>1. [proc[s] EXCEPT !.at = "c_meta"].at # "l_retire"
      BY <1>1 DEF RunsOK, Execs
    <3> QED BY <2>1, <3>1 DEF Wipe, Goto
  <2>2. CASE Destroy(s)
    <3>1. [proc[s] EXCEPT !.at = "e_release"].at # "l_retire"
      BY <1>1 DEF RunsOK, Execs
    <3> QED BY <2>2, <3>1 DEF Destroy, Goto
  <2> QED BY <2>1, <2>2
<1>5. RoomOK' /\ Contract!Close
  BY <1>1, <1>2, <1>3, WipedOK DEF Contract!Close
<1> QED BY <1>1, <1>4, <1>5, LoudStep

\* The organiser's announcement and seat are steps of the contract.
LEMMA SeatSteps ==
  ASSUME IInv, NEW s \in Slots, Announce(s) \/ SeatOrganiser(s)
  PROVE  RoomOK' /\ Contract!Next
<1> USE GroupRoomsAssumption
<1>1. RunsOK /\ RoomOK /\ proc[s].video \in BOOLEAN
  BY Parts DEF RunsOK, Execs
<1>2. CASE Announce(s)
  <2>1. [proc[s] EXCEPT !.at = "c_part", !.video = FALSE].at # "l_retire"
    BY <1>1 DEF RunsOK, Execs
  <2>2. RoomOK'
    BY <1>1, <1>2 DEF Announce, RoomOK, Metas
  <2>3. Contract!Announce(proc[s].video)
    BY <1>2 DEF Announce, Contract!Announce, InGrace
  <2> QED BY <1>1, <1>2, <2>1, <2>2, <2>3, LoudStep DEF Announce, Goto
<1>3. CASE SeatOrganiser(s)
  <2>1. [proc[s] EXCEPT !.at = "c_own"].at # "l_retire"
    BY <1>1 DEF RunsOK, Execs
  <2>2. RoomOK'
    BY <1>1, <1>3 DEF SeatOrganiser, RoomOK
  <2>3. Contract!Seat
    BY <1>3 DEF SeatOrganiser, Contract!Seat, InGrace
  <2> QED BY <1>1, <1>3, <2>1, <2>2, <2>3, LoudStep DEF SeatOrganiser, Goto
<1> QED BY <1>2, <1>3

\* The contract counts as the room does.
LEMMA SameCount == \A S : Contract!Cardinality(S) = Cardinality(S)
BY DEF Contract!Cardinality, Cardinality

\* A guest's join is a join of the contract, within the limit of its kind.
LEMMA JoinStep ==
  ASSUME IInv, RunsOK', NEW s \in Slots, JoinRoom(s)
  PROVE  RoomOK' /\ SocketsOK' /\ Contract!Next
<1> DEFINE u == proc[s].u
<1>1. RunsOK /\ RoomOK /\ SocketsOK /\ At(s, "j_join")
  BY Parts DEF JoinRoom
<1>2. u \in Users /\ proc[s].x \in Sockets
  BY <1>1, Running DEF At, JoinAt
<1> HIDE DEF u
<1>3. meta' \in Metas /\ meta'.owner = meta.owner /\ meta'.video = meta.video
  BY <1>1 DEF JoinRoom, RoomOK, Metas, room
<1>4. CASE tomb \/ Full(u)
  <2>1. UNCHANGED <<parts, grace, seq, tomb, seated, live, inRoom, engaged>>
    BY <1>4 DEF JoinRoom, u, room
  <2> QED BY <1>1, <1>3, <2>1, QuietStep DEF RoomOK, SocketsOK
<1>5. CASE ~tomb /\ ~Full(u)
  <2>1. /\ parts' = parts \union {u} /\ grace' = [grace EXCEPT ![u] = 0]
        /\ seated' = [seated EXCEPT ![u] = proc[s].x]
        /\ UNCHANGED <<seq, tomb, live, inRoom, engaged>>
    BY <1>5 DEF JoinRoom, u
  <2>2. RoomOK' /\ SocketsOK'
    BY <1>1, <1>2, <1>3, <2>1 DEF RoomOK, SocketsOK, Tokens
  <2>3. u \in parts \/ Cardinality(parts) < Limit
    <3>1. Cardinality(parts) \in Nat
      BY <1>1, GroupRoomsAssumption, FS_Subset, FS_CardinalityType DEF RoomOK
    <3>2. Limit \in Nat
      BY GroupRoomsAssumption DEF Limit
    <3> QED BY <1>5, <3>1, <3>2 DEF Full
  <2>4. InGrace' = InGrace \ {u}
    BY <1>1, <1>2, <2>1 DEF InGrace, RoomOK
  <2>5. Contract!Enter(u)
    BY <1>3, <2>1, <2>3, <2>4, SameCount DEF Contract!Enter, Contract!Limit, Limit
  <2>6. PICK p : p.at # "l_retire" /\ proc' = [proc EXCEPT ![s] = p]
    <3> DEFINE at == IF grace[u] # 0 THEN "j_cancel" ELSE "j_tag"
               p == [proc[s] EXCEPT !.at = at]
    <3>1. p.at # "l_retire"
      BY <1>1 DEF RunsOK, Execs
    <3>2. proc' = [proc EXCEPT ![s] = p]
      BY <1>5 DEF JoinRoom, Goto, u
    <3> HIDE DEF p
    <3> QED BY <3>1, <3>2
  <2> QED BY <1>1, <1>2, <2>2, <2>5, <2>6, LoudStep
<1> QED BY <1>4, <1>5

\* EXPIRE_OU_PART gives up one seat, and closes the room with the last.
LEMMA RetireSeat ==
  ASSUME RoomOK, NEW u \in Users, Retire(u)
  PROVE  RoomOK' /\ Contract!GiveUp(u)
<1>1. parts' = parts \ {u} /\ UNCHANGED <<seq, tomb>>
  BY DEF Retire
<1>2. CASE parts' = {}
  <2>1. meta' = NoMeta /\ grace' = NoGraces
    BY <1>2 DEF Retire, GracesWiped
  <2>2. RoomOK' /\ Contract!Nobody(parts', InGrace', meta'.owner, meta'.video)
    BY <1>1, <1>2, <2>1, WipedOK DEF RoomOK
  <2> QED BY <1>1, <1>2, <2>2 DEF Contract!GiveUp
<1>3. CASE parts' # {}
  <2>1. meta' = RightGivenBack(u) /\ grace' = [grace EXCEPT ![u] = 0]
    BY <1>3 DEF Retire
  <2>2. /\ meta' \in Metas /\ meta'.video = meta.video
        /\ meta'.owner = IF meta.owner = u THEN None ELSE meta.owner
    BY <2>1 DEF RightGivenBack, RoomOK, Metas
  <2>3. RoomOK'
    BY <1>1, <2>1, <2>2 DEF RoomOK, Tokens
  <2>4. InGrace' = InGrace \ {u}
    BY <2>1 DEF InGrace, RoomOK
  <2> QED BY <1>1, <1>3, <2>2, <2>3, <2>4 DEF Contract!GiveUp
<1> QED BY <1>2, <1>3

\* leave_group_call gives up the seat of the account that left.
LEMMA GiveUpStep ==
  ASSUME IInv, NEW s \in Slots, GiveUp(s)
  PROVE  RoomOK' /\ Contract!Next
<1> DEFINE u == proc[s].u
<1>1. RunsOK /\ RoomOK /\ proc[s].at = "l_retire" /\ Retire(u)
  BY Parts DEF GiveUp, At
<1>2. u \in Users /\ u \in Leaving
  BY <1>1, Running DEF Leaving
<1>3. RoomOK' /\ Contract!GiveUp(u)
  BY <1>1, <1>2, RetireSeat
<1>4. Contract!Leave(u)
  BY <1>2, <1>3 DEF Contract!Leave, Leaving
<1>5. [proc[s] EXCEPT !.at = "l_cancel"].at # "l_retire"
  BY <1>1 DEF RunsOK, Execs
<1> HIDE DEF u
<1> QED BY <1>1, <1>2, <1>3, <1>4, <1>5, LoudStep DEF GiveUp, Goto

\* An expired grace gives up a seat only under the token it was armed with.
LEMMA ExpireStep ==
  ASSUME IInv, RunsOK', NEW s \in Slots, ExpireGrace(s)
  PROVE  RoomOK' /\ Contract!Next
<1> DEFINE u == proc[s].u
<1>1. RunsOK /\ RoomOK /\ proc[s].at = "w_expire"
  BY Parts DEF ExpireGrace, At
<1>2. u \in Users /\ proc[s].token # 0
  BY <1>1, Running
<1>3. CASE Consumes(u, proc[s].token)
  <2>1. Retire(u) /\ u \in InGrace
    BY <1>2, <1>3 DEF ExpireGrace, Consumes, InGrace
  <2>2. RoomOK' /\ Contract!GiveUp(u)
    BY <1>1, <1>2, <2>1, RetireSeat
  <2>3. Contract!Expel(u)
    BY <2>1, <2>2 DEF Contract!Expel
  <2>4. [proc[s] EXCEPT !.at = "w_cancel"].at # "l_retire"
    BY <1>1 DEF RunsOK, Execs
  <2>5. proc' = [proc EXCEPT ![s] = [proc[s] EXCEPT !.at = "w_cancel"]]
    BY <1>3 DEF ExpireGrace, Goto
  <2> HIDE DEF u
  <2> QED BY <1>1, <1>2, <2>2, <2>3, <2>4, <2>5, LoudStep
<1>4. CASE ~Consumes(u, proc[s].token)
  <2>1. UNCHANGED room
    BY <1>4 DEF ExpireGrace
  <2> QED BY <1>1, <2>1, QuietStep DEF room, RoomOK
<1> QED BY <1>3, <1>4

\* A grace armed for a participant is a drop of the contract.
LEMMA ArmStep ==
  ASSUME IInv, RunsOK', NEW s \in Slots, ArmGrace(s)
  PROVE  RoomOK' /\ Contract!Next
<1> DEFINE u == proc[s].u
           armed == meta.exists /\ u \in parts
<1>1. RunsOK /\ RoomOK /\ proc[s].at = "d_arm"
  BY Parts DEF ArmGrace, At
<1>2. u \in Users
  BY <1>1, Running
<1>3. CASE armed
  <2>1. /\ seq' = seq + 1 /\ grace' = [grace EXCEPT ![u] = seq + 1]
        /\ UNCHANGED <<meta, parts, tomb>>
    BY <1>3 DEF ArmGrace
  <2>2. seq + 1 \in Nat /\ seq + 1 # 0 /\ \A v \in Users : grace[v] <= seq + 1
    BY <1>1 DEF RoomOK, Tokens
  <2>3. RoomOK'
    BY <1>1, <1>2, <2>1, <2>2 DEF RoomOK, Tokens
  <2>4. InGrace' = InGrace \union {u}
    BY <1>1, <1>2, <2>1, <2>2 DEF InGrace, RoomOK
  <2>5. Contract!Hold(u)
    BY <1>3, <2>1, <2>4 DEF Contract!Hold
  <2>6. [proc[s] EXCEPT !.at = "d_cancel", !.token = seq + 1].at # "l_retire"
    BY <1>1 DEF RunsOK, Execs
  <2>7. proc' = [proc EXCEPT ![s] = [proc[s] EXCEPT !.at = "d_cancel", !.token = seq + 1]]
    BY <1>3 DEF ArmGrace, Goto
  <2> HIDE DEF u
  <2> QED BY <1>1, <1>2, <2>3, <2>5, <2>6, <2>7, LoudStep
<1>4. CASE ~armed
  <2>1. UNCHANGED room
    BY <1>4 DEF ArmGrace
  <2> QED BY <1>1, <2>1, QuietStep DEF room, RoomOK
<1> QED BY <1>3, <1>4

\* The marks cleared after the last departure touch no seat.
LEMMA BuryStep ==
  ASSUME IInv, RunsOK', NEW s \in Slots, Bury(s)
  PROVE  RoomOK' /\ Contract!Next
<1>1. tomb' = TRUE /\ UNCHANGED <<meta, parts, grace, seq>>
  BY DEF Bury
<1> QED BY <1>1, Parts, QuietStep DEF RoomOK

\* A crash keeps the Redis room and ends the one in memory.
LEMMA CrashStep ==
  ASSUME IInv, Crash
  PROVE  IInv' /\ Contract!Next
<1>1. RunsOK /\ RoomOK /\ StoresOK /\ SocketsOK /\ shared \in BOOLEAN
      /\ crashes \in 0 .. MaxCrashes
  BY Parts
<1>2. shared' \in BOOLEAN /\ crashes' \in 0 .. MaxCrashes
  BY <1>1, GroupRoomsAssumption DEF Crash
<1>3. RunsOK'
  BY <1>1, IdleWell DEF Crash, RunsOK, ExecsOK, Wellformed
<1>4. CASE shared
  <2>1. UNCHANGED <<room, job, own, inRoom, engaged, seated>> /\ live' \subseteq live
    BY <1>4 DEF Crash
  <2>2. RoomOK' /\ StoresOK' /\ SocketsOK'
    BY <1>1, <2>1 DEF room, RoomOK, StoresOK, SocketsOK, JobsOK
  <2> QED BY <1>2, <1>3, <2>1, <2>2, PartsNext, QuietStep DEF room
<1>5. CASE ~shared
  <2>1. /\ meta' = NoMeta /\ parts' = {} /\ grace' = NoGraces /\ seq' = 0 /\ tomb' = FALSE
        /\ job' = Cancelled(Users) /\ own' = [u \in Users |-> NoOwner]
        /\ proc' = [s \in Slots |-> Idle] /\ crashes < MaxCrashes
    BY <1>5 DEF Crash
  <2>2. RoomOK' /\ Contract!Close
    BY <1>1, <1>5, <2>1, WipedOK DEF Contract!Close
  <2>3. StoresOK'
    BY <1>1, <2>1, CancelledOK, OwnersOK DEF StoresOK, JobsOK
  <2>4. SocketsOK'
    BY <1>1, <1>5 DEF Crash, SocketsOK
  <2>5. Leaving' = {}
    BY <2>1 DEF Leaving, Idle
  <2>6. Contract!Next
    BY <2>2, <2>5 DEF Contract!Next, Leaving
  <2> QED BY <1>2, <1>3, <2>2, <2>3, <2>4, <2>6, PartsNext
<1> QED BY <1>4, <1>5

\* The actions of the room leave the other stores alone.
LoudResume(s) == \/ Wipe(s) \/ Destroy(s) \/ Announce(s) \/ SeatOrganiser(s) \/ GiveUp(s)
                 \/ ArmGrace(s) \/ ExpireGrace(s) \/ Bury(s)

\* The rest is well formed after a step that changes the room.
LEMMA LoudRest ==
  ASSUME IInv, NEW s \in Slots, LoudResume(s)
  PROVE  StoresOK' /\ SocketsOK' /\ shared' = shared /\ crashes' = crashes
<1>1. UNCHANGED <<job, own, live, inRoom, engaged, seated, shared, crashes>>
  BY DEF LoudResume, Wipe, Destroy, Announce, SeatOrganiser, GiveUp, ArmGrace,
     ExpireGrace, Bury,
         Keep
<1> QED BY <1>1, Parts DEF StoresOK, SocketsOK, JobsOK

\* Every step of an execution that goes on keeps the contract,
LEMMA ResumeStep ==
  ASSUME IInv, NEW s \in Slots, Resume(s)
  PROVE  IInv' /\ Contract!Next
<1>1. RunsOK' /\ RoomOK /\ StoresOK /\ shared \in BOOLEAN /\ crashes \in 0 .. MaxCrashes
  BY Parts, ResumeRuns
<1>2. CASE QuietResume(s)
  <2>1. StoresOK' /\ SocketsOK' /\ UNCHANGED room /\ shared' = shared /\ crashes' = crashes
    BY <1>2, QuietRest
  <2>2. RoomOK'
    BY <1>1, <2>1 DEF RoomOK, room
  <2> QED BY <1>1, <2>1, <2>2, PartsNext, QuietStep DEF room
<1>3. CASE LoudResume(s)
  <2>1. StoresOK' /\ SocketsOK' /\ shared' = shared /\ crashes' = crashes
    BY <1>3, LoudRest
  <2>2. RoomOK' /\ Contract!Next
    BY <1>1, <1>3, WipeSteps, SeatSteps, GiveUpStep, ArmStep, ExpireStep, BuryStep
       DEF LoudResume
  <2> QED BY <1>1, <2>1, <2>2, PartsNext
<1>4. CASE JoinRoom(s)
  <2>1. job' = job /\ own' = own /\ shared' = shared /\ crashes' = crashes
    BY <1>4 DEF JoinRoom
  <2>2. StoresOK'
    BY <1>1, <2>1 DEF StoresOK, JobsOK
  <2>3. RoomOK' /\ SocketsOK' /\ Contract!Next
    BY <1>1, <1>4, JoinStep
  <2> QED BY <1>1, <2>1, <2>2, <2>3, PartsNext
<1>5. QuietResume(s) \/ LoudResume(s) \/ JoinRoom(s)
  BY DEF Resume, QuietResume, LoudResume
<1> QED BY <1>2, <1>3, <1>4, <1>5

\* every event that arrives too,
LEMMA RequestStep ==
  ASSUME IInv, NEW s \in Slots, Request(s)
  PROVE  IInv' /\ Contract!Next
<1>1. RunsOK' /\ StoresOK' /\ SocketsOK' /\ UNCHANGED <<room, shared, crashes>>
  BY RequestRuns, RequestRest
<1>2. RoomOK /\ shared \in BOOLEAN /\ crashes \in 0 .. MaxCrashes
  BY Parts
<1>3. RoomOK'
  BY <1>1, <1>2 DEF RoomOK, room
<1> QED BY <1>1, <1>2, <1>3, PartsNext, QuietStep DEF room

\* every deadline too,
LEMMA TimeStep ==
  ASSUME IInv, TombExpires \/ \E u \in Users : ReclaimOrphan(u)
  PROVE  IInv' /\ Contract!Next
<1>1. /\ RoomOK /\ StoresOK /\ SocketsOK /\ RunsOK
      /\ shared \in BOOLEAN /\ crashes \in 0 .. MaxCrashes
  BY Parts
<1>2. UNCHANGED <<meta, parts, grace, seq, own, live, inRoom, engaged, seated, proc, loop,
                  events, shared, crashes>>
  BY DEF TombExpires, ReclaimOrphan, Keep, room
<1>3. RoomOK'
  <2>1. tomb' \in BOOLEAN
    BY <1>1 DEF TombExpires, ReclaimOrphan, room, RoomOK
  <2> QED BY <1>1, <1>2, <2>1 DEF RoomOK
<1>4. StoresOK'
  BY <1>1, <1>2 DEF TombExpires, ReclaimOrphan, StoresOK, JobsOK, Jobs
<1>5. SocketsOK' /\ RunsOK'
  BY <1>1, <1>2 DEF SocketsOK, RunsOK, ExecsOK
<1> QED BY <1>1, <1>2, <1>3, <1>4, <1>5, PartsNext, QuietStep

\* and so does every step of the specification.
LEMMA Step == IInv /\ Next => IInv' /\ Contract!Next
BY ResumeStep, RequestStep, CrashStep, TimeStep DEF Next

\* A stuttering step stutters in the contract.
LEMMA Stutter == IInv /\ UNCHANGED vars => IInv' /\ UNCHANGED Contract!vars
BY DEF vars, room, IInv, TypeOK, ExecsOK, JobsOK, Wellformed, Contract!vars, InGrace

-----------------------------------------------------------------------------
(* The right to end the call                                               *)

\* The right is the organiser's or everybody's; while his seat is missing, a
\* create_group_call has announced the room and is about to seat him.
Chief ==
  /\ meta.owner \in {Organiser, None}
  /\ crashes = 0 => \/ meta.owner \in parts \union {None}
                    \/ \E s \in Slots : proc[s].at = "c_part"

\* An event starts a handler in a free slot.
LEMMA Starts ==
  ASSUME NEW s \in Slots, Request(s)
  PROVE  Free(s) /\ \E p : Goto(s, p)
<1>1. ASSUME NEW x \in Sockets, NEW v \in BOOLEAN, Create(s, x, v)
      PROVE  Free(s) /\ \E p : Goto(s, p)
  BY <1>1 DEF Create, Arrive
<1>2. ASSUME NEW x \in Sockets, Join(s, x) PROVE Free(s) /\ \E p : Goto(s, p)
  BY <1>2 DEF Join, Arrive
<1>3. ASSUME NEW x \in Sockets, Leave(s, x) PROVE Free(s) /\ \E p : Goto(s, p)
  BY <1>3 DEF Leave, Arrive
<1>4. ASSUME NEW x \in Sockets, End(s, x) PROVE Free(s) /\ \E p : Goto(s, p)
  BY <1>4 DEF End, Arrive
<1>5. ASSUME NEW x \in Sockets, Disconnect(s, x) PROVE Free(s) /\ \E p : Goto(s, p)
  BY <1>5 DEF Disconnect, Arrive
<1>6. ASSUME NEW u \in Users, Fire(s, u) PROVE Free(s) /\ \E p : Goto(s, p)
  BY <1>6 DEF Fire
<1> QED BY <1>1, <1>2, <1>3, <1>4, <1>5, <1>6 DEF Request

\* A step of a handler moves that handler only,
LEMMA OthersStay ==
  ASSUME RunsOK, NEW s \in Slots, Request(s) \/ Resume(s)
  PROVE  \A t \in Slots \ {s} : proc'[t] = proc[t]
<1>1. ASSUME NEW p, Goto(s, p) PROVE \A t \in Slots \ {s} : proc'[t] = proc[t]
  BY <1>1 DEF Goto, RunsOK
<1>2. ASSUME Done(s) PROVE \A t \in Slots \ {s} : proc'[t] = proc[t]
  BY <1>2 DEF Done, RunsOK
<1>3. CASE Request(s)
  <2>1. PICK p : Goto(s, p)
    BY <1>3, Starts
  <2> QED BY <1>1, <2>1
<1>4. CASE QuietResume(s)
  BY <1>1, <1>2, <1>4 DEF QuietResume, Check, CancelOld, OwnRoom, RingTargets, RingLate,
     ClaimRoom, CancelOnReturn, Enter, CancelOnLeave, Forget, Untag, CancelAll, ReleaseRoom,
     UntagLocal, ReadOwner, ForgetDropped, CancelOldGrace, EnqueueGrace, CancelExpired, DeleteRow
<1>5. CASE LoudResume(s) \/ JoinRoom(s)
  BY <1>1, <1>2, <1>5 DEF LoudResume, JoinRoom, Wipe, Destroy, Announce, SeatOrganiser, GiveUp,
     ArmGrace, ExpireGrace, Bury
<1> QED BY <1>3, <1>4, <1>5 DEF Resume, QuietResume, LoudResume

\* and a create_group_call that is about to seat the organiser does only that.
LEMMA OnlySeats ==
  ASSUME NEW s \in Slots, Request(s) \/ Resume(s), proc[s].at = "c_part"
  PROVE  SeatOrganiser(s)
BY Starts DEF Free, Resume, Check, CancelOld, OwnRoom, RingTargets, RingLate, ClaimRoom,
   CancelOnReturn, Enter, CancelOnLeave, Forget, Untag, CancelAll, ReleaseRoom, UntagLocal,
   ReadOwner, ForgetDropped, CancelOldGrace, EnqueueGrace, CancelExpired, DeleteRow, JoinRoom,
   Wipe, Destroy, Announce, GiveUp, ArmGrace, ExpireGrace, Bury, At

\* A step that takes the right from nobody who keeps his seat keeps the right
\* where it belongs.
LEMMA RightKept ==
  ASSUME Chief, RunsOK, NEW s \in Slots, Request(s) \/ Resume(s), ~SeatOrganiser(s),
         crashes' = crashes,
         \/ meta'.owner = None
         \/ meta'.owner = meta.owner /\ (meta.owner \in parts => meta.owner \in parts')
  PROVE  Chief'
<1>1. \A t \in Slots : proc[t].at = "c_part" => proc'[t].at = "c_part"
  BY OthersStay, OnlySeats
<1> QED BY <1>1 DEF Chief

\* EXPIRE_OU_PART gives the right of the one who loses his seat to everybody.
LEMMA RightGiven ==
  ASSUME RoomOK, NEW u \in Users, Retire(u)
  PROVE  \/ meta'.owner = None
         \/ meta'.owner = meta.owner /\ (meta.owner \in parts => meta.owner \in parts')
<1>1. CASE parts' = {}
  BY <1>1 DEF Retire, NoMeta
<1>2. CASE parts' # {}
  BY <1>2 DEF Retire, RightGivenBack, RoomOK, Metas
<1> QED BY <1>1, <1>2

\* Every step keeps the right where it belongs.
LEMMA ChiefStep ==
  ASSUME IInv, Chief, Next
  PROVE  Chief'
<1> USE GroupRoomsAssumption
<1>1. RunsOK /\ RoomOK /\ crashes \in Nat
  BY Parts
<1>2. ASSUME NEW s \in Slots, Request(s) PROVE Chief'
  <2>1. UNCHANGED room /\ crashes' = crashes
    BY <1>2, RequestRest
  <2>2. ~SeatOrganiser(s)
    BY <1>2, Starts DEF SeatOrganiser, At, Free
  <2> QED BY <1>1, <1>2, <2>1, <2>2, RightKept DEF room
<1>3. ASSUME NEW s \in Slots, Resume(s) PROVE Chief'
  <2>1. crashes' = crashes
    BY <1>3, QuietRest, LoudRest DEF Resume, QuietResume, LoudResume, JoinRoom
  <2>2. CASE SeatOrganiser(s)
    BY <1>1, <2>1, <2>2 DEF SeatOrganiser, Chief
  <2>3. CASE Announce(s)
    <3>1. proc'[s].at = "c_part" /\ meta'.owner = Organiser
      BY <1>1, <2>3 DEF Announce, Goto, RunsOK, Execs
    <3> QED BY <3>1 DEF Chief
  <2>4. CASE QuietResume(s) /\ ~SeatOrganiser(s)
    <3>1. UNCHANGED room
      BY <2>4, QuietRest
    <3> QED BY <1>1, <1>3, <2>1, <2>4, <3>1, RightKept DEF room
  <2>5. CASE (Wipe(s) \/ Destroy(s)) /\ ~SeatOrganiser(s)
    BY <1>1, <1>3, <2>1, <2>5, RightKept DEF Wipe, Destroy, NoMeta
  <2>6. CASE (Bury(s) \/ ArmGrace(s)) /\ ~SeatOrganiser(s)
    <3>1. meta' = meta /\ parts' = parts
      BY <2>6 DEF Bury, ArmGrace, room
    <3> QED BY <1>1, <1>3, <2>1, <2>6, <3>1, RightKept
  <2>7. CASE (GiveUp(s) \/ ExpireGrace(s)) /\ ~SeatOrganiser(s)
    <3>1. proc[s].u \in Users
      BY <1>1, <2>7, Running DEF GiveUp, ExpireGrace, At
    <3>2. Retire(proc[s].u) \/ UNCHANGED room
      BY <2>7 DEF GiveUp, ExpireGrace
    <3>3. \/ meta'.owner = None
          \/ meta'.owner = meta.owner /\ (meta.owner \in parts => meta.owner \in parts')
      BY <1>1, <3>1, <3>2, RightGiven DEF room
    <3> QED BY <1>1, <1>3, <2>1, <2>7, <3>3, RightKept
  <2>8. CASE JoinRoom(s) /\ ~SeatOrganiser(s)
    <3>1. meta'.owner = meta.owner /\ parts \subseteq parts'
      BY <1>1, <2>8 DEF JoinRoom, RoomOK, Metas, room
    <3> QED BY <1>1, <1>3, <2>1, <2>8, <3>1, RightKept
  <2> QED BY <1>3, <2>2, <2>3, <2>4, <2>5, <2>6, <2>7, <2>8 DEF Resume, QuietResume
<1>4. CASE TombExpires \/ \E u \in Users : ReclaimOrphan(u)
  <2>1. UNCHANGED <<meta, parts, proc, crashes>>
    BY <1>4 DEF TombExpires, ReclaimOrphan, Keep, room
  <2> QED BY <2>1 DEF Chief
<1>5. CASE Crash
  <2>1. crashes' # 0 /\ meta'.owner \in {meta.owner, None}
    BY <1>1, <1>5 DEF Crash, room, NoMeta
  <2> QED BY <2>1 DEF Chief
<1> QED BY <1>2, <1>3, <1>4, <1>5 DEF Next

-----------------------------------------------------------------------------
(* A room in the Maps of one process                                       *)

\* The handler that runs; the others have not started, or look at the
\* subscription of a call that is created.
Ran    == IF loop = None THEN Idle ELSE proc[loop]
Waits  == {"idle", "c_check"}
Guests == Users \ {Organiser}

\* A handler works for the account of its socket.
Named(p) ==
  /\ p.at \in CreateAt => p.u = Organiser
  /\ p.at \in CreateAt \union JoinAt \union LeaveAt \union DropAt
       => p.x \in Sockets /\ UserOf[p.x] = p.u

\* One handler runs at a time.
Alone ==
  /\ \A s \in Slots : Named(proc[s]) /\ (s # loop => proc[s].at \in Waits)
  /\ loop # None => proc[loop].at \notin Waits

\* A participant is in the room or waited for, and the row of his account
\* names no socket that left it.
Stays(u)    == Occupied(u) \/ Waited(u)
Tracked(u)  == \/ own[u].sock = NoSocket
               \/ own[u].sock \in live \intersect inRoom /\ UserOf[own[u].sock] = u
Followed(u) == u \in parts => Stays(u) /\ Tracked(u)

\* A room with participants exists, a buried one is empty, and so is one that
\* is being created, but for the organiser.
RoomLaw(p) ==
  /\ parts # {} => meta.exists
  /\ tomb => p.at = "e_del" \/ parts = {}
  /\ p.at = "c_part" => meta.exists
  /\ p.at \in {"c_meta", "c_part"} => ~tomb
  /\ p.at \in {"c_meta", "c_part", "c_own", "c_ring"} => parts \subseteq {Organiser}
  /\ p.at \in {"e_release", "e_untag"} => parts = {}

\* The guests the running handler does not work for are followed, unless it
\* is about to empty the room.
OthersFollowed(p) ==
  p.at \notin {"c_del", "e_tomb", "e_del"} => \A u \in Guests \ {p.u} : Followed(u)

\* What is due to the guest it works for, by the point it has reached.
ItsGuest(p) ==
  /\ p.at \in JoinAt => p.x \in live
  /\ p.at \in {"j_ring", "j_claim"} => Followed(p.u)
  /\ p.at \in {"j_join", "j_cancel", "j_tag"} => own[p.u].sock = p.x
  /\ p.at = "j_join" => (p.u \in parts => Stays(p.u))
  /\ p.at \in {"l_cancel", "l_forget", "l_untag", "w_cancel"} => p.u \notin parts
  /\ p.at = "d_read" /\ p.u \in parts => /\ p.x \in inRoom \/ (Stays(p.u) /\ own[p.u].sock # p.x)
                                         /\ own[p.u].sock = p.x \/ Tracked(p.u)
  /\ p.at \in {"d_arm", "d_cancel", "d_enqueue"} => own[p.u].sock = NoSocket
  /\ p.at \in {"d_cancel", "d_enqueue"} => grace[p.u] = p.token
  /\ p.at = "d_enqueue" => ~job[p.u].armed
  /\ p.at \in {"w_expire", "w_done"} => (p.u \in parts => Tracked(p.u))
  /\ p.at = "w_expire" => (p.u \in parts => Occupied(p.u) \/ grace[p.u] = p.token)
  /\ p.at = "w_done" => (p.u \in parts => Occupied(p.u))

Law(p) == RoomLaw(p) /\ OthersFollowed(p) /\ (p.u \in Guests => ItsGuest(p))
InMaps == Alone /\ Law(Ran)

\* No other handler runs.
OthersWait(s) == \A t \in Slots \ {s} : proc[t].at \in Waits

\* The handler s goes on at the point a.
Becomes(s, p, a) == p.at = a /\ p.u = proc[s].u /\ p.x = proc[s].x

\* A handler that runs has the turn, and what it left behind is lawful.
LEMMA Turn ==
  ASSUME InMaps, NEW s \in Slots, loop \in {None, s}, proc[s].at \notin Waits
  PROVE  loop = s /\ OthersWait(s) /\ Law(proc[s]) /\ Named(proc[s])
<1>1. loop = s
  BY GroupRoomsAssumption DEF InMaps, Alone
<1>2. Ran = proc[s]
  BY <1>1, GroupRoomsAssumption DEF Ran
<1> QED BY <1>1, <1>2 DEF InMaps, Alone, OthersWait

\* At rest the law is that of nobody in particular.
LEMMA AtRest ==
  ASSUME InMaps, loop = None
  PROVE  /\ parts # {} => meta.exists
         /\ tomb => parts = {}
         /\ \A u \in Guests : Followed(u)
         /\ \A s \in Slots : proc[s].at \in Waits /\ Named(proc[s])
BY GroupRoomsAssumption DEF InMaps, Alone, Ran, Law, RoomLaw, OthersFollowed, Idle, Guests

\* A handler that goes on keeps the law it establishes,
LEMMA Goes ==
  ASSUME RunsOK, NEW s \in Slots, ~shared, Alone, OthersWait(s), NEW p, Goto(s, p),
         p.at \notin Waits, Named(p), Law(p)'
  PROVE  InMaps'
<1>1. /\ loop' = s /\ proc'[s] = p
      /\ \A t \in Slots \ {s} : proc'[t] = proc[t]
  BY DEF Goto, RunsOK, Waits
<1>2. Ran' = p
  BY <1>1, GroupRoomsAssumption DEF Ran
<1>3. Alone'
  BY <1>1, GroupRoomsAssumption DEF Alone, OthersWait
<1>4. Law(Ran)'
  BY <1>2 DEF Law, RoomLaw, OthersFollowed, ItsGuest
<1> QED BY <1>3, <1>4 DEF InMaps

\* and so does one that ends.
LEMMA Ends ==
  ASSUME RunsOK, NEW s \in Slots, Alone, OthersWait(s), Done(s),
         parts' # {} => meta'.exists, tomb' => parts' = {}, \A u \in Guests : Followed(u)'
  PROVE  InMaps'
<1>1. /\ loop' = None /\ proc'[s] = Idle
      /\ \A t \in Slots \ {s} : proc'[t] = proc[t]
  BY DEF Done, RunsOK
<1>2. Named(Idle) /\ Idle.at = "idle" /\ Idle.u = None
  BY DEF Named, Idle, CreateAt, JoinAt, LeaveAt, DropAt
<1>3. Alone'
  BY <1>1, <1>2, GroupRoomsAssumption DEF Alone, OthersWait, Waits
<1>4. Ran' = Idle
  BY <1>1 DEF Ran
<1>5. None \notin Guests
  BY GroupRoomsAssumption DEF Guests
<1>6. Law(Ran)'
  BY <1>2, <1>4, <1>5 DEF Law, RoomLaw, OthersFollowed
<1> QED BY <1>3, <1>6 DEF InMaps

\* Whoever the running handler does not work for is followed as before.
LEMMA OthersKept ==
  ASSUME NEW u, NEW x, x \in Sockets => UserOf[x] = u,
         NEW v \in Guests, v # u, Followed(v),
         v \in parts' => v \in parts,
         grace'[v] = grace[v], job'[v] = job[v], own'[v] = own[v],
         live \ {x} \subseteq live', inRoom \ {x} \subseteq inRoom', live \subseteq Sockets
  PROVE  Followed(v)'
<1> SUFFICES ASSUME v \in parts' PROVE Stays(v)' /\ Tracked(v)'
  BY DEF Followed
<1>1. Stays(v) /\ Tracked(v)
  BY DEF Followed
<1>2. Occupied(v) => Occupied(v)'
  BY DEF Occupied
<1>3. Waited(v) => Waited(v)'
  BY DEF Waited
<1>4. Tracked(v)'
  BY <1>1 DEF Tracked
<1> QED BY <1>1, <1>2, <1>3, <1>4 DEF Stays

\* Nobody has to be followed in an empty room.
LEMMA NobodyElse == ASSUME parts' \subseteq {Organiser} PROVE \A u \in Guests : Followed(u)'
BY DEF Guests, Followed

\* The account and the socket of a handler that runs.
LEMMA ItsAccount ==
  ASSUME IInv, NEW s \in Slots, Named(proc[s]), proc[s].at # "idle"
  PROVE  /\ proc[s].u \in Users /\ proc[s].u # None /\ proc[s] \in Execs
         /\ proc[s].at \in CreateAt \union JoinAt \union LeaveAt \union DropAt
              => proc[s].x \in Sockets /\ UserOf[proc[s].x] = proc[s].u
BY Parts, Running, GroupRoomsAssumption DEF Named

\* The steps of leave_group_call: the account that leaves has no seat to follow.
LEMMA LeaveInMaps ==
  ASSUME IInv, InMaps, ~shared, NEW s \in Slots,
         GiveUp(s) \/ CancelOnLeave(s) \/ Forget(s) \/ Untag(s)
  PROVE  InMaps'
<1>1. RunsOK /\ RoomOK /\ StoresOK /\ SocketsOK /\ Alone
  BY Parts DEF InMaps
<1>2. proc[s].at \in LeaveAt /\ loop \in {None, s}
  BY DEF GiveUp, CancelOnLeave, Forget, Untag, At, LeaveAt
<1>3. loop = s /\ OthersWait(s) /\ Law(proc[s]) /\ Named(proc[s])
  BY <1>2, Turn DEF Waits, LeaveAt
<1>4. PICK u, x : u = proc[s].u /\ x = proc[s].x
  OBVIOUS
<1>5. u \in Users /\ x \in Sockets /\ UserOf[x] = u /\ proc[s] \in Execs
  BY <1>2, <1>3, <1>4, ItsAccount DEF LeaveAt
<1>6. /\ parts # {} => meta.exists
      /\ tomb => parts = {}
      /\ \A v \in Guests \ {u} : Followed(v)
  BY <1>2, <1>3, <1>4 DEF Law, RoomLaw, OthersFollowed, LeaveAt
<1>7. CASE GiveUp(s)
  <2>1. Retire(u) /\ UNCHANGED <<job, own, live, inRoom>>
    BY <1>4, <1>7 DEF GiveUp
  <2>2. /\ u \notin parts' /\ parts' \subseteq parts /\ tomb' = tomb
        /\ parts' # {} => meta'.exists /\ \A v \in Users \ {u} : grace'[v] = grace[v]
    BY <1>1, <1>5, <1>6, <2>1 DEF Retire, RightGivenBack, RoomOK, Metas
  <2>3. \A v \in Guests \ {u} : Followed(v)'
    <3>1. CASE parts' = {}
      BY <3>1, NobodyElse
    <3>2. CASE parts' # {}
      BY <1>1, <1>5, <1>6, <2>1, <2>2, <3>2, OthersKept DEF SocketsOK, Guests
    <3> QED BY <3>1, <3>2
  <2>4. PICK p : Goto(s, p) /\ Becomes(s, p, "l_cancel")
    <3>1. Becomes(s, [proc[s] EXCEPT !.at = "l_cancel"], "l_cancel")
      BY <1>5 DEF Becomes, Execs
    <3> QED BY <1>7, <3>1 DEF GiveUp
  <2>5. Law(p)'
    BY <1>4, <1>6, <2>2, <2>3, <2>4
       DEF Becomes, Law, RoomLaw, OthersFollowed, ItsGuest, JoinAt
  <2>6. Named(p) /\ p.at \notin Waits
    BY <1>2, <1>3, <1>4, <1>5, <2>4 DEF Named, Becomes, CreateAt, JoinAt, LeaveAt, DropAt, Waits
  <2> QED BY <1>1, <1>3, <2>4, <2>5, <2>6, Goes
<1>8. CASE CancelOnLeave(s)
  <2>1. UNCHANGED <<room, own, live, inRoom>> /\ job' = Cancelled({u})
    BY <1>4, <1>8 DEF CancelOnLeave
  <2>2. \A v \in Guests \ {u} : Followed(v)'
    <3>1. \A v \in Guests \ {u} : job'[v] = job[v]
      BY <2>1 DEF Cancelled, Guests
    <3> QED BY <1>1, <1>5, <1>6, <2>1, <3>1, OthersKept DEF SocketsOK, room
  <2>3. PICK p : Goto(s, p) /\ Becomes(s, p, "l_forget")
    <3>1. Becomes(s, [proc[s] EXCEPT !.at = "l_forget"], "l_forget")
      BY <1>5 DEF Becomes, Execs
    <3> QED BY <1>8, <3>1 DEF CancelOnLeave
  <2>4. u \in Guests => u \notin parts'
    BY <1>3, <1>4, <1>8, <2>1 DEF CancelOnLeave, At, Law, ItsGuest, room
  <2>5. Law(p)'
    BY <1>4, <1>6, <2>1, <2>2, <2>3, <2>4
       DEF Becomes, Law, RoomLaw, OthersFollowed, ItsGuest, JoinAt, room
  <2>6. Named(p) /\ p.at \notin Waits
    BY <1>2, <1>3, <1>4, <1>5, <2>3 DEF Named, Becomes, CreateAt, JoinAt, LeaveAt, DropAt, Waits
  <2> QED BY <1>1, <1>3, <2>3, <2>5, <2>6, Goes
<1>9. CASE Forget(s)
  <2>1. UNCHANGED <<room, job, live, inRoom>> /\ own' = [own EXCEPT ![u] = NoOwner]
    BY <1>4, <1>9 DEF Forget
  <2>2. \A v \in Guests \ {u} : Followed(v)'
    <3>1. \A v \in Guests \ {u} : own'[v] = own[v]
      BY <1>1, <2>1 DEF StoresOK, Guests
    <3> QED BY <1>1, <1>5, <1>6, <2>1, <3>1, OthersKept DEF SocketsOK, room
  <2>3. PICK p : Goto(s, p) /\ Becomes(s, p, "l_untag")
    <3>1. Becomes(s, [proc[s] EXCEPT !.at = "l_untag"], "l_untag")
      BY <1>5 DEF Becomes, Execs
    <3> QED BY <1>9, <3>1 DEF Forget
  <2>4. u \in Guests => u \notin parts'
    BY <1>3, <1>4, <1>9, <2>1 DEF Forget, At, Law, ItsGuest, room
  <2>5. Law(p)'
    BY <1>4, <1>6, <2>1, <2>2, <2>3, <2>4
       DEF Becomes, Law, RoomLaw, OthersFollowed, ItsGuest, JoinAt, room
  <2>6. Named(p) /\ p.at \notin Waits
    BY <1>2, <1>3, <1>4, <1>5, <2>3 DEF Named, Becomes, CreateAt, JoinAt, LeaveAt, DropAt, Waits
  <2> QED BY <1>1, <1>3, <2>3, <2>5, <2>6, Goes
<1>10. CASE Untag(s)
  <2>1. UNCHANGED <<room, job, own, live>> /\ inRoom' = inRoom \ {x} /\ Done(s)
    BY <1>4, <1>10 DEF Untag
  <2>2. \A v \in Guests \ {u} : Followed(v)'
    BY <1>1, <1>5, <1>6, <2>1, OthersKept DEF SocketsOK, room
  <2>3. u \in Guests => u \notin parts'
    BY <1>3, <1>4, <1>10, <2>1 DEF Untag, At, Law, ItsGuest, room
  <2>4. \A v \in Guests : Followed(v)'
    BY <2>2, <2>3 DEF Followed
  <2> QED BY <1>1, <1>3, <1>6, <2>1, <2>4, Ends DEF room
<1> QED BY <1>7, <1>8, <1>9, <1>10

\* The steps of join_group_call: the account has a seat once its socket, which
\* is connected, is about to enter the room.
LEMMA JoinInMaps ==
  ASSUME IInv, InMaps, ~shared, NEW s \in Slots,
         RingLate(s) \/ ClaimRoom(s) \/ JoinRoom(s) \/ CancelOnReturn(s) \/ Enter(s)
  PROVE  InMaps'
<1>1. RunsOK /\ RoomOK /\ StoresOK /\ SocketsOK /\ Alone
  BY Parts DEF InMaps
<1>2. proc[s].at \in JoinAt /\ loop \in {None, s}
  BY DEF RingLate, ClaimRoom, JoinRoom, CancelOnReturn, Enter, At, JoinAt
<1>3. loop = s /\ OthersWait(s) /\ Law(proc[s]) /\ Named(proc[s])
  BY <1>2, Turn DEF Waits, JoinAt
<1>4. PICK u, x : u = proc[s].u /\ x = proc[s].x
  OBVIOUS
<1>5. u \in Users /\ x \in Sockets /\ UserOf[x] = u /\ proc[s] \in Execs
  BY <1>2, <1>3, <1>4, ItsAccount DEF JoinAt
<1>6. /\ parts # {} => meta.exists
      /\ tomb => parts = {}
      /\ \A v \in Guests \ {u} : Followed(v)
      /\ u \in Guests => x \in live
  BY <1>2, <1>3, <1>4 DEF Law, RoomLaw, OthersFollowed, ItsGuest, JoinAt
<1>7. ASSUME NEW p, NEW a \in JoinAt, Becomes(s, p, a) PROVE Named(p) /\ p.at \notin Waits
  BY <1>2, <1>3, <1>4, <1>5, <1>7 DEF Named, Becomes, CreateAt, JoinAt, LeaveAt, DropAt, Waits
<1>8. CASE RingLate(s)
  <2>1. /\ UNCHANGED <<room, job, live, inRoom>>
        /\ own' = [own EXCEPT ![u] = [state |-> "ringing", sock |-> NoSocket]]
    BY <1>4, <1>8 DEF RingLate
  <2>2. own'[u].sock = NoSocket /\ \A v \in Guests \ {u} : own'[v] = own[v]
    BY <1>1, <1>5, <2>1 DEF StoresOK, Guests
  <2>3. \A v \in Guests \ {u} : Followed(v)'
    BY <1>1, <1>5, <1>6, <2>1, <2>2, OthersKept DEF SocketsOK, room
  <2>4. u \in Guests => Followed(u)'
    <3>1. u \in Guests => Followed(u)
      BY <1>3, <1>4, <1>8 DEF RingLate, At, Law, ItsGuest
    <3>2. Stays(u) => Stays(u)'
      BY <2>1 DEF Stays, Occupied, Waited, room
    <3> QED BY <2>1, <2>2, <3>1, <3>2 DEF Followed, Tracked, room
  <2>5. PICK p : Goto(s, p) /\ Becomes(s, p, "j_claim")
    <3>1. Becomes(s, [proc[s] EXCEPT !.at = "j_claim"], "j_claim")
      BY <1>5 DEF Becomes, Execs
    <3> QED BY <1>8, <3>1 DEF RingLate
  <2>6. Law(p)'
    BY <1>4, <1>6, <2>1, <2>3, <2>4, <2>5
       DEF Becomes, Law, RoomLaw, OthersFollowed, ItsGuest, JoinAt, room
  <2> QED BY <1>1, <1>3, <1>7, <2>5, <2>6, Goes DEF JoinAt
<1>9. CASE ClaimRoom(s)
  <2>1. UNCHANGED <<room, job, live, inRoom>>
    BY <1>9 DEF ClaimRoom
  <2>2. u \in Guests => Followed(u)
    BY <1>3, <1>4, <1>9 DEF ClaimRoom, At, Law, ItsGuest
  <2>3. CASE own' = own /\ Done(s)
    <3>1. \A v \in Guests : Followed(v)'
      BY <1>6, <2>1, <2>2, <2>3 DEF Followed, Stays, Tracked, Occupied, Waited, room
    <3> QED BY <1>1, <1>3, <1>6, <2>1, <2>3, <3>1, Ends DEF room
  <2>4. CASE /\ own' = [own EXCEPT ![u] = [state |-> "active", sock |-> x]]
             /\ Goto(s, [proc[s] EXCEPT !.at = "j_join"])
    <3>1. own'[u].sock = x /\ \A v \in Guests \ {u} : own'[v] = own[v]
      BY <1>1, <1>5, <2>4 DEF StoresOK, Guests
    <3>2. \A v \in Guests \ {u} : Followed(v)'
      BY <1>1, <1>5, <1>6, <2>1, <3>1, OthersKept DEF SocketsOK, room
    <3>3. u \in Guests => (u \in parts' => Stays(u)')
      BY <2>1, <2>2 DEF Followed, Stays, Occupied, Waited, room
    <3>4. PICK p : Goto(s, p) /\ Becomes(s, p, "j_join")
      <4>1. Becomes(s, [proc[s] EXCEPT !.at = "j_join"], "j_join")
        BY <1>5 DEF Becomes, Execs
      <4> QED BY <2>4, <4>1
    <3>5. Law(p)'
      BY <1>4, <1>6, <2>1, <3>1, <3>2, <3>3, <3>4
         DEF Becomes, Law, RoomLaw, OthersFollowed, ItsGuest, JoinAt, room
    <3> QED BY <1>1, <1>3, <1>7, <3>4, <3>5, Goes DEF JoinAt
  <2> QED BY <1>4, <1>9, <2>3, <2>4 DEF ClaimRoom
<1>10. CASE JoinRoom(s)
  <2>1. UNCHANGED <<job, own, live, inRoom>>
    BY <1>10 DEF JoinRoom
  <2>2. u \in Guests => own[u].sock = x /\ (u \in parts => Stays(u))
    BY <1>3, <1>4, <1>10 DEF JoinRoom, At, Law, ItsGuest
  <2>3. CASE tomb \/ Full(u)
    <3>1. /\ UNCHANGED <<parts, grace, tomb>> /\ Done(s) /\ u \notin parts
          /\ meta' = meta \/ meta'.exists
      BY <1>1, <1>4, <1>6, <1>10, <2>3 DEF JoinRoom, Full, room, RoomOK, Metas
    <3>2. \A v \in Guests \ {u} : Followed(v)'
      BY <1>1, <1>5, <1>6, <2>1, <3>1, OthersKept DEF SocketsOK
    <3>3. \A v \in Guests : Followed(v)'
      BY <3>1, <3>2 DEF Followed
    <3> QED BY <1>1, <1>3, <1>6, <3>1, <3>3, Ends
  <2>4. CASE ~tomb /\ ~Full(u)
    <3>1. /\ parts' = parts \union {u} /\ grace' = [grace EXCEPT ![u] = 0]
          /\ meta'.exists /\ ~tomb'
      BY <1>1, <1>4, <1>10, <2>4 DEF JoinRoom, RoomOK, Metas
    <3>2. \A v \in Guests \ {u} : Followed(v)'
      <4>1. \A v \in Guests \ {u} : grace'[v] = grace[v]
        BY <1>1, <3>1 DEF RoomOK, Guests
      <4> QED BY <1>1, <1>5, <1>6, <2>1, <3>1, <4>1, OthersKept DEF SocketsOK
    <3>3. PICK p, a : a \in {"j_cancel", "j_tag"} /\ Goto(s, p) /\ Becomes(s, p, a)
      <4>1. PICK a : a = IF grace[u] # 0 THEN "j_cancel" ELSE "j_tag"
        OBVIOUS
      <4>2. Becomes(s, [proc[s] EXCEPT !.at = a], a)
        BY <1>5 DEF Becomes, Execs
      <4>3. Goto(s, [proc[s] EXCEPT !.at = a])
        BY <1>4, <1>10, <2>4, <4>1 DEF JoinRoom
      <4> QED BY <4>1, <4>2, <4>3
    <3>4. Law(p)'
      BY <1>4, <1>6, <2>1, <2>2, <3>1, <3>2, <3>3
         DEF Becomes, Law, RoomLaw, OthersFollowed, ItsGuest, JoinAt
    <3> QED BY <1>1, <1>3, <1>7, <3>3, <3>4, Goes DEF JoinAt
  <2> QED BY <2>3, <2>4
<1>11. CASE CancelOnReturn(s)
  <2>1. UNCHANGED <<room, own, live, inRoom>> /\ job' = Cancelled({u})
    BY <1>4, <1>11 DEF CancelOnReturn
  <2>2. \A v \in Guests \ {u} : Followed(v)'
    <3>1. \A v \in Guests \ {u} : job'[v] = job[v]
      BY <2>1 DEF Cancelled, Guests
    <3> QED BY <1>1, <1>5, <1>6, <2>1, <3>1, OthersKept DEF SocketsOK, room
  <2>3. PICK p : Goto(s, p) /\ Becomes(s, p, "j_tag")
    <3>1. Becomes(s, [proc[s] EXCEPT !.at = "j_tag"], "j_tag")
      BY <1>5 DEF Becomes, Execs
    <3> QED BY <1>11, <3>1 DEF CancelOnReturn
  <2>4. u \in Guests => own[u].sock = x
    BY <1>3, <1>4, <1>11 DEF CancelOnReturn, At, Law, ItsGuest
  <2>5. Law(p)'
    BY <1>4, <1>6, <2>1, <2>2, <2>3, <2>4
       DEF Becomes, Law, RoomLaw, OthersFollowed, ItsGuest, JoinAt, room
  <2> QED BY <1>1, <1>3, <1>7, <2>3, <2>5, Goes DEF JoinAt
<1>12. CASE Enter(s)
  <2>1. UNCHANGED <<room, job, own, live>> /\ inRoom' = inRoom \union {x} /\ Done(s)
    BY <1>4, <1>12 DEF Enter
  <2>2. \A v \in Guests \ {u} : Followed(v)'
    BY <1>1, <1>5, <1>6, <2>1, OthersKept DEF SocketsOK, room
  <2>3. u \in Guests => own[u].sock = x
    BY <1>3, <1>4, <1>12 DEF Enter, At, Law, ItsGuest
  <2>4. u \in Guests => Followed(u)'
    BY <1>5, <1>6, <2>1, <2>3 DEF Followed, Stays, Tracked, Occupied
  <2>5. \A v \in Guests : Followed(v)'
    BY <2>2, <2>4
  <2> QED BY <1>1, <1>3, <1>6, <2>1, <2>5, Ends DEF room
<1> QED BY <1>8, <1>9, <1>10, <1>11, <1>12

\* The steps of disconnect: a guest who was in the room is forgotten, then
\* waited for; one who has a newer socket there is left alone.
LEMMA DropInMaps ==
  ASSUME IInv, InMaps, ~shared, NEW s \in Slots,
         ReadOwner(s) \/ ForgetDropped(s) \/ ArmGrace(s) \/ CancelOldGrace(s) \/ EnqueueGrace(s)
  PROVE  InMaps'
<1>1. RunsOK /\ RoomOK /\ StoresOK /\ SocketsOK /\ Alone
  BY Parts DEF InMaps
<1>2. proc[s].at \in DropAt /\ loop \in {None, s}
  BY DEF ReadOwner, ForgetDropped, ArmGrace, CancelOldGrace, EnqueueGrace, At, DropAt
<1>3. loop = s /\ OthersWait(s) /\ Law(proc[s]) /\ Named(proc[s])
  BY <1>2, Turn DEF Waits, DropAt
<1>4. PICK u, x, k : u = proc[s].u /\ x = proc[s].x /\ k = proc[s].token
  OBVIOUS
<1>5. u \in Users /\ x \in Sockets /\ UserOf[x] = u /\ proc[s] \in Execs
  BY <1>2, <1>3, <1>4, ItsAccount DEF DropAt
<1>6. /\ parts # {} => meta.exists
      /\ tomb => parts = {}
      /\ \A v \in Guests \ {u} : Followed(v)
  BY <1>2, <1>3, <1>4 DEF Law, RoomLaw, OthersFollowed, DropAt
<1>7. ASSUME NEW p, NEW a \in DropAt, Becomes(s, p, a) PROVE Named(p) /\ p.at \notin Waits
  BY <1>2, <1>3, <1>4, <1>5, <1>7 DEF Named, Becomes, CreateAt, JoinAt, LeaveAt, DropAt, Waits
<1>8. CASE ReadOwner(s)
  <2>1. UNCHANGED <<room, job, own, live>> /\ inRoom' = inRoom \ {x}
    BY <1>4, <1>8 DEF ReadOwner
  <2>2. \A v \in Guests \ {u} : Followed(v)'
    BY <1>1, <1>5, <1>6, <2>1, OthersKept DEF SocketsOK, room
  <2>3. CASE (x \notin inRoom \/ StaleSocket(own[u], x)) /\ Done(s)
    <3>1. u \in Guests /\ u \in parts => /\ x \in inRoom \/ (Stays(u) /\ own[u].sock # x)
                                         /\ own[u].sock = x \/ Tracked(u)
      BY <1>3, <1>4, <1>8 DEF ReadOwner, At, Law, ItsGuest
    <3>2. CASE x \notin inRoom
      <4>1. inRoom' = inRoom
        BY <2>1, <3>2
      <4>2. u \in Guests /\ u \in parts => Stays(u) /\ Tracked(u)
        BY <3>1, <3>2
      <4>3. (Stays(u) => Stays(u)') /\ (Tracked(u) => Tracked(u)')
        BY <2>1, <4>1 DEF Stays, Tracked, Occupied, Waited, room
      <4>4. u \in Guests => Followed(u)'
        BY <2>1, <4>2, <4>3 DEF Followed, room
      <4>5. \A v \in Guests : Followed(v)'
        BY <2>2, <4>4
      <4> QED BY <1>1, <1>3, <1>6, <2>1, <2>3, <4>5, Ends DEF room
    <3>3. CASE x \in inRoom /\ StaleSocket(own[u], x)
      <4>1. u \in Guests /\ u \in parts =>
              own[u].sock \in live \intersect inRoom /\ UserOf[own[u].sock] = u /\ own[u].sock # x
        BY <3>1, <3>3 DEF StaleSocket, Tracked
      <4>2. u \in Guests => Followed(u)'
        BY <2>1, <4>1 DEF Followed, Stays, Tracked, Occupied, room
      <4>3. \A v \in Guests : Followed(v)'
        BY <2>2, <4>2
      <4> QED BY <1>1, <1>3, <1>6, <2>1, <2>3, <4>3, Ends DEF room
    <3> QED BY <2>3, <3>2, <3>3
  <2>4. CASE Goto(s, [proc[s] EXCEPT !.at = "d_forget"])
    <3>1. PICK p : Goto(s, p) /\ Becomes(s, p, "d_forget")
      <4>1. Becomes(s, [proc[s] EXCEPT !.at = "d_forget"], "d_forget")
        BY <1>5 DEF Becomes, Execs
      <4> QED BY <2>4, <4>1
    <3>2. Law(p)'
      BY <1>4, <1>6, <2>1, <2>2, <3>1
         DEF Becomes, Law, RoomLaw, OthersFollowed, ItsGuest, JoinAt, room
    <3> QED BY <1>1, <1>3, <1>7, <3>1, <3>2, Goes DEF DropAt
  <2> QED BY <1>4, <1>8, <2>3, <2>4 DEF ReadOwner
<1>9. CASE ForgetDropped(s)
  <2>1. UNCHANGED <<room, job, live, inRoom>> /\ own' = [own EXCEPT ![u] = NoOwner]
    BY <1>4, <1>9 DEF ForgetDropped
  <2>2. own'[u].sock = NoSocket /\ \A v \in Guests \ {u} : own'[v] = own[v]
    BY <1>1, <1>5, <2>1 DEF StoresOK, Guests, NoOwner
  <2>3. \A v \in Guests \ {u} : Followed(v)'
    BY <1>1, <1>5, <1>6, <2>1, <2>2, OthersKept DEF SocketsOK, room
  <2>4. PICK p : Goto(s, p) /\ Becomes(s, p, "d_arm")
    <3>1. Becomes(s, [proc[s] EXCEPT !.at = "d_arm"], "d_arm")
      BY <1>5 DEF Becomes, Execs
    <3> QED BY <1>9, <3>1 DEF ForgetDropped
  <2>5. Law(p)'
    BY <1>4, <1>6, <2>1, <2>2, <2>3, <2>4
       DEF Becomes, Law, RoomLaw, OthersFollowed, ItsGuest, JoinAt, room
  <2> QED BY <1>1, <1>3, <1>7, <2>4, <2>5, Goes DEF DropAt
<1>10. CASE ArmGrace(s)
  <2>1. UNCHANGED <<job, own, live, inRoom>>
    BY <1>10 DEF ArmGrace
  <2>2. u \in Guests => own[u].sock = NoSocket
    BY <1>3, <1>4, <1>10 DEF ArmGrace, At, Law, ItsGuest
  <2>3. CASE ~meta.exists \/ u \notin parts
    <3>1. UNCHANGED room /\ Done(s) /\ u \notin parts
      BY <1>4, <1>6, <1>10, <2>3 DEF ArmGrace
    <3>2. \A v \in Guests \ {u} : Followed(v)'
      BY <1>1, <1>5, <1>6, <2>1, <3>1, OthersKept DEF SocketsOK, room
    <3>3. \A v \in Guests : Followed(v)'
      BY <3>1, <3>2 DEF Followed, room
    <3> QED BY <1>1, <1>3, <1>6, <3>1, <3>3, Ends DEF room
  <2>4. CASE meta.exists /\ u \in parts
    <3>1. PICK n : n = seq + 1
      OBVIOUS
    <3>2. /\ grace' = [grace EXCEPT ![u] = n] /\ UNCHANGED <<meta, parts, tomb>>
          /\ Goto(s, [proc[s] EXCEPT !.at = "d_cancel", !.token = n])
      BY <1>4, <1>10, <2>4, <3>1 DEF ArmGrace
    <3>3. grace'[u] = n /\ \A v \in Guests \ {u} : grace'[v] = grace[v]
      BY <1>1, <1>5, <3>2 DEF RoomOK, Guests
    <3>4. \A v \in Guests \ {u} : Followed(v)'
      BY <1>1, <1>5, <1>6, <2>1, <3>2, <3>3, OthersKept DEF SocketsOK
    <3>5. PICK p : Goto(s, p) /\ Becomes(s, p, "d_cancel") /\ p.token = n
      <4>1. LET q == [proc[s] EXCEPT !.at = "d_cancel", !.token = n]
            IN  Becomes(s, q, "d_cancel") /\ q.token = n
        BY <1>5 DEF Becomes, Execs
      <4> QED BY <3>2, <4>1
    <3>6. Law(p)'
      BY <1>4, <1>6, <2>1, <2>2, <3>2, <3>3, <3>4, <3>5
         DEF Becomes, Law, RoomLaw, OthersFollowed, ItsGuest, JoinAt
    <3> QED BY <1>1, <1>3, <1>7, <3>5, <3>6, Goes DEF DropAt
  <2> QED BY <2>3, <2>4
<1>11. CASE CancelOldGrace(s)
  <2>1. UNCHANGED <<room, own, live, inRoom>> /\ job' = Cancelled({u})
    BY <1>4, <1>11 DEF CancelOldGrace
  <2>2. ~job'[u].armed /\ \A v \in Guests \ {u} : job'[v] = job[v]
    BY <1>5, <2>1 DEF Cancelled, Guests, NoJob
  <2>3. \A v \in Guests \ {u} : Followed(v)'
    BY <1>1, <1>5, <1>6, <2>1, <2>2, OthersKept DEF SocketsOK, room
  <2>4. PICK p : Goto(s, p) /\ Becomes(s, p, "d_enqueue") /\ p.token = k
    <3>1. LET q == [proc[s] EXCEPT !.at = "d_enqueue"]
          IN  Becomes(s, q, "d_enqueue") /\ q.token = k
      BY <1>4, <1>5 DEF Becomes, Execs
    <3> QED BY <1>11, <3>1 DEF CancelOldGrace
  <2>5. u \in Guests => own[u].sock = NoSocket /\ grace[u] = k
    BY <1>3, <1>4, <1>11 DEF CancelOldGrace, At, Law, ItsGuest
  <2>6. Law(p)'
    BY <1>4, <1>6, <2>1, <2>2, <2>3, <2>4, <2>5
       DEF Becomes, Law, RoomLaw, OthersFollowed, ItsGuest, JoinAt, room
  <2> QED BY <1>1, <1>3, <1>7, <2>4, <2>6, Goes DEF DropAt
<1>12. CASE EnqueueGrace(s)
  <2>1. UNCHANGED <<room, own, live, inRoom>> /\ Done(s)
    BY <1>12 DEF EnqueueGrace
  <2>2. u \in Guests => own[u].sock = NoSocket /\ grace[u] = k /\ ~job[u].armed
    BY <1>3, <1>4, <1>12 DEF EnqueueGrace, At, Law, ItsGuest
  <2>3. k # 0
    BY <1>1, <1>4, <1>12, Running DEF EnqueueGrace, At
  <2>4. u \in Guests => job' = [job EXCEPT ![u] = [armed |-> TRUE, token |-> k, lock |-> None]]
    BY <1>4, <1>12, <2>2 DEF EnqueueGrace
  <2>5. \A v \in Guests \ {u} : job'[v] = job[v]
    BY <1>1, <1>4, <1>12 DEF EnqueueGrace, StoresOK, Guests
  <2>6. \A v \in Guests \ {u} : Followed(v)'
    BY <1>1, <1>5, <1>6, <2>1, <2>5, OthersKept DEF SocketsOK, room
  <2>7. u \in Guests => Followed(u)'
    BY <1>1, <1>5, <2>1, <2>2, <2>3, <2>4 DEF Followed, Stays, Waited, Tracked, StoresOK, room
  <2>8. \A v \in Guests : Followed(v)'
    BY <2>6, <2>7
  <2> QED BY <1>1, <1>3, <1>6, <2>1, <2>8, Ends DEF room
<1> QED BY <1>8, <1>9, <1>10, <1>11, <1>12

\* The steps of an expiry: a guest who is not in the room loses his seat,
\* because the timer that runs is that of his grace.
LEMMA ExpiryInMaps ==
  ASSUME IInv, InMaps, ~shared, NEW s \in Slots,
         ExpireGrace(s) \/ CancelExpired(s) \/ DeleteRow(s)
  PROVE  InMaps'
<1>1. RunsOK /\ RoomOK /\ StoresOK /\ SocketsOK /\ Alone
  BY Parts DEF InMaps
<1>2. proc[s].at \in ExpiryAt /\ loop \in {None, s}
  BY DEF ExpireGrace, CancelExpired, DeleteRow, At, ExpiryAt
<1>3. loop = s /\ OthersWait(s) /\ Law(proc[s]) /\ Named(proc[s])
  BY <1>2, Turn DEF Waits, ExpiryAt
<1>4. PICK u, k : u = proc[s].u /\ k = proc[s].token
  OBVIOUS
<1>5. u \in Users /\ NoSocket \notin Sockets /\ proc[s] \in Execs
  BY <1>2, <1>3, <1>4, ItsAccount, GroupRoomsAssumption DEF ExpiryAt
<1>6. /\ parts # {} => meta.exists
      /\ tomb => parts = {}
      /\ \A v \in Guests \ {u} : Followed(v)
  BY <1>2, <1>3, <1>4 DEF Law, RoomLaw, OthersFollowed, ExpiryAt
<1>7. ASSUME NEW p, NEW a \in ExpiryAt, Becomes(s, p, a) PROVE Named(p) /\ p.at \notin Waits
  BY <1>7 DEF Named, Becomes, CreateAt, JoinAt, LeaveAt, DropAt, ExpiryAt, Waits
<1>8. CASE ExpireGrace(s)
  <2>1. UNCHANGED <<job, own, live, inRoom>>
    BY <1>8 DEF ExpireGrace
  <2>2. u \in Guests /\ u \in parts => Tracked(u) /\ (Occupied(u) \/ grace[u] = k)
    BY <1>3, <1>4, <1>8 DEF ExpireGrace, At, Law, ItsGuest
  <2>3. CASE Consumes(u, k)
    <3>1. Retire(u) /\ Goto(s, [proc[s] EXCEPT !.at = "w_cancel"])
      BY <1>4, <1>8, <2>3 DEF ExpireGrace
    <3>2. /\ u \notin parts' /\ parts' \subseteq parts /\ tomb' = tomb
          /\ parts' # {} => meta'.exists /\ \A v \in Users \ {u} : grace'[v] = grace[v]
      BY <1>1, <1>5, <1>6, <3>1 DEF Retire, RightGivenBack, RoomOK, Metas
    <3>3. \A v \in Guests \ {u} : Followed(v)'
      <4>1. CASE parts' = {}
        BY <4>1, NobodyElse
      <4>2. CASE parts' # {}
        BY <1>1, <1>5, <1>6, <2>1, <3>2, <4>2, OthersKept DEF SocketsOK, Guests
      <4> QED BY <4>1, <4>2
    <3>4. PICK p : Goto(s, p) /\ Becomes(s, p, "w_cancel")
      <4>1. Becomes(s, [proc[s] EXCEPT !.at = "w_cancel"], "w_cancel")
        BY <1>5 DEF Becomes, Execs
      <4> QED BY <3>1, <4>1
    <3>5. Law(p)'
      BY <1>4, <1>6, <3>2, <3>3, <3>4
         DEF Becomes, Law, RoomLaw, OthersFollowed, ItsGuest, JoinAt
    <3> QED BY <1>1, <1>3, <1>7, <3>4, <3>5, Goes DEF ExpiryAt
  <2>4. CASE ~Consumes(u, k)
    <3>1. UNCHANGED room /\ Goto(s, [proc[s] EXCEPT !.at = "w_done"])
      BY <1>4, <1>8, <2>4 DEF ExpireGrace
    <3>2. \A v \in Guests \ {u} : Followed(v)'
      BY <1>1, <1>5, <1>6, <2>1, <3>1, OthersKept DEF SocketsOK, room
    <3>3. u \in Guests => (u \in parts' => Tracked(u)' /\ Occupied(u)')
      BY <2>1, <2>2, <2>4, <3>1 DEF Consumes, Tracked, Occupied, room
    <3>4. PICK p : Goto(s, p) /\ Becomes(s, p, "w_done")
      <4>1. Becomes(s, [proc[s] EXCEPT !.at = "w_done"], "w_done")
        BY <1>5 DEF Becomes, Execs
      <4> QED BY <3>1, <4>1
    <3>5. Law(p)'
      BY <1>4, <1>6, <3>1, <3>2, <3>3, <3>4
         DEF Becomes, Law, RoomLaw, OthersFollowed, ItsGuest, JoinAt, room
    <3> QED BY <1>1, <1>3, <1>7, <3>4, <3>5, Goes DEF ExpiryAt
  <2> QED BY <2>3, <2>4
<1>9. CASE CancelExpired(s)
  <2>1. UNCHANGED <<room, own, live, inRoom>> /\ job' = Cancelled({u})
    BY <1>4, <1>9 DEF CancelExpired
  <2>2. \A v \in Guests \ {u} : Followed(v)'
    <3>1. \A v \in Guests \ {u} : job'[v] = job[v]
      BY <2>1 DEF Cancelled, Guests
    <3> QED BY <1>1, <1>5, <1>6, <2>1, <3>1, OthersKept DEF SocketsOK, room
  <2>3. PICK p : Goto(s, p) /\ Becomes(s, p, "w_done")
    <3>1. Becomes(s, [proc[s] EXCEPT !.at = "w_done"], "w_done")
      BY <1>5 DEF Becomes, Execs
    <3> QED BY <1>9, <3>1 DEF CancelExpired
  <2>4. u \in Guests => u \notin parts'
    BY <1>3, <1>4, <1>9, <2>1 DEF CancelExpired, At, Law, ItsGuest, room
  <2>5. Law(p)'
    BY <1>4, <1>6, <2>1, <2>2, <2>3, <2>4
       DEF Becomes, Law, RoomLaw, OthersFollowed, ItsGuest, JoinAt, room
  <2> QED BY <1>1, <1>3, <1>7, <2>3, <2>5, Goes DEF ExpiryAt
<1>10. CASE DeleteRow(s)
  <2>1. UNCHANGED <<room, own, live, inRoom>> /\ Done(s)
    BY <1>10 DEF DeleteRow
  <2>2. \A v \in Guests \ {u} : job'[v] = job[v]
    BY <1>4, <1>10 DEF DeleteRow, Cancelled, Guests
  <2>3. \A v \in Guests \ {u} : Followed(v)'
    BY <1>1, <1>5, <1>6, <2>1, <2>2, OthersKept DEF SocketsOK, room
  <2>4. u \in Guests => (u \in parts => Tracked(u) /\ Occupied(u))
    BY <1>3, <1>4, <1>10 DEF DeleteRow, At, Law, ItsGuest
  <2>5. u \in Guests => Followed(u)'
    BY <2>1, <2>4 DEF Followed, Stays, Tracked, Occupied, room
  <2>6. \A v \in Guests : Followed(v)'
    BY <2>3, <2>5
  <2> QED BY <1>1, <1>3, <1>6, <2>1, <2>6, Ends DEF room
<1> QED BY <1>8, <1>9, <1>10

\* The steps of create_group_call once it has the turn: the room is emptied,
\* then holds the organiser alone.
LEMMA CreateInMaps ==
  ASSUME IInv, InMaps, ~shared, NEW s \in Slots,
         \/ CancelOld(s) \/ Wipe(s) \/ Announce(s) \/ SeatOrganiser(s)
         \/ OwnRoom(s) \/ RingTargets(s)
  PROVE  InMaps'
<1>1. RunsOK /\ RoomOK /\ Alone
  BY Parts DEF InMaps
<1>2. proc[s].at \in CreateAt \ {"c_check"} /\ loop \in {None, s}
  BY DEF CancelOld, Wipe, Announce, SeatOrganiser, OwnRoom, RingTargets, At, CreateAt
<1>3. loop = s /\ OthersWait(s) /\ Law(proc[s]) /\ Named(proc[s])
  BY <1>2, Turn DEF Waits, CreateAt
<1>4. proc[s].u = Organiser /\ proc[s] \in Execs /\ Organiser \notin Guests
  BY <1>2, <1>3, ItsAccount DEF Named, CreateAt, Guests
<1>5. RoomLaw(proc[s])
  BY <1>3 DEF Law
<1>6. ASSUME NEW p, NEW a \in CreateAt \ {"c_check"}, Becomes(s, p, a), Goto(s, p), RoomLaw(p)',
             a # "c_del" => parts' \subseteq {Organiser}
      PROVE  InMaps'
  <2>1. Named(p) /\ p.at \notin Waits
    BY <1>2, <1>3, <1>4, <1>6 DEF Named, Becomes, CreateAt, JoinAt, LeaveAt, DropAt, Waits
  <2>2. p.at # "c_del" => \A v \in Guests : Followed(v)'
    BY <1>6, NobodyElse DEF Becomes
  <2>3. Law(p)'
    BY <1>4, <1>6, <2>2 DEF Law, OthersFollowed, Becomes
  <2> QED BY <1>1, <1>3, <1>6, <2>1, <2>3, Goes
<1>7. CASE CancelOld(s)
  <2>1. PICK p : Goto(s, p) /\ Becomes(s, p, "c_del")
    <3>1. Becomes(s, [proc[s] EXCEPT !.at = "c_del", !.todo = {}], "c_del")
      BY <1>4 DEF Becomes, Execs
    <3> QED BY <1>7, <3>1 DEF CancelOld
  <2>2. RoomLaw(p)'
    BY <1>5, <1>7, <2>1 DEF CancelOld, At, RoomLaw, Becomes, room
  <2> QED BY <1>6, <2>1, <2>2 DEF CreateAt
<1>8. CASE Wipe(s)
  <2>1. PICK p : Goto(s, p) /\ Becomes(s, p, "c_meta")
    <3>1. Becomes(s, [proc[s] EXCEPT !.at = "c_meta"], "c_meta")
      BY <1>4 DEF Becomes, Execs
    <3> QED BY <1>8, <3>1 DEF Wipe
  <2>2. parts' = {} /\ ~tomb'
    BY <1>8 DEF Wipe
  <2>3. RoomLaw(p)'
    BY <2>1, <2>2 DEF RoomLaw, Becomes
  <2> QED BY <1>6, <2>1, <2>2, <2>3 DEF CreateAt
<1>9. CASE Announce(s)
  <2>1. PICK p : Goto(s, p) /\ Becomes(s, p, "c_part")
    <3>1. Becomes(s, [proc[s] EXCEPT !.at = "c_part", !.video = FALSE], "c_part")
      BY <1>4 DEF Becomes, Execs
    <3> QED BY <1>9, <3>1 DEF Announce
  <2>2. /\ meta'.exists /\ parts' = parts /\ tomb' = tomb
        /\ parts \subseteq {Organiser} /\ ~tomb
    BY <1>5, <1>9 DEF Announce, At, RoomLaw
  <2>3. RoomLaw(p)'
    BY <2>1, <2>2 DEF RoomLaw, Becomes
  <2> QED BY <1>6, <2>1, <2>2, <2>3 DEF CreateAt
<1>10. CASE SeatOrganiser(s)
  <2>1. PICK p : Goto(s, p) /\ Becomes(s, p, "c_own")
    <3>1. Becomes(s, [proc[s] EXCEPT !.at = "c_own"], "c_own")
      BY <1>4 DEF Becomes, Execs
    <3> QED BY <1>10, <3>1 DEF SeatOrganiser
  <2>2. /\ meta' = meta /\ parts' = parts \union {Organiser} /\ tomb' = tomb
        /\ parts \subseteq {Organiser} /\ ~tomb /\ meta.exists
    BY <1>5, <1>10 DEF SeatOrganiser, At, RoomLaw
  <2>3. RoomLaw(p)'
    BY <2>1, <2>2 DEF RoomLaw, Becomes
  <2> QED BY <1>6, <2>1, <2>2, <2>3 DEF CreateAt
<1>11. CASE OwnRoom(s)
  <2>1. PICK p : Goto(s, p) /\ Becomes(s, p, "c_ring")
    <3>1. Becomes(s, [proc[s] EXCEPT !.at = "c_ring"], "c_ring")
      BY <1>4 DEF Becomes, Execs
    <3> QED BY <1>11, <3>1 DEF OwnRoom
  <2>2. UNCHANGED room /\ parts \subseteq {Organiser}
    BY <1>5, <1>11 DEF OwnRoom, At, RoomLaw
  <2>3. RoomLaw(p)'
    BY <1>5, <1>11, <2>1, <2>2 DEF RoomLaw, Becomes, OwnRoom, At, room
  <2> QED BY <1>6, <2>1, <2>2, <2>3 DEF CreateAt, room
<1>12. CASE RingTargets(s)
  <2>1. UNCHANGED room /\ parts \subseteq {Organiser} /\ Done(s)
    BY <1>5, <1>12 DEF RingTargets, At, RoomLaw
  <2>2. (parts # {} => meta.exists) /\ (tomb => parts = {})
    BY <1>5, <1>12 DEF RingTargets, At, RoomLaw
  <2> QED BY <1>1, <1>3, <2>1, <2>2, NobodyElse, Ends DEF room
<1> QED BY <1>7, <1>8, <1>9, <1>10, <1>11, <1>12

\* The steps of end_group_call: the room is emptied.
LEMMA EndInMaps ==
  ASSUME IInv, InMaps, ~shared, NEW s \in Slots,
         CancelAll(s) \/ Bury(s) \/ Destroy(s) \/ ReleaseRoom(s) \/ UntagLocal(s)
  PROVE  InMaps'
<1>1. RunsOK /\ RoomOK /\ Alone
  BY Parts DEF InMaps
<1>2. proc[s].at \in EndAt /\ loop \in {None, s}
  BY DEF CancelAll, Bury, Destroy, ReleaseRoom, UntagLocal, At, EndAt
<1>3. loop = s /\ OthersWait(s) /\ RoomLaw(proc[s]) /\ proc[s] \in Execs
  BY <1>1, <1>2, Turn DEF Waits, EndAt, Law, RunsOK
<1>4. ASSUME NEW p, NEW a \in EndAt, Becomes(s, p, a), Goto(s, p), RoomLaw(p)',
             a \notin {"e_tomb", "e_del"} => parts' = {}
      PROVE  InMaps'
  <2>1. Named(p) /\ p.at \notin Waits
    BY <1>4 DEF Named, Becomes, CreateAt, JoinAt, LeaveAt, DropAt, EndAt, Waits
  <2>2. p.at \notin {"e_tomb", "e_del"} => \A v \in Guests : Followed(v)'
    BY <1>4, NobodyElse DEF Becomes
  <2>3. ItsGuest(p)'
    BY <1>4 DEF ItsGuest, Becomes, JoinAt, EndAt
  <2>4. Law(p)'
    BY <1>4, <2>2, <2>3 DEF Law, OthersFollowed, Becomes
  <2> QED BY <1>1, <1>3, <1>4, <2>1, <2>4, Goes
<1>5. CASE CancelAll(s)
  <2>1. PICK p : Goto(s, p) /\ Becomes(s, p, "e_tomb")
    <3>1. Becomes(s, [proc[s] EXCEPT !.at = "e_tomb", !.todo = {}], "e_tomb")
      BY <1>3 DEF Becomes, Execs
    <3> QED BY <1>5, <3>1 DEF CancelAll
  <2>2. RoomLaw(p)'
    BY <1>3, <1>5, <2>1 DEF CancelAll, At, RoomLaw, Becomes, room
  <2> QED BY <1>4, <2>1, <2>2 DEF EndAt
<1>6. CASE Bury(s)
  <2>1. PICK p : Goto(s, p) /\ Becomes(s, p, "e_del")
    <3>1. Becomes(s, [proc[s] EXCEPT !.at = "e_del"], "e_del")
      BY <1>3 DEF Becomes, Execs
    <3> QED BY <1>6, <3>1 DEF Bury
  <2>2. RoomLaw(p)'
    BY <1>3, <1>6, <2>1 DEF Bury, At, RoomLaw, Becomes
  <2> QED BY <1>4, <2>1, <2>2 DEF EndAt
<1>7. CASE Destroy(s)
  <2>1. PICK p : Goto(s, p) /\ Becomes(s, p, "e_release")
    <3>1. Becomes(s, [proc[s] EXCEPT !.at = "e_release"], "e_release")
      BY <1>3 DEF Becomes, Execs
    <3> QED BY <1>7, <3>1 DEF Destroy
  <2>2. parts' = {}
    BY <1>7 DEF Destroy
  <2>3. RoomLaw(p)'
    BY <2>1, <2>2 DEF RoomLaw, Becomes
  <2> QED BY <1>4, <2>1, <2>2, <2>3 DEF EndAt
<1>8. CASE ReleaseRoom(s)
  <2>1. PICK p : Goto(s, p) /\ Becomes(s, p, "e_untag")
    <3>1. Becomes(s, [proc[s] EXCEPT !.at = "e_untag"], "e_untag")
      BY <1>3 DEF Becomes, Execs
    <3> QED BY <1>8, <3>1 DEF ReleaseRoom
  <2>2. parts' = {}
    BY <1>3, <1>8 DEF ReleaseRoom, At, RoomLaw, room
  <2>3. RoomLaw(p)'
    BY <2>1, <2>2 DEF RoomLaw, Becomes
  <2> QED BY <1>4, <2>1, <2>2, <2>3 DEF EndAt
<1>9. CASE UntagLocal(s)
  <2>1. parts' = {} /\ Done(s)
    BY <1>3, <1>9 DEF UntagLocal, At, RoomLaw, room
  <2> QED BY <1>1, <1>3, <2>1, NobodyElse, Ends
<1> QED BY <1>5, <1>6, <1>7, <1>8, <1>9

\* Nothing is lost by a step that leaves seats, sockets, graces and rows alone.
LEMMA FollowedStays ==
  ASSUME NEW u, Followed(u), UNCHANGED <<room, job, own, live, inRoom>>
  PROVE  Followed(u)'
<1>1. UNCHANGED <<parts, grace, job, own, live, inRoom>>
  BY DEF room
<1> QED BY <1>1 DEF Followed, Stays, Tracked, Occupied, Waited

\* A handler starts when nobody has the turn; create_group_call gives it back
\* at once, and takes it again when the subscription has been looked at.
LEMMA StartsInMaps ==
  ASSUME IInv, InMaps, ~shared, NEW s \in Slots, Request(s) \/ Check(s)
  PROVE  InMaps'
<1> USE GroupRoomsAssumption
<1>1. RunsOK /\ RoomOK /\ StoresOK /\ SocketsOK /\ Alone
  BY Parts DEF InMaps
<1>2. loop = None /\ proc[s].at \in Waits
  <2>1. CASE Request(s)
    BY <2>1, Starts DEF Free, Waits
  <2>2. CASE Check(s)
    BY <1>1, <2>2 DEF Check, At, Alone, Waits
  <2> QED BY <2>1, <2>2
<1>3. /\ parts # {} => meta.exists
      /\ tomb => parts = {}
      /\ \A u \in Guests : Followed(u)
      /\ OthersWait(s) /\ Named(proc[s])
  BY <1>2, AtRest DEF OthersWait
<1>4. ASSUME NEW x \in Sockets, NEW v \in BOOLEAN, Create(s, x, v) PROVE InMaps'
  <2>1. UNCHANGED <<room, job, own, live, inRoom>>
    BY <1>4 DEF Create
  <2>2. PICK p : Goto(s, p) /\ p.at = "c_check" /\ Named(p)
    <3> DEFINE q == [Idle EXCEPT !.at = "c_check", !.u = Organiser, !.x = x, !.video = v]
    <3>1. q.at = "c_check" /\ q.u = Organiser /\ q.x = x
      BY DEF Idle
    <3>2. Named(q)
      BY <1>4, <3>1 DEF Named, Create
    <3>3. Goto(s, q)
      BY <1>4 DEF Create, Arrive
    <3> HIDE DEF q
    <3> QED BY <3>1, <3>2, <3>3
  <2>3. loop' = None /\ proc'[s] = p /\ \A t \in Slots \ {s} : proc'[t] = proc[t]
    BY <1>1, <2>2 DEF Goto, RunsOK
  <2>4. Alone'
    BY <1>1, <1>2, <2>2, <2>3 DEF Alone, Waits
  <2>5. Ran' = Ran /\ Ran = Idle
    BY <1>2, <2>3 DEF Ran
  <2>6. \A u \in Guests : Followed(u)'
    BY <1>3, <2>1, FollowedStays
  <2>7. Idle.u \notin Guests /\ Idle.at = "idle"
    BY DEF Idle, Guests
  <2>8. Law(Ran)'
    BY <1>3, <2>1, <2>5, <2>6, <2>7 DEF Law, RoomLaw, OthersFollowed, room
  <2> QED BY <2>4, <2>8 DEF InMaps
<1>5. ASSUME NEW x \in Sockets, Join(s, x) PROVE InMaps'
  <2>1. UNCHANGED <<room, job, own, live, inRoom>>
    BY <1>5 DEF Join
  <2>2. PICK p : /\ Goto(s, p) /\ p.at \in {"j_ring", "j_claim"}
                 /\ p.u = UserOf[x] /\ p.x = x
    <3>1. PICK a : a = IF own[UserOf[x]].state = "none" THEN "j_ring" ELSE "j_claim"
      OBVIOUS
    <3>2. PICK q : q = [Idle EXCEPT !.at = a, !.u = UserOf[x], !.x = x]
      OBVIOUS
    <3>3. q.at = a /\ q.u = UserOf[x] /\ q.x = x
      BY <3>2 DEF Idle
    <3>4. Goto(s, q)
      BY <1>5, <3>1, <3>2, Zenon DEF Join, Arrive
    <3> QED BY <3>1, <3>3, <3>4
  <2>3. \A u \in Guests : Followed(u)'
    BY <1>3, <2>1, FollowedStays
  <2>4. x \in live'
    BY <1>5, <2>1 DEF Join
  <2>5. Law(p)'
    BY <1>3, <2>1, <2>2, <2>3, <2>4
       DEF Law, RoomLaw, OthersFollowed, ItsGuest, JoinAt, room
  <2>6. Named(p) /\ p.at \notin Waits
    BY <2>2 DEF Named, CreateAt, JoinAt, Waits
  <2> QED BY <1>1, <1>3, <2>2, <2>5, <2>6, Goes
<1>6. ASSUME NEW x \in Sockets, Leave(s, x) PROVE InMaps'
  <2>1. UNCHANGED <<room, job, own, live, inRoom>>
    BY <1>6 DEF Leave
  <2>2. PICK p : Goto(s, p) /\ p.at = "l_retire" /\ p.u = UserOf[x] /\ p.x = x
    <3>1. PICK q : q = [Idle EXCEPT !.at = "l_retire", !.u = UserOf[x], !.x = x]
      OBVIOUS
    <3>2. q.at = "l_retire" /\ q.u = UserOf[x] /\ q.x = x
      BY <3>1 DEF Idle
    <3>3. Goto(s, q)
      BY <1>6, <3>1, Zenon DEF Leave, Arrive
    <3> QED BY <3>2, <3>3
  <2>3. \A u \in Guests : Followed(u)'
    BY <1>3, <2>1, FollowedStays
  <2>4. Law(p)'
    BY <1>3, <2>1, <2>2, <2>3 DEF Law, RoomLaw, OthersFollowed, ItsGuest, JoinAt, room
  <2>5. Named(p) /\ p.at \notin Waits
    BY <2>2 DEF Named, CreateAt, Waits
  <2> QED BY <1>1, <1>3, <2>2, <2>4, <2>5, Goes
<1>7. ASSUME NEW x \in Sockets, End(s, x) PROVE InMaps'
  <2>1. UNCHANGED <<room, job, own, live, inRoom>>
    BY <1>7 DEF End
  <2>2. PICK p : Goto(s, p) /\ p.at = "e_cancel"
    <3>1. PICK q : q = [Idle EXCEPT !.at = "e_cancel", !.u = UserOf[x], !.x = x, !.todo = InGrace]
      OBVIOUS
    <3>2. q.at = "e_cancel"
      BY <3>1 DEF Idle
    <3>3. Goto(s, q)
      BY <1>7, <3>1, Zenon DEF End, Arrive
    <3> QED BY <3>2, <3>3
  <2>3. \A u \in Guests : Followed(u)'
    BY <1>3, <2>1, FollowedStays
  <2>4. Law(p)'
    BY <1>3, <2>1, <2>2, <2>3 DEF Law, RoomLaw, OthersFollowed, ItsGuest, JoinAt, room
  <2>5. Named(p) /\ p.at \notin Waits
    BY <2>2 DEF Named, CreateAt, JoinAt, LeaveAt, DropAt, Waits
  <2> QED BY <1>1, <1>3, <2>2, <2>4, <2>5, Goes
<1>8. ASSUME NEW x \in Sockets, Disconnect(s, x) PROVE InMaps'
  <2>1. UNCHANGED <<room, job, own, inRoom>> /\ live' = live \ {x}
    BY <1>8 DEF Disconnect
  <2>2. PICK p, u : Goto(s, p) /\ p.at = "d_read" /\ p.u = u /\ p.x = x /\ u = UserOf[x]
    <3>1. PICK q : q = [Idle EXCEPT !.at = "d_read", !.u = UserOf[x], !.x = x]
      OBVIOUS
    <3>2. q.at = "d_read" /\ q.u = UserOf[x] /\ q.x = x
      BY <3>1 DEF Idle
    <3>3. Goto(s, q)
      BY <1>8, <3>1, Zenon DEF Disconnect, Arrive
    <3> QED BY <3>2, <3>3
  <2>3. \A v \in Guests \ {u} : Followed(v)'
    BY <1>1, <1>3, <2>1, <2>2, OthersKept DEF SocketsOK, room
  <2>4. u \in Guests /\ u \in parts => /\ x \in inRoom \/ (Stays(u)' /\ own[u].sock # x)
                                       /\ own[u].sock = x \/ Tracked(u)'
    <3>1. u \in Guests /\ u \in parts => Stays(u) /\ Tracked(u)
      BY <1>3 DEF Followed
    <3>2. Tracked(u) => own[u].sock = x \/ Tracked(u)'
      BY <2>1 DEF Tracked
    <3>3. Tracked(u) /\ x \notin inRoom => own[u].sock # x
      BY DEF Tracked
    <3>4. Stays(u) /\ x \notin inRoom => Stays(u)'
      BY <2>1 DEF Stays, Occupied, Waited, room
    <3> QED BY <3>1, <3>2, <3>3, <3>4
  <2>5. Law(p)'
    BY <1>3, <2>1, <2>2, <2>3, <2>4
       DEF Law, RoomLaw, OthersFollowed, ItsGuest, JoinAt, room
  <2>6. Named(p) /\ p.at \notin Waits
    BY <2>2 DEF Named, CreateAt, DropAt, Waits
  <2> QED BY <1>1, <1>3, <2>2, <2>5, <2>6, Goes
<1>9. ASSUME NEW u \in Users, Fire(s, u) PROVE InMaps'
  <2>1. UNCHANGED <<room, own, live, inRoom>> /\ job' = [job EXCEPT ![u] = NoJob]
    BY <1>9 DEF Fire
  <2>2. PICK p : Goto(s, p) /\ p.at = "w_expire" /\ p.u = u /\ p.token = job[u].token
    <3>1. PICK q : q = [Idle EXCEPT !.at = "w_expire", !.u = u, !.token = job[u].token]
      OBVIOUS
    <3>2. q.at = "w_expire" /\ q.u = u /\ q.token = job[u].token
      BY <3>1 DEF Idle
    <3>3. Goto(s, q)
      BY <1>9, <3>1, Zenon DEF Fire
    <3> QED BY <3>2, <3>3
  <2>3. \A v \in Guests \ {u} : Followed(v)'
    <3>1. \A v \in Guests \ {u} : job'[v] = job[v]
      BY <1>1, <2>1 DEF StoresOK, Guests
    <3> QED BY <1>1, <1>3, <2>1, <3>1, OthersKept DEF SocketsOK, room
  <2>4. u \in Guests => (u \in parts' => Tracked(u)' /\ (Occupied(u)' \/ grace'[u] = p.token))
    <3>1. u \in Guests /\ u \in parts => Tracked(u) /\ (Occupied(u) \/ grace[u] = p.token)
      BY <1>3, <2>2 DEF Followed, Stays, Waited
    <3> QED BY <2>1, <3>1 DEF Tracked, Occupied, room
  <2>5. Law(p)'
    BY <1>3, <2>1, <2>2, <2>3, <2>4
       DEF Law, RoomLaw, OthersFollowed, ItsGuest, JoinAt, room
  <2>6. Named(p) /\ p.at \notin Waits
    BY <2>2 DEF Named, CreateAt, JoinAt, LeaveAt, DropAt, Waits
  <2> QED BY <1>1, <1>3, <2>2, <2>5, <2>6, Goes
<1>10. CASE Check(s)
  <2>1. UNCHANGED <<room, job, own, live, inRoom>> /\ proc[s].at = "c_check"
    BY <1>10 DEF Check, At
  <2>2. \A u \in Guests : Followed(u)'
    BY <1>3, <2>1, FollowedStays
  <2>3. CASE Done(s)
    BY <1>1, <1>3, <2>1, <2>2, <2>3, Ends DEF room
  <2>4. CASE Goto(s, [proc[s] EXCEPT !.at = "c_cancel", !.todo = InGrace])
    <3>1. proc[s] \in Execs /\ proc[s].u = Organiser
      BY <1>1, <1>3, <2>1 DEF RunsOK, Named, CreateAt
    <3>2. PICK p : Goto(s, p) /\ Becomes(s, p, "c_cancel")
      <4>1. Becomes(s, [proc[s] EXCEPT !.at = "c_cancel", !.todo = InGrace], "c_cancel")
        BY <3>1 DEF Becomes, Execs
      <4> QED BY <2>4, <4>1
    <3>3. Law(p)'
      BY <1>3, <2>1, <2>2, <3>1, <3>2 DEF Law, RoomLaw, OthersFollowed, Becomes, Guests, room
    <3>4. Named(p) /\ p.at \notin Waits
      BY <1>3, <2>1, <3>2 DEF Named, Becomes, CreateAt, JoinAt, LeaveAt, DropAt, Waits
    <3> QED BY <1>1, <1>3, <3>2, <3>3, <3>4, Goes
  <2> QED BY <1>10, <2>3, <2>4 DEF Check
<1> QED BY <1>4, <1>5, <1>6, <1>7, <1>8, <1>9, <1>10 DEF Request

\* What the law says matters in the Maps only, and their room is made of
\* atomic handlers: every step of the specification keeps it.
LEMMA MapsStep ==
  ASSUME IInv, ~shared => InMaps, Next
  PROVE  ~shared' => InMaps'
<1> SUFFICES ASSUME ~shared' PROVE InMaps'
  OBVIOUS
<1>1. RunsOK /\ RoomOK /\ StoresOK /\ SocketsOK
  BY Parts
<1>2. shared' = shared
  <2>1. CASE \E s \in Slots : Request(s)
    BY <2>1, RequestRest
  <2>2. CASE \E s \in Slots : Resume(s)
    BY <2>2, QuietRest, LoudRest DEF Resume, QuietResume, LoudResume, JoinRoom
  <2>3. CASE TombExpires \/ Crash \/ \E u \in Users : ReclaimOrphan(u)
    BY <2>3 DEF TombExpires, Crash, ReclaimOrphan, Keep
  <2> QED BY <2>1, <2>2, <2>3 DEF Next
<1>3. ~shared /\ InMaps
  BY <1>2
<1>4. ASSUME NEW s \in Slots, Request(s) \/ Resume(s) PROVE InMaps'
  BY <1>3, <1>4, StartsInMaps, JoinInMaps, LeaveInMaps, DropInMaps, ExpiryInMaps,
     CreateInMaps, EndInMaps DEF Resume
<1>5. CASE TombExpires
  <2>1. /\ UNCHANGED <<meta, parts, grace, job, own, live, inRoom, proc, loop>>
        /\ loop = None /\ ~tomb'
    BY <1>5 DEF TombExpires
  <2>2. /\ parts # {} => meta.exists
        /\ \A u \in Guests : Followed(u)
    BY <1>3, <2>1, AtRest
  <2>3. Alone' /\ Ran' = Idle
    BY <1>3, <2>1 DEF InMaps, Alone, Ran
  <2>4. \A u \in Guests : Followed(u)'
    BY <2>1, <2>2 DEF Followed, Stays, Tracked, Occupied, Waited
  <2>5. Law(Idle)'
    BY <2>1, <2>2, <2>4, GroupRoomsAssumption DEF Law, RoomLaw, OthersFollowed, Idle, Guests
  <2> QED BY <2>3, <2>5 DEF InMaps, Law, RoomLaw, OthersFollowed, ItsGuest
<1>6. CASE Crash
  <2>1. /\ meta' = NoMeta /\ parts' = {} /\ tomb' = FALSE /\ loop' = None
        /\ proc' = [s \in Slots |-> Idle]
    BY <1>3, <1>6 DEF Crash
  <2>2. Idle.at = "idle" /\ Idle.u = None /\ None \notin Guests /\ Named(Idle)
    BY GroupRoomsAssumption DEF Idle, Guests, Named, CreateAt, JoinAt, LeaveAt, DropAt
  <2>3. Alone' /\ Ran' = Idle
    BY <2>1, <2>2 DEF Alone, Ran, Waits
  <2>4. \A u \in Guests : Followed(u)'
    BY <2>1, NobodyElse
  <2>5. Law(Ran)'
    BY <2>1, <2>2, <2>3, <2>4 DEF Law, RoomLaw, OthersFollowed
  <2> QED BY <2>3, <2>5 DEF InMaps
<1>7. ASSUME NEW u \in Users, ReclaimOrphan(u) PROVE InMaps'
  <2>1. /\ UNCHANGED <<room, own, live, inRoom, proc, loop>>
        /\ job' = [job EXCEPT ![u] = [job[u] EXCEPT !.lock = None]]
    BY <1>7 DEF ReclaimOrphan
  <2>2. \A v \in Users : job'[v].armed = job[v].armed /\ job'[v].token = job[v].token
    BY <1>1, <2>1 DEF StoresOK, Jobs
  <2>3. \A v \in Users : (Stays(v) <=> Stays(v)') /\ (Tracked(v) <=> Tracked(v)')
                         /\ (Followed(v) <=> Followed(v)') /\ (Occupied(v) <=> Occupied(v)')
    BY <2>1, <2>2 DEF Followed, Stays, Tracked, Occupied, Waited, room
  <2>4. Alone' /\ Ran' = Ran
    BY <1>3, <2>1 DEF InMaps, Alone, Ran
  <2>5. PICK p : p = Ran
    OBVIOUS
  <2>6. Law(p)
    BY <1>3, <2>5 DEF InMaps
  <2>7. RoomLaw(p)' /\ OthersFollowed(p)'
    BY <2>1, <2>3, <2>6 DEF Law, RoomLaw, OthersFollowed, Guests, room
  <2>8. p.u \in Guests => ItsGuest(p)'
    BY <2>1, <2>2, <2>3, <2>6 DEF Law, ItsGuest, Guests, room
  <2>9. Law(p)'
    BY <2>7, <2>8 DEF Law
  <2>10. Law(Ran)'
    BY <2>4, <2>5, <2>9 DEF Law, RoomLaw, OthersFollowed, ItsGuest
  <2> QED BY <2>4, <2>10 DEF InMaps
<1> QED BY <1>4, <1>5, <1>6, <1>7 DEF Next

-----------------------------------------------------------------------------
(* Theorems                                                                *)

\* The invariant holds in every reachable state.
LEMMA Inductive == Spec => []IInv
<1>1. IInv /\ [Next]_vars => IInv'
  BY Step, Stutter
<1> QED BY Initially, <1>1, PTL DEF Spec

\* Every variable stays in its range and every grace runs under a token that
\* was given, in every interleaving of the handlers of groupRooms.js.
THEOREM TypeCorrect == Spec => []TypeOK
<1>1. IInv => TypeOK
  BY DEF IInv
<1> QED BY Inductive, <1>1, PTL

\* Whatever the accounts, the limits, the number of handlers that interleave
\* and the store, the room implements its contract: nobody loses a seat but by
\* asking, by the expiry of a grace that runs on that seat, or with the room.
THEOREM KeepsContract == Spec => ContractKept
<1>1. Init => Contract!Init
  BY DEF Init, Contract!Init, Contract!Nobody, NoMeta, NoGraces, InGrace, Idle
<1>2. IInv /\ [Next]_vars => [Contract!Next]_(Contract!vars)
  BY Step, Stutter
<1> QED BY Inductive, <1>1, <1>2, PTL DEF Spec, ContractKept, Contract!Spec

\* No call that nobody can end: whatever the accounts, the limits, the store and
\* the number of handlers that interleave, and until a process crashes, the right
\* to end a room with participants is one participant's, or everybody's.
THEOREM SomebodyMayEndAlways == Spec => []SomebodyMayEnd
<1>1. Init => Chief
  BY DEF Init, NoMeta, Chief
<1>2. IInv /\ Chief /\ [Next]_vars => Chief'
  <2>1. IInv /\ Chief /\ Next => Chief'
    BY ChiefStep
  <2>2. Chief /\ UNCHANGED vars => Chief'
    BY DEF Chief, vars, room
  <2> QED BY <2>1, <2>2
<1>3. Chief => SomebodyMayEnd
  BY DEF Chief, SomebodyMayEnd, CreateAt
<1> QED BY Inductive, <1>1, <1>2, <1>3, PTL DEF Spec

\* No ghost in the Maps of one process: whatever the accounts, the sockets and
\* the events, at rest every participant but the organiser has a connected
\* socket in the room, or a grace with the timer that will end it.
THEOREM NoGhostInMemoryAlways == Spec => []NoGhostInMemory
<1>1. Init => (~shared => InMaps)
  <2> SUFFICES ASSUME Init PROVE InMaps
    OBVIOUS
  <2>1. Idle.at = "idle" /\ Idle.u = None /\ None \notin Guests /\ Named(Idle)
    BY GroupRoomsAssumption DEF Idle, Guests, Named, CreateAt, JoinAt, LeaveAt, DropAt
  <2>2. Alone /\ Ran = Idle
    BY <2>1 DEF Init, Alone, Ran, Waits
  <2>3. Law(Idle)
    BY <2>1 DEF Init, Law, RoomLaw, OthersFollowed, Followed
  <2> QED BY <2>2, <2>3 DEF InMaps
<1>2. IInv /\ (~shared => InMaps) /\ [Next]_vars => (~shared => InMaps)'
  <2>1. IInv /\ (~shared => InMaps) /\ Next => (~shared => InMaps)'
    BY MapsStep
  <2>2. (~shared => InMaps) /\ UNCHANGED vars => (~shared => InMaps)'
    BY DEF vars, room, InMaps, Alone, Ran, Law, RoomLaw, OthersFollowed, ItsGuest,
       Followed, Stays, Tracked, Occupied, Waited
  <2> QED BY <2>1, <2>2
<1>3. IInv /\ (~shared => InMaps) => NoGhostInMemory
  <2> SUFFICES ASSUME IInv, ~shared, Quiet, InMaps
               PROVE  \A u \in parts \ {Organiser} : Occupied(u) \/ Waited(u)
    BY DEF NoGhostInMemory
  <2>1. loop = None
    BY Parts DEF InMaps, Alone, Quiet, Waits, RunsOK
  <2>2. \A u \in Guests : Followed(u)
    BY <2>1, AtRest
  <2> QED BY <2>2, Parts DEF Followed, Stays, Guests, RoomOK
<1> QED BY Inductive, <1>1, <1>2, <1>3, PTL DEF Spec
=============================================================================
