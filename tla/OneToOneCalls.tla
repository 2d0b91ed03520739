----------------------------- MODULE OneToOneCalls -----------------------------
(***************************************************************************)
(* Two-party calls: the socket handlers of socket/handlers/calls.js, the   *)
(* disconnect and authentication handlers that arm and disarm their        *)
(* deadlines, and the job handlers of services/callStateWorkers.js, over   *)
(* the call-state register, the device-ownership table and callHistory.    *)
(*                                                                         *)
(* Every execution of a handler occupies a slot; a slot is at the await it *)
(* resumes from. SharedStore chooses the storage mode of the code:         *)
(*   - TRUE, Redis and job_queue: every await is a round trip, and the     *)
(*     executions of all the pm2 instances interleave at each of them;     *)
(*   - FALSE, one process and its Maps: an await on the register resumes   *)
(*     before any other event, so an execution keeps the event loop until  *)
(*     it waits for MySQL.                                                 *)
(* The commands of one primitive of callState.js are one step, and so are  *)
(* the reads a handler does before its first write.                        *)
(***************************************************************************)
EXTENDS CallState, DeviceOwnership, FiniteSets

CONSTANTS UserOf,        \* Devices -> Users
          SocketNumbers, \* sockets a device may have at once
          FirstLive,     \* the sockets connected at the start
          Unstable,      \* bound: the sockets that may drop
          Lossy,         \* bound: the calls whose row an UPDATE may fail to write
          SharedStore,   \* the storage mode
          MaxCrashes     \* bound: crashes of a server process

Sockets  == Devices \X SocketNumbers
NoSocket == <<NoDevice, 0>>

ASSUME OneToOneAssumption ==
  /\ MaxCalls \in Nat /\ MaxCrashes \in Nat
  /\ UserOf \in [Devices -> Users]
  /\ FirstLive \subseteq Sockets /\ Unstable \subseteq Sockets /\ Lossy \subseteq Calls
  /\ SharedStore \in BOOLEAN
  /\ None \notin Users /\ NoDevice \notin Devices /\ None \notin Slots

VARIABLES
  reg,        \* the call-state register and its deadlines
  own,        \* device ownership: call -> account -> row
  hist,       \* callHistory
  nextCall,   \* AUTO_INCREMENT of callHistory
  announced,  \* calls whose incoming_call has been emitted
  live,       \* connected sockets
  tagged,     \* the sockets whose currentCallID is set
  proc,       \* slot -> handler execution
  loop,       \* the slot that holds the event loop (None when SharedStore)
  crashes,    \* crashes so far
  winners,    \* history: call -> account -> devices whose claim succeeded
  excused     \* history: calls whose ring another call's ring overwrote, or
              \* whose row an UPDATE failed to write

vars == <<reg, own, hist, nextCall, announced, live, tagged, proc, loop,
          crashes, winners, excused>>

-----------------------------------------------------------------------------
(* Handler executions                                                      *)

CallUserAt == {"verdict", "insert", "own", "ring_callee", "ring_caller", "arm_read"}
AnswerAt   == {"claim", "in_callee", "in_caller", "ans_hist"}
RejectAt   == {"rej_stale", "rej_callee", "rej_caller", "rej_release", "rej_hist",
               "rej_voicemail"}
EndAt      == {"end_self", "end_peer", "end_release", "end_hist"}
NoAnswerAt == {"na_read", "na_target", "na_caller", "na_hist", "na_release"}
CascadeAt  == {"grace_check", "ea_read", "ea_self", "ea_peer", "ea_hist", "ea_release",
               "no_end"}
TimerAt    == {"sched_read", "arm", "cancel_grace", "confirm", "finish"}
Points     == CallUserAt \union AnswerAt \union RejectAt \union EndAt
                \union NoAnswerAt \union CascadeAt \union TimerAt

\* Points an execution reaches by waiting for MySQL; the step from there does
\* the query and goes on, for no handler reads what another one's query wrote.
AfterIO == {"verdict", "insert", "ans_hist", "rej_stale", "rej_hist", "rej_voicemail",
            "end_hist", "na_hist", "ea_hist"}

(* u the account served, x the socket, v the other account, c the call; k   *)
(* the kind of the deadline handled and jc the call of its payload; match   *)
(* the outcome of a check made earlier.                                    *)
Execs == [at : Points \union {"idle"}, u : Users \union {None},
          x : Sockets \union {NoSocket}, v : Users \union {None},
          c : Calls \union {NoCall}, jc : Calls \union {NoCall},
          k : Kinds \union {"none"}, match : BOOLEAN]

Idle == [at |-> "idle", u |-> None, x |-> NoSocket, v |-> None, c |-> NoCall,
         jc |-> NoCall, k |-> "none", match |-> FALSE]

\* The execution of s goes on to p.at, behind an await.
Goto(s, p) ==
  /\ proc' = [proc EXCEPT ![s] = p]
  /\ loop' = IF SharedStore \/ p.at \in AfterIO THEN None ELSE s

Done(s) == proc' = [proc EXCEPT ![s] = Idle] /\ loop' = None

\* A job's row is deleted once its handler returns; a setTimeout has none.
Finish(s, p) == IF SharedStore /\ p.k # "none"
                THEN Goto(s, [p EXCEPT !.at = "finish"]) ELSE Done(s)

Free(s)   == loop = None /\ proc[s].at = "idle"
At(s, pt) == loop \in {None, s} /\ proc[s].at = pt

UsersOf(X)      == {UserOf[x[1]] : x \in X}
Connected(u)    == u \in UsersOf(live)
ConnectedDevs   == {x[1] : x \in live}
Parties(c)      == {hist[c].caller, hist[c].callee}
Peer(c, u)      == IF hist[c].caller = u THEN hist[c].callee ELSE hist[c].caller
PastPeers(u)    == {Peer(c, u) : c \in {y \in Calls : u \in Parties(y)}}
Rows            == [status : {"none", "initiated", "answered", "rejected", "missed"},
                    caller : Users \union {None}, callee : Users \union {None}]
NoRow           == [status |-> "none", caller |-> None, callee |-> None]
NoOwners        == [u \in Users |-> NoOwner]
Released(c)     == [own EXCEPT ![c] = NoOwners]
Owner(c, u)     == IF c \in Calls THEN own[c][u] ELSE NoOwner
SetStatus(c, y) == [hist EXCEPT ![c].status = y]

\* Mutant: the status is left alone.
OpenHist(c) == hist

\* callHistory.status: "missed" is NO_ANSWER, or VOICEMAIL_AFTER_RING when the
\* callee's answering machine takes the call that was not answered. Closing a
\* row keeps a status other than INITIATED.
ClosedHist(c) == IF hist[c].status = "initiated" THEN SetStatus(c, "missed") ELSE hist

\* UPDATE callHistory: an error is caught, and the handler goes on without it.
WriteHist(c, rows) ==
  \/ hist' = rows /\ UNCHANGED excused
  \/ c \in Lossy /\ UNCHANGED hist /\ excused' = excused \union {c}

\* What only a few actions change.
Keep == UNCHANGED <<crashes, winners, excused>>

Init ==
  /\ reg = EmptyRegister
  /\ own = [c \in Calls |-> NoOwners]
  /\ hist = [c \in Calls |-> NoRow]
  /\ nextCall = 1
  /\ announced = {}
  /\ live = FirstLive
  /\ tagged = {}
  /\ proc = [s \in Slots |-> Idle]
  /\ loop = None
  /\ crashes = 0
  /\ winners = [c \in Calls |-> [u \in Users |-> {}]]
  /\ excused = {}

-----------------------------------------------------------------------------
(* call_user: u calls t from its socket x. The voicemail verdict and the   *)
(* row of callHistory are awaited between the checks and the ring.         *)

CallUser(s, x, t) ==
  LET u == UserOf[x[1]]
      r == ClearStaleRinging(
             ReclaimStaleBusy(ReclaimStaleBusy(reg, t, Connected(t)), u, Connected(u)), u)
  IN /\ Free(s) /\ x \in live /\ t # u
     /\ ~ExistingPair(reg, u, t)
     /\ reg' = r
     /\ IF Busy(r, u, t)
        THEN UNCHANGED <<proc, loop>>
        ELSE Goto(s, [Idle EXCEPT !.at = "verdict", !.u = u, !.x = x, !.v = t])
     /\ UNCHANGED <<own, hist, nextCall, announced, live, tagged>> /\ Keep

\* The verdict is back: intercepted or busy, nothing rings.
Verdict(s) ==
  LET p == proc[s]  r == ClearStaleRinging(reg, p.v)
  IN /\ At(s, "verdict")
     /\ \/ Done(s) /\ UNCHANGED reg
        \/ /\ reg' = r
           /\ IF Busy(r, p.v, p.u) THEN Done(s) ELSE Goto(s, [p EXCEPT !.at = "insert"])
     /\ UNCHANGED <<own, hist, nextCall, announced, live, tagged>> /\ Keep

\* INSERT INTO callHistory; an error gives up. The bound is the only guard
\* that is not the code's.
InsertCall(s) ==
  LET p == proc[s]
  IN /\ At(s, "insert")
     /\ \/ /\ Done(s)
           /\ UNCHANGED <<hist, nextCall, tagged>>
        \/ /\ nextCall \in Calls
           /\ hist' = [hist EXCEPT ![nextCall] =
                         [status |-> "initiated", caller |-> p.u, callee |-> p.v]]
           /\ nextCall' = nextCall + 1
           /\ tagged' = tagged \union ({p.x} \cap live)
           /\ Goto(s, [p EXCEPT !.at = "own", !.c = nextCall])
     /\ UNCHANGED <<reg, own, announced, live>> /\ Keep

\* setCalling(caller), then ring(target), under a key nobody else knows yet.
OpenOwnership(s) ==
  LET p == proc[s]
  IN /\ At(s, "own")
     /\ own' = [own EXCEPT ![p.c] = [@ EXCEPT ![p.u] = CallingOn(p.x[1]), ![p.v] = RingingOwner]]
     /\ Goto(s, [p EXCEPT !.at = "ring_callee"])
     /\ UNCHANGED <<reg, hist, nextCall, announced, live, tagged>> /\ Keep

\* setRinging: of the target, then of the caller. Neither looks at what is there.
Ring(s, x, y, next) ==
  LET p == proc[s]
  IN /\ reg' = SetRinging(reg, x, p.c, y)
     /\ excused' = IF reg.entry[x].status = "ringing" /\ reg.entry[x].call # p.c
                   THEN excused \union {reg.entry[x].call} ELSE excused
     /\ Goto(s, [p EXCEPT !.at = next])
     /\ UNCHANGED <<own, hist, nextCall, announced, live, tagged, crashes, winners>>

RingCallee(s) == At(s, "ring_callee") /\ Ring(s, proc[s].v, proc[s].u, "ring_caller")
RingCaller(s) == At(s, "ring_caller") /\ Ring(s, proc[s].u, proc[s].v, "arm_read")

\* scheduleNoAnswer reads the target's entry: its payload is what it finds
\* there. incoming_call goes out once it is done, whatever it found.
ReadForNoAnswer(s) ==
  LET p == proc[s]  e == reg.entry[p.v]
  IN /\ At(s, "arm_read")
     /\ IF e.status = "ringing"
        THEN /\ Goto(s, [Idle EXCEPT !.at = "arm", !.k = "no_answer", !.u = p.v,
                                     !.c = e.call, !.v = e.peer, !.jc = p.c])
             /\ UNCHANGED announced
        ELSE Done(s) /\ announced' = announced \union {p.c}
     /\ UNCHANGED <<reg, own, hist, nextCall, live, tagged>> /\ Keep

-----------------------------------------------------------------------------
(* answer_call, from socket x of the callee                                *)

PairRings(c) ==
  LET a == hist[c].caller  b == hist[c].callee
  IN /\ RingsAt(reg, b, a) /\ reg.entry[b].call = c
     /\ RingsAt(reg, a, b) /\ reg.entry[a].call = c

AnswerCall(s, c, x) ==
  /\ Free(s) /\ c \in announced /\ x \in live /\ UserOf[x[1]] = hist[c].callee
  /\ PairRings(c)
  /\ Goto(s, [Idle EXCEPT !.at = "claim", !.u = hist[c].callee, !.x = x,
                          !.v = hist[c].caller, !.c = c])
  /\ UNCHANGED <<reg, own, hist, nextCall, announced, live, tagged>> /\ Keep

Claim(s) ==
  LET p == proc[s]  o == own[p.c][p.u]
  IN /\ At(s, "claim")
     /\ IF ClaimOk(o, p.x[1])
        THEN /\ own' = [own EXCEPT ![p.c][p.u] = ActiveOn(p.x[1])]
             /\ winners' = [winners EXCEPT ![p.c][p.u] = @ \union {p.x[1]}]
             /\ Goto(s, [p EXCEPT !.at = "in_callee"])
        ELSE UNCHANGED <<own, winners>> /\ Done(s)
     /\ UNCHANGED <<reg, hist, nextCall, announced, live, tagged, crashes, excused>>

AnswerCallee(s) ==
  LET p == proc[s]
  IN /\ At(s, "in_callee")
     /\ reg' = SetInCall(reg, p.u, p.c, p.v)
     /\ Goto(s, [p EXCEPT !.at = "in_caller"])
     /\ UNCHANGED <<own, hist, nextCall, announced, live, tagged>> /\ Keep

AnswerCaller(s) ==
  LET p == proc[s]
  IN /\ At(s, "in_caller")
     /\ reg' = SetInCall(reg, p.v, p.c, p.u)
     /\ tagged' = tagged \union ({p.x} \cap live)
     /\ Goto(s, [p EXCEPT !.at = "ans_hist"])
     /\ UNCHANGED <<own, hist, nextCall, announced, live>> /\ Keep

AnswerHist(s) ==
  /\ At(s, "ans_hist")
  /\ WriteHist(proc[s].c, SetStatus(proc[s].c, "answered"))
  /\ Done(s)
  /\ UNCHANGED <<reg, own, nextCall, announced, live, tagged, crashes, winners>>

-----------------------------------------------------------------------------
(* reject_call, and POST /calls/reject, which carries no device: the callee *)
(* of c refuses it, at any time after it was announced.                    *)

Reject(s, c, d) ==
  LET u == hist[c].callee  v == hist[c].caller
      e == reg.entry[u]    o == own[c][u]
      p == [Idle EXCEPT !.u = u, !.v = v, !.c = c]
  IN /\ Free(s) /\ c \in announced
     /\ d = NoDevice \/ (d \in ConnectedDevs /\ UserOf[d] = u)
     /\ IF Active(e) /\ e.peer = v /\ e.call # c
        THEN Goto(s, [p EXCEPT !.at = "rej_stale"])
        ELSE /\ ~(o.state = "active" /\ o.dev # d)
             /\ Goto(s, [p EXCEPT !.at = "rej_callee",
                            !.match = /\ Active(reg.entry[v])
                                      /\ reg.entry[v].peer = u
                                      /\ reg.entry[v].call = c])
     /\ UNCHANGED <<reg, own, hist, nextCall, announced, live, tagged>> /\ Keep

\* Late: another call of the pair is current, only the old row is closed.
RejectStale(s) ==
  LET c == proc[s].c
  IN /\ At(s, "rej_stale")
     /\ WriteHist(c, IF hist[c].status = "initiated" THEN SetStatus(c, "rejected") ELSE hist)
     /\ Done(s)
     /\ UNCHANGED <<reg, own, nextCall, announced, live, tagged, crashes, winners>>

RejectCallee(s) ==
  LET p == proc[s]
  IN /\ At(s, "rej_callee")
     /\ reg' = Clear(reg, p.u)
     /\ Goto(s, [p EXCEPT !.at = IF p.match THEN "rej_caller" ELSE "rej_release"])
     /\ UNCHANGED <<own, hist, nextCall, announced, live, tagged>> /\ Keep

RejectCaller(s) ==
  LET p == proc[s]
  IN /\ At(s, "rej_caller")
     /\ reg' = Clear(reg, p.v)
     /\ Goto(s, [p EXCEPT !.at = "rej_release"])
     /\ UNCHANGED <<own, hist, nextCall, announced, live, tagged>> /\ Keep

RejectRelease(s) ==
  LET p == proc[s]
  IN /\ At(s, "rej_release")
     /\ own' = Released(p.c)
     /\ Goto(s, [p EXCEPT !.at = "rej_hist"])
     /\ UNCHANGED <<reg, hist, nextCall, announced, live, tagged>> /\ Keep

RejectHist(s) ==
  LET p == proc[s]
  IN /\ At(s, "rej_hist")
     /\ WriteHist(p.c, SetStatus(p.c, "rejected"))
     /\ IF p.match THEN Goto(s, [p EXCEPT !.at = "rej_voicemail"]) ELSE Done(s)
     /\ UNCHANGED <<reg, own, nextCall, announced, live, tagged, crashes, winners>>

\* The callee's answering machine may take the refused call over.
RejectVoicemail(s) ==
  /\ At(s, "rej_voicemail")
  /\ hist' \in {hist, SetStatus(proc[s].c, "missed")}
  /\ Done(s)
  /\ UNCHANGED <<reg, own, nextCall, announced, live, tagged>> /\ Keep

-----------------------------------------------------------------------------
(* end_call: the socket names the peer t it hangs up on, never the call. A  *)
(* client that got no acknowledgement sends it again, however late.        *)

EndCall(s, x, t) ==
  LET u == UserOf[x[1]]  e == reg.entry[u]
  IN /\ Free(s) /\ x \in live
     /\ t \in PastPeers(u)
     /\ IF Active(e)
        THEN /\ Goto(s, [Idle EXCEPT !.at = "end_self", !.u = u, !.x = x, !.v = t, !.c = e.call])
             /\ UNCHANGED tagged
        ELSE /\ tagged' = tagged \ {x}
             /\ UNCHANGED <<proc, loop>>
     /\ UNCHANGED <<reg, own, hist, nextCall, announced, live>> /\ Keep

EndSelf(s) ==
  LET p == proc[s]
  IN /\ At(s, "end_self")
     /\ reg' = Clear(reg, p.u)
     /\ Goto(s, [p EXCEPT !.at = "end_peer"])
     /\ UNCHANGED <<own, hist, nextCall, announced, live, tagged>> /\ Keep

EndPeer(s) ==
  LET p == proc[s]
  IN /\ At(s, "end_peer")
     /\ reg' = Clear(reg, p.v)
     /\ Goto(s, [p EXCEPT !.at = "end_release"])
     /\ UNCHANGED <<own, hist, nextCall, announced, live, tagged>> /\ Keep

EndRelease(s) ==
  LET p == proc[s]
  IN /\ At(s, "end_release")
     /\ own' = Released(p.c)
     /\ Goto(s, [p EXCEPT !.at = "end_hist"])
     /\ UNCHANGED <<reg, hist, nextCall, announced, live, tagged>> /\ Keep

EndHist(s) ==
  LET p == proc[s]
  IN /\ At(s, "end_hist")
     /\ WriteHist(p.c, ClosedHist(p.c))
     /\ tagged' = tagged \ {p.x}
     /\ Done(s)
     /\ UNCHANGED <<reg, own, nextCall, announced, live, crashes, winners>>

-----------------------------------------------------------------------------
(* Sockets. Disconnection arms a grace when the socket carried the call's   *)
(* media; authentication offers to resume an established call.             *)

\* Mutant: the socket keeps its currentCallID.
DropTagged(x) == live' = live \ {x} /\ tagged' = tagged

Drop(x) == live' = live \ {x} /\ tagged' = tagged \ {x}

Disconnect(s, x) ==
  LET u == UserOf[x[1]]  e == reg.entry[u]  o == Owner(e.call, u)
      mediaOwner == IsOwnerDevice(o, x[1]) \/ o.dev = NoDevice
      lastSocket == u \notin UsersOf(live \ {x})
  IN /\ Free(s) /\ x \in live \cap Unstable
     /\ Drop(x)
     /\ IF Active(e) /\ mediaOwner /\ (lastSocket \/ x \in tagged)
        THEN Goto(s, [Idle EXCEPT !.at = "sched_read", !.u = u, !.k = "grace",
                                  !.match = (e.status = "ringing")])
        ELSE UNCHANGED <<proc, loop>>
     /\ UNCHANGED <<reg, own, hist, nextCall, announced>> /\ Keep

\* auth:login, then offerCallResume when the account is in a call.
Connect(s, x) ==
  LET u == UserOf[x[1]]  e == reg.entry[u]  d == Owner(e.call, u).dev
      p == [Idle EXCEPT !.u = u]
  IN /\ Free(s) /\ x \notin live
     /\ live' = live \union {x}
     /\ CASE e.status # "in_call" -> Goto(s, [p EXCEPT !.at = "cancel_grace"])
          [] e.status = "in_call" /\ d = NoDevice ->
               Goto(s, [p EXCEPT !.at = "sched_read", !.k = "owner_missing"])
          [] e.status = "in_call" /\ d = x[1] ->
               Goto(s, [p EXCEPT !.at = "sched_read", !.k = "resume_ack"])
          [] OTHER -> UNCHANGED <<proc, loop>>
     /\ UNCHANGED <<reg, own, hist, nextCall, announced, tagged>> /\ Keep

\* schedule*: the account must still have the status the deadline is for.
ReadToSchedule(s) ==
  LET p == proc[s]  e == reg.entry[p.u]
  IN /\ At(s, "sched_read")
     /\ IF e.status = (IF p.match THEN "ringing" ELSE "in_call")
        THEN Goto(s, [p EXCEPT !.at = "arm", !.c = e.call, !.v = e.peer])
        ELSE Done(s)
     /\ UNCHANGED <<reg, own, hist, nextCall, announced, live, tagged>> /\ Keep

Arm(s) ==
  LET p == proc[s]
  IN /\ At(s, "arm")
     /\ reg' = Schedule(reg, p.u, p.k, p.c, p.v)
     /\ announced' = IF p.k = "no_answer" THEN announced \union {p.jc} ELSE announced
     /\ Done(s)
     /\ UNCHANGED <<own, hist, nextCall, live, tagged>> /\ Keep

CancelGrace(s) ==
  /\ At(s, "cancel_grace")
  /\ reg' = Cancel(reg, proc[s].u, {"grace"})
  /\ Done(s)
  /\ UNCHANGED <<own, hist, nextCall, announced, live, tagged>> /\ Keep

\* call_resume_ack and call_resume_reject of a device that may speak for the
\* call; call_rejoin confirms as well, from the owner device only.
MaySettleResume(x) ==
  LET u == UserOf[x[1]]  o == Owner(reg.entry[u].call, u)
  IN reg.entry[u].status = "in_call" /\ (o.dev = NoDevice \/ IsOwnerDevice(o, x[1]))

ResumeAck(s, x) ==
  /\ Free(s) /\ x \in live /\ MaySettleResume(x)
  /\ Goto(s, [Idle EXCEPT !.at = "confirm", !.u = UserOf[x[1]]])
  /\ UNCHANGED <<reg, own, hist, nextCall, announced, live, tagged>> /\ Keep

Confirm(s) ==
  /\ At(s, "confirm")
  /\ reg' = ConfirmResume(reg, proc[s].u)
  /\ Done(s)
  /\ UNCHANGED <<own, hist, nextCall, announced, live, tagged>> /\ Keep

ResumeReject(s, x) ==
  LET u == UserOf[x[1]]
  IN /\ Free(s) /\ x \in live /\ MaySettleResume(x)
     /\ Goto(s, [Idle EXCEPT !.at = "ea_read", !.u = u, !.jc = reg.entry[u].call])
     /\ UNCHANGED <<reg, own, hist, nextCall, announced, live, tagged>> /\ Keep

-----------------------------------------------------------------------------
(* Deadlines. A worker locks the row of a due job and runs its handler; a   *)
(* locked row can be cancelled, the handler runs on. In memory the timer    *)
(* that fires is gone.                                                     *)

Fire(s, u, k) ==
  LET j == reg.timer[u][k]
      first == CASE k = "no_answer" -> "na_read"
                 [] k = "grace"     -> "grace_check"
                 [] OTHER           -> "ea_read"
  IN /\ Free(s) /\ j.armed /\ j.lock = None
     /\ reg' = IF SharedStore THEN Lock(reg, u, k, s)
               ELSE Cancel(reg, u, {k})
     /\ Goto(s, [Idle EXCEPT !.at = first, !.u = u, !.v = j.peer, !.jc = j.call, !.k = k])
     /\ UNCHANGED <<own, hist, nextCall, announced, live, tagged>> /\ Keep

\* DELETE by id: the row this execution locked, not one armed since.
FinishJob(s) ==
  LET p == proc[s]
  IN /\ At(s, "finish")
     /\ reg' = IF reg.timer[p.u][p.k].lock = s THEN Cancel(reg, p.u, {p.k}) ELSE reg
     /\ Done(s)
     /\ UNCHANGED <<own, hist, nextCall, announced, live, tagged>> /\ Keep

\* onNoAnswer: the target must still ring for this call.
NoAnswerRead(s) ==
  LET p == proc[s]  e == reg.entry[p.u]
  IN /\ At(s, "na_read")
     /\ IF e.status = "ringing" /\ e.call = p.jc
        THEN Goto(s, [p EXCEPT !.at = "na_target"]) ELSE Finish(s, p)
     /\ UNCHANGED <<reg, own, hist, nextCall, announced, live, tagged>> /\ Keep

NoAnswerTarget(s) ==
  LET p == proc[s]
  IN /\ At(s, "na_target")
     /\ reg' = Clear(reg, p.u)
     /\ Goto(s, [p EXCEPT !.at = "na_caller"])
     /\ UNCHANGED <<own, hist, nextCall, announced, live, tagged>> /\ Keep

NoAnswerCaller(s) ==
  LET p == proc[s]
  IN /\ At(s, "na_caller")
     /\ reg' = Clear(reg, p.v)
     /\ Goto(s, [p EXCEPT !.at = "na_hist"])
     /\ UNCHANGED <<own, hist, nextCall, announced, live, tagged>> /\ Keep

NoAnswerHist(s) ==
  LET p == proc[s]
  IN /\ At(s, "na_hist")
     /\ WriteHist(p.jc, SetStatus(p.jc, "missed"))
     /\ Goto(s, [p EXCEPT !.at = "na_release"])
     /\ UNCHANGED <<reg, own, nextCall, announced, live, tagged, crashes, winners>>

NoAnswerRelease(s) ==
  LET p == proc[s]
  IN /\ At(s, "na_release")
     /\ own' = Released(p.jc)
     /\ Finish(s, p)
     /\ UNCHANGED <<reg, hist, nextCall, announced, live, tagged>> /\ Keep

\* endActiveCallForUser, for a grace: ignored when the device is back.
GraceCheck(s) ==
  LET p == proc[s]  d == Owner(reg.entry[p.u].call, p.u).dev
  IN /\ At(s, "grace_check")
     /\ IF d \in ConnectedDevs
        THEN reg' = Cancel(reg, p.u, {"grace"}) /\ Goto(s, [p EXCEPT !.at = "no_end"])
        ELSE UNCHANGED reg /\ Goto(s, [p EXCEPT !.at = "ea_read"])
     /\ UNCHANGED <<own, hist, nextCall, announced, live, tagged>> /\ Keep

EndActiveRead(s) ==
  LET p == proc[s]  e == reg.entry[p.u]
  IN /\ At(s, "ea_read")
     /\ reg' = Cancel(reg, p.u, {"grace"})
     /\ Goto(s, IF Active(e) THEN [p EXCEPT !.at = "ea_self", !.v = e.peer, !.c = e.call]
                ELSE [p EXCEPT !.at = "no_end"])
     /\ UNCHANGED <<own, hist, nextCall, announced, live, tagged>> /\ Keep

EndActiveSelf(s) ==
  LET p == proc[s]
  IN /\ At(s, "ea_self")
     /\ reg' = Clear(reg, p.u)
     /\ Goto(s, [p EXCEPT !.at = "ea_peer"])
     /\ UNCHANGED <<own, hist, nextCall, announced, live, tagged>> /\ Keep

EndActivePeer(s) ==
  LET p == proc[s]
  IN /\ At(s, "ea_peer")
     /\ reg' = Clear(reg, p.v)
     /\ Goto(s, [p EXCEPT !.at = "ea_hist"])
     /\ UNCHANGED <<own, hist, nextCall, announced, live, tagged>> /\ Keep

EndActiveHist(s) ==
  LET p == proc[s]
  IN /\ At(s, "ea_hist")
     /\ WriteHist(p.c, ClosedHist(p.c))
     /\ Goto(s, [p EXCEPT !.at = "ea_release"])
     /\ UNCHANGED <<reg, own, nextCall, announced, live, tagged, crashes, winners>>

\* Whatever endActiveCallForUser returned, the caller of it then releases
\* the devices of the call its deadline was armed for.
ReleaseAfterEnd(s) ==
  LET p == proc[s]
  IN /\ At(s, "ea_release") \/ At(s, "no_end")
     /\ own' = Released(p.jc)
     /\ Finish(s, p)
     /\ UNCHANGED <<reg, hist, nextCall, announced, live, tagged>> /\ Keep

-----------------------------------------------------------------------------
(* The rest of the world.                                                  *)

\* isStaleRinging: 50 s after the ring, 5 s after its no-answer deadline.
Age(u) ==
  LET e == reg.entry[u]
  IN /\ e.status = "ringing" /\ ~e.stale
     /\ \A s \in Slots : proc[s].at = "idle"
     /\ \A w \in {u, e.peer} : ~reg.timer[w]["no_answer"].armed
     /\ reg' = GoStale(reg, u)
     /\ UNCHANGED <<own, hist, nextCall, announced, live, tagged, proc, loop>> /\ Keep

(* A server process dies, without a word to anyone: with Redis the execution *)
(* it ran and the sockets it held are gone; without, so are the Maps.      *)
Crash ==
  /\ crashes < MaxCrashes
  /\ crashes' = crashes + 1
  /\ loop' = None
  /\ IF SharedStore
     THEN /\ \E X \in SUBSET (live \cap Unstable) : live' = live \ X /\ tagged' = tagged \ X
          /\ \E s \in Slots : proc' = [proc EXCEPT ![s] = Idle]
          /\ UNCHANGED <<reg, own>>
     ELSE /\ live' = {} /\ tagged' = {} /\ proc' = [s \in Slots |-> Idle]
          /\ reg' = EmptyRegister /\ own' = [c \in Calls |-> NoOwners]
  /\ UNCHANGED <<hist, nextCall, announced, winners, excused>>

\* reclaimOrphans: the lock of a worker that is no more.
ReclaimOrphan(u, k) ==
  LET s == reg.timer[u][k].lock
  IN /\ s # None
     /\ ~(proc[s].k = k /\ proc[s].u = u /\ proc[s].at \notin {"sched_read", "arm"})
     /\ reg' = Lock(reg, u, k, None)
     /\ UNCHANGED <<own, hist, nextCall, announced, live, tagged, proc, loop>> /\ Keep

-----------------------------------------------------------------------------
Continue(s) ==
  \/ Verdict(s) \/ InsertCall(s) \/ OpenOwnership(s) \/ RingCallee(s) \/ RingCaller(s)
  \/ ReadForNoAnswer(s)
  \/ Claim(s) \/ AnswerCallee(s) \/ AnswerCaller(s) \/ AnswerHist(s)
  \/ RejectStale(s) \/ RejectCallee(s) \/ RejectCaller(s) \/ RejectRelease(s)
  \/ RejectHist(s) \/ RejectVoicemail(s)
  \/ EndSelf(s) \/ EndPeer(s) \/ EndRelease(s) \/ EndHist(s)
  \/ ReadToSchedule(s) \/ Arm(s) \/ CancelGrace(s) \/ Confirm(s)
  \/ NoAnswerRead(s) \/ NoAnswerTarget(s) \/ NoAnswerCaller(s) \/ NoAnswerHist(s)
  \/ NoAnswerRelease(s)
  \/ GraceCheck(s) \/ EndActiveRead(s) \/ EndActiveSelf(s) \/ EndActivePeer(s)
  \/ EndActiveHist(s) \/ ReleaseAfterEnd(s)
  \/ FinishJob(s)

Receive(s) ==
  \/ \E x \in Sockets : \/ \E t \in Users : CallUser(s, x, t) \/ EndCall(s, x, t)
                        \/ \E c \in Calls : AnswerCall(s, c, x)
                        \/ Disconnect(s, x) \/ Connect(s, x)
                        \/ ResumeAck(s, x) \/ ResumeReject(s, x)
  \/ \E c \in Calls, d \in Devices \union {NoDevice} : Reject(s, c, d)

Next ==
  \/ \E s \in Slots : Receive(s) \/ Continue(s) \/ \E u \in Users, k \in Kinds : Fire(s, u, k)
  \/ \E u \in Users : Age(u) \/ \E k \in Kinds : ReclaimOrphan(u, k)
  \/ Crash

(* An execution is resumed when what it awaits is there; a deadline, armed  *)
(* for good or re-armed before it is handled, is handled at last.          *)
Fairness ==
  /\ \A s \in Slots : WF_vars(Continue(s))
  /\ \A u \in Users : SF_vars(\E s \in Slots : Fire(s, u, "no_answer"))

Spec     == Init /\ [][Next]_vars
FairSpec == Spec /\ Fairness

-----------------------------------------------------------------------------
\* Every variable stays in its range; a socket is announced as an account's only
\* while it is connected.
TypeOK ==
  /\ reg \in Registers
  /\ own \in [Calls -> [Users -> Ownerships]]
  /\ hist \in [Calls -> Rows]
  /\ nextCall \in 1 .. MaxCalls + 1
  /\ announced \subseteq Calls
  /\ live \subseteq Sockets /\ tagged \subseteq live
  /\ proc \in [Slots -> Execs]
  /\ loop \in Slots \union {None}
  /\ crashes \in 0 .. MaxCrashes
  /\ winners \in [Calls -> [Users -> SUBSET Devices]]
  /\ excused \subseteq Calls

-----------------------------------------------------------------------------
(* What must hold in both storage modes.                                   *)

\* tryClaim, "premier device qui gagne": whatever answers, refusals, hang-ups
\* and deadlines interleave, one device of an account at most wins a call.
AtMostOneAnswer ==
  \A c \in Calls, u \in Users : \A d, e \in winners[c][u] : d = e

\* "N'invente jamais d'entree": once a call that was announced has lost its
\* ownership rows, no late claim brings one back.
ReleasedForGood ==
  [][\A c \in announced : own[c] = NoOwners => own'[c] = NoOwners]_vars

(* What must hold in one process with its Maps. An event is handled up to  *)
(* its first wait for MySQL before another one is: loop = None in between. *)

\* The two entries of a call name each other, the same call and the same
\* status: between two accounts no order of events leaves one of them in a
\* call, or ringing, that the other has left.
PairAgrees ==
  loop = None =>
    \A u \in Users :
      LET e == reg.entry[u]
      IN Active(e) =>
           LET f == reg.entry[e.peer]
           IN f.status = e.status /\ f.call = e.call /\ f.peer = u

\* A callee that rings has a no-answer deadline armed for that very call,
\* so that no ring outlives its deadline (scheduleNoAnswer in call_user).
EveryRingIsTimed ==
  loop = None =>
    \A u \in Users :
      LET e == reg.entry[u]  j == reg.timer[u]["no_answer"]
      IN e.status = "ringing" /\ hist[e.call].callee = u =>
           j.armed /\ j.call = e.call /\ j.peer = e.peer

\* end_call and closeCallHistory keep a call from staying "en cours" for life:
\* an announced call whose row still says initiated is held by an entry or
\* by an execution that is about to close it. Set apart: a crash, a ring
\* overwritten by another call's, and an UPDATE that failed, which no handler
\* tries again.
HistorySettled ==
  loop = None /\ crashes = 0 =>
    \A c \in announced \ excused :
      hist[c].status = "initiated" =>
        \/ \E u \in Users : Active(reg.entry[u]) /\ reg.entry[u].call = c
        \/ \E s \in Slots : c \in {proc[s].c, proc[s].jc}

\* A ring ends: answered, refused, hung up or given up at its deadline.
Rings(c) == \E u \in Users : reg.entry[u].status = "ringing" /\ reg.entry[u].call = c
RingingEnds == \A c \in Calls : Rings(c) ~> ~Rings(c)

-----------------------------------------------------------------------------
(* What comments and documents of the repository say, and the code does not *)
(* do: checked with one process and its Maps, events handled one at a time. *)

\* reclaimStaleBusy purges phantoms, "appel precedent [...] jamais nettoye". A
\* ring with its no-answer deadline armed is none: its callee may be waking up.
ReclaimOnlyPhantoms ==
  [][(\E s \in Slots, x \in Sockets, t \in Users : CallUser(s, x, t)) =>
       \A u \in Users :
         reg.entry[u].status = "ringing" /\ reg.timer[u]["no_answer"].armed =>
           Active(reg'.entry[u])]_vars

\* A late refusal, one whose caller is no longer in the call when it is
\* examined, does not turn an answered call into a refused one: "un appel
\* abouti devenait Rejete" is the very defect an earlier fix removed.
LateRejectSparesAnswered ==
  [][\A s \in Slots :
       LET p == proc[s]
       IN /\ p.at = "rej_hist" /\ proc'[s].at # "rej_hist"
          /\ ~p.match /\ hist[p.c].status = "answered"
          => hist'[p.c].status = "answered"]_vars

\* "ne doit rien emporter": an account in a call keeps its row in the device
\* ownership of that call, graces that were ignored included.
InCallKeepsOwner ==
  loop = None =>
    \A u \in Users : reg.entry[u].status = "in_call" =>
                       own[reg.entry[u].call][u].state # "none"

\* "un appel dont le telephone est parti ne doit pas survivre parce qu'une
\* tablette est connectee": some deadline runs on the account.
DepartedPhoneIsTimed ==
  loop = None =>
    \A u \in Users :
      LET e == reg.entry[u]  o == Owner(e.call, u)
      IN e.status = "in_call" /\ o.dev \in Devices \ ConnectedDevs /\ Connected(u) =>
           \E k \in Kinds : reg.timer[u][k].armed
=============================================================================
