--------------------------- MODULE OneToOneCallsProofs ---------------------------
(***************************************************************************)
(* Proofs about OneToOneCalls, for any accounts, devices, slots and bounds *)
(* and for both storage modes: type correctness, that one device of an     *)
(* account at most wins a call, and that a released call is never claimed  *)
(* again; in one process with its Maps, that a callee who rings has his    *)
(* no-answer deadline armed, and between two accounts that the two entries *)
(* of a call agree and that the row of a call nobody holds is closed.      *)
(***************************************************************************)
EXTENDS OneToOneCalls, TLAPS

-----------------------------------------------------------------------------
(* Registers whose active entries name a call and a peer.                  *)

EntriesOK(r) == \A u \in Users : Active(r.entry[u]) =>
                   r.entry[u].call \in Calls /\ r.entry[u].peer \in Users

GoodRegister(r) == r \in Registers /\ EntriesOK(r)

\* Writing one entry, as SET does, keeps the register well formed.
LEMMA WriteGood ==
  ASSUME NEW r, GoodRegister(r), NEW u, NEW e \in Entries,
         Active(e) => e.call \in Calls /\ e.peer \in Users
  PROVE  GoodRegister(Write(r, u, e))
<1>1. NoTimers \in [Kinds -> Jobs]
  BY DEF NoTimers, Kinds, Jobs, NoJob
<1>2. r.entry \in [Users -> Entries] /\ r.timer \in [Users -> [Kinds -> Jobs]]
  BY DEF GoodRegister, Registers
<1>3. Write(r, u, e) \in Registers
  BY <1>1, <1>2 DEF Write, Registers
<1>4. EntriesOK(Write(r, u, e))
  BY <1>2 DEF Write, EntriesOK, GoodRegister
<1> QED BY <1>3, <1>4 DEF GoodRegister

\* setRinging, setInCall and clear keep the register well formed.
LEMMA WritesGood ==
  ASSUME NEW r, GoodRegister(r), NEW u, NEW c \in Calls, NEW p \in Users
  PROVE  /\ GoodRegister(SetRinging(r, u, c, p))
         /\ GoodRegister(SetInCall(r, u, c, p))
         /\ GoodRegister(Clear(r, u))
<1>1. Ringing(c, p) \in Entries /\ InCall(c, p) \in Entries /\ NoEntry \in Entries
  BY DEF Ringing, InCall, NoEntry, Entries
<1>2. ~Active(NoEntry)
  BY DEF Active, NoEntry
<1>3. Ringing(c, p).call = c /\ Ringing(c, p).peer = p
      /\ InCall(c, p).call = c /\ InCall(c, p).peer = p
  BY DEF Ringing, InCall
<1> QED BY <1>1, <1>2, <1>3, WriteGood DEF SetRinging, SetInCall, Clear

\* Deleting deadlines keeps the register well formed and its entries.
LEMMA CancelGood ==
  ASSUME NEW r, GoodRegister(r), NEW u, NEW ks
  PROVE  GoodRegister(Cancel(r, u, ks)) /\ Cancel(r, u, ks).entry = r.entry
<1>1. r.entry \in [Users -> Entries] /\ r.timer \in [Users -> [Kinds -> Jobs]]
      /\ r = [entry |-> r.entry, timer |-> r.timer]
  BY DEF GoodRegister, Registers
<1>2. NoJob \in Jobs
  BY DEF Jobs, NoJob
<1>3. ASSUME u \in Users
      PROVE  [k \in Kinds |-> IF k \in ks THEN NoJob ELSE r.timer[u][k]] \in [Kinds -> Jobs]
  BY <1>1, <1>2, <1>3
<1>4. Cancel(r, u, ks) \in Registers /\ Cancel(r, u, ks).entry = r.entry
  BY <1>1, <1>3 DEF Cancel, Registers
<1> QED BY <1>4 DEF GoodRegister, EntriesOK

\* So does arming a deadline,
LEMMA ScheduleGood ==
  ASSUME NEW r, GoodRegister(r), NEW u, NEW k,
         NEW c \in Calls \union {NoCall}, NEW p \in Users \union {None}
  PROVE  GoodRegister(Schedule(r, u, k, c, p))
<1> DEFINE q == Cancel(r, u, CancelledBy(k))
<1>1. GoodRegister(q)
  BY CancelGood
<1> HIDE DEF q
<1>2. q.entry \in [Users -> Entries] /\ q.timer \in [Users -> [Kinds -> Jobs]]
      /\ q = [entry |-> q.entry, timer |-> q.timer]
  BY <1>1 DEF GoodRegister, Registers
<1>3. Job(c, p) \in Jobs
  BY DEF Jobs, Job
<1>4. Enqueue(q, u, k, c, p) \in Registers /\ Enqueue(q, u, k, c, p).entry = q.entry
  BY <1>2, <1>3 DEF Enqueue, Registers
<1>5. GoodRegister(Enqueue(q, u, k, c, p))
  BY <1>1, <1>4 DEF GoodRegister, EntriesOK
<1> QED BY <1>5 DEF Schedule, q

\* locking its row,
LEMMA LockGood ==
  ASSUME NEW r, GoodRegister(r), NEW u \in Users, NEW k \in Kinds, NEW l \in Slots \union {None}
  PROVE  GoodRegister(Lock(r, u, k, l))
<1>1. r.entry \in [Users -> Entries] /\ r.timer \in [Users -> [Kinds -> Jobs]]
      /\ r = [entry |-> r.entry, timer |-> r.timer]
  BY DEF GoodRegister, Registers
<1> DEFINE j == [r.timer[u][k] EXCEPT !.lock = l]
<1>a. r.timer[u][k] \in Jobs
  BY <1>1
<1>2. j \in Jobs
  BY <1>a DEF Jobs
<1>3. [r EXCEPT !.timer[u][k] = j] \in Registers /\ [r EXCEPT !.timer[u][k] = j].entry = r.entry
  <2> HIDE DEF j
  <2> QED BY <1>1, <1>2 DEF Registers
<1> QED BY <1>3 DEF Lock, GoodRegister, EntriesOK

\* the passing of time,
LEMMA AgeGood ==
  ASSUME NEW r, GoodRegister(r), NEW u \in Users
  PROVE  GoodRegister(GoStale(r, u))
<1>1. r.entry \in [Users -> Entries] /\ r.timer \in [Users -> [Kinds -> Jobs]]
      /\ r = [entry |-> r.entry, timer |-> r.timer]
  BY DEF GoodRegister, Registers
<1> DEFINE e == [r.entry[u] EXCEPT !.stale = TRUE]
<1>2. e \in Entries /\ e.status = r.entry[u].status
      /\ e.call = r.entry[u].call /\ e.peer = r.entry[u].peer
  BY <1>1 DEF Entries
<1>3. [r EXCEPT !.entry[u] = e] \in Registers
      /\ [r EXCEPT !.entry[u] = e].entry = [r.entry EXCEPT ![u] = e]
  <2> HIDE DEF e
  <2> QED BY <1>1, <1>2 DEF Registers
<1>4. EntriesOK([r EXCEPT !.entry[u] = e])
  <2> HIDE DEF e
  <2> QED BY <1>1, <1>2, <1>3 DEF EntriesOK, GoodRegister, Active
<1> QED BY <1>3, <1>4 DEF GoodRegister, GoStale

\* clearing an account,
LEMMA ClearGood ==
  ASSUME NEW r, GoodRegister(r), NEW u
  PROVE  GoodRegister(Clear(r, u))
<1>1. NoEntry \in Entries /\ ~Active(NoEntry)
  BY DEF NoEntry, Entries, Active
<1> QED BY <1>1, WriteGood DEF Clear

\* and the two purges of call_user, the account and its peer included.
LEMMA PurgesGood ==
  ASSUME NEW r, GoodRegister(r), NEW u, NEW connected
  PROVE  GoodRegister(ClearStaleRinging(r, u)) /\ GoodRegister(ReclaimStaleBusy(r, u, connected))
<1>1. \A too : GoodRegister(ClearWithPeer(r, u, too))
  BY ClearGood DEF ClearWithPeer
<1> QED BY <1>1 DEF ClearStaleRinging, ReclaimStaleBusy

-----------------------------------------------------------------------------
(* The inductive invariant. An execution of call_user holds a call nobody   *)
(* else knows until its ownership rows are written; a claim is only made on *)
(* a call that has been announced.                                         *)

Opening == {"own", "ring_callee", "ring_caller", "arm_read"}

Holds(p, c) == \/ p.at \in Opening /\ p.c = c
               \/ p.at = "arm" /\ p.k = "no_answer" /\ p.jc = c

\* The points of a deadline from which the entry of the account is read.
Reading == {"sched_read", "grace_check", "ea_read"}

ExecOK(p, n, a) ==
  /\ p.at \in CallUserAt \union AnswerAt => p.u \in Users /\ p.v \in Users /\ p.x \in Sockets
  /\ p.at \in Opening \union AnswerAt => p.c \in Calls /\ p.c < n
  /\ p.at \in AnswerAt => p.c \in a
  /\ p.at = "arm" /\ p.k = "no_answer" => p.jc \in Calls /\ p.jc < n
  /\ p.at = "sched_read" => p.k # "no_answer"
  /\ p.at \in Reading => p.u \in Users

ExecsOK(pr, n, a) == \A s \in Slots : ExecOK(pr[s], n, a)

FreshOK(pr, a) ==
  \A s \in Slots : pr[s].at = "own" =>
    pr[s].c \notin a /\ \A r \in Slots \ {s} : ~Holds(pr[r], pr[s].c)

WonOK(w, o, d) == w = {d} /\ o \in {ActiveOn(d), NoOwner}

WinnersOK(w, o, a) ==
  \A c \in Calls, u \in Users :
    \/ w[c][u] = {}
    \/ c \in a /\ \E d \in Devices : WonOK(w[c][u], o[c][u], d)

Inv ==
  /\ TypeOK
  /\ GoodRegister(reg)
  /\ \A c \in announced : c < nextCall
  /\ ExecsOK(proc, nextCall, announced)
  /\ FreshOK(proc, announced)
  /\ WinnersOK(winners, own, announced)

-----------------------------------------------------------------------------
(* One execution moves.                                                    *)

\* One execution goes on: the clauses about executions hold if they hold of it.
LEMMA ExecStep ==
  ASSUME NEW pr \in [Slots -> Execs], NEW n \in Int, NEW a \in SUBSET Calls,
         NEW m \in Int, NEW b \in SUBSET Calls, NEW s \in Slots, NEW q \in Execs,
         ExecsOK(pr, n, a), FreshOK(pr, a), n <= m, a \subseteq b, ExecOK(q, m, b),
         \A c \in b \ a : Holds(pr[s], c),
         \A c : Holds(q, c) => Holds(pr[s], c) \/ (c = n /\ q.at = "own"),
         q.at = "own" => q.c = n /\ n \notin b
  PROVE  ExecsOK([pr EXCEPT ![s] = q], m, b) /\ FreshOK([pr EXCEPT ![s] = q], b)
<1> DEFINE pr2 == [pr EXCEPT ![s] = q]
<1>1. pr2 \in [Slots -> Execs] /\ pr2[s] = q /\ \A r \in Slots \ {s} : pr2[r] = pr[r]
  OBVIOUS
<1> HIDE DEF pr2
<1>2. \A c \in Calls : c \in Int
  BY OneToOneAssumption DEF Calls
<1>3. ExecsOK(pr2, m, b)
  <2> SUFFICES ASSUME NEW r \in Slots PROVE ExecOK(pr2[r], m, b)
    BY DEF ExecsOK
  <2>1. CASE r = s
    BY <2>1, <1>1
  <2>2. CASE r # s
    <3>1. ExecOK(pr[r], n, a) /\ pr2[r] = pr[r]
      BY <2>2, <1>1 DEF ExecsOK
    <3> QED BY <3>1, <1>2 DEF ExecOK
  <2> QED BY <2>1, <2>2
<1>4. \A r \in Slots : \A c : Holds(pr[r], c) => c < n
  BY DEF ExecsOK, ExecOK, Holds
<1>5. FreshOK(pr2, b)
  <2> SUFFICES ASSUME NEW r \in Slots, pr2[r].at = "own"
               PROVE  pr2[r].c \notin b /\ \A t \in Slots \ {r} : ~Holds(pr2[t], pr2[r].c)
    BY DEF FreshOK
  <2>1. CASE r = s
    BY <2>1, <1>1, <1>4
  <2>2. CASE r # s
    <3>1. pr[r].at = "own" /\ pr2[r] = pr[r]
      BY <2>2, <1>1
    <3>2. pr[r].c \notin a /\ \A t \in Slots \ {r} : ~Holds(pr[t], pr[r].c)
      BY <3>1 DEF FreshOK
    <3>3. pr[r].c \notin b
      BY <3>2, <2>2
    <3>4. pr[r].c # n
      BY <3>1, <1>4 DEF Holds, Opening
    <3>5. ~Holds(q, pr[r].c)
      BY <3>2, <3>4, <2>2
    <3> QED BY <3>1, <3>2, <3>3, <3>5, <1>1
  <2> QED BY <2>1, <2>2
<1> QED BY <1>3, <1>5 DEF pr2

(* Most steps neither announce a call nor claim a device, and leave their   *)
(* execution where it holds no call.                                       *)

Harmless(q) ==
  /\ q \in Execs
  /\ q.at \notin CallUserAt \union AnswerAt
  /\ q.at \in {"arm", "sched_read"} => q.k # "no_answer"
  /\ q.at \in Reading => q.u \in Users

Quiet ==
  /\ GoodRegister(reg')
  /\ own' = own \/ (\E c : own' = Released(c)) \/ own' = [c \in Calls |-> NoOwners]
  /\ hist' \in [Calls -> Rows]
  /\ UNCHANGED <<nextCall, announced, winners>> /\ excused' \subseteq Calls
  /\ crashes' \in 0 .. MaxCrashes
  /\ live' \subseteq Sockets /\ tagged' \subseteq live'
  /\ loop' \in Slots \union {None}
  /\ \/ proc' = proc
     \/ \E s \in Slots : \E q : Harmless(q) /\ proc' = [proc EXCEPT ![s] = q]
     \/ proc' = [s \in Slots |-> Idle]

\* A released call has no owner.
LEMMA NoOwnersType == NoOwners \in [Users -> Ownerships]
BY DEF NoOwners, NoOwner, Ownerships

\* release leaves a table of ownerships, and only empties rows.
LEMMA ReleasedType ==
  ASSUME own \in [Calls -> [Users -> Ownerships]], NEW c
  PROVE  /\ Released(c) \in [Calls -> [Users -> Ownerships]]
         /\ \A d \in Calls : Released(c)[d] \in {own[d], NoOwners}
BY NoOwnersType DEF Released

\* An execution that holds no call satisfies every clause.
LEMMA HarmlessOK ==
  ASSUME NEW q, Harmless(q), NEW n, NEW a
  PROVE  ExecOK(q, n, a) /\ q.at # "own" /\ \A c : ~Holds(q, c)
BY DEF Harmless, ExecOK, Holds, Opening, CallUserAt, AnswerAt

\* A free slot holds no call.
LEMMA IdleHarmless == Harmless(Idle)
BY DEF Harmless, Idle, Execs, CallUserAt, AnswerAt, Reading

\* A step that opens no ownership, claims none and moves one harmless execution
\* keeps the invariant.
LEMMA QuietStep == Inv /\ Quiet => Inv'
<1> SUFFICES ASSUME Inv, Quiet PROVE Inv'
  OBVIOUS
<1> USE DEF Inv
<1>1. own' \in [Calls -> [Users -> Ownerships]]
      /\ \A c \in Calls : own'[c] \in {own[c], NoOwners}
  BY ReleasedType, NoOwnersType DEF Quiet, TypeOK
<1>2. proc \in [Slots -> Execs] /\ announced \in SUBSET Calls /\ nextCall \in Int
  BY OneToOneAssumption DEF TypeOK
<1>3. proc' \in [Slots -> Execs]
      /\ ExecsOK(proc', nextCall, announced) /\ FreshOK(proc', announced)
  <2>1. CASE proc' = proc
    BY <2>1, <1>2
  <2>2. ASSUME NEW s \in Slots, NEW q, Harmless(q), proc' = [proc EXCEPT ![s] = q]
        PROVE  proc' \in [Slots -> Execs]
               /\ ExecsOK(proc', nextCall, announced) /\ FreshOK(proc', announced)
    <3>1. q \in Execs
      BY <2>2 DEF Harmless
    <3>2. ExecOK(q, nextCall, announced) /\ q.at # "own" /\ \A c : ~Holds(q, c)
      BY <2>2, HarmlessOK
    <3>a. ExecsOK(proc, nextCall, announced) /\ FreshOK(proc, announced)
          /\ nextCall <= nextCall /\ announced \subseteq announced
          /\ \A c \in announced \ announced : Holds(proc[s], c)
      BY <1>2
    <3>b. /\ \A c : Holds(q, c) => Holds(proc[s], c) \/ (c = nextCall /\ q.at = "own")
          /\ q.at = "own" => q.c = nextCall /\ nextCall \notin announced
      BY <3>2
    <3>3. ExecsOK([proc EXCEPT ![s] = q], nextCall, announced)
          /\ FreshOK([proc EXCEPT ![s] = q], announced)
      <4> HIDE DEF Inv
      <4> QED BY <3>1, <3>2, <3>a, <3>b, <1>2, ExecStep
    <3> QED BY <3>1, <3>3, <2>2, <1>2
  <2>3. CASE proc' = [s \in Slots |-> Idle]
    BY <2>3, IdleHarmless, HarmlessOK DEF Harmless, ExecsOK, FreshOK
  <2> QED BY <2>1, <2>2, <2>3 DEF Quiet
<1>4. TypeOK'
  BY <1>1, <1>3 DEF Quiet, TypeOK, GoodRegister
<1>5. WinnersOK(winners, own', announced)
  <2> SUFFICES ASSUME NEW c \in Calls, NEW u \in Users, winners[c][u] # {}
               PROVE  c \in announced /\ \E d \in Devices : WonOK(winners[c][u], own'[c][u], d)
    BY DEF WinnersOK
  <2>1. c \in announced
    BY DEF WinnersOK
  <2>2. PICK d \in Devices : WonOK(winners[c][u], own[c][u], d)
    BY DEF WinnersOK
  <2>3. own'[c][u] \in {own[c][u], NoOwner}
    BY <1>1 DEF NoOwners
  <2> QED BY <2>1, <2>2, <2>3 DEF WonOK
<1> QED BY <1>3, <1>4, <1>5 DEF Quiet

-----------------------------------------------------------------------------
(* How an execution goes on.                                               *)

\* An execution that goes on or is done changes its slot only.
LEMMA GoneOn ==
  ASSUME NEW s \in Slots, NEW q, Goto(s, q) \/ (q = Idle /\ Done(s))
  PROVE  proc' = [proc EXCEPT ![s] = q] /\ loop' \in Slots \union {None}
BY DEF Goto, Done

\* The points past which an execution holds no call and claims nothing.
Safe == Points \ (CallUserAt \union AnswerAt \union Reading \union {"arm"})

\* Past these points an execution is harmless.
LEMMA HarmlessAt ==
  ASSUME NEW p \in Execs, NEW pt \in Safe
  PROVE  Harmless([p EXCEPT !.at = pt])
<1>1. [p EXCEPT !.at = pt] \in Execs /\ [p EXCEPT !.at = pt].at = pt
  BY DEF Execs, Safe
<1> QED BY <1>1 DEF Harmless, Safe, Reading

\* An execution that goes on to a point of Safe, or is done.
GoesOn(s) ==
  \/ \E p \in Execs : \E pt \in Safe : Goto(s, [p EXCEPT !.at = pt])
  \/ \E q : Harmless(q) /\ Goto(s, q)
  \/ Done(s)

\* A step to such a point moves one execution to a harmless state.
LEMMA Moves ==
  ASSUME TypeOK, NEW s \in Slots, GoesOn(s)
  PROVE  /\ loop' \in Slots \union {None}
         /\ \E r \in Slots : \E q : Harmless(q) /\ proc' = [proc EXCEPT ![r] = q]
BY GoneOn, HarmlessAt, IdleHarmless DEF GoesOn

\* The refusals, the hang-ups and the deadlines are such points.
LEMMA SafePoints ==
  (RejectAt \union EndAt \union NoAnswerAt \union (CascadeAt \ Reading)
     \union {"cancel_grace", "confirm", "finish"}) \subseteq Safe
BY DEF Safe, Reading, Points, RejectAt, EndAt, NoAnswerAt, CascadeAt, TimerAt, CallUserAt, AnswerAt

\* The end of a deadline is such a step.
LEMMA FinishGoesOn ==
  ASSUME NEW s \in Slots, NEW p \in Execs, Finish(s, p)
  PROVE  GoesOn(s)
BY SafePoints DEF Finish, GoesOn

(* Steps that change the register only.                                    *)

RegisterOnly == UNCHANGED <<own, hist, nextCall, announced, live, tagged>> /\ Keep

\* A step that changes the register only is quiet,
LEMMA RegisterStep ==
  ASSUME Inv, RegisterOnly, GoodRegister(reg'), NEW s \in Slots, GoesOn(s)
  PROVE  Quiet
<1>1. TypeOK
  BY DEF Inv
<1>2. loop' \in Slots \union {None}
      /\ \E r \in Slots : \E q : Harmless(q) /\ proc' = [proc EXCEPT ![r] = q]
  BY <1>1, Moves
<1> QED BY <1>1, <1>2 DEF Quiet, RegisterOnly, Keep, TypeOK

\* as these actions are.
LEMMA RegisterActions ==
  ASSUME Inv, NEW s \in Slots,
         \/ RejectCallee(s) \/ RejectCaller(s) \/ EndSelf(s) \/ EndPeer(s)
         \/ CancelGrace(s) \/ Confirm(s) \/ NoAnswerRead(s) \/ NoAnswerTarget(s)
         \/ NoAnswerCaller(s) \/ GraceCheck(s) \/ EndActiveRead(s) \/ EndActiveSelf(s)
         \/ EndActivePeer(s) \/ FinishJob(s)
  PROVE  Quiet
<1>1. proc[s] \in Execs /\ GoodRegister(reg)
  BY DEF Inv, TypeOK
<1> USE SafePoints DEF RejectAt, EndAt, NoAnswerAt, CascadeAt, Reading
<1>2. CASE RejectCallee(s)
  <2>1. RegisterOnly /\ GoodRegister(reg') /\ GoesOn(s)
    BY <1>1, <1>2, ClearGood DEF RejectCallee, RegisterOnly, GoesOn
  <2> QED BY <2>1, RegisterStep
<1>3. CASE RejectCaller(s)
  <2>1. RegisterOnly /\ GoodRegister(reg') /\ GoesOn(s)
    BY <1>1, <1>3, ClearGood DEF RejectCaller, RegisterOnly, GoesOn
  <2> QED BY <2>1, RegisterStep
<1>4. CASE EndSelf(s)
  <2>1. RegisterOnly /\ GoodRegister(reg') /\ GoesOn(s)
    BY <1>1, <1>4, ClearGood DEF EndSelf, RegisterOnly, GoesOn
  <2> QED BY <2>1, RegisterStep
<1>5. CASE EndPeer(s)
  <2>1. RegisterOnly /\ GoodRegister(reg') /\ GoesOn(s)
    BY <1>1, <1>5, ClearGood DEF EndPeer, RegisterOnly, GoesOn
  <2> QED BY <2>1, RegisterStep
<1>6. CASE CancelGrace(s)
  <2>1. RegisterOnly /\ GoodRegister(reg') /\ GoesOn(s)
    BY <1>1, <1>6, CancelGood DEF CancelGrace, RegisterOnly, GoesOn
  <2> QED BY <2>1, RegisterStep
<1>7. CASE Confirm(s)
  <2>1. RegisterOnly /\ GoodRegister(reg') /\ GoesOn(s)
    BY <1>1, <1>7, CancelGood DEF Confirm, RegisterOnly, GoesOn, ConfirmResume
  <2> QED BY <2>1, RegisterStep
<1>8. CASE NoAnswerRead(s)
  <2>1. RegisterOnly /\ GoodRegister(reg') /\ GoesOn(s)
    BY <1>1, <1>8, FinishGoesOn DEF NoAnswerRead, RegisterOnly, GoesOn
  <2> QED BY <2>1, RegisterStep
<1>9. CASE NoAnswerTarget(s)
  <2>1. RegisterOnly /\ GoodRegister(reg') /\ GoesOn(s)
    BY <1>1, <1>9, ClearGood DEF NoAnswerTarget, RegisterOnly, GoesOn
  <2> QED BY <2>1, RegisterStep
<1>10. CASE NoAnswerCaller(s)
  <2>1. RegisterOnly /\ GoodRegister(reg') /\ GoesOn(s)
    BY <1>1, <1>10, ClearGood DEF NoAnswerCaller, RegisterOnly, GoesOn
  <2> QED BY <2>1, RegisterStep
<1>11. CASE GraceCheck(s)
  <2> DEFINE q == [proc[s] EXCEPT !.at = "ea_read"]
  <2>a. proc[s].u \in Users
    BY <1>11 DEF Inv, ExecsOK, ExecOK, GraceCheck, At
  <2>b. Harmless(q)
    BY <1>1, <2>a DEF Harmless, Execs, Points, CallUserAt, AnswerAt
  <2>1. RegisterOnly /\ GoodRegister(reg') /\ GoesOn(s)
    BY <1>1, <1>11, <2>b, CancelGood DEF GraceCheck, RegisterOnly, GoesOn
  <2> QED BY <2>1, RegisterStep
<1>12. CASE EndActiveRead(s)
  <2> DEFINE e == reg.entry[proc[s].u]
             q == [proc[s] EXCEPT !.at = "ea_self", !.v = e.peer, !.c = e.call]
  <2>a. proc[s].u \in Users
    BY <1>12 DEF Inv, ExecsOK, ExecOK, EndActiveRead, At
  <2>b. Active(e) => Harmless(q)
    <3>1. Active(e) => e.peer \in Users /\ e.call \in Calls
      BY <1>1, <2>a DEF GoodRegister, EntriesOK
    <3> QED BY <1>1, <3>1 DEF Harmless, Execs, Points, CallUserAt, AnswerAt
  <2>1. RegisterOnly /\ GoodRegister(reg') /\ GoesOn(s)
    BY <1>1, <1>12, <2>b, CancelGood DEF EndActiveRead, RegisterOnly, GoesOn
  <2> QED BY <2>1, RegisterStep
<1>13. CASE EndActiveSelf(s)
  <2>1. RegisterOnly /\ GoodRegister(reg') /\ GoesOn(s)
    BY <1>1, <1>13, ClearGood DEF EndActiveSelf, RegisterOnly, GoesOn
  <2> QED BY <2>1, RegisterStep
<1>14. CASE EndActivePeer(s)
  <2>1. RegisterOnly /\ GoodRegister(reg') /\ GoesOn(s)
    BY <1>1, <1>14, ClearGood DEF EndActivePeer, RegisterOnly, GoesOn
  <2> QED BY <2>1, RegisterStep
<1>15. CASE FinishJob(s)
  <2>1. RegisterOnly /\ GoodRegister(reg') /\ GoesOn(s)
    BY <1>1, <1>15, CancelGood DEF FinishJob, RegisterOnly, GoesOn
  <2> QED BY <2>1, RegisterStep
<1> QED BY <1>2, <1>3, <1>4, <1>5, <1>6, <1>7, <1>8, <1>9, <1>10, <1>11, <1>12, <1>13,
           <1>14, <1>15

(* Steps that change callHistory, or release the devices of a call.        *)

HistoryOnly ==
  /\ UNCHANGED <<reg, own, nextCall, announced, live, crashes, winners>>
  /\ tagged' \subseteq tagged /\ excused' \subseteq Calls
  /\ \/ hist' = hist
     \/ \E c : \E y \in {"answered", "rejected", "missed"} : hist' = SetStatus(c, y)

\* A step that changes the history only is quiet,
LEMMA HistoryStep ==
  ASSUME Inv, HistoryOnly, NEW s \in Slots, GoesOn(s)
  PROVE  Quiet
<1>1. TypeOK
  BY DEF Inv
<1>2. loop' \in Slots \union {None}
      /\ \E r \in Slots : \E q : Harmless(q) /\ proc' = [proc EXCEPT ![r] = q]
  BY <1>1, Moves
<1>3. hist' \in [Calls -> Rows]
  <2>1. ASSUME NEW c, NEW y \in {"answered", "rejected", "missed"}
        PROVE  SetStatus(c, y) \in [Calls -> Rows]
    <3>1. hist \in [Calls -> Rows]
      BY <1>1 DEF TypeOK
    <3>2. c \in Calls => [hist[c] EXCEPT !.status = y] \in Rows
      BY <3>1 DEF Rows
    <3>3. [hist EXCEPT ![c] = [hist[c] EXCEPT !.status = y]] \in [Calls -> Rows]
      <4> DEFINE w == [hist[c] EXCEPT !.status = y]
      <4> HIDE DEF w
      <4> QED BY <3>1, <3>2 DEF w
    <3> QED BY <3>3 DEF SetStatus
  <2> QED BY <1>1, <2>1 DEF TypeOK, HistoryOnly
<1> QED BY <1>1, <1>2, <1>3 DEF Inv, Quiet, HistoryOnly, TypeOK

\* as these actions are.
LEMMA HistoryActions ==
  ASSUME Inv, NEW s \in Slots,
         \/ AnswerHist(s) \/ RejectStale(s) \/ RejectHist(s) \/ RejectVoicemail(s)
         \/ NoAnswerHist(s) \/ EndActiveHist(s) \/ EndHist(s)
  PROVE  Quiet
<1>1. proc[s] \in Execs /\ excused \subseteq Calls /\ Lossy \subseteq Calls
  BY OneToOneAssumption DEF Inv, TypeOK
<1> USE SafePoints DEF RejectAt, NoAnswerAt, CascadeAt, Reading, WriteHist
<1>2. CASE RejectStale(s)
  <2>1. HistoryOnly /\ GoesOn(s)
    BY <1>1, <1>2 DEF RejectStale, HistoryOnly, GoesOn
  <2> QED BY <2>1, HistoryStep
<1>3. CASE RejectHist(s)
  <2>1. HistoryOnly /\ GoesOn(s)
    BY <1>1, <1>3 DEF RejectHist, HistoryOnly, GoesOn
  <2> QED BY <2>1, HistoryStep
<1>4. CASE RejectVoicemail(s)
  <2>1. HistoryOnly /\ GoesOn(s)
    BY <1>1, <1>4 DEF RejectVoicemail, HistoryOnly, Keep, GoesOn
  <2> QED BY <2>1, HistoryStep
<1>5. CASE NoAnswerHist(s)
  <2>1. HistoryOnly /\ GoesOn(s)
    BY <1>1, <1>5 DEF NoAnswerHist, HistoryOnly, GoesOn
  <2> QED BY <2>1, HistoryStep
<1>6. CASE EndActiveHist(s)
  <2>1. HistoryOnly /\ GoesOn(s)
    BY <1>1, <1>6 DEF EndActiveHist, HistoryOnly, GoesOn, ClosedHist
  <2> QED BY <2>1, HistoryStep
<1>7. CASE EndHist(s)
  <2>1. HistoryOnly /\ GoesOn(s)
    BY <1>1, <1>7 DEF EndHist, HistoryOnly, GoesOn, ClosedHist
  <2> QED BY <2>1, HistoryStep
<1>8. CASE AnswerHist(s)
  <2>1. HistoryOnly /\ GoesOn(s)
    BY <1>1, <1>8 DEF AnswerHist, HistoryOnly, GoesOn
  <2> QED BY <2>1, HistoryStep
<1> QED BY <1>2, <1>3, <1>4, <1>5, <1>6, <1>7, <1>8

\* The releases of an ownership are quiet.
LEMMA ReleaseActions ==
  ASSUME Inv, NEW s \in Slots,
         \/ RejectRelease(s) \/ EndRelease(s) \/ NoAnswerRelease(s) \/ ReleaseAfterEnd(s)
  PROVE  Quiet
<1>1. TypeOK /\ proc[s] \in Execs
  BY DEF Inv, TypeOK
<1>2. /\ \E c : own' = Released(c)
      /\ UNCHANGED <<reg, hist, nextCall, announced, live, tagged>> /\ Keep
  BY DEF RejectRelease, EndRelease, NoAnswerRelease, ReleaseAfterEnd
<1>3. GoesOn(s)
  BY <1>1, SafePoints, FinishGoesOn
     DEF RejectRelease, EndRelease, NoAnswerRelease, ReleaseAfterEnd, GoesOn, RejectAt, EndAt
<1>4. loop' \in Slots \union {None}
      /\ \E r \in Slots : \E q : Harmless(q) /\ proc' = [proc EXCEPT ![r] = q]
  BY <1>1, <1>3, Moves
<1> QED BY <1>2, <1>4 DEF Inv, Quiet, Keep, TypeOK

(* Requests, connections, deadlines that fire, and the rest of the world.  *)

\* A socket belongs to an account.
LEMMA SocketUser == ASSUME NEW x \in Sockets PROVE UserOf[x[1]] \in Users
BY OneToOneAssumption DEF Sockets

\* What a handler reads in the register has its type.
LEMMA EntryTypes ==
  ASSUME Inv, NEW u \in Users
  PROVE  /\ reg.entry[u] \in Entries
         /\ reg.entry[u].call \in Calls \union {NoCall}
         /\ reg.entry[u].peer \in Users \union {None}
         /\ \A k \in Kinds : /\ reg.timer[u][k].call \in Calls \union {NoCall}
                             /\ reg.timer[u][k].peer \in Users \union {None}
<1>1. reg.entry[u] \in Entries /\ \A k \in Kinds : reg.timer[u][k] \in Jobs
  BY DEF Inv, TypeOK, Registers
<1> QED BY <1>1 DEF Entries, Jobs

\* The events that read before they write are quiet.
LEMMA RequestActions ==
  ASSUME Inv, NEW s \in Slots,
         \/ ReadToSchedule(s)
         \/ \E c \in Calls, d \in Devices \union {NoDevice} : Reject(s, c, d)
         \/ \E x \in Sockets : ResumeAck(s, x) \/ ResumeReject(s, x)
  PROVE  Quiet
<1>1. proc[s] \in Execs /\ GoodRegister(reg)
  BY DEF Inv, TypeOK
<1>2. CASE ReadToSchedule(s)
  <2> DEFINE e == reg.entry[proc[s].u]
             q == [proc[s] EXCEPT !.at = "arm", !.c = e.call, !.v = e.peer]
  <2>1. proc[s].u \in Users /\ proc[s].k # "no_answer"
    BY <1>2 DEF Inv, ExecsOK, ExecOK, ReadToSchedule, At, Reading
  <2>2. Harmless(q)
    BY <1>1, <2>1, EntryTypes DEF Harmless, Execs, Points, TimerAt, CallUserAt,
       AnswerAt, Reading
  <2>3. RegisterOnly /\ GoodRegister(reg') /\ GoesOn(s)
    BY <1>1, <1>2, <2>2 DEF ReadToSchedule, RegisterOnly, GoesOn
  <2> QED BY <2>3, RegisterStep
<1>3. ASSUME NEW c \in Calls, NEW d \in Devices \union {NoDevice}, Reject(s, c, d) PROVE Quiet
  <2>1. hist[c].callee \in Users \union {None} /\ hist[c].caller \in Users \union {None}
    BY DEF Inv, TypeOK, Rows
  <2> DEFINE p == [Idle EXCEPT !.u = hist[c].callee, !.v = hist[c].caller, !.c = c]
             m == /\ Active(reg.entry[hist[c].caller])
                  /\ reg.entry[hist[c].caller].peer = hist[c].callee
                  /\ reg.entry[hist[c].caller].call = c
             q == [p EXCEPT !.at = "rej_callee", !.match = m]
  <2>2. Harmless([p EXCEPT !.at = "rej_stale"])
    BY <2>1 DEF Harmless, Idle, Execs, Points, RejectAt, CallUserAt, AnswerAt, Reading
  <2>3. m \in BOOLEAN
    BY DEF Active
  <2>4. Harmless(q)
    <3> HIDE DEF m
    <3> QED BY <2>1, <2>3 DEF Harmless, Idle, Execs, Points, RejectAt, CallUserAt,
               AnswerAt, Reading
  <2>5. RegisterOnly /\ GoodRegister(reg')
    BY <1>1, <1>3 DEF Reject, RegisterOnly
  <2>6. GoesOn(s)
    <3>1. Goto(s, [p EXCEPT !.at = "rej_stale"]) \/ Goto(s, q)
      BY <1>3 DEF Reject
    <3> QED BY <2>2, <2>4, <3>1 DEF GoesOn
  <2> QED BY <2>5, <2>6, RegisterStep
<1>4. ASSUME NEW x \in Sockets, ResumeAck(s, x) PROVE Quiet
  <2>1. Harmless([Idle EXCEPT !.at = "confirm", !.u = UserOf[x[1]]])
    BY SocketUser DEF Harmless, Idle, Execs, Points, TimerAt, CallUserAt, AnswerAt,
       Reading
  <2>2. RegisterOnly /\ GoodRegister(reg') /\ GoesOn(s)
    BY <1>1, <1>4, <2>1 DEF ResumeAck, RegisterOnly, GoesOn
  <2> QED BY <2>2, RegisterStep
<1>5. ASSUME NEW x \in Sockets, ResumeReject(s, x) PROVE Quiet
  <2>1. Harmless([Idle EXCEPT !.at = "ea_read", !.u = UserOf[x[1]],
                              !.jc = reg.entry[UserOf[x[1]]].call])
    BY SocketUser, EntryTypes
       DEF Harmless, Idle, Execs, Points, CascadeAt, CallUserAt, AnswerAt, Reading
  <2>2. RegisterOnly /\ GoodRegister(reg') /\ GoesOn(s)
    BY <1>1, <1>5, <2>1 DEF ResumeReject, RegisterOnly, GoesOn
  <2> QED BY <2>2, RegisterStep
<1> QED BY <1>2, <1>3, <1>4, <1>5

\* The sockets change; the execution goes on, or nothing is in flight.
LEMMA SocketStep ==
  ASSUME Inv, NEW s \in Slots, GoesOn(s) \/ UNCHANGED <<proc, loop>>,
         UNCHANGED <<reg, own, hist, nextCall, announced>> /\ Keep,
         live' \subseteq Sockets /\ tagged' \subseteq live'
  PROVE  Quiet
<1>1. TypeOK
  BY DEF Inv
<1>2. loop' \in Slots \union {None}
      /\ \/ proc' = proc
         \/ \E r \in Slots : \E q : Harmless(q) /\ proc' = [proc EXCEPT ![r] = q]
  BY <1>1, Moves DEF TypeOK
<1> QED BY <1>1, <1>2 DEF Inv, Quiet, Keep, TypeOK

\* So are end_call, disconnections and connections,
LEMMA SocketActions ==
  ASSUME Inv, NEW s \in Slots, NEW x \in Sockets,
         (\E t \in Users : EndCall(s, x, t)) \/ Disconnect(s, x) \/ Connect(s, x)
  PROVE  Quiet
<1> DEFINE u == UserOf[x[1]]
           e == reg.entry[u]
<1>1. u \in Users /\ e.call \in Calls \union {NoCall} /\ live \subseteq Sockets /\ tagged \subseteq live
  BY SocketUser, EntryTypes DEF Inv, TypeOK
<1>2. ASSUME NEW t \in Users, EndCall(s, x, t) PROVE Quiet
  <2> DEFINE q == [Idle EXCEPT !.at = "end_self", !.u = u, !.x = x, !.v = t, !.c = e.call]
  <2>1. Harmless(q)
    BY <1>1 DEF Harmless, Idle, Execs, Points, EndAt, CallUserAt, AnswerAt, Reading
  <2>2. GoesOn(s) \/ UNCHANGED <<proc, loop>>
    BY <1>2, <2>1 DEF EndCall, GoesOn
  <2> QED BY <1>1, <1>2, <2>2, SocketStep DEF EndCall
<1>3. CASE Disconnect(s, x)
  <2> DEFINE q == [Idle EXCEPT !.at = "sched_read", !.u = u, !.k = "grace",
                               !.match = (e.status = "ringing")]
  <2>1. Harmless(q)
    BY <1>1 DEF Harmless, Idle, Execs, Points, TimerAt, Kinds, CallUserAt, AnswerAt,
       Reading
  <2>2. GoesOn(s) \/ UNCHANGED <<proc, loop>>
    BY <1>3, <2>1 DEF Disconnect, GoesOn
  <2> QED BY <1>1, <1>3, <2>2, SocketStep DEF Disconnect, Drop
<1>4. CASE Connect(s, x)
  <2> DEFINE p == [Idle EXCEPT !.u = u]
  <2>1. Harmless([p EXCEPT !.at = "cancel_grace"])
    BY <1>1 DEF Harmless, Idle, Execs, Points, TimerAt, CallUserAt, AnswerAt, Reading
  <2>2. \A k \in {"owner_missing", "resume_ack"} : Harmless([p EXCEPT !.at = "sched_read", !.k = k])
    BY <1>1 DEF Harmless, Idle, Execs, Points, TimerAt, Kinds, CallUserAt, AnswerAt,
       Reading
  <2>3. GoesOn(s) \/ UNCHANGED <<proc, loop>>
    BY <1>4, <2>1, <2>2 DEF Connect, GoesOn
  <2> QED BY <1>1, <1>4, <2>3, SocketStep DEF Connect
<1> QED BY <1>2, <1>3, <1>4

\* the firing of a deadline, the passing of time, the reclaiming of a lock,
LEMMA DeadlineActions ==
  ASSUME Inv, NEW u \in Users, NEW k \in Kinds,
         (\E s \in Slots : Fire(s, u, k)) \/ Age(u) \/ ReclaimOrphan(u, k)
  PROVE  Quiet
<1>1. GoodRegister(reg) /\ TypeOK
  BY DEF Inv
<1>2. ASSUME NEW s \in Slots, Fire(s, u, k) PROVE Quiet
  <2> DEFINE j == reg.timer[u][k]
             f == CASE k = "no_answer" -> "na_read" [] k = "grace" -> "grace_check"
                    [] OTHER -> "ea_read"
             q == [Idle EXCEPT !.at = f, !.u = u, !.v = j.peer, !.jc = j.call, !.k = k]
  <2>1. j.call \in Calls \union {NoCall} /\ j.peer \in Users \union {None}
    BY EntryTypes
  <2>2. f \in {"na_read", "grace_check", "ea_read"}
    OBVIOUS
  <2>3. Harmless(q)
    <3> HIDE DEF f, j
    <3> QED BY <2>1, <2>2
            DEF Harmless, Idle, Execs, Points, NoAnswerAt, CascadeAt, CallUserAt, AnswerAt, Reading
  <2>4. RegisterOnly /\ GoodRegister(reg') /\ GoesOn(s)
    <3>1. GoodRegister(Lock(reg, u, k, s)) /\ GoodRegister(Cancel(reg, u, {k}))
      BY <1>1, LockGood, CancelGood
    <3> QED BY <1>2, <2>3, <3>1 DEF Fire, RegisterOnly, GoesOn
  <2> QED BY <2>4, RegisterStep
<1>3. CASE Age(u) \/ ReclaimOrphan(u, k)
  <2>1. GoodRegister(reg')
    BY <1>1, <1>3, LockGood, AgeGood DEF Age, ReclaimOrphan
  <2> QED BY <1>1, <1>3, <2>1 DEF Age, ReclaimOrphan, Quiet, Keep, TypeOK
<1> QED BY <1>2, <1>3

\* and a crash.
LEMMA CrashAction == Inv /\ Crash => Quiet
<1> SUFFICES ASSUME Inv, Crash PROVE Quiet
  OBVIOUS
<1>1. TypeOK /\ GoodRegister(reg)
  BY DEF Inv
<1>2. EmptyRegister \in Registers /\ EntriesOK(EmptyRegister)
  <2>1. NoEntry \in Entries /\ ~Active(NoEntry) /\ NoTimers \in [Kinds -> Jobs]
    BY DEF NoEntry, Entries, Active, NoTimers, NoJob, Jobs
  <2> QED BY <2>1 DEF EmptyRegister, Registers, EntriesOK
<1>3. crashes' \in 0 .. MaxCrashes
  BY <1>1, OneToOneAssumption DEF Crash, TypeOK
<1>4. live' \subseteq Sockets /\ tagged' \subseteq live'
  BY <1>1 DEF Crash, TypeOK
<1> QED BY <1>1, <1>2, <1>3, <1>4, IdleHarmless DEF Crash, Quiet, TypeOK, GoodRegister

-----------------------------------------------------------------------------
(* The steps of call_user and answer_call.                                 *)

\* A step of one execution that may open, announce or claim a call.
LEMMA LoudStep ==
  ASSUME Inv, NEW s \in Slots, NEW q \in Execs,
         proc' = [proc EXCEPT ![s] = q], loop' \in Slots \union {None},
         GoodRegister(reg'), own' \in [Calls -> [Users -> Ownerships]],
         hist' \in [Calls -> Rows], nextCall' \in 1 .. MaxCalls + 1, nextCall <= nextCall',
         announced \subseteq announced', \A c \in announced' : c \in Calls /\ c < nextCall',
         live' = live, tagged' \subseteq live, crashes' = crashes, excused' \subseteq Calls,
         winners' \in [Calls -> [Users -> SUBSET Devices]],
         ExecOK(q, nextCall', announced'), \A c \in announced' \ announced : Holds(proc[s], c),
         \A c : Holds(q, c) => Holds(proc[s], c) \/ (c = nextCall /\ q.at = "own"),
         q.at = "own" => q.c = nextCall /\ nextCall \notin announced',
         WinnersOK(winners', own', announced')
  PROVE  Inv'
<1>1. TypeOK /\ ExecsOK(proc, nextCall, announced) /\ FreshOK(proc, announced)
  BY DEF Inv
<1>2. nextCall \in Int /\ nextCall' \in Int /\ proc \in [Slots -> Execs]
      /\ announced \in SUBSET Calls /\ announced' \in SUBSET Calls
  BY <1>1, OneToOneAssumption DEF TypeOK
<1>3. ExecsOK(proc', nextCall', announced') /\ FreshOK(proc', announced')
  <2>1. ExecsOK([proc EXCEPT ![s] = q], nextCall', announced')
        /\ FreshOK([proc EXCEPT ![s] = q], announced')
    BY <1>1, <1>2, ExecStep
  <2> QED BY <2>1
<1>4. proc' \in [Slots -> Execs]
  BY <1>2
<1>5. TypeOK'
  BY <1>1, <1>2, <1>4 DEF TypeOK, GoodRegister
<1> QED BY <1>3, <1>5 DEF Inv

\* One that leaves the ownerships alone.
LEMMA CarryOn ==
  ASSUME Inv, NEW s \in Slots, NEW q \in Execs,
         proc' = [proc EXCEPT ![s] = q], loop' \in Slots \union {None}, GoodRegister(reg'),
         UNCHANGED <<own, hist, nextCall, live, winners, crashes>>,
         tagged' \subseteq live, excused' \subseteq Calls,
         announced \subseteq announced', \A c \in announced' \ announced : Holds(proc[s], c),
         ExecOK(q, nextCall, announced'), q.at # "own", \A c : Holds(q, c) => Holds(proc[s], c)
  PROVE  Inv'
<1>1. TypeOK /\ ExecOK(proc[s], nextCall, announced)
  BY DEF Inv, ExecsOK
<1>2. \A c \in announced' : c \in Calls /\ c < nextCall
  <2>1. \A c \in announced : c \in Calls /\ c < nextCall
    BY <1>1 DEF Inv, TypeOK
  <2>2. \A c : Holds(proc[s], c) => c \in Calls /\ c < nextCall
    BY <1>1 DEF ExecOK, Holds
  <2> QED BY <2>1, <2>2
<1>3. WinnersOK(winners', own', announced')
  <2>1. WinnersOK(winners, own, announced)
    BY DEF Inv
  <2> QED BY <2>1 DEF WinnersOK
<1>4. nextCall' \in 1 .. MaxCalls + 1 /\ nextCall <= nextCall'
  BY <1>1, OneToOneAssumption DEF TypeOK
<1>5. /\ own' \in [Calls -> [Users -> Ownerships]] /\ hist' \in [Calls -> Rows]
      /\ winners' \in [Calls -> [Users -> SUBSET Devices]]
      /\ ExecOK(q, nextCall', announced') /\ live' = live /\ crashes' = crashes
      /\ \A c \in announced' : c \in Calls /\ c < nextCall'
  BY <1>1, <1>2 DEF TypeOK
<1> QED BY <1>3, <1>4, <1>5, LoudStep

\* call_user keeps the invariant, from its arrival
LEMMA CallUserAction ==
  ASSUME Inv, NEW s \in Slots, NEW x \in Sockets, NEW t \in Users, CallUser(s, x, t)
  PROVE  Inv'
<1> DEFINE u == UserOf[x[1]]
           r == ClearStaleRinging(
                  ReclaimStaleBusy(ReclaimStaleBusy(reg, t, Connected(t)), u, Connected(u)), u)
           q == [Idle EXCEPT !.at = "verdict", !.u = u, !.x = x, !.v = t]
<1>1. GoodRegister(r)
  BY PurgesGood DEF Inv
<1>2. u \in Users /\ TypeOK
  BY SocketUser DEF Inv
<1>3. CASE UNCHANGED <<proc, loop>>
  <2>1. Quiet
    BY <1>1, <1>2, <1>3 DEF CallUser, Quiet, Keep, TypeOK
  <2> QED BY <2>1, QuietStep
<1>4. CASE Goto(s, q)
  <2>1. q \in Execs /\ q.at = "verdict" /\ q.u = u /\ q.x = x /\ q.v = t
    BY <1>2 DEF Idle, Execs, Points, CallUserAt
  <2>2. ExecOK(q, nextCall, announced) /\ q.at # "own" /\ \A c : ~Holds(q, c)
    <3> HIDE DEF q
    <3> QED BY <2>1, <1>2 DEF ExecOK, Holds, Opening, CallUserAt, AnswerAt, Reading
  <2>3. proc' = [proc EXCEPT ![s] = q] /\ loop' \in Slots \union {None}
    BY <1>4, GoneOn
  <2>4. /\ reg' = r /\ UNCHANGED <<own, hist, nextCall, live, winners, crashes>>
        /\ tagged' \subseteq live /\ excused' \subseteq Calls /\ announced' = announced
    BY <1>2 DEF CallUser, Keep, TypeOK
  <2> HIDE DEF q, r
  <2> QED BY <2>1, <2>2, <2>3, <2>4, <1>1, CarryOn
<1> QED BY <1>3, <1>4 DEF CallUser

\* to its verdict on the callee,
LEMMA VerdictAction == ASSUME Inv, NEW s \in Slots, Verdict(s) PROVE Inv'
<1> DEFINE p == proc[s]
           q == [p EXCEPT !.at = "insert"]
           r == ClearStaleRinging(reg, p.v)
<1>1. TypeOK /\ p \in Execs /\ GoodRegister(reg) /\ GoodRegister(r)
  BY PurgesGood DEF Inv, TypeOK
<1>2. CASE Done(s)
  <2>1. RegisterOnly /\ GoodRegister(reg') /\ GoesOn(s)
    BY <1>1, <1>2 DEF Verdict, RegisterOnly, GoesOn
  <2> QED BY <2>1, RegisterStep, QuietStep
<1>3. CASE Goto(s, q) /\ reg' = r
  <2>1. p.u \in Users /\ p.v \in Users /\ p.x \in Sockets
    BY DEF Verdict, At, Inv, ExecsOK, ExecOK, CallUserAt
  <2>2. q \in Execs /\ q.at = "insert" /\ q.u = p.u /\ q.x = p.x /\ q.v = p.v
    BY <1>1 DEF Execs, Points, CallUserAt
  <2>3. ExecOK(q, nextCall, announced) /\ q.at # "own" /\ \A c : ~Holds(q, c)
    <3> HIDE DEF q, p
    <3> QED BY <2>1, <2>2 DEF ExecOK, Holds, Opening, CallUserAt, AnswerAt, Reading
  <2>4. proc' = [proc EXCEPT ![s] = q] /\ loop' \in Slots \union {None}
    BY <1>3, GoneOn
  <2>5. /\ UNCHANGED <<own, hist, nextCall, live, winners, crashes>>
        /\ tagged' \subseteq live /\ excused' \subseteq Calls /\ announced' = announced
    BY <1>1 DEF Verdict, Keep, TypeOK
  <2> HIDE DEF q, r
  <2> QED BY <1>1, <1>3, <2>2, <2>3, <2>4, <2>5, CarryOn
<1> QED BY <1>2, <1>3 DEF Verdict

\* the INSERT of the history row,
LEMMA InsertAction == ASSUME Inv, NEW s \in Slots, InsertCall(s) PROVE Inv'
<1> DEFINE p == proc[s]
           q == [p EXCEPT !.at = "own", !.c = nextCall]
<1>1. TypeOK /\ p \in Execs /\ GoodRegister(reg)
  BY DEF Inv, TypeOK
<1>2. CASE Done(s) /\ UNCHANGED <<hist, nextCall, tagged>>
  <2>1. RegisterOnly /\ GoodRegister(reg') /\ GoesOn(s)
    BY <1>1, <1>2 DEF InsertCall, RegisterOnly, GoesOn
  <2> QED BY <2>1, RegisterStep, QuietStep
<1>3. ASSUME nextCall \in Calls, Goto(s, q), nextCall' = nextCall + 1,
             tagged' = tagged \union ({p.x} \cap live),
             hist' = [hist EXCEPT ![nextCall] =
                        [status |-> "initiated", caller |-> p.u, callee |-> p.v]]
      PROVE  Inv'
  <2>1. p.u \in Users /\ p.v \in Users /\ p.x \in Sockets
    BY DEF InsertCall, At, Inv, ExecsOK, ExecOK, CallUserAt
  <2>2. q \in Execs /\ q.at = "own" /\ q.u = p.u /\ q.x = p.x /\ q.v = p.v /\ q.c = nextCall
    BY <1>1, <1>3 DEF Execs, Points, CallUserAt
  <2>3. nextCall \in Int /\ nextCall' \in 1 .. MaxCalls + 1 /\ nextCall < nextCall'
    BY <1>3, OneToOneAssumption DEF Calls
  <2>4. announced' = announced /\ \A c \in announced : c \in Calls /\ c < nextCall /\ c < nextCall'
    <3>1. \A c \in announced : c \in Calls /\ c < nextCall /\ c \in Int
      BY <1>1, OneToOneAssumption DEF Inv, TypeOK, Calls
    <3> QED BY <3>1, <2>3 DEF InsertCall
  <2>5. ExecOK(q, nextCall', announced') /\ \A c : Holds(q, c) => c = nextCall
    <3> HIDE DEF q, p
    <3> QED BY <1>3, <2>1, <2>2, <2>3
            DEF ExecOK, Holds, Opening, CallUserAt, AnswerAt, Reading
  <2>6. nextCall \notin announced'
    BY <2>3, <2>4
  <2>7. hist' \in [Calls -> Rows] /\ tagged' \subseteq live
    <3>1. [status |-> "initiated", caller |-> p.u, callee |-> p.v] \in Rows
      BY <2>1 DEF Rows
    <3> QED BY <1>1, <1>3, <3>1 DEF TypeOK
  <2>8. proc' = [proc EXCEPT ![s] = q] /\ loop' \in Slots \union {None}
    BY <1>3, GoneOn
  <2>9. WinnersOK(winners', own', announced')
    BY DEF InsertCall, Keep, Inv
  <2>10. /\ GoodRegister(reg') /\ own' \in [Calls -> [Users -> Ownerships]]
         /\ live' = live /\ crashes' = crashes /\ excused' \subseteq Calls
         /\ winners' \in [Calls -> [Users -> SUBSET Devices]] /\ nextCall <= nextCall'
         /\ announced \subseteq announced' /\ \A c \in announced' \ announced : Holds(p, c)
    BY <1>1, <2>3, <2>4 DEF InsertCall, Keep, TypeOK
  <2> HIDE DEF q
  <2> QED BY <2>2, <2>3, <2>4, <2>5, <2>6, <2>7, <2>8, <2>9, <2>10, LoudStep
<1> QED BY <1>2, <1>3 DEF InsertCall

\* the ownerships it opens,
LEMMA OpenAction == ASSUME Inv, NEW s \in Slots, OpenOwnership(s) PROVE Inv'
<1> DEFINE p == proc[s]
           q == [p EXCEPT !.at = "ring_callee"]
<1>1. TypeOK /\ p \in Execs /\ p.at = "own" /\ ExecOK(p, nextCall, announced)
  BY DEF Inv, TypeOK, ExecsOK, OpenOwnership, At
<1>2. p.c \in Calls /\ p.c < nextCall /\ p.u \in Users /\ p.v \in Users /\ p.x \in Sockets
      /\ p.c \notin announced
  BY <1>1 DEF ExecOK, Opening, CallUserAt, Inv, FreshOK
<1>3. q \in Execs /\ q.at = "ring_callee" /\ q.u = p.u /\ q.x = p.x /\ q.v = p.v /\ q.c = p.c
  BY <1>1 DEF Execs, Points, CallUserAt
<1>4. ExecOK(q, nextCall, announced) /\ q.at # "own" /\ \A c : Holds(q, c) => Holds(p, c)
  <2> HIDE DEF q, p
  <2> QED BY <1>1, <1>2, <1>3 DEF ExecOK, Holds, Opening, CallUserAt, AnswerAt, Reading
<1>5. proc' = [proc EXCEPT ![s] = q] /\ loop' \in Slots \union {None}
  BY GoneOn DEF OpenOwnership
<1> DEFINE m == [own[p.c] EXCEPT ![p.u] = CallingOn(p.x[1]), ![p.v] = RingingOwner]
<1>6. own' = [own EXCEPT ![p.c] = m] /\ m \in [Users -> Ownerships]
  <2>1. CallingOn(p.x[1]) \in Ownerships /\ RingingOwner \in Ownerships
    BY <1>2 DEF CallingOn, RingingOwner, Ownerships, Sockets
  <2>2. own[p.c] \in [Users -> Ownerships]
    BY <1>1, <1>2 DEF TypeOK
  <2> QED BY <2>1, <2>2 DEF OpenOwnership
<1>7. own' \in [Calls -> [Users -> Ownerships]] /\ \A c \in Calls \ {p.c} : own'[c] = own[c]
  <2> HIDE DEF m
  <2> QED BY <1>1, <1>6 DEF TypeOK
<1>8. WinnersOK(winners', own', announced')
  BY <1>2, <1>7 DEF Inv, WinnersOK, OpenOwnership, Keep
<1>9. /\ announced' = announced /\ nextCall' = nextCall /\ live' = live /\ crashes' = crashes
      /\ GoodRegister(reg') /\ hist' \in [Calls -> Rows] /\ excused' \subseteq Calls
      /\ winners' \in [Calls -> [Users -> SUBSET Devices]] /\ tagged' \subseteq live
  BY <1>1 DEF Inv, OpenOwnership, Keep, TypeOK
<1>10. nextCall' \in 1 .. MaxCalls + 1 /\ nextCall <= nextCall'
       /\ \A c \in announced' : c \in Calls /\ c < nextCall'
  BY <1>1, <1>9, OneToOneAssumption DEF Inv, TypeOK
<1> HIDE DEF q
<1> QED BY <1>3, <1>4, <1>5, <1>7, <1>8, <1>9, <1>10, LoudStep

\* the two ringing states,
LEMMA RingActions ==
  ASSUME Inv, NEW s \in Slots, RingCallee(s) \/ RingCaller(s) PROVE Inv'
<1>1. ASSUME NEW x \in Users, NEW y \in Users, NEW next \in {"ring_caller", "arm_read"},
             proc[s].at \in {"ring_callee", "ring_caller"}, Ring(s, x, y, next)
      PROVE  Inv'
  <2> DEFINE p == proc[s]
             q == [p EXCEPT !.at = next]
  <2>1. TypeOK /\ p \in Execs /\ ExecOK(p, nextCall, announced)
    BY DEF Inv, TypeOK, ExecsOK
  <2>2. p.c \in Calls /\ p.c < nextCall /\ p.u \in Users /\ p.v \in Users /\ p.x \in Sockets
      /\ p.at \in {"ring_callee", "ring_caller"}
    BY <1>1, <2>1 DEF ExecOK, Opening, CallUserAt
  <2>3. q \in Execs /\ q.at = next /\ q.u = p.u /\ q.x = p.x /\ q.v = p.v /\ q.c = p.c
    BY <2>1 DEF Execs, Points, CallUserAt
  <2>4. ExecOK(q, nextCall, announced) /\ q.at # "own" /\ \A c : Holds(q, c) => Holds(p, c)
    <3> HIDE DEF q, p
    <3> QED BY <1>1, <2>1, <2>2, <2>3 DEF ExecOK, Holds, Opening, CallUserAt, AnswerAt,
               Reading
  <2>5. proc' = [proc EXCEPT ![s] = q] /\ loop' \in Slots \union {None}
    BY <1>1, GoneOn DEF Ring
  <2>6. GoodRegister(reg')
    BY <1>1, <2>2, WritesGood DEF Inv, Ring
  <2>7. excused' \subseteq Calls
    BY <1>1, <2>1 DEF Ring, TypeOK, Inv, GoodRegister, EntriesOK, Active
  <2>8. /\ UNCHANGED <<own, hist, nextCall, live, winners, crashes>> /\ tagged' \subseteq live
        /\ announced' = announced
    BY <1>1, <2>1 DEF Ring, TypeOK
  <2> HIDE DEF q
  <2> QED BY <2>3, <2>4, <2>5, <2>6, <2>7, <2>8, CarryOn
<1>2. proc[s].at \in {"ring_callee", "ring_caller"} => proc[s].u \in Users /\ proc[s].v \in Users
  BY DEF Inv, ExecsOK, ExecOK, CallUserAt
<1> QED BY <1>1, <1>2 DEF RingCallee, RingCaller, At

\* and the deadline: what it reads
LEMMA ArmReadAction == ASSUME Inv, NEW s \in Slots, ReadForNoAnswer(s) PROVE Inv'
<1> DEFINE p == proc[s]
           e == reg.entry[p.v]
           q == [Idle EXCEPT !.at = "arm", !.k = "no_answer", !.u = p.v,
                             !.c = e.call, !.v = e.peer, !.jc = p.c]
<1>1. TypeOK /\ p \in Execs /\ p.at = "arm_read" /\ ExecOK(p, nextCall, announced)
  BY DEF Inv, TypeOK, ExecsOK, ReadForNoAnswer, At
<1>2. p.c \in Calls /\ p.c < nextCall /\ p.v \in Users /\ Holds(p, p.c)
  BY <1>1 DEF ExecOK, Opening, CallUserAt, Holds
<1>3. e.call \in Calls \union {NoCall} /\ e.peer \in Users \union {None}
  BY <1>2, EntryTypes
<1>4. q \in Execs /\ q.at = "arm" /\ q.k = "no_answer" /\ q.jc = p.c
  BY <1>2, <1>3 DEF Idle, Execs, Points, TimerAt, Kinds
<1>5. ExecOK(q, nextCall, announced) /\ q.at # "own" /\ \A c : Holds(q, c) => Holds(p, c)
  <2> HIDE DEF q, p
  <2> QED BY <1>2, <1>4 DEF ExecOK, Holds, Opening, CallUserAt, AnswerAt, Reading
<1>6. \A a : ExecOK(Idle, nextCall, a) /\ Idle \in Execs /\ Idle.at # "own" /\ \A c : ~Holds(Idle, c)
  BY IdleHarmless, HarmlessOK DEF Harmless
<1>7. /\ UNCHANGED <<own, hist, nextCall, live, winners, crashes>> /\ tagged' \subseteq live
      /\ excused' \subseteq Calls /\ GoodRegister(reg')
  BY <1>1 DEF Inv, ReadForNoAnswer, Keep, TypeOK
<1>8. CASE Goto(s, q) /\ UNCHANGED announced
  <2>1. proc' = [proc EXCEPT ![s] = q] /\ loop' \in Slots \union {None}
    BY <1>8, GoneOn
  <2> HIDE DEF q
  <2> QED BY <1>4, <1>5, <1>7, <1>8, <2>1, CarryOn
<1>9. CASE Done(s) /\ announced' = announced \union {p.c}
  <2>1. proc' = [proc EXCEPT ![s] = Idle] /\ loop' \in Slots \union {None}
    BY <1>9, GoneOn
  <2>2. announced \subseteq announced' /\ \A c \in announced' \ announced : Holds(p, c)
    BY <1>2, <1>9
  <2> QED BY <1>6, <1>7, <2>1, <2>2, CarryOn
<1> QED BY <1>8, <1>9 DEF ReadForNoAnswer

\* and what it writes.
LEMMA ArmAction == ASSUME Inv, NEW s \in Slots, Arm(s) PROVE Inv'
<1> DEFINE p == proc[s]
<1>1. TypeOK /\ p \in Execs /\ p.at = "arm" /\ ExecOK(p, nextCall, announced)
  BY DEF Inv, TypeOK, ExecsOK, Arm, At
<1>2. p.c \in Calls \union {NoCall} /\ p.v \in Users \union {None}
  BY <1>1 DEF Execs
<1>3. GoodRegister(reg')
  BY <1>2, ScheduleGood DEF Inv, Arm
<1>4. ExecOK(Idle, nextCall, announced') /\ Idle \in Execs /\ Idle.at # "own"
      /\ \A c : ~Holds(Idle, c)
  BY IdleHarmless, HarmlessOK DEF Harmless
<1>5. proc' = [proc EXCEPT ![s] = Idle] /\ loop' \in Slots \union {None}
  BY GoneOn DEF Arm
<1>6. announced \subseteq announced' /\ \A c \in announced' \ announced : Holds(p, c)
  BY <1>1 DEF Arm, Holds
<1>7. /\ UNCHANGED <<own, hist, nextCall, live, winners, crashes>> /\ tagged' \subseteq live
      /\ excused' \subseteq Calls
  BY <1>1 DEF Arm, Keep, TypeOK
<1> QED BY <1>3, <1>4, <1>5, <1>6, <1>7, CarryOn

\* An execution of answer_call goes on, for the same call, account and socket.
AnswerExec(q) ==
  /\ q \in Execs /\ q.at \in AnswerAt
  /\ q.u \in Users /\ q.v \in Users /\ q.x \in Sockets /\ q.c \in announced

\* An answer satisfies the clauses about executions,
LEMMA AnswerOK ==
  ASSUME Inv, NEW q, AnswerExec(q)
  PROVE  q \in Execs /\ ExecOK(q, nextCall, announced) /\ q.at # "own" /\ \A c : ~Holds(q, c)
<1>1. q.c \in Calls /\ q.c < nextCall
  BY DEF Inv, TypeOK, AnswerExec
<1> QED BY <1>1 DEF AnswerExec, ExecOK, Holds, Opening, CallUserAt, AnswerAt, Reading

\* at each of its points.
LEMMA AnswerNext ==
  ASSUME Inv, NEW s \in Slots, proc[s].at \in AnswerAt, NEW pt \in AnswerAt
  PROVE  AnswerExec(proc[s]) /\ AnswerExec([proc[s] EXCEPT !.at = pt])
<1>1. AnswerExec(proc[s])
  BY DEF Inv, TypeOK, ExecsOK, ExecOK, AnswerExec
<1> QED BY <1>1 DEF AnswerExec, Execs, Points

\* answer_call keeps the invariant up to the claim.
LEMMA AnswerActions ==
  ASSUME Inv, NEW s \in Slots,
         \/ \E c \in Calls : \E x \in Sockets : AnswerCall(s, c, x)
         \/ AnswerCallee(s) \/ AnswerCaller(s)
  PROVE  Inv'
<1>1. TypeOK /\ GoodRegister(reg)
  BY DEF Inv
<1>2. ASSUME NEW q, AnswerExec(q), Goto(s, q), GoodRegister(reg'), tagged' \subseteq live,
             UNCHANGED <<own, hist, nextCall, announced, live>> /\ Keep
      PROVE  Inv'
  <2>1. q \in Execs /\ ExecOK(q, nextCall, announced') /\ q.at # "own" /\ \A c : ~Holds(q, c)
    BY <1>2, AnswerOK
  <2>2. proc' = [proc EXCEPT ![s] = q] /\ loop' \in Slots \union {None}
    BY <1>2, GoneOn
  <2>3. UNCHANGED <<own, hist, nextCall, live, winners, crashes>> /\ excused' \subseteq Calls
        /\ announced' = announced
    BY <1>1, <1>2 DEF Keep, TypeOK
  <2> QED BY <1>2, <2>1, <2>2, <2>3, CarryOn
<1>3. ASSUME NEW c \in Calls, NEW x \in Sockets, AnswerCall(s, c, x) PROVE Inv'
  <2> DEFINE q == [Idle EXCEPT !.at = "claim", !.u = hist[c].callee, !.x = x,
                               !.v = hist[c].caller, !.c = c]
  <2>1. hist[c].callee \in Users /\ c \in announced
    BY <1>3, SocketUser DEF AnswerCall
  <2>2. hist[c].caller \in Users
    BY <1>1, <1>3, <2>1 DEF AnswerCall, PairRings, RingsAt, GoodRegister, EntriesOK,
       Active
  <2>3. AnswerExec(q)
    BY <2>1, <2>2 DEF AnswerExec, Idle, Execs, Points, AnswerAt
  <2> HIDE DEF q
  <2> QED BY <1>1, <1>2, <1>3, <2>3 DEF AnswerCall, TypeOK, q
<1>4. CASE AnswerCallee(s)
  <2>1. AnswerExec(proc[s]) /\ AnswerExec([proc[s] EXCEPT !.at = "in_caller"])
    BY <1>4, AnswerNext DEF AnswerCallee, At, AnswerAt
  <2>2. GoodRegister(reg')
    BY <1>1, <1>4, <2>1, WritesGood DEF AnswerCallee, AnswerExec, TypeOK
  <2> QED BY <1>1, <1>2, <1>4, <2>1, <2>2 DEF AnswerCallee, TypeOK
<1>5. CASE AnswerCaller(s)
  <2>1. AnswerExec(proc[s]) /\ AnswerExec([proc[s] EXCEPT !.at = "ans_hist"])
    BY <1>5, AnswerNext DEF AnswerCaller, At, AnswerAt
  <2>2. GoodRegister(reg')
    BY <1>1, <1>5, <2>1, WritesGood DEF AnswerCaller, AnswerExec, TypeOK
  <2> QED BY <1>1, <1>2, <1>5, <2>1, <2>2 DEF AnswerCaller, TypeOK
<1> QED BY <1>3, <1>4, <1>5

\* A claim that succeeds leaves one winner: the row it finds active is its own.
LEMMA ClaimAction == ASSUME Inv, NEW s \in Slots, Claim(s) PROVE Inv'
<1> DEFINE p == proc[s]
           d == p.x[1]
           o == own[p.c][p.u]
           q == [p EXCEPT !.at = "in_callee"]
<1>1. TypeOK /\ AnswerExec(p) /\ AnswerExec(q)
  BY AnswerNext DEF Inv, Claim, At, AnswerAt
<1>2. p.c \in Calls /\ p.u \in Users /\ d \in Devices /\ p.c \in announced
  BY <1>1 DEF AnswerExec, Sockets, TypeOK
<1>3. CASE ~ClaimOk(o, d)
  <2>1. RegisterOnly /\ GoodRegister(reg') /\ GoesOn(s)
    BY <1>1, <1>3 DEF Inv, Claim, GoesOn, RegisterOnly, Keep
  <2> QED BY <2>1, RegisterStep, QuietStep
<1>4. CASE ClaimOk(o, d)
  <2>1. /\ winners' = [winners EXCEPT ![p.c][p.u] = winners[p.c][p.u] \union {d}]
        /\ own' = [own EXCEPT ![p.c][p.u] = ActiveOn(d)]
        /\ Goto(s, q)
    BY <1>4 DEF Claim
  <2>a. /\ own' \in [Calls -> [Users -> Ownerships]]
        /\ own'[p.c][p.u] = ActiveOn(d)
        /\ \A c \in Calls, u \in Users : c # p.c \/ u # p.u => own'[c][u] = own[c][u]
    <3>1. ActiveOn(d) \in Ownerships
      BY <1>2 DEF ActiveOn, Ownerships
    <3> HIDE DEF d
    <3> QED BY <1>1, <1>2, <2>1, <3>1 DEF TypeOK
  <2>2. /\ winners' \in [Calls -> [Users -> SUBSET Devices]]
        /\ winners'[p.c][p.u] = winners[p.c][p.u] \union {d}
        /\ \A c \in Calls, u \in Users : c # p.c \/ u # p.u => winners'[c][u] = winners[c][u]
    <3> HIDE DEF d
    <3> QED BY <1>1, <1>2, <2>1 DEF TypeOK
  <2>3. WonOK(winners'[p.c][p.u], own'[p.c][p.u], d)
    <3>1. winners[p.c][p.u] = {} \/ \E e \in Devices : WonOK(winners[p.c][p.u], o, e)
      BY <1>2 DEF Inv, WinnersOK
    <3>2. ASSUME NEW e \in Devices, WonOK(winners[p.c][p.u], o, e) PROVE e = d
      BY <1>4, <3>2, OneToOneAssumption DEF WonOK, ClaimOk, HeldByOther, ActiveOn, NoOwner
    <3>3. winners'[p.c][p.u] = {d}
      BY <2>2, <3>1, <3>2 DEF WonOK
    <3> QED BY <2>a, <3>3 DEF WonOK
  <2>4. WinnersOK(winners', own', announced)
    BY <1>2, <2>a, <2>2, <2>3 DEF Inv, WinnersOK
  <2>5. q \in Execs /\ ExecOK(q, nextCall, announced) /\ q.at # "own" /\ \A c : ~Holds(q, c)
    BY <1>1, AnswerOK
  <2>6. proc' = [proc EXCEPT ![s] = q] /\ loop' \in Slots \union {None}
    BY <2>1, GoneOn
  <2>7. /\ announced' = announced /\ nextCall' = nextCall /\ live' = live /\ crashes' = crashes
        /\ GoodRegister(reg') /\ hist' \in [Calls -> Rows] /\ excused' \subseteq Calls
        /\ tagged' \subseteq live
    BY <1>1 DEF Inv, Claim, TypeOK
  <2>8. nextCall' \in 1 .. MaxCalls + 1 /\ nextCall <= nextCall'
        /\ \A c \in announced' : c \in Calls /\ c < nextCall'
    BY <1>1, <2>7, OneToOneAssumption DEF Inv, TypeOK
  <2>9. /\ ExecOK(q, nextCall', announced') /\ WinnersOK(winners', own', announced')
        /\ announced \subseteq announced' /\ \A c \in announced' \ announced : Holds(p, c)
    BY <2>4, <2>5, <2>7
  <2> HIDE DEF q
  <2> QED BY <2>a, <2>2, <2>5, <2>6, <2>7, <2>8, <2>9, LoudStep
<1> QED BY <1>3, <1>4

-----------------------------------------------------------------------------
\* The invariant holds at the start.
LEMMA InitInv == Init => Inv
<1> SUFFICES ASSUME Init PROVE Inv
  OBVIOUS
<1>1. Idle \in Execs /\ Idle.at = "idle"
  BY DEF Idle, Execs
<1>2. EmptyRegister \in Registers /\ EntriesOK(EmptyRegister)
  <2>1. NoEntry \in Entries /\ ~Active(NoEntry) /\ NoTimers \in [Kinds -> Jobs]
    BY DEF NoEntry, Entries, Active, NoTimers, NoJob, Jobs
  <2> QED BY <2>1 DEF EmptyRegister, Registers, EntriesOK
<1>3. NoRow \in Rows /\ NoOwners \in [Users -> Ownerships]
  BY NoOwnersType DEF NoRow, Rows
<1>4. TypeOK
  BY <1>1, <1>2, <1>3, OneToOneAssumption DEF Init, TypeOK
<1>5. ExecsOK(proc, nextCall, announced) /\ FreshOK(proc, announced)
  BY IdleHarmless, HarmlessOK DEF Init, ExecsOK, FreshOK
<1>6. WinnersOK(winners, own, announced)
  BY DEF Init, WinnersOK
<1> QED BY <1>2, <1>4, <1>5, <1>6 DEF Init, Inv, GoodRegister

\* A handler that goes on keeps it.
LEMMA ContinueInv == ASSUME Inv, NEW s \in Slots, Continue(s) PROVE Inv'
<1>1. CASE \/ RejectCallee(s) \/ RejectCaller(s) \/ EndSelf(s) \/ EndPeer(s)
           \/ CancelGrace(s) \/ Confirm(s) \/ NoAnswerRead(s) \/ NoAnswerTarget(s)
           \/ NoAnswerCaller(s) \/ GraceCheck(s) \/ EndActiveRead(s) \/ EndActiveSelf(s)
           \/ EndActivePeer(s) \/ FinishJob(s)
  BY <1>1, RegisterActions, QuietStep
<1>2. CASE \/ AnswerHist(s) \/ RejectStale(s) \/ RejectHist(s) \/ RejectVoicemail(s)
           \/ NoAnswerHist(s) \/ EndActiveHist(s) \/ EndHist(s)
  BY <1>2, HistoryActions, QuietStep
<1>3. CASE RejectRelease(s) \/ EndRelease(s) \/ NoAnswerRelease(s) \/ ReleaseAfterEnd(s)
  BY <1>3, ReleaseActions, QuietStep
<1>4. CASE ReadToSchedule(s)
  BY <1>4, RequestActions, QuietStep
<1>5. CASE Verdict(s) \/ InsertCall(s) \/ OpenOwnership(s) \/ RingCallee(s) \/ RingCaller(s)
  BY <1>5, VerdictAction, InsertAction, OpenAction, RingActions
<1>6. CASE ReadForNoAnswer(s) \/ Arm(s)
  BY <1>6, ArmReadAction, ArmAction
<1>7. CASE Claim(s) \/ AnswerCallee(s) \/ AnswerCaller(s)
  BY <1>7, ClaimAction, AnswerActions
<1> QED BY <1>1, <1>2, <1>3, <1>4, <1>5, <1>6, <1>7 DEF Continue

\* So does one that starts.
LEMMA ReceiveInv == ASSUME Inv, NEW s \in Slots, Receive(s) PROVE Inv'
<1>1. ASSUME NEW x \in Sockets, NEW t \in Users, CallUser(s, x, t) \/ EndCall(s, x, t) PROVE Inv'
  BY <1>1, CallUserAction, SocketActions, QuietStep
<1>2. ASSUME NEW x \in Sockets, NEW c \in Calls, AnswerCall(s, c, x) PROVE Inv'
  BY <1>2, AnswerActions
<1>3. ASSUME NEW x \in Sockets, Disconnect(s, x) \/ Connect(s, x) PROVE Inv'
  BY <1>3, SocketActions, QuietStep
<1>4. ASSUME NEW x \in Sockets, ResumeAck(s, x) \/ ResumeReject(s, x) PROVE Inv'
  BY <1>4, RequestActions, QuietStep
<1>5. ASSUME NEW c \in Calls, NEW d \in Devices \union {NoDevice}, Reject(s, c, d) PROVE Inv'
  BY <1>5, RequestActions, QuietStep
<1> QED BY <1>1, <1>2, <1>3, <1>4, <1>5 DEF Receive

\* So does every step.
LEMMA NextInv == Inv /\ [Next]_vars => Inv'
<1> SUFFICES ASSUME Inv, [Next]_vars PROVE Inv'
  OBVIOUS
<1>1. ASSUME NEW s \in Slots, Receive(s) \/ Continue(s) PROVE Inv'
  BY <1>1, ReceiveInv, ContinueInv
<1>2. ASSUME NEW u \in Users, NEW k \in Kinds,
             (\E s \in Slots : Fire(s, u, k)) \/ Age(u) \/ ReclaimOrphan(u, k)
      PROVE  Inv'
  BY <1>2, DeadlineActions, QuietStep
<1>3. ASSUME NEW u \in Users, Age(u) PROVE Inv'
  <2>1. "grace" \in Kinds
    BY DEF Kinds
  <2> QED BY <1>3, <2>1, DeadlineActions, QuietStep
<1>4. CASE Crash
  BY <1>4, CrashAction, QuietStep
<1>5. CASE UNCHANGED vars
  BY <1>5 DEF vars, Inv, TypeOK
<1> QED BY <1>1, <1>2, <1>3, <1>4, <1>5 DEF Next

(* The variables keep their types, and an entry that is active names a call *)
(* and a peer, whatever the handlers, the deadlines and the crashes do.    *)
THEOREM TypeCorrect == Spec => []TypeOK
<1>1. Inv => TypeOK
  BY DEF Inv
<1> QED BY InitInv, NextInv, <1>1, PTL DEF Spec

(* Whatever answers interleave with refusals, hang-ups, deadlines, retries  *)
(* and crashes, tryClaim lets one device of an account at most win a call. *)
THEOREM OneAnswer == Spec => []AtMostOneAnswer
<1>1. Inv => AtMostOneAnswer
  BY DEF Inv, WinnersOK, WonOK, AtMostOneAnswer
<1> QED BY InitInv, NextInv, <1>1, PTL DEF Spec

-----------------------------------------------------------------------------
(* Who writes the device ownership of a call.                              *)

OwnKept == own' = own \/ (\E c : own' = Released(c)) \/ own' = [c \in Calls |-> NoOwners]

\* Only call_user and the claim of an answer write an ownership; the rest empties.
LEMMA OwnWriters ==
  ASSUME [Next]_vars
  PROVE  OwnKept \/ \E s \in Slots : OpenOwnership(s) \/ Claim(s)
<1>1. ASSUME NEW s \in Slots, Receive(s) PROVE OwnKept
  BY <1>1 DEF Receive, OwnKept, CallUser, EndCall, AnswerCall, Disconnect, Connect,
     ResumeAck,
              ResumeReject, Reject
<1>2. ASSUME NEW s \in Slots, Continue(s), ~OpenOwnership(s), ~Claim(s) PROVE OwnKept
  <2>1. CASE \/ Verdict(s) \/ InsertCall(s) \/ RingCallee(s) \/ RingCaller(s)
             \/ ReadForNoAnswer(s) \/ AnswerCallee(s) \/ AnswerCaller(s) \/ AnswerHist(s)
    BY <2>1 DEF OwnKept, Verdict, InsertCall, RingCallee, RingCaller, Ring,
       ReadForNoAnswer,
                AnswerCallee, AnswerCaller, AnswerHist
  <2>2. CASE \/ RejectStale(s) \/ RejectCallee(s) \/ RejectCaller(s) \/ RejectRelease(s)
             \/ RejectHist(s) \/ RejectVoicemail(s)
             \/ EndSelf(s) \/ EndPeer(s) \/ EndRelease(s) \/ EndHist(s)
    BY <2>2 DEF OwnKept, RejectStale, RejectCallee, RejectCaller, RejectRelease,
       RejectHist,
                RejectVoicemail, EndSelf, EndPeer, EndRelease, EndHist
  <2>3. CASE \/ ReadToSchedule(s) \/ Arm(s) \/ CancelGrace(s) \/ Confirm(s) \/ FinishJob(s)
             \/ NoAnswerRead(s) \/ NoAnswerTarget(s) \/ NoAnswerCaller(s) \/ NoAnswerHist(s)
             \/ NoAnswerRelease(s)
    BY <2>3 DEF OwnKept, ReadToSchedule, Arm, CancelGrace, Confirm, FinishJob,
       NoAnswerRead,
                NoAnswerTarget, NoAnswerCaller, NoAnswerHist, NoAnswerRelease
  <2>4. CASE \/ GraceCheck(s) \/ EndActiveRead(s) \/ EndActiveSelf(s) \/ EndActivePeer(s)
             \/ EndActiveHist(s) \/ ReleaseAfterEnd(s)
    BY <2>4 DEF OwnKept, GraceCheck, EndActiveRead, EndActiveSelf, EndActivePeer,
                EndActiveHist, ReleaseAfterEnd
  <2> QED BY <1>2, <2>1, <2>2, <2>3, <2>4 DEF Continue
<1>3. ASSUME NEW u \in Users, NEW k \in Kinds,
             (\E s \in Slots : Fire(s, u, k)) \/ ReclaimOrphan(u, k)
      PROVE  OwnKept
  BY <1>3 DEF OwnKept, Fire, ReclaimOrphan
<1>4. CASE Crash \/ (\E u \in Users : Age(u)) \/ UNCHANGED vars
  BY <1>4 DEF OwnKept, Crash, Age, vars
<1> QED BY <1>1, <1>2, <1>3, <1>4 DEF Next

(* Once the ownership rows of an announced call are gone, no answer, retry, *)
(* deadline or crash brings one back: tryClaim never invents a row, and     *)
(* call_user writes rows under a key nobody knows yet only.                *)
THEOREM NothingReopens == Spec => ReleasedForGood
<1> DEFINE Kept == \A c \in announced : own[c] = NoOwners => own'[c] = NoOwners
<1>1. Inv /\ [Next]_vars => [Kept]_vars
  <2> SUFFICES ASSUME Inv, [Next]_vars, NEW c \in announced, own[c] = NoOwners
               PROVE  own'[c] = NoOwners
    OBVIOUS
  <2>1. c \in Calls /\ TypeOK
    BY DEF Inv, TypeOK
  <2>2. CASE OwnKept
    BY <2>1, <2>2, ReleasedType DEF OwnKept, TypeOK
  <2>3. ASSUME NEW s \in Slots, OpenOwnership(s) PROVE own'[c] = NoOwners
    <3>1. proc[s].c # c
      BY <2>3 DEF Inv, FreshOK, OpenOwnership, At
    <3> QED BY <2>1, <2>3, <3>1 DEF OpenOwnership, TypeOK
  <2>4. ASSUME NEW s \in Slots, Claim(s) PROVE own'[c] = NoOwners
    <3> DEFINE p == proc[s]
    <3>1. AnswerExec(p)
      BY <2>4, AnswerNext DEF Claim, At, AnswerAt
    <3>2. p.c = c => ~ClaimOk(own[p.c][p.u], p.x[1])
      BY <3>1 DEF AnswerExec, NoOwners, NoOwner, ClaimOk
    <3>3. CASE p.c = c
      BY <2>4, <3>2, <3>3 DEF Claim
    <3>4. CASE p.c # c
      BY <2>1, <2>4, <3>4 DEF Claim, TypeOK
    <3> QED BY <3>3, <3>4
  <2> QED BY <2>2, <2>3, <2>4, OwnWriters
<1> QED BY InitInv, NextInv, <1>1, PTL DEF Spec, ReleasedForGood

-----------------------------------------------------------------------------
(* In one process with its Maps, a callee that rings is timed. An execution *)
(* that is not the one on the event loop waits for MySQL, or its slot is    *)
(* free. The one on the loop may owe an account its deadline: call_user     *)
(* between the ring of the callee and the no-answer deadline, onNoAnswer    *)
(* between the firing of the timer and the end of the ring.                 *)

Resting == AfterIO \union {"idle"}

Alone == \A t \in Slots \ {loop} : proc[t].at \in Resting

Timed(r, h, u) ==
  LET e == r.entry[u]  j == r.timer[u]["no_answer"]
  IN e.status = "ringing" /\ h[e.call].callee = u =>
       j.armed /\ j.call = e.call /\ j.peer = e.peer

Owes(p, u) ==
  \/ p.at \in {"ring_caller", "arm_read"} /\ u = p.v
  \/ p.at = "arm" /\ p.k = "no_answer" /\ u = p.u
  \/ p.at \in {"na_read", "na_target"} /\ u = p.u

\* What the execution knows of the register and of the history: it arms the
\* deadline of the ring it found, and the timer that fired was of the ring that
\* is there. In memory no row is left to delete.
RingLaw(p, r, h) ==
  /\ p.at # "finish"
  /\ p.at \in CallUserAt => p.u # p.v
  /\ p.at \in {"own", "ring_callee", "ring_caller"} => h[p.c].callee = p.v
  /\ p.at = "arm" /\ p.k = "no_answer" =>
       p.u \in Users /\ r.entry[p.u].call = p.c /\ r.entry[p.u].peer = p.v
  /\ p.at = "na_read" =>
       (r.entry[p.u].status = "ringing" /\ h[r.entry[p.u].call].callee = p.u =>
          r.entry[p.u].call = p.jc)

\* A ring is of a call whose row exists.
OldRings(r, n) == \A u \in Users : r.entry[u].status = "ringing" => r.entry[u].call < n

RingInv ==
  /\ Alone
  /\ \A s \in Slots : RingLaw(proc[s], reg, hist)
  /\ OldRings(reg, nextCall)
  /\ \A u \in Users : Timed(reg, hist, u) \/ \E s \in Slots : Owes(proc[s], u)

-----------------------------------------------------------------------------
(* Writes that leave every ring as it is or end it.                        *)

\* Each account that rings afterwards rang before, with the same deadline.
Milder(r, r2) ==
  \A u \in Users : r2.entry[u].status = "ringing" =>
    /\ r.entry[u].status = "ringing"
    /\ r2.entry[u].call = r.entry[u].call /\ r2.entry[u].peer = r.entry[u].peer
    /\ r2.timer[u]["no_answer"].armed = r.timer[u]["no_answer"].armed
    /\ r2.timer[u]["no_answer"].call = r.timer[u]["no_answer"].call
    /\ r2.timer[u]["no_answer"].peer = r.timer[u]["no_answer"].peer

\* Two such writes are one.
LEMMA MilderTwice ==
  ASSUME NEW a, NEW b, NEW c, Milder(a, b), Milder(b, c)
  PROVE  Milder(a, c)
BY DEF Milder

\* setInCall and clear end the ring of the account and leave the others alone.
LEMMA MilderWrite ==
  ASSUME NEW r, GoodRegister(r), NEW u, NEW e, e.status # "ringing"
  PROVE  Milder(r, Write(r, u, e))
<1> SUFFICES ASSUME NEW w \in Users, Write(r, u, e).entry[w].status = "ringing"
             PROVE  /\ Write(r, u, e).entry[w] = r.entry[w]
                    /\ Write(r, u, e).timer[w] = r.timer[w]
  BY DEF Milder
<1>1. r.entry \in [Users -> Entries] /\ r.timer \in [Users -> [Kinds -> Jobs]]
  BY DEF GoodRegister, Registers
<1>2. /\ Write(r, u, e).entry = [r.entry EXCEPT ![u] = e]
      /\ Write(r, u, e).timer = [r.timer EXCEPT ![u] = NoTimers]
  BY DEF Write
<1>3. w # u
  BY <1>1, <1>2
<1> QED BY <1>1, <1>2, <1>3

\* clear, setInCall,
LEMMA MilderClear ==
  ASSUME NEW r, GoodRegister(r), NEW u
  PROVE  /\ Milder(r, Clear(r, u))
         /\ \A c, p : Milder(r, SetInCall(r, u, c, p))
<1>1. NoEntry.status # "ringing" /\ \A c, p : InCall(c, p).status # "ringing"
  BY DEF NoEntry, InCall
<1> QED BY <1>1, MilderWrite DEF Clear, SetInCall

\* the purges of call_user,
LEMMA MilderPurge ==
  ASSUME NEW r, GoodRegister(r), NEW u, NEW connected
  PROVE  /\ Milder(r, ClearStaleRinging(r, u))
         /\ Milder(r, ReclaimStaleBusy(r, u, connected))
<1>1. Milder(r, r)
  BY DEF Milder
<1>2. ASSUME NEW too PROVE Milder(r, ClearWithPeer(r, u, too))
  <2>1. Milder(r, Clear(r, u))
    BY MilderClear
  <2>2. Milder(r, Clear(Clear(r, u), r.entry[u].peer))
    <3>1. Milder(Clear(r, u), Clear(Clear(r, u), r.entry[u].peer))
      BY ClearGood, MilderClear
    <3> QED BY <2>1, <3>1, MilderTwice
  <2> QED BY <2>1, <2>2 DEF ClearWithPeer
<1> QED BY <1>1, <1>2 DEF ClearStaleRinging, ReclaimStaleBusy

\* the cancellation of other deadlines,
LEMMA MilderCancel ==
  ASSUME NEW r, GoodRegister(r), NEW u, NEW ks, "no_answer" \notin ks
  PROVE  Milder(r, Cancel(r, u, ks))
<1>1. /\ r.entry \in [Users -> Entries] /\ r.timer \in [Users -> [Kinds -> Jobs]]
      /\ r = [entry |-> r.entry, timer |-> r.timer] /\ "no_answer" \in Kinds
  BY DEF GoodRegister, Registers, Kinds
<1> DEFINE f == [k \in Kinds |-> IF k \in ks THEN NoJob ELSE r.timer[u][k]]
<1>2. f["no_answer"] = r.timer[u]["no_answer"]
  BY <1>1
<1>3. /\ Cancel(r, u, ks).entry = r.entry
      /\ \A w \in Users : Cancel(r, u, ks).timer[w] = IF w = u THEN f ELSE r.timer[w]
  <2>1. Cancel(r, u, ks) = [r EXCEPT !.timer[u] = f]
    BY DEF Cancel
  <2> HIDE DEF f
  <2> QED BY <1>1, <2>1
<1> HIDE DEF f
<1> QED BY <1>2, <1>3 DEF Milder

\* their arming,
LEMMA MilderSchedule ==
  ASSUME NEW r, GoodRegister(r), NEW u, NEW k, k # "no_answer", NEW c, NEW p
  PROVE  Milder(r, Schedule(r, u, k, c, p))
<1> DEFINE q == Cancel(r, u, CancelledBy(k))
<1>1. Milder(r, q) /\ GoodRegister(q)
  <2>1. "no_answer" \notin CancelledBy(k)
    BY DEF CancelledBy
  <2> QED BY <2>1, MilderCancel, CancelGood
<1> HIDE DEF q
<1>2. Milder(q, Enqueue(q, u, k, c, p))
  <2>1. /\ q.entry \in [Users -> Entries] /\ q.timer \in [Users -> [Kinds -> Jobs]]
        /\ q = [entry |-> q.entry, timer |-> q.timer]
    BY <1>1 DEF GoodRegister, Registers
  <2>2. /\ Enqueue(q, u, k, c, p).entry = q.entry
        /\ \A w \in Users : Enqueue(q, u, k, c, p).timer[w]["no_answer"] = q.timer[w]["no_answer"]
    BY <2>1 DEF Enqueue
  <2> QED BY <2>2 DEF Milder
<1> QED BY <1>1, <1>2, MilderTwice DEF Schedule, q

\* the lock of a row and the passing of time.
LEMMA MilderRest ==
  ASSUME NEW r, GoodRegister(r), NEW u \in Users
  PROVE  /\ \A k \in Kinds : \A l : Milder(r, Lock(r, u, k, l))
         /\ Milder(r, GoStale(r, u))
<1>1. /\ r.entry \in [Users -> Entries] /\ r.timer \in [Users -> [Kinds -> Jobs]]
      /\ r = [entry |-> r.entry, timer |-> r.timer]
  BY DEF GoodRegister, Registers
<1>2. ASSUME NEW k \in Kinds, NEW l PROVE Milder(r, Lock(r, u, k, l))
  <2> DEFINE j == [r.timer[u][k] EXCEPT !.lock = l]
  <2>1. r.timer[u][k] \in Jobs
    BY <1>1
  <2>2. j.armed = r.timer[u][k].armed /\ j.call = r.timer[u][k].call
        /\ j.peer = r.timer[u][k].peer
    BY <2>1 DEF Jobs
  <2>3. /\ Lock(r, u, k, l).entry = r.entry
        /\ \A w \in Users, m \in Kinds :
             Lock(r, u, k, l).timer[w][m] = IF w = u /\ m = k THEN j ELSE r.timer[w][m]
    <3>1. Lock(r, u, k, l) = [r EXCEPT !.timer[u][k] = j]
      BY DEF Lock
    <3> HIDE DEF j
    <3> QED BY <1>1, <3>1
  <2>4. "no_answer" \in Kinds
    BY DEF Kinds
  <2> HIDE DEF j
  <2> QED BY <2>2, <2>3, <2>4 DEF Milder
<1>3. Milder(r, GoStale(r, u))
  <2> DEFINE e == [r.entry[u] EXCEPT !.stale = TRUE]
  <2>1. e.status = r.entry[u].status /\ e.call = r.entry[u].call /\ e.peer = r.entry[u].peer
    BY <1>1 DEF Entries
  <2>2. /\ GoStale(r, u).timer = r.timer
        /\ \A w \in Users : GoStale(r, u).entry[w] = IF w = u THEN e ELSE r.entry[w]
    <3>1. GoStale(r, u) = [r EXCEPT !.entry[u] = e]
      BY DEF GoStale
    <3> HIDE DEF e
    <3> QED BY <1>1, <3>1
  <2> HIDE DEF e
  <2> QED BY <2>1, <2>2 DEF Milder
<1> QED BY <1>2, <1>3

\* The row of a call keeps its callee.
CalleesKept(h, h2, n) == \A c \in Calls : c < n => h2[c].callee = h[c].callee

\* Such a write disturbs no timed ring.
LEMMA MilderKeeps ==
  ASSUME NEW r, GoodRegister(r), NEW r2, Milder(r, r2), NEW n, OldRings(r, n),
         NEW h, NEW h2, CalleesKept(h, h2, n)
  PROVE  OldRings(r2, n) /\ \A u \in Users : Timed(r, h, u) => Timed(r2, h2, u)
<1>1. OldRings(r2, n)
  BY DEF OldRings, Milder
<1>2. ASSUME NEW u \in Users, Timed(r, h, u), r2.entry[u].status = "ringing",
             h2[r2.entry[u].call].callee = u
      PROVE  Timed(r2, h2, u)
  <2>1. r.entry[u].call \in Calls /\ r.entry[u].call < n /\ r.entry[u].status = "ringing"
        /\ r2.entry[u].call = r.entry[u].call
    BY <1>2 DEF GoodRegister, EntriesOK, Active, OldRings, Milder
  <2>2. h[r.entry[u].call].callee = u
    BY <1>2, <2>1 DEF CalleesKept
  <2> QED BY <1>2, <2>1, <2>2 DEF Timed, Milder
<1>3. \A u \in Users : ~(r2.entry[u].status = "ringing"
                          /\ h2[r2.entry[u].call].callee = u) => Timed(r2, h2, u)
  BY DEF Timed
<1> QED BY <1>1, <1>2, <1>3

-----------------------------------------------------------------------------
(* One execution takes the event loop, or goes on holding it.              *)

\* An execution that waits owes nothing, and what it knows cannot change.
LEMMA RestingOwesNothing ==
  ASSUME NEW p, p.at \in Resting
  PROVE  /\ \A u : ~Owes(p, u)
         /\ \A r, h, r2, h2 : RingLaw(p, r, h) => RingLaw(p, r2, h2)
BY DEF Resting, AfterIO, Owes, RingLaw

\* While an execution runs, the others wait.
LEMMA OneMoves ==
  ASSUME ~SharedStore, RingInv, proc \in [Slots -> Execs], NEW s \in Slots,
         loop \in {None, s}, NEW q, Goto(s, q) \/ (q = Idle /\ Done(s)),
         RingLaw(q, reg', hist'), OldRings(reg', nextCall'),
         \A u \in Users : Timed(reg', hist', u) \/ Owes(q, u)
  PROVE  RingInv'
<1>1. \A t \in Slots \ {s} : proc[t].at \in Resting
  BY OneToOneAssumption DEF RingInv, Alone
<1>2. proc' = [proc EXCEPT ![s] = q] /\ loop' \in {None, s}
      /\ (loop' # s => q.at \in Resting)
  <2>1. CASE Goto(s, q)
    BY <2>1 DEF Goto, Resting
  <2>2. CASE q = Idle /\ Done(s)
    <3>1. Idle.at = "idle"
      BY DEF Idle
    <3> QED BY <2>2, <3>1 DEF Done, Resting
  <2> QED BY <2>1, <2>2
<1>3. proc'[s] = q /\ \A t \in Slots \ {s} : proc'[t] = proc[t]
  BY <1>2
<1>4. Alone'
  <2> SUFFICES ASSUME NEW t \in Slots, t # loop' PROVE proc'[t].at \in Resting
    BY DEF Alone
  <2>1. CASE t = s
    BY <2>1, <1>2, <1>3
  <2>2. CASE t # s
    BY <2>2, <1>1, <1>3
  <2> QED BY <2>1, <2>2
<1>5. \A t \in Slots : RingLaw(proc'[t], reg', hist')
  <2> SUFFICES ASSUME NEW t \in Slots \ {s} PROVE RingLaw(proc'[t], reg', hist')
    BY <1>3
  <2>1. RingLaw(proc[t], reg, hist)
    BY DEF RingInv
  <2> QED BY <1>1, <1>3, <2>1, RestingOwesNothing
<1>6. \A u \in Users : Timed(reg', hist', u) \/ \E t \in Slots : Owes(proc'[t], u)
  BY <1>3
<1> QED BY <1>4, <1>5, <1>6 DEF RingInv

\* What it does not owe is timed.
LEMMA OthersTimed ==
  ASSUME RingInv, NEW s \in Slots, loop \in {None, s}
  PROVE  \A u \in Users : Timed(reg, hist, u) \/ Owes(proc[s], u)
<1>1. \A t \in Slots \ {s} : proc[t].at \in Resting
  BY OneToOneAssumption DEF RingInv, Alone
<1>2. \A t \in Slots \ {s} : \A u : ~Owes(proc[t], u)
  BY <1>1, RestingOwesNothing
<1>3. \A u \in Users : Timed(reg, hist, u) \/ \E t \in Slots : Owes(proc[t], u)
  BY Zenon DEF RingInv
<1> QED BY <1>2, <1>3, Zenon

(* Most steps owe nothing, before and after, and write milder.             *)

PlainAt == AnswerAt \union RejectAt \union EndAt \union CascadeAt
             \union {"na_caller", "na_hist", "na_release", "sched_read",
                     "cancel_grace", "confirm"}

Plain(q) == q.at \in PlainAt \union {"idle"} \/ (q.at = "arm" /\ q.k # "no_answer")

\* An execution at a plain point owes nothing and knows nothing.
LEMMA PlainOwesNothing ==
  ASSUME NEW q, Plain(q)
  PROVE  (\A u : ~Owes(q, u)) /\ \A r, h : RingLaw(q, r, h)
<1>1. q.at \notin CallUserAt \union {"finish", "na_read", "na_target"}
      /\ (q.at = "arm" => q.k # "no_answer")
  BY DEF Plain, PlainAt, AnswerAt, RejectAt, EndAt, CascadeAt, CallUserAt
<1> QED BY <1>1 DEF Owes, RingLaw, CallUserAt

GoesPlain(s) ==
  \/ \E p \in Execs : \E pt \in PlainAt : Goto(s, [p EXCEPT !.at = pt])
  \/ \E q : Plain(q) /\ Goto(s, q)
  \/ Done(s)

\* In memory the end of a deadline is the end of the execution.
LEMMA FinishDone ==
  ASSUME ~SharedStore, NEW s \in Slots, NEW p, Finish(s, p)
  PROVE  GoesPlain(s) /\ Done(s)
BY DEF Finish, GoesPlain

\* A step of such an execution keeps every ring timed.
LEMMA PlainStep ==
  ASSUME ~SharedStore, Inv, RingInv, NEW s \in Slots, loop \in {None, s}, GoesPlain(s),
         Plain(proc[s]), Milder(reg, reg'), CalleesKept(hist, hist', nextCall),
         nextCall' = nextCall
  PROVE  RingInv'
<1>1. \A u \in Users : Timed(reg, hist, u)
  BY OthersTimed, PlainOwesNothing
<1>2. OldRings(reg', nextCall') /\ \A u \in Users : Timed(reg', hist', u)
  <2>1. GoodRegister(reg) /\ OldRings(reg, nextCall)
    BY DEF Inv, RingInv
  <2>2. OldRings(reg', nextCall)
        /\ \A u \in Users : Timed(reg, hist, u) => Timed(reg', hist', u)
    BY <2>1, MilderKeeps
  <2> QED BY <1>1, <2>2
<1>3. proc \in [Slots -> Execs]
  BY DEF Inv, TypeOK
<1>4. PICK q : Plain(q) /\ (Goto(s, q) \/ (q = Idle /\ Done(s)))
  <2>1. \A p \in Execs : \A pt \in PlainAt : Plain([p EXCEPT !.at = pt])
    BY DEF Plain, Execs
  <2>2. Plain(Idle)
    BY DEF Plain, Idle
  <2> QED BY <2>1, <2>2 DEF GoesPlain
<1> QED BY <1>2, <1>3, <1>4, OneMoves, PlainOwesNothing

\* Closing a row keeps its callee.
LEMMA StatusKept ==
  ASSUME Inv, hist' = hist \/ \E c, y : hist' = SetStatus(c, y)
  PROVE  CalleesKept(hist, hist', nextCall)
<1>1. hist \in [Calls -> Rows]
  BY DEF Inv, TypeOK
<1>2. CASE hist' = hist
  BY <1>2 DEF CalleesKept
<1>3. ASSUME NEW c, NEW y, hist' = SetStatus(c, y) PROVE CalleesKept(hist, hist', nextCall)
  <2> DEFINE w == [hist[c] EXCEPT !.status = y]
  <2>1. c \in Calls => w.callee = hist[c].callee
    BY <1>1 DEF Rows
  <2>2. hist' = [hist EXCEPT ![c] = w]
    BY <1>3 DEF SetStatus
  <2> HIDE DEF w
  <2> QED BY <1>1, <2>1, <2>2 DEF CalleesKept
<1> QED BY <1>2, <1>3

\* The refusals and the hang-ups keep every ring timed,
LEMMA RejectEndTimed ==
  ASSUME ~SharedStore, Inv, RingInv, NEW s \in Slots,
         \/ RejectStale(s) \/ RejectCallee(s) \/ RejectCaller(s) \/ RejectRelease(s)
         \/ RejectHist(s) \/ RejectVoicemail(s)
         \/ EndSelf(s) \/ EndPeer(s) \/ EndRelease(s) \/ EndHist(s)
  PROVE  RingInv'
<1>1. proc[s] \in Execs /\ GoodRegister(reg) /\ Milder(reg, reg)
  BY DEF Inv, TypeOK, Milder
<1>2. Plain(proc[s]) /\ loop \in {None, s} /\ nextCall' = nextCall
  BY DEF Plain, PlainAt, RejectAt, EndAt, At, RejectStale, RejectCallee, RejectCaller,
         RejectRelease, RejectHist, RejectVoicemail, EndSelf, EndPeer, EndRelease, EndHist
<1>3. RejectAt \union EndAt \subseteq PlainAt
  BY DEF PlainAt
<1>4. CASE RejectCallee(s) \/ RejectCaller(s) \/ EndSelf(s) \/ EndPeer(s)
  <2>1. GoesPlain(s)
    BY <1>1, <1>3, <1>4 DEF RejectCallee, RejectCaller, EndSelf, EndPeer, GoesPlain,
       RejectAt, EndAt
  <2>2. Milder(reg, reg') /\ hist' = hist
    BY <1>1, <1>4, MilderClear DEF RejectCallee, RejectCaller, EndSelf, EndPeer
  <2> QED BY <1>2, <2>1, <2>2, StatusKept, PlainStep
<1>5. CASE RejectRelease(s) \/ EndRelease(s)
  <2>1. GoesPlain(s)
    BY <1>1, <1>3, <1>5 DEF RejectRelease, EndRelease, GoesPlain, RejectAt, EndAt
  <2>2. Milder(reg, reg') /\ hist' = hist
    BY <1>1, <1>5 DEF RejectRelease, EndRelease
  <2> QED BY <1>2, <2>1, <2>2, StatusKept, PlainStep
<1>6. CASE RejectStale(s) \/ RejectHist(s) \/ RejectVoicemail(s) \/ EndHist(s)
  <2>1. GoesPlain(s)
    BY <1>1, <1>3, <1>6 DEF RejectStale, RejectHist, RejectVoicemail, EndHist, GoesPlain,
       RejectAt
  <2>2. Milder(reg, reg')
    BY <1>1, <1>6 DEF RejectStale, RejectHist, RejectVoicemail, EndHist
  <2>3. hist' = hist \/ \E c, y : hist' = SetStatus(c, y)
    BY <1>6 DEF RejectStale, RejectHist, RejectVoicemail, EndHist, ClosedHist, WriteHist
  <2> QED BY <1>2, <2>1, <2>2, <2>3, StatusKept, PlainStep
<1> QED BY <1>4, <1>5, <1>6

\* and so do the answers,
LEMMA AnswerTimed ==
  ASSUME ~SharedStore, Inv, RingInv, NEW s \in Slots,
         Claim(s) \/ AnswerCallee(s) \/ AnswerCaller(s) \/ AnswerHist(s)
  PROVE  RingInv'
<1>1. proc[s] \in Execs /\ GoodRegister(reg) /\ Milder(reg, reg)
  BY DEF Inv, TypeOK, Milder
<1>2. Plain(proc[s]) /\ loop \in {None, s} /\ nextCall' = nextCall
  BY DEF Plain, PlainAt, AnswerAt, At, Claim, AnswerCallee, AnswerCaller, AnswerHist
<1>3. AnswerAt \subseteq PlainAt
  BY DEF PlainAt
<1>4. GoesPlain(s)
  BY <1>1, <1>3 DEF Claim, AnswerCallee, AnswerCaller, AnswerHist, GoesPlain, AnswerAt
<1>5. Milder(reg, reg')
  BY <1>1, MilderClear DEF Claim, AnswerCallee, AnswerCaller, AnswerHist
<1>6. hist' = hist \/ \E c, y : hist' = SetStatus(c, y)
  BY DEF Claim, AnswerCallee, AnswerCaller, AnswerHist, WriteHist
<1> QED BY <1>2, <1>4, <1>5, <1>6, StatusKept, PlainStep

\* the other deadlines,
LEMMA OtherDeadlinesTimed ==
  ASSUME ~SharedStore, Inv, RingInv, NEW s \in Slots,
         \/ ReadToSchedule(s) \/ CancelGrace(s) \/ Confirm(s)
         \/ (Arm(s) /\ proc[s].k # "no_answer")
  PROVE  RingInv'
<1>1. proc[s] \in Execs /\ GoodRegister(reg) /\ Milder(reg, reg)
  BY DEF Inv, TypeOK, Milder
<1>2. Plain(proc[s]) /\ loop \in {None, s} /\ nextCall' = nextCall
  BY DEF Plain, PlainAt, At, ReadToSchedule, CancelGrace, Confirm, Arm
<1>3. GoesPlain(s)
  <2>1. CASE ReadToSchedule(s)
    <3> DEFINE e == reg.entry[proc[s].u]
               q == [proc[s] EXCEPT !.at = "arm", !.c = e.call, !.v = e.peer]
    <3>1. proc[s].k # "no_answer"
      BY <2>1 DEF Inv, ExecsOK, ExecOK, ReadToSchedule, At
    <3>2. q.at = "arm" /\ q.k = proc[s].k
      BY <1>1 DEF Execs
    <3>3. Plain(q)
      BY <3>1, <3>2 DEF Plain
    <3> QED BY <2>1, <3>3 DEF ReadToSchedule, GoesPlain
  <2>2. CASE CancelGrace(s) \/ Confirm(s) \/ Arm(s)
    BY <2>2 DEF CancelGrace, Confirm, Arm, GoesPlain
  <2> QED BY <2>1, <2>2
<1>4. Milder(reg, reg')
  BY <1>1, MilderCancel, MilderSchedule
     DEF ReadToSchedule, CancelGrace, Confirm, ConfirmResume, Arm
<1>5. hist' = hist
  BY DEF ReadToSchedule, CancelGrace, Confirm, Arm
<1> QED BY <1>2, <1>3, <1>4, <1>5, StatusKept, PlainStep

\* the end of a call by a deadline,
LEMMA CascadeTimed ==
  ASSUME ~SharedStore, Inv, RingInv, NEW s \in Slots,
         \/ GraceCheck(s) \/ EndActiveRead(s) \/ EndActiveSelf(s) \/ EndActivePeer(s)
         \/ EndActiveHist(s) \/ ReleaseAfterEnd(s)
  PROVE  RingInv'
<1>1. proc[s] \in Execs /\ GoodRegister(reg) /\ Milder(reg, reg)
  BY DEF Inv, TypeOK, Milder
<1>2. Plain(proc[s]) /\ loop \in {None, s} /\ nextCall' = nextCall
  BY DEF Plain, PlainAt, CascadeAt, At, GraceCheck, EndActiveRead, EndActiveSelf,
         EndActivePeer, EndActiveHist, ReleaseAfterEnd
<1>3. CascadeAt \subseteq PlainAt
  BY DEF PlainAt
<1>4. GoesPlain(s)
  <2>1. CASE EndActiveRead(s)
    <3> DEFINE e == reg.entry[proc[s].u]
               q == [proc[s] EXCEPT !.at = "ea_self", !.v = e.peer, !.c = e.call]
    <3>1. q.at = "ea_self"
      BY <1>1 DEF Execs
    <3>2. Plain(q)
      BY <3>1 DEF Plain, PlainAt, CascadeAt
    <3>3. Goto(s, q) \/ Goto(s, [proc[s] EXCEPT !.at = "no_end"])
      BY <2>1 DEF EndActiveRead
    <3> HIDE DEF q
    <3> QED BY <1>1, <1>3, <3>2, <3>3 DEF GoesPlain, CascadeAt
  <2>2. CASE GraceCheck(s) \/ EndActiveSelf(s) \/ EndActivePeer(s) \/ EndActiveHist(s)
    BY <1>1, <1>3, <2>2 DEF GraceCheck, EndActiveSelf, EndActivePeer, EndActiveHist,
       GoesPlain, CascadeAt
  <2>3. CASE ReleaseAfterEnd(s)
    BY <2>3, FinishDone DEF ReleaseAfterEnd
  <2> QED BY <2>1, <2>2, <2>3
<1>5. Milder(reg, reg')
  BY <1>1, MilderCancel, MilderClear
     DEF GraceCheck, EndActiveRead, EndActiveSelf, EndActivePeer, EndActiveHist,
         ReleaseAfterEnd
<1>6. hist' = hist \/ \E c, y : hist' = SetStatus(c, y)
  BY DEF GraceCheck, EndActiveRead, EndActiveSelf, EndActivePeer, EndActiveHist,
         ReleaseAfterEnd, ClosedHist, WriteHist
<1> QED BY <1>2, <1>4, <1>5, <1>6, StatusKept, PlainStep

\* and the end of a ring that nobody answered.
LEMMA NoAnswerTimed ==
  ASSUME ~SharedStore, Inv, RingInv, NEW s \in Slots,
         NoAnswerCaller(s) \/ NoAnswerHist(s) \/ NoAnswerRelease(s)
  PROVE  RingInv'
<1>1. proc[s] \in Execs /\ GoodRegister(reg) /\ Milder(reg, reg)
  BY DEF Inv, TypeOK, Milder
<1>2. Plain(proc[s]) /\ loop \in {None, s} /\ nextCall' = nextCall
  BY DEF Plain, PlainAt, At, NoAnswerCaller, NoAnswerHist, NoAnswerRelease
<1>3. {"na_hist", "na_release"} \subseteq PlainAt
  BY DEF PlainAt
<1>4. GoesPlain(s)
  BY <1>1, <1>3, FinishDone DEF NoAnswerCaller, NoAnswerHist, NoAnswerRelease, GoesPlain
<1>5. Milder(reg, reg')
  BY <1>1, MilderClear DEF NoAnswerCaller, NoAnswerHist, NoAnswerRelease
<1>6. hist' = hist \/ \E c, y : hist' = SetStatus(c, y)
  BY DEF NoAnswerCaller, NoAnswerHist, NoAnswerRelease, WriteHist
<1> QED BY <1>2, <1>4, <1>5, <1>6, StatusKept, PlainStep

(* Steps that start an execution, or none.                                 *)

\* While nothing runs, every ring is timed.
LEMMA AtRestTimed ==
  ASSUME RingInv, loop = None
  PROVE  (\A t \in Slots : proc[t].at \in Resting)
         /\ \A u \in Users : Timed(reg, hist, u)
<1>1. \A t \in Slots : proc[t].at \in Resting
  BY OneToOneAssumption DEF RingInv, Alone
<1>2. \A t \in Slots : \A u : ~Owes(proc[t], u)
  BY <1>1, RestingOwesNothing
<1>3. \A u \in Users : Timed(reg, hist, u) \/ \E t \in Slots : Owes(proc[t], u)
  BY Zenon DEF RingInv
<1> QED BY <1>1, <1>2, <1>3

\* No execution moves, and the register is milder.
LEMMA StillStep ==
  ASSUME Inv, RingInv, UNCHANGED <<proc, loop, hist, nextCall>>, Milder(reg, reg'),
         reg'.entry = reg.entry \/ \A t \in Slots : proc[t].at \in Resting
  PROVE  RingInv'
<1>1. OldRings(reg, nextCall) /\ GoodRegister(reg) /\ CalleesKept(hist, hist', nextCall)
  BY DEF Inv, RingInv, CalleesKept
<1>2. OldRings(reg', nextCall)
      /\ \A u \in Users : Timed(reg, hist, u) => Timed(reg', hist', u)
  BY <1>1, MilderKeeps
<1>3. \A u \in Users : Timed(reg', hist', u) \/ \E t \in Slots : Owes(proc'[t], u)
  <2>1. \A u \in Users : Timed(reg, hist, u) \/ \E t \in Slots : Owes(proc[t], u)
    BY DEF RingInv
  <2> QED BY <1>2, <2>1
<1>4. \A t \in Slots : RingLaw(proc'[t], reg', hist')
  <2> SUFFICES ASSUME NEW t \in Slots PROVE RingLaw(proc[t], reg', hist)
    OBVIOUS
  <2>1. RingLaw(proc[t], reg, hist)
    BY DEF RingInv
  <2>2. CASE reg'.entry = reg.entry
    BY <2>1, <2>2 DEF RingLaw
  <2>3. CASE proc[t].at \in Resting
    BY <2>1, <2>3, RestingOwesNothing
  <2> QED BY <2>2, <2>3
<1>5. Alone'
  BY DEF RingInv, Alone
<1> QED BY <1>2, <1>3, <1>4, <1>5 DEF RingInv

\* A free slot starts plainly.
LEMMA PlainStart ==
  ASSUME ~SharedStore, Inv, RingInv, NEW s \in Slots, Free(s), NEW q, Plain(q), Goto(s, q),
         Milder(reg, reg'), UNCHANGED <<hist, nextCall>>
  PROVE  RingInv'
<1>1. Plain(proc[s]) /\ loop \in {None, s} /\ GoesPlain(s)
  BY DEF Free, Plain, GoesPlain
<1> QED BY <1>1, StatusKept, PlainStep

\* A refusal begins plainly.
LEMMA RefusalTimed ==
  ASSUME ~SharedStore, Inv, RingInv, NEW s \in Slots, NEW c \in Calls,
         NEW d \in Devices \union {NoDevice}, Reject(s, c, d)
  PROVE  RingInv'
<1> DEFINE p == [Idle EXCEPT !.u = hist[c].callee, !.v = hist[c].caller, !.c = c]
           m == /\ Active(reg.entry[hist[c].caller])
                /\ reg.entry[hist[c].caller].peer = hist[c].callee
                /\ reg.entry[hist[c].caller].call = c
           q == [p EXCEPT !.at = "rej_callee", !.match = m]
           r == [p EXCEPT !.at = "rej_stale"]
<1>1. Plain(q) /\ Plain(r)
  <2> HIDE DEF m
  <2> QED BY DEF RejectAt, Idle, Plain, PlainAt
<1>2. Goto(s, q) \/ Goto(s, r)
  BY Zenon DEF Reject
<1> HIDE DEF q, r
<1>3. Free(s) /\ UNCHANGED <<reg, hist, nextCall>>
  BY Zenon DEF Reject
<1>4. Milder(reg, reg') /\ UNCHANGED <<hist, nextCall>>
  BY <1>3 DEF Milder
<1> QED BY <1>1, <1>2, <1>3, <1>4, PlainStart

\* The other events start plainly too, or start nothing.
LEMMA EventsTimed ==
  ASSUME ~SharedStore, Inv, RingInv, NEW s \in Slots, NEW x \in Sockets,
         \/ \E c \in Calls : AnswerCall(s, c, x)
         \/ \E t \in Users : EndCall(s, x, t)
         \/ Disconnect(s, x) \/ Connect(s, x) \/ ResumeAck(s, x) \/ ResumeReject(s, x)
  PROVE  RingInv'
<1> DEFINE Nothing == reg' = reg /\ UNCHANGED <<hist, nextCall>> /\ Free(s)
<1>1. Nothing
  <2>1. ASSUME NEW c \in Calls, AnswerCall(s, c, x) PROVE Nothing
    BY <2>1, Zenon DEF AnswerCall
  <2>2. ASSUME NEW t \in Users, EndCall(s, x, t) PROVE Nothing
    BY <2>2, Zenon DEF EndCall
  <2>3. CASE Disconnect(s, x)
    BY <2>3 DEF Disconnect
  <2>4. CASE Connect(s, x)
    BY <2>4 DEF Connect
  <2>5. CASE ResumeAck(s, x)
    BY <2>5 DEF ResumeAck
  <2>6. CASE ResumeReject(s, x)
    BY <2>6 DEF ResumeReject
  <2> HIDE DEF Nothing
  <2> QED BY <2>1, <2>2, <2>3, <2>4, <2>5, <2>6
<1>2. Milder(reg, reg')
  BY <1>1 DEF Milder
<1>3. CASE UNCHANGED <<proc, loop>>
  BY <1>1, <1>2, <1>3, StillStep
<1>4. ASSUME NEW q, Plain(q), Goto(s, q) PROVE RingInv'
  BY <1>1, <1>2, <1>4, PlainStart
<1> DEFINE Begins == \E q : Plain(q) /\ Goto(s, q)
<1>5. ASSUME NEW c \in Calls, AnswerCall(s, c, x) PROVE Begins
  <2> DEFINE q == [Idle EXCEPT !.at = "claim", !.u = hist[c].callee, !.x = x,
                               !.v = hist[c].caller, !.c = c]
  <2>1. Plain(q)
    BY DEF Idle, Plain, PlainAt, AnswerAt
  <2>2. Goto(s, q)
    BY <1>5, Zenon DEF AnswerCall
  <2> QED BY <2>1, <2>2
<1>6. ASSUME NEW t \in Users, EndCall(s, x, t), ~UNCHANGED <<proc, loop>> PROVE Begins
  <2> DEFINE u == UserOf[x[1]]
             q == [Idle EXCEPT !.at = "end_self", !.u = u, !.x = x, !.v = t,
                               !.c = reg.entry[u].call]
  <2>1. Plain(q)
    BY DEF Idle, Plain, PlainAt, EndAt
  <2>2. Goto(s, q)
    BY <1>6, Zenon DEF EndCall
  <2> QED BY <2>1, <2>2
<1>7. ASSUME Disconnect(s, x), ~UNCHANGED <<proc, loop>> PROVE Begins
  <2> DEFINE u == UserOf[x[1]]
             q == [Idle EXCEPT !.at = "sched_read", !.u = u, !.k = "grace",
                               !.match = (reg.entry[u].status = "ringing")]
  <2>1. Plain(q)
    BY DEF Idle, Plain, PlainAt
  <2>2. Goto(s, q)
    BY <1>7 DEF Disconnect
  <2> QED BY <2>1, <2>2
<1>8. ASSUME Connect(s, x), ~UNCHANGED <<proc, loop>> PROVE Begins
  <2> DEFINE p == [Idle EXCEPT !.u = UserOf[x[1]]]
             q == [p EXCEPT !.at = "cancel_grace"]
             r == [p EXCEPT !.at = "sched_read", !.k = "owner_missing"]
             y == [p EXCEPT !.at = "sched_read", !.k = "resume_ack"]
  <2>1. Plain(q) /\ Plain(r) /\ Plain(y)
    BY DEF Idle, Plain, PlainAt
  <2>2. Goto(s, q) \/ Goto(s, r) \/ Goto(s, y)
    BY <1>8 DEF Connect
  <2> HIDE DEF q, r, y
  <2> QED BY <2>1, <2>2
<1>9. ASSUME ResumeAck(s, x) PROVE Begins
  <2> DEFINE q == [Idle EXCEPT !.at = "confirm", !.u = UserOf[x[1]]]
  <2>1. Plain(q)
    BY DEF Idle, Plain, PlainAt
  <2>2. Goto(s, q)
    BY <1>9 DEF ResumeAck
  <2> QED BY <2>1, <2>2
<1>10. ASSUME ResumeReject(s, x) PROVE Begins
  <2> DEFINE u == UserOf[x[1]]
             q == [Idle EXCEPT !.at = "ea_read", !.u = u, !.jc = reg.entry[u].call]
  <2>1. Plain(q)
    BY DEF Idle, Plain, PlainAt, CascadeAt
  <2>2. Goto(s, q)
    BY <1>10 DEF ResumeReject
  <2> QED BY <2>1, <2>2
<1>11. Begins \/ UNCHANGED <<proc, loop>>
  <2> HIDE DEF Begins
  <2> QED BY <1>5, <1>6, <1>7, <1>8, <1>9, <1>10
<1> QED BY <1>3, <1>4, <1>11

-----------------------------------------------------------------------------
(* call_user, from its arrival to the deadline of its ring.                *)

\* Its three purges only end rings.
LEMMA PurgesMild ==
  ASSUME NEW g, GoodRegister(g), NEW u, NEW t, NEW cu, NEW ct
  PROVE  Milder(g, ClearStaleRinging(ReclaimStaleBusy(ReclaimStaleBusy(g, t, ct), u, cu), u))
<1> DEFINE a == ReclaimStaleBusy(g, t, ct)
           b == ReclaimStaleBusy(a, u, cu)
           r == ClearStaleRinging(b, u)
<1>1. Milder(g, a) /\ GoodRegister(a)
  BY MilderPurge, PurgesGood
<1>2. Milder(a, b) /\ GoodRegister(b)
  <2> HIDE DEF a
  <2> QED BY <1>1, MilderPurge, PurgesGood
<1>3. Milder(b, r)
  <2> HIDE DEF b
  <2> QED BY <1>2, MilderPurge
<1>4. Milder(g, r)
  <2> HIDE DEF a, b, r
  <2> QED BY <1>1, <1>2, <1>3, MilderTwice
<1> QED BY <1>4

\* It rings nobody of itself,
LEMMA CallUserTimed ==
  ASSUME ~SharedStore, Inv, RingInv, NEW s \in Slots, NEW x \in Sockets, NEW t \in Users,
         CallUser(s, x, t)
  PROVE  RingInv'
<1> DEFINE u == UserOf[x[1]]
           a == ReclaimStaleBusy(reg, t, Connected(t))
           b == ReclaimStaleBusy(a, u, Connected(u))
           r == ClearStaleRinging(b, u)
           q == [Idle EXCEPT !.at = "verdict", !.u = u, !.x = x, !.v = t]
<1>1. GoodRegister(reg) /\ proc \in [Slots -> Execs]
  BY DEF Inv, TypeOK
<1>2. Milder(reg, r)
  BY <1>1, PurgesMild
<1>3. /\ Free(s) /\ t # u /\ reg' = r /\ UNCHANGED <<hist, nextCall>>
      /\ UNCHANGED <<proc, loop>> \/ Goto(s, q)
  BY Zenon DEF CallUser
<1> HIDE DEF r
<1>4. loop = None
  BY <1>3 DEF Free
<1>5. CASE UNCHANGED <<proc, loop>>
  BY <1>2, <1>3, <1>4, <1>5, AtRestTimed, StillStep
<1>6. CASE Goto(s, q)
  <2>1. q.at = "verdict" /\ q.u = u /\ q.v = t
    BY DEF Idle
  <2> HIDE DEF q, u
  <2>2. RingLaw(q, reg', hist')
    BY <2>1, <1>3 DEF RingLaw
  <2>3. OldRings(reg', nextCall') /\ \A w \in Users : Timed(reg', hist', w)
    <3>1. OldRings(reg, nextCall) /\ CalleesKept(hist, hist, nextCall)
      BY DEF RingInv, CalleesKept
    <3>2. \A w \in Users : Timed(reg, hist, w)
      BY <1>4, AtRestTimed
    <3>3. OldRings(r, nextCall)
          /\ \A w \in Users : Timed(reg, hist, w) => Timed(r, hist, w)
      BY <1>1, <1>2, <3>1, MilderKeeps
    <3> QED BY <1>3, <3>2, <3>3
  <2> QED BY <1>1, <1>4, <1>6, <2>2, <2>3, OneMoves
<1> QED BY <1>3, <1>5, <1>6

\* nor does the verdict,
LEMMA VerdictTimed ==
  ASSUME ~SharedStore, Inv, RingInv, NEW s \in Slots, Verdict(s) PROVE RingInv'
<1> DEFINE p == proc[s]
           r == ClearStaleRinging(reg, p.v)
           q == [p EXCEPT !.at = "insert"]
<1>1. GoodRegister(reg) /\ proc \in [Slots -> Execs] /\ p \in Execs
  BY DEF Inv, TypeOK
<1>2. p.at = "verdict" /\ loop \in {None, s} /\ RingLaw(p, reg, hist)
  BY DEF Verdict, At, RingInv
<1>3. Milder(reg, r) /\ Milder(reg, reg)
  BY <1>1, MilderPurge DEF Milder
<1>4. \A w \in Users : Timed(reg, hist, w)
  <2>1. \A w : ~Owes(p, w)
    BY <1>2 DEF Owes
  <2> QED BY <1>2, <2>1, OthersTimed
<1>5. /\ reg' \in {reg, r} /\ UNCHANGED <<hist, nextCall>>
      /\ Done(s) \/ Goto(s, q)
  BY Zenon DEF Verdict
<1> HIDE DEF r
<1>6. OldRings(reg', nextCall') /\ \A w \in Users : Timed(reg', hist', w)
  <2>1. OldRings(reg, nextCall) /\ CalleesKept(hist, hist, nextCall)
    BY DEF RingInv, CalleesKept
  <2>2. \A z \in {reg, r} : OldRings(z, nextCall)
          /\ \A w \in Users : Timed(reg, hist, w) => Timed(z, hist, w)
    BY <1>1, <1>3, <2>1, MilderKeeps
  <2> QED BY <1>4, <1>5, <2>2
<1>7. q.at = "insert" /\ q.u = p.u /\ q.v = p.v
  BY <1>1 DEF Execs
<1> HIDE DEF q
<1>8. RingLaw(q, reg', hist') /\ RingLaw(Idle, reg', hist')
  <2>1. RingLaw(q, reg', hist')
    BY <1>2, <1>7 DEF RingLaw, CallUserAt
  <2>2. RingLaw(Idle, reg', hist')
    BY PlainOwesNothing DEF Plain, Idle
  <2> QED BY <2>1, <2>2
<1> QED BY <1>1, <1>2, <1>5, <1>6, <1>8, OneMoves

\* nor the INSERT, whose row names the callee.
LEMMA InsertTimed ==
  ASSUME ~SharedStore, Inv, RingInv, NEW s \in Slots, InsertCall(s) PROVE RingInv'
<1> DEFINE p == proc[s]
           q == [p EXCEPT !.at = "own", !.c = nextCall]
<1>1. GoodRegister(reg) /\ proc \in [Slots -> Execs] /\ p \in Execs
      /\ hist \in [Calls -> Rows] /\ nextCall \in Int
  BY OneToOneAssumption DEF Inv, TypeOK
<1>2. p.at = "insert" /\ loop \in {None, s} /\ RingLaw(p, reg, hist) /\ reg' = reg
  BY DEF InsertCall, At, RingInv
<1>3. \A w \in Users : Timed(reg, hist, w)
  <2>1. \A w : ~Owes(p, w)
    BY <1>2 DEF Owes
  <2> QED BY <1>2, <2>1, OthersTimed
<1>4. OldRings(reg, nextCall) /\ Milder(reg, reg)
  BY DEF RingInv, Milder
<1>5. CASE Done(s) /\ UNCHANGED <<hist, nextCall>>
  <2>1. RingLaw(Idle, reg', hist')
    BY PlainOwesNothing DEF Plain, Idle
  <2> QED BY <1>1, <1>2, <1>3, <1>4, <1>5, <2>1, OneMoves
<1>6. ASSUME nextCall \in Calls, Goto(s, q), nextCall' = nextCall + 1,
             hist' = [hist EXCEPT ![nextCall] =
                        [status |-> "initiated", caller |-> p.u, callee |-> p.v]]
      PROVE  RingInv'
  <2>1. hist'[nextCall].callee = p.v /\ CalleesKept(hist, hist', nextCall)
    BY <1>1, <1>6 DEF CalleesKept, Calls
  <2>2. q.at = "own" /\ q.u = p.u /\ q.v = p.v /\ q.c = nextCall
    BY <1>1 DEF Execs
  <2> HIDE DEF q
  <2>3. RingLaw(q, reg', hist')
    BY <1>2, <2>1, <2>2 DEF RingLaw, CallUserAt
  <2>4. OldRings(reg, nextCall)
        /\ \A w \in Users : Timed(reg, hist, w) => Timed(reg, hist', w)
    BY <1>1, <1>4, <2>1, MilderKeeps
  <2>5. OldRings(reg', nextCall')
    <3>1. \A w \in Users : reg.entry[w].status = "ringing" => reg.entry[w].call \in Int
      BY <1>1, OneToOneAssumption DEF GoodRegister, EntriesOK, Active, Calls
    <3> QED BY <1>1, <1>2, <1>4, <1>6, <3>1 DEF OldRings
  <2> QED BY <1>1, <1>2, <1>3, <1>6, <2>3, <2>4, <2>5, OneMoves
<1> QED BY <1>5, <1>6 DEF InsertCall

\* nor the ownerships.
LEMMA OpenTimed ==
  ASSUME ~SharedStore, Inv, RingInv, NEW s \in Slots, OpenOwnership(s) PROVE RingInv'
<1> DEFINE p == proc[s]
           q == [p EXCEPT !.at = "ring_callee"]
<1>1. proc \in [Slots -> Execs] /\ p \in Execs
  BY DEF Inv, TypeOK
<1>2. /\ p.at = "own" /\ loop \in {None, s} /\ RingLaw(p, reg, hist)
      /\ UNCHANGED <<reg, hist, nextCall>> /\ Goto(s, q)
  BY DEF OpenOwnership, At, RingInv
<1>3. \A w \in Users : Timed(reg, hist, w)
  <2>1. \A w : ~Owes(p, w)
    BY <1>2 DEF Owes
  <2> QED BY <1>2, <2>1, OthersTimed
<1>4. q.at = "ring_callee" /\ q.u = p.u /\ q.v = p.v /\ q.c = p.c
  BY <1>1 DEF Execs
<1> HIDE DEF q
<1>5. RingLaw(q, reg', hist') /\ OldRings(reg', nextCall')
  BY <1>2, <1>4 DEF RingLaw, CallUserAt, RingInv
<1> QED BY <1>1, <1>2, <1>3, <1>5, OneMoves

\* setRinging writes the entry of one account.
LEMMA RingWrites ==
  ASSUME NEW r, GoodRegister(r), NEW x \in Users, NEW c, NEW y
  PROVE  /\ SetRinging(r, x, c, y).entry[x].status = "ringing"
         /\ SetRinging(r, x, c, y).entry[x].call = c
         /\ SetRinging(r, x, c, y).entry[x].peer = y
         /\ \A w \in Users \ {x} : /\ SetRinging(r, x, c, y).entry[w] = r.entry[w]
                                   /\ SetRinging(r, x, c, y).timer[w] = r.timer[w]
<1> DEFINE e == Ringing(c, y)
<1>1. r.entry \in [Users -> Entries] /\ r.timer \in [Users -> [Kinds -> Jobs]]
  BY DEF GoodRegister, Registers
<1>2. e.status = "ringing" /\ e.call = c /\ e.peer = y
  BY DEF Ringing
<1>3. /\ SetRinging(r, x, c, y).entry = [r.entry EXCEPT ![x] = e]
      /\ SetRinging(r, x, c, y).timer = [r.timer EXCEPT ![x] = NoTimers]
  BY DEF SetRinging, Write
<1> HIDE DEF e
<1> QED BY <1>1, <1>2, <1>3

\* The ring of the callee is owed its deadline; the ring of the caller is not
\* the ring of a callee.
LEMMA RingsTimed ==
  ASSUME ~SharedStore, Inv, RingInv, NEW s \in Slots, RingCallee(s) \/ RingCaller(s)
  PROVE  RingInv'
<1>1. ASSUME NEW p, NEW x, NEW y, NEW next, p = proc[s],
             \/ p.at = "ring_callee" /\ x = p.v /\ y = p.u /\ next = "ring_caller"
             \/ p.at = "ring_caller" /\ x = p.u /\ y = p.v /\ next = "arm_read",
             loop \in {None, s}, Ring(s, x, y, next)
      PROVE  RingInv'
  <2> DEFINE q == [p EXCEPT !.at = next]
             r == SetRinging(reg, x, p.c, y)
  <2>1. proc \in [Slots -> Execs] /\ p \in Execs /\ GoodRegister(reg)
    BY <1>1 DEF Inv, TypeOK
  <2>2. RingLaw(p, reg, hist) /\ OldRings(reg, nextCall)
    BY <1>1 DEF RingInv
  <2>3. reg' = r /\ hist' = hist /\ nextCall' = nextCall /\ Goto(s, q)
    BY <1>1 DEF Ring
  <2>4. p.c < nextCall /\ p.u \in Users /\ p.v \in Users /\ p.u # p.v /\ hist[p.c].callee = p.v
    <3>1. ExecOK(p, nextCall, announced)
      BY <1>1 DEF Inv, ExecsOK
    <3> QED BY <1>1, <2>2, <3>1 DEF ExecOK, RingLaw, CallUserAt, Opening
  <2>5. x \in Users
    BY <1>1, <2>4
  <2>6. /\ r.entry[x].call = p.c
        /\ \A w \in Users \ {x} : r.entry[w] = reg.entry[w] /\ r.timer[w] = reg.timer[w]
    BY <2>1, <2>5, RingWrites
  <2>7. q.at = next /\ q.u = p.u /\ q.v = p.v /\ q.c = p.c
    BY <2>1 DEF Execs
  <2> HIDE DEF q, r
  <2>8. RingLaw(q, reg', hist')
    BY <1>1, <2>3, <2>4, <2>7 DEF RingLaw
  <2>9. OldRings(reg', nextCall')
    BY <2>2, <2>3, <2>4, <2>6 DEF OldRings
  <2>10. \A w \in Users : Timed(reg', hist', w) \/ Owes(q, w)
    <3> SUFFICES ASSUME NEW w \in Users, ~Owes(q, w) PROVE Timed(reg', hist', w)
      OBVIOUS
    <3>1. w # p.v
      BY <1>1, <2>7 DEF Owes
    <3>2. CASE w = x
      BY <1>1, <2>3, <2>4, <2>6, <3>1, <3>2 DEF Timed
    <3>3. CASE w # x
      <4>1. Timed(reg, hist, w) \/ Owes(p, w)
        BY <1>1, OthersTimed
      <4>2. ~Owes(p, w)
        BY <1>1, <3>1 DEF Owes
      <4> QED BY <2>3, <2>6, <3>3, <4>1, <4>2 DEF Timed
    <3> QED BY <3>2, <3>3
  <2> QED BY <1>1, <2>1, <2>3, <2>8, <2>9, <2>10, OneMoves
<1>2. CASE RingCallee(s)
  BY <1>1, <1>2 DEF RingCallee, At
<1>3. CASE RingCaller(s)
  BY <1>1, <1>3 DEF RingCaller, At
<1> QED BY <1>2, <1>3

\* The deadline is for the ring that is found; no ring, nothing is owed.
LEMMA ArmReadTimed ==
  ASSUME ~SharedStore, Inv, RingInv, NEW s \in Slots, ReadForNoAnswer(s) PROVE RingInv'
<1> DEFINE p == proc[s]
           e == reg.entry[p.v]
           q == [Idle EXCEPT !.at = "arm", !.k = "no_answer", !.u = p.v,
                             !.c = e.call, !.v = e.peer, !.jc = p.c]
<1>1. proc \in [Slots -> Execs] /\ OldRings(reg, nextCall)
  BY DEF Inv, TypeOK, RingInv
<1>2. /\ p.at = "arm_read" /\ loop \in {None, s} /\ UNCHANGED <<reg, hist, nextCall>>
      /\ IF e.status = "ringing" THEN Goto(s, q) ELSE Done(s)
  BY Zenon DEF ReadForNoAnswer, At
<1>3. \A w \in Users : Timed(reg, hist, w) \/ w = p.v
  <2>1. \A w : Owes(p, w) => w = p.v
    BY <1>2 DEF Owes
  <2> QED BY <1>2, <2>1, OthersTimed
<1>4. CASE e.status = "ringing"
  <2>1. q.at = "arm" /\ q.k = "no_answer" /\ q.u = p.v /\ q.c = e.call /\ q.v = e.peer
    BY DEF Idle
  <2> HIDE DEF q
  <2>2. RingLaw(q, reg', hist')
    <3>1. p.v \in Users
      BY <1>2 DEF Inv, ExecsOK, ExecOK, CallUserAt
    <3> QED BY <1>2, <2>1, <3>1 DEF RingLaw, CallUserAt
  <2>3. Owes(q, p.v)
    BY <2>1 DEF Owes
  <2>4. \A w \in Users : Timed(reg', hist', w) \/ Owes(q, w)
    BY <1>2, <1>3, <2>3
  <2> QED BY <1>1, <1>2, <1>4, <2>2, <2>4, OneMoves
<1>5. CASE e.status # "ringing"
  <2>1. Timed(reg, hist, p.v)
    BY <1>5 DEF Timed
  <2>2. RingLaw(Idle, reg', hist')
    BY PlainOwesNothing DEF Plain, Idle
  <2>3. \A w \in Users : Timed(reg', hist', w)
    BY <1>2, <1>3, <2>1
  <2> QED BY <1>1, <1>2, <1>5, <2>2, <2>3, OneMoves
<1> QED BY <1>4, <1>5

\* schedule arms the row it cancelled.
LEMMA ScheduleArms ==
  ASSUME NEW r, GoodRegister(r), NEW u \in Users, NEW c, NEW y
  PROVE  LET a == Schedule(r, u, "no_answer", c, y)
         IN /\ a.entry = r.entry /\ a.timer[u]["no_answer"] = Job(c, y)
            /\ \A w \in Users \ {u} : a.timer[w] = r.timer[w]
<1> DEFINE f == [k \in Kinds |-> IF k \in {"no_answer"} THEN NoJob ELSE r.timer[u][k]]
           q == Cancel(r, u, {"no_answer"})
<1>1. /\ r.entry \in [Users -> Entries] /\ r.timer \in [Users -> [Kinds -> Jobs]]
      /\ r = [entry |-> r.entry, timer |-> r.timer] /\ "no_answer" \in Kinds
  BY DEF GoodRegister, Registers, Kinds
<1>2. f["no_answer"] = NoJob /\ f \in [Kinds -> Jobs]
  BY <1>1 DEF NoJob, Jobs
<1>3. q = [r EXCEPT !.timer[u] = f]
  BY DEF Cancel
<1>4. Schedule(r, u, "no_answer", c, y) = Enqueue(q, u, "no_answer", c, y)
  BY DEF Schedule, CancelledBy
<1> HIDE DEF f, q
<1>5. /\ q.entry = r.entry /\ q.timer = [r.timer EXCEPT ![u] = f]
      /\ q = [entry |-> q.entry, timer |-> q.timer]
  BY <1>1, <1>3
<1>6. /\ q.timer \in [Users -> [Kinds -> Jobs]] /\ ~q.timer[u]["no_answer"].armed
      /\ \A w \in Users \ {u} : q.timer[w] = r.timer[w]
  BY <1>1, <1>2, <1>5 DEF NoJob
<1>7. Enqueue(q, u, "no_answer", c, y) = [q EXCEPT !.timer[u]["no_answer"] = Job(c, y)]
  BY <1>6 DEF Enqueue
<1> DEFINE a == [q EXCEPT !.timer[u]["no_answer"] = Job(c, y)]
<1>8. /\ a.entry = r.entry /\ a.timer[u]["no_answer"] = Job(c, y)
      /\ \A w \in Users \ {u} : a.timer[w] = r.timer[w]
  BY <1>1, <1>5, <1>6
<1> QED BY <1>4, <1>7, <1>8

\* So the deadline that was owed is paid.
LEMMA ArmTimed ==
  ASSUME ~SharedStore, Inv, RingInv, NEW s \in Slots, Arm(s), proc[s].k = "no_answer"
  PROVE  RingInv'
<1> DEFINE p == proc[s]
           a == Schedule(reg, p.u, "no_answer", p.c, p.v)
<1>1. proc \in [Slots -> Execs] /\ OldRings(reg, nextCall) /\ GoodRegister(reg)
  BY DEF Inv, TypeOK, RingInv
<1>2. /\ p.at = "arm" /\ p.k = "no_answer" /\ loop \in {None, s} /\ RingLaw(p, reg, hist)
      /\ reg' = a /\ UNCHANGED <<hist, nextCall>> /\ Done(s)
  BY DEF Arm, At, RingInv
<1>3. \A w \in Users : Timed(reg, hist, w) \/ w = p.u
  <2>1. \A w : Owes(p, w) => w = p.u
    BY <1>2 DEF Owes
  <2> QED BY <1>2, <2>1, OthersTimed
<1>4. \A w \in Users : Timed(a, hist, w)
  <2> HIDE DEF a
  <2> SUFFICES ASSUME NEW w \in Users PROVE Timed(a, hist, w)
    BY Zenon
  <2>1. CASE w = p.u
    <3>1. a.entry = reg.entry /\ a.timer[w]["no_answer"] = Job(p.c, p.v)
      BY <1>1, <2>1, ScheduleArms DEF a
    <3>2. reg.entry[w].call = p.c /\ reg.entry[w].peer = p.v
      BY <1>2, <2>1 DEF RingLaw
    <3> QED BY <3>1, <3>2 DEF Timed, Job
  <2>2. CASE w # p.u
    <3>1. p.u \in Users => a.entry = reg.entry /\ a.timer[w] = reg.timer[w]
      BY <1>1, <2>2, ScheduleArms DEF a
    <3>2. p.u \in Users
      BY <1>2 DEF RingLaw
    <3> QED BY <1>3, <2>2, <3>1, <3>2 DEF Timed
  <2> QED BY <2>1, <2>2
<1>5. OldRings(a, nextCall)
  <2>1. p.u \in Users
    BY <1>2 DEF RingLaw
  <2>2. a.entry = reg.entry
    BY <1>1, <2>1, ScheduleArms
  <2> HIDE DEF a
  <2> QED BY <1>1, <2>2 DEF OldRings
<1>6. RingLaw(Idle, reg', hist')
  BY PlainOwesNothing DEF Plain, Idle
<1> HIDE DEF a
<1> QED BY <1>1, <1>2, <1>4, <1>5, <1>6, OneMoves

-----------------------------------------------------------------------------
(* The deadlines, the passing of time and the crashes.                     *)

\* The timer that fires owes its account the end of the ring it was for.
LEMMA FireTimed ==
  ASSUME ~SharedStore, Inv, RingInv, NEW s \in Slots, NEW u \in Users, NEW k \in Kinds,
         Fire(s, u, k)
  PROVE  RingInv'
<1> DEFINE j == reg.timer[u][k]
           f == CASE k = "no_answer" -> "na_read" [] k = "grace" -> "grace_check"
                  [] OTHER -> "ea_read"
           q == [Idle EXCEPT !.at = f, !.u = u, !.v = j.peer, !.jc = j.call, !.k = k]
           r == Cancel(reg, u, {k})
<1>1. proc \in [Slots -> Execs] /\ GoodRegister(reg) /\ OldRings(reg, nextCall)
  BY DEF Inv, TypeOK, RingInv
<1>2. Free(s) /\ reg' = r /\ UNCHANGED <<hist, nextCall>> /\ Goto(s, q)
  BY Zenon DEF Fire
<1>3. q.at = f /\ q.u = u /\ q.jc = j.call /\ q.k = k
  BY DEF Idle
<1>4. CASE k # "no_answer"
  <2>1. Milder(reg, r)
    BY <1>1, <1>4, MilderCancel
  <2>2. f \in {"grace_check", "ea_read"}
    BY <1>4
  <2> HIDE DEF r, q, f
  <2>3. Plain(q)
    BY <1>3, <2>2 DEF Plain, PlainAt, CascadeAt
  <2> QED BY <1>2, <2>1, <2>3, PlainStart
<1>5. CASE k = "no_answer"
  <2>1. loop = None /\ \A w \in Users : Timed(reg, hist, w)
    BY <1>2, AtRestTimed DEF Free
  <2>2. q.at = "na_read"
    BY <1>3, <1>5
  <2>3. r.entry = reg.entry /\ \A w \in Users \ {u} : r.timer[w] = reg.timer[w]
    <3>1. r.entry = reg.entry
      BY <1>1, CancelGood
    <3> DEFINE g == [m \in Kinds |-> IF m \in {k} THEN NoJob ELSE reg.timer[u][m]]
    <3>2. r = [reg EXCEPT !.timer[u] = g]
      BY DEF Cancel
    <3> HIDE DEF g, r
    <3>3. r.timer = [reg.timer EXCEPT ![u] = g] /\ reg.timer \in [Users -> [Kinds -> Jobs]]
      BY <1>1, <3>2 DEF GoodRegister, Registers
    <3> QED BY <3>1, <3>3
  <2> HIDE DEF q, r
  <2>4. RingLaw(q, reg', hist')
    <3>1. Timed(reg, hist, u)
      BY <2>1
    <3>2. reg.entry[u].status = "ringing" /\ hist[reg.entry[u].call].callee = u =>
            reg.entry[u].call = j.call
      BY <1>5, <3>1 DEF Timed
    <3> HIDE DEF j
    <3> QED BY <1>2, <1>3, <2>2, <2>3, <3>2 DEF RingLaw, CallUserAt
  <2>5. OldRings(reg', nextCall')
    BY <1>1, <1>2, <2>3 DEF OldRings
  <2>6. \A w \in Users : Timed(reg', hist', w) \/ Owes(q, w)
    <3> SUFFICES ASSUME NEW w \in Users PROVE Timed(reg', hist', w) \/ Owes(q, w)
      BY Zenon
    <3>1. CASE w = u
      BY <1>3, <2>2, <3>1 DEF Owes
    <3>2. CASE w # u
      BY <1>2, <2>1, <2>3, <3>2 DEF Timed
    <3> QED BY <3>1, <3>2
  <2> QED BY <1>1, <1>2, <2>1, <2>4, <2>5, <2>6, OneMoves
<1> QED BY <1>4, <1>5

\* It finds that ring, or none that its account is called by.
LEMMA NoAnswerReadTimed ==
  ASSUME ~SharedStore, Inv, RingInv, NEW s \in Slots, NoAnswerRead(s) PROVE RingInv'
<1> DEFINE p == proc[s]
           e == reg.entry[p.u]
           q == [p EXCEPT !.at = "na_target"]
<1>1. proc \in [Slots -> Execs] /\ p \in Execs /\ OldRings(reg, nextCall)
  BY DEF Inv, TypeOK, RingInv
<1>2. /\ p.at = "na_read" /\ loop \in {None, s} /\ RingLaw(p, reg, hist)
      /\ UNCHANGED <<reg, hist, nextCall>>
  BY DEF NoAnswerRead, At, RingInv
<1>3. \A w \in Users : Timed(reg, hist, w) \/ w = p.u
  <2>1. \A w : Owes(p, w) => w = p.u
    BY <1>2 DEF Owes
  <2> QED BY <1>2, <2>1, OthersTimed
<1>4. CASE e.status = "ringing" /\ e.call = p.jc
  <2>1. Goto(s, q)
    BY <1>4 DEF NoAnswerRead
  <2>2. q.at = "na_target" /\ q.u = p.u
    BY <1>1 DEF Execs
  <2> HIDE DEF q
  <2>3. RingLaw(q, reg', hist') /\ Owes(q, p.u)
    BY <2>2 DEF RingLaw, CallUserAt, Owes
  <2>4. \A w \in Users : Timed(reg', hist', w) \/ Owes(q, w)
    BY <1>2, <1>3, <2>3
  <2> QED BY <1>1, <1>2, <2>1, <2>3, <2>4, OneMoves
<1>5. CASE ~(e.status = "ringing" /\ e.call = p.jc)
  <2>1. Done(s)
    BY <1>5, FinishDone DEF NoAnswerRead
  <2>2. Timed(reg, hist, p.u)
    BY <1>2, <1>5 DEF RingLaw, Timed
  <2>3. RingLaw(Idle, reg', hist')
    BY PlainOwesNothing DEF Plain, Idle
  <2>4. \A w \in Users : Timed(reg', hist', w)
    BY <1>2, <1>3, <2>2
  <2> QED BY <1>1, <1>2, <2>1, <2>3, <2>4, OneMoves
<1> QED BY <1>4, <1>5

\* It ends it.
LEMMA NoAnswerTargetTimed ==
  ASSUME ~SharedStore, Inv, RingInv, NEW s \in Slots, NoAnswerTarget(s) PROVE RingInv'
<1> DEFINE p == proc[s]
           q == [p EXCEPT !.at = "na_caller"]
           r == Clear(reg, p.u)
<1>1. proc \in [Slots -> Execs] /\ p \in Execs /\ OldRings(reg, nextCall) /\ GoodRegister(reg)
  BY DEF Inv, TypeOK, RingInv
<1>2. /\ p.at = "na_target" /\ loop \in {None, s} /\ reg' = r
      /\ UNCHANGED <<hist, nextCall>> /\ Goto(s, q)
  BY DEF NoAnswerTarget, At
<1>3. \A w \in Users : Timed(reg, hist, w) \/ w = p.u
  <2>1. \A w : Owes(p, w) => w = p.u
    BY <1>2 DEF Owes
  <2> QED BY <1>2, <2>1, OthersTimed
<1>4. Plain(q)
  <2>1. q.at = "na_caller"
    BY <1>1 DEF Execs
  <2> QED BY <2>1 DEF Plain, PlainAt
<1>5. p.u \in Users => r.entry[p.u].status # "ringing"
  BY <1>1 DEF Clear, Write, NoEntry, GoodRegister, Registers
<1>6. Milder(reg, r) /\ CalleesKept(hist, hist, nextCall)
  BY <1>1, MilderClear DEF CalleesKept
<1> HIDE DEF q, r
<1>7. OldRings(r, nextCall) /\ \A w \in Users : Timed(reg, hist, w) => Timed(r, hist, w)
  BY <1>1, <1>6, MilderKeeps
<1>8. \A w \in Users : Timed(r, hist, w)
  <2>1. p.u \in Users => Timed(r, hist, p.u)
    BY <1>5 DEF Timed
  <2> QED BY <1>3, <1>7, <2>1, Zenon
<1>9. RingLaw(q, reg', hist')
  BY <1>4, PlainOwesNothing
<1> QED BY <1>1, <1>2, <1>7, <1>8, <1>9, OneMoves

\* Time and the reclaiming of locks touch no ring; a crash ends them all.
LEMMA WorldTimed ==
  ASSUME ~SharedStore, Inv, RingInv,
         \/ \E u \in Users : Age(u) \/ \E k \in Kinds : ReclaimOrphan(u, k)
         \/ Crash
  PROVE  RingInv'
<1>1. GoodRegister(reg)
  BY DEF Inv
<1>2. ASSUME NEW u \in Users, Age(u) PROVE RingInv'
  <2>1. Milder(reg, reg') /\ UNCHANGED <<proc, loop, hist, nextCall>>
    BY <1>1, <1>2, MilderRest DEF Age
  <2>2. \A t \in Slots : proc[t].at \in Resting
    BY <1>2 DEF Age, Resting
  <2> QED BY <2>1, <2>2, StillStep
<1>3. ASSUME NEW u \in Users, NEW k \in Kinds, ReclaimOrphan(u, k) PROVE RingInv'
  <2>1. reg' = Lock(reg, u, k, None) /\ UNCHANGED <<proc, loop, hist, nextCall>>
    BY <1>3, Zenon DEF ReclaimOrphan
  <2>2. Milder(reg, reg')
    BY <1>1, <2>1, MilderRest
  <2>3. reg'.entry = reg.entry
    <3> DEFINE j == [reg.timer[u][k] EXCEPT !.lock = None]
    <3>1. reg' = [reg EXCEPT !.timer[u][k] = j]
      BY <2>1 DEF Lock
    <3> HIDE DEF j
    <3> QED BY <1>1, <3>1 DEF GoodRegister, Registers
  <2> QED BY <2>1, <2>2, <2>3, StillStep
<1>4. CASE Crash
  <2>1. loop' = None /\ proc' = [s \in Slots |-> Idle] /\ reg' = EmptyRegister
    BY <1>4 DEF Crash
  <2>2. \A u \in Users : reg'.entry[u].status # "ringing"
    BY <2>1 DEF EmptyRegister, NoEntry
  <2>3. Alone' /\ \A s \in Slots : RingLaw(proc'[s], reg', hist')
    <3>1. Plain(Idle) /\ Idle.at \in Resting
      BY DEF Plain, Idle, Resting
    <3> QED BY <2>1, <3>1, PlainOwesNothing DEF Alone
  <2>4. OldRings(reg', nextCall') /\ \A u \in Users : Timed(reg', hist', u)
    BY <2>2 DEF OldRings, Timed
  <2> QED BY <2>3, <2>4 DEF RingInv
<1> QED BY <1>2, <1>3, <1>4

-----------------------------------------------------------------------------
\* Nothing rings at the start.
LEMMA InitRings == Init => RingInv
<1> SUFFICES ASSUME Init PROVE RingInv
  OBVIOUS
<1>1. proc = [s \in Slots |-> Idle] /\ \A u \in Users : reg.entry[u].status # "ringing"
  BY DEF Init, EmptyRegister, NoEntry
<1>2. Plain(Idle) /\ Idle.at \in Resting
  BY DEF Plain, Idle, Resting
<1>3. Alone /\ \A s \in Slots : RingLaw(proc[s], reg, hist)
  BY <1>1, <1>2, PlainOwesNothing DEF Alone
<1>4. OldRings(reg, nextCall) /\ \A u \in Users : Timed(reg, hist, u)
  BY <1>1 DEF OldRings, Timed
<1> QED BY <1>3, <1>4 DEF RingInv

\* Every step keeps the rings timed, or owed their deadline.
LEMMA NextRings == ASSUME ~SharedStore, Inv, RingInv, [Next]_vars PROVE RingInv'
<1>1. ASSUME NEW s \in Slots, Continue(s) PROVE RingInv'
  <2>1. ~FinishJob(s)
    BY DEF RingInv, RingLaw, FinishJob, At
  <2>2. CASE \/ RejectStale(s) \/ RejectCallee(s) \/ RejectCaller(s) \/ RejectRelease(s)
             \/ RejectHist(s) \/ RejectVoicemail(s)
             \/ EndSelf(s) \/ EndPeer(s) \/ EndRelease(s) \/ EndHist(s)
    BY <2>2, RejectEndTimed
  <2>3. CASE Claim(s) \/ AnswerCallee(s) \/ AnswerCaller(s) \/ AnswerHist(s)
    BY <2>3, AnswerTimed
  <2>4. CASE ReadToSchedule(s) \/ CancelGrace(s) \/ Confirm(s) \/ Arm(s)
    BY <2>4, OtherDeadlinesTimed, ArmTimed
  <2>5. CASE \/ GraceCheck(s) \/ EndActiveRead(s) \/ EndActiveSelf(s) \/ EndActivePeer(s)
             \/ EndActiveHist(s) \/ ReleaseAfterEnd(s)
    BY <2>5, CascadeTimed
  <2>6. CASE \/ NoAnswerRead(s) \/ NoAnswerTarget(s) \/ NoAnswerCaller(s)
             \/ NoAnswerHist(s) \/ NoAnswerRelease(s)
    BY <2>6, NoAnswerReadTimed, NoAnswerTargetTimed, NoAnswerTimed
  <2>7. CASE \/ Verdict(s) \/ InsertCall(s) \/ OpenOwnership(s) \/ RingCallee(s)
             \/ RingCaller(s) \/ ReadForNoAnswer(s)
    BY <2>7, VerdictTimed, InsertTimed, OpenTimed, RingsTimed, ArmReadTimed
  <2> QED BY <1>1, <2>1, <2>2, <2>3, <2>4, <2>5, <2>6, <2>7 DEF Continue
<1>2. ASSUME NEW s \in Slots, Receive(s) PROVE RingInv'
  <2>1. ASSUME NEW x \in Sockets, NEW t \in Users, CallUser(s, x, t) \/ EndCall(s, x, t)
        PROVE  RingInv'
    BY <2>1, CallUserTimed, EventsTimed
  <2>2. ASSUME NEW x \in Sockets, NEW c \in Calls, AnswerCall(s, c, x) PROVE RingInv'
    BY <2>2, EventsTimed
  <2>3. ASSUME NEW x \in Sockets,
               Disconnect(s, x) \/ Connect(s, x) \/ ResumeAck(s, x) \/ ResumeReject(s, x)
        PROVE  RingInv'
    BY <2>3, EventsTimed
  <2>4. ASSUME NEW c \in Calls, NEW d \in Devices \union {NoDevice}, Reject(s, c, d)
        PROVE  RingInv'
    BY <2>4, RefusalTimed
  <2> QED BY <1>2, <2>1, <2>2, <2>3, <2>4 DEF Receive
<1>3. ASSUME NEW s \in Slots, NEW u \in Users, NEW k \in Kinds, Fire(s, u, k) PROVE RingInv'
  BY <1>3, FireTimed
<1>4. CASE \/ \E u \in Users : Age(u) \/ \E k \in Kinds : ReclaimOrphan(u, k)
           \/ Crash
  BY <1>4, WorldTimed
<1>5. CASE UNCHANGED vars
  <2>1. UNCHANGED <<proc, loop, hist, nextCall, reg>>
    BY <1>5 DEF vars
  <2> QED BY <2>1 DEF RingInv, Alone
<1> QED BY <1>1, <1>2, <1>3, <1>4, <1>5 DEF Next

(* In one process with its Maps, whatever calls, refusals, answers, hang-ups *)
(* and deadlines come between any accounts, a callee that rings has the     *)
(* no-answer deadline of that very call armed: scheduleNoAnswer, called at  *)
(* the end of call_user, reads the ring that call_user has just written.    *)
THEOREM RingTimedInMemory == ASSUME ~SharedStore PROVE Spec => []EveryRingIsTimed
<1>1. Inv /\ RingInv => EveryRingIsTimed
  <2> SUFFICES ASSUME RingInv, loop = None PROVE \A u \in Users : Timed(reg, hist, u)
    BY DEF EveryRingIsTimed, Timed
  <2> QED BY AtRestTimed, Zenon
<1>2. Init => Inv /\ RingInv
  BY InitInv, InitRings
<1>3. Inv /\ RingInv /\ [Next]_vars => (Inv /\ RingInv)'
  BY NextInv, NextRings
<1> QED BY <1>1, <1>2, <1>3, PTL DEF Spec

-----------------------------------------------------------------------------
(* In one process with its Maps and between two accounts, the two entries of *)
(* a call agree whenever the event loop is free, whoever overwrote what.    *)

Agree(r) ==
  \A u \in Users : Active(r.entry[u]) =>
    LET e == r.entry[u]  f == r.entry[e.peer]
    IN e.peer # u /\ f.status = e.status /\ f.call = e.call /\ f.peer = u

\* The points between the two writes of a pair, the first of which ended a call
\* or wrote the other side of it.
HalfClear == {"rej_caller", "end_peer", "na_caller", "ea_peer"}
Half == {"ring_caller", "in_caller"} \union HalfClear

\* The points at which u and v are the two accounts of a call.
PairAt == CallUserAt \union HalfClear
            \union {"claim", "in_callee", "in_caller", "rej_callee", "end_self", "na_read",
                    "na_target", "ea_self"}

OfPair(p) == p.at \in PairAt \/ (p.at = "arm" /\ p.k = "no_answer")

\* What the execution knows of the register between its two writes, and a
\* refusal before its first: it clears the caller if there is anything to clear.
PairLaw(p, r) ==
  /\ OfPair(p) => p.u \in Users /\ p.v \in Users /\ p.u # p.v
  /\ p.at = "ring_caller" => /\ r.entry[p.v].status = "ringing"
                             /\ r.entry[p.v].call = p.c /\ r.entry[p.v].peer = p.u
  /\ p.at = "in_caller" => /\ r.entry[p.u].status = "in_call"
                           /\ r.entry[p.u].call = p.c /\ r.entry[p.u].peer = p.v
  /\ p.at \in HalfClear => ~Active(r.entry[p.u])
  /\ p.at = "rej_callee" => (Active(r.entry[p.v]) => p.match)

\* The rows of callHistory are of two accounts each, and a no-answer deadline is about
\* another account than the one it is armed on.
RowsApart(h, n) ==
  \A c \in Calls :
    IF c < n
    THEN h[c].caller \in Users /\ h[c].callee \in Users /\ h[c].caller # h[c].callee
    ELSE h[c].caller = None /\ h[c].callee = None

TimersApart(r) ==
  \A u \in Users : r.timer[u]["no_answer"].armed =>
    r.timer[u]["no_answer"].peer \in Users \ {u}

PairInv ==
  /\ Alone
  /\ \A s \in Slots : PairLaw(proc[s], reg)
  /\ Agree(reg) \/ \E s \in Slots : proc[s].at \in Half
  /\ RowsApart(hist, nextCall)
  /\ TimersApart(reg)

TwoAccounts == \E a, b : Users = {a, b}

-----------------------------------------------------------------------------
(* What the writes of the register do to the entries and the deadlines.    *)

SameEntries(r, r2) ==
  \A u \in Users : /\ r2.entry[u].status = r.entry[u].status
                   /\ r2.entry[u].call = r.entry[u].call /\ r2.entry[u].peer = r.entry[u].peer

\* No deadline of the kind no_answer is armed.
Tamer(r, r2) ==
  \A u \in Users : r2.timer[u]["no_answer"].armed =>
    /\ r.timer[u]["no_answer"].armed
    /\ r2.timer[u]["no_answer"].peer = r.timer[u]["no_answer"].peer

\* Where the entries are the same the pairs agree as before,
LEMMA SameAgrees ==
  ASSUME NEW r, GoodRegister(r), NEW r2, SameEntries(r, r2), Agree(r)
  PROVE  Agree(r2)
<1> SUFFICES ASSUME NEW u \in Users, Active(r2.entry[u])
             PROVE  LET e == r2.entry[u]  f == r2.entry[e.peer]
                    IN e.peer # u /\ f.status = e.status /\ f.call = e.call /\ f.peer = u
  BY Zenon DEF Agree
<1>1. Active(r.entry[u]) /\ r.entry[u].peer \in Users
  BY DEF SameEntries, Active, GoodRegister, EntriesOK
<1> QED BY <1>1 DEF SameEntries, Agree

\* and where none is armed the deadlines are about others.
LEMMA TamerKeeps ==
  ASSUME NEW r, NEW r2, Tamer(r, r2), TimersApart(r)
  PROVE  TimersApart(r2)
BY DEF Tamer, TimersApart

\* Two writes that arm none are one.
LEMMA TamerTwice ==
  ASSUME NEW a, NEW b, NEW c, Tamer(a, b), Tamer(b, c)
  PROVE  Tamer(a, c)
BY DEF Tamer

\* Writing an entry arms no deadline.
LEMMA TamerWrite ==
  ASSUME NEW r, GoodRegister(r), NEW u, NEW e
  PROVE  Tamer(r, Write(r, u, e))
<1>1. r.timer \in [Users -> [Kinds -> Jobs]]
      /\ Write(r, u, e).timer = [r.timer EXCEPT ![u] = NoTimers]
  BY DEF GoodRegister, Registers, Write
<1>2. ~NoTimers["no_answer"].armed
  BY DEF NoTimers, Kinds, NoJob
<1> QED BY <1>1, <1>2 DEF Tamer

\* Nor does clear, or a purge.
LEMMA TamerClear ==
  ASSUME NEW r, GoodRegister(r), NEW u
  PROVE  /\ Tamer(r, Clear(r, u))
         /\ \A c, p : Tamer(r, SetInCall(r, u, c, p)) /\ Tamer(r, SetRinging(r, u, c, p))
BY TamerWrite DEF Clear, SetInCall, SetRinging

\* A cancellation keeps the entries and arms none.
LEMMA CancelSame ==
  ASSUME NEW r, GoodRegister(r), NEW u, NEW ks
  PROVE  SameEntries(r, Cancel(r, u, ks)) /\ Tamer(r, Cancel(r, u, ks))
<1>1. /\ r.entry \in [Users -> Entries] /\ r.timer \in [Users -> [Kinds -> Jobs]]
      /\ r = [entry |-> r.entry, timer |-> r.timer] /\ "no_answer" \in Kinds
  BY DEF GoodRegister, Registers, Kinds
<1> DEFINE f == [k \in Kinds |-> IF k \in ks THEN NoJob ELSE r.timer[u][k]]
<1>2. f["no_answer"] \in {NoJob, r.timer[u]["no_answer"]}
  BY <1>1
<1>3. /\ Cancel(r, u, ks).entry = r.entry
      /\ \A w \in Users : Cancel(r, u, ks).timer[w] = IF w = u THEN f ELSE r.timer[w]
  <2>1. Cancel(r, u, ks) = [r EXCEPT !.timer[u] = f]
    BY DEF Cancel
  <2> HIDE DEF f
  <2> QED BY <1>1, <2>1
<1>4. ~NoJob.armed
  BY DEF NoJob
<1> HIDE DEF f
<1> QED BY <1>2, <1>3, <1>4 DEF SameEntries, Tamer

\* So does the arming of another deadline; a no-answer deadline is armed about
\* the account it names.
LEMMA ScheduleSame ==
  ASSUME NEW r, GoodRegister(r), NEW u, NEW k, NEW c, NEW p
  PROVE  /\ SameEntries(r, Schedule(r, u, k, c, p))
         /\ k # "no_answer" => Tamer(r, Schedule(r, u, k, c, p))
         /\ k = "no_answer" /\ u \in Users /\ p \in Users \ {u} /\ TimersApart(r) =>
              TimersApart(Schedule(r, u, k, c, p))
<1> DEFINE q == Cancel(r, u, CancelledBy(k))
<1>1. SameEntries(r, q) /\ Tamer(r, q) /\ GoodRegister(q)
  BY CancelSame, CancelGood
<1> HIDE DEF q
<1>2. /\ SameEntries(q, Enqueue(q, u, k, c, p))
      /\ k # "no_answer" => Tamer(q, Enqueue(q, u, k, c, p))
  <2>1. /\ q.entry \in [Users -> Entries] /\ q.timer \in [Users -> [Kinds -> Jobs]]
        /\ q = [entry |-> q.entry, timer |-> q.timer]
    BY <1>1 DEF GoodRegister, Registers
  <2>2. /\ Enqueue(q, u, k, c, p).entry = q.entry
        /\ k # "no_answer" => \A w \in Users :
             Enqueue(q, u, k, c, p).timer[w]["no_answer"] = q.timer[w]["no_answer"]
    BY <2>1 DEF Enqueue
  <2> QED BY <2>2 DEF SameEntries, Tamer
<1>3. ASSUME k = "no_answer", u \in Users, p \in Users \ {u}, TimersApart(r)
      PROVE  TimersApart(Schedule(r, u, k, c, p))
  <2> DEFINE a == Schedule(r, u, "no_answer", c, p)
  <2>1. /\ a.timer[u]["no_answer"] = Job(c, p)
        /\ \A w \in Users \ {u} : a.timer[w] = r.timer[w]
    BY <1>3, ScheduleArms
  <2>2. Job(c, p).peer = p
    BY DEF Job
  <2> HIDE DEF a
  <2>3. TimersApart(a)
    BY <1>3, <2>1, <2>2 DEF TimersApart
  <2> QED BY <1>3, <2>3 DEF a
<1>4. Schedule(r, u, k, c, p) = Enqueue(q, u, k, c, p)
  BY DEF Schedule, q
<1>5. SameEntries(r, Schedule(r, u, k, c, p))
      /\ (k # "no_answer" => Tamer(r, Schedule(r, u, k, c, p)))
  BY <1>1, <1>2, <1>4, TamerTwice DEF SameEntries
<1> QED BY <1>3, <1>5

\* The lock of a row and the passing of time keep both.
LEMMA RestSame ==
  ASSUME NEW r, GoodRegister(r), NEW u \in Users
  PROVE  /\ \A k \in Kinds : \A l : SameEntries(r, Lock(r, u, k, l)) /\ Tamer(r, Lock(r, u, k, l))
         /\ SameEntries(r, GoStale(r, u)) /\ Tamer(r, GoStale(r, u))
<1>1. /\ r.entry \in [Users -> Entries] /\ r.timer \in [Users -> [Kinds -> Jobs]]
      /\ r = [entry |-> r.entry, timer |-> r.timer] /\ "no_answer" \in Kinds
  BY DEF GoodRegister, Registers, Kinds
<1>2. ASSUME NEW k \in Kinds, NEW l
      PROVE  SameEntries(r, Lock(r, u, k, l)) /\ Tamer(r, Lock(r, u, k, l))
  <2> DEFINE j == [r.timer[u][k] EXCEPT !.lock = l]
  <2>1. r.timer[u][k] \in Jobs
    BY <1>1
  <2>2. j.armed = r.timer[u][k].armed /\ j.peer = r.timer[u][k].peer
    BY <2>1 DEF Jobs
  <2>3. /\ Lock(r, u, k, l).entry = r.entry
        /\ \A w \in Users, m \in Kinds :
             Lock(r, u, k, l).timer[w][m] = IF w = u /\ m = k THEN j ELSE r.timer[w][m]
    <3>1. Lock(r, u, k, l) = [r EXCEPT !.timer[u][k] = j]
      BY DEF Lock
    <3> HIDE DEF j
    <3> QED BY <1>1, <3>1
  <2> HIDE DEF j
  <2> QED BY <1>1, <2>2, <2>3 DEF SameEntries, Tamer
<1>3. SameEntries(r, GoStale(r, u)) /\ Tamer(r, GoStale(r, u))
  <2> DEFINE e == [r.entry[u] EXCEPT !.stale = TRUE]
  <2>1. e.status = r.entry[u].status /\ e.call = r.entry[u].call /\ e.peer = r.entry[u].peer
    BY <1>1 DEF Entries
  <2>2. /\ GoStale(r, u).timer = r.timer
        /\ \A w \in Users : GoStale(r, u).entry[w] = IF w = u THEN e ELSE r.entry[w]
    <3>1. GoStale(r, u) = [r EXCEPT !.entry[u] = e]
      BY DEF GoStale
    <3> HIDE DEF e
    <3> QED BY <1>1, <3>1
  <2> HIDE DEF e
  <2> QED BY <2>1, <2>2 DEF SameEntries, Tamer
<1> QED BY <1>2, <1>3

\* Between two accounts, the second of two writes settles the pair.
LEMMA SecondWrite ==
  ASSUME TwoAccounts, NEW r, GoodRegister(r), NEW u \in Users, NEW v \in Users, u # v
  PROVE  /\ ~Active(r.entry[u]) => Agree(Clear(r, v))
         /\ \A e : /\ r.entry[u].status = e.status /\ r.entry[u].call = e.call
                  /\ r.entry[u].peer = v /\ e.peer = u => Agree(Write(r, v, e))
<1>1. \A w \in Users : w = u \/ w = v
  BY DEF TwoAccounts
<1>2. ASSUME NEW e PROVE Write(r, v, e).entry[u] = r.entry[u] /\ Write(r, v, e).entry[v] = e
  BY DEF Write, GoodRegister, Registers
<1>3. ~Active(NoEntry)
  BY DEF Active, NoEntry
<1>4. ASSUME ~Active(r.entry[u]) PROVE Agree(Clear(r, v))
  <2>1. Clear(r, v).entry[u] = r.entry[u] /\ Clear(r, v).entry[v] = NoEntry
    BY <1>2 DEF Clear
  <2>2. \A w \in Users : ~Active(Clear(r, v).entry[w])
    BY <1>1, <1>3, <1>4, <2>1, Zenon
  <2> QED BY <2>2 DEF Agree
<1>5. ASSUME NEW e, r.entry[u].status = e.status, r.entry[u].call = e.call,
             r.entry[u].peer = v, e.peer = u
      PROVE  Agree(Write(r, v, e))
  <2> DEFINE a == Write(r, v, e)
  <2>1. a.entry[u] = r.entry[u] /\ a.entry[v] = e
    BY <1>2
  <2> HIDE DEF a
  <2>2. Agree(a)
    BY <1>1, <1>5, <2>1 DEF Agree
  <2> QED BY <2>2 DEF a
<1> QED BY <1>4, <1>5

\* A cleared account is not active; the other is as it was.
LEMMA ClearWrites ==
  ASSUME NEW r, GoodRegister(r), NEW u \in Users
  PROVE  /\ ~Active(Clear(r, u).entry[u])
         /\ \A w \in Users \ {u} : Clear(r, u).entry[w] = r.entry[w]
<1>1. Clear(r, u).entry = [r.entry EXCEPT ![u] = NoEntry] /\ r.entry \in [Users -> Entries]
  BY DEF Clear, Write, GoodRegister, Registers
<1>2. ~Active(NoEntry)
  BY DEF Active, NoEntry
<1> QED BY <1>1, <1>2

\* The purges of call_user take both accounts of a pair, or none.
LEMMA PurgeAgrees ==
  ASSUME TwoAccounts, NEW r, GoodRegister(r), Agree(r), NEW u \in Users, NEW connected
  PROVE  /\ Agree(ClearStaleRinging(r, u)) /\ Tamer(r, ClearStaleRinging(r, u))
         /\ Agree(ReclaimStaleBusy(r, u, connected)) /\ Tamer(r, ReclaimStaleBusy(r, u, connected))
<1> DEFINE p == r.entry[u].peer
           both == Clear(Clear(r, u), p)
<1>1. ASSUME Active(r.entry[u])
      PROVE  /\ p \in Users /\ r.entry[p].peer = u /\ r.entry[p].status = r.entry[u].status
             /\ Agree(both) /\ Tamer(r, both)
  <2>1. p \in Users /\ p # u /\ r.entry[p].peer = u /\ r.entry[p].status = r.entry[u].status
    BY <1>1 DEF Agree, GoodRegister, EntriesOK
  <2>2. GoodRegister(Clear(r, u)) /\ ~Active(Clear(r, u).entry[u])
    BY ClearGood, ClearWrites
  <2>3. Agree(both)
    <3> HIDE DEF p
    <3> QED BY <2>1, <2>2, SecondWrite
  <2>4. Tamer(r, both)
    <3> HIDE DEF p
    <3> QED BY <2>2, TamerClear, TamerTwice
  <2> QED BY <2>1, <2>3, <2>4
<1>2. Tamer(r, r)
  BY DEF Tamer
<1>3. CASE ~Active(r.entry[u])
  <2>1. ClearStaleRinging(r, u) = r /\ ReclaimStaleBusy(r, u, connected) = r
    BY <1>3 DEF ClearStaleRinging, ReclaimStaleBusy, Active
  <2> QED BY <1>2, <2>1
<1>4. CASE Active(r.entry[u])
  <2>1. ClearStaleRinging(r, u) \in {r, both} /\ ReclaimStaleBusy(r, u, connected) \in {r, both}
    <3> HIDE DEF both
    <3>1. \A too : too => ClearWithPeer(r, u, too) = both
      BY DEF ClearWithPeer, both
    <3> QED BY <1>1, <1>4, <3>1 DEF ClearStaleRinging, ReclaimStaleBusy, RingsAt
  <2> HIDE DEF both
  <2> QED BY <1>1, <1>2, <1>4, <2>1
<1> QED BY <1>3, <1>4

-----------------------------------------------------------------------------
(* One execution moves, and the others wait.                               *)

\* An execution that waits is not between two writes, and knows nothing.
LEMMA RestingKnowsNothing ==
  ASSUME NEW p, p.at \in Resting
  PROVE  p.at \notin Half /\ \A r, r2 : PairLaw(p, r) => PairLaw(p, r2)
BY DEF Resting, AfterIO, PairLaw, Half, HalfClear

\* The pairs agree after a step if they do for the execution that runs.
LEMMA PairMoves ==
  ASSUME ~SharedStore, PairInv, proc \in [Slots -> Execs], NEW s \in Slots,
         loop \in {None, s}, NEW q, Goto(s, q) \/ (q = Idle /\ Done(s)),
         PairLaw(q, reg'), Agree(reg') \/ q.at \in Half,
         RowsApart(hist', nextCall'), TimersApart(reg')
  PROVE  PairInv'
<1>1. \A t \in Slots \ {s} : proc[t].at \in Resting
  BY OneToOneAssumption DEF PairInv, Alone
<1>2. proc' = [proc EXCEPT ![s] = q] /\ loop' \in {None, s}
      /\ (loop' # s => q.at \in Resting)
  <2>1. CASE Goto(s, q)
    BY <2>1 DEF Goto, Resting
  <2>2. CASE q = Idle /\ Done(s)
    <3>1. Idle.at = "idle"
      BY DEF Idle
    <3> QED BY <2>2, <3>1 DEF Done, Resting
  <2> QED BY <2>1, <2>2
<1>3. proc'[s] = q /\ \A t \in Slots \ {s} : proc'[t] = proc[t]
  BY <1>2
<1>4. Alone'
  <2> SUFFICES ASSUME NEW t \in Slots, t # loop' PROVE proc'[t].at \in Resting
    BY DEF Alone
  <2>1. CASE t = s
    BY <2>1, <1>2, <1>3
  <2>2. CASE t # s
    BY <2>2, <1>1, <1>3
  <2> QED BY <2>1, <2>2
<1>5. \A t \in Slots : PairLaw(proc'[t], reg')
  <2> SUFFICES ASSUME NEW t \in Slots \ {s} PROVE PairLaw(proc'[t], reg')
    BY <1>3
  <2>1. PairLaw(proc[t], reg)
    BY DEF PairInv
  <2> QED BY <1>1, <1>3, <2>1, RestingKnowsNothing
<1>6. Agree(reg') \/ \E t \in Slots : proc'[t].at \in Half
  BY <1>3
<1> QED BY <1>4, <1>5, <1>6 DEF PairInv

\* The pairs agree unless the execution that runs is between its two writes.
LEMMA AgreedAt ==
  ASSUME PairInv, NEW s \in Slots, loop \in {None, s}
  PROVE  Agree(reg) \/ proc[s].at \in Half
<1>1. \A t \in Slots \ {s} : proc[t].at \in Resting
  BY OneToOneAssumption DEF PairInv, Alone
<1>2. Agree(reg) \/ \E t \in Slots : proc[t].at \in Half
  BY Zenon DEF PairInv
<1>3. \A t \in Slots \ {s} : proc[t].at \notin Half
  BY <1>1, RestingKnowsNothing
<1> QED BY <1>2, <1>3

\* While nothing runs they agree.
LEMMA AgreedAtRest ==
  ASSUME PairInv, loop = None
  PROVE  Agree(reg) /\ \A t \in Slots : proc[t].at \in Resting
<1>1. \A t \in Slots : proc[t].at \in Resting
  BY OneToOneAssumption DEF PairInv, Alone
<1>2. Agree(reg) \/ \E t \in Slots : proc[t].at \in Half
  BY Zenon DEF PairInv
<1>3. \A t \in Slots : proc[t].at \notin Half
  BY <1>1, RestingKnowsNothing
<1> QED BY <1>1, <1>2, <1>3

\* A step that keeps the entries keeps them in agreement.
LEMMA SameStep ==
  ASSUME ~SharedStore, Inv, PairInv, NEW s \in Slots, loop \in {None, s},
         proc[s].at \notin Half, SameEntries(reg, reg'), TimersApart(reg'),
         RowsApart(hist', nextCall'), NEW q, Goto(s, q) \/ (q = Idle /\ Done(s)),
         PairLaw(q, reg')
  PROVE  PairInv'
<1>1. Agree(reg) /\ GoodRegister(reg) /\ proc \in [Slots -> Execs]
  BY AgreedAt DEF Inv, TypeOK
<1>2. Agree(reg')
  BY <1>1, SameAgrees
<1> QED BY <1>1, <1>2, PairMoves

\* At most points an execution knows nothing.
LooseAt == {"ans_hist", "rej_stale", "rej_release", "rej_hist", "rej_voicemail",
            "end_release", "end_hist", "na_hist", "na_release", "grace_check", "ea_read",
            "ea_hist", "ea_release", "no_end", "sched_read", "cancel_grace", "confirm",
            "finish"}

Loose(q) == q.at \in LooseAt \union {"idle"} \/ (q.at = "arm" /\ q.k # "no_answer")

\* There the clauses about executions hold of it.
LEMMA LooseKnowsNothing ==
  ASSUME NEW q, Loose(q)
  PROVE  q.at \notin Half /\ \A r : PairLaw(q, r)
<1>1. q.at \notin PairAt /\ (q.at = "arm" => q.k # "no_answer")
  BY DEF Loose, LooseAt, PairAt, CallUserAt, HalfClear
<1> QED BY <1>1 DEF PairLaw, OfPair, PairAt, Half, HalfClear, CallUserAt

GoesLoose(s) ==
  \/ \E p \in Execs : \E pt \in LooseAt : Goto(s, [p EXCEPT !.at = pt])
  \/ \E q : Loose(q) /\ Goto(s, q)
  \/ Done(s)

\* It goes on to such a point, or is done.
LEMMA LoosePoint ==
  ASSUME NEW s, GoesLoose(s)
  PROVE  \E q : Loose(q) /\ (Goto(s, q) \/ (q = Idle /\ Done(s)))
<1>1. \A p \in Execs : \A pt \in LooseAt : Loose([p EXCEPT !.at = pt])
  BY DEF Loose, Execs
<1>2. Loose(Idle)
  BY DEF Loose, Idle
<1> QED BY <1>1, <1>2 DEF GoesLoose

\* In memory the end of a deadline is the end of the execution.
LEMMA FinishLoose ==
  ASSUME ~SharedStore, NEW s, NEW p, Finish(s, p)
  PROVE  GoesLoose(s)
BY DEF Finish, GoesLoose

\* A step from and to such points keeps the pairs in agreement.
LEMMA LooseStep ==
  ASSUME ~SharedStore, Inv, PairInv, NEW s \in Slots, loop \in {None, s}, GoesLoose(s),
         proc[s].at \notin Half, SameEntries(reg, reg'), Tamer(reg, reg'),
         RowsApart(hist', nextCall')
  PROVE  PairInv'
<1>1. PICK q : Loose(q) /\ (Goto(s, q) \/ (q = Idle /\ Done(s)))
  BY LoosePoint
<1>2. PairLaw(q, reg')
  BY <1>1, LooseKnowsNothing
<1>3. TimersApart(reg')
  BY TamerKeeps DEF PairInv
<1> QED BY <1>1, <1>2, <1>3, SameStep

\* Closing a row keeps its accounts.
LEMMA StatusApart ==
  ASSUME Inv, PairInv, hist' = hist \/ \E c, y : hist' = SetStatus(c, y), nextCall' = nextCall
  PROVE  RowsApart(hist', nextCall')
<1>1. hist \in [Calls -> Rows] /\ RowsApart(hist, nextCall)
  BY DEF Inv, TypeOK, PairInv
<1>2. CASE hist' = hist
  BY <1>1, <1>2
<1>3. ASSUME NEW c, NEW y, hist' = SetStatus(c, y) PROVE RowsApart(hist', nextCall')
  <2> DEFINE w == [hist[c] EXCEPT !.status = y]
  <2>1. c \in Calls => w.callee = hist[c].callee /\ w.caller = hist[c].caller
    BY <1>1 DEF Rows
  <2>2. hist' = [hist EXCEPT ![c] = w]
    BY <1>3 DEF SetStatus
  <2> HIDE DEF w
  <2> QED BY <1>1, <2>1, <2>2 DEF RowsApart
<1> QED BY <1>2, <1>3

\* Between two accounts, the second clear of a handler ends the pair.
LEMMA SecondClearStep ==
  ASSUME ~SharedStore, TwoAccounts, Inv, PairInv, NEW s \in Slots, loop \in {None, s},
         proc[s].at \in HalfClear, reg' = Clear(reg, proc[s].v), GoesLoose(s),
         UNCHANGED <<hist, nextCall>>
  PROVE  PairInv'
<1> DEFINE p == proc[s]
<1>1. PairLaw(p, reg) /\ GoodRegister(reg) /\ proc \in [Slots -> Execs]
      /\ TimersApart(reg) /\ RowsApart(hist, nextCall)
  BY DEF PairInv, Inv, TypeOK
<1>2. p.u \in Users /\ p.v \in Users /\ p.u # p.v /\ ~Active(reg.entry[p.u])
  BY <1>1 DEF PairLaw, OfPair, PairAt
<1>3. Agree(reg') /\ TimersApart(reg')
  BY <1>1, <1>2, SecondWrite, TamerClear, TamerKeeps
<1>4. PICK q : Loose(q) /\ (Goto(s, q) \/ (q = Idle /\ Done(s)))
  BY LoosePoint
<1>5. PairLaw(q, reg')
  BY <1>4, LooseKnowsNothing
<1> QED BY <1>1, <1>3, <1>4, <1>5, PairMoves

\* The first one leaves the account it cleared out of any call.
LEMMA FirstClearStep ==
  ASSUME ~SharedStore, Inv, PairInv, NEW s \in Slots, loop \in {None, s},
         OfPair(proc[s]), reg' = Clear(reg, proc[s].u), NEW pt \in HalfClear,
         Goto(s, [proc[s] EXCEPT !.at = pt]), UNCHANGED <<hist, nextCall>>
  PROVE  PairInv'
<1> DEFINE p == proc[s]
           q == [p EXCEPT !.at = pt]
<1>1. PairLaw(p, reg) /\ GoodRegister(reg) /\ proc \in [Slots -> Execs] /\ p \in Execs
      /\ TimersApart(reg) /\ RowsApart(hist, nextCall)
  BY DEF PairInv, Inv, TypeOK
<1>2. p.u \in Users /\ p.v \in Users /\ p.u # p.v
  BY <1>1 DEF PairLaw
<1>3. ~Active(reg'.entry[p.u]) /\ TimersApart(reg')
  BY <1>1, <1>2, ClearWrites, TamerClear, TamerKeeps
<1>4. q.at = pt /\ q.u = p.u /\ q.v = p.v
  BY <1>1 DEF Execs
<1> HIDE DEF q
<1>5. PairLaw(q, reg') /\ q.at \in Half
  BY <1>2, <1>3, <1>4 DEF PairLaw, Half, HalfClear
<1> QED BY <1>1, <1>3, <1>5, PairMoves DEF q

-----------------------------------------------------------------------------
(* The handlers, for two accounts.                                         *)

\* A handler whose writes are of the history, the ownerships or other deadlines
\* keeps the pairs in agreement.
LEMMA LooseActions ==
  ASSUME ~SharedStore, Inv, PairInv, NEW s \in Slots,
         \/ RejectStale(s) \/ RejectRelease(s) \/ RejectHist(s) \/ RejectVoicemail(s)
         \/ EndRelease(s) \/ EndHist(s) \/ AnswerHist(s)
         \/ NoAnswerHist(s) \/ NoAnswerRelease(s) \/ EndActiveHist(s) \/ ReleaseAfterEnd(s)
         \/ GraceCheck(s) \/ CancelGrace(s) \/ Confirm(s) \/ FinishJob(s)
  PROVE  PairInv'
<1>1. proc[s] \in Execs /\ GoodRegister(reg) /\ SameEntries(reg, reg) /\ Tamer(reg, reg)
  BY DEF Inv, TypeOK, SameEntries, Tamer
<1>2. ASSUME loop \in {None, s}, proc[s].at \in LooseAt, GoesLoose(s), nextCall' = nextCall,
             hist' = hist \/ \E c, y : hist' = SetStatus(c, y),
             SameEntries(reg, reg'), Tamer(reg, reg')
      PROVE  PairInv'
  <2>1. proc[s].at \notin Half
    BY <1>2, LooseKnowsNothing DEF Loose
  <2> QED BY <1>2, <2>1, StatusApart, LooseStep
<1>3. CASE RejectStale(s) \/ RejectHist(s) \/ RejectVoicemail(s)
  <2>1. GoesLoose(s)
    BY <1>1, <1>3 DEF RejectStale, RejectHist, RejectVoicemail, GoesLoose, LooseAt
  <2>2. hist' = hist \/ \E c, y : hist' = SetStatus(c, y)
    BY <1>3 DEF RejectStale, RejectHist, RejectVoicemail, WriteHist
  <2> QED BY <1>1, <1>2, <1>3, <2>1, <2>2
          DEF RejectStale, RejectHist, RejectVoicemail, At, LooseAt
<1>4. CASE EndHist(s) \/ AnswerHist(s)
  <2>1. GoesLoose(s)
    BY <1>4 DEF EndHist, AnswerHist, GoesLoose
  <2>2. hist' = hist \/ \E c, y : hist' = SetStatus(c, y)
    BY <1>4 DEF EndHist, AnswerHist, ClosedHist, WriteHist
  <2> QED BY <1>1, <1>2, <1>4, <2>1, <2>2 DEF EndHist, AnswerHist, At, LooseAt
<1>5. CASE NoAnswerHist(s) \/ EndActiveHist(s)
  <2>1. GoesLoose(s)
    BY <1>1, <1>5 DEF NoAnswerHist, EndActiveHist, GoesLoose, LooseAt
  <2>2. hist' = hist \/ \E c, y : hist' = SetStatus(c, y)
    BY <1>5 DEF NoAnswerHist, EndActiveHist, ClosedHist, WriteHist
  <2> QED BY <1>1, <1>2, <1>5, <2>1, <2>2 DEF NoAnswerHist, EndActiveHist, At, LooseAt
<1>6. CASE RejectRelease(s) \/ EndRelease(s)
  <2>1. GoesLoose(s)
    BY <1>1, <1>6 DEF RejectRelease, EndRelease, GoesLoose, LooseAt
  <2> QED BY <1>1, <1>2, <1>6, <2>1 DEF RejectRelease, EndRelease, At, LooseAt
<1>7. CASE NoAnswerRelease(s) \/ ReleaseAfterEnd(s)
  <2>1. GoesLoose(s)
    BY <1>7, FinishLoose DEF NoAnswerRelease, ReleaseAfterEnd
  <2> QED BY <1>1, <1>2, <1>7, <2>1 DEF NoAnswerRelease, ReleaseAfterEnd, At, LooseAt
<1>8. CASE GraceCheck(s)
  <2>1. GoesLoose(s)
    BY <1>1, <1>8 DEF GraceCheck, GoesLoose, LooseAt
  <2>2. SameEntries(reg, reg') /\ Tamer(reg, reg')
    BY <1>1, <1>8, CancelSame DEF GraceCheck
  <2> QED BY <1>2, <1>8, <2>1, <2>2 DEF GraceCheck, At, LooseAt
<1>9. CASE CancelGrace(s) \/ Confirm(s) \/ FinishJob(s)
  <2>1. GoesLoose(s)
    BY <1>9 DEF CancelGrace, Confirm, FinishJob, GoesLoose
  <2>2. SameEntries(reg, reg') /\ Tamer(reg, reg')
    BY <1>1, <1>9, CancelSame DEF CancelGrace, Confirm, ConfirmResume, FinishJob
  <2> QED BY <1>2, <1>9, <2>1, <2>2 DEF CancelGrace, Confirm, FinishJob, At, LooseAt
<1> QED BY <1>3, <1>4, <1>5, <1>6, <1>7, <1>8, <1>9

\* So does the arming of a deadline: a ring it finds is of a pair.
LEMMA ArmPair ==
  ASSUME ~SharedStore, Inv, PairInv, NEW s \in Slots,
         ReadToSchedule(s) \/ ReadForNoAnswer(s) \/ Arm(s)
  PROVE  PairInv'
<1> DEFINE p == proc[s]
<1>1. /\ p \in Execs /\ GoodRegister(reg) /\ SameEntries(reg, reg) /\ Tamer(reg, reg)
      /\ PairLaw(p, reg) /\ TimersApart(reg)
  BY DEF Inv, TypeOK, PairInv, SameEntries, Tamer
<1>2. /\ loop \in {None, s} /\ p.at \notin Half /\ UNCHANGED <<hist, nextCall>>
  BY DEF ReadToSchedule, ReadForNoAnswer, Arm, At, Half, HalfClear
<1>3. RowsApart(hist', nextCall')
  BY <1>2, StatusApart
<1>4. CASE ReadToSchedule(s)
  <2> DEFINE e == reg.entry[p.u]
             q == [p EXCEPT !.at = "arm", !.c = e.call, !.v = e.peer]
  <2>1. p.k # "no_answer"
    BY <1>4 DEF Inv, ExecsOK, ExecOK, ReadToSchedule, At
  <2>2. Loose(q)
    BY <1>1, <2>1 DEF Loose, Execs
  <2>3. GoesLoose(s) /\ reg' = reg
    BY <1>4, <2>2 DEF ReadToSchedule, GoesLoose
  <2> QED BY <1>1, <1>2, <1>3, <2>3, LooseStep
<1>5. CASE ReadForNoAnswer(s)
  <2> DEFINE e == reg.entry[p.v]
             q == [Idle EXCEPT !.at = "arm", !.k = "no_answer", !.u = p.v,
                               !.c = e.call, !.v = e.peer, !.jc = p.c]
  <2>1. reg' = reg /\ p.at = "arm_read" /\ (IF e.status = "ringing" THEN Goto(s, q) ELSE Done(s))
    BY <1>5, Zenon DEF ReadForNoAnswer, At
  <2>2. CASE e.status # "ringing"
    BY <1>1, <1>2, <1>3, <2>1, <2>2, LooseStep DEF GoesLoose
  <2>3. CASE e.status = "ringing"
    <3>1. p.v \in Users
      BY <1>1, <2>1 DEF PairLaw, OfPair, PairAt, CallUserAt
    <3>2. e.peer \in Users /\ e.peer # p.v
      <4>1. Agree(reg)
        BY <1>2, AgreedAt
      <4> QED BY <1>1, <2>3, <3>1, <4>1 DEF Agree, GoodRegister, EntriesOK, Active
    <3>3. q.at = "arm" /\ q.k = "no_answer" /\ q.u = p.v /\ q.v = e.peer
      BY DEF Idle
    <3> HIDE DEF q, e
    <3>4. PairLaw(q, reg')
      BY <3>1, <3>2, <3>3 DEF PairLaw, HalfClear
    <3> QED BY <1>1, <1>2, <1>3, <2>1, <2>3, <3>4, SameStep DEF e
  <2> QED BY <2>2, <2>3
<1>6. CASE Arm(s)
  <2>1. /\ p.at = "arm" /\ Done(s) /\ reg' = Schedule(reg, p.u, p.k, p.c, p.v)
    BY <1>6 DEF Arm, At
  <2>2. SameEntries(reg, reg')
    BY <1>1, <2>1, ScheduleSame
  <2>3. TimersApart(reg')
    <3>1. CASE p.k = "no_answer"
      <4>1. p.u \in Users /\ p.v \in Users \ {p.u}
        BY <1>1, <2>1, <3>1 DEF PairLaw, OfPair
      <4> QED BY <1>1, <2>1, <3>1, <4>1, ScheduleSame
    <3>2. CASE p.k # "no_answer"
      BY <1>1, <2>1, <3>2, ScheduleSame, TamerKeeps
    <3> QED BY <3>1, <3>2
  <2>4. PairLaw(Idle, reg')
    BY LooseKnowsNothing DEF Loose, Idle
  <2> QED BY <1>2, <1>3, <2>1, <2>2, <2>3, <2>4, SameStep
<1> QED BY <1>4, <1>5, <1>6

\* The clears of a pair, two by two.
LEMMA ClearActions ==
  ASSUME ~SharedStore, TwoAccounts, Inv, PairInv, NEW s \in Slots,
         \/ RejectCallee(s) \/ RejectCaller(s) \/ EndSelf(s) \/ EndPeer(s)
         \/ NoAnswerTarget(s) \/ NoAnswerCaller(s) \/ EndActiveSelf(s) \/ EndActivePeer(s)
  PROVE  PairInv'
<1> DEFINE p == proc[s]
<1>1. p \in Execs /\ GoodRegister(reg) /\ PairLaw(p, reg) /\ proc \in [Slots -> Execs]
      /\ TimersApart(reg)
  BY DEF Inv, TypeOK, PairInv
<1>2. CASE RejectCaller(s) \/ EndPeer(s) \/ NoAnswerCaller(s) \/ EndActivePeer(s)
  <2>1. GoesLoose(s)
    BY <1>1, <1>2 DEF RejectCaller, EndPeer, NoAnswerCaller, EndActivePeer, GoesLoose, LooseAt
  <2>2. /\ loop \in {None, s} /\ p.at \in HalfClear /\ reg' = Clear(reg, p.v)
        /\ UNCHANGED <<hist, nextCall>>
    BY <1>2 DEF RejectCaller, EndPeer, NoAnswerCaller, EndActivePeer, At, HalfClear
  <2> QED BY <2>1, <2>2, SecondClearStep
<1>3. CASE EndSelf(s) \/ NoAnswerTarget(s) \/ EndActiveSelf(s)
  <2>1. /\ loop \in {None, s} /\ OfPair(p) /\ reg' = Clear(reg, p.u)
        /\ UNCHANGED <<hist, nextCall>>
    BY <1>3 DEF EndSelf, NoAnswerTarget, EndActiveSelf, At, OfPair, PairAt
  <2>2. \E pt \in HalfClear : Goto(s, [p EXCEPT !.at = pt])
    BY <1>3 DEF EndSelf, NoAnswerTarget, EndActiveSelf, HalfClear
  <2> QED BY <2>1, <2>2, FirstClearStep
<1>4. CASE RejectCallee(s)
  <2>1. /\ loop \in {None, s} /\ p.at = "rej_callee" /\ reg' = Clear(reg, p.u)
        /\ UNCHANGED <<hist, nextCall>>
    BY <1>4 DEF RejectCallee, At
  <2>2. OfPair(p) /\ p.at \notin Half
    BY <2>1 DEF OfPair, PairAt, Half, HalfClear
  <2>3. CASE p.match
    <3>1. Goto(s, [p EXCEPT !.at = "rej_caller"])
      BY <1>4, <2>3 DEF RejectCallee
    <3> QED BY <2>1, <2>2, <3>1, FirstClearStep DEF HalfClear
  <2>4. CASE ~p.match
    <3>1. Goto(s, [p EXCEPT !.at = "rej_release"])
      BY <1>4, <2>4 DEF RejectCallee
    <3>2. p.u \in Users /\ p.v \in Users /\ p.u # p.v /\ ~Active(reg.entry[p.v])
      BY <1>1, <2>1, <2>2, <2>4 DEF PairLaw
    <3>3. \A w \in Users : ~Active(reg'.entry[w])
      <4>1. ~Active(reg'.entry[p.u]) /\ reg'.entry[p.v] = reg.entry[p.v]
        BY <1>1, <2>1, <3>2, ClearWrites
      <4> QED BY <3>2, <4>1, Zenon DEF TwoAccounts
    <3>4. Agree(reg') /\ TimersApart(reg') /\ RowsApart(hist', nextCall')
      <4>1. Agree(reg')
        BY <3>3 DEF Agree
      <4>2. TimersApart(reg')
        BY <1>1, <2>1, TamerClear, TamerKeeps
      <4> QED BY <2>1, <4>1, <4>2, StatusApart
    <3>5. Loose([p EXCEPT !.at = "rej_release"])
      BY <1>1 DEF Loose, LooseAt, Execs
    <3>6. PairLaw([p EXCEPT !.at = "rej_release"], reg')
      BY <3>5, LooseKnowsNothing
    <3> QED BY <1>1, <2>1, <3>1, <3>4, <3>6, PairMoves
  <2> QED BY <2>3, <2>4
<1> QED BY <1>2, <1>3, <1>4

\* At the points of a pair that are not after a first write an execution knows its
\* two accounts.
LEMMA PairPoint ==
  ASSUME NEW p, p.u \in Users, p.v \in Users, p.u # p.v, p.at \notin Half \union {"rej_callee"}
  PROVE  \A r : PairLaw(p, r)
BY DEF PairLaw, Half

\* The ring and the answer write both sides of the pair, one after the other.
LEMMA WriteActions ==
  ASSUME ~SharedStore, TwoAccounts, Inv, PairInv, NEW s \in Slots,
         RingCallee(s) \/ RingCaller(s) \/ AnswerCallee(s) \/ AnswerCaller(s)
  PROVE  PairInv'
<1> DEFINE p == proc[s]
<1>1. /\ p \in Execs /\ GoodRegister(reg) /\ PairLaw(p, reg) /\ proc \in [Slots -> Execs]
      /\ TimersApart(reg) /\ RowsApart(hist, nextCall)
  BY DEF Inv, TypeOK, PairInv
<1>2. ASSUME NEW x \in Users, NEW e, reg' = Write(reg, x, e)
      PROVE  TimersApart(reg') /\ reg'.entry[x] = e
  <2>1. TimersApart(reg')
    BY <1>1, <1>2, TamerWrite, TamerKeeps
  <2> QED BY <1>1, <1>2, <2>1 DEF Write, GoodRegister, Registers
<1>3. /\ p.at \in {"ring_callee", "ring_caller", "in_callee", "in_caller"}
      /\ loop \in {None, s} /\ UNCHANGED <<hist, nextCall>>
  BY DEF RingCallee, RingCaller, AnswerCallee, AnswerCaller, Ring, At
<1>4. p.u \in Users /\ p.v \in Users /\ p.u # p.v
  BY <1>1, <1>3 DEF PairLaw, OfPair, PairAt, CallUserAt
<1>5. CASE RingCallee(s)
  <2> DEFINE q == [p EXCEPT !.at = "ring_caller"]
             e == Ringing(p.c, p.u)
  <2>1. Goto(s, q) /\ reg' = Write(reg, p.v, e)
    BY <1>5 DEF RingCallee, Ring, SetRinging
  <2>2. q.at = "ring_caller" /\ q.u = p.u /\ q.v = p.v /\ q.c = p.c
    BY <1>1 DEF Execs
  <2>3. e.status = "ringing" /\ e.call = p.c /\ e.peer = p.u
    BY DEF Ringing
  <2> HIDE DEF q, e
  <2>4. TimersApart(reg') /\ reg'.entry[p.v] = e
    BY <1>2, <1>4, <2>1
  <2>5. PairLaw(q, reg') /\ q.at \in Half
    BY <1>4, <2>2, <2>3, <2>4 DEF PairLaw, Half, HalfClear
  <2> QED BY <1>1, <1>3, <2>1, <2>4, <2>5, PairMoves
<1>6. CASE AnswerCallee(s)
  <2> DEFINE q == [p EXCEPT !.at = "in_caller"]
             e == InCall(p.c, p.v)
  <2>1. Goto(s, q) /\ reg' = Write(reg, p.u, e)
    BY <1>6 DEF AnswerCallee, SetInCall
  <2>2. q.at = "in_caller" /\ q.u = p.u /\ q.v = p.v /\ q.c = p.c
    BY <1>1 DEF Execs
  <2>3. e.status = "in_call" /\ e.call = p.c /\ e.peer = p.v
    BY DEF InCall
  <2> HIDE DEF q, e
  <2>4. TimersApart(reg') /\ reg'.entry[p.u] = e
    BY <1>2, <1>4, <2>1
  <2>5. PairLaw(q, reg') /\ q.at \in Half
    BY <1>4, <2>2, <2>3, <2>4 DEF PairLaw, Half, HalfClear
  <2> QED BY <1>1, <1>3, <2>1, <2>4, <2>5, PairMoves
<1>7. CASE RingCaller(s)
  <2> DEFINE q == [p EXCEPT !.at = "arm_read"]
             e == Ringing(p.c, p.v)
  <2>1. p.at = "ring_caller" /\ Goto(s, q) /\ reg' = Write(reg, p.u, e)
    BY <1>7 DEF RingCaller, Ring, SetRinging, At
  <2>2. q.at = "arm_read" /\ q.u = p.u /\ q.v = p.v
    BY <1>1 DEF Execs
  <2>3. e.status = "ringing" /\ e.call = p.c /\ e.peer = p.v
    BY DEF Ringing
  <2> HIDE DEF q, e
  <2>4. Agree(reg') /\ TimersApart(reg')
    <3>1. /\ reg.entry[p.v].status = e.status /\ reg.entry[p.v].call = e.call
          /\ reg.entry[p.v].peer = p.u
      BY <1>1, <2>1, <2>3 DEF PairLaw
    <3> QED BY <1>1, <1>2, <1>4, <2>1, <2>3, <3>1, SecondWrite
  <2>5. PairLaw(q, reg')
    <3>1. q.at \notin Half \union {"rej_callee"}
      BY <2>2 DEF Half, HalfClear
    <3> QED BY <1>4, <2>2, <3>1, PairPoint
  <2> QED BY <1>1, <1>3, <2>1, <2>4, <2>5, PairMoves
<1>8. CASE AnswerCaller(s)
  <2> DEFINE q == [p EXCEPT !.at = "ans_hist"]
             e == InCall(p.c, p.u)
  <2>1. p.at = "in_caller" /\ Goto(s, q) /\ reg' = Write(reg, p.v, e)
    BY <1>8 DEF AnswerCaller, SetInCall, At
  <2>2. Loose(q)
    BY <1>1 DEF Loose, LooseAt, Execs
  <2>3. e.status = "in_call" /\ e.call = p.c /\ e.peer = p.u
    BY DEF InCall
  <2> HIDE DEF q, e
  <2>4. Agree(reg') /\ TimersApart(reg')
    <3>1. /\ reg.entry[p.u].status = e.status /\ reg.entry[p.u].call = e.call
          /\ reg.entry[p.u].peer = p.v
      BY <1>1, <2>1, <2>3 DEF PairLaw
    <3> QED BY <1>1, <1>2, <1>4, <2>1, <2>3, <3>1, SecondWrite
  <2>5. PairLaw(q, reg')
    BY <2>2, LooseKnowsNothing
  <2> QED BY <1>1, <1>3, <2>1, <2>4, <2>5, PairMoves
<1> QED BY <1>5, <1>6, <1>7, <1>8

\* A step that keeps the entries and goes on with the same pair, or gives up.
LEMMA PairGoesOn ==
  ASSUME ~SharedStore, Inv, PairInv, NEW s \in Slots, loop \in {None, s},
         OfPair(proc[s]), proc[s].at \notin Half, UNCHANGED <<reg, hist, nextCall>>,
         NEW pt, pt \notin Half \union {"rej_callee"},
         Goto(s, [proc[s] EXCEPT !.at = pt]) \/ Done(s)
  PROVE  PairInv'
<1> DEFINE p == proc[s]
           q == [p EXCEPT !.at = pt]
<1>1. p \in Execs /\ PairLaw(p, reg) /\ TimersApart(reg) /\ SameEntries(reg, reg)
  BY DEF Inv, TypeOK, PairInv, SameEntries
<1>2. q.at = pt /\ q.u = p.u /\ q.v = p.v
  BY <1>1 DEF Execs
<1> HIDE DEF q
<1>3. PairLaw(q, reg') /\ PairLaw(Idle, reg')
  <2>1. PairLaw(q, reg')
    <3>1. p.u \in Users /\ p.v \in Users /\ p.u # p.v
      BY <1>1 DEF PairLaw
    <3> QED BY <1>2, <3>1, PairPoint
  <2>2. PairLaw(Idle, reg')
    BY LooseKnowsNothing DEF Loose, Idle
  <2> QED BY <2>1, <2>2
<1>4. RowsApart(hist', nextCall')
  BY StatusApart
<1> QED BY <1>1, <1>3, <1>4, SameStep DEF q

\* The claim, the ownerships of a new call and what onNoAnswer reads.
LEMMA ReadActions ==
  ASSUME ~SharedStore, Inv, PairInv, NEW s \in Slots,
         Claim(s) \/ OpenOwnership(s) \/ NoAnswerRead(s)
  PROVE  PairInv'
<1>1. /\ loop \in {None, s} /\ proc[s].at \in {"claim", "own", "na_read"}
      /\ UNCHANGED <<reg, hist, nextCall>>
  BY DEF Claim, OpenOwnership, NoAnswerRead, At
<1>2. OfPair(proc[s]) /\ proc[s].at \notin Half
  BY <1>1 DEF OfPair, PairAt, CallUserAt, Half, HalfClear
<1>3. \A pt \in {"in_callee", "ring_callee", "na_target"} : pt \notin Half \union {"rej_callee"}
  BY DEF Half, HalfClear
<1>4. CASE Claim(s)
  <2>1. Goto(s, [proc[s] EXCEPT !.at = "in_callee"]) \/ Done(s)
    BY <1>4 DEF Claim
  <2> QED BY <1>1, <1>2, <1>3, <2>1, PairGoesOn
<1>5. CASE OpenOwnership(s)
  <2>1. Goto(s, [proc[s] EXCEPT !.at = "ring_callee"])
    BY <1>5 DEF OpenOwnership
  <2> QED BY <1>1, <1>2, <1>3, <2>1, PairGoesOn
<1>6. CASE NoAnswerRead(s)
  <2>1. Goto(s, [proc[s] EXCEPT !.at = "na_target"]) \/ Done(s)
    BY <1>6, FinishDone DEF NoAnswerRead
  <2> QED BY <1>1, <1>2, <1>3, <2>1, PairGoesOn
<1> QED BY <1>4, <1>5, <1>6

\* endActiveCallForUser finds the pair of its account.
LEMMA EndActivePair ==
  ASSUME ~SharedStore, Inv, PairInv, NEW s \in Slots, EndActiveRead(s) PROVE PairInv'
<1> DEFINE p == proc[s]
           e == reg.entry[p.u]
           q == [p EXCEPT !.at = "ea_self", !.v = e.peer, !.c = e.call]
<1>1. /\ p \in Execs /\ GoodRegister(reg) /\ TimersApart(reg)
  BY DEF Inv, TypeOK, PairInv
<1>2. /\ loop \in {None, s} /\ p.at = "ea_read" /\ UNCHANGED <<hist, nextCall>>
      /\ reg' = Cancel(reg, p.u, {"grace"})
      /\ Goto(s, IF Active(e) THEN q ELSE [p EXCEPT !.at = "no_end"])
  BY DEF EndActiveRead, At
<1>3. p.at \notin Half
  BY <1>2 DEF Half, HalfClear
<1>4. SameEntries(reg, reg') /\ Tamer(reg, reg') /\ RowsApart(hist', nextCall')
  BY <1>1, <1>2, CancelSame, StatusApart
<1>5. CASE ~Active(e)
  <2>1. Goto(s, [p EXCEPT !.at = "no_end"])
    BY <1>2, <1>5
  <2>2. GoesLoose(s)
    BY <1>1, <2>1 DEF GoesLoose, LooseAt
  <2> QED BY <1>2, <1>3, <1>4, <2>2, LooseStep
<1>6. CASE Active(e)
  <2>1. q.at = "ea_self" /\ q.u = p.u /\ q.v = e.peer
    BY <1>1 DEF Execs
  <2>2. Goto(s, q)
    BY <1>2, <1>6
  <2>3. p.u \in Users /\ e.peer \in Users /\ e.peer # p.u
    <3>1. p.u \in Users
      BY <1>2 DEF Inv, ExecsOK, ExecOK, Reading
    <3>2. Agree(reg)
      BY <1>2, <1>3, AgreedAt
    <3> QED BY <1>1, <1>6, <3>1, <3>2 DEF Agree, GoodRegister, EntriesOK
  <2> HIDE DEF q, e
  <2>4. PairLaw(q, reg')
    <3>1. q.at \notin Half \union {"rej_callee"}
      BY <2>1 DEF Half, HalfClear
    <3> QED BY <2>1, <2>3, <3>1, PairPoint
  <2>5. TimersApart(reg')
    BY <1>1, <1>4, TamerKeeps
  <2> QED BY <1>2, <1>3, <1>4, <2>2, <2>4, <2>5, SameStep
<1> QED BY <1>5, <1>6

\* The row of a new call is of two accounts.
LEMMA InsertPair ==
  ASSUME ~SharedStore, Inv, PairInv, NEW s \in Slots, InsertCall(s) PROVE PairInv'
<1> DEFINE p == proc[s]
           q == [p EXCEPT !.at = "own", !.c = nextCall]
           row == [status |-> "initiated", caller |-> p.u, callee |-> p.v]
<1>1. /\ p \in Execs /\ PairLaw(p, reg) /\ TimersApart(reg) /\ RowsApart(hist, nextCall)
      /\ SameEntries(reg, reg) /\ Tamer(reg, reg)
      /\ hist \in [Calls -> Rows] /\ nextCall \in Int
  BY OneToOneAssumption DEF Inv, TypeOK, PairInv, SameEntries, Tamer
<1>2. p.at = "insert" /\ loop \in {None, s} /\ reg' = reg
  BY DEF InsertCall, At
<1>3. p.u \in Users /\ p.v \in Users /\ p.u # p.v /\ p.at \notin Half
  BY <1>1, <1>2 DEF PairLaw, OfPair, PairAt, CallUserAt, Half, HalfClear
<1>4. CASE Done(s) /\ UNCHANGED <<hist, nextCall>>
  BY <1>1, <1>2, <1>3, <1>4, LooseStep DEF GoesLoose
<1>5. ASSUME nextCall \in Calls, Goto(s, q), nextCall' = nextCall + 1,
             hist' = [hist EXCEPT ![nextCall] = row]
      PROVE  PairInv'
  <2>1. q.at = "own" /\ q.u = p.u /\ q.v = p.v
    BY <1>1 DEF Execs
  <2>2. row.caller = p.u /\ row.callee = p.v
    OBVIOUS
  <2> HIDE DEF q, row
  <2>3. RowsApart(hist', nextCall')
    <3> SUFFICES ASSUME NEW c \in Calls
                 PROVE  IF c < nextCall'
                        THEN /\ hist'[c].caller \in Users /\ hist'[c].callee \in Users
                             /\ hist'[c].caller # hist'[c].callee
                        ELSE hist'[c].caller = None /\ hist'[c].callee = None
      BY DEF RowsApart
    <3>1. c \in Int
      BY OneToOneAssumption DEF Calls
    <3>2. CASE c = nextCall
      <4>1. hist'[c] = row /\ c < nextCall'
        BY <1>1, <1>5, <3>1, <3>2
      <4> QED BY <1>3, <2>2, <4>1
    <3>3. CASE c # nextCall
      <4>1. hist'[c] = hist[c] /\ (c < nextCall' <=> c < nextCall)
        BY <1>1, <1>5, <3>1, <3>3
      <4> QED BY <1>1, <4>1 DEF RowsApart
    <3> QED BY <3>2, <3>3
  <2>4. PairLaw(q, reg')
    <3>1. q.at \notin Half \union {"rej_callee"}
      BY <2>1 DEF Half, HalfClear
    <3> QED BY <1>3, <2>1, <3>1, PairPoint
  <2> QED BY <1>1, <1>2, <1>3, <1>5, <2>3, <2>4, SameStep
<1> QED BY <1>4, <1>5 DEF InsertCall

\* The verdict purges both sides of a stale ring.
LEMMA VerdictPair ==
  ASSUME ~SharedStore, TwoAccounts, Inv, PairInv, NEW s \in Slots, Verdict(s) PROVE PairInv'
<1> DEFINE p == proc[s]
           r == ClearStaleRinging(reg, p.v)
           q == [p EXCEPT !.at = "insert"]
<1>1. /\ p \in Execs /\ GoodRegister(reg) /\ PairLaw(p, reg) /\ TimersApart(reg)
      /\ proc \in [Slots -> Execs] /\ RowsApart(hist, nextCall)
  BY DEF Inv, TypeOK, PairInv
<1>2. p.at = "verdict" /\ loop \in {None, s}
  BY DEF Verdict, At
<1>3. p.u \in Users /\ p.v \in Users /\ p.u # p.v /\ p.at \notin Half
  BY <1>1, <1>2 DEF PairLaw, OfPair, PairAt, CallUserAt, Half, HalfClear
<1>4. /\ reg' \in {reg, r} /\ UNCHANGED <<hist, nextCall>>
      /\ Done(s) \/ Goto(s, q)
  BY Zenon DEF Verdict
<1>5. q.at = "insert" /\ q.u = p.u /\ q.v = p.v
  BY <1>1 DEF Execs
<1>6. Agree(reg) /\ Agree(r) /\ Tamer(reg, r)
  <2>1. Agree(reg)
    BY <1>2, <1>3, AgreedAt
  <2> QED BY <1>1, <1>3, <2>1, PurgeAgrees
<1>7. TimersApart(r)
  BY <1>1, <1>6, TamerKeeps
<1> HIDE DEF q, r
<1>8. PairLaw(q, reg') /\ PairLaw(Idle, reg')
  <2>1. PairLaw(q, reg')
    <3>1. q.at \notin Half \union {"rej_callee"}
      BY <1>5 DEF Half, HalfClear
    <3> QED BY <1>3, <1>5, <3>1, PairPoint
  <2>2. PairLaw(Idle, reg')
    BY LooseKnowsNothing DEF Loose, Idle
  <2> QED BY <2>1, <2>2
<1>9. Agree(reg') /\ TimersApart(reg')
  BY <1>1, <1>4, <1>6, <1>7
<1> QED BY <1>1, <1>2, <1>4, <1>8, <1>9, PairMoves

\* Where nothing of an execution changes, what it knows goes on.
LEMMA StillPair ==
  ASSUME Inv, PairInv, UNCHANGED <<proc, loop, hist, nextCall>>,
         SameEntries(reg, reg'), Tamer(reg, reg')
  PROVE  PairInv'
<1>1. GoodRegister(reg) /\ TimersApart(reg) /\ RowsApart(hist, nextCall)
  BY DEF Inv, PairInv
<1>2. \A t \in Slots : PairLaw(proc'[t], reg')
  <2> SUFFICES ASSUME NEW t \in Slots PROVE PairLaw(proc[t], reg')
    OBVIOUS
  <2>1. PairLaw(proc[t], reg)
    BY DEF PairInv
  <2>2. OfPair(proc[t]) => proc[t].u \in Users /\ proc[t].v \in Users
    BY <2>1 DEF PairLaw
  <2>3. proc[t].at \in Half \union {"rej_callee"} => OfPair(proc[t])
    BY DEF OfPair, PairAt, CallUserAt, Half
  <2> QED BY <2>1, <2>2, <2>3 DEF PairLaw, SameEntries, Active, Half
<1>3. Agree(reg') \/ \E t \in Slots : proc'[t].at \in Half
  <2>1. CASE Agree(reg)
    BY <1>1, <2>1, SameAgrees
  <2>2. CASE \E t \in Slots : proc[t].at \in Half
    BY <2>2
  <2>3. Agree(reg) \/ \E t \in Slots : proc[t].at \in Half
    BY Zenon DEF PairInv
  <2> QED BY <2>1, <2>2, <2>3
<1>4. TimersApart(reg') /\ RowsApart(hist', nextCall') /\ Alone'
  <2>1. Alone'
    BY DEF PairInv, Alone
  <2> QED BY <1>1, <2>1, TamerKeeps
<1> QED BY <1>2, <1>3, <1>4 DEF PairInv

\* call_user purges before it looks: pair by pair.
LEMMA CallUserPair ==
  ASSUME ~SharedStore, TwoAccounts, Inv, PairInv, NEW s \in Slots, NEW x \in Sockets,
         NEW t \in Users, CallUser(s, x, t)
  PROVE  PairInv'
<1> DEFINE u == UserOf[x[1]]
           a == ReclaimStaleBusy(reg, t, Connected(t))
           b == ReclaimStaleBusy(a, u, Connected(u))
           r == ClearStaleRinging(b, u)
           q == [Idle EXCEPT !.at = "verdict", !.u = u, !.x = x, !.v = t]
<1>1. GoodRegister(reg) /\ proc \in [Slots -> Execs] /\ u \in Users
      /\ TimersApart(reg) /\ RowsApart(hist, nextCall)
  BY SocketUser DEF Inv, TypeOK, PairInv
<1>2. /\ Free(s) /\ t # u /\ reg' = r /\ UNCHANGED <<hist, nextCall>>
      /\ UNCHANGED <<proc, loop>> \/ Goto(s, q)
  BY Zenon DEF CallUser
<1>3. loop = None /\ Agree(reg) /\ \A y \in Slots : proc[y].at \in Resting
  BY <1>2, AgreedAtRest DEF Free
<1>4. Agree(r) /\ TimersApart(r)
  <2> HIDE DEF u
  <2>1. Agree(a) /\ Tamer(reg, a) /\ GoodRegister(a)
    BY <1>1, <1>3, PurgeAgrees, PurgesGood
  <2>2. Agree(b) /\ Tamer(a, b) /\ GoodRegister(b)
    <3> HIDE DEF a
    <3> QED BY <1>1, <2>1, PurgeAgrees, PurgesGood
  <2>3. Agree(r) /\ Tamer(b, r)
    <3> HIDE DEF b
    <3> QED BY <1>1, <2>2, PurgeAgrees
  <2> HIDE DEF a, b, r
  <2> QED BY <1>1, <2>1, <2>2, <2>3, TamerKeeps
<1>5. q.at = "verdict" /\ q.u = u /\ q.v = t
  BY DEF Idle
<1> HIDE DEF r, q, u
<1>6. CASE Goto(s, q)
  <2>1. PairLaw(q, reg')
    <3>1. q.at \notin Half \union {"rej_callee"}
      BY <1>5 DEF Half, HalfClear
    <3> QED BY <1>1, <1>2, <1>5, <3>1, PairPoint
  <2> QED BY <1>1, <1>2, <1>3, <1>4, <1>6, <2>1, PairMoves
<1>7. CASE UNCHANGED <<proc, loop>>
  <2>1. \A y \in Slots : PairLaw(proc'[y], reg')
    BY <1>3, <1>7, RestingKnowsNothing DEF PairInv
  <2>2. Alone'
    BY <1>7 DEF PairInv, Alone
  <2> QED BY <1>1, <1>2, <1>4, <2>1, <2>2 DEF PairInv
<1> QED BY <1>2, <1>6, <1>7

-----------------------------------------------------------------------------
(* Events: what they find is in agreement.                                 *)

\* Empty maps hold no pair and no deadline.
LEMMA EmptyAgrees == Agree(EmptyRegister) /\ TimersApart(EmptyRegister)
<1>1. \A u \in Users : EmptyRegister.entry[u] = NoEntry /\ EmptyRegister.timer[u] = NoTimers
  BY DEF EmptyRegister
<1>2. ~Active(NoEntry) /\ ~NoTimers["no_answer"].armed
  BY DEF Active, NoEntry, NoTimers, Kinds, NoJob
<1> QED BY <1>1, <1>2 DEF Agree, TimersApart

\* An execution that starts writing nothing keeps the pairs in agreement.
LEMMA PairBegins ==
  ASSUME ~SharedStore, Inv, PairInv, NEW s \in Slots, Free(s),
         UNCHANGED <<reg, hist, nextCall>>, NEW q, Goto(s, q), PairLaw(q, reg)
  PROVE  PairInv'
<1>1. TimersApart(reg) /\ SameEntries(reg, reg) /\ RowsApart(hist', nextCall')
  BY StatusApart DEF PairInv, SameEntries
<1>2. loop \in {None, s} /\ proc[s].at \notin Half
  BY DEF Free, Half, HalfClear
<1> QED BY <1>1, <1>2, SameStep

\* Likewise of one that starts knowing nothing.
LEMMA LooseBegins ==
  ASSUME ~SharedStore, Inv, PairInv, NEW s \in Slots, Free(s),
         UNCHANGED <<reg, hist, nextCall>>, NEW q, Goto(s, q), Loose(q)
  PROVE  PairInv'
BY PairBegins, LooseKnowsNothing

\* A refusal clears the caller if there is anything to clear: what else he
\* could be in is a later call of the two, and then the refusal is stale.
LEMMA RejectPair ==
  ASSUME ~SharedStore, TwoAccounts, Inv, PairInv, NEW s \in Slots, NEW c \in Calls,
         NEW d \in Devices \union {NoDevice}, Reject(s, c, d)
  PROVE  PairInv'
<1> DEFINE u == hist[c].callee
           v == hist[c].caller
           e == reg.entry[u]
           f == reg.entry[v]
           p == [Idle EXCEPT !.u = u, !.v = v, !.c = c]
           m == Active(f) /\ f.peer = u /\ f.call = c
           q == [p EXCEPT !.at = "rej_callee", !.match = m]
           z == [p EXCEPT !.at = "rej_stale"]
           stale == Active(e) /\ e.peer = v /\ e.call # c
<1>1. /\ Free(s) /\ c \in announced /\ UNCHANGED <<reg, hist, nextCall>>
      /\ (stale /\ Goto(s, z)) \/ (~stale /\ Goto(s, q))
  BY Zenon DEF Reject
<1>2. u \in Users /\ v \in Users /\ u # v
  BY <1>1 DEF Inv, PairInv, RowsApart
<1>3. CASE stale /\ Goto(s, z)
  <2>1. z.at = "rej_stale"
    BY DEF Idle
  <2> HIDE DEF z
  <2>2. Loose(z)
    BY <2>1 DEF Loose, LooseAt
  <2> QED BY <1>1, <1>3, <2>2, LooseBegins
<1>4. CASE ~stale /\ Goto(s, q)
  <2>1. Active(f) => m
    <3> SUFFICES ASSUME Active(f) PROVE m
      OBVIOUS
    <3>1. Agree(reg) /\ GoodRegister(reg)
      BY <1>1, AgreedAtRest DEF Free, Inv
    <3>2. f.peer \in Users /\ f.peer # v
      BY <1>2, <3>1 DEF Agree, GoodRegister, EntriesOK
    <3>3. f.peer = u
      <4>1. PICK a, b : Users = {a, b}
        BY DEF TwoAccounts
      <4> HIDE DEF u, v, f
      <4> QED BY <1>2, <3>2, <4>1
    <3>4. e.status = f.status /\ e.call = f.call /\ e.peer = v
      BY <1>2, <3>1, <3>3 DEF Agree
    <3>5. Active(e)
      BY <3>4 DEF Active
    <3> HIDE DEF u, v, e, f
    <3> QED BY <1>4, <3>3, <3>4, <3>5
  <2> HIDE DEF m
  <2>2. q.at = "rej_callee" /\ q.u = u /\ q.v = v /\ q.match = m
    BY DEF Idle
  <2>3. PairLaw(q, reg)
    <3> HIDE DEF q, u, v
    <3> QED BY <1>2, <2>1, <2>2 DEF PairLaw, HalfClear
  <2> HIDE DEF q
  <2> QED BY <1>1, <1>4, <2>3, PairBegins
<1> QED BY <1>1, <1>3, <1>4

\* An answer is of the two accounts of a row.
LEMMA AnswerPair ==
  ASSUME ~SharedStore, Inv, PairInv, NEW s \in Slots, NEW c \in Calls, NEW x \in Sockets,
         AnswerCall(s, c, x)
  PROVE  PairInv'
<1> DEFINE q == [Idle EXCEPT !.at = "claim", !.u = hist[c].callee, !.x = x,
                             !.v = hist[c].caller, !.c = c]
<1>1. Free(s) /\ c \in announced /\ UNCHANGED <<reg, hist, nextCall>> /\ Goto(s, q)
  BY Zenon DEF AnswerCall
<1>2. hist[c].callee \in Users /\ hist[c].caller \in Users /\ hist[c].callee # hist[c].caller
  BY <1>1 DEF Inv, PairInv, RowsApart
<1>3. q.at = "claim" /\ q.u = hist[c].callee /\ q.v = hist[c].caller
  BY DEF Idle
<1> HIDE DEF q
<1>4. q.at \notin Half \union {"rej_callee"}
  BY <1>3 DEF Half, HalfClear
<1>5. PairLaw(q, reg)
  BY <1>2, <1>3, <1>4, PairPoint
<1> QED BY <1>1, <1>5, PairBegins

\* A hang-up names a peer of the history.
LEMMA EndCallPair ==
  ASSUME ~SharedStore, Inv, PairInv, NEW s \in Slots, NEW x \in Sockets, NEW t \in Users,
         EndCall(s, x, t)
  PROVE  PairInv'
<1> DEFINE u == UserOf[x[1]]
           q == [Idle EXCEPT !.at = "end_self", !.u = u, !.x = x, !.v = t,
                             !.c = reg.entry[u].call]
<1>1. /\ Free(s) /\ t \in PastPeers(u) /\ UNCHANGED <<reg, hist, nextCall>>
      /\ UNCHANGED <<proc, loop>> \/ Goto(s, q)
  BY Zenon DEF EndCall
<1>2. u \in Users
  BY SocketUser
<1>3. q.at = "end_self" /\ q.u = u /\ q.v = t
  BY DEF Idle
<1> HIDE DEF q, u
<1>4. t # u
  <2>1. PICK c \in Calls : u \in Parties(c) /\ t = Peer(c, u)
    BY <1>1 DEF PastPeers
  <2>2. hist[c].caller # hist[c].callee
    BY <1>2, <2>1, OneToOneAssumption DEF PairInv, RowsApart, Parties
  <2> QED BY <2>1, <2>2 DEF Parties, Peer
<1>5. CASE UNCHANGED <<proc, loop>>
  <2>1. SameEntries(reg, reg') /\ Tamer(reg, reg')
    BY <1>1 DEF SameEntries, Tamer
  <2> QED BY <1>1, <1>5, <2>1, StillPair
<1>6. CASE Goto(s, q)
  <2>1. q.at \notin Half \union {"rej_callee"}
    BY <1>3 DEF Half, HalfClear
  <2>2. PairLaw(q, reg)
    BY <1>2, <1>3, <1>4, <2>1, PairPoint
  <2> QED BY <1>1, <1>6, <2>2, PairBegins
<1> QED BY <1>1, <1>5, <1>6

\* The events of sockets start knowing nothing, or start nothing.
LEMMA SocketLoose ==
  ASSUME NEW s \in Slots, NEW x \in Sockets,
         Disconnect(s, x) \/ Connect(s, x) \/ ResumeAck(s, x) \/ ResumeReject(s, x)
  PROVE  /\ Free(s)
         /\ UNCHANGED <<reg, hist, nextCall, announced, crashes, excused>>
         /\ UNCHANGED <<proc, loop>> \/ \E q : Loose(q) /\ Goto(s, q)
<1> DEFINE u == UserOf[x[1]]
           p == [Idle EXCEPT !.u = u]
           Begins == \E q : Loose(q) /\ Goto(s, q)
<1>1. Free(s) /\ UNCHANGED <<reg, hist, nextCall, announced, crashes, excused>>
  BY DEF Disconnect, Connect, ResumeAck, ResumeReject, Keep
<1>2. ASSUME Disconnect(s, x), ~UNCHANGED <<proc, loop>> PROVE Begins
  <2> DEFINE q == [Idle EXCEPT !.at = "sched_read", !.u = u, !.k = "grace",
                               !.match = (reg.entry[u].status = "ringing")]
  <2>1. Loose(q)
    BY DEF Idle, Loose, LooseAt
  <2>2. Goto(s, q)
    BY <1>2 DEF Disconnect
  <2> QED BY <2>1, <2>2
<1>3. ASSUME Connect(s, x), ~UNCHANGED <<proc, loop>> PROVE Begins
  <2> DEFINE q == [p EXCEPT !.at = "cancel_grace"]
             r == [p EXCEPT !.at = "sched_read", !.k = "owner_missing"]
             y == [p EXCEPT !.at = "sched_read", !.k = "resume_ack"]
  <2>1. Loose(q) /\ Loose(r) /\ Loose(y)
    BY DEF Idle, Loose, LooseAt
  <2>2. Goto(s, q) \/ Goto(s, r) \/ Goto(s, y)
    BY <1>3 DEF Connect
  <2> HIDE DEF q, r, y
  <2> QED BY <2>1, <2>2
<1>4. ASSUME ResumeAck(s, x) PROVE Begins
  <2> DEFINE q == [Idle EXCEPT !.at = "confirm", !.u = u]
  <2>1. Loose(q)
    BY DEF Idle, Loose, LooseAt
  <2>2. Goto(s, q)
    BY <1>4 DEF ResumeAck
  <2> QED BY <2>1, <2>2
<1>5. ASSUME ResumeReject(s, x) PROVE Begins
  <2> DEFINE q == [Idle EXCEPT !.at = "ea_read", !.u = u, !.jc = reg.entry[u].call]
  <2>1. Loose(q)
    BY DEF Idle, Loose, LooseAt
  <2>2. Goto(s, q)
    BY <1>5 DEF ResumeReject
  <2> QED BY <2>1, <2>2
<1>6. Begins \/ UNCHANGED <<proc, loop>>
  <2> HIDE DEF Begins
  <2> QED BY <1>2, <1>3, <1>4, <1>5
<1> QED BY <1>1, <1>6

\* So they keep the pairs in agreement.
LEMMA SocketPair ==
  ASSUME ~SharedStore, Inv, PairInv, NEW s \in Slots, NEW x \in Sockets,
         Disconnect(s, x) \/ Connect(s, x) \/ ResumeAck(s, x) \/ ResumeReject(s, x)
  PROVE  PairInv'
<1>1. Free(s) /\ UNCHANGED <<reg, hist, nextCall>>
  BY SocketLoose
<1>2. CASE UNCHANGED <<proc, loop>>
  <2>1. SameEntries(reg, reg') /\ Tamer(reg, reg')
    BY <1>1 DEF SameEntries, Tamer
  <2> QED BY <1>1, <1>2, <2>1, StillPair
<1>3. ASSUME NEW q, Loose(q), Goto(s, q) PROVE PairInv'
  BY <1>1, <1>3, LooseBegins
<1> QED BY <1>2, <1>3, SocketLoose

\* A deadline that fires is about another account than its own, or knows nothing.
LEMMA FirePair ==
  ASSUME ~SharedStore, Inv, PairInv, NEW s \in Slots, NEW u \in Users, NEW k \in Kinds,
         Fire(s, u, k)
  PROVE  PairInv'
<1> DEFINE j == reg.timer[u][k]
           f == CASE k = "no_answer" -> "na_read" [] k = "grace" -> "grace_check"
                  [] OTHER -> "ea_read"
           q == [Idle EXCEPT !.at = f, !.u = u, !.v = j.peer, !.jc = j.call, !.k = k]
           r == Cancel(reg, u, {k})
<1>1. GoodRegister(reg) /\ TimersApart(reg) /\ RowsApart(hist, nextCall)
  BY DEF Inv, PairInv
<1>2. Free(s) /\ j.armed /\ reg' = r /\ UNCHANGED <<hist, nextCall>> /\ Goto(s, q)
  BY Zenon DEF Fire
<1>3. q.at = f /\ q.u = u /\ q.v = j.peer
  BY DEF Idle
<1>4. SameEntries(reg, r) /\ Tamer(reg, r) /\ TimersApart(r)
  <2>1. SameEntries(reg, r) /\ Tamer(reg, r)
    BY <1>1, CancelSame
  <2> HIDE DEF r
  <2> QED BY <1>1, <2>1, TamerKeeps
<1>5. loop \in {None, s} /\ proc[s].at \notin Half
  BY <1>2 DEF Free, Half, HalfClear
<1> HIDE DEF q, r
<1>6. PairLaw(q, reg')
  <2>1. CASE k = "no_answer"
    <3>1. j.peer \in Users /\ j.peer # u /\ f = "na_read"
      BY <1>1, <1>2, <2>1 DEF TimersApart
    <3> HIDE DEF j, f
    <3>2. q.at \notin Half \union {"rej_callee"}
      BY <1>3, <3>1 DEF Half, HalfClear
    <3> QED BY <1>3, <3>1, <3>2, PairPoint
  <2>2. CASE k # "no_answer"
    <3>1. f \in {"grace_check", "ea_read"}
      BY <2>2
    <3> HIDE DEF f
    <3>2. Loose(q)
      BY <1>3, <3>1 DEF Loose, LooseAt
    <3> QED BY <3>2, LooseKnowsNothing
  <2> QED BY <2>1, <2>2
<1> QED BY <1>1, <1>2, <1>4, <1>5, <1>6, SameStep

\* Time and the reclaiming of locks touch no entry; a crash clears them all.
LEMMA WorldPair ==
  ASSUME ~SharedStore, Inv, PairInv,
         \/ \E u \in Users : Age(u) \/ \E k \in Kinds : ReclaimOrphan(u, k)
         \/ Crash
  PROVE  PairInv'
<1>1. GoodRegister(reg) /\ RowsApart(hist, nextCall)
  BY DEF Inv, PairInv
<1>2. ASSUME NEW u \in Users, Age(u) PROVE PairInv'
  <2>1. reg' = GoStale(reg, u) /\ UNCHANGED <<proc, loop, hist, nextCall>>
    BY <1>2 DEF Age
  <2> QED BY <1>1, <2>1, RestSame, StillPair
<1>3. ASSUME NEW u \in Users, NEW k \in Kinds, ReclaimOrphan(u, k) PROVE PairInv'
  <2>1. reg' = Lock(reg, u, k, None) /\ UNCHANGED <<proc, loop, hist, nextCall>>
    BY <1>3, Zenon DEF ReclaimOrphan
  <2> QED BY <1>1, <2>1, RestSame, StillPair
<1>4. CASE Crash
  <2>1. /\ loop' = None /\ proc' = [s \in Slots |-> Idle] /\ reg' = EmptyRegister
        /\ UNCHANGED <<hist, nextCall>>
    BY <1>4 DEF Crash
  <2>2. Agree(reg') /\ TimersApart(reg')
    BY <2>1, EmptyAgrees
  <2>3. Alone' /\ \A s \in Slots : PairLaw(proc'[s], reg')
    <3>1. Loose(Idle) /\ Idle.at \in Resting
      BY DEF Loose, Idle, Resting
    <3> QED BY <2>1, <3>1, LooseKnowsNothing DEF Alone
  <2> QED BY <1>1, <2>1, <2>2, <2>3 DEF PairInv
<1> QED BY <1>2, <1>3, <1>4

-----------------------------------------------------------------------------
\* Nobody is in a call at the start, and callHistory is empty.
LEMMA InitPair == Init => PairInv
<1> SUFFICES ASSUME Init PROVE PairInv
  OBVIOUS
<1>1. /\ proc = [s \in Slots |-> Idle] /\ reg = EmptyRegister /\ nextCall = 1
      /\ hist = [c \in Calls |-> NoRow]
  BY DEF Init
<1>2. Alone /\ \A s \in Slots : PairLaw(proc[s], reg)
  <2>1. Loose(Idle) /\ Idle.at \in Resting
    BY DEF Loose, Idle, Resting
  <2> QED BY <1>1, <2>1, LooseKnowsNothing DEF Alone
<1>3. RowsApart(hist, nextCall)
  <2>1. NoRow.caller = None /\ NoRow.callee = None
    BY DEF NoRow
  <2>2. \A c \in Calls : ~(c < 1)
    BY OneToOneAssumption DEF Calls
  <2> QED BY <1>1, <2>1, <2>2 DEF RowsApart
<1> QED BY <1>1, <1>2, <1>3, EmptyAgrees DEF PairInv

\* Between two accounts, every step keeps the pairs in agreement or is the first
\* of two writes.
LEMMA NextPair == ASSUME ~SharedStore, TwoAccounts, Inv, PairInv, [Next]_vars PROVE PairInv'
<1>1. ASSUME NEW s \in Slots, Continue(s) PROVE PairInv'
  <2>1. CASE \/ RejectStale(s) \/ RejectRelease(s) \/ RejectHist(s) \/ RejectVoicemail(s)
             \/ EndRelease(s) \/ EndHist(s) \/ AnswerHist(s)
             \/ NoAnswerHist(s) \/ NoAnswerRelease(s) \/ EndActiveHist(s)
             \/ ReleaseAfterEnd(s)
             \/ GraceCheck(s) \/ CancelGrace(s) \/ Confirm(s) \/ FinishJob(s)
    BY <2>1, LooseActions
  <2>2. CASE ReadToSchedule(s) \/ ReadForNoAnswer(s) \/ Arm(s)
    BY <2>2, ArmPair
  <2>3. CASE \/ RejectCallee(s) \/ RejectCaller(s) \/ EndSelf(s) \/ EndPeer(s)
             \/ NoAnswerTarget(s) \/ NoAnswerCaller(s) \/ EndActiveSelf(s)
             \/ EndActivePeer(s)
    BY <2>3, ClearActions
  <2>4. CASE RingCallee(s) \/ RingCaller(s) \/ AnswerCallee(s) \/ AnswerCaller(s)
    BY <2>4, WriteActions
  <2>5. CASE \/ Claim(s) \/ OpenOwnership(s) \/ NoAnswerRead(s) \/ EndActiveRead(s)
             \/ InsertCall(s) \/ Verdict(s)
    BY <2>5, ReadActions, EndActivePair, InsertPair, VerdictPair
  <2> QED BY <1>1, <2>1, <2>2, <2>3, <2>4, <2>5 DEF Continue
<1>2. ASSUME NEW s \in Slots, Receive(s) PROVE PairInv'
  <2>1. ASSUME NEW x \in Sockets, NEW t \in Users, CallUser(s, x, t) \/ EndCall(s, x, t)
        PROVE  PairInv'
    BY <2>1, CallUserPair, EndCallPair
  <2>2. ASSUME NEW x \in Sockets, NEW c \in Calls, AnswerCall(s, c, x) PROVE PairInv'
    BY <2>2, AnswerPair
  <2>3. ASSUME NEW x \in Sockets,
               Disconnect(s, x) \/ Connect(s, x) \/ ResumeAck(s, x) \/ ResumeReject(s, x)
        PROVE  PairInv'
    BY <2>3, SocketPair
  <2>4. ASSUME NEW c \in Calls, NEW d \in Devices \union {NoDevice}, Reject(s, c, d)
        PROVE  PairInv'
    BY <2>4, RejectPair
  <2> QED BY <1>2, <2>1, <2>2, <2>3, <2>4 DEF Receive
<1>3. ASSUME NEW s \in Slots, NEW u \in Users, NEW k \in Kinds, Fire(s, u, k) PROVE PairInv'
  BY <1>3, FirePair
<1>4. CASE \/ \E u \in Users : Age(u) \/ \E k \in Kinds : ReclaimOrphan(u, k)
           \/ Crash
  BY <1>4, WorldPair
<1>5. CASE UNCHANGED vars
  <2>1. UNCHANGED <<proc, loop, hist, nextCall>> /\ SameEntries(reg, reg') /\ Tamer(reg, reg')
    BY <1>5 DEF vars, SameEntries, Tamer
  <2> QED BY <2>1, StillPair
<1> QED BY <1>1, <1>2, <1>3, <1>4, <1>5 DEF Next

(* In one process with its Maps and between two accounts, whatever rings,   *)
(* answers, refusals, hang-ups sent again and deadlines come in whatever    *)
(* order, an account that is in a call or rings has its peer in the same    *)
(* call and the same status: the handlers of calls.js write and clear the   *)
(* two sides of a call without letting another event in between.            *)
THEOREM PairAgreesInMemory == ASSUME ~SharedStore, TwoAccounts PROVE Spec => []PairAgrees
<1>1. Inv /\ PairInv => PairAgrees
  <2> SUFFICES ASSUME PairInv, loop = None PROVE PairAgrees
    BY DEF PairAgrees
  <2>1. Agree(reg)
    BY AgreedAtRest
  <2> QED BY <2>1 DEF PairAgrees, Agree
<1>2. Init => Inv /\ PairInv
  BY InitInv, InitPair
<1>3. Inv /\ PairInv /\ [Next]_vars => (Inv /\ PairInv)'
  BY NextInv, NextPair
<1> QED BY <1>1, <1>2, <1>3, PTL DEF Spec

-----------------------------------------------------------------------------
(* In one process with its Maps and between two accounts, no row of a call  *)
(* stays "initiated" for life: the call rings, or a handler is about to     *)
(* close its row. The handlers that end a ring do it on the call they close: *)
(* Settled is the one of an execution, and while it goes on nothing else    *)
(* rings.                                                                  *)

RungIn(r, c) == \E u \in Users : r.entry[u].status = "ringing" /\ r.entry[u].call = c

Settled(p) == IF p.at \in NoAnswerAt THEN p.jc ELSE p.c

\* The points before a write that ends a ring,
Settling == {"claim", "in_callee", "in_caller", "rej_callee", "rej_caller", "end_self",
             "end_peer", "na_target", "na_caller", "ea_self", "ea_peer"}

\* and those from which the row of the call is closed in the end.
CloseAt == {"in_caller", "ans_hist", "rej_callee", "rej_caller", "rej_release", "rej_hist",
            "end_peer", "end_release", "end_hist", "na_caller", "na_hist", "ea_peer",
            "ea_hist"}

Closes(p, c) == p.at \in CloseAt /\ Settled(p) = c

\* What the execution knows of the rings.
SettleLaw(p, r) ==
  /\ p.at \in Settling =>
       \A u \in Users : r.entry[u].status = "ringing" => r.entry[u].call = Settled(p)
  /\ p.at \in {"ring_caller", "arm_read"} => RungIn(r, p.c)
  /\ p.at = "arm" /\ p.k = "no_answer" => RungIn(r, p.jc)

FreshRings(r) == \A u \in Users : r.entry[u].status = "ringing" => ~r.entry[u].stale

SettleInv ==
  /\ \A s \in Slots : SettleLaw(proc[s], reg)
  /\ (\E s \in Slots : proc[s].at = "verdict") => FreshRings(reg)
  /\ crashes = 0 =>
       \A c \in announced \ excused :
         hist[c].status = "initiated" =>
           RungIn(reg, c) \/ \E s \in Slots : Closes(proc[s], c)

\* Each account that rings afterwards rang before, for the same call.
Fewer(r, r2) ==
  \A u \in Users : r2.entry[u].status = "ringing" =>
    /\ r.entry[u].status = "ringing" /\ r2.entry[u].call = r.entry[u].call
    /\ r2.entry[u].stale => r.entry[u].stale

\* Between two accounts that agree, both are in a call, the same one, or none is.
LEMMA OneCall ==
  ASSUME TwoAccounts, NEW r, GoodRegister(r), Agree(r), NEW u \in Users, NEW w \in Users,
         Active(r.entry[u])
  PROVE  /\ r.entry[w].call = r.entry[u].call /\ r.entry[w].status = r.entry[u].status
         /\ u # w => r.entry[u].peer = w /\ r.entry[w].peer = u
<1>1. CASE u # w
  <2>1. r.entry[u].peer \in Users /\ r.entry[u].peer # u
    BY DEF Agree, GoodRegister, EntriesOK
  <2>2. r.entry[u].peer = w
    <3>1. PICK a, b : Users = {a, b}
      BY DEF TwoAccounts
    <3> QED BY <1>1, <2>1, <3>1
  <2> QED BY <2>1, <2>2 DEF Agree
<1> QED BY <1>1

\* setInCall and clear end the ring of the account and leave the others alone.
LEMMA FewerWrite ==
  ASSUME NEW r, GoodRegister(r), NEW u
  PROVE  Fewer(r, Clear(r, u)) /\ \A c, p : Fewer(r, SetInCall(r, u, c, p))
<1>1. ASSUME NEW e, e.status # "ringing" PROVE Fewer(r, Write(r, u, e))
  <2> SUFFICES ASSUME NEW w \in Users, Write(r, u, e).entry[w].status = "ringing"
               PROVE  Write(r, u, e).entry[w] = r.entry[w]
    BY DEF Fewer
  <2>1. r.entry \in [Users -> Entries] /\ Write(r, u, e).entry = [r.entry EXCEPT ![u] = e]
    BY DEF GoodRegister, Registers, Write
  <2> QED BY <1>1, <2>1
<1>2. NoEntry.status # "ringing" /\ \A c, p : InCall(c, p).status # "ringing"
  BY DEF NoEntry, InCall
<1> QED BY <1>1, <1>2 DEF Clear, SetInCall

\* Arming a deadline writes no entry.
LEMMA ScheduleEntry ==
  ASSUME NEW r, GoodRegister(r), NEW u, NEW k, NEW c, NEW p
  PROVE  Schedule(r, u, k, c, p).entry = r.entry
<1> DEFINE q == Cancel(r, u, CancelledBy(k))
<1>1. GoodRegister(q) /\ q.entry = r.entry
  BY CancelGood
<1> HIDE DEF q
<1>2. Enqueue(q, u, k, c, p).entry = q.entry
  <2>1. q.entry \in [Users -> Entries] /\ q.timer \in [Users -> [Kinds -> Jobs]]
        /\ q = [entry |-> q.entry, timer |-> q.timer]
    BY <1>1 DEF GoodRegister, Registers
  <2> QED BY <2>1 DEF Enqueue
<1> QED BY <1>1, <1>2 DEF Schedule, q

\* An execution that waits knows nothing of the rings.
LEMMA RestingSettles ==
  ASSUME NEW p, p.at \in Resting
  PROVE  \A r : SettleLaw(p, r)
BY DEF Resting, AfterIO, SettleLaw, Settling

\* At a point where an execution knows nothing of pairs it knows nothing of rings.
LEMMA LooseSettles ==
  ASSUME NEW q, Loose(q)
  PROVE  q.at # "verdict" /\ \A r : SettleLaw(q, r)
BY DEF Loose, LooseAt, SettleLaw, Settling

\* One execution moves: the announced calls whose row is open ring, or it
\* closes them, or another does.
LEMMA SettleMoves ==
  ASSUME ~SharedStore, PairInv, SettleInv, proc \in [Slots -> Execs], NEW s \in Slots,
         loop \in {None, s}, NEW q, Goto(s, q) \/ (q = Idle /\ Done(s)),
         SettleLaw(q, reg'), FreshRings(reg) => FreshRings(reg'),
         q.at = "verdict" => FreshRings(reg'), crashes' = crashes,
         crashes = 0 => \A c \in announced' \ excused' : hist'[c].status = "initiated" =>
           \/ RungIn(reg', c) \/ Closes(q, c)
           \/ \E t \in Slots \ {s} : Closes(proc[t], c)
  PROVE  SettleInv'
<1>1. \A t \in Slots \ {s} : proc[t].at \in Resting
  BY OneToOneAssumption DEF PairInv, Alone
<1>2. proc'[s] = q /\ \A t \in Slots \ {s} : proc'[t] = proc[t]
  <2>1. proc' = [proc EXCEPT ![s] = q]
    BY DEF Goto, Done
  <2> QED BY <2>1
<1>3. \A t \in Slots : SettleLaw(proc'[t], reg')
  <2> SUFFICES ASSUME NEW t \in Slots PROVE SettleLaw(proc'[t], reg')
    OBVIOUS
  <2>1. CASE t = s
    BY <1>2, <2>1
  <2>2. CASE t # s
    BY <1>1, <1>2, <2>2, RestingSettles
  <2> QED BY <2>1, <2>2
<1>4. (\E t \in Slots : proc'[t].at = "verdict") => FreshRings(reg')
  BY <1>2 DEF SettleInv
<1>5. ASSUME crashes' = 0, NEW c \in announced' \ excused', hist'[c].status = "initiated"
      PROVE  RungIn(reg', c) \/ \E t \in Slots : Closes(proc'[t], c)
  <2>1. RungIn(reg', c) \/ Closes(q, c) \/ \E t \in Slots \ {s} : Closes(proc[t], c)
    BY <1>5
  <2> QED BY <1>2, <2>1
<1> QED BY <1>3, <1>4, <1>5 DEF SettleInv

\* So it is when rings only end, of calls that it closes, and it gives up none.
LEMMA SettleKeeps ==
  ASSUME ~SharedStore, Inv, PairInv, SettleInv, NEW s \in Slots,
         loop \in {None, s}, NEW q, Goto(s, q) \/ (q = Idle /\ Done(s)),
         SettleLaw(q, reg'), q.at # "verdict", Fewer(reg, reg'),
         UNCHANGED crashes, excused \subseteq excused',
         \A c \in announced' \ announced : RungIn(reg', c),
         \A c \in announced \ excused' : hist'[c].status = "initiated" =>
           hist[c].status = "initiated" /\ (Closes(proc[s], c) => Closes(q, c)),
         \A c \in announced : RungIn(reg, c) => RungIn(reg', c) \/ Closes(q, c)
  PROVE  SettleInv'
<1>1. proc \in [Slots -> Execs]
  BY DEF Inv, TypeOK
<1>2. FreshRings(reg) => FreshRings(reg')
  BY DEF FreshRings, Fewer
<1>3. ASSUME crashes = 0, NEW c \in announced' \ excused', hist'[c].status = "initiated"
      PROVE  \/ RungIn(reg', c) \/ Closes(q, c)
             \/ \E t \in Slots \ {s} : Closes(proc[t], c)
  <2>1. CASE c \notin announced
    BY <1>3, <2>1
  <2>2. CASE c \in announced
    <3>1. hist[c].status = "initiated" /\ c \notin excused
      BY <1>3, <2>2
    <3>2. RungIn(reg, c) \/ \E t \in Slots : Closes(proc[t], c)
      BY <1>3, <2>2, <3>1 DEF SettleInv
    <3> QED BY <1>3, <2>2, <3>2
  <2> QED BY <2>1, <2>2
<1> QED BY <1>1, <1>2, <1>3, SettleMoves

\* So it is when the entries are kept,
LEMMA SettleSame ==
  ASSUME ~SharedStore, Inv, PairInv, SettleInv, NEW s \in Slots,
         loop \in {None, s}, NEW q, Goto(s, q) \/ (q = Idle /\ Done(s)),
         SettleLaw(q, reg'), q.at # "verdict", reg'.entry = reg.entry,
         UNCHANGED crashes, excused \subseteq excused',
         \A c \in announced' \ announced : RungIn(reg, c),
         \A c \in announced \ excused' : hist'[c].status = "initiated" =>
           hist[c].status = "initiated" /\ (Closes(proc[s], c) => Closes(q, c))
  PROVE  SettleInv'
<1>1. \A c : RungIn(reg', c) <=> RungIn(reg, c)
  BY DEF RungIn
<1>2. Fewer(reg, reg')
  BY DEF Fewer
<1> QED BY <1>1, <1>2, SettleKeeps

\* and the execution goes where it knows nothing, with no row left to close.
LEMMA SettleLoose ==
  ASSUME ~SharedStore, Inv, PairInv, SettleInv, NEW s \in Slots, loop \in {None, s},
         GoesLoose(s), reg'.entry = reg.entry, UNCHANGED <<announced, crashes>>, excused \subseteq excused',
         \A c \in announced \ excused' : hist'[c].status = "initiated" =>
           hist[c].status = "initiated" /\ ~Closes(proc[s], c)
  PROVE  SettleInv'
<1>1. PICK q : Loose(q) /\ (Goto(s, q) \/ (q = Idle /\ Done(s)))
  BY LoosePoint
<1>2. SettleLaw(q, reg') /\ q.at # "verdict"
  BY <1>1, LooseSettles
<1> QED BY <1>1, <1>2, SettleSame

-----------------------------------------------------------------------------
(* The handlers, one after the other.                                      *)

\* A row that is closed is no longer open.
LEMMA RowClosed ==
  ASSUME Inv, NEW c, hist' = ClosedHist(c) \/ \E y : y # "initiated" /\ hist' = SetStatus(c, y)
  PROVE  \A d \in Calls : hist'[d].status = "initiated" =>
           hist[d].status = "initiated" /\ d # c
<1>1. hist \in [Calls -> Rows]
  BY DEF Inv, TypeOK
<1>2. ASSUME NEW y, y # "initiated", NEW d \in Calls, SetStatus(c, y)[d].status = "initiated"
      PROVE  hist[d].status = "initiated" /\ d # c
  <2> DEFINE w == [hist[c] EXCEPT !.status = y]
  <2>1. c \in Calls => w.status = y
    BY <1>1 DEF Rows
  <2>2. SetStatus(c, y) = [hist EXCEPT ![c] = w]
    BY DEF SetStatus
  <2> HIDE DEF w
  <2> QED BY <1>1, <1>2, <2>1, <2>2
<1>3. CASE \E y : y # "initiated" /\ hist' = SetStatus(c, y)
  BY <1>2, <1>3
<1>4. CASE hist' = ClosedHist(c)
  BY <1>2, <1>4 DEF ClosedHist
<1> QED BY <1>3, <1>4

\* What a handler writes to a row, or fails to write, leaves no row of its call
\* open that is not set apart.
LEMMA RowWritten ==
  ASSUME Inv, NEW c, NEW rows, WriteHist(c, rows),
         rows = ClosedHist(c) \/ \E y : y # "initiated" /\ rows = SetStatus(c, y)
  PROVE  /\ excused \subseteq excused'
         /\ \A d \in Calls \ excused' : hist'[d].status = "initiated" =>
              hist[d].status = "initiated" /\ d # c
<1>1. CASE hist' = rows /\ UNCHANGED excused
  <2>1. hist' = ClosedHist(c) \/ \E y : y # "initiated" /\ hist' = SetStatus(c, y)
    BY <1>1
  <2> QED BY <1>1, <2>1, RowClosed
<1>2. CASE UNCHANGED hist /\ excused' = excused \union {c}
  BY <1>2
<1> QED BY <1>1, <1>2 DEF WriteHist

\* The last handler of a call closes its row, or fails to,
LEMMA ClosersSettle ==
  ASSUME ~SharedStore, Inv, PairInv, SettleInv, NEW s \in Slots,
         AnswerHist(s) \/ RejectHist(s) \/ EndHist(s) \/ NoAnswerHist(s) \/ EndActiveHist(s)
  PROVE  SettleInv'
<1> DEFINE p == proc[s]
<1>1. p \in Execs /\ announced \subseteq Calls
  BY DEF Inv, TypeOK
<1>2. /\ loop \in {None, s} /\ UNCHANGED <<reg, announced, crashes>>
  BY DEF AnswerHist, RejectHist, EndHist, NoAnswerHist, EndActiveHist, At
<1>3. GoesLoose(s)
  BY <1>1 DEF AnswerHist, RejectHist, EndHist, NoAnswerHist, EndActiveHist, GoesLoose, LooseAt
<1>4. CASE AnswerHist(s) \/ RejectHist(s) \/ EndHist(s) \/ EndActiveHist(s)
  <2>1. PICK rows : /\ WriteHist(p.c, rows)
                    /\ rows = ClosedHist(p.c) \/ \E y : y # "initiated" /\ rows = SetStatus(p.c, y)
    BY <1>4 DEF AnswerHist, RejectHist, EndHist, EndActiveHist
  <2>2. Settled(p) = p.c
    BY <1>4 DEF AnswerHist, RejectHist, EndHist, EndActiveHist, At, Settled, NoAnswerAt
  <2>3. /\ excused \subseteq excused'
        /\ \A c \in announced \ excused' : hist'[c].status = "initiated" =>
             hist[c].status = "initiated" /\ ~Closes(p, c)
    BY <1>1, <2>1, <2>2, RowWritten DEF Closes
  <2> QED BY <1>2, <1>3, <2>3, SettleLoose
<1>5. CASE NoAnswerHist(s)
  <2>1. PICK rows : WriteHist(p.jc, rows) /\ \E y : y # "initiated" /\ rows = SetStatus(p.jc, y)
    BY <1>5 DEF NoAnswerHist
  <2>2. Settled(p) = p.jc
    BY <1>5 DEF NoAnswerHist, At, Settled, NoAnswerAt
  <2>3. /\ excused \subseteq excused'
        /\ \A c \in announced \ excused' : hist'[c].status = "initiated" =>
             hist[c].status = "initiated" /\ ~Closes(p, c)
    BY <1>1, <2>1, <2>2, RowWritten DEF Closes
  <2> QED BY <1>2, <1>3, <2>3, SettleLoose
<1> QED BY <1>4, <1>5

\* the handlers that had none to close leave them all,
LEMMA IdlersSettle ==
  ASSUME ~SharedStore, Inv, PairInv, SettleInv, NEW s \in Slots,
         \/ RejectStale(s) \/ RejectVoicemail(s) \/ NoAnswerRelease(s) \/ ReleaseAfterEnd(s)
         \/ GraceCheck(s) \/ CancelGrace(s) \/ Confirm(s) \/ FinishJob(s)
         \/ ReadToSchedule(s)
  PROVE  SettleInv'
<1> DEFINE p == proc[s]
<1>1. p \in Execs /\ announced \subseteq Calls /\ GoodRegister(reg)
  BY DEF Inv, TypeOK
<1>2. /\ loop \in {None, s} /\ UNCHANGED <<announced, crashes>> /\ excused \subseteq excused'
      /\ p.at \notin CloseAt
  BY DEF RejectStale, RejectVoicemail, NoAnswerRelease, ReleaseAfterEnd, GraceCheck,
         CancelGrace, Confirm, FinishJob, ReadToSchedule, At, Keep, CloseAt, WriteHist
<1>3. ASSUME GoesLoose(s), reg'.entry = reg.entry,
             \/ hist' = hist \/ hist' = ClosedHist(p.c)
             \/ \E y : y # "initiated" /\ hist' = SetStatus(p.c, y)
      PROVE  SettleInv'
  <2>1. \A c \in announced : hist'[c].status = "initiated" =>
          hist[c].status = "initiated" /\ ~Closes(p, c)
    BY <1>1, <1>2, <1>3, RowClosed DEF Closes
  <2> QED BY <1>2, <1>3, <2>1, SettleLoose
<1>4. CASE RejectStale(s) \/ RejectVoicemail(s)
  <2>1. GoesLoose(s) /\ reg' = reg
    BY <1>4 DEF RejectStale, RejectVoicemail, GoesLoose
  <2>2. hist' = hist \/ \E y : y # "initiated" /\ hist' = SetStatus(p.c, y)
    BY <1>4 DEF RejectStale, RejectVoicemail, WriteHist
  <2> QED BY <1>3, <2>1, <2>2
<1>5. CASE NoAnswerRelease(s) \/ ReleaseAfterEnd(s)
  <2>1. GoesLoose(s)
    BY <1>5, FinishLoose DEF NoAnswerRelease, ReleaseAfterEnd
  <2> QED BY <1>3, <1>5, <2>1 DEF NoAnswerRelease, ReleaseAfterEnd
<1>6. CASE GraceCheck(s)
  <2>1. GoesLoose(s)
    BY <1>1, <1>6 DEF GraceCheck, GoesLoose, LooseAt
  <2>2. reg'.entry = reg.entry
    BY <1>1, <1>6, CancelGood DEF GraceCheck
  <2> QED BY <1>3, <1>6, <2>1, <2>2 DEF GraceCheck
<1>7. CASE CancelGrace(s) \/ Confirm(s) \/ FinishJob(s)
  <2>1. GoesLoose(s)
    BY <1>7 DEF CancelGrace, Confirm, FinishJob, GoesLoose
  <2>2. reg'.entry = reg.entry
    BY <1>1, <1>7, CancelGood DEF CancelGrace, Confirm, ConfirmResume, FinishJob
  <2> QED BY <1>3, <1>7, <2>1, <2>2 DEF CancelGrace, Confirm, FinishJob
<1>8. CASE ReadToSchedule(s)
  <2> DEFINE e == reg.entry[p.u]
             q == [p EXCEPT !.at = "arm", !.c = e.call, !.v = e.peer]
  <2>1. p.k # "no_answer"
    BY <1>8 DEF Inv, ExecsOK, ExecOK, ReadToSchedule, At
  <2>2. Loose(q)
    BY <1>1, <2>1 DEF Loose, Execs
  <2>3. GoesLoose(s) /\ reg' = reg /\ hist' = hist
    BY <1>8, <2>2 DEF ReadToSchedule, GoesLoose
  <2> QED BY <1>3, <2>3
<1> QED BY <1>4, <1>5, <1>6, <1>7, <1>8

\* and the releases of the ownerships keep the row to close in sight.
LEMMA ReleasesSettle ==
  ASSUME ~SharedStore, Inv, PairInv, SettleInv, NEW s \in Slots,
         RejectRelease(s) \/ EndRelease(s)
  PROVE  SettleInv'
<1> DEFINE p == proc[s]
<1>1. p \in Execs
  BY DEF Inv, TypeOK
<1>2. /\ loop \in {None, s} /\ UNCHANGED <<reg, hist, announced, crashes, excused>>
      /\ p.at \in {"rej_release", "end_release"}
  BY DEF RejectRelease, EndRelease, At, Keep
<1>3. PICK pt \in {"rej_hist", "end_hist"} : Goto(s, [p EXCEPT !.at = pt])
  BY DEF RejectRelease, EndRelease
<1> DEFINE q == [p EXCEPT !.at = pt]
<1>4. q.at = pt /\ q.c = p.c
  BY <1>1 DEF Execs
<1>5. Loose(q)
  BY <1>4 DEF Loose, LooseAt
<1> HIDE DEF q
<1>6. \A c : Closes(p, c) => Closes(q, c)
  BY <1>2, <1>4 DEF Closes, Settled, NoAnswerAt, CloseAt
<1>7. SettleLaw(q, reg') /\ q.at # "verdict"
  BY <1>5, LooseSettles
<1> QED BY <1>2, <1>3, <1>6, <1>7, SettleSame DEF q

\* A handler between two steps of the same call, or before its first write.
LEMMA ReadersSettle ==
  ASSUME ~SharedStore, TwoAccounts, Inv, PairInv, SettleInv, NEW s \in Slots,
         Claim(s) \/ NoAnswerRead(s) \/ EndActiveRead(s) \/ OpenOwnership(s)
  PROVE  SettleInv'
<1> DEFINE p == proc[s]
<1>1. p \in Execs /\ GoodRegister(reg) /\ SettleLaw(p, reg)
  BY DEF Inv, TypeOK, SettleInv
<1>2. /\ loop \in {None, s} /\ UNCHANGED <<hist, announced, crashes, excused>>
      /\ p.at \in {"claim", "na_read", "ea_read", "own"}
  BY DEF Claim, NoAnswerRead, EndActiveRead, OpenOwnership, At, Keep
<1>3. reg'.entry = reg.entry /\ p.at \notin Half /\ \A c : ~Closes(p, c)
  <2>1. reg'.entry = reg.entry
    BY <1>1, CancelGood DEF Claim, NoAnswerRead, EndActiveRead, OpenOwnership
  <2> QED BY <1>2, <2>1 DEF Half, HalfClear, Closes, CloseAt
<1>4. ASSUME NEW q, Goto(s, q) \/ (q = Idle /\ Done(s)), q.at # "verdict", SettleLaw(q, reg')
      PROVE  SettleInv'
  BY <1>2, <1>3, <1>4, SettleSame
<1>5. CASE GoesLoose(s)
  <2>1. PICK q : Loose(q) /\ (Goto(s, q) \/ (q = Idle /\ Done(s)))
    BY <1>5, LoosePoint
  <2> QED BY <1>4, <2>1, LooseSettles
<1>6. CASE Claim(s)
  <2> DEFINE q == [p EXCEPT !.at = "in_callee"]
  <2>1. p.at = "claim" /\ (Goto(s, q) \/ Done(s))
    BY <1>6 DEF Claim, At
  <2>2. q.at = "in_callee" /\ q.c = p.c
    BY <1>1 DEF Execs
  <2> HIDE DEF q
  <2>3. SettleLaw(q, reg')
    BY <1>1, <1>3, <2>1, <2>2 DEF SettleLaw, Settling, Settled, NoAnswerAt
  <2> QED BY <1>4, <1>5, <2>1, <2>2, <2>3 DEF GoesLoose
<1>7. CASE NoAnswerRead(s)
  <2> DEFINE q == [p EXCEPT !.at = "na_target"]
             e == reg.entry[p.u]
  <2>1. p.at = "na_read" /\ IF e.status = "ringing" /\ e.call = p.jc THEN Goto(s, q) ELSE Done(s)
    BY <1>7, FinishDone DEF NoAnswerRead, At
  <2>2. q.at = "na_target" /\ q.jc = p.jc
    BY <1>1 DEF Execs
  <2> HIDE DEF q
  <2>3. ASSUME e.status = "ringing", e.call = p.jc
        PROVE  SettleLaw(q, reg')
    <3>1. p.u \in Users
      BY <2>1 DEF PairInv, PairLaw, OfPair, PairAt
    <3>2. Agree(reg)
      BY <1>2, <1>3, AgreedAt
    <3>3. \A w \in Users : reg.entry[w].status = "ringing" => reg.entry[w].call = e.call
      BY <1>1, <2>3, <3>1, <3>2, OneCall DEF Active
    <3>4. Settled(q) = p.jc
      BY <2>2 DEF Settled, NoAnswerAt
    <3> HIDE DEF e
    <3> QED BY <1>3, <2>2, <2>3, <3>3, <3>4 DEF SettleLaw
  <2> QED BY <1>4, <1>5, <2>1, <2>2, <2>3 DEF GoesLoose
<1>8. CASE EndActiveRead(s)
  <2> DEFINE e == reg.entry[p.u]
             q == [p EXCEPT !.at = "ea_self", !.v = e.peer, !.c = e.call]
             z == [p EXCEPT !.at = "no_end"]
  <2>1. p.at = "ea_read" /\ IF Active(e) THEN Goto(s, q) ELSE Goto(s, z)
    BY <1>8 DEF EndActiveRead, At
  <2>2. q.at = "ea_self" /\ q.c = e.call
    BY <1>1 DEF Execs
  <2>3. Loose(z)
    BY <1>1 DEF Loose, LooseAt, Execs
  <2> HIDE DEF q, z
  <2>4. ASSUME Active(e) PROVE SettleLaw(q, reg')
    <3>1. p.u \in Users
      BY <2>1 DEF Inv, ExecsOK, ExecOK, Reading
    <3>2. Agree(reg)
      BY <1>2, <1>3, AgreedAt
    <3>3. \A w \in Users : reg.entry[w].status = "ringing" => reg.entry[w].call = e.call
      BY <1>1, <2>4, <3>1, <3>2, OneCall DEF Active
    <3>4. Settled(q) = e.call
      BY <2>2 DEF Settled, NoAnswerAt
    <3> HIDE DEF e
    <3> QED BY <1>3, <2>2, <3>3, <3>4 DEF SettleLaw
  <2> QED BY <1>4, <1>5, <2>1, <2>2, <2>3, <2>4 DEF GoesLoose
<1>9. CASE OpenOwnership(s)
  <2> DEFINE q == [p EXCEPT !.at = "ring_callee"]
  <2>1. Goto(s, q)
    BY <1>9 DEF OpenOwnership
  <2>2. q.at = "ring_callee"
    BY <1>1 DEF Execs
  <2> HIDE DEF q
  <2>3. SettleLaw(q, reg')
    BY <2>2 DEF SettleLaw, Settling
  <2> QED BY <1>4, <2>1, <2>2, <2>3
<1> QED BY <1>6, <1>7, <1>8, <1>9

\* What ends a ring does it on the call it closes.
LEMMA EnderStep ==
  ASSUME ~SharedStore, Inv, PairInv, SettleInv, NEW s \in Slots, loop \in {None, s},
         proc[s].at \in Settling, Fewer(reg, reg'),
         UNCHANGED <<hist, announced, crashes, excused>>,
         NEW pt \in CloseAt, pt \in NoAnswerAt <=> proc[s].at \in NoAnswerAt,
         Goto(s, [proc[s] EXCEPT !.at = pt])
  PROVE  SettleInv'
<1> DEFINE p == proc[s]
           q == [p EXCEPT !.at = pt]
<1>1. p \in Execs /\ SettleLaw(p, reg)
  BY DEF Inv, TypeOK, SettleInv
<1>2. q.at = pt /\ q.c = p.c /\ q.jc = p.jc
  BY <1>1 DEF Execs
<1> HIDE DEF q
<1>3. Settled(q) = Settled(p)
  BY <1>2 DEF Settled
<1>4. \A w \in Users : reg.entry[w].status = "ringing" => reg.entry[w].call = Settled(p)
  BY <1>1 DEF SettleLaw
<1>5. SettleLaw(q, reg') /\ q.at # "verdict"
  <2>1. q.at \notin {"verdict", "ring_caller", "arm_read", "arm"}
    BY <1>2 DEF CloseAt
  <2> QED BY <1>3, <1>4, <2>1 DEF SettleLaw, Fewer
<1>6. \A c : RungIn(reg, c) => Closes(q, c)
  BY <1>2, <1>3, <1>4 DEF RungIn, Closes
<1>7. \A c : Closes(p, c) => Closes(q, c)
  BY <1>2, <1>3 DEF Closes
<1> QED BY <1>5, <1>6, <1>7, SettleKeeps DEF q

\* The answer ends the ring of its call, and so do the handlers that clear.
LEMMA EndersSettle ==
  ASSUME ~SharedStore, Inv, PairInv, SettleInv, NEW s \in Slots,
         \/ AnswerCallee(s) \/ AnswerCaller(s) \/ RejectCallee(s) \/ RejectCaller(s)
         \/ EndSelf(s) \/ EndPeer(s) \/ NoAnswerTarget(s) \/ NoAnswerCaller(s)
         \/ EndActiveSelf(s) \/ EndActivePeer(s)
  PROVE  SettleInv'
<1> DEFINE p == proc[s]
<1>1. GoodRegister(reg)
  BY DEF Inv
<1>2. /\ loop \in {None, s} /\ UNCHANGED <<hist, announced, crashes, excused>>
      /\ p.at \in Settling
  BY DEF AnswerCallee, AnswerCaller, RejectCallee, RejectCaller, EndSelf, EndPeer,
         NoAnswerTarget, NoAnswerCaller, EndActiveSelf, EndActivePeer, At, Keep, Settling
<1>3. CASE AnswerCallee(s) \/ AnswerCaller(s)
  <2>1. Fewer(reg, reg')
    BY <1>1, <1>3, FewerWrite DEF AnswerCallee, AnswerCaller
  <2>2. \E pt \in CloseAt : /\ pt \in NoAnswerAt <=> p.at \in NoAnswerAt
                            /\ Goto(s, [p EXCEPT !.at = pt])
    BY <1>3 DEF AnswerCallee, AnswerCaller, At, CloseAt, NoAnswerAt
  <2> QED BY <1>2, <2>1, <2>2, EnderStep
<1>4. CASE RejectCallee(s) \/ RejectCaller(s)
  <2>1. Fewer(reg, reg')
    BY <1>1, <1>4, FewerWrite DEF RejectCallee, RejectCaller
  <2>2. \E pt \in CloseAt : /\ pt \in NoAnswerAt <=> p.at \in NoAnswerAt
                            /\ Goto(s, [p EXCEPT !.at = pt])
    BY <1>4 DEF RejectCallee, RejectCaller, At, CloseAt, NoAnswerAt
  <2> QED BY <1>2, <2>1, <2>2, EnderStep
<1>5. CASE EndSelf(s) \/ EndPeer(s) \/ EndActiveSelf(s) \/ EndActivePeer(s)
  <2>1. Fewer(reg, reg')
    BY <1>1, <1>5, FewerWrite DEF EndSelf, EndPeer, EndActiveSelf, EndActivePeer
  <2>2. \E pt \in CloseAt : /\ pt \in NoAnswerAt <=> p.at \in NoAnswerAt
                            /\ Goto(s, [p EXCEPT !.at = pt])
    BY <1>5 DEF EndSelf, EndPeer, EndActiveSelf, EndActivePeer, At, CloseAt, NoAnswerAt
  <2> QED BY <1>2, <2>1, <2>2, EnderStep
<1>6. CASE NoAnswerTarget(s) \/ NoAnswerCaller(s)
  <2>1. Fewer(reg, reg')
    BY <1>1, <1>6, FewerWrite DEF NoAnswerTarget, NoAnswerCaller
  <2>2. \E pt \in CloseAt : /\ pt \in NoAnswerAt <=> p.at \in NoAnswerAt
                            /\ Goto(s, [p EXCEPT !.at = pt])
    BY <1>6 DEF NoAnswerTarget, NoAnswerCaller, At, CloseAt, NoAnswerAt
  <2> QED BY <1>2, <2>1, <2>2, EnderStep
<1> QED BY <1>3, <1>4, <1>5, <1>6

\* A ring that is written is for the call of call_user; the one it overwrites is
\* remembered.
LEMMA RingsSettle ==
  ASSUME ~SharedStore, Inv, PairInv, SettleInv, NEW s \in Slots, RingCallee(s) \/ RingCaller(s)
  PROVE  SettleInv'
<1>1. ASSUME NEW p, NEW x, NEW y, NEW next, p = proc[s],
             \/ p.at = "ring_callee" /\ x = p.v /\ y = p.u /\ next = "ring_caller"
             \/ p.at = "ring_caller" /\ x = p.u /\ y = p.v /\ next = "arm_read",
             loop \in {None, s}, Ring(s, x, y, next)
      PROVE  SettleInv'
  <2> DEFINE q == [p EXCEPT !.at = next]
             r == SetRinging(reg, x, p.c, y)
  <2>1. proc \in [Slots -> Execs] /\ p \in Execs /\ GoodRegister(reg)
    BY <1>1 DEF Inv, TypeOK
  <2>2. /\ reg' = r /\ UNCHANGED <<hist, announced, crashes>> /\ Goto(s, q)
        /\ excused' = IF reg.entry[x].status = "ringing" /\ reg.entry[x].call # p.c
                       THEN excused \union {reg.entry[x].call} ELSE excused
    BY <1>1 DEF Ring
  <2>3. x \in Users
    <3>1. PairLaw(p, reg)
      BY <1>1 DEF PairInv
    <3> QED BY <1>1, <3>1 DEF PairLaw, OfPair, PairAt, CallUserAt
  <2>4. /\ r.entry[x].status = "ringing" /\ r.entry[x].call = p.c /\ ~r.entry[x].stale
        /\ \A w \in Users \ {x} : r.entry[w] = reg.entry[w]
    <3> DEFINE e == Ringing(p.c, y)
    <3>1. e.status = "ringing" /\ e.call = p.c /\ ~e.stale
      BY DEF Ringing
    <3>2. r.entry = [reg.entry EXCEPT ![x] = e] /\ reg.entry \in [Users -> Entries]
      BY <2>1 DEF SetRinging, Write, GoodRegister, Registers
    <3> HIDE DEF e
    <3> QED BY <2>3, <3>1, <3>2
  <2>5. q.at = next /\ q.c = p.c
    BY <2>1 DEF Execs
  <2> HIDE DEF q, r
  <2>6. RungIn(reg', p.c)
    BY <2>2, <2>3, <2>4 DEF RungIn
  <2>7. SettleLaw(q, reg') /\ q.at # "verdict"
    BY <1>1, <2>5, <2>6 DEF SettleLaw, Settling
  <2>8. FreshRings(reg) => FreshRings(reg')
    BY <2>2, <2>3, <2>4 DEF FreshRings
  <2>9. ASSUME crashes = 0, NEW c \in announced' \ excused', hist'[c].status = "initiated"
        PROVE  RungIn(reg', c) \/ \E t \in Slots \ {s} : Closes(proc[t], c)
    <3>1. c \in announced \ excused /\ hist[c].status = "initiated"
      BY <2>2, <2>9
    <3>2. ~Closes(p, c)
      BY <1>1 DEF Closes, CloseAt
    <3>3. RungIn(reg, c) \/ \E t \in Slots \ {s} : Closes(proc[t], c)
      BY <1>1, <2>9, <3>1, <3>2 DEF SettleInv
    <3>4. ASSUME RungIn(reg, c) PROVE RungIn(reg', c)
      <4>1. PICK w \in Users : reg.entry[w].status = "ringing" /\ reg.entry[w].call = c
        BY <3>4 DEF RungIn
      <4>2. CASE w = x
        <5>1. c = p.c
          BY <2>2, <2>9, <4>1, <4>2
        <5> QED BY <2>6, <5>1
      <4>3. CASE w # x
        BY <2>2, <2>4, <4>1, <4>3 DEF RungIn
      <4> QED BY <4>2, <4>3
    <3> QED BY <3>3, <3>4
  <2> QED BY <1>1, <2>1, <2>2, <2>7, <2>8, <2>9, SettleMoves
<1>2. CASE RingCallee(s)
  BY <1>1, <1>2 DEF RingCallee, At
<1>3. CASE RingCaller(s)
  BY <1>1, <1>3 DEF RingCaller, At
<1> QED BY <1>2, <1>3

\* A call is announced while it rings.
LEMMA AnnouncersSettle ==
  ASSUME ~SharedStore, Inv, PairInv, SettleInv, NEW s \in Slots, ReadForNoAnswer(s) \/ Arm(s)
  PROVE  SettleInv'
<1> DEFINE p == proc[s]
<1>1. p \in Execs /\ GoodRegister(reg) /\ SettleLaw(p, reg)
  BY DEF Inv, TypeOK, SettleInv
<1>2. CASE ReadForNoAnswer(s)
  <2> DEFINE e == reg.entry[p.v]
             q == [Idle EXCEPT !.at = "arm", !.k = "no_answer", !.u = p.v,
                               !.c = e.call, !.v = e.peer, !.jc = p.c]
  <2>1. /\ loop \in {None, s} /\ p.at = "arm_read"
        /\ UNCHANGED <<reg, hist, crashes, excused>>
        /\ \/ Goto(s, q) /\ announced' = announced
           \/ Done(s) /\ announced' = announced \union {p.c}
    BY <1>2, Zenon DEF ReadForNoAnswer, At, Keep
  <2>2. RungIn(reg, p.c) /\ \A c : ~Closes(p, c)
    BY <1>1, <2>1 DEF SettleLaw, Closes, CloseAt
  <2>3. q.at = "arm" /\ q.jc = p.c
    BY DEF Idle
  <2> HIDE DEF q
  <2>4. SettleLaw(q, reg') /\ q.at # "verdict"
    BY <2>1, <2>2, <2>3 DEF SettleLaw, Settling
  <2>5. SettleLaw(Idle, reg') /\ Idle.at # "verdict"
    BY LooseSettles DEF Loose, Idle
  <2>6. CASE Goto(s, q) /\ announced' = announced
    BY <2>1, <2>2, <2>4, <2>6, SettleSame
  <2>7. CASE Done(s) /\ announced' = announced \union {p.c}
    BY <2>1, <2>2, <2>5, <2>7, SettleSame
  <2> QED BY <2>1, <2>6, <2>7
<1>3. CASE Arm(s)
  <2>1. /\ loop \in {None, s} /\ p.at = "arm" /\ Done(s)
        /\ UNCHANGED <<hist, crashes, excused>>
        /\ announced' = IF p.k = "no_answer" THEN announced \union {p.jc} ELSE announced
    BY <1>3 DEF Arm, At, Keep
  <2>2. reg'.entry = reg.entry
    BY <1>1, <1>3, ScheduleEntry DEF Arm
  <2>3. \A c \in announced' \ announced : RungIn(reg, c)
    BY <1>1, <2>1 DEF SettleLaw
  <2>4. SettleLaw(Idle, reg') /\ Idle.at # "verdict" /\ \A c : ~Closes(p, c)
    <3>1. SettleLaw(Idle, reg') /\ Idle.at # "verdict"
      BY LooseSettles DEF Loose, Idle
    <3> QED BY <2>1, <3>1 DEF Closes, CloseAt
  <2> QED BY <2>1, <2>2, <2>3, <2>4, SettleSame
<1> QED BY <1>2, <1>3

-----------------------------------------------------------------------------
(* New calls, events and the rest of the world.                            *)

\* A new row is of a call that is not announced.
LEMMA InsertSettles ==
  ASSUME ~SharedStore, Inv, PairInv, SettleInv, NEW s \in Slots, InsertCall(s)
  PROVE  SettleInv'
<1> DEFINE p == proc[s]
           q == [p EXCEPT !.at = "own", !.c = nextCall]
<1>1. p \in Execs /\ hist \in [Calls -> Rows] /\ announced \subseteq Calls /\ nextCall \in Int
  BY OneToOneAssumption DEF Inv, TypeOK
<1>2. /\ loop \in {None, s} /\ p.at = "insert" /\ reg' = reg
      /\ UNCHANGED <<announced, crashes, excused>>
      /\ Done(s) \/ Goto(s, q)
  BY DEF InsertCall, At, Keep
<1>3. \A c \in announced : hist'[c] = hist[c]
  <2>1. \A c \in announced : c # nextCall
    BY <1>1, OneToOneAssumption DEF Inv, Calls
  <2> QED BY <1>1, <2>1 DEF InsertCall
<1>4. q.at = "own"
  BY <1>1 DEF Execs
<1> HIDE DEF q
<1>5. SettleLaw(q, reg') /\ q.at # "verdict" /\ SettleLaw(Idle, reg') /\ Idle.at # "verdict"
  <2>1. SettleLaw(q, reg') /\ q.at # "verdict"
    BY <1>4 DEF SettleLaw, Settling
  <2> QED BY <2>1, LooseSettles DEF Loose, Idle
<1>6. \A c : ~Closes(p, c)
  BY <1>2 DEF Closes, CloseAt
<1> QED BY <1>2, <1>3, <1>5, <1>6, SettleSame

\* The verdict finds no stale ring to purge: none is there when call_user starts,
\* and none gets old while an execution is under way.
LEMMA VerdictSettles ==
  ASSUME ~SharedStore, Inv, PairInv, SettleInv, NEW s \in Slots, Verdict(s)
  PROVE  SettleInv'
<1> DEFINE p == proc[s]
           q == [p EXCEPT !.at = "insert"]
           r == ClearStaleRinging(reg, p.v)
<1>1. p \in Execs
  BY DEF Inv, TypeOK
<1>2. /\ At(s, "verdict") /\ UNCHANGED <<hist, announced, crashes, excused>>
      /\ Done(s) \/ Goto(s, q)
      /\ reg' \in {reg, r}
  BY Zenon DEF Verdict, Keep
<1>3. reg' = reg
  <2>1. p.v \in Users
    BY <1>2 DEF Inv, ExecsOK, ExecOK, CallUserAt, At
  <2>2. ~(reg.entry[p.v].status = "ringing" /\ reg.entry[p.v].stale)
    BY <1>2, <2>1 DEF SettleInv, FreshRings, At
  <2>3. r = reg
    BY <2>2 DEF ClearStaleRinging
  <2> QED BY <1>2, <2>3
<1>4. q.at = "insert"
  BY <1>1 DEF Execs
<1> HIDE DEF q
<1>5. SettleLaw(q, reg') /\ q.at # "verdict" /\ SettleLaw(Idle, reg') /\ Idle.at # "verdict"
  <2>1. SettleLaw(q, reg') /\ q.at # "verdict"
    BY <1>4 DEF SettleLaw, Settling
  <2> QED BY <2>1, LooseSettles DEF Loose, Idle
<1>6. loop \in {None, s} /\ \A c : ~Closes(p, c)
  BY <1>2 DEF At, Closes, CloseAt
<1> QED BY <1>2, <1>3, <1>5, <1>6, SettleSame

\* Where no execution moves and no ring ends.
LEMMA SettleStill ==
  ASSUME SettleInv, UNCHANGED <<proc, hist, announced, crashes, excused>>,
         \A c : RungIn(reg, c) => RungIn(reg', c),
         \/ reg'.entry = reg.entry
         \/ /\ \A t \in Slots : proc[t].at \in Resting
            /\ FreshRings(reg') \/ \A t \in Slots : proc[t].at # "verdict"
  PROVE  SettleInv'
<1>1. \A t \in Slots : SettleLaw(proc[t], reg')
  <2>1. CASE reg'.entry = reg.entry
    BY <2>1 DEF SettleInv, SettleLaw, RungIn
  <2>2. CASE \A t \in Slots : proc[t].at \in Resting
    BY <2>2, RestingSettles
  <2> QED BY <2>1, <2>2
<1>2. (\E t \in Slots : proc[t].at = "verdict") => FreshRings(reg')
  BY DEF SettleInv, FreshRings
<1>3. crashes = 0 =>
        \A c \in announced \ excused : hist[c].status = "initiated" =>
          RungIn(reg', c) \/ \E t \in Slots : Closes(proc[t], c)
  BY DEF SettleInv
<1> QED BY <1>1, <1>2, <1>3 DEF SettleInv

\* call_user goes on only if the two do not ring each other: its purges end no ring.
LEMMA CallUserSettles ==
  ASSUME ~SharedStore, TwoAccounts, Inv, PairInv, SettleInv, NEW s \in Slots,
         NEW x \in Sockets, NEW t \in Users, CallUser(s, x, t)
  PROVE  SettleInv'
<1> DEFINE u == UserOf[x[1]]
           a == ReclaimStaleBusy(reg, t, Connected(t))
           b == ReclaimStaleBusy(a, u, Connected(u))
           r == ClearStaleRinging(b, u)
           q == [Idle EXCEPT !.at = "verdict", !.u = u, !.x = x, !.v = t]
<1>1. GoodRegister(reg) /\ proc \in [Slots -> Execs] /\ u \in Users
  BY SocketUser DEF Inv, TypeOK
<1>2. /\ Free(s) /\ t # u /\ reg' = r /\ UNCHANGED <<hist, announced, crashes, excused>>
      /\ ~ExistingPair(reg, u, t)
      /\ UNCHANGED <<proc, loop>> \/ Goto(s, q)
  BY Zenon DEF CallUser, Keep
<1>3. loop = None /\ Agree(reg) /\ \A y \in Slots : proc[y].at \in Resting
  BY <1>2, AgreedAtRest DEF Free
<1>4. Milder(reg, r)
  BY <1>1, PurgesMild
<1>5. q.at = "verdict"
  BY DEF Idle
<1> HIDE DEF r, q, u
<1>6. ASSUME NEW w \in Users, reg.entry[w].status = "ringing" PROVE FALSE
  <2>1. w = u \/ w = t
    <3>1. PICK m, n : Users = {m, n}
      BY DEF TwoAccounts
    <3> QED BY <1>1, <1>2, <3>1
  <2>2. Active(reg.entry[w])
    BY <1>6 DEF Active
  <2>3. CASE w = u
    <3>1. reg.entry[u].peer = t
      BY <1>1, <1>2, <1>3, <2>2, <2>3, OneCall
    <3> QED BY <1>2, <1>6, <2>3, <3>1 DEF ExistingPair, RingsAt
  <2>4. CASE w = t
    <3>1. reg.entry[t].peer = u
      BY <1>1, <1>2, <1>3, <2>2, <2>4, OneCall
    <3> QED BY <1>2, <1>6, <2>4, <3>1 DEF ExistingPair, RingsAt
  <2> QED BY <2>1, <2>3, <2>4
<1>7. \A w \in Users : reg'.entry[w].status # "ringing"
  BY <1>2, <1>4, <1>6 DEF Milder
<1>8. FreshRings(reg') /\ \A c : ~RungIn(reg, c)
  BY <1>6, <1>7 DEF FreshRings, RungIn
<1>9. CASE Goto(s, q)
  <2>1. SettleLaw(q, reg')
    BY <1>5 DEF SettleLaw, Settling
  <2>2. ~\E c : Closes(proc[s], c)
    BY <1>2 DEF Free, Closes, CloseAt
  <2>3. crashes = 0 => \A c \in announced \ excused : hist[c].status = "initiated" =>
          \E y \in Slots \ {s} : Closes(proc[y], c)
    BY <1>8, <2>2 DEF SettleInv
  <2> QED BY <1>1, <1>2, <1>3, <1>8, <1>9, <2>1, <2>3, SettleMoves
<1>10. CASE UNCHANGED <<proc, loop>>
  BY <1>2, <1>3, <1>8, <1>10, SettleStill
<1> QED BY <1>2, <1>9, <1>10

\* An event that starts an execution ends no ring.
LEMMA SettleBegins ==
  ASSUME ~SharedStore, Inv, PairInv, SettleInv, NEW s \in Slots, Free(s),
         reg'.entry = reg.entry, UNCHANGED <<hist, announced, crashes, excused>>,
         NEW q, Goto(s, q), q.at # "verdict", SettleLaw(q, reg)
  PROVE  SettleInv'
<1>1. SettleLaw(q, reg')
  BY DEF SettleLaw, RungIn
<1>2. loop \in {None, s} /\ \A c : ~Closes(proc[s], c)
  BY DEF Free, Closes, CloseAt
<1> QED BY <1>1, <1>2, SettleSame

\* A refusal that is not stale is of the call that rings, if one does.
LEMMA RejectSettles ==
  ASSUME ~SharedStore, TwoAccounts, Inv, PairInv, SettleInv, NEW s \in Slots,
         NEW c \in Calls, NEW d \in Devices \union {NoDevice}, Reject(s, c, d)
  PROVE  SettleInv'
<1> DEFINE u == hist[c].callee
           v == hist[c].caller
           e == reg.entry[u]
           p == [Idle EXCEPT !.u = u, !.v = v, !.c = c]
           m == Active(reg.entry[v]) /\ reg.entry[v].peer = u /\ reg.entry[v].call = c
           q == [p EXCEPT !.at = "rej_callee", !.match = m]
           z == [p EXCEPT !.at = "rej_stale"]
           stale == Active(e) /\ e.peer = v /\ e.call # c
<1>1. /\ Free(s) /\ c \in announced /\ UNCHANGED <<reg, hist, announced, crashes, excused>>
      /\ (stale /\ Goto(s, z)) \/ (~stale /\ Goto(s, q))
  BY Zenon DEF Reject, Keep
<1>2. u \in Users /\ v \in Users /\ u # v
  BY <1>1 DEF Inv, PairInv, RowsApart
<1>3. CASE stale /\ Goto(s, z)
  <2>1. z.at = "rej_stale"
    BY DEF Idle
  <2> HIDE DEF z
  <2>2. Loose(z)
    BY <2>1 DEF Loose, LooseAt
  <2> QED BY <1>1, <1>3, <2>2, LooseSettles, SettleBegins
<1>4. CASE ~stale /\ Goto(s, q)
  <2>1. ASSUME NEW w \in Users, reg.entry[w].status = "ringing" PROVE reg.entry[w].call = c
    <3>1. Agree(reg) /\ GoodRegister(reg) /\ Active(reg.entry[w])
      BY <1>1, <2>1, AgreedAtRest DEF Free, Inv, Active
    <3>2. e.call = reg.entry[w].call /\ e.status = reg.entry[w].status
      BY <1>2, <3>1, OneCall
    <3>3. Active(e)
      BY <2>1, <3>2 DEF Active
    <3>4. e.peer = v
      BY <1>2, <3>1, <3>3, OneCall
    <3> QED BY <1>4, <3>2, <3>3, <3>4
  <2> HIDE DEF m
  <2>2. q.at = "rej_callee" /\ q.c = c
    BY DEF Idle
  <2> HIDE DEF q
  <2>3. SettleLaw(q, reg)
    BY <2>1, <2>2 DEF SettleLaw, Settled, NoAnswerAt
  <2> QED BY <1>1, <1>4, <2>2, <2>3, SettleBegins
<1> QED BY <1>1, <1>3, <1>4

\* An answer is of the call that rings.
LEMMA AnswerSettles ==
  ASSUME ~SharedStore, TwoAccounts, Inv, PairInv, SettleInv, NEW s \in Slots,
         NEW c \in Calls, NEW x \in Sockets, AnswerCall(s, c, x)
  PROVE  SettleInv'
<1> DEFINE u == hist[c].callee
           q == [Idle EXCEPT !.at = "claim", !.u = u, !.x = x, !.v = hist[c].caller, !.c = c]
<1>1. /\ Free(s) /\ c \in announced /\ UNCHANGED <<reg, hist, announced, crashes, excused>>
      /\ PairRings(c) /\ Goto(s, q)
  BY Zenon DEF AnswerCall, Keep
<1>2. u \in Users /\ Active(reg.entry[u]) /\ reg.entry[u].call = c
  <2>1. u \in Users
    BY <1>1 DEF Inv, PairInv, RowsApart
  <2> QED BY <1>1, <2>1 DEF PairRings, RingsAt, Active
<1>3. Agree(reg) /\ GoodRegister(reg)
  BY <1>1, AgreedAtRest DEF Free, Inv
<1>4. q.at = "claim" /\ q.c = c
  BY DEF Idle
<1> HIDE DEF q, u
<1>5. \A w \in Users : reg.entry[w].call = c
  BY <1>2, <1>3, OneCall
<1>6. SettleLaw(q, reg)
  BY <1>4, <1>5 DEF SettleLaw, Settled, NoAnswerAt
<1> QED BY <1>1, <1>4, <1>6, SettleBegins

\* A hang-up is of the call of who hangs up.
LEMMA EndCallSettles ==
  ASSUME ~SharedStore, TwoAccounts, Inv, PairInv, SettleInv, NEW s \in Slots,
         NEW x \in Sockets, NEW t \in Users, EndCall(s, x, t)
  PROVE  SettleInv'
<1> DEFINE u == UserOf[x[1]]
           e == reg.entry[u]
           q == [Idle EXCEPT !.at = "end_self", !.u = u, !.x = x, !.v = t, !.c = e.call]
<1>1. /\ Free(s) /\ UNCHANGED <<reg, hist, announced, crashes, excused>>
      /\ UNCHANGED <<proc, loop>> \/ (Active(e) /\ Goto(s, q))
  BY Zenon DEF EndCall, Keep
<1>2. u \in Users
  BY SocketUser
<1>3. q.at = "end_self" /\ q.c = e.call
  BY DEF Idle
<1> HIDE DEF q
<1>4. CASE UNCHANGED <<proc, loop>>
  BY <1>1, <1>4, SettleStill
<1>5. CASE Active(e) /\ Goto(s, q)
  <2>1. Agree(reg) /\ GoodRegister(reg)
    BY <1>1, AgreedAtRest DEF Free, Inv
  <2>2. \A w \in Users : reg.entry[w].call = e.call
    BY <1>2, <1>5, <2>1, OneCall
  <2> HIDE DEF e
  <2>3. SettleLaw(q, reg)
    BY <1>3, <2>2 DEF SettleLaw, Settled, NoAnswerAt
  <2> QED BY <1>1, <1>3, <1>5, <2>3, SettleBegins
<1> QED BY <1>1, <1>4, <1>5

\* The other events know nothing of rings,
LEMMA SocketSettles ==
  ASSUME ~SharedStore, Inv, PairInv, SettleInv, NEW s \in Slots, NEW x \in Sockets,
         Disconnect(s, x) \/ Connect(s, x) \/ ResumeAck(s, x) \/ ResumeReject(s, x)
  PROVE  SettleInv'
<1>1. Free(s) /\ UNCHANGED <<reg, hist, announced, crashes, excused>>
  BY SocketLoose
<1>2. CASE UNCHANGED <<proc, loop>>
  BY <1>1, <1>2, SettleStill
<1>3. ASSUME NEW q, Loose(q), Goto(s, q) PROVE SettleInv'
  BY <1>1, <1>3, LooseSettles, SettleBegins
<1> QED BY <1>2, <1>3, SocketLoose

\* nor does a timer that fires.
LEMMA FireSettles ==
  ASSUME ~SharedStore, Inv, PairInv, SettleInv, NEW s \in Slots, NEW u \in Users,
         NEW k \in Kinds, Fire(s, u, k)
  PROVE  SettleInv'
<1> DEFINE j == reg.timer[u][k]
           f == CASE k = "no_answer" -> "na_read" [] k = "grace" -> "grace_check"
                  [] OTHER -> "ea_read"
           q == [Idle EXCEPT !.at = f, !.u = u, !.v = j.peer, !.jc = j.call, !.k = k]
<1>1. /\ Free(s) /\ reg' = Cancel(reg, u, {k}) /\ Goto(s, q)
      /\ UNCHANGED <<hist, announced, crashes, excused>>
  BY Zenon DEF Fire, Keep
<1>2. reg'.entry = reg.entry
  BY <1>1, CancelGood DEF Inv
<1>3. q.at \in {"na_read", "grace_check", "ea_read"}
  BY DEF Idle
<1> HIDE DEF q
<1>4. SettleLaw(q, reg) /\ q.at # "verdict"
  BY <1>3 DEF SettleLaw, Settling
<1> QED BY <1>1, <1>2, <1>4, SettleBegins

\* Time passes only where nothing runs; a crash is set apart.
LEMMA WorldSettles ==
  ASSUME ~SharedStore, Inv, PairInv, SettleInv,
         \/ \E u \in Users : Age(u) \/ \E k \in Kinds : ReclaimOrphan(u, k)
         \/ Crash
  PROVE  SettleInv'
<1>1. GoodRegister(reg) /\ crashes \in Nat
  BY OneToOneAssumption DEF Inv, TypeOK
<1>2. ASSUME NEW u \in Users, Age(u) PROVE SettleInv'
  <2>1. /\ reg' = GoStale(reg, u) /\ \A s \in Slots : proc[s].at = "idle"
        /\ UNCHANGED <<proc, hist, announced, crashes, excused>>
    BY <1>2 DEF Age, Keep
  <2>2. SameEntries(reg, reg')
    BY <1>1, <2>1, RestSame
  <2>3. \A c : RungIn(reg, c) => RungIn(reg', c)
    BY <2>2 DEF RungIn, SameEntries
  <2>4. \A s \in Slots : proc[s].at \in Resting /\ proc[s].at # "verdict"
    BY <2>1 DEF Resting
  <2> QED BY <2>1, <2>3, <2>4, SettleStill
<1>3. ASSUME NEW u \in Users, NEW k \in Kinds, ReclaimOrphan(u, k) PROVE SettleInv'
  <2>1. /\ reg' = Lock(reg, u, k, None)
        /\ UNCHANGED <<proc, hist, announced, crashes, excused>>
    BY <1>3, Zenon DEF ReclaimOrphan, Keep
  <2>2. reg'.entry = reg.entry
    <3> DEFINE j == [reg.timer[u][k] EXCEPT !.lock = None]
    <3>1. reg' = [reg EXCEPT !.timer[u][k] = j]
      BY <2>1 DEF Lock
    <3> HIDE DEF j
    <3> QED BY <1>1, <3>1 DEF GoodRegister, Registers
  <2>3. \A c : RungIn(reg, c) => RungIn(reg', c)
    BY <2>2 DEF RungIn
  <2> QED BY <2>1, <2>2, <2>3, SettleStill
<1>4. CASE Crash
  <2>1. proc' = [s \in Slots |-> Idle] /\ crashes' = crashes + 1
    BY <1>4 DEF Crash
  <2>2. \A s \in Slots : proc'[s].at # "verdict" /\ SettleLaw(proc'[s], reg')
    <3>1. Loose(Idle)
      BY DEF Loose, Idle
    <3> QED BY <2>1, <3>1, LooseSettles
  <2>3. crashes' # 0
    BY <1>1, <2>1
  <2> QED BY <2>2, <2>3 DEF SettleInv
<1> QED BY <1>2, <1>3, <1>4

-----------------------------------------------------------------------------
\* No call is announced at the start.
LEMMA InitSettles == Init => SettleInv
<1> SUFFICES ASSUME Init PROVE SettleInv
  OBVIOUS
<1>1. proc = [s \in Slots |-> Idle] /\ announced = {}
  BY DEF Init
<1>2. Loose(Idle)
  BY DEF Loose, Idle
<1>3. \A s \in Slots : proc[s].at # "verdict" /\ SettleLaw(proc[s], reg)
  BY <1>1, <1>2, LooseSettles
<1> QED BY <1>1, <1>3 DEF SettleInv

\* Between two accounts, every step keeps an open row rung or about to be closed.
LEMMA NextSettles ==
  ASSUME ~SharedStore, TwoAccounts, Inv, PairInv, SettleInv, [Next]_vars PROVE SettleInv'
<1>1. ASSUME NEW s \in Slots, Continue(s) PROVE SettleInv'
  <2>1. CASE \/ AnswerHist(s) \/ RejectHist(s) \/ EndHist(s) \/ NoAnswerHist(s)
             \/ EndActiveHist(s)
    BY <2>1, ClosersSettle
  <2>2. CASE \/ RejectStale(s) \/ RejectVoicemail(s) \/ NoAnswerRelease(s)
             \/ ReleaseAfterEnd(s) \/ GraceCheck(s) \/ CancelGrace(s) \/ Confirm(s)
             \/ FinishJob(s) \/ ReadToSchedule(s) \/ RejectRelease(s) \/ EndRelease(s)
    BY <2>2, IdlersSettle, ReleasesSettle
  <2>3. CASE Claim(s) \/ NoAnswerRead(s) \/ EndActiveRead(s) \/ OpenOwnership(s)
    BY <2>3, ReadersSettle
  <2>4. CASE \/ AnswerCallee(s) \/ AnswerCaller(s) \/ RejectCallee(s) \/ RejectCaller(s)
             \/ EndSelf(s) \/ EndPeer(s) \/ NoAnswerTarget(s) \/ NoAnswerCaller(s)
             \/ EndActiveSelf(s) \/ EndActivePeer(s)
    BY <2>4, EndersSettle
  <2>5. CASE \/ RingCallee(s) \/ RingCaller(s) \/ ReadForNoAnswer(s) \/ Arm(s)
             \/ InsertCall(s) \/ Verdict(s)
    BY <2>5, RingsSettle, AnnouncersSettle, InsertSettles, VerdictSettles
  <2> QED BY <1>1, <2>1, <2>2, <2>3, <2>4, <2>5 DEF Continue
<1>2. ASSUME NEW s \in Slots, Receive(s) PROVE SettleInv'
  <2>1. ASSUME NEW x \in Sockets, NEW t \in Users, CallUser(s, x, t) \/ EndCall(s, x, t)
        PROVE  SettleInv'
    BY <2>1, CallUserSettles, EndCallSettles
  <2>2. ASSUME NEW x \in Sockets, NEW c \in Calls, AnswerCall(s, c, x) PROVE SettleInv'
    BY <2>2, AnswerSettles
  <2>3. ASSUME NEW x \in Sockets,
               Disconnect(s, x) \/ Connect(s, x) \/ ResumeAck(s, x) \/ ResumeReject(s, x)
        PROVE  SettleInv'
    BY <2>3, SocketSettles
  <2>4. ASSUME NEW c \in Calls, NEW d \in Devices \union {NoDevice}, Reject(s, c, d)
        PROVE  SettleInv'
    BY <2>4, RejectSettles
  <2> QED BY <1>2, <2>1, <2>2, <2>3, <2>4 DEF Receive
<1>3. ASSUME NEW s \in Slots, NEW u \in Users, NEW k \in Kinds, Fire(s, u, k) PROVE SettleInv'
  BY <1>3, FireSettles
<1>4. CASE \/ \E u \in Users : Age(u) \/ \E k \in Kinds : ReclaimOrphan(u, k)
           \/ Crash
  BY <1>4, WorldSettles
<1>5. CASE UNCHANGED vars
  BY <1>5, SettleStill DEF vars
<1> QED BY <1>1, <1>2, <1>3, <1>4, <1>5 DEF Next

(* In one process with its Maps and between two accounts, an announced call *)
(* whose row of callHistory still says "initiated" is in the entry of an    *)
(* account, or a handler is about to close the row: end_call,               *)
(* reject_call, answer_call, onNoAnswer and endActiveCallForUser never      *)
(* leave a call "en cours" for life. A crash, and a ring that another call  *)
(* overwrote, are set apart, as in the property.                            *)
THEOREM HistorySettledInMemory ==
  ASSUME ~SharedStore, TwoAccounts PROVE Spec => []HistorySettled
<1>1. SettleInv => HistorySettled
  <2> SUFFICES ASSUME SettleInv, crashes = 0, NEW c \in announced \ excused,
                      hist[c].status = "initiated"
               PROVE  \/ \E u \in Users : Active(reg.entry[u]) /\ reg.entry[u].call = c
                      \/ \E s \in Slots : c \in {proc[s].c, proc[s].jc}
    BY DEF HistorySettled
  <2>1. RungIn(reg, c) \/ \E s \in Slots : Closes(proc[s], c)
    BY DEF SettleInv
  <2> QED BY <2>1 DEF RungIn, Active, Closes, Settled
<1>2. Init => Inv /\ PairInv /\ SettleInv
  BY InitInv, InitPair, InitSettles
<1>3. Inv /\ PairInv /\ SettleInv /\ [Next]_vars => (Inv /\ PairInv /\ SettleInv)'
  BY NextInv, NextPair, NextSettles
<1> QED BY <1>1, <1>2, <1>3, PTL DEF Spec
=============================================================================
