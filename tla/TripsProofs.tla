------------------------------ MODULE TripsProofs ------------------------------
(***************************************************************************)
(* Proofs about Trips, for any trips, circle, requests, workers and faults: *)
(* types, the deadline of an active trip, and the silence of a closed one.  *)
(***************************************************************************)
EXTENDS Trips, TLAPS

Arms    == {"arm", "arm_eta", "arm_max"}
Written == {"card", "push", "disarm"}

\* What an execution is at each point.
PointOK(p) ==
  LET x == run[p] IN
  /\ x.at = "idle" => x = Idle
  /\ x.at # "idle" => x.t \in Trips /\ x.op \in Ops
  /\ x.at \notin {"idle", "insert"} => trip[x.t] # "none"
  /\ x.at \in {"insert"} \union Arms => x.op \in {"create", "create_sos", "extend"}
  /\ x.op \in {"create", "extend"} => x.to = "active"
  /\ x.op = "create_sos" => x.to = "sos"
  /\ x.at = "insert" => x.op # "extend" /\ ~x.late
  /\ x.at = "extend" => x.op = "extend"
  /\ x.at = "arm_eta" => x.op # "create_sos"
  /\ x.at # "idle" => (x.op \in Kinds <=> p \in Workers)
  /\ x.at \in {"revoke", "unwatched"} => x.op = "revoke"
  /\ x.at \in {"check", "grace", "end"} => x.op \in Kinds
  /\ x.at = "disarm" => x.to \in Terminal
  /\ x.at \in {"avant", "write"} => x.to # "none" /\ (x.to = "active" => x.op = "extend")

\* An execution that has not been overtaken since it looked at its trip finds it as it was.
FreshOK(p) ==
  LET x == run[p] IN
  /\ x.at \in Unwritten /\ trip[x.t] \in Terminal => x.late
  /\ x.at \in Unwritten \ {"extend"} /\ x.op \in {"create", "create_sos", "extend"} /\ ~x.late =>
       trip[x.t] = x.to

\* What a closing leaves behind is closed, unless somebody wrote over it.
ClosedOK(p) == run[p].at \in Written /\ run[p].to \in Terminal =>
  trip[Of(p)] \in Terminal \/ Of(p) \in derailed

\* An execution that will arm the deadline of a trip, or is about to disarm and arm it.
Arming(t, points) == \E q \in Procs :
  Of(q) = t /\ run[q].op \in {"create", "extend"} /\ run[q].at \in points

\* The deadline of an active trip is in the queue or about to be; when its handler is done with the
\* trip, somebody is about to replace it.
PromiseOK(t) ==
  trip[t] = "active" /\ t \notin derailed =>
    /\ jobs[t]["eta_due"] # "none" \/ Arming(t, {"arm", "arm_eta"})
    /\ \A w \in Workers :
         jobs[t]["eta_due"] = w /\ run[w].at \in Written \union {"grace", "end"} => Arming(t, {"arm"})

Inv ==
  /\ TypeOK
  /\ \A p \in Procs : PointOK(p) /\ FreshOK(p) /\ ClosedOK(p)
  /\ \A t \in Trips : PromiseOK(t)

Ending == Written \union {"grace", "end"}

-----------------------------------------------------------------------------
(* Frames                                                                  *)

\* What every step leaves of the executions it does not move.
LEMMA OthersStay ==
  ASSUME Inv, NEW p \in Procs, NEW x \in Runs, run' = [run EXCEPT ![p] = x], trip' = trip,
         derailed \subseteq derailed', (PointOK(p) /\ FreshOK(p) /\ ClosedOK(p))'
  PROVE  /\ run' \in [Procs -> Runs] /\ run'[p] = x /\ \A q \in Procs : q # p => run'[q] = run[q]
         /\ \A q \in Procs : (PointOK(q) /\ FreshOK(q) /\ ClosedOK(q))'
<1>1. run \in [Procs -> Runs]
  BY DEF Inv, TypeOK
<1>2. run' \in [Procs -> Runs] /\ run'[p] = x /\ \A q \in Procs : q # p => run'[q] = run[q]
  BY <1>1
<1>3. ASSUME NEW q \in Procs, q # p PROVE (PointOK(q) /\ FreshOK(q) /\ ClosedOK(q))'
  <2>1. run'[q] = run[q] /\ PointOK(q) /\ FreshOK(q) /\ ClosedOK(q)
    BY <1>2, <1>3 DEF Inv
  <2> QED BY <2>1 DEF PointOK, FreshOK, ClosedOK, Of
<1> QED BY <1>2, <1>3

\* A step that does not arm keeps the promise, if it removes no deadline and does not end a handler.
LEMMA PromiseStays ==
  ASSUME Inv, NEW p \in Procs, trip' = trip, derailed \subseteq derailed', NEW t \in Trips,
         \A q \in Procs : q # p => run'[q] = run[q],
         run[p].at \notin {"arm", "arm_eta"} \/ run[p].op \notin {"create", "extend"} \/ Of(p) # t,
         jobs[t]["eta_due"] # "none" => jobs'[t]["eta_due"] # "none",
         \A w \in Workers : jobs'[t]["eta_due"] = w /\ run'[w].at \in Ending =>
                              jobs[t]["eta_due"] = w /\ run[w].at \in Ending
  PROVE  PromiseOK(t)'
<1> SUFFICES ASSUME trip'[t] = "active", t \notin derailed'
             PROVE  /\ jobs'[t]["eta_due"] # "none" \/ Arming(t, {"arm", "arm_eta"})'
                    /\ \A w \in Workers : jobs'[t]["eta_due"] = w /\ run'[w].at \in Ending =>
                         Arming(t, {"arm"})'
  BY DEF PromiseOK, Ending
<1>1. /\ jobs[t]["eta_due"] # "none" \/ Arming(t, {"arm", "arm_eta"})
      /\ \A w \in Workers : jobs[t]["eta_due"] = w /\ run[w].at \in Ending => Arming(t, {"arm"})
  BY DEF Inv, PromiseOK, Ending
<1>2. Arming(t, {"arm", "arm_eta"}) => Arming(t, {"arm", "arm_eta"})'
  BY DEF Arming, Of
<1>3. Arming(t, {"arm"}) => Arming(t, {"arm"})'
  BY DEF Arming, Of
<1> QED BY <1>1, <1>2, <1>3

\* The rest of the type, when no lock changes hands and an execution that keeps its lock its job.
LEMMA TypeStays ==
  ASSUME Inv, run' \in [Procs -> Runs], trip' = trip, jobs' = jobs,
         watchers' \in [Trips -> SUBSET Circle],
         \A t \in Trips : trip[t] = "none" => watchers'[t] = {},
         arrived' \subseteq Trips, faults' \in 0 .. MaxFaults,
         silent' \in [Trips -> Ops \union {"none"}], derailed' \subseteq Trips,
         \A w \in Workers : run'[w].op = run[w].op /\ run'[w].t = run[w].t
  PROVE  TypeOK'
  BY DEF Inv, TypeOK, Of

-----------------------------------------------------------------------------
(* One lemma per action or family of actions                               *)

\* A request that is received.
LEMMA Begins ==
  ASSUME Inv, NEW r \in Requests, NEW t \in Trips, Request(r, t) PROVE Inv'
<1>1. /\ r \in Procs /\ r \notin Workers /\ At(r, "idle") /\ run[r] = Idle
      /\ UNCHANGED <<trip, jobs, watchers, faults, derailed>>
  BY TripsAssumption DEF Request, Create, Ask, Position, AskRevoke, Free, At, Inv, PointOK, Procs, history
<1> DEFINE Received(x) ==
      /\ x.t = t /\ x \in Runs
      /\ \/ /\ x.at = "insert" /\ ~x.late
            /\ x.op \in {"create", "create_sos"} /\ x.to = IF x.op = "create" THEN "active" ELSE "sos"
         \/ /\ x.at \in {"extend", "avant"} /\ trip[t] \in Open
            /\ x.op \in {"confirm", "cancel", "sos", "extend", "position"}
            /\ (x.op = "extend" <=> x.at = "extend") /\ (x.op = "extend" <=> x.to = "active")
            /\ x.to # "none"
         \/ x.at = "revoke" /\ x.op = "revoke" /\ trip[t] \in Open
<1>2. PICK x : Start(r, x) /\ Received(x)
  <2> SUFFICES \E x : Start(r, x) /\ Received(x)
    OBVIOUS
  <2>1. CASE \E op \in {"create", "create_sos"} : Create(r, t, op)
    <3>1. PICK op \in {"create", "create_sos"} : Create(r, t, op)
      BY <2>1
    <3> DEFINE x == [at |-> "insert", op |-> op, t |-> t,
                     to |-> IF op = "create" THEN "active" ELSE "sos", late |-> FALSE]
    <3>2. Start(r, x)
      BY <3>1 DEF Create, Execution
    <3>3. Received(x)
      BY DEF Runs, Points, Ops, States, Open, Alert, Terminal
    <3> QED BY <3>2, <3>3
  <2>2. CASE \E op \in DOMAIN Goal : Ask(r, t, op)
    <3>1. PICK op \in {"confirm", "cancel", "sos", "extend"} : Ask(r, t, op)
      BY <2>2 DEF Goal
    <3> DEFINE x == [at |-> IF op = "extend" THEN "extend" ELSE "avant", op |-> op, t |-> t,
                     to |-> Goal[op], late |-> FALSE]
    <3>2. Start(r, x) /\ trip[t] \in Open
      BY <3>1 DEF Ask, Execution
    <3>3. Goal[op] \in States \ {"none"} /\ (op = "extend" <=> Goal[op] = "active")
      BY DEF Goal, States, Open, Alert, Terminal
    <3>4. Received(x)
      BY <3>2, <3>3 DEF Runs, Points, Ops
    <3> QED BY <3>2, <3>4
  <2>3. CASE Position(r, t)
    <3> DEFINE x == [at |-> "avant", op |-> "position", t |-> t, to |-> "awaiting_confirm", late |-> FALSE]
    <3>1. Start(r, x) /\ trip[t] \in Open
      BY <2>3 DEF Position, Execution, Open
    <3>2. Received(x)
      BY <3>1 DEF Runs, Points, Ops, States, Open
    <3> QED BY <3>1, <3>2
  <2>4. CASE AskRevoke(r, t)
    <3> DEFINE x == [at |-> "revoke", op |-> "revoke", t |-> t, to |-> "none", late |-> FALSE]
    <3>1. Start(r, x) /\ trip[t] \in Open
      BY <2>4 DEF AskRevoke, Execution
    <3>2. Received(x)
      BY <3>1 DEF Runs, Points, Ops, States
    <3> QED BY <3>1, <3>2
  <2> QED BY <2>1, <2>2, <2>3, <2>4 DEF Request
<1>3. run' = [run EXCEPT ![r] = x]
  BY <1>2 DEF Start
<1>4. run'[r] = x
  BY <1>1, <1>3 DEF Inv, TypeOK
<1>5. (PointOK(r) /\ FreshOK(r) /\ ClosedOK(r))'
  <2>1. PointOK(r)'
    <3>1. "none" \notin Open /\ x.op \in Ops
      BY <1>2 DEF Open, Alert, Ops
    <3> QED BY <1>1, <1>2, <1>4, <3>1 DEF PointOK, Arms, Kinds
  <2>2. FreshOK(r)' /\ ClosedOK(r)'
    BY <1>1, <1>2, <1>4 DEF FreshOK, ClosedOK, Unwritten, Written, Open, Terminal, Alert
  <2> QED BY <2>1, <2>2
<1>6. /\ run' \in [Procs -> Runs] /\ \A q \in Procs : q # r => run'[q] = run[q]
      /\ \A q \in Procs : (PointOK(q) /\ FreshOK(q) /\ ClosedOK(q))'
  BY <1>1, <1>2, <1>3, <1>5, OthersStay
<1>7. TypeOK'
  <2>1. \A w \in Workers : run'[w].op = run[w].op /\ run'[w].t = run[w].t
    BY <1>1, <1>6 DEF Procs
  <2>2. watchers' \in [Trips -> SUBSET Circle] /\ (\A u \in Trips : trip[u] = "none" => watchers'[u] = {})
        /\ faults' \in 0 .. MaxFaults /\ derailed' \subseteq Trips
    BY <1>1 DEF Inv, TypeOK
  <2>3. arrived' \subseteq Trips
    BY DEF Request, Create, Ask, Position, AskRevoke, Inv, TypeOK
  <2>4. silent' \in [Trips -> Ops \union {"none"}]
    BY DEF Request, Create, Ask, Position, AskRevoke, Inv, TypeOK, history
  <2> QED BY <1>1, <1>6, <2>1, <2>2, <2>3, <2>4, TypeStays
<1>8. ASSUME NEW u \in Trips PROVE PromiseOK(u)'
  <2>1. \A w \in Workers : run'[w] = run[w]
    BY <1>1, <1>6 DEF Procs
  <2>2. run[r].at \notin {"arm", "arm_eta"}
    BY <1>1 DEF Idle
  <2> QED BY <1>1, <1>6, <2>1, <2>2, PromiseStays
<1> QED BY <1>6, <1>7, <1>8 DEF Inv

\* The points an execution goes on to are points.
LEMMA Going ==
  ASSUME Inv, NEW p \in Procs, NEW pt \in Points
  PROVE  /\ [run[p] EXCEPT !.at = pt] \in Runs
         /\ [run[p] EXCEPT !.at = pt].at = pt /\ [run[p] EXCEPT !.at = pt].op = run[p].op
         /\ [run[p] EXCEPT !.at = pt].t = run[p].t /\ [run[p] EXCEPT !.at = pt].to = run[p].to
         /\ [run[p] EXCEPT !.at = pt].late = run[p].late
         /\ (run' = [run EXCEPT ![p].at = pt] => run' = [run EXCEPT ![p] = [run[p] EXCEPT !.at = pt]])
         /\ Idle \in Runs
<1>1. run[p] \in Runs
  BY DEF Inv, TypeOK
<1> QED BY <1>1 DEF Runs, Idle, Points, States

\* An execution that goes on, or that is over.
LEMMA Went ==
  ASSUME Inv, NEW p \in Procs, NEW pt \in Points, Goto(p, pt)
  PROVE  /\ \E x \in Runs : run' = [run EXCEPT ![p] = x]
         /\ run'[p].at = pt /\ run'[p].op = run[p].op /\ run'[p].t = run[p].t
         /\ run'[p].to = run[p].to /\ run'[p].late = run[p].late
         /\ \A q \in Procs : q # p => run'[q] = run[q]
<1> DEFINE x == [run[p] EXCEPT !.at = pt]
<1>1. /\ x \in Runs /\ run' = [run EXCEPT ![p] = x] /\ x.at = pt /\ x.op = run[p].op /\ x.t = run[p].t
      /\ x.to = run[p].to /\ x.late = run[p].late
  BY Going DEF Goto
<1>2. run \in [Procs -> Runs]
  BY DEF Inv, TypeOK
<1> HIDE DEF x
<1> QED BY <1>1, <1>2

\* An execution that is over, whatever it had left to do.
LEMMA Stopped ==
  ASSUME Inv, NEW p \in Procs, Start(p, Idle)
  PROVE  /\ \E x \in Runs : run' = [run EXCEPT ![p] = x]
         /\ run'[p] = Idle /\ \A q \in Procs : q # p => run'[q] = run[q]
<1>1. PICK x : x = Idle /\ x \in Runs
  BY Going DEF Points
<1>2. run' = [run EXCEPT ![p] = x] /\ run \in [Procs -> Runs]
  BY <1>1 DEF Start, Inv, TypeOK
<1>3. run'[p] = x /\ \A q \in Procs : q # p => run'[q] = run[q]
  BY <1>2
<1> QED BY <1>1, <1>2, <1>3

\* The transaction of a creation.
LEMMA InsertInv ==
  ASSUME Inv, NEW r \in Procs, Insert(r) PROVE Inv'
<1>0. PICK t : t = Of(r)
  OBVIOUS
<1>1. /\ PointOK(r) /\ At(r, "insert") /\ t \in Trips /\ run[r] \in Runs
      /\ run[r].op \in {"create", "create_sos"} /\ ~run[r].late
      /\ run[r].to = IF run[r].op = "create" THEN "active" ELSE "sos"
  BY <1>0 DEF Insert, Inv, PointOK, At, Of, TypeOK
<1>2. UNCHANGED <<jobs, arrived, faults, silent, derailed>>
  BY DEF Insert
<1>3. CASE trip[t] = "none"
  <2> DEFINE x == [run[r] EXCEPT !.at = "arm"]
  <2>1. /\ trip' = [trip EXCEPT ![t] = run[r].to] /\ watchers' = [watchers EXCEPT ![t] = Circle]
        /\ run' = [run EXCEPT ![r].at = "arm"]
    BY <1>0, <1>3 DEF Insert, Goto
  <2>2. /\ run' = [run EXCEPT ![r] = x] /\ x \in Runs /\ x.at = "arm" /\ x.op = run[r].op /\ x.t = t
        /\ x.to = run[r].to /\ x.late = run[r].late
    BY <1>0, <2>1, Going DEF Points, Of
  <2> HIDE DEF x
  <2>3. run \in [Procs -> Runs] /\ trip \in [Trips -> States] /\ watchers \in [Trips -> SUBSET Circle]
    BY DEF Inv, TypeOK
  <2>4. run' \in [Procs -> Runs] /\ run'[r] = x /\ \A q \in Procs : q # r => run'[q] = run[q]
    BY <2>2, <2>3
  <2>5. /\ trip' \in [Trips -> States] /\ trip'[t] = run[r].to /\ \A u \in Trips : u # t => trip'[u] = trip[u]
        /\ watchers' \in [Trips -> SUBSET Circle] /\ \A u \in Trips : u # t => watchers'[u] = watchers[u]
    BY <1>1, <2>1, <2>3 DEF Runs
  <2>7. TypeOK'
    <3>1. \A u \in Trips, k \in Kinds : jobs[u][k] \in Workers =>
            run'[jobs[u][k]].op = k /\ run'[jobs[u][k]].t = u
      BY <1>0, <2>2, <2>4 DEF Inv, TypeOK, Of, Procs
    <3>2. \A u \in Trips : trip'[u] = "none" => watchers'[u] = {} /\ \A k \in Kinds : jobs[u][k] = "none"
      BY <1>1, <2>5 DEF Inv, TypeOK
    <3> QED BY <1>2, <2>4, <2>5, <3>1, <3>2 DEF Inv, TypeOK, Of
  <2>8. ASSUME NEW q \in Procs PROVE (PointOK(q) /\ FreshOK(q) /\ ClosedOK(q))'
    <3>1. CASE q = r
      <4>1. PointOK(r)'
        <5>1. run'[r].at = "arm" /\ run'[r].op = run[r].op /\ run'[r].t = t /\ run'[r].to = run[r].to
          BY <2>2, <2>4
        <5>2. trip'[t] # "none"
          BY <1>1, <2>5
        <5>3. run[r].op \in Ops /\ run[r].op \notin Kinds /\ r \notin Workers
          BY <1>1 DEF PointOK, At, Ops, Kinds
        <5> QED BY <1>1, <5>1, <5>2, <5>3 DEF PointOK, Arms
      <4>2. FreshOK(r)'
        BY <1>1, <2>2, <2>4, <2>5 DEF FreshOK, Terminal
      <4>3. ClosedOK(r)'
        BY <2>2, <2>4 DEF ClosedOK, Written
      <4> QED BY <3>1, <4>1, <4>2, <4>3
    <3>2. CASE q # r
      <4>1. run'[q] = run[q] /\ PointOK(q) /\ FreshOK(q) /\ ClosedOK(q)
        BY <2>4, <3>2 DEF Inv
      <4>2. run[q].at # "idle" => run[q].t \in Trips
        BY <4>1 DEF PointOK
      <4>3. run[q].at \notin {"idle", "insert"} => trip'[run[q].t] = trip[run[q].t]
        BY <1>3, <2>5, <4>1, <4>2 DEF PointOK
      <4>4. PointOK(q)'
        BY <1>2, <4>1, <4>3 DEF PointOK
      <4>5. FreshOK(q)'
        BY <1>2, <4>1, <4>3 DEF FreshOK, Unwritten
      <4>6. ClosedOK(q)'
        BY <1>2, <4>1, <4>3 DEF ClosedOK, Of, Written
      <4> QED BY <4>4, <4>5, <4>6
    <3> QED BY <3>1, <3>2
  <2>9. ASSUME NEW u \in Trips PROVE PromiseOK(u)'
    <3>1. CASE u = t
      <4>1. \A k \in Kinds : jobs'[t][k] = "none"
        BY <1>1, <1>2, <1>3 DEF Inv, TypeOK
      <4>2. trip'[t] = "active" => Arming(t, {"arm", "arm_eta"})'
        BY <1>1, <2>2, <2>4, <2>5 DEF Arming, Of
      <4>3. "eta_due" \in Kinds /\ "none" \notin Workers
        BY TripsAssumption DEF Kinds
      <4> QED BY <3>1, <4>1, <4>2, <4>3 DEF PromiseOK
    <3>2. CASE u # t
      <4>1. trip'[u] = trip[u] /\ PromiseOK(u)
        BY <2>5, <3>2 DEF Inv
      <4>2. \A w \in Procs : run'[w].at \in Ending => run[w].at \in Ending
        BY <2>2, <2>4 DEF Ending, Written
      <4>3. Arming(u, {"arm", "arm_eta"}) => Arming(u, {"arm", "arm_eta"})'
        BY <1>0, <2>4, <3>2 DEF Arming, Of
      <4>4. Arming(u, {"arm"}) => Arming(u, {"arm"})'
        BY <1>0, <2>4, <3>2 DEF Arming, Of
      <4> QED BY <1>2, <4>1, <4>2, <4>3, <4>4 DEF PromiseOK, Ending, Procs
    <3> QED BY <3>1, <3>2
  <2> QED BY <2>7, <2>8, <2>9 DEF Inv
<1>4. CASE trip[t] # "none"
  <2>1. run' = [run EXCEPT ![r] = Idle] /\ UNCHANGED <<trip, watchers>>
    BY <1>0, <1>4 DEF Insert, Start
  <2>2. run'[r] = Idle /\ Idle \in Runs
    BY <2>1, Going DEF Inv, TypeOK, Points
  <2>3. (PointOK(r) /\ FreshOK(r) /\ ClosedOK(r))'
    BY <2>2 DEF PointOK, FreshOK, ClosedOK, Idle, Unwritten, Written, Arms
  <2>4. /\ run' \in [Procs -> Runs] /\ \A q \in Procs : q # r => run'[q] = run[q]
        /\ \A q \in Procs : (PointOK(q) /\ FreshOK(q) /\ ClosedOK(q))'
    BY <1>2, <2>1, <2>2, <2>3, OthersStay
  <2>5. \A u \in Trips, k \in Kinds : jobs[u][k] # r \/ r \notin Workers
    BY <1>1 DEF Inv, TypeOK, Kinds
  <2>6. TypeOK'
    BY <1>2, <2>1, <2>4, <2>5 DEF Inv, TypeOK, Of, Procs
  <2>7. ASSUME NEW u \in Trips PROVE PromiseOK(u)'
    <3>1. \A w \in Workers : run'[w].at \in Ending => run[w].at \in Ending
      BY <2>2, <2>4 DEF Idle, Ending, Written, Procs
    <3>2. run[r].at \notin {"arm", "arm_eta"}
      BY <1>1 DEF At
    <3> QED BY <1>2, <2>1, <2>4, <3>1, <3>2, PromiseStays
  <2> QED BY <2>4, <2>6, <2>7 DEF Inv
<1> QED BY <1>3, <1>4

\* A step between two writes: the execution goes on, or the request is over.
LEMMA QuietStep ==
  ASSUME Inv, NEW p \in Procs, Avant(p) \/ Card(p) \/ Push(p) \/ Revoke(p) \/ Check(p) PROVE Inv'
<1> DEFINE y == run[p]
<1>1. /\ PointOK(p) /\ FreshOK(p) /\ ClosedOK(p) /\ y \in Runs /\ run \in [Procs -> Runs]
      /\ UNCHANGED <<trip, jobs, derailed, silent, arrived, faults>>
  BY DEF Inv, Avant, Card, Push, Revoke, Check, history, TypeOK
<1>2. ASSUME \E x \in Runs : run' = [run EXCEPT ![p] = x],
             \/ run'[p] = Idle /\ (p \notin Workers \/ y.op = "revoke")
             \/ run'[p].op = y.op /\ run'[p].t = y.t,
             (PointOK(p) /\ FreshOK(p) /\ ClosedOK(p))',
             run'[p].at \in Ending =>
               y.at \in Ending \/ (y.t \in Trips /\ trip[y.t] # "active") \/ y.op # "eta_due",
             y.at \notin {"arm", "arm_eta"}
      PROVE  Inv'
  <2>0. PICK x \in Runs : run' = [run EXCEPT ![p] = x]
    BY <1>2
  <2>1. /\ run' \in [Procs -> Runs] /\ run'[p] = x /\ \A q \in Procs : q # p => run'[q] = run[q]
        /\ \A q \in Procs : (PointOK(q) /\ FreshOK(q) /\ ClosedOK(q))'
    BY <1>1, <1>2, <2>0, OthersStay
  <2>2. watchers' \in [Trips -> SUBSET Circle] /\ \A u \in Trips : trip[u] = "none" => watchers'[u] = {}
    <3>1. CASE Revoke(p)
      <4>1. watchers' = watchers \/ \E g \in Circle : watchers' = [watchers EXCEPT ![Of(p)] = @ \ {g}]
        BY <3>1 DEF Revoke
      <4>2. watchers \in [Trips -> SUBSET Circle]
        BY DEF Inv, TypeOK
      <4>3. watchers' \in [Trips -> SUBSET Circle] /\ \A u \in Trips : watchers'[u] \subseteq watchers[u]
        BY <4>1, <4>2
      <4> QED BY <4>3 DEF Inv, TypeOK
    <3>2. CASE UNCHANGED watchers
      BY <3>2 DEF Inv, TypeOK
    <3> QED BY <3>1, <3>2 DEF Avant, Card, Push, Check
  <2>3. \A u \in Trips, k \in Kinds : jobs[u][k] \in Workers =>
          run'[jobs[u][k]].op = k /\ run'[jobs[u][k]].t = u
    <3> TAKE u \in Trips, k \in Kinds
    <3>1. jobs[u][k] \in Workers => run[jobs[u][k]].op = k /\ run[jobs[u][k]].t = u /\ jobs[u][k] \in Procs
      BY DEF Inv, TypeOK, Of, Procs
    <3>2. k # "revoke"
      BY DEF Kinds
    <3> QED BY <1>2, <2>1, <3>1, <3>2
  <2>4. TypeOK'
    BY <1>1, <2>1, <2>2, <2>3 DEF Inv, TypeOK, Of
  <2>5. ASSUME NEW u \in Trips PROVE PromiseOK(u)'
    <3>1. CASE trip[u] # "active"
      BY <1>1, <3>1 DEF PromiseOK
    <3>2. CASE trip[u] = "active"
      <4>1. \A w \in Workers : jobs'[u]["eta_due"] = w /\ run'[w].at \in Ending =>
                                 jobs[u]["eta_due"] = w /\ run[w].at \in Ending
        <5> SUFFICES ASSUME NEW w \in Workers, jobs[u]["eta_due"] = w, run'[w].at \in Ending
                     PROVE  run[w].at \in Ending
          BY <1>1
        <5>1. w \in Procs /\ run[w].op = "eta_due" /\ run[w].t = u
          BY DEF Inv, TypeOK, Of, Procs, Kinds
        <5> QED BY <1>2, <2>1, <3>2, <5>1
      <4> QED BY <1>1, <1>2, <2>1, <4>1, PromiseStays
    <3> QED BY <3>1, <3>2
  <2> QED BY <2>1, <2>4, <2>5 DEF Inv
<1> DEFINE Onward(pt) ==
      /\ \/ y.at \in Unwritten \ {"extend"} /\ pt \in Unwritten \ {"extend"}
         \/ y.at \in Written /\ pt \in Written
         \/ pt \in {"grace", "end"}
      /\ pt \in Points \ Arms
      /\ y.at \in {"avant", "write"} \/ pt \notin {"avant", "write"}
      /\ y.at \notin {"idle", "insert"} \union Arms
      /\ pt \in {"grace", "end"} => y.op \in Kinds
      /\ pt = "disarm" => y.to \in Terminal
      /\ pt \in Ending => y.at \in Ending \/ (y.t \in Trips /\ trip[y.t] # "active") \/ y.op # "eta_due"
<1>3. ASSUME NEW pt, run' = [run EXCEPT ![p].at = pt], Onward(pt)
      PROVE  Inv'
  <2> DEFINE x == [y EXCEPT !.at = pt]
  <2>1. /\ x \in Runs /\ run' = [run EXCEPT ![p] = x] /\ x.at = pt /\ x.op = y.op /\ x.t = y.t
        /\ x.to = y.to /\ x.late = y.late
    BY <1>3, Going
  <2> HIDE DEF x
  <2>2. run'[p] = x
    BY <1>1, <2>1
  <2>3. (PointOK(p) /\ FreshOK(p) /\ ClosedOK(p))'
    BY <1>1, <1>3, <2>1, <2>2 DEF PointOK, FreshOK, ClosedOK, Unwritten, Written, Arms, Of
  <2> QED BY <1>2, <1>3, <2>1, <2>2, <2>3 DEF Arms
<1>4. ASSUME run' = [run EXCEPT ![p] = Idle], p \notin Workers \/ y.op = "revoke", y.at \notin {"arm", "arm_eta"}
      PROVE  Inv'
  <2>0. PICK x : x = Idle
    OBVIOUS
  <2>1. x \in Runs /\ run' = [run EXCEPT ![p] = x] /\ run'[p] = x /\ x.at \notin Ending
    BY <1>1, <1>4, <2>0, Going DEF Points, Idle, Ending, Written
  <2>2. (PointOK(p) /\ FreshOK(p) /\ ClosedOK(p))'
    BY <2>0, <2>1 DEF PointOK, FreshOK, ClosedOK, Idle, Unwritten, Written, Arms
  <2>3. x = Idle /\ (p \notin Workers \/ y.op = "revoke") /\ y.at \notin {"arm", "arm_eta"}
    BY <1>4, <2>0
  <2> QED BY <1>2, <2>1, <2>2, <2>3
<1>5. CASE Avant(p)
  <2>0. PICK pt : pt = "write"
    OBVIOUS
  <2>1. y.at = "avant" /\ run' = [run EXCEPT ![p].at = pt]
    BY <1>5, <2>0 DEF Avant, At, Goto
  <2>2. pt \in Points /\ pt \notin Ending \union Arms /\ pt \in Unwritten \ {"extend"}
    BY <2>0 DEF Points, Ending, Written, Arms, Unwritten
  <2>3. "avant" \in Unwritten \ {"extend"} /\ "avant" \notin {"idle", "insert"} \union Arms
    BY DEF Unwritten, Arms
  <2>4. Onward(pt)
    BY <2>0, <2>1, <2>2, <2>3
  <2> HIDE DEF Onward, y
  <2> QED BY <1>3, <2>1, <2>4
<1>6. CASE Card(p)
  <2>0. PICK pt : pt = "push"
    OBVIOUS
  <2>1. y.at = "card" /\ run' = [run EXCEPT ![p].at = pt]
    BY <1>6, <2>0 DEF Card, At, Goto
  <2>2. pt \in Points /\ pt \notin Arms \union {"avant", "write"} /\ {"card", pt} \subseteq Written
    BY <2>0 DEF Points, Arms, Written
  <2>3. "card" \in Ending /\ "card" \notin {"idle", "insert"} \union Arms
    BY DEF Ending, Written, Arms
  <2>4. Onward(pt)
    BY <2>0, <2>1, <2>2, <2>3
  <2> HIDE DEF Onward, y
  <2> QED BY <1>3, <2>1, <2>4
<1>7. CASE Push(p)
  <2>1. y.at = "push"
    BY <1>7 DEF Push, At
  <2>2. ASSUME NEW pt \in {"disarm", "grace", "end"}, Goto(p, pt),
               pt = "disarm" => y.to \in Terminal, pt # "disarm" => y.op \in Kinds
        PROVE  Inv'
    <3>1. run' = [run EXCEPT ![p].at = pt] /\ y.at \in Ending
      BY <2>1, <2>2 DEF Goto, Ending, Written
    <3>2. Onward(pt)
      <4>1. pt \in Points \ Arms /\ pt \notin {"avant", "write"}
        BY <2>2 DEF Points, Arms
      <4>2. y.at \in Written /\ y.at \notin {"idle", "insert"} \union Arms
        BY <2>1 DEF Written, Arms
      <4>3. pt \in Written \/ pt \in {"grace", "end"}
        BY <2>2 DEF Written
      <4>4. pt = "disarm" => y.to \in Terminal
        BY <2>2
      <4>5. pt \in {"grace", "end"} => y.op \in Kinds
        BY <2>2
      <4> QED BY <3>1, <4>1, <4>2, <4>3, <4>4, <4>5
    <3> HIDE DEF Onward, y
    <3> QED BY <1>3, <3>1, <3>2
  <2>3. CASE Start(p, Idle) /\ p \notin Workers
    BY <1>4, <2>1, <2>3 DEF Start
  <2>4. p \in Workers <=> y.op \in Kinds
    BY <1>1, <2>1 DEF PointOK
  <2>5. CASE y.to \in Terminal
    <3>1. Goto(p, "disarm")
      BY <1>7, <2>5 DEF Push
    <3> QED BY <2>2, <2>5, <3>1
  <2>6. CASE y.to \notin Terminal /\ y.op = "eta_due"
    <3>1. Goto(p, "grace") /\ y.op \in Kinds
      BY <1>7, <2>6 DEF Push, Kinds
    <3> QED BY <2>2, <3>1
  <2>7. CASE y.to \notin Terminal /\ y.op # "eta_due"
    <3>1. Leave(p)
      BY <1>7, <2>7 DEF Push
    <3>2. CASE p \in Workers
      <4>1. Goto(p, "end")
        BY <3>1, <3>2 DEF Leave
      <4> QED BY <2>2, <2>4, <3>2, <4>1
    <3>3. CASE p \notin Workers
      BY <2>3, <3>1, <3>3 DEF Leave
    <3> QED BY <3>2, <3>3
  <2> QED BY <2>5, <2>6, <2>7
<1>8. CASE Revoke(p)
  <2>1. y.at = "revoke" /\ y.op = "revoke"
    BY <1>1, <1>8 DEF Revoke, At, PointOK
  <2>2. CASE Goto(p, "unwatched")
    <3> DEFINE x == [y EXCEPT !.at = "unwatched"]
    <3>1. /\ x \in Runs /\ run' = [run EXCEPT ![p] = x] /\ x.at = "unwatched" /\ x.op = y.op /\ x.t = y.t
          /\ x.to = y.to /\ x.late = y.late
      BY <2>2, Going DEF Points, Goto
    <3> HIDE DEF x
    <3>2. run'[p] = x
      BY <1>1, <3>1
    <3>3. (PointOK(p) /\ FreshOK(p) /\ ClosedOK(p))'
      BY <1>1, <2>1, <3>1, <3>2 DEF PointOK, FreshOK, ClosedOK, Unwritten, Written, Arms
    <3>4. x.at \notin Ending
      BY <3>1 DEF Ending, Written
    <3> QED BY <1>2, <2>1, <3>1, <3>2, <3>3, <3>4
  <2>3. CASE Start(p, Idle)
    BY <1>4, <2>1, <2>3 DEF Start
  <2> QED BY <1>8, <2>2, <2>3 DEF Revoke
<1>9. CASE Check(p)
  <2>1. y.at = "check" /\ y.op \in Kinds /\ y.t \in Trips
    BY <1>1, <1>9 DEF Check, At, PointOK
  <2>2. CASE Vivant(y.op, y.t)
    <3> DEFINE x == [y EXCEPT !.at = "avant", !.to = Outcome(y.op, trip[y.t])]
    <3>1. trip[y.t] \in Open /\ Outcome(y.op, trip[y.t]) \in States \ {"none", "active"}
      BY <2>1, <2>2 DEF Vivant, Outcome, Kinds, Open, Alert, States, Terminal
    <3>2. /\ x \in Runs /\ run' = [run EXCEPT ![p] = x] /\ x.at = "avant" /\ x.op = y.op /\ x.t = y.t
          /\ x.to \in States \ {"none", "active"} /\ x.late = y.late
      <4>1. run' = [run EXCEPT ![p].at = "avant", ![p].to = Outcome(y.op, trip[y.t])]
        BY <1>9, <2>2 DEF Check, Of
      <4> QED BY <1>1, <3>1, <4>1 DEF Runs, Points
    <3> HIDE DEF x
    <3>3. run'[p] = x
      BY <1>1, <3>2
    <3>4. (PointOK(p) /\ FreshOK(p) /\ ClosedOK(p))'
      BY <1>1, <2>1, <3>1, <3>2, <3>3
      DEF PointOK, FreshOK, ClosedOK, Unwritten, Written, Arms, Kinds, Open, Terminal, Alert
    <3>5. x.at \notin Ending
      BY <3>2 DEF Ending, Written
    <3> QED BY <1>2, <2>1, <3>2, <3>3, <3>4, <3>5
  <2>3. CASE ~Vivant(y.op, y.t)
    <3>1. trip[y.t] # "active" \/ y.op # "eta_due"
      BY <2>3 DEF Vivant
    <3>0. PICK pt : pt = "end"
      OBVIOUS
    <3>2. run' = [run EXCEPT ![p].at = pt]
      BY <1>9, <2>3, <3>0 DEF Check, Goto, Of
    <3>3. pt \in Points \ Arms /\ pt \notin {"avant", "write", "disarm"} /\ pt = "end"
      BY <3>0 DEF Points, Arms
    <3>4. y.at \notin {"idle", "insert"} \union Arms
      BY <2>1 DEF Arms
    <3>5. Onward(pt)
      BY <2>1, <3>1, <3>3, <3>4
    <3> HIDE DEF Onward, y
    <3> QED BY <1>3, <3>2, <3>5
  <2> QED BY <2>2, <2>3
<1> QED BY <1>5, <1>6, <1>7, <1>8, <1>9

\* enqueue adds one row, or finds one.
LEMMA Enqueued ==
  ASSUME Inv, NEW t \in Trips, NEW k \in Kinds, Enqueue(t, k)
  PROVE  /\ jobs' \in [Trips -> [Kinds -> {"none", "free"} \union Workers]]
         /\ jobs'[t][k] # "none"
         /\ \A u \in Trips, l \in Kinds :
              jobs'[u][l] = jobs[u][l] \/ (u = t /\ l = k /\ jobs[u][l] = "none" /\ jobs'[u][l] = "free")
<1>1. jobs \in [Trips -> [Kinds -> {"none", "free"} \union Workers]]
  BY DEF Inv, TypeOK
<1>2. CASE jobs[t][k] = "none"
  <2>1. jobs' = [jobs EXCEPT ![t] = [jobs[t] EXCEPT ![k] = "free"]]
    BY <1>1, <1>2 DEF Enqueue
  <2>2. [jobs[t] EXCEPT ![k] = "free"] \in [Kinds -> {"none", "free"} \union Workers]
    BY <1>1
  <2> QED BY <1>1, <1>2, <2>1, <2>2
<1>3. CASE jobs[t][k] # "none"
  BY <1>1, <1>3 DEF Enqueue
<1> QED BY <1>2, <1>3

\* disarm removes the rows of one trip.
LEMMA Disarmed ==
  ASSUME Inv, NEW t \in Trips, Disarm(t)
  PROVE  /\ jobs' \in [Trips -> [Kinds -> {"none", "free"} \union Workers]]
         /\ \A k \in Kinds : jobs'[t][k] = "none"
         /\ \A u \in Trips : u # t => jobs'[u] = jobs[u]
<1>1. jobs \in [Trips -> [Kinds -> {"none", "free"} \union Workers]]
  BY DEF Inv, TypeOK
<1> QED BY <1>1 DEF Disarm

\* The parts of the invariant, after a step that leaves the trip as it is.
LEMMA Steps ==
  ASSUME Inv, NEW p \in Procs, \E x \in Runs : run' = [run EXCEPT ![p] = x],
         UNCHANGED <<trip, watchers, arrived, silent>>, derailed \subseteq derailed', derailed' \subseteq Trips,
         faults' \in 0 .. MaxFaults, (PointOK(p) /\ FreshOK(p) /\ ClosedOK(p))',
         jobs' \in [Trips -> [Kinds -> {"none", "free"} \union Workers]],
         \A u \in Trips, k \in Kinds :
           /\ jobs'[u][k] = jobs[u][k] \/ jobs'[u][k] \notin Workers \/ jobs'[u][k] = p
           /\ trip[u] = "none" => jobs'[u][k] = "none"
           /\ jobs'[u][k] = p /\ p \in Workers => run'[p].op = k /\ run'[p].t = u,
         \A u \in Trips : PromiseOK(u)'
  PROVE  Inv'
<1>0. PICK x \in Runs : run' = [run EXCEPT ![p] = x]
  OBVIOUS
<1>1. /\ run' \in [Procs -> Runs] /\ \A q \in Procs : q # p => run'[q] = run[q]
      /\ \A q \in Procs : (PointOK(q) /\ FreshOK(q) /\ ClosedOK(q))'
  BY <1>0, OthersStay
<1>2. \A u \in Trips, k \in Kinds : jobs'[u][k] \in Workers =>
        run'[jobs'[u][k]].op = k /\ run'[jobs'[u][k]].t = u
  BY <1>1 DEF Inv, TypeOK, Of, Procs
<1>3. \A u \in Trips : trip[u] = "none" => watchers[u] = {}
  BY DEF Inv, TypeOK
<1>4. TypeOK'
  BY <1>1, <1>2, <1>3 DEF Inv, TypeOK, Of
<1> QED BY <1>1, <1>4 DEF Inv

\* A lock is held by the execution that took it.
LEMMA Locks ==
  ASSUME Inv, NEW u \in Trips, NEW k \in Kinds, jobs[u][k] \in Workers
  PROVE  run[jobs[u][k]].op = k /\ run[jobs[u][k]].t = u /\ jobs[u][k] \in Procs
  BY DEF Inv, TypeOK, Of, Procs

\* arm, its first step: what it removes it is about to put back.
LEMMA ArmFirstInv ==
  ASSUME Inv, NEW p \in Procs, ArmFirst(p) PROVE Inv'
<1>0. PICK t, y : t = Of(p) /\ y = run[p]
  OBVIOUS
<1>1. /\ PointOK(p) /\ FreshOK(p) /\ y.at = "arm" /\ t = y.t /\ t \in Trips /\ y \in Runs
      /\ y.op \in {"create", "create_sos", "extend"} /\ trip[t] # "none" /\ p \notin Workers
  BY <1>0 DEF ArmFirst, Inv, PointOK, At, Of, TypeOK, Arms, Kinds
<1>2. /\ UNCHANGED <<trip, watchers, arrived, silent, faults>> /\ Disarm(t)
      /\ derailed' = IF y.late THEN derailed \union {t} ELSE derailed
  BY <1>0 DEF ArmFirst, Race
<1>3. PICK pt \in {"arm_eta", "arm_max"} : Goto(p, pt) /\ (pt = "arm_max" <=> y.op = "create_sos")
  BY <1>0 DEF ArmFirst
<1>4. /\ jobs' \in [Trips -> [Kinds -> {"none", "free"} \union Workers]]
      /\ \A k \in Kinds : jobs'[t][k] = "none"
      /\ \A u \in Trips : u # t => jobs'[u] = jobs[u]
  BY <1>1, <1>2, Disarmed
<1>5. /\ \E x \in Runs : run' = [run EXCEPT ![p] = x]
      /\ run'[p].at = pt /\ run'[p].op = y.op /\ run'[p].t = t /\ run'[p].to = y.to /\ run'[p].late = y.late
      /\ \A q \in Procs : q # p => run'[q] = run[q]
  BY <1>0, <1>1, <1>3, Went DEF Points
<1>6. (PointOK(p) /\ FreshOK(p) /\ ClosedOK(p))'
  BY <1>0, <1>1, <1>2, <1>3, <1>5 DEF PointOK, FreshOK, ClosedOK, Unwritten, Written, Arms
<1>7. ASSUME NEW u \in Trips PROVE PromiseOK(u)'
  <2>1. CASE u # t
    <3>1. \A w \in Workers : run'[w] = run[w]
      BY <1>1, <1>5 DEF Procs
    <3> QED BY <1>0, <1>2, <1>4, <1>5, <2>1, <3>1, PromiseStays
  <2>2. CASE u = t
    <3>1. jobs'[t]["eta_due"] \notin Workers
      BY <1>4, TripsAssumption DEF Kinds
    <3>2. trip'[t] = "active" /\ t \notin derailed' => y.op # "create_sos"
      BY <1>0, <1>1, <1>2 DEF FreshOK, PointOK, Unwritten
    <3>3. y.op # "create_sos" => Arming(t, {"arm", "arm_eta"})'
      BY <1>1, <1>3, <1>5 DEF Arming, Of
    <3> QED BY <2>2, <3>1, <3>2, <3>3 DEF PromiseOK
  <2> QED BY <2>1, <2>2
<1>8. /\ \A u \in Trips, k \in Kinds :
           /\ jobs'[u][k] = jobs[u][k] \/ jobs'[u][k] \notin Workers \/ jobs'[u][k] = p
           /\ trip[u] = "none" => jobs'[u][k] = "none"
      /\ derailed' \subseteq Trips /\ faults' \in 0 .. MaxFaults /\ derailed \subseteq derailed'
  <2>1. /\ \A u \in Trips : trip[u] = "none" => \A k \in Kinds : jobs[u][k] = "none"
        /\ derailed \subseteq Trips /\ faults \in 0 .. MaxFaults
    BY DEF Inv, TypeOK
  <2>2. "none" \notin Workers
    BY TripsAssumption
  <2> QED BY <1>1, <1>2, <1>4, <2>1, <2>2
<1> QED BY <1>1, <1>2, <1>4, <1>5, <1>6, <1>7, <1>8, Steps

\* A row is enqueued and the execution goes on, or the request is over.
LEMMA EnqueueInv ==
  ASSUME Inv, NEW p \in Procs, ArmEta(p) \/ ArmMax(p) \/ Unwatched(p) \/ Grace(p) PROVE Inv'
<1>0. PICK t, y : t = Of(p) /\ y = run[p]
  OBVIOUS
<1>1. /\ PointOK(p) /\ FreshOK(p) /\ ClosedOK(p) /\ y \in Runs /\ t = y.t /\ t \in Trips /\ trip[t] # "none"
      /\ y.at \in {"arm_eta", "arm_max", "unwatched", "grace"}
  BY <1>0 DEF ArmEta, ArmMax, Unwatched, Grace, Inv, PointOK, At, Of, TypeOK
<1>2. UNCHANGED <<trip, watchers, arrived, silent, faults, derailed>>
  BY DEF ArmEta, ArmMax, Unwatched, Grace, history
<1>3. /\ jobs' \in [Trips -> [Kinds -> {"none", "free"} \union Workers]]
      /\ \A u \in Trips, l \in Kinds :
           jobs'[u][l] = jobs[u][l] \/ (u = t /\ jobs[u][l] = "none" /\ jobs'[u][l] = "free")
      /\ y.at = "arm_eta" => jobs'[t]["eta_due"] # "none"
  <2>1. \/ \E k \in Kinds : Enqueue(t, k) /\ (y.at = "arm_eta" => k = "eta_due")
        \/ jobs' = jobs /\ y.at # "arm_eta"
    BY <1>0 DEF ArmEta, ArmMax, Unwatched, Grace, Kinds, At
  <2> QED BY <1>1, <2>1, Enqueued DEF Inv, TypeOK
<1>4. /\ \E x \in Runs : run' = [run EXCEPT ![p] = x]
      /\ \A q \in Procs : q # p => run'[q] = run[q]
      /\ \/ run'[p] = Idle /\ p \notin Workers
         \/ /\ run'[p].op = y.op /\ run'[p].t = t /\ run'[p].to = y.to /\ run'[p].late = y.late
            /\ \/ y.at = "arm_eta" /\ run'[p].at = "arm_max"
               \/ y.at = "arm_max" /\ run'[p].at = "avant" /\ y.op = "extend"
               \/ y.at = "arm_max" /\ run'[p].at = "push" /\ y.op = "create_sos"
               \/ y.at = "grace" /\ run'[p].at = "end"
  <2> USE <1>0, <1>1 DEF At, Points
  <2>1. CASE ArmEta(p)
    BY <2>1, Went DEF ArmEta
  <2>2. CASE ArmMax(p) /\ y.op = "extend"
    BY <2>2, Went DEF ArmMax
  <2>3. CASE ArmMax(p) /\ y.op = "create_sos"
    BY <2>3, Went DEF ArmMax
  <2>4. CASE ArmMax(p) /\ y.op \notin {"extend", "create_sos"}
    <3>1. Start(p, Idle) /\ p \notin Workers
      BY <2>4 DEF ArmMax, PointOK, Arms, Kinds
    <3> QED BY <3>1, Stopped
  <2>5. CASE Unwatched(p)
    <3>1. Start(p, Idle) /\ p \notin Workers
      BY <2>5 DEF Unwatched, PointOK, Kinds
    <3> QED BY <3>1, Stopped
  <2>6. CASE Grace(p)
    BY <2>6, Went DEF Grace
  <2> QED BY <2>1, <2>2, <2>3, <2>4, <2>5, <2>6
<1>6. (PointOK(p) /\ FreshOK(p) /\ ClosedOK(p))'
  <2>1. CASE run'[p] = Idle
    BY <2>1 DEF PointOK, FreshOK, ClosedOK, Unwritten, Written, Arms, Idle
  <2>2. CASE run'[p] # Idle
    BY <1>0, <1>1, <1>2, <1>4, <2>2
    DEF PointOK, FreshOK, ClosedOK, Unwritten, Written, Arms, Terminal, Kinds
  <2> QED BY <2>1, <2>2
<1>7. p \in Workers /\ run'[p].at \in Ending => y.at \in Ending \/ y.op # "eta_due"
  BY <1>4 DEF Ending, Written, Idle
<1>8. ASSUME NEW u \in Trips PROVE PromiseOK(u)'
  <2>1. \A w \in Workers : jobs'[u]["eta_due"] = w /\ run'[w].at \in Ending =>
                             jobs[u]["eta_due"] = w /\ run[w].at \in Ending
    <3> SUFFICES ASSUME NEW w \in Workers, jobs'[u]["eta_due"] = w, run'[w].at \in Ending
                 PROVE  jobs[u]["eta_due"] = w /\ run[w].at \in Ending
      OBVIOUS
    <3>1. jobs[u]["eta_due"] = w
      BY <1>3, TripsAssumption DEF Kinds
    <3>2. run[w].op = "eta_due" /\ w \in Procs
      BY <3>1, Locks DEF Kinds
    <3> QED BY <1>0, <1>4, <1>7, <3>1, <3>2
  <2>2. CASE y.at # "arm_eta" \/ u # t
    <3>1. jobs[u]["eta_due"] # "none" => jobs'[u]["eta_due"] # "none"
      BY <1>3 DEF Kinds
    <3>2. y.at \notin {"arm", "arm_eta"} \/ Of(p) # u
      BY <1>0, <1>1, <2>2
    <3> QED BY <1>0, <1>2, <1>4, <2>1, <3>1, <3>2, PromiseStays
  <2>3. CASE y.at = "arm_eta" /\ u = t
    <3>1. jobs'[u]["eta_due"] # "none"
      BY <1>3, <2>3
    <3>2. Arming(u, {"arm"}) => Arming(u, {"arm"})'
      BY <1>0, <1>4, <2>3 DEF Arming, Of
    <3>3. PromiseOK(u)
      BY DEF Inv
    <3> QED BY <1>2, <2>1, <3>1, <3>2, <3>3 DEF PromiseOK, Ending
  <2> QED BY <2>2, <2>3
<1>9. /\ \A u \in Trips, k \in Kinds :
           /\ jobs'[u][k] = jobs[u][k] \/ jobs'[u][k] \notin Workers \/ jobs'[u][k] = p
           /\ trip[u] = "none" => jobs'[u][k] = "none"
           /\ jobs'[u][k] = p /\ p \in Workers => run'[p].op = k /\ run'[p].t = u
      /\ derailed' \subseteq Trips /\ faults' \in 0 .. MaxFaults
  <2>1. \A u \in Trips, k \in Kinds : jobs'[u][k] \in Workers => jobs'[u][k] = jobs[u][k]
    BY <1>3, TripsAssumption
  <2>2. \A u \in Trips, k \in Kinds : jobs[u][k] = p /\ p \in Workers => y.op = k /\ y.t = u
    BY <1>0, Locks
  <2> QED BY <1>0, <1>1, <1>2, <1>3, <1>4, <2>1, <2>2 DEF Inv, TypeOK
<1> QED BY <1>2, <1>3, <1>4, <1>6, <1>8, <1>9, Steps

\* disarm, at the end of a closing.
LEMMA DisarmAllInv ==
  ASSUME Inv, NEW p \in Procs, DisarmAll(p) PROVE Inv'
<1>0. PICK t, y : t = Of(p) /\ y = run[p]
  OBVIOUS
<1>1. /\ PointOK(p) /\ ClosedOK(p) /\ y.at = "disarm" /\ y \in Runs /\ t = y.t /\ t \in Trips /\ trip[t] # "none"
      /\ y.to \in Terminal /\ (trip[t] \in Terminal \/ t \in derailed)
  BY <1>0 DEF DisarmAll, Inv, PointOK, ClosedOK, At, Of, TypeOK, Written
<1>2. UNCHANGED <<trip, watchers, arrived, silent, faults, derailed>> /\ Disarm(t)
  BY <1>0 DEF DisarmAll, history
<1>3. /\ jobs' \in [Trips -> [Kinds -> {"none", "free"} \union Workers]]
      /\ \A k \in Kinds : jobs'[t][k] = "none"
      /\ \A u \in Trips : u # t => jobs'[u] = jobs[u]
  BY <1>1, <1>2, Disarmed
<1>4. /\ \E x \in Runs : run' = [run EXCEPT ![p] = x]
      /\ \A q \in Procs : q # p => run'[q] = run[q]
      /\ \/ run'[p] = Idle
         \/ p \in Workers /\ run'[p].at = "end" /\ run'[p].op = y.op /\ run'[p].t = t /\ run'[p].to = y.to
  <2>1. CASE p \in Workers
    <3>1. Goto(p, "end") /\ "end" \in Points
      BY <2>1 DEF DisarmAll, Leave, Points
    <3> QED BY <1>0, <1>1, <2>1, <3>1, Went
  <2>2. CASE p \notin Workers
    <3>1. Start(p, Idle)
      BY <2>2 DEF DisarmAll, Leave
    <3> QED BY <3>1, Stopped
  <2> QED BY <2>1, <2>2
<1>5. (PointOK(p) /\ FreshOK(p) /\ ClosedOK(p))'
  <2>1. CASE run'[p] = Idle
    BY <2>1 DEF PointOK, FreshOK, ClosedOK, Unwritten, Written, Arms, Idle
  <2>2. CASE run'[p] # Idle
    <3>1. p \in Workers /\ run'[p].at = "end" /\ run'[p].op = y.op /\ run'[p].t = t /\ run'[p].to = y.to
      BY <1>4, <2>2
    <3>2. y.op \in Kinds /\ y.op \in Ops
      BY <1>0, <1>1, <3>1 DEF PointOK
    <3>3. PointOK(p)'
      BY <1>1, <1>2, <3>1, <3>2 DEF PointOK, Arms, Kinds
    <3> QED BY <3>1, <3>3 DEF FreshOK, ClosedOK, Unwritten, Written
  <2> QED BY <2>1, <2>2
<1>6. \A u \in Trips, k \in Kinds : jobs'[u][k] \in Workers => jobs'[u][k] = jobs[u][k] /\ u # t
  BY <1>3, TripsAssumption
<1>7. ASSUME NEW u \in Trips PROVE PromiseOK(u)'
  <2>1. CASE u = t
    BY <1>1, <1>2, <2>1 DEF PromiseOK, Terminal
  <2>2. CASE u # t
    <3>1. "disarm" \in Ending
      BY DEF Ending, Written
    <3>2. \A w \in Workers : jobs'[u]["eta_due"] = w /\ run'[w].at \in Ending =>
                               jobs[u]["eta_due"] = w /\ run[w].at \in Ending
      BY <1>0, <1>1, <1>3, <1>4, <2>2, <3>1 DEF Procs
    <3> QED BY <1>0, <1>1, <1>2, <1>3, <1>4, <2>2, <3>2, PromiseStays
  <2> QED BY <2>1, <2>2
<1>8. \A u \in Trips, k \in Kinds :
        /\ jobs'[u][k] = jobs[u][k] \/ jobs'[u][k] \notin Workers \/ jobs'[u][k] = p
        /\ trip[u] = "none" => jobs'[u][k] = "none"
        /\ jobs'[u][k] = p /\ p \in Workers => run'[p].op = k /\ run'[p].t = u
  <2> TAKE u \in Trips, k \in Kinds
  <2>1. trip[u] = "none" => u # t /\ jobs[u][k] = "none"
    BY <1>1 DEF Inv, TypeOK
  <2>2. jobs'[u][k] = p /\ p \in Workers => FALSE
    <3> SUFFICES ASSUME jobs'[u][k] = p, p \in Workers PROVE FALSE
      OBVIOUS
    <3>1. jobs[u][k] = p /\ u # t
      BY <1>6
    <3> QED BY <1>0, <1>1, <3>1, Locks
  <2> QED BY <1>3, <1>6, <2>1, <2>2
<1>9. derailed' \subseteq Trips /\ faults' \in 0 .. MaxFaults
  BY <1>2 DEF Inv, TypeOK
<1> QED BY <1>2, <1>3, <1>4, <1>5, <1>7, <1>8, <1>9, Steps

\* One row of a job changes.
LEMMA OneRow ==
  ASSUME Inv, NEW t \in Trips, NEW k \in Kinds, NEW v \in {"none", "free"} \union Workers,
         jobs' = [jobs EXCEPT ![t][k] = v]
  PROVE  /\ jobs' \in [Trips -> [Kinds -> {"none", "free"} \union Workers]] /\ jobs'[t][k] = v
         /\ \A u \in Trips, l \in Kinds : jobs'[u][l] = jobs[u][l] \/ (u = t /\ l = k)
<1>1. jobs \in [Trips -> [Kinds -> {"none", "free"} \union Workers]]
  BY DEF Inv, TypeOK
<1>2. jobs' = [jobs EXCEPT ![t] = [jobs[t] EXCEPT ![k] = v]]
  BY <1>1
<1>3. [jobs[t] EXCEPT ![k] = v] \in [Kinds -> {"none", "free"} \union Workers]
  BY <1>1
<1> QED BY <1>1, <1>2, <1>3

\* A worker locks a row that is due.
LEMMA TakeInv ==
  ASSUME Inv, NEW w \in Workers, NEW t \in Trips, NEW k \in Kinds, Take(w, t, k) PROVE Inv'
<1>0. PICK x : x = [at |-> "check", op |-> k, t |-> t, to |-> "none", late |-> FALSE]
  OBVIOUS
<1>1. /\ w \in Procs /\ run[w].at = "idle" /\ jobs[t][k] = "free" /\ k \in Ops
      /\ UNCHANGED <<trip, watchers, arrived, silent, faults, derailed>>
      /\ jobs' = [jobs EXCEPT ![t][k] = w] /\ run' = [run EXCEPT ![w] = x]
      /\ w \notin {"none", "free"}
  BY <1>0, TripsAssumption DEF Take, At, Start, Execution, history, Procs, Ops
<1>2. x \in Runs
  BY <1>0 DEF Runs, Points, Ops, States
<1>3. run'[w] = x /\ \A q \in Procs : q # w => run'[q] = run[q]
  BY <1>1 DEF Inv, TypeOK
<1>4. /\ jobs' \in [Trips -> [Kinds -> {"none", "free"} \union Workers]] /\ jobs'[t][k] = w
      /\ \A u \in Trips, l \in Kinds : jobs'[u][l] = jobs[u][l] \/ (u = t /\ l = k)
  BY <1>1, OneRow
<1>5. trip[t] # "none"
  BY <1>1 DEF Inv, TypeOK
<1>6. (PointOK(w) /\ FreshOK(w) /\ ClosedOK(w))'
  <2>1. x.at = "check" /\ x.op = k /\ x.t = t /\ x.to = "none"
    BY <1>0
  <2>2. PointOK(w)'
    BY <1>1, <1>3, <1>5, <2>1 DEF PointOK, Arms, Kinds
  <2> QED BY <1>3, <2>1, <2>2 DEF FreshOK, ClosedOK, Unwritten, Written
<1>7. ASSUME NEW u \in Trips PROVE PromiseOK(u)'
  <2>1. run'[w].at \notin Ending
    BY <1>0, <1>3 DEF Ending, Written
  <2>2. \A v \in Workers : jobs'[u]["eta_due"] = v /\ run'[v].at \in Ending =>
                             jobs[u]["eta_due"] = v /\ run[v].at \in Ending
    BY <1>3, <1>4, <2>1 DEF Procs, Kinds
  <2>3. jobs[u]["eta_due"] # "none" => jobs'[u]["eta_due"] # "none"
    BY <1>1, <1>4 DEF Kinds
  <2> QED BY <1>1, <1>3, <2>2, <2>3, PromiseStays
<1>8. \A u \in Trips, l \in Kinds :
        /\ jobs'[u][l] = jobs[u][l] \/ jobs'[u][l] \notin Workers \/ jobs'[u][l] = w
        /\ trip[u] = "none" => jobs'[u][l] = "none"
        /\ jobs'[u][l] = w /\ w \in Workers => run'[w].op = l /\ run'[w].t = u
  <2> TAKE u \in Trips, l \in Kinds
  <2>1. CASE u = t /\ l = k
    BY <1>0, <1>3, <1>4, <1>5, <2>1
  <2>2. CASE ~(u = t /\ l = k)
    <3>1. jobs'[u][l] = jobs[u][l] /\ (trip[u] = "none" => jobs[u][l] = "none")
      BY <1>4, <2>2 DEF Inv, TypeOK
    <3>2. run[w] = Idle
      BY <1>1 DEF Inv, PointOK
    <3>3. jobs[u][l] = w => run[w].op = l /\ l # "none"
      BY Locks DEF Kinds
    <3> QED BY <3>1, <3>2, <3>3 DEF Idle
  <2> QED BY <2>1, <2>2
<1>9. derailed' \subseteq Trips /\ faults' \in 0 .. MaxFaults
  BY <1>1 DEF Inv, TypeOK
<1> QED BY <1>1, <1>2, <1>4, <1>6, <1>7, <1>8, <1>9, Steps

\* The queue deletes the row of a handler that is done: somebody is about to replace a deadline that
\* is still owed.
LEMMA EndInv ==
  ASSUME Inv, NEW w \in Procs, End(w) PROVE Inv'
<1>0. PICK t, k : t = Of(w) /\ k = run[w].op
  OBVIOUS
<1>1. /\ run[w].at = "end" /\ t \in Trips /\ k \in Kinds /\ w \in Workers /\ run[w].t = t
      /\ UNCHANGED <<trip, watchers, arrived, silent, faults, derailed>> /\ Start(w, Idle)
      /\ jobs' = IF jobs[t][k] = w THEN [jobs EXCEPT ![t][k] = "none"] ELSE jobs
  BY <1>0 DEF End, At, history, Inv, PointOK, Of
<1>2. /\ \E x \in Runs : run' = [run EXCEPT ![w] = x]
      /\ run'[w] = Idle /\ \A q \in Procs : q # w => run'[q] = run[q]
  BY <1>1, Stopped
<1>3. (PointOK(w) /\ FreshOK(w) /\ ClosedOK(w))'
  BY <1>2 DEF PointOK, FreshOK, ClosedOK, Unwritten, Written, Arms, Idle
<1>4. /\ jobs' \in [Trips -> [Kinds -> {"none", "free"} \union Workers]]
      /\ jobs'[t][k] # w
      /\ \A u \in Trips, l \in Kinds :
           jobs'[u][l] = jobs[u][l] \/ (u = t /\ l = k /\ jobs[u][l] = w /\ jobs'[u][l] = "none")
  <2>1. CASE jobs[t][k] = w
    <3>1. PICK v : v = "none"
      OBVIOUS
    <3>2. jobs' = [jobs EXCEPT ![t][k] = v] /\ v # w /\ v \in {"none", "free"} \union Workers
      BY <1>1, <2>1, <3>1, TripsAssumption
    <3>3. t \in Trips /\ k \in Kinds
      BY <1>1
    <3>4. /\ jobs' \in [Trips -> [Kinds -> {"none", "free"} \union Workers]] /\ jobs'[t][k] = v
          /\ \A u \in Trips, l \in Kinds : jobs'[u][l] = jobs[u][l] \/ (u = t /\ l = k)
      BY <3>2, <3>3, OneRow
    <3> QED BY <2>1, <3>1, <3>2, <3>4
  <2>2. CASE jobs[t][k] # w
    BY <1>1, <2>2 DEF Inv, TypeOK
  <2> QED BY <2>1, <2>2
<1>5. run'[w].at \notin Ending
  BY <1>2 DEF Ending, Written, Idle
<1>6. ASSUME NEW u \in Trips PROVE PromiseOK(u)'
  <2>1. \A v \in Workers : jobs'[u]["eta_due"] = v /\ run'[v].at \in Ending =>
                             jobs[u]["eta_due"] = v /\ run[v].at \in Ending
    BY <1>2, <1>4, <1>5, TripsAssumption DEF Procs, Kinds
  <2>2. CASE jobs'[u]["eta_due"] = jobs[u]["eta_due"]
    BY <1>1, <1>2, <2>1, <2>2, PromiseStays
  <2>3. CASE jobs'[u]["eta_due"] # jobs[u]["eta_due"]
    <3>1. u = t /\ jobs[u]["eta_due"] = w /\ jobs'[u]["eta_due"] = "none"
      BY <1>4, <2>3 DEF Kinds
    <3>2. trip[u] = "active" /\ u \notin derailed => Arming(u, {"arm"})
      BY <1>1, <3>1 DEF Inv, PromiseOK, Written
    <3>3. Arming(u, {"arm"}) => Arming(u, {"arm", "arm_eta"})'
      BY <1>1, <1>2 DEF Arming, Of
    <3>4. "none" \notin Workers
      BY TripsAssumption
    <3> QED BY <1>1, <3>1, <3>2, <3>3, <3>4 DEF PromiseOK
  <2> QED BY <2>2, <2>3
<1>7. \A u \in Trips, l \in Kinds :
        /\ jobs'[u][l] = jobs[u][l] \/ jobs'[u][l] \notin Workers \/ jobs'[u][l] = w
        /\ trip[u] = "none" => jobs'[u][l] = "none"
        /\ jobs'[u][l] = w /\ w \in Workers => run'[w].op = l /\ run'[w].t = u
  <2> TAKE u \in Trips, l \in Kinds
  <2>1. jobs'[u][l] # w
    <3> SUFFICES ASSUME jobs'[u][l] = w PROVE FALSE
      OBVIOUS
    <3>1. jobs[u][l] = w
      BY <1>1, <1>4, TripsAssumption
    <3>2. u = t /\ l = k
      BY <1>0, <1>1, <3>1, Locks
    <3> QED BY <1>4, <3>2
  <2>2. trip[u] = "none" => jobs[u][l] = "none"
    BY DEF Inv, TypeOK
  <2> QED BY <1>4, <2>1, <2>2, TripsAssumption
<1>8. derailed' \subseteq Trips /\ faults' \in 0 .. MaxFaults
  BY <1>1 DEF Inv, TypeOK
<1> QED BY <1>1, <1>2, <1>3, <1>4, <1>6, <1>7, <1>8, Steps

\* An execution throws or its process dies: the row it had locked is due again.
LEMMA CrashInv ==
  ASSUME Inv, NEW p \in Procs, Crash(p) PROVE Inv'
<1>0. PICK t, y : t = Of(p) /\ y = run[p]
  OBVIOUS
<1>1. /\ y.at # "idle" /\ t \in Trips /\ y.t = t /\ y.op \in Ops /\ (p \in Workers => y.op \in Kinds)
      /\ UNCHANGED <<trip, watchers, arrived, silent>> /\ Start(p, Idle) /\ faults' = faults + 1
      /\ faults < MaxFaults
      /\ jobs' = IF p \in Workers /\ jobs[t][y.op] = p THEN [jobs EXCEPT ![t][y.op] = "free"] ELSE jobs
      /\ derailed' = IF Unresumed(p) THEN derailed \union {t} ELSE derailed
  BY <1>0 DEF Crash, At, Inv, PointOK, Of
<1>2. /\ \E x \in Runs : run' = [run EXCEPT ![p] = x]
      /\ run'[p] = Idle /\ \A q \in Procs : q # p => run'[q] = run[q]
  BY <1>1, Stopped
<1>3. (PointOK(p) /\ FreshOK(p) /\ ClosedOK(p))'
  BY <1>2 DEF PointOK, FreshOK, ClosedOK, Unwritten, Written, Arms, Idle
<1>4. /\ jobs' \in [Trips -> [Kinds -> {"none", "free"} \union Workers]]
      /\ \A u \in Trips, l \in Kinds :
           jobs'[u][l] = jobs[u][l] \/ (u = t /\ l = y.op /\ jobs[u][l] = p /\ jobs'[u][l] = "free")
      /\ p \in Workers => jobs'[t][y.op] # p
  <2>1. CASE p \in Workers /\ jobs[t][y.op] = p
    <3>1. PICK v : v = "free"
      OBVIOUS
    <3>2. jobs' = [jobs EXCEPT ![t][y.op] = v] /\ v # p /\ v \in {"none", "free"} \union Workers
      BY <1>1, <2>1, <3>1, TripsAssumption
    <3>3. t \in Trips /\ y.op \in Kinds
      BY <1>1, <2>1
    <3>4. /\ jobs' \in [Trips -> [Kinds -> {"none", "free"} \union Workers]] /\ jobs'[t][y.op] = v
          /\ \A u \in Trips, l \in Kinds : jobs'[u][l] = jobs[u][l] \/ (u = t /\ l = y.op)
      BY <3>2, <3>3, OneRow
    <3> QED BY <2>1, <3>1, <3>2, <3>4
  <2>2. CASE ~(p \in Workers /\ jobs[t][y.op] = p)
    BY <1>1, <2>2 DEF Inv, TypeOK
  <2> QED BY <2>1, <2>2
<1>5. run'[p].at \notin Ending
  BY <1>2 DEF Ending, Written, Idle
<1>6. ASSUME NEW u \in Trips PROVE PromiseOK(u)'
  <2>1. CASE u = t /\ y.at \in {"arm", "arm_eta"}
    <3>1. u \in derailed'
      BY <1>0, <1>1, <2>1 DEF Unresumed
    <3> QED BY <3>1 DEF PromiseOK
  <2>2. CASE u # t \/ y.at \notin {"arm", "arm_eta"}
    <3>1. \A v \in Workers : jobs'[u]["eta_due"] = v /\ run'[v].at \in Ending =>
                               jobs[u]["eta_due"] = v /\ run[v].at \in Ending
      BY <1>2, <1>4, <1>5, TripsAssumption DEF Procs, Kinds
    <3>2. jobs[u]["eta_due"] # "none" => jobs'[u]["eta_due"] # "none"
      BY <1>4 DEF Kinds
    <3> QED BY <1>0, <1>1, <1>2, <2>2, <3>1, <3>2, PromiseStays
  <2> QED BY <2>1, <2>2
<1>7. \A u \in Trips, l \in Kinds :
        /\ jobs'[u][l] = jobs[u][l] \/ jobs'[u][l] \notin Workers \/ jobs'[u][l] = p
        /\ trip[u] = "none" => jobs'[u][l] = "none"
        /\ jobs'[u][l] = p /\ p \in Workers => run'[p].op = l /\ run'[p].t = u
  <2> TAKE u \in Trips, l \in Kinds
  <2>1. p \in Workers => jobs'[u][l] # p
    <3> SUFFICES ASSUME jobs'[u][l] = p, p \in Workers PROVE FALSE
      OBVIOUS
    <3>1. jobs[u][l] = p
      BY <1>4, TripsAssumption
    <3>2. u = t /\ l = y.op
      BY <1>0, <1>1, <3>1, Locks
    <3> QED BY <1>4, <3>2
  <2>2. trip[u] = "none" => jobs[u][l] = "none" /\ "none" \notin Workers
    BY TripsAssumption DEF Inv, TypeOK
  <2>3. jobs[u][l] = p /\ jobs'[u][l] = "free" => p \in Workers \/ jobs'[u][l] = jobs[u][l]
    BY <1>1
  <2> QED BY <1>4, <2>1, <2>2, <2>3, TripsAssumption
<1>8. derailed' \subseteq Trips /\ faults' \in 0 .. MaxFaults /\ derailed \subseteq derailed'
  BY <1>1, TripsAssumption DEF Inv, TypeOK
<1> QED BY <1>1, <1>2, <1>3, <1>4, <1>6, <1>7, <1>8, Steps

\* What a write leaves of the other executions: those that looked at the trip before it are late.
LEMMA Overtaking ==
  ASSUME Inv, NEW p \in Procs, NEW x \in Runs, run' = [Overtaken(p) EXCEPT ![p] = x]
  PROVE  /\ run' \in [Procs -> Runs] /\ run'[p] = x
         /\ \A q \in Procs : q # p =>
              /\ run'[q].at = run[q].at /\ run'[q].op = run[q].op /\ run'[q].t = run[q].t
              /\ run'[q].to = run[q].to
              /\ IF run[q].t = run[p].t /\ run[q].at \in Unwritten THEN run'[q].late
                 ELSE run'[q] = run[q]
<1>1. run \in [Procs -> Runs]
  BY DEF Inv, TypeOK
<1>2. ASSUME NEW q \in Procs
      PROVE  /\ [run[q] EXCEPT !.late = TRUE] \in Runs /\ [run[q] EXCEPT !.late = TRUE].late
             /\ [run[q] EXCEPT !.late = TRUE].at = run[q].at /\ [run[q] EXCEPT !.late = TRUE].op = run[q].op
             /\ [run[q] EXCEPT !.late = TRUE].t = run[q].t /\ [run[q] EXCEPT !.late = TRUE].to = run[q].to
  BY <1>1 DEF Runs
<1>3. \A q \in Procs : Overtaken(p)[q] =
         IF q # p /\ run[q].t = run[p].t /\ run[q].at \in Unwritten
         THEN [run[q] EXCEPT !.late = TRUE] ELSE run[q]
  BY DEF Overtaken, Of
<1>4. DOMAIN Overtaken(p) = Procs /\ \A q \in Procs : Overtaken(p)[q] \in Runs
  BY <1>1, <1>2, <1>3 DEF Overtaken
<1>5. Overtaken(p) = [q \in Procs |-> Overtaken(p)[q]]
  BY DEF Overtaken
<1>6. run' \in [Procs -> Runs] /\ run'[p] = x /\ \A q \in Procs : q # p => run'[q] = Overtaken(p)[q]
  BY <1>4, <1>5
<1> QED BY <1>2, <1>3, <1>6

\* A write of the state, the execution that writes being right about itself.
LEMMA WroteInv ==
  ASSUME Inv, NEW p \in Procs, NEW x \in Runs, run' = [Overtaken(p) EXCEPT ![p] = x],
         NEW t \in Trips, t = Of(p), run[p].at \in {"extend", "write"}, x.op = run[p].op, x.t = t,
         NEW v \in States \ {"none"}, trip' = [trip EXCEPT ![t] = v], Race(p),
         UNCHANGED <<jobs, watchers, arrived, faults>>, silent' \in [Trips -> Ops \union {"none"}],
         (PointOK(p) /\ FreshOK(p) /\ ClosedOK(p))',
         x.at \notin Ending \/ run[p].op \in Kinds \/ p \notin Workers,
         v = "active" => \/ x.at = "arm" /\ x.op = "extend"
                         \/ run[p].at = "write" /\ p \notin Workers /\ (run[p].late \/ trip[t] = "active")
  PROVE  Inv'
<1>1. /\ run' \in [Procs -> Runs] /\ run'[p] = x
      /\ \A q \in Procs : q # p =>
           /\ run'[q].at = run[q].at /\ run'[q].op = run[q].op /\ run'[q].t = run[q].t
           /\ run'[q].to = run[q].to
           /\ IF run[q].t = t /\ run[q].at \in Unwritten THEN run'[q].late ELSE run'[q] = run[q]
  <2>1. run[p].t = t
    BY DEF Of
  <2>2. /\ run' \in [Procs -> Runs] /\ run'[p] = x
        /\ \A q \in Procs : q # p =>
             /\ run'[q].at = run[q].at /\ run'[q].op = run[q].op /\ run'[q].t = run[q].t
             /\ run'[q].to = run[q].to
             /\ IF run[q].t = run[p].t /\ run[q].at \in Unwritten THEN run'[q].late
                ELSE run'[q] = run[q]
    BY Overtaking
  <2> QED BY <2>1, <2>2
<1>2. /\ trip' \in [Trips -> States] /\ trip'[t] = v /\ \A u \in Trips : u # t => trip'[u] = trip[u]
      /\ run[p].at \in Unwritten /\ run[p].t = t /\ trip[t] # "none" /\ PointOK(p) /\ FreshOK(p)
  BY DEF Inv, TypeOK, Of, PointOK, Unwritten
<1>3. derailed \subseteq derailed' /\ derailed' \subseteq Trips /\ (run[p].late => t \in derailed')
  BY DEF Race, Inv, TypeOK, Of
<1>4. TypeOK'
  <2>1. \A u \in Trips, k \in Kinds : jobs[u][k] \in Workers =>
          run'[jobs[u][k]].op = k /\ run'[jobs[u][k]].t = u
    <3> TAKE u \in Trips, k \in Kinds
    <3>1. jobs[u][k] \in Workers => run[jobs[u][k]].op = k /\ run[jobs[u][k]].t = u /\ jobs[u][k] \in Procs
      BY Locks
    <3> QED BY <1>1, <1>2, <3>1
  <2>2. \A u \in Trips : trip'[u] = "none" => watchers[u] = {} /\ \A k \in Kinds : jobs[u][k] = "none"
    BY <1>2 DEF Inv, TypeOK
  <2> QED BY <1>1, <1>2, <1>3, <2>1, <2>2 DEF Inv, TypeOK, Of
<1>5. ASSUME NEW q \in Procs PROVE (PointOK(q) /\ FreshOK(q) /\ ClosedOK(q))'
  <2>1. CASE q = p
    BY <2>1
  <2>2. CASE q # p
    <3>1. /\ PointOK(q) /\ FreshOK(q) /\ ClosedOK(q)
          /\ run'[q].at = run[q].at /\ run'[q].op = run[q].op /\ run'[q].t = run[q].t
          /\ run'[q].to = run[q].to
          /\ IF run[q].t = t /\ run[q].at \in Unwritten THEN run'[q].late ELSE run'[q] = run[q]
      BY <1>1, <2>2 DEF Inv
    <3>2. "insert" \notin Unwritten /\ "idle" \notin Unwritten /\ v # "none"
      BY DEF Unwritten
    <3>3. PointOK(q)'
      BY <1>2, <3>1, <3>2 DEF PointOK
    <3>4. FreshOK(q)'
      BY <1>2, <3>1, <3>2 DEF FreshOK, PointOK
    <3>5. ClosedOK(q)'
      <4> SUFFICES ASSUME run[q].at \in Written, run[q].to \in Terminal
                   PROVE  trip'[run[q].t] \in Terminal \/ run[q].t \in derailed'
        BY <3>1 DEF ClosedOK, Of
      <4>1. trip[run[q].t] \in Terminal \/ run[q].t \in derailed
        BY <3>1 DEF ClosedOK, Of
      <4>2. run[q].t \in Trips
        BY <3>1 DEF PointOK, Written
      <4>3. trip[t] \in Terminal => run[p].late
        BY <1>2 DEF FreshOK
      <4> QED BY <1>2, <1>3, <4>1, <4>2, <4>3
    <3> QED BY <3>3, <3>4, <3>5
  <2> QED BY <2>1, <2>2
<1>6. ASSUME NEW u \in Trips PROVE PromiseOK(u)'
  <2>1. ASSUME NEW points \in SUBSET Points, u # t \/ run[p].at \notin points, Arming(u, points)
        PROVE  Arming(u, points)'
    BY <1>1, <1>2, <2>1 DEF Arming, Of
  <2>2. {"arm"} \in SUBSET Points /\ {"arm", "arm_eta"} \in SUBSET Points
        /\ run[p].at \notin {"arm"} /\ run[p].at \notin {"arm", "arm_eta"}
    BY DEF Points
  <2>3. /\ Arming(u, {"arm"}) => Arming(u, {"arm"})'
        /\ Arming(u, {"arm", "arm_eta"}) => Arming(u, {"arm", "arm_eta"})'
    BY <2>1, <2>2
  <2>4. CASE u # t \/ (run[p].at = "write" /\ p \notin Workers /\ trip[t] = "active")
    <3>1. \A w \in Workers : jobs[u]["eta_due"] = w => (run'[w].at = run[w].at \/ w = p)
      BY <1>1 DEF Procs
    <3>2. jobs[u]["eta_due"] = p /\ p \in Workers => u = t
      BY <1>2, Locks DEF Kinds
    <3>3. trip'[u] = "active" => trip[u] = "active"
      BY <1>2, <2>4
    <3>4. PromiseOK(u)
      BY DEF Inv
    <3> QED BY <1>3, <2>3, <2>4, <3>1, <3>2, <3>3, <3>4 DEF PromiseOK
  <2>5. CASE u = t /\ (v # "active" \/ run[p].late)
    BY <1>2, <1>3, <2>5 DEF PromiseOK
  <2>6. CASE u = t /\ x.at = "arm" /\ x.op = "extend"
    BY <1>1, <2>6 DEF PromiseOK, Arming, Of
  <2> QED BY <2>4, <2>5, <2>6
<1> QED BY <1>4, <1>5, <1>6 DEF Inv

\* The UPDATE of an extension, and the one of a transition.
LEMMA ExtendInv ==
  ASSUME Inv, NEW p \in Procs, Extend(p) PROVE Inv'
<1>0. PICK t, y, v : t = Of(p) /\ y = run[p] /\ v = "active"
  OBVIOUS
<1>1. /\ y.at = "extend" /\ y.op = "extend" /\ y.to = "active" /\ y.t = t /\ t \in Trips /\ y \in Runs
      /\ p \notin Workers /\ trip[t] # "none" /\ run[p] = y
      /\ trip' = [trip EXCEPT ![t] = v] /\ Race(p) /\ UNCHANGED <<jobs, watchers, arrived, faults, silent>>
      /\ run' = [Overtaken(p) EXCEPT ![p].at = "arm"]
  BY <1>0 DEF Extend, At, Inv, PointOK, Of, TypeOK, Kinds
<1>2. PICK x : x = [y EXCEPT !.at = "arm"]
  OBVIOUS
<1>3. x \in Runs /\ x.at = "arm" /\ x.op = "extend" /\ x.t = t /\ x.to = "active" /\ x.late = y.late
  BY <1>1, <1>2 DEF Runs, Points
<1>4. Overtaken(p)[p] = y
  BY <1>0 DEF Overtaken
<1>5. run' = [Overtaken(p) EXCEPT ![p] = x]
  BY <1>1, <1>2, <1>4
<1>6. run'[p] = x /\ trip'[t] = "active"
  BY <1>0, <1>1, <1>3, <1>5, Overtaking DEF Inv, TypeOK
<1>7. (PointOK(p) /\ FreshOK(p) /\ ClosedOK(p))'
  <2>1. "extend" \in Ops /\ "extend" \notin Kinds /\ "active" \notin Terminal
    BY DEF Ops, Kinds, Terminal
  <2> QED BY <1>1, <1>3, <1>6, <2>1 DEF PointOK, FreshOK, ClosedOK, Unwritten, Written, Arms
<1>8. v \in States \ {"none"} /\ x.at \notin Ending /\ silent' \in [Trips -> Ops \union {"none"}]
  BY <1>0, <1>1, <1>3 DEF States, Open, Ending, Written, Inv, TypeOK
<1>9. /\ run[p].at \in {"extend", "write"} /\ x.op = run[p].op /\ t = Of(p)
      /\ UNCHANGED <<jobs, watchers, arrived, faults>>
  BY <1>0, <1>1, <1>3
<1>10. v = "active" => x.at = "arm" /\ x.op = "extend"
  BY <1>3
<1> QED BY <1>1, <1>3, <1>5, <1>7, <1>8, <1>9, <1>10, WroteInv

\* The status is written: the trip was open, and what the writer must still do is its own.
LEMMA WriteInv ==
  ASSUME Inv, NEW p \in Procs, Write(p) PROVE Inv'
<1>0. PICK t, y, v : t = Of(p) /\ y = run[p] /\ v = run[p].to
  OBVIOUS
<1>1. /\ y.at = "write" /\ y.to = v /\ y.t = t /\ t \in Trips /\ y \in Runs /\ v \in States \ {"none"}
      /\ run[p] = y /\ PointOK(p) /\ FreshOK(p) /\ trip[t] # "none" /\ y.op \in Ops
      /\ (v = "active" => y.op = "extend") /\ (p \in Workers <=> y.op \in Kinds)
      /\ trip' = [trip EXCEPT ![t] = v] /\ Race(p) /\ UNCHANGED <<jobs, watchers, arrived, faults>>
      /\ run' = [Overtaken(p) EXCEPT ![p].at = "card", ![p].late = FALSE]
  BY <1>0 DEF Write, At, Inv, PointOK, Of, TypeOK, Runs
<1>2. PICK x : x = [y EXCEPT !.at = "card", !.late = FALSE]
  OBVIOUS
<1>3. x \in Runs /\ x.at = "card" /\ x.op = y.op /\ x.t = t /\ x.to = v /\ x.late = FALSE
  BY <1>1, <1>2 DEF Runs, Points
<1>4. Overtaken(p)[p] = y
  BY <1>0 DEF Overtaken
<1>5. run' = [Overtaken(p) EXCEPT ![p] = x]
  BY <1>1, <1>2, <1>4
<1>6. run'[p] = x /\ trip'[t] = v
  BY <1>1, <1>3, <1>5, Overtaking DEF Inv, TypeOK
<1>7. (PointOK(p) /\ FreshOK(p) /\ ClosedOK(p))'
  <2>1. PointOK(p)'
    BY <1>1, <1>3, <1>6 DEF PointOK, Arms
  <2>2. FreshOK(p)'
    BY <1>3, <1>6 DEF FreshOK, Unwritten
  <2>3. ClosedOK(p)'
    BY <1>3, <1>6 DEF ClosedOK, Of
  <2> QED BY <2>1, <2>2, <2>3
<1>8. silent' \in [Trips -> Ops \union {"none"}]
  <2>1. \/ silent' = silent \/ silent' = [silent EXCEPT ![t] = "none"]
        \/ silent' = [silent EXCEPT ![t] = y.op]
    BY <1>0 DEF Write
  <2> QED BY <1>1, <2>1 DEF Inv, TypeOK
<1>9. v = "active" => p \notin Workers /\ (y.late \/ trip[t] = "active")
  BY <1>1 DEF FreshOK, Unwritten, Kinds
<1>10. x.at \notin Ending \/ y.op \in Kinds \/ p \notin Workers
  BY <1>1
<1> QED BY <1>0, <1>1, <1>3, <1>5, <1>7, <1>8, <1>9, <1>10, WroteInv

-----------------------------------------------------------------------------
(* The invariant, and what it says                                         *)

\* At the start there is no trip, and nobody is at work.
LEMMA InitInv == Init => Inv
<1> SUFFICES ASSUME Init PROVE Inv
  OBVIOUS
<1>1. Idle \in Runs /\ "none" \in States /\ 0 \in 0 .. MaxFaults /\ "none" \notin Workers
  BY TripsAssumption DEF Idle, Runs, Points, States
<1>2. TypeOK
  BY <1>1 DEF Init, TypeOK
<1>3. ASSUME NEW p \in Procs PROVE PointOK(p) /\ FreshOK(p) /\ ClosedOK(p)
  <2>1. run[p] = Idle
    BY DEF Init
  <2> QED BY <2>1 DEF PointOK, FreshOK, ClosedOK, Idle, Unwritten, Written, Arms
<1>4. ASSUME NEW t \in Trips PROVE PromiseOK(t)
  BY DEF Init, PromiseOK
<1> QED BY <1>2, <1>3, <1>4 DEF Inv

\* Every step keeps the invariant.
LEMMA StepInv == Inv /\ [Next]_vars => Inv'
<1> SUFFICES ASSUME Inv, [Next]_vars PROVE Inv'
  OBVIOUS
<1>1. CASE UNCHANGED vars
  BY <1>1 DEF vars, Inv, TypeOK, PointOK, FreshOK, ClosedOK, PromiseOK, Arming, Of
<1>2. ASSUME NEW p \in Procs, Continue(p) PROVE Inv'
  <2>1. CASE Avant(p) \/ Card(p) \/ Push(p) \/ Revoke(p) \/ Check(p)
    BY <2>1, QuietStep
  <2>2. CASE ArmEta(p) \/ ArmMax(p) \/ Unwatched(p) \/ Grace(p)
    BY <2>2, EnqueueInv
  <2>3. CASE Insert(p) \/ Extend(p) \/ Write(p)
    BY <2>3, InsertInv, ExtendInv, WriteInv
  <2>4. CASE ArmFirst(p) \/ End(p) \/ DisarmAll(p)
    BY <2>4, ArmFirstInv, EndInv, DisarmAllInv
  <2> QED BY <1>2, <2>1, <2>2, <2>3, <2>4 DEF Continue
<1>3. ASSUME NEW p \in Procs, Crash(p) PROVE Inv'
  BY <1>3, CrashInv
<1>4. ASSUME NEW t \in Trips, NEW r \in Requests, Request(r, t) PROVE Inv'
  BY <1>4, Begins
<1>5. ASSUME NEW t \in Trips, NEW w \in Workers, NEW k \in Kinds, Take(w, t, k) PROVE Inv'
  BY <1>5, TakeInv
<1> QED BY <1>1, <1>2, <1>3, <1>4, <1>5 DEF Next

\* So it always holds.
LEMMA Invariance == Spec => []Inv
BY InitInv, StepInv, PTL DEF Spec

\* The variables keep their types, a lock its owner, and a trip that has no row has nothing.
THEOREM TypeCorrect == Spec => []TypeOK
<1>1. Inv => TypeOK
  BY DEF Inv
<1> QED BY <1>1, Invariance, PTL

\* An active trip that nobody is busy with has its deadline in the queue, unless an execution of
\* its died where nothing resumes it or was overtaken by another's write.
THEOREM DeadlineKept == Spec => []DeadlineArmed
<1>1. Inv => DeadlineArmed
  BY DEF Inv, PromiseOK, DeadlineArmed, Quiet, Arming
<1> QED BY <1>1, Invariance, PTL

\* A closed trip stays as it was closed, unless an execution that was overtaken writes it.
THEOREM ClosedStays == Spec => ClosedIsQuiet
<1>1. ASSUME Inv, [Next]_vars, NEW t \in Trips, trip[t] \in Terminal, trip'[t] # trip[t]
      PROVE  \E p \in Procs : Of(p) = t /\ run[p].late
  <2>0. trip \in [Trips -> States] /\ trip' # trip
    BY <1>1 DEF Inv, TypeOK
  <2>1. PICK p \in Procs : Insert(p) \/ Extend(p) \/ Write(p)
    BY <1>1, <2>0 DEF Next, vars, Continue, Crash, Request, Create, Ask, Position, AskRevoke, Take,
       ArmFirst, ArmEta, ArmMax, Revoke, Unwatched, Check, Grace, End, Avant, Card, Push, DisarmAll
  <2>2. Of(p) = t
    BY <1>1, <2>0, <2>1 DEF Insert, Extend, Write
  <2>3. CASE Insert(p)
    BY <1>1, <2>0, <2>2, <2>3 DEF Insert, Terminal
  <2>4. CASE Extend(p) \/ Write(p)
    <3>1. FreshOK(p) /\ run[p].at \in Unwritten
      BY <1>1, <2>4 DEF Inv, Extend, Write, At, Unwritten
    <3> QED BY <1>1, <2>2, <3>1 DEF FreshOK, Of
  <2> QED BY <2>1, <2>3, <2>4
<1>2. Inv /\ [Next]_vars => [\A t \in Trips : trip[t] \in Terminal /\ trip'[t] # trip[t] =>
                               \E p \in Procs : Of(p) = t /\ run[p].late]_vars
  BY <1>1
<1> QED BY <1>2, Invariance, PTL DEF Spec, ClosedIsQuiet
=============================================================================
