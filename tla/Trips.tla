--------------------------------- MODULE Trips ---------------------------------
(***************************************************************************)
(* The trusted trips of one owner: the rows of the table trip and their     *)
(* deadlines in job_queue, the owner's requests (tripController.js), the    *)
(* positions that detect an arrival (socket/handlers/trips.js) and the jobs *)
(* that escalate (services/tripWorkers.js).                                *)
(*                                                                         *)
(* A request and a job are executions of several SQL statements, each of    *)
(* them a step. The row of a job is the one of module JobQueue, with its    *)
(* lock; a handler that throws, or whose worker dies, is started again.     *)
(* The jobs eta_soon and reminder, which only speak to the owner, are left  *)
(* out, and so is the limit of ten SOS a day.                              *)
(***************************************************************************)
EXTENDS Integers, FiniteSets

CONSTANTS Trips,      \* client ids of the owner's trips: a creation is retried with its own
          Circle,     \* members of the trust list when a trip starts
          Requests,   \* requests and positions of the owner, under way at once
          Workers,    \* workers of the job queue
          None,
          MaxFaults   \* bound: executions that crash or throw

ASSUME TripsAssumption ==
  /\ MaxFaults \in Nat /\ Requests \intersect Workers = {}
  /\ Workers \intersect {None, "none", "free"} = {}

Alert    == {"alert", "sos"}
Open     == {"active", "awaiting_confirm"} \union Alert
Terminal == {"closed_confirmed", "closed_cancelled", "closed_expired", "closed_unwatched"}
States   == Open \union Terminal \union {"none"}
Kinds    == {"eta_due", "grace_expired", "max_duration", "no_watcher"}
Procs    == Requests \union Workers

VARIABLES
  trip,     \* client id -> state of the row, "none" before its INSERT
  jobs,     \* client id -> kind -> "none", "free" or the worker that locks the row
  watchers, \* client id -> active rows of trip_watcher
  arrived,  \* trips whose arrival was detected, in tripState
  run,      \* execution of each request and worker
  faults,   \* so far
  silent,   \* history: client id -> what asked for a confirmation, the owner not acting since
  derailed  \* history: trips one of whose executions died where nothing resumes it,
            \* or wrote or armed the trip after another had overtaken it

vars == <<trip, jobs, watchers, arrived, run, faults, silent, derailed>>
history == <<silent, derailed>>

\* to: the state to write. late: somebody else wrote the trip between the check
\* of the execution and its own write.
Idle == [at |-> "idle", op |-> "none", t |-> None, to |-> "none", late |-> FALSE]
Execution(op, t, at, to) == [at |-> at, op |-> op, t |-> t, to |-> to, late |-> FALSE]
Points == {"idle", "insert", "extend", "arm", "arm_eta", "arm_max", "revoke", "unwatched",
           "check", "avant", "write", "card", "push", "disarm", "grace", "end"}
Ops    == {"create", "create_sos", "confirm", "cancel", "extend", "sos", "revoke", "position"}
             \union Kinds
Runs   == [at : Points, op : Ops \union {"none"}, t : Trips \union {None},
           to : States, late : BOOLEAN]

Init ==
  /\ trip = [t \in Trips |-> "none"] /\ jobs = [t \in Trips |-> [k \in Kinds |-> "none"]]
  /\ watchers = [t \in Trips |-> {}] /\ arrived = {} /\ run = [p \in Procs |-> Idle] /\ faults = 0
  /\ silent = [t \in Trips |-> "none"] /\ derailed = {}

-----------------------------------------------------------------------------
(* What the statements do                                                  *)

At(p, pt)   == run[p].at = pt
Of(p)       == run[p].t
Goto(p, pt) == run' = [run EXCEPT ![p].at = pt]
Start(p, x) == run' = [run EXCEPT ![p] = x]

\* Mutant: the row of a job that is done stays.
LeaveRow(p) == Start(p, Idle)

\* The end of a request; a worker still has to delete its row.
Leave(p) == IF p \in Workers THEN Goto(p, "end") ELSE Start(p, Idle)

\* enqueue: a no-op as long as there is a row with the key, locked or not.
Enqueue(t, k) == jobs' = IF jobs[t][k] = "none" THEN [jobs EXCEPT ![t][k] = "free"] ELSE jobs

\* Mutant: a row whose handler is running is left alone.
DisarmFree(t) ==
  jobs' = [jobs EXCEPT ![t] = [k \in Kinds |-> IF jobs[t][k] = "free" THEN "none" ELSE jobs[t][k]]]

\* disarm: the rows of every kind, those whose handler is running too.
Disarm(t) == jobs' = [jobs EXCEPT ![t] = [k \in Kinds |-> "none"]]

\* The points where an execution has looked at its trip and has a write to come.
Unwritten == {"extend", "arm", "arm_eta", "arm_max", "avant", "write"}
Overtaken(p) == [q \in Procs |-> IF q # p /\ Of(q) = Of(p) /\ run[q].at \in Unwritten
                                 THEN [run[q] EXCEPT !.late = TRUE] ELSE run[q]]
Race(p) == derailed' = IF run[p].late THEN derailed \union {Of(p)} ELSE derailed

-----------------------------------------------------------------------------
(* The owner's requests                                                    *)

Free(r) == r \in Requests /\ At(r, "idle")

\* createTrip and createSosTrip, up to their transaction. A client id that has
\* its trip is answered with it, and nothing else is done.
Create(r, t, op) ==
  /\ Free(r) /\ trip[t] = "none" /\ \A u \in Trips : trip[u] \notin Open
  /\ Start(r, Execution(op, t, "insert", IF op = "create" THEN "active" ELSE "sos"))
  /\ UNCHANGED <<trip, jobs, watchers, arrived, faults>> /\ UNCHANGED history

\* The transaction: the row and a snapshot of the circle. The unique key on the
\* client id refuses a second one.
Insert(r) ==
  LET t == Of(r) IN
  /\ At(r, "insert")
  /\ IF trip[t] = "none"
     THEN /\ trip' = [trip EXCEPT ![t] = run[r].to]
          /\ watchers' = [watchers EXCEPT ![t] = Circle]
          /\ Goto(r, "arm")
     ELSE Start(r, Idle) /\ UNCHANGED <<trip, watchers>>
  /\ UNCHANGED <<jobs, arrived, faults, silent, derailed>>

\* monTrajetOuvert, for confirmTrip, cancelTrip, triggerSos and extendTrip (and
\* createSosTrip, which raises an open trip). Extending starts with its own UPDATE.
Goal == [confirm |-> "closed_confirmed", cancel |-> "closed_cancelled", sos |-> "sos",
         extend |-> "active"]

Ask(r, t, op) ==
  /\ Free(r) /\ trip[t] \in Open
  /\ Start(r, Execution(op, t, IF op = "extend" THEN "extend" ELSE "avant", Goal[op]))
  /\ silent' = [silent EXCEPT ![t] = "none"]
  /\ UNCHANGED <<trip, jobs, watchers, arrived, faults, derailed>>

Extend(r) ==
  /\ At(r, "extend")
  /\ trip' = [trip EXCEPT ![Of(r)] = "active"]
  /\ Race(r)
  /\ run' = [Overtaken(r) EXCEPT ![r].at = "arm"]
  /\ UNCHANGED <<jobs, watchers, arrived, faults, silent>>

\* arm: disarm, the deadline if there is one, and the longest duration.
ArmFirst(r) ==
  /\ At(r, "arm") /\ Disarm(Of(r)) /\ Race(r)
  /\ Goto(r, IF run[r].op = "create_sos" THEN "arm_max" ELSE "arm_eta")
  /\ UNCHANGED <<trip, watchers, arrived, faults, silent>>

ArmEta(r) ==
  /\ At(r, "arm_eta") /\ Enqueue(Of(r), "eta_due") /\ Goto(r, "arm_max")
  /\ UNCHANGED <<trip, watchers, arrived, faults>> /\ UNCHANGED history

ArmMax(r) ==
  /\ At(r, "arm_max") /\ Enqueue(Of(r), "max_duration")
  /\ CASE run[r].op = "extend"     -> Goto(r, "avant")
       [] run[r].op = "create_sos" -> Goto(r, "push")
       [] OTHER                    -> Start(r, Idle)
  /\ UNCHANGED <<trip, watchers, arrived, faults>> /\ UNCHANGED history

\* A position of an active trip that is, for the first time, an arrival: the
\* flag in tripState, then the transition.
Position(r, t) ==
  /\ Free(r) /\ trip[t] = "active" /\ t \notin arrived
  /\ arrived' = arrived \union {t}
  /\ Start(r, Execution("position", t, "avant", "awaiting_confirm"))
  /\ UNCHANGED <<trip, jobs, watchers, faults>> /\ UNCHANGED history

\* revokeWatcher, by the owner or by the watcher: the last one to go arms the
\* closing of the trip.
AskRevoke(r, t) ==
  /\ Free(r) /\ trip[t] \in Open /\ watchers[t] # {}
  /\ Start(r, Execution("revoke", t, "revoke", "none"))
  /\ UNCHANGED <<trip, jobs, watchers, arrived, faults>> /\ UNCHANGED history

Revoke(r) ==
  /\ At(r, "revoke")
  /\ \E f \in Circle :
       IF f \in watchers[Of(r)]
       THEN watchers' = [watchers EXCEPT ![Of(r)] = @ \ {f}] /\ Goto(r, "unwatched")
       ELSE Start(r, Idle) /\ UNCHANGED watchers
  /\ UNCHANGED <<trip, jobs, arrived, faults>> /\ UNCHANGED history

Unwatched(r) ==
  /\ At(r, "unwatched") /\ Start(r, Idle)
  /\ IF watchers[Of(r)] = {} THEN Enqueue(Of(r), "no_watcher") ELSE UNCHANGED jobs
  /\ UNCHANGED <<trip, watchers, arrived, faults>> /\ UNCHANGED history

-----------------------------------------------------------------------------
(* The jobs                                                                *)

Take(w, t, k) ==
  /\ w \in Workers /\ At(w, "idle") /\ jobs[t][k] = "free"
  /\ jobs' = [jobs EXCEPT ![t][k] = w]
  /\ Start(w, Execution(k, t, "check", "none"))
  /\ UNCHANGED <<trip, watchers, arrived, faults>> /\ UNCHANGED history

\* Mutants: the handler does not look at the state again; it admits no state but
\* the one the trip had when everything was armed.
NotLookedAt(k, t) == TRUE
OnlyActive(k, t)  == trip[t] = "active"

\* vivant, with the states the handler admits, and the watchers that are left.
Vivant(k, t) ==
  CASE k = "eta_due"       -> trip[t] = "active"
    [] k = "grace_expired" -> trip[t] = "awaiting_confirm"
    [] k = "max_duration"  -> trip[t] \in Open
    [] k = "no_watcher"    -> trip[t] \in Open /\ watchers[t] = {}

Outcome(k, s) ==
  CASE k = "eta_due"       -> "awaiting_confirm"
    [] k = "grace_expired" -> "alert"
    [] k = "max_duration"  -> IF s \in Alert THEN "closed_expired" ELSE "awaiting_confirm"
    [] k = "no_watcher"    -> "closed_unwatched"

Check(w) ==
  LET k == run[w].op
      t == Of(w)
  IN /\ At(w, "check")
     /\ IF Vivant(k, t)
        THEN run' = [run EXCEPT ![w].at = "avant", ![w].to = Outcome(k, trip[t])]
        ELSE Goto(w, "end")
     /\ UNCHANGED <<trip, jobs, watchers, arrived, faults>> /\ UNCHANGED history

\* eta_due, after its transition: the grace (and the reminders).
Grace(w) ==
  /\ At(w, "grace") /\ Enqueue(Of(w), "grace_expired") /\ Goto(w, "end")
  /\ UNCHANGED <<trip, watchers, arrived, faults>> /\ UNCHANGED history

\* The queue deletes the row the worker had locked, if it is still there.
End(w) ==
  LET k == run[w].op IN
  /\ At(w, "end") /\ Start(w, Idle)
  /\ jobs' = IF jobs[Of(w)][k] = w THEN [jobs EXCEPT ![Of(w)][k] = "none"] ELSE jobs
  /\ UNCHANGED <<trip, watchers, arrived, faults>> /\ UNCHANGED history

-----------------------------------------------------------------------------
(* transition                                                              *)

Avant(p) ==
  /\ At(p, "avant") /\ Goto(p, "write")
  /\ UNCHANGED <<trip, jobs, watchers, arrived, faults>> /\ UNCHANGED history

\* The UPDATE has no condition on the state.
Write(p) ==
  LET t  == Of(p)
      to == run[p].to
  IN /\ At(p, "write")
     /\ trip' = [trip EXCEPT ![t] = to]
     /\ run' = [Overtaken(p) EXCEPT ![p].at = "card", ![p].late = FALSE]
     /\ Race(p)
     /\ silent' = CASE to # "awaiting_confirm" -> [silent EXCEPT ![t] = "none"]
                    [] to = "awaiting_confirm" /\ trip[t] # to /\ ~run[p].late
                         /\ \A r \in Requests \ {p} : Of(r) # t
                                             -> [silent EXCEPT ![t] = run[p].op]
                    [] OTHER                 -> silent
     /\ UNCHANGED <<jobs, watchers, arrived, faults>>

\* The trip is read again, the cards and the incident line follow it.
Card(p) ==
  /\ At(p, "card") /\ Goto(p, "push")
  /\ UNCHANGED <<trip, jobs, watchers, arrived, faults>> /\ UNCHANGED history

\* The push goes out for the state that was written, whatever the trip is now.
Push(p) ==
  /\ At(p, "push")
  /\ IF run[p].to \in Terminal    THEN Goto(p, "disarm")
     ELSE IF run[p].op = "eta_due" THEN Goto(p, "grace")
     ELSE Leave(p)
  /\ UNCHANGED <<trip, jobs, watchers, arrived, faults>> /\ UNCHANGED history

DisarmAll(p) ==
  /\ At(p, "disarm") /\ Disarm(Of(p)) /\ Leave(p)
  /\ UNCHANGED <<trip, watchers, arrived, faults>> /\ UNCHANGED history

-----------------------------------------------------------------------------
(* An execution throws or its process dies. A job is started again: at once, *)
(* or when its lock is old. Nothing takes up what a request had left to do. *)

Unresumed(p) ==
  \/ run[p].at \in {"arm", "arm_eta", "arm_max"}
  \/ run[p].to \in Alert /\ run[p].at \in {"card", "push"}
  \/ run[p].op = "eta_due" /\ run[p].at \in {"card", "push", "grace"}

Crash(p) ==
  LET t == Of(p) IN
  /\ ~At(p, "idle") /\ faults < MaxFaults /\ faults' = faults + 1
  /\ Start(p, Idle)
  /\ jobs' = IF p \in Workers /\ jobs[t][run[p].op] = p
             THEN [jobs EXCEPT ![t][run[p].op] = "free"] ELSE jobs
  /\ derailed' = IF Unresumed(p) THEN derailed \union {t} ELSE derailed
  /\ UNCHANGED <<trip, watchers, arrived, silent>>

-----------------------------------------------------------------------------
Continue(p) ==
  \/ Insert(p) \/ Extend(p) \/ ArmFirst(p) \/ ArmEta(p) \/ ArmMax(p) \/ Revoke(p) \/ Unwatched(p)
  \/ Check(p) \/ Grace(p) \/ End(p)
  \/ Avant(p) \/ Write(p) \/ Card(p) \/ Push(p) \/ DisarmAll(p)

Request(r, t) ==
  \/ \E op \in {"create", "create_sos"} : Create(r, t, op)
  \/ \E op \in DOMAIN Goal : Ask(r, t, op)
  \/ Position(r, t) \/ AskRevoke(r, t)

Next ==
  \/ \E p \in Procs : Continue(p) \/ Crash(p)
  \/ \E t \in Trips : \/ \E r \in Requests : Request(r, t)
                      \/ \E w \in Workers, k \in Kinds : Take(w, t, k)

Spec == Init /\ [][Next]_vars

(* An execution under way goes on; a deadline is reached and a worker that   *)
(* is free again and again takes its row. The owner need not do anything.   *)
Fairness ==
  /\ \A p \in Procs : WF_vars(Continue(p))
  /\ \A t \in Trips, k \in Kinds : SF_vars(\E w \in Workers : Take(w, t, k))

FairSpec == Spec /\ Fairness

-----------------------------------------------------------------------------
(* Properties                                                              *)

\* Every variable stays in its range, a locked row belongs to the worker that
\* executes it, and there is nothing of a trip before its row.
TypeOK ==
  /\ trip \in [Trips -> States]
  /\ jobs \in [Trips -> [Kinds -> {"none", "free"} \union Workers]]
  /\ watchers \in [Trips -> SUBSET Circle] /\ arrived \subseteq Trips
  /\ run \in [Procs -> Runs] /\ faults \in 0 .. MaxFaults
  /\ silent \in [Trips -> Ops \union {"none"}] /\ derailed \subseteq Trips
  /\ \A t \in Trips, k \in Kinds : jobs[t][k] \in Workers =>
       LET w == jobs[t][k] IN run[w].op = k /\ Of(w) = t
  /\ \A t \in Trips : trip[t] = "none" =>
       watchers[t] = {} /\ \A k \in Kinds : jobs[t][k] = "none"

\* Whoever is about a trip.
Quiet(t) == \A p \in Procs : Of(p) # t

\* The promise is in a row of the queue: an active trip that nobody is busy with
\* has its deadline armed, after any number of extensions, arrivals, handlers
\* and crashes, unless an execution died where nothing resumes it, or wrote
\* or armed the trip after another had written it.
DeadlineArmed ==
  \A t \in Trips : trip[t] = "active" /\ Quiet(t) =>
    jobs[t]["eta_due"] # "none" \/ t \in derailed

\* A trip that was closed stays closed and is not alerted about, whatever is
\* still in the queue or executed twice, but for the executions that had read
\* it open before.
ClosedIsQuiet ==
  [][\A t \in Trips : trip[t] \in Terminal /\ trip'[t] # trip[t] =>
       \E p \in Procs : Of(p) = t /\ run[p].late]_vars

\* When the deadline itself asked for the confirmation, and the owner does not
\* act, the trip does not stay there: the circle is told, or the trip is closed.
SilenceEscalates ==
  \A t \in Trips : silent[t] = "eta_due" ~> silent[t] # "eta_due" \/ t \in derailed

\* The header of tripWorkers.js promises that if nobody confirms the circle is
\* told: whatever asked for the confirmation, the deadline, an arrival or the
\* longest duration, a trip whose owner does not act does not wait for ever.
UnconfirmedReachesCircle == \A t \in Trips : silent[t] # "none" ~> silent[t] = "none"
=============================================================================
