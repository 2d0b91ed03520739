-------------------------------- MODULE JobQueue --------------------------------
(***************************************************************************)
(* The job queue of services/jobQueue.js: the table job_queue, the clients  *)
(* that put rows in it or take them out, and the workers that execute them, *)
(* one at a time each (the flag "running"), every second.                  *)
(*                                                                         *)
(* Each SQL statement is a step, and so is the transaction that locks a    *)
(* row; everything else interleaves: the handler runs after the commit.    *)
(***************************************************************************)
EXTENDS Integers, FiniteSets

CONSTANTS Keys,         \* pairs of a kind and a dedupe key
          NoKey,        \* a row without dedupe key: never a duplicate
          Workers,      \* server processes with JOB_WORKER_ENABLED
          Knows,        \* worker -> keys whose kind it has a handler for
          None,
          MaxAttempts,  \* max_attempts
          MaxJobs,      \* bound: rows ever inserted
          MaxFaults     \* bound: crashes, failed statements, slow handlers

ASSUME JobQueueAssumption ==
  /\ MaxAttempts \in Nat \ {0} /\ MaxJobs \in Nat /\ MaxFaults \in Nat
  /\ Knows \in [Workers -> SUBSET (Keys \union {NoKey})]
  /\ NoKey \notin Keys /\ None \notin Workers

Ids == 1 .. MaxJobs

VARIABLES
  rows,      \* id -> row of job_queue
  nextId,    \* AUTO_INCREMENT
  reviving,  \* keys whose failed row was deleted by an enqueue under way
  run,       \* worker -> execution of processOneJob
  faults,    \* so far
  returned,  \* history: rows whose handler has returned
  outlived,  \* history: rows locked for longer than ORPHAN_MS by a live execution
  starts     \* history: id -> executions started

vars == <<rows, nextId, reviving, run, faults, returned, outlived, starts>>

Row(there, k) == [there |-> there, key |-> k, due |-> FALSE, attempts |-> 0,
                  failed |-> FALSE, lock |-> None, old |-> FALSE]
NoRow     == Row(FALSE, NoKey)
NewRow(k) == Row(TRUE, k)
Rows == [there : BOOLEAN, key : Keys \union {NoKey}, due : BOOLEAN,
         attempts : 0 .. MaxAttempts, failed : BOOLEAN, lock : Workers \union {None}, old : BOOLEAN]

\* The job of an execution, as it was when it was locked.
Resting == [at |-> "idle", id |-> 0, attempts |-> 0]
Runs    == [at : {"idle", "handler", "delete", "settle"}, id : Ids \union {0},
            attempts : 0 .. MaxAttempts - 1]

There   == {i \in Ids : rows[i].there}
Of(k)   == {i \in There : rows[i].key = k}
Busy(w, i)  == run[w].at # "idle" /\ run[w].id = i
History     == <<returned, outlived, starts>>

Init ==
  /\ rows = [i \in Ids |-> NoRow] /\ nextId = 1 /\ reviving = {}
  /\ run = [w \in Workers |-> Resting]
  /\ faults = 0 /\ returned = {} /\ outlived = {} /\ starts = [i \in Ids |-> 0]

-----------------------------------------------------------------------------
(* Clients                                                                 *)

Without(I) == [i \in Ids |-> IF i \in I THEN NoRow ELSE rows[i]]

\* INSERT ... ON DUPLICATE KEY UPDATE id = id: a row with the key, whatever its
\* state, makes it a no-op. When it is due is up to ComesDue.
Insert(k) ==
  IF k # NoKey /\ Of(k) # {}
  THEN UNCHANGED <<rows, nextId>>
  ELSE /\ nextId \in Ids
       /\ rows' = [rows EXCEPT ![nextId] = NewRow(k)]
       /\ nextId' = nextId + 1

Enqueue(k) ==
  /\ Insert(k)
  /\ UNCHANGED <<reviving, run, faults>> /\ UNCHANGED History

\* enqueue with reviveFailed: a DELETE of the failed row, then the INSERT.
Revive(k) ==
  /\ k \notin reviving
  /\ rows' = Without({i \in Of(k) : rows[i].failed})
  /\ reviving' = reviving \union {k}
  /\ UNCHANGED <<nextId, run, faults>> /\ UNCHANGED History

EnqueueRevived(k) ==
  /\ k \in reviving
  /\ Insert(k)
  /\ reviving' = reviving \ {k}
  /\ UNCHANGED <<run, faults>> /\ UNCHANGED History

\* cancelByDedupeKey, and an administrator's DELETE of a row that is not failed:
\* locked rows go too, and their execution goes on.
Cancel(k) ==
  /\ Of(k) # {}
  /\ rows' = Without(Of(k))
  /\ UNCHANGED <<nextId, reviving, run, faults>> /\ UNCHANGED History

CancelRow(i) ==
  /\ i \in There /\ ~rows[i].failed
  /\ rows' = Without({i})
  /\ UNCHANGED <<nextId, reviving, run, faults>> /\ UNCHANGED History

\* The nightly purge of the rows that failed a month ago.
PurgeFailed(i) ==
  /\ i \in There /\ rows[i].failed
  /\ rows' = Without({i})
  /\ UNCHANGED <<nextId, reviving, run, faults>> /\ UNCHANGED History

-----------------------------------------------------------------------------
(* Workers                                                                 *)

\* Mutants: reclaimOrphans forgets the age of the lock; it looks at failed rows.
AnyLock(i)   == rows[i].lock # None /\ ~rows[i].failed
FailedLock(i) == rows[i].lock # None /\ rows[i].failed /\ rows[i].old

Orphan(i) == rows[i].lock # None /\ ~rows[i].failed /\ rows[i].old

\* reclaimOrphans, at the start of a tick.
Reclaim(w) ==
  LET I == {i \in There : Orphan(i)}
  IN /\ run[w].at = "idle" /\ I # {}
     /\ rows' = [i \in Ids |-> IF i \in I THEN [rows[i] EXCEPT !.lock = None, !.old = FALSE]
                                          ELSE rows[i]]
     /\ UNCHANGED <<nextId, reviving, run, faults>> /\ UNCHANGED History

\* _prendreUnJob: a row that is due, neither failed nor locked, of a kind w has
\* a handler for. The one due first is taken: the model takes any.
Ready(w, i) ==
  /\ i \in There /\ rows[i].due /\ ~rows[i].failed /\ rows[i].lock = None
  /\ rows[i].key \in Knows[w]

Take(w, i) ==
  /\ run[w].at = "idle" /\ Ready(w, i)
  /\ rows' = [rows EXCEPT ![i] = [@ EXCEPT !.lock = w, !.old = FALSE]]
  /\ run' = [run EXCEPT ![w] = [at |-> "handler", id |-> i, attempts |-> rows[i].attempts]]
  /\ starts' = [starts EXCEPT ![i] = @ + 1]
  /\ UNCHANGED <<nextId, reviving, faults, returned, outlived>>

Goto(w, pt) == run' = [run EXCEPT ![w] = [@ EXCEPT !.at = pt]]
Rest(w)     == run' = [run EXCEPT ![w] = Resting]

\* The handler returns, or throws.
Return(w) ==
  /\ run[w].at = "handler" /\ Goto(w, "delete")
  /\ returned' = returned \union {run[w].id}
  /\ UNCHANGED <<rows, nextId, reviving, faults, outlived, starts>>

\* Mutant: the handler is not awaited, so that what it throws is lost.
ThrowUnseen(w) ==
  /\ run[w].at = "handler" /\ Goto(w, "delete")
  /\ UNCHANGED <<rows, nextId, reviving, faults>> /\ UNCHANGED History

Throw(w) ==
  /\ run[w].at = "handler" /\ Goto(w, "settle")
  /\ UNCHANGED <<rows, nextId, reviving, faults>> /\ UNCHANGED History

DeleteDone(w) ==
  /\ run[w].at = "delete"
  /\ rows' = Without({run[w].id}) /\ Rest(w)
  /\ UNCHANGED <<nextId, reviving, faults>> /\ UNCHANGED History

\* Mutants: one attempt too many; a failed attempt is not counted.
LastAttemptLate(n) == n > MaxAttempts
Uncounted(w)       == run[w].attempts

LastAttempt(n) == n >= MaxAttempts
Counted(w)     == run[w].attempts + 1

\* _solderEchec: the attempts are those of the job as it was locked; the lock
\* is taken off whoever holds it; with the last attempt the row fails for good.
Settle(w) ==
  LET i == run[w].id
      n == Counted(w)
  IN /\ run[w].at = "settle" /\ Rest(w)
     /\ rows' = IF i \notin There THEN rows
                ELSE [rows EXCEPT ![i] =
                        IF LastAttempt(n)
                        THEN [@ EXCEPT !.attempts = n, !.failed = TRUE, !.lock = None, !.old = FALSE]
                        ELSE [@ EXCEPT !.attempts = n, !.due = FALSE, !.lock = None, !.old = FALSE]]
     /\ UNCHANGED <<nextId, reviving, faults>> /\ UNCHANGED History

-----------------------------------------------------------------------------
(* Time and faults                                                         *)

\* run_after is reached.
ComesDue(i) ==
  /\ i \in There /\ ~rows[i].due
  /\ rows' = [rows EXCEPT ![i] = [@ EXCEPT !.due = TRUE]]
  /\ UNCHANGED <<nextId, reviving, run, faults>> /\ UNCHANGED History

Fault == faults < MaxFaults /\ faults' = faults + 1

\* A lock gets ten minutes old: its worker is gone, or its handler is slow.
GrowsOld(i) ==
  /\ i \in There /\ rows[i].lock # None /\ ~rows[i].old
  /\ rows' = [rows EXCEPT ![i] = [@ EXCEPT !.old = TRUE]]
  /\ IF \E w \in Workers : Busy(w, i)
     THEN Fault /\ outlived' = outlived \union {i}
     ELSE UNCHANGED <<faults, outlived>>
  /\ UNCHANGED <<nextId, reviving, run, returned, starts>>

\* The DELETE of a done job fails: the attempt counts as a failure.
DeleteFails(w) ==
  /\ run[w].at = "delete" /\ Fault /\ Goto(w, "settle")
  /\ UNCHANGED <<rows, nextId, reviving>> /\ UNCHANGED History

\* The worker dies, or the UPDATE that settles a failure fails: the row stays
\* locked for nobody.
Crash(w) ==
  /\ run[w].at # "idle" /\ Fault /\ Rest(w)
  /\ UNCHANGED <<rows, nextId, reviving>> /\ UNCHANGED History

-----------------------------------------------------------------------------
Client ==
  \/ \E k \in Keys \union {NoKey} : Enqueue(k)
  \/ \E k \in Keys : Revive(k) \/ EnqueueRevived(k) \/ Cancel(k)
  \/ \E i \in Ids : CancelRow(i) \/ PurgeFailed(i)

Work(w) == Return(w) \/ Throw(w) \/ DeleteDone(w) \/ Settle(w)

Next ==
  \/ Client
  \/ \E w \in Workers : Work(w) \/ Reclaim(w) \/ DeleteFails(w) \/ Crash(w)
                        \/ \E i \in Ids : Take(w, i)
  \/ \E i \in Ids : ComesDue(i) \/ GrowsOld(i)

Spec == Init /\ [][Next]_vars

(* A handler ends; time passes; a worker ticks every second, and takes the   *)
(* row that has been due for longest, so a row that is due again and again *)
(* while workers are free is taken.                                        *)
Fairness ==
  /\ \A w \in Workers : WF_vars(Work(w)) /\ SF_vars(Reclaim(w))
  /\ \A i \in Ids : /\ WF_vars(ComesDue(i)) /\ WF_vars(GrowsOld(i))
                    /\ SF_vars(\E w \in Workers : Take(w, i))

FairSpec == Spec /\ Fairness

-----------------------------------------------------------------------------
(* Properties                                                              *)

\* Every variable stays in its range, a row that may be executed again has an
\* attempt left, and only rows that were inserted are in the table or executed.
TypeOK ==
  /\ rows \in [Ids -> Rows] /\ nextId \in 1 .. MaxJobs + 1 /\ reviving \subseteq Keys
  /\ run \in [Workers -> Runs] /\ faults \in 0 .. MaxFaults
  /\ returned \subseteq Ids /\ outlived \subseteq Ids /\ starts \in [Ids -> Nat]
  /\ \A i \in Ids : /\ i >= nextId => ~rows[i].there
                    /\ rows[i].attempts = MaxAttempts => rows[i].failed
  /\ \A w \in Workers : run[w].at # "idle" => run[w].id \in Ids /\ run[w].id < nextId

\* Whatever is cancelled, armed again, reclaimed or retried, two executions of
\* one row run at the same time only if one of them has outlived its lock: a
\* handler shorter than ORPHAN_MS is alone.
OneRunner ==
  \A i \in Ids \ outlived : \A v, w \in Workers : Busy(v, i) /\ Busy(w, i) => v = w

\* A row that was accepted leaves the table when its own handler has returned,
\* when somebody takes it out, or after it failed for good; never because an
\* earlier row of the same key was done.
AcceptedIsServed ==
  [][\A i \in Ids :
       rows[i].there /\ ~rows[i].failed /\ ~rows'[i].there =>
         i \in returned \/ CancelRow(i) \/ \E k \in Keys : Cancel(k)]_vars

\* Without a crash, a failed statement or a slow handler, a row is executed at
\* most MaxAttempts times; each execution that was lost allows one more, as
\* long as no handler outlives its lock.
AttemptsBounded ==
  outlived = {} => \A i \in Ids : starts[i] <= MaxAttempts + faults

\* A row that is in the table leaves it or fails for good: no lock, crash, retry
\* or cancelled neighbour holds it there for ever.
JobEnds ==
  \A i \in Ids : rows[i].there /\ ~rows[i].failed ~> ~rows[i].there \/ rows[i].failed
=============================================================================
