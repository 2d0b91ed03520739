----------------------------- MODULE JobQueueProofs -----------------------------
(***************************************************************************)
(* Proofs about JobQueue, for any keys, workers, kinds and bounds: types,  *)
(* the single execution of a row within its lock, the bound on its         *)
(* executions, and that only its own handler, or a client, removes it.     *)
(***************************************************************************)
EXTENDS JobQueue, TLAPS

\* A lock is on a row that may still be executed.
LocksOK(R) == \A i \in Ids : R[i].lock # None => ~R[i].failed

\* Until it outlives its lock, an execution holds the lock of its row and knows
\* its attempts; after its row is gone it is still the only one.
HeldOK ==
  \A i \in Ids \ outlived : \A w \in Workers :
    Busy(w, i) /\ rows[i].there =>
      rows[i].lock = w /\ ~rows[i].old /\ run[w].attempts = rows[i].attempts

\* Each execution is counted by the attempts of the row, is under way, or was
\* lost to a fault.
Spent(i) == rows[i].attempts + faults
CountOK ==
  outlived = {} =>
    \A i \in Ids :
      /\ rows[i].there /\ (\A w \in Workers : ~Busy(w, i)) => starts[i] <= Spent(i)
      /\ rows[i].there => starts[i] <= Spent(i) + 1
      /\ ~rows[i].there => starts[i] <= MaxAttempts + faults

FreshOK == \A i \in Ids : i >= nextId => starts[i] = 0
DoneOK  == \A w \in Workers : run[w].at = "delete" => run[w].id \in returned

Inv == TypeOK /\ LocksOK(rows) /\ HeldOK /\ OneRunner /\ CountOK /\ FreshOK /\ DoneOK

-----------------------------------------------------------------------------
\* The invariant holds at the start.
LEMMA InitInv == Init => Inv
<1> SUFFICES ASSUME Init PROVE Inv
  OBVIOUS
<1>1. NoRow \in Rows /\ Resting \in Runs
  BY JobQueueAssumption DEF NoRow, Row, Rows, Resting, Runs
<1>2. TypeOK
  <2>1. 1 \in 1 .. MaxJobs + 1 /\ 0 \in 0 .. MaxFaults /\ 0 # MaxAttempts
    BY JobQueueAssumption
  <2>2. rows \in [Ids -> Rows] /\ run \in [Workers -> Runs] /\ starts \in [Ids -> Nat]
    BY <1>1 DEF Init
  <2>3. \A i \in Ids : ~rows[i].there /\ rows[i].attempts = 0
    BY DEF Init, NoRow, Row
  <2>4. \A w \in Workers : run[w].at = "idle"
    BY DEF Init, Resting
  <2> QED BY <2>1, <2>2, <2>3, <2>4 DEF Init, TypeOK
<1>3. \A w \in Workers, i \in Ids : ~Busy(w, i)
  BY DEF Init, Busy, Resting
<1>4. LocksOK(rows) /\ HeldOK /\ OneRunner /\ FreshOK /\ DoneOK
  BY <1>3 DEF Init, LocksOK, HeldOK, OneRunner, FreshOK, DoneOK, NoRow, Row, Resting, Ids
<1>5. CountOK
  BY <1>2, JobQueueAssumption DEF Init, CountOK, NoRow, Row, TypeOK, Ids, Spent
<1> QED BY <1>2, <1>4, <1>5 DEF Inv

\* Taking rows out, and inserting one under a fresh identifier, keep it.
LEMMA Takeout ==
  ASSUME Inv, NEW I, rows' = Without(I), run' = run, nextId' = nextId, faults' = faults,
         UNCHANGED History, reviving' \subseteq Keys
  PROVE  Inv'
<1>1. \A i \in Ids : rows'[i] = IF i \in I THEN NoRow ELSE rows[i]
  BY DEF Without
<1>2. NoRow \in Rows /\ rows' \in [Ids -> Rows]
  BY JobQueueAssumption DEF NoRow, Row, Rows, Without, Inv, TypeOK
<1>3. TypeOK'
  BY <1>1, <1>2, JobQueueAssumption DEF Inv, TypeOK, History, NoRow, Row
<1>4. LocksOK(rows') /\ HeldOK' /\ OneRunner' /\ FreshOK' /\ DoneOK'
  BY <1>1 DEF Inv, LocksOK, HeldOK, OneRunner, FreshOK, DoneOK, Busy, History, NoRow, Row
<1>5. CountOK'
  <2> SUFFICES ASSUME outlived = {}, NEW i \in Ids
               PROVE  /\ rows'[i].there /\ (\A w \in Workers : ~Busy(w, i)) => starts[i] <= Spent(i)'
                      /\ rows'[i].there => starts[i] <= Spent(i)' + 1
                      /\ ~rows'[i].there => starts[i] <= MaxAttempts + faults
    BY DEF CountOK, History, Busy
  <2>1. /\ rows[i].attempts \in 0 .. MaxAttempts /\ faults \in Nat /\ starts[i] \in Nat
        /\ MaxAttempts \in Nat
        /\ rows[i].attempts = MaxAttempts => rows[i].failed
    BY JobQueueAssumption DEF Inv, TypeOK, Rows
  <2>2. CASE i \notin I
    BY <1>1, <2>2 DEF Inv, CountOK, Spent
  <2>3. CASE i \in I
    <3>1. ~rows'[i].there
      BY <1>1, <2>3 DEF NoRow, Row
    <3>2. CASE ~rows[i].there
      BY <3>1, <3>2 DEF Inv, CountOK
    <3>3. CASE rows[i].there /\ \E w \in Workers : Busy(w, i)
      <4>1. ~rows[i].failed
        BY <3>3, JobQueueAssumption DEF Inv, HeldOK, LocksOK
      <4> QED BY <2>1, <3>1, <3>3, <4>1 DEF Inv, CountOK, Spent
    <3>4. CASE rows[i].there /\ \A w \in Workers : ~Busy(w, i)
      BY <2>1, <3>1, <3>4 DEF Inv, CountOK, Spent
    <3> QED BY <3>2, <3>3, <3>4
  <2> QED BY <2>2, <2>3
<1> QED BY <1>3, <1>4, <1>5 DEF Inv

\* An INSERT, whether it finds its key or not, keeps it.
LEMMA InsertInv ==
  ASSUME Inv, NEW k \in Keys \union {NoKey}, Insert(k), run' = run, faults' = faults,
         UNCHANGED History, reviving' \subseteq Keys
  PROVE  Inv'
<1>1. CASE UNCHANGED <<rows, nextId>>
  BY <1>1 DEF Inv, TypeOK, LocksOK, HeldOK, OneRunner, CountOK, FreshOK, DoneOK, Busy, Spent, History
<1>2. CASE nextId \in Ids /\ rows' = [rows EXCEPT ![nextId] = NewRow(k)] /\ nextId' = nextId + 1
  <2>1. NewRow(k) = [there |-> TRUE, key |-> k, due |-> FALSE, attempts |-> 0,
                     failed |-> FALSE, lock |-> None, old |-> FALSE]
    BY DEF NewRow, Row
  <2>2. NewRow(k) \in Rows
    BY <2>1, JobQueueAssumption DEF Rows
  <2>3. rows \in [Ids -> Rows] /\ nextId \in Nat /\ nextId + 1 \in 1 .. MaxJobs + 1
    BY <1>2, JobQueueAssumption DEF Inv, TypeOK, Ids
  <2>4. \A i \in Ids : rows'[i] = IF i = nextId THEN NewRow(k) ELSE rows[i]
    BY <1>2, <2>3
  <2>5. \A w \in Workers : ~Busy(w, nextId)
    BY <1>2, <2>3 DEF Inv, TypeOK, Busy, Ids
  <2>6. \A i \in Ids : i \in Int
    BY JobQueueAssumption DEF Ids
  <2>7. TypeOK'
    <3>1. rows' \in [Ids -> Rows]
      BY <1>2, <2>2, <2>3
    <3>2. \A i \in Ids : /\ i >= nextId' => ~rows'[i].there
                         /\ rows'[i].attempts = MaxAttempts => rows'[i].failed
      BY <1>2, <2>1, <2>3, <2>4, <2>6, JobQueueAssumption DEF Inv, TypeOK
    <3>3. \A w \in Workers : run[w].at # "idle" => run[w].id \in Ids /\ run[w].id < nextId'
      <4> TAKE w \in Workers
      <4>1. run[w].at # "idle" => run[w].id \in Ids /\ run[w].id < nextId
        BY DEF Inv, TypeOK
      <4>2. nextId' = nextId + 1 /\ (run[w].id \in Ids => run[w].id \in Int)
        BY <1>2, <2>6
      <4> QED BY <2>3, <4>1, <4>2
    <3> QED BY <1>2, <2>3, <3>1, <3>2, <3>3 DEF Inv, TypeOK, History
  <2>8. LocksOK(rows') /\ HeldOK' /\ OneRunner' /\ DoneOK'
    BY <2>1, <2>4, <2>5 DEF Inv, LocksOK, HeldOK, OneRunner, DoneOK, Busy, History
  <2>9. FreshOK'
    BY <1>2, <2>3, <2>6 DEF Inv, FreshOK, History
  <2>10. CountOK'
    BY <1>2, <2>1, <2>3, <2>4, <2>5, JobQueueAssumption
       DEF Inv, CountOK, FreshOK, Spent, History, Busy, TypeOK
  <2> QED BY <2>7, <2>8, <2>9, <2>10 DEF Inv
<1> QED BY <1>1, <1>2 DEF Insert

\* What clients do keeps the invariant.
LEMMA ClientInv == Inv /\ Client => Inv'
<1>1. ASSUME Inv, NEW k \in Keys \union {NoKey}, Enqueue(k) PROVE Inv'
  BY <1>1, InsertInv DEF Enqueue, Inv, TypeOK
<1>2. ASSUME Inv, NEW k \in Keys, Revive(k) PROVE Inv'
  BY <1>2, Takeout DEF Revive, Inv, TypeOK
<1>3. ASSUME Inv, NEW k \in Keys, EnqueueRevived(k) PROVE Inv'
  BY <1>3, InsertInv DEF EnqueueRevived, Inv, TypeOK
<1>4. ASSUME Inv, NEW k \in Keys, Cancel(k) PROVE Inv'
  BY <1>4, Takeout DEF Cancel, Inv, TypeOK
<1>5. ASSUME Inv, NEW i \in Ids, CancelRow(i) \/ PurgeFailed(i) PROVE Inv'
  BY <1>5, Takeout DEF CancelRow, PurgeFailed, Inv, TypeOK
<1> QED BY <1>1, <1>2, <1>3, <1>4, <1>5 DEF Client

-----------------------------------------------------------------------------
\* The facts about numbers that the bounds need.
LEMMA Numbers ==
  ASSUME TypeOK
  PROVE  /\ faults \in Nat /\ MaxAttempts \in Nat /\ MaxAttempts > 0
         /\ \A i \in Ids : starts[i] \in Nat /\ rows[i].attempts \in 0 .. MaxAttempts
         /\ \A w \in Workers : run[w] \in Runs /\ run[w].attempts \in 0 .. MaxAttempts - 1
BY JobQueueAssumption DEF TypeOK, Rows, Runs

\* A step that changes rows only, and neither their presence nor their attempts,
\* and takes or ages no lock of an execution under way.
LEMMA RowStep ==
  ASSUME Inv, rows' \in [Ids -> Rows],
         \A i \in Ids : /\ rows'[i].there = rows[i].there
                        /\ rows'[i].attempts = rows[i].attempts
                        /\ rows'[i].failed = rows[i].failed
                        /\ rows'[i].lock \in {rows[i].lock, None},
         \A i \in Ids \ outlived' : \A w \in Workers :
           Busy(w, i) => rows'[i].lock = rows[i].lock /\ rows'[i].old = rows[i].old,
         UNCHANGED <<nextId, reviving, run, returned, starts>>,
         faults' \in 0 .. MaxFaults, faults' >= faults, outlived \subseteq outlived',
         outlived' \subseteq Ids
  PROVE  Inv'
<1>1. TypeOK'
  BY DEF Inv, TypeOK
<1>2. LocksOK(rows') /\ HeldOK' /\ OneRunner' /\ FreshOK' /\ DoneOK'
  BY DEF Inv, LocksOK, HeldOK, OneRunner, FreshOK, DoneOK, Busy
<1>3. CountOK'
  BY Numbers, <1>1 DEF Inv, CountOK, Spent, Busy, TypeOK
<1> QED BY <1>1, <1>2, <1>3 DEF Inv

\* Reclaiming, coming due and growing old are such steps.
LEMMA RowActions ==
  ASSUME Inv, \/ \E w \in Workers : Reclaim(w)
              \/ \E i \in Ids : ComesDue(i) \/ GrowsOld(i)
  PROVE  Inv'
<1>1. rows \in [Ids -> Rows] /\ faults \in 0 .. MaxFaults /\ outlived \subseteq Ids
  BY DEF Inv, TypeOK
<1>2. \A i \in Ids : rows[i] \in Rows
  BY <1>1
<1>3. ASSUME NEW w \in Workers, Reclaim(w) PROVE Inv'
  <2> DEFINE I == {i \in There : Orphan(i)}
  <2>1. \A i \in Ids : rows'[i] = IF i \in I THEN [rows[i] EXCEPT !.lock = None, !.old = FALSE]
                                             ELSE rows[i]
    BY <1>3 DEF Reclaim
  <2>2. rows' \in [Ids -> Rows]
    BY <1>2, <1>3 DEF Reclaim, Rows
  <2>3. \A i \in I : rows[i].there /\ rows[i].old
    BY DEF There, Orphan
  <2>4. \A i \in Ids \ outlived : \A v \in Workers : Busy(v, i) => i \notin I
    BY <2>3 DEF Inv, HeldOK
  <2>5. \A i \in Ids : /\ rows'[i].there = rows[i].there
                       /\ rows'[i].attempts = rows[i].attempts
                       /\ rows'[i].failed = rows[i].failed
                       /\ rows'[i].lock \in {rows[i].lock, None}
    BY <1>2, <2>1 DEF Rows
  <2>6. UNCHANGED <<nextId, reviving, run, returned, starts, faults, outlived>>
    BY <1>3 DEF Reclaim, History
  <2>7. \A i \in Ids \ outlived' : \A v \in Workers :
           Busy(v, i) => rows'[i].lock = rows[i].lock /\ rows'[i].old = rows[i].old
    <3> HIDE DEF I
    <3> QED BY <2>1, <2>4, <2>6
  <2>8. /\ faults' \in 0 .. MaxFaults /\ faults' >= faults
        /\ outlived \subseteq outlived' /\ outlived' \subseteq Ids
    BY <1>1, <2>6, JobQueueAssumption
  <2> QED BY <2>2, <2>5, <2>6, <2>7, <2>8, RowStep
<1>4. ASSUME NEW i \in Ids, ComesDue(i) PROVE Inv'
  <2>1. rows' \in [Ids -> Rows]
    BY <1>1, <1>2, <1>4 DEF ComesDue, Rows
  <2>2. \A j \in Ids : /\ rows'[j].there = rows[j].there
                       /\ rows'[j].attempts = rows[j].attempts
                       /\ rows'[j].failed = rows[j].failed
                       /\ rows'[j].lock = rows[j].lock /\ rows'[j].old = rows[j].old
    BY <1>1, <1>2, <1>4 DEF ComesDue, Rows
  <2>3. UNCHANGED <<nextId, reviving, run, returned, starts, faults, outlived>>
    BY <1>4 DEF ComesDue, History
  <2>4. /\ faults' \in 0 .. MaxFaults /\ faults' >= faults
        /\ outlived \subseteq outlived' /\ outlived' \subseteq Ids
    BY <1>1, <2>3, JobQueueAssumption
  <2> QED BY <2>1, <2>2, <2>3, <2>4, RowStep
<1>5. ASSUME NEW i \in Ids, GrowsOld(i) PROVE Inv'
  <2>1. rows' \in [Ids -> Rows]
    BY <1>1, <1>2, <1>5 DEF GrowsOld, Rows
  <2>2. \A j \in Ids : /\ rows'[j].there = rows[j].there
                       /\ rows'[j].attempts = rows[j].attempts
                       /\ rows'[j].failed = rows[j].failed
                       /\ rows'[j].lock = rows[j].lock
                       /\ j # i => rows'[j].old = rows[j].old
    BY <1>1, <1>2, <1>5 DEF GrowsOld, Rows
  <2>3. UNCHANGED <<nextId, reviving, run, returned, starts>>
    BY <1>5 DEF GrowsOld
  <2>4. /\ faults' \in 0 .. MaxFaults /\ faults' >= faults
        /\ outlived \subseteq outlived' /\ outlived' \subseteq Ids
        /\ (\E w \in Workers : Busy(w, i)) => i \in outlived'
    BY <1>1, <1>5, JobQueueAssumption DEF GrowsOld, Fault
  <2> QED BY <1>1, <2>1, <2>2, <2>3, <2>4, RowStep
<1> QED BY <1>3, <1>4, <1>5

-----------------------------------------------------------------------------
\* An execution that goes on is still the one of its row.
LEMMA GoesOn ==
  ASSUME Inv, NEW w \in Workers, NEW pt \in {"delete", "settle"},
         run[w].at # "idle", Goto(w, pt), UNCHANGED <<rows, nextId, reviving, outlived, starts>>,
         returned \subseteq returned', returned' \subseteq Ids,
         pt = "delete" => run[w].id \in returned',
         faults' \in 0 .. MaxFaults, faults' >= faults
  PROVE  Inv'
<1>1. run \in [Workers -> Runs]
  BY DEF Inv, TypeOK
<1>2. \A v \in Workers : run'[v] = IF v = w THEN [run[w] EXCEPT !.at = pt] ELSE run[v]
  BY <1>1 DEF Goto
<1>3. run[w] = [at |-> run[w].at, id |-> run[w].id, attempts |-> run[w].attempts]
  BY <1>1 DEF Runs
<1>4. \A v \in Workers : /\ run'[v].id = run[v].id /\ run'[v].attempts = run[v].attempts
                         /\ run'[v].at = "idle" <=> run[v].at = "idle"
  BY <1>2, <1>3
<1>5. run' \in [Workers -> Runs]
  BY <1>1 DEF Goto, Runs
<1>6. \A v \in Workers, i \in Ids : Busy(v, i)' <=> Busy(v, i)
  BY <1>4 DEF Busy
<1>7. TypeOK'
  BY <1>4, <1>5 DEF Inv, TypeOK
<1>8. LocksOK(rows') /\ HeldOK' /\ OneRunner' /\ FreshOK'
  BY <1>4, <1>6 DEF Inv, LocksOK, HeldOK, OneRunner, FreshOK
<1>9. DoneOK'
  BY <1>2, <1>3 DEF Inv, DoneOK
<1>10. CountOK'
  BY <1>6, Numbers, <1>7 DEF Inv, CountOK, Spent, TypeOK
<1> QED BY <1>7, <1>8, <1>9, <1>10 DEF Inv

\* The end of a handler, and a DELETE that fails, are such steps.
LEMMA GoingOn ==
  ASSUME Inv, NEW w \in Workers, Return(w) \/ Throw(w) \/ DeleteFails(w)
  PROVE  Inv'
<1>1. faults \in 0 .. MaxFaults /\ returned \subseteq Ids /\ MaxFaults \in Nat
  BY JobQueueAssumption DEF Inv, TypeOK
<1>2. run[w].at # "idle" => run[w].id \in Ids
  BY DEF Inv, TypeOK
<1>3. CASE Return(w)
  BY <1>1, <1>2, <1>3, GoesOn DEF Return
<1>4. CASE Throw(w)
  BY <1>1, <1>4, GoesOn DEF Throw, History
<1>5. CASE DeleteFails(w)
  <2>1. faults' \in 0 .. MaxFaults /\ faults' >= faults
    BY <1>1, <1>5 DEF DeleteFails, Fault
  <2> QED BY <1>1, <1>5, <2>1, GoesOn DEF DeleteFails, History
<1> QED BY <1>3, <1>4, <1>5

-----------------------------------------------------------------------------
\* Taking a row: nobody else executes it, unless it has outlived a lock.
LEMMA TakeInv ==
  ASSUME Inv, NEW w \in Workers, NEW i \in Ids, Take(w, i)
  PROVE  Inv'
<1>1. /\ rows \in [Ids -> Rows] /\ run \in [Workers -> Runs] /\ starts \in [Ids -> Nat]
      /\ nextId \in Int /\ i \in Int
  BY JobQueueAssumption DEF Inv, TypeOK, Ids
<1>2. /\ rows[i] \in Rows /\ rows[i].there /\ ~rows[i].failed /\ rows[i].lock = None
      /\ run[w].at = "idle"
  BY <1>1 DEF Take, Ready, There
<1>3. \A j \in Ids : /\ rows'[j].there = rows[j].there
                     /\ rows'[j].attempts = rows[j].attempts
                     /\ rows'[j].failed = rows[j].failed
                     /\ j # i => rows'[j] = rows[j]
  BY <1>1, <1>2 DEF Take, Rows
<1>4. rows'[i].lock = w /\ ~rows'[i].old
  BY <1>1, <1>2 DEF Take, Rows
<1>5. /\ run'[w] = [at |-> "handler", id |-> i, attempts |-> rows[i].attempts]
      /\ \A v \in Workers \ {w} : run'[v] = run[v]
  BY <1>1 DEF Take
<1>6. \A v \in Workers, j \in Ids : Busy(v, j)' <=> (v = w /\ j = i) \/ (v # w /\ Busy(v, j))
  BY <1>5 DEF Busy
<1>7. i \notin outlived => \A v \in Workers : ~Busy(v, i)
  BY <1>2, JobQueueAssumption DEF Inv, HeldOK
<1>8. TypeOK'
  <2>1. rows' \in [Ids -> Rows]
    BY <1>1, <1>2 DEF Take, Rows
  <2>2. rows[i].attempts \in 0 .. MaxAttempts - 1
    <3>1. rows[i].attempts \in 0 .. MaxAttempts
      BY <1>2 DEF Rows
    <3>2. rows[i].attempts # MaxAttempts
      BY <1>2 DEF Inv, TypeOK
    <3> QED BY <3>1, <3>2, JobQueueAssumption
  <2>3. run' \in [Workers -> Runs]
    <3>1. [at |-> "handler", id |-> i, attempts |-> rows[i].attempts] \in Runs
      BY <2>2 DEF Runs
    <3> QED BY <1>1, <3>1 DEF Take
  <2>4. starts' \in [Ids -> Nat]
    BY <1>1 DEF Take
  <2>5. \A v \in Workers : run'[v].at # "idle" => run'[v].id \in Ids /\ run'[v].id < nextId
    BY <1>1, <1>2, <1>5 DEF Inv, TypeOK
  <2> QED BY <1>3, <2>1, <2>3, <2>4, <2>5 DEF Inv, TypeOK, Take
<1>9. LocksOK(rows')
  BY <1>2, <1>3 DEF Inv, LocksOK
<1>10. HeldOK' /\ OneRunner'
  <2>1. outlived' = outlived
    BY DEF Take
  <2>2. HeldOK'
    <3> SUFFICES ASSUME NEW j \in Ids \ outlived, NEW v \in Workers, Busy(v, j)', rows'[j].there
                 PROVE  /\ rows'[j].lock = v /\ ~rows'[j].old
                        /\ run'[v].attempts = rows'[j].attempts
      BY <2>1 DEF HeldOK
    <3>1. CASE v = w /\ j = i
      BY <1>3, <1>4, <1>5, <3>1
    <3>2. CASE v # w /\ Busy(v, j)
      BY <1>3, <1>5, <1>7, <3>2 DEF Inv, HeldOK
    <3> QED BY <1>6, <3>1, <3>2
  <2>3. OneRunner'
    BY <1>6, <1>7, <2>1 DEF Inv, OneRunner
  <2> QED BY <2>2, <2>3
<1>11. FreshOK' /\ DoneOK'
  BY <1>1, <1>2, <1>5 DEF Inv, FreshOK, DoneOK, TypeOK, Take
<1>12. CountOK'
  <2> SUFFICES ASSUME outlived = {}, NEW j \in Ids
               PROVE  /\ rows'[j].there /\ (\A v \in Workers : ~Busy(v, j)') => starts'[j] <= Spent(j)'
                      /\ rows'[j].there => starts'[j] <= Spent(j)' + 1
                      /\ ~rows'[j].there => starts'[j] <= MaxAttempts + faults'
    BY DEF CountOK, Take
  <2>1. Spent(j)' = Spent(j) /\ Spent(j) \in Nat /\ faults' = faults
    BY <1>3, Numbers DEF Spent, Take, Inv
  <2>2. CASE j # i
    <3>1. starts'[j] = starts[j] /\ rows'[j] = rows[j]
      BY <1>1, <1>3, <2>2 DEF Take
    <3>2. \A v \in Workers : Busy(v, j)' <=> Busy(v, j)
      BY <1>2, <1>6, <2>2 DEF Busy
    <3> QED BY <2>1, <3>1, <3>2 DEF Inv, CountOK
  <2>3. CASE j = i
    <3>1. starts'[i] = starts[i] + 1 /\ starts[i] \in Nat
      BY <1>1 DEF Take
    <3>2. starts[i] <= Spent(i)
      BY <1>2, <1>7 DEF Inv, CountOK
    <3>3. Busy(w, i)' /\ rows'[i].there
      BY <1>2, <1>3, <1>6
    <3> QED BY <2>1, <2>3, <3>1, <3>2, <3>3
  <2> QED BY <2>2, <2>3
<1> QED BY <1>8, <1>9, <1>10, <1>11, <1>12 DEF Inv

-----------------------------------------------------------------------------
\* The end of an execution: only its row changes, and it is accounted for.
LEMMA Ended ==
  ASSUME Inv, NEW w \in Workers, NEW i \in Ids, run[w].at # "idle", run[w].id = i, Rest(w),
         UNCHANGED <<nextId, reviving>>, UNCHANGED History,
         faults' \in 0 .. MaxFaults, faults' >= faults,
         rows' \in [Ids -> Rows], \A j \in Ids \ {i} : rows'[j] = rows[j],
         rows'[i].there => rows[i].there,
         rows'[i].attempts = MaxAttempts => rows'[i].failed,
         rows'[i].lock # None => ~rows'[i].failed,
         outlived = {} => starts[i] <= IF rows'[i].there THEN Spent(i)' ELSE MaxAttempts + faults'
  PROVE  Inv'
<1>1. run \in [Workers -> Runs] /\ Resting \in Runs
  BY JobQueueAssumption DEF Inv, TypeOK, Resting, Runs
<1>2. run'[w].at = "idle" /\ \A v \in Workers \ {w} : run'[v] = run[v]
  BY <1>1 DEF Rest, Resting
<1>3. \A v \in Workers, j \in Ids : Busy(v, j)' <=> v # w /\ Busy(v, j)
  BY <1>2 DEF Busy
<1>4. Busy(w, i)
  BY DEF Busy
<1>5. i \notin outlived => \A v \in Workers : ~Busy(v, i)'
  BY <1>3, <1>4 DEF Inv, OneRunner
<1>6. TypeOK'
  <2>1. run' \in [Workers -> Runs]
    BY <1>1 DEF Rest
  <2> QED BY <1>2, <2>1 DEF Inv, TypeOK, History
<1>7. LocksOK(rows')
  BY DEF Inv, LocksOK
<1>8. HeldOK' /\ OneRunner' /\ FreshOK' /\ DoneOK'
  BY <1>2, <1>3, <1>5 DEF Inv, HeldOK, OneRunner, FreshOK, DoneOK, History
<1>9. CountOK'
  <2> SUFFICES ASSUME outlived = {}, NEW j \in Ids
               PROVE  /\ rows'[j].there /\ (\A v \in Workers : ~Busy(v, j)') => starts[j] <= Spent(j)'
                      /\ rows'[j].there => starts[j] <= Spent(j)' + 1
                      /\ ~rows'[j].there => starts[j] <= MaxAttempts + faults'
    BY DEF CountOK, History
  <2>1. /\ Spent(j)' \in Nat /\ starts[j] \in Nat
    BY <1>6, Numbers, JobQueueAssumption DEF Inv, TypeOK, Rows, Spent
  <2>2. CASE j = i
    BY <2>1, <2>2
  <2>3. CASE j # i
    <3>1. \A v \in Workers : Busy(v, j)' <=> Busy(v, j)
      BY <1>3, <2>3 DEF Busy
    <3>2. rows'[j] = rows[j] /\ Spent(j) <= Spent(j)' /\ Spent(j) \in Nat
      BY <2>3, Numbers, <1>6 DEF Inv, TypeOK, Spent
    <3>3. MaxAttempts + faults <= MaxAttempts + faults' /\ MaxAttempts + faults \in Nat
      BY Numbers, <1>6 DEF Inv, TypeOK
    <3>4. starts[j] <= IF ~rows[j].there THEN MaxAttempts + faults
                       ELSE IF \A v \in Workers : ~Busy(v, j) THEN Spent(j) ELSE Spent(j) + 1
      BY DEF Inv, CountOK
    <3>5. faults' \in Nat /\ MaxAttempts \in Nat
      BY JobQueueAssumption
    <3> QED BY <2>1, <3>1, <3>2, <3>3, <3>4, <3>5
  <2> QED BY <2>2, <2>3
<1> QED BY <1>6, <1>7, <1>8, <1>9 DEF Inv

\* The three ways it ends.
LEMMA Ending ==
  ASSUME Inv, NEW w \in Workers, NEW i \in Ids, run[w].id = i,
         DeleteDone(w) \/ Settle(w) \/ Crash(w)
  PROVE  Inv'
<1>1. run[w].at # "idle" /\ Rest(w)
  BY DEF DeleteDone, Settle, Crash
<1>2. i \in Ids /\ rows[i] \in Rows /\ rows \in [Ids -> Rows] /\ run[w] \in Runs
  BY <1>1 DEF Inv, TypeOK
<1>3. /\ faults \in 0 .. MaxFaults /\ MaxFaults \in Nat /\ MaxAttempts \in Nat \ {0}
      /\ rows[i].attempts \in 0 .. MaxAttempts /\ starts[i] \in Nat
      /\ run[w].attempts \in 0 .. MaxAttempts - 1
  BY <1>2, JobQueueAssumption DEF Inv, TypeOK, Rows, Runs
<1>4. i \notin outlived /\ rows[i].there =>
        /\ rows[i].lock = w /\ run[w].attempts = rows[i].attempts
        /\ rows[i].attempts # MaxAttempts
  <2>1. Busy(w, i)
    BY <1>1 DEF Busy
  <2> QED BY <1>2, <2>1, JobQueueAssumption DEF Inv, TypeOK, HeldOK, LocksOK
<1>5. /\ rows[i].attempts = MaxAttempts => rows[i].failed
      /\ rows[i].lock # None => ~rows[i].failed
  BY <1>2 DEF Inv, TypeOK, LocksOK
<1>6. outlived = {} => starts[i] <= IF rows[i].there THEN rows[i].attempts + faults + 1
                                                    ELSE MaxAttempts + faults
  BY <1>2 DEF Inv, CountOK, Spent
<1>7. CASE DeleteDone(w)
  <2>1. rows' = Without({i}) /\ faults' = faults
    BY <1>7 DEF DeleteDone
  <2>2. NoRow \in Rows /\ ~NoRow.there /\ NoRow.attempts = 0 /\ NoRow.lock = None
    BY JobQueueAssumption DEF NoRow, Row, Rows
  <2>3. rows' \in [Ids -> Rows] /\ rows'[i] = NoRow /\ \A j \in Ids \ {i} : rows'[j] = rows[j]
    BY <1>2, <2>1, <2>2 DEF Without
  <2>4. outlived = {} => starts[i] <= MaxAttempts + faults
    BY <1>3, <1>4, <1>6
  <2>5. UNCHANGED <<nextId, reviving>> /\ UNCHANGED History
    BY <1>7 DEF DeleteDone
  <2>6. /\ rows'[i].there => rows[i].there
        /\ rows'[i].attempts = MaxAttempts => rows'[i].failed
        /\ rows'[i].lock # None => ~rows'[i].failed
    BY <1>3, <2>2, <2>3
  <2>7. outlived = {} => starts[i] <= IF rows'[i].there THEN Spent(i)' ELSE MaxAttempts + faults'
    BY <2>1, <2>2, <2>3, <2>4
  <2>8. faults' \in 0 .. MaxFaults /\ faults' >= faults
    BY <1>3, <2>1
  <2> QED BY <1>1, <1>2, <2>3, <2>5, <2>6, <2>7, <2>8, Ended
<1>8. CASE Settle(w)
  <2> DEFINE n == Counted(w)
  <2>1. n \in 1 .. MaxAttempts /\ n = run[w].attempts + 1
    BY <1>3 DEF Counted
  <2>2. faults' = faults /\ UNCHANGED <<nextId, reviving>> /\ UNCHANGED History
    BY <1>8 DEF Settle
  <2>3. CASE i \notin There
    <3>1. rows' = rows /\ ~rows[i].there
      BY <1>2, <1>8, <2>3 DEF Settle, There
    <3> QED BY <1>1, <1>2, <1>3, <1>5, <1>6, <2>2, <3>1, Ended
  <2>4. CASE i \in There
    <3> DEFINE r == IF LastAttempt(n)
                    THEN [rows[i] EXCEPT !.attempts = n, !.failed = TRUE, !.lock = None, !.old = FALSE]
                    ELSE [rows[i] EXCEPT !.attempts = n, !.due = FALSE, !.lock = None, !.old = FALSE]
    <3>1. rows' = [rows EXCEPT ![i] = r]
      BY <1>8, <2>4 DEF Settle
    <3>2. r \in Rows
      <4>1. n \in 0 .. MaxAttempts
        BY <1>3, <2>1
      <4>2. rows[i] = [there |-> rows[i].there, key |-> rows[i].key, due |-> rows[i].due,
                       attempts |-> rows[i].attempts, failed |-> rows[i].failed,
                       lock |-> rows[i].lock, old |-> rows[i].old]
        BY <1>2 DEF Rows
      <4> HIDE DEF n
      <4> QED BY <1>2, <4>1, <4>2 DEF Rows
    <3>3. /\ r.there = rows[i].there /\ r.attempts = n /\ r.lock = None
          /\ n = MaxAttempts => r.failed
      BY <1>2, <2>1, <1>3 DEF Rows, LastAttempt
    <3> HIDE DEF r
    <3>4. rows' \in [Ids -> Rows] /\ rows'[i] = r /\ \A j \in Ids \ {i} : rows'[j] = rows[j]
      BY <1>2, <3>1, <3>2
    <3>5. rows[i].there
      BY <2>4 DEF There
    <3>6. outlived = {} => starts[i] <= Spent(i)'
      <4>1. outlived = {} => starts[i] <= n + faults
        BY <1>3, <1>4, <1>6, <2>1, <3>5
      <4>2. Spent(i)' = n + faults
        BY <2>2, <3>3, <3>4 DEF Spent
      <4> QED BY <4>1, <4>2
    <3> HIDE DEF n
    <3>7. /\ rows'[i].there => rows[i].there
          /\ rows'[i].attempts = MaxAttempts => rows'[i].failed
          /\ rows'[i].lock # None => ~rows'[i].failed
      BY <3>3, <3>4
    <3>8. outlived = {} => starts[i] <= IF rows'[i].there THEN Spent(i)' ELSE MaxAttempts + faults'
      BY <3>3, <3>4, <3>5, <3>6
    <3>9. faults' \in 0 .. MaxFaults /\ faults' >= faults
      BY <1>3, <2>2
    <3> QED BY <1>1, <1>2, <2>2, <3>4, <3>7, <3>8, <3>9, Ended
  <2> QED BY <2>3, <2>4
<1>9. CASE Crash(w)
  <2>1. rows' = rows /\ UNCHANGED <<nextId, reviving>> /\ UNCHANGED History
    BY <1>9 DEF Crash
  <2>2. faults' = faults + 1 /\ faults' \in 0 .. MaxFaults /\ faults' >= faults
    BY <1>3, <1>9 DEF Crash, Fault
  <2>3. outlived = {} => starts[i] <= IF rows'[i].there THEN Spent(i)' ELSE MaxAttempts + faults'
    BY <1>3, <1>6, <2>1, <2>2 DEF Spent
  <2> QED BY <1>1, <1>2, <1>5, <2>1, <2>2, <2>3, Ended
<1> QED BY <1>7, <1>8, <1>9

-----------------------------------------------------------------------------
\* Every step keeps the invariant.
LEMMA NextInv == Inv /\ [Next]_vars => Inv'
<1> SUFFICES ASSUME Inv, [Next]_vars PROVE Inv'
  OBVIOUS
<1>1. CASE UNCHANGED vars
  BY <1>1 DEF vars, Inv, TypeOK, LocksOK, HeldOK, OneRunner, CountOK, FreshOK, DoneOK, Busy, Spent
<1>2. CASE Client
  BY <1>2, ClientInv
<1>3. ASSUME NEW w \in Workers,
             Work(w) \/ Reclaim(w) \/ DeleteFails(w) \/ Crash(w) \/ \E i \in Ids : Take(w, i)
      PROVE  Inv'
  <2>1. CASE DeleteDone(w) \/ Settle(w) \/ Crash(w)
    <3>1. run[w].id \in Ids
      BY <2>1 DEF DeleteDone, Settle, Crash, Inv, TypeOK
    <3> QED BY <2>1, <3>1, Ending
  <2> QED BY <1>3, <2>1, GoingOn, RowActions, TakeInv DEF Work
<1>4. CASE \E i \in Ids : ComesDue(i) \/ GrowsOld(i)
  BY <1>4, RowActions
<1> QED BY <1>1, <1>2, <1>3, <1>4 DEF Next

\* The invariant holds in every state.
LEMMA Invariance == Spec => []Inv
BY InitInv, NextInv, PTL DEF Spec

-----------------------------------------------------------------------------
\* Every variable of the queue stays in its range.
THEOREM TypeCorrect == Spec => []TypeOK
<1>1. Inv => TypeOK
  BY DEF Inv
<1> QED BY Invariance, <1>1, PTL

\* processOneJob: a row is executed by one worker at a time, unless an
\* execution outlived its lock.
THEOREM Alone == Spec => []OneRunner
<1>1. Inv => OneRunner
  BY DEF Inv
<1> QED BY Invariance, <1>1, PTL

\* _solderEchec: a row is executed at most MaxAttempts times, plus once for
\* every execution that a fault lost.
THEOREM Bounded == Spec => []AttemptsBounded
<1>1. Inv => AttemptsBounded
  <2> SUFFICES ASSUME Inv, outlived = {}, NEW i \in Ids
               PROVE  starts[i] <= MaxAttempts + faults
    BY DEF AttemptsBounded
  <2>1. /\ rows[i] \in Rows /\ starts[i] \in Nat /\ faults \in Nat /\ MaxAttempts \in Nat
        /\ rows[i].attempts \in 0 .. MaxAttempts
    BY JobQueueAssumption DEF Inv, TypeOK, Rows
  <2>2. CASE ~rows[i].there
    BY <2>2 DEF Inv, CountOK
  <2>3. CASE rows[i].there /\ \A w \in Workers : ~Busy(w, i)
    BY <2>1, <2>3 DEF Inv, CountOK, Spent
  <2>4. CASE rows[i].there /\ \E w \in Workers : Busy(w, i)
    <3>1. rows[i].attempts # MaxAttempts
      BY <2>1, <2>4, JobQueueAssumption DEF Inv, HeldOK, LocksOK, TypeOK
    <3> QED BY <2>1, <2>4, <3>1 DEF Inv, CountOK, Spent
  <2> QED BY <2>2, <2>3, <2>4
<1> QED BY Invariance, <1>1, PTL

\* processOneJob deletes a row only when its handler has returned; whatever else
\* takes out a row that has not failed is a cancellation.
THEOREM Served == Spec => AcceptedIsServed
<1> DEFINE Kept == \A i \in Ids :
                     rows[i].there /\ ~rows[i].failed /\ ~rows'[i].there =>
                       i \in returned \/ CancelRow(i) \/ \E k \in Keys : Cancel(k)
<1>1. Inv /\ [Next]_vars => [Kept]_vars
  <2> SUFFICES ASSUME Inv, Next, NEW i \in Ids,
                      rows[i].there, ~rows[i].failed, ~rows'[i].there
               PROVE  i \in returned \/ CancelRow(i) \/ \E k \in Keys : Cancel(k)
    OBVIOUS
  <2>1. rows \in [Ids -> Rows] /\ rows[i] \in Rows
    BY DEF Inv, TypeOK
  <2>2. ASSUME NEW I, rows' = Without(I) PROVE i \in I
    BY <2>2 DEF Without
  <2>3. ASSUME NEW k \in Keys \union {NoKey}, Insert(k) PROVE FALSE
    BY <2>1, <2>3 DEF Insert, NewRow, Row
  <2>4. CASE Client
    BY <2>2, <2>3, <2>4 DEF Client, Enqueue, Revive, EnqueueRevived, CancelRow, PurgeFailed
  <2>5. ASSUME NEW w \in Workers, DeleteDone(w) PROVE i \in returned
    BY <2>2, <2>5 DEF DeleteDone, Inv, DoneOK
  <2>6. ASSUME NEW w \in Workers, Return(w) \/ Throw(w) \/ DeleteFails(w) \/ Crash(w) PROVE FALSE
    BY <2>6 DEF Return, Throw, DeleteFails, Crash
  <2>7. ASSUME NEW w \in Workers, Settle(w) PROVE FALSE
    BY <2>1, <2>7 DEF Settle, Rows
  <2>8. ASSUME NEW w \in Workers, Reclaim(w) PROVE FALSE
    BY <2>1, <2>8 DEF Reclaim, Rows
  <2>9. ASSUME NEW w \in Workers, NEW j \in Ids, Take(w, j) PROVE FALSE
    BY <2>1, <2>9 DEF Take, Rows
  <2>10. ASSUME NEW j \in Ids, ComesDue(j) \/ GrowsOld(j) PROVE FALSE
    BY <2>1, <2>10 DEF ComesDue, GrowsOld, Rows
  <2> QED BY <2>4, <2>5, <2>6, <2>7, <2>8, <2>9, <2>10 DEF Next, Work
<1> QED BY Invariance, <1>1, PTL DEF Spec, AcceptedIsServed
=============================================================================
