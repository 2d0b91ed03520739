----------------------------- MODULE Subscriptions -----------------------------
(***************************************************************************)
(* Alanya Plus: the periods of an account (services/billing/               *)
(* subscriptions.js), what gives them (a settled payment, a gift, an        *)
(* activation code, the compensation of a free phase), the switch of the    *)
(* paid offer (settings.js), the jobs and the sweep that close and purge an *)
(* account (billingJobs.js, billingSweep.js) and the rules they consult     *)
(* (rules.js).                                                             *)
(*                                                                         *)
(* A handler reads, decides, writes under a condition, then goes on: each   *)
(* is a step. The jobs that only speak to the subscriber are left out, as   *)
(* are the testers and the exempted accounts.                              *)
(***************************************************************************)
EXTENDS Integers, FiniteSets, FiniteSetsExt

CONSTANTS Accounts,
          OrderRefs,   \* orders of codes paid on the site
          PerPayment,  \* bound: codes_per_payment
          Workers,     \* executions of a job or of the sweep
          None,
          Week,        \* PURGE_WARNING_DAYS, MIN_GRACE_DAYS and OFFLINE_TRUST_DAYS, seven days
          Duration,    \* of a period
          Retentions,  \* values of retention_days
          Trials,      \* values of trial_days, of accounts registered at 0
          MaxRetention, MaxTrial, \* bounds: the largest of them, in force at first
          MaxTime,     \* bound
          MaxPeriods,  \* bound: periods of an account, the compensations apart
          MaxMoves,    \* bound: moves of the administration
          MaxFaults    \* bound: executions that die and jobs that are lost

Never == -1
Codes == OrderRefs \X (1..PerPayment)
Sources == {"grant", "code", "compensation"}
Times == Never..(MaxTime + Week + MaxTrial + MaxPeriods * (Duration + MaxTime) + MaxRetention)

\* Rows of subscription_period and of job_queue; an execution, with the row it has taken.
Period == [start : Times, end : Times, source : Sources, reason : {<<t>> : t \in Times} \union Codes]
JobRow == [kind : {"expire", "purge", "compensate"}, acc : Accounts \union {None}, at : Times, due : Times]
Points == {"idle", "expire", "close", "schedule", "purge", "defer", "mark", "wipe", "compensate"}
Execution == [at : Points, acc : Accounts \union {None}, job : JobRow \union {None}, due : Times, since : Times]

ASSUME SubscriptionsAssumption ==
  /\ {Week, Duration, PerPayment} \subseteq Nat \ {0}
  /\ {MaxRetention, MaxTrial, MaxTime, MaxPeriods, MaxMoves, MaxFaults} \subseteq Nat
  /\ Retentions \subseteq 0..MaxRetention /\ Trials \subseteq 0..MaxTrial
  /\ None \notin Accounts \union JobRow

VARIABLES
  now,
  settings, \* billing_settings, and is_paid of the features of the plan
  sub,      \* subscriber: current_end, purge_after, purged_at
  periods,  \* account -> subscription_period
  codes,    \* activation_code
  jobs,     \* rows of job_queue, by their deduplication key
  work,     \* execution of each worker
  moves,    \* of the administration, so far
  faults    \* so far

vars == <<now, settings, sub, periods, codes, jobs, work, moves, faults>>

Resting == [at |-> "idle", acc |-> None, job |-> None, due |-> Never, since |-> Never]

Init ==
  /\ now = 0
  /\ settings \in [enabled : BOOLEAN, model : {"PLUS", "TRIAL"}, activated : {Never},
                   grace : {Never}, deactivated : {Never}, trial : {MaxTrial}, retention : {MaxRetention},
                   paid : {TRUE}]
  /\ sub = [a \in Accounts |-> [end |-> Never, purgeAfter |-> Never, purged |-> FALSE]]
  /\ periods = [a \in Accounts |-> {}]
  /\ codes = [c \in Codes |-> [status |-> "none", by |-> None]]
  /\ jobs = {} /\ work = [w \in Workers |-> Resting]
  /\ moves = 0 /\ faults = 0

-----------------------------------------------------------------------------
(* Rules                                                                   *)

\* phaseAt
Phase(t) == IF ~settings.enabled THEN "free"
            ELSE IF t < settings.grace THEN "grace" ELSE "paid"

\* trialEndsAt: not before the end of the grace when the paid offer is on.
TrialEndsAt(created) ==
  Max({created + settings.trial} \union IF settings.enabled THEN {settings.grace} ELSE {})

InTrial(t) == settings.model = "TRIAL" /\ settings.enabled /\ t < TrialEndsAt(0)

\* Mutant: the period starts at once.
StartsNow(a) == now

\* nextPeriodStart, with graceToPreserve and trialFloor.
NextPeriodStart(a) == Max({now, sub[a].end}
  \union (IF Phase(now) = "grace" THEN {settings.grace} ELSE {})
  \union (IF settings.model = "TRIAL" /\ TrialEndsAt(0) > now THEN {TrialEndsAt(0)} ELSE {}))

Covers(p, t)  == p.start <= t /\ t < p.end
Covered(a, t) == \E p \in periods[a] : Covers(p, t)

\* resolvePeriods: the end of the chain of the current period.
ChainEnd(a) == Max({p.end : p \in {q \in periods[a] : \A t \in now..(q.end - 1) : Covered(a, t)}})

\* decideEntitlements and outgoingDecision: the paid features, the right to send.
Features(a, t) == ~settings.paid \/ Phase(t) # "paid" \/ InTrial(t) \/ Covered(a, t)
Outgoing(a, t) == settings.model # "TRIAL" \/ Phase(t) # "paid" \/ InTrial(t) \/ Covered(a, t)

\* Mutant: the phone trusts its rights for a week.
TrustAWeek(a) == now + Week

\* validUntil: until when a phone trusts its rights without the network.
ValidUntil(a) == Min({now + Week}
  \union (IF Covered(a, now) THEN {ChainEnd(a)} ELSE {})
  \union (IF Phase(now) = "grace" THEN {settings.grace} ELSE {})
  \union (IF InTrial(now) THEN {TrialEndsAt(0)} ELSE {}))

-----------------------------------------------------------------------------
(* What gives a period                                                     *)

Job(kind, a, at, due) == [kind |-> kind, acc |-> a, at |-> at, due |-> due]

\* Bound.
HasRoom(a) == Cardinality({p \in periods[a] : p.source # "compensation"}) < MaxPeriods

\* appendPeriod, in the transaction of its caller, then scheduleChainJobs. A new period clears the
\* purge.
AppendPeriod(a, length, source, reason) ==
  LET start == NextPeriodStart(a)  end == start + length IN
  /\ periods' = [periods EXCEPT ![a] = @ \union
                  {[start |-> start, end |-> end, source |-> source, reason |-> reason]}]
  /\ sub' = [sub EXCEPT ![a] = [end |-> end, purgeAfter |-> Never, purged |-> FALSE]]
  /\ jobs' = jobs \union {Job("expire", a, end, end)}

\* settlePayment of a subscription, or grantGift.
Grant(a) ==
  /\ HasRoom(a) /\ AppendPeriod(a, Duration, "grant", <<now>>)
  /\ UNCHANGED <<now, settings, codes, work, moves, faults>>

\* issueActivationCode: the codes of an order at once, as many as codes_per_payment says by then; a
\* second call finds them.
IssueCodes(r, count) ==
  /\ \A n \in 1..PerPayment : codes[<<r, n>>].status = "none"
  /\ codes' = [c \in Codes |-> IF c[1] = r /\ c[2] <= count
                               THEN [status |-> "available", by |-> None] ELSE codes[c]]
  /\ UNCHANGED <<now, settings, sub, periods, jobs, work, moves, faults>>

\* redeemCode, the row of the code locked.
RedeemCode(a, c) ==
  /\ Phase(now) # "free" /\ codes[c].status = "available"
  /\ HasRoom(a) /\ AppendPeriod(a, Duration, "code", c)
  /\ codes' = [codes EXCEPT ![c].status = "redeemed", ![c].by = a]
  /\ UNCHANGED <<now, settings, work, moves, faults>>

RevokeCode(c) ==
  /\ codes[c].status = "available" /\ codes' = [codes EXCEPT ![c].status = "revoked"]
  /\ UNCHANGED <<now, settings, sub, periods, jobs, work, moves, faults>>

\* Its date passes, whenever that is.
LapseCode(c) ==
  /\ codes[c].status = "available" /\ codes' = [codes EXCEPT ![c].status = "expired"]
  /\ UNCHANGED <<now, settings, sub, periods, jobs, work, moves, faults>>

-----------------------------------------------------------------------------
(* The switch                                                              *)

Move == moves < MaxMoves /\ moves' = moves + 1

SetModel(m) ==
  /\ Move /\ ~settings.enabled /\ settings.model # m /\ settings' = [settings EXCEPT !.model = m]
  /\ UNCHANGED <<now, sub, periods, codes, jobs, work, faults>>

\* Mutant: a grace of any length.
ActivateAtOnce(grace) ==
  /\ Move /\ ~settings.enabled
  /\ settings' = [settings EXCEPT !.enabled = TRUE, !.activated = now, !.grace = now + grace]
  /\ UNCHANGED <<now, sub, periods, codes, jobs, work, faults>>

\* activate, then scheduleActivation: a compensation when a free phase ends.
Activate(grace) ==
  /\ Move /\ ~settings.enabled /\ grace >= Week
  /\ settings' = [settings EXCEPT !.enabled = TRUE, !.activated = now, !.grace = now + grace]
  /\ jobs' = IF settings.deactivated = Never THEN jobs
             ELSE jobs \union {Job("compensate", None, now, settings.deactivated)}
  /\ UNCHANGED <<now, sub, periods, codes, work, faults>>

Deactivate ==
  /\ Move /\ settings.enabled
  /\ settings' = [settings EXCEPT !.enabled = FALSE, !.deactivated = now]
  /\ UNCHANGED <<now, sub, periods, codes, jobs, work, faults>>

ExtendGrace(to) ==
  /\ Move /\ settings.enabled /\ to > now /\ to > settings.grace
  /\ settings' = [settings EXCEPT !.grace = to]
  /\ UNCHANGED <<now, sub, periods, codes, jobs, work, faults>>

\* updateSettings, at any time: the length of every trial, the retention of the next ends.
UpdateSettings(trial, retention) ==
  /\ Move /\ <<trial, retention>> # <<settings.trial, settings.retention>>
  /\ settings' = [settings EXCEPT !.trial = trial, !.retention = retention]
  /\ UNCHANGED <<now, sub, periods, codes, jobs, work, faults>>

\* updateFeature, at any time: the features become free, or paid.
UpdateFeature ==
  /\ Move /\ settings' = [settings EXCEPT !.paid = ~@]
  /\ UNCHANGED <<now, sub, periods, codes, jobs, work, faults>>

-----------------------------------------------------------------------------
(* Jobs and sweep                                                          *)

Quiet   == UNCHANGED <<now, settings, codes, moves, faults>>
Data    == <<sub, periods>>
Do(w, x) == work' = [work EXCEPT ![w] = x]

\* The row of the job goes with the execution.
Done(w) == Do(w, Resting) /\ jobs' = jobs \ {work[w].job}

Take(w, j) ==
  /\ work[w].at = "idle" /\ j \in jobs /\ j.at <= now
  /\ \A v \in Workers : work[v].job # j
  /\ Do(w, [at |-> j.kind, acc |-> j.acc, job |-> j, due |-> j.due, since |-> now])
  /\ Quiet /\ UNCHANGED <<jobs, sub, periods>>

\* Mutant: an end whose job is lost is nobody's concern.
SweepPurges(w, a) ==
  /\ work[w].at = "idle" /\ sub[a].purgeAfter \in 0..now /\ ~sub[a].purged
  /\ Do(w, [at |-> "purge", acc |-> a, job |-> None, due |-> Never, since |-> now])
  /\ Quiet /\ UNCHANGED <<jobs, sub, periods>>

\* catchUpDue: ends not recorded, purges due.
Sweep(w, a) ==
  /\ work[w].at = "idle" /\ ~sub[a].purged
  /\ \E kind \in {"expire", "purge"} :
       /\ IF kind = "expire" THEN sub[a].end \in 0..now /\ sub[a].purgeAfter = Never
          ELSE sub[a].purgeAfter \in 0..now
       /\ Do(w, [at |-> kind, acc |-> a, job |-> None, due |-> Never, since |-> now])
  /\ Quiet /\ UNCHANGED <<jobs, sub, periods>>

\* handleExpire: expiryDecision.
Expire(w) ==
  LET a == work[w].acc  s == sub[a] IN
  /\ work[w].at = "expire"
  /\ IF s.end \in 0..now /\ s.purgeAfter = Never /\ ~s.purged
     THEN /\ Do(w, [work[w] EXCEPT !.at = "close", !.due = Max({s.end + settings.retention, now + Week}),
                                   !.since = now])
          /\ UNCHANGED jobs
     ELSE Done(w)
  /\ Quiet /\ UNCHANGED Data

\* Its UPDATE, then schedulePurgeJobs.
Close(w) ==
  LET a == work[w].acc  s == sub[a] IN
  /\ work[w].at = "close"
  /\ IF s.purgeAfter = Never /\ ~s.purged /\ s.end \in 0..work[w].since
     THEN /\ sub' = [sub EXCEPT ![a].purgeAfter = work[w].due]
          /\ Do(w, [work[w] EXCEPT !.at = "schedule"]) /\ UNCHANGED jobs
     ELSE Done(w) /\ UNCHANGED sub
  /\ Quiet /\ UNCHANGED periods

\* schedulePurgeJobs, the warning left out.
Schedule(w) ==
  LET a == work[w].acc  due == work[w].due IN
  /\ work[w].at = "schedule" /\ Do(w, Resting)
  /\ jobs' = (jobs \ {work[w].job}) \union {Job("purge", a, due, due)}
  /\ Quiet /\ UNCHANGED Data

\* handlePurge: purgeDecision. Outside the paid phase the purge is put off.
Purge(w) ==
  LET a == work[w].acc  s == sub[a] IN
  /\ work[w].at = "purge"
  /\ IF s.purged \/ s.purgeAfter \notin 0..now \/ s.end > now THEN Done(w)
     ELSE /\ Do(w, [work[w] EXCEPT !.at = IF Phase(now) = "paid" THEN "mark" ELSE "defer",
                                   !.due = now + Max({1, settings.retention}), !.since = now])
          /\ UNCHANGED jobs
  /\ Quiet /\ UNCHANGED Data

Defer(w) ==
  LET a == work[w].acc IN
  /\ work[w].at = "defer"
  /\ IF ~sub[a].purged /\ sub[a].purgeAfter \in 0..work[w].since
     THEN /\ sub' = [sub EXCEPT ![a].purgeAfter = work[w].due]
          /\ Do(w, [work[w] EXCEPT !.at = "schedule"]) /\ UNCHANGED jobs
     ELSE Done(w) /\ UNCHANGED sub
  /\ Quiet /\ UNCHANGED periods

\* Mutant: the marker trusts the decision.
MarkAnyway(w) ==
  /\ work[w].at = "mark" /\ sub' = [sub EXCEPT ![work[w].acc].purged = TRUE]
  /\ Do(w, [work[w] EXCEPT !.at = "wipe"]) /\ Quiet /\ UNCHANGED <<jobs, periods>>

\* The marker, under its conditions.
Mark(w) ==
  LET a == work[w].acc IN
  /\ work[w].at = "mark"
  /\ IF ~sub[a].purged /\ sub[a].purgeAfter \in 0..work[w].since
     THEN /\ sub' = [sub EXCEPT ![a].purged = TRUE]
          /\ Do(w, [work[w] EXCEPT !.at = "wipe"]) /\ UNCHANGED jobs
     ELSE Done(w) /\ UNCHANGED sub
  /\ Quiet /\ UNCHANGED periods

\* purgeFeatureData deletes the paid data of the account.
Wipe(w) == work[w].at = "wipe" /\ Done(w) /\ Quiet /\ UNCHANGED Data

\* handleCompensate: accounts a period of which covered the switch-off, and the free phase they
\* are given back.
CompensationDue(j) ==
  {a \in Accounts : /\ \E p \in periods[a] : Covers(p, j.due)
                    /\ ~ \E p \in periods[a] : p.source = "compensation" /\ p.reason = <<j.at>>}

\* Mutant: whatever the dates.
SameActivation(j) == settings.enabled /\ settings.activated = j.at

\* stillActivated and compensationDays.
StillActivated(j) == settings.enabled /\ settings.activated = j.at /\ j.at > j.due

\* Mutant: those who have had it are not left out.
CompensateAgain(w) ==
  LET j == work[w].job IN
  /\ work[w].at = "compensate" /\ StillActivated(j)
  /\ \E a \in Accounts : /\ \E p \in periods[a] : Covers(p, j.due)
                         /\ AppendPeriod(a, j.at - j.due, "compensation", <<j.at>>)
  /\ UNCHANGED <<now, settings, codes, work, moves, faults>>

Compensate(w) ==
  LET j == work[w].job IN
  /\ work[w].at = "compensate" /\ StillActivated(j)
  /\ \E a \in CompensationDue(j) : AppendPeriod(a, j.at - j.due, "compensation", <<j.at>>)
  /\ UNCHANGED <<now, settings, codes, work, moves, faults>>

Compensated(w) ==
  LET j == work[w].job IN
  /\ work[w].at = "compensate" /\ (StillActivated(j) => CompensationDue(j) = {})
  /\ Done(w) /\ Quiet /\ UNCHANGED Data

\* The process dies, or the handler throws: the job will be run again.
Die(w) ==
  /\ work[w].at # "idle" /\ faults < MaxFaults /\ faults' = faults + 1 /\ Do(w, Resting)
  /\ UNCHANGED <<now, settings, codes, jobs, sub, periods, moves>>

\* A job that was never posted, or was lost with the queue.
LoseJob(j) ==
  /\ faults < MaxFaults /\ faults' = faults + 1 /\ jobs' = jobs \ {j}
  /\ \A w \in Workers : work[w].job # j
  /\ UNCHANGED <<now, settings, codes, work, sub, periods, moves>>

Tick ==
  /\ now < MaxTime /\ now' = now + 1
  /\ UNCHANGED <<settings, sub, periods, codes, jobs, work, moves, faults>>

-----------------------------------------------------------------------------
Step(w) == \/ Expire(w) \/ Close(w) \/ Schedule(w) \/ Purge(w) \/ Defer(w) \/ Mark(w)
           \/ Wipe(w) \/ Compensate(w) \/ Compensated(w)

Next ==
  \/ \E a \in Accounts : Grant(a)
  \/ \E r \in OrderRefs, count \in 1..PerPayment : IssueCodes(r, count)
  \/ \E a \in Accounts, c \in Codes : RedeemCode(a, c)
  \/ \E c \in Codes : RevokeCode(c) \/ LapseCode(c)
  \/ \E m \in {"PLUS", "TRIAL"} : SetModel(m)
  \/ \E grace \in {1, Week} : Activate(grace)
  \/ Deactivate
  \/ \E to \in 1..MaxTime : ExtendGrace(to)
  \/ \E trial \in Trials, retention \in Retentions : UpdateSettings(trial, retention)
  \/ UpdateFeature
  \/ \E w \in Workers : Step(w) \/ Die(w)
  \/ \E w \in Workers, j \in jobs : Take(w, j)
  \/ \E w \in Workers, a \in Accounts : Sweep(w, a)
  \/ \E j \in jobs : LoseJob(j)
  \/ Tick

Spec == Init /\ [][Next]_vars

\* The sweep comes back every five minutes, a handler goes on, and time passes.
Fairness == /\ WF_vars(Tick)
            /\ \A w \in Workers : WF_vars(Step(w)) /\ \A a \in Accounts : WF_vars(Sweep(w, a))

FairSpec == Spec /\ Fairness

-----------------------------------------------------------------------------
(* Type and properties                                                     *)

\* The state is well-typed: rows of subscriber, subscription_period, activation_code and
\* billing_settings as the functions above write them.
TypeOK ==
  /\ now \in 0..MaxTime /\ faults \in 0..MaxFaults /\ moves \in 0..MaxMoves
  /\ settings \in [enabled : BOOLEAN, model : {"PLUS", "TRIAL"}, activated : Times, grace : Times,
                   deactivated : Times, trial : 0..MaxTrial, retention : 0..MaxRetention, paid : BOOLEAN]
  /\ sub \in [Accounts -> [end : Times, purgeAfter : Times, purged : BOOLEAN]]
  /\ periods \in [Accounts -> SUBSET Period] /\ \A a \in Accounts : \A p \in periods[a] : p.start < p.end
  /\ codes \in [Codes -> [status : {"none", "available", "redeemed", "revoked", "expired"},
                          by : Accounts \union {None}]]
  /\ jobs \subseteq JobRow /\ work \in [Workers -> Execution]

\* The periods of an account follow each other without overlap, whoever adds them and while a
\* compensation does: nothing that was paid or given is lost, and current_end is the end of the
\* last (appendPeriod, nextPeriodStart).
PeriodsInLine == \A a \in Accounts :
  /\ \A p, q \in periods[a] : p # q => p.end <= q.start \/ q.end <= p.start
  /\ periods[a] # {} => sub[a].end = Max({p.end : p \in periods[a]})

\* Nobody is given twice: a code gives one period, to the account that redeemed it, and a revoked or
\* unused code none; a free phase is compensated once, whatever dies in the job that does it
\* (redeemCode against revokeCode, handleCompensate).
GivenOnce ==
  /\ \A c \in Codes :
       LET given == {x \in Accounts \X UNION {periods[a] : a \in Accounts} :
                       x[2] \in periods[x[1]] /\ x[2].source = "code" /\ x[2].reason = c}
       IN  IF codes[c].status = "redeemed"
           THEN Cardinality(given) = 1 /\ \A x \in given : x[1] = codes[c].by
           ELSE given = {}
  /\ \A a \in Accounts : \A p, q \in periods[a] :
       p.source = "compensation" /\ q.source = "compensation" /\ p.reason[1] = q.reason[1] => p = q

\* An account is marked for the deletion of its paid data only when it has no period left, even if
\* one was bought after the handler had decided (handlePurge, appendPeriod).
MarkedIsOver ==
  [][\A a \in Accounts : sub'[a].purged /\ ~sub[a].purged =>
       /\ \A p \in periods[a] : p.end <= now
       /\ sub[a].purgeAfter \in 0..now]_vars

\* The end of an account is recorded, so that its purge is planned, even when its job is lost or
\* dies: or a new period begins (handleExpire, catchUpDue).
EndIsRecorded == \A a \in Accounts :
  sub[a].end \in 0..now /\ sub[a].purgeAfter = Never /\ ~sub[a].purged
    ~> sub[a].purgeAfter # Never \/ sub[a].purged \/ sub[a].end > now

\* A moment of trial that the administration takes back, by a shorter trial_days, from an account no
\* period of which covers it; and features that it makes paid.
Shortened(a, t) ==
  InTrial(t) /\ ~Covered(a, t) /\ settings'.trial < settings.trial /\ TrialEndsAt(0)' <= t
MadePaid(a, t) == settings'.paid /\ ~settings.paid /\ ~Covered(a, t)

\* A phone without the network trusts its rights until the date it was given. Within the week of that
\* trust, a right that was to last, or that the phone holds before that date, is never taken away by
\* time, payments, codes, jobs, the switch, the choice of the model or a longer grace. Two decisions
\* of the administration take effect at once, on what no period covers: a shorter trial, and features
\* made paid, which leave the right to send alone (decideEntitlements; activate and its shortest
\* grace, setModel, extendGrace, revokeCode, updateSettings, updateFeature).
TrustIsKept ==
  [][\A a \in Accounts : \A t \in now'..(now' + Week - 1) :
       LET trusted == t < ValidUntil(a) IN
       /\ Features(a, t) \/ (trusted /\ Features(a, now)) =>
            Features(a, t)' \/ Shortened(a, t) \/ MadePaid(a, t)
       /\ Outgoing(a, t) \/ (trusted /\ Outgoing(a, now)) => Outgoing(a, t)' \/ Shortened(a, t)]_vars

\* What subscriptions.js says of a new period: the data kept since the end are simply active again.
PurgeSparesSubscriber == \A w \in Workers : work[w].at = "wipe" =>
  \A p \in periods[work[w].acc] : p.end <= now
=============================================================================
