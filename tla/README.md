# TLA+ verification of the Alanya backend

The Alanya (Talky) backend is a Node.js server: Express for the HTTP API,
Socket.IO for the live traffic, MySQL for what must last, Redis (optional) for
what the instances share, Firebase for the pushes that wake phones, an object store for
the blocks of the safebox, payment providers behind webhooks. This
directory holds TLA+ models of its core, the TLC configurations that check
them, and proofs checked by TLAPS. Paths below are relative to `src/src/`
unless they start with `src/`.

## 1. The system

### Two storage modes

`config/redisData.js` decides at start whether the server has a data client.

* With Redis, several pm2 instances share the state. Every read or write of it
  is a round trip, at which the executions of *all* instances interleave; a
  deadline is a row of the MySQL table `job_queue` (`services/jobQueue.js`).
* Without it, one process keeps the same state in `Map`s and its deadlines in
  `setTimeout`s. An `await` on an already settled promise resumes before any
  other event, so a handler runs through until it waits for MySQL.

Most of what is hard in this code follows from the first mode having been
added under handlers written for the second.

### Components

| Component | State | Operations | Hard part |
|---|---|---|---|
| Call-state register (`socket/state/callState.js`) | per account: status, call, peer; four kinds of deadline | `setRinging`, `setInCall`, `clear`, `schedule*`, `cancel*`, `confirmResume`, `isBusyForNewCall`, `reclaim` helpers | two entries per call, written one by one; writing an entry cancels its deadlines |
| Device ownership (`callDeviceOwnership.js`) | per call and account: calling, ringing, active, left + device | `setCalling`, `ring`, `tryClaim` (Lua), `forget`, `release` | several devices answer at once |
| Two-party calls (`socket/handlers/calls.js`, `chat/presence.js`, `auth.js`, `services/callStateWorkers.js`) | `callHistory` rows, sockets, the two above | `call_user`, `answer_call`, `reject_call`, `end_call`, `disconnect`, authentication, resume handshake, four deadlines | all of them race on the same pair of entries |
| Group rooms (`groupRooms.js`, `groupRoomWorkers.js`) | metadata, participants, graces with tokens, tombstone | `create`, `join`, `leave`, `armGrace`, `expireGrace`, `destroy` (JOIN, ARM, EXPIRE_OU_PART in Lua) | graces that expire while their account comes back |
| Job queue (`services/jobQueue.js`) | rows, unique by kind and key | `enqueue`, `cancelByDedupeKey`, a locked attempt, retries, `reclaimOrphans` | rows that are locked, failed or orphaned |
| Three-party sessions (`callSessions.js`) | sessions, index by account, invitations | mutations under a per-session lock, `destroy` without it | index and session disagree |
| Incoming-call and ICE buffers, voicemail notice | small TTL buffers | push, drain, clear | replay of what is over |
| Meetings | presence of devices, flags, schedules | join, leave, grace, close | like the rooms |
| Trusted trips (`tripController.js`, `handlers/trips.js`, `tripService.js`, `tripWorkers.js`) | the row of a trip, its watchers, one row of `job_queue` per kind of deadline | start, confirm, cancel, extend, SOS, revoke a watcher, detect an arrival; jobs that ask, alert and close | no statement has a condition on the state; every request disarms and arms again while jobs run |
| QR login and contact tokens | one-shot tokens with TTL | create, scan, approve, consume | consumed twice |
| Messages, receipts, routing (`messageSend.js`, `messageController.js`, `receipts.js`, `utils/*`) | `message`, bodies per device, unread counters, marks, tombstones | send by socket or HTTP, forward, deliver, read, delete, catch up | one bubble sent by two paths; counters, marks and rows written one by one |
| End-to-end keys | one-time prekeys | publish, take | a key given twice |
| Payments and numbers (`paymentService.js`, `alanyaPhone*.js`) | payments, orders, numbers put aside, accounts' numbers | put aside, pay, settle by webhook or sweep, take, give | a payment settled by four paths, a number wanted by two accounts |
| Alanya Plus (`services/billing/`) | subscriber, periods, codes, settings of the offer, jobs | grant, redeem, switch the offer on and off, compensate, expire, purge | a job decides, then writes, while periods are added |
| Periodic work (`schedulerLease.js`, purges) | leases | take a lease, run | a task longer than its lease |
| Safebox (`services/safebox/`) | blobs, files, album, shares, space; blocks at the store | upload, trash, restore, add to an album, share, keep, moderate, purge | MySQL and the store cannot commit together; one content, several files |
| Accounts, media, stickers, broadcasts, administration, HTTP wiring, migrations | MySQL rows, files | CRUD | none a model would reach |

How they interact: a socket event or an HTTP request starts a handler; the
handlers of calls write the register, the ownership table and `callHistory`
and arm deadlines; `disconnect` arms graces; authentication disarms them or
arms the resume deadlines; the workers of the queue call back into the
handlers of calls (`onNoAnswer`, `endActiveCallForUser`), of the rooms, of the trips
and of the billing. The end of Alanya Plus shrinks the space of the safebox.
Group rooms share the ownership table (under the key of the room) and the
`in_group` status of the register.

What makes each correct:

* a call has one answering device, two entries that agree, a deadline while it
  rings, and a history row that is closed when it ends;
* a deadline or a grace acts only on what it was armed for;
* a room never loses a seat but by a departure, a grace that runs on that seat,
  or its end; it never admits one too many; somebody can always end it;
* whoever is in no call can be called;
* the deadline of a trip is in the queue, a closed trip stays closed, an unconfirmed
  one is escalated;
* a payment has one outcome, its order the same, a number one owner;
* periods follow each other, nothing is given twice or taken back while a phone
  trusts it but by two decisions of the administration, nobody's data go while a period runs;
* a bubble is one message, and once its phone stops trying it has been heard and counted; receipts only climb;
* no file loses its content, no space is exceeded, what nobody designates goes.

## 2. The modules

| Module | What it is |
|---|---|
| `CallState` | the register: entries, deadlines, the primitives of `callState.js`, as operators from registers to registers |
| `DeviceOwnership` | a row of the ownership table and what `TRY_CLAIM` allows |
| `OneToOneCalls` | two-party calls: composes the two above with `callHistory`, sockets, executions, job locks and crashes |
| `OneToOneCallsProofs` | theorems about it |
| `GroupRoomContract` | abstract: what a room promises |
| `GroupRooms` | detailed: the room of `groupRooms.js` with its handlers, its graces and its worker; refines the contract |
| `GroupRoomsProofs` | theorems about it, the refinement included |
| `JobQueue` | the queue itself: its table, its clients, its workers |
| `JobQueueProofs` | theorems about it |
| `Trips` | the trips of an owner: rows, deadlines, the executions of requests and jobs |
| `TripsProofs` | theorems about it |
| `PhoneOrders` | buying a number: numbers put aside, orders, payments, webhooks, accounts |
| `PhoneOrdersProofs` | theorems about it |
| `Subscriptions` | Alanya Plus: periods, codes, the switch of the offer, expiry and purge |
| `SubscriptionsProofs` | theorems about it |
| `Messages` | one group: sending, receipts, deletion for everybody |
| `MessagesProofs` | theorems about it |
| `Safebox` | files, blobs and blocks, with the nightly cleaning |
| `SafeboxProofs` | theorems about it |
| `MC...` | an instance of each for TLC |

**Executions.** A run of a handler occupies a *slot*; `proc[slot].at` is the
`await` it will resume from, and the other fields are the local variables that
survive it. `Receive`/`Request` start an execution (a socket event, an HTTP
refusal), `Fire` starts one from a deadline, `Continue`/`Resume` take its next
step. So the code between two awaits is an action, with the guards and early
returns of the code, and a value read before an await is used after it exactly
where the code does so. In memory mode `loop` names the slot that keeps the
event loop between its database queries; with Redis it stays `None` and every
point interleaves.

**`OneToOneCalls`.** `reg` is the register (`reg.entry`, `reg.timer`), `own` the
ownership table, `hist`/`nextCall` the table `callHistory` and its
AUTO_INCREMENT, `announced` the calls whose `incoming_call` was emitted (their
identifier is known to clients from then on), `live`/`tagged` the connected
sockets and those with `currentCallID`. `call_user` is `CallUser`, `Verdict`
(the voicemail verdict), `InsertCall`, `OpenOwnership`, `RingCallee`,
`RingCaller`, `ReadForNoAnswer`, `Arm`; `answer_call` is `AnswerCall` (the check
of the pair), `Claim`, `AnswerCallee`, `AnswerCaller`, `AnswerHist`;
`processRejectCall` is `Reject`/`ResumeReject`, then `Reject*`; `end_call` is
`EndCall`, then `End*`; `onNoAnswer` is `Fire`, then `NoAnswer*`;
`endActiveCallForUser` with its callers is `GraceCheck`, `EndActive*`,
`ReleaseAfterEnd`; an UPDATE of `callHistory` that fails is caught by each of them and
leaves the row as it was (`Lossy` names the calls to which it may happen), which the history
variable `excused` remembers; `Disconnect`, `Connect`, `ResumeAck` are the socket's life and
the resume handshake; `ReclaimOrphan` gives back the lock of a dead worker.
Times appear as follows: `Age` makes a ring older than the 50 s of
`isStaleRinging`, only when no execution is in flight and the 45 s no-answer
deadline of the pair is no longer armed.

**`GroupRooms`.** `meta`, `parts`, `grace`, `seq`, `tomb` are the keys of a room;
`job` the row (or timer) of each grace, `own` the ownership rows under the key
of the room, `engaged` the accounts with `in_group`, `inRoom` the sockets with
`currentGroupRoom`. One room and one organiser are enough: rooms share nothing
but `in_group`, which `GoneRoomFreesAll` is about. `shared` is a variable
chosen once by `Init`, so that a run covers both stores.

**`JobQueue`.** `rows` is the table `job_queue` (kind and dedupe key together are
`key`, `run_after <= NOW()` is `due`, `locked_by` with the age of `locked_at` are
`lock` and `old`), `nextId` its AUTO_INCREMENT, `run[w]` the execution of
`processOneJob` in worker `w` with the snapshot of the row it locked. `Enqueue`,
`Revive` then `EnqueueRevived` (two statements) and `Cancel` are the clients;
`CancelRow` is an administrator's cancellation and `PurgeFailed` the nightly
retention. `Reclaim`, `Take`, `Return` or `Throw`, `DeleteDone` or `Settle` are a
tick. `Knows` says which kinds a worker has a handler for: a server of an
earlier version does not see the others. `returned`, `outlived` and `starts` are
history. The models of calls and rooms do not instance it: they keep the part of
a row their handlers depend on (armed, locked, orphaned) and take its retries
for granted.

**`Trips`.** `trip` is `trip.etat`, `jobs` the four rows of `job_queue` a trip can have
("free", or the worker that locks it), `watchers` the rows of `trip_watcher`, `run`
the execution of each request and worker, point by point: `Insert`, `Extend` and
`Write` are the statements that write the row, `ArmFirst`, `ArmEta`, `ArmMax` the
three of `arm`, `Take` to `End` the queue around a handler, `Check` is `vivant`,
`Avant` to `DisarmAll` are `transition`. `late` marks an execution whose trip another
wrote between its look and its own write; `derailed` is the history of the trips such
an execution wrote, or whose execution died where nothing resumes it.

**`PhoneOrders`.** `req` are handlers in flight (hold, release, checkout, give, an account
taking or losing a number, or given any number by an administrator), `pay`/`order`/`phone`
the tables, `prov` what the provider knows of a payment. `Settle` is the transaction of
`settlePayment` with the callback of the order; webhook, sweep (`Reconcile`) and the failure
of `initiate` all reach it. `raced` are the orders whose number was given (`TakeRead`, then
`TakeWrite`) after they had looked at it, or while they were active.

**`Subscriptions`.** `sub` and `periods` are an account's rows, `codes` the activation
codes, `jobs`/`work` the billing jobs and the executions of jobs and of the sweep; a handler
is `Expire`, `Close`, `Schedule`, or `Purge`, `Mark`, `Wipe`, each its own statement.
`settings` is the row of `billing_settings`, which the switch, the choice of the model and
`UpdateSettings` (the lengths of the trial and of the retention, at any time) write, with
whether the features of the plan are paid (`UpdateFeature`). Time is `now`, a week two
units.

**`Messages`.** `rows` is `message` with the request whose transaction hides a row (`open`),
`tombs` the deletions, `unread` and `seen` the counters and marks of a member, `phone` what
a device keeps, `outbox` the bubbles nobody acknowledged; `req` the handlers: `Insert` is
the INSERT with its unique key, `WriteBody` the envelopes, then `Tell`, `Spread`, `Count`,
`Deliver` in the order of each path. The code takes a replay for what it is when the no-op
UPDATE of the key reports no affected row; `config/db.js` does not take CLIENT_FOUND_ROWS
away from mysql2, which asks for it by default, so the row found counts as affected,
`isNewInsert` is true and a replay goes on as a new message (`SameRow`). `torn` is the
history of the members for whom a handler was cut between its row and its counters, `cut`
that of the sends whose handler was cut with its row committed.

**`Safebox`.** `blob`, `file`, `album`, `share`, `quota` are rows, `mega` the blocks at the
store; `req` holds the executions of requests and of the cleaning (`Purger`), whose run goes
through `ExpireTrash`, `ExpireAbandoned`, `ListOrphans`, then `Mark`, `Remove`, `DropRow`
for each blob, and `Reconcile`. What a request reads before the last of its statements may
be over: a final deletion looks (`AskDelete`; `AskDeleteAlbum`, `ListAlbum` for the album
and what goes with it in cascade; `AskEmpty` for the whole trash) and then deletes by the id
(`DropFile`, `DropAlbum`) or whatever is in the trash by then (`Empty`); `purgeExcess` looks
at Alanya Plus, then lists uploads and trash under the lock of the account, then deletes
them and what is still too much (`AskExcess`, `ListExcess` with `doomed`, `PurgeExcess`),
while Plus may have begun again; `saveShare`, which its own sender may call, and into the
album, looks for a copy under that lock (`Keep`), then at the blob and the space (`Save`). A
restored file goes back where it was, unless its folder was in the trash too: then to the
root. `strays` are the files placed in an album on its way to the trash, `ghosts` those that
designate a blob the cleaning may have marked: placed by `addToFolder` once the account had
lost the content, or copied from such a file.

**Abstractions.**

* One primitive of `callState.js` (GET, DELETE of the jobs, SET) is one step; so
  are the reads a handler does before its first write, a Lua script, and a SQL
  query with the return from it (no handler reads what another query wrote in
  between).
* Data: an account, device or socket is a model value; a call is a number; of
  `callHistory.status`, "missed" stands for NO_ANSWER and for
  VOICEMAIL_AFTER_RING.
* Left out of two-party calls: blocked accounts and the checks of subscription
  before the call, rows created for a call intercepted by voicemail before any
  ring, ICE and media relays, pushes, `pendingCalls`, refusals that carry no call,
  the HTTP routes that create or close a history row, three-party sessions
  (`leaveCallSession` finds none). `call_rejoin` has the effect of `ResumeAck`.
* Left out of the rooms: emits and Socket.IO rooms, times to live, the accounts'
  two-party calls meanwhile, the timer a process without a worker sets beside
  the job. Sockets are connected at the start; one that comes later is one that
  has been silent so far. `RingTargets` writes all invited rows in one step, and
  `forget` + `clearGroup` are one.
* Of the queue: a row inserted is not due yet, however small its delay, and
  comes due freely; any row that is due may be taken where the code takes the one
  due first (`Fairness` gives back what that order promises). Payloads,
  `last_error`, the mark on a broadcast whose last push failed, and the pool's
  connections are left out; a failed statement of `_prendreUnJob` is rolled back
  and changes nothing.
* Trips: one owner; the jobs `eta_soon` and `reminder`, which only speak to him, the
  limit of SOS, the staleness of positions, retention and deletion are left out, and
  so is the race of two creations with different client ids.
* Numbers: the catalogue and its levels are left out; the deadline of a hold or of a
  payment passes freely.
* Alanya Plus: the settings and the catalogue are read fresh (the code keeps them 30 s),
  `grace` and phase are one read; the paid features are paid or free together, and what else an
  administrator may write of them (a plan's contents, a feature withdrawn, prices, limits) is left
  out; so are warnings, testers and exempted accounts; a code lapses freely.
* Messages: the delivered and read marks of a reading move together, as do preview
  and counter; ids burnt by refused INSERTs are not burnt; a page of deletions is one
  deletion; a transaction ends within the 30 s by which the first cursor steps back;
  the phones modelled are out of the room when `message:deleted` is emitted.
* Safebox: one cleaning at a time (its lease lasts 55 s, and a removal can be done
  twice); `reconcileFull` does not wait for objects to be two days old; the two
  deletions of `expireTrash` are one step; all the blocks of a blob arrive, or none. The pool is
  READ COMMITTED (`config/db.js`), so a statement sees what was committed before it, under a lock
  or not. A quota is read in the step that tests it, though `reserveUpload` and `saveShare` read it
  just before their transaction: in between, the end of Plus would let through one content more than
  the smaller space, still within the space of Plus, which is what `QuotaKept` is about.
* A crash in memory mode loses the maps; with Redis it loses one execution and any
  of the `Unstable` sockets.

## 3. What is model-checked

| Run | Instance | Properties |
|---|---|---|
| `calls_memory` | one process, 2 accounts with a phone each, 2 executions, 2 successive calls, the row of the second hard to write | `TypeOK`, `PairAgrees`, `EveryRingIsTimed`, `HistorySettled` |
| `calls_live` | one process, 1 call whose row is hard to write, 1 crash, fairness | `RingingEnds` |
| `calls_shared` | Redis, 2 accounts, the callee with a phone and a tablet, 2 executions, 1 crash | `AtMostOneAnswer`, `ReleasedForGood` |
| `rooms` | both stores, an organiser and a guest with two connections, limits 1 (video) and 2 (audio), 4 client events, 1 crash | `TypeOK`, `SomebodyMayEnd`, `NoGhostInMemory`, `ContractKept` |
| `queue` | 2 workers, one of an older version, 2 rows (same key, or none), 2 attempts, 2 faults, fairness | `TypeOK`, `OneRunner`, `AttemptsBounded`, `AcceptedIsServed`, `JobEnds` |
| `trips` | one trip, a member of the circle, a request and a worker at once, one crash, fairness | `TypeOK`, `DeadlineArmed`, `ClosedIsQuiet`, `SilenceEscalates` |
| `phones` | two buyers, a registration and an administrator after one number, two orders, two requests, one crash | `TypeOK`, `OrderFollowsPayment`, `NumberKept`, `OnePaymentOneNumber` |
| `phones_live` | one account, a registration, one number, one order, one subscription, two requests, one crash, fairness | `PaymentEnds` |
| `subs` | one account, a code, a worker and the sweep, two moves of the administration (switch, model, grace, length of the trial, features paid or free), one fault, fairness | `TypeOK`, `PeriodsInLine`, `GivenOnce`, `MarkedIsOver`, `TrustIsKept`, `EndIsRecorded` |
| `messages` | a group of two, a bubble (sealed) and a forward, two handlers at once, one deletion, one fault | `TypeOK`, `SentIsHeard`, `UnreadKept`, `ReceiptsClimb` |
| `safebox` | one account with an album, two requests and the cleaning, two uploads in a space for one that comes and goes | `TypeOK`, `QuotaKept`, `ThroughTrash` |
| `safebox_live` | an owner and an account that keeps a share, one fault, fairness | `NothingLost`, `Reclaimed` |

**Why the bounds are enough to matter.** Two executions are what every race listed in
section 6 needs: one between its read and its write, the other doing the write. Two calls
let a late event of the first meet the second (`MaxCalls = 2`). One crash leaves a lock, a
half-done handler or a half-armed call behind. In the rooms, four events are create, join,
drop, return, with expiries and worker steps not counted; two connections of one phone are
what a return needs; the limits 1 and 2 make both "full" and "room for one" happen. A trip
is closed by one execution while another is under way: a request and a worker are two. In
`phones`, two orders are a hold that lapsed, or was paid for, and the one that takes the
number over; a second number was checked once apart (2.2 million states), as were two
requests on a trip (9.4 million). In `subs` the clock stops at four half-weeks, enough for
the announced week, a period, its end and a retention; two periods follow each other and two
moves switch the offer on and off, or switch it on and shorten the trial (from three
half-weeks to none) and the retention (from one to none), or make the features free and paid
again. In `messages` two rows are a message and its forward, or the two that one bubble
would make if sent twice; a cursor that passes a deletion needs two, which
`messages_tombstones` has. In the safebox two files are a file and its copy, and two blobs
the content kept and the one that replaces it. No share is in `safebox`: what a kept share
does to the space is the theorem `SpaceKept`, for any shares; `safebox_live` has one share,
and one request.

Symmetry is used where slots, requests, accounts or the devices of one account only differ
by name, and never with a liveness property. The named bounds are `Slots`, `Requests`,
`Workers`, `MaxCalls`, `Lossy` (calls whose row may not be written), `MaxCrashes`,
`MaxEvents`, `Unstable` (sockets that may drop), `MaxJobs`, `MaxFaults`, `MaxOrders`,
`MaxTime`, `MaxPeriods`, `MaxMoves`, `MaxTrial`, `MaxRetention` (with `Trials`,
`Retentions`), `MaxRows`, `MaxTombs`, `MaxBlobs`, `MaxFiles`. In `queue`, two rows are a
cancelled one and its successor under the same key; two workers and two faults are a lock
that outlives its owner while another worker runs the row, and a failed statement besides.
The runs whose events, rows or time are used up stop there, which is why their deadlock
check is off; those on two-party calls check deadlock.

**Fairness.** `FairSpec` assumes weak fairness of the continuation of each
execution (Node resumes a handler when its promise settles) and strong fairness
of firing the no-answer deadline of each account: a timer fires once due unless
it is cancelled, and between a cancel and a re-arming it may be absent, so weak
fairness would promise nothing. No fairness is assumed of clients, of other
deadlines or of crashes. In the queue: a handler ends (weak fairness of `Work`), time
passes (`ComesDue`, `GrowsOld`), and a worker ticks every second. `Reclaim` has
strong fairness because a busy worker reclaims only between its batches, and so
has taking each row by some worker: `ORDER BY run_after` serves the row due for
longest, so no other row passes it for ever. `RingingEnds` is checked on the maps. With Redis it
does not hold of the code: a process that dies after `setRinging` and before
`scheduleNoAnswer` leaves two accounts ringing with no deadline, until someone
calls one of them (`isStaleRinging`).

An execution under way goes on in every other run too (weak fairness of its next
step). Of a trip, a free row that is due is taken in the end (strong fairness of
`Take`, for the reason above); nothing is assumed of the owner, whose silence is what
`SilenceEscalates` is about. Of a payment, the sweep looks at it again and again
(`startJobWorker` re-arms its job) and time passes; nothing is assumed of the provider,
which may never answer, nor of webhooks: `PaymentEnds` rests on the thirty minutes.
Of a subscription, time passes and the sweep comes every five minutes. Of the safebox, the
cleaning starts every night and the reconciliation every week (`balayageRetention` of
`src/server.js`, with its switch on and its alerts unreached), the store accepts a
removal that is tried for ever; nothing is assumed of requests.

**What is stated for one mode only, and why.** `PairAgrees`, `EveryRingIsTimed` and
`HistorySettled` are claims about the maps: with Redis each has a window between two
commands (e.g. `end_call` between the two `setInCall` of an answer). `NoGhostInMemory` is
the same for rooms. They say what the code guarantees in the mode where its reasoning
applies; the windows are in `hazards`. `PairAgrees` is about two accounts: with a third, a
late `end_call`, which names the peer of an earlier call, clears that peer's entry while he
talks to somebody else. `HistorySettled` is too, and sets aside calls whose ring another
call overwrote, a race of two callers, and those whose UPDATE failed, which no handler tries
again (`excused`), and a crash, which closes no row. `AtMostOneAnswer`, `ReleasedForGood`,
`ContractKept`, `SomebodyMayEnd` hold in both.

**What history variables set apart.** A property stated for every behaviour would sometimes
be false, and then a counterexample of its own says so (next section) while the property
says that nothing else goes wrong: `derailed` trips, `raced` orders, `strays` and `ghosts`
of the safebox, `excused` calls, `torn` members and `cut` sends. Each is set only by the
step that is known to go wrong. What a property sets apart it does not catch, and some are
wider than one would like: `raced` excuses a number taken by a registration or an
administrator whether or not `isHeld` was looked at before; `SilenceEscalates` leaves out
the trip whose worker died, and a job that used up its attempts; `ContractKept` and
`NoGhostInMemory` are about seats taken or lost wrongly and about the maps, so the seat that
stays held with Redis when the old job is not cancelled (`groupRooms.js:303`) is beyond
them.

Each property of a run has a mutant in `PROJECT.json`: a plausible bug
in one definition of the model that makes that property fail.

### Counterexamples kept beside the runs

Where the code, or a comment of it, disagrees with what a reader would expect, a
configuration states the expectation and TLC refutes it in seconds
(`tlc -config trips_silence.cfg MCTrips`). They are not among the runs of
`PROJECT.json`, which all pass; its hazards name them.

| Configuration | Property refuted | What TLC shows |
|---|---|---|
| `calls_reclaim` (`MCOneToOneCalls`) | `ReclaimOnlyPhantoms` | a third caller makes `reclaimStaleBusy` clear a ring whose callee is being woken by a push (`calls.js:920` speaks of phantom states only) |
| `calls_late_reject` | `LateRejectSparesAnswered` | a delayed refusal turns the row of an answered call into a refused one |
| `calls_ignored_grace` | `InCallKeepsOwner` | a grace ignored because the device came back releases the ownership of the live call all the same |
| `calls_departed_phone` | `DepartedPhoneIsTimed` | the answer erases the grace of a caller whose phone had dropped while ringing |
| `rooms_return` (`MCGroupRooms`) | `ReturnedIsSpared` | with Redis, an account that rejoins between the read and the arming of the grace is expelled later |
| `rooms_busy` | `GoneRoomFreesAll` | a participant expelled by the expiry of his grace stays `in_group`, hence busy |
| `trips_silence` (`MCTrips`) | `UnconfirmedReachesCircle` | an arrival detected by mistake moves the trip to `awaiting_confirm` with no grace armed; the deadline then finds it no longer active, and a silent owner's circle is never told (`tripWorkers.js:4` promises it is) |
| `phones_paid` (`MCPhoneOrders`) | `PaidIsServed` | a payment expired after thirty minutes, or failed because `initiate` threw, is paid for late: nothing is given (`alanyaPhoneOrders.js:41`, «Aucune issue ne laisse un paiement sans contrepartie») |
| `phones_pending` | `OnePendingPayment` | two requests of one account both find no pending payment (`paymentService.js:80`) |
| `subs_purge` (`MCSubscriptions`) | `PurgeSparesSubscriber` | a period bought between the marker and the deletion does not stop the deletion of the paid data (`subscriptions.js:116`) |
| `messages_tombstones` (`MCMessages`) | `CursorSkipsNothing` | two deletions commit in the reverse order of their ids and a cursor passes one (`messageTombstone.js:14`) |
| `messages_sealed` | `SealedIsReadable` | the HTTP path commits the row of a sealed message before its body; after a crash the retry acknowledges the row (`messageController.js:392` says they are committed together) |
| `safebox_album` (`MCSafebox`) | `AlbumKeepsContent` | `addToFolder` designates a blob that the cleaning has marked |
| `messages_replay` | `HeardOnce` | a bubble sent again by the other path is announced and counted twice: mysql2 leaves CLIENT_FOUND_ROWS on, so the no-op UPDATE of the key reports one affected row and `isNewInsert` is true (`messageController.js:389` and `messageSend.js:480` say that a replay is not) |
| `safebox_restored` | `OnlyFromTrash` | a file restored between the look of its final deletion and the DELETE disappears while it is shown (`service.js:1276-1281`; the comment at 1271 says a file of the trash) |

## 4. What is proved

For any accounts, devices, sockets, slots, limits and bounds, in both modes,
under the assumptions on constants named `OneToOneAssumption`,
`GroupRoomsAssumption`, `JobQueueAssumption`, `TripsAssumption`,
`PhoneOrdersAssumption`, `SafeboxAssumption`, `MessagesAssumption`,
`SubscriptionsAssumption` (typing of the maps and of the bounds, `None` and the like outside the
sets).

* `OneToOneCallsProofs!TypeCorrect`: `Spec => []TypeOK`.
* `OneToOneCallsProofs!OneAnswer`: `Spec => []AtMostOneAnswer`.
* `OneToOneCallsProofs!NothingReopens`: `Spec => ReleasedForGood`.
* `OneToOneCallsProofs!RingTimedInMemory`: `ASSUME ~SharedStore PROVE Spec => []EveryRingIsTimed`.
* `OneToOneCallsProofs!PairAgreesInMemory`:
  `ASSUME ~SharedStore, TwoAccounts PROVE Spec => []PairAgrees`.
* `OneToOneCallsProofs!HistorySettledInMemory`:
  `ASSUME ~SharedStore, TwoAccounts PROVE Spec => []HistorySettled`.
* `GroupRoomsProofs!TypeCorrect`: `Spec => []TypeOK`.
* `GroupRoomsProofs!KeepsContract`: `Spec => ContractKept`, the refinement.
* `GroupRoomsProofs!SomebodyMayEndAlways`: `Spec => []SomebodyMayEnd`.
* `GroupRoomsProofs!NoGhostInMemoryAlways`: `Spec => []NoGhostInMemory`.
* `JobQueueProofs!TypeCorrect`: `Spec => []TypeOK`.
* `JobQueueProofs!Alone`: `Spec => []OneRunner`.
* `JobQueueProofs!Bounded`: `Spec => []AttemptsBounded`.
* `JobQueueProofs!Served`: `Spec => AcceptedIsServed`.
* `TripsProofs!TypeCorrect`: `Spec => []TypeOK`.
* `TripsProofs!DeadlineKept`: `Spec => []DeadlineArmed`.
* `TripsProofs!ClosedStays`: `Spec => ClosedIsQuiet`.
* `PhoneOrdersProofs!TypeCorrect`: `Spec => []TypeOK`.
* `PhoneOrdersProofs!BooksAgree`: `Spec => []OrderFollowsPayment`.
* `PhoneOrdersProofs!Kept`: `Spec => []NumberKept`.
* `PhoneOrdersProofs!OneNumber`: `Spec => OnePaymentOneNumber`.
* `SafeboxProofs!TypeCorrect`: `Spec => []TypeOK`.
* `SafeboxProofs!ContentKept`: `Spec => []NothingLost`.
* `SafeboxProofs!SpaceKept`: `Spec => []QuotaKept`.
* `SafeboxProofs!NeverAtOnce`: `Spec => ThroughTrash`.
* `MessagesProofs!TypeCorrect`: `Spec => []TypeOK`.
* `MessagesProofs!SentIsHeardAlways`: `Spec => []SentIsHeard`.
* `MessagesProofs!UnreadAlways`: `Spec => []UnreadKept`.
* `MessagesProofs!ReceiptsClimbAlways`: `Spec => ReceiptsClimb`.
* `SubscriptionsProofs!TypeCorrect`: `Spec => []TypeOK`.
* `SubscriptionsProofs!InLineAlways`: `Spec => []PeriodsInLine`.
* `SubscriptionsProofs!GivenOnceAlways`: `Spec => []GivenOnce`.
* `SubscriptionsProofs!MarkedIsOverAlways`: `Spec => MarkedIsOver`.
* `SubscriptionsProofs!TrustIsKeptAlways`: `Spec => TrustIsKept`.

**Two-party calls.** Neither `TypeOK` nor `AtMostOneAnswer` is inductive. `Inv` adds:
an active entry names a call and a peer (else the handlers that copy them could
write `None`); an execution holds values of the type its point needs; the call
an execution of `call_user` is opening has the identifier `INSERT` just gave and
no announced call has it, so that `OpenOwnership` never overwrites the rows of a
call somebody may answer; and a device in `winners[c][u]` is still the active
owner, or the call has been released, after which `tryClaim` finds no row. The
proof splits steps into *quiet* ones (no ownership opened or claimed: most of the
handlers) settled once by `QuietStep`, and the few that open or claim. Then
`NothingReopens` is an action property: only `OpenOwnership` and `Claim` write
a row, the first never under an announced call, the second never without a row.

`RingTimedInMemory` is about one process (with Redis the property is false: section 3). There, an
execution that is not the one on the event loop waits for MySQL (`Alone`). `EveryRingIsTimed` is
lost between `setRinging` and the arming, and again between the firing of the timer and `clear`:
`Owes` says which account the running execution owes its deadline, `RingLaw` what it knows
meanwhile (the row of its call names the callee, the ring it will arm is the one it found, the
timer that fired was of the ring that is there). Every other write is `Milder`: an account that
rings after it rang before, with the same deadline. Unlike `PairAgrees` it needs no bound on the
accounts: a ring that another call overwrites takes its deadline with it.

`PairAgreesInMemory` is about two accounts, with any number of devices, executions and calls
(`TwoAccounts`; false with three, section 3). The pair
disagrees only while the running execution is between its two writes (`Half`); `PairLaw` says
what it knows there: the side it has written, and that the other side is the peer's. `RowsApart`
and `TimersApart` (a row of `callHistory`, a no-answer deadline, is about two different accounts)
make a refusal, an answer and a deadline find the pair. No overwritten ring is set aside: the
second ring is of the same two accounts and rewrites both sides. Crashes are included: they empty
the maps.

`HistorySettledInMemory` follows from `SettleInv`, over the two invariants before: the row of an
announced call is open only while the call rings (`RungIn`) or the running execution has ended its
ring and will close it (`Closes`, with the points `CloseAt`). A handler that writes over a ring must
therefore be working for that very call: before such a write (`Settling`) nothing else rings, which
is where `PairAgrees` is used, since what the handler looked up in one entry must also be true
of the other. The purges of `call_user` end no ring: it does not go on while the two ring each
other, and no ring is stale when its verdict is read (`FreshRings`).

**Rooms.** `IInv` is typing split by the part of the state it is about, plus: a
locked or queued grace carries a token other than 0, and so does an execution at
the point where it uses one. This is what makes `ExpireGrace` a step of the
contract: EXPIRE_OU_PART compares a non-zero token with the one that runs on the
seat, so a match means the seat is held. Steps that leave the room alone map to
`Requests`; each of the others maps to one action of the contract (`WipeSteps`,
`SeatSteps`, `JoinStep`, `GiveUpStep`, `ExpireStep`, `ArmStep`, `CrashStep`).

`SomebodyMayEnd` needs one fact more (`Chief`): until a crash, the organiser who has the right and
no seat is one whom a `create_group_call` has announced and is about to seat. `NoGhostInMemory` is
lost in the middle of every handler of the maps, so its invariant `InMaps` follows the one that
runs: `Alone`, no other handler is past its first look; `RoomLaw`, what is true of the room by the
point reached (a buried room is empty, a participant's room exists); `OthersFollowed`, the guests
it does not work for are occupied or waited for, and their row of device ownership names no socket
that left (`Tracked`, without which the stale-socket guard of `disconnect` would skip a grace); and
`ItsGuest`, what is due to the one it works for: before the claim he is followed, after it his row
names his socket, which is connected; past `EXPIRE_OU_PART` he has no seat or is in the room. There
is one lemma per handler.

**Job queue.** `Inv` adds to `TypeOK` and `OneRunner`: a locked row has not failed;
an execution that has not outlived its lock still holds it and its snapshot of the
attempts is right (`HeldOK`), so that counting from the snapshot loses nothing;
the executions of a row are its attempts, the one under way, and those lost to
faults (`CountOK`); and an execution at its DELETE has returned (`DoneOK`). A
worker takes only an unlocked row, so by `HeldOK` nobody else executes it. Three
shapes of steps carry the proof: rows taken out or inserted (`Takeout`,
`InsertInv`), rows relabelled (`RowStep`), an execution that starts, goes on or
ends (`TakeInv`, `GoesOn`, `Ended`).

**Trips.** `DeadlineArmed` is lost in the middle of `arm`, which cancels everything
first, so the invariant follows the executions: `PromiseOK` says of each open trip
that its deadline is in the queue or that an execution is about to put it there, and, if
a job that holds a lock is past its look at the state, that somebody still has to arm;
`FreshOK` that an execution whose write nobody overtook finds the trip as it saw it;
`ClosedOK` that what is left of a closing concerns a closed trip. `PointOK` says what an
execution carries at each point. The steps fall into families (nothing moves, a row is
added, all rows go, a row is taken, an execution ends or dies, the trip is written), each
settled by a lemma. `DeadlineArmed` is `PromiseOK` where no execution is under way;
`ClosedIsQuiet` follows from `FreshOK`, since only three statements write a trip.

**Orders.** `OrderFollowsPayment` is kept by each transaction on its own. `NumberKept`
speaks of orders that are being paid, and a hold becomes one without looking again: the
invariant says of *every* active order that its number belongs to nobody else unless
somebody raced (`Aside`) and that an account has at most one per number (`Apart`), which the
unique index gives. `RowsOK` ties rows, payers and ids, `ReqOK` what a request carries
between its transactions.

**Safebox.** `NothingLost` says of a blob that is ready that its blocks are at the store,
which `completeUpload` checked before its transaction: `Executions` keeps what an execution
saw of its blob true until it acts, or the blob is being deleted. `Stored` and `Marked`
speak of every blob and every row, shown or not, so that a restore or a copy finds what it
needs. For the space, one reservation at a time holds the lock of an account and its place
is still free (`Room`); `saveShare` waits for that lock and looks at the space itself, and
`addToFolder` adds a content the account holds already, or a ghost. `Astray`: a live file in
an album that is in the trash is a stray. `ThroughTrash` follows step by step: whatever is
deleted is in the trash by then, a stray, or what the execution that deletes it had looked
at (`Condemned`).

**Messages.** `HandlersOK` says what each handler carries at its point: past its insertion,
its row is there and of its send, hidden only by its own transaction. `OneRow` and
`OneForward`: one row per send, whoever tries it again; a forward belongs to one handler.
`Told`: what is heard, counted or acknowledged has a committed row, and what has a row and
was not cut has been heard and counted, or a handler past its insertion still will.
`SentIsHeard` is `OneRow` and `Told` where no handler works on the send. `Kept` relates, for
a member whose handlers were not cut, the unread counter, the messages that handlers still
owe it (`Due`: two handlers of one bubble owe it one) and the rows past the marks (`Ahead`),
also while a reading of his is between its mark and its zero; that a replay counts twice
only raises the counter. Stating the types showed that two arms of the CASE by which
`AfterInsert` chose the next step overlapped; they are now exclusive, as the early returns
of the code are.

**Subscriptions.** `LineOK`: the periods of an account are in line, `current_end` is the end
of one of them and bounds them all, and a purge is planned only after it. `CodeOK`: a code's
period is its redeemer's, and there is one. The compensations are the hard part: a job of an
earlier activation may run late, or again after a crash. `LengthOK` says that the reasons of
the compensations of an account are activations of the past, each once, and that its line is
no longer than what was bought plus the latest of them (the free phases do not overlap, so
their lengths telescope: this is what types `current_end`); `JobOK` that the queued
compensation which may still run is of a free phase after all those given back. `WorkOK`
says an execution owns its row of the queue. `MarkedIsOver` follows from `LineOK`, because
the marker is written under its conditions. `TrustIsKept` needs no more than the invariant:
a step either keeps the offer and the grace or puts it off and only adds periods, and loses
then no right but those of a shorter trial or of a feature made paid (`Lasts`), or leaves
everybody free for at least the week of trust (`Leaves`); and `Trusts` says of a right held
now that it lasts until the date the phone was given, whichever of the chain of periods, the
grace or the trial bounds it.

**Only model-checked.** Every invariant and action property of the runs is proved. Liveness
(`RingingEnds`, `JobEnds`, `SilenceEscalates`, `PaymentEnds`, `EndIsRecorded`, `Reclaimed`)
stays with TLC: `ENABLED` is beyond the prover. So do the counterexamples of section 3.

## 5. Running

    tlc -workers 2 -config calls_memory.cfg MCOneToOneCalls
    tlapm OneToOneCallsProofs.tla

The longest runs, with two workers, are `subs` and `calls_memory` (three minutes),
`safebox_live` (two and a half), `safebox` (2.9 million states, two minutes), `messages`,
`rooms`, `calls_live` (one to two), `calls_shared`, `phones`, `phones_live` and `trips`
(about one). The proofs of a module take one to four minutes from nothing, those of
`OneToOneCalls` eight.

## 6. Hazards

`PROJECT.json` lists, line by line, what is hard to test here, with the
properties that cover it, the configuration that shows it going wrong, or the reason
no property covers it. By kind: interleavings of
`call_user`, `answer_call`, `end_call` and the deadlines at every Redis round trip;
checks made before an await and used after it; pairs of writes that are not
atomic; events that name an account and not a call; deadlines cancelled by
writes that did not mean to; crashes between a write and its deadline; jobs
retried, orphaned or failed for good; tokens reused after a counter is deleted; requests that
disarm what another arms; payments settled from four sides; jobs that decide, then
delete; one bubble sent by two paths; counters, marks and cursors that a later
commit overtakes; a store that cannot commit with MySQL.

## 7. Plan

1. Done: `CallState`, `DeviceOwnership`, `OneToOneCalls`, `GroupRoomContract`,
   `GroupRooms`, `JobQueue` and their proofs.
2. Done: `Trips`, `PhoneOrders`, `Subscriptions`, `Messages`, `Safebox` and their proofs.
3. `CallSessions`: three-party sessions under their lock, `destroy` without it,
   the index by account. Properties: an indexed account is in its session; an
   invitation ends.
4. Three-account properties of two-party calls: overwritten rings, a late
   `end_call` or refusal that reaches a call with somebody else.
5. Meetings, leases, one-shot tokens, the stock of one-time prekeys.

## 8. Not modelled, and why

What is in section 7 and not done needs models of its own. Requests that are one
transaction on MySQL (accounts, stickers, administration, members of a conversation,
edits, reactions) have no interleaving that a model would reach better than a test.
Pushes, media relays, previews and payment providers are input and output: the models
take every answer they may give. Formatting, translations and logs carry no state.
