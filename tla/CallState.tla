------------------------------- MODULE CallState -------------------------------
(***************************************************************************)
(* The call-state register of socket/state/callState.js: what the server   *)
(* knows of each account (idle, ringing or in a call, with which call and  *)
(* which peer) and the four kinds of deadline it arms on an account, which *)
(* are rows of job_queue when the register is in Redis and setTimeout      *)
(* handles when it is in memory.                                           *)
(*                                                                         *)
(* A register is a record [entry, timer] of two functions on Users; the    *)
(* primitives of callState.js are operators from registers to registers,   *)
(* so that a handler that chains several of them in one step composes      *)
(* them, and the handlers that interleave them take one per step.          *)
(***************************************************************************)
EXTENDS Integers

CONSTANTS Users,     \* accounts
          Slots,     \* handler executions that can be in flight at once
          MaxCalls,  \* bound: rows callHistory may get
          None

Calls   == 1 .. MaxCalls
NoCall  == 0

\* KINDS: no answer, disconnect grace, resume ack, resume without owner.
Kinds == {"no_answer", "grace", "resume_ack", "owner_missing"}

NoEntry == [status |-> "idle", call |-> NoCall, peer |-> None, stale |-> FALSE]

Ringing(c, p) == [status |-> "ringing", call |-> c, peer |-> p, stale |-> FALSE]
InCall(c, p)  == [status |-> "in_call", call |-> c, peer |-> p, stale |-> FALSE]

\* A job row: its payload, and the execution that holds its lock.
NoJob        == [armed |-> FALSE, call |-> NoCall, peer |-> None, lock |-> None]
Job(c, p)    == [armed |-> TRUE, call |-> c, peer |-> p, lock |-> None]
NoTimers     == [k \in Kinds |-> NoJob]

Entries == [status : {"idle", "ringing", "in_call"}, call : Calls \union {NoCall},
            peer : Users \union {None}, stale : BOOLEAN]
Jobs    == [armed : BOOLEAN, call : Calls \union {NoCall},
            peer : Users \union {None}, lock : Slots \union {None}]
Registers == [entry : [Users -> Entries], timer : [Users -> [Kinds -> Jobs]]]

EmptyRegister == [entry |-> [u \in Users |-> NoEntry],
                  timer |-> [u \in Users |-> NoTimers]]

Active(e) == e.status \in {"ringing", "in_call"}

-----------------------------------------------------------------------------
(* Writing: setRinging, setInCall and clear first cancel every deadline of  *)
(* the account, then write the entry.                                      *)

Write(reg, u, e) == [entry |-> [reg.entry EXCEPT ![u] = e],
                     timer |-> [reg.timer EXCEPT ![u] = NoTimers]]

SetRinging(reg, u, c, p) == Write(reg, u, Ringing(c, p))
SetInCall(reg, u, c, p)  == Write(reg, u, InCall(c, p))
Clear(reg, u)            == Write(reg, u, NoEntry)

-----------------------------------------------------------------------------
(* Deadlines. enqueue is a no-op on a row that exists (ON DUPLICATE KEY),   *)
(* locked or not, so every schedule* but one cancels its own row first.    *)

\* Mutant: the DELETE forgets to filter on the kind.
CancelAnyKind(reg, u, ks) == [reg EXCEPT !.timer[u] = NoTimers]

Cancel(reg, u, ks) ==
  [reg EXCEPT !.timer[u] = [k \in Kinds |-> IF k \in ks THEN NoJob ELSE @[k]]]

Enqueue(reg, u, k, c, p) ==
  IF reg.timer[u][k].armed THEN reg ELSE [reg EXCEPT !.timer[u][k] = Job(c, p)]

CancelledBy(k) == CASE k = "resume_ack"    -> {"resume_ack", "owner_missing"}
                    [] k = "owner_missing" -> {"resume_ack"}
                    [] OTHER               -> {k}

\* A worker takes the row for the execution l, or gives it back (None).
Lock(reg, u, k, l) ==
  [reg EXCEPT !.timer[u][k] = [reg.timer[u][k] EXCEPT !.lock = l]]

Schedule(reg, u, k, c, p) == Enqueue(Cancel(reg, u, CancelledBy(k)), u, k, c, p)

ConfirmResume(reg, u) == Cancel(reg, u, {"resume_ack", "owner_missing", "grace"})

-----------------------------------------------------------------------------
(* Questions asked before a call is placed, with the purges they do.       *)

RingsAt(reg, u, p) == reg.entry[u].status = "ringing" /\ reg.entry[u].peer = p

\* findExistingRingingPair
ExistingPair(reg, u, t) == RingsAt(reg, t, u) \/ RingsAt(reg, u, t)

\* Mutant: the other side of the call is forgotten.
ClearAlone(reg, u, too) == Clear(reg, u)

ClearWithPeer(reg, u, too) ==
  IF too THEN Clear(Clear(reg, u), reg.entry[u].peer) ELSE Clear(reg, u)

GoStale(reg, u) == [reg EXCEPT !.entry[u] = [reg.entry[u] EXCEPT !.stale = TRUE]]

ClearStaleRinging(reg, u) ==
  LET p == reg.entry[u].peer
  IN IF reg.entry[u].status = "ringing" /\ reg.entry[u].stale
     THEN ClearWithPeer(reg, u, p \in Users /\ RingsAt(reg, p, u))
     ELSE reg

\* reclaimStaleBusy: nobody is connected and no grace runs.
ReclaimStaleBusy(reg, u, connected) ==
  LET p == reg.entry[u].peer
  IN IF Active(reg.entry[u]) /\ ~connected /\ ~reg.timer[u]["grace"].armed
     THEN ClearWithPeer(reg, u, p \in Users /\ reg.entry[p].peer = u)
     ELSE reg

\* isBusyForNewCall, after its purge.
Busy(reg, u, remote) ==
  /\ Active(reg.entry[u])
  /\ ~RingsAt(reg, u, remote)
=============================================================================
