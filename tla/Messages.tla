------------------------------- MODULE Messages -------------------------------
(***************************************************************************)
(* One group conversation: the messages its members send (by the socket,   *)
(* over HTTP, or as a forward), their receipts, and their deletion for     *)
(* everybody.  A request is a handler in flight on some instance; each of  *)
(* its steps is the stretch between two round trips to MySQL.              *)
(*                                                                         *)
(* A row inserted inside a transaction has its id at once and is visible   *)
(* to the others at the commit: until then `open' names its request, plain *)
(* reads do not see it, and the UPDATEs that would touch it wait.          *)
(*                                                                         *)
(* Left out: contents, stickers, mentions, the policy and the blocks of a  *)
(* conversation of two, the cached list of participants, and what the row  *)
(* of the conversation repeats of its messages (preview, message_count).   *)
(***************************************************************************)
EXTENDS Integers, FiniteSets, FiniteSetsExt

CONSTANTS
  None,
  Members,       \* accounts of the group
  Admins,        \* those with role >= 1
  Readers,       \* bound: members whose devices send receipts and catch up
  Sends,         \* one per bubble of a phone: its clientId, or a forward
  AuthorOf,      \* the account that sends it
  SealedSends,   \* sends whose body is end-to-end encrypted
  Forwards,      \* sends by POST /messages/batch-forward, which carry no clientId
  Requests,      \* handlers in flight at once
  MaxRows,       \* bound: message ids given
  MaxTombs,      \* bound: deletions recorded
  MaxFaults      \* bound: handlers cut short and envelopes refused

Ids == 1..MaxRows
TombIds == 1..MaxTombs

\* A row of message, and one of message_deletion.
Rows  == [send : Sends, status : 1..3, body : BOOLEAN, deleted : BOOLEAN, open : Requests \union {None}]
Tombs == [row : Ids, open : Requests \union {None}]

\* The handlers, and where one stands between two round trips.
Ops == {"idle", "socket", "http", "forward", "receive", "read", "delete"}
Steps == {"look", "insert", "body", "commit", "tell", "spread", "count", "deliver", "zero", "peek",
          "raise", "rows"}

ASSUME MessagesAssumption ==
  /\ AuthorOf \in [Sends -> Members]
  /\ Admins \subseteq Members /\ Readers \subseteq Members
  /\ SealedSends \subseteq Sends /\ Forwards \subseteq Sends \ SealedSends
  /\ MaxRows \in Nat /\ MaxTombs \in Nat /\ MaxFaults \in Nat
  /\ None \notin Requests \union Sends \union Members \union Rows \union Tombs \union Steps

VARIABLES
  rows,      \* table message, by msgID: a record, or None
  lastId,    \* its auto-increment
  tombs,     \* table message_deletion, by id
  lastTomb,  \* its auto-increment
  unread,    \* conv_participants.unreadCount
  seen,      \* conv_participants.lastReadMsgID and lastDeliveredMsgID
  phone,     \* per member: the cursor of deletions, the messages it knows deleted
  outbox,    \* sends still waiting for their acknowledgement on a phone
  req,       \* the handlers in flight
  heard,     \* history: how often a send was announced to the other members
  counted,   \* history: how often it was added to their unread counters
  torn,      \* history: members whose counters a cut handler left behind
  cut,       \* history: sends whose handler was cut with its row committed
  faults

store == <<rows, lastId, tombs, lastTomb>>
marks == <<unread, seen>>
history == <<heard, counted, torn, cut, faults>>
vars == <<store, marks, phone, outbox, req, history>>

Idle == [op |-> "idle", who |-> None, step |-> None, send |-> None, id |-> 0]

Author(id) == AuthorOf[rows[id].send]
Others(u) == Members \ {u}

\* Rows another connection reads.
Visible == {id \in Ids : rows[id] # None /\ rows[id].open = None}
Last == Max(Visible \union {0})

\* Rows of an uncommitted INSERT, and rows under the FOR UPDATE of a deletion.
Locked == {id \in Ids : rows[id] # None /\ rows[id].open # None}
            \union {req[q].id : q \in {q \in Requests : req[q].op = "delete" /\ req[q].step = "commit"}}

Goto(r, step) == req' = [req EXCEPT ![r].step = step]
Finish(r) == req' = [req EXCEPT ![r] = Idle]
At(r, ops, step) == req[r].op \in ops /\ req[r].step = step
Start(r, op, u, step, s, id) ==
  /\ req[r] = Idle
  /\ req' = [req EXCEPT ![r] = [Idle EXCEPT !.op = op, !.who = u, !.step = step, !.send = s, !.id = id]]

\* Handlers that have yet to add their row, which is there, to the counters.
Owes(r) ==
  /\ req[r].op \in {"socket", "http"}
  /\ req[r].id \in Visible
  /\ req[r].step # "deliver"

\* A reader whose counter is already empty and whose mark has yet to move.
BetweenMarks(r) == req[r].op = "read" /\ req[r].step \notin {"zero", "rows"}

\* History: whose counter is left behind when the handler is cut here.
Shorted(r) ==
  (IF Owes(r) THEN Others(req[r].who) ELSE {}) \union (IF BetweenMarks(r) THEN {req[r].who} ELSE {})

\* History: which send is left half told when the handler is cut here.
HalfTold(r) ==
  IF req[r].op \in {"socket", "http", "forward"} /\ req[r].id \in Visible THEN {req[r].send} ELSE {}

---------------------------------------------------------------------------
(* Sending.  A phone tries again, by either path, what nobody acknowledged. *)

Sealed(r) == req[r].send \in SealedSends

\* insereMessage opens a transaction for a sealed body only; _persistMessage
\* uses the one of batchForwardMessages, and none for POST /messages.
InTransaction(r) == req[r].op = "forward" \/ (req[r].op = "socket" /\ Sealed(r))

Send(r, s) ==
  /\ s \in outbox \ Forwards
  /\ \/ Start(r, "socket", AuthorOf[s], "insert", s, 0)
     \/ Start(r, "http", AuthorOf[s], "look", s, 0)
  /\ UNCHANGED <<store, marks, phone, outbox, history>>

\* A forward is not tried again: nothing would recognise the second copy.
Forward(r, s) ==
  /\ s \in outbox \intersect Forwards
  /\ Start(r, "forward", AuthorOf[s], "insert", s, 0)
  /\ outbox' = outbox \ {s}
  /\ UNCHANGED <<store, marks, phone, history>>

Acknowledge(r) == outbox' = outbox \ {req[r].send}

\* _persistMessage first looks for the clientId among the visible, living rows.
Look(r) ==
  /\ At(r, {"http"}, "look")
  /\ IF \E id \in Visible : rows[id].send = req[r].send /\ ~rows[id].deleted
       THEN Acknowledge(r) /\ Finish(r)
       ELSE Goto(r, "insert") /\ UNCHANGED outbox
  /\ UNCHANGED <<store, marks, phone, history>>

\* What the unique key (senderID, clientID) already holds.
Holders(s) == {id \in Ids : rows[id] # None /\ rows[id].send = s /\ s \notin Forwards}

AfterInsert(r) ==
  IF Sealed(r) THEN "body"
  ELSE [socket |-> "tell", http |-> "count", forward |-> "commit"][req[r].op]

NewRow(r) ==
  /\ lastId < MaxRows
  /\ lastId' = lastId + 1
  /\ rows' = [rows EXCEPT ![lastId + 1] =
       [send |-> req[r].send, status |-> 1, body |-> FALSE, deleted |-> FALSE,
        open |-> IF InTransaction(r) THEN r ELSE None]]
  /\ req' = [req EXCEPT ![r].id = lastId + 1, ![r].step = AfterInsert(r)]

\* The no-op UPDATE of a row that is there counts it all the same: the pool leaves
\* CLIENT_FOUND_ROWS on, the default of mysql2, so affectedRows is 1 and isNewInsert
\* is true.  The branch of a replay is never taken.
SameRow(r, id) ==
  /\ req' = [req EXCEPT ![r].id = id, ![r].step = AfterInsert(r)]
  /\ UNCHANGED <<rows, lastId>>

\* INSERT ... ON DUPLICATE KEY UPDATE msgID = LAST_INSERT_ID(msgID), which waits
\* for the transaction that inserts the same key.
Insert(r) ==
  /\ At(r, {"socket", "http", "forward"}, "insert")
  /\ LET same == Holders(req[r].send) IN
       /\ same \intersect Locked = {}
       /\ \/ same = {} /\ NewRow(r)
          \/ \E id \in same : SameRow(r, id)
  /\ UNCHANGED <<tombs, lastTomb, marks, phone, outbox, history>>

\* ecritChiffre: inside the transaction of the socket, statement by statement over HTTP.
WriteBody(r) ==
  /\ At(r, {"socket", "http"}, "body")
  /\ IF InTransaction(r)
       THEN Goto(r, "commit") /\ UNCHANGED rows
       ELSE /\ Goto(r, "count")
            /\ rows' = [rows EXCEPT ![req[r].id].body = TRUE]
  /\ UNCHANGED <<lastId, tombs, lastTomb, marks, phone, outbox, history>>

\* Mutant of Dropped: the rollback forgotten.
NotDropped(r) == rows

Dropped(r) == [id \in Ids |-> IF rows[id] # None /\ rows[id].open = r THEN None ELSE rows[id]]
Undone(r) == [t \in TombIds |-> IF tombs[t] # None /\ tombs[t].open = r THEN None ELSE tombs[t]]

\* The foreign key refuses the envelope of a device revoked meanwhile.
UnknownDevice(r) ==
  /\ At(r, {"socket", "http"}, "body")
  /\ faults < MaxFaults /\ faults' = faults + 1
  /\ rows' = Dropped(r)
  /\ torn' = torn \union Shorted(r)
  /\ cut' = cut \union HalfTold(r)
  /\ Finish(r)
  /\ UNCHANGED <<lastId, tombs, lastTomb, marks, phone, outbox, heard, counted>>

CommitSealed(r) ==
  /\ At(r, {"socket"}, "commit")
  /\ rows' = [rows EXCEPT ![req[r].id].open = None, ![req[r].id].body = TRUE]
  /\ Goto(r, "tell")
  /\ UNCHANGED <<lastId, tombs, lastTomb, marks, phone, outbox, history>>

Announce(s) == heard' = [heard EXCEPT ![s] = @ + 1]

\* unreadCount + 1 for every member but the sender.
Counted(s) ==
  /\ unread' = [u \in Members |-> IF u = AuthorOf[s] THEN unread[u] ELSE unread[u] + 1]
  /\ counted' = [counted EXCEPT ![s] = @ + 1]

\* Mutant of Tell: what the other path acknowledged is taken for announced.
ToldByTheOther(r) ==
  /\ At(r, {"socket"}, "tell")
  /\ Acknowledge(r)
  /\ IF req[r].send \notin outbox
       THEN Finish(r) /\ UNCHANGED heard
       ELSE Goto(r, "count") /\ Announce(req[r].send)
  /\ UNCHANGED <<store, marks, phone, counted, torn, cut, faults>>

\* message:send acknowledges first; the sealed copies leave after one more read.
Tell(r) ==
  /\ At(r, {"socket"}, "tell")
  /\ Acknowledge(r)
  /\ IF Sealed(r)
       THEN Goto(r, "spread") /\ UNCHANGED heard
       ELSE Goto(r, "count") /\ Announce(req[r].send)
  /\ UNCHANGED <<store, marks, phone, counted, torn, cut, faults>>

Spread(r) ==
  /\ At(r, {"socket"}, "spread")
  /\ Announce(req[r].send)
  /\ Goto(r, "count")
  /\ UNCHANGED <<store, marks, phone, outbox, counted, torn, cut, faults>>

\* After the preview of the conversation.
Count(r) ==
  /\ At(r, {"socket", "http"}, "count")
  /\ Counted(req[r].send)
  /\ IF req[r].op = "http" THEN Goto(r, "deliver") ELSE Finish(r)
  /\ UNCHANGED <<store, seen, phone, outbox, heard, torn, cut, faults>>

\* Counters and row of a forward become visible together.
CommitForward(r) ==
  /\ At(r, {"forward"}, "commit")
  /\ rows' = [rows EXCEPT ![req[r].id].open = None]
  /\ Counted(req[r].send)
  /\ Goto(r, "deliver")
  /\ UNCHANGED <<lastId, tombs, lastTomb, seen, phone, outbox, heard, torn, cut, faults>>

\* POST /messages and batch-forward announce and answer last.
Deliver(r) ==
  /\ At(r, {"http", "forward"}, "deliver")
  /\ Announce(req[r].send)
  /\ Acknowledge(r) /\ Finish(r)
  /\ UNCHANGED <<store, marks, phone, counted, torn, cut, faults>>

---------------------------------------------------------------------------
(* Receipts: message:delivered and message:read, or their HTTP twins.       *)

\* Mutant of AfterReceipt: the counter emptied once the marks have moved.
MarksFirst(step) ==
  [begin |-> "peek", peek |-> "raise", raise |-> "zero", zero |-> "rows"][step]

\* markConversationReadBy empties the counter, then moves the marks of the reader
\* (the delivered one and the read one, here together), then the rows and the
\* preview; a reception starts with its own mark.
AfterReceipt(step) ==
  [begin |-> "zero", zero |-> "peek", peek |-> "raise", raise |-> "rows"][step]

Receive(r, u) ==
  /\ Start(r, "receive", u, "peek", None, 0)
  /\ UNCHANGED <<store, marks, phone, outbox, history>>

Read(r, u) ==
  /\ Start(r, "read", u, AfterReceipt("begin"), None, 0)
  /\ UNCHANGED <<store, marks, phone, outbox, history>>

Zero(r) ==
  /\ At(r, {"read"}, "zero")
  /\ unread' = [unread EXCEPT ![req[r].who] = 0]
  /\ Goto(r, AfterReceipt(req[r].step))
  /\ UNCHANGED <<store, seen, phone, outbox, history>>

\* avancerRepereGroupe: SELECT MAX(msgID), then an UPDATE that only goes forward.
Peek(r) ==
  /\ At(r, {"read", "receive"}, "peek")
  /\ req' = [req EXCEPT ![r].id = Last, ![r].step = AfterReceipt(req[r].step)]
  /\ UNCHANGED <<store, marks, phone, outbox, history>>

Further(old, upTo) == Max({old, upTo})

Raise(r) ==
  /\ At(r, {"read", "receive"}, "raise")
  /\ seen' = [seen EXCEPT ![req[r].who].delivered = Further(@, req[r].id),
                          ![req[r].who].read = IF req[r].op = "read" THEN Further(@, req[r].id) ELSE @]
  /\ Goto(r, AfterReceipt(req[r].step))
  /\ UNCHANGED <<store, unread, phone, outbox, history>>

Grade(r) == IF req[r].op = "read" THEN 3 ELSE 2

\* Mutant of Below: the guard on the former status dropped.
AnyStatus(grade) == 1..3

\* The statuses a receipt of that grade replaces: a reception guards with
\* status = 1, a reading with status < 3.
Below(grade) == 1..(grade - 1)

MarkRows(r) ==
  /\ At(r, {"read", "receive"}, "rows")
  /\ Locked = {}
  /\ rows' = [id \in Ids |->
       IF rows[id] # None /\ Author(id) # req[r].who /\ rows[id].status \in Below(Grade(r))
         THEN [rows[id] EXCEPT !.status = Grade(r)]
         ELSE rows[id]]
  /\ Finish(r)
  /\ UNCHANGED <<lastId, tombs, lastTomb, marks, phone, outbox, history>>

---------------------------------------------------------------------------
(* Deletion for everybody, and its catching up by the phones.              *)

\* decider: the author, or an administrator over a plain member.
MayDelete(u, id) == Author(id) = u \/ (u \in Admins /\ Author(id) \notin Admins)

\* SELECT ... FOR UPDATE, the UPDATE of the row and the INSERT of its tombstone,
\* which takes its id here and is read by the others at the commit.
Delete(r, u, id) ==
  /\ id \in Visible \ Locked
  /\ MayDelete(u, id)
  /\ ~rows[id].deleted
  /\ lastTomb < MaxTombs
  /\ Start(r, "delete", u, "commit", None, id)
  /\ lastTomb' = lastTomb + 1
  /\ tombs' = [tombs EXCEPT ![lastTomb + 1] = [row |-> id, open |-> r]]
  /\ UNCHANGED <<rows, lastId, marks, phone, outbox, history>>

\* The commit; the message:deleted that follows does not reach a phone that is out
\* of the room, and those are the phones modelled.
CommitDelete(r) ==
  /\ At(r, {"delete"}, "commit")
  /\ rows' = [rows EXCEPT ![req[r].id].deleted = TRUE]
  /\ tombs' = [t \in TombIds |-> IF tombs[t] # None /\ tombs[t].open = r
                                   THEN [tombs[t] EXCEPT !.open = None] ELSE tombs[t]]
  /\ Finish(r)
  /\ UNCHANGED <<lastId, lastTomb, marks, phone, outbox, history>>

Buried == {t \in TombIds : tombs[t] # None /\ tombs[t].open = None}

\* The position a phone without a cursor starts from: a tombstone of thirty
\* seconds ago, by when every transaction that took a smaller id has ended.
Horizons == {h \in 0..lastTomb : \A t \in 1..h : tombs[t] # None => tombs[t].open = None}

FirstCursor(u) ==
  /\ phone[u].cursor = None
  /\ \E h \in Horizons :
       phone' = [phone EXCEPT ![u].cursor = h,
                              ![u].gone = @ \union {tombs[t].row : t \in Buried \intersect 1..h}]
  /\ UNCHANGED <<store, marks, outbox, req, history>>

\* A page is the first tombstones after the cursor; the cursor moves to its end.
Page(u) == LET after == {t \in Buried : t > phone[u].cursor} IN
           {t \in after : \A s \in after : t <= s}

EndOf(u) == Max(Page(u))

NextDeletions(u) ==
  /\ phone[u].cursor # None
  /\ Page(u) # {}
  /\ phone' = [phone EXCEPT ![u].cursor = EndOf(u),
                            ![u].gone = @ \union {tombs[t].row : t \in Page(u)}]
  /\ UNCHANGED <<store, marks, outbox, req, history>>

---------------------------------------------------------------------------
\* The process dies, or a statement throws: a transaction is rolled back, the
\* rest of the handler does not run.
Die(r) ==
  /\ req[r] # Idle
  /\ faults < MaxFaults /\ faults' = faults + 1
  /\ rows' = Dropped(r)
  /\ tombs' = Undone(r)
  /\ torn' = torn \union Shorted(r)
  /\ cut' = cut \union HalfTold(r)
  /\ Finish(r)
  /\ UNCHANGED <<lastId, lastTomb, marks, phone, outbox, heard, counted>>

Init ==
  /\ rows = [id \in Ids |-> None] /\ lastId = 0
  /\ tombs = [t \in TombIds |-> None] /\ lastTomb = 0
  /\ unread = [u \in Members |-> 0]
  /\ seen = [u \in Members |-> [delivered |-> 0, read |-> 0]]
  /\ phone = [u \in Members |-> [cursor |-> None, gone |-> {}]]
  /\ outbox = Sends
  /\ req = [r \in Requests |-> Idle]
  /\ heard = [s \in Sends |-> 0] /\ counted = [s \in Sends |-> 0]
  /\ torn = {} /\ cut = {} /\ faults = 0

Sending(r) ==
  \/ Look(r) \/ Insert(r) \/ WriteBody(r) \/ CommitSealed(r) \/ Tell(r)
  \/ Spread(r) \/ Count(r) \/ CommitForward(r) \/ Deliver(r)

Receipt(r) == Zero(r) \/ Peek(r) \/ Raise(r) \/ MarkRows(r)

CatchUp(u) == FirstCursor(u) \/ NextDeletions(u)

Next ==
  \/ \E r \in Requests :
       \/ \E s \in Sends : Send(r, s) \/ Forward(r, s)
       \/ \E u \in Readers : Receive(r, u) \/ Read(r, u)
       \/ \E u \in Members, id \in Ids : Delete(r, u, id)
       \/ Sending(r) \/ Receipt(r) \/ CommitDelete(r)
       \/ UnknownDevice(r) \/ Die(r)
  \/ \E u \in Readers : CatchUp(u)

Spec == Init /\ [][Next]_vars

---------------------------------------------------------------------------
(* Properties.                                                             *)

Handlers == [op : Ops, who : Members \union {None}, step : Steps \union {None}, send : Sends \union {None},
             id : 0..MaxRows]

\* The state is well-typed; ids above the auto-increment are free; a row not yet
\* committed belongs to a handler that is inside its transaction.
TypeOK ==
  /\ rows \in [Ids -> Rows \union {None}]
  /\ lastId \in 0..MaxRows /\ lastTomb \in 0..MaxTombs
  /\ tombs \in [TombIds -> Tombs \union {None}]
  /\ unread \in [Members -> Nat]
  /\ seen \in [Members -> [delivered : 0..MaxRows, read : 0..MaxRows]]
  /\ phone \in [Members -> [cursor : TombIds \union {0, None}, gone : SUBSET Ids]]
  /\ outbox \subseteq Sends
  /\ req \in [Requests -> Handlers]
  /\ heard \in [Sends -> Nat] /\ counted \in [Sends -> Nat]
  /\ torn \subseteq Members /\ cut \subseteq Sends /\ faults \in 0..MaxFaults
  /\ \A id \in Ids : id > lastId => rows[id] = None
  /\ \A id \in Ids : rows[id] # None /\ rows[id].open # None =>
       req[rows[id].open].id = id /\ req[rows[id].open].step \in {"body", "commit"}

\* Tried by the socket and over HTTP at once, cut short and tried again, a send
\* makes at most one row; nobody hears of it, and no counter has it, before its row
\* is committed; and once the phone stops trying and no handler works for it, a
\* committed message was announced to the others and added to their counters,
\* unless a handler was cut half-way.
SentIsHeard ==
  \A s \in Sends :
    LET mine == {id \in Ids : rows[id] # None /\ rows[id].send = s} IN
    /\ \A i, j \in mine : i = j
    /\ heard[s] > 0 \/ counted[s] > 0 \/ s \notin outbox \union Forwards => mine \intersect Visible # {}
    /\ s \notin outbox \union cut /\ mine \intersect Visible # {} /\ (\A r \in Requests : req[r].send # s) =>
         heard[s] > 0 /\ counted[s] > 0

\* A reading empties the counter before it moves the mark, so whatever arrives
\* meanwhile stays counted: unless a handler was cut in between, a member's counter
\* and the messages running handlers have yet to count are at least those past its mark.
UnreadKept ==
  \A u \in Members \ torn :
    (\A r \in Requests : req[r].who = u => ~BetweenMarks(r)) =>
      unread[u] + Cardinality({req[r].id : r \in {r \in Requests : req[r].who # u /\ Owes(r)}})
        >= Cardinality({id \in Visible : Author(id) # u /\ id > seen[u].read})

\* Receptions and readings of several members and devices overtake one another:
\* a row never goes back from read to delivered, a member's marks never go back,
\* and a message deleted for everybody stays deleted.
ReceiptsClimb ==
  [][/\ \A id \in Ids : rows[id] # None /\ rows'[id] # None =>
          rows'[id].status >= rows[id].status /\ (rows[id].deleted => rows'[id].deleted)
     /\ \A u \in Members : seen'[u].read >= seen[u].read /\ seen'[u].delivered >= seen[u].delivered]_vars

\* The comment of _persistAndDeliverMessage: a replay is announced to its sender only,
\* so the others hear of a message once and their counters have it once.
HeardOnce == \A s \in Sends : heard[s] <= 1 /\ counted[s] <= 1

\* The comment of messageTombstone.js: the cursor never jumps over a deletion whose
\* transaction commits after one with a greater id.
CursorSkipsNothing ==
  \A u \in Members : phone[u].cursor # None =>
    \A t \in Buried : t <= phone[u].cursor => tombs[t].row \in phone[u].gone

\* The comment of _persistMessage: a sealed message and its body are committed
\* together or not at all, so no acknowledged message is unreadable for everyone.
SealedIsReadable ==
  \A id \in Visible : rows[id].send \in SealedSends /\ rows[id].send \notin outbox => rows[id].body

=============================================================================
