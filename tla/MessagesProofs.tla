---------------------------- MODULE MessagesProofs ----------------------------
(***************************************************************************)
(* Proofs about Messages, for any members, sends, handlers, rows, deletions *)
(* and faults: types, one row per send and no send left unheard, the unread *)
(* counters, receipts and deletions that never go back.                     *)
(***************************************************************************)
EXTENDS Messages, FiniteSetTheorems, WellFoundedInduction, TLAPS

Senders == {"socket", "http", "forward"}

\* The points of each handler.
PointOK(x) ==
  \/ x.op = "idle" /\ x.step = None
  \/ x.op = "socket" /\ x.step \in {"insert", "body", "commit", "tell", "spread", "count"}
  \/ x.op = "http" /\ x.step \in {"look", "insert", "body", "count", "deliver"}
  \/ x.op = "forward" /\ x.step \in {"insert", "commit", "deliver"}
  \/ x.op = "receive" /\ x.step \in {"peek", "raise", "rows"}
  \/ x.op = "read" /\ x.step \in {"zero", "peek", "raise", "rows"}
  \/ x.op = "delete" /\ x.step = "commit"

Within(x) == x.op = "forward" \/ (x.op = "socket" /\ x.send \in SealedSends)

\* The row of a handler past its insertion is there; committed, unless it inserts it in a transaction.
RowOK(r, x) ==
  LET row == rows[x.id] IN
  /\ x.op \in Senders /\ x.step \notin {"look", "insert"} =>
       /\ x.id \in Ids /\ row # None /\ row.send = x.send
       /\ row.open \in {None, r} /\ (row.open = r => x.step \in {"body", "commit"} /\ Within(x))
       /\ x.op = "forward" /\ x.step = "commit" => row.open = r
  /\ x.op = "delete" => x.id \in Ids /\ row # None /\ row.open = None

\* What a handler r in state x knows.
HandlerOK(r, x) ==
  /\ PointOK(x) /\ RowOK(r, x)
  /\ x.op \in Senders => /\ x.send \in Sends /\ x.who = AuthorOf[x.send]
                         /\ (x.op = "forward" <=> x.send \in Forwards)
                         /\ (x.step = "body" \/ (x.op = "socket" /\ x.step = "commit") => x.send \in SealedSends)
  /\ x.op \in {"read", "receive"} => x.who \in Members
  /\ x.op \in Senders /\ x.step \in {"look", "insert"} => x.id = 0

HandlersOK == \A r \in Requests : HandlerOK(r, req[r])

\* One row per send; a forward is inserted by the only handler that has it.
OneRow == \A i, j \in Ids : rows[i] # None /\ rows[j] # None /\ rows[i].send = rows[j].send => i = j

OneForward ==
  /\ \A r, q \in Requests : req[r].op = "forward" /\ req[q].op = "forward" /\ req[r].send = req[q].send => r = q
  /\ \A r \in Requests : req[r].op = "forward" => req[r].send \notin outbox
  /\ \A id \in Ids, s \in Forwards : rows[id] # None /\ rows[id].send = s =>
       s \notin outbox /\ \A r \in Requests : req[r].op = "forward" /\ req[r].send = s => req[r].step # "insert"

\* A handler whose row is there and that has yet to announce it.
Announces(r) == req[r].op \in Senders /\ req[r].id \in Visible /\ ~(req[r].op = "socket" /\ req[r].step = "count")

\* A send that has a committed row.
There(s) == \E id \in Visible : rows[id].send = s

\* What nobody has heard of, or counted, has a handler that will see to it.
Told ==
  /\ \A s \in Sends : heard[s] > 0 \/ counted[s] > 0 \/ s \notin outbox \union Forwards => There(s)
  /\ \A s \in Sends \ cut : There(s) =>
       /\ heard[s] > 0   \/ \E r \in Requests : req[r].send = s /\ Announces(r)
       /\ counted[s] > 0 \/ \E r \in Requests : req[r].send = s /\ Owes(r)

\* Messages past the mark of a member and past those its readings are about to set.
Owed(u)    == {r \in Requests : req[r].who # u /\ Owes(r)}
Due(u)     == {req[r].id : r \in Owed(u)}
Reading(u) == {r \in Requests : req[r].who = u /\ BetweenMarks(r)}
Ahead(u)   == {id \in Visible : /\ Author(id) # u /\ id > seen[u].read
                                /\ \A r \in Reading(u) : id > req[r].id}
Kept == \A u \in Members \ torn :
  (\A r \in Reading(u) : req[r].step # "peek") => unread[u] + Cardinality(Due(u)) >= Cardinality(Ahead(u))

Inv ==
  /\ TypeOK /\ HandlersOK /\ OneRow /\ OneForward /\ Told /\ Kept
-----------------------------------------------------------------------------
(* Greatest members                                                        *)

\* A nonempty set of naturals below a bound has a greatest member.
LEMMA MaxIn ==
  ASSUME NEW n \in Nat, NEW S \in SUBSET (0..n), S # {}
  PROVE  Max(S) \in S /\ \A y \in S : Max(S) >= y
<1> DEFINE U == {m \in Nat : \A y \in S : y <= m}
<1>1. U \subseteq Nat /\ n \in U
  OBVIOUS
<1>2. \E m \in U : \A k \in U : ~ (<<k, m>> \in OpToRel(<, Nat))
  <2> HIDE DEF U
  <2> QED BY <1>1, NatLessThanWellFounded, WFMin
<1>3. PICK m \in U : \A k \in U : ~ (k < m)
  <2>1. \A k, m \in U : <<k, m>> \in OpToRel(<, Nat) <=> k < m
    BY DEF OpToRel
  <2> QED BY <1>2, <2>1
<1>4. m \in S
  <2> SUFFICES ASSUME m \notin S PROVE FALSE
    OBVIOUS
  <2>1. \A y \in S : y < m
    BY <1>3
  <2>2. PICK y \in S : TRUE
    OBVIOUS
  <2>3. m > 0 /\ m - 1 \in U
    BY <1>3, <2>1, <2>2
  <2> QED BY <1>3, <2>3
<1>5. \E x \in S : \A y \in S : x >= y
  BY <1>3, <1>4
<1> QED BY <1>5 DEF Max

\* The newest visible row, or none.
LEMMA LastIs ==
  ASSUME TypeOK PROVE Last \in 0..MaxRows /\ \A id \in Visible : id <= Last
<1>1. MaxRows \in Nat /\ Visible \union {0} \in SUBSET (0..MaxRows)
  BY MessagesAssumption DEF Visible, Ids
<1>2. Last \in Visible \union {0} /\ \A y \in Visible \union {0} : Last >= y
  BY <1>1, MaxIn DEF Last
<1>3. \A y \in Visible \union {0} : y \in Int
  BY <1>1
<1> QED BY <1>1, <1>2, <1>3

\* A mark only goes forward.
LEMMA FurtherIs ==
  ASSUME NEW a \in 0..MaxRows, NEW b \in 0..MaxRows
  PROVE  Further(a, b) \in 0..MaxRows /\ Further(a, b) >= a /\ Further(a, b) >= b
<1>1. {a, b} \in SUBSET (0..MaxRows) /\ {a, b} # {} /\ MaxRows \in Nat
  BY MessagesAssumption
<1> QED BY <1>1, MaxIn DEF Further

\* The end of a page is one of its tombstones.
LEMMA EndOfIs ==
  ASSUME NEW u \in Members, Page(u) # {} PROVE EndOf(u) \in Page(u)
<1>1. MaxTombs \in Nat /\ Page(u) \in SUBSET (0..MaxTombs)
  BY MessagesAssumption DEF Page, Buried, TombIds
<1> QED BY <1>1, MaxIn DEF EndOf
-----------------------------------------------------------------------------
(* What a step does to the rows                                            *)

\* A step of one handler.
Acts(r) ==
  \/ \E s \in Sends : Send(r, s) \/ Forward(r, s)
  \/ \E u \in Readers : Receive(r, u) \/ Read(r, u)
  \/ \E u \in Members, id \in Ids : Delete(r, u, id)
  \/ Sending(r) \/ Receipt(r) \/ CommitDelete(r) \/ UnknownDevice(r) \/ Die(r)

\* A step is of a handler or of a phone that catches up.
LEMMA Actors ==
  ASSUME Next PROVE (\E r \in Requests : Acts(r)) \/ \E u \in Readers : CatchUp(u)
  BY DEF Next, Acts

\* A handler may alter a row, commit its own or roll it back,
Altered(r, id) ==
  /\ rows[id] # None /\ rows'[id] # None
  /\ rows'[id].send = rows[id].send
  /\ rows'[id].status >= rows[id].status /\ (rows[id].deleted => rows'[id].deleted)
  /\ rows'[id].open = rows[id].open \/ (rows[id].open = r /\ rows'[id].open = None)

RowStep(r, id) ==
  \/ rows'[id] = rows[id]
  \/ Altered(r, id)
  \/ rows[id] # None /\ rows[id].open = r /\ rows'[id] = None

\* or insert one, of a send that has none.
Inserts(r) == At(r, Senders, "insert") /\ Holders(req[r].send) = {} /\ NewRow(r)

RowsStep(r) ==
  /\ rows' \in [Ids -> Rows \union {None}]
  /\ lastId' = lastId /\ \A id \in Ids : RowStep(r, id)

\* A step that leaves the rows,
LEMMA RowsStay ==
  ASSUME TypeOK, NEW r, UNCHANGED <<rows, lastId>> PROVE RowsStep(r)
  BY DEF TypeOK, RowsStep, RowStep

\* one that writes a row that is there,
LEMMA RowWritten ==
  ASSUME TypeOK, NEW r, NEW i \in Ids, rows[i] # None, lastId' = lastId,
         NEW row \in Rows, rows' = [rows EXCEPT ![i] = row],
         row.send = rows[i].send, row.status >= rows[i].status, rows[i].deleted => row.deleted,
         row.open = rows[i].open \/ (rows[i].open = r /\ row.open = None)
  PROVE  RowsStep(r)
<1>1. rows \in [Ids -> Rows \union {None}] /\ row # None
  BY MessagesAssumption DEF TypeOK
<1>2. rows'[i] = row /\ \A id \in Ids : id # i => rows'[id] = rows[id]
  BY <1>1
<1>3. Altered(r, i)
  BY <1>1, <1>2 DEF Altered
<1> QED BY <1>1, <1>2, <1>3 DEF RowsStep, RowStep

\* and one that rolls back.
LEMMA RowsDropped ==
  ASSUME TypeOK, NEW r, rows' = Dropped(r), lastId' = lastId
  PROVE  RowsStep(r) /\ \A id \in Ids : rows'[id] = IF rows[id] # None /\ rows[id].open = r THEN None ELSE rows[id]
<1>1. rows \in [Ids -> Rows \union {None}]
  BY DEF TypeOK
<1>2. \A id \in Ids : rows'[id] = IF rows[id] # None /\ rows[id].open = r THEN None ELSE rows[id]
  BY DEF Dropped
<1>3. rows' \in [Ids -> Rows \union {None}]
  BY <1>1 DEF Dropped
<1> QED BY <1>2, <1>3 DEF RowsStep, RowStep

\* The row of a handler that is past its insertion.
LEMMA ItsRow ==
  ASSUME TypeOK, NEW r \in Requests, HandlerOK(r, req[r]),
         \/ req[r].op \in Senders /\ req[r].step \notin {"look", "insert"}
         \/ req[r].op = "delete"
  PROVE  req[r].id \in Ids /\ rows[req[r].id] # None /\ rows[req[r].id] \in Rows
  BY DEF TypeOK, HandlerOK, RowOK

\* Its UPDATE of that row keeps the send and takes nothing back.
LEMMA RowEdited ==
  ASSUME TypeOK, NEW r \in Requests, HandlerOK(r, req[r]), lastId' = lastId,
         \/ req[r].op \in Senders /\ req[r].step \notin {"look", "insert"}
         \/ req[r].op = "delete",
         NEW row, rows' = [rows EXCEPT ![req[r].id] = row],
         \/ row = [rows[req[r].id] EXCEPT !.body = TRUE]
         \/ row = [rows[req[r].id] EXCEPT !.open = None]
         \/ row = [rows[req[r].id] EXCEPT !.open = None, !.body = TRUE]
         \/ row = [rows[req[r].id] EXCEPT !.deleted = TRUE]
  PROVE  RowsStep(r)
<1>1. PICK i \in Ids : i = req[r].id /\ rows[i] \in Rows /\ rows[i] # None
  BY ItsRow
<1>2. PICK old \in Rows : old = rows[i]
  BY <1>1
<1>3. old.status \in 1..3 /\ old.deleted \in BOOLEAN
  BY <1>2 DEF Rows
<1>4. \/ row = [old EXCEPT !.body = TRUE]
      \/ row = [old EXCEPT !.open = None]
      \/ row = [old EXCEPT !.open = None, !.body = TRUE]
      \/ row = [old EXCEPT !.deleted = TRUE]
  BY <1>1, <1>2
<1>5. row \in Rows /\ row.send = old.send /\ row.status = old.status /\ row.open \in {old.open, None}
      /\ (old.deleted => row.deleted)
  <2>1. CASE row = [old EXCEPT !.body = TRUE]
    BY <2>1 DEF Rows
  <2>2. CASE row = [old EXCEPT !.open = None]
    BY <2>2 DEF Rows
  <2>3. CASE row = [old EXCEPT !.open = None, !.body = TRUE]
    BY <2>3 DEF Rows
  <2>4. CASE row = [old EXCEPT !.deleted = TRUE]
    BY <2>4 DEF Rows
  <2> QED BY <1>4, <2>1, <2>2, <2>3, <2>4
<1>6. row.status >= old.status
  BY <1>3, <1>5
<1>7. old.open \in {None, r}
  BY <1>1, <1>2 DEF HandlerOK, RowOK, Senders
<1> QED BY <1>1, <1>2, <1>5, <1>6, <1>7, RowWritten

\* Each step of a handler keeps to that.
LEMMA RowsMove ==
  ASSUME TypeOK, HandlersOK, NEW r \in Requests, Acts(r)
  PROVE  Inserts(r) \/ RowsStep(r)
<1>1. HandlerOK(r, req[r]) /\ rows \in [Ids -> Rows \union {None}]
  BY DEF HandlersOK, TypeOK
<1>2. ASSUME UNCHANGED <<rows, lastId>> PROVE RowsStep(r)
  BY <1>2, RowsStay
<1>3. ASSUME Insert(r) PROVE Inserts(r) \/ RowsStep(r)
  BY <1>2, <1>3 DEF Insert, SameRow, Inserts, Senders
<1>4. ASSUME WriteBody(r) PROVE RowsStep(r)
  <2>1. CASE InTransaction(r)
    BY <1>2, <1>4, <2>1 DEF WriteBody
  <2>2. CASE ~InTransaction(r)
    <3>1. PICK row : row = [rows[req[r].id] EXCEPT !.body = TRUE]
      OBVIOUS
    <3>2. rows' = [rows EXCEPT ![req[r].id] = row] /\ lastId' = lastId
      BY <1>4, <2>2, <3>1 DEF WriteBody
    <3> QED BY <1>1, <1>4, <3>1, <3>2, RowEdited DEF WriteBody, At, Senders
  <2> QED BY <2>1, <2>2
<1>5. ASSUME CommitSealed(r) PROVE RowsStep(r)
  <2>1. PICK row : row = [rows[req[r].id] EXCEPT !.open = None, !.body = TRUE]
    OBVIOUS
  <2>2. rows' = [rows EXCEPT ![req[r].id] = row] /\ lastId' = lastId
    BY <1>5, <2>1 DEF CommitSealed
  <2> QED BY <1>1, <1>5, <2>1, <2>2, RowEdited DEF CommitSealed, At, Senders
<1>6. ASSUME CommitForward(r) PROVE RowsStep(r)
  <2>1. PICK row : row = [rows[req[r].id] EXCEPT !.open = None]
    OBVIOUS
  <2>2. rows' = [rows EXCEPT ![req[r].id] = row] /\ lastId' = lastId
    BY <1>6, <2>1 DEF CommitForward
  <2> QED BY <1>1, <1>6, <2>1, <2>2, RowEdited DEF CommitForward, At, Senders
<1>7. ASSUME MarkRows(r) PROVE RowsStep(r)
  <2>1. PICK grade \in 2..3 : grade = Grade(r)
    BY DEF Grade
  <2> DEFINE raised(id) == rows[id] # None /\ Author(id) # req[r].who /\ rows[id].status \in Below(grade)
  <2>2. rows' = [id \in Ids |-> IF raised(id) THEN [rows[id] EXCEPT !.status = grade] ELSE rows[id]]
        /\ lastId' = lastId
    BY <1>7, <2>1 DEF MarkRows
  <2>3. ASSUME NEW id \in Ids PROVE rows'[id] \in Rows \union {None} /\ RowStep(r, id)
    <3>1. CASE raised(id)
      <4>1. rows[id] \in Rows /\ rows[id] # None
        BY <1>1, <3>1
      <4>2. PICK row : row = [rows[id] EXCEPT !.status = grade]
        OBVIOUS
      <4>3. row \in Rows /\ row.send = rows[id].send /\ row.deleted = rows[id].deleted /\ row.open = rows[id].open
            /\ row.status = grade
        BY <2>1, <4>1, <4>2 DEF Rows
      <4>4. grade >= rows[id].status
        <5>1. rows[id].status \in 1..(grade - 1)
          BY <3>1 DEF Below
        <5> QED BY <5>1
      <4>5. rows'[id] = row /\ row # None
        BY <2>2, <3>1, <4>2, <4>3, MessagesAssumption
      <4> QED BY <4>1, <4>3, <4>4, <4>5 DEF RowStep, Altered
    <3>2. CASE ~raised(id)
      <4>1. rows'[id] = rows[id]
        BY <2>2, <3>2
      <4> QED BY <1>1, <4>1 DEF RowStep
    <3> QED BY <3>1, <3>2
  <2>4. rows' = [id \in Ids |-> rows'[id]]
    BY <2>2
  <2> HIDE DEF raised
  <2> QED BY <2>2, <2>3, <2>4 DEF RowsStep
<1>8. ASSUME CommitDelete(r) PROVE RowsStep(r)
  <2>1. PICK row : row = [rows[req[r].id] EXCEPT !.deleted = TRUE]
    OBVIOUS
  <2>2. rows' = [rows EXCEPT ![req[r].id] = row] /\ lastId' = lastId
    BY <1>8, <2>1 DEF CommitDelete
  <2> QED BY <1>1, <1>8, <2>1, <2>2, RowEdited DEF CommitDelete, At, Senders
<1>9. ASSUME UnknownDevice(r) \/ Die(r) PROVE RowsStep(r)
  BY <1>9, RowsDropped DEF UnknownDevice, Die
<1>10. ASSUME Look(r) \/ Tell(r) \/ Spread(r) \/ Count(r) \/ Deliver(r) \/ Zero(r) \/ Peek(r) \/ Raise(r)
       PROVE  UNCHANGED <<rows, lastId>>
  BY <1>10 DEF Look, Tell, Spread, Count, Deliver, Zero, Peek, Raise, store
<1>11. ASSUME \/ \E s \in Sends : Send(r, s) \/ Forward(r, s)
              \/ \E u \in Readers : Receive(r, u) \/ Read(r, u)
              \/ \E u \in Members, id \in Ids : Delete(r, u, id)
       PROVE  UNCHANGED <<rows, lastId>>
  BY <1>11 DEF Send, Forward, Receive, Read, Delete, store
<1> QED BY <1>2, <1>3, <1>4, <1>5, <1>6, <1>7, <1>8, <1>9, <1>10, <1>11 DEF Acts, Sending, Receipt
-----------------------------------------------------------------------------
(* What a step does to the handlers                                        *)

\* The rows a handler r in state x has open.
OpenOK(r, x) == \A id \in Ids : rows[id] # None /\ rows[id].open = r => x.id = id /\ x.step \in {"body", "commit"}

\* A handler goes to a state that is right.
Going(r, x) ==
  x \in Handlers /\ req' = [req EXCEPT ![r] = x] /\ HandlerOK(r, x)' /\ OpenOK(r, x)'

\* Nothing is opened but by an insertion; a handler elsewhere has nothing open.
LEMMA OpenStays ==
  ASSUME TypeOK, HandlersOK, NEW r \in Requests, RowsStep(r)
  PROVE  /\ \A id \in Ids : rows'[id] # None /\ rows'[id].open = r =>
              rows[id] # None /\ rows[id].open = r /\ req[r].id = id
         /\ req[r].step \notin {"body", "commit"} \/ req[r].op = "delete" =>
              \A id \in Ids : rows'[id] # None => rows'[id].open # r
<1>1. r # None
  BY MessagesAssumption
<1>2. \A id \in Ids : rows[id] # None /\ rows[id].open = r => req[r].id = id /\ req[r].step \in {"body", "commit"}
  BY <1>1 DEF TypeOK
<1>3. \A id \in Ids : rows'[id] # None /\ rows'[id].open = r => rows[id] # None /\ rows[id].open = r
  BY <1>1 DEF RowsStep, RowStep, Altered
<1>4. req[r].op = "delete" => \A id \in Ids : rows[id] # None => rows[id].open # r
  BY <1>1, <1>2 DEF HandlersOK, HandlerOK, RowOK
<1> QED BY <1>2, <1>3, <1>4

\* A handler that ends knows nothing,
LEMMA Ends ==
  ASSUME TypeOK, HandlersOK, NEW r \in Requests, Finish(r), RowsStep(r),
         \/ req[r].step \notin {"body", "commit"} \/ req[r].op = "delete"
         \/ rows' = Dropped(r)
  PROVE  \E x \in Handlers : Going(r, x)
<1>1. PICK x : x = Idle
  OBVIOUS
<1>2. x \in Handlers /\ x.op = "idle" /\ x.step = None
  BY <1>1, MessagesAssumption DEF Idle, Handlers, Ops
<1>3. HandlerOK(r, x)'
  BY <1>2, MessagesAssumption DEF HandlerOK, PointOK, RowOK, Senders, Steps
<1>4. \A id \in Ids : rows'[id] # None => rows'[id].open # r
  BY OpenStays, RowsDropped DEF RowsStep
<1>5. req' = [req EXCEPT ![r] = x]
  BY <1>1 DEF Finish
<1> QED BY <1>2, <1>3, <1>4, <1>5 DEF Going, OpenOK

\* A handler that starts is as it was asked.
Started(x, op, u, step, s, id) ==
  /\ x.op = op /\ x.who = u /\ x.step = step /\ x.send = s /\ x.id = id

\* A handler started is in the state given.
LEMMA StartIs ==
  ASSUME NEW r \in Requests, NEW op \in Ops, NEW u \in Members, NEW step \in Steps,
         NEW s \in Sends \union {None}, NEW id \in 0..MaxRows, Start(r, op, u, step, s, id)
  PROVE  \E x \in Handlers : req' = [req EXCEPT ![r] = x] /\ Started(x, op, u, step, s, id)
<1>1. PICK x : x = [Idle EXCEPT !.op = op, !.who = u, !.step = step, !.send = s, !.id = id]
  OBVIOUS
<1>2. x = [op |-> op, who |-> u, step |-> step, send |-> s, id |-> id]
  BY <1>1 DEF Idle
<1>3. x \in Handlers
  BY <1>2 DEF Handlers
<1>4. req' = [req EXCEPT ![r] = x]
  BY <1>1 DEF Start
<1>5. Started(x, op, u, step, s, id)
  BY <1>2 DEF Started
<1> QED BY <1>3, <1>4, <1>5

\* and so does one that has just arrived.
LEMMA Arrives ==
  ASSUME TypeOK, HandlersOK, NEW r \in Requests,
         \/ \E s \in Sends : Send(r, s) \/ Forward(r, s)
         \/ \E u \in Readers : Receive(r, u) \/ Read(r, u)
         \/ \E u \in Members, id \in Ids : Delete(r, u, id)
  PROVE  /\ req[r] = Idle
         /\ \E x \in Handlers : /\ Going(r, x) /\ (x.op = "read" => x.step = "zero")
                                /\ (x.op = "forward" => x.send \in Sends /\ Forward(r, x.send) /\ x.step = "insert")
<1> DEFINE New(x) == /\ x \in Handlers /\ req' = [req EXCEPT ![r] = x] /\ HandlerOK(r, x)'
                     /\ (x.op = "read" => x.step = "zero")
                     /\ (x.op = "forward" => x.send \in Sends /\ Forward(r, x.send) /\ x.step = "insert")
<1>1. UNCHANGED rows /\ req[r] = Idle
  BY DEF Send, Forward, Receive, Read, Delete, store, Start
<1>2. \A id \in Ids : rows'[id] # None => rows'[id].open # r
  <2>1. Idle.step = None /\ r # None /\ None \notin {"body", "commit"}
    BY MessagesAssumption DEF Idle, Steps
  <2> QED BY <1>1, <2>1 DEF TypeOK
<1>3. ASSUME NEW s \in Sends, Send(r, s) \/ Forward(r, s) PROVE \E x : New(x)
  <2>1. AuthorOf[s] \in Members /\ s \in Sends \union {None} /\ 0 \in 0..MaxRows
    BY MessagesAssumption
  <2>2. \E op \in Ops, step \in Steps :
          /\ Start(r, op, AuthorOf[s], step, s, 0)
          /\ \/ op = "socket" /\ step = "insert" /\ s \notin Forwards
             \/ op = "http" /\ step = "look" /\ s \notin Forwards
             \/ op = "forward" /\ step = "insert" /\ s \in Forwards
    BY <1>3 DEF Send, Forward, Ops, Steps
  <2>3. PICK op \in Ops, step \in Steps :
          /\ Start(r, op, AuthorOf[s], step, s, 0)
          /\ \/ op = "socket" /\ step = "insert" /\ s \notin Forwards
             \/ op = "http" /\ step = "look" /\ s \notin Forwards
             \/ op = "forward" /\ step = "insert" /\ s \in Forwards
    BY <2>2
  <2>4. PICK x \in Handlers : req' = [req EXCEPT ![r] = x] /\ Started(x, op, AuthorOf[s], step, s, 0)
    BY <2>1, <2>3, StartIs
  <2>5. HandlerOK(r, x)'
    BY <2>3, <2>4 DEF HandlerOK, PointOK, RowOK, Senders, Started
  <2>6. s \in Forwards => Forward(r, s)
    BY <1>3 DEF Send
  <2> QED BY <2>3, <2>4, <2>5, <2>6 DEF Started
<1>4. ASSUME NEW u \in Readers, Receive(r, u) \/ Read(r, u) PROVE \E x : New(x)
  <2>1. u \in Members /\ None \in Sends \union {None} /\ 0 \in 0..MaxRows /\ AfterReceipt("begin") = "zero"
    BY MessagesAssumption DEF AfterReceipt
  <2>2. \E op \in Ops, step \in Steps :
          /\ Start(r, op, u, step, None, 0)
          /\ (op = "receive" /\ step = "peek") \/ (op = "read" /\ step = "zero")
    BY <1>4, <2>1 DEF Receive, Read, Ops, Steps
  <2>3. PICK op \in Ops, step \in Steps :
          /\ Start(r, op, u, step, None, 0)
          /\ (op = "receive" /\ step = "peek") \/ (op = "read" /\ step = "zero")
    BY <2>2
  <2>4. PICK x \in Handlers : req' = [req EXCEPT ![r] = x] /\ Started(x, op, u, step, None, 0)
    BY <2>1, <2>3, StartIs
  <2>5. HandlerOK(r, x)'
    BY <2>1, <2>3, <2>4 DEF HandlerOK, PointOK, RowOK, Senders, Started
  <2> QED BY <2>3, <2>4, <2>5 DEF Started
<1>5. ASSUME NEW u \in Members, NEW id \in Ids, Delete(r, u, id) PROVE \E x : New(x)
  <2>1. /\ Start(r, "delete", u, "commit", None, id) /\ id \in 0..MaxRows /\ None \in Sends \union {None}
        /\ "delete" \in Ops /\ "commit" \in Steps
    BY <1>5, MessagesAssumption DEF Delete, Ops, Steps, Ids
  <2>2. PICK x \in Handlers : req' = [req EXCEPT ![r] = x] /\ Started(x, "delete", u, "commit", None, id)
    BY <2>1, StartIs
  <2>3. rows'[id] # None /\ rows'[id].open = None
    BY <1>1, <1>5 DEF Delete, Visible
  <2>4. HandlerOK(r, x)'
    BY <2>2, <2>3 DEF HandlerOK, PointOK, RowOK, Senders, Started
  <2> QED BY <2>2, <2>4 DEF Started
<1>6. PICK x : New(x)
  BY <1>3, <1>4, <1>5
<1> QED BY <1>1, <1>2, <1>6 DEF Going, OpenOK

\* A handler that goes on is the same elsewhere.
Onto(x, y) == x.op = y.op /\ x.who = y.who /\ x.send = y.send /\ x.id = y.id

\* Going to a point of the same handler.
LEMMA GoesTo ==
  ASSUME TypeOK, NEW r \in Requests, NEW step \in Steps, Goto(r, step)
  PROVE  \E x \in Handlers : req' = [req EXCEPT ![r] = x] /\ x.step = step /\ Onto(x, req[r])
<1>1. PICK y \in Handlers : y = req[r]
  BY DEF TypeOK
<1>2. PICK x : x = [y EXCEPT !.step = step]
  OBVIOUS
<1>3. x \in Handlers /\ x.step = step /\ Onto(x, y)
  BY <1>2 DEF Handlers, Onto
<1>4. req' = [req EXCEPT ![r] = x]
  BY <1>1, <1>2 DEF Goto
<1> QED BY <1>1, <1>3, <1>4

\* An insertion takes a row that nobody has,
LEMMA Inserted ==
  ASSUME TypeOK, HandlersOK, NEW r \in Requests, Inserts(r)
  PROVE  /\ lastId + 1 \in Ids /\ rows[lastId + 1] = None /\ lastId' = lastId + 1
         /\ rows' \in [Ids -> Rows \union {None}]
         /\ \A id \in Ids : id # lastId + 1 => rows'[id] = rows[id]
         /\ rows'[lastId + 1] # None /\ rows'[lastId + 1].send = req[r].send
         /\ rows'[lastId + 1].open = IF Within(req[r]) THEN r ELSE None
         /\ \E x \in Handlers : /\ Going(r, x) /\ x.op = req[r].op /\ x.who = req[r].who /\ x.send = req[r].send
                                /\ x.id = lastId + 1 /\ x.step \notin {"deliver", "look", "insert"}
                                /\ (x.op = "socket" => x.step # "count")
<1>1. PICK y \in Handlers : y = req[r]
  BY DEF TypeOK
<1>2. HandlerOK(r, y) /\ y.op \in Senders /\ y.step = "insert" /\ y.send \in Sends
  BY <1>1 DEF HandlersOK, HandlerOK, Inserts, At
<1>3. lastId \in 0..MaxRows /\ lastId < MaxRows /\ MaxRows \in Nat
  BY MessagesAssumption DEF TypeOK, Inserts, NewRow
<1>4. lastId + 1 \in Ids /\ lastId + 1 \in 0..MaxRows /\ lastId + 1 > lastId
  BY <1>3 DEF Ids
<1>5. rows[lastId + 1] = None
  BY <1>4 DEF TypeOK
<1>6. InTransaction(r) <=> Within(y)
  BY <1>1 DEF InTransaction, Within, Sealed
<1>7. PICK row : row = [send |-> y.send, status |-> 1, body |-> FALSE, deleted |-> FALSE,
                         open |-> IF Within(y) THEN r ELSE None]
  OBVIOUS
<1>8. row \in Rows /\ row # None /\ row.send = y.send /\ row.open = IF Within(y) THEN r ELSE None
  <2>1. row \in Rows /\ row.send = y.send /\ row.open = IF Within(y) THEN r ELSE None
    BY <1>2, <1>7 DEF Rows
  <2> QED BY <2>1, MessagesAssumption
<1>9. rows' = [rows EXCEPT ![lastId + 1] = row] /\ lastId' = lastId + 1
  BY <1>1, <1>6, <1>7 DEF Inserts, NewRow
<1>10. /\ rows' \in [Ids -> Rows \union {None}] /\ rows'[lastId + 1] = row
       /\ \A id \in Ids : id # lastId + 1 => rows'[id] = rows[id]
  BY <1>4, <1>8, <1>9 DEF TypeOK
<1>11. PICK step : step = AfterInsert(r)
  OBVIOUS
<1>12. /\ step \in {"body", "commit", "tell", "count"}
       /\ step = "body" <=> y.send \in SealedSends
       /\ step = "commit" <=> y.send \notin SealedSends /\ y.op = "forward"
       /\ step = "tell" <=> y.send \notin SealedSends /\ y.op = "socket"
  BY <1>1, <1>2, <1>11 DEF AfterInsert, Sealed, Senders
<1>13. PICK x : x = [y EXCEPT !.id = lastId + 1, !.step = step]
  OBVIOUS
<1>14. /\ x \in Handlers /\ x.op = y.op /\ x.who = y.who /\ x.send = y.send
       /\ x.id = lastId + 1 /\ x.step = step
  BY <1>4, <1>12, <1>13 DEF Handlers, Steps
<1>15. req' = [req EXCEPT ![r] = x]
  BY <1>1, <1>11, <1>13 DEF Inserts, NewRow
<1>16. y.op = "forward" => y.send \notin SealedSends
  BY <1>2, MessagesAssumption DEF HandlerOK
<1>17. Within(x) <=> Within(y)
  BY <1>14 DEF Within
<1>18. Within(y) <=> y.op = "forward" \/ (y.op = "socket" /\ step = "body")
  BY <1>12 DEF Within
<1>19. RowOK(r, x)'
  <2>1. r # None
    BY MessagesAssumption
  <2>2. /\ x.id \in Ids /\ rows'[x.id] # None /\ rows'[x.id].send = x.send
        /\ rows'[x.id].open = IF Within(y) THEN r ELSE None
    BY <1>4, <1>8, <1>10, <1>14
  <2>3. Within(y) => x.step \in {"body", "commit"} /\ Within(x)
    BY <1>12, <1>14, <1>16, <1>17, <1>18
  <2>4. x.op = "forward" => Within(y)
    BY <1>14, <1>18
  <2> QED BY <1>2, <1>14, <2>1, <2>2, <2>3, <2>4 DEF RowOK, Senders
<1>20. PointOK(x)
  BY <1>2, <1>12, <1>14, <1>16 DEF PointOK, Senders
<1>21. HandlerOK(r, x)'
  BY <1>2, <1>12, <1>14, <1>16, <1>19, <1>20 DEF HandlerOK, Senders
<1>22. \A id \in Ids : rows[id] # None => rows[id].open # r
  BY <1>1, <1>2, MessagesAssumption DEF TypeOK
<1>23. OpenOK(r, x)'
  <2>1. Within(y) => step \in {"body", "commit"}
    BY <1>12, <1>16, <1>18
  <2>2. r # None
    BY MessagesAssumption
  <2> QED BY <1>4, <1>8, <1>10, <1>14, <1>22, <2>1, <2>2 DEF OpenOK
<1> QED BY <1>1, <1>4, <1>5, <1>8, <1>9, <1>10, <1>12, <1>14, <1>15, <1>21, <1>23 DEF Going

\* or finds one that is committed.
LEMMA Found ==
  ASSUME TypeOK, HandlersOK, NEW r \in Requests, Insert(r), ~Inserts(r)
  PROVE  UNCHANGED <<rows, lastId>> /\ \E x \in Handlers : Going(r, x) /\ x.op = req[r].op /\ x.op # "forward"
<1>1. PICK y \in Handlers : y = req[r]
  BY DEF TypeOK
<1>2. HandlerOK(r, y) /\ y.op \in Senders /\ y.step = "insert" /\ y.send \in Sends
  BY <1>1 DEF HandlersOK, HandlerOK, Insert, At, Senders
<1>3. PICK id \in Holders(y.send) : SameRow(r, id) /\ id \notin Locked
  BY <1>1 DEF Insert, Inserts, Senders
<1>4. id \in Ids /\ rows[id] # None /\ rows[id].send = y.send /\ rows[id].open = None /\ y.send \notin Forwards
  BY <1>3 DEF Holders, Locked
<1>5. PICK step : step = AfterInsert(r)
  OBVIOUS
<1>6. y.op # "forward"
  BY <1>2, <1>4 DEF HandlerOK
<1>7. /\ step \in {"body", "tell", "count"}
      /\ step = "body" <=> y.send \in SealedSends
      /\ step = "tell" => y.op = "socket"
      /\ step = "count" => y.op = "http"
  BY <1>1, <1>2, <1>5, <1>6 DEF AfterInsert, Sealed, Senders
<1>8. PICK x : x = [y EXCEPT !.id = id, !.step = step]
  OBVIOUS
<1>9. /\ x \in Handlers /\ x.op = y.op /\ x.who = y.who /\ x.send = y.send
      /\ x.id = id /\ x.step = step
  <2>1. id \in 0..MaxRows
    BY <1>4, MessagesAssumption DEF Ids
  <2> QED BY <2>1, <1>7, <1>8 DEF Handlers, Steps
<1>10. req' = [req EXCEPT ![r] = x] /\ UNCHANGED <<rows, lastId>>
  BY <1>1, <1>3, <1>5, <1>8 DEF SameRow
<1>11. RowOK(r, x)' /\ PointOK(x)
  <2>1. r # None
    BY MessagesAssumption
  <2>2. x.id \in Ids /\ rows'[x.id] # None /\ rows'[x.id].send = x.send /\ rows'[x.id].open = None
    BY <1>4, <1>9, <1>10
  <2>3. RowOK(r, x)'
    BY <1>2, <1>6, <1>9, <2>1, <2>2 DEF RowOK, Senders
  <2>4. PointOK(x)
    BY <1>2, <1>6, <1>7, <1>9 DEF PointOK, Senders
  <2> QED BY <2>3, <2>4
<1>12. HandlerOK(r, x)'
  BY <1>2, <1>6, <1>7, <1>9, <1>11 DEF HandlerOK, Senders
<1>13. OpenOK(r, x)'
  BY <1>1, <1>2, <1>10, MessagesAssumption DEF TypeOK, OpenOK
<1> QED BY <1>1, <1>6, <1>9, <1>10, <1>12, <1>13 DEF Going

\* The steps of a handler that goes on and leaves its row open or committed as it was.
LEMMA GoesQuietly ==
  ASSUME TypeOK, HandlersOK, NEW r \in Requests, RowsStep(r), ~Finish(r),
         Look(r) \/ WriteBody(r) \/ Tell(r) \/ Spread(r) \/ Count(r) \/ Zero(r) \/ Raise(r)
  PROVE  \E x \in Handlers : Going(r, x) /\ Onto(x, req[r])
<1>1. PICK y \in Handlers : y = req[r]
  BY DEF TypeOK
<1>2. HandlerOK(r, y)
  BY <1>1 DEF HandlersOK
<1>3. PICK step \in Steps :
        /\ Goto(r, step)
        /\ \/ y.op = "http" /\ y.step = "look" /\ step = "insert"
           \/ y.op = "socket" /\ y.step = "body" /\ step = "commit"
           \/ y.op = "http" /\ y.step = "body" /\ step = "count"
           \/ y.op = "socket" /\ y.step = "tell" /\ step \in {"spread", "count"}
           \/ y.op = "socket" /\ y.step = "spread" /\ step = "count"
           \/ y.op = "http" /\ y.step = "count" /\ step = "deliver"
           \/ y.op = "read" /\ y.step = "zero" /\ step = "peek"
           \/ y.op \in {"read", "receive"} /\ y.step = "raise" /\ step = "rows"
  <2>1. ASSUME Look(r) PROVE y.op = "http" /\ y.step = "look" /\ Goto(r, "insert")
    BY <1>1, <2>1 DEF Look, At
  <2>2. ASSUME WriteBody(r)
        PROVE  \/ y.op = "socket" /\ y.step = "body" /\ Goto(r, "commit")
               \/ y.op = "http" /\ y.step = "body" /\ Goto(r, "count")
    <3>1. y.op \in {"socket", "http"} /\ y.step = "body" /\ y.send \in SealedSends
      BY <1>1, <1>2, <2>2 DEF WriteBody, At, HandlerOK, Senders
    <3>2. InTransaction(r) <=> y.op = "socket"
      BY <1>1, <3>1 DEF InTransaction, Sealed
    <3> QED BY <1>1, <2>2, <3>1, <3>2 DEF WriteBody
  <2>3. ASSUME Tell(r) PROVE y.op = "socket" /\ y.step = "tell" /\ (Goto(r, "spread") \/ Goto(r, "count"))
    BY <1>1, <2>3 DEF Tell, At
  <2>4. ASSUME Spread(r) PROVE y.op = "socket" /\ y.step = "spread" /\ Goto(r, "count")
    BY <1>1, <2>4 DEF Spread, At
  <2>5. ASSUME Count(r) PROVE y.op = "http" /\ y.step = "count" /\ Goto(r, "deliver")
    BY <1>1, <2>5 DEF Count, At
  <2>6. ASSUME Zero(r) PROVE y.op = "read" /\ y.step = "zero" /\ Goto(r, "peek")
    BY <1>1, <2>6 DEF Zero, At, AfterReceipt
  <2>7. ASSUME Raise(r) PROVE y.op \in {"read", "receive"} /\ y.step = "raise" /\ Goto(r, "rows")
    BY <1>1, <2>7 DEF Raise, At, AfterReceipt
  <2>8. {"insert", "commit", "spread", "count", "deliver", "peek", "rows"} \subseteq Steps
    BY DEF Steps
  <2> QED BY <2>1, <2>2, <2>3, <2>4, <2>5, <2>6, <2>7, <2>8
<1>4. PICK x \in Handlers : req' = [req EXCEPT ![r] = x] /\ x.step = step /\ Onto(x, y)
  BY <1>1, <1>3, GoesTo
<1>5. PointOK(x)
  BY <1>2, <1>3, <1>4 DEF PointOK, Onto
<1>6. ASSUME NEW id \in Ids
      PROVE  /\ rows'[id] # None <=> rows[id] # None
             /\ rows[id] # None => rows'[id].send = rows[id].send /\ rows'[id].open = rows[id].open
  <2>1. CASE UNCHANGED rows
    BY <2>1
  <2>2. ASSUME WriteBody(r), ~InTransaction(r) PROVE rows' = [rows EXCEPT ![req[r].id].body = TRUE]
    BY <2>2 DEF WriteBody
  <2>3. CASE WriteBody(r) /\ ~InTransaction(r)
    <3>1. rows \in [Ids -> Rows \union {None}] /\ rows[y.id] \in Rows
      BY <1>1, <1>2, <2>3, ItsRow DEF WriteBody, At, TypeOK, Senders
    <3>2. PICK row : row = [rows[y.id] EXCEPT !.body = TRUE]
      OBVIOUS
    <3>3. row \in Rows /\ row.send = rows[y.id].send /\ row.open = rows[y.id].open
      BY <3>1, <3>2 DEF Rows
    <3>4. rows' = [rows EXCEPT ![y.id] = row]
      BY <1>1, <2>2, <2>3, <3>2
    <3> QED BY <3>1, <3>3, <3>4, MessagesAssumption
  <2>4. UNCHANGED rows \/ (WriteBody(r) /\ ~InTransaction(r))
    BY DEF Look, WriteBody, Tell, Spread, Count, Zero, Raise, store
  <2> QED BY <2>1, <2>3, <2>4
<1>7. RowOK(r, x)'
  <2>1. CASE y.op \in Senders /\ y.step \notin {"look", "insert"}
    <3>1. /\ y.id \in Ids /\ rows'[y.id] # None /\ rows'[y.id].send = y.send
          /\ rows'[y.id].open \in {None, r} /\ (rows'[y.id].open = r => y.step \in {"body", "commit"} /\ Within(y))
      BY <1>2, <1>3, <1>6, <2>1 DEF HandlerOK, RowOK
    <3>2. Within(y) /\ y.step \in {"body", "commit"} => x.step = "commit" /\ Within(x) /\ x.op = "socket"
      BY <1>2, <1>3, <1>4, <2>1 DEF Onto, Within, HandlerOK, Senders
    <3>3. x.id = y.id /\ x.send = y.send /\ x.op # "delete"
      BY <1>4, <2>1 DEF Onto, Senders
    <3>4. ~(x.op = "forward" /\ x.step = "commit")
      BY <1>3, <1>4, <2>1 DEF Onto
    <3> QED BY <3>1, <3>2, <3>3, <3>4 DEF RowOK
  <2>2. CASE ~(y.op \in Senders /\ y.step \notin {"look", "insert"})
    BY <1>3, <1>4, <2>2 DEF RowOK, Onto, Senders
  <2> QED BY <2>1, <2>2
<1>8. HandlerOK(r, x)'
  BY <1>2, <1>3, <1>4, <1>5, <1>7 DEF HandlerOK, Onto, Senders
<1>9. OpenOK(r, x)'
  <2>1. ASSUME NEW id \in Ids, rows'[id] # None, rows'[id].open = r
        PROVE  y.id = id /\ y.step = "body"
    <3>1. rows[id] # None /\ rows[id].open = r /\ r # None
      BY <1>6, <2>1, MessagesAssumption
    <3>2. y.id = id /\ y.step \in {"body", "commit"}
      BY <1>1, <3>1 DEF TypeOK
    <3> QED BY <1>3, <3>2
  <2>2. y.step = "body" /\ y.op = "http" => rows[y.id].open # r
    BY <1>2 DEF HandlerOK, RowOK, Senders, Within
  <2>3. ASSUME NEW id \in Ids, rows'[id] # None, rows'[id].open = r
        PROVE  x.id = id /\ x.step \in {"body", "commit"}
    <3>1. y.id = id /\ y.step = "body" /\ rows[id].open = r /\ r # None
      BY <1>6, <2>1, <2>3, MessagesAssumption
    <3> QED BY <1>3, <1>4, <2>2, <3>1 DEF Onto
  <2> QED BY <2>3 DEF OpenOK
<1> QED BY <1>1, <1>4, <1>8, <1>9 DEF Going

\* The commit of its row.
LEMMA Commits ==
  ASSUME TypeOK, HandlersOK, NEW r \in Requests, CommitSealed(r) \/ CommitForward(r)
  PROVE  /\ \E x \in Handlers : Going(r, x) /\ Onto(x, req[r])
         /\ req[r].id \in Ids /\ rows[req[r].id] # None /\ rows'[req[r].id] # None
         /\ rows'[req[r].id].open = None /\ rows'[req[r].id].send = rows[req[r].id].send
         /\ rows[req[r].id].send = req[r].send
         /\ rows[req[r].id].open \in {None, r} /\ (req[r].op = "forward" => rows[req[r].id].open = r)
         /\ \A id \in Ids : id # req[r].id => rows'[id] = rows[id]
<1>1. PICK y \in Handlers : y = req[r]
  BY DEF TypeOK
<1>2. HandlerOK(r, y) /\ y.op \in Senders /\ y.step = "commit"
  BY <1>1 DEF HandlersOK, CommitSealed, CommitForward, At, Senders
<1>3. /\ y.id \in Ids /\ rows[y.id] # None /\ rows[y.id] \in Rows /\ rows[y.id].send = y.send
      /\ rows[y.id].open \in {None, r} /\ (y.op = "forward" => rows[y.id].open = r)
  BY <1>1, <1>2, ItsRow DEF HandlerOK, RowOK
<1>4. /\ rows'[y.id] # None /\ rows'[y.id].send = y.send /\ rows'[y.id].open = None
      /\ \A id \in Ids : id # y.id => rows'[id] = rows[id]
  <2>1. PICK row : /\ row = [rows[y.id] EXCEPT !.open = None, !.body = TRUE] \/ row = [rows[y.id] EXCEPT !.open = None]
                   /\ rows' = [rows EXCEPT ![y.id] = row]
    BY <1>1 DEF CommitSealed, CommitForward
  <2>2. row \in Rows /\ row.send = y.send /\ row.open = None
    BY <1>3, <2>1 DEF Rows
  <2> QED BY <1>3, <2>1, <2>2, MessagesAssumption DEF TypeOK
<1>5. PICK step \in Steps :
        /\ Goto(r, step)
        /\ \/ y.op = "socket" /\ step = "tell"
           \/ y.op = "forward" /\ step = "deliver"
  <2>1. ASSUME CommitSealed(r) PROVE y.op = "socket" /\ Goto(r, "tell")
    BY <1>1, <2>1 DEF CommitSealed, At
  <2>2. ASSUME CommitForward(r) PROVE y.op = "forward" /\ Goto(r, "deliver")
    BY <1>1, <2>2 DEF CommitForward, At
  <2>3. "tell" \in Steps /\ "deliver" \in Steps
    BY DEF Steps
  <2> QED BY <2>1, <2>2, <2>3
<1>6. PICK x \in Handlers : req' = [req EXCEPT ![r] = x] /\ x.step = step /\ Onto(x, y)
  BY <1>1, <1>5, GoesTo
<1>7. PointOK(x)
  BY <1>5, <1>6 DEF PointOK, Onto
<1>8. RowOK(r, x)'
  <2>1. x.id = y.id /\ x.send = y.send /\ x.op = y.op /\ x.step \in {"tell", "deliver"}
    BY <1>5, <1>6 DEF Onto
  <2>2. rows'[x.id].open # r
    BY <1>4, <2>1, MessagesAssumption
  <2> QED BY <1>2, <1>3, <1>4, <2>1, <2>2 DEF RowOK, Senders
<1>9. r # None
  BY MessagesAssumption
<1>10. HandlerOK(r, x)'
  BY <1>2, <1>5, <1>6, <1>7, <1>8 DEF HandlerOK, Onto, Senders
<1>11. ASSUME NEW id \in Ids, rows'[id] # None, rows'[id].open = r PROVE FALSE
  <2>1. r # None
    BY MessagesAssumption
  <2>2. id # y.id /\ rows[id] # None /\ rows[id].open = r
    BY <1>4, <1>11, <2>1
  <2> QED BY <1>1, <2>1, <2>2 DEF TypeOK
<1>12. OpenOK(r, x)'
  BY <1>11 DEF OpenOK
<1> QED BY <1>1, <1>3, <1>4, <1>6, <1>10, <1>12 DEF Going

\* The look of a receipt at the newest row.
LEMMA Peeks ==
  ASSUME TypeOK, HandlersOK, NEW r \in Requests, Peek(r)
  PROVE  /\ UNCHANGED <<rows, lastId>>
         /\ \E x \in Handlers : /\ Going(r, x) /\ x.op = req[r].op /\ x.who = req[r].who /\ x.send = req[r].send
                                /\ x.id = Last /\ x.step = "raise"
<1>1. PICK y \in Handlers : y = req[r]
  BY DEF TypeOK
<1>2. HandlerOK(r, y) /\ y.op \in {"read", "receive"} /\ y.step = "peek"
  BY <1>1 DEF HandlersOK, Peek, At
<1>3. Last \in 0..MaxRows /\ AfterReceipt("peek") = "raise"
  BY LastIs DEF AfterReceipt
<1>4. PICK last \in 0..MaxRows : last = Last
  BY <1>3
<1>5. PICK x : x = [y EXCEPT !.id = last, !.step = "raise"]
  OBVIOUS
<1>6. /\ x \in Handlers /\ x.op = y.op /\ x.who = y.who /\ x.send = y.send
      /\ x.id = last /\ x.step = "raise"
  BY <1>5 DEF Handlers, Steps
<1>7. req' = [req EXCEPT ![r] = x] /\ UNCHANGED <<rows, lastId>>
  BY <1>1, <1>2, <1>3, <1>4, <1>5 DEF Peek, store
<1>8. HandlerOK(r, x)'
  BY <1>2, <1>6 DEF HandlerOK, PointOK, RowOK, Senders
<1>9. \A id \in Ids : rows[id] # None => rows[id].open # r
  BY <1>1, <1>2, MessagesAssumption DEF TypeOK
<1> QED BY <1>1, <1>4, <1>6, <1>7, <1>8, <1>9 DEF Going, OpenOK

\* Whatever a handler does, it goes to a state that is right.
LEMMA Proceeds ==
  ASSUME TypeOK, HandlersOK, NEW r \in Requests, Acts(r)
  PROVE  \E x \in Handlers : Going(r, x)
<1>1. CASE \/ \E s \in Sends : Send(r, s) \/ Forward(r, s)
           \/ \E u \in Readers : Receive(r, u) \/ Read(r, u)
           \/ \E u \in Members, id \in Ids : Delete(r, u, id)
  BY <1>1, Arrives
<1>2. CASE Insert(r)
  BY <1>2, Inserted, Found
<1>3. CASE CommitSealed(r) \/ CommitForward(r)
  BY <1>3, Commits
<1>4. CASE Peek(r)
  BY <1>4, Peeks
<1>5. CASE Look(r) \/ WriteBody(r) \/ Tell(r) \/ Spread(r) \/ Count(r) \/ Zero(r) \/ Raise(r)
  <2>1. RowsStep(r)
    BY <1>5, RowsMove DEF Inserts, NewRow, At, Senders, Look, WriteBody, Tell, Spread, Count, Zero, Raise, Acts, Sending, Receipt
  <2>2. CASE Finish(r)
    <3>1. ASSUME WriteBody(r) PROVE FALSE
      <4>1. PICK step \in {"commit", "count"} : Goto(r, step)
        BY <3>1 DEF WriteBody
      <4>2. PICK x \in Handlers : req' = [req EXCEPT ![r] = x] /\ x.step = step
        BY <4>1, GoesTo DEF Steps
      <4>3. req'[r].step = step /\ req'[r] = Idle
        BY <2>2, <4>2 DEF TypeOK, Finish
      <4> QED BY <4>3, MessagesAssumption DEF Idle, Steps
    <3>2. req[r].step \notin {"body", "commit"}
      BY <1>5, <3>1 DEF Look, Tell, Spread, Count, Zero, Raise, At
    <3> QED BY <2>1, <2>2, <3>2, Ends
  <2> QED BY <1>5, <2>1, <2>2, GoesQuietly
<1>6. CASE Deliver(r) \/ MarkRows(r) \/ CommitDelete(r) \/ UnknownDevice(r) \/ Die(r)
  <2>1. Finish(r)
    BY <1>6 DEF Deliver, MarkRows, CommitDelete, UnknownDevice, Die
  <2>2. \/ req[r].step \notin {"body", "commit"} \/ req[r].op = "delete"
        \/ rows' = Dropped(r)
    BY <1>6 DEF Deliver, MarkRows, CommitDelete, UnknownDevice, Die, At
  <2>3. RowsStep(r)
    <3>1. Inserts(r) => lastId' # lastId
      BY DEF Inserts, NewRow, TypeOK
    <3>2. UNCHANGED lastId
      BY <1>6 DEF Deliver, MarkRows, CommitDelete, UnknownDevice, Die, store
    <3> QED BY <3>1, <3>2, RowsMove
  <2> QED BY <2>1, <2>2, <2>3, Ends
<1> QED BY <1>1, <1>2, <1>3, <1>4, <1>5, <1>6 DEF Acts, Sending, Receipt

\* Rows that are not its own outlive the step of a handler.
LEMMA RowKept ==
  ASSUME TypeOK, HandlersOK, NEW r \in Requests, Acts(r), NEW id \in Ids, rows[id] # None, rows[id].open # r
  PROVE  /\ rows'[id] # None /\ rows'[id].send = rows[id].send /\ rows'[id].open = rows[id].open
         /\ rows'[id].status >= rows[id].status /\ (rows[id].deleted => rows'[id].deleted)
<1>1. rows[id].status \in 1..3
  BY DEF TypeOK, Rows
<1>2. CASE Inserts(r)
  <2>1. rows'[id] = rows[id]
    BY <1>2, Inserted
  <2>2. rows[id].status >= rows[id].status
    BY <1>1
  <2> QED BY <2>1, <2>2
<1>3. CASE RowsStep(r)
  BY <1>1, <1>3 DEF RowsStep, RowStep, Altered
<1> QED BY <1>2, <1>3, RowsMove

\* A row that appears is inserted by the step.
LEMMA RowThere ==
  ASSUME TypeOK, HandlersOK, NEW r \in Requests, Acts(r), NEW id \in Ids, rows'[id] # None
  PROVE  \/ rows[id] # None /\ rows'[id].send = rows[id].send
            /\ (rows'[id].open = rows[id].open \/ (rows[id].open = r /\ rows'[id].open = None))
         \/ Inserts(r) /\ id = lastId + 1
<1>1. CASE Inserts(r)
  BY <1>1, Inserted
<1>2. CASE RowsStep(r)
  BY <1>2 DEF RowsStep, RowStep, Altered
<1> QED BY <1>1, <1>2, RowsMove

\* A phone that catches up touches neither the rows nor the handlers.
LEMMA CatchUpStays ==
  ASSUME NEW u \in Readers, CatchUp(u)
  PROVE  UNCHANGED <<rows, lastId, tombs, lastTomb, unread, seen, outbox, req, heard, counted, torn, cut, faults>>
  BY DEF CatchUp, FirstCursor, NextDeletions, store, marks, history

\* The handlers stay typed and right, the one that moves and the others.
LEMMA HandlersStay ==
  ASSUME TypeOK, HandlersOK, Next
  PROVE  /\ req' \in [Requests -> Handlers] /\ HandlersOK'
         /\ \A id \in Ids : rows'[id] # None /\ rows'[id].open # None =>
              req'[rows'[id].open].id = id /\ req'[rows'[id].open].step \in {"body", "commit"}
<1>1. req \in [Requests -> Handlers] /\ \A q \in Requests : HandlerOK(q, req[q])
  BY DEF TypeOK, HandlersOK
<1>2. ASSUME NEW r \in Requests, Acts(r)
      PROVE  /\ req' \in [Requests -> Handlers] /\ HandlersOK'
             /\ \A id \in Ids : rows'[id] # None /\ rows'[id].open # None =>
                  req'[rows'[id].open].id = id /\ req'[rows'[id].open].step \in {"body", "commit"}
  <2>1. PICK x \in Handlers : Going(r, x)
    BY <1>2, Proceeds
  <2>2. req' \in [Requests -> Handlers] /\ req'[r] = x /\ \A q \in Requests \ {r} : req'[q] = req[q]
    BY <1>1, <2>1 DEF Going
  <2>3. ASSUME NEW q \in Requests, q # r PROVE HandlerOK(q, req[q])'
    <3>1. PICK y \in Handlers : y = req[q]
      BY <1>1
    <3>2. HandlerOK(q, y) /\ req'[q] = y
      BY <1>1, <2>2, <2>3, <3>1
    <3>3. ASSUME (y.op \in Senders /\ y.step \notin {"look", "insert"}) \/ y.op = "delete"
          PROVE  /\ y.id \in Ids /\ rows'[y.id] # None /\ rows'[y.id].send = rows[y.id].send
                 /\ rows'[y.id].open = rows[y.id].open
      <4>1. y.id \in Ids /\ rows[y.id] # None /\ rows[y.id].open \in {None, q}
        BY <3>2, <3>3 DEF HandlerOK, RowOK
      <4> QED BY <1>2, <2>3, <4>1, RowKept, MessagesAssumption
    <3>4. RowOK(q, y)'
      BY <3>2, <3>3 DEF HandlerOK, RowOK
    <3> QED BY <3>2, <3>4 DEF HandlerOK
  <2>4. HandlerOK(r, req[r])'
    BY <2>1, <2>2 DEF Going, HandlerOK, RowOK
  <2>5. HandlersOK'
    BY <2>3, <2>4 DEF HandlersOK
  <2>6. ASSUME NEW id \in Ids, rows'[id] # None, rows'[id].open # None
        PROVE  req'[rows'[id].open].id = id /\ req'[rows'[id].open].step \in {"body", "commit"}
    <3>1. CASE rows'[id].open = r
      BY <2>1, <2>2, <2>6, <3>1 DEF Going, OpenOK
    <3>2. CASE rows'[id].open # r
      <4>1. rows[id] # None /\ rows'[id].open = rows[id].open
        BY <1>2, <2>6, <3>2, RowThere, Inserted
      <4>2. rows[id].open \in Requests
        BY <2>6, <4>1 DEF TypeOK, Rows
      <4> QED BY <2>2, <2>6, <3>2, <4>1, <4>2 DEF TypeOK
    <3> QED BY <3>1, <3>2
  <2> QED BY <2>2, <2>5, <2>6
<1>3. ASSUME NEW u \in Readers, CatchUp(u)
      PROVE  /\ req' \in [Requests -> Handlers] /\ HandlersOK'
             /\ \A id \in Ids : rows'[id] # None /\ rows'[id].open # None =>
                  req'[rows'[id].open].id = id /\ req'[rows'[id].open].step \in {"body", "commit"}
  <2>1. UNCHANGED <<rows, req>>
    BY <1>3, CatchUpStays
  <2>2. HandlersOK'
    BY <2>1 DEF HandlersOK, HandlerOK, RowOK
  <2> QED BY <1>1, <2>1, <2>2 DEF TypeOK
<1> QED BY <1>2, <1>3, Actors
-----------------------------------------------------------------------------
(* One row of a send                                                       *)

\* What else moves stays where it was.
LEMMA OthersStay ==
  ASSUME TypeOK, HandlersOK, NEW r \in Requests, Acts(r)
  PROVE  \A q \in Requests : q # r => req'[q] = req[q]
  BY Proceeds DEF Going, TypeOK

\* An announcement, and an addition to the counters.
Hears(r) == req[r].send \in Sends /\ heard' = [heard EXCEPT ![req[r].send] = @ + 1]
Adds(r)  == req[r].send \in Sends /\ Counted(req[r].send)

\* The histories move so, and by a handler whose row is there for all.
LEMMA HistoryStep ==
  ASSUME TypeOK, HandlersOK, NEW r \in Requests, Acts(r)
  PROVE  /\ UNCHANGED heard \/ Hears(r)
         /\ UNCHANGED <<counted, unread>> \/ (UNCHANGED counted /\ Zero(r)) \/ Adds(r)
         /\ Hears(r) \/ Adds(r) =>
              /\ req[r].id \in Ids /\ rows'[req[r].id] # None
              /\ rows'[req[r].id].send = req[r].send /\ rows'[req[r].id].open = None
<1>1. req \in [Requests -> Handlers] /\ HandlerOK(r, req[r])
  BY DEF TypeOK, HandlersOK
<1>2. CASE Tell(r) \/ Spread(r) \/ Count(r) \/ Deliver(r)
  <2>1. req[r].op \in Senders /\ req[r].step \in {"tell", "spread", "count", "deliver"} /\ r # None
    BY <1>2, MessagesAssumption DEF Tell, Spread, Count, Deliver, At, Senders
  <2>2. /\ req[r].id \in Ids /\ rows[req[r].id] # None /\ rows[req[r].id].open = None
        /\ rows[req[r].id].send = req[r].send /\ req[r].send \in Sends
    BY <1>1, <2>1 DEF HandlerOK, RowOK
  <2>3. UNCHANGED rows
    BY <1>2 DEF Tell, Spread, Count, Deliver, store
  <2>4. CASE Tell(r) \/ Spread(r) \/ Deliver(r)
    BY <2>2, <2>3, <2>4 DEF Tell, Spread, Deliver, Announce, Hears, marks
  <2>5. CASE Count(r)
    BY <2>2, <2>3, <2>5 DEF Count, Adds
  <2> QED BY <1>2, <2>4, <2>5
<1>3. CASE CommitForward(r)
  <2>1. req[r].send \in Sends
    BY <1>1, <1>3 DEF HandlerOK, CommitForward, At, Senders
  <2>2. UNCHANGED heard /\ Adds(r)
    BY <1>3, <2>1 DEF CommitForward, Adds
  <2> QED BY <1>3, <2>2, Commits
<1>4. ASSUME UNCHANGED heard, UNCHANGED counted PROVE ~Hears(r) /\ ~Adds(r)
  <2>1. heard \in [Sends -> Nat] /\ counted \in [Sends -> Nat]
    BY DEF TypeOK
  <2> QED BY <1>4, <2>1 DEF Hears, Adds, Counted
<1>5. CASE Zero(r)
  BY <1>4, <1>5 DEF Zero, history
<1>6. CASE ~(Tell(r) \/ Spread(r) \/ Count(r) \/ Deliver(r) \/ CommitForward(r) \/ Zero(r))
  <2>1. UNCHANGED <<heard, counted, unread>>
    BY <1>6 DEF Acts, Sending, Receipt, Send, Forward, Receive, Read, Delete, Look, Insert, WriteBody, CommitSealed,
                Peek, Raise, MarkRows, CommitDelete, UnknownDevice, Die, history, marks
  <2> QED BY <1>4, <2>1
<1> QED BY <1>2, <1>3, <1>5, <1>6

\* A send that is inserted has no row yet.
LEMMA NoneYet ==
  ASSUME TypeOK, HandlersOK, OneForward, NEW r \in Requests, Inserts(r)
  PROVE  req[r].send \in Sends /\ \A id \in Ids : rows[id] # None => rows[id].send # req[r].send
<1>1. HandlerOK(r, req[r]) /\ req[r].op \in Senders /\ req[r].step = "insert"
  BY DEF HandlersOK, Inserts, At
<1>2. req[r].send \in Sends /\ (req[r].op = "forward" <=> req[r].send \in Forwards)
  BY <1>1 DEF HandlerOK
<1> QED BY <1>1, <1>2 DEF OneForward, Inserts, Holders

\* An insertion is of a send that has no row.
LEMMA OneRowStays ==
  ASSUME TypeOK, HandlersOK, OneForward, OneRow, Next PROVE OneRow'
<1>1. ASSUME NEW r \in Requests, Acts(r), NEW i \in Ids, NEW j \in Ids,
             rows'[i] # None, rows'[j] # None, rows'[i].send = rows'[j].send
      PROVE  i = j
  <2>1. CASE Inserts(r)
    <3>1. /\ rows'[lastId + 1].send = req[r].send /\ lastId + 1 \in Ids
          /\ \A id \in Ids : id # lastId + 1 => rows'[id] = rows[id]
      BY <2>1, Inserted
    <3>2. \A id \in Ids : rows[id] # None => rows[id].send # req[r].send
      BY <2>1, NoneYet
    <3>3. CASE i = lastId + 1
      BY <1>1, <3>1, <3>2, <3>3
    <3>4. CASE i # lastId + 1
      BY <1>1, <3>1, <3>2, <3>4 DEF OneRow
    <3> QED BY <3>3, <3>4
  <2>2. CASE ~Inserts(r)
    BY <1>1, <2>2, RowThere DEF OneRow
  <2> QED BY <2>1, <2>2
<1>2. ASSUME NEW u \in Readers, CatchUp(u) PROVE OneRow'
  BY <1>2, CatchUpStays DEF OneRow
<1> QED BY <1>1, <1>2, Actors DEF OneRow

\* A forward starts when it leaves the phone, and goes on to its end.
LEMMA ForwardStep ==
  ASSUME TypeOK, HandlersOK, NEW r \in Requests, Acts(r)
  PROVE  /\ outbox' \subseteq outbox
         /\ req'[r].op = "forward" =>
              \/ /\ req'[r].send \in Sends /\ Forward(r, req'[r].send)
              \/ /\ req[r].op = "forward" /\ req'[r].send = req[r].send
                 /\ req'[r].step # "insert"
<1>1. req \in [Requests -> Handlers] /\ HandlerOK(r, req[r])
  BY DEF TypeOK, HandlersOK
<1>2. outbox' \subseteq outbox
  BY DEF Acts, Sending, Receipt, Send, Forward, Receive, Read, Delete, Look, Insert, WriteBody, CommitSealed,
         Tell, Spread, Count, CommitForward, Deliver, Zero, Peek, Raise, MarkRows, CommitDelete,
         UnknownDevice, Die, Acknowledge
<1>3. CASE \/ \E s \in Sends : Send(r, s) \/ Forward(r, s)
           \/ \E u \in Readers : Receive(r, u) \/ Read(r, u)
           \/ \E u \in Members, id \in Ids : Delete(r, u, id)
  BY <1>1, <1>2, <1>3, Arrives DEF Going
<1>4. ASSUME Finish(r) PROVE req'[r].op # "forward"
  BY <1>1, <1>4 DEF Finish, Idle
<1>5. CASE Insert(r)
  <2>1. CASE Inserts(r)
    <3>1. PICK x \in Handlers : Going(r, x) /\ x.op = req[r].op /\ x.send = req[r].send /\ x.step # "insert"
      BY <2>1, Inserted
    <3> QED BY <1>1, <1>2, <3>1 DEF Going
  <2>2. CASE ~Inserts(r)
    <3>1. req'[r].op # "forward"
      <4>1. PICK x \in Handlers : Going(r, x) /\ x.op # "forward"
        BY <1>5, <2>2, Found
      <4> QED BY <1>1, <4>1 DEF Going
    <3> QED BY <1>2, <3>1
  <2> QED BY <2>1, <2>2
<1>6. CASE CommitSealed(r) \/ CommitForward(r)
  <2>1. PICK x \in Handlers : Going(r, x) /\ Onto(x, req[r])
    BY <1>6, Commits
  <2>2. PICK step \in {"tell", "deliver"} : Goto(r, step)
    BY <1>6 DEF CommitSealed, CommitForward
  <2>4. PICK z \in Handlers : req' = [req EXCEPT ![r] = z] /\ z.step = step
    BY <2>2, GoesTo DEF Steps
  <2>3. x.step # "insert"
    BY <1>1, <2>1, <2>4 DEF Going
  <2> QED BY <1>1, <1>2, <2>1, <2>3 DEF Going, Onto
<1>7. CASE Peek(r)
  BY <1>1, <1>2, <1>7, Peeks DEF Going, Peek, At
<1>8. CASE Look(r) \/ WriteBody(r) \/ Tell(r) \/ Spread(r) \/ Count(r) \/ Zero(r) \/ Raise(r)
  <2>1. CASE Finish(r)
    BY <1>2, <1>4, <2>1
  <2>2. CASE ~Finish(r)
    <3>1. ~Inserts(r)
      BY <1>8 DEF Inserts, At, Look, WriteBody, Tell, Spread, Count, Zero, Raise
    <3>2. RowsStep(r)
      BY <3>1, RowsMove
    <3>3. PICK x \in Handlers : Going(r, x) /\ Onto(x, req[r])
      BY <1>8, <2>2, <3>2, GoesQuietly
    <3>4. req[r].op # "forward"
      BY <1>8 DEF At, Look, WriteBody, Tell, Spread, Count, Zero, Raise
    <3> QED BY <1>1, <1>2, <3>3, <3>4 DEF Going, Onto
  <2> QED BY <2>1, <2>2
<1>9. CASE Deliver(r) \/ MarkRows(r) \/ CommitDelete(r) \/ UnknownDevice(r) \/ Die(r)
  BY <1>2, <1>4, <1>9 DEF Deliver, MarkRows, CommitDelete, UnknownDevice, Die
<1> QED BY <1>3, <1>5, <1>6, <1>7, <1>8, <1>9 DEF Acts, Sending, Receipt

\* A forward leaves the phone with its handler.
LEMMA OneForwardStays ==
  ASSUME TypeOK, HandlersOK, OneForward, Next PROVE OneForward'
<1>1. ASSUME NEW r \in Requests, Acts(r) PROVE OneForward'
  <2>1. outbox' \subseteq outbox /\ \A q \in Requests : q # r => req'[q] = req[q]
    BY <1>1, ForwardStep, OthersStay
  <2>2. ASSUME NEW s \in Sends, Forward(r, s) PROVE s \in outbox /\ s \notin outbox'
    BY <2>2 DEF Forward
  <2>3. ASSUME NEW q \in Requests, q # r, req'[r].op = "forward", req'[q].op = "forward" PROVE req'[r].send # req'[q].send
    BY <1>1, <2>1, <2>2, <2>3, ForwardStep DEF OneForward
  <2>4. ASSUME NEW q \in Requests, req'[q].op = "forward" PROVE req'[q].send \notin outbox'
    BY <1>1, <2>1, <2>2, <2>4, ForwardStep DEF OneForward
  <2>5. ASSUME NEW id \in Ids, NEW s \in Forwards, rows'[id] # None, rows'[id].send = s
        PROVE  s \notin outbox' /\ \A q \in Requests : req'[q].op = "forward" /\ req'[q].send = s => req'[q].step # "insert"
    <3>1. CASE Inserts(r) /\ id = lastId + 1
      <4>1. s = req[r].send /\ req[r].op = "forward"
        BY <2>5, <3>1, Inserted DEF HandlersOK, HandlerOK, Inserts, At
      <4>2. req'[r].step # "insert" /\ req'[r].op = "forward" /\ req'[r].send = s
        <5>1. PICK x \in Handlers : Going(r, x) /\ x.op = req[r].op /\ x.send = req[r].send /\ x.step # "insert"
          BY <3>1, Inserted
        <5> QED BY <4>1, <5>1 DEF Going, TypeOK
      <4> QED BY <2>1, <2>3, <4>1, <4>2 DEF OneForward
    <3>2. CASE rows[id] # None /\ rows'[id].send = rows[id].send
      <4>1. s \notin outbox /\ \A q \in Requests : req[q].op = "forward" /\ req[q].send = s => req[q].step # "insert"
        BY <2>5, <3>2 DEF OneForward
      <4>2. ASSUME req'[r].op = "forward", req'[r].send = s PROVE req'[r].step # "insert"
        BY <1>1, <2>2, <4>1, <4>2, ForwardStep
      <4> QED BY <2>1, <4>1, <4>2
    <3> QED BY <1>1, <2>5, <3>1, <3>2, RowThere
  <2> QED BY <2>1, <2>3, <2>4, <2>5 DEF OneForward
<1>2. ASSUME NEW u \in Readers, CatchUp(u) PROVE OneForward'
  BY <1>2, CatchUpStays DEF OneForward
<1> QED BY <1>1, <1>2, Actors

-----------------------------------------------------------------------------
(* Types                                                                   *)

\* The rows, and the ids that are free.
LEMMA RowsTyped ==
  ASSUME TypeOK, HandlersOK, Next
  PROVE  /\ rows' \in [Ids -> Rows \union {None}] /\ lastId' \in 0..MaxRows
         /\ \A id \in Ids : id > lastId' => rows'[id] = None
<1>1. /\ rows \in [Ids -> Rows \union {None}] /\ lastId \in 0..MaxRows /\ MaxRows \in Nat
      /\ \A id \in Ids : id > lastId => rows[id] = None
  BY MessagesAssumption DEF TypeOK
<1>2. ASSUME NEW r \in Requests, Inserts(r)
      PROVE  /\ rows' \in [Ids -> Rows \union {None}] /\ lastId' \in 0..MaxRows
             /\ \A id \in Ids : id > lastId' => rows'[id] = None
  <2>1. /\ lastId + 1 \in Ids /\ lastId' = lastId + 1 /\ rows' \in [Ids -> Rows \union {None}]
        /\ \A id \in Ids : id # lastId + 1 => rows'[id] = rows[id]
    BY <1>2, Inserted
  <2>2. \A id \in Ids : id > lastId + 1 => id > lastId /\ id # lastId + 1
    BY <1>1 DEF Ids
  <2>3. lastId + 1 \in 0..MaxRows
    BY <1>1, <2>1 DEF Ids
  <2> QED BY <1>1, <2>1, <2>2, <2>3
<1>3. ASSUME NEW r \in Requests, RowsStep(r)
      PROVE  /\ rows' \in [Ids -> Rows \union {None}] /\ lastId' \in 0..MaxRows
             /\ \A id \in Ids : id > lastId' => rows'[id] = None
  BY <1>1, <1>3 DEF RowsStep, RowStep, Altered
<1>4. ASSUME NEW u \in Readers, CatchUp(u) PROVE UNCHANGED <<rows, lastId>>
  BY <1>4, CatchUpStays
<1> QED BY <1>1, <1>2, <1>3, <1>4, Actors, RowsMove

\* Deletions.
LEMMA TombsTyped ==
  ASSUME TypeOK, HandlersOK, Next
  PROVE  tombs' \in [TombIds -> Tombs \union {None}] /\ lastTomb' \in 0..MaxTombs
<1>1. tombs \in [TombIds -> Tombs \union {None}] /\ lastTomb \in 0..MaxTombs /\ MaxTombs \in Nat
  BY MessagesAssumption DEF TypeOK
<1>2. ASSUME NEW r \in Requests, NEW u \in Members, NEW id \in Ids, Delete(r, u, id)
      PROVE  tombs' \in [TombIds -> Tombs \union {None}] /\ lastTomb' \in 0..MaxTombs
  <2>1. PICK tomb : tomb = [row |-> id, open |-> r]
    OBVIOUS
  <2>2. tomb \in Tombs /\ tombs' = [tombs EXCEPT ![lastTomb + 1] = tomb]
    BY <1>2, <2>1 DEF Delete, Tombs
  <2>3. lastTomb' = lastTomb + 1 /\ lastTomb < MaxTombs
    BY <1>2 DEF Delete
  <2>4. lastTomb' \in 0..MaxTombs
    BY <1>1, <2>3
  <2>5. tombs' \in [TombIds -> Tombs \union {None}]
    BY <1>1, <2>2
  <2> QED BY <2>4, <2>5
<1>3. ASSUME NEW r \in Requests, CommitDelete(r)
      PROVE  tombs' \in [TombIds -> Tombs \union {None}] /\ UNCHANGED lastTomb
  <2>1. ASSUME NEW tomb \in Tombs PROVE [tomb EXCEPT !.open = None] \in Tombs
    BY DEF Tombs
  <2>2. \A t \in TombIds : tombs[t] # None => [tombs[t] EXCEPT !.open = None] \in Tombs
    BY <1>1, <2>1
  <2> QED BY <1>1, <1>3, <2>2 DEF CommitDelete
<1>4. ASSUME NEW r \in Requests, Die(r)
      PROVE  tombs' \in [TombIds -> Tombs \union {None}] /\ UNCHANGED lastTomb
  BY <1>1, <1>4 DEF Die, Undone
<1>5. ASSUME NEW r \in Requests, Acts(r), ~CommitDelete(r), ~Die(r),
             ~ \E u \in Members, id \in Ids : Delete(r, u, id)
      PROVE  UNCHANGED <<tombs, lastTomb>>
  BY <1>5 DEF Acts, Sending, Receipt, Send, Forward, Receive, Read, Look, Insert, WriteBody, CommitSealed,
              Tell, Spread, Count, CommitForward, Deliver, Zero, Peek, Raise, MarkRows, UnknownDevice, store
<1>6. ASSUME NEW u \in Readers, CatchUp(u) PROVE UNCHANGED <<tombs, lastTomb>>
  BY <1>6, CatchUpStays
<1> QED BY <1>1, <1>2, <1>3, <1>4, <1>5, <1>6, Actors

\* Marks only go forward.
LEMMA MarksTyped ==
  ASSUME TypeOK, HandlersOK, Next
  PROVE  /\ seen' \in [Members -> [delivered : 0..MaxRows, read : 0..MaxRows]]
         /\ \A u \in Members : seen'[u].read >= seen[u].read /\ seen'[u].delivered >= seen[u].delivered
<1>1. seen \in [Members -> [delivered : 0..MaxRows, read : 0..MaxRows]] /\ MaxRows \in Nat
  BY MessagesAssumption DEF TypeOK
<1>2. \A u \in Members : /\ seen[u] \in [delivered : 0..MaxRows, read : 0..MaxRows]
                         /\ seen[u].read \in 0..MaxRows /\ seen[u].delivered \in 0..MaxRows
                         /\ seen[u].read >= seen[u].read /\ seen[u].delivered >= seen[u].delivered
  BY <1>1
<1>3. ASSUME NEW r \in Requests, Raise(r)
      PROVE  /\ seen' \in [Members -> [delivered : 0..MaxRows, read : 0..MaxRows]]
             /\ \A u \in Members : seen'[u].read >= seen[u].read /\ seen'[u].delivered >= seen[u].delivered
  <2>1. PICK u : u = req[r].who
    OBVIOUS
  <2>2. u \in Members /\ req[r].id \in 0..MaxRows
    BY <1>3, <2>1 DEF Raise, At, HandlersOK, HandlerOK, TypeOK, Handlers
  <2>3. PICK d : d = Further(seen[u].delivered, req[r].id)
    OBVIOUS
  <2>4. PICK e : e = IF req[r].op = "read" THEN Further(seen[u].read, req[r].id) ELSE seen[u].read
    OBVIOUS
  <2>5. d \in 0..MaxRows /\ e \in 0..MaxRows /\ d >= seen[u].delivered /\ e >= seen[u].read
    BY <1>2, <2>2, <2>3, <2>4, FurtherIs
  <2>6. seen' = [seen EXCEPT ![u].delivered = d, ![u].read = e]
    BY <1>3, <2>1, <2>3, <2>4 DEF Raise
  <2>7. PICK m : m = [delivered |-> d, read |-> e]
    OBVIOUS
  <2>8. m \in [delivered : 0..MaxRows, read : 0..MaxRows] /\ m.delivered = d /\ m.read = e
    BY <2>5, <2>7
  <2>9. seen' = [seen EXCEPT ![u] = m]
    <3>1. PICK s : s = [seen EXCEPT ![u] = [seen[u] EXCEPT !.delivered = d]]
      OBVIOUS
    <3>2. s[u] = [delivered |-> d, read |-> seen[u].read]
      BY <1>1, <1>2, <2>2, <3>1
    <3>3. seen' = [s EXCEPT ![u] = [s[u] EXCEPT !.read = e]]
      BY <2>6, <3>1
    <3>4. [s[u] EXCEPT !.read = e] = m
      BY <2>7, <3>2
    <3>5. s = [seen EXCEPT ![u] = s[u]]
      BY <1>1, <2>2, <3>1
    <3>6. seen' = [s EXCEPT ![u] = m]
      BY <3>3, <3>4
    <3> QED BY <1>1, <2>2, <3>5, <3>6
  <2> QED BY <1>1, <1>2, <2>2, <2>5, <2>8, <2>9
<1>4. ASSUME NEW r \in Requests, Acts(r), ~Raise(r) PROVE UNCHANGED seen
  BY <1>4 DEF Acts, Sending, Receipt, Send, Forward, Receive, Read, Delete, Look, Insert, WriteBody, CommitSealed,
              Tell, Spread, Count, CommitForward, Deliver, Zero, Peek, MarkRows, CommitDelete,
              UnknownDevice, Die, marks
<1>5. ASSUME NEW u \in Readers, CatchUp(u) PROVE UNCHANGED seen
  BY <1>5, CatchUpStays
<1> QED BY <1>1, <1>2, <1>3, <1>4, <1>5, Actors

\* The phones that catch up.
LEMMA PhonesTyped ==
  ASSUME TypeOK, Next
  PROVE  phone' \in [Members -> [cursor : TombIds \union {0, None}, gone : SUBSET Ids]]
<1>1. /\ phone \in [Members -> [cursor : TombIds \union {0, None}, gone : SUBSET Ids]]
      /\ Readers \subseteq Members /\ lastTomb \in 0..MaxTombs /\ MaxTombs \in Nat
  BY MessagesAssumption DEF TypeOK
<1>2. \A t \in Buried : t \in TombIds /\ tombs[t].row \in Ids
  BY DEF TypeOK, Buried, Tombs
<1>3. ASSUME NEW u \in Members, NEW c \in TombIds \union {0, None}, NEW g \in SUBSET Ids,
             phone' = [phone EXCEPT ![u].cursor = c, ![u].gone = phone[u].gone \union g]
      PROVE  phone' \in [Members -> [cursor : TombIds \union {0, None}, gone : SUBSET Ids]]
  <2>1. PICK p : p = [cursor |-> c, gone |-> phone[u].gone \union g]
    OBVIOUS
  <2>2. phone[u] \in [cursor : TombIds \union {0, None}, gone : SUBSET Ids]
    BY <1>1
  <2>3. p \in [cursor : TombIds \union {0, None}, gone : SUBSET Ids]
    BY <2>1, <2>2
  <2>4. phone' = [phone EXCEPT ![u] = p]
    <3>1. PICK s : s = [phone EXCEPT ![u] = [phone[u] EXCEPT !.cursor = c]]
      OBVIOUS
    <3>2. s[u] = [cursor |-> c, gone |-> phone[u].gone]
      BY <1>1, <2>2, <3>1
    <3>3. phone' = [s EXCEPT ![u] = [s[u] EXCEPT !.gone = phone[u].gone \union g]]
      BY <1>3, <3>1
    <3>4. [s[u] EXCEPT !.gone = phone[u].gone \union g] = p
      BY <2>1, <3>2
    <3>5. s = [phone EXCEPT ![u] = s[u]]
      BY <1>1, <3>1
    <3>6. phone' = [s EXCEPT ![u] = p]
      BY <3>3, <3>4
    <3> QED BY <1>1, <3>5, <3>6
  <2> QED BY <1>1, <2>3, <2>4
<1>4. ASSUME NEW u \in Readers, FirstCursor(u)
      PROVE  phone' \in [Members -> [cursor : TombIds \union {0, None}, gone : SUBSET Ids]]
  <2>1. PICK h \in Horizons :
          phone' = [phone EXCEPT ![u].cursor = h,
                                 ![u].gone = @ \union {tombs[t].row : t \in Buried \intersect 1..h}]
    BY <1>4 DEF FirstCursor
  <2>2. h \in TombIds \union {0, None}
    BY <1>1 DEF Horizons, TombIds
  <2>3. PICK g : g = {tombs[t].row : t \in Buried \intersect 1..h}
    OBVIOUS
  <2>4. g \in SUBSET Ids
    BY <1>2, <2>3
  <2>5. phone' = [phone EXCEPT ![u].cursor = h, ![u].gone = phone[u].gone \union g]
    BY <2>1, <2>3
  <2> QED BY <1>1, <1>3, <2>2, <2>4, <2>5
<1>5. ASSUME NEW u \in Readers, NextDeletions(u)
      PROVE  phone' \in [Members -> [cursor : TombIds \union {0, None}, gone : SUBSET Ids]]
  <2>1. u \in Members /\ Page(u) # {}
    BY <1>1, <1>5 DEF NextDeletions
  <2>2. Page(u) \subseteq Buried
    BY DEF Page
  <2>3. PICK c : c = EndOf(u)
    OBVIOUS
  <2>4. c \in TombIds \union {0, None}
    BY <1>2, <2>1, <2>2, <2>3, EndOfIs
  <2>5. PICK g : g = {tombs[t].row : t \in Page(u)}
    OBVIOUS
  <2>6. g \in SUBSET Ids
    BY <1>2, <2>2, <2>5
  <2>7. phone' = [phone EXCEPT ![u].cursor = c, ![u].gone = phone[u].gone \union g]
    BY <1>5, <2>3, <2>5 DEF NextDeletions
  <2> QED BY <1>3, <2>1, <2>4, <2>6, <2>7
<1>6. ASSUME NEW r \in Requests, Acts(r) PROVE UNCHANGED phone
  BY <1>6 DEF Acts, Sending, Receipt, Send, Forward, Receive, Read, Delete, Look, Insert, WriteBody, CommitSealed,
              Tell, Spread, Count, CommitForward, Deliver, Zero, Peek, Raise, MarkRows, CommitDelete,
              UnknownDevice, Die
<1> QED BY <1>1, <1>4, <1>5, <1>6, Actors DEF CatchUp

\* What is left of the state.
LEMMA RestTyped ==
  ASSUME TypeOK, HandlersOK, Next
  PROVE  /\ outbox' \subseteq Sends /\ heard' \in [Sends -> Nat] /\ counted' \in [Sends -> Nat]
         /\ unread' \in [Members -> Nat]
         /\ torn' \subseteq Members /\ cut' \subseteq Sends /\ faults' \in 0..MaxFaults
<1>1. /\ outbox \subseteq Sends /\ heard \in [Sends -> Nat] /\ counted \in [Sends -> Nat]
      /\ unread \in [Members -> Nat]
      /\ torn \subseteq Members /\ cut \subseteq Sends /\ faults \in 0..MaxFaults /\ MaxFaults \in Nat
  BY MessagesAssumption DEF TypeOK
<1>2. ASSUME NEW r \in Requests, Acts(r)
      PROVE  /\ outbox' \subseteq Sends /\ heard' \in [Sends -> Nat] /\ counted' \in [Sends -> Nat]
             /\ unread' \in [Members -> Nat]
             /\ torn' \subseteq Members /\ cut' \subseteq Sends /\ faults' \in 0..MaxFaults
  <2>1. outbox' \subseteq Sends
    BY <1>1, <1>2, ForwardStep
  <2>2. ASSUME Hears(r) PROVE heard' \in [Sends -> Nat]
    BY <1>1, <2>2 DEF Hears
  <2>3. ASSUME Adds(r) PROVE counted' \in [Sends -> Nat] /\ unread' \in [Members -> Nat]
    BY <1>1, <2>3 DEF Adds, Counted
  <2>7. ASSUME Zero(r) PROVE unread' \in [Members -> Nat]
    BY <1>1, <2>7 DEF Zero
  <2>4. heard' \in [Sends -> Nat] /\ counted' \in [Sends -> Nat] /\ unread' \in [Members -> Nat]
    BY <1>1, <1>2, <2>2, <2>3, <2>7, HistoryStep
  <2>5. CASE UnknownDevice(r) \/ Die(r)
    <3>1. Shorted(r) \subseteq Members
      BY DEF Shorted, Others, BetweenMarks, HandlersOK, HandlerOK
    <3>2. torn' = torn \union Shorted(r) /\ cut' = cut \union HalfTold(r) /\ faults < MaxFaults /\ faults' = faults + 1
      BY <2>5 DEF UnknownDevice, Die
    <3>3. HalfTold(r) \subseteq Sends
      BY DEF HalfTold, Senders, HandlersOK, HandlerOK
    <3> QED BY <1>1, <2>1, <2>4, <3>1, <3>2, <3>3
  <2>6. CASE ~(UnknownDevice(r) \/ Die(r))
    <3>1. UNCHANGED <<torn, cut, faults>>
      BY <1>2, <2>6
         DEF Acts, Sending, Receipt, Send, Forward, Receive, Read, Delete, Look, Insert, WriteBody, CommitSealed,
             Tell, Spread, Count, CommitForward, Deliver, Zero, Peek, Raise, MarkRows, CommitDelete, history
    <3> QED BY <1>1, <2>1, <2>4, <3>1
  <2> QED BY <2>5, <2>6
<1>3. ASSUME NEW u \in Readers, CatchUp(u) PROVE UNCHANGED <<outbox, heard, counted, unread, torn, cut, faults>>
  BY <1>3, CatchUpStays
<1> QED BY <1>1, <1>2, <1>3, Actors

\* The types.
LEMMA TypeStays ==
  ASSUME TypeOK, HandlersOK, Next PROVE TypeOK'
  BY RowsTyped, TombsTyped, MarksTyped, PhonesTyped, RestTyped, HandlersStay DEF TypeOK
-----------------------------------------------------------------------------
(* The unread counters                                                     *)

\* A row becomes visible when it is inserted outside a transaction, or at a commit.
LEMMA NewlyVisible ==
  ASSUME TypeOK, HandlersOK, NEW r \in Requests, Acts(r), NEW id \in Visible', id \notin Visible
  PROVE  \/ Inserts(r) /\ id = lastId + 1 /\ ~Within(req[r])
         \/ (CommitSealed(r) \/ CommitForward(r)) /\ id = req[r].id
<1>1. id \in Ids /\ rows'[id] # None /\ rows'[id].open = None
  BY DEF Visible
<1>2. r # None /\ HandlerOK(r, req[r])
  BY MessagesAssumption DEF HandlersOK
<1>3. CASE Inserts(r) /\ id = lastId + 1
  BY <1>1, <1>2, <1>3, Inserted
<1>4. CASE rows[id] # None /\ rows[id].open = r
  <2>1. req[r].id = id /\ req[r].step \in {"body", "commit"}
    BY <1>1, <1>2, <1>4 DEF TypeOK
  <2>2. req[r].op # "delete" /\ ~CommitDelete(r)
    BY <1>2, <1>4, <2>1 DEF HandlerOK, RowOK, CommitDelete, At
  <2>3. req[r].op \in Senders /\ Within(req[r])
    <3>1. req[r].op \in Senders
      BY <1>2, <2>1, <2>2, MessagesAssumption DEF HandlerOK, PointOK, Senders, Steps
    <3> QED BY <1>2, <1>4, <2>1, <3>1 DEF HandlerOK, RowOK
  <2>4. CASE CommitSealed(r) \/ CommitForward(r)
    BY <2>1, <2>3, <2>4
  <2>5. ~WriteBody(r)
    <3>1. InTransaction(r)
      BY <2>3 DEF Within, InTransaction, Sealed
    <3> QED BY <1>1, <1>2, <1>4, <3>1 DEF WriteBody
  <2>6. ~UnknownDevice(r) /\ ~Die(r)
    BY <1>1, <1>2, <1>4, RowsDropped DEF UnknownDevice, Die
  <2>7. ~(Look(r) \/ Insert(r) \/ Tell(r) \/ Spread(r) \/ Count(r) \/ Deliver(r) \/ Receipt(r))
    BY <2>1 DEF Look, Insert, Tell, Spread, Count, Deliver, Receipt, Zero, Peek, Raise, MarkRows, At
  <2>8. ~(\/ \E s \in Sends : Send(r, s) \/ Forward(r, s)
          \/ \E u \in Readers : Receive(r, u) \/ Read(r, u)
          \/ \E u \in Members, i \in Ids : Delete(r, u, i))
    <3>1. req[r] # Idle
      BY <2>3 DEF Idle, Senders
    <3> QED BY <3>1, Arrives
  <2> QED BY <2>2, <2>4, <2>5, <2>6, <2>7, <2>8 DEF Acts, Sending
<1> QED BY <1>1, <1>2, <1>3, <1>4, RowThere DEF Visible

\* A visible row stays visible, by the same author.
LEMMA StillVisible ==
  ASSUME TypeOK, HandlersOK, NEW r \in Requests, Acts(r), NEW id \in Visible
  PROVE  id \in Visible' /\ Author(id)' = Author(id)
<1>1. id \in Ids /\ rows[id] # None /\ rows[id].open = None /\ r # None
  BY MessagesAssumption DEF Visible
<1>2. rows'[id] # None /\ rows'[id].open = None /\ rows'[id].send = rows[id].send
  BY <1>1, RowKept
<1> QED BY <1>1, <1>2 DEF Visible, Author

\* No reading of u is about to look.
Settled(u) == \A r \in Reading(u) : req[r].step # "peek"

\* What a step leaves to the others.
LEMMA OthersOwe ==
  ASSUME TypeOK, HandlersOK, NEW r \in Requests, Acts(r), NEW u \in Members
  PROVE  /\ Due(u) \ {req[r].id} \subseteq Due(u)'
         /\ r \notin Owed(u) \/ (r \in Owed(u)' /\ req'[r].id = req[r].id) => Due(u) \subseteq Due(u)'
         /\ \A q \in Requests : q # r => (q \in Reading(u)' <=> q \in Reading(u))
         /\ r \notin Reading(u) /\ Settled(u)' => Settled(u)
         /\ r \notin Reading(u) => \A id \in Ahead(u)' : id \in Visible => id \in Ahead(u)
<1>1. \A q \in Requests : q # r => req'[q] = req[q]
  BY OthersStay
<1>2. \A q \in Owed(u) : q # r => q \in Owed(u)' /\ req'[q].id = req[q].id
  BY <1>1, StillVisible DEF Owed, Owes
<1>7. Due(u) \ {req[r].id} \subseteq Due(u)'
  BY <1>2 DEF Due
<1>8. ASSUME r \notin Owed(u) \/ (r \in Owed(u)' /\ req'[r].id = req[r].id) PROVE Due(u) \subseteq Due(u)'
  BY <1>2, <1>8 DEF Due
<1>3. \A q \in Requests : q # r => (q \in Reading(u)' <=> q \in Reading(u))
  BY <1>1 DEF Reading, BetweenMarks
<1>4. r \notin Reading(u) => \A q \in Reading(u) : q \in Reading(u)' /\ req'[q] = req[q]
  BY <1>1, <1>3 DEF Reading
<1>5. r \notin Reading(u) /\ Settled(u)' => Settled(u)
  BY <1>4 DEF Settled
<1>6. ASSUME r \notin Reading(u), NEW id \in Ahead(u)', id \in Visible PROVE id \in Ahead(u)
  <2>1. seen'[u].read >= seen[u].read /\ seen[u].read \in Int /\ seen'[u].read \in Int /\ id \in Int
    <3>1. Next
      BY DEF Next, Acts
    <3>2. /\ seen \in [Members -> [delivered : 0..MaxRows, read : 0..MaxRows]]
          /\ seen' \in [Members -> [delivered : 0..MaxRows, read : 0..MaxRows]]
          /\ seen'[u].read >= seen[u].read
      BY <3>1, MarksTyped DEF TypeOK
    <3>3. seen[u].read \in 0..MaxRows /\ seen'[u].read \in 0..MaxRows /\ id \in Ids /\ MaxRows \in Nat
      BY <1>6, <3>2, MessagesAssumption DEF Visible
    <3> QED BY <3>2, <3>3 DEF Ids
  <2>2. id > seen[u].read /\ Author(id) # u
    BY <1>6, <2>1, StillVisible DEF Ahead
  <2>3. \A q \in Reading(u) : id > req[q].id
    BY <1>4, <1>6 DEF Ahead
  <2> QED BY <1>6, <2>2, <2>3 DEF Ahead
<1> QED BY <1>3, <1>5, <1>6, <1>7, <1>8

\* What keeps a counter: it loses nothing; a row arrives with its debt, or counted; a debt is paid;
\* nothing is ahead any more; or a reading is about to look.
Keeps(u) ==
  \/ /\ unread'[u] = unread[u] /\ (Settled(u)' => Settled(u))
     /\ Due(u) \subseteq Due(u)' /\ Ahead(u)' \subseteq Ahead(u)
  \/ /\ unread'[u] = unread[u] /\ (Settled(u)' => Settled(u))
     /\ \E id \in Ids \ Due(u) : Due(u) \union {id} \subseteq Due(u)' /\ Ahead(u)' \subseteq Ahead(u) \union {id}
  \/ /\ unread'[u] = unread[u] + 1 /\ (Settled(u)' => Settled(u))
     /\ \E id \in Ids : Due(u) \subseteq Due(u)' /\ Ahead(u)' \subseteq Ahead(u) \union {id}
  \/ /\ unread'[u] = unread[u] + 1 /\ (Settled(u)' => Settled(u))
     /\ \E id : Due(u) \ {id} \subseteq Due(u)' /\ Ahead(u)' \subseteq Ahead(u)
  \/ Ahead(u)' = {} \/ ~Settled(u)'

\* Rows are finitely many.
LEMMA RowsFinite ==
  ASSUME NEW T \in SUBSET Ids PROVE IsFiniteSet(T) /\ Cardinality(T) \in Nat
<1>1. 1 \in Int /\ MaxRows \in Int
  BY MessagesAssumption
<1>2. IsFiniteSet(Ids)
  BY <1>1, FS_Interval DEF Ids
<1> QED BY <1>2, FS_Subset, FS_CardinalityType

\* Whatever keeps a counter keeps it above what is ahead of the mark.
LEMMA KeptIf ==
  ASSUME TypeOK, NEW u \in Members, unread'[u] \in Nat, Keeps(u), Settled(u)',
         Settled(u) => unread[u] + Cardinality(Due(u)) >= Cardinality(Ahead(u))
  PROVE  unread'[u] + Cardinality(Due(u)') >= Cardinality(Ahead(u)')
<1>1. unread[u] \in Nat
  BY DEF TypeOK
<1>2. PICK o, a, oo, aa : o = Due(u) /\ a = Ahead(u) /\ oo = Due(u)' /\ aa = Ahead(u)'
  OBVIOUS
<1>3. o \in SUBSET Ids /\ oo \in SUBSET Ids /\ a \in SUBSET Ids /\ aa \in SUBSET Ids
  BY <1>2 DEF Due, Owed, Owes, Ahead, Visible
<1>4. /\ IsFiniteSet(o) /\ IsFiniteSet(oo) /\ IsFiniteSet(a) /\ IsFiniteSet(aa)
      /\ Cardinality(o) \in Nat /\ Cardinality(oo) \in Nat /\ Cardinality(a) \in Nat /\ Cardinality(aa) \in Nat
  BY <1>3, RowsFinite
<1>5. o \subseteq oo => Cardinality(o) <= Cardinality(oo)
  BY <1>4, FS_Subset
<1>6. \A r : r \notin o /\ o \union {r} \subseteq oo => Cardinality(o) + 1 <= Cardinality(oo)
  <2>1. ASSUME NEW r, r \notin o, o \union {r} \subseteq oo PROVE Cardinality(o) + 1 <= Cardinality(oo)
    <3>1. IsFiniteSet(o \union {r}) /\ Cardinality(o \union {r}) = Cardinality(o) + 1
      BY <1>4, <2>1, FS_AddElement
    <3> QED BY <1>4, <2>1, <3>1, FS_Subset
  <2> QED BY <2>1
<1>7. \A r : o \ {r} \subseteq oo => Cardinality(o) <= Cardinality(oo) + 1
  <2>1. ASSUME NEW r, o \ {r} \subseteq oo PROVE Cardinality(o) <= Cardinality(oo) + 1
    <3>1. /\ IsFiniteSet(o \ {r})
          /\ Cardinality(o \ {r}) = IF r \in o THEN Cardinality(o) - 1 ELSE Cardinality(o)
      BY <1>4, FS_RemoveElement
    <3>2. Cardinality(o \ {r}) <= Cardinality(oo)
      BY <1>4, <2>1, FS_Subset
    <3> QED BY <1>4, <3>1, <3>2
  <2> QED BY <2>1
<1>8. aa \subseteq a => Cardinality(aa) <= Cardinality(a)
  BY <1>4, FS_Subset
<1>9. \A id : aa \subseteq a \union {id} => Cardinality(aa) <= Cardinality(a) + 1
  <2>1. ASSUME NEW id, aa \subseteq a \union {id} PROVE Cardinality(aa) <= Cardinality(a) + 1
    <3>1. /\ IsFiniteSet(a \union {id})
          /\ Cardinality(a \union {id}) = IF id \in a THEN Cardinality(a) ELSE Cardinality(a) + 1
      BY <1>4, FS_AddElement
    <3>2. Cardinality(aa) <= Cardinality(a \union {id})
      BY <2>1, <3>1, FS_Subset
    <3> QED BY <1>4, <3>1, <3>2
  <2> QED BY <2>1
<1>10. CASE aa = {}
  BY <1>2, <1>4, <1>10, FS_EmptySet
<1>11. CASE aa # {}
  <2>1. \/ unread'[u] = unread[u] /\ o \subseteq oo /\ aa \subseteq a
        \/ unread'[u] = unread[u] /\ \E id : id \notin o /\ o \union {id} \subseteq oo /\ aa \subseteq a \union {id}
        \/ unread'[u] = unread[u] + 1 /\ \E id : o \subseteq oo /\ aa \subseteq a \union {id}
        \/ unread'[u] = unread[u] + 1 /\ \E r : o \ {r} \subseteq oo /\ aa \subseteq a
    BY <1>2, <1>11 DEF Keeps
  <2>2. unread[u] + Cardinality(o) >= Cardinality(a)
    BY <1>2, <1>11 DEF Keeps
  <2>3. unread'[u] + Cardinality(oo) >= Cardinality(aa)
    <3>1. CASE unread'[u] = unread[u] /\ o \subseteq oo /\ aa \subseteq a
      BY <1>1, <1>4, <1>5, <1>8, <2>2, <3>1
    <3>2. CASE unread'[u] = unread[u] /\ \E id : id \notin o /\ o \union {id} \subseteq oo /\ aa \subseteq a \union {id}
      <4>1. Cardinality(o) + 1 <= Cardinality(oo) /\ Cardinality(aa) <= Cardinality(a) + 1
        BY <1>6, <1>9, <3>2
      <4> QED BY <1>1, <1>4, <2>2, <3>2, <4>1
    <3>3. CASE unread'[u] = unread[u] + 1 /\ \E id : o \subseteq oo /\ aa \subseteq a \union {id}
      <4>1. Cardinality(o) <= Cardinality(oo) /\ Cardinality(aa) <= Cardinality(a) + 1
        BY <1>5, <1>9, <3>3
      <4> QED BY <1>1, <1>4, <2>2, <3>3, <4>1
    <3>4. CASE unread'[u] = unread[u] + 1 /\ \E r : o \ {r} \subseteq oo /\ aa \subseteq a
      <4>1. Cardinality(o) <= Cardinality(oo) + 1 /\ Cardinality(aa) <= Cardinality(a)
        BY <1>7, <1>8, <3>4
      <4> QED BY <1>1, <1>4, <2>2, <3>4, <4>1
    <3> QED BY <2>1, <3>1, <3>2, <3>3, <3>4
  <2> QED BY <1>2, <2>3
<1> QED BY <1>10, <1>11

\* Steps of a handler that is no reading of u under way, and makes nothing visible.
LEMMA NothingNew ==
  ASSUME TypeOK, HandlersOK, NEW r \in Requests, Acts(r), NEW u \in Members,
         r \notin Reading(u), ~Inserts(r), ~CommitForward(r), CommitSealed(r) => req[r].id \in Visible
  PROVE  /\ Settled(u)' => Settled(u)
         /\ Due(u) \ {req[r].id} \subseteq Due(u)' /\ Ahead(u)' \subseteq Ahead(u)
         /\ r \notin Owed(u) \/ (r \in Owed(u)' /\ req'[r].id = req[r].id) => Due(u) \subseteq Due(u)'
<1>1. Ahead(u)' \subseteq Visible'
  BY DEF Ahead
<1> QED BY <1>1, NewlyVisible, OthersOwe

\* A handler owes from the row to the count: what it does meanwhile,
LEMMA OwesWhere ==
  ASSUME TypeOK, HandlersOK, NEW r \in Requests, Acts(r), Owes(r)
  PROVE  WriteBody(r) \/ CommitSealed(r) \/ Tell(r) \/ Spread(r) \/ Count(r) \/ UnknownDevice(r) \/ Die(r)
<1>1. /\ req[r].op \in {"socket", "http"} /\ req[r].id \in Visible
      /\ req[r].step \notin {"deliver", "look", "insert"}
  BY DEF Owes, HandlersOK, HandlerOK, Senders, Visible, Ids
<1>2. ~(\/ \E s \in Sends : Send(r, s) \/ Forward(r, s)
        \/ \E v \in Readers : Receive(r, v) \/ Read(r, v)
        \/ \E v \in Members, id \in Ids : Delete(r, v, id))
  <2>1. req[r] # Idle
    BY <1>1 DEF Idle
  <2> QED BY <2>1, Arrives
<1> QED BY <1>1, <1>2
        DEF Acts, Sending, Receipt, Look, Insert, CommitForward, Deliver, Zero, Peek, Raise, MarkRows,
            CommitDelete, At

\* and that it goes on owing.
LEMMA StillOwes ==
  ASSUME TypeOK, HandlersOK, NEW r \in Requests, Acts(r), Owes(r),
         WriteBody(r) \/ CommitSealed(r) \/ Tell(r) \/ Spread(r)
  PROVE  Owes(r)' /\ req'[r].id = req[r].id /\ req'[r].who = req[r].who /\ req'[r].send = req[r].send
<1>1. /\ req[r].op \in {"socket", "http"} /\ req[r].id \in Visible
      /\ req \in [Requests -> Handlers]
  BY DEF Owes, TypeOK
<1>2. PICK step \in {"commit", "tell", "spread", "count"} : Goto(r, step)
  BY DEF WriteBody, CommitSealed, Tell, Spread
<1>3. PICK x \in Handlers : req' = [req EXCEPT ![r] = x] /\ x.step = step /\ Onto(x, req[r])
  BY <1>2, GoesTo DEF Steps
<1>4. req[r].id \in Visible'
  BY <1>1, StillVisible
<1> QED BY <1>1, <1>3, <1>4 DEF Onto, Owes

\* A handler that arrives with a row that its author alone does not owe himself.
LEMMA RowArrives ==
  ASSUME TypeOK, HandlersOK, NEW r \in Requests, Acts(r), NEW u \in Members, NEW id \in Ids,
         Visible' \subseteq Visible \union {id}, r \notin Reading(u), r \notin Owed(u), rows'[id] # None,
         rows'[id].send = req[r].send, req[r].op \in Senders
  PROVE  /\ Settled(u)' => Settled(u)
         /\ Due(u) \subseteq Due(u)' /\ Ahead(u)' \subseteq Ahead(u) \union {id}
         /\ u = req[r].who => Ahead(u)' \subseteq Ahead(u)
<1>1. Ahead(u)' \subseteq Visible'
  BY DEF Ahead
<1>2. Ahead(u)' \subseteq Ahead(u) \union {id}
  BY <1>1, OthersOwe
<1>3. Author(id)' = req[r].who
  BY DEF Author, HandlersOK, HandlerOK
<1>4. u = req[r].who => id \notin Ahead(u)'
  BY <1>3 DEF Ahead
<1> QED BY <1>2, <1>4, OthersOwe

\* A step of a handler keeps the counter of a member it does not leave behind.
LEMMA KeepsStep ==
  ASSUME TypeOK, HandlersOK, NEW r \in Requests, Acts(r), NEW u \in Members \ torn'
  PROVE  Keeps(u)
<1>1. HandlerOK(r, req[r]) /\ req \in [Requests -> Handlers] /\ unread \in [Members -> Nat]
  BY DEF HandlersOK, TypeOK
<1>2. req[r].op \in Senders => r \notin Reading(u)
  BY DEF Reading, BetweenMarks, Senders
<1>3. r \in Owed(u) => req[r].op \in Senders /\ req[r].id \in Visible /\ req[r].who # u
  BY DEF Owed, Owes, Senders
<1>4. CASE Zero(r)
  <2>1. UNCHANGED rows /\ req[r].op = "read" /\ req[r].who \in Members
    BY <1>1, <1>4 DEF Zero, store, At, HandlerOK
  <2>2. r \notin Reading(u) /\ r \notin Owed(u)
    BY <1>3, <1>4, <2>1 DEF Zero, At, Reading, BetweenMarks, Senders
  <2>3. CASE u = req[r].who
    <3>1. PICK x \in Handlers : req' = [req EXCEPT ![r] = x] /\ x.step = "peek" /\ Onto(x, req[r])
      BY <1>4, GoesTo DEF Zero, At, AfterReceipt, Steps
    <3>2. r \in Reading(u)' /\ req'[r].step = "peek"
      BY <1>1, <2>1, <2>3, <3>1 DEF Onto, Reading, BetweenMarks
    <3> QED BY <3>2 DEF Settled, Keeps
  <2>4. CASE u # req[r].who
    <3>1. unread'[u] = unread[u]
      BY <1>1, <1>4, <2>4 DEF Zero
    <3>2. ~Inserts(r) /\ ~CommitForward(r) /\ ~CommitSealed(r)
      BY <1>4 DEF Zero, Inserts, CommitForward, CommitSealed, At, Senders
    <3> QED BY <2>2, <3>1, <3>2, NothingNew DEF Keeps
  <2> QED BY <2>3, <2>4
<1>5. CASE Peek(r)
  <2>1. PICK x \in Handlers : /\ Going(r, x) /\ x.op = req[r].op /\ x.who = req[r].who
                             /\ x.id = Last /\ x.step = "raise"
    BY <1>5, Peeks
  <2>2. UNCHANGED <<rows, unread>> /\ ~Inserts(r) /\ ~CommitForward(r) /\ ~CommitSealed(r)
    BY <1>5 DEF Peek, store, marks, Inserts, CommitForward, CommitSealed, At, Senders
  <2>3. r \notin Owed(u)
    BY <1>3, <1>5 DEF Peek, At, Senders
  <2>4. CASE r \in Reading(u)
    <3>1. r \in Reading(u)' /\ req'[r].id = Last
      BY <1>1, <2>1, <2>4 DEF Going, Reading, BetweenMarks
    <3>2. \A id \in Visible : id \in Int /\ Last \in Int /\ id <= Last
      BY LastIs DEF Visible, Ids
    <3>3. Visible' = Visible
      BY <2>2 DEF Visible
    <3>4. ASSUME NEW id \in Ahead(u)' PROVE FALSE
      BY <3>1, <3>2, <3>3, <3>4 DEF Ahead
    <3>5. Ahead(u)' = {}
      BY <3>4
    <3> QED BY <3>5 DEF Keeps
  <2>5. CASE r \notin Reading(u)
    BY <2>2, <2>3, <2>5, NothingNew DEF Keeps
  <2> QED BY <2>4, <2>5
<1>6. CASE Raise(r)
  <2>1. UNCHANGED <<rows, unread>> /\ ~Inserts(r) /\ ~CommitForward(r) /\ ~CommitSealed(r)
    BY <1>6 DEF Raise, store, Inserts, CommitForward, CommitSealed, At, Senders
  <2>2. r \notin Owed(u)
    BY <1>3, <1>6 DEF Raise, At, Senders
  <2>3. CASE r \in Reading(u)
    <3>1. req[r].op = "read" /\ req[r].who = u /\ req[r].step = "raise" /\ req[r].id \in 0..MaxRows
      BY <1>1, <1>6, <2>3 DEF Reading, BetweenMarks, Raise, At, Handlers
    <3>2. /\ seen \in [Members -> [delivered : 0..MaxRows, read : 0..MaxRows]] /\ MaxRows \in Nat
          /\ seen[u].read \in 0..MaxRows
      BY MessagesAssumption DEF TypeOK
    <3>3. PICK m \in 0..MaxRows : m = Further(seen[u].read, req[r].id) /\ m >= seen[u].read /\ m >= req[r].id
      BY <3>1, <3>2, FurtherIs
    <3>4. seen'[u].read = m
      BY <1>6, <3>1, <3>2, <3>3 DEF Raise
    <3>5. ASSUME NEW id \in Ahead(u)' PROVE id \in Ahead(u)
      <4>1. id \in Visible /\ Author(id) # u /\ id > m /\ id \in Int
        BY <2>1, <3>4, <3>5 DEF Ahead, Visible, Author, Ids
      <4>2. id > seen[u].read /\ id > req[r].id
        BY <3>1, <3>2, <3>3, <4>1
      <4>3. \A q \in Reading(u) : q # r => id > req[q].id
        BY <3>5, OthersOwe, OthersStay DEF Ahead, Reading
      <4> QED BY <4>1, <4>2, <4>3 DEF Ahead
    <3>6. Settled(u)' => Settled(u)
      BY <3>1, OthersOwe, OthersStay DEF Settled, Reading
    <3>7. Due(u) \subseteq Due(u)'
      BY <2>2, OthersOwe
    <3> QED BY <2>1, <3>5, <3>6, <3>7 DEF Keeps
  <2>4. CASE r \notin Reading(u)
    BY <2>1, <2>2, <2>4, NothingNew DEF Keeps
  <2> QED BY <2>3, <2>4
<1>7. CASE UnknownDevice(r) \/ Die(r)
  <2>1. u \notin Shorted(r)
    BY <1>7 DEF UnknownDevice, Die
  <2>2. r \notin Reading(u)
    BY <2>1 DEF Shorted, Reading
  <2>3. r \notin Owed(u)
    BY <2>1 DEF Shorted, Owed, Others
  <2>4. UNCHANGED <<lastId, unread>>
    BY <1>7 DEF UnknownDevice, Die, marks
  <2>5. ~Inserts(r)
    <3>1. lastId + 1 # lastId
      BY MessagesAssumption DEF TypeOK
    <3> QED BY <2>4, <3>1 DEF Inserts, NewRow
  <2>6. ~CommitForward(r) /\ (CommitSealed(r) => req[r].id \in Visible)
    <3>1. ASSUME CommitForward(r) \/ CommitSealed(r), req[r].id \notin Visible PROVE FALSE
      <4>1. /\ req[r].id \in Ids /\ rows[req[r].id] # None /\ rows'[req[r].id] # None
            /\ rows[req[r].id].open \in {None, r}
        BY <3>1, Commits
      <4>2. rows[req[r].id].open = r
        BY <3>1, <4>1 DEF Visible
      <4> QED BY <1>7, <4>1, <4>2, RowsDropped DEF UnknownDevice, Die
    <3>2. CommitForward(r) => req[r].id \notin Visible
      <4>1. ASSUME CommitForward(r) PROVE rows[req[r].id].open = r /\ r # None
        BY <4>1, Commits, MessagesAssumption DEF CommitForward, At
      <4> QED BY <4>1 DEF Visible
    <3> QED BY <3>1, <3>2
  <2> QED BY <2>2, <2>3, <2>4, <2>5, <2>6, NothingNew DEF Keeps
<1>8. CASE Inserts(r)
  <2>1. r \notin Reading(u) /\ r \notin Owed(u) /\ req[r].op \in Senders
    <3>1. req[r].op \in Senders /\ req[r].id \notin Ids
      BY <1>1, <1>8 DEF Inserts, At, HandlerOK, Ids
    <3> QED BY <1>2, <1>3, <3>1 DEF Visible
  <2>2. unread' = unread
    <3>1. req[r].id \notin Ids /\ ~Zero(r)
      BY <1>1, <1>8 DEF Inserts, At, HandlerOK, Ids, Zero, Senders
    <3> QED BY <3>1, HistoryStep
  <2>3. CASE Within(req[r])
    <3>1. Ahead(u)' \subseteq Visible'
      BY DEF Ahead
    <3>2. ~CommitSealed(r) /\ ~CommitForward(r)
      BY <1>8 DEF Inserts, CommitSealed, CommitForward, At
    <3>3. Ahead(u)' \subseteq Ahead(u)
      BY <2>1, <2>3, <3>1, <3>2, NewlyVisible, OthersOwe
    <3> QED BY <2>1, <2>2, <3>3, OthersOwe DEF Keeps
  <2>4. CASE ~Within(req[r])
    <3>1. PICK id \in Ids : id = lastId + 1
      BY <1>8, Inserted
    <3>2. ~CommitSealed(r) /\ ~CommitForward(r)
      BY <1>8 DEF Inserts, CommitSealed, CommitForward, At
    <3>3. Visible' \subseteq Visible \union {id}
      BY <3>1, <3>2, NewlyVisible
    <3>4. /\ rows'[id] # None /\ rows'[id].send = req[r].send /\ rows'[id].open = None
          /\ \E x \in Handlers : /\ req' = [req EXCEPT ![r] = x] /\ x.op = req[r].op /\ x.who = req[r].who
                                 /\ x.id = id /\ x.step # "deliver"
      BY <1>8, <2>4, <3>1, Inserted DEF Going
    <3>5. /\ Settled(u)' => Settled(u)
          /\ Due(u) \subseteq Due(u)' /\ Ahead(u)' \subseteq Ahead(u) \union {id}
          /\ u = req[r].who => Ahead(u)' \subseteq Ahead(u)
      BY <2>1, <3>3, <3>4, RowArrives
    <3>6. u # req[r].who => r \in Owed(u)' /\ req'[r].id = id
      <4>1. req[r].op \in {"socket", "http"}
        BY <2>1, <2>4 DEF Within, Senders
      <4>2. id \in Visible'
        BY <3>4 DEF Visible
      <4> QED BY <1>1, <3>4, <4>1, <4>2 DEF Owed, Owes
    <3>7. CASE u = req[r].who
      BY <2>2, <3>5, <3>7 DEF Keeps
    <3>8. CASE u # req[r].who
      <4>1. Due(u) \union {id} \subseteq Due(u)'
        BY <3>5, <3>6, <3>8 DEF Due
      <4>2. id \notin Due(u)
        <5>1. id \notin Visible
          BY <1>8, <3>1, Inserted DEF Visible
        <5> QED BY <5>1 DEF Due, Owed, Owes
      <4> QED BY <2>2, <3>5, <4>1, <4>2 DEF Keeps
    <3> QED BY <3>7, <3>8
  <2> QED BY <2>3, <2>4
<1>9. CASE CommitSealed(r) /\ req[r].id \notin Visible
  <2>1. PICK id \in Ids : /\ id = req[r].id /\ rows[id] # None /\ rows'[id] # None /\ rows'[id].open = None
                          /\ rows'[id].send = req[r].send
    BY <1>9, Commits
  <2>2. r \notin Reading(u) /\ r \notin Owed(u) /\ req[r].op = "socket"
    BY <1>2, <1>3, <1>9 DEF CommitSealed, At, Senders
  <2>3. unread' = unread /\ ~Inserts(r) /\ ~CommitForward(r)
    BY <1>9 DEF CommitSealed, CommitForward, Inserts, At, marks
  <2>4. Visible' \subseteq Visible \union {id}
    BY <2>1, <2>3, NewlyVisible
  <2>5. /\ Settled(u)' => Settled(u)
        /\ Due(u) \subseteq Due(u)' /\ Ahead(u)' \subseteq Ahead(u) \union {id}
        /\ u = req[r].who => Ahead(u)' \subseteq Ahead(u)
    BY <2>1, <2>2, <2>4, RowArrives DEF Senders
  <2>6. u # req[r].who => r \in Owed(u)' /\ req'[r].id = id
    <3>1. PICK x \in Handlers : req' = [req EXCEPT ![r] = x] /\ x.step = "tell" /\ Onto(x, req[r])
      BY <1>9, GoesTo DEF CommitSealed, Steps
    <3>2. id \in Visible'
      BY <2>1 DEF Visible
    <3> QED BY <1>1, <1>9, <2>1, <2>2, <3>1, <3>2 DEF Owed, Owes, Onto
  <2>7. CASE u = req[r].who
    BY <2>3, <2>5, <2>7 DEF Keeps
  <2>8. CASE u # req[r].who
    <3>1. Due(u) \union {id} \subseteq Due(u)'
      BY <2>5, <2>6, <2>8 DEF Due
    <3>2. id \notin Due(u)
      BY <1>9, <2>1 DEF Due, Owed, Owes
    <3> QED BY <2>3, <2>5, <3>1, <3>2 DEF Keeps
  <2> QED BY <2>7, <2>8
<1>10. CASE CommitForward(r)
  <2>1. PICK id \in Ids : id = req[r].id /\ rows'[id] # None /\ rows'[id].send = req[r].send
    BY <1>10, Commits
  <2>2. r \notin Reading(u) /\ r \notin Owed(u) /\ req[r].op = "forward" /\ req[r].who = AuthorOf[req[r].send]
    BY <1>1, <1>2, <1>10 DEF CommitForward, At, Senders, Owed, Owes, HandlerOK
  <2>3. ~Inserts(r) /\ ~CommitSealed(r)
    BY <1>10 DEF CommitSealed, CommitForward, Inserts, At
  <2>4. Visible' \subseteq Visible \union {id}
    BY <2>1, <2>3, NewlyVisible
  <2>5. /\ Settled(u)' => Settled(u)
        /\ Due(u) \subseteq Due(u)' /\ Ahead(u)' \subseteq Ahead(u) \union {id}
        /\ u = req[r].who => Ahead(u)' \subseteq Ahead(u)
    BY <2>1, <2>2, <2>4, RowArrives DEF Senders
  <2>6. unread'[u] = IF u = req[r].who THEN unread[u] ELSE unread[u] + 1
    BY <1>10, <2>2 DEF CommitForward, Counted
  <2>7. CASE u = req[r].who
    BY <2>5, <2>6, <2>7 DEF Keeps
  <2>8. CASE u # req[r].who
    BY <2>5, <2>6, <2>8 DEF Keeps
  <2> QED BY <2>7, <2>8
<1>11. CASE Count(r)
  <2>1. req[r].op \in Senders /\ r \notin Reading(u) /\ req[r].who = AuthorOf[req[r].send]
    BY <1>1, <1>2, <1>11 DEF Count, At, Senders, HandlerOK
  <2>2. ~Inserts(r) /\ ~CommitSealed(r) /\ ~CommitForward(r)
    BY <1>11 DEF CommitSealed, CommitForward, Inserts, Count, At
  <2>3. /\ (Settled(u)' => Settled(u)) /\ Due(u) \ {req[r].id} \subseteq Due(u)' /\ Ahead(u)' \subseteq Ahead(u)
        /\ r \notin Owed(u) => Due(u) \subseteq Due(u)'
    BY <2>1, <2>2, NothingNew
  <2>4. unread'[u] = IF u = req[r].who THEN unread[u] ELSE unread[u] + 1
    BY <1>11, <2>1 DEF Count, Counted
  <2>5. CASE u = req[r].who
    <3>1. r \notin Owed(u)
      BY <1>3, <2>5
    <3> QED BY <2>3, <2>4, <2>5, <3>1 DEF Keeps
  <2>6. CASE u # req[r].who
    BY <2>3, <2>4, <2>6 DEF Keeps
  <2> QED BY <2>5, <2>6
<1>12. CASE ~(\/ Zero(r) \/ Peek(r) \/ Raise(r) \/ UnknownDevice(r) \/ Die(r) \/ Inserts(r)
             \/ (CommitSealed(r) /\ req[r].id \notin Visible) \/ CommitForward(r) \/ Count(r))
  <2>1. unread' = unread
    BY <1>12 DEF Acts, Sending, Receipt, Send, Forward, Receive, Read, Delete, Look, Insert, WriteBody, CommitSealed,
                 Tell, Spread, Deliver, MarkRows, CommitDelete, marks
  <2>2. r \in Owed(u) => r \in Owed(u)' /\ req'[r].id = req[r].id
    BY <1>12, OwesWhere, StillOwes DEF Owed
  <2>3. CASE r \notin Reading(u)
    BY <1>12, <2>1, <2>2, <2>3, NothingNew DEF Keeps
  <2>4. CASE r \in Reading(u)
    <3>1. MarkRows(r)
      <4>1. req[r].op = "read" /\ req[r].step \notin {"zero", "rows"}
        BY <2>4 DEF Reading, BetweenMarks
      <4>2. ~(\/ \E s \in Sends : Send(r, s) \/ Forward(r, s)
              \/ \E v \in Readers : Receive(r, v) \/ Read(r, v)
              \/ \E v \in Members, id \in Ids : Delete(r, v, id))
        <5>1. req[r] # Idle
          BY <4>1 DEF Idle
        <5> QED BY <5>1, Arrives
      <4>3. ~CommitSealed(r)
        BY <4>1 DEF CommitSealed, At
      <4>4. ~(Look(r) \/ Insert(r) \/ WriteBody(r) \/ Tell(r) \/ Spread(r) \/ Deliver(r) \/ CommitDelete(r))
        BY <4>1 DEF Look, Insert, WriteBody, Tell, Spread, Deliver, CommitDelete, At
      <4> QED BY <1>12, <4>2, <4>3, <4>4 DEF Acts, Sending, Receipt
    <3> QED BY <2>4, <3>1 DEF MarkRows, At, Reading, BetweenMarks
  <2> QED BY <2>3, <2>4
<1> QED BY <1>4, <1>5, <1>6, <1>7, <1>8, <1>9, <1>10, <1>11, <1>12

\* The counters stay above what is ahead of the marks.
LEMMA KeptStays ==
  ASSUME TypeOK, HandlersOK, Kept, Next PROVE Kept'
<1> SUFFICES ASSUME NEW u \in Members \ torn', Settled(u)'
             PROVE  unread'[u] + Cardinality(Due(u)') >= Cardinality(Ahead(u)')
  BY DEF Kept, Settled
<1>1. unread'[u] \in Nat
  BY RestTyped
<1>2. u \in Members \ torn
  BY DEF Next, Sending, Receipt, Send, Forward, Receive, Read, Delete, Look, Insert, WriteBody, CommitSealed,
         Tell, Spread, Count, CommitForward, Deliver, Zero, Peek, Raise, MarkRows, CommitDelete,
         UnknownDevice, Die, CatchUp, FirstCursor, NextDeletions, history
<1>3. Settled(u) => unread[u] + Cardinality(Due(u)) >= Cardinality(Ahead(u))
  BY <1>2 DEF Kept, Settled
<1>4. Keeps(u)
  <2>1. ASSUME NEW r \in Requests, Acts(r) PROVE Keeps(u)
    BY <2>1, KeepsStep
  <2>2. ASSUME NEW v \in Readers, CatchUp(v) PROVE Keeps(u)
    <3>1. UNCHANGED <<rows, unread, seen, req>>
      BY <2>2, CatchUpStays
    <3>2. UNCHANGED <<Due(u), Reading(u)>>
      BY <3>1 DEF Due, Owed, Reading, Owes, BetweenMarks, Visible
    <3>3. Ahead(u)' = Ahead(u) /\ Settled(u)' = Settled(u)
      BY <3>1, <3>2 DEF Ahead, Settled, Visible, Author
    <3> QED BY <3>1, <3>2, <3>3 DEF Keeps
  <2> QED BY <2>1, <2>2, Actors
<1> QED BY <1>1, <1>3, <1>4, KeptIf
-----------------------------------------------------------------------------
(* No send is left unheard                                                 *)

\* A handler that has an announcement to make makes it, goes on towards it, or is cut.
LEMMA AnnouncesOn ==
  ASSUME TypeOK, HandlersOK, NEW r \in Requests, Acts(r), Announces(r), req[r].send \notin cut'
  PROVE  heard'[req[r].send] > 0 \/ (Announces(r)' /\ req'[r].send = req[r].send)
<1>1. /\ req[r].op \in Senders /\ req[r].id \in Visible /\ req[r].send \in Sends
      /\ req[r].step \notin {"look", "insert"} /\ req \in [Requests -> Handlers]
      /\ heard \in [Sends -> Nat] /\ ~(req[r].op = "socket" /\ req[r].step = "count")
  BY DEF Announces, HandlersOK, HandlerOK, Visible, Ids, TypeOK
<1>2. ~(\/ \E s \in Sends : Send(r, s) \/ Forward(r, s)
        \/ \E v \in Readers : Receive(r, v) \/ Read(r, v)
        \/ \E v \in Members, id \in Ids : Delete(r, v, id))
  <2>1. req[r] # Idle
    BY <1>1 DEF Idle, Senders
  <2> QED BY <2>1, Arrives
<1>3. ~(UnknownDevice(r) \/ Die(r))
  BY <1>1 DEF UnknownDevice, Die, HalfTold, Senders
<1>4. ~(Look(r) \/ Insert(r) \/ Receipt(r) \/ CommitDelete(r))
  BY <1>1 DEF Look, Insert, Receipt, Zero, Peek, Raise, MarkRows, CommitDelete, At, Senders
<1>5. ASSUME Announce(req[r].send) PROVE heard'[req[r].send] > 0
  BY <1>1, <1>5 DEF Announce
<1>6. \/ Announce(req[r].send)
      \/ \E step \in Steps : Goto(r, step) /\ ~(req[r].op = "socket" /\ step = "count")
  <2>1. CASE WriteBody(r)
    <3>1. req[r].op = "socket" => InTransaction(r)
      BY <1>1, <2>1 DEF WriteBody, At, HandlersOK, HandlerOK, InTransaction, Sealed
    <3>2. (Goto(r, "commit") /\ InTransaction(r)) \/ (Goto(r, "count") /\ ~InTransaction(r))
      BY <2>1 DEF WriteBody
    <3> QED BY <3>1, <3>2 DEF Steps
  <2>2. CASE CommitSealed(r) \/ CommitForward(r)
    BY <2>2 DEF CommitSealed, CommitForward, Steps
  <2>3. CASE Tell(r) \/ Spread(r) \/ Deliver(r)
    BY <2>3 DEF Tell, Spread, Deliver, Steps
  <2>4. CASE Count(r)
    BY <1>1, <2>4 DEF Count, At, Steps
  <2> QED BY <1>2, <1>3, <1>4, <2>1, <2>2, <2>3, <2>4 DEF Acts, Sending
<1>7. ASSUME NEW step \in Steps, Goto(r, step), ~(req[r].op = "socket" /\ step = "count")
      PROVE  Announces(r)' /\ req'[r].send = req[r].send
  <2>1. PICK x \in Handlers : req' = [req EXCEPT ![r] = x] /\ x.step = step /\ Onto(x, req[r])
    BY <1>7, GoesTo
  <2>2. req[r].id \in Visible'
    BY <1>1, StillVisible
  <2> QED BY <1>1, <1>7, <2>1, <2>2 DEF Onto, Announces
<1> QED BY <1>5, <1>6, <1>7

\* One that has a row to count counts it, goes on towards it, or is cut.
LEMMA OwesOn ==
  ASSUME TypeOK, HandlersOK, NEW r \in Requests, Acts(r), Owes(r), req[r].send \notin cut'
  PROVE  counted'[req[r].send] > 0 \/ (Owes(r)' /\ req'[r].send = req[r].send)
<1>1. /\ req[r].op \in {"socket", "http"} /\ req[r].id \in Visible /\ req[r].send \in Sends
      /\ counted \in [Sends -> Nat]
  BY DEF Owes, HandlersOK, HandlerOK, Senders, TypeOK
<1>2. ~(UnknownDevice(r) \/ Die(r))
  BY <1>1 DEF UnknownDevice, Die, HalfTold
<1>3. ASSUME Count(r) PROVE counted'[req[r].send] > 0
  BY <1>1, <1>3 DEF Count, Counted
<1> QED BY <1>2, <1>3, OwesWhere, StillOwes

\* A send that is acknowledged has its row there.
LEMMA Acknowledged ==
  ASSUME TypeOK, HandlersOK, NEW r \in Requests, Acts(r), NEW s \in outbox, s \notin outbox', s \notin Forwards
  PROVE  There(s)
<1>1. ~(\E q \in Sends : Forward(r, q))
  BY DEF Forward
<1>2. Look(r) \/ Tell(r) \/ Deliver(r)
  BY <1>1 DEF Acts, Sending, Receipt, Send, Receive, Read, Delete, Insert, WriteBody, CommitSealed,
         Spread, Count, CommitForward, Zero, Peek, Raise, MarkRows, CommitDelete, UnknownDevice, Die
<1>3. s = req[r].send
  BY <1>2 DEF Look, Tell, Deliver, Acknowledge
<1>4. CASE Look(r)
  BY <1>3, <1>4 DEF Look, There
<1>5. CASE Tell(r) \/ Deliver(r)
  <2>1. req[r].op \in Senders /\ req[r].step \in {"tell", "deliver"} /\ r # None
    BY <1>5, MessagesAssumption DEF Tell, Deliver, At, Senders
  <2>2. req[r].id \in Ids /\ rows[req[r].id] # None /\ rows[req[r].id].open = None /\ rows[req[r].id].send = s
    BY <1>3, <2>1 DEF HandlersOK, HandlerOK, RowOK
  <2> QED BY <2>2 DEF There, Visible
<1> QED BY <1>2, <1>4, <1>5

\* A row that becomes visible comes with a handler that will announce it, and has it counted or will.
LEMMA NewIsTold ==
  ASSUME TypeOK, HandlersOK, NEW r \in Requests, Acts(r), NEW id \in Visible', id \notin Visible
  PROVE  /\ req'[r].send = rows'[id].send /\ Announces(r)'
         /\ Owes(r)' \/ counted'[rows'[id].send] > 0
<1>1. HandlerOK(r, req[r]) /\ req \in [Requests -> Handlers] /\ counted \in [Sends -> Nat]
  BY DEF HandlersOK, TypeOK
<1>2. CASE Inserts(r) /\ id = lastId + 1 /\ ~Within(req[r])
  <2>1. PICK x \in Handlers :
          /\ Going(r, x) /\ x.op = req[r].op /\ x.send = req[r].send /\ x.id = lastId + 1
          /\ x.step \notin {"deliver", "look", "insert"} /\ (x.op = "socket" => x.step # "count")
    BY <1>2, Inserted
  <2>2. rows'[id].send = req[r].send /\ req[r].op \in {"socket", "http"}
    BY <1>2, Inserted DEF Inserts, At, Within, Senders
  <2> QED BY <1>1, <1>2, <2>1, <2>2 DEF Going, Announces, Owes, Senders
<1>3. CASE (CommitSealed(r) \/ CommitForward(r)) /\ id = req[r].id
  <2>1. rows'[id].send = req[r].send /\ req[r].send \in Sends
    BY <1>1, <1>3, Commits DEF HandlerOK, CommitSealed, CommitForward, At, Senders
  <2>2. CASE CommitSealed(r)
    <3>1. PICK x \in Handlers : req' = [req EXCEPT ![r] = x] /\ x.step = "tell" /\ Onto(x, req[r])
      BY <2>2, GoesTo DEF CommitSealed, Steps
    <3> QED BY <1>1, <1>3, <2>1, <2>2, <3>1 DEF Onto, Announces, Owes, Senders, CommitSealed, At
  <2>3. CASE CommitForward(r)
    <3>1. PICK x \in Handlers : req' = [req EXCEPT ![r] = x] /\ x.step = "deliver" /\ Onto(x, req[r])
      BY <2>3, GoesTo DEF CommitForward, Steps
    <3>2. counted'[req[r].send] > 0
      BY <1>1, <2>1, <2>3 DEF CommitForward, Counted
    <3> QED BY <1>1, <1>3, <2>1, <2>3, <3>1, <3>2 DEF Onto, Announces, Senders, CommitForward, At
  <2> QED BY <1>3, <2>2, <2>3
<1> QED BY <1>2, <1>3, NewlyVisible

\* So every send is heard of and counted in the end, or has a handler that sees to it.
LEMMA ToldStays ==
  ASSUME TypeOK, HandlersOK, Told, Next PROVE Told'
<1>1. ASSUME NEW r \in Requests, Acts(r) PROVE Told'
  <2>1. /\ heard \in [Sends -> Nat] /\ counted \in [Sends -> Nat]
        /\ heard' \in [Sends -> Nat] /\ counted' \in [Sends -> Nat]
    BY RestTyped DEF TypeOK
  <2>2. ASSUME NEW id \in Visible PROVE id \in Visible' /\ rows'[id].send = rows[id].send
    <3>1. id \in Ids /\ rows[id] # None /\ rows[id].open # r
      BY <2>2, MessagesAssumption DEF Visible
    <3> QED BY <1>1, <2>2, <3>1, RowKept, StillVisible
  <2>3. ASSUME NEW s, There(s) PROVE There(s)'
    BY <2>2, <2>3 DEF There
  <2>4. \A s \in Sends : heard'[s] >= heard[s] /\ counted'[s] >= counted[s]
    <3>1. ASSUME NEW s \in Sends, Hears(r) PROVE heard'[s] >= heard[s]
      BY <2>1, <3>1 DEF Hears
    <3>2. ASSUME NEW s \in Sends, Adds(r) PROVE counted'[s] >= counted[s]
      BY <2>1, <3>2 DEF Adds, Counted
    <3> QED BY <1>1, <2>1, <3>1, <3>2, HistoryStep
  <2>5. ASSUME NEW s \in Sends, heard'[s] > 0 \/ counted'[s] > 0 \/ s \notin outbox' \union Forwards PROVE There(s)'
    <3>1. CASE heard[s] > 0 \/ counted[s] > 0 \/ s \notin outbox \union Forwards
      <4>1. There(s)
        BY <3>1 DEF Told
      <4> QED BY <2>3, <4>1
    <3>2. CASE heard[s] = 0 /\ counted[s] = 0 /\ s \in outbox \union Forwards
      <4>1. CASE s \notin outbox' \union Forwards
        <5>1. There(s)
          BY <1>1, <3>2, <4>1, Acknowledged
        <5> QED BY <2>3, <5>1
      <4>2. CASE heard'[s] > 0 \/ counted'[s] > 0
        <5>1. (Hears(r) \/ Adds(r)) /\ s = req[r].send
          <6>1. Hears(r) /\ s # req[r].send => heard'[s] = heard[s]
            BY <2>1 DEF Hears
          <6>2. Adds(r) /\ s # req[r].send => counted'[s] = counted[s]
            BY <2>1 DEF Adds, Counted
          <6> QED BY <1>1, <3>2, <4>2, <6>1, <6>2, HistoryStep
        <5>2. PICK id \in Ids : rows'[id] # None /\ rows'[id].send = s /\ rows'[id].open = None
          BY <1>1, <5>1, HistoryStep
        <5> QED BY <5>2 DEF There, Visible
      <4> QED BY <2>5, <4>1, <4>2
    <3> QED BY <2>1, <3>1, <3>2
  <2>6. ASSUME NEW s \in Sends \ cut', There(s)'
        PROVE  /\ heard'[s] > 0   \/ \E q \in Requests : req'[q].send = s /\ Announces(q)'
               /\ counted'[s] > 0 \/ \E q \in Requests : req'[q].send = s /\ Owes(q)'
    <3>1. s \notin cut
      BY <1>1, <2>6 DEF Acts, Sending, Receipt, Send, Forward, Receive, Read, Delete, Look, Insert, WriteBody,
             CommitSealed, Tell, Spread, Count, CommitForward, Deliver, Zero, Peek, Raise, MarkRows, CommitDelete,
             UnknownDevice, Die, history
    <3>2. ASSUME NEW q \in Requests, q # r, Announces(q) PROVE Announces(q)' /\ req'[q].send = req[q].send
      BY <1>1, <2>2, <3>2, OthersStay DEF Announces
    <3>3. ASSUME NEW q \in Requests, q # r, Owes(q) PROVE Owes(q)' /\ req'[q].send = req[q].send
      BY <1>1, <2>2, <3>3, OthersStay DEF Owes
    <3>4. CASE There(s)
      <4>1. /\ heard[s] > 0   \/ \E q \in Requests : req[q].send = s /\ Announces(q)
            /\ counted[s] > 0 \/ \E q \in Requests : req[q].send = s /\ Owes(q)
        BY <2>6, <3>1, <3>4 DEF Told
      <4>2. ASSUME NEW q \in Requests, req[q].send = s, Announces(q)
            PROVE  heard'[s] > 0 \/ (req'[q].send = s /\ Announces(q)')
        BY <1>1, <2>6, <3>2, <4>2, AnnouncesOn
      <4>3. ASSUME NEW q \in Requests, req[q].send = s, Owes(q)
            PROVE  counted'[s] > 0 \/ (req'[q].send = s /\ Owes(q)')
        BY <1>1, <2>6, <3>3, <4>3, OwesOn
      <4>4. (heard[s] > 0 => heard'[s] > 0) /\ (counted[s] > 0 => counted'[s] > 0)
        BY <2>1, <2>4
      <4> QED BY <4>1, <4>2, <4>3, <4>4
    <3>5. CASE ~There(s)
      <4>1. PICK id \in Visible' : rows'[id].send = s /\ id \notin Visible
        BY <2>2, <2>6, <3>5 DEF There
      <4> QED BY <1>1, <4>1, NewIsTold
    <3> QED BY <3>4, <3>5
  <2> QED BY <2>5, <2>6 DEF Told
<1>2. ASSUME NEW u \in Readers, CatchUp(u) PROVE Told'
  BY <1>2, CatchUpStays DEF Told, Announces, Owes, There, Visible
<1> QED BY <1>1, <1>2, Actors
-----------------------------------------------------------------------------
(* The invariant                                                           *)

\* Nothing is sent or in flight at first.
LEMMA Initially ==
  ASSUME Init PROVE Inv
<1> USE DEF Init
<1>1. MaxRows \in Nat /\ MaxTombs \in Nat /\ MaxFaults \in Nat
  BY MessagesAssumption
<1>2. Idle \in Handlers
  BY <1>1 DEF Idle, Handlers, Ops
<1>3. TypeOK
  <2>1. /\ rows \in [Ids -> Rows \union {None}] /\ tombs \in [TombIds -> Tombs \union {None}]
        /\ lastId \in 0..MaxRows /\ lastTomb \in 0..MaxTombs /\ faults \in 0..MaxFaults
    BY <1>1
  <2>2. unread \in [Members -> Nat]
    OBVIOUS
  <2>3. seen \in [Members -> [delivered : 0..MaxRows, read : 0..MaxRows]]
    BY <1>1
  <2>4. phone \in [Members -> [cursor : TombIds \union {0, None}, gone : SUBSET Ids]]
    OBVIOUS
  <2>5. req \in [Requests -> Handlers]
    BY <1>2
  <2>6. /\ outbox \subseteq Sends /\ heard \in [Sends -> Nat] /\ counted \in [Sends -> Nat]
        /\ torn \subseteq Members /\ cut \subseteq Sends
        /\ \A id \in Ids : rows[id] = None
    OBVIOUS
  <2> QED BY <2>1, <2>2, <2>3, <2>4, <2>5, <2>6 DEF TypeOK
<1>4. HandlersOK
  <2>1. \A r \in Requests : HandlerOK(r, Idle)
    BY MessagesAssumption DEF HandlerOK, PointOK, RowOK, Idle, Senders, Steps
  <2> QED BY <2>1 DEF HandlersOK
<1>5. OneRow /\ OneForward
  BY DEF OneRow, OneForward, Idle
<1>6. Told
  <2>1. Visible = {}
    BY DEF Visible
  <2> QED BY <2>1 DEF Told, There
<1>8. Kept
  <2>1. ASSUME NEW u \in Members PROVE Ahead(u) = {} /\ Due(u) = {}
    BY DEF Ahead, Visible, Due, Owed, Owes, Idle
  <2>2. Cardinality({}) = 0
    BY FS_EmptySet
  <2>3. ASSUME NEW u \in Members PROVE unread[u] + Cardinality(Due(u)) >= Cardinality(Ahead(u))
    <3>1. unread[u] = 0 /\ Cardinality(Due(u)) = 0 /\ Cardinality(Ahead(u)) = 0
      BY <2>1, <2>2
    <3> QED BY <3>1
  <2> QED BY <2>3 DEF Kept
<1> QED BY <1>3, <1>4, <1>5, <1>6, <1>8 DEF Inv

\* Every step keeps the invariant.
LEMMA Inductive ==
  ASSUME Inv, [Next]_vars PROVE Inv'
<1>1. CASE Next
  <2>1. TypeOK' /\ HandlersOK'
    BY <1>1, TypeStays, HandlersStay DEF Inv
  <2>2. OneRow' /\ OneForward'
    BY <1>1, OneRowStays, OneForwardStays DEF Inv
  <2>3. Told' /\ Kept'
    BY <1>1, ToldStays, KeptStays DEF Inv
  <2> QED BY <2>1, <2>2, <2>3 DEF Inv
<1>2. CASE UNCHANGED vars
  <2>1. UNCHANGED <<rows, lastId, tombs, lastTomb, unread, seen, phone, outbox, req, heard, counted, torn, cut, faults>>
    BY <1>2 DEF vars, store, marks, history
  <2>2. TypeOK'
    BY <2>1 DEF Inv, TypeOK
  <2>3. HandlersOK'
    BY <2>1 DEF Inv, HandlersOK, HandlerOK, RowOK
  <2>4. OneRow' /\ OneForward'
    BY <2>1 DEF Inv, OneRow, OneForward
  <2>5. Told'
    BY <2>1 DEF Inv, Told, Announces, Owes, There, Visible
  <2>7. Kept'
    <3>1. \A u \in Members : Due(u)' = Due(u) /\ Reading(u)' = Reading(u)
      BY <2>1 DEF Due, Owed, Reading, Owes, BetweenMarks, Visible
    <3>2. \A u \in Members : Ahead(u)' = Ahead(u)
      BY <2>1, <3>1 DEF Ahead, Visible, Author
    <3> QED BY <2>1, <3>1, <3>2 DEF Inv, Kept
  <2> QED BY <2>2, <2>3, <2>4, <2>5, <2>7 DEF Inv
<1> QED BY <1>1, <1>2

\* So it holds always.
LEMMA Always == Spec => []Inv
  BY Initially, Inductive, PTL DEF Spec
-----------------------------------------------------------------------------
(* What it says of the messages                                            *)

\* The state is well-typed, and a row not yet committed belongs to a handler inside its transaction.
THEOREM TypeCorrect == Spec => []TypeOK
  BY Always, PTL DEF Inv

\* However a send is tried, cut short and tried again, by the socket and over HTTP, it makes one row; nobody
\* hears of a row that is not committed, and a committed one is announced and counted once its handlers have
\* ended, unless one was cut half-way.
THEOREM SentIsHeardAlways == Spec => []SentIsHeard
<1>1. ASSUME Inv, NEW s \in Sends
      PROVE  LET mine == {id \in Ids : rows[id] # None /\ rows[id].send = s} IN
             /\ \A i, j \in mine : i = j
             /\ heard[s] > 0 \/ counted[s] > 0 \/ s \notin outbox \union Forwards => mine \intersect Visible # {}
             /\ s \notin outbox \union cut /\ mine \intersect Visible # {} /\ (\A r \in Requests : req[r].send # s) =>
                  heard[s] > 0 /\ counted[s] > 0
  <2> DEFINE mine == {id \in Ids : rows[id] # None /\ rows[id].send = s}
  <2>1. \A i, j \in mine : i = j
    BY <1>1 DEF Inv, OneRow
  <2>2. There(s) <=> mine \intersect Visible # {}
    BY DEF There, Visible
  <2> HIDE DEF mine
  <2>3. heard[s] > 0 \/ counted[s] > 0 \/ s \notin outbox \union Forwards => mine \intersect Visible # {}
    BY <1>1, <2>2 DEF Inv, Told
  <2>4. s \notin outbox \union cut /\ mine \intersect Visible # {} /\ (\A r \in Requests : req[r].send # s) =>
          heard[s] > 0 /\ counted[s] > 0
    BY <1>1, <2>2 DEF Inv, Told
  <2> QED BY <2>1, <2>3, <2>4 DEF mine
<1>2. Inv => SentIsHeard
  BY <1>1 DEF SentIsHeard
<1> QED BY <1>2, Always, PTL

\* Whatever arrives while a member reads stays in its unread counter, or is owed to it by a handler that runs.
THEOREM UnreadAlways == Spec => []UnreadKept
<1>1. ASSUME Inv PROVE UnreadKept
  <2> SUFFICES ASSUME NEW u \in Members \ torn, \A r \in Requests : req[r].who = u => ~BetweenMarks(r)
               PROVE  unread[u] + Cardinality({req[r].id : r \in {r \in Requests : req[r].who # u /\ Owes(r)}})
                        >= Cardinality({id \in Visible : Author(id) # u /\ id > seen[u].read})
    BY DEF UnreadKept
  <2>1. Reading(u) = {}
    BY DEF Reading
  <2>2. Ahead(u) = {id \in Visible : Author(id) # u /\ id > seen[u].read}
    BY <2>1 DEF Ahead
  <2>3. Due(u) = {req[r].id : r \in {r \in Requests : req[r].who # u /\ Owes(r)}}
    BY DEF Due, Owed
  <2>4. unread[u] + Cardinality(Due(u)) >= Cardinality(Ahead(u))
    BY <1>1, <2>1 DEF Inv, Kept
  <2> QED BY <2>2, <2>3, <2>4
<1> QED BY <1>1, Always, PTL

\* Receipts of several members and devices overtake one another, and neither a status nor a mark goes back;
\* a deletion for everybody stays.
THEOREM ReceiptsClimbAlways == Spec => ReceiptsClimb
<1> DEFINE Climb ==
      /\ \A id \in Ids : rows[id] # None /\ rows'[id] # None =>
           rows'[id].status >= rows[id].status /\ (rows[id].deleted => rows'[id].deleted)
      /\ \A u \in Members : seen'[u].read >= seen[u].read /\ seen'[u].delivered >= seen[u].delivered
<1>1. ASSUME Inv, Next PROVE Climb
  <2>1. TypeOK /\ HandlersOK
    BY <1>1 DEF Inv
  <2>2. ASSUME NEW id \in Ids, rows[id] # None, rows'[id] # None
        PROVE  rows'[id].status >= rows[id].status /\ (rows[id].deleted => rows'[id].deleted)
    <3>1. rows[id].status >= rows[id].status
      <4>1. rows[id].status \in 1..3
        BY <2>1, <2>2 DEF TypeOK, Rows
      <4> QED BY <4>1
    <3>2. ASSUME NEW r \in Requests, Acts(r)
          PROVE  rows'[id].status >= rows[id].status /\ (rows[id].deleted => rows'[id].deleted)
      <4>1. CASE Inserts(r)
        <5>1. rows'[id] = rows[id]
          BY <2>1, <2>2, <4>1, Inserted
        <5> QED BY <3>1, <5>1
      <4>2. CASE RowsStep(r)
        BY <2>2, <3>1, <4>2 DEF RowsStep, RowStep, Altered
      <4> QED BY <2>1, <3>2, <4>1, <4>2, RowsMove
    <3>3. ASSUME NEW v \in Readers, CatchUp(v)
          PROVE  rows'[id].status >= rows[id].status /\ (rows[id].deleted => rows'[id].deleted)
      <4>1. rows'[id] = rows[id]
        BY <3>3, CatchUpStays
      <4> QED BY <3>1, <4>1
    <3> QED BY <1>1, <3>2, <3>3, Actors
  <2>3. \A u \in Members : seen'[u].read >= seen[u].read /\ seen'[u].delivered >= seen[u].delivered
    BY <1>1, <2>1, MarksTyped
  <2> QED BY <2>2, <2>3
<1>2. ASSUME Inv, [Next]_vars PROVE [Climb]_vars
  BY <1>1, <1>2
<1> HIDE DEF Climb
<1>3. [][Climb]_vars => ReceiptsClimb
  BY DEF Climb, ReceiptsClimb
<1> QED BY <1>2, <1>3, Always, PTL DEF Spec
=============================================================================
