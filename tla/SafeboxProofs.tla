----------------------------- MODULE SafeboxProofs -----------------------------
(***************************************************************************)
(* Proofs about Safebox, for any accounts, requests, uploads, files, shares *)
(* and faults: types and the foreign key, no content lost, the space of an  *)
(* account, the trash.                                                      *)
(***************************************************************************)
EXTENDS Safebox, FiniteSetTheorems, TLAPS

\* What an execution knows of its blob still holds: it has a row; the blocks a completion saw are
\* there unless the blob is being deleted; and only a blob being deleted is removed.
ExecutionOK(x) ==
  /\ x.at \in {"reserve", "add", "save", "keep", "list", "cascade", "empty", "excess", "purge"} => x.acc \in Accounts
  /\ x.at \in {"complete", "cancel", "drop", "add", "save", "keep", "erase", "remove", "row"} =>
       x.blob \in Blobs /\ blob[x.blob] # "none"
  /\ x.at = "complete" /\ blob[x.blob] \in {"pending", "ready"} => x.blob \in mega
  /\ x.at \in {"remove", "row"} => blob[x.blob] \in {"deleting", "gone"}

\* What belongs to a request is not for the cleaning.
Asked == {"reserve", "complete", "cancel", "restore", "drop", "list", "cascade", "empty", "add", "save", "keep",
          "erase", "excess", "purge"}

Executions == \A p \in Procs :
  ExecutionOK(req[p]) /\ (req[p].at \in Asked => p \in Requests)

\* A blob that is ready has its blocks.
Stored == \A b \in Blobs : blob[b] = "ready" => b \in mega

\* Only ghosts designate a blob that is being deleted.
Marked == \A f \in Rows : blob[file[f].blob] = "deleting" => f \in ghosts

\* Where a request holds the row of its account.
Holding == {"reserve", "keep", "purge"}

\* The lock of the account: one request at a time has it, and the place of a reservation is still free.
Room ==
  /\ \A p, q \in Requests : req[p].at \in Holding /\ req[q].at \in Holding /\ req[p].acc = req[q].acc => p = q
  /\ \A p \in Requests : req[p].at = "reserve" => Space(req[p].acc) + 1 <= PlusQuota

\* A live file in an album that is in the trash was placed there too late.
Astray == \A f \in Rows :
  Live(f) /\ file[f].place = "album" /\ album[file[f].acc] = "trashed" => f \in strays

Inv == TypeOK /\ Executions /\ Stored /\ Marked /\ QuotaKept /\ Room /\ Astray
-----------------------------------------------------------------------------
(* What a step does to the rows, the blobs and the blocks                  *)

\* No row of a file appears, and those that stay designate what they did.
NoneAdded ==
  /\ file' \in [Files -> {None} \union FileRow] /\ lastFile' = lastFile /\ ghosts' = ghosts
  /\ \A f \in Files : file'[f] # None =>
       f \in Rows /\ file'[f].acc = file[f].acc /\ file'[f].blob = file[f].blob

\* A step on a blob: uploaded, completed, marked, or its row deleted.
BlobStep(b) ==
  \/ blob'[b] = blob[b]
  \/ blob[b] = "none" /\ blob'[b] = "pending"
  \/ blob[b] = "pending" /\ blob'[b] = "ready" /\ b \in mega
  \/ Orphan(b) /\ blob'[b] = "deleting"
  \/ blob[b] = "deleting" /\ Of(b) = {} /\ blob'[b] = "gone"

\* A step that leaves the rows of the files.
LEMMA RowsStay == ASSUME Types, UNCHANGED <<file, lastFile, ghosts>> PROVE NoneAdded /\ Rows' = Rows
  BY DEF Types, NoneAdded, Rows

\* A deletion takes the files it is given and leaves the others; shares lose them.
LEMMA RowsDeleted ==
  ASSUME Types, NEW gone, DeleteFiles(gone), UNCHANGED <<lastFile, ghosts>>
  PROVE  NoneAdded /\ share' \in [Shares -> {None} \union ShareRow] /\
         \A f \in Files : file'[f] = IF f \in gone THEN None ELSE file[f]
<1>1. file \in [Files -> {None} \union FileRow] /\ share \in [Shares -> {None} \union ShareRow]
  BY DEF Types
<1>2. file' = [f \in Files |-> IF f \in gone THEN None ELSE file[f]]
  BY DEF DeleteFiles
<1>3. share' = [s \in Shares |-> IF share[s] # None /\ share[s].file \in gone
                                THEN [share[s] EXCEPT !.file = 0] ELSE share[s]]
  BY DEF DeleteFiles
<1>4. ASSUME NEW s \in Shares, share[s] # None PROVE [share[s] EXCEPT !.file = 0] \in ShareRow
  BY <1>1, <1>4, SafeboxAssumption DEF ShareRow
<1>5. share' \in [Shares -> {None} \union ShareRow]
  BY <1>1, <1>3, <1>4
<1> QED BY <1>1, <1>2, <1>5 DEF NoneAdded, Rows

\* A row that goes to the trash, leaves it or moves keeps its account and its blob.
Altered(f, row) == row \in FileRow /\ row.acc = file[f].acc /\ row.blob = file[f].blob

\* A row may change its trash and its place.
LEMMA RowAltered ==
  ASSUME Types, NEW f \in Rows
  PROVE  /\ \A t \in {"live", "own", "album"} : Altered(f, [file[f] EXCEPT !.trash = t])
         /\ \A p \in Places : Altered(f, [file[f] EXCEPT !.trash = "live", !.place = p])
<1>1. file[f] \in FileRow
  BY DEF Types, Rows
<1> QED BY <1>1 DEF FileRow, Altered, Places

\* An UPDATE of some rows, each altered, adds none and removes none,
LEMMA RowsMoved ==
  ASSUME Types, UNCHANGED <<lastFile, ghosts>>, NEW row, file' = [f \in Files |-> row[f]],
         \A f \in Files : row[f] = file[f] \/ (f \in Rows /\ Altered(f, row[f]))
  PROVE  NoneAdded /\ Rows' = Rows
<1>1. file \in [Files -> {None} \union FileRow]
  BY DEF Types
<1>2. ASSUME NEW f \in Files
      PROVE  /\ file'[f] \in {None} \union FileRow
             /\ file'[f] # None => f \in Rows /\ file'[f].acc = file[f].acc /\ file'[f].blob = file[f].blob
             /\ f \in Rows <=> f \in Rows'
  <2>1. file'[f] = row[f]
    OBVIOUS
  <2>2. CASE row[f] = file[f]
    BY <1>1, <2>1, <2>2 DEF Rows
  <2>3. CASE f \in Rows /\ Altered(f, row[f])
    BY <2>1, <2>3, SafeboxAssumption DEF Altered, Rows
  <2> QED BY <2>2, <2>3
<1>3. Rows' = Rows
  BY <1>2 DEF Rows
<1> QED BY <1>2, <1>3 DEF NoneAdded

\* What goes to the trash or leaves it.
Moves ==
  \/ \E p \in Procs : Restore(p)
  \/ \E f \in Files, everywhere \in BOOLEAN : TrashFile(f, everywhere)
  \/ \E a \in Owners : TrashAlbum(a) \/ RestoreAlbum(a)

\* as the moves of files and albums do.
LEMMA MovesKeepRows == ASSUME Types, Moves PROVE NoneAdded /\ Rows' = Rows
<1>1. ASSUME NEW p \in Procs, Restore(p) PROVE NoneAdded /\ Rows' = Rows
  <2>1. file \in [Files -> {None} \union FileRow] /\ UNCHANGED <<lastFile, ghosts>>
    BY <1>1 DEF Types, Restore
  <2>2. CASE req[p].file \notin Rows
    BY <1>1, <2>1, <2>2, RowsStay DEF Restore
  <2>3. ASSUME NEW f, f = req[p].file, f \in Rows PROVE NoneAdded /\ Rows' = Rows
    <3>1. file[f].place \in Places
      BY <2>1, <2>3 DEF Rows, FileRow
    <3>2. PICK q \in Places : q = IF req[p].place = "root" THEN "root" ELSE file[f].place
      BY <3>1 DEF Places
    <3>3. file' = [file EXCEPT ![f].trash = "live", ![f].place = q]
      BY <1>1, <2>3, <3>2 DEF Restore
    <3> DEFINE row == [file EXCEPT ![f] = [file[f] EXCEPT !.trash = "live", !.place = q]]
    <3>4. \A g \in Files : row[g] = IF g = f THEN [file[f] EXCEPT !.trash = "live", !.place = q] ELSE file[g]
      BY <2>1
    <3>5. file' = [g \in Files |-> row[g]]
      BY <2>1, <3>3
    <3>6. Altered(f, [file[f] EXCEPT !.trash = "live", !.place = q])
      BY <2>3, RowAltered
    <3> HIDE DEF row
    <3> QED BY <2>1, <2>3, <3>4, <3>5, <3>6, RowsMoved
  <2> QED BY <2>2, <2>3
<1>2. ASSUME NEW f \in Files, NEW everywhere \in BOOLEAN, TrashFile(f, everywhere) PROVE NoneAdded /\ Rows' = Rows
  <2> DEFINE row == [g \in Files |->
       IF Live(g) /\ (g = f \/ (everywhere /\ file[g].acc = file[f].acc /\ file[g].blob = file[f].blob))
       THEN [file[g] EXCEPT !.trash = "own"] ELSE file[g]]
  <2>1. file' = [g \in Files |-> row[g]] /\ UNCHANGED <<lastFile, ghosts>>
    BY <1>2 DEF TrashFile, history
  <2>2. \A g \in Files : row[g] = file[g] \/ (g \in Rows /\ Altered(g, row[g]))
    BY RowAltered DEF Live
  <2> HIDE DEF row
  <2> QED BY <2>1, <2>2, RowsMoved
<1>3. ASSUME NEW a \in Owners, TrashAlbum(a) PROVE NoneAdded /\ Rows' = Rows
  <2> DEFINE row == [g \in Files |-> IF Live(g) /\ g \in InAlbum(a) THEN [file[g] EXCEPT !.trash = "album"]
                                    ELSE file[g]]
  <2>1. file' = [g \in Files |-> row[g]] /\ UNCHANGED <<lastFile, ghosts>>
    BY <1>3 DEF TrashAlbum, history
  <2>2. \A g \in Files : row[g] = file[g] \/ (g \in Rows /\ Altered(g, row[g]))
    BY RowAltered DEF Live
  <2> HIDE DEF row
  <2> QED BY <2>1, <2>2, RowsMoved
<1>4. ASSUME NEW a \in Owners, RestoreAlbum(a) PROVE NoneAdded /\ Rows' = Rows
  <2> DEFINE row == [g \in Files |-> IF g \in Mine(a) /\ file[g].trash = "album"
                                    THEN [file[g] EXCEPT !.trash = "live"] ELSE file[g]]
  <2>1. file' = [g \in Files |-> row[g]] /\ UNCHANGED <<lastFile, ghosts>>
    BY <1>4 DEF RestoreAlbum
  <2>2. \A g \in Files : row[g] = file[g] \/ (g \in Rows /\ Altered(g, row[g]))
    BY RowAltered DEF Mine
  <2> HIDE DEF row
  <2> QED BY <2>1, <2>2, RowsMoved
<1> QED BY <1>1, <1>2, <1>3, <1>4 DEF Moves

\* Rows stay as many as they were, or some are deleted.
RowsKept == NoneAdded /\ (Rows' = Rows \/ \E gone : DeleteFiles(gone))

\* What is asked changes no row, no blob and no album; moderation withdraws shares.
LEMMA AskedOnly ==
  ASSUME NEW r \in Requests, Ask(r)
  PROVE  /\ UNCHANGED <<blob, idle, mega, file, lastFile, album, quota, strays, ghosts, faults>>
         /\ UNCHANGED share \/ \E s \in Shares : Moderate(r, s)
<1>1. ASSUME NEW a \in Owners, NEW place \in Places, Reserve(r, a, place)
      PROVE  UNCHANGED <<blob, idle, mega, file, lastFile, album, quota, strays, ghosts, faults, share>>
  BY <1>1 DEF Reserve, folders, history
<1>2. ASSUME NEW f \in Files,
             AskComplete(r, f) \/ AskCancel(r, f) \/ AskRestore(r, f) \/ AskDelete(r, f) \/ AskAdd(r, f)
      PROVE  UNCHANGED <<blob, idle, mega, file, lastFile, album, quota, strays, ghosts, faults, share>>
  BY <1>2 DEF AskComplete, AskCancel, AskRestore, AskDelete, AskAdd, folders, history
<1>3. ASSUME NEW a \in Accounts, AskDeleteAlbum(r, a) \/ AskEmpty(r, a) \/ AskExcess(r, a)
      PROVE  UNCHANGED <<blob, idle, mega, file, lastFile, album, quota, strays, ghosts, faults, share>>
  BY <1>3 DEF AskDeleteAlbum, AskEmpty, AskExcess, folders, history
<1>4. ASSUME NEW s \in Shares, NEW a \in Accounts, NEW place \in Places, AskSave(r, a, s, place)
      PROVE  UNCHANGED <<blob, idle, mega, file, lastFile, album, quota, strays, ghosts, faults, share>>
  BY <1>4 DEF AskSave, folders, history
<1>5. ASSUME NEW s \in Shares, Moderate(r, s)
      PROVE  UNCHANGED <<blob, idle, mega, file, lastFile, album, quota, strays, ghosts, faults>>
  BY <1>5 DEF Moderate, history
<1> QED BY <1>1, <1>2, <1>3, <1>4, <1>5 DEF Ask

\* The steps of requests that delete files.
Taking(p) == Cancel(p) \/ Erase(p) \/ DropFile(p) \/ DropAlbum(p) \/ Empty(p) \/ PurgeExcess(p)

\* They leave the blobs to the cleaning and may delete the album.
LEMMA Taken ==
  ASSUME Executions, NEW p \in Procs, Taking(p)
  PROVE  /\ UNCHANGED <<blob, idle, mega, lastFile, quota, strays, ghosts, faults>>
         /\ \E gone : DeleteFiles(gone)
         /\ album' = album \/ \E a \in Accounts : album' = [album EXCEPT ![a] = "gone"]
<1>1. req[p].at \in {"cascade", "empty", "purge"} => req[p].acc \in Accounts
  BY DEF Executions, ExecutionOK
<1>2. CASE Cancel(p) \/ Erase(p) \/ DropFile(p)
  BY <1>2 DEF Cancel, Erase, DropFile, history
<1>3. CASE DropAlbum(p)
  BY <1>1, <1>3 DEF DropAlbum, history
<1>4. CASE Empty(p)
  BY <1>1, <1>4 DEF Empty, BuryAlbum, history
<1>5. CASE PurgeExcess(p)
  BY <1>1, <1>5 DEF PurgeExcess, BuryAlbum, history
<1> QED BY <1>2, <1>3, <1>4, <1>5 DEF Taking

\* The steps that place files: the only ones that add rows.
LEMMA FileStep ==
  ASSUME Types, Executions, Next
  PROVE  RowsKept \/ \E p \in Procs : Insert(p) \/ Add(p) \/ Save(p)
<1> USE DEF RowsKept
<1>1. ASSUME NEW r \in Requests, Ask(r) PROVE RowsKept
  <2>1. UNCHANGED <<file, lastFile, ghosts>>
    BY <1>1, AskedOnly
  <2> QED BY <2>1, RowsStay
<1>2. ASSUME NEW p \in Procs, \/ Complete(p) \/ Keep(p) \/ ListAlbum(p) \/ ListExcess(p) \/ Mark(p) \/ Remove(p)
                              \/ DropRow(p) \/ Collected(p) \/ Die(p)
      PROVE RowsKept
  BY <1>2, RowsStay DEF Complete, Keep, ListAlbum, ListExcess, Mark, Remove, DropRow, Collected, Die, history
<1>3. ASSUME NEW p \in Procs, Taking(p) PROVE RowsKept
  <2>1. UNCHANGED <<lastFile, ghosts>> /\ \E gone : DeleteFiles(gone)
    BY <1>3, Taken
  <2> QED BY <2>1, RowsDeleted
<1>8. ASSUME NEW b \in Blobs, Put(b) \/ GrowIdle(b) \/ Touch(b) PROVE RowsKept
  BY <1>8, RowsStay DEF Put, GrowIdle, Touch, history
<1>9. ASSUME NEW a \in Owners, PlusEnds(a) \/ PlusBegins(a) PROVE RowsKept
  BY <1>9, RowsStay DEF PlusEnds, PlusBegins, history
<1>10. ASSUME NEW s \in Shares, Revoke(s) \/ \E f \in Files : CreateShare(s, f) PROVE RowsKept
  BY <1>10, RowsStay DEF Revoke, CreateShare, history
<1>11. CASE ExpireTrash \/ ExpireAbandoned
  <2>1. UNCHANGED <<lastFile, ghosts>> /\ \E gone : DeleteFiles(gone)
    BY <1>11 DEF ExpireTrash, ExpireAbandoned, history
  <2> QED BY <2>1, RowsDeleted
<1>12. CASE ListOrphans \/ Reconcile \/ NotDue
  BY <1>12, RowsStay DEF ListOrphans, Reconcile, NotDue, history
<1> QED BY <1>1, <1>2, <1>3, <1>8, <1>9, <1>10, <1>11, <1>12, MovesKeepRows DEF Next, Continue, Nightly, Moves, Taking

\* A step on the blobs; the blocks of one that is not being deleted stay.
LEMMA BlobsStep ==
  ASSUME Types, Executions, Next
  PROVE  /\ blob' \in [Blobs -> {"none", "pending", "ready", "deleting", "gone"}]
         /\ idle' \subseteq Blobs /\ mega' \subseteq Blobs
         /\ \A b \in Blobs : BlobStep(b) /\ (b \in mega /\ blob[b] \in {"pending", "ready"} => b \in mega')
<1> USE DEF BlobStep
<1>1. /\ blob \in [Blobs -> {"none", "pending", "ready", "deleting", "gone"}]
      /\ idle \subseteq Blobs /\ mega \subseteq Blobs /\ req \in [Procs -> Execution]
  BY DEF Types
<1>2. ASSUME NEW r \in Requests, Ask(r) PROVE UNCHANGED <<blob, idle, mega>>
  BY <1>2, AskedOnly
<1>3. ASSUME NEW p \in Procs, \/ Taking(p) \/ Restore(p) \/ Add(p) \/ Keep(p) \/ Save(p) \/ ListAlbum(p) \/ ListExcess(p)
                              \/ Collected(p) \/ Die(p)
      PROVE  UNCHANGED <<blob, idle, mega>>
  BY <1>3, Taken DEF Restore, Add, Keep, Save, ListAlbum, ListExcess, Collected, Die
<1>4. CASE UNCHANGED <<blob, idle, mega>>
  BY <1>1, <1>4
<1>5. ASSUME NEW p \in Procs, Insert(p) PROVE UNCHANGED <<idle, mega>> /\
        (blob' = blob \/ \E b \in Blobs : blob[b] = "none" /\ blob' = [blob EXCEPT ![b] = "pending"])
  <2>1. \A b \in Blobs : b >= b
    BY SafeboxAssumption DEF Blobs
  <2> QED BY <1>5, <2>1 DEF Insert
<1>6. ASSUME NEW p \in Procs, Complete(p)
      PROVE  /\ idle' \subseteq idle /\ mega' = mega
             /\ blob' = blob \/ \E b \in Blobs : b \in mega /\ blob[b] = "pending" /\ blob' = [blob EXCEPT ![b] = "ready"]
  <2>1. req[p].blob \in Blobs /\ (blob[req[p].blob] = "pending" => req[p].blob \in mega)
    BY <1>6 DEF Complete, Executions, ExecutionOK
  <2> QED BY <1>6, <2>1 DEF Complete
<1>7. ASSUME NEW p \in Procs, Mark(p)
      PROVE  /\ idle' \subseteq idle /\ mega' = mega
             /\ blob' = blob \/ \E b \in Blobs : Orphan(b) /\ blob' = [blob EXCEPT ![b] = "deleting"]
  <2>1. req[p].left \subseteq Blobs
    BY <1>1 DEF Execution
  <2> QED BY <1>7, <2>1 DEF Mark
<1>8. ASSUME NEW p \in Procs, Remove(p)
      PROVE  /\ UNCHANGED <<blob, idle>> /\ mega' \subseteq mega
             /\ \A b \in mega \ mega' : blob[b] \in {"deleting", "gone"}
  <2>1. blob[req[p].blob] \in {"deleting", "gone"}
    BY <1>8 DEF Remove, Executions, ExecutionOK
  <2> QED BY <1>8, <2>1 DEF Remove
<1>9. ASSUME NEW p \in Procs, DropRow(p)
      PROVE  /\ UNCHANGED <<idle, mega>>
             /\ blob' = blob \/ \E b \in Blobs :
                  blob[b] = "deleting" /\ Of(b) = {} /\ blob' = [blob EXCEPT ![b] = "gone"]
  <2>1. req[p].blob \in Blobs
    BY <1>9 DEF DropRow, Executions, ExecutionOK
  <2> QED BY <1>9, <2>1 DEF DropRow
<1>10. ASSUME NEW b \in Blobs, Put(b) \/ GrowIdle(b) \/ Touch(b)
       PROVE  blob' = blob /\ idle' \subseteq Blobs /\ mega' \subseteq Blobs /\ mega \subseteq mega'
  BY <1>1, <1>10 DEF Put, GrowIdle, Touch
<1>11. ASSUME NEW f \in Files, NEW everywhere \in BOOLEAN, TrashFile(f, everywhere)
       PROVE  UNCHANGED <<blob, idle, mega>>
  BY <1>11 DEF TrashFile
<1>12. ASSUME NEW a \in Owners, TrashAlbum(a) \/ RestoreAlbum(a) \/ PlusEnds(a) \/ PlusBegins(a)
       PROVE  UNCHANGED <<blob, idle, mega>>
  BY <1>12 DEF TrashAlbum, RestoreAlbum, PlusEnds, PlusBegins
<1>13. ASSUME NEW s \in Shares, Revoke(s) \/ \E f \in Files : CreateShare(s, f) PROVE UNCHANGED <<blob, idle, mega>>
  BY <1>13 DEF Revoke, CreateShare
<1>14. CASE ExpireTrash \/ ExpireAbandoned \/ ListOrphans \/ NotDue
  BY <1>1, <1>14 DEF ExpireTrash, ExpireAbandoned, ListOrphans, NotDue
<1>15. CASE Reconcile
  BY <1>1, <1>15 DEF Reconcile
<1> QED
  <2>1. ASSUME NEW r \in Requests, Ask(r) PROVE UNCHANGED <<blob, idle, mega>>
    BY <1>2, <2>1
  <2>2. ASSUME NEW p \in Procs, Continue(p) \/ Die(p)
        PROVE  /\ blob' \in [Blobs -> {"none", "pending", "ready", "deleting", "gone"}]
               /\ idle' \subseteq Blobs /\ mega' \subseteq Blobs
               /\ \A b \in Blobs : BlobStep(b) /\ (b \in mega /\ blob[b] \in {"pending", "ready"} => b \in mega')
    <3>1. CASE Insert(p)
      BY <1>1, <1>5, <3>1
    <3>2. CASE Complete(p)
      BY <1>1, <1>6, <3>2
    <3>3. CASE Mark(p)
      BY <1>1, <1>7, <3>3
    <3>4. CASE Remove(p)
      BY <1>1, <1>8, <3>4
    <3>5. CASE DropRow(p)
      BY <1>1, <1>9, <3>5
    <3> QED BY <1>3, <1>4, <2>2, <3>1, <3>2, <3>3, <3>4, <3>5 DEF Continue, Taking
  <2> QED BY <1>1, <1>4, <1>10, <1>11, <1>12, <1>13, <1>14, <1>15, <2>1, <2>2 DEF Next, Nightly

-----------------------------------------------------------------------------
(* Executions                                                              *)

\* The execution of one process moves; those of the others stay.
Went(p, x) == x \in Execution /\ req' = [req EXCEPT ![p] = x]

\* A free slot is an execution.
LEMMA RestingTyped == Resting \in Execution
  BY SafeboxAssumption DEF Resting, Execution, Points, Places

\* What is asked of a file that designates a row of a blob.
LEMMA AskingTyped ==
  ASSUME TypeOK, NEW f \in Rows, NEW a \in Accounts \union {None}, NEW at \in Points
  PROVE  /\ file[f] \in FileRow /\ file[f].acc \in Accounts /\ f \in 0..MaxFiles
         /\ file[f].blob \in Blobs /\ blob[file[f].blob] \notin {"none", "gone"}
         /\ Asking(at, a, f) \in Execution
<1>1. /\ file[f] \in FileRow /\ f \in 0..MaxFiles
      /\ blob[file[f].blob] \notin {"none", "gone"}
  <2>1. file \in [Files -> {None} \union FileRow] /\ blob[file[f].blob] \notin {"none", "gone"}
    BY DEF TypeOK, Types
  <2>2. f \in Files /\ file[f] # None
    BY DEF Rows
  <2> QED BY <2>1, <2>2, SafeboxAssumption DEF Files
<1>2. file[f].blob \in 0..MaxBlobs /\ file[f].blob \in Blobs /\ file[f].acc \in Accounts
  BY <1>1, SafeboxAssumption DEF FileRow, Blobs
<1>3. {} \in SUBSET Blobs
  OBVIOUS
<1>4. [Asking(at, a, f) EXCEPT !.at = at] \in Execution
  BY <1>1, <1>2, <1>3, RestingTyped DEF Asking, Execution
<1>5. Asking(at, a, f) = [Asking(at, a, f) EXCEPT !.at = at]
  BY DEF Asking, Resting
<1> QED BY <1>1, <1>2, <1>4, <1>5

\* A process moves to an execution that is right, or none moves.
Going(p, x) ==
  /\ Went(p, x) /\ ExecutionOK(x)' /\ (x.at \in Asked => p \in Requests)
  /\ x.at = "reserve" => \E a \in Owners, place \in Places : Reserve(p, a, place)
  /\ x.at \in Holding => ~Locked(x.acc)
Proceeds == req' = req \/ \E p \in Procs, x \in Execution : Going(p, x)

\* An execution that ends, or takes the next blob to clean, is right.
LEMMA Settles ==
  ASSUME NEW p \in Procs, Finish(p) \/ \E blobs \in SUBSET Blobs : Clean(p, blobs)
  PROVE  \E x \in Execution : Going(p, x)
<1> USE DEF Going, Went, ExecutionOK, Asked, Holding
<1>1. CASE Finish(p)
  BY <1>1, RestingTyped DEF Finish, Resting
<1>2. ASSUME NEW blobs \in SUBSET Blobs, Clean(p, blobs) PROVE \E x \in Execution : Going(p, x)
  <2>1. [Resting EXCEPT !.at = "collect", !.left = blobs] \in Execution
    BY RestingTyped DEF Execution, Points, Resting
  <2> QED BY <1>2, <2>1 DEF Clean, Resting
<1> QED BY <1>1, <1>2

\* A request that arrives is right,
LEMMA RequestsProceed ==
  ASSUME TypeOK, Executions, NEW r \in Requests, Ask(r)
  PROVE  \E x \in Execution : Going(r, x)
<1> USE DEF Going, Went, Begin, Holding
<1>1. r \in Procs
  BY DEF Procs
<1>2. ASSUME NEW a \in Owners, NEW place \in Places, Reserve(r, a, place)
      PROVE  \E x \in Execution : Going(r, x)
  <2>1. a \in Accounts
    BY SafeboxAssumption
  <2>2. [Resting EXCEPT !.at = "reserve", !.acc = a, !.place = place] \in Execution
    BY <2>1, RestingTyped DEF Execution, Points, Resting
  <2> QED BY <1>2, <2>1, <2>2 DEF Reserve, Resting, ExecutionOK
<1>3. ASSUME NEW f \in Files, AskComplete(r, f) PROVE \E x \in Execution : Going(r, x)
  <2>1. f \in Rows /\ file[f].blob \in mega /\ UNCHANGED <<blob, mega>> /\ "complete" \in Points
    BY <1>3 DEF AskComplete, Points
  <2>2. Asking("complete", file[f].acc, f) \in Execution /\ file[f].blob \in Blobs /\ blob[file[f].blob] # "none"
    BY <2>1, AskingTyped
  <2> QED BY <1>3, <2>1, <2>2 DEF AskComplete, Asking, Resting, ExecutionOK
<1>4. ASSUME NEW f \in Files, AskCancel(r, f) PROVE \E x \in Execution : Going(r, x)
  <2>1. f \in Rows /\ UNCHANGED <<blob, mega>> /\ "cancel" \in Points
    BY <1>4 DEF AskCancel, Points
  <2>2. Asking("cancel", file[f].acc, f) \in Execution /\ file[f].blob \in Blobs /\ blob[file[f].blob] # "none"
    BY <2>1, AskingTyped
  <2> QED BY <1>4, <2>1, <2>2 DEF AskCancel, Asking, Resting, ExecutionOK
<1>5. ASSUME NEW f \in Files, AskRestore(r, f) PROVE \E x \in Execution : Going(r, x)
  <2>1. f \in Rows /\ "restore" \in Points
    BY <1>5 DEF AskRestore, Points
  <2>2. PICK place \in Places :
          req' = [req EXCEPT ![r] = [Asking("restore", file[f].acc, f) EXCEPT !.place = place]]
    BY <1>5 DEF AskRestore, Places
  <2>3. Asking("restore", file[f].acc, f) \in Execution
    BY <2>1, AskingTyped
  <2>4. [Asking("restore", file[f].acc, f) EXCEPT !.place = place] \in Execution
    BY <2>3 DEF Execution
  <2>5. [Asking("restore", file[f].acc, f) EXCEPT !.place = place].at = "restore"
    BY DEF Asking, Resting
  <2> QED BY <2>2, <2>4, <2>5 DEF ExecutionOK
<1>6. ASSUME NEW f \in Files, AskDelete(r, f) PROVE \E x \in Execution : Going(r, x)
  <2>1. f \in Rows /\ UNCHANGED <<blob, mega>> /\ "drop" \in Points
    BY <1>6 DEF AskDelete, Points
  <2>2. Asking("drop", file[f].acc, f) \in Execution /\ file[f].blob \in Blobs /\ blob[file[f].blob] # "none"
    BY <2>1, AskingTyped
  <2> QED BY <1>6, <2>1, <2>2 DEF AskDelete, Asking, Resting, ExecutionOK
<1>7. ASSUME NEW f \in Files, AskAdd(r, f) PROVE \E x \in Execution : Going(r, x)
  <2>1. f \in Rows /\ UNCHANGED <<blob, mega>> /\ "add" \in Points
    BY <1>7 DEF AskAdd, Points, Shown, Live
  <2>2. /\ Asking("add", file[f].acc, f) \in Execution /\ file[f].acc \in Accounts
        /\ file[f].blob \in Blobs /\ blob[file[f].blob] # "none"
    BY <2>1, AskingTyped
  <2> QED BY <1>7, <2>1, <2>2 DEF AskAdd, Asking, Resting, ExecutionOK
<1>9. ASSUME NEW s \in Shares, NEW a \in Accounts, NEW place \in Places, AskSave(r, a, s, place)
      PROVE  \E x \in Execution : Going(r, x)
  <2>1. share[s].file \in Rows /\ UNCHANGED <<blob, mega>> /\ "save" \in Points
    BY <1>9 DEF AskSave, Points, Shown, Live
  <2>2. /\ Asking("save", a, share[s].file) \in Execution
        /\ file[share[s].file].blob \in Blobs /\ blob[file[share[s].file].blob] # "none"
    BY <2>1, AskingTyped
  <2>3. PICK x \in Execution : x = [Asking("save", a, share[s].file) EXCEPT !.place = place]
    BY <2>2 DEF Execution
  <2>4. x.at = "save" /\ x.acc = a /\ x.blob = file[share[s].file].blob
    BY <2>3 DEF Asking, Resting
  <2>5. ExecutionOK(x)'
    BY <2>1, <2>2, <2>4 DEF ExecutionOK
  <2>6. req' = [req EXCEPT ![r] = x]
    BY <1>9, <2>3 DEF AskSave
  <2> QED BY <2>3, <2>4, <2>5, <2>6
<1>8. ASSUME NEW s \in Shares, Moderate(r, s) PROVE \E x \in Execution : Going(r, x)
  <2>1. share[s].file \in Rows /\ UNCHANGED <<blob, mega>> /\ "erase" \in Points
    BY <1>8 DEF Moderate, TypeOK, Points
  <2>2. /\ Asking("erase", None, share[s].file) \in Execution
        /\ file[share[s].file].blob \in Blobs /\ blob[file[share[s].file].blob] # "none"
    BY <2>1, AskingTyped
  <2> QED BY <1>8, <2>1, <2>2 DEF Moderate, Asking, Resting, ExecutionOK
<1>10. \A f \in Rows : file[f].blob \in Blobs
  BY AskingTyped DEF Points
<1>11. ASSUME NEW x \in Execution, x.at \in {"list", "empty", "excess"}, x.acc \in Accounts,
              req' = [req EXCEPT ![r] = x]
       PROVE  \E y \in Execution : Going(r, y)
  BY <1>11 DEF ExecutionOK
<1>12. ASSUME NEW a \in Accounts, AskDeleteAlbum(r, a) PROVE \E x \in Execution : Going(r, x)
  <2>1. PICK x \in Execution : x = [Resting EXCEPT !.at = "list", !.acc = a]
    BY RestingTyped DEF Execution, Points, Resting
  <2> QED BY <1>11, <1>12, <2>1 DEF AskDeleteAlbum, Resting
<1>13. ASSUME NEW a \in Accounts, AskExcess(r, a) PROVE \E x \in Execution : Going(r, x)
  <2>1. PICK x \in Execution : x = [Resting EXCEPT !.at = "excess", !.acc = a]
    BY RestingTyped DEF Execution, Points, Resting
  <2> QED BY <1>11, <1>13, <2>1 DEF AskExcess, Resting
<1>14. ASSUME NEW a \in Accounts, AskEmpty(r, a) PROVE \E x \in Execution : Going(r, x)
  <2>1. {file[f].blob : f \in Trashed(a)} \in SUBSET Blobs
    BY <1>10 DEF Trashed, Mine
  <2>2. PICK x \in Execution :
          x = [Resting EXCEPT !.at = "empty", !.acc = a, !.left = {file[f].blob : f \in Trashed(a)}]
    BY <2>1, RestingTyped DEF Execution, Points, Resting
  <2> QED BY <1>11, <1>14, <2>2 DEF AskEmpty, Resting
<1> QED BY <1>2, <1>3, <1>4, <1>5, <1>6, <1>7, <1>8, <1>9, <1>12, <1>13, <1>14 DEF Ask

\* an execution that goes on or dies too,
LEMMA ProcessesProceed ==
  ASSUME TypeOK, Executions, NEW p \in Procs, Continue(p) \/ Die(p)
  PROVE  \E x \in Execution : Going(p, x)
<1>1. /\ req[p] \in Execution /\ ExecutionOK(req[p]) /\ req \in [Procs -> Execution]
      /\ blob \in [Blobs -> {"none", "pending", "ready", "deleting", "gone"}]
  BY DEF TypeOK, Types, Executions
<1>2. CASE Insert(p) \/ Complete(p) \/ Restore(p) \/ Add(p) \/ Save(p) \/ Die(p)
  BY <1>2, Settles DEF Insert, Complete, Restore, Add, Save, Die
<1>3. CASE Cancel(p) \/ Erase(p) \/ DropFile(p)
  <2>1. Clean(p, {req[p].blob}) /\ {req[p].blob} \in SUBSET Blobs
    BY <1>1, <1>3 DEF Cancel, Erase, DropFile, ExecutionOK
  <2> QED BY <2>1, Settles
<1>9. \A f \in Rows : file[f].blob \in Blobs
  BY AskingTyped DEF Points
<1>10. req[p].left \in SUBSET Blobs
  BY <1>1 DEF Execution
<1>11. CASE DropAlbum(p) \/ Empty(p)
  BY <1>10, <1>11, Settles DEF DropAlbum, Empty
<1>12. CASE PurgeExcess(p)
  <2>1. PICK out \in SUBSET Rows : Clean(p, req[p].left \union {file[f].blob : f \in out})
    <3> DEFINE kept == Mine(req[p].acc) \ (req[p].doomed \union BuriedWith(req[p].acc))
               gone == {f \in kept : Live(f) /\ file[f].blob \in Excess(kept)}
    <3>1. Clean(p, req[p].left \union {file[f].blob : f \in gone}) /\ gone \in SUBSET Rows
      BY <1>12 DEF PurgeExcess, Mine
    <3> QED BY <3>1
  <2>2. req[p].left \union {file[f].blob : f \in out} \in SUBSET Blobs
    BY <1>9, <1>10
  <2> QED BY <2>1, <2>2, Settles
<1>13. CASE ListAlbum(p)
  <2>1. PICK left \in SUBSET Blobs : left = {file[f].blob : f \in InAlbum(req[p].acc)}
    BY <1>9 DEF InAlbum, Mine
  <2>2. PICK x : x = [req[p] EXCEPT !.at = "cascade", !.left = left]
    OBVIOUS
  <2>3. x \in Execution /\ x.at = "cascade" /\ x.acc = req[p].acc
    BY <1>1, <2>2 DEF Execution, Points
  <2>4. req' = [req EXCEPT ![p] = x]
    BY <1>1, <1>13, <2>1, <2>2 DEF ListAlbum
  <2>5. req[p].at = "list" /\ req[p].acc \in Accounts /\ p \in Requests
    BY <1>13 DEF ListAlbum, Executions, ExecutionOK, Asked
  <2> QED BY <2>3, <2>4, <2>5 DEF Going, Went, ExecutionOK, Asked, Holding
<1>14. CASE ListExcess(p)
  <2>1. req[p].at = "excess" /\ req[p].acc \in Accounts /\ p \in Requests
    BY <1>14 DEF ListExcess, Executions, ExecutionOK, Asked
  <2>2. CASE Finish(p)
    BY <2>2, Settles
  <2>3. CASE ~Finish(p)
    <3>1. PICK out \in SUBSET Rows : req' = [req EXCEPT ![p].at = "purge", ![p].doomed = out,
                                                       ![p].left = {file[f].blob : f \in out}]
      <4> DEFINE listed == {f \in Mine(req[p].acc) : ~Live(f) \/ blob[file[f].blob] = "pending"}
      <4>1. req' = [req EXCEPT ![p].at = "purge", ![p].doomed = listed, ![p].left = {file[f].blob : f \in listed}]
        BY <1>14, <2>3 DEF ListExcess
      <4>2. listed \in SUBSET Rows
        BY DEF Mine
      <4> QED BY <4>1, <4>2
    <3>2. PICK left \in SUBSET Blobs : left = {file[f].blob : f \in out}
      BY <1>9
    <3>3. PICK x : x = [req[p] EXCEPT !.at = "purge", !.doomed = out, !.left = left]
      OBVIOUS
    <3>4. out \in SUBSET Files
      BY DEF Rows
    <3>5. x \in Execution /\ x.at = "purge" /\ x.acc = req[p].acc
      BY <1>1, <3>3, <3>4 DEF Execution, Points
    <3>6. req' = [req EXCEPT ![p] = x]
      BY <1>1, <3>1, <3>2, <3>3
    <3>7. ~Locked(req[p].acc)
      BY <1>14 DEF ListExcess
    <3> QED BY <2>1, <3>5, <3>6, <3>7 DEF Going, Went, ExecutionOK, Asked
  <2> QED BY <2>2, <2>3
<1>15. CASE Keep(p)
  <2>1. /\ req[p].at = "save" /\ req[p].acc \in Accounts /\ p \in Requests /\ blob' = blob
        /\ req[p].blob \in Blobs /\ blob[req[p].blob] # "none"
    BY <1>15 DEF Keep, Executions, ExecutionOK, Asked
  <2>2. CASE Finish(p)
    BY <2>2, Settles
  <2>3. CASE Goto(p, "keep")
    <3>1. PICK x : x = [req[p] EXCEPT !.at = "keep"]
      OBVIOUS
    <3>2. x \in Execution /\ x.at = "keep" /\ x.acc = req[p].acc /\ x.blob = req[p].blob
      BY <1>1, <3>1 DEF Execution, Points
    <3>3. req' = [req EXCEPT ![p] = x]
      BY <1>1, <2>3, <3>1, <3>2 DEF Goto
    <3>4. ~Locked(req[p].acc)
      BY <1>15 DEF Keep
    <3> QED BY <2>1, <3>2, <3>3, <3>4 DEF Going, Went, ExecutionOK, Asked
  <2> QED BY <1>15, <2>2, <2>3 DEF Keep
<1>4. CASE Mark(p)
  <2>1. PICK b \in req[p].left :
          IF Orphan(b)
          THEN /\ blob' = [blob EXCEPT ![b] = "deleting"]
               /\ req' = [req EXCEPT ![p].at = "remove", ![p].blob = b, ![p].left = @ \ {b}]
          ELSE req' = [req EXCEPT ![p].left = @ \ {b}] /\ UNCHANGED blob
    BY <1>4 DEF Mark
  <2>2. b \in Blobs /\ b \in 0..MaxBlobs /\ req[p].left \ {b} \in SUBSET Blobs /\ req[p].at = "collect"
    BY <1>1, <1>4, <2>1, SafeboxAssumption DEF Execution, Blobs, Mark
  <2>3. CASE Orphan(b)
    <3>1. PICK x : x = [req[p] EXCEPT !.at = "remove", !.blob = b, !.left = req[p].left \ {b}]
      OBVIOUS
    <3>2. x \in Execution /\ x.at = "remove" /\ x.blob = b
      BY <1>1, <2>2, <3>1 DEF Execution, Points
    <3>3. req' = [req EXCEPT ![p] = x] /\ blob'[b] = "deleting"
      BY <1>1, <2>1, <2>2, <2>3, <3>1
    <3> QED BY <2>2, <3>2, <3>3 DEF Going, Went, ExecutionOK, Asked, Holding
  <2>4. CASE ~Orphan(b)
    <3>1. PICK x : x = [req[p] EXCEPT !.left = req[p].left \ {b}]
      OBVIOUS
    <3>2. x \in Execution /\ x.at = "collect"
      BY <1>1, <2>2, <3>1 DEF Execution
    <3>3. req' = [req EXCEPT ![p] = x]
      BY <1>1, <2>1, <2>4, <3>1
    <3> QED BY <3>2, <3>3 DEF Going, Went, ExecutionOK, Asked, Holding
  <2> QED BY <2>3, <2>4
<1>5. ASSUME NEW at \in {"collect", "row", "reconcile"}, Goto(p, at),
             at = "row" => req[p].at = "remove" /\ blob' = blob
      PROVE  \E x \in Execution : Going(p, x)
  <2>1. PICK x : x = [req[p] EXCEPT !.at = at]
    OBVIOUS
  <2>2. x \in Execution /\ x.at = at /\ x.blob = req[p].blob
    BY <1>1, <2>1 DEF Execution, Points
  <2>3. Went(p, x)
    BY <1>1, <1>5, <2>1, <2>2 DEF Goto, Went
  <2> QED BY <1>1, <1>5, <2>2, <2>3 DEF Going, ExecutionOK, Asked, Holding
<1>6. CASE Remove(p)
  BY <1>5, <1>6 DEF Remove
<1>7. CASE DropRow(p)
  BY <1>5, <1>7 DEF DropRow
<1>8. CASE Collected(p)
  BY <1>5, <1>8, Settles DEF Collected
<1> QED BY <1>2, <1>3, <1>4, <1>6, <1>7, <1>8, <1>11, <1>12, <1>13, <1>14, <1>15 DEF Continue

\* and so is whatever moves in a step.
LEMMA ExecutionsProceed ==
  ASSUME TypeOK, Executions, Next PROVE Proceeds
<1>1. /\ Purger \in Procs /\ req[Purger] \in Execution /\ req \in [Procs -> Execution]
  BY DEF TypeOK, Types, Procs
<1>2. ASSUME NEW at \in {"abandoned", "orphans"}, Goto(Purger, at) PROVE Proceeds
  <2>1. PICK x : x = [req[Purger] EXCEPT !.at = at]
    OBVIOUS
  <2>2. x \in Execution /\ x.at = at
    BY <1>1, <2>1 DEF Execution, Points
  <2>3. Went(Purger, x)
    BY <1>1, <1>2, <2>1, <2>2 DEF Goto, Went
  <2> QED BY <1>1, <2>2, <2>3 DEF Proceeds, Going, ExecutionOK, Asked, Holding
<1>3. CASE ExpireTrash \/ ExpireAbandoned
  BY <1>2, <1>3 DEF ExpireTrash, ExpireAbandoned
<1>4. CASE ListOrphans
  <2>1. Clean(Purger, {b \in Blobs : Orphan(b)}) /\ {b \in Blobs : Orphan(b)} \in SUBSET Blobs
    BY <1>4 DEF ListOrphans
  <2> QED BY <1>1, <2>1, Settles DEF Proceeds
<1>5. CASE Reconcile \/ NotDue
  BY <1>1, <1>5, Settles DEF Reconcile, NotDue, Proceeds
<1>6. ASSUME NEW r \in Requests, Ask(r) PROVE Proceeds
  BY <1>6, RequestsProceed DEF Proceeds, Procs
<1>7. ASSUME NEW p \in Procs, Continue(p) \/ Die(p) PROVE Proceeds
  BY <1>7, ProcessesProceed DEF Proceeds
<1>8. ASSUME NEW b \in Blobs, Put(b) \/ GrowIdle(b) \/ Touch(b) PROVE req' = req
  BY <1>8 DEF Put, GrowIdle, Touch
<1>9. ASSUME NEW f \in Files, NEW everywhere \in BOOLEAN, TrashFile(f, everywhere) PROVE req' = req
  BY <1>9 DEF TrashFile
<1>10. ASSUME NEW a \in Owners, TrashAlbum(a) \/ RestoreAlbum(a) \/ PlusEnds(a) \/ PlusBegins(a) PROVE req' = req
  BY <1>10 DEF TrashAlbum, RestoreAlbum, PlusEnds, PlusBegins
<1>11. ASSUME NEW s \in Shares, Revoke(s) \/ \E f \in Files : CreateShare(s, f) PROVE req' = req
  BY <1>11 DEF Revoke, CreateShare
<1> QED BY <1>3, <1>4, <1>5, <1>6, <1>7, <1>8, <1>9, <1>10, <1>11 DEF Next, Nightly, Proceeds

\* What an execution knows outlives the steps of the others.
LEMMA ExecutionsStay ==
  ASSUME TypeOK, Executions, Next
  PROVE  req' \in [Procs -> Execution] /\ Executions'
<1>1. req \in [Procs -> Execution]
  BY DEF TypeOK, Types
<1>2. ASSUME NEW q \in Procs PROVE ExecutionOK(req[q]) /\ (req[q].at \in Asked => q \in Requests)
  BY DEF Executions
<1>3. ASSUME NEW q \in Procs, req'[q] = req[q] PROVE ExecutionOK(req[q])'
  <2>1. PICK x : x = req[q]
    OBVIOUS
  <2>2. \A b \in Blobs : BlobStep(b) /\ (b \in mega /\ blob[b] \in {"pending", "ready"} => b \in mega')
    BY BlobsStep DEF TypeOK
  <2>3. x.blob \in Blobs /\ ExecutionOK(x) => ExecutionOK(x)'
    BY <2>2 DEF BlobStep, ExecutionOK, Orphan
  <2>4. x.blob \notin Blobs /\ ExecutionOK(x) => ExecutionOK(x)'
    BY DEF ExecutionOK
  <2>5. req'[q] = x /\ ExecutionOK(x)
    BY <1>2, <1>3, <2>1
  <2> QED BY <2>3, <2>4, <2>5 DEF ExecutionOK
<1>4. CASE req' = req
  BY <1>1, <1>2, <1>3, <1>4 DEF Executions
<1>5. ASSUME NEW p \in Procs, NEW x \in Execution, Going(p, x)
      PROVE  req' \in [Procs -> Execution] /\ Executions'
  <2>1. req' \in [Procs -> Execution] /\ req'[p] = x /\ \A q \in Procs : q # p => req'[q] = req[q]
    BY <1>1, <1>5 DEF Going, Went
  <2>2. ExecutionOK(req[p])' /\ (req'[p].at \in Asked => p \in Requests)
    BY <1>5, <2>1 DEF Going, ExecutionOK
  <2> QED BY <1>2, <1>3, <2>1, <2>2 DEF Executions
<1> QED BY <1>4, <1>5, ExecutionsProceed DEF Proceeds

-----------------------------------------------------------------------------
(* Types and foreign keys                                                  *)

\* A file that is placed has the next id: no row had it.
LEMMA Placed ==
  ASSUME Types, NEW a \in Accounts, NEW b \in Blobs, NEW place \in Places, NewFile(a, b, place)
  PROVE  /\ lastFile + 1 \in Files /\ lastFile + 1 \notin Rows /\ lastFile' = lastFile + 1
         /\ file' \in [Files -> {None} \union FileRow] /\ lastFile' \in 0..MaxFiles
         /\ file'[lastFile + 1] = [acc |-> a, blob |-> b, place |-> place, trash |-> "live"]
         /\ \A f \in Files : f # lastFile + 1 => file'[f] = file[f]
         /\ Rows' = Rows \union {lastFile + 1}
         /\ \A f \in Rows' : f <= lastFile'
<1>1. /\ file \in [Files -> {None} \union FileRow] /\ lastFile \in 0..MaxFiles
      /\ \A f \in Rows : f <= lastFile
  BY DEF Types
<1>2. lastFile + 1 \in Files /\ lastFile + 1 \notin Rows /\ lastFile' \in 0..MaxFiles /\ lastFile' = lastFile + 1
  BY <1>1, SafeboxAssumption DEF NewFile, Files
<1>3. PICK n : n = lastFile + 1
  OBVIOUS
<1>4. PICK row \in FileRow : row = [acc |-> a, blob |-> b, place |-> place, trash |-> "live"]
  BY DEF FileRow
<1>5. file' = [file EXCEPT ![n] = row] /\ n \in Files /\ row # None
  BY <1>2, <1>3, <1>4, SafeboxAssumption DEF NewFile
<1>6. /\ file' \in [Files -> {None} \union FileRow] /\ file'[n] = row
      /\ \A f \in Files : f # n => file'[f] = file[f]
  BY <1>1, <1>5
<1>7. Rows' = Rows \union {n}
  BY <1>5, <1>6 DEF Rows
<1>8. \A f \in Rows' : f <= lastFile'
  BY <1>1, <1>2, <1>3, <1>7, SafeboxAssumption DEF Rows, Files
<1> QED BY <1>2, <1>3, <1>4, <1>6, <1>7, <1>8

\* Contents are finite: their numbers can be compared.
LEMMA BlobsFinite == ASSUME NEW S \in SUBSET Blobs PROVE IsFiniteSet(S) /\ Cardinality(S) \in Nat
<1>1. IsFiniteSet(Blobs)
  <2>1. 1 \in Int /\ MaxBlobs \in Int
    BY SafeboxAssumption
  <2> QED BY <2>1, FS_Interval DEF Blobs
<1>2. IsFiniteSet(S)
  BY <1>1, FS_Subset
<1> QED BY <1>2, FS_CardinalityType

\* The space that counts is part of the space used.
LEMMA SpaceBelowUsed ==
  ASSUME Types, NEW a \in Accounts
  PROVE  Used(a) \in Nat /\ Space(a) \in Nat /\ Space(a) <= Used(a) /\ quota[a] \in 0..PlusQuota
<1> DEFINE all == {file[f].blob : f \in Mine(a)}
           some == {file[f].blob : f \in Mine(a) \ ghosts}
<1>1. \A f \in Rows : file[f].blob \in Blobs
  BY DEF Types, Rows, FileRow
<1>2. all \in SUBSET Blobs /\ some \in SUBSET all
  BY <1>1 DEF Mine
<1>3. IsFiniteSet(all) /\ Cardinality(all) \in Nat /\ Cardinality(some) \in Nat
  BY <1>2, BlobsFinite
<1>4. Cardinality(some) <= Cardinality(all)
  BY <1>2, <1>3, FS_Subset
<1>5. quota[a] \in 0..PlusQuota
  BY SafeboxAssumption DEF Types
<1> QED BY <1>3, <1>4, <1>5 DEF Used, Space

\* The three steps that place one, and whose it is.
LEMMA PlacedBy ==
  ASSUME TypeOK, Executions, NEW p \in Procs, Insert(p) \/ Add(p) \/ Save(p)
  PROVE  /\ p \in Requests /\ req[p].acc \in Accounts
         /\ \/ UNCHANGED <<blob, file, lastFile, strays, ghosts>>
            \/ \E b \in Blobs, place \in Places :
                 /\ NewFile(req[p].acc, b, place)
                 /\ place = "album" => album[req[p].acc] # "gone"
                 /\ \/ /\ Insert(p) /\ blob[b] = "none" /\ blob' = [blob EXCEPT ![b] = "pending"]
                       /\ ghosts' = ghosts
                    \/ /\ Add(p) /\ b = req[p].blob /\ blob[b] \notin {"none", "gone"} /\ blob' = blob
                       /\ ghosts' = IF Of(b) \intersect Mine(req[p].acc) \subseteq ghosts
                                    THEN ghosts \union {lastFile + 1} ELSE ghosts
                    \/ /\ Save(p) /\ blob[b] = "ready" /\ blob' = blob /\ ghosts' = ghosts
                       /\ Used(req[p].acc) + 1 <= quota[req[p].acc]
<1>1. req[p].at \in {"reserve", "add", "keep"} /\ req[p] \in Execution
  BY DEF Insert, Add, Save, TypeOK, Types
<1>2. p \in Requests /\ req[p].acc \in Accounts
  BY <1>1 DEF Executions, ExecutionOK, Asked
<1>3. req[p].place \in Places
  BY <1>1 DEF Execution
<1>4. CASE Insert(p)
  <2>1. \A b \in Blobs : b >= b
    BY SafeboxAssumption DEF Blobs
  <2> QED BY <1>2, <1>3, <1>4, <2>1 DEF Insert
<1>5. CASE Add(p)
  <2>1. req[p].blob \in Blobs /\ blob[req[p].blob] # "none" /\ blob' = blob
    BY <1>5 DEF Add, Executions, ExecutionOK
  <2>2. "album" \in Places
    BY DEF Places
  <2> QED BY <1>2, <1>5, <2>1, <2>2 DEF Add
<1>6. CASE Save(p)
  <2>1. req[p].blob \in Blobs /\ blob' = blob /\ ghosts' = ghosts
    BY <1>6 DEF Save, Executions, ExecutionOK
  <2>2. \/ UNCHANGED <<file, lastFile, strays>>
        \/ /\ NewFile(req[p].acc, req[p].blob, req[p].place) /\ blob[req[p].blob] = "ready"
           /\ Used(req[p].acc) + 1 <= quota[req[p].acc]
           /\ req[p].place = "album" => album[req[p].acc] # "gone"
    <3>1. (Used(req[p].acc) + 1 > quota[req[p].acc]) \/ Used(req[p].acc) + 1 <= quota[req[p].acc]
      BY <1>2, SpaceBelowUsed DEF TypeOK
    <3> QED BY <1>6, <3>1 DEF Save
  <2> QED BY <1>2, <1>3, <1>6, <2>1, <2>2
<1> QED BY <1>4, <1>5, <1>6

\* The rest of the types, and the foreign key of the shares.
LEMMA RestTyped ==
  ASSUME TypeOK, Executions, Next
  PROVE  /\ album' \in [Accounts -> {"live", "trashed", "gone"}]
         /\ share' \in [Shares -> {None} \union ShareRow]
         /\ \A s \in Shares : share'[s] # None => share'[s].file \in Rows' \union {0}
         /\ quota' \in [Accounts -> {BaseQuota, PlusQuota}]
         /\ strays' \subseteq Files /\ faults' \in 0..MaxFaults
<1>1. /\ album \in [Accounts -> {"live", "trashed", "gone"}]
      /\ share \in [Shares -> {None} \union ShareRow]
      /\ \A s \in Shares : share[s] # None => share[s].file \in Rows \union {0}
      /\ quota \in [Accounts -> {BaseQuota, PlusQuota}]
      /\ strays \subseteq Files /\ faults \in 0..MaxFaults /\ Types
  BY DEF TypeOK, Types
<1> DEFINE Good ==
      /\ album' \in [Accounts -> {"live", "trashed", "gone"}]
      /\ share' \in [Shares -> {None} \union ShareRow]
      /\ \A s \in Shares : share'[s] # None => share'[s].file \in Rows' \union {0}
      /\ quota' \in [Accounts -> {BaseQuota, PlusQuota}]
      /\ strays' \subseteq Files /\ faults' \in 0..MaxFaults
<1> SUFFICES Good
  OBVIOUS
<1>2. ASSUME UNCHANGED <<share, quota>>, faults' \in 0..MaxFaults, album' \in [Accounts -> {"live", "trashed", "gone"}],
             strays' \subseteq Files, Rows \subseteq Rows'
      PROVE  Good
  BY <1>1, <1>2
<1>3. ASSUME NEW gone, DeleteFiles(gone), UNCHANGED <<lastFile, ghosts, quota, strays, faults>>,
             album' = album \/ \E a \in Accounts : album' = [album EXCEPT ![a] = "gone"]
      PROVE  Good
  <2>1. /\ share' \in [Shares -> {None} \union ShareRow]
        /\ \A f \in Files : file'[f] = IF f \in gone THEN None ELSE file[f]
    BY <1>1, <1>3, RowsDeleted
  <2>2. Rows' = Rows \ gone
    BY <2>1 DEF Rows
  <2>3. ASSUME NEW s \in Shares, share'[s] # None PROVE share'[s].file \in Rows' \union {0}
    <3>1. share'[s] = IF share[s] # None /\ share[s].file \in gone
                      THEN [share[s] EXCEPT !.file = 0] ELSE share[s]
      BY <1>3 DEF DeleteFiles
    <3>2. CASE share[s] # None /\ share[s].file \in gone
      <4>1. share[s] \in ShareRow
        BY <1>1, <3>2
      <4> QED BY <3>1, <3>2, <4>1 DEF ShareRow
    <3> QED BY <1>1, <2>2, <2>3, <3>1, <3>2
  <2>4. album' \in [Accounts -> {"live", "trashed", "gone"}]
    BY <1>1, <1>3
  <2> QED BY <1>1, <1>3, <2>1, <2>3, <2>4
<1>4. ASSUME NEW r \in Requests, Ask(r) PROVE Good
  <2>1. CASE UNCHANGED share
    <3>1. UNCHANGED <<file, album, share, quota, strays, faults>>
      BY <1>4, <2>1, AskedOnly
    <3> QED BY <1>1, <1>2, <3>1 DEF Rows
  <2>2. ASSUME NEW s \in Shares, Moderate(r, s) PROVE Good
    <3>1. /\ share' = [t \in Shares |->
                IF share[t] # None /\ (t = s \/ share[t].file \in Of(file[share[s].file].blob))
                THEN [share[t] EXCEPT !.revoked = TRUE] ELSE share[t]]
          /\ UNCHANGED <<file, album, quota, strays, faults>>
      BY <2>2 DEF Moderate, history
    <3>2. ASSUME NEW t \in Shares, share[t] # None
          PROVE  [share[t] EXCEPT !.revoked = TRUE] \in ShareRow /\ [share[t] EXCEPT !.revoked = TRUE].file = share[t].file
      BY <1>1, <3>2 DEF ShareRow
    <3> QED BY <1>1, <3>1, <3>2 DEF Rows
  <2> HIDE DEF Good
  <2> QED BY <1>4, <2>1, <2>2, AskedOnly
<1>5. ASSUME NEW p \in Procs, \/ Complete(p) \/ Keep(p) \/ ListAlbum(p) \/ ListExcess(p) \/ Mark(p) \/ DropRow(p)
                              \/ Collected(p)
      PROVE  Good
  <2>1. UNCHANGED <<file, album, share, quota, strays, faults>>
    BY <1>5 DEF Complete, Keep, ListAlbum, ListExcess, Mark, DropRow, Collected, folders, history
  <2> QED BY <1>1, <1>2, <2>1 DEF Rows
<1>6. ASSUME NEW p \in Procs, Remove(p) \/ Die(p) PROVE Good
  <2>1. UNCHANGED <<file, album, share, quota, strays>> /\ (faults' = faults \/ (faults < MaxFaults /\ faults' = faults + 1))
    BY <1>6 DEF Remove, Die, folders
  <2>2. faults' \in 0..MaxFaults
    BY <1>1, <2>1, SafeboxAssumption
  <2> QED BY <1>1, <1>2, <2>1, <2>2 DEF Rows
<1>7. ASSUME NEW p \in Procs, Taking(p) PROVE Good
  BY <1>3, <1>7, Taken
<1>8. ASSUME NEW p \in Procs, Restore(p) PROVE Good
  <2>1. /\ UNCHANGED <<album, share, quota, faults>>
        /\ strays' = strays \/ \E f \in Rows : strays' = strays \union {f}
    BY <1>8 DEF Restore, folders
  <2>2. Rows' = Rows
    BY <1>1, <1>8, MovesKeepRows DEF Moves
  <2> QED BY <1>1, <1>2, <2>1, <2>2 DEF Rows
<1>9. ASSUME NEW p \in Procs, Insert(p) \/ Add(p) \/ Save(p) PROVE Good
  <2>1. UNCHANGED <<album, share, quota, faults>>
    BY <1>9 DEF Insert, Add, Save, folders
  <2>2. CASE UNCHANGED <<file, strays>>
    BY <1>1, <1>2, <2>1, <2>2 DEF Rows
  <2>3. ASSUME NEW b \in Blobs, NEW place \in Places, NewFile(req[p].acc, b, place), req[p].acc \in Accounts
        PROVE  Good
    <3>1. Rows \subseteq Rows' /\ lastFile + 1 \in Files
      BY <1>1, <2>3, Placed
    <3>2. strays' \subseteq Files
      BY <1>1, <2>3, <3>1 DEF NewFile
    <3> QED BY <1>1, <1>2, <2>1, <3>1, <3>2
  <2> QED BY <1>9, <2>2, <2>3, PlacedBy
<1>10. ASSUME NEW b \in Blobs, Put(b) \/ GrowIdle(b) \/ Touch(b) PROVE Good
  <2>1. UNCHANGED <<file, album, share, quota, strays>> /\ (faults' = faults \/ (faults < MaxFaults /\ faults' = faults + 1))
    BY <1>10 DEF Put, GrowIdle, Touch, folders, history
  <2>2. faults' \in 0..MaxFaults
    BY <1>1, <2>1, SafeboxAssumption
  <2> QED BY <1>1, <1>2, <2>1, <2>2 DEF Rows
<1>11. ASSUME NEW f \in Files, NEW everywhere \in BOOLEAN, TrashFile(f, everywhere) PROVE Good
  <2>1. UNCHANGED <<album, share, quota, strays, faults>> /\ Rows' = Rows
    BY <1>1, <1>11, MovesKeepRows DEF TrashFile, Moves, folders, history
  <2> QED BY <1>1, <1>2, <2>1
<1>12. ASSUME NEW a \in Owners, TrashAlbum(a) \/ RestoreAlbum(a) PROVE Good
  <2>1. UNCHANGED <<share, quota, faults>> /\ Rows' = Rows /\ strays' \subseteq strays
    BY <1>1, <1>12, MovesKeepRows DEF TrashAlbum, RestoreAlbum, Moves, history
  <2>2. album' \in [Accounts -> {"live", "trashed", "gone"}]
    BY <1>1, <1>12, SafeboxAssumption DEF TrashAlbum, RestoreAlbum
  <2> QED BY <1>1, <1>2, <2>1, <2>2
<1>13. ASSUME NEW a \in Owners, PlusEnds(a) \/ PlusBegins(a) PROVE Good
  <2>1. /\ UNCHANGED <<file, album, share, strays, faults>>
        /\ \E space \in {BaseQuota, PlusQuota} : quota' = [quota EXCEPT ![a] = space]
    BY <1>13 DEF PlusEnds, PlusBegins, history
  <2> QED BY <1>1, <2>1 DEF Rows
<1>14. ASSUME NEW s \in Shares, Revoke(s) PROVE Good
  <2>1. /\ UNCHANGED <<file, album, quota, strays, faults>> /\ share[s] \in ShareRow
        /\ share' = [share EXCEPT ![s].revoked = TRUE]
    BY <1>1, <1>14 DEF Revoke, history
  <2>2. share' = [share EXCEPT ![s] = [share[s] EXCEPT !.revoked = TRUE]]
    BY <2>1
  <2>3. [share[s] EXCEPT !.revoked = TRUE] \in ShareRow /\ [share[s] EXCEPT !.revoked = TRUE].file = share[s].file
    BY <2>1 DEF ShareRow
  <2> QED BY <1>1, <1>14, <2>1, <2>2, <2>3 DEF Rows, Revoke
<1>15. ASSUME NEW s \in Shares, NEW f \in Files, CreateShare(s, f) PROVE Good
  <2>1. /\ UNCHANGED <<file, album, quota, strays, faults>> /\ f \in Rows
        /\ share' = [share EXCEPT ![s] = [sender |-> file[f].acc, file |-> f, revoked |-> FALSE]]
    BY <1>15 DEF CreateShare, Shown, Live, history
  <2>2. file[f].acc \in Accounts /\ f \in 0..MaxFiles
    BY <1>1, <2>1 DEF Types, Rows, FileRow, Files
  <2>3. [sender |-> file[f].acc, file |-> f, revoked |-> FALSE] \in ShareRow
    BY <2>2 DEF ShareRow
  <2> QED BY <1>1, <2>1, <2>3 DEF Rows
<1>16. CASE ExpireTrash
  <2>1. /\ UNCHANGED <<lastFile, ghosts, quota, strays, faults>>
        /\ album' = album \/ \E a \in Accounts : album' = [album EXCEPT ![a] = "gone"]
        /\ \E gone : DeleteFiles(gone)
    BY <1>16, SafeboxAssumption DEF ExpireTrash, BuryAlbum, history
  <2> QED BY <1>3, <2>1
<1>17. CASE ExpireAbandoned
  BY <1>3, <1>17 DEF ExpireAbandoned, history
<1>18. CASE ListOrphans \/ Reconcile \/ NotDue
  <2>1. UNCHANGED <<file, album, share, quota, strays, faults>>
    BY <1>18 DEF ListOrphans, Reconcile, NotDue, folders, history
  <2> QED BY <1>1, <1>2, <2>1 DEF Rows
<1> QED
  <2>1. ASSUME NEW p \in Procs, Continue(p) \/ Die(p) PROVE Good
    <3> HIDE DEF Good
    <3> QED BY <1>5, <1>6, <1>7, <1>8, <1>9, <2>1 DEF Continue, Taking
  <2> HIDE DEF Good
  <2> QED BY <1>4, <1>10, <1>11, <1>12, <1>13, <1>14, <1>15, <1>16, <1>17, <1>18, <2>1 DEF Next, Nightly

\* The types are kept by every step,
LEMMA TypeStep == ASSUME TypeOK, Executions, Next PROVE TypeOK'
<1>1. /\ Types /\ blob' \in [Blobs -> {"none", "pending", "ready", "deleting", "gone"}]
      /\ idle' \subseteq Blobs /\ mega' \subseteq Blobs /\ \A b \in Blobs : BlobStep(b)
  BY BlobsStep DEF TypeOK
<1>2. req' \in [Procs -> Execution]
  BY ExecutionsStay
<1>3. /\ file \in [Files -> {None} \union FileRow] /\ lastFile \in 0..MaxFiles
      /\ \A f \in Rows : f <= lastFile /\ blob[file[f].blob] \notin {"none", "gone"} /\ file[f].blob \in Blobs
      /\ ghosts \subseteq Files
  BY DEF TypeOK, Types, Rows, FileRow
<1> DEFINE Good == /\ file' \in [Files -> {None} \union FileRow] /\ lastFile' \in 0..MaxFiles
                   /\ \A f \in Rows' : f <= lastFile' /\ blob'[file'[f].blob] \notin {"none", "gone"}
                   /\ ghosts' \subseteq Files
<1>4. ASSUME NoneAdded PROVE Good
  <2>1. ASSUME NEW f \in Rows' PROVE f <= lastFile' /\ blob'[file'[f].blob] \notin {"none", "gone"}
    <3>1. f \in Rows /\ file'[f].blob = file[f].blob /\ lastFile' = lastFile
      BY <1>4 DEF NoneAdded, Rows
    <3>2. BlobStep(file[f].blob) /\ Of(file[f].blob) # {} /\ f <= lastFile /\ blob[file[f].blob] \notin {"none", "gone"}
      BY <1>1, <1>3, <3>1 DEF Of
    <3> QED BY <3>1, <3>2 DEF BlobStep
  <2> QED BY <1>3, <1>4, <2>1 DEF NoneAdded
<1>5. ASSUME NEW p \in Procs, Insert(p) \/ Add(p) \/ Save(p) PROVE Good
  <2>1. req[p].acc \in Accounts
    BY <1>5, PlacedBy
  <2>2. CASE UNCHANGED <<blob, file, lastFile, strays, ghosts>>
    BY <1>3, <2>2 DEF Rows
  <2>3. ASSUME NEW b \in Blobs, NEW place \in Places, NewFile(req[p].acc, b, place),
               \/ blob[b] = "none" /\ blob' = [blob EXCEPT ![b] = "pending"]
               \/ blob[b] \notin {"none", "gone"} /\ blob' = blob,
               ghosts' = ghosts \/ ghosts' = ghosts \union {lastFile + 1}
        PROVE  Good
    <3>1. /\ lastFile + 1 \in Files /\ lastFile + 1 \notin Rows /\ lastFile' = lastFile + 1
          /\ file' \in [Files -> {None} \union FileRow] /\ lastFile' \in 0..MaxFiles
          /\ file'[lastFile + 1] = [acc |-> req[p].acc, blob |-> b, place |-> place, trash |-> "live"]
          /\ \A f \in Files : f # lastFile + 1 => file'[f] = file[f]
          /\ Rows' = Rows \union {lastFile + 1}
          /\ \A f \in Rows' : f <= lastFile'
      BY <1>1, <2>1, <2>3, Placed
    <3>2. blob'[b] \notin {"none", "gone"} /\ \A c \in Blobs : blob[c] \notin {"none", "gone"} => blob'[c] \notin {"none", "gone"}
      <4>1. blob \in [Blobs -> {"none", "pending", "ready", "deleting", "gone"}]
        BY <1>1 DEF Types
      <4> QED BY <2>3, <4>1
    <3>3. ASSUME NEW f \in Rows' PROVE blob'[file'[f].blob] \notin {"none", "gone"}
      <4>1. CASE f = lastFile + 1
        BY <3>1, <3>2, <4>1
      <4>2. CASE f # lastFile + 1
        BY <1>3, <3>1, <3>2, <4>2 DEF Rows
      <4> QED BY <4>1, <4>2
    <3>4. ghosts' \subseteq Files
      BY <1>3, <2>3, <3>1
    <3> QED BY <3>1, <3>3, <3>4
  <2> HIDE DEF Good
  <2> QED BY <1>5, <2>2, <2>3, PlacedBy
<1>6. Good
  BY <1>1, <1>4, <1>5, FileStep DEF RowsKept
<1> QED BY <1>1, <1>2, <1>6, RestTyped DEF TypeOK, Types

-----------------------------------------------------------------------------
(* Contents                                                                *)

\* a ready blob keeps its blocks,
LEMMA StoredStays == ASSUME TypeOK, Executions, Stored, Next PROVE Stored'
  BY BlobsStep DEF TypeOK, Stored, BlobStep

\* and only ghosts designate a blob being deleted.
LEMMA MarkedStays == ASSUME TypeOK, Executions, Marked, Next PROVE Marked'
<1>1. Types /\ \A b \in Blobs : BlobStep(b)
  BY BlobsStep DEF TypeOK
<1>2. \A f \in Rows : file[f].blob \in Blobs
  BY <1>1 DEF Types, Rows, FileRow
<1>3. ASSUME NoneAdded PROVE Marked'
  <2>1. ASSUME NEW f \in Rows', blob'[file'[f].blob] = "deleting" PROVE f \in ghosts'
    <3>1. f \in Rows /\ file'[f].blob = file[f].blob /\ ghosts' = ghosts
      BY <1>3 DEF NoneAdded, Rows
    <3>2. BlobStep(file[f].blob) /\ Of(file[f].blob) # {}
      BY <1>1, <1>2, <3>1 DEF Of
    <3> QED BY <2>1, <3>1, <3>2 DEF BlobStep, Orphan, Marked
  <2> QED BY <2>1 DEF Marked
<1>4. ASSUME NEW p \in Procs, Insert(p) \/ Add(p) \/ Save(p) PROVE Marked'
  <2>1. req[p].acc \in Accounts /\ blob \in [Blobs -> {"none", "pending", "ready", "deleting", "gone"}]
    BY <1>1, <1>4, PlacedBy DEF Types
  <2>2. CASE UNCHANGED <<blob, file, lastFile, strays, ghosts>>
    BY <2>2 DEF Rows, Marked
  <2>3. ASSUME NEW b \in Blobs, NEW place \in Places, NewFile(req[p].acc, b, place),
               \/ blob[b] = "none" /\ blob' = [blob EXCEPT ![b] = "pending"] /\ ghosts' = ghosts
               \/ /\ blob[b] \notin {"none", "gone"} /\ blob' = blob
                  /\ ghosts' = IF Of(b) \intersect Mine(req[p].acc) \subseteq ghosts
                               THEN ghosts \union {lastFile + 1} ELSE ghosts
               \/ blob[b] = "ready" /\ blob' = blob /\ ghosts' = ghosts
        PROVE  Marked'
    <3>1. /\ file'[lastFile + 1] = [acc |-> req[p].acc, blob |-> b, place |-> place, trash |-> "live"]
          /\ \A f \in Files : f # lastFile + 1 => file'[f] = file[f]
          /\ Rows' = Rows \union {lastFile + 1}
      BY <1>1, <2>1, <2>3, Placed
    <3>2. ASSUME NEW f \in Rows, f # lastFile + 1, blob'[file'[f].blob] = "deleting" PROVE f \in ghosts'
      <4>1. file'[f] = file[f] /\ ghosts \subseteq ghosts'
        BY <2>3, <3>1, <3>2 DEF Rows
      <4>2. blob[file[f].blob] = "deleting"
        BY <1>2, <2>1, <2>3, <3>2, <4>1
      <4> QED BY <4>1, <4>2 DEF Marked
    <3>3. blob'[b] = "deleting" => lastFile + 1 \in ghosts'
      <4>1. blob[b] = "deleting" => Of(b) \subseteq ghosts
        BY DEF Of, Marked
      <4> QED BY <2>1, <2>3, <4>1
    <3> QED BY <3>1, <3>2, <3>3 DEF Marked
  <2> HIDE DEF Marked
  <2> QED BY <1>4, <2>2, <2>3, PlacedBy
<1> QED BY <1>3, <1>4, FileStep DEF RowsKept, TypeOK

-----------------------------------------------------------------------------
(* Space                                                                   *)

\* What counts of an account: its contents, those of ghosts apart.
Counted(a) == {file[f].blob : f \in Mine(a) \ ghosts}

\* The space of an account is the number of the contents that count.
LEMMA CountedFinite ==
  ASSUME Types, NEW a \in Accounts
  PROVE  Counted(a) \in SUBSET Blobs /\ Space(a) = Cardinality(Counted(a)) /\ Space(a) \in Nat
<1>1. \A f \in Rows : file[f].blob \in Blobs
  BY DEF Types, Rows, FileRow
<1>2. Counted(a) \in SUBSET Blobs
  BY <1>1 DEF Counted, Mine
<1> QED BY <1>2, BlobsFinite DEF Counted, Space

\* One content more takes one place more.
LEMMA OneMore ==
  ASSUME NEW S \in SUBSET Blobs, NEW b \in Blobs, NEW T \in SUBSET (S \union {b})
  PROVE  Cardinality(T) <= Cardinality(S) + 1
<1>1. IsFiniteSet(S) /\ Cardinality(S) \in Nat
  BY BlobsFinite
<1>2. IsFiniteSet(S \union {b}) /\ Cardinality(S \union {b}) <= Cardinality(S) + 1
  <2>1. /\ IsFiniteSet(S \union {b})
        /\ Cardinality(S \union {b}) = IF b \in S THEN Cardinality(S) ELSE Cardinality(S) + 1
    BY <1>1, FS_AddElement
  <2> QED BY <1>1, <2>1
<1>3. Cardinality(T) <= Cardinality(S \union {b})
  BY <1>2, FS_Subset
<1>4. T \in SUBSET Blobs /\ S \union {b} \in SUBSET Blobs
  OBVIOUS
<1>5. Cardinality(T) \in Nat /\ Cardinality(S \union {b}) \in Nat
  BY <1>4, BlobsFinite
<1> QED BY <1>1, <1>2, <1>3, <1>5

\* An account takes more space only by an upload it has reserved or a share it keeps.
LEMMA SpaceStep ==
  ASSUME TypeOK, Executions, Next, NEW a \in Accounts
  PROVE  \/ Space(a)' <= Space(a)
         \/ \E p \in Requests : req[p].acc = a /\ Insert(p) /\ Space(a)' <= Space(a) + 1
         \/ \E p \in Requests : /\ req[p].acc = a /\ Save(p) /\ Space(a)' <= Space(a) + 1
                              /\ Used(a) + 1 <= quota[a]
<1>1. Types /\ Types' /\ TypeOK'
  BY TypeStep DEF TypeOK
<1>2. /\ Counted(a) \in SUBSET Blobs /\ Space(a) = Cardinality(Counted(a)) /\ Space(a) \in Nat
      /\ Counted(a)' \in SUBSET Blobs /\ Space(a)' = Cardinality(Counted(a)')
  <2>1. Counted(a) \in SUBSET Blobs /\ Space(a) = Cardinality(Counted(a)) /\ Space(a) \in Nat
    BY <1>1, CountedFinite
  <2>2. (Counted(a) \in SUBSET Blobs /\ Space(a) = Cardinality(Counted(a)))'
    BY <1>1, CountedFinite, PTL
  <2> QED BY <2>1, <2>2
<1>3. ASSUME Counted(a)' \subseteq Counted(a) PROVE Space(a)' <= Space(a)
  BY <1>2, <1>3, BlobsFinite, FS_Subset
<1>4. ASSUME NoneAdded PROVE Counted(a)' \subseteq Counted(a)
  BY <1>4 DEF NoneAdded, Counted, Mine, Rows
<1>5. ASSUME UNCHANGED <<file, ghosts>> PROVE Counted(a)' \subseteq Counted(a)
  BY <1>5 DEF Counted, Mine, Rows
<1>6. ASSUME NEW p \in Requests, NEW b \in Blobs, NEW place \in Places,
             NewFile(req[p].acc, b, place), req[p].acc \in Accounts, ghosts \subseteq ghosts'
      PROVE  /\ Counted(a)' \subseteq Counted(a) \union {b}
             /\ req[p].acc # a \/ lastFile + 1 \in ghosts' => Counted(a)' \subseteq Counted(a)
  <2>1. /\ file'[lastFile + 1] = [acc |-> req[p].acc, blob |-> b, place |-> place, trash |-> "live"]
        /\ \A f \in Files : f # lastFile + 1 => file'[f] = file[f]
        /\ Rows' = Rows \union {lastFile + 1}
    BY <1>1, <1>6, Placed
  <2>2. ASSUME NEW f \in Mine(a)' \ ghosts', f # lastFile + 1
        PROVE  f \in Mine(a) \ ghosts /\ file'[f].blob = file[f].blob
    BY <1>6, <2>1, <2>2 DEF Mine, Rows
  <2>3. lastFile + 1 \in Mine(a)' => req[p].acc = a
    BY <2>1 DEF Mine
  <2> QED BY <2>1, <2>2, <2>3 DEF Counted
<1>7. ASSUME NEW b \in Blobs, Counted(a)' \subseteq Counted(a) \union {b} PROVE Space(a)' <= Space(a) + 1
  BY <1>2, <1>7, OneMore
<1>8. ASSUME NEW p \in Procs, Insert(p) \/ Add(p) \/ Save(p), ~(Counted(a)' \subseteq Counted(a))
      PROVE  \/ p \in Requests /\ req[p].acc = a /\ Insert(p) /\ Space(a)' <= Space(a) + 1
             \/ /\ p \in Requests /\ req[p].acc = a /\ Save(p) /\ Space(a)' <= Space(a) + 1
                /\ Used(a) + 1 <= quota[a]
  <2>1. p \in Requests /\ req[p].acc \in Accounts /\ ~UNCHANGED <<blob, file, lastFile, strays, ghosts>>
    BY <1>5, <1>8, PlacedBy
  <2>2. PICK b \in Blobs, place \in Places :
          /\ NewFile(req[p].acc, b, place)
          /\ \/ Insert(p) /\ ghosts' = ghosts
             \/ /\ Add(p) /\ b = req[p].blob
                /\ ghosts' = IF Of(b) \intersect Mine(req[p].acc) \subseteq ghosts
                             THEN ghosts \union {lastFile + 1} ELSE ghosts
             \/ Save(p) /\ ghosts' = ghosts /\ Used(req[p].acc) + 1 <= quota[req[p].acc]
    BY <1>8, <2>1, PlacedBy
  <2>3. /\ Counted(a)' \subseteq Counted(a) \union {b} /\ req[p].acc = a
        /\ lastFile + 1 \notin ghosts'
    BY <1>6, <1>8, <2>1, <2>2
  <2>4. Space(a)' <= Space(a) + 1
    BY <1>7, <2>3
  <2>5. ~(Of(b) \intersect Mine(a) \subseteq ghosts) => b \in Counted(a)
    BY DEF Of, Counted
  <2>6. Insert(p) \/ (Save(p) /\ Used(a) + 1 <= quota[a])
    BY <1>8, <2>2, <2>3, <2>5
  <2> QED BY <2>1, <2>3, <2>4, <2>6
<1> QED BY <1>3, <1>4, <1>8, FileStep DEF RowsKept, TypeOK

\* An account stays in its space, and a reservation under way still has its place.
LEMMA SpaceStays ==
  ASSUME TypeOK, Executions, QuotaKept, Room, Next PROVE QuotaKept' /\ Room'
<1>1. \A a \in Accounts : quota[a] <= PlusQuota /\ quota[a] \in Nat /\ Space(a) <= Used(a)
                         /\ Space(a) \in Nat /\ Used(a) \in Nat
  BY SpaceBelowUsed, SafeboxAssumption DEF TypeOK
<1>2. \A a \in Accounts : Space(a)' \in Nat
  <2>1. Types'
    BY TypeStep DEF TypeOK
  <2>2. ASSUME NEW a \in Accounts PROVE (Space(a) \in Nat)'
    BY <2>1, CountedFinite, PTL
  <2> QED BY <2>2
<1>3. \A r \in Requests : (Insert(r) => req[r].at = "reserve") /\ (Save(r) => req[r].at = "keep")
  BY DEF Insert, Save
<1>4. QuotaKept'
  <2>1. ASSUME NEW a \in Accounts PROVE Space(a)' <= PlusQuota
    BY <1>1, <1>2, <1>3, SpaceStep, SafeboxAssumption DEF QuotaKept, Room
  <2> QED BY <2>1 DEF QuotaKept
<1>5. ASSUME NEW p \in Requests, req'[p].at = "reserve"
      PROVE  \/ req'[p] = req[p]
             \/ \E a \in Accounts : /\ Used(a) + 1 <= quota[a] /\ ~Locked(a) /\ UNCHANGED <<file, ghosts>>
                                  /\ req'[p].acc = a /\ \A q \in Requests : q # p => req'[q] = req[q]
  <2>1. p \in Procs /\ req \in [Procs -> Execution]
    BY DEF TypeOK, Types, Procs
  <2>2. CASE req' = req
    BY <2>2
  <2>3. ASSUME NEW q \in Procs, NEW x \in Execution, Going(q, x), q # p PROVE req'[p] = req[p]
    BY <2>1, <2>3 DEF Going, Went
  <2>4. ASSUME NEW x \in Execution, Going(p, x)
        PROVE  \E a \in Accounts : /\ Used(a) + 1 <= quota[a] /\ ~Locked(a) /\ UNCHANGED <<file, ghosts>>
                                /\ req'[p].acc = a /\ \A q \in Requests : q # p => req'[q] = req[q]
    <3>1. req'[p] = x /\ x.at = "reserve"
      BY <1>5, <2>1, <2>4 DEF Going, Went
    <3>2. PICK a \in Owners, place \in Places : Reserve(p, a, place)
      BY <2>4, <3>1 DEF Going
    <3>3. /\ a \in Accounts /\ Used(a) + 1 <= quota[a] /\ ~Locked(a) /\ UNCHANGED <<file, ghosts>>
          /\ req' = [req EXCEPT ![p] = [Resting EXCEPT !.at = "reserve", !.acc = a, !.place = place]]
      BY <3>2, SafeboxAssumption DEF Reserve, Begin, history
    <3>4. req'[p] = [Resting EXCEPT !.at = "reserve", !.acc = a, !.place = place]
      BY <2>1, <3>3
    <3>5. req'[p].acc = a
      BY <3>4 DEF Resting
    <3>6. \A q \in Requests : q # p => req'[q] = req[q]
      BY <2>1, <3>3 DEF Procs
    <3> QED BY <3>3, <3>5, <3>6
  <2> QED BY <2>2, <2>3, <2>4, ExecutionsProceed DEF Proceeds
<1>6. ASSUME NEW p \in Requests, req'[p].at = "reserve" PROVE (Space(req[p].acc) + 1 <= PlusQuota)'
  <2>1. PICK a \in Accounts : a = req'[p].acc
    BY <1>6, ExecutionsStay DEF Executions, ExecutionOK, Procs
  <2>2. CASE req'[p] = req[p]
    <3>1. Space(a) + 1 <= PlusQuota /\ req[p].at = "reserve" /\ req[p].acc = a
      BY <1>6, <2>1, <2>2 DEF Room
    <3>2. ~\E q \in Requests : req[q].acc = a /\ (Insert(q) \/ Save(q))
      <4>1. ASSUME NEW q \in Requests, req[q].acc = a, Insert(q) \/ Save(q) PROVE FALSE
        <5>1. q = p
          BY <1>3, <3>1, <4>1 DEF Room, Holding
        <5>2. req'[p] = Resting
          BY <4>1, <5>1 DEF Insert, Save, Finish, TypeOK, Types, Procs
        <5> QED BY <1>6, <5>2 DEF Resting
      <4> QED BY <4>1
    <3>4. Space(a)' <= Space(a)
      BY <3>2, SpaceStep
    <3> QED BY <1>1, <1>2, <2>1, <3>1, <3>4, SafeboxAssumption
  <2>3. CASE Used(a) + 1 <= quota[a] /\ UNCHANGED <<file, ghosts>>
    <3>1. Space(a)' = Space(a)
      BY <2>3 DEF Space, Mine, Rows
    <3> QED BY <1>1, <2>1, <2>3, <3>1, SafeboxAssumption
  <2> QED BY <1>5, <1>6, <2>1, <2>2, <2>3
<1>7. ASSUME NEW p \in Requests, req'[p].at \in Holding
      PROVE  req'[p] = req[p] \/ (~Locked(req'[p].acc) /\ \A q \in Requests : q # p => req'[q] = req[q])
  <2>1. p \in Procs /\ req \in [Procs -> Execution] /\ Requests \subseteq Procs
    BY DEF TypeOK, Types, Procs
  <2>2. ASSUME NEW q \in Procs, NEW x \in Execution, Going(q, x), q # p PROVE req'[p] = req[p]
    BY <2>1, <2>2 DEF Going, Went
  <2>3. ASSUME NEW x \in Execution, Going(p, x)
        PROVE  ~Locked(req'[p].acc) /\ \A q \in Requests : q # p => req'[q] = req[q]
    BY <1>7, <2>1, <2>3 DEF Going, Went
  <2> QED BY <2>2, <2>3, ExecutionsProceed DEF Proceeds
<1>8. ASSUME NEW p \in Requests, NEW q \in Requests, req'[p].at \in Holding, req'[q].at \in Holding,
             req'[p].acc = req'[q].acc, p # q
      PROVE  FALSE
  <2>1. ASSUME NEW r \in Requests, NEW t \in Requests, r # t, req'[t] = req[t], req'[t].at \in Holding,
               ~Locked(req'[t].acc)
        PROVE  FALSE
    BY <2>1 DEF Locked, Holding
  <2> QED BY <1>7, <1>8, <2>1 DEF Room
<1> QED BY <1>4, <1>6, <1>8 DEF Room

-----------------------------------------------------------------------------
(* Trash                                                                   *)

\* A step that moves no file to the trash, out of it or to a folder, and no album.
Still == /\ \A f \in Rows' : f \in Rows /\ file'[f] = file[f]
         /\ \A a \in Accounts : album'[a] = "trashed" => album[a] = "trashed"
         /\ strays \subseteq strays'

\* A step leaves rows and albums alone, moves some, or places one.
LEMMA StillUnless ==
  ASSUME Types, Executions, Next
  PROVE  Still \/ Moves \/ \E p \in Procs : Insert(p) \/ Add(p) \/ Save(p)
<1>1. album \in [Accounts -> {"live", "trashed", "gone"}]
  BY DEF Types
<1>2. ASSUME UNCHANGED <<file, album, strays>> PROVE Still
  BY <1>2 DEF Still, Rows
<1>3. ASSUME NEW gone, DeleteFiles(gone), UNCHANGED strays,
             album' = album \/ \E a \in Accounts : album' = [album EXCEPT ![a] = "gone"]
      PROVE  Still
  BY <1>1, <1>3 DEF Still, DeleteFiles, Rows
<1>4. ASSUME NEW r \in Requests, Ask(r) PROVE Still
  BY <1>2, <1>4, AskedOnly
<1>5. ASSUME NEW p \in Procs, \/ Complete(p) \/ Keep(p) \/ ListAlbum(p) \/ ListExcess(p) \/ Mark(p) \/ Remove(p)
                              \/ DropRow(p) \/ Collected(p) \/ Die(p)
      PROVE Still
  BY <1>2, <1>5 DEF Complete, Keep, ListAlbum, ListExcess, Mark, Remove, DropRow, Collected, Die, history, folders
<1>6. ASSUME NEW p \in Procs, Taking(p) PROVE Still
  BY <1>3, <1>6, Taken
<1>7. ASSUME NEW b \in Blobs, Put(b) \/ GrowIdle(b) \/ Touch(b) PROVE Still
  BY <1>2, <1>7 DEF Put, GrowIdle, Touch, history, folders
<1>8. ASSUME NEW a \in Owners, PlusEnds(a) \/ PlusBegins(a) PROVE Still
  BY <1>2, <1>8 DEF PlusEnds, PlusBegins, history
<1>9. ASSUME NEW s \in Shares, Revoke(s) \/ \E f \in Files : CreateShare(s, f) PROVE Still
  BY <1>2, <1>9 DEF Revoke, CreateShare, history
<1>10. CASE ExpireTrash \/ ExpireAbandoned
  <2>1. /\ UNCHANGED strays /\ \E gone : DeleteFiles(gone)
        /\ album' = album \/ \E a \in Accounts : album' = [album EXCEPT ![a] = "gone"]
    BY <1>10, SafeboxAssumption DEF ExpireTrash, ExpireAbandoned, BuryAlbum, history
  <2> QED BY <1>3, <2>1
<1>11. CASE ListOrphans \/ Reconcile \/ NotDue
  BY <1>2, <1>11 DEF ListOrphans, Reconcile, NotDue, history, folders
<1> QED BY <1>4, <1>5, <1>6, <1>7, <1>8, <1>9, <1>10, <1>11 DEF Next, Continue, Nightly, Moves, Taking

\* A live file in an album of the trash came too late.
LEMMA AstrayStays == ASSUME TypeOK, Executions, Astray, Next PROVE Astray'
<1>1. /\ Types /\ file \in [Files -> {None} \union FileRow]
      /\ album \in [Accounts -> {"live", "trashed", "gone"}]
      /\ \A f \in Rows : file[f].acc \in Accounts
  BY DEF TypeOK, Types, Rows, FileRow
<1>2. ASSUME Still PROVE Astray'
  BY <1>1, <1>2 DEF Still, Astray, Live
<1>3. ASSUME NEW p \in Procs, Insert(p) \/ Add(p) \/ Save(p) PROVE Astray'
  <2>1. album' = album /\ req[p].acc \in Accounts
    BY <1>3, PlacedBy DEF Insert, Add, Save, folders
  <2>2. CASE UNCHANGED <<file, strays>>
    BY <2>1, <2>2 DEF Astray, Live, Rows
  <2>3. ASSUME NEW b \in Blobs, NEW place \in Places, NewFile(req[p].acc, b, place) PROVE Astray'
    <3>1. /\ file'[lastFile + 1] = [acc |-> req[p].acc, blob |-> b, place |-> place, trash |-> "live"]
          /\ \A f \in Files : f # lastFile + 1 => file'[f] = file[f]
          /\ Rows' = Rows \union {lastFile + 1}
      BY <1>1, <2>1, <2>3, Placed
    <3>2. /\ strays \subseteq strays'
          /\ place = "album" /\ album[req[p].acc] = "trashed" => lastFile + 1 \in strays'
      BY <2>3 DEF NewFile
    <3>3. ASSUME NEW f \in Rows', Live(f)', file'[f].place = "album", album'[file'[f].acc] = "trashed"
          PROVE  f \in strays'
      <4>1. CASE f = lastFile + 1
        BY <2>1, <3>1, <3>2, <3>3, <4>1
      <4>2. CASE f # lastFile + 1
        <5>1. f \in Rows /\ file'[f] = file[f]
          BY <3>1, <4>2 DEF Rows
        <5> QED BY <2>1, <3>2, <3>3, <5>1 DEF Astray, Live
      <4> QED BY <4>1, <4>2
    <3> QED BY <3>3 DEF Astray
  <2> HIDE DEF Astray
  <2> QED BY <1>3, <2>2, <2>3, PlacedBy
<1>4. ASSUME NEW p \in Procs, Restore(p) PROVE Astray'
  <2>1. album' = album /\ Rows' = Rows
    BY <1>1, <1>4, MovesKeepRows DEF Restore, Moves, folders
  <2>2. CASE UNCHANGED <<file, strays>>
    BY <2>1, <2>2 DEF Astray, Live
  <2>3. ASSUME NEW f \in Rows, f = req[p].file PROVE Astray'
    <3>1. PICK q : q = IF req[p].place = "root" THEN "root" ELSE file[f].place
      OBVIOUS
    <3>2. file' = [file EXCEPT ![f].trash = "live", ![f].place = q]
      BY <1>4, <2>3, <3>1 DEF Restore
    <3>3. /\ \A g \in Rows : g # f => file'[g] = file[g]
          /\ file'[f].acc = file[f].acc
      BY <1>1, <3>2 DEF Rows, FileRow
    <3>4. strays' = IF file'[f].place = "album" /\ album[file[f].acc] = "trashed" THEN strays \union {f} ELSE strays
      BY <1>4, <2>3 DEF Restore
    <3>5. ASSUME NEW g \in Rows, Live(g)', file'[g].place = "album", album[file'[g].acc] = "trashed"
          PROVE  g \in strays'
      <4>1. CASE g = f
        BY <3>3, <3>4, <3>5, <4>1
      <4>2. CASE g # f
        BY <2>1, <3>3, <3>4, <3>5, <4>2 DEF Astray, Live
      <4> QED BY <4>1, <4>2
    <3> QED BY <2>1, <3>5 DEF Astray
  <2> HIDE DEF Astray
  <2> QED BY <1>4, <2>2, <2>3 DEF Restore
<1>5. ASSUME NEW f \in Files, NEW everywhere \in BOOLEAN, TrashFile(f, everywhere) PROVE Astray'
  <2>1. /\ \A g \in Files : file'[g] = file[g] \/ (g \in Rows /\ file'[g] = [file[g] EXCEPT !.trash = "own"])
        /\ UNCHANGED <<album, strays>>
    BY <1>5 DEF TrashFile, Live, folders, history
  <2>2. ASSUME NEW g \in Rows', Live(g)' PROVE g \in Rows /\ file'[g] = file[g]
    BY <1>1, <2>1, <2>2 DEF Rows, Live, FileRow
  <2> QED BY <2>1, <2>2 DEF Astray, Live
<1>6. ASSUME NEW a \in Owners, TrashAlbum(a) PROVE Astray'
  <2>1. /\ file' = [f \in Files |-> IF Live(f) /\ f \in InAlbum(a) THEN [file[f] EXCEPT !.trash = "album"]
                                    ELSE file[f]]
        /\ album' = [album EXCEPT ![a] = "trashed"] /\ strays' = strays
    BY <1>6 DEF TrashAlbum, history
  <2>2. ASSUME NEW g \in Rows', Live(g)' PROVE g \in Rows /\ file'[g] = file[g] /\ g \notin InAlbum(a)
    BY <1>1, <2>1, <2>2 DEF Rows, Live, FileRow, InAlbum, Mine
  <2>3. ASSUME NEW g \in Rows', Live(g)', file'[g].place = "album" PROVE file[g].acc # a
    BY <2>2, <2>3 DEF InAlbum, Mine
  <2> QED BY <1>1, <2>1, <2>2, <2>3 DEF Astray, Live
<1>7. ASSUME NEW a \in Owners, RestoreAlbum(a) PROVE Astray'
  <2>1. /\ file' = [f \in Files |-> IF f \in Mine(a) /\ file[f].trash = "album"
                                    THEN [file[f] EXCEPT !.trash = "live"] ELSE file[f]]
        /\ album' = [album EXCEPT ![a] = "live"] /\ strays' = strays \ InAlbum(a)
    BY <1>7 DEF RestoreAlbum
  <2>2. ASSUME NEW g \in Rows', album'[file'[g].acc] = "trashed"
        PROVE  g \in Rows /\ file'[g] = file[g] /\ file[g].acc # a /\ album[file[g].acc] = "trashed"
    BY <1>1, <2>1, <2>2, SafeboxAssumption DEF Rows, Mine, FileRow
  <2>3. ASSUME NEW g \in Rows', Live(g)', file'[g].place = "album", album'[file'[g].acc] = "trashed"
        PROVE  g \in strays'
    <3>1. g \in Rows /\ file'[g] = file[g] /\ file[g].acc # a /\ album[file[g].acc] = "trashed"
      BY <2>2, <2>3
    <3>2. g \in strays
      BY <2>3, <3>1 DEF Astray, Live
    <3> QED BY <2>1, <3>1, <3>2 DEF InAlbum, Mine
  <2> QED BY <2>3 DEF Astray
<1>8. CASE Moves
  BY <1>4, <1>5, <1>6, <1>7, <1>8 DEF Moves
<1> QED BY <1>1, <1>2, <1>3, <1>8, StillUnless

\* The steps that delete rows.
Deletes ==
  \/ \E p \in Procs : Taking(p)
  \/ ExpireTrash \/ ExpireAbandoned

\* A row disappears by a deletion only.
LEMMA OnlyDeletes ==
  ASSUME Types, Next, NEW f \in Rows, f \notin Rows' PROVE Deletes
<1>1. file' # file
  BY DEF Rows
<1>2. ASSUME NEW r \in Requests PROVE ~Ask(r)
  BY <1>1, AskedOnly
<1>3. ASSUME NEW p \in Procs
      PROVE  ~ \/ Complete(p) \/ Keep(p) \/ ListAlbum(p) \/ ListExcess(p) \/ Mark(p) \/ Remove(p) \/ DropRow(p)
               \/ Collected(p) \/ Die(p)
  BY <1>1 DEF Complete, Keep, ListAlbum, ListExcess, Mark, Remove, DropRow, Collected, Die
<1>4. ASSUME NEW p \in Procs, Insert(p) \/ Add(p) \/ Save(p) PROVE FALSE
  <2>1. \A a, b, place : NewFile(a, b, place) => file' = [file EXCEPT ![lastFile + 1] =
          [acc |-> a, blob |-> b, place |-> place, trash |-> "live"]]
    BY DEF NewFile
  <2>2. file \in [Files -> {None} \union FileRow] /\ f \in Files /\ f <= lastFile /\ lastFile \in Int
    BY SafeboxAssumption DEF Types, Rows
  <2>3. f # lastFile + 1
    BY <2>2, SafeboxAssumption DEF Files
  <2>4. \E a, b, place : NewFile(a, b, place)
    BY <1>1, <1>4 DEF Insert, Add, Save
  <2> QED BY <2>1, <2>2, <2>3, <2>4 DEF Rows
<1>5. ~Moves
  BY MovesKeepRows
<1>6. ASSUME NEW b \in Blobs PROVE ~(Put(b) \/ GrowIdle(b) \/ Touch(b))
  BY <1>1 DEF Put, GrowIdle, Touch
<1>7. ASSUME NEW a \in Owners PROVE ~(PlusEnds(a) \/ PlusBegins(a))
  BY <1>1 DEF PlusEnds, PlusBegins
<1>8. ASSUME NEW s \in Shares PROVE ~(Revoke(s) \/ \E g \in Files : CreateShare(s, g))
  BY <1>1 DEF Revoke, CreateShare
<1>9. ~(ListOrphans \/ Reconcile \/ NotDue)
  BY <1>1 DEF ListOrphans, Reconcile, NotDue
<1> QED BY <1>2, <1>3, <1>4, <1>5, <1>6, <1>7, <1>8, <1>9 DEF Next, Continue, Nightly, Moves, Taking, Deletes

\* Something exceeds the space of an account without Alanya Plus only when the account does.
LEMMA ExcessOver ==
  ASSUME Types, NEW a \in Accounts, NEW files \in SUBSET Mine(a), NEW b \in Excess(files)
  PROVE  Used(a) > BaseQuota
<1> DEFINE shown == {file[f].blob : f \in {g \in files : Shown(g)}}
           newest == [c \in shown |-> Max({f \in files : Shown(f) /\ file[f].blob = c})]
           above == {c \in shown : c = b \/ newest[c] > newest[b]}
           some  == {file[f].blob : f \in files}
           all   == {file[f].blob : f \in Mine(a)}
<1>1. \A f \in Rows : file[f].blob \in Blobs
  BY DEF Types, Rows, FileRow
<1>2. above \in SUBSET Blobs /\ some \in SUBSET all /\ all \in SUBSET Blobs
  BY <1>1 DEF Mine
<1>3. Cardinality(above) \in Nat /\ Cardinality(some) \in Nat /\ Cardinality(all) \in Nat
  BY <1>2, BlobsFinite
<1>4. IsFiniteSet(all) /\ Cardinality(some) <= Cardinality(all)
  BY <1>2, BlobsFinite, FS_Subset
<1>5. b \in shown /\ Cardinality(above) <= Cardinality(some) - BaseQuota
  BY DEF Excess
<1>6. b \in above
  BY <1>5
<1>7. Cardinality(above) # 0
  BY <1>2, <1>6, BlobsFinite, FS_EmptySet
<1> QED BY <1>3, <1>4, <1>5, <1>7, SafeboxAssumption DEF Used

\* A file that is shown and deleted.
LEMMA Deleted ==
  ASSUME Inv, Next, NEW f \in Rows, Shown(f), file'[f] = None
  PROVE  f \in strays \/ \E r \in Requests : Condemned(r, f)
<1>1. /\ Live(f) /\ blob[file[f].blob] = "ready" /\ file[f].trash = "live" /\ f \notin Rows' /\ f \in Files
      /\ file[f].place = "album" /\ album[file[f].acc] = "trashed" => f \in strays
  BY DEF Shown, Live, Rows, Inv, Astray
<1>2. \A gone : DeleteFiles(gone) => f \in gone
  BY <1>1 DEF DeleteFiles, Rows
<1>3. ASSUME NEW p \in Procs, req[p].at \in Asked PROVE p \in Requests
  BY <1>3 DEF Inv, Executions
<1>4. ASSUME NEW p \in Procs, Cancel(p) \/ DropFile(p) PROVE \E r \in Requests : Condemned(r, f)
  <2>1. p \in Requests /\ req[p].at \in {"cancel", "drop"} /\ req[p].file = f
    BY <1>2, <1>3, <1>4 DEF Cancel, DropFile, Asked
  <2> QED BY <2>1 DEF Condemned
<1>5. ASSUME NEW p \in Procs, Erase(p) PROVE \E r \in Requests : Condemned(r, f)
  <2>1. p \in Requests /\ req[p].at = "erase" /\ req[p].blob = file[f].blob
    BY <1>2, <1>3, <1>5 DEF Erase, Of, Asked
  <2> QED BY <2>1 DEF Condemned
<1>6. ASSUME NEW p \in Procs, DropAlbum(p) PROVE f \in strays \/ \E r \in Requests : Condemned(r, f)
  <2>1. /\ p \in Requests /\ req[p].at = "cascade" /\ req[p].acc = file[f].acc /\ file[f].place = "album"
    BY <1>2, <1>3, <1>6 DEF DropAlbum, InAlbum, Mine, Asked
  <2> QED BY <1>1, <2>1 DEF Condemned
<1>7. \A a : f \in BuriedWith(a) => f \in strays
  BY <1>1 DEF BuriedWith, InAlbum, Mine
<1>8. ASSUME NEW p \in Procs, Empty(p) PROVE f \in strays
  <2>1. f \in Trashed(req[p].acc) \/ f \in BuriedWith(req[p].acc)
    BY <1>2, <1>8 DEF Empty
  <2> QED BY <1>1, <1>7, <2>1 DEF Trashed
<1>9. ASSUME NEW p \in Procs, PurgeExcess(p) PROVE f \in strays \/ \E r \in Requests : Condemned(r, f)
  <2> DEFINE a    == req[p].acc
             kept == Mine(a) \ (req[p].doomed \union BuriedWith(a))
  <2>1. p \in Requests /\ req[p].at = "purge" /\ a \in Accounts
    BY <1>3, <1>9 DEF PurgeExcess, Asked, Inv, Executions, ExecutionOK
  <2>2. CASE f \in req[p].doomed
    BY <2>1, <2>2 DEF Condemned
  <2>3. CASE f \in BuriedWith(a)
    BY <1>7, <2>3
  <2>4. CASE f \in kept /\ file[f].blob \in Excess(kept)
    <3>1. Used(a) > BaseQuota
      BY <2>1, <2>4, ExcessOver DEF Inv, TypeOK
    <3>2. file[f].acc = a
      BY <2>4 DEF Mine
    <3> QED BY <2>1, <3>1, <3>2 DEF Condemned
  <2>5. f \in req[p].doomed \union BuriedWith(a) \union {g \in kept : Live(g) /\ file[g].blob \in Excess(kept)}
    BY <1>2, <1>9 DEF PurgeExcess
  <2> HIDE DEF kept
  <2> QED BY <2>2, <2>3, <2>4, <2>5
<1>10. CASE ExpireTrash
  <2>1. PICK old \in SUBSET {g \in Rows : ~Live(g)}, a \in Owners :
          DeleteFiles(old \union BuriedWith(a)) \/ DeleteFiles(old)
    BY <1>10 DEF ExpireTrash
  <2>2. f \in BuriedWith(a)
    BY <1>1, <1>2, <2>1
  <2> QED BY <1>7, <2>2
<1>11. ~ExpireAbandoned
  BY <1>1, <1>2 DEF ExpireAbandoned
<1> QED BY <1>1, <1>4, <1>5, <1>6, <1>8, <1>9, <1>10, <1>11, OnlyDeletes DEF Deletes, Taking, Inv, TypeOK

-----------------------------------------------------------------------------
(* The theorems                                                            *)

\* The invariant holds at the start,
LEMMA Initially == ASSUME Init PROVE Inv
<1> USE SafeboxAssumption DEF Init
<1>1. Rows = {}
  BY DEF Rows
<1>2. \A a \in Accounts : Space(a) = 0
  <2>1. \A a \in Accounts : {file[f].blob : f \in Mine(a) \ ghosts} = {}
    BY <1>1 DEF Mine
  <2> QED BY <2>1, FS_EmptySet DEF Space
<1>3. req \in [Procs -> Execution] /\ \A p \in Procs : req[p] = Resting
  BY RestingTyped
<1>4. TypeOK
  BY <1>1, <1>3 DEF TypeOK, Types
<1>5. Executions /\ Room
  BY <1>3 DEF Executions, ExecutionOK, Asked, Room, Holding, Resting, Procs
<1>6. Stored /\ Marked /\ Astray
  BY <1>1 DEF Stored, Marked, Astray
<1>7. QuotaKept
  BY <1>2 DEF QuotaKept
<1> QED BY <1>4, <1>5, <1>6, <1>7 DEF Inv

\* is kept by every step,
LEMMA Inductive == ASSUME Inv, [Next]_vars PROVE Inv'
<1>1. CASE Next
  BY <1>1, TypeStep, ExecutionsStay, StoredStays, MarkedStays, SpaceStays, AstrayStays DEF Inv
<1>2. CASE UNCHANGED vars
  <2>1. UNCHANGED <<blob, idle, mega, file, lastFile, album, share, quota, req, strays, ghosts, faults>>
    BY <1>2 DEF vars, folders, history
  <2>2. /\ (TypeOK)' /\ Stored' /\ Marked' /\ Astray' /\ Executions'
    BY <2>1 DEF Inv, TypeOK, Types, Stored, Marked, Astray, Executions, ExecutionOK, Rows, Live
  <2>3. QuotaKept' /\ Room'
    BY <2>1 DEF Inv, QuotaKept, Room, Space, Mine, Rows
  <2> QED BY <2>2, <2>3 DEF Inv
<1> QED BY <1>1, <1>2

\* and so holds in every reachable state.
LEMMA Invariant == Spec => []Inv
  BY Initially, Inductive, PTL DEF Spec

\* Types; a row of a file designates a row of a blob, and a share a row of a file or none.
THEOREM TypeCorrect == Spec => []TypeOK
  BY Invariant, PTL DEF Inv

\* No file loses its content, whatever is cleaned, cancelled, moderated or cut short meanwhile.
THEOREM ContentKept == Spec => []NothingLost
<1>1. Inv => NothingLost
  BY DEF Inv, TypeOK, Types, Rows, FileRow, Stored, Marked, NothingLost
<1> QED BY <1>1, Invariant, PTL

\* An account never occupies more than the space Alanya Plus gives it.
THEOREM SpaceKept == Spec => []QuotaKept
  BY Invariant, PTL DEF Inv

\* A file that is shown goes through the trash, unless a request under way had decided on it (Condemned)
\* or it was placed in an album on its way to the trash.
THEOREM NeverAtOnce == Spec => ThroughTrash
<1>1. ASSUME Inv, Next, NEW f \in Rows, Shown(f), file'[f] = None
      PROVE  f \in strays \/ \E r \in Requests : Condemned(r, f)
  BY <1>1, Deleted
<1>2. Inv /\ [Next]_vars =>
        [\A f \in Rows : Shown(f) /\ file'[f] = None =>
           f \in strays \/ \E r \in Requests : Condemned(r, f)]_vars
  BY <1>1
<1> QED BY <1>2, Invariant, PTL DEF Spec, ThroughTrash
=============================================================================
