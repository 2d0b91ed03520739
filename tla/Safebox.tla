--------------------------------- MODULE Safebox ---------------------------------
(***************************************************************************)
(* The safebox (services/safebox/service.js): files of an account, which    *)
(* designate blobs whose blocks are at the storage provider, and the        *)
(* cleaning (purge.js), the only one that removes anything there.  The same *)
(* blob may be designated by several files, of one account (an album) or of *)
(* several (a share that was kept).                                        *)
(*                                                                         *)
(* A request is an execution of several statements or transactions; what it *)
(* read before the last of them may be over.  A transaction without a read  *)
(* that others can overtake is one step: every statement reads what is     *)
(* committed by then (the pool is READ COMMITTED, config/db.js).           *)
(*                                                                         *)
(* An account has its root folders and one album; a blob has size 1; every  *)
(* block arrives or none; one cleaning runs at a time, below its thresholds *)
(* of alert.  Left out: moves and names of folders, shares of several files, *)
(* comments on photos, the limit of downloads, the marking of lost blobs.   *)
(***************************************************************************)
EXTENDS Integers, FiniteSets, FiniteSetsExt

CONSTANTS
  Accounts,
  Owners,      \* bound: the accounts that upload and use their album; the others keep shares
  Requests,    \* requests under way at once
  Purger,      \* the nightly cleaning, under the lease safebox_purge
  Shares,      \* bound: shares that are created
  None,
  PlusQuota,   \* space of an account while it has Alanya Plus
  BaseQuota,   \* and afterwards
  MaxBlobs,    \* bound: uploads
  MaxFiles,    \* bound: rows of safebox_file ever inserted
  MaxFaults    \* bound: executions that die, removals refused, blocks that arrive late

Blobs == 1..MaxBlobs
Files == 1..MaxFiles
Procs == Requests \union {Purger}
Places == {"root", "album"}

\* A row of safebox_file: in its root folder or in the album; in the trash on its own or with it.
FileRow == [acc : Accounts, blob : Blobs, place : Places, trash : {"live", "own", "album"}]

ASSUME SafeboxAssumption ==
  /\ {PlusQuota, BaseQuota, MaxBlobs, MaxFiles, MaxFaults} \subseteq Nat /\ BaseQuota <= PlusQuota
  /\ Purger \notin Requests /\ None \notin Accounts \union FileRow /\ Owners \subseteq Accounts

VARIABLES
  blob,     \* status of the row; "gone" once deleted
  idle,     \* pending blobs without a sign for abandonHours
  mega,     \* blobs whose blocks are at the provider
  file,     \* rows of safebox_file
  lastFile, \* their auto-increment
  album,    \* account -> its album
  share,    \* rows of safebox_share
  quota,    \* account -> its space
  req,      \* execution of each request, and of the cleaning
  strays,   \* history: files placed, live, in an album that was in the trash by then
  ghosts,   \* history: files placed by addToFolder on a blob its account had lost by then, and their copies
  faults

folders == <<album, share, quota>>
history == <<strays, ghosts, faults>>
vars == <<blob, idle, mega, file, lastFile, folders, req, history>>

Resting == [at |-> "idle", acc |-> None, file |-> 0, blob |-> 0, place |-> "root",
            doomed |-> {}, left |-> {}]

Init ==
  /\ blob = [b \in Blobs |-> "none"] /\ idle = {} /\ mega = {}
  /\ file = [f \in Files |-> None] /\ lastFile = 0
  /\ album = [a \in Accounts |-> "live"] /\ share = [s \in Shares |-> None]
  /\ quota = [a \in Accounts |-> PlusQuota]
  /\ req = [p \in Procs |-> Resting]
  /\ strays = {} /\ ghosts = {} /\ faults = 0

-----------------------------------------------------------------------------
(* Rows                                                                    *)

Rows       == {f \in Files : file[f] # None}
Of(b)      == {f \in Rows : file[f].blob = b}
Mine(a)    == {f \in Rows : file[f].acc = a}
Live(f)    == f \in Rows /\ file[f].trash = "live"
Trashed(a) == {f \in Mine(a) : file[f].trash # "live"}

\* liveFile
Shown(f) == Live(f) /\ blob[file[f].blob] = "ready"

\* usageOf: each content of the account once, in the trash or not, sent or not.
Used(a) == Cardinality({file[f].blob : f \in Mine(a)})

\* What the deletion of its album takes with it (ON DELETE CASCADE).
InAlbum(a) == {f \in Mine(a) : file[f].place = "album"}

NewFile(a, b, place) ==
  /\ lastFile < MaxFiles /\ lastFile' = lastFile + 1
  /\ file' = [file EXCEPT ![lastFile + 1] = [acc |-> a, blob |-> b, place |-> place, trash |-> "live"]]
  /\ strays' = IF place = "album" /\ album[a] = "trashed" THEN strays \union {lastFile + 1} ELSE strays

\* A share loses its file with it (ON DELETE SET NULL).
DeleteFiles(gone) ==
  /\ file' = [f \in Files |-> IF f \in gone THEN None ELSE file[f]]
  /\ share' = [s \in Shares |-> IF share[s] # None /\ share[s].file \in gone
                                THEN [share[s] EXCEPT !.file = 0] ELSE share[s]]

\* FOR UPDATE on the row of the account, kept to the commit.
Locked(a) == \E r \in Requests : req[r].at \in {"reserve", "keep", "purge"} /\ req[r].acc = a

Free(r)         == req[r] = Resting
Begin(r, x)     == req' = [req EXCEPT ![r] = x]
Goto(p, at)     == req' = [req EXCEPT ![p].at = at]
Finish(p)       == req' = [req EXCEPT ![p] = Resting]
Clean(p, blobs) == req' = [req EXCEPT ![p] = [Resting EXCEPT !.at = "collect", !.left = blobs]]
Asking(at, a, f) == [Resting EXCEPT !.at = at, !.acc = a, !.file = f, !.blob = file[f].blob]

-----------------------------------------------------------------------------
(* Uploads                                                                 *)

\* Mutant: the row of the account is read and not locked.
ReserveUnlocked(r, a, place) ==
  /\ Free(r)
  /\ place = "album" => album[a] = "live"
  /\ Used(a) + 1 <= quota[a]
  /\ Begin(r, [Resting EXCEPT !.at = "reserve", !.acc = a, !.place = place])
  /\ UNCHANGED <<blob, idle, mega, file, lastFile, folders, history>>

\* reserveUpload, in its transaction: the account locked, its folder live, space for one more.
Reserve(r, a, place) ==
  /\ Free(r) /\ ~Locked(a)
  /\ place = "album" => album[a] = "live"
  /\ Used(a) + 1 <= quota[a]
  /\ Begin(r, [Resting EXCEPT !.at = "reserve", !.acc = a, !.place = place])
  /\ UNCHANGED <<blob, idle, mega, file, lastFile, folders, history>>

\* Its INSERTs and its commit; refused when the folder is no more.
Insert(r) ==
  LET a == req[r].acc IN
  /\ req[r].at = "reserve" /\ Finish(r)
  /\ IF req[r].place = "album" /\ album[a] = "gone"
     THEN UNCHANGED <<blob, file, lastFile, strays>>
     ELSE \E b \in Blobs : /\ \A c \in Blobs : blob[c] = "none" <=> c >= b
                           /\ blob' = [blob EXCEPT ![b] = "pending"]
                           /\ NewFile(a, b, req[r].place)
  /\ UNCHANGED <<idle, mega, folders, ghosts, faults>>

\* The phone sends the blocks to the provider, at the addresses it was given.
Put(b) ==
  /\ b \notin mega /\ mega' = mega \union {b}
  /\ \/ blob[b] = "pending" /\ UNCHANGED faults
     \/ blob[b] \in {"deleting", "gone"} /\ faults < MaxFaults /\ faults' = faults + 1
  /\ UNCHANGED <<blob, idle, file, lastFile, folders, req, strays, ghosts>>

GrowIdle(b) ==
  /\ blob[b] = "pending" /\ b \notin idle /\ idle' = idle \union {b}
  /\ UNCHANGED <<blob, mega, file, lastFile, folders, req, history>>

\* uploadUrls, uploadStatus, and completeUpload when blocks are missing.
Touch(b) ==
  /\ b \in idle /\ blob[b] = "pending" /\ Of(b) # {} /\ idle' = idle \ {b}
  /\ UNCHANGED <<blob, mega, file, lastFile, folders, req, history>>

\* completeUpload: the blocks are there, then an UPDATE if it is still pending.
AskComplete(r, f) ==
  /\ Free(r) /\ f \in Rows /\ blob[file[f].blob] = "pending" /\ file[f].blob \in mega
  /\ Begin(r, Asking("complete", file[f].acc, f))
  /\ UNCHANGED <<blob, idle, mega, file, lastFile, folders, history>>

Complete(r) ==
  LET b == req[r].blob IN
  /\ req[r].at = "complete" /\ Finish(r)
  /\ IF blob[b] = "pending" THEN blob' = [blob EXCEPT ![b] = "ready"] /\ idle' = idle \ {b}
     ELSE UNCHANGED <<blob, idle>>
  /\ UNCHANGED <<mega, file, lastFile, folders, history>>

\* cancelUpload: the row of the file, then its blob.
AskCancel(r, f) ==
  /\ Free(r) /\ f \in Rows /\ blob[file[f].blob] = "pending"
  /\ Begin(r, Asking("cancel", file[f].acc, f))
  /\ UNCHANGED <<blob, idle, mega, file, lastFile, folders, history>>

Cancel(r) ==
  /\ req[r].at = "cancel" /\ DeleteFiles({req[r].file}) /\ Clean(r, {req[r].blob})
  /\ UNCHANGED <<blob, idle, mega, lastFile, album, quota, history>>

-----------------------------------------------------------------------------
(* Trash                                                                   *)

\* trashFile: this copy, or every copy of its content.
TrashFile(f, everywhere) ==
  /\ Shown(f)
  /\ file' = [g \in Files |->
       IF Live(g) /\ (g = f \/ (everywhere /\ file[g].acc = file[f].acc /\ file[g].blob = file[f].blob))
       THEN [file[g] EXCEPT !.trash = "own"] ELSE file[g]]
  /\ UNCHANGED <<blob, idle, mega, lastFile, folders, req, history>>

\* restoreFile: at the root when its folder is in the trash, otherwise where it is by then.
AskRestore(r, f) ==
  /\ Free(r) /\ f \in Rows /\ file[f].trash = "own"
  /\ Begin(r, [Asking("restore", file[f].acc, f) EXCEPT !.place =
       IF file[f].place = "album" /\ album[file[f].acc] = "trashed" THEN "root" ELSE "album"])
  /\ UNCHANGED <<blob, idle, mega, file, lastFile, folders, history>>

Restore(r) ==
  LET f == req[r].file IN
  /\ req[r].at = "restore" /\ Finish(r)
  /\ IF f \in Rows
     THEN /\ file' = [file EXCEPT ![f].trash = "live",
                                   ![f].place = IF req[r].place = "root" THEN "root" ELSE @]
          /\ strays' = IF file'[f].place = "album" /\ album[file[f].acc] = "trashed"
                       THEN strays \union {f} ELSE strays
     ELSE UNCHANGED <<file, strays>>
  /\ UNCHANGED <<blob, idle, mega, lastFile, folders, ghosts, faults>>

\* Mutant: the files of the album stay as they are.
TrashAlbumOnly(a) ==
  /\ album[a] = "live" /\ album' = [album EXCEPT ![a] = "trashed"]
  /\ UNCHANGED <<blob, idle, mega, file, lastFile, share, quota, req, history>>

\* trashFolder, one transaction: what was in the trash already keeps its own entry.
TrashAlbum(a) ==
  /\ album[a] = "live" /\ album' = [album EXCEPT ![a] = "trashed"]
  /\ file' = [f \in Files |-> IF Live(f) /\ f \in InAlbum(a) THEN [file[f] EXCEPT !.trash = "album"]
                              ELSE file[f]]
  /\ UNCHANGED <<blob, idle, mega, lastFile, share, quota, req, history>>

\* restoreFolder, one transaction.
RestoreAlbum(a) ==
  /\ album[a] = "trashed" /\ album' = [album EXCEPT ![a] = "live"]
  /\ file' = [f \in Files |-> IF f \in Mine(a) /\ file[f].trash = "album"
                              THEN [file[f] EXCEPT !.trash = "live"] ELSE file[f]]
  /\ strays' = strays \ InAlbum(a)
  /\ UNCHANGED <<blob, idle, mega, lastFile, share, quota, req, ghosts, faults>>

\* supprimerDefinitivement of a file: in the trash at the SELECT, then deleted by its id alone.
AskDelete(r, f) ==
  /\ Free(r) /\ f \in Rows /\ file[f].trash = "own"
  /\ Begin(r, Asking("drop", file[f].acc, f))
  /\ UNCHANGED <<blob, idle, mega, file, lastFile, folders, history>>

DropFile(r) ==
  /\ req[r].at = "drop" /\ DeleteFiles({req[r].file}) /\ Clean(r, {req[r].blob})
  /\ UNCHANGED <<blob, idle, mega, lastFile, album, quota, history>>

\* Of the album: in the trash at the first SELECT, its contents listed by the second, then deleted
\* by its id, with whatever is in it.
AskDeleteAlbum(r, a) ==
  /\ Free(r) /\ album[a] = "trashed"
  /\ Begin(r, [Resting EXCEPT !.at = "list", !.acc = a])
  /\ UNCHANGED <<blob, idle, mega, file, lastFile, folders, history>>

ListAlbum(r) ==
  /\ req[r].at = "list"
  /\ req' = [req EXCEPT ![r].at = "cascade", ![r].left = {file[f].blob : f \in InAlbum(req[r].acc)}]
  /\ UNCHANGED <<blob, idle, mega, file, lastFile, folders, history>>

DropAlbum(r) ==
  /\ req[r].at = "cascade" /\ Clean(r, req[r].left)
  /\ DeleteFiles(InAlbum(req[r].acc))
  /\ album' = [album EXCEPT ![req[r].acc] = "gone"]
  /\ UNCHANGED <<blob, idle, mega, lastFile, quota, history>>

\* Of the whole trash: its contents listed, then deleted if they are still in the trash.
AskEmpty(r, a) ==
  /\ Free(r)
  /\ Begin(r, [Resting EXCEPT !.at = "empty", !.acc = a, !.left = {file[f].blob : f \in Trashed(a)}])
  /\ UNCHANGED <<blob, idle, mega, file, lastFile, folders, history>>

\* The album of the account, when it is in the trash, and what its deletion takes along.
BuriedWith(a) == IF album[a] = "trashed" THEN InAlbum(a) ELSE {}
BuryAlbum(a)  == album' = IF album[a] = "trashed" THEN [album EXCEPT ![a] = "gone"] ELSE album

Empty(r) ==
  LET a == req[r].acc IN
  /\ req[r].at = "empty" /\ Clean(r, req[r].left)
  /\ DeleteFiles(Trashed(a) \union BuriedWith(a)) /\ BuryAlbum(a)
  /\ UNCHANGED <<blob, idle, mega, lastFile, quota, history>>

-----------------------------------------------------------------------------
(* The same content in several places                                      *)

\* addToFolder: the album and the file are live.
AskAdd(r, f) ==
  /\ Free(r) /\ Shown(f) /\ album[file[f].acc] = "live"
  /\ Begin(r, Asking("add", file[f].acc, f))
  /\ UNCHANGED <<blob, idle, mega, file, lastFile, folders, history>>

\* The blob locked but not looked at again, then what the album already has. The rows of the blob
\* and of the album must exist.
Add(r) ==
  LET a == req[r].acc  b == req[r].blob IN
  /\ req[r].at = "add" /\ Finish(r)
  /\ IF (\E g \in InAlbum(a) : Live(g) /\ file[g].blob = b) \/ blob[b] = "gone" \/ album[a] = "gone"
     THEN UNCHANGED <<file, lastFile, strays, ghosts>>
     ELSE /\ NewFile(a, b, "album")
          /\ ghosts' = IF Of(b) \intersect Mine(a) \subseteq ghosts
                       THEN ghosts \union {lastFile + 1} ELSE ghosts
  /\ UNCHANGED <<blob, idle, mega, folders, faults>>

\* createShare, of one file.
CreateShare(s, f) ==
  /\ share[s] = None /\ Shown(f)
  /\ share' = [share EXCEPT ![s] = [sender |-> file[f].acc, file |-> f, revoked |-> FALSE]]
  /\ UNCHANGED <<blob, idle, mega, file, lastFile, album, quota, req, history>>

Revoke(s) ==
  /\ share[s] # None /\ ~share[s].revoked /\ share' = [share EXCEPT ![s].revoked = TRUE]
  /\ UNCHANGED <<blob, idle, mega, file, lastFile, album, quota, req, history>>

\* saveShare, of anybody in the conversation, its sender included: the share is visible.
AskSave(r, a, s, place) ==
  /\ Free(r) /\ share[s] # None /\ ~share[s].revoked
  /\ share[s].file # 0 /\ Shown(share[s].file)
  /\ Begin(r, [Asking("save", a, share[s].file) EXCEPT !.place = place])
  /\ UNCHANGED <<blob, idle, mega, file, lastFile, folders, history>>

\* Its transaction: the account locked, no copy in it, the folder live.
Keep(r) ==
  LET a == req[r].acc IN
  /\ req[r].at = "save" /\ ~Locked(a)
  /\ IF (\E f \in Mine(a) : Live(f) /\ file[f].blob = req[r].blob)
          \/ (req[r].place = "album" /\ album[a] # "live")
     THEN Finish(r)
     ELSE Goto(r, "keep")
  /\ UNCHANGED <<blob, idle, mega, file, lastFile, folders, history>>

\* Mutant: the blob is not looked at again.
SaveUnseen(r) ==
  LET a == req[r].acc  b == req[r].blob IN
  /\ req[r].at = "keep" /\ Finish(r)
  /\ IF blob[b] = "gone" \/ Used(a) + 1 > quota[a] \/ (req[r].place = "album" /\ album[a] = "gone")
     THEN UNCHANGED <<file, lastFile, strays>>
     ELSE NewFile(a, b, req[r].place)
  /\ UNCHANGED <<blob, idle, mega, folders, ghosts, faults>>

\* Then the blob locked and still ready, space for one more; refused when the folder is no more.
Save(r) ==
  LET a == req[r].acc  b == req[r].blob IN
  /\ req[r].at = "keep" /\ Finish(r)
  /\ IF blob[b] # "ready" \/ Used(a) + 1 > quota[a] \/ (req[r].place = "album" /\ album[a] = "gone")
     THEN UNCHANGED <<file, lastFile, strays>>
     ELSE NewFile(a, b, req[r].place)
  /\ UNCHANGED <<blob, idle, mega, folders, ghosts, faults>>

\* moderationDelete: the shares of the content, then every file of it, then its blob.
Moderate(r, s) ==
  /\ Free(r) /\ share[s] # None /\ share[s].file # 0
  /\ Begin(r, Asking("erase", None, share[s].file))
  /\ share' = [t \in Shares |->
       IF share[t] # None /\ (t = s \/ share[t].file \in Of(file[share[s].file].blob))
       THEN [share[t] EXCEPT !.revoked = TRUE] ELSE share[t]]
  /\ UNCHANGED <<blob, idle, mega, file, lastFile, album, quota, history>>

Erase(r) ==
  /\ req[r].at = "erase" /\ DeleteFiles(Of(req[r].blob)) /\ Clean(r, {req[r].blob})
  /\ UNCHANGED <<blob, idle, mega, lastFile, album, quota, history>>

-----------------------------------------------------------------------------
(* The end of Alanya Plus                                                  *)

PlusEnds(a) ==
  /\ quota[a] # BaseQuota /\ quota' = [quota EXCEPT ![a] = BaseQuota]
  /\ UNCHANGED <<blob, idle, mega, file, lastFile, album, share, req, history>>

PlusBegins(a) ==
  /\ quota[a] # PlusQuota /\ quota' = [quota EXCEPT ![a] = PlusQuota]
  /\ UNCHANGED <<blob, idle, mega, file, lastFile, album, share, req, history>>

\* Among those files, the most recent contents go, until the others fit.
Excess(files) ==
  LET shown     == {file[f].blob : f \in {g \in files : Shown(g)}}
      newest[b \in shown] == Max({f \in files : Shown(f) /\ file[f].blob = b})
      over      == Cardinality({file[f].blob : f \in files}) - BaseQuota
  IN {b \in shown : Cardinality({c \in shown : c = b \/ newest[c] > newest[b]}) <= over}

\* purgeExcess: no Alanya Plus, by a look before its transaction.
AskExcess(r, a) ==
  /\ Free(r) /\ quota[a] = BaseQuota
  /\ Begin(r, [Resting EXCEPT !.at = "excess", !.acc = a])
  /\ UNCHANGED <<blob, idle, mega, file, lastFile, folders, history>>

\* The account locked and too full: its uploads and its trash are listed.
ListExcess(r) ==
  LET a == req[r].acc  out == {f \in Mine(a) : ~Live(f) \/ blob[file[f].blob] = "pending"} IN
  /\ req[r].at = "excess" /\ ~Locked(a)
  /\ IF Used(a) > BaseQuota
     THEN req' = [req EXCEPT ![r].at = "purge", ![r].doomed = out, ![r].left = {file[f].blob : f \in out}]
     ELSE Finish(r)
  /\ UNCHANGED <<blob, idle, mega, file, lastFile, folders, history>>

\* Deleted by their ids, then the album if it is in the trash, then whatever is still too much.
PurgeExcess(r) ==
  LET a    == req[r].acc
      kept == Mine(a) \ (req[r].doomed \union BuriedWith(a))
      out  == {f \in kept : Live(f) /\ file[f].blob \in Excess(kept)}
  IN /\ req[r].at = "purge" /\ Clean(r, req[r].left \union {file[f].blob : f \in out})
     /\ DeleteFiles(req[r].doomed \union BuriedWith(a) \union out) /\ BuryAlbum(a)
     /\ UNCHANGED <<blob, idle, mega, lastFile, quota, history>>

-----------------------------------------------------------------------------
(* Cleaning                                                                *)

\* Mutant: what could not be removed is not tried again.
OrphanOnce(b) == blob[b] \in {"pending", "ready"} /\ Of(b) = {}

\* Being deleted, or designated by no file.
Orphan(b) == blob[b] = "deleting" \/ (blob[b] \in {"pending", "ready"} /\ Of(b) = {})

\* runSafeboxPurge: the trash whose time has come, whatever that is.
ExpireTrash ==
  /\ Free(Purger) /\ Goto(Purger, "abandoned")
  /\ \E old \in SUBSET {f \in Rows : ~Live(f)}, a \in Owners, withAlbum \in BOOLEAN :
       IF withAlbum THEN DeleteFiles(old \union BuriedWith(a)) /\ BuryAlbum(a)
       ELSE DeleteFiles(old) /\ UNCHANGED album
  /\ UNCHANGED <<blob, idle, mega, lastFile, quota, history>>

ExpireAbandoned ==
  /\ req[Purger].at = "abandoned" /\ Goto(Purger, "orphans")
  /\ DeleteFiles({f \in Rows : file[f].blob \in idle /\ blob[file[f].blob] = "pending"})
  /\ UNCHANGED <<blob, idle, mega, lastFile, album, quota, history>>

ListOrphans ==
  /\ req[Purger].at = "orphans" /\ Clean(Purger, {b \in Blobs : Orphan(b)})
  /\ UNCHANGED <<blob, idle, mega, file, lastFile, folders, history>>

\* markIfOrphan: the blob locked, its files looked for again.
Mark(p) ==
  /\ req[p].at = "collect"
  /\ \E b \in req[p].left :
       IF Orphan(b)
       THEN /\ blob' = [blob EXCEPT ![b] = "deleting"] /\ idle' = idle \ {b}
            /\ req' = [req EXCEPT ![p].at = "remove", ![p].blob = b, ![p].left = @ \ {b}]
       ELSE req' = [req EXCEPT ![p].left = @ \ {b}] /\ UNCHANGED <<blob, idle>>
  /\ UNCHANGED <<mega, file, lastFile, folders, history>>

\* removePrefix, which throws when something is left.
Remove(p) ==
  /\ req[p].at = "remove"
  /\ \/ mega' = mega \ {req[p].blob} /\ Goto(p, "row") /\ UNCHANGED faults
     \/ faults < MaxFaults /\ faults' = faults + 1 /\ Goto(p, "collect") /\ UNCHANGED mega
  /\ UNCHANGED <<blob, idle, file, lastFile, folders, strays, ghosts>>

\* Mutant: whatever designates it.
DropAnyway(p) ==
  /\ req[p].at = "row" /\ Goto(p, "collect") /\ blob' = [blob EXCEPT ![req[p].blob] = "gone"]
  /\ UNCHANGED <<idle, mega, file, lastFile, folders, history>>

\* The row, if it is still being deleted; a file that designates it forbids it (ON DELETE RESTRICT).
DropRow(p) ==
  LET b == req[p].blob IN
  /\ req[p].at = "row" /\ Goto(p, "collect")
  /\ blob' = IF blob[b] = "deleting" /\ Of(b) = {} THEN [blob EXCEPT ![b] = "gone"] ELSE blob
  /\ UNCHANGED <<idle, mega, file, lastFile, folders, history>>

Collected(p) ==
  /\ req[p].at = "collect" /\ req[p].left = {}
  /\ IF p = Purger THEN Goto(p, "reconcile") ELSE Finish(p)
  /\ UNCHANGED <<blob, idle, mega, file, lastFile, folders, history>>

\* reconcileFull: the objects without a row; once a week.
Reconcile ==
  /\ req[Purger].at = "reconcile" /\ Finish(Purger)
  /\ mega' = {b \in mega : blob[b] \notin {"none", "gone"}}
  /\ UNCHANGED <<blob, idle, file, lastFile, folders, history>>

NotDue ==
  /\ req[Purger].at = "reconcile" /\ Finish(Purger)
  /\ UNCHANGED <<blob, idle, mega, file, lastFile, folders, history>>

\* The process dies, or a statement throws: a transaction leaves nothing.
Die(p) ==
  /\ req[p] # Resting /\ faults < MaxFaults /\ faults' = faults + 1 /\ Finish(p)
  /\ UNCHANGED <<blob, idle, mega, file, lastFile, folders, strays, ghosts>>

-----------------------------------------------------------------------------
Continue(p) ==
  \/ Insert(p) \/ Complete(p) \/ Cancel(p) \/ Restore(p) \/ Add(p) \/ Keep(p) \/ Save(p) \/ Erase(p)
  \/ DropFile(p) \/ ListAlbum(p) \/ DropAlbum(p) \/ Empty(p) \/ ListExcess(p) \/ PurgeExcess(p)
  \/ Mark(p) \/ Remove(p) \/ DropRow(p) \/ Collected(p)

Ask(r) ==
  \/ \E a \in Owners, place \in Places : Reserve(r, a, place)
  \/ \E f \in Files : AskComplete(r, f) \/ AskCancel(r, f) \/ AskRestore(r, f) \/ AskDelete(r, f) \/ AskAdd(r, f)
  \/ \E a \in Accounts : AskDeleteAlbum(r, a) \/ AskEmpty(r, a) \/ AskExcess(r, a)
  \/ \E s \in Shares : Moderate(r, s) \/ \E a \in Accounts, place \in Places : AskSave(r, a, s, place)

Nightly == ExpireTrash \/ ExpireAbandoned \/ ListOrphans

Next ==
  \/ \E r \in Requests : Ask(r)
  \/ \E p \in Procs : Continue(p) \/ Die(p)
  \/ \E b \in Blobs : Put(b) \/ GrowIdle(b) \/ Touch(b)
  \/ \E f \in Files, everywhere \in BOOLEAN : TrashFile(f, everywhere)
  \/ \E a \in Owners : TrashAlbum(a) \/ RestoreAlbum(a) \/ PlusEnds(a) \/ PlusBegins(a)
  \/ \E s \in Shares : Revoke(s) \/ \E f \in Files : CreateShare(s, f)
  \/ Nightly \/ Reconcile \/ NotDue

Spec == Init /\ [][Next]_vars

\* The cleaning runs every night and its execution goes on (balayageRetention); it reconciles every
\* week. Nothing is assumed of the requests: what one leaves half-done is for the cleaning.
Fairness == WF_vars(Continue(Purger)) /\ WF_vars(Nightly) /\ WF_vars(Reconcile \/ NotDue) /\ SF_vars(Reconcile)

FairSpec == Spec /\ Fairness

-----------------------------------------------------------------------------
(* Type and properties                                                     *)

Points == {"idle", "reserve", "complete", "cancel", "restore", "drop", "list", "cascade", "empty", "add",
           "save", "keep", "erase", "excess", "purge", "abandoned", "orphans", "collect", "remove", "row", "reconcile"}

ShareRow == [sender : Accounts, file : 0..MaxFiles, revoked : BOOLEAN]

Execution == [at : Points, acc : Accounts \union {None}, file : 0..MaxFiles, blob : 0..MaxBlobs,
              place : Places, doomed : SUBSET Files, left : SUBSET Blobs]

Types ==
  /\ blob \in [Blobs -> {"none", "pending", "ready", "deleting", "gone"}]
  /\ idle \subseteq Blobs /\ mega \subseteq Blobs
  /\ file \in [Files -> {None} \union FileRow]
  /\ lastFile \in 0..MaxFiles /\ \A f \in Rows : f <= lastFile
  /\ album \in [Accounts -> {"live", "trashed", "gone"}]
  /\ share \in [Shares -> {None} \union ShareRow]
  /\ quota \in [Accounts -> {BaseQuota, PlusQuota}]
  /\ req \in [Procs -> Execution]
  /\ strays \subseteq Files /\ ghosts \subseteq Files /\ faults \in 0..MaxFaults

\* The state is well-typed, a row of a file designates a row of a blob, and a share the row of a
\* file or none any more (the foreign keys).
TypeOK ==
  /\ Types
  /\ \A f \in Rows : blob[file[f].blob] \notin {"none", "gone"}
  /\ \A s \in Shares : share[s] # None => share[s].file \in Rows \union {0}

\* No file loses its content: whatever is cancelled, emptied, kept from a share, put in an album,
\* moderated, purged or cut short meanwhile, a blob that a file designates is not being deleted, and
\* one that is ready has its blocks at the provider (markIfOrphan against saveShare and
\* completeUpload). A file that addToFolder places after the last one of its account was deleted
\* is set apart: its blob may be on its way out.
NothingLost == \A f \in Rows :
  /\ blob[file[f].blob] = "deleting" => f \in ghosts
  /\ blob[file[f].blob] = "ready" => file[f].blob \in mega

\* Two uploads, an upload and a share kept at once: the account never occupies more than the space
\* Alanya Plus gives it (reserveUpload, saveShare). A file that addToFolder places on a content the
\* account had lost is set apart: it is added without a look at the space.
Space(a) == Cardinality({file[f].blob : f \in Mine(a) \ ghosts})
QuotaKept == \A a \in Accounts : Space(a) <= PlusQuota

\* What a request under way is about to delete, shown or not: a file whose upload is cancelled, a
\* content moderated, a file or an album that was in the trash when its deletion was asked and was
\* restored since, the excess of an account that had no Alanya Plus when its purge began.
Condemned(r, f) ==
  LET a == file[f].acc IN
  \/ req[r].at \in {"cancel", "drop"} /\ req[r].file = f
  \/ req[r].at = "erase" /\ req[r].blob = file[f].blob
  \/ req[r].at = "cascade" /\ req[r].acc = a /\ file[f].place = "album" /\ album[a] # "trashed"
  \/ req[r].at = "purge" /\ (f \in req[r].doomed \/ (req[r].acc = a /\ Used(a) > BaseQuota))

\* A file that is shown goes through the trash: it only disappears at once by a request that had
\* decided on it (Condemned), which a restoration or a new subscription overtook, or when it was placed
\* in an album on its way to the trash.
ThroughTrash ==
  [][\A f \in Rows : Shown(f) /\ file'[f] = None =>
       f \in strays \/ \E r \in Requests : Condemned(r, f)]_vars

\* What no file designates does not stay at the provider, whatever died, was refused or arrived late.
Reclaimed == \A b \in Blobs : b \in mega /\ Of(b) = {} ~> b \notin mega \/ Of(b) # {}

\* The comment of addToFolder: the lock keeps a purge from taking the blobs it designates.
AlbumKeepsContent == \A f \in Rows : blob[file[f].blob] # "deleting"

\* The comment of supprimerDefinitivement: it deletes rows of the trash.
OnlyFromTrash ==
  [][\A f \in Rows, r \in Requests :
       req[r].at \in {"drop", "cascade", "empty"} /\ req'[r] # req[r] /\ file'[f] = None =>
         ~Shown(f) \/ f \in strays]_vars
=============================================================================
