----------------------------- MODULE MobileSync -----------------------------
(***************************************************************************)
(* How the mobile app keeps its database in step with the assets of the    *)
(* server and of the device: SyncService, the requests it sends, and the   *)
(* changes that the websocket announces.                                   *)
(*                                                                         *)
(* An asset is named by its checksum, under which the server keeps at most *)
(* one asset of a user, and the app at most one row.  A remote id is made   *)
(* of the checksum and the time of the upload.  Of an asset's data only    *)
(* isTrashed is kept: all that a property can tell is whether a row shows  *)
(* the last state.  One album stands for all of the device.                *)
(*                                                                         *)
(* Time is the number of changes of the server so far; the app's clock     *)
(* differs from the server's by Lag.  Files of the device are dated 0,     *)
(* before anything the server did.                                         *)
(***************************************************************************)
EXTENDS Integers, FiniteSets

CONSTANTS
  Checksums,   \* the assets, numbered in the order of fileCreatedAt
  Lag,         \* what the clock of the app is behind that of the server
  Retention,   \* AUDIT_LOG_MAX_DURATION
  ChunkSize,   \* assets per request of a full synchronisation
  MaxClock,    \* bound: changes of the server
  MaxEvents,   \* bound: failures, announcements, refreshes, changes of files
  None         \* no row, no asset, no time

ASSUME ChecksumsAreOrdered == Checksums \subseteq Nat /\ IsFiniteSet(Checksums)

ASSUME NumbersAreNumbers ==
  /\ Lag \in Int
  /\ Retention \in Nat
  /\ ChunkSize \in Nat \ {0}
  /\ MaxClock \in Nat
  /\ MaxEvents \in Nat

\* An asset as the server answers it, and a row of the app's database.
Id == Checksums \X Nat
Asset == [id: Id, stamp: Nat, trashed: BOOLEAN]
Row == [remote: Id \cup {None}, local: BOOLEAN, stamp: Nat, trashed: BOOLEAN]
Announcement == [c: Checksums, asset: Asset]

ASSUME NoneIsNothingElse == None \notin Int \cup Id \cup Asset \cup Row

VARIABLES
  clock,      \* the server's time
  server,     \* its asset of each checksum
  audits,     \* its record of what was removed and when
  announced,  \* pendingChanges of the app: uploads
  gone,       \* pendingChanges of the app: removals
  device,     \* the files of the device
  rows,       \* the app's database
  etag,       \* the time the app asks for changes from
  op,         \* the operation that holds the lock of SyncService
  scanned,    \* history: the device assets that the last scan has rows for
  suspect,    \* history: assets whose changes a fault may have hidden
  events      \* failures, announcements, refreshes, changes of files so far

serverVars == <<clock, server, audits>>
queues == <<announced, gone>>
history == <<scanned, suspect>>
vars == <<serverVars, queues, device, rows, etag, op, history, events>>

Kinds == {"none", "changes", "full", "push", "device"}
Steps == {"start", "audits", "updates", "unlink", "load", "diff", "drop",
          "scan", "link", "upsert", "prune", "etag"}

NoOp ==
  [kind |-> "none", step |-> "start", since |-> 0, now |-> 0, skip |-> 0,
   removals |-> {}, drops |-> {}, seen |-> {}, adds |-> {},
   found |-> [c \in Checksums |-> None],
   puts |-> [c \in Checksums |-> None]]

Operation ==
  [kind: Kinds, step: Steps, since: Int, now: Int, skip: Nat,
   removals: SUBSET Id, drops: SUBSET Checksums, seen: SUBSET Checksums, adds: SUBSET Checksums,
   found: [Checksums -> Asset \cup {None}],
   puts: [Checksums -> Row \cup {None}]]

TypeOK ==
  /\ clock \in Nat
  /\ server \in [Checksums -> Asset \cup {None}]
  /\ audits \subseteq [id: Id, at: Nat]
  /\ announced \subseteq Announcement
  /\ gone \subseteq Id
  /\ device \subseteq Checksums
  /\ rows \in [Checksums -> Row \cup {None}]
  /\ etag \in Int \cup {None}
  /\ op \in Operation
  /\ scanned \subseteq Checksums
  /\ suspect \subseteq Checksums
  /\ events \in Nat

\* An asset that was uploaded at a time.
Uploaded(c, time) == [id |-> <<c, time>>, stamp |-> time, trashed |-> FALSE]

\* There may be assets and files before the app first runs.
Init ==
  /\ clock = 0
  /\ \E known \in SUBSET Checksums :
       server = [c \in Checksums |-> IF c \in known THEN Uploaded(c, 0) ELSE None]
  /\ audits = {}
  /\ announced = {}
  /\ gone = {}
  /\ device \in SUBSET Checksums
  /\ rows = [c \in Checksums |-> None]
  /\ etag = None
  /\ op = NoOp
  /\ scanned = {}
  /\ suspect = {}
  /\ events = 0

-----------------------------------------------------------------------------
(* The server                                                              *)

Event == events < MaxEvents /\ events' = events + 1
Tick == clock < MaxClock /\ clock' = clock + 1

AppUnchanged == UNCHANGED <<rows, etag, op, history>>

\* An asset is uploaded, from here or elsewhere.
Upload(c) ==
  /\ server[c] = None
  /\ Tick
  /\ server' = [server EXCEPT ![c] = Uploaded(c, clock + 1)]
  /\ AppUnchanged /\ UNCHANGED <<audits, queues, device, events>>

\* softDelete and restore, which the database stamps like any update.
Change(c) ==
  /\ server[c] # None
  /\ Tick
  /\ LET a == server[c]
     IN  server' = [server EXCEPT ![c] = [a EXCEPT !.stamp = clock + 1,
                                                   !.trashed = ~a.trashed]]
  /\ AppUnchanged /\ UNCHANGED <<audits, queues, device, events>>

\* The asset is removed: AuditSubscriber writes it down, and the app is told
\* if it is connected.
Delete_FaultyIdCleared(c) ==
  /\ server[c] # None
  /\ Tick
  /\ server' = [server EXCEPT ![c] = None]
  /\ audits' = audits \cup {[id |-> server'[c], at |-> clock + 1]}
  /\ gone' \in {gone, gone \cup {server[c].id}}
  /\ AppUnchanged /\ UNCHANGED <<announced, device, events>>

Delete(c) ==
  /\ server[c] # None
  /\ Tick
  /\ server' = [server EXCEPT ![c] = None]
  /\ audits' = audits \cup {[id |-> server[c].id, at |-> clock + 1]}
  /\ gone' \in {gone, gone \cup {server[c].id}}
  /\ AppUnchanged /\ UNCHANGED <<announced, device, events>>

TimePasses ==
  /\ Tick
  /\ AppUnchanged /\ UNCHANGED <<server, audits, queues, device, events>>

\* The nightly handleCleanup of the audit log.
CleanUpAudits ==
  /\ audits' = {a \in audits : a.at >= clock - Retention}
  /\ audits' # audits
  /\ AppUnchanged /\ UNCHANGED <<clock, server, queues, device, events>>

\* on_upload_success, which carries the asset as it is now and waits for the
\* debounce of the app.
Announce(c) ==
  /\ server[c] # None
  /\ Event
  /\ announced' = announced \cup {[c |-> c, asset |-> server[c]]}
  /\ AppUnchanged /\ UNCHANGED <<serverVars, gone, device>>

\* getDeletes: what was removed after a time, or that this cannot be told.
DeletedAfter(time) == {a.id : a \in {b \in audits : b.at > time}}
NeedsFullSync_FaultyNever(time) == FALSE
NeedsFullSync(time) == clock - time > Retention

\* getAllByUserId with updatedAfter.
UpdatedAfter(time) ==
  [c \in Checksums |->
     IF server[c] # None /\ server[c].stamp >= time THEN server[c] ELSE None]

\* getAllByUserId with updatedBefore, skip and take.
UpdatedBefore(time) == {c \in Checksums : server[c] # None /\ server[c].stamp <= time}
Page(time, skip) ==
  {c \in UpdatedBefore(time) :
     Cardinality({d \in UpdatedBefore(time) : d < c}) \in skip .. (skip + ChunkSize - 1)}

-----------------------------------------------------------------------------
(* Rows                                                                    *)

\* canUpdate and updatedCopy of a row and an asset of the server.
CanUpdate(row, a) ==
  a.stamp > row.stamp \/ row.remote = None \/ row.trashed # a.trashed

Later(s, t) == IF s > t THEN s ELSE t

UpdatedCopy(row, a) ==
  [row EXCEPT !.remote = a.id, !.stamp = Later(a.stamp, @), !.trashed = a.trashed]

NewRow(a) == [remote |-> a.id, local |-> FALSE, stamp |-> a.stamp, trashed |-> a.trashed]

\* What is written of the server's asset a over row: None for nothing.
Linked(row, a) ==
  IF a = None THEN None
  ELSE IF row = None THEN NewRow(a)
  ELSE IF CanUpdate(row, a) THEN UpdatedCopy(row, a) ELSE None

\* handleRemoteAssetRemoval of one row.
Unlinked_FaultyForgetful(row, ids) ==
  IF row = None \/ row.remote \notin ids THEN row ELSE None

Unlinked(row, ids) ==
  IF row = None \/ row.remote \notin ids THEN row
  ELSE IF row.local THEN [row EXCEPT !.remote = None, !.trashed = FALSE]
  ELSE None

\* putAll of the rows of puts chosen by Which.
Written(puts, Which(_)) ==
  [c \in Checksums |-> IF puts[c] # None /\ Which(puts[c]) THEN puts[c] ELSE rows[c]]

Dropped(drops) == [c \in Checksums |-> IF c \in drops THEN None ELSE rows[c]]

Outdated == {c \in Checksums : op.found[c] \notin {None, server[c]}}
Touched == {c \in Checksums : op.puts[c] # None} \cup op.drops

-----------------------------------------------------------------------------
(* Steps of an operation                                                   *)

At(kind, step) == op.kind = kind /\ op.step = step

Outside == UNCHANGED <<serverVars, queues, device>>

\* Only the operation itself moves on.
Only == Outside /\ UNCHANGED <<rows, etag, history, events>>

\* AsyncMutex.run with _syncRemoteAssetChanges, or with the full one when the
\* app never asked before.
StartRemote ==
  /\ op.kind = "none"
  /\ op' = IF etag = None
           THEN [NoOp EXCEPT !.kind = "full", !.step = "start"]
           ELSE [NoOp EXCEPT !.kind = "changes", !.step = "audits",
                             !.since = etag, !.now = clock - Lag]
  /\ Only

FetchAudits ==
  /\ At("changes", "audits")
  /\ op' = IF NeedsFullSync(op.since)
           THEN [NoOp EXCEPT !.kind = "full", !.step = "start"]
           ELSE [op EXCEPT !.step = "updates", !.removals = DeletedAfter(op.since)]
  /\ Only

FetchUpdates ==
  /\ At("changes", "updates")
  /\ op' = [op EXCEPT !.step = "unlink", !.found = UpdatedAfter(op.since)]
  /\ Only

\* A request fails and ends the operation.
FailRequest ==
  /\ At("changes", "audits") \/ At("changes", "updates") \/ At("full", "load")
  /\ Event
  /\ op' = NoOp
  /\ Outside /\ UNCHANGED <<rows, etag, history>>

NothingFound == op.found = NoOp.found

ApplyRemovals ==
  /\ At("changes", "unlink")
  /\ rows' = [c \in Checksums |-> Unlinked(rows[c], op.removals)]
  /\ op' = IF NothingFound /\ op.removals = {} THEN NoOp
           ELSE [op EXCEPT !.step = IF NothingFound THEN "etag" ELSE "link"]
  /\ Outside /\ UNCHANGED <<etag, history, events>>

\* The database refuses the removals: a full synchronisation follows.
FailRemovals ==
  /\ At("changes", "unlink")
  /\ op.removals # {}
  /\ Event
  /\ op' = [NoOp EXCEPT !.kind = "full", !.step = "start"]
  /\ Outside /\ UNCHANGED <<rows, etag, history>>

\* _linkWithExistingFromDb, and the read of _syncNewAssetToDb.
Link ==
  /\ op.kind \in {"changes", "push"}
  /\ op.step = "link"
  /\ op' = [op EXCEPT !.step = "upsert",
                      !.puts = [c \in Checksums |-> Linked(rows[c], op.found[c])]]
  /\ Only

StartFull ==
  /\ At("full", "start")
  /\ op' = [op EXCEPT !.step = "load", !.now = clock - Lag]
  /\ Only

\* One request of _getRemoteAssets; a short answer is the last.
Load ==
  /\ At("full", "load")
  /\ LET page == Page(op.now, op.skip)
     IN  op' = [op EXCEPT
                  !.found = [c \in Checksums |-> IF c \in page THEN server[c] ELSE @[c]],
                  !.skip = @ + ChunkSize,
                  !.step = IF Cardinality(page) < ChunkSize THEN "diff" ELSE "load"]
  /\ Only

\* _diffAssets with remote = true, and the end when nothing differs.
Diff ==
  /\ At("full", "diff")
  /\ LET unknown == {c \in Checksums : rows[c] # None /\ op.found[c] = None}
         puts == [c \in Checksums |->
                    IF c \notin unknown THEN Linked(rows[c], op.found[c])
                    ELSE IF rows[c].local /\ rows[c].remote # None
                         THEN [rows[c] EXCEPT !.remote = None]
                         ELSE None]
         drops == {c \in unknown : ~rows[c].local}
     IN  op' = [op EXCEPT !.step = IF drops = {} /\ puts = NoOp.puts THEN "etag" ELSE "drop",
                          !.puts = puts, !.drops = drops]
  /\ Only

Drop ==
  /\ At("full", "drop")
  /\ rows' = Dropped(op.drops)
  /\ op' = [op EXCEPT !.step = "upsert"]
  /\ Outside /\ UNCHANGED <<etag, history, events>>

\* upsertAssetsWithExif, and the put of _syncNewAssetToDb.  An announcement
\* that is no longer true may undo what is known since.
Upsert ==
  /\ op.kind \in {"changes", "full", "push"}
  /\ op.step = "upsert"
  /\ rows' = Written(op.puts, LAMBDA row : TRUE)
  /\ op' = IF op.kind = "push" THEN NoOp ELSE [op EXCEPT !.step = "etag"]
  /\ suspect' = IF op.kind = "push" THEN suspect \cup Outdated ELSE suspect
  /\ Outside /\ UNCHANGED <<etag, scanned, events>>

\* The database refuses the rows.  That is logged, and the time moves on.
FailUpsert ==
  /\ op.kind \in {"changes", "full", "push"}
  /\ op.step \in {"drop", "upsert"}
  /\ Event
  /\ op' = IF op.kind = "push" THEN NoOp ELSE [op EXCEPT !.step = "etag"]
  /\ suspect' = IF op.kind = "push" THEN suspect ELSE suspect \cup Touched
  /\ Outside /\ UNCHANGED <<rows, etag, scanned>>

\* _updateUserAssetsETag with the time at which the operation began.
SetETag_FaultyLate ==
  /\ op.kind \in {"changes", "full"}
  /\ op.step = "etag"
  /\ etag' = clock - Lag
  /\ op' = NoOp
  /\ Outside /\ UNCHANGED <<rows, history, events>>

SetETag ==
  /\ op.kind \in {"changes", "full"}
  /\ op.step = "etag"
  /\ etag' = op.now
  /\ op' = NoOp
  /\ Outside /\ UNCHANGED <<rows, history, events>>

-----------------------------------------------------------------------------
(* Announced changes                                                       *)

\* onNewAssetUploaded, which takes its turn at the lock.  The asset it unifies
\* with is read in the next step.
StartPush ==
  /\ op.kind = "none"
  /\ \E a \in announced :
       /\ announced' = announced \ {a}
       /\ op' = [NoOp EXCEPT !.kind = "push", !.step = "link", !.found = [@ EXCEPT ![a.c] = a.asset]]
  /\ UNCHANGED <<serverVars, gone, device, rows, etag, history, events>>

\* _handlePendingDeletes, without the lock.  It comes after the uploads that were
\* pending when these began, and ahead of one announced since.
ApplyGone ==
  /\ gone # {}
  /\ rows' = [c \in Checksums |-> Unlinked(rows[c], gone)]
  /\ gone' = {}
  /\ UNCHANGED <<serverVars, announced, device, etag, op, history, events>>

\* clearAssetsAndAlbums by a manual refresh or a logout, without the lock.
Clear ==
  /\ Event
  /\ rows' = [c \in Checksums |-> None]
  /\ etag' = None
  /\ scanned' = {}
  /\ suspect' = IF op.kind \in {"none", "push"} THEN {} ELSE Checksums
  /\ Outside /\ UNCHANGED op

-----------------------------------------------------------------------------
(* The device                                                              *)

AddFile(c) ==
  /\ c \notin device
  /\ Event
  /\ device' = device \cup {c}
  /\ AppUnchanged /\ UNCHANGED <<serverVars, queues>>

RemoveFile(c) ==
  /\ c \in device
  /\ Event
  /\ device' = device \ {c}
  /\ AppUnchanged /\ UNCHANGED <<serverVars, queues>>

\* syncLocalAlbumAssetsToDb: the rows of the album, then its files, hashed.
StartDevice ==
  /\ op.kind = "none"
  /\ op' = [NoOp EXCEPT !.kind = "device", !.step = "scan",
              !.puts = [c \in Checksums |->
                 IF rows[c] # None /\ rows[c].local THEN rows[c] ELSE None]]
  /\ Only

\* _diffAssets of the files and of the rows read before.  A row whose file went
\* becomes remote or is dropped.  One whose file differs from it, as the file of
\* a trashed asset always does, is written again, by the copy read before.
Scan ==
  /\ At("device", "scan")
  /\ LET inDb == {c \in Checksums : op.puts[c] # None}
         left == inDb \ device
     IN  \E both \in SUBSET (inDb \cap device) :
           /\ {c \in inDb \cap device : op.puts[c].trashed} \subseteq both
           /\ op' = [op EXCEPT
                       !.step = "link",
                       !.seen = device,
                       !.adds = device \ inDb,
                       !.drops = {c \in left : op.puts[c].remote = None},
                       !.puts = [c \in Checksums |->
                          IF c \in both THEN @[c]
                          ELSE IF c \in left /\ @[c].remote # None
                               THEN [@[c] EXCEPT !.local = FALSE]
                               ELSE None]]
  /\ Only

\* _linkWithExistingFromDb with the files that have no row of the album.
LinkDevice ==
  /\ At("device", "link")
  /\ op' = [op EXCEPT
              !.step = "upsert",
              !.puts = [c \in Checksums |->
                 IF c \notin op.adds THEN @[c]
                 ELSE IF rows[c] = None
                      THEN [remote |-> None, local |-> TRUE, stamp |-> 0, trashed |-> FALSE]
                      ELSE [rows[c] EXCEPT !.local = TRUE]]]
  /\ Only

UpsertDevice ==
  /\ At("device", "upsert")
  /\ rows' = Written(op.puts, LAMBDA row : row.local)
  /\ op' = [op EXCEPT !.step = "prune"]
  /\ Outside /\ UNCHANGED <<etag, history, events>>

\* The database refuses the rows.  That is logged, and the rows without a file go.
FailUpsertDevice ==
  /\ At("device", "upsert")
  /\ Event
  /\ op' = [op EXCEPT !.step = "prune", !.seen = @ \ op.adds]
  /\ Outside /\ UNCHANGED <<rows, etag, history>>

Prune ==
  /\ At("device", "prune")
  /\ rows' = [c \in Checksums |->
                IF c \in op.drops THEN None
                ELSE IF op.puts[c] # None /\ ~op.puts[c].local THEN op.puts[c]
                ELSE rows[c]]
  /\ scanned' = op.seen
  /\ op' = NoOp
  /\ Outside /\ UNCHANGED <<etag, suspect, events>>

-----------------------------------------------------------------------------
ServerStep ==
  \/ \E c \in Checksums : Upload(c) \/ Change(c) \/ Delete(c) \/ Announce(c)
  \/ TimePasses
  \/ CleanUpAudits

DeviceStep == \E c \in Checksums : AddFile(c) \/ RemoveFile(c)

\* The operation under way takes its next step.
Proceed ==
  \/ FetchAudits \/ FetchUpdates \/ ApplyRemovals \/ Link \/ Upsert \/ SetETag
  \/ StartFull \/ Load \/ Diff \/ Drop
  \/ Scan \/ LinkDevice \/ UpsertDevice \/ Prune

Fail == FailRequest \/ FailRemovals \/ FailUpsert \/ FailUpsertDevice

Next ==
  \/ ServerStep
  \/ DeviceStep
  \/ StartRemote \/ StartPush \/ StartDevice
  \/ Proceed
  \/ Fail
  \/ ApplyGone
  \/ Clear

Spec == Init /\ [][Next]_vars

\* An operation runs to its end, and the app asks for a synchronisation again
\* and again, which gets its turn at the lock.  Nothing is owed by what was
\* announced: the app may be disconnected.
Fairness ==
  /\ WF_vars(Proceed)
  /\ SF_vars(StartRemote)

FairSpec == Spec /\ Fairness

-----------------------------------------------------------------------------
(* Properties                                                              *)

\* What the next question for changes will bring up: an asset by its stamp, a
\* removal by the audit log, or all of them because the log is too short.
WillLearnOfAsset(c) == server[c].stamp >= etag
WillLearnOfRemoval(id) ==
  (\E a \in audits : a.id = id /\ a.at > etag) \/ NeedsFullSync(etag)

\* Nothing falls between two synchronisations: whatever the app does not show
\* as the server has it is still to be learned from the time it will ask for.
NothingMissed ==
  etag # None =>
    \A c \in Checksums \ suspect :
      /\ server[c] # None =>
           \/ WillLearnOfAsset(c)
           \/ /\ rows[c] # None
              /\ rows[c].remote = server[c].id
              /\ rows[c].trashed = server[c].trashed
      /\ server[c] = None /\ rows[c] # None /\ rows[c].remote # None =>
           WillLearnOfRemoval(rows[c].remote)

\* A synchronisation with the server never takes away an asset of the device:
\* what the last scan found and wrote has a row that says so.
DeviceAssetsKept ==
  \A c \in scanned \ suspect : rows[c] # None /\ rows[c].local

\* The app shows of an asset what the server has.
Shows(c) ==
  IF server[c] = None
  THEN rows[c] = None \/ rows[c].remote = None
  ELSE /\ rows[c] # None
       /\ rows[c].remote = server[c].id
       /\ rows[c].trashed = server[c].trashed

\* Once the server stays as it is, the app comes to show it, although
\* announcements are lost and requests fail, unless a fault hid a change.
ViewConverges == \A c \in Checksums : <>[](Shows(c) \/ c \in suspect)
=============================================================================
