# Immich: models, checks and proofs

TLA+ models of the parts of Immich in which state lives in more than one place
(a database, a disk, a job queue, several isolates of a phone) and the code keeps
it together by the order of its calls alone. Paths below are relative to the root
of the repository; `domain/` is `server/src/domain/`.

Contents: 1 the system, 2 the modules, 3 StorageTemplate, 4 BackupLock,
5 AssetLifecycle, 6 MobileSync, 7 Libraries, 8 Users, 9 People, 10 runs and bounds,
11 fairness, 12 proofs, 13 what the models show of the code, 14 what is not modelled.

## 1. The system

Immich stores photos and videos. `immich-server` answers requests,
`immich-microservices` runs jobs, PostgreSQL holds the records, Redis (BullMQ) the
jobs, a file system the media; a Python service runs the machine learning models.
Clients are a web page, a mobile app that also backs up in the background, and a
command line tool. Processes meet only in the database, in Redis and on disk. A
request or a job is an `async` function: at every `await` anything else may run,
and another container may run the same code at the same time.

| Component | State it keeps | Operations | What is hard | What makes it correct |
|---|---|---|---|---|
| Storage template migration (`domain/storage-template`, `domain/storage/storage.core.ts`) | `move_history` rows, `originalPath`, `sidecarPath`, files, the database lock | migrate one, migrate all, move a file, resume a move | crash between any two steps; asset read before the lock; copies across devices; free paths that do not stay free | no original lost or overwritten; record or journal leads to it; migration completes |
| Backup lock (`background.service.dart`) | name-to-port mapping, waiting isolate, lock flags | acquire, heartbeat, answer, release | isolates die or are slow; compare-then-remove; one remembered waiter | one isolate at a time; no waiter forgotten |
| Asset lifecycle (`domain/asset`, `immich/api-v1/asset`, `domain/storage`) | `assets` rows, files, jobs | upload, duplicate answer, trash, restore, delete record, delete files | deletion against the job chain; partial failure of an upload; paths reused | a record has its file; what is deleted leaves no file; only the unwanted is removed |
| Job pipeline (`domain/job`, `job.repository.ts`) | queues, pause flags, counts | queue, run, follow up, pause, resume, empty, start | handler errors swallowed; check-then-queue; fall-through in `onDone` | every asset is fully processed; a paused queue is resumed |
| Metadata and live photos (`domain/metadata`) | exif rows, `livePhotoVideoId`, `isVisible` | extract, link, sidecar discovery, sync and write, geocoder start | two halves of a live photo processed at once; queue left paused | each video hidden behind one still, none lost |
| Media (`domain/media`) | thumbnails, encoded videos and their paths | thumbnails, transcode, migrate | record deleted while a file is written | thumbnails in the end |
| Libraries (`domain/library`) | libraries, external assets, offline flags | scan, refresh, remove offline, delete | scans against deletion and against each other; delete by repeated jobs | one asset per file; a deleted library disappears, external files never |
| Users (`domain/user`) | users, folders | create, delete, restore, delayed deletion | restore against deletion; folders before rows | a restored user keeps files |
| People (`domain/person`) | people, faces, feature photos | recognise, merge, reassign, clean up | recognition against merge and clean-up | every face has one living person |
| Embeddings (`domain/smart-info`) | embedding column, its size | encode, change size | change of model while jobs run | all embeddings of one size |
| System configuration (`domain/system-config`) | overrides, cached file, subject `config$` | get, update, refresh | save and delete in two calls; broadcast to other processes | all processes end with the saved settings |
| Albums (`domain/album`) | album users, assets, thumbnail | add and remove | read-modify-write of the user list | no update lost |
| Access, auth, shared links, partners, API keys | permission records, tokens | check, login, logout | many rules | nobody reads what is not shared |
| Activity, tags, search, server info, audit | rows | queries and single writes | little | - |
| Database start-up (`domain/database`) | extensions, schema | check, migrate | two containers start at once | migrated once |
| Machine learning (`machine-learning/app`) | model cache, active requests | predict, load, idle shutdown | shutdown against a request; two loads | loaded once, not shut down in use |
| Mobile backup and sync (`backup.service.dart`, `sync.service.dart`) | local database, upload candidates | sync, backup | interrupted sync; concurrent operations | local view converges to the server's |
| Command line (`cli/src`) | - | upload files | deletes local files after the upload | deletes only what was stored |
| Web client (`web/src`) | stores, upload queue | upload, browse | concurrency limit | every file tried once |

How they interact: an upload inserts a record and queues the first job
(`asset.core.ts`); `JobService.onDone` queues the next job of the chain metadata,
live photo link, storage template, JPEG thumbnail, WebP thumbnail (and embedding,
faces, video); deletion jobs remove the record and queue the removal of the files
the record named; a cron job looks every night for the trash, deleted users and
missing thumbnails. Storage moves, geodata import, embedding size and migrations
are serialised by `withLock` (`database.repository.ts`), a local `AsyncLock` around
a PostgreSQL advisory lock.

## 2. The modules

| # | Module | Composes with | Abstract specification | State |
|---|---|---|---|---|
| 1 | `StorageTemplate`, `StorageTemplateProofs` | - | `FilePlacement`: every original at one place, moves in one step | checked, safety and refinement proved |
| 2 | `BackupLock`, `BackupLockProofs` | - | mutual exclusion, stated directly | checked, safety proved |
| 3 | `AssetLifecycle`, `AssetLifecycleProofs` | stands on `StorageTemplate` for the inside of a move | - | checked, one property of safety proved |
| 4 | `MobileSync`, `MobileSyncProofs` | the server it asks is an action of the same module | the view equals the server, stated as convergence | checked, safety proved |
| 5 | `Libraries`, `LibrariesProofs` | the deletion job of 3 is one step of it | a directory mirrored by records, stated as convergence | checked, safety proved |
| 6 | `Users`, `UsersProofs` | - | - | checked, safety proved |
| 7 | `People`, `PeopleProofs` | - | - | checked, safety proved |

`MCStorageTemplate`, `MCBackupLock`, `MCAssetLifecycle` and `MCPeople` hold the
constants of the runs that a cfg cannot write; the other modules are checked as they
are. `QueueLemmas` holds what the proofs of 5 to 7 use about job queues.

Left for later, in the order of their worth: an upload queue of the web client and the
deletion of the command line tool (small modules); the linking of two uploads to a live
photo and the pausing of queues (in `AssetLifecycle`, whose runs are at their limit of
time now); access rules against a reference definition.

## 3. StorageTemplate

Code: `storage-template.service.ts` (`handleMigrationSingle`, `handleMigration`,
`moveAsset`, `getTemplatePath`, `onConfig`), `storage.core.ts` (`moveFile`,
`verifyNewPathContentsMatchesExpected`, `savePath`), `move.entity.ts`,
`move.repository.ts`, `database.repository.ts` (`withLock`).

| Variable | Code |
|---|---|
| `fs` | the content of each path; contents tell whose bytes they are and whether they are whole, short or garbled |
| `db` | `originalPath` and `sidecarPath` of each asset |
| `moves` | the rows of `move_history`, at most one per asset and kind (`UQ_entityId_pathType`), `newPath` unique |
| `lock` | the holder of `DatabaseLock.StorageTemplateMigration` |
| `job` | per worker: the step of `moveAsset`/`moveFile`, the asset as it was loaded, destination and source |
| `config` | the storage template settings |
| `faults`, `interrupts`, `changes` | counters of the bounded actions |

A path is a base (an upload path of one asset, or a rendered template), the number
of the "+N" suffix and a kind. `Load` reads the asset before the lock is taken, as
the code does; `StartMove` takes the lock and computes the path; `CreateMove`,
`ResumeMove`, `AbandonMove` and `RefuseMove` are the four ways through the journal
part of `moveFile`; `Rename`, `FailRename` or the copy branch (`StartCopy`,
`FinishCopy`, `AcceptCopy`, `RejectCopy`, `UnlinkOld`) follow, then `SavePath` and
`ForgetMove`. `Interrupt` ends a worker at any of these points: a crash, or an
exception that `withLock` and `moveAsset` answer by releasing. A copy in progress is
short; a finished copy may be damaged without an error (`CopyFaults`). Uploads and the
library lie in different folders (`upload/` and `library/`), so that a template never
renders an upload path (`UploadsAreApart`).

`FilePlacement` is the abstract specification: no disk, journal or worker, only the
place of each original. `MovesAreAtomic` states that `StorageTemplate` implements it
under the mapping `Location`: the path of the record if the file is there, else the
one of the journal row where it is.

## 4. BackupLock

Code: `mobile/lib/modules/backup/background_service/background.service.dart`,
lines 200-280. The lock is the mapping of a name to a port in the
`IsolateNameServer`. `Acquire` is the entry of `acquireLock`, which supersedes a
waiting call by a new `_wantsLockTime`; `Register` and `FailRegister` are the two
results of `registerPortWithName`; `Look` is the lookup and the first heartbeat;
`HearActive`, `HearReleased`, `AskAgain`, `Timeout` and `Remove` are the loop of
`_checkLockReleasedWithHeartbeat`; `Answer` is `_heartbeatListener`; `Release` and
`GiveUp` are `releaseLock` with and without the lock. `Die` is the system.

Calls of the `IsolateNameServer` are single steps between which other isolates run;
within an isolate only an `await` lets another call in (`Awaiting`). Abstractions:
a port is named by its isolate, and a reference to a closed port is `None` (nothing
arrives there and no lookup finds it); a dead isolate keeps its name because the
mapping to its port stays and compares equal. Time is reduced to the question that
matters: whether a timeout fires although the answer was still to come, at most
`MaxSlow` times.

## 5. AssetLifecycle

Code: `uploadFile` and `AssetCore.create`, the upload interceptor, the handler
wrapper and `onDone` of `job.service.ts`, the handlers of metadata, live photo
link, storage template (one asset), JPEG and WebP thumbnails, `handleAssetDeletion`,
`handleDeleteFiles`, `deleteAll`, `restoreAll`, `handleTrashAction`,
`handleAssetDeletionCheck` and `handleQueueGenerateThumbnails`.

| Variable | Code |
|---|---|
| `rows` | the `assets` table: checksum, original path, video part, visibility, trash, and whether exif, JPEG and WebP are there |
| `disk` | whose file is at each path |
| `jobs` | the waiting jobs of all queues, a bag; any may be taken next |
| `worker` | per handler: its step, its job and the record as it was loaded |
| `request` | the step of `uploadFile` per request |
| `emptied` | the assets found in the trash whose deletion is not queued yet |
| `unwanted` | what owners have last asked to delete; only a property reads it |
| `history` | the cases the properties except, noted in the step that brings them about |
| `faults` | counters of the bounded actions |

Two handlers run at once (`job.service.ts:125`, where only the move is kept to one). A
handler loads its record in `Take`; what it writes later may meet a record that has
changed or gone. The exceptions a handler can throw all end in `Throw` or in the branch
without a record, because the wrapper catches them and drops the job; `attempts: 3` of
the queue is never used for that reason. `queueAll` hands the job options to BullMQ under
the key `options`, which `addBulk` does not read, so that neither job ids nor priorities
have an effect; the bag has neither.

`FailUpload` is any call of the try block of `uploadFile`: before the first record,
between the two, or after one was made, when its first job is queued. The catch block
queues the deletion of the files of the request, of those that have a record by then too
(`CleanUp`); its own call to the queue may throw as well (`FailCleanUp`). `Unlink`
removes one file after the other; one that cannot be removed is logged (`FailUnlink`).
The nightly search reads the trash in `FindTrashed` and queues in `EmptyTrash`, between
which an asset may be restored.

`history` has three sets, each of what the code itself gives away or leaves behind
(section 13): `overtaken`, stills restored while their deletion was on its way;
`contested`, paths of a failed upload that has a record, and of an asset deleted a second
time; `abandoned`, assets whose files only a failed call knew of, or that another handler
was writing when the record went. A property excepts exactly these.

Abstracted: a move is a rename and a save under the lock (its inside is
StorageTemplate's subject); the checksum is a function of the asset; one owner and
one library; faces, embeddings, the thumbhash and transcoding are left out; a
nightly thumbnail job that still waits is not queued again, which keeps the bag
finite and changes nothing for a handler that finds its work done. What was uploaded
before (`Stored`) is in its place, processed.

## 6. MobileSync

Code: `mobile/lib/shared/services/sync.service.dart` (`syncRemoteAssetsToDb`,
`_syncRemoteAssetChanges`, `_syncRemoteAssetsFull`, `_linkWithExistingFromDb`,
`handleRemoteAssetRemoval`, the device album), `asset.service.dart` (the requests),
`websocket.provider.dart` (announced changes), `asset.provider.dart`, `db.dart`,
`models/asset.dart` (`merge`, `canUpdate`), and on the server the audit log
(`domain/audit`, its repository and subscriber) and the query for changed assets.

| Variable | Code |
|---|---|
| `clock`, `server`, `audits` | the server: its assets with `updatedAt`, and the log of deletions |
| `announced`, `gone` | `pendingChanges`: uploads and removals told by the websocket |
| `device`, `rows`, `etag` | the files of the device, the Isar collection of assets, the time of the eTag |
| `op` | the operation that holds the `AsyncMutex`: its kind, its step and what it has loaded |
| `scanned`, `suspect`, `events` | what a property remembers, and the bound on faults |

Each request, transaction and read between two awaits is an action, so that the server
changes, and announced removals and a manual refresh (both outside the mutex) are written,
in the midst of a synchronisation. Faults: a request fails, the database refuses the
removals (a full synchronisation follows), the rows (logged, and the time kept) or the
rows of the device (`FailUpsertDevice`: logged, and the rows without a file are pruned all
the same). A scan of the device writes again the rows it read before of files that differ
from them (`_diffAssets`), as every trashed one does; `Scan` chooses which. Announced
removals (`ApplyGone`) come after the uploads that were pending when
`handlePendingChanges` began, but ahead of an upload announced since. `Lag` is what the
clock of the app is behind; time is the number of changes of the server; `CleanUpAudits`
forgets what is older than `Retention`.

## 7. Libraries

Code: `domain/library/library.service.ts`, with the queries of `library.repository.ts`
and `asset.repository.ts` it rests on, the unique index of `asset.entity.ts`, the
deletion job as one step, and the metadata job as two.

| Variable | Code |
|---|---|
| `present`, `mtime`, `covered` | the files, and which of them import paths and exclusion patterns leave |
| `library`, `rows`, `created` | the library (active, softly deleted, gone), its assets, their ids |
| `queue`, `deletions`, `metadata` | the waiting jobs of "library", of "backgroundTask" (a set: they are done in any order) and of "metadataExtraction" |
| `worker` | per handler of "library": its job, its step, and the paths, rows and time it has read |
| `reader` | per handler of "metadataExtraction": the asset whose file it has read, and the time of that file |
| `overtaken`, `broken` | history: assets put online while their deletion waited; assets whose metadata a handler failed to queue or to read, or two handlers had in hand at once |

A scan reads the settings, crawls, lists the assets, marks the missing ones offline and
queues refreshes in five steps; `handleAssetRefresh` is `Load`, `Stat` and then one of
`SetOffline`, `SetOnline`, `CheckLibrary` with `Import`, `UpdateTimes`, and
`QueueMetadata`. Two handlers run at once. `HandleDeleteLibrary` finds the assets in one
step and queues their deletion, or removes the library, in the next. `CronScan` is the
job of the night. A file is its modification time; a path that was away comes back with
that time or a later one.

`handleMetadataExtraction` reads the file (`ReadMetadata`) and saves after further awaits
(`SaveMetadata`); two readers run at once, five in the code by default, and one whose
asset is gone saves nothing. A deletion or a reading may throw (`FailAssetDeletion`,
`FailMetadata`), which the wrapper logs.

## 8. Users

Code: `domain/user/user.service.ts` (`delete`, `restore`, `handleUserDeleteCheck`,
`handleUserDelete`, `isReadyForDeletion`), `user.repository.ts`, `album.repository.ts`,
and the cascade of the entities. `row`, `albums`, `assets` are the tables, `folders`
the five folders on disk, `age` the days since the deletion, `request` the step of each
request of an administrator, `worker` those of the jobs. Requests run side by side
(`Clients`): nothing in `user.service.ts:67-83` keeps two for one user apart, and a
delete and a restore mix between their two calls each. `alone` tells of a request whether
its user has had another under way since it started. `expired` and `unsure` are history:
who reached the end of the time of waiting, and whose last request failed or was not
alone.
A handler throws or dies at any step (`Fail`), a request too (`FailRequest`). A night
passes whatever the handlers do, so that jobs of two nights overlap; `MaxJobs` bounds
how many wait.

## 9. People

Code: `domain/person/person.service.ts` (`handleQueueRecognizeFaces`,
`handleRecognizeFaces`, `mergePerson`, `reassignFacesById`, `createNewFeaturePhoto`,
`handlePersonCleanup`, `handlePersonDelete`), `person.repository.ts`, and the cascades
of `asset-face.entity.ts` and `person.entity.ts`.

`faces` and `people` are the tables, `recognised` the assets with
`facesRecognizedAt`, `worker` a recognition with the looks it has still to handle,
`request` the step of the owner's request. Whether two looks are near is a set
membership: the nearest face of a look is any face of that look. `FirstFeature` is the
update after `createFace`. `retired`, `forced`, `late` and `robbed` are history: people
merged or found without faces, people removed for a new recognition, faces given to the
former, assets that lost a face with its person.

## 10. Runs and bounds

| Run (cfg) | Question | Result |
|---|---|---|
| `retemplate_with_crashes` (ST_retemplate) | Two workers, a change of template, one crash, one failure, copies garbled silently: is a whole copy of every original always there and never overwritten? | holds |
| `one_worker_one_crash` (ST_one_worker) | One process, one template, one crash, two failures: does record or journal always lead to the original, is a move atomic (`FilePlacement`), does the migration complete? | holds |
| `retemplate_calm` (ST_calm) | No crash: two changes of settings, a disabled or unusable template, an asset of unknown size: do originals and sidecars arrive? | holds |
| `backup_lock_with_a_death` (BL_killed) | Two isolates, three calls each, one killed: exclusive, name leads to holder, nobody waits for ever? | holds |
| `lifecycle_uploads` (AL_uploads) | Two workers; a live photo whose still is known, a photo stored before; one trashing, one restore, two deletions, one call of a handler and two of an upload that throw, three of these together: does a record keep its original, is every file left named by a record, does only the unwanted go? | holds, 1.8 million states |
| `lifecycle_thumbnails` (AL_thumbnails) | Two workers, a handler that throws, a deletion: does every asset get its thumbnails? | holds |
| `mobile_sync` (MS_sync) | One asset, a slow clock, an audit log kept for a short time, two faults: is every change learned in the end, does the view converge, does the device keep its assets? | holds, 1.1 million states |
| `mobile_full_sync_in_chunks` (MS_chunks) | Two assets in two chunks while the server changes: is every change still to be learned? | violated |
| `external_library` (LI_scan) | One file, two handlers, two readers of metadata, one change of a file, two requests or failures: one asset per file, nothing removed without reason, records and metadata follow the files, a deleted library goes for good? | holds, 0.6 million states |
| `library_restored` (LI_restored) | One file, two changes of it: is an asset kept that was offline and was put online again? | violated |
| `user_deletion` (US_delete) | One user with two folders, two handlers, four requests of which two at once, one failure: does only an expired user lose anything, does the order of the removal leave nothing behind, does a request that was alone leave user and albums alike, does it end? | holds, 0.9 million states |
| `people` (PE_people) | Two assets that share a person, two recognitions, one request or failure: are faces kept, is a recognised asset complete, do empty people go? | holds |

Bounds. Two assets are what a conflict over a path, a journal row or a checksum needs; the
third asset of ST_calm is the one of unknown size. `MaxDup` leaves more suffixes than
assets plus files left behind can take, so that `TemplatePath` is never empty, and `Slots`
is larger than the number of originals for the same reason. One crash and one failure
interrupt a move and its recovery once. Three attempts let an isolate lose, retry and be
superseded; two isolates suffice for every pairwise race. MobileSync: the rows of
different assets meet only in the requests of a full synchronisation, so that one asset is
enough for the rest and two, in chunks of one, for those; three changes are an upload, a
change and a removal. Libraries: paths meet in no table row and no queue entry, so that
one file shows the races of scans, refreshes and deletions over it; two events let an
owner ask for a removal or a deletion while a scan or a failure is on its way, beside the
scans of the nights, which are not bounded. Users: users share nothing, four requests are
deletion, restore and both again, of which two mix; one failure stops a request or the
removal half-way. People: two assets with a common look and one of their own make a person
of two faces, one of one face, and both races of two recognitions. AssetLifecycle: the
still of the live photo has the checksum of the stored photo, so that its insert fails
after that of the video part as long as the stored one has its record, and succeeds after;
three bounded events are a trashing, a restore and a deletion, or a deletion and two
failures, or two failures of one upload (the call and its clean-up) and a deletion; the
third slot is free when both others are taken. Every case the properties except comes
about within these bounds (section 13). Deletions and trashings are bounded because
repeating them adds states that differ only in the counters.

Deadlock is not checked where the system may rest: every attempt used up, every
bounded request of a user made, the migration switched off.

`_Faulty` definitions in the modules are plausible bugs the code does not have, each
replacing one definition; with it TLC finds the property named beside it in
PROJECT.json violated. They are not part of any specification.

## 11. Fairness

StorageTemplate: strong fairness of `Step(w)` and `Load(w, a)`. A worker waits for
the lock in two queues, both first come first served (`AsyncLock`, and PostgreSQL
for an advisory lock), so that a worker that is enabled again and again gets it; a
migration is run over all assets again whenever the administrator or the upload of
an asset asks for it, which is the meaning of "the migration completes". Nothing is
assumed of failures, crashes and settings.

BackupLock: weak fairness of the steps of `acquireLock`, of `Answer` and of
`Release`: event loops run, and a backup ends (it is bounded by the assets to
upload, and its network calls time out). A dead isolate owes nothing, because its
steps are disabled.

AssetLifecycle: weak fairness of a worker's steps and of the nightly search, which only
`ThumbnailsInTheEnd` uses. An upload may stop anywhere.

MobileSync: weak fairness of the steps of an operation (requests end, in success or
failure), strong fairness of `StartRemote`: the app asks for a synchronisation again at
every start and resume, and the mutex is first come first served. Nothing is assumed of
announcements, faults and the server.

Libraries, Users, People: weak fairness of each handler, of the other queues, and of the
night: BullMQ serves waiting jobs, cron comes every day. For Users the administrator's
request proceeds, for People nothing is assumed of the owner. In Libraries a night starts
its scan only when the last one has ended; in Users nights pass whatever happens. No
fairness keeps a handler from failing, which the bound on failures does.

## 12. Proofs

All proofs hold for every value of the constants within their assumptions; an
assumption on constants is stated in the module that declares them and evaluated by
TLC in the runs.

`StorageTemplateProofs` has four invariants, each resting on the one before, and a lemma
per action for each.

1. `IndInv == TypeOK /\ MoveDiscipline /\ (CopiesAreChecked => OriginalsSurvive)`.
   `OriginalsSurvive` alone is not inductive: a state in which a worker is about to
   unlink an original whose copy is damaged satisfies it, and the next state does not.
   `MoveDiscipline` excludes such states: only the holder of the lock is between journal
   and release (`LockHeld`), and what it found out about source and destination still
   holds (`DiskAgrees`); `TypeOK` carries that originals and sidecars never share a path.
   Proved: `TypeInvariance`, `MoveDisciplined`, `NothingOverwritten`, and
   `NoOriginalLost`, provided copies are hashed or never garbled: without the
   `hashVerification` setting a garbled copy of the right size is accepted, and the
   assumption `CopiesAreChecked` names exactly that.
2. `TrackInv`: records, journal rows and jobs agree on where an original is. A record holds
   the upload path or a path the template allows (`PlaceFine`); what is at either end of a
   row belongs to the asset of the row, and is whole if the other end is free
   (`EntryFine`); the bytes are where the record says, or where the row does
   (`RecordFine`); new paths differ, as `UQ_newPath` demands (`NewPathsDiffer`); and a worker
   knows all this of the asset it moves (`JobFine`). Hypotheses: `CopiesAreChecked`;
   `OneTemplate`, no change of the settings; `OneInterrupt`, one move at most is cut off.
   With a second one the property is false (section 13): the first leaves a row whose old
   path is in the library, the second lets another asset have that path. Assumption on the
   constants: an upload path is not one a template renders (`UploadsAreApart`). Proved, for
   any number of assets and workers and all failures of copies, renames and deletions:
   `OriginalsAreTracked`, `RecordsAreTrue`, and `MovesRefinePlacement`, the refinement of
   `FilePlacement` step by step: initial states map to initial states (`PlacementInit`), and
   a step changes the `Location` of one original at most, from where it is to a free path
   of its own (`OneMoves`, `PlacementNext`).
3. `CalmInv`, while nobody is cut off: every row leads from the upload path to the first path
   that was free, and no row waits behind a copy that may still be thrown away. So a row
   left by a failed rename is taken over with the very destination it names.
4. `SideInv`: every asset owns the sidecar paths next to where its original was, is, or is on
   its way to (`Own`); those of two assets are disjoint (`OwnApart`), and nothing but the
   sidecar of an asset is at a path it owns, except a copy under way. `moveFile` checks for
   an original that its destination is free and does not for a sidecar; the invariant says
   why nothing is overwritten all the same, and the hypotheses say when: no interrupt
   (`NoInterrupts`), no change of settings (`OneTemplate`), and no copy that is garbled at
   the right size, since sidecars are never hashed (`SizesTell`). Without any one of the
   three TLC finds a lost sidecar (section 13): two workers and one interrupt; two workers
   and two changes; one worker and one garbled copy. Proved: `SidecarsAreKept`.

`BackupLockProofs`. Assumptions: `HoldersArePunctual` (no late answer) and
`NoRaceForTheDead` (nobody dies, or at most two isolates). Both are necessary: without
the first a slow holder loses the lock, without the second one of two waiters removes
the mapping of the other, who has just taken the lock of a dead isolate. The inductive
invariant is `TypeOK`, `NameLeadsToHolder`, and four parts that say why a waiter removes
only a dead holder: deaths are counted, the port a waiter asks belongs to a holder or a
dead isolate, a heartbeat to a holder is answered (it is on its way, or its answer is in
the inbox), and only the mapping of a dead isolate is about to be removed. Proved:
`HolderIsReachable`, `BackupIsExclusive` and `LockTypeInvariance`.

`AssetLifecycleProofs` (assumptions of the module: every file of a request gets its own
record, `PartsAreTheirOwn`; what is stored is in place, `StoredIsInPlace`; and `None` is
no row, `NoneIsNoRow`). `TypesAreKept` and `OnlyUnwantedGo` need no other: they hold for
any number of handlers, requests, restores and failures. For the second, every still in
the trash, and every one that is found in it, or that a job or a handler is to delete,
was given up by its owner or restored too late (`UnwantedFine`), and the video part that
goes with a still is never itself a still (`LiveFine`). `RecordsKeepTheirOriginal` and
`DeletedLeaveNothing`, with two handlers and failures everywhere, are model-checked only.

`MobileSyncProofs`. The invariant is `TypeOK`, `ServerFine` (changes carry times the
server has had), `QueuesFine` (an announcement under way was true when it was sent, and an
id announced as gone belongs to no asset any more) and `AppFine` (a row is right, or what
is wrong with it will be told to who asks for what happened since the time the app has
kept; and an operation under way writes only what keeps this so), all of them for assets
that are not `suspect`: the theorems speak of what is neither refused by the database, nor
undone by an announcement that was no longer true, nor written by an operation under which
the database was cleared. `TypesAreKept` and `AssetsOfTheDeviceAreKept` need no
hypothesis; the second has an invariant of its own (`LocalInv`: no operation is about to
drop, or to write as remote only, what the device holds). `NothingIsMissed` needs two:
`ClockIsNotAhead` (`Lag >= 0`) and `OneChunk` (all assets fit into one request of the full
synchronisation); both are necessary, by the run `mobile_full_sync_in_chunks` and by
section 13.

`QueueLemmas`. A queue stays a sequence of jobs of one kind when jobs of the kind are
added or one is taken. The proofs below put into the kind what a waiting job rests on (a
deletion waits only for whom it may delete), so that an invariant over all waiting jobs
is one over a set: it has to be shown only that the set never shrinks.

`UsersProofs` (sets of users finite, `Wait` positive). The invariant says of each handler
past the check that its user has expired, that folders it has passed are gone for good,
and where a request between its two calls, alone for its user, leaves user and albums; of
requests that are not alone it says only that the user will be `unsure` when they end.
`AlbumsStayWithTheirUser` has the exceptions of `AlbumsFollowUser`: of a user whose last
request overlapped or failed, and of one whose time of waiting was over. Proved:
`UsersTypeInvariance`, `NothingGoesEarly`, `NoFolderOutlivesItsUser` and
`AlbumsStayWithTheirUser`.

`LibrariesProofs` (files finite). The invariant says that a handler that deletes works on
a library its owner has deleted, that a queued deletion names an asset that is offline or
was put online while it waited, or the library is deleted, and that a library that is
gone has no assets. One asset per file follows from the unique index alone, which is
why the invariant needs nothing of what two refreshes have read. Proved:
`LibraryTypeInvariance`, `OneAssetPerFile`, `NothingRemovedWithoutReason`, `GoneForGood`.

`PeopleProofs` (assets finite). A recognition has given a face to every look of its asset
but those it has in hand or still to come, unless the asset is gone or robbed
(`GoodWorker`); this carries `RecognisedInFull`. Whoever waits for deletion is
`Condemned`: gone, of old, retired or removed for a new recognition, and faces of retired
people are late; this, the unique numbers of faces, and that a face's person exists, carry
`FacesKept`. Both properties have exceptions, which the theorems share: assets that lost a
face with its person (`robbed`), and faces given to a condemned person (`late`) or to one
a forced recognition is to remove (`forced`). Proved: `PeopleTypeInvariance`,
`RecognisedIsComplete`, `NoFaceIsLost`.

Only model-checked: `RecordsKeepTheirOriginal`, `DeletedLeaveNothing`, and all liveness
(`MigrationCompletes`, `SidecarMigrationCompletes`, `WaitersProceed`,
`ThumbnailsInTheEnd`, `ViewConverges`, `RecordsFollowFiles`, `MetadataFollowsFiles`,
`DeletedLibraryDisappears`, `DeletedDisappear`, `EmptyPeopleGo`) since the prover handles
no fairness, and with it the liveness part of `MovesAreAtomic` (its safety part is
`MovesRefinePlacement`). The run of `SidecarsSurvive` allows two changes of the settings
with one worker, which the theorem excludes: there it holds within the bounds of the run
only.

## 13. What the models show of the code

Violated, by a run whose trace is a schedule of the code:

- `asset.service.dart:79`: a full synchronisation of the app asks for chunks by their
  position in a result that shrinks as assets are changed or removed; an asset it skips
  disappears from the app and is not asked for again (`mobile_full_sync_in_chunks`);
- `library.service.ts:357`: an offline asset whose deletion is queued is removed although
  its file came back and a scan put it online, where `docs/docs/features/libraries.md:37`
  says it is restored (`library_restored`).

The same modules show these with other constants, and no run is kept for them.

StorageTemplate:
- a move interrupted twice is resumed with a file that belongs to another asset
  (`storage.core.ts:171`; `RecordsLeadToOwnBytes`, one worker, `MaxInterrupts = 2`);
- an interrupted move of a sidecar is never finished, because its recovery stats the old
  path (`storage.core.ts:236`; `SidecarMigrationCompletes`, `MaxInterrupts = 1`);
- two processes that loaded the same asset leave a journal row whose `newPath` blocks
  other assets (`MigrationCompletes`, two workers, no fault);
- a crash between the moves of original and sidecar lets the sidecar of another asset
  overwrite the one left behind (`SidecarsSurvive`, `MaxInterrupts = 1`, two changes; with
  two workers no change is needed);
- changes of the template between the moves of two workers do the same without a crash
  (`SidecarsSurvive`, two workers, two changes, or one and one failed call);
- a sidecar copied across devices is compared by size only, whatever `hashVerification`
  says, and a garbled copy replaces it (`storage.core.ts:243`; `SidecarsSurvive`, `CopyFaults`
  with "garbled").

BackupLock:
- the mapping of a new holder is removed in place of the dead one's
  (`background.service.dart:243`; `ExclusiveAccess`, three isolates, one death);
- a holder that answers one heartbeat late loses the lock (`ExclusiveAccess`, two
  isolates, `MaxSlow = 1`).

What the exceptions in the properties of the other modules stand for. All are needed: with
one of them taken out, TLC finds the property violated within the bounds of its run (for a
file that is away when its metadata is read, with `MaxChanges = 2` and `MaxEvents = 1`).
- AssetLifecycle, `RecordsKeepTheirOriginal` (`contested`): the clean-up of a failed upload
  deletes the file of the video part whose record it has just created
  (`immich/api-v1/asset/asset.service.ts:94`); the second of two deletions of an asset
  removes the file another asset has at that path by now (`domain/asset/asset.service.ts:497`).
- AssetLifecycle, `OnlyUnwantedAreRemoved` (`overtaken`): an asset restored while its
  deletion waits is deleted (`domain/asset/asset.service.ts:454`).
- AssetLifecycle, `DeletedLeaveNothing` (`abandoned`): an original renamed or a thumbnail
  written while the deletion is under way stays on disk (`:491`); so do the files of a
  handler that throws between record and queue (`:483`), of an upload whose clean-up
  throws (`immich/api-v1/asset/asset.service.ts:92`), and what cannot be unlinked.
- MobileSync: a write the database refuses is logged and the time kept, so that its assets
  are not asked for again (`sync.service.dart:234`); a manual refresh clears the database
  while an operation writes (`db.dart:9`); an announcement that is no longer true undoes
  what is known (`websocket.provider.dart:217`). With a clock of the app ahead of the
  server's (`Lag` below 0) changes are missed.
- Libraries: `RemovedForAReason` excepts the assets of the second finding (`overtaken`). A
  refresh that fails between saving the time and queueing the metadata leaves old metadata
  (`library.service.ts:278` and `:289`), so does a file that is away when the metadata is
  read, and so do two readings of one asset of which the older is saved last
  (`metadata.service.ts:213` and `:248`): `broken`.
- Users, `AlbumsFollowUser` (`unsure`): a delete and a restore at once leave an active user
  with its albums in the trash, or a deleted one with its albums active
  (`user.service.ts:73`, `:81`), and so does a request that fails between its two calls.
- Users: a user restored after the removal passed its check loses folders and records,
  and the row, though active again, goes (`user.service.ts:147` to `:171`).
- People: merging a person into itself deletes it with all its faces
  (`person.service.ts:489`); a face recognised as a person already merged, or of a person
  the clean-up has just found without faces, goes with it (`:268`, `:347`, `:489`); a
  forced recognition skips assets whose faces its own deletions then remove (`:280`); an
  asset of which a recognition failed after some faces is not looked at again (`:322`);
  two recognitions of one new look make two people (`:343`).

## 14. What is not modelled

Whole components: search embeddings, system configuration, albums, access control and
authentication, activity, tags, search, server info and audit reports, database start-up,
the machine learning service, the command line tool, the web client. Most are queries and
single writes, or user interface. The generated API clients hold no logic. Hazards of
these parts, which PROJECT.json does not list because no module is near them:
- `smart-info.service.ts:90`: an embedding of the old model is written after its size was
  changed; `:38`: the start waits for running jobs of a queue it has paused;
- `album.service.ts:264`: shared users are read, changed and written as a whole;
- `system-config.core.ts:294`: settings are saved and defaults deleted in two calls.

Of the job pipeline: a queue is found idle and started in two calls
(`job.service.ts:82`); a failure between pause and resume leaves the metadata queue paused
(`metadata.service.ts:141`); the case of `SIDECAR_WRITE` falls through to linking live
photos (`job.service.ts:180`); `addBulk` is given options under a key it does not read
(`job.repository.ts:136`); the last upload library may be deleted by two requests
(`library.service.ts:145`); a duplicate of an asset in the trash is acknowledged and goes
with it (`immich/api-v1/asset/asset.service.ts:100`).

Inside the modelled ones:
- files: moves of thumbnails, encoded videos and face crops, removal of empty folders,
  stacks, edits, downloads and the timeline, transcoding, the backup itself;
- jobs: pausing, emptying and starting queues, stalled jobs;
- metadata: linking two uploads, motion photos, sidecar jobs, the geocoder;
- mobile: albums, partners and other users, exif, the upload; a refresh asked for while
  one runs, which is dropped (`asset.provider.dart:39`); removals told as "hidden", which
  are written like deletions; several albums of the device and its fast path, with its own error path
  (`sync.service.dart:625`); a failure of the transaction that prunes rows (`:484`);
- libraries: upload libraries (`library.service.ts:145`), creation, statistics, stacks and
  thumbnails of external assets; the owner's external path is taken to be set and the
  nightly scan to be on;
- users: sign-up, where two first users at once both become administrators
  (`auth.service.ts`), profile pictures, files that jobs in flight write after the folders
  were removed;
- people: names and other fields, thumbnails, the move of several faces in one request
  (each as the move of one), a feature face set by hand, which may belong to another
  person.

The loss of the database session while `withLock` holds its lock is not modelled: the
code does not notice it. PostgreSQL, Redis and the file system are taken to do what they
promise, a rename to be atomic.
