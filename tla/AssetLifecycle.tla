--------------------------- MODULE AssetLifecycle ---------------------------
(***************************************************************************)
(* The life of an uploaded asset: the upload request, the chain of jobs    *)
(* that gives it metadata, a place in the library and thumbnails, the      *)
(* trash, and the jobs that delete its record and its files.               *)
(*                                                                         *)
(* The records are in the database, the files on disk, and the jobs wait   *)
(* in Redis; nothing ties the three together but the order of the calls.   *)
(* A request and every worker stop at each await, where the others run.    *)
(*                                                                         *)
(* Abstracted: a move of a file is the rename and the save of its path     *)
(* (how it survives a crash is the subject of StorageTemplate); the other  *)
(* thumbnails, faces and embeddings are left out; a record that somebody   *)
(* else made is as good as one of an upload.                               *)
(***************************************************************************)
EXTENDS Naturals, FiniteSets, Bags

CONSTANTS
  Assets,        \* the records an upload may create
  Stills,        \* those created for the file of a request, one per request
  MotionOf,      \* the video part sent along with a still, or None
  Stored,        \* the stills uploaded and processed before
  Home,          \* the place of each of them in the library
  Checksum,      \* the checksum of the bytes of an asset
  Slots,         \* bound: paths under the template, 0..Slots-1, shared by all
  Workers,       \* the handlers that run at once
  MaxFailures,   \* bound: calls of a handler that throw
  MaxUploadFaults,\* bound: calls of an upload that throw
  MaxTrashed,    \* bound: calls that move an asset to the trash
  MaxRestored,   \* bound: calls that restore one
  MaxDeleted,    \* bound: forced deletions and nights that delete the trash
  MaxEvents,     \* bound: all of these together
  Nights,        \* whether the nightly search for missing thumbnails runs
  None

ASSUME UploadsAreAssets ==
  /\ Stills \subseteq Assets
  /\ MotionOf \in [Stills -> (Assets \ Stills) \cup {None}]
  /\ None \notin Assets

\* Every file of a request gets a record of its own.
ASSUME PartsAreTheirOwn ==
  \A u, v \in Stills : MotionOf[u] = MotionOf[v] /\ MotionOf[u] # None => u = v

Upload(a) == <<"upload", a>>
Jpeg(a) == <<"jpeg", a>>
Webp(a) == <<"webp", a>>
Library == {<<"library", n>> : n \in 0..(Slots - 1)}
Path == Library \cup {Upload(a) : a \in Assets} \cup {Jpeg(a) : a \in Assets}
                \cup {Webp(a) : a \in Assets}

\* What was stored before is no duplicate and has no video part.
ASSUME StoredIsInPlace ==
  /\ Stored \subseteq {u \in Stills : MotionOf[u] = None}
  /\ Home \in [Stored -> Library]
  /\ \A a, b \in Stored : Home[a] = Home[b] \/ Checksum[a] = Checksum[b] => a = b

VARIABLES
  rows,      \* the assets table
  disk,      \* whose file is at each path
  jobs,      \* the waiting jobs, a bag
  worker,    \* what each handler does, and the record it has loaded
  request,   \* how far uploadFile is for each still
  emptied,   \* what was found in the trash and is not yet queued for deletion
  unwanted,  \* what its owner has last asked to be deleted
  history,   \* what the properties except, noted where it happens
  faults     \* how often the bounded actions have happened

vars == <<rows, disk, jobs, worker, request, emptied, unwanted, history, faults>>

Row == [checksum: {Checksum[a] : a \in Assets}, original: Path, live: Assets \cup {None},
        visible: BOOLEAN, trashed: BOOLEAN, exif: BOOLEAN, jpeg: BOOLEAN, webp: BOOLEAN]

\* No row is the absence of one.
ASSUME NoneIsNoRow == None \notin Row

ChainJobs == {"metadata", "link", "move", "jpeg", "webp"}
Job == [name: ChainJobs, id: Assets, upload: BOOLEAN]
       \cup [name: {"deletion"}, id: Assets]
       \cup [name: {"files"}, files: SUBSET Path]

Idle == [pc |-> "idle"]
\* A handler: the job, the asset in hand and its record as loaded.
Busy == [pc: {"run", "save", "live", "files", "done"}, job: Job, id: Assets, row: Row]
        \cup [pc: {"unlink"}, job: Job]

RequestStates == {"new", "motion", "queueMotion", "still", "queueStill", "duplicate",
                  "failed", "answer", "answered", "refused"}

TypeOK ==
  /\ rows \in [Assets -> Row \cup {None}]
  /\ disk \in [Path -> Assets \cup {None}]
  /\ IsABag(jobs) /\ BagToSet(jobs) \subseteq Job
  /\ worker \in [Workers -> Busy \cup {Idle}]
  /\ request \in [Stills -> RequestStates]
  /\ emptied \subseteq Assets /\ unwanted \subseteq Assets
  /\ history \in [overtaken: SUBSET Stills, contested: SUBSET Path, abandoned: SUBSET Assets]
  /\ faults \in [{"failed", "upload", "trashed", "restored", "deleted"} -> Nat]

StoredRow(a) ==
  [checksum |-> Checksum[a], original |-> Home[a], live |-> None, visible |-> TRUE,
   trashed |-> FALSE, exif |-> TRUE, jpeg |-> TRUE, webp |-> TRUE]
StoredFiles(a) == {Home[a], Jpeg(a), Webp(a)}

Init ==
  /\ rows = [a \in Assets |-> IF a \in Stored THEN StoredRow(a) ELSE None]
  /\ disk = [p \in Path |-> IF \E a \in Stored : p \in StoredFiles(a)
                            THEN CHOOSE a \in Stored : p \in StoredFiles(a) ELSE None]
  /\ jobs = EmptyBag
  /\ worker = [w \in Workers |-> Idle]
  /\ request = [u \in Stills |-> IF u \in Stored THEN "answered" ELSE "new"]
  /\ emptied = {} /\ unwanted = {}
  /\ history = [overtaken |-> {}, contested |-> {}, abandoned |-> {}]
  /\ faults = [failed |-> 0, upload |-> 0, trashed |-> 0, restored |-> 0, deleted |-> 0]

-----------------------------------------------------------------------------
(* Jobs                                                                    *)

ChainJob(name, a, upload) == [name |-> name, id |-> a, upload |-> upload]
Deletion(a) == [name |-> "deletion", id |-> a]
DeleteFiles(files) == [name |-> "files", files |-> files]

Queue(set) == jobs' = jobs (+) SetToBag(set)

\* Count one more of a bounded kind of step.
Count(kind, max) ==
  /\ faults[kind] < max
  /\ faults.failed + faults.upload + faults.trashed + faults.restored + faults.deleted < MaxEvents
  /\ faults' = [faults EXCEPT ![kind] = @ + 1]

-----------------------------------------------------------------------------
(* uploadFile                                                              *)

Exists(a) == rows[a] # None
Parts(u) == {u} \cup ({MotionOf[u]} \ {None})

\* The interceptor has written the files of the request under their own names.
Receive(u) ==
  /\ request[u] = "new"
  /\ disk' = [p \in Path |-> IF p \in {Upload(a) : a \in Parts(u)} THEN p[2] ELSE disk[p]]
  /\ request' = [request EXCEPT ![u] = IF MotionOf[u] = None THEN "still" ELSE "motion"]
  /\ UNCHANGED <<rows, jobs, worker, emptied, unwanted, history, faults>>

\* The unique index on owner, library and checksum also sees the trash.
IsDuplicate(a) == \E b \in Assets : Exists(b) /\ rows[b].checksum = Checksum[a]

NewRow(a, live, visible) ==
  [checksum |-> Checksum[a], original |-> Upload(a), live |-> live, visible |-> visible,
   trashed |-> FALSE, exif |-> FALSE, jpeg |-> FALSE, webp |-> FALSE]

\* assetCore.create: the insert, which fails for a duplicate.
Insert(u, a, live, visible, next) ==
  /\ IF IsDuplicate(a)
     THEN /\ request' = [request EXCEPT ![u] = "duplicate"]
          /\ rows' = rows
     ELSE /\ request' = [request EXCEPT ![u] = next]
          /\ rows' = [rows EXCEPT ![a] = NewRow(a, live, visible)]
  /\ UNCHANGED <<disk, jobs, worker, emptied, unwanted, history, faults>>

CreateMotion(u) ==
  /\ request[u] = "motion"
  /\ Insert(u, MotionOf[u], None, FALSE, "queueMotion")

CreateStill(u) ==
  /\ request[u] = "still"
  /\ Insert(u, u, MotionOf[u], TRUE, "queueStill")

\* assetCore.create: the first job of the chain is queued.
QueueMotion(u) ==
  /\ request[u] = "queueMotion"
  /\ Queue({ChainJob("metadata", MotionOf[u], TRUE)})
  /\ request' = [request EXCEPT ![u] = "still"]
  /\ UNCHANGED <<rows, disk, worker, emptied, unwanted, history, faults>>

QueueStill(u) ==
  /\ request[u] = "queueStill"
  /\ Queue({ChainJob("metadata", u, TRUE)})
  /\ request' = [request EXCEPT ![u] = "answered"]
  /\ UNCHANGED <<rows, disk, worker, emptied, unwanted, history, faults>>

\* A call of the try block throws: before the first record, between the two, or
\* after one was created, when its first job is queued.
FailUpload(u) ==
  /\ request[u] \in {"motion", "queueMotion", "still", "queueStill"}
  /\ Count("upload", MaxUploadFaults)
  /\ request' = [request EXCEPT ![u] = "failed"]
  /\ UNCHANGED <<rows, disk, jobs, worker, emptied, unwanted, history>>

\* The catch block: the files of the request are to be deleted, those that have
\* a record by now (contested) as well as the others.
Uploaded(u) == {Upload(a) : a \in Parts(u)}
Recorded(u) == {Upload(a) : a \in {b \in Parts(u) : Exists(b)}}

CleanUp_FaultyForgotten(u) ==
  /\ request[u] \in {"duplicate", "failed"}
  /\ request' = [request EXCEPT ![u] = IF @ = "duplicate" THEN "answer" ELSE "refused"]
  /\ UNCHANGED <<rows, disk, jobs, worker, emptied, unwanted, history, faults>>

CleanUp(u) ==
  /\ request[u] \in {"duplicate", "failed"}
  /\ Queue({DeleteFiles(Uploaded(u))})
  /\ request' = [request EXCEPT ![u] = IF @ = "duplicate" THEN "answer" ELSE "refused"]
  /\ history' = [history EXCEPT !.contested = @ \cup Recorded(u)]
  /\ UNCHANGED <<rows, disk, worker, emptied, unwanted, faults>>

\* The call of the catch block to the queue throws too: the files stay (abandoned).
FailCleanUp(u) ==
  /\ request[u] \in {"duplicate", "failed"}
  /\ Count("upload", MaxUploadFaults)
  /\ request' = [request EXCEPT ![u] = "refused"]
  /\ history' = [history EXCEPT !.abandoned = @ \cup Parts(u)]
  /\ UNCHANGED <<rows, disk, jobs, worker, emptied, unwanted>>

\* A duplicate is answered with the asset that has the bytes, if still there.
AnswerDuplicate(u) ==
  /\ request[u] = "answer"
  /\ request' = [request EXCEPT ![u] =
       IF \E a \in Parts(u) : IsDuplicate(a) THEN "answered" ELSE "refused"]
  /\ UNCHANGED <<rows, disk, jobs, worker, emptied, unwanted, history, faults>>

-----------------------------------------------------------------------------
(* Workers                                                                 *)

Handles(w, name) == worker[w].pc # "idle" /\ worker[w].job.name = name
Goto(w, pc) == worker' = [worker EXCEPT ![w].pc = pc]
Finish(w) == worker' = [worker EXCEPT ![w] = Idle]

Take_FaultyUnchecked(w) ==
  /\ worker[w] = Idle
  /\ \E job \in BagToSet(jobs) :
       /\ jobs' = jobs (-) SetToBag({job})
       /\ worker' = [worker EXCEPT ![w] =
            IF job.name = "files" THEN [pc |-> "unlink", job |-> job]
            ELSE [pc |-> "run", job |-> job, id |-> job.id, row |-> rows[job.id]]]
  /\ UNCHANGED <<rows, disk, request, emptied, unwanted, history, faults>>

\* A worker takes a waiting job.  The handler loads the record first; without
\* one it returns false or throws, and the job is over.
Take(w) ==
  /\ worker[w] = Idle
  /\ \E job \in BagToSet(jobs) :
       /\ jobs' = jobs (-) SetToBag({job})
       /\ worker' = [worker EXCEPT ![w] =
            IF job.name = "files" THEN [pc |-> "unlink", job |-> job]
            ELSE IF Exists(job.id)
                 THEN [pc |-> "run", job |-> job, id |-> job.id, row |-> rows[job.id]]
                 ELSE Idle]
  /\ UNCHANGED <<rows, disk, request, emptied, unwanted, history, faults>>

Moving(w) == worker[w].pc = "save" /\ Handles(w, "move")
Thumbnail(w) == IF Handles(w, "jpeg") THEN Jpeg(worker[w].id) ELSE Webp(worker[w].id)

\* The files a record names.
FilesOf(a, row) ==
  {row.original} \cup (IF row.jpeg THEN {Jpeg(a)} ELSE {})
                 \cup (IF row.webp THEN {Webp(a)} ELSE {})

\* The files that nobody but the handler knows of, and whose they are.
InHand(w) ==
  CASE worker[w].pc = "unlink"          -> worker[w].job.files
    [] worker[w].pc \in {"live", "files"} -> FilesOf(worker[w].id, worker[w].row)
    [] Moving(w)                        -> {worker[w].row.original}
    [] worker[w].pc = "save" /\ ~Moving(w) -> {Thumbnail(w)}
    [] OTHER                            -> {}
OwnersOf(files) == {disk[p] : p \in files} \ {None}
Abandon(set) == history' = [history EXCEPT !.abandoned = @ \cup set]

\* A handler throws at any await.  The error is logged and the job is gone, with
\* what only the handler knew of.  A move that fails between its two steps is the
\* subject of StorageTemplate; an error of unlink is caught file by file.
Throw(w) ==
  /\ worker[w] # Idle /\ ~Moving(w) /\ worker[w].pc # "unlink"
  /\ Count("failed", MaxFailures)
  /\ Finish(w)
  /\ Abandon(OwnersOf(InHand(w)))
  /\ UNCHANGED <<rows, disk, jobs, request, emptied, unwanted>>

\* save() of a record that was deleted meanwhile throws.
Save(w, a, row) ==
  /\ rows' = [rows EXCEPT ![a] = row]
  /\ Goto(w, "done")

\* handleMetadataExtraction: the file is read at the path loaded.
ExtractMetadata(w) ==
  /\ Handles(w, "metadata") /\ worker[w].pc = "run"
  /\ LET a == worker[w].id IN
       IF disk[worker[w].row.original] # None /\ Exists(a)
       THEN Save(w, a, [rows[a] EXCEPT !.exif = TRUE])
       ELSE Finish(w) /\ rows' = rows
  /\ UNCHANGED <<disk, jobs, request, emptied, unwanted, history, faults>>

\* handleLivePhotoLinking of an asset that has no counterpart.
LinkLivePhoto(w) ==
  /\ Handles(w, "link") /\ worker[w].pc = "run"
  /\ IF worker[w].row.exif THEN Goto(w, "done") ELSE Finish(w)
  /\ UNCHANGED <<rows, disk, jobs, request, emptied, unwanted, history, faults>>

\* The first path of the template without a file.
FreeSlot == {n \in 0..(Slots - 1) : disk[<<"library", n>>] = None}
TemplatePath_FaultyOccupied == <<"library", 0>>

TemplatePath == <<"library", CHOOSE n \in FreeSlot : \A m \in FreeSlot : n <= m>>

\* After one part of a live photo, handleMigrationSingle moves the other.
NextPart(w) ==
  LET motion == worker[w].row.live IN
    IF worker[w].id = worker[w].job.id /\ motion # None
    THEN IF Exists(motion)
         THEN worker' = [worker EXCEPT ![w].id = motion, ![w].row = rows[motion],
                                       ![w].pc = "run"]
         ELSE Finish(w)
    ELSE Goto(w, "done")

\* handleMigrationSingle: a file outside the library is renamed, under the lock.
\* An error is logged and the other part goes on.
RenameOriginal(w) ==
  /\ Handles(w, "move") /\ worker[w].pc = "run"
  /\ \A v \in Workers : ~Moving(v)
  /\ LET old == worker[w].row.original IN
       IF old \in Library \/ ~worker[w].row.exif \/ disk[old] = None
       THEN NextPart(w) /\ disk' = disk
       ELSE /\ FreeSlot # {}
            /\ disk' = [disk EXCEPT ![TemplatePath] = disk[old], ![old] = None]
            /\ worker' = [worker EXCEPT ![w].pc = "save", ![w].row.original = TemplatePath]
  /\ UNCHANGED <<rows, jobs, request, emptied, unwanted, history, faults>>

SaveOriginalPath(w) ==
  /\ Moving(w)
  /\ rows' = IF Exists(worker[w].id)
             THEN [rows EXCEPT ![worker[w].id].original = worker[w].row.original]
             ELSE rows
  /\ NextPart(w)
  /\ UNCHANGED <<disk, jobs, request, emptied, unwanted, history, faults>>

\* handleGenerateJpegThumbnail and handleGenerateWebpThumbnail: the thumbnail is
\* written from the original at the path loaded, then its path is saved.
WriteThumbnail(w) ==
  /\ Handles(w, "jpeg") \/ Handles(w, "webp")
  /\ worker[w].pc = "run"
  /\ IF disk[worker[w].row.original] = None
     THEN Finish(w) /\ disk' = disk
     ELSE Goto(w, "save") /\ disk' = [disk EXCEPT ![Thumbnail(w)] = worker[w].id]
  /\ UNCHANGED <<rows, jobs, request, emptied, unwanted, history, faults>>

SaveThumbnail(w) ==
  /\ Handles(w, "jpeg") \/ Handles(w, "webp")
  /\ worker[w].pc = "save"
  /\ LET a == worker[w].id IN
       IF Exists(a)
       THEN Save(w, a, IF Handles(w, "jpeg") THEN [rows[a] EXCEPT !.jpeg = TRUE]
                                             ELSE [rows[a] EXCEPT !.webp = TRUE])
       ELSE Finish(w) /\ rows' = rows
  /\ UNCHANGED <<disk, jobs, request, emptied, unwanted, history, faults>>

\* onDone: the job that follows.
FollowUp(job) ==
  CASE job.name = "metadata" -> {[job EXCEPT !.name = "link"]}
    [] job.name = "link"     -> {[job EXCEPT !.name = "move"]}
    [] job.name = "move"     -> IF job.upload THEN {[job EXCEPT !.name = "jpeg"]} ELSE {}
    [] job.name = "jpeg"     -> {[job EXCEPT !.name = "webp"]}
    [] OTHER                 -> {}

OnDone(w) ==
  /\ worker[w].pc = "done"
  /\ Queue(FollowUp(worker[w].job))
  /\ Finish(w)
  /\ UNCHANGED <<rows, disk, request, emptied, unwanted, history, faults>>

\* handleAssetDeletion: the record goes, and with it the references to it.  What
\* the loaded record names is deleted next: a second deletion may find the path
\* in the library given to somebody else (contested), and what another handler
\* has written or moved since is not among it (abandoned).
Overlaps(w) ==
  LET a == worker[w].id IN
    \/ FilesOf(a, worker[w].row) # FilesOf(a, rows[a])
    \/ \E v \in Workers :
         /\ Handles(v, "move") \/ Handles(v, "jpeg") \/ Handles(v, "webp")
         /\ worker[v].pc \in {"run", "save"} /\ worker[v].id = a

RemoveRow(w) ==
  /\ Handles(w, "deletion") /\ worker[w].pc = "run"
  /\ LET a == worker[w].id IN
       /\ rows' = [b \in Assets |->
                     IF b = a THEN None
                     ELSE IF Exists(b) /\ rows[b].live = a THEN [rows[b] EXCEPT !.live = None]
                     ELSE rows[b]]
       /\ history' = IF ~Exists(a)
                     THEN [history EXCEPT !.contested = @ \cup {worker[w].row.original}]
                     ELSE [history EXCEPT !.abandoned = @ \cup IF Overlaps(w) THEN {a} ELSE {}]
  /\ Goto(w, IF worker[w].row.live = None THEN "files" ELSE "live")
  /\ UNCHANGED <<disk, jobs, request, emptied, unwanted, faults>>

\* The video part of a live photo is deleted by a job of its own.
QueueLiveDeletion(w) ==
  /\ Handles(w, "deletion") /\ worker[w].pc = "live"
  /\ Queue({Deletion(worker[w].row.live)})
  /\ Goto(w, "files")
  /\ UNCHANGED <<rows, disk, request, emptied, unwanted, history, faults>>

\* The files named by the record that was loaded are deleted by another job.
QueueFileDeletion(w) ==
  /\ Handles(w, "deletion") /\ worker[w].pc = "files"
  /\ Queue({DeleteFiles(FilesOf(worker[w].id, worker[w].row))})
  /\ Finish(w)
  /\ UNCHANGED <<rows, disk, request, emptied, unwanted, history, faults>>

\* handleDeleteFiles: one file after the other, whatever is there by now.  One
\* that cannot be removed stays (abandoned), and the next has its turn.
NextFile(w, p) ==
  IF worker[w].job.files = {p} THEN Finish(w)
                               ELSE worker' = [worker EXCEPT ![w].job.files = @ \ {p}]

Unlink(w) ==
  /\ worker[w].pc = "unlink"
  /\ \E p \in worker[w].job.files :
       /\ disk' = [disk EXCEPT ![p] = None]
       /\ NextFile(w, p)
  /\ UNCHANGED <<rows, jobs, request, emptied, unwanted, history, faults>>

FailUnlink(w) ==
  /\ worker[w].pc = "unlink"
  /\ Count("failed", MaxFailures)
  /\ \E p \in worker[w].job.files :
       /\ Abandon(OwnersOf({p}))
       /\ NextFile(w, p)
  /\ UNCHANGED <<rows, disk, jobs, request, emptied, unwanted>>

-----------------------------------------------------------------------------
(* What the owner and the night ask for                                    *)

Owned(a) == a \in Stills /\ Exists(a) /\ rows[a].visible

\* deleteAll without force: into the trash.
Trash(a) ==
  /\ Owned(a) /\ ~rows[a].trashed
  /\ Count("trashed", MaxTrashed)
  /\ rows' = [rows EXCEPT ![a].trashed = TRUE]
  /\ unwanted' = unwanted \cup {a}
  /\ UNCHANGED <<disk, jobs, worker, request, emptied, history>>

\* A deletion of the asset is on its way: nothing calls it back.
Condemned(a) ==
  \/ a \in emptied
  \/ Deletion(a) \in BagToSet(jobs)
  \/ \E w \in Workers : Handles(w, "deletion") /\ worker[w].id = a

Restore(a) ==
  /\ Owned(a) /\ rows[a].trashed
  /\ Count("restored", MaxRestored)
  /\ rows' = [rows EXCEPT ![a].trashed = FALSE]
  /\ unwanted' = unwanted \ {a}
  /\ history' = [history EXCEPT !.overtaken = @ \cup IF Condemned(a) THEN {a} ELSE {}]
  /\ UNCHANGED <<disk, jobs, worker, request, emptied>>

\* deleteAll with force.
ForceDelete(a) ==
  /\ Owned(a)
  /\ Count("deleted", MaxDeleted)
  /\ Queue({Deletion(a)})
  /\ unwanted' = unwanted \cup {a}
  /\ UNCHANGED <<rows, disk, worker, request, emptied, history>>

\* The trash is emptied, or the night finds assets that are long enough in it:
\* they are read first, ...
FindTrashed_FaultyWhole ==
  /\ \E old \in SUBSET {a \in Assets : Exists(a) /\ rows[a].visible} \ {{}} :
       emptied' = emptied \cup old
  /\ Count("deleted", MaxDeleted)
  /\ UNCHANGED <<rows, disk, jobs, worker, request, unwanted, history>>

FindTrashed ==
  /\ \E old \in SUBSET {a \in Assets : Exists(a) /\ rows[a].trashed} \ {{}} :
       emptied' = emptied \cup old
  /\ Count("deleted", MaxDeleted)
  /\ UNCHANGED <<rows, disk, jobs, worker, request, unwanted, history>>

\* ... and queued for deletion after that.
EmptyTrash ==
  /\ emptied # {}
  /\ Queue({Deletion(a) : a \in emptied})
  /\ emptied' = {}
  /\ UNCHANGED <<rows, disk, worker, request, unwanted, history, faults>>

\* handleQueueGenerateThumbnails, run every night: the visible assets outside the
\* trash that lack a thumbnail.  A job that still waits is not queued again,
\* which bounds the bag.
Missing_FaultyJpegOnly ==
  {ChainJob("jpeg", a, FALSE) :
     a \in {b \in Assets : Exists(b) /\ rows[b].visible /\ ~rows[b].trashed /\ ~rows[b].jpeg}}

Missing ==
  LET found == {a \in Assets : Exists(a) /\ rows[a].visible /\ ~rows[a].trashed}
  IN  {ChainJob("jpeg", a, FALSE) : a \in {b \in found : ~rows[b].jpeg}} \cup
      {ChainJob("webp", a, FALSE) : a \in {b \in found : rows[b].jpeg /\ ~rows[b].webp}}

QueueMissing ==
  /\ Nights
  /\ Missing \ BagToSet(jobs) # {}
  /\ Queue(Missing \ BagToSet(jobs))
  /\ UNCHANGED <<rows, disk, worker, request, emptied, unwanted, history, faults>>

-----------------------------------------------------------------------------
UploadFile(u) ==
  \/ Receive(u)
  \/ CreateMotion(u)
  \/ QueueMotion(u)
  \/ CreateStill(u)
  \/ QueueStill(u)
  \/ CleanUp(u)
  \/ AnswerDuplicate(u)

Handle(w) ==
  \/ Take(w)
  \/ ExtractMetadata(w)
  \/ LinkLivePhoto(w)
  \/ RenameOriginal(w)
  \/ SaveOriginalPath(w)
  \/ WriteThumbnail(w)
  \/ SaveThumbnail(w)
  \/ OnDone(w)
  \/ RemoveRow(w)
  \/ QueueLiveDeletion(w)
  \/ QueueFileDeletion(w)
  \/ Unlink(w)

Next ==
  \/ \E u \in Stills : UploadFile(u) \/ FailUpload(u) \/ FailCleanUp(u)
  \/ \E w \in Workers : Handle(w) \/ Throw(w) \/ FailUnlink(w)
  \/ \E a \in Assets : Trash(a) \/ Restore(a) \/ ForceDelete(a)
  \/ FindTrashed
  \/ EmptyTrash
  \/ QueueMissing

Spec == Init /\ [][Next]_vars

\* Workers work and the night comes.  Nobody has to upload, to delete or to
\* restore anything, and an upload may stop between any two of its steps.
Fairness ==
  /\ \A w \in Workers : WF_vars(Handle(w))
  /\ WF_vars(QueueMissing)

FairSpec == Spec /\ Fairness

-----------------------------------------------------------------------------
(* Properties                                                              *)

\* Where the original of a recorded asset has been put: where its record says, or
\* where a move has just renamed it.
Movers(a) == {w \in Workers : Moving(w) /\ worker[w].id = a}
Places(a) == IF Movers(a) = {} THEN {rows[a].original}
             ELSE {worker[w].row.original : w \in Movers(a)}

\* As long as an asset has a record, its original is where the record or the move
\* under way says, but for the paths the code gives away itself: those of a
\* failed upload that has a record by then (asset.service.ts:92), and those of an
\* asset that is deleted a second time (asset.service.ts:491).
RecordsKeepTheirOriginal ==
  \A a \in Assets : Exists(a) => \A p \in Places(a) : disk[p] = a \/ p \in history.contested

AtRest ==
  /\ jobs = EmptyBag
  /\ \A w \in Workers : worker[w] = Idle
  /\ \A u \in Stills : request[u] \in {"new", "answered", "refused"}

\* Once nothing is under way, every file on disk is named by the record of its
\* asset: what was deleted or refused has left nothing behind, but where a call
\* failed that nobody repeats (a handler between two steps, an unlink, a clean-up)
\* or the record was removed while another handler wrote or moved a file of it.
DeletedLeaveNothing ==
  AtRest => \A p \in Path : disk[p] \notin history.abandoned \cup {None} =>
    Exists(disk[p]) /\ p \in FilesOf(disk[p], rows[disk[p]])

\* The record of a still goes only when its owner has last asked for that: it was
\* deleted, or trashed and not restored since, unless the deletion was already on
\* its way when it was restored.
OnlyUnwantedAreRemoved ==
  [][\A u \in Stills : Exists(u) /\ rows'[u] = None =>
       u \in unwanted \cup history.overtaken]_vars

\* Every asset is given its thumbnails, whichever job of its chain failed, unless
\* it goes or waits in the trash.
ThumbnailsInTheEnd ==
  \A u \in Stills :
    Exists(u) ~> ~Exists(u) \/ rows[u].trashed \/ (rows[u].jpeg /\ rows[u].webp)
=============================================================================
