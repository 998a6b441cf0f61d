------------------------------ MODULE Libraries -------------------------------
(***************************************************************************)
(* An external library: a directory of its owner that the server indexes   *)
(* in place. A scan lists the files and queues a refresh of each; files    *)
(* that are gone make their asset offline, and the owner may remove the    *)
(* offline ones. A library is deleted softly first; its row goes once its  *)
(* assets are gone.                                                        *)
(*                                                                         *)
(* The handlers of the queues "library" and "metadataExtraction" run side  *)
(* by side and stop at each await; those of "backgroundTask" make one      *)
(* change each, in any order. A file is its modification time, and one     *)
(* that was away comes back with that time or a later one. Left out: the   *)
(* second query of a handler that only reads what cannot change back (a    *)
(* library is never restored), thumbnails and the video conversion queued  *)
(* beside the metadata, stacks.                                            *)
(***************************************************************************)
EXTENDS Naturals, FiniteSets, Sequences, SequencesExt

CONSTANTS
  Files,     \* the paths that may hold a file
  Times,     \* modification times
  Workers,   \* numbers of the handlers of the queue "library" that run at once
  Readers,   \* numbers of the handlers of the queue "metadataExtraction"
  MaxChanges,\* bound: changes of files
  MaxEvents, \* bound: changes of settings, requests and failures
  None

ASSUME FilesAreFinite == IsFiniteSet(Files)
ASSUME NoneIsNoTime == None \notin Times
ASSUME TimesAreNumbers == Times \subseteq Nat
ASSUME WorkersAreNumbers == Workers \subseteq Nat /\ Readers \subseteq Nat

VARIABLES
  present,    \* the paths that hold a file
  mtime,      \* the time of the file at each path, the last one if it is away
  covered,    \* the paths below the import paths that no pattern excludes
  library,    \* "active", "deleted" (softly) or "gone"
  rows,       \* its assets in the table
  created,    \* how many assets were ever made; also the last id
  queue,      \* the waiting jobs of the queue "library"
  deletions,  \* the assets that wait for a handler of "backgroundTask" to delete them
  metadata,   \* those that wait for one of "metadataExtraction"
  worker,     \* what each handler of "library" does, and what it has loaded
  reader,     \* what each handler of "metadataExtraction" has read
  overtaken,  \* history: the assets put online while their deletion waited
  broken,     \* history: those whose metadata a handler failed to queue or to read, or
              \*   two handlers had read at once
  changes,    \* so far
  events

background == <<deletions, metadata, reader>>
queues == <<queue, background>>
history == <<overtaken, broken>>
vars == <<present, mtime, covered, library, rows, created, queues, worker, history,
          changes, events>>

Modes == {"new", "modified", "all"}   \* refreshModifiedFiles, refreshAllFiles
Row == [id: Nat, path: Files, mtime: Times, offline: BOOLEAN, read: Times \cup {None}]
LibraryJob == [name: {"all", "cleanup", "delete", "offline"}]
              \cup [name: {"scan"}, mode: Modes]
              \cup [name: {"refresh"}, path: Files, force: BOOLEAN]

\* What a handler has loaded: paths crawled, rows read, the time of its file.
Idle == [pc |-> "idle"]
Busy == [pc: {"run", "queueScans", "crawl", "list", "mark", "queueFiles", "queueDeletions",
              "stat", "setOffline", "setOnline", "check", "import", "update",
              "queueMetadata"},
         job: LibraryJob, found: SUBSET Files, rows: SUBSET Row, time: Times \cup {None}]

\* The asset whose file a handler has read, and the time of that file.
Reading == [pc: {"save"}, id: Nat, time: Times]

TypeOK ==
  /\ present \subseteq Files
  /\ mtime \in [Files -> Times]
  /\ covered \subseteq Files
  /\ library \in {"active", "deleted", "gone"}
  /\ rows \subseteq Row
  /\ created \in Nat
  /\ queue \in Seq(LibraryJob)
  /\ deletions \subseteq Nat
  /\ metadata \in Seq(Nat)
  /\ worker \in [Workers -> Busy \cup {Idle}]
  /\ reader \in [Readers -> Reading \cup {Idle}]
  /\ overtaken \subseteq Nat
  /\ broken \subseteq Nat
  /\ changes \in Nat
  /\ events \in Nat

Init ==
  /\ present \in SUBSET Files
  /\ mtime \in [Files -> Times]
  /\ covered = Files
  /\ library = "active"
  /\ rows = {}
  /\ created = 0
  /\ queue = <<>>
  /\ deletions = {}
  /\ metadata = <<>>
  /\ worker = [w \in Workers |-> Idle]
  /\ reader = [m \in Readers |-> Idle]
  /\ overtaken = {}
  /\ broken = {}
  /\ changes = 0
  /\ events = 0

Event == events < MaxEvents /\ events' = events + 1 /\ UNCHANGED changes
Change == changes < MaxChanges /\ changes' = changes + 1 /\ UNCHANGED events

-----------------------------------------------------------------------------
(* The world and the requests of the owner.                                *)

WriteFile(f, t) ==
  /\ Change
  /\ t > mtime[f] \/ (f \notin present /\ t = mtime[f])
  /\ mtime' = [mtime EXCEPT ![f] = t]
  /\ present' = present \cup {f}
  /\ UNCHANGED <<covered, library, rows, created, queues, worker, history>>

RemoveFile(f) ==
  /\ Change
  /\ f \in present
  /\ present' = present \ {f}
  /\ UNCHANGED <<mtime, covered, library, rows, created, queues, worker, history>>

\* update: other import paths or exclusion patterns.
UpdateLibrary(paths) ==
  /\ Event
  /\ library = "active"
  /\ covered' = paths
  /\ UNCHANGED <<present, mtime, library, rows, created, queues, worker, history>>

QueueScan(mode) ==
  /\ Event
  /\ library = "active"
  /\ queue' = Append(queue, [name |-> "scan", mode |-> mode])
  /\ UNCHANGED <<present, mtime, covered, library, rows, created, background, worker, history>>

QueueRemoveOffline ==
  /\ Event
  /\ library = "active"
  /\ queue' = Append(queue, [name |-> "offline"])
  /\ UNCHANGED <<present, mtime, covered, library, rows, created, background, worker, history>>

DeleteLibrary ==
  /\ Event
  /\ library = "active"
  /\ library' = "deleted"
  /\ queue' = Append(queue, [name |-> "delete"])
  /\ UNCHANGED <<present, mtime, covered, rows, created, background, worker, history>>

\* The cron job of every night; the one before has ended.
CronScan ==
  /\ queue = <<>> /\ deletions = {} /\ metadata = <<>>
  /\ \A w \in Workers : worker[w] = Idle
  /\ \A m \in Readers : reader[m] = Idle
  /\ queue' = Append(queue, [name |-> "all"])
  /\ UNCHANGED <<present, mtime, covered, library, rows, created, background, worker, history, changes, events>>

-----------------------------------------------------------------------------
(* The handlers. A job is taken in the order of its queue, by the first of *)
(* the idle handlers, as they are all alike.                               *)

Take(w) ==
  /\ worker[w] = Idle
  /\ \A v \in Workers : v < w => worker[v] # Idle
  /\ queue # <<>>
  /\ worker' = [worker EXCEPT ![w] = [pc |-> "run", job |-> Head(queue), found |-> {},
                                      rows |-> {}, time |-> None]]
  /\ queue' = Tail(queue)
  /\ UNCHANGED <<present, mtime, covered, library, rows, created, background, history, changes, events>>

\* Handler w runs a job of this name and has come to this point.
At(w, name, pc) ==
  /\ worker[w].pc = pc
  /\ worker[w].job.name = name
  /\ UNCHANGED <<present, mtime, covered, changes, events>>

Goto(w, pc) == worker' = [worker EXCEPT ![w].pc = pc]
Done(w) == worker' = [worker EXCEPT ![w] = Idle]
Enqueue(jobs) == queue' = queue \o SetToSeq(jobs)

\* What the queries with a join on the library return: nothing once it is
\* softly deleted.
Visible(S) == IF library = "active" THEN S ELSE {}
Ids(S) == {r.id : r \in S}
WithOffline(ids, flag) == {IF r.id \in ids THEN [r EXCEPT !.offline = flag] ELSE r : r \in rows}

CleanupJobs_FaultyNone == {}
CleanupJobs == {[name |-> "cleanup"]}

ScanJobs_FaultyNewOnly ==
  IF library = "gone" THEN {} ELSE {[name |-> "scan", mode |-> "new"]}
ScanJobs == IF library = "gone" THEN {} ELSE {[name |-> "scan", mode |-> "modified"]}

HandleQueueAllScan(w) ==
  \/ /\ At(w, "all", "run")
     /\ Enqueue(CleanupJobs)
     /\ Goto(w, "queueScans")
     /\ UNCHANGED <<library, rows, created, background, history>>
  \/ /\ At(w, "all", "queueScans")
     /\ Enqueue(ScanJobs)
     /\ Done(w)
     /\ UNCHANGED <<library, rows, created, background, history>>

HandleQueueCleanup(w) ==
  /\ At(w, "cleanup", "run")
  /\ Enqueue(IF library = "deleted" THEN {[name |-> "delete"]} ELSE {})
  /\ Done(w)
  /\ UNCHANGED <<library, rows, created, background, history>>

\* The assets are read, and then either their deletion is queued or, when
\* there were none, the library goes with the assets it has by now.
HandleDeleteLibrary(w) ==
  \/ /\ At(w, "delete", "run")
     /\ IF library = "gone"
        THEN Done(w)
        ELSE worker' = [worker EXCEPT ![w].rows = rows, ![w].pc = "queueDeletions"]
     /\ UNCHANGED <<library, rows, created, queues, history>>
  \/ /\ At(w, "delete", "queueDeletions")
     /\ deletions' = deletions \cup Ids(worker[w].rows)
     /\ IF worker[w].rows = {}
        THEN library' = "gone" /\ rows' = {}
        ELSE UNCHANGED <<library, rows>>
     /\ Done(w)
     /\ UNCHANGED <<created, queue, metadata, reader, history>>

Offline_FaultyAll == rows
Offline == {r \in rows : r.offline}

HandleOfflineRemoval(w) ==
  /\ At(w, "offline", "run")
  /\ deletions' = deletions \cup Ids(Offline)
  /\ Done(w)
  /\ UNCHANGED <<library, rows, created, queue, metadata, reader, history>>

\* Paths to refresh: all of them, or those without an online asset.
Stale(w) ==
  IF worker[w].job.mode # "new" THEN worker[w].found
  ELSE worker[w].found \ {r.path : r \in {r \in worker[w].rows : ~r.offline}}

Absent(w) == Ids({r \in worker[w].rows : r.path \notin worker[w].found /\ ~r.offline})

HandleQueueAssetRefresh(w) ==
  \/ /\ At(w, "scan", "run")
     /\ IF library = "active"
        THEN worker' = [worker EXCEPT ![w].found = covered, ![w].pc = "crawl"]
        ELSE Done(w)
     /\ UNCHANGED <<library, rows, created, queues, history>>
  \/ /\ At(w, "scan", "crawl")
     /\ worker' = [worker EXCEPT ![w].found = @ \cap present, ![w].pc = "list"]
     /\ UNCHANGED <<library, rows, created, queues, history>>
  \/ /\ At(w, "scan", "list")
     /\ worker' = [worker EXCEPT ![w].rows = Visible(rows), ![w].pc = "mark"]
     /\ UNCHANGED <<library, rows, created, queues, history>>
  \/ /\ At(w, "scan", "mark")
     /\ rows' = WithOffline(Absent(w), TRUE)
     /\ Goto(w, "queueFiles")
     /\ UNCHANGED <<library, created, queues, history>>
  \/ /\ At(w, "scan", "queueFiles")
     /\ Enqueue({[name |-> "refresh", path |-> f, force |-> worker[w].job.mode = "all"] :
                   f \in Stale(w)})
     /\ Done(w)
     /\ UNCHANGED <<library, rows, created, background, history>>

-----------------------------------------------------------------------------
(* handleAssetRefresh: one path, its row as loaded and its file as found.  *)

Load(w) ==
  /\ At(w, "refresh", "run")
  /\ worker' = [worker EXCEPT ![w].rows = {r \in Visible(rows) : r.path = worker[w].job.path},
                              ![w].pc = "stat"]
  /\ UNCHANGED <<library, rows, created, queues, history>>

\* What to do with a path, by its row and its file.
NextStep(w) ==
  LET path == worker[w].job.path
      loaded == worker[w].rows
  IN CASE path \notin present /\ loaded = {} -> "idle"
       [] path \notin present /\ loaded # {} -> "setOffline"
       [] path \in present /\ loaded = {} -> "check"
       [] path \in present /\ \E r \in loaded : r.offline -> "setOnline"
       [] path \in present /\ \E r \in loaded :
            ~r.offline /\ (worker[w].job.force \/ r.mtime # mtime[path]) -> "update"
       [] OTHER -> "idle"

Stat_FaultyTimeLost(w) ==
  /\ At(w, "refresh", "stat")
  /\ IF NextStep(w) = "idle" THEN Done(w) ELSE Goto(w, NextStep(w))
  /\ UNCHANGED <<library, rows, created, queues, history>>

Stat(w) ==
  /\ At(w, "refresh", "stat")
  /\ IF NextStep(w) = "idle"
     THEN Done(w)
     ELSE worker' = [worker EXCEPT ![w].time = mtime[worker[w].job.path], ![w].pc = NextStep(w)]
  /\ UNCHANGED <<library, rows, created, queues, history>>

SetOffline(w) ==
  /\ At(w, "refresh", "setOffline")
  /\ rows' = WithOffline(Ids(worker[w].rows), TRUE)
  /\ Done(w)
  /\ UNCHANGED <<library, created, queues, history>>

\* A row that is gone cannot be saved: the handler throws.  A deletion that waits
\* is not called back (overtaken).
SetOnline(w) ==
  /\ At(w, "refresh", "setOnline")
  /\ rows' = WithOffline(Ids(worker[w].rows), FALSE)
  /\ IF Ids(worker[w].rows) \subseteq Ids(rows) THEN Goto(w, "update") ELSE Done(w)
  /\ overtaken' = overtaken \cup (Ids(worker[w].rows) \cap deletions)
  /\ UNCHANGED <<library, created, queues, broken>>

CheckLibrary(w) ==
  /\ At(w, "refresh", "check")
  /\ IF library = "active" THEN Goto(w, "import") ELSE Done(w)
  /\ UNCHANGED <<library, rows, created, queues, history>>

\* The unique index on owner, library and path, and the reference to the library.
Accepts_FaultyNoIndex(path) == library # "gone"
Accepts_FaultyNoReference(path) == \A r \in rows : r.path # path
Accepts(path) == library # "gone" /\ \A r \in rows : r.path # path

Import(w) ==
  /\ At(w, "refresh", "import")
  /\ LET path == worker[w].job.path
         new == [id |-> created + 1, path |-> path, mtime |-> worker[w].time,
                 offline |-> FALSE, read |-> None]
     IN IF Accepts(path)
        THEN /\ rows' = rows \cup {new}
             /\ created' = created + 1
             /\ worker' = [worker EXCEPT ![w].rows = {new}, ![w].pc = "queueMetadata"]
        ELSE Done(w) /\ UNCHANGED <<rows, created>>
  /\ UNCHANGED <<library, queues, history>>

UpdateTimes_FaultyUnqueued(w) ==
  /\ At(w, "refresh", "update")
  /\ rows' = {IF r.id \in Ids(worker[w].rows) THEN [r EXCEPT !.mtime = worker[w].time] ELSE r :
                r \in rows}
  /\ Done(w)
  /\ UNCHANGED <<library, created, queues, history>>

UpdateTimes(w) ==
  /\ At(w, "refresh", "update")
  /\ rows' = {IF r.id \in Ids(worker[w].rows) THEN [r EXCEPT !.mtime = worker[w].time] ELSE r :
                r \in rows}
  /\ Goto(w, "queueMetadata")
  /\ UNCHANGED <<library, created, queues, history>>

QueueMetadata(w) ==
  /\ At(w, "refresh", "queueMetadata")
  /\ metadata' = metadata \o SetToSeq(Ids(worker[w].rows))
  /\ Done(w)
  /\ UNCHANGED <<library, rows, created, queue, deletions, reader, history>>

HandleAssetRefresh(w) ==
  \/ Load(w) \/ Stat(w) \/ SetOffline(w) \/ SetOnline(w)
  \/ CheckLibrary(w) \/ Import(w) \/ UpdateTimes(w) \/ QueueMetadata(w)

\* Any call of a handler throws.
Fail(w) ==
  /\ Event
  /\ worker[w] # Idle
  /\ Done(w)
  /\ broken' = IF worker[w].pc = "queueMetadata" THEN broken \cup Ids(worker[w].rows) ELSE broken
  /\ UNCHANGED <<present, mtime, covered, library, rows, created, queues, overtaken>>

-----------------------------------------------------------------------------
(* The other queues. A deletion leaves the bytes of an external asset where *)
(* they are; of two deletions of an asset the second finds none.           *)

HandleAssetDeletion(i) ==
  /\ i \in deletions
  /\ deletions' = deletions \ {i}
  /\ rows' = {r \in rows : r.id # i}
  /\ UNCHANGED <<present, mtime, covered, library, created, queue, metadata, worker, reader,
                 history, changes, events>>

FailAssetDeletion(i) ==
  /\ Event
  /\ i \in deletions
  /\ deletions' = deletions \ {i}
  /\ UNCHANGED <<present, mtime, covered, library, rows, created, queue, metadata, worker,
                 reader, history>>

\* handleMetadataExtraction, in two steps: the file of the asset is read as it is
\* now, and what was read is saved after further awaits.  The first of the idle
\* handlers takes a job.  Without a file it throws.
ReadMetadata(m) ==
  /\ reader[m] = Idle
  /\ \A n \in Readers : n < m => reader[n] # Idle
  /\ metadata # <<>>
  /\ metadata' = Tail(metadata)
  /\ LET id == Head(metadata)
         times == {mtime[r.path] : r \in {r \in rows : r.id = id /\ r.path \in present}}
         others == \E n \in Readers : reader[n] # Idle /\ reader[n].id = id
     IN /\ IF times = {}
           THEN reader' = reader
           ELSE \E t \in times : reader' = [reader EXCEPT ![m] = [pc |-> "save", id |-> id, time |-> t]]
        /\ broken' = IF times = {} \/ others THEN broken \cup {id} ELSE broken
  /\ UNCHANGED <<present, mtime, covered, library, rows, created, queue, deletions, worker,
                 overtaken, changes, events>>

SaveMetadata(m) ==
  /\ reader[m] # Idle
  /\ rows' = {IF r.id = reader[m].id THEN [r EXCEPT !.read = reader[m].time] ELSE r : r \in rows}
  /\ reader' = [reader EXCEPT ![m] = Idle]
  /\ UNCHANGED <<present, mtime, covered, library, created, queue, deletions, metadata,
                 worker, history, changes, events>>

FailMetadata(m) ==
  /\ Event
  /\ reader[m] # Idle
  /\ reader' = [reader EXCEPT ![m] = Idle]
  /\ broken' = broken \cup {reader[m].id}
  /\ UNCHANGED <<present, mtime, covered, library, rows, created, queue, deletions, metadata,
                 worker, overtaken>>

-----------------------------------------------------------------------------
Handle(w) ==
  \/ Take(w)
  \/ HandleQueueAllScan(w) \/ HandleQueueCleanup(w) \/ HandleDeleteLibrary(w)
  \/ HandleOfflineRemoval(w) \/ HandleQueueAssetRefresh(w) \/ HandleAssetRefresh(w)

Deletion == \E i \in deletions : HandleAssetDeletion(i)
HandleMetadata(m) == ReadMetadata(m) \/ SaveMetadata(m)

Request ==
  \/ \E mode \in Modes : QueueScan(mode)
  \/ QueueRemoveOffline
  \/ DeleteLibrary
  \/ \E paths \in SUBSET Files : UpdateLibrary(paths)

Next ==
  \/ \E f \in Files, t \in Times : WriteFile(f, t)
  \/ \E f \in Files : RemoveFile(f)
  \/ Request
  \/ CronScan
  \/ \E w \in Workers : Handle(w) \/ Fail(w)
  \/ Deletion
  \/ \E i \in deletions : FailAssetDeletion(i)
  \/ \E m \in Readers : HandleMetadata(m) \/ FailMetadata(m)

\* The queues are served and the cron job is on; nothing is assumed of the owner.
Fairness ==
  /\ WF_vars(CronScan)
  /\ \A w \in Workers : WF_vars(Handle(w))
  /\ WF_vars(Deletion)
  /\ \A m \in Readers : WF_vars(HandleMetadata(m))

Spec == Init /\ [][Next]_vars /\ Fairness

-----------------------------------------------------------------------------
(* Properties.                                                             *)

\* Two refreshes of one new file, of two scans, never leave two assets of it
\* (both find no row and import; library.service.ts, handleAssetRefresh).
OneRecordPerFile == \A r, s \in rows : r.path = s.path => r = s

\* While the library is there, only assets that are offline are removed from it,
\* with their albums, faces and favourites, or one that a scan put online again
\* while its removal waited (handleOfflineRemoval, handleAssetRefresh).
RemovedForAReason ==
  [][\A r \in rows : r.id \in Ids(rows') \/ library # "active" \/ r.offline \/ r.id \in overtaken]_vars

\* What the documentation says: an asset that was offline is restored when its
\* file is back and the library is scanned again (libraries.md).
RestoredStay ==
  [][\A r \in rows : library = "active" /\ ~r.offline => r.id \in Ids(rows')]_vars

\* Nothing that is imported after a deleted library was found empty is left
\* behind, and no job brings one back (handleDeleteLibrary).
DeletedForGood ==
  [][library = "gone" => library' = "gone" /\ rows' = {}]_vars

\* When files and settings come to rest, the scans of the nights bring the
\* library to them: every file has an online asset of its time, and no other
\* asset is online (handleQueueAllScan, handleQueueAssetRefresh).
Mirrors ==
  /\ \A f \in covered \cap present :
        \E r \in rows : r.path = f /\ r.mtime = mtime[f] /\ ~r.offline
  /\ \A r \in rows : r.path \notin covered \cap present => r.offline
RecordsFollowFiles == <>[](library = "active" => Mirrors)

\* The metadata shown is in the end that of the file, but for the assets of which
\* a handler failed to queue or to read the metadata, or two handlers had read
\* them at once: the time already saved keeps later scans from trying again
\* (handleAssetRefresh), and the older reading may be saved last
\* (handleMetadataExtraction).
MetadataFollowsFiles ==
  <>[](library = "active" =>
         \A r \in rows : ~r.offline /\ r.id \notin broken => r.read = mtime[r.path])

\* A deleted library disappears with all its assets, whatever fails on the
\* way: a later night looks for it again (handleQueueCleanup).
DeletedLibraryDisappears == library = "deleted" ~> library = "gone"

=============================================================================
