--------------------------- MODULE LibrariesProofs ---------------------------
(***************************************************************************)
(* An external library, for any number of files, times, handlers, changes  *)
(* and events: a file has one asset at most, what is removed was offline   *)
(* or has come back too late, and a library that is gone stays empty.      *)
(***************************************************************************)
EXTENDS Libraries, QueueLemmas

-----------------------------------------------------------------------------
(* The inductive invariant                                                 *)

\* The steps of a refresh that use the time of the file.
Timed == {"setOnline", "check", "import", "update"}

\* A handler has read finitely many rows, has the time of its file when it
\* uses it, and deletes no library its owner has not deleted.
GoodWorker(s) ==
  \/ s = Idle
  \/ /\ s \in Busy
     /\ IsFiniteSet(s.rows)
     /\ s.pc \in Timed => s.time \in Times
     /\ s.job.name = "delete" => library # "active"
WorkersFine == worker \in [Workers -> Busy \cup {Idle}] /\ \A w \in Workers : GoodWorker(worker[w])

\* So it is with the jobs that wait.
GoodJob == {j \in LibraryJob : j.name = "delete" => library # "active"}

QueuesFine == queue \in Seq(GoodJob)

\* Files and ids belong to one row at most, and ids are given in turn.
RowsFine ==
  /\ rows \subseteq Row
  /\ IsFiniteSet(rows)
  /\ OneRecordPerFile
  /\ \A r \in rows : r.id <= created
  /\ \A r, s \in rows : r.id = s.id => r = s
  /\ library = "gone" => rows = {}

\* What a deletion of an active library waits for is offline, or came back.
DeletionsFine ==
  library = "active" =>
    \A i \in deletions : i <= created /\ (i \in overtaken \/ \A r \in rows : r.id = i => r.offline)

IInv == TypeOK /\ WorkersFine /\ QueuesFine /\ RowsFine /\ DeletionsFine

-----------------------------------------------------------------------------
LEMMA InitEstablishesInvariant == Init => IInv
<1> SUFFICES ASSUME Init PROVE IInv
  OBVIOUS
<1>1. TypeOK
  BY DEF Init, TypeOK
<1>2. WorkersFine
  BY DEF Init, WorkersFine, GoodWorker
<1>3. QueuesFine
  BY DEF Init, QueuesFine
<1>4. RowsFine
  BY FS_EmptySet DEF Init, RowsFine, OneRecordPerFile
<1>5. DeletionsFine
  BY DEF Init, DeletionsFine
<1> QED
  BY <1>1, <1>2, <1>3, <1>4, <1>5 DEF IInv

-----------------------------------------------------------------------------
(* Each part is kept under a condition that most steps meet at once.       *)

\* A library never becomes active again.
LibraryAdvances == library # "active" => library' # "active"

\* One handler moves on.
LEMMA WorkersStayFine ==
  ASSUME IInv, LibraryAdvances, NEW w \in Workers, NEW new,
         worker' = [worker EXCEPT ![w] = new],
         \/ new = Idle
         \/ /\ new \in Busy /\ IsFiniteSet(new.rows)
            /\ new.pc \in Timed => new.time \in Times
            /\ new.job.name = "delete" => library # "active"
  PROVE  WorkersFine'
<1>1. worker' \in [Workers -> Busy \cup {Idle}]
  BY DEF IInv, WorkersFine
<1>2. \A v \in Workers : worker'[v] = IF v = w THEN new ELSE worker[v]
  BY DEF IInv, WorkersFine
<1>3. \A v \in Workers : GoodWorker(worker[v])'
  BY <1>2 DEF IInv, WorkersFine, GoodWorker, LibraryAdvances
<1> QED
  BY <1>1, <1>3 DEF WorkersFine

LEMMA WorkersUntouched ==
  ASSUME IInv, LibraryAdvances, worker' = worker
  PROVE  WorkersFine'
BY DEF IInv, WorkersFine, GoodWorker, LibraryAdvances

\* The handler that goes on with the same job, in its own words.
LEMMA HandlerGoesOn ==
  ASSUME IInv, LibraryAdvances, NEW w \in Workers, worker[w] # Idle,
         worker' = [worker EXCEPT ![w] = worker'[w]],
         worker'[w] \in Busy, worker'[w].job = worker[w].job, IsFiniteSet(worker'[w].rows),
         worker'[w].pc \in Timed => worker'[w].time \in Times
  PROVE  WorkersFine'
<1>1. worker[w].job.name = "delete" => library # "active"
  BY DEF IInv, WorkersFine, GoodWorker
<1> QED
  BY <1>1, WorkersStayFine

\* Jobs stay good as libraries are deleted.
LEMMA QueuesStayFine ==
  ASSUME IInv, LibraryAdvances
  PROVE  queue \in Seq(GoodJob') /\ GoodJob' \subseteq LibraryJob
<1>1. GoodJob \subseteq GoodJob'
  BY DEF GoodJob, LibraryAdvances, LibraryJob
<1>2. queue \in Seq(GoodJob')
  BY <1>1, SeqMonotonic DEF IInv, QueuesFine
<1> QED
  BY <1>2 DEF GoodJob, LibraryJob

LEMMA QueuesUntouched ==
  ASSUME IInv, LibraryAdvances, queue' = queue
  PROVE  QueuesFine'
BY QueuesStayFine DEF QueuesFine

LEMMA RowsUntouched ==
  ASSUME IInv, library' = "gone" => library = "gone", UNCHANGED <<rows, created>>
  PROVE  RowsFine'
BY DEF IInv, RowsFine, OneRecordPerFile

LEMMA DeletionsUntouched ==
  ASSUME IInv, LibraryAdvances, UNCHANGED <<rows, created, deletions, overtaken>>
  PROVE  DeletionsFine'
BY DEF IInv, DeletionsFine, LibraryAdvances

\* The queues of the other handlers, and what the properties except.
BackgroundTypes ==
  /\ deletions \subseteq Nat
  /\ metadata \in Seq(Nat)
  /\ reader \in [Readers -> Reading \cup {Idle}]
  /\ overtaken \subseteq Nat
  /\ broken \subseteq Nat

LEMMA BackgroundUntouched ==
  ASSUME IInv, background' = background, history' = history
  PROVE  BackgroundTypes'
BY DEF IInv, TypeOK, BackgroundTypes, background, history

\* The parts of the next state make its type.
LEMMA TypesFollow ==
  ASSUME WorkersFine', QueuesFine', RowsFine', DeletionsFine', BackgroundTypes',
         present' \subseteq Files, mtime' \in [Files -> Times], covered' \subseteq Files,
         library' \in {"active", "deleted", "gone"}, created' \in Nat,
         changes' \in Nat, events' \in Nat
  PROVE  IInv'
<1>1. queue' \in Seq(LibraryJob)
  BY SeqMonotonic DEF QueuesFine, GoodJob
<1> QED
  BY <1>1 DEF IInv, TypeOK, WorkersFine, RowsFine, BackgroundTypes

-----------------------------------------------------------------------------
(* The world and the owner.                                                *)

LEMMA WorldKeepsInvariant ==
  ASSUME IInv, NEW f \in Files, (\E t \in Times : WriteFile(f, t)) \/ RemoveFile(f)
  PROVE  IInv'
<1>1. /\ UNCHANGED <<covered, library, rows, created, queue, background, worker, history>>
      /\ UNCHANGED <<deletions, overtaken>>
  BY DEF WriteFile, RemoveFile, queues, background, history
<1>2. LibraryAdvances
  BY <1>1 DEF LibraryAdvances
<1>3. WorkersFine' /\ QueuesFine' /\ RowsFine' /\ DeletionsFine' /\ BackgroundTypes'
  BY <1>1, <1>2, WorkersUntouched, QueuesUntouched, RowsUntouched, DeletionsUntouched,
     BackgroundUntouched
<1>4. present' \subseteq Files /\ mtime' \in [Files -> Times] /\ changes' \in Nat /\ events' \in Nat
  BY DEF WriteFile, RemoveFile, Change, IInv, TypeOK
<1> QED
  BY <1>1, <1>3, <1>4, TypesFollow DEF IInv, TypeOK

LEMMA OwnerKeepsInvariant ==
  ASSUME IInv, Request \/ CronScan
  PROVE  IInv'
<1>1. /\ UNCHANGED <<present, mtime, rows, created, background, worker, history>>
      /\ UNCHANGED <<deletions, overtaken>>
  BY DEF Request, UpdateLibrary, QueueScan, QueueRemoveOffline, DeleteLibrary, CronScan,
         queues, background, history
<1>2. /\ LibraryAdvances
      /\ library' # "gone" \/ library' = library
      /\ library' \in {"active", "deleted", "gone"}
  BY DEF Request, UpdateLibrary, QueueScan, QueueRemoveOffline, DeleteLibrary, CronScan,
         LibraryAdvances, IInv, TypeOK
<1>3. WorkersFine' /\ RowsFine' /\ DeletionsFine' /\ BackgroundTypes'
  BY <1>1, <1>2, WorkersUntouched, RowsUntouched, DeletionsUntouched, BackgroundUntouched
<1>4. QueuesFine'
  <2>1. \/ queue' = queue
        \/ \E j \in GoodJob' : queue' = Append(queue, j)
    <3>1. CASE \E mode \in Modes : QueueScan(mode)
      BY <3>1 DEF QueueScan, GoodJob, LibraryJob
    <3>2. CASE QueueRemoveOffline \/ CronScan
      BY <3>2 DEF QueueRemoveOffline, CronScan, GoodJob, LibraryJob
    <3>3. CASE DeleteLibrary
      BY <3>3 DEF DeleteLibrary, GoodJob, LibraryJob
    <3>4. CASE \E paths \in SUBSET Files : UpdateLibrary(paths)
      BY <3>4 DEF UpdateLibrary, queues
    <3> QED
      BY <3>1, <3>2, <3>3, <3>4 DEF Request
  <2> QED
    BY <1>1, <1>2, <2>1, QueuesStayFine, QueueTypes DEF QueuesFine
<1>5. covered' \subseteq Files /\ changes' \in Nat /\ events' \in Nat
  <2>1. CASE Event
    <3>1. changes' \in Nat /\ events' \in Nat
      BY <2>1 DEF Event, IInv, TypeOK
    <3>2. covered' \subseteq Files
      BY DEF Request, UpdateLibrary, QueueScan, QueueRemoveOffline, DeleteLibrary, CronScan,
             IInv, TypeOK
    <3> QED
      BY <3>1, <3>2
  <2>2. CASE CronScan
    BY <2>2 DEF CronScan, IInv, TypeOK
  <2> QED
    BY <2>1, <2>2 DEF Request, UpdateLibrary, QueueScan, QueueRemoveOffline, DeleteLibrary
<1> QED
  BY <1>1, <1>2, <1>3, <1>4, <1>5, TypesFollow DEF IInv, TypeOK

-----------------------------------------------------------------------------
(* The handlers that only move on.                                         *)

\* What most steps leave alone.
Quiet == UNCHANGED <<library, rows, created, queues, history>>

\* A step of a handler that touches nothing but its own record.
LEMMA QuietStep ==
  ASSUME IInv, Quiet, UNCHANGED <<present, mtime, covered, changes, events>>, WorkersFine'
  PROVE  IInv'
<1>1. LibraryAdvances
  BY DEF Quiet, LibraryAdvances
<1>2. UNCHANGED <<library, rows, created, queue, deletions, background, overtaken, history>>
  BY DEF Quiet, queues, background, history
<1>3. QueuesFine' /\ RowsFine' /\ DeletionsFine' /\ BackgroundTypes'
  BY <1>1, <1>2, QueuesUntouched, RowsUntouched, DeletionsUntouched, BackgroundUntouched
<1> QED
  BY <1>2, <1>3, TypesFollow DEF IInv, TypeOK

\* The record of a busy handler.
LEMMA BusyHandler ==
  ASSUME IInv, NEW w \in Workers, worker[w].pc # "idle"
  PROVE  /\ worker[w] \in Busy /\ worker[w] # Idle /\ IsFiniteSet(worker[w].rows)
         /\ worker[w].pc \in Timed => worker[w].time \in Times
         /\ worker \in [Workers -> Busy \cup {Idle}]
BY DEF IInv, WorkersFine, GoodWorker, Idle

\* A handler that is done.
LEMMA DoneIsFine ==
  ASSUME IInv, LibraryAdvances, NEW w \in Workers, Done(w)
  PROVE  WorkersFine'
BY WorkersStayFine DEF Done

\* A handler that goes to another step of its job.
LEMMA GotoIsFine ==
  ASSUME IInv, LibraryAdvances, NEW w \in Workers, worker[w].pc # "idle",
         NEW pc \in {"queueScans", "mark", "queueFiles", "setOffline", "import", "update",
                     "queueMetadata"},
         Goto(w, pc), pc \in Timed => worker[w].pc \in Timed
  PROVE  WorkersFine'
<1> USE BusyHandler
<1>1. worker'[w] = [worker[w] EXCEPT !.pc = pc] /\ worker' = [worker EXCEPT ![w] = worker'[w]]
  BY DEF Goto
<1>2. /\ worker'[w].pc = pc /\ worker'[w].job = worker[w].job /\ worker'[w] \in Busy
      /\ worker'[w].rows = worker[w].rows /\ worker'[w].time = worker[w].time
  BY <1>1 DEF Busy
<1> QED
  BY <1>1, <1>2, HandlerGoesOn

LEMMA TakeKeepsInvariant ==
  ASSUME IInv, NEW w \in Workers, Take(w)
  PROVE  IInv'
<1> DEFINE new == [pc |-> "run", job |-> Head(queue), found |-> {}, rows |-> {}, time |-> None]
<1>1. LibraryAdvances
  BY DEF Take, LibraryAdvances
<1>2. Head(queue) \in GoodJob /\ Tail(queue) \in Seq(GoodJob)
  BY QueueTypes DEF IInv, QueuesFine, Take
<1>3. new \in Busy /\ IsFiniteSet(new.rows) /\ new.pc \notin Timed
      /\ (new.job.name = "delete" => library # "active")
  BY <1>2, FS_EmptySet DEF Busy, GoodJob, Timed
<1>4. WorkersFine'
  <2>1. worker' = [worker EXCEPT ![w] = new]
    BY DEF Take
  <2> HIDE DEF new
  <2> QED
    BY <1>1, <1>3, <2>1, WorkersStayFine
<1>5. QueuesFine'
  <2>1. GoodJob' = GoodJob
    BY DEF Take, GoodJob
  <2> QED
    BY <1>2, <2>1 DEF QueuesFine, Take, IInv
<1>6. UNCHANGED <<deletions, overtaken, background, history>>
  BY DEF Take, background, history
<1>7. RowsFine' /\ DeletionsFine' /\ BackgroundTypes'
  BY <1>1, <1>6, RowsUntouched, DeletionsUntouched, BackgroundUntouched DEF Take
<1> QED
  BY <1>4, <1>5, <1>7, TypesFollow DEF Take, IInv, TypeOK

\* A handler reads the world: what to scan, what to delete, one path and its row.
LEMMA ReadingKeepsInvariant ==
  ASSUME IInv, NEW w \in Workers,
         \/ At(w, "delete", "run") /\ HandleDeleteLibrary(w)
         \/ \E pc \in {"run", "crawl", "list"} : At(w, "scan", pc) /\ HandleQueueAssetRefresh(w)
         \/ Load(w) \/ Stat(w) \/ CheckLibrary(w)
  PROVE  IInv'
<1>1. Quiet /\ UNCHANGED <<present, mtime, covered, changes, events>> /\ worker[w].pc # "idle"
  BY DEF At, HandleDeleteLibrary, HandleQueueAssetRefresh, Load, Stat, CheckLibrary, Quiet
<1>2. LibraryAdvances
  BY <1>1 DEF Quiet, LibraryAdvances
<1> USE BusyHandler
<1>3. CASE At(w, "delete", "run") /\ HandleDeleteLibrary(w)
  <2>1. CASE Done(w)
    BY <1>1, <1>2, <2>1, DoneIsFine, QuietStep
  <2>2. CASE worker' = [worker EXCEPT ![w].rows = rows, ![w].pc = "queueDeletions"]
    <3>1. /\ worker'[w] = [[worker[w] EXCEPT !.rows = rows] EXCEPT !.pc = "queueDeletions"]
          /\ worker' = [worker EXCEPT ![w] = worker'[w]]
      BY <1>1, <2>2
    <3>2. rows \in SUBSET Row /\ IsFiniteSet(rows)
      BY DEF IInv, RowsFine
    <3>3. /\ worker'[w].pc = "queueDeletions" /\ worker'[w].job = worker[w].job
          /\ worker'[w].rows = rows /\ worker'[w] \in Busy
      BY <1>1, <3>1, <3>2 DEF Busy
    <3> QED
      BY <1>1, <1>2, <3>1, <3>2, <3>3, HandlerGoesOn, QuietStep DEF Timed
  <2> QED
    BY <1>3, <2>1, <2>2 DEF At, HandleDeleteLibrary
<1>4. CASE \E pc \in {"run", "crawl", "list"} : At(w, "scan", pc) /\ HandleQueueAssetRefresh(w)
  <2>1. CASE Done(w)
    BY <1>1, <1>2, <2>1, DoneIsFine, QuietStep
  <2>2. ASSUME NEW found \in SUBSET Files,
               worker' = [worker EXCEPT ![w].found = found, ![w].pc = "crawl"]
               \/ worker' = [worker EXCEPT ![w].found = found, ![w].pc = "list"]
        PROVE  IInv'
    <3>1. PICK pc \in {"crawl", "list"} :
            /\ worker'[w] = [[worker[w] EXCEPT !.found = found] EXCEPT !.pc = pc]
            /\ worker' = [worker EXCEPT ![w] = worker'[w]]
      BY <1>1, <2>2
    <3>2. /\ worker'[w].pc = pc /\ worker'[w].job = worker[w].job
          /\ worker'[w].rows = worker[w].rows /\ worker'[w] \in Busy
      BY <1>1, <3>1 DEF Busy
    <3> QED
      BY <1>1, <1>2, <3>1, <3>2, HandlerGoesOn, QuietStep DEF Timed
  <2>3. CASE worker' = [worker EXCEPT ![w].rows = Visible(rows), ![w].pc = "mark"]
    <3>1. /\ worker'[w] = [[worker[w] EXCEPT !.rows = Visible(rows)] EXCEPT !.pc = "mark"]
          /\ worker' = [worker EXCEPT ![w] = worker'[w]]
      BY <1>1, <2>3
    <3>2. Visible(rows) \in SUBSET Row /\ IsFiniteSet(Visible(rows))
      BY FS_EmptySet DEF IInv, RowsFine, Visible
    <3>3. /\ worker'[w].pc = "mark" /\ worker'[w].job = worker[w].job
          /\ worker'[w].rows = Visible(rows) /\ worker'[w] \in Busy
      BY <1>1, <3>1, <3>2 DEF Busy
    <3> QED
      BY <1>1, <1>2, <3>1, <3>2, <3>3, HandlerGoesOn, QuietStep DEF Timed
  <2>4. /\ covered \in SUBSET Files
        /\ worker[w].found \cap present \in SUBSET Files
    BY <1>1 DEF IInv, TypeOK, Busy
  <2> QED
    BY <1>4, <2>1, <2>2, <2>3, <2>4 DEF At, HandleQueueAssetRefresh
<1>5. CASE Load(w)
  <2> DEFINE own == {r \in Visible(rows) : r.path = worker[w].job.path}
  <2>1. own \in SUBSET Row /\ IsFiniteSet(own)
    BY FS_EmptySet, FS_Subset DEF IInv, RowsFine, Visible
  <2>2. /\ worker'[w] = [[worker[w] EXCEPT !.rows = own] EXCEPT !.pc = "stat"]
        /\ worker' = [worker EXCEPT ![w] = worker'[w]]
    BY <1>1, <1>5 DEF Load
  <2>3. /\ worker'[w].pc = "stat" /\ worker'[w].job = worker[w].job
        /\ worker'[w].rows = own /\ worker'[w] \in Busy
    BY <1>1, <2>1, <2>2 DEF Busy
  <2> QED
    BY <1>1, <1>2, <2>1, <2>2, <2>3, HandlerGoesOn, QuietStep DEF Timed
<1>6. CASE Stat(w)
  <2>1. CASE Done(w)
    BY <1>1, <1>2, <2>1, DoneIsFine, QuietStep
  <2>2. CASE ~Done(w)
    <3> DEFINE time == mtime[worker[w].job.path]
               pc == NextStep(w)
    <3>1. pc \in {"setOffline", "check", "setOnline", "update", "idle"}
      BY DEF NextStep
    <3>2. pc # "idle" /\ worker' = [worker EXCEPT ![w].time = time, ![w].pc = pc]
      BY <1>6, <2>2 DEF Stat
    <3>3. time \in Times
      BY <1>1, <1>6 DEF Stat, At, Busy, LibraryJob, IInv, TypeOK
    <3> HIDE DEF time, pc
    <3>4. /\ worker'[w] = [[worker[w] EXCEPT !.time = time] EXCEPT !.pc = pc]
          /\ worker' = [worker EXCEPT ![w] = worker'[w]]
      BY <1>1, <3>2
    <3>5. /\ worker'[w].job = worker[w].job /\ worker'[w].time = time
          /\ worker'[w].rows = worker[w].rows /\ worker'[w] \in Busy
      BY <1>1, <3>1, <3>2, <3>3, <3>4 DEF Busy
    <3> QED
      BY <1>1, <1>2, <3>3, <3>4, <3>5, HandlerGoesOn, QuietStep
  <2> QED
    BY <2>1, <2>2
<1>7. CASE CheckLibrary(w)
  <2>1. worker[w].pc \in Timed
    BY <1>7 DEF CheckLibrary, At, Timed
  <2> QED
    BY <1>1, <1>2, <1>7, <2>1, DoneIsFine, GotoIsFine, QuietStep DEF CheckLibrary
<1> QED
  BY <1>3, <1>4, <1>5, <1>6, <1>7

-----------------------------------------------------------------------------
(* The handlers that queue jobs.                                           *)

\* Finitely many good jobs are added to the queue of the library, and nothing
\* else changes.
LEMMA QueueingStep ==
  ASSUME IInv, UNCHANGED <<present, mtime, covered, changes, events>>,
         UNCHANGED <<library, rows, created, background, history>>, WorkersFine',
         NEW jobs \in SUBSET GoodJob, IsFiniteSet(jobs), Enqueue(jobs)
  PROVE  IInv'
<1>1. GoodJob' = GoodJob /\ LibraryAdvances
  BY DEF GoodJob, LibraryAdvances
<1>2. queue' \in Seq(GoodJob)
  BY QueueTypes DEF IInv, QueuesFine, Enqueue
<1>3. UNCHANGED <<deletions, overtaken>>
  BY DEF background, history
<1>4. QueuesFine' /\ RowsFine' /\ DeletionsFine' /\ BackgroundTypes'
  BY <1>1, <1>2, <1>3, RowsUntouched, DeletionsUntouched, BackgroundUntouched DEF QueuesFine
<1> QED
  BY <1>4, TypesFollow DEF IInv, TypeOK

\* The jobs for a finite set of ids or paths are finitely many.
LEMMA JobsAreFinite ==
  ASSUME NEW S, IsFiniteSet(S), NEW flag
  PROVE  /\ IsFiniteSet({[name |-> "refresh", path |-> i, force |-> flag] : i \in S})
         /\ IsFiniteSet(Ids(S))
<1> DEFINE r == [i \in S |-> [name |-> "refresh", path |-> i, force |-> flag]]
           n == [i \in S |-> i.id]
<1>1. IsFiniteSet({r[i] : i \in S}) /\ IsFiniteSet({n[i] : i \in S})
  <2>1. r \in [S -> {r[i] : i \in S}] /\ n \in [S -> {n[i] : i \in S}]
    OBVIOUS
  <2> HIDE DEF r, n
  <2> QED
    BY <2>1, ImageIsFinite
<1>2. /\ {r[i] : i \in S} = {[name |-> "refresh", path |-> i, force |-> flag] : i \in S}
      /\ {n[i] : i \in S} = Ids(S)
  BY DEF Ids
<1> QED
  BY <1>1, <1>2

LEMMA ScanningKeepsInvariant ==
  ASSUME IInv, NEW w \in Workers,
         \/ HandleQueueAllScan(w) \/ HandleQueueCleanup(w)
         \/ At(w, "scan", "queueFiles") /\ HandleQueueAssetRefresh(w)
  PROVE  IInv'
<1>1. /\ UNCHANGED <<library, rows, created, background, history>> /\ worker[w].pc # "idle"
      /\ UNCHANGED <<present, mtime, covered, changes, events>>
  BY DEF At, HandleQueueAllScan, HandleQueueCleanup, HandleQueueAssetRefresh
<1>2. LibraryAdvances
  BY <1>1 DEF LibraryAdvances
<1>3. WorkersFine'
  <2>1. Done(w) \/ Goto(w, "queueScans")
    BY DEF At, HandleQueueAllScan, HandleQueueCleanup, HandleQueueAssetRefresh
  <2> QED
    BY <1>1, <1>2, <2>1, DoneIsFine, GotoIsFine DEF Timed
<1>4. CASE HandleQueueAllScan(w) \/ HandleQueueCleanup(w)
  <2>1. PICK jobs : Enqueue(jobs)
                    /\ jobs \in {CleanupJobs, ScanJobs, {}} \cup
                                (IF library = "deleted" THEN {{[name |-> "delete"]}} ELSE {})
    BY <1>4 DEF HandleQueueAllScan, HandleQueueCleanup
  <2>2. /\ [name |-> "cleanup"] \in GoodJob
        /\ [name |-> "scan", mode |-> "modified"] \in GoodJob
        /\ library = "deleted" => [name |-> "delete"] \in GoodJob
    BY DEF GoodJob, LibraryJob, Modes
  <2>3. jobs = {} \/ \E j \in GoodJob : jobs = {j}
    BY <2>1, <2>2 DEF CleanupJobs, ScanJobs
  <2>4. jobs \in SUBSET GoodJob /\ IsFiniteSet(jobs)
    BY <2>3, FS_EmptySet, FS_Singleton
  <2> QED
    BY <1>1, <1>3, <2>1, <2>4, QueueingStep
<1>5. CASE At(w, "scan", "queueFiles") /\ HandleQueueAssetRefresh(w)
  <2> DEFINE all == worker[w].job.mode = "all"
             jobs == {[name |-> "refresh", path |-> f, force |-> all] : f \in Stale(w)}
  <2>1. Enqueue(jobs)
    BY <1>5 DEF At, HandleQueueAssetRefresh
  <2>2. Stale(w) \subseteq Files
    BY <1>1, BusyHandler DEF Stale, Busy
  <2>3. IsFiniteSet(Stale(w))
    BY <2>2, FilesAreFinite, FS_Subset
  <2>4. IsFiniteSet(jobs)
    BY <2>3, JobsAreFinite
  <2>5. jobs \in SUBSET GoodJob
    <3>1. all \in BOOLEAN
      OBVIOUS
    <3> HIDE DEF all
    <3> QED
      BY <2>2, <3>1 DEF GoodJob, LibraryJob
  <2> HIDE DEF jobs
  <2> QED
    BY <1>1, <1>3, <2>1, <2>4, <2>5, QueueingStep
<1> QED
  BY <1>4, <1>5

\* The removal is queued of what is offline by now, and no two rows share an id.
LEMMA RemovalKeepsInvariant ==
  ASSUME IInv, NEW w \in Workers, HandleOfflineRemoval(w)
  PROVE  IInv'
<1>1. /\ UNCHANGED <<library, rows, created, queue, metadata, reader, overtaken, broken>>
      /\ UNCHANGED <<present, mtime, covered, changes, events>>
      /\ Done(w) /\ deletions' = deletions \cup Ids(Offline)
  BY DEF At, HandleOfflineRemoval, history
<1>2. LibraryAdvances
  BY <1>1 DEF LibraryAdvances
<1>3. WorkersFine' /\ QueuesFine' /\ RowsFine'
  BY <1>1, <1>2, DoneIsFine, QueuesUntouched, RowsUntouched
<1>4. \A i \in Ids(Offline) : i \in Nat /\ i <= created /\ \A r \in rows : r.id = i => r.offline
  BY DEF Ids, Offline, IInv, RowsFine, Row
<1>5. DeletionsFine'
  BY <1>1, <1>4 DEF DeletionsFine, IInv
<1>6. BackgroundTypes'
  BY <1>1, <1>4 DEF BackgroundTypes, IInv, TypeOK
<1> QED
  BY <1>1, <1>3, <1>5, <1>6, TypesFollow DEF IInv, TypeOK

\* The metadata of what was imported or found changed is to be read.
LEMMA QueueMetadataKeepsInvariant ==
  ASSUME IInv, NEW w \in Workers, QueueMetadata(w)
  PROVE  IInv'
<1>1. /\ UNCHANGED <<library, rows, created, queue, deletions, reader, overtaken, broken>>
      /\ UNCHANGED <<present, mtime, covered, changes, events>>
      /\ Done(w) /\ worker[w].pc # "idle"
      /\ metadata' = metadata \o SetToSeq(Ids(worker[w].rows))
  BY DEF At, QueueMetadata, history
<1>2. LibraryAdvances
  BY <1>1 DEF LibraryAdvances
<1>3. WorkersFine' /\ QueuesFine' /\ RowsFine' /\ DeletionsFine'
  BY <1>1, <1>2, DoneIsFine, QueuesUntouched, RowsUntouched, DeletionsUntouched
<1>4. worker[w].rows \subseteq Row /\ IsFiniteSet(worker[w].rows)
  BY <1>1, BusyHandler DEF Busy
<1>5. Ids(worker[w].rows) \in SUBSET Nat /\ IsFiniteSet(Ids(worker[w].rows))
  BY <1>4, JobsAreFinite DEF Ids, Row
<1>6. metadata' \in Seq(Nat)
  BY <1>1, <1>5, QueueTypes DEF IInv, TypeOK
<1>7. BackgroundTypes'
  BY <1>1, <1>6 DEF BackgroundTypes, IInv, TypeOK
<1> QED
  BY <1>1, <1>3, <1>7, TypesFollow DEF IInv, TypeOK

-----------------------------------------------------------------------------
(* The handlers that change the table.                                     *)

\* Every row is replaced by one of its own id and path.
Rewrites(f) ==
  /\ DOMAIN f = rows
  /\ \A r \in rows : f[r] \in Row /\ f[r].id = r.id /\ f[r].path = r.path

LEMMA RewriteKeepsRows ==
  ASSUME IInv, UNCHANGED <<library, created>>, NEW f, Rewrites(f), rows' = {f[r] : r \in rows}
  PROVE  RowsFine'
<1>1. rows' \subseteq Row
  BY DEF Rewrites
<1>2. IsFiniteSet(rows')
  <2> DEFINE g == [r \in rows |-> f[r]]
  <2>1. g \in [rows -> {g[r] : r \in rows}] /\ {g[r] : r \in rows} = rows'
    OBVIOUS
  <2>2. IsFiniteSet(rows)
    BY DEF IInv, RowsFine
  <2> HIDE DEF g
  <2>3. IsFiniteSet({g[r] : r \in rows})
    BY <2>1, <2>2, ImageIsFinite
  <2> QED
    BY <2>1, <2>3
<1>3. OneRecordPerFile'
  BY DEF OneRecordPerFile, Rewrites, IInv, RowsFine
<1>4. (\A r \in rows' : r.id <= created') /\ (\A r, s \in rows' : r.id = s.id => r = s)
  BY DEF Rewrites, IInv, RowsFine
<1>5. library' = "gone" => rows' = {}
  BY DEF IInv, RowsFine
<1> QED
  BY <1>1, <1>2, <1>3, <1>4, <1>5 DEF RowsFine

\* What is to be deleted stays offline, or is noted when it comes back.
LEMMA RewriteKeepsDeletions ==
  ASSUME IInv, UNCHANGED <<library, created, deletions>>, overtaken \subseteq overtaken',
         NEW f, Rewrites(f), rows' = {f[r] : r \in rows},
         \A r \in rows : r.offline /\ r.id \in deletions => f[r].offline \/ r.id \in overtaken'
  PROVE  DeletionsFine'
BY DEF DeletionsFine, Rewrites, IInv

\* A step of a handler that changes the table alone.
LEMMA TableStep ==
  ASSUME IInv, UNCHANGED <<present, mtime, covered, changes, events>>,
         UNCHANGED <<library, queues, broken>>, created' \in Nat, overtaken' \subseteq Nat,
         WorkersFine', RowsFine', DeletionsFine'
  PROVE  IInv'
<1>1. LibraryAdvances /\ UNCHANGED <<queue, deletions, metadata, reader>>
  BY DEF LibraryAdvances, queues, background
<1>2. QueuesFine'
  BY <1>1, QueuesUntouched
<1>3. BackgroundTypes'
  BY <1>1 DEF BackgroundTypes, IInv, TypeOK
<1> QED
  BY <1>2, <1>3, TypesFollow DEF IInv, TypeOK

\* Assets are marked offline at any time, and online if that is noted.
LEMMA WithOfflineKeepsRows ==
  ASSUME IInv, UNCHANGED <<library, created, deletions>>, overtaken \subseteq overtaken',
         NEW ids, NEW flag \in BOOLEAN,
         flag \/ ids \cap deletions \subseteq overtaken',
         rows' = WithOffline(ids, flag)
  PROVE  RowsFine' /\ DeletionsFine'
<1> DEFINE f == [r \in rows |-> IF r.id \in ids THEN [r EXCEPT !.offline = flag] ELSE r]
<1>1. rows \subseteq Row
  BY DEF IInv, RowsFine
<1>2. Rewrites(f)
  BY <1>1 DEF Rewrites, Row
<1>3. \A r \in rows : r.offline /\ r.id \in deletions => f[r].offline \/ r.id \in overtaken'
  BY <1>1 DEF Row
<1>4. rows' = {f[r] : r \in rows}
  BY DEF WithOffline
<1> HIDE DEF f
<1> QED
  BY <1>2, <1>3, <1>4, RewriteKeepsRows, RewriteKeepsDeletions

\* The ids of the rows a handler has read.
LEMMA LoadedIds ==
  ASSUME IInv, NEW w \in Workers, worker[w].pc # "idle"
  PROVE  worker[w].rows \subseteq Row /\ Ids(worker[w].rows) \subseteq Nat
<1>1. worker[w].rows \subseteq Row
  BY BusyHandler DEF Busy
<1> QED
  BY <1>1 DEF Ids, Row

LEMMA MarkingKeepsInvariant ==
  ASSUME IInv, NEW w \in Workers,
         \/ At(w, "scan", "mark") /\ HandleQueueAssetRefresh(w)
         \/ SetOffline(w) \/ SetOnline(w)
  PROVE  IInv'
<1>1. /\ UNCHANGED <<present, mtime, covered, changes, events>> /\ worker[w].pc # "idle"
      /\ UNCHANGED <<library, created, queues, broken>>
  BY DEF At, HandleQueueAssetRefresh, SetOffline, SetOnline, history
<1>2. LibraryAdvances /\ created' \in Nat /\ deletions' = deletions
  BY <1>1 DEF LibraryAdvances, IInv, TypeOK, queues, background
<1>3. WorkersFine'
  <2>1. CASE Done(w)
    BY <1>2, <2>1, DoneIsFine
  <2>2. CASE Goto(w, "queueFiles")
    BY <1>1, <1>2, <2>2, GotoIsFine DEF Timed
  <2>3. CASE SetOnline(w) /\ Goto(w, "update")
    <3>1. worker[w].pc \in Timed
      BY <2>3 DEF SetOnline, At, Timed
    <3> QED
      BY <1>1, <1>2, <2>3, <3>1, GotoIsFine
  <2> QED
    BY <2>1, <2>2, <2>3 DEF At, HandleQueueAssetRefresh, SetOffline, SetOnline
<1>4. /\ overtaken' \subseteq Nat /\ overtaken \subseteq overtaken'
      /\ \E ids : \E flag \in BOOLEAN :
           rows' = WithOffline(ids, flag) /\ (flag \/ ids \cap deletions \subseteq overtaken')
  <2>1. CASE At(w, "scan", "mark") /\ HandleQueueAssetRefresh(w)
    <3>1. rows' = WithOffline(Absent(w), TRUE) /\ overtaken' = overtaken
      BY <2>1 DEF At, HandleQueueAssetRefresh, history
    <3> QED
      BY <3>1 DEF IInv, TypeOK
  <2>2. CASE SetOffline(w)
    <3>1. rows' = WithOffline(Ids(worker[w].rows), TRUE) /\ overtaken' = overtaken
      BY <2>2 DEF SetOffline, history
    <3> QED
      BY <3>1 DEF IInv, TypeOK
  <2>3. CASE SetOnline(w)
    <3>1. /\ rows' = WithOffline(Ids(worker[w].rows), FALSE)
          /\ overtaken' = overtaken \cup (Ids(worker[w].rows) \cap deletions)
      BY <2>3 DEF SetOnline
    <3> QED
      BY <3>1 DEF IInv, TypeOK
  <2> QED
    BY <2>1, <2>2, <2>3
<1>5. RowsFine' /\ DeletionsFine'
  BY <1>1, <1>2, <1>4, WithOfflineKeepsRows
<1> QED
  BY <1>1, <1>2, <1>3, <1>4, <1>5, TableStep

LEMMA UpdateKeepsInvariant ==
  ASSUME IInv, NEW w \in Workers, UpdateTimes(w)
  PROVE  IInv'
<1>1. /\ UNCHANGED <<present, mtime, covered, changes, events>> /\ worker[w].pc = "update"
      /\ UNCHANGED <<library, created, queues, deletions, overtaken, broken>>
  BY DEF At, UpdateTimes, queues, background, history
<1>2. LibraryAdvances /\ created' \in Nat /\ overtaken' \subseteq Nat
  BY <1>1 DEF LibraryAdvances, IInv, TypeOK
<1>3. WorkersFine'
  BY <1>1, <1>2, GotoIsFine DEF UpdateTimes, Timed
<1>4. worker[w].time \in Times
  BY <1>1, BusyHandler DEF Timed
<1>5. RowsFine' /\ DeletionsFine'
  <2> DEFINE ids == Ids(worker[w].rows)
             time == worker[w].time
             f == [r \in rows |-> IF r.id \in ids THEN [r EXCEPT !.mtime = time] ELSE r]
  <2>1. rows' = {f[r] : r \in rows}
    BY DEF UpdateTimes
  <2>2. rows \subseteq Row /\ time \in Times
    BY <1>4 DEF IInv, RowsFine
  <2> HIDE DEF ids, time
  <2>3. Rewrites(f) /\ \A r \in rows : r.offline => f[r].offline
    BY <2>2 DEF Rewrites, Row
  <2> HIDE DEF f
  <2> QED
    BY <1>1, <2>1, <2>3, RewriteKeepsRows, RewriteKeepsDeletions
<1> QED
  BY <1>1, <1>2, <1>3, <1>5, TableStep

\* The unique index and the reference to the library decide about a new row.
LEMMA ImportKeepsInvariant ==
  ASSUME IInv, NEW w \in Workers, Import(w)
  PROVE  IInv'
<1> DEFINE path == worker[w].job.path
           new == [id |-> created + 1, path |-> path, mtime |-> worker[w].time,
                   offline |-> FALSE, read |-> None]
<1>1. /\ UNCHANGED <<present, mtime, covered, changes, events>> /\ worker[w].pc = "import"
      /\ UNCHANGED <<library, queues, deletions, history, overtaken, broken>>
      /\ worker[w].job.name = "refresh"
  BY DEF At, Import, queues, background, history
<1>2. LibraryAdvances /\ overtaken' \subseteq Nat
  BY <1>1 DEF LibraryAdvances, IInv, TypeOK
<1>3. CASE ~Accepts(path)
  <2>1. Done(w) /\ UNCHANGED <<rows, created>>
    BY <1>3 DEF Import
  <2> QED
    BY <1>1, <1>2, <2>1, DoneIsFine, QuietStep DEF Quiet
<1>4. CASE Accepts(path)
  <2>1. /\ rows' = rows \cup {new} /\ created' = created + 1
        /\ worker' = [worker EXCEPT ![w].rows = {new}, ![w].pc = "queueMetadata"]
    BY <1>4 DEF Import
  <2>2. path \in Files /\ worker[w].time \in Times /\ created \in Nat
    BY <1>1, BusyHandler DEF Busy, LibraryJob, Timed, IInv, TypeOK
  <2>3. new \in Row /\ new.path = path /\ new.id = created + 1
    BY <2>2 DEF Row
  <2>4. library # "gone" /\ \A r \in rows : r.path # path
    BY <1>4 DEF Accepts
  <2> HIDE DEF new, path
  <2>5. RowsFine'
    <3>1. rows' \subseteq Row /\ IsFiniteSet(rows')
      BY <2>1, <2>3, FS_AddElement DEF IInv, RowsFine
    <3>2. OneRecordPerFile'
      BY <2>1, <2>3, <2>4 DEF OneRecordPerFile, IInv, RowsFine
    <3>3. (\A r \in rows' : r.id <= created') /\ (\A r, s \in rows' : r.id = s.id => r = s)
      BY <2>1, <2>2, <2>3 DEF IInv, RowsFine, Row
    <3>4. library' # "gone"
      BY <1>1, <2>4
    <3> QED
      BY <3>1, <3>2, <3>3, <3>4 DEF RowsFine
  <2>6. WorkersFine'
    <3>1. /\ worker'[w] = [[worker[w] EXCEPT !.rows = {new}] EXCEPT !.pc = "queueMetadata"]
          /\ worker' = [worker EXCEPT ![w] = worker'[w]]
      BY <1>1, <2>1, BusyHandler
    <3>2. worker[w] \in Busy /\ {new} \in SUBSET Row /\ IsFiniteSet({new})
      BY <1>1, <2>3, BusyHandler, FS_Singleton
    <3>3. /\ worker'[w].pc = "queueMetadata" /\ worker'[w].job = worker[w].job
          /\ worker'[w].rows = {new} /\ worker'[w] \in Busy
      BY <3>1, <3>2 DEF Busy
    <3> QED
      BY <1>1, <1>2, <3>1, <3>2, <3>3, BusyHandler, HandlerGoesOn DEF Timed
  <2>7. DeletionsFine'
    <3>1. \A i \in deletions : i \in Nat
      BY DEF IInv, TypeOK
    <3> QED
      BY <1>1, <2>1, <2>2, <2>3, <3>1 DEF DeletionsFine, IInv
  <2> QED
    BY <1>1, <1>2, <2>1, <2>2, <2>5, <2>6, <2>7, TableStep
<1> QED
  BY <1>3, <1>4

\* The library goes when it was found empty, and takes with it what it has by now.
LEMMA DeletingKeepsInvariant ==
  ASSUME IInv, NEW w \in Workers, At(w, "delete", "queueDeletions"), HandleDeleteLibrary(w)
  PROVE  IInv'
<1>1. /\ UNCHANGED <<present, mtime, covered, changes, events>>
      /\ UNCHANGED <<created, queue, metadata, reader, overtaken, broken>>
      /\ worker[w].pc = "queueDeletions" /\ worker[w].job.name = "delete"
  BY DEF At, HandleDeleteLibrary, history
<1>2. library # "active" /\ library \in {"active", "deleted", "gone"}
  BY <1>1, BusyHandler DEF IInv, WorkersFine, GoodWorker, TypeOK
<1>3. /\ deletions' = deletions \cup Ids(worker[w].rows) /\ Done(w)
      /\ \/ library' = library /\ rows' = rows
         \/ library' = "gone" /\ rows' = {}
  BY <1>1 DEF At, HandleDeleteLibrary
<1>4. LibraryAdvances /\ library' \in {"active", "deleted", "gone"} /\ library' # "active"
  BY <1>2, <1>3 DEF LibraryAdvances
<1>5. WorkersFine' /\ QueuesFine' /\ DeletionsFine'
  BY <1>1, <1>3, <1>4, DoneIsFine, QueuesUntouched DEF DeletionsFine
<1>6. BackgroundTypes'
  BY <1>1, <1>3, LoadedIds DEF BackgroundTypes, IInv, TypeOK
<1>7. RowsFine'
  <2>1. CASE rows' = rows /\ library' = library
    BY <1>1, <2>1, RowsUntouched
  <2>2. CASE rows' = {}
    BY <2>2, FS_EmptySet DEF RowsFine, OneRecordPerFile
  <2> QED
    BY <1>3, <2>1, <2>2
<1> QED
  BY <1>1, <1>4, <1>5, <1>6, <1>7, TypesFollow DEF IInv, TypeOK

LEMMA FailKeepsInvariant ==
  ASSUME IInv, NEW w \in Workers, Fail(w)
  PROVE  IInv'
<1>1. LibraryAdvances /\ UNCHANGED <<rows, created, queue, deletions, metadata, reader, overtaken>>
  BY DEF Fail, LibraryAdvances, queues, background
<1>2. WorkersFine' /\ QueuesFine' /\ RowsFine' /\ DeletionsFine'
  BY <1>1, DoneIsFine, QueuesUntouched, RowsUntouched, DeletionsUntouched DEF Fail
<1>3. changes' \in Nat /\ events' \in Nat
  BY DEF Fail, Event, IInv, TypeOK
<1>4. BackgroundTypes'
  BY <1>1, LoadedIds DEF Fail, BackgroundTypes, IInv, TypeOK
<1> QED
  BY <1>2, <1>3, <1>4, TypesFollow DEF Fail, IInv, TypeOK

-----------------------------------------------------------------------------
(* The other queues.                                                       *)

LEMMA DeletionKeepsInvariant ==
  ASSUME IInv, NEW i \in deletions, HandleAssetDeletion(i) \/ FailAssetDeletion(i)
  PROVE  IInv'
<1>1. /\ UNCHANGED <<present, mtime, covered, library, created, queue, metadata, worker, reader>>
      /\ UNCHANGED <<overtaken, broken>>
      /\ deletions' = deletions \ {i} /\ rows' \subseteq rows
  BY DEF HandleAssetDeletion, FailAssetDeletion, history
<1>2. LibraryAdvances
  BY <1>1 DEF LibraryAdvances
<1>3. WorkersFine' /\ QueuesFine'
  BY <1>1, <1>2, WorkersUntouched, QueuesUntouched
<1>4. RowsFine'
  <2>1. IsFiniteSet(rows')
    BY <1>1, FS_Subset DEF IInv, RowsFine
  <2> QED
    BY <1>1, <2>1 DEF IInv, RowsFine, OneRecordPerFile
<1>5. DeletionsFine' /\ BackgroundTypes'
  BY <1>1 DEF DeletionsFine, BackgroundTypes, IInv, TypeOK
<1>6. changes' \in Nat /\ events' \in Nat
  BY DEF HandleAssetDeletion, FailAssetDeletion, Event, IInv, TypeOK
<1> QED
  BY <1>1, <1>3, <1>4, <1>5, <1>6, TypesFollow DEF IInv, TypeOK

LEMMA ReadKeepsInvariant ==
  ASSUME IInv, NEW m \in Readers, ReadMetadata(m) \/ FailMetadata(m)
  PROVE  IInv'
<1>1. /\ UNCHANGED <<present, mtime, covered, library, rows, created, queue, deletions, worker>>
      /\ overtaken' = overtaken
  BY DEF ReadMetadata, FailMetadata
<1>2. LibraryAdvances
  BY <1>1 DEF LibraryAdvances
<1>3. WorkersFine' /\ QueuesFine' /\ RowsFine' /\ DeletionsFine'
  BY <1>1, <1>2, WorkersUntouched, QueuesUntouched, RowsUntouched, DeletionsUntouched
<1>4. /\ metadata' \in Seq(Nat) /\ reader' \in [Readers -> Reading \cup {Idle}]
      /\ broken' \subseteq Nat /\ changes' \in Nat /\ events' \in Nat
  <2>1. /\ metadata \in Seq(Nat) /\ reader \in [Readers -> Reading \cup {Idle}]
        /\ broken \subseteq Nat /\ changes \in Nat /\ events \in Nat
        /\ rows \subseteq Row /\ mtime \in [Files -> Times]
    BY DEF IInv, TypeOK
  <2>2. CASE ReadMetadata(m)
    <3> DEFINE id == Head(metadata)
               times == {mtime[r.path] : r \in {r \in rows : r.id = id /\ r.path \in present}}
    <3>1. id \in Nat /\ metadata' \in Seq(Nat)
      BY <2>1, <2>2, QueueTypes DEF ReadMetadata
    <3>2. times \subseteq Times
      BY <2>1 DEF Row
    <3>3. /\ \/ reader' = reader
             \/ \E t \in times : reader' = [reader EXCEPT ![m] = [pc |-> "save", id |-> id, time |-> t]]
          /\ broken' = broken \/ broken' = broken \cup {id}
          /\ UNCHANGED <<changes, events>>
      BY <2>2 DEF ReadMetadata
    <3> HIDE DEF times, id
    <3>4. \A t \in times : [pc |-> "save", id |-> id, time |-> t] \in Reading
      BY <3>1, <3>2 DEF Reading
    <3>5. reader' \in [Readers -> Reading \cup {Idle}]
      BY <2>1, <3>3, <3>4
    <3> QED
      BY <2>1, <3>1, <3>3, <3>5
  <2>3. CASE FailMetadata(m)
    <3>1. reader[m].id \in Nat
      BY <2>1, <2>3 DEF FailMetadata, Reading
    <3>2. UNCHANGED metadata /\ reader' = [reader EXCEPT ![m] = Idle]
          /\ broken' = broken \cup {reader[m].id} /\ Event
      BY <2>3 DEF FailMetadata
    <3>3. reader' \in [Readers -> Reading \cup {Idle}]
      BY <2>1, <3>2
    <3>4. changes' \in Nat /\ events' \in Nat
      BY <2>1, <3>2 DEF Event
    <3> QED
      BY <2>1, <3>1, <3>2, <3>3, <3>4
  <2> QED
    BY <2>2, <2>3
<1>5. BackgroundTypes'
  BY <1>1, <1>4 DEF BackgroundTypes, IInv, TypeOK
<1> QED
  BY <1>1, <1>3, <1>4, <1>5, TypesFollow DEF IInv, TypeOK

LEMMA SaveKeepsInvariant ==
  ASSUME IInv, NEW m \in Readers, SaveMetadata(m)
  PROVE  IInv'
<1> DEFINE id == reader[m].id
           time == reader[m].time
           f == [r \in rows |-> IF r.id = id THEN [r EXCEPT !.read = time] ELSE r]
<1>1. /\ UNCHANGED <<present, mtime, covered, library, created, queue, deletions, metadata>>
      /\ UNCHANGED <<worker, overtaken, broken, changes, events>>
      /\ reader' = [reader EXCEPT ![m] = Idle]
      /\ rows' = {f[r] : r \in rows}
  BY DEF SaveMetadata, history
<1>2. LibraryAdvances
  BY <1>1 DEF LibraryAdvances
<1>3. rows \subseteq Row /\ reader \in [Readers -> Reading \cup {Idle}]
  BY DEF IInv, TypeOK
<1>4. time \in Times
  BY <1>3 DEF SaveMetadata, Reading
<1> HIDE DEF id, time
<1>5. Rewrites(f) /\ \A r \in rows : r.offline => f[r].offline
  BY <1>3, <1>4 DEF Rewrites, Row
<1> HIDE DEF f
<1>6. RowsFine' /\ DeletionsFine'
  BY <1>1, <1>5, RewriteKeepsRows, RewriteKeepsDeletions
<1>7. WorkersFine' /\ QueuesFine'
  BY <1>1, <1>2, WorkersUntouched, QueuesUntouched
<1>8. BackgroundTypes'
  BY <1>1, <1>3 DEF BackgroundTypes, IInv, TypeOK
<1> QED
  BY <1>1, <1>6, <1>7, <1>8, TypesFollow DEF IInv, TypeOK

-----------------------------------------------------------------------------
(* The theorems                                                            *)

LEMMA HandlerKeepsInvariant ==
  ASSUME IInv, NEW w \in Workers, Handle(w)
  PROVE  IInv'
<1>1. CASE Take(w)
  BY <1>1, TakeKeepsInvariant
<1>2. CASE HandleQueueAllScan(w) \/ HandleQueueCleanup(w) \/ HandleOfflineRemoval(w)
  BY <1>2, ScanningKeepsInvariant, RemovalKeepsInvariant
<1>3. CASE HandleDeleteLibrary(w)
  <2>1. At(w, "delete", "run") \/ At(w, "delete", "queueDeletions")
    BY <1>3 DEF HandleDeleteLibrary
  <2> QED
    BY <1>3, <2>1, ReadingKeepsInvariant, DeletingKeepsInvariant
<1>4. CASE HandleQueueAssetRefresh(w)
  <2>1. \E pc \in {"run", "crawl", "list", "mark", "queueFiles"} : At(w, "scan", pc)
    BY <1>4 DEF HandleQueueAssetRefresh
  <2> QED
    BY <1>4, <2>1, ReadingKeepsInvariant, MarkingKeepsInvariant, ScanningKeepsInvariant
<1>5. CASE HandleAssetRefresh(w)
  BY <1>5, ReadingKeepsInvariant, MarkingKeepsInvariant, UpdateKeepsInvariant,
     ImportKeepsInvariant, QueueMetadataKeepsInvariant DEF HandleAssetRefresh
<1> QED
  BY <1>1, <1>2, <1>3, <1>4, <1>5 DEF Handle

LEMMA NextKeepsInvariant == IInv /\ [Next]_vars => IInv'
<1> SUFFICES ASSUME IInv, [Next]_vars PROVE IInv'
  OBVIOUS
<1>1. CASE \E f \in Files : (\E t \in Times : WriteFile(f, t)) \/ RemoveFile(f)
  BY <1>1, WorldKeepsInvariant
<1>2. CASE Request \/ CronScan
  BY <1>2, OwnerKeepsInvariant
<1>3. CASE \E w \in Workers : Handle(w) \/ Fail(w)
  BY <1>3, HandlerKeepsInvariant, FailKeepsInvariant
<1>4. CASE Deletion \/ \E i \in deletions : FailAssetDeletion(i)
  BY <1>4, DeletionKeepsInvariant DEF Deletion
<1>5. CASE \E m \in Readers : HandleMetadata(m) \/ FailMetadata(m)
  BY <1>5, ReadKeepsInvariant, SaveKeepsInvariant DEF HandleMetadata
<1>6. CASE UNCHANGED vars
  <2>1. LibraryAdvances /\ Quiet /\ UNCHANGED <<present, mtime, covered, changes, events>>
    BY <1>6 DEF vars, LibraryAdvances, Quiet
  <2>2. WorkersFine'
    BY <1>6, <2>1, WorkersUntouched DEF vars
  <2> QED
    BY <2>1, <2>2, QuietStep
<1> QED
  BY <1>1, <1>2, <1>3, <1>4, <1>5, <1>6 DEF Next

LEMMA InvariantHolds == Spec => []IInv
BY InitEstablishesInvariant, NextKeepsInvariant, PTL DEF Spec

\* The tables, queues and handlers of a library keep their types.
THEOREM LibraryTypeInvariance == Spec => []TypeOK
<1>1. IInv => TypeOK
  BY DEF IInv
<1> QED
  BY <1>1, InvariantHolds, PTL

\* However many scans refresh a file side by side, it has one asset at most
\* (library.service.ts, handleAssetRefresh, and the index of asset.entity.ts).
THEOREM OneAssetPerFile == Spec => []OneRecordPerFile
<1>1. IInv => OneRecordPerFile
  BY DEF IInv, RowsFine
<1> QED
  BY <1>1, InvariantHolds, PTL

\* The step of RemovedForAReason.
Justified ==
  \A r \in rows : r.id \in Ids(rows') \/ library # "active" \/ r.offline \/ r.id \in overtaken

LEMMA RewritesKeepIds ==
  ASSUME NEW f, \A r \in rows : f[r].id = r.id, rows' = {f[r] : r \in rows}
  PROVE  Justified
BY DEF Justified, Ids

LEMMA StepsAreJustified == IInv /\ [Next]_vars => Justified
<1> SUFFICES ASSUME IInv, [Next]_vars PROVE Justified
  OBVIOUS
<1>1. ASSUME rows \subseteq rows' PROVE Justified
  BY <1>1 DEF Justified, Ids
<1>2. ASSUME NEW ids, NEW flag \in BOOLEAN, rows' = WithOffline(ids, flag) PROVE Justified
  <2> DEFINE f == [r \in rows |-> IF r.id \in ids THEN [r EXCEPT !.offline = flag] ELSE r]
  <2>1. rows' = {f[r] : r \in rows}
    BY <1>2 DEF WithOffline
  <2>2. \A r \in rows : f[r].id = r.id
    BY DEF IInv, TypeOK, Row
  <2> HIDE DEF f
  <2> QED
    BY <2>1, <2>2, RewritesKeepIds
<1>3. CASE \E f \in Files : (\E t \in Times : WriteFile(f, t)) \/ RemoveFile(f)
  BY <1>1, <1>3 DEF WriteFile, RemoveFile
<1>4. CASE Request \/ CronScan
  BY <1>1, <1>4 DEF Request, UpdateLibrary, QueueScan, QueueRemoveOffline, DeleteLibrary, CronScan
<1>5. ASSUME NEW w \in Workers, Handle(w) \/ Fail(w) PROVE Justified
  <2>1. CASE Take(w) \/ HandleQueueAllScan(w) \/ HandleQueueCleanup(w) \/ HandleOfflineRemoval(w)
    BY <1>1, <2>1 DEF Take, HandleQueueAllScan, HandleQueueCleanup, HandleOfflineRemoval
  <2>2. CASE HandleDeleteLibrary(w)
    <3>1. CASE rows' = rows
      BY <1>1, <3>1
    <3>2. CASE At(w, "delete", "queueDeletions")
      BY <3>2, BusyHandler DEF At, IInv, WorkersFine, GoodWorker, Justified
    <3> QED
      BY <2>2, <3>1, <3>2 DEF HandleDeleteLibrary
  <2>3. CASE HandleQueueAssetRefresh(w)
    BY <1>1, <1>2, <2>3 DEF HandleQueueAssetRefresh
  <2>4. CASE Load(w) \/ Stat(w) \/ CheckLibrary(w) \/ Import(w) \/ QueueMetadata(w)
    BY <1>1, <2>4 DEF Load, Stat, CheckLibrary, Import, QueueMetadata
  <2>5. CASE SetOffline(w) \/ SetOnline(w)
    BY <1>2, <2>5 DEF SetOffline, SetOnline
  <2>6. CASE UpdateTimes(w)
    <3> DEFINE ids == Ids(worker[w].rows)
               f == [r \in rows |-> IF r.id \in ids THEN [r EXCEPT !.mtime = worker[w].time]
                                                    ELSE r]
    <3>1. rows' = {f[r] : r \in rows}
      BY <2>6 DEF UpdateTimes
    <3>2. \A r \in rows : f[r].id = r.id
      BY DEF IInv, TypeOK, Row
    <3> HIDE DEF f
    <3> QED
      BY <3>1, <3>2, RewritesKeepIds
  <2>7. CASE Fail(w)
    BY <1>1, <2>7 DEF Fail
  <2> QED
    BY <1>5, <2>1, <2>2, <2>3, <2>4, <2>5, <2>6, <2>7 DEF Handle, HandleAssetRefresh
<1>6. ASSUME NEW i \in deletions, HandleAssetDeletion(i) PROVE Justified
  <2>1. \A r \in rows : r.id # i => r.id \in Ids(rows')
    BY <1>6 DEF HandleAssetDeletion, Ids
  <2> QED
    BY <1>6, <2>1 DEF Justified, IInv, DeletionsFine
<1>7. ASSUME NEW m \in Readers, SaveMetadata(m) PROVE Justified
  <2> DEFINE f == [r \in rows |-> IF r.id = reader[m].id THEN [r EXCEPT !.read = reader[m].time] ELSE r]
  <2>1. rows' = {f[r] : r \in rows}
    BY <1>7 DEF SaveMetadata
  <2>2. \A r \in rows : f[r].id = r.id
    BY DEF IInv, TypeOK, Row
  <2> HIDE DEF f
  <2> QED
    BY <2>1, <2>2, RewritesKeepIds
<1>8. CASE \/ \E i \in deletions : FailAssetDeletion(i)
           \/ \E m \in Readers : ReadMetadata(m) \/ FailMetadata(m)
  BY <1>1, <1>8 DEF FailAssetDeletion, ReadMetadata, FailMetadata
<1>9. CASE UNCHANGED vars
  BY <1>1, <1>9 DEF vars
<1> QED
  BY <1>3, <1>4, <1>5, <1>6, <1>7, <1>8, <1>9 DEF Next, Deletion, HandleMetadata

\* However late its deletion runs, only an asset that is offline leaves an active
\* library, or one that a scan put online while the deletion waited: those are
\* excepted, and the documentation says otherwise (handleOfflineRemoval).
THEOREM NothingRemovedWithoutReason == Spec => RemovedForAReason
<1>1. IInv /\ [Next]_vars => [Justified]_vars
  BY StepsAreJustified
<1> QED
  BY <1>1, InvariantHolds, PTL DEF Spec, RemovedForAReason, Justified

LEMMA GoneStaysGone == IInv /\ [Next]_vars /\ library = "gone" => library' = "gone" /\ rows' = {}
<1> SUFFICES ASSUME IInv, [Next]_vars, library = "gone" PROVE library' = "gone" /\ rows' = {}
  OBVIOUS
<1>1. library' = "gone"
  BY DEF Next, WriteFile, RemoveFile, Request, UpdateLibrary, QueueScan, QueueRemoveOffline,
         DeleteLibrary, CronScan, Handle, Take, Fail, HandleQueueAllScan, HandleQueueCleanup,
         HandleDeleteLibrary, HandleOfflineRemoval, HandleQueueAssetRefresh, HandleAssetRefresh,
         Load, Stat, SetOffline, SetOnline, CheckLibrary, Import, UpdateTimes, QueueMetadata,
         Deletion, HandleAssetDeletion, FailAssetDeletion, HandleMetadata, ReadMetadata,
         SaveMetadata, FailMetadata, vars
<1>2. rows' = {}
  BY <1>1, NextKeepsInvariant DEF IInv, RowsFine
<1> QED
  BY <1>1, <1>2

\* A deleted library stays away, and no late job brings an asset back to it
\* (handleDeleteLibrary, and the reference of an asset to its library).
THEOREM GoneForGood == Spec => DeletedForGood
<1>1. IInv /\ [Next]_vars => [library = "gone" => library' = "gone" /\ rows' = {}]_vars
  BY GoneStaysGone
<1> QED
  BY <1>1, InvariantHolds, PTL DEF Spec, DeletedForGood

=============================================================================
