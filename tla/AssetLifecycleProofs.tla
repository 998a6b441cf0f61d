------------------------ MODULE AssetLifecycleProofs ------------------------
(***************************************************************************)
(* The life of an asset, for any number of assets, requests and handlers   *)
(* and any bound on failures: the state stays well typed, and nothing is   *)
(* removed that its owner did not give up, unless the owner took it back   *)
(* while its removal was under way.                                        *)
(***************************************************************************)
EXTENDS AssetLifecycle, WellFoundedInduction, TLAPS

-----------------------------------------------------------------------------
(* The well-typed states                                                   *)

\* A handler of a job on one asset, with the record it has loaded.
Held(w) == worker[w].pc \notin {"idle", "unlink"}

\* Only the deletion of files works without a record, and only a deletion goes
\* on after the record.
WorkersFine ==
  \A w \in Workers :
    /\ worker[w].pc = "unlink" => worker[w].job.name = "files"
    /\ Held(w) => worker[w].job.name # "files"
    /\ worker[w].pc \in {"live", "files"} => worker[w].job.name = "deletion"
    /\ worker[w].pc = "live" => worker[w].row.live # None

\* A request handles a video part only if it has one.
MotionFine == \A u \in Stills : request[u] \in {"motion", "queueMotion"} => MotionOf[u] # None

TypeInv == TypeOK /\ WorkersFine /\ MotionFine

Loaded == [pc: {"run", "save", "live", "files", "done"}, job: Job, id: Assets, row: Row]
FileJob == [name: {"files"}, files: SUBSET Path]
Histories == [overtaken: SUBSET Stills, contested: SUBSET Path, abandoned: SUBSET Assets]

-----------------------------------------------------------------------------
(* Bags, slots and jobs                                                    *)

\* A set of numbers that is not empty has a least one.
LEMMA Least ==
  ASSUME NEW T \in SUBSET Nat, T # {}
  PROVE  \E n \in T : \A m \in T : n <= m
<1> DEFINE R == {ss \in Nat \X Nat : ss[1] < ss[2]}
<1>1. IsWellFoundedOn(R, Nat)
  BY NatLessThanWellFounded DEF OpToRel
<1> HIDE DEF R
<1>2. PICK n \in T : \A m \in T : <<m, n>> \notin R
  BY <1>1, WFMin
<1>3. \A m \in T : ~(m < n)
  BY <1>2 DEF R
<1> QED
  BY <1>3

\* What a bag holds after a set of jobs was added.
LEMMA Added ==
  ASSUME NEW B, IsABag(B), NEW S
  PROVE  /\ IsABag(B (+) SetToBag(S))
         /\ BagToSet(B (+) SetToBag(S)) = BagToSet(B) \cup S
         /\ \A e \in BagToSet(B) : e \notin S => (B (+) SetToBag(S))[e] = B[e]
         /\ \A e \in S : e \notin BagToSet(B) => (B (+) SetToBag(S))[e] = 1
<1>1. B \in [DOMAIN B -> {n \in Nat : n > 0}]
  BY DEF IsABag
<1> DEFINE sum == B (+) SetToBag(S)
<1>2. sum = [e \in DOMAIN B \cup S |-> (IF e \in DOMAIN B THEN B[e] ELSE 0) + (IF e \in S THEN 1 ELSE 0)]
  BY DEF (+), SetToBag
<1> HIDE DEF sum
<1>3. sum \in [DOMAIN B \cup S -> {n \in Nat : n > 0}]
  BY <1>1, <1>2
<1> QED
  BY <1>1, <1>2, <1>3 DEF sum, IsABag, BagToSet

\* What a bag holds after one of its jobs was taken.
LEMMA Taken ==
  ASSUME NEW B, IsABag(B), NEW x \in BagToSet(B)
  PROVE  /\ IsABag(B (-) SetToBag({x}))
         /\ BagToSet(B (-) SetToBag({x})) \subseteq BagToSet(B)
         /\ \A e \in BagToSet(B) : e # x =>
              e \in BagToSet(B (-) SetToBag({x})) /\ (B (-) SetToBag({x}))[e] = B[e]
         /\ B[x] = 1 => x \notin BagToSet(B (-) SetToBag({x}))
<1>1. B \in [DOMAIN B -> {n \in Nat : n > 0}]
  BY DEF IsABag
<1> DEFINE C == [e \in DOMAIN B |-> IF e \in {x} THEN B[e] - 1 ELSE B[e]]
           rest == B (-) SetToBag({x})
<1>2. rest = [e \in {d \in DOMAIN B : C[d] > 0} |-> C[e]]
  BY DEF (-), SetToBag
<1> HIDE DEF rest
<1>3. \A e \in DOMAIN B : C[e] \in Int
  BY <1>1
<1>4. rest \in [{d \in DOMAIN B : C[d] > 0} -> {n \in Nat : n > 0}]
  BY <1>2, <1>3
<1> HIDE DEF C
<1>5. \A e \in DOMAIN B : C[e] = IF e = x THEN B[e] - 1 ELSE B[e]
  BY DEF C
<1>6. DOMAIN rest = {d \in DOMAIN B : C[d] > 0} /\ \A e \in DOMAIN rest : rest[e] = C[e]
  BY <1>2
<1>7. IsABag(rest)
  BY <1>4, <1>6 DEF IsABag
<1>8. BagToSet(rest) \subseteq BagToSet(B)
  BY <1>6 DEF BagToSet
<1>9. \A e \in BagToSet(B) : e # x => e \in BagToSet(rest) /\ rest[e] = B[e]
  BY <1>1, <1>5, <1>6 DEF BagToSet
<1>10. B[x] = 1 => x \notin BagToSet(rest)
  BY <1>5, <1>6 DEF BagToSet
<1> QED
  BY <1>7, <1>8, <1>9, <1>10 DEF rest

LEMMA JobKinds ==
  ASSUME NEW job \in Job
  PROVE  /\ job.name = "files" => job \in FileJob
         /\ job.name = "deletion" => job = Deletion(job.id)
         /\ job.name \in ChainJobs => job \in [name: ChainJobs, id: Assets, upload: BOOLEAN]
         /\ job.name # "files" => job.id \in Assets
         /\ job.name \in ChainJobs \cup {"deletion", "files"}
BY DEF Job, FileJob, ChainJobs, Deletion

LEMMA JobsMade ==
  /\ \A a \in Assets : Deletion(a) \in Job
  /\ \A name \in ChainJobs, a \in Assets, upload \in BOOLEAN : ChainJob(name, a, upload) \in Job
  /\ \A files \in SUBSET Path : DeleteFiles(files) \in FileJob /\ DeleteFiles(files) \in Job
BY DEF Job, FileJob, ChainJobs, Deletion, ChainJob, DeleteFiles

LEMMA Queued ==
  ASSUME IsABag(jobs), BagToSet(jobs) \subseteq Job, NEW set \in SUBSET Job, Queue(set)
  PROVE  /\ IsABag(jobs)' /\ (BagToSet(jobs) \subseteq Job)'
         /\ BagToSet(jobs)' = BagToSet(jobs) \cup set
         /\ \A j \in BagToSet(jobs) : j \notin set => jobs'[j] = jobs[j]
         /\ \A j \in set : j \notin BagToSet(jobs) => jobs'[j] = 1
<1>1. jobs' = jobs (+) SetToBag(set)
  BY DEF Queue
<1> QED
  BY <1>1, Added

LEMMA SlotIsFree ==
  ASSUME FreeSlot # {}
  PROVE  TemplatePath \in Library /\ disk[TemplatePath] = None
<1>1. FreeSlot \subseteq Nat
  BY DEF FreeSlot
<1>2. \E n \in FreeSlot : \A m \in FreeSlot : n <= m
  BY <1>1, Least
<1>3. PICK n \in FreeSlot : TemplatePath = <<"library", n>>
  BY <1>2 DEF TemplatePath
<1> QED
  BY <1>3 DEF FreeSlot, Library

LEMMA HeldTypes ==
  ASSUME TypeInv, NEW w \in Workers
  PROVE  /\ Held(w) => /\ worker[w] \in Loaded
                       /\ worker[w].job.name \in ChainJobs \cup {"deletion"}
         /\ worker[w].pc = "unlink" => /\ worker[w] \in [pc: {"unlink"}, job: Job]
                                       /\ worker[w].job \in FileJob
         /\ worker[w].pc = "idle" => worker[w] = Idle
         /\ worker[w].pc = "unlink" \/ worker[w].pc = "idle" \/ Held(w)
<1>1. worker[w] \in Busy \cup {Idle}
  BY DEF TypeInv, TypeOK
<1>2. Held(w) => worker[w] \in Loaded
  BY <1>1 DEF Busy, Idle, Held, Loaded
<1>3. worker[w].pc = "unlink" => worker[w] \in [pc: {"unlink"}, job: Job]
  BY <1>1 DEF Busy, Idle
<1>4. worker[w].pc = "idle" => worker[w] = Idle
  BY <1>1 DEF Busy, Idle
<1>5. Held(w) => worker[w].job \in Job /\ worker[w].job.name # "files"
  BY <1>2 DEF Loaded, TypeInv, WorkersFine
<1>6. worker[w].pc = "unlink" => worker[w].job.name = "files"
  BY DEF TypeInv, WorkersFine
<1> QED
  BY <1>2, <1>3, <1>4, <1>5, <1>6, JobKinds DEF Held

LEMMA FilesArePaths ==
  /\ \A a \in Assets, row \in Row : FilesOf(a, row) \subseteq Path
  /\ \A u \in Stills : {Upload(a) : a \in Parts(u)} \subseteq Path
  /\ \A u \in Stills : Parts(u) \subseteq Assets
<1>1. \A u \in Stills : Parts(u) \subseteq Assets
  BY UploadsAreAssets DEF Parts
<1>2. \A a \in Assets, row \in Row : FilesOf(a, row) \subseteq Path
  BY DEF FilesOf, Row, Path
<1> QED
  BY <1>1, <1>2 DEF Path

\* What a handler has in hand, by the step it is at.
LEMMA HandKinds ==
  ASSUME NEW w
  PROVE  /\ worker[w].pc = "unlink" => InHand(w) = worker[w].job.files
         /\ worker[w].pc \in {"live", "files"} =>
              InHand(w) = FilesOf(worker[w].id, worker[w].row)
         /\ Moving(w) => InHand(w) = {worker[w].row.original}
         /\ worker[w].pc = "save" /\ ~Moving(w) => InHand(w) = {Thumbnail(w)}
         /\ worker[w].pc \notin {"unlink", "live", "files", "save"} => InHand(w) = {}
<1>1. Moving(w) => worker[w].pc = "save"
  BY DEF Moving
<1> QED
  BY <1>1 DEF InHand

LEMMA HandIsPaths ==
  ASSUME TypeInv, NEW w \in Workers
  PROVE  InHand(w) \subseteq Path
<1>1. CASE worker[w].pc = "unlink"
  BY <1>1, HeldTypes, HandKinds DEF FileJob
<1>2. CASE worker[w].pc = "idle"
  BY <1>2, HandKinds
<1>3. CASE Held(w)
  <2>1. worker[w] \in Loaded
    BY <1>3, HeldTypes
  <2>2. worker[w].id \in Assets /\ worker[w].row \in Row /\ worker[w].row.original \in Path
    BY <2>1 DEF Loaded, Row
  <2>3. Thumbnail(w) \in Path
    BY <2>2 DEF Thumbnail, Path
  <2>4. FilesOf(worker[w].id, worker[w].row) \subseteq Path
    BY <2>2, FilesArePaths
  <2> QED
    BY <1>3, <2>2, <2>3, <2>4, HandKinds DEF Held
<1> QED
  BY <1>1, <1>2, <1>3, HeldTypes

-----------------------------------------------------------------------------
(* What the steps of a handler write                                       *)

\* Another step of the same job.
LEMMA GotoWrites ==
  ASSUME TypeInv, NEW w \in Workers, Held(w), NEW pc, Goto(w, pc)
  PROVE  /\ worker'[w] = [worker[w] EXCEPT !.pc = pc]
         /\ worker'[w].pc = pc /\ worker'[w].job = worker[w].job
         /\ worker'[w].id = worker[w].id /\ worker'[w].row = worker[w].row
         /\ DOMAIN worker' = Workers /\ \A v \in Workers \ {w} : worker'[v] = worker[v]
<1>1. DOMAIN worker = Workers /\ worker[w] \in Loaded
  BY HeldTypes DEF TypeInv, TypeOK
<1>2. worker' = [worker EXCEPT ![w].pc = pc]
  BY DEF Goto
<1> QED
  BY <1>1, <1>2 DEF Loaded

\* A move of the other part of a live photo: worker[w] afterwards.
Other(w) == [worker[w] EXCEPT !.id = worker[w].row.live, !.row = rows[worker[w].row.live],
                              !.pc = "run"]
\* What handleMigrationSingle leaves of the handler once a part is moved.
LEMMA NextPartWrites ==
  ASSUME TypeInv, NEW w \in Workers, Held(w), NextPart(w)
  PROVE  \/ /\ worker[w].id = worker[w].job.id
            /\ worker[w].row.live # None
            /\ Exists(worker[w].row.live)
            /\ worker' = [worker EXCEPT ![w] = Other(w)]
         \/ Finish(w)
         \/ Goto(w, "done")
<1>1. worker[w] \in Loaded
  BY HeldTypes DEF TypeInv, TypeOK
<1>2. CASE Goto(w, "done") \/ Finish(w)
  BY <1>2
<1>3. CASE /\ worker[w].id = worker[w].job.id
           /\ worker[w].row.live # None
           /\ Exists(worker[w].row.live)
           /\ worker' = [worker EXCEPT ![w].id = worker[w].row.live,
                                       ![w].row = rows[worker[w].row.live], ![w].pc = "run"]
  BY <1>3 DEF Other
<1> QED
  BY <1>2, <1>3 DEF NextPart

\* The types of the workers after one of them has moved on.
LEMMA WorkersStay ==
  ASSUME TypeInv, NEW w \in Workers, NEW x \in Loaded \cup [pc: {"unlink"}, job: FileJob] \cup {Idle},
         worker' = [worker EXCEPT ![w] = x],
         x.pc \notin {"idle", "unlink"} => x.job.name # "files",
         x.pc \in {"live", "files"} => x.job.name = "deletion",
         x.pc = "live" => x.row.live # None
  PROVE  worker' \in [Workers -> Busy \cup {Idle}] /\ WorkersFine'
<1>1. worker \in [Workers -> Busy \cup {Idle}]
  BY DEF TypeInv, TypeOK
<1>2. x \in Busy \cup {Idle}
  BY DEF Loaded, Busy, FileJob, Job
<1>3. worker'[w] = x /\ \A v \in Workers \ {w} : worker'[v] = worker[v]
  BY <1>1
<1>4. x.pc = "unlink" => x.job.name = "files"
  BY DEF Loaded, FileJob, Idle
<1>5. WorkersFine'
  BY <1>3, <1>4 DEF WorkersFine, Held, TypeInv
<1> QED
  BY <1>1, <1>2, <1>5

-----------------------------------------------------------------------------
(* Every step keeps the types                                              *)

LEMMA CountTypes ==
  ASSUME TypeOK, NEW kind \in {"failed", "upload", "trashed", "restored", "deleted"}, NEW max,
         Count(kind, max)
  PROVE  faults' \in [{"failed", "upload", "trashed", "restored", "deleted"} -> Nat]
BY DEF TypeOK, Count

LEMMA NewRowTypes ==
  ASSUME NEW a \in Assets, NEW live \in Assets \cup {None}, NEW visible \in BOOLEAN
  PROVE  NewRow(a, live, visible) \in Row
BY DEF NewRow, Row, Path

LEMMA RowEdits ==
  ASSUME NEW row \in Row
  PROVE  /\ [row EXCEPT !.exif = TRUE] \in Row
         /\ [row EXCEPT !.jpeg = TRUE] \in Row
         /\ [row EXCEPT !.webp = TRUE] \in Row
         /\ \A t \in BOOLEAN : [row EXCEPT !.trashed = t] \in Row
         /\ \A p \in Path : [row EXCEPT !.original = p] \in Row
         /\ [row EXCEPT !.live = None] \in Row
BY DEF Row

LEMMA InitTypes == Init => TypeInv
<1> SUFFICES ASSUME Init PROVE TypeInv
  OBVIOUS
<1>1. IsABag(jobs) /\ BagToSet(jobs) = {}
  BY DEF Init, EmptyBag, SetToBag, IsABag, BagToSet
<1>2. WorkersFine
  BY DEF Init, WorkersFine, Held, Idle
<1>3. MotionFine
  BY DEF Init, MotionFine
<1>4. \A a \in Stored : StoredRow(a) \in Row
  BY StoredIsInPlace, UploadsAreAssets DEF StoredRow, Row, Path
<1>5. rows \in [Assets -> Row \cup {None}]
  BY <1>4 DEF Init
<1>6. disk \in [Path -> Assets \cup {None}]
  BY StoredIsInPlace, UploadsAreAssets DEF Init
<1>7. TypeOK
  BY <1>1, <1>5, <1>6 DEF Init, TypeOK, RequestStates
<1> QED
  BY <1>2, <1>3, <1>7 DEF TypeInv

LEMMA UploadKeepsTypes ==
  ASSUME TypeInv, NEW u \in Stills, UploadFile(u) \/ FailUpload(u) \/ FailCleanUp(u)
  PROVE  TypeInv'
<1> USE DEF TypeInv, TypeOK
<1>0. u \in Assets /\ MotionOf[u] \in Assets \cup {None} /\ Parts(u) \subseteq Assets
  BY UploadsAreAssets DEF Parts
<1>w. worker' = worker => WorkersFine'
  BY DEF WorkersFine, Held
<1>1. CASE Receive(u)
  <2>1. \A p \in Path : p \in {Upload(a) : a \in Parts(u)} => p[2] \in Assets
    BY <1>0 DEF Upload
  <2>2. disk' \in [Path -> Assets \cup {None}]
    BY <1>1, <2>1 DEF Receive
  <2>3. MotionFine' /\ request' \in [Stills -> RequestStates]
    BY <1>1 DEF Receive, MotionFine, RequestStates
  <2> QED
    BY <1>1, <1>w, <2>2, <2>3 DEF Receive
<1>2. CASE CreateMotion(u)
  <2>1. MotionOf[u] \in Assets
    BY <1>0, <1>2 DEF CreateMotion, MotionFine
  <2>2. rows' \in [Assets -> Row \cup {None}]
    <3>1. NewRow(MotionOf[u], None, FALSE) \in Row
      BY <2>1, NewRowTypes
    <3> QED
      BY <1>2, <2>1, <3>1 DEF CreateMotion, Insert
  <2>3. request' \in [Stills -> RequestStates] /\ MotionFine'
    BY <1>2 DEF CreateMotion, Insert, RequestStates, MotionFine
  <2> QED
    BY <1>2, <1>w, <2>2, <2>3 DEF CreateMotion, Insert
<1>3. CASE CreateStill(u)
  <2>2. rows' \in [Assets -> Row \cup {None}]
    <3>1. NewRow(u, MotionOf[u], TRUE) \in Row
      BY <1>0, NewRowTypes
    <3> QED
      BY <1>0, <1>3, <3>1 DEF CreateStill, Insert
  <2>3. request' \in [Stills -> RequestStates] /\ MotionFine'
    BY <1>3 DEF CreateStill, Insert, RequestStates, MotionFine
  <2> QED
    BY <1>3, <1>w, <2>2, <2>3 DEF CreateStill, Insert
<1>4. CASE QueueMotion(u)
  <2>1. MotionOf[u] \in Assets
    BY <1>0, <1>4 DEF QueueMotion, MotionFine
  <2>2. {ChainJob("metadata", MotionOf[u], TRUE)} \in SUBSET Job
    BY <2>1, JobsMade DEF ChainJobs
  <2>3. IsABag(jobs)' /\ (BagToSet(jobs) \subseteq Job)'
    BY <1>4, <2>2, Queued DEF QueueMotion
  <2>4. request' \in [Stills -> RequestStates] /\ MotionFine'
    BY <1>4 DEF QueueMotion, RequestStates, MotionFine
  <2> QED
    BY <1>4, <1>w, <2>3, <2>4 DEF QueueMotion
<1>5. CASE QueueStill(u)
  <2>2. {ChainJob("metadata", u, TRUE)} \in SUBSET Job
    BY <1>0, JobsMade DEF ChainJobs
  <2>3. IsABag(jobs)' /\ (BagToSet(jobs) \subseteq Job)'
    BY <1>5, <2>2, Queued DEF QueueStill
  <2>4. request' \in [Stills -> RequestStates] /\ MotionFine'
    BY <1>5 DEF QueueStill, RequestStates, MotionFine
  <2> QED
    BY <1>5, <1>w, <2>3, <2>4 DEF QueueStill
<1>6. CASE CleanUp(u)
  <2>1. Uploaded(u) \in SUBSET Path /\ Recorded(u) \in SUBSET Path
    BY FilesArePaths DEF Uploaded, Recorded
  <2>2. {DeleteFiles(Uploaded(u))} \in SUBSET Job
    BY <2>1, JobsMade
  <2>3. IsABag(jobs)' /\ (BagToSet(jobs) \subseteq Job)'
    BY <1>6, <2>2, Queued DEF CleanUp
  <2>4. request' \in [Stills -> RequestStates] /\ MotionFine'
    BY <1>6 DEF CleanUp, RequestStates, MotionFine
  <2> QED
    BY <1>6, <1>w, <2>1, <2>3, <2>4 DEF CleanUp
<1>7. CASE AnswerDuplicate(u)
  <2>4. request' \in [Stills -> RequestStates] /\ MotionFine'
    BY <1>7 DEF AnswerDuplicate, RequestStates, MotionFine
  <2> QED
    BY <1>7, <1>w, <2>4 DEF AnswerDuplicate
<1>8. CASE FailUpload(u)
  <2>1. request' \in [Stills -> RequestStates] /\ MotionFine'
    BY <1>8 DEF FailUpload, RequestStates, MotionFine
  <2> QED
    BY <1>8, <1>w, <2>1, CountTypes DEF FailUpload
<1>9. CASE FailCleanUp(u)
  <2>1. request' \in [Stills -> RequestStates] /\ MotionFine'
    BY <1>9 DEF FailCleanUp, RequestStates, MotionFine
  <2> QED
    BY <1>0, <1>9, <1>w, <2>1, CountTypes DEF FailCleanUp
<1> QED
  BY <1>1, <1>2, <1>3, <1>4, <1>5, <1>6, <1>7, <1>8, <1>9 DEF UploadFile

\* What is left of the types once those of the workers are known.
LEMMA TypesBut ==
  ASSUME TypeInv, worker' \in [Workers -> Busy \cup {Idle}], WorkersFine',
         rows' \in [Assets -> Row \cup {None}], disk' \in [Path -> Assets \cup {None}],
         IsABag(jobs)', (BagToSet(jobs) \subseteq Job)',
         UNCHANGED <<request, emptied, unwanted>>, history' \in Histories,
         faults' \in [{"failed", "upload", "trashed", "restored", "deleted"} -> Nat]
  PROVE  TypeInv'
BY DEF TypeInv, TypeOK, MotionFine, Histories

LEMMA FinishKeepsTypes ==
  ASSUME TypeInv, NEW w \in Workers, Finish(w)
  PROVE  worker' \in [Workers -> Busy \cup {Idle}] /\ WorkersFine'
BY WorkersStay DEF Finish, Idle

LEMMA GotoKeepsTypes ==
  ASSUME TypeInv, NEW w \in Workers, Held(w), NEW pc \in {"run", "save", "live", "files", "done"},
         Goto(w, pc), pc \in {"live", "files"} => worker[w].job.name = "deletion",
         pc = "live" => worker[w].row.live # None
  PROVE  worker' \in [Workers -> Busy \cup {Idle}] /\ WorkersFine'
<1> DEFINE x == [worker[w] EXCEPT !.pc = pc]
<1>1. worker[w] \in Loaded /\ worker[w].job.name # "files"
  BY HeldTypes DEF ChainJobs
<1>2. x \in Loaded /\ x.pc = pc /\ x.job = worker[w].job /\ x.row = worker[w].row
  BY <1>1 DEF Loaded
<1>3. worker' = [worker EXCEPT ![w] = x]
  BY DEF Goto
<1> HIDE DEF x
<1> QED
  BY <1>1, <1>2, <1>3, WorkersStay

LEMMA NextPartKeepsTypes ==
  ASSUME TypeInv, NEW w \in Workers, Held(w), NextPart(w)
  PROVE  worker' \in [Workers -> Busy \cup {Idle}] /\ WorkersFine'
<1>1. worker[w] \in Loaded /\ worker[w].job.name # "files"
  BY HeldTypes DEF ChainJobs
<1>2. CASE Finish(w)
  BY <1>2, FinishKeepsTypes
<1>3. CASE Goto(w, "done")
  BY <1>3, GotoKeepsTypes
<1>4. CASE /\ worker[w].row.live # None
           /\ Exists(worker[w].row.live)
           /\ worker' = [worker EXCEPT ![w] = Other(w)]
  <2>1. worker[w].row.live \in Assets
    BY <1>1, <1>4 DEF Loaded, Row
  <2>2. rows[worker[w].row.live] \in Row
    BY <1>4, <2>1 DEF Exists, TypeInv, TypeOK
  <2>3. Other(w) \in Loaded /\ Other(w).pc = "run" /\ Other(w).job = worker[w].job
    BY <1>1, <2>1, <2>2 DEF Other, Loaded
  <2> QED
    BY <1>1, <1>4, <2>3, WorkersStay
<1> QED
  BY <1>2, <1>3, <1>4, NextPartWrites

LEMMA HandlerKeepsTypes ==
  ASSUME TypeInv, NEW w \in Workers, Handle(w) \/ Throw(w) \/ FailUnlink(w)
  PROVE  TypeInv'
<1> DEFINE FaultTypes == [{"failed", "upload", "trashed", "restored", "deleted"} -> Nat]
<1>t. TypeOK
  BY DEF TypeInv
<1>y. /\ history \in Histories
      /\ \A set \in SUBSET Assets : Abandon(set) => history' \in Histories
      /\ \A files : files \subseteq Path => OwnersOf(files) \in SUBSET Assets
  BY <1>t DEF TypeOK, Histories, Abandon, OwnersOf
<1>k. Held(w) => worker[w] \in Loaded /\ worker[w].job.name # "files"
  BY HeldTypes DEF ChainJobs
<1>h. \A name \in ChainJobs \cup {"deletion"} :
        Handles(w, name) => Held(w) /\ worker[w].job.name = name
  BY HeldTypes DEF Handles, FileJob, ChainJobs
<1>1. CASE Take(w)
  <2>1. PICK job \in BagToSet(jobs) :
          /\ jobs' = jobs (-) SetToBag({job})
          /\ worker' = [worker EXCEPT ![w] =
               IF job.name = "files" THEN [pc |-> "unlink", job |-> job]
               ELSE IF Exists(job.id)
                    THEN [pc |-> "run", job |-> job, id |-> job.id, row |-> rows[job.id]]
                    ELSE Idle]
    BY <1>1 DEF Take
  <2>2. job \in Job
    BY <1>t DEF TypeOK
  <2>3. IsABag(jobs)' /\ (BagToSet(jobs) \subseteq Job)'
    BY <1>t, <2>1, Taken DEF TypeOK
  <2>4. worker' \in [Workers -> Busy \cup {Idle}] /\ WorkersFine'
    <3>1. CASE job.name = "files"
      <4>1. [pc |-> "unlink", job |-> job] \in [pc: {"unlink"}, job: FileJob]
        BY <2>2, <3>1, JobKinds
      <4> QED
        BY <2>1, <3>1, <4>1, WorkersStay
    <3>2. CASE job.name # "files" /\ Exists(job.id)
      <4>1. job.id \in Assets /\ rows[job.id] \in Row
        BY <1>t, <2>2, <3>2, JobKinds DEF Exists, TypeOK
      <4>2. [pc |-> "run", job |-> job, id |-> job.id, row |-> rows[job.id]] \in Loaded
        BY <2>2, <4>1 DEF Loaded
      <4> QED
        BY <2>1, <3>2, <4>2, WorkersStay
    <3>3. CASE job.name # "files" /\ ~Exists(job.id)
      BY <2>1, <3>3, FinishKeepsTypes DEF Finish
    <3> QED
      BY <3>1, <3>2, <3>3
  <2> QED
    BY <1>1, <1>t, <1>y, <2>3, <2>4, TypesBut DEF Take, TypeOK
<1>2. CASE ExtractMetadata(w)
  <2>1. Held(w) /\ worker[w].id \in Assets
    BY <1>2, <1>h, <1>k DEF ExtractMetadata, ChainJobs, Loaded
  <2>2. CASE Save(w, worker[w].id, [rows[worker[w].id] EXCEPT !.exif = TRUE]) /\ Exists(worker[w].id)
    <3>1. [rows[worker[w].id] EXCEPT !.exif = TRUE] \in Row
      BY <1>t, <2>1, <2>2, RowEdits DEF Exists, TypeOK
    <3>2. rows' \in [Assets -> Row \cup {None}]
      BY <1>t, <2>2, <3>1 DEF Save, TypeOK
    <3>3. worker' \in [Workers -> Busy \cup {Idle}] /\ WorkersFine'
      BY <2>1, <2>2, GotoKeepsTypes DEF Save
    <3> QED
      BY <1>2, <1>t, <1>y, <3>2, <3>3, TypesBut DEF ExtractMetadata, TypeOK
  <2>3. CASE Finish(w) /\ rows' = rows
    BY <1>2, <1>t, <1>y, <2>3, FinishKeepsTypes, TypesBut DEF ExtractMetadata, TypeOK
  <2> QED
    BY <1>2, <2>2, <2>3 DEF ExtractMetadata
<1>3. CASE LinkLivePhoto(w)
  <2>1. Held(w)
    BY <1>3, <1>h DEF LinkLivePhoto, ChainJobs
  <2>2. worker' \in [Workers -> Busy \cup {Idle}] /\ WorkersFine'
    BY <1>3, <2>1, GotoKeepsTypes, FinishKeepsTypes DEF LinkLivePhoto
  <2> QED
    BY <1>3, <1>t, <1>y, <2>2, TypesBut DEF LinkLivePhoto, TypeOK
<1>4. CASE RenameOriginal(w)
  <2>1. Held(w) /\ worker[w] \in Loaded /\ worker[w].job.name = "move"
    BY <1>4, <1>h, <1>k DEF RenameOriginal, ChainJobs
  <2>2. CASE NextPart(w) /\ disk' = disk
    BY <1>4, <1>t, <1>y, <2>1, <2>2, NextPartKeepsTypes, TypesBut DEF RenameOriginal, TypeOK
  <2>3. CASE /\ FreeSlot # {}
             /\ disk' = [disk EXCEPT ![TemplatePath] = disk[worker[w].row.original],
                                     ![worker[w].row.original] = None]
             /\ worker' = [worker EXCEPT ![w].pc = "save", ![w].row.original = TemplatePath]
    <3>1. TemplatePath \in Path /\ worker[w].row.original \in Path
      BY <2>1, <2>3, SlotIsFree DEF Path, Loaded, Row
    <3>2. disk' \in [Path -> Assets \cup {None}]
      BY <1>t, <2>3, <3>1 DEF TypeOK
    <3> DEFINE x == [worker[w] EXCEPT !.pc = "save", !.row = [@ EXCEPT !.original = TemplatePath]]
    <3>3. x \in Loaded /\ x.pc = "save" /\ x.job = worker[w].job
      BY <2>1, <3>1, RowEdits DEF Loaded
    <3>4. worker' = [worker EXCEPT ![w] = x]
      BY <2>3
    <3> HIDE DEF x
    <3>5. worker' \in [Workers -> Busy \cup {Idle}] /\ WorkersFine'
      BY <2>1, <3>3, <3>4, WorkersStay
    <3> QED
      BY <1>4, <1>t, <1>y, <3>2, <3>5, TypesBut DEF RenameOriginal, TypeOK
  <2> QED
    BY <1>4, <2>2, <2>3 DEF RenameOriginal
<1>5. CASE SaveOriginalPath(w)
  <2>1. Held(w) /\ worker[w] \in Loaded
    BY <1>5, <1>h, <1>k DEF SaveOriginalPath, Moving, ChainJobs
  <2>2. rows' \in [Assets -> Row \cup {None}]
    <3>1. CASE ~Exists(worker[w].id)
      BY <1>5, <1>t, <3>1 DEF SaveOriginalPath, TypeOK
    <3>2. CASE Exists(worker[w].id)
      <4>1. worker[w].id \in Assets /\ worker[w].row.original \in Path
        BY <2>1 DEF Loaded, Row
      <4>2. [rows[worker[w].id] EXCEPT !.original = worker[w].row.original] \in Row
        BY <1>t, <3>2, <4>1, RowEdits DEF Exists, TypeOK
      <4>3. rows' = [rows EXCEPT ![worker[w].id] =
                       [rows[worker[w].id] EXCEPT !.original = worker[w].row.original]]
        BY <1>5, <3>2 DEF SaveOriginalPath
      <4> QED
        BY <1>t, <4>1, <4>2, <4>3 DEF TypeOK
    <3> QED
      BY <3>1, <3>2
  <2> QED
    BY <1>5, <1>t, <1>y, <2>1, <2>2, NextPartKeepsTypes, TypesBut DEF SaveOriginalPath, TypeOK
<1>6. CASE WriteThumbnail(w)
  <2>1. Held(w) /\ worker[w].id \in Assets
    BY <1>6, <1>h, <1>k DEF WriteThumbnail, ChainJobs, Loaded
  <2>2. disk' \in [Path -> Assets \cup {None}]
    BY <1>6, <1>t, <2>1 DEF WriteThumbnail, TypeOK
  <2>3. worker' \in [Workers -> Busy \cup {Idle}] /\ WorkersFine'
    BY <1>6, <2>1, GotoKeepsTypes, FinishKeepsTypes DEF WriteThumbnail
  <2> QED
    BY <1>6, <1>t, <1>y, <2>2, <2>3, TypesBut DEF WriteThumbnail, TypeOK
<1>7. CASE SaveThumbnail(w)
  <2>1. Held(w) /\ worker[w].id \in Assets
    BY <1>7, <1>h, <1>k DEF SaveThumbnail, ChainJobs, Loaded
  <2>2. CASE Finish(w) /\ rows' = rows
    BY <1>7, <1>t, <1>y, <2>2, FinishKeepsTypes, TypesBut DEF SaveThumbnail, TypeOK
  <2>3. ASSUME Exists(worker[w].id), NEW row, Save(w, worker[w].id, row),
               row \in {[rows[worker[w].id] EXCEPT !.jpeg = TRUE],
                        [rows[worker[w].id] EXCEPT !.webp = TRUE]}
        PROVE  TypeInv'
    <3>0. rows[worker[w].id] \in Row
      BY <1>t, <2>1, <2>3 DEF Exists, TypeOK
    <3>1. row \in Row
      BY <2>3, <3>0, RowEdits
    <3>2. rows' \in [Assets -> Row \cup {None}]
      BY <1>t, <2>3, <3>1 DEF Save, TypeOK
    <3>3. worker' \in [Workers -> Busy \cup {Idle}] /\ WorkersFine'
      BY <2>1, <2>3, GotoKeepsTypes DEF Save
    <3> QED
      BY <1>7, <1>t, <1>y, <3>2, <3>3, TypesBut DEF SaveThumbnail, TypeOK
  <2> QED
    BY <1>7, <2>2, <2>3 DEF SaveThumbnail
<1>8. CASE OnDone(w)
  <2>1. Held(w) /\ worker[w].job \in Job
    BY <1>8, <1>k DEF OnDone, Held, Loaded
  <2>2. FollowUp(worker[w].job) \in SUBSET Job
    <3>1. CASE worker[w].job.name \in ChainJobs
      <4>1. worker[w].job \in [name: ChainJobs, id: Assets, upload: BOOLEAN]
        BY <2>1, <3>1, JobKinds
      <4>2. \A name \in ChainJobs : [worker[w].job EXCEPT !.name = name] \in Job
        BY <4>1 DEF Job
      <4> QED
        BY <4>2 DEF FollowUp, ChainJobs
    <3>2. CASE worker[w].job.name \notin ChainJobs
      BY <3>2 DEF FollowUp, ChainJobs
    <3> QED
      BY <3>1, <3>2
  <2>3. IsABag(jobs)' /\ (BagToSet(jobs) \subseteq Job)'
    BY <1>8, <1>t, <2>2, Queued DEF OnDone, TypeOK
  <2>4. worker' \in [Workers -> Busy \cup {Idle}] /\ WorkersFine'
    BY <1>8, FinishKeepsTypes DEF OnDone
  <2> QED
    BY <1>8, <1>t, <1>y, <2>3, <2>4, TypesBut DEF OnDone, TypeOK
<1>9. CASE RemoveRow(w)
  <2>1. Held(w) /\ worker[w].job.name = "deletion"
    BY <1>9, <1>h DEF RemoveRow
  <2>2. \A b \in Assets : Exists(b) => [rows[b] EXCEPT !.live = None] \in Row /\ rows[b] \in Row
    BY <1>t, RowEdits DEF Exists, TypeOK
  <2>3. rows' \in [Assets -> Row \cup {None}]
    BY <1>9, <1>t, <2>2 DEF RemoveRow, TypeOK
  <2>4. worker' \in [Workers -> Busy \cup {Idle}] /\ WorkersFine'
    BY <1>9, <2>1, GotoKeepsTypes DEF RemoveRow
  <2>5. worker[w].id \in Assets /\ worker[w].row.original \in Path
    BY <1>k, <2>1 DEF Loaded, Row
  <2>6. history' \in Histories
    BY <1>9, <1>y, <2>5 DEF RemoveRow, Histories
  <2> QED
    BY <1>9, <1>t, <2>3, <2>4, <2>6, TypesBut DEF RemoveRow, TypeOK
<1>10. CASE QueueLiveDeletion(w)
  <2>1. Held(w) /\ worker[w] \in Loaded /\ worker[w].job.name = "deletion" /\ worker[w].row.live # None
    BY <1>10, <1>h, <1>k DEF QueueLiveDeletion, TypeInv, WorkersFine
  <2>2. {Deletion(worker[w].row.live)} \in SUBSET Job
    BY <2>1, JobsMade DEF Loaded, Row
  <2>3. IsABag(jobs)' /\ (BagToSet(jobs) \subseteq Job)'
    BY <1>10, <1>t, <2>2, Queued DEF QueueLiveDeletion, TypeOK
  <2>4. worker' \in [Workers -> Busy \cup {Idle}] /\ WorkersFine'
    BY <1>10, <2>1, GotoKeepsTypes DEF QueueLiveDeletion
  <2> QED
    BY <1>10, <1>t, <1>y, <2>3, <2>4, TypesBut DEF QueueLiveDeletion, TypeOK
<1>11. CASE QueueFileDeletion(w)
  <2>1. worker[w] \in Loaded
    BY <1>11, <1>h, <1>k DEF QueueFileDeletion
  <2>2. {DeleteFiles(FilesOf(worker[w].id, worker[w].row))} \in SUBSET Job
    BY <2>1, FilesArePaths, JobsMade DEF Loaded
  <2>3. IsABag(jobs)' /\ (BagToSet(jobs) \subseteq Job)'
    BY <1>11, <1>t, <2>2, Queued DEF QueueFileDeletion, TypeOK
  <2>4. worker' \in [Workers -> Busy \cup {Idle}] /\ WorkersFine'
    BY <1>11, FinishKeepsTypes DEF QueueFileDeletion
  <2> QED
    BY <1>11, <1>t, <1>y, <2>3, <2>4, TypesBut DEF QueueFileDeletion, TypeOK
<1>12. CASE Unlink(w) \/ FailUnlink(w)
  <2>1. worker[w] \in [pc: {"unlink"}, job: Job] /\ worker[w].job \in FileJob
    BY <1>12, HeldTypes DEF Unlink, FailUnlink
  <2>2. ASSUME NEW p \in worker[w].job.files, NextFile(w, p)
        PROVE  worker' \in [Workers -> Busy \cup {Idle}] /\ WorkersFine'
    <3>1. CASE Finish(w)
      BY <3>1, FinishKeepsTypes
    <3>2. CASE worker' = [worker EXCEPT ![w].job.files = @ \ {p}]
      <4> DEFINE job == [worker[w].job EXCEPT !.files = worker[w].job.files \ {p}]
                 x == [worker[w] EXCEPT !.job = job]
      <4>1. job \in FileJob /\ job \in Job
        BY <2>1 DEF FileJob, Job
      <4>2. x \in [pc: {"unlink"}, job: FileJob] /\ x.pc = "unlink"
        BY <2>1, <4>1
      <4>3. worker' = [worker EXCEPT ![w] = x]
        BY <3>2
      <4> HIDE DEF x
      <4> QED
        BY <4>2, <4>3, WorkersStay
    <3> QED
      BY <2>2, <3>1, <3>2 DEF NextFile
  <2>3. CASE Unlink(w)
    <3>1. PICK p \in worker[w].job.files : disk' = [disk EXCEPT ![p] = None] /\ NextFile(w, p)
      BY <2>3 DEF Unlink
    <3>2. disk' \in [Path -> Assets \cup {None}]
      BY <1>t, <3>1 DEF TypeOK
    <3>3. worker' \in [Workers -> Busy \cup {Idle}] /\ WorkersFine'
      BY <2>2, <3>1
    <3> QED
      BY <2>3, <1>t, <1>y, <3>2, <3>3, TypesBut DEF Unlink, TypeOK
  <2>4. CASE FailUnlink(w)
    <3>1. PICK p \in worker[w].job.files : Abandon(OwnersOf({p})) /\ NextFile(w, p)
      BY <2>4 DEF FailUnlink
    <3>2. history' \in Histories
      BY <1>y, <2>1, <3>1 DEF FileJob
    <3>3. worker' \in [Workers -> Busy \cup {Idle}] /\ WorkersFine'
      BY <2>2, <3>1
    <3>4. faults' \in FaultTypes
      BY <2>4, <1>t, CountTypes DEF FailUnlink
    <3> QED
      BY <2>4, <1>t, <3>2, <3>3, <3>4, TypesBut DEF FailUnlink, TypeOK
  <2> QED
    BY <1>12, <2>3, <2>4
<1>13. CASE Throw(w)
  <2>1. faults' \in FaultTypes
    BY <1>13, <1>t, CountTypes DEF Throw
  <2>2. InHand(w) \subseteq Path
    BY HandIsPaths
  <2>3. history' \in Histories
    BY <1>13, <1>y, <2>2 DEF Throw
  <2> QED
    BY <1>13, <1>t, <2>1, <2>3, FinishKeepsTypes, TypesBut DEF Throw, TypeOK
<1> QED
  BY <1>1, <1>2, <1>3, <1>4, <1>5, <1>6, <1>7, <1>8, <1>9, <1>10, <1>11, <1>12, <1>13 DEF Handle

LEMMA OwnerKeepsTypes ==
  ASSUME TypeInv, (\E a \in Assets : Trash(a) \/ Restore(a) \/ ForceDelete(a)) \/ FindTrashed \/ EmptyTrash \/ QueueMissing
  PROVE  TypeInv'
<1> USE DEF TypeInv, TypeOK
<1>w. worker' = worker /\ request' = request => WorkersFine' /\ MotionFine'
  BY DEF WorkersFine, Held, MotionFine
<1>1. ASSUME NEW a \in Assets, Trash(a) \/ Restore(a) PROVE TypeInv'
  <2>1. PICK t \in BOOLEAN : rows' = [rows EXCEPT ![a].trashed = t]
    BY <1>1 DEF Trash, Restore
  <2>2. [rows[a] EXCEPT !.trashed = t] \in Row
    BY <1>1, RowEdits DEF Trash, Restore, Owned, Exists
  <2>3. rows' \in [Assets -> Row \cup {None}]
    BY <2>1, <2>2
  <2>4. history' \in [overtaken: SUBSET Stills, contested: SUBSET Path, abandoned: SUBSET Assets]
    <3>1. CASE Trash(a)
      BY <3>1 DEF Trash
    <3>2. CASE Restore(a)
      BY <3>2 DEF Restore, Owned
    <3> QED
      BY <1>1, <3>1, <3>2
  <2>5. unwanted' \subseteq Assets
    BY <1>1 DEF Trash, Restore
  <2>6. faults' \in [{"failed", "upload", "trashed", "restored", "deleted"} -> Nat]
    BY <1>1, CountTypes DEF Trash, Restore
  <2> QED
    BY <1>1, <1>w, <2>3, <2>4, <2>5, <2>6 DEF Trash, Restore
<1>2. ASSUME NEW a \in Assets, ForceDelete(a) PROVE TypeInv'
  <2>1. {Deletion(a)} \in SUBSET Job
    BY JobsMade
  <2> QED
    BY <1>2, <1>w, <2>1, Queued, CountTypes DEF ForceDelete
<1>3. CASE EmptyTrash
  <2>1. {Deletion(a) : a \in emptied} \in SUBSET Job
    BY JobsMade
  <2> QED
    BY <1>3, <1>w, <2>1, Queued DEF EmptyTrash
<1>4. CASE QueueMissing
  <2>1. Missing \ BagToSet(jobs) \in SUBSET Job
    BY JobsMade DEF Missing, ChainJobs
  <2> QED
    BY <1>4, <1>w, <2>1, Queued DEF QueueMissing
<1>5. CASE FindTrashed
  BY <1>5, <1>w, CountTypes DEF FindTrashed
<1> QED
  BY <1>1, <1>2, <1>3, <1>4, <1>5

LEMMA NextKeepsTypes == TypeInv /\ [Next]_vars => TypeInv'
<1> SUFFICES ASSUME TypeInv, [Next]_vars PROVE TypeInv'
  OBVIOUS
<1>1. CASE UNCHANGED vars
  BY <1>1 DEF vars, TypeInv, TypeOK, WorkersFine, Held, MotionFine
<1>2. CASE Next
  BY <1>2, UploadKeepsTypes, HandlerKeepsTypes, OwnerKeepsTypes DEF Next
<1> QED
  BY <1>1, <1>2

\* The state stays well typed: a deletion is queued only for what is a record,
\* a file deletion only for paths, and the handlers hold records they loaded.
THEOREM TypesAreKept == Spec => []TypeOK
<1>1. TypeInv => TypeOK
  BY DEF TypeInv
<1> QED
  BY <1>1, InitTypes, NextKeepsTypes, PTL DEF Spec

-----------------------------------------------------------------------------
(* What a step of a handler does to the records, the handlers and the bag  *)

\* The record is there as before, but for its references and its files.
SameRow(a) ==
  Exists(a)' => /\ Exists(a)
                /\ rows'[a].live \in {rows[a].live, None}
                /\ rows'[a].trashed = rows[a].trashed
                /\ rows'[a].checksum = rows[a].checksum

\* The handler is at the same job and the same asset, ...
SameHand(v) ==
  /\ Held(v)
  /\ worker'[v].job = worker[v].job
  /\ worker'[v].id = worker[v].id
  /\ worker'[v].row.live = worker[v].row.live

\* ... has just taken its job, ...
JustTaken(v) ==
  /\ worker'[v].job \in BagToSet(jobs)
  /\ worker'[v].id = worker'[v].job.id
  /\ Exists(worker'[v].id)
  /\ worker'[v].row = rows[worker'[v].id]
  /\ worker'[v].pc = "run"

\* ... or goes on with the other part of a live photo.
OtherPart(v) ==
  /\ Held(v) /\ worker[v].job.name = "move" /\ worker'[v].job = worker[v].job
  /\ worker'[v].id = worker[v].row.live /\ worker'[v].id \in Assets
  /\ Exists(worker'[v].id)
  /\ worker'[v].row = rows[worker'[v].id]
  /\ worker'[v].pc = "run"

HandFrame(v) == Held(v)' => SameHand(v) \/ JustTaken(v) \/ OtherPart(v)

\* No step but one asks for a deletion.
DeletionFrame(w) ==
  \A a : Deletion(a) \in BagToSet(jobs)' =>
    \/ Deletion(a) \in BagToSet(jobs)
    \/ Held(w) /\ worker[w].row.live = a /\ a # None

LEMMA SameRows == ASSUME rows' = rows PROVE \A a \in Assets : SameRow(a)
BY DEF SameRow, Exists

LEMMA SavedRows ==
  ASSUME TypeInv, NEW a \in Assets, Exists(a), NEW row,
         row.live = rows[a].live, row.trashed = rows[a].trashed, row.checksum = rows[a].checksum,
         rows' = [rows EXCEPT ![a] = row]
  PROVE  \A b \in Assets : SameRow(b)
BY DEF SameRow, Exists, TypeInv, TypeOK

LEMMA OthersHand ==
  ASSUME TypeInv, NEW w \in Workers, NEW x, worker' = [worker EXCEPT ![w] = x]
  PROVE  worker'[w] = x /\ \A v \in Workers \ {w} : worker'[v] = worker[v] /\ HandFrame(v)
BY DEF TypeInv, TypeOK, HandFrame, SameHand, Held

LEMMA FinishFrame ==
  ASSUME TypeInv, NEW w \in Workers, Finish(w)
  PROVE  \A v \in Workers : HandFrame(v)
<1>1. worker'[w] = Idle /\ \A v \in Workers \ {w} : HandFrame(v)
  BY OthersHand DEF Finish
<1> QED
  BY <1>1 DEF HandFrame, Held, Idle

LEMMA GotoFrame ==
  ASSUME TypeInv, NEW w \in Workers, Held(w), NEW pc, Goto(w, pc)
  PROVE  \A v \in Workers : HandFrame(v)
BY GotoWrites DEF HandFrame, SameHand, Held

LEMMA NextPartFrame ==
  ASSUME TypeInv, NEW w \in Workers, Held(w), worker[w].job.name = "move", NextPart(w)
  PROVE  \A v \in Workers : HandFrame(v)
<1>1. worker[w] \in Loaded
  BY HeldTypes
<1>2. CASE Finish(w)
  BY <1>2, FinishFrame
<1>3. CASE Goto(w, "done")
  BY <1>3, GotoFrame
<1>4. CASE /\ worker[w].row.live # None
           /\ Exists(worker[w].row.live)
           /\ worker' = [worker EXCEPT ![w] = Other(w)]
  <2>1. worker'[w] = Other(w) /\ \A v \in Workers \ {w} : HandFrame(v)
    BY <1>4, OthersHand
  <2>2. worker[w].row.live \in Assets
    BY <1>1, <1>4 DEF Loaded, Row
  <2>3. /\ Other(w).pc = "run" /\ Other(w).job = worker[w].job
        /\ Other(w).id = worker[w].row.live /\ Other(w).row = rows[worker[w].row.live]
    BY <1>1 DEF Other, Loaded
  <2>4. OtherPart(w)
    BY <1>4, <2>1, <2>2, <2>3 DEF OtherPart
  <2> QED
    BY <2>1, <2>4 DEF HandFrame
<1> QED
  BY <1>2, <1>3, <1>4, NextPartWrites

LEMMA HandlerFrame ==
  ASSUME TypeInv, NEW w \in Workers, Handle(w) \/ Throw(w) \/ FailUnlink(w)
  PROVE  /\ \A a \in Assets : SameRow(a)
         /\ \A v \in Workers : HandFrame(v)
         /\ DeletionFrame(w)
         /\ unwanted' = unwanted /\ request' = request /\ emptied' = emptied
         /\ history'.overtaken = history.overtaken
<1>t. TypeOK
  BY DEF TypeInv
<1>k. Held(w) => worker[w] \in Loaded /\ worker[w].job.name # "files"
  BY HeldTypes DEF ChainJobs
<1>h. \A name \in ChainJobs \cup {"deletion"} :
        Handles(w, name) => Held(w) /\ worker[w].job.name = name
  BY HeldTypes DEF Handles, FileJob, ChainJobs
<1>j. jobs' = jobs => DeletionFrame(w)
  BY DEF DeletionFrame
<1>o. /\ history' = history => history'.overtaken = history.overtaken
      /\ \A set : Abandon(set) => history'.overtaken = history.overtaken
  BY <1>t DEF TypeOK, Abandon
<1>q. ASSUME NEW set \in SUBSET Job, Queue(set), \A a : Deletion(a) \notin set
      PROVE  DeletionFrame(w)
  BY <1>t, <1>q, Queued DEF TypeOK, DeletionFrame
<1>1. CASE Take(w)
  <2>1. PICK job \in BagToSet(jobs) :
          /\ jobs' = jobs (-) SetToBag({job})
          /\ worker' = [worker EXCEPT ![w] =
               IF job.name = "files" THEN [pc |-> "unlink", job |-> job]
               ELSE IF Exists(job.id)
                    THEN [pc |-> "run", job |-> job, id |-> job.id, row |-> rows[job.id]]
                    ELSE Idle]
    BY <1>1 DEF Take
  <2>3. DeletionFrame(w)
    BY <1>t, <2>1, Taken DEF TypeOK, DeletionFrame
  <2> DEFINE x == IF job.name = "files" THEN [pc |-> "unlink", job |-> job]
                  ELSE IF Exists(job.id)
                       THEN [pc |-> "run", job |-> job, id |-> job.id, row |-> rows[job.id]]
                       ELSE Idle
  <2>4. worker'[w] = x /\ \A v \in Workers \ {w} : HandFrame(v)
    <3>1. worker' = [worker EXCEPT ![w] = x]
      BY <2>1
    <3> HIDE DEF x
    <3> QED
      BY <3>1, OthersHand
  <2>5. HandFrame(w)
    <3>1. CASE job.name = "files"
      BY <2>4, <3>1 DEF HandFrame, Held
    <3>2. CASE job.name # "files" /\ Exists(job.id)
      BY <2>4, <3>2 DEF HandFrame, JustTaken
    <3>3. CASE job.name # "files" /\ ~Exists(job.id)
      BY <2>4, <3>3 DEF HandFrame, Held, Idle
    <3> QED
      BY <3>1, <3>2, <3>3
  <2> HIDE DEF x
  <2> QED
    BY <1>1, <2>3, <2>4, <2>5, SameRows DEF Take
<1>2. CASE ExtractMetadata(w)
  <2>1. Held(w) /\ worker[w].id \in Assets
    BY <1>2, <1>h, <1>k DEF ExtractMetadata, ChainJobs, Loaded
  <2>2. CASE Save(w, worker[w].id, [rows[worker[w].id] EXCEPT !.exif = TRUE]) /\ Exists(worker[w].id)
    <3>0. rows[worker[w].id] \in Row
      BY <1>t, <2>1, <2>2 DEF Exists, TypeOK
    <3>1. \A a \in Assets : SameRow(a)
      BY <2>1, <2>2, <3>0, SavedRows DEF Save, Row
    <3> QED
      BY <1>2, <1>j, <2>1, <2>2, <3>1, GotoFrame DEF ExtractMetadata, Save
  <2>3. CASE Finish(w) /\ rows' = rows
    BY <1>2, <1>j, <2>3, FinishFrame, SameRows DEF ExtractMetadata
  <2> QED
    BY <1>2, <2>2, <2>3 DEF ExtractMetadata
<1>3. CASE LinkLivePhoto(w)
  <2>1. Held(w)
    BY <1>3, <1>h DEF LinkLivePhoto, ChainJobs
  <2> QED
    BY <1>3, <1>j, <2>1, GotoFrame, FinishFrame, SameRows DEF LinkLivePhoto
<1>4. CASE RenameOriginal(w)
  <2>1. Held(w) /\ worker[w] \in Loaded /\ worker[w].job.name = "move"
    BY <1>4, <1>h, <1>k DEF RenameOriginal, ChainJobs
  <2>2. CASE NextPart(w) /\ disk' = disk
    BY <1>4, <1>j, <2>1, <2>2, NextPartFrame, SameRows DEF RenameOriginal
  <2>3. CASE worker' = [worker EXCEPT ![w].pc = "save", ![w].row.original = TemplatePath]
    <3> DEFINE x == [worker[w] EXCEPT !.pc = "save",
                       !.row = [worker[w].row EXCEPT !.original = TemplatePath]]
    <3>1. x.job = worker[w].job /\ x.id = worker[w].id /\ x.row.live = worker[w].row.live
      BY <2>1 DEF Loaded, Row
    <3>2. worker' = [worker EXCEPT ![w] = x]
      BY <2>3
    <3> HIDE DEF x
    <3>3. \A v \in Workers : HandFrame(v)
      BY <2>1, <3>1, <3>2, OthersHand DEF HandFrame, SameHand
    <3> QED
      BY <1>4, <1>j, <3>3, SameRows DEF RenameOriginal
  <2> QED
    BY <1>4, <2>2, <2>3 DEF RenameOriginal
<1>5. CASE SaveOriginalPath(w)
  <2>1. Held(w) /\ worker[w] \in Loaded /\ worker[w].job.name = "move"
    BY <1>5, <1>h, <1>k DEF SaveOriginalPath, Moving, ChainJobs
  <2>2. \A a \in Assets : SameRow(a)
    <3>1. CASE ~Exists(worker[w].id)
      BY <1>5, <3>1, SameRows DEF SaveOriginalPath
    <3>2. CASE Exists(worker[w].id)
      <4>1. worker[w].id \in Assets /\ rows[worker[w].id] \in Row
        BY <1>t, <2>1, <3>2 DEF Loaded, Exists, TypeOK
      <4> DEFINE row == [rows[worker[w].id] EXCEPT !.original = worker[w].row.original]
      <4>2. rows' = [rows EXCEPT ![worker[w].id] = row]
        BY <1>5, <3>2 DEF SaveOriginalPath
      <4>3. /\ row.live = rows[worker[w].id].live
            /\ row.trashed = rows[worker[w].id].trashed
            /\ row.checksum = rows[worker[w].id].checksum
        BY <4>1 DEF Row
      <4> HIDE DEF row
      <4> QED
        BY <3>2, <4>1, <4>2, <4>3, SavedRows
    <3> QED
      BY <3>1, <3>2
  <2> QED
    BY <1>5, <1>j, <2>1, <2>2, NextPartFrame DEF SaveOriginalPath
<1>6. CASE WriteThumbnail(w)
  <2>1. Held(w)
    BY <1>6, <1>h DEF WriteThumbnail, ChainJobs
  <2> QED
    BY <1>6, <1>j, <2>1, GotoFrame, FinishFrame, SameRows DEF WriteThumbnail
<1>7. CASE SaveThumbnail(w)
  <2>1. Held(w) /\ worker[w].id \in Assets
    BY <1>7, <1>h, <1>k DEF SaveThumbnail, ChainJobs, Loaded
  <2>2. CASE Finish(w) /\ rows' = rows
    BY <1>7, <1>j, <2>2, FinishFrame, SameRows DEF SaveThumbnail
  <2>3. ASSUME Exists(worker[w].id), NEW row, Save(w, worker[w].id, row),
               row \in {[rows[worker[w].id] EXCEPT !.jpeg = TRUE],
                        [rows[worker[w].id] EXCEPT !.webp = TRUE]}
        PROVE  (\A a \in Assets : SameRow(a)) /\ (\A v \in Workers : HandFrame(v))
    <3>0. rows[worker[w].id] \in Row
      BY <1>t, <2>1, <2>3 DEF Exists, TypeOK
    <3>1. /\ row.live = rows[worker[w].id].live
          /\ row.trashed = rows[worker[w].id].trashed
          /\ row.checksum = rows[worker[w].id].checksum
      BY <2>3, <3>0 DEF Row
    <3>2. \A a \in Assets : SameRow(a)
      BY <2>1, <2>3, <3>1, SavedRows DEF Save
    <3> QED
      BY <2>1, <2>3, <3>2, GotoFrame DEF Save
  <2> QED
    BY <1>7, <1>j, <2>2, <2>3 DEF SaveThumbnail
<1>8. CASE OnDone(w)
  <2>1. Held(w) /\ worker[w].job \in Job
    BY <1>8, <1>k DEF OnDone, Held, Loaded
  <2>2. FollowUp(worker[w].job) \in SUBSET Job /\ \A a : Deletion(a) \notin FollowUp(worker[w].job)
    <3>1. CASE worker[w].job.name \in ChainJobs
      <4>1. worker[w].job \in [name: ChainJobs, id: Assets, upload: BOOLEAN]
        BY <2>1, <3>1, JobKinds
      <4>2. \A name \in ChainJobs : LET j == [worker[w].job EXCEPT !.name = name]
              IN j \in Job /\ j.name \in ChainJobs
        BY <4>1 DEF Job
      <4> QED
        BY <4>2 DEF FollowUp, ChainJobs, Deletion
    <3>2. CASE worker[w].job.name \notin ChainJobs
      BY <3>2 DEF FollowUp, ChainJobs
    <3> QED
      BY <3>1, <3>2
  <2> QED
    BY <1>8, <1>q, <2>2, FinishFrame, SameRows DEF OnDone
<1>9. CASE RemoveRow(w)
  <2>1. Held(w)
    BY <1>9, <1>h DEF RemoveRow
  <2>2. \A b \in Assets : Exists(b) => rows[b] \in Row
    BY <1>t DEF Exists, TypeOK
  <2>3. \A a \in Assets : SameRow(a)
    BY <1>9, <2>2 DEF RemoveRow, SameRow, Exists, Row
  <2>4. history'.overtaken = history.overtaken
    BY <1>9, <1>t DEF RemoveRow, TypeOK
  <2> QED
    BY <1>9, <1>j, <2>1, <2>3, <2>4, GotoFrame DEF RemoveRow
<1>10. CASE QueueLiveDeletion(w)
  <2>1. Held(w) /\ worker[w] \in Loaded /\ worker[w].row.live # None
    BY <1>10, <1>h, <1>k DEF QueueLiveDeletion, TypeInv, WorkersFine
  <2>2. {Deletion(worker[w].row.live)} \in SUBSET Job
    BY <2>1, JobsMade DEF Loaded, Row
  <2>3. BagToSet(jobs)' = BagToSet(jobs) \cup {Deletion(worker[w].row.live)}
    BY <1>10, <1>t, <2>2, Queued DEF QueueLiveDeletion, TypeOK
  <2>4. DeletionFrame(w)
    BY <2>1, <2>3 DEF DeletionFrame, Deletion
  <2> QED
    BY <1>10, <2>1, <2>4, GotoFrame, SameRows DEF QueueLiveDeletion
<1>11. CASE QueueFileDeletion(w)
  <2>1. worker[w] \in Loaded
    BY <1>11, <1>h, <1>k DEF QueueFileDeletion
  <2>2. {DeleteFiles(FilesOf(worker[w].id, worker[w].row))} \in SUBSET Job
    BY <2>1, FilesArePaths, JobsMade DEF Loaded
  <2>3. \A a : Deletion(a) \notin {DeleteFiles(FilesOf(worker[w].id, worker[w].row))}
    BY DEF Deletion, DeleteFiles
  <2> QED
    BY <1>11, <1>q, <2>2, <2>3, FinishFrame, SameRows DEF QueueFileDeletion
<1>12. CASE Unlink(w) \/ FailUnlink(w)
  <2>1. worker[w] \in [pc: {"unlink"}, job: Job]
    BY <1>12, HeldTypes DEF Unlink, FailUnlink
  <2>2. \A v \in Workers : HandFrame(v)
    <3>1. CASE Finish(w)
      BY <3>1, FinishFrame
    <3>2. ASSUME NEW p, worker' = [worker EXCEPT ![w].job.files = @ \ {p}]
          PROVE  \A v \in Workers : HandFrame(v)
      <4> DEFINE x == [worker[w] EXCEPT !.job = [worker[w].job EXCEPT !.files = worker[w].job.files \ {p}]]
      <4>1. x.pc = "unlink"
        BY <2>1
      <4>2. worker' = [worker EXCEPT ![w] = x]
        BY <3>2
      <4> HIDE DEF x
      <4> QED
        BY <4>1, <4>2, OthersHand DEF HandFrame, Held
    <3> QED
      BY <1>12, <3>1, <3>2 DEF Unlink, FailUnlink, NextFile
  <2> QED
    BY <1>12, <1>j, <1>o, <2>2, SameRows DEF Unlink, FailUnlink
<1>13. CASE Throw(w)
  BY <1>13, <1>j, <1>o, FinishFrame, SameRows DEF Throw
<1> QED
  BY <1>1, <1>2, <1>3, <1>4, <1>5, <1>6, <1>7, <1>8, <1>9, <1>10, <1>11, <1>12, <1>13 DEF Handle

-----------------------------------------------------------------------------
(* What is removed was given up                                            *)

\* The video part of a live photo belongs to a still and is none itself, in the
\* table and in what the handlers have loaded.
PartOf(a, live) == live # None => a \in Stills /\ live \in Assets \ Stills

LiveFine ==
  /\ \A a \in Assets : Exists(a) => PartOf(a, rows[a].live)
  /\ \A w \in Workers : Held(w) => PartOf(worker[w].id, worker[w].row.live)

\* Stills in the trash were given up, and those that were found there, or that a
\* job or a handler is to delete, too, or the deletion overtook the restore.
GivenUp == unwanted \cup history.overtaken
UnwantedFine ==
  /\ \A u \in Stills : Exists(u) /\ rows[u].trashed => u \in unwanted
  /\ \A u \in Stills : u \in emptied => u \in GivenUp
  /\ \A u \in Stills : Deletion(u) \in BagToSet(jobs) => u \in GivenUp
  /\ \A w \in Workers : Held(w) /\ worker[w].job.name = "deletion" =>
       /\ worker[w].id = worker[w].job.id
       /\ worker[w].id \in Stills => worker[w].id \in GivenUp

\* What is recorded at first was stored before, whole and outside the trash.
LEMMA InitRows ==
  ASSUME Init, NEW a \in Assets, Exists(a)
  PROVE  /\ a \in Stored /\ rows[a] = StoredRow(a)
         /\ rows[a].live = None /\ rows[a].trashed = FALSE
<1>1. a \in Stored /\ rows[a] = StoredRow(a)
  BY DEF Init, Exists
<1> QED
  BY <1>1 DEF StoredRow

LEMMA InitLive == Init => LiveFine /\ UnwantedFine
<1> SUFFICES ASSUME Init PROVE LiveFine /\ UnwantedFine
  OBVIOUS
<1>1. BagToSet(jobs) = {}
  BY DEF Init, EmptyBag, SetToBag, BagToSet
<1>2. \A w \in Workers : ~Held(w)
  BY DEF Init, Held, Idle
<1>3. LiveFine
  BY <1>2, InitRows DEF LiveFine, PartOf
<1>4. UnwantedFine
  BY <1>1, <1>2, InitRows, UploadsAreAssets DEF UnwantedFine, Init
<1> QED
  BY <1>3, <1>4

\* An upload writes no record but a new one, and asks for no deletion.
LEMMA UploadFrame ==
  ASSUME TypeInv, NEW u \in Stills, UploadFile(u) \/ FailUpload(u) \/ FailCleanUp(u)
  PROVE  /\ worker' = worker /\ unwanted' = unwanted /\ emptied' = emptied
         /\ history'.overtaken = history.overtaken
         /\ \/ rows' = rows
            \/ \E a \in Assets, live \in Assets \cup {None}, visible \in BOOLEAN :
                 /\ rows' = [rows EXCEPT ![a] = NewRow(a, live, visible)]
                 /\ PartOf(a, live)
                 /\ \/ request[u] = "motion" /\ a = MotionOf[u]
                    \/ request[u] = "still" /\ a = u
         /\ \A a : Deletion(a) \in BagToSet(jobs)' => Deletion(a) \in BagToSet(jobs)
<1>t. TypeOK
  BY DEF TypeInv
<1>0. u \in Assets /\ MotionOf[u] \in (Assets \ Stills) \cup {None}
  BY UploadsAreAssets
<1>q. ASSUME NEW set \in SUBSET Job, Queue(set), \A a : Deletion(a) \notin set
      PROVE  \A a : Deletion(a) \in BagToSet(jobs)' => Deletion(a) \in BagToSet(jobs)
  BY <1>t, <1>q, Queued DEF TypeOK
<1>1. CASE Receive(u) \/ AnswerDuplicate(u) \/ FailUpload(u) \/ FailCleanUp(u)
  BY <1>t, <1>1 DEF Receive, AnswerDuplicate, FailUpload, FailCleanUp, TypeOK
<1>2. CASE CreateMotion(u)
  <2>1. MotionOf[u] \in Assets /\ PartOf(MotionOf[u], None)
    BY <1>0, <1>2 DEF CreateMotion, TypeInv, MotionFine, PartOf
  <2> QED
    BY <1>2, <2>1 DEF CreateMotion, Insert
<1>3. CASE CreateStill(u)
  <2>1. PartOf(u, MotionOf[u])
    BY <1>0 DEF PartOf
  <2> QED
    BY <1>0, <1>3, <2>1 DEF CreateStill, Insert
<1>4. CASE QueueMotion(u)
  <2>1. {ChainJob("metadata", MotionOf[u], TRUE)} \in SUBSET Job
    BY <1>0, <1>4, JobsMade DEF QueueMotion, TypeInv, MotionFine, ChainJobs
  <2>2. \A a : Deletion(a) \notin {ChainJob("metadata", MotionOf[u], TRUE)}
    BY DEF Deletion, ChainJob
  <2> QED
    BY <1>4, <1>q, <2>1, <2>2 DEF QueueMotion
<1>5. CASE QueueStill(u)
  <2>1. {ChainJob("metadata", u, TRUE)} \in SUBSET Job
    BY <1>0, JobsMade DEF ChainJobs
  <2>2. \A a : Deletion(a) \notin {ChainJob("metadata", u, TRUE)}
    BY DEF Deletion, ChainJob
  <2> QED
    BY <1>5, <1>q, <2>1, <2>2 DEF QueueStill
<1>6. CASE CleanUp(u)
  <2>1. {DeleteFiles(Uploaded(u))} \in SUBSET Job
    BY FilesArePaths, JobsMade DEF Uploaded
  <2>2. \A a : Deletion(a) \notin {DeleteFiles(Uploaded(u))}
    BY DEF Deletion, DeleteFiles
  <2> QED
    BY <1>t, <1>6, <1>q, <2>1, <2>2 DEF CleanUp, TypeOK
<1> QED
  BY <1>1, <1>2, <1>3, <1>4, <1>5, <1>6 DEF UploadFile

LEMMA NewRowFields ==
  ASSUME TypeInv, NEW a \in Assets, NEW live, NEW visible,
         rows' = [rows EXCEPT ![a] = NewRow(a, live, visible)]
  PROVE  /\ rows'[a].live = live /\ rows'[a].trashed = FALSE
         /\ rows'[a].checksum = Checksum[a] /\ rows'[a].original = Upload(a)
         /\ \A b \in Assets \ {a} : rows'[b] = rows[b]
BY DEF NewRow, TypeInv, TypeOK

\* The trash, the deletions and the night change of the records only whether
\* they are in the trash.
LEMMA OwnerFrame ==
  ASSUME TypeInv, (\E a \in Assets : Trash(a) \/ Restore(a) \/ ForceDelete(a)) \/ FindTrashed \/ EmptyTrash \/ QueueMissing
  PROVE  /\ worker' = worker /\ request' = request /\ disk' = disk
         /\ \A a \in Assets : /\ Exists(a)' <=> Exists(a)
                              /\ Exists(a) => /\ rows'[a].live = rows[a].live
                                              /\ rows'[a].checksum = rows[a].checksum
                                              /\ rows'[a].original = rows[a].original
         /\ rows' = rows \/ jobs' = jobs
<1>1. ASSUME NEW a \in Assets, Trash(a) \/ Restore(a)
      PROVE  \A b \in Assets : /\ Exists(b)' <=> Exists(b)
                               /\ Exists(b) => /\ rows'[b].live = rows[b].live
                                               /\ rows'[b].checksum = rows[b].checksum
                                               /\ rows'[b].original = rows[b].original
  <2>1. PICK t \in BOOLEAN : rows' = [rows EXCEPT ![a].trashed = t]
    BY <1>1 DEF Trash, Restore
  <2> DEFINE row == [rows[a] EXCEPT !.trashed = t]
  <2>2. rows[a] \in Row
    BY <1>1 DEF Trash, Restore, Owned, Exists, TypeInv, TypeOK
  <2>3. row \in Row /\ row.live = rows[a].live /\ row.original = rows[a].original
        /\ row.checksum = rows[a].checksum
    BY <2>2, RowEdits DEF Row
  <2>4. rows' = [rows EXCEPT ![a] = row]
    BY <2>1
  <2> HIDE DEF row
  <2>5. rows'[a] = row /\ \A b \in Assets \ {a} : rows'[b] = rows[b]
    BY <2>4 DEF TypeInv, TypeOK
  <2> QED
    BY <2>2, <2>3, <2>5, NoneIsNoRow DEF Exists
<1>2. rows' = rows => \A b \in Assets : /\ Exists(b)' <=> Exists(b)
                                        /\ rows'[b].live = rows[b].live
                                        /\ rows'[b].checksum = rows[b].checksum
                                        /\ rows'[b].original = rows[b].original
  BY DEF Exists
<1> QED
  BY <1>1, <1>2 DEF Trash, Restore, ForceDelete, FindTrashed, EmptyTrash, QueueMissing

LEMMA NextKeepsLive == TypeInv /\ LiveFine /\ [Next]_vars => LiveFine'
<1> SUFFICES ASSUME TypeInv, LiveFine, [Next]_vars PROVE LiveFine'
  OBVIOUS
<1>1. ASSUME NEW w \in Workers, Handle(w) \/ Throw(w) \/ FailUnlink(w) PROVE LiveFine'
  <2>0. (\A a \in Assets : SameRow(a)) /\ (\A v \in Workers : HandFrame(v))
    BY <1>1, HandlerFrame
  <2>1. ASSUME NEW a \in Assets, Exists(a)' PROVE PartOf(a, rows'[a].live)
    BY <2>0, <2>1 DEF SameRow, LiveFine, PartOf
  <2>2. ASSUME NEW v \in Workers, Held(v)' PROVE PartOf(worker'[v].id, worker'[v].row.live)
    <3>1. CASE SameHand(v)
      BY <3>1 DEF SameHand, LiveFine
    <3>2. CASE JustTaken(v)
      <4>1. worker'[v].id \in Assets
        <5>1. worker'[v].job \in Job
          BY <3>2 DEF JustTaken, TypeInv, TypeOK
        <5>2. TypeInv'
          BY <1>1, HandlerKeepsTypes
        <5> QED
          BY <2>2, <5>2 DEF TypeInv, TypeOK, Busy, Idle, Held
      <4> QED
        BY <3>2, <4>1 DEF JustTaken, LiveFine
    <3>3. CASE OtherPart(v)
      BY <3>3 DEF OtherPart, LiveFine
    <3> QED
      BY <2>0, <2>2, <3>1, <3>2, <3>3 DEF HandFrame
  <2> QED
    BY <2>1, <2>2 DEF LiveFine
<1>2. ASSUME NEW u \in Stills, UploadFile(u) \/ FailUpload(u) \/ FailCleanUp(u) PROVE LiveFine'
  <2>1. worker' = worker
    BY <1>2, UploadFrame
  <2>2. CASE rows' = rows
    BY <2>1, <2>2 DEF LiveFine, Exists, Held
  <2>3. ASSUME NEW a \in Assets, NEW live, NEW visible,
               rows' = [rows EXCEPT ![a] = NewRow(a, live, visible)], PartOf(a, live)
        PROVE  LiveFine'
    <3>1. rows'[a].live = live /\ \A b \in Assets \ {a} : rows'[b] = rows[b]
      BY <2>3, NewRowFields
    <3>2. \A b \in Assets : Exists(b)' => PartOf(b, rows'[b].live)
      BY <2>3, <3>1 DEF LiveFine, Exists
    <3> QED
      BY <2>1, <3>2 DEF LiveFine, Held
  <2> QED
    BY <1>2, <2>2, <2>3, UploadFrame
<1>3. CASE (\E a \in Assets : Trash(a) \/ Restore(a) \/ ForceDelete(a)) \/ FindTrashed \/ EmptyTrash \/ QueueMissing
  BY <1>3, OwnerFrame DEF LiveFine, Held
<1>4. CASE UNCHANGED vars
  BY <1>4 DEF vars, LiveFine, Exists, Held
<1> QED
  BY <1>1, <1>2, <1>3, <1>4 DEF Next

LEMMA NextKeepsUnwanted ==
  TypeInv /\ LiveFine /\ UnwantedFine /\ [Next]_vars => UnwantedFine'
<1> SUFFICES ASSUME TypeInv, LiveFine, UnwantedFine, [Next]_vars
             PROVE  UnwantedFine'
  OBVIOUS
<1>0. Stills \subseteq Assets
  BY UploadsAreAssets
<1>1. ASSUME NEW w \in Workers, Handle(w) \/ Throw(w) \/ FailUnlink(w) PROVE UnwantedFine'
  <2>0. /\ \A a \in Assets : SameRow(a)
        /\ \A v \in Workers : HandFrame(v)
        /\ DeletionFrame(w) /\ unwanted' = unwanted /\ emptied' = emptied /\ GivenUp' = GivenUp
    BY <1>1, HandlerFrame DEF GivenUp
  <2>1. \A u \in Stills : Exists(u)' /\ rows'[u].trashed => u \in unwanted
    BY <1>0, <2>0 DEF SameRow, UnwantedFine
  <2>2. \A u \in Stills : Deletion(u) \in BagToSet(jobs)' => u \in GivenUp
    BY <2>0 DEF DeletionFrame, LiveFine, PartOf, UnwantedFine
  <2>3. ASSUME NEW v \in Workers, Held(v)', worker'[v].job.name = "deletion"
        PROVE  /\ worker'[v].id = worker'[v].job.id
               /\ worker'[v].id \in Stills => worker'[v].id \in GivenUp
    <3>1. CASE SameHand(v)
      BY <2>3, <3>1 DEF SameHand, UnwantedFine
    <3>2. CASE JustTaken(v)
      <4>1. worker'[v].job \in Job
        BY <3>2 DEF JustTaken, TypeInv, TypeOK
      <4>2. worker'[v].job = Deletion(worker'[v].id)
        BY <2>3, <3>2, <4>1, JobKinds DEF JustTaken
      <4> QED
        BY <3>2, <4>2 DEF JustTaken, UnwantedFine
    <3>3. CASE OtherPart(v)
      BY <2>3, <3>3 DEF OtherPart
    <3> QED
      BY <2>0, <2>3, <3>1, <3>2, <3>3 DEF HandFrame
  <2> QED
    BY <2>0, <2>1, <2>2, <2>3 DEF UnwantedFine
<1>2. ASSUME NEW u \in Stills, UploadFile(u) \/ FailUpload(u) \/ FailCleanUp(u) PROVE UnwantedFine'
  <2>1. /\ worker' = worker /\ unwanted' = unwanted /\ emptied' = emptied /\ GivenUp' = GivenUp
        /\ \A a : Deletion(a) \in BagToSet(jobs)' => Deletion(a) \in BagToSet(jobs)
    BY <1>2, UploadFrame DEF GivenUp
  <2>2. \A v \in Stills : Exists(v)' /\ rows'[v].trashed => v \in unwanted
    <3>1. CASE rows' = rows
      BY <3>1 DEF Exists, UnwantedFine
    <3>2. ASSUME NEW a \in Assets, NEW live, NEW visible,
                 rows' = [rows EXCEPT ![a] = NewRow(a, live, visible)]
          PROVE  \A v \in Stills : Exists(v)' /\ rows'[v].trashed => v \in unwanted
      BY <1>0, <3>2, NewRowFields DEF Exists, UnwantedFine
    <3> QED
      BY <1>2, <3>1, <3>2, UploadFrame
  <2> QED
    BY <2>1, <2>2 DEF UnwantedFine, Held
<1>3. ASSUME NEW a \in Assets, Trash(a) PROVE UnwantedFine'
  <2>1. rows[a] \in Row /\ unwanted' = unwanted \cup {a}
    BY <1>3 DEF Trash, Owned, Exists, TypeInv, TypeOK
  <2>2. \A b \in Assets \ {a} : rows'[b] = rows[b]
    BY <1>3 DEF Trash, TypeInv, TypeOK
  <2>3. GivenUp \subseteq GivenUp'
    BY <1>3 DEF Trash, GivenUp
  <2> QED
    BY <1>0, <1>3, <2>1, <2>2, <2>3 DEF Trash, UnwantedFine, Exists, Held
<1>4. ASSUME NEW a \in Assets, Restore(a) PROVE UnwantedFine'
  <2>1. rows[a] \in Row /\ unwanted' = unwanted \ {a} /\ a \in Stills
    BY <1>4 DEF Restore, Owned, Exists, TypeInv, TypeOK
  <2>2. rows'[a].trashed = FALSE /\ \A b \in Assets \ {a} : rows'[b] = rows[b]
    BY <1>0, <1>4, <2>1 DEF Restore, TypeInv, TypeOK, Row
  <2>3. \A u \in Stills : Exists(u)' /\ rows'[u].trashed => u \in unwanted'
    BY <1>0, <2>1, <2>2 DEF Exists, UnwantedFine
  <2>4. history'.overtaken = history.overtaken \cup IF Condemned(a) THEN {a} ELSE {}
    BY <1>4 DEF Restore, TypeInv, TypeOK
  <2>5. /\ Condemned(a) => GivenUp' = GivenUp \cup {a}
        /\ GivenUp \ {a} \subseteq GivenUp'
    BY <2>1, <2>4 DEF GivenUp
  <2>6. /\ worker' = worker /\ jobs' = jobs /\ emptied' = emptied
    BY <1>4 DEF Restore
  <2>7. \A u \in Stills : u \in emptied => u \in GivenUp'
    BY <2>5 DEF Condemned, UnwantedFine
  <2>8. \A u \in Stills : Deletion(u) \in BagToSet(jobs) => u \in GivenUp'
    BY <2>5 DEF Condemned, UnwantedFine
  <2>9. ASSUME NEW w \in Workers, Held(w), worker[w].job.name = "deletion", worker[w].id \in Stills
        PROVE  worker[w].id \in GivenUp'
    <3>1. worker[w].id = a => Condemned(a)
      BY <2>9 DEF Condemned, Handles, Held
    <3> QED
      BY <2>5, <2>9, <3>1 DEF UnwantedFine
  <2> QED
    BY <2>3, <2>6, <2>7, <2>8, <2>9 DEF UnwantedFine, Held
<1>5. ASSUME NEW a \in Assets, ForceDelete(a) PROVE UnwantedFine'
  <2>1. {Deletion(a)} \in SUBSET Job
    BY JobsMade
  <2>2. BagToSet(jobs)' = BagToSet(jobs) \cup {Deletion(a)}
    BY <1>5, <2>1, Queued DEF ForceDelete, TypeInv, TypeOK
  <2>3. \A u : Deletion(u) \in BagToSet(jobs)' => Deletion(u) \in BagToSet(jobs) \/ u = a
    BY <2>2 DEF Deletion
  <2>4. GivenUp' = GivenUp \cup {a}
    BY <1>5 DEF ForceDelete, GivenUp
  <2> QED
    BY <1>5, <2>3, <2>4 DEF ForceDelete, UnwantedFine, Exists, Held
<1>6. CASE EmptyTrash
  <2>1. {Deletion(a) : a \in emptied} \in SUBSET Job
    BY JobsMade DEF TypeInv, TypeOK
  <2>2. BagToSet(jobs)' = BagToSet(jobs) \cup {Deletion(a) : a \in emptied}
    BY <1>6, <2>1, Queued DEF EmptyTrash, TypeInv, TypeOK
  <2>3. \A u : Deletion(u) \in BagToSet(jobs)' => Deletion(u) \in BagToSet(jobs) \/ u \in emptied
    BY <2>2 DEF Deletion
  <2>4. GivenUp' = GivenUp
    BY <1>6 DEF EmptyTrash, GivenUp
  <2> QED
    BY <1>6, <2>3, <2>4 DEF EmptyTrash, UnwantedFine, Exists, Held
<1>7. CASE QueueMissing
  <2>1. Missing \ BagToSet(jobs) \in SUBSET Job
    BY JobsMade DEF Missing, ChainJobs
  <2>2. BagToSet(jobs)' = BagToSet(jobs) \cup (Missing \ BagToSet(jobs))
    BY <1>7, <2>1, Queued DEF QueueMissing, TypeInv, TypeOK
  <2>3. \A u : Deletion(u) \notin Missing
    BY DEF Missing, Deletion, ChainJob
  <2>4. GivenUp' = GivenUp
    BY <1>7 DEF QueueMissing, GivenUp
  <2> QED
    BY <1>7, <2>2, <2>3, <2>4 DEF QueueMissing, UnwantedFine, Exists, Held
<1>8. CASE FindTrashed
  <2>1. PICK old \in SUBSET {a \in Assets : Exists(a) /\ rows[a].trashed} : emptied' = emptied \cup old
    BY <1>8 DEF FindTrashed
  <2>2. GivenUp' = GivenUp
    BY <1>8 DEF FindTrashed, GivenUp
  <2>3. \A u \in Stills : u \in emptied' => u \in GivenUp
    BY <2>1 DEF UnwantedFine, GivenUp
  <2> QED
    BY <1>8, <2>2, <2>3 DEF FindTrashed, UnwantedFine, Exists, Held
<1>9. CASE UNCHANGED vars
  BY <1>9 DEF vars, UnwantedFine, GivenUp, Exists, Held
<1> QED
  BY <1>1, <1>2, <1>3, <1>4, <1>5, <1>6, <1>7, <1>8, <1>9 DEF Next

\* A handler that saves a record keeps it: only a deletion removes one.
LEMMA RecordsStay ==
  ASSUME TypeInv, NEW w \in Workers, Handle(w) \/ Throw(w) \/ FailUnlink(w), ~RemoveRow(w),
         NEW a \in Assets, Exists(a)
  PROVE  Exists(a)'
<1>1. rows[a] \in Row
  BY DEF Exists, TypeInv, TypeOK
<1>k. Held(w) => worker[w] \in Loaded
  BY HeldTypes
<1>s. ASSUME NEW row \in Row, NEW b, rows' = [rows EXCEPT ![b] = row]
      PROVE  Exists(a)'
  BY <1>s, NoneIsNoRow DEF Exists, TypeInv, TypeOK
<1>2. CASE rows' = rows
  BY <1>2 DEF Exists
<1>3. CASE ExtractMetadata(w) \/ SaveThumbnail(w) \/ SaveOriginalPath(w)
  <2>0. Held(w) /\ worker[w].id \in Assets /\ worker[w].row.original \in Path
    <3>1. Held(w)
      BY <1>3, HeldTypes DEF ExtractMetadata, SaveThumbnail, SaveOriginalPath, Moving,
                             Handles, Held, FileJob
    <3> QED
      BY <1>k, <3>1 DEF Loaded, Row
  <2>2. CASE Exists(worker[w].id)
    <3>1. rows[worker[w].id] \in Row
      BY <2>0, <2>2 DEF Exists, TypeInv, TypeOK
    <3>2. \/ rows' = rows
          \/ \E row \in {[rows[worker[w].id] EXCEPT !.exif = TRUE],
                         [rows[worker[w].id] EXCEPT !.jpeg = TRUE],
                         [rows[worker[w].id] EXCEPT !.webp = TRUE],
                         [rows[worker[w].id] EXCEPT !.original = worker[w].row.original]} :
               rows' = [rows EXCEPT ![worker[w].id] = row]
      BY <1>3, <2>2 DEF ExtractMetadata, SaveThumbnail, SaveOriginalPath, Save
    <3>3. CASE rows' = rows
      BY <3>3 DEF Exists
    <3>4. ASSUME NEW row \in {[rows[worker[w].id] EXCEPT !.exif = TRUE],
                         [rows[worker[w].id] EXCEPT !.jpeg = TRUE],
                         [rows[worker[w].id] EXCEPT !.webp = TRUE],
                         [rows[worker[w].id] EXCEPT !.original = worker[w].row.original]},
                 rows' = [rows EXCEPT ![worker[w].id] = row]
          PROVE  Exists(a)'
      <4>1. row \in Row
        BY <2>0, <3>1, <3>4, RowEdits
      <4> QED
        BY <1>s, <3>4, <4>1
    <3> QED
      BY <3>2, <3>3, <3>4
  <2>3. CASE ~Exists(worker[w].id)
    BY <1>2, <1>3, <2>3 DEF ExtractMetadata, SaveThumbnail, SaveOriginalPath
  <2> QED
    BY <2>2, <2>3
<1> QED
  BY <1>2, <1>3 DEF Handle, Take, LinkLivePhoto, RenameOriginal, WriteThumbnail, OnDone,
     QueueLiveDeletion, QueueFileDeletion, Unlink, FailUnlink, Throw

\* The record of a still goes only when its owner has last asked for that, or has
\* restored it too late: a job that deletes is queued for what was trashed or
\* deleted, for the video part of such a still, and for nothing else.
THEOREM OnlyUnwantedGo == Spec => OnlyUnwantedAreRemoved
<1> DEFINE Inv == TypeInv /\ LiveFine /\ UnwantedFine
           Step == \A u \in Stills : Exists(u) /\ rows'[u] = None => u \in GivenUp
<1>1. Init => Inv
  BY InitTypes, InitLive
<1>2. Inv /\ [Next]_vars => Inv'
  BY NextKeepsTypes, NextKeepsLive, NextKeepsUnwanted
<1>3. Inv /\ [Next]_vars => [Step]_vars
  <2> SUFFICES ASSUME Inv, Next, NEW u \in Stills, Exists(u), rows'[u] = None
               PROVE  u \in GivenUp
    BY DEF Exists
  <2>0. u \in Assets /\ ~Exists(u)'
    BY UploadsAreAssets DEF Exists
  <2>1. ASSUME NEW w \in Workers, Handle(w) \/ Throw(w) \/ FailUnlink(w) PROVE u \in GivenUp
    <3>1. RemoveRow(w)
      BY <2>0, <2>1, RecordsStay
    <3>2. Held(w) /\ worker[w].job.name = "deletion"
      BY <3>1, HeldTypes DEF RemoveRow, Handles, Held
    <3>3. u = worker[w].id
      <4>1. CASE rows[u].live = worker[w].id /\ u # worker[w].id
        <5>1. rows'[u] = [rows[u] EXCEPT !.live = None]
          BY <2>0, <3>1, <4>1 DEF RemoveRow
        <5>2. rows[u] \in Row
          BY <2>0 DEF Exists, TypeInv, TypeOK
        <5> QED
          BY <5>1, <5>2, RowEdits, NoneIsNoRow
      <4> QED
        BY <2>0, <3>1, <4>1 DEF RemoveRow, Exists
    <3> QED
      BY <3>2, <3>3 DEF UnwantedFine
  <2>2. ASSUME NEW v \in Stills, UploadFile(v) \/ FailUpload(v) \/ FailCleanUp(v) PROVE u \in GivenUp
    <3>1. PICK a \in Assets, live \in Assets \cup {None}, visible \in BOOLEAN :
             rows' = [rows EXCEPT ![a] = NewRow(a, live, visible)] /\ PartOf(a, live)
      BY <2>0, <2>2, UploadFrame DEF Exists
    <3>2. a = u
      BY <2>0, <3>1 DEF TypeInv, TypeOK, Exists
    <3>4. rows'[a] = NewRow(a, live, visible)
      BY <3>1 DEF TypeInv, TypeOK
    <3> QED
      BY <2>0, <3>2, <3>4, NewRowTypes, NoneIsNoRow DEF Exists
  <2>3. CASE (\E a \in Assets : Trash(a) \/ Restore(a) \/ ForceDelete(a)) \/ FindTrashed \/ EmptyTrash \/ QueueMissing
    BY <2>0, <2>3, OwnerFrame
  <2> QED
    BY <2>1, <2>2, <2>3 DEF Next
<1> HIDE DEF Inv, Step
<1>4. Spec => [][Step]_vars
  BY <1>1, <1>2, <1>3, PTL DEF Spec
<1> QED
  BY <1>4 DEF OnlyUnwantedAreRemoved, Step, GivenUp

=============================================================================
