------------------------ MODULE StorageTemplateProofs ------------------------
(***************************************************************************)
(* Proofs about the move journal, for every number of assets, workers,     *)
(* template paths, settings, crashes and failures.                         *)
(***************************************************************************)
EXTENDS StorageTemplate, TLAPS

IndInv == TypeOK /\ MoveDiscipline /\ (CopiesAreChecked => OriginalsSurvive)

-----------------------------------------------------------------------------
(***************************************************************************)
(* Lemmas about paths and about the helpers of the model.                  *)
(***************************************************************************)

\* A path is of exactly one kind, and the sidecar path of a path is a sidecar path.
LEMMA PathKinds ==
    /\ \A p \in Path : p.kind \in Kinds /\ p \in PathsOf(p.kind)
    /\ \A k \in Kinds : PathsOf(k) \subseteq Path
    /\ \A k \in Kinds : \A p \in PathsOf(k) : p.kind = k
    /\ \A p \in Path : Xmp(p) \in Path /\ Xmp(p).kind = "sidecar"
  BY DEF Path, PathsOf, Xmp, Kinds

\* A damaged copy is a file, and shows its damage.
LEMMA DamagedContent ==
    ASSUME NEW c \in Content, NEW d \in Damage
    PROVE  /\ [c EXCEPT !.bytes = d] \in Content
           /\ [c EXCEPT !.bytes = d].bytes = d
  BY DEF Content

\* What getTemplatePath answers is the source or a free path of the template.
LEMMA TemplatePathFree ==
    ASSUME NEW a, NEW src, NEW dest \in TemplatePath(a, src)
    PROVE  \/ dest = src
           \/ /\ dest \in PathsOf("original")
              /\ fs[dest] = None
  BY DEF TemplatePath

\* After moveFile a job is over, or goes on with the sidecar of its asset.
LEMMA AfterMoveOK ==
    ASSUME NEW j \in Job, NEW dest \in Path, dest = j.dest,
           \A k \in Kinds : j.src[k] # None => j.src[k].kind = k,
           j.asset # None, j.src["original"] # None, ExifSize[j.asset] > 0
    PROVE  /\ JobOK(AfterMove(j))
           /\ AfterMove(j).pc \in {"idle", "journal"}
           /\ AfterMove(j).pc = "journal" => AfterMove(j).kind = "sidecar"
  <1> USE DEF JobOK, Job, Moving, Kinds
  <1>1. JobOK(Idle) /\ Idle.pc = "idle"
    BY NoneAssumption DEF Idle
  <1>2. CASE j.kind = "original" /\ j.src["sidecar"] \notin {None, Xmp(j.dest)}
    <2>1. AfterMove(j) = [j EXCEPT !.pc = "journal", !.kind = "sidecar",
                                   !.dest = Xmp(j.dest), !.from = None]
      BY <1>2 DEF AfterMove
    <2>2. Xmp(j.dest) \in Path /\ Xmp(j.dest).kind = "sidecar" /\ Xmp(j.dest) # None
      BY PathKinds, NoneAssumption
    <2> QED BY <1>2, <2>1, <2>2
  <1>3. CASE ~(j.kind = "original" /\ j.src["sidecar"] \notin {None, Xmp(j.dest)})
    BY <1>1, <1>3 DEF AfterMove
  <1> QED BY <1>2, <1>3

-----------------------------------------------------------------------------
(***************************************************************************)
(* The parts of the invariant that every step of a worker shares.          *)
(***************************************************************************)

\* The worker with the lock goes on with j; the others are not moving anything.
LEMMA ContinueOK ==
    ASSUME TypeOK, LockHeld, NEW w \in Workers, NEW j, JobOK(j),
           j.pc # "loaded", lock \in {w, None}, Continue(w, j)
    PROVE  /\ job' \in [Workers -> Job]
           /\ lock' \in Workers \union {None}
           /\ \A u \in Workers : JobOK(job'[u])
           /\ LockHeld'
           /\ job'[w] = j
           /\ \A u \in Workers \ {w} : DiskAgrees(job[u])'
  <1>1. job' = [job EXCEPT ![w] = j] /\ lock' = IF j.pc = "idle" THEN None ELSE w
    BY DEF Continue
  <1>2. j \in Job
    BY DEF JobOK
  <1>3. /\ job'[w] = j
        /\ \A u \in Workers \ {w} : job'[u] = job[u]
    BY <1>1 DEF TypeOK
  <1>4. \A u \in Workers \ {w} : job[u].pc \notin Moving
    BY NoneAssumption DEF LockHeld
  <1>5. job' \in [Workers -> Job] /\ lock' \in Workers \union {None}
    BY <1>1, <1>2 DEF TypeOK
  <1>6. \A u \in Workers : JobOK(job'[u])
    BY <1>3 DEF TypeOK
  <1>7. LockHeld'
    BY <1>1, <1>3, <1>4 DEF LockHeld, Moving, JobOK, Job
  <1>8. \A u \in Workers \ {w} : DiskAgrees(job[u])'
    BY <1>3, <1>4 DEF DiskAgrees, Moving
  <1> QED BY <1>3, <1>5, <1>6, <1>7, <1>8

\* No original is lost by a step that leaves its bytes somewhere.
LEMMA SurvivalStep ==
    ASSUME OriginalsSurvive,
           \A a \in Assets : \A p \in PathsOf("original") :
             fs[p] = Whole(a, "original") =>
               \E q \in PathsOf("original") : fs'[q] = Whole(a, "original")
    PROVE  OriginalsSurvive'
  BY DEF OriginalsSurvive

\* A sidecar is moved among the paths of sidecars.
LEMMA SidecarStep ==
    ASSUME OriginalsSurvive,
           \A p \in PathsOf("original") : fs'[p] = fs[p]
    PROVE  OriginalsSurvive'
  BY DEF OriginalsSurvive

-----------------------------------------------------------------------------
(***************************************************************************)
(* The invariant holds initially, and every step keeps it.                 *)
(***************************************************************************)
LEMMA InitOK == Init => IndInv
  <1> SUFFICES ASSUME Init PROVE IndInv
    OBVIOUS
  <1> USE DEF Init
  <1>1. \A a \in Assets, k \in Kinds :
          /\ UploadPath(a, k) \in Path /\ UploadPath(a, k).kind = k
          /\ UploadPath(a, k) # None
    BY ConstantsAssumption, NoneAssumption DEF UploadPath, Path
  <1>2. \A a \in Assets, k \in Kinds : Whole(a, k) \in Content
    BY DEF Whole, Content
  <1>3. fs \in [Path -> Content \union {None}]
    BY <1>2 DEF Path
  <1>4. JobOK(Idle)
    BY NoneAssumption DEF JobOK, Job, Idle, Kinds, Moving
  <1>5. TypeOK
    BY <1>1, <1>3, <1>4, ConstantsAssumption DEF TypeOK, Kinds, JobOK
  <1>6. MoveDiscipline
    BY DEF MoveDiscipline, LockHeld, DiskAgrees, Idle, Moving
  <1>7. OriginalsSurvive
    <2> SUFFICES ASSUME NEW a \in Assets
                 PROVE  \E p \in PathsOf("original") : fs[p] = Whole(a, "original")
      BY DEF OriginalsSurvive
    <2>1. UploadPath(a, "original") \in PathsOf("original")
      BY ConstantsAssumption DEF UploadPath, PathsOf
    <2>2. UploadPath(a, "original") \in Path
      BY <1>1 DEF Kinds
    <2>3. fs[UploadPath(a, "original")] = Whole(a, "original")
      BY <2>2 DEF UploadPath
    <2> QED BY <2>1, <2>3
  <1> QED BY <1>5, <1>6, <1>7 DEF IndInv

\* What a step leaves alone keeps its type.
LEMMA UnchangedOK ==
    ASSUME TypeOK
    PROVE  /\ fs' = fs => /\ fs' \in [Path -> Content \union {None}]
                          /\ OriginalsSurvive => OriginalsSurvive'
           /\ db' = db => /\ db' \in [Assets -> [Kinds -> Path \union {None}]]
                          /\ \A a \in Assets, k \in Kinds : db'[a][k] # None => db'[a][k].kind = k
                          /\ \A a \in Assets : db'[a]["original"] # None
           /\ moves' = moves =>
                /\ moves' \in [Assets -> [Kinds -> Row \union {None}]]
                /\ \A a \in Assets, k \in Kinds : moves'[a][k] # None =>
                     moves'[a][k].old.kind = k /\ moves'[a][k].new.kind = k
           /\ config' = config => config' \in Configs
           /\ faults' = faults => faults' \in 0..MaxFaults
           /\ interrupts' = interrupts => interrupts' \in 0..MaxInterrupts
           /\ changes' = changes => changes' \in 0..MaxChanges
  BY DEF TypeOK, OriginalsSurvive

\* The invariant, but for what the step itself does to disk and tables.
LEMMA StepOK ==
    ASSUME IndInv, NEW w \in Workers, NEW j, JobOK(j), j.pc # "loaded",
           lock \in {w, None}, Continue(w, j),
           fs' \in [Path -> Content \union {None}],
           db' \in [Assets -> [Kinds -> Path \union {None}]],
           moves' \in [Assets -> [Kinds -> Row \union {None}]],
           config' \in Configs, faults' \in 0..MaxFaults,
           interrupts' \in 0..MaxInterrupts, changes' \in 0..MaxChanges,
           \A a \in Assets, k \in Kinds : db'[a][k] # None => db'[a][k].kind = k,
           \A a \in Assets : db'[a]["original"] # None,
           \A a \in Assets, k \in Kinds : moves'[a][k] # None =>
             moves'[a][k].old.kind = k /\ moves'[a][k].new.kind = k,
           job'[w] = j => DiskAgrees(job[w])',
           CopiesAreChecked /\ OriginalsSurvive => OriginalsSurvive'
    PROVE  IndInv'
  <1>1. TypeOK /\ LockHeld
    BY DEF IndInv, MoveDiscipline
  <1>2. /\ job' \in [Workers -> Job] /\ lock' \in Workers \union {None}
        /\ \A u \in Workers : JobOK(job'[u])
        /\ LockHeld'
        /\ job'[w] = j
        /\ \A u \in Workers \ {w} : DiskAgrees(job[u])'
    BY <1>1, ContinueOK
  <1>3. TypeOK'
    BY <1>2 DEF TypeOK
  <1>4. MoveDiscipline'
    BY <1>2 DEF MoveDiscipline
  <1>5. CopiesAreChecked => OriginalsSurvive'
    BY DEF IndInv
  <1> QED BY <1>3, <1>4, <1>5 DEF IndInv

\* The step of a worker that only changes what that worker does next.
LEMMA QuietStep ==
    ASSUME IndInv, NEW w \in Workers, NEW j, JobOK(j), j.pc # "loaded",
           lock \in {w, None}, Continue(w, j),
           UNCHANGED <<fs, db, moves, config, interrupts, changes>>,
           faults' \in 0..MaxFaults,
           job'[w] = j => DiskAgrees(job[w])'
    PROVE  IndInv'
  <1>1. TypeOK
    BY DEF IndInv
  <1> QED BY <1>1, UnchangedOK, StepOK

\* What a job that is moving something knows.
LEMMA MovingJob ==
    ASSUME IndInv, NEW w \in Workers, job[w].pc \in Moving
    PROVE  /\ JobOK(job[w]) /\ DiskAgrees(job[w]) /\ lock = w
           /\ job[w].asset \in Assets /\ job[w].kind \in Kinds
           /\ job[w].dest \in PathsOf(job[w].kind)
           /\ job[w].dest \in Path
           /\ job[w].pc # "journal" =>
                job[w].from \in PathsOf(job[w].kind) /\ job[w].from \in Path
  <1>1. JobOK(job[w]) /\ DiskAgrees(job[w]) /\ lock = w
    BY DEF IndInv, TypeOK, MoveDiscipline, LockHeld
  <1>2. job[w].asset \in Assets /\ job[w].kind \in Kinds
    BY <1>1 DEF JobOK, Job, Moving
  <1>3. job[w].dest \in Path /\ job[w].dest.kind = job[w].kind
    BY <1>1 DEF JobOK, Job, Moving
  <1>4. job[w].pc # "journal" => job[w].from \in Path /\ job[w].from.kind = job[w].kind
    BY <1>1 DEF JobOK, Job, Moving
  <1> QED BY <1>1, <1>2, <1>3, <1>4, PathKinds

\* moveFile returns to moveAsset.
LEMMA ReturnStep ==
    ASSUME IndInv, NEW w \in Workers, job[w].pc \in Moving, Continue(w, AfterMove(job[w]))
    PROVE  /\ JobOK(AfterMove(job[w])) /\ AfterMove(job[w]).pc # "loaded"
           /\ lock \in {w, None}
           /\ job'[w] = AfterMove(job[w]) => DiskAgrees(job[w])'
  <1>1. /\ JobOK(job[w]) /\ lock = w
        /\ job[w].dest \in Path
    BY MovingJob
  <1>2. /\ JobOK(AfterMove(job[w]))
        /\ AfterMove(job[w]).pc \in {"idle", "journal"}
        /\ AfterMove(job[w]).pc = "journal" => AfterMove(job[w]).kind = "sidecar"
    BY <1>1, AfterMoveOK DEF JobOK, Moving
  <1> QED BY <1>1, <1>2 DEF DiskAgrees

-----------------------------------------------------------------------------
(***************************************************************************)
(* One lemma per action.                                                   *)
(***************************************************************************)
LEMMA LoadOK == ASSUME IndInv, NEW w \in Workers, NEW a \in Assets, Load(w, a) PROVE IndInv'
  <1> USE DEF Load, At
  <1> DEFINE j == [pc |-> "loaded", asset |-> a, kind |-> "original",
                   src |-> db[a], dest |-> None, from |-> None]
  <1>1. TypeOK /\ MoveDiscipline
    BY DEF IndInv
  <1>2. JobOK(j) /\ j.pc = "loaded"
    <2>1. /\ db[a] \in [Kinds -> Path \union {None}] /\ db[a]["original"] # None
          /\ \A k \in Kinds : db[a][k] # None => db[a][k].kind = k
      BY <1>1 DEF TypeOK
    <2>2. a # None
      BY NoneAssumption
    <2>3. j \in Job
      BY <2>1 DEF Job, Kinds
    <2> QED BY <2>1, <2>2, <2>3 DEF JobOK, Kinds, Moving
  <1>3. job'[w] = j /\ \A u \in Workers \ {w} : job'[u] = job[u]
    BY <1>1 DEF TypeOK
  <1>4. job' \in [Workers -> Job]
    BY <1>1, <1>2 DEF TypeOK, JobOK
  <1>5. \A u \in Workers : JobOK(job'[u])
    BY <1>1, <1>2, <1>3 DEF TypeOK
  <1>6. TypeOK'
    BY <1>1, <1>4, <1>5 DEF TypeOK
  <1>7. MoveDiscipline'
    <2>1. LockHeld'
      BY <1>1, <1>2, <1>3 DEF MoveDiscipline, LockHeld, Moving
    <2>2. DiskAgrees(job[w])'
      BY <1>2, <1>3 DEF DiskAgrees
    <2>3. \A u \in Workers \ {w} : DiskAgrees(job[u])'
      BY <1>1, <1>3 DEF DiskAgrees, MoveDiscipline
    <2> QED BY <2>1, <2>2, <2>3 DEF MoveDiscipline
  <1>8. OriginalsSurvive => OriginalsSurvive'
    BY DEF OriginalsSurvive
  <1> QED BY <1>6, <1>7, <1>8 DEF IndInv

LEMMA StartMoveOK == ASSUME IndInv, NEW w \in Workers, StartMove(w) PROVE IndInv'
  <1>1. TypeOK /\ JobOK(job[w]) /\ job[w].pc = "loaded" /\ lock = None
    BY DEF IndInv, TypeOK, StartMove, At
  <1> DEFINE a   == job[w].asset
             src == job[w].src["original"]
  <1>2. a \in Assets /\ src \in PathsOf("original") /\ src \in Path
    <2>1. src \in Path /\ src.kind = "original" /\ a \in Assets
      BY <1>1 DEF JobOK, Job, Kinds
    <2> QED BY <2>1, PathKinds
  <1>3. PICK dest \in TemplatePath(a, src) :
          Continue(w, IF ExifSize[a] = 0 THEN Idle
                      ELSE IF dest = src THEN AfterMove([job[w] EXCEPT !.pc = "journal", !.dest = dest])
                      ELSE [job[w] EXCEPT !.pc = "journal", !.dest = dest])
    BY DEF StartMove
  <1>4. dest \in PathsOf("original") /\ dest \in Path /\ dest.kind = "original" /\ dest # None
        /\ (dest # src => fs[dest] = None)
    BY <1>2, <1>3, TemplatePathFree, PathKinds, NoneAssumption DEF Kinds
  <1> DEFINE j == [job[w] EXCEPT !.pc = "journal", !.dest = dest]
  <1>5. j \in Job /\ j.pc = "journal" /\ j.dest = dest /\ j.asset = a /\ j.src = job[w].src
        /\ j.kind = "original" /\ j.from = job[w].from
    BY <1>1, <1>4 DEF JobOK, Job, Moving
  <1>6. UNCHANGED <<fs, db, moves, config, faults, interrupts, changes>> /\ faults' \in 0..MaxFaults
    BY <1>1 DEF StartMove, TypeOK
  <1>7. CASE ExifSize[a] = 0
    <2>1. JobOK(Idle) /\ Idle.pc = "idle"
      BY NoneAssumption DEF JobOK, Job, Idle, Kinds, Moving
    <2>2. job'[w] = Idle => DiskAgrees(job[w])'
      BY <2>1 DEF DiskAgrees
    <2> QED BY <1>1, <1>3, <1>6, <1>7, <2>1, <2>2, QuietStep
  <1>8. ExifSize[a] # 0 => ExifSize[a] > 0
    BY <1>2, ConstantsAssumption
  <1>9. CASE ExifSize[a] # 0 /\ dest = src
    <2>1. /\ JobOK(AfterMove(j))
          /\ AfterMove(j).pc \in {"idle", "journal"}
          /\ AfterMove(j).pc = "journal" => AfterMove(j).kind = "sidecar"
      <3>1. /\ \A k \in Kinds : j.src[k] # None => j.src[k].kind = k
            /\ j.asset # None /\ j.src["original"] # None /\ ExifSize[j.asset] > 0
        BY <1>1, <1>5, <1>8, <1>9 DEF JobOK
      <3> QED BY <1>4, <1>5, <3>1, AfterMoveOK
    <2>2. job'[w] = AfterMove(j) => DiskAgrees(job[w])'
      BY <2>1 DEF DiskAgrees
    <2> QED BY <1>1, <1>3, <1>6, <1>9, <2>1, <2>2, QuietStep
  <1>10. CASE ExifSize[a] # 0 /\ dest # src
    <2>1. JobOK(j)
      BY <1>1, <1>2, <1>4, <1>5, <1>8, <1>10 DEF JobOK, Moving
    <2>2. job'[w] = j => DiskAgrees(job[w])'
      BY <1>4, <1>5, <1>6, <1>10 DEF DiskAgrees
    <2> QED BY <1>1, <1>3, <1>5, <1>6, <1>10, <2>1, <2>2, QuietStep
  <1> QED BY <1>7, <1>9, <1>10

\* The job once the journal row is written.
LEMMA JournaledJob ==
    ASSUME IndInv, NEW w \in Workers, job[w].pc = "journal",
           NEW from \in Path, from.kind = job[w].kind,
           NEW pc \in {"transfer", "save"}, pc = "transfer" => from # job[w].dest
    PROVE  /\ JobOK([job[w] EXCEPT !.pc = pc, !.from = from])
           /\ [job[w] EXCEPT !.pc = pc, !.from = from].pc # "loaded"
           /\ fs' = fs /\ job'[w] = [job[w] EXCEPT !.pc = pc, !.from = from]
                => DiskAgrees(job[w])'
  <1>1. JobOK(job[w]) /\ DiskAgrees(job[w])
    BY MovingJob DEF Moving
  <1>2. from # None
    BY NoneAssumption
  <1> DEFINE j == [job[w] EXCEPT !.pc = pc, !.from = from]
  <1>3. /\ j \in Job /\ j.pc = pc /\ j.from = from /\ j.dest = job[w].dest
        /\ j.kind = job[w].kind /\ j.asset = job[w].asset /\ j.src = job[w].src
    BY <1>1 DEF JobOK, Job, Moving
  <1>4. JobOK(j)
    BY <1>1, <1>2, <1>3 DEF JobOK, Moving
  <1>5. fs' = fs /\ job'[w] = j => DiskAgrees(job[w])'
    BY <1>1, <1>3 DEF DiskAgrees
  <1> QED BY <1>3, <1>4, <1>5

\* Writing the journal row of a job keeps the table typed.
LEMMA RowWritten ==
    ASSUME TypeOK, NEW a \in Assets, NEW k \in Kinds,
           NEW row \in Row \union {None}, row # None => row.old.kind = k /\ row.new.kind = k,
           moves' = [moves EXCEPT ![a][k] = row]
    PROVE  /\ moves' \in [Assets -> [Kinds -> Row \union {None}]]
           /\ \A b \in Assets, h \in Kinds :
                moves'[b][h] # None => moves'[b][h].old.kind = h /\ moves'[b][h].new.kind = h
  <1>1. moves' \in [Assets -> [Kinds -> Row \union {None}]]
    BY DEF TypeOK
  <1>2. \A b \in Assets, h \in Kinds :
          moves'[b][h] = IF b = a /\ h = k THEN row ELSE moves[b][h]
    BY DEF TypeOK
  <1> QED BY <1>1, <1>2 DEF TypeOK

LEMMA CreateMoveOK == ASSUME IndInv, NEW w \in Workers, CreateMove(w) PROVE IndInv'
  <1> DEFINE j    == job[w]
             from == j.src[j.kind]
             row  == [old |-> from, new |-> j.dest]
  <1>1. /\ j.pc = "journal"
        /\ moves' = [moves EXCEPT ![j.asset][j.kind] = row]
        /\ Continue(w, [j EXCEPT !.pc = "transfer", !.from = from])
        /\ UNCHANGED <<fs, db, config, faults, interrupts, changes>>
    BY DEF CreateMove, At
  <1>2. /\ JobOK(j) /\ lock = w /\ j.asset \in Assets /\ j.kind \in Kinds
        /\ j.dest \in Path /\ j.dest \in PathsOf(j.kind)
    BY <1>1, MovingJob DEF Moving
  <1>3. from \in Path /\ from.kind = j.kind /\ from # j.dest
    BY <1>1, <1>2 DEF JobOK, Job, Moving
  <1>4. row \in Row /\ row.old.kind = j.kind /\ row.new.kind = j.kind
    BY <1>2, <1>3, PathKinds DEF Row
  <1>5. /\ moves' \in [Assets -> [Kinds -> Row \union {None}]]
        /\ \A b \in Assets, h \in Kinds :
             moves'[b][h] # None => moves'[b][h].old.kind = h /\ moves'[b][h].new.kind = h
    BY <1>1, <1>2, <1>4, RowWritten DEF IndInv
  <1>6. /\ JobOK([j EXCEPT !.pc = "transfer", !.from = from])
        /\ [j EXCEPT !.pc = "transfer", !.from = from].pc # "loaded"
        /\ job'[w] = [j EXCEPT !.pc = "transfer", !.from = from] => DiskAgrees(job[w])'
    BY <1>1, <1>3, JournaledJob
  <1>7. TypeOK
    BY DEF IndInv
  <1> DEFINE next == [j EXCEPT !.pc = "transfer", !.from = from]
  <1>8. /\ JobOK(next) /\ next.pc # "loaded" /\ Continue(w, next) /\ lock \in {w, None}
        /\ job'[w] = next => DiskAgrees(job[w])'
    BY <1>1, <1>2, <1>6
  <1> HIDE DEF next
  <1> QED BY <1>1, <1>5, <1>7, <1>8, StepOK, UnchangedOK

LEMMA ResumeMoveOK == ASSUME IndInv, NEW w \in Workers, ResumeMove(w) PROVE IndInv'
  <1> DEFINE j    == job[w]
             from == ActualPath(RowOf(j))
             pc   == IF from = j.dest THEN "save" ELSE "transfer"
             row  == [old |-> from, new |-> j.dest]
  <1>1. /\ j.pc = "journal"
        /\ RowOf(j) # None
        /\ from # None
        /\ moves' = [moves EXCEPT ![j.asset][j.kind] = row]
        /\ Continue(w, [j EXCEPT !.pc = pc, !.from = from])
        /\ UNCHANGED <<fs, db, config, faults, interrupts, changes>>
    BY DEF ResumeMove, At
  <1>2. /\ JobOK(j) /\ lock = w /\ j.asset \in Assets /\ j.kind \in Kinds
        /\ j.dest \in Path /\ j.dest \in PathsOf(j.kind)
    BY <1>1, MovingJob DEF Moving
  <1>3. from \in Path /\ from.kind = j.kind
    <2>1. /\ RowOf(j) \in Row
          /\ RowOf(j).old.kind = j.kind /\ RowOf(j).new.kind = j.kind
      BY <1>1, <1>2 DEF IndInv, TypeOK, RowOf
    <2>2. from \in {RowOf(j).old, RowOf(j).new}
      BY <1>1 DEF ActualPath
    <2> QED BY <2>1, <2>2 DEF Row
  <1>4. row \in Row /\ row.old.kind = j.kind /\ row.new.kind = j.kind
    BY <1>2, <1>3, PathKinds DEF Row
  <1>5. /\ moves' \in [Assets -> [Kinds -> Row \union {None}]]
        /\ \A b \in Assets, h \in Kinds :
             moves'[b][h] # None => moves'[b][h].old.kind = h /\ moves'[b][h].new.kind = h
    BY <1>1, <1>2, <1>4, RowWritten DEF IndInv
  <1>6. pc \in {"transfer", "save"} /\ (pc = "transfer" => from # j.dest)
    OBVIOUS
  <1> HIDE DEF pc, from
  <1>7. /\ JobOK([j EXCEPT !.pc = pc, !.from = from])
        /\ [j EXCEPT !.pc = pc, !.from = from].pc # "loaded"
        /\ job'[w] = [j EXCEPT !.pc = pc, !.from = from] => DiskAgrees(job[w])'
    BY <1>1, <1>3, <1>6, JournaledJob
  <1>8. TypeOK
    BY DEF IndInv
  <1> DEFINE next == [j EXCEPT !.pc = pc, !.from = from]
  <1>9. /\ JobOK(next) /\ next.pc # "loaded" /\ Continue(w, next) /\ lock \in {w, None}
        /\ job'[w] = next => DiskAgrees(job[w])'
    BY <1>1, <1>2, <1>7
  <1> HIDE DEF next
  <1> QED BY <1>1, <1>5, <1>8, <1>9, StepOK, UnchangedOK

LEMMA AbandonMoveOK == ASSUME IndInv, NEW w \in Workers, AbandonMove(w) PROVE IndInv'
  <1>1. /\ job[w].pc \in Moving /\ Continue(w, AfterMove(job[w]))
        /\ UNCHANGED <<fs, db, moves, config, faults, interrupts, changes>>
    BY DEF AbandonMove, At, Moving
  <1> QED BY <1>1, ReturnStep, QuietStep DEF IndInv, TypeOK

LEMMA RefuseMoveOK == ASSUME IndInv, NEW w \in Workers, RefuseMove(w) PROVE IndInv'
  <1>1. /\ job[w].pc \in Moving /\ Continue(w, Idle)
        /\ UNCHANGED <<fs, db, moves, config, faults, interrupts, changes>>
    BY DEF RefuseMove, At, Moving
  <1>2. lock = w
    BY <1>1, MovingJob
  <1>3. JobOK(Idle) /\ Idle.pc = "idle"
    BY NoneAssumption DEF JobOK, Job, Idle, Kinds, Moving
  <1>4. job'[w] = Idle => DiskAgrees(job[w])'
    BY <1>3 DEF DiskAgrees
  <1> QED BY <1>1, <1>2, <1>3, <1>4, QuietStep DEF IndInv, TypeOK

LEMMA FailRenameOK == ASSUME IndInv, NEW w \in Workers, FailRename(w) PROVE IndInv'
  <1>1. /\ job[w].pc \in Moving /\ Continue(w, AfterMove(job[w]))
        /\ UNCHANGED <<fs, db, moves, config, interrupts, changes>>
    BY DEF FailRename, At, Moving
  <1>2. faults' \in 0..MaxFaults
    BY ConstantsAssumption DEF FailRename, Fault, IndInv, TypeOK
  <1> QED BY <1>1, <1>2, ReturnStep, QuietStep

\* The job of a worker that goes on to the next step of the same move.
LEMMA NextStepJob ==
    ASSUME IndInv, NEW w \in Workers, NEW pc,
           \/ /\ job[w].pc \in {"transfer", "copying", "verify", "unlink"}
              /\ pc \in {"copying", "verify", "unlink", "save"}
           \/ job[w].pc = "save" /\ pc = "forget"
    PROVE  /\ JobOK([job[w] EXCEPT !.pc = pc])
           /\ [job[w] EXCEPT !.pc = pc].pc = pc
           /\ [job[w] EXCEPT !.pc = pc].dest = job[w].dest
           /\ [job[w] EXCEPT !.pc = pc].from = job[w].from
           /\ [job[w] EXCEPT !.pc = pc].kind = job[w].kind
  <1>1. JobOK(job[w])
    BY DEF IndInv, TypeOK
  <1> DEFINE j == [job[w] EXCEPT !.pc = pc]
  <1>2. /\ j \in Job /\ j.pc = pc /\ j.from = job[w].from /\ j.dest = job[w].dest
        /\ j.kind = job[w].kind /\ j.asset = job[w].asset /\ j.src = job[w].src
    BY <1>1 DEF JobOK, Job, Moving
  <1> QED BY <1>1, <1>2 DEF JobOK, Moving

LEMMA RenameOK == ASSUME IndInv, NEW w \in Workers, Rename(w) PROVE IndInv'
  <1> DEFINE j    == job[w]
             next == [j EXCEPT !.pc = "save"]
  <1>1. /\ j.pc = "transfer" /\ fs[j.from] # None
        /\ fs' = [fs EXCEPT ![j.dest] = fs[j.from], ![j.from] = None]
        /\ Continue(w, next)
        /\ UNCHANGED <<db, moves, config, faults, interrupts, changes>>
    BY DEF Rename, At
  <1>2. /\ JobOK(j) /\ DiskAgrees(j) /\ lock = w /\ j.kind \in Kinds
        /\ j.dest \in PathsOf(j.kind) /\ j.dest \in Path
        /\ j.from \in PathsOf(j.kind) /\ j.from \in Path
    BY <1>1, MovingJob DEF Moving
  <1>3. JobOK(next) /\ next.pc = "save"
    BY <1>1, NextStepJob
  <1>4. TypeOK
    BY DEF IndInv
  <1>5. fs' \in [Path -> Content \union {None}]
    BY <1>1, <1>2, <1>4 DEF TypeOK
  <1>6. ASSUME OriginalsSurvive PROVE OriginalsSurvive'
    <2>1. CASE j.kind = "original"
      <3>1. fs[j.dest] = None /\ j.from # j.dest
        BY <1>1, <1>2, <2>1 DEF DiskAgrees, JobOK
      <3>2. /\ fs'[j.dest] = fs[j.from]
            /\ \A p \in Path \ {j.dest, j.from} : fs'[p] = fs[p]
        BY <1>1, <1>2, <1>4, <3>1 DEF TypeOK
      <3>3. SUFFICES ASSUME NEW a \in Assets, NEW p \in PathsOf("original"),
                            fs[p] = Whole(a, "original")
                     PROVE  \E q \in PathsOf("original") : fs'[q] = Whole(a, "original")
        BY <1>6, SurvivalStep
      <3>4. Whole(a, "original") # None
        BY NoneAssumption DEF Whole, Content, Kinds
      <3> QED BY <1>2, <2>1, <3>1, <3>2, <3>3, <3>4, PathKinds DEF Kinds
    <2>2. CASE j.kind = "sidecar"
      <3>1. \A p \in PathsOf("original") : fs'[p] = fs[p]
        BY <1>1, <1>2, <1>4, <2>2, PathKinds DEF TypeOK, Kinds
      <3> QED BY <1>6, <3>1, SidecarStep
    <2> QED BY <1>2, <2>1, <2>2 DEF Kinds
  <1>7. job'[w] = next => DiskAgrees(job[w])'
    BY <1>3 DEF DiskAgrees
  <1> HIDE DEF next, j
  <1> QED BY <1>1, <1>2, <1>3, <1>4, <1>5, <1>6, <1>7, StepOK, UnchangedOK

LEMMA StartCopyOK == ASSUME IndInv, NEW w \in Workers, StartCopy(w) PROVE IndInv'
  <1> DEFINE j    == job[w]
             next == [j EXCEPT !.pc = "copying"]
             part == [fs[j.from] EXCEPT !.bytes = "short"]
  <1>1. /\ j.pc = "transfer" /\ fs[j.from] # None
        /\ fs' = [fs EXCEPT ![j.dest] = part]
        /\ Continue(w, next)
        /\ UNCHANGED <<db, moves, config, faults, interrupts, changes>>
    BY DEF StartCopy, At
  <1>2. /\ JobOK(j) /\ DiskAgrees(j) /\ lock = w /\ j.kind \in Kinds
        /\ j.dest \in PathsOf(j.kind) /\ j.dest \in Path
        /\ j.from \in PathsOf(j.kind) /\ j.from \in Path
    BY <1>1, MovingJob DEF Moving
  <1>3. /\ JobOK(next) /\ next.pc = "copying" /\ next.dest = j.dest
        /\ next.from = j.from /\ next.kind = j.kind
    BY <1>1, NextStepJob
  <1>4. TypeOK /\ j.from # j.dest
    BY <1>1, <1>2 DEF IndInv, JobOK
  <1>5. part \in Content /\ part.bytes = "short" /\ part # None
    BY <1>1, <1>2, <1>4, DamagedContent, NoneAssumption DEF TypeOK, Damage
  <1> HIDE DEF part
  <1>6. /\ fs' \in [Path -> Content \union {None}]
        /\ fs'[j.dest] = part /\ \A p \in Path \ {j.dest} : fs'[p] = fs[p]
    BY <1>1, <1>2, <1>4, <1>5 DEF TypeOK
  <1>7. ASSUME OriginalsSurvive PROVE OriginalsSurvive'
    <2>1. CASE j.kind = "original"
      <3>1. fs[j.dest] = None
        BY <1>1, <1>2, <2>1 DEF DiskAgrees
      <3>2. SUFFICES ASSUME NEW a \in Assets, NEW p \in PathsOf("original"),
                            fs[p] = Whole(a, "original")
                     PROVE  \E q \in PathsOf("original") : fs'[q] = Whole(a, "original")
        BY <1>7, SurvivalStep
      <3>3. Whole(a, "original") # None
        BY NoneAssumption DEF Whole, Content, Kinds
      <3> QED BY <1>6, <3>1, <3>2, <3>3, PathKinds DEF Kinds
    <2>2. CASE j.kind = "sidecar"
      <3>1. \A p \in PathsOf("original") : fs'[p] = fs[p]
        BY <1>2, <1>6, <2>2, PathKinds DEF Kinds
      <3> QED BY <1>7, <3>1, SidecarStep
    <2> QED BY <1>2, <2>1, <2>2 DEF Kinds
  <1>8. job'[w] = next => DiskAgrees(job[w])'
    BY <1>1, <1>2, <1>3, <1>4, <1>5, <1>6 DEF DiskAgrees
  <1> HIDE DEF next, j
  <1> QED BY <1>1, <1>2, <1>3, <1>4, <1>6, <1>7, <1>8, StepOK, UnchangedOK

LEMMA FinishCopyOK == ASSUME IndInv, NEW w \in Workers, FinishCopy(w) PROVE IndInv'
  <1> DEFINE j    == job[w]
             next == [j EXCEPT !.pc = "verify"]
  <1>1. /\ j.pc = "copying" /\ Continue(w, next)
        /\ UNCHANGED <<db, moves, config, interrupts, changes>>
    BY DEF FinishCopy, At
  <1>2. /\ JobOK(j) /\ DiskAgrees(j) /\ lock = w /\ j.kind \in Kinds
        /\ j.dest \in PathsOf(j.kind) /\ j.dest \in Path
        /\ j.from \in PathsOf(j.kind) /\ j.from \in Path
    BY <1>1, MovingJob DEF Moving
  <1>3. /\ JobOK(next) /\ next.pc = "verify" /\ next.dest = j.dest
        /\ next.from = j.from /\ next.kind = j.kind
    BY <1>1, NextStepJob
  <1>4. TypeOK /\ j.from # j.dest /\ fs[j.from] \in Content
    BY <1>1, <1>2 DEF IndInv, JobOK, TypeOK, DiskAgrees
  <1>5. PICK new \in Content :
          /\ fs' = [fs EXCEPT ![j.dest] = new]
          /\ new = fs[j.from] \/ new.bytes \in CopyFaults
          /\ faults' \in 0..MaxFaults
    <2>1. CASE fs' = [fs EXCEPT ![j.dest] = fs[j.from]] /\ UNCHANGED faults
      BY <1>4, <2>1, UnchangedOK
    <2>2. CASE \E damage \in CopyFaults :
                 fs' = [fs EXCEPT ![j.dest] = [fs[j.from] EXCEPT !.bytes = damage]] /\ Fault
      <3>1. faults' \in 0..MaxFaults
        BY <1>4, <2>2, ConstantsAssumption DEF Fault, TypeOK
      <3>2. PICK damage \in CopyFaults :
              fs' = [fs EXCEPT ![j.dest] = [fs[j.from] EXCEPT !.bytes = damage]]
        BY <2>2
      <3>3. /\ [fs[j.from] EXCEPT !.bytes = damage] \in Content
            /\ [fs[j.from] EXCEPT !.bytes = damage].bytes = damage
        BY <1>4, DamagedContent, ConstantsAssumption
      <3> QED BY <3>1, <3>2, <3>3
    <2> QED BY <2>1, <2>2 DEF FinishCopy
  <1>6. /\ fs' \in [Path -> Content \union {None}]
        /\ fs'[j.dest] = new /\ \A p \in Path \ {j.dest} : fs'[p] = fs[p]
    BY <1>2, <1>4, <1>5 DEF TypeOK
  <1>7. ASSUME OriginalsSurvive PROVE OriginalsSurvive'
    <2>1. CASE j.kind = "original"
      <3>1. fs[j.dest].bytes = "short"
        BY <1>1, <1>2, <2>1 DEF DiskAgrees
      <3>2. SUFFICES ASSUME NEW a \in Assets, NEW p \in PathsOf("original"),
                            fs[p] = Whole(a, "original")
                     PROVE  \E q \in PathsOf("original") : fs'[q] = Whole(a, "original")
        BY <1>7, SurvivalStep
      <3>3. p # j.dest
        BY <3>1, <3>2 DEF Whole
      <3> QED BY <1>6, <3>2, <3>3, PathKinds DEF Kinds
    <2>2. CASE j.kind = "sidecar"
      <3>1. \A p \in PathsOf("original") : fs'[p] = fs[p]
        BY <1>2, <1>6, <2>2, PathKinds DEF Kinds
      <3> QED BY <1>7, <3>1, SidecarStep
    <2> QED BY <1>2, <2>1, <2>2 DEF Kinds
  <1>8. job'[w] = next => DiskAgrees(job[w])'
    BY <1>2, <1>3, <1>4, <1>5, <1>6, NoneAssumption DEF DiskAgrees
  <1> HIDE DEF next, j
  <1> QED BY <1>1, <1>2, <1>3, <1>4, <1>5, <1>6, <1>7, <1>8, StepOK, UnchangedOK

LEMMA AcceptCopyOK == ASSUME IndInv, NEW w \in Workers, AcceptCopy(w) PROVE IndInv'
  <1> DEFINE j    == job[w]
             next == [j EXCEPT !.pc = "unlink"]
  <1>1. /\ j.pc = "verify" /\ Matches(j, j.from, j.dest) /\ Continue(w, next)
        /\ UNCHANGED <<fs, db, moves, config, faults, interrupts, changes>>
    BY DEF AcceptCopy, At
  <1>2. /\ JobOK(j) /\ DiskAgrees(j) /\ lock = w /\ j.asset \in Assets
    BY <1>1, MovingJob DEF Moving
  <1>3. /\ JobOK(next) /\ next.pc = "unlink" /\ next.dest = j.dest
        /\ next.from = j.from /\ next.kind = j.kind
    BY <1>1, NextStepJob
  <1>4. j.kind = "original" /\ CopiesAreChecked => fs[j.dest] = fs[j.from]
    <2> SUFFICES ASSUME j.kind = "original", CopiesAreChecked, fs[j.dest] # fs[j.from]
                 PROVE  FALSE
      OBVIOUS
    <2>1. fs[j.dest].bytes \in CopyFaults
      BY <1>1, <1>2 DEF DiskAgrees
    <2>2. Size(fs[j.dest]) = ExifSize[j.asset] /\ ExifSize[j.asset] > 0
      BY <1>1, <1>2 DEF Matches, JobOK, Moving
    <2>3. fs[j.dest].bytes # "short"
      BY <2>2 DEF Size
    <2>4. fs[j.dest].bytes = "garbled"
      BY <2>1, <2>3, ConstantsAssumption DEF Damage
    <2>5. config.hashVerification
      BY <2>1, <2>4 DEF CopiesAreChecked, IndInv, TypeOK
    <2>6. fs[j.dest].bytes = "whole"
      BY <1>1, <2>5 DEF Matches, Whole
    <2> QED BY <2>4, <2>6
  <1>5. job'[w] = next => DiskAgrees(job[w])'
    BY <1>1, <1>3, <1>4 DEF DiskAgrees
  <1>6. TypeOK
    BY DEF IndInv
  <1> HIDE DEF next, j
  <1> QED BY <1>1, <1>2, <1>3, <1>5, <1>6, QuietStep, UnchangedOK

LEMMA RejectCopyOK == ASSUME IndInv, NEW w \in Workers, RejectCopy(w) PROVE IndInv'
  <1> DEFINE j    == job[w]
             next == AfterMove(j)
  <1>1. /\ j.pc = "verify" /\ fs' = [fs EXCEPT ![j.dest] = None] /\ Continue(w, next)
        /\ UNCHANGED <<db, moves, config, faults, interrupts, changes>>
    BY DEF RejectCopy, At
  <1>2. /\ JobOK(j) /\ DiskAgrees(j) /\ lock = w /\ j.kind \in Kinds
        /\ j.dest \in PathsOf(j.kind) /\ j.dest \in Path
        /\ j.from \in PathsOf(j.kind) /\ j.from \in Path
    BY <1>1, MovingJob DEF Moving
  <1>3. /\ JobOK(next) /\ next.pc # "loaded" /\ lock \in {w, None}
        /\ job'[w] = next => DiskAgrees(job[w])'
    BY <1>1, ReturnStep DEF Moving
  <1>4. TypeOK /\ j.from # j.dest
    BY <1>1, <1>2 DEF IndInv, JobOK
  <1>5. /\ fs' \in [Path -> Content \union {None}]
        /\ \A p \in Path \ {j.dest} : fs'[p] = fs[p]
    BY <1>1, <1>2, <1>4 DEF TypeOK
  <1>6. ASSUME OriginalsSurvive PROVE OriginalsSurvive'
    <2>1. CASE j.kind = "original"
      <3>1. fs[j.dest] = fs[j.from] \/ fs[j.dest].bytes \in CopyFaults
        BY <1>1, <1>2, <2>1 DEF DiskAgrees
      <3>2. SUFFICES ASSUME NEW a \in Assets, NEW p \in PathsOf("original"),
                            fs[p] = Whole(a, "original")
                     PROVE  \E q \in PathsOf("original") : fs'[q] = Whole(a, "original")
        BY <1>6, SurvivalStep
      <3>3. CASE p = j.dest
        <4>1. fs[j.from] = Whole(a, "original")
          BY <3>1, <3>2, <3>3, ConstantsAssumption DEF Whole, Damage
        <4> QED BY <1>2, <1>4, <1>5, <2>1, <4>1
      <3>4. CASE p # j.dest
        BY <1>5, <3>2, <3>4, PathKinds DEF Kinds
      <3> QED BY <3>3, <3>4
    <2>2. CASE j.kind = "sidecar"
      <3>1. \A p \in PathsOf("original") : fs'[p] = fs[p]
        BY <1>2, <1>5, <2>2, PathKinds DEF Kinds
      <3> QED BY <1>6, <3>1, SidecarStep
    <2> QED BY <1>2, <2>1, <2>2 DEF Kinds
  <1> HIDE DEF next, j
  <1> QED BY <1>1, <1>3, <1>4, <1>5, <1>6, StepOK, UnchangedOK

LEMMA UnlinkOldOK == ASSUME IndInv, NEW w \in Workers, UnlinkOld(w) PROVE IndInv'
  <1> DEFINE j    == job[w]
             next == [j EXCEPT !.pc = "save"]
  <1>1. /\ j.pc = "unlink" /\ Continue(w, next)
        /\ \/ fs' = [fs EXCEPT ![j.from] = None] /\ UNCHANGED faults
           \/ UNCHANGED fs /\ Fault
        /\ UNCHANGED <<db, moves, config, interrupts, changes>>
    BY DEF UnlinkOld, At
  <1>2. /\ JobOK(j) /\ DiskAgrees(j) /\ lock = w /\ j.kind \in Kinds
        /\ j.dest \in PathsOf(j.kind) /\ j.dest \in Path
        /\ j.from \in PathsOf(j.kind) /\ j.from \in Path
    BY <1>1, MovingJob DEF Moving
  <1>3. JobOK(next) /\ next.pc = "save"
    BY <1>1, NextStepJob
  <1>4. TypeOK /\ j.from # j.dest
    BY <1>1, <1>2 DEF IndInv, JobOK
  <1>5. /\ fs' \in [Path -> Content \union {None}]
        /\ \A p \in Path \ {j.from} : fs'[p] = fs[p]
        /\ faults' \in 0..MaxFaults
    <2>1. CASE fs' = [fs EXCEPT ![j.from] = None] /\ UNCHANGED faults
      BY <1>2, <1>4, <2>1 DEF TypeOK
    <2>2. CASE UNCHANGED fs /\ Fault
      BY <1>4, <2>2, ConstantsAssumption DEF TypeOK, Fault
    <2> QED BY <1>1, <2>1, <2>2
  <1>6. ASSUME CopiesAreChecked, OriginalsSurvive PROVE OriginalsSurvive'
    <2>1. CASE j.kind = "original"
      <3>1. fs[j.dest] = fs[j.from]
        BY <1>1, <1>2, <1>6, <2>1 DEF DiskAgrees
      <3>2. SUFFICES ASSUME NEW a \in Assets, NEW p \in PathsOf("original"),
                            fs[p] = Whole(a, "original")
                     PROVE  \E q \in PathsOf("original") : fs'[q] = Whole(a, "original")
        BY <1>6, SurvivalStep
      <3>3. CASE p = j.from
        BY <1>2, <1>4, <1>5, <2>1, <3>1, <3>2, <3>3
      <3>4. CASE p # j.from
        BY <1>5, <3>2, <3>4, PathKinds DEF Kinds
      <3> QED BY <3>3, <3>4
    <2>2. CASE j.kind = "sidecar"
      <3>1. \A p \in PathsOf("original") : fs'[p] = fs[p]
        BY <1>2, <1>5, <2>2, PathKinds DEF Kinds
      <3> QED BY <1>6, <3>1, SidecarStep
    <2> QED BY <1>2, <2>1, <2>2 DEF Kinds
  <1>7. job'[w] = next => DiskAgrees(job[w])'
    BY <1>3 DEF DiskAgrees
  <1> HIDE DEF next, j
  <1> QED BY <1>1, <1>2, <1>3, <1>4, <1>5, <1>6, <1>7, StepOK, UnchangedOK

LEMMA SavePathOK == ASSUME IndInv, NEW w \in Workers, SavePath(w) PROVE IndInv'
  <1> DEFINE j    == job[w]
             next == [j EXCEPT !.pc = "forget"]
  <1>1. /\ j.pc = "save" /\ Continue(w, next)
        /\ db' = [db EXCEPT ![j.asset][j.kind] = j.dest]
        /\ UNCHANGED <<fs, moves, config, faults, interrupts, changes>>
    BY DEF SavePath, At
  <1>2. /\ JobOK(j) /\ lock = w /\ j.kind \in Kinds /\ j.asset \in Assets
        /\ j.dest \in PathsOf(j.kind) /\ j.dest \in Path
    BY <1>1, MovingJob DEF Moving
  <1>3. JobOK(next) /\ next.pc = "forget"
    BY <1>1, NextStepJob
  <1>4. TypeOK
    BY DEF IndInv
  <1>5. j.dest # None /\ j.dest.kind = j.kind
    BY <1>2, PathKinds, NoneAssumption
  <1>6. db' \in [Assets -> [Kinds -> Path \union {None}]]
    BY <1>1, <1>2, <1>4 DEF TypeOK
  <1>7. \A a \in Assets, k \in Kinds :
          db'[a][k] = IF a = j.asset /\ k = j.kind THEN j.dest ELSE db[a][k]
    BY <1>1, <1>2, <1>4 DEF TypeOK
  <1>8. /\ \A a \in Assets, k \in Kinds : db'[a][k] # None => db'[a][k].kind = k
        /\ \A a \in Assets : db'[a]["original"] # None
    BY <1>4, <1>5, <1>7 DEF TypeOK, Kinds
  <1>9. job'[w] = next => DiskAgrees(job[w])'
    BY <1>3 DEF DiskAgrees
  <1> HIDE DEF next, j
  <1> QED BY <1>1, <1>2, <1>3, <1>4, <1>6, <1>8, <1>9, StepOK, UnchangedOK

LEMMA ForgetMoveOK == ASSUME IndInv, NEW w \in Workers, ForgetMove(w) PROVE IndInv'
  <1> DEFINE j    == job[w]
             next == AfterMove(j)
  <1>1. /\ j.pc = "forget" /\ Continue(w, next)
        /\ moves' = [moves EXCEPT ![j.asset][j.kind] = None]
        /\ UNCHANGED <<fs, db, config, faults, interrupts, changes>>
    BY DEF ForgetMove, At
  <1>2. j.kind \in Kinds /\ j.asset \in Assets
    BY <1>1, MovingJob DEF Moving
  <1>3. /\ JobOK(next) /\ next.pc # "loaded" /\ lock \in {w, None}
        /\ job'[w] = next => DiskAgrees(job[w])'
    BY <1>1, ReturnStep DEF Moving
  <1>4. TypeOK
    BY DEF IndInv
  <1>5. /\ moves' \in [Assets -> [Kinds -> Row \union {None}]]
        /\ \A b \in Assets, h \in Kinds :
             moves'[b][h] # None => moves'[b][h].old.kind = h /\ moves'[b][h].new.kind = h
    BY <1>1, <1>2, <1>4, RowWritten
  <1> HIDE DEF next, j
  <1> QED BY <1>1, <1>3, <1>4, <1>5, StepOK, UnchangedOK

LEMMA InterruptOK == ASSUME IndInv, NEW w \in Workers, Interrupt(w) PROVE IndInv'
  <1>1. /\ job' = [job EXCEPT ![w] = Idle] /\ lock' = IF lock = w THEN None ELSE lock
        /\ interrupts < MaxInterrupts /\ interrupts' = interrupts + 1
        /\ UNCHANGED <<fs, db, moves, config, faults, changes>>
    BY DEF Interrupt
  <1>2. TypeOK /\ LockHeld /\ \A u \in Workers : DiskAgrees(job[u])
    BY DEF IndInv, MoveDiscipline
  <1>3. JobOK(Idle) /\ Idle.pc = "idle"
    BY NoneAssumption DEF JobOK, Job, Idle, Kinds, Moving
  <1>4. job'[w] = Idle /\ \A u \in Workers \ {w} : job'[u] = job[u]
    BY <1>1, <1>2 DEF TypeOK
  <1>5. job' \in [Workers -> Job] /\ \A u \in Workers : JobOK(job'[u])
    BY <1>1, <1>2, <1>3, <1>4 DEF TypeOK, JobOK
  <1>6. interrupts' \in 0..MaxInterrupts /\ lock' \in Workers \union {None}
    BY <1>1, <1>2, ConstantsAssumption DEF TypeOK
  <1>7. TypeOK'
    BY <1>1, <1>2, <1>5, <1>6, UnchangedOK DEF TypeOK
  <1>8. LockHeld'
    BY <1>1, <1>2, <1>3, <1>4 DEF LockHeld, Moving
  <1>9. \A u \in Workers : DiskAgrees(job[u])'
    BY <1>1, <1>2, <1>3, <1>4 DEF DiskAgrees
  <1> QED BY <1>1, <1>2, <1>7, <1>8, <1>9, UnchangedOK DEF IndInv, MoveDiscipline

LEMMA ChangeConfigOK == ASSUME IndInv, ChangeConfig PROVE IndInv'
  <1>1. /\ config' \in Configs /\ changes < MaxChanges /\ changes' = changes + 1
        /\ UNCHANGED <<fs, db, moves, lock, job, faults, interrupts>>
    BY DEF ChangeConfig
  <1>2. TypeOK /\ LockHeld /\ \A u \in Workers : DiskAgrees(job[u])
    BY DEF IndInv, MoveDiscipline
  <1>3. changes' \in 0..MaxChanges
    BY <1>1, <1>2, ConstantsAssumption DEF TypeOK
  <1>4. TypeOK'
    BY <1>1, <1>2, <1>3, UnchangedOK DEF TypeOK
  <1>5. MoveDiscipline'
    BY <1>1, <1>2 DEF MoveDiscipline, LockHeld, DiskAgrees
  <1> QED BY <1>1, <1>2, <1>4, <1>5, UnchangedOK DEF IndInv

LEMMA StutterOK == ASSUME IndInv, UNCHANGED vars PROVE IndInv'
  BY DEF vars, IndInv, TypeOK, MoveDiscipline, LockHeld, DiskAgrees, OriginalsSurvive

LEMMA NextOK == IndInv /\ [Next]_vars => IndInv'
  <1> SUFFICES ASSUME IndInv, [Next]_vars PROVE IndInv'
    OBVIOUS
  <1>1. CASE UNCHANGED vars
    BY <1>1, StutterOK
  <1>2. CASE ChangeConfig
    BY <1>2, ChangeConfigOK
  <1>3. ASSUME NEW w \in Workers, Step(w) PROVE IndInv'
    BY <1>3, StartMoveOK, CreateMoveOK, ResumeMoveOK, AbandonMoveOK, RefuseMoveOK,
       RenameOK, FailRenameOK, StartCopyOK, FinishCopyOK, AcceptCopyOK, RejectCopyOK,
       UnlinkOldOK, SavePathOK, ForgetMoveOK DEF Step
  <1>4. ASSUME NEW w \in Workers, Interrupt(w) PROVE IndInv'
    BY <1>4, InterruptOK
  <1>5. ASSUME NEW w \in Workers, NEW a \in Assets, Load(w, a) PROVE IndInv'
    BY <1>5, LoadOK
  <1> QED BY <1>1, <1>2, <1>3, <1>4, <1>5 DEF Next

\* The only steps that write to disk, and where.
LEMMA DiskWrites ==
    ASSUME IndInv, NEW w \in Workers, Step(w)
    PROVE  \/ fs' = fs
           \/ /\ job[w].dest \in PathsOf(job[w].kind) /\ job[w].kind \in Kinds
              /\ \/ \A p \in Path : fs'[p] \in {fs[p], None}
                 \/ /\ \A p \in Path \ {job[w].dest} : fs'[p] \in {fs[p], None}
                    /\ job[w].kind = "original" =>
                         fs[job[w].dest] = None \/ fs[job[w].dest].bytes = "short"
  <1> DEFINE j == job[w]
  <1>1. TypeOK
    BY DEF IndInv
  <1>2. ASSUME j.pc \in {"transfer", "copying", "verify", "unlink"}
        PROVE  /\ DiskAgrees(j) /\ j.dest \in PathsOf(j.kind) /\ j.kind \in Kinds
               /\ j.dest \in Path /\ j.from \in Path
    BY <1>2, MovingJob DEF Moving
  <1>3. CASE Rename(w)
    <2>1. /\ j.pc = "transfer"
          /\ fs' = [fs EXCEPT ![j.dest] = fs[j.from], ![j.from] = None]
      BY <1>3 DEF Rename, At
    <2> QED BY <1>1, <1>2, <2>1 DEF TypeOK, DiskAgrees
  <1>4. CASE StartCopy(w)
    <2>1. /\ j.pc = "transfer"
          /\ fs' = [fs EXCEPT ![j.dest] = [fs[j.from] EXCEPT !.bytes = "short"]]
      BY <1>4 DEF StartCopy, At
    <2> QED BY <1>1, <1>2, <2>1 DEF TypeOK, DiskAgrees
  <1>5. CASE FinishCopy(w)
    <2>1. j.pc = "copying" /\ \E new : fs' = [fs EXCEPT ![j.dest] = new]
      BY <1>5 DEF FinishCopy, At
    <2> QED BY <1>1, <1>2, <2>1 DEF TypeOK, DiskAgrees
  <1>6. CASE RejectCopy(w)
    <2>1. j.pc = "verify" /\ fs' = [fs EXCEPT ![j.dest] = None]
      BY <1>6 DEF RejectCopy, At
    <2> QED BY <1>1, <1>2, <2>1 DEF TypeOK
  <1>7. CASE UnlinkOld(w)
    <2>1. j.pc = "unlink" /\ (fs' = fs \/ fs' = [fs EXCEPT ![j.from] = None])
      BY <1>7 DEF UnlinkOld, At
    <2> QED BY <1>1, <1>2, <2>1 DEF TypeOK
  <1>8. CASE \/ StartMove(w) \/ CreateMove(w) \/ ResumeMove(w) \/ AbandonMove(w)
             \/ RefuseMove(w) \/ FailRename(w) \/ AcceptCopy(w) \/ SavePath(w) \/ ForgetMove(w)
    BY <1>8 DEF StartMove, CreateMove, ResumeMove, AbandonMove, RefuseMove, FailRename,
                AcceptCopy, SavePath, ForgetMove
  <1> QED BY <1>3, <1>4, <1>5, <1>6, <1>7, <1>8 DEF Step

LEMMA NotOverwrittenStep ==
    ASSUME IndInv, [Next]_vars, NEW p \in PathsOf("original"),
           fs[p] # None, fs[p].bytes = "whole"
    PROVE  fs'[p] \in {fs[p], None}
  <1>1. p \in Path /\ p.kind = "original"
    BY PathKinds DEF Kinds
  <1>2. CASE fs' = fs
    BY <1>2
  <1>3. ASSUME NEW w \in Workers, Step(w) PROVE fs'[p] \in {fs[p], None}
    <2>1. CASE job[w].kind = "original"
      BY <1>1, <1>3, <2>1, DiskWrites
    <2>2. CASE job[w].kind # "original"
      BY <1>1, <1>3, <2>2, DiskWrites, PathKinds
    <2> QED BY <2>1, <2>2
  <1>4. fs' = fs \/ \E w \in Workers : Step(w)
    BY DEF Next, vars, Interrupt, Load, ChangeConfig
  <1> QED BY <1>2, <1>3, <1>4

-----------------------------------------------------------------------------
(***************************************************************************)
(* Records and journal lead to the originals.                              *)
(***************************************************************************)

\* The template stays the same: otherwise the path a move has left may be given
\* to another asset before the move is known to be complete.
OneTemplate == MaxChanges = 0

\* One move at most is cut off: a second would leave a journal row whose old
\* path is in the library and free.
OneInterrupt == MaxInterrupts <= 1

Up(a)    == UploadPath(a, "original")
Bytes(a) == Whole(a, "original")
Place(a) == db[a]["original"]
Entry(a) == moves[a]["original"]
Under(a) == {p \in PathsOf("original") : p.base = config.template[a]}
Spent    == interrupts = MaxInterrupts

\* The holder of the lock is at one of these steps of the move of the original.
HolderAt(a, steps) ==
    /\ lock \in Workers
    /\ job[lock].asset = a /\ job[lock].kind = "original" /\ job[lock].pc \in steps
Landing(a)  == HolderAt(a, {"save", "forget"})
Arriving(a) == HolderAt(a, {"copying", "verify", "unlink", "save", "forget"})

PlaceFine(a) == Place(a) \in {Up(a)} \union Under(a) /\ fs[Up(a)] \in {None, Bytes(a)}

\* What a journal row leads to belongs to its asset, whole at the old path, and
\* at the new one if the old is free.  That an old path is in the library takes
\* an interrupt, and no other can follow.
EntryFine(a) ==
    Entry(a) # None =>
      /\ Entry(a).old \in {Up(a)} \union Under(a) /\ Entry(a).new \in Under(a)
      /\ fs[Entry(a).old] \in {None, Bytes(a)}
      /\ fs[Entry(a).new] # None => fs[Entry(a).new].of = a /\ (Spent \/ Arriving(a))
      /\ fs[Entry(a).old] = None => fs[Entry(a).new] \in {None, Bytes(a)}
      /\ Entry(a).old # Up(a) => Spent /\ (fs[Entry(a).old] # None \/ Landing(a))

\* The bytes are where the record says, or where the journal does.
RecordFine(a) ==
    \/ fs[Place(a)] = Bytes(a)
    \/ /\ fs[Place(a)] = None /\ Entry(a) # None
       /\ fs[Entry(a).old] = Bytes(a) \/ fs[Entry(a).new] = Bytes(a)
       /\ Place(a) \in {Up(a), Entry(a).old}

NewPathsDiffer ==
    \A a, b \in Assets :
      a # b /\ Entry(a) # None /\ Entry(b) # None => Entry(a).new # Entry(b).new

\* What a worker knows of the original it moves.
JobFine(w) ==
    /\ job[w].pc # "idle" =>
         job[w].src["original"] \in {Up(job[w].asset)} \union Under(job[w].asset)
    /\ job[w].pc \in Moving /\ job[w].kind = "original" =>
         /\ job[w].src["original"] = Up(job[w].asset) /\ job[w].dest \in Under(job[w].asset)
         /\ job[w].pc # "journal" =>
              Entry(job[w].asset) = [old |-> job[w].from, new |-> job[w].dest]
         /\ job[w].pc \in {"transfer", "copying", "verify", "unlink"} =>
              Place(job[w].asset) # job[w].dest
         /\ job[w].pc \in {"copying", "verify", "unlink"} =>
              fs[job[w].from] = Bytes(job[w].asset)
         /\ job[w].pc \in {"unlink", "save", "forget"} =>
              fs[job[w].dest] = Bytes(job[w].asset)
         /\ job[w].pc = "forget" => Place(job[w].asset) = job[w].dest

TrackInv ==
    /\ \A a \in Assets : PlaceFine(a) /\ EntryFine(a) /\ RecordFine(a)
    /\ NewPathsDiffer
    /\ \A w \in Workers : JobFine(w)

\* Upload paths are private, and bytes show whose they are.
LEMMA Apart ==
    /\ \A a \in Assets : /\ Up(a) \in PathsOf("original") /\ Up(a) \in Path
                         /\ Bytes(a) \in Content /\ Bytes(a) # None /\ Bytes(a).of = a
                         /\ Bytes(a).bytes = "whole"
    /\ \A a, b \in Assets : TypeOK => Up(a) \notin Under(b)
    /\ \A a, b \in Assets : Up(a) = Up(b) => a = b
    /\ \A p \in PathsOf("original") : p \in Path
  <1>1. \A a \in Assets : Up(a) \in PathsOf("original") /\ Up(a).base = a
    BY ConstantsAssumption DEF Up, UploadPath, PathsOf
  <1>2. \A a \in Assets : /\ Bytes(a) \in Content /\ Bytes(a) # None /\ Bytes(a).of = a
                          /\ Bytes(a).bytes = "whole"
    BY NoneAssumption DEF Bytes, Whole, Content, Kinds
  <1>3. ASSUME NEW a \in Assets, NEW b \in Assets, TypeOK PROVE Up(a) \notin Under(b)
    <2>1. config.template[b] \in Bases \union {None}
      BY <1>3, ConstantsAssumption DEF TypeOK, Config
    <2> QED BY <1>1, <2>1, UploadsAreApart, NoneAssumption DEF Under
  <1>4. PathsOf("original") \subseteq Path
    BY PathKinds DEF Kinds
  <1> QED BY <1>1, <1>2, <1>3, <1>4

LEMMA InitTrack == Init => TrackInv
  <1> SUFFICES ASSUME Init PROVE TrackInv
    OBVIOUS
  <1>1. \A a \in Assets : Place(a) = Up(a) /\ Entry(a) = None
    BY DEF Init, Place, Entry, Up, Kinds
  <1>2. \A a \in Assets : fs[Up(a)] = Bytes(a)
    BY Apart DEF Init, Up, UploadPath, Bytes, Whole
  <1>3. \A w \in Workers : JobFine(w)
    BY DEF Init, JobFine, Idle, Moving
  <1> QED BY <1>1, <1>2, <1>3 DEF TrackInv, PlaceFine, EntryFine, RecordFine, NewPathsDiffer

-----------------------------------------------------------------------------
(***************************************************************************)
(* Steps that leave the originals, their records and rows alone.           *)
(***************************************************************************)
SameOriginals ==
    /\ \A p \in PathsOf("original") : fs'[p] = fs[p]
    /\ \A a \in Assets : Place(a)' = Place(a) /\ Entry(a)' = Entry(a)
    /\ config' = config

\* Nobody is cut off on the way from the copy to the end, or no other may be.
NobodyLost == \A a \in Assets :
    /\ Landing(a) => Landing(a)' \/ ~Spent
    /\ Arriving(a) => Arriving(a)' \/ Spent'

\* The paths of an original are paths of originals.
LEMMA OriginalPaths ==
    ASSUME TypeOK, NEW a \in Assets
    PROVE  /\ Place(a) \in PathsOf("original")
           /\ Entry(a) # None => /\ Entry(a) \in Row
                                 /\ Entry(a).old \in PathsOf("original")
                                 /\ Entry(a).new \in PathsOf("original")
  <1>1. db[a]["original"] \in Path /\ db[a]["original"].kind = "original"
    BY DEF TypeOK, Kinds
  <1>2. moves[a]["original"] # None =>
          /\ moves[a]["original"] \in Row
          /\ moves[a]["original"].old.kind = "original" /\ moves[a]["original"].new.kind = "original"
    BY DEF TypeOK, Kinds
  <1>3. \A row \in Row : row.old \in Path /\ row.new \in Path
    BY DEF Row
  <1> QED BY <1>1, <1>2, <1>3, PathKinds DEF Place, Entry

LEMMA SameUnder ==
    ASSUME config' = config, NEW a PROVE Under(a)' = Under(a)
  BY DEF Under

\* A worker that goes on with the same job knows what it knew.
LEMMA SameJob ==
    ASSUME TypeOK, SameOriginals, NEW w \in Workers, job'[w] = job[w], JobFine(w)
    PROVE  JobFine(w)'
  <1>1. JobOK(job[w])
    BY DEF TypeOK
  <1>2. job[w].pc \in Moving /\ job[w].kind = "original" =>
          /\ job[w].asset \in Assets
          /\ job[w].dest \in PathsOf("original")
          /\ job[w].pc # "journal" => job[w].from \in PathsOf("original")
    BY <1>1, PathKinds, NoneAssumption DEF JobOK, Job, Moving
  <1>3. job[w].pc # "idle" => job[w].asset \in Assets
    BY <1>1 DEF JobOK, Job
  <1>4. \A a : Under(a)' = Under(a)
    BY DEF SameOriginals, Under
  <1> QED BY <1>2, <1>3, <1>4 DEF JobFine, SameOriginals, Up, Bytes, Moving

LEMMA QuietTrack ==
    ASSUME TypeOK, TrackInv, SameOriginals, NobodyLost, Spent => Spent',
           \A w \in Workers : JobFine(w)'
    PROVE  TrackInv'
  <1>1. ASSUME NEW a \in Assets PROVE (PlaceFine(a) /\ EntryFine(a) /\ RecordFine(a))'
    <2>1. /\ Place(a)' = Place(a) /\ Entry(a)' = Entry(a) /\ Under(a)' = Under(a)
          /\ Place(a) \in PathsOf("original") /\ Up(a) \in PathsOf("original")
          /\ Entry(a) # None => /\ Entry(a).old \in PathsOf("original")
                                /\ Entry(a).new \in PathsOf("original")
      BY OriginalPaths, Apart, SameUnder DEF SameOriginals
    <2>2. Up(a)' = Up(a) /\ Bytes(a)' = Bytes(a)
      BY DEF Up, Bytes
    <2>3. /\ fs'[Place(a)] = fs[Place(a)] /\ fs'[Up(a)] = fs[Up(a)]
          /\ Entry(a) # None => /\ fs'[Entry(a).old] = fs[Entry(a).old]
                                /\ fs'[Entry(a).new] = fs[Entry(a).new]
      BY <2>1 DEF SameOriginals
    <2>4. PlaceFine(a) /\ EntryFine(a) /\ RecordFine(a)
      BY DEF TrackInv
    <2>5. PlaceFine(a)'
      BY <2>1, <2>2, <2>3, <2>4 DEF PlaceFine
    <2>6. RecordFine(a)'
      BY <2>1, <2>2, <2>3, <2>4 DEF RecordFine
    <2>7. EntryFine(a)'
      BY <2>1, <2>2, <2>3, <2>4 DEF EntryFine, NobodyLost
    <2> QED BY <2>5, <2>6, <2>7
  <1>2. NewPathsDiffer'
    BY DEF TrackInv, NewPathsDiffer, SameOriginals
  <1> QED BY <1>1, <1>2 DEF TrackInv

\* A step of another worker, or of one on its way to the copy, cuts nobody off.
LEMMA NobodyIsLost ==
    ASSUME TypeOK, NEW w \in Workers, \A u \in Workers \ {w} : job'[u] = job[u],
           lock' = lock \/ lock \in {w, None},
           \/ job[w].kind # "original"
           \/ job[w].pc \notin {"copying", "verify", "unlink", "save", "forget"}
    PROVE  NobodyLost
  BY NoneAssumption DEF NobodyLost, Landing, Arriving, HolderAt

\* Neither the end of a job nor the move of a sidecar concerns an original.
LEMMA LeavesOriginal ==
    ASSUME NEW w \in Workers, config' = config, JobFine(w),
           \/ job'[w].pc = "idle"
           \/ /\ job'[w].kind = "sidecar" /\ job[w].pc # "idle"
              /\ job'[w].asset = job[w].asset /\ job'[w].src = job[w].src
    PROVE  JobFine(w)'
  <1>1. \A x : Under(x)' = Under(x)
    BY DEF Under
  <1>2. job'[w].pc # "idle" =>
          job'[w].src["original"] \in {Up(job'[w].asset)} \union Under(job[w].asset)
    BY DEF JobFine
  <1> QED BY <1>1, <1>2 DEF JobFine, Up, Moving

\* What moveAsset goes on with does not concern an original.
LEMMA AfterMoveLeaves ==
    ASSUME IndInv, NEW w \in Workers, job[w].pc \in Moving, config' = config, JobFine(w),
           Continue(w, AfterMove(job[w]))
    PROVE  JobFine(w)'
  <1>1. job'[w] = AfterMove(job[w]) /\ job[w] \in Job
    BY DEF Continue, IndInv, TypeOK
  <1>2. CASE AfterMove(job[w]) = Idle
    BY <1>1, <1>2, LeavesOriginal DEF Idle
  <1>3. CASE AfterMove(job[w]) = [job[w] EXCEPT !.pc = "journal", !.kind = "sidecar",
                                   !.dest = Xmp(job[w].dest), !.from = None]
    BY <1>1, <1>3, LeavesOriginal DEF Job, Moving
  <1> QED BY <1>2, <1>3 DEF AfterMove

\* What Continue does to the jobs.
LEMMA Continued ==
    ASSUME TypeOK, NEW w \in Workers, NEW j, Continue(w, j)
    PROVE  job'[w] = j /\ \A u \in Workers \ {w} : job'[u] = job[u]
  BY DEF Continue, TypeOK

\* The steps by which nothing changes but the job of a worker.
LEMMA QuietJob ==
    ASSUME IndInv, TrackInv, NEW w \in Workers, SameOriginals, interrupts' = interrupts,
           \A u \in Workers \ {w} : job'[u] = job[u],
           lock' = lock \/ lock \in {w, None},
           \/ job[w].kind # "original"
           \/ job[w].pc \notin {"copying", "verify", "unlink", "save", "forget"},
           JobFine(w)'
    PROVE  TrackInv'
  <1>1. TypeOK /\ \A u \in Workers : JobFine(u)
    BY DEF IndInv, TrackInv
  <1>2. \A u \in Workers : JobFine(u)'
    BY <1>1, SameJob
  <1>3. NobodyLost /\ (Spent => Spent')
    BY <1>1, NobodyIsLost DEF Spent
  <1> QED BY <1>1, <1>2, <1>3, QuietTrack

LEMMA SameTables ==
    ASSUME fs' = fs, db' = db, moves' = moves, config' = config PROVE SameOriginals
  BY DEF SameOriginals, Place, Entry

LEMMA LoadTrack ==
    ASSUME IndInv, TrackInv, NEW w \in Workers, NEW a \in Assets, Load(w, a) PROVE TrackInv'
  <1> DEFINE j == [pc |-> "loaded", asset |-> a, kind |-> "original",
                   src |-> db[a], dest |-> None, from |-> None]
  <1>1. /\ job[w].pc = "idle" /\ job' = [job EXCEPT ![w] = j]
        /\ UNCHANGED <<fs, db, moves, lock, config, faults, interrupts, changes>>
    BY DEF Load, At
  <1>2. /\ job'[w] = j /\ \A u \in Workers \ {w} : job'[u] = job[u]
    BY <1>1 DEF IndInv, TypeOK
  <1>3. j.pc = "loaded" /\ j.asset = a /\ j.src["original"] = Place(a)
    BY DEF Place
  <1>4. Place(a) \in {Up(a)} \union Under(a)
    BY DEF TrackInv, PlaceFine
  <1> HIDE DEF j
  <1>5. JobFine(w)'
    BY <1>1, <1>2, <1>3, <1>4 DEF JobFine, Moving, Under, Up
  <1> QED BY <1>1, <1>2, <1>5, SameTables, QuietJob

LEMMA StartMoveTrack ==
    ASSUME IndInv, TrackInv, NEW w \in Workers, StartMove(w) PROVE TrackInv'
  <1> DEFINE a   == job[w].asset
             src == job[w].src["original"]
  <1>1. PICK dest \in TemplatePath(a, src) :
          Continue(w, IF ExifSize[a] = 0 THEN Idle
                      ELSE IF dest = src THEN AfterMove([job[w] EXCEPT !.pc = "journal", !.dest = dest])
                      ELSE [job[w] EXCEPT !.pc = "journal", !.dest = dest])
    BY DEF StartMove
  <1> DEFINE j == [job[w] EXCEPT !.pc = "journal", !.dest = dest]
  <1>2. /\ job[w].pc = "loaded" /\ job[w].kind = "original" /\ lock = None
        /\ UNCHANGED <<fs, db, moves, config, faults, interrupts, changes>>
        /\ TypeOK /\ job[w] \in Job /\ JobFine(w)
    BY DEF StartMove, At, IndInv, TypeOK, JobOK, TrackInv
  <1>3. /\ j.pc = "journal" /\ j.dest = dest /\ j.asset = a /\ j.kind = "original"
        /\ j.src = job[w].src
    BY <1>2 DEF Job
  <1>4. \A u \in Workers \ {w} : job'[u] = job[u]
    BY <1>1, <1>2, Continued
  <1>5. JobFine(w)'
    <2>1. CASE ExifSize[a] = 0
      <3>1. job'[w] = Idle
        BY <1>1, <1>2, <2>1, Continued
      <3> QED BY <1>2, <3>1, LeavesOriginal DEF Idle
    <2>2. CASE ExifSize[a] # 0 /\ dest = src
      <3>1. job'[w] = AfterMove(j)
        BY <1>1, <1>2, <2>2, Continued
      <3>2. \/ AfterMove(j) = Idle
            \/ /\ AfterMove(j).kind = "sidecar"
               /\ AfterMove(j).asset = a /\ AfterMove(j).src = job[w].src
        BY <1>2, <1>3 DEF AfterMove, Job
      <3> QED BY <1>2, <3>1, <3>2, LeavesOriginal DEF Idle
    <2>3. CASE ExifSize[a] # 0 /\ dest # src
      <3>1. job'[w] = j
        BY <1>1, <1>2, <2>3, Continued
      <3>2. dest \in Under(a) /\ src.base # config.template[a]
        BY <2>3 DEF TemplatePath, Under
      <3>3. src = Up(a)
        BY <1>2, <3>2 DEF JobFine, Under
      <3> HIDE DEF j, a, src
      <3>4. /\ job'[w].pc = "journal" /\ job'[w].asset = a /\ job'[w].dest = dest
            /\ job'[w].src["original"] = Up(a)
        BY <1>3, <3>1, <3>3 DEF src
      <3>5. \A x : Under(x)' = Under(x)
        BY <1>2 DEF Under
      <3> QED BY <3>2, <3>4, <3>5 DEF JobFine, Up, Moving
    <2> QED BY <2>1, <2>2, <2>3
  <1> QED BY <1>2, <1>4, <1>5, SameTables, QuietJob

\* moveFile returns before anything was copied.
LEMMA ReturnTrack ==
    ASSUME IndInv, TrackInv, NEW w \in Workers, job[w].pc \in {"journal", "transfer"},
           Continue(w, AfterMove(job[w])) \/ Continue(w, Idle),
           UNCHANGED <<fs, db, moves, config, interrupts, changes>>
    PROVE  TrackInv'
  <1>1. job[w].pc \in Moving /\ TypeOK /\ JobFine(w)
    BY DEF Moving, IndInv, TrackInv
  <1>2. lock = w
    BY <1>1, MovingJob
  <1>3. \A u \in Workers \ {w} : job'[u] = job[u]
    BY <1>1, Continued
  <1>4. JobFine(w)'
    <2>1. CASE Continue(w, AfterMove(job[w]))
      BY <1>1, <2>1, AfterMoveLeaves
    <2>2. CASE Continue(w, Idle)
      BY <1>1, <2>2, Continued, LeavesOriginal DEF Idle
    <2> QED BY <2>1, <2>2
  <1> QED BY <1>2, <1>3, <1>4, SameTables, QuietJob

\* How a worker that moves a sidecar goes on.
LEMMA SidecarGoesOn ==
    ASSUME IndInv, NEW w \in Workers, Step(w), job[w].pc \in Moving, job[w].kind = "sidecar"
    PROVE  \/ job'[w].pc = "idle"
           \/ /\ job'[w].kind = "sidecar" /\ job'[w].asset = job[w].asset
              /\ job'[w].src = job[w].src
  <1> DEFINE Goes(j) == \/ j.pc = "idle"
                        \/ j.kind = "sidecar" /\ j.asset = job[w].asset /\ j.src = job[w].src
  <1>1. TypeOK /\ job[w] \in Job
    BY DEF IndInv, TypeOK
  <1>2. AfterMove(job[w]) = Idle /\ Idle.pc = "idle"
    BY DEF AfterMove, Idle
  <1>3. \A pc, from : /\ Goes([job[w] EXCEPT !.pc = pc])
                      /\ Goes([job[w] EXCEPT !.pc = pc, !.from = from])
    BY <1>1 DEF Job
  <1>4. \E j : Continue(w, j) /\ Goes(j)
    <2> HIDE DEF Goes
    <2>1. Goes(Idle) /\ Goes(AfterMove(job[w]))
      BY <1>2 DEF Goes
    <2>2. CASE StartMove(w)
      BY <2>2 DEF StartMove, At, Moving
    <2>3. CASE CreateMove(w)
      BY <1>3, <2>3 DEF CreateMove
    <2>4. CASE ResumeMove(w)
      BY <1>3, <2>4 DEF ResumeMove
    <2>5. CASE AbandonMove(w) \/ RefuseMove(w) \/ FailRename(w) \/ RejectCopy(w) \/ ForgetMove(w)
      BY <2>1, <2>5 DEF AbandonMove, RefuseMove, FailRename, RejectCopy, ForgetMove
    <2>6. CASE Rename(w) \/ StartCopy(w) \/ FinishCopy(w) \/ AcceptCopy(w) \/ UnlinkOld(w) \/ SavePath(w)
      BY <1>3, <2>6 DEF Rename, StartCopy, FinishCopy, AcceptCopy, UnlinkOld, SavePath
    <2> QED BY <2>2, <2>3, <2>4, <2>5, <2>6 DEF Step
  <1> QED BY <1>1, <1>4, Continued

\* The move of a sidecar touches no original, nor what is known of one.
LEMMA SidecarApart ==
    ASSUME IndInv, NEW w \in Workers, Step(w), job[w].pc \in Moving, job[w].kind = "sidecar"
    PROVE  SameOriginals /\ interrupts' = interrupts
  <1>1. /\ TypeOK /\ job[w].asset \in Assets
        /\ job[w].dest \in Path /\ job[w].dest \notin PathsOf("original")
        /\ job[w].pc # "journal" => job[w].from \in Path /\ job[w].from \notin PathsOf("original")
    BY MovingJob, PathKinds DEF IndInv, Kinds
  <1>2. config' = config /\ interrupts' = interrupts
    BY DEF Step, StartMove, CreateMove, ResumeMove, AbandonMove, RefuseMove, Rename, FailRename,
           StartCopy, FinishCopy, AcceptCopy, RejectCopy, UnlinkOld, SavePath, ForgetMove
  <1>3. \A a \in Assets : Place(a)' = Place(a)
    <2>1. db' = db \/ db' = [db EXCEPT ![job[w].asset]["sidecar"] = job[w].dest]
      BY DEF Step, StartMove, CreateMove, ResumeMove, AbandonMove, RefuseMove, Rename, FailRename,
             StartCopy, FinishCopy, AcceptCopy, RejectCopy, UnlinkOld, SavePath, ForgetMove
    <2> QED BY <1>1, <2>1 DEF Place, TypeOK, Kinds
  <1>4. \A a \in Assets : Entry(a)' = Entry(a)
    <2>1. moves' = moves \/ \E row : moves' = [moves EXCEPT ![job[w].asset]["sidecar"] = row]
      BY DEF Step, StartMove, CreateMove, ResumeMove, AbandonMove, RefuseMove, Rename, FailRename,
             StartCopy, FinishCopy, AcceptCopy, RejectCopy, UnlinkOld, SavePath, ForgetMove
    <2>2. ASSUME NEW row, moves' = [moves EXCEPT ![job[w].asset]["sidecar"] = row], NEW a \in Assets
          PROVE  moves'[a]["original"] = moves[a]["original"]
      BY <1>1, <2>2 DEF TypeOK, Kinds
    <2> QED BY <2>1, <2>2 DEF Entry
  <1>5. \A p \in PathsOf("original") : fs'[p] = fs[p]
    <2>1. \/ fs' = fs
          \/ \E c : fs' = [fs EXCEPT ![job[w].dest] = c]
          \/ /\ job[w].pc # "journal"
             /\ \/ \E c : fs' = [fs EXCEPT ![job[w].from] = c]
                \/ \E c, d : fs' = [fs EXCEPT ![job[w].dest] = c, ![job[w].from] = d]
      <3>1. CASE Rename(w)
        BY <3>1 DEF Rename, At
      <3>2. CASE UnlinkOld(w)
        BY <3>2 DEF UnlinkOld, At
      <3>3. CASE StartCopy(w) \/ FinishCopy(w) \/ RejectCopy(w)
        BY <3>3 DEF StartCopy, FinishCopy, RejectCopy
      <3>4. CASE \/ StartMove(w) \/ CreateMove(w) \/ ResumeMove(w) \/ AbandonMove(w)
                 \/ RefuseMove(w) \/ FailRename(w) \/ AcceptCopy(w) \/ SavePath(w) \/ ForgetMove(w)
        BY <3>4 DEF StartMove, CreateMove, ResumeMove, AbandonMove, RefuseMove, FailRename,
                    AcceptCopy, SavePath, ForgetMove
      <3> QED BY <3>1, <3>2, <3>3, <3>4 DEF Step
    <2> QED BY <1>1, <2>1, Apart DEF TypeOK
  <1> QED BY <1>2, <1>3, <1>4, <1>5 DEF SameOriginals

LEMMA SidecarTrack ==
    ASSUME IndInv, TrackInv, NEW w \in Workers, Step(w), job[w].pc \in Moving,
           job[w].kind = "sidecar"
    PROVE  TrackInv'
  <1>1. SameOriginals /\ interrupts' = interrupts /\ lock = w
    BY SidecarApart, MovingJob
  <1>2. JobFine(w)'
    BY <1>1, SidecarGoesOn, LeavesOriginal DEF TrackInv, Moving, SameOriginals
  <1>3. \A u \in Workers \ {w} : job'[u] = job[u]
    <2>1. \E j : Continue(w, j)
      BY DEF Step, StartMove, CreateMove, ResumeMove, AbandonMove, RefuseMove, Rename, FailRename,
             StartCopy, FinishCopy, AcceptCopy, RejectCopy, UnlinkOld, SavePath, ForgetMove
    <2> QED BY <2>1, Continued DEF IndInv
  <1> QED BY <1>1, <1>2, <1>3, QuietJob

LEMMA InterruptTrack ==
    ASSUME OneInterrupt, IndInv, TrackInv, NEW w \in Workers, Interrupt(w) PROVE TrackInv'
  <1>1. /\ interrupts < MaxInterrupts /\ interrupts' = interrupts + 1
        /\ job' = [job EXCEPT ![w] = Idle] /\ TypeOK
        /\ UNCHANGED <<fs, db, moves, config, faults, changes>>
    BY DEF Interrupt, IndInv
  <1>2. ~Spent /\ Spent'
    <2>1. interrupts \in Nat /\ MaxInterrupts \in Nat
      BY <1>1, ConstantsAssumption DEF TypeOK
    <2> QED BY <1>1, <2>1, ConstantsAssumption DEF Spent, OneInterrupt
  <1>3. SameOriginals
    BY <1>1, SameTables
  <1>4. job'[w].pc = "idle" /\ \A u \in Workers \ {w} : job'[u] = job[u]
    BY <1>1 DEF TypeOK, Idle
  <1>5. \A u \in Workers : JobFine(u)'
    BY <1>1, <1>3, <1>4, SameJob, LeavesOriginal DEF TrackInv
  <1>6. NobodyLost
    BY <1>2 DEF NobodyLost
  <1> QED BY <1>1, <1>2, <1>3, <1>5, <1>6, QuietTrack

-----------------------------------------------------------------------------
(***************************************************************************)
(* The steps of the move of an original.                                   *)
(***************************************************************************)
\* What is known while an original is moved.
LEMMA OriginalJob ==
    ASSUME IndInv, TrackInv, NEW w \in Workers, NEW a \in Assets, job[w].asset = a,
           job[w].pc \in Moving, job[w].kind = "original"
    PROVE  /\ TypeOK /\ lock = w /\ JobOK(job[w]) /\ DiskAgrees(job[w]) /\ JobFine(w)
           /\ PlaceFine(a) /\ EntryFine(a) /\ RecordFine(a)
           /\ job[w].dest \in Path /\ job[w].dest \in Under(a) /\ job[w].dest # Up(a)
           /\ job[w].src["original"] = Up(a)
           /\ job[w].pc # "journal" =>
                /\ Entry(a) # None
                /\ Entry(a).old = job[w].from /\ Entry(a).new = job[w].dest
                /\ job[w].from \in Path
  <1>1. /\ TypeOK /\ lock = w /\ JobOK(job[w]) /\ DiskAgrees(job[w])
        /\ job[w].dest \in Path /\ (job[w].pc # "journal" => job[w].from \in Path)
    BY MovingJob DEF IndInv
  <1>2. JobFine(w) /\ PlaceFine(a) /\ EntryFine(a) /\ RecordFine(a)
    BY DEF TrackInv
  <1>3. job[w].dest \in Under(a) /\ job[w].src["original"] = Up(a)
    BY <1>2 DEF JobFine
  <1>4. job[w].dest # Up(a)
    BY <1>1, <1>3, Apart
  <1>5. job[w].pc # "journal" => Entry(a) = [old |-> job[w].from, new |-> job[w].dest]
    BY <1>2 DEF JobFine
  <1>6. job[w].pc # "journal" => [old |-> job[w].from, new |-> job[w].dest] # None
    BY <1>1, NoneAssumption DEF Row
  <1> QED BY <1>1, <1>2, <1>3, <1>4, <1>5, <1>6

\* Where the move of one original writes, nothing of another asset is.
LEMMA Untouched ==
    ASSUME IndInv, TrackInv, NEW w \in Workers, NEW a \in Assets, job[w].asset = a,
           job[w].pc \in Moving, job[w].kind = "original",
           NEW p, fs[p] = Bytes(a) \/ (p = job[w].dest /\ job[w].pc # "journal"),
           NEW b \in Assets, b # a
    PROVE  /\ p # Up(b) /\ p # Place(b)
           /\ Entry(b) # None => p # Entry(b).old /\ p # Entry(b).new
  <1>1. /\ PlaceFine(b) /\ EntryFine(b) /\ RecordFine(b) /\ NewPathsDiffer
        /\ EntryFine(a) /\ lock = w /\ job[w].dest \in Under(a) /\ TypeOK
        /\ job[w].pc # "journal" => Entry(a) # None /\ Entry(a).new = job[w].dest
    BY OriginalJob DEF TrackInv
  <1>2. /\ Bytes(a) # None /\ Bytes(a).of = a /\ Bytes(b).of = b /\ Up(b) \notin Under(a)
    BY <1>1, Apart
  <1>3. CASE fs[p] # None
    <2>1. fs[p].of = a
      BY <1>1, <1>2, <1>3 DEF EntryFine
    <2> QED BY <1>1, <1>2, <1>3, <2>1 DEF PlaceFine, EntryFine, RecordFine
  <1>4. CASE fs[p] = None
    <2>1. p = job[w].dest /\ Entry(a) # None /\ Entry(a).new = p /\ p # Up(b)
      BY <1>1, <1>2, <1>4
    <2>2. ~Landing(b)
      BY <1>1 DEF Landing, HolderAt
    <2>3. Entry(b) # None => p # Entry(b).old /\ p # Entry(b).new
      BY <1>1, <1>4, <2>1, <2>2 DEF EntryFine, NewPathsDiffer
    <2>4. p # Place(b)
      BY <1>2, <1>4, <2>1, <2>3, Apart DEF RecordFine, TrackInv
    <2> QED BY <2>1, <2>3, <2>4
  <1> QED BY <1>3, <1>4

\* A step of the move of an original keeps the invariant if it does for its asset.
LEMMA OwnStep ==
    ASSUME IndInv, TrackInv, NEW w \in Workers, NEW a \in Assets, job[w].asset = a,
           job[w].pc \in Moving, job[w].kind = "original",
           config' = config, interrupts' = interrupts,
           \A u \in Workers \ {w} : job'[u] = job[u],
           \A p \in PathsOf("original") :
             \/ fs'[p] = fs[p]
             \/ fs[p] = Bytes(a)
             \/ p = job[w].dest /\ job[w].pc # "journal",
           \A b \in Assets \ {a} : Place(b)' = Place(b) /\ Entry(b)' = Entry(b),
           (PlaceFine(a) /\ EntryFine(a) /\ RecordFine(a))',
           Entry(a)' # None => \A b \in Assets \ {a} : Entry(b) # None => Entry(a)'.new # Entry(b).new,
           JobFine(w)'
    PROVE  TrackInv'
  <1>1. TypeOK /\ lock = w /\ LockHeld /\ w # None
    BY OriginalJob, NoneAssumption DEF IndInv, MoveDiscipline
  <1>2. ASSUME NEW b \in Assets, b # a PROVE (PlaceFine(b) /\ EntryFine(b) /\ RecordFine(b))'
    <2>1. /\ Place(b)' = Place(b) /\ Entry(b)' = Entry(b) /\ Under(b)' = Under(b)
          /\ Place(b) \in PathsOf("original") /\ Up(b) \in PathsOf("original")
          /\ Entry(b) # None => /\ Entry(b).old \in PathsOf("original")
                                /\ Entry(b).new \in PathsOf("original")
      BY <1>1, <1>2, OriginalPaths, Apart, SameUnder
    <2>2. Up(b)' = Up(b) /\ Bytes(b)' = Bytes(b)
      BY DEF Up, Bytes
    <2>3. /\ fs'[Place(b)] = fs[Place(b)] /\ fs'[Up(b)] = fs[Up(b)]
          /\ Entry(b) # None => /\ fs'[Entry(b).old] = fs[Entry(b).old]
                                /\ fs'[Entry(b).new] = fs[Entry(b).new]
      BY <1>2, <2>1, Untouched
    <2>4. PlaceFine(b) /\ EntryFine(b) /\ RecordFine(b)
      BY DEF TrackInv
    <2>5. ~Landing(b) /\ ~Arriving(b)
      BY <1>1, <1>2 DEF Landing, Arriving, HolderAt
    <2>6. PlaceFine(b)'
      BY <2>1, <2>2, <2>3, <2>4 DEF PlaceFine
    <2>7. RecordFine(b)'
      BY <2>1, <2>2, <2>3, <2>4 DEF RecordFine
    <2>8. Spent' = Spent
      BY DEF Spent
    <2>9. EntryFine(b)'
      BY <2>1, <2>2, <2>3, <2>4, <2>5, <2>8 DEF EntryFine
    <2> QED BY <2>6, <2>7, <2>9
  <1>3. NewPathsDiffer'
    <2> SUFFICES ASSUME NEW b \in Assets, NEW c \in Assets, b # c,
                        Entry(b)' # None, Entry(c)' # None
                 PROVE  Entry(b)'.new # Entry(c)'.new
      BY DEF NewPathsDiffer
    <2>1. CASE b # a /\ c # a
      BY <2>1 DEF TrackInv, NewPathsDiffer
    <2>2. CASE b = a
      BY <2>2
    <2>3. CASE c = a
      BY <2>3
    <2> QED BY <2>1, <2>2, <2>3
  <1>4. ASSUME NEW u \in Workers, u # w PROVE JobFine(u)'
    <2>1. job[u].pc \notin Moving /\ job'[u] = job[u] /\ JobFine(u)
      BY <1>1, <1>4 DEF LockHeld, TrackInv
    <2>2. \A x : Under(x)' = Under(x)
      BY DEF Under
    <2> QED BY <2>1, <2>2 DEF JobFine, Up
  <1> QED BY <1>2, <1>3, <1>4 DEF TrackInv

\* Before the file arrives, a record that leads nowhere is that of an upload.
LEMMA NowhereIsUpload ==
    ASSUME IndInv, TrackInv, NEW w \in Workers, NEW a \in Assets, job[w].asset = a,
           job[w].pc \in {"journal", "transfer"}, job[w].kind = "original", fs[Place(a)] # Bytes(a)
    PROVE  fs[Place(a)] = None /\ Entry(a) # None /\ Place(a) = Up(a)
  <1>1. EntryFine(a) /\ RecordFine(a) /\ lock = w
    BY OriginalJob DEF Moving
  <1>2. ~Landing(a)
    BY <1>1 DEF Landing, HolderAt
  <1> QED BY <1>1, <1>2 DEF EntryFine, RecordFine

\* A worker that goes on to another step of its move.
GoesOn(w, pc, from) ==
    /\ job'[w].pc = pc /\ job'[w].asset = job[w].asset /\ job'[w].kind = job[w].kind
    /\ job'[w].src = job[w].src /\ job'[w].dest = job[w].dest /\ job'[w].from = from
    /\ \A u \in Workers \ {w} : job'[u] = job[u]
    /\ lock' = w

LEMMA NextJob ==
    ASSUME TypeOK, NEW w \in Workers
    PROVE  \A pc : /\ pc # "idle" /\ Continue(w, [job[w] EXCEPT !.pc = pc])
                     => GoesOn(w, pc, job[w].from)
                  /\ \A from : pc # "idle" /\ Continue(w, [job[w] EXCEPT !.pc = pc, !.from = from])
                     => GoesOn(w, pc, from)
  <1>1. job[w] \in Job
    BY DEF TypeOK
  <1>2. ASSUME NEW j, Continue(w, j), j.pc # "idle", j.asset = job[w].asset, j.kind = job[w].kind,
               j.src = job[w].src, j.dest = job[w].dest
        PROVE  GoesOn(w, j.pc, j.from)
    BY <1>2, Continued DEF GoesOn, Continue
  <1>3. ASSUME NEW pc, pc # "idle", Continue(w, [job[w] EXCEPT !.pc = pc])
        PROVE  GoesOn(w, pc, job[w].from)
    <2> DEFINE next == [job[w] EXCEPT !.pc = pc]
    <2>1. /\ next.pc = pc /\ next.asset = job[w].asset /\ next.kind = job[w].kind
          /\ next.src = job[w].src /\ next.dest = job[w].dest /\ next.from = job[w].from
      BY <1>1 DEF Job
    <2>2. Continue(w, next)
      BY <1>3
    <2> HIDE DEF next
    <2>3. GoesOn(w, next.pc, next.from)
      BY <1>2, <1>3, <2>1, <2>2
    <2> QED BY <2>1, <2>3
  <1>4. ASSUME NEW pc, pc # "idle", NEW from,
               Continue(w, [job[w] EXCEPT !.pc = pc, !.from = from])
        PROVE  GoesOn(w, pc, from)
    <2> DEFINE next == [job[w] EXCEPT !.pc = pc, !.from = from]
    <2>1. /\ next.pc = pc /\ next.asset = job[w].asset /\ next.kind = job[w].kind
          /\ next.src = job[w].src /\ next.dest = job[w].dest /\ next.from = from
      BY <1>1 DEF Job
    <2>2. Continue(w, next)
      BY <1>4
    <2> HIDE DEF next
    <2>3. GoesOn(w, next.pc, next.from)
      BY <1>2, <1>4, <2>1, <2>2
    <2> QED BY <2>1, <2>3
  <1> QED BY <1>3, <1>4

\* A journal row is written for the file that was found.
LEMMA RowStep ==
    ASSUME IndInv, TrackInv, NEW w \in Workers, NEW a \in Assets, NEW d, NEW from,
           job[w].asset = a, job[w].dest = d, job[w].pc = "journal", job[w].kind = "original",
           moves' = [moves EXCEPT ![a]["original"] = [old |-> from, new |-> d]],
           ~NewPathTaken(job[w]),
           Continue(w, [job[w] EXCEPT !.pc = "transfer", !.from = from]),
           UNCHANGED <<fs, db, config, faults, interrupts, changes>>,
           from \in {Up(a)} \union Under(a), fs[from] \in {None, Bytes(a)},
           from # Up(a) => Spent /\ fs[from] # None,
           \/ fs[Place(a)] = Bytes(a)
           \/ fs[Place(a)] = None /\ Place(a) = Up(a) /\ fs[from] = Bytes(a)
    PROVE  TrackInv'
  <1>1. /\ TypeOK /\ DiskAgrees(job[w]) /\ PlaceFine(a) /\ d \in Under(a) /\ d # Up(a)
        /\ d \in Path /\ job[w].src["original"] = Up(a)
    BY OriginalJob DEF Moving
  <1>2. fs[d] = None /\ Bytes(a) # None /\ Place(a) # d /\ from \in Path
    BY <1>1, Apart DEF DiskAgrees, Under
  <1>3. /\ job'[w].pc = "transfer" /\ job'[w].asset = a /\ job'[w].kind = "original"
        /\ job'[w].src = job[w].src /\ job'[w].dest = d /\ job'[w].from = from
        /\ \A u \in Workers \ {w} : job'[u] = job[u]
    <2>1. GoesOn(w, "transfer", from)
      BY <1>1, NextJob
    <2> QED BY <2>1 DEF GoesOn
  <1>4. Entry(a)' = [old |-> from, new |-> d] /\ \A b \in Assets \ {a} : Entry(b)' = Entry(b)
    <2>1. moves \in [Assets -> [Kinds -> Row \union {None}]] /\ "original" \in Kinds
      BY <1>1 DEF TypeOK, Kinds
    <2>2. moves'[a]["original"] = [old |-> from, new |-> d]
      BY <2>1
    <2>3. \A b \in Assets \ {a} : moves'[b] = moves[b]
      BY <2>1
    <2> QED BY <2>2, <2>3 DEF Entry
  <1>5. Entry(a)'.old = from /\ Entry(a)'.new = d
    BY <1>4
  <1>6. \A b \in Assets \ {a} : Entry(b) # None => Entry(b).new # d
    BY DEF NewPathTaken, Entry, Kinds
  <1>7. Place(a)' = Place(a) /\ Under(a)' = Under(a) /\ Up(a)' = Up(a) /\ Bytes(a)' = Bytes(a)
        /\ Spent' = Spent /\ \A b \in Assets : Place(b)' = Place(b)
    BY DEF Place, Under, Up, Bytes, Spent
  <1>8. Entry(a)' # None
    BY <1>1, <1>2, <1>4, NoneAssumption DEF Row
  <1>9. PlaceFine(a)' /\ RecordFine(a)'
    BY <1>1, <1>5, <1>7, <1>8 DEF PlaceFine, RecordFine
  <1>10. EntryFine(a)'
    BY <1>1, <1>2, <1>5, <1>7 DEF EntryFine
  <1>11. JobFine(w)'
    BY <1>1, <1>2, <1>3, <1>4, <1>7 DEF JobFine
  <1> QED BY <1>3, <1>4, <1>5, <1>6, <1>7, <1>9, <1>10, <1>11, OwnStep DEF Moving

LEMMA CreateMoveTrack ==
    ASSUME IndInv, TrackInv, NEW w \in Workers, NEW a \in Assets, job[w].asset = a,
           CreateMove(w), job[w].kind = "original"
    PROVE  TrackInv'
  <1>1. job[w].pc = "journal"
    BY DEF CreateMove, At
  <1>2. /\ PlaceFine(a) /\ RecordFine(a) /\ job[w].src["original"] = Up(a)
    BY <1>1, OriginalJob DEF Moving
  <1>3. /\ Entry(a) = None /\ ~NewPathTaken(job[w])
        /\ moves' = [moves EXCEPT ![a]["original"] = [old |-> Up(a), new |-> job[w].dest]]
        /\ Continue(w, [job[w] EXCEPT !.pc = "transfer", !.from = Up(a)])
        /\ UNCHANGED <<fs, db, config, faults, interrupts, changes>>
    BY <1>2 DEF CreateMove, RowOf, Entry
  <1>4. fs[Up(a)] \in {None, Bytes(a)} /\ fs[Place(a)] = Bytes(a)
    BY <1>2, <1>3 DEF PlaceFine, RecordFine
  <1> QED BY <1>1, <1>3, <1>4, RowStep

\* The row of an earlier attempt leads to the bytes of its asset, or nowhere.
LEMMA ActualIsOwn ==
    ASSUME IndInv, TrackInv, NEW w \in Workers, NEW a \in Assets, job[w].asset = a,
           job[w].pc = "journal", job[w].kind = "original", RowOf(job[w]) # None,
           ActualPath(RowOf(job[w])) # None
    PROVE  /\ Entry(a) = RowOf(job[w])
           /\ ActualPath(Entry(a)) \in {Entry(a).old, Entry(a).new}
           /\ fs[ActualPath(Entry(a))] = Bytes(a)
           /\ ActualPath(Entry(a)) \in {Up(a)} \union Under(a)
           /\ ActualPath(Entry(a)) # Up(a) => Spent
           /\ fs[Place(a)] = Bytes(a) \/ Place(a) = Up(a)
  <1>1. EntryFine(a) /\ lock = w /\ TypeOK /\ Entry(a) = RowOf(job[w])
    BY OriginalJob DEF Moving, Entry, RowOf
  <1>2. ~Landing(a) /\ ~Arriving(a)
    BY <1>1 DEF Landing, Arriving, HolderAt
  <1>3. \/ ActualPath(Entry(a)) = Entry(a).old /\ fs[Entry(a).old] # None
        \/ /\ ActualPath(Entry(a)) = Entry(a).new
           /\ fs[Entry(a).old] = None /\ fs[Entry(a).new] # None
    BY <1>1 DEF ActualPath
  <1> QED BY <1>1, <1>2, <1>3, NowhereIsUpload DEF EntryFine

LEMMA ResumeMoveTrack ==
    ASSUME IndInv, TrackInv, NEW w \in Workers, NEW a \in Assets, job[w].asset = a,
           ResumeMove(w), job[w].kind = "original"
    PROVE  TrackInv'
  <1>1. job[w].pc = "journal"
    BY DEF ResumeMove, At
  <1> DEFINE from == ActualPath(Entry(a))
  <1>2. /\ Entry(a) = RowOf(job[w])
        /\ from \in {Up(a)} \union Under(a) /\ fs[from] = Bytes(a)
        /\ from # Up(a) => Spent
        /\ fs[Place(a)] = Bytes(a) \/ Place(a) = Up(a)
    BY <1>1, ActualIsOwn DEF ResumeMove
  <1>3. fs[Place(a)] = Bytes(a) \/ fs[Place(a)] = None
    BY DEF TrackInv, RecordFine
  <1>4. Bytes(a) # None /\ fs[job[w].dest] = None
    BY <1>1, OriginalJob, Apart DEF Moving, DiskAgrees
  <1>5. /\ moves' = [moves EXCEPT ![a]["original"] = [old |-> from, new |-> job[w].dest]]
        /\ ~NewPathTaken(job[w])
        /\ Continue(w, [job[w] EXCEPT !.pc = IF from = job[w].dest THEN "save" ELSE "transfer",
                                      !.from = from])
        /\ UNCHANGED <<fs, db, config, faults, interrupts, changes>>
    BY <1>2 DEF ResumeMove
  <1>6. (IF from = job[w].dest THEN "save" ELSE "transfer") = "transfer"
    BY <1>2, <1>4
  <1> HIDE DEF from
  <1>7. Continue(w, [job[w] EXCEPT !.pc = "transfer", !.from = from])
    BY <1>5, <1>6
  <1> QED BY <1>1, <1>2, <1>3, <1>4, <1>5, <1>7, RowStep

\* A step on the way of the file to its new path, at which the row stays.
LEMMA FileStep ==
    ASSUME IndInv, TrackInv, NEW w \in Workers, NEW a \in Assets, NEW d, NEW from,
           job[w].asset = a, job[w].dest = d, job[w].from = from,
           job[w].pc \in {"transfer", "copying", "verify", "unlink"}, job[w].kind = "original",
           UNCHANGED <<db, moves, config, interrupts, changes>>,
           \A u \in Workers \ {w} : job'[u] = job[u],
           \A p \in Path \ {d, from} : fs'[p] = fs[p],
           fs[from] = Bytes(a) \/ fs'[from] = fs[from],
           \/ fs'[from] = Bytes(a) /\ (fs'[d] = None \/ (fs'[d].of = a /\ Arriving(a)'))
           \/ fs'[from] = None /\ fs'[d] = Bytes(a) /\ Landing(a)',
           JobFine(w)'
    PROVE  TrackInv'
  <1>1. /\ TypeOK /\ PlaceFine(a) /\ EntryFine(a) /\ RecordFine(a) /\ d # Up(a)
        /\ Entry(a) # None /\ Entry(a).old = from /\ Entry(a).new = d
        /\ d \in Path /\ from \in Path /\ Place(a) # d
    BY OriginalJob DEF Moving, JobFine
  <1>2. /\ Bytes(a) # None /\ Bytes(a).of = a /\ Up(a) \in Path /\ Place(a) \in Path
    BY <1>1, Apart, OriginalPaths
  <1>3. /\ Under(a)' = Under(a) /\ Up(a)' = Up(a) /\ Bytes(a)' = Bytes(a) /\ Spent' = Spent
        /\ \A b \in Assets : Place(b)' = Place(b) /\ Entry(b)' = Entry(b)
    BY DEF Place, Under, Up, Bytes, Spent, Entry
  <1>4. /\ fs'[Up(a)] \in {None, Bytes(a)}
        /\ Landing(a)' => Arriving(a)'
    <2>1. fs'[Up(a)] \in {None, Bytes(a)}
      BY <1>1, <1>2 DEF PlaceFine
    <2>2. Landing(a)' => Arriving(a)'
      BY DEF Landing, Arriving, HolderAt
    <2> QED BY <2>1, <2>2
  <1>5. PlaceFine(a)'
    BY <1>1, <1>3, <1>4 DEF PlaceFine
  <1>6. EntryFine(a)'
    BY <1>1, <1>2, <1>3, <1>4 DEF EntryFine
  <1>7. RecordFine(a)'
    <2>1. Place(a) # from => fs'[Place(a)] = fs[Place(a)]
      BY <1>1, <1>2
    <2> QED BY <1>1, <1>2, <1>3, <2>1 DEF RecordFine
  <1>8. \A p \in PathsOf("original") : fs'[p] = fs[p] \/ fs[p] = Bytes(a) \/ p = d
    BY Apart
  <1>9. \A b \in Assets \ {a} : Entry(b) # None => Entry(b).new # Entry(a).new
    BY <1>1 DEF TrackInv, NewPathsDiffer
  <1> QED BY <1>3, <1>5, <1>6, <1>7, <1>8, <1>9, OwnStep DEF Moving

\* What the worker that moves an original still knows after such a step.
LEMMA StillKnown ==
    ASSUME TrackInv, NEW w \in Workers, NEW a \in Assets, NEW d, NEW from, NEW pc,
           job[w].asset = a, job[w].dest = d, job[w].from = from,
           job[w].pc \in {"transfer", "copying", "verify", "unlink"}, job[w].kind = "original",
           UNCHANGED <<db, moves, config>>, GoesOn(w, pc, from),
           pc \in {"copying", "verify", "unlink", "save"},
           pc \in {"copying", "verify", "unlink"} => fs'[from] = Bytes(a),
           pc \in {"unlink", "save"} => fs'[d] = Bytes(a)
    PROVE  /\ JobFine(w)' /\ Arriving(a)' /\ (pc = "save" => Landing(a)')
           /\ \A u \in Workers \ {w} : job'[u] = job[u]
  <1>1. JobFine(w)
    BY DEF TrackInv
  <1>2. Under(a)' = Under(a) /\ Up(a)' = Up(a) /\ Bytes(a)' = Bytes(a)
        /\ Place(a)' = Place(a) /\ Entry(a)' = Entry(a)
    BY DEF Place, Under, Up, Bytes, Entry
  <1>3. /\ job'[w].pc = pc /\ job'[w].asset = a /\ job'[w].kind = "original"
        /\ job'[w].src = job[w].src /\ job'[w].dest = d /\ job'[w].from = from
        /\ \A u \in Workers \ {w} : job'[u] = job[u] /\ lock' = w
    BY DEF GoesOn
  <1>4. Arriving(a)' /\ (pc = "save" => Landing(a)')
    BY <1>3 DEF Arriving, Landing, HolderAt, GoesOn
  <1>5. JobFine(w)'
    BY <1>1, <1>2, <1>3 DEF JobFine, Moving
  <1> QED BY <1>3, <1>4, <1>5

LEMMA RenameTrack ==
    ASSUME IndInv, TrackInv, NEW w \in Workers, NEW a \in Assets, job[w].asset = a,
           Rename(w), job[w].kind = "original"
    PROVE  TrackInv'
  <1>1. PICK d, from : d = job[w].dest /\ from = job[w].from
    OBVIOUS
  <1>2. /\ job[w].pc = "transfer" /\ fs[from] # None
        /\ Continue(w, [job[w] EXCEPT !.pc = "save"])
        /\ UNCHANGED <<db, moves, config, interrupts, changes>>
    BY <1>1 DEF Rename, At
  <1>3. /\ TypeOK /\ JobOK(job[w]) /\ EntryFine(a) /\ d \in Path /\ from \in Path
        /\ Entry(a) # None /\ Entry(a).old = from
    BY <1>1, <1>2, OriginalJob DEF Moving
  <1>4. from # d /\ fs[from] = Bytes(a)
    BY <1>1, <1>2, <1>3 DEF JobOK, EntryFine
  <1>5. /\ fs'[d] = Bytes(a) /\ fs'[from] = None
        /\ \A p \in Path \ {d, from} : fs'[p] = fs[p]
    <2>1. fs' = [fs EXCEPT ![d] = fs[from], ![from] = None]
      BY <1>1 DEF Rename
    <2> QED BY <1>3, <1>4, <2>1 DEF TypeOK
  <1>6. GoesOn(w, "save", from)
    BY <1>1, <1>2, <1>3, NextJob
  <1>7. JobFine(w)' /\ Landing(a)' /\ \A u \in Workers \ {w} : job'[u] = job[u]
    BY <1>1, <1>2, <1>5, <1>6, StillKnown
  <1> QED BY <1>1, <1>2, <1>4, <1>5, <1>7, FileStep

LEMMA StartCopyTrack ==
    ASSUME IndInv, TrackInv, NEW w \in Workers, NEW a \in Assets, job[w].asset = a,
           StartCopy(w), job[w].kind = "original"
    PROVE  TrackInv'
  <1>1. PICK d, from : d = job[w].dest /\ from = job[w].from
    OBVIOUS
  <1>2. /\ job[w].pc = "transfer" /\ fs[from] # None
        /\ fs' = [fs EXCEPT ![d] = [fs[from] EXCEPT !.bytes = "short"]]
        /\ Continue(w, [job[w] EXCEPT !.pc = "copying"])
        /\ UNCHANGED <<db, moves, config, interrupts, changes>>
    BY <1>1 DEF StartCopy, At
  <1>3. /\ TypeOK /\ JobOK(job[w]) /\ EntryFine(a) /\ d \in Path /\ from \in Path
        /\ Entry(a) # None /\ Entry(a).old = from
    BY <1>1, <1>2, OriginalJob DEF Moving
  <1>4. from # d /\ fs[from] = Bytes(a)
    BY <1>1, <1>2, <1>3 DEF JobOK, EntryFine
  <1>5. [fs[from] EXCEPT !.bytes = "short"].of = a
    BY <1>4 DEF Bytes, Whole
  <1>6. /\ fs'[d].of = a /\ fs'[from] = Bytes(a)
        /\ \A p \in Path \ {d, from} : fs'[p] = fs[p]
    BY <1>2, <1>3, <1>4, <1>5 DEF TypeOK
  <1>7. GoesOn(w, "copying", from)
    BY <1>1, <1>2, <1>3, NextJob
  <1>8. JobFine(w)' /\ Arriving(a)' /\ \A u \in Workers \ {w} : job'[u] = job[u]
    BY <1>1, <1>2, <1>6, <1>7, StillKnown
  <1> QED BY <1>1, <1>2, <1>4, <1>6, <1>8, FileStep

LEMMA FinishCopyTrack ==
    ASSUME IndInv, TrackInv, NEW w \in Workers, NEW a \in Assets, job[w].asset = a,
           FinishCopy(w), job[w].kind = "original"
    PROVE  TrackInv'
  <1>1. PICK d, from : d = job[w].dest /\ from = job[w].from
    OBVIOUS
  <1>2. /\ job[w].pc = "copying"
        /\ Continue(w, [job[w] EXCEPT !.pc = "verify"])
        /\ UNCHANGED <<db, moves, config, interrupts, changes>>
    BY <1>1 DEF FinishCopy, At
  <1>3. /\ TypeOK /\ JobOK(job[w]) /\ JobFine(w) /\ d \in Path /\ from \in Path
    BY <1>1, <1>2, OriginalJob DEF Moving
  <1>4. from # d /\ fs[from] = Bytes(a)
    BY <1>1, <1>2, <1>3 DEF JobOK, JobFine, Moving
  <1>5. PICK new : fs' = [fs EXCEPT ![d] = new] /\ new.of = a
    <2>1. Bytes(a).of = a /\ \A damage : [Bytes(a) EXCEPT !.bytes = damage].of = a
      BY DEF Bytes, Whole
    <2>2. \/ fs' = [fs EXCEPT ![d] = Bytes(a)]
          \/ \E damage \in CopyFaults : fs' = [fs EXCEPT ![d] = [Bytes(a) EXCEPT !.bytes = damage]]
      BY <1>1, <1>4 DEF FinishCopy
    <2> HIDE DEF Bytes
    <2> QED BY <2>1, <2>2
  <1>6. /\ fs'[d].of = a /\ fs'[from] = Bytes(a)
        /\ \A p \in Path \ {d, from} : fs'[p] = fs[p]
    BY <1>3, <1>4, <1>5 DEF TypeOK
  <1>7. GoesOn(w, "verify", from)
    BY <1>1, <1>2, <1>3, NextJob
  <1>8. JobFine(w)' /\ Arriving(a)' /\ \A u \in Workers \ {w} : job'[u] = job[u]
    BY <1>1, <1>2, <1>6, <1>7, StillKnown
  <1> QED BY <1>1, <1>2, <1>4, <1>6, <1>8, FileStep

LEMMA AcceptCopyTrack ==
    ASSUME CopiesAreChecked, IndInv, TrackInv, NEW w \in Workers, NEW a \in Assets,
           job[w].asset = a, AcceptCopy(w), job[w].kind = "original"
    PROVE  TrackInv'
  <1>1. PICK d, from : d = job[w].dest /\ from = job[w].from
    OBVIOUS
  <1>2. /\ job[w].pc = "verify" /\ fs' = fs
        /\ Continue(w, [job[w] EXCEPT !.pc = "unlink"])
        /\ UNCHANGED <<db, moves, config, interrupts, changes>>
    BY <1>1 DEF AcceptCopy, At
  <1>3. /\ TypeOK /\ JobFine(w) /\ fs[from] = Bytes(a)
    BY <1>1, <1>2, OriginalJob DEF Moving, JobFine
  <1>4. GoesOn(w, "unlink", from)
    BY <1>1, <1>2, <1>3, NextJob
  <1>5. DiskAgrees(job[w])'
    BY AcceptCopyOK DEF IndInv, MoveDiscipline
  <1>6. fs'[d] = Bytes(a)
    BY <1>1, <1>2, <1>3, <1>4, <1>5 DEF DiskAgrees, GoesOn
  <1>7. JobFine(w)' /\ Arriving(a)' /\ \A u \in Workers \ {w} : job'[u] = job[u]
    BY <1>1, <1>2, <1>3, <1>4, <1>6, StillKnown
  <1>8. Bytes(a).of = a
    BY Apart
  <1> QED BY <1>1, <1>2, <1>3, <1>6, <1>7, <1>8, FileStep

LEMMA RejectCopyTrack ==
    ASSUME IndInv, TrackInv, NEW w \in Workers, NEW a \in Assets, job[w].asset = a,
           RejectCopy(w), job[w].kind = "original"
    PROVE  TrackInv'
  <1>1. PICK d, from : d = job[w].dest /\ from = job[w].from
    OBVIOUS
  <1>2. /\ job[w].pc = "verify" /\ fs' = [fs EXCEPT ![d] = None]
        /\ Continue(w, AfterMove(job[w]))
        /\ UNCHANGED <<db, moves, config, interrupts, changes>>
    BY <1>1 DEF RejectCopy, At
  <1>3. /\ TypeOK /\ JobOK(job[w]) /\ JobFine(w) /\ d \in Path /\ from \in Path
    BY <1>1, <1>2, OriginalJob DEF Moving
  <1>4. from # d /\ fs[from] = Bytes(a)
    BY <1>1, <1>2, <1>3 DEF JobOK, JobFine, Moving
  <1>5. fs'[d] = None /\ fs'[from] = Bytes(a) /\ \A p \in Path \ {d, from} : fs'[p] = fs[p]
    BY <1>2, <1>3, <1>4 DEF TypeOK
  <1>6. JobFine(w)' /\ \A u \in Workers \ {w} : job'[u] = job[u]
    BY <1>2, <1>3, AfterMoveLeaves, Continued DEF Moving
  <1> QED BY <1>1, <1>2, <1>4, <1>5, <1>6, FileStep

LEMMA UnlinkOldTrack ==
    ASSUME IndInv, TrackInv, NEW w \in Workers, NEW a \in Assets, job[w].asset = a,
           UnlinkOld(w), job[w].kind = "original"
    PROVE  TrackInv'
  <1>1. PICK d, from : d = job[w].dest /\ from = job[w].from
    OBVIOUS
  <1>2. /\ job[w].pc = "unlink" /\ (fs' = [fs EXCEPT ![from] = None] \/ fs' = fs)
        /\ Continue(w, [job[w] EXCEPT !.pc = "save"])
        /\ UNCHANGED <<db, moves, config, interrupts, changes>>
    BY <1>1 DEF UnlinkOld, At
  <1>3. /\ TypeOK /\ JobOK(job[w]) /\ JobFine(w) /\ d \in Path /\ from \in Path
    BY <1>1, <1>2, OriginalJob DEF Moving
  <1>4. from # d /\ fs[from] = Bytes(a) /\ fs[d] = Bytes(a) /\ Bytes(a).of = a
    BY <1>1, <1>2, <1>3, Apart DEF JobOK, JobFine, Moving
  <1>5. /\ fs'[d] = Bytes(a) /\ fs'[from] \in {None, Bytes(a)}
        /\ \A p \in Path \ {d, from} : fs'[p] = fs[p]
    BY <1>2, <1>3, <1>4 DEF TypeOK
  <1>6. GoesOn(w, "save", from)
    BY <1>1, <1>2, <1>3, NextJob
  <1>7. JobFine(w)' /\ Arriving(a)' /\ Landing(a)' /\ \A u \in Workers \ {w} : job'[u] = job[u]
    BY <1>1, <1>2, <1>5, <1>6, StillKnown
  <1> QED BY <1>1, <1>2, <1>4, <1>5, <1>7, FileStep

LEMMA SavePathTrack ==
    ASSUME IndInv, TrackInv, NEW w \in Workers, NEW a \in Assets, job[w].asset = a,
           SavePath(w), job[w].kind = "original"
    PROVE  TrackInv'
  <1>1. PICK d, from : d = job[w].dest /\ from = job[w].from
    OBVIOUS
  <1>2. /\ job[w].pc = "save" /\ db' = [db EXCEPT ![a]["original"] = d]
        /\ Continue(w, [job[w] EXCEPT !.pc = "forget"])
        /\ UNCHANGED <<fs, moves, config, faults, interrupts, changes>>
    BY <1>1 DEF SavePath, At
  <1>3. /\ TypeOK /\ JobFine(w) /\ PlaceFine(a) /\ EntryFine(a) /\ d \in Under(a)
        /\ Entry(a).new = d /\ fs[d] = Bytes(a)
    BY <1>1, <1>2, OriginalJob DEF Moving, JobFine
  <1>4. Place(a)' = d /\ \A b \in Assets \ {a} : Place(b)' = Place(b)
    <2>1. db \in [Assets -> [Kinds -> Path \union {None}]] /\ "original" \in Kinds
      BY <1>3 DEF TypeOK, Kinds
    <2>2. db'[a]["original"] = d
      BY <1>2, <2>1
    <2>3. \A b \in Assets \ {a} : db'[b] = db[b]
      BY <1>2, <2>1
    <2> QED BY <2>2, <2>3 DEF Place
  <1>5. /\ job'[w].pc = "forget" /\ job'[w].asset = a /\ job'[w].kind = "original"
        /\ job'[w].src = job[w].src /\ job'[w].dest = d /\ job'[w].from = from /\ lock' = w
        /\ \A u \in Workers \ {w} : job'[u] = job[u]
    <2>1. GoesOn(w, "forget", from)
      BY <1>1, <1>2, <1>3, NextJob
    <2> QED BY <1>1, <2>1 DEF GoesOn
  <1>6. /\ Under(a)' = Under(a) /\ Up(a)' = Up(a) /\ Bytes(a)' = Bytes(a) /\ Spent' = Spent
        /\ \A b \in Assets : Entry(b)' = Entry(b)
    BY <1>2 DEF Under, Up, Bytes, Spent, Entry
  <1>7. Landing(a)' /\ Arriving(a)'
    BY <1>5 DEF Landing, Arriving, HolderAt
  <1>8. PlaceFine(a)' /\ RecordFine(a)'
    BY <1>2, <1>3, <1>4, <1>6 DEF PlaceFine, RecordFine
  <1>9. EntryFine(a)'
    BY <1>2, <1>3, <1>6, <1>7 DEF EntryFine
  <1>10. JobFine(w)'
    BY <1>1, <1>2, <1>3, <1>4, <1>5, <1>6 DEF JobFine, Moving
  <1>11. Entry(a)' # None => \A b \in Assets \ {a} : Entry(b) # None => Entry(a)'.new # Entry(b).new
    BY <1>6 DEF TrackInv, NewPathsDiffer
  <1> QED BY <1>2, <1>4, <1>5, <1>6, <1>8, <1>9, <1>10, <1>11, OwnStep DEF Moving

LEMMA ForgetMoveTrack ==
    ASSUME IndInv, TrackInv, NEW w \in Workers, NEW a \in Assets, job[w].asset = a,
           ForgetMove(w), job[w].kind = "original"
    PROVE  TrackInv'
  <1>1. /\ job[w].pc = "forget" /\ moves' = [moves EXCEPT ![a]["original"] = None]
        /\ Continue(w, AfterMove(job[w]))
        /\ UNCHANGED <<fs, db, config, faults, interrupts, changes>>
    BY DEF ForgetMove, At
  <1>2. TypeOK /\ JobFine(w) /\ PlaceFine(a) /\ fs[Place(a)] = Bytes(a)
    BY <1>1, OriginalJob DEF Moving, JobFine
  <1>3. Entry(a)' = None /\ \A b \in Assets \ {a} : Entry(b)' = Entry(b)
    <2>1. moves \in [Assets -> [Kinds -> Row \union {None}]] /\ "original" \in Kinds
      BY <1>2 DEF TypeOK, Kinds
    <2>2. moves'[a]["original"] = None
      BY <1>1, <2>1
    <2>3. \A b \in Assets \ {a} : moves'[b] = moves[b]
      BY <1>1, <2>1
    <2> QED BY <2>2, <2>3 DEF Entry
  <1>4. /\ Under(a)' = Under(a) /\ Up(a)' = Up(a) /\ Bytes(a)' = Bytes(a)
        /\ \A b \in Assets : Place(b)' = Place(b)
    BY <1>1 DEF Under, Up, Bytes, Place
  <1>5. (PlaceFine(a) /\ EntryFine(a) /\ RecordFine(a))'
    BY <1>1, <1>2, <1>3, <1>4 DEF PlaceFine, EntryFine, RecordFine
  <1>6. JobFine(w)' /\ \A u \in Workers \ {w} : job'[u] = job[u]
    BY <1>1, <1>2, AfterMoveLeaves, Continued DEF Moving
  <1> QED BY <1>1, <1>3, <1>4, <1>5, <1>6, OwnStep DEF Moving

LEMMA OriginalTrack ==
    ASSUME CopiesAreChecked, IndInv, TrackInv, NEW w \in Workers, Step(w),
           job[w].pc \in Moving, job[w].kind = "original"
    PROVE  TrackInv'
  <1>1. job[w].asset \in Assets
    BY MovingJob
  <1>2. ~StartMove(w)
    BY DEF StartMove, At, Moving
  <1>3. CASE CreateMove(w) \/ ResumeMove(w)
    BY <1>1, <1>3, CreateMoveTrack, ResumeMoveTrack
  <1>4. CASE AbandonMove(w) \/ RefuseMove(w)
    BY <1>4, ReturnTrack DEF AbandonMove, RefuseMove, At
  <1>5. CASE FailRename(w)
    BY <1>5, ReturnTrack DEF FailRename, At
  <1>6. CASE Rename(w) \/ StartCopy(w) \/ FinishCopy(w)
    BY <1>1, <1>6, RenameTrack, StartCopyTrack, FinishCopyTrack
  <1>7. CASE AcceptCopy(w) \/ RejectCopy(w) \/ UnlinkOld(w)
    BY <1>1, <1>7, AcceptCopyTrack, RejectCopyTrack, UnlinkOldTrack
  <1>8. CASE SavePath(w) \/ ForgetMove(w)
    BY <1>1, <1>8, SavePathTrack, ForgetMoveTrack
  <1> QED BY <1>2, <1>3, <1>4, <1>5, <1>6, <1>7, <1>8 DEF Step

LEMMA NextTrack ==
    ASSUME CopiesAreChecked, OneTemplate, OneInterrupt, IndInv, TrackInv, [Next]_vars
    PROVE  TrackInv'
  <1>1. ASSUME NEW w \in Workers, Step(w) PROVE TrackInv'
    <2>1. CASE StartMove(w)
      BY <2>1, StartMoveTrack
    <2>2. CASE job[w].pc \in Moving
      <3>1. job[w].kind \in {"original", "sidecar"}
        BY <1>1 DEF IndInv, TypeOK, Job, Kinds
      <3> QED BY <1>1, <2>2, <3>1, OriginalTrack, SidecarTrack
    <2> QED BY <1>1, <2>1, <2>2
          DEF Step, At, Moving, CreateMove, ResumeMove, AbandonMove, RefuseMove, Rename,
              FailRename, StartCopy, FinishCopy, AcceptCopy, RejectCopy, UnlinkOld,
              SavePath, ForgetMove
  <1>2. ~ChangeConfig
    BY DEF ChangeConfig, OneTemplate, IndInv, TypeOK
  <1>3. CASE UNCHANGED vars
    BY <1>3 DEF vars, TrackInv, PlaceFine, EntryFine, RecordFine, NewPathsDiffer, JobFine,
                Place, Entry, Under, Up, Bytes, Spent, Landing, Arriving, HolderAt
  <1> QED BY <1>1, <1>2, <1>3, LoadTrack, InterruptTrack DEF Next

-----------------------------------------------------------------------------
(***************************************************************************)
(* The journal makes a move atomic: the steps of FilePlacement.            *)
(***************************************************************************)
\* What a step of the move of an original leaves alone.
LEMMA OriginalFrame ==
    ASSUME IndInv, TrackInv, NEW w \in Workers, NEW a \in Assets, job[w].asset = a,
           Step(w), job[w].pc \in Moving, job[w].kind = "original"
    PROVE  /\ config' = config
           /\ \A p \in PathsOf("original") :
                \/ fs'[p] = fs[p]
                \/ fs[p] = Bytes(a)
                \/ p = job[w].dest /\ job[w].pc # "journal"
           /\ \A b \in Assets \ {a} : Place(b)' = Place(b) /\ Entry(b)' = Entry(b)
           /\ Place(a)' \in {Place(a), job[w].dest}
           /\ fs'[Up(a)] \in {fs[Up(a)], None}
  <1>1. PICK d, from : d = job[w].dest /\ from = job[w].from
    OBVIOUS
  <1>2. /\ TypeOK /\ JobFine(w) /\ EntryFine(a) /\ d \in Path /\ d # Up(a)
        /\ job[w].pc # "journal" => /\ Entry(a) # None /\ Entry(a).old = from /\ from \in Path
    BY <1>1, OriginalJob
  <1>3. config' = config
    BY DEF Step, StartMove, CreateMove, ResumeMove, AbandonMove, RefuseMove, Rename, FailRename,
           StartCopy, FinishCopy, AcceptCopy, RejectCopy, UnlinkOld, SavePath, ForgetMove
  <1>4. /\ \A b \in Assets \ {a} : Place(b)' = Place(b)
        /\ Place(a)' \in {Place(a), d}
    <2>1. db' = db \/ db' = [db EXCEPT ![a]["original"] = d]
      BY <1>1 DEF Step, StartMove, CreateMove, ResumeMove, AbandonMove, RefuseMove, Rename,
         FailRename, StartCopy, FinishCopy, AcceptCopy, RejectCopy, UnlinkOld, SavePath, ForgetMove
    <2>2. db \in [Assets -> [Kinds -> Path \union {None}]] /\ "original" \in Kinds
      BY <1>2 DEF TypeOK, Kinds
    <2> QED BY <2>1, <2>2 DEF Place
  <1>5. \A b \in Assets \ {a} : Entry(b)' = Entry(b)
    <2>1. moves' = moves \/ \E row : moves' = [moves EXCEPT ![a]["original"] = row]
      BY DEF Step, StartMove, CreateMove, ResumeMove, AbandonMove, RefuseMove, Rename, FailRename,
             StartCopy, FinishCopy, AcceptCopy, RejectCopy, UnlinkOld, SavePath, ForgetMove
    <2> QED BY <1>2, <2>1 DEF TypeOK, Entry
  <1>6. \/ fs' = fs
        \/ /\ job[w].pc # "journal"
           /\ \/ \E c : fs' = [fs EXCEPT ![d] = c]
              \/ fs[from] = Bytes(a) /\ fs' = [fs EXCEPT ![from] = None]
              \/ fs[from] = Bytes(a) /\ \E c : fs' = [fs EXCEPT ![d] = c, ![from] = None]
    <2>1. CASE Rename(w)
      BY <1>1, <1>2, <2>1 DEF Rename, At, EntryFine
    <2>2. CASE UnlinkOld(w)
      BY <1>1, <1>2, <2>2 DEF UnlinkOld, At, JobFine, Moving
    <2>3. CASE StartCopy(w) \/ FinishCopy(w) \/ RejectCopy(w)
      BY <1>1, <2>3 DEF StartCopy, FinishCopy, RejectCopy, At
    <2>4. CASE \/ StartMove(w) \/ CreateMove(w) \/ ResumeMove(w) \/ AbandonMove(w)
               \/ RefuseMove(w) \/ FailRename(w) \/ AcceptCopy(w) \/ SavePath(w) \/ ForgetMove(w)
      BY <2>4 DEF StartMove, CreateMove, ResumeMove, AbandonMove, RefuseMove, FailRename,
                  AcceptCopy, SavePath, ForgetMove
    <2> QED BY <2>1, <2>2, <2>3, <2>4 DEF Step
  <1>7. \A p \in PathsOf("original") :
          \/ fs'[p] = fs[p] \/ fs[p] = Bytes(a) \/ (p = d /\ job[w].pc # "journal")
    BY <1>2, <1>6, Apart DEF TypeOK
  <1>8. fs'[Up(a)] \in {fs[Up(a)], None}
    BY <1>2, <1>6, Apart DEF TypeOK
  <1> QED BY <1>1, <1>3, <1>4, <1>5, <1>7, <1>8

\* The bytes of an asset are at its location, which is its upload path only
\* while the record says so.
AtLocation == \A a \in Assets :
    /\ fs[Location(a)] = Bytes(a) /\ Location(a) \in PathsOf("original")
    /\ Location(a) \in {Up(a)} \union Under(a)
    /\ Location(a) = Up(a) => Place(a) = Up(a)
    /\ fs[Place(a)] = Bytes(a) => Location(a) = Place(a)

LEMMA IsAtLocation == IndInv /\ TrackInv => AtLocation
  <1> SUFFICES ASSUME IndInv, TrackInv, NEW a \in Assets
               PROVE  /\ fs[Location(a)] = Bytes(a) /\ Location(a) \in PathsOf("original")
                      /\ Location(a) \in {Up(a)} \union Under(a)
                      /\ Location(a) = Up(a) => Place(a) = Up(a)
                      /\ fs[Place(a)] = Bytes(a) => Location(a) = Place(a)
    BY DEF AtLocation
  <1>1. /\ PlaceFine(a) /\ EntryFine(a) /\ RecordFine(a) /\ Up(a) \notin Under(a)
        /\ TypeOK
    BY Apart DEF TrackInv, IndInv
  <1>2. Location(a) = IF fs[Place(a)] = Bytes(a) \/ Entry(a) = None THEN Place(a)
                      ELSE IF fs[Entry(a).old] = Bytes(a) THEN Entry(a).old ELSE Entry(a).new
    BY DEF Location, Place, Bytes, Entry
  <1>3. /\ Place(a) \in PathsOf("original")
        /\ Entry(a) # None => /\ Entry(a).old \in PathsOf("original")
                              /\ Entry(a).new \in PathsOf("original")
    BY <1>1, OriginalPaths
  <1> QED BY <1>1, <1>2, <1>3 DEF PlaceFine, EntryFine, RecordFine

LEMMA SameLocation ==
    ASSUME TypeOK, NEW a \in Assets, Place(a)' = Place(a), Entry(a)' = Entry(a),
           fs'[Place(a)] = fs[Place(a)],
           Entry(a) # None => fs'[Entry(a).old] = fs[Entry(a).old]
    PROVE  Location(a)' = Location(a)
  <1>1. Location(a) = IF fs[Place(a)] = Bytes(a) \/ Entry(a) = None THEN Place(a)
                      ELSE IF fs[Entry(a).old] = Bytes(a) THEN Entry(a).old ELSE Entry(a).new
    BY DEF Location, Place, Bytes, Entry
  <1>2. Location(a)' = IF fs'[Place(a)'] = Bytes(a) \/ Entry(a)' = None THEN Place(a)'
                       ELSE IF fs'[Entry(a)'.old] = Bytes(a) THEN Entry(a)'.old ELSE Entry(a)'.new
    BY DEF Location, Place, Bytes, Entry
  <1> QED BY <1>1, <1>2

\* A step moves the original of one asset at most, and only to its template path.
LEMMA OneMoves ==
    ASSUME IndInv, TrackInv, IndInv', TrackInv', [Next]_vars, ~ChangeConfig
    PROVE  /\ config' = config
           /\ \/ \A b \in Assets : Location(b)' = Location(b)
              \/ \E a \in Assets :
                   /\ Location(a)' # Location(a) /\ Location(a)' \in Under(a)
                   /\ \A b \in Assets \ {a} : Location(b)' = Location(b)
  <1>1. TypeOK /\ AtLocation /\ AtLocation'
    BY IsAtLocation, PTL DEF IndInv
  <1>2. ASSUME SameOriginals PROVE config' = config /\ \A b \in Assets : Location(b)' = Location(b)
    <2> SUFFICES ASSUME NEW b \in Assets PROVE Location(b)' = Location(b)
      BY <1>2 DEF SameOriginals
    <2>1. /\ Place(b)' = Place(b) /\ Entry(b)' = Entry(b) /\ fs'[Place(b)] = fs[Place(b)]
          /\ Entry(b) # None => fs'[Entry(b).old] = fs[Entry(b).old]
      BY <1>1, <1>2, OriginalPaths DEF SameOriginals
    <2> QED BY <1>1, <2>1, SameLocation
  <1>3. ASSUME NEW w \in Workers, NEW a \in Assets, job[w].asset = a, Step(w),
               job[w].pc \in Moving, job[w].kind = "original"
        PROVE  /\ config' = config
               /\ \A b \in Assets \ {a} : Location(b)' = Location(b)
               /\ Location(a)' = Location(a) \/ Location(a)' \in Under(a)
    <2>1. /\ config' = config
          /\ \A p \in PathsOf("original") :
               \/ fs'[p] = fs[p]
               \/ fs[p] = Bytes(a)
               \/ p = job[w].dest /\ job[w].pc # "journal"
          /\ \A b \in Assets \ {a} : Place(b)' = Place(b) /\ Entry(b)' = Entry(b)
          /\ Place(a)' \in {Place(a), job[w].dest}
          /\ fs'[Up(a)] \in {fs[Up(a)], None}
      BY <1>3, OriginalFrame
    <2>2. ASSUME NEW b \in Assets, b # a PROVE Location(b)' = Location(b)
      <3>1. /\ Place(b) \in PathsOf("original")
            /\ Entry(b) # None => Entry(b).old \in PathsOf("original")
        BY <1>1, OriginalPaths
      <3>2. /\ fs'[Place(b)] = fs[Place(b)]
            /\ Entry(b) # None => fs'[Entry(b).old] = fs[Entry(b).old]
        BY <1>3, <2>1, <2>2, <3>1, Untouched
      <3> QED BY <1>1, <2>1, <2>2, <3>2, SameLocation
    <2>3. Location(a)' = Location(a) \/ Location(a)' \in Under(a)
      <3>1. /\ fs'[Location(a)'] = Bytes(a) /\ Location(a)' \in {Up(a)} \union Under(a)'
            /\ Location(a)' = Up(a) => Place(a)' = Up(a)
        BY <1>1 DEF AtLocation, Up, Bytes
      <3>2. Under(a)' = Under(a)
        BY <2>1, SameUnder
      <3>3. ASSUME Location(a)' = Up(a) PROVE Location(a) = Up(a)
        <4>1. job[w].dest # Up(a) /\ Bytes(a) # None
          BY <1>3, OriginalJob, Apart
        <4>2. Place(a) = Up(a) /\ fs[Up(a)] = Bytes(a)
          BY <2>1, <3>1, <3>3, <4>1
        <4> QED BY <1>1, <4>2 DEF AtLocation
      <3> QED BY <3>1, <3>2, <3>3
    <2> QED BY <2>1, <2>2, <2>3
  <1>4. ASSUME NEW w \in Workers, Step(w), ~(job[w].pc \in Moving /\ job[w].kind = "original")
        PROVE  SameOriginals
    <2>1. CASE StartMove(w)
      BY <2>1, SameTables DEF StartMove
    <2>2. CASE job[w].pc \in Moving
      <3>1. job[w].kind = "sidecar"
        BY <1>1, <1>4, <2>2 DEF TypeOK, Job, Kinds
      <3> QED BY <1>4, <2>2, <3>1, SidecarApart
    <2> QED BY <1>4, <2>1, <2>2
          DEF Step, At, Moving, CreateMove, ResumeMove, AbandonMove, RefuseMove, Rename,
              FailRename, StartCopy, FinishCopy, AcceptCopy, RejectCopy, UnlinkOld,
              SavePath, ForgetMove
  <1>5. CASE \E w \in Workers : Interrupt(w) \/ \E a \in Assets : Load(w, a)
    BY <1>2, <1>5, SameTables DEF Interrupt, Load
  <1>6. CASE UNCHANGED vars
    BY <1>2, <1>6, SameTables DEF vars
  <1>7. CASE \E w \in Workers : Step(w)
    <2>1. PICK w \in Workers : Step(w)
      BY <1>7
    <2>2. CASE job[w].pc \in Moving /\ job[w].kind = "original"
      <3>1. PICK a \in Assets : job[w].asset = a
        BY <2>2, MovingJob
      <3> QED BY <1>3, <2>1, <2>2, <3>1
    <2> QED BY <1>2, <1>4, <2>1, <2>2
  <1> QED BY <1>5, <1>6, <1>7 DEF Next

LEMMA PlacementInit == Init /\ IndInv /\ TrackInv => Placement!Init
  <1> SUFFICES ASSUME Init, IndInv, TrackInv PROVE Placement!Init
    OBVIOUS
  <1> DEFINE place == [a \in Assets |-> Location(a)]
  <1>1. /\ place \in [Assets -> PathsOf("original")]
        /\ \A a, b \in Assets : a # b => place[a] # place[b]
    BY IsAtLocation, Apart DEF AtLocation
  <1>2. [a \in Assets |-> {p \in PathsOf("original") : p.base = config.template[a]}]
          \in [Assets -> SUBSET PathsOf("original")]
    OBVIOUS
  <1> QED BY <1>1, <1>2 DEF Placement!Init

LEMMA PlacementNext ==
    IndInv /\ TrackInv /\ IndInv' /\ TrackInv' /\ ~ChangeConfig /\ [Next]_vars
      => [Placement!Next]_(Placement!vars)
  <1> SUFFICES ASSUME IndInv, TrackInv, IndInv', TrackInv', ~ChangeConfig, [Next]_vars
               PROVE  [Placement!Next]_(Placement!vars)
    OBVIOUS
  <1> DEFINE place   == [a \in Assets |-> Location(a)]
             targets == [a \in Assets |-> {p \in PathsOf("original") : p.base = config.template[a]}]
  <1>1. config' = config
    BY OneMoves
  <1>2. AtLocation'
    BY IsAtLocation, PTL
  <1>3. targets' = targets
    BY <1>1
  <1>4. CASE \A b \in Assets : Location(b)' = Location(b)
    BY <1>3, <1>4 DEF Placement!vars
  <1>5. ASSUME NEW a \in Assets, Location(a)' # Location(a), Location(a)' \in Under(a),
               \A b \in Assets \ {a} : Location(b)' = Location(b)
        PROVE  Placement!Move(a)
    <2>1. Location(a)' \in targets[a]
      BY <1>5 DEF Under
    <2>2. \A b \in Assets : Location(a)' # Location(b)
      <3> SUFFICES ASSUME NEW b \in Assets, b # a PROVE Location(a)' # Location(b)
        BY <1>5
      <3>1. fs'[Location(a)'] = Bytes(a)' /\ fs'[Location(b)'] = Bytes(b)'
        BY <1>2 DEF AtLocation
      <3>2. Bytes(a)' = Bytes(a) /\ Bytes(b)' = Bytes(b)
        BY DEF Bytes
      <3>3. Bytes(a) # Bytes(b)
        BY Apart
      <3>4. Location(b)' = Location(b)
        BY <1>5
      <3> QED BY <3>1, <3>2, <3>3, <3>4
    <2>3. place' = [place EXCEPT ![a] = Location(a)']
      <3> DEFINE new == Location(a)'
      <3>1. place' = [b \in Assets |-> Location(b)']
        OBVIOUS
      <3>2. \A b \in Assets : Location(b)' = IF b = a THEN new ELSE Location(b)
        BY <1>5
      <3>3. [place EXCEPT ![a] = new] = [b \in Assets |-> IF b = a THEN new ELSE Location(b)]
        OBVIOUS
      <3> HIDE DEF new, place
      <3>4. place' = [place EXCEPT ![a] = new]
        BY <3>1, <3>2, <3>3
      <3> QED BY <3>4 DEF new
    <2> QED BY <1>3, <2>1, <2>2, <2>3 DEF Placement!Move, Placement!Occupied
  <1> QED BY <1>4, <1>5, OneMoves DEF Placement!Next

-----------------------------------------------------------------------------
(***************************************************************************)
(* While no worker is cut off, rows of originals keep their paths.         *)
(***************************************************************************)

\* No process dies, no query throws: a worker cut off after the original has
\* moved leaves a sidecar where the next asset puts its own.
NoInterrupts == MaxInterrupts = 0

LowerTaken(p) ==
    \A q \in PathsOf("original") : q.base = p.base /\ q.dup < p.dup => fs[q] # None

\* A row leads from the upload to the first path that was free, and is.
RowFine(a) ==
    Entry(a) # None =>
      /\ Entry(a).old = Up(a) /\ (fs[Entry(a).new] # None => Arriving(a))
      /\ LowerTaken(Entry(a).new)

\* Where an asset was when it was read, it is; no row waits behind the copy.
JobCalm(w) ==
    /\ job[w].pc # "idle" =>
         \/ job[w].src["original"] = Up(job[w].asset)
         \/ fs[job[w].src["original"]] = Bytes(job[w].asset)
    /\ job[w].kind = "original" /\ job[w].pc = "journal" => LowerTaken(job[w].dest)
    /\ job[w].kind = "original" /\ job[w].pc \in {"copying", "verify"} =>
         \A b \in Assets : Entry(b) # None /\ Entry(b).new.base = job[w].dest.base
                             => ~(job[w].dest.dup < Entry(b).new.dup)

CalmInv == (\A a \in Assets : RowFine(a)) /\ (\A w \in Workers : JobCalm(w))

\* Originals that have arrived stay.
Stays == \A b \in Assets : \A p \in Under(b) : fs[p] = Bytes(b) => fs'[p] = Bytes(b)

LEMMA CalmLeaves ==
    ASSUME TypeOK, NEW w \in Workers, JobFine(w), JobCalm(w), Stays,
           \/ job'[w].pc = "idle"
           \/ /\ job'[w].kind = "sidecar" /\ job[w].pc # "idle"
              /\ job'[w].asset = job[w].asset /\ job'[w].src = job[w].src
    PROVE  JobCalm(w)'
  <1>1. job[w].pc # "idle" => job[w].asset \in Assets
    BY DEF TypeOK, JobOK, Job
  <1>2. job'[w].pc # "idle" =>
          \/ job'[w].src["original"] = Up(job'[w].asset)
          \/ fs'[job'[w].src["original"]] = Bytes(job'[w].asset)
    BY <1>1 DEF JobFine, JobCalm, Stays
  <1>3. job'[w].pc = "idle" \/ job'[w].kind = "sidecar"
    OBVIOUS
  <1> QED BY <1>2, <1>3 DEF JobCalm, Up, Bytes

\* How a job goes on when moveFile has returned.
LEMMA AfterMoveGoes ==
    ASSUME TypeOK, NEW w \in Workers
    PROVE  \/ AfterMove(job[w]).pc = "idle"
           \/ /\ AfterMove(job[w]).kind = "sidecar" /\ AfterMove(job[w]).pc = "journal"
              /\ AfterMove(job[w]).asset = job[w].asset /\ AfterMove(job[w]).src = job[w].src
              /\ AfterMove(job[w]).dest = Xmp(job[w].dest)
  BY DEF AfterMove, Idle, TypeOK, Job

LEMMA SameStays ==
    ASSUME SameOriginals PROVE Stays /\ \A p : LowerTaken(p)' <=> LowerTaken(p)
  <1>1. Stays
    BY DEF Stays, SameOriginals, Under
  <1>2. ASSUME NEW p PROVE LowerTaken(p)' <=> LowerTaken(p)
    BY DEF SameOriginals, LowerTaken
  <1> QED BY <1>1, <1>2

LEMMA CalmQuiet ==
    ASSUME IndInv, TrackInv, CalmInv, NEW w \in Workers, SameOriginals,
           \A u \in Workers \ {w} : job'[u] = job[u],
           lock' = lock \/ lock \in {w, None},
           \/ job[w].kind # "original"
           \/ job[w].pc \notin {"copying", "verify", "unlink", "save", "forget"},
           JobCalm(w)'
    PROVE  CalmInv'
  <1>1. TypeOK
    BY DEF IndInv
  <1>2. ASSUME NEW a \in Assets PROVE RowFine(a)'
    <2>1. Arriving(a) => Arriving(a)'
      BY NoneAssumption DEF Arriving, HolderAt
    <2>2. /\ Entry(a)' = Entry(a) /\ Up(a)' = Up(a)
          /\ Entry(a) # None => fs'[Entry(a).new] = fs[Entry(a).new]
      BY <1>1, OriginalPaths DEF SameOriginals, Up
    <2>3. \A p : LowerTaken(p)' <=> LowerTaken(p)
      BY SameStays
    <2>4. RowFine(a)
      BY DEF CalmInv
    <2>5. Entry(a) # None => LowerTaken(Entry(a).new)'
      <3>1. PICK n : n = Entry(a).new
        OBVIOUS
      <3>2. Entry(a)'.new = n
        BY <2>2, <3>1
      <3>3. Entry(a) # None => LowerTaken(n)
        BY <2>4, <3>1 DEF RowFine
      <3>4. Entry(a) # None => LowerTaken(n)'
        BY <2>3, <3>3
      <3> QED BY <3>2, <3>4 DEF LowerTaken
    <2> QED BY <2>1, <2>2, <2>4, <2>5 DEF RowFine
  <1>3. ASSUME NEW u \in Workers, u # w PROVE JobCalm(u)'
    <2>1. job'[u] = job[u] /\ JobCalm(u) /\ JobFine(u) /\ \A b \in Assets : Entry(b)' = Entry(b)
      BY <1>3 DEF CalmInv, TrackInv, SameOriginals
    <2>2. job[u].pc # "idle" => job[u].asset \in Assets
      BY <1>1 DEF TypeOK, JobOK, Job
    <2>3. job'[u].pc # "idle" =>
            \/ job'[u].src["original"] = Up(job'[u].asset)
            \/ fs'[job'[u].src["original"]] = Bytes(job'[u].asset)
      BY <2>1, <2>2, SameStays DEF JobCalm, JobFine, Stays
    <2>4. job'[u].kind = "original" /\ job'[u].pc = "journal" => LowerTaken(job[u].dest)'
      <3>1. PICK n : n = job[u].dest
        OBVIOUS
      <3>2. job'[u].dest = n
        BY <2>1, <3>1
      <3>3. job'[u].kind = "original" /\ job'[u].pc = "journal" => LowerTaken(n)'
        BY <2>1, <3>1, SameStays DEF JobCalm
      <3> QED BY <3>2, <3>3 DEF LowerTaken
    <2> QED BY <2>1, <2>3, <2>4 DEF JobCalm, Up, Bytes
  <1> QED BY <1>2, <1>3 DEF CalmInv

\* What a step of the move of an original does to the files.
LEMMA OriginalWrites ==
    ASSUME IndInv, TrackInv, CalmInv, NEW w \in Workers, NEW a \in Assets, NEW d,
           job[w].asset = a, job[w].dest = d, Step(w), job[w].pc \in Moving,
           job[w].kind = "original"
    PROVE  /\ \A p \in PathsOf("original") \ {Up(a), d} : fs'[p] = fs[p]
           /\ \A p \in PathsOf("sidecar") : fs'[p] = fs[p]
           /\ fs'[d] \in {fs[d], None} \/ fs'[d].of = a
           /\ \/ fs'[d] = fs[d]
              \/ job[w].pc = "transfer" /\ fs[d] = None /\ fs'[d] # None
              \/ job[w].pc = "copying" /\ fs[d].bytes = "short" /\ fs'[d] # None
              \/ job[w].pc = "verify" /\ fs[d] # Bytes(a) /\ fs'[d] = None
  <1>1. /\ TypeOK /\ JobOK(job[w]) /\ DiskAgrees(job[w]) /\ JobFine(w) /\ d \in Path /\ d # Up(a)
        /\ d \in PathsOf("original")
    BY OriginalJob DEF Under
  <1>2. job[w].pc # "journal" => job[w].from = Up(a)
    BY OriginalJob DEF CalmInv, RowFine
  <1>3. /\ Up(a) \in Path /\ Up(a) \in PathsOf("original")
        /\ fs[Up(a)] \in {None, Bytes(a)} /\ Bytes(a).of = a /\ Bytes(a) \in Content
    BY Apart, OriginalJob DEF PlaceFine
  <1>4. \A p \in PathsOf("sidecar") : p # d /\ p # Up(a)
    BY <1>1, <1>3, PathKinds DEF Kinds
  <1>5. CASE Rename(w)
    <2>1. /\ fs' = [fs EXCEPT ![d] = fs[Up(a)], ![Up(a)] = None]
          /\ fs[Up(a)] # None /\ job[w].pc = "transfer"
      BY <1>2, <1>5 DEF Rename, At
    <2> QED BY <1>1, <1>3, <1>4, <2>1, PathKinds DEF TypeOK, DiskAgrees, Kinds
  <1>6. CASE StartCopy(w)
    <2>1. PICK c : /\ fs' = [fs EXCEPT ![d] = c]
                   /\ c = [fs[Up(a)] EXCEPT !.bytes = "short"]
                   /\ fs[Up(a)] # None /\ job[w].pc = "transfer"
      BY <1>2, <1>6 DEF StartCopy, At
    <2>2. fs[Up(a)] \in Content
      BY <1>1, <1>3, <2>1 DEF TypeOK
    <2>3. c # None /\ c.of = a
      BY <1>3, <2>1, <2>2, DamagedContent, NoneAssumption DEF Damage, Content
    <2> QED BY <1>1, <1>3, <1>4, <2>1, <2>3, PathKinds DEF TypeOK, DiskAgrees, Kinds
  <1>7. CASE FinishCopy(w)
    <2>1. job[w].pc = "copying" /\ fs[Up(a)] # None /\ fs[d].bytes = "short"
      BY <1>1, <1>2, <1>7 DEF FinishCopy, At, DiskAgrees
    <2>2. fs[Up(a)] \in Content
      BY <1>1, <1>3, <2>1 DEF TypeOK
    <2>3. \/ fs' = [fs EXCEPT ![d] = fs[Up(a)]]
          \/ \E damage \in CopyFaults : fs' = [fs EXCEPT ![d] = [fs[Up(a)] EXCEPT !.bytes = damage]]
      BY <1>2, <1>7, <2>1 DEF FinishCopy
    <2>4. PICK c : fs' = [fs EXCEPT ![d] = c] /\ c # None /\ c.of = a
      <3>1. \A damage \in CopyFaults : /\ [fs[Up(a)] EXCEPT !.bytes = damage] # None
                                       /\ [fs[Up(a)] EXCEPT !.bytes = damage].of = a
        BY <1>3, <2>1, <2>2, DamagedContent, NoneAssumption, ConstantsAssumption DEF Content
      <3> QED BY <1>3, <2>1, <2>3, <3>1
    <2> QED BY <1>1, <1>3, <1>4, <2>1, <2>4, PathKinds DEF TypeOK, Kinds
  <1>8. CASE RejectCopy(w)
    <2>1. job[w].pc = "verify" /\ fs' = [fs EXCEPT ![d] = None] /\ ~Matches(job[w], job[w].from, d)
      BY <1>8 DEF RejectCopy, At
    <2>2. fs[d] # Bytes(a)
      BY <2>1 DEF Matches, Size, Bytes, Whole
    <2> QED BY <1>1, <1>3, <1>4, <2>1, <2>2, PathKinds DEF TypeOK, Kinds
  <1>9. CASE UnlinkOld(w)
    <2>1. fs' = [fs EXCEPT ![Up(a)] = None] \/ fs' = fs
      BY <1>2, <1>9 DEF UnlinkOld, At
    <2> QED BY <1>1, <1>3, <1>4, <2>1, PathKinds DEF TypeOK, Kinds
  <1>10. CASE \/ StartMove(w) \/ CreateMove(w) \/ ResumeMove(w) \/ AbandonMove(w)
              \/ RefuseMove(w) \/ FailRename(w) \/ AcceptCopy(w) \/ SavePath(w) \/ ForgetMove(w)
    BY <1>10 DEF StartMove, CreateMove, ResumeMove, AbandonMove, RefuseMove, FailRename,
                 AcceptCopy, SavePath, ForgetMove
  <1> QED BY <1>5, <1>6, <1>7, <1>8, <1>9, <1>10 DEF Step

LEMMA ArrivedStay ==
    ASSUME IndInv, TrackInv, CalmInv, NEW w \in Workers, Step(w), job[w].pc \in Moving,
           job[w].kind = "original"
    PROVE  Stays
  <1>0. PICK d : job[w].dest = d
    OBVIOUS
  <1>1. PICK a \in Assets : job[w].asset = a
    BY MovingJob
  <1>2. SUFFICES ASSUME NEW b \in Assets, NEW p \in Under(b), fs[p] = Bytes(b)
                 PROVE  fs'[p] = Bytes(b)
    BY DEF Stays
  <1>3. p \in PathsOf("original") /\ p # Up(a) /\ TypeOK
    BY Apart DEF IndInv, Under
  <1>4. CASE p = d
    <2>1. /\ fs[d] # None /\ fs[d].of = b /\ fs[d].bytes = "whole"
          /\ (fs[d] = Bytes(a) <=> a = b)
      BY <1>2, <1>4, Apart
    <2>2. job[w].pc # "journal" => fs[d].of = a
      BY <1>0, <1>1, <2>1, OriginalJob DEF EntryFine
    <2>3. job[w].pc # "verify" \/ fs[d] = Bytes(a)
      BY <2>1, <2>2
    <2> QED BY <1>0, <1>1, <1>2, <1>4, <2>1, <2>3, OriginalWrites
  <1>5. CASE p # d
    BY <1>0, <1>1, <1>2, <1>3, <1>5, OriginalWrites
  <1> QED BY <1>4, <1>5

LEMMA LowerStays ==
    ASSUME IndInv, TrackInv, CalmInv, NEW w \in Workers, Step(w), job[w].pc \in Moving,
           job[w].kind = "original", NEW b \in Assets, Entry(b) # None, NEW n, n = Entry(b).new
    PROVE  LowerTaken(n)'
  <1>0. PICK d : job[w].dest = d
    OBVIOUS
  <1>1. PICK a \in Assets : job[w].asset = a
    BY MovingJob
  <1>2. SUFFICES ASSUME NEW q \in PathsOf("original"), q.base = n.base, q.dup < n.dup
                 PROVE  fs'[q] # None
    BY DEF LowerTaken
  <1>3. fs[q] # None
    BY <1>2 DEF CalmInv, RowFine, LowerTaken
  <1>4. n \in Under(b) /\ TypeOK
    BY DEF TrackInv, EntryFine, IndInv
  <1>5. q \in Under(b)
    BY <1>2, <1>4 DEF Under
  <1>6. q # Up(a)
    BY <1>4, <1>5, Apart
  <1>7. CASE q = d
    <2>1. job[w].pc = "verify" => ~(d.dup < n.dup)
      BY <1>0, <1>1, <1>2, <1>7 DEF CalmInv, JobCalm
    <2> QED BY <1>0, <1>1, <1>2, <1>3, <1>7, <2>1, OriginalWrites
  <1>8. CASE q # d
    BY <1>0, <1>1, <1>3, <1>6, <1>8, OriginalWrites
  <1> QED BY <1>7, <1>8

\* A step of the move of an original keeps the rows, if it does for its asset.
LEMMA OwnCalm ==
    ASSUME IndInv, TrackInv, CalmInv, NEW w \in Workers, NEW a \in Assets, job[w].asset = a,
           Step(w), job[w].pc \in Moving, job[w].kind = "original",
           \A u \in Workers \ {w} : job'[u] = job[u],
           RowFine(a)', JobCalm(w)'
    PROVE  CalmInv'
  <1>1. TypeOK /\ lock = w /\ LockHeld /\ Stays
    BY OriginalJob, ArrivedStay DEF IndInv, MoveDiscipline
  <1>2. ASSUME NEW b \in Assets, b # a PROVE RowFine(b)'
    <2>1. Entry(b)' = Entry(b) /\ RowFine(b) /\ Up(b)' = Up(b)
      BY <1>2, OriginalFrame DEF CalmInv, Up
    <2>2. CASE Entry(b) = None
      BY <2>1, <2>2 DEF RowFine
    <2>3. CASE Entry(b) # None
      <3>1. PICK n : n = Entry(b).new
        OBVIOUS
      <3>2. n \in PathsOf("original")
        BY <1>1, <2>3, <3>1, OriginalPaths
      <3>3. fs[n] = None
        BY <1>1, <1>2, <2>1, <2>3, <3>1 DEF RowFine, Arriving, HolderAt
      <3>4. fs'[n] = fs[n]
        BY <1>2, <2>3, <3>1, <3>2, OriginalFrame, Untouched
      <3>5. LowerTaken(n)'
        BY <2>3, <3>1, LowerStays
      <3>6. Entry(b)'.old = Up(b)' /\ Entry(b)'.new = n
        BY <2>1, <2>3, <3>1 DEF RowFine
      <3>7. LowerTaken(Entry(b).new)'
        BY <3>5, <3>6 DEF LowerTaken
      <3> QED BY <3>3, <3>4, <3>6, <3>7 DEF RowFine
    <2> QED BY <2>2, <2>3
  <1>3. ASSUME NEW u \in Workers, u # w PROVE JobCalm(u)'
    <2>1. job'[u] = job[u] /\ JobCalm(u) /\ JobFine(u) /\ job[u].pc \notin Moving
      BY <1>1, <1>3 DEF CalmInv, TrackInv, LockHeld
    <2>2. job[u].pc # "idle" => job[u].asset \in Assets
      BY <1>1 DEF TypeOK, JobOK, Job
    <2>3. job'[u].pc # "idle" =>
            \/ job'[u].src["original"] = Up(job'[u].asset)
            \/ fs'[job'[u].src["original"]] = Bytes(job'[u].asset)
      BY <1>1, <2>1, <2>2 DEF JobCalm, JobFine, Stays
    <2> QED BY <2>1, <2>3 DEF JobCalm, Up, Bytes, Moving
  <1> QED BY <1>2, <1>3 DEF CalmInv

\* Two free paths below which none is free are the same.
LEMMA FirstFree ==
    ASSUME NEW p \in PathsOf("original"), NEW q \in PathsOf("original"), p.base = q.base,
           fs[p] = None, fs[q] = None, LowerTaken(p), LowerTaken(q)
    PROVE  p = q
  <1>1. ~(p.dup < q.dup) /\ ~(q.dup < p.dup)
    BY DEF LowerTaken
  <1>2. /\ p = [base |-> p.base, dup |-> p.dup, kind |-> p.kind]
        /\ q = [base |-> q.base, dup |-> q.dup, kind |-> q.kind]
    BY DEF PathsOf
  <1>3. p.dup \in Nat /\ q.dup \in Nat /\ p.kind = q.kind
    BY ConstantsAssumption DEF PathsOf
  <1> QED BY <1>1, <1>2, <1>3

\* The row of an earlier attempt leads from the upload to the path found now.
LEMMA RowIsCurrent ==
    ASSUME IndInv, TrackInv, CalmInv, NEW w \in Workers, NEW a \in Assets, job[w].asset = a,
           job[w].pc = "journal", job[w].kind = "original", RowOf(job[w]) # None
    PROVE  /\ Entry(a) = RowOf(job[w]) /\ Entry(a) # None
           /\ Entry(a).new = job[w].dest /\ fs[job[w].dest] = None /\ Entry(a).old = Up(a)
           /\ ActualPath(RowOf(job[w])) \in {None, Up(a)}
  <1>1. /\ TypeOK /\ lock = w /\ DiskAgrees(job[w]) /\ job[w].dest \in Under(a)
        /\ JobCalm(w) /\ RowFine(a) /\ EntryFine(a)
    BY OriginalJob DEF Moving, CalmInv
  <1>2. Entry(a) = RowOf(job[w])
    BY DEF Entry, RowOf
  <1>3. fs[Entry(a).new] = None /\ fs[job[w].dest] = None
    BY <1>1, <1>2 DEF RowFine, DiskAgrees, Arriving, HolderAt
  <1>4. Entry(a).new = job[w].dest
    <2>1. /\ Entry(a).new \in PathsOf("original") /\ job[w].dest \in PathsOf("original")
          /\ Entry(a).new.base = job[w].dest.base
      BY <1>1, <1>2 DEF EntryFine, Under
    <2>2. LowerTaken(Entry(a).new) /\ LowerTaken(job[w].dest)
      BY <1>1, <1>2 DEF RowFine, JobCalm
    <2> QED BY <1>3, <2>1, <2>2, FirstFree
  <1> QED BY <1>1, <1>2, <1>3, <1>4 DEF RowFine, ActualPath

LEMMA RowCalm ==
    ASSUME IndInv, TrackInv, CalmInv, NEW w \in Workers, NEW a \in Assets, job[w].asset = a,
           CreateMove(w) \/ ResumeMove(w), job[w].kind = "original"
    PROVE  CalmInv'
  <1>1. PICK d : d = job[w].dest
    OBVIOUS
  <1>2. job[w].pc = "journal" /\ Step(w)
    BY DEF CreateMove, ResumeMove, At, Step
  <1>3. /\ TypeOK /\ JobCalm(w) /\ DiskAgrees(job[w]) /\ job[w].src["original"] = Up(a)
        /\ d \in Path
    BY <1>1, <1>2, OriginalJob DEF Moving, CalmInv
  <1>4. /\ moves' = [moves EXCEPT ![a]["original"] = [old |-> Up(a), new |-> d]]
        /\ Continue(w, [job[w] EXCEPT !.pc = "transfer", !.from = Up(a)])
        /\ fs' = fs
    <2>1. CASE CreateMove(w)
      BY <1>1, <1>3, <2>1 DEF CreateMove
    <2>2. CASE ResumeMove(w)
      <3>1. ActualPath(RowOf(job[w])) = Up(a) /\ Up(a) # d
        BY <1>1, <1>2, <2>2, RowIsCurrent, OriginalJob DEF ResumeMove, Moving
      <3> QED BY <1>1, <2>2, <3>1 DEF ResumeMove
    <2> QED BY <2>1, <2>2
  <1>5. Entry(a)' = [old |-> Up(a), new |-> d]
    <2>1. moves \in [Assets -> [Kinds -> Row \union {None}]] /\ "original" \in Kinds
      BY <1>3 DEF TypeOK, Kinds
    <2> QED BY <1>4, <2>1 DEF Entry
  <1>6. Entry(a)'.old = Up(a) /\ Entry(a)'.new = d
    BY <1>5
  <1>7. LowerTaken(d) /\ LowerTaken(d)' /\ fs'[d] = None
    BY <1>1, <1>2, <1>3, <1>4 DEF JobCalm, DiskAgrees, LowerTaken
  <1>8. RowFine(a)'
    <2>1. LowerTaken(Entry(a).new)'
      BY <1>6, <1>7 DEF LowerTaken
    <2> QED BY <1>6, <1>7, <2>1 DEF RowFine, Up
  <1>9. /\ job'[w].pc = "transfer" /\ job'[w].asset = a /\ job'[w].src = job[w].src
        /\ \A u \in Workers \ {w} : job'[u] = job[u]
    <2>1. GoesOn(w, "transfer", Up(a))
      BY <1>3, <1>4, NextJob
    <2> QED BY <2>1 DEF GoesOn
  <1>10. JobCalm(w)'
    BY <1>3, <1>9 DEF JobCalm, Up
  <1> QED BY <1>2, <1>8, <1>9, <1>10, OwnCalm DEF Moving

\* The steps of the file on its way, at which the row stays.
LEMMA WayCalm ==
    ASSUME IndInv, TrackInv, CalmInv, NEW w \in Workers, NEW a \in Assets, job[w].asset = a,
           job[w].kind = "original",
           \/ Rename(w) \/ StartCopy(w) \/ FinishCopy(w) \/ AcceptCopy(w) \/ UnlinkOld(w)
           \/ SavePath(w)
    PROVE  CalmInv'
  <1>1. PICK d, pc :
          /\ d = job[w].dest
          /\ Continue(w, [job[w] EXCEPT !.pc = pc])
          /\ \/ job[w].pc = "transfer" /\ pc \in {"copying", "save"}
             \/ job[w].pc = "copying" /\ pc = "verify"
             \/ job[w].pc \in {"verify", "unlink", "save"} /\ pc \in {"unlink", "save", "forget"}
    BY DEF Rename, StartCopy, FinishCopy, AcceptCopy, UnlinkOld, SavePath, At
  <1>2. job[w].pc \in Moving /\ job[w].pc # "journal" /\ Step(w) /\ moves' = moves
    BY <1>1 DEF Moving, Step, Rename, StartCopy, FinishCopy, AcceptCopy, UnlinkOld, SavePath
  <1>3. /\ TypeOK /\ DiskAgrees(job[w]) /\ JobCalm(w) /\ RowFine(a) /\ Stays
        /\ job[w].src["original"] = Up(a)
        /\ Entry(a) # None /\ Entry(a).new = d /\ Entry(a)' = Entry(a)
    BY <1>1, <1>2, OriginalJob, ArrivedStay DEF CalmInv, Entry
  <1>4. /\ job'[w].pc = pc /\ job'[w].asset = a /\ job'[w].kind = "original"
        /\ job'[w].src = job[w].src /\ job'[w].dest = d /\ lock' = w
        /\ \A u \in Workers \ {w} : job'[u] = job[u]
    <2>1. GoesOn(w, pc, job[w].from)
      BY <1>1, <1>3, NextJob
    <2> QED BY <1>1, <2>1 DEF GoesOn
  <1>5. RowFine(a)'
    <2>1. Arriving(a)'
      BY <1>1, <1>4 DEF Arriving, HolderAt
    <2>2. LowerTaken(d)'
      BY <1>2, <1>3, LowerStays
    <2>3. LowerTaken(Entry(a).new)'
      BY <1>3, <2>2 DEF LowerTaken
    <2> QED BY <1>3, <2>1, <2>3 DEF RowFine, Up
  <1>6. JobCalm(w)'
    <2>1. pc \in {"copying", "verify"} =>
            \A b \in Assets : Entry(b) # None /\ Entry(b).new.base = d.base
                                => ~(d.dup < Entry(b).new.dup)
      <3>1. CASE pc = "verify"
        BY <1>1, <1>3, <3>1 DEF JobCalm
      <3>2. CASE pc = "copying"
        <4>1. fs[d] = None /\ d \in PathsOf("original")
          BY <1>1, <1>2, <1>3, <3>2, OriginalPaths DEF DiskAgrees
        <4> QED BY <4>1 DEF CalmInv, RowFine, LowerTaken
      <3> QED BY <3>1, <3>2
    <2>2. \A b \in Assets : Entry(b)' = Entry(b)
      BY <1>2 DEF Entry
    <2> QED BY <1>1, <1>3, <1>4, <2>1, <2>2 DEF JobCalm, Up
  <1> QED BY <1>2, <1>4, <1>5, <1>6, OwnCalm

LEMMA RejectCopyCalm ==
    ASSUME IndInv, TrackInv, CalmInv, NEW w \in Workers, NEW a \in Assets, job[w].asset = a,
           RejectCopy(w), job[w].kind = "original"
    PROVE  CalmInv'
  <1>1. /\ job[w].pc = "verify" /\ fs' = [fs EXCEPT ![job[w].dest] = None] /\ moves' = moves
        /\ Continue(w, AfterMove(job[w])) /\ Step(w) /\ config' = config
    BY DEF RejectCopy, At, Step
  <1>2. /\ TypeOK /\ JobFine(w) /\ JobCalm(w) /\ RowFine(a) /\ Stays /\ job[w].dest \in Path
        /\ Entry(a) # None /\ Entry(a).new = job[w].dest /\ Entry(a)' = Entry(a)
    BY <1>1, OriginalJob, ArrivedStay DEF Moving, CalmInv, Entry
  <1>3. RowFine(a)'
    <2>1. PICK d : d = job[w].dest
      OBVIOUS
    <2>2. LowerTaken(d)'
      BY <1>1, <1>2, <2>1, LowerStays DEF Moving
    <2>3. LowerTaken(Entry(a).new)' /\ fs'[Entry(a)'.new] = None
      BY <1>1, <1>2, <2>1, <2>2 DEF LowerTaken, TypeOK
    <2> QED BY <1>2, <2>3 DEF RowFine, Up
  <1>4. JobCalm(w)' /\ \A u \in Workers \ {w} : job'[u] = job[u]
    BY <1>1, <1>2, AfterMoveGoes, Continued, CalmLeaves DEF Moving
  <1> QED BY <1>1, <1>3, <1>4, OwnCalm DEF Moving

LEMMA ForgetMoveCalm ==
    ASSUME IndInv, TrackInv, CalmInv, NEW w \in Workers, NEW a \in Assets, job[w].asset = a,
           ForgetMove(w), job[w].kind = "original"
    PROVE  CalmInv'
  <1>1. /\ job[w].pc = "forget" /\ moves' = [moves EXCEPT ![a]["original"] = None]
        /\ Continue(w, AfterMove(job[w])) /\ Step(w)
    BY DEF ForgetMove, At, Step
  <1>2. /\ TypeOK /\ JobFine(w) /\ JobCalm(w) /\ Stays
    BY <1>1, OriginalJob, ArrivedStay DEF Moving, CalmInv
  <1>3. RowFine(a)'
    <2>1. moves \in [Assets -> [Kinds -> Row \union {None}]] /\ "original" \in Kinds
      BY <1>2 DEF TypeOK, Kinds
    <2> QED BY <1>1, <2>1 DEF RowFine, Entry
  <1>4. JobCalm(w)' /\ \A u \in Workers \ {w} : job'[u] = job[u]
    BY <1>1, <1>2, AfterMoveGoes, Continued, CalmLeaves DEF Moving
  <1> QED BY <1>1, <1>3, <1>4, OwnCalm DEF Moving

\* moveFile returns before anything was copied.
LEMMA ReturnCalm ==
    ASSUME IndInv, TrackInv, CalmInv, NEW w \in Workers, job[w].pc \in {"journal", "transfer"},
           Continue(w, AfterMove(job[w])) \/ Continue(w, Idle),
           UNCHANGED <<fs, db, moves, config>>
    PROVE  CalmInv'
  <1>1. /\ job[w].pc \in Moving /\ TypeOK /\ JobFine(w) /\ JobCalm(w) /\ SameOriginals /\ Stays
    BY SameTables, SameStays DEF Moving, IndInv, TrackInv, CalmInv
  <1>2. lock = w /\ \A u \in Workers \ {w} : job'[u] = job[u]
    BY <1>1, MovingJob, Continued
  <1>3. JobCalm(w)'
    BY <1>1, AfterMoveGoes, Continued, CalmLeaves DEF Idle
  <1> QED BY <1>1, <1>2, <1>3, CalmQuiet

LEMMA LoadCalm ==
    ASSUME IndInv, TrackInv, CalmInv, NEW w \in Workers, NEW a \in Assets, Load(w, a)
    PROVE  CalmInv'
  <1> DEFINE j == [pc |-> "loaded", asset |-> a, kind |-> "original",
                   src |-> db[a], dest |-> None, from |-> None]
  <1>1. /\ job[w].pc = "idle" /\ job' = [job EXCEPT ![w] = j]
        /\ UNCHANGED <<fs, db, moves, lock, config, faults, interrupts, changes>>
    BY DEF Load, At
  <1>2. /\ job'[w] = j /\ \A u \in Workers \ {w} : job'[u] = job[u]
    BY <1>1 DEF IndInv, TypeOK
  <1>3. j.pc = "loaded" /\ j.asset = a /\ j.src["original"] = Place(a)
    BY DEF Place
  <1>4. Place(a) = Up(a) \/ fs[Place(a)] = Bytes(a)
    BY DEF TrackInv, RecordFine, CalmInv, RowFine
  <1> HIDE DEF j
  <1>5. JobCalm(w)'
    BY <1>1, <1>2, <1>3, <1>4 DEF JobCalm, Up, Bytes
  <1> QED BY <1>1, <1>2, <1>5, SameTables, CalmQuiet

\* What StartMove goes on with.
LEMMA Started ==
    ASSUME IndInv, TrackInv, CalmInv, NEW w \in Workers, NEW a \in Assets, job[w].asset = a,
           StartMove(w)
    PROVE  /\ \/ job'[w].pc = "idle"
              \/ /\ job'[w].kind = "sidecar" /\ job'[w].pc = "journal"
                 /\ job'[w].dest = Xmp(job[w].src["original"])
                 /\ job'[w].asset = a /\ job'[w].src = job[w].src
              \/ /\ job'[w].kind = "original" /\ job'[w].pc = "journal"
                 /\ job'[w].asset = a /\ job'[w].src = job[w].src
                 /\ LowerTaken(job'[w].dest)
           /\ \A u \in Workers \ {w} : job'[u] = job[u]
  <1> DEFINE src == job[w].src["original"]
  <1>1. PICK dest \in TemplatePath(a, src) :
          Continue(w, IF ExifSize[a] = 0 THEN Idle
                      ELSE IF dest = src THEN AfterMove([job[w] EXCEPT !.pc = "journal", !.dest = dest])
                      ELSE [job[w] EXCEPT !.pc = "journal", !.dest = dest])
    BY DEF StartMove
  <1> DEFINE j == [job[w] EXCEPT !.pc = "journal", !.dest = dest]
  <1>2. job[w].kind = "original" /\ TypeOK /\ job[w] \in Job /\ job[w].pc = "loaded"
    BY DEF StartMove, At, IndInv, TypeOK, JobOK
  <1>3. /\ j.pc = "journal" /\ j.dest = dest /\ j.asset = a /\ j.kind = "original"
        /\ j.src = job[w].src /\ j \in [pc : {"journal"}, asset : {a}, kind : {"original"},
                                        src : {job[w].src}, dest : {dest}, from : {job[w].from}]
    BY <1>2 DEF Job
  <1>4. \A u \in Workers \ {w} : job'[u] = job[u]
    BY <1>1, <1>2, Continued
  <1>5. CASE ExifSize[a] = 0
    BY <1>1, <1>2, <1>4, <1>5, Continued DEF Idle
  <1>6. CASE ExifSize[a] # 0 /\ dest = src
    <2>1. job'[w] = AfterMove(j)
      BY <1>1, <1>2, <1>6, Continued
    <2>2. \/ AfterMove(j) = Idle
          \/ /\ AfterMove(j).kind = "sidecar" /\ AfterMove(j).pc = "journal"
             /\ AfterMove(j).dest = Xmp(dest)
             /\ AfterMove(j).asset = a /\ AfterMove(j).src = job[w].src
      BY <1>3 DEF AfterMove
    <2> QED BY <1>4, <1>6, <2>1, <2>2 DEF Idle
  <1>7. CASE ExifSize[a] # 0 /\ dest # src
    <2>1. job'[w] = j
      BY <1>1, <1>2, <1>7, Continued
    <2>2. LowerTaken(dest)
      BY <1>7 DEF TemplatePath, LowerTaken
    <2> QED BY <1>3, <1>4, <2>1, <2>2
  <1> QED BY <1>5, <1>6, <1>7

LEMMA StartMoveCalm ==
    ASSUME IndInv, TrackInv, CalmInv, NEW w \in Workers, StartMove(w) PROVE CalmInv'
  <1>1. /\ job[w].pc = "loaded" /\ lock = None /\ SameOriginals /\ Stays /\ fs' = fs
        /\ TypeOK /\ JobFine(w) /\ JobCalm(w)
    BY SameTables, SameStays DEF StartMove, At, IndInv, TrackInv, CalmInv
  <1>2. PICK a \in Assets : job[w].asset = a
    BY <1>1 DEF TypeOK, JobOK, Job
  <1>3. /\ \/ job'[w].pc = "idle"
           \/ /\ job'[w].kind = "sidecar"
              /\ job'[w].asset = a /\ job'[w].src = job[w].src
           \/ /\ job'[w].kind = "original" /\ job'[w].pc = "journal"
              /\ job'[w].asset = a /\ job'[w].src = job[w].src
              /\ LowerTaken(job'[w].dest)
        /\ \A u \in Workers \ {w} : job'[u] = job[u]
    BY <1>2, Started
  <1>4. JobCalm(w)'
    <2>1. CASE job'[w].kind = "original" /\ job'[w].pc = "journal" /\ LowerTaken(job'[w].dest)
               /\ job'[w].asset = a /\ job'[w].src = job[w].src
      <3>1. LowerTaken(job[w].dest)'
        BY <1>1, <2>1 DEF LowerTaken
      <3> QED BY <1>1, <1>2, <2>1, <3>1 DEF JobCalm, Up, Bytes
    <2> QED BY <1>1, <1>2, <1>3, <2>1, CalmLeaves
  <1> QED BY <1>1, <1>3, <1>4, CalmQuiet

LEMMA SidecarCalm ==
    ASSUME IndInv, TrackInv, CalmInv, NEW w \in Workers, Step(w), job[w].pc \in Moving,
           job[w].kind = "sidecar"
    PROVE  CalmInv'
  <1>1. SameOriginals /\ lock = w /\ TypeOK /\ JobFine(w) /\ JobCalm(w) /\ Stays
    BY SidecarApart, MovingJob, SameStays DEF IndInv, TrackInv, CalmInv
  <1>2. JobCalm(w)'
    BY <1>1, SidecarGoesOn, CalmLeaves DEF Moving
  <1>3. \A u \in Workers \ {w} : job'[u] = job[u]
    <2>1. \E j : Continue(w, j)
      BY DEF Step, StartMove, CreateMove, ResumeMove, AbandonMove, RefuseMove, Rename, FailRename,
             StartCopy, FinishCopy, AcceptCopy, RejectCopy, UnlinkOld, SavePath, ForgetMove
    <2> QED BY <1>1, <2>1, Continued
  <1> QED BY <1>1, <1>2, <1>3, CalmQuiet

LEMMA StepCalm ==
    ASSUME IndInv, TrackInv, CalmInv, NEW w \in Workers, Step(w) PROVE CalmInv'
  <1>1. CASE job[w].pc \in Moving /\ job[w].kind = "original"
    <2>1. PICK a \in Assets : job[w].asset = a
      BY <1>1, MovingJob
    <2>2. ~StartMove(w)
      BY <1>1 DEF StartMove, At, Moving
    <2>3. CASE AbandonMove(w) \/ RefuseMove(w) \/ FailRename(w)
      BY <2>3, ReturnCalm DEF AbandonMove, RefuseMove, FailRename, At
    <2> QED BY <1>1, <2>1, <2>2, <2>3, RowCalm, WayCalm, RejectCopyCalm, ForgetMoveCalm DEF Step
  <1>2. CASE job[w].pc \in Moving /\ job[w].kind = "sidecar"
    BY <1>2, SidecarCalm
  <1>3. CASE job[w].pc \notin Moving
    BY <1>3, StartMoveCalm
       DEF Step, At, Moving, CreateMove, ResumeMove, AbandonMove, RefuseMove, Rename,
           FailRename, StartCopy, FinishCopy, AcceptCopy, RejectCopy, UnlinkOld,
           SavePath, ForgetMove
  <1>4. job[w].kind \in {"original", "sidecar"}
    BY DEF IndInv, TypeOK, Job, Kinds
  <1> QED BY <1>1, <1>2, <1>3, <1>4

-----------------------------------------------------------------------------
(***************************************************************************)
(* Sidecars: every asset owns the sidecar paths next to where its original *)
(* was, is, or is on its way to.                                           *)
(***************************************************************************)

\* The size tells a damaged copy: a copied sidecar is not hashed.
SizesTell == "garbled" \notin CopyFaults

Side(a) == Whole(a, "sidecar")
Cut(a)  == [Side(a) EXCEPT !.bytes = "short"]

Stops(a) == {d \in PathsOf("original") :
               \/ d = Up(a)
               \/ d \in Under(a) /\ (fs[d] = Bytes(a) \/ (Entry(a) # None /\ Entry(a).new = d))}
Own(a) == {Xmp(d) : d \in Stops(a)}

\* The holder of the lock is copying a sidecar to p.
CopiedTo(a, p) ==
    /\ lock \in Workers
    /\ job[lock].asset = a /\ job[lock].kind = "sidecar"
    /\ job[lock].pc \in {"copying", "verify"} /\ job[lock].dest = p

\* Record and row lead to own paths; one of these has the sidecar, and no
\* other file is on any, but for a copy under way.
SideFine(a) ==
    /\ db[a]["sidecar"] \in Own(a) \union {None}
    /\ moves[a]["sidecar"] # None =>
         moves[a]["sidecar"].old \in Own(a) /\ moves[a]["sidecar"].new \in Own(a)
    /\ \A p \in Own(a) : fs[p] \in {None, Side(a)} \/ CopiedTo(a, p)
    /\ a \in WithSidecar => \E p \in Own(a) : fs[p] = Side(a)

NoStrays == \A p \in PathsOf("sidecar") : fs[p] # None => \E a \in Assets : p \in Own(a)

\* What a worker knows of the sidecar of its asset.
JobSide(w) ==
    /\ job[w].pc # "idle" => job[w].src["sidecar"] \in Own(job[w].asset) \union {None}
    /\ job[w].pc \in Moving /\ job[w].kind = "sidecar" =>
         /\ job[w].dest \in Own(job[w].asset)
         /\ job[w].pc # "journal" => job[w].from \in Own(job[w].asset)
         /\ job[w].pc \in {"copying", "verify", "unlink"} =>
              fs[job[w].from] = Side(job[w].asset)
         /\ job[w].pc \in {"copying", "verify"} =>
              fs[job[w].dest] \in {Side(job[w].asset), Cut(job[w].asset)}
         /\ job[w].pc = "unlink" => fs[job[w].dest] = Side(job[w].asset)

SideInv ==
    /\ \A a \in Assets : SideFine(a)
    /\ NoStrays
    /\ \A w \in Workers : JobSide(w)

LEMMA XmpPaths ==
    /\ \A d \in PathsOf("original") : Xmp(d) \in PathsOf("sidecar") /\ Xmp(d) \in Path
    /\ \A d, e \in PathsOf("original") : Xmp(d) = Xmp(e) => d = e
    /\ \A a \in Assets : Xmp(Up(a)) = UploadPath(a, "sidecar")
  <1>1. ASSUME NEW d \in PathsOf("original") PROVE Xmp(d) \in PathsOf("sidecar") /\ Xmp(d) \in Path
    BY PathKinds DEF PathsOf, Xmp, Path, Kinds
  <1>2. ASSUME NEW d \in PathsOf("original"), NEW e \in PathsOf("original"), Xmp(d) = Xmp(e)
        PROVE  d = e
    <2>1. /\ d = [base |-> d.base, dup |-> d.dup, kind |-> "original"]
          /\ e = [base |-> e.base, dup |-> e.dup, kind |-> "original"]
      BY DEF PathsOf
    <2>2. /\ Xmp(d).base = d.base /\ Xmp(d).dup = d.dup
          /\ Xmp(e).base = e.base /\ Xmp(e).dup = e.dup
      BY DEF PathsOf, Xmp
    <2> QED BY <1>2, <2>1, <2>2
  <1>3. \A a \in Assets : Xmp(Up(a)) = UploadPath(a, "sidecar")
    BY DEF Up, UploadPath, Xmp
  <1> QED BY <1>1, <1>2, <1>3

LEMMA SideBytes ==
    \A a \in Assets :
      /\ Side(a) \in Content /\ Side(a) # None /\ Side(a).bytes = "whole"
      /\ Cut(a) \in Content /\ Cut(a) # None /\ Cut(a).bytes = "short"
  <1>1. ASSUME NEW a \in Assets
        PROVE  /\ Side(a) \in Content /\ Side(a).bytes = "whole"
               /\ Cut(a) \in Content /\ Cut(a).bytes = "short"
    BY DEF Side, Cut, Whole, Content, Kinds, Damage
  <1> QED BY <1>1, NoneAssumption

\* No sidecar path has two owners.
LEMMA OwnApart ==
    ASSUME TypeOK, TrackInv, NEW a \in Assets, NEW b \in Assets, a # b
    PROVE  Own(a) \cap Own(b) = {}
  <1>1. ASSUME NEW d \in Stops(a), d \in Stops(b) PROVE FALSE
    <2>1. /\ d \in {Up(a)} \union Under(a) /\ d \in {Up(b)} \union Under(b)
          /\ Up(a) # Up(b) /\ Up(a) \notin Under(b) /\ Up(b) \notin Under(a)
      BY <1>1, Apart DEF Stops
    <2>2. /\ fs[d] = Bytes(a) \/ (Entry(a) # None /\ Entry(a).new = d)
          /\ fs[d] = Bytes(b) \/ (Entry(b) # None /\ Entry(b).new = d)
      BY <1>1, <2>1 DEF Stops
    <2>3. Bytes(a).of = a /\ Bytes(b).of = b /\ Bytes(a) # None /\ Bytes(b) # None
      BY Apart
    <2>4. EntryFine(a) /\ EntryFine(b) /\ NewPathsDiffer
      BY DEF TrackInv
    <2> QED BY <2>2, <2>3, <2>4 DEF EntryFine, NewPathsDiffer
  <1>2. Stops(a) \subseteq PathsOf("original") /\ Stops(b) \subseteq PathsOf("original")
    BY DEF Stops
  <1> QED BY <1>1, <1>2, XmpPaths DEF Own

LEMMA OwnPaths ==
    \A a \in Assets : Own(a) \subseteq PathsOf("sidecar") /\ Own(a) \subseteq Path
  BY XmpPaths DEF Own, Stops

LEMMA InitSide == Init => SideInv
  <1> SUFFICES ASSUME Init PROVE SideInv
    OBVIOUS
  <1>1. \A a \in Assets : UploadPath(a, "sidecar") \in Own(a)
    BY XmpPaths, Apart DEF Own, Stops
  <1>2. \A a \in Assets : Own(a) = {UploadPath(a, "sidecar")}
    <2> SUFFICES ASSUME NEW a \in Assets, NEW d \in Stops(a) PROVE d = Up(a)
      BY <1>1, XmpPaths DEF Own
    <2>1. Entry(a) = None
      BY DEF Init, Entry, Kinds
    <2>2. fs[d] = Bytes(a) => d.base \in Assets
      <3>1. d \in Path /\ fs = [p \in Path |-> IF p.base \in Assets /\ p.dup = 0
                  /\ (p.kind = "sidecar" => p.base \in WithSidecar)
               THEN Whole(p.base, p.kind) ELSE None]
        BY PathKinds DEF Stops, Init, Kinds
      <3> QED BY <3>1, Apart
    <2>3. d \in Under(a) => d.base \in Bases \union {None}
      BY ConstantsAssumption DEF Under, Init, Config
    <2> QED BY <2>1, <2>2, <2>3, UploadsAreApart, NoneAssumption DEF Stops
  <1>3. /\ fs = [p \in Path |-> IF p.base \in Assets /\ p.dup = 0
                                  /\ (p.kind = "sidecar" => p.base \in WithSidecar)
                               THEN Whole(p.base, p.kind) ELSE None]
        /\ \A p \in PathsOf("sidecar") : p \in Path /\ p.kind = "sidecar"
    BY PathKinds DEF Init, Kinds
  <1>4. \A a \in Assets : /\ UploadPath(a, "sidecar") \in Path
                          /\ UploadPath(a, "sidecar").base = a
                          /\ UploadPath(a, "sidecar").dup = 0
                          /\ UploadPath(a, "sidecar").kind = "sidecar"
    BY XmpPaths, Apart DEF UploadPath
  <1>5. \A a \in Assets : fs[UploadPath(a, "sidecar")] = IF a \in WithSidecar THEN Side(a) ELSE None
    BY <1>3, <1>4 DEF Side
  <1>6. \A a \in Assets : SideFine(a)
    <2>1. \A a \in Assets : moves[a]["sidecar"] = None
                            /\ db[a]["sidecar"] \in {UploadPath(a, "sidecar"), None}
      BY DEF Init, Kinds
    <2> QED BY <1>2, <1>5, <2>1 DEF SideFine
  <1>7. NoStrays
    <2> SUFFICES ASSUME NEW p \in PathsOf("sidecar"), fs[p] # None
                 PROVE  p \in Own(p.base) /\ p.base \in Assets
      BY DEF NoStrays
    <2>1. p.base \in Assets /\ p.dup = 0 /\ p.kind = "sidecar"
      BY <1>3
    <2>2. p = UploadPath(p.base, "sidecar")
      BY <2>1 DEF PathsOf, UploadPath
    <2> QED BY <1>2, <2>1, <2>2
  <1>8. \A w \in Workers : JobSide(w)
    BY DEF Init, JobSide, Idle, Moving
  <1> QED BY <1>6, <1>7, <1>8 DEF SideInv

-----------------------------------------------------------------------------
(***************************************************************************)
(* Steps that do not touch sidecars.                                       *)
(***************************************************************************)
\* Assets keep the sidecar paths they own; new ones are free.
OwnGrows == \A b \in Assets :
    /\ Own(b) \subseteq Own(b)'
    /\ \A p \in Own(b)' : p \in Own(b) \/ fs[p] = None

SidecarsRest ==
    /\ \A p \in PathsOf("sidecar") : fs'[p] = fs[p]
    /\ \A b \in Assets : /\ db'[b]["sidecar"] = db[b]["sidecar"]
                         /\ moves'[b]["sidecar"] = moves[b]["sidecar"]

LEMMA JobSideRests ==
    ASSUME TypeOK, SidecarsRest, OwnGrows, NEW u \in Workers, job'[u] = job[u], JobSide(u)
    PROVE  JobSide(u)'
  <1>1. job[u].pc # "idle" => job[u].asset \in Assets
    BY DEF TypeOK, JobOK, Job
  <1>2. job'[u].pc # "idle" => job'[u].src["sidecar"] \in Own(job[u].asset)' \union {None}
    BY <1>1 DEF JobSide, OwnGrows
  <1>3. ASSUME job[u].pc \in Moving, job[u].kind = "sidecar"
        PROVE  /\ job[u].dest \in Own(job[u].asset)' /\ fs'[job[u].dest] = fs[job[u].dest]
               /\ job[u].pc # "journal" => /\ job[u].from \in Own(job[u].asset)'
                                           /\ fs'[job[u].from] = fs[job[u].from]
    <2>1. PICK a \in Assets : a = job[u].asset /\ Own(a) \subseteq PathsOf("sidecar")
      BY <1>1, <1>3, OwnPaths DEF Moving
    <2>2. Own(job[u].asset)' = Own(a)'
      BY <2>1 DEF Own, Stops, Under, Up, Bytes, Entry
    <2> QED BY <1>3, <2>1, <2>2 DEF JobSide, OwnGrows, SidecarsRest
  <1> QED BY <1>2, <1>3 DEF JobSide, Side, Cut, Moving

LEMMA SidecarsRestOK ==
    ASSUME TypeOK, SideInv, SidecarsRest, OwnGrows,
           \A b, p : CopiedTo(b, p) => CopiedTo(b, p)',
           \A u \in Workers : JobSide(u)'
    PROVE  SideInv'
  <1>1. ASSUME NEW a \in Assets PROVE SideFine(a)'
    <2>1. SideFine(a) /\ Side(a)' = Side(a) /\ Own(a) \subseteq PathsOf("sidecar")
      BY OwnPaths DEF SideInv, Side
    <2>2. \A p \in Own(a) : fs'[p] = fs[p]
      BY <2>1 DEF SidecarsRest
    <2>3. \A p \in Own(a)' : fs'[p] \in {None, Side(a)} \/ CopiedTo(a, p)'
      <3> SUFFICES ASSUME NEW p, p \in Own(a)'
                   PROVE  fs'[p] \in {None, Side(a)} \/ CopiedTo(a, p)'
        OBVIOUS
      <3>1. CASE p \in Own(a)
        BY <2>1, <2>2, <3>1 DEF SideFine
      <3>2. CASE p \notin Own(a)
        <4>1. fs[p] = None
          BY <3>2 DEF OwnGrows
        <4>2. p \in PathsOf("sidecar")
          BY DEF Own, Stops, Xmp, PathsOf, Kinds
        <4> QED BY <4>1, <4>2 DEF SidecarsRest
      <3> QED BY <3>1, <3>2
    <2>4. Own(a) \subseteq Own(a)'
      BY DEF OwnGrows
    <2>5. /\ db'[a]["sidecar"] \in Own(a)' \union {None}
          /\ moves'[a]["sidecar"] # None =>
               moves'[a]["sidecar"].old \in Own(a)' /\ moves'[a]["sidecar"].new \in Own(a)'
      BY <2>1, <2>4 DEF SideFine, SidecarsRest
    <2>6. a \in WithSidecar => \E p \in Own(a)' : fs'[p] = Side(a)
      BY <2>1, <2>2, <2>4 DEF SideFine
    <2> QED BY <2>1, <2>3, <2>5, <2>6 DEF SideFine
  <1>2. NoStrays'
    BY DEF SideInv, NoStrays, SidecarsRest, OwnGrows
  <1> QED BY <1>1, <1>2 DEF SideInv

LEMMA SameOwn ==
    ASSUME SameOriginals PROVE OwnGrows /\ \A a \in Assets : Own(a)' = Own(a)
  <1>1. \A a \in Assets : Own(a)' = Own(a)
    <2> SUFFICES ASSUME NEW a \in Assets PROVE Own(a)' = Own(a)
      OBVIOUS
    <2>1. /\ Under(a)' = Under(a) /\ Up(a)' = Up(a) /\ Bytes(a)' = Bytes(a)
          /\ Entry(a)' = Entry(a) /\ \A d \in PathsOf("original") : fs'[d] = fs[d]
      BY DEF SameOriginals, Under, Up, Bytes
    <2>2. Stops(a)' = Stops(a)
      BY <2>1 DEF Stops
    <2> QED BY <2>2 DEF Own
  <1> QED BY <1>1 DEF OwnGrows

LEMMA LoadSide ==
    ASSUME IndInv, TrackInv, CalmInv, SideInv, NEW w \in Workers, NEW a \in Assets, Load(w, a)
    PROVE  SideInv'
  <1> DEFINE j == [pc |-> "loaded", asset |-> a, kind |-> "original",
                   src |-> db[a], dest |-> None, from |-> None]
  <1>1. /\ job[w].pc = "idle" /\ job' = [job EXCEPT ![w] = j] /\ TypeOK
        /\ UNCHANGED <<fs, db, moves, lock, config, faults, interrupts, changes>>
    BY DEF Load, At, IndInv
  <1>2. /\ job'[w] = j /\ \A u \in Workers \ {w} : job'[u] = job[u]
    BY <1>1 DEF TypeOK
  <1>3. j.pc = "loaded" /\ j.asset = a /\ j.src["sidecar"] = db[a]["sidecar"]
    OBVIOUS
  <1>4. SidecarsRest /\ OwnGrows /\ Own(a)' = Own(a)
    BY <1>1, SameTables, SameOwn DEF SidecarsRest
  <1> HIDE DEF j
  <1>5. JobSide(w)'
    <2>1. db[a]["sidecar"] \in Own(a) \union {None}
      BY DEF SideInv, SideFine
    <2>2. Own(job[w].asset)' = Own(a)'
      BY <1>2, <1>3
    <2> QED BY <1>2, <1>3, <1>4, <2>1, <2>2 DEF JobSide, Moving
  <1>6. \A u \in Workers : JobSide(u)'
    BY <1>1, <1>2, <1>4, <1>5, JobSideRests DEF SideInv
  <1>7. \A b, p : CopiedTo(b, p) => CopiedTo(b, p)'
    BY <1>1, <1>2 DEF CopiedTo
  <1> QED BY <1>1, <1>4, <1>6, <1>7, SidecarsRestOK

LEMMA StartMoveSide ==
    ASSUME IndInv, TrackInv, CalmInv, SideInv, NEW w \in Workers, StartMove(w)
    PROVE  SideInv'
  <1>1. /\ job[w].pc = "loaded" /\ lock = None /\ TypeOK
        /\ UNCHANGED <<fs, db, moves, config, faults, interrupts, changes>>
    BY DEF StartMove, At, IndInv
  <1>2. PICK a \in Assets : job[w].asset = a
    BY <1>1 DEF TypeOK, JobOK, Job
  <1>3. SidecarsRest /\ OwnGrows /\ Own(a)' = Own(a)
    BY <1>1, SameTables, SameOwn DEF SidecarsRest
  <1>4. /\ \/ job'[w].pc = "idle"
           \/ /\ job'[w].kind = "sidecar" /\ job'[w].pc = "journal"
              /\ job'[w].dest = Xmp(job[w].src["original"])
              /\ job'[w].asset = a /\ job'[w].src = job[w].src
           \/ /\ job'[w].kind = "original"
              /\ job'[w].asset = a /\ job'[w].src = job[w].src
        /\ \A u \in Workers \ {w} : job'[u] = job[u]
    BY <1>2, Started
  <1>5. /\ job[w].src["sidecar"] \in Own(a) \union {None}
        /\ Xmp(job[w].src["original"]) \in Own(a)
    <2>1. JobSide(w) /\ JobCalm(w) /\ JobFine(w)
      BY DEF SideInv, CalmInv, TrackInv
    <2>2. job[w].src["original"] \in Stops(a)
      BY <1>1, <1>2, <2>1, Apart DEF JobCalm, JobFine, Stops, Under
    <2> QED BY <1>1, <1>2, <2>1, <2>2 DEF JobSide, Own
  <1>6. JobSide(w)'
    <2>1. job'[w].pc # "idle" => Own(job[w].asset)' = Own(a)
      BY <1>3, <1>4
    <2> QED BY <1>4, <1>5, <2>1 DEF JobSide, Moving
  <1>7. \A u \in Workers : JobSide(u)'
    BY <1>1, <1>3, <1>4, <1>6, JobSideRests DEF SideInv
  <1>8. \A b, p : CopiedTo(b, p) => CopiedTo(b, p)'
    BY <1>1, NoneAssumption DEF CopiedTo
  <1> QED BY <1>1, <1>3, <1>7, <1>8, SidecarsRestOK

\* How a step of the move of an original changes its row.
LEMMA EntryChange ==
    ASSUME IndInv, TrackInv, CalmInv, NEW w \in Workers, NEW a \in Assets, job[w].asset = a,
           Step(w), job[w].pc \in Moving, job[w].kind = "original"
    PROVE  \/ Entry(a)' = Entry(a)
           \/ Entry(a)' = None /\ job[w].pc = "forget"
           \/ /\ job[w].pc = "journal" /\ fs' = fs /\ fs[job[w].dest] = None
              /\ Entry(a)' # None /\ Entry(a)'.new = job[w].dest
              /\ Entry(a) # None => Entry(a).new = job[w].dest
              /\ \A b \in Assets \ {a} : Entry(b) # None => Entry(b).new # job[w].dest
  <1>1. TypeOK /\ job[w].dest \in Path /\ JobFine(w) /\ DiskAgrees(job[w])
    BY OriginalJob
  <1>2. ASSUME NEW row, moves' = [moves EXCEPT ![a]["original"] = row] PROVE Entry(a)' = row
    BY <1>1, <1>2 DEF TypeOK, Entry, Kinds
  <1>3. CASE ForgetMove(w)
    BY <1>2, <1>3 DEF ForgetMove, At
  <1>4. CASE CreateMove(w) \/ ResumeMove(w)
    <2>1. job[w].pc = "journal" /\ fs' = fs /\ ~NewPathTaken(job[w])
      BY <1>4 DEF CreateMove, ResumeMove, At
    <2>2. PICK row : row.new = job[w].dest /\ Entry(a)' = row /\ row # None
      <3>0. PICK d : d = job[w].dest
        OBVIOUS
      <3>1. PICK old \in Path :
              moves' = [moves EXCEPT ![a]["original"] = [old |-> old, new |-> d]]
        <4>1. CASE CreateMove(w)
          <5>1. job[w].src["original"] \in Path
            BY <2>1, OriginalJob, Apart DEF Moving
          <5> QED BY <3>0, <4>1, <5>1 DEF CreateMove
        <4>2. CASE ResumeMove(w)
          <5>1. ActualPath(RowOf(job[w])) \in Path
            BY <2>1, <4>2, RowIsCurrent, Apart DEF ResumeMove
          <5> QED BY <3>0, <4>2, <5>1 DEF ResumeMove
        <4> QED BY <1>4, <4>1, <4>2
      <3>2. PICK row : row = [old |-> old, new |-> d]
        OBVIOUS
      <3>3. row # None
        BY <1>1, <3>0, <3>2, NoneAssumption DEF Row
      <3>4. Entry(a)' = row /\ row.new = d
        BY <1>2, <3>1, <3>2
      <3> QED BY <3>0, <3>3, <3>4
    <2>3. Entry(a) # None => Entry(a).new = job[w].dest
      BY <2>1, RowIsCurrent DEF Entry, RowOf
    <2>4. \A b \in Assets \ {a} : Entry(b) # None => Entry(b).new # job[w].dest
      BY <2>1 DEF NewPathTaken, Entry, Kinds
    <2>5. fs[job[w].dest] = None
      BY <1>1, <2>1 DEF DiskAgrees
    <2> QED BY <2>1, <2>2, <2>3, <2>4, <2>5
  <1>5. CASE ~(CreateMove(w) \/ ResumeMove(w) \/ ForgetMove(w))
    <2>1. moves' = moves
      BY <1>5 DEF Step, StartMove, AbandonMove, RefuseMove, Rename, FailRename,
                  StartCopy, FinishCopy, AcceptCopy, RejectCopy, UnlinkOld, SavePath
    <2> QED BY <2>1 DEF Entry
  <1> QED BY <1>3, <1>4, <1>5

\* The sidecar path next to where an original goes is free, or its own.
LEMMA OriginalOwns ==
    ASSUME IndInv, TrackInv, CalmInv, SideInv, NEW w \in Workers, Step(w),
           job[w].pc \in Moving, job[w].kind = "original"
    PROVE  OwnGrows
  <1>1. PICK a \in Assets : job[w].asset = a
    BY MovingJob
  <1>2. PICK d : job[w].dest = d
    OBVIOUS
  <1>3. /\ TypeOK /\ JobFine(w) /\ DiskAgrees(job[w]) /\ d \in Under(a) /\ config' = config
        /\ job[w].pc # "journal" => Entry(a) # None /\ Entry(a).new = d
        /\ \A b \in Assets \ {a} : Entry(b)' = Entry(b)
    BY <1>1, <1>2, OriginalJob, OriginalFrame
  <1>4. \A b \in Assets : Under(b)' = Under(b) /\ Up(b)' = Up(b) /\ Bytes(b)' = Bytes(b)
    BY <1>3 DEF Under, Up, Bytes
  <1>5. Stays
    BY ArrivedStay
  <1>6. ASSUME NEW b \in Assets, NEW p \in Stops(b) PROVE p \in Stops(b)'
    <2>1. CASE p = Up(b) \/ (p \in Under(b) /\ fs[p] = Bytes(b))
      BY <1>4, <1>5, <1>6, <2>1 DEF Stops, Stays
    <2>2. CASE p \in Under(b) /\ Entry(b) # None /\ Entry(b).new = p
      <3>1. CASE Entry(b)' = Entry(b)
        BY <1>4, <1>6, <2>2, <3>1 DEF Stops
      <3>2. CASE b = a /\ job[w].pc = "forget"
        <4>1. fs[p] = Bytes(b)
          BY <1>1, <1>2, <1>3, <2>2, <3>2 DEF JobFine, Moving
        <4> QED BY <1>4, <1>5, <1>6, <2>2, <4>1 DEF Stops, Stays
      <3>3. CASE b = a /\ Entry(a)' # None /\ Entry(a)'.new = d /\ Entry(a).new = d
        BY <1>4, <1>6, <2>2, <3>3 DEF Stops
      <3> QED BY <1>1, <1>2, <1>3, <2>2, <3>1, <3>2, <3>3, EntryChange
    <2> QED BY <1>6, <2>1, <2>2 DEF Stops
  <1>7. ASSUME NEW b \in Assets, NEW p, p \in Stops(b)', p \notin Stops(b)
        PROVE  /\ p = d /\ fs[d] = None
               /\ \A c \in Assets : d \notin Stops(c)
    <2>1. /\ p \in PathsOf("original") /\ p \in Under(b) /\ p # Up(b) /\ fs[p] # Bytes(b)
          /\ fs'[p] = Bytes(b) \/ (Entry(b)' # None /\ Entry(b)'.new = p)
      BY <1>4, <1>7 DEF Stops
    <2>2. p # Up(a)
      BY <1>3, <2>1, Apart
    <2>3. ASSUME fs'[p] = Bytes(b) PROVE FALSE
      <3>1. Bytes(b).of = b /\ Bytes(b) # None
        BY Apart
      <3>2. p = d /\ fs'[d].of = a /\ job[w].pc # "journal"
        BY <1>1, <1>2, <2>1, <2>2, <2>3, <3>1, OriginalWrites
      <3> QED BY <1>3, <1>7, <2>1, <2>3, <3>1, <3>2 DEF Stops
    <2>4. Entry(b)' # None /\ Entry(b)'.new = p
      BY <2>1, <2>3
    <2>5. /\ b = a /\ p = d /\ fs[d] = None /\ Entry(a) = None
          /\ \A c \in Assets \ {a} : Entry(c) # None => Entry(c).new # d
      BY <1>1, <1>2, <1>3, <1>7, <2>1, <2>4, EntryChange DEF Stops
    <2>6. \A c \in Assets : d # Up(c) /\ Bytes(c) # None
      BY <1>3, Apart
    <2> QED BY <2>5, <2>6 DEF Stops
  <1>8. ASSUME NEW b \in Assets PROVE Own(b) \subseteq Own(b)'
    BY <1>6 DEF Own
  <1>9. ASSUME NEW b \in Assets, NEW q, q \in Own(b)', q \notin Own(b) PROVE fs[q] = None
    <2>1. PICK p \in Stops(b)' : q = Xmp(p)
      BY <1>9 DEF Own
    <2>2. p \notin Stops(b)
      BY <1>9, <2>1 DEF Own
    <2>3. p = d /\ (\A c \in Assets : d \notin Stops(c)) /\ d \in PathsOf("original")
      BY <1>3, <1>7, <2>2 DEF Under
    <2>4. \A c \in Assets : q \notin Own(c)
      BY <2>1, <2>3, XmpPaths DEF Own, Stops
    <2> QED BY <2>1, <2>3, <2>4, XmpPaths DEF SideInv, NoStrays
  <1> QED BY <1>8, <1>9 DEF OwnGrows

\* How a worker that moves an original goes on.
LEMMA OriginalGoesOn ==
    ASSUME IndInv, NEW w \in Workers, Step(w), job[w].pc \in Moving, job[w].kind = "original"
    PROVE  /\ \A u \in Workers \ {w} : job'[u] = job[u]
           /\ lock' \in {w, None}
           /\ \/ job'[w].pc = "idle"
              \/ /\ job'[w].kind = "original" /\ job'[w].asset = job[w].asset
                 /\ job'[w].src = job[w].src
              \/ /\ job'[w].kind = "sidecar" /\ job'[w].asset = job[w].asset
                 /\ job'[w].src = job[w].src /\ job'[w].pc = "journal"
                 /\ job'[w].dest = Xmp(job[w].dest)
                 /\ AbandonMove(w) \/ job[w].pc # "journal"
  <1> DEFINE Goes(j) == \/ j.pc = "idle"
                        \/ /\ j.kind = "original" /\ j.asset = job[w].asset
                           /\ j.src = job[w].src
             Ends(j) == \/ j.pc = "idle"
                        \/ /\ j.kind = "sidecar" /\ j.asset = job[w].asset
                           /\ j.src = job[w].src /\ j.pc = "journal"
                           /\ j.dest = Xmp(job[w].dest)
  <1>1. TypeOK /\ job[w] \in Job
    BY DEF IndInv, TypeOK
  <1>2. Goes(Idle) /\ Ends(AfterMove(job[w]))
    BY <1>1, AfterMoveGoes DEF Idle
  <1>3. \A pc, from : /\ Goes([job[w] EXCEPT !.pc = pc])
                      /\ Goes([job[w] EXCEPT !.pc = pc, !.from = from])
    BY <1>1 DEF Job
  <1>4. \E j : Continue(w, j) /\ (Goes(j) \/ (Ends(j) /\ (AbandonMove(w) \/ job[w].pc # "journal")))
    <2> HIDE DEF Goes, Ends
    <2>2. CASE StartMove(w)
      BY <2>2 DEF StartMove, At, Moving
    <2>3. CASE CreateMove(w)
      BY <1>3, <2>3 DEF CreateMove
    <2>4. CASE ResumeMove(w)
      BY <1>3, <2>4 DEF ResumeMove
    <2>5. CASE AbandonMove(w) \/ FailRename(w) \/ RejectCopy(w) \/ ForgetMove(w)
      BY <1>2, <2>5 DEF AbandonMove, FailRename, RejectCopy, ForgetMove, At
    <2>6. CASE RefuseMove(w)
      BY <1>2, <2>6 DEF RefuseMove
    <2>7. CASE Rename(w) \/ StartCopy(w) \/ FinishCopy(w) \/ AcceptCopy(w) \/ UnlinkOld(w) \/ SavePath(w)
      BY <1>3, <2>7 DEF Rename, StartCopy, FinishCopy, AcceptCopy, UnlinkOld, SavePath
    <2> QED BY <2>2, <2>3, <2>4, <2>5, <2>6, <2>7 DEF Step
  <1>5. PICK j : Continue(w, j) /\ (Goes(j) \/ (Ends(j) /\ (AbandonMove(w) \/ job[w].pc # "journal")))
    BY <1>4
  <1>6. job'[w] = j /\ (\A u \in Workers \ {w} : job'[u] = job[u]) /\ lock' \in {w, None}
    BY <1>1, <1>5, Continued DEF Continue
  <1> QED BY <1>5, <1>6

LEMMA OriginalSide ==
    ASSUME IndInv, TrackInv, CalmInv, SideInv, NEW w \in Workers, Step(w),
           job[w].pc \in Moving, job[w].kind = "original"
    PROVE  SideInv'
  <1>1. PICK a \in Assets : job[w].asset = a
    BY MovingJob
  <1>2. PICK d : job[w].dest = d
    OBVIOUS
  <1>3. /\ TypeOK /\ lock = w /\ d \in Under(a) /\ JobSide(w)
        /\ job[w].pc # "journal" => Entry(a) # None /\ Entry(a).new = d
    BY <1>1, <1>2, OriginalJob DEF SideInv
  <1>4. OwnGrows
    BY OriginalOwns
  <1>5. SidecarsRest
    <2>1. \A p \in PathsOf("sidecar") : fs'[p] = fs[p]
      BY <1>1, <1>2, OriginalWrites
    <2>2. db' = db \/ db' = [db EXCEPT ![a]["original"] = d]
      BY <1>1, <1>2 DEF Step, StartMove, CreateMove, ResumeMove, AbandonMove, RefuseMove, Rename,
         FailRename, StartCopy, FinishCopy, AcceptCopy, RejectCopy, UnlinkOld, SavePath, ForgetMove
    <2>3. moves' = moves \/ \E row : moves' = [moves EXCEPT ![a]["original"] = row]
      BY <1>1 DEF Step, StartMove, CreateMove, ResumeMove, AbandonMove, RefuseMove, Rename,
         FailRename, StartCopy, FinishCopy, AcceptCopy, RejectCopy, UnlinkOld, SavePath, ForgetMove
    <2>4. \A b \in Assets : db'[b]["sidecar"] = db[b]["sidecar"]
      BY <1>3, <2>2 DEF TypeOK, Kinds
    <2>5. \A b \in Assets : moves'[b]["sidecar"] = moves[b]["sidecar"]
      BY <1>3, <2>3 DEF TypeOK, Kinds
    <2> QED BY <2>1, <2>4, <2>5 DEF SidecarsRest
  <1>6. JobSide(w)'
    <2>1. job[w].src["sidecar"] \in Own(a)' \union {None}
      BY <1>1, <1>3, <1>4 DEF JobSide, OwnGrows, Moving
    <2>2. AbandonMove(w) \/ job[w].pc # "journal" => Xmp(d) \in Own(a)'
      <3>1. AbandonMove(w) => Entry(a) # None /\ Entry(a).new = d
        BY <1>1, <1>2, RowIsCurrent DEF AbandonMove, At
      <3>2. AbandonMove(w) \/ job[w].pc # "journal" => d \in Stops(a)
        BY <1>3, <3>1 DEF Stops, Under
      <3> QED BY <1>4, <3>2 DEF Own, OwnGrows
    <2>3. job'[w].asset = a => Own(job[w].asset)' = Own(a)'
      OBVIOUS
    <2>4. CASE job'[w].pc = "idle"
      BY <2>4 DEF JobSide, Moving
    <2>5. CASE /\ job'[w].kind = "original" /\ job'[w].asset = a
               /\ job'[w].src = job[w].src
      BY <2>1, <2>3, <2>5 DEF JobSide
    <2>6. CASE /\ job'[w].asset = a /\ job'[w].pc = "journal"
               /\ job'[w].src = job[w].src /\ job'[w].dest = Xmp(d)
               /\ AbandonMove(w) \/ job[w].pc # "journal"
      BY <2>1, <2>2, <2>3, <2>6 DEF JobSide
    <2> QED BY <1>1, <1>2, <2>4, <2>5, <2>6, OriginalGoesOn
  <1>7. \A u \in Workers : JobSide(u)'
    BY <1>3, <1>4, <1>5, <1>6, JobSideRests, OriginalGoesOn DEF SideInv
  <1>8. \A b, p : CopiedTo(b, p) => CopiedTo(b, p)'
    BY <1>3 DEF CopiedTo
  <1> QED BY <1>3, <1>4, <1>5, <1>7, <1>8, SidecarsRestOK

-----------------------------------------------------------------------------
(***************************************************************************)
(* The steps of the move of a sidecar.                                     *)
(***************************************************************************)
\* What is known while a sidecar is moved.
LEMMA SidecarJob ==
    ASSUME IndInv, TrackInv, SideInv, NEW w \in Workers, NEW a \in Assets, job[w].asset = a,
           NEW d, job[w].dest = d, job[w].pc \in Moving, job[w].kind = "sidecar"
    PROVE  /\ TypeOK /\ lock = w /\ JobOK(job[w]) /\ SideFine(a)
           /\ Own(a) \subseteq Path /\ d \in Own(a) /\ JobSide(w)
           /\ job[w].src["sidecar"] \in Own(a)
           /\ job[w].pc # "journal" => job[w].from \in Own(a)
           /\ job[w].pc \in {"transfer", "copying", "verify", "unlink"} => job[w].from # d
           /\ \A p \in Own(a) : \/ fs[p] \in {None, Side(a)}
                                \/ p = d /\ job[w].pc \in {"copying", "verify"}
           /\ AfterMove(job[w]) = Idle
  <1>1. TypeOK /\ lock = w /\ JobOK(job[w]) /\ SideFine(a) /\ JobSide(w) /\ Own(a) \subseteq Path
    BY MovingJob, OwnPaths DEF IndInv, SideInv
  <1>2. /\ d \in Own(a) /\ (job[w].pc # "journal" => job[w].from \in Own(a))
        /\ job[w].src["sidecar"] \in Own(a)
    BY <1>1 DEF JobSide, JobOK, Moving
  <1>3. \A p \in Own(a) : \/ fs[p] \in {None, Side(a)}
                          \/ p = d /\ job[w].pc \in {"copying", "verify"}
    BY <1>1 DEF SideFine, CopiedTo
  <1>4. job[w].pc \in {"transfer", "copying", "verify", "unlink"} => job[w].from # d
    BY <1>1 DEF JobOK
  <1>5. AfterMove(job[w]) = Idle
    BY DEF AfterMove
  <1> QED BY <1>1, <1>2, <1>3, <1>4, <1>5

\* The step keeps the sidecar of a, and what the worker knows of it.
Kept(w, a, d) ==
    /\ \A p \in Own(a) : \/ fs'[p] \in {None, Side(a)}
                         \/ p = d /\ job'[w].pc \in {"copying", "verify"}
    /\ (\E p \in Own(a) : fs[p] = Side(a)) => \E p \in Own(a) : fs'[p] = Side(a)
    /\ job'[w].pc # "idle" =>
         /\ lock' = w /\ job'[w].dest = d
         /\ job'[w].pc # "journal" => job'[w].from \in Own(a)
         /\ job'[w].pc \in {"copying", "verify", "unlink"} => fs'[job'[w].from] = Side(a)
         /\ job'[w].pc \in {"copying", "verify"} => fs'[d] \in {Side(a), Cut(a)}
         /\ job'[w].pc = "unlink" => fs'[d] = Side(a)

\* The disk stays as it is, before or after the copy.
LEMMA KeptAtRest ==
    ASSUME IndInv, TrackInv, SideInv, NEW w \in Workers, NEW a \in Assets, job[w].asset = a,
           NEW d, job[w].dest = d, job[w].pc \in Moving, job[w].kind = "sidecar",
           fs' = fs, job[w].pc \notin {"copying", "verify"},
           \/ job'[w].pc = "idle"
           \/ \E pc \in {"transfer", "save", "forget"}, from \in Own(a) : GoesOn(w, pc, from)
    PROVE  Kept(w, a, d)
  <1>1. \A p \in Own(a) : fs[p] \in {None, Side(a)}
    BY SidecarJob
  <1> QED BY <1>1 DEF Kept, GoesOn

LEMMA RowKept ==
    ASSUME IndInv, TrackInv, SideInv, NEW w \in Workers, NEW a \in Assets, job[w].asset = a,
           NEW d, job[w].dest = d, job[w].pc \in Moving, job[w].kind = "sidecar",
           CreateMove(w) \/ ResumeMove(w)
    PROVE  Kept(w, a, d)
  <1>1. /\ TypeOK /\ job[w].src["sidecar"] \in Own(a) /\ SideFine(a) /\ fs' = fs
        /\ job[w].pc = "journal"
    BY SidecarJob DEF CreateMove, ResumeMove, At
  <1>2. CASE CreateMove(w)
    <2>1. PICK from \in Own(a) : from = job[w].src["sidecar"]
      BY <1>1
    <2>2. Continue(w, [job[w] EXCEPT !.pc = "transfer", !.from = from])
      BY <1>2, <2>1 DEF CreateMove
    <2>3. GoesOn(w, "transfer", from)
      BY <1>1, <2>2, NextJob
    <2> QED BY <1>1, <2>3, KeptAtRest
  <1>3. CASE ResumeMove(w)
    <2>1. /\ RowOf(job[w]) = moves[a]["sidecar"] /\ RowOf(job[w]) # None
          /\ ActualPath(RowOf(job[w])) # None
      BY <1>3 DEF ResumeMove, RowOf
    <2>2. PICK from \in Own(a) : from = ActualPath(RowOf(job[w]))
      BY <1>1, <2>1 DEF SideFine, ActualPath
    <2>3. PICK pc \in {"transfer", "save"} :
            Continue(w, [job[w] EXCEPT !.pc = pc, !.from = from])
      BY <1>3, <2>2 DEF ResumeMove
    <2>4. GoesOn(w, pc, from)
      BY <1>1, <2>3, NextJob
    <2> QED BY <1>1, <2>4, KeptAtRest
  <1> QED BY <1>2, <1>3

LEMMA EndKept ==
    ASSUME IndInv, TrackInv, SideInv, NEW w \in Workers, NEW a \in Assets, job[w].asset = a,
           NEW d, job[w].dest = d, job[w].pc \in Moving, job[w].kind = "sidecar",
           AbandonMove(w) \/ RefuseMove(w) \/ FailRename(w) \/ ForgetMove(w)
    PROVE  Kept(w, a, d)
  <1>1. AfterMove(job[w]) = Idle /\ TypeOK
    BY SidecarJob
  <1>2. Continue(w, Idle) /\ fs' = fs /\ job[w].pc \notin {"copying", "verify"}
    BY <1>1 DEF AbandonMove, RefuseMove, FailRename, ForgetMove, At
  <1>3. job'[w].pc = "idle"
    BY <1>1, <1>2, Continued DEF Idle
  <1> QED BY <1>2, <1>3, KeptAtRest

LEMMA RenameKept ==
    ASSUME IndInv, TrackInv, SideInv, NEW w \in Workers, NEW a \in Assets, job[w].asset = a,
           NEW d, job[w].dest = d, job[w].pc \in Moving, job[w].kind = "sidecar", Rename(w)
    PROVE  Kept(w, a, d)
  <1>1. PICK from : from = job[w].from
    OBVIOUS
  <1>2. /\ job[w].pc = "transfer" /\ fs[from] # None
        /\ Continue(w, [job[w] EXCEPT !.pc = "save"])
    BY <1>1 DEF Rename, At
  <1>3. /\ TypeOK /\ d \in Own(a) /\ from \in Own(a) /\ from # d /\ Own(a) \subseteq Path
        /\ \A p \in Own(a) : fs[p] \in {None, Side(a)}
    BY <1>1, <1>2, SidecarJob
  <1>4. /\ fs'[d] = Side(a) /\ fs'[from] = None
        /\ \A p \in Own(a) \ {d, from} : fs'[p] = fs[p]
    <2>1. fs' = [fs EXCEPT ![d] = fs[from], ![from] = None]
      BY <1>1 DEF Rename
    <2> QED BY <1>2, <1>3, <2>1 DEF TypeOK
  <1>5. GoesOn(w, "save", from)
    BY <1>1, <1>2, <1>3, NextJob
  <1> QED BY <1>3, <1>4, <1>5 DEF Kept, GoesOn

LEMMA StartCopyKept ==
    ASSUME IndInv, TrackInv, SideInv, NEW w \in Workers, NEW a \in Assets, job[w].asset = a,
           NEW d, job[w].dest = d, job[w].pc \in Moving, job[w].kind = "sidecar", StartCopy(w)
    PROVE  Kept(w, a, d)
  <1>1. PICK from : from = job[w].from
    OBVIOUS
  <1>2. /\ job[w].pc = "transfer" /\ fs[from] # None
        /\ Continue(w, [job[w] EXCEPT !.pc = "copying"])
        /\ fs' = [fs EXCEPT ![d] = [fs[from] EXCEPT !.bytes = "short"]]
    BY <1>1 DEF StartCopy, At
  <1>3. /\ TypeOK /\ d \in Own(a) /\ from \in Own(a) /\ from # d /\ Own(a) \subseteq Path
        /\ \A p \in Own(a) : fs[p] \in {None, Side(a)}
    BY <1>1, <1>2, SidecarJob
  <1>4. fs[from] = Side(a) /\ fs' = [fs EXCEPT ![d] = Cut(a)]
    BY <1>2, <1>3 DEF Cut
  <1>5. fs'[d] = Cut(a) /\ \A p \in Own(a) \ {d} : fs'[p] = fs[p]
    BY <1>3, <1>4 DEF TypeOK
  <1>6. GoesOn(w, "copying", from)
    BY <1>1, <1>2, <1>3, NextJob
  <1> QED BY <1>3, <1>4, <1>5, <1>6 DEF Kept, GoesOn

LEMMA FinishCopyKept ==
    ASSUME SizesTell, IndInv, TrackInv, SideInv, NEW w \in Workers, NEW a \in Assets,
           job[w].asset = a, NEW d, job[w].dest = d, job[w].pc \in Moving,
           job[w].kind = "sidecar", FinishCopy(w)
    PROVE  Kept(w, a, d)
  <1>1. PICK from : from = job[w].from
    OBVIOUS
  <1>2. job[w].pc = "copying" /\ Continue(w, [job[w] EXCEPT !.pc = "verify"])
    BY <1>1 DEF FinishCopy, At
  <1>3. /\ TypeOK /\ d \in Own(a) /\ from \in Own(a) /\ from # d /\ Own(a) \subseteq Path
        /\ fs[from] = Side(a)
        /\ \A p \in Own(a) \ {d} : fs[p] \in {None, Side(a)}
    BY <1>1, <1>2, SidecarJob DEF JobSide
  <1>4. PICK c \in {Side(a), Cut(a)} : fs' = [fs EXCEPT ![d] = c]
    <2>1. CopyFaults \subseteq {"short"}
      BY ConstantsAssumption DEF SizesTell, Damage
    <2>2. \/ fs' = [fs EXCEPT ![d] = Side(a)]
          \/ \E damage \in CopyFaults : fs' = [fs EXCEPT ![d] = [Side(a) EXCEPT !.bytes = damage]]
      BY <1>1, <1>3 DEF FinishCopy
    <2> QED BY <2>1, <2>2 DEF Cut
  <1>5. fs'[d] = c /\ \A p \in Own(a) \ {d} : fs'[p] = fs[p]
    BY <1>3, <1>4 DEF TypeOK
  <1>6. GoesOn(w, "verify", from)
    BY <1>1, <1>2, <1>3, NextJob
  <1> QED BY <1>3, <1>4, <1>5, <1>6 DEF Kept, GoesOn

LEMMA AcceptCopyKept ==
    ASSUME IndInv, TrackInv, SideInv, NEW w \in Workers, NEW a \in Assets, job[w].asset = a,
           NEW d, job[w].dest = d, job[w].pc \in Moving, job[w].kind = "sidecar", AcceptCopy(w)
    PROVE  Kept(w, a, d)
  <1>1. PICK from : from = job[w].from
    OBVIOUS
  <1>2. /\ job[w].pc = "verify" /\ Continue(w, [job[w] EXCEPT !.pc = "unlink"]) /\ fs' = fs
        /\ Size(fs[d]) = Size(fs[from])
    BY <1>1 DEF AcceptCopy, At, Matches
  <1>3. /\ TypeOK /\ d \in Own(a) /\ from \in Own(a) /\ JobOK(job[w])
        /\ fs[from] = Side(a) /\ fs[d] \in {Side(a), Cut(a)}
        /\ \A p \in Own(a) \ {d} : fs[p] \in {None, Side(a)}
    BY <1>1, <1>2, SidecarJob DEF JobSide
  <1>4. fs[d] = Side(a)
    <2>1. ExifSize[a] > 0 /\ ExifSize[a] \in Nat
      BY <1>2, <1>3, ConstantsAssumption DEF JobOK, Moving
    <2>2. Size(Side(a)) = ExifSize[a] /\ Size(Cut(a)) = 0
      BY DEF Size, Side, Cut, Whole
    <2> QED BY <1>2, <1>3, <2>1, <2>2
  <1>5. GoesOn(w, "unlink", from)
    BY <1>1, <1>2, <1>3, NextJob
  <1> QED BY <1>2, <1>3, <1>4, <1>5 DEF Kept, GoesOn

LEMMA RejectCopyKept ==
    ASSUME IndInv, TrackInv, SideInv, NEW w \in Workers, NEW a \in Assets, job[w].asset = a,
           NEW d, job[w].dest = d, job[w].pc \in Moving, job[w].kind = "sidecar", RejectCopy(w)
    PROVE  Kept(w, a, d)
  <1>1. PICK from : from = job[w].from
    OBVIOUS
  <1>2. /\ job[w].pc = "verify" /\ Continue(w, AfterMove(job[w]))
        /\ fs' = [fs EXCEPT ![d] = None]
    BY DEF RejectCopy, At
  <1>3. /\ TypeOK /\ d \in Own(a) /\ from \in Own(a) /\ from # d /\ Own(a) \subseteq Path
        /\ fs[from] = Side(a) /\ AfterMove(job[w]) = Idle
        /\ \A p \in Own(a) \ {d} : fs[p] \in {None, Side(a)}
    BY <1>1, <1>2, SidecarJob DEF JobSide
  <1>4. fs'[d] = None /\ \A p \in Own(a) \ {d} : fs'[p] = fs[p]
    BY <1>2, <1>3 DEF TypeOK
  <1>5. job'[w].pc = "idle"
    BY <1>2, <1>3, Continued DEF Idle
  <1> QED BY <1>3, <1>4, <1>5 DEF Kept

LEMMA UnlinkOldKept ==
    ASSUME IndInv, TrackInv, SideInv, NEW w \in Workers, NEW a \in Assets, job[w].asset = a,
           NEW d, job[w].dest = d, job[w].pc \in Moving, job[w].kind = "sidecar", UnlinkOld(w)
    PROVE  Kept(w, a, d)
  <1>1. PICK from : from = job[w].from
    OBVIOUS
  <1>2. /\ job[w].pc = "unlink" /\ Continue(w, [job[w] EXCEPT !.pc = "save"])
        /\ fs' = [fs EXCEPT ![from] = None] \/ fs' = fs
    BY <1>1 DEF UnlinkOld, At
  <1>3. /\ TypeOK /\ d \in Own(a) /\ from \in Own(a) /\ from # d /\ Own(a) \subseteq Path
        /\ fs[d] = Side(a)
        /\ \A p \in Own(a) : fs[p] \in {None, Side(a)}
    BY <1>1, <1>2, SidecarJob DEF JobSide
  <1>4. fs'[d] = Side(a) /\ \A p \in Own(a) : fs'[p] \in {None, fs[p]}
    BY <1>2, <1>3 DEF TypeOK
  <1>5. GoesOn(w, "save", from)
    BY <1>1, <1>2, <1>3, NextJob
  <1> QED BY <1>3, <1>4, <1>5 DEF Kept, GoesOn

LEMMA SavePathKept ==
    ASSUME IndInv, TrackInv, SideInv, NEW w \in Workers, NEW a \in Assets, job[w].asset = a,
           NEW d, job[w].dest = d, job[w].pc \in Moving, job[w].kind = "sidecar", SavePath(w)
    PROVE  Kept(w, a, d)
  <1>1. PICK from : from = job[w].from
    OBVIOUS
  <1>2. job[w].pc = "save" /\ Continue(w, [job[w] EXCEPT !.pc = "forget"]) /\ fs' = fs
    BY DEF SavePath, At
  <1>3. TypeOK /\ from \in Own(a)
    BY <1>1, <1>2, SidecarJob
  <1>4. GoesOn(w, "forget", from)
    BY <1>1, <1>2, <1>3, NextJob
  <1> QED BY <1>2, <1>3, <1>4, KeptAtRest

LEMMA SidecarKept ==
    ASSUME SizesTell, IndInv, TrackInv, SideInv, NEW w \in Workers, NEW a \in Assets,
           job[w].asset = a, NEW d, job[w].dest = d, job[w].pc \in Moving,
           job[w].kind = "sidecar", Step(w)
    PROVE  Kept(w, a, d)
  <1>1. ~StartMove(w)
    BY DEF StartMove, At, Moving
  <1>2. CASE CreateMove(w) \/ ResumeMove(w)
    BY <1>2, RowKept
  <1>3. CASE AbandonMove(w) \/ RefuseMove(w) \/ FailRename(w) \/ ForgetMove(w)
    BY <1>3, EndKept
  <1>4. CASE Rename(w)
    BY <1>4, RenameKept
  <1>5. CASE StartCopy(w)
    BY <1>5, StartCopyKept
  <1>6. CASE FinishCopy(w)
    BY <1>6, FinishCopyKept
  <1>7. CASE AcceptCopy(w)
    BY <1>7, AcceptCopyKept
  <1>8. CASE RejectCopy(w)
    BY <1>8, RejectCopyKept
  <1>9. CASE UnlinkOld(w)
    BY <1>9, UnlinkOldKept
  <1>10. CASE SavePath(w)
    BY <1>10, SavePathKept
  <1> QED BY <1>1, <1>2, <1>3, <1>4, <1>5, <1>6, <1>7, <1>8, <1>9, <1>10 DEF Step

\* Record and row of the sidecar lead to own paths after the step, too.
LEMMA SidecarTables ==
    ASSUME IndInv, TrackInv, SideInv, NEW w \in Workers, NEW a \in Assets, job[w].asset = a,
           NEW d, job[w].dest = d, job[w].pc \in Moving, job[w].kind = "sidecar", Step(w)
    PROVE  /\ \A b \in Assets \ {a} : /\ db'[b]["sidecar"] = db[b]["sidecar"]
                                      /\ moves'[b]["sidecar"] = moves[b]["sidecar"]
           /\ db'[a]["sidecar"] \in Own(a) \union {None}
           /\ moves'[a]["sidecar"] # None =>
                moves'[a]["sidecar"].old \in Own(a) /\ moves'[a]["sidecar"].new \in Own(a)
  <1>1. /\ TypeOK /\ d \in Own(a) /\ SideFine(a) /\ job[w].src["sidecar"] \in Own(a)
        /\ db[a]["sidecar"] \in Own(a) \union {None} /\ "sidecar" \in Kinds
    BY SidecarJob DEF SideFine, Kinds
  <1>2. db' = db \/ db' = [db EXCEPT ![a]["sidecar"] = d]
    BY DEF Step, StartMove, CreateMove, ResumeMove, AbandonMove, RefuseMove, Rename, FailRename,
           StartCopy, FinishCopy, AcceptCopy, RejectCopy, UnlinkOld, SavePath, ForgetMove
  <1>3. \/ moves' = moves
        \/ moves' = [moves EXCEPT ![a]["sidecar"] = None]
        \/ \E old \in Own(a) : moves' = [moves EXCEPT ![a]["sidecar"] = [old |-> old, new |-> d]]
    <2>1. CASE CreateMove(w)
      BY <1>1, <2>1 DEF CreateMove
    <2>2. CASE ResumeMove(w)
      <3>1. /\ RowOf(job[w]) = moves[a]["sidecar"] /\ RowOf(job[w]) # None
            /\ ActualPath(RowOf(job[w])) # None
        BY <2>2 DEF ResumeMove, RowOf
      <3>2. ActualPath(RowOf(job[w])) \in Own(a)
        BY <1>1, <3>1 DEF SideFine, ActualPath
      <3> QED BY <2>2, <3>2 DEF ResumeMove
    <2>3. CASE ForgetMove(w)
      BY <2>3 DEF ForgetMove
    <2>4. CASE ~(CreateMove(w) \/ ResumeMove(w) \/ ForgetMove(w))
      BY <2>4 DEF Step, StartMove, AbandonMove, RefuseMove, Rename, FailRename,
                  StartCopy, FinishCopy, AcceptCopy, RejectCopy, UnlinkOld, SavePath
    <2> QED BY <2>1, <2>2, <2>3, <2>4
  <1>4. /\ \A b \in Assets \ {a} : db'[b]["sidecar"] = db[b]["sidecar"]
        /\ db'[a]["sidecar"] \in Own(a) \union {None}
    BY <1>1, <1>2 DEF TypeOK
  <1>5. \A b \in Assets \ {a} : moves'[b]["sidecar"] = moves[b]["sidecar"]
    BY <1>1, <1>3 DEF TypeOK
  <1>6. moves'[a]["sidecar"] # None =>
          moves'[a]["sidecar"].old \in Own(a) /\ moves'[a]["sidecar"].new \in Own(a)
    <2>1. CASE moves' = moves
      BY <1>1, <2>1 DEF SideFine
    <2>2. CASE moves' = [moves EXCEPT ![a]["sidecar"] = None]
      BY <1>1, <2>2 DEF TypeOK
    <2>3. ASSUME NEW old \in Own(a),
                 moves' = [moves EXCEPT ![a]["sidecar"] = [old |-> old, new |-> d]]
          PROVE  moves'[a]["sidecar"].old \in Own(a) /\ moves'[a]["sidecar"].new \in Own(a)
      BY <1>1, <2>3 DEF TypeOK
    <2> QED BY <1>3, <2>1, <2>2, <2>3
  <1> QED BY <1>4, <1>5, <1>6

\* The move of a sidecar writes to paths its asset owns.
LEMMA SidecarWrites ==
    ASSUME IndInv, TrackInv, SideInv, NEW w \in Workers, NEW a \in Assets, job[w].asset = a,
           NEW d, job[w].dest = d, job[w].pc \in Moving, job[w].kind = "sidecar", Step(w)
    PROVE  \A p \in Path \ Own(a) : fs'[p] = fs[p]
  <1>1. PICK from : from = job[w].from
    OBVIOUS
  <1>2. /\ TypeOK /\ d \in Own(a) /\ (job[w].pc # "journal" => from \in Own(a))
        /\ Own(a) \subseteq Path
    BY <1>1, SidecarJob
  <1>3. CASE Rename(w)
    <2>1. /\ fs' = [fs EXCEPT ![d] = fs[from], ![from] = None] /\ job[w].pc = "transfer"
      BY <1>1, <1>3 DEF Rename, At
    <2> QED BY <1>2, <2>1 DEF TypeOK
  <1>4. CASE UnlinkOld(w)
    <2>1. /\ fs' = [fs EXCEPT ![from] = None] \/ fs' = fs
          /\ job[w].pc = "unlink"
      BY <1>1, <1>4 DEF UnlinkOld, At
    <2> QED BY <1>2, <2>1 DEF TypeOK
  <1>5. CASE StartCopy(w) \/ FinishCopy(w) \/ RejectCopy(w)
    <2>1. \E c : fs' = [fs EXCEPT ![d] = c]
      BY <1>5 DEF StartCopy, FinishCopy, RejectCopy
    <2> QED BY <1>2, <2>1 DEF TypeOK
  <1>6. CASE \/ StartMove(w) \/ CreateMove(w) \/ ResumeMove(w) \/ AbandonMove(w)
             \/ RefuseMove(w) \/ FailRename(w) \/ AcceptCopy(w) \/ SavePath(w) \/ ForgetMove(w)
    BY <1>6 DEF StartMove, CreateMove, ResumeMove, AbandonMove, RefuseMove, FailRename,
                AcceptCopy, SavePath, ForgetMove
  <1> QED BY <1>3, <1>4, <1>5, <1>6 DEF Step

LEMMA SidecarSide ==
    ASSUME SizesTell, IndInv, TrackInv, SideInv, NEW w \in Workers, job[w].pc \in Moving,
           job[w].kind = "sidecar", Step(w)
    PROVE  SideInv'
  <1>1. PICK a \in Assets : job[w].asset = a
    BY MovingJob
  <1>2. PICK d : job[w].dest = d
    OBVIOUS
  <1>3. /\ TypeOK /\ lock = w /\ d \in Own(a) /\ SideFine(a) /\ JobSide(w)
        /\ job[w].src["sidecar"] \in Own(a)
    BY <1>1, <1>2, SidecarJob
  <1>4. \A b \in Assets : Own(b)' = Own(b) /\ Side(b)' = Side(b) /\ Cut(b)' = Cut(b)
    BY SidecarApart, SameOwn DEF Side, Cut
  <1>5. Kept(w, a, d)
    BY <1>1, <1>2, SidecarKept
  <1>6. \A u \in Workers \ {w} : job'[u] = job[u]
    <2>1. \E j : Continue(w, j)
      BY DEF Step, StartMove, CreateMove, ResumeMove, AbandonMove, RefuseMove, Rename, FailRename,
             StartCopy, FinishCopy, AcceptCopy, RejectCopy, UnlinkOld, SavePath, ForgetMove
    <2> QED BY <1>3, <2>1, Continued
  <1>7. \/ job'[w].pc = "idle"
        \/ job'[w].kind = "sidecar" /\ job'[w].asset = a /\ job'[w].src = job[w].src
    BY <1>1, SidecarGoesOn
  <1>8. \A p \in Path \ Own(a) : fs'[p] = fs[p]
    BY <1>1, <1>2, SidecarWrites
  <1>9. SideFine(a)'
    <2>1. \A p \in Own(a) : fs'[p] \in {None, Side(a)} \/ CopiedTo(a, p)'
      <3> SUFFICES ASSUME NEW p \in Own(a), fs'[p] \notin {None, Side(a)}
                   PROVE  CopiedTo(a, p)'
        OBVIOUS
      <3>1. p = d /\ job'[w].pc \in {"copying", "verify"} /\ lock' = w /\ job'[w].dest = d
        BY <1>5 DEF Kept
      <3> QED BY <1>7, <3>1 DEF CopiedTo
    <2>2. a \in WithSidecar => \E p \in Own(a) : fs'[p] = Side(a)
      BY <1>3, <1>5 DEF SideFine, Kept
    <2>3. /\ db'[a]["sidecar"] \in Own(a) \union {None}
          /\ moves'[a]["sidecar"] # None =>
               moves'[a]["sidecar"].old \in Own(a) /\ moves'[a]["sidecar"].new \in Own(a)
      BY <1>1, <1>2, SidecarTables
    <2> QED BY <1>4, <2>1, <2>2, <2>3 DEF SideFine
  <1>10. ASSUME NEW b \in Assets, b # a PROVE SideFine(b)'
    <2>1. SideFine(b) /\ Own(b) \cap Own(a) = {} /\ Own(b) \subseteq Path
      BY <1>3, <1>10, OwnApart, OwnPaths DEF SideInv
    <2>2. /\ \A p \in Own(b) : fs'[p] = fs[p]
          /\ \A p : ~CopiedTo(b, p)
      BY <1>1, <1>3, <1>8, <1>10, <2>1 DEF CopiedTo
    <2>3. /\ db'[b]["sidecar"] = db[b]["sidecar"]
          /\ moves'[b]["sidecar"] = moves[b]["sidecar"]
      BY <1>1, <1>2, <1>10, SidecarTables
    <2> QED BY <1>4, <2>1, <2>2, <2>3 DEF SideFine
  <1>11. NoStrays'
    <2> SUFFICES ASSUME NEW p \in PathsOf("sidecar"), fs'[p] # None
                 PROVE  \E b \in Assets : p \in Own(b)'
      BY DEF NoStrays, PathsOf
    <2>1. CASE p \in Own(a)
      BY <1>4, <2>1
    <2>2. CASE p \notin Own(a)
      <3>1. fs[p] # None
        BY <1>8, <2>2, PathKinds DEF Kinds
      <3> QED BY <1>4, <3>1 DEF SideInv, NoStrays
    <2> QED BY <2>1, <2>2
  <1>12. JobSide(w)'
    <2>1. CASE job'[w].pc = "idle"
      BY <2>1 DEF JobSide, Moving
    <2>2. CASE job'[w].kind = "sidecar" /\ job'[w].asset = a /\ job'[w].src = job[w].src
               /\ job'[w].pc # "idle"
      <3>1. Own(job[w].asset)' = Own(a)' /\ Side(job[w].asset)' = Side(a)'
            /\ Cut(job[w].asset)' = Cut(a)'
        BY <2>2
      <3>2. Own(job[w].asset)' = Own(a) /\ Side(job[w].asset)' = Side(a)
            /\ Cut(job[w].asset)' = Cut(a)
        BY <1>4, <3>1
      <3> QED BY <1>3, <1>5, <2>2, <3>2 DEF JobSide, Kept
    <2> QED BY <1>7, <2>1, <2>2
  <1>13. ASSUME NEW u \in Workers, u # w PROVE JobSide(u)'
    <2>1. job'[u] = job[u] /\ JobSide(u) /\ job[u].pc \notin Moving
      BY <1>3, <1>6, <1>13 DEF SideInv, IndInv, MoveDiscipline, LockHeld
    <2>2. ASSUME job[u].pc # "idle"
          PROVE  job'[u].src["sidecar"] \in Own(job[u].asset)' \union {None}
      <3>1. PICK b \in Assets : job[u].asset = b
        BY <1>3, <2>2 DEF TypeOK, JobOK, Job
      <3>2. Own(job[u].asset)' = Own(b)'
        BY <2>1, <3>1
      <3> QED BY <1>4, <2>1, <2>2, <3>1, <3>2 DEF JobSide
    <2> QED BY <2>1, <2>2 DEF JobSide
  <1> QED BY <1>9, <1>10, <1>11, <1>12, <1>13 DEF SideInv

-----------------------------------------------------------------------------
(***************************************************************************)
(* No step disturbs rows or sidecars.                                      *)
(***************************************************************************)
LEMMA InitCalm == Init => CalmInv
  <1> SUFFICES ASSUME Init PROVE CalmInv
    OBVIOUS
  <1>1. \A a \in Assets : RowFine(a)
    BY DEF Init, RowFine, Entry, Kinds
  <1>2. \A w \in Workers : JobCalm(w)
    BY DEF Init, JobCalm, Idle
  <1> QED BY <1>1, <1>2 DEF CalmInv

LEMMA OnlySteps ==
    ASSUME NoInterrupts, OneTemplate, IndInv
    PROVE  ~ChangeConfig /\ \A w \in Workers : ~Interrupt(w)
  BY DEF NoInterrupts, OneTemplate, IndInv, TypeOK, ChangeConfig, Interrupt

LEMMA NextCalm ==
    ASSUME NoInterrupts, OneTemplate, IndInv, TrackInv, CalmInv, [Next]_vars PROVE CalmInv'
  <1>1. CASE UNCHANGED vars
    BY <1>1 DEF vars, CalmInv, RowFine, JobCalm, LowerTaken, Arriving, HolderAt, Entry, Up, Bytes
  <1> QED BY <1>1, OnlySteps, StepCalm, LoadCalm DEF Next

LEMMA NextSide ==
    ASSUME NoInterrupts, OneTemplate, SizesTell, IndInv, TrackInv, CalmInv, SideInv, [Next]_vars
    PROVE  SideInv'
  <1>1. CASE UNCHANGED vars
    <2>1. SidecarsRest /\ OwnGrows
      BY <1>1, SameTables, SameOwn DEF vars, SidecarsRest
    <2>2. TypeOK /\ \A u \in Workers : job'[u] = job[u] /\ JobSide(u)
      BY <1>1 DEF vars, IndInv, SideInv
    <2>3. \A b, p : CopiedTo(b, p) => CopiedTo(b, p)'
      BY <1>1 DEF vars, CopiedTo
    <2>4. \A u \in Workers : JobSide(u)'
      BY <2>1, <2>2, JobSideRests
    <2> QED BY <2>1, <2>2, <2>3, <2>4, SidecarsRestOK
  <1>2. ASSUME NEW w \in Workers, Step(w) PROVE SideInv'
    <2>1. CASE StartMove(w)
      BY <2>1, StartMoveSide
    <2>2. CASE job[w].pc \in Moving
      <3>1. job[w].kind \in {"original", "sidecar"}
        BY DEF IndInv, TypeOK, Job, Kinds
      <3> QED BY <1>2, <2>2, <3>1, OriginalSide, SidecarSide
    <2> QED BY <1>2, <2>1, <2>2
          DEF Step, At, Moving, CreateMove, ResumeMove, AbandonMove, RefuseMove, Rename,
              FailRename, StartCopy, FinishCopy, AcceptCopy, RejectCopy, UnlinkOld,
              SavePath, ForgetMove
  <1> QED BY <1>1, <1>2, OnlySteps, LoadSide DEF Next
-----------------------------------------------------------------------------
(***************************************************************************)
(* Theorems.                                                               *)
(***************************************************************************)

(* The inductive invariant of the move journal: at every reachable state   *)
(* of moveFile in any number of workers.                                   *)
THEOREM Invariance == Spec => []IndInv
  BY InitOK, NextOK, PTL DEF Spec

(* Records, rows and jobs of originals hold paths of originals, those of   *)
(* sidecars paths of sidecars, and moveFile never has to move a file onto  *)
(* itself.                                                                 *)
THEOREM TypeInvariance == Spec => []TypeOK
  <1>1. IndInv => TypeOK
    BY DEF IndInv
  <1> QED BY <1>1, Invariance, PTL

(* withLock admits one move at a time, and what a move found out about the *)
(* disk is still true when it acts on it.                                  *)
THEOREM MoveDisciplined == Spec => []MoveDiscipline
  <1>1. IndInv => MoveDiscipline
    BY DEF IndInv
  <1> QED BY <1>1, Invariance, PTL

(* If copies are hashed, or cannot be garbled, no original is ever lost,   *)
(* whatever crashes, fails, or is configured, in whichever order.          *)
THEOREM NoOriginalLost ==
    ASSUME CopiesAreChecked PROVE Spec => []OriginalsSurvive
  <1>1. IndInv => OriginalsSurvive
    BY DEF IndInv
  <1> QED BY <1>1, Invariance, PTL

(* "Multiple files with the same filename ... won't be overwritten": the   *)
(* bytes of a complete original are never replaced at their path, with or  *)
(* without hashes.                                                         *)
THEOREM NothingOverwritten == Spec => OriginalsNotOverwritten
  <1>1. IndInv /\ [Next]_vars =>
          [\A p \in PathsOf("original") :
             fs[p] # None /\ fs[p].bytes = "whole" => fs'[p] \in {fs[p], None}]_vars
    BY NotOverwrittenStep
  <1> QED BY <1>1, Invariance, PTL DEF Spec, OriginalsNotOverwritten


(* While the template stays and one move at most is cut off: records, rows *)
(* and jobs agree on where the original of an asset is.                    *)
THEOREM Tracking ==
    ASSUME CopiesAreChecked, OneTemplate, OneInterrupt PROVE Spec => []TrackInv
  <1>1. Init => TrackInv
    BY InitTrack
  <1>2. IndInv /\ TrackInv /\ [Next]_vars => TrackInv'
    BY NextTrack
  <1> QED BY <1>1, <1>2, Invariance, PTL DEF Spec

(* The record of an asset, or its journal row, leads to its bytes at every *)
(* moment a process may die.                                               *)
THEOREM OriginalsAreTracked ==
    ASSUME CopiesAreChecked, OneTemplate, OneInterrupt PROVE Spec => []OriginalsTracked
  <1>1. ASSUME TrackInv PROVE OriginalsTracked
    <2> SUFFICES ASSUME NEW a \in Assets PROVE \E p \in Tracked(a) : fs[p] = Bytes(a)
      BY DEF OriginalsTracked, Bytes
    <2> QED BY <1>1 DEF TrackInv, RecordFine, Tracked, Place, Entry
  <1> QED BY <1>1, Tracking, PTL

(* The path in a record never leads to a damaged copy, nor to the bytes of *)
(* another asset.                                                          *)
THEOREM RecordsAreTrue ==
    ASSUME CopiesAreChecked, OneTemplate, OneInterrupt PROVE Spec => []RecordsLeadToOwnBytes
  <1>1. TrackInv => RecordsLeadToOwnBytes
    BY DEF TrackInv, RecordFine, RecordsLeadToOwnBytes, Place, Bytes
  <1> QED BY <1>1, Tracking, PTL

(* The journal makes a move atomic: seen through record and row, originals *)
(* are at places of their own, and a step of the system moves one of them  *)
(* at most, to a free place that the template allows it.                   *)
THEOREM MovesRefinePlacement ==
    ASSUME CopiesAreChecked, OneTemplate, OneInterrupt
    PROVE  Spec => Placement!Init /\ [][Placement!Next]_(Placement!vars)
  <1>1. Init /\ IndInv /\ TrackInv => Placement!Init
    BY PlacementInit
  <1>2. IndInv => ~ChangeConfig
    BY DEF ChangeConfig, OneTemplate, IndInv, TypeOK
  <1>3. IndInv /\ TrackInv /\ IndInv' /\ TrackInv' /\ ~ChangeConfig /\ [Next]_vars
          => [Placement!Next]_(Placement!vars)
    BY PlacementNext
  <1> QED BY <1>1, <1>2, <1>3, Invariance, Tracking, PTL DEF Spec

(* No sidecar is lost or overwritten while the template stays and nobody   *)
(* is cut off, if sizes tell a bad copy: moveFile does not look at where   *)
(* it puts a sidecar, but what is there can only be the sidecar itself.    *)
THEOREM SidecarsAreKept ==
    ASSUME NoInterrupts, OneTemplate, SizesTell PROVE Spec => []SidecarsSurvive
  <1>1. CopiesAreChecked /\ OneInterrupt
    BY DEF CopiesAreChecked, SizesTell, OneInterrupt, NoInterrupts
  <1>2. Init => CalmInv /\ SideInv
    BY InitCalm, InitSide
  <1>3. IndInv /\ TrackInv /\ CalmInv /\ SideInv /\ [Next]_vars => CalmInv' /\ SideInv'
    BY NextCalm, NextSide
  <1>4. ASSUME SideInv PROVE SidecarsSurvive
    <2> SUFFICES ASSUME NEW a \in WithSidecar
                 PROVE  \E p \in PathsOf("sidecar") : fs[p] = Side(a)
      BY DEF SidecarsSurvive, Side
    <2>1. a \in Assets /\ SideFine(a)
      BY <1>4, ConstantsAssumption DEF SideInv
    <2> QED BY <2>1, OwnPaths DEF SideFine
  <1>5. Spec => []TrackInv
    BY <1>1, Tracking
  <1> QED BY <1>2, <1>3, <1>4, <1>5, Invariance, PTL DEF Spec
=============================================================================
