--------------------------- MODULE StorageTemplate ---------------------------
(***************************************************************************)
(* The storage template migration of the server and the move journal it    *)
(* relies on.  A worker loads an asset, waits for the database lock        *)
(* StorageTemplateMigration, computes the template path, and moves the     *)
(* original and then its sidecar: a row of move_history is written before  *)
(* the file is renamed (or copied, verified and unlinked across devices),  *)
(* the asset record is updated after, and the row is deleted last.  Any    *)
(* step may be the last one of its worker.                                 *)
(*                                                                         *)
(* Assets are the ones moveAsset does not skip (neither read-only, nor     *)
(* external, nor an Android motion part); the motion part of a live photo  *)
(* is an asset like any other here, since it is loaded and moved by a      *)
(* moveAsset call of its own.                                              *)
(***************************************************************************)
EXTENDS Integers

CONSTANTS
    Assets,      \* ids of the assets
    Bases,       \* rendered template paths, without "+N" and extension
    MaxDup,      \* bound on the "+N" suffix
    Workers,     \* consumers of the storage template queue, in any process
    Configs,     \* the storage template settings an administrator may save
    ExifSize,    \* exifInfo.fileSizeInByte of each asset, 0 when missing
    WithSidecar, \* the assets that have a sidecar
    CrossDevice, \* may a rename fail with EXDEV?
    CopyFaults,  \* how a copy may differ silently: subset of Damage
    MaxFaults,   \* bound on failures the code handles or does not notice
    MaxInterrupts, \* bound on crashes and exceptions
    MaxChanges,  \* bound on changes of the settings
    None         \* no path, no file, no row, nobody

Kinds == {"original", "sidecar"}
Damage == {"short", "garbled"}

(***************************************************************************)
(* A path is a directory and name ("base": an upload path, private to its  *)
(* asset, or a rendered template), the N of "+N" (0 when there is none)    *)
(* and which of the two extensions it has.                                 *)
(***************************************************************************)
PathsOf(k) == [base: Assets \union Bases, dup: 0..MaxDup, kind: {k}]
Path == [base: Assets \union Bases, dup: 0..MaxDup, kind: Kinds]
Xmp(p) == [p EXCEPT !.kind = "sidecar"]
UploadPath(a, k) == [base |-> a, dup |-> 0, kind |-> k]

(***************************************************************************)
(* The bytes of a file: whose they are, and whether they are all there.    *)
(***************************************************************************)
Content == [of: Assets, kind: Kinds, bytes: {"whole"} \union Damage]
Whole(a, k) == [of |-> a, kind |-> k, bytes |-> "whole"]
Size(c) == IF c.bytes = "short" THEN 0 ELSE ExifSize[c.of]

Row == [old: Path, new: Path]
Config == [enabled: BOOLEAN, hashVerification: BOOLEAN,
           template: [Assets -> Bases \union {None}]]

(***************************************************************************)
(* Steps of moveAsset under the lock.  "from" is the oldPath of the        *)
(* journal row the worker holds; src was read before the lock was taken.   *)
(***************************************************************************)
Moving == {"journal", "transfer", "copying", "verify", "unlink", "save", "forget"}
Job == [pc: {"idle", "loaded"} \union Moving,
        asset: Assets \union {None},
        kind: Kinds,
        src: [Kinds -> Path \union {None}],
        dest: Path \union {None},
        from: Path \union {None}]
Idle == [pc |-> "idle", asset |-> None, kind |-> "original",
         src |-> [k \in Kinds |-> None], dest |-> None, from |-> None]

ASSUME ConstantsAssumption ==
    /\ MaxDup \in Nat /\ MaxFaults \in Nat /\ MaxInterrupts \in Nat /\ MaxChanges \in Nat
    /\ Configs \subseteq Config
    /\ ExifSize \in [Assets -> Nat]
    /\ WithSidecar \subseteq Assets
    /\ CrossDevice \in BOOLEAN
    /\ CopyFaults \subseteq Damage

\* Uploads are put into a folder of their own, which no template leads into.
ASSUME UploadsAreApart == Assets \cap Bases = {}

ASSUME NoneAssumption ==
    None \notin Assets \union Bases \union Workers \union Path \union Content \union Row

VARIABLES
    fs,      \* the files on disk
    db,      \* originalPath and sidecarPath of the asset records
    moves,   \* the move_history rows, by entity and path type
    lock,    \* the worker that holds StorageTemplateMigration
    job,     \* what each worker is doing
    config,  \* the storage template settings
    faults, interrupts, changes  \* how many of each have happened

vars == <<fs, db, moves, lock, job, config, faults, interrupts, changes>>

Init ==
    /\ fs = [p \in Path |->
               IF p.base \in Assets /\ p.dup = 0
                  /\ (p.kind = "sidecar" => p.base \in WithSidecar)
               THEN Whole(p.base, p.kind) ELSE None]
    /\ db = [a \in Assets |-> [k \in Kinds |->
               IF k = "original" \/ a \in WithSidecar THEN UploadPath(a, k) ELSE None]]
    /\ moves = [a \in Assets |-> [k \in Kinds |-> None]]
    /\ lock = None
    /\ job = [w \in Workers |-> Idle]
    /\ config \in Configs
    /\ faults = 0
    /\ interrupts = 0
    /\ changes = 0

-----------------------------------------------------------------------------
(***************************************************************************)
(* Helpers.                                                                *)
(***************************************************************************)
Fault == faults < MaxFaults /\ faults' = faults + 1

\* The definitions whose name ends in _Faulty... are bugs the code does not have; they
\* stand before the definition they would replace and show that a property can fail.

TemplatePath_FaultyUnchecked(a, src) ==
    LET base == config.template[a]
    IN  IF base = None \/ src.base = base
        THEN {src}
        ELSE {[base |-> base, dup |-> 0, kind |-> "original"]}

\* getTemplatePath: the source itself when it is at its template path already
\* (with or without "+N") or the path cannot be rendered, else the first free one.
TemplatePath(a, src) ==
    LET base == config.template[a]
    IN  IF base = None \/ src.base = base
        THEN {src}
        ELSE {p \in PathsOf("original") :
                /\ p.base = base
                /\ fs[p] = None
                /\ \A q \in PathsOf("original") :
                     q.base = base /\ q.dup < p.dup => fs[q] # None}

RowOf(j) == moves[j.asset][j.kind]

\* UQ_newPath: creating or updating the row of j would violate the constraint.
NewPathTaken(j) ==
    \E a \in Assets, k \in Kinds :
        /\ <<a, k>> # <<j.asset, j.kind>>
        /\ moves[a][k] # None
        /\ moves[a][k].new = j.dest

ActualPath_FaultyNewFirst(row) ==
    IF fs[row.new] # None THEN row.new
    ELSE IF fs[row.old] # None THEN row.old
    ELSE None

\* Where an incomplete move left its file; the old location wins.
ActualPath(row) ==
    IF fs[row.old] # None THEN row.old
    ELSE IF fs[row.new] # None THEN row.new
    ELSE None

Matches_FaultySizeOnly(j, old, new) ==
    Size(fs[new]) = IF j.kind = "original" THEN ExifSize[j.asset] ELSE Size(fs[old])

\* verifyNewPathContentsMatchesExpected: only originals come with assetInfo;
\* for a sidecar the size of the old file stands in, and there is no hash.
Matches(j, old, new) ==
    IF j.kind = "original"
    THEN /\ Size(fs[new]) = ExifSize[j.asset]
         /\ config.hashVerification => fs[new] = Whole(j.asset, "original")
    ELSE Size(fs[new]) = Size(fs[old])

\* stat of the missing old file throws.
VerifyThrows(j, old) == j.kind = "sidecar" /\ fs[old] = None

AfterMove_FaultyWithoutXmp(j) ==
    IF j.kind = "original" /\ j.src["sidecar"] \notin {None, j.dest}
    THEN [j EXCEPT !.pc = "journal", !.kind = "sidecar", !.from = None]
    ELSE Idle

AfterMove_FaultyWithoutSuffix(j) ==
    LET dest == Xmp([j.dest EXCEPT !.dup = 0])
    IN  IF j.kind = "original" /\ j.src["sidecar"] \notin {None, dest}
        THEN [j EXCEPT !.pc = "journal", !.kind = "sidecar", !.dest = dest, !.from = None]
        ELSE Idle

AfterMove_FaultyOriginalOnly(j) == Idle

\* What moveAsset goes on with once moveFile has returned.
AfterMove(j) ==
    IF j.kind = "original" /\ j.src["sidecar"] \notin {None, Xmp(j.dest)}
    THEN [j EXCEPT !.pc = "journal", !.kind = "sidecar", !.dest = Xmp(j.dest), !.from = None]
    ELSE Idle

\* Worker w goes on with j, and gives the lock back when it is done.
Continue(w, j) ==
    /\ job' = [job EXCEPT ![w] = j]
    /\ lock' = IF j.pc = "idle" THEN None ELSE w

At(w, pc) == job[w].pc = pc

-----------------------------------------------------------------------------
(***************************************************************************)
(* handleMigrationSingle, and one turn of the loop of handleMigration: the *)
(* asset is read, and nothing is locked yet.                               *)
(***************************************************************************)
Load(w, a) ==
    /\ At(w, "idle")
    /\ config.enabled
    /\ job' = [job EXCEPT ![w] = [pc |-> "loaded", asset |-> a, kind |-> "original",
                                  src |-> db[a], dest |-> None, from |-> None]]
    /\ UNCHANGED <<fs, db, moves, lock, config, faults, interrupts, changes>>

StartMove_FaultyUnlocked(w) ==
    /\ At(w, "loaded")
    /\ LET a   == job[w].asset
           src == job[w].src["original"]
       IN  \E dest \in TemplatePath(a, src) :
             LET j == [job[w] EXCEPT !.pc = "journal", !.dest = dest]
             IN  Continue(w, IF ExifSize[a] = 0 THEN Idle
                             ELSE IF dest = src THEN AfterMove(j)
                             ELSE j)
    /\ UNCHANGED <<fs, db, moves, config, faults, interrupts, changes>>

(***************************************************************************)
(* The lock is taken, the template path computed, and the first moveFile   *)
(* is called unless the size is not known.                                 *)
(***************************************************************************)
StartMove(w) ==
    /\ At(w, "loaded")
    /\ lock = None
    /\ LET a   == job[w].asset
           src == job[w].src["original"]
       IN  \E dest \in TemplatePath(a, src) :
             LET j == [job[w] EXCEPT !.pc = "journal", !.dest = dest]
             IN  Continue(w, IF ExifSize[a] = 0 THEN Idle
                             ELSE IF dest = src THEN AfterMove(j)
                             ELSE j)
    /\ UNCHANGED <<fs, db, moves, config, faults, interrupts, changes>>

(***************************************************************************)
(* The journal row is created, or the row of an earlier attempt is taken   *)
(* over with the place its file is found at.                               *)
(***************************************************************************)
CreateMove(w) ==
    LET j   == job[w]
        old == j.src[j.kind]
    IN  /\ At(w, "journal")
        /\ RowOf(j) = None
        /\ ~NewPathTaken(j)
        /\ moves' = [moves EXCEPT ![j.asset][j.kind] = [old |-> old, new |-> j.dest]]
        /\ Continue(w, [j EXCEPT !.pc = "transfer", !.from = old])
        /\ UNCHANGED <<fs, db, config, faults, interrupts, changes>>

ResumeMove_FaultyRowKept(w) ==
    LET j      == job[w]
        actual == ActualPath(RowOf(j))
    IN  /\ At(w, "journal")
        /\ RowOf(j) # None
        /\ actual # None
        /\ actual # RowOf(j).old => Matches(j, RowOf(j).old, actual)
        /\ ~NewPathTaken(j)
        /\ Continue(w, [j EXCEPT !.pc = "transfer", !.from = actual])
        /\ UNCHANGED <<fs, db, moves, config, faults, interrupts, changes>>

ResumeMove(w) ==
    LET j      == job[w]
        actual == ActualPath(RowOf(j))
    IN  /\ At(w, "journal")
        /\ RowOf(j) # None
        /\ actual # None
        /\ actual # RowOf(j).old =>
             /\ ~VerifyThrows(j, RowOf(j).old)
             /\ Matches(j, RowOf(j).old, actual)
        /\ ~NewPathTaken(j)
        /\ moves' = [moves EXCEPT ![j.asset][j.kind] = [old |-> actual, new |-> j.dest]]
        /\ Continue(w, [j EXCEPT !.pc = IF actual = j.dest THEN "save" ELSE "transfer",
                                 !.from = actual])
        /\ UNCHANGED <<fs, db, config, faults, interrupts, changes>>

\* The file is at neither place, or what is at the new one is not it.
AbandonMove(w) ==
    LET j      == job[w]
        actual == ActualPath(RowOf(j))
    IN  /\ At(w, "journal")
        /\ RowOf(j) # None
        /\ \/ actual = None
           \/ /\ actual # None
              /\ actual # RowOf(j).old
              /\ ~VerifyThrows(j, RowOf(j).old)
              /\ ~Matches(j, RowOf(j).old, actual)
        /\ Continue(w, AfterMove(j))
        /\ UNCHANGED <<fs, db, moves, config, faults, interrupts, changes>>

\* UQ_newPath is violated, or the verification throws: moveAsset catches it,
\* which gives up the sidecar as well.
RefuseMove(w) ==
    LET j      == job[w]
        actual == ActualPath(RowOf(j))
    IN  /\ At(w, "journal")
        /\ \/ RowOf(j) = None /\ NewPathTaken(j)
           \/ /\ RowOf(j) # None
              /\ actual # None
              /\ actual # RowOf(j).old
              /\ VerifyThrows(j, RowOf(j).old)
           \/ /\ RowOf(j) # None
              /\ actual # None
              /\ actual # RowOf(j).old =>
                   /\ ~VerifyThrows(j, RowOf(j).old)
                   /\ Matches(j, RowOf(j).old, actual)
              /\ NewPathTaken(j)
        /\ Continue(w, Idle)
        /\ UNCHANGED <<fs, db, moves, config, faults, interrupts, changes>>

-----------------------------------------------------------------------------
(***************************************************************************)
(* The file is moved.                                                      *)
(***************************************************************************)
Rename(w) ==
    LET j == job[w]
    IN  /\ At(w, "transfer")
        /\ fs[j.from] # None
        /\ fs' = [fs EXCEPT ![j.dest] = fs[j.from], ![j.from] = None]
        /\ Continue(w, [j EXCEPT !.pc = "save"])
        /\ UNCHANGED <<db, moves, config, faults, interrupts, changes>>

\* Any error but EXDEV: the row stays, and moveFile returns normally.
FailRename(w) ==
    /\ At(w, "transfer")
    /\ IF fs[job[w].from] = None THEN UNCHANGED faults ELSE Fault
    /\ Continue(w, AfterMove(job[w]))
    /\ UNCHANGED <<fs, db, moves, config, interrupts, changes>>

\* EXDEV: copyFile creates the new file, and then fills it.
StartCopy(w) ==
    LET j == job[w]
    IN  /\ At(w, "transfer")
        /\ CrossDevice
        /\ fs[j.from] # None
        /\ fs' = [fs EXCEPT ![j.dest] = [fs[j.from] EXCEPT !.bytes = "short"]]
        /\ Continue(w, [j EXCEPT !.pc = "copying"])
        /\ UNCHANGED <<db, moves, config, faults, interrupts, changes>>

FinishCopy(w) ==
    LET j == job[w]
    IN  /\ At(w, "copying")
        /\ Continue(w, [j EXCEPT !.pc = "verify"])
        /\ \/ fs' = [fs EXCEPT ![j.dest] = fs[j.from]] /\ UNCHANGED faults
           \/ \E damage \in CopyFaults :
                fs' = [fs EXCEPT ![j.dest] = [fs[j.from] EXCEPT !.bytes = damage]] /\ Fault
        /\ UNCHANGED <<db, moves, config, interrupts, changes>>

AcceptCopy_FaultyUnverified(w) ==
    /\ At(w, "verify")
    /\ Continue(w, [job[w] EXCEPT !.pc = "unlink"])
    /\ UNCHANGED <<fs, db, moves, config, faults, interrupts, changes>>

AcceptCopy(w) ==
    LET j == job[w]
    IN  /\ At(w, "verify")
        /\ Matches(j, j.from, j.dest)
        /\ Continue(w, [j EXCEPT !.pc = "unlink"])
        /\ UNCHANGED <<fs, db, moves, config, faults, interrupts, changes>>

RejectCopy(w) ==
    LET j == job[w]
    IN  /\ At(w, "verify")
        /\ ~Matches(j, j.from, j.dest)
        /\ fs' = [fs EXCEPT ![j.dest] = None]
        /\ Continue(w, AfterMove(j))
        /\ UNCHANGED <<db, moves, config, faults, interrupts, changes>>

\* A failure to delete the old file is logged and ignored.
UnlinkOld(w) ==
    LET j == job[w]
    IN  /\ At(w, "unlink")
        /\ \/ fs' = [fs EXCEPT ![j.from] = None] /\ UNCHANGED faults
           \/ UNCHANGED fs /\ Fault
        /\ Continue(w, [j EXCEPT !.pc = "save"])
        /\ UNCHANGED <<db, moves, config, interrupts, changes>>

(***************************************************************************)
(* The asset record is updated, then the journal row is deleted.           *)
(***************************************************************************)
SavePath(w) ==
    LET j == job[w]
    IN  /\ At(w, "save")
        /\ db' = [db EXCEPT ![j.asset][j.kind] = j.dest]
        /\ Continue(w, [j EXCEPT !.pc = "forget"])
        /\ UNCHANGED <<fs, moves, config, faults, interrupts, changes>>

ForgetMove_FaultyRowKept(w) ==
    /\ At(w, "forget")
    /\ Continue(w, AfterMove(job[w]))
    /\ UNCHANGED <<fs, db, moves, config, faults, interrupts, changes>>

ForgetMove(w) ==
    LET j == job[w]
    IN  /\ At(w, "forget")
        /\ moves' = [moves EXCEPT ![j.asset][j.kind] = None]
        /\ Continue(w, AfterMove(j))
        /\ UNCHANGED <<fs, db, config, faults, interrupts, changes>>

(***************************************************************************)
(* The process of w dies, which ends its database session and frees the    *)
(* lock; or a query or file operation throws, which moveAsset catches and  *)
(* withLock answers by releasing.  What is on disk and in the tables stays.*)
(***************************************************************************)
Interrupt(w) ==
    /\ ~At(w, "idle")
    /\ interrupts < MaxInterrupts
    /\ interrupts' = interrupts + 1
    /\ job' = [job EXCEPT ![w] = Idle]
    /\ lock' = IF lock = w THEN None ELSE lock
    /\ UNCHANGED <<fs, db, moves, config, faults, changes>>

\* An administrator saves other storage template settings.
ChangeConfig ==
    /\ changes < MaxChanges
    /\ changes' = changes + 1
    /\ config' \in Configs \ {config}
    /\ UNCHANGED <<fs, db, moves, lock, job, faults, interrupts>>

Step(w) ==
    \/ StartMove(w)
    \/ CreateMove(w) \/ ResumeMove(w) \/ AbandonMove(w) \/ RefuseMove(w)
    \/ Rename(w) \/ FailRename(w)
    \/ StartCopy(w) \/ FinishCopy(w) \/ AcceptCopy(w) \/ RejectCopy(w) \/ UnlinkOld(w)
    \/ SavePath(w) \/ ForgetMove(w)

Next ==
    \/ \E w \in Workers : Step(w) \/ Interrupt(w) \/ \E a \in Assets : Load(w, a)
    \/ ChangeConfig

Spec == Init /\ [][Next]_vars

(***************************************************************************)
(* The step a worker is at is eventually taken, a worker that waits is     *)
(* eventually given the lock (both queues of withLock are first come first *)
(* served), and the migration job keeps being run over every asset.        *)
(* Nothing obliges a call to fail, a process to die or settings to change. *)
(***************************************************************************)
FairSpec ==
    /\ Spec
    /\ \A w \in Workers :
         /\ SF_vars(Step(w))
         /\ \A a \in Assets : SF_vars(Load(w, a))

-----------------------------------------------------------------------------
(***************************************************************************)
(* Properties.                                                             *)
(***************************************************************************)

\* What a job knows at each step.
JobOK(j) ==
    /\ j \in Job
    /\ \A k \in Kinds : j.src[k] # None => j.src[k].kind = k
    /\ j.dest # None => j.dest.kind = j.kind
    /\ j.from # None => j.from.kind = j.kind
    /\ j.pc # "idle" => j.asset # None /\ j.src["original"] # None
    /\ j.pc = "loaded" => j.kind = "original"
    /\ j.pc \in Moving =>
         j.dest # None /\ ExifSize[j.asset] > 0 /\ j.src[j.kind] # None
    /\ j.pc = "journal" => j.src[j.kind] # j.dest
    /\ j.pc \in Moving \ {"journal"} => j.from # None
    /\ j.pc \in {"transfer", "copying", "verify", "unlink"} => j.from # j.dest

(* Every variable stays in its set; moreover the paths a record, a journal *)
(* row or a job holds for an original (a sidecar) are paths of originals   *)
(* (sidecars), so that the two moves of an asset never touch the same file,*)
(* and a move never has its source as its destination.                     *)
TypeOK ==
    /\ fs \in [Path -> Content \union {None}]
    /\ db \in [Assets -> [Kinds -> Path \union {None}]]
    /\ moves \in [Assets -> [Kinds -> Row \union {None}]]
    /\ lock \in Workers \union {None}
    /\ job \in [Workers -> Job]
    /\ config \in Configs
    /\ faults \in 0..MaxFaults
    /\ interrupts \in 0..MaxInterrupts
    /\ changes \in 0..MaxChanges
    /\ \A a \in Assets, k \in Kinds :
         /\ db[a][k] # None => db[a][k].kind = k
         /\ moves[a][k] # None => moves[a][k].old.kind = k /\ moves[a][k].new.kind = k
    /\ \A a \in Assets : db[a]["original"] # None
    /\ \A w \in Workers : JobOK(job[w])

(* A hash of every copy is asked for, or no copy is garbled.               *)
CopiesAreChecked ==
    \A c \in Configs : c.hashVerification \/ "garbled" \notin CopyFaults

LockHeld == \A w \in Workers : job[w].pc \in Moving => lock = w

\* What the disk looks like at each step of the move of an original.
DiskAgrees(j) ==
    /\ j.pc \in {"copying", "verify"} => fs[j.from] # None /\ fs[j.dest] # None
    /\ j.kind = "original" =>
         /\ j.pc \in {"journal", "transfer"} => fs[j.dest] = None
         /\ j.pc = "copying" => fs[j.dest].bytes = "short"
         /\ j.pc = "verify" => fs[j.dest] = fs[j.from] \/ fs[j.dest].bytes \in CopyFaults
         /\ j.pc = "unlink" /\ CopiesAreChecked => fs[j.dest] = fs[j.from]

(* Only the holder of the lock is between the journal and the release, and *)
(* what it found out is still true at its next step: the destination is    *)
(* free until the file arrives, and the old file is unlinked only when the *)
(* new one has the same bytes.                                             *)
MoveDiscipline == LockHeld /\ \A w \in Workers : DiskAgrees(job[w])

(* Whatever crashes, fails, or interleaves, and however often the template *)
(* changes, a complete copy of every original is on disk: moveFile removes *)
(* the old file only when the new one is known to be good.                 *)
OriginalsSurvive ==
    \A a \in Assets : \E p \in PathsOf("original") : fs[p] = Whole(a, "original")

(* A complete original is never replaced by other bytes at its own path,   *)
(* only moved away: "multiple files with the same filename ... won't be    *)
(* overwritten".                                                           *)
OriginalsNotOverwritten ==
    [][\A p \in PathsOf("original") :
         fs[p] # None /\ fs[p].bytes = "whole" => fs'[p] \in {fs[p], None}]_vars

(* The same promise for sidecars, whose destination is never looked at.    *)
SidecarsSurvive ==
    \A a \in WithSidecar : \E p \in PathsOf("sidecar") : fs[p] = Whole(a, "sidecar")

\* Where the server can still find the original of a.
Tracked(a) ==
    {db[a]["original"]} \union
    (IF moves[a]["original"] = None THEN {}
     ELSE {moves[a]["original"].old, moves[a]["original"].new})

(* The asset record or the journal row of an asset leads to its bytes, at  *)
(* every moment a process may die.                                         *)
OriginalsTracked ==
    \A a \in Assets : \E p \in Tracked(a) : fs[p] = Whole(a, "original")

(* The path in an asset record never holds a damaged copy, nor the bytes   *)
(* of another asset; at worst it holds nothing while a move is incomplete. *)
RecordsLeadToOwnBytes ==
    \A a \in Assets : fs[db[a]["original"]] \in {None, Whole(a, "original")}

\* The original of a is where the template wants it, and the record says so.
Settled(a) ==
    config.enabled /\ ExifSize[a] > 0 /\ config.template[a] # None =>
        /\ db[a]["original"].base = config.template[a]
        /\ fs[db[a]["original"]] = Whole(a, "original")

(* Once the settings stop changing and calls stop failing, running the     *)
(* migration again and again brings every original to its template path.   *)
MigrationCompletes == \A a \in Assets : <>[]Settled(a)

\* The sidecar of a is next to its original, and the record says so.
SidecarSettled(a) ==
    config.enabled /\ ExifSize[a] > 0 /\ config.template[a] # None =>
        /\ db[a]["sidecar"] = Xmp(db[a]["original"])
        /\ fs[db[a]["sidecar"]] = Whole(a, "sidecar")

(* The same for sidecars: every sidecar ends next to its original.         *)
SidecarMigrationCompletes == \A a \in WithSidecar : <>[]SidecarSettled(a)

\* Where the original of a is, as the server would find it.
Location(a) ==
    LET row == moves[a]["original"]
    IN  IF fs[db[a]["original"]] = Whole(a, "original") \/ row = None
        THEN db[a]["original"]
        ELSE IF fs[row.old] = Whole(a, "original") THEN row.old
        ELSE row.new

(* The journal makes a move atomic: seen through record and row, every     *)
(* original is at one place, moves there in a single step, never to the    *)
(* place of another, and arrives where the template wants it.              *)
Placement == INSTANCE FilePlacement WITH
    Places  <- PathsOf("original"),
    place   <- [a \in Assets |-> Location(a)],
    targets <- [a \in Assets |-> {p \in PathsOf("original") : p.base = config.template[a]}]

MovesAreAtomic == Placement!Spec
=============================================================================
