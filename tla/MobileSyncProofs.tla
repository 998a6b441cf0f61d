-------------------------- MODULE MobileSyncProofs --------------------------
(***************************************************************************)
(* The synchronisation of the mobile app, for any number of assets and any *)
(* bound on changes and failures.  Without assumptions: every variable     *)
(* keeps its type, and no asset of the device is lost.  When the clock of  *)
(* the app is not ahead and a full synchronisation is one request: nothing *)
(* falls between two synchronisations.  Both except the assets of which a  *)
(* fault may have hidden a change (suspect).                               *)
(***************************************************************************)
EXTENDS MobileSync, FiniteSetTheorems, TLAPS

\* The clock of the app is not ahead of the server's.
ClockIsNotAhead == Lag >= 0

\* A full synchronisation asks for all assets at once.
OneChunk == Cardinality(Checksums) <= ChunkSize

-----------------------------------------------------------------------------
(* The assets of the device                                                *)

Known == scanned \ suspect
IsLocal(row) == row # None /\ row.local

\* What a synchronisation with the server is about to write or to drop is
\* written, and not dropped, as an asset of the device where it is one.
RemoteKeepsLocal ==
  op.kind \in {"changes", "full", "push"} /\ op.step \in {"drop", "upsert"} =>
    \A c \in Known :
      /\ op.puts[c] # None => op.puts[c].local
      /\ op.step = "drop" => c \notin op.drops

\* A scan writes rows of the files it has found, and takes back only others.  The
\* files that it does not add have a row already.
DeviceScans ==
  op.kind = "device" =>
    \A c \in Checksums :
      /\ op.step = "scan" /\ op.puts[c] # None =>
           op.puts[c].local /\ (c \notin suspect => IsLocal(rows[c]))
      /\ op.step \in {"link", "upsert"} =>
           /\ c \in op.adds => c \in op.seen
           /\ c \notin op.seen /\ op.puts[c] # None => ~op.puts[c].local
           /\ c \in op.seen => c \notin op.drops
           /\ c \in op.seen /\ c \notin op.adds =>
                /\ op.puts[c] # None => op.puts[c].local
                /\ c \notin suspect => IsLocal(rows[c])
      /\ op.step = "upsert" /\ c \in op.adds => IsLocal(op.puts[c])
      /\ op.step = "prune" /\ c \in op.seen =>
           /\ c \notin op.drops
           /\ op.puts[c] # None => op.puts[c].local
           /\ c \notin suspect => IsLocal(rows[c])

LocalInv == TypeOK /\ DeviceAssetsKept /\ RemoteKeepsLocal /\ DeviceScans

-----------------------------------------------------------------------------
(* What the app knows and what it will be told                             *)

\* A stamp that was read: the server has a later one for what changed since.
Old(c, stamp) ==
  stamp <= clock /\ (server[c] # None => stamp <= server[c].stamp)

\* An asset that was read, and has not changed unless its stamp has.
Past(c, a) ==
  Old(c, a.stamp) /\ (server[c] # None /\ a.stamp = server[c].stamp => a = server[c])

Accurate(c, row) ==
  row.remote # None /\ server[c] # None /\ row.stamp = server[c].stamp =>
    row.remote = server[c].id /\ row.trashed = server[c].trashed

\* An id that no asset has, or ever will have again.
Removed(id) ==
  id[2] <= clock /\ \A c \in Checksums : server[c] # None => server[c].id # id

\* Who asks for what happened since a time is told of the end of an id.
Tracked(c, id, time) ==
  \/ server[c] # None /\ server[c].id = id
  \/ \E a \in audits : a.id = id /\ a.at > time
  \/ NeedsFullSync(time)

ShowsAsset(c, row) ==
  row # None /\ row.remote = server[c].id /\ row.trashed = server[c].trashed

\* A row is right, or what is wrong with it will be told to who asks for what
\* happened since a time.
Good(c, row, time) ==
  /\ server[c] # None => server[c].stamp >= time \/ ShowsAsset(c, row)
  /\ row # None /\ row.remote # None => Tracked(c, row.remote, time)

-----------------------------------------------------------------------------
(* The inductive invariant                                                 *)

Trusted == Checksums \ suspect

ServerFine ==
  \A c \in Checksums : server[c] # None =>
    server[c].id[1] = c /\ server[c].id[2] <= clock /\ server[c].stamp <= clock

QueuesFine ==
  /\ \A a \in audits : Removed(a.id)
  /\ \A a \in announced : Past(a.c, a.asset)
  /\ \A id \in gone : Removed(id)

RowsFine ==
  /\ \A c \in Checksums : rows[c] # None => Old(c, rows[c].stamp)
  /\ \A c \in Trusted : rows[c] # None => Accurate(c, rows[c])

TimesFine ==
  /\ etag # None => etag <= clock - Lag
  /\ op.kind = "changes" \/ (op.kind = "full" /\ op.step # "start") =>
       op.now <= clock - Lag /\ (etag # None => etag <= op.now)
  /\ op.kind = "changes" => suspect = Checksums \/ etag = op.since

\* The rows are right, or will be by what the next synchronisation asks for.
NothingOverlooked ==
  etag # None => \A c \in Trusted : Good(c, rows[c], etag)

\* An operation that has read and prepared nothing yet.
Blank(o) ==
  /\ o.skip = 0 /\ o.removals = {} /\ o.drops = {} /\ o.seen = {}
  /\ \A c \in Checksums : o.found[c] = None /\ o.puts[c] = None

\* What an operation has read of the server.
FoundFine ==
  \A c \in Checksums : op.found[c] # None =>
    /\ Past(c, op.found[c])
    /\ op.kind \in {"changes", "full"} =>
         /\ Tracked(c, op.found[c].id, op.now)
         /\ op.step \in {"unlink", "link", "load", "diff"} /\ rows[c] # None =>
              /\ rows[c].stamp <= op.found[c].stamp
              /\ c \in Trusted /\ rows[c].remote # None /\ rows[c].stamp = op.found[c].stamp =>
                   rows[c].remote = op.found[c].id

\* What a row will be once the operation has written.
Result(c) ==
  IF op.puts[c] # None THEN op.puts[c]
  ELSE IF op.step = "drop" /\ c \in op.drops THEN None
  ELSE rows[c]

PutsFine ==
  /\ \A c \in Checksums : op.puts[c] # None => Old(c, op.puts[c].stamp)
  /\ op.kind \in {"changes", "full"} /\ op.step \in {"drop", "upsert"} =>
       \A c \in Trusted :
         /\ Good(c, Result(c), op.now)
         /\ op.puts[c] # None => Accurate(c, op.puts[c])
  /\ op.kind = "push" /\ op.step = "upsert" =>
       \A c \in Checksums : op.puts[c] # None =>
         /\ op.found[c] # None
         /\ op.puts[c].remote = op.found[c].id
         /\ op.puts[c].trashed = op.found[c].trashed

\* What has changed since op.now is left to the next synchronisation; all else
\* was found, or for a partial one needs no change.
AssetsFound(c) ==
  server[c] # None =>
    \/ server[c].stamp >= op.now
    \/ op.found[c] = server[c]
    \/ op.kind = "changes" /\ op.found[c] = None /\ ShowsAsset(c, rows[c])

RemovalsFound(c) ==
  rows[c] # None /\ rows[c].remote # None =>
    rows[c].remote \in op.removals \/ Tracked(c, rows[c].remote, op.now)

ChangesFine ==
  op.kind = "changes" =>
    /\ op.step \in {"audits", "updates", "unlink", "link", "upsert", "etag"}
    /\ \A id \in op.removals : Removed(id)
    /\ op.step \in {"updates", "unlink"} => \A c \in Trusted : RemovalsFound(c)
    /\ op.step = "link" => \A c \in Trusted :
         rows[c] # None /\ rows[c].remote # None => Tracked(c, rows[c].remote, op.now)
    /\ op.step \in {"unlink", "link"} => \A c \in Trusted : AssetsFound(c)
    /\ op.step = "etag" => \A c \in Trusted : Good(c, rows[c], op.now)

FullFine ==
  op.kind = "full" =>
    /\ op.step \in {"start", "load", "diff", "drop", "upsert", "etag"}
    /\ op.step = "start" => Blank(op)
    /\ op.step = "load" => op.skip = 0 \/ op.skip >= Cardinality(Checksums)
    /\ op.step = "diff" \/ (op.step = "load" /\ op.skip # 0) =>
         \A c \in Checksums : AssetsFound(c)
    /\ op.step = "drop" => \A c \in op.drops : op.puts[c] = None
    /\ op.step = "etag" => \A c \in Trusted : Good(c, rows[c], op.now)

PushFine == op.kind = "push" => op.step \in {"link", "upsert"}

\* What a scan has read of the database was right when it did, which is as good.
DeviceFine ==
  op.kind = "device" =>
    /\ op.step \in {"scan", "link", "upsert", "prune"}
    /\ \A c \in Trusted :
         /\ op.puts[c] # None =>
              Accurate(c, op.puts[c]) /\ (etag # None => Good(c, op.puts[c], etag))
         /\ c \in op.drops /\ etag # None => Good(c, None, etag)

OpFine == FoundFine /\ PutsFine /\ ChangesFine /\ FullFine /\ PushFine /\ DeviceFine
AppFine == RowsFine /\ TimesFine /\ NothingOverlooked /\ OpFine

IInv == TypeOK /\ ServerFine /\ QueuesFine /\ AppFine

-----------------------------------------------------------------------------
(* Types                                                                   *)

LEMMA NoneIsApart == None \notin Id /\ None \notin Asset /\ None \notin Row /\ None \notin Int
  BY NoneIsNothingElse

LEMMA RowTypes ==
  ASSUME NEW row \in Row \cup {None}, NEW a \in Asset \cup {None}, NEW ids
  PROVE  /\ Linked(row, a) \in Row \cup {None}
         /\ Unlinked(row, ids) \in Row \cup {None}
<1>1. Linked(row, a) \in Row \cup {None}
  BY NoneIsApart DEF Linked, NewRow, UpdatedCopy, Later, Row, Asset
<1>2. Unlinked(row, ids) \in Row \cup {None}
  BY DEF Unlinked, Row
<1> QED
  BY <1>1, <1>2

LEMMA ServerTypes ==
  ASSUME TypeOK, NEW time \in Int
  PROVE  /\ DeletedAfter(time) \in SUBSET Id
         /\ UpdatedAfter(time) \in [Checksums -> Asset \cup {None}]
<1>1. DeletedAfter(time) \in SUBSET Id
  BY DEF TypeOK, DeletedAfter
<1>2. UpdatedAfter(time) \in [Checksums -> Asset \cup {None}]
  BY DEF TypeOK, UpdatedAfter
<1> QED
  BY <1>1, <1>2

LEMMA NoOpType == NoOp \in Operation
  BY DEF NoOp, Operation, Kinds, Steps

\* What may be written into a field of an operation.
LEMMA OperationUpdates ==
  ASSUME NEW o \in Operation
  PROVE  /\ \A k \in Kinds : [o EXCEPT !.kind = k] \in Operation
         /\ \A s \in Steps : [o EXCEPT !.step = s] \in Operation
         /\ \A t \in Int : [o EXCEPT !.since = t] \in Operation
         /\ \A t \in Int : [o EXCEPT !.now = t] \in Operation
         /\ \A n \in Nat : [o EXCEPT !.skip = n] \in Operation
         /\ \A ids \in SUBSET Id : [o EXCEPT !.removals = ids] \in Operation
         /\ \A cs \in SUBSET Checksums : [o EXCEPT !.drops = cs] \in Operation
         /\ \A cs \in SUBSET Checksums : [o EXCEPT !.seen = cs] \in Operation
         /\ \A cs \in SUBSET Checksums : [o EXCEPT !.adds = cs] \in Operation
         /\ \A f \in [Checksums -> Asset \cup {None}] : [o EXCEPT !.found = f] \in Operation
         /\ \A f \in [Checksums -> Row \cup {None}] : [o EXCEPT !.puts = f] \in Operation
  BY DEF Operation

LEMMA InitTypes == Init => TypeOK
<1> SUFFICES ASSUME Init PROVE TypeOK
  OBVIOUS
<1>1. server \in [Checksums -> Asset \cup {None}]
  BY DEF Init, Uploaded, Asset, Id
<1> QED
  BY <1>1, NoOpType DEF Init, TypeOK

LEMMA ServerKeepsTypes ==
  ASSUME TypeOK, ServerStep
  PROVE  TypeOK'
<1>1. CASE \E c \in Checksums : Upload(c)
  <2>1. PICK c \in Checksums : Upload(c)
    BY <1>1
  <2>2. Uploaded(c, clock + 1) \in Asset
    BY DEF TypeOK, Uploaded, Asset, Id
  <2> QED
    BY <2>1, <2>2 DEF Upload, Tick, AppUnchanged, TypeOK, queues, history
<1>2. CASE \E c \in Checksums : Change(c)
  <2>1. PICK c \in Checksums : Change(c)
    BY <1>2
  <2> DEFINE flipped == ~server[c].trashed
             moved == [server[c] EXCEPT !.stamp = clock + 1]
             a == [moved EXCEPT !.trashed = flipped]
  <2>2. server' = [server EXCEPT ![c] = a]
    BY <2>1 DEF Change
  <2>3. moved \in Asset /\ flipped \in BOOLEAN
    BY <2>1 DEF Change, TypeOK, Asset
  <2> HIDE DEF moved, flipped
  <2>4. a \in Asset
    BY <2>3 DEF Asset
  <2> HIDE DEF a
  <2> QED
    BY <2>1, <2>2, <2>4 DEF Change, Tick, AppUnchanged, TypeOK, queues, history
<1>3. CASE \E c \in Checksums : Delete(c)
  <2>1. PICK c \in Checksums : Delete(c)
    BY <1>3
  <2>2. server[c].id \in Id /\ clock + 1 \in Nat
    BY <2>1 DEF Delete, TypeOK, Asset
  <2> QED
    BY <2>1, <2>2 DEF Delete, Tick, AppUnchanged, TypeOK, history
<1>4. CASE \E c \in Checksums : Announce(c)
  BY <1>4 DEF Announce, Event, AppUnchanged, TypeOK, history, serverVars, Announcement
<1>5. CASE TimePasses \/ CleanUpAudits
  BY <1>5 DEF TimePasses, CleanUpAudits, Tick, AppUnchanged, TypeOK, history, queues
<1> QED
  BY <1>1, <1>2, <1>3, <1>4, <1>5 DEF ServerStep

LEMMA OutsideKeepsTypes ==
  ASSUME TypeOK, DeviceStep \/ ApplyGone \/ Clear
  PROVE  TypeOK'
<1>1. CASE DeviceStep
  BY <1>1 DEF DeviceStep, AddFile, RemoveFile, Event, AppUnchanged, TypeOK, serverVars,
              queues, history
<1>2. CASE ApplyGone
  BY <1>2, RowTypes DEF ApplyGone, TypeOK, serverVars, history
<1>3. CASE Clear
  BY <1>3 DEF Clear, Event, Outside, TypeOK, serverVars, queues
<1> QED
  BY <1>1, <1>2, <1>3

LEMMA RemoteKeepsTypes ==
  ASSUME TypeOK, \/ StartRemote \/ FetchAudits \/ FetchUpdates \/ FailRequest
                 \/ ApplyRemovals \/ FailRemovals \/ Link \/ StartFull \/ Load
                 \/ Diff \/ Drop \/ Upsert \/ FailUpsert \/ SetETag \/ StartPush
  PROVE  TypeOK'
<1> USE NoOpType, NumbersAreNumbers DEF TypeOK
<1> USE DEF Only, Outside, Event, serverVars, queues, history
<1>1. CASE StartRemote
  <2>1. clock - Lag \in Int /\ "full" \in Kinds /\ "changes" \in Kinds
        /\ "start" \in Steps /\ "audits" \in Steps
    BY DEF Kinds, Steps
  <2>2. op' \in Operation
    BY <1>1, <2>1, OperationUpdates DEF StartRemote
  <2> QED
    BY <1>1, <2>2 DEF StartRemote
<1>2. CASE FetchAudits
  BY <1>2, ServerTypes DEF FetchAudits, Operation, Kinds, Steps
<1>3. CASE FetchUpdates
  BY <1>3, ServerTypes DEF FetchUpdates, Operation, Steps
<1>4. CASE FailRequest
  BY <1>4 DEF FailRequest
<1>5. CASE ApplyRemovals
  <2>1. "etag" \in Steps /\ "link" \in Steps
    BY DEF Steps
  <2>2. op' \in Operation
    BY <1>5, <2>1, OperationUpdates DEF ApplyRemovals
  <2>3. rows' \in [Checksums -> Row \cup {None}]
    <3>1. \A c \in Checksums : Unlinked(rows[c], op.removals) \in Row \cup {None}
      BY RowTypes
    <3> QED
      BY <1>5, <3>1 DEF ApplyRemovals
  <2> QED
    BY <1>5, <2>2, <2>3 DEF ApplyRemovals
<1>6. CASE FailRemovals
  <2>1. "full" \in Kinds /\ "start" \in Steps
    BY DEF Kinds, Steps
  <2>2. op' \in Operation
    BY <1>6, <2>1, OperationUpdates DEF FailRemovals
  <2> QED
    BY <1>6, <2>2 DEF FailRemovals
<1>7. CASE Link
  <2>1. \A c \in Checksums : Linked(rows[c], op.found[c]) \in Row \cup {None}
    BY RowTypes DEF Operation
  <2> QED
    BY <1>7, <2>1 DEF Link, Operation, Steps
<1>8. CASE StartFull
  <2>1. clock - Lag \in Int /\ "load" \in Steps
    BY DEF Steps
  <2>2. op' \in Operation
    BY <1>8, <2>1, OperationUpdates DEF StartFull
  <2> QED
    BY <1>8, <2>2 DEF StartFull
<1>9. CASE Load
  <2> DEFINE page == Page(op.now, op.skip)
             found == [c \in Checksums |-> IF c \in page THEN server[c] ELSE op.found[c]]
             first == [op EXCEPT !.found = found]
             second == [first EXCEPT !.skip = op.skip + ChunkSize]
             step == IF Cardinality(page) < ChunkSize THEN "diff" ELSE "load"
  <2>1. found \in [Checksums -> Asset \cup {None}] /\ op.skip + ChunkSize \in Nat
        /\ step \in Steps
    BY DEF Operation, Steps
  <2>2. op' = [second EXCEPT !.step = step]
    BY <1>9 DEF Load, Operation
  <2> HIDE DEF found, step, page
  <2>3. op' \in Operation
    BY <2>1, <2>2, OperationUpdates
  <2> QED
    BY <1>9, <2>3 DEF Load
<1>10. CASE Diff
  <2>1. \A c \in Checksums : Linked(rows[c], op.found[c]) \in Row \cup {None}
    BY RowTypes DEF Operation
  <2>2. \A c \in Checksums : rows[c] # None => [rows[c] EXCEPT !.remote = None] \in Row
    BY DEF Row
  <2> QED
    BY <1>10, <2>1, <2>2 DEF Diff, Operation, Steps
<1>11. CASE Drop
  BY <1>11 DEF Drop, Dropped, Operation, Steps
<1>12. CASE Upsert
  BY <1>12 DEF Upsert, Written, Operation, Steps, Outdated
<1>13. CASE FailUpsert
  BY <1>13 DEF FailUpsert, Operation, Steps, Touched
<1>14. CASE SetETag
  BY <1>14 DEF SetETag, Operation
<1>15. CASE StartPush
  <2>1. PICK a \in announced :
          /\ announced' = announced \ {a}
          /\ op' = [NoOp EXCEPT !.kind = "push", !.step = "link",
                               !.found = [@ EXCEPT ![a.c] = a.asset]]
    BY <1>15 DEF StartPush
  <2> DEFINE found == [NoOp.found EXCEPT ![a.c] = a.asset]
  <2>2. found \in [Checksums -> Asset \cup {None}]
    BY DEF Announcement, NoOp
  <2>3. op' = [[[NoOp EXCEPT !.kind = "push"] EXCEPT !.step = "link"] EXCEPT !.found = found]
    BY <2>1 DEF NoOp
  <2>4. "push" \in Kinds /\ "link" \in Steps
    BY DEF Kinds, Steps
  <2> HIDE DEF found
  <2>5. op' \in Operation
    BY <2>2, <2>3, <2>4, OperationUpdates
  <2> QED
    BY <1>15, <2>1, <2>5 DEF StartPush
<1> QED
  BY <1>1, <1>2, <1>3, <1>4, <1>5, <1>6, <1>7, <1>8, <1>9, <1>10, <1>11, <1>12, <1>13,
     <1>14, <1>15

\* What a scan writes into the operation when it is to write the rows both again.
ScanChooses(both, puts, drops, adds) ==
  /\ op' = [[[[[op EXCEPT !.step = "link"] EXCEPT !.seen = device] EXCEPT !.adds = adds]
              EXCEPT !.drops = drops] EXCEPT !.puts = puts]
  /\ \A c \in Checksums :
       /\ c \in both => c \in device /\ op.puts[c] # None
       /\ c \in adds <=> c \in device /\ op.puts[c] = None
       /\ c \in drops <=> c \notin device /\ op.puts[c] # None /\ op.puts[c].remote = None
       /\ puts[c] =
            IF c \in both THEN op.puts[c]
            ELSE IF c \notin device /\ op.puts[c] # None /\ op.puts[c].remote # None
                 THEN [op.puts[c] EXCEPT !.local = FALSE] ELSE None

LEMMA ScanChoice ==
  ASSUME TypeOK, Scan
  PROVE  \E both \in SUBSET Checksums, puts \in [Checksums -> Row \cup {None}],
            drops \in SUBSET Checksums, adds \in SUBSET Checksums :
           ScanChooses(both, puts, drops, adds)
<1> DEFINE inDb == {c \in Checksums : op.puts[c] # None}
           left == inDb \ device
           adds == device \ inDb
           drops == {c \in left : op.puts[c].remote = None}
<1>1. PICK both \in SUBSET (inDb \cap device) :
        op' = [op EXCEPT !.step = "link", !.seen = device, !.adds = adds, !.drops = drops,
                         !.puts = [c \in Checksums |->
                           IF c \in both THEN op.puts[c]
                           ELSE IF c \in left /\ op.puts[c].remote # None
                                THEN [op.puts[c] EXCEPT !.local = FALSE] ELSE None]]
  BY DEF Scan
<1> DEFINE puts == [c \in Checksums |->
                      IF c \in both THEN op.puts[c]
                      ELSE IF c \in left /\ op.puts[c].remote # None
                           THEN [op.puts[c] EXCEPT !.local = FALSE] ELSE None]
<1>2. device \subseteq Checksums /\ op.puts \in [Checksums -> Row \cup {None}]
  BY DEF TypeOK, Operation
<1>3. puts \in [Checksums -> Row \cup {None}]
  BY <1>2 DEF Row
<1>4. adds \in SUBSET Checksums /\ drops \in SUBSET Checksums /\ both \in SUBSET Checksums
  BY <1>2
<1>5. \A c \in Checksums :
        /\ c \in both => c \in device /\ op.puts[c] # None
        /\ c \in adds <=> c \in device /\ op.puts[c] = None
        /\ c \in drops <=> c \notin device /\ op.puts[c] # None /\ op.puts[c].remote = None
        /\ puts[c] =
             IF c \in both THEN op.puts[c]
             ELSE IF c \notin device /\ op.puts[c] # None /\ op.puts[c].remote # None
                  THEN [op.puts[c] EXCEPT !.local = FALSE] ELSE None
  OBVIOUS
<1>6. op' = [[[[[op EXCEPT !.step = "link"] EXCEPT !.seen = device] EXCEPT !.adds = adds]
                EXCEPT !.drops = drops] EXCEPT !.puts = puts]
  BY <1>1
<1>7. ScanChooses(both, puts, drops, adds)
  BY <1>5, <1>6 DEF ScanChooses
<1> HIDE DEF adds, drops, puts
<1> QED
  BY <1>3, <1>4, <1>7

LEMMA DeviceKeepsTypes ==
  ASSUME TypeOK,
         StartDevice \/ Scan \/ LinkDevice \/ UpsertDevice \/ FailUpsertDevice \/ Prune
  PROVE  TypeOK'
<1> USE NoOpType DEF TypeOK, Only, Outside, serverVars, queues, history
<1>1. CASE StartDevice
  <2> DEFINE puts == [c \in Checksums |->
                 IF rows[c] # None /\ rows[c].local THEN rows[c] ELSE None]
  <2>1. puts \in [Checksums -> Row \cup {None}]
    OBVIOUS
  <2>2. op' = [[[NoOp EXCEPT !.kind = "device"] EXCEPT !.step = "scan"] EXCEPT !.puts = puts]
    BY <1>1 DEF StartDevice
  <2>3. "device" \in Kinds /\ "scan" \in Steps
    BY DEF Kinds, Steps
  <2> HIDE DEF puts
  <2>4. op' \in Operation
    BY <2>1, <2>2, <2>3, OperationUpdates
  <2> QED
    BY <1>1, <2>4 DEF StartDevice
<1>2. CASE Scan
  <2>1. PICK both \in SUBSET Checksums, puts \in [Checksums -> Row \cup {None}],
             drops \in SUBSET Checksums, adds \in SUBSET Checksums :
          op' = [[[[[op EXCEPT !.step = "link"] EXCEPT !.seen = device] EXCEPT !.adds = adds]
                    EXCEPT !.drops = drops] EXCEPT !.puts = puts]
    BY <1>2, ScanChoice DEF ScanChooses
  <2>2. op' \in Operation
    BY <2>1, OperationUpdates DEF Steps
  <2> QED
    BY <1>2, <2>2 DEF Scan
<1>3. CASE LinkDevice
  <2>1. [remote |-> None, local |-> TRUE, stamp |-> 0, trashed |-> FALSE] \in Row
    BY DEF Row
  <2>2. \A c \in Checksums : rows[c] # None => [rows[c] EXCEPT !.local = TRUE] \in Row
    BY DEF Row
  <2> QED
    BY <1>3, <2>1, <2>2 DEF LinkDevice, Operation, Steps
<1>4. CASE UpsertDevice
  BY <1>4 DEF UpsertDevice, Written, Operation, Steps
<1>5. CASE Prune
  BY <1>5 DEF Prune, Operation
<1>6. CASE FailUpsertDevice
  <2>1. op' = [[op EXCEPT !.step = "prune"] EXCEPT !.seen = op.seen \ op.adds]
    BY <1>6 DEF FailUpsertDevice, Operation
  <2>2. op.seen \ op.adds \in SUBSET Checksums
    BY DEF Operation
  <2>3. op' \in Operation
    BY <2>1, <2>2, OperationUpdates DEF Steps
  <2> QED
    BY <1>6, <2>3 DEF FailUpsertDevice, Event
<1> QED
  BY <1>1, <1>2, <1>3, <1>4, <1>5, <1>6

RemoteStep ==
  \/ StartRemote \/ FetchAudits \/ FetchUpdates \/ FailRequest \/ ApplyRemovals
  \/ FailRemovals \/ Link \/ StartFull \/ Load \/ Diff \/ Drop \/ Upsert
  \/ FailUpsert \/ SetETag \/ StartPush

ScanStep ==
  StartDevice \/ Scan \/ LinkDevice \/ UpsertDevice \/ FailUpsertDevice \/ Prune

LEMMA StepsOfTheApp ==
  Next => ServerStep \/ DeviceStep \/ ApplyGone \/ Clear \/ RemoteStep \/ ScanStep
  BY DEF Next, Proceed, Fail, RemoteStep, ScanStep

LEMMA StepsKeepTypes == TypeOK /\ [Next]_vars => TypeOK'
<1> SUFFICES ASSUME TypeOK, [Next]_vars PROVE TypeOK'
  OBVIOUS
<1>1. CASE UNCHANGED vars
  BY <1>1 DEF vars, serverVars, queues, history, TypeOK
<1>2. CASE Next
  <2>1. CASE RemoteStep
    BY <2>1, RemoteKeepsTypes DEF RemoteStep
  <2>2. CASE ScanStep
    BY <2>2, DeviceKeepsTypes DEF ScanStep
  <2> QED
    BY <1>2, <2>1, <2>2, StepsOfTheApp, ServerKeepsTypes, OutsideKeepsTypes
<1> QED
  BY <1>1, <1>2

\* Every variable keeps its type, whatever fails and whatever the clocks show.
THEOREM TypesAreKept == Spec => []TypeOK
  BY InitTypes, StepsKeepTypes, PTL DEF Spec

-----------------------------------------------------------------------------
(* What the steps write into the operation                                 *)

LEMMA NoOpIsBlank == NoOp.kind = "none" /\ NoOp.step = "start" /\ Blank(NoOp)
  BY DEF NoOp, Blank

\* Two operations that differ in what they have read of the server at most, or in
\* what they are to write.
SameReads(o, p) ==
  /\ o.kind = p.kind /\ o.since = p.since /\ o.now = p.now /\ o.skip = p.skip
  /\ o.removals = p.removals /\ o.found = p.found /\ o.seen = p.seen
SameWrites(o, p) ==
  /\ o.kind = p.kind /\ o.since = p.since /\ o.now = p.now /\ o.drops = p.drops
  /\ o.puts = p.puts /\ o.seen = p.seen

LEMMA StartRemoteWrites ==
  ASSUME StartRemote
  PROVE  /\ Blank(op')
         /\ \/ etag = None /\ op'.kind = "full" /\ op'.step = "start"
            \/ /\ etag # None
               /\ op'.kind = "changes" /\ op'.step = "audits"
               /\ op'.since = etag /\ op'.now = clock - Lag
<1>1. CASE etag = None
  BY <1>1 DEF StartRemote, NoOp, Blank
<1>2. CASE etag # None
  BY <1>2 DEF StartRemote, NoOp, Blank
<1> QED
  BY <1>1, <1>2

LEMMA FetchAuditsWrites ==
  ASSUME op \in Operation, FetchAudits
  PROVE  \/ /\ NeedsFullSync(op.since)
            /\ Blank(op') /\ op'.kind = "full" /\ op'.step = "start"
         \/ /\ ~NeedsFullSync(op.since)
            /\ op'.step = "updates" /\ op'.removals = DeletedAfter(op.since)
            /\ SameWrites(op', op) /\ op'.found = op.found /\ op'.skip = op.skip
<1>1. CASE NeedsFullSync(op.since)
  BY <1>1 DEF FetchAudits, NoOp, Blank
<1>2. CASE ~NeedsFullSync(op.since)
  BY <1>2 DEF FetchAudits, Operation, SameWrites
<1> QED
  BY <1>1, <1>2

LEMMA ReadsWrite ==
  ASSUME op \in Operation
  PROVE  /\ FetchUpdates =>
              /\ op'.step = "unlink" /\ op'.found = UpdatedAfter(op.since)
              /\ SameWrites(op', op) /\ op'.removals = op.removals /\ op'.skip = op.skip
         /\ StartFull =>
              /\ op'.kind = "full" /\ op'.step = "load" /\ op'.now = clock - Lag
              /\ op'.found = op.found /\ op'.puts = op.puts /\ op'.drops = op.drops
              /\ op'.skip = op.skip /\ op'.removals = op.removals
         /\ Load =>
              /\ op'.step = IF Cardinality(Page(op.now, op.skip)) < ChunkSize
                            THEN "diff" ELSE "load"
              /\ op'.skip = op.skip + ChunkSize
              /\ \A c \in Checksums :
                   op'.found[c] = IF c \in Page(op.now, op.skip) THEN server[c] ELSE op.found[c]
              /\ SameWrites(op', op) /\ op'.removals = op.removals
<1>1. CASE FetchUpdates
  BY <1>1 DEF FetchUpdates, StartFull, Load, At, Operation, SameWrites
<1>2. CASE StartFull
  BY <1>2 DEF FetchUpdates, StartFull, Load, At, Operation, SameWrites
<1>3. CASE Load
  BY <1>3 DEF FetchUpdates, StartFull, Load, At, Operation, SameWrites
<1> QED
  BY <1>1, <1>2, <1>3

LEMMA RemovalsWrite ==
  ASSUME op \in Operation, ApplyRemovals
  PROVE  \/ op' = NoOp
         \/ /\ op'.step = IF NothingFound THEN "etag" ELSE "link"
            /\ SameWrites(op', op) /\ SameReads(op', op)
<1>1. CASE NothingFound /\ op.removals = {}
  BY <1>1 DEF ApplyRemovals
<1>2. CASE ~(NothingFound /\ op.removals = {})
  <2>1. op' = [op EXCEPT !.step = IF NothingFound THEN "etag" ELSE "link"]
    BY <1>2 DEF ApplyRemovals
  <2> QED
    BY <2>1 DEF Operation, SameWrites, SameReads
<1> QED
  BY <1>1, <1>2

LEMMA LinkWrites ==
  ASSUME op \in Operation, Link
  PROVE  /\ op'.step = "upsert" /\ SameReads(op', op) /\ op'.drops = op.drops
         /\ \A c \in Checksums : op'.puts[c] = Linked(rows[c], op.found[c])
  BY DEF Link, Operation, SameReads

LEMMA DiffWrites ==
  ASSUME op \in Operation, Diff
  PROVE  /\ SameReads(op', op)
         /\ \A c \in Checksums :
              /\ c \in op'.drops <=> rows[c] # None /\ op.found[c] = None /\ ~rows[c].local
              /\ op'.puts[c] =
                   IF rows[c] = None \/ op.found[c] # None THEN Linked(rows[c], op.found[c])
                   ELSE IF rows[c].local /\ rows[c].remote # None
                        THEN [rows[c] EXCEPT !.remote = None]
                        ELSE None
         /\ \/ op'.step = "drop"
            \/ /\ op'.step = "etag" /\ op'.drops = {}
               /\ \A c \in Checksums : op'.puts[c] = None
<1> DEFINE unknown == {c \in Checksums : rows[c] # None /\ op.found[c] = None}
           puts == [c \in Checksums |->
                      IF c \notin unknown THEN Linked(rows[c], op.found[c])
                      ELSE IF rows[c].local /\ rows[c].remote # None
                           THEN [rows[c] EXCEPT !.remote = None]
                           ELSE None]
           drops == {c \in unknown : ~rows[c].local}
           step == IF drops = {} /\ puts = NoOp.puts THEN "etag" ELSE "drop"
<1>1. op' = [op EXCEPT !.step = step, !.puts = puts, !.drops = drops]
  BY DEF Diff
<1>2. \A c \in Checksums :
        puts[c] = IF rows[c] = None \/ op.found[c] # None THEN Linked(rows[c], op.found[c])
                  ELSE IF rows[c].local /\ rows[c].remote # None
                       THEN [rows[c] EXCEPT !.remote = None]
                       ELSE None
  OBVIOUS
<1>3. \A c \in Checksums :
        c \in drops <=> rows[c] # None /\ op.found[c] = None /\ ~rows[c].local
  OBVIOUS
<1>4. \/ step = "drop"
      \/ step = "etag" /\ drops = {} /\ \A c \in Checksums : puts[c] = None
  BY DEF NoOp
<1> HIDE DEF puts, drops, step
<1>5. op'.step = step /\ op'.puts = puts /\ op'.drops = drops /\ SameReads(op', op)
  BY <1>1 DEF Operation, SameReads
<1> QED
  BY <1>2, <1>3, <1>4, <1>5

LEMMA EndsWrite ==
  ASSUME op \in Operation
  PROVE  /\ Drop => op'.step = "upsert" /\ SameReads(op', op) /\ SameWrites(op', op)
         /\ Upsert \/ FailUpsert =>
              \/ op.kind = "push" /\ op' = NoOp
              \/ /\ op.kind # "push"
                 /\ op'.step = "etag" /\ SameReads(op', op) /\ SameWrites(op', op)
         /\ FailRemovals => Blank(op') /\ op'.kind = "full" /\ op'.step = "start"
<1>1. Drop => op'.step = "upsert" /\ SameReads(op', op) /\ SameWrites(op', op)
  BY DEF Drop, Operation, SameReads, SameWrites
<1>2. Upsert \/ FailUpsert =>
        \/ op.kind = "push" /\ op' = NoOp
        \/ /\ op.kind # "push"
           /\ op'.step = "etag" /\ SameReads(op', op) /\ SameWrites(op', op)
  <2>1. CASE op.kind = "push"
    BY <2>1 DEF Upsert, FailUpsert
  <2>2. CASE op.kind # "push"
    <3>1. Upsert \/ FailUpsert => op' = [op EXCEPT !.step = "etag"]
      BY <2>2 DEF Upsert, FailUpsert
    <3> QED
      BY <2>2, <3>1 DEF Operation, SameReads, SameWrites
  <2> QED
    BY <2>1, <2>2
<1>3. FailRemovals => Blank(op') /\ op'.kind = "full" /\ op'.step = "start"
  BY DEF FailRemovals, NoOp, Blank
<1> QED
  BY <1>1, <1>2, <1>3

LEMMA StartPushWrites ==
  ASSUME TypeOK, StartPush
  PROVE  /\ op'.kind = "push" /\ op'.step = "link" /\ op'.drops = {} /\ op'.removals = {}
         /\ \A c \in Checksums :
              /\ op'.puts[c] = None
              /\ op'.found[c] # None => \E a \in announced : a.c = c /\ op'.found[c] = a.asset
<1>1. PICK a \in announced :
        op' = [NoOp EXCEPT !.kind = "push", !.step = "link",
                           !.found = [NoOp.found EXCEPT ![a.c] = a.asset]]
  BY DEF StartPush
<1>2. a.c \in Checksums
  BY DEF TypeOK, Announcement
<1> DEFINE found == [NoOp.found EXCEPT ![a.c] = a.asset]
<1>3. \A c \in Checksums : found[c] # None => a.c = c /\ found[c] = a.asset
  BY <1>2 DEF NoOp
<1> HIDE DEF found
<1>4. /\ op'.kind = "push" /\ op'.step = "link" /\ op'.found = found /\ op'.drops = {}
      /\ op'.removals = {} /\ op'.puts = NoOp.puts
  BY <1>1 DEF NoOp, found
<1> QED
  BY <1>3, <1>4 DEF NoOp

LEMMA StartDeviceWrites ==
  ASSUME TypeOK, StartDevice
  PROVE  /\ op'.kind = "device" /\ op'.step = "scan" /\ op'.drops = {} /\ op'.removals = {}
         /\ \A c \in Checksums :
              /\ op'.found[c] = None
              /\ op'.puts[c] = IF IsLocal(rows[c]) THEN rows[c] ELSE None
  BY DEF StartDevice, NoOp, IsLocal

LEMMA ScanWrites ==
  ASSUME TypeOK, Scan
  PROVE  /\ op'.kind = "device" /\ op'.step = "link" /\ op'.seen = device
         /\ op'.found = op.found /\ op'.removals = op.removals
         /\ \A c \in Checksums :
              /\ c \in op'.adds <=> c \in device /\ op.puts[c] = None
              /\ c \in op'.drops <=>
                   c \notin device /\ op.puts[c] # None /\ op.puts[c].remote = None
              /\ \/ op'.puts[c] = None
                 \/ c \in device /\ op.puts[c] # None /\ op'.puts[c] = op.puts[c]
                 \/ /\ c \notin device /\ op.puts[c] # None
                    /\ op'.puts[c] = [op.puts[c] EXCEPT !.local = FALSE]
<1>1. op \in Operation /\ op.kind = "device"
  BY DEF Scan, At, TypeOK
<1>2. PICK both \in SUBSET Checksums, puts \in [Checksums -> Row \cup {None}],
           drops \in SUBSET Checksums, adds \in SUBSET Checksums :
        ScanChooses(both, puts, drops, adds)
  BY ScanChoice
<1>3. /\ op'.kind = "device" /\ op'.step = "link" /\ op'.seen = device /\ op'.adds = adds
      /\ op'.drops = drops /\ op'.puts = puts
      /\ op'.found = op.found /\ op'.removals = op.removals
  BY <1>1, <1>2 DEF Operation, ScanChooses
<1> QED
  BY <1>2, <1>3 DEF ScanChooses

FreshRow == [remote |-> None, local |-> TRUE, stamp |-> 0, trashed |-> FALSE]

LEMMA LinkDeviceWrites ==
  ASSUME op \in Operation, LinkDevice
  PROVE  /\ op'.kind = "device" /\ op'.step = "upsert" /\ op'.seen = op.seen
         /\ op'.adds = op.adds /\ op'.found = op.found
         /\ op'.removals = op.removals /\ op'.drops = op.drops
         /\ \A c \in Checksums :
              op'.puts[c] = IF c \notin op.adds THEN op.puts[c]
                            ELSE IF rows[c] = None THEN FreshRow
                                 ELSE [rows[c] EXCEPT !.local = TRUE]
<1>1. /\ op'.kind = "device" /\ op'.step = "upsert" /\ op'.seen = op.seen
      /\ op'.adds = op.adds /\ op'.found = op.found
      /\ op'.removals = op.removals /\ op'.drops = op.drops
  BY DEF LinkDevice, At, Operation
<1>2. \A c \in Checksums :
        op'.puts[c] = IF c \notin op.adds THEN op.puts[c]
                      ELSE IF rows[c] = None THEN FreshRow
                           ELSE [rows[c] EXCEPT !.local = TRUE]
  BY DEF LinkDevice, Operation, FreshRow
<1> QED
  BY <1>1, <1>2

LEMMA UpsertDeviceWrites ==
  ASSUME op \in Operation, UpsertDevice
  PROVE  op'.kind = "device" /\ op'.step = "prune" /\ SameReads(op', op) /\ SameWrites(op', op)
  BY DEF UpsertDevice, At, Operation, SameReads, SameWrites

LEMMA FailUpsertDeviceWrites ==
  ASSUME op \in Operation, FailUpsertDevice
  PROVE  /\ op'.kind = "device" /\ op'.step = "prune" /\ op'.seen = op.seen \ op.adds
         /\ op'.found = op.found /\ op'.drops = op.drops /\ op'.puts = op.puts
  BY DEF FailUpsertDevice, At, Operation

\* The rows after the steps that write them.
LEMMA RowsWritten ==
  ASSUME NEW c \in Checksums
  PROVE  /\ ApplyRemovals => rows'[c] = Unlinked(rows[c], op.removals)
         /\ ApplyGone => rows'[c] = Unlinked(rows[c], gone)
         /\ Drop => rows'[c] = IF c \in op.drops THEN None ELSE rows[c]
         /\ Upsert => rows'[c] = IF op.puts[c] # None THEN op.puts[c] ELSE rows[c]
         /\ UpsertDevice => rows'[c] = IF IsLocal(op.puts[c]) THEN op.puts[c] ELSE rows[c]
         /\ Prune => rows'[c] = IF c \in op.drops THEN None
                                ELSE IF op.puts[c] # None /\ ~op.puts[c].local THEN op.puts[c]
                                ELSE rows[c]
  BY DEF ApplyRemovals, ApplyGone, Drop, Dropped, Upsert, UpsertDevice, Written, Prune, IsLocal

-----------------------------------------------------------------------------
(* No asset of the device is lost                                          *)

LEMMA RowsStayLocal ==
  ASSUME NEW row \in Row \cup {None}, NEW a, NEW ids, IsLocal(row)
  PROVE  /\ Linked(row, a) # None => Linked(row, a).local
         /\ IsLocal(Unlinked(row, ids))
<1>1. Linked(row, a) # None => Linked(row, a).local
  BY DEF Linked, UpdatedCopy, IsLocal, Row
<1>2. IsLocal(Unlinked(row, ids))
  <2>1. row \in Row /\ [row EXCEPT !.remote = None, !.trashed = FALSE] \in Row
    BY DEF IsLocal, Row
  <2> QED
    BY <2>1, NoneIsApart DEF Unlinked, IsLocal, Row
<1> QED
  BY <1>1, <1>2

LEMMA OutsideKeepsLocal ==
  ASSUME LocalInv, ServerStep \/ DeviceStep \/ ApplyGone \/ Clear
  PROVE  (DeviceAssetsKept /\ RemoteKeepsLocal /\ DeviceScans)'
<1> USE DEF LocalInv, DeviceAssetsKept, RemoteKeepsLocal, DeviceScans, Known, IsLocal, history
<1>1. CASE ServerStep
  BY <1>1 DEF ServerStep, Upload, Change, Delete, Announce, TimePasses, CleanUpAudits,
              AppUnchanged
<1>2. CASE DeviceStep
  BY <1>2 DEF DeviceStep, AddFile, RemoveFile, AppUnchanged
<1>3. CASE ApplyGone
  <2>1. \A c \in Checksums : IsLocal(rows[c]) => IsLocal(rows'[c])
    BY <1>3, RowsStayLocal DEF ApplyGone, TypeOK
  <2> QED
    BY <1>3, <2>1 DEF ApplyGone, TypeOK
<1>4. CASE Clear
  BY <1>4 DEF Clear
<1> QED
  BY <1>1, <1>2, <1>3, <1>4

LEMMA RemoteKeepsDeviceAssets ==
  ASSUME LocalInv, RemoteStep
  PROVE  (DeviceAssetsKept /\ RemoteKeepsLocal /\ DeviceScans)'
<1> USE DEF LocalInv, DeviceAssetsKept, RemoteKeepsLocal, DeviceScans, Known, IsLocal,
            history, Only, TypeOK
<1>1. CASE StartRemote \/ FetchAudits \/ FetchUpdates \/ FailRequest \/ FailRemovals
           \/ StartFull \/ Load \/ SetETag \/ StartPush
  <2>1. rows' = rows /\ scanned' = scanned /\ suspect' = suspect
    BY <1>1 DEF StartRemote, FetchAudits, FetchUpdates, FailRequest, FailRemovals, StartFull,
                Load, SetETag, StartPush
  <2>2. op'.kind # "device" /\ op'.step \notin {"drop", "upsert"}
    <3>1. CASE StartRemote \/ FetchAudits \/ FetchUpdates
      BY <3>1, StartRemoteWrites, FetchAuditsWrites, ReadsWrite
         DEF FetchAudits, FetchUpdates, At, SameWrites
    <3>2. CASE FailRequest \/ FailRemovals \/ SetETag \/ StartPush
      BY <3>2, NoOpIsBlank, EndsWrite, StartPushWrites DEF FailRequest, SetETag
    <3>3. CASE StartFull \/ Load
      BY <3>3, ReadsWrite DEF Load, At, SameWrites
    <3> QED
      BY <1>1, <3>1, <3>2, <3>3
  <2> QED
    BY <2>1, <2>2
<1>2. CASE ApplyRemovals
  <2>1. \A c \in Checksums : IsLocal(rows[c]) => IsLocal(rows'[c])
    BY <1>2, RowsStayLocal DEF ApplyRemovals
  <2> QED
    BY <1>2, <2>1 DEF ApplyRemovals, NoOp, Operation, At
<1>3. CASE Link
  BY <1>3, RowsStayLocal DEF Link, Operation
<1>4. CASE Diff
  <2>1. \A c \in Known : op'.puts[c] # None => op'.puts[c].local
    <3> TAKE c \in Known
    <3>1. c \in Checksums /\ rows[c] \in Row /\ IsLocal(rows[c])
      BY DEF Operation
    <3>2. [rows[c] EXCEPT !.remote = None].local
      BY <3>1 DEF Row
    <3>3. Linked(rows[c], op.found[c]) # None => Linked(rows[c], op.found[c]).local
      BY <3>1, RowsStayLocal
    <3>4. op'.puts[c] \in {None, Linked(rows[c], op.found[c]), [rows[c] EXCEPT !.remote = None]}
      BY <1>4, <3>1, DiffWrites
    <3> QED
      BY <3>2, <3>3, <3>4
  <2>2. \A c \in Known : c \notin op'.drops
    BY <1>4 DEF Diff, Operation
  <2> QED
    BY <1>4, <2>1, <2>2 DEF Diff, Operation, At
<1>5. CASE Drop
  BY <1>5 DEF Drop, Dropped, Operation, At
<1>6. CASE Upsert
  BY <1>6 DEF Upsert, Written, Operation, NoOp
<1>7. CASE FailUpsert
  BY <1>7 DEF FailUpsert, Operation, NoOp
<1> QED
  BY <1>1, <1>2, <1>3, <1>4, <1>5, <1>6, <1>7 DEF RemoteStep

LEMMA ScansKeepDeviceAssets ==
  ASSUME LocalInv, ScanStep
  PROVE  (DeviceAssetsKept /\ RemoteKeepsLocal /\ DeviceScans)'
<1> USE NoneIsApart DEF LocalInv, DeviceAssetsKept, RemoteKeepsLocal, DeviceScans, Known,
                        IsLocal
<1>0. /\ op \in Operation /\ rows \in [Checksums -> Row \cup {None}]
      /\ \A c \in Checksums : op.puts[c] \in Row \cup {None}
  BY DEF TypeOK, Operation
<1>1. CASE StartDevice
  <2>1. rows' = rows /\ scanned' = scanned /\ suspect' = suspect
    BY <1>1 DEF StartDevice, Only, history
  <2> QED
    BY <1>1, <2>1, StartDeviceWrites
<1>2. CASE Scan
  <2>1. rows' = rows /\ scanned' = scanned /\ suspect' = suspect /\ At("device", "scan")
    BY <1>2 DEF Scan, Only, history
  <2>2. op'.kind = "device" /\ op'.step = "link" /\ op'.seen = device
    BY <1>2, ScanWrites
  <2>3. ASSUME NEW c \in Checksums
        PROVE  /\ c \in op'.adds => c \in op'.seen
               /\ c \notin op'.seen /\ op'.puts[c] # None => ~op'.puts[c].local
               /\ c \in op'.seen => c \notin op'.drops
               /\ c \in op'.seen /\ c \notin op'.adds =>
                    /\ op'.puts[c] # None => op'.puts[c].local
                    /\ c \notin suspect' => IsLocal(rows'[c])
    <3>1. op.puts[c] # None => /\ ~[op.puts[c] EXCEPT !.local = FALSE].local
                               /\ op.puts[c].local /\ (c \notin suspect => IsLocal(rows[c]))
      BY <1>0, <2>1 DEF At, Row
    <3> QED
      BY <1>2, <2>1, <2>2, <3>1, ScanWrites
  <2> QED
    BY <2>1, <2>2, <2>3
<1>3. CASE LinkDevice
  <2>1. FreshRow # None /\ FreshRow.local
    <3>1. FreshRow \in Row /\ FreshRow.local
      BY DEF Row, FreshRow
    <3> QED
      BY <3>1
  <2>2. \A c \in Checksums : rows[c] # None =>
          [rows[c] EXCEPT !.local = TRUE] # None /\ [rows[c] EXCEPT !.local = TRUE].local
    <3>1. \A c \in Checksums : rows[c] # None =>
            [rows[c] EXCEPT !.local = TRUE] \in Row /\ [rows[c] EXCEPT !.local = TRUE].local
      BY <1>0 DEF Row
    <3> QED
      BY <3>1
  <2>3. rows' = rows /\ scanned' = scanned /\ suspect' = suspect /\ At("device", "link")
    BY <1>3 DEF LinkDevice, Only, history
  <2>4. /\ op'.kind = "device" /\ op'.step = "upsert" /\ op'.drops = op.drops
        /\ op'.seen = op.seen /\ op'.adds = op.adds
    BY <1>0, <1>3, LinkDeviceWrites
  <2>5. ASSUME NEW c \in Checksums
        PROVE  /\ c \in op.adds => IsLocal(op'.puts[c])
               /\ c \notin op.adds => op'.puts[c] = op.puts[c]
    <3>1. op'.puts[c] = IF c \notin op.adds THEN op.puts[c]
                        ELSE IF rows[c] = None THEN FreshRow
                             ELSE [rows[c] EXCEPT !.local = TRUE]
      BY <1>0, <1>3, LinkDeviceWrites
    <3> QED
      BY <2>1, <2>2, <3>1
  <2> QED
    BY <2>3, <2>4, <2>5 DEF At
<1>4. CASE UpsertDevice
  <2>1. scanned' = scanned /\ suspect' = suspect /\ At("device", "upsert")
    BY <1>4 DEF UpsertDevice, history
  <2>2. /\ op'.kind = "device" /\ op'.step = "prune" /\ op'.drops = op.drops
        /\ op'.seen = op.seen /\ op'.puts = op.puts
    BY <1>0, <1>4, UpsertDeviceWrites DEF SameReads, SameWrites
  <2>3. \A c \in Checksums : rows'[c] = IF IsLocal(op.puts[c]) THEN op.puts[c] ELSE rows[c]
    BY <1>4, RowsWritten
  <2>4. scanned \subseteq Checksums
    BY DEF TypeOK
  <2> QED
    BY <2>1, <2>2, <2>3, <2>4 DEF At
<1>5. CASE FailUpsertDevice
  <2>1. /\ rows' = rows /\ scanned' = scanned /\ suspect' = suspect /\ At("device", "upsert")
    BY <1>5 DEF FailUpsertDevice, history
  <2> QED
    BY <1>0, <1>5, <2>1, FailUpsertDeviceWrites DEF At
<1>6. CASE Prune
  <2>1. op'.kind = "none" /\ scanned' = op.seen /\ suspect' = suspect /\ At("device", "prune")
    BY <1>6 DEF Prune, NoOp
  <2>2. \A c \in Checksums : rows'[c] = IF c \in op.drops THEN None
                                ELSE IF op.puts[c] # None /\ ~op.puts[c].local THEN op.puts[c]
                                ELSE rows[c]
    BY <1>6, RowsWritten
  <2>3. op.seen \subseteq Checksums
    BY <1>0 DEF Operation
  <2> QED
    BY <2>1, <2>2, <2>3 DEF At
<1> QED
  BY <1>1, <1>2, <1>3, <1>4, <1>5, <1>6 DEF ScanStep

\* No synchronisation with the server, no announcement and no scan takes the mark
\* of the device from an asset that the last scan has found and has a row for.
THEOREM AssetsOfTheDeviceAreKept == Spec => []DeviceAssetsKept
<1>1. Init => LocalInv
  BY InitTypes DEF Init, LocalInv, DeviceAssetsKept, RemoteKeepsLocal, DeviceScans, Known, NoOp
<1>2. LocalInv /\ [Next]_vars => LocalInv'
  <2> SUFFICES ASSUME LocalInv, [Next]_vars PROVE LocalInv'
    OBVIOUS
  <2>1. TypeOK'
    BY StepsKeepTypes DEF LocalInv
  <2>2. CASE UNCHANGED vars
    BY <2>1, <2>2 DEF vars, history, LocalInv, DeviceAssetsKept, RemoteKeepsLocal, DeviceScans,
                      Known, IsLocal
  <2>3. CASE Next
    BY <2>1, <2>3, StepsOfTheApp, OutsideKeepsLocal, RemoteKeepsDeviceAssets,
       ScansKeepDeviceAssets DEF LocalInv
  <2> QED
    BY <2>2, <2>3
<1>3. LocalInv => DeviceAssetsKept
  BY DEF LocalInv
<1> QED
  BY <1>1, <1>2, <1>3, PTL DEF Spec

-----------------------------------------------------------------------------
(* What is known of the server lasts                                       *)

\* All that any step does to the server: an asset that is removed is written down,
\* one that is new or changes is stamped with the next time, and what is struck off
\* the audit log is too old to be answered for.
MovesOn ==
  /\ clock' \in Nat /\ clock <= clock'
  /\ \A a \in audits : a \in audits' \/ a.at < clock' - Retention
  /\ \A c \in Checksums :
       \/ server'[c] = server[c]
       \/ /\ server[c] # None /\ server'[c] = None /\ clock' = clock + 1
          /\ [id |-> server[c].id, at |-> clock + 1] \in audits'
       \/ /\ server'[c] \in Asset /\ server'[c].stamp = clock + 1 /\ clock' = clock + 1
          /\ \/ server[c] # None /\ server'[c].id = server[c].id
             \/ server[c] = None /\ server'[c].id = <<c, clock + 1>>

LEMMA ServerMovesOn ==
  ASSUME TypeOK, [Next]_vars
  PROVE  MovesOn
<1> USE NumbersAreNumbers DEF TypeOK
<1>1. CASE UNCHANGED serverVars
  BY <1>1 DEF serverVars, MovesOn
<1>2. CASE \E c \in Checksums : Upload(c)
  <2>1. PICK c \in Checksums : Upload(c)
    BY <1>2
  <2>2. Uploaded(c, clock + 1) \in Asset
    BY DEF Uploaded, Asset, Id
  <2>3. Uploaded(c, clock + 1).stamp = clock + 1 /\ Uploaded(c, clock + 1).id = <<c, clock + 1>>
    BY DEF Uploaded
  <2> QED
    BY <2>1, <2>2, <2>3 DEF Upload, Tick, MovesOn
<1>3. CASE \E c \in Checksums : Change(c)
  <2>1. PICK c \in Checksums : Change(c)
    BY <1>3
  <2>2. server[c] \in Asset
    BY <2>1 DEF Change
  <2> DEFINE flipped == ~server[c].trashed
             moved == [server[c] EXCEPT !.stamp = clock + 1]
             a == [moved EXCEPT !.trashed = flipped]
  <2>3. server' = [server EXCEPT ![c] = a]
    BY <2>1 DEF Change
  <2>4. moved \in Asset /\ flipped \in BOOLEAN /\ moved.stamp = clock + 1
        /\ moved.id = server[c].id
    BY <2>2 DEF Asset
  <2> HIDE DEF moved, flipped
  <2>5. a \in Asset /\ a.stamp = clock + 1 /\ a.id = server[c].id
    BY <2>4 DEF Asset
  <2> HIDE DEF a
  <2> QED
    BY <2>1, <2>3, <2>5 DEF Change, Tick, MovesOn
<1>4. CASE \E c \in Checksums : Delete(c)
  BY <1>4 DEF Delete, Tick, MovesOn
<1>5. CASE \E c \in Checksums : Announce(c)
  BY <1>5 DEF Announce, serverVars, MovesOn
<1>6. CASE TimePasses
  BY <1>6 DEF TimePasses, Tick, MovesOn
<1>7. CASE CleanUpAudits
  BY <1>7 DEF CleanUpAudits, MovesOn
<1>8. CASE DeviceStep \/ ApplyGone \/ Clear \/ RemoteStep \/ ScanStep \/ UNCHANGED vars
  <2>1. UNCHANGED serverVars
    BY <1>8 DEF DeviceStep, AddFile, RemoveFile, ApplyGone, Clear, Outside, vars,
       RemoteStep, StartRemote, FetchAudits, FetchUpdates, FailRequest, ApplyRemovals,
       FailRemovals, Link, StartFull, Load, Diff, Drop, Upsert, FailUpsert, SetETag, StartPush,
       ScanStep, StartDevice, Scan, LinkDevice, UpsertDevice, FailUpsertDevice, Prune,
       Only
  <2> QED
    BY <1>1, <2>1
<1> QED
  BY <1>2, <1>3, <1>4, <1>5, <1>6, <1>7, <1>8, StepsOfTheApp DEF ServerStep

LEMMA ClockMovesOn ==
  ASSUME TypeOK, MovesOn
  PROVE  clock \in Nat /\ clock' \in Nat /\ clock <= clock' /\ Retention \in Nat
  BY NumbersAreNumbers DEF TypeOK, MovesOn

\* What becomes of one asset.
LEMMA AssetMovesOn ==
  ASSUME TypeOK, MovesOn, NEW c \in Checksums
  PROVE  /\ server[c] # None =>
              server[c] \in Asset /\ server[c].stamp \in Nat /\ server[c].id \in Id
         /\ server'[c] # None =>
              server'[c] = server[c] \/ (server'[c].stamp = clock + 1 /\ clock' = clock + 1)
         /\ server[c] # None /\ server'[c] # None => server'[c].id = server[c].id
         /\ server[c] = None /\ server'[c] # None => server'[c].id = <<c, clock + 1>>
         /\ server[c] # None /\ server'[c] = None =>
              [id |-> server[c].id, at |-> clock + 1] \in audits'
<1>1. server[c] # None =>
        server[c] \in Asset /\ server[c].stamp \in Nat /\ server[c].id \in Id
  BY DEF TypeOK, Asset
<1> QED
  BY <1>1, NoneIsApart DEF MovesOn

LEMMA OldLasts ==
  ASSUME TypeOK, MovesOn, NEW c \in Checksums
  PROVE  \A s \in Nat : Old(c, s) => Old(c, s)'
<1> SUFFICES ASSUME NEW s \in Nat, Old(c, s) PROVE Old(c, s)'
  OBVIOUS
<1>1. s <= clock'
  BY ClockMovesOn DEF Old
<1>2. server'[c] # None => s <= server'[c].stamp
  <2> SUFFICES ASSUME server'[c] # None PROVE s <= server'[c].stamp
    OBVIOUS
  <2>1. CASE server'[c] = server[c]
    BY <2>1 DEF Old
  <2>2. CASE server'[c].stamp = clock + 1
    BY <2>2, ClockMovesOn DEF Old
  <2> QED
    BY <2>1, <2>2, AssetMovesOn
<1> QED
  BY <1>1, <1>2 DEF Old

LEMMA PastLasts ==
  ASSUME TypeOK, MovesOn, NEW c \in Checksums
  PROVE  \A a \in Asset : Past(c, a) => Past(c, a)'
<1> SUFFICES ASSUME NEW a \in Asset, Past(c, a) PROVE Past(c, a)'
  OBVIOUS
<1>1. a.stamp \in Nat /\ Old(c, a.stamp)
  BY DEF Asset, Past
<1>2. Old(c, a.stamp)'
  BY <1>1, OldLasts
<1>3. server'[c] # None /\ a.stamp = server'[c].stamp => a = server'[c]
  <2>1. CASE server'[c] = server[c]
    BY <2>1 DEF Past
  <2>2. CASE server'[c].stamp = clock + 1
    BY <1>1, <2>2, ClockMovesOn DEF Old
  <2> QED
    BY <2>1, <2>2, AssetMovesOn
<1> QED
  BY <1>2, <1>3 DEF Past

LEMMA AccurateLasts ==
  ASSUME TypeOK, MovesOn, NEW c \in Checksums
  PROVE  \A row \in Row : row.stamp <= clock /\ Accurate(c, row) => Accurate(c, row)'
<1> SUFFICES ASSUME NEW row \in Row, row.stamp <= clock, Accurate(c, row), row.remote # None,
                    server'[c] # None, row.stamp = server'[c].stamp
             PROVE  row.remote = server'[c].id /\ row.trashed = server'[c].trashed
  BY DEF Accurate
<1>1. row.stamp \in Nat
  BY DEF Row
<1>2. CASE server'[c] = server[c]
  BY <1>2 DEF Accurate
<1>3. CASE server'[c].stamp = clock + 1
  BY <1>1, <1>3, ClockMovesOn
<1> QED
  BY <1>2, <1>3, AssetMovesOn

LEMMA RemovedLasts ==
  ASSUME TypeOK, MovesOn
  PROVE  \A id \in Id : Removed(id) => Removed(id)'
<1> SUFFICES ASSUME NEW id \in Id, Removed(id) PROVE Removed(id)'
  OBVIOUS
<1>1. id[2] \in Nat /\ id[2] <= clock
  BY DEF Id, Removed
<1>2. id[2] <= clock'
  BY <1>1, ClockMovesOn
<1>3. ASSUME NEW c \in Checksums, server'[c] # None PROVE server'[c].id # id
  <2>1. CASE server[c] # None
    BY <1>3, <2>1, AssetMovesOn DEF Removed
  <2>2. CASE server[c] = None
    <3>1. server'[c].id = <<c, clock + 1>>
      BY <1>3, <2>2, AssetMovesOn
    <3>2. id[2] # clock + 1
      BY <1>1, ClockMovesOn
    <3> QED
      BY <3>1, <3>2
  <2> QED
    BY <2>1, <2>2
<1> QED
  BY <1>2, <1>3 DEF Removed

LEMMA TrackedLasts ==
  ASSUME TypeOK, MovesOn, NEW c \in Checksums
  PROVE  \A id \in Id, time \in Int :
           time <= clock /\ Tracked(c, id, time) => Tracked(c, id, time)'
<1> SUFFICES ASSUME NEW id \in Id, NEW time \in Int, time <= clock, Tracked(c, id, time)
             PROVE  Tracked(c, id, time)'
  OBVIOUS
<1> USE NumbersAreNumbers DEF TypeOK
<1>1. CASE server[c] # None /\ server[c].id = id
  <2>1. CASE server'[c] = None
    <3>1. [id |-> id, at |-> clock + 1] \in audits'
      BY <1>1, <2>1, AssetMovesOn
    <3>2. [id |-> id, at |-> clock + 1].id = id /\ [id |-> id, at |-> clock + 1].at > time
      OBVIOUS
    <3> QED
      BY <3>1, <3>2 DEF Tracked
  <2>2. CASE server'[c] # None
    <3>1. server'[c].id = id
      BY <1>1, <2>2, AssetMovesOn
    <3> QED
      BY <2>2, <3>1 DEF Tracked
  <2> QED
    BY <2>1, <2>2
<1>2. CASE \E a \in audits : a.id = id /\ a.at > time
  <2>1. PICK a \in audits : a.id = id /\ a.at > time
    BY <1>2
  <2>2. CASE a \in audits'
    BY <2>1, <2>2 DEF Tracked
  <2>3. CASE a.at < clock' - Retention
    <3>1. clock' - time > Retention
      BY <2>1, <2>3, ClockMovesOn
    <3> QED
      BY <3>1 DEF Tracked, NeedsFullSync
  <2> QED
    BY <2>1, <2>2, <2>3 DEF MovesOn
<1>3. CASE NeedsFullSync(time)
  <2>1. clock' - time > Retention
    BY <1>3, ClockMovesOn DEF NeedsFullSync
  <2> QED
    BY <2>1 DEF Tracked, NeedsFullSync
<1> QED
  BY <1>1, <1>2, <1>3 DEF Tracked

LEMMA GoodLasts ==
  ASSUME TypeOK, MovesOn, NEW c \in Checksums
  PROVE  \A row \in Row \cup {None}, time \in Int :
           time <= clock /\ Good(c, row, time) => Good(c, row, time)'
<1> SUFFICES ASSUME NEW row \in Row \cup {None}, NEW time \in Int, time <= clock,
                    Good(c, row, time)
             PROVE  Good(c, row, time)'
  OBVIOUS
<1>1. server'[c] # None => server'[c].stamp >= time \/ ShowsAsset(c, row)'
  <2>1. CASE server'[c] = server[c]
    BY <2>1 DEF Good, ShowsAsset
  <2>2. CASE server'[c].stamp = clock + 1
    BY <2>2, ClockMovesOn
  <2> QED
    BY <2>1, <2>2, AssetMovesOn
<1>2. row # None /\ row.remote # None => Tracked(c, row.remote, time)'
  <2>1. row # None /\ row.remote # None => row.remote \in Id /\ Tracked(c, row.remote, time)
    BY DEF Good, Row
  <2> QED
    BY <2>1, TrackedLasts
<1> QED
  BY <1>1, <1>2 DEF Good

-----------------------------------------------------------------------------
(* While the app rests                                                     *)

LEMMA RowFields ==
  ASSUME NEW row \in Row
  PROVE  /\ row.stamp \in Nat /\ row.trashed \in BOOLEAN /\ row.local \in BOOLEAN
         /\ row.remote # None => row.remote \in Id
  BY DEF Row

LEMMA AssetFields ==
  ASSUME NEW a \in Asset
  PROVE  a.stamp \in Nat /\ a.trashed \in BOOLEAN /\ a.id \in Id
  BY DEF Asset

LEMMA Types ==
  ASSUME TypeOK
  PROVE  /\ clock \in Nat /\ op \in Operation /\ audits \subseteq [id: Id, at: Nat]
         /\ etag # None => etag \in Int
         /\ op.kind \in Kinds /\ op.step \in Steps /\ op.since \in Int /\ op.now \in Int
         /\ op.skip \in Nat /\ op.removals \subseteq Id /\ gone \subseteq Id
         /\ \A a \in announced : a.c \in Checksums /\ a.asset \in Asset
         /\ suspect \subseteq Checksums
         /\ \A c \in Checksums :
              /\ server[c] # None => server[c] \in Asset
              /\ rows[c] # None => rows[c] \in Row
              /\ op.found[c] # None => op.found[c] \in Asset
              /\ op.puts[c] # None => op.puts[c] \in Row
<1>1. op \in Operation
  BY DEF TypeOK
<1>2. /\ op.kind \in Kinds /\ op.step \in Steps /\ op.since \in Int /\ op.now \in Int
      /\ op.skip \in Nat /\ op.removals \subseteq Id
      /\ \A c \in Checksums :
           /\ op.found[c] # None => op.found[c] \in Asset
           /\ op.puts[c] # None => op.puts[c] \in Row
  BY <1>1 DEF Operation
<1>3. \A a \in announced : a.c \in Checksums /\ a.asset \in Asset
  BY DEF TypeOK, Announcement
<1> QED
  BY <1>1, <1>2, <1>3 DEF TypeOK

LEMMA ServerStaysFine ==
  ASSUME TypeOK, MovesOn, ServerFine
  PROVE  ServerFine'
<1> SUFFICES ASSUME NEW c \in Checksums, server'[c] # None
             PROVE  server'[c].id[1] = c /\ server'[c].id[2] <= clock' /\ server'[c].stamp <= clock'
  BY DEF ServerFine
<1>1. server'[c].stamp <= clock'
  <2>1. CASE server'[c] = server[c]
    <3>1. server[c].stamp \in Nat /\ server[c].stamp <= clock
      BY <2>1, AssetMovesOn DEF ServerFine
    <3> QED
      BY <2>1, <3>1, ClockMovesOn
  <2>2. CASE server'[c].stamp = clock + 1 /\ clock' = clock + 1
    BY <2>2, ClockMovesOn
  <2> QED
    BY <2>1, <2>2, AssetMovesOn
<1>2. server'[c].id[1] = c /\ server'[c].id[2] <= clock'
  <2>1. CASE server[c] # None
    <3>1. server'[c].id = server[c].id /\ server[c].id[2] \in Nat
      BY <2>1, AssetMovesOn DEF Id
    <3> QED
      BY <2>1, <3>1, ClockMovesOn DEF ServerFine
  <2>2. CASE server[c] = None
    <3>1. server'[c].id = <<c, clock + 1>> /\ clock' = clock + 1
      BY <2>2, AssetMovesOn
    <3> QED
      BY <3>1, ClockMovesOn
  <2> QED
    BY <2>1, <2>2
<1> QED
  BY <1>1, <1>2

LEMMA RowsStayFine ==
  ASSUME TypeOK, MovesOn, RowsFine, UNCHANGED <<rows, suspect>>
  PROVE  RowsFine'
<1>1. ASSUME NEW c \in Checksums, rows[c] # None PROVE Old(c, rows[c].stamp)'
  BY <1>1, Types, RowFields, OldLasts DEF RowsFine
<1>2. ASSUME NEW c \in Trusted, rows[c] # None PROVE Accurate(c, rows[c])'
  BY <1>2, Types, RowFields, AccurateLasts DEF RowsFine, Trusted, Old
<1> QED
  BY <1>1, <1>2 DEF RowsFine, Trusted

LEMMA TimesArePast ==
  ASSUME ClockIsNotAhead, TypeOK, TimesFine
  PROVE  /\ etag # None => etag \in Int /\ etag <= clock
         /\ op.kind = "changes" \/ (op.kind = "full" /\ op.step # "start") =>
              /\ op.now \in Int /\ op.now <= clock
              /\ etag # None => etag <= op.now
<1>1. clock \in Nat /\ Lag \in Int /\ Lag >= 0 /\ clock - Lag <= clock /\ clock - Lag \in Int
  BY Types, NumbersAreNumbers DEF ClockIsNotAhead
<1>2. etag # None => etag \in Int /\ etag <= clock
  BY <1>1, Types DEF TimesFine
<1>3. op.kind = "changes" \/ (op.kind = "full" /\ op.step # "start") =>
        /\ op.now \in Int /\ op.now <= clock
        /\ etag # None => etag <= op.now
  BY <1>1, Types DEF TimesFine
<1> QED
  BY <1>2, <1>3

\* Some asset was not found because the server has stamped it since.
LEMMA FoundLasts ==
  ASSUME TypeOK, MovesOn, NEW c \in Checksums, op.now <= clock, UNCHANGED <<rows, op>>,
         AssetsFound(c)
  PROVE  AssetsFound(c)'
<1>1. CASE server'[c] = server[c]
  BY <1>1 DEF AssetsFound, ShowsAsset
<1>2. CASE server'[c].stamp = clock + 1
  <2>1. server'[c].stamp >= op.now
    BY <1>2, ClockMovesOn, Types
  <2> QED
    BY <2>1 DEF AssetsFound
<1>3. CASE server'[c] = None
  BY <1>3 DEF AssetsFound
<1> QED
  BY <1>1, <1>2, <1>3, AssetMovesOn

LEMMA ResultTypes ==
  ASSUME TypeOK, NEW c \in Checksums
  PROVE  Result(c) \in Row \cup {None}
  BY Types DEF Result

LEMMA RestKeeps ==
  ASSUME ClockIsNotAhead, IInv, MovesOn, UNCHANGED <<rows, etag, op, suspect>>
  PROVE  AppFine'
<1>0. TypeOK /\ ServerFine /\ QueuesFine /\ RowsFine /\ TimesFine /\ NothingOverlooked
      /\ FoundFine /\ PutsFine /\ ChangesFine /\ FullFine /\ PushFine /\ DeviceFine
  BY DEF IInv, AppFine, OpFine
<1> USE <1>0
<1>1. RowsFine'
  BY RowsStayFine
<1>2. TimesFine'
  <2>1. \A time \in Int : time <= clock - Lag => time <= clock' - Lag
    BY ClockMovesOn, NumbersAreNumbers
  <2> QED
    BY <2>1, Types DEF TimesFine
<1>3. NothingOverlooked'
  <2> SUFFICES ASSUME etag # None, NEW c \in Trusted PROVE Good(c, rows[c], etag)'
    BY DEF NothingOverlooked, Trusted
  <2>1. Good(c, rows[c], etag) /\ rows[c] \in Row \cup {None} /\ etag \in Int /\ etag <= clock
    BY Types, TimesArePast DEF NothingOverlooked, Trusted
  <2> QED
    BY <2>1, GoodLasts DEF Trusted
<1>4. FoundFine'
  <2>1. ASSUME NEW c \in Checksums, op.found[c] # None PROVE Past(c, op.found[c])'
    BY <2>1, Types, PastLasts DEF FoundFine
  <2>2. ASSUME NEW c \in Checksums, op.found[c] # None, op.kind \in {"changes", "full"}
        PROVE  Tracked(c, op.found[c].id, op.now)'
    <3>1. op.kind = "changes" \/ (op.kind = "full" /\ op.step # "start")
      BY <2>2 DEF FullFine, Blank
    <3>2. op.found[c].id \in Id /\ op.now \in Int /\ op.now <= clock
      BY <2>2, <3>1, Types, AssetFields, TimesArePast
    <3> QED
      BY <2>2, <3>2, TrackedLasts DEF FoundFine
  <2> QED
    BY <2>1, <2>2 DEF FoundFine, Trusted
<1>5. PutsFine'
  <2>1. ASSUME NEW c \in Checksums, op.puts[c] # None PROVE Old(c, op.puts[c].stamp)'
    BY <2>1, Types, RowFields, OldLasts DEF PutsFine
  <2>2. ASSUME NEW c \in Trusted, op.kind \in {"changes", "full"}, op.step \in {"drop", "upsert"}
        PROVE  /\ Good(c, Result(c), op.now)'
               /\ op.puts[c] # None => Accurate(c, op.puts[c])'
    <3>1. c \in Checksums /\ op.now \in Int /\ op.now <= clock
      BY <2>2, TimesArePast DEF Trusted
    <3>2. Result(c)' = Result(c)
      BY DEF Result
    <3>3. Good(c, Result(c), op.now)'
      BY <2>2, <3>1, <3>2, ResultTypes, GoodLasts DEF PutsFine
    <3>4. op.puts[c] # None => Accurate(c, op.puts[c])'
      BY <2>2, <3>1, Types, RowFields, AccurateLasts DEF PutsFine, Old
    <3> QED
      BY <3>3, <3>4
  <2> QED
    BY <2>1, <2>2 DEF PutsFine, Trusted
<1>6. ChangesFine'
  <2> SUFFICES ASSUME op.kind = "changes" PROVE ChangesFine'
    BY DEF ChangesFine
  <2>1. op.now \in Int /\ op.now <= clock
    BY TimesArePast
  <2>2. \A id \in op.removals : Removed(id)'
    BY Types, RemovedLasts DEF ChangesFine
  <2>3. ASSUME NEW c \in Trusted PROVE AssetsFound(c) => AssetsFound(c)'
    BY <2>1, FoundLasts DEF Trusted
  <2>4. ASSUME NEW c \in Trusted, rows[c] # None, rows[c].remote # None
        PROVE  Tracked(c, rows[c].remote, op.now) => Tracked(c, rows[c].remote, op.now)'
    BY <2>1, <2>4, Types, RowFields, TrackedLasts DEF Trusted
  <2>5. ASSUME NEW c \in Trusted PROVE RemovalsFound(c) => RemovalsFound(c)'
    BY <2>4 DEF RemovalsFound
  <2>6. ASSUME NEW c \in Trusted PROVE Good(c, rows[c], op.now) => Good(c, rows[c], op.now)'
    BY <2>1, Types, GoodLasts DEF Trusted
  <2> QED
    BY <2>2, <2>3, <2>4, <2>5, <2>6 DEF ChangesFine, Trusted
<1>7. FullFine'
  <2> SUFFICES ASSUME op.kind = "full" PROVE FullFine'
    BY DEF FullFine
  <2>1. op.step # "start" => op.now \in Int /\ op.now <= clock
    BY TimesArePast
  <2>2. ASSUME NEW c \in Checksums, op.step # "start" PROVE AssetsFound(c) => AssetsFound(c)'
    BY <2>1, <2>2, FoundLasts
  <2>3. ASSUME NEW c \in Trusted, op.step # "start"
        PROVE  Good(c, rows[c], op.now) => Good(c, rows[c], op.now)'
    BY <2>1, <2>3, Types, GoodLasts DEF Trusted
  <2> QED
    BY <2>2, <2>3 DEF FullFine, Trusted, Blank
<1>8. PushFine'
  BY DEF PushFine
<1>9. DeviceFine'
  <2> SUFFICES ASSUME op.kind = "device" PROVE DeviceFine'
    BY DEF DeviceFine
  <2>1. ASSUME NEW c \in Trusted, op.puts[c] # None
        PROVE  Accurate(c, op.puts[c])' /\ (etag # None => Good(c, op.puts[c], etag)')
    <3>1. c \in Checksums /\ op.puts[c] \in Row /\ op.puts[c].stamp <= clock
      BY <2>1, Types DEF Trusted, PutsFine, Old
    <3> QED
      BY <2>1, <3>1, AccurateLasts, GoodLasts, TimesArePast DEF DeviceFine
  <2>2. ASSUME NEW c \in Trusted, c \in op.drops, etag # None PROVE Good(c, None, etag)'
    BY <2>2, GoodLasts, TimesArePast DEF DeviceFine, Trusted
  <2> QED
    BY <2>1, <2>2 DEF DeviceFine, Trusted
<1> QED
  BY <1>1, <1>2, <1>3, <1>4, <1>5, <1>6, <1>7, <1>8, <1>9 DEF AppFine, OpFine

-----------------------------------------------------------------------------
(* What is queued                                                          *)

LEMMA DeletedIsRemoved ==
  ASSUME TypeOK, ServerFine, NEW c \in Checksums, Delete(c), NEW id, id = server[c].id
  PROVE  Removed(id)'
<1>1. id[1] = c /\ id[2] \in Nat /\ id[2] <= clock
  BY Types, AssetFields DEF Delete, ServerFine, Id
<1>2. clock' = clock + 1 /\ clock \in Nat
  BY Types DEF Delete, Tick
<1>3. ASSUME NEW d \in Checksums, server'[d] # None PROVE server'[d].id # id
  <2>1. d # c /\ server'[d] = server[d]
    BY <1>3 DEF Delete, TypeOK
  <2> QED
    BY <1>1, <1>3, <2>1 DEF ServerFine
<1> QED
  BY <1>1, <1>2, <1>3 DEF Removed

LEMMA QueuesStayFine ==
  ASSUME TypeOK, ServerFine, QueuesFine, [Next]_vars
  PROVE  QueuesFine'
<1>0. MovesOn
  BY ServerMovesOn
<1>1. ASSUME NEW a \in audits PROVE Removed(a.id)'
  <2>1. a.id \in Id
    BY Types
  <2> QED
    BY <1>0, <2>1, RemovedLasts DEF QueuesFine
<1>2. ASSUME NEW a \in announced PROVE Past(a.c, a.asset)'
  BY <1>0, Types, PastLasts DEF QueuesFine
<1>3. ASSUME NEW id \in gone PROVE Removed(id)'
  BY <1>0, Types, RemovedLasts DEF QueuesFine
<1>4. CASE audits' \subseteq audits /\ announced' \subseteq announced /\ gone' \subseteq gone
  BY <1>1, <1>2, <1>3, <1>4 DEF QueuesFine
<1>5. CASE \E c \in Checksums : Delete(c)
  <2>1. PICK c \in Checksums : Delete(c)
    BY <1>5
  <2>2. \A id : id = server[c].id => Removed(id)'
    BY <2>1, DeletedIsRemoved
  <2>3. /\ audits' = audits \cup {[id |-> server[c].id, at |-> clock + 1]}
        /\ announced' = announced /\ gone' \subseteq gone \cup {server[c].id}
    BY <2>1 DEF Delete
  <2> QED
    BY <1>1, <1>2, <1>3, <2>2, <2>3 DEF QueuesFine
<1>6. CASE \E c \in Checksums : Announce(c)
  <2>1. PICK c \in Checksums : Announce(c)
    BY <1>6
  <2>2. Past(c, server[c])'
    <3>1. server' = server /\ clock' = clock /\ server[c] # None
      BY <2>1 DEF Announce, serverVars
    <3>2. server[c].stamp <= clock /\ server[c].stamp \in Nat
      BY <3>1, Types, AssetFields DEF ServerFine
    <3> QED
      BY <3>1, <3>2 DEF Past, Old
  <2>3. /\ audits' = audits /\ gone' = gone
        /\ announced' = announced \cup {[c |-> c, asset |-> server[c]]} /\ server' = server
    BY <2>1 DEF Announce, serverVars
  <2>4. ASSUME NEW a \in announced' PROVE Past(a.c, a.asset)'
    <3>1. CASE a \in announced
      BY <1>2, <3>1
    <3>2. CASE a = [c |-> c, asset |-> server[c]]
      BY <2>2, <2>3, <3>2
    <3> QED
      BY <2>3, <3>1, <3>2
  <2> QED
    BY <1>1, <1>3, <2>3, <2>4 DEF QueuesFine
<1>7. CASE \/ \E c \in Checksums : Upload(c) \/ Change(c)
           \/ TimePasses \/ CleanUpAudits
  <2>1. audits' \subseteq audits /\ announced' = announced /\ gone' = gone
    BY <1>7 DEF Upload, Change, TimePasses, CleanUpAudits, queues
  <2> QED
    BY <1>4, <2>1
<1>8. CASE DeviceStep \/ ApplyGone \/ Clear \/ RemoteStep \/ ScanStep \/ UNCHANGED vars
  <2>1. audits' = audits /\ announced' \subseteq announced /\ gone' \subseteq gone
    BY <1>8 DEF DeviceStep, AddFile, RemoveFile, ApplyGone, Clear, Outside, vars, serverVars,
       queues, RemoteStep, StartRemote, FetchAudits, FetchUpdates, FailRequest, ApplyRemovals,
       FailRemovals, Link, StartFull, Load, Diff, Drop, Upsert, FailUpsert, SetETag, StartPush,
       ScanStep, StartDevice, Scan, LinkDevice, UpsertDevice, FailUpsertDevice, Prune,
       Only
  <2> QED
    BY <1>4, <2>1
<1> QED
  BY <1>5, <1>6, <1>7, <1>8, StepsOfTheApp DEF ServerStep

-----------------------------------------------------------------------------
(* What is written of the server                                           *)

\* A step of the app changes nothing of what the server knows.
LEMMA SameKnowledge ==
  ASSUME UNCHANGED serverVars
  PROVE  /\ clock' = clock
         /\ \A id : Removed(id) => Removed(id)'
         /\ \A c, s : Old(c, s) => Old(c, s)'
         /\ \A c, a : Past(c, a) => Past(c, a)'
         /\ \A c, row : Accurate(c, row) => Accurate(c, row)'
         /\ \A c, id, time : Tracked(c, id, time) => Tracked(c, id, time)'
         /\ \A c, row, time : Good(c, row, time) => Good(c, row, time)'
<1>1. clock' = clock /\ server' = server /\ audits' = audits
  BY DEF serverVars
<1>2. \A c, s : Old(c, s) => Old(c, s)'
  BY <1>1 DEF Old
<1>3. \A c, a : Past(c, a) => Past(c, a)'
  BY <1>1, <1>2 DEF Past
<1>4. \A c, id, time : Tracked(c, id, time) => Tracked(c, id, time)'
  BY <1>1 DEF Tracked, NeedsFullSync
<1>5. \A c, row, time : Good(c, row, time) => Good(c, row, time)'
  BY <1>1, <1>4 DEF Good, ShowsAsset
<1>6. \A c, row : Accurate(c, row) => Accurate(c, row)'
  BY <1>1 DEF Accurate
<1>7. \A id : Removed(id) => Removed(id)'
  BY <1>1 DEF Removed
<1> QED
  BY <1>1, <1>2, <1>3, <1>4, <1>5, <1>6, <1>7

\* What is good for a time is good for an earlier one.
LEMMA GoodEarlier ==
  ASSUME TypeOK, NEW c \in Checksums, NEW row, NEW late \in Int, NEW early \in Int,
         early <= late, Good(c, row, late)
  PROVE  Good(c, row, early)
<1>1. server[c] # None => server[c].stamp \in Nat
  BY Types, AssetFields
<1>2. server[c] # None => server[c].stamp >= early \/ ShowsAsset(c, row)
  BY <1>1 DEF Good
<1>3. ASSUME NEW id, Tracked(c, id, late) PROVE Tracked(c, id, early)
  <2>1. \A a \in audits : a.at \in Nat
    BY Types
  <2>2. NeedsFullSync(late) => NeedsFullSync(early)
    BY Types, NumbersAreNumbers DEF NeedsFullSync
  <2> QED
    BY <1>3, <2>1, <2>2 DEF Tracked
<1> QED
  BY <1>2, <1>3 DEF Good

\* Taking away ids of removed assets takes away nothing that is right.
LEMMA UnlinkedKeeps ==
  ASSUME NEW c \in Checksums, NEW row \in Row \cup {None}, NEW ids,
         \A id \in ids : Removed(id)
  PROVE  LET new == Unlinked(row, ids) IN
         /\ new # None => row # None /\ new.stamp = row.stamp
         /\ new # None /\ new.remote # None => new = row /\ row.remote \notin ids
         /\ server[c] # None /\ ShowsAsset(c, row) => new = row
         /\ \A time : Good(c, row, time) => Good(c, new, time)
         /\ row # None /\ Accurate(c, row) /\ new # None => Accurate(c, new)
<1> DEFINE new == Unlinked(row, ids)
<1>1. /\ new # None => row # None /\ new.stamp = row.stamp
      /\ new # None /\ new.remote # None => new = row /\ row.remote \notin ids
  BY DEF Unlinked, Row
<1>2. server[c] # None /\ ShowsAsset(c, row) => new = row
  BY DEF Unlinked, ShowsAsset, Removed
<1> HIDE DEF new
<1>3. \A time : Good(c, row, time) => Good(c, new, time)
  BY <1>1, <1>2 DEF Good
<1>4. row # None /\ Accurate(c, row) /\ new # None => Accurate(c, new)
  BY <1>1 DEF Accurate
<1> QED
  BY <1>1, <1>2, <1>3, <1>4 DEF new

LEMMA LinkedWrites ==
  ASSUME NEW row \in Row \cup {None}, NEW a \in Asset
  PROVE  LET put == Linked(row, a) IN
         /\ put # None =>
              /\ put.remote = a.id /\ put.trashed = a.trashed
              /\ put.stamp = a.stamp \/ (row # None /\ put.stamp = row.stamp)
              /\ row # None /\ row.stamp <= a.stamp => put.stamp = a.stamp
              /\ row = None => put.stamp = a.stamp
         /\ put = None =>
              row # None /\ row.remote # None /\ row.trashed = a.trashed /\ a.stamp <= row.stamp
<1>1. a # None /\ a.stamp \in Nat
  BY NoneIsApart, AssetFields
<1>2. CASE row = None
  <2>1. Linked(row, a) = NewRow(a)
    BY <1>1, <1>2 DEF Linked
  <2>2. NewRow(a) \in Row
    BY DEF NewRow, Row, Asset
  <2>3. NewRow(a).remote = a.id /\ NewRow(a).trashed = a.trashed /\ NewRow(a).stamp = a.stamp
    BY DEF NewRow
  <2> QED
    BY <1>2, <2>1, <2>2, <2>3, NoneIsApart
<1>3. CASE row # None /\ CanUpdate(row, a)
  <2>1. Linked(row, a) = UpdatedCopy(row, a)
    BY <1>1, <1>3 DEF Linked
  <2>2. UpdatedCopy(row, a) \in Row
    BY <1>3 DEF UpdatedCopy, Later, Row, Asset
  <2>3. row \in Row /\ row.stamp \in Nat
    BY <1>3, RowFields
  <2>4. /\ UpdatedCopy(row, a).remote = a.id /\ UpdatedCopy(row, a).trashed = a.trashed
        /\ UpdatedCopy(row, a).stamp = Later(a.stamp, row.stamp)
    BY <2>3 DEF UpdatedCopy, Row
  <2>5. /\ Later(a.stamp, row.stamp) = a.stamp \/ Later(a.stamp, row.stamp) = row.stamp
        /\ row.stamp <= a.stamp => Later(a.stamp, row.stamp) = a.stamp
    BY <1>1, <2>3 DEF Later
  <2> QED
    BY <1>3, <2>1, <2>2, <2>4, <2>5, NoneIsApart
<1>4. CASE row # None /\ ~CanUpdate(row, a)
  <2>1. Linked(row, a) = None
    BY <1>1, <1>4 DEF Linked
  <2>2. row.stamp \in Nat
    BY <1>4, RowFields
  <2> QED
    BY <1>1, <1>4, <2>1, <2>2 DEF CanUpdate
<1> QED
  BY <1>2, <1>3, <1>4

\* What is written of an asset that was read, or left alone because of it, is right
\* unless it has changed since.
LEMMA LinkedIsGood ==
  ASSUME TypeOK, NEW c \in Checksums, NEW row \in Row \cup {None}, NEW a \in Asset,
         NEW time \in Int, Past(c, a), Tracked(c, a.id, time),
         server[c] # None => server[c].stamp >= time \/ a = server[c],
         row # None =>
           /\ row.stamp <= a.stamp /\ Accurate(c, row)
           /\ row.remote # None /\ row.stamp = a.stamp => row.remote = a.id
  PROVE  LET put == Linked(row, a) IN
         /\ put # None => Accurate(c, put)
         /\ Good(c, IF put # None THEN put ELSE row, time)
<1> DEFINE put == Linked(row, a)
<1>1. /\ put # None => put.remote = a.id /\ put.trashed = a.trashed /\ put.stamp = a.stamp
      /\ put = None =>
           row # None /\ row.remote # None /\ row.trashed = a.trashed /\ a.stamp <= row.stamp
  BY LinkedWrites
<1> HIDE DEF put
<1>2. CASE put # None
  <2>1. Accurate(c, put)
    BY <1>1, <1>2 DEF Accurate, Past
  <2>2. Good(c, put, time)
    BY <1>1, <1>2 DEF Good, ShowsAsset
  <2> QED
    BY <1>2, <2>1, <2>2 DEF put
<1>3. CASE put = None
  <2>1. row # None /\ row.remote = a.id /\ row.trashed = a.trashed /\ row.stamp = a.stamp
    BY <1>1, <1>3, RowFields, AssetFields
  <2>2. Good(c, row, time)
    BY <2>1 DEF Good, ShowsAsset
  <2> QED
    BY <1>3, <2>2 DEF put
<1> QED
  BY <1>2, <1>3

-----------------------------------------------------------------------------
(* The steps of the app                                                    *)

LEMMA Parts ==
  ASSUME IInv
  PROVE  /\ TypeOK /\ ServerFine /\ QueuesFine /\ RowsFine /\ TimesFine /\ NothingOverlooked
         /\ FoundFine /\ PutsFine /\ ChangesFine /\ FullFine /\ PushFine /\ DeviceFine
  BY DEF IInv, AppFine, OpFine

\* Where an operation ends or a full one is to start, there is nothing but the rows.
LEMMA BlankIsFine ==
  ASSUME Blank(op'), op'.kind = "none" \/ (op'.kind = "full" /\ op'.step = "start"),
         RowsFine', NothingOverlooked', etag' # None => etag' <= clock' - Lag
  PROVE  AppFine'
<1>1. TimesFine'
  BY DEF TimesFine
<1>2. FoundFine'
  BY DEF FoundFine, Blank
<1>3. PutsFine'
  BY DEF PutsFine, Blank
<1>4. FullFine' /\ ChangesFine' /\ PushFine' /\ DeviceFine'
  BY DEF FullFine, ChangesFine, PushFine, DeviceFine, Blank
<1> QED
  BY <1>1, <1>2, <1>3, <1>4 DEF AppFine, OpFine

\* The rows stay right when nothing is written.
LEMMA RowsUntouched ==
  ASSUME IInv, UNCHANGED <<serverVars, rows, etag>>, Trusted' \subseteq Trusted
  PROVE  RowsFine' /\ NothingOverlooked'
<1>1. RowsFine'
  <2>1. ASSUME NEW c \in Checksums, rows[c] # None PROVE Old(c, rows[c].stamp)'
    BY <2>1, Parts, SameKnowledge DEF RowsFine
  <2>2. ASSUME NEW c \in Trusted, rows[c] # None PROVE Accurate(c, rows[c])'
    BY <2>2, Parts, SameKnowledge DEF RowsFine
  <2> QED
    BY <2>1, <2>2 DEF RowsFine
<1>2. NothingOverlooked'
  <2>1. ASSUME NEW c \in Trusted, etag # None PROVE Good(c, rows[c], etag)'
    BY <2>1, Parts, SameKnowledge DEF NothingOverlooked
  <2> QED
    BY <2>1 DEF NothingOverlooked
<1> QED
  BY <1>1, <1>2

\* The rows stay right when ids of removed assets are taken away.
LEMMA RowsUnlinked ==
  ASSUME IInv, UNCHANGED <<serverVars, etag, suspect>>, NEW ids, \A id \in ids : Removed(id),
         \A c \in Checksums : rows'[c] = Unlinked(rows[c], ids)
  PROVE  RowsFine' /\ NothingOverlooked'
<1>1. ASSUME NEW c \in Checksums
      PROVE  /\ rows'[c] # None => rows[c] # None /\ rows'[c].stamp = rows[c].stamp
             /\ \A time : Good(c, rows[c], time) => Good(c, Unlinked(rows[c], ids), time)
             /\ rows[c] # None /\ Accurate(c, rows[c]) /\ rows'[c] # None =>
                  Accurate(c, Unlinked(rows[c], ids))
  BY Parts, Types, UnlinkedKeeps
<1>2. RowsFine'
  <2>1. ASSUME NEW c \in Checksums, rows'[c] # None PROVE Old(c, rows[c].stamp)'
    <3>1. \A s : s = rows[c].stamp => Old(c, s)
      BY <1>1, <2>1, Parts DEF RowsFine
    <3>2. rows'[c].stamp = rows[c].stamp
      BY <1>1, <2>1
    <3> QED
      BY <3>1, <3>2, SameKnowledge
  <2>2. ASSUME NEW c \in Trusted, rows'[c] # None PROVE Accurate(c, rows[c])'
    <3>1. c \in Checksums
      BY DEF Trusted
    <3>2. \A row : row = Unlinked(rows[c], ids) => Accurate(c, row)
      BY <1>1, <2>2, <3>1, Parts DEF RowsFine
    <3> QED
      BY <3>1, <3>2, SameKnowledge
  <2> QED
    BY <2>1, <2>2 DEF RowsFine, Trusted
<1>3. NothingOverlooked'
  <2>1. ASSUME NEW c \in Trusted, etag # None PROVE Good(c, rows[c], etag)'
    <3>1. c \in Checksums
      BY DEF Trusted
    <3>2. \A row : row = Unlinked(rows[c], ids) => Good(c, row, etag)
      BY <1>1, <2>1, <3>1, Parts DEF NothingOverlooked
    <3> QED
      BY <3>1, <3>2, SameKnowledge
  <2> QED
    BY <2>1 DEF NothingOverlooked, Trusted
<1> QED
  BY <1>2, <1>3

\* What was found stays found when a row that shows it is left alone.
LEMMA AssetsStayFound ==
  ASSUME UNCHANGED serverVars, NEW c \in Checksums, AssetsFound(c),
         op'.kind = op.kind, op'.now = op.now, op'.found = op.found,
         server[c] # None /\ ShowsAsset(c, rows[c]) => rows'[c] = rows[c]
  PROVE  AssetsFound(c)'
<1>1. server' = server
  BY DEF serverVars
<1> QED
  BY <1>1 DEF AssetsFound, ShowsAsset

LEMMA ApplyGoneKeeps ==
  ASSUME IInv, ApplyGone
  PROVE  AppFine'
<1>0. /\ UNCHANGED <<serverVars, etag, suspect, op>>
      /\ \A id \in gone : Removed(id)
      /\ \A c \in Checksums : rows'[c] = Unlinked(rows[c], gone)
  BY Parts DEF ApplyGone, history, QueuesFine
<1> USE <1>0, Parts
<1>1. RowsFine' /\ NothingOverlooked'
  BY RowsUnlinked
<1>2. ASSUME NEW c \in Checksums
      PROVE  /\ rows'[c] # None => rows[c] # None /\ rows'[c].stamp = rows[c].stamp
             /\ rows'[c] # None /\ rows'[c].remote # None => rows'[c] = rows[c]
             /\ server[c] # None /\ ShowsAsset(c, rows[c]) => rows'[c] = rows[c]
             /\ \A row, time : row = rows'[c] /\ Good(c, rows[c], time) => Good(c, row, time)
  BY Types, UnlinkedKeeps
<1>3. TimesFine'
  BY DEF TimesFine, serverVars
<1>4. FoundFine'
  <2>1. ASSUME NEW c \in Checksums, op.found[c] # None PROVE Past(c, op.found[c])'
    BY <2>1, SameKnowledge DEF FoundFine
  <2>2. ASSUME NEW c \in Checksums, op.found[c] # None, op.kind \in {"changes", "full"}
        PROVE  Tracked(c, op.found[c].id, op.now)'
    BY <2>2, SameKnowledge DEF FoundFine
  <2> QED
    BY <1>2, <2>1, <2>2 DEF FoundFine, Trusted
<1>5. PutsFine'
  <2>1. ASSUME NEW c \in Checksums, op.puts[c] # None PROVE Old(c, op.puts[c].stamp)'
    BY <2>1, SameKnowledge DEF PutsFine
  <2>2. ASSUME NEW c \in Trusted, op.kind \in {"changes", "full"}, op.step \in {"drop", "upsert"}
        PROVE  /\ Good(c, Result(c), op.now)'
               /\ op.puts[c] # None => Accurate(c, op.puts[c])'
    <3>1. Good(c, Result(c), op.now) /\ c \in Checksums
      BY <2>2 DEF PutsFine, Trusted
    <3>2. CASE op.puts[c] # None \/ (op.step = "drop" /\ c \in op.drops)
      <4>1. Result(c)' = Result(c)
        BY <3>2 DEF Result
      <4> QED
        BY <2>2, <3>1, <4>1, SameKnowledge DEF PutsFine
    <3>3. CASE ~(op.puts[c] # None \/ (op.step = "drop" /\ c \in op.drops))
      <4>1. Result(c)' = rows'[c] /\ Result(c) = rows[c]
        BY <3>3 DEF Result
      <4>2. \A row : row = rows'[c] => Good(c, row, op.now)
        BY <1>2, <3>1, <4>1
      <4> QED
        BY <3>3, <4>1, <4>2, SameKnowledge
    <3> QED
      BY <3>2, <3>3
  <2> QED
    BY <2>1, <2>2 DEF PutsFine, Trusted
<1>6. ASSUME NEW c \in Checksums PROVE AssetsFound(c) => AssetsFound(c)'
  BY <1>2, AssetsStayFound
<1>7. ASSUME NEW c \in Trusted
      PROVE  Good(c, rows[c], op.now) => \A row : row = rows'[c] => Good(c, row, op.now)'
  BY <1>2, SameKnowledge DEF Trusted
<1>8. ChangesFine'
  <2>1. \A id \in op.removals : op.kind = "changes" => Removed(id)'
    BY SameKnowledge DEF ChangesFine
  <2>2. ASSUME NEW c \in Trusted, rows'[c] # None, rows'[c].remote # None
        PROVE  /\ rows[c] # None /\ rows[c].remote # None /\ rows'[c].remote = rows[c].remote
               /\ \A id : id = rows[c].remote /\ Tracked(c, id, op.now) => Tracked(c, id, op.now)'
    BY <1>2, <2>2, SameKnowledge DEF Trusted
  <2>3. ASSUME NEW c \in Trusted PROVE RemovalsFound(c) => RemovalsFound(c)'
    BY <2>2 DEF RemovalsFound
  <2> QED
    BY <1>6, <1>7, <2>1, <2>2, <2>3 DEF ChangesFine, Trusted
<1>9. FullFine'
  BY <1>6, <1>7 DEF FullFine, Trusted, Blank
<1>10. PushFine'
  BY DEF PushFine
<1>11. DeviceFine'
  BY SameKnowledge DEF DeviceFine, Trusted
<1> QED
  BY <1>1, <1>3, <1>4, <1>5, <1>8, <1>9, <1>10, <1>11 DEF AppFine, OpFine

LEMMA ClearKeeps ==
  ASSUME IInv, Clear
  PROVE  AppFine'
<1>0. /\ UNCHANGED <<serverVars, op>> /\ etag' = None
      /\ suspect' = Checksums \/ op.kind \in {"none", "push"}
      /\ \A c \in Checksums : rows'[c] = None
  BY DEF Clear, Outside
<1> USE <1>0, Parts
<1>1. RowsFine' /\ TimesFine' /\ NothingOverlooked'
  BY DEF RowsFine, TimesFine, NothingOverlooked, Trusted, serverVars
<1>2. FoundFine'
  <2>1. ASSUME NEW c \in Checksums, op.found[c] # None PROVE Past(c, op.found[c])'
    BY <2>1, SameKnowledge DEF FoundFine
  <2>2. ASSUME NEW c \in Checksums, op.found[c] # None, op.kind \in {"changes", "full"}
        PROVE  Tracked(c, op.found[c].id, op.now)'
    BY <2>2, SameKnowledge DEF FoundFine
  <2> QED
    BY <2>1, <2>2 DEF FoundFine
<1>3. PutsFine'
  <2>1. ASSUME NEW c \in Checksums, op.puts[c] # None PROVE Old(c, op.puts[c].stamp)'
    BY <2>1, SameKnowledge DEF PutsFine
  <2> QED
    BY <2>1 DEF PutsFine, Trusted
<1>4. ChangesFine'
  BY SameKnowledge DEF ChangesFine, Trusted
<1>5. FullFine'
  <2>1. ASSUME NEW c \in Checksums, op.kind = "full" PROVE AssetsFound(c) => AssetsFound(c)'
    BY <2>1 DEF AssetsFound, serverVars
  <2> QED
    BY <2>1 DEF FullFine, Trusted, Blank
<1>6. PushFine' /\ DeviceFine'
  BY DEF PushFine, DeviceFine, Trusted
<1> QED
  BY <1>1, <1>2, <1>3, <1>4, <1>5, <1>6 DEF AppFine, OpFine

LEMMA EndsKeep ==
  ASSUME IInv, FailRequest \/ FailRemovals
  PROVE  AppFine'
<1>1. UNCHANGED <<serverVars, rows, etag, suspect>>
  BY DEF FailRequest, FailRemovals, Outside, history
<1>2. Blank(op') /\ (op'.kind = "none" \/ (op'.kind = "full" /\ op'.step = "start"))
  BY Parts, Types, NoOpIsBlank, EndsWrite DEF FailRequest
<1>3. RowsFine' /\ NothingOverlooked'
  BY <1>1, RowsUntouched DEF Trusted
<1>4. etag' # None => etag' <= clock' - Lag
  BY <1>1, Parts DEF TimesFine, serverVars
<1> QED
  BY <1>2, <1>3, <1>4, BlankIsFine

LEMMA StartRemoteKeeps ==
  ASSUME IInv, StartRemote
  PROVE  AppFine'
<1>0. UNCHANGED <<serverVars, rows, etag, suspect>>
  BY DEF StartRemote, Only, Outside, history
<1> USE <1>0, Parts
<1>1. RowsFine' /\ NothingOverlooked'
  BY RowsUntouched DEF Trusted
<1>2. etag' # None => etag' <= clock' - Lag
  BY DEF TimesFine, serverVars
<1>3. CASE etag = None
  BY <1>1, <1>2, <1>3, StartRemoteWrites, BlankIsFine
<1>4. CASE etag # None
  <2>1. /\ Blank(op') /\ op'.kind = "changes" /\ op'.step = "audits"
        /\ op'.since = etag /\ op'.now = clock - Lag
    BY <1>4, StartRemoteWrites
  <2>2. TimesFine'
    BY <1>4, <2>1, Types, NumbersAreNumbers DEF TimesFine, serverVars
  <2>3. FoundFine' /\ PutsFine' /\ ChangesFine' /\ FullFine' /\ PushFine' /\ DeviceFine'
    BY <2>1 DEF Blank, FoundFine, PutsFine, ChangesFine, FullFine, PushFine, DeviceFine
  <2> QED
    BY <1>1, <2>2, <2>3 DEF AppFine, OpFine
<1> QED
  BY <1>3, <1>4

\* A partial synchronisation asks for what has happened since the time of the app.
LEMMA AsksSinceETag ==
  ASSUME IInv, op.kind = "changes", NEW c \in Trusted
  PROVE  etag = op.since /\ etag # None /\ op.since \in Int /\ Good(c, rows[c], op.since)
<1>1. suspect # Checksums
  BY DEF Trusted
<1>2. etag = op.since /\ op.since \in Int
  BY <1>1, Parts, Types DEF TimesFine
<1> QED
  BY <1>2, Parts, NoneIsApart DEF NothingOverlooked

LEMMA FetchAuditsKeeps ==
  ASSUME IInv, FetchAudits
  PROVE  AppFine'
<1>0. UNCHANGED <<serverVars, rows, etag, suspect>> /\ op.kind = "changes" /\ op.step = "audits"
  BY DEF FetchAudits, Only, Outside, history, At
<1> USE <1>0, Parts
<1>1. RowsFine' /\ NothingOverlooked'
  BY RowsUntouched DEF Trusted
<1>2. etag' # None => etag' <= clock' - Lag
  BY DEF TimesFine, serverVars
<1>3. CASE NeedsFullSync(op.since)
  BY <1>1, <1>2, <1>3, Types, FetchAuditsWrites, BlankIsFine
<1>4. CASE ~NeedsFullSync(op.since)
  <2>1. /\ op'.kind = "changes" /\ op'.step = "updates" /\ op'.removals = DeletedAfter(op.since)
        /\ op'.since = op.since /\ op'.now = op.now /\ op'.found = op.found /\ op'.puts = op.puts
    BY <1>4, Types, FetchAuditsWrites DEF SameWrites
  <2>2. TimesFine'
    BY <2>1 DEF TimesFine, serverVars
  <2>3. FoundFine'
    BY <2>1, SameKnowledge DEF FoundFine
  <2>4. PutsFine'
    BY <2>1, SameKnowledge DEF PutsFine
  <2>5. ChangesFine'
    <3>1. \A id \in DeletedAfter(op.since) : Removed(id)'
      BY SameKnowledge DEF DeletedAfter, QueuesFine
    <3>2. ASSUME NEW c \in Trusted, rows[c] # None, rows[c].remote # None,
                 rows[c].remote \notin DeletedAfter(op.since)
          PROVE  \A id : id = rows[c].remote => Tracked(c, id, op.now)'
      <4>1. Tracked(c, rows[c].remote, op.since)
        BY <3>2, AsksSinceETag DEF Good
      <4>2. server[c] # None /\ server[c].id = rows[c].remote
        BY <1>4, <3>2, <4>1 DEF Tracked, DeletedAfter
      <4>3. \A id : id = rows[c].remote => Tracked(c, id, op.now)
        BY <4>2 DEF Tracked
      <4> QED
        BY <2>1, <4>3, SameKnowledge
    <3>3. ASSUME NEW c \in Trusted PROVE RemovalsFound(c)'
      BY <2>1, <3>2 DEF RemovalsFound
    <3> QED
      BY <2>1, <3>1, <3>3 DEF ChangesFine, Trusted
  <2>6. FullFine' /\ PushFine' /\ DeviceFine'
    BY <2>1 DEF FullFine, PushFine, DeviceFine
  <2> QED
    BY <1>1, <2>2, <2>3, <2>4, <2>5, <2>6 DEF AppFine, OpFine
<1> QED
  BY <1>3, <1>4

\* An asset that is read is right, will be told of, and is no older than the row of it.
LEMMA ReadIsFine ==
  ASSUME IInv, NEW c \in Checksums, server[c] # None
  PROVE  /\ Past(c, server[c])
         /\ \A time : Tracked(c, server[c].id, time)
         /\ rows[c] # None =>
              /\ rows[c].stamp <= server[c].stamp
              /\ c \in Trusted /\ rows[c].remote # None /\ rows[c].stamp = server[c].stamp =>
                   rows[c].remote = server[c].id
<1>1. server[c].stamp \in Nat
  BY Parts, Types, AssetFields
<1> QED
  BY <1>1, Parts DEF ServerFine, RowsFine, Past, Old, Tracked, Accurate

LEMMA FetchUpdatesKeeps ==
  ASSUME IInv, FetchUpdates
  PROVE  AppFine'
<1>0. UNCHANGED <<serverVars, rows, etag, suspect>> /\ op.kind = "changes" /\ op.step = "updates"
  BY DEF FetchUpdates, Only, Outside, history, At
<1> USE <1>0, Parts
<1>1. RowsFine' /\ NothingOverlooked'
  BY RowsUntouched DEF Trusted
<1>2. /\ op'.kind = "changes" /\ op'.step = "unlink" /\ op'.removals = op.removals
      /\ op'.since = op.since /\ op'.now = op.now /\ op'.puts = op.puts
      /\ \A c \in Checksums : op'.found[c] =
           IF server[c] # None /\ server[c].stamp >= op.since THEN server[c] ELSE None
  BY Types, ReadsWrite DEF SameWrites, UpdatedAfter
<1>3. TimesFine'
  BY <1>2 DEF TimesFine, serverVars
<1>4. FoundFine'
  <2> SUFFICES ASSUME NEW c \in Checksums, op'.found[c] # None
               PROVE  /\ op'.found[c] = server[c]
                      /\ Past(c, op.found[c])'
                      /\ Tracked(c, op.found[c].id, op.now)'
                      /\ rows[c] # None =>
                           /\ rows[c].stamp <= server[c].stamp
                           /\ c \in Trusted /\ rows[c].remote # None
                              /\ rows[c].stamp = server[c].stamp => rows[c].remote = server[c].id
    BY DEF FoundFine, Trusted
  <2>1. op'.found[c] = server[c] /\ server[c] # None
    BY <1>2
  <2> QED
    BY <1>2, <2>1, ReadIsFine, SameKnowledge
<1>5. PutsFine'
  BY <1>2, SameKnowledge DEF PutsFine
<1>6. ChangesFine'
  <2>1. \A id \in op.removals : Removed(id)'
    BY SameKnowledge DEF ChangesFine
  <2>2. ASSUME NEW c \in Trusted PROVE RemovalsFound(c)'
    <3>1. RemovalsFound(c)
      BY DEF ChangesFine
    <3> QED
      BY <1>2, <3>1, SameKnowledge DEF RemovalsFound
  <2>3. ASSUME NEW c \in Trusted PROVE AssetsFound(c)'
    <3>1. server' = server /\ c \in Checksums
      BY DEF serverVars, Trusted
    <3>2. server[c] # None => server[c].stamp >= op.since \/ ShowsAsset(c, rows[c])
      BY AsksSinceETag DEF Good
    <3> QED
      BY <1>2, <3>1, <3>2 DEF AssetsFound, ShowsAsset
  <2> QED
    BY <1>2, <2>1, <2>2, <2>3 DEF ChangesFine, Trusted
<1>7. FullFine' /\ PushFine' /\ DeviceFine'
  BY <1>2 DEF FullFine, PushFine, DeviceFine
<1> QED
  BY <1>1, <1>3, <1>4, <1>5, <1>6, <1>7 DEF AppFine, OpFine

LEMMA ApplyRemovalsKeeps ==
  ASSUME IInv, ApplyRemovals
  PROVE  AppFine'
<1>0. /\ UNCHANGED <<serverVars, etag, suspect>> /\ op.kind = "changes" /\ op.step = "unlink"
      /\ \A id \in op.removals : Removed(id)
      /\ \A c \in Checksums : rows'[c] = Unlinked(rows[c], op.removals)
  BY Parts DEF ApplyRemovals, Outside, history, At, ChangesFine
<1> USE <1>0, Parts
<1>1. RowsFine' /\ NothingOverlooked'
  BY RowsUnlinked
<1>2. CASE op' = NoOp
  <2>1. etag' # None => etag' <= clock' - Lag
    BY DEF TimesFine, serverVars
  <2> QED
    BY <1>1, <1>2, <2>1, NoOpIsBlank, BlankIsFine
<1>3. CASE op' # NoOp
  <2>1. /\ op'.kind = "changes" /\ op'.step = IF NothingFound THEN "etag" ELSE "link"
        /\ op'.since = op.since /\ op'.now = op.now /\ op'.removals = op.removals
        /\ op'.found = op.found /\ op'.puts = op.puts
    BY <1>3, Types, RemovalsWrite DEF SameWrites, SameReads
  <2>2. ASSUME NEW c \in Checksums
        PROVE  /\ rows'[c] # None => rows[c] # None /\ rows'[c].stamp = rows[c].stamp
               /\ rows'[c] # None /\ rows'[c].remote # None =>
                    rows'[c] = rows[c] /\ rows[c].remote \notin op.removals
               /\ server[c] # None /\ ShowsAsset(c, rows[c]) => rows'[c] = rows[c]
    BY Types, UnlinkedKeeps
  <2>3. TimesFine'
    BY <2>1 DEF TimesFine, serverVars
  <2>4. FoundFine'
    <3>1. ASSUME NEW c \in Checksums, op.found[c] # None
          PROVE  Past(c, op.found[c])' /\ Tracked(c, op.found[c].id, op.now)'
      BY <2>1, <3>1, SameKnowledge DEF FoundFine
    <3> QED
      BY <2>1, <2>2, <3>1 DEF FoundFine, Trusted
  <2>5. PutsFine'
    BY <2>1, SameKnowledge DEF PutsFine
  <2>6. ASSUME NEW c \in Trusted, rows'[c] # None, rows'[c].remote # None
        PROVE  Tracked(c, rows[c].remote, op.now)'
    <3>1. rows'[c] = rows[c] /\ rows[c].remote \notin op.removals
      BY <2>2, <2>6 DEF Trusted
    <3>2. Tracked(c, rows[c].remote, op.now)
      BY <2>6, <3>1 DEF ChangesFine, RemovalsFound
    <3> QED
      BY <2>1, <3>1, <3>2, SameKnowledge
  <2>7. ASSUME NEW c \in Trusted PROVE AssetsFound(c) /\ AssetsFound(c)'
    <3>1. AssetsFound(c) /\ c \in Checksums
      BY DEF ChangesFine, Trusted
    <3> QED
      BY <2>1, <2>2, <3>1, AssetsStayFound
  <2>8. ASSUME NEW c \in Trusted, NothingFound PROVE Good(c, rows[c], op.now)'
    <3>1. op.found[c] = None /\ c \in Checksums
      BY <2>8 DEF NothingFound, NoOp, Trusted
    <3>2. server[c] # None => server[c].stamp >= op.now \/ ShowsAsset(c, rows[c])
      BY <2>7, <3>1 DEF AssetsFound
    <3>3. server' = server
      BY DEF serverVars
    <3>4. (server[c] # None => server[c].stamp >= op.now \/ ShowsAsset(c, rows[c]))'
      BY <2>1, <2>2, <3>1, <3>2, <3>3 DEF ShowsAsset
    <3> QED
      BY <2>6, <3>4 DEF Good
  <2>9. ChangesFine'
    <3>1. \A id \in op.removals : Removed(id)'
      BY SameKnowledge
    <3> QED
      BY <2>1, <2>6, <2>7, <2>8, <3>1 DEF ChangesFine, Trusted
  <2>10. FullFine' /\ PushFine' /\ DeviceFine'
    BY <2>1 DEF FullFine, PushFine, DeviceFine
  <2> QED
    BY <1>1, <2>3, <2>4, <2>5, <2>9, <2>10 DEF AppFine, OpFine
<1> QED
  BY <1>2, <1>3

LEMMA LinkKeeps ==
  ASSUME ClockIsNotAhead, IInv, Link
  PROVE  AppFine'
<1>0. /\ UNCHANGED <<serverVars, rows, etag, suspect>>
      /\ op.kind \in {"changes", "push"} /\ op.step = "link"
  BY DEF Link, Only, Outside, history
<1> USE <1>0, Parts
<1>1. RowsFine' /\ NothingOverlooked'
  BY RowsUntouched DEF Trusted
<1>2. /\ op'.kind = op.kind /\ op'.step = "upsert" /\ op'.removals = op.removals
      /\ op'.since = op.since /\ op'.now = op.now /\ op'.found = op.found
      /\ \A c \in Checksums : op'.puts[c] = Linked(rows[c], op.found[c])
  BY Types, LinkWrites DEF SameReads
<1>3. TimesFine'
  BY <1>2 DEF TimesFine, serverVars
<1>4. FoundFine'
  <2>1. ASSUME NEW c \in Checksums, op.found[c] # None
        PROVE  /\ Past(c, op.found[c])'
               /\ op.kind = "changes" => Tracked(c, op.found[c].id, op.now)'
    BY <1>2, <2>1, SameKnowledge DEF FoundFine
  <2> QED
    BY <1>2, <2>1 DEF FoundFine
<1>5. ASSUME NEW c \in Checksums, op'.puts[c] # None
      PROVE  /\ op.found[c] # None
             /\ op'.puts[c].remote = op.found[c].id /\ op'.puts[c].trashed = op.found[c].trashed
             /\ Old(c, op'.puts[c].stamp)
  <2>1. op'.puts[c] = Linked(rows[c], op.found[c])
    BY <1>2
  <2>2. op.found[c] # None
    BY <1>5, <2>1 DEF Linked
  <2>3. op.found[c] \in Asset /\ rows[c] \in Row \cup {None}
    BY <2>2, Types
  <2>4. /\ op'.puts[c].remote = op.found[c].id /\ op'.puts[c].trashed = op.found[c].trashed
        /\ \/ op'.puts[c].stamp = op.found[c].stamp
           \/ rows[c] # None /\ op'.puts[c].stamp = rows[c].stamp
    BY <1>5, <2>1, <2>3, LinkedWrites
  <2>5. Old(c, op.found[c].stamp) /\ (rows[c] # None => Old(c, rows[c].stamp))
    BY <2>2 DEF FoundFine, Past, RowsFine
  <2> QED
    BY <2>2, <2>4, <2>5
<1>6. ASSUME NEW c \in Trusted, op.kind = "changes"
      PROVE  /\ op'.puts[c] # None => Accurate(c, op'.puts[c])
             /\ \A row : row = (IF op'.puts[c] # None THEN op'.puts[c] ELSE rows[c]) =>
                  Good(c, row, op.now)
  <2>0. c \in Checksums
    BY DEF Trusted
  <2>1. op'.puts[c] = Linked(rows[c], op.found[c])
    BY <1>2, <2>0
  <2>2. AssetsFound(c)
    BY <1>6 DEF ChangesFine
  <2>3. CASE op.found[c] = None
    <3>1. op'.puts[c] = None
      BY <2>1, <2>3 DEF Linked
    <3>2. Good(c, rows[c], op.now)
      BY <1>6, <2>2, <2>3 DEF AssetsFound, ChangesFine, Good
    <3> QED
      BY <3>1, <3>2
  <2>4. CASE op.found[c] # None
    <3>1. op.found[c] \in Asset /\ rows[c] \in Row \cup {None} /\ op.now \in Int
      BY <2>0, <2>4, Types
    <3>2. /\ Past(c, op.found[c]) /\ Tracked(c, op.found[c].id, op.now)
          /\ rows[c] # None =>
               /\ rows[c].stamp <= op.found[c].stamp /\ Accurate(c, rows[c])
               /\ rows[c].remote # None /\ rows[c].stamp = op.found[c].stamp =>
                    rows[c].remote = op.found[c].id
      BY <1>6, <2>0, <2>4 DEF FoundFine, RowsFine
    <3>3. server[c] # None => server[c].stamp >= op.now \/ op.found[c] = server[c]
      BY <2>2, <2>4 DEF AssetsFound
    <3> QED
      BY <2>0, <2>1, <3>1, <3>2, <3>3, LinkedIsGood
  <2> QED
    BY <2>3, <2>4
<1>7. PutsFine'
  <2>1. ASSUME NEW c \in Checksums, op'.puts[c] # None PROVE Old(c, op.puts[c].stamp)'
    BY <1>5, <2>1, SameKnowledge
  <2>2. ASSUME NEW c \in Trusted, op.kind = "changes"
        PROVE  /\ Good(c, Result(c), op.now)'
               /\ op'.puts[c] # None => Accurate(c, op.puts[c])'
    <3>1. Result(c)' = IF op'.puts[c] # None THEN op'.puts[c] ELSE rows[c]
      BY <1>2 DEF Result
    <3>2. \A row : row = Result(c)' => Good(c, row, op.now)
      BY <1>6, <2>2, <3>1
    <3>3. op'.puts[c] # None => Accurate(c, op'.puts[c])
      BY <1>6, <2>2
    <3> QED
      BY <1>2, <3>2, <3>3, SameKnowledge
  <2> QED
    BY <1>2, <1>5, <2>1, <2>2 DEF PutsFine, Trusted
<1>8. ChangesFine'
  <2>1. \A id \in op.removals : op.kind = "changes" => Removed(id)'
    BY SameKnowledge DEF ChangesFine
  <2> QED
    BY <1>2, <2>1 DEF ChangesFine
<1>9. FullFine' /\ PushFine' /\ DeviceFine'
  BY <1>2 DEF FullFine, PushFine, DeviceFine
<1> QED
  BY <1>1, <1>3, <1>4, <1>7, <1>8, <1>9 DEF AppFine, OpFine

LEMMA StartFullKeeps ==
  ASSUME IInv, StartFull
  PROVE  AppFine'
<1>0. UNCHANGED <<serverVars, rows, etag, suspect>> /\ op.kind = "full" /\ op.step = "start"
  BY DEF StartFull, Only, Outside, history, At
<1> USE <1>0, Parts
<1>1. RowsFine' /\ NothingOverlooked'
  BY RowsUntouched DEF Trusted
<1>2. Blank(op)
  BY DEF FullFine
<1>3. /\ op'.kind = "full" /\ op'.step = "load" /\ op'.now = clock - Lag /\ op'.skip = 0
      /\ \A c \in Checksums : op'.found[c] = None /\ op'.puts[c] = None
  BY <1>2, Types, ReadsWrite DEF Blank
<1>4. TimesFine'
  BY <1>3, Types, NumbersAreNumbers DEF TimesFine, serverVars
<1>5. FoundFine' /\ PutsFine' /\ ChangesFine' /\ FullFine' /\ PushFine' /\ DeviceFine'
  BY <1>3 DEF FoundFine, PutsFine, ChangesFine, FullFine, PushFine, DeviceFine
<1> QED
  BY <1>1, <1>4, <1>5 DEF AppFine, OpFine

\* One request answers with all the assets when they are no more than it asks for.
LEMMA OnePage ==
  ASSUME OneChunk, NEW time
  PROVE  Page(time, 0) = UpdatedBefore(time)
<1> SUFFICES ASSUME NEW c \in UpdatedBefore(time) PROVE c \in Page(time, 0)
  BY DEF Page
<1> DEFINE before == {d \in UpdatedBefore(time) : d < c}
<1>1. before \subseteq Checksums /\ c \in Checksums /\ c \notin before
  <2>1. c \in Checksums /\ c \in Nat
    BY ChecksumsAreOrdered DEF UpdatedBefore
  <2>2. ~(c < c)
    BY <2>1
  <2> QED
    BY <2>1, <2>2 DEF UpdatedBefore
<1>2. IsFiniteSet(before) /\ Cardinality(before) \in Nat
      /\ Cardinality(before) < Cardinality(Checksums) /\ Cardinality(Checksums) \in Nat
  <2>1. before # Checksums
    BY <1>1
  <2>2. IsFiniteSet(Checksums)
    BY ChecksumsAreOrdered
  <2> HIDE DEF before
  <2> QED
    <3>1. /\ IsFiniteSet(before)
          /\ Cardinality(before) <= Cardinality(Checksums)
          /\ Cardinality(before) # Cardinality(Checksums)
      BY <1>1, <2>1, <2>2, FS_Subset
    <3>2. Cardinality(before) \in Nat /\ Cardinality(Checksums) \in Nat
      BY <2>2, <3>1, FS_CardinalityType
    <3> QED
      BY <3>1, <3>2
<1>3. Cardinality(before) \in 0 .. (0 + ChunkSize - 1)
  BY <1>2, NumbersAreNumbers DEF OneChunk
<1> QED
  BY <1>3 DEF Page

LEMMA LoadKeeps ==
  ASSUME OneChunk, IInv, Load
  PROVE  AppFine'
<1>0. UNCHANGED <<serverVars, rows, etag, suspect>> /\ op.kind = "full" /\ op.step = "load"
  BY DEF Load, Only, Outside, history, At
<1> USE <1>0, Parts
<1> DEFINE page == Page(op.now, op.skip)
<1>1. RowsFine' /\ NothingOverlooked'
  BY RowsUntouched DEF Trusted
<1>2. /\ op'.kind = "full" /\ op'.step \in {"diff", "load"} /\ op'.skip = op.skip + ChunkSize
      /\ op'.since = op.since /\ op'.now = op.now /\ op'.puts = op.puts
      /\ \A c \in Checksums : op'.found[c] = IF c \in page THEN server[c] ELSE op.found[c]
  BY Types, ReadsWrite DEF SameWrites
<1>3. \A c \in page : c \in Checksums /\ server[c] # None
  BY DEF Page, UpdatedBefore
<1> HIDE DEF page
<1>4. TimesFine'
  BY <1>2 DEF TimesFine, serverVars
<1>5. FoundFine'
  <2>1. ASSUME NEW c \in page
        PROVE  /\ Past(c, op.found[c])' /\ Tracked(c, op.found[c].id, op.now)'
               /\ rows[c] # None =>
                    /\ rows[c].stamp <= op'.found[c].stamp
                    /\ c \in Trusted /\ rows[c].remote # None
                       /\ rows[c].stamp = op'.found[c].stamp => rows[c].remote = op'.found[c].id
    <3>1. op'.found[c] = server[c] /\ c \in Checksums /\ server[c] # None
      BY <1>2, <1>3
    <3> QED
      BY <1>2, <3>1, ReadIsFine, SameKnowledge
  <2>2. ASSUME NEW c \in Checksums \ page, op'.found[c] # None
        PROVE  /\ Past(c, op.found[c])' /\ Tracked(c, op.found[c].id, op.now)'
               /\ rows[c] # None =>
                    /\ rows[c].stamp <= op'.found[c].stamp
                    /\ c \in Trusted /\ rows[c].remote # None
                       /\ rows[c].stamp = op'.found[c].stamp => rows[c].remote = op'.found[c].id
    <3>1. op'.found[c] = op.found[c]
      BY <1>2
    <3> QED
      BY <1>2, <2>2, <3>1, SameKnowledge DEF FoundFine
  <2> QED
    BY <2>1, <2>2 DEF FoundFine, Trusted
<1>6. PutsFine'
  BY <1>2, SameKnowledge DEF PutsFine
<1>7. FullFine'
  <2>1. op'.skip # 0 /\ op'.skip >= Cardinality(Checksums)
    <3>1. /\ op.skip \in Nat /\ ChunkSize \in Nat \ {0}
          /\ Cardinality(Checksums) \in Nat /\ Cardinality(Checksums) <= ChunkSize
      BY Types, NumbersAreNumbers, ChecksumsAreOrdered, FS_CardinalityType DEF OneChunk
    <3> QED
      BY <1>2, <3>1 DEF FullFine
  <2>2. ASSUME NEW c \in Checksums PROVE AssetsFound(c)'
    <3>0. server' = server
      BY DEF serverVars
    <3>1. CASE server[c] = None \/ c \in page
      BY <1>2, <3>0, <3>1 DEF AssetsFound
    <3>2. CASE server[c] # None /\ c \notin page /\ op.skip = 0
      <4>1. c \notin UpdatedBefore(op.now)
        BY <3>2, OnePage DEF page
      <4>2. server[c].stamp >= op.now
        BY <3>2, <4>1, Types, AssetFields DEF UpdatedBefore
      <4> QED
        BY <1>2, <3>0, <4>2 DEF AssetsFound
    <3>3. CASE server[c] # None /\ c \notin page /\ op.skip # 0
      <4>1. AssetsFound(c)
        BY <3>3 DEF FullFine
      <4> QED
        BY <1>2, <3>0, <3>3, <4>1 DEF AssetsFound
    <3> QED
      BY <3>1, <3>2, <3>3
  <2> QED
    BY <1>2, <2>1, <2>2 DEF FullFine
<1>8. ChangesFine' /\ PushFine' /\ DeviceFine'
  BY <1>2 DEF ChangesFine, PushFine, DeviceFine
<1> QED
  BY <1>1, <1>4, <1>5, <1>6, <1>7, <1>8 DEF AppFine, OpFine

LEMMA DiffKeeps ==
  ASSUME ClockIsNotAhead, IInv, Diff
  PROVE  AppFine'
<1>0. UNCHANGED <<serverVars, rows, etag, suspect>> /\ op.kind = "full" /\ op.step = "diff"
  BY DEF Diff, Only, Outside, history, At
<1> USE <1>0, Parts
<1>1. RowsFine' /\ NothingOverlooked'
  BY RowsUntouched DEF Trusted
<1>2. /\ op'.kind = "full" /\ op'.step \in {"drop", "etag"}
      /\ op'.since = op.since /\ op'.now = op.now /\ op'.found = op.found
      /\ op'.step = "etag" => op'.drops = {} /\ \A c \in Checksums : op'.puts[c] = None
  BY Types, DiffWrites DEF SameReads
<1>3. ASSUME NEW c \in Checksums
      PROVE  /\ c \in op'.drops <=> rows[c] # None /\ op.found[c] = None /\ ~rows[c].local
             /\ op'.puts[c] =
                  IF rows[c] = None \/ op.found[c] # None THEN Linked(rows[c], op.found[c])
                  ELSE IF rows[c].local /\ rows[c].remote # None
                       THEN [rows[c] EXCEPT !.remote = None]
                       ELSE None
  BY Types, DiffWrites
<1>4. TimesFine'
  BY <1>2 DEF TimesFine, serverVars
<1>5. FoundFine'
  <2>1. ASSUME NEW c \in Checksums, op.found[c] # None
        PROVE  Past(c, op.found[c])' /\ Tracked(c, op.found[c].id, op.now)'
    BY <1>2, <2>1, SameKnowledge DEF FoundFine
  <2> QED
    BY <1>2, <2>1 DEF FoundFine
\* A row of an asset that was not found.
<1>6. ASSUME NEW c \in Checksums, op.found[c] = None
      PROVE  /\ op'.puts[c] # None =>
                  /\ rows[c] # None /\ op'.puts[c].stamp = rows[c].stamp
                  /\ op'.puts[c].remote = None
             /\ op'.puts[c] = None /\ c \notin op'.drops =>
                  rows[c] = None \/ rows[c].remote = None
  <2>1. CASE rows[c] = None
    <3>1. op'.puts[c] = None
      BY <1>3, <1>6, <2>1 DEF Linked
    <3> QED
      BY <2>1, <3>1
  <2>2. CASE rows[c] # None
    <3> DEFINE local == [rows[c] EXCEPT !.remote = None]
    <3>1. local \in Row /\ local.stamp = rows[c].stamp /\ local.remote = None
      BY <2>2, Types DEF Row
    <3>2. op'.puts[c] = IF rows[c].local /\ rows[c].remote # None THEN local ELSE None
      BY <1>3, <1>6, <2>2
    <3>3. c \notin op'.drops => rows[c].local
      BY <1>3, <1>6, <2>2
    <3> HIDE DEF local
    <3> QED
      BY <2>2, <3>1, <3>2, <3>3, NoneIsApart
  <2> QED
    BY <2>1, <2>2
<1>7. ASSUME NEW c \in Checksums, op'.puts[c] # None PROVE Old(c, op'.puts[c].stamp)
  <2>1. rows[c] # None => Old(c, rows[c].stamp)
    BY DEF RowsFine
  <2>2. CASE op.found[c] = None
    BY <1>6, <1>7, <2>1, <2>2
  <2>3. CASE op.found[c] # None
    <3>1. op.found[c] \in Asset /\ rows[c] \in Row \cup {None} /\ Old(c, op.found[c].stamp)
      BY <2>3, Types DEF FoundFine, Past
    <3>2. op'.puts[c] = Linked(rows[c], op.found[c])
      BY <1>3, <2>3
    <3> QED
      BY <1>7, <2>1, <3>1, <3>2, LinkedWrites
  <2> QED
    BY <2>2, <2>3
<1>8. ASSUME NEW c \in Trusted
      PROVE  /\ op'.puts[c] # None => Accurate(c, op'.puts[c])
             /\ \A row : row = (IF op'.puts[c] # None THEN op'.puts[c]
                               ELSE IF c \in op'.drops THEN None ELSE rows[c]) =>
                  Good(c, row, op.now)
  <2>1. c \in Checksums /\ AssetsFound(c)
    BY DEF Trusted, FullFine
  <2>2. CASE op.found[c] = None
    <3>1. server[c] # None => server[c].stamp >= op.now
      BY <2>1, <2>2 DEF AssetsFound
    <3>2. \A row : row = None \/ row.remote = None => Good(c, row, op.now)
      BY <3>1 DEF Good
    <3> QED
      BY <1>6, <2>1, <2>2, <3>2 DEF Accurate
  <2>3. CASE op.found[c] # None
    <3>1. op.found[c] \in Asset /\ rows[c] \in Row \cup {None} /\ op.now \in Int
      BY <2>1, <2>3, Types
    <3>2. /\ Past(c, op.found[c]) /\ Tracked(c, op.found[c].id, op.now)
          /\ rows[c] # None =>
               /\ rows[c].stamp <= op.found[c].stamp /\ Accurate(c, rows[c])
               /\ rows[c].remote # None /\ rows[c].stamp = op.found[c].stamp =>
                    rows[c].remote = op.found[c].id
      BY <2>1, <2>3 DEF FoundFine, RowsFine
    <3>3. server[c] # None => server[c].stamp >= op.now \/ op.found[c] = server[c]
      BY <2>1 DEF AssetsFound
    <3>4. op'.puts[c] = Linked(rows[c], op.found[c]) /\ c \notin op'.drops
      BY <1>3, <2>1, <2>3
    <3> QED
      BY <2>1, <3>1, <3>2, <3>3, <3>4, LinkedIsGood
  <2> QED
    BY <2>2, <2>3
<1>9. PutsFine'
  <2>1. ASSUME NEW c \in Checksums, op'.puts[c] # None PROVE Old(c, op.puts[c].stamp)'
    BY <1>7, <2>1, SameKnowledge
  <2>2. ASSUME NEW c \in Trusted, op'.step = "drop"
        PROVE  /\ Good(c, Result(c), op.now)'
               /\ op'.puts[c] # None => Accurate(c, op.puts[c])'
    <3>1. Result(c)' = IF op'.puts[c] # None THEN op'.puts[c]
                       ELSE IF c \in op'.drops THEN None ELSE rows[c]
      BY <2>2 DEF Result
    <3>2. \A row : row = Result(c)' => Good(c, row, op.now)
      BY <1>8, <2>2, <3>1
    <3>3. op'.puts[c] # None => Accurate(c, op'.puts[c])
      BY <1>8, <2>2
    <3> QED
      BY <1>2, <3>2, <3>3, SameKnowledge
  <2> QED
    BY <1>2, <2>1, <2>2 DEF PutsFine, Trusted
<1>10. FullFine'
  <2>1. ASSUME op'.step = "drop", NEW c \in op'.drops PROVE op'.puts[c] = None
    <3>1. c \in Checksums
      <4>1. op' \in Operation
        BY RemoteKeepsTypes DEF TypeOK
      <4> QED
        BY <2>1, <4>1 DEF Operation
    <3> QED
      BY <1>3, <2>1, <3>1
  <2>2. ASSUME op'.step = "etag", NEW c \in Trusted PROVE Good(c, rows[c], op.now)'
    <3>1. \A row : row = rows[c] => Good(c, row, op.now)
      BY <1>2, <1>8, <2>2 DEF Trusted
    <3> QED
      BY <1>2, <3>1, SameKnowledge
  <2> QED
    BY <1>2, <2>1, <2>2 DEF FullFine, Trusted
<1>11. ChangesFine' /\ PushFine' /\ DeviceFine'
  BY <1>2 DEF ChangesFine, PushFine, DeviceFine
<1> QED
  BY <1>1, <1>4, <1>5, <1>9, <1>10, <1>11 DEF AppFine, OpFine

\* An asset that was dropped or written is right for the time of the app as well.
LEMMA ResultIsGood ==
  ASSUME ClockIsNotAhead, IInv, op.kind \in {"changes", "full"}, op.step \in {"drop", "upsert"},
         NEW c \in Trusted
  PROVE  /\ Good(c, Result(c), op.now)
         /\ etag # None => Good(c, Result(c), etag)
<1>1. Good(c, Result(c), op.now) /\ c \in Checksums
  BY Parts DEF PutsFine, Trusted
<1>2. op.now \in Int /\ (etag # None => etag \in Int /\ etag <= op.now)
  BY Parts, TimesArePast
<1> QED
  BY <1>1, <1>2, Parts, GoodEarlier

LEMMA DropKeeps ==
  ASSUME ClockIsNotAhead, IInv, Drop
  PROVE  AppFine'
<1>0. /\ UNCHANGED <<serverVars, etag, suspect>> /\ op.kind = "full" /\ op.step = "drop"
      /\ \A c \in Checksums : rows'[c] = IF c \in op.drops THEN None ELSE rows[c]
  BY RowsWritten DEF Drop, Outside, history, At
<1> USE <1>0, Parts
<1>1. /\ op'.kind = "full" /\ op'.step = "upsert" /\ op'.now = op.now /\ op'.found = op.found
      /\ op'.puts = op.puts /\ op'.drops = op.drops
  BY Types, EndsWrite DEF SameReads, SameWrites
<1>2. RowsFine'
  <2>1. ASSUME NEW c \in Checksums, rows'[c] # None PROVE Old(c, rows[c].stamp)'
    BY <2>1, SameKnowledge DEF RowsFine
  <2>2. ASSUME NEW c \in Trusted, rows'[c] # None PROVE Accurate(c, rows[c])'
    BY <2>2, SameKnowledge DEF RowsFine, Trusted
  <2> QED
    BY <2>1, <2>2 DEF RowsFine, Trusted
<1>3. TimesFine'
  BY <1>1 DEF TimesFine, serverVars
<1>4. NothingOverlooked'
  <2> SUFFICES ASSUME NEW c \in Trusted, etag # None PROVE Good(c, rows[c], etag)'
    BY DEF NothingOverlooked, Trusted
  <2>0. c \in Checksums
    BY DEF Trusted
  <2>1. CASE c \in op.drops
    <3>1. Result(c) = None
      BY <2>1 DEF Result, FullFine
    <3>2. Good(c, None, etag)
      BY <3>1, ResultIsGood
    <3> QED
      BY <2>0, <2>1, <3>2, SameKnowledge
  <2>2. CASE c \notin op.drops
    BY <2>0, <2>2, SameKnowledge DEF NothingOverlooked
  <2> QED
    BY <2>1, <2>2
<1>5. FoundFine'
  <2>1. ASSUME NEW c \in Checksums, op.found[c] # None
        PROVE  Past(c, op.found[c])' /\ Tracked(c, op.found[c].id, op.now)'
    BY <1>1, <2>1, SameKnowledge DEF FoundFine
  <2> QED
    BY <1>1, <2>1 DEF FoundFine
<1>6. PutsFine'
  <2>1. ASSUME NEW c \in Checksums, op.puts[c] # None PROVE Old(c, op.puts[c].stamp)'
    BY <1>1, <2>1, SameKnowledge DEF PutsFine
  <2>2. ASSUME NEW c \in Trusted
        PROVE  /\ Good(c, Result(c), op.now)'
               /\ op.puts[c] # None => Accurate(c, op.puts[c])'
    <3>1. Result(c)' = Result(c)
      BY <1>1 DEF Result, Trusted
    <3> QED
      BY <1>1, <3>1, SameKnowledge DEF PutsFine
  <2> QED
    BY <1>1, <2>1, <2>2 DEF PutsFine, Trusted
<1>7. FullFine' /\ ChangesFine' /\ PushFine' /\ DeviceFine'
  BY <1>1 DEF FullFine, ChangesFine, PushFine, DeviceFine
<1> QED
  BY <1>2, <1>3, <1>4, <1>5, <1>6, <1>7 DEF AppFine, OpFine

\* An operation that has written all it had to.
LEMMA WrittenIsFine ==
  ASSUME IInv, op.kind \in {"changes", "full"}, op.step \in {"drop", "upsert"},
         UNCHANGED <<serverVars, etag>>, suspect \subseteq suspect', suspect' \subseteq Checksums,
         op'.step = "etag", SameReads(op', op), SameWrites(op', op),
         RowsFine', NothingOverlooked',
         \A c \in Trusted' : Good(c, rows[c], op.now)'
  PROVE  AppFine'
<1> USE Parts
<1>1. /\ op'.kind = op.kind /\ op'.since = op.since /\ op'.now = op.now
      /\ op'.found = op.found /\ op'.puts = op.puts /\ op'.removals = op.removals
  BY DEF SameReads, SameWrites
<1>2. TimesFine'
  <2>1. suspect = Checksums => suspect' = Checksums
    OBVIOUS
  <2> QED
    BY <1>1, <2>1 DEF TimesFine, serverVars
<1>3. FoundFine'
  <2>1. ASSUME NEW c \in Checksums, op.found[c] # None
        PROVE  Past(c, op.found[c])' /\ Tracked(c, op.found[c].id, op.now)'
    BY <1>1, <2>1, SameKnowledge DEF FoundFine
  <2> QED
    BY <1>1, <2>1 DEF FoundFine
<1>4. PutsFine'
  <2>1. ASSUME NEW c \in Checksums, op.puts[c] # None PROVE Old(c, op.puts[c].stamp)'
    BY <1>1, <2>1, SameKnowledge DEF PutsFine
  <2> QED
    BY <1>1, <2>1 DEF PutsFine
<1>5. ChangesFine'
  <2>1. \A id \in op.removals : op.kind = "changes" => Removed(id)'
    BY SameKnowledge DEF ChangesFine
  <2> QED
    BY <1>1, <2>1 DEF ChangesFine
<1>6. FullFine' /\ PushFine' /\ DeviceFine'
  BY <1>1 DEF FullFine, PushFine, DeviceFine
<1> QED
  BY <1>2, <1>3, <1>4, <1>5, <1>6 DEF AppFine, OpFine

LEMMA UpsertKeeps ==
  ASSUME ClockIsNotAhead, IInv, Upsert
  PROVE  AppFine'
<1>0. /\ UNCHANGED <<serverVars, etag>>
      /\ op.kind \in {"changes", "full", "push"} /\ op.step = "upsert"
      /\ suspect' = IF op.kind = "push" THEN suspect \cup Outdated ELSE suspect
      /\ \A c \in Checksums : rows'[c] = IF op.puts[c] # None THEN op.puts[c] ELSE rows[c]
  BY RowsWritten DEF Upsert, Outside
<1> USE <1>0, Parts
<1>1. Trusted' \subseteq Trusted /\ \A c \in Trusted' : c \in Checksums
  BY DEF Trusted
<1>2. ASSUME NEW c \in Checksums, rows'[c] # None PROVE Old(c, rows[c].stamp)'
  <2>1. \A s : s = rows'[c].stamp => Old(c, s)
    BY <1>2 DEF RowsFine, PutsFine
  <2> QED
    BY <2>1, SameKnowledge
<1>3. CASE op.kind # "push"
  <2>1. \A c \in Trusted : Result(c) = rows'[c]
    BY DEF Result, Trusted
  <2>2. ASSUME NEW c \in Trusted, rows'[c] # None PROVE Accurate(c, rows[c])'
    <3>1. \A row : row = rows'[c] => Accurate(c, row)
      BY <1>3, <2>2 DEF PutsFine, RowsFine, Trusted
    <3> QED
      BY <3>1, SameKnowledge
  <2>3. ASSUME NEW c \in Trusted
        PROVE  Good(c, rows[c], op.now)' /\ (etag # None => Good(c, rows[c], etag)')
    <3>1. op'.now = op.now
      BY <1>3, Types, EndsWrite DEF SameReads
    <3>2. \A row : row = rows'[c] =>
            Good(c, row, op.now) /\ (etag # None => Good(c, row, etag))
      BY <1>3, <2>1, ResultIsGood
    <3> QED
      BY <3>1, <3>2, SameKnowledge
  <2>4. RowsFine' /\ NothingOverlooked'
    BY <1>1, <1>2, <2>2, <2>3 DEF RowsFine, NothingOverlooked
  <2>5. op'.step = "etag" /\ SameReads(op', op) /\ SameWrites(op', op)
    BY <1>3, Types, EndsWrite
  <2> QED
    BY <1>1, <1>3, <2>3, <2>4, <2>5, Types, WrittenIsFine
<1>4. CASE op.kind = "push"
  <2>1. ASSUME NEW c \in Trusted', op.puts[c] # None
        PROVE  /\ server[c] # None /\ op.puts[c].remote = server[c].id
               /\ op.puts[c].trashed = server[c].trashed
    <3>1. c \in Checksums /\ c \notin Outdated
      BY <1>4 DEF Trusted
    <3>2. op.found[c] # None /\ op.found[c] = server[c]
      BY <1>4, <2>1, <3>1 DEF PutsFine, Outdated
    <3> QED
      BY <1>4, <2>1, <3>1, <3>2 DEF PutsFine
  <2>2. ASSUME NEW c \in Trusted', op.puts[c] # None
        PROVE  Accurate(c, op.puts[c]) /\ \A time : Good(c, op.puts[c], time)
    BY <2>1, <2>2 DEF Accurate, Good, ShowsAsset, Tracked
  <2>3. RowsFine'
    <3>1. ASSUME NEW c \in Trusted', rows'[c] # None PROVE Accurate(c, rows[c])'
      <4>1. \A row : row = rows'[c] => Accurate(c, row)
        BY <1>1, <2>2, <3>1 DEF RowsFine
      <4> QED
        BY <4>1, SameKnowledge
    <3> QED
      BY <1>2, <3>1 DEF RowsFine
  <2>4. NothingOverlooked'
    <3>1. ASSUME NEW c \in Trusted', etag # None PROVE Good(c, rows[c], etag)'
      <4>1. \A row : row = rows'[c] => Good(c, row, etag)
        BY <1>1, <2>2, <3>1 DEF NothingOverlooked
      <4> QED
        BY <4>1, SameKnowledge
    <3> QED
      BY <3>1 DEF NothingOverlooked
  <2>5. etag' # None => etag' <= clock' - Lag
    BY DEF TimesFine, serverVars
  <2> QED
    BY <1>4, <2>3, <2>4, <2>5, Types, EndsWrite, NoOpIsBlank, BlankIsFine
<1> QED
  BY <1>3, <1>4

LEMMA FailUpsertKeeps ==
  ASSUME ClockIsNotAhead, IInv, FailUpsert
  PROVE  AppFine'
<1>0. /\ UNCHANGED <<serverVars, rows, etag>>
      /\ op.kind \in {"changes", "full", "push"} /\ op.step \in {"drop", "upsert"}
      /\ suspect' = IF op.kind = "push" THEN suspect ELSE suspect \cup Touched
  BY DEF FailUpsert, Outside
<1> USE <1>0, Parts
<1>1. Trusted' \subseteq Trusted
  BY DEF Trusted
<1>2. RowsFine' /\ NothingOverlooked'
  BY <1>1, RowsUntouched
<1>3. CASE op.kind # "push"
  <2>1. op'.step = "etag" /\ SameReads(op', op) /\ SameWrites(op', op)
    BY <1>3, Types, EndsWrite
  <2>2. ASSUME NEW c \in Trusted' PROVE Good(c, rows[c], op.now)'
    <3>1. Result(c) = rows[c]
      BY <1>3 DEF Result, Touched, Trusted
    <3>2. Good(c, rows[c], op.now)
      BY <1>1, <1>3, <3>1, ResultIsGood
    <3>3. op'.now = op.now
      BY <2>1 DEF SameReads
    <3> QED
      BY <3>2, <3>3, SameKnowledge
  <2>3. suspect \subseteq suspect' /\ suspect' \subseteq Checksums
    <3>1. op.drops \subseteq Checksums
      BY Types DEF Operation
    <3> QED
      BY <3>1, Types DEF Touched
  <2> QED
    BY <1>2, <1>3, <2>1, <2>2, <2>3, WrittenIsFine
<1>4. CASE op.kind = "push"
  <2>1. etag' # None => etag' <= clock' - Lag
    BY DEF TimesFine, serverVars
  <2> QED
    BY <1>2, <1>4, <2>1, Types, EndsWrite, NoOpIsBlank, BlankIsFine
<1> QED
  BY <1>3, <1>4

LEMMA SetETagKeeps ==
  ASSUME IInv, SetETag
  PROVE  AppFine'
<1>0. /\ UNCHANGED <<serverVars, rows, suspect>> /\ op' = NoOp /\ etag' = op.now
      /\ op.kind \in {"changes", "full"} /\ op.step = "etag"
  BY DEF SetETag, Outside, history
<1> USE <1>0, Parts
<1>1. RowsFine'
  <2>1. ASSUME NEW c \in Checksums, rows[c] # None PROVE Old(c, rows[c].stamp)'
    BY <2>1, SameKnowledge DEF RowsFine
  <2>2. ASSUME NEW c \in Trusted, rows[c] # None PROVE Accurate(c, rows[c])'
    BY <2>2, SameKnowledge DEF RowsFine
  <2> QED
    BY <2>1, <2>2 DEF RowsFine, Trusted
<1>2. NothingOverlooked'
  <2>1. ASSUME NEW c \in Trusted PROVE Good(c, rows[c], etag)'
    <3>1. Good(c, rows[c], op.now)
      BY DEF ChangesFine, FullFine
    <3> QED
      BY <3>1, SameKnowledge
  <2> QED
    BY <2>1 DEF NothingOverlooked, Trusted
<1>3. etag' # None => etag' <= clock' - Lag
  BY DEF TimesFine, serverVars
<1> QED
  BY <1>1, <1>2, <1>3, NoOpIsBlank, BlankIsFine

LEMMA StartPushKeeps ==
  ASSUME IInv, StartPush
  PROVE  AppFine'
<1>0. UNCHANGED <<serverVars, rows, etag, suspect>>
  BY DEF StartPush, history
<1> USE <1>0, Parts
<1>1. RowsFine' /\ NothingOverlooked'
  BY RowsUntouched DEF Trusted
<1>2. /\ op'.kind = "push" /\ op'.step = "link"
      /\ \A c \in Checksums :
           /\ op'.puts[c] = None
           /\ op'.found[c] # None => \E a \in announced : a.c = c /\ op'.found[c] = a.asset
  BY StartPushWrites
<1>3. TimesFine'
  BY <1>2 DEF TimesFine, serverVars
<1>4. FoundFine'
  <2>1. ASSUME NEW c \in Checksums, op'.found[c] # None PROVE Past(c, op.found[c])'
    <3>1. \A a : a = op'.found[c] => Past(c, a)
      BY <1>2, <2>1 DEF QueuesFine
    <3> QED
      BY <3>1, SameKnowledge
  <2> QED
    BY <1>2, <2>1 DEF FoundFine
<1>5. PutsFine' /\ ChangesFine' /\ FullFine' /\ PushFine' /\ DeviceFine'
  BY <1>2 DEF PutsFine, ChangesFine, FullFine, PushFine, DeviceFine
<1> QED
  BY <1>1, <1>3, <1>4, <1>5 DEF AppFine, OpFine

\* A copy of a row that differs in the mark of the device is as right as the row.
LEMMA CopyIsAsGood ==
  ASSUME NEW row \in Row, NEW copy \in Row, NEW c,
         copy.remote = row.remote, copy.stamp = row.stamp, copy.trashed = row.trashed
  PROVE  /\ Old(c, row.stamp) => Old(c, copy.stamp)
         /\ Accurate(c, row) => Accurate(c, copy)
         /\ \A time : Good(c, row, time) => Good(c, copy, time)
<1>1. copy # None /\ row # None
  BY NoneIsApart
<1>2. \A time : Good(c, row, time) => Good(c, copy, time)
  BY <1>1 DEF Good, ShowsAsset
<1>3. Accurate(c, row) => Accurate(c, copy)
  BY DEF Accurate
<1>4. Old(c, row.stamp) => Old(c, copy.stamp)
  OBVIOUS
<1> QED
  BY <1>2, <1>3, <1>4

\* A scan under way is right when what it is to write and to drop is.
LEMMA ScanIsFine ==
  ASSUME IInv, op.kind \in {"none", "device"}, UNCHANGED <<serverVars, etag, suspect>>,
         op'.kind = "device", op'.step \in {"scan", "link", "upsert", "prune"},
         \A c \in Checksums : op'.found[c] = None \/ op'.found[c] = op.found[c],
         RowsFine', NothingOverlooked',
         \A c \in Checksums : op'.puts[c] # None => Old(c, op'.puts[c].stamp),
         \A c \in Trusted :
           /\ op'.puts[c] # None =>
                Accurate(c, op'.puts[c]) /\ (etag # None => Good(c, op'.puts[c], etag))
           /\ c \in op'.drops /\ etag # None => Good(c, None, etag)
  PROVE  AppFine'
<1> USE Parts
<1>1. TimesFine'
  BY DEF TimesFine, serverVars
<1>2. FoundFine'
  <2>1. ASSUME NEW c \in Checksums, op'.found[c] # None PROVE Past(c, op.found[c])'
    <3>1. \A a : a = op'.found[c] => Past(c, a)
      BY <2>1 DEF FoundFine
    <3> QED
      BY <3>1, SameKnowledge
  <2> QED
    BY <2>1 DEF FoundFine
<1>3. PutsFine'
  <2>1. ASSUME NEW c \in Checksums, op'.puts[c] # None PROVE Old(c, op.puts[c].stamp)'
    BY <2>1, SameKnowledge
  <2> QED
    BY <2>1 DEF PutsFine
<1>4. DeviceFine'
  <2>1. ASSUME NEW c \in Trusted, op'.puts[c] # None
        PROVE  Accurate(c, op.puts[c])' /\ (etag # None => Good(c, op.puts[c], etag)')
    BY <2>1, SameKnowledge
  <2>2. ASSUME NEW c \in Trusted, c \in op'.drops, etag # None PROVE Good(c, None, etag)'
    BY <2>2, SameKnowledge
  <2> QED
    BY <2>1, <2>2 DEF DeviceFine, Trusted
<1>5. ChangesFine' /\ FullFine' /\ PushFine'
  BY DEF ChangesFine, FullFine, PushFine
<1> QED
  BY <1>1, <1>2, <1>3, <1>4, <1>5 DEF AppFine, OpFine

LEMMA StartDeviceKeeps ==
  ASSUME IInv, StartDevice
  PROVE  AppFine'
<1>0. UNCHANGED <<serverVars, rows, etag, suspect>> /\ op.kind = "none"
  BY DEF StartDevice, Only, Outside, history
<1> USE <1>0, Parts
<1>1. RowsFine' /\ NothingOverlooked'
  BY RowsUntouched DEF Trusted
<1>2. /\ op'.kind = "device" /\ op'.step = "scan" /\ op'.drops = {}
      /\ \A c \in Checksums :
           op'.found[c] = None /\ (op'.puts[c] # None => op'.puts[c] = rows[c])
  BY StartDeviceWrites
<1>3. ASSUME NEW c \in Checksums, op'.puts[c] # None
      PROVE  /\ Old(c, op'.puts[c].stamp)
             /\ c \in Trusted =>
                  Accurate(c, op'.puts[c]) /\ (etag # None => Good(c, op'.puts[c], etag))
  BY <1>2, <1>3 DEF RowsFine, NothingOverlooked
<1> QED
  BY <1>1, <1>2, <1>3, ScanIsFine DEF Trusted

LEMMA ScanKeeps ==
  ASSUME IInv, Scan
  PROVE  AppFine'
<1>0. UNCHANGED <<serverVars, rows, etag, suspect>> /\ op.kind = "device" /\ op.step = "scan"
  BY DEF Scan, Only, Outside, history, At
<1> USE <1>0, Parts
<1>1. RowsFine' /\ NothingOverlooked'
  BY RowsUntouched DEF Trusted
<1>2. /\ op'.kind = "device" /\ op'.step = "link" /\ op'.found = op.found
      /\ \A c \in Checksums :
           /\ c \in op'.drops => op.puts[c] # None /\ op.puts[c].remote = None
           /\ op'.puts[c] # None =>
                /\ op.puts[c] # None
                /\ op'.puts[c] \in {op.puts[c], [op.puts[c] EXCEPT !.local = FALSE]}
  BY ScanWrites
<1>3. ASSUME NEW c \in Checksums, op'.puts[c] # None
      PROVE  /\ Old(c, op'.puts[c].stamp)
             /\ c \in Trusted =>
                  Accurate(c, op'.puts[c]) /\ (etag # None => Good(c, op'.puts[c], etag))
  <2>1. op.puts[c] # None /\ op.puts[c] \in Row
    BY <1>2, <1>3, Types
  <2>2. /\ Old(c, op.puts[c].stamp)
        /\ c \in Trusted => Accurate(c, op.puts[c]) /\ (etag # None => Good(c, op.puts[c], etag))
    BY <2>1 DEF PutsFine, DeviceFine
  <2>3. /\ op'.puts[c] \in Row /\ op'.puts[c].remote = op.puts[c].remote
        /\ op'.puts[c].stamp = op.puts[c].stamp /\ op'.puts[c].trashed = op.puts[c].trashed
    <3>1. op'.puts[c] \in {op.puts[c], [op.puts[c] EXCEPT !.local = FALSE]}
      BY <1>2, <1>3
    <3> QED
      BY <2>1, <3>1 DEF Row
  <2> QED
    BY <2>1, <2>2, <2>3, CopyIsAsGood
<1>4. ASSUME NEW c \in Trusted, c \in op'.drops, etag # None PROVE Good(c, None, etag)
  <2>1. c \in Checksums /\ op.puts[c] # None /\ op.puts[c].remote = None
    BY <1>2, <1>4 DEF Trusted
  <2>2. Good(c, op.puts[c], etag)
    BY <1>4, <2>1 DEF DeviceFine
  <2>3. server[c] # None => server[c].id # None
    BY <2>1, Types, AssetFields, NoneIsApart
  <2> QED
    BY <2>1, <2>2, <2>3 DEF Good, ShowsAsset
<1> QED
  BY <1>1, <1>2, <1>3, <1>4, ScanIsFine DEF Trusted

LEMMA LinkDeviceKeeps ==
  ASSUME IInv, LinkDevice
  PROVE  AppFine'
<1>0. UNCHANGED <<serverVars, rows, etag, suspect>> /\ op.kind = "device" /\ op.step = "link"
  BY DEF LinkDevice, Only, Outside, history, At
<1> USE <1>0, Parts
<1>1. RowsFine' /\ NothingOverlooked'
  BY RowsUntouched DEF Trusted
<1>2. /\ op'.kind = "device" /\ op'.step = "upsert" /\ op'.found = op.found
      /\ op'.drops = op.drops
  BY Types, LinkDeviceWrites
<1>3. ASSUME NEW c \in Checksums, op'.puts[c] # None
      PROVE  /\ Old(c, op'.puts[c].stamp)
             /\ c \in Trusted =>
                  Accurate(c, op'.puts[c]) /\ (etag # None => Good(c, op'.puts[c], etag))
  <2>1. op'.puts[c] = IF c \notin op.adds THEN op.puts[c]
                      ELSE IF rows[c] = None THEN FreshRow
                           ELSE [rows[c] EXCEPT !.local = TRUE]
    BY Types, LinkDeviceWrites
  <2>2. CASE op'.puts[c] = op.puts[c]
    BY <1>3, <2>2 DEF PutsFine, DeviceFine
  <2>3. CASE rows[c] = None /\ op'.puts[c] = FreshRow
    <3>1. FreshRow.remote = None /\ FreshRow.stamp = 0
      BY DEF FreshRow
    <3>2. Old(c, 0)
      BY Types, AssetFields DEF Old
    <3>3. Accurate(c, FreshRow)
      BY <3>1 DEF Accurate
    <3>4. c \in Trusted /\ etag # None => Good(c, FreshRow, etag)
      BY <2>3, <3>1 DEF NothingOverlooked, Good, ShowsAsset
    <3> QED
      BY <2>3, <3>1, <3>2, <3>3, <3>4
  <2>4. CASE rows[c] # None /\ op'.puts[c] = [rows[c] EXCEPT !.local = TRUE]
    <3>1. /\ rows[c] \in Row /\ Old(c, rows[c].stamp)
          /\ c \in Trusted => Accurate(c, rows[c]) /\ (etag # None => Good(c, rows[c], etag))
      BY <2>4, Types DEF RowsFine, NothingOverlooked
    <3>2. /\ op'.puts[c] \in Row /\ op'.puts[c].remote = rows[c].remote
          /\ op'.puts[c].stamp = rows[c].stamp /\ op'.puts[c].trashed = rows[c].trashed
      BY <2>4, <3>1 DEF Row
    <3> QED
      BY <3>1, <3>2, CopyIsAsGood
  <2> QED
    BY <2>1, <2>2, <2>3, <2>4
<1>4. ASSUME NEW c \in Trusted, c \in op'.drops, etag # None PROVE Good(c, None, etag)
  BY <1>2, <1>4 DEF DeviceFine
<1> QED
  BY <1>1, <1>2, <1>3, <1>4, ScanIsFine DEF Trusted

LEMMA ScanWritesFine ==
  ASSUME IInv, op.kind = "device", UNCHANGED <<serverVars, etag, suspect>>,
         \A c \in Checksums :
           \/ rows'[c] = rows[c]
           \/ op.puts[c] # None /\ rows'[c] = op.puts[c]
           \/ c \in op.drops /\ rows'[c] = None
  PROVE  RowsFine' /\ NothingOverlooked'
<1> USE Parts
<1>1. ASSUME NEW c \in Checksums, rows'[c] # None PROVE Old(c, rows[c].stamp)'
  <2>1. \A s : s = rows'[c].stamp => Old(c, s)
    BY <1>1 DEF RowsFine, PutsFine
  <2> QED
    BY <2>1, SameKnowledge
<1>2. ASSUME NEW c \in Trusted, rows'[c] # None PROVE Accurate(c, rows[c])'
  <2>1. \A row : row = rows'[c] => Accurate(c, row)
    BY <1>2 DEF RowsFine, DeviceFine, Trusted
  <2> QED
    BY <2>1, SameKnowledge
<1>3. ASSUME NEW c \in Trusted, etag # None PROVE Good(c, rows[c], etag)'
  <2>1. \A row : row = rows'[c] => Good(c, row, etag)
    BY <1>3 DEF NothingOverlooked, DeviceFine, Trusted
  <2> QED
    BY <2>1, SameKnowledge
<1> QED
  BY <1>1, <1>2, <1>3 DEF RowsFine, NothingOverlooked, Trusted

LEMMA UpsertDeviceKeeps ==
  ASSUME IInv, UpsertDevice
  PROVE  AppFine'
<1>0. /\ UNCHANGED <<serverVars, etag, suspect>> /\ op.kind = "device"
      /\ \A c \in Checksums :
           rows'[c] = IF IsLocal(op.puts[c]) THEN op.puts[c] ELSE rows[c]
  BY RowsWritten DEF UpsertDevice, Outside, history, At
<1> USE <1>0, Parts
<1>1. RowsFine' /\ NothingOverlooked'
  BY ScanWritesFine DEF IsLocal
<1>2. /\ op'.kind = "device" /\ op'.step = "prune" /\ op'.found = op.found
      /\ op'.drops = op.drops /\ op'.puts = op.puts
  BY Types, UpsertDeviceWrites DEF SameReads, SameWrites
<1>3. ASSUME NEW c \in Checksums, op'.puts[c] # None PROVE Old(c, op'.puts[c].stamp)
  BY <1>2, <1>3 DEF PutsFine
<1> QED
  BY <1>1, <1>2, <1>3, ScanIsFine DEF DeviceFine

LEMMA FailUpsertDeviceKeeps ==
  ASSUME IInv, FailUpsertDevice
  PROVE  AppFine'
<1>0. UNCHANGED <<serverVars, rows, etag, suspect>> /\ op.kind = "device" /\ op.step = "upsert"
  BY DEF FailUpsertDevice, Outside, history, At
<1> USE <1>0, Parts
<1>1. RowsFine' /\ NothingOverlooked'
  BY RowsUntouched DEF Trusted
<1>2. /\ op'.kind = "device" /\ op'.step = "prune" /\ op'.found = op.found
      /\ op'.drops = op.drops /\ op'.puts = op.puts
  BY Types, FailUpsertDeviceWrites
<1>3. ASSUME NEW c \in Checksums, op'.puts[c] # None PROVE Old(c, op'.puts[c].stamp)
  BY <1>2, <1>3 DEF PutsFine
<1> QED
  BY <1>1, <1>2, <1>3, ScanIsFine DEF DeviceFine

LEMMA PruneKeeps ==
  ASSUME IInv, Prune
  PROVE  AppFine'
<1>0. /\ UNCHANGED <<serverVars, etag, suspect>> /\ op.kind = "device" /\ op' = NoOp
      /\ \A c \in Checksums :
           rows'[c] = IF c \in op.drops THEN None
                      ELSE IF op.puts[c] # None /\ ~op.puts[c].local THEN op.puts[c]
                      ELSE rows[c]
  BY RowsWritten DEF Prune, Outside, history, At
<1>1. RowsFine' /\ NothingOverlooked'
  BY <1>0, ScanWritesFine
<1>2. etag' # None => etag' <= clock' - Lag
  BY <1>0, Parts DEF TimesFine, serverVars
<1> QED
  BY <1>0, <1>1, <1>2, NoOpIsBlank, BlankIsFine

-----------------------------------------------------------------------------
(* Nothing is missed                                                       *)

LEMMA InitIsFine == Init => IInv
<1> SUFFICES ASSUME Init PROVE IInv
  OBVIOUS
<1>1. TypeOK
  BY InitTypes
<1>2. ServerFine
  BY DEF Init, ServerFine, Uploaded
<1>3. QueuesFine
  BY DEF Init, QueuesFine
<1>4. RowsFine /\ NothingOverlooked
  BY DEF Init, RowsFine, NothingOverlooked, Trusted
<1>5. op.kind = "none" /\ etag = None /\ Blank(op)
  BY NoOpIsBlank DEF Init
<1>6. TimesFine /\ ChangesFine /\ FullFine /\ PushFine /\ DeviceFine
  BY <1>5 DEF TimesFine, ChangesFine, FullFine, PushFine, DeviceFine
<1>7. FoundFine /\ PutsFine
  BY <1>5 DEF FoundFine, PutsFine, Blank
<1> QED
  BY <1>1, <1>2, <1>3, <1>4, <1>6, <1>7 DEF IInv, AppFine, OpFine

LEMMA StepsKeepIInv ==
  ASSUME ClockIsNotAhead, OneChunk, IInv, [Next]_vars
  PROVE  IInv'
<1>1. TypeOK' /\ MovesOn
  BY Parts, StepsKeepTypes, ServerMovesOn
<1>2. ServerFine' /\ QueuesFine'
  BY <1>1, Parts, ServerStaysFine, QueuesStayFine
<1>3. AppFine'
  <2>1. CASE UNCHANGED vars
    BY <1>1, <2>1, RestKeeps DEF vars, history
  <2>2. CASE ServerStep \/ DeviceStep
    <3>1. UNCHANGED <<rows, etag, op, suspect>>
      BY <2>2 DEF ServerStep, Upload, Change, Delete, Announce, TimePasses, CleanUpAudits,
         DeviceStep, AddFile, RemoveFile, AppUnchanged, history
    <3> QED
      BY <1>1, <3>1, RestKeeps
  <2>3. CASE ApplyGone \/ Clear
    BY <2>3, ApplyGoneKeeps, ClearKeeps
  <2>4. CASE RemoteStep
    BY <2>4, StartRemoteKeeps, FetchAuditsKeeps, FetchUpdatesKeeps, EndsKeep, ApplyRemovalsKeeps,
       LinkKeeps, StartFullKeeps, LoadKeeps, DiffKeeps, DropKeeps, UpsertKeeps, FailUpsertKeeps,
       SetETagKeeps, StartPushKeeps DEF RemoteStep
  <2>5. CASE ScanStep
    BY <2>5, StartDeviceKeeps, ScanKeeps, LinkDeviceKeeps, UpsertDeviceKeeps,
       FailUpsertDeviceKeeps, PruneKeeps
       DEF ScanStep
  <2> QED
    BY <2>1, <2>2, <2>3, <2>4, <2>5, StepsOfTheApp
<1> QED
  BY <1>1, <1>2, <1>3 DEF IInv

LEMMA IInvShows == IInv => NothingMissed
<1> SUFFICES ASSUME IInv, etag # None, NEW c \in Trusted
             PROVE  /\ server[c] # None =>
                         \/ WillLearnOfAsset(c)
                         \/ /\ rows[c] # None
                            /\ rows[c].remote = server[c].id
                            /\ rows[c].trashed = server[c].trashed
                    /\ server[c] = None /\ rows[c] # None /\ rows[c].remote # None =>
                         WillLearnOfRemoval(rows[c].remote)
  BY DEF NothingMissed, Trusted
<1>1. Good(c, rows[c], etag)
  BY Parts DEF NothingOverlooked
<1> QED
  BY <1>1 DEF Good, ShowsAsset, Tracked, WillLearnOfAsset, WillLearnOfRemoval

\* Nothing falls between two synchronisations, however the changes of the server, the
\* announcements, the scans and failing requests come between their steps: what the app
\* does not show as the server has it will be brought up by the time that it asks for.
\* Three kinds of assets are excepted, as suspect: those of rows the database refused
\* to write, which the time passes over all the same; those of an announcement that was
\* no longer true when it was written; and all of them once the database was cleared
\* while an operation with the server or a scan was under way.
THEOREM NothingIsMissed ==
  ASSUME ClockIsNotAhead, OneChunk
  PROVE  Spec => []NothingMissed
<1>1. Init => IInv
  BY InitIsFine
<1>2. IInv /\ [Next]_vars => IInv'
  BY StepsKeepIInv
<1>3. IInv => NothingMissed
  BY IInvShows
<1> QED
  BY <1>1, <1>2, <1>3, PTL DEF Spec

=============================================================================
