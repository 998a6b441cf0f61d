---------------------------- MODULE PeopleProofs -----------------------------
(***************************************************************************)
(* People and their faces, for any number of assets, looks, recognitions,  *)
(* requests and failures: what counts as recognised is complete, and no    *)
(* face is lost without a reason.                                          *)
(***************************************************************************)
EXTENDS People, QueueLemmas

-----------------------------------------------------------------------------
(* The inductive invariant                                                 *)

\* The looks of an asset outside S have a face in the table F.
Covered(F, a, S) == \A l \in LooksOf[a] \ S : \E f \in F : f.asset = a /\ f.look = l

\* The looks a recognition has still to give a face.
Pending(s) == s.left \cup (IF s.face = None THEN {s.look} ELSE {})

\* A recognition has given a face to every other look of its asset.
GoodWorker(s) ==
  \/ s = Idle
  \/ /\ s \in Busy
     /\ s.pc # "feature" => s.face = None
     /\ s.pc \in {"person", "feature"} => s.look # None
     /\ s.pc \in {"face", "person", "feature"} =>
          /\ s.job.name = "recognise"
          /\ s.job.asset \in assets \ robbed => Covered(faces, s.job.asset, Pending(s))
WorkersFine == worker \in [Workers -> Busy \cup {Idle}] /\ \A w \in Workers : GoodWorker(worker[w])

\* People that may be deleted: those of old, who are gone, or who are known
\* to be without faces worth keeping.
Condemned(i) == i \in Nat /\ i <= made /\ (i \notin Ids(people) \/ i \in forced \cup retired)
Deletion == {j \in BackgroundJob : Condemned(j.id)}

QueuesFine == queue \in Seq(Job) /\ background \in Seq(Deletion)

RequestFine ==
  /\ request \in Request \cup {NoRequest}
  /\ request.pc = "mergeFaces" => request.old <= made
  /\ request.pc = "queueDelete" => Condemned(request.old)

PeopleFine ==
  /\ people \subseteq Person /\ IsFiniteSet(people)
  /\ made \in Nat
  /\ \A p \in people : p.id <= made

FacesFine ==
  /\ faces \subseteq Face
  /\ found \in Nat
  /\ \A f \in faces : f.id <= found /\ f.person \in Ids(people)
  /\ \A f, g \in faces : f.id = g.id => f = g
  /\ \A f \in faces : f.person \in retired => f.id \in late

AssetsFine ==
  /\ assets \subseteq Assets /\ recognised \subseteq assets /\ robbed \subseteq Assets
  /\ RecognisedInFull

HistoryFine == retired \subseteq Nat /\ forced \subseteq Nat /\ late \subseteq Nat /\ events \in Nat

IInv ==
  /\ WorkersFine /\ QueuesFine /\ RequestFine
  /\ PeopleFine /\ FacesFine /\ AssetsFine /\ HistoryFine

LEMMA InvariantIsTyped == IInv => TypeOK
BY SeqMonotonic DEF IInv, WorkersFine, QueuesFine, Deletion, RequestFine, PeopleFine,
   FacesFine, AssetsFine, HistoryFine, TypeOK

\* The jobs for a finite set of assets or people are finitely many.
LEMMA JobsAreFinite ==
  ASSUME NEW S, IsFiniteSet(S)
  PROVE  /\ IsFiniteSet({[name |-> "recognise", asset |-> i] : i \in S})
         /\ IsFiniteSet({[name |-> "delete", id |-> i] : i \in S})
         /\ IsFiniteSet(Ids(S))
<1> DEFINE r == [i \in S |-> [name |-> "recognise", asset |-> i]]
           d == [i \in S |-> [name |-> "delete", id |-> i]]
           n == [i \in S |-> i.id]
<1>1. /\ r \in [S -> {r[i] : i \in S}] /\ d \in [S -> {d[i] : i \in S}]
      /\ n \in [S -> {n[i] : i \in S}]
  OBVIOUS
<1>2. /\ {r[i] : i \in S} = {[name |-> "recognise", asset |-> i] : i \in S}
      /\ {d[i] : i \in S} = {[name |-> "delete", id |-> i] : i \in S}
      /\ {n[i] : i \in S} = Ids(S)
  BY DEF Ids
<1> HIDE DEF r, d, n
<1>3. IsFiniteSet({r[i] : i \in S})
  BY <1>1, ImageIsFinite
<1>4. IsFiniteSet({d[i] : i \in S})
  BY <1>1, ImageIsFinite
<1>5. IsFiniteSet({n[i] : i \in S})
  BY <1>1, ImageIsFinite
<1> QED
  BY <1>2, <1>3, <1>4, <1>5

LEMMA RecogniseKeepsQueue ==
  ASSUME NEW S, S \subseteq Assets, queue \in Seq(Job), RecogniseAll(S)
  PROVE  queue' \in Seq(Job)
<1> DEFINE jobs == {[name |-> "recognise", asset |-> a] : a \in S}
<1>1. IsFiniteSet(jobs)
  BY AssetsAreFinite, FS_Subset, JobsAreFinite
<1>2. jobs \in SUBSET Job
  BY DEF Job
<1>3. queue' = queue \o SetToSeq(jobs)
  BY DEF RecogniseAll
<1> HIDE DEF jobs
<1> QED
  BY <1>1, <1>2, <1>3, QueueTypes

LEMMA InitEstablishesInvariant == Init => IInv
<1> SUFFICES ASSUME Init PROVE IInv
  OBVIOUS
<1>1. WorkersFine
  BY DEF Init, WorkersFine, GoodWorker
<1>2. QueuesFine
  <2> DEFINE jobs == {[name |-> "recognise", asset |-> a] : a \in Assets}
  <2>1. IsFiniteSet(jobs)
    BY AssetsAreFinite, JobsAreFinite
  <2>2. jobs \in SUBSET Job
    BY DEF Job
  <2>3. queue = SetToSeq(jobs) /\ background = <<>>
    BY DEF Init
  <2> HIDE DEF jobs
  <2>4. queue \in Seq(Job)
    BY <2>1, <2>2, <2>3, SetToSeqIsSeq
  <2> QED
    BY <2>3, <2>4 DEF QueuesFine
<1>3. RequestFine
  BY DEF Init, RequestFine, NoRequest
<1>4. PeopleFine /\ FacesFine /\ AssetsFine /\ HistoryFine
  BY FS_EmptySet DEF Init, PeopleFine, FacesFine, AssetsFine, RecognisedInFull, HistoryFine
<1> QED
  BY <1>1, <1>2, <1>3, <1>4 DEF IInv

-----------------------------------------------------------------------------
(* Each part is kept under a condition on the tables.                      *)

\* A face that is gone goes with its asset, or leaves it robbed.
LooksStay ==
  /\ assets' \subseteq assets /\ robbed \subseteq robbed'
  /\ \A f \in faces : f.asset \in assets' \ robbed' =>
       \E g \in faces' : g.asset = f.asset /\ g.look = f.look

\* Who is condemned stays so, and no number is used again.
DoomStays == made' \in Nat /\ \A i \in Nat : Condemned(i) => Condemned(i)'

LEMMA CoveredStays ==
  ASSUME LooksStay, NEW a, NEW S, a \in assets' \ robbed', Covered(faces, a, S)
  PROVE  Covered(faces', a, S)
BY DEF LooksStay, Covered

\* One recognition moves on.
LEMMA WorkersStayFine ==
  ASSUME IInv, LooksStay, NEW w \in Workers, NEW new,
         worker' = [worker EXCEPT ![w] = new],
         \/ new = Idle
         \/ /\ new \in Busy
            /\ new.pc # "feature" => new.face = None
            /\ new.pc \in {"person", "feature"} => new.look # None
            /\ new.pc \in {"face", "person", "feature"} =>
                 /\ new.job.name = "recognise"
                 /\ new.job.asset \in assets' \ robbed' =>
                      Covered(faces', new.job.asset, Pending(new))
  PROVE  WorkersFine'
<1>1. worker' \in [Workers -> Busy \cup {Idle}]
  BY DEF IInv, WorkersFine
<1>2. \A v \in Workers : worker'[v] = IF v = w THEN new ELSE worker[v]
  BY DEF IInv, WorkersFine
<1>3. ASSUME NEW v \in Workers PROVE GoodWorker(worker[v])'
  <2>1. CASE v = w
    BY <1>2, <2>1 DEF GoodWorker, Pending
  <2>2. CASE v # w
    <3>1. worker'[v] = worker[v] /\ GoodWorker(worker[v])
      BY <1>2, <2>2 DEF IInv, WorkersFine
    <3> QED
      BY <3>1, CoveredStays DEF GoodWorker, Pending, LooksStay
  <2> QED
    BY <2>1, <2>2
<1> QED
  BY <1>1, <1>3 DEF WorkersFine

LEMMA WorkersUntouched ==
  ASSUME IInv, LooksStay, worker' = worker
  PROVE  WorkersFine'
<1>1. ASSUME NEW v \in Workers PROVE GoodWorker(worker[v])'
  <2>1. GoodWorker(worker[v])
    BY DEF IInv, WorkersFine
  <2> QED
    BY <2>1, CoveredStays DEF GoodWorker, Pending, LooksStay
<1> QED
  BY <1>1 DEF IInv, WorkersFine

LEMMA DoneIsFine ==
  ASSUME IInv, LooksStay, NEW w \in Workers, Done(w)
  PROVE  WorkersFine'
BY WorkersStayFine DEF Done

LEMMA DeletionsStay ==
  ASSUME IInv, DoomStays
  PROVE  /\ background \in Seq(Deletion') /\ Deletion' \subseteq BackgroundJob
         /\ Deletion \subseteq Deletion'
<1>1. Deletion \subseteq Deletion'
  BY DEF Deletion, DoomStays, BackgroundJob
<1> QED
  BY <1>1, SeqMonotonic DEF IInv, QueuesFine, Deletion

\* People who are condemned are deleted.
LEMMA DeleteAllKeepsQueues ==
  ASSUME IInv, DoomStays, queue' \in Seq(Job), NEW S, IsFiniteSet(S), DeleteAll(S),
         \A i \in S : i \in Nat /\ Condemned(i)'
  PROVE  QueuesFine'
<1> DEFINE jobs == {[name |-> "delete", id |-> i] : i \in S}
<1>1. IsFiniteSet(jobs)
  BY JobsAreFinite
<1>2. jobs \in SUBSET Deletion'
  BY DEF Deletion, BackgroundJob
<1>3. background' = background \o SetToSeq(jobs)
  BY DEF DeleteAll
<1> HIDE DEF jobs
<1>4. background' \in Seq(Deletion')
  BY <1>1, <1>2, <1>3, DeletionsStay, QueueTypes
<1> QED
  BY <1>4 DEF QueuesFine

LEMMA RequestUntouched ==
  ASSUME IInv, DoomStays, made <= made', request' = request
  PROVE  RequestFine'
BY DEF IInv, RequestFine, DoomStays, PeopleFine, Request, NoRequest

\* Steps that leave the tables alone.
Tables == <<assets, faces, people, made, found, recognised, history>>

LEMMA TablesUntouched ==
  ASSUME IInv, UNCHANGED Tables
  PROVE  LooksStay /\ DoomStays /\ PeopleFine' /\ FacesFine' /\ AssetsFine'
         /\ (events' \in Nat => HistoryFine') /\ made <= made'
BY DEF Tables, history, LooksStay, DoomStays, Condemned, IInv, PeopleFine, FacesFine, AssetsFine,
   HistoryFine, RecognisedInFull

-----------------------------------------------------------------------------
(* Steps that leave the tables alone.                                      *)

LEMMA QueueStep ==
  ASSUME IInv,
         \/ \E a \in Assets : QueueRecognition(a)
         \/ \E missing \in BOOLEAN : Recognise(missing)
  PROVE  IInv'
<1>1. UNCHANGED Tables /\ UNCHANGED <<background, worker, request>> /\ events' \in Nat
  <2>1. UNCHANGED Tables /\ UNCHANGED <<background, worker, request>>
    BY DEF QueueRecognition, Recognise, Tables, history
  <2>2. events' = events + 1 /\ events \in Nat
    BY DEF QueueRecognition, Recognise, IInv, HistoryFine
  <2> QED
    BY <2>1, <2>2
<1>2. LooksStay /\ DoomStays /\ PeopleFine' /\ FacesFine' /\ AssetsFine' /\ HistoryFine' /\ made <= made'
  BY <1>1, TablesUntouched
<1>3. WorkersFine' /\ RequestFine'
  BY <1>1, <1>2, WorkersUntouched, RequestUntouched
<1>4. \E j \in Job : queue' = Append(queue, j)
  BY DEF QueueRecognition, Recognise, Job
<1>5. QueuesFine'
  BY <1>1, <1>2, <1>4, QueueTypes, DeletionsStay DEF IInv, QueuesFine
<1> QED
  BY <1>2, <1>3, <1>5 DEF IInv

LEMMA TakeKeepsInvariant ==
  ASSUME IInv, NEW w \in Workers, Take(w)
  PROVE  IInv'
<1> DEFINE new == [pc |-> "run", job |-> Head(queue), left |-> {}, look |-> None,
                   person |-> None, face |-> None]
<1>1. UNCHANGED Tables /\ UNCHANGED <<background, request, events>> /\ events' \in Nat
  BY DEF Take, Tables, IInv, HistoryFine
<1>2. LooksStay /\ DoomStays /\ PeopleFine' /\ FacesFine' /\ AssetsFine' /\ HistoryFine' /\ made <= made'
  BY <1>1, TablesUntouched
<1>3. Head(queue) \in Job /\ Tail(queue) \in Seq(Job)
  BY QueueTypes DEF Take, IInv, QueuesFine
<1>4. new \in Busy /\ new.pc = "run" /\ new.face = None
  BY <1>3 DEF Busy
<1>5. worker' = [worker EXCEPT ![w] = new]
  BY DEF Take
<1> HIDE DEF new
<1>6. WorkersFine' /\ RequestFine'
  BY <1>1, <1>2, <1>4, <1>5, WorkersStayFine, RequestUntouched
<1>7. QueuesFine'
  BY <1>1, <1>2, <1>3, DeletionsStay DEF Take, QueuesFine
<1> QED
  BY <1>2, <1>6, <1>7 DEF IInv

\* The record of a recognition.
LEMMA BusyWorker ==
  ASSUME IInv, NEW w \in Workers, worker[w].pc # "idle"
  PROVE  /\ worker[w] \in Busy /\ GoodWorker(worker[w]) /\ worker[w] # Idle
         /\ worker \in [Workers -> Busy \cup {Idle}]
BY DEF IInv, WorkersFine, GoodWorker, Idle

\* A recognition goes on with the same asset.
LEMMA RecognitionGoesOn ==
  ASSUME IInv, LooksStay, NEW w \in Workers, worker[w].job.name = "recognise",
         worker' = [worker EXCEPT ![w] = worker'[w]],
         worker'[w] \in Busy, worker'[w].job = worker[w].job,
         worker'[w].pc # "feature" => worker'[w].face = None,
         worker'[w].pc \in {"person", "feature"} => worker'[w].look # None,
         worker[w].job.asset \in assets' \ robbed' =>
           Covered(faces', worker[w].job.asset, Pending(worker'[w]))
  PROVE  WorkersFine'
BY WorkersStayFine

LEMMA QueueingKeepsInvariant ==
  ASSUME IInv, NEW w \in Workers, HandleQueueRecognizeFaces(w)
  PROVE  IInv'
<1>1. /\ UNCHANGED <<assets, faces, people, made, found, recognised, retired, late, robbed>>
      /\ UNCHANGED <<request, events>> /\ events' \in Nat /\ worker[w].pc # "idle"
  BY DEF HandleQueueRecognizeFaces, At, history, IInv, HistoryFine
<1>2. CASE /\ (RecogniseAll(Missing) \/ RecogniseAll(assets))
           /\ Done(w) /\ UNCHANGED <<background, forced>>
  <2>1. UNCHANGED Tables
    BY <1>1, <1>2 DEF Tables, history
  <2>2. LooksStay /\ DoomStays /\ PeopleFine' /\ FacesFine' /\ AssetsFine' /\ HistoryFine' /\ made <= made'
    BY <1>1, <2>1, TablesUntouched
  <2>3. WorkersFine' /\ RequestFine'
    BY <1>1, <1>2, <2>2, DoneIsFine, RequestUntouched
  <2>4. Missing \subseteq Assets /\ assets \subseteq Assets /\ queue \in Seq(Job)
    BY DEF Missing, IInv, AssetsFine, QueuesFine
  <2>5. queue' \in Seq(Job)
    BY <1>2, <2>4, RecogniseKeepsQueue
  <2>6. QueuesFine'
    BY <1>2, <2>2, <2>5, DeletionsStay DEF QueuesFine
  <2> QED
    BY <2>2, <2>3, <2>6 DEF IInv
<1>3. CASE At(w, "queueAll", "run")
  <2>1. /\ DeleteAll(Ids(people)) /\ forced' = forced \cup Ids(people)
        /\ worker' = [worker EXCEPT ![w].pc = "queue"] /\ queue' = queue
    BY <1>3 DEF At, HandleQueueRecognizeFaces
  <2>2. Ids(people) \subseteq Nat /\ IsFiniteSet(Ids(people)) /\ \A i \in Ids(people) : i <= made
    BY JobsAreFinite DEF Ids, Person, IInv, PeopleFine
  <2>3. LooksStay /\ DoomStays /\ made <= made'
    BY <1>1, <2>1 DEF LooksStay, DoomStays, Condemned, IInv, PeopleFine
  <2>4. PeopleFine' /\ FacesFine' /\ AssetsFine' /\ HistoryFine'
    BY <1>1, <2>1, <2>2 DEF IInv, PeopleFine, FacesFine, AssetsFine, RecognisedInFull, HistoryFine
  <2>5. WorkersFine'
    <3>1. /\ worker'[w] = [worker[w] EXCEPT !.pc = "queue"]
          /\ worker' = [worker EXCEPT ![w] = worker'[w]]
      BY <1>1, <2>1, BusyWorker
    <3>2. worker[w].face = None
      BY <1>1, <1>3, BusyWorker DEF At, GoodWorker
    <3>3. worker'[w] \in Busy /\ worker'[w].pc = "queue" /\ worker'[w].face = None
      BY <1>1, <3>1, <3>2, BusyWorker DEF Busy
    <3> QED
      BY <2>3, <3>1, <3>3, WorkersStayFine
  <2>6. QueuesFine'
    <3>1. \A i \in Ids(people) : i \in Nat /\ Condemned(i)'
      BY <1>1, <2>1, <2>2 DEF Condemned
    <3> QED
      BY <2>1, <2>2, <2>3, <3>1, DeleteAllKeepsQueues DEF IInv, QueuesFine
  <2> QED
    BY <1>1, <2>3, <2>4, <2>5, <2>6, RequestUntouched DEF IInv
<1> QED
  BY <1>2, <1>3 DEF HandleQueueRecognizeFaces, history

\* What a recognition reads.
LEMMA ReadingKeepsInvariant ==
  ASSUME IInv, NEW w \in Workers, Load(w) \/ Search(w) \/ FailRecognition(w)
  PROVE  IInv'
<1>1. UNCHANGED Tables /\ UNCHANGED <<queue, background, request>> /\ events' \in Nat
  <2>1. UNCHANGED Tables /\ UNCHANGED <<queue, background, request>>
    BY DEF Load, Search, FailRecognition, At, Tables, history
  <2>2. events' \in {events, events + 1} /\ events \in Nat
    BY DEF Load, Search, FailRecognition, At, IInv, HistoryFine
  <2> QED
    BY <2>1, <2>2
<1>2. LooksStay /\ DoomStays /\ PeopleFine' /\ FacesFine' /\ AssetsFine' /\ HistoryFine' /\ made <= made'
  BY <1>1, TablesUntouched
<1>3. QueuesFine' /\ RequestFine'
  BY <1>1, <1>2, DeletionsStay, RequestUntouched DEF IInv, QueuesFine
<1>4. WorkersFine'
  <2>1. CASE Done(w)
    BY <1>2, <2>1, DoneIsFine
  <2>2. CASE Load(w) /\ ~Done(w)
    <3> DEFINE a == worker[w].job.asset
    <3>1. /\ worker[w].pc = "run" /\ worker[w].job.name = "recognise"
          /\ worker' = [worker EXCEPT ![w].left = LooksOf[a], ![w].pc = "face"]
      BY <2>2 DEF Load, At
    <3>2. worker[w] \in Busy /\ worker[w].face = None /\ a \in Assets
      BY <3>1, BusyWorker DEF GoodWorker, Busy, Job
    <3>3. LooksOf[a] \in SUBSET Looks
      BY <3>2, LooksOfAssets
    <3>4. /\ worker'[w] = [[worker[w] EXCEPT !.left = LooksOf[a]] EXCEPT !.pc = "face"]
          /\ worker' = [worker EXCEPT ![w] = worker'[w]]
      BY <3>1, BusyWorker
    <3>5. /\ worker'[w] \in Busy /\ worker'[w].pc = "face" /\ worker'[w].face = None
          /\ worker'[w].job = worker[w].job /\ worker'[w].left = LooksOf[a]
      BY <3>2, <3>3, <3>4 DEF Busy
    <3>6. Covered(faces', worker'[w].job.asset, Pending(worker'[w]))
      BY <3>5 DEF Covered, Pending
    <3> QED
      BY <1>2, <3>1, <3>4, <3>5, <3>6, RecognitionGoesOn
  <2>3. CASE Search(w)
    <3> DEFINE l == CHOOSE l \in worker[w].left : TRUE
               near == {f.person : f \in {f \in faces : f.look = l}}
    <3>1. /\ worker[w].pc = "face" /\ worker[w].job.name = "recognise"
          /\ worker[w].look = None /\ l \in worker[w].left
      BY <2>3 DEF Search, At
    <3>2. /\ worker[w] \in Busy /\ worker[w].face = None /\ l \in Looks /\ l # None
          /\ worker[w].left \subseteq Looks
      BY <3>1, BusyWorker, NoneIsNoValue DEF GoodWorker, Busy
    <3>3. PICK p \in near \cup {None} :
            worker' = [worker EXCEPT ![w].left = @ \ {l}, ![w].look = l, ![w].person = p,
                                     ![w].pc = IF p = None THEN "person" ELSE "face"]
      BY <2>3 DEF Search
    <3> HIDE DEF l
    <3>4. p \in Nat \cup {None}
      BY DEF IInv, FacesFine, Face
    <3> HIDE DEF near
    <3>5. PICK pc \in {"person", "face"} :
            /\ worker'[w] = [[[[worker[w] EXCEPT !.left = worker[w].left \ {l}]
                                 EXCEPT !.look = l] EXCEPT !.person = p] EXCEPT !.pc = pc]
            /\ worker' = [worker EXCEPT ![w] = worker'[w]]
      BY <3>1, <3>3, BusyWorker
    <3>6. /\ worker'[w] \in Busy /\ worker'[w].pc = pc /\ worker'[w].face = None
          /\ worker'[w].job = worker[w].job /\ worker'[w].look = l
          /\ worker'[w].left = worker[w].left \ {l}
      BY <3>2, <3>4, <3>5 DEF Busy
    <3>7. Pending(worker'[w]) = worker[w].left /\ Pending(worker[w]) = worker[w].left \cup {None}
      BY <3>1, <3>2, <3>6 DEF Pending
    <3>8. worker[w].job.asset \in assets' \ robbed' =>
            Covered(faces', worker[w].job.asset, worker[w].left \cup {None})
      BY <1>1, <3>1, <3>7, BusyWorker DEF GoodWorker, Tables, history
    <3>9. worker[w].job.asset \in assets' \ robbed' =>
            Covered(faces', worker[w].job.asset, worker[w].left)
      <4>1. worker[w].job.asset \in Assets
        BY <3>1, <3>2 DEF Busy, Job
      <4>2. None \notin LooksOf[worker[w].job.asset]
        BY <4>1, LooksOfAssets, NoneIsNoValue
      <4> QED
        BY <3>8, <4>2 DEF Covered
    <3> QED
      BY <1>2, <3>1, <3>2, <3>5, <3>6, <3>7, <3>9, RecognitionGoesOn
  <2> QED
    BY <2>1, <2>2, <2>3 DEF FailRecognition
<1> QED
  BY <1>2, <1>3, <1>4 DEF IInv

-----------------------------------------------------------------------------
(* What a recognition writes.                                              *)

LEMMA CreatePersonKeepsInvariant ==
  ASSUME IInv, NEW w \in Workers, CreatePerson(w)
  PROVE  IInv'
<1> DEFINE new == [id |-> made + 1, feature |-> None]
<1>1. /\ UNCHANGED <<assets, faces, found, recognised, retired, forced, late, robbed>>
      /\ UNCHANGED <<queue, background, request, events>>
      /\ made' = made + 1 /\ people' = people \cup {new}
      /\ worker[w].pc = "person" /\ worker[w].job.name = "recognise"
  BY DEF CreatePerson, At, history
<1>2. made \in Nat /\ made + 1 \in Nat /\ new \in Person /\ new.id = made + 1
  BY DEF Person, IInv, PeopleFine
<1>3. Ids(people') = Ids(people) \cup {made + 1}
  BY <1>1, <1>2 DEF Ids
<1> HIDE DEF new
<1>4. LooksStay
  BY <1>1 DEF LooksStay
<1>5. DoomStays
  <2>1. made' \in Nat /\ \A i \in Nat : i <= made => i <= made' /\ i # made + 1
    BY <1>1, <1>2
  <2> QED
    BY <1>1, <1>3, <2>1 DEF DoomStays, Condemned
<1>6. PeopleFine'
  BY <1>1, <1>2, FS_AddElement DEF IInv, PeopleFine, Person
<1>7. FacesFine' /\ AssetsFine' /\ HistoryFine'
  <2>1. FacesFine'
    BY <1>1, <1>3 DEF IInv, FacesFine
  <2> QED
    BY <1>1, <2>1 DEF IInv, AssetsFine, RecognisedInFull, HistoryFine
<1>8. WorkersFine'
  <2>1. /\ worker'[w] = [[worker[w] EXCEPT !.person = made + 1] EXCEPT !.pc = "feature"]
        /\ worker' = [worker EXCEPT ![w] = worker'[w]]
    BY <1>1, BusyWorker DEF CreatePerson
  <2>2. worker[w] \in Busy /\ GoodWorker(worker[w]) /\ worker[w] # Idle
    BY <1>1, BusyWorker
  <2>3. /\ worker'[w] \in Busy /\ worker'[w].job = worker[w].job /\ worker'[w].pc = "feature"
        /\ worker'[w].look = worker[w].look /\ worker'[w].left = worker[w].left
        /\ worker'[w].face = worker[w].face
    BY <1>2, <2>1, <2>2 DEF Busy
  <2>4. Pending(worker'[w]) = Pending(worker[w])
    BY <2>3 DEF Pending
  <2>5. /\ worker'[w].look # None
        /\ worker[w].job.asset \in assets' \ robbed' =>
             Covered(faces', worker[w].job.asset, Pending(worker'[w]))
    BY <1>1, <2>2, <2>3, <2>4 DEF GoodWorker
  <2> QED
    BY <1>1, <1>4, <2>1, <2>3, <2>5, RecognitionGoesOn
<1>9. QueuesFine' /\ RequestFine'
  BY <1>1, <1>2, <1>5, DeletionsStay, RequestUntouched DEF IInv, QueuesFine
<1> QED
  BY <1>6, <1>7, <1>8, <1>9 DEF IInv

LEMMA CreateFaceKeepsInvariant ==
  ASSUME IInv, NEW w \in Workers, CreateFace(w)
  PROVE  IInv'
<1> DEFINE a == worker[w].job.asset
           p == worker[w].person
           new == [id |-> found + 1, asset |-> a, look |-> worker[w].look, person |-> p]
<1>1. /\ UNCHANGED <<assets, people, made, recognised, retired, forced, robbed>>
      /\ UNCHANGED <<queue, background, request, events>>
      /\ worker[w].pc \in {"face", "feature"} /\ worker[w].job.name = "recognise"
      /\ worker[w].pc = "face" => worker[w].look # None
      /\ worker[w].pc = "feature" => worker[w].face = None
  BY DEF CreateFace, At
<1>2. worker[w] \in Busy /\ GoodWorker(worker[w]) /\ worker[w] # Idle
  BY <1>1, BusyWorker
<1>3. worker[w].face = None /\ worker[w].look \in Looks /\ found \in Nat /\ a \in Assets
  BY <1>1, <1>2 DEF GoodWorker, Busy, Job, IInv, FacesFine
<1>4. DoomStays /\ PeopleFine' /\ made <= made'
  BY <1>1 DEF DoomStays, Condemned, IInv, PeopleFine
<1>5. QueuesFine' /\ RequestFine'
  BY <1>1, <1>4, DeletionsStay, RequestUntouched DEF IInv, QueuesFine
<1>6. CASE Done(w) /\ UNCHANGED <<faces, found, late>>
  <2>1. UNCHANGED Tables
    BY <1>1, <1>6 DEF Tables, history
  <2>2. events' \in Nat
    BY <1>1 DEF IInv, HistoryFine
  <2> QED
    BY <1>5, <1>6, <2>1, <2>2, TablesUntouched, DoneIsFine DEF IInv
<1>7. CASE a \in assets /\ p \in Ids(people)
  <2>1. /\ faces' = faces \cup {new} /\ found' = found + 1
        /\ late' = IF p \in retired THEN late \cup {found + 1} ELSE late
        /\ worker' = IF worker[w].pc = "feature"
                     THEN [worker EXCEPT ![w].face = found + 1]
                     ELSE [worker EXCEPT ![w].look = None, ![w].person = None]
    BY <1>7 DEF CreateFace
  <2>2. p \in Nat
    BY <1>7 DEF Ids, Person, IInv, PeopleFine
  <2>3. /\ new \in Face /\ new.id = found + 1 /\ new.asset = a
        /\ new.look = worker[w].look /\ new.person = p
    BY <1>3, <2>2 DEF Face
  <2> HIDE DEF new, a, p
  <2>4. LooksStay
    BY <1>1, <2>1 DEF LooksStay
  <2>5. FacesFine'
    <3>1. faces' \subseteq Face /\ found' \in Nat
      BY <1>3, <2>1, <2>3 DEF IInv, FacesFine
    <3>2. \A f \in faces' : f.id <= found' /\ f.person \in Ids(people)'
      BY <1>1, <1>3, <1>7, <2>1, <2>3 DEF IInv, FacesFine, Face
    <3>3. \A f, g \in faces' : f.id = g.id => f = g
      <4>1. \A f \in faces : f.id # found + 1
        BY <1>3 DEF IInv, FacesFine, Face
      <4> QED
        BY <2>1, <2>3, <4>1 DEF IInv, FacesFine
    <3>4. \A f \in faces' : f.person \in retired' => f.id \in late'
      BY <1>1, <2>1, <2>3 DEF IInv, FacesFine
    <3> QED
      BY <3>1, <3>2, <3>3, <3>4 DEF FacesFine
  <2>6. AssetsFine' /\ HistoryFine'
    <3>1. RecognisedInFull'
      BY <1>1, <2>1 DEF IInv, AssetsFine, RecognisedInFull
    <3> QED
      BY <1>1, <1>3, <2>1, <3>1 DEF IInv, AssetsFine, HistoryFine
  <2>7. a \in assets' \ robbed' => Covered(faces', a, worker[w].left)
    <3>1. Pending(worker[w]) = worker[w].left \cup {worker[w].look}
      BY <1>3 DEF Pending
    <3>2. a \in assets \ robbed => Covered(faces, a, worker[w].left \cup {worker[w].look})
      BY <1>1, <1>2, <3>1 DEF GoodWorker, a
    <3> QED
      BY <1>1, <2>1, <2>3, <3>2 DEF Covered
  <2>8. WorkersFine'
    <3>1. CASE worker[w].pc = "feature"
      <4>1. /\ worker'[w] = [worker[w] EXCEPT !.face = found + 1]
            /\ worker' = [worker EXCEPT ![w] = worker'[w]]
        BY <1>1, <2>1, <3>1, BusyWorker
      <4>2. /\ worker'[w] \in Busy /\ worker'[w].job = worker[w].job /\ worker'[w].pc = "feature"
            /\ worker'[w].look = worker[w].look /\ worker'[w].left = worker[w].left
            /\ worker'[w].face = found + 1
        BY <1>2, <1>3, <3>1, <4>1 DEF Busy
      <4>3. Pending(worker'[w]) = worker[w].left /\ worker'[w].look # None
        BY <1>3, <4>2, NoneIsNoValue DEF Pending
      <4> QED
        BY <1>1, <2>4, <2>7, <4>1, <4>2, <4>3, RecognitionGoesOn DEF a
    <3>2. CASE worker[w].pc = "face"
      <4>1. /\ worker'[w] = [[worker[w] EXCEPT !.look = None] EXCEPT !.person = None]
            /\ worker' = [worker EXCEPT ![w] = worker'[w]]
        BY <1>1, <2>1, <3>2, BusyWorker
      <4>2. /\ worker'[w] \in Busy /\ worker'[w].job = worker[w].job /\ worker'[w].pc = "face"
            /\ worker'[w].look = None /\ worker'[w].left = worker[w].left
            /\ worker'[w].face = None
        BY <1>2, <1>3, <3>2, <4>1 DEF Busy
      <4>3. a \in assets' \ robbed' => Covered(faces', a, Pending(worker'[w]))
        BY <2>7, <4>2 DEF Covered, Pending
      <4> QED
        BY <1>1, <2>4, <4>1, <4>2, <4>3, RecognitionGoesOn DEF a
    <3> QED
      BY <1>1, <3>1, <3>2
  <2> QED
    BY <1>4, <1>5, <2>5, <2>6, <2>8 DEF IInv
<1> QED
  BY <1>6, <1>7 DEF CreateFace

\* People get another feature face, or none.
LEMMA FeaturesKeepPeople ==
  ASSUME IInv, made' = made, NEW f, DOMAIN f = people,
         \A q \in people : f[q] \in Person /\ f[q].id = q.id,
         people' = {f[q] : q \in people}
  PROVE  PeopleFine' /\ Ids(people') = Ids(people)
<1>1. IsFiniteSet(people')
  <2> DEFINE g == [q \in people |-> f[q]]
  <2>1. g \in [people -> {g[q] : q \in people}] /\ {g[q] : q \in people} = people'
    OBVIOUS
  <2>2. IsFiniteSet(people)
    BY DEF IInv, PeopleFine
  <2> HIDE DEF g
  <2>3. IsFiniteSet({g[q] : q \in people})
    BY <2>1, <2>2, ImageIsFinite
  <2> QED
    BY <2>1, <2>3
<1>2. people' \subseteq Person /\ \A q \in people' : q.id <= made'
  BY DEF IInv, PeopleFine
<1>3. Ids(people') = Ids(people)
  BY DEF Ids
<1> QED
  BY <1>1, <1>2, <1>3 DEF IInv, PeopleFine

LEMMA SetFeatureKeepsPeople ==
  ASSUME IInv, made' = made, NEW p, NEW face \in Nat, SetFeature(p, face)
  PROVE  PeopleFine' /\ Ids(people') = Ids(people)
<1> DEFINE f == [q \in people |-> IF q.id = p THEN [q EXCEPT !.feature = face] ELSE q]
<1>1. \A q \in people : f[q] \in Person /\ f[q].id = q.id
  BY DEF IInv, PeopleFine, Person
<1>2. people' = {f[q] : q \in people} /\ DOMAIN f = people
  BY DEF SetFeature
<1> HIDE DEF f
<1> QED
  BY <1>1, <1>2, FeaturesKeepPeople

\* The tables when only features changed.
LEMMA FeatureStep ==
  ASSUME IInv, UNCHANGED <<assets, faces, made, found, recognised, history>>,
         UNCHANGED <<queue, background, events>>, PeopleFine', Ids(people') = Ids(people),
         RequestFine', LooksStay => WorkersFine'
  PROVE  IInv'
<1>1. LooksStay /\ DoomStays
  BY DEF LooksStay, DoomStays, Condemned, history, IInv, PeopleFine
<1>2. FacesFine' /\ AssetsFine' /\ HistoryFine'
  BY DEF history, IInv, FacesFine, AssetsFine, RecognisedInFull, HistoryFine
<1>3. QueuesFine'
  BY <1>1, DeletionsStay DEF IInv, QueuesFine
<1> QED
  BY <1>1, <1>2, <1>3 DEF IInv

LEMMA FirstFeatureKeepsInvariant ==
  ASSUME IInv, NEW w \in Workers, FirstFeature(w)
  PROVE  IInv'
<1>1. /\ UNCHANGED <<assets, faces, made, found, recognised, history>>
      /\ UNCHANGED <<queue, background, request, events>>
      /\ worker[w].pc = "feature" /\ worker[w].job.name = "recognise" /\ worker[w].face # None
  BY DEF FirstFeature, At
<1>2. worker[w] \in Busy /\ GoodWorker(worker[w]) /\ worker[w] # Idle
  BY <1>1, BusyWorker
<1>3. LooksStay /\ (Ids(people') = Ids(people) => DoomStays) /\ made <= made'
  BY <1>1 DEF LooksStay, DoomStays, Condemned, history, IInv, PeopleFine
<1>4. CASE Done(w) /\ people' = people
  <2>1. PeopleFine' /\ RequestFine'
    BY <1>1, <1>3, <1>4, RequestUntouched DEF IInv, PeopleFine
  <2> QED
    BY <1>1, <1>3, <1>4, <2>1, DoneIsFine, FeatureStep
<1>5. CASE worker[w].person \in Ids(people) /\ worker[w].face \in Ids(faces)
  <2>1. /\ SetFeature(worker[w].person, worker[w].face)
        /\ worker' = [worker EXCEPT ![w].pc = "face", ![w].look = None, ![w].person = None,
                                    ![w].face = None]
    BY <1>5 DEF FirstFeature
  <2>2. worker[w].face \in Nat
    BY <1>1, <1>2 DEF Busy
  <2>3. PeopleFine' /\ Ids(people') = Ids(people)
    BY <1>1, <2>1, <2>2, SetFeatureKeepsPeople
  <2>4. WorkersFine'
    <3>1. /\ worker'[w] = [[[[worker[w] EXCEPT !.pc = "face"] EXCEPT !.look = None]
                              EXCEPT !.person = None] EXCEPT !.face = None]
          /\ worker' = [worker EXCEPT ![w] = worker'[w]]
      BY <1>1, <2>1, BusyWorker
    <3>2. /\ worker'[w] \in Busy /\ worker'[w].job = worker[w].job /\ worker'[w].pc = "face"
          /\ worker'[w].face = None /\ worker'[w].left = worker[w].left
      BY <1>2, <3>1 DEF Busy
    <3>3. Pending(worker[w]) = worker[w].left
      BY <1>1 DEF Pending
    <3>4. worker[w].job.asset \in assets \ robbed =>
            Covered(faces, worker[w].job.asset, worker[w].left)
      BY <1>1, <1>2, <3>3 DEF GoodWorker
    <3>5. worker[w].job.asset \in assets' \ robbed' =>
            Covered(faces', worker[w].job.asset, Pending(worker'[w]))
      BY <1>1, <3>2, <3>4 DEF Covered, Pending, history
    <3> QED
      BY <1>1, <1>3, <3>1, <3>2, <3>5, RecognitionGoesOn
  <2>5. RequestFine'
    BY <1>1, <1>3, <2>3, RequestUntouched
  <2> QED
    BY <1>1, <2>3, <2>4, <2>5, FeatureStep
<1> QED
  BY <1>4, <1>5 DEF FirstFeature

\* An asset is marked when none of its looks is left.
LEMMA MarkRecognisedKeepsInvariant ==
  ASSUME IInv, NEW w \in Workers, MarkRecognised(w)
  PROVE  IInv'
<1> DEFINE a == worker[w].job.asset
<1>1. /\ UNCHANGED <<assets, faces, people, made, found, retired, forced, late, robbed>>
      /\ UNCHANGED <<queue, background, request, events>>
      /\ recognised' = recognised \cup ({a} \cap assets) /\ Done(w)
      /\ worker[w].pc = "face" /\ worker[w].job.name = "recognise"
      /\ worker[w].look = None /\ worker[w].left = {}
  BY DEF MarkRecognised, At, history
<1>2. worker[w] \in Busy /\ GoodWorker(worker[w]) /\ worker[w] # Idle
  BY <1>1, BusyWorker
<1>3. LooksStay /\ DoomStays /\ made <= made'
  BY <1>1 DEF LooksStay, DoomStays, Condemned, IInv, PeopleFine
<1>4. PeopleFine' /\ FacesFine' /\ HistoryFine'
  BY <1>1 DEF IInv, PeopleFine, FacesFine, HistoryFine
<1>5. AssetsFine'
  <2>1. a \in assets \ robbed => \A l \in LooksOf[a] : \E f \in faces : f.asset = a /\ f.look = l
    <3>1. Pending(worker[w]) = {None}
      BY <1>1, <1>2 DEF GoodWorker, Pending
    <3>2. a \in Assets
      BY <1>1, <1>2 DEF Busy, Job
    <3>3. None \notin LooksOf[a]
      BY <3>2, LooksOfAssets, NoneIsNoValue
    <3> QED
      BY <1>1, <1>2, <3>1, <3>3 DEF GoodWorker, Covered
  <2> QED
    BY <1>1, <2>1 DEF IInv, AssetsFine, RecognisedInFull
<1>6. WorkersFine' /\ RequestFine' /\ QueuesFine'
  BY <1>1, <1>3, DoneIsFine, RequestUntouched, DeletionsStay DEF IInv, QueuesFine
<1> QED
  BY <1>4, <1>5, <1>6 DEF IInv

-----------------------------------------------------------------------------
(* The owner.                                                              *)

\* A request begins, or throws.
LEMMA RequestStart ==
  ASSUME IInv,
         \/ \E old, new \in Ids(people) : StartMerge(old, new)
         \/ \E f \in faces, new \in people : StartReassign(f, new)
         \/ FailRequest
  PROVE  IInv'
<1>1. UNCHANGED Tables /\ UNCHANGED <<queue, background, worker>> /\ events' \in Nat
  <2>1. UNCHANGED Tables /\ UNCHANGED <<queue, background, worker>>
    BY DEF StartMerge, StartReassign, Start, FailRequest, Tables, history
  <2>2. events' \in {events, events + 1} /\ events \in Nat
    BY DEF StartMerge, StartReassign, Start, FailRequest, IInv, HistoryFine
  <2> QED
    BY <2>1, <2>2
<1>2. LooksStay /\ DoomStays /\ PeopleFine' /\ FacesFine' /\ AssetsFine' /\ HistoryFine' /\ made <= made'
  BY <1>1, TablesUntouched
<1>3. WorkersFine' /\ QueuesFine'
  BY <1>1, <1>2, WorkersUntouched, DeletionsStay DEF IInv, QueuesFine
<1>4. RequestFine'
  <2>1. people \subseteq Person /\ \A p \in people : p.id <= made
    BY DEF IInv, PeopleFine
  <2>2. CASE \E old, new \in Ids(people) : StartMerge(old, new)
    <3>1. PICK old \in Ids(people), new \in Ids(people) :
            request' = [pc |-> "mergeFaces", old |-> old, new |-> new]
      BY <2>2 DEF StartMerge, Start
    <3>2. old \in Nat /\ new \in Nat /\ old <= made
      BY <2>1 DEF Ids, Person
    <3> QED
      BY <1>1, <3>1, <3>2 DEF RequestFine, Request, Tables
  <2>3. CASE \E f \in faces, new \in people : StartReassign(f, new)
    <3>1. PICK f \in faces, new \in people :
            request' = [pc |-> "moveFace", old |-> f.person, new |-> new.id, face |-> f.id,
                        renew |-> {p.id : p \in {p \in people :
                          (p.id = new.id /\ p.feature = None) \/ (p.id = f.person /\ p.feature = f.id)}}]
      BY <2>3 DEF StartReassign, Start
    <3> DEFINE renew == {p.id : p \in {p \in people :
                          (p.id = new.id /\ p.feature = None) \/ (p.id = f.person /\ p.feature = f.id)}}
    <3>2. renew \in SUBSET Nat /\ f.person \in Nat /\ f.id \in Nat /\ new.id \in Nat
      BY <2>1 DEF Person, Face, IInv, FacesFine
    <3>3. request' = [pc |-> "moveFace", old |-> f.person, new |-> new.id, face |-> f.id,
                      renew |-> renew]
      BY <3>1
    <3> HIDE DEF renew
    <3> QED
      BY <3>2, <3>3 DEF RequestFine, Request
  <2>4. CASE FailRequest
    BY <2>4 DEF FailRequest, RequestFine, NoRequest
  <2> QED
    BY <2>2, <2>3, <2>4
<1> QED
  BY <1>2, <1>3, <1>4 DEF IInv

\* Some faces, those G selects, are given to the person new.
Moved(G, new) == {IF f \in G THEN [f EXCEPT !.person = new] ELSE f : f \in faces}

LEMMA MovingFaces ==
  ASSUME IInv, UNCHANGED <<assets, people, made, found, recognised, robbed>>,
         NEW G \in SUBSET faces, NEW new \in Nat, G # {} => new \in Ids(people),
         faces' = Moved(G, new), late \subseteq late', retired \subseteq retired',
         new \in retired' => Ids(G) \subseteq late',
         \A f \in faces \ G : f.person \in retired' => f.person \in retired
  PROVE  FacesFine' /\ AssetsFine' /\ LooksStay
<1>1. faces \subseteq Face
  BY DEF IInv, FacesFine
<1>2. \A f \in faces : [f EXCEPT !.person = new] \in Face
                         /\ [f EXCEPT !.person = new].id = f.id
                         /\ [f EXCEPT !.person = new].asset = f.asset
                         /\ [f EXCEPT !.person = new].look = f.look
                         /\ [f EXCEPT !.person = new].person = new
  BY <1>1 DEF Face
<1>3. \A g \in faces' : \E f \in faces :
        /\ g \in Face /\ g.id = f.id /\ g.asset = f.asset /\ g.look = f.look
        /\ g = IF f \in G THEN [f EXCEPT !.person = new] ELSE f
        /\ g.person = IF f \in G THEN new ELSE f.person
  BY <1>1, <1>2 DEF Moved
<1>4. \A f \in faces : \E g \in faces' : g.asset = f.asset /\ g.look = f.look
  BY <1>2 DEF Moved
<1>5. LooksStay
  BY <1>4 DEF LooksStay
<1>6. AssetsFine'
  BY <1>4 DEF IInv, AssetsFine, RecognisedInFull
<1>7. FacesFine'
  <2>1. faces' \subseteq Face /\ found' \in Nat
    BY <1>3 DEF IInv, FacesFine
  <2>2. \A g \in faces' : g.id <= found' /\ g.person \in Ids(people)'
    BY <1>3 DEF IInv, FacesFine
  <2>3. \A f, g \in faces' : f.id = g.id => f = g
    BY <1>3 DEF IInv, FacesFine
  <2>4. \A g \in faces' : g.person \in retired' => g.id \in late'
    BY <1>3 DEF IInv, FacesFine, Ids
  <2> QED
    BY <2>1, <2>2, <2>3, <2>4 DEF FacesFine
<1> QED
  BY <1>5, <1>6, <1>7

LEMMA MergeKeepsInvariant ==
  ASSUME IInv, MergeFaces
  PROVE  IInv'
<1> DEFINE old == request.old
           new == request.new
<1>1. /\ UNCHANGED <<assets, people, made, found, recognised, robbed, forced>>
      /\ UNCHANGED <<queue, worker, background, events>> /\ request.pc = "mergeFaces"
  BY DEF MergeFaces, RequestAt
<1>2. request \in Request /\ old \in Nat /\ new \in Nat /\ old <= made
  BY <1>1 DEF IInv, RequestFine, Request, NoRequest
<1>3. PeopleFine'
  BY <1>1 DEF IInv, PeopleFine
<1>4. CASE request' = NoRequest /\ UNCHANGED <<faces, retired, late>>
  <2>1. UNCHANGED Tables /\ events' \in Nat
    BY <1>1, <1>4 DEF Tables, history, IInv, HistoryFine
  <2>2. LooksStay /\ DoomStays /\ FacesFine' /\ AssetsFine' /\ HistoryFine'
    BY <2>1, TablesUntouched
  <2>3. RequestFine'
    BY <1>4 DEF RequestFine, NoRequest
  <2> QED
    BY <1>1, <1>3, <2>2, <2>3, WorkersUntouched, DeletionsStay DEF IInv, QueuesFine
<1>5. CASE FacesOf(old) = {} \/ new \in Ids(people)
  <2>1. /\ faces' = {IF f.person = old THEN [f EXCEPT !.person = new] ELSE f : f \in faces}
        /\ retired' = retired \cup {old}
        /\ late' = IF new \in retired' THEN late \cup Ids(FacesOf(old)) ELSE late
        /\ request' = [request EXCEPT !.pc = "queueDelete"]
    BY <1>5 DEF MergeFaces
  <2>2. faces' = Moved(FacesOf(old), new)
    BY <2>1 DEF Moved, FacesOf
  <2>3. FacesFine' /\ AssetsFine' /\ LooksStay
    <3>1. FacesOf(old) \in SUBSET faces
          /\ \A f \in faces \ FacesOf(old) : f.person \in retired' => f.person \in retired
      BY <2>1 DEF FacesOf
    <3> QED
      BY <1>1, <1>2, <1>5, <2>1, <2>2, <3>1, MovingFaces
  <2>4. DoomStays
    BY <1>1, <2>1 DEF DoomStays, Condemned, IInv, PeopleFine
  <2>5. RequestFine'
    <3>1. request' \in Request /\ request'.pc = "queueDelete" /\ request'.old = old
      BY <1>1, <1>2, <2>1 DEF Request
    <3>2. Condemned(old)'
      BY <1>1, <1>2, <2>1 DEF Condemned
    <3>3. Condemned(request.old)'
      BY <3>1, <3>2 DEF Condemned
    <3> QED
      BY <3>1, <3>3 DEF RequestFine
  <2>6. HistoryFine'
    <3>1. Ids(FacesOf(old)) \subseteq Nat
      BY DEF Ids, FacesOf, Face, IInv, FacesFine
    <3> QED
      BY <1>1, <1>2, <2>1, <3>1 DEF IInv, HistoryFine
  <2> QED
    BY <1>1, <1>3, <2>3, <2>4, <2>5, <2>6, WorkersUntouched, DeletionsStay DEF IInv, QueuesFine
<1> QED
  BY <1>4, <1>5 DEF MergeFaces

LEMMA QueueDeleteKeepsInvariant ==
  ASSUME IInv, QueueDelete
  PROVE  IInv'
<1>1. UNCHANGED Tables /\ UNCHANGED <<queue, worker, events>> /\ request' = NoRequest
      /\ request.pc = "queueDelete" /\ DeleteAll({request.old})
  BY DEF QueueDelete, RequestAt, Tables, history
<1>2. LooksStay /\ DoomStays /\ PeopleFine' /\ FacesFine' /\ AssetsFine' /\ HistoryFine'
  BY <1>1, TablesUntouched DEF IInv, HistoryFine
<1>3. Condemned(request.old)
  BY <1>1 DEF IInv, RequestFine
<1>4. \A i \in {request.old} : i \in Nat /\ Condemned(i)'
  BY <1>2, <1>3 DEF DoomStays, Condemned
<1>5. QueuesFine'
  BY <1>1, <1>2, <1>4, DeleteAllKeepsQueues, FS_Singleton DEF IInv, QueuesFine
<1>6. RequestFine'
  BY <1>1 DEF RequestFine, NoRequest
<1> QED
  BY <1>1, <1>2, <1>5, <1>6, WorkersUntouched DEF IInv

LEMMA MoveKeepsInvariant ==
  ASSUME IInv, MoveFace
  PROVE  IInv'
<1> DEFINE new == request.new
           moved == {f \in faces : f.id = request.face}
<1>1. /\ UNCHANGED <<assets, people, made, found, recognised, robbed, retired, forced>>
      /\ UNCHANGED <<queue, worker, background, events>> /\ request.pc = "moveFace"
  BY DEF MoveFace, RequestAt
<1>2. request \in Request /\ new \in Nat /\ request.face \in Nat
  BY <1>1 DEF IInv, RequestFine, Request, NoRequest
<1>3. PeopleFine' /\ DoomStays
  BY <1>1 DEF IInv, PeopleFine, DoomStays, Condemned
<1>4. CASE request' = NoRequest /\ UNCHANGED <<faces, late>>
  <2>1. UNCHANGED Tables /\ events' \in Nat
    BY <1>1, <1>4 DEF Tables, history, IInv, HistoryFine
  <2>2. LooksStay /\ FacesFine' /\ AssetsFine' /\ HistoryFine'
    BY <2>1, TablesUntouched
  <2>3. RequestFine'
    BY <1>4 DEF RequestFine, NoRequest
  <2> QED
    BY <1>1, <1>3, <2>2, <2>3, WorkersUntouched, DeletionsStay DEF IInv, QueuesFine
<1>5. CASE new \in Ids(people)
  <2>1. /\ faces' = {IF f.id = request.face THEN [f EXCEPT !.person = new] ELSE f : f \in faces}
        /\ late' = IF new \in retired THEN late \cup {request.face} ELSE late
        /\ request' = [request EXCEPT !.pc = "features"]
    BY <1>5 DEF MoveFace
  <2>2. faces' = Moved(moved, new)
    BY <2>1 DEF Moved
  <2>3. Ids(moved) \subseteq {request.face}
    BY DEF Ids
  <2>4. FacesFine' /\ AssetsFine' /\ LooksStay
    <3>1. moved \in SUBSET faces
      OBVIOUS
    <3> HIDE DEF moved
    <3> QED
      BY <1>1, <1>2, <1>5, <2>1, <2>2, <2>3, <3>1, MovingFaces
  <2>5. RequestFine'
    <3>1. request' \in Request /\ request'.pc = "features"
      BY <1>1, <1>2, <2>1 DEF Request
    <3> QED
      BY <3>1 DEF RequestFine
  <2>6. HistoryFine'
    BY <1>1, <1>2, <2>1 DEF IInv, HistoryFine
  <2> QED
    BY <1>1, <1>3, <2>4, <2>5, <2>6, WorkersUntouched, DeletionsStay DEF IInv, QueuesFine
<1> QED
  BY <1>4, <1>5 DEF MoveFace

LEMMA NewFeatureKeepsInvariant ==
  ASSUME IInv, NewFeature
  PROVE  IInv'
<1>1. /\ UNCHANGED <<assets, faces, made, found, recognised, history>>
      /\ UNCHANGED <<queue, background, worker, events>> /\ request.pc = "features"
  BY DEF NewFeature, RequestAt
<1>2. RequestFine'
  <2>1. CASE request' = NoRequest
    BY <2>1 DEF RequestFine, NoRequest
  <2>2. CASE \E p \in request.renew : request' = [request EXCEPT !.renew = @ \ {p}]
    <3>1. PICK p \in request.renew : request' = [request EXCEPT !.renew = @ \ {p}]
      BY <2>2
    <3>2. request \in Request
      BY <1>1 DEF IInv, RequestFine, NoRequest
    <3>3. request' \in Request /\ request'.pc = "features"
      BY <1>1, <3>1, <3>2 DEF Request
    <3> QED
      BY <3>3 DEF RequestFine
  <2> QED
    BY <2>1, <2>2 DEF NewFeature
<1>3. PeopleFine' /\ Ids(people') = Ids(people)
  <2>1. CASE people' = people
    BY <1>1, <2>1 DEF IInv, PeopleFine
  <2>2. CASE \E p \in request.renew : \E f \in FacesOf(p) : SetFeature(p, f.id)
    <3>1. \A f \in faces : f.id \in Nat
      BY DEF IInv, FacesFine, Face
    <3> QED
      BY <1>1, <2>2, <3>1, SetFeatureKeepsPeople DEF FacesOf
  <2> QED
    BY <2>1, <2>2 DEF NewFeature
<1> QED
  BY <1>1, <1>2, <1>3, WorkersUntouched, FeatureStep

-----------------------------------------------------------------------------
(* Removals.                                                               *)

\* A feature face that goes leaves its person.
LEMMA WithoutFacesKeepsPeople ==
  ASSUME IInv, NEW G
  PROVE  /\ WithoutFaces(G) \subseteq Person /\ IsFiniteSet(WithoutFaces(G))
         /\ \A q \in WithoutFaces(G) : q.id <= made
         /\ Ids(WithoutFaces(G)) = Ids(people)
<1> DEFINE f == [p \in people |-> IF p.feature \in Ids(G) THEN [p EXCEPT !.feature = None] ELSE p]
<1>1. people \subseteq Person /\ IsFiniteSet(people) /\ \A p \in people : p.id <= made
  BY DEF IInv, PeopleFine
<1>2. f \in [people -> {f[p] : p \in people}] /\ \A p \in people : f[p] \in Person /\ f[p].id = p.id
  BY <1>1 DEF Person
<1>3. WithoutFaces(G) = {f[p] : p \in people}
  BY DEF WithoutFaces
<1> HIDE DEF f
<1>4. IsFiniteSet(WithoutFaces(G))
  BY <1>1, <1>2, <1>3, ImageIsFinite
<1>5. Ids(WithoutFaces(G)) = Ids(people)
  BY <1>2, <1>3 DEF Ids
<1> QED
  BY <1>1, <1>2, <1>3, <1>4, <1>5

LEMMA RemoveAssetKeepsInvariant ==
  ASSUME IInv, NEW a \in Assets, RemoveAsset(a)
  PROVE  IInv'
<1> DEFINE gone == {f \in faces : f.asset = a}
<1>1. /\ UNCHANGED <<made, found, queue, background, worker, request>>
      /\ UNCHANGED <<retired, forced, late, robbed>>
      /\ assets' = assets \ {a} /\ recognised' = recognised \ {a}
      /\ faces' = {f \in faces : f.asset # a} /\ people' = WithoutFaces(gone)
      /\ events' = events + 1
  BY DEF RemoveAsset, history
<1> HIDE DEF gone
<1>2. LooksStay
  BY <1>1 DEF LooksStay
<1>3. PeopleFine' /\ Ids(people') = Ids(people)
  BY <1>1, WithoutFacesKeepsPeople DEF IInv, PeopleFine
<1>4. DoomStays /\ made <= made'
  BY <1>1, <1>3 DEF DoomStays, Condemned, IInv, PeopleFine
<1>5. FacesFine'
  BY <1>1, <1>3 DEF IInv, FacesFine
<1>6. AssetsFine' /\ HistoryFine'
  BY <1>1 DEF IInv, AssetsFine, RecognisedInFull, HistoryFine
<1>7. WorkersFine' /\ QueuesFine' /\ RequestFine'
  BY <1>1, <1>2, <1>4, WorkersUntouched, DeletionsStay, RequestUntouched DEF IInv, QueuesFine
<1> QED
  BY <1>3, <1>5, <1>6, <1>7 DEF IInv

LEMMA CleanupKeepsInvariant ==
  ASSUME IInv, HandlePersonCleanup
  PROVE  IInv'
<1> DEFINE empty == {p \in Ids(people) : FacesOf(p) = {}}
<1>1. /\ UNCHANGED <<assets, faces, people, made, found, recognised, forced, late, robbed>>
      /\ UNCHANGED <<queue, worker, request, events>>
      /\ DeleteAll(Ids(EmptyPeople)) /\ retired' = retired \cup empty
  BY DEF HandlePersonCleanup, BackgroundOnly
<1>2. empty \subseteq Nat /\ \A i \in empty : i <= made
  BY DEF Ids, Person, IInv, PeopleFine
<1>3. Ids(EmptyPeople) \subseteq empty /\ IsFiniteSet(Ids(EmptyPeople))
  <2>1. Ids(EmptyPeople) \subseteq empty
    BY DEF Ids, EmptyPeople
  <2>2. IsFiniteSet(EmptyPeople)
    BY FS_Subset DEF EmptyPeople, IInv, PeopleFine
  <2> QED
    BY <2>1, <2>2, JobsAreFinite
<1>4. \A f \in faces : f.person \notin empty
  BY DEF FacesOf
<1> HIDE DEF empty
<1>5. LooksStay /\ DoomStays /\ made <= made'
  BY <1>1 DEF LooksStay, DoomStays, Condemned, IInv, PeopleFine
<1>6. PeopleFine' /\ FacesFine'
  BY <1>1, <1>4 DEF IInv, PeopleFine, FacesFine
<1>7. AssetsFine' /\ HistoryFine'
  BY <1>1, <1>2 DEF IInv, AssetsFine, RecognisedInFull, HistoryFine
<1>8. QueuesFine'
  <2>1. \A i \in Ids(EmptyPeople) : i \in Nat /\ Condemned(i)'
    BY <1>1, <1>2, <1>3 DEF Condemned
  <2> QED
    BY <1>1, <1>3, <1>5, <2>1, DeleteAllKeepsQueues DEF IInv, QueuesFine
<1> QED
  BY <1>1, <1>5, <1>6, <1>7, <1>8, WorkersUntouched, RequestUntouched DEF IInv

LEMMA PersonDeleteKeepsInvariant ==
  ASSUME IInv, HandlePersonDelete
  PROVE  IInv'
<1> DEFINE x == Head(background).id
           gone == FacesOf(x)
<1>1. /\ UNCHANGED <<assets, made, found, recognised, queue, worker, request, events>>
      /\ background # <<>> /\ background' = Tail(background)
      /\ faces' = faces \ gone
      /\ people' = {p \in WithoutFaces(gone) : p.id # x}
      /\ robbed' = robbed \cup {f.asset : f \in gone} /\ late' = late \ Ids(gone)
      /\ retired' = retired \ {x} /\ forced' = forced \ {x}
  BY DEF HandlePersonDelete, BackgroundOnly
<1>2. gone \subseteq faces /\ \A f \in faces : f \in gone <=> f.person = x
  BY DEF FacesOf
<1> HIDE DEF gone, x
<1>3. PeopleFine'
  <2>1. WithoutFaces(gone) \subseteq Person /\ IsFiniteSet(WithoutFaces(gone))
        /\ \A q \in WithoutFaces(gone) : q.id <= made
    BY WithoutFacesKeepsPeople
  <2>2. people' \subseteq WithoutFaces(gone)
    BY <1>1
  <2>3. IsFiniteSet(people')
    BY <2>1, <2>2, FS_Subset
  <2> QED
    BY <1>1, <2>1, <2>2, <2>3 DEF IInv, PeopleFine
<1>4. Ids(people') = Ids(people) \ {x}
  <2>1. Ids(WithoutFaces(gone)) = Ids(people)
    BY WithoutFacesKeepsPeople
  <2>2. Ids(people') = Ids(WithoutFaces(gone)) \ {x}
    BY <1>1 DEF Ids
  <2> QED
    BY <2>1, <2>2
<1>5. DoomStays /\ made <= made'
  BY <1>1, <1>4 DEF DoomStays, Condemned, IInv, PeopleFine
<1>6. LooksStay
  BY <1>1, <1>2 DEF LooksStay
<1>7. FacesFine'
  <2>1. \A f \in faces' : f.id \notin Ids(gone)
    BY <1>1, <1>2 DEF Ids, IInv, FacesFine
  <2> QED
    BY <1>1, <1>2, <1>4, <2>1 DEF IInv, FacesFine
<1>8. AssetsFine'
  <2>1. robbed' \subseteq Assets
    BY <1>1, <1>2 DEF IInv, AssetsFine, FacesFine, Face
  <2>2. RecognisedInFull'
    BY <1>1, <1>2 DEF IInv, AssetsFine, RecognisedInFull
  <2> QED
    BY <1>1, <2>1, <2>2 DEF IInv, AssetsFine
<1>9. HistoryFine'
  BY <1>1 DEF IInv, HistoryFine
<1>10. QueuesFine'
  <2>1. background' \in Seq(Deletion')
    BY <1>1, <1>5, DeletionsStay, QueueTypes
  <2> QED
    BY <1>1, <2>1 DEF IInv, QueuesFine
<1> QED
  BY <1>1, <1>3, <1>5, <1>6, <1>7, <1>8, <1>9, <1>10, WorkersUntouched, RequestUntouched DEF IInv

-----------------------------------------------------------------------------
(* The theorems                                                            *)

LEMMA NextKeepsInvariant == IInv /\ [Next]_vars => IInv'
<1> SUFFICES ASSUME IInv, [Next]_vars PROVE IInv'
  OBVIOUS
<1>1. CASE \E a \in Assets : QueueRecognition(a) \/ RemoveAsset(a)
  BY <1>1, QueueStep, RemoveAssetKeepsInvariant
<1>2. CASE \E missing \in BOOLEAN : Recognise(missing)
  BY <1>2, QueueStep
<1>3. CASE \/ \E old, new \in Ids(people) : StartMerge(old, new)
           \/ \E f \in faces, new \in people : StartReassign(f, new)
           \/ FailRequest
  BY <1>3, RequestStart
<1>4. CASE Proceed
  BY <1>4, MergeKeepsInvariant, QueueDeleteKeepsInvariant, MoveKeepsInvariant,
     NewFeatureKeepsInvariant DEF Proceed
<1>5. ASSUME NEW w \in Workers, Handle(w) \/ FailRecognition(w) PROVE IInv'
  <2>1. CASE Take(w) \/ HandleQueueRecognizeFaces(w)
    BY <2>1, TakeKeepsInvariant, QueueingKeepsInvariant
  <2>2. CASE Load(w) \/ Search(w) \/ FailRecognition(w)
    BY <2>2, ReadingKeepsInvariant
  <2>3. CASE CreatePerson(w) \/ CreateFace(w)
    BY <2>3, CreatePersonKeepsInvariant, CreateFaceKeepsInvariant
  <2>4. CASE FirstFeature(w) \/ MarkRecognised(w)
    BY <2>4, FirstFeatureKeepsInvariant, MarkRecognisedKeepsInvariant
  <2> QED
    BY <1>5, <2>1, <2>2, <2>3, <2>4 DEF Handle, HandleRecognizeFaces
<1>6. CASE HandlePersonCleanup \/ HandlePersonDelete
  BY <1>6, CleanupKeepsInvariant, PersonDeleteKeepsInvariant
<1>7. CASE UNCHANGED vars
  <2>1. UNCHANGED Tables /\ UNCHANGED <<queue, background, worker, request, events>>
    BY <1>7 DEF vars, Tables, history
  <2>2. LooksStay /\ DoomStays /\ PeopleFine' /\ FacesFine' /\ AssetsFine' /\ HistoryFine' /\ made <= made'
    BY <2>1, TablesUntouched DEF IInv, HistoryFine
  <2> QED
    BY <2>1, <2>2, WorkersUntouched, DeletionsStay, RequestUntouched DEF IInv, QueuesFine
<1> QED
  BY <1>1, <1>2, <1>3, <1>4, <1>5, <1>6, <1>7 DEF Next

LEMMA InvariantHolds == Spec => []IInv
BY InitEstablishesInvariant, NextKeepsInvariant, PTL DEF Spec

\* The tables of people and faces and all that works on them keep their types.
THEOREM PeopleTypeInvariance == Spec => []TypeOK
BY InvariantHolds, InvariantIsTyped, PTL

\* An asset that counts as recognised has all its faces, whatever recognitions and
\* failures run side by side, unless one of them has gone with a person that was
\* removed: such an asset is excepted, as robbed (handleRecognizeFaces).
THEOREM RecognisedIsComplete == Spec => []RecognisedInFull
<1>1. IInv => RecognisedInFull
  BY DEF IInv, AssetsFine
<1> QED
  BY <1>1, InvariantHolds, PTL

\* The step of FacesKept.
KeepsFaces ==
  \A f \in faces :
    f.id \in Ids(faces') \/ f.asset \notin assets' \/ f.person \in forced \/ f.id \in late

LEMMA StepsKeepFaces == IInv /\ [Next]_vars => KeepsFaces
<1> SUFFICES ASSUME IInv, [Next]_vars PROVE KeepsFaces
  OBVIOUS
<1>1. ASSUME faces \subseteq faces' PROVE KeepsFaces
  BY <1>1 DEF KeepsFaces, Ids
<1>2. ASSUME \A f \in faces : \E g \in faces' : g.id = f.id PROVE KeepsFaces
  BY <1>2 DEF KeepsFaces, Ids
<1>3. ASSUME NEW G \in SUBSET faces, NEW p, faces' = Moved(G, p) PROVE KeepsFaces
  <2>1. \A f \in faces : [f EXCEPT !.person = p].id = f.id
    BY DEF IInv, FacesFine, Face
  <2>2. \A f \in faces : \E g \in faces' : g.id = f.id
    BY <1>3, <2>1 DEF Moved
  <2> QED
    BY <1>2, <2>2
<1>4. CASE \E a \in Assets : RemoveAsset(a)
  BY <1>4 DEF RemoveAsset, KeepsFaces, Ids
<1>5. CASE MergeFaces
  <2>1. faces' = faces \/ faces' = Moved(FacesOf(request.old), request.new)
    BY <1>5 DEF MergeFaces, Moved, FacesOf
  <2>2. FacesOf(request.old) \in SUBSET faces
    BY DEF FacesOf
  <2> QED
    BY <1>1, <1>3, <2>1, <2>2
<1>6. CASE MoveFace
  <2> DEFINE moved == {f \in faces : f.id = request.face}
  <2>1. faces' = faces \/ faces' = Moved(moved, request.new)
    BY <1>6 DEF MoveFace, Moved
  <2>2. moved \in SUBSET faces
    OBVIOUS
  <2> HIDE DEF moved
  <2> QED
    BY <1>1, <1>3, <2>1, <2>2
<1>7. CASE HandlePersonDelete
  <2> DEFINE x == Head(background).id
  <2>1. faces' = faces \ FacesOf(x) /\ Condemned(x)
    BY <1>7, QueueTypes DEF HandlePersonDelete, IInv, QueuesFine, Deletion
  <2> HIDE DEF x
  <2>2. \A f \in FacesOf(x) : f \in faces /\ f.person = x
    BY DEF FacesOf
  <2>3. \A f \in FacesOf(x) : f.person \in forced \/ f.id \in late
    BY <2>1, <2>2 DEF Condemned, IInv, FacesFine
  <2> QED
    BY <2>1, <2>3 DEF KeepsFaces, Ids
<1>8. CASE \E w \in Workers : Handle(w) \/ FailRecognition(w)
  BY <1>1, <1>8 DEF Handle, Take, HandleQueueRecognizeFaces, HandleRecognizeFaces, Load, Search,
     CreatePerson, CreateFace, FirstFeature, MarkRecognised, FailRecognition
<1>9. CASE \/ \E a \in Assets : QueueRecognition(a)
           \/ \E missing \in BOOLEAN : Recognise(missing)
           \/ \E old, new \in Ids(people) : StartMerge(old, new)
           \/ \E f \in faces, new \in people : StartReassign(f, new)
           \/ QueueDelete \/ NewFeature \/ HandlePersonCleanup \/ FailRequest
           \/ UNCHANGED vars
  BY <1>1, <1>9 DEF QueueRecognition, Recognise, StartMerge, StartReassign, Start, QueueDelete,
     NewFeature, HandlePersonCleanup, FailRequest, vars
<1> QED
  BY <1>4, <1>5, <1>6, <1>7, <1>8, <1>9 DEF Next, Proceed

\* A merge carries over the faces it finds, and the cleanup of the night takes only
\* people it finds without: a face that is lost while its asset stays was with a
\* person removed for a new recognition of everything (forced), or came to a person
\* that was merged or found without faces already (late).  These two are excepted,
\* and the code does lose them (mergePerson, handlePersonCleanup).
THEOREM NoFaceIsLost == Spec => FacesKept
<1>1. IInv /\ [Next]_vars => [KeepsFaces]_vars
  BY StepsKeepFaces
<1> QED
  BY <1>1, InvariantHolds, PTL DEF Spec, FacesKept, KeepsFaces

=============================================================================
