-------------------------------- MODULE People --------------------------------
(***************************************************************************)
(* The people found in the pictures of one user. The recognition of an     *)
(* asset makes a face of each look it detects, of the person whose face is *)
(* the nearest, or of a new one. The owner merges people and moves faces   *)
(* between them; people without faces are removed at night, and a person   *)
(* that is removed takes its faces along.                                  *)
(*                                                                         *)
(* Recognitions run side by side and stop at each await, as does the       *)
(* request of the owner; the other jobs make one change each. Two looks    *)
(* are near or not, so that a look is a member of a set. Left out: names,  *)
(* and the thumbnail of a person that follows each new feature face.       *)
(***************************************************************************)
EXTENDS Naturals, FiniteSets, Sequences, SequencesExt

CONSTANTS
  Assets,
  Looks,       \* the looks of people
  LooksOf,     \* those detected in an asset
  Workers,     \* numbers of the recognitions that run at once
  MaxEvents,   \* bound: requests, and recognitions that throw
  None

ASSUME AssetsAreFinite == IsFiniteSet(Assets)
ASSUME NoneIsNoValue == None \notin Looks /\ None \notin Nat
ASSUME WorkersAreNumbers == Workers \subseteq Nat
ASSUME LooksOfAssets == LooksOf \in [Assets -> SUBSET Looks]

VARIABLES
  assets,     \* the assets with a preview
  faces,      \* the table of faces
  people,     \* the table of people
  made,       \* how many people were ever made; also the last id
  found,      \* how many faces were ever made; also the last id
  recognised, \* the assets with a time of recognition
  queue,      \* the waiting jobs of the queue "recognizeFaces"
  background, \* those that delete a person, of the queue "backgroundTask"
  worker,     \* what each recognition does, and what it has loaded
  request,    \* what the request does, and what it has loaded
  retired,    \* history: people merged or found without faces
  forced,     \* history: people removed for a new recognition of everything
  late,       \* history: faces that are with a person already retired
  robbed,     \* history: assets that lost a face with its person
  events

vars == <<assets, faces, people, made, found, recognised, queue, background, worker,
          request, retired, forced, late, robbed, events>>
history == <<retired, forced, late, robbed>>

Face == [id: Nat, asset: Assets, look: Looks, person: Nat]
Person == [id: Nat, feature: Nat \cup {None}]
Job == [name: {"recognise"}, asset: Assets] \cup [name: {"queueAll", "queueMissing"}]
BackgroundJob == [name: {"delete"}, id: Nat]

Idle == [pc |-> "idle"]
\* A recognition: its asset, the looks to come, the one in hand and its person.
Busy == [pc: {"run", "queue", "person", "face", "feature"}, job: Job, left: SUBSET Looks,
         look: Looks \cup {None}, person: Nat \cup {None}, face: Nat \cup {None}]
\* A request: a merge of old into new, or the move of a face from old to new.
NoRequest == [pc |-> "idle"]
Request == [pc: {"mergeFaces", "queueDelete"}, old: Nat, new: Nat]
           \cup [pc: {"moveFace", "features"}, old: Nat, new: Nat, face: Nat, renew: SUBSET Nat]

TypeOK ==
  /\ assets \subseteq Assets
  /\ faces \subseteq Face
  /\ people \subseteq Person
  /\ made \in Nat
  /\ found \in Nat
  /\ recognised \subseteq Assets
  /\ queue \in Seq(Job)
  /\ background \in Seq(BackgroundJob)
  /\ worker \in [Workers -> Busy \cup {Idle}]
  /\ request \in Request \cup {NoRequest}
  /\ retired \subseteq Nat /\ forced \subseteq Nat /\ late \subseteq Nat
  /\ robbed \subseteq Assets
  /\ events \in Nat

\* A first batch of uploads has come to the end of its chain.
Init ==
  /\ assets = Assets
  /\ faces = {}
  /\ people = {}
  /\ made = 0
  /\ found = 0
  /\ recognised = {}
  /\ queue = SetToSeq({[name |-> "recognise", asset |-> a] : a \in Assets})
  /\ background = <<>>
  /\ worker = [w \in Workers |-> Idle]
  /\ request = NoRequest
  /\ retired = {} /\ forced = {} /\ late = {} /\ robbed = {}
  /\ events = 0

Ids(S) == {r.id : r \in S}
FacesOf(p) == {f \in faces : f.person = p}
\* Rows without some faces: a feature face that is gone is set to null.
WithoutFaces(gone) ==
  {IF p.feature \in Ids(gone) THEN [p EXCEPT !.feature = None] ELSE p : p \in people}
SetFeature(p, f) == people' = {IF q.id = p THEN [q EXCEPT !.feature = f] ELSE q : q \in people}

-----------------------------------------------------------------------------
(* What starts a recognition, and the removal of an asset.                 *)

\* The chain of an upload comes to its end.
QueueRecognition(a) ==
  /\ a \in assets
  /\ events < MaxEvents /\ events' = events + 1
  /\ queue' = Append(queue, [name |-> "recognise", asset |-> a])
  /\ UNCHANGED <<assets, faces, people, made, found, recognised, background, worker,
                 request, history>>

RemoveAsset(a) ==
  /\ a \in assets
  /\ events < MaxEvents /\ events' = events + 1
  /\ assets' = assets \ {a}
  /\ recognised' = recognised \ {a}
  /\ faces' = {f \in faces : f.asset # a}
  /\ people' = WithoutFaces({f \in faces : f.asset = a})
  /\ UNCHANGED <<made, found, queue, background, worker, request, history>>

Recognise(missing) ==
  /\ events < MaxEvents /\ events' = events + 1
  /\ queue' = Append(queue, [name |-> IF missing THEN "queueMissing" ELSE "queueAll"])
  /\ UNCHANGED <<assets, faces, people, made, found, recognised, background, worker,
                 request, history>>

-----------------------------------------------------------------------------
(* The queue of recognitions.                                              *)

Take(w) ==
  /\ worker[w] = Idle
  /\ \A v \in Workers : v < w => worker[v] # Idle
  /\ queue # <<>>
  /\ worker' = [worker EXCEPT ![w] = [pc |-> "run", job |-> Head(queue), left |-> {},
                                      look |-> None, person |-> None, face |-> None]]
  /\ queue' = Tail(queue)
  /\ UNCHANGED <<assets, faces, people, made, found, recognised, background, request,
                 history, events>>

At(w, name, pc) ==
  /\ worker[w].pc = pc
  /\ worker[w].job.name = name
  /\ UNCHANGED <<assets, request, events>>
Done(w) == worker' = [worker EXCEPT ![w] = Idle]

DeleteAll(ids) == background' = background \o SetToSeq({[name |-> "delete", id |-> p] : p \in ids})
Missing == {a \in assets \ recognised : \A f \in faces : f.asset # a}

RecogniseAll(S) == queue' = queue \o SetToSeq({[name |-> "recognise", asset |-> a] : a \in S})

HandleQueueRecognizeFaces(w) ==
  \/ /\ At(w, "queueMissing", "run")
     /\ RecogniseAll(Missing)
     /\ Done(w)
     /\ UNCHANGED <<faces, people, made, found, recognised, background, history>>
  \/ /\ At(w, "queueAll", "run")
     /\ DeleteAll(Ids(people))
     /\ forced' = forced \cup Ids(people)
     /\ worker' = [worker EXCEPT ![w].pc = "queue"]
     /\ UNCHANGED <<faces, people, made, found, recognised, queue, retired, late, robbed>>
  \/ /\ At(w, "queueAll", "queue")
     /\ RecogniseAll(assets)
     /\ Done(w)
     /\ UNCHANGED <<faces, people, made, found, recognised, background, history>>

\* An asset that has faces is left alone; else its looks are detected.
Load(w) ==
  /\ At(w, "recognise", "run")
  /\ LET a == worker[w].job.asset
     IN IF a \in assets /\ \A f \in faces : f.asset # a
        THEN worker' = [worker EXCEPT ![w].left = LooksOf[a], ![w].pc = "face"]
        ELSE Done(w)
  /\ UNCHANGED <<faces, people, made, found, recognised, queue, background, history>>

\* The next look, in the order of the detection: one of the nearest faces gives
\* the person, if there is any.
Search(w) ==
  /\ At(w, "recognise", "face") /\ worker[w].look = None /\ worker[w].left # {}
  /\ LET l == CHOOSE l \in worker[w].left : TRUE
         near == {f.person : f \in {f \in faces : f.look = l}}
     IN \E p \in IF near = {} THEN {None} ELSE near :
            worker' = [worker EXCEPT ![w].left = @ \ {l}, ![w].look = l, ![w].person = p,
                                     ![w].pc = IF p = None THEN "person" ELSE "face"]
  /\ UNCHANGED <<faces, people, made, found, recognised, queue, background, history>>

CreatePerson(w) ==
  /\ At(w, "recognise", "person")
  /\ made' = made + 1
  /\ people' = people \cup {[id |-> made + 1, feature |-> None]}
  /\ worker' = [worker EXCEPT ![w].person = made + 1, ![w].pc = "feature"]
  /\ UNCHANGED <<faces, found, recognised, queue, background, history>>

\* A face refers to its asset and its person; without one of them the call throws.
CreateFace(w) ==
  /\ \/ At(w, "recognise", "face") /\ worker[w].look # None
     \/ At(w, "recognise", "feature") /\ worker[w].face = None
  /\ LET a == worker[w].job.asset
         p == worker[w].person
         new == [id |-> found + 1, asset |-> a, look |-> worker[w].look, person |-> p]
     IN IF a \in assets /\ p \in Ids(people)
        THEN /\ faces' = faces \cup {new}
             /\ found' = found + 1
             /\ late' = IF p \in retired THEN late \cup {new.id} ELSE late
             /\ worker' = IF worker[w].pc = "feature"
                          THEN [worker EXCEPT ![w].face = new.id]
                          ELSE [worker EXCEPT ![w].look = None, ![w].person = None]
        ELSE Done(w) /\ UNCHANGED <<faces, found, late>>
  /\ UNCHANGED <<people, made, recognised, queue, background, retired, forced, robbed>>

\* The first face of a new person is its feature face.
FirstFeature(w) ==
  /\ At(w, "recognise", "feature") /\ worker[w].face # None
  /\ IF worker[w].person \in Ids(people) /\ worker[w].face \in Ids(faces)
     THEN /\ SetFeature(worker[w].person, worker[w].face)
          /\ worker' = [worker EXCEPT ![w].pc = "face", ![w].look = None, ![w].person = None,
                                      ![w].face = None]
     ELSE Done(w) /\ UNCHANGED people
  /\ UNCHANGED <<faces, made, found, recognised, queue, background, history>>

MarkRecognised_FaultyEarly(w) ==
  /\ At(w, "recognise", "face") /\ worker[w].look = None
  /\ recognised' = recognised \cup ({worker[w].job.asset} \cap assets)
  /\ IF worker[w].left = {} THEN Done(w) ELSE UNCHANGED worker
  /\ UNCHANGED <<faces, people, made, found, queue, background, history>>

MarkRecognised(w) ==
  /\ At(w, "recognise", "face") /\ worker[w].look = None /\ worker[w].left = {}
  /\ recognised' = recognised \cup ({worker[w].job.asset} \cap assets)
  /\ Done(w)
  /\ UNCHANGED <<faces, people, made, found, queue, background, history>>

HandleRecognizeFaces(w) ==
  \/ Load(w) \/ Search(w) \/ CreatePerson(w) \/ CreateFace(w) \/ FirstFeature(w)
  \/ MarkRecognised(w)

-----------------------------------------------------------------------------
(* The requests of the owner, one at a time.                               *)

RequestAt(pc) == request.pc = pc /\ UNCHANGED <<assets, recognised, queue, worker,
                                                events>>

Start(r) ==
  /\ request = NoRequest
  /\ events < MaxEvents /\ events' = events + 1
  /\ request' = r
  /\ UNCHANGED <<assets, faces, people, made, found, recognised, queue, background,
                 worker, history>>

\* mergePerson; nothing keeps a person from being merged into itself.
StartMerge(old, new) ==
  Start([pc |-> "mergeFaces", old |-> old, new |-> new])

MergeFaces_FaultyQueueFirst ==
  /\ RequestAt("mergeFaces")
  /\ DeleteAll({request.old})
  /\ request' = [request EXCEPT !.pc = "queueDelete"]
  /\ UNCHANGED <<faces, people, made, found, history>>

MergeFaces ==
  /\ RequestAt("mergeFaces")
  /\ IF FacesOf(request.old) # {} /\ request.new \notin Ids(people)
     THEN request' = NoRequest /\ UNCHANGED <<faces, retired, late>>
     ELSE /\ faces' = {IF f.person = request.old THEN [f EXCEPT !.person = request.new] ELSE f :
                         f \in faces}
          /\ retired' = retired \cup {request.old}
          /\ late' = IF request.new \in retired' THEN late \cup Ids(FacesOf(request.old)) ELSE late
          /\ request' = [request EXCEPT !.pc = "queueDelete"]
  /\ UNCHANGED <<people, made, found, background, forced, robbed>>

QueueDelete ==
  /\ RequestAt("queueDelete")
  /\ DeleteAll({request.old})
  /\ request' = NoRequest
  /\ UNCHANGED <<faces, people, made, found, history>>

\* reassignFacesById: who needs a new feature face is decided by what was
\* loaded before the move.
StartReassign(f, new) ==
  Start([pc |-> "moveFace", old |-> f.person, new |-> new.id, face |-> f.id,
         renew |-> {p.id : p \in {p \in people :
                      (p.id = new.id /\ p.feature = None) \/ (p.id = f.person /\ p.feature = f.id)}}])

MoveFace ==
  /\ RequestAt("moveFace")
  /\ IF request.new \in Ids(people)
     THEN /\ faces' = {IF f.id = request.face THEN [f EXCEPT !.person = request.new] ELSE f :
                         f \in faces}
          /\ late' = IF request.new \in retired THEN late \cup {request.face} ELSE late
          /\ request' = [request EXCEPT !.pc = "features"]
     ELSE request' = NoRequest /\ UNCHANGED <<faces, late>>
  /\ UNCHANGED <<people, made, found, background, retired, forced, robbed>>

\* createNewFeaturePhoto: any face of the person, and nothing if it has none.
NewFeature ==
  /\ RequestAt("features")
  /\ IF request.renew = {}
     THEN request' = NoRequest /\ UNCHANGED people
     ELSE \E p \in request.renew :
            /\ request' = [request EXCEPT !.renew = @ \ {p}]
            /\ IF FacesOf(p) = {} THEN UNCHANGED people
               ELSE \E f \in FacesOf(p) : SetFeature(p, f.id)
  /\ UNCHANGED <<faces, made, found, background, history>>

-----------------------------------------------------------------------------
(* The other jobs.                                                         *)

BackgroundOnly ==
  UNCHANGED <<assets, made, found, recognised, queue, worker, request, events>>

EmptyPeople_FaultyByFeature == {p \in people : p.feature = None}
EmptyPeople == {p \in people : FacesOf(p.id) = {}}

HandlePersonCleanup_FaultyFaceId ==
  /\ BackgroundOnly
  /\ background = <<>>
  /\ DeleteAll({p.feature : p \in EmptyPeople})
  /\ UNCHANGED <<faces, people, history>>

\* The job of every night; that it waits in its queue is a later night.
HandlePersonCleanup ==
  /\ BackgroundOnly
  /\ background = <<>>
  /\ DeleteAll(Ids(EmptyPeople))
  /\ retired' = retired \cup {p \in Ids(people) : FacesOf(p) = {}}
  /\ UNCHANGED <<faces, people, forced, late, robbed>>

\* The faces of a person go with it.
HandlePersonDelete ==
  /\ BackgroundOnly
  /\ background # <<>>
  /\ background' = Tail(background)
  /\ LET gone == FacesOf(Head(background).id)
     IN /\ faces' = faces \ gone
        /\ people' = {p \in WithoutFaces(gone) : p.id # Head(background).id}
        /\ robbed' = robbed \cup {f.asset : f \in gone}
        /\ late' = late \ Ids(gone)
  /\ retired' = retired \ {Head(background).id}
  /\ forced' = forced \ {Head(background).id}

FailRecognition(w) ==
  /\ worker[w] # Idle
  /\ events < MaxEvents /\ events' = events + 1
  /\ Done(w)
  /\ UNCHANGED <<assets, faces, people, made, found, recognised, queue, background,
                 request, history>>

\* A request that has started may throw at any call.
FailRequest ==
  /\ request # NoRequest
  /\ request' = NoRequest
  /\ UNCHANGED <<assets, faces, people, made, found, recognised, queue, background,
                 worker, history, events>>

-----------------------------------------------------------------------------
Proceed == MergeFaces \/ QueueDelete \/ MoveFace \/ NewFeature
Handle(w) == Take(w) \/ HandleQueueRecognizeFaces(w) \/ HandleRecognizeFaces(w)

Next ==
  \/ \E a \in Assets : QueueRecognition(a) \/ RemoveAsset(a)
  \/ \E missing \in BOOLEAN : Recognise(missing)
  \/ \E old, new \in Ids(people) : StartMerge(old, new)
  \/ \E f \in faces, new \in people : StartReassign(f, new)
  \/ Proceed
  \/ \E w \in Workers : Handle(w) \/ FailRecognition(w)
  \/ HandlePersonCleanup \/ HandlePersonDelete
  \/ FailRequest

Fairness ==
  /\ WF_vars(HandlePersonCleanup) /\ WF_vars(HandlePersonDelete)
  /\ \A w \in Workers : WF_vars(Handle(w))

Spec == Init /\ [][Next]_vars /\ Fairness

-----------------------------------------------------------------------------
(* Properties.                                                             *)

\* A face goes only with its asset, for a new recognition of everything, or
\* because it is with its person when that was merged or found without faces
\* already: what a merge into another finds it carries over, and the cleanup
\* never takes a person with faces (mergePerson, handlePersonCleanup).
FacesKept ==
  [][\A f \in faces :
       f.id \in Ids(faces') \/ f.asset \notin assets' \/ f.person \in forced \/ f.id \in late]_vars

\* An asset that counts as recognised, and is never looked at again, has a
\* face for each of its looks, unless a person took one along
\* (handleRecognizeFaces, the time it writes last).
RecognisedInFull ==
  \A a \in recognised \ robbed :
    \A l \in LooksOf[a] : \E f \in faces : f.asset = a /\ f.look = l

\* When the requests have ceased, everybody without faces disappears: the
\* people merged, those whose assets went, and those a recognition made and
\* then failed (handlePersonCleanup).
EmptyPeopleGo == <>[](\A p \in people : FacesOf(p.id) # {})

=============================================================================
