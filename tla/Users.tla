-------------------------------- MODULE Users ---------------------------------
(***************************************************************************)
(* The delayed deletion of a user. The administrator deletes a user softly *)
(* and may restore it; a job of every night looks for users deleted long   *)
(* enough ago and queues the removal of their folders and records.         *)
(*                                                                         *)
(* The requests and the handlers stop at each await, and nothing keeps two *)
(* requests for the same user apart. A user is its row and what belongs to *)
(* it: folders, albums and assets. Days are counted from the deletion.     *)
(* Left out: files that jobs of the user's assets write while the folders  *)
(* are removed; the other settings of a user.                              *)
(***************************************************************************)
EXTENDS Naturals, FiniteSets, Sequences, SequencesExt

CONSTANTS
  UserIds,
  Folders,     \* the folders of a user
  Workers,     \* numbers of the handlers of "backgroundTask" that run at once
  Clients,     \* numbers of the requests the server serves at once
  Wait,        \* days between deletion and removal, seven in the code
  MaxJobs,     \* bound: waiting jobs, beyond which no night passes
  MaxRequests, \* bound: deletions and restores
  MaxFailures  \* bound: handlers and requests that throw

ASSUME UsersAreFinite == IsFiniteSet(UserIds)
ASSUME WorkersAreNumbers == Workers \subseteq Nat
ASSUME ClientsAreNumbers == Clients \subseteq Nat
ASSUME WaitIsPositive == Wait \in Nat \ {0}

VARIABLES
  row,      \* "active", "deleted" (softly) or "gone"
  age,      \* days since its deletion, up to Wait
  folders,  \* which are left
  albums,   \* "active", "trashed" or "gone"
  assets,   \* whether its assets have their records
  queue,    \* the waiting jobs of the queue "backgroundTask"
  worker,   \* what each handler does
  request,  \* what each request does, and whether it is its user's only one
  expired,  \* history: who had to reckon with the removal
  unsure,   \* history: whose last request failed or was not alone
  requests, failures

vars == <<row, age, folders, albums, assets, queue, worker, request, expired, unsure,
          requests, failures>>

Job == [name: {"check"}] \cup [name: {"delete"}, id: UserIds]
Idle == [pc |-> "idle"]
Busy == [pc: {"run", "folders", "albums", "assets", "user"}, job: Job, left: SUBSET Folders]
NoRequest == [pc |-> "idle"]
Steps == {"softDeleteAlbums", "softDeleteUser", "restoreUser", "restoreAlbums"}
Request == [pc: Steps, id: UserIds, alone: BOOLEAN]

TypeOK ==
  /\ row \in [UserIds -> {"active", "deleted", "gone"}]
  /\ age \in [UserIds -> 0..Wait]
  /\ folders \in [UserIds -> SUBSET Folders]
  /\ albums \in [UserIds -> {"active", "trashed", "gone"}]
  /\ assets \in [UserIds -> BOOLEAN]
  /\ queue \in Seq(Job)
  /\ worker \in [Workers -> Busy \cup {Idle}]
  /\ request \in [Clients -> Request \cup {NoRequest}]
  /\ expired \subseteq UserIds
  /\ unsure \subseteq UserIds
  /\ requests \in Nat
  /\ failures \in Nat

Init ==
  /\ row = [u \in UserIds |-> "active"]
  /\ age = [u \in UserIds |-> 0]
  /\ folders = [u \in UserIds |-> Folders]
  /\ albums = [u \in UserIds |-> "active"]
  /\ assets = [u \in UserIds |-> TRUE]
  /\ queue = <<>>
  /\ worker = [w \in Workers |-> Idle]
  /\ request = [c \in Clients |-> NoRequest]
  /\ expired = {}
  /\ unsure = {}
  /\ requests = 0
  /\ failures = 0

\* Nothing of the user was removed, and no handler is about to.
Untouched(u) ==
  /\ folders[u] = Folders /\ assets[u] /\ albums[u] # "gone" /\ row[u] # "gone"
  /\ \A w \in Workers : worker[w].pc \notin {"folders", "albums", "assets", "user"}
                        \/ worker[w].job.id # u

-----------------------------------------------------------------------------
(* The requests of the administrators. Each is two calls with awaits       *)
(* between them, and the calls of two requests mix.                        *)

RequestsFor(u) == {c \in Clients : request[c] # NoRequest /\ request[c].id = u}

\* The new request is not alone if the user has another, nor is that one then.
Start(c, u, pc) ==
  /\ request[c] = NoRequest
  /\ \A d \in Clients : d < c => request[d] # NoRequest
  /\ requests < MaxRequests
  /\ requests' = requests + 1
  /\ request' = [d \in Clients |->
                   IF d = c THEN [pc |-> pc, id |-> u, alone |-> RequestsFor(u) = {}]
                   ELSE IF d \in RequestsFor(u) THEN [request[d] EXCEPT !.alone = FALSE]
                   ELSE request[d]]
  /\ UNCHANGED <<row, age, folders, albums, assets, queue, worker, expired, unsure,
                 failures>>

StartDelete(c, u) == row[u] = "active" /\ Start(c, u, "softDeleteAlbums")
StartRestore(c, u) == row[u] # "gone" /\ Start(c, u, "restoreUser")

RequestAt(c, pc) ==
  request[c].pc = pc /\ UNCHANGED <<folders, assets, queue, worker, requests, failures>>

End(c) ==
  /\ request' = [request EXCEPT ![c] = NoRequest]
  /\ unsure' = IF request[c].alone THEN unsure \ {request[c].id}
               ELSE unsure \cup {request[c].id}

SetAlbums(u, from, to) ==
  albums' = IF albums[u] = from THEN [albums EXCEPT ![u] = to] ELSE albums

SoftDeleteAlbums(c) ==
  /\ RequestAt(c, "softDeleteAlbums")
  /\ SetAlbums(request[c].id, "active", "trashed")
  /\ request' = [request EXCEPT ![c].pc = "softDeleteUser"]
  /\ UNCHANGED <<row, age, expired, unsure>>

\* The row the request has loaded may be deleted meanwhile: its time starts again.
SoftDeleteUser(c) ==
  /\ RequestAt(c, "softDeleteUser")
  /\ LET u == request[c].id IN
       /\ row' = IF row[u] = "gone" THEN row ELSE [row EXCEPT ![u] = "deleted"]
       /\ age' = [age EXCEPT ![u] = 0]
  /\ End(c)
  /\ UNCHANGED <<albums, expired>>

RestoreUser(c) ==
  /\ RequestAt(c, "restoreUser")
  /\ LET u == request[c].id IN
       /\ row' = IF row[u] = "gone" THEN row ELSE [row EXCEPT ![u] = "active"]
       /\ expired' = IF Untouched(u) THEN expired \ {u} ELSE expired
  /\ request' = [request EXCEPT ![c].pc = "restoreAlbums"]
  /\ UNCHANGED <<age, albums, unsure>>

RestoreAlbums_FaultyForgotten(c) ==
  /\ RequestAt(c, "restoreAlbums")
  /\ End(c)
  /\ UNCHANGED <<row, age, albums, expired>>

RestoreAlbums(c) ==
  /\ RequestAt(c, "restoreAlbums")
  /\ SetAlbums(request[c].id, "trashed", "active")
  /\ End(c)
  /\ UNCHANGED <<row, age, expired>>

FailRequest(c) ==
  /\ request[c] # NoRequest
  /\ failures < MaxFailures
  /\ failures' = failures + 1
  /\ unsure' = unsure \cup {request[c].id}
  /\ request' = [request EXCEPT ![c] = NoRequest]
  /\ UNCHANGED <<row, age, folders, albums, assets, queue, worker, expired, requests>>

-----------------------------------------------------------------------------
(* The night and the handlers. Nights pass however long a job takes.       *)

NightlyJobs_FaultyOnce ==
  IF \E u \in UserIds : age[u] = Wait THEN <<>> ELSE <<[name |-> "check"]>>
NightlyJobs == <<[name |-> "check"]>>

Night ==
  /\ Len(queue) < MaxJobs
  /\ age' = [u \in UserIds |->
               IF row[u] = "deleted" /\ age[u] < Wait THEN age[u] + 1 ELSE age[u]]
  /\ expired' = expired \cup {u \in UserIds : row[u] = "deleted" /\ age'[u] = Wait}
  /\ queue' = queue \o NightlyJobs
  /\ UNCHANGED <<row, folders, albums, assets, worker, request, unsure, requests,
                 failures>>

IsReadyForDeletion(u) == row[u] = "deleted" /\ age[u] >= Wait

HandlerVars == <<age, request, expired, unsure, requests, failures>>

Take(w) ==
  /\ worker[w] = Idle
  /\ \A v \in Workers : v < w => worker[v] # Idle
  /\ queue # <<>>
  /\ worker' = [worker EXCEPT ![w] = [pc |-> "run", job |-> Head(queue), left |-> {}]]
  /\ queue' = Tail(queue)
  /\ UNCHANGED <<HandlerVars, row, folders, albums, assets>>

At(w, name, pc) == worker[w].pc = pc /\ worker[w].job.name = name /\ UNCHANGED HandlerVars
Goto(w, pc) == worker' = [worker EXCEPT ![w].pc = pc]
Done(w) == worker' = [worker EXCEPT ![w] = Idle]

DeleteJobs_FaultyRows ==
  {[name |-> "delete", id |-> row[u]] : u \in {u \in UserIds : IsReadyForDeletion(u)}}
DeleteJobs == {[name |-> "delete", id |-> u] : u \in {u \in UserIds : IsReadyForDeletion(u)}}

HandleUserDeleteCheck(w) ==
  /\ At(w, "check", "run")
  /\ queue' = queue \o SetToSeq(DeleteJobs)
  /\ Done(w)
  /\ UNCHANGED <<row, folders, albums, assets>>

\* The job may have waited: the user is looked at again.
LoadUser_FaultyTrusting(w) ==
  /\ At(w, "delete", "run")
  /\ IF row[worker[w].job.id] # "gone"
     THEN worker' = [worker EXCEPT ![w].pc = "folders", ![w].left = Folders]
     ELSE Done(w)
  /\ UNCHANGED <<row, folders, albums, assets, queue>>

LoadUser(w) ==
  /\ At(w, "delete", "run")
  /\ IF IsReadyForDeletion(worker[w].job.id)
     THEN worker' = [worker EXCEPT ![w].pc = "folders", ![w].left = Folders]
     ELSE Done(w)
  /\ UNCHANGED <<row, folders, albums, assets, queue>>

\* Removing a folder that is not there is no error.
RemoveFolder_FaultyLast(w) ==
  /\ At(w, "delete", "folders")
  /\ \E f \in worker[w].left :
       /\ folders' = [folders EXCEPT ![worker[w].job.id] = @ \ {f}]
       /\ worker' = [worker EXCEPT ![w].left = @ \ {f}, ![w].pc = "albums"]
  /\ UNCHANGED <<row, albums, assets, queue>>

RemoveFolder(w) ==
  /\ At(w, "delete", "folders")
  /\ IF worker[w].left = {}
     THEN Goto(w, "albums") /\ UNCHANGED folders
     ELSE \E f \in worker[w].left :
            /\ folders' = [folders EXCEPT ![worker[w].job.id] = @ \ {f}]
            /\ worker' = [worker EXCEPT ![w].left = @ \ {f}]
  /\ UNCHANGED <<row, albums, assets, queue>>

DeleteAlbums(w) ==
  /\ At(w, "delete", "albums")
  /\ albums' = [albums EXCEPT ![worker[w].job.id] = "gone"]
  /\ Goto(w, "assets")
  /\ UNCHANGED <<row, folders, assets, queue>>

DeleteAssets(w) ==
  /\ At(w, "delete", "assets")
  /\ assets' = [assets EXCEPT ![worker[w].job.id] = FALSE]
  /\ Goto(w, "user")
  /\ UNCHANGED <<row, folders, albums, queue>>

\* The row takes along whatever still refers to it.
DeleteUser(w) ==
  /\ At(w, "delete", "user")
  /\ row' = [row EXCEPT ![worker[w].job.id] = "gone"]
  /\ albums' = [albums EXCEPT ![worker[w].job.id] = "gone"]
  /\ assets' = [assets EXCEPT ![worker[w].job.id] = FALSE]
  /\ Done(w)
  /\ UNCHANGED <<folders, queue>>

HandleUserDelete(w) ==
  LoadUser(w) \/ RemoveFolder(w) \/ DeleteAlbums(w) \/ DeleteAssets(w) \/ DeleteUser(w)

\* A call of a handler throws, or its process dies: the job is not tried again.
Fail(w) ==
  /\ worker[w] # Idle
  /\ failures < MaxFailures
  /\ failures' = failures + 1
  /\ Done(w)
  /\ UNCHANGED <<row, age, folders, albums, assets, queue, request, expired, unsure,
                 requests>>

-----------------------------------------------------------------------------
Handle(w) == Take(w) \/ HandleUserDeleteCheck(w) \/ HandleUserDelete(w)
Proceed(c) == SoftDeleteAlbums(c) \/ SoftDeleteUser(c) \/ RestoreUser(c) \/ RestoreAlbums(c)

Next ==
  \/ \E c \in Clients, u \in UserIds : StartDelete(c, u) \/ StartRestore(c, u)
  \/ \E c \in Clients : Proceed(c) \/ FailRequest(c)
  \/ Night
  \/ \E w \in Workers : Handle(w) \/ Fail(w)

\* Nights come, and the queue and the requests are served.
Fairness ==
  /\ WF_vars(Night)
  /\ \A c \in Clients : WF_vars(Proceed(c))
  /\ \A w \in Workers : WF_vars(Handle(w))

Spec == Init /\ [][Next]_vars /\ Fairness

-----------------------------------------------------------------------------
(* Properties.                                                             *)

\* Nobody loses a folder, an album or an asset who was not left deleted for
\* the whole time of waiting, also one who was restored and deleted again
\* while an old job was waiting (handleUserDelete, the extra protection).
OnlyExpiredLose ==
  \A u \in UserIds : u \notin expired =>
    folders[u] = Folders /\ assets[u] /\ albums[u] # "gone" /\ row[u] # "gone"

\* A user who is gone leaves no folder behind (the order of handleUserDelete:
\* without the row no job would come back for them).
GoneLeavesNoFolder == \A u \in UserIds : row[u] = "gone" => folders[u] = {}

\* A request that was its user's only one, from its start to a good end, leaves
\* the albums where the user is, whatever requests that overlapped or failed
\* left before it (delete and restore change the two apart). Not of a user whose
\* last request overlapped with another or failed, which may part them, nor of
\* one whose time of waiting was over, whose albums a removal may have taken.
AlbumsFollowUser ==
  \A u \in UserIds \ (unsure \cup expired) :
    RequestsFor(u) = {} => (albums[u] = "active") = (row[u] = "active")

\* A user who stays deleted disappears in the end, though a job fails with
\* half of the folders removed (handleUserDeleteCheck).
DeletedDisappear == \A u \in UserIds : row[u] = "deleted" ~> row[u] # "deleted"

=============================================================================
