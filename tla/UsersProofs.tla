----------------------------- MODULE UsersProofs -----------------------------
(***************************************************************************)
(* The deletion of users, for any number of users, folders and handlers    *)
(* and clients and any bound on requests and failures: nothing goes before *)
(* its time, no folder outlives its user, and a request that was alone     *)
(* leaves the albums where the user is.                                    *)
(***************************************************************************)
EXTENDS Users, QueueLemmas

Removing == {"folders", "albums", "assets", "user"}

-----------------------------------------------------------------------------
(* The inductive invariant                                                 *)

\* Whoever is deleted for long enough is known to be.
ExpiryIsNoted == \A u \in UserIds : IsReadyForDeletion(u) => u \in expired

\* A removal runs against users who were.
RemovalsAreDue ==
  \A w \in Workers : worker[w].pc \in Removing =>
    worker[w].job.name = "delete" /\ worker[w].job.id \in expired

\* A removal that has left the folders behind it has left none.
FoldersGoFirst ==
  \A w \in Workers :
    /\ worker[w].pc = "folders" => folders[worker[w].job.id] \subseteq worker[w].left
    /\ worker[w].pc \in {"albums", "assets", "user"} => folders[worker[w].job.id] = {}

\* A request that passes for its user's only one is.
AloneIsAlone ==
  \A c, d \in Clients :
    /\ request[c] # NoRequest /\ request[c].alone
    /\ request[d] # NoRequest /\ request[d].id = request[c].id
    => c = d

\* Between its two steps a request that is alone has done the first.
RequestHalfDone ==
  \A c \in Clients : request[c] # NoRequest /\ request[c].alone =>
    /\ request[c].pc = "softDeleteUser" => albums[request[c].id] # "active"
    /\ request[c].pc = "restoreAlbums" => row[request[c].id] # "deleted"

IInv ==
  /\ TypeOK
  /\ ExpiryIsNoted /\ RemovalsAreDue /\ OnlyExpiredLose
  /\ FoldersGoFirst /\ GoneLeavesNoFolder
  /\ AloneIsAlone /\ RequestHalfDone /\ AlbumsFollowUser

-----------------------------------------------------------------------------
LEMMA InitEstablishesInvariant == Init => IInv
<1> SUFFICES ASSUME Init PROVE IInv
  OBVIOUS
<1>1. TypeOK
  BY WaitIsPositive DEF Init, TypeOK
<1>2. ExpiryIsNoted /\ RemovalsAreDue /\ OnlyExpiredLose /\ FoldersGoFirst
  BY DEF Init, ExpiryIsNoted, IsReadyForDeletion, RemovalsAreDue, Removing,
         OnlyExpiredLose, FoldersGoFirst, Idle
<1>3. GoneLeavesNoFolder /\ AloneIsAlone /\ RequestHalfDone /\ AlbumsFollowUser
  BY DEF Init, GoneLeavesNoFolder, AloneIsAlone, RequestHalfDone, AlbumsFollowUser
<1> QED
  BY <1>1, <1>2, <1>3 DEF IInv

\* What depends on requests, when all other variables stay.
LEMMA QuietForUsers ==
  ASSUME IInv, UNCHANGED <<row, age, folders, albums, assets, queue, worker, expired>>
  PROVE  /\ ExpiryIsNoted' /\ RemovalsAreDue' /\ OnlyExpiredLose'
         /\ FoldersGoFirst' /\ GoneLeavesNoFolder'
BY DEF IInv, ExpiryIsNoted, IsReadyForDeletion, RemovalsAreDue, Removing, OnlyExpiredLose,
       FoldersGoFirst, GoneLeavesNoFolder

\* A request that starts changes nothing but what is said of who is alone.
LEMMA StartKeepsInvariant ==
  ASSUME IInv, NEW c \in Clients, NEW u \in UserIds, StartDelete(c, u) \/ StartRestore(c, u)
  PROVE  IInv'
<1> USE DEF IInv
<1>1. PICK pc \in {"softDeleteAlbums", "restoreUser"} : Start(c, u, pc)
  BY DEF StartDelete, StartRestore
<1> DEFINE new == [pc |-> pc, id |-> u, alone |-> RequestsFor(u) = {}]
<1>2. new \in Request
  BY DEF Request, Steps
<1>3. /\ request'[c] = new
      /\ \A d \in Clients \ {c} :
           /\ d \in RequestsFor(u) => request'[d] = [request[d] EXCEPT !.alone = FALSE]
           /\ d \notin RequestsFor(u) => request'[d] = request[d]
  BY <1>1 DEF Start
<1>4. ASSUME NEW d \in Clients \ {c}
      PROVE  /\ request[d] = NoRequest => request'[d] = NoRequest
             /\ request[d] # NoRequest =>
                  /\ request'[d] \in Request
                  /\ request'[d].pc = request[d].pc /\ request'[d].id = request[d].id
                  /\ request'[d].alone => request[d].alone /\ request[d].id # u
  <2>1. CASE request[d] = NoRequest
    BY <1>3, <2>1 DEF RequestsFor
  <2>2. CASE request[d] # NoRequest
    <3>1. request[d] \in Request
      BY <2>2 DEF TypeOK
    <3>2. CASE d \in RequestsFor(u)
      <4>1. request'[d] = [request[d] EXCEPT !.alone = FALSE]
        BY <1>3, <3>2
      <4> QED
        BY <2>2, <3>1, <4>1 DEF Request
    <3>3. CASE d \notin RequestsFor(u)
      BY <1>3, <2>2, <3>1, <3>3 DEF RequestsFor
    <3> QED
      BY <3>2, <3>3
  <2> QED
    BY <2>1, <2>2
<1>5. NoRequest \notin Request
  BY DEF NoRequest, Request
<1>6. TypeOK'
  <2>1. \A d \in Clients : request'[d] \in Request \cup {NoRequest}
    BY <1>2, <1>3, <1>4
  <2>2. request' \in [Clients -> Request \cup {NoRequest}]
    BY <1>1, <2>1 DEF Start
  <2> QED
    BY <1>1, <2>2 DEF Start, TypeOK
<1>7. AloneIsAlone'
  <2> SUFFICES ASSUME NEW d \in Clients, NEW e \in Clients,
                      request'[d] # NoRequest, request'[d].alone,
                      request'[e] # NoRequest, request'[e].id = request'[d].id
               PROVE  d = e
    BY DEF AloneIsAlone
  <2>1. CASE d # c /\ e # c
    BY <1>4, <2>1 DEF AloneIsAlone
  <2>2. CASE d = c /\ e # c
    <3>1. RequestsFor(u) = {} /\ request'[e].id = u
      <4>1. new.alone = (RequestsFor(u) = {}) /\ new.id = u
        BY Zenon
      <4> HIDE DEF new
      <4> QED
        BY <1>3, <2>2, <4>1
    <3>2. e \in RequestsFor(u)
      BY <1>4, <2>2, <3>1 DEF RequestsFor
    <3> QED
      BY <3>1, <3>2
  <2>3. CASE d # c /\ e = c
    BY <1>3, <1>4, <2>3
  <2> QED
    BY <2>1, <2>2, <2>3
<1>8. RequestHalfDone'
  <2> SUFFICES ASSUME NEW d \in Clients, request'[d] # NoRequest, request'[d].alone
               PROVE  /\ request'[d].pc = "softDeleteUser" => albums'[request'[d].id] # "active"
                      /\ request'[d].pc = "restoreAlbums" => row'[request'[d].id] # "deleted"
    BY DEF RequestHalfDone
  <2>1. CASE d = c
    BY <1>3, <2>1
  <2>2. CASE d # c
    BY <1>1, <1>4, <2>2 DEF Start, RequestHalfDone
  <2> QED
    BY <2>1, <2>2
<1>9. AlbumsFollowUser'
  <2> SUFFICES ASSUME NEW v \in UserIds \ (unsure' \cup expired'), RequestsFor(v)' = {}
               PROVE  (albums'[v] = "active") = (row'[v] = "active")
    BY DEF AlbumsFollowUser
  <2>1. RequestsFor(v) = {}
    <3> SUFFICES ASSUME NEW d \in Clients, request[d] # NoRequest, request[d].id = v
                 PROVE  FALSE
      BY DEF RequestsFor
    <3>1. d # c
      BY <1>1 DEF Start
    <3> QED
      BY <1>4, <1>5, <3>1 DEF RequestsFor
  <2> QED
    BY <1>1, <2>1 DEF Start, AlbumsFollowUser
<1>10. ExpiryIsNoted' /\ RemovalsAreDue' /\ OnlyExpiredLose' /\ FoldersGoFirst' /\ GoneLeavesNoFolder'
  BY <1>1, QuietForUsers DEF Start
<1> QED
  BY <1>6, <1>7, <1>8, <1>9, <1>10

\* How a step of a request moves it: on to its second call, or to its end.
LEMMA RequestMoves ==
  ASSUME TypeOK, NEW c \in Clients, Proceed(c) \/ FailRequest(c)
  PROVE  /\ request[c] \in Request /\ request[c] # NoRequest
         /\ request' \in [Clients -> Request \cup {NoRequest}]
         /\ \A d \in Clients \ {c} : request'[d] = request[d]
         /\ \/ /\ request'[c] = NoRequest
               /\ SoftDeleteUser(c) \/ RestoreAlbums(c) \/ FailRequest(c)
            \/ /\ request'[c] \in Request /\ request'[c] # NoRequest
               /\ request'[c].id = request[c].id /\ request'[c].alone = request[c].alone
               /\ unsure' = unsure
               /\ \/ SoftDeleteAlbums(c) /\ request'[c].pc = "softDeleteUser"
                  \/ RestoreUser(c) /\ request'[c].pc = "restoreAlbums"
<1>1. request \in [Clients -> Request \cup {NoRequest}] /\ NoRequest \notin Request
  <2>1. NoRequest \notin Request
    BY DEF NoRequest, Request
  <2> QED
    BY <2>1 DEF TypeOK
<1>2. request[c] \in Request /\ request[c] # NoRequest
  BY <1>1 DEF Proceed, SoftDeleteAlbums, SoftDeleteUser, RestoreUser, RestoreAlbums, RequestAt,
              FailRequest, NoRequest
<1>3. ASSUME NEW pc \in {"softDeleteUser", "restoreAlbums"},
             request' = [request EXCEPT ![c].pc = pc]
      PROVE  /\ request' \in [Clients -> Request \cup {NoRequest}]
             /\ \A d \in Clients \ {c} : request'[d] = request[d]
             /\ request'[c] \in Request /\ request'[c].pc = pc
             /\ request'[c].id = request[c].id /\ request'[c].alone = request[c].alone
  <2>1. request'[c] = [request[c] EXCEPT !.pc = pc]
    BY <1>1, <1>3
  <2>2. /\ request'[c] \in Request /\ request'[c].pc = pc
        /\ request'[c].id = request[c].id /\ request'[c].alone = request[c].alone
    BY <1>2, <2>1 DEF Request, Steps
  <2>3. request' = [request EXCEPT ![c] = request'[c]]
    BY <1>1, <1>3
  <2> QED
    BY <1>1, <2>2, <2>3
<1>4. CASE SoftDeleteAlbums(c)
  BY <1>1, <1>2, <1>3, <1>4 DEF SoftDeleteAlbums
<1>5. CASE RestoreUser(c)
  BY <1>1, <1>2, <1>3, <1>5 DEF RestoreUser
<1>6. CASE SoftDeleteUser(c) \/ RestoreAlbums(c) \/ FailRequest(c)
  <2>1. request' = [request EXCEPT ![c] = NoRequest]
    BY <1>6 DEF SoftDeleteUser, RestoreAlbums, FailRequest, End
  <2> QED
    BY <1>1, <1>2, <1>6, <2>1
<1> QED
  BY <1>4, <1>5, <1>6 DEF Proceed

\* Whoever is alone stays so while requests move and end.
LEMMA MovesKeepAlone ==
  ASSUME IInv, NEW c \in Clients, Proceed(c) \/ FailRequest(c)
  PROVE  AloneIsAlone'
BY RequestMoves DEF IInv, AloneIsAlone

\* If the other requests of its user are none, another's second call is safe.
LEMMA OthersHalfDone ==
  ASSUME IInv, NEW c \in Clients, Proceed(c) \/ FailRequest(c),
         \A v \in UserIds : v # request[c].id => row'[v] = row[v] /\ albums'[v] = albums[v]
  PROVE  \A d \in Clients \ {c} : request'[d] # NoRequest /\ request'[d].alone =>
           /\ request'[d].pc = "softDeleteUser" => albums'[request'[d].id] # "active"
           /\ request'[d].pc = "restoreAlbums" => row'[request'[d].id] # "deleted"
<1> USE DEF IInv
<1> SUFFICES ASSUME NEW d \in Clients \ {c}, request[d] # NoRequest, request[d].alone
             PROVE  /\ request[d].pc = "softDeleteUser" => albums'[request[d].id] # "active"
                    /\ request[d].pc = "restoreAlbums" => row'[request[d].id] # "deleted"
  BY RequestMoves
<1>1. request[d] \in Request /\ request[d].id # request[c].id
  BY RequestMoves DEF TypeOK, AloneIsAlone
<1> QED
  BY <1>1 DEF Request, RequestHalfDone

\* Where the albums of the other users are does not depend on a request.
LEMMA OthersAlbumsFollow ==
  ASSUME IInv, NEW c \in Clients, Proceed(c) \/ FailRequest(c),
         NEW v \in UserIds, v # request[c].id, v \notin unsure' \cup expired',
         RequestsFor(v)' = {},
         row'[v] = row[v], albums'[v] = albums[v],
         v \notin unsure' => v \notin unsure, v \notin expired' => v \notin expired
  PROVE  (albums'[v] = "active") = (row'[v] = "active")
<1> USE DEF IInv
<1>1. RequestsFor(v) = {}
  BY RequestMoves DEF RequestsFor
<1> QED
  BY <1>1 DEF AlbumsFollowUser

\* The steps of a request, of which RestoreUser alone forgives an expiry, and
\* only of a user nobody has touched.
LEMMA ProceedKeepsInvariant ==
  ASSUME IInv, NEW c \in Clients, Proceed(c)
  PROVE  IInv'
<1> USE DEF IInv
<1> DEFINE u == request[c].id
<1>1. u \in UserIds /\ request[c] \in Request /\ request[c] # NoRequest
  BY RequestMoves DEF Request
<1>2. CASE SoftDeleteAlbums(c)
  <2> USE <1>1, <1>2 DEF SoftDeleteAlbums, RequestAt, SetAlbums
  <2>1. TypeOK'
    BY RequestMoves DEF TypeOK
  <2>2. ExpiryIsNoted' /\ RemovalsAreDue' /\ FoldersGoFirst' /\ GoneLeavesNoFolder'
    BY DEF ExpiryIsNoted, IsReadyForDeletion, RemovalsAreDue, Removing, FoldersGoFirst,
           GoneLeavesNoFolder
  <2>3. OnlyExpiredLose'
    BY DEF TypeOK, OnlyExpiredLose
  <2>4. \A v \in UserIds \ {u} : albums'[v] = albums[v]
    BY DEF TypeOK
  <2>5. albums'[u] # "active" /\ request'[c].pc = "softDeleteUser"
    BY RequestMoves DEF TypeOK, RestoreUser, SoftDeleteUser, RestoreAlbums, FailRequest
  <2>6. request'[c].id = u /\ request'[c] # NoRequest
    BY RequestMoves, <2>5 DEF NoRequest
  <2>7. RequestHalfDone'
    BY <2>4, <2>5, <2>6, OthersHalfDone DEF RequestHalfDone
  <2>8. AlbumsFollowUser'
    BY <2>4, <2>6, OthersAlbumsFollow DEF AlbumsFollowUser, RequestsFor
  <2> QED
    BY <2>1, <2>2, <2>3, <2>7, <2>8, MovesKeepAlone
<1>3. CASE SoftDeleteUser(c)
  <2> USE <1>1, <1>3 DEF SoftDeleteUser, RequestAt
  <2>1. TypeOK'
    BY WaitIsPositive, RequestMoves DEF TypeOK, End
  <2>2. ExpiryIsNoted'
    BY WaitIsPositive DEF ExpiryIsNoted, IsReadyForDeletion, TypeOK
  <2>3. RemovalsAreDue' /\ FoldersGoFirst'
    BY DEF RemovalsAreDue, Removing, FoldersGoFirst
  <2>4. GoneLeavesNoFolder' /\ OnlyExpiredLose'
    BY DEF TypeOK, GoneLeavesNoFolder, OnlyExpiredLose
  <2>5. \A v \in UserIds \ {u} : row'[v] = row[v]
    BY DEF TypeOK
  <2>6. row'[u] # "active" /\ request'[c] = NoRequest
    BY DEF TypeOK, End
  <2>7. RequestHalfDone'
    BY <2>5, <2>6, OthersHalfDone DEF RequestHalfDone
  <2>8. u \notin unsure' => albums'[u] # "active"
    BY DEF End, RequestHalfDone
  <2>9. AlbumsFollowUser'
    BY <2>5, <2>6, <2>8, OthersAlbumsFollow DEF AlbumsFollowUser, End
  <2> QED
    BY <2>1, <2>2, <2>3, <2>4, <2>7, <2>9, MovesKeepAlone
<1>4. CASE RestoreUser(c)
  <2> USE <1>1, <1>4 DEF RestoreUser, RequestAt
  <2>1. TypeOK'
    BY RequestMoves DEF TypeOK
  <2>2. ExpiryIsNoted'
    BY DEF ExpiryIsNoted, IsReadyForDeletion, TypeOK, Untouched
  <2>3. RemovalsAreDue' /\ FoldersGoFirst'
    BY DEF RemovalsAreDue, Removing, FoldersGoFirst, Untouched
  <2>4. GoneLeavesNoFolder' /\ OnlyExpiredLose'
    BY DEF TypeOK, GoneLeavesNoFolder, OnlyExpiredLose, Untouched
  <2>5. \A v \in UserIds \ {u} : row'[v] = row[v] /\ (v \notin expired' => v \notin expired)
    BY DEF TypeOK
  <2>6. row'[u] # "deleted" /\ request'[c].pc = "restoreAlbums"
    BY RequestMoves DEF TypeOK, SoftDeleteAlbums, SoftDeleteUser, RestoreAlbums, FailRequest
  <2>7. request'[c].id = u /\ request'[c] # NoRequest
    BY RequestMoves, <2>6 DEF NoRequest
  <2>8. RequestHalfDone'
    BY <2>5, <2>6, <2>7, OthersHalfDone DEF RequestHalfDone
  <2>9. AlbumsFollowUser'
    BY <2>5, <2>7, OthersAlbumsFollow DEF AlbumsFollowUser, RequestsFor
  <2> QED
    BY <2>1, <2>2, <2>3, <2>4, <2>8, <2>9, MovesKeepAlone
<1>5. CASE RestoreAlbums(c)
  <2> USE <1>1, <1>5 DEF RestoreAlbums, RequestAt, SetAlbums
  <2>1. TypeOK'
    BY RequestMoves DEF TypeOK, End
  <2>2. ExpiryIsNoted' /\ RemovalsAreDue' /\ FoldersGoFirst' /\ GoneLeavesNoFolder'
    BY DEF ExpiryIsNoted, IsReadyForDeletion, RemovalsAreDue, Removing, FoldersGoFirst,
           GoneLeavesNoFolder
  <2>3. OnlyExpiredLose'
    BY DEF TypeOK, OnlyExpiredLose
  <2>4. \A v \in UserIds \ {u} : albums'[v] = albums[v]
    BY DEF TypeOK
  <2>5. request'[c] = NoRequest
    BY DEF TypeOK, End
  <2>6. RequestHalfDone'
    BY <2>4, <2>5, OthersHalfDone DEF RequestHalfDone
  <2>7. u \notin unsure' /\ u \notin expired' => albums'[u] = "active" /\ row'[u] = "active"
    BY DEF TypeOK, End, RequestHalfDone, OnlyExpiredLose
  <2>8. AlbumsFollowUser'
    BY <2>4, <2>7, OthersAlbumsFollow DEF AlbumsFollowUser, End
  <2> QED
    BY <2>1, <2>2, <2>3, <2>6, <2>8, MovesKeepAlone
<1> QED
  BY <1>2, <1>3, <1>4, <1>5 DEF Proceed

LEMMA FailRequestKeepsInvariant ==
  ASSUME IInv, NEW c \in Clients, FailRequest(c)
  PROVE  IInv'
<1> USE DEF IInv, FailRequest
<1>1. request[c].id \in UserIds
  BY RequestMoves DEF Request
<1>2. TypeOK'
  BY <1>1, RequestMoves DEF TypeOK
<1>3. RequestHalfDone'
  BY OthersHalfDone DEF TypeOK, RequestHalfDone
<1>4. AlbumsFollowUser'
  BY OthersAlbumsFollow DEF AlbumsFollowUser
<1> QED
  BY <1>2, <1>3, <1>4, MovesKeepAlone, QuietForUsers

LEMMA NightKeepsInvariant ==
  ASSUME IInv, Night
  PROVE  IInv'
<1> USE DEF IInv, Night
<1>1. TypeOK'
  <2>1. queue' \in Seq(Job)
    BY QueueTypes DEF TypeOK, Job, NightlyJobs
  <2>2. age' \in [UserIds -> 0..Wait]
    BY WaitIsPositive DEF TypeOK
  <2> QED
    BY <2>1, <2>2 DEF TypeOK
<1>2. ExpiryIsNoted'
  BY <1>1, WaitIsPositive DEF ExpiryIsNoted, IsReadyForDeletion, TypeOK
<1>3. RemovalsAreDue' /\ FoldersGoFirst' /\ GoneLeavesNoFolder'
  BY DEF RemovalsAreDue, Removing, FoldersGoFirst, GoneLeavesNoFolder
<1>4. OnlyExpiredLose' /\ AloneIsAlone' /\ RequestHalfDone' /\ AlbumsFollowUser'
  BY DEF OnlyExpiredLose, AloneIsAlone, RequestHalfDone, AlbumsFollowUser, RequestsFor
<1> QED
  BY <1>1, <1>2, <1>3, <1>4

\* The jobs the check queues are finitely many.
LEMMA DeleteJobsAreJobs == DeleteJobs \in SUBSET Job /\ IsFiniteSet(DeleteJobs)
<1> DEFINE ready == {u \in UserIds : IsReadyForDeletion(u)}
           f == [u \in ready |-> [name |-> "delete", id |-> u]]
<1>1. IsFiniteSet(ready)
  BY UsersAreFinite, FS_Subset
<1>2. f \in [ready -> DeleteJobs] /\ \A j \in DeleteJobs : \E u \in ready : f[u] = j
  BY DEF DeleteJobs
<1>3. IsFiniteSet(DeleteJobs)
  BY <1>1, <1>2, ImageIsFinite, Zenon
<1> QED
  BY <1>3 DEF DeleteJobs, Job

\* A handler that takes a job, checks who is due or gives up touches no user.
LEMMA QuietHandlersKeepInvariant ==
  ASSUME IInv, NEW w \in Workers,
         \/ Take(w) \/ HandleUserDeleteCheck(w) \/ Fail(w)
         \/ LoadUser(w) /\ ~IsReadyForDeletion(worker[w].job.id)
  PROVE  IInv'
<1> USE DEF IInv
<1>1. UNCHANGED <<row, age, folders, albums, assets, request, expired, unsure>>
  BY DEF Take, HandleUserDeleteCheck, Fail, LoadUser, HandlerVars, At
<1>2. worker'[w].pc \notin Removing /\ \A v \in Workers \ {w} : worker'[v] = worker[v]
  BY DEF Take, HandleUserDeleteCheck, Fail, LoadUser, Done, Idle, TypeOK, Removing
<1>3. TypeOK'
  <2>1. CASE Take(w)
    <3>1. Head(queue) \in Job /\ Tail(queue) \in Seq(Job)
      BY <2>1, QueueTypes DEF Take, TypeOK
    <3> QED
      BY <2>1, <3>1 DEF Take, TypeOK, HandlerVars, Busy
  <2>2. CASE HandleUserDeleteCheck(w)
    <3>1. queue' \in Seq(Job)
      BY <2>2, QueueTypes, DeleteJobsAreJobs DEF HandleUserDeleteCheck, TypeOK
    <3> QED
      BY <2>2, <3>1 DEF HandleUserDeleteCheck, TypeOK, At, HandlerVars, Done
  <2>3. CASE Fail(w)
    BY <2>3 DEF Fail, TypeOK, Done
  <2>4. CASE LoadUser(w) /\ ~IsReadyForDeletion(worker[w].job.id)
    BY <2>4 DEF LoadUser, At, HandlerVars, TypeOK, Done
  <2> QED
    BY <2>1, <2>2, <2>3, <2>4
<1>4. ExpiryIsNoted' /\ GoneLeavesNoFolder' /\ OnlyExpiredLose'
  BY <1>1 DEF ExpiryIsNoted, IsReadyForDeletion, GoneLeavesNoFolder, OnlyExpiredLose
<1>5. RemovalsAreDue' /\ FoldersGoFirst'
  BY <1>1, <1>2 DEF RemovalsAreDue, FoldersGoFirst, Removing
<1>6. AloneIsAlone' /\ RequestHalfDone' /\ AlbumsFollowUser'
  BY <1>1 DEF AloneIsAlone, RequestHalfDone, AlbumsFollowUser, RequestsFor
<1> QED
  BY <1>3, <1>4, <1>5, <1>6

\* What each step of a removal does to the record of its handler.
LEMMA RemovalMoves ==
  ASSUME TypeOK, NEW w \in Workers, worker[w] \in Busy, HandleUserDelete(w),
         LoadUser(w) => IsReadyForDeletion(worker[w].job.id)
  PROVE  /\ worker' = [worker EXCEPT ![w] = worker'[w]]
         /\ \/ worker'[w] = Idle /\ DeleteUser(w)
            \/ worker'[w] \in Busy /\ worker'[w].job = worker[w].job
         /\ LoadUser(w) => worker'[w].left = Folders /\ worker'[w].pc = "folders"
         /\ RemoveFolder(w) =>
              \/ worker[w].left = {} /\ worker'[w].pc = "albums" /\ folders' = folders
              \/ \E f \in worker[w].left :
                   /\ worker'[w].pc = "folders" /\ worker'[w].left = worker[w].left \ {f}
                   /\ folders' = [folders EXCEPT ![worker[w].job.id] = @ \ {f}]
<1>1. worker \in [Workers -> Busy \cup {Idle}]
  BY DEF TypeOK
<1>2. CASE LoadUser(w)
  <2>1. worker'[w] = [[worker[w] EXCEPT !.pc = "folders"] EXCEPT !.left = Folders]
    BY <1>1, <1>2 DEF LoadUser
  <2>2. /\ worker'[w].left = Folders /\ worker'[w].pc = "folders"
        /\ worker'[w].job = worker[w].job /\ worker'[w] \in Busy
    BY <2>1 DEF Busy
  <2>3. worker' = [worker EXCEPT ![w] = worker'[w]]
    BY <1>1, <1>2 DEF LoadUser
  <2>4. ~RemoveFolder(w)
    BY <1>2 DEF LoadUser, RemoveFolder, At
  <2> QED
    BY <2>2, <2>3, <2>4
<1>3. CASE RemoveFolder(w)
  <2>1. worker[w].pc = "folders" /\ ~LoadUser(w)
    BY <1>3 DEF RemoveFolder, LoadUser, At
  <2>2. CASE worker[w].left = {}
    <3>1. worker'[w] = [worker[w] EXCEPT !.pc = "albums"]
      BY <1>1, <1>3, <2>2 DEF RemoveFolder, Goto
    <3>2. worker'[w].pc = "albums" /\ worker'[w].job = worker[w].job /\ worker'[w] \in Busy
      BY <3>1 DEF Busy
    <3>3. worker' = [worker EXCEPT ![w] = worker'[w]] /\ folders' = folders
      BY <1>1, <1>3, <2>2 DEF RemoveFolder, Goto
    <3> QED
      BY <2>1, <2>2, <3>2, <3>3
  <2>3. CASE worker[w].left # {}
    <3>1. PICK f \in worker[w].left :
            /\ folders' = [folders EXCEPT ![worker[w].job.id] = @ \ {f}]
            /\ worker' = [worker EXCEPT ![w].left = @ \ {f}]
      BY <1>3, <2>3 DEF RemoveFolder
    <3>2. worker'[w] = [worker[w] EXCEPT !.left = worker[w].left \ {f}]
      BY <1>1, <3>1
    <3>3. /\ worker'[w].pc = "folders" /\ worker'[w].left = worker[w].left \ {f}
          /\ worker'[w].job = worker[w].job /\ worker'[w] \in Busy
      BY <2>1, <3>2 DEF Busy
    <3>4. worker' = [worker EXCEPT ![w] = worker'[w]]
      BY <1>1, <3>1
    <3> QED
      BY <2>1, <3>1, <3>3, <3>4
  <2> QED
    BY <2>2, <2>3
<1>4. ASSUME NEW pc \in {"assets", "user"}, Goto(w, pc),
             DeleteAlbums(w) \/ DeleteAssets(w)
      PROVE  /\ worker' = [worker EXCEPT ![w] = worker'[w]]
             /\ worker'[w] \in Busy /\ worker'[w].job = worker[w].job
             /\ ~LoadUser(w) /\ ~RemoveFolder(w)
  <2>1. worker'[w] = [worker[w] EXCEPT !.pc = pc]
    BY <1>1, <1>4 DEF Goto
  <2>2. worker'[w] \in Busy /\ worker'[w].job = worker[w].job
    BY <2>1 DEF Busy
  <2>3. worker' = [worker EXCEPT ![w] = worker'[w]]
    BY <1>1, <1>4 DEF Goto
  <2>4. ~LoadUser(w) /\ ~RemoveFolder(w)
    BY <1>4 DEF DeleteAlbums, DeleteAssets, LoadUser, RemoveFolder, At
  <2> QED
    BY <2>2, <2>3, <2>4
<1>5. CASE DeleteAlbums(w) \/ DeleteAssets(w)
  BY <1>4, <1>5 DEF DeleteAlbums, DeleteAssets
<1>6. CASE DeleteUser(w)
  <2>1. worker' = [worker EXCEPT ![w] = Idle] /\ worker'[w] = Idle
    BY <1>1, <1>6 DEF DeleteUser, Done
  <2>2. ~LoadUser(w) /\ ~RemoveFolder(w)
    BY <1>6 DEF DeleteUser, LoadUser, RemoveFolder, At
  <2> QED
    BY <1>6, <2>1, <2>2
<1> QED
  BY <1>2, <1>3, <1>5, <1>6 DEF HandleUserDelete

\* A removal touches a user whose time is over, and its folders before all else.
LEMMA RemovalKeepsInvariant ==
  ASSUME IInv, NEW w \in Workers, HandleUserDelete(w),
         LoadUser(w) => IsReadyForDeletion(worker[w].job.id)
  PROVE  IInv'
<1> USE DEF IInv
<1> DEFINE u == worker[w].job.id
<1>1. worker[w] \in Busy /\ u \in UserIds
  BY DEF HandleUserDelete, LoadUser, RemoveFolder, DeleteAlbums, DeleteAssets, DeleteUser,
         At, TypeOK, Busy, Idle, Job
<1>2. UNCHANGED HandlerVars
  BY DEF HandleUserDelete, LoadUser, RemoveFolder, DeleteAlbums, DeleteAssets, DeleteUser, At
<1>3. u \in expired
  <2>1. CASE LoadUser(w)
    BY <1>1, <2>1 DEF LoadUser, ExpiryIsNoted
  <2>2. CASE RemoveFolder(w) \/ DeleteAlbums(w) \/ DeleteAssets(w) \/ DeleteUser(w)
    BY <2>2 DEF RemoveFolder, DeleteAlbums, DeleteAssets, DeleteUser, At, RemovalsAreDue,
                Removing
  <2> QED
    BY <2>1, <2>2 DEF HandleUserDelete
<1>4. worker[w].job.name = "delete"
  BY DEF HandleUserDelete, LoadUser, RemoveFolder, DeleteAlbums, DeleteAssets, DeleteUser, At
<1>5. /\ queue' = queue
      /\ \A v \in Workers \ {w} : worker'[v] = worker[v]
      /\ worker'[w] = Idle \/ (worker'[w] \in Busy /\ worker'[w].job = worker[w].job)
      /\ worker' \in [Workers -> Busy \cup {Idle}]
  <2>1. queue' = queue
    BY DEF HandleUserDelete, LoadUser, RemoveFolder, DeleteAlbums, DeleteAssets, DeleteUser
  <2>2. worker \in [Workers -> Busy \cup {Idle}]
    BY DEF TypeOK
  <2> QED
    BY <1>1, <2>1, <2>2, RemovalMoves
<1>6. /\ row' \in [UserIds -> {"active", "deleted", "gone"}]
      /\ folders' \in [UserIds -> SUBSET Folders]
      /\ albums' \in [UserIds -> {"active", "trashed", "gone"}]
      /\ assets' \in [UserIds -> BOOLEAN]
      /\ \A v \in UserIds \ {u} :
           /\ row'[v] = row[v] /\ folders'[v] = folders[v]
           /\ albums'[v] = albums[v] /\ assets'[v] = assets[v]
      /\ row'[u] \in {row[u], "gone"} /\ albums'[u] \in {albums[u], "gone"}
      /\ folders'[u] \subseteq folders[u]
  <2>1. CASE LoadUser(w)
    BY <1>1, <2>1 DEF LoadUser, TypeOK
  <2>2. CASE RemoveFolder(w)
    <3>1. folders' = folders \/ \E f : folders' = [folders EXCEPT ![u] = @ \ {f}]
      BY <2>2 DEF RemoveFolder
    <3>2. folders \in [UserIds -> SUBSET Folders]
      BY DEF TypeOK
    <3>3. /\ folders' \in [UserIds -> SUBSET Folders] /\ folders'[u] \subseteq folders[u]
          /\ \A v \in UserIds \ {u} : folders'[v] = folders[v]
      BY <1>1, <3>1, <3>2
    <3>4. UNCHANGED <<row, albums, assets>>
      BY <2>2 DEF RemoveFolder
    <3> QED
      BY <1>1, <3>3, <3>4 DEF TypeOK
  <2>3. CASE DeleteAlbums(w)
    BY <1>1, <2>3 DEF DeleteAlbums, TypeOK
  <2>4. CASE DeleteAssets(w)
    BY <1>1, <2>4 DEF DeleteAssets, TypeOK
  <2>5. CASE DeleteUser(w)
    BY <1>1, <2>5 DEF DeleteUser, TypeOK
  <2> QED
    BY <2>1, <2>2, <2>3, <2>4, <2>5 DEF HandleUserDelete
<1>7. TypeOK'
  BY <1>2, <1>5, <1>6 DEF TypeOK, HandlerVars
<1>8. ExpiryIsNoted' /\ OnlyExpiredLose'
  BY <1>2, <1>3, <1>6 DEF ExpiryIsNoted, IsReadyForDeletion, OnlyExpiredLose, HandlerVars
<1>9. RemovalsAreDue'
  BY <1>2, <1>3, <1>4, <1>5 DEF RemovalsAreDue, HandlerVars, Idle, Removing
<1>10. FoldersGoFirst'
  <2>1. ASSUME NEW v \in Workers, v # w
        PROVE  /\ worker'[v].pc = "folders" =>
                    folders'[worker'[v].job.id] \subseteq worker'[v].left
               /\ worker'[v].pc \in {"albums", "assets", "user"} =>
                    folders'[worker'[v].job.id] = {}
    <3>1. worker'[v].pc \in Removing => worker[v] \in Busy /\ worker[v].job.id \in UserIds
      BY <1>5, <2>1 DEF TypeOK, Busy, Idle, Removing, Job, RemovalsAreDue
    <3> QED
      BY <1>5, <1>6, <2>1, <3>1 DEF FoldersGoFirst, Removing
  <2>2. /\ worker'[w].pc = "folders" =>
             folders'[worker'[w].job.id] \subseteq worker'[w].left
        /\ worker'[w].pc \in {"albums", "assets", "user"} =>
             folders'[worker'[w].job.id] = {}
    <3>1. CASE LoadUser(w)
      <4>1. worker'[w].left = Folders /\ worker'[w] \in Busy /\ worker'[w].job = worker[w].job
            /\ worker'[w].pc = "folders"
        <5>1. ~DeleteUser(w)
          BY <3>1 DEF LoadUser, DeleteUser, At
        <5> QED
          BY <1>1, <3>1, <5>1, RemovalMoves
      <4> QED
        BY <1>1, <1>6, <4>1
    <3>2. CASE RemoveFolder(w)
      <4>1. folders[u] \subseteq worker[w].left
        BY <3>2 DEF RemoveFolder, At, FoldersGoFirst
      <4>2. worker'[w] # Idle => worker'[w].job.id = u
        BY <1>5
      <4>3. \/ worker[w].left = {} /\ worker'[w].pc = "albums" /\ folders' = folders
            \/ \E f \in worker[w].left :
                 /\ worker'[w].pc = "folders" /\ worker'[w].left = worker[w].left \ {f}
                 /\ folders' = [folders EXCEPT ![worker[w].job.id] = @ \ {f}]
        BY <1>1, <3>2, RemovalMoves
      <4>4. worker'[w] # Idle
        BY <4>3 DEF Idle
      <4>5. CASE worker[w].left = {} /\ worker'[w].pc = "albums" /\ folders' = folders
        BY <4>1, <4>2, <4>4, <4>5
      <4>6. ASSUME NEW f \in worker[w].left,
                   worker'[w].pc = "folders", worker'[w].left = worker[w].left \ {f},
                   folders' = [folders EXCEPT ![u] = @ \ {f}]
            PROVE  folders'[u] \subseteq worker'[w].left /\ worker'[w].pc = "folders"
        BY <1>1, <4>1, <4>6 DEF TypeOK
      <4> QED
        BY <4>2, <4>3, <4>4, <4>5, <4>6
    <3>3. CASE DeleteAlbums(w) \/ DeleteAssets(w)
      <4>1. folders[u] = {} /\ folders' = folders
        BY <3>3 DEF DeleteAlbums, DeleteAssets, FoldersGoFirst, At
      <4> QED
        BY <1>5, <4>1 DEF Idle
    <3>4. CASE DeleteUser(w)
      <4>1. worker'[w] = Idle
        BY <3>4 DEF DeleteUser, Done, TypeOK
      <4> QED
        BY <4>1 DEF Idle
    <3> QED
      BY <3>1, <3>2, <3>3, <3>4 DEF HandleUserDelete
  <2> QED
    BY <2>1, <2>2 DEF FoldersGoFirst
<1>11. GoneLeavesNoFolder'
  <2>1. row'[u] = "gone" => folders'[u] = {}
    <3>1. CASE DeleteUser(w)
      BY <1>1, <3>1 DEF DeleteUser, At, FoldersGoFirst, Busy
    <3>2. CASE ~DeleteUser(w)
      BY <1>1, <1>6, <3>2 DEF HandleUserDelete, LoadUser, RemoveFolder, DeleteAlbums,
                              DeleteAssets, GoneLeavesNoFolder
    <3> QED
      BY <3>1, <3>2
  <2> QED
    BY <1>6, <2>1 DEF GoneLeavesNoFolder
<1>12. AloneIsAlone' /\ RequestHalfDone' /\ AlbumsFollowUser'
  <2>1. request' = request /\ unsure' = unsure /\ expired' = expired
    BY <1>2 DEF HandlerVars
  <2>2. \A v \in UserIds : /\ albums'[v] = "active" => albums[v] = "active"
                           /\ row'[v] = "deleted" => row[v] = "deleted"
                           /\ v # u => albums'[v] = albums[v] /\ row'[v] = row[v]
    BY <1>1, <1>6
  <2>3. \A c \in Clients : request[c] # NoRequest => request[c].id \in UserIds
    BY DEF TypeOK, Request
  <2>4. AloneIsAlone' /\ RequestHalfDone'
    BY <2>1, <2>2, <2>3 DEF AloneIsAlone, RequestHalfDone
  <2>5. AlbumsFollowUser'
    BY <1>3, <2>1, <2>2 DEF AlbumsFollowUser, RequestsFor
  <2> QED
    BY <2>4, <2>5
<1> QED
  BY <1>7, <1>8, <1>9, <1>10, <1>11, <1>12

-----------------------------------------------------------------------------
LEMMA NextKeepsInvariant == IInv /\ [Next]_vars => IInv'
<1> SUFFICES ASSUME IInv, [Next]_vars PROVE IInv'
  OBVIOUS
<1>1. CASE UNCHANGED vars
  BY <1>1 DEF vars, IInv, TypeOK, ExpiryIsNoted, IsReadyForDeletion,
              RemovalsAreDue, Removing, OnlyExpiredLose, FoldersGoFirst,
              GoneLeavesNoFolder, AloneIsAlone, RequestHalfDone,
              AlbumsFollowUser, RequestsFor
<1>2. CASE \E w \in Workers : Handle(w) \/ Fail(w)
  BY <1>2, QuietHandlersKeepInvariant, RemovalKeepsInvariant DEF Handle, HandleUserDelete
<1>3. CASE \E c \in Clients, u \in UserIds : StartDelete(c, u) \/ StartRestore(c, u)
  BY <1>3, StartKeepsInvariant
<1> QED
  BY <1>1, <1>2, <1>3, ProceedKeepsInvariant, FailRequestKeepsInvariant,
     NightKeepsInvariant DEF Next

LEMMA InvariantHolds == Spec => []IInv
  BY InitEstablishesInvariant, NextKeepsInvariant, PTL DEF Spec

\* Every variable keeps its type.
THEOREM UsersTypeInvariance == Spec => []TypeOK
<1>1. IInv => TypeOK
  BY DEF IInv
<1> QED
  BY <1>1, InvariantHolds, PTL

\* Nobody who was not left deleted for the time of waiting loses anything to a
\* removal, however long its job waited and whatever failed (handleUserDelete).
THEOREM NothingGoesEarly == Spec => []OnlyExpiredLose
<1>1. IInv => OnlyExpiredLose
  BY DEF IInv
<1> QED
  BY <1>1, InvariantHolds, PTL

\* The row of a user goes after the last of the folders (handleUserDelete).
THEOREM NoFolderOutlivesItsUser == Spec => []GoneLeavesNoFolder
<1>1. IInv => GoneLeavesNoFolder
  BY DEF IInv
<1> QED
  BY <1>1, InvariantHolds, PTL

\* The albums of a user without a request under way are where the user is,
\* however requests and jobs mixed before, unless its last request failed or
\* overlapped with another or its time of waiting was over (delete, restore).
THEOREM AlbumsStayWithTheirUser == Spec => []AlbumsFollowUser
<1>1. IInv => AlbumsFollowUser
  BY DEF IInv
<1> QED
  BY <1>1, InvariantHolds, PTL

=============================================================================
