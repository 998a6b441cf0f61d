----------------------------- MODULE BackupLock -----------------------------
(***************************************************************************)
(* The lock by which the isolates of the mobile app (the foreground and    *)
(* the background ones) take turns at the backup: acquireLock, its         *)
(* heartbeat, and releaseLock of background.service.dart.                  *)
(*                                                                         *)
(* The lock is the mapping of one name to a port in the IsolateNameServer. *)
(* Whoever registers the name holds the lock.  A waiter sends the holder a *)
(* heartbeat and removes the mapping of a holder that does not answer      *)
(* within three seconds, taking it for dead.                               *)
(*                                                                         *)
(* Time is abstracted: a timeout may fire when nothing is on its way, and  *)
(* at most MaxSlow times although a live holder has yet to answer.  Ports  *)
(* are named by their isolate; a reference to a port that was closed is    *)
(* None, for nothing sent there arrives and no lookup returns it.          *)
(***************************************************************************)
EXTENDS Naturals, Sequences, FiniteSets

CONSTANTS
  Isolates,     \* the isolates that want to back up; a restart is a new one
  MaxSlow,      \* bound: heartbeats a live holder answers after the timeout
  MaxDeaths,    \* bound: isolates killed by the system
  MaxAttempts,  \* bound: calls of acquireLock by one isolate
  None          \* no port, or one that was closed

ASSUME BoundsAreNumbers ==
  /\ MaxSlow \in Nat
  /\ MaxDeaths \in Nat
  /\ MaxAttempts \in Nat

ASSUME NoneIsNoIsolate == None \notin Isolates

VARIABLES
  name,      \* the isolate whose port _portNameLock is mapped to
  pc,        \* how far acquireLock is in each isolate
  other,     \* the port found by _checkLockReleasedWithHeartbeat
  waiting,   \* _waitingIsolate: whom to tell about the release
  requests,  \* heartbeats not yet handled
  inbox,     \* answers not yet received, in order
  attempts,  \* calls of acquireLock so far
  slow,      \* late answers so far
  deaths     \* isolates killed so far

vars == <<name, pc, other, waiting, requests, inbox, attempts, slow, deaths>>

\* The points at which acquireLock awaits: only there may another call of the
\* same isolate run.
Awaiting == {"answer", "finish"}
Steps == {"idle", "register", "look", "remove", "held", "dead"} \cup Awaiting
Port == Isolates \cup {None}

Request == [from: Port, to: Isolates]

TypeOK ==
  /\ name \in Port
  /\ pc \in [Isolates -> Steps]
  /\ other \in [Isolates -> Port]
  /\ waiting \in [Isolates -> Port]
  /\ requests \subseteq Request
  /\ inbox \in [Isolates -> Seq(BOOLEAN)]
  /\ attempts \in [Isolates -> Nat]
  /\ slow \in 0..MaxSlow
  /\ deaths \in 0..MaxDeaths

Init ==
  /\ name = None
  /\ pc = [i \in Isolates |-> "idle"]
  /\ other = [i \in Isolates |-> None]
  /\ waiting = [i \in Isolates |-> None]
  /\ requests = {}
  /\ inbox = [i \in Isolates |-> <<>>]
  /\ attempts = [i \in Isolates |-> 0]
  /\ slow = 0
  /\ deaths = 0

-----------------------------------------------------------------------------
(* Ports                                                                   *)

\* The temporary port of i is closed: nothing reaches it any more, and those
\* who were to answer there answer nobody.
CloseTemporaryPort(i) ==
  /\ inbox' = [inbox EXCEPT ![i] = <<>>]
  /\ requests' = {[r EXCEPT !.from = IF @ = i THEN None ELSE @] : r \in requests}
  /\ waiting' = [k \in Isolates |-> IF waiting[k] = i THEN None ELSE waiting[k]]

\* Leave _checkLockReleasedWithHeartbeat, to continue at step.
EndCheck(i, step) ==
  /\ CloseTemporaryPort(i)
  /\ pc' = [pc EXCEPT ![i] = step]
  /\ other' = [other EXCEPT ![i] = None]

\* tempSp is sent to the port found; one that was closed drops it.
Heartbeats_FaultyUnchecked(i, port) == {[from |-> i, to |-> port]}

Heartbeats(i, port) ==
  IF port = None THEN {} ELSE {[from |-> i, to |-> port]}

-----------------------------------------------------------------------------
(* acquireLock                                                             *)

\* A call of acquireLock.  It supersedes an earlier one of the same isolate
\* that still waits, by another _wantsLockTime.
Acquire(i) ==
  /\ pc[i] \in {"idle"} \cup Awaiting
  /\ attempts[i] < MaxAttempts
  /\ attempts' = [attempts EXCEPT ![i] = @ + 1]
  /\ EndCheck(i, "register")
  /\ UNCHANGED <<name, slow, deaths>>

\* registerPortWithName returns true: the lock is taken.
Register(i) ==
  /\ pc[i] = "register"
  /\ name = None
  /\ name' = i
  /\ pc' = [pc EXCEPT ![i] = "held"]
  /\ UNCHANGED <<other, waiting, requests, inbox, attempts, slow, deaths>>

\* The name is taken: registerPortWithName returns false.
FailRegister(i) ==
  /\ pc[i] = "register"
  /\ name # None
  /\ pc' = [pc EXCEPT ![i] = "look"]
  /\ UNCHANGED <<name, other, waiting, requests, inbox, attempts, slow, deaths>>

\* lookupPortByName, and the first heartbeat to the port found.  A name freed
\* in between sends the loop back to registerPortWithName.
Look(i) ==
  /\ pc[i] = "look"
  /\ pc' = [pc EXCEPT ![i] = IF name = None THEN "register" ELSE "answer"]
  /\ other' = [other EXCEPT ![i] = name]
  /\ requests' = requests \cup Heartbeats(i, name)
  /\ UNCHANGED <<name, waiting, inbox, attempts, slow, deaths>>

ToldReleased(i) == inbox[i] # <<>> /\ Head(inbox[i])

\* The holder answers that it still works: wait for its release.
HearActive(i) ==
  /\ pc[i] = "answer"
  /\ inbox[i] # <<>>
  /\ ~ToldReleased(i)
  /\ inbox' = [inbox EXCEPT ![i] = Tail(@)]
  /\ pc' = [pc EXCEPT ![i] = "finish"]
  /\ UNCHANGED <<name, other, waiting, requests, attempts, slow, deaths>>

\* The holder tells of its release: try to register again.
HearReleased(i) ==
  /\ pc[i] \in Awaiting
  /\ ToldReleased(i)
  /\ EndCheck(i, "register")
  /\ UNCHANGED <<name, attempts, slow, deaths>>

\* No release within three seconds, or another answer than a release: ask again.
AskAgain(i) ==
  /\ pc[i] = "finish"
  /\ ~ToldReleased(i)
  /\ inbox' = [inbox EXCEPT ![i] = IF @ = <<>> THEN <<>> ELSE Tail(@)]
  /\ pc' = [pc EXCEPT ![i] = "answer"]
  /\ requests' = requests \cup Heartbeats(i, other[i])
  /\ UNCHANGED <<name, other, waiting, attempts, slow, deaths>>

\* Some live isolate has yet to handle the heartbeat of i.
MayBeAnswered(i) ==
  \E r \in requests : r.from = i /\ pc[r.to] # "dead"

\* No answer within three seconds.  The holder is taken for dead if the name
\* still leads to it.
Timeout_FaultyPatient(i) ==
  /\ pc[i] = "answer"
  /\ inbox[i] = <<>>
  /\ ~MayBeAnswered(i)
  /\ requests' = requests \cup Heartbeats(i, other[i])
  /\ UNCHANGED <<name, pc, other, waiting, inbox, attempts, slow, deaths>>

Timeout_FaultyUncompared(i) ==
  /\ pc[i] = "answer"
  /\ inbox[i] = <<>>
  /\ IF MayBeAnswered(i) THEN slow < MaxSlow /\ slow' = slow + 1
                         ELSE slow' = slow
  /\ EndCheck(i, "remove")
  /\ UNCHANGED <<name, attempts, deaths>>

Timeout(i) ==
  /\ pc[i] = "answer"
  /\ inbox[i] = <<>>
  /\ IF MayBeAnswered(i) THEN slow < MaxSlow /\ slow' = slow + 1
                         ELSE slow' = slow
  /\ EndCheck(i, IF name # None /\ name = other[i] THEN "remove" ELSE "register")
  /\ UNCHANGED <<name, attempts, deaths>>

\* removePortNameMapping, whatever the name leads to by now.
Remove(i) ==
  /\ pc[i] = "remove"
  /\ name' = None
  /\ pc' = [pc EXCEPT ![i] = "register"]
  /\ UNCHANGED <<other, waiting, requests, inbox, attempts, slow, deaths>>

-----------------------------------------------------------------------------
(* The holder                                                              *)

\* _heartbeatListener: remember who waits, answer that the work goes on.
Answer(h) ==
  /\ pc[h] = "held"
  /\ \E r \in requests :
       /\ r.to = h
       /\ requests' = requests \ {r}
       /\ waiting' = [waiting EXCEPT ![h] = r.from]
       /\ inbox' = [i \in Isolates |->
                      IF i = r.from THEN Append(inbox[i], FALSE) ELSE inbox[i]]
  /\ UNCHANGED <<name, pc, other, attempts, slow, deaths>>

\* releaseLock by the holder: the mapping of the name is removed, the last
\* isolate that asked is told, and the port is closed.
Release_FaultyMappingKept(h) ==
  /\ pc[h] = "held"
  /\ inbox' = [i \in Isolates |->
                 IF i = waiting[h] THEN Append(inbox[i], TRUE) ELSE inbox[i]]
  /\ waiting' = [waiting EXCEPT ![h] = None]
  /\ requests' = {r \in requests : r.to # h}
  /\ other' = [i \in Isolates |-> IF other[i] = h THEN None ELSE other[i]]
  /\ pc' = [pc EXCEPT ![h] = "idle"]
  /\ UNCHANGED <<name, attempts, slow, deaths>>

Release(h) ==
  /\ pc[h] = "held"
  /\ name' = None
  /\ inbox' = [i \in Isolates |->
                 IF i = waiting[h] THEN Append(inbox[i], TRUE) ELSE inbox[i]]
  /\ waiting' = [waiting EXCEPT ![h] = None]
  /\ requests' = {r \in requests : r.to # h}
  /\ other' = [i \in Isolates |-> IF other[i] = h THEN None ELSE other[i]]
  /\ pc' = [pc EXCEPT ![h] = "idle"]
  /\ UNCHANGED <<attempts, slow, deaths>>

\* releaseLock by an isolate that still waits: the app was paused, or the five
\* seconds that iOS waits are over.  _wantsLockTime makes acquireLock return.
GiveUp(i) ==
  /\ pc[i] \in Awaiting
  /\ EndCheck(i, "idle")
  /\ UNCHANGED <<name, attempts, slow, deaths>>

\* The system kills an isolate.  Its ports close; the mapping stays, and so do
\* the references to it, which compare equal to the mapping.
Die(i) ==
  /\ pc[i] # "dead"
  /\ deaths < MaxDeaths
  /\ deaths' = deaths + 1
  /\ EndCheck(i, "dead")
  /\ UNCHANGED <<name, attempts, slow>>

-----------------------------------------------------------------------------
\* A step of acquireLock that needs nobody's decision.
Proceed(i) ==
  \/ Register(i)
  \/ FailRegister(i)
  \/ Look(i)
  \/ HearActive(i)
  \/ HearReleased(i)
  \/ AskAgain(i)
  \/ Timeout(i)
  \/ Remove(i)

Next ==
  \E i \in Isolates :
    \/ Acquire(i)
    \/ Proceed(i)
    \/ Answer(i)
    \/ Release(i)
    \/ GiveUp(i)
    \/ Die(i)

Spec == Init /\ [][Next]_vars

\* An isolate runs on, handles its messages and, once it holds the lock,
\* finishes its backup.  Nothing is owed by the calls of acquireLock, by a
\* waiter that gives up or by the system.
Fairness ==
  \A i \in Isolates :
    /\ WF_vars(Proceed(i))
    /\ WF_vars(Answer(i))
    /\ WF_vars(Release(i))

FairSpec == Spec /\ Fairness

-----------------------------------------------------------------------------
(* Properties                                                              *)

Holds(i) == pc[i] = "held"
Waits(i) == pc[i] \in {"register", "look", "remove"} \cup Awaiting

\* At most one isolate has the lock.  The comment on acquireLock promises it:
\* "await to ensure this thread (foreground or background) has exclusive access".
ExclusiveAccess ==
  \A i, j \in Isolates : Holds(i) /\ Holds(j) => i = j

\* The name leads to the isolate that works, or to one that died with the lock:
\* whoever waits can ask the right one, and nobody can register beside it.
NameLeadsToHolder ==
  /\ name # None => Holds(name) \/ pc[name] = "dead"
  /\ \A i \in Isolates : Holds(i) => name = i

\* The lock is never lost: whoever waits for it gets it in the end, gives up or
\* dies, even when the holder is killed, releases before it has seen the
\* heartbeat, or told somebody else of its release.
WaitersProceed ==
  \A i \in Isolates : Waits(i) ~> ~Waits(i)
=============================================================================
