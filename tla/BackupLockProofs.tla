-------------------------- MODULE BackupLockProofs --------------------------
(***************************************************************************)
(* The lock of the isolates excludes, for any number of them and of calls  *)
(* of acquireLock, as long as a live holder answers the heartbeat in time  *)
(* and no two isolates can find the same dead one.                         *)
(***************************************************************************)
EXTENDS BackupLock, SequenceTheorems, TLAPS

\* A live holder answers every heartbeat within the timeout.
HoldersArePunctual == MaxSlow = 0

\* Nobody is killed, or there are only the one that was and the one it leaves.
NoRaceForTheDead ==
  \/ MaxDeaths = 0
  \/ \A i, j, k \in Isolates : i = j \/ j = k \/ i = k

-----------------------------------------------------------------------------
(* The inductive invariant                                                 *)

\* The dead are counted.
DeathsAreCounted == \A i \in Isolates : pc[i] = "dead" => deaths > 0

\* A port found stays a holder's or a dead one's for as long as it is open.
OthersHoldOrDied ==
  \A i \in Isolates : other[i] # None => pc[other[i]] \in {"held", "dead"}

\* An isolate that awaits an answer of a live holder has one on its way.
AnswersComeIn ==
  \A i \in Isolates :
    pc[i] = "answer" /\ other[i] # None /\ pc[other[i]] = "held" =>
      inbox[i] # <<>> \/ [from |-> i, to |-> other[i]] \in requests

\* The mapping is removed only when its holder is dead.
OnlyTheDeadAreRemoved ==
  \A i \in Isolates : pc[i] = "remove" =>
    /\ \E d \in Isolates : pc[d] = "dead"
    /\ \A j \in Isolates : ~Holds(j)

IndInv ==
  /\ TypeOK
  /\ NameLeadsToHolder
  /\ DeathsAreCounted
  /\ OthersHoldOrDied
  /\ AnswersComeIn
  /\ OnlyTheDeadAreRemoved

-----------------------------------------------------------------------------
\* Answers queue up, and are taken one by one.
LEMMA AnswersQueue ==
  ASSUME NEW s \in Seq(BOOLEAN)
  PROVE  /\ s # <<>> => Tail(s) \in Seq(BOOLEAN)
         /\ \A b \in BOOLEAN : Append(s, b) \in Seq(BOOLEAN) /\ Append(s, b) # <<>>
<1>1. s # <<>> => Tail(s) \in Seq(BOOLEAN)
  BY HeadTailProperties
<1>2. \A b \in BOOLEAN : Append(s, b) \in Seq(BOOLEAN) /\ Append(s, b) # <<>>
  BY AppendProperties
<1> QED
  BY <1>1, <1>2

\* Closing a temporary port keeps the types and leaves the other isolates'
\* answers and heartbeats alone.
LEMMA ClosingIsLocal ==
  ASSUME TypeOK, NEW i \in Isolates, CloseTemporaryPort(i)
  PROVE  /\ inbox' \in [Isolates -> Seq(BOOLEAN)]
         /\ waiting' \in [Isolates -> Port]
         /\ requests' \subseteq Request
         /\ \A k \in Isolates : k # i => inbox'[k] = inbox[k]
         /\ \A k, h \in Isolates : k # i /\ [from |-> k, to |-> h] \in requests
              => [from |-> k, to |-> h] \in requests'
<1>1. inbox' \in [Isolates -> Seq(BOOLEAN)]
  BY DEF CloseTemporaryPort, TypeOK
<1>2. waiting' \in [Isolates -> Port]
  BY DEF CloseTemporaryPort, TypeOK, Port
<1>3. requests' \subseteq Request
  <2>1. ASSUME NEW r \in requests
        PROVE  [r EXCEPT !.from = IF @ = i THEN None ELSE @] \in Request
    <3>1. r \in Request
      BY DEF TypeOK
    <3> QED
      BY <3>1 DEF Request, Port
  <2> QED
    BY <2>1 DEF CloseTemporaryPort
<1>4. \A k \in Isolates : k # i => inbox'[k] = inbox[k]
  BY DEF CloseTemporaryPort, TypeOK
<1>5. ASSUME NEW k \in Isolates, NEW h \in Isolates, k # i,
             [from |-> k, to |-> h] \in requests
      PROVE  [from |-> k, to |-> h] \in requests'
  <2> DEFINE r == [from |-> k, to |-> h]
  <2>1. r = [r EXCEPT !.from = IF @ = i THEN None ELSE @]
    BY <1>5
  <2> QED
    BY <2>1, <1>5 DEF CloseTemporaryPort
<1> QED
  BY <1>1, <1>2, <1>3, <1>4, <1>5

\* Leaving the check of a holder, to a step where no lock is held, keeps every
\* part of the invariant that is about the others.
LEMMA LeavingIsLocal ==
  ASSUME IndInv, NEW i \in Isolates, NEW step \in Steps,
         step \notin {"held", "remove", "answer", "dead"}, ~Holds(i), pc[i] # "dead",
         EndCheck(i, step),
         UNCHANGED <<name, slow, deaths>>,
         attempts' \in [Isolates -> Nat]
  PROVE  IndInv'
<1> USE DEF IndInv
<1>1. CloseTemporaryPort(i)
  BY DEF EndCheck
<1>2. /\ pc' = [pc EXCEPT ![i] = step]
      /\ other' = [other EXCEPT ![i] = None]
  BY DEF EndCheck
<1>3. TypeOK'
  BY <1>1, <1>2, ClosingIsLocal DEF TypeOK, Port
<1>4. NameLeadsToHolder'
  BY <1>2 DEF NameLeadsToHolder, Holds, TypeOK, Port
<1>5. DeathsAreCounted'
  BY <1>2 DEF DeathsAreCounted, TypeOK
<1>6. OthersHoldOrDied'
  BY <1>2 DEF OthersHoldOrDied, Holds, TypeOK, Port
<1>7. AnswersComeIn'
  <2>1. SUFFICES ASSUME NEW k \in Isolates,
                        pc'[k] = "answer", other'[k] # None, pc'[other'[k]] = "held"
                 PROVE  inbox'[k] # <<>> \/ [from |-> k, to |-> other'[k]] \in requests'
    BY DEF AnswersComeIn
  <2>2. k # i /\ pc[k] = "answer" /\ other'[k] = other[k]
    BY <1>2, <2>1 DEF TypeOK
  <2>3. other[k] \in Isolates /\ pc[other[k]] = "held"
    BY <1>2, <2>1, <2>2 DEF TypeOK, Port
  <2>4. inbox[k] # <<>> \/ [from |-> k, to |-> other[k]] \in requests
    BY <2>1, <2>2, <2>3 DEF AnswersComeIn
  <2> QED
    BY <2>2, <2>3, <2>4, <1>1, ClosingIsLocal
<1>8. OnlyTheDeadAreRemoved'
  BY <1>2 DEF OnlyTheDeadAreRemoved, Holds, TypeOK
<1> QED
  BY <1>3, <1>4, <1>5, <1>6, <1>7, <1>8

-----------------------------------------------------------------------------
\* The steps of acquireLock that take or remove the name.

\* Nobody else can register while the name of a dead isolate is removed.
LEMMA RegisterKeepsInvariant ==
  ASSUME IndInv, NoRaceForTheDead, NEW i \in Isolates, Register(i)
  PROVE  IndInv'
<1> USE DEF IndInv
<1>1. /\ pc[i] = "register" /\ name = None /\ name' = i
      /\ pc' = [pc EXCEPT ![i] = "held"]
      /\ UNCHANGED <<other, waiting, requests, inbox, attempts, slow, deaths>>
  BY DEF Register
<1>2. TypeOK'
  BY <1>1 DEF TypeOK, Port, Steps
<1>3. NameLeadsToHolder'
  BY <1>1, NoneIsNoIsolate DEF NameLeadsToHolder, Holds, TypeOK
<1>4. DeathsAreCounted'
  BY <1>1 DEF DeathsAreCounted, TypeOK
<1>5. OthersHoldOrDied'
  BY <1>1 DEF OthersHoldOrDied, TypeOK, Port
<1>6. AnswersComeIn'
  BY <1>1 DEF AnswersComeIn, OthersHoldOrDied, TypeOK, Port
<1>7. ASSUME NEW k \in Isolates, pc[k] = "remove" PROVE FALSE
  <2>1. PICK d \in Isolates : pc[d] = "dead"
    BY <1>7 DEF OnlyTheDeadAreRemoved
  <2>2. deaths > 0 /\ deaths \in 0..MaxDeaths
    BY <2>1 DEF DeathsAreCounted, TypeOK
  <2>3. MaxDeaths # 0
    BY <2>2
  <2> QED
    BY <1>1, <1>7, <2>1, <2>3 DEF NoRaceForTheDead
<1>8. OnlyTheDeadAreRemoved'
  BY <1>1, <1>7 DEF OnlyTheDeadAreRemoved, TypeOK
<1> QED
  BY <1>2, <1>3, <1>4, <1>5, <1>6, <1>8

\* A punctual holder that is alive has answered, so the timeout means death.
LEMMA TimeoutKeepsInvariant ==
  ASSUME IndInv, HoldersArePunctual, NEW i \in Isolates, Timeout(i)
  PROVE  IndInv'
<1> USE DEF IndInv
<1>1. pc[i] = "answer" /\ inbox[i] = <<>> /\ UNCHANGED <<name, attempts, deaths>>
  BY DEF Timeout
<1>2. slow' = slow /\ ~MayBeAnswered(i)
  <2>1. slow = 0
    BY DEF HoldersArePunctual, TypeOK
  <2> QED
    BY <2>1 DEF Timeout, HoldersArePunctual
<1>3. CASE name # None /\ name = other[i]
  <2>1. other[i] \in Isolates /\ pc[other[i]] \in {"held", "dead"}
    BY <1>3 DEF OthersHoldOrDied, TypeOK, Port
  <2>2. pc[other[i]] # "held"
    <3>1. SUFFICES ASSUME pc[other[i]] = "held" PROVE FALSE
      OBVIOUS
    <3>2. [from |-> i, to |-> other[i]] \in requests
      BY <1>1, <1>3, <3>1 DEF AnswersComeIn
    <3> QED
      BY <1>2, <3>1, <3>2 DEF MayBeAnswered
  <2>3. pc[name] = "dead" /\ name \in Isolates
    BY <1>3, <2>1, <2>2
  <2>4. \A j \in Isolates : ~Holds(j)
    BY <2>3 DEF NameLeadsToHolder, Holds
  <2>5. CloseTemporaryPort(i) /\ pc' = [pc EXCEPT ![i] = "remove"]
        /\ other' = [other EXCEPT ![i] = None]
    BY <1>3 DEF Timeout, EndCheck
  <2>6. TypeOK'
    BY <1>1, <1>2, <2>5, ClosingIsLocal DEF TypeOK, Port, Steps
  <2>7. NameLeadsToHolder'
    BY <1>1, <2>3, <2>4, <2>5 DEF NameLeadsToHolder, Holds, TypeOK
  <2>8. DeathsAreCounted'
    BY <1>1, <2>5 DEF DeathsAreCounted, TypeOK
  <2>9. OthersHoldOrDied'
    BY <1>1, <2>5 DEF OthersHoldOrDied, TypeOK, Port
  <2>10. AnswersComeIn'
    BY <2>4, <2>5 DEF AnswersComeIn, Holds, TypeOK, Port
  <2>11. OnlyTheDeadAreRemoved'
    BY <1>1, <2>3, <2>4, <2>5 DEF OnlyTheDeadAreRemoved, Holds, TypeOK
  <2> QED
    BY <2>6, <2>7, <2>8, <2>9, <2>10, <2>11
<1>4. CASE ~(name # None /\ name = other[i])
  <2>1. EndCheck(i, "register")
    BY <1>4 DEF Timeout
  <2>2. attempts' \in [Isolates -> Nat] /\ ~Holds(i)
    BY <1>1 DEF TypeOK, Holds
  <2> QED
    BY <1>1, <1>2, <2>1, <2>2, LeavingIsLocal DEF Steps
<1> QED
  BY <1>3, <1>4

LEMMA RemoveKeepsInvariant ==
  ASSUME IndInv, NEW i \in Isolates, Remove(i)
  PROVE  IndInv'
<1> USE DEF IndInv
<1>1. /\ pc[i] = "remove" /\ name' = None
      /\ pc' = [pc EXCEPT ![i] = "register"]
      /\ UNCHANGED <<other, waiting, requests, inbox, attempts, slow, deaths>>
  BY DEF Remove
<1>2. \A j \in Isolates : ~Holds(j)
  BY <1>1 DEF OnlyTheDeadAreRemoved
<1>3. TypeOK'
  BY <1>1 DEF TypeOK, Port, Steps
<1>4. NameLeadsToHolder'
  BY <1>1, <1>2 DEF NameLeadsToHolder, Holds, TypeOK
<1>5. DeathsAreCounted' /\ OthersHoldOrDied'
  BY <1>1 DEF DeathsAreCounted, OthersHoldOrDied, TypeOK, Port
<1>6. AnswersComeIn'
  BY <1>1, <1>2 DEF AnswersComeIn, Holds, TypeOK, Port
<1>7. OnlyTheDeadAreRemoved'
  BY <1>1 DEF OnlyTheDeadAreRemoved, Holds, TypeOK
<1> QED
  BY <1>3, <1>4, <1>5, <1>6, <1>7

-----------------------------------------------------------------------------
\* The steps of acquireLock that leave the name alone.
LEMMA WaitingKeepsInvariant ==
  ASSUME IndInv, NEW i \in Isolates,
         FailRegister(i) \/ Look(i) \/ HearActive(i) \/ AskAgain(i)
  PROVE  IndInv'
<1> USE DEF IndInv
<1>1. /\ UNCHANGED <<name, waiting, attempts, slow, deaths>>
      /\ pc[i] \in {"register", "look", "answer", "finish"}
      /\ \E step \in {"look", "register", "answer", "finish"} :
           pc' = [pc EXCEPT ![i] = step]
  BY DEF FailRegister, Look, HearActive, AskAgain
<1>2. TypeOK'
  <2>1. CASE FailRegister(i)
    BY <2>1 DEF FailRegister, TypeOK, Steps
  <2>2. CASE Look(i)
    <3>1. Heartbeats(i, name) \subseteq Request
      BY DEF Heartbeats, Request, TypeOK, Port
    <3>2. other' \in [Isolates -> Port] /\ pc' \in [Isolates -> Steps]
      BY <2>2 DEF Look, TypeOK, Steps, Awaiting
    <3> QED
      BY <2>2, <3>1, <3>2 DEF Look, TypeOK
  <2>3. CASE HearActive(i)
    <3>1. inbox' \in [Isolates -> Seq(BOOLEAN)]
      <4>1. inbox[i] \in Seq(BOOLEAN) /\ inbox[i] # <<>>
        BY <2>3 DEF HearActive, TypeOK
      <4>2. Tail(inbox[i]) \in Seq(BOOLEAN)
        BY <4>1, AnswersQueue
      <4> QED
        BY <2>3, <4>2 DEF HearActive, TypeOK
    <3>2. pc' \in [Isolates -> Steps]
      BY <2>3 DEF HearActive, TypeOK, Steps, Awaiting
    <3> QED
      BY <2>3, <3>1, <3>2 DEF HearActive, TypeOK
  <2>4. CASE AskAgain(i)
    <3>1. Heartbeats(i, other[i]) \subseteq Request
      BY DEF Heartbeats, Request, TypeOK, Port
    <3>2. inbox' \in [Isolates -> Seq(BOOLEAN)]
      <4>1. inbox[i] \in Seq(BOOLEAN)
        BY DEF TypeOK
      <4>2. inbox[i] # <<>> => Tail(inbox[i]) \in Seq(BOOLEAN)
        BY <4>1, AnswersQueue
      <4> QED
        BY <2>4, <4>1, <4>2 DEF AskAgain, TypeOK
    <3>3. pc' \in [Isolates -> Steps]
      BY <2>4 DEF AskAgain, TypeOK, Steps, Awaiting
    <3> QED
      BY <2>4, <3>1, <3>2, <3>3 DEF AskAgain, TypeOK
  <2> QED
    BY <2>1, <2>2, <2>3, <2>4
<1>3. NameLeadsToHolder'
  BY <1>1 DEF NameLeadsToHolder, Holds, TypeOK, Port
<1>4. DeathsAreCounted' /\ OnlyTheDeadAreRemoved'
  BY <1>1 DEF DeathsAreCounted, OnlyTheDeadAreRemoved, Holds, TypeOK
<1>5. OthersHoldOrDied'
  <2>1. CASE Look(i)
    BY <2>1 DEF Look, OthersHoldOrDied, NameLeadsToHolder, Holds, TypeOK, Port
  <2>2. CASE ~Look(i)
    BY <1>1, <2>2 DEF FailRegister, HearActive, AskAgain, OthersHoldOrDied, TypeOK, Port
  <2> QED
    BY <2>1, <2>2
<1>6. AnswersComeIn'
  <2>1. SUFFICES ASSUME NEW k \in Isolates,
                        pc'[k] = "answer", other'[k] # None, pc'[other'[k]] = "held"
                 PROVE  inbox'[k] # <<>> \/ [from |-> k, to |-> other'[k]] \in requests'
    BY DEF AnswersComeIn
  <2>2. requests \subseteq requests'
    BY DEF FailRegister, Look, HearActive, AskAgain
  <2>3. CASE k # i
    <3>1. pc[k] = "answer" /\ other'[k] = other[k] /\ inbox'[k] = inbox[k]
      BY <1>1, <2>1, <2>3 DEF FailRegister, Look, HearActive, AskAgain, TypeOK
    <3>2. pc[other[k]] = "held"
      BY <1>1, <2>1, <3>1 DEF TypeOK, Port
    <3> QED
      BY <2>1, <2>2, <3>1, <3>2 DEF AnswersComeIn
  <2>4. CASE k = i
    <3>1. Look(i) \/ AskAgain(i)
      BY <2>1, <2>4 DEF FailRegister, HearActive, TypeOK
    <3>2. requests' = requests \cup Heartbeats(i, other'[i])
      BY <3>1 DEF Look, AskAgain, TypeOK
    <3> QED
      BY <2>1, <2>4, <3>2 DEF Heartbeats
  <2> QED
    BY <2>3, <2>4
<1> QED
  BY <1>2, <1>3, <1>4, <1>5, <1>6

-----------------------------------------------------------------------------
\* The steps of the holder and of the system.
LEMMA AnswerKeepsInvariant ==
  ASSUME IndInv, NEW h \in Isolates, Answer(h)
  PROVE  IndInv'
<1> USE DEF IndInv
<1>1. PICK r \in requests :
        /\ r.to = h
        /\ requests' = requests \ {r}
        /\ waiting' = [waiting EXCEPT ![h] = r.from]
        /\ inbox' = [i \in Isolates |->
                       IF i = r.from THEN Append(inbox[i], FALSE) ELSE inbox[i]]
  BY DEF Answer
<1>2. UNCHANGED <<name, pc, other, attempts, slow, deaths>>
  BY DEF Answer
<1>3. r \in Request
  BY DEF TypeOK
<1>4. inbox' \in [Isolates -> Seq(BOOLEAN)]
  BY <1>1, AnswersQueue DEF TypeOK
<1>5. TypeOK'
  BY <1>1, <1>2, <1>3, <1>4 DEF TypeOK, Request
<1>6. /\ NameLeadsToHolder' /\ DeathsAreCounted'
      /\ OthersHoldOrDied' /\ OnlyTheDeadAreRemoved'
  BY <1>2 DEF NameLeadsToHolder, DeathsAreCounted, OthersHoldOrDied,
              OnlyTheDeadAreRemoved, Holds
<1>7. AnswersComeIn'
  <2>1. SUFFICES ASSUME NEW k \in Isolates,
                        pc[k] = "answer", other[k] # None, pc[other[k]] = "held"
                 PROVE  inbox'[k] # <<>> \/ [from |-> k, to |-> other[k]] \in requests'
    BY <1>2 DEF AnswersComeIn
  <2>2. CASE k = r.from
    <3>1. inbox'[k] = Append(inbox[k], FALSE) /\ inbox[k] \in Seq(BOOLEAN)
      BY <1>1, <2>2 DEF TypeOK
    <3> QED
      BY <3>1, AnswersQueue
  <2>3. CASE k # r.from
    <3>1. inbox'[k] = inbox[k] /\ r # [from |-> k, to |-> other[k]]
      BY <1>1, <2>3
    <3> QED
      BY <1>1, <2>1, <3>1 DEF AnswersComeIn
  <2> QED
    BY <2>2, <2>3
<1> QED
  BY <1>5, <1>6, <1>7

LEMMA ReleaseKeepsInvariant ==
  ASSUME IndInv, NEW h \in Isolates, Release(h)
  PROVE  IndInv'
<1> USE DEF IndInv
<1>1. /\ pc[h] = "held" /\ name' = None
      /\ inbox' = [i \in Isolates |->
                     IF i = waiting[h] THEN Append(inbox[i], TRUE) ELSE inbox[i]]
      /\ waiting' = [waiting EXCEPT ![h] = None]
      /\ requests' = {r \in requests : r.to # h}
      /\ other' = [i \in Isolates |-> IF other[i] = h THEN None ELSE other[i]]
      /\ pc' = [pc EXCEPT ![h] = "idle"]
      /\ UNCHANGED <<attempts, slow, deaths>>
  BY DEF Release
<1>2. inbox' \in [Isolates -> Seq(BOOLEAN)]
  BY <1>1, AnswersQueue DEF TypeOK
<1>3. TypeOK'
  BY <1>1, <1>2 DEF TypeOK, Port, Steps
<1>4. \A j \in Isolates : ~Holds(j)'
  BY <1>1 DEF NameLeadsToHolder, Holds, TypeOK
<1>5. NameLeadsToHolder'
  BY <1>1, <1>4 DEF NameLeadsToHolder
<1>6. DeathsAreCounted' /\ OthersHoldOrDied'
  BY <1>1 DEF DeathsAreCounted, OthersHoldOrDied, TypeOK, Port
<1>7. AnswersComeIn'
  BY <1>3, <1>4 DEF AnswersComeIn, Holds, TypeOK, Port
<1>8. OnlyTheDeadAreRemoved'
  BY <1>1, <1>4 DEF OnlyTheDeadAreRemoved, TypeOK
<1> QED
  BY <1>3, <1>5, <1>6, <1>7, <1>8

LEMMA DieKeepsInvariant ==
  ASSUME IndInv, NEW i \in Isolates, Die(i)
  PROVE  IndInv'
<1> USE DEF IndInv
<1>1. /\ CloseTemporaryPort(i) /\ deaths < MaxDeaths /\ deaths' = deaths + 1
      /\ pc' = [pc EXCEPT ![i] = "dead"] /\ other' = [other EXCEPT ![i] = None]
      /\ UNCHANGED <<name, attempts, slow>>
  BY DEF Die, EndCheck
<1>2. deaths' \in 0..MaxDeaths
  BY <1>1, BoundsAreNumbers DEF TypeOK
<1>3. TypeOK'
  BY <1>1, <1>2, ClosingIsLocal DEF TypeOK, Port, Steps
<1>4. NameLeadsToHolder'
  BY <1>1 DEF NameLeadsToHolder, Holds, TypeOK, Port
<1>5. DeathsAreCounted' /\ OthersHoldOrDied'
  BY <1>1 DEF DeathsAreCounted, OthersHoldOrDied, TypeOK, Port
<1>6. AnswersComeIn'
  <2>1. SUFFICES ASSUME NEW k \in Isolates,
                        pc'[k] = "answer", other'[k] # None, pc'[other'[k]] = "held"
                 PROVE  inbox'[k] # <<>> \/ [from |-> k, to |-> other'[k]] \in requests'
    BY DEF AnswersComeIn
  <2>2. k # i /\ pc[k] = "answer" /\ other'[k] = other[k]
    BY <1>1, <2>1 DEF TypeOK
  <2>3. other[k] \in Isolates /\ pc[other[k]] = "held"
    BY <1>1, <2>1, <2>2 DEF TypeOK, Port
  <2>4. inbox[k] # <<>> \/ [from |-> k, to |-> other[k]] \in requests
    BY <2>1, <2>2, <2>3 DEF AnswersComeIn
  <2> QED
    BY <2>2, <2>3, <2>4, <1>1, ClosingIsLocal
<1>7. OnlyTheDeadAreRemoved'
  BY <1>1 DEF OnlyTheDeadAreRemoved, Holds, TypeOK
<1> QED
  BY <1>3, <1>4, <1>5, <1>6, <1>7

-----------------------------------------------------------------------------
LEMMA InitEstablishesInvariant == Init => IndInv
<1> SUFFICES ASSUME Init PROVE IndInv
  OBVIOUS
<1>1. TypeOK
  BY BoundsAreNumbers DEF Init, TypeOK, Port, Steps
<1>2. NameLeadsToHolder /\ DeathsAreCounted /\ OthersHoldOrDied
  BY DEF Init, NameLeadsToHolder, Holds, DeathsAreCounted, OthersHoldOrDied
<1>3. AnswersComeIn /\ OnlyTheDeadAreRemoved
  BY DEF Init, AnswersComeIn, OnlyTheDeadAreRemoved
<1> QED
  BY <1>1, <1>2, <1>3 DEF IndInv

LEMMA NextKeepsInvariant ==
  ASSUME HoldersArePunctual, NoRaceForTheDead, IndInv, [Next]_vars
  PROVE  IndInv'
<1>1. CASE UNCHANGED vars
  BY <1>1 DEF vars, IndInv, TypeOK, NameLeadsToHolder, Holds, DeathsAreCounted,
              OthersHoldOrDied, AnswersComeIn, OnlyTheDeadAreRemoved
<1>2. ASSUME NEW i \in Isolates, Acquire(i) \/ GiveUp(i) \/ HearReleased(i)
      PROVE  IndInv'
  <2>1. PICK step \in {"register", "idle"} : EndCheck(i, step)
    BY <1>2 DEF Acquire, GiveUp, HearReleased
  <2>2. ~Holds(i) /\ pc[i] # "dead" /\ UNCHANGED <<name, slow, deaths>>
    BY <1>2 DEF Acquire, GiveUp, HearReleased, Awaiting, Holds
  <2>3. attempts' \in [Isolates -> Nat]
    BY <1>2 DEF Acquire, GiveUp, HearReleased, IndInv, TypeOK
  <2> QED
    BY <2>1, <2>2, <2>3, LeavingIsLocal DEF Steps
<1>3. ASSUME NEW i \in Isolates, Proceed(i) PROVE IndInv'
  BY <1>2, <1>3, RegisterKeepsInvariant, WaitingKeepsInvariant,
     TimeoutKeepsInvariant, RemoveKeepsInvariant DEF Proceed
<1> QED
  BY <1>1, <1>2, <1>3, AnswerKeepsInvariant, ReleaseKeepsInvariant,
     DieKeepsInvariant DEF Next

-----------------------------------------------------------------------------
LEMMA InvariantHolds ==
  ASSUME HoldersArePunctual, NoRaceForTheDead
  PROVE  Spec => []IndInv
<1>1. IndInv /\ [Next]_vars => IndInv'
  BY NextKeepsInvariant
<1> QED
  BY InitEstablishesInvariant, <1>1, PTL DEF Spec

\* Every variable keeps its type.
THEOREM LockTypeInvariance ==
  ASSUME HoldersArePunctual, NoRaceForTheDead
  PROVE  Spec => []TypeOK
<1>1. IndInv => TypeOK
  BY DEF IndInv
<1> QED
  BY <1>1, InvariantHolds, PTL

\* The name always leads to the isolate that holds the lock or died with it.
THEOREM HolderIsReachable ==
  ASSUME HoldersArePunctual, NoRaceForTheDead
  PROVE  Spec => []NameLeadsToHolder
<1>1. IndInv => NameLeadsToHolder
  BY DEF IndInv
<1> QED
  BY <1>1, InvariantHolds, PTL

\* No two isolates ever hold the lock of the backup at once.
THEOREM BackupIsExclusive ==
  ASSUME HoldersArePunctual, NoRaceForTheDead
  PROVE  Spec => []ExclusiveAccess
<1>1. NameLeadsToHolder => ExclusiveAccess
  BY DEF NameLeadsToHolder, ExclusiveAccess
<1> QED
  BY <1>1, HolderIsReachable, PTL
=============================================================================
