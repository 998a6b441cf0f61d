----------------------------- MODULE QueueLemmas -----------------------------
(***************************************************************************)
(* Facts about the queues of the components: what a queue holds after a    *)
(* job is taken from it or jobs are added to it, and finite sets of jobs.  *)
(***************************************************************************)
EXTENDS SequencesExt, SequenceTheorems, FiniteSetTheorems, TLAPS

\* A finite set is written down as a sequence of its elements.
LEMMA SetToSeqIsSeq ==
  ASSUME NEW T, NEW S \in SUBSET T, IsFiniteSet(S)
  PROVE  SetToSeq(S) \in Seq(T)
<1>1. Cardinality(S) \in Nat /\ ExistsBijection(1..Cardinality(S), S)
  BY FS_CardinalityType
<1>2. PICK f \in [1..Cardinality(S) -> S] : IsInjective(f)
  BY <1>1 DEF ExistsBijection, Bijection, Injection
<1>3. SetToSeq(S) \in [1..Cardinality(S) -> S]
  BY <1>2 DEF SetToSeq
<1>4. SetToSeq(S) \in Seq(S)
  BY <1>1, <1>3
<1> QED
  BY <1>4, SeqMonotonic

\* A queue of jobs of a kind stays one when jobs of the kind are added or one
\* is taken, and the job taken is of the kind.
LEMMA QueueTypes ==
  ASSUME NEW T, NEW q \in Seq(T)
  PROVE  /\ \A x \in T : Append(q, x) \in Seq(T) /\ q \o <<x>> \in Seq(T)
         /\ q # <<>> => Head(q) \in T /\ Tail(q) \in Seq(T)
         /\ \A S \in SUBSET T : IsFiniteSet(S) => q \o SetToSeq(S) \in Seq(T)
<1>1. \A x \in T : Append(q, x) \in Seq(T) /\ q \o <<x>> \in Seq(T)
  BY AppendProperties, AppendIsConcat
<1>2. q # <<>> => Head(q) \in T /\ Tail(q) \in Seq(T)
  BY HeadTailProperties
<1>3. ASSUME NEW S \in SUBSET T, IsFiniteSet(S) PROVE q \o SetToSeq(S) \in Seq(T)
  BY <1>3, SetToSeqIsSeq, ConcatProperties
<1> QED
  BY <1>1, <1>2, <1>3

\* What a finite set is mapped onto is finite.
LEMMA ImageIsFinite ==
  ASSUME NEW S, IsFiniteSet(S), NEW T, NEW f \in [S -> T], \A t \in T : \E s \in S : f[s] = t
  PROVE  IsFiniteSet(T)
<1>1. f \in Surjection(S, T)
  BY DEF Surjection
<1> QED
  BY <1>1, FS_Surjection

=============================================================================
