--------------------------- MODULE BullQueueProofs ---------------------------
(***************************************************************************)
(* What every step of a BullMQ queue preserves, for any number of jobs,    *)
(* attempts and forgiven stalls.  The proofs about the workers cite it.    *)
(***************************************************************************)
EXTENDS BullQueue, FiniteSetTheorems, TLAPS

\* A queue in which every run is accounted for.
QueueInv == QueueTypeOK /\ RunsAccounted

\* Some queue command acts on job j.
QueueStep(j) ==
  Add(j) \/ Take(j) \/ Complete(j) \/ Fail(j) \/ Promote(j) \/ Stall(j)

LEMMA QueueInvInit == QueueInit => QueueInv
  BY QueueAssumption DEF QueueInit, QueueInv, QueueTypeOK, RunsAccounted, States

\* A queue command keeps the types and the account of the runs.
LEMMA QueueInvStep ==
  ASSUME QueueInv, NEW j \in Jobs, QueueStep(j)
  PROVE  QueueInv'
  <1> USE QueueAssumption DEF QueueInv, QueueTypeOK, RunsAccounted, States, Move
  <1>1. CASE Add(j)
    BY <1>1 DEF Add
  <1>2. CASE Take(j)
    BY <1>2 DEF Take
  <1>3. CASE Complete(j)
    BY <1>3 DEF Complete
  <1>4. CASE Fail(j)
    BY <1>4 DEF Fail
  <1>5. CASE Promote(j)
    BY <1>5 DEF Promote
  <1>6. CASE Stall(j)
    BY <1>6 DEF Stall, StalledOut
  <1> QED
    BY <1>1, <1>2, <1>3, <1>4, <1>5, <1>6 DEF QueueStep

LEMMA QueueInvStutter == QueueInv /\ UNCHANGED queue => QueueInv'
  BY DEF QueueInv, QueueTypeOK, RunsAccounted, queue

\* The number of a new run is one the job can have.
LEMMA NextRunNumber ==
  ASSUME QueueInv, NEW j \in Jobs, state[j] = "waiting"
  PROVE  started[j] + 1 \in RunNumbers /\ made[j] \in 0 .. Attempts - 1
  BY QueueAssumption DEF QueueInv, QueueTypeOK, RunsAccounted, RunNumbers

-----------------------------------------------------------------------------
(* Counting runs of a job.                                                 *)

LEMMA RunsAreFinite ==
  ASSUME NEW S \in SUBSET RunNumbers
  PROVE  IsFiniteSet(S) /\ Cardinality(S) \in Nat
  <1>1. Attempts + MaxStalled \in Int
    BY QueueAssumption
  <1>2. IsFiniteSet(RunNumbers)
    BY <1>1, FS_Interval DEF RunNumbers
  <1> QED
    BY <1>2, FS_Subset, FS_CardinalityType

LEMMA FewerRuns ==
  ASSUME NEW S \in SUBSET RunNumbers, NEW T \in SUBSET S
  PROVE  Cardinality(T) <= Cardinality(S)
  BY RunsAreFinite, FS_Subset

LEMMA OneMoreRun ==
  ASSUME NEW S \in SUBSET RunNumbers, NEW T \in SUBSET RunNumbers, NEW n \in RunNumbers,
         T \subseteq S \cup {n}
  PROVE  Cardinality(T) <= Cardinality(S) + 1
  <1>1. S \cup {n} \in SUBSET RunNumbers
    OBVIOUS
  <1>2. Cardinality(T) <= Cardinality(S \cup {n})
    BY <1>1, FewerRuns
  <1>3. Cardinality(S \cup {n}) \in {Cardinality(S), Cardinality(S) + 1}
    BY RunsAreFinite, FS_AddElement
  <1> QED
    BY <1>1, <1>2, <1>3, RunsAreFinite

LEMMA OneRunLess ==
  ASSUME NEW S \in SUBSET RunNumbers, NEW n \in S
  PROVE  Cardinality(S \ {n}) + 1 = Cardinality(S)
  BY RunsAreFinite, FS_RemoveElement

-----------------------------------------------------------------------------
(* Every job comes to an end: what is left of it only shrinks.             *)

\* The attempts and the runs of a job stay within its options, also when it ended.
RunsBounded ==
  \A j \in Jobs : made[j] <= Attempts /\ started[j] <= Attempts + MaxStalled

LEMMA RunsBoundedInit == QueueInit => RunsBounded
  <1>1. ASSUME QueueInit, NEW j \in Jobs PROVE made[j] = 0 /\ started[j] = 0
    BY <1>1 DEF QueueInit
  <1>2. 0 <= Attempts /\ 0 <= Attempts + MaxStalled
    BY QueueAssumption
  <1> QED
    BY <1>1, <1>2 DEF RunsBounded

LEMMA RunsBoundedStep ==
  ASSUME QueueInv, RunsBounded, NEW j \in Jobs, QueueStep(j)
  PROVE  RunsBounded'
  <1> USE QueueAssumption DEF QueueInv, QueueTypeOK, RunsAccounted, RunsBounded, Move
  <1>1. CASE Take(j)
    BY <1>1 DEF Take
  <1>2. CASE Complete(j)
    BY <1>2 DEF Complete
  <1>3. CASE Fail(j)
    BY <1>3 DEF Fail
  <1>4. CASE Stall(j)
    BY <1>4 DEF Stall
  <1>5. CASE Add(j) \/ Promote(j)
    BY <1>5 DEF Add, Promote
  <1> QED
    BY <1>1, <1>2, <1>3, <1>4, <1>5 DEF QueueStep

LEMMA RunsBoundedStutter == RunsBounded /\ UNCHANGED queue => RunsBounded'
  BY DEF RunsBounded, queue

\* What is left of a job in state s after m attempts and k stalls: ten for every try
\* it may still have, and the steps before the end of the try in progress, of which
\* the run itself has left.
FuelOf(s, m, k, left) ==
  10 * (Attempts + MaxStalled + 1 - m - k)
    + (CASE s = "delayed" -> 9
         [] s = "waiting" -> 8
         [] s = "active" -> left
         [] OTHER -> 0)

LEMMA FuelIsNatural ==
  ASSUME QueueInv, RunsBounded, NEW j \in Jobs, NEW left, state[j] = "active" => left \in Nat
  PROVE  FuelOf(state[j], made[j], stalls[j], left) \in Nat
  BY QueueAssumption DEF QueueInv, QueueTypeOK, RunsAccounted, RunsBounded, FuelOf

\* A command of the queue on a job that was added spends of it, whatever the run that
\* ends or begins with it had or has to do.
LEMMA QueueSpends ==
  ASSUME QueueInv, NEW j \in Jobs, QueueStep(j), state[j] # "none",
         NEW left, state[j] = "active" => left \in 1 .. 7,
         NEW next, state'[j] = "active" => next \in 1 .. 7
  PROVE  FuelOf(state'[j], made'[j], stalls'[j], next) < FuelOf(state[j], made[j], stalls[j], left)
  <1> USE QueueAssumption DEF QueueInv, QueueTypeOK, FuelOf, Move
  <1>1. CASE Take(j)
    BY <1>1 DEF Take
  <1>2. CASE Complete(j)
    BY <1>2 DEF Complete
  <1>3. CASE Fail(j)
    BY <1>3 DEF Fail
  <1>4. CASE Promote(j)
    BY <1>4 DEF Promote
  <1>5. CASE Stall(j)
    BY <1>5 DEF Stall
  <1>6. ~Add(j)
    BY DEF Add
  <1> QED
    BY <1>1, <1>2, <1>3, <1>4, <1>5, <1>6 DEF QueueStep
=============================================================================
