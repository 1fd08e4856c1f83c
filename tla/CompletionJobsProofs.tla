------------------------- MODULE CompletionJobsProofs -------------------------
(***************************************************************************)
(* Theorems about CompletionJobs for any number of jobs, polls, attempts   *)
(* and forgiven stalls.                                                    *)
(*                                                                         *)
(* What a run knows is where it stands in process(): a run that is about   *)
(* to return has metered and announced (ProgressInv), and the run that     *)
(* holds the lock saw the attemptsMade the queue still has (LockInv), so   *)
(* what it decided on its attempt agrees with what the queue decides.      *)
(* While a job has not stalled its runs follow each other (CalmInv), so    *)
(* what was charged or sent for the job was charged or sent by its last    *)
(* run, and the place of that run says what.  With stalls, every run that  *)
(* may still send an event without the lock is paid for by the stall that  *)
(* took it (AnnouncedInv).                                                 *)
(***************************************************************************)
EXTENDS CompletionJobs, BullQueueProofs

\* The run that holds the lock knows the number of its attempt, and runs that
\* were not taken yet have done nothing.
LockInv ==
  \A j \in Jobs : \A n \in RunNumbers :
    /\ HoldsLock(j, n) => madeAt[j][n] = made[j]
    /\ n > started[j] => pc[j][n] = "idle"

\* What lies behind a run, from where it stands in process().
ProgressInv ==
  \A j \in Jobs : \A n \in RunNumbers :
    /\ pc[j][n] \in {"announce", "return"} => metered[j] > 0
    /\ pc[j][n] = "return" => completedEvents[j] > 0
    /\ pc[j][n] = "throw" /\ IsFinalAttempt(j, n) => failedEvents[j] > 0

\* How jobs end, and that only completed jobs have a result.
EndsInv ==
  /\ CompletedMeansMeteredAndAnnounced
  /\ FailureIsAnnounced
  /\ \A j \in Jobs : returnvalue[j] => state[j] = "completed"

\* What a poll has read of its job stays true of it.
SnapshotInv ==
  \A p \in Polls :
    poll[p].step = "read" /\ poll[p].result => state[poll[p].job] = "completed"

IInv ==
  /\ TypeOK
  /\ QueueInv
  /\ LockInv
  /\ ProgressInv
  /\ EndsInv
  /\ SnapshotInv
  /\ ResultOnlyWhenCompleted

-----------------------------------------------------------------------------
(* Types.                                                                  *)

RunType == [Jobs -> [RunNumbers -> Steps]]

\* A step of one run leaves every other run where it is.
LEMMA GotoMoves ==
  ASSUME pc \in RunType, NEW j \in Jobs, NEW n \in RunNumbers, NEW step \in Steps,
         Goto(j, n, step)
  PROVE  /\ pc' \in RunType
         /\ \A i \in Jobs : \A m \in RunNumbers :
              pc'[i][m] = IF i = j /\ m = n THEN step ELSE pc[i][m]
  BY DEF RunType, Goto

LEMMA BumpCounts ==
  ASSUME NEW f \in [Jobs -> Nat], NEW j \in Jobs
  PROVE  /\ Bump(f, j) \in [Jobs -> Nat]
         /\ \A i \in Jobs : Bump(f, j)[i] = IF i = j THEN f[i] + 1 ELSE f[i]
  BY DEF Bump

Polling == [step : {"new", "read", "answered"}, job : Jobs \cup {NoJob},
            result : BOOLEAN, answer : States]

LEMMA JobsTypeInit == Init => TypeOK
  <1> SUFFICES ASSUME Init PROVE TypeOK
    OBVIOUS
  <1>1. QueueTypeOK
    BY QueueInvInit DEF Init, QueueInv
  <1>2. NoPoll \in Polling /\ NoPoll.step = "new"
    BY DEF NoPoll, Polling, States
  <1>3. /\ poll \in [Polls -> Polling]
        /\ \A p \in Polls : poll[p].step # "new" => poll[p].job \in Jobs
    BY <1>2 DEF Init
  <1>4. 0 \in 0 .. Attempts - 1
    BY QueueAssumption
  <1> QED
    BY <1>1, <1>3, <1>4 DEF Init, TypeOK, Polling, Steps

LEMMA JobsQueueStep == QueueInv /\ [Next]_vars => QueueInv'
  <1> SUFFICES ASSUME QueueInv, [Next]_vars PROVE QueueInv'
    OBVIOUS
  <1> USE QueueInvStep, QueueInvStutter DEF QueueStep
  <1>1. ASSUME NEW j \in Jobs, Enqueue(j) \/ Start(j) \/ BackoffEnds(j) \/ JobStalls(j)
        PROVE  QueueInv'
    BY <1>1 DEF Enqueue, Start, BackoffEnds, JobStalls
  <1>2. ASSUME NEW j \in Jobs, NEW n \in RunNumbers, Return(j, n) \/ Throw(j, n)
        PROVE  QueueInv'
    BY <1>2 DEF Return, Throw
  <1>3. ASSUME NEW j \in Jobs, NEW n \in RunNumbers,
               ProviderAnswers(j, n) \/ ProviderFails(j, n) \/ Log(j, n) \/ LogFails(j, n)
                 \/ DispatchCompleted(j, n) \/ DispatchFailed(j, n) \/ Die(j, n)
        PROVE  QueueInv'
    BY <1>3 DEF ProviderAnswers, ProviderFails, Log, LogFails, DispatchCompleted,
                DispatchFailed, Die
  <1>4. ASSUME NEW p \in Polls, PollAnswers(p) \/ \E j \in Jobs : PollReads(p, j)
        PROVE  QueueInv'
    BY <1>4 DEF PollAnswers, PollReads
  <1>5. CASE UNCHANGED vars
    BY <1>5 DEF vars
  <1> QED
    BY <1>1, <1>2, <1>3, <1>4, <1>5 DEF Next, process

LEMMA JobsTypeStep == TypeOK /\ QueueInv /\ [Next]_vars => TypeOK'
  <1> SUFFICES ASSUME TypeOK, QueueInv, [Next]_vars PROVE TypeOK'
    OBVIOUS
  <1>0. QueueTypeOK'
    BY JobsQueueStep DEF QueueInv
  <1>00. \A j \in Jobs, n \in RunNumbers, step \in Steps : Goto(j, n, step) => pc' \in RunType
    BY GotoMoves DEF TypeOK, RunType
  <1> USE <1>0, <1>00, BumpCounts DEF TypeOK, RunType
  <1>1. ASSUME NEW j \in Jobs, Start(j) PROVE TypeOK'
    <2>1. started[j] + 1 \in RunNumbers /\ made[j] \in 0 .. Attempts - 1
      BY <1>1, NextRunNumber DEF Start, Take, Move
    <2>2. pc' \in RunType
      BY <1>1, <2>1 DEF Start, Steps
    <2>3. madeAt' \in [Jobs -> [RunNumbers -> 0 .. Attempts - 1]]
      BY <1>1, <2>1 DEF Start
    <2> QED
      BY <1>1, <2>2, <2>3 DEF Start, effects
  <1>2. ASSUME NEW j \in Jobs, Enqueue(j) \/ BackoffEnds(j) \/ JobStalls(j) PROVE TypeOK'
    BY <1>2 DEF Enqueue, BackoffEnds, JobStalls, worker, effects
  <1>3. ASSUME NEW j \in Jobs, NEW n \in RunNumbers, process(j, n) PROVE TypeOK'
    <2>1. CASE ProviderAnswers(j, n) \/ ProviderFails(j, n)
      BY <2>1 DEF ProviderAnswers, ProviderFails, Catch, effects, Steps
    <2>2. CASE Log(j, n)
      BY <2>2 DEF Log, Steps
    <2>3. CASE LogFails(j, n)
      <3>1. pc' \in RunType
        BY <2>3 DEF LogFails, Catch, Steps
      <3>2. metered' \in [Jobs -> Nat]
        <4>1. metered' = metered \/ metered' = Bump(metered, j)
          BY <2>3 DEF LogFails
        <4> QED
          BY <4>1
      <3>3. doubtful' \in [Jobs -> BOOLEAN]
        BY <2>3 DEF LogFails
      <3> QED
        BY <2>3, <3>1, <3>2, <3>3 DEF LogFails
    <2>4. CASE DispatchCompleted(j, n)
      BY <2>4 DEF DispatchCompleted, Steps
    <2>5. CASE DispatchFailed(j, n)
      BY <2>5 DEF DispatchFailed, Steps
    <2>6. CASE Return(j, n)
      <3>1. pc' \in RunType
        BY <2>6 DEF Return, Steps
      <3>2. returnvalue' \in [Jobs -> BOOLEAN]
        BY <2>6 DEF Return
      <3> QED
        BY <2>6, <3>1, <3>2 DEF Return, effects
    <2>7. CASE Throw(j, n)
      BY <2>7 DEF Throw, effects, Steps
    <2> QED
      BY <1>3, <2>1, <2>2, <2>3, <2>4, <2>5, <2>6, <2>7 DEF process
  <1>4. ASSUME NEW j \in Jobs, NEW n \in RunNumbers, Die(j, n) PROVE TypeOK'
    BY <1>4 DEF Die, effects, Steps
  <1>5. ASSUME NEW p \in Polls, NEW j \in Jobs, PollReads(p, j) PROVE TypeOK'
    BY <1>5 DEF PollReads, worker, effects, States
  <1>6. ASSUME NEW p \in Polls, PollAnswers(p) PROVE TypeOK'
    <2>1. state[poll[p].job] \in States
      BY <1>6 DEF PollAnswers, QueueTypeOK
    <2>2. poll[p] \in Polling /\ poll[p].job \in Jobs
      BY <1>6 DEF PollAnswers, Polling
    <2>3. [poll[p] EXCEPT !.step = "answered", !.answer = state[poll[p].job]] \in Polling
      BY <2>1, <2>2 DEF Polling
    <2>4. poll' \in [Polls -> Polling]
      BY <1>6, <2>3 DEF PollAnswers, Polling
    <2>5. \A q \in Polls : poll'[q].step # "new" => poll'[q].job \in Jobs
      BY <1>6, <2>2 DEF PollAnswers, Polling
    <2>6. UNCHANGED <<pc, madeAt, metered, completedEvents, failedEvents, doubtful, returnvalue>>
      BY <1>6 DEF PollAnswers, worker, effects
    <2> QED
      BY <2>4, <2>5, <2>6 DEF Polling
  <1>7. CASE UNCHANGED vars
    BY <1>7 DEF vars, worker, effects
  <1> QED
    BY <1>1, <1>2, <1>3, <1>4, <1>5, <1>6, <1>7 DEF Next

\* The variables keep their types and no job is run more often than its attempts
\* and stalls allow.
THEOREM JobsTypeCorrect == Spec => [](TypeOK /\ RunsAccounted)
  <1>1. Init => TypeOK /\ QueueInv
    BY JobsTypeInit, QueueInvInit DEF Init
  <1>2. TypeOK /\ QueueInv /\ [Next]_vars => TypeOK' /\ QueueInv'
    BY JobsTypeStep, JobsQueueStep
  <1>3. QueueInv => RunsAccounted
    BY DEF QueueInv
  <1> QED
    BY <1>1, <1>2, <1>3, PTL DEF Spec

-----------------------------------------------------------------------------
(* The invariant.                                                          *)

\* A run in process() has been taken, and only moves itself.
LEMMA RunMoves ==
  ASSUME TypeOK, NEW j \in Jobs, NEW n \in RunNumbers, process(j, n) \/ Die(j, n)
  PROVE  /\ pc[j][n] \in Running
         /\ madeAt' = madeAt
         /\ \A i \in Jobs : \A m \in RunNumbers :
              ~(i = j /\ m = n) => pc'[i][m] = pc[i][m]
  <1>1. pc \in RunType
    BY DEF TypeOK, RunType
  <1>2. pc[j][n] \in Running /\ madeAt' = madeAt /\ \E step \in Steps : Goto(j, n, step)
    BY DEF process, Die, ProviderAnswers, ProviderFails, Log, LogFails, DispatchCompleted,
           DispatchFailed, Return, Throw, Catch, Running, Steps
  <1> QED
    BY <1>1, <1>2, GotoMoves

\* A new run stands at the start and saw the attemptsMade of the queue.
LEMMA StartBegins ==
  ASSUME TypeOK, QueueInv, NEW j \in Jobs, Start(j)
  PROVE  /\ started[j] + 1 \in RunNumbers
         /\ madeAt'[j][started[j] + 1] = made[j]
         /\ \A i \in Jobs : \A m \in RunNumbers :
              IF i = j /\ m = started[j] + 1
                THEN pc'[i][m] = "provide"
                ELSE pc'[i][m] = pc[i][m] /\ madeAt'[i][m] = madeAt[i][m]
  <1>1. started[j] + 1 \in RunNumbers
    BY NextRunNumber DEF Start, Take, Move
  <1>2. pc \in RunType /\ "provide" \in Steps /\ Goto(j, started[j] + 1, "provide")
    BY DEF TypeOK, RunType, Start, Steps
  <1>3. \A i \in Jobs : \A m \in RunNumbers :
          pc'[i][m] = IF i = j /\ m = started[j] + 1 THEN "provide" ELSE pc[i][m]
    BY <1>1, <1>2, GotoMoves
  <1>4. madeAt' = [madeAt EXCEPT ![j][started[j] + 1] = made[j]]
    BY DEF Start
  <1> QED
    BY <1>1, <1>3, <1>4 DEF TypeOK

LEMMA LockStep == TypeOK /\ QueueInv /\ LockInv /\ [Next]_vars => LockInv'
  <1> SUFFICES ASSUME TypeOK, QueueInv, LockInv, [Next]_vars PROVE LockInv'
    OBVIOUS
  <1> USE DEF LockInv, HoldsLock, QueueInv, QueueTypeOK, RunNumbers
  <1>1. ASSUME NEW j \in Jobs, Start(j) PROVE LockInv'
    <2> DEFINE new == started[j] + 1
    <2>1. /\ made' = made
          /\ \A i \in Jobs : started'[i] = IF i = j THEN new ELSE started[i]
          /\ \A i \in Jobs : i # j => state'[i] = state[i]
      BY <1>1 DEF Start, Take, Move
    <2>2. /\ madeAt'[j][new] = made[j]
          /\ \A i \in Jobs : \A m \in RunNumbers :
               ~(i = j /\ m = new) => pc'[i][m] = pc[i][m] /\ madeAt'[i][m] = madeAt[i][m]
      BY <1>1, StartBegins
    <2>3. \A m \in RunNumbers : m > new => m > started[j] /\ m # new
      OBVIOUS
    <2> QED
      BY <2>1, <2>2, <2>3
  <1>2. ASSUME NEW j \in Jobs, Enqueue(j) \/ BackoffEnds(j) \/ JobStalls(j) PROVE LockInv'
    <2>1. UNCHANGED <<pc, madeAt, started>>
      BY <1>2 DEF Enqueue, BackoffEnds, JobStalls, Add, Promote, Stall, worker
    <2>2. \A i \in Jobs : state'[i] = "active" => state[i] = "active" /\ made'[i] = made[i]
      BY <1>2 DEF Enqueue, BackoffEnds, JobStalls, Add, Promote, Stall, Move
    <2> QED
      BY <2>1, <2>2
  <1>3. ASSUME NEW j \in Jobs, NEW n \in RunNumbers, process(j, n) \/ Die(j, n)
        PROVE  LockInv'
    <2>1. started' = started
      BY <1>3 DEF process, Die, ProviderAnswers, ProviderFails, Log, LogFails, queue,
                  DispatchCompleted, DispatchFailed, Return, Throw, Complete, Fail
    <2>2. \A i \in Jobs : state'[i] = "active" => state[i] = "active" /\ made'[i] = made[i]
      BY <1>3 DEF process, Die, ProviderAnswers, ProviderFails, Log, LogFails, queue,
                  DispatchCompleted, DispatchFailed, Return, Throw, Complete, Fail, Move
    <2>3. n <= started[j]
      BY <1>3, RunMoves DEF Running
    <2> QED
      BY <1>3, <2>1, <2>2, <2>3, RunMoves
  <1>4. ASSUME NEW p \in Polls, PollAnswers(p) \/ \E j \in Jobs : PollReads(p, j)
        PROVE  LockInv'
    BY <1>4 DEF PollAnswers, PollReads, queue, worker
  <1>5. CASE UNCHANGED vars
    BY <1>5 DEF vars, queue, worker
  <1> QED
    BY <1>1, <1>2, <1>3, <1>4, <1>5 DEF Next

\* What a step can do to a settled job and to the history of any job: nothing,
\* and only add to it.
LEMMA NothingIsUndone ==
  ASSUME TypeOK, [Next]_vars, NEW i \in Jobs
  PROVE  /\ metered'[i] >= metered[i]
         /\ completedEvents'[i] >= completedEvents[i]
         /\ failedEvents'[i] >= failedEvents[i]
         /\ returnvalue[i] => returnvalue'[i]
         /\ Settled(i) => UNCHANGED <<state[i], stalls[i]>>
  <1> DEFINE Kept == /\ UNCHANGED <<metered, completedEvents, failedEvents>>
                     /\ returnvalue[i] => returnvalue'[i]
             Queue == Settled(i) => UNCHANGED <<state[i], stalls[i]>>
             Grown(f) == f' = f \/ \E j \in Jobs : f' = Bump(f, j)
  <1> USE DEF effects, queue, Settled
  <1>1. ASSUME NEW j \in Jobs, Enqueue(j) \/ Start(j) \/ BackoffEnds(j) \/ JobStalls(j)
        PROVE  Kept /\ Queue
    BY <1>1 DEF Enqueue, Start, BackoffEnds, JobStalls, Add, Take, Promote, Stall,
                TypeOK, QueueTypeOK, Move
  <1>2. ASSUME NEW j \in Jobs, NEW n \in RunNumbers, Return(j, n) \/ Throw(j, n)
        PROVE  Kept /\ Queue
    BY <1>2 DEF Return, Throw, Complete, Fail, HoldsLock, TypeOK, QueueTypeOK, Move
  <1>3. ASSUME NEW j \in Jobs, NEW n \in RunNumbers,
               ProviderAnswers(j, n) \/ ProviderFails(j, n) \/ Die(j, n)
        PROVE  Kept /\ Queue
    BY <1>3 DEF ProviderAnswers, ProviderFails, Die
  <1>4. ASSUME NEW j \in Jobs, NEW n \in RunNumbers,
               Log(j, n) \/ LogFails(j, n) \/ DispatchCompleted(j, n) \/ DispatchFailed(j, n)
        PROVE  /\ UNCHANGED <<queue, returnvalue>>
               /\ Grown(metered) /\ Grown(completedEvents) /\ Grown(failedEvents)
    BY <1>4 DEF Log, LogFails, DispatchCompleted, DispatchFailed
  <1>5. ASSUME NEW p \in Polls, PollAnswers(p) \/ \E j \in Jobs : PollReads(p, j)
        PROVE  Kept /\ Queue
    BY <1>5 DEF PollAnswers, PollReads
  <1>6. UNCHANGED vars => Kept /\ Queue
    BY DEF vars
  <1> DEFINE Added == /\ UNCHANGED <<queue, returnvalue>>
                      /\ Grown(metered) /\ Grown(completedEvents) /\ Grown(failedEvents)
  <1> HIDE DEF Kept, Queue, Added
  <1>7. (Kept /\ Queue) \/ Added
    BY <1>1, <1>2, <1>3, <1>4, <1>5, <1>6 DEF Next, process, Added
  <1> USE DEF Kept, Queue, Added
  <1>8. ASSUME NEW f \in [Jobs -> Nat], NEW g, g = f \/ \E j \in Jobs : g = Bump(f, j)
        PROVE  g[i] >= f[i]
    BY <1>8, BumpCounts
  <1>9. /\ metered'[i] >= metered[i]
        /\ completedEvents'[i] >= completedEvents[i]
        /\ failedEvents'[i] >= failedEvents[i]
    BY <1>7, <1>8 DEF TypeOK
  <1> QED
    BY <1>7, <1>9

LEMMA ProgressStep == TypeOK /\ QueueInv /\ ProgressInv /\ [Next]_vars => ProgressInv'
  <1> SUFFICES ASSUME TypeOK, QueueInv, ProgressInv, [Next]_vars PROVE ProgressInv'
    OBVIOUS
  <1>0. \A i \in Jobs : /\ metered'[i] >= metered[i]
                        /\ completedEvents'[i] >= completedEvents[i]
                        /\ failedEvents'[i] >= failedEvents[i]
    BY NothingIsUndone
  <1>00. /\ metered \in [Jobs -> Nat] /\ completedEvents \in [Jobs -> Nat]
         /\ failedEvents \in [Jobs -> Nat] /\ pc \in RunType
         /\ metered' \in [Jobs -> Nat] /\ completedEvents' \in [Jobs -> Nat]
         /\ failedEvents' \in [Jobs -> Nat]
    BY JobsTypeStep DEF TypeOK, RunType
  <1> USE <1>0, <1>00 DEF ProgressInv, IsFinalAttempt
  \* A step that moves no run into one of the three places.
  <1>1. ASSUME \A i \in Jobs : \A m \in RunNumbers :
                 \/ pc'[i][m] = pc[i][m] /\ madeAt'[i][m] = madeAt[i][m]
                 \/ pc'[i][m] \in Steps \ {"announce", "return", "throw"}
        PROVE  ProgressInv'
    BY <1>1
  <1>2. ASSUME NEW j \in Jobs, Start(j) PROVE ProgressInv'
    <2>1. "provide" \in Steps \ {"announce", "return", "throw"}
      BY DEF Steps
    <2> QED
      BY <1>1, <1>2, <2>1, StartBegins
  <1>3. ASSUME NEW j \in Jobs, NEW n \in RunNumbers, process(j, n) \/ Die(j, n)
        PROVE  ProgressInv'
    <2>1. madeAt' = madeAt /\ \A i \in Jobs : \A m \in RunNumbers :
            ~(i = j /\ m = n) => pc'[i][m] = pc[i][m]
      BY <1>3, RunMoves
    <2>2. /\ pc'[j][n] \in {"announce", "return"} => metered'[j] > 0
          /\ pc'[j][n] = "return" => completedEvents'[j] > 0
          /\ pc'[j][n] = "throw" /\ IsFinalAttempt(j, n) => failedEvents'[j] > 0
      <3>1. \A step \in Steps : Goto(j, n, step) => pc'[j][n] = step
        BY GotoMoves
      <3> USE <3>1, BumpCounts DEF Steps
      <3>2. CASE ProviderAnswers(j, n) \/ ProviderFails(j, n)
        BY <3>2 DEF ProviderAnswers, ProviderFails, Catch
      <3>3. CASE Log(j, n)
        BY <3>3 DEF Log
      <3>4. CASE LogFails(j, n)
        BY <3>4 DEF LogFails, Catch
      <3>5. CASE DispatchCompleted(j, n)
        BY <3>5 DEF DispatchCompleted
      <3>6. CASE DispatchFailed(j, n)
        BY <3>6 DEF DispatchFailed
      <3>7. CASE Return(j, n) \/ Throw(j, n) \/ Die(j, n)
        BY <3>7 DEF Return, Throw, Die
      <3> QED
        BY <1>3, <3>2, <3>3, <3>4, <3>5, <3>6, <3>7 DEF process
    <2> QED
      BY <2>1, <2>2
  <1>4. CASE UNCHANGED <<pc, madeAt>>
    BY <1>1, <1>4
  <1> QED
    BY <1>2, <1>3, <1>4 DEF Next, Enqueue, BackoffEnds, JobStalls, PollAnswers, PollReads,
                            vars, worker

\* Which step ends a job: the return of the run with the lock completes it, the
\* error of its last attempt fails it, and so does one stall too many.
LEMMA HowJobsEnd ==
  ASSUME TypeOK, QueueInv, LockInv, ProgressInv, [Next]_vars, NEW i \in Jobs, ~Settled(i)
  PROVE  /\ state'[i] = "completed" =>
              metered[i] > 0 /\ completedEvents[i] > 0 /\ returnvalue'[i]
         /\ state'[i] = "failed" => failedEvents[i] > 0 \/ stalls'[i] > MaxStalled
         /\ returnvalue'[i] => returnvalue[i] \/ state'[i] = "completed"
  <1> DEFINE Goal == /\ state'[i] = "completed" =>
                          metered[i] > 0 /\ completedEvents[i] > 0 /\ returnvalue'[i]
                     /\ state'[i] = "failed" => failedEvents[i] > 0 \/ stalls'[i] > MaxStalled
                     /\ returnvalue'[i] => returnvalue[i] \/ state'[i] = "completed"
  <1>0. state \in [Jobs -> States] /\ returnvalue \in [Jobs -> BOOLEAN]
    BY DEF TypeOK, QueueTypeOK
  <1> USE <1>0 DEF Settled, Move
  <1>1. ASSUME NEW j \in Jobs, Enqueue(j) \/ Start(j) \/ BackoffEnds(j) PROVE Goal
    BY <1>1 DEF Enqueue, Start, BackoffEnds, Add, Take, Promote
  <1>2. ASSUME NEW j \in Jobs, JobStalls(j) PROVE Goal
    <2>1. returnvalue' = returnvalue /\ state'[i] # "completed"
      BY <1>2 DEF JobStalls, Stall
    <2>2. state'[i] = "failed" => stalls'[i] > MaxStalled
      <3>1. j # i => state'[i] = state[i]
        BY <1>2 DEF JobStalls, Stall
      <3>2. CASE j = i
        BY <1>2, <3>2, QueueAssumption DEF JobStalls, Stall, StalledOut, TypeOK, QueueTypeOK
      <3> QED
        BY <3>1, <3>2
    <2> QED
      BY <2>1, <2>2
  <1>3. ASSUME NEW j \in Jobs, NEW n \in RunNumbers, Return(j, n) PROVE Goal
    <2>1. CASE i = j /\ HoldsLock(j, n)
      <3>1. metered[i] > 0 /\ completedEvents[i] > 0
        BY <1>3, <2>1 DEF Return, ProgressInv
      <3>2. state'[i] = "completed" /\ returnvalue'[i]
        BY <1>3, <2>1 DEF Return, Complete
      <3> QED
        BY <3>1, <3>2
    <2>2. CASE ~(i = j /\ HoldsLock(j, n))
      BY <1>3, <2>2 DEF Return, Complete, queue
    <2> QED
      BY <2>1, <2>2
  <1>4. ASSUME NEW j \in Jobs, NEW n \in RunNumbers, Throw(j, n) PROVE Goal
    <2>1. returnvalue' = returnvalue /\ state'[i] # "completed"
      BY <1>4 DEF Throw, Fail, queue
    <2>2. state'[i] = "failed" => failedEvents[i] > 0
      <3>1. CASE i = j /\ HoldsLock(j, n)
        <4>1. pc[j][n] = "throw" /\ madeAt[j][n] = made[j]
          BY <1>4, <3>1 DEF Throw, LockInv
        <4>2. state'[i] = "failed" => ~(made[i] + 1 < Attempts)
          BY <1>4, <3>1 DEF Throw, Fail
        <4> QED
          BY <3>1, <4>1, <4>2, QueueAssumption
          DEF ProgressInv, IsFinalAttempt, TypeOK, QueueTypeOK
      <3>2. CASE ~(i = j /\ HoldsLock(j, n))
        BY <1>4, <3>2 DEF Throw, Fail, queue
      <3> QED
        BY <3>1, <3>2
    <2> QED
      BY <2>1, <2>2
  <1>5. ASSUME NEW j \in Jobs, NEW n \in RunNumbers,
               ProviderAnswers(j, n) \/ ProviderFails(j, n) \/ Log(j, n) \/ LogFails(j, n)
                 \/ DispatchCompleted(j, n) \/ DispatchFailed(j, n) \/ Die(j, n)
        PROVE  UNCHANGED <<queue, returnvalue>>
    BY <1>5 DEF ProviderAnswers, ProviderFails, Log, LogFails, DispatchCompleted,
                DispatchFailed, Die
  <1>6. ASSUME NEW p \in Polls, PollAnswers(p) \/ \E j \in Jobs : PollReads(p, j)
        PROVE  UNCHANGED <<queue, returnvalue>>
    BY <1>6 DEF PollAnswers, PollReads
  <1>7. UNCHANGED vars => UNCHANGED <<queue, returnvalue>>
    BY DEF vars
  <1>8. UNCHANGED <<queue, returnvalue>> => Goal
    BY DEF queue
  <1> HIDE DEF Goal
  <1>9. Goal
    BY <1>1, <1>2, <1>3, <1>4, <1>5, <1>6, <1>7, <1>8 DEF Next, process
  <1> QED
    BY <1>9 DEF Goal

\* A result is stored by the step that completes its job, and by no other.
LEMMA ResultsComeWithCompletion ==
  ASSUME TypeOK, [Next]_vars, NEW i \in Jobs, Settled(i)
  PROVE  returnvalue'[i] = returnvalue[i]
  <1>1. ASSUME NEW j \in Jobs, NEW n \in RunNumbers, Return(j, n)
        PROVE  returnvalue'[i] = returnvalue[i]
    BY <1>1 DEF Return, HoldsLock, Settled, TypeOK
  <1>2. CASE returnvalue' = returnvalue
    BY <1>2
  <1> QED
    BY <1>1, <1>2 DEF Next, process, Enqueue, Start, BackoffEnds, JobStalls, vars,
       ProviderAnswers, ProviderFails, Log, LogFails, DispatchCompleted, DispatchFailed,
       Throw, Die, PollReads, PollAnswers

LEMMA EndsStep ==
  TypeOK /\ QueueInv /\ LockInv /\ ProgressInv /\ EndsInv /\ [Next]_vars => EndsInv'
  <1> SUFFICES ASSUME TypeOK, QueueInv, LockInv, ProgressInv, EndsInv, [Next]_vars,
                      NEW i \in Jobs
               PROVE  /\ state'[i] = "completed" =>
                           metered'[i] > 0 /\ completedEvents'[i] > 0 /\ returnvalue'[i]
                      /\ state'[i] = "failed" /\ stalls'[i] <= MaxStalled => failedEvents'[i] > 0
                      /\ returnvalue'[i] => state'[i] = "completed"
    BY DEF EndsInv, CompletedMeansMeteredAndAnnounced, FailureIsAnnounced
  <1>1. /\ metered'[i] >= metered[i] /\ metered[i] \in Nat /\ metered'[i] \in Nat
        /\ completedEvents'[i] >= completedEvents[i]
        /\ completedEvents[i] \in Nat /\ completedEvents'[i] \in Nat
        /\ failedEvents'[i] >= failedEvents[i]
        /\ failedEvents[i] \in Nat /\ failedEvents'[i] \in Nat
        /\ stalls'[i] \in Nat
    BY NothingIsUndone, JobsTypeStep DEF TypeOK, QueueTypeOK
  <1>2. CASE Settled(i)
    <2>1. state'[i] = state[i] /\ stalls'[i] = stalls[i] /\ (returnvalue[i] => returnvalue'[i])
      BY <1>2, NothingIsUndone
    <2>2. returnvalue'[i] => state[i] = "completed"
      BY <1>2, ResultsComeWithCompletion DEF EndsInv, Settled
    <2> QED
      BY <1>1, <2>1, <2>2
      DEF EndsInv, CompletedMeansMeteredAndAnnounced, FailureIsAnnounced
  <1>3. CASE ~Settled(i)
    <2>1. ~returnvalue[i]
      BY <1>3 DEF EndsInv, Settled
    <2> QED
      BY <1>1, <1>3, <2>1, HowJobsEnd, QueueAssumption
  <1> QED
    BY <1>2, <1>3

\* A poll's snapshot of a completed job stays right.
LEMMA SnapshotStep ==
  TypeOK /\ EndsInv /\ SnapshotInv /\ ResultOnlyWhenCompleted /\ [Next]_vars
    => SnapshotInv' /\ ResultOnlyWhenCompleted'
  <1> SUFFICES ASSUME TypeOK, EndsInv, SnapshotInv, ResultOnlyWhenCompleted, [Next]_vars
               PROVE  SnapshotInv' /\ ResultOnlyWhenCompleted'
    OBVIOUS
  <1> USE DEF SnapshotInv, ResultOnlyWhenCompleted
  <1>0. \A i \in Jobs : state[i] = "completed" => state'[i] = "completed"
    BY NothingIsUndone DEF Settled
  <1>1. ASSUME NEW p \in Polls, NEW j \in Jobs, PollReads(p, j)
        PROVE  SnapshotInv' /\ ResultOnlyWhenCompleted'
    BY <1>0, <1>1 DEF PollReads, EndsInv, TypeOK
  <1>2. ASSUME NEW p \in Polls, PollAnswers(p)
        PROVE  SnapshotInv' /\ ResultOnlyWhenCompleted'
    BY <1>0, <1>2 DEF PollAnswers, TypeOK
  <1>3. CASE UNCHANGED poll
    BY <1>0, <1>3 DEF TypeOK
  <1> QED
    BY <1>1, <1>2, <1>3 DEF Next, process, Enqueue, Start, BackoffEnds, JobStalls, vars,
       ProviderAnswers, ProviderFails, Log, LogFails, DispatchCompleted, DispatchFailed,
       Return, Throw, Die

LEMMA JobsInvariant == Spec => []IInv
  <1>1. Init => IInv
    <2> SUFFICES ASSUME Init PROVE IInv
      OBVIOUS
    <2>1. TypeOK /\ QueueInv
      BY JobsTypeInit, QueueInvInit DEF Init
    <2>2. \A j \in Jobs : state[j] = "none" /\ ~returnvalue[j]
      BY DEF Init, QueueInit
    <2>3. \A j \in Jobs : \A n \in RunNumbers : pc[j][n] = "idle"
      BY DEF Init
    <2>4. \A p \in Polls : poll[p].step = "new"
      BY DEF Init, NoPoll
    <2> QED
      BY <2>1, <2>2, <2>3, <2>4
      DEF IInv, LockInv, HoldsLock, ProgressInv, EndsInv, SnapshotInv, ResultOnlyWhenCompleted,
          CompletedMeansMeteredAndAnnounced, FailureIsAnnounced
  <1>2. IInv /\ [Next]_vars => IInv'
    BY JobsTypeStep, JobsQueueStep, LockStep, ProgressStep, EndsStep, SnapshotStep DEF IInv
  <1> QED
    BY <1>1, <1>2, PTL DEF Spec

\* A job is only ever completed after its usage was committed and job.completed
\* was dispatched, and with its result, however runs of the job overlap.
THEOREM CompletionIsAccounted == Spec => []CompletedMeansMeteredAndAnnounced
  <1>1. IInv => CompletedMeansMeteredAndAnnounced
    BY DEF IInv, EndsInv
  <1> QED
    BY <1>1, JobsInvariant, PTL

\* A job that the queue fails for its errors was announced with job.failed: the
\* worker's own count of attempts (completion.worker.ts, isFinalAttempt) agrees
\* with the queue's.
THEOREM FailureIsHeard == Spec => []FailureIsAnnounced
  <1>1. IInv => FailureIsAnnounced
    BY DEF IInv, EndsInv
  <1> QED
    BY <1>1, JobsInvariant, PTL

\* getJobStatus never answers a result with another state than completed, though
\* it reads the two at different moments.
THEOREM AnswersAgree == Spec => []ResultOnlyWhenCompleted
  <1>1. IInv => ResultOnlyWhenCompleted
    BY DEF IInv
  <1> QED
    BY <1>1, JobsInvariant, PTL

-----------------------------------------------------------------------------
(* The contract.                                                           *)

\* A poll that has read a job knows one that was added, and so does a run.
AddedInv ==
  /\ \A p \in Polls : poll[p].step # "new" => state[poll[p].job] # "none"
  /\ \A j \in Jobs : \A n \in RunNumbers : pc[j][n] # "idle" => state[j] # "none"

LEMMA AddedStep == IInv /\ AddedInv /\ [Next]_vars => AddedInv'
  <1> SUFFICES ASSUME IInv, AddedInv, [Next]_vars PROVE AddedInv'
    OBVIOUS
  <1> USE DEF AddedInv
  <1>0. TypeOK /\ QueueInv /\ LockInv
    BY DEF IInv
  <1>1. \A i \in Jobs : state[i] # "none" => state'[i] # "none"
    <2> USE <1>0 DEF TypeOK, QueueTypeOK, Move
    <2>1. ASSUME NEW j \in Jobs, Enqueue(j) \/ Start(j) \/ BackoffEnds(j) \/ JobStalls(j)
          PROVE  \A i \in Jobs : state[i] # "none" => state'[i] # "none"
      BY <2>1 DEF Enqueue, Start, BackoffEnds, JobStalls, Add, Take, Promote, Stall
    <2>2. ASSUME NEW j \in Jobs, NEW n \in RunNumbers, process(j, n) \/ Die(j, n)
          PROVE  \A i \in Jobs : state[i] # "none" => state'[i] # "none"
      BY <2>2 DEF process, ProviderAnswers, ProviderFails, Log, LogFails, DispatchCompleted,
                  DispatchFailed, Return, Throw, Die, Complete, Fail, queue
    <2>3. ASSUME NEW p \in Polls, PollAnswers(p) \/ \E j \in Jobs : PollReads(p, j)
          PROVE  \A i \in Jobs : state[i] # "none" => state'[i] # "none"
      BY <2>3 DEF PollAnswers, PollReads, queue
    <2>4. CASE UNCHANGED vars
      BY <2>4 DEF vars, queue
    <2> QED
      BY <2>1, <2>2, <2>3, <2>4 DEF Next
  <1>2. ASSUME NEW j \in Jobs, Start(j) PROVE AddedInv'
    <2>1. poll' = poll
      BY <1>2 DEF Start
    <2>2. state[j] # "none"
      BY <1>2 DEF Start, Take, Move
    <2>3. \A i \in Jobs : \A m \in RunNumbers :
            pc'[i][m] # "idle" => pc[i][m] # "idle" \/ i = j
      BY <1>0, <1>2, StartBegins
    <2>4. \A q \in Polls : poll[q].step # "new" => poll[q].job \in Jobs
      BY <1>0 DEF TypeOK
    <2> QED
      BY <1>1, <2>1, <2>2, <2>3, <2>4
  <1>3. ASSUME NEW j \in Jobs, NEW n \in RunNumbers, process(j, n) \/ Die(j, n)
        PROVE  AddedInv'
    <2>1. poll' = poll
      BY <1>3 DEF process, ProviderAnswers, ProviderFails, Log, LogFails, DispatchCompleted,
                  DispatchFailed, Return, Throw, Die
    <2>2. pc[j][n] # "idle"
      BY <1>0, <1>3, RunMoves DEF Running
    <2>3. \A i \in Jobs : \A m \in RunNumbers :
            pc'[i][m] # "idle" => pc[i][m] # "idle" \/ i = j
      BY <1>0, <1>3, RunMoves
    <2>4. \A q \in Polls : poll[q].step # "new" => poll[q].job \in Jobs
      BY <1>0 DEF TypeOK
    <2>5. state[j] # "none"
      BY <2>2
    <2> QED
      BY <1>1, <2>1, <2>3, <2>4, <2>5
  <1>4. ASSUME NEW p \in Polls, PollAnswers(p) \/ \E j \in Jobs : PollReads(p, j)
        PROVE  AddedInv'
    <2>1. \A q \in Polls : /\ poll[q].step # "new" => poll[q].job \in Jobs
                           /\ poll[q].step \in {"new", "read", "answered"}
      BY <1>0 DEF TypeOK
    <2>2. \A q \in Polls : poll'[q].step # "new" =>
            poll'[q].job \in Jobs /\ state[poll'[q].job] # "none"
      <3>1. CASE PollAnswers(p)
        BY <1>0, <2>1, <3>1 DEF PollAnswers, TypeOK
      <3>2. ASSUME NEW j \in Jobs, PollReads(p, j)
            PROVE  \A q \in Polls : poll'[q].step # "new" =>
                     poll'[q].job \in Jobs /\ state[poll'[q].job] # "none"
        BY <1>0, <2>1, <3>2 DEF PollReads, TypeOK
      <3> QED
        BY <1>4, <3>1, <3>2
    <2>3. UNCHANGED <<pc, state>>
      BY <1>4 DEF PollAnswers, PollReads, worker, queue
    <2> QED
      BY <2>2, <2>3
  <1>5. ASSUME NEW j \in Jobs, Enqueue(j) \/ BackoffEnds(j) \/ JobStalls(j)
        PROVE  AddedInv'
    BY <1>0, <1>1, <1>5 DEF Enqueue, BackoffEnds, JobStalls, TypeOK, worker
  <1>6. CASE UNCHANGED vars
    BY <1>0, <1>1, <1>6 DEF TypeOK, vars, worker
  <1> QED
    BY <1>2, <1>3, <1>4, <1>5, <1>6 DEF Next

\* What the contract sees of a step: the queue, the history and the polls.
LEMMA ContractSees ==
  ASSUME UNCHANGED <<metered, completedEvents, failedEvents, poll>>,
         \A i \in Jobs : outcome'[i] = outcome[i]
  PROVE  UNCHANGED <<outcome, charged, told, answers>>
  BY DEF outcome, charged, told, answers

LEMMA ContractStep ==
  IInv /\ AddedInv /\ [Next]_vars => [Contract!Next]_(Contract!vars)
  <1> SUFFICES ASSUME IInv, AddedInv, [Next]_vars
               PROVE  Contract!Next \/ UNCHANGED <<outcome, charged, told, answers>>
    BY DEF Contract!vars
  <1>0. /\ TypeOK /\ QueueInv /\ LockInv /\ ProgressInv /\ EndsInv /\ SnapshotInv
        /\ state \in [Jobs -> States] /\ stalls \in [Jobs -> Nat]
    BY DEF IInv, TypeOK, QueueTypeOK
  <1>00. UNCHANGED queue => \A i \in Jobs : outcome'[i] = outcome[i]
    BY DEF queue, outcome
  <1>000. UNCHANGED poll => UNCHANGED answers
    BY DEF answers
  <1> USE <1>0
  <1>1. ASSUME NEW j \in Jobs, Enqueue(j) PROVE Contract!Accept(j)
    <2>1. state[j] = "none" /\ state' = [state EXCEPT ![j] = "waiting"] /\ stalls' = stalls
      BY <1>1 DEF Enqueue, Add, Move
    <2>2. outcome[j] = "none" /\ outcome' = [outcome EXCEPT ![j] = "accepted"]
      BY <2>1 DEF outcome
    <2>3. UNCHANGED <<charged, told, answers>>
      BY <1>1 DEF Enqueue, effects, charged, told, answers
    <2> QED
      BY <2>2, <2>3 DEF Contract!Accept
  <1>2. ASSUME NEW j \in Jobs, Start(j) \/ BackoffEnds(j)
        PROVE  UNCHANGED <<outcome, charged, told, answers>>
    <2>1. \A i \in Jobs : outcome'[i] = outcome[i]
      BY <1>2 DEF Start, BackoffEnds, Take, Promote, Move, outcome
    <2> QED
      BY <1>2, <2>1, ContractSees DEF Start, BackoffEnds, effects
  <1>3. ASSUME NEW j \in Jobs, JobStalls(j)
        PROVE  Contract!Abandon(j) \/ UNCHANGED <<outcome, charged, told, answers>>
    <2>1. UNCHANGED <<metered, completedEvents, failedEvents, poll>>
      BY <1>3 DEF JobStalls, effects
    <2>2. /\ state[j] = "active" /\ stalls' = [stalls EXCEPT ![j] = @ + 1]
          /\ \/ state' = [state EXCEPT ![j] = "waiting"]
             \/ state' = [state EXCEPT ![j] = "failed"] /\ stalls[j] >= MaxStalled
      BY <1>3 DEF JobStalls, Stall, StalledOut, Move
    <2>3. CASE state' = [state EXCEPT ![j] = "waiting"]
      <3>1. \A i \in Jobs : outcome'[i] = outcome[i]
        BY <2>2, <2>3 DEF outcome
      <3> QED
        BY <2>1, <3>1, ContractSees
    <2>4. CASE state' = [state EXCEPT ![j] = "failed"] /\ stalls[j] >= MaxStalled
      <3>1. stalls'[j] > MaxStalled
        BY <2>2, <2>4, QueueAssumption
      <3>2. outcome[j] = "accepted" /\ outcome' = [outcome EXCEPT ![j] = "abandoned"]
        BY <2>2, <2>4, <3>1 DEF outcome
      <3>3. UNCHANGED <<charged, told, answers>>
        BY <2>1 DEF charged, told, answers
      <3> QED
        BY <3>2, <3>3 DEF Contract!Abandon, Contract!Settle
    <2> QED
      BY <2>2, <2>3, <2>4
  <1>4. ASSUME NEW j \in Jobs, NEW n \in RunNumbers, process(j, n) \/ Die(j, n)
        PROVE  Contract!Next \/ UNCHANGED <<outcome, charged, told, answers>>
    <2>0. outcome[j] # "none" /\ UNCHANGED answers
      <3>1. state[j] # "none"
        BY <1>4, RunMoves DEF AddedInv, Running
      <3>2. UNCHANGED poll
        BY <1>4 DEF process, ProviderAnswers, ProviderFails, Log, LogFails, DispatchCompleted,
                    DispatchFailed, Return, Throw, Die
      <3> QED
        BY <1>000, <3>1, <3>2 DEF outcome
    <2>1. CASE ProviderAnswers(j, n) \/ ProviderFails(j, n) \/ Die(j, n)
      BY <1>00, <2>1, ContractSees DEF ProviderAnswers, ProviderFails, Die, effects
    <2>2. ASSUME UNCHANGED <<queue, completedEvents, failedEvents>>,
                 metered' = Bump(metered, j)
          PROVE  Contract!Charge(j)
      <3>1. outcome' = outcome /\ told' = told
        BY <1>00, <2>2 DEF outcome, told
      <3>2. charged' = charged \cup {j}
        <4>1. \A i \in Jobs : metered'[i] = IF i = j THEN metered[i] + 1 ELSE metered[i]
          BY <2>2, BumpCounts DEF TypeOK
        <4>2. \A i \in Jobs : metered[i] \in Nat
          BY DEF TypeOK
        <4>3. \A i \in Jobs : metered'[i] > 0 <=> i = j \/ metered[i] > 0
          BY <4>1, <4>2
        <4> QED
          BY <4>3 DEF charged
      <3> QED
        BY <2>0, <3>1, <3>2 DEF Contract!Charge
    <2>3. CASE Log(j, n)
      BY <2>2, <2>3 DEF Log, Contract!Next
    <2>4. CASE LogFails(j, n)
      <3>1. UNCHANGED <<queue, completedEvents, failedEvents, poll>>
        BY <2>4 DEF LogFails
      <3>2. metered' = metered \/ metered' = Bump(metered, j)
        BY <2>4 DEF LogFails
      <3>3. CASE metered' = metered
        BY <1>00, <3>1, <3>3, ContractSees
      <3> QED
        BY <2>2, <3>1, <3>2, <3>3 DEF Contract!Next
    <2>5. CASE DispatchCompleted(j, n)
      <3>1. UNCHANGED <<queue, metered, failedEvents>> /\ completedEvents' = Bump(completedEvents, j)
        BY <2>5 DEF DispatchCompleted
      <3>2. outcome' = outcome /\ charged' = charged
        BY <1>00, <3>1 DEF outcome, charged
      <3>3. told' = [told EXCEPT ![j] = @ \cup {"completed"}]
        <4>1. \A i \in Jobs : completedEvents'[i] = IF i = j THEN completedEvents[i] + 1 ELSE completedEvents[i]
          BY <3>1, BumpCounts DEF TypeOK
        <4>2. \A i \in Jobs : told'[i] = IF i = j THEN told[i] \cup {"completed"} ELSE told[i]
          BY <3>1, <4>1 DEF told, TypeOK
        <4> QED
          BY <4>2 DEF told
      <3>4. j \in charged
        BY <2>5 DEF DispatchCompleted, ProgressInv, charged
      <3>5. Contract!Tell(j, "completed")
        BY <2>0, <3>2, <3>3, <3>4 DEF Contract!Tell
      <3> QED
        BY <3>5 DEF Contract!Next
    <2>6. CASE DispatchFailed(j, n)
      <3>1. UNCHANGED <<queue, metered, completedEvents>> /\ failedEvents' = Bump(failedEvents, j)
        BY <2>6 DEF DispatchFailed
      <3>2. outcome' = outcome /\ charged' = charged
        BY <1>00, <3>1 DEF outcome, charged
      <3>3. told' = [told EXCEPT ![j] = @ \cup {"failed"}]
        <4>1. \A i \in Jobs : failedEvents'[i] = IF i = j THEN failedEvents[i] + 1 ELSE failedEvents[i]
          BY <3>1, BumpCounts DEF TypeOK
        <4>2. \A i \in Jobs : told'[i] = IF i = j THEN told[i] \cup {"failed"} ELSE told[i]
          BY <3>1, <4>1 DEF told, TypeOK
        <4> QED
          BY <4>2 DEF told
      <3>4. Contract!Tell(j, "failed")
        BY <2>0, <3>2, <3>3 DEF Contract!Tell
      <3> QED
        BY <3>4 DEF Contract!Next
    <2>7. CASE Return(j, n)
      <3>1. UNCHANGED <<metered, completedEvents, failedEvents, poll>>
        BY <2>7 DEF Return, effects
      <3>2. CASE HoldsLock(j, n)
        <4>1. state' = [state EXCEPT ![j] = "completed"] /\ state[j] = "active" /\ stalls' = stalls
          BY <2>7, <3>2 DEF Return, Complete, Move, HoldsLock
        <4>2. outcome[j] = "accepted" /\ outcome' = [outcome EXCEPT ![j] = "completed"]
          BY <4>1 DEF outcome
        <4>3. UNCHANGED <<charged, told>>
          BY <3>1 DEF charged, told
        <4>4. j \in charged /\ "completed" \in told[j]
          BY <2>7 DEF Return, ProgressInv, charged, told
        <4>5. Contract!Complete(j)
          BY <2>0, <4>2, <4>3, <4>4 DEF Contract!Complete, Contract!Settle
        <4> QED
          BY <4>5 DEF Contract!Next
      <3>3. CASE ~HoldsLock(j, n)
        BY <1>00, <2>7, <3>1, <3>3, ContractSees DEF Return
      <3> QED
        BY <3>2, <3>3
    <2>8. CASE Throw(j, n)
      <3>1. UNCHANGED <<metered, completedEvents, failedEvents, poll>>
        BY <2>8 DEF Throw, effects
      <3>2. CASE HoldsLock(j, n) /\ made[j] + 1 < Attempts
        <4>1. state' = [state EXCEPT ![j] = "delayed"] /\ state[j] = "active" /\ stalls' = stalls
          BY <2>8, <3>2 DEF Throw, Fail, Move, HoldsLock
        <4>2. \A i \in Jobs : outcome'[i] = outcome[i]
          BY <4>1 DEF outcome
        <4> QED
          BY <3>1, <4>2, ContractSees
      <3>3. CASE HoldsLock(j, n) /\ ~(made[j] + 1 < Attempts)
        <4>1. state' = [state EXCEPT ![j] = "failed"] /\ state[j] = "active" /\ stalls' = stalls
          BY <2>8, <3>3 DEF Throw, Fail, Move, HoldsLock
        <4>2. stalls[j] <= MaxStalled
          BY <4>1 DEF QueueInv, RunsAccounted
        <4>3. outcome[j] = "accepted" /\ outcome' = [outcome EXCEPT ![j] = "failed"]
          <5>1. ~(stalls'[j] > MaxStalled)
            BY <4>1, <4>2, QueueAssumption
          <5> QED
            BY <4>1, <5>1 DEF outcome
        <4>4. UNCHANGED <<charged, told>>
          BY <3>1 DEF charged, told
        <4>5. failedEvents[j] > 0
          <5>1. madeAt[j][n] = made[j] /\ made[j] \in Nat
            BY <3>3 DEF LockInv, TypeOK, QueueTypeOK
          <5>2. IsFinalAttempt(j, n)
            BY <3>3, <5>1, QueueAssumption DEF IsFinalAttempt
          <5> QED
            BY <2>8, <5>2 DEF Throw, ProgressInv
        <4>6. Contract!Fail(j)
          BY <2>0, <4>3, <4>4, <4>5 DEF Contract!Fail, Contract!Settle, told
        <4> QED
          BY <4>6 DEF Contract!Next
      <3>4. CASE ~HoldsLock(j, n)
        BY <1>00, <2>8, <3>1, <3>4, ContractSees DEF Throw
      <3> QED
        BY <3>2, <3>3, <3>4
    <2> QED
      BY <1>4, <2>1, <2>3, <2>4, <2>5, <2>6, <2>7, <2>8 DEF process
  <1>5. ASSUME NEW p \in Polls, NEW j \in Jobs, PollReads(p, j)
        PROVE  UNCHANGED <<outcome, charged, told, answers>>
    <2>1. UNCHANGED <<outcome, charged, told>>
      BY <1>5 DEF PollReads, queue, effects, outcome, charged, told
    <2>2. \A q \in Polls : answers'[q] = answers[q]
      BY <1>5 DEF PollReads, answers, TypeOK
    <2> QED
      BY <2>1, <2>2 DEF answers
  <1>6. ASSUME NEW p \in Polls, PollAnswers(p) PROVE Contract!Next
    <2> DEFINE j == poll[p].job
               reply == [job |-> j, state |-> state[j], result |-> poll[p].result]
    <2>1. j \in Jobs /\ poll[p].result \in BOOLEAN /\ poll[p].step = "read"
      BY <1>6 DEF PollAnswers, TypeOK
    <2>2. UNCHANGED <<outcome, charged, told>>
      BY <1>6 DEF PollAnswers, queue, effects, outcome, charged, told
    <2>3. answers[p] = {} /\ answers' = [answers EXCEPT ![p] = {reply}]
      BY <1>6, <2>1 DEF PollAnswers, answers, TypeOK
    <2>4. state[j] \in Contract!States /\ state[j] \in Contract!Visible(j)
      BY <2>1 DEF AddedInv, outcome, States, Contract!States, Contract!Visible
    <2>5. poll[p].result => outcome[j] = "completed"
      BY <2>1 DEF SnapshotInv, outcome
    <2>6. Contract!Answer(p, j, state[j], poll[p].result)
      BY <2>2, <2>3, <2>4, <2>5 DEF Contract!Answer
    <2> QED
      BY <2>1, <2>4, <2>6 DEF Contract!Next
  <1>7. CASE UNCHANGED vars
    BY <1>00, <1>7, ContractSees DEF vars, effects
  <1> QED
    BY <1>1, <1>2, <1>3, <1>4, <1>5, <1>6, <1>7 DEF Next, Contract!Next

\* The queue and its worker implement what the owner of a job is promised: one
\* lasting outcome, charged and announced before it shows, and answers that tell it.
THEOREM JobsMeetContract == Spec => MeetsContract
  <1>1. Init => AddedInv /\ Contract!Init
    <2> SUFFICES ASSUME Init PROVE AddedInv /\ Contract!Init
      OBVIOUS
    <2>1. AddedInv
      BY DEF Init, AddedInv, NoPoll
    <2>2. outcome = [j \in Jobs |-> "none"] /\ charged = {}
      BY DEF Init, QueueInit, outcome, charged
    <2>3. told = [j \in Jobs |-> {}] /\ answers = [p \in Polls |-> {}]
      BY DEF Init, NoPoll, told, answers
    <2>4. Contract!Init
      BY <2>2, <2>3 DEF Contract!Init
    <2> QED
      BY <2>1, <2>4
  <1>2. IInv /\ AddedInv /\ [Next]_vars => AddedInv' /\ [Contract!Next]_(Contract!vars)
    BY AddedStep, ContractStep
  <1> QED
    BY <1>1, <1>2, JobsInvariant, PTL DEF Spec, MeetsContract, Contract!Spec

-----------------------------------------------------------------------------
(* Jobs that never stalled.                                                *)

\* The last run of a job, when it is the job's run in progress.
Stands(j, steps) == state[j] = "active" /\ pc[j][started[j]] \in steps

\* A job that has not stalled.
Calm(j) ==
  /\ \A n \in RunNumbers : pc[j][n] \in Running => HoldsLock(j, n)
  /\ metered[j] > 0 /\ ~doubtful[j] =>
       /\ metered[j] = 1
       /\ state[j] = "completed" \/ Stands(j, {"announce", "return", "dead"})
  /\ completedEvents[j] > 0 => state[j] = "completed" \/ Stands(j, {"return", "dead"})
  /\ failedEvents[j] > 0 =>
       /\ completedEvents[j] = 0
       /\ \/ state[j] = "failed"
          \/ Stands(j, {"throw", "dead"}) /\ made[j] + 1 >= Attempts

\* job.failed is only ever on its way in the last attempt.
NotifyInv ==
  \A j \in Jobs : \A n \in RunNumbers : pc[j][n] = "notify" => IsFinalAttempt(j, n)

CalmInv == \A j \in Jobs : stalls[j] = 0 => Calm(j)

-----------------------------------------------------------------------------
LEMMA NotifyStep == TypeOK /\ QueueInv /\ NotifyInv /\ [Next]_vars => NotifyInv'
  <1> SUFFICES ASSUME TypeOK, QueueInv, NotifyInv, [Next]_vars PROVE NotifyInv'
    OBVIOUS
  <1> USE DEF NotifyInv, IsFinalAttempt
  <1>1. ASSUME NEW j \in Jobs, Start(j) PROVE NotifyInv'
    BY <1>1, StartBegins
  <1>2. ASSUME NEW j \in Jobs, NEW n \in RunNumbers, process(j, n) \/ Die(j, n)
        PROVE  NotifyInv'
    <2>1. pc'[j][n] = "notify" => IsFinalAttempt(j, n)
      <3>1. \A step \in Steps : Goto(j, n, step) => pc'[j][n] = step
        BY GotoMoves DEF TypeOK, RunType
      <3> QED
        BY <1>2, <3>1
        DEF process, Die, ProviderAnswers, ProviderFails, Log, LogFails, DispatchCompleted,
            DispatchFailed, Return, Throw, Catch, Steps
    <2> QED
      BY <1>2, <2>1, RunMoves
  <1>3. CASE UNCHANGED <<pc, madeAt>>
    BY <1>3
  <1> QED
    BY <1>1, <1>2, <1>3 DEF Next, Enqueue, BackoffEnds, JobStalls, PollAnswers, PollReads,
                            vars, worker

\* Everything the invariant says of a job.
Facts(i) == <<state[i], made[i], stalls[i], started[i], pc[i], metered[i], doubtful[i],
              completedEvents[i], failedEvents[i]>>

LEMMA CalmKept ==
  ASSUME NEW i \in Jobs, stalls[i] = 0 => Calm(i), UNCHANGED Facts(i)
  PROVE  stalls'[i] = 0 => Calm(i)'
  BY DEF Calm, Stands, HoldsLock, Facts

\* A step of one job leaves the others alone.
LEMMA JobsAreApart ==
  ASSUME TypeOK, NEW i \in Jobs, NEW j \in Jobs, i # j,
         \/ Enqueue(j) \/ Start(j) \/ BackoffEnds(j) \/ JobStalls(j)
         \/ \E n \in RunNumbers : process(j, n) \/ Die(j, n)
  PROVE  UNCHANGED Facts(i)
  <1> USE DEF TypeOK, QueueTypeOK, Facts, queue, worker, effects
  <1>1. CASE Enqueue(j) \/ Start(j) \/ BackoffEnds(j) \/ JobStalls(j)
    BY <1>1 DEF Enqueue, Start, BackoffEnds, JobStalls, Add, Take, Promote, Stall, Move, Goto
  <1>2. ASSUME NEW n \in RunNumbers, process(j, n) \/ Die(j, n) PROVE UNCHANGED Facts(i)
    <2>1. pc'[i] = pc[i]
      BY <1>2 DEF process, Die, ProviderAnswers, ProviderFails, Log, LogFails,
                  DispatchCompleted, DispatchFailed, Return, Throw, Catch, Goto
    <2>2. UNCHANGED <<state[i], made[i], stalls[i], started[i]>>
      BY <1>2 DEF process, Die, ProviderAnswers, ProviderFails, Log, LogFails,
                  DispatchCompleted, DispatchFailed, Return, Throw, Complete, Fail, Move
    <2>3. UNCHANGED <<metered[i], completedEvents[i], failedEvents[i]>>
      BY <1>2 DEF process, Die, ProviderAnswers, ProviderFails, Log, LogFails,
                  DispatchCompleted, DispatchFailed, Return, Throw, Bump
    <2>4. doubtful'[i] = doubtful[i]
      BY <1>2 DEF process, Die, ProviderAnswers, ProviderFails, Log, LogFails,
                  DispatchCompleted, DispatchFailed, Return, Throw
    <2> QED
      BY <2>1, <2>2, <2>3, <2>4
  <1> QED
    BY <1>1, <1>2

-----------------------------------------------------------------------------
\* The steps of the job itself.
LEMMA CalmRunStep ==
  ASSUME TypeOK, TypeOK', QueueInv, LockInv, NotifyInv,
         NEW i \in Jobs, stalls[i] = 0 => Calm(i), stalls'[i] = 0,
         NEW n \in RunNumbers, process(i, n) \/ Die(i, n)
  PROVE  Calm(i)'
  <1>1. UNCHANGED <<stalls, started>>
    BY DEF process, Die, ProviderAnswers, ProviderFails, Log, LogFails, queue,
           DispatchCompleted, DispatchFailed, Return, Throw, Complete, Fail
  <1>2. pc[i][n] \in Running /\ Calm(i)
    BY <1>1, RunMoves
  <1>3. state[i] = "active" /\ started[i] = n /\ HoldsLock(i, n)
    BY <1>2 DEF Calm, HoldsLock
  <1>4. \A m \in RunNumbers : m # n => pc'[i][m] \notin Running
    BY <1>2, <1>3, RunMoves DEF Calm, HoldsLock
  <1>5. \A step \in Steps : Goto(i, n, step) => pc'[i][n] = step
    BY GotoMoves DEF TypeOK, RunType
  <1>6. /\ metered[i] \in Nat /\ completedEvents[i] \in Nat /\ failedEvents[i] \in Nat
        /\ made[i] \in Nat
    BY DEF TypeOK, QueueTypeOK
  <1>7. madeAt[i][n] = made[i]
    BY <1>3 DEF LockInv
  <1>8. /\ pc[i][n] \notin {"announce", "return"} => metered[i] = 0 \/ doubtful[i]
        /\ pc[i][n] # "return" => completedEvents[i] = 0
        /\ pc[i][n] # "throw" => failedEvents[i] = 0
        /\ metered[i] <= 1 \/ doubtful[i]
        /\ failedEvents[i] > 0 => made[i] + 1 >= Attempts /\ completedEvents[i] = 0
    BY <1>2, <1>3, <1>6 DEF Calm, Stands, Running
  <1> HIDE DEF Calm
  <1>9. CASE (process(i, n) /\ ~Return(i, n) /\ ~Throw(i, n)) \/ Die(i, n)
    <2>1. UNCHANGED <<state, made>>
      BY <1>9 DEF process, Die, ProviderAnswers, ProviderFails, Log, LogFails, queue,
                  DispatchCompleted, DispatchFailed
    <2>2. /\ state'[i] = "active" /\ started'[i] = n /\ made'[i] = made[i]
          /\ \A m \in RunNumbers : pc'[i][m] \in Running => HoldsLock(i, m)'
      BY <1>1, <1>3, <1>4, <2>1 DEF HoldsLock
    <2> DEFINE Place(steps) == pc'[i][n] \in steps
    <2>3. /\ metered'[i] > 0 /\ ~doubtful'[i] =>
               metered'[i] = 1 /\ Place({"announce", "return", "dead"})
          /\ completedEvents'[i] > 0 => Place({"return", "dead"})
          /\ failedEvents'[i] > 0 =>
               completedEvents'[i] = 0 /\ Place({"throw", "dead"}) /\ made[i] + 1 >= Attempts
      <3> USE <1>5, <1>6, <1>7, <1>8 DEF Steps, TypeOK, Bump
      <3>1. CASE ProviderAnswers(i, n) \/ ProviderFails(i, n)
        BY <3>1 DEF ProviderAnswers, ProviderFails, Catch, effects
      <3>2. CASE Log(i, n)
        BY <3>2 DEF Log
      <3>3. CASE LogFails(i, n)
        BY <3>3 DEF LogFails, Catch
      <3>4. CASE DispatchCompleted(i, n)
        BY <3>4 DEF DispatchCompleted
      <3>5. CASE DispatchFailed(i, n)
        BY <3>5 DEF DispatchFailed, NotifyInv, IsFinalAttempt
      <3>6. CASE Die(i, n)
        BY <3>6 DEF Die, effects
      <3> QED
        BY <1>9, <3>1, <3>2, <3>3, <3>4, <3>5, <3>6 DEF process
    <2> QED
      BY <2>2, <2>3 DEF Calm, Stands
  <1>10. CASE Return(i, n)
    <2>1. state'[i] = "completed" /\ pc[i][n] = "return" /\ pc'[i][n] = "over"
      BY <1>3, <1>5, <1>10 DEF Return, Complete, Move, Steps, TypeOK, QueueTypeOK
    <2>2. UNCHANGED <<metered, completedEvents, failedEvents, doubtful>>
      BY <1>10 DEF Return, effects
    <2>3. \A m \in RunNumbers : pc'[i][m] \notin Running
      BY <1>4, <2>1 DEF Running
    <2> QED
      BY <1>6, <1>8, <2>1, <2>2, <2>3 DEF Calm
  <1>11. CASE Throw(i, n)
    <2>1. /\ pc[i][n] = "throw" /\ pc'[i][n] = "over"
          /\ state'[i] = IF made[i] + 1 < Attempts THEN "delayed" ELSE "failed"
      BY <1>3, <1>5, <1>11 DEF Throw, Fail, Move, Steps, TypeOK, QueueTypeOK
    <2>2. UNCHANGED <<metered, completedEvents, failedEvents, doubtful>>
      BY <1>11 DEF Throw, effects
    <2>3. \A m \in RunNumbers : pc'[i][m] \notin Running
      BY <1>4, <2>1 DEF Running
    <2> QED
      BY <1>6, <1>8, <2>1, <2>2, <2>3, QueueAssumption DEF Calm
  <1> QED
    BY <1>9, <1>10, <1>11

\* The steps of the queue.
LEMMA CalmQueueStep ==
  ASSUME TypeOK, QueueInv, NEW i \in Jobs, stalls[i] = 0 => Calm(i), stalls'[i] = 0,
         Enqueue(i) \/ Start(i) \/ BackoffEnds(i) \/ JobStalls(i)
  PROVE  Calm(i)'
  <1>1. ~JobStalls(i)
    BY DEF JobStalls, Stall, TypeOK, QueueTypeOK
  <1>2. /\ state[i] \in {"none", "waiting", "delayed"} /\ stalls' = stalls
        /\ UNCHANGED <<metered, completedEvents, failedEvents, doubtful>>
    BY <1>1 DEF Enqueue, Start, BackoffEnds, Add, Take, Promote, Move, effects
  <1>3. Calm(i) /\ \A n \in RunNumbers : pc[i][n] \notin Running
    BY <1>2 DEF Calm, HoldsLock
  <1>4. /\ metered[i] \in Nat /\ completedEvents[i] \in Nat /\ failedEvents[i] \in Nat
    BY DEF TypeOK
  <1>5. completedEvents[i] = 0 /\ failedEvents[i] = 0 /\ (metered[i] = 0 \/ doubtful[i])
    BY <1>2, <1>3, <1>4 DEF Calm, Stands
  <1>6. \A n \in RunNumbers : pc'[i][n] \in Running => HoldsLock(i, n)'
    <2>1. CASE Start(i)
      <3>1. state'[i] = "active" /\ started'[i] = started[i] + 1
        BY <2>1 DEF Start, Take, Move, TypeOK, QueueTypeOK
      <3> QED
        BY <1>3, <2>1, <3>1, StartBegins DEF HoldsLock
    <2>2. CASE Enqueue(i) \/ BackoffEnds(i)
      BY <1>3, <2>2 DEF Enqueue, BackoffEnds, worker
    <2> QED
      BY <1>1, <2>1, <2>2
  <1> QED
    BY <1>2, <1>5, <1>6 DEF Calm

LEMMA CalmStep ==
  TypeOK /\ QueueInv /\ LockInv /\ NotifyInv /\ CalmInv /\ [Next]_vars => CalmInv'
  <1> SUFFICES ASSUME TypeOK, QueueInv, LockInv, NotifyInv, CalmInv, [Next]_vars,
                      NEW i \in Jobs, stalls'[i] = 0
               PROVE  Calm(i)'
    BY DEF CalmInv
  <1>0. (stalls[i] = 0 => Calm(i)) /\ TypeOK'
    BY JobsTypeStep DEF CalmInv
  <1> DEFINE Queues(j) == Enqueue(j) \/ Start(j) \/ BackoffEnds(j) \/ JobStalls(j)
             Runs(j) == \E n \in RunNumbers : process(j, n) \/ Die(j, n)
  <1>1. ASSUME NEW j \in Jobs, Queues(j) \/ Runs(j) PROVE Calm(i)'
    <2>1. CASE i # j
      BY <1>0, <1>1, <2>1, JobsAreApart, CalmKept
    <2>2. CASE i = j /\ Queues(i)
      BY <1>0, <2>2, CalmQueueStep
    <2>3. CASE i = j /\ Runs(i)
      BY <1>0, <2>3, CalmRunStep
    <2> QED
      BY <1>1, <2>1, <2>2, <2>3
  <1>2. CASE \/ \E p \in Polls : PollAnswers(p) \/ \E j \in Jobs : PollReads(p, j)
             \/ UNCHANGED vars
    <2>1. UNCHANGED Facts(i)
      BY <1>2 DEF PollAnswers, PollReads, vars, Facts, queue, worker, effects
    <2> QED
      BY <1>0, <2>1, CalmKept
  <1> QED
    BY <1>1, <1>2 DEF Next

LEMMA CalmInvariant == Spec => [](TypeOK /\ QueueInv /\ CalmInv)
  <1> DEFINE Inv == TypeOK /\ QueueInv /\ LockInv /\ NotifyInv /\ CalmInv
  <1>1. Init => Inv
    <2> SUFFICES ASSUME Init PROVE Inv
      OBVIOUS
    <2>1. TypeOK /\ QueueInv
      BY JobsTypeInit, QueueInvInit DEF Init
    <2>2. \A j \in Jobs : /\ state[j] = "none"
                          /\ \A n \in RunNumbers : pc[j][n] = "idle"
      BY DEF Init, QueueInit
    <2>3. \A j \in Jobs : metered[j] = 0 /\ completedEvents[j] = 0 /\ failedEvents[j] = 0
      BY DEF Init
    <2> QED
      BY <2>1, <2>2, <2>3 DEF LockInv, NotifyInv, CalmInv, Calm, HoldsLock, Running
  <1>2. Inv /\ [Next]_vars => Inv'
    BY JobsTypeStep, JobsQueueStep, LockStep, NotifyStep, CalmStep
  <1> QED
    BY <1>1, <1>2, PTL DEF Spec

\* The retries of failed attempts never charge a job twice: a second row takes a
\* stall or a transaction that committed and still threw.
THEOREM RetriesChargeOnce == Spec => []ChargedTwiceOnlyByFault
  <1>1. TypeOK /\ QueueInv /\ CalmInv => ChargedTwiceOnlyByFault
    <2> SUFFICES ASSUME TypeOK, CalmInv, NEW j \in Jobs, metered[j] > 1, ~doubtful[j]
                 PROVE  stalls[j] > 0
      BY DEF ChargedTwiceOnlyByFault
    <2>1. metered[j] \in Nat /\ stalls[j] \in Nat
      BY DEF TypeOK, QueueTypeOK
    <2>2. ~Calm(j)
      BY <2>1 DEF Calm
    <2> QED
      BY <2>1, <2>2 DEF CalmInv
  <1> QED
    BY <1>1, CalmInvariant, PTL

\* A job that never stalled and whose owner was sent job.failed does not complete
\* later, although the event leaves before the queue knows of the failure.
THEOREM FailureIsFinal == Spec => []FailedEventIsFinal
  <1>1. TypeOK /\ QueueInv /\ CalmInv => FailedEventIsFinal
    BY DEF FailedEventIsFinal, CalmInv, Calm, Stands
  <1> QED
    BY <1>1, CalmInvariant, PTL

-----------------------------------------------------------------------------
(* Announcements.                                                          *)

\* Where a run may still send an event.
Unspoken == {"provide", "log", "announce", "notify"}

\* Runs without the lock that may.
StaleRuns(j) == {n \in RunNumbers : pc[j][n] \in Unspoken /\ ~HoldsLock(j, n)}

\* The job is still to be announced: by its run in progress or by a later one.
Open(j) ==
  \/ state[j] \in {"none", "waiting", "delayed"}
  \/ \E n \in RunNumbers :
       /\ HoldsLock(j, n)
       /\ pc[j][n] \in Unspoken \/ (pc[j][n] = "throw" /\ ~IsFinalAttempt(j, n))

\* The events of a job, sent and to come.
Announced(j) ==
  completedEvents[j] + failedEvents[j] + Cardinality(StaleRuns(j)) + (IF Open(j) THEN 1 ELSE 0)

AnnouncedInv == \A j \in Jobs : Announced(j) <= 1 + stalls[j]

LEMMA StaleRunsAreFinite ==
  ASSUME NEW j \in Jobs
  PROVE  /\ StaleRuns(j) \in SUBSET RunNumbers /\ Cardinality(StaleRuns(j)) \in Nat
         /\ StaleRuns(j)' \in SUBSET RunNumbers /\ Cardinality(StaleRuns(j))' \in Nat
  <1>1. StaleRuns(j) \in SUBSET RunNumbers /\ StaleRuns(j)' \in SUBSET RunNumbers
    BY DEF StaleRuns
  <1> QED
    BY <1>1, RunsAreFinite

\* A step of run n: what it sends it owed, with the lock or without.
LEMMA AnnouncedRunStep ==
  ASSUME TypeOK, QueueInv, LockInv, NotifyInv, NEW i \in Jobs, Announced(i) <= 1 + stalls[i],
         NEW n \in RunNumbers, process(i, n) \/ Die(i, n)
  PROVE  Announced(i)' <= 1 + stalls'[i]
  <1>0. /\ completedEvents[i] \in Nat /\ failedEvents[i] \in Nat /\ stalls[i] \in Nat
        /\ made[i] \in Nat
    BY DEF TypeOK, QueueTypeOK
  <1>1. UNCHANGED <<stalls, started, madeAt>>
    BY DEF process, Die, ProviderAnswers, ProviderFails, Log, LogFails, queue, worker,
           DispatchCompleted, DispatchFailed, Return, Throw, Complete, Fail
  <1>2. \A m \in RunNumbers : m # n => pc'[i][m] = pc[i][m]
    BY RunMoves
  <1>3. \A step \in Steps : Goto(i, n, step) => pc'[i][n] = step
    BY GotoMoves DEF TypeOK, RunType
  <1>4. HoldsLock(i, n) => madeAt[i][n] = made[i]
    BY DEF LockInv
  <1>5. CASE Return(i, n) \/ Throw(i, n)
    <2>1. /\ UNCHANGED <<completedEvents, failedEvents>>
          /\ pc[i][n] \in {"return", "throw"} /\ pc'[i][n] = "over"
      BY <1>3, <1>5 DEF Return, Throw, effects, Steps
    <2>2. CASE ~HoldsLock(i, n)
      <3>1. UNCHANGED <<state, made>>
        BY <1>5, <2>2 DEF Return, Throw, queue
      <3>2. StaleRuns(i)' = StaleRuns(i)
        BY <1>1, <1>2, <2>1, <2>2, <3>1 DEF StaleRuns, HoldsLock, Unspoken
      <3>3. Open(i)' = Open(i)
        BY <1>1, <1>2, <2>1, <2>2, <3>1 DEF Open, HoldsLock, Unspoken, IsFinalAttempt
      <3> QED
        BY <1>1, <2>1, <3>2, <3>3 DEF Announced
    <2>3. CASE HoldsLock(i, n)
      <3>1. state[i] = "active" /\ state'[i] # "active"
              /\ \A m \in RunNumbers : ~HoldsLock(i, m)' /\ (HoldsLock(i, m) => m = n)
        BY <1>5, <2>3, <1>1 DEF Return, Throw, Complete, Fail, Move, HoldsLock, TypeOK, QueueTypeOK
      <3>2. StaleRuns(i)' = StaleRuns(i)
        BY <1>2, <2>1, <2>3, <3>1 DEF StaleRuns, Unspoken
      <3>3. Open(i)' => Open(i)
        <4>1. Open(i)' => pc[i][n] = "throw" /\ made[i] + 1 < Attempts
          BY <1>5, <2>3, <3>1 DEF Open, Return, Throw, Complete, Fail, Move, TypeOK, QueueTypeOK
        <4> QED
          BY <1>0, <1>4, <2>3, <4>1, QueueAssumption DEF Open, IsFinalAttempt
      <3> QED
        BY <1>0, <1>1, <2>1, <3>2, <3>3, StaleRunsAreFinite DEF Announced
    <2> QED
      BY <2>2, <2>3
  <1>6. CASE ~Return(i, n) /\ ~Throw(i, n)
    <2> DEFINE sent == (completedEvents[i] + failedEvents[i])'
               owed(p) == p \in Unspoken \/ (p = "throw" /\ ~IsFinalAttempt(i, n))
    <2>1. UNCHANGED <<state, made>>
      BY <1>6 DEF process, Die, ProviderAnswers, ProviderFails, Log, LogFails, queue,
                  DispatchCompleted, DispatchFailed
    <2>2. /\ sent \in {completedEvents[i] + failedEvents[i], completedEvents[i] + failedEvents[i] + 1}
          /\ pc[i][n] \in Unspoken \/ ~owed(pc'[i][n])
          /\ pc'[i][n] \in Unspoken => pc[i][n] \in Unspoken
          /\ sent = completedEvents[i] + failedEvents[i] + 1 =>
               pc[i][n] \in Unspoken /\ ~owed(pc'[i][n]) /\ pc'[i][n] \notin Unspoken
      <3> USE <1>0, <1>3 DEF Steps, TypeOK, Bump, Unspoken
      <3>1. CASE ProviderAnswers(i, n) \/ ProviderFails(i, n)
        BY <3>1 DEF ProviderAnswers, ProviderFails, Catch, effects
      <3>2. CASE Log(i, n) \/ LogFails(i, n)
        BY <3>2 DEF Log, LogFails, Catch
      <3>3. CASE DispatchCompleted(i, n)
        BY <3>3 DEF DispatchCompleted
      <3>4. CASE DispatchFailed(i, n)
        <4>1. /\ pc[i][n] = "notify" /\ pc'[i][n] = "throw"
              /\ failedEvents'[i] = failedEvents[i] + 1 /\ completedEvents'[i] = completedEvents[i]
          BY <3>4 DEF DispatchFailed
        <4>2. IsFinalAttempt(i, n)
          BY <4>1 DEF NotifyInv
        <4> QED
          BY <4>1, <4>2
      <3>5. CASE Die(i, n)
        BY <3>5 DEF Die, effects
      <3> QED
        BY <1>6, <3>1, <3>2, <3>3, <3>4, <3>5 DEF process
    <2>3. \A m \in RunNumbers : HoldsLock(i, m)' = HoldsLock(i, m)
      BY <1>1, <2>1 DEF HoldsLock
    <2>4. StaleRuns(i)' \subseteq StaleRuns(i)
      BY <1>2, <2>2, <2>3 DEF StaleRuns
    <2>5. Open(i)' => Open(i)
      BY <1>1, <1>2, <2>1, <2>2, <2>3 DEF Open, IsFinalAttempt
    <2>6. Cardinality(StaleRuns(i))' <= Cardinality(StaleRuns(i))
      BY <2>4, StaleRunsAreFinite, FewerRuns
    <2>7. CASE sent = completedEvents[i] + failedEvents[i]
      BY <1>0, <1>1, <2>5, <2>6, <2>7, StaleRunsAreFinite DEF Announced
    <2>8. CASE sent = completedEvents[i] + failedEvents[i] + 1
      <3>1. CASE HoldsLock(i, n)
        <4>1. Open(i)
          BY <2>2, <2>8, <3>1 DEF Open
        <4>2. ~Open(i)'
          BY <1>1, <1>2, <2>1, <2>2, <2>3, <2>8, <3>1 DEF Open, HoldsLock, IsFinalAttempt
        <4> QED
          BY <1>0, <1>1, <2>6, <2>8, <4>1, <4>2, StaleRunsAreFinite DEF Announced
      <3>2. CASE ~HoldsLock(i, n)
        <4>1. n \in StaleRuns(i) /\ StaleRuns(i)' \subseteq StaleRuns(i) \ {n}
          BY <2>2, <2>4, <2>8, <3>2 DEF StaleRuns
        <4>2. StaleRuns(i) \ {n} \in SUBSET RunNumbers
          BY StaleRunsAreFinite
        <4>3. Cardinality(StaleRuns(i))' <= Cardinality(StaleRuns(i) \ {n})
          BY <4>1, <4>2, FewerRuns
        <4>4. /\ Cardinality(StaleRuns(i) \ {n}) + 1 = Cardinality(StaleRuns(i))
              /\ Cardinality(StaleRuns(i) \ {n}) \in Nat
          BY <4>1, <4>2, StaleRunsAreFinite, OneRunLess, RunsAreFinite
        <4> QED
          BY <1>0, <1>1, <2>5, <2>8, <4>3, <4>4, StaleRunsAreFinite DEF Announced
      <3> QED
        BY <3>1, <3>2
    <2> QED
      BY <2>2, <2>7, <2>8
  <1> QED
    BY <1>5, <1>6

\* A step of the queue: a stall leaves its run without the lock.
LEMMA AnnouncedQueueStep ==
  ASSUME TypeOK, QueueInv, LockInv, NEW i \in Jobs, Announced(i) <= 1 + stalls[i],
         Enqueue(i) \/ Start(i) \/ BackoffEnds(i) \/ JobStalls(i)
  PROVE  Announced(i)' <= 1 + stalls'[i]
  <1>0. /\ completedEvents[i] \in Nat /\ failedEvents[i] \in Nat /\ stalls[i] \in Nat
        /\ started[i] \in Nat
    BY DEF TypeOK, QueueTypeOK
  <1>1. UNCHANGED <<completedEvents, failedEvents>>
    BY DEF Enqueue, Start, BackoffEnds, JobStalls, effects
  <1>2. CASE Enqueue(i) \/ BackoffEnds(i)
    <2>1. Open(i) /\ UNCHANGED <<pc, stalls>> /\ state[i] # "active" /\ state'[i] # "active"
      BY <1>2 DEF Enqueue, BackoffEnds, Add, Promote, Move, Open, worker, TypeOK, QueueTypeOK
    <2>2. StaleRuns(i)' = StaleRuns(i)
      BY <2>1 DEF StaleRuns, HoldsLock
    <2> QED
      BY <1>0, <1>1, <2>1, <2>2, StaleRunsAreFinite DEF Announced
  <1>3. CASE Start(i)
    <2>1. Open(i) /\ UNCHANGED stalls /\ state[i] = "waiting" /\ state'[i] = "active"
            /\ started'[i] = started[i] + 1
      BY <1>3 DEF Start, Take, Move, Open, TypeOK, QueueTypeOK
    <2>2. \A n \in RunNumbers : n # started[i] + 1 => pc'[i][n] = pc[i][n]
      BY <1>3, StartBegins
    <2>3. StaleRuns(i)' \subseteq StaleRuns(i)
      BY <2>1, <2>2 DEF StaleRuns, HoldsLock
    <2>4. Cardinality(StaleRuns(i))' <= Cardinality(StaleRuns(i))
      BY <2>3, StaleRunsAreFinite, FewerRuns
    <2> QED
      BY <1>0, <1>1, <2>1, <2>4, StaleRunsAreFinite DEF Announced
  <1>4. CASE JobStalls(i)
    <2>1. /\ stalls'[i] = stalls[i] + 1 /\ UNCHANGED <<pc, madeAt, started>>
          /\ state[i] = "active" /\ state'[i] \in {"waiting", "failed"}
      BY <1>4 DEF JobStalls, Stall, Move, worker, TypeOK, QueueTypeOK
    <2>2. CASE Open(i)
      <3>1. PICK n \in RunNumbers : HoldsLock(i, n)
        BY <2>1, <2>2 DEF Open
      <3>2. StaleRuns(i)' \subseteq StaleRuns(i) \cup {n}
        BY <2>1, <3>1 DEF StaleRuns, HoldsLock
      <3>3. Cardinality(StaleRuns(i))' <= Cardinality(StaleRuns(i)) + 1
        BY <3>2, StaleRunsAreFinite, OneMoreRun
      <3> QED
        BY <1>0, <1>1, <2>1, <2>2, <3>3, StaleRunsAreFinite DEF Announced
    <2>3. CASE ~Open(i)
      <3>1. StaleRuns(i)' \subseteq StaleRuns(i)
        BY <2>1, <2>3 DEF StaleRuns, HoldsLock, Open
      <3>2. Cardinality(StaleRuns(i))' <= Cardinality(StaleRuns(i))
        BY <3>1, StaleRunsAreFinite, FewerRuns
      <3> QED
        BY <1>0, <1>1, <2>1, <2>3, <3>2, StaleRunsAreFinite DEF Announced
    <2> QED
      BY <2>2, <2>3
  <1> QED
    BY <1>2, <1>3, <1>4

LEMMA AnnouncedKept ==
  ASSUME NEW i \in Jobs, Announced(i) <= 1 + stalls[i], UNCHANGED Facts(i),
         UNCHANGED madeAt[i]
  PROVE  Announced(i)' <= 1 + stalls'[i]
  <1>1. StaleRuns(i)' = StaleRuns(i)
    BY DEF StaleRuns, HoldsLock, Facts
  <1>2. Open(i)' = Open(i)
    BY DEF Open, HoldsLock, IsFinalAttempt, Facts
  <1> QED
    BY <1>1, <1>2 DEF Announced, Facts

LEMMA AnnouncedStep ==
  TypeOK /\ QueueInv /\ LockInv /\ NotifyInv /\ AnnouncedInv /\ [Next]_vars => AnnouncedInv'
  <1> SUFFICES ASSUME TypeOK, QueueInv, LockInv, NotifyInv, AnnouncedInv, [Next]_vars,
                      NEW i \in Jobs
               PROVE  Announced(i)' <= 1 + stalls'[i]
    BY DEF AnnouncedInv
  <1>0. Announced(i) <= 1 + stalls[i]
    BY DEF AnnouncedInv
  <1> DEFINE Queues(j) == Enqueue(j) \/ Start(j) \/ BackoffEnds(j) \/ JobStalls(j)
             Runs(j) == \E n \in RunNumbers : process(j, n) \/ Die(j, n)
  <1>1. ASSUME NEW j \in Jobs, Queues(j) \/ Runs(j) PROVE Announced(i)' <= 1 + stalls'[i]
    <2>1. CASE i # j
      <3>1. UNCHANGED madeAt[i]
        <4>1. CASE Queues(j)
          BY <2>1, <4>1 DEF Enqueue, Start, BackoffEnds, JobStalls, worker, TypeOK
        <4>2. CASE Runs(j)
          BY <4>2, RunMoves
        <4> QED
          BY <1>1, <4>1, <4>2
      <3> QED
        BY <1>0, <1>1, <2>1, <3>1, JobsAreApart, AnnouncedKept
    <2>2. CASE i = j /\ Queues(i)
      BY <1>0, <2>2, AnnouncedQueueStep
    <2>3. CASE i = j /\ Runs(i)
      BY <1>0, <2>3, AnnouncedRunStep
    <2> QED
      BY <1>1, <2>1, <2>2, <2>3
  <1>2. CASE \/ \E p \in Polls : PollAnswers(p) \/ \E j \in Jobs : PollReads(p, j)
             \/ UNCHANGED vars
    <2>1. UNCHANGED Facts(i) /\ UNCHANGED madeAt[i]
      BY <1>2 DEF PollAnswers, PollReads, vars, Facts, queue, worker, effects
    <2> QED
      BY <1>0, <2>1, AnnouncedKept
  <1> QED
    BY <1>1, <1>2 DEF Next

\* Only a stall repeats what was announced of a job: every run that may still send
\* an event and no longer holds the lock is paid for by the stall that took it.
THEOREM StallsRepeat == Spec => []AnnouncedOncePerStall
  <1> DEFINE Inv == TypeOK /\ QueueInv /\ LockInv /\ NotifyInv /\ AnnouncedInv
  <1>1. Init => Inv
    <2> SUFFICES ASSUME Init PROVE Inv
      OBVIOUS
    <2>1. TypeOK /\ QueueInv
      BY JobsTypeInit, QueueInvInit DEF Init
    <2>2. \A j \in Jobs : /\ state[j] = "none"
                          /\ \A n \in RunNumbers : pc[j][n] = "idle"
      BY DEF Init, QueueInit
    <2>3. LockInv /\ NotifyInv
      BY <2>1, <2>2 DEF LockInv, NotifyInv, HoldsLock
    <2>4. ASSUME NEW j \in Jobs PROVE Announced(j) <= 1 + stalls[j]
      <3>1. completedEvents[j] = 0 /\ failedEvents[j] = 0 /\ stalls[j] = 0
        BY DEF Init, QueueInit
      <3>2. StaleRuns(j) = {}
        BY <2>2 DEF StaleRuns, Unspoken
      <3>3. Cardinality({}) = 0
        BY FS_EmptySet
      <3> QED
        BY <3>1, <3>2, <3>3 DEF Announced
    <2> QED
      BY <2>1, <2>3, <2>4 DEF AnnouncedInv
  <1>2. Inv /\ [Next]_vars => Inv'
    BY JobsTypeStep, JobsQueueStep, LockStep, NotifyStep, AnnouncedStep
  <1>3. Inv => AnnouncedOncePerStall
    <2> SUFFICES ASSUME Inv, NEW j \in Jobs
                 PROVE  completedEvents[j] + failedEvents[j] <= 1 + stalls[j]
      BY DEF AnnouncedOncePerStall
    <2>1. /\ completedEvents[j] \in Nat /\ failedEvents[j] \in Nat /\ stalls[j] \in Nat
          /\ Announced(j) <= 1 + stalls[j]
      BY DEF TypeOK, QueueTypeOK, AnnouncedInv
    <2> QED
      BY <2>1, StaleRunsAreFinite DEF Announced
  <1> QED
    BY <1>1, <1>2, <1>3, PTL DEF Spec

-----------------------------------------------------------------------------
(* Progress: the safety half of EveryJobSettles.                           *)

\* How far a run is from its end, counted in steps of process() at most.
StepsLeft(step) ==
  CASE step = "provide" -> 7
    [] step = "log" -> 6
    [] step = "announce" -> 5
    [] step = "notify" -> 4
    [] step \in {"return", "throw"} -> 3
    [] step = "dead" -> 1
    [] OTHER -> 0

\* What is left of a job and of the run that holds its lock.
Fuel(j) == FuelOf(state[j], made[j], stalls[j], StepsLeft(pc[j][started[j]]))

\* A job that is open is never out of hands: while it is active, the run with its
\* lock is going on or is dead, for the stalled checker to find.
Tended ==
  \A j \in Jobs : state[j] = "active" =>
    \E n \in RunNumbers : HoldsLock(j, n) /\ pc[j][n] \in Running \cup {"dead"}

\* Every step of a job takes it nearer to its end, or it is the step of an overtaken
\* run, which comes nearer to its own: nothing can go on with a job for ever.
RunsDown ==
  [][\A j \in Jobs : state[j] # "none" =>
       \/ Fuel(j)' < Fuel(j)
       \/ /\ UNCHANGED <<state[j], made[j], stalls[j], started[j]>>
          /\ \A n \in RunNumbers :
               \/ pc'[j][n] = pc[j][n]
               \/ ~HoldsLock(j, n) /\ StepsLeft(pc'[j][n]) < StepsLeft(pc[j][n])]_vars

\* The run with the lock has begun and not ended.
HolderInv ==
  \A j \in Jobs : state[j] = "active" =>
    started[j] \in RunNumbers /\ pc[j][started[j]] \in Running \cup {"dead"}

ProgressFacts == TypeOK /\ QueueInv /\ RunsBounded /\ HolderInv

LEMMA JobsRunsBounded == TypeOK /\ QueueInv /\ RunsBounded /\ [Next]_vars => RunsBounded'
  <1> SUFFICES ASSUME TypeOK, QueueInv, RunsBounded, [Next]_vars PROVE RunsBounded'
    OBVIOUS
  <1> USE RunsBoundedStep, RunsBoundedStutter DEF QueueStep
  <1>1. ASSUME NEW j \in Jobs, Enqueue(j) \/ Start(j) \/ BackoffEnds(j) \/ JobStalls(j)
        PROVE  RunsBounded'
    BY <1>1 DEF Enqueue, Start, BackoffEnds, JobStalls
  <1>2. ASSUME NEW j \in Jobs, NEW n \in RunNumbers, process(j, n) \/ Die(j, n)
        PROVE  RunsBounded'
    BY <1>2 DEF process, Return, Throw, ProviderAnswers, ProviderFails, Log, LogFails,
                DispatchCompleted, DispatchFailed, Die
  <1>3. ASSUME NEW p \in Polls, PollAnswers(p) \/ \E j \in Jobs : PollReads(p, j)
        PROVE  RunsBounded'
    BY <1>3 DEF PollAnswers, PollReads
  <1>4. CASE UNCHANGED vars
    BY <1>4 DEF vars
  <1> QED
    BY <1>1, <1>2, <1>3, <1>4 DEF Next

\* A step of a run is nearer to its end; with the lock it ends its try by a command
\* of the queue, or keeps the lock and goes on.
LEMMA RunStepsDown ==
  ASSUME TypeOK, NEW j \in Jobs, NEW n \in RunNumbers, process(j, n) \/ Die(j, n)
  PROVE  /\ StepsLeft(pc'[j][n]) < StepsLeft(pc[j][n])
         /\ \/ UNCHANGED queue /\ (HoldsLock(j, n) => pc'[j][n] \in Running \cup {"dead"})
            \/ HoldsLock(j, n) /\ (Complete(j) \/ Fail(j))
  <1>1. \A step \in Steps : Goto(j, n, step) => pc'[j][n] = step
    BY GotoMoves DEF TypeOK, RunType
  <1> USE <1>1 DEF Steps, StepsLeft, Running
  <1>2. CASE ProviderAnswers(j, n) \/ ProviderFails(j, n)
    BY <1>2 DEF ProviderAnswers, ProviderFails, Catch
  <1>3. CASE Log(j, n) \/ LogFails(j, n)
    BY <1>3 DEF Log, LogFails, Catch
  <1>4. CASE DispatchCompleted(j, n) \/ DispatchFailed(j, n)
    BY <1>4 DEF DispatchCompleted, DispatchFailed
  <1>5. CASE Return(j, n) \/ Throw(j, n)
    BY <1>5 DEF Return, Throw
  <1>6. CASE Die(j, n)
    <2>1. pc[j][n] \in Running /\ pc'[j][n] = "dead" /\ UNCHANGED queue
      BY <1>6 DEF Die
    <2> QED
      BY <2>1
  <1> QED
    BY <1>2, <1>3, <1>4, <1>5, <1>6 DEF process

LEMMA HolderStep == TypeOK /\ QueueInv /\ HolderInv /\ [Next]_vars => HolderInv'
  <1> SUFFICES ASSUME TypeOK, QueueInv, HolderInv, [Next]_vars,
                      NEW i \in Jobs, state'[i] = "active"
               PROVE  started'[i] \in RunNumbers /\ pc'[i][started'[i]] \in Running \cup {"dead"}
    BY DEF HolderInv
  <1> USE DEF TypeOK, QueueTypeOK
  <1>0. state[i] = "active" =>
          started[i] \in RunNumbers /\ pc[i][started[i]] \in Running \cup {"dead"}
    BY DEF HolderInv
  <1>1. ASSUME NEW j \in Jobs, Start(j)
        PROVE  started'[i] \in RunNumbers /\ pc'[i][started'[i]] \in Running \cup {"dead"}
    <2>1. CASE i = j
      BY <1>1, <2>1, StartBegins DEF Start, Take, Running
    <2>2. CASE i # j
      <3>1. UNCHANGED Facts(i)
        BY <1>1, <2>2, JobsAreApart
      <3> QED
        BY <1>0, <3>1 DEF Facts
    <2> QED
      BY <2>1, <2>2
  <1>2. ASSUME NEW j \in Jobs, Enqueue(j) \/ BackoffEnds(j) \/ JobStalls(j)
        PROVE  state[i] = "active" /\ UNCHANGED <<started, pc>>
    BY <1>2 DEF Enqueue, BackoffEnds, JobStalls, Add, Promote, Stall, Move, worker
  <1>3. ASSUME NEW j \in Jobs, NEW n \in RunNumbers, process(j, n) \/ Die(j, n)
        PROVE  started'[i] \in RunNumbers /\ pc'[i][started'[i]] \in Running \cup {"dead"}
    <2>1. CASE i # j
      <3>1. UNCHANGED Facts(i)
        BY <1>3, <2>1, JobsAreApart
      <3> QED
        BY <1>0, <3>1 DEF Facts
    <2>2. CASE i = j
      <3>1. UNCHANGED queue /\ (HoldsLock(j, n) => pc'[j][n] \in Running \cup {"dead"})
        <4>1. ~Complete(j) /\ ~Fail(j)
          BY <2>2 DEF Complete, Fail, Move
        <4> QED
          BY <1>3, <4>1, RunStepsDown
      <3>2. \A m \in RunNumbers : m # n => pc'[j][m] = pc[j][m]
        BY <1>3, RunMoves
      <3> QED
        BY <1>0, <2>2, <3>1, <3>2 DEF queue, HoldsLock
    <2> QED
      BY <2>1, <2>2
  <1>4. ASSUME NEW p \in Polls, PollAnswers(p) \/ \E j \in Jobs : PollReads(p, j)
        PROVE  state[i] = "active" /\ UNCHANGED <<started, pc>>
    BY <1>4 DEF PollAnswers, PollReads, queue, worker
  <1>5. CASE UNCHANGED vars
    BY <1>0, <1>5 DEF vars, queue, worker
  <1> QED
    BY <1>0, <1>1, <1>2, <1>3, <1>4, <1>5 DEF Next

LEMMA ProgressInvariant == Spec => []ProgressFacts
  <1>1. Init => ProgressFacts
    <2> SUFFICES ASSUME Init PROVE ProgressFacts
      OBVIOUS
    <2>1. TypeOK /\ QueueInv /\ RunsBounded
      BY JobsTypeInit, QueueInvInit, RunsBoundedInit DEF Init
    <2>2. \A j \in Jobs : state[j] = "none"
      BY DEF Init, QueueInit
    <2> QED
      BY <2>1, <2>2 DEF ProgressFacts, HolderInv
  <1>2. ProgressFacts /\ [Next]_vars => ProgressFacts'
    BY JobsTypeStep, JobsQueueStep, JobsRunsBounded, HolderStep DEF ProgressFacts
  <1> QED
    BY <1>1, <1>2, PTL DEF Spec

\* The work left of an active job is its run's.
LEMMA HolderSteps ==
  ASSUME HolderInv, NEW j \in Jobs, state[j] = "active"
  PROVE  StepsLeft(pc[j][started[j]]) \in 1 .. 7
  BY DEF HolderInv, Running, StepsLeft

\* Each step of a job spends of it, or is the step of an overtaken run.
LEMMA SpendStep ==
  ASSUME ProgressFacts, ProgressFacts', [Next]_vars, NEW j \in Jobs, state[j] # "none"
  PROVE  \/ Fuel(j)' < Fuel(j)
         \/ /\ UNCHANGED <<state[j], made[j], stalls[j], started[j]>>
            /\ \A n \in RunNumbers :
                 \/ pc'[j][n] = pc[j][n]
                 \/ ~HoldsLock(j, n) /\ StepsLeft(pc'[j][n]) < StepsLeft(pc[j][n])
  <1> DEFINE Goal == \/ Fuel(j)' < Fuel(j)
                     \/ /\ UNCHANGED <<state[j], made[j], stalls[j], started[j]>>
                        /\ \A n \in RunNumbers :
                             \/ pc'[j][n] = pc[j][n]
                             \/ ~HoldsLock(j, n) /\ StepsLeft(pc'[j][n]) < StepsLeft(pc[j][n])
             Still == UNCHANGED <<state[j], made[j], stalls[j], started[j], pc[j]>>
  <1>0. TypeOK /\ QueueInv /\ HolderInv
    BY DEF ProgressFacts
  <1>1. ASSUME QueueStep(j) PROVE Fuel(j)' < Fuel(j)
    <2>1. state[j] = "active" => StepsLeft(pc[j][started[j]]) \in 1 .. 7
      BY <1>0, HolderSteps
    <2>2. state'[j] = "active" => StepsLeft(pc[j][started[j]])' \in 1 .. 7
      BY DEF ProgressFacts, HolderInv, Running, StepsLeft
    <2>3. FuelOf(state'[j], made'[j], stalls'[j], StepsLeft(pc[j][started[j]])')
            < FuelOf(state[j], made[j], stalls[j], StepsLeft(pc[j][started[j]]))
      BY <1>0, <1>1, <2>1, <2>2, QueueSpends
    <2> QED
      BY <2>3 DEF Fuel
  <1>2. Still => Goal
    OBVIOUS
  <1>3. ASSUME NEW i \in Jobs, Enqueue(i) \/ Start(i) \/ BackoffEnds(i) \/ JobStalls(i)
        PROVE  Goal
    <2>1. CASE i = j
      <3>1. QueueStep(j)
        BY <1>3, <2>1 DEF Enqueue, Start, BackoffEnds, JobStalls, QueueStep
      <3> QED
        BY <1>1, <3>1
    <2>2. CASE i # j
      BY <1>0, <1>2, <1>3, <2>2, JobsAreApart DEF Facts
    <2> QED
      BY <2>1, <2>2
  <1>4. ASSUME NEW i \in Jobs, NEW n \in RunNumbers, process(i, n) \/ Die(i, n) PROVE Goal
    <2>1. CASE i # j
      BY <1>0, <1>2, <1>4, <2>1, JobsAreApart DEF Facts
    <2>2. CASE i = j /\ HoldsLock(j, n) /\ (Complete(j) \/ Fail(j))
      BY <1>1, <2>2 DEF QueueStep
    <2>3. CASE i = j /\ UNCHANGED queue
      <3>1. /\ StepsLeft(pc'[j][n]) < StepsLeft(pc[j][n])
            /\ UNCHANGED <<state[j], made[j], stalls[j], started[j]>>
        BY <1>0, <1>4, <2>3, RunStepsDown DEF queue
      <3>2. \A m \in RunNumbers : m # n => pc'[j][m] = pc[j][m]
        BY <1>0, <1>4, <2>3, RunMoves
      <3>3. CASE HoldsLock(j, n)
        <4>1. state[j] = "active" /\ state'[j] = "active" /\ started[j] = n /\ started'[j] = n
          BY <3>1, <3>3 DEF HoldsLock
        <4>2. StepsLeft(pc[j][n]) \in 1 .. 7 /\ StepsLeft(pc'[j][n]) \in 1 .. 7
          BY <4>1 DEF ProgressFacts, HolderInv, Running, StepsLeft
        <4>3. /\ Fuel(j) = 10 * (Attempts + MaxStalled + 1 - made[j] - stalls[j])
                             + StepsLeft(pc[j][n])
              /\ Fuel(j)' = 10 * (Attempts + MaxStalled + 1 - made[j] - stalls[j])
                             + StepsLeft(pc'[j][n])
          BY <3>1, <4>1 DEF Fuel, FuelOf
        <4>4. made[j] \in Nat /\ stalls[j] \in Nat
          BY <1>0 DEF TypeOK, QueueTypeOK
        <4> QED
          BY <3>1, <4>2, <4>3, <4>4, QueueAssumption
      <3>4. CASE ~HoldsLock(j, n)
        BY <3>1, <3>2, <3>4
      <3> QED
        BY <3>3, <3>4
    <2> QED
      BY <1>0, <1>4, <2>1, <2>2, <2>3, RunStepsDown
  <1>5. ASSUME NEW p \in Polls, PollAnswers(p) \/ \E i \in Jobs : PollReads(p, i)
        PROVE  Goal
    BY <1>2, <1>5 DEF PollAnswers, PollReads, queue, worker
  <1>6. UNCHANGED vars => Goal
    BY <1>2 DEF vars, queue, worker
  <1> HIDE DEF Goal
  <1>7. Goal
    BY <1>3, <1>4, <1>5, <1>6 DEF Next
  <1> QED
    BY <1>7 DEF Goal

\* No active job is ever left without a run, living or dead, and what is left of a job
\* is a natural number.
THEOREM OpenJobsAreTended == Spec => [](Tended /\ \A j \in Jobs : Fuel(j) \in Nat)
  <1>1. ProgressFacts => Tended
    BY DEF ProgressFacts, HolderInv, Tended, HoldsLock
  <1>2. ProgressFacts => \A j \in Jobs : Fuel(j) \in Nat
    <2> SUFFICES ASSUME ProgressFacts, NEW j \in Jobs PROVE Fuel(j) \in Nat
      OBVIOUS
    <2>1. state[j] = "active" => StepsLeft(pc[j][started[j]]) \in Nat
      BY HolderSteps DEF ProgressFacts
    <2> QED
      BY <2>1, FuelIsNatural DEF ProgressFacts, Fuel
  <1> QED
    BY <1>1, <1>2, ProgressInvariant, PTL

\* Every step that goes on with a job makes less of what is left of it: what
\* EveryJobSettles adds is that these steps are taken.
THEOREM JobsRunDown == Spec => RunsDown
  <1>1. ProgressFacts /\ ProgressFacts' /\ [Next]_vars =>
          [\A j \in Jobs : state[j] # "none" =>
             \/ Fuel(j)' < Fuel(j)
             \/ /\ UNCHANGED <<state[j], made[j], stalls[j], started[j]>>
                /\ \A n \in RunNumbers :
                     \/ pc'[j][n] = pc[j][n]
                     \/ ~HoldsLock(j, n) /\ StepsLeft(pc'[j][n]) < StepsLeft(pc[j][n])]_vars
    BY SpendStep
  <1> QED
    BY <1>1, ProgressInvariant, PTL DEF Spec, RunsDown

-----------------------------------------------------------------------------
(* What a job can cost at most.                                            *)

\* Runs, with the lock or without, that may still charge the job.
Charging(j) == {n \in RunNumbers : pc[j][n] \in {"provide", "log"}}

\* No run charges twice: charges made and charges to come are runs that were taken.
ChargesInv == \A j \in Jobs : metered[j] + Cardinality(Charging(j)) <= started[j]

\* However often a job is retried, stalled and overtaken, and whatever is lost of the
\* answers of the database, its owner is charged once for each attempt and for each
\* stall that is forgiven, at the most.
ChargesBounded == \A j \in Jobs : metered[j] <= Attempts + MaxStalled

LEMMA ChargingRuns ==
  ASSUME NEW j \in Jobs
  PROVE  /\ Charging(j) \in SUBSET RunNumbers /\ Cardinality(Charging(j)) \in Nat
         /\ Charging(j)' \in SUBSET RunNumbers /\ Cardinality(Charging(j))' \in Nat
  <1>1. Charging(j) \in SUBSET RunNumbers /\ Charging(j)' \in SUBSET RunNumbers
    BY DEF Charging
  <1> QED
    BY <1>1, RunsAreFinite

LEMMA ChargesStep == ProgressFacts /\ ChargesInv /\ [Next]_vars => ChargesInv'
  <1> SUFFICES ASSUME ProgressFacts, ChargesInv, [Next]_vars, NEW i \in Jobs
               PROVE  metered'[i] + Cardinality(Charging(i))' <= started'[i]
    BY DEF ChargesInv
  <1>0. /\ TypeOK /\ QueueInv /\ metered[i] \in Nat /\ started[i] \in Nat
        /\ metered[i] + Cardinality(Charging(i)) <= started[i]
    BY DEF ProgressFacts, TypeOK, QueueTypeOK, ChargesInv
  <1> DEFINE Goal == metered'[i] + Cardinality(Charging(i))' <= started'[i]
  <1>1. UNCHANGED <<metered[i], started[i], pc[i]>> => Goal
    BY <1>0 DEF Charging
  <1>2. ASSUME NEW j \in Jobs, Start(j) PROVE Goal
    <2>1. CASE i = j
      <3>1. /\ metered'[i] = metered[i] /\ started'[i] = started[i] + 1
            /\ started[i] + 1 \in RunNumbers
        BY <1>0, <1>2, <2>1, StartBegins DEF Start, Take, effects, TypeOK, QueueTypeOK
      <3>2. Charging(i)' \subseteq Charging(i) \cup {started[i] + 1}
        BY <1>0, <1>2, <2>1, StartBegins DEF Charging
      <3>3. Cardinality(Charging(i))' <= Cardinality(Charging(i)) + 1
        BY <3>1, <3>2, ChargingRuns, OneMoreRun
      <3> QED
        BY <1>0, <3>1, <3>3, ChargingRuns
    <2>2. CASE i # j
      BY <1>0, <1>1, <1>2, <2>2, JobsAreApart DEF Facts
    <2> QED
      BY <2>1, <2>2
  <1>3. ASSUME NEW j \in Jobs, Enqueue(j) \/ BackoffEnds(j) \/ JobStalls(j) PROVE Goal
    BY <1>1, <1>3 DEF Enqueue, BackoffEnds, JobStalls, Add, Promote, Stall, worker, effects
  <1>4. ASSUME NEW j \in Jobs, NEW n \in RunNumbers, process(j, n) \/ Die(j, n) PROVE Goal
    <2>1. CASE i # j
      BY <1>0, <1>1, <1>4, <2>1, JobsAreApart DEF Facts
    <2>2. CASE i = j
      <3>1. started' = started /\ \A m \in RunNumbers : m # n => pc'[i][m] = pc[i][m]
        BY <1>0, <1>4, <2>2, RunMoves DEF process, Die, ProviderAnswers, ProviderFails, Log,
           LogFails, queue, DispatchCompleted, DispatchFailed, Return, Throw, Complete, Fail
      <3>2. /\ pc'[i][n] \in {"provide", "log"} => pc[i][n] \in {"provide", "log"}
            /\ \/ metered'[i] = metered[i]
               \/ /\ metered'[i] = metered[i] + 1
                  /\ pc[i][n] \in {"provide", "log"} /\ pc'[i][n] \notin {"provide", "log"}
        <4>1. \A step \in Steps : Goto(i, n, step) => pc'[i][n] = step
          BY <1>0, GotoMoves DEF TypeOK, RunType
        <4> USE <1>0, <2>2, <4>1 DEF Steps, Bump, TypeOK, effects
        <4>2. CASE ProviderAnswers(j, n) \/ ProviderFails(j, n)
          BY <4>2 DEF ProviderAnswers, ProviderFails, Catch
        <4>3. CASE Log(j, n)
          BY <4>3 DEF Log
        <4>4. CASE LogFails(j, n)
          BY <4>4 DEF LogFails, Catch
        <4>5. CASE DispatchCompleted(j, n) \/ DispatchFailed(j, n)
          BY <4>5 DEF DispatchCompleted, DispatchFailed
        <4>6. CASE Return(j, n) \/ Throw(j, n) \/ Die(j, n)
          BY <4>6 DEF Return, Throw, Die
        <4> QED
          BY <1>4, <4>2, <4>3, <4>4, <4>5, <4>6 DEF process
      <3>3. CASE metered'[i] = metered[i]
        <4>1. Charging(i)' \subseteq Charging(i)
          BY <3>1, <3>2 DEF Charging
        <4>2. Cardinality(Charging(i))' <= Cardinality(Charging(i))
          BY <4>1, ChargingRuns, FewerRuns
        <4> QED
          BY <1>0, <3>1, <3>3, <4>2, ChargingRuns
      <3>4. CASE metered'[i] = metered[i] + 1 /\ metered'[i] # metered[i]
        <4>1. n \in Charging(i) /\ Charging(i)' \subseteq Charging(i) \ {n}
          BY <3>1, <3>2, <3>4 DEF Charging
        <4>2. Charging(i) \ {n} \in SUBSET RunNumbers
          BY ChargingRuns
        <4>3. Cardinality(Charging(i))' <= Cardinality(Charging(i) \ {n})
          BY <4>1, <4>2, FewerRuns
        <4>4. /\ Cardinality(Charging(i) \ {n}) + 1 = Cardinality(Charging(i))
              /\ Cardinality(Charging(i) \ {n}) \in Nat
          BY <4>1, <4>2, ChargingRuns, OneRunLess, RunsAreFinite
        <4> QED
          BY <1>0, <3>1, <3>4, <4>3, <4>4, ChargingRuns
      <3> QED
        BY <3>2, <3>3, <3>4
    <2> QED
      BY <2>1, <2>2
  <1>5. ASSUME NEW p \in Polls, PollAnswers(p) \/ \E j \in Jobs : PollReads(p, j)
        PROVE  Goal
    BY <1>1, <1>5 DEF PollAnswers, PollReads, queue, worker, effects
  <1>6. UNCHANGED vars => Goal
    BY <1>1 DEF vars, queue, worker, effects
  <1> HIDE DEF Goal
  <1>7. Goal
    BY <1>2, <1>3, <1>4, <1>5, <1>6 DEF Next
  <1> QED
    BY <1>7 DEF Goal

\* One charge for an attempt, one for a forgiven stall, and never more.
THEOREM ChargesAreBounded == Spec => []ChargesBounded
  <1>1. Init => ChargesInv
    <2> SUFFICES ASSUME Init, NEW j \in Jobs
                 PROVE  metered[j] + Cardinality(Charging(j)) <= started[j]
      BY DEF ChargesInv
    <2>1. metered[j] = 0 /\ started[j] = 0 /\ Charging(j) = {}
      BY DEF Init, QueueInit, Charging
    <2> QED
      BY <2>1, FS_EmptySet
  <1>2. ProgressFacts /\ ChargesInv => ChargesBounded
    <2> SUFFICES ASSUME ProgressFacts, ChargesInv, NEW j \in Jobs
                 PROVE  metered[j] <= Attempts + MaxStalled
      BY DEF ChargesBounded
    <2>1. /\ metered[j] \in Nat /\ started[j] \in Nat /\ started[j] <= Attempts + MaxStalled
          /\ metered[j] + Cardinality(Charging(j)) <= started[j]
      BY DEF ProgressFacts, TypeOK, QueueTypeOK, RunsBounded, ChargesInv
    <2> QED
      BY <2>1, ChargingRuns, QueueAssumption
  <1> QED
    BY <1>1, <1>2, ChargesStep, ProgressInvariant, PTL DEF Spec
=============================================================================
