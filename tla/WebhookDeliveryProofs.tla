------------------------ MODULE WebhookDeliveryProofs ------------------------
(***************************************************************************)
(* Theorems about WebhookDelivery for any number of endpoints, attempts,   *)
(* forgiven stalls and faults.                                             *)
(*                                                                         *)
(* While a job never stalled, only the run that holds the lock can act     *)
(* (RunsInv), so where that run stands tells what was accepted and written *)
(* (OutcomesInv) and how far the columns lag behind the POSTs (CountsInv). *)
(* After stalls, each of them leaves at most one run that acts without     *)
(* the lock (LateInv).  What holds through all of that is what a run knows *)
(* by itself (HonestInv), and DeliveryContract follows from it.            *)
(***************************************************************************)
EXTENDS WebhookDelivery, BullQueueProofs

Acting == Running \cup {"dead"}

\* Which runs of e can be under way.
RunsInv(e) ==
  \A n \in RunNumbers :
    /\ HoldsLock(e, n) => madeAt[e][n] = made[e] /\ pc[e][n] \in Acting
    /\ n > started[e] => pc[e][n] = "idle"
    /\ stalls[e] = 0 /\ pc[e][n] \in Acting => HoldsLock(e, n)

\* How far the dispatch for e got, and what that means for the row and the job.
SenderInv(e) ==
  /\ sender[e] \in {"dispatch", "create"} => row[e] = "none"
  /\ sender[e] = "add" => row[e] # "none"
  /\ sender[e] # "done" => state[e] = "none"
  /\ state[e] = "none" => row[e] \in {"none", "pending"}
  /\ state[e] # "none" => row[e] # "none"
  /\ row[e] # "none" /\ state[e] = "none" => sender[e] = "add" \/ orphaned[e]
  /\ row[e] = "none" /\ sender[e] = "done" => ~isActive[e] \/ faults > 0
  /\ listener[e] = "due" \/ row[e] = "dead_letter" => state[e] = "failed"

Told(e) ==
  \/ row[e] = "success" /\ acks[e] > 0
  \/ row[e] = "failed" /\ ~isActive[e]

\* What a job that never stalled has behind it.
OutcomesInv(e) ==
  stalls[e] = 0 =>
    /\ \A n \in RunNumbers : HoldsLock(e, n) =>
         /\ pc[e][n] = "success" => acks[e] > 0
         /\ pc[e][n] = "revoked" => ~isActive[e]
         /\ pc[e][n] = "return" => Told(e)
         /\ ~blurred[e] /\ pc[e][n] \notin {"success", "return", "dead"} => acks[e] = 0
         /\ ~blurred[e] /\ row[e] = "success" => pc[e][n] \in {"return", "dead"}
    /\ state[e] = "completed" => Told(e)
    /\ state[e] = "failed" =>
         made[e] = Attempts /\ (listener[e] = "due" \/ unmarked[e] \/ row[e] = "dead_letter")
    /\ ~blurred[e] =>
         /\ acks[e] <= 1
         /\ state[e] \notin {"active", "completed"} => acks[e] = 0 /\ row[e] # "success"

\* POSTs, attempts and the column attemptCount of a job that never stalled: each
\* attempt sends one and writes one, but for those that a rejected query ended.
CountsInv(e) ==
  stalls[e] = 0 =>
    /\ made[e] <= attemptCount[e] + faults
    /\ \A n \in RunNumbers : HoldsLock(e, n) =>
         /\ posts[e] <= made[e] + 1
         /\ pc[e][n] \in {"load", "post", "revoked"} => posts[e] <= made[e]
         /\ made[e] <= posts[e] + faults
         /\ pc[e][n] \in {"success", "failure", "throw"} => made[e] + 1 <= posts[e] + faults
         /\ attemptCount[e] <= made[e] + 1
         /\ pc[e][n] \notin {"return", "throw", "dead"} => attemptCount[e] <= made[e]
         /\ pc[e][n] \in {"return", "throw"} => made[e] + 1 <= attemptCount[e] + faults
         /\ row[e] = "success" /\ pc[e][n] \notin {"return", "dead"} =>
              made[e] + 1 <= attemptCount[e] + faults
         /\ row[e] = "success" /\ pc[e][n] = "throw" => made[e] + 2 <= attemptCount[e] + faults
    /\ state[e] # "active" =>
         /\ posts[e] <= made[e]
         /\ attemptCount[e] <= made[e]
         /\ state[e] # "completed" => made[e] <= posts[e] + faults
         /\ row[e] = "success" /\ state[e] # "completed" => made[e] + 1 <= attemptCount[e] + faults
    /\ row[e] \in {"success", "dead_letter"} =>
         /\ posts[e] <= attemptCount[e] + faults
         /\ attemptCount[e] <= posts[e] + faults

\* Runs that act without the lock, and runs about to send.
Stale(e) == {n \in RunNumbers : pc[e][n] \in Running /\ ~HoldsLock(e, n)}
Posting(e) == {n \in RunNumbers : pc[e][n] = "post"}
LateInv(e) ==
  /\ Cardinality(Stale(e)) <= stalls[e]
  /\ IF isActive[e] THEN latePosts[e] = 0
     ELSE latePosts[e] + Cardinality(Posting(e)) <= 1 + stalls[e]

JobInv(e) == RunsInv(e) /\ SenderInv(e) /\ OutcomesInv(e) /\ CountsInv(e) /\ LateInv(e)
IInv == TypeOK /\ QueueInv /\ \A e \in Jobs : JobInv(e)

-----------------------------------------------------------------------------
(* Types and frames.                                                       *)

RunType == [Jobs -> [RunNumbers -> Steps]]

\* A step of one run leaves every other run where it is.
LEMMA GotoMoves ==
  ASSUME pc \in RunType, NEW e \in Jobs, NEW n \in RunNumbers, NEW step \in Steps,
         Goto(e, n, step)
  PROVE  /\ pc' \in RunType
         /\ \A i \in Jobs : \A m \in RunNumbers :
              pc'[i][m] = IF i = e /\ m = n THEN step ELSE pc[i][m]
  BY DEF RunType, Goto

LEMMA BumpCounts ==
  ASSUME NEW f \in [Jobs -> Nat], NEW e \in Jobs
  PROVE  /\ Bump(f, e) \in [Jobs -> Nat]
         /\ \A i \in Jobs : Bump(f, e)[i] = IF i = e THEN f[i] + 1 ELSE f[i]
  BY DEF Bump

LEMMA NoteMarks ==
  ASSUME NEW f \in [Jobs -> BOOLEAN], NEW e \in Jobs
  PROVE  /\ Note(f, e) \in [Jobs -> BOOLEAN]
         /\ \A i \in Jobs : Note(f, e)[i] = (IF i = e THEN TRUE ELSE f[i])
  BY DEF Note

\* The steps of the dispatch of e, of run n, and of the queue and the listener.
SendStep(e) ==
  enqueueOne(e) \/ CreateRowFails(e) \/ AddJobFails(e) \/ SenderDies(e) \/ Revoke(e)
RunStep(e, n) == process(e, n) \/ QueryFails(e, n) \/ Die(e, n)
QueueSideStep(e) ==
  Start(e) \/ BackoffEnds(e) \/ JobStalls(e) \/ MarkDeadLetter(e) \/ MarkDeadLetterFails(e)
JobStep(e) == SendStep(e) \/ QueueSideStep(e) \/ \E n \in RunNumbers : RunStep(e, n)

LEMMA NextSteps == Next => Dispatch \/ DispatchFails \/ \E e \in Jobs : JobStep(e)
  BY DEF Next, JobStep, SendStep, QueueSideStep, RunStep

LEMMA DeliveryInit == Init => TypeOK /\ QueueInv
  <1> SUFFICES ASSUME Init PROVE TypeOK /\ QueueInv
    OBVIOUS
  <1>1. QueueInv
    BY QueueInvInit DEF Init
  <1>2. 0 \in 0 .. Attempts /\ 0 \in 0 .. Attempts - 1
    BY QueueAssumption
  <1> QED
    BY <1>1, <1>2 DEF Init, TypeOK, QueueInv, RowStates, SenderSteps, Steps

\* Every step is one of the queue's commands on at most one job.
LEMMA QueueCommand ==
  ASSUME TypeOK, [Next]_vars
  PROVE  UNCHANGED queue \/ \E e \in Jobs : QueueStep(e)
  <1>1. CASE UNCHANGED vars
    BY <1>1 DEF vars
  <1>2. CASE Dispatch \/ DispatchFails
    BY <1>2 DEF Dispatch, DispatchFails
  <1>3. ASSUME NEW e \in Jobs, SendStep(e) PROVE UNCHANGED queue \/ QueueStep(e)
    BY <1>3 DEF SendStep, enqueueOne, CreateRow, AddJob, CreateRowFails, AddJobFails, SenderDies,
                Revoke, QueueStep
  <1>4. ASSUME NEW e \in Jobs, QueueSideStep(e) PROVE UNCHANGED queue \/ QueueStep(e)
    BY <1>4 DEF QueueSideStep, Start, BackoffEnds, JobStalls, MarkDeadLetter,
                MarkDeadLetterFails, QueueStep
  <1>5. ASSUME NEW e \in Jobs, NEW n \in RunNumbers, RunStep(e, n)
        PROVE  UNCHANGED queue \/ QueueStep(e)
    BY <1>5 DEF RunStep, process, LoadEndpoint, PostAccepted, PostFails, Record, Return, Throw,
                QueryFails, Die, QueueStep
  <1> QED
    BY <1>1, <1>2, <1>3, <1>4, <1>5, NextSteps DEF JobStep

LEMMA QueueStays ==
  ASSUME TypeOK, QueueInv, [Next]_vars
  PROVE  QueueInv'
  BY QueueCommand, QueueInvStep, QueueInvStutter

LEMMA TypeStep ==
  ASSUME TypeOK, QueueInv, [Next]_vars
  PROVE  TypeOK'
  <1>0. QueueTypeOK'
    BY QueueStays DEF QueueInv
  <1> USE <1>0, QueueAssumption DEF TypeOK, SetRow, Send, Fault, delivery, worker, history
  <1>00. \A e \in Jobs, n \in RunNumbers, step \in Steps : Goto(e, n, step) => pc' \in RunType
    BY GotoMoves DEF RunType
  <1>01. \A e \in Jobs : /\ Bump(posts, e) \in [Jobs -> Nat] /\ Bump(acks, e) \in [Jobs -> Nat]
                         /\ Bump(latePosts, e) \in [Jobs -> Nat]
    BY BumpCounts
  <1> USE <1>00 DEF RunType
  <1>1. CASE UNCHANGED vars
    BY <1>1 DEF vars
  <1>2. CASE Dispatch \/ DispatchFails
    BY <1>2 DEF Dispatch, DispatchFails, SenderSteps
  <1>3. ASSUME NEW e \in Jobs, SendStep(e) PROVE TypeOK'
    <2>1. CASE enqueueOne(e) \/ Revoke(e)
      BY <2>1 DEF enqueueOne, CreateRow, AddJob, Revoke, SenderSteps, RowStates
    <2>2. CASE CreateRowFails(e)
      BY <2>2 DEF Note, CreateRowFails, SenderSteps, RowStates
    <2>3. CASE AddJobFails(e)
      BY <2>3 DEF Note, AddJobFails, SenderSteps
    <2>4. CASE SenderDies(e)
      BY <2>4 DEF Note, SenderDies, SenderSteps
    <2> QED
      BY <1>3, <2>1, <2>2, <2>3, <2>4 DEF SendStep
  <1>4. ASSUME NEW e \in Jobs, QueueSideStep(e) PROVE TypeOK'
    <2>1. CASE Start(e)
      <3>1. started[e] + 1 \in RunNumbers /\ made[e] \in 0 .. Attempts - 1
        BY <2>1, NextRunNumber DEF Start, Take, Move
      <3>2. pc' \in RunType
        BY <2>1, <3>1 DEF Start, Steps
      <3>3. madeAt' \in [Jobs -> [RunNumbers -> 0 .. Attempts - 1]]
        BY <2>1, <3>1 DEF Start
      <3> QED
        BY <2>1, <3>2, <3>3 DEF Start
    <2>2. CASE BackoffEnds(e) \/ JobStalls(e)
      BY <2>2 DEF BackoffEnds, JobStalls, EmitFailed
    <2>3. CASE MarkDeadLetter(e)
      BY <2>3 DEF MarkDeadLetter, RowStates
    <2>4. CASE MarkDeadLetterFails(e)
      BY <2>4 DEF Note, MarkDeadLetterFails
    <2> QED
      BY <1>4, <2>1, <2>2, <2>3, <2>4 DEF QueueSideStep
  <1>5. ASSUME NEW e \in Jobs, NEW n \in RunNumbers, RunStep(e, n) PROVE TypeOK'
    <2>1. \A step \in DOMAIN Outcome : Outcome[step] \in RowStates /\ Ending[step] \in Steps
      BY DEF Outcome, Ending, RowStates, Steps
    <2>2. madeAt[e][n] + 1 \in 0 .. Attempts
      OBVIOUS
    <2>3. ASSUME WriteRow(e, n, "success") \/ WriteRow(e, n, "failure") \/ WriteRow(e, n, "revoked")
          PROVE  row' \in [Jobs -> RowStates] /\ attemptCount' \in [Jobs -> 0 .. Attempts]
      BY <2>1, <2>2, <2>3 DEF WriteRow, Outcome
    <2>4. CASE LoadEndpoint(e, n) \/ Die(e, n)
      BY <2>4 DEF LoadEndpoint, AfterLoad, Die, Steps
    <2>5. CASE Return(e, n) \/ Throw(e, n)
      <3>1. pc' \in RunType
        BY <2>5 DEF Return, Throw, Steps
      <3>2. listener' \in [Jobs -> {"quiet", "due"}]
        BY <2>5 DEF Return, Throw, EmitFailed
      <3> QED
        BY <2>5, <3>1, <3>2 DEF Return, Throw
    <2>6. CASE PostAccepted(e, n) \/ PostFails(e, n)
      <3>1. pc' \in RunType
        BY <2>6 DEF PostAccepted, PostFails, Steps
      <3>2. posts' \in [Jobs -> Nat] /\ latePosts' \in [Jobs -> Nat]
        <4>1. posts' = Bump(posts, e) /\ (latePosts' = latePosts \/ latePosts' = Bump(latePosts, e))
          BY <2>6 DEF PostAccepted, PostFails, PostSent
        <4> QED
          BY <4>1, <1>01
      <3>3. acks' \in [Jobs -> Nat]
        <4>1. acks' = acks \/ acks' = Bump(acks, e)
          BY <2>6 DEF PostAccepted, PostFails
        <4> QED
          BY <4>1, <1>01
      <3>4. blurred' \in [Jobs -> BOOLEAN]
        BY <2>6 DEF Note, PostAccepted, PostFails
      <3> QED
        BY <2>6, <3>1, <3>2, <3>3, <3>4 DEF PostAccepted, PostFails
    <2>7. CASE Record(e, n)
      <3>1. pc' \in RunType
        BY <2>1, <2>7 DEF Record
      <3>2. row' \in [Jobs -> RowStates] /\ attemptCount' \in [Jobs -> 0 .. Attempts]
        BY <2>3, <2>7 DEF Record, Outcome
      <3> QED
        BY <2>7, <3>1, <3>2 DEF Record
    <2>8. CASE QueryFails(e, n)
      <3>1. pc' \in RunType
        BY <2>8 DEF QueryFails, Steps
      <3>2. row' \in [Jobs -> RowStates] /\ attemptCount' \in [Jobs -> 0 .. Attempts]
        BY <2>3, <2>8 DEF QueryFails, Outcome
      <3>3. blurred' \in [Jobs -> BOOLEAN]
        BY <2>8 DEF QueryFails, Note
      <3> QED
        BY <2>8, <3>1, <3>2, <3>3 DEF QueryFails
    <2> QED
      BY <1>5, <2>4, <2>5, <2>6, <2>7, <2>8 DEF RunStep, process
  <1> QED
    BY <1>1, <1>2, <1>3, <1>4, <1>5, NextSteps DEF JobStep

\* Types, for any number of endpoints, attempts and faults.
THEOREM DeliveryTypeCorrect == Spec => []TypeOK
  BY DeliveryInit, TypeStep, QueueStays, PTL DEF Spec

-----------------------------------------------------------------------------
(* What one step does to the job of the endpoint it is about.              *)

\* No queue command, and no run of e moves.
QueueQuiet(e) ==
  /\ state'[e] = state[e] /\ made'[e] = made[e] /\ stalls'[e] = stalls[e]
  /\ started'[e] = started[e]
RunsQuiet(e) == \A n \in RunNumbers : pc'[e][n] = pc[e][n] /\ madeAt'[e][n] = madeAt[e][n]
RowQuiet(e) == row'[e] = row[e] /\ attemptCount'[e] = attemptCount[e]
SendQuiet(e) ==
  /\ sender'[e] = sender[e] /\ isActive'[e] = isActive[e] /\ orphaned'[e] = orphaned[e]
PostQuiet(e) ==
  /\ posts'[e] = posts[e] /\ acks'[e] = acks[e] /\ latePosts'[e] = latePosts[e]
ListenerQuiet(e) == listener'[e] = listener[e] /\ unmarked'[e] = unmarked[e]
BlurQuiet(e) == blurred'[e] = blurred[e]
\* Run n, which stood at one of these steps, goes to another.
RunMoves(e, n, from, to) ==
  /\ pc[e][n] = from
  /\ \A m \in RunNumbers : /\ pc'[e][m] = IF m = n THEN to ELSE pc[e][m]
                           /\ madeAt'[e][m] = madeAt[e][m]

Untouched(e) ==
  /\ QueueQuiet(e) /\ RunsQuiet(e) /\ RowQuiet(e) /\ SendQuiet(e) /\ PostQuiet(e)
  /\ ListenerQuiet(e) /\ BlurQuiet(e)

\* The dispatch of e goes on: e is left out, has its row, has its job, or breaks off.
SendMoves(e) ==
  /\ RunsQuiet(e) /\ PostQuiet(e) /\ ListenerQuiet(e) /\ BlurQuiet(e)
  /\ made'[e] = made[e] /\ stalls'[e] = stalls[e] /\ started'[e] = started[e]
  /\ attemptCount'[e] = attemptCount[e]
  /\ \/ /\ isActive[e] /\ ~isActive'[e] /\ QueueQuiet(e) /\ RowQuiet(e)
        /\ sender'[e] = sender[e] /\ orphaned'[e] = orphaned[e]
     \/ /\ isActive'[e] = isActive[e] /\ state'[e] = state[e]
        /\ \/ /\ sender[e] = "dispatch" /\ RowQuiet(e) /\ orphaned'[e] = orphaned[e]
              /\ \/ sender'[e] = "create" /\ isActive[e]
                 \/ sender'[e] = "done" /\ (~isActive[e] \/ faults' > 0)
           \/ /\ sender[e] = "create" /\ sender'[e] = "add" /\ row'[e] = "pending"
              /\ orphaned'[e] = orphaned[e]
           \/ /\ sender[e] \in {"create", "add"} /\ sender'[e] = "done" /\ orphaned'[e]
              /\ faults' > 0
              /\ RowQuiet(e) \/ (sender[e] = "create" /\ row'[e] = "pending")
     \/ /\ sender[e] = "add" /\ sender'[e] = "done" /\ RowQuiet(e)
        /\ isActive'[e] = isActive[e]
        /\ state[e] = "none" /\ state'[e] = "waiting"

\* A worker takes the job, its backoff ends, or it stalls.
QueueMoves(e) ==
  /\ RowQuiet(e) /\ SendQuiet(e) /\ PostQuiet(e) /\ BlurQuiet(e) /\ unmarked'[e] = unmarked[e]
  /\ \/ /\ state[e] = "waiting" /\ state'[e] = "active" /\ started'[e] = started[e] + 1
        /\ made'[e] = made[e] /\ stalls'[e] = stalls[e] /\ ListenerQuiet(e)
        /\ started[e] + 1 \in RunNumbers
        /\ \A n \in RunNumbers :
             /\ pc'[e][n] = IF n = started[e] + 1 THEN "load" ELSE pc[e][n]
             /\ madeAt'[e][n] = IF n = started[e] + 1 THEN made[e] ELSE madeAt[e][n]
     \/ /\ state[e] = "delayed" /\ state'[e] = "waiting" /\ made'[e] = made[e]
        /\ stalls'[e] = stalls[e] /\ started'[e] = started[e] /\ RunsQuiet(e) /\ ListenerQuiet(e)
     \/ /\ state[e] = "active" /\ state'[e] \in {"waiting", "failed"}
        /\ stalls'[e] = stalls[e] + 1 /\ started'[e] = started[e] /\ RunsQuiet(e)
        /\ state'[e] = "failed" => stalls'[e] > MaxStalled
        /\ ListenerQuiet(e) \/ (state'[e] = "failed" /\ listener'[e] = "due")

\* The listener ends with the row updated or not.
ListenerMoves(e) ==
  /\ QueueQuiet(e) /\ RunsQuiet(e) /\ SendQuiet(e) /\ PostQuiet(e) /\ BlurQuiet(e)
  /\ attemptCount'[e] = attemptCount[e]
  /\ listener[e] = "due" /\ listener'[e] = "quiet"
  /\ \/ row'[e] = "dead_letter" /\ unmarked'[e] = unmarked[e]
     \/ row'[e] = row[e] /\ unmarked'[e]

\* Run n looks at the endpoint, dies, or sends the POST.
RunLooks(e, n) ==
  /\ QueueQuiet(e) /\ RowQuiet(e) /\ SendQuiet(e) /\ PostQuiet(e) /\ ListenerQuiet(e) /\ BlurQuiet(e)
  /\ \/ isActive[e] /\ RunMoves(e, n, "load", "post")
     \/ ~isActive[e] /\ RunMoves(e, n, "load", "revoked")
     \/ pc[e][n] \in Running /\ RunMoves(e, n, pc[e][n], "dead")
RunPosts(e, n) ==
  /\ QueueQuiet(e) /\ RowQuiet(e) /\ SendQuiet(e) /\ ListenerQuiet(e)
  /\ posts'[e] = posts[e] + 1
  /\ latePosts'[e] = IF isActive[e] THEN latePosts[e] ELSE latePosts[e] + 1
  /\ \/ RunMoves(e, n, "post", "success") /\ acks'[e] = acks[e] + 1 /\ BlurQuiet(e)
     \/ RunMoves(e, n, "post", "failure") /\ acks'[e] = acks[e] /\ BlurQuiet(e)
     \/ RunMoves(e, n, "post", "failure") /\ acks'[e] = acks[e] + 1 /\ blurred'[e]

\* Run n writes what came of it, or its query is rejected.
Writes(e, n, status) == row'[e] = status /\ attemptCount'[e] = madeAt[e][n] + 1
RunRecords(e, n) ==
  /\ QueueQuiet(e) /\ SendQuiet(e) /\ PostQuiet(e) /\ ListenerQuiet(e)
  /\ \/ RunMoves(e, n, "success", "return") /\ Writes(e, n, "success") /\ BlurQuiet(e)
     \/ RunMoves(e, n, "failure", "throw") /\ Writes(e, n, "failed") /\ BlurQuiet(e)
     \/ RunMoves(e, n, "revoked", "return") /\ Writes(e, n, "failed") /\ BlurQuiet(e)
     \/ /\ faults' = faults + 1
        /\ \/ RunMoves(e, n, "load", "throw") /\ RowQuiet(e) /\ BlurQuiet(e)
           \/ /\ RunMoves(e, n, "success", "throw") /\ blurred'[e]
              /\ RowQuiet(e) \/ Writes(e, n, "success")
           \/ /\ RunMoves(e, n, "failure", "throw") \/ RunMoves(e, n, "revoked", "throw")
              /\ RowQuiet(e) \/ Writes(e, n, "failed")
              /\ BlurQuiet(e)

\* Run n is over: the queue takes its result if it holds the lock.
RunEnds(e, n) ==
  /\ RowQuiet(e) /\ SendQuiet(e) /\ PostQuiet(e) /\ BlurQuiet(e)
  /\ stalls'[e] = stalls[e] /\ started'[e] = started[e] /\ unmarked'[e] = unmarked[e]
  /\ \/ RunMoves(e, n, "return", "over") \/ RunMoves(e, n, "throw", "over")
  /\ \/ ~HoldsLock(e, n) /\ QueueQuiet(e) /\ ListenerQuiet(e)
     \/ /\ HoldsLock(e, n) /\ pc[e][n] = "return"
        /\ state'[e] = "completed" /\ made'[e] = made[e] + 1 /\ ListenerQuiet(e)
     \/ /\ HoldsLock(e, n) /\ pc[e][n] = "throw" /\ made'[e] = made[e] + 1
        /\ IF made[e] + 1 < Attempts
             THEN state'[e] = "delayed" /\ ListenerQuiet(e)
             ELSE state'[e] = "failed" /\ listener'[e] = "due"

Effect(e) ==
  \/ Untouched(e) \/ SendMoves(e) \/ QueueMoves(e) \/ ListenerMoves(e)
  \/ \E n \in RunNumbers : RunLooks(e, n) \/ RunPosts(e, n) \/ RunRecords(e, n) \/ RunEnds(e, n)

LEMMA RunEffect ==
  ASSUME TypeOK, QueueInv, NEW e \in Jobs, NEW n \in RunNumbers, RunStep(e, n)
  PROVE  RunLooks(e, n) \/ RunPosts(e, n) \/ RunRecords(e, n) \/ RunEnds(e, n)
  <1>0. \A step \in Steps : Goto(e, n, step) =>
          \A m \in RunNumbers : pc'[e][m] = IF m = n THEN step ELSE pc[e][m]
    BY GotoMoves DEF TypeOK, RunType
  <1>01. \A step \in {"load", "post", "success", "failure", "revoked", "return", "throw", "over", "dead"} :
           step \in Steps
    BY DEF Steps
  <1>02. /\ Bump(posts, e)[e] = posts[e] + 1 /\ Bump(acks, e)[e] = acks[e] + 1
         /\ Bump(latePosts, e)[e] = latePosts[e] + 1 /\ Note(blurred, e)[e]
    BY DEF Bump, Note, TypeOK
  <1> USE <1>0, <1>01, <1>02
          DEF QueueQuiet, RowQuiet, SendQuiet, PostQuiet, ListenerQuiet, BlurQuiet, RunMoves,
              delivery, worker, history, queue
  <1>1. CASE LoadEndpoint(e, n)
    BY <1>1 DEF LoadEndpoint, AfterLoad, RunLooks
  <1>2. CASE Die(e, n)
    BY <1>2 DEF Die, RunLooks, Running
  <1>3. CASE PostAccepted(e, n)
    BY <1>3 DEF PostAccepted, PostSent, RunPosts
  <1>4. CASE PostFails(e, n)
    BY <1>4 DEF PostFails, PostSent, RunPosts
  <1>5. ASSUME NEW step \in DOMAIN Outcome, WriteRow(e, n, step)
        PROVE  Writes(e, n, Outcome[step])
    BY <1>5 DEF WriteRow, SetRow, Writes, TypeOK
  <1>6. CASE Record(e, n)
    BY <1>5, <1>6 DEF Record, RunRecords, Outcome, Ending
  <1>7. CASE QueryFails(e, n)
    BY <1>5, <1>7 DEF QueryFails, Fault, RunRecords, Outcome
  <1>8. CASE Return(e, n)
    BY <1>8 DEF Return, RunEnds, Complete, Move, QueueInv, QueueTypeOK
  <1>9. CASE Throw(e, n)
    BY <1>9, QueueAssumption
       DEF Throw, EmitFailed, Exhausted, RunEnds, Fail, Move, HoldsLock, QueueInv, QueueTypeOK,
           RunsAccounted, TypeOK
  <1> QED
    BY <1>1, <1>2, <1>3, <1>4, <1>6, <1>7, <1>8, <1>9 DEF RunStep, process

\* A step for one endpoint has one of these effects there and leaves the others alone.
LEMMA JobStepEffect ==
  ASSUME TypeOK, QueueInv, NEW e \in Jobs, JobStep(e), NEW i \in Jobs
  PROVE  (IF i = e THEN Effect(i) ELSE Untouched(i)) /\ faults' \in {faults, faults + 1}
  <1>0. faults \in Nat
    BY DEF TypeOK
  <1> USE DEF QueueQuiet, RunsQuiet, RowQuiet, SendQuiet, PostQuiet, ListenerQuiet, BlurQuiet,
              queue, delivery, worker, history
  <1>3. ASSUME SendStep(e)
        PROVE  (IF i = e THEN SendMoves(i) ELSE Untouched(i)) /\ faults' \in {faults, faults + 1}
    <2>0. Note(orphaned, e)[e] /\ (i # e => Note(orphaned, e)[i] = orphaned[i])
      BY DEF Note, TypeOK
    <2>00. Fault => faults' > 0 /\ faults' \in {faults, faults + 1}
      BY <1>0 DEF Fault
    <2> USE <1>0, <2>0, <2>00 DEF SendMoves, Untouched, Send, SetRow, TypeOK
    <2>1. CASE CreateRow(e) \/ Revoke(e)
      BY <2>1 DEF CreateRow, Revoke
    <2>2. CASE AddJob(e)
      BY <2>2 DEF AddJob, Add, Move, QueueTypeOK
    <2>3. CASE CreateRowFails(e)
      BY <2>3 DEF CreateRowFails
    <2>4. CASE AddJobFails(e)
      BY <2>4 DEF AddJobFails, Add, Move, QueueTypeOK
    <2>5. CASE SenderDies(e)
      BY <2>5 DEF SenderDies
    <2> QED
      BY <1>3, <2>1, <2>2, <2>3, <2>4, <2>5 DEF SendStep, enqueueOne
  <1>4. ASSUME QueueSideStep(e)
        PROVE  /\ IF i = e THEN QueueMoves(i) \/ ListenerMoves(i) ELSE Untouched(i)
               /\ faults' \in {faults, faults + 1}
    <2> USE <1>0 DEF QueueMoves, ListenerMoves, Untouched, Move, TypeOK, QueueTypeOK
    <2>1. CASE Start(e)
      <3>1. started[e] + 1 \in RunNumbers
        BY <2>1, NextRunNumber DEF Start, Take
      <3>2. /\ pc' = [pc EXCEPT ![e][started[e] + 1] = "load"]
            /\ madeAt' = [madeAt EXCEPT ![e][started[e] + 1] = made[e]]
        BY <2>1 DEF Start, Goto
      <3>3. \A j \in Jobs : \A n \in RunNumbers :
              /\ pc'[j][n] = IF j = e /\ n = started[e] + 1 THEN "load" ELSE pc[j][n]
              /\ madeAt'[j][n] = IF j = e /\ n = started[e] + 1 THEN made[e] ELSE madeAt[j][n]
        BY <3>1, <3>2
      <3> QED
        BY <2>1, <3>1, <3>3 DEF Start, Take
    <2>2. CASE BackoffEnds(e)
      BY <2>2 DEF BackoffEnds, Promote
    <2>3. CASE JobStalls(e)
      BY <2>3, QueueAssumption DEF JobStalls, Stall, StalledOut, EmitFailed
    <2>4. CASE MarkDeadLetter(e)
      BY <2>4 DEF MarkDeadLetter, SetRow
    <2>5. CASE MarkDeadLetterFails(e)
      BY <2>5 DEF MarkDeadLetterFails, Fault, Note
    <2> QED
      BY <1>4, <2>1, <2>2, <2>3, <2>4, <2>5 DEF QueueSideStep
  <1>5. ASSUME NEW n \in RunNumbers, RunStep(e, n), i # e
        PROVE  Untouched(i)
    <2>0. \A step \in Steps : Goto(e, n, step) => \A m \in RunNumbers : pc'[i][m] = pc[i][m]
      BY <1>5, GotoMoves DEF TypeOK, RunType
    <2>00. \A step \in {"load", "post", "success", "failure", "revoked", "return", "throw",
                        "over", "dead"} : step \in Steps
      BY DEF Steps
    <2>1. Bump(posts, e)[i] = posts[i] /\ Bump(acks, e)[i] = acks[i]
            /\ Bump(latePosts, e)[i] = latePosts[i] /\ Note(blurred, e)[i] = blurred[i]
      BY <1>5 DEF Bump, Note, TypeOK
    <2>2. \A step \in DOMAIN Outcome : WriteRow(e, n, step) => RowQuiet(i)
      BY <1>5 DEF WriteRow, SetRow, TypeOK
    <2> USE <1>5, <2>0, <2>00, <2>1, <2>2 DEF Untouched
    <2>3. CASE LoadEndpoint(e, n) \/ Die(e, n)
      BY <2>3 DEF LoadEndpoint, AfterLoad, Die
    <2>4. CASE PostAccepted(e, n) \/ PostFails(e, n)
      BY <2>4 DEF PostAccepted, PostFails, PostSent
    <2>5. CASE Record(e, n)
      BY <2>5 DEF Record, Outcome, Ending
    <2>6. CASE QueryFails(e, n)
      BY <2>6 DEF QueryFails, Outcome
    <2>7. CASE Return(e, n)
      BY <2>7 DEF Return, Complete, Move, TypeOK, QueueTypeOK
    <2>8. CASE Throw(e, n)
      BY <2>8 DEF Throw, EmitFailed, Fail, Move, TypeOK, QueueTypeOK
    <2> QED
      BY <2>3, <2>4, <2>5, <2>6, <2>7, <2>8 DEF RunStep, process
  <1>6. ASSUME NEW n \in RunNumbers, RunStep(e, n)
        PROVE  faults' \in {faults, faults + 1}
    BY <1>0, <1>6 DEF RunStep, process, LoadEndpoint, PostAccepted, PostFails, Record, Return, Throw,
                      QueryFails, Fault, Die
  <1> QED
    BY <1>3, <1>4, <1>5, <1>6, RunEffect DEF JobStep, Effect

\* The start of the dispatch touches the senders of all endpoints, and nothing else.
LEMMA DispatchEffect ==
  ASSUME TypeOK, Dispatch \/ DispatchFails, NEW i \in Jobs
  PROVE  /\ SendMoves(i) /\ faults' \in {faults, faults + 1}
         /\ UNCHANGED <<queue, isActive, delivery, worker, history>>
  BY DEF Dispatch, DispatchFails, Fault, SendMoves, TypeOK, QueueQuiet, RunsQuiet, RowQuiet,
         SendQuiet, PostQuiet, ListenerQuiet, BlurQuiet, queue, delivery, worker, history

\* Every step leaves a job alone or has one of these effects on it.
LEMMA StepEffect ==
  ASSUME TypeOK, QueueInv, [Next]_vars, NEW i \in Jobs
  PROVE  Effect(i) /\ faults \in Nat /\ faults' \in {faults, faults + 1}
  <1>0. faults \in Nat
    BY DEF TypeOK
  <1>1. CASE UNCHANGED vars
    BY <1>0, <1>1 DEF vars, Effect, Untouched, QueueQuiet, RunsQuiet, RowQuiet, SendQuiet,
                      PostQuiet, ListenerQuiet, BlurQuiet, queue, delivery, worker, history
  <1>2. CASE Dispatch \/ DispatchFails
    BY <1>0, <1>2, DispatchEffect DEF Effect
  <1>3. ASSUME NEW e \in Jobs, JobStep(e) PROVE Effect(i) /\ faults' \in {faults, faults + 1}
    BY <1>3, JobStepEffect DEF Effect
  <1> QED
    BY <1>0, <1>1, <1>2, <1>3, NextSteps

-----------------------------------------------------------------------------
(* The invariant of one job.                                               *)

\* What a step may rely on, about the job of e.
Facts(e) ==
  /\ QueueTypeOK /\ RunsAccounted /\ faults \in Nat
  /\ attemptCount[e] \in Nat /\ posts[e] \in Nat /\ acks[e] \in Nat
  /\ \A n \in RunNumbers : pc[e][n] \in Steps
  /\ row[e] \in RowStates /\ sender[e] \in SenderSteps
  /\ listener[e] \in {"quiet", "due"}

LEMMA FactsHold == TypeOK /\ QueueInv => \A e \in Jobs : Facts(e)
  BY QueueAssumption DEF TypeOK, QueueInv, Facts

LEMMA RunsStep ==
  ASSUME NEW e \in Jobs, Facts(e), Facts(e)', RunsInv(e), Effect(e)
  PROVE  RunsInv(e)'
  <1> USE DEF Facts, RunsInv, HoldsLock, QueueTypeOK, Acting, Running,
              QueueQuiet, RunsQuiet, RunMoves
  <1>1. CASE Untouched(e) \/ ListenerMoves(e)
    BY <1>1 DEF Untouched, ListenerMoves
  <1>2. CASE SendMoves(e)
    BY <1>2 DEF SendMoves
  <1>3. CASE QueueMoves(e)
    BY <1>3 DEF QueueMoves, RunNumbers
  <1>4. ASSUME NEW n \in RunNumbers, RunLooks(e, n) \/ RunPosts(e, n) \/ RunRecords(e, n)
        PROVE  RunsInv(e)'
    BY <1>4 DEF RunLooks, RunPosts, RunRecords
  <1>5. ASSUME NEW n \in RunNumbers, RunEnds(e, n) PROVE RunsInv(e)'
    BY <1>5 DEF RunEnds
  <1> QED
    BY <1>1, <1>2, <1>3, <1>4, <1>5 DEF Effect

\* Only jobs that were queued have runs under way.
LEMMA RunsNeedJob ==
  ASSUME NEW e \in Jobs, Facts(e), RunsInv(e), NEW n \in RunNumbers, pc[e][n] # "idle"
  PROVE  state[e] # "none"
  BY DEF Facts, RunsInv, RunsAccounted, QueueTypeOK, RunNumbers

LEMMA SenderStep ==
  ASSUME NEW e \in Jobs, Facts(e), faults' \in {faults, faults + 1},
         RunsInv(e), SenderInv(e), Effect(e)
  PROVE  SenderInv(e)'
  <1> USE DEF Facts, SenderInv, QueueQuiet, RowQuiet, SendQuiet, ListenerQuiet
  <1>1. CASE Untouched(e)
    BY <1>1 DEF Untouched
  <1>2. CASE SendMoves(e)
    BY <1>2 DEF SendMoves
  <1>3. CASE QueueMoves(e)
    BY <1>3 DEF QueueMoves
  <1>4. CASE ListenerMoves(e)
    BY <1>4 DEF ListenerMoves
  <1>5. ASSUME NEW n \in RunNumbers, RunLooks(e, n) \/ RunPosts(e, n) PROVE SenderInv(e)'
    BY <1>5 DEF RunLooks, RunPosts
  <1>6. ASSUME NEW n \in RunNumbers, RunRecords(e, n) PROVE SenderInv(e)'
    BY <1>6, RunsNeedJob DEF RunRecords, RunMoves, Writes
  <1>7. ASSUME NEW n \in RunNumbers, RunEnds(e, n) PROVE SenderInv(e)'
    BY <1>7 DEF RunEnds, HoldsLock
  <1> QED
    BY <1>1, <1>2, <1>3, <1>4, <1>5, <1>6, <1>7 DEF Effect

LEMMA OutcomesStep ==
  ASSUME NEW e \in Jobs, Facts(e), Facts(e)', RunsInv(e), SenderInv(e), OutcomesInv(e), Effect(e)
  PROVE  OutcomesInv(e)'
  <1> SUFFICES ASSUME stalls'[e] = 0 PROVE OutcomesInv(e)'
    BY DEF OutcomesInv
  <1>0. stalls[e] = 0
    BY DEF Effect, Untouched, SendMoves, QueueMoves, ListenerMoves, RunLooks, RunPosts, RunRecords,
           RunEnds, QueueQuiet, Facts, QueueTypeOK
  <1> USE <1>0 DEF Facts, RunsInv, SenderInv, OutcomesInv, Told, HoldsLock, Acting, Running,
              QueueTypeOK, QueueQuiet, RunsQuiet, RowQuiet, SendQuiet, PostQuiet, ListenerQuiet,
              BlurQuiet, RunMoves
  <1>1. CASE Untouched(e)
    BY <1>1 DEF Untouched
  <1>2. CASE SendMoves(e)
    BY <1>2 DEF SendMoves
  <1>3. CASE QueueMoves(e)
    BY <1>3 DEF QueueMoves
  <1>4. CASE ListenerMoves(e)
    BY <1>4 DEF ListenerMoves
  <1>5. ASSUME NEW n \in RunNumbers, RunLooks(e, n) PROVE OutcomesInv(e)'
    BY <1>5 DEF RunLooks
  <1>6. ASSUME NEW n \in RunNumbers, RunPosts(e, n) PROVE OutcomesInv(e)'
    BY <1>6 DEF RunPosts
  <1>7. ASSUME NEW n \in RunNumbers, RunRecords(e, n) PROVE OutcomesInv(e)'
    BY <1>7 DEF RunRecords, Writes
  <1>8. ASSUME NEW n \in RunNumbers, RunEnds(e, n) PROVE OutcomesInv(e)'
    BY <1>8, QueueAssumption DEF RunEnds, RunsAccounted
  <1> QED
    BY <1>1, <1>2, <1>3, <1>4, <1>5, <1>6, <1>7, <1>8 DEF Effect

LEMMA CountsStep ==
  ASSUME NEW e \in Jobs, Facts(e), Facts(e)', faults' \in {faults, faults + 1},
         RunsInv(e), SenderInv(e), OutcomesInv(e), CountsInv(e), Effect(e)
  PROVE  CountsInv(e)'
  <1> SUFFICES ASSUME stalls'[e] = 0 PROVE CountsInv(e)'
    BY DEF CountsInv
  <1>0. stalls[e] = 0
    BY DEF Effect, Untouched, SendMoves, QueueMoves, ListenerMoves, RunLooks, RunPosts, RunRecords,
           RunEnds, QueueQuiet, Facts, QueueTypeOK
  <1> USE <1>0 DEF Facts, RunsInv, SenderInv, CountsInv, HoldsLock, Acting, Running,
              QueueTypeOK, QueueQuiet, RunsQuiet, RowQuiet, SendQuiet, PostQuiet, ListenerQuiet,
              BlurQuiet, RunMoves
  <1>1. CASE Untouched(e)
    BY <1>1 DEF Untouched
  <1>2. CASE SendMoves(e)
    BY <1>2 DEF SendMoves
  <1>3. CASE QueueMoves(e)
    BY <1>3 DEF QueueMoves
  <1>4. CASE ListenerMoves(e)
    BY <1>4 DEF ListenerMoves
  <1>5. ASSUME NEW n \in RunNumbers, RunLooks(e, n) PROVE CountsInv(e)'
    BY <1>5 DEF RunLooks
  <1>6. ASSUME NEW n \in RunNumbers, RunPosts(e, n) PROVE CountsInv(e)'
    BY <1>6 DEF RunPosts
  <1>7. ASSUME NEW n \in RunNumbers, RunRecords(e, n) PROVE CountsInv(e)'
    BY <1>7 DEF RunRecords, Writes
  <1>8. ASSUME NEW n \in RunNumbers, RunEnds(e, n) PROVE CountsInv(e)'
    BY <1>8, QueueAssumption DEF RunEnds, RunsAccounted
  <1> QED
    BY <1>1, <1>2, <1>3, <1>4, <1>5, <1>6, <1>7, <1>8 DEF Effect

-----------------------------------------------------------------------------
(* Runs without the lock.                                                  *)

\* Only a stall makes a run lose its lock.
LEMMA StaleStep ==
  ASSUME NEW e \in Jobs, Facts(e), Facts(e)', RunsInv(e), LateInv(e), Effect(e)
  PROVE  /\ Cardinality(Stale(e))' <= stalls'[e]
         /\ stalls'[e] >= stalls[e]
  <1>0. Stale(e) \in SUBSET RunNumbers /\ Stale(e)' \in SUBSET RunNumbers
    BY DEF Stale
  <1>1. CASE stalls'[e] = stalls[e]
    <2>1. Stale(e)' \subseteq Stale(e)
      <3> USE <1>1 DEF Stale, HoldsLock, Facts, RunsInv, Running, QueueTypeOK, QueueQuiet, RunsQuiet, RunMoves
      <3>1. CASE Untouched(e) \/ SendMoves(e) \/ ListenerMoves(e)
        BY <3>1 DEF Untouched, SendMoves, ListenerMoves
      <3>2. CASE QueueMoves(e)
        BY <3>2 DEF QueueMoves
      <3>3. ASSUME NEW n \in RunNumbers, RunLooks(e, n) \/ RunPosts(e, n) \/ RunRecords(e, n)
            PROVE  Stale(e)' \subseteq Stale(e)
        BY <3>3 DEF RunLooks, RunPosts, RunRecords
      <3>4. ASSUME NEW n \in RunNumbers, RunEnds(e, n) PROVE Stale(e)' \subseteq Stale(e)
        BY <3>4 DEF RunEnds
      <3> QED
        BY <3>1, <3>2, <3>3, <3>4 DEF Effect
    <2> QED
      BY <1>0, <1>1, <2>1, FewerRuns, RunsAreFinite DEF LateInv, Facts, QueueTypeOK
  <1>2. CASE stalls'[e] # stalls[e]
    <2>1. /\ state[e] = "active" /\ RunsQuiet(e) /\ stalls'[e] = stalls[e] + 1
          /\ state'[e] # "active" /\ started'[e] = started[e]
      BY <1>2 DEF Effect, Untouched, SendMoves, QueueMoves, ListenerMoves, RunLooks, RunPosts,
                  RunRecords, RunEnds, QueueQuiet
    <2>2. CASE started[e] \in RunNumbers
      <3>1. Stale(e)' \subseteq Stale(e) \cup {started[e]}
        BY <2>1 DEF Stale, HoldsLock, RunsQuiet
      <3> QED
        BY <1>0, <2>1, <2>2, <3>1, OneMoreRun, RunsAreFinite DEF LateInv, Facts, QueueTypeOK
    <2>3. CASE started[e] \notin RunNumbers
      <3>1. Stale(e)' \subseteq Stale(e)
        BY <2>1, <2>3 DEF Stale, HoldsLock, RunsQuiet
      <3> QED
        BY <1>0, <2>1, <3>1, FewerRuns, RunsAreFinite DEF LateInv, Facts, QueueTypeOK
    <2> QED
      BY <2>1, <2>2, <2>3 DEF Facts, QueueTypeOK
  <1> QED
    BY <1>1, <1>2 DEF Facts, QueueTypeOK

\* Runs about to send are those without the lock and at most one with it.
LEMMA PostingRuns ==
  ASSUME NEW e \in Jobs, Facts(e), LateInv(e)
  PROVE  Cardinality(Posting(e)) <= 1 + stalls[e]
  <1>0. Stale(e) \in SUBSET RunNumbers /\ Posting(e) \in SUBSET RunNumbers
    BY DEF Stale, Posting
  <1>1. CASE started[e] \in RunNumbers
    <2>1. Posting(e) \subseteq Stale(e) \cup {started[e]}
      BY DEF Posting, Stale, HoldsLock, Running
    <2> QED
      BY <1>0, <1>1, <2>1, OneMoreRun, RunsAreFinite DEF LateInv, Facts, QueueTypeOK
  <1>2. CASE started[e] \notin RunNumbers
    <2>1. Posting(e) \subseteq Stale(e)
      BY <1>2 DEF Posting, Stale, HoldsLock, Running
    <2> QED
      BY <1>0, <2>1, FewerRuns, RunsAreFinite DEF LateInv, Facts, QueueTypeOK
  <1> QED
    BY <1>1, <1>2

LEMMA LateStep ==
  ASSUME NEW e \in Jobs, Facts(e), Facts(e)', latePosts[e] \in Nat, isActive[e] \in BOOLEAN,
         RunsInv(e), LateInv(e), Effect(e)
  PROVE  LateInv(e)'
  <1>0. Posting(e) \in SUBSET RunNumbers /\ Posting(e)' \in SUBSET RunNumbers
    BY DEF Posting
  <1>1. Cardinality(Stale(e))' <= stalls'[e] /\ stalls'[e] >= stalls[e]
    BY StaleStep
  <1>2. ASSUME NEW n \in RunNumbers, RunPosts(e, n) PROVE LateInv(e)'
    <2>1. n \in Posting(e) /\ Posting(e)' = Posting(e) \ {n}
      BY <1>2 DEF RunPosts, RunMoves, Posting
    <2>2. Cardinality(Posting(e))' + 1 = Cardinality(Posting(e))
      BY <1>0, <2>1, OneRunLess
    <2> QED
      BY <1>0, <1>1, <1>2, <2>2, RunsAreFinite
         DEF LateInv, RunPosts, SendQuiet, QueueQuiet, Facts, QueueTypeOK
  <1>3. CASE ~\E n \in RunNumbers : RunPosts(e, n)
    <2>1. latePosts'[e] = latePosts[e] /\ (isActive'[e] => isActive[e])
      BY <1>3 DEF Effect, Untouched, SendMoves, QueueMoves, ListenerMoves, RunLooks, RunRecords,
                  RunEnds, PostQuiet, SendQuiet
    <2>2. CASE isActive[e]
      <3>1. CASE isActive'[e]
        BY <1>1, <2>1, <2>2, <3>1 DEF LateInv
      <3>2. CASE ~isActive'[e]
        <4>1. RunsQuiet(e)
          BY <2>2, <3>2 DEF Effect, Untouched, SendMoves, QueueMoves, ListenerMoves, RunLooks,
                            RunPosts, RunRecords, RunEnds, SendQuiet
        <4>2. Posting(e)' = Posting(e)
          BY <4>1 DEF Posting, RunsQuiet
        <4> QED
          BY <1>0, <1>1, <2>1, <2>2, <3>2, <4>2, PostingRuns, RunsAreFinite
             DEF LateInv, Facts, QueueTypeOK
      <3> QED
        BY <3>1, <3>2
    <2>3. CASE ~isActive[e]
      <3>1. Posting(e)' \subseteq Posting(e)
        BY <1>3, <2>3 DEF Effect, Untouched, SendMoves, QueueMoves, ListenerMoves, RunLooks,
                         RunRecords, RunEnds, RunsQuiet, RunMoves, Posting
      <3>2. Cardinality(Posting(e))' <= Cardinality(Posting(e))
        BY <1>0, <3>1, FewerRuns
      <3> QED
        BY <1>0, <1>1, <2>1, <2>3, <3>2, RunsAreFinite DEF LateInv, Facts, QueueTypeOK
    <2> QED
      BY <2>2, <2>3
  <1> QED
    BY <1>2, <1>3

-----------------------------------------------------------------------------
(* Theorems.                                                               *)

LEMMA IInvInit == Init => IInv
  <1> SUFFICES ASSUME Init PROVE IInv
    OBVIOUS
  <1>1. TypeOK /\ QueueInv
    BY DeliveryInit
  <1>2. ASSUME NEW e \in Jobs PROVE JobInv(e)
    <2>1. RunsInv(e) /\ SenderInv(e)
      BY DEF Init, QueueInit, RunsInv, SenderInv, HoldsLock, Acting, Running
    <2>2. OutcomesInv(e) /\ CountsInv(e)
      BY DEF Init, QueueInit, OutcomesInv, CountsInv, HoldsLock
    <2>3. Stale(e) = {}
      BY DEF Init, QueueInit, Stale, Running
    <2>4. LateInv(e)
      BY <2>3, FS_EmptySet DEF Init, QueueInit, LateInv
    <2> QED
      BY <2>1, <2>2, <2>4 DEF JobInv
  <1> QED
    BY <1>1, <1>2 DEF IInv

LEMMA IInvStep == IInv /\ [Next]_vars => IInv'
  <1> SUFFICES ASSUME IInv, [Next]_vars PROVE IInv'
    OBVIOUS
  <1>1. TypeOK /\ QueueInv /\ TypeOK' /\ QueueInv'
    BY TypeStep, QueueStays DEF IInv
  <1>2. ASSUME NEW e \in Jobs PROVE JobInv(e)'
    <2>1. Effect(e) /\ faults' \in {faults, faults + 1}
      BY <1>1, StepEffect
    <2>2. Facts(e) /\ Facts(e)'
      BY <1>1, QueueAssumption DEF TypeOK, QueueInv, Facts
    <2>3. latePosts[e] \in Nat /\ isActive[e] \in BOOLEAN
      BY <1>1 DEF TypeOK
    <2>4. RunsInv(e) /\ SenderInv(e) /\ OutcomesInv(e) /\ CountsInv(e) /\ LateInv(e)
      BY DEF IInv, JobInv
    <2> QED
      BY <2>1, <2>2, <2>3, <2>4, RunsStep, SenderStep, OutcomesStep, CountsStep, LateStep DEF JobInv
  <1> QED
    BY <1>1, <1>2 DEF IInv

LEMMA Invariance == Spec => []IInv
  BY IInvInit, IInvStep, PTL DEF Spec

\* No job is queued for a delivery without a row, and a row is left without a job,
\* or an active endpoint without a row, only by a dispatch that broke off.
THEOREM RowsComeBeforeJobs == Spec => []RowBeforeJob
  <1>1. IInv => RowBeforeJob
    BY DEF IInv, JobInv, SenderInv, RowBeforeJob
  <1> QED
    BY Invariance, <1>1, PTL

\* An endpoint that accepted an event gets it again only after a stall, or when
\* its answer or the update that records it got lost.
THEOREM RepeatsAreFaults == Spec => []RepeatedOnlyByFault
  <1>1. IInv => RepeatedOnlyByFault
    BY DEF IInv, JobInv, OutcomesInv, RepeatedOnlyByFault, TypeOK, QueueTypeOK
  <1> QED
    BY Invariance, <1>1, PTL

\* Without a stall attemptCount differs from the POSTs sent by rejected queries
\* at most, and a dead letter had all its tries.
THEOREM TriesCounted == Spec => []TriesAreCounted
  <1>1. ASSUME IInv PROVE TriesAreCounted
    <2>1. ASSUME NEW e \in Jobs, row[e] \in {"success", "dead_letter"}, stalls[e] = 0
          PROVE  /\ posts[e] - attemptCount[e] \in -faults .. faults
                 /\ row[e] = "dead_letter" /\ faults = 0 /\ ~blurred[e] =>
                      attemptCount[e] = Attempts /\ acks[e] = 0
      <3>1. /\ Facts(e) /\ SenderInv(e) /\ OutcomesInv(e) /\ CountsInv(e)
            /\ attemptCount[e] \in 0 .. Attempts
        BY <1>1, FactsHold DEF IInv, JobInv, TypeOK
      <3>2. posts[e] - attemptCount[e] \in -faults .. faults
        BY <2>1, <3>1 DEF CountsInv, Facts
      <3> QED
        BY <2>1, <3>1, <3>2, QueueAssumption DEF SenderInv, OutcomesInv, CountsInv, Facts
    <2> QED
      BY <2>1 DEF TriesAreCounted
  <1> QED
    BY Invariance, <1>1, PTL

\* Without a stall, a delivery that was given up is a dead letter once its listener is
\* done, and one whose job completed was accepted, or its endpoint revoked.
THEOREM EndsAreRecorded == Spec => []EndIsRecorded
  <1>1. IInv => EndIsRecorded
    BY DEF IInv, JobInv, OutcomesInv, Told, EndIsRecorded
  <1> QED
    BY Invariance, <1>1, PTL

\* After a revocation each run that can still be under way sends one POST at most.
THEOREM RevokedFallsQuiet == Spec => []RevokedIsQuiet
  <1>1. ASSUME IInv PROVE RevokedIsQuiet
    <2>1. ASSUME NEW e \in Jobs PROVE latePosts[e] <= 1 + stalls[e]
      <3>1. LateInv(e) /\ Facts(e) /\ latePosts[e] \in Nat
        BY <1>1, FactsHold DEF IInv, JobInv, TypeOK
      <3>2. Cardinality(Posting(e)) \in Nat
        BY RunsAreFinite DEF Posting
      <3> QED
        BY <3>1, <3>2 DEF LateInv, Facts, QueueTypeOK
    <2> QED
      BY <2>1 DEF RevokedIsQuiet
  <1> QED
    BY Invariance, <1>1, PTL

\* No retry moves a row out of success or dead_letter.
THEOREM FinalStatusesStay == Spec => FinalStatusStays
  <1>1. IInv /\ [Next]_vars =>
          [\A e \in Jobs : row[e] \in {"success", "dead_letter"} /\ stalls[e] = 0 /\ ~blurred[e]
                            => row'[e] = row[e]]_vars
    <2> SUFFICES ASSUME IInv, [Next]_vars
                 PROVE  \A e \in Jobs :
                          row[e] \in {"success", "dead_letter"} /\ stalls[e] = 0 /\ ~blurred[e]
                            => row'[e] = row[e]
      OBVIOUS
    <2>1. ASSUME NEW e \in Jobs, row[e] \in {"success", "dead_letter"}, stalls[e] = 0, ~blurred[e]
          PROVE  row'[e] = row[e]
      <3>1. Effect(e)
        BY StepEffect DEF IInv
      <3>2. RunsInv(e) /\ SenderInv(e) /\ OutcomesInv(e)
        BY DEF IInv, JobInv
      <3> QED
        BY <2>1, <3>1, <3>2
           DEF Effect, Untouched, SendMoves, QueueMoves, ListenerMoves, RunLooks, RunPosts, RunRecords,
               RunEnds, RowQuiet, RunMoves, Writes, RunsInv, SenderInv, OutcomesInv, HoldsLock, Acting,
               Running
    <2> QED
      BY <2>1
  <1> QED
    BY Invariance, <1>1, PTL DEF Spec, FinalStatusStays

-----------------------------------------------------------------------------
(* The contract.                                                           *)

\* What a run knows of its endpoint, whatever other runs do meanwhile.
HonestInv(e) ==
  \A n \in RunNumbers :
    /\ pc[e][n] = "success" => acks[e] > 0
    /\ pc[e][n] = "failure" => posts[e] > 0
    /\ pc[e][n] = "revoked" => ~isActive[e]
    /\ pc[e][n] = "return" => row[e] \notin {"none", "pending"} /\ (acks[e] > 0 \/ ~isActive[e])

\* What the contract sees of e is not changed.
Unseen(e) == UNCHANGED <<isActive[e], row[e], job[e], heard[e]>>

\* Only one of the four changes, and the contract allows it.
StatusMoves(e) ==
  /\ UNCHANGED <<isActive[e], job[e], heard[e]>>
  /\ \/ row[e] = "none" /\ job[e] = "none" /\ row'[e] = "pending"
     \/ row[e] # "none" /\ heard[e] = "accepted" /\ row'[e] = "success"
     \/ row[e] # "none" /\ (heard[e] # "nothing" \/ ~isActive[e]) /\ row'[e] = "failed"
     \/ job[e] = "failed" /\ row'[e] = "dead_letter"
JobMoves(e) ==
  /\ UNCHANGED <<isActive[e], row[e], heard[e]>>
  /\ \/ row[e] # "none" /\ job[e] = "none" /\ job'[e] = "open"
     \/ job[e] = "open" /\ job'[e] = "failed"
     \/ /\ row[e] \in {"success", "failed"} /\ (heard[e] = "accepted" \/ ~isActive[e])
        /\ job[e] = "open" /\ job'[e] = "completed"
HeardMoves(e) ==
  /\ UNCHANGED <<isActive[e], row[e], job[e]>> /\ job[e] # "none"
  /\ heard'[e] = "accepted" \/ (heard[e] # "accepted" /\ heard'[e] = "sent")
Deactivated(e) == UNCHANGED <<row[e], job[e], heard[e]>> /\ isActive[e] /\ ~isActive'[e]
Promised(e) == StatusMoves(e) \/ JobMoves(e) \/ HeardMoves(e) \/ Deactivated(e)

LEMMA HonestStep ==
  ASSUME NEW e \in Jobs, Facts(e), RunsInv(e), SenderInv(e), HonestInv(e), Effect(e)
  PROVE  HonestInv(e)'
  <1> USE DEF Facts, HonestInv, QueueQuiet, RunsQuiet, RowQuiet, SendQuiet, PostQuiet, RunMoves
  <1>1. CASE Untouched(e)
    BY <1>1 DEF Untouched
  <1>2. CASE SendMoves(e)
    <2>1. row'[e] = row[e] \/ \A n \in RunNumbers : pc[e][n] = "idle"
      BY <1>2, RunsNeedJob DEF SendMoves, SenderInv
    <2> QED
      BY <1>2, <2>1 DEF SendMoves
  <1>3. CASE QueueMoves(e)
    BY <1>3 DEF QueueMoves
  <1>4. CASE ListenerMoves(e)
    BY <1>4 DEF ListenerMoves
  <1>5. ASSUME NEW n \in RunNumbers, RunLooks(e, n) PROVE HonestInv(e)'
    BY <1>5 DEF RunLooks
  <1>6. ASSUME NEW n \in RunNumbers, RunPosts(e, n) PROVE HonestInv(e)'
    BY <1>6 DEF RunPosts
  <1>7. ASSUME NEW n \in RunNumbers, RunRecords(e, n) PROVE HonestInv(e)'
    BY <1>7 DEF RunRecords, Writes
  <1>8. ASSUME NEW n \in RunNumbers, RunEnds(e, n) PROVE HonestInv(e)'
    BY <1>8 DEF RunEnds
  <1> QED
    BY <1>1, <1>2, <1>3, <1>4, <1>5, <1>6, <1>7, <1>8 DEF Effect

\* Whatever happens at an endpoint is something the contract allows, or out of its sight.
LEMMA PromisedStep ==
  ASSUME NEW e \in Jobs, Facts(e), RunsInv(e), SenderInv(e), HonestInv(e), Effect(e),
         isActive[e] \in BOOLEAN, isActive'[e] \in BOOLEAN
  PROVE  Promised(e) \/ Unseen(e)
  <1>0. /\ job[e] = IF state[e] \in {"waiting", "active", "delayed"} THEN "open" ELSE state[e]
        /\ job'[e] = IF state'[e] \in {"waiting", "active", "delayed"} THEN "open" ELSE state'[e]
        /\ heard[e] = IF acks[e] > 0 THEN "accepted" ELSE IF posts[e] > 0 THEN "sent" ELSE "nothing"
        /\ heard'[e] = IF acks'[e] > 0 THEN "accepted"
                       ELSE IF posts'[e] > 0 THEN "sent" ELSE "nothing"
    BY DEF job, heard
  <1>00. PostQuiet(e) => heard'[e] = heard[e]
    BY <1>0 DEF PostQuiet
  <1>000. state'[e] = state[e] => job'[e] = job[e]
    BY <1>0
  <1> USE <1>0, <1>00, <1>000
          DEF Facts, QueueQuiet, RowQuiet, SendQuiet, Promised, Unseen
  <1>1. CASE Untouched(e)
    BY <1>1 DEF Untouched
  <1>2. CASE SendMoves(e)
    BY <1>2 DEF SendMoves, SenderInv, StatusMoves, JobMoves, Deactivated
  <1>3. CASE QueueMoves(e)
    BY <1>3 DEF QueueMoves, JobMoves
  <1>4. CASE ListenerMoves(e)
    BY <1>4 DEF ListenerMoves, SenderInv, StatusMoves
  <1>5. ASSUME NEW n \in RunNumbers, RunLooks(e, n) PROVE Unseen(e)
    BY <1>5 DEF RunLooks
  <1>6. ASSUME NEW n \in RunNumbers, RunPosts(e, n) PROVE HeardMoves(e)
    <2>1. state[e] # "none"
      BY <1>6, RunsNeedJob DEF RunPosts, RunMoves
    <2> QED
      BY <1>6, <2>1 DEF RunPosts, HeardMoves, QueueTypeOK, States
  <1>7. ASSUME NEW n \in RunNumbers, RunRecords(e, n) PROVE StatusMoves(e) \/ Unseen(e)
    <2>1. row[e] # "none"
      BY <1>7, RunsNeedJob DEF RunRecords, RunMoves, SenderInv
    <2> QED
      BY <1>7, <2>1 DEF RunRecords, RunMoves, Writes, StatusMoves, HonestInv
  <1>8. ASSUME NEW n \in RunNumbers, RunEnds(e, n) PROVE JobMoves(e) \/ Unseen(e)
    BY <1>8 DEF RunEnds, RunMoves, HoldsLock, JobMoves, HonestInv, SenderInv, RowStates
  <1> QED
    BY <1>1, <1>2, <1>3, <1>4, <1>5, <1>6, <1>7, <1>8 DEF Effect

\* Where one endpoint makes a promised step and the others are left alone, the contract
\* makes a step.
LEMMA PromisesLift ==
  ASSUME TypeOK, TypeOK', NEW e \in Jobs, Promised(e), \A i \in Jobs : i # e => Unseen(i)
  PROVE  Contract!Next
  <1>1. /\ isActive \in [Jobs -> BOOLEAN] /\ isActive' \in [Jobs -> BOOLEAN]
        /\ row \in [Jobs -> RowStates] /\ row' \in [Jobs -> RowStates]
    BY DEF TypeOK
  <1>2. /\ DOMAIN job = Jobs /\ DOMAIN job' = Jobs
        /\ job = [i \in Jobs |-> job[i]] /\ job' = [i \in Jobs |-> job'[i]]
    BY DEF job
  <1>3. /\ DOMAIN heard = Jobs /\ DOMAIN heard' = Jobs
        /\ heard = [i \in Jobs |-> heard[i]] /\ heard' = [i \in Jobs |-> heard'[i]]
    BY DEF heard
  <1>4. /\ isActive'[e] = isActive[e] => isActive' = isActive
        /\ row'[e] = row[e] => row' = row
        /\ job'[e] = job[e] => job' = job
        /\ heard'[e] = heard[e] => heard' = heard
    BY <1>1, <1>2, <1>3 DEF Unseen
  <1>5. CASE StatusMoves(e)
    <2>1. row' = [row EXCEPT ![e] = row'[e]]
      BY <1>1 DEF Unseen
    <2>2. Contract!Say(e, row'[e])
      BY <1>4, <1>5, <2>1 DEF StatusMoves, Contract!Say
    <2>3. Contract!Plan(e) \/ Contract!Succeed(e) \/ Contract!Fail(e) \/ Contract!Bury(e)
      BY <1>5, <2>2
         DEF StatusMoves, Contract!Plan, Contract!Succeed, Contract!Fail, Contract!Bury
    <2> QED
      BY <2>3 DEF Contract!Next
  <1>6. CASE JobMoves(e)
    <2>1. job' = [job EXCEPT ![e] = job'[e]]
      BY <1>2 DEF Unseen
    <2>2. Contract!Turn(e, job[e], job'[e])
      BY <1>4, <1>6, <2>1 DEF JobMoves, Contract!Turn
    <2>3. Contract!Queue(e) \/ Contract!GiveUp(e) \/ Contract!Complete(e)
      BY <1>6, <2>2 DEF JobMoves, Contract!Queue, Contract!GiveUp, Contract!Complete
    <2> QED
      BY <2>3 DEF Contract!Next
  <1>7. CASE HeardMoves(e)
    <2>1. heard' = [heard EXCEPT ![e] = heard'[e]]
      BY <1>3 DEF Unseen
    <2>2. Contract!Hear(e, heard'[e])
      BY <1>4, <1>7, <2>1 DEF HeardMoves, Contract!Hear
    <2>3. Contract!Accept(e) \/ Contract!Refuse(e)
      BY <1>7, <2>2 DEF HeardMoves, Contract!Accept, Contract!Refuse
    <2> QED
      BY <2>3 DEF Contract!Next
  <1>8. CASE Deactivated(e)
    <2>1. isActive' = [isActive EXCEPT ![e] = FALSE]
      BY <1>1, <1>8 DEF Deactivated, Unseen
    <2>2. Contract!Revoke(e)
      BY <1>4, <1>8, <2>1 DEF Deactivated, Contract!Revoke
    <2> QED
      BY <2>2 DEF Contract!Next
  <1> QED
    BY <1>5, <1>6, <1>7, <1>8 DEF Promised

LEMMA ContractStep ==
  ASSUME IInv, \A e \in Jobs : HonestInv(e), [Next]_vars
  PROVE  Contract!Next \/ UNCHANGED <<isActive, row, job, heard>>
  <1>0. TypeOK /\ QueueInv /\ TypeOK'
    BY TypeStep DEF IInv
  <1>1. CASE UNCHANGED vars
    BY <1>1 DEF vars, queue, delivery, history, job, heard
  <1>2. CASE Dispatch \/ DispatchFails
    BY <1>2 DEF Dispatch, DispatchFails, queue, delivery, history, job, heard
  <1>3. ASSUME NEW e \in Jobs, JobStep(e)
        PROVE  Contract!Next \/ UNCHANGED <<isActive, row, job, heard>>
    <2>1. ASSUME NEW i \in Jobs, i # e PROVE Unseen(i)
      <3>1. Untouched(i)
        BY <1>0, <1>3, <2>1, JobStepEffect
      <3> QED
        BY <3>1 DEF Untouched, QueueQuiet, RowQuiet, SendQuiet, PostQuiet, Unseen, job, heard
    <2>2. Promised(e) \/ Unseen(e)
      <3>1. Effect(e) /\ Facts(e) /\ RunsInv(e) /\ SenderInv(e)
        BY <1>0, <1>3, JobStepEffect, FactsHold DEF IInv, JobInv
      <3>2. isActive[e] \in BOOLEAN /\ isActive'[e] \in BOOLEAN
        BY <1>0 DEF TypeOK
      <3> QED
        BY <3>1, <3>2, PromisedStep
    <2>3. CASE \A i \in Jobs : Unseen(i)
      <3>1. isActive' = isActive /\ row' = row
        BY <1>0, <2>3 DEF TypeOK, Unseen
      <3>2. job' = job
        <4>1. job = [i \in Jobs |-> job[i]] /\ job' = [i \in Jobs |-> job'[i]]
          BY DEF job
        <4> QED
          BY <2>3, <4>1 DEF Unseen
      <3>3. heard' = heard
        <4>1. heard = [i \in Jobs |-> heard[i]] /\ heard' = [i \in Jobs |-> heard'[i]]
          BY DEF heard
        <4> QED
          BY <2>3, <4>1 DEF Unseen
      <3> QED
        BY <3>1, <3>2, <3>3
    <2> QED
      BY <1>0, <2>1, <2>2, <2>3, PromisesLift
  <1> QED
    BY <1>1, <1>2, <1>3, NextSteps

\* Rows and jobs keep to DeliveryContract, with any stalls, overlapping runs and faults:
\* every step is one of its steps on one endpoint, or out of its sight.
THEOREM DeliveriesMeetContract == Spec => MeetsContract
  <1> DEFINE Honest == \A e \in Jobs : HonestInv(e)
  <1>1. Init => Honest /\ Contract!Init
    BY DEF Init, QueueInit, HonestInv, job, heard, Contract!Init
  <1>2. IInv /\ Honest /\ [Next]_vars => Honest'
    <2> SUFFICES ASSUME IInv, Honest, [Next]_vars, NEW e \in Jobs PROVE HonestInv(e)'
      OBVIOUS
    <2>1. Effect(e) /\ Facts(e) /\ RunsInv(e) /\ SenderInv(e)
      BY StepEffect, FactsHold DEF IInv, JobInv
    <2> QED
      BY <2>1, HonestStep
  <1>3. IInv /\ Honest /\ [Next]_vars => [Contract!Next]_(Contract!vars)
    BY ContractStep DEF Contract!vars
  <1> HIDE DEF Honest
  <1> QED
    BY <1>1, <1>2, <1>3, Invariance, PTL DEF Spec, MeetsContract, Contract!Spec

-----------------------------------------------------------------------------
(* What keeps a row pending.                                               *)

\* A row is pending because its job is on the way to the queue or never gets there, or
\* is open; or it failed, and the listener is about to update the row, could not, or is
\* never called with a row that any run wrote: the job stalled out.
PendingExplained ==
  \A e \in Jobs : row[e] = "pending" =>
    \/ state[e] = "none" /\ (sender[e] = "add" \/ orphaned[e])
    \/ state[e] \in {"waiting", "active", "delayed"}
    \/ state[e] = "failed" /\ (listener[e] = "due" \/ unmarked[e] \/ stalls[e] > MaxStalled)

\* The jobs that have ended are the part of it that the other invariants lack.
EndExplained(e) ==
  row[e] = "pending" =>
    /\ state[e] # "completed"
    /\ state[e] = "failed" => listener[e] = "due" \/ unmarked[e] \/ stalls[e] > MaxStalled

LEMMA ExplainedStep ==
  ASSUME NEW e \in Jobs, Facts(e), RunsInv(e), SenderInv(e), HonestInv(e), EndExplained(e), Effect(e)
  PROVE  EndExplained(e)'
  <1> USE DEF Facts, EndExplained, QueueQuiet, RowQuiet, ListenerQuiet
  <1>1. CASE Untouched(e)
    BY <1>1 DEF Untouched
  <1>2. CASE SendMoves(e)
    BY <1>2 DEF SendMoves, SenderInv
  <1>3. CASE QueueMoves(e)
    BY <1>3 DEF QueueMoves
  <1>4. CASE ListenerMoves(e)
    BY <1>4 DEF ListenerMoves
  <1>5. ASSUME NEW n \in RunNumbers, RunLooks(e, n) \/ RunPosts(e, n) PROVE EndExplained(e)'
    BY <1>5 DEF RunLooks, RunPosts
  <1>6. ASSUME NEW n \in RunNumbers, RunRecords(e, n) PROVE EndExplained(e)'
    BY <1>6 DEF RunRecords, Writes
  <1>7. ASSUME NEW n \in RunNumbers, RunEnds(e, n) PROVE EndExplained(e)'
    BY <1>7 DEF RunEnds, HonestInv
  <1> QED
    BY <1>1, <1>2, <1>3, <1>4, <1>5, <1>6, <1>7 DEF Effect

\* The safety half of PendingIsResolved: in every state, a row that is pending has one
\* of the reasons above, and the ones that last are the three exceptions it names.
THEOREM PendingIsExplained == Spec => []PendingExplained
  <1> DEFINE Honest == \A e \in Jobs : HonestInv(e) /\ EndExplained(e)
  <1>1. Init => Honest
    <2>1. Init => \A e \in Jobs : HonestInv(e)
      BY DEF Init, HonestInv
    <2>2. Init => \A e \in Jobs : EndExplained(e)
      BY DEF Init, EndExplained
    <2> QED
      BY <2>1, <2>2
  <1>2. IInv /\ Honest /\ [Next]_vars => Honest'
    <2> SUFFICES ASSUME IInv, Honest, [Next]_vars, NEW e \in Jobs
                 PROVE  HonestInv(e)' /\ EndExplained(e)'
      OBVIOUS
    <2>1. Effect(e) /\ Facts(e) /\ RunsInv(e) /\ SenderInv(e)
      BY StepEffect, FactsHold DEF IInv, JobInv
    <2> QED
      BY <2>1, HonestStep, ExplainedStep
  <1>3. IInv /\ Honest => PendingExplained
    BY DEF IInv, JobInv, SenderInv, TypeOK, QueueTypeOK, States, EndExplained, PendingExplained
  <1> HIDE DEF Honest
  <1> QED
    BY <1>1, <1>2, <1>3, Invariance, PTL DEF Spec

-----------------------------------------------------------------------------
(* Every delivery comes to an end.                                         *)

\* Steps a run has left: the longest way to its end, which a death cuts short.
StepsLeft(step) ==
  CASE step = "load" -> 7
    [] step = "post" -> 6
    [] step \in {"success", "failure", "revoked"} -> 5
    [] step \in {"return", "throw"} -> 3
    [] step = "dead" -> 1
    [] OTHER -> 0

\* What is left of the job of e and of the run that holds its lock.
Fuel(e) == FuelOf(state[e], made[e], stalls[e], StepsLeft(pc[e][started[e]]))

\* A job that is active is never out of hands: the run with its lock is going on or
\* is dead, for the stalled checker to find.
Tended ==
  \A e \in Jobs : state[e] = "active" =>
    \E n \in RunNumbers : HoldsLock(e, n) /\ pc[e][n] \in Acting

\* Every step of a job takes it nearer to its end, or it is the step of an overtaken
\* run, which comes nearer to its own, or of another actor.
RunsDown ==
  [][\A e \in Jobs : state[e] # "none" =>
       \/ Fuel(e)' < Fuel(e)
       \/ /\ UNCHANGED <<state[e], made[e], stalls[e], started[e]>>
          /\ \A n \in RunNumbers :
               \/ pc'[e][n] = pc[e][n]
               \/ ~HoldsLock(e, n) /\ StepsLeft(pc'[e][n]) < StepsLeft(pc[e][n])]_vars

ProgressFacts == IInv /\ RunsBounded

LEMMA ProgressInvariant == Spec => []ProgressFacts
  <1>1. Init => RunsBounded
    BY RunsBoundedInit DEF Init
  <1>2. IInv /\ RunsBounded /\ [Next]_vars => RunsBounded'
    BY QueueCommand, RunsBoundedStep, RunsBoundedStutter DEF IInv
  <1>3. IInv /\ RunsBounded => ProgressFacts
    BY DEF ProgressFacts
  <1> QED
    BY <1>1, <1>2, <1>3, Invariance, PTL DEF Spec

\* An active job is in the hands of its last run.
LEMMA HolderActs ==
  ASSUME IInv, NEW e \in Jobs, state[e] = "active"
  PROVE  /\ started[e] \in RunNumbers /\ HoldsLock(e, started[e])
         /\ pc[e][started[e]] \in Acting /\ StepsLeft(pc[e][started[e]]) \in 1 .. 7
  <1>1. started[e] \in RunNumbers /\ HoldsLock(e, started[e])
    BY QueueAssumption DEF IInv, QueueInv, QueueTypeOK, RunsAccounted, RunNumbers, HoldsLock
  <1>2. pc[e][started[e]] \in Acting
    BY <1>1 DEF IInv, JobInv, RunsInv
  <1> QED
    BY <1>1, <1>2 DEF Acting, Running, StepsLeft

\* The queue acts on the job of e or leaves it alone.
LEMMA QueueSide ==
  ASSUME TypeOK, [Next]_vars, NEW e \in Jobs
  PROVE  QueueStep(e) \/ QueueQuiet(e)
  <1>1. ASSUME NEW i \in Jobs, i # e, QueueStep(i) PROVE QueueQuiet(e)
    BY <1>1 DEF QueueStep, Add, Take, Complete, Fail, Promote, Stall, Move, QueueQuiet, TypeOK,
                QueueTypeOK
  <1>2. UNCHANGED queue => QueueQuiet(e)
    BY DEF queue, QueueQuiet
  <1> QED
    BY <1>1, <1>2, QueueCommand

\* While the queue does nothing to the job, only a run of it moves, towards its end.
LEMMA RunStepsDown ==
  ASSUME NEW e \in Jobs, Facts(e), Effect(e), QueueQuiet(e)
  PROVE  \/ \A n \in RunNumbers : pc'[e][n] = pc[e][n]
         \/ \E n \in RunNumbers :
              /\ StepsLeft(pc'[e][n]) < StepsLeft(pc[e][n])
              /\ \A m \in RunNumbers : m # n => pc'[e][m] = pc[e][m]
  <1> DEFINE Down(n) == /\ StepsLeft(pc'[e][n]) < StepsLeft(pc[e][n])
                        /\ \A m \in RunNumbers : m # n => pc'[e][m] = pc[e][m]
  <1>1. CASE Untouched(e) \/ SendMoves(e) \/ ListenerMoves(e)
    BY <1>1 DEF Untouched, SendMoves, ListenerMoves, RunsQuiet
  <1>2. ~QueueMoves(e)
    BY DEF QueueMoves, QueueQuiet
  <1>3. ASSUME NEW n \in RunNumbers, RunLooks(e, n) PROVE Down(n)
    BY <1>3 DEF RunLooks, RunMoves, Running, StepsLeft
  <1>4. ASSUME NEW n \in RunNumbers, RunPosts(e, n) PROVE Down(n)
    BY <1>4 DEF RunPosts, RunMoves, StepsLeft
  <1>5. ASSUME NEW n \in RunNumbers, RunRecords(e, n) PROVE Down(n)
    BY <1>5 DEF RunRecords, RunMoves, StepsLeft
  <1>6. ASSUME NEW n \in RunNumbers, RunEnds(e, n) PROVE Down(n)
    BY <1>6 DEF RunEnds, RunMoves, StepsLeft
  <1> QED
    BY <1>1, <1>2, <1>3, <1>4, <1>5, <1>6 DEF Effect

LEMMA SpendStep ==
  ASSUME IInv, [Next]_vars, NEW e \in Jobs, state[e] # "none"
  PROVE  \/ Fuel(e)' < Fuel(e)
         \/ /\ UNCHANGED <<state[e], made[e], stalls[e], started[e]>>
            /\ \A n \in RunNumbers :
                 \/ pc'[e][n] = pc[e][n]
                 \/ ~HoldsLock(e, n) /\ StepsLeft(pc'[e][n]) < StepsLeft(pc[e][n])
  <1>0. IInv'
    BY IInvStep
  <1>1. state[e] = "active" => StepsLeft(pc[e][started[e]]) \in 1 .. 7
    BY HolderActs
  <1>2. state'[e] = "active" => StepsLeft(pc[e][started[e]])' \in 1 .. 7
    <2> SUFFICES ASSUME state'[e] = "active" PROVE StepsLeft(pc[e][started[e]])' \in 1 .. 7
      OBVIOUS
    <2>1. started'[e] \in RunNumbers
      BY <1>0, QueueAssumption DEF IInv, QueueInv, QueueTypeOK, RunsAccounted, RunNumbers
    <2>2. pc'[e][started'[e]] \in Acting
      BY <1>0, <2>1 DEF IInv, JobInv, RunsInv, HoldsLock
    <2> QED
      BY <2>2 DEF Acting, Running, StepsLeft
  <1>3. CASE QueueStep(e)
    <2>1. FuelOf(state'[e], made'[e], stalls'[e], StepsLeft(pc[e][started[e]])')
            < FuelOf(state[e], made[e], stalls[e], StepsLeft(pc[e][started[e]]))
      BY <1>1, <1>2, <1>3, QueueSpends DEF IInv
    <2> QED
      BY <2>1 DEF Fuel
  <1>4. CASE QueueQuiet(e)
    <2>1. Facts(e) /\ Effect(e)
      BY FactsHold, StepEffect DEF IInv
    <2>2. ASSUME NEW n \in RunNumbers, HoldsLock(e, n),
                 StepsLeft(pc'[e][n]) < StepsLeft(pc[e][n])
          PROVE  Fuel(e)' < Fuel(e)
      <3>1. state[e] = "active" /\ state'[e] = "active" /\ started[e] = n /\ started'[e] = n
        BY <1>4, <2>2 DEF HoldsLock, QueueQuiet
      <3>2. /\ Fuel(e) = 10 * (Attempts + MaxStalled + 1 - made[e] - stalls[e])
                           + StepsLeft(pc[e][n])
            /\ Fuel(e)' = 10 * (Attempts + MaxStalled + 1 - made[e] - stalls[e])
                           + StepsLeft(pc'[e][n])
        BY <1>4, <3>1 DEF Fuel, FuelOf, QueueQuiet
      <3>3. made[e] \in Nat /\ stalls[e] \in Nat
        BY <2>1 DEF Facts, QueueTypeOK
      <3> QED
        BY <1>1, <1>2, <2>2, <3>1, <3>2, <3>3, QueueAssumption
    <2>3. UNCHANGED <<state[e], made[e], stalls[e], started[e]>>
      BY <1>4 DEF QueueQuiet
    <2> QED
      BY <1>4, <2>1, <2>2, <2>3, RunStepsDown
  <1> QED
    BY <1>3, <1>4, QueueSide DEF IInv

\* No delivery that was queued is ever left without a run or the queue to go on with
\* it, and what is left of it is a natural number.
THEOREM DeliveriesAreTended == Spec => [](Tended /\ \A e \in Jobs : Fuel(e) \in Nat)
  <1>1. ProgressFacts => Tended
    BY HolderActs DEF ProgressFacts, Tended
  <1>2. ProgressFacts => \A e \in Jobs : Fuel(e) \in Nat
    <2> SUFFICES ASSUME ProgressFacts, NEW e \in Jobs PROVE Fuel(e) \in Nat
      OBVIOUS
    <2>1. state[e] = "active" => StepsLeft(pc[e][started[e]]) \in Nat
      BY HolderActs DEF ProgressFacts
    <2> QED
      BY <2>1, FuelIsNatural DEF ProgressFacts, IInv, Fuel
  <1> QED
    BY <1>1, <1>2, ProgressInvariant, PTL

\* Every step that goes on with a delivery makes less of what is left of it: what
\* PendingIsResolved adds is that these steps are taken.
THEOREM DeliveriesRunDown == Spec => RunsDown
  <1>1. ProgressFacts /\ [Next]_vars =>
          [\A e \in Jobs : state[e] # "none" =>
             \/ Fuel(e)' < Fuel(e)
             \/ /\ UNCHANGED <<state[e], made[e], stalls[e], started[e]>>
                /\ \A n \in RunNumbers :
                     \/ pc'[e][n] = pc[e][n]
                     \/ ~HoldsLock(e, n) /\ StepsLeft(pc'[e][n]) < StepsLeft(pc[e][n])]_vars
    BY SpendStep DEF ProgressFacts
  <1> QED
    BY <1>1, ProgressInvariant, PTL DEF Spec, RunsDown

-----------------------------------------------------------------------------
(* How often an endpoint hears of an event.                                *)

\* Runs, with the lock or without, that may still send.
Sending(e) == {n \in RunNumbers : pc[e][n] \in {"load", "post"}}

\* No run sends twice: POSTs sent and POSTs to come are runs that were taken.
PostsInv == \A e \in Jobs : posts[e] + Cardinality(Sending(e)) <= started[e]

\* Whatever fails, stalls or is overtaken, an endpoint gets one event as often as the
\* job has attempts, and once more for each stall that is forgiven, at the most.
PostsBounded == \A e \in Jobs : posts[e] <= Attempts + MaxStalled

LEMMA SendingRuns ==
  ASSUME NEW e \in Jobs
  PROVE  /\ Sending(e) \in SUBSET RunNumbers /\ Cardinality(Sending(e)) \in Nat
         /\ Sending(e)' \in SUBSET RunNumbers /\ Cardinality(Sending(e))' \in Nat
  <1>1. Sending(e) \in SUBSET RunNumbers /\ Sending(e)' \in SUBSET RunNumbers
    BY DEF Sending
  <1> QED
    BY <1>1, RunsAreFinite

LEMMA PostsStep == IInv /\ PostsInv /\ [Next]_vars => PostsInv'
  <1> SUFFICES ASSUME IInv, PostsInv, [Next]_vars, NEW e \in Jobs
               PROVE  posts'[e] + Cardinality(Sending(e))' <= started'[e]
    BY DEF PostsInv
  <1>0. /\ Facts(e) /\ posts[e] \in Nat /\ started[e] \in Nat
        /\ posts[e] + Cardinality(Sending(e)) <= started[e]
    BY FactsHold DEF IInv, Facts, QueueTypeOK, PostsInv
  <1>1. Effect(e)
    BY StepEffect DEF IInv
  <1>2. ASSUME NEW n \in RunNumbers, RunPosts(e, n)
        PROVE  posts'[e] + Cardinality(Sending(e))' <= started'[e]
    <2>1. n \in Sending(e) /\ Sending(e)' = Sending(e) \ {n}
      BY <1>2 DEF RunPosts, RunMoves, Sending
    <2>2. Cardinality(Sending(e))' + 1 = Cardinality(Sending(e))
      BY <2>1, SendingRuns, OneRunLess
    <2> QED
      BY <1>0, <1>2, <2>2, SendingRuns DEF RunPosts, QueueQuiet
  <1>3. ASSUME state[e] = "waiting", QueueMoves(e)
        PROVE  posts'[e] + Cardinality(Sending(e))' <= started'[e]
    <2>1. /\ posts'[e] = posts[e] /\ started'[e] = started[e] + 1
          /\ started[e] + 1 \in RunNumbers
          /\ Sending(e)' \subseteq Sending(e) \cup {started[e] + 1}
      BY <1>3 DEF QueueMoves, PostQuiet, Sending
    <2>2. Cardinality(Sending(e))' <= Cardinality(Sending(e)) + 1
      BY <2>1, SendingRuns, OneMoreRun
    <2> QED
      BY <1>0, <2>1, <2>2, SendingRuns
  <1>4. ASSUME ~\E n \in RunNumbers : RunPosts(e, n), ~(state[e] = "waiting" /\ QueueMoves(e))
        PROVE  posts'[e] + Cardinality(Sending(e))' <= started'[e]
    <2>1. /\ posts'[e] = posts[e] /\ started'[e] = started[e]
          /\ Sending(e)' \subseteq Sending(e)
      <3> USE DEF Sending, QueueQuiet, RunsQuiet, PostQuiet, RunMoves
      <3>1. CASE Untouched(e) \/ SendMoves(e) \/ ListenerMoves(e)
        BY <3>1 DEF Untouched, SendMoves, ListenerMoves
      <3>2. CASE QueueMoves(e)
        BY <1>4, <3>2 DEF QueueMoves
      <3>3. ASSUME NEW n \in RunNumbers, RunLooks(e, n) \/ RunRecords(e, n) \/ RunEnds(e, n)
            PROVE  /\ posts'[e] = posts[e] /\ started'[e] = started[e]
                   /\ Sending(e)' \subseteq Sending(e)
        BY <3>3 DEF RunLooks, RunRecords, RunEnds
      <3> QED
        BY <1>1, <1>4, <3>1, <3>2, <3>3 DEF Effect
    <2>2. Cardinality(Sending(e))' <= Cardinality(Sending(e))
      BY <2>1, SendingRuns, FewerRuns
    <2> QED
      BY <1>0, <2>1, <2>2, SendingRuns
  <1> QED
    BY <1>2, <1>3, <1>4

\* One POST for an attempt, one for a forgiven stall, and never more.
THEOREM PostsAreBounded == Spec => []PostsBounded
  <1>1. Init => PostsInv
    <2> SUFFICES ASSUME Init, NEW e \in Jobs
                 PROVE  posts[e] + Cardinality(Sending(e)) <= started[e]
      BY DEF PostsInv
    <2>1. posts[e] = 0 /\ started[e] = 0 /\ Sending(e) = {}
      BY DEF Init, QueueInit, Sending
    <2> QED
      BY <2>1, FS_EmptySet
  <1>2. IInv /\ PostsInv /\ [Next]_vars => PostsInv'
    BY PostsStep
  <1>3. ProgressFacts /\ PostsInv => PostsBounded
    <2> SUFFICES ASSUME ProgressFacts, PostsInv, NEW e \in Jobs
                 PROVE  posts[e] <= Attempts + MaxStalled
      BY DEF PostsBounded
    <2>1. /\ posts[e] \in Nat /\ started[e] \in Nat /\ started[e] <= Attempts + MaxStalled
          /\ posts[e] + Cardinality(Sending(e)) <= started[e]
      BY DEF ProgressFacts, IInv, TypeOK, QueueTypeOK, RunsBounded, PostsInv
    <2> QED
      BY <2>1, SendingRuns, QueueAssumption
  <1> QED
    BY <1>1, <1>2, <1>3, Invariance, ProgressInvariant, PTL DEF Spec
=============================================================================
