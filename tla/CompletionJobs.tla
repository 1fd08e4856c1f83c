---------------------------- MODULE CompletionJobs ----------------------------
(***************************************************************************)
(* Asynchronous completions: JobsService.enqueue puts a job on the         *)
(* completion queue, CompletionWorker.process runs it (provider, usage     *)
(* log, webhook dispatch, return), JobsService.getJobStatus is polled.     *)
(* Each await of process() is a step, so a run can be cut off, or overtaken *)
(* by a second run of the same job after a stall, at any of them.          *)
(* UsageService.logRequest and WebhookDispatcherService.dispatch are one   *)
(* step each; UsageMeter and WebhookDelivery open them.                    *)
(***************************************************************************)
EXTENDS BullQueue

CONSTANTS
  Polls       \* the GET /v1/jobs/:id requests by the key that owns the job

VARIABLES
  pc,         \* pc[j][n]: the step run n of job j takes next
  madeAt,     \* madeAt[j][n]: job.attemptsMade as run n sees it
  metered,    \* metered[j]: usage rows committed for j
  completedEvents,  \* completedEvents[j]: dispatches of job.completed
  failedEvents,     \* failedEvents[j]: dispatches of job.failed
  doubtful,   \* doubtful[j]: a usage transaction of j committed and still threw (history)
  returnvalue,\* returnvalue[j]: the job has a result in Redis
  poll        \* poll[p]: the progress of a poll and its answer

worker == <<pc, madeAt>>
effects == <<metered, completedEvents, failedEvents, doubtful>>
vars == <<queue, worker, effects, returnvalue, poll>>

Steps == {"idle", "provide", "log", "announce", "return", "notify", "throw", "over", "dead"}
Running == {"provide", "log", "announce", "return", "notify", "throw"}

NoJob == "no job"
NoPoll == [step |-> "new", job |-> NoJob, result |-> FALSE, answer |-> "none"]

TypeOK ==
  /\ QueueTypeOK
  /\ pc \in [Jobs -> [RunNumbers -> Steps]]
  /\ madeAt \in [Jobs -> [RunNumbers -> 0 .. Attempts - 1]]
  /\ metered \in [Jobs -> Nat]
  /\ completedEvents \in [Jobs -> Nat]
  /\ failedEvents \in [Jobs -> Nat]
  /\ doubtful \in [Jobs -> BOOLEAN]
  /\ returnvalue \in [Jobs -> BOOLEAN]
  /\ poll \in [Polls -> [step : {"new", "read", "answered"}, job : Jobs \cup {NoJob},
                         result : BOOLEAN, answer : States]]
  /\ \A p \in Polls : poll[p].step # "new" => poll[p].job \in Jobs

Init ==
  /\ QueueInit
  /\ pc = [j \in Jobs |-> [n \in RunNumbers |-> "idle"]]
  /\ madeAt = [j \in Jobs |-> [n \in RunNumbers |-> 0]]
  /\ metered = [j \in Jobs |-> 0]
  /\ completedEvents = [j \in Jobs |-> 0]
  /\ failedEvents = [j \in Jobs |-> 0]
  /\ doubtful = [j \in Jobs |-> FALSE]
  /\ returnvalue = [j \in Jobs |-> FALSE]
  /\ poll = [p \in Polls |-> NoPoll]

Goto(j, n, step) == pc' = [pc EXCEPT ![j][n] = step]
Bump(f, j) == [f EXCEPT ![j] = @ + 1]

-----------------------------------------------------------------------------
\* JobsService.enqueue.
Enqueue(j) ==
  /\ Add(j)
  /\ UNCHANGED <<worker, effects, returnvalue, poll>>

\* A worker takes the job and calls process() with the job as it is now.
StartCounted(j) ==                           \* mutant: attemptsMade counts the run itself
  LET n == started[j] + 1
  IN  /\ Take(j)
      /\ Goto(j, n, "provide")
      /\ madeAt' = [madeAt EXCEPT ![j][n] = made[j] + 1]
      /\ UNCHANGED <<effects, returnvalue, poll>>

Start(j) ==
  LET n == started[j] + 1
  IN  /\ Take(j)
      /\ Goto(j, n, "provide")
      /\ madeAt' = [madeAt EXCEPT ![j][n] = made[j]]
      /\ UNCHANGED <<effects, returnvalue, poll>>

BackoffEnds(j) ==
  /\ Promote(j)
  /\ UNCHANGED <<worker, effects, returnvalue, poll>>

\* isFinalAttempt of the catch block.  The comment above it gives another test,
\* attemptsMade >= attempts.
LastButOneAttempt(j, n) == madeAt[j][n] + 2 >= Attempts    \* mutant: one too early
IsFinalAttempt(j, n) == madeAt[j][n] + 1 >= Attempts

\* The catch block: job.failed is dispatched on the last attempt only.
RetriesInPlace(j, n) ==                      \* mutant: tried again here, not by the queue
  Goto(j, n, IF IsFinalAttempt(j, n) THEN "notify" ELSE "provide")
Catch(j, n) == Goto(j, n, IF IsFinalAttempt(j, n) THEN "notify" ELSE "throw")

AnnouncedUncharged(j, n) ==                  \* mutant: the event goes out before the log
  /\ pc[j][n] = "provide"
  /\ Goto(j, n, "announce")
  /\ UNCHANGED <<queue, madeAt, effects, returnvalue, poll>>

\* providers.complete resolves.
ProviderAnswers(j, n) ==
  /\ pc[j][n] = "provide"
  /\ Goto(j, n, "log")
  /\ UNCHANGED <<queue, madeAt, effects, returnvalue, poll>>

\* Both providers fail.
ProviderFails(j, n) ==
  /\ pc[j][n] = "provide"
  /\ Catch(j, n)
  /\ UNCHANGED <<queue, madeAt, effects, returnvalue, poll>>

\* usage.logRequest resolves.
Log(j, n) ==
  /\ pc[j][n] = "log"
  /\ metered' = Bump(metered, j)
  /\ Goto(j, n, "announce")
  /\ UNCHANGED <<queue, madeAt, completedEvents, failedEvents, doubtful, returnvalue, poll>>

LogErrorIgnored(j, n) ==                     \* mutant: the error of logRequest is dropped
  /\ pc[j][n] = "log"
  /\ Goto(j, n, "announce")
  /\ UNCHANGED <<queue, madeAt, effects, returnvalue, poll>>

\* usage.logRequest rejects: rolled back, or committed with the answer lost.
LogFails(j, n) ==
  /\ pc[j][n] = "log"
  /\ \/ UNCHANGED <<metered, doubtful>>
     \/ /\ metered' = Bump(metered, j)
        /\ doubtful' = [doubtful EXCEPT ![j] = TRUE]
  /\ Catch(j, n)
  /\ UNCHANGED <<queue, madeAt, completedEvents, failedEvents, returnvalue, poll>>

\* dispatcher.dispatch(job.completed): never rejects, so the catch block below
\* cannot follow it.
DispatchThrows(j, n) ==                      \* mutant: a dispatch error reaches the catch block
  /\ pc[j][n] = "announce"
  /\ completedEvents' = Bump(completedEvents, j)
  /\ Goto(j, n, "return") \/ Catch(j, n)
  /\ UNCHANGED <<queue, madeAt, metered, failedEvents, doubtful, returnvalue, poll>>

DispatchCompleted(j, n) ==
  /\ pc[j][n] = "announce"
  /\ completedEvents' = Bump(completedEvents, j)
  /\ Goto(j, n, "return")
  /\ UNCHANGED <<queue, madeAt, metered, failedEvents, doubtful, returnvalue, poll>>

\* dispatcher.dispatch(job.failed), then the error is thrown again.
DispatchFailed(j, n) ==
  /\ pc[j][n] = "notify"
  /\ failedEvents' = Bump(failedEvents, j)
  /\ Goto(j, n, "throw")
  /\ UNCHANGED <<queue, madeAt, metered, completedEvents, doubtful, returnvalue, poll>>

ReturnByAnyRun(j, n) ==                      \* mutant: a run without the lock stores its result
  /\ pc[j][n] = "return"
  /\ Goto(j, n, "over")
  /\ returnvalue' = [returnvalue EXCEPT ![j] = TRUE]
  /\ IF HoldsLock(j, n) THEN Complete(j) ELSE UNCHANGED queue
  /\ UNCHANGED <<madeAt, effects, poll>>

\* process() returns: the queue takes the result from the run that holds the lock.
Return(j, n) ==
  /\ pc[j][n] = "return"
  /\ Goto(j, n, "over")
  /\ IF HoldsLock(j, n)
       THEN Complete(j) /\ returnvalue' = [returnvalue EXCEPT ![j] = TRUE]
       ELSE UNCHANGED <<queue, returnvalue>>
  /\ UNCHANGED <<madeAt, effects, poll>>

\* process() throws.
Throw(j, n) ==
  /\ pc[j][n] = "throw"
  /\ Goto(j, n, "over")
  /\ IF HoldsLock(j, n) THEN Fail(j) ELSE UNCHANGED queue
  /\ UNCHANGED <<madeAt, effects, returnvalue, poll>>

\* The process that executes the run dies.
Die(j, n) ==
  /\ pc[j][n] \in Running
  /\ Goto(j, n, "dead")
  /\ UNCHANGED <<queue, madeAt, effects, returnvalue, poll>>

\* The stalled checker finds the job without a lock: its run is dead, or is
\* still going on in a process too busy to renew the lock in time.
JobStalls(j) ==
  /\ Stall(j)
  /\ UNCHANGED <<worker, effects, returnvalue, poll>>

JobOfDeadRunStalls(j) ==
  /\ \E n \in RunNumbers : HoldsLock(j, n) /\ pc[j][n] = "dead"
  /\ JobStalls(j)

-----------------------------------------------------------------------------
(* getJobStatus.  Jobs of other keys answer as if they did not exist.      *)

\* queue.getJob: a snapshot of the job, its result included.
PollReads(p, j) ==
  /\ poll[p].step = "new"
  /\ state[j] # "none"
  /\ poll' = [poll EXCEPT ![p] = [step |-> "read", job |-> j, result |-> returnvalue[j],
                                  answer |-> "none"]]
  /\ UNCHANGED <<queue, worker, effects, returnvalue>>

\* job.getState: the state of now, answered with the result of the snapshot.
PollAnswers(p) ==
  /\ poll[p].step = "read"
  /\ poll' = [poll EXCEPT ![p] = [@ EXCEPT !.step = "answered", !.answer = state[poll[p].job]]]
  /\ UNCHANGED <<queue, worker, effects, returnvalue>>

process(j, n) ==
  \/ ProviderAnswers(j, n) \/ ProviderFails(j, n) \/ Log(j, n) \/ LogFails(j, n)
  \/ DispatchCompleted(j, n) \/ DispatchFailed(j, n) \/ Return(j, n) \/ Throw(j, n)

Next ==
  \/ \E j \in Jobs : Enqueue(j) \/ Start(j) \/ BackoffEnds(j) \/ JobStalls(j)
  \/ \E j \in Jobs, n \in RunNumbers : process(j, n) \/ Die(j, n)
  \/ \E p \in Polls : PollAnswers(p) \/ \E j \in Jobs : PollReads(p, j)

\* Some worker is up and takes what waits, timers fire, the HTTP clients of the
\* providers give up in the end, and the stalled checker sees what has no lock.
Fairness ==
  /\ \A j \in Jobs : WF_vars(Start(j)) /\ WF_vars(BackoffEnds(j))
  /\ \A j \in Jobs : WF_vars(JobOfDeadRunStalls(j))
  /\ \A j \in Jobs : \A n \in RunNumbers : WF_vars(process(j, n))

Spec == Init /\ [][Next]_vars
FairSpec == Spec /\ Fairness

-----------------------------------------------------------------------------
\* The owner is told before it can see the end: a job is only ever completed
\* after its usage was committed and a job.completed was dispatched, also when
\* runs of the same job overlap.
CompletedMeansMeteredAndAnnounced ==
  \A j \in Jobs :
    state[j] = "completed" => metered[j] > 0 /\ completedEvents[j] > 0 /\ returnvalue[j]

\* A job that used up its attempts was announced as failed; only a job that the
\* queue fails for stalling too often can end in silence.
FailureIsAnnounced ==
  \A j \in Jobs :
    state[j] = "failed" /\ stalls[j] <= MaxStalled => failedEvents[j] > 0

\* Each stall can repeat the announcement of a job, nothing else can: retries
\* of failed attempts never announce anything twice.
AnnouncedOncePerStall ==
  \A j \in Jobs : completedEvents[j] + failedEvents[j] <= 1 + stalls[j]

\* Retries never charge a job twice; it takes a stall, or a usage transaction
\* that committed although the client of the database saw it fail.
ChargedTwiceOnlyByFault ==
  \A j \in Jobs : metered[j] > 1 => stalls[j] > 0 \/ doubtful[j]

\* Without a stall the owner hears job.failed only of a job that never completes,
\* although the event is sent while the job is still active.
FailedEventIsFinal ==
  \A j \in Jobs :
    failedEvents[j] > 0 /\ stalls[j] = 0 => completedEvents[j] = 0 /\ state[j] \in {"active", "failed"}

\* The result and the state of one answer are read at different moments, but a
\* result is only ever answered with the state completed.
ResultOnlyWhenCompleted ==
  \A p \in Polls :
    poll[p].step = "answered" /\ poll[p].result => poll[p].answer = "completed"

\* Every job that was added ends up completed or failed.
EveryJobSettles == \A j \in Jobs : (state[j] # "none") ~> Settled(j)

\* The worker and the queue keep the contract of the owner, whatever stalls, dies
\* or overlaps: every step of theirs is one of the contract or none of its concern.
outcome ==
  [j \in Jobs |->
     CASE state[j] \in {"none", "completed"} -> state[j]
       [] state[j] = "failed" -> IF stalls[j] > MaxStalled THEN "abandoned" ELSE "failed"
       [] OTHER -> "accepted"]
charged == {j \in Jobs : metered[j] > 0}
told ==
  [j \in Jobs |-> (IF completedEvents[j] > 0 THEN {"completed"} ELSE {})
                    \cup (IF failedEvents[j] > 0 THEN {"failed"} ELSE {})]
answers ==
  [p \in Polls |->
     IF poll[p].step = "answered"
       THEN {[job |-> poll[p].job, state |-> poll[p].answer, result |-> poll[p].result]}
       ELSE {}]

Contract ==
  INSTANCE JobContract WITH outcome <- outcome, charged <- charged, told <- told, answers <- answers
MeetsContract == Contract!Spec

\* completion.worker.ts: "fire job.completed exactly once on success".
CompletedExactlyOnce == \A j \in Jobs : state[j] = "completed" => completedEvents[j] = 1
=============================================================================
