--------------------------- MODULE WebhookDelivery ---------------------------
(***************************************************************************)
(* The delivery of one event to the webhook endpoints of an API key:       *)
(* WebhookDispatcherService.dispatch writes a WebhookDelivery row per       *)
(* active endpoint and queues a job with the same id, WebhookWorker POSTs   *)
(* and updates the row, its listener onFailed turns the row of an           *)
(* exhausted job into a dead letter, WebhooksService revokes endpoints.    *)
(* The job of a delivery is named by its endpoint: rows and jobs of        *)
(* different events never meet.                                            *)
(***************************************************************************)
EXTENDS BullQueue

CONSTANT MaxFaults    \* bound: rejected queries and queue commands, in all

ASSUME FaultAssumption == MaxFaults \in Nat

VARIABLES
  isActive,      \* isActive[e]: the column of WebhookEndpoint e
  row,           \* row[e]: status of the WebhookDelivery row, "none" before it exists
  attemptCount,  \* attemptCount[e]: its column
  sender,        \* sender[e]: the step of dispatch/enqueueOne for endpoint e
  pc,            \* pc[e][n]: the step of run n of the job
  madeAt,        \* madeAt[e][n]: job.attemptsMade as run n sees it
  listener,      \* listener[e]: the 'failed' event of the job that onFailed handles
  faults,        \* rejected commands so far (bound)
  posts,         \* posts[e]: POSTs sent (history)
  acks,          \* acks[e]: 2xx the endpoint sent (history)
  blurred,       \* blurred[e]: a 2xx was not recorded as a success (history)
  orphaned,      \* orphaned[e]: the dispatch died or failed half-way (history)
  unmarked,      \* unmarked[e]: onFailed could not update the row (history)
  latePosts      \* latePosts[e]: POSTs sent after the endpoint was revoked (history)

delivery == <<row, attemptCount>>
worker == <<pc, madeAt>>
history == <<posts, acks, blurred, orphaned, unmarked, latePosts>>
vars == <<queue, isActive, delivery, sender, worker, listener, faults, history>>

RowStates == {"none", "pending", "success", "failed", "dead_letter"}
SenderSteps == {"dispatch", "create", "add", "done"}
Steps == {"idle", "load", "post", "success", "failure", "revoked", "return", "throw",
          "over", "dead"}
Running == {"load", "post", "success", "failure", "revoked", "return", "throw"}

TypeOK ==
  /\ QueueTypeOK
  /\ isActive \in [Jobs -> BOOLEAN]
  /\ row \in [Jobs -> RowStates]
  /\ attemptCount \in [Jobs -> 0 .. Attempts]
  /\ sender \in [Jobs -> SenderSteps]
  /\ pc \in [Jobs -> [RunNumbers -> Steps]]
  /\ madeAt \in [Jobs -> [RunNumbers -> 0 .. Attempts - 1]]
  /\ listener \in [Jobs -> {"quiet", "due"}]
  /\ faults \in Nat
  /\ posts \in [Jobs -> Nat]
  /\ acks \in [Jobs -> Nat]
  /\ blurred \in [Jobs -> BOOLEAN]
  /\ orphaned \in [Jobs -> BOOLEAN]
  /\ unmarked \in [Jobs -> BOOLEAN]
  /\ latePosts \in [Jobs -> Nat]

Init ==
  /\ QueueInit
  /\ isActive = [e \in Jobs |-> TRUE]
  /\ row = [e \in Jobs |-> "none"]
  /\ attemptCount = [e \in Jobs |-> 0]
  /\ sender = [e \in Jobs |-> "dispatch"]
  /\ pc = [e \in Jobs |-> [n \in RunNumbers |-> "idle"]]
  /\ madeAt = [e \in Jobs |-> [n \in RunNumbers |-> 0]]
  /\ listener = [e \in Jobs |-> "quiet"]
  /\ faults = 0
  /\ posts = [e \in Jobs |-> 0]
  /\ acks = [e \in Jobs |-> 0]
  /\ blurred = [e \in Jobs |-> FALSE]
  /\ orphaned = [e \in Jobs |-> FALSE]
  /\ unmarked = [e \in Jobs |-> FALSE]
  /\ latePosts = [e \in Jobs |-> 0]

Goto(e, n, step) == pc' = [pc EXCEPT ![e][n] = step]
SetRow(e, status) == row' = [row EXCEPT ![e] = status]
Send(e, step) == sender' = [sender EXCEPT ![e] = step]
Note(flag, e) == [flag EXCEPT ![e] = TRUE]
Bump(f, e) == [f EXCEPT ![e] = @ + 1]

\* A command that Postgres or Redis rejects.
Fault ==
  /\ faults < MaxFaults
  /\ faults' = faults + 1

-----------------------------------------------------------------------------
(* WebhookDispatcherService.                                               *)

\* dispatch: findMany answers with the endpoints active now, and enqueueOne
\* starts for each of them; the others never hear of the event.
Dispatch ==
  /\ \A e \in Jobs : sender[e] = "dispatch"
  /\ sender' = [e \in Jobs |-> IF isActive[e] THEN "create" ELSE "done"]
  /\ UNCHANGED <<queue, isActive, delivery, worker, listener, faults, history>>

\* findMany rejects: the error is logged, the event is lost for every endpoint.
DispatchFails ==
  /\ \A e \in Jobs : sender[e] = "dispatch"
  /\ Fault
  /\ sender' = [e \in Jobs |-> "done"]
  /\ UNCHANGED <<queue, isActive, delivery, worker, listener, history>>

CreateRow(e) ==
  /\ sender[e] = "create"
  /\ SetRow(e, "pending")
  /\ Send(e, "add")
  /\ UNCHANGED <<queue, isActive, attemptCount, worker, listener, faults, history>>

InsertErrorIgnored(e) ==                     \* mutant: a failed insert does not stop the add
  /\ sender[e] = "create"
  /\ Send(e, "add")
  /\ UNCHANGED <<queue, isActive, delivery, worker, listener, faults, history>>

\* The insert rejects, executed or not: nothing is queued.
CreateRowFails(e) ==
  /\ sender[e] = "create"
  /\ Fault
  /\ SetRow(e, "pending") \/ UNCHANGED row
  /\ Send(e, "done")
  /\ orphaned' = Note(orphaned, e)
  /\ UNCHANGED <<queue, isActive, attemptCount, worker, listener, posts, acks, blurred,
                 unmarked, latePosts>>

AddJob(e) ==
  /\ sender[e] = "add"
  /\ Add(e)
  /\ Send(e, "done")
  /\ UNCHANGED <<isActive, delivery, worker, listener, faults, history>>

\* queue.add rejects, executed or not: the error is logged, the row stays pending.
AddJobFails(e) ==
  /\ sender[e] = "add"
  /\ Fault
  /\ Add(e) \/ UNCHANGED queue
  /\ Send(e, "done")
  /\ orphaned' = Note(orphaned, e)
  /\ UNCHANGED <<isActive, delivery, worker, listener, posts, acks, blurred, unmarked,
                 latePosts>>

\* The process that runs enqueueOne dies.
SenderDies(e) ==
  /\ sender[e] \in {"create", "add"}
  /\ Fault
  /\ Send(e, "done")
  /\ orphaned' = Note(orphaned, e)
  /\ UNCHANGED <<queue, isActive, delivery, worker, listener, posts, acks, blurred, unmarked,
                 latePosts>>

\* WebhooksService.revoke.
Revoke(e) ==
  /\ isActive[e]
  /\ isActive' = [isActive EXCEPT ![e] = FALSE]
  /\ UNCHANGED <<queue, delivery, sender, worker, listener, faults, history>>

-----------------------------------------------------------------------------
(* WebhookWorker.process.                                                  *)

StartCounted(e) ==                           \* mutant: attemptsMade counts the run itself
  LET n == started[e] + 1
  IN  /\ Take(e)
      /\ Goto(e, n, "load")
      /\ madeAt' = [madeAt EXCEPT ![e][n] = made[e] + 1]
      /\ UNCHANGED <<isActive, delivery, sender, listener, faults, history>>
Start(e) ==
  LET n == started[e] + 1
  IN  /\ Take(e)
      /\ Goto(e, n, "load")
      /\ madeAt' = [madeAt EXCEPT ![e][n] = made[e]]
      /\ UNCHANGED <<isActive, delivery, sender, listener, faults, history>>

BackoffEnds(e) ==
  /\ Promote(e)
  /\ UNCHANGED <<isActive, delivery, sender, worker, listener, faults, history>>

\* Where a loaded endpoint sends the run.
DeliverAnyway(e) == "post"                                            \* mutant
DropRevoked(e) == IF isActive[e] THEN "post" ELSE "return"            \* mutant: no update
AfterLoad(e) == IF isActive[e] THEN "post" ELSE "revoked"

\* findUnique of the endpoint: a revoked one is not delivered to.
LoadEndpoint(e, n) ==
  /\ pc[e][n] = "load"
  /\ Goto(e, n, AfterLoad(e))
  /\ UNCHANGED <<queue, isActive, delivery, sender, madeAt, listener, faults, history>>

PostSent(e) ==
  /\ posts' = Bump(posts, e)
  /\ latePosts' = IF isActive[e] THEN latePosts ELSE Bump(latePosts, e)

\* The endpoint answers 2xx and deliver() sees it.
PostAccepted(e, n) ==
  /\ pc[e][n] = "post"
  /\ PostSent(e)
  /\ acks' = Bump(acks, e)
  /\ Goto(e, n, "success")
  /\ UNCHANGED <<queue, isActive, delivery, sender, madeAt, listener, faults, blurred,
                 orphaned, unmarked>>

\* Another status, no connection, or the timeout: before the endpoint got the
\* event, or after it accepted it.
PostFails(e, n) ==
  /\ pc[e][n] = "post"
  /\ PostSent(e)
  /\ \/ UNCHANGED <<acks, blurred>>
     \/ acks' = Bump(acks, e) /\ blurred' = Note(blurred, e)
  /\ Goto(e, n, "failure")
  /\ UNCHANGED <<queue, isActive, delivery, sender, madeAt, listener, faults, orphaned,
                 unmarked>>

\* What each outcome writes to the row, and how process() ends after it.
Outcome == [success |-> "success", failure |-> "failed", revoked |-> "failed"]
AcceptedRetried == [success |-> "throw", failure |-> "throw", revoked |-> "return"]  \* mutant
NothingRetried == [success |-> "return", failure |-> "return", revoked |-> "return"] \* mutant
Ending == [success |-> "return", failure |-> "throw", revoked |-> "return"]

CountsEarlierTries(e, n, step) ==            \* mutant: attemptsMade without the try itself
  /\ SetRow(e, Outcome[step])
  /\ attemptCount' = [attemptCount EXCEPT ![e] = madeAt[e][n]]
WriteRow(e, n, step) ==
  /\ SetRow(e, Outcome[step])
  /\ attemptCount' = [attemptCount EXCEPT ![e] = madeAt[e][n] + 1]

\* The update of the row, three of them in process().
Record(e, n) ==
  \E step \in DOMAIN Outcome :
    /\ pc[e][n] = step
    /\ WriteRow(e, n, step)
    /\ Goto(e, n, Ending[step])
    /\ UNCHANGED <<queue, isActive, sender, madeAt, listener, faults, history>>

\* That update, or the findUnique before it, rejects: process() throws.
QueryFails(e, n) ==
  /\ pc[e][n] \in {"load"} \cup DOMAIN Outcome
  /\ Fault
  /\ \/ UNCHANGED delivery
     \/ \E step \in DOMAIN Outcome : pc[e][n] = step /\ WriteRow(e, n, step)
  /\ blurred' = IF pc[e][n] = "success" THEN Note(blurred, e) ELSE blurred
  /\ Goto(e, n, "throw")
  /\ UNCHANGED <<queue, isActive, sender, madeAt, listener, posts, acks, orphaned, unmarked,
                 latePosts>>

Return(e, n) ==
  /\ pc[e][n] = "return"
  /\ Goto(e, n, "over")
  /\ IF HoldsLock(e, n) THEN Complete(e) ELSE UNCHANGED queue
  /\ UNCHANGED <<isActive, delivery, sender, madeAt, listener, faults, history>>

\* The test at the top of onFailed, on the attemptsMade the event carries.
AnyFailure(e) == TRUE                        \* mutant: the early return is missing
PastTheLast(e) == made'[e] > Attempts        \* mutant: off by one
Exhausted(e) == made'[e] >= Attempts

\* The queue failed an attempt of e and emits 'failed'.
EmitFailed(e) ==
  listener' = [listener EXCEPT ![e] = IF Exhausted(e) THEN "due" ELSE @]

Throw(e, n) ==
  /\ pc[e][n] = "throw"
  /\ Goto(e, n, "over")
  /\ IF HoldsLock(e, n) THEN Fail(e) /\ EmitFailed(e) ELSE UNCHANGED <<queue, listener>>
  /\ UNCHANGED <<isActive, delivery, sender, madeAt, faults, history>>

\* onFailed of an exhausted job: the row becomes a dead letter.
MarkDeadLetter(e) ==
  /\ listener[e] = "due"
  /\ SetRow(e, "dead_letter")
  /\ listener' = [listener EXCEPT ![e] = "quiet"]
  /\ UNCHANGED <<queue, isActive, attemptCount, sender, worker, faults, history>>

\* Its update rejects and the error is logged, or the process dies before it.
MarkDeadLetterFails(e) ==
  /\ listener[e] = "due"
  /\ Fault
  /\ listener' = [listener EXCEPT ![e] = "quiet"]
  /\ unmarked' = Note(unmarked, e)
  /\ UNCHANGED <<queue, isActive, delivery, sender, worker, posts, acks, blurred, orphaned,
                 latePosts>>

\* The process that executes the run dies.
Die(e, n) ==
  /\ pc[e][n] \in Running
  /\ Goto(e, n, "dead")
  /\ UNCHANGED <<queue, isActive, delivery, sender, madeAt, listener, faults, history>>

\* The job is found without a lock.  When it fails for that, 'failed' is emitted.
JobStalls(e) ==
  /\ Stall(e)
  /\ IF state'[e] = "failed" THEN EmitFailed(e) ELSE UNCHANGED listener
  /\ UNCHANGED <<isActive, delivery, sender, worker, faults, history>>

JobOfDeadRunStalls(e) ==
  /\ \E n \in RunNumbers : HoldsLock(e, n) /\ pc[e][n] = "dead"
  /\ JobStalls(e)

-----------------------------------------------------------------------------
enqueueOne(e) == CreateRow(e) \/ AddJob(e)

process(e, n) ==
  LoadEndpoint(e, n) \/ PostAccepted(e, n) \/ PostFails(e, n) \/ Record(e, n)
    \/ Return(e, n) \/ Throw(e, n)

Next ==
  \/ Dispatch \/ DispatchFails
  \/ \E e \in Jobs :
       \/ enqueueOne(e) \/ CreateRowFails(e) \/ AddJobFails(e) \/ SenderDies(e)
       \/ Revoke(e) \/ Start(e) \/ BackoffEnds(e) \/ JobStalls(e)
       \/ MarkDeadLetter(e) \/ MarkDeadLetterFails(e)
  \/ \E e \in Jobs, n \in RunNumbers : process(e, n) \/ QueryFails(e, n) \/ Die(e, n)

\* Live processes go on, timers fire, deliver() is bounded by its own timeout,
\* and the stalled checker sees what has no lock.
Fairness ==
  /\ WF_vars(Dispatch)
  /\ \A e \in Jobs :
       /\ WF_vars(enqueueOne(e)) /\ WF_vars(Start(e)) /\ WF_vars(BackoffEnds(e))
       /\ WF_vars(JobOfDeadRunStalls(e)) /\ WF_vars(MarkDeadLetter(e))
       /\ \A n \in RunNumbers : WF_vars(process(e, n))

Spec == Init /\ [][Next]_vars
FairSpec == Spec /\ Fairness

-----------------------------------------------------------------------------
\* The worker only updates rows: whatever fails in the dispatch, no job is
\* queued for a delivery that has no row, only a lost dispatch leaves a row
\* without a job, and only a failed one leaves out an endpoint that is active.
RowBeforeJob ==
  \A e \in Jobs :
    /\ state[e] # "none" => row[e] # "none"
    /\ row[e] # "none" /\ state[e] = "none" => sender[e] = "add" \/ orphaned[e]
    /\ row[e] = "none" /\ sender[e] = "done" => ~isActive[e] \/ faults > 0

\* An endpoint that accepted the event gets it again only after a stall, or when
\* its answer or the update that records it got lost.
RepeatedOnlyByFault ==
  \A e \in Jobs : acks[e] > 1 => stalls[e] > 0 \/ blurred[e]

\* schema.prisma: "attemptCount reflects how many tries it took".  The column of
\* a delivery that succeeded or was given up differs from the POSTs sent by the
\* rejected queries at most; a dead letter had all its tries, without any success.
\* After a stall nothing of this holds: a run that lost its lock sends a POST that
\* counts as the same try, and may write an older count last.
TriesAreCounted ==
  \A e \in Jobs :
    row[e] \in {"success", "dead_letter"} /\ stalls[e] = 0 =>
      /\ posts[e] - attemptCount[e] \in -faults .. faults
      /\ row[e] = "dead_letter" /\ faults = 0 /\ ~blurred[e] =>
           attemptCount[e] = Attempts /\ acks[e] = 0

\* Without a stall the row tells how a job ended.  GET /webhooks/failed lists dead
\* letters only: a delivery that was given up is there unless the update of its
\* listener failed.  A job that completed was accepted, or its endpoint revoked.
EndIsRecorded ==
  \A e \in Jobs : stalls[e] = 0 =>
    /\ state[e] = "failed" /\ listener[e] = "quiet" /\ ~unmarked[e]
         => row[e] = "dead_letter"
    /\ state[e] = "completed" =>
         \/ row[e] = "success" /\ acks[e] > 0
         \/ row[e] = "failed" /\ ~isActive[e]

\* Revoking an endpoint lets through at most the POST being prepared, one per
\* run that can overlap after stalls.
RevokedIsQuiet == \A e \in Jobs : latePosts[e] <= 1 + stalls[e]

\* A final status is final: retries never move a row out of success or
\* dead_letter, without a stall and without a success that was not recorded.
FinalStatusStays ==
  [][\A e \in Jobs :
       row[e] \in {"success", "dead_letter"} /\ stalls[e] = 0 /\ ~blurred[e]
         => row'[e] = row[e]]_vars

\* No row stays pending for ever, but in three cases: the dispatch broke off between
\* the insert and the add; the job stalled out before any of its runs wrote the row;
\* or a query of every attempt rejected, the last one being the update of onFailed.
PendingIsResolved ==
  \A e \in Jobs :
    (row[e] = "pending") ~>
      \/ row[e] # "pending"
      \/ orphaned[e] /\ state[e] = "none"
      \/ (unmarked[e] \/ stalls[e] > MaxStalled) /\ state[e] = "failed"

\* What the rows and jobs promise, DeliveryContract: the states of a job on its way
\* are one, and of the POSTs it counts whether there was one and one was accepted.
job ==
  [e \in Jobs |-> IF state[e] \in {"waiting", "active", "delayed"} THEN "open" ELSE state[e]]
heard ==
  [e \in Jobs |-> IF acks[e] > 0 THEN "accepted" ELSE IF posts[e] > 0 THEN "sent" ELSE "nothing"]

Contract ==
  INSTANCE DeliveryContract
    WITH Endpoints <- Jobs, active <- isActive, status <- row, job <- job, heard <- heard
MeetsContract == Contract!Spec

\* webhook.worker.ts: "After max attempts BullMQ emits `failed` -> Step 7 marks
\* `dead_letter`", here for jobs that never stalled.
ExhaustedIsDeadLetter ==
  \A e \in Jobs :
    (state[e] = "failed" /\ made[e] >= Attempts)
      ~> (row[e] = "dead_letter" \/ stalls[e] > 0)
=============================================================================
