------------------------------ MODULE BullQueue ------------------------------
(***************************************************************************)
(* A BullMQ queue as this repository uses it: jobs with a number of        *)
(* attempts and a backoff, workers with the default settings.  BullMQ is   *)
(* not part of the repository; every Lua script of it that changes a job   *)
(* is one operator here, and the worker modules compose them with the      *)
(* repository's own process() functions and event handlers.                *)
(*                                                                         *)
(* A run <<j, n>> is the n-th time a worker takes job j.  A worker that    *)
(* stops renewing the lock of its job loses it: the job stalls and is      *)
(* taken again, while the earlier run may still be executing.  Such a run  *)
(* can still do anything except finish the job.                            *)
(***************************************************************************)
EXTENDS Integers

CONSTANTS
  Jobs,       \* the jobs that can be added
  Attempts,   \* the option attempts of every job
  MaxStalled  \* the worker option maxStalledCount

ASSUME QueueAssumption ==
  /\ Attempts \in Nat \ {0}
  /\ MaxStalled \in Nat

VARIABLES
  state,      \* state[j]: what job.getState() answers, "none" when not added
  made,       \* made[j]: job.attemptsMade, in Redis
  stalls,     \* stalls[j]: how often j was found without a lock
  started     \* started[j]: runs of j taken so far; the last one holds the lock

queue == <<state, made, stalls, started>>

\* The runs a job can have: one per attempt and one per forgiven stall.
RunNumbers == 1 .. (Attempts + MaxStalled)

States == {"none", "waiting", "active", "delayed", "completed", "failed"}
Settled(j) == state[j] \in {"completed", "failed"}

QueueTypeOK ==
  /\ state \in [Jobs -> States]
  /\ made \in [Jobs -> Nat]
  /\ stalls \in [Jobs -> Nat]
  /\ started \in [Jobs -> Nat]

\* Every run but the one in progress ended in an attempt or in a stall.
RunsAccounted ==
  \A j \in Jobs :
    /\ stalls[j] <= MaxStalled + 1
    /\ state[j] \in {"none", "waiting", "active", "delayed"} =>
         /\ made[j] < Attempts
         /\ stalls[j] <= MaxStalled
         /\ started[j] = made[j] + stalls[j] + (IF state[j] = "active" THEN 1 ELSE 0)
    /\ state[j] = "none" => started[j] = 0

QueueInit ==
  /\ state = [j \in Jobs |-> "none"]
  /\ made = [j \in Jobs |-> 0]
  /\ stalls = [j \in Jobs |-> 0]
  /\ started = [j \in Jobs |-> 0]

Move(j, from, to) ==
  /\ state[j] = from
  /\ state' = [state EXCEPT ![j] = to]

\* Queue.add.
Add(j) ==
  /\ Move(j, "none", "waiting")
  /\ UNCHANGED <<made, stalls, started>>

\* moveToActive: a worker takes the job and its lock.
Take(j) ==
  /\ Move(j, "waiting", "active")
  /\ started' = [started EXCEPT ![j] = @ + 1]
  /\ UNCHANGED <<made, stalls>>

\* Run n of j holds the lock: BullMQ accepts its result.
HoldsLock(j, n) == state[j] = "active" /\ started[j] = n

\* moveToFinished after process() returned.
Complete(j) ==
  /\ Move(j, "active", "completed")
  /\ made' = [made EXCEPT ![j] = @ + 1]
  /\ UNCHANGED <<stalls, started>>

\* After process() threw: moveToDelayed with the backoff while attempts are
\* left, moveToFinished otherwise.
Fail(j) ==
  /\ Move(j, "active", IF made[j] + 1 < Attempts THEN "delayed" ELSE "failed")
  /\ made' = [made EXCEPT ![j] = @ + 1]
  /\ UNCHANGED <<stalls, started>>

\* The backoff is over.
Promote(j) ==
  /\ Move(j, "delayed", "waiting")
  /\ UNCHANGED <<made, stalls, started>>

\* moveStalledJobsToWait finds an active job without a lock.  Beyond the limit
\* the job fails without another call of process(); whether that still counts as
\* an attempt depends on the path it takes.
StalledOut(j) == stalls[j] >= MaxStalled
Stall(j) ==
  /\ stalls' = [stalls EXCEPT ![j] = @ + 1]
  /\ UNCHANGED started
  /\ \/ /\ ~StalledOut(j)
        /\ Move(j, "active", "waiting")
        /\ UNCHANGED made
     \/ /\ StalledOut(j)
        /\ Move(j, "active", "failed")
        /\ \E n \in {made[j], made[j] + 1} : made' = [made EXCEPT ![j] = n]
=============================================================================
