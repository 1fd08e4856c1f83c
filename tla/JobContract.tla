------------------------------ MODULE JobContract ------------------------------
(***************************************************************************)
(* What an asynchronous completion promises to the owner of the job, with  *)
(* neither queue, worker, lock nor attempt in it.  A job that was accepted *)
(* gets one outcome and keeps it.  Before it is seen as completed its      *)
(* tokens are charged and job.completed is announced, in this order;       *)
(* before it is seen as failed job.failed is announced, unless the job was *)
(* abandoned.  Answers about it tell its outcome, and its result only when *)
(* it is completed.  Announcements may be repeated or contradict the       *)
(* outcome: that is not promised.                                          *)
(***************************************************************************)
CONSTANTS
  Jobs,
  Polls       \* the questions about a job

VARIABLES
  outcome,    \* outcome[j]: "none" until accepted
  charged,    \* the jobs whose tokens are in the ledger
  told,       \* told[j]: the events that were announced to the owner
  answers     \* answers[p]: what p was answered, nothing at first

vars == <<outcome, charged, told, answers>>

Init ==
  /\ outcome = [j \in Jobs |-> "none"]
  /\ charged = {}
  /\ told = [j \in Jobs |-> {}]
  /\ answers = [p \in Polls |-> {}]

Settle(j, end) ==
  /\ outcome[j] = "accepted"
  /\ outcome' = [outcome EXCEPT ![j] = end]
  /\ UNCHANGED <<charged, told, answers>>

Accept(j) ==
  /\ outcome[j] = "none"
  /\ outcome' = [outcome EXCEPT ![j] = "accepted"]
  /\ UNCHANGED <<charged, told, answers>>

Charge(j) ==
  /\ outcome[j] # "none"
  /\ charged' = charged \cup {j}
  /\ UNCHANGED <<outcome, told, answers>>

Tell(j, event) ==
  /\ outcome[j] # "none"
  /\ event = "completed" => j \in charged
  /\ told' = [told EXCEPT ![j] = @ \cup {event}]
  /\ UNCHANGED <<outcome, charged, answers>>

Complete(j) == j \in charged /\ "completed" \in told[j] /\ Settle(j, "completed")
Fail(j) == "failed" \in told[j] /\ Settle(j, "failed")
Abandon(j) == Settle(j, "abandoned")

\* The states an answer may give a job, and whether it may hold its result.
Visible(j) ==
  CASE outcome[j] = "accepted" -> {"waiting", "active", "delayed"}
    [] outcome[j] = "completed" -> {"completed"}
    [] outcome[j] \in {"failed", "abandoned"} -> {"failed"}
    [] OTHER -> {}

Answer(p, j, state, result) ==
  /\ state \in Visible(j)
  /\ result => outcome[j] = "completed"
  /\ answers[p] = {}
  /\ answers' = [answers EXCEPT ![p] = {[job |-> j, state |-> state, result |-> result]}]
  /\ UNCHANGED <<outcome, charged, told>>

States == {"waiting", "active", "delayed", "completed", "failed"}

Next ==
  \/ \E j \in Jobs :
       \/ Accept(j) \/ Charge(j) \/ Complete(j) \/ Fail(j) \/ Abandon(j)
       \/ \E event \in {"completed", "failed"} : Tell(j, event)
  \/ \E p \in Polls, j \in Jobs, state \in States, result \in BOOLEAN :
       Answer(p, j, state, result)

Spec == Init /\ [][Next]_vars
=============================================================================
