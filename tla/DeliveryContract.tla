--------------------------- MODULE DeliveryContract ---------------------------
(***************************************************************************)
(* What the delivery of an event promises, with neither queue, worker,     *)
(* lock nor attempt in it.  Nothing is sent before the delivery has its    *)
(* row and its job.  The row tells no tale: it says success only of an      *)
(* event that was accepted, failed only of one that was sent or whose      *)
(* endpoint was revoked, dead_letter only of a job that was given up, and  *)
(* is never pending again.  A job completes only when its event was        *)
(* accepted or its endpoint revoked.  That the row says the last of these  *)
(* is not promised: runs that overlap may write it in any order.           *)
(***************************************************************************)
CONSTANT Endpoints

VARIABLES
  active,     \* active[e]: the endpoint was not revoked
  status,     \* status[e]: what the row says, "none" before it exists
  job,        \* job[e]: "none", "open", and how it ended
  heard       \* heard[e]: what the endpoint got and said

vars == <<active, status, job, heard>>

Init ==
  /\ active = [e \in Endpoints |-> TRUE]
  /\ status = [e \in Endpoints |-> "none"]
  /\ job = [e \in Endpoints |-> "none"]
  /\ heard = [e \in Endpoints |-> "nothing"]

Revoke(e) ==
  /\ active[e]
  /\ active' = [active EXCEPT ![e] = FALSE]
  /\ UNCHANGED <<status, job, heard>>

Turn(e, from, to) ==
  /\ job[e] = from
  /\ job' = [job EXCEPT ![e] = to]
  /\ UNCHANGED <<active, status, heard>>

Queue(e) == status[e] # "none" /\ Turn(e, "none", "open")
GiveUp(e) == Turn(e, "open", "failed")
Complete(e) ==
  /\ status[e] \in {"success", "failed"}
  /\ heard[e] = "accepted" \/ ~active[e]
  /\ Turn(e, "open", "completed")

Hear(e, answer) ==
  /\ job[e] # "none"
  /\ heard' = [heard EXCEPT ![e] = answer]
  /\ UNCHANGED <<active, status, job>>

Accept(e) == Hear(e, "accepted")
Refuse(e) == heard[e] # "accepted" /\ Hear(e, "sent")

Say(e, what) ==
  /\ status' = [status EXCEPT ![e] = what]
  /\ UNCHANGED <<active, job, heard>>

Plan(e) == status[e] = "none" /\ job[e] = "none" /\ Say(e, "pending")
Succeed(e) == status[e] # "none" /\ heard[e] = "accepted" /\ Say(e, "success")
Fail(e) == status[e] # "none" /\ (heard[e] # "nothing" \/ ~active[e]) /\ Say(e, "failed")
Bury(e) == job[e] = "failed" /\ Say(e, "dead_letter")

Next ==
  \E e \in Endpoints :
    \/ Revoke(e) \/ Plan(e) \/ Queue(e) \/ Accept(e) \/ Refuse(e)
    \/ Succeed(e) \/ Fail(e) \/ Complete(e) \/ GiveUp(e) \/ Bury(e)

Spec == Init /\ [][Next]_vars
=============================================================================
