------------------------------ MODULE FixedWindow ------------------------------
(***************************************************************************)
(* What a fixed-window limiter promises, with neither commands nor counter *)
(* nor expiry in it.  A window of a key has a number of slots.  A request  *)
(* is judged once, in one step: it takes a slot while there are any, and   *)
(* is refused only when there are none.  A slot that was taken is not      *)
(* given back in its window, also when its request fails or when nobody    *)
(* holds it.  That a window closes is not promised.                        *)
(***************************************************************************)
EXTENDS Integers

CONSTANTS
  Requests, ApiKeys,
  KeyOf,           \* KeyOf[r]: the key whose slots r asks for
  RequestsPerMin   \* RequestsPerMin[k]: the slots of a window of k

VARIABLES
  verdict,   \* verdict[r]: "none", "slot", "refused", or "gone" after a failure
  used,      \* used[k]: the slots taken in the window of k
  holders    \* holders[k]: the requests that hold one of them

vars == <<verdict, used, holders>>

Init ==
  /\ verdict = [r \in Requests |-> "none"]
  /\ used = [k \in ApiKeys |-> 0]
  /\ holders = [k \in ApiKeys |-> {}]

Judge(r, outcome) ==
  /\ verdict[r] = "none"
  /\ verdict' = [verdict EXCEPT ![r] = outcome]

UseSlot(k) ==
  /\ used[k] < RequestsPerMin[k]
  /\ used' = [used EXCEPT ![k] = @ + 1]

Admit(r) ==
  /\ Judge(r, "slot")
  /\ UseSlot(KeyOf[r])
  /\ holders' = [holders EXCEPT ![KeyOf[r]] = @ \cup {r}]

Refuse(r) ==
  /\ Judge(r, "refused")
  /\ used[KeyOf[r]] = RequestsPerMin[KeyOf[r]]
  /\ UNCHANGED <<used, holders>>

Waste(k) == UseSlot(k) /\ UNCHANGED <<verdict, holders>>

\* The request ends without an answer, judged or not.
Drop(r) ==
  /\ verdict[r] # "gone"
  /\ verdict' = [verdict EXCEPT ![r] = "gone"]
  /\ holders' = [holders EXCEPT ![KeyOf[r]] = @ \ {r}]
  /\ UNCHANGED used

Close(k) ==
  /\ used[k] > 0
  /\ used' = [used EXCEPT ![k] = 0]
  /\ holders' = [holders EXCEPT ![k] = {}]
  /\ UNCHANGED verdict

Next ==
  \/ \E r \in Requests : Admit(r) \/ Refuse(r) \/ Drop(r)
  \/ \E k \in ApiKeys : Waste(k) \/ Close(k)

Spec == Init /\ [][Next]_vars
=============================================================================
