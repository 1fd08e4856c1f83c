----------------------------- MODULE RateLimiter -----------------------------
(***************************************************************************)
(* The per-key request limiter: RateLimitGuard.canActivate calls           *)
(* RateLimitService.isRateLimited, which talks to Redis in up to three     *)
(* separate commands, INCR, EXPIRE and TTL, on the key ratelimit:<id>.     *)
(* Each command is one atomic step at Redis; between two commands of one   *)
(* request any number of steps of other requests can happen.               *)
(***************************************************************************)
EXTENDS Integers, FiniteSets

CONSTANTS
  Requests,        \* the HTTP requests that reach the guard, one call each
  ApiKeys,         \* the API keys (rows of ApiKey)
  KeyOf,           \* KeyOf[r]: the key ApiKeyGuard attached to request r
  RequestsPerMin,  \* RequestsPerMin[k]: the column requestsPerMin of key k
  MaxResends       \* how often ioredis resends one unanswered command

ASSUME LimiterAssumption ==
  /\ KeyOf \in [Requests -> ApiKeys]
  /\ RequestsPerMin \in [ApiKeys -> Nat \ {0}]
  /\ MaxResends \in Nat

VARIABLES
  counter,     \* counter[k]: the integer stored in Redis, 0 when the key is absent
  ttl,         \* ttl[k]: TRUE when the Redis key has an expiry running
  window,      \* window[k]: how many windows of k have closed (history)
  pc,          \* pc[r]: the command request r issues next, or its verdict
  current,     \* current[r]: what INCR answered r, 0 before the answer
  ownWindow,   \* ownWindow[r]: the window in which r was last counted (history)
  resends,     \* resends[r]: INCRs of r that Redis executed and never answered
  retryAfter   \* retryAfter[r]: the field of the 429 body

vars == <<counter, ttl, window, pc, current, ownWindow, resends, retryAfter>>

\* What TTL answers: seconds left, -1 for a key without expiry, -2 for none.
NoAnswer == "unset"
Seconds  == "seconds"
NoExpiry == "-1"
NoKey    == "-2"

InFlight == {"incr", "expire", "ttl"}
Verdicts == {"allowed", "limited", "aborted"}

\* Types; and whoever is refused, and nobody else, has asked for the time left.
TypeOK ==
  /\ counter \in [ApiKeys -> Nat]
  /\ ttl \in [ApiKeys -> BOOLEAN]
  /\ window \in [ApiKeys -> Nat]
  /\ pc \in [Requests -> InFlight \cup Verdicts]
  /\ current \in [Requests -> Nat]
  /\ ownWindow \in [Requests -> Nat]
  /\ resends \in [Requests -> 0 .. MaxResends]
  /\ retryAfter \in [Requests -> {NoAnswer, Seconds, NoExpiry, NoKey}]
  /\ \A r \in Requests : pc[r] = "limited" <=> retryAfter[r] # NoAnswer

Init ==
  /\ counter = [k \in ApiKeys |-> 0]
  /\ ttl = [k \in ApiKeys |-> FALSE]
  /\ window = [k \in ApiKeys |-> 0]
  /\ pc = [r \in Requests |-> "incr"]
  /\ current = [r \in Requests |-> 0]
  /\ ownWindow = [r \in Requests |-> 0]
  /\ resends = [r \in Requests |-> 0]
  /\ retryAfter = [r \in Requests |-> NoAnswer]

-----------------------------------------------------------------------------
(* The two tests the service makes on the answer of INCR.                  *)

OpensSecondCount(n) == n = 2         \* mutant: the opener is taken to be the second
OpensWindow(n) == n = 1

ExceedsBeforeCount(k, n) == n - 1 > RequestsPerMin[k]   \* mutant: old value compared
ReachesLimit(k, n) == n >= RequestsPerMin[k]            \* mutant: >= for >
Exceeds(k, n) == n > RequestsPerMin[k]

\* Where a request goes once its window has an expiry.
VerdictAtOnce(k, n) == IF Exceeds(k, n) THEN "limited" ELSE "allowed"   \* mutant: TTL is not asked
Verdict(k, n) == IF Exceeds(k, n) THEN "ttl" ELSE "allowed"

-----------------------------------------------------------------------------
(* INCR, answered.                                                         *)
Incr(r) ==
  LET k == KeyOf[r]
      n == counter[k] + 1
  IN  /\ pc[r] = "incr"
      /\ counter' = [counter EXCEPT ![k] = n]
      /\ current' = [current EXCEPT ![r] = n]
      /\ ownWindow' = [ownWindow EXCEPT ![r] = window[k]]
      /\ pc' = [pc EXCEPT ![r] = IF OpensWindow(n) THEN "expire" ELSE Verdict(k, n)]
      /\ UNCHANGED <<ttl, window, resends, retryAfter>>

(* INCR executed by Redis, its answer lost with the connection: ioredis    *)
(* reconnects and sends the same command again.                            *)
IncrUnanswered(r) ==
  LET k == KeyOf[r]
  IN  /\ pc[r] = "incr"
      /\ resends[r] < MaxResends
      /\ counter' = [counter EXCEPT ![k] = @ + 1]
      /\ ownWindow' = [ownWindow EXCEPT ![r] = window[k]]
      /\ resends' = [resends EXCEPT ![r] = @ + 1]
      /\ UNCHANGED <<ttl, window, pc, current, retryAfter>>

(* EXPIRE key 60. It has no effect on a key that is gone.                  *)
ExpireForgotten(r) ==                \* mutant: the expiry is set on another key
  /\ pc[r] = "expire"
  /\ pc' = [pc EXCEPT ![r] = Verdict(KeyOf[r], current[r])]
  /\ UNCHANGED <<counter, ttl, window, current, ownWindow, resends, retryAfter>>

Expire(r) ==
  LET k == KeyOf[r]
  IN  /\ pc[r] = "expire"
      /\ ttl' = [ttl EXCEPT ![k] = counter[k] > 0]
      /\ pc' = [pc EXCEPT ![r] = Verdict(k, current[r])]
      /\ UNCHANGED <<counter, window, current, ownWindow, resends, retryAfter>>

(* TTL key, asked only to fill retryAfter of the refusal.                  *)
Ttl(r) ==
  LET k == KeyOf[r]
  IN  /\ pc[r] = "ttl"
      /\ retryAfter' = [retryAfter EXCEPT ![r] =
                          IF counter[k] = 0 THEN NoKey
                          ELSE IF ttl[k] THEN Seconds ELSE NoExpiry]
      /\ pc' = [pc EXCEPT ![r] = "limited"]
      /\ UNCHANGED <<counter, ttl, window, current, ownWindow, resends>>

(* A command rejects, or the process dies: nothing is caught, the request  *)
(* ends without a verdict and none of its remaining commands is issued.    *)
Abort(r) ==
  /\ pc[r] \in InFlight
  /\ pc' = [pc EXCEPT ![r] = "aborted"]
  /\ UNCHANGED <<counter, ttl, window, current, ownWindow, resends, retryAfter>>

(* Redis deletes an expired key.                                           *)
WindowCloses(k) ==
  /\ counter[k] > 0
  /\ ttl[k]
  /\ counter' = [counter EXCEPT ![k] = 0]
  /\ ttl' = [ttl EXCEPT ![k] = FALSE]
  /\ window' = [window EXCEPT ![k] = @ + 1]
  /\ UNCHANGED <<pc, current, ownWindow, resends, retryAfter>>

isRateLimited(r) == Incr(r) \/ Expire(r) \/ Ttl(r)

Next ==
  \/ \E r \in Requests : isRateLimited(r) \/ IncrUnanswered(r) \/ Abort(r)
  \/ \E k \in ApiKeys : WindowCloses(k)

\* A request that is alive goes on; Redis expires what has an expiry.
Fairness ==
  /\ \A r \in Requests : WF_vars(isRateLimited(r))
  /\ \A k \in ApiKeys : WF_vars(WindowCloses(k))

Spec == Init /\ [][Next]_vars
FairSpec == Spec /\ Fairness

-----------------------------------------------------------------------------
\* The requests of window w of key k that the guard let through.
Granted(k, w) == {r \in Requests : pc[r] = "allowed" /\ KeyOf[r] = k /\ ownWindow[r] = w}

\* The other requests counted in the window that refused r.
CountedWith(r) ==
  {s \in Requests \ {r} : KeyOf[s] = KeyOf[r] /\ current[s] > 0 /\ ownWindow[s] = ownWindow[r]}

\* The request that opened the current window of k is about to set its expiry.
Opening(k) ==
  \E r \in Requests : KeyOf[r] = k /\ pc[r] = "expire" /\ ownWindow[r] = window[k]

\* The request that opened the current window of k died before its EXPIRE, or
\* an INCR of this window was executed without an answer and sent again.
Faulted(k) ==
  \E r \in Requests : /\ KeyOf[r] = k
                      /\ ownWindow[r] = window[k]
                      /\ (pc[r] = "aborted" /\ current[r] = 1) \/ resends[r] > 0

\* However the INCRs of concurrent requests interleave with each other, with
\* lost answers and with the key's expiry, one window of a key never lets more
\* than requestsPerMin requests through (rate-limit.service.ts, current > limitPerMin).
GrantsBounded ==
  \A k \in ApiKeys : \A w \in 0..window[k] : Cardinality(Granted(k, w)) <= RequestsPerMin[k]

\* A request is refused only after the whole quota of its window went to other
\* requests: without resent commands nobody loses a slot to a race or to a
\* neighbour key.
RefusedOnlyOverQuota ==
  \A r \in Requests :
    /\ pc[r] \in {"ttl", "limited"}
    /\ \A s \in Requests : resends[s] = 0
    => Cardinality(CountedWith(r)) >= RequestsPerMin[KeyOf[r]]

\* A live counter without an expiry is either about to get one from the request
\* that opened it, or that request died or had its INCR resent: INCR and EXPIRE
\* are two commands, and this is the only way to leave a window open for good.
OpenEndedOnlyByFault ==
  \A k \in ApiKeys :
    counter[k] > 0 /\ ~ttl[k] =>
      Opening(k) \/ Faulted(k)

\* A refused request is told when to come back, although its TTL comes after its
\* INCR: not so only when its window closed in between, or when the window it asks
\* about has no expiry, not yet or by a fault.
RetryAfterIsTold ==
  [][\A r \in Requests : retryAfter'[r] # retryAfter[r] =>
       LET k == KeyOf[r] IN
         /\ retryAfter'[r] = NoKey => ownWindow[r] < window[k]
         /\ retryAfter'[r] = NoExpiry => Opening(k) \/ Faulted(k)]_vars

\* The three commands act as one: each request is judged at its INCR, as if it
\* took a slot of its window there or found none left, and nothing that happens
\* until its answer changes the verdict.
verdict ==
  [r \in Requests |->
     CASE pc[r] = "incr" -> "none"
       [] pc[r] \in {"expire", "allowed"} -> "slot"
       [] pc[r] \in {"ttl", "limited"} -> "refused"
       [] OTHER -> "gone"]
used ==
  [k \in ApiKeys |-> IF counter[k] < RequestsPerMin[k] THEN counter[k] ELSE RequestsPerMin[k]]
holders ==
  [k \in ApiKeys |->
     {r \in Requests : verdict[r] = "slot" /\ KeyOf[r] = k /\ ownWindow[r] = window[k]}]

Contract == INSTANCE FixedWindow WITH verdict <- verdict, used <- used, holders <- holders
MeetsContract == Contract!Spec

\* Every window that no fault touched closes, however many requests keep arriving.
CleanWindowsClose ==
  \A k \in ApiKeys : (counter[k] > 0) ~> (counter[k] = 0 \/ Faulted(k))

\* README "Redis fixed-window counter - per API key, per minute": the counter of
\* every window is reset, whatever happens to the requests counted in it.
EveryWindowCloses ==
  \A k \in ApiKeys : (counter[k] > 0) ~> (counter[k] = 0)
=============================================================================
