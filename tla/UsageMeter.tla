------------------------------ MODULE UsageMeter ------------------------------
(***************************************************************************)
(* UsageService for one API key: the monthly ledger (rows of UsageRecord   *)
(* in Postgres), its cache (the Redis keys monthly:tokens:<id>:<month>),   *)
(* checkMonthlyLimit at the start of a call and logRequest at its end.     *)
(* Every query and every Redis command is one step, so the steps of        *)
(* concurrent calls, the cache's expiry and the turn of the month fall     *)
(* between any two of them.  Keys of different API keys are disjoint.      *)
(***************************************************************************)
EXTENDS Integers

CONSTANTS
  Calls,       \* the calls of the key: POST /v1/complete and its async form
  MaxRuns,     \* MaxRuns[c]: runs of the part after the check, 1 for a sync call
  Limit,       \* monthlyTokenLimit of the key
  Tokens,      \* the token counts a provider can report
  Months,      \* bound: months 1..Months
  MaxFaults    \* bound: rejected or unanswered commands and dying runs, in all

ASSUME MeterAssumption ==
  /\ MaxRuns \in [Calls -> Nat \ {0}]
  /\ Limit \in Nat
  /\ Tokens \subseteq Nat
  /\ Months \in Nat \ {0}
  /\ MaxFaults \in Nat

VARIABLES
  month,        \* the current month
  ledger,       \* ledger[m]: totalTokens of the UsageRecord of month m
  cache,        \* cache[m]: the integer under the Redis key of month m, or Absent
  expiring,     \* expiring[m]: that Redis key has an expiry
  pc,           \* pc[c]: the step call c takes next, or how it ended
  keyMonth,     \* keyMonth[c]: the month of the Redis key c looked up
  seen,         \* seen[c]: the total c read from the ledger
  tokens,       \* tokens[c]: what the provider charged c
  logMonth,     \* logMonth[c]: year and month logRequest captured
  runs,         \* runs[c]: runs started after the check
  faults,       \* commands that failed and runs that died so far (bound)
  pending,      \* pending[m]: committed to the ledger, INCRBY still to come (history)
  settled,      \* settled[c]: tokens fully logged when c began its check (history)
  lossy,        \* lossy[m]: an increment of month m missed the cache (history)
  foreign       \* foreign[m]: tokens the cache of m got twice or from an older month (history)

check == <<keyMonth, seen, settled>>        \* the locals of a check
log == <<tokens, logMonth, runs>>            \* the locals of a run
entry == <<cache, expiring>>                 \* what Redis holds
history == <<pending, lossy, foreign>>
vars == <<month, ledger, entry, pc, check, log, faults, history>>

Absent == -1
MonthRange == 1 .. Months
Checking == {"check", "read", "fill", "fallback"}
Logging  == {"provider", "commit", "incrby", "answer"}
Ended    == {"refused", "failed", "done"}

TypeOK ==
  /\ month \in MonthRange
  /\ ledger \in [MonthRange -> Nat]
  /\ cache \in [MonthRange -> Nat \cup {Absent}]
  /\ expiring \in [MonthRange -> BOOLEAN]
  /\ pc \in [Calls -> Checking \cup Logging \cup Ended]
  /\ keyMonth \in [Calls -> MonthRange]
  /\ seen \in [Calls -> Nat]
  /\ tokens \in [Calls -> Nat]
  /\ logMonth \in [Calls -> MonthRange]
  /\ runs \in [Calls -> Nat]
  /\ \A c \in Calls : runs[c] \in 1 .. MaxRuns[c]
  /\ faults \in 0 .. MaxFaults
  /\ pending \in [MonthRange -> Int]
  /\ settled \in [Calls -> Int]
  /\ lossy \in [MonthRange -> BOOLEAN]
  /\ foreign \in [MonthRange -> Nat]

Init ==
  /\ month = 1
  /\ ledger = [m \in MonthRange |-> 0]
  /\ cache = [m \in MonthRange |-> Absent]
  /\ expiring = [m \in MonthRange |-> FALSE]
  /\ pc = [c \in Calls |-> "check"]
  /\ keyMonth = [c \in Calls |-> 1]
  /\ seen = [c \in Calls |-> 0]
  /\ tokens = [c \in Calls |-> 0]
  /\ logMonth = [c \in Calls |-> 1]
  /\ runs = [c \in Calls |-> 1]
  /\ faults = 0
  /\ pending = [m \in MonthRange |-> 0]
  /\ settled = [c \in Calls |-> 0]
  /\ lossy = [m \in MonthRange |-> FALSE]
  /\ foreign = [m \in MonthRange |-> 0]

-----------------------------------------------------------------------------
(* checkMonthlyLimit and getMonthlyTokensUsed.                             *)

PastLimit(used) == used > Limit             \* mutant: > for >=
AtLimit(used) == used >= Limit

Verdict(used) == IF AtLimit(used) THEN "refused" ELSE "provider"

Goto(c, step) == pc' = [pc EXCEPT ![c] = step]

\* The total is known: refuse with 429 or go to the provider.  The locals of
\* the check go out of scope.
Decide(c, used) ==
  /\ Goto(c, Verdict(used))
  /\ seen' = [seen EXCEPT ![c] = 0]
  /\ settled' = [settled EXCEPT ![c] = 0]

\* What has been fully logged when a check starts.
Settled == ledger[month] - pending[month]

\* GET of the key of this month.
CachedFirstMonth == cache[1]                \* mutant: the key without the month
Cached == cache[month]

\* GET answers: a hit decides, a miss goes to the database.
CheckCache(c) ==
  /\ pc[c] = "check"
  /\ keyMonth' = [keyMonth EXCEPT ![c] = month]
  /\ IF Cached = Absent
       THEN /\ Goto(c, "read")
            /\ settled' = [settled EXCEPT ![c] = Settled]
            /\ UNCHANGED seen
       ELSE Decide(c, Cached)
  /\ UNCHANGED <<month, ledger, entry, log, history>>

\* GET rejects: the catch block goes to the database and leaves the cache alone.
CheckCacheFails(c) ==
  /\ pc[c] = "check"
  /\ keyMonth' = [keyMonth EXCEPT ![c] = month]
  /\ settled' = [settled EXCEPT ![c] = Settled]
  /\ Goto(c, "fallback")
  /\ UNCHANGED <<month, ledger, entry, seen, log, history>>

\* findUnique for the month of a clock read of its own.
ReadLedger(c) ==
  /\ pc[c] = "read"
  /\ seen' = [seen EXCEPT ![c] = ledger[month]]
  /\ lossy' = [lossy EXCEPT ![keyMonth[c]] = @ \/ keyMonth[c] # month]
  /\ Goto(c, "fill")
  /\ UNCHANGED <<month, ledger, entry, keyMonth, settled, log, pending, foreign>>

\* That query rejects inside the try block: the catch block asks again.
ReadLedgerFails(c) ==
  /\ pc[c] = "read"
  /\ Goto(c, "fallback")
  /\ UNCHANGED <<month, ledger, entry, check, log, history>>

\* SET key total EX 3600.
FillForever(c) ==                            \* mutant: SET without EX
  /\ cache' = [cache EXCEPT ![keyMonth[c]] = seen[c]]
  /\ UNCHANGED expiring
Fill(c) ==
  /\ cache' = [cache EXCEPT ![keyMonth[c]] = seen[c]]
  /\ expiring' = [expiring EXCEPT ![keyMonth[c]] = TRUE]

FillCache(c) ==
  /\ pc[c] = "fill"
  /\ Fill(c)
  /\ Decide(c, seen[c])
  /\ UNCHANGED <<month, ledger, keyMonth, log, history>>

\* SET rejects, executed or not: the catch block reads the ledger once more.
FillCacheFails(c) ==
  /\ pc[c] = "fill"
  /\ Fill(c) \/ UNCHANGED entry
  /\ Goto(c, "fallback")
  /\ UNCHANGED <<month, ledger, check, log, history>>

\* The catch block: the ledger decides.
Fallback(c) ==
  /\ pc[c] = "fallback"
  /\ Decide(c, ledger[month])
  /\ UNCHANGED <<month, ledger, entry, keyMonth, log, history>>

\* Its query rejects as well: the call ends with a 500.
FallbackFails(c) ==
  /\ pc[c] = "fallback"
  /\ Goto(c, "failed")
  /\ UNCHANGED <<month, ledger, entry, check, log, history>>

-----------------------------------------------------------------------------
(* The provider and logRequest.                                            *)

\* The locals of a run go out of scope.
Forget(c) ==
  /\ tokens' = [tokens EXCEPT ![c] = 0]
  /\ logMonth' = [logMonth EXCEPT ![c] = 1]

RunFailsOnceMore(c) ==                       \* mutant: one run too many
  /\ Forget(c)
  /\ IF runs[c] <= MaxRuns[c]
       THEN Goto(c, "provider") /\ runs' = [runs EXCEPT ![c] = @ + 1]
       ELSE Goto(c, "failed") /\ UNCHANGED runs

\* A run that failed is run again by the queue, or was the last one.
RunFails(c) ==
  /\ Forget(c)
  /\ IF runs[c] < MaxRuns[c]
       THEN Goto(c, "provider") /\ runs' = [runs EXCEPT ![c] = @ + 1]
       ELSE Goto(c, "failed") /\ UNCHANGED runs

\* The provider answers, or a sync call logs its failure with zero tokens;
\* logRequest captures the month at once.
Provider(c) ==
  /\ pc[c] = "provider"
  /\ \E t \in Tokens : tokens' = [tokens EXCEPT ![c] = t]
  /\ logMonth' = [logMonth EXCEPT ![c] = month]
  /\ Goto(c, "commit")
  /\ UNCHANGED <<month, ledger, entry, check, runs, history>>

\* The upsert of usageRecord inside the transaction with aiRequest.create.
Charge(c) == ledger' = [ledger EXCEPT ![logMonth[c]] = @ + tokens[c]]

\* $transaction commits.
Commit(c) ==
  /\ pc[c] = "commit"
  /\ Charge(c)
  /\ pending' = [pending EXCEPT ![logMonth[c]] = @ + tokens[c]]
  /\ Goto(c, "incrby")
  /\ UNCHANGED <<month, entry, check, log, lossy, foreign>>

\* The transaction rejects: rolled back, or committed with its answer lost.
CommitFails(c) ==
  /\ pc[c] = "commit"
  /\ \/ UNCHANGED <<ledger, lossy>>
     \/ Charge(c) /\ lossy' = [lossy EXCEPT ![logMonth[c]] = TRUE]
  /\ RunFails(c)
  /\ UNCHANGED <<month, entry, check, pending, foreign>>

\* INCRBY at Redis, on the key of the month it is now.  A key that is not there
\* is created with the increment as its value and no expiry.
IncrementNothing(c) ==                       \* mutant: the total is left out
  cache' = [cache EXCEPT ![month] = IF @ = Absent THEN 0 ELSE @]
Increment(c) ==
  cache' = [cache EXCEPT ![month] = IF @ = Absent THEN tokens[c] ELSE @ + tokens[c]]

\* The month m loses an increment of c: INCRBY creates the key that should have
\* been filled first, the month turned before it, or a total that was read
\* before it is about to be SET over it.
Misses(c, m) ==
  \/ m = month /\ cache[m] = Absent
  \/ m = logMonth[c] /\ m # month
  \/ m = logMonth[c] /\ \E d \in Calls : pc[d] = "fill" /\ keyMonth[d] = m

IncrBy(c) ==
  /\ pc[c] = "incrby"
  /\ Increment(c)
  /\ lossy' = [m \in MonthRange |-> lossy[m] \/ Misses(c, m)]
  /\ pending' = [pending EXCEPT ![logMonth[c]] = @ - tokens[c]]
  /\ foreign' = [foreign EXCEPT ![month] = IF logMonth[c] # month THEN @ + tokens[c] ELSE @]
  /\ Goto(c, "answer")
  /\ Forget(c)
  /\ UNCHANGED <<month, ledger, expiring, check, runs>>

\* INCRBY executed, its answer lost with the connection: ioredis sends it again.
IncrByUnanswered(c) ==
  /\ pc[c] = "incrby"
  /\ Increment(c)
  /\ lossy' = [m \in MonthRange |-> lossy[m] \/ Misses(c, m)]
  /\ foreign' = [foreign EXCEPT ![month] = @ + tokens[c]]
  /\ UNCHANGED <<month, ledger, expiring, pc, check, log, pending>>

\* The INCRBY of c never happens.
DropIncrement(c) ==
  /\ lossy' = [lossy EXCEPT ![logMonth[c]] = TRUE]
  /\ pending' = [pending EXCEPT ![logMonth[c]] = @ - tokens[c]]

\* INCRBY rejects: logged and forgotten, the ledger is the source of truth.
IncrByFails(c) ==
  /\ pc[c] = "incrby"
  /\ DropIncrement(c)
  /\ Goto(c, "answer")
  /\ Forget(c)
  /\ UNCHANGED <<month, ledger, entry, check, runs, foreign>>

\* The response goes out, or the job is moved to completed.
Answer(c) ==
  /\ pc[c] = "answer"
  /\ Goto(c, "done")
  /\ UNCHANGED <<month, ledger, entry, check, log, history>>

\* Every provider fails a job, or the process dies in a run: a sync call is
\* over, a job is run again from its start.
RunDies(c) ==
  /\ pc[c] \in Logging
  /\ IF pc[c] = "incrby" THEN DropIncrement(c) ELSE UNCHANGED <<pending, lossy>>
  /\ RunFails(c)
  /\ UNCHANGED <<month, ledger, entry, check, foreign>>

-----------------------------------------------------------------------------
\* Redis deletes the key of month m when its hour is over.
CacheExpires(m) ==
  /\ expiring[m]
  /\ cache' = [cache EXCEPT ![m] = Absent]
  /\ expiring' = [expiring EXCEPT ![m] = FALSE]
  /\ UNCHANGED <<month, ledger, pc, check, log, faults, history>>

\* The clock of the server enters the next month.
MonthTurns ==
  /\ month < Months
  /\ month' = month + 1
  /\ UNCHANGED <<ledger, entry, pc, check, log, faults, history>>

checkMonthlyLimit(c) == CheckCache(c) \/ ReadLedger(c) \/ FillCache(c) \/ Fallback(c)
logRequest(c) == Commit(c) \/ IncrBy(c)

Progress(c) ==
  /\ checkMonthlyLimit(c) \/ Provider(c) \/ logRequest(c) \/ Answer(c)
  /\ UNCHANGED faults

Fault(c) ==
  /\ faults < MaxFaults
  /\ faults' = faults + 1
  /\ \/ CheckCacheFails(c) \/ ReadLedgerFails(c) \/ FillCacheFails(c) \/ FallbackFails(c)
     \/ CommitFails(c) \/ IncrByUnanswered(c) \/ IncrByFails(c) \/ RunDies(c)

Next ==
  \/ \E c \in Calls : Progress(c) \/ Fault(c)
  \/ \E m \in MonthRange : CacheExpires(m)
  \/ MonthTurns

\* A call whose process lives goes on; Redis expires what has an expiry.
Fairness ==
  /\ \A c \in Calls : WF_vars(Progress(c))
  /\ \A m \in MonthRange : WF_vars(CacheExpires(m))

Spec == Init /\ [][Next]_vars
FairSpec == Spec /\ Fairness

-----------------------------------------------------------------------------
\* As long as no increment of a month was lost, the cached total together with
\* the increments still to come covers the ledger: lossy names the only ways the
\* read-through fill, the INCRBYs and the expiry can make the cache undercount.
CacheCoversLedger ==
  \A m \in MonthRange :
    ~lossy[m] /\ cache[m] # Absent => cache[m] + pending[m] >= ledger[m]

\* Call c decides its check in this step, in the month in which it began.
Decides(c, verdict) ==
  pc[c] \in Checking /\ pc'[c] = verdict /\ keyMonth'[c] = month

\* What was fully logged when the check of c began.
SettledAtStart(c) == IF pc[c] = "check" THEN Settled ELSE settled[c]

\* A call that begins its check when the limit is already used up by fully
\* logged calls is not admitted, unless an increment of the month was lost:
\* only calls that overlap can take the key past its limit.
AdmittedOnlyBelowLimit ==
  [][\A c \in Calls :
       Decides(c, "provider") /\ ~lossy[month] => SettledAtStart(c) < Limit]_vars

\* The cache can count a call twice (a fill that already saw it, then its
\* INCRBY) but no more: a 429 means at least half of the limit was really used,
\* leaving aside resent INCRBYs and increments carried over from last month.
RefusedOnlyAboveHalf ==
  [][\A c \in Calls :
       Decides(c, "refused") => 2 * ledger[month] + foreign[month] >= Limit]_vars

\* A lockout heals: an entry that says more than the ledger, other than by resent
\* INCRBYs and increments carried over from last month, came from a fill that saw
\* a commit whose INCRBY followed, and such an entry has an expiry.
OvercountExpires ==
  \A m \in MonthRange : cache[m] > ledger[m] + foreign[m] => expiring[m]

\* usage.service.ts, at the INCRBY: "the DB is the source of truth".  Once the
\* ledger of the last month reaches the limit, the cache stops saying otherwise.
LedgerIsSourceOfTruth ==
  (ledger[Months] >= Limit) ~> (cache[Months] = Absent \/ cache[Months] >= Limit)
=============================================================================
