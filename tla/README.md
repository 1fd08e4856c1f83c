# Formal models of the Model Gateway API

TLA+ models of the gateway under `src/`, model-checked with TLC, with theorems
proved by TLAPS. The gateway is a NestJS program between clients and two LLM
providers (Gemini and Groq): it authenticates API keys, limits requests per
minute and tokens per month, forwards prompts synchronously, as a stream or
through a queue, meters what was used, and tells webhook endpoints how queued
jobs ended. Its state is in Postgres (through Prisma), in Redis (counters, a
cache, two BullMQ queues) and in the locals of the requests and jobs under way.
Nothing in the program spans two of these stores atomically, and that is what
the models are about: every query, command and call of a provider is a step of
its own, and other requests, workers, expiries, failures and deaths of a process
fall between any two of them.

## 1. Inventory

| Component | State | Operations | What is hard | What makes it correct |
|---|---|---|---|---|
| Rate limiter (`rate-limit`, `common/guards`) | Redis `ratelimit:<key>`, its expiry | `isRateLimited`: INCR, EXPIRE, TTL | three commands without a transaction, commands resent by ioredis, the key expiring in between | a window never grants more than the quota, refuses only when the quota is used, and closes |
| Usage meter (`usage`) | `UsageRecord`, `AiRequest`; Redis `monthly:tokens:<key>:<month>` | `checkMonthlyLimit`, `logRequest`, `getUsage` | read-through cache beside increments, errors swallowed on purpose, check before and charge after the call, turn of the month | no call is admitted past a limit it could have seen, none is refused much below it, the cache recovers |
| Completion queue and worker (`queue/completion.worker`, `jobs`) | a BullMQ job; usage rows and events it causes | `enqueue`, `process`, `getJobStatus` | retries, stalls with two runs of one job at once, dying processes, a poll made of two reads | completed implies charged and announced; failed implies announced; no double charge without a fault |
| Webhook dispatch and delivery (`webhooks`, `queue/webhook.worker`) | `WebhookEndpoint`, `WebhookDelivery`, a BullMQ job per delivery | `dispatch`, `process`, `onFailed`, `register`, `revoke`, `listFailed` | row and job in two stores, timeouts that hide an accepted POST, an event listener that runs once, revocation meanwhile | every delivery gets a final status, dead letters are listed, accepted events are not sent again without a fault |
| Streaming (`completions.controller`, provider generators) | locals of the request and three nested generators | `completeStream` | abort of the client at any await, `break` closing generators at their yield, errors after the headers | a stream called done is whole, every stream has an end, the provider is left after an abort |
| Completion requests (`completions`, guards) | locals of a request; `ApiKey`, `PromptTemplate` rows | `complete`, `enqueueAsync` | rows changing between awaits, failures at every await, two providers | who is charged is answered, errors are earned, revoked keys stay out |
| Provider router and clients (`providers`) | none | `complete`, `completeStream` | the one fallback | both providers are tried before a failure is answered |
| API keys (`keys`) | `ApiKey` | `create`, `findAll`, `revoke`, `validateKey` | revocation while requests are under way | a revoked key starts nothing new |
| Prompt templates (`templates`) | `PromptTemplate` | `create`, `findAll`, `findOne`, `render` | order of the ownership and the content checks | templates of others stay hidden |
| Accounts and JWT guard (`auth`, `common/guards`) | `User` | `register`, `login`, `me`, `JwtGuard` | two registrations with one email between lookup and insert | one account per email; whoever was told 201 can log in; owners alone see and revoke keys, endpoints, templates |
| Usage report, signer, configuration, bootstrap | none | `getUsage`; HMAC; start-up | | |

How they interact: `ApiKeyGuard` calls `KeysService.validateKey` and attaches the
key to the request; `RateLimitGuard` asks the limiter; the completions service
renders the template, asks the meter, calls the router (or enqueues a job), and
logs to the meter. The completion worker calls the router, the meter and the
webhook dispatcher. The dispatcher writes delivery rows and queues delivery jobs
that the webhook worker consumes. All of these are awaited calls; the only
callbacks are the `failed` event of the webhook queue and `req.on('close')`.

## 2. Modules

| Module | Models | Run by | Proved in |
|---|---|---|---|
| `FixedWindow` | abstract: what a limiter promises, in one step a request | through the next | `RateLimiterProofs` |
| `RateLimiter` | the limiter, one Redis command a step; implements `FixedWindow` | `MCRateLimiter` | `RateLimiterProofs` |
| `UsageMeter` | limit check and usage log of one API key | `MCUsageMeter` | `UsageMeterProofs` |
| `BullQueue` | external: what BullMQ does to a job | through the queue modules | `BullQueueProofs` |
| `JobContract` | abstract: what the owner of a job is promised | through the next | `CompletionJobsProofs` |
| `CompletionJobs` | extends `BullQueue` with enqueue, `CompletionWorker.process` and polls; implements `JobContract` | `MCCompletionJobs` | `CompletionJobsProofs` |
| `DeliveryContract` | abstract: what the row and the job of a delivery promise | through the next | `WebhookDeliveryProofs` |
| `WebhookDelivery` | extends `BullQueue` with dispatcher, `WebhookWorker`, listener, revocation; implements `DeliveryContract` | `MCWebhookDelivery` | `WebhookDeliveryProofs` |
| `Streaming` | one stream, from its prompt to its end | itself | `StreamingProofs` |
| `RequestFlow` | sync and async requests through guards, services and router | `MCRequestFlow` | `RequestFlowProofs` |
| `Accounts` | registration, login, JWT, and the rows a user or a key owns | `MCAccounts` | `AccountsProofs` |

The two queue consumers are composed with the queue by extending its module:
every action of theirs that ends a run contains the queue operator for it
(`Return` contains `Complete`, `Throw` contains `Fail`, ...). The other modules
meet at calls. `RequestFlow` lets the limiter, the meter and the queue accept,
refuse or fail; `CompletionJobs` takes `logRequest` and `dispatch` as one step
each; `UsageMeter` and `WebhookDelivery` open these.

### State and actions

*RateLimiter.* `counter[k]` and `ttl[k]` are the Redis key of API key k; `pc[r]`
is the command request r issues next. `Incr`, `Expire` and `Ttl` are the three
awaits of `isRateLimited`. `IncrUnanswered` is an INCR that Redis executed and
whose answer was lost: `redis.config` keeps ioredis's automatic resending. `Abort`
is a rejected command or a dead process, `WindowCloses` is the expiry. `window`,
`ownWindow` and `resends` are history (`resends` also bounds).

*FixedWindow.* A request is judged in one step: it takes a slot of its window, or
finds none left. `RateLimiter` maps to it like this: `verdict` is where a request
stands (judged from its INCR on, whatever becomes of EXPIRE and TTL), `used` is the
counter cut off at the quota, `holders` are the requests with a slot in the live
window. EXPIRE, TTL and every INCR beyond the quota but the one that a request reads
are stutters; an INCR that Redis executed unheard is a slot that nobody holds.

*UsageMeter.* One API key; keys share nothing. `ledger[m]` is the column
`totalTokens`, `cache[m]` and `expiring[m]` the Redis key of month m. A check is
`CheckCache`, `ReadLedger`, `FillCache`, or `Fallback` when one of them rejects;
a run is `Provider`, `Commit` (the transaction), `IncrBy`, `Answer`. The clock
`month` is read where the code calls `new Date()`: once for the cache key, again
for the ledger query, once at the start of `logRequest` and again for the key of
the INCRBY. Every failure of a command, executed or not, is a disjunct of `Fault`.
`pending`, `settled`, `lossy` and `foreign` are history; each is set in the step
where the code loses, delays or misplaces an increment.

*BullQueue.* `state`, `made` (attemptsMade), `stalls` and `started` of a job. The
last run started holds the lock, and only it can finish the job; `Stall` takes the
lock away whether or not the run is still executing. This module is external: it
says what the repository relies on.

*CompletionJobs.* `pc[j][n]` is the await at which the n-th run of job j stands, so
an overtaken run goes on beside its successor. `madeAt` is `job.attemptsMade` as
the run's own copy of the job has it, which is what `isFinalAttempt` reads.
`metered`, `completedEvents` and `failedEvents` count the effects; `PollReads` and
`PollAnswers` are the two queries of `getJobStatus`.

*JobContract.* Four variables and no queue: `outcome`, `charged`, `told`, `answers`.
A job is accepted, charged, announced, and then settles, in that order; answers
tell its outcome. `CompletionJobs` maps to it like this: `outcome` collapses the
states waiting, active and delayed into "accepted", and tells a job that failed for
its errors from one the stalled checker gave up ("abandoned", the one end that is
not announced); `charged` and `told` forget how often a job was metered and
announced; an answer counts when `getJobStatus` returns it, not when it reads. So
the retries, overlapping runs and repeated events of the worker are stutters of the
contract, and `MeetsContract` says that none of them is anything worse.

*WebhookDelivery.* A delivery is named by its endpoint. `sender[e]` is the progress
of `enqueueOne`, `row[e]` and `attemptCount[e]` the delivery row, `listener[e]` an
event `failed` that `onFailed` has to handle. `PostFails` includes the timeout that
fires while the endpoint accepts the event. `Record` is the update of the row after
each outcome, `QueryFails` its rejection, executed or not.

*DeliveryContract.* Four functions of an endpoint: `active`, `status`, `job`, `heard`.
`WebhookDelivery` maps `status` to the row, collapses the states of a job on its way
into "open", and counts of the POSTs only whether one was sent and one accepted. The
other properties of a delivery have premises on stalls and lost updates; the contract
has none. It says what a reader of the rows can rely on in any case: a status is
earned when it is written, and a job completes only when the event was accepted or
the endpoint revoked. Which earned status the row ends with, it leaves open: runs that
overlap write in any order.

*Streaming.* Between two awaits on the network the generators and the controller
run in one go, so a chunk of the SDK with all it sets off is one action
(`ChunkArrives`, `SdkEnds`, `LastChunk`). `upstream` is the SDK's stream; `client`
is a client that reads, has gone, or whose going `req.on('close')` reported.
Whether that event fires for a request whose body was already read depends on the
version of Node, so `Abort` may happen and has no fairness. `Resume("done")` is the
code behind the loop of the service: the model has it and no behaviour reaches it,
which is the finding of `streaming_log`.

*RequestFlow.* `pc[r]` is the await at which request r stands, `dto[r]` its body.
`resolvePrompt` is a pure operator over the body and the rows; `Rejects` is any
uncaught rejection (a 500), executed or not; `Die` is the death of the process.

*Accounts.* A row is named by the request that inserted it: a user by a
registration, a key by a request with a token (`Sessions`), an endpoint or a
template by a request with a key (`Calls`). So `rows` is one set of requests, and
the owner of a row follows from the body of its request. `pc[r]` is the query that
request r issues next: the lookup and the insert of `register` are two steps, and so
are the `findFirst` and the `update` of every `revoke`. `KeyAccepted` is
`validateKey`. A client sends only tokens and keys it was given, and any id.
`Fault` is a query that rejects, executed or not, or a dying process. `before` and
`gone` are history: which rows of the kind that r looks for existed when r arrived,
and, for a call, which keys were revoked.

## 3. Runs

| Run | Size | Question |
|---|---|---|
| `rate_limit` | 77,726 states | Three requests race for a quota of two, beside a key of its own: `GrantsBounded`, `OpenEndedOnlyByFault`, what a refused request is told (`RetryAfterIsTold`), that the three commands implement `FixedWindow`, and `CleanWindowsClose` under fairness. |
| `usage_limit` | 6,509,361 states | Two sync calls and a job that may run twice, across the turn of the month, with one fault: how far the cache can stray from the ledger in either direction, which verdicts follow, and that no overcount lasts. About two minutes. |
| `completion_jobs` | 32,539 states | A job with the attempts (3) and the stall limit (1) of the code, run, retried, stalled, overtaken, polled: what completion and failure imply, what a stall may repeat, that every job settles, and that all of it implements `JobContract`. |
| `webhook_delivery` | 1,166,173 states | A delivery from dispatch to its final status with three attempts, a stall, up to four rejected commands, dying processes and a revocation: rows and jobs, repeats, the count of tries, final statuses, which rows can stay pending, and that all of it implements `DeliveryContract`. About two minutes. |
| `streaming` | 417 states | Every stream of up to five chunks with text or without, a client leaving at any await, a provider failing at any await. |
| `request_flow` | 148,372 states | Two requests with any of eight bodies on the sync and async route, while the key is revoked and templates appear. |
| `accounts` | 1,090,763 states | Registrations, logins, requests with a token and requests with a key: six of them from an empty database, two from two accounts with a key each, one of which fails: the race for an email, who sees and revokes what, what a revoked key can still do. About a minute. |

Five runs check a sentence of the repository that the code does not keep; each
ends with a counterexample.

| Run | The sentence | What the code does |
|---|---|---|
| `rate_limit_window` | `README.md:29`, "Redis fixed-window counter — per API key, per minute" | The request that reads 1 from INCR sends EXPIRE as a second command. If it fails in between, or its INCR was resent, the counter has no expiry and the key is refused for good once its quota is used. |
| `usage_truth` | `usage.service.ts:154`, "the DB is the source of truth" | With no fault at all: the entry expires between a check and its INCRBY, which creates an entry holding only the tokens of this call, without an expiry. Later checks are answered from it, and the limit is not enforced for the rest of the month. |
| `completion_once` | `completion.worker.ts:57`, "fire job.completed exactly once on success" | A run that loses its lock after the dispatch is repeated from the start and dispatches a second event, with new delivery ids. |
| `webhook_dead_letter` | `webhook.worker.ts:12`, "After max attempts BullMQ emits `failed` → Step 7 marks `dead_letter`" | `onFailed` logs the error of its only update; the exhausted delivery stays `failed`, which `listFailed` does not return. |
| `streaming_log` | `completions.service.ts:226`, "Logs usage after the stream completes." | The controller breaks out of `for await` at the chunk with `done: true`. That returns the service's generator at its yield, so the lines behind its loop never run: streams are neither logged nor counted. |

Every property of a passing run has a mutant in `PROJECT.json`: a definition
changed as a bug in that code would change it, under which the same run fails.

### What the properties weaken, and why

Several properties have a premise (`~lossy`, `stalls = 0`, `~blurred`, `foreign`).
Each premise names the exact event in which the code gives the guarantee up, is
set only there, and the runs reach states with and without it. They are findings
of a kind too:

* `usage_limit`: without resent commands or a turn of the month a 429 can come at
  half of the limit (a fill that already saw a commit, followed by that commit's
  INCRBY) and never earlier; and that overcount expires. An entry that never
  expires was created by INCRBY and counts increments only: too little, not too much.
* `completion_jobs`: charging a job twice takes a stall or an ambiguous commit.
* `webhook_delivery`: a row can stay `pending` for ever, in three cases, which
  `PendingIsResolved` excepts and `PendingIsExplained` proves to be all: the dispatch
  broke off between the insert and the add; the job stalled out before a run wrote
  the row; or a query of every attempt rejected, and then the single update of
  `onFailed` too. The last takes one rejected query more than there are attempts.
* `attemptCount` of a delivery, which "reflects how many tries it took", can be off by
  one for every rejected update, and by more after a stall.
* `accounts`: the 409 that `auth.controller.ts` documents for an email in use goes
  to registrations that come after the account. Of two that overlap, the one that
  loses between its lookup and its insert is answered 500 by the unique index. And
  a revoked key cannot revoke its endpoints, which stay active: `RevokedKeyIsInert`
  says so.
* `accounts`, templates: the document and the code disagree, and `OwnersOnly` takes
  the side of the code. `templates.controller.ts:41` summarises the list as "List all
  templates for current API key"; `templates.service.ts:47-51` selects by user, and
  `schema.prisma:128-137` gives a template a user and no key. So a key also lists what
  was made with the other keys of its user, and `OwnersOnly` requires that it does; a
  list per key, as documented, would break it.
* What a hazard's premise exempts is not caught by the property that has it: a dropped
  INCRBY (`lossy`), a commit whose answer is lost (`doubtful`), an accepted POST that
  was not recorded (`blurred`), an event lost in `dispatch` (`faults > 0`). There the
  properties say that nothing else has these consequences. `PROJECT.json` notes it at
  each hazard, and which hazards have no property: a provider that never answers,
  a fallback asked for a model that it does not have, queued jobs of a revoked key.

### Bounds

* `Attempts = 3` and `MaxStalled = 1` in `completion_jobs` are the code's values.
  `webhook_delivery` uses 3 attempts instead of 5, to keep the run short; with 5 and
  one fault it has 892,354 states and the same result. Three attempts have a first, a
  middle and a last one, which is all that the comparisons with `attempts` tell apart.
* One job and one delivery: jobs share no state, and their run numbers already
  give the concurrency that matters, two runs of one job.
* Quota 2 with three requests has a request at, below and above the quota, in the
  same window and across windows. A second key shows that keys do not interfere.
* `Limit = 3`, `Tokens = {0, 1, 2}`: a call can stay below, meet or pass the limit,
  alone or with another. Amounts and limit only meet in sums and comparisons. Two
  months give one turn.
* Three calls in `usage_limit`: one that checks, one that fills the cache and one
  that increments it; the job's second run adds a fourth pass. They are
  interchangeable within their kind, so the run uses symmetry (no liveness there).
* `MaxResends` (1), `MaxFaults` (1): one fault suffices for each weak spot, but for
  one. In `webhook_delivery` it is 4, one more than `Attempts`, so that every attempt
  and then the listener can lose its update (`PendingIsResolved`).
* `accounts` has two starts, in `MCInit`, and `MaxRequests = 8` counts the requests
  behind a start too. From the empty database (two refused tokens, which change
  nothing) any six follow of two registrations, two logins, two requests with a token
  and two with a key: an endpoint needs one of each, and two are left to race with
  them. A row of somebody else takes eight requests: two users who register, log in
  and make a key, one who creates the row and one who asks for it. So the second start
  is where the first six of these have happened, and any two follow of two requests
  with a token and two with a key: one meets a key, an endpoint or a template of the
  other user. Requests of a kind, emails and passwords are interchangeable as far as
  the starts leave them so: symmetry.
* `MaxChunks = 5`: the state of the loop depends on the last chunk only.
* Two requests in `RequestFlow`: they interact through the key and the templates
  alone. The eight bodies take every way through `resolvePrompt` and the router.

`CHECK_DEADLOCK FALSE` in every configuration: the systems stop when the finite
set of calls has been handled.

### Fairness

Weak fairness on what the program and its servers do when they live: a request or
a run under way takes its next step, a worker takes a waiting job, timers of the
backoff fire, Redis expires keys that have an expiry, and the stalled checker
(running in every worker) finds the job of a dead run. For `process` this assumes
that a call of a provider ends: the clients have timeouts of their SDKs, the code
adds none. No fairness is assumed for arrivals, deaths, stalls of living runs,
rejected commands, polls, revocations, the departure of a client, or the turn of
the month. `Streaming`, `RequestFlow` and `Accounts` have safety properties only, and
so has `usage_limit`; `usage_truth` uses the fairness of `UsageMeter`.

## 4. Proofs

Every safety and action property of every passing run is proved for every value of
the constants (any requests, keys, calls, jobs, attempts, limits, faults), from the
named assumptions of the modules alone: `LimiterAssumption`, `MeterAssumption`,
`QueueAssumption`, `FaultAssumption`, `StreamAssumption`, `FlowAssumption`,
`AccountsAssumption` and `NoRowAssumption`. They say that bounds are naturals, kinds
of requests are disjoint and the like; TLC evaluates each of them. The queue is
assumed to do what `BullQueue` says.

Hardly any property is inductive as it stands: it speaks of ends, and what makes an
end right is where each request, run or call stands on the way there. So each proof
has a strengthening whose main part says what lies behind every stage.

| Theorem | Property | Argument |
|---|---|---|
| `RateLimiterProofs!LimiterTypeCorrect` | `TypeOK` | one step per command |
| `RateLimiterProofs!QuotaHolds` | `GrantsBounded` | `CountsInv`: within one window INCR hands out every number once, none above the counter; `VerdictInv`: a request is let through only on a number up to the quota. Then the grants of a window map one-to-one into 1..requestsPerMin, and a cardinality lemma bounds them. The property itself does not say that counts are distinct. |
| `RateLimiterProofs!OpenEndedNeedsFault` | `OpenEndedOnlyByFault` | inductive beside `VerdictInv`, which says that a request about to send EXPIRE is the one that read 1 |
| `RateLimiterProofs!RefusalsAreEarned` | `RefusedOnlyOverQuota` | `SlotsInv`: without resent commands INCR leaves no gap, each number below one handed out belongs to another request of the window. `LargestInv` (a window has a largest number) makes the set counted finite even if the requests are not |
| `RateLimiterProofs!RetryAfterIsHonest` | `RetryAfterIsTold` | `RefusedInvariant`: a request that sends TTL was counted in a window no later than the live one, so a key that is gone is a window that closed; `OpenEndedOnlyByFault` says what a key without expiry means |
| `RateLimiterProofs!LimiterMeetsContract` | `MeetsContract` | each command is a step of `FixedWindow` or changes nothing of the mapping: `VerdictInv` ties a verdict to the number read, and the slot counter and the holders follow from INCR and the expiry alone |
| `UsageMeterProofs!MeterTypeCorrect` | `TypeOK` | with `PendingInv`, since increments under way are subtracted |
| `UsageMeterProofs!CacheCovers` | `CacheCoversLedger` | `PendingInv`: what a month still owes its entry is a sum over the calls between commit and INCRBY, stated without recursion as an additive measure on the sets of calls (`SumShifts`: a step shifts the measure by one call). `CoverInv` extends the property to a total that is about to be written to the cache |
| `UsageMeterProofs!OvercountsExpire` | `OvercountExpires` | `IncrementsInv`: an entry without an expiry was created by INCRBY and holds increments only |
| `UsageMeterProofs!AdmissionIsEarned` | `AdmittedOnlyBelowLimit` | `CheckInv`: what a check saw lies between what was settled when it began and the ledger; with `CoverInv` |
| `UsageMeterProofs!RefusalIsEarned` | `RefusedOnlyAboveHalf` | `TwiceInv`: an entry of this month is a total of the ledger and later increments, hence at most twice the ledger |
| `CompletionJobsProofs!JobsTypeCorrect` | `TypeOK` | with `QueueInv` of `BullQueueProofs`: runs = attempts + stalls + the run in progress; it also keeps run numbers inside `RunNumbers` |
| `CompletionJobsProofs!CompletionIsAccounted` | `CompletedMeansMeteredAndAnnounced` | `ProgressInv`: a run about to return has a committed row and a dispatch behind it, whichever other runs overlap; and no step takes either back |
| `CompletionJobsProofs!FailureIsHeard` | `FailureIsAnnounced` | `ProgressInv`: a run on its last attempt reaches `throw` only through the dispatch; `LockInv`: the run with the lock saw the attemptsMade the queue still has, so worker and queue agree which attempt is the last |
| `CompletionJobsProofs!AnswersAgree` | `ResultOnlyWhenCompleted` | `EndsInv`, `SnapshotInv`: only completed jobs have a result, and completed is final, so the later read of the state agrees with the earlier read of the result |
| `CompletionJobsProofs!JobsMeetContract` | `MeetsContract` | each action, under the invariants above, is a step of `JobContract` or changes nothing of the mapping: `Complete` needs `ProgressInv`, `Fail` needs `FailureIsAnnounced`, answers need `SnapshotInv` |
| `CompletionJobsProofs!RetriesChargeOnce` | `ChargedTwiceOnlyByFault` | `CalmInv`: while a job has not stalled, a run under way holds the lock, so there is one at a time; a row or an event of the job belongs to its last run, and where that run stands says which |
| `CompletionJobsProofs!FailureIsFinal` | `FailedEventIsFinal` | `CalmInv` with `NotifyInv` (job.failed is sent in the last attempt only) |
| `CompletionJobsProofs!StallsRepeat` | `AnnouncedOncePerStall` | `AnnouncedInv`: events sent, plus runs that may still send one without the lock, plus one for the job itself while it is open, never exceed one plus the stalls; a stall pays for the run it leaves without the lock |
| `CompletionJobsProofs!OpenJobsAreTended` | | `HolderInv`: an active job has a run with its lock, which is under way or dead; `RunsBounded` of the queue keeps the work left (`Fuel`) a natural number |
| `CompletionJobsProofs!JobsRunDown` | | `QueueSpends`: every command of the queue on a job spends of its attempts, its stalls or the way to the next run; between commands the run with the lock comes nearer to its end, and every other run to its own |
| `CompletionJobsProofs!ChargesAreBounded` | | `ChargesInv`: charges made, and runs that may still charge, never exceed the runs that were taken; these are one per attempt and per forgiven stall |
| `WebhookDeliveryProofs!DeliveryTypeCorrect` | `TypeOK` | with `QueueInv` |
| `WebhookDeliveryProofs!RowsComeBeforeJobs` | `RowBeforeJob` | `SenderInv`: how far the dispatch got says what the row and the job are |
| `WebhookDeliveryProofs!RepeatsAreFaults` | `RepeatedOnlyByFault` | `RunsInv`, `OutcomesInv`: without stalls only the run with the lock acts, and before its success nothing was accepted |
| `WebhookDeliveryProofs!TriesCounted` | `TriesAreCounted` | `CountsInv`: at each stage, how far POSTs, attempts and column are apart, in both directions, each gap paid for by a fault |
| `WebhookDeliveryProofs!EndsAreRecorded` | `EndIsRecorded` | `OutcomesInv`: a job that failed has its listener due, lost, or done; a run about to return wrote success after a POST that was accepted, or found the endpoint revoked |
| `WebhookDeliveryProofs!RevokedFallsQuiet` | `RevokedIsQuiet` | `LateInv`: late POSTs sent and about to be sent together never exceed one plus the stalls, since every stall leaves at most one run without the lock |
| `WebhookDeliveryProofs!FinalStatusesStay` | `FinalStatusStays` | `OutcomesInv`: no run is about to write once a recorded success or the dead letter is there |
| `WebhookDeliveryProofs!DeliveriesMeetContract` | `MeetsContract` | `HonestInv`: what a run knows of its endpoint from where it stands, which no other run can undo; then every step is a step of `DeliveryContract` on one endpoint (`PromisedStep`, pointwise) and leaves the others alone (`JobStepEffect`), and pointwise steps lift (`PromisesLift`) |
| `WebhookDeliveryProofs!PendingIsExplained` | | `SenderInv` for rows without a job; `EndExplained`, beside `HonestInv`, for jobs that ended: a run writes the row before it returns, and each way into "failed" leaves the listener due or a stall too many |
| `WebhookDeliveryProofs!DeliveriesAreTended` | | `RunsInv`: an active job has a run with its lock; with `RunsBounded` |
| `WebhookDeliveryProofs!DeliveriesRunDown` | | `QueueSpends` for the commands of the queue, `RunStepsDown` between them |
| `WebhookDeliveryProofs!PostsAreBounded` | | `PostsInv`: POSTs sent, and runs that may still send, never exceed the runs that were taken |
| `StreamingProofs!StreamTypeCorrect` | `TypeOK` | one step per action |
| `StreamingProofs!DoneIsWhole` | `DoneMeansWhole` | `WholeInv`: up to an abort every token that arrived was written, and the loop is only left at the end of the SDK's stream |
| `StreamingProofs!AbortStopsTheProvider` | `AbortIsNoticed` | `LateInv`: a chunk after the abort leaves the loop |
| `StreamingProofs!EndIsAlwaysTold` | `EndIsTold` | inductive beside `WholeInv`: a response ends with an event or after the abort |
| `RequestFlowProofs!FlowTypeCorrect` | `TypeOK` | with `StageInv`: a row is only written where none was |
| `RequestFlowProofs!ChargedRequestsAreAnswered` | `PaidIsAnswered` | `StageInv`: what a request has behind it where it stands |
| `RequestFlowProofs!AnswersAreEarned` | `AnswerIsEarned` | `StageInv`, and that a provider and its fallback are all the providers |
| `RequestFlowProofs!RevocationCutsOff` | `RevokedIsCutOff` | `CutOffInv`: such a request stands at the lookup until it is refused |
| `RequestFlowProofs!ForeignTemplatesStayHidden` | `ForeignTemplateIsHidden` | `HiddenInv`: such a request ends at the resolution of its prompt |
| `AccountsProofs!AccountsTypeCorrect` | `TypeOK` | with `StageInv`, `KindInv`, `ChainInv`: which stages and bodies a kind of request has, and that a token or key in use was handed out |
| `AccountsProofs!LateRegistrationsConflict` | `LateRegistrationConflicts` | `UniqueInv` (one row per email) and `RaceInv`: a registration about to insert arrived before any row with its email |
| `AccountsProofs!RegisteredLogsIn` | `RegisteredCanLogIn` | `KnownInv`, from `UniqueInv`: the row a login finds is the one it could have known of |
| `AccountsProofs!RevokedKeysAreInert` | `RevokedKeyIsInert` | `InertInv`: a call that passed the guard arrived before its key was revoked; `RevokedInTimeInv`: so whoever revoked an endpoint came before, with the key of the endpoint |
| `AccountsProofs!OwnersAlone` | `OwnersOnly` | `RevokingInv` (a row about to be revoked was found to be one's own), `ShownInv`, `InactiveInv`, `ListedInv`; owners never change because bodies and tokens do not |

The conjuncts of the `UsageMeter` invariant, the least obvious of them, also hold as
invariants on the state space of `usage_limit`. Some results are properties of no run.
Four are implied by a `MeetsContract` that is: `RefusedOnlyOverQuota` says with
requests what `Refuse` of `FixedWindow` says with slots; `FailureIsAnnounced` and
`CompletedMeansMeteredAndAnnounced` are the guards of `Fail` and `Complete` in
`JobContract`, and `ResultOnlyWhenCompleted` is that of `Answer`. The others stand in
the proof modules (`Tended`, `RunsDown`, `ChargesBounded`, `PostsBounded`,
`PendingExplained`); TLC finds
them true on the instances of `completion_jobs` and `webhook_delivery`.

Liveness is half proved. That every job ends takes two things: that a job under way
can never be stranded or go on for ever, and that the steps that take it on are taken.
The first is safety, and `OpenJobsAreTended` with `JobsRunDown` proves it for any
number of attempts, stalls and jobs: an active job always has a run that can go on or
can be found dead, and every step of a job makes less of a natural number. For the
rows `PendingIsExplained` adds that nothing else is stuck: what is pending and has no
job under way is one of the three exceptions or about to be updated. The second
is fairness and ENABLED, which TLAPS cannot reason about, and stays with
`EveryJobSettles` and `PendingIsResolved`.

Model-checked only: liveness (`CleanWindowsClose`, `EveryJobSettles`,
`PendingIsResolved`), and the five counterexamples. For what is proved, the bounds of
the runs matter no more.

## 5. Not modelled

* `getUsage`: two read-only queries, no state changes.
* The webhook signer: a pure HMAC; what it signs is data.
* Hashing of keys and passwords, the coding of tokens, the texts of prompts and
  answers: data. Passwords and tokens compare exactly.
* The validation pipe: bodies are those that passed it.
* Configuration, connections, wiring, health check: start-up and I/O. What their
  settings imply (resent commands, transactions, attempts) is in the models.
* The substitution of `{{name}}` as text: `RequestFlow` keeps which names a content
  has and a body gives, which decides between an answer and a 400. The code looks
  names up with `variables[name]` and so also finds inherited ones such as
  `constructor`; the model takes the names the body gives.
* The 404 of `getJobStatus` for jobs of other keys, and the error of the router for
  a provider that is not registered (bodies are validated against the two).
* A provider that never answers: the code adds no timeout, and a model would have to
  assume the fairness it asks for.
* The composition of `CompletionJobs` with `WebhookDelivery`: a dispatch hands over
  an event and gets nothing back, swallows every failure, and gives each event its own
  delivery ids, so that the deliveries of one event depend on no other state of the
  job. What would be new is that an event sent twice is delivered twice, which
  `completion_once` shows already.

## 6. Plan

Done, in this order: `RateLimiter`, `UsageMeter`, `BullQueue` and `CompletionJobs`,
`WebhookDelivery`, `Streaming`, `RequestFlow`, `JobContract` with the refinement,
`Accounts`, `FixedWindow` and `DeliveryContract` with their refinements; each with its
proofs.

Left:
1. Time at the providers, for streams whose provider stops sending.
2. Jobs that were queued with a key revoked meanwhile: `CompletionJobs` with keys.
3. Template rendering as a pure function over token sequences, against a reference.
