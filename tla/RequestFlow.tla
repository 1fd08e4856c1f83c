------------------------------ MODULE RequestFlow ------------------------------
(***************************************************************************)
(* POST /v1/complete and POST /v1/complete/async from the guards to the    *)
(* answer: ApiKeyGuard (KeysService.validateKey), RateLimitGuard,          *)
(* CompletionsService.complete or enqueueAsync, ProvidersService.complete  *)
(* with its fallback, and the log of the outcome.  Each await is a step;   *)
(* meanwhile the owner revokes the key and templates are created.  What    *)
(* the limiter, the meter and the queue do inside is left to RateLimiter,  *)
(* UsageMeter and CompletionJobs; here they accept, refuse or fail.        *)
(***************************************************************************)
EXTENDS FiniteSets, Integers

CONSTANTS
  Requests,    \* the requests with the API key
  User,        \* its user
  Templates,   \* the ids of prompt templates
  Owner,       \* Owner[t]: the user that creates t
  Holes,       \* Holes[t]: the {{names}} in the content of t
  Dtos,        \* the validated bodies a request can have
  NoTemplate,  \* templateId left out
  Models       \* Models[p]: the models provider p knows

Providers == {"gemini", "groq"}
DefaultModel == "default"

\* A body: the route it is posted to and the fields of CompleteDto.
IsDto(d) ==
  /\ d.route \in {"complete", "async"}
  /\ d.prompt \in BOOLEAN
  /\ d.template \in Templates \cup {NoTemplate}
  /\ d.provider \in Providers

ASSUME FlowAssumption ==
  /\ NoTemplate \notin Templates
  /\ \A d \in Dtos : IsDto(d)

VARIABLES
  isActive,    \* the column of the API key
  exists,      \* exists[t]: the row of template t is there
  dto,         \* dto[r]: the body of r
  pc,          \* pc[r]: the await at which r stands
  reply,       \* reply[r]: the HTTP status r was answered with, 0 before
  tried,       \* tried[r]: the providers r was sent to
  okRows,      \* okRows[r]: AiRequest rows with status success, tokens charged
  failedRows,  \* failedRows[r]: AiRequest rows with status failed
  jobs,        \* jobs[r]: jobs queued by r
  tooLate,     \* tooLate[r]: the key was revoked before r looked it up (history)
  doubtful     \* doubtful[r]: a command of r was executed and still threw (history)

vars == <<isActive, exists, dto, pc, reply, tried, okRows, failedRows, jobs, tooLate, doubtful>>
tables == <<isActive, exists>>
effects == <<tried, okRows, failedRows, jobs>>
history == <<tooLate, doubtful>>

Awaiting == {"lookup", "touch", "limiter", "template", "quota", "primary", "fallback", "log",
             "respond", "logFailure", "enqueue"}
Statuses == {0, 201, 400, 401, 404, 429, 500, 502}

TypeOK ==
  /\ isActive \in BOOLEAN
  /\ exists \in [Templates -> BOOLEAN]
  /\ dto \in [Requests -> Dtos]
  /\ pc \in [Requests -> Awaiting \cup {"new", "ended"}]
  /\ reply \in [Requests -> Statuses]
  /\ tried \in [Requests -> SUBSET Providers]
  /\ okRows \in [Requests -> 0 .. 1]
  /\ failedRows \in [Requests -> 0 .. 1]
  /\ jobs \in [Requests -> 0 .. 1]
  /\ tooLate \in [Requests -> BOOLEAN]
  /\ doubtful \in [Requests -> BOOLEAN]

Init ==
  /\ isActive = TRUE
  /\ exists = [t \in Templates |-> FALSE]
  /\ dto \in [Requests -> Dtos]
  /\ pc = [r \in Requests |-> "new"]
  /\ reply = [r \in Requests |-> 0]
  /\ tried = [r \in Requests |-> {}]
  /\ okRows = [r \in Requests |-> 0]
  /\ failedRows = [r \in Requests |-> 0]
  /\ jobs = [r \in Requests |-> 0]
  /\ tooLate = [r \in Requests |-> FALSE]
  /\ doubtful = [r \in Requests |-> FALSE]

Goto(r, step) == pc' = [pc EXCEPT ![r] = step] /\ UNCHANGED reply
Answer(r, status) ==
  /\ pc' = [pc EXCEPT ![r] = "ended"]
  /\ reply' = [reply EXCEPT ![r] = status]
Bump(f, r) == [f EXCEPT ![r] = @ + 1]

-----------------------------------------------------------------------------
(* The other routes.                                                       *)

\* KeysService.revoke.
Revoke ==
  /\ isActive
  /\ isActive' = FALSE
  /\ UNCHANGED <<exists, dto, pc, reply, effects, history>>

\* TemplatesService.create.
CreateTemplate(t) ==
  /\ ~exists[t]
  /\ exists' = [exists EXCEPT ![t] = TRUE]
  /\ UNCHANGED <<isActive, dto, pc, reply, effects, history>>

-----------------------------------------------------------------------------
(* The guards.                                                             *)

\* The request comes in and the query of validateKey is sent.
Arrive(r) ==
  /\ pc[r] = "new"
  /\ Goto(r, "lookup")
  /\ tooLate' = [tooLate EXCEPT ![r] = ~isActive]
  /\ UNCHANGED <<tables, dto, effects, doubtful>>

\* findUnique answers with the row of the key.
AnyRow == TRUE                               \* mutant: a revoked key is still accepted
KeyAccepted == isActive

LookUpKey(r) ==
  /\ pc[r] = "lookup"
  /\ IF KeyAccepted THEN Goto(r, "touch") ELSE Answer(r, 401)
  /\ UNCHANGED <<tables, dto, effects, history>>

\* The update of lastUsedAt; the key is not looked at again after it.
TouchKey(r) ==
  /\ pc[r] = "touch"
  /\ Goto(r, "limiter")
  /\ UNCHANGED <<tables, dto, effects, history>>

RateLimit(r) ==
  /\ pc[r] = "limiter"
  /\ Goto(r, "template") \/ Answer(r, 429)
  /\ UNCHANGED <<tables, dto, effects, history>>

-----------------------------------------------------------------------------
(* CompletionsService.                                                     *)

\* What resolvePrompt makes of a body: 0 for a prompt, or the status it throws.
\* The row of the template is read, its owner compared, its content rendered.
Rendered(d) == IF Holes[d.template] \subseteq d.variables THEN 0 ELSE 400

RenderedFirst(d) ==                          \* mutant: the owner is compared after rendering
  CASE d.prompt = (d.template # NoTemplate) -> 400
    [] d.prompt /\ d.template = NoTemplate -> 0
    [] OTHER -> IF ~exists[d.template] THEN 404
                ELSE IF Rendered(d) # 0 THEN Rendered(d)
                ELSE IF Owner[d.template] # User THEN 404 ELSE 0

resolvePrompt(d) ==
  CASE d.prompt = (d.template # NoTemplate) -> 400
    [] d.prompt /\ d.template = NoTemplate -> 0
    [] OTHER -> IF ~exists[d.template] \/ Owner[d.template] # User THEN 404 ELSE Rendered(d)

ResolvePrompt(r) ==
  /\ pc[r] = "template"
  /\ IF resolvePrompt(dto[r]) = 0 THEN Goto(r, "quota") ELSE Answer(r, resolvePrompt(dto[r]))
  /\ UNCHANGED <<tables, dto, effects, history>>

\* checkMonthlyLimit: then the provider, or the queue.
CheckMonthlyLimit(r) ==
  /\ pc[r] = "quota"
  /\ \/ Goto(r, IF dto[r].route = "async" THEN "enqueue" ELSE "primary")
     \/ Answer(r, 429)
  /\ UNCHANGED <<tables, dto, effects, history>>

\* jobs.enqueue.
Enqueue(r) ==
  /\ pc[r] = "enqueue"
  /\ jobs' = Bump(jobs, r)
  /\ Answer(r, 201)
  /\ UNCHANGED <<tables, dto, tried, okRows, failedRows, history>>

-----------------------------------------------------------------------------
(* ProvidersService.complete.  The fallback gets the request as it is, with *)
(* the model that was asked for.                                           *)

FirstRegistered(p) == "gemini"               \* mutant: the primary is not left out
getFallbackName(p) == CHOOSE q \in Providers : q # p

\* The provider each of the two attempts goes to.
Attempt(r) == IF pc[r] = "primary" THEN dto[r].provider ELSE getFallbackName(dto[r].provider)

Knows(p, model) == model = DefaultModel \/ model \in Models[p]

ProviderAnswers(r) ==
  /\ pc[r] \in {"primary", "fallback"}
  /\ Knows(Attempt(r), dto[r].model)
  /\ tried' = [tried EXCEPT ![r] = @ \cup {Attempt(r)}]
  /\ Goto(r, "log")
  /\ UNCHANGED <<tables, dto, okRows, failedRows, jobs, history>>

ProviderFails(r) ==
  /\ pc[r] \in {"primary", "fallback"}
  /\ tried' = [tried EXCEPT ![r] = @ \cup {Attempt(r)}]
  /\ Goto(r, IF pc[r] = "primary" THEN "fallback" ELSE "logFailure")
  /\ UNCHANGED <<tables, dto, okRows, failedRows, jobs, history>>

\* The transaction of logRequest commits.
Log(r) ==
  /\ pc[r] = "log"
  /\ okRows' = Bump(okRows, r)
  /\ Goto(r, "respond")
  /\ UNCHANGED <<tables, dto, tried, failedRows, jobs, history>>

\* Its INCRBY resolves or not, then the answer goes out.
Respond(r) ==
  /\ pc[r] = "respond"
  /\ Answer(r, 201)
  /\ UNCHANGED <<tables, dto, effects, history>>

\* safeLogFailure: whether or not the row is written, the answer is 502.
FailureAsSuccess(r) ==                       \* mutant: the row says success
  /\ pc[r] = "logFailure"
  /\ okRows' = Bump(okRows, r)
  /\ Answer(r, 502)
  /\ UNCHANGED <<tables, dto, tried, failedRows, jobs, history>>

LogFailure(r) ==
  /\ pc[r] = "logFailure"
  /\ failedRows' = Bump(failedRows, r) \/ UNCHANGED failedRows
  /\ Answer(r, 502)
  /\ UNCHANGED <<tables, dto, tried, okRows, jobs, history>>

\* A query, a command or a transaction that nobody catches rejects: a 500.  It
\* may have been executed all the same.
Rejecting(r) ==
  \/ pc[r] \in {"lookup", "touch", "limiter", "quota", "log", "enqueue"}
  \/ pc[r] = "template" /\ ~dto[r].prompt /\ dto[r].template # NoTemplate

ExecutedAnyway(r) ==
  /\ doubtful' = [doubtful EXCEPT ![r] = TRUE]
  /\ \/ pc[r] = "log" /\ okRows' = Bump(okRows, r) /\ UNCHANGED jobs
     \/ pc[r] = "enqueue" /\ jobs' = Bump(jobs, r) /\ UNCHANGED okRows

LoggedAgain(r) ==                            \* mutant: the log is retried on any error
  /\ Rejecting(r)
  /\ UNCHANGED <<okRows, jobs, doubtful>> \/ ExecutedAnyway(r)
  /\ IF pc[r] = "log" THEN UNCHANGED <<pc, reply>> ELSE Answer(r, 500)
  /\ UNCHANGED <<tables, dto, tried, failedRows, tooLate>>

Rejects(r) ==
  /\ Rejecting(r)
  /\ UNCHANGED <<okRows, jobs, doubtful>> \/ ExecutedAnyway(r)
  /\ Answer(r, 500)
  /\ UNCHANGED <<tables, dto, tried, failedRows, tooLate>>

\* The process dies: the connection breaks and there is no answer.
Die(r) ==
  /\ pc[r] \in Awaiting
  /\ Answer(r, 0)
  /\ UNCHANGED <<tables, dto, effects, history>>

Next ==
  \/ Revoke
  \/ \E t \in Templates : CreateTemplate(t)
  \/ \E r \in Requests :
       \/ Arrive(r) \/ LookUpKey(r) \/ TouchKey(r) \/ RateLimit(r) \/ ResolvePrompt(r)
       \/ CheckMonthlyLimit(r) \/ Enqueue(r) \/ ProviderAnswers(r) \/ ProviderFails(r)
       \/ Log(r) \/ Respond(r) \/ LogFailure(r) \/ Rejects(r) \/ Die(r)

Spec == Init /\ [][Next]_vars

-----------------------------------------------------------------------------
\* Who is charged was served: a request whose success was logged is never told
\* that it failed, unless the transaction committed and still threw; it gets its
\* result, or no answer from a process that died after the commit.
PaidIsAnswered ==
  \A r \in Requests :
    pc[r] = "ended" /\ okRows[r] > 0 => reply[r] \in {201, 0} \/ doubtful[r]

\* README "Auto-switches Gemini <-> Groq on failure": a 502 is only answered after
\* both providers were tried, a 201 of the sync route only with its row.
AnswerIsEarned ==
  \A r \in Requests :
    /\ reply[r] = 502 => tried[r] = Providers /\ okRows[r] = 0
    /\ reply[r] = 201 => IF dto[r].route = "async" THEN jobs[r] = 1 ELSE okRows[r] = 1

\* Once a revocation is done, requests that come in later reach neither a
\* provider nor the queue, whatever requests before them are still doing.
RevokedIsCutOff ==
  \A r \in Requests : tooLate[r] => tried[r] = {} /\ jobs[r] = 0 /\ okRows[r] = 0

\* A template of another user looks like one that does not exist: in particular
\* a body without its variables is not told so.
ForeignTemplateIsHidden ==
  \A r \in Requests :
    LET d == dto[r]
    IN  /\ pc[r] = "ended"
        /\ ~d.prompt
        /\ d.template # NoTemplate
        /\ Owner[d.template] # User
        => reply[r] \in {0, 401, 404, 429, 500}
=============================================================================
