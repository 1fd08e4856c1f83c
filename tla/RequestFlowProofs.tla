--------------------------- MODULE RequestFlowProofs ---------------------------
(***************************************************************************)
(* Theorems about RequestFlow for any number of requests and templates and *)
(* any set of bodies.                                                      *)
(*                                                                         *)
(* A request is a straight line with exits: where it stands says what it   *)
(* has behind it (StageInv), and its answer adds nothing to that           *)
(* (ExitInv).  The two races with other routes are settled by the step     *)
(* that reads the row: what comes in after the revocation stands still at  *)
(* the lookup (CutOffInv), a foreign template ends at its resolution       *)
(* (HiddenInv).                                                            *)
(***************************************************************************)
EXTENDS RequestFlow, TLAPS

Guarding == {"new", "lookup", "touch", "limiter", "template", "quota"}
Attempting == {"primary", "fallback", "log", "logFailure"}

\* What a request under way has behind it.
StageInv ==
  \A r \in Requests :
    /\ pc[r] \in Guarding \cup {"enqueue", "primary"} => tried[r] = {}
    /\ pc[r] = "fallback" => tried[r] = {dto[r].provider}
    /\ pc[r] = "logFailure" => tried[r] = Providers
    /\ pc[r] \in Guarding \cup Attempting \cup {"enqueue"} => okRows[r] = 0
    /\ pc[r] = "respond" => okRows[r] = 1
    /\ pc[r] # "ended" => jobs[r] = 0 /\ failedRows[r] = 0 /\ reply[r] = 0
    /\ pc[r] = "enqueue" => dto[r].route = "async"
    /\ pc[r] \in Attempting \cup {"respond"} => dto[r].route = "complete"

\* How a request ends.
ExitInv == PaidIsAnswered /\ AnswerIsEarned

\* A request that came in after the revocation gets no further than the lookup.
CutOffInv ==
  \A r \in Requests :
    tooLate[r] =>
      /\ ~isActive
      /\ pc[r] \in {"lookup", "ended"}
      /\ tried[r] = {} /\ jobs[r] = 0 /\ okRows[r] = 0

\* A body with the template of another user.
NamesForeign(d) == ~d.prompt /\ d.template # NoTemplate /\ Owner[d.template] # User

\* Such a request gets no further than the resolution of its template.
HiddenInv ==
  \A r \in Requests :
    NamesForeign(dto[r]) =>
      \/ pc[r] \in Guarding \ {"quota"}
      \/ pc[r] = "ended" /\ reply[r] \in {0, 401, 404, 429, 500}

IInv == TypeOK /\ StageInv /\ ExitInv /\ CutOffInv /\ HiddenInv

-----------------------------------------------------------------------------
LEMMA TwoProviders == \A p \in Providers : /\ getFallbackName(p) \in Providers
                                           /\ Providers = {p, getFallbackName(p)}
  <1> SUFFICES ASSUME NEW p \in Providers
               PROVE  /\ getFallbackName(p) \in Providers
                      /\ Providers = {p, getFallbackName(p)}
    OBVIOUS
  <1>1. \E q \in Providers : q # p
    BY DEF Providers
  <1>2. getFallbackName(p) \in Providers /\ getFallbackName(p) # p
    BY <1>1 DEF getFallbackName
  <1> QED
    BY <1>2 DEF Providers

\* The fields of a body that steer the request.
LEMMA BodyIsValid ==
  ASSUME TypeOK, NEW r \in Requests
  PROVE  /\ dto[r].route \in {"complete", "async"}
         /\ dto[r].provider \in Providers
         /\ Attempt(r) \in Providers
  <1>1. dto[r] \in Dtos
    BY DEF TypeOK
  <1>2. IsDto(dto[r])
    BY <1>1, FlowAssumption
  <1> QED
    BY <1>2, TwoProviders DEF IsDto, Attempt

LEMMA FlowInit == Init => IInv
  BY DEF Init, IInv, TypeOK, StageInv, ExitInv, CutOffInv, HiddenInv, PaidIsAnswered,
         AnswerIsEarned, Awaiting, Statuses, Guarding, Attempting

\* The status resolvePrompt throws.
LEMMA PromptStatus ==
  ASSUME NEW d
  PROVE  /\ resolvePrompt(d) \in {0, 400, 404}
         /\ NamesForeign(d) => resolvePrompt(d) = 404
  <1>1. CASE d.prompt = (d.template # NoTemplate)
    BY <1>1 DEF resolvePrompt, Rendered, NamesForeign
  <1>2. CASE d.prompt # (d.template # NoTemplate)
    BY <1>2 DEF resolvePrompt, Rendered, NamesForeign
  <1> QED
    BY <1>1, <1>2

-----------------------------------------------------------------------------
LEMMA TypeStep == IInv /\ [Next]_vars => TypeOK'
  <1> SUFFICES ASSUME IInv, [Next]_vars PROVE TypeOK'
    OBVIOUS
  <1> USE FlowAssumption
      DEF IInv, TypeOK, StageInv, Goto, Answer, Bump, tables, effects, history, Statuses,
          Awaiting, Guarding, Attempting
  <1>1. CASE Revoke
    BY <1>1 DEF Revoke
  <1>2. ASSUME NEW t \in Templates, CreateTemplate(t) PROVE TypeOK'
    BY <1>2 DEF CreateTemplate
  <1>3. ASSUME NEW r \in Requests, Arrive(r) PROVE TypeOK'
    BY <1>3 DEF Arrive
  <1>4. ASSUME NEW r \in Requests, LookUpKey(r) PROVE TypeOK'
    BY <1>4 DEF LookUpKey, KeyAccepted
  <1>5. ASSUME NEW r \in Requests, TouchKey(r) PROVE TypeOK'
    BY <1>5 DEF TouchKey
  <1>6. ASSUME NEW r \in Requests, RateLimit(r) PROVE TypeOK'
    BY <1>6 DEF RateLimit
  <1>7. ASSUME NEW r \in Requests, ResolvePrompt(r) PROVE TypeOK'
    BY <1>7, PromptStatus DEF ResolvePrompt
  <1>8. ASSUME NEW r \in Requests, CheckMonthlyLimit(r) PROVE TypeOK'
    BY <1>8, BodyIsValid DEF CheckMonthlyLimit
  <1>9. ASSUME NEW r \in Requests, Enqueue(r) PROVE TypeOK'
    BY <1>9 DEF Enqueue
  <1>10. ASSUME NEW r \in Requests, ProviderAnswers(r) PROVE TypeOK'
    BY <1>10, TwoProviders, BodyIsValid DEF ProviderAnswers, Attempt
  <1>11. ASSUME NEW r \in Requests, ProviderFails(r) PROVE TypeOK'
    BY <1>11, TwoProviders, BodyIsValid DEF ProviderFails, Attempt
  <1>12. ASSUME NEW r \in Requests, Log(r) PROVE TypeOK'
    BY <1>12 DEF Log
  <1>13. ASSUME NEW r \in Requests, Respond(r) PROVE TypeOK'
    BY <1>13 DEF Respond
  <1>14. ASSUME NEW r \in Requests, LogFailure(r) PROVE TypeOK'
    BY <1>14 DEF LogFailure
  <1>15. ASSUME NEW r \in Requests, Rejects(r) PROVE TypeOK'
    <2>1. CASE ExecutedAnyway(r)
      <3>1. doubtful' \in [Requests -> BOOLEAN]
        BY <2>1 DEF ExecutedAnyway
      <3>2. okRows' \in [Requests -> 0 .. 1] /\ jobs' \in [Requests -> 0 .. 1]
        BY <2>1 DEF ExecutedAnyway
      <3>3. /\ pc' \in [Requests -> Awaiting \cup {"new", "ended"}]
            /\ reply' \in [Requests -> Statuses]
            /\ UNCHANGED <<isActive, exists, dto, tried, failedRows, tooLate>>
        BY <1>15 DEF Rejects
      <3> HIDE DEF Awaiting, Statuses, tables, effects, history
      <3> QED
        BY <3>1, <3>2, <3>3
    <2>2. CASE UNCHANGED <<okRows, jobs, doubtful>>
      BY <1>15, <2>2 DEF Rejects
    <2> QED
      BY <1>15, <2>1, <2>2 DEF Rejects
  <1>16. ASSUME NEW r \in Requests, Die(r) PROVE TypeOK'
    BY <1>16 DEF Die, Awaiting
  <1>17. CASE UNCHANGED vars
    BY <1>17 DEF vars
  <1> QED
    BY <1>1, <1>2, <1>3, <1>4, <1>5, <1>6, <1>7, <1>8, <1>9, <1>10,
       <1>11, <1>12, <1>13, <1>14, <1>15, <1>16, <1>17 DEF Next

-----------------------------------------------------------------------------
LEMMA StageStep == IInv /\ [Next]_vars => StageInv'
  <1> SUFFICES ASSUME IInv, [Next]_vars PROVE StageInv'
    OBVIOUS
  <1> USE FlowAssumption
      DEF IInv, TypeOK, StageInv, Goto, Answer, Bump, tables, effects, history, Guarding,
          Attempting
  <1>1. CASE Revoke
    BY <1>1 DEF Revoke
  <1>2. ASSUME NEW t \in Templates, CreateTemplate(t) PROVE StageInv'
    BY <1>2 DEF CreateTemplate
  <1>3. ASSUME NEW r \in Requests, Arrive(r) PROVE StageInv'
    BY <1>3 DEF Arrive
  <1>4. ASSUME NEW r \in Requests, LookUpKey(r) PROVE StageInv'
    BY <1>4 DEF LookUpKey, KeyAccepted
  <1>5. ASSUME NEW r \in Requests, TouchKey(r) PROVE StageInv'
    BY <1>5 DEF TouchKey
  <1>6. ASSUME NEW r \in Requests, RateLimit(r) PROVE StageInv'
    BY <1>6 DEF RateLimit
  <1>7. ASSUME NEW r \in Requests, ResolvePrompt(r) PROVE StageInv'
    BY <1>7, PromptStatus DEF ResolvePrompt
  <1>8. ASSUME NEW r \in Requests, CheckMonthlyLimit(r) PROVE StageInv'
    BY <1>8, BodyIsValid DEF CheckMonthlyLimit
  <1>9. ASSUME NEW r \in Requests, Enqueue(r) PROVE StageInv'
    BY <1>9 DEF Enqueue
  <1>10. ASSUME NEW r \in Requests, ProviderAnswers(r) PROVE StageInv'
    BY <1>10, TwoProviders, BodyIsValid DEF ProviderAnswers, Attempt
  <1>11. ASSUME NEW r \in Requests, ProviderFails(r) PROVE StageInv'
    BY <1>11, TwoProviders, BodyIsValid DEF ProviderFails, Attempt
  <1>12. ASSUME NEW r \in Requests, Log(r) PROVE StageInv'
    BY <1>12 DEF Log
  <1>13. ASSUME NEW r \in Requests, Respond(r) PROVE StageInv'
    BY <1>13 DEF Respond
  <1>14. ASSUME NEW r \in Requests, LogFailure(r) PROVE StageInv'
    BY <1>14 DEF LogFailure
  <1>15. ASSUME NEW r \in Requests, Rejects(r) PROVE StageInv'
    BY <1>15 DEF Rejects, Rejecting, ExecutedAnyway
  <1>16. ASSUME NEW r \in Requests, Die(r) PROVE StageInv'
    BY <1>16 DEF Die, Awaiting
  <1>17. CASE UNCHANGED vars
    BY <1>17 DEF vars
  <1> QED
    BY <1>1, <1>2, <1>3, <1>4, <1>5, <1>6, <1>7, <1>8, <1>9, <1>10,
       <1>11, <1>12, <1>13, <1>14, <1>15, <1>16, <1>17 DEF Next

-----------------------------------------------------------------------------
LEMMA ExitStep == IInv /\ [Next]_vars => ExitInv'
  <1> SUFFICES ASSUME IInv, [Next]_vars PROVE ExitInv'
    OBVIOUS
  <1> USE FlowAssumption
      DEF IInv, TypeOK, StageInv, ExitInv, PaidIsAnswered, AnswerIsEarned, Goto, Answer,
          Bump, tables, effects, history, Guarding, Attempting
  <1>1. CASE Revoke
    BY <1>1 DEF Revoke
  <1>2. ASSUME NEW t \in Templates, CreateTemplate(t) PROVE ExitInv'
    BY <1>2 DEF CreateTemplate
  <1>3. ASSUME NEW r \in Requests, Arrive(r) PROVE ExitInv'
    BY <1>3 DEF Arrive
  <1>4. ASSUME NEW r \in Requests, LookUpKey(r) PROVE ExitInv'
    BY <1>4 DEF LookUpKey, KeyAccepted
  <1>5. ASSUME NEW r \in Requests, TouchKey(r) PROVE ExitInv'
    BY <1>5 DEF TouchKey
  <1>6. ASSUME NEW r \in Requests, RateLimit(r) PROVE ExitInv'
    BY <1>6 DEF RateLimit
  <1>7. ASSUME NEW r \in Requests, ResolvePrompt(r) PROVE ExitInv'
    BY <1>7, PromptStatus DEF ResolvePrompt
  <1>8. ASSUME NEW r \in Requests, CheckMonthlyLimit(r) PROVE ExitInv'
    BY <1>8, BodyIsValid DEF CheckMonthlyLimit
  <1>9. ASSUME NEW r \in Requests, Enqueue(r) PROVE ExitInv'
    BY <1>9 DEF Enqueue
  <1>10. ASSUME NEW r \in Requests, ProviderAnswers(r) PROVE ExitInv'
    BY <1>10, TwoProviders, BodyIsValid DEF ProviderAnswers, Attempt
  <1>11. ASSUME NEW r \in Requests, ProviderFails(r) PROVE ExitInv'
    BY <1>11, TwoProviders, BodyIsValid DEF ProviderFails, Attempt
  <1>12. ASSUME NEW r \in Requests, Log(r) PROVE ExitInv'
    BY <1>12 DEF Log
  <1>13. ASSUME NEW r \in Requests, Respond(r) PROVE ExitInv'
    BY <1>13 DEF Respond
  <1>14. ASSUME NEW r \in Requests, LogFailure(r) PROVE ExitInv'
    BY <1>14 DEF LogFailure
  <1>15. ASSUME NEW r \in Requests, Rejects(r) PROVE ExitInv'
    BY <1>15 DEF Rejects, Rejecting, ExecutedAnyway
  <1>16. ASSUME NEW r \in Requests, Die(r) PROVE ExitInv'
    BY <1>16 DEF Die, Awaiting
  <1>17. CASE UNCHANGED vars
    BY <1>17 DEF vars
  <1> QED
    BY <1>1, <1>2, <1>3, <1>4, <1>5, <1>6, <1>7, <1>8, <1>9, <1>10,
       <1>11, <1>12, <1>13, <1>14, <1>15, <1>16, <1>17 DEF Next

-----------------------------------------------------------------------------
LEMMA CutOffStep == IInv /\ [Next]_vars => CutOffInv'
  <1> SUFFICES ASSUME IInv, [Next]_vars PROVE CutOffInv'
    OBVIOUS
  <1> USE FlowAssumption
      DEF IInv, TypeOK, StageInv, CutOffInv, Goto, Answer, Bump, tables, effects, history,
          Guarding, Attempting
  <1>1. CASE Revoke
    BY <1>1 DEF Revoke
  <1>2. ASSUME NEW t \in Templates, CreateTemplate(t) PROVE CutOffInv'
    BY <1>2 DEF CreateTemplate
  <1>3. ASSUME NEW r \in Requests, Arrive(r) PROVE CutOffInv'
    BY <1>3 DEF Arrive
  <1>4. ASSUME NEW r \in Requests, LookUpKey(r) PROVE CutOffInv'
    BY <1>4 DEF LookUpKey, KeyAccepted
  <1>5. ASSUME NEW r \in Requests, TouchKey(r) PROVE CutOffInv'
    BY <1>5 DEF TouchKey
  <1>6. ASSUME NEW r \in Requests, RateLimit(r) PROVE CutOffInv'
    BY <1>6 DEF RateLimit
  <1>7. ASSUME NEW r \in Requests, ResolvePrompt(r) PROVE CutOffInv'
    BY <1>7, PromptStatus DEF ResolvePrompt
  <1>8. ASSUME NEW r \in Requests, CheckMonthlyLimit(r) PROVE CutOffInv'
    BY <1>8, BodyIsValid DEF CheckMonthlyLimit
  <1>9. ASSUME NEW r \in Requests, Enqueue(r) PROVE CutOffInv'
    BY <1>9 DEF Enqueue
  <1>10. ASSUME NEW r \in Requests, ProviderAnswers(r) PROVE CutOffInv'
    BY <1>10, TwoProviders, BodyIsValid DEF ProviderAnswers, Attempt
  <1>11. ASSUME NEW r \in Requests, ProviderFails(r) PROVE CutOffInv'
    BY <1>11, TwoProviders, BodyIsValid DEF ProviderFails, Attempt
  <1>12. ASSUME NEW r \in Requests, Log(r) PROVE CutOffInv'
    BY <1>12 DEF Log
  <1>13. ASSUME NEW r \in Requests, Respond(r) PROVE CutOffInv'
    BY <1>13 DEF Respond
  <1>14. ASSUME NEW r \in Requests, LogFailure(r) PROVE CutOffInv'
    BY <1>14 DEF LogFailure
  <1>15. ASSUME NEW r \in Requests, Rejects(r) PROVE CutOffInv'
    BY <1>15 DEF Rejects, Rejecting, ExecutedAnyway
  <1>16. ASSUME NEW r \in Requests, Die(r) PROVE CutOffInv'
    BY <1>16 DEF Die, Awaiting
  <1>17. CASE UNCHANGED vars
    BY <1>17 DEF vars
  <1> QED
    BY <1>1, <1>2, <1>3, <1>4, <1>5, <1>6, <1>7, <1>8, <1>9, <1>10,
       <1>11, <1>12, <1>13, <1>14, <1>15, <1>16, <1>17 DEF Next

-----------------------------------------------------------------------------
LEMMA HiddenStep == IInv /\ [Next]_vars => HiddenInv'
  <1> SUFFICES ASSUME IInv, [Next]_vars PROVE HiddenInv'
    OBVIOUS
  <1> USE FlowAssumption
      DEF IInv, TypeOK, StageInv, HiddenInv, Goto, Answer, Bump, tables, effects, history,
          Guarding, Attempting
  <1>1. CASE Revoke
    BY <1>1 DEF Revoke
  <1>2. ASSUME NEW t \in Templates, CreateTemplate(t) PROVE HiddenInv'
    BY <1>2 DEF CreateTemplate
  <1>3. ASSUME NEW r \in Requests, Arrive(r) PROVE HiddenInv'
    BY <1>3 DEF Arrive
  <1>4. ASSUME NEW r \in Requests, LookUpKey(r) PROVE HiddenInv'
    BY <1>4 DEF LookUpKey, KeyAccepted
  <1>5. ASSUME NEW r \in Requests, TouchKey(r) PROVE HiddenInv'
    BY <1>5 DEF TouchKey
  <1>6. ASSUME NEW r \in Requests, RateLimit(r) PROVE HiddenInv'
    BY <1>6 DEF RateLimit
  <1>7. ASSUME NEW r \in Requests, ResolvePrompt(r) PROVE HiddenInv'
    BY <1>7, PromptStatus DEF ResolvePrompt
  <1>8. ASSUME NEW r \in Requests, CheckMonthlyLimit(r) PROVE HiddenInv'
    BY <1>8, BodyIsValid DEF CheckMonthlyLimit
  <1>9. ASSUME NEW r \in Requests, Enqueue(r) PROVE HiddenInv'
    BY <1>9 DEF Enqueue
  <1>10. ASSUME NEW r \in Requests, ProviderAnswers(r) PROVE HiddenInv'
    BY <1>10, TwoProviders, BodyIsValid DEF ProviderAnswers, Attempt
  <1>11. ASSUME NEW r \in Requests, ProviderFails(r) PROVE HiddenInv'
    BY <1>11, TwoProviders, BodyIsValid DEF ProviderFails, Attempt
  <1>12. ASSUME NEW r \in Requests, Log(r) PROVE HiddenInv'
    BY <1>12 DEF Log
  <1>13. ASSUME NEW r \in Requests, Respond(r) PROVE HiddenInv'
    BY <1>13 DEF Respond
  <1>14. ASSUME NEW r \in Requests, LogFailure(r) PROVE HiddenInv'
    BY <1>14 DEF LogFailure
  <1>15. ASSUME NEW r \in Requests, Rejects(r) PROVE HiddenInv'
    BY <1>15 DEF Rejects, Rejecting, ExecutedAnyway
  <1>16. ASSUME NEW r \in Requests, Die(r) PROVE HiddenInv'
    BY <1>16 DEF Die, Awaiting
  <1>17. CASE UNCHANGED vars
    BY <1>17 DEF vars
  <1> QED
    BY <1>1, <1>2, <1>3, <1>4, <1>5, <1>6, <1>7, <1>8, <1>9, <1>10,
       <1>11, <1>12, <1>13, <1>14, <1>15, <1>16, <1>17 DEF Next

-----------------------------------------------------------------------------
LEMMA FlowInvariant == Spec => []IInv
  <1>1. IInv /\ [Next]_vars => IInv'
    BY TypeStep, StageStep, ExitStep, CutOffStep, HiddenStep DEF IInv
  <1> QED
    BY FlowInit, <1>1, PTL DEF Spec

\* The variables of a request keep their types: in particular a request writes at
\* most one row of each status and queues at most one job.
THEOREM FlowTypeCorrect == Spec => []TypeOK
  <1>1. IInv => TypeOK
    BY DEF IInv
  <1> QED
    BY <1>1, FlowInvariant, PTL

\* Whoever is charged for a completion is not told that it failed, unless the
\* transaction that charged it committed and still threw.
THEOREM ChargedRequestsAreAnswered == Spec => []PaidIsAnswered
  <1>1. IInv => PaidIsAnswered
    BY DEF IInv, ExitInv
  <1> QED
    BY <1>1, FlowInvariant, PTL

\* A 502 means that both providers were tried and nothing was charged, a 201 that
\* the row was written or the job queued.
THEOREM AnswersAreEarned == Spec => []AnswerIsEarned
  <1>1. IInv => AnswerIsEarned
    BY DEF IInv, ExitInv
  <1> QED
    BY <1>1, FlowInvariant, PTL

\* A request that comes in after the revocation of its key costs nothing, in any
\* interleaving with the requests before it.
THEOREM RevocationCutsOff == Spec => []RevokedIsCutOff
  <1>1. IInv => RevokedIsCutOff
    BY DEF IInv, CutOffInv, RevokedIsCutOff
  <1> QED
    BY <1>1, FlowInvariant, PTL

\* No answer tells a template of another user from one that does not exist.
THEOREM ForeignTemplatesStayHidden == Spec => []ForeignTemplateIsHidden
  <1>1. IInv => ForeignTemplateIsHidden
    BY DEF IInv, HiddenInv, ForeignTemplateIsHidden, NamesForeign, Guarding
  <1> QED
    BY <1>1, FlowInvariant, PTL
=============================================================================
