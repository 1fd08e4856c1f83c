------------------------------- MODULE Streaming -------------------------------
(***************************************************************************)
(* One streaming completion: CompletionsController.completeStream pulls    *)
(* chunks from CompletionsService.stream, which pulls them from            *)
(* ProvidersService.completeStream and so from the generator of Gemini or  *)
(* Groq.  Between two awaits on the network the three generators and the   *)
(* controller run as one step: what a chunk of the SDK sets off, up to the *)
(* next pull, is one action.  A stream the controller leaves is closed     *)
(* from the outside in, each generator at the yield where it stands.       *)
(***************************************************************************)
EXTENDS Integers

CONSTANT MaxChunks    \* bound: chunks the SDK of the provider delivers

ASSUME StreamAssumption == MaxChunks \in Nat

VARIABLES
  pc,         \* the await at which the request stands
  client,     \* "reading" the response, "gone", or gone and "aborted": req.on('close')
              \* has fired and abortController.signal.aborted is set
  upstream,   \* the stream of the provider's SDK
  arrived,    \* chunks the SDK delivered (bound)
  tokens,     \* those of them that carried text (history)
  late,       \* chunks it delivered after the abort (history)
  written,    \* tokens written to the response
  last,       \* the event with done: true written to the response
  metered     \* calls of usage.logRequest for the stream

vars == <<pc, client, upstream, arrived, tokens, late, written, last, metered>>
response == <<written, last>>

aborted == client = "aborted"
Awaiting == {"prompt", "quota", "open", "next", "usage"}

TypeOK ==
  /\ pc \in Awaiting \cup {"ended"}
  /\ client \in {"reading", "gone", "aborted"}
  /\ upstream \in {"unopened", "flowing", "exhausted", "broken", "closed"}
  /\ arrived \in 0 .. MaxChunks
  /\ tokens \in 0 .. arrived
  /\ late \in 0 .. arrived
  /\ written \in 0 .. tokens
  /\ last \in {"none", "done", "error"}
  /\ metered \in Nat

\* The headers are flushed, the generator chain is about to be pulled.
Init ==
  /\ pc = "prompt"
  /\ client = "reading"
  /\ upstream = "unopened"
  /\ arrived = 0 /\ tokens = 0 /\ late = 0
  /\ written = 0
  /\ last = "none"
  /\ metered = 0

-----------------------------------------------------------------------------
(* The client.                                                             *)

ClientLeaves ==
  /\ client = "reading"
  /\ client' = "gone"
  /\ UNCHANGED <<pc, upstream, arrived, tokens, late, response, metered>>

\* req.on('close') fires.  When, or whether it does at all, is up to the server.
Abort ==
  /\ client = "gone"
  /\ pc # "ended"
  /\ client' = "aborted"
  /\ UNCHANGED <<pc, upstream, arrived, tokens, late, response, metered>>

-----------------------------------------------------------------------------
(* The controller, for a chunk yielded to it.                              *)

\* The two breaks of its loop.
Stops(kind) == aborted \/ kind = "done"

\* What it writes before the second break.
WriteAlways(kind) ==                                     \* mutant: writes, then looks
  /\ written' = IF kind = "token" THEN written + 1 ELSE written
  /\ last' = IF kind = "done" THEN "done" ELSE last
WriteLastAsToken(kind) ==                                \* mutant: done counts as text
  /\ written' = IF ~aborted THEN written + 1 ELSE written
  /\ last' = IF kind = "done" /\ ~aborted THEN "done" ELSE last
Write(kind) ==
  /\ written' = IF kind = "token" /\ ~aborted THEN written + 1 ELSE written
  /\ last' = IF kind = "done" /\ ~aborted THEN "done" ELSE last

\* break closes the generators where they stand; finally ends the response.
CloseUpstream == upstream' = IF upstream = "flowing" THEN "closed" ELSE upstream
End ==
  /\ pc' = "ended"
  /\ CloseUpstream

\* next() resumes the service behind its yield: it pulls again, or has seen the
\* last chunk, leaves its loop and logs the usage unless the client left.
Resume(kind) ==
  IF kind = "done"
    THEN pc' = "ended" /\ metered' = (IF aborted THEN metered ELSE metered + 1)
    ELSE pc' = "next" /\ UNCHANGED metered

Controller(kind) ==
  /\ Write(kind)
  /\ IF Stops(kind)
       THEN End /\ UNCHANGED metered
       ELSE Resume(kind) /\ UNCHANGED upstream

\* The catch block: an error event, whatever was thrown, then the end.
CatchInSilence == UNCHANGED response                     \* mutant: the error is only logged
Catch == last' = "error" /\ UNCHANGED written

Throws ==
  /\ Catch
  /\ pc' = "ended"
  /\ UNCHANGED metered

-----------------------------------------------------------------------------
(* The service up to the provider.                                         *)

\* resolvePrompt, then checkMonthlyLimit, then the request to the provider.
PromptResolved ==
  /\ pc = "prompt"
  /\ pc' = "quota"
  /\ UNCHANGED <<client, upstream, arrived, tokens, late, response, metered>>

Admitted ==
  /\ pc = "quota"
  /\ pc' = "open"
  /\ UNCHANGED <<client, upstream, arrived, tokens, late, response, metered>>

Opened ==
  /\ pc = "open"
  /\ pc' = "next"
  /\ upstream' = "flowing"
  /\ UNCHANGED <<client, arrived, tokens, late, response, metered>>

\* A 400, 404, 429 or 500 of the first two, or an error of the provider, with
\* the status 200 already on its way.
Rejected ==
  /\ pc \in {"prompt", "quota", "open"}
  /\ Throws
  /\ UNCHANGED <<client, upstream, arrived, tokens, late>>

-----------------------------------------------------------------------------
(* The loop of the provider over the stream of its SDK.                    *)

\* The test at the top of its body.
NeverLooks == FALSE                                      \* mutant: the signal is not read
SeesAbort == aborted

\* break: the SDK is told, the usage of the response is still awaited.
ChunkTooLate ==
  /\ SeesAbort
  /\ pc' = "usage"
  /\ upstream' = "closed"
  /\ UNCHANGED <<response, metered>>

ChunkIsPassedOn(text) ==
  /\ ~SeesAbort
  /\ IF text
       THEN Controller("token")
       ELSE pc' = "next" /\ UNCHANGED <<upstream, response, metered>>

ChunkArrives ==
  /\ pc = "next"
  /\ arrived < MaxChunks
  /\ arrived' = arrived + 1
  /\ late' = IF aborted THEN late + 1 ELSE late
  /\ \E text \in BOOLEAN :
       /\ tokens' = IF text THEN tokens + 1 ELSE tokens
       /\ ChunkTooLate \/ ChunkIsPassedOn(text)
  /\ UNCHANGED client

SdkEnds ==
  /\ pc = "next"
  /\ pc' = "usage"
  /\ upstream' = "exhausted"
  /\ UNCHANGED <<client, arrived, tokens, late, response, metered>>

SdkFails ==
  /\ pc = "next"
  /\ upstream' = "broken"
  /\ Throws
  /\ UNCHANGED <<client, arrived, tokens, late>>

\* The last chunk: done, with the token counts.
LastChunk ==
  /\ pc = "usage"
  /\ Controller("done")
  /\ UNCHANGED <<client, arrived, tokens, late>>

\* Gemini's aggregated response rejects.
UsageFails ==
  /\ pc = "usage"
  /\ Throws
  /\ UNCHANGED <<client, upstream, arrived, tokens, late>>

completeStream ==
  \/ PromptResolved \/ Admitted \/ Opened \/ Rejected
  \/ ChunkArrives \/ SdkEnds \/ SdkFails \/ LastChunk \/ UsageFails

Next == ClientLeaves \/ Abort \/ completeStream

Spec == Init /\ [][Next]_vars

-----------------------------------------------------------------------------
\* A response that ends with done: true and no error is whole: the abort can
\* come between the loop of the provider and the loop of the controller, each of
\* which looks for itself, and still no cut-off answer is called done.
DoneMeansWhole == last = "done" => upstream = "exhausted" /\ written = tokens

\* A client that stays hears how the stream ended.
EndIsTold == pc = "ended" /\ client = "reading" => last # "none"

\* After the abort at most one more chunk is taken from the provider, also when
\* it sends chunks without text that the controller never sees.
AbortIsNoticed == late <= 1

\* completions.service.ts, stream: "Logs usage after the stream completes."
CompletedStreamIsLogged == pc = "ended" /\ last = "done" => metered = 1
=============================================================================
