---------------------------- MODULE StreamingProofs ----------------------------
(***************************************************************************)
(* Theorems about Streaming for streams of any length.                     *)
(*                                                                         *)
(* Until the abort everything the provider sent was written, and the loop  *)
(* over its stream is left early only because of the abort (WholeInv); the *)
(* chunk that meets the abort is the last one taken (LateInv).             *)
(***************************************************************************)
EXTENDS Streaming, TLAPS

\* While the signal is quiet nothing is missing from the response.
WholeInv ==
  /\ pc \in Awaiting => last = "none"
  /\ pc \in Awaiting /\ ~aborted => written = tokens
  /\ pc \in {"prompt", "quota", "open"} => arrived = 0
  /\ pc = "usage" /\ ~aborted => upstream = "exhausted"

\* A stream that is still pulled has taken no chunk after the abort.
LateInv == late <= 1 /\ (pc = "next" => late = 0) /\ (~aborted => late = 0)

IInv == TypeOK /\ WholeInv /\ LateInv /\ DoneMeansWhole /\ EndIsTold

LEMMA StreamInit == Init => IInv
  BY StreamAssumption
  DEF Init, IInv, TypeOK, WholeInv, LateInv, DoneMeansWhole, EndIsTold, Awaiting, aborted

LEMMA StreamStep == IInv /\ [Next]_vars => IInv'
  <1> SUFFICES ASSUME IInv, [Next]_vars PROVE IInv'
    OBVIOUS
  <1> USE StreamAssumption
      DEF IInv, TypeOK, WholeInv, LateInv, DoneMeansWhole, EndIsTold, Awaiting, aborted, response
  <1>1. CASE ClientLeaves \/ Abort
    BY <1>1 DEF ClientLeaves, Abort
  <1>2. CASE PromptResolved \/ Admitted \/ Opened
    <2>1. /\ pc \in {"prompt", "quota", "open"} /\ pc' \in {"quota", "open", "next"}
          /\ upstream' \in {upstream, "flowing"}
          /\ UNCHANGED <<client, arrived, tokens, late, written, last, metered>>
      BY <1>2 DEF PromptResolved, Admitted, Opened
    <2> QED
      BY <2>1
  <1>3. CASE Rejected
    BY <1>3 DEF Rejected, Throws, Catch
  <1>4. CASE ChunkArrives
    <2>1. CASE SeesAbort
      BY <1>4, <2>1 DEF ChunkArrives, ChunkTooLate, ChunkIsPassedOn, SeesAbort
    <2>2. CASE ~SeesAbort
      <3>1. PICK text \in BOOLEAN : /\ tokens' = IF text THEN tokens + 1 ELSE tokens
                                    /\ ChunkIsPassedOn(text)
        BY <1>4, <2>2 DEF ChunkArrives, ChunkTooLate
      <3>2. /\ pc = "next" /\ pc' = "next"
            /\ written' = IF text THEN written + 1 ELSE written
            /\ UNCHANGED <<upstream, last, metered>>
        BY <1>4, <2>2, <3>1
        DEF ChunkArrives, ChunkIsPassedOn, Controller, Write, Stops, Resume, SeesAbort
      <3> QED
        BY <1>4, <2>2, <3>1, <3>2 DEF ChunkArrives, SeesAbort
    <2> QED
      BY <2>1, <2>2
  <1>5. CASE SdkEnds
    BY <1>5 DEF SdkEnds
  <1>6. CASE SdkFails \/ UsageFails
    BY <1>6 DEF SdkFails, UsageFails, Throws, Catch
  <1>7. CASE LastChunk
    BY <1>7 DEF LastChunk, Controller, Write, Stops, End, CloseUpstream
  <1>8. CASE UNCHANGED vars
    BY <1>8 DEF vars
  <1> QED
    BY <1>1, <1>2, <1>3, <1>4, <1>5, <1>6, <1>7, <1>8 DEF Next, completeStream

LEMMA StreamInvariant == Spec => []IInv
  BY StreamInit, StreamStep, PTL DEF Spec

\* The variables of a stream keep their types, however many chunks it has.
THEOREM StreamTypeCorrect == Spec => []TypeOK
  <1>1. IInv => TypeOK
    BY DEF IInv
  <1> QED
    BY <1>1, StreamInvariant, PTL

\* A response that ends with done: true is the provider's whole answer, whenever
\* the abort signal of a leaving client fires.
THEOREM DoneIsWhole == Spec => []DoneMeansWhole
  <1>1. IInv => DoneMeansWhole
    BY DEF IInv
  <1> QED
    BY <1>1, StreamInvariant, PTL

\* At most one more chunk is taken from the provider after the abort.
THEOREM AbortStopsTheProvider == Spec => []AbortIsNoticed
  <1>1. IInv => AbortIsNoticed
    BY DEF IInv, LateInv, AbortIsNoticed
  <1> QED
    BY <1>1, StreamInvariant, PTL

\* A client that stays to the end of the response was told how the stream ended.
THEOREM EndIsAlwaysTold == Spec => []EndIsTold
  <1>1. IInv => EndIsTold
    BY DEF IInv
  <1> QED
    BY <1>1, StreamInvariant, PTL
=============================================================================
