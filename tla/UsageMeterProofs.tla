--------------------------- MODULE UsageMeterProofs ---------------------------
(***************************************************************************)
(* Theorems about UsageMeter for any calls (infinitely many, too), runs,   *)
(* token counts, limits, months and faults.                                *)
(*                                                                         *)
(* What a month still owes the cache is a sum over the calls between their *)
(* commit and their INCRBY.  PendingInv states that without recursion: it  *)
(* has a measure on sets of calls, additive in every call, that is pending *)
(* on the set of all.  A step changes one call, so the measure of the next *)
(* state is the old one shifted on the sets with that call (SumShifts).    *)
(***************************************************************************)
EXTENDS UsageMeter, TLAPS

\* S measures sets of calls, each call by its weight w[c].
Measures(S, w) ==
  /\ S \in [SUBSET Calls -> Nat]
  /\ \A T \in SUBSET Calls : \A c \in T : S[T] = S[T \ {c}] + w[c]

\* What call c still owes the cache of month m.
Owes(m) == [c \in Calls |-> IF pc[c] = "incrby" /\ logMonth[c] = m THEN tokens[c] ELSE 0]

PendingInv ==
  \A m \in MonthRange :
    /\ \E S : Measures(S, Owes(m)) /\ S[Calls] = pending[m]
    /\ pending[m] <= ledger[m]

\* While no increment of a month was lost, neither its entry nor a total about
\* to be written there misses more than what is owed.
CoverInv ==
  \A m \in MonthRange : ~lossy[m] =>
    /\ cache[m] # Absent => cache[m] + pending[m] >= ledger[m]
    /\ \A c \in Calls :
         pc[c] = "fill" /\ keyMonth[c] = m => seen[c] + pending[m] >= ledger[m]

\* An entry without an expiry was created by INCRBY: it holds increments only.
IncrementsInv ==
  \A m \in MonthRange :
    cache[m] # Absent /\ ~expiring[m] => cache[m] <= ledger[m] - pending[m] + foreign[m]

\* An entry of this month is a total of the ledger and later increments, at most.
TwiceInv ==
  \A m \in MonthRange :
    m >= month /\ cache[m] # Absent => cache[m] <= 2 * ledger[m] - pending[m] + foreign[m]

\* What a check remembers of the month it began in, while that month lasts.
CheckInv ==
  \A c \in Calls :
    /\ keyMonth[c] <= month
    /\ keyMonth[c] = month =>
         /\ pc[c] \in {"read", "fallback", "fill"} => settled[c] <= ledger[month]
         /\ pc[c] = "fill" => settled[c] <= seen[c] /\ seen[c] <= ledger[month]

IInv ==
  /\ TypeOK
  /\ PendingInv
  /\ CoverInv
  /\ IncrementsInv
  /\ TwiceInv
  /\ CheckInv

-----------------------------------------------------------------------------
(* Sums.                                                                   *)

\* When one weight changes, so does the measure of the sets that hold it.
LEMMA SumShifts ==
  ASSUME NEW w \in [Calls -> Nat], NEW v \in [Calls -> Nat], NEW c \in Calls,
         \A d \in Calls : d # c => v[d] = w[d],
         NEW S, Measures(S, w)
  PROVE  \E R : Measures(R, v) /\ R[Calls] = S[Calls] - w[c] + v[c]
  <1> DEFINE R == [T \in SUBSET Calls |-> IF c \in T THEN S[T] - w[c] + v[c] ELSE S[T]]
  <1>1. /\ \A T \in SUBSET Calls : S[T] \in Nat
        /\ \A T \in SUBSET Calls : \A d \in T : S[T] = S[T \ {d}] + w[d]
    BY DEF Measures
  <1>2. R \in [SUBSET Calls -> Nat]
    <2> SUFFICES ASSUME NEW T \in SUBSET Calls, c \in T PROVE S[T] - w[c] + v[c] \in Nat
      BY <1>1
    <2>1. S[T] = S[T \ {c}] + w[c] /\ S[T \ {c}] \in Nat /\ w[c] \in Nat /\ v[c] \in Nat
      BY <1>1
    <2> QED
      BY <2>1
  <1>3. ASSUME NEW T \in SUBSET Calls, NEW d \in T PROVE R[T] = R[T \ {d}] + v[d]
    <2>1. /\ T \ {d} \in SUBSET Calls /\ d \in Calls
          /\ S[T] = S[T \ {d}] + w[d] /\ S[T] \in Nat /\ S[T \ {d}] \in Nat
          /\ w[d] \in Nat /\ v[d] \in Nat /\ w[c] \in Nat /\ v[c] \in Nat
      BY <1>1
    <2>2. CASE d = c
      BY <2>1, <2>2
    <2>3. CASE d # c
      <3>1. v[d] = w[d] /\ (c \in T <=> c \in T \ {d})
        BY <2>1, <2>3
      <3> QED
        BY <2>1, <3>1
    <2> QED
      BY <2>2, <2>3
  <1>4. Calls \in SUBSET Calls /\ R[Calls] = S[Calls] - w[c] + v[c]
    OBVIOUS
  <1> HIDE DEF R
  <1> QED
    BY <1>2, <1>3, <1>4 DEF Measures

LEMMA PendingIsNatural ==
  ASSUME TypeOK, PendingInv, NEW m \in MonthRange
  PROVE  /\ pending[m] \in Nat /\ pending[m] <= ledger[m] /\ ledger[m] \in Nat
         /\ \A c \in Calls : Owes(m)[c] <= pending[m]
  <1>1. PICK S : Measures(S, Owes(m)) /\ S[Calls] = pending[m]
    BY DEF PendingInv
  <1>2. pending[m] \in Nat
    BY <1>1 DEF Measures
  <1>3. ASSUME NEW c \in Calls PROVE Owes(m)[c] <= pending[m]
    <2>1. S[Calls] = S[Calls \ {c}] + Owes(m)[c] /\ S[Calls \ {c}] \in Nat
      BY <1>1 DEF Measures
    <2>2. Owes(m)[c] \in Nat
      BY DEF Owes, TypeOK
    <2> QED
      BY <1>1, <2>1, <2>2
  <1> QED
    BY <1>2, <1>3 DEF PendingInv, TypeOK

-----------------------------------------------------------------------------
(* Types.                                                                  *)

PcType == [Calls -> Checking \cup Logging \cup Ended]

LEMMA MeterTypeInit == Init => TypeOK
  BY MeterAssumption
  DEF Init, TypeOK, MonthRange, Absent, Checking

\* The part of a step of one call that all of them have in common.
LEMMA CallSteps ==
  ASSUME TypeOK, NEW c \in Calls, Progress(c) \/ Fault(c)
  PROVE  /\ month' = month
         /\ \A d \in Calls : d # c => pc'[d] = pc[d]
         /\ pc' \in PcType
         /\ faults' \in 0 .. MaxFaults
  <1>1. \A step : Goto(c, step) => \A d \in Calls : pc'[d] = IF d = c THEN step ELSE pc[d]
    BY DEF Goto, TypeOK
  <1>2. \A step \in Checking \cup Logging \cup Ended : Goto(c, step) => pc' \in PcType
    BY DEF Goto, TypeOK, PcType
  <1>3. pc \in PcType
    BY DEF TypeOK, PcType
  <1> USE DEF Checking, Logging, Ended
  <1>4. CASE Progress(c)
    <2>1. faults' = faults
      BY <1>4 DEF Progress
    <2>2. CASE checkMonthlyLimit(c)
      BY <1>1, <1>2, <2>1, <2>2
      DEF checkMonthlyLimit, CheckCache, ReadLedger, FillCache, Fallback, Decide, Verdict, TypeOK
    <2>3. CASE Provider(c) \/ logRequest(c) \/ Answer(c)
      BY <1>1, <1>2, <2>1, <2>3 DEF Provider, logRequest, Commit, IncrBy, Answer, TypeOK
    <2> QED
      BY <1>4, <2>2, <2>3 DEF Progress
  <1>5. CASE Fault(c)
    <2>1. faults' \in 0 .. MaxFaults
      BY <1>5, MeterAssumption DEF Fault, TypeOK
    <2>2. CASE CheckCacheFails(c) \/ ReadLedgerFails(c) \/ FillCacheFails(c) \/ FallbackFails(c)
      BY <1>1, <1>2, <2>1, <2>2
      DEF CheckCacheFails, ReadLedgerFails, FillCacheFails, FallbackFails
    <2>3. CASE CommitFails(c) \/ IncrByFails(c) \/ RunDies(c)
      BY <1>1, <1>2, <2>1, <2>3 DEF CommitFails, IncrByFails, RunDies, RunFails
    <2>4. CASE IncrByUnanswered(c)
      BY <1>3, <2>1, <2>4 DEF IncrByUnanswered
    <2> QED
      BY <1>5, <2>2, <2>3, <2>4 DEF Fault
  <1> QED
    BY <1>4, <1>5

LEMMA MeterTypeStep == TypeOK /\ [Next]_vars => TypeOK'
  <1> SUFFICES ASSUME TypeOK, [Next]_vars PROVE TypeOK'
    OBVIOUS
  <1> USE MeterAssumption
  <1>1. ASSUME NEW c \in Calls, Progress(c) \/ Fault(c) PROVE TypeOK'
    <2>0. month' \in MonthRange /\ pc' \in PcType /\ faults' \in 0 .. MaxFaults
      BY <1>1, CallSteps DEF TypeOK
    <2> USE <2>0 DEF TypeOK, PcType, check, log, entry, history
    <2>1. CASE CheckCache(c) \/ CheckCacheFails(c)
      BY <2>1 DEF CheckCache, CheckCacheFails, Decide, Settled
    <2>2. CASE ReadLedger(c) \/ ReadLedgerFails(c)
      <3>1. seen' \in [Calls -> Nat]
        BY <2>2 DEF ReadLedger, ReadLedgerFails
      <3>2. lossy' \in [MonthRange -> BOOLEAN]
        <4>1. (lossy[keyMonth[c]] \/ keyMonth[c] # month) \in BOOLEAN
          OBVIOUS
        <4> QED
          BY <2>2, <4>1 DEF ReadLedger, ReadLedgerFails
      <3> QED
        BY <2>2, <3>1, <3>2 DEF ReadLedger, ReadLedgerFails
    <2>3. CASE FillCache(c) \/ FillCacheFails(c)
      <3>1. cache' \in [MonthRange -> Nat \cup {Absent}] /\ expiring' \in [MonthRange -> BOOLEAN]
        <4>1. Fill(c) \/ UNCHANGED entry
          BY <2>3 DEF FillCache, FillCacheFails
        <4>2. CASE Fill(c)
          BY <4>2 DEF Fill
        <4> QED
          BY <4>1, <4>2
      <3>2. seen' \in [Calls -> Nat] /\ settled' \in [Calls -> Int]
        BY <2>3 DEF FillCache, FillCacheFails, Decide
      <3> QED
        BY <2>3, <3>1, <3>2 DEF FillCache, FillCacheFails
    <2>4. CASE Fallback(c) \/ FallbackFails(c)
      BY <2>4 DEF Fallback, FallbackFails, Decide
    <2>5. CASE Provider(c) \/ Answer(c)
      BY <2>5 DEF Provider, Answer
    <2>6. CASE Commit(c)
      BY <2>6 DEF Commit, Charge
    <2>7. CASE IncrBy(c) \/ IncrByUnanswered(c)
      <3>1. month \in MonthRange /\ logMonth[c] \in MonthRange /\ tokens[c] \in Nat
              /\ 1 \in MonthRange
        BY DEF MonthRange
      <3>2. cache' \in [MonthRange -> Nat \cup {Absent}]
        BY <2>7, <3>1 DEF IncrBy, IncrByUnanswered, Increment
      <3>3. pending' \in [MonthRange -> Int] /\ foreign' \in [MonthRange -> Nat]
        BY <2>7, <3>1 DEF IncrBy, IncrByUnanswered
      <3>4. lossy' \in [MonthRange -> BOOLEAN]
        <4>1. \A m \in MonthRange : (lossy[m] \/ Misses(c, m)) \in BOOLEAN
          BY DEF Misses
        <4> QED
          BY <2>7, <4>1 DEF IncrBy, IncrByUnanswered
      <3>5. tokens' \in [Calls -> Nat] /\ logMonth' \in [Calls -> MonthRange]
        BY <2>7, <3>1 DEF IncrBy, IncrByUnanswered, Forget
      <3> QED
        BY <2>7, <3>2, <3>3, <3>4, <3>5 DEF IncrBy, IncrByUnanswered
    <2>8. 1 \in MonthRange
      BY DEF MonthRange
    <2>9. CASE IncrByFails(c)
      BY <2>8, <2>9 DEF IncrByFails, DropIncrement, Forget
    <2>10. ASSUME RunFails(c)
           PROVE  /\ tokens' \in [Calls -> Nat] /\ logMonth' \in [Calls -> MonthRange]
                  /\ runs' \in [Calls -> Nat] /\ \A d \in Calls : runs'[d] \in 1 .. MaxRuns[d]
      BY <2>8, <2>10 DEF RunFails, Forget
    <2>11. CASE CommitFails(c)
      <3>1. ledger' \in [MonthRange -> Nat] /\ lossy' \in [MonthRange -> BOOLEAN]
        <4>1. CASE UNCHANGED <<ledger, lossy>>
          BY <4>1
        <4>2. CASE Charge(c) /\ lossy' = [lossy EXCEPT ![logMonth[c]] = TRUE]
          BY <4>2 DEF Charge
        <4> QED
          BY <2>11, <4>1, <4>2 DEF CommitFails
      <3>2. RunFails(c) /\ UNCHANGED <<cache, expiring, keyMonth, seen, settled, pending, foreign>>
        BY <2>11 DEF CommitFails
      <3> QED
        BY <2>10, <3>1, <3>2
    <2>12. CASE RunDies(c)
      <3>1. pending' \in [MonthRange -> Int] /\ lossy' \in [MonthRange -> BOOLEAN]
        <4>1. CASE UNCHANGED <<pending, lossy>>
          BY <4>1
        <4>2. CASE DropIncrement(c)
          BY <4>2 DEF DropIncrement
        <4> QED
          BY <2>12, <4>1, <4>2 DEF RunDies
      <3>2. RunFails(c) /\ UNCHANGED <<ledger, cache, expiring, keyMonth, seen, settled, foreign>>
        BY <2>12 DEF RunDies
      <3> QED
        BY <2>10, <3>1, <3>2
    <2> QED
      BY <1>1, <2>1, <2>2, <2>3, <2>4, <2>5, <2>6, <2>7, <2>9, <2>11, <2>12
      DEF Progress, Fault, checkMonthlyLimit, logRequest
  <1>2. ASSUME NEW m \in MonthRange, CacheExpires(m) PROVE TypeOK'
    BY <1>2 DEF CacheExpires, TypeOK, check, log, history
  <1>3. CASE MonthTurns
    <2>1. month' \in MonthRange
      BY <1>3, MeterAssumption DEF MonthTurns, TypeOK, MonthRange
    <2> QED
      BY <1>3, <2>1 DEF MonthTurns, TypeOK, check, log, history, entry
  <1>4. CASE UNCHANGED vars
    BY <1>4 DEF vars, TypeOK, check, log, history, entry
  <1> QED
    BY <1>1, <1>2, <1>3, <1>4 DEF Next

\* The variables of the meter keep their types: no run beyond the last one.
THEOREM MeterTypeCorrect == Spec => []TypeOK
  BY MeterTypeInit, MeterTypeStep, PTL DEF Spec

-----------------------------------------------------------------------------
(* Increments under way.                                                   *)

\* The step of a call moves what that call owes, and the totals with it.
LEMMA CallOwes ==
  ASSUME TypeOK, TypeOK', PendingInv, NEW c \in Calls, Progress(c) \/ Fault(c),
         NEW m \in MonthRange
  PROVE  /\ \A d \in Calls : d # c => Owes(m)'[d] = Owes(m)[d]
         /\ pending'[m] = pending[m] - Owes(m)[c] + Owes(m)'[c]
         /\ pending'[m] <= ledger'[m]
  <1>1. /\ pending[m] \in Nat /\ ledger[m] \in Nat /\ pending[m] <= ledger[m]
        /\ Owes(m)[c] <= pending[m] /\ tokens[c] \in Nat
    BY PendingIsNatural DEF TypeOK
  <1>2. Owes(m)[c] = IF pc[c] = "incrby" /\ logMonth[c] = m THEN tokens[c] ELSE 0
    BY DEF Owes
  <1>3. Owes(m)'[c] = IF pc'[c] = "incrby" /\ logMonth'[c] = m THEN tokens'[c] ELSE 0
    BY DEF Owes
  <1>4. \A d \in Calls : d # c => pc'[d] = pc[d]
    BY CallSteps
  <1>5. \A step : Goto(c, step) => pc'[c] = step
    BY DEF Goto, TypeOK
  <1>6. Forget(c) => \A d \in Calls : d # c => tokens'[d] = tokens[d] /\ logMonth'[d] = logMonth[d]
    BY DEF Forget
  <1> DEFINE Others == \A d \in Calls : d # c => tokens'[d] = tokens[d] /\ logMonth'[d] = logMonth[d]
  <1>7. Others => \A d \in Calls : d # c => Owes(m)'[d] = Owes(m)[d]
    BY <1>4 DEF Owes
  <1>8. RunFails(c) => Forget(c) /\ pc'[c] \in {"provider", "failed"}
    BY <1>5 DEF RunFails
  <1>9. CASE \/ checkMonthlyLimit(c) \/ Answer(c)
             \/ CheckCacheFails(c) \/ ReadLedgerFails(c) \/ FillCacheFails(c) \/ FallbackFails(c)
    <2>1. /\ pc[c] # "incrby" /\ pc'[c] # "incrby"
          /\ UNCHANGED <<tokens, logMonth, pending, ledger>>
      BY <1>5, <1>9
      DEF checkMonthlyLimit, CheckCache, ReadLedger, FillCache, Fallback, Answer, Decide, Verdict,
          CheckCacheFails, ReadLedgerFails, FillCacheFails, FallbackFails, log, history
    <2> QED
      BY <1>1, <1>2, <1>3, <1>7, <2>1
  <1>10. CASE Provider(c)
    <2>1. pc[c] # "incrby" /\ pc'[c] # "incrby" /\ Others /\ UNCHANGED <<pending, ledger>>
      BY <1>5, <1>10 DEF Provider, TypeOK, history
    <2> QED
      BY <1>1, <1>2, <1>3, <1>7, <2>1
  <1>11. CASE Commit(c)
    <2>1. /\ pc[c] = "commit" /\ pc'[c] = "incrby" /\ UNCHANGED <<tokens, logMonth>>
          /\ ledger'[m] = IF logMonth[c] = m THEN ledger[m] + tokens[c] ELSE ledger[m]
          /\ pending'[m] = IF logMonth[c] = m THEN pending[m] + tokens[c] ELSE pending[m]
      BY <1>5, <1>11 DEF Commit, Charge, log, TypeOK
    <2> QED
      BY <1>1, <1>2, <1>3, <1>7, <2>1
  <1>12. CASE CommitFails(c)
    <2>1. pc[c] = "commit" /\ Forget(c) /\ pc'[c] # "incrby" /\ UNCHANGED pending
      BY <1>8, <1>12 DEF CommitFails
    <2>2. ledger'[m] >= ledger[m]
      <3>1. CASE UNCHANGED ledger
        BY <1>1, <3>1
      <3>2. CASE Charge(c)
        BY <1>1, <3>2 DEF Charge, TypeOK
      <3> QED
        BY <1>12, <3>1, <3>2 DEF CommitFails
    <2>3. ledger'[m] \in Nat
      BY DEF TypeOK
    <2> QED
      BY <1>1, <1>2, <1>3, <1>6, <1>7, <2>1, <2>2, <2>3
  <1>13. CASE IncrByUnanswered(c)
    <2>1. UNCHANGED <<pc, tokens, logMonth, pending, ledger>>
      BY <1>13 DEF IncrByUnanswered, log
    <2> QED
      BY <1>1, <1>2, <1>3, <1>7, <2>1
  <1>14. CASE IncrBy(c) \/ IncrByFails(c) \/ (RunDies(c) /\ pc[c] = "incrby")
    <2>1. pc[c] = "incrby" /\ pc'[c] # "incrby" /\ Forget(c) /\ UNCHANGED ledger
      BY <1>5, <1>8, <1>14 DEF IncrBy, IncrByFails, RunDies
    <2>2. pending'[m] = IF logMonth[c] = m THEN pending[m] - tokens[c] ELSE pending[m]
      BY <1>14 DEF IncrBy, IncrByFails, RunDies, DropIncrement, TypeOK
    <2> QED
      BY <1>1, <1>2, <1>3, <1>6, <1>7, <2>1, <2>2
  <1>15. CASE RunDies(c) /\ pc[c] # "incrby"
    <2>1. Forget(c) /\ pc'[c] # "incrby" /\ UNCHANGED <<pending, ledger>>
      BY <1>8, <1>15 DEF RunDies
    <2> QED
      BY <1>1, <1>2, <1>3, <1>6, <1>7, <1>15, <2>1
  <1> QED
    BY <1>9, <1>10, <1>11, <1>12, <1>13, <1>14, <1>15 DEF Progress, Fault, logRequest

LEMMA PendingStep == TypeOK /\ TypeOK' /\ PendingInv /\ [Next]_vars => PendingInv'
  <1> SUFFICES ASSUME TypeOK, TypeOK', PendingInv, [Next]_vars, NEW m \in MonthRange
               PROVE  /\ \E R : Measures(R, Owes(m)') /\ R[Calls] = pending'[m]
                      /\ pending'[m] <= ledger'[m]
    BY DEF PendingInv, Measures
  <1>1. PICK S : Measures(S, Owes(m)) /\ S[Calls] = pending[m]
    BY DEF PendingInv
  <1>2. Owes(m) \in [Calls -> Nat] /\ Owes(m)' \in [Calls -> Nat]
    BY DEF Owes, TypeOK
  <1>3. ASSUME NEW c \in Calls, Progress(c) \/ Fault(c)
        PROVE  /\ \E R : Measures(R, Owes(m)') /\ R[Calls] = pending'[m]
               /\ pending'[m] <= ledger'[m]
    <2>1. /\ \A d \in Calls : d # c => Owes(m)'[d] = Owes(m)[d]
          /\ pending'[m] = pending[m] - Owes(m)[c] + Owes(m)'[c]
          /\ pending'[m] <= ledger'[m]
      BY <1>3, CallOwes
    <2>2. \E R : Measures(R, Owes(m)') /\ R[Calls] = S[Calls] - Owes(m)[c] + Owes(m)'[c]
      BY <1>1, <1>2, <2>1, SumShifts
    <2> QED
      BY <1>1, <2>1, <2>2
  <1>4. CASE \/ \E n \in MonthRange : CacheExpires(n)
             \/ MonthTurns
             \/ UNCHANGED vars
    <2>1. UNCHANGED <<pc, tokens, logMonth, pending, ledger>>
      BY <1>4 DEF CacheExpires, MonthTurns, vars, log, history
    <2>2. Owes(m)' = Owes(m)
      BY <2>1 DEF Owes
    <2> QED
      BY <1>1, <2>1, <2>2 DEF PendingInv
  <1> QED
    BY <1>3, <1>4 DEF Next

\* What one INCRBY does to an entry.
LEMMA EntryGrows ==
  ASSUME TypeOK, NEW c \in Calls, IncrBy(c) \/ IncrByUnanswered(c), NEW m \in MonthRange
  PROVE  /\ tokens[c] \in Nat /\ UNCHANGED <<ledger, expiring, month, keyMonth, seen, settled>>
         /\ m # month => cache'[m] = cache[m]
         /\ m = month /\ cache[m] = Absent => cache'[m] = tokens[c]
         /\ m = month /\ cache[m] # Absent => cache'[m] = cache[m] + tokens[c]
         /\ ~lossy'[m] => ~lossy[m] /\ ~Misses(c, m)
         /\ pc[c] = "incrby" /\ (pc'[c] = "incrby" \/ pc'[c] = "answer")
  <1>1. tokens[c] \in Nat /\ UNCHANGED <<ledger, expiring, month, keyMonth, seen, settled>>
    BY DEF IncrBy, IncrByUnanswered, TypeOK, check
  <1>2. cache' = [cache EXCEPT ![month] = IF @ = Absent THEN tokens[c] ELSE @ + tokens[c]]
    BY DEF IncrBy, IncrByUnanswered, Increment
  <1>3. lossy' = [n \in MonthRange |-> lossy[n] \/ Misses(c, n)]
    BY DEF IncrBy, IncrByUnanswered
  <1>4. pc[c] = "incrby" /\ (pc'[c] = "incrby" \/ pc'[c] = "answer")
    BY DEF IncrBy, IncrByUnanswered, Goto, TypeOK
  <1> QED
    BY <1>1, <1>2, <1>3, <1>4 DEF TypeOK

\* What else moves the totals: a transaction, or an increment that is dropped.
LEMMA TotalsMove ==
  ASSUME TypeOK, TypeOK', PendingInv, NEW c \in Calls, NEW m \in MonthRange,
         Commit(c) \/ CommitFails(c) \/ IncrByFails(c) \/ RunDies(c)
  PROVE  /\ UNCHANGED <<cache, expiring, month, foreign, keyMonth, seen, settled>>
         /\ pc[c] \in Logging /\ pc'[c] \notin Checking
         /\ ledger'[m] >= ledger[m]
         /\ ledger'[m] - pending'[m] >= ledger[m] - pending[m]
         /\ ~lossy'[m] => ~lossy[m] /\ ledger'[m] - pending'[m] = ledger[m] - pending[m]
  <1>1. /\ ledger[m] \in Nat /\ pending[m] \in Int /\ tokens[c] \in Nat
        /\ ledger'[m] \in Nat /\ pending'[m] \in Int
    BY DEF TypeOK
  <1>2. /\ UNCHANGED <<cache, expiring, month, foreign, keyMonth, seen, settled>>
        /\ pc[c] \in Logging /\ pc'[c] \notin Checking
    BY DEF Commit, CommitFails, IncrByFails, RunDies, RunFails, Goto, Logging, Checking, check,
           entry, TypeOK
  <1>3. CASE Commit(c)
    BY <1>1, <1>2, <1>3 DEF Commit, Charge, TypeOK
  <1>4. CASE CommitFails(c)
    <2>1. CASE UNCHANGED <<ledger, lossy>>
      BY <1>1, <1>2, <1>4, <2>1 DEF CommitFails
    <2>2. CASE Charge(c) /\ lossy' = [lossy EXCEPT ![logMonth[c]] = TRUE]
      BY <1>1, <1>2, <1>4, <2>2 DEF CommitFails, Charge, TypeOK
    <2> QED
      BY <1>4, <2>1, <2>2 DEF CommitFails
  <1>5. ASSUME DropIncrement(c), UNCHANGED ledger
        PROVE  /\ ledger'[m] - pending'[m] >= ledger[m] - pending[m]
               /\ ~lossy'[m] => ~lossy[m] /\ ledger'[m] - pending'[m] = ledger[m] - pending[m]
    BY <1>1, <1>5 DEF DropIncrement, TypeOK
  <1>6. CASE IncrByFails(c)
    BY <1>1, <1>2, <1>5, <1>6 DEF IncrByFails
  <1>7. CASE RunDies(c)
    <2>1. UNCHANGED ledger /\ (DropIncrement(c) \/ UNCHANGED <<pending, lossy>>)
      BY <1>7 DEF RunDies
    <2> QED
      BY <1>1, <1>2, <1>5, <2>1
  <1> QED
    BY <1>3, <1>4, <1>6, <1>7

-----------------------------------------------------------------------------
(* The invariants of the cache and of the checks.                          *)

LEMMA CoverStep ==
  TypeOK /\ TypeOK' /\ PendingInv /\ CoverInv /\ [Next]_vars => CoverInv'
  <1> DEFINE Covered(m) ==
        /\ cache[m] # Absent => cache[m] + pending[m] >= ledger[m]
        /\ \A c \in Calls :
             pc[c] = "fill" /\ keyMonth[c] = m => seen[c] + pending[m] >= ledger[m]
  <1> SUFFICES ASSUME TypeOK, TypeOK', PendingInv, CoverInv, [Next]_vars,
                      NEW m \in MonthRange, ~lossy'[m]
               PROVE  Covered(m)'
    BY DEF CoverInv
  <1>0. /\ ~lossy[m] => Covered(m)
        /\ pending[m] \in Nat /\ ledger[m] \in Nat /\ cache[m] \in Nat \cup {Absent}
        /\ pending'[m] \in Int /\ ledger'[m] \in Nat
        /\ \A c \in Calls : seen[c] \in Nat
    BY PendingIsNatural DEF CoverInv, TypeOK
  <1>1. ASSUME NEW c \in Calls, IncrBy(c) \/ IncrByUnanswered(c) PROVE Covered(m)'
    <2>1. /\ tokens[c] \in Nat /\ UNCHANGED <<ledger, month, keyMonth, seen>>
          /\ m # month => cache'[m] = cache[m]
          /\ m = month /\ cache[m] # Absent => cache'[m] = cache[m] + tokens[c]
          /\ ~lossy[m] /\ ~Misses(c, m)
          /\ pc[c] = "incrby" /\ (pc'[c] = "incrby" \/ pc'[c] = "answer")
      BY <1>1, EntryGrows
    <2>2. \A d \in Calls : pc'[d] = "fill" => pc[d] = "fill"
      BY <1>1, <2>1, CallSteps DEF Progress, Fault, logRequest, IncrBy, IncrByUnanswered, Goto, TypeOK
    <2>3. \/ pending'[m] = pending[m]
          \/ m = logMonth[c] /\ pending'[m] = pending[m] - tokens[c]
      BY <1>1, <2>1 DEF IncrBy, IncrByUnanswered, TypeOK
    <2>4. /\ m = month => cache[m] # Absent
          /\ m = logMonth[c] => m = month /\ \A d \in Calls : ~(pc[d] = "fill" /\ keyMonth[d] = m)
      BY <2>1 DEF Misses
    <2>5. cache'[m] # Absent => cache'[m] + pending'[m] >= ledger'[m]
      BY <1>0, <2>1, <2>3, <2>4
    <2>6. ASSUME NEW d \in Calls, pc'[d] = "fill", keyMonth'[d] = m
          PROVE  seen'[d] + pending'[m] >= ledger'[m]
      BY <1>0, <2>1, <2>2, <2>3, <2>4, <2>6
    <2> QED
      BY <2>5, <2>6
  <1>2. ASSUME NEW c \in Calls, Progress(c) \/ Fault(c),
               Commit(c) \/ CommitFails(c) \/ IncrByFails(c) \/ RunDies(c)
        PROVE  Covered(m)'
    <2>1. /\ UNCHANGED <<cache, keyMonth, seen>> /\ pc'[c] \notin Checking /\ ~lossy[m]
          /\ ledger'[m] - pending'[m] = ledger[m] - pending[m]
      BY <1>2, TotalsMove
    <2>2. \A d \in Calls : pc'[d] = "fill" => pc[d] = "fill"
      <3>1. pc'[c] # "fill"
        BY <2>1 DEF Checking
      <3>2. \A d \in Calls : d # c => pc'[d] = pc[d]
        BY <1>2, CallSteps
      <3> QED
        BY <3>1, <3>2
    <2>3. cache'[m] # Absent => cache'[m] + pending'[m] >= ledger'[m]
      BY <1>0, <2>1
    <2>4. ASSUME NEW d \in Calls, pc'[d] = "fill", keyMonth'[d] = m
          PROVE  seen'[d] + pending'[m] >= ledger'[m]
      BY <1>0, <2>1, <2>2, <2>4
    <2> QED
      BY <2>3, <2>4
  <1>3. ASSUME NEW c \in Calls, ReadLedger(c) PROVE Covered(m)'
    <2>1. /\ pc[c] = "read" /\ UNCHANGED <<cache, ledger, pending, keyMonth>>
          /\ seen'[c] = ledger[month] /\ \A d \in Calls : d # c => seen'[d] = seen[d] /\ pc'[d] = pc[d]
      BY <1>3 DEF ReadLedger, Goto, TypeOK, entry
    <2>2. ~lossy[m] /\ (m = keyMonth[c] => m = month)
      BY <1>3 DEF ReadLedger, TypeOK
    <2> QED
      BY <1>0, <2>1, <2>2
  <1>4. ASSUME NEW c \in Calls, FillCache(c) \/ FillCacheFails(c) PROVE Covered(m)'
    <2>1. /\ pc[c] = "fill" /\ pc'[c] # "fill" /\ \A d \in Calls : d # c => pc'[d] = pc[d] /\ seen'[d] = seen[d]
          /\ UNCHANGED <<ledger, pending, lossy, keyMonth>>
      BY <1>4 DEF FillCache, FillCacheFails, Goto, Decide, Verdict, TypeOK, history, check
    <2>2. Fill(c) \/ UNCHANGED cache
      BY <1>4 DEF FillCache, FillCacheFails, entry
    <2>3. cache'[m] = cache[m] \/ (m = keyMonth[c] /\ cache'[m] = seen[c])
      BY <2>2 DEF Fill, TypeOK
    <2> QED
      BY <1>0, <2>1, <2>3
  <1>5. ASSUME NEW c \in Calls, Progress(c) \/ Fault(c),
               \/ CheckCache(c) \/ Fallback(c) \/ Provider(c) \/ Answer(c)
               \/ CheckCacheFails(c) \/ ReadLedgerFails(c) \/ FallbackFails(c)
        PROVE  Covered(m)'
    <2>1. UNCHANGED <<cache, ledger, pending, lossy>>
      BY <1>5 DEF CheckCache, Fallback, Provider, Answer, CheckCacheFails, ReadLedgerFails,
                  FallbackFails, Decide, entry, history
    <2>2. pc'[c] # "fill"
      <3>1. \A step : Goto(c, step) => pc'[c] = step
        BY DEF Goto, TypeOK
      <3> QED
        BY <1>5, <3>1 DEF CheckCache, Fallback, Provider, Answer, CheckCacheFails,
                          ReadLedgerFails, FallbackFails, Decide, Verdict
    <2>3. \A d \in Calls : d # c => pc'[d] = pc[d]
      BY <1>5, CallSteps
    <2>4. \A d \in Calls : d # c => seen'[d] = seen[d] /\ keyMonth'[d] = keyMonth[d]
      BY <1>5 DEF CheckCache, Fallback, Provider, Answer, CheckCacheFails, ReadLedgerFails,
                  FallbackFails, Decide, check, TypeOK
    <2> QED
      BY <1>0, <2>1, <2>2, <2>3, <2>4
  <1>6. ASSUME NEW n \in MonthRange, CacheExpires(n) PROVE Covered(m)'
    <2>1. UNCHANGED <<ledger, pending, lossy, pc, keyMonth, seen>> /\ cache'[m] \in {cache[m], Absent}
      BY <1>6 DEF CacheExpires, check, history, TypeOK
    <2> QED
      BY <1>0, <2>1
  <1>7. CASE MonthTurns \/ UNCHANGED vars
    <2>1. UNCHANGED <<cache, ledger, pending, lossy, pc, keyMonth, seen>>
      BY <1>7 DEF MonthTurns, vars, check, history, entry
    <2> QED
      BY <1>0, <2>1
  <1> QED
    BY <1>1, <1>2, <1>3, <1>4, <1>5, <1>6, <1>7
    DEF Next, Progress, Fault, checkMonthlyLimit, logRequest

\* The steps of a call that leave the totals of every month alone.
Reads(c) ==
  \/ CheckCache(c) \/ ReadLedger(c) \/ Fallback(c) \/ Provider(c) \/ Answer(c)
  \/ CheckCacheFails(c) \/ ReadLedgerFails(c) \/ FallbackFails(c)
Fills(c) == FillCache(c) \/ FillCacheFails(c)
Counts(c) == IncrBy(c) \/ IncrByUnanswered(c)
Moves(c) == Commit(c) \/ CommitFails(c) \/ IncrByFails(c) \/ RunDies(c)

LEMMA StepsOfCalls ==
  ASSUME NEW c \in Calls, Progress(c) \/ Fault(c)
  PROVE  Reads(c) \/ Fills(c) \/ Counts(c) \/ Moves(c)
  BY DEF Progress, Fault, checkMonthlyLimit, logRequest, Reads, Fills, Counts, Moves

LEMMA ReadsLeaveTotals ==
  ASSUME NEW c \in Calls, Reads(c)
  PROVE  UNCHANGED <<cache, expiring, ledger, pending, foreign, month>>
  BY DEF Reads, CheckCache, ReadLedger, Fallback, Provider, Answer, CheckCacheFails,
         ReadLedgerFails, FallbackFails, entry, history

\* What SET does to an entry, executed or not.
LEMMA FillsWrite ==
  ASSUME TypeOK, NEW c \in Calls, Fills(c), NEW m \in MonthRange
  PROVE  /\ UNCHANGED <<ledger, pending, foreign, month, keyMonth>> /\ pc[c] = "fill"
         /\ \/ UNCHANGED <<cache[m], expiring[m]>>
            \/ m = keyMonth[c] /\ cache'[m] = seen[c] /\ expiring'[m]
  <1>1. UNCHANGED <<ledger, pending, foreign, month, keyMonth>> /\ pc[c] = "fill"
    BY DEF Fills, FillCache, FillCacheFails, history, check
  <1>2. Fill(c) \/ UNCHANGED entry
    BY DEF Fills, FillCache, FillCacheFails
  <1>3. CASE Fill(c)
    BY <1>1, <1>3 DEF Fill, TypeOK
  <1> QED
    BY <1>1, <1>2, <1>3 DEF entry

\* What an INCRBY moves besides the entry.
LEMMA CountsMove ==
  ASSUME TypeOK, NEW c \in Calls, Counts(c), NEW m \in MonthRange
  PROVE  /\ m # month => pending'[m] <= pending[m] /\ foreign'[m] = foreign[m]
         /\ m = month => pending'[m] - foreign'[m] <= pending[m] - foreign[m] - tokens[c]
  <1>0. /\ pending[m] \in Int /\ foreign[m] \in Nat /\ tokens[c] \in Nat
        /\ logMonth[c] \in MonthRange /\ month \in MonthRange
    BY DEF TypeOK
  <1>1. CASE IncrBy(c)
    <2>1. /\ pending'[m] = IF m = logMonth[c] THEN pending[m] - tokens[c] ELSE pending[m]
          /\ foreign'[m] = IF m = month /\ logMonth[c] # month THEN foreign[m] + tokens[c]
                                                               ELSE foreign[m]
      BY <1>1 DEF IncrBy, TypeOK
    <2> QED
      BY <1>0, <2>1
  <1>2. CASE IncrByUnanswered(c)
    <2>1. /\ pending'[m] = pending[m]
          /\ foreign'[m] = IF m = month THEN foreign[m] + tokens[c] ELSE foreign[m]
      BY <1>2 DEF IncrByUnanswered, TypeOK
    <2> QED
      BY <1>0, <2>1
  <1> QED
    BY <1>1, <1>2 DEF Counts

LEMMA MonthsAreNumbers == \A m \in MonthRange : m \in Int
  BY DEF MonthRange

LEMMA IncrementsStep ==
  TypeOK /\ TypeOK' /\ PendingInv /\ IncrementsInv /\ [Next]_vars => IncrementsInv'
  <1> DEFINE Counted(m) ==
        cache[m] # Absent /\ ~expiring[m] => cache[m] <= ledger[m] - pending[m] + foreign[m]
  <1> SUFFICES ASSUME TypeOK, TypeOK', PendingInv, IncrementsInv, [Next]_vars,
                      NEW m \in MonthRange
               PROVE  Counted(m)'
    BY DEF IncrementsInv
  <1>0. /\ Counted(m)
        /\ pending[m] \in Nat /\ ledger[m] \in Nat /\ cache[m] \in Nat \cup {Absent}
        /\ pending[m] <= ledger[m] /\ foreign[m] \in Nat
        /\ pending'[m] \in Int /\ ledger'[m] \in Nat /\ foreign'[m] \in Nat
    BY PendingIsNatural DEF IncrementsInv, TypeOK
  <1>1. ASSUME NEW c \in Calls, Reads(c) PROVE Counted(m)'
    BY <1>0, <1>1, ReadsLeaveTotals
  <1>2. ASSUME NEW c \in Calls, Fills(c) PROVE Counted(m)'
    BY <1>0, <1>2, FillsWrite
  <1>3. ASSUME NEW c \in Calls, Counts(c) PROVE Counted(m)'
    <2>1. /\ tokens[c] \in Nat /\ UNCHANGED <<ledger, expiring>>
          /\ m # month => cache'[m] = cache[m]
          /\ m = month /\ cache[m] = Absent => cache'[m] = tokens[c]
          /\ m = month /\ cache[m] # Absent => cache'[m] = cache[m] + tokens[c]
      BY <1>3, EntryGrows DEF Counts
    <2>2. /\ m # month => pending'[m] <= pending[m] /\ foreign'[m] = foreign[m]
          /\ m = month => pending'[m] - foreign'[m] <= pending[m] - foreign[m] - tokens[c]
      BY <1>3, CountsMove
    <2> QED
      BY <1>0, <2>1, <2>2
  <1>4. ASSUME NEW c \in Calls, Moves(c) PROVE Counted(m)'
    <2>1. /\ UNCHANGED <<cache, expiring, foreign>>
          /\ ledger'[m] - pending'[m] >= ledger[m] - pending[m]
      BY <1>4, TotalsMove DEF Moves
    <2> QED
      BY <1>0, <2>1
  <1>5. ASSUME NEW n \in MonthRange, CacheExpires(n) PROVE Counted(m)'
    <2>1. /\ UNCHANGED <<ledger, pending, foreign>>
          /\ UNCHANGED <<cache[m], expiring[m]>> \/ cache'[m] = Absent
      BY <1>5 DEF CacheExpires, history, TypeOK
    <2> QED
      BY <1>0, <2>1
  <1>6. CASE MonthTurns \/ UNCHANGED vars
    <2>1. UNCHANGED <<cache, expiring, ledger, pending, foreign>>
      BY <1>6 DEF MonthTurns, vars, entry, history
    <2> QED
      BY <1>0, <2>1
  <1> QED
    BY <1>1, <1>2, <1>3, <1>4, <1>5, <1>6, StepsOfCalls DEF Next

LEMMA TwiceStep ==
  TypeOK /\ TypeOK' /\ PendingInv /\ CheckInv /\ TwiceInv /\ [Next]_vars => TwiceInv'
  <1> DEFINE Twice(m) == m >= month /\ cache[m] # Absent =>
                           cache[m] <= 2 * ledger[m] - pending[m] + foreign[m]
  <1> SUFFICES ASSUME TypeOK, TypeOK', PendingInv, CheckInv, TwiceInv, [Next]_vars,
                      NEW m \in MonthRange
               PROVE  Twice(m)'
    BY DEF TwiceInv
  <1>0. /\ Twice(m)
        /\ pending[m] \in Nat /\ ledger[m] \in Nat /\ cache[m] \in Nat \cup {Absent}
        /\ pending[m] <= ledger[m] /\ foreign[m] \in Nat
        /\ pending'[m] \in Int /\ ledger'[m] \in Nat /\ foreign'[m] \in Nat
        /\ m \in Int /\ month \in Int
    BY MonthsAreNumbers, PendingIsNatural DEF TwiceInv, TypeOK
  <1>1. ASSUME NEW c \in Calls, Reads(c) PROVE Twice(m)'
    BY <1>0, <1>1, ReadsLeaveTotals
  <1>2. ASSUME NEW c \in Calls, Fills(c) PROVE Twice(m)'
    <2>1. /\ UNCHANGED <<ledger, pending, foreign, month>> /\ pc[c] = "fill"
          /\ UNCHANGED cache[m] \/ (m = keyMonth[c] /\ cache'[m] = seen[c])
      BY <1>2, FillsWrite
    <2>2. keyMonth[c] <= month /\ (keyMonth[c] = month => seen[c] <= ledger[month])
      BY <2>1 DEF CheckInv
    <2>3. seen[c] \in Nat
      BY DEF TypeOK
    <2> QED
      BY <1>0, <2>1, <2>2, <2>3
  <1>3. ASSUME NEW c \in Calls, Counts(c) PROVE Twice(m)'
    <2>1. /\ tokens[c] \in Nat /\ UNCHANGED <<ledger, month>>
          /\ m # month => cache'[m] = cache[m]
          /\ m = month /\ cache[m] = Absent => cache'[m] = tokens[c]
          /\ m = month /\ cache[m] # Absent => cache'[m] = cache[m] + tokens[c]
      BY <1>3, EntryGrows DEF Counts
    <2>2. /\ m # month => pending'[m] <= pending[m] /\ foreign'[m] = foreign[m]
          /\ m = month => pending'[m] - foreign'[m] <= pending[m] - foreign[m] - tokens[c]
      BY <1>3, CountsMove
    <2> QED
      BY <1>0, <2>1, <2>2
  <1>4. ASSUME NEW c \in Calls, Moves(c) PROVE Twice(m)'
    <2>1. /\ UNCHANGED <<cache, month, foreign>> /\ ledger'[m] >= ledger[m]
          /\ ledger'[m] - pending'[m] >= ledger[m] - pending[m]
      BY <1>4, TotalsMove DEF Moves
    <2> QED
      BY <1>0, <2>1
  <1>5. ASSUME NEW n \in MonthRange, CacheExpires(n) PROVE Twice(m)'
    <2>1. UNCHANGED <<ledger, pending, foreign, month>> /\ cache'[m] \in {cache[m], Absent}
      BY <1>5 DEF CacheExpires, history, TypeOK
    <2> QED
      BY <1>0, <2>1
  <1>6. CASE MonthTurns \/ UNCHANGED vars
    <2>1. UNCHANGED <<cache, ledger, pending, foreign>> /\ month' \in {month, month + 1}
      BY <1>6 DEF MonthTurns, vars, entry, history
    <2> QED
      BY <1>0, <2>1
  <1> QED
    BY <1>1, <1>2, <1>3, <1>4, <1>5, <1>6, StepsOfCalls DEF Next

LEMMA CheckStep ==
  TypeOK /\ TypeOK' /\ PendingInv /\ CheckInv /\ [Next]_vars => CheckInv'
  <1> DEFINE Checks(d) ==
        /\ keyMonth[d] <= month
        /\ keyMonth[d] = month =>
             /\ pc[d] \in {"read", "fallback", "fill"} => settled[d] <= ledger[month]
             /\ pc[d] = "fill" => settled[d] <= seen[d] /\ seen[d] <= ledger[month]
  <1> SUFFICES ASSUME TypeOK, TypeOK', PendingInv, CheckInv, [Next]_vars, NEW d \in Calls
               PROVE  Checks(d)'
    BY DEF CheckInv
  <1>0. /\ Checks(d)
        /\ month \in Int /\ month \in MonthRange /\ keyMonth[d] \in Int
        /\ settled[d] \in Int /\ seen[d] \in Int
        /\ ledger[month] \in Nat /\ pending[month] \in Nat
    BY MonthsAreNumbers, PendingIsNatural DEF CheckInv, TypeOK
  <1> DEFINE Kept == UNCHANGED <<keyMonth[d], settled[d], seen[d]>>
  <1>1. ASSUME NEW c \in Calls, Progress(c) \/ Fault(c), c # d PROVE Checks(d)'
    <2>1. pc'[d] = pc[d] /\ month' = month
      BY <1>1, CallSteps
    <2>2. Kept
      <3>1. CASE Reads(c)
        BY <1>1, <3>1 DEF Reads, CheckCache, ReadLedger, Fallback, Provider, Answer,
                          CheckCacheFails, ReadLedgerFails, FallbackFails, Decide, check, TypeOK
      <3>2. CASE Fills(c)
        BY <1>1, <3>2 DEF Fills, FillCache, FillCacheFails, Decide, check, TypeOK
      <3>3. CASE Counts(c) \/ Moves(c)
        BY <1>0, <3>3, EntryGrows, TotalsMove DEF Counts, Moves
      <3> QED
        BY <1>1, <3>1, <3>2, <3>3, StepsOfCalls
    <2>3. ledger'[month] >= ledger[month] /\ ledger'[month] \in Nat
      <3>1. CASE Reads(c) \/ Fills(c) \/ Counts(c)
        BY <1>0, <3>1, ReadsLeaveTotals, FillsWrite, EntryGrows DEF Counts
      <3>2. CASE Moves(c)
        BY <1>0, <3>2, TotalsMove DEF Moves, TypeOK
      <3> QED
        BY <1>1, <3>1, <3>2, StepsOfCalls
    <2> QED
      BY <1>0, <2>1, <2>2, <2>3
  <1>2. \A step : Goto(d, step) => pc'[d] = step
    BY DEF Goto, TypeOK
  <1>3. ASSUME Reads(d) PROVE Checks(d)'
    <2>0. UNCHANGED <<ledger, pending, month>>
      BY <1>3, ReadsLeaveTotals
    <2>1. CASE CheckCache(d) \/ CheckCacheFails(d)
      <3>1. /\ keyMonth'[d] = month /\ pc'[d] # "fill"
            /\ pc'[d] \in {"read", "fallback"} => settled'[d] = ledger[month] - pending[month]
        BY <1>2, <2>1 DEF CheckCache, CheckCacheFails, Decide, Verdict, Settled, TypeOK
      <3> QED
        BY <1>0, <2>0, <3>1
    <2>2. CASE ReadLedger(d)
      <3>1. /\ seen'[d] = ledger[month] /\ UNCHANGED <<keyMonth, settled>>
            /\ pc[d] = "read" /\ pc'[d] = "fill"
        BY <1>2, <2>2 DEF ReadLedger, TypeOK
      <3> QED
        BY <1>0, <2>0, <3>1
    <2>3. CASE ReadLedgerFails(d)
      <3>1. UNCHANGED <<keyMonth, settled>> /\ pc[d] = "read" /\ pc'[d] = "fallback"
        BY <1>2, <2>3 DEF ReadLedgerFails, check
      <3> QED
        BY <1>0, <2>0, <3>1
    <2>4. CASE Fallback(d) \/ Provider(d) \/ Answer(d) \/ FallbackFails(d)
      <3>1. keyMonth' = keyMonth /\ pc'[d] \notin {"read", "fallback", "fill"}
        BY <1>2, <2>4 DEF Fallback, Provider, Answer, FallbackFails, Decide, Verdict, check
      <3> QED
        BY <1>0, <2>0, <3>1
    <2> QED
      BY <1>3, <2>1, <2>2, <2>3, <2>4 DEF Reads
  <1>4. ASSUME Fills(d) PROVE Checks(d)'
    <2>1. UNCHANGED <<ledger, month, keyMonth>> /\ pc[d] = "fill"
      BY <1>0, <1>4, FillsWrite
    <2>2. /\ pc'[d] # "fill" /\ pc'[d] # "read"
          /\ pc'[d] = "fallback" => UNCHANGED settled
      BY <1>2, <1>4 DEF Fills, FillCache, FillCacheFails, Decide, Verdict, check
    <2> QED
      BY <1>0, <2>1, <2>2
  <1>5. ASSUME Counts(d) \/ Moves(d) PROVE Checks(d)'
    <2>1. UNCHANGED <<month, keyMonth>>
      BY <1>0, <1>5, EntryGrows, TotalsMove DEF Counts, Moves
    <2>2. pc'[d] \notin Checking
      <3>1. CASE Counts(d)
        BY <1>0, <3>1, EntryGrows DEF Counts, Checking
      <3>2. CASE Moves(d)
        BY <1>0, <3>2, TotalsMove DEF Moves
      <3> QED
        BY <1>5, <3>1, <3>2
    <2> QED
      BY <1>0, <2>1, <2>2 DEF Checking
  <1>6. CASE MonthTurns
    <2>1. month' = month + 1 /\ UNCHANGED keyMonth
      BY <1>6 DEF MonthTurns, check
    <2> QED
      BY <1>0, <2>1
  <1>7. CASE UNCHANGED vars \/ \E m \in MonthRange : CacheExpires(m)
    <2>1. UNCHANGED <<month, keyMonth, settled, seen, pc, ledger>>
      BY <1>7 DEF vars, CacheExpires, check
    <2> QED
      BY <1>0, <2>1
  <1> QED
    BY <1>1, <1>3, <1>4, <1>5, <1>6, <1>7, StepsOfCalls DEF Next

LEMMA MeterInvariant == Spec => []IInv
  <1>1. Init => IInv
    <2> SUFFICES ASSUME Init PROVE IInv
      OBVIOUS
    <2>1. TypeOK
      BY MeterTypeInit
    <2>2. PendingInv
      <3> SUFFICES ASSUME NEW m \in MonthRange
                   PROVE  /\ \E S : Measures(S, Owes(m)) /\ S[Calls] = pending[m]
                          /\ pending[m] <= ledger[m]
        BY DEF PendingInv
      <3> DEFINE Z == [T \in SUBSET Calls |-> 0]
      <3>1. \A c \in Calls : Owes(m)[c] = 0
        BY DEF Init, Owes
      <3>2. Measures(Z, Owes(m)) /\ Z[Calls] = 0
        BY <3>1 DEF Measures
      <3>3. pending[m] = 0 /\ ledger[m] = 0
        BY DEF Init
      <3> QED
        BY <3>2, <3>3
    <2>3. \A m \in MonthRange : cache[m] = Absent
      BY DEF Init
    <2>4. month = 1 /\ \A c \in Calls : pc[c] = "check" /\ keyMonth[c] = 1
      BY DEF Init
    <2>5. ASSUME NEW c \in Calls PROVE keyMonth[c] <= month
      <3>1. keyMonth[c] = 1 /\ month = 1
        BY <2>4
      <3> QED
        BY <3>1
    <2> QED
      BY <2>1, <2>2, <2>3, <2>4, <2>5 DEF IInv, CoverInv, IncrementsInv, TwiceInv, CheckInv
  <1>2. IInv /\ [Next]_vars => IInv'
    BY MeterTypeStep, PendingStep, CoverStep, IncrementsStep, TwiceStep, CheckStep DEF IInv
  <1> QED
    BY <1>1, <1>2, PTL DEF Spec

-----------------------------------------------------------------------------
(* The theorems.                                                           *)

\* The cache undercounts a month only after one of the losses that lossy names,
\* however many calls fill it and add to it at the same time.
THEOREM CacheCovers == Spec => []CacheCoversLedger
  <1>1. IInv => CacheCoversLedger
    BY DEF IInv, CoverInv, CacheCoversLedger
  <1> QED
    BY <1>1, MeterInvariant, PTL

\* An entry that says too much, resent and carried over increments aside, expires.
THEOREM OvercountsExpire == Spec => []OvercountExpires
  <1>1. IInv => OvercountExpires
    <2> SUFFICES ASSUME IInv, NEW m \in MonthRange, cache[m] > ledger[m] + foreign[m]
                 PROVE  expiring[m]
      BY DEF OvercountExpires
    <2>1. /\ pending[m] \in Nat /\ ledger[m] \in Nat /\ foreign[m] \in Nat
          /\ cache[m] \in Nat \cup {Absent}
      BY PendingIsNatural DEF IInv, TypeOK
    <2>2. cache[m] # Absent
      BY <2>1 DEF Absent
    <2> QED
      BY <2>1, <2>2 DEF IInv, IncrementsInv
  <1> QED
    BY <1>1, MeterInvariant, PTL

\* How a check can end: by a hit, by the total it read and wrote, or by the ledger.
LEMMA HowChecksEnd ==
  ASSUME TypeOK, [Next]_vars, NEW c \in Calls, NEW verdict \in {"provider", "refused"},
         Decides(c, verdict)
  PROVE  /\ keyMonth'[c] = month
         /\ \/ pc[c] = "check" /\ cache[month] # Absent /\ Verdict(cache[month]) = verdict
            \/ pc[c] = "fill" /\ keyMonth[c] = month /\ Verdict(seen[c]) = verdict
            \/ pc[c] = "fallback" /\ keyMonth[c] = month /\ Verdict(ledger[month]) = verdict
  <1>1. pc[c] \in Checking /\ pc'[c] = verdict /\ keyMonth'[c] = month /\ pc'[c] # pc[c]
    BY DEF Decides, Checking
  <1>2. \A step : Goto(c, step) => pc'[c] = step
    BY DEF Goto, TypeOK
  <1>3. Progress(c) \/ Fault(c)
    <2>1. ASSUME NEW d \in Calls, d # c, Progress(d) \/ Fault(d) PROVE FALSE
      BY <1>1, <2>1, CallSteps
    <2>2. ~MonthTurns /\ ~(UNCHANGED vars) /\ \A m \in MonthRange : ~CacheExpires(m)
      BY <1>1 DEF MonthTurns, CacheExpires, vars
    <2> QED
      BY <2>1, <2>2 DEF Next
  <1>4. CASE Reads(c)
    <2>1. CASE CheckCache(c)
      <3>1. pc[c] = "check" /\ Cached # Absent /\ pc'[c] = Verdict(Cached)
        BY <1>1, <1>2, <2>1 DEF CheckCache, Decide
      <3> QED
        BY <1>1, <3>1 DEF Cached
    <2>2. CASE Fallback(c)
      BY <1>1, <1>2, <2>2 DEF Fallback, Decide
    <2>3. ~(\/ ReadLedger(c) \/ Provider(c) \/ Answer(c)
            \/ CheckCacheFails(c) \/ ReadLedgerFails(c) \/ FallbackFails(c))
      BY <1>1, <1>2 DEF ReadLedger, Provider, Answer, CheckCacheFails, ReadLedgerFails,
                        FallbackFails, Checking
    <2> QED
      BY <1>4, <2>1, <2>2, <2>3 DEF Reads
  <1>5. CASE Fills(c)
    <2>1. CASE FillCache(c)
      BY <1>1, <1>2, <2>1 DEF FillCache, Decide
    <2>2. ~FillCacheFails(c)
      BY <1>1, <1>2 DEF FillCacheFails
    <2> QED
      BY <1>5, <2>1, <2>2 DEF Fills
  <1>6. ~Counts(c) /\ ~Moves(c)
    BY <1>1 DEF Counts, Moves, IncrBy, IncrByUnanswered, Commit, CommitFails, IncrByFails,
                RunDies, Checking, Logging
  <1> QED
    BY <1>3, <1>4, <1>5, <1>6, StepsOfCalls

\* A call that begins its check after the limit was used up by fully logged calls
\* is not admitted, unless an increment of the month was lost.
THEOREM AdmissionIsEarned == Spec => AdmittedOnlyBelowLimit
  <1>1. IInv /\ [Next]_vars =>
          [\A c \in Calls :
             Decides(c, "provider") /\ ~lossy[month] => SettledAtStart(c) < Limit]_vars
    <2> SUFFICES ASSUME IInv, [Next]_vars, NEW c \in Calls, Decides(c, "provider"), ~lossy[month]
                 PROVE  SettledAtStart(c) < Limit
      OBVIOUS
    <2>1. /\ TypeOK /\ month \in MonthRange
          /\ ledger[month] \in Nat /\ pending[month] \in Nat
          /\ seen[c] \in Int /\ settled[c] \in Int /\ Limit \in Int
          /\ cache[month] # Absent => cache[month] \in Nat
      BY PendingIsNatural, MeterAssumption DEF IInv, TypeOK
    <2>2. \A used : Verdict(used) = "provider" => ~(used >= Limit)
      BY DEF Verdict, AtLimit
    <2>3. \/ pc[c] = "check" /\ cache[month] # Absent /\ ~(cache[month] >= Limit)
          \/ pc[c] = "fill" /\ keyMonth[c] = month /\ ~(seen[c] >= Limit)
          \/ pc[c] = "fallback" /\ keyMonth[c] = month /\ ~(ledger[month] >= Limit)
      BY <2>1, <2>2, HowChecksEnd
    <2>4. CASE pc[c] = "check"
      <3>1. cache[month] # Absent /\ cache[month] < Limit
        BY <2>1, <2>3, <2>4
      <3>2. cache[month] + pending[month] >= ledger[month]
        BY <2>1, <3>1 DEF IInv, CoverInv
      <3> QED
        BY <2>1, <2>4, <3>1, <3>2 DEF SettledAtStart, Settled
    <2>5. CASE pc[c] # "check"
      BY <2>1, <2>3, <2>5 DEF IInv, CheckInv, SettledAtStart
    <2> QED
      BY <2>4, <2>5
  <1> QED
    BY <1>1, MeterInvariant, PTL DEF Spec, AdmittedOnlyBelowLimit

\* A refusal means that at least half of the limit was really used, leaving aside
\* what was counted twice or carried over from last month.
THEOREM RefusalIsEarned == Spec => RefusedOnlyAboveHalf
  <1>1. IInv /\ [Next]_vars =>
          [\A c \in Calls :
             Decides(c, "refused") => 2 * ledger[month] + foreign[month] >= Limit]_vars
    <2> SUFFICES ASSUME IInv, [Next]_vars, NEW c \in Calls, Decides(c, "refused")
                 PROVE  2 * ledger[month] + foreign[month] >= Limit
      OBVIOUS
    <2>1. /\ TypeOK /\ month \in MonthRange /\ month >= month
          /\ ledger[month] \in Nat /\ pending[month] \in Nat /\ foreign[month] \in Nat
          /\ seen[c] \in Int /\ Limit \in Int
          /\ cache[month] # Absent => cache[month] \in Nat
      BY MonthsAreNumbers, PendingIsNatural, MeterAssumption DEF IInv, TypeOK
    <2>2. \A used : Verdict(used) = "refused" => used >= Limit
      BY DEF Verdict, AtLimit
    <2>3. \/ cache[month] # Absent /\ cache[month] >= Limit
          \/ pc[c] = "fill" /\ keyMonth[c] = month /\ seen[c] >= Limit
          \/ ledger[month] >= Limit
      BY <2>1, <2>2, HowChecksEnd
    <2>4. cache[month] # Absent => cache[month] <= 2 * ledger[month] - pending[month] + foreign[month]
      BY <2>1 DEF IInv, TwiceInv
    <2>5. pc[c] = "fill" /\ keyMonth[c] = month => seen[c] <= ledger[month]
      BY DEF IInv, CheckInv
    <2> QED
      BY <2>1, <2>3, <2>4, <2>5
  <1> QED
    BY <1>1, MeterInvariant, PTL DEF Spec, RefusedOnlyAboveHalf
=============================================================================
