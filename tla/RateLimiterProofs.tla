-------------------------- MODULE RateLimiterProofs --------------------------
(***************************************************************************)
(* Theorems about RateLimiter for every set of requests and keys, every    *)
(* quota and every number of resends.                                      *)
(*                                                                         *)
(* The answers of INCR are the whole argument: within one window Redis     *)
(* hands out every number at most once (CountsInv), a request is let       *)
(* through only on a number up to the quota (VerdictInv), hence the        *)
(* requests let through inject into 1..requestsPerMin.  Without resent     *)
(* commands no number is skipped either (SlotsInv), so a request that got  *)
(* a number above the quota leaves the quota to others.                    *)
(***************************************************************************)
EXTENDS RateLimiter, FunctionTheorems, FiniteSetTheorems, TLAPS

\* Numbers handed out by INCR in one window: bounded by the counter while the
\* window is open, and pairwise distinct for good.
CountsInv ==
  /\ \A r \in Requests : ownWindow[r] <= window[KeyOf[r]]
  /\ \A r \in Requests :
       current[r] > 0 /\ ownWindow[r] = window[KeyOf[r]] => current[r] <= counter[KeyOf[r]]
  /\ \A r, s \in Requests :
       r # s /\ KeyOf[r] = KeyOf[s] /\ ownWindow[r] = ownWindow[s] /\ current[r] > 0
       => current[r] # current[s]

\* What the program counter says about the number a request got.
VerdictInv ==
  /\ \A r \in Requests : pc[r] = "incr" => current[r] = 0
  /\ \A r \in Requests : pc[r] = "expire" => current[r] = 1
  /\ \A r \in Requests : pc[r] = "allowed" => current[r] \in 1 .. RequestsPerMin[KeyOf[r]]

IInv == TypeOK /\ CountsInv /\ VerdictInv

LEMMA LimiterTypeInit == Init => TypeOK
  BY LimiterAssumption DEF Init, TypeOK, InFlight, Verdicts, NoAnswer

LEMMA LimiterTypeStep == TypeOK /\ [Next]_vars => TypeOK'
  <1> SUFFICES ASSUME TypeOK, [Next]_vars PROVE TypeOK'
    OBVIOUS
  <1> USE LimiterAssumption DEF TypeOK, InFlight, Verdicts
  <1>1. ASSUME NEW r \in Requests, Incr(r) PROVE TypeOK'
    BY <1>1 DEF Incr, Verdict
  <1>2. ASSUME NEW r \in Requests, IncrUnanswered(r) PROVE TypeOK'
    BY <1>2 DEF IncrUnanswered
  <1>3. ASSUME NEW r \in Requests, Expire(r) PROVE TypeOK'
    BY <1>3 DEF Expire, Verdict
  <1>4. ASSUME NEW r \in Requests, Ttl(r) PROVE TypeOK'
    BY <1>4 DEF Ttl, NoAnswer, Seconds, NoExpiry, NoKey
  <1>5. ASSUME NEW r \in Requests, Abort(r) PROVE TypeOK'
    BY <1>5 DEF Abort
  <1>6. ASSUME NEW k \in ApiKeys, WindowCloses(k) PROVE TypeOK'
    BY <1>6 DEF WindowCloses
  <1>7. CASE UNCHANGED vars
    BY <1>7 DEF vars
  <1> QED
    BY <1>1, <1>2, <1>3, <1>4, <1>5, <1>6, <1>7 DEF Next, isRateLimited

\* The variables of the limiter keep their types, whatever the constants.
THEOREM LimiterTypeCorrect == Spec => []TypeOK
  BY LimiterTypeInit, LimiterTypeStep, PTL DEF Spec

-----------------------------------------------------------------------------
LEMMA CountsStep == IInv /\ [Next]_vars => CountsInv'
  <1> SUFFICES ASSUME IInv, [Next]_vars PROVE CountsInv'
    OBVIOUS
  <1> USE LimiterAssumption DEF IInv, TypeOK, CountsInv, VerdictInv
  <1>1. ASSUME NEW r \in Requests, Incr(r) PROVE CountsInv'
    BY <1>1 DEF Incr
  <1>2. ASSUME NEW r \in Requests, IncrUnanswered(r) PROVE CountsInv'
    BY <1>2 DEF IncrUnanswered
  <1>3. ASSUME NEW r \in Requests, Expire(r) PROVE CountsInv'
    BY <1>3 DEF Expire
  <1>4. ASSUME NEW r \in Requests, Ttl(r) PROVE CountsInv'
    BY <1>4 DEF Ttl
  <1>5. ASSUME NEW r \in Requests, Abort(r) PROVE CountsInv'
    BY <1>5 DEF Abort
  <1>6. ASSUME NEW k \in ApiKeys, WindowCloses(k) PROVE CountsInv'
    BY <1>6 DEF WindowCloses
  <1>7. CASE UNCHANGED vars
    BY <1>7 DEF vars
  <1> QED
    BY <1>1, <1>2, <1>3, <1>4, <1>5, <1>6, <1>7 DEF Next, isRateLimited

LEMMA VerdictStep == IInv /\ [Next]_vars => VerdictInv'
  <1> SUFFICES ASSUME IInv, [Next]_vars PROVE VerdictInv'
    OBVIOUS
  <1> USE LimiterAssumption DEF IInv, TypeOK, VerdictInv
  <1>1. ASSUME NEW r \in Requests, Incr(r) PROVE VerdictInv'
    BY <1>1 DEF Incr, Verdict, Exceeds, OpensWindow
  <1>2. ASSUME NEW r \in Requests, IncrUnanswered(r) PROVE VerdictInv'
    BY <1>2 DEF IncrUnanswered
  <1>3. ASSUME NEW r \in Requests, Expire(r) PROVE VerdictInv'
    BY <1>3 DEF Expire, Verdict, Exceeds
  <1>4. ASSUME NEW r \in Requests, Ttl(r) PROVE VerdictInv'
    BY <1>4 DEF Ttl
  <1>5. ASSUME NEW r \in Requests, Abort(r) PROVE VerdictInv'
    BY <1>5 DEF Abort
  <1>6. ASSUME NEW k \in ApiKeys, WindowCloses(k) PROVE VerdictInv'
    BY <1>6 DEF WindowCloses
  <1>7. CASE UNCHANGED vars
    BY <1>7 DEF vars
  <1> QED
    BY <1>1, <1>2, <1>3, <1>4, <1>5, <1>6, <1>7 DEF Next, isRateLimited

LEMMA LimiterInvariant == Spec => []IInv
  <1>1. Init => IInv
    BY LimiterTypeInit, LimiterAssumption DEF Init, IInv, CountsInv, VerdictInv
  <1>2. IInv /\ [Next]_vars => IInv'
    BY LimiterTypeStep, CountsStep, VerdictStep DEF IInv
  <1> QED
    BY <1>1, <1>2, PTL DEF Spec

\* The requests let through in one window carry distinct numbers of the quota.
LEMMA GrantsInject == IInv => GrantsBounded
  <1> SUFFICES ASSUME IInv, NEW k \in ApiKeys, NEW w \in 0 .. window[k]
               PROVE  Cardinality(Granted(k, w)) <= RequestsPerMin[k]
    BY DEF GrantsBounded
  <1> DEFINE Quota == 1 .. RequestsPerMin[k]
             number == [r \in Granted(k, w) |-> current[r]]
  <1>1. RequestsPerMin[k] \in Nat
    BY LimiterAssumption
  <1>2. number \in Injection(Granted(k, w), Quota)
    <2>1. \A r \in Granted(k, w) : current[r] \in Quota
      BY DEF IInv, VerdictInv, Granted
    <2>2. \A r, s \in Granted(k, w) : r # s => current[r] # current[s]
      BY <2>1 DEF IInv, CountsInv, Granted
    <2> QED
      BY <2>1, <2>2, Fun_IsInj DEF Injection, IsInjective
  <1>3. IsFiniteSet(Quota) /\ Cardinality(Quota) = RequestsPerMin[k]
    <2>1. 1 \in Int /\ RequestsPerMin[k] \in Int
      BY <1>1
    <2>2. /\ IsFiniteSet(Quota)
          /\ Cardinality(Quota) = IF 1 > RequestsPerMin[k] THEN 0 ELSE RequestsPerMin[k] - 1 + 1
      BY <2>1, FS_Interval
    <2> QED
      BY <1>1, <2>2
  <1>4. Cardinality(Granted(k, w)) <= Cardinality(Quota)
    BY <1>2, <1>3, FS_Injection
  <1> QED
    BY <1>3, <1>4

\* No interleaving of INCR, EXPIRE, expiry, crashes and resent commands lets a
\* window of any key exceed its quota.
THEOREM QuotaHolds == Spec => []GrantsBounded
  BY LimiterInvariant, GrantsInject, PTL

-----------------------------------------------------------------------------
LEMMA OpenEndedStep ==
  IInv /\ OpenEndedOnlyByFault /\ [Next]_vars => OpenEndedOnlyByFault'
  <1> SUFFICES ASSUME IInv, OpenEndedOnlyByFault, [Next]_vars
               PROVE  OpenEndedOnlyByFault'
    OBVIOUS
  <1> USE LimiterAssumption DEF IInv, TypeOK, VerdictInv, OpenEndedOnlyByFault, Opening, Faulted
  <1>1. ASSUME NEW r \in Requests, Incr(r) PROVE OpenEndedOnlyByFault'
    BY <1>1 DEF Incr, OpensWindow
  <1>2. ASSUME NEW r \in Requests, IncrUnanswered(r) PROVE OpenEndedOnlyByFault'
    BY <1>2 DEF IncrUnanswered
  <1>3. ASSUME NEW r \in Requests, Expire(r) PROVE OpenEndedOnlyByFault'
    <2>1. ASSUME NEW k \in ApiKeys, counter'[k] > 0, ~ttl'[k]
          PROVE  k # KeyOf[r] /\ ~ttl[k] /\ counter[k] > 0
      BY <1>3, <2>1 DEF Expire
    <2>2. \A s \in Requests : s # r => pc'[s] = pc[s]
      BY <1>3 DEF Expire
    <2>3. pc[r] = "expire" /\ UNCHANGED <<window, current, ownWindow, resends>>
      BY <1>3 DEF Expire
    <2> QED
      BY <2>1, <2>2, <2>3
  <1>4. ASSUME NEW r \in Requests, Ttl(r) PROVE OpenEndedOnlyByFault'
    BY <1>4 DEF Ttl
  <1>5. ASSUME NEW r \in Requests, Abort(r) PROVE OpenEndedOnlyByFault'
    BY <1>5 DEF Abort
  <1>6. ASSUME NEW j \in ApiKeys, WindowCloses(j) PROVE OpenEndedOnlyByFault'
    BY <1>6 DEF WindowCloses
  <1>7. CASE UNCHANGED vars
    BY <1>7 DEF vars
  <1> QED
    BY <1>1, <1>2, <1>3, <1>4, <1>5, <1>6, <1>7 DEF Next, isRateLimited

\* A window stays open for good only behind a request that died between INCR
\* and EXPIRE or an INCR that was executed twice.
THEOREM OpenEndedNeedsFault == Spec => []OpenEndedOnlyByFault
  <1>1. Init => OpenEndedOnlyByFault
    BY LimiterAssumption DEF Init, OpenEndedOnlyByFault
  <1> QED
    BY <1>1, OpenEndedStep, LimiterInvariant, PTL DEF Spec

-----------------------------------------------------------------------------
(* Refusals.                                                               *)

NoResends == \A s \in Requests : resends[s] = 0

\* Request s holds number n of window w of key k.
Holds(s, k, w, n) == KeyOf[s] = k /\ ownWindow[s] = w /\ current[s] = n

\* Without resent commands every number below the counter, and below any number
\* handed out, belongs to a request of the same window.
SlotsInv ==
  NoResends =>
    /\ \A k \in ApiKeys : \A n \in 1 .. counter[k] :
         \E s \in Requests : Holds(s, k, window[k], n)
    /\ \A r \in Requests : \A n \in 1 .. current[r] :
         \E s \in Requests : Holds(s, KeyOf[r], ownWindow[r], n)

\* A window has handed out a largest number, also when the requests are infinite.
LargestInv ==
  \A k \in ApiKeys : \A w \in Nat : \E most \in Nat :
    \A s \in Requests : KeyOf[s] = k /\ ownWindow[s] = w => current[s] <= most

RefusedInv ==
  \A r \in Requests : pc[r] \in {"ttl", "limited"} => current[r] > RequestsPerMin[KeyOf[r]]

LEMMA SlotsStep == IInv /\ SlotsInv /\ [Next]_vars => SlotsInv'
  <1> SUFFICES ASSUME IInv, SlotsInv, [Next]_vars, NoResends' PROVE SlotsInv'
    BY DEF SlotsInv
  <1> USE LimiterAssumption DEF IInv, TypeOK
  <1>1. ~\E r \in Requests : IncrUnanswered(r)
    BY DEF IncrUnanswered, NoResends
  <1>2. resends' = resends
    BY <1>1 DEF Next, isRateLimited, Incr, Expire, Ttl, Abort, WindowCloses, vars
  <1>3. /\ \A k \in ApiKeys : \A n \in 1 .. counter[k] :
             \E s \in Requests : Holds(s, k, window[k], n)
        /\ \A r \in Requests : \A n \in 1 .. current[r] :
             \E s \in Requests : Holds(s, KeyOf[r], ownWindow[r], n)
    BY <1>2 DEF SlotsInv, NoResends
  <1>4. ASSUME NEW r \in Requests, Incr(r) PROVE SlotsInv'
    <2> DEFINE k == KeyOf[r]
               n == counter[k] + 1
               HoldsNow(s, l, w, m) == KeyOf[s] = l /\ ownWindow'[s] = w /\ current'[s] = m
    <2>1. /\ counter' = [counter EXCEPT ![k] = n] /\ window' = window
          /\ current' = [current EXCEPT ![r] = n]
          /\ ownWindow' = [ownWindow EXCEPT ![r] = window[k]]
          /\ current[r] = 0 /\ k \in ApiKeys /\ n \in Nat
      BY <1>4 DEF Incr, VerdictInv
    <2>2. HoldsNow(r, k, window[k], n)
      BY <2>1 DEF Holds
    <2>3. \A s \in Requests, l \in ApiKeys, w \in Nat, m \in Nat \ {0} :
            Holds(s, l, w, m) => s # r /\ HoldsNow(s, l, w, m)
      BY <2>1 DEF Holds
    <2>4. \A l \in ApiKeys : \A m \in 1 .. counter'[l] :
            \E s \in Requests : HoldsNow(s, l, window[l], m)
      <3> TAKE l \in ApiKeys
      <3> TAKE m \in 1 .. counter'[l]
      <3>1. CASE l = k /\ m = n
        BY <2>2, <3>1
      <3>2. CASE ~(l = k /\ m = n)
        <4>1. m \in 1 .. counter[l] /\ m \in Nat \ {0} /\ window[l] \in Nat
          BY <2>1, <3>2
        <4>2. PICK s \in Requests : Holds(s, l, window[l], m)
          BY <1>3, <4>1
        <4> QED
          BY <2>3, <4>1, <4>2
      <3> QED
        BY <3>1, <3>2
    <2>5. \A q \in Requests : \A m \in 1 .. current'[q] :
            \E s \in Requests : HoldsNow(s, KeyOf[q], ownWindow'[q], m)
      <3> TAKE q \in Requests
      <3> TAKE m \in 1 .. current'[q]
      <3>1. CASE q = r
        <4>1. m \in 1 .. counter'[k] /\ ownWindow'[r] = window[k]
          BY <2>1, <3>1
        <4> QED
          BY <2>1, <2>4, <3>1, <4>1
      <3>2. CASE q # r
        <4>1. m \in 1 .. current[q] /\ m \in Nat \ {0} /\ ownWindow'[q] = ownWindow[q]
                /\ ownWindow[q] \in Nat /\ KeyOf[q] \in ApiKeys
          BY <2>1, <3>2
        <4>2. PICK s \in Requests : Holds(s, KeyOf[q], ownWindow[q], m)
          BY <1>3, <4>1
        <4> QED
          BY <2>3, <4>1, <4>2
      <3> QED
        BY <3>1, <3>2
    <2>6. \A l \in ApiKeys : \A m \in 1 .. counter'[l] :
            \E s \in Requests : HoldsNow(s, l, window'[l], m)
      BY <2>1, <2>4
    <2> QED
      BY <2>5, <2>6 DEF SlotsInv, Holds
  <1>5. ASSUME NEW k \in ApiKeys, WindowCloses(k) PROVE SlotsInv'
    <2>1. /\ UNCHANGED <<current, ownWindow>>
          /\ counter'[k] = 0 /\ \A l \in ApiKeys : l # k => counter'[l] = counter[l] /\ window'[l] = window[l]
      BY <1>5 DEF WindowCloses
    <2>2. \A l \in ApiKeys : \A n \in 1 .. counter'[l] :
            \E s \in Requests : Holds(s, l, window'[l], n)
      <3> TAKE l \in ApiKeys
      <3> TAKE n \in 1 .. counter'[l]
      <3>1. l # k
        BY <2>1
      <3> QED
        BY <1>3, <2>1, <3>1
    <2> QED
      BY <1>3, <2>1, <2>2 DEF SlotsInv, Holds
  <1>6. CASE UNCHANGED <<counter, window, current, ownWindow>>
    BY <1>3, <1>6 DEF SlotsInv, Holds
  <1> QED
    BY <1>1, <1>4, <1>5, <1>6 DEF Next, isRateLimited, Expire, Ttl, Abort, vars

LEMMA LargestStep == IInv /\ LargestInv /\ [Next]_vars => LargestInv'
  <1> SUFFICES ASSUME IInv, LargestInv, [Next]_vars, NEW k \in ApiKeys, NEW w \in Nat
               PROVE  \E most \in Nat : \A s \in Requests :
                        KeyOf[s] = k /\ ownWindow'[s] = w => current'[s] <= most
    BY DEF LargestInv
  <1> USE LimiterAssumption DEF IInv, TypeOK
  <1>1. PICK most \in Nat :
          \A s \in Requests : KeyOf[s] = k /\ ownWindow[s] = w => current[s] <= most
    BY DEF LargestInv
  <1>2. ASSUME NEW r \in Requests, Incr(r) \/ IncrUnanswered(r)
        PROVE  \E n \in Nat : \A s \in Requests :
                 /\ s # r => ownWindow'[s] = ownWindow[s] /\ current'[s] = current[s]
                 /\ current'[r] <= n
    <2>1. CASE Incr(r)
      <3>1. current'[r] = counter[KeyOf[r]] + 1 /\ counter[KeyOf[r]] + 1 \in Nat
        BY <2>1 DEF Incr
      <3> QED
        BY <2>1, <3>1 DEF Incr
    <2>2. CASE IncrUnanswered(r)
      <3>1. current' = current /\ current[r] \in Nat
        BY <2>2 DEF IncrUnanswered
      <3> QED
        BY <2>2, <3>1 DEF IncrUnanswered
    <2> QED
      BY <1>2, <2>1, <2>2
  <1>3. ASSUME NEW r \in Requests, Incr(r) \/ IncrUnanswered(r)
        PROVE  \E top \in Nat : \A s \in Requests :
                 KeyOf[s] = k /\ ownWindow'[s] = w => current'[s] <= top
    <2>1. PICK n \in Nat : \A s \in Requests :
                 /\ s # r => ownWindow'[s] = ownWindow[s] /\ current'[s] = current[s]
                 /\ current'[r] <= n
      BY <1>2, <1>3
    <2>2. current'[r] \in Nat /\ \A s \in Requests : current[s] \in Nat
      BY LimiterTypeStep
    <2>3. WITNESS most + n \in Nat
    <2> QED
      BY <1>1, <2>1, <2>2
  <1>4. CASE UNCHANGED <<current, ownWindow>>
    BY <1>1, <1>4
  <1> QED
    BY <1>3, <1>4 DEF Next, isRateLimited, Expire, Ttl, Abort, WindowCloses, vars

LEMMA RefusedStep == IInv /\ RefusedInv /\ [Next]_vars => RefusedInv'
  <1> SUFFICES ASSUME IInv, RefusedInv, [Next]_vars PROVE RefusedInv'
    OBVIOUS
  <1> USE LimiterAssumption DEF IInv, TypeOK, VerdictInv, RefusedInv
  <1>1. ASSUME NEW r \in Requests, Incr(r) PROVE RefusedInv'
    BY <1>1 DEF Incr, Verdict, Exceeds
  <1>2. ASSUME NEW r \in Requests, Expire(r) PROVE RefusedInv'
    BY <1>2 DEF Expire, Verdict, Exceeds
  <1>3. ASSUME NEW r \in Requests, IncrUnanswered(r) \/ Ttl(r) \/ Abort(r) PROVE RefusedInv'
    BY <1>3 DEF IncrUnanswered, Ttl, Abort
  <1>4. ASSUME NEW k \in ApiKeys, WindowCloses(k) PROVE RefusedInv'
    BY <1>4 DEF WindowCloses
  <1>5. CASE UNCHANGED vars
    BY <1>5 DEF vars
  <1> QED
    BY <1>1, <1>2, <1>3, <1>4, <1>5 DEF Next, isRateLimited

\* The numbers of the quota went to requests counted with the refused one.
LEMMA QuotaWentToOthers ==
  IInv /\ SlotsInv /\ LargestInv /\ RefusedInv => RefusedOnlyOverQuota
  <1> SUFFICES ASSUME IInv, SlotsInv, LargestInv, RefusedInv, NoResends, NEW r \in Requests,
                      pc[r] \in {"ttl", "limited"}
               PROVE  Cardinality(CountedWith(r)) >= RequestsPerMin[KeyOf[r]]
    BY DEF RefusedOnlyOverQuota, NoResends
  <1> DEFINE k == KeyOf[r]
             quota == RequestsPerMin[k]
             Others == CountedWith(r)
  <1>1. /\ k \in ApiKeys /\ quota \in Nat /\ current[r] > quota /\ current[r] \in Nat
        /\ ownWindow[r] \in Nat /\ \A s \in Requests : current[s] \in Nat
    BY LimiterAssumption DEF IInv, TypeOK, RefusedInv
  <1>2. IsFiniteSet(Others)
    <2>1. PICK most \in Nat :
            \A s \in Requests : KeyOf[s] = k /\ ownWindow[s] = ownWindow[r] => current[s] <= most
      BY <1>1 DEF LargestInv
    <2> DEFINE number == [s \in Others |-> current[s]]
    <2>2. \A s \in Others : current[s] \in 1 .. most
      BY <1>1, <2>1 DEF CountedWith
    <2>3. \A s, q \in Others : s # q => current[s] # current[q]
      BY DEF IInv, CountsInv, CountedWith
    <2>4. number \in Injection(Others, 1 .. most)
      BY <2>2, <2>3, Fun_IsInj DEF Injection, IsInjective
    <2>5. 1 \in Int /\ most \in Int
      OBVIOUS
    <2>6. IsFiniteSet(1 .. most)
      BY <2>5, FS_Interval
    <2> QED
      BY <2>4, <2>6, FS_Injection
  <1> DEFINE slot == [n \in 1 .. quota |-> CHOOSE s \in Others : current[s] = n]
  <1>3. \A n \in 1 .. quota : slot[n] \in Others /\ current[slot[n]] = n
    <2> TAKE n \in 1 .. quota
    <2>1. n \in 1 .. current[r] /\ n # current[r]
      BY <1>1
    <2>2. PICK s \in Requests : Holds(s, k, ownWindow[r], n)
      BY <2>1 DEF SlotsInv
    <2>3. s \in Others /\ current[s] = n
      BY <2>1, <2>2 DEF Holds, CountedWith
    <2> QED
      BY <2>3
  <1>4. slot \in Injection(1 .. quota, Others)
    <2>1. \A m, n \in 1 .. quota : m # n => slot[m] # slot[n]
      BY <1>3
    <2>2. slot \in [1 .. quota -> Others]
      BY <1>3
    <2> HIDE DEF slot
    <2> QED
      BY <2>1, <2>2 DEF Injection, IsInjective
  <1>5. Cardinality(1 .. quota) = quota
    <2>1. 1 \in Int /\ quota \in Int
      BY <1>1
    <2>2. Cardinality(1 .. quota) = IF 1 > quota THEN 0 ELSE quota - 1 + 1
      BY <2>1, FS_Interval
    <2> QED
      BY <1>1, <2>2
  <1>6. Cardinality(1 .. quota) <= Cardinality(Others)
    BY <1>2, <1>4, FS_Injection
  <1>7. Cardinality(Others) \in Nat
    BY <1>2, FS_CardinalityType
  <1> QED
    BY <1>1, <1>5, <1>6, <1>7

\* Without resent commands no request loses its slot to a race or to another key:
\* the whole quota of its window went to the requests counted before it.
THEOREM RefusalsAreEarned == Spec => []RefusedOnlyOverQuota
  <1> DEFINE Inv == IInv /\ SlotsInv /\ LargestInv /\ RefusedInv
  <1>1. Init => SlotsInv /\ LargestInv /\ RefusedInv
    BY LimiterAssumption DEF Init, SlotsInv, LargestInv, RefusedInv
  <1>2. Inv /\ [Next]_vars => SlotsInv' /\ LargestInv' /\ RefusedInv'
    BY SlotsStep, LargestStep, RefusedStep
  <1> QED
    BY <1>1, <1>2, LimiterInvariant, QuotaWentToOthers, PTL DEF Spec

-----------------------------------------------------------------------------
(* What a refused request is told.                                         *)

LEMMA RefusedInvariant == Spec => []RefusedInv
  <1>1. Init => RefusedInv
    BY LimiterAssumption DEF Init, RefusedInv
  <1> QED
    BY <1>1, RefusedStep, LimiterInvariant, PTL DEF Spec

\* A refused request was counted, so its own window had a counter: TTL finds
\* none only after that window closed.
LEMMA TtlStep ==
  ASSUME IInv, RefusedInv, OpenEndedOnlyByFault, [Next]_vars,
         NEW r \in Requests, retryAfter'[r] # retryAfter[r]
  PROVE  /\ retryAfter'[r] = NoKey => ownWindow[r] < window[KeyOf[r]]
         /\ retryAfter'[r] = NoExpiry => Opening(KeyOf[r]) \/ Faulted(KeyOf[r])
  <1> USE LimiterAssumption DEF IInv, TypeOK
  <1> DEFINE k == KeyOf[r]
  <1>1. Ttl(r)
    BY DEF Next, isRateLimited, Incr, IncrUnanswered, Expire, Ttl, Abort, WindowCloses, vars
  <1>2. /\ pc[r] = "ttl" /\ k \in ApiKeys
        /\ retryAfter'[r] = IF counter[k] = 0 THEN NoKey
                            ELSE IF ttl[k] THEN Seconds ELSE NoExpiry
    BY <1>1 DEF Ttl
  <1>3. ASSUME retryAfter'[r] = NoKey PROVE ownWindow[r] < window[k]
    <2>1. counter[k] = 0
      BY <1>2, <1>3 DEF NoKey, Seconds, NoExpiry
    <2>2. current[r] > 0
      BY <1>2 DEF RefusedInv
    <2> QED
      BY <2>1, <2>2 DEF CountsInv
  <1>4. ASSUME retryAfter'[r] = NoExpiry PROVE Opening(k) \/ Faulted(k)
    <2>1. counter[k] > 0 /\ ~ttl[k]
      BY <1>2, <1>4 DEF NoKey, Seconds, NoExpiry
    <2> QED
      BY <1>2, <2>1 DEF OpenEndedOnlyByFault
  <1> QED
    BY <1>3, <1>4

\* The answer of TTL fails a refused request only when its window closed after its
\* INCR, or when the live window has no expiry, not yet or by a fault.
THEOREM RetryAfterIsHonest == Spec => RetryAfterIsTold
  <1>1. IInv /\ RefusedInv /\ OpenEndedOnlyByFault /\ [Next]_vars =>
          [\A r \in Requests : retryAfter'[r] # retryAfter[r] =>
             LET k == KeyOf[r] IN
               /\ retryAfter'[r] = NoKey => ownWindow[r] < window[k]
               /\ retryAfter'[r] = NoExpiry => Opening(k) \/ Faulted(k)]_vars
    BY TtlStep
  <1> QED
    BY <1>1, LimiterInvariant, RefusedInvariant, OpenEndedNeedsFault, PTL
       DEF Spec, RetryAfterIsTold

-----------------------------------------------------------------------------
(* The three commands implement the one step of FixedWindow.               *)

\* The requests that hold a slot of the window of l.
Held(l) ==
  {r \in Requests : verdict[r] = "slot" /\ KeyOf[r] = l /\ ownWindow[r] = window[l]}

LEMMA HoldersAt ==
  /\ holders = [l \in ApiKeys |-> Held(l)]
  /\ holders' = [l \in ApiKeys |-> Held(l)']
  BY DEF holders, Held

\* The slots taken follow the counter up to the quota, and stay there.
LEMMA UsedAt ==
  /\ \A j \in ApiKeys :
       used[j] = IF counter[j] < RequestsPerMin[j] THEN counter[j] ELSE RequestsPerMin[j]
  /\ \A j \in ApiKeys :
       used'[j] = IF counter'[j] < RequestsPerMin[j] THEN counter'[j] ELSE RequestsPerMin[j]
  BY DEF used

LEMMA UsedChanges ==
  ASSUME NEW k \in ApiKeys, NEW n,
         \A j \in ApiKeys : used'[j] = IF j = k THEN n ELSE used[j]
  PROVE  used' = [used EXCEPT ![k] = n]
  BY DEF used

LEMMA UsedStays ==
  ASSUME \A j \in ApiKeys : used'[j] = used[j]
  PROVE  used' = used
  BY DEF used

\* The answered INCR is where the request is judged.
LEMMA IncrJudges ==
  ASSUME IInv, IInv', NEW r \in Requests, Incr(r)
  PROVE  Contract!Admit(r) \/ Contract!Refuse(r)
  <1> USE LimiterAssumption DEF IInv, TypeOK
  <1> DEFINE k == KeyOf[r]
             quota == RequestsPerMin[k]
             n == counter[k] + 1
  <1>1. /\ pc[r] = "incr" /\ k \in ApiKeys /\ quota \in Nat \ {0}
        /\ counter' = [counter EXCEPT ![k] = n] /\ window' = window
        /\ ownWindow' = [ownWindow EXCEPT ![r] = window[k]]
        /\ pc' = [pc EXCEPT ![r] = IF OpensWindow(n) THEN "expire" ELSE Verdict(k, n)]
        /\ counter[k] \in Nat /\ n \in Nat
    BY DEF Incr
  <1>2. verdict[r] = "none"
    BY <1>1 DEF verdict
  <1>3. CASE n <= quota
    <2>1. pc'[r] \in {"expire", "allowed"}
      BY <1>1, <1>3 DEF OpensWindow, Verdict, Exceeds
    <2>2. verdict' = [verdict EXCEPT ![r] = "slot"]
      BY <1>1, <2>1 DEF verdict
    <2>3. used[k] < quota /\ used' = [used EXCEPT ![k] = @ + 1]
      <3>1. used[k] = counter[k] /\ used[k] < quota
        BY <1>1, <1>3, UsedAt
      <3>2. \A j \in ApiKeys : used'[j] = IF j = k THEN used[k] + 1 ELSE used[j]
        BY <1>1, <1>3, <3>1, UsedAt
      <3> QED
        BY <1>1, <3>1, <3>2, UsedChanges
    <2>4. holders' = [holders EXCEPT ![k] = @ \cup {r}]
      <3>1. \A l \in ApiKeys : l # k => Held(l)' = Held(l)
        BY <1>1, <2>2 DEF verdict, Held
      <3>2. Held(k)' = Held(k) \cup {r}
        BY <1>1, <2>2 DEF verdict, Held
      <3> QED
        BY <1>1, <3>1, <3>2, HoldersAt
    <2> QED
      BY <1>2, <2>2, <2>3, <2>4 DEF Contract!Admit, Contract!Judge, Contract!UseSlot
  <1>4. CASE n > quota
    <2>1. pc'[r] = "ttl"
      BY <1>1, <1>4 DEF OpensWindow, Verdict, Exceeds
    <2>2. verdict' = [verdict EXCEPT ![r] = "refused"]
      BY <1>1, <2>1 DEF verdict
    <2>3. used[k] = quota /\ used' = used
      <3>1. used[k] = quota /\ \A j \in ApiKeys : used'[j] = used[j]
        BY <1>1, <1>4, UsedAt
      <3> QED
        BY <3>1, UsedStays
    <2>4. holders' = holders
      <3>1. \A q \in Requests :
              /\ q # r => verdict'[q] = verdict[q] /\ ownWindow'[q] = ownWindow[q]
              /\ verdict[r] # "slot" /\ verdict'[r] # "slot"
        BY <1>1, <1>2, <2>2 DEF verdict
      <3> QED
        BY <1>1, <3>1 DEF holders
    <2> QED
      BY <1>2, <2>2, <2>3, <2>4 DEF Contract!Refuse, Contract!Judge
  <1> QED
    BY <1>1, <1>3, <1>4

\* The INCR that was not answered takes a slot for nobody.
LEMMA UnansweredWastes ==
  ASSUME IInv, NEW r \in Requests, IncrUnanswered(r)
  PROVE  Contract!Waste(KeyOf[r]) \/ UNCHANGED Contract!vars
  <1> USE LimiterAssumption DEF IInv, TypeOK
  <1> DEFINE k == KeyOf[r]
             quota == RequestsPerMin[k]
             n == counter[k] + 1
  <1>1. /\ pc[r] = "incr" /\ k \in ApiKeys /\ quota \in Nat \ {0}
        /\ counter' = [counter EXCEPT ![k] = n] /\ UNCHANGED <<window, pc>>
        /\ counter[k] \in Nat /\ n \in Nat
        /\ ownWindow' = [ownWindow EXCEPT ![r] = window[k]]
    <2>1. counter' = [counter EXCEPT ![k] = counter[k] + 1]
      BY DEF IncrUnanswered
    <2>2. ownWindow' = [ownWindow EXCEPT ![r] = window[k]]
      BY DEF IncrUnanswered
    <2>3. pc[r] = "incr" /\ UNCHANGED <<window, pc>>
      BY DEF IncrUnanswered
    <2>4. k \in ApiKeys /\ quota \in Nat \ {0} /\ counter[k] \in Nat /\ n \in Nat
      OBVIOUS
    <2> QED
      BY <2>1, <2>2, <2>3, <2>4
  <1>2. verdict' = verdict /\ verdict[r] # "slot"
    BY <1>1 DEF verdict
  <1>3. holders' = holders
    <2>1. \A q \in Requests : verdict[q] = "slot" => q # r /\ ownWindow'[q] = ownWindow[q]
      BY <1>1, <1>2
    <2> QED
      BY <1>1, <1>2, <2>1 DEF holders
  <1>4. CASE n <= quota
    <2>1. used[k] = counter[k] /\ used[k] < quota
      BY <1>1, <1>4, UsedAt
    <2>2. \A j \in ApiKeys : used'[j] = IF j = k THEN used[k] + 1 ELSE used[j]
      BY <1>1, <1>4, <2>1, UsedAt
    <2>3. used' = [used EXCEPT ![k] = @ + 1]
      BY <1>1, <2>2, UsedChanges
    <2> QED
      BY <1>2, <1>3, <2>1, <2>3 DEF Contract!Waste, Contract!UseSlot
  <1>5. CASE n > quota
    <2>1. \A j \in ApiKeys : used'[j] = used[j]
      BY <1>1, <1>5, UsedAt
    <2> QED
      BY <1>2, <1>3, <2>1, UsedStays DEF Contract!vars
  <1> QED
    BY <1>1, <1>4, <1>5

\* A request that fails gives up its claim and not the slot.
LEMMA AbortDrops ==
  ASSUME IInv, NEW r \in Requests, Abort(r)
  PROVE  Contract!Drop(r)
  <1> USE LimiterAssumption DEF IInv, TypeOK
  <1> DEFINE k == KeyOf[r]
  <1>1. /\ pc[r] \in InFlight /\ pc' = [pc EXCEPT ![r] = "aborted"] /\ k \in ApiKeys
        /\ UNCHANGED <<counter, window, ownWindow>>
    BY DEF Abort
  <1>2. verdict[r] # "gone" /\ verdict' = [verdict EXCEPT ![r] = "gone"]
    BY <1>1 DEF verdict, InFlight
  <1>3. holders' = [holders EXCEPT ![k] = @ \ {r}]
    <2>1. \A l \in ApiKeys : l # k => Held(l)' = Held(l)
      BY <1>1, <1>2 DEF verdict, Held
    <2>2. Held(k)' = Held(k) \ {r}
      BY <1>1, <1>2 DEF verdict, Held
    <2> QED
      BY <1>1, <2>1, <2>2, HoldersAt
  <1>4. used' = used
    BY <1>1 DEF used
  <1> QED
    BY <1>2, <1>3, <1>4 DEF Contract!Drop

\* Nobody counted so far belongs to the window that opens next.
LEMMA ExpiryCloses ==
  ASSUME IInv, NEW k \in ApiKeys, WindowCloses(k)
  PROVE  Contract!Close(k)
  <1> USE LimiterAssumption DEF IInv, TypeOK
  <1>1. /\ counter[k] > 0 /\ counter' = [counter EXCEPT ![k] = 0]
        /\ window' = [window EXCEPT ![k] = @ + 1] /\ UNCHANGED <<pc, ownWindow>>
    BY DEF WindowCloses
  <1>2. used[k] > 0 /\ used' = [used EXCEPT ![k] = 0]
    <2>1. RequestsPerMin[k] \in Nat \ {0} /\ counter[k] \in Nat /\ 0 \in Nat
      OBVIOUS
    <2>2. used[k] > 0 /\ \A j \in ApiKeys : used'[j] = IF j = k THEN 0 ELSE used[j]
      BY <1>1, <2>1, UsedAt
    <2> QED
      BY <2>2, UsedChanges
  <1>3. verdict' = verdict
    BY <1>1 DEF verdict
  <1>4. holders' = [holders EXCEPT ![k] = {}]
    <2>1. \A l \in ApiKeys : l # k => Held(l)' = Held(l)
      BY <1>1, <1>3 DEF Held
    <2>2. Held(k)' = {}
      BY <1>1, <1>3 DEF CountsInv, Held
    <2> QED
      BY <2>1, <2>2, HoldersAt
  <1> QED
    BY <1>2, <1>3, <1>4 DEF Contract!Close

\* EXPIRE and TTL change no verdict: the opener of a window is within its quota.
LEMMA ExpireAndTtlStutter ==
  ASSUME IInv, NEW r \in Requests, Expire(r) \/ Ttl(r)
  PROVE  UNCHANGED Contract!vars
  <1> USE LimiterAssumption DEF IInv, TypeOK
  <1>1. UNCHANGED <<counter, window, ownWindow>>
    BY DEF Expire, Ttl
  <1>2. verdict' = verdict
    <2>1. CASE Expire(r)
      <3>1. pc[r] = "expire" /\ pc' = [pc EXCEPT ![r] = Verdict(KeyOf[r], current[r])]
        BY <2>1 DEF Expire
      <3>2. current[r] = 1 /\ RequestsPerMin[KeyOf[r]] \in Nat \ {0}
        BY <3>1 DEF VerdictInv
      <3>3. Verdict(KeyOf[r], current[r]) = "allowed"
        BY <3>2 DEF Verdict, Exceeds
      <3> QED
        BY <3>1, <3>3 DEF verdict
    <2>2. CASE Ttl(r)
      <3>1. pc[r] = "ttl" /\ pc' = [pc EXCEPT ![r] = "limited"]
        BY <2>2 DEF Ttl
      <3> QED
        BY <3>1 DEF verdict
    <2> QED
      BY <2>1, <2>2
  <1> QED
    BY <1>1, <1>2 DEF Contract!vars, used, holders

LEMMA ContractStep == IInv /\ IInv' /\ [Next]_vars => [Contract!Next]_(Contract!vars)
  <1> SUFFICES ASSUME IInv, IInv', [Next]_vars
               PROVE  Contract!Next \/ UNCHANGED Contract!vars
    OBVIOUS
  <1> USE LimiterAssumption
  <1>1. ASSUME NEW r \in Requests, Incr(r) PROVE Contract!Next
    BY <1>1, IncrJudges DEF Contract!Next
  <1>2. ASSUME NEW r \in Requests, IncrUnanswered(r)
        PROVE  Contract!Next \/ UNCHANGED Contract!vars
    BY <1>2, UnansweredWastes DEF Contract!Next
  <1>3. ASSUME NEW r \in Requests, Expire(r) \/ Ttl(r) PROVE UNCHANGED Contract!vars
    BY <1>3, ExpireAndTtlStutter
  <1>4. ASSUME NEW r \in Requests, Abort(r) PROVE Contract!Next
    BY <1>4, AbortDrops DEF Contract!Next
  <1>5. ASSUME NEW k \in ApiKeys, WindowCloses(k) PROVE Contract!Next
    BY <1>5, ExpiryCloses DEF Contract!Next
  <1>6. CASE UNCHANGED vars
    BY <1>6 DEF vars, Contract!vars, verdict, used, holders
  <1> QED
    BY <1>1, <1>2, <1>3, <1>4, <1>5, <1>6 DEF Next, isRateLimited

\* The limiter with its three commands, lost answers and crashes behaves like the
\* counter that judges each request in one step.
THEOREM LimiterMeetsContract == Spec => MeetsContract
  <1>1. Init => Contract!Init
    BY LimiterAssumption DEF Init, Contract!Init, verdict, used, holders
  <1> QED
    BY <1>1, ContractStep, LimiterInvariant, PTL DEF Spec, MeetsContract, Contract!Spec
=============================================================================
