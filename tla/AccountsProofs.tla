---------------------------- MODULE AccountsProofs ----------------------------
(***************************************************************************)
(* Theorems about Accounts for any number of requests, emails, passwords   *)
(* and faults.                                                             *)
(*                                                                         *)
(* Only one request moves in a step, and a request that was answered never *)
(* moves again (Moves): rows, bodies, tokens and owners are stable once    *)
(* they are there.  The unique index makes an email belong to one row      *)
(* (UniqueInv), and a request that passed a check still has what the check *)
(* found (RaceInv, RevokingInv, InertInv).                                 *)
(***************************************************************************)
EXTENDS Accounts, TLAPS

\* What a request has and has not done where it stands.
StageInv ==
  \A r \in Requests :
    /\ pc[r] # "done" => reply[r] = "none" /\ shown[r] = {} /\ r \notin rows
    /\ pc[r] = "new" => body[r] = NoRow
    /\ pc[r] \notin {"new", "done"} => body[r] # NoRow
    /\ r \in rows \/ shown[r] # {} \/ reply[r] \in {"created", "ok"} => body[r] # NoRow
    /\ reply[r] = "created" => r \in rows

\* The stages and the bodies of each kind of request.
KindInv ==
  /\ \A r \in Registrations :
       pc[r] \in {"new", "lookup", "insert", "done"} /\ body[r] \in Credentials \cup {NoRow}
  /\ \A l \in Logins :
       pc[l] \in {"new", "lookup", "done"} /\ body[l] \in Credentials \cup {NoRow}
  /\ \A s \in Sessions :
       pc[s] \in {"new", "query", "update", "done"} /\ body[s] \in SessionBodies \cup {NoRow}
  /\ \A c \in Calls :
       pc[c] \in {"new", "lookup", "guards", "query", "update", "done"}
         /\ body[c] \in CallBodies \cup {NoRow}

\* A token or key that is used was handed out.
ChainInv ==
  /\ \A s \in Sessions : body[s] # NoRow => pc[body[s].token] = "done"
  /\ \A c \in Calls : body[c] # NoRow => body[c].key \in rows

UniqueInv ==
  \A u, v \in rows \cap Registrations : body[u].email = body[v].email => u = v

\* A registration about to insert arrived before any row with its email.
RaceInv ==
  \A r \in Registrations :
    pc[r] = "insert" => \A u \in before[r] \cap Registrations : body[u].email # body[r].email

\* A login finds the row it could have known of.
KnownInv ==
  \A r \in Registrations, l \in Logins :
    r \in before[l] /\ Answered(l) /\ body[l] = body[r] => reply[l] = "ok" /\ found[l] = r

\* A request about to revoke found the row to be one of its own.
RevokingInv ==
  \A r \in Sessions \cup Calls :
    pc[r] = "update" => body[r].op = "revoke" /\ body[r].target \in Owned(r)

BaseInv == TypeOK /\ StageInv /\ KindInv /\ ChainInv /\ RevokingInv

-----------------------------------------------------------------------------
\* A step of request r.
Step(r) ==
  \/ Arrive(r) \/ Fault(r)
  \/ r \in Registrations /\ register(r)
  \/ r \in Logins /\ LogIn(r)
  \/ r \in Sessions /\ (TokenRefused(r) \/ session(r))
  \/ r \in Calls /\ call(r)

LEMMA NextIsStep == Next => \E r \in Requests : Step(r)
  BY DEF Next, Step, Requests

\* What a step of r can change.
Moves(r) ==
  /\ pc[r] # "done" /\ pc'[r] # "new"
  /\ \A q \in Requests : q # r =>
       /\ pc'[q] = pc[q] /\ body'[q] = body[q] /\ reply'[q] = reply[q]
       /\ shown'[q] = shown[q] /\ before'[q] = before[q] /\ gone'[q] = gone[q]
  /\ pc[r] # "new" => body'[r] = body[r] /\ before'[r] = before[r] /\ gone'[r] = gone[r]
  /\ \A l \in Logins : l # r => found'[l] = found[l]
  /\ faulty' \in {faulty, faulty \cup {r}}
  /\ rows' = rows \/ (rows' = rows \cup {r} /\ pc'[r] = "done")
  /\ \/ inactive' = inactive
     \/ pc[r] = "update" /\ pc'[r] = "done" /\ inactive' = inactive \cup {body[r].target}

LEMMA StepMoves ==
  ASSUME TypeOK, NEW r \in Requests, Step(r)
  PROVE  Moves(r)
  <1> USE DEF TypeOK, Moves, Goto, Answer, Insert, Deactivate, database, history
  <1>1. CASE Arrive(r)
    BY <1>1 DEF Arrive, MayArrive
  <1>2. CASE Fault(r)
    BY <1>2 DEF Fault, Write
  <1>3. CASE r \in Registrations /\ register(r)
    BY <1>3 DEF register, LookUpEmail, CreateUser
  <1>4. CASE r \in Logins /\ LogIn(r)
    BY <1>4 DEF LogIn
  <1>5. CASE r \in Sessions /\ (TokenRefused(r) \/ session(r))
    BY <1>5 DEF TokenRefused, MayArrive, session, me, Asks, CreateKey, ListKeys, FindKey, RevokeKey,
                Store, Show, Missing, FindOwned, SetInactive
  <1>6. CASE r \in Calls /\ call(r)
    BY <1>6 DEF call, LookUpKey, PassGuards, RegisterEndpoint, ListEndpoints, FindEndpoint,
                RevokeEndpoint, CreateTemplate, ListTemplates, ShowTemplate, Asks,
                Store, Show, Missing, FindOwned, SetInactive
  <1> QED
    BY <1>1, <1>2, <1>3, <1>4, <1>5, <1>6 DEF Step

LEMMA BaseInit == Init => BaseInv
  BY DEF Init, BaseInv, TypeOK, Steps, Replies, StageInv, KindInv, ChainInv,
            RevokingInv, Requests

\* The body a request arrives with.
LEMMA BodySent ==
  ASSUME BaseInv, NEW r \in Requests, NEW b \in Sendable(r)
  PROVE  /\ b # NoRow
         /\ r \in Registrations \cup Logins => b \in Credentials
         /\ r \in Sessions => b \in SessionBodies /\ b.token \in Logins /\ pc[b.token] = "done"
         /\ r \in Calls => b \in CallBodies /\ b.key \in rows
  <1> USE DEF Sendable
  <1>1. CASE r \in Registrations \cup Logins
    BY <1>1, AccountsAssumption, NoRowAssumption
  <1>2. CASE r \in Sessions
    <2>1. b \in SessionBodies /\ reply[b.token] = "ok"
      BY <1>2, AccountsAssumption
    <2>2. b.token \in Logins
      BY <2>1 DEF SessionBodies
    <2>3. pc[b.token] = "done"
      BY <2>1, <2>2 DEF BaseInv, StageInv, Requests
    <2> QED
      BY <1>2, <2>1, <2>2, <2>3, AccountsAssumption, NoRowAssumption
  <1>3. CASE r \in Calls
    <2>1. b \in CallBodies /\ reply[b.key] = "created"
      BY <1>3, AccountsAssumption
    <2>2. b.key \in Sessions
      BY <2>1 DEF CallBodies, EndpointBodies, TemplateBodies
    <2>3. b.key \in rows
      BY <2>1, <2>2 DEF BaseInv, StageInv, Requests
    <2> QED
      BY <1>3, <2>1, <2>2, <2>3, AccountsAssumption, NoRowAssumption
  <1> QED
    BY <1>1, <1>2, <1>3 DEF Requests

\* The kinds of step: a request arrives, fails, inserts its row, logs in, revokes,
\* reads rows, goes on to its next query, or is answered without more ado.
Inserts(r) ==
  \/ r \in Registrations /\ pc[r] = "insert" /\ UsersOf(body[r].email) = {} /\ Store(r)
  \/ r \in Sessions \cup Calls /\ pc[r] = "query" /\ body[r].op = "create" /\ Store(r)
Revokes(r) == r \in Sessions \cup Calls /\ SetInactive(r)
Reads(r) ==
  /\ r \in Sessions \cup Calls /\ pc[r] = "query"
  /\ \/ body[r].op = "list" /\ Owned(r) \ inactive \subseteq shown'[r]
     \/ body[r].op = "show"
  /\ \E X \in SUBSET Owned(r) : Show(r, X)
GoesOn(r) ==
  /\ \/ r \in Registrations /\ Goto(r, "insert") /\ UsersOf(body[r].email) = {}
     \/ r \in Sessions \cup Calls /\ Goto(r, "update") /\ pc[r] = "query"
          /\ body[r].op = "revoke" /\ body[r].target \in Owned(r)
     \/ r \in Calls /\ Goto(r, "guards") /\ KeyAccepted(r)
     \/ r \in Calls /\ Goto(r, "query") /\ pc[r] = "guards"
  /\ pc[r] \notin {"new", "done"}
  /\ UNCHANGED <<database, body, found, reply, shown, history, faulty>>
Ends(r) ==
  /\ \/ r \in Registrations /\ UsersOf(body[r].email) # {}
          /\ \/ pc[r] = "lookup" /\ Answer(r, "conflict")
             \/ pc[r] = "insert" /\ Answer(r, "error")
     \/ r \in Sessions /\ pc[r] # "new" /\ body[r].op = "me" /\ Answer(r, "ok")
     \/ r \in Sessions \cup Calls /\ Answer(r, "unauthorized")
     \/ r \in Sessions \cup Calls /\ pc[r] \in {"guards", "query"}
          /\ \E status \in {"missing", "limited"} : Answer(r, status)
  /\ UNCHANGED <<database, body, found, shown, history, faulty>>

LEMMA StepKinds ==
  ASSUME BaseInv, NEW r \in Requests, Step(r)
  PROVE  \/ Arrive(r) \/ Fault(r) \/ Inserts(r) \/ (r \in Logins /\ LogIn(r)) \/ Revokes(r)
         \/ Reads(r) \/ GoesOn(r) \/ Ends(r)
  <1>1. CASE r \in Registrations /\ register(r)
    BY <1>1 DEF register, LookUpEmail, CreateUser, Inserts, GoesOn, Ends, Store, database
  <1>2. CASE r \in Sessions /\ (TokenRefused(r) \/ session(r))
    BY <1>2 DEF TokenRefused, MayArrive, session, me, Asks, CreateKey, ListKeys, FindKey, RevokeKey,
                Missing, FindOwned, Inserts, Revokes, Reads, GoesOn, Ends, Show, BaseInv, TypeOK
  <1>3. CASE r \in Calls /\ call(r)
    BY <1>3 DEF call, LookUpKey, PassGuards, RegisterEndpoint, ListEndpoints, FindEndpoint,
                RevokeEndpoint, CreateTemplate, ListTemplates, ShowTemplate, Asks,
                Missing, FindOwned, Inserts, Revokes, Reads, GoesOn, Ends, Show, BaseInv, TypeOK
  <1> QED
    BY <1>1, <1>2, <1>3 DEF Step

LEMMA SubsetsGrow ==
  ASSUME NEW S, NEW T, S \subseteq T, NEW f \in [Requests -> SUBSET S]
  PROVE  f \in [Requests -> SUBSET T]
  OBVIOUS

LEMMA TypeStep ==
  ASSUME BaseInv, NEW r \in Requests, Step(r)
  PROVE  TypeOK'
  <1> USE DEF BaseInv, TypeOK, Goto, Answer, Deactivate, database, history, Steps, Replies
  <1>1. CASE Arrive(r)
    <2>1. PICK b \in Sendable(r) : body' = [body EXCEPT ![r] = b]
      BY <1>1 DEF Arrive
    <2>2. b \in Credentials \cup SessionBodies \cup CallBodies
      BY BodySent DEF Requests
    <2> QED
      BY <1>1, <2>1, <2>2 DEF Arrive, MayArrive
  <1>2. ASSUME r \notin Logins, Insert(r), UNCHANGED <<shown, before, gone>>
        PROVE  /\ rows' \subseteq Requests \ Logins /\ inactive' \subseteq rows'
               /\ shown' \in [Requests -> SUBSET rows'] /\ before' \in [Requests -> SUBSET rows']
               /\ gone' \in [Requests -> SUBSET inactive']
    BY <1>2, SubsetsGrow DEF Insert
  <1>3. ASSUME pc[r] = "update", Deactivate(r), UNCHANGED <<shown, before, gone>>
        PROVE  /\ rows' \subseteq Requests \ Logins /\ inactive' \subseteq rows'
               /\ shown' \in [Requests -> SUBSET rows'] /\ before' \in [Requests -> SUBSET rows']
               /\ gone' \in [Requests -> SUBSET inactive']
    <2>1. r \in Sessions \cup Calls
      BY <1>3 DEF KindInv, Requests
    <2>2. body[r].target \in rows
      BY <1>3, <2>1 DEF RevokingInv, Owned
    <2> QED
      BY <1>3, <2>2, SubsetsGrow
  <1>4. CASE Fault(r)
    <2>1. pc[r] \in {"insert", "query"} => r \notin Logins
      BY DEF KindInv
    <2>2. /\ rows' \subseteq Requests \ Logins /\ inactive' \subseteq rows'
          /\ shown' \in [Requests -> SUBSET rows'] /\ before' \in [Requests -> SUBSET rows']
          /\ gone' \in [Requests -> SUBSET inactive']
      BY <1>2, <1>3, <1>4, <2>1 DEF Fault, Write
    <2> QED
      BY <1>4, <2>2 DEF Fault
  <1>5. CASE Inserts(r)
    <2>1. r \notin Logins
      BY <1>5, AccountsAssumption DEF Inserts
    <2> QED
      BY <1>2, <1>5, <2>1 DEF Inserts, Store
  <1>6. CASE r \in Logins /\ LogIn(r)
    BY <1>6 DEF LogIn, UsersOf
  <1>7. CASE Revokes(r)
    BY <1>3, <1>7 DEF Revokes, SetInactive
  <1>8. CASE Reads(r)
    BY <1>8 DEF Reads, Show, Owned
  <1>9. CASE GoesOn(r) \/ Ends(r)
    BY <1>9 DEF GoesOn, Ends
  <1> QED
    BY <1>1, <1>4, <1>5, <1>6, <1>7, <1>8, <1>9, StepKinds

LEMMA StageStep ==
  ASSUME BaseInv, NEW r \in Requests, Step(r)
  PROVE  StageInv'
  <1>1. TypeOK /\ StageInv /\ Moves(r)
    BY StepMoves DEF BaseInv
  <1>2. ASSUME NEW q \in Requests
        PROVE  /\ pc'[q] # "done" => reply'[q] = "none" /\ shown'[q] = {} /\ q \notin rows'
               /\ pc'[q] = "new" => body'[q] = NoRow
               /\ pc'[q] \notin {"new", "done"} => body'[q] # NoRow
               /\ q \in rows' \/ shown'[q] # {} \/ reply'[q] \in {"created", "ok"} => body'[q] # NoRow
               /\ reply'[q] = "created" => q \in rows'
    <2>1. CASE q # r
      BY <1>1, <2>1 DEF Moves, StageInv
    <2>2. CASE q = r
      <3> USE <1>1, <2>2 DEF StageInv, Moves, TypeOK, Goto, Answer, database, history
      <3>1. CASE Arrive(r)
        BY <3>1, BodySent DEF Arrive
      <3>2. CASE Fault(r)
        BY <3>2 DEF Fault
      <3>3. CASE Inserts(r)
        BY <3>3 DEF Inserts, Store, Insert
      <3>4. CASE r \in Logins /\ LogIn(r)
        BY <3>4 DEF LogIn
      <3>5. CASE Revokes(r)
        BY <3>5 DEF Revokes, SetInactive
      <3>6. CASE Reads(r)
        BY <3>6 DEF Reads, Show
      <3>7. CASE GoesOn(r)
        BY <3>7 DEF GoesOn
      <3>8. CASE Ends(r)
        BY <3>8 DEF Ends
      <3> QED
        BY <3>1, <3>2, <3>3, <3>4, <3>5, <3>6, <3>7, <3>8, StepKinds
    <2> QED
      BY <2>1, <2>2
  <1> QED
    BY <1>2 DEF StageInv

LEMMA KindStep ==
  ASSUME BaseInv, NEW r \in Requests, Step(r)
  PROVE  KindInv'
  <1>1. TypeOK /\ KindInv /\ Moves(r)
    BY StepMoves DEF BaseInv
  <1> USE <1>1 DEF KindInv, Moves, TypeOK, Goto, Answer, history
  <1>2. CASE Arrive(r)
    <2>1. PICK b \in Sendable(r) : body' = [body EXCEPT ![r] = b]
      BY <1>2 DEF Arrive
    <2>2. pc' = [pc EXCEPT ![r] = IF r \in Sessions THEN "query" ELSE "lookup"]
      BY <1>2 DEF Arrive
    <2> QED
      BY <2>1, <2>2, BodySent, AccountsAssumption DEF Requests
  <1>3. ASSUME pc[r] # "new", pc'[r] = "done" PROVE KindInv'
    BY <1>3 DEF Requests
  <1>4. CASE Fault(r)
    BY <1>3, <1>4 DEF Fault
  <1>5. CASE Inserts(r)
    BY <1>3, <1>5 DEF Inserts, Store
  <1>6. CASE r \in Logins /\ LogIn(r)
    BY <1>3, <1>6 DEF LogIn
  <1>7. CASE Revokes(r)
    BY <1>3, <1>7 DEF Revokes, SetInactive
  <1>8. CASE Reads(r)
    BY <1>3, <1>8 DEF Reads, Show
  <1>9. CASE GoesOn(r)
    BY <1>9, AccountsAssumption DEF GoesOn, Requests
  <1>10. CASE Ends(r)
    BY <1>10 DEF Ends, Requests
  <1> QED
    BY <1>2, <1>4, <1>5, <1>6, <1>7, <1>8, <1>9, <1>10, StepKinds

LEMMA ChainStep ==
  ASSUME BaseInv, NEW r \in Requests, Step(r)
  PROVE  ChainInv'
  <1>1. TypeOK /\ StageInv /\ KindInv /\ ChainInv /\ Moves(r)
    BY StepMoves DEF BaseInv
  <1>2. \A s \in Sessions : body[s] # NoRow => body[s].token \in Logins
    BY <1>1 DEF KindInv, SessionBodies
  <1>3. \A q \in Requests : pc[q] = "done" => pc'[q] = "done"
    BY <1>1 DEF Moves
  <1>4. ASSUME NEW q \in Sessions \cup Calls, body'[q] # NoRow, body[q] = NoRow
        PROVE  /\ q \in Sessions => pc'[body'[q].token] = "done"
               /\ q \in Calls => body'[q].key \in rows'
    <2>1. q = r /\ pc[r] = "new"
      BY <1>1, <1>4 DEF Moves, Requests
    <2>2. Arrive(r)
      BY <1>1, <1>4, <2>1, StepKinds
         DEF Fault, Inserts, Store, LogIn, Revokes, SetInactive, Reads, Show, GoesOn, Ends
    <2>3. PICK b \in Sendable(r) : body' = [body EXCEPT ![r] = b]
      BY <2>2 DEF Arrive
    <2>4. body'[q] = b
      BY <1>1, <2>1, <2>3 DEF TypeOK
    <2> QED
      BY <1>1, <1>3, <2>1, <2>4, BodySent DEF Moves, Requests
  <1>5. ASSUME NEW q \in Sessions \cup Calls, body[q] # NoRow
        PROVE  body'[q] = body[q]
    BY <1>1, <1>5 DEF Moves, StageInv, Requests
  <1>6. \A s \in Sessions : body'[s] # NoRow => pc'[body'[s].token] = "done"
    BY <1>1, <1>2, <1>3, <1>4, <1>5 DEF ChainInv, Requests
  <1>7. \A c \in Calls : body'[c] # NoRow => body'[c].key \in rows'
    BY <1>1, <1>4, <1>5 DEF ChainInv, Moves
  <1> QED
    BY <1>6, <1>7 DEF ChainInv

\* Who owns a row, and for whom a request speaks, never changes.
LEMMA OwnersStay ==
  ASSUME BaseInv, NEW r \in Requests, Step(r), NEW q \in Sessions \cup Calls, body[q] # NoRow
  PROVE  body'[q] = body[q] /\ Owner(q)' = Owner(q)
  <1>1. TypeOK /\ StageInv /\ KindInv /\ ChainInv /\ Moves(r)
    BY StepMoves DEF BaseInv
  <1>2. \A x \in Sessions \cup Calls : body[x] # NoRow => body'[x] = body[x]
    BY <1>1 DEF Moves, StageInv, Requests
  <1>3. ASSUME NEW s \in Sessions, body[s] # NoRow
        PROVE  KeyOwner(s)' = KeyOwner(s)
    <2>1. body[s].token \in Logins /\ pc[body[s].token] = "done"
      BY <1>1, <1>3 DEF KindInv, ChainInv, SessionBodies
    <2>2. found'[body[s].token] = found[body[s].token]
      BY <1>1, <2>1 DEF Moves
    <2> QED
      BY <1>2, <1>3, <2>2 DEF KeyOwner
  <1>4. CASE q \in Sessions
    <2>1. body[q].kind = "key"
      BY <1>1, <1>4 DEF KindInv, SessionBodies
    <2> QED
      BY <1>2, <1>3, <1>4, <2>1 DEF Owner
  <1>5. CASE q \in Calls
    <2>1. /\ body[q].kind \in {"endpoint", "template"} /\ body[q].key \in Sessions
          /\ body[body[q].key] # NoRow
      BY <1>1, <1>5 DEF KindInv, ChainInv, StageInv, CallBodies, EndpointBodies, TemplateBodies,
                        Requests
    <2>2. KeyOwner(body[q].key)' = KeyOwner(body[q].key)
      BY <1>2, <1>3, <1>5, <2>1
    <2> QED
      BY <1>2, <1>5, <2>1, <2>2 DEF Owner
  <1> QED
    BY <1>2, <1>4, <1>5

LEMMA OwnedStays ==
  ASSUME BaseInv, NEW r \in Requests, Step(r), NEW q \in Sessions \cup Calls, body[q] # NoRow
  PROVE  Owned(q) \subseteq Owned(q)' /\ Owned(q)' \cap rows \subseteq Owned(q)
  <1>1. TypeOK /\ StageInv /\ Moves(r)
    BY StepMoves DEF BaseInv
  <1>2. \A x \in rows \ Registrations :
          x \in rows' /\ body'[x] = body[x] /\ Owner(x)' = Owner(x)
    BY <1>1, OwnersStay DEF TypeOK, StageInv, Moves, Requests
  <1>3. body'[q] = body[q] /\ Owner(q)' = Owner(q)
    BY OwnersStay
  <1> QED
    BY <1>2, <1>3 DEF Owned

LEMMA RevokingStep ==
  ASSUME BaseInv, NEW r \in Requests, Step(r)
  PROVE  RevokingInv'
  <1>1. TypeOK /\ StageInv /\ RevokingInv /\ Moves(r)
    BY StepMoves DEF BaseInv
  <1>2. ASSUME NEW q \in Sessions \cup Calls, pc'[q] = "update"
        PROVE  body'[q].op = "revoke" /\ body'[q].target \in Owned(q)'
    <2>1. body[q].op = "revoke" /\ body[q].target \in Owned(q) /\ body[q] # NoRow
      <3>1. CASE q # r
        BY <1>1, <1>2, <3>1 DEF Moves, RevokingInv, StageInv, Requests
      <3>2. CASE q = r
        <4> USE <1>1, <1>2, <3>2 DEF TypeOK, Goto, Answer
        <4>1. GoesOn(r)
          BY StepKinds DEF Arrive, Fault, Inserts, Store, LogIn, Revokes, SetInactive, Reads, Show, Ends
        <4> QED
          BY <4>1, AccountsAssumption DEF GoesOn, StageInv
      <3> QED
        BY <3>1, <3>2
    <2> QED
      BY <2>1, OwnersStay, OwnedStays
  <1> QED
    BY <1>2 DEF RevokingInv

LEMMA BaseStep == BaseInv /\ [Next]_vars => BaseInv'
  <1> SUFFICES ASSUME BaseInv, [Next]_vars PROVE BaseInv'
    OBVIOUS
  <1>1. CASE Next
    BY <1>1, NextIsStep, TypeStep, StageStep, KindStep, ChainStep, RevokingStep DEF BaseInv
  <1>2. CASE UNCHANGED vars
    <2> USE <1>2 DEF vars, database, history
    <2>1. TypeOK' /\ StageInv' /\ KindInv' /\ ChainInv'
      BY DEF BaseInv, TypeOK, StageInv, KindInv, ChainInv
    <2>2. \A q : Owner(q)' = Owner(q)
      BY DEF Owner, KeyOwner
    <2>3. \A q : Owned(q)' = Owned(q)
      BY <2>2 DEF Owned
    <2>4. RevokingInv'
      BY <2>3 DEF BaseInv, RevokingInv
    <2> QED
      BY <2>1, <2>4 DEF BaseInv
  <1> QED
    BY <1>1, <1>2

-----------------------------------------------------------------------------
\* Types, for any number of requests of each kind.
THEOREM AccountsTypeCorrect == Spec => []TypeOK
  <1>1. BaseInv => TypeOK
    BY DEF BaseInv
  <1> QED
    BY BaseInit, BaseStep, <1>1, PTL DEF Spec

-----------------------------------------------------------------------------
(* Registrations and logins.                                               *)

AccountInv == UniqueInv /\ RaceInv /\ KnownInv /\ LateRegistrationConflicts

LEMMA RowsStay ==
  ASSUME BaseInv, NEW r \in Requests, Step(r), NEW u \in rows
  PROVE  u # r /\ u \in rows' /\ body'[u] = body[u]
  BY StepMoves DEF BaseInv, TypeOK, StageInv, Moves

LEMMA UsersStay ==
  ASSUME BaseInv, NEW r \in Requests, Step(r), NEW email
  PROVE  UsersOf(email) \subseteq UsersOf(email)' /\ UsersOf(email)' \cap rows \subseteq UsersOf(email)
  BY RowsStay DEF UsersOf

LEMMA UniqueStep ==
  ASSUME BaseInv, UniqueInv, NEW r \in Requests, Step(r)
  PROVE  UniqueInv'
  <1>1. TypeOK /\ StageInv /\ Moves(r)
    BY StepMoves DEF BaseInv
  <1>2. CASE rows' \cap Registrations = rows \cap Registrations
    BY <1>2, RowsStay DEF UniqueInv
  <1>3. CASE rows' = rows \cup {r} /\ r \notin rows /\ r \in Registrations
    <2>1. UsersOf(body[r].email) = {} /\ body'[r] = body[r]
      <3> USE <1>1, <1>3, AccountsAssumption
              DEF Arrive, Fault, Write, Insert, Deactivate, Inserts, Store, LogIn, Revokes, SetInactive,
                  Reads, Show, GoesOn, Ends, database, BaseInv, KindInv
      <3>1. Fault(r) \/ Inserts(r)
        BY StepKinds
      <3> QED
        BY <3>1
    <2> QED
      BY <1>3, <2>1, RowsStay DEF UniqueInv, UsersOf
  <1> QED
    BY <1>1, <1>2, <1>3 DEF Moves

LEMMA RaceStep ==
  ASSUME BaseInv, RaceInv, NEW r \in Requests, Step(r)
  PROVE  RaceInv'
  <1>1. TypeOK /\ StageInv /\ KindInv /\ Moves(r)
    BY StepMoves DEF BaseInv
  <1>2. ASSUME NEW q \in Registrations, pc'[q] = "insert", NEW u \in before'[q] \cap Registrations
        PROVE  body'[u].email # body'[q].email
    <2>1. before'[q] = before[q] /\ body'[q] = body[q] /\ u \in rows /\ body'[u] = body[u]
      <3>1. pc[q] # "new"
        BY <1>1, <1>2, StepKinds, AccountsAssumption
           DEF Moves, Arrive, Goto, TypeOK, Requests, GoesOn, Fault, Inserts, Store, LogIn, Revokes, SetInactive,
               Reads, Show, Ends, Answer
      <3>2. before'[q] = before[q] /\ body'[q] = body[q]
        BY <1>1, <3>1 DEF Moves, Requests
      <3> QED
        BY <1>1, <1>2, <3>2, RowsStay DEF TypeOK, Requests
    <2>2. CASE q # r
      BY <1>1, <1>2, <2>1, <2>2 DEF Moves, RaceInv, Requests
    <2>3. CASE q = r
      <3>1. GoesOn(r)
        BY <1>1, <1>2, <2>3, StepKinds, AccountsAssumption
           DEF TypeOK, Goto, Answer, Arrive, Fault, Inserts, Store, LogIn, Revokes, SetInactive, Reads, Show,
               Ends
      <3>2. UsersOf(body[r].email) = {}
        BY <1>1, <1>2, <2>3, <3>1, AccountsAssumption DEF GoesOn, Goto, TypeOK
      <3> QED
        BY <1>2, <2>1, <2>3, <3>2 DEF UsersOf
    <2> QED
      BY <2>2, <2>3
  <1> QED
    BY <1>2 DEF RaceInv

LEMMA KnownStep ==
  ASSUME BaseInv, UniqueInv, KnownInv, NEW r \in Requests, Step(r)
  PROVE  KnownInv'
  <1>1. TypeOK /\ StageInv /\ KindInv /\ Moves(r)
    BY StepMoves DEF BaseInv
  <1>2. ASSUME NEW u \in Registrations, NEW l \in Logins, u \in before'[l], Answered(l)',
               body'[l] = body'[u]
        PROVE  reply'[l] = "ok" /\ found'[l] = u
    <2>1. pc[l] # "new"
      BY <1>1, <1>2, StepKinds, AccountsAssumption
         DEF Moves, Arrive, Goto, TypeOK, Requests, GoesOn, Fault, Inserts, Store, LogIn, Revokes, SetInactive,
             Reads, Show, Ends, Answer, Answered
    <2>2. before'[l] = before[l] /\ body'[l] = body[l]
      BY <1>1, <2>1 DEF Moves, Requests
    <2>3. u \in rows /\ body[l] = body[u]
      BY <1>1, <1>2, <2>2, RowsStay DEF TypeOK, Requests
    <2>4. CASE l # r
      BY <1>1, <1>2, <2>2, <2>3, <2>4 DEF Moves, KnownInv, Answered, Requests
    <2>5. CASE l = r
      <3>1. LogIn(r)
        BY <1>1, <1>2, <2>1, <2>5, StepKinds, AccountsAssumption
           DEF Answered, Arrive, MayArrive, Fault, Inserts, Revokes, Reads, GoesOn, Ends, TypeOK
      <3>2. u \in UsersOf(body[l].email)
        BY <2>3 DEF UsersOf
      <3>3. \A v \in UsersOf(body[l].email) : v = u
        BY <2>3 DEF UsersOf, UniqueInv
      <3> QED
        BY <1>1, <2>3, <2>5, <3>1, <3>2, <3>3 DEF LogIn, Answer, TypeOK
    <2> QED
      BY <2>4, <2>5
  <1> QED
    BY <1>2 DEF KnownInv

LEMMA LateStep ==
  ASSUME BaseInv, RaceInv, LateRegistrationConflicts, NEW r \in Requests, Step(r)
  PROVE  LateRegistrationConflicts'
  <1>1. TypeOK /\ StageInv /\ KindInv /\ Moves(r)
    BY StepMoves DEF BaseInv
  <1>2. ASSUME NEW q \in Registrations, Answered(q)',
               NEW taken, taken = (UsersOf(body[q].email) \ {q})'
        PROVE  /\ taken \cap before'[q] # {} => reply'[q] = "conflict"
               /\ reply'[q] = "error" => taken # {} /\ taken \cap before'[q] = {}
    <2>1. pc[q] # "new"
      BY <1>1, <1>2, StepKinds, AccountsAssumption
         DEF Moves, Arrive, Goto, TypeOK, Requests, GoesOn, Fault, Inserts, Store, LogIn, Revokes, SetInactive,
             Reads, Show, Ends, Answer, Answered
    <2>2. before'[q] = before[q] /\ body'[q] = body[q] /\ before[q] \subseteq rows
      BY <1>1, <2>1 DEF Moves, TypeOK, Requests
    <2>3. DEFINE old == UsersOf(body[q].email) \ {q}
    <2>4. old \subseteq taken /\ taken \cap before'[q] = old \cap before[q]
      BY <1>2, <2>2, UsersStay
    <2>5. CASE q # r
      <3>1. Answered(q) /\ reply'[q] = reply[q]
        BY <1>1, <1>2, <2>5 DEF Moves, Answered, Requests
      <3> QED
        BY <2>4, <3>1 DEF LateRegistrationConflicts
    <2>6. CASE q = r
      <3>1. Inserts(r) \/ Ends(r)
        BY <1>1, <1>2, <2>1, <2>6, StepKinds, AccountsAssumption
           DEF Answered, Arrive, MayArrive, Fault, Revokes, Reads, GoesOn, Goto, TypeOK
      <3>2. CASE Inserts(r)
        BY <1>1, <2>4, <2>6, <3>2, AccountsAssumption DEF Inserts, Store, Answer, TypeOK
      <3>3. CASE Ends(r)
        <4>1. \/ reply'[r] = "conflict"
              \/ reply'[r] = "error" /\ pc[r] = "insert" /\ UsersOf(body[r].email) # {}
          BY <1>1, <2>6, <3>3, AccountsAssumption DEF Ends, Answer, TypeOK
        <4>2. UsersOf(body[r].email) # {} => old # {}
          BY <1>1, <1>2, <2>1, <2>6 DEF StageInv, Moves, UsersOf
        <4>3. pc[r] = "insert" => old \cap before[r] = {}
          BY <2>6 DEF RaceInv, UsersOf
        <4> QED
          BY <2>4, <2>6, <4>1, <4>2, <4>3
      <3> QED
        BY <3>1, <3>2, <3>3
    <2> QED
      BY <2>5, <2>6
  <1> QED
    BY <1>2 DEF LateRegistrationConflicts

LEMMA AccountInit == Init => AccountInv
  BY DEF Init, AccountInv, UniqueInv, RaceInv, KnownInv, LateRegistrationConflicts, Answered, Requests

LEMMA AccountStep == BaseInv /\ AccountInv /\ [Next]_vars => AccountInv'
  <1> SUFFICES ASSUME BaseInv, AccountInv, [Next]_vars PROVE AccountInv'
    OBVIOUS
  <1>1. CASE Next
    BY <1>1, NextIsStep, UniqueStep, RaceStep, KnownStep, LateStep DEF AccountInv
  <1>2. CASE UNCHANGED vars
    <2> USE <1>2 DEF vars, database, history, AccountInv
    <2>1. \A email : UsersOf(email)' = UsersOf(email)
      BY DEF UsersOf
    <2>2. UniqueInv' /\ RaceInv' /\ KnownInv'
      BY DEF UniqueInv, RaceInv, KnownInv, Answered
    <2>3. LateRegistrationConflicts'
      BY <2>1 DEF LateRegistrationConflicts, Answered
    <2> QED
      BY <2>2, <2>3
  <1> QED
    BY <1>1, <1>2

\* A registration that comes after its email was taken is told so, and only one
\* that lost the race between lookup and insert gets a bare error for it.
THEOREM LateRegistrationsConflict == Spec => []LateRegistrationConflicts
  <1>1. AccountInv => LateRegistrationConflicts
    BY DEF AccountInv
  <1> QED
    BY BaseInit, BaseStep, AccountInit, AccountStep, <1>1, PTL DEF Spec

\* A registration that was answered as created names the account of its email
\* for ever: every later login with its password gets a token for it.
THEOREM RegisteredLogsIn == Spec => []RegisteredCanLogIn
  <1>1. AccountInv => RegisteredCanLogIn
    BY DEF AccountInv, KnownInv, RegisteredCanLogIn
  <1> QED
    BY BaseInit, BaseStep, AccountInit, AccountStep, <1>1, PTL DEF Spec

-----------------------------------------------------------------------------
(* Revoked keys.                                                           *)

\* A call that passed the guard did not arrive after its key was revoked.
InertInv ==
  \A c \in Calls : pc[c] \in {"guards", "query", "update"} => body[c].key \notin gone[c]

\* The two parts of RevokedKeyIsInert.
TurnedAwayInv ==
  \A c \in Calls : body[c] # NoRow /\ body[c].key \in gone[c] =>
    /\ reply[c] \in {"none", "unauthorized", "error"}
    /\ c \notin rows /\ shown[c] = {}
RevokedInTimeInv ==
  \A x \in inactive \cap Calls :
    \E c \in Calls : AsksToRevoke(c, x) /\ body[c].key = body[x].key /\ body[c].key \notin gone[c]

LEMMA InertStep ==
  ASSUME BaseInv, InertInv, TurnedAwayInv, NEW r \in Requests, Step(r)
  PROVE  InertInv' /\ TurnedAwayInv'
  <1>1. TypeOK /\ StageInv /\ KindInv /\ Moves(r)
    BY StepMoves DEF BaseInv
  <1>2. ASSUME NEW c \in Calls
        PROVE  /\ pc'[c] \in {"guards", "query", "update"} => body'[c].key \notin gone'[c]
               /\ body'[c] # NoRow /\ body'[c].key \in gone'[c] =>
                    /\ reply'[c] \in {"none", "unauthorized", "error"}
                    /\ c \notin rows' /\ shown'[c] = {}
    <2>1. CASE c # r
      BY <1>1, <1>2, <2>1 DEF Moves, InertInv, TurnedAwayInv, Requests
    <2>2. CASE c = r
      <3> USE <1>1, <2>2, AccountsAssumption
              DEF Moves, TypeOK, StageInv, KindInv, InertInv, Goto, Answer, Requests, database, history
      <3>1. CASE Arrive(r)
        BY <3>1 DEF Arrive, MayArrive
      <3>2. CASE Fault(r)
        BY <3>2 DEF Fault, Write, Insert, Deactivate
      <3>3. CASE Inserts(r)
        BY <3>3 DEF Inserts, Store, Insert
      <3>4. CASE Revokes(r)
        BY <3>4 DEF Revokes, SetInactive
      <3>5. CASE Reads(r)
        BY <3>5 DEF Reads, Show
      <3>6. CASE GoesOn(r)
        BY <3>6 DEF GoesOn, KeyAccepted
      <3>7. CASE Ends(r)
        BY <3>7 DEF Ends
      <3> QED
        BY <3>1, <3>2, <3>3, <3>4, <3>5, <3>6, <3>7, StepKinds
    <2> QED
      BY <2>1, <2>2
  <1> QED
    BY <1>2 DEF InertInv, TurnedAwayInv

\* Whoever revokes the row of a call is a call with the same key.
LEMMA EndpointOwners ==
  ASSUME BaseInv, NEW r \in Sessions \cup Calls, body[r] # NoRow, body[r].op = "revoke",
         NEW x \in Owned(r), x \in Calls
  PROVE  r \in Calls /\ body[r].key = body[x].key
  <1>1. TypeOK /\ StageInv /\ KindInv
    BY DEF BaseInv
  <1>2. body[x] # NoRow /\ body[x].kind = body[r].kind /\ Owner(x) = Owner(r)
    BY <1>1 DEF Owned, StageInv, TypeOK, Requests
  <1>3. body[x].kind \in {"endpoint", "template"}
    BY <1>1, <1>2 DEF KindInv, CallBodies, EndpointBodies, TemplateBodies
  <1>4. r \in Calls
    BY <1>1, <1>2, <1>3 DEF KindInv, SessionBodies
  <1>5. body[r].kind = "endpoint"
    BY <1>1, <1>4 DEF KindInv, CallBodies, EndpointBodies, TemplateBodies
  <1> QED
    BY <1>2, <1>4, <1>5 DEF Owner

\* The call that makes an endpoint inactive passed the guard, so its key was not
\* revoked when it arrived; its body and its arrival are settled by then.
LEMMA RevokedInTimeStep ==
  ASSUME BaseInv, InertInv, RevokedInTimeInv, NEW r \in Requests, Step(r)
  PROVE  RevokedInTimeInv'
  <1>1. TypeOK /\ StageInv /\ KindInv /\ RevokingInv /\ Moves(r)
    BY StepMoves DEF BaseInv
  <1>2. ASSUME NEW x \in inactive', x \in Calls
        PROVE  \E c \in Calls : /\ AsksToRevoke(c, x)' /\ body'[c].key = body'[x].key
                                /\ body'[c].key \notin gone'[c]
    <2>1. PICK c \in Calls :
            AsksToRevoke(c, x) /\ body[c].key = body[x].key /\ body[c].key \notin gone[c]
      <3>1. CASE x \in inactive
        BY <1>2, <3>1 DEF RevokedInTimeInv
      <3>2. CASE pc[r] = "update" /\ x = body[r].target
        <4>1. r \in Sessions \cup Calls /\ body[r] # NoRow
          BY <1>1, <3>2 DEF KindInv, StageInv, Requests
        <4>2. body[r].op = "revoke" /\ x \in Owned(r)
          BY <1>1, <3>2, <4>1 DEF RevokingInv
        <4>3. r \in Calls /\ body[r].key = body[x].key
          BY <1>2, <4>1, <4>2, EndpointOwners
        <4> QED
          BY <3>2, <4>1, <4>2, <4>3 DEF AsksToRevoke, InertInv
      <3> QED
        BY <1>1, <1>2, <3>1, <3>2 DEF Moves
    <2>2. body[c] # NoRow /\ x \in Owned(c)
      BY <2>1 DEF AsksToRevoke
    <2>3. body'[c] = body[c] /\ x \in Owned(c)'
      BY <2>2, OwnersStay, OwnedStays
    <2>4. body[x] # NoRow /\ body'[x] = body[x]
      BY <1>1, <1>2, <2>2, OwnersStay DEF Owned, StageInv, TypeOK, Requests
    <2>5. gone'[c] = gone[c]
      BY <1>1, <2>2 DEF Moves, StageInv, Requests
    <2> QED
      BY <2>1, <2>3, <2>4, <2>5 DEF AsksToRevoke
  <1> QED
    BY <1>2 DEF RevokedInTimeInv

LEMMA InertInit == Init => InertInv /\ TurnedAwayInv /\ RevokedInTimeInv
  BY DEF Init, InertInv, TurnedAwayInv, RevokedInTimeInv, Requests

\* A key that was revoked before a call arrives opens nothing to that call, and
\* so its endpoints are out of reach for ever.
THEOREM RevokedKeysAreInert == Spec => []RevokedKeyIsInert
  <1> DEFINE Parts == InertInv /\ TurnedAwayInv /\ RevokedInTimeInv
  <1>1. BaseInv /\ Parts /\ [Next]_vars => Parts'
    <2> SUFFICES ASSUME BaseInv, Parts, [Next]_vars PROVE Parts'
      OBVIOUS
    <2>1. CASE Next
      BY <2>1, NextIsStep, InertStep, RevokedInTimeStep
    <2>2. CASE UNCHANGED vars
      <3> USE <2>2 DEF vars, database, history
      <3>1. \A q : Owner(q)' = Owner(q)
        BY DEF Owner, KeyOwner
      <3>2. \A q : Owned(q)' = Owned(q)
        BY <3>1 DEF Owned
      <3> QED
        BY <3>2 DEF InertInv, TurnedAwayInv, RevokedInTimeInv, AsksToRevoke
    <2> QED
      BY <2>1, <2>2
  <1>2. Parts => RevokedKeyIsInert
    BY DEF TurnedAwayInv, RevokedInTimeInv, RevokedKeyIsInert
  <1> QED
    BY BaseInit, BaseStep, InertInit, <1>1, <1>2, PTL DEF Spec

-----------------------------------------------------------------------------
(* Owners.                                                                 *)

\* The three parts of OwnersOnly.
ShownInv == \A r \in Sessions \cup Calls : shown[r] # {} => shown[r] \subseteq Owned(r)
InactiveInv ==
  \A x \in inactive : \E r \in Sessions \cup Calls :
    body[r] # NoRow /\ body[r].op = "revoke" /\ body[r].target = x /\ x \in Owned(r)
ListedInv ==
  \A r \in Sessions \cup Calls :
    reply[r] = "ok" /\ body[r].op = "list" => Owned(r) \cap before[r] \subseteq shown[r] \cup inactive

\* The step that answers r with rows reads them, or r has no rows to show.
LEMMA ShownStep ==
  ASSUME BaseInv, ShownInv, NEW r \in Requests, Step(r)
  PROVE  ShownInv'
  <1>1. TypeOK /\ StageInv /\ Moves(r)
    BY StepMoves DEF BaseInv
  <1>2. ASSUME NEW q \in Sessions \cup Calls, shown'[q] # {}
        PROVE  shown'[q] \subseteq Owned(q)'
    <2>1. shown'[q] \subseteq Owned(q) /\ body[q] # NoRow
      <3>1. CASE shown'[q] = shown[q]
        BY <1>1, <1>2, <3>1 DEF ShownInv, StageInv, Requests, TypeOK, Replies, Owned
      <3>2. CASE shown'[q] # shown[q]
        <4>1. q = r /\ Reads(r)
          BY <1>1, <3>2, StepKinds
             DEF Moves, Requests, Arrive, Fault, Inserts, Store, LogIn, Revokes, SetInactive, GoesOn, Ends
        <4> QED
          BY <1>1, <4>1 DEF Reads, Show, TypeOK, StageInv
      <3> QED
        BY <3>1, <3>2
    <2> QED
      BY <2>1, OwnedStays
  <1> QED
    BY <1>2 DEF ShownInv

LEMMA InactiveStep ==
  ASSUME BaseInv, InactiveInv, NEW r \in Requests, Step(r)
  PROVE  InactiveInv'
  <1>1. TypeOK /\ StageInv /\ KindInv /\ RevokingInv /\ Moves(r)
    BY StepMoves DEF BaseInv
  <1>2. ASSUME NEW x \in inactive'
        PROVE  \E q \in Sessions \cup Calls :
                 body'[q] # NoRow /\ body'[q].op = "revoke" /\ body'[q].target = x /\ x \in Owned(q)'
    <2>1. PICK q \in Sessions \cup Calls :
            body[q] # NoRow /\ body[q].op = "revoke" /\ body[q].target = x /\ x \in Owned(q)
      <3>1. CASE x \in inactive
        BY <3>1 DEF InactiveInv
      <3>2. CASE pc[r] = "update" /\ x = body[r].target
        <4>1. r \in Sessions \cup Calls /\ body[r] # NoRow
          BY <1>1, <3>2 DEF KindInv, StageInv, Requests
        <4> QED
          BY <1>1, <3>2, <4>1 DEF RevokingInv
      <3> QED
        BY <1>1, <1>2, <3>1, <3>2 DEF Moves
    <2> QED
      BY <2>1, OwnersStay, OwnedStays
  <1> QED
    BY <1>2 DEF InactiveInv

LEMMA ListedStep ==
  ASSUME BaseInv, ListedInv, NEW r \in Requests, Step(r)
  PROVE  ListedInv'
  <1>1. TypeOK /\ StageInv /\ KindInv /\ Moves(r)
    BY StepMoves DEF BaseInv
  <1>2. ASSUME NEW q \in Sessions \cup Calls, reply'[q] = "ok", body'[q].op = "list"
        PROVE  Owned(q)' \cap before'[q] \subseteq shown'[q] \cup inactive'
    <2>1. /\ body[q] # NoRow /\ body'[q] = body[q] /\ before'[q] = before[q]
          /\ Owned(q) \cap before[q] \subseteq shown'[q] \cup inactive
      <3>1. CASE q # r
        BY <1>1, <1>2, <3>1 DEF Moves, ListedInv, StageInv, Requests
      <3>2. CASE q = r
        <4> USE <1>1, <1>2, <3>2 DEF TypeOK, StageInv, Moves, Goto, Answer, Requests
        <4>1. pc[r] # "new" /\ Reads(r)
          <5>1. ~Arrive(r) /\ ~GoesOn(r)
            BY DEF Arrive, MayArrive, GoesOn
          <5>2. ~Fault(r) /\ ~Inserts(r)
            BY DEF Fault, Inserts, Store
          <5>3. ~(r \in Logins /\ LogIn(r))
            BY AccountsAssumption
          <5>4. ~Revokes(r)
            BY DEF Revokes, SetInactive, BaseInv, RevokingInv
          <5>5. ~Ends(r)
            BY AccountsAssumption DEF Ends
          <5> QED
            BY <5>1, <5>2, <5>3, <5>4, <5>5, StepKinds DEF Reads
        <4> QED
          BY <4>1 DEF Reads
      <3> QED
        BY <3>1, <3>2
    <2>2. Owned(q)' \cap before[q] \subseteq Owned(q)
      BY <1>1, <2>1, OwnedStays DEF TypeOK, Requests
    <2>3. inactive \subseteq inactive'
      BY <1>1 DEF Moves
    <2> QED
      BY <2>1, <2>2, <2>3
  <1> QED
    BY <1>2 DEF ListedInv

\* Keys, endpoints and templates are shown to and revoked by their owner alone,
\* and a list holds all of them that were there and are still active.
THEOREM OwnersAlone == Spec => []OwnersOnly
  <1> DEFINE Parts == ShownInv /\ InactiveInv /\ ListedInv
  <1>1. Init => Parts
    BY DEF Init, ShownInv, InactiveInv, ListedInv, Requests
  <1>2. BaseInv /\ Parts /\ [Next]_vars => Parts'
    <2> SUFFICES ASSUME BaseInv, Parts, [Next]_vars PROVE Parts'
      OBVIOUS
    <2>1. CASE Next
      BY <2>1, NextIsStep, ShownStep, InactiveStep, ListedStep
    <2>2. CASE UNCHANGED vars
      <3> USE <2>2 DEF vars, database, history
      <3>1. \A q : Owner(q)' = Owner(q)
        BY DEF Owner, KeyOwner
      <3>2. \A q : Owned(q)' = Owned(q)
        BY <3>1 DEF Owned
      <3> QED
        BY <3>2 DEF ShownInv, InactiveInv, ListedInv
    <2> QED
      BY <2>1, <2>2
  <1>3. Parts => OwnersOnly
    BY DEF ShownInv, InactiveInv, ListedInv, OwnersOnly, AsksToRevoke
  <1> QED
    BY BaseInit, BaseStep, <1>1, <1>2, <1>3, PTL DEF Spec
=============================================================================
