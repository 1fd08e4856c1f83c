------------------------------- MODULE Accounts -------------------------------
(***************************************************************************)
(* Accounts and what they own: AuthService (register, login, me), JwtGuard,*)
(* KeysService, and the rows behind ApiKeyGuard, webhook endpoints and     *)
(* prompt templates.  A row is named by the request that inserted it: a    *)
(* user by a registration, a key by a session request (one that carries a  *)
(* token), an endpoint or a template by a call (one that carries a key).   *)
(* Every query is one step.  Hashing and signing are exact.                *)
(***************************************************************************)
EXTENDS Integers, FiniteSets

CONSTANTS
  Registrations, Logins, Sessions, Calls,   \* the requests of each kind
  Emails, Passwords,
  NoRow,       \* an id that no row has, and the body of a request to come
  MaxRequests, \* bound: requests in all
  MaxFaults    \* bound: requests that meet a rejected query or a dying process

Requests == Registrations \cup Logins \cup Sessions \cup Calls

ASSUME AccountsAssumption ==
  /\ Registrations \cap Logins = {} /\ Registrations \cap Sessions = {}
  /\ Registrations \cap Calls = {} /\ Logins \cap Sessions = {}
  /\ Logins \cap Calls = {} /\ Sessions \cap Calls = {}
  /\ MaxRequests \in Nat /\ MaxFaults \in Nat

VARIABLES
  rows,        \* the requests whose row is in the database
  inactive,    \* the rows with isActive = false
  pc,          \* pc[r]: the query request r issues next
  body,        \* body[r]: what r asks for, chosen when it arrives
  found,       \* found[l]: the user whom the token of login l names
  reply,       \* reply[r]: the answer to r
  shown,       \* shown[r]: the rows that answer holds
  before,      \* before[r]: the rows of the kind r looks for, when it arrived (history)
  gone,        \* gone[c]: the revoked keys when call c arrived (history)
  faulty       \* the requests that met a fault (bound, history)

database == <<rows, inactive>>
history == <<before, gone>>
vars == <<database, pc, body, found, reply, shown, history, faulty>>

-----------------------------------------------------------------------------
(* Bodies.                                                                 *)

Credentials == [email : Emails, password : Passwords]
SessionBodies ==                    \* the routes of /keys, and GET /auth/me
  [token : Logins, kind : {"key"}, op : {"create", "list", "me"}, target : {NoRow}]
    \cup [token : Logins, kind : {"key"}, op : {"revoke"}, target : Sessions \cup {NoRow}]
EndpointBodies ==                   \* the routes of /webhooks
  [key : Sessions, kind : {"endpoint"}, op : {"create", "list"}, target : {NoRow}]
    \cup [key : Sessions, kind : {"endpoint"}, op : {"revoke"}, target : Calls \cup {NoRow}]
TemplateBodies ==                   \* the routes of /templates
  [key : Sessions, kind : {"template"}, op : {"create", "list"}, target : {NoRow}]
    \cup [key : Sessions, kind : {"template"}, op : {"show"}, target : Calls \cup {NoRow}]
CallBodies == EndpointBodies \cup TemplateBodies

ASSUME NoRowAssumption == NoRow \notin Requests \cup Credentials \cup SessionBodies \cup CallBodies

\* Tokens and raw keys are those a client was given, ids those of any row.
Sendable(r) ==
  CASE r \in Registrations \cup Logins -> Credentials
    [] r \in Sessions ->
         {b \in SessionBodies : reply[b.token] = "ok" /\ b.target \in rows \cup {NoRow}}
    [] r \in Calls ->
         {b \in CallBodies : reply[b.key] = "created" /\ b.target \in rows \cup {NoRow}}

Steps == {"new", "lookup", "insert", "guards", "query", "update", "done"}
Replies == {"none", "created", "ok", "conflict", "unauthorized", "missing", "limited", "error"}

TypeOK ==
  /\ rows \subseteq Requests \ Logins
  /\ inactive \subseteq rows
  /\ pc \in [Requests -> Steps]
  /\ body \in [Requests -> Credentials \cup SessionBodies \cup CallBodies \cup {NoRow}]
  /\ found \in [Logins -> Registrations \cup {NoRow}]
  /\ reply \in [Requests -> Replies]
  /\ shown \in [Requests -> SUBSET rows]
  /\ before \in [Requests -> SUBSET rows]
  /\ gone \in [Requests -> SUBSET inactive]
  /\ faulty \subseteq Requests

Init ==
  /\ rows = {}
  /\ inactive = {}
  /\ pc = [r \in Requests |-> "new"]
  /\ body = [r \in Requests |-> NoRow]
  /\ found = [l \in Logins |-> NoRow]
  /\ reply = [r \in Requests |-> "none"]
  /\ shown = [r \in Requests |-> {}]
  /\ before = [r \in Requests |-> {}]
  /\ gone = [r \in Requests |-> {}]
  /\ faulty = {}

Goto(r, step) == pc' = [pc EXCEPT ![r] = step]
Answer(r, status) == Goto(r, "done") /\ reply' = [reply EXCEPT ![r] = status]
Insert(r) == rows' = rows \cup {r} /\ UNCHANGED inactive
HardDelete(r) == rows' = rows \ {body[r].target} /\ UNCHANGED inactive   \* mutant: delete for update
Deactivate(r) == inactive' = inactive \cup {body[r].target} /\ UNCHANGED rows

\* The owner of the row that request r inserts, which is also the user or key
\* that r may speak for: the user of the token or of the key for keys and
\* templates, the key itself for endpoints.
KeyOwner(k) == found[body[k].token]
Owner(r) ==
  CASE body[r].kind = "key" -> KeyOwner(r)
    [] body[r].kind = "endpoint" -> body[r].key
    [] body[r].kind = "template" -> KeyOwner(body[r].key)
Owned(r) == {x \in rows \ Registrations : body[x].kind = body[r].kind /\ Owner(x) = Owner(r)}

MayArrive(r) == pc[r] = "new" /\ Cardinality({q \in Requests : pc[q] # "new"}) < MaxRequests

\* Those who inserted the rows that r looks for.
Compared(r) ==
  CASE r \in Registrations \cup Logins -> Registrations
    [] r \in Sessions -> Sessions
    [] r \in Calls -> Calls

\* The request arrives; JwtGuard checks the token of a session at once.
Arrive(r) ==
  /\ MayArrive(r)
  /\ \E b \in Sendable(r) : body' = [body EXCEPT ![r] = b]
  /\ before' = [before EXCEPT ![r] = rows \cap Compared(r)]
  /\ gone' = [gone EXCEPT ![r] = IF r \in Calls THEN inactive \cap Sessions ELSE {}]
  /\ Goto(r, IF r \in Sessions THEN "query" ELSE "lookup")
  /\ UNCHANGED <<database, found, reply, shown, faulty>>

-----------------------------------------------------------------------------
(* AuthService.                                                            *)

\* The rows of an email: the column is unique.
UsersOf(email) == {u \in rows \cap Registrations : body[u].email = email}

LookUpSkipped(r) ==                          \* mutant: only the index is relied on
  /\ pc[r] = "lookup"
  /\ Goto(r, "insert")
  /\ UNCHANGED <<database, body, found, reply, shown, history, faulty>>

\* findUnique: 409 if the email is in use, else hash the password.
LookUpEmail(r) ==
  /\ pc[r] = "lookup"
  /\ IF UsersOf(body[r].email) # {}
       THEN Answer(r, "conflict")
       ELSE Goto(r, "insert") /\ UNCHANGED reply
  /\ UNCHANGED <<database, body, found, shown, history, faulty>>

Upsert(r) ==                                 \* mutant: upsert for create
  /\ pc[r] = "insert"
  /\ rows' = (rows \ UsersOf(body[r].email)) \cup {r}
  /\ Answer(r, "created")
  /\ UNCHANGED <<inactive, body, found, shown, history, faulty>>

\* user.create; the unique index rejects a second row, which nobody catches.
CreateUser(r) ==
  /\ pc[r] = "insert"
  /\ IF UsersOf(body[r].email) # {}
       THEN Answer(r, "error") /\ UNCHANGED database
       ELSE Answer(r, "created") /\ Insert(r)
  /\ UNCHANGED <<body, found, shown, history, faulty>>

\* findUnique and the comparison of the password; the token names the user.
LogIn(l) ==
  /\ pc[l] = "lookup"
  /\ \/ \E u \in UsersOf(body[l].email) :
          /\ body[u].password = body[l].password
          /\ found' = [found EXCEPT ![l] = u]
          /\ Answer(l, "ok")
     \/ /\ \A u \in UsersOf(body[l].email) : body[u].password # body[l].password
        /\ Answer(l, "unauthorized")
        /\ UNCHANGED found
  /\ UNCHANGED <<database, body, shown, history, faulty>>

\* JwtGuard turns away a token that is missing, forged or past its seven days.
TokenRefused(s) ==
  /\ MayArrive(s)
  /\ Answer(s, "unauthorized")
  /\ UNCHANGED <<database, body, found, shown, history, faulty>>

\* Request r is about to issue its first query for op on rows of this kind.
Asks(r, op, kind) == pc[r] = "query" /\ body[r].op = op /\ body[r].kind = kind

me(s) ==
  /\ Asks(s, "me", "key")
  /\ Answer(s, IF KeyOwner(s) \in rows THEN "ok" ELSE "unauthorized")
  /\ UNCHANGED <<database, body, found, shown, history, faulty>>

-----------------------------------------------------------------------------
(* Rows that belong to a user or to a key.                                 *)

Store(r) == Insert(r) /\ Answer(r, "created") /\ UNCHANGED <<body, found, shown, history, faulty>>

Show(r, found_rows) ==
  /\ shown' = [shown EXCEPT ![r] = found_rows]
  /\ Answer(r, "ok")
  /\ UNCHANGED <<database, body, found, history, faulty>>

Missing(r) == Answer(r, "missing") /\ UNCHANGED <<database, body, found, shown, history, faulty>>

\* findFirst with the id and the owner, before an update by id.
FindOwned(r, candidates) ==
  IF body[r].target \in candidates
    THEN Goto(r, "update") /\ UNCHANGED <<database, body, found, reply, shown, history, faulty>>
    ELSE Missing(r)

\* update by id, isActive false.
SetInactive(r) ==
  /\ pc[r] = "update"
  /\ Deactivate(r)
  /\ Answer(r, "ok")
  /\ UNCHANGED <<body, found, shown, history, faulty>>

\* KeysService.
CreateKey(s) == Asks(s, "create", "key") /\ Store(s)
ListKeys(s) == Asks(s, "list", "key") /\ Show(s, Owned(s) \ inactive)
FindKey(s) == Asks(s, "revoke", "key") /\ FindOwned(s, Owned(s))
RevokeKey(s) == s \in Sessions /\ SetInactive(s)

\* ApiKeyGuard and validateKey.
AnyKey(c) == body[c].key \in rows           \* mutant: isActive not looked at
KeyAccepted(c) == body[c].key \in rows \ inactive
LookUpKey(c) ==
  /\ pc[c] = "lookup"
  /\ IF KeyAccepted(c)
       THEN Goto(c, "guards") /\ UNCHANGED reply
       ELSE Answer(c, "unauthorized")
  /\ UNCHANGED <<database, body, found, shown, history, faulty>>

\* The update of lastUsedAt, then RateLimitGuard: 429 or on to the handler.
PassGuards(c) ==
  /\ pc[c] = "guards"
  /\ \/ Goto(c, "query") /\ UNCHANGED reply
     \/ Answer(c, "limited")
  /\ UNCHANGED <<database, body, found, shown, history, faulty>>

\* WebhooksService.
RegisterEndpoint(c) == Asks(c, "create", "endpoint") /\ Store(c)
ListEndpoints(c) == Asks(c, "list", "endpoint") /\ Show(c, Owned(c) \ inactive)
FindEndpoint(c) == Asks(c, "revoke", "endpoint") /\ FindOwned(c, Owned(c))
RevokeEndpoint(c) == c \in Calls /\ SetInactive(c)

\* TemplatesService.
CreateTemplate(c) == Asks(c, "create", "template") /\ Store(c)
ListTemplates(c) == Asks(c, "list", "template") /\ Show(c, Owned(c))
ShowAnyTemplate(c) ==                        \* mutant: the owner is not compared
  /\ Asks(c, "show", "template")
  /\ IF body[c].target \in rows \cap Calls THEN Show(c, {body[c].target}) ELSE Missing(c)
ShowTemplate(c) ==
  /\ Asks(c, "show", "template")
  /\ IF body[c].target \in Owned(c) THEN Show(c, {body[c].target}) ELSE Missing(c)

-----------------------------------------------------------------------------
\* What the write that r has under way does, if the database executes it.
Write(r) ==
  \/ pc[r] = "insert" /\ UsersOf(body[r].email) = {} /\ Insert(r)
  \/ pc[r] = "query" /\ body[r].op = "create" /\ Insert(r)
  \/ pc[r] = "update" /\ Deactivate(r)

\* A query of r rejects, executed or not, or the process dies: a 500 or no answer.
Fault(r) ==
  /\ pc[r] \notin {"new", "done"}
  /\ Cardinality(faulty) < MaxFaults
  /\ faulty' = faulty \cup {r}
  /\ Write(r) \/ UNCHANGED database
  /\ Answer(r, "error")
  /\ UNCHANGED <<body, found, shown, history>>

register(r) == LookUpEmail(r) \/ CreateUser(r)
session(s) == me(s) \/ CreateKey(s) \/ ListKeys(s) \/ FindKey(s) \/ RevokeKey(s)
call(c) ==
  \/ LookUpKey(c) \/ PassGuards(c)
  \/ RegisterEndpoint(c) \/ ListEndpoints(c) \/ FindEndpoint(c) \/ RevokeEndpoint(c)
  \/ CreateTemplate(c) \/ ListTemplates(c) \/ ShowTemplate(c)

Next ==
  \/ \E r \in Requests : Arrive(r) \/ Fault(r)
  \/ \E r \in Registrations : register(r)
  \/ \E l \in Logins : LogIn(l)
  \/ \E s \in Sessions : TokenRefused(s) \/ session(s)
  \/ \E c \in Calls : call(c)

Spec == Init /\ [][Next]_vars

-----------------------------------------------------------------------------
Answered(r) == pc[r] = "done" /\ r \notin faulty

\* A registration that arrives after its email was taken gets the documented
\* 409, and one that is answered 500 without a fault lost the race between lookup
\* and insert to a registration it overlapped: the email is taken all the same.
LateRegistrationConflicts ==
  \A r \in Registrations : Answered(r) =>
    LET taken == UsersOf(body[r].email) \ {r} IN
      /\ taken \cap before[r] # {} => reply[r] = "conflict"
      /\ reply[r] = "error" => taken # {} /\ taken \cap before[r] = {}

\* Whoever was told that the registration succeeded can log in with its password
\* from then on and gets a token for that account, whatever was registered
\* meanwhile with the same email.
RegisteredCanLogIn ==
  \A r \in Registrations, l \in Logins :
    /\ reply[r] = "created" /\ r \in before[l] /\ Answered(l)
    /\ body[l] = body[r]
    => reply[l] = "ok" /\ found[l] = r

\* Request r asked to revoke row x, a row of its own.
AsksToRevoke(r, x) == body[r] # NoRow /\ body[r].op = "revoke" /\ body[r].target = x /\ x \in Owned(r)

\* Nobody but the owner sees or revokes a row: what an answer shows and what is
\* inactive was asked for with a token or key of the owner; and a list leaves out
\* no row that was there when it was asked for, unless it is revoked by now.  The
\* owner of a template is the user (templates.service.ts:51, schema.prisma:130), so
\* every key of a user lists the templates made with the others.  The summary of the
\* route, templates.controller.ts:41, says "for current API key": this property takes
\* the side of the code, and a list per key would break it.
OwnersOnly ==
  /\ \A r \in Sessions \cup Calls : shown[r] # {} => shown[r] \subseteq Owned(r)
  /\ \A x \in inactive : \E r \in Sessions \cup Calls : AsksToRevoke(r, x)
  /\ \A r \in Sessions \cup Calls :
       reply[r] = "ok" /\ body[r].op = "list" =>
         Owned(r) \cap before[r] \subseteq shown[r] \cup inactive

\* A call that arrives after its key was revoked is turned away and changes and
\* sees nothing.  So the endpoints of that key, which no other key can revoke, stay
\* active for good: each inactive one was revoked by a call that came before.
RevokedKeyIsInert ==
  /\ \A c \in Calls : body[c] # NoRow /\ body[c].key \in gone[c] =>
       /\ reply[c] \in {"none", "unauthorized", "error"}
       /\ c \notin rows /\ shown[c] = {}
  /\ \A x \in inactive \cap Calls :
       \E c \in Calls : AsksToRevoke(c, x) /\ body[c].key = body[x].key /\ body[c].key \notin gone[c]
=============================================================================
