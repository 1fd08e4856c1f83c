------------------------------ MODULE MCAccounts ------------------------------
(* A small instance of Accounts with two starts, both states that Spec      *)
(* reaches.  From the first the requests of Newcomers have the database to   *)
(* themselves; from the second they meet two accounts with a key each, so    *)
(* that two calls suffice for one of them to ask for what the other owns.    *)
(* Requests of one kind are interchangeable, and so are emails and passwords.*)
EXTENDS Accounts, TLC

CONSTANT Others   \* sessions of neither account of the second start

Holders == Sessions \ Others
Pairings(S, T) == {f \in [S -> T] : \A x, y \in S : f[x] = f[y] => x = y}
Registered == {c \in [Registrations -> Credentials] :
                 \A r, q \in Registrations : c[r].email = c[q].email => r = q}

\* Nothing is stored, and the sessions of Others were refused their tokens.
Empty ==
  /\ rows = {}
  /\ pc = [r \in Requests |-> IF r \in Others THEN "done" ELSE "new"]
  /\ reply = [r \in Requests |-> IF r \in Others THEN "unauthorized" ELSE "none"]
  /\ body = [r \in Requests |-> NoRow]
  /\ found = [l \in Logins |-> NoRow]
  /\ before = [r \in Requests |-> {}]

\* Every registration, then every login, then a key for each of them.
TwoAccounts ==
  \E c \in Registered, user \in Pairings(Logins, Registrations), token \in Pairings(Holders, Logins) :
    /\ rows = Registrations \cup Holders
    /\ pc = [r \in Requests |-> IF r \in Others \cup Calls THEN "new" ELSE "done"]
    /\ reply = [r \in Requests |-> CASE r \in Registrations \cup Holders -> "created"
                                     [] r \in Logins -> "ok"
                                     [] r \in Others \cup Calls -> "none"]
    /\ body = [r \in Requests |->
                 CASE r \in Registrations -> c[r]
                   [] r \in Logins -> c[user[r]]
                   [] r \in Holders ->
                        [token |-> token[r], kind |-> "key", op |-> "create", target |-> NoRow]
                   [] r \in Others \cup Calls -> NoRow]
    /\ found = user
    /\ before = [r \in Requests |-> IF r \in Logins THEN Registrations ELSE {}]

MCInit ==
  /\ Empty \/ TwoAccounts
  /\ inactive = {}
  /\ shown = [r \in Requests |-> {}]
  /\ gone = [r \in Requests |-> {}]
  /\ faulty = {}

MCSpec == MCInit /\ [][Next]_vars

Symmetry ==
  UNION {Permutations(S) :
           S \in {Registrations, Logins, Holders, Calls, Emails, Passwords}}
=============================================================================
