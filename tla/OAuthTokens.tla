----------------------------- MODULE OAuthTokens ------------------------------
(***************************************************************************)
(* The credentials of one OAuth account: requests that prepare the account *)
(* and call the upstream with its access token, refreshing it before it    *)
(* expires or after a 401 (prepare_provider_account,                       *)
(* execute_with_oauth_retry), the operator's refresh button, a reconnect   *)
(* (complete_authorization) and the deletion of the account, interleaved   *)
(* at every await.  Nothing makes one refresh wait for another.            *)
(*                                                                         *)
(* The issuer is external: it knows, for each login, how many times its    *)
(* tokens were granted.  A rotating issuer hands out a new refresh token   *)
(* with every grant and refuses the ones it replaced; another keeps one.   *)
(***************************************************************************)
EXTENDS Integers, FiniteSets

CONSTANTS
  Requests,   \* requests that use the account
  Manual,     \* those of them that are POST .../refresh
  Rotating,   \* the issuer replaces refresh tokens
  Lossy,      \* an answer of the issuer may be lost on the way
  MaxGrants,  \* bound on the grants of one login
  None

ASSUME ManualAssumption == Manual \subseteq Requests
ASSUME SwitchAssumption == Rotating \in BOOLEAN /\ Lossy \in BOOLEAN
ASSUME GrantAssumption  == MaxGrants \in Nat

VARIABLES
  row,    \* the provider_accounts row, None once deleted
  gen,    \* gen[l]: grants made so far under login l
  age,    \* age[t]: of access token t
  link,   \* how far the reconnect (login 1) is
  lost,   \* refresh tokens granted that nobody will ever store
  req     \* req[r]: the local variables of request r

vars == <<row, gen, age, link, lost, req>>
-------------------------------------------------------------------------------
Logins == {0, 1}
Tokens == [login : Logins, n : 0..MaxGrants]
Token(l, k) == [login |-> l, n |-> k]

\* The issuer's refresh token that goes with its latest grant, and what it accepts.
Latest(l)  == Token(l, IF Rotating THEN gen[l] ELSE 0)
Accepts(t) == t = Latest(t.login)

Ages   == {"fresh", "due", "dead"}  \* due: expires within five minutes
Row    == [access : Tokens, refresh : Tokens, error : BOOLEAN]
Grants == [access : Tokens, refresh : Tokens \cup {None}]

ASSUME NoneAssumption == None \notin Tokens /\ None \notin Row /\ None \notin Grants

Request ==
  [pc      : {"start", "read", "ask", "record", "again", "write", "reread", "call", "done"},
   seen    : Row \cup {None},      \* the account as read
   grant   : Grants \cup {None},   \* the issuer's answer
   refused : Tokens \cup {None},   \* the access token a 401 answered
   calls   : Nat,                  \* upstream calls made
   end     : {"none", "ok", "unauthorized", "skipped", "dropped"}]

NewRequest == [pc |-> "start", seen |-> None, grant |-> None, refused |-> None,
               calls |-> 0, end |-> "none"]

TypeOK ==
  /\ row  \in Row \cup {None}
  /\ gen  \in [Logins -> 0..MaxGrants]
  /\ age  \in [Tokens -> Ages]
  /\ link \in {"none", "granted", "linked", "failed"}
  /\ lost \in SUBSET Tokens
  /\ req  \in [Requests -> Request]

Init ==
  /\ row  = [access |-> Token(0, 0), refresh |-> Token(0, 0), error |-> FALSE]
  /\ gen  = [l \in Logins |-> 0]
  /\ age  = [t \in Tokens |-> "fresh"]
  /\ link = "none"
  /\ lost = {}
  /\ req  = [r \in Requests |-> NewRequest]
-------------------------------------------------------------------------------
At(r, point) == req[r].pc = point
Set(r, q)    == req' = [req EXCEPT ![r] = q]
End(q, how)  == [q EXCEPT !.pc = "done", !.end = how, !.seen = None, !.grant = None]

\* How a refresh that failed ends the request: before the first call the account is
\* skipped, after a 401 the original answer stands.
GiveUp(q) == End(q, IF q.refused = None THEN "skipped" ELSE "unauthorized")

\* list_selectable_provider_accounts, and needs_refresh over the row it read.
Start(r) ==
  /\ At(r, "start")
  /\ Set(r, IF row = None THEN End(req[r], "skipped")
            ELSE [req[r] EXCEPT
                    !.seen = row,
                    !.pc = IF r \in Manual \/ age[row.access] # "fresh"
                           THEN "read" ELSE "call"])
  /\ UNCHANGED <<row, gen, age, link, lost>>

\* refresh_provider_account reads the account again.
ReadRow(r) ==
  /\ At(r, "read")
  /\ Set(r, IF row = None THEN GiveUp(req[r])
            ELSE [req[r] EXCEPT !.pc = "ask", !.seen = row])
  /\ UNCHANGED <<row, gen, age, link, lost>>

\* The issuer makes another grant under login l.
NewGrant(l) ==
  [access |-> Token(l, gen[l] + 1), refresh |-> IF Rotating THEN Token(l, gen[l] + 1) ELSE None]

\* The issuer grants, or refuses, or cannot be reached.
Ask(r) ==
  LET t == req[r].seen.refresh IN
  /\ At(r, "ask")
  /\ \/ /\ Accepts(t) /\ gen[t.login] < MaxGrants
        /\ gen' = [gen EXCEPT ![t.login] = @ + 1]
        /\ \/ Set(r, [req[r] EXCEPT !.pc = "write", !.grant = NewGrant(t.login)])
              /\ UNCHANGED lost
           \/ /\ Lossy
              /\ Set(r, [req[r] EXCEPT !.pc = "record"])
              /\ lost' = lost \cup ({NewGrant(t.login).refresh} \ {None})
     \/ /\ Set(r, [req[r] EXCEPT !.pc = "record"])
        /\ UNCHANGED <<gen, lost>>
  /\ UNCHANGED <<row, age, link>>

\* record_provider_account_refresh_error.
NoteError == row' = IF row = None THEN None ELSE [row EXCEPT !.error = TRUE]

\* refresh_provider_account notes the issuer's refusal, and prepare_provider_account
\* notes it again.
RecordError(r) ==
  /\ At(r, "record")
  /\ NoteError
  /\ Set(r, IF r \in Manual \/ req[r].refused # None THEN GiveUp(req[r])
            ELSE [req[r] EXCEPT !.pc = "again"])
  /\ UNCHANGED <<gen, age, link, lost>>

RecordAgain(r) ==
  /\ At(r, "again")
  /\ NoteError
  /\ Set(r, GiveUp(req[r]))
  /\ UNCHANGED <<gen, age, link, lost>>

\* Mistake: the refresh token that came with the grant is not stored.
Stored_OldRefresh(old, grant) ==
  [access |-> grant.access, refresh |-> old.refresh, error |-> FALSE]

\* update_provider_account_oauth_credentials: COALESCE keeps the stored refresh
\* token when the grant brought none.
Stored(old, grant) ==
  [access  |-> grant.access,
   refresh |-> IF grant.refresh = None THEN old.refresh ELSE grant.refresh,
   error   |-> FALSE]

WriteGrant(r) ==
  /\ At(r, "write")
  /\ IF row = None
     THEN Set(r, GiveUp(req[r])) /\ UNCHANGED row
     ELSE Set(r, [req[r] EXCEPT !.pc = "reread"]) /\ row' = Stored(row, req[r].grant)
  /\ UNCHANGED <<gen, age, link, lost>>

\* Mistake: the account read before the refresh is returned.
Reread_Stale(r) ==
  /\ At(r, "reread")
  /\ Set(r, IF row = None THEN GiveUp(req[r])
            ELSE IF r \in Manual THEN End(req[r], "ok")
            ELSE [req[r] EXCEPT !.pc = "call", !.grant = None])
  /\ UNCHANGED <<row, gen, age, link, lost>>

\* refresh_provider_account returns the row as it is now.
Reread(r) ==
  /\ At(r, "reread")
  /\ Set(r, IF row = None THEN GiveUp(req[r])
            ELSE IF r \in Manual THEN End(req[r], "ok")
            ELSE [req[r] EXCEPT !.pc = "call", !.seen = row, !.grant = None])
  /\ UNCHANGED <<row, gen, age, link, lost>>

\* A 401 forces one refresh; a second 401 is the answer.
AfterRefusal(q) ==
  IF q.refused = None
  THEN [q EXCEPT !.pc = "read", !.refused = q.seen.access, !.calls = @ + 1]
  ELSE End([q EXCEPT !.calls = @ + 1], "unauthorized")

\* execute_with_retry with the access token at hand; any answer but 401 ends this.
Call(r) ==
  /\ At(r, "call")
  /\ Set(r, IF age[req[r].seen.access] = "dead" THEN AfterRefusal(req[r])
            ELSE End([req[r] EXCEPT !.calls = @ + 1], "ok"))
  /\ UNCHANGED <<row, gen, age, link, lost>>

\* Refresh tokens held by r and stored nowhere else.
Held(r) == IF At(r, "write") THEN {req[r].grant.refresh} \ {None} ELSE {}

\* The client disconnects: the handler's future is dropped at its await.
Disconnect(r) ==
  /\ ~At(r, "done")
  /\ Set(r, End(req[r], "dropped"))
  /\ lost' = lost \cup Held(r)
  /\ UNCHANGED <<row, gen, age, link>>
-------------------------------------------------------------------------------
\* complete_authorization for a reconnect: the code is exchanged, and, once the
\* session is consumed, the account is updated.
ReconnectExchange ==
  /\ link = "none"
  /\ link' = "granted"
  /\ UNCHANGED <<row, gen, age, lost, req>>

\* Mistake: the update inserts a bare row when the account is gone.
ReconnectWrite_Upsert ==
  /\ link = "granted"
  /\ link' = "linked"
  /\ row' = IF row = None
            THEN [access |-> Token(1, 0), refresh |-> None, error |-> FALSE]
            ELSE Stored(row, [access |-> Token(1, 0), refresh |-> Token(1, 0)])
  /\ UNCHANGED <<gen, age, lost, req>>

ReconnectWrite ==
  /\ link = "granted"
  /\ IF row = None
     THEN link' = "failed" /\ UNCHANGED row
     ELSE /\ link' = "linked"
          /\ row' = Stored(row, [access |-> Token(1, 0), refresh |-> Token(1, 0)])
  /\ UNCHANGED <<gen, age, lost, req>>

\* delete_provider_account.
Delete ==
  /\ row # None
  /\ row' = None
  /\ UNCHANGED <<gen, age, link, lost, req>>

\* The clock: a token that was granted gets due, and then expires; revoking one
\* skips the first.
Grow(t) ==
  /\ age[t] # "dead"
  /\ t.n <= gen[t.login] /\ (t.login = 1 => link # "none")
  /\ \E older \in {"due", "dead"} \ {age[t]} : age' = [age EXCEPT ![t] = older]
  /\ UNCHANGED <<row, gen, link, lost, req>>

Work(r) ==
  \/ Start(r) \/ ReadRow(r) \/ Ask(r) \/ RecordError(r) \/ RecordAgain(r)
  \/ WriteGrant(r) \/ Reread(r) \/ Call(r)

Next ==
  \/ \E r \in Requests : Work(r) \/ Disconnect(r)
  \/ ReconnectExchange \/ ReconnectWrite \/ Delete
  \/ \E t \in Tokens : Grow(t)

Spec == Init /\ [][Next]_vars
-------------------------------------------------------------------------------
(***************************************************************************)
(* Properties                                                              *)
(***************************************************************************)

\* The stored refresh token is one the issuer still accepts, or somebody holds the
\* one that replaced it and is about to store it.
Usable ==
  row # None => \/ Accepts(row.refresh)
                \/ \E r \in Requests : Latest(row.refresh.login) \in Held(r)

\* However refreshes, reconnects and deletions overlap, the account is left with
\* a dead refresh token only if the token that replaced it was lost on the way to
\* the row.
UsableUnlessLost == Usable \/ Latest(row.refresh.login) \in lost

\* The call after a forced refresh never goes out with the token just refused,
\* whoever else wrote the row in the meantime.
NeverRepeatsRefused ==
  \A r \in Requests :
    At(r, "call") /\ req[r].refused # None => req[r].seen.access # req[r].refused

\* README.md: "retry once after an upstream 401".
RetriedOnce == \A r \in Requests : req[r].calls <= 2

\* A refresh overlapping a reconnect never leaves the access token of one login with
\* the refresh token of another, as long as every grant brings a refresh token.
RowOfOneLogin == Rotating /\ row # None => row.access.login = row.refresh.login
===============================================================================
