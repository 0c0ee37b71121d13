-------------------------------- MODULE Startup --------------------------------
(***************************************************************************)
(* From the start of a program to the requests it serves: the schema, the  *)
(* admin password from the environment, from the terminal or, in a program *)
(* that embeds the router, from a web request, and the logins it allows.   *)
(* set_admin_password writes three settings one after the other; a program *)
(* may stop, and a request be dropped, between any two.                    *)
(***************************************************************************)
EXTENDS Schema

CONSTANTS
  Clients,     \* browsers
  Ways,        \* Ways[p]: how p may be started
  MaxMishaps   \* bounds the stops of programs and the unread table_infos

\* With a password in the environment that is long enough or too short, from a terminal,
\* with neither, or as a part of another program.
Starts == {"env", "short", "terminal", "plain", "embedded"}

ASSUME StartAssumption ==
  /\ Programs \cap Clients = {}
  /\ Ways \in [Programs -> SUBSET Starts]
  /\ MaxMishaps \in Nat

VARIABLES
  hash,       \* whether there is a setting admin_password_hash
  secret,     \* the setting jwt_secret, 0 if missing
  required,   \* the setting require_auth, FALSE if missing
  made,       \* secrets generated so far
  pc,         \* pc[a]: what program or client a is at
  way,        \* way[p]: how p was started
  cookie,     \* cookie[c]: the secret that signed c's cookie, 0 if c has none
  lifted,     \* an administrator has turned require_auth off since it was set
  cut,        \* a password was set, and its secret or require_auth then was not
  overlapped, \* two set_admin_password have found the secret missing at the same time
  mishaps

settings  == <<hash, secret, required, made, lifted, cut, overlapped>>
adminVars == <<hash, secret, required, made, pc, way, cookie, lifted, cut, overlapped, mishaps>>
vars      == <<schemaVars, adminVars>>

Actors  == Programs \cup Clients
Setting == {"hash", "secret", "fresh", "require"}

TypeOK ==
  /\ SchemaType
  /\ secret   \in Nat /\ made \in Nat /\ mishaps \in 0 .. MaxMishaps
  /\ pc       \in [Actors -> Setting \cup {"off", "schema", "check", "prompt", "serve",
                                           "idle", "login", "put"}]
  /\ way      \in [Programs -> Starts]
  /\ cookie   \in [Clients -> Nat]
  /\ {hash, required, lifted, cut, overlapped} \subseteq BOOLEAN

Init ==
  /\ SchemaInit
  /\ hash = FALSE /\ secret = 0 /\ required = FALSE /\ made = 0
  /\ pc     = [a \in Actors |-> IF a \in Programs THEN "off" ELSE "idle"]
  /\ way    = [p \in Programs |-> "plain"]
  /\ cookie = [c \in Clients |-> 0]
  /\ lifted = FALSE /\ cut = FALSE /\ overlapped = FALSE
  /\ mishaps = 0

Goto(a, at) == pc' = [pc EXCEPT ![a] = at]
Serving(p)  == pc[p] = "serve"
Up          == \E p \in Programs : Serving(p)
-------------------------------------------------------------------------------
\* main: a start.
Start(p) ==
  /\ pc[p] = "off"
  /\ Goto(p, "schema")
  /\ Rewind(p)
  /\ UNCHANGED <<settings, way, cookie, mishaps>>

Statement(p) ==
  /\ pc[p] = "schema"
  /\ \/ Execute(p) /\ UNCHANGED mishaps
     \/ InfoUnread(p) /\ mishaps < MaxMishaps /\ mishaps' = mishaps + 1
  /\ IF pos'[p] > Len(Script) THEN Goto(p, "check") ELSE UNCHANGED pc
  /\ UNCHANGED <<settings, way, cookie>>

\* An error of a statement ends the program.
StatementFails(p) ==
  /\ pc[p] = "schema" /\ Fails(p)
  /\ Goto(p, "off")
  /\ Rewind(p)
  /\ UNCHANGED <<settings, way, cookie, mishaps>>

\* ensure_admin_password; a program that embeds the router does not call it.
Check(p) ==
  /\ pc[p] = "check"
  /\ \E w \in Ways[p] : way' = [way EXCEPT ![p] = w]
  /\ Goto(p, CASE way'[p] = "embedded" -> "serve"
               [] way'[p] = "env"      -> "hash"
               [] way'[p] = "short"    -> "off"
               [] way'[p] \in {"terminal", "plain"} /\ hash -> "serve"
               [] way'[p] = "terminal" /\ ~hash -> "prompt"
               [] way'[p] = "plain" /\ ~hash    -> "off")
  /\ EndOfInitDb(p)
  /\ UNCHANGED <<settings, cookie, mishaps>>

\* The prompt is repeated for a short password or one that is not confirmed; it fails
\* when the terminal is gone.
Prompt(p) ==
  /\ pc[p] = "prompt"
  /\ Goto(p, "hash") \/ Goto(p, "off")
  /\ UNCHANGED <<schemaVars, settings, way, cookie, mishaps>>

\* A program is stopped; requests end with the last one that serves.
Stop(p) ==
  /\ pc[p] # "off"
  /\ mishaps < MaxMishaps /\ mishaps' = mishaps + 1
  /\ LET Ended == {p} \cup IF \E q \in Programs \ {p} : Serving(q) THEN {} ELSE Clients IN
       /\ pc' = [a \in Actors |-> CASE a \notin Ended -> pc[a]
                                    [] a = p           -> "off"
                                    [] a \in Ended \cap Clients -> "idle"]
       /\ cut' = (cut \/ \E a \in Ended : pc[a] \in Setting \ {"hash"})
  /\ way' = [way EXCEPT ![p] = "plain"]
  /\ Rewind(p)
  /\ UNCHANGED <<hash, secret, required, made, lifted, overlapped, cookie>>
-------------------------------------------------------------------------------
(***************************************************************************)
(* set_admin_password, of a starting program or of auth_setup              *)
(***************************************************************************)
SetHash(a) ==
  /\ pc[a] = "hash"
  /\ hash' = TRUE
  /\ Goto(a, "secret")
  /\ UNCHANGED <<schemaVars, secret, required, made, lifted, cut, overlapped, way, cookie, mishaps>>

\* Mistake: every call makes a new secret.
ReadSecret_Always(a) ==
  /\ pc[a] = "secret"
  /\ Goto(a, "fresh")
  /\ overlapped' = (overlapped \/ \E b \in Actors \ {a} : pc[b] = "fresh")
  /\ UNCHANGED <<schemaVars, hash, secret, required, made, lifted, cut, way, cookie, mishaps>>

\* Is there a secret?
ReadSecret(a) ==
  /\ pc[a] = "secret"
  /\ Goto(a, IF secret = 0 THEN "fresh" ELSE "require")
  /\ overlapped' = (overlapped \/ (secret = 0 /\ \E b \in Actors \ {a} : pc[b] = "fresh"))
  /\ UNCHANGED <<schemaVars, hash, secret, required, made, lifted, cut, way, cookie, mishaps>>

\* Mistake: require_auth is left to the settings page.
WriteSecret_Enough(a) ==
  /\ pc[a] = "fresh"
  /\ secret' = made + 1 /\ made' = made + 1
  /\ Goto(a, IF a \in Programs THEN "serve" ELSE "idle")
  /\ UNCHANGED <<schemaVars, hash, required, lifted, cut, overlapped, way, cookie, mishaps>>

\* The new secret replaces one that came in between.
WriteSecret(a) ==
  /\ pc[a] = "fresh"
  /\ secret' = made + 1 /\ made' = made + 1
  /\ Goto(a, "require")
  /\ UNCHANGED <<schemaVars, hash, required, lifted, cut, overlapped, way, cookie, mishaps>>

\* require_auth, the last write: whatever was left undone before is done now.
Require(a) ==
  /\ pc[a] = "require"
  /\ required' = TRUE /\ lifted' = FALSE /\ cut' = FALSE
  /\ Goto(a, IF a \in Programs THEN "serve" ELSE "idle")
  /\ UNCHANGED <<schemaVars, hash, secret, made, overlapped, way, cookie, mishaps>>

SetPassword(a) == SetHash(a) \/ ReadSecret(a) \/ WriteSecret(a) \/ Require(a)
-------------------------------------------------------------------------------
(***************************************************************************)
(* Requests                                                                *)
(***************************************************************************)
\* auth_setup goes on if there is no password, and the one sent is long enough.
Setup(c) ==
  /\ Up /\ pc[c] = "idle"
  /\ ~hash
  /\ Goto(c, "hash")
  /\ UNCHANGED <<schemaVars, settings, way, cookie, mishaps>>

\* auth_login: the password is verified, and then the secret is read.
Verify(c) ==
  /\ Up /\ pc[c] = "idle"
  /\ hash
  /\ Goto(c, "login")
  /\ UNCHANGED <<schemaVars, settings, way, cookie, mishaps>>

Login(c) ==
  /\ pc[c] = "login"
  /\ cookie' = IF secret # 0 THEN [cookie EXCEPT ![c] = secret] ELSE cookie
  /\ Goto(c, "idle")
  /\ UNCHANGED <<schemaVars, settings, way, mishaps>>

\* auth_logout, or the cookie has expired.
Logout(c) ==
  /\ cookie[c] # 0
  /\ cookie' = [cookie EXCEPT ![c] = 0]
  /\ UNCHANGED <<schemaVars, settings, pc, way, mishaps>>

\* ManagementAuth by cookie, and then put_settings of require_auth.
Manage(c) ==
  /\ Up /\ pc[c] = "idle"
  /\ required => secret # 0 /\ cookie[c] = secret
  /\ Goto(c, "put")
  /\ UNCHANGED <<schemaVars, settings, way, cookie, mishaps>>

PutSettings(c) ==
  /\ pc[c] = "put"
  /\ required' \in BOOLEAN
  /\ lifted' = ((lifted \/ required) /\ ~required')
  /\ Goto(c, "idle")
  /\ UNCHANGED <<schemaVars, hash, secret, made, cut, overlapped, way, cookie, mishaps>>

\* The client leaves: its request is dropped where it waits.
Leave(c) ==
  /\ pc[c] # "idle"
  /\ Goto(c, "idle")
  /\ cut' = (cut \/ pc[c] \in Setting \ {"hash"})
  /\ UNCHANGED <<schemaVars, hash, secret, required, made, lifted, overlapped, way, cookie, mishaps>>

Program(p) == Start(p) \/ Statement(p) \/ StatementFails(p) \/ Check(p) \/ Prompt(p)

Next ==
  \/ \E p \in Programs : Program(p) \/ Stop(p)
  \/ \E a \in Actors : SetPassword(a)
  \/ \E c \in Clients : \/ Setup(c) \/ Verify(c) \/ Login(c) \/ Logout(c)
                        \/ Manage(c) \/ PutSettings(c) \/ Leave(c)

Spec == Init /\ [][Next]_vars

\* A container's program goes on while it runs, and is started again when it has ended
\* (docker-compose.yml: restart unless-stopped).
Contained == {p \in Programs : Ways[p] = {"env"}}

FairSpec == Spec /\ \A p \in Contained : WF_vars(Program(p)) /\ WF_vars(SetPassword(p))
-------------------------------------------------------------------------------
(***************************************************************************)
(* Properties                                                              *)
(***************************************************************************)

\* A program that serves finds every table, column and setting it needs: main opens the
\* listener after init_db and ensure_admin_password only.  A start with the password of
\* the environment also repairs what an earlier one left undone.
ReadyToServe ==
  \A p \in Programs : Serving(p) =>
    /\ Complete
    /\ way[p] # "embedded" => hash
    /\ way[p] = "env" => secret # 0 /\ (required \/ lifted)

\* "generates a JWT secret if missing and enables auth" (set_admin_password): a stored
\* password comes with its secret and with auth, unless it is just being set, or the
\* program was stopped or the request dropped before the rest was written.
PasswordIsWhole ==
  hash =>
    \/ secret # 0 /\ (required \/ lifted)
    \/ cut \/ \E a \in Actors : pc[a] \in Setting \ {"hash"}

\* Logins outlive restarts, also those that set the password again: a cookie fails
\* before its time only if two calls have both found the secret missing.
LoginsOutliveRestarts ==
  overlapped \/ \A c \in Clients : cookie[c] \in {0, secret}

\* Two programs on one file may make each other fail, and stops may leave the schema
\* half upgraded, but a program that is started again comes up in the end.
EventuallyUp ==
  \A p \in Contained : []<>Serving(p)
===============================================================================
