-------------------------------- MODULE Schema --------------------------------
(***************************************************************************)
(* init_db: the statements a starting program runs on its database file,   *)
(* one by one and with no transaction around them.  Each is atomic; between*)
(* two of them the program may stop, and a second program may run its own  *)
(* on the same file.                                                       *)
(***************************************************************************)
EXTENDS Naturals, Sequences

CONSTANTS
  Programs,    \* programs started on the file
  Files        \* what the file may hold at first: a version's tables, or nothing

\* Columns: the key, those that indexes name and those that later versions added.
\* A table that does not exist has no column.
ConnectionColumns ==
  <<"supported_endpoints_json", "rate_limit_protection", "auth_type", "auth_header",
    "auth_prefix", "extra_headers_json", "endpoint_paths_json",
    "stream_endpoint_paths_json", "last_error_type", "last_error_source",
    "circuit_open_until", "last_used_at", "backoff_level", "consecutive_use_count",
    "account_routing_strategy", "protocol_format">>

AccountColumns ==
  <<"proxy_url", "is_fedramp", "base_url", "protocol_format", "supported_endpoints_json">>

Members(s) == {s[i] : i \in 1 .. Len(s)}

\* The statements: CREATE TABLE IF NOT EXISTS, PRAGMA table_info, ALTER TABLE ADD COLUMN
\* of a column that table_info has not shown, CREATE INDEX IF NOT EXISTS.
Create(t, cols) == [op |-> "create", table |-> t, cols |-> cols \cup {"id"}]
Info(t)         == [op |-> "info",   table |-> t, cols |-> {}]
Add(t, c)       == [op |-> "add",    table |-> t, cols |-> {c}]
Index(t, cols)  == [op |-> "index",  table |-> t, cols |-> cols]

Upgrade(t, created, added) ==
  <<Create(t, created), Info(t)>> \o [i \in 1 .. Len(added) |-> Add(t, added[i])]

\* CREATE TABLE provider_accounts has two of the columns added later, the others every
\* file gets by ALTER TABLE.
ProviderTables ==
  Upgrade("provider_connections", Members(ConnectionColumns), ConnectionColumns)
  \o Upgrade("provider_accounts",
             {"provider_connection_id", "priority", "created_at", "enabled",
              "proxy_url", "is_fedramp"}, AccountColumns)
  \o <<Index("provider_accounts", {"provider_connection_id", "priority", "created_at"}),
       Index("provider_accounts", {"provider_connection_id", "enabled"})>>

SessionTable ==
  Upgrade("oauth_sessions", {"provider_connection_id", "created_at", "expires_at",
                             "proxy_url"}, <<"proxy_url">>)
  \o <<Index("oauth_sessions", {"provider_connection_id", "created_at"}),
       Index("oauth_sessions", {"expires_at"})>>

\* Mistake: the index is created before the column it names is added.
LogTables_IndexFirst ==
  LET logCols == {"request_id", "provider_id", "sequence_no", "created_at"} IN
  <<Create("request_debug_logs", logCols),
    Index("response_debug_logs", {"request_id", "sequence_no", "created_at"})>>
  \o Upgrade("response_debug_logs", logCols, <<"sequence_no">>)
  \o <<Create("llm_response_cache", {"cache_key"}), Create("request_logs", {"created_at"})>>

LogTables ==
  LET logCols == {"request_id", "provider_id", "sequence_no", "created_at"} IN
  <<Create("request_debug_logs", logCols)>>
  \o Upgrade("response_debug_logs", logCols, <<"sequence_no">>)
  \o <<Index("request_debug_logs", {"request_id", "sequence_no", "created_at"}),
       Index("request_debug_logs", {"provider_id", "created_at"}),
       Index("response_debug_logs", {"request_id", "sequence_no", "created_at"}),
       Index("response_debug_logs", {"provider_id", "created_at"}),
       Create("llm_response_cache", {"cache_key", "namespace", "expires_at"}),
       Index("llm_response_cache", {"cache_key", "namespace", "expires_at"}),
       Index("llm_response_cache", {"expires_at"}),
       Create("request_logs", {"created_at"}), Index("request_logs", {"created_at"})>>

OtherTables ==
  <<Create("combos", {}), Create("model_aliases", {}), Create("settings", {}),
    Create("api_keys", {"key_hash"}), Index("api_keys", {"key_hash"})>>

Script == ProviderTables \o SessionTable \o LogTables \o OtherTables

Tables  == {Script[i].table : i \in 1 .. Len(Script)}
Columns == UNION {Script[i].cols : i \in 1 .. Len(Script)}

\* A file as written by a version that had added only the first n columns.
AsOf(n) ==
  LET Adds    == SelectSeq(Script, LAMBDA s : s.op = "add")
      Later   == {i \in 1 .. Len(Adds) : i > n}
      Created(t) == UNION {Script[i].cols : i \in
                             {j \in 1 .. Len(Script) : Script[j].table = t /\ Script[j].op # "add"}}
      Known(t)   == UNION {Adds[i].cols : i \in {j \in 1 .. n : Adds[j].table = t}}
  IN  [t \in Tables |-> (Created(t) \cup Known(t))
                          \ UNION {Adds[i].cols : i \in {j \in Later : Adds[j].table = t}}]

NewFile == [t \in Tables |-> {}]

ASSUME FilesAssumption == Files \subseteq [Tables -> SUBSET Columns]
-------------------------------------------------------------------------------
VARIABLES
  columns,   \* columns[t]: the columns of table t in the file
  pos,       \* pos[p]: the statement program p is at
  seen       \* seen[p][t]: the columns table_info has shown p

schemaVars == <<columns, pos, seen>>

SchemaType ==
  /\ columns \in [Tables -> SUBSET Columns]
  /\ pos     \in [Programs -> 1 .. Len(Script) + 1]
  /\ seen    \in [Programs -> [Tables -> SUBSET Columns]]

SchemaInit ==
  /\ columns \in Files
  /\ pos  = [p \in Programs |-> 1]
  /\ seen = [p \in Programs |-> NewFile]

InitDbDone(p) == pos[p] > Len(Script)

\* ADD COLUMN of a column that is there, and an index on one that is not, are errors.
Fails(p) ==
  /\ ~InitDbDone(p)
  /\ LET s == Script[pos[p]] IN
       \/ s.op = "add"   /\ ~(s.cols \subseteq seen[p][s.table]) /\ s.cols \subseteq columns[s.table]
       \/ s.op = "index" /\ ~(s.cols \subseteq columns[s.table])

\* A statement that finds its work done: it changes nothing, and what made it idle is
\* never undone.
Idle(s, cols, shown) ==
  \/ s.op = "create" /\ cols[s.table] # {}
  \/ s.op = "add"    /\ s.cols \subseteq shown[s.table]
  \/ s.op = "index"  /\ s.cols \subseteq cols[s.table]

\* What the file's tables are after p's statement.
After(p) ==
  LET s == Script[pos[p]] IN
  CASE s.op = "create" /\ columns[s.table] = {} -> [columns EXCEPT ![s.table] = s.cols]
    [] s.op = "add"    -> [columns EXCEPT ![s.table] = @ \cup s.cols]
    [] OTHER           -> columns

\* The idle statements after p's are run with it.
Advance(p) ==
  pos' = [pos EXCEPT ![p] =
    CHOOSE j \in pos[p] + 1 .. Len(Script) + 1 :
      /\ j <= Len(Script) => ~Idle(Script[j], columns', seen'[p])
      /\ \A i \in pos[p] + 1 .. j - 1 : Idle(Script[i], columns', seen'[p])]

\* Mistake: a file that has the first table is taken for complete.
Execute_FirstTableOnly(p) ==
  /\ ~InitDbDone(p) /\ ~Fails(p)
  /\ LET s == Script[pos[p]] IN
       /\ columns' = After(p)
       /\ seen' = IF s.op = "info" THEN [seen EXCEPT ![p][s.table] = columns[s.table]] ELSE seen
  /\ IF pos[p] = 1 /\ columns[Script[1].table] # {} THEN pos' = [pos EXCEPT ![p] = Len(Script) + 1]
                                                  ELSE Advance(p)

\* One statement.
Execute(p) ==
  /\ ~InitDbDone(p) /\ ~Fails(p)
  /\ LET s == Script[pos[p]] IN
       /\ columns' = After(p)
       /\ seen' = IF s.op = "info" THEN [seen EXCEPT ![p][s.table] = columns[s.table]] ELSE seen
  /\ Advance(p)

\* A table_info that fails counts as a table without columns (unwrap_or_default).
InfoUnread(p) ==
  /\ ~InitDbDone(p) /\ Script[pos[p]].op = "info"
  /\ seen' = [seen EXCEPT ![p][Script[pos[p]].table] = {}]
  /\ UNCHANGED columns
  /\ Advance(p)

\* What init_db has read is gone when it returns.
EndOfInitDb(p) ==
  /\ seen' = [seen EXCEPT ![p] = NewFile]
  /\ UNCHANGED <<columns, pos>>

\* Mistake: the statements are counted from zero.
Rewind_ToZero(p) ==
  /\ pos'  = [pos  EXCEPT ![p] = 0]
  /\ seen' = [seen EXCEPT ![p] = NewFile]
  /\ UNCHANGED columns

\* The program is at the first statement again.
Rewind(p) ==
  /\ pos'  = [pos  EXCEPT ![p] = 1]
  /\ seen' = [seen EXCEPT ![p] = NewFile]
  /\ UNCHANGED columns
-------------------------------------------------------------------------------
\* Everything the queries of the program name is there.
Complete ==
  \A i \in 1 .. Len(Script) :
    LET s == Script[i] IN columns[s.table] # {} /\ (s.op \in {"add", "index"} => s.cols \subseteq columns[s.table])
===============================================================================
