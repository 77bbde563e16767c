------------------------------ MODULE SiteTables ------------------------------
(***************************************************************************)
(* One dynamic table of a site: the physical SQLite table, its entry in    *)
(* the registry dynamic_tables, its full-text index, the endpoints bound   *)
(* to it, and the goroutines that change them (tools/tables.go,            *)
(* tools/endpoints.go, server/public/handler.go, server/public/auth.go,    *)
(* server/admin/sitetables*.go).                                           *)
(*                                                                         *)
(* A goroutine is a tool call of the brain or of a chat, or an HTTP        *)
(* request.  One action is one SQL statement; the statements of different  *)
(* goroutines interleave, and only a transaction keeps the others away     *)
(* from the single connection of the writer pool (db/sitedb.go).           *)
(*                                                                         *)
(* The table has three columns: "name" (TEXT, the user name of an auth     *)
(* endpoint, full-text indexed), "secret" (TEXT or PASSWORD) and "role".   *)
(* A row keeps the name and how its secret is stored; what a role says is  *)
(* not modelled, only that the column exists.                              *)
(***************************************************************************)
EXTENDS Naturals, FiniteSets, TLC

CONSTANTS Callers,      \* goroutines
          NoCaller,     \* nobody holds the writer connection
          Users,        \* user names
          NoUser,       \* NULL in the name column
          Ops,          \* the operations this instance exercises
          MaxId,        \* bound on the ids of rows
          MaxCalls,     \* bound on the calls made
          MaxCrashes    \* bound on crashes of the process

AllOps == {"create", "alter", "drop", "create_api", "delete_api", "create_auth",
           "delete_auth", "create_ws", "create_oauth", "delete_oauth", "insert", "bulk",
           "update", "delete", "query", "count", "aggregate", "search", "api_insert",
           "api_update", "api_delete", "api_list", "api_get", "api_stats", "admin_insert",
           "admin_update", "admin_delete", "admin_rows", "register", "login", "oauth", "me", "ws"}

ASSUME TablesAssumption ==
    /\ IsFiniteSet(Callers) /\ IsFiniteSet(Users)
    /\ NoCaller \notin Callers /\ NoUser \notin Users
    /\ Ops \subseteq AllOps
    /\ MaxId \in Nat /\ MaxCalls \in Nat /\ MaxCrashes \in Nat

VARIABLES table,     \* the physical table: its columns and the type each was declared with
          rows,      \* its rows, by id
          seq,       \* sqlite_sequence: the last id AUTOINCREMENT gave
          registry,  \* the row of dynamic_tables: columns of schema_def, secure columns
          index,     \* the FTS5 table and its triggers
          endpoints, \* the endpoints bound to the table, an OAuth provider and its secret
          approval,  \* the owner's latest answer per approval key
          tx,        \* who holds the writer connection in a transaction
          staged,    \* the ids of the rows inserted by that transaction
          begun,     \* seq when it began
          calls,     \* what each goroutine is doing
          made,      \* number of calls so far
          crashes,   \* number of crashes so far
          completed, \* history: ids of the rows of calls that were answered
          leaked,    \* history: the kinds of calls that answered with a PASSWORD column
          steady     \* history: the secret has been a PASSWORD column all along, and registered as one

vars == <<table, rows, seq, registry, index, endpoints, approval, tx, staged, begun, calls,
          made, crashes, completed, leaked, steady>>
history == <<completed, leaked, steady>>
transaction == <<tx, staged, begun>>
data == <<rows, seq, index, transaction>>

Columns == {"name", "secret", "role"}
Types == {"absent", "TEXT", "PASSWORD"}
\* Not at all, as the statement was given it, as a bcrypt hash, or as a websocket message brought it.
Stored == {"null", "plain", "hashed", "raw"}
\* An approval key names what is lost: columns, or all of them with the table.
Keys == {Columns} \cup ((SUBSET {"secret", "role"}) \ {{}})
Triggers == {"ai", "ad", "au"}
NoTable == [c \in Columns |-> "absent"]
Exists == table # NoTable
Row == [name : Users \cup {NoUser}, secret : Stored]

\* The definitions a tool call creates the table with.
Schemas == {[name |-> "TEXT", secret |-> "PASSWORD", role |-> "absent"],
            [name |-> "TEXT", secret |-> "absent", role |-> "TEXT"]}

Secured(columns) == {c \in Columns : columns[c] = "PASSWORD"}
Present(columns) == {c \in Columns : columns[c] # "absent"}

\* The statements of the calls, by what they are about; a call that is not under way is idle.
Steps == {"idle", "record", "fts", "ai", "ad", "au", "columns", "drops", "secure", "table",
          "registry", "api", "auth", "upsert", "role", "schema", "secret", "provider", "load",
          "run", "rows", "strip", "user", "open"}

Idle == [op |-> "none", pc |-> "idle", secure |-> {}, todo |-> {}, drop |-> {},
         schema |-> NoTable, user |-> NoUser, seen |-> {}]

Bound == {"api", "auth", "ws", "oauth", "oauth_secret"}

\* A site that is new, or one whose build has made the table with its endpoints
\* and nobody has written to it.
InitTable ==
    \/ /\ table = NoTable
       /\ registry = [known |-> FALSE, schema |-> {}, secure |-> {}]
       /\ index = [exists |-> FALSE, triggers |-> {}, entries |-> {}, fresh |-> FALSE]
       /\ endpoints = {}
    \/ /\ table = [name |-> "TEXT", secret |-> "PASSWORD", role |-> "TEXT"]
       /\ registry = [known |-> TRUE, schema |-> Columns, secure |-> {"secret"}]
       /\ index = [exists |-> TRUE, triggers |-> Triggers, entries |-> {}, fresh |-> TRUE]
       /\ endpoints = Bound

Init ==
    /\ InitTable
    /\ rows = << >> /\ seq = 0
    /\ approval = [k \in Keys |-> "none"]
    /\ tx = NoCaller /\ staged = {} /\ begun = 0
    /\ calls = [c \in Callers |-> Idle]
    /\ made = 0 /\ crashes = 0
    /\ completed = {} /\ leaked = {} /\ steady = Exists

-----------------------------------------------------------------------------
(* Calls and statements *)

At(c, op, pc) == calls[c].op = op /\ calls[c].pc = pc
Begin(c, op) == calls[c].pc = "idle" /\ op \in Ops /\ made < MaxCalls /\ made' = made + 1
Goto(c, pc) == calls' = [calls EXCEPT ![c].pc = pc]
Done(c) == calls' = [calls EXCEPT ![c] = Idle]

\* A statement on the writer pool waits for its single connection.
Writer(c) == tx \in {NoCaller, c}

\* LoadSecureColumns: nothing when the registry does not know the table.
SecureColumns == IF registry.known THEN registry.secure ELSE {}

\* ProcessSecureValue: a value is hashed when its column is in the map that was loaded.
StoredAs(secure) == IF "secret" \in secure THEN "hashed" ELSE "plain"

-----------------------------------------------------------------------------
(* manage_schema *)

\* create: CREATE TABLE IF NOT EXISTS leaves a table that exists as it is.
CreateTable(c) ==
    /\ Begin(c, "create") /\ Writer(c)
    /\ \E schema \in Schemas, searchable \in {{}, {"name"}} :
          /\ calls' = [calls EXCEPT ![c] = [Idle EXCEPT !.op = "create", !.pc = "record",
                                              !.schema = schema, !.todo = searchable]]
          /\ table' = IF Exists THEN table ELSE schema
    /\ UNCHANGED <<data, registry, endpoints, approval, crashes, history>>

\* ... and the registry is told what was asked for, whether or not it was created.
RecordTable(c) ==
    /\ At(c, "create", "record") /\ Writer(c)
    /\ registry' = [known |-> TRUE, schema |-> Present(calls[c].schema),
                    secure |-> Secured(calls[c].schema)]
    /\ steady' = (steady /\ "secret" \in registry'.secure)
    /\ IF calls[c].todo = {} THEN Done(c) ELSE Goto(c, "fts")
    /\ UNCHANGED <<table, data, endpoints, approval, made, crashes, completed, leaked>>

\* createFTSIndex: the virtual table, then a trigger per kind of change; the
\* rows that exist already are not read.  Errors end the call, which succeeds.
CreateIndex(c) ==
    /\ At(c, "create", "fts") /\ Writer(c)
    /\ index' = [index EXCEPT !.exists = TRUE]
    /\ Goto(c, "ai")
    /\ UNCHANGED <<table, rows, seq, transaction, registry, endpoints, approval, made,
                   crashes, history>>

CreateTrigger(c) ==
    /\ \E t \in Triggers : At(c, "create", t)
    /\ Writer(c)
    /\ LET t == calls[c].pc
       IN  /\ index' = IF ~Exists \/ t \in index.triggers THEN index
                       ELSE [index EXCEPT
                               !.triggers = @ \cup {t},
                               !.fresh = t = "au" /\ rows = << >> /\ index.entries = {}
                                         /\ index.triggers = {"ai", "ad"}]
           /\ IF t = "au" \/ ~Exists THEN Done(c) ELSE Goto(c, IF t = "ai" THEN "ad" ELSE "au")
    /\ UNCHANGED <<table, rows, seq, transaction, registry, endpoints, approval, made,
                   crashes, history>>

\* alter: the secure columns are read before anything is changed ...
Alter(c) ==
    /\ Begin(c, "alter") /\ Writer(c)
    /\ \E add \in SUBSET {"secret", "role"}, drop \in SUBSET {"secret", "role"} :
          /\ add \cup drop # {}
          /\ calls' = [calls EXCEPT ![c] = [Idle EXCEPT !.op = "alter", !.pc = "columns",
                         !.secure = SecureColumns, !.todo = add, !.drop = drop]]
    /\ UNCHANGED <<table, data, registry, endpoints, approval, crashes, history>>

\* ... the columns are added one by one (a failing one ends the call) ...
AddColumn(c) ==
    /\ At(c, "alter", "columns") /\ Writer(c)
    /\ \E column \in calls[c].todo :
          LET type == IF column = "secret" THEN "PASSWORD" ELSE "TEXT"
          IN  IF Exists /\ table[column] = "absent"
              THEN /\ table' = [table EXCEPT ![column] = type]
                   /\ calls' = [calls EXCEPT ![c].todo = @ \ {column},
                                  ![c].secure = IF type = "PASSWORD" THEN @ \cup {column} ELSE @]
              ELSE table' = table /\ Done(c)
    /\ UNCHANGED <<data, registry, endpoints, approval, made, crashes, history>>

\* Mutant: any answer is taken for an approval.
CheckApprovalAnyAnswer(key) == approval[key] \in {"approve", "other"}

\* CheckApproval: the owner's latest answer approves.
CheckApproval(key) == approval[key] = "approve"

\* RequestApproval: asks unless the owner has denied, and the tool call ends there.
RequestApproval(key) ==
    approval' = IF approval[key] = "deny" THEN approval
                ELSE [approval EXCEPT ![key] = "pending"]

\* ... columns are dropped only with the owner's approval ...
GateColumns(c) ==
    /\ At(c, "alter", "columns") /\ calls[c].todo = {} /\ Writer(c)
    /\ \/ calls[c].drop = {} /\ Goto(c, "secure") /\ UNCHANGED approval
       \/ calls[c].drop # {} /\ CheckApproval(calls[c].drop) /\ Goto(c, "drops") /\ UNCHANGED approval
       \/ calls[c].drop # {} /\ ~CheckApproval(calls[c].drop)
          /\ RequestApproval(calls[c].drop) /\ Done(c)
    /\ UNCHANGED <<table, data, registry, endpoints, made, crashes, history>>

DropColumn(c) ==
    /\ At(c, "alter", "drops") /\ Writer(c)
    /\ \/ /\ calls[c].drop = {} /\ Goto(c, "secure")
          /\ UNCHANGED <<table, rows>>
       \/ \E column \in calls[c].drop :
             IF table[column] # "absent"
             THEN /\ table' = [table EXCEPT ![column] = "absent"]
                  /\ rows' = IF column = "secret"
                             THEN [id \in DOMAIN rows |-> [rows[id] EXCEPT !.secret = "null"]]
                             ELSE rows
                  /\ calls' = [calls EXCEPT ![c].drop = @ \ {column},
                                            ![c].secure = @ \ {column}]
             ELSE UNCHANGED <<table, rows>> /\ Done(c)
    /\ steady' = (steady /\ table'["secret"] # "absent")
    /\ UNCHANGED <<seq, index, transaction, registry, endpoints, approval, made, crashes,
                   completed, leaked>>

\* ... and the registry gets the map read at the start with the changes made to it.
UpdateSecure(c) ==
    /\ At(c, "alter", "secure") /\ Writer(c)
    /\ registry' = IF registry.known THEN [registry EXCEPT !.secure = calls[c].secure]
                   ELSE registry
    /\ steady' = (steady /\ "secret" \in registry'.secure)
    /\ Done(c)
    /\ UNCHANGED <<table, data, endpoints, approval, made, crashes, completed, leaked>>

\* drop: a registered table, with the owner's approval ...
DropCheck(c) ==
    /\ Begin(c, "drop") /\ Writer(c)
    /\ \/ ~registry.known /\ UNCHANGED <<calls, approval>>
       \/ /\ registry.known /\ CheckApproval(Columns) /\ UNCHANGED approval
          /\ calls' = [calls EXCEPT ![c] = [Idle EXCEPT !.op = "drop", !.pc = "table"]]
       \/ /\ registry.known /\ ~CheckApproval(Columns) /\ RequestApproval(Columns)
          /\ UNCHANGED calls
    /\ UNCHANGED <<table, data, registry, endpoints, crashes, history>>

\* ... DROP TABLE takes rows, triggers and sequence with it, not the FTS table ...
DropTable(c) ==
    /\ At(c, "drop", "table") /\ Writer(c)
    /\ table' = NoTable /\ rows' = << >> /\ seq' = 0
    /\ index' = [index EXCEPT !.triggers = {}, !.fresh = FALSE]
    /\ completed' = {} /\ steady' = FALSE
    /\ Goto(c, "registry")
    /\ UNCHANGED <<transaction, registry, endpoints, approval, made, crashes, leaked>>

\* ... then the registry entry, the API endpoints and the auth endpoints go.
DropEntries(c) ==
    /\ calls[c].op = "drop" /\ Writer(c)
    /\ \/ /\ At(c, "drop", "registry") /\ Goto(c, "api")
          /\ registry' = [known |-> FALSE, schema |-> {}, secure |-> {}]
          /\ UNCHANGED endpoints
       \/ /\ At(c, "drop", "api") /\ Goto(c, "auth")
          /\ endpoints' = endpoints \ {"api"} /\ UNCHANGED registry
       \/ /\ At(c, "drop", "auth") /\ Done(c)
          /\ endpoints' = endpoints \ {"auth"} /\ UNCHANGED registry
    /\ UNCHANGED <<table, data, approval, made, crashes, history>>

\* The owner answers the approval question: approves, denies, or says something else.
Answer ==
    /\ \E key \in Keys, answer \in {"approve", "deny", "other"} :
          /\ approval[key] = "pending"
          /\ approval' = [approval EXCEPT ![key] = answer]
    /\ UNCHANGED <<table, data, registry, endpoints, calls, made, crashes, history>>

-----------------------------------------------------------------------------
(* manage_endpoints and the owner's endpoint pages *)

\* createAPI: the table is looked up in the registry, the endpoint inserted later.
CreateAPI(c) ==
    /\ Writer(c)
    /\ \/ /\ Begin(c, "create_api") /\ UNCHANGED endpoints
          /\ calls' = IF registry.known
                      THEN [calls EXCEPT ![c] = [Idle EXCEPT !.op = "create_api", !.pc = "upsert"]]
                      ELSE calls
       \/ /\ At(c, "create_api", "upsert") /\ Done(c) /\ made' = made
          /\ endpoints' = endpoints \cup {"api"}
    /\ UNCHANGED <<table, data, registry, approval, crashes, history>>

\* createAuth: wants a registered PASSWORD column, the name in schema_def and a
\* physical table; the role column is added when schema_def does not have it.
CreateAuth(c) ==
    /\ Begin(c, "create_auth") /\ Writer(c)
    /\ calls' = IF registry.known /\ "secret" \in registry.secure
                   /\ "name" \in registry.schema /\ Exists
                THEN [calls EXCEPT ![c] = [Idle EXCEPT !.op = "create_auth",
                        !.pc = IF "role" \in registry.schema THEN "upsert" ELSE "role"]]
                ELSE calls
    /\ UNCHANGED <<table, data, registry, endpoints, approval, crashes, history>>

AddRole(c) ==
    /\ At(c, "create_auth", "role") /\ Writer(c)
    /\ IF Exists /\ table["role"] = "absent"
       THEN table' = [table EXCEPT !["role"] = "TEXT"] /\ Goto(c, "schema")
       ELSE table' = table /\ Done(c)
    /\ UNCHANGED <<data, registry, endpoints, approval, made, crashes, history>>

UpdateSchema(c) ==
    /\ At(c, "create_auth", "schema") /\ Writer(c)
    /\ registry' = IF registry.known THEN [registry EXCEPT !.schema = @ \cup {"role"}] ELSE registry
    /\ Goto(c, "upsert")
    /\ UNCHANGED <<table, data, endpoints, approval, made, crashes, history>>

InsertAuth(c) ==
    /\ At(c, "create_auth", "upsert") /\ Writer(c)
    /\ endpoints' = endpoints \cup {"auth"} /\ Done(c)
    /\ UNCHANGED <<table, data, registry, approval, made, crashes, history>>

\* createWebSocket: the table it writes to is not looked up.
CreateWebSocket(c) ==
    /\ Begin(c, "create_ws") /\ Writer(c)
    /\ endpoints' = endpoints \cup {"ws"}
    /\ UNCHANGED <<table, data, registry, approval, calls, crashes, history>>

\* createOAuth: an auth endpoint must exist; the secret is stored, then the provider.
CreateOAuth(c) ==
    /\ Writer(c)
    /\ \/ /\ Begin(c, "create_oauth") /\ "auth" \in endpoints /\ UNCHANGED endpoints
          /\ calls' = [calls EXCEPT ![c] = [Idle EXCEPT !.op = "create_oauth", !.pc = "secret"]]
       \/ /\ At(c, "create_oauth", "secret") /\ Goto(c, "provider") /\ made' = made
          /\ endpoints' = endpoints \cup {"oauth_secret"}
       \/ /\ At(c, "create_oauth", "provider") /\ Done(c) /\ made' = made
          /\ endpoints' = endpoints \cup {"oauth"}
    /\ UNCHANGED <<table, data, registry, approval, crashes, history>>

\* deleteOAuth: the secret goes first.
DeleteOAuth(c) ==
    /\ Writer(c)
    /\ \/ /\ Begin(c, "delete_oauth") /\ endpoints' = endpoints \ {"oauth_secret"}
          /\ calls' = [calls EXCEPT ![c] = [Idle EXCEPT !.op = "delete_oauth", !.pc = "provider"]]
       \/ /\ At(c, "delete_oauth", "provider") /\ Done(c) /\ made' = made
          /\ endpoints' = endpoints \ {"oauth"}
    /\ UNCHANGED <<table, data, registry, approval, crashes, history>>

DeleteEndpoint(c) ==
    /\ Writer(c)
    /\ \E e \in {"api", "auth"} :
          /\ Begin(c, IF e = "api" THEN "delete_api" ELSE "delete_auth")
          /\ e \in endpoints /\ endpoints' = endpoints \ {e}
    /\ UNCHANGED <<table, data, registry, approval, calls, crashes, history>>

-----------------------------------------------------------------------------
(* Rows, as the triggers and every writer see them *)

Entries(ids, rs) == {<<id, rs[id].name>> : id \in ids}

\* The ids an INSERT may use: AUTOINCREMENT's next, or one it names that is free.
NextId == seq + 1
FreeIds == {NextId} \cup ((1..MaxId) \ DOMAIN rows)

\* Mutant: a plain INTEGER PRIMARY KEY, one more than the largest id in the table.
InsertedLargest(id, row) ==
    LET given == CHOOSE i \in 1..MaxId : /\ \A j \in DOMAIN rows : j < i
                                          /\ (i = 1 \/ i - 1 \in DOMAIN rows)
    IN  [i \in DOMAIN rows \cup {given} |-> IF i = given THEN row ELSE rows[i]]

Inserted(id, row) == [i \in DOMAIN rows \cup {id} |-> IF i = id THEN row ELSE rows[i]]

\* One INSERT, and the index after its AFTER INSERT trigger.
InsertRow(id, row) ==
    /\ id <= MaxId
    /\ rows' = Inserted(id, row)
    /\ seq' = IF id > seq THEN id ELSE seq
    /\ index' = IF "ai" \in index.triggers
                THEN [index EXCEPT !.entries = @ \cup {<<id, row.name>>}] ELSE index

\* An INSERT that names the secret fails when the table has no such column.
Insertable(withSecret) == Exists /\ (withSecret => table["secret"] # "absent")

ChangeRow(id, row) ==
    /\ rows' = [rows EXCEPT ![id] = row]
    /\ index' = IF "au" \in index.triggers
                THEN [index EXCEPT !.entries = (@ \ {<<id, rows[id].name>>}) \cup {<<id, row.name>>}]
                ELSE index

\* Mutant: no AFTER DELETE trigger.
RemoveRowUnindexed(id) ==
    /\ rows' = [i \in DOMAIN rows \ {id} |-> rows[i]]
    /\ UNCHANGED index

RemoveRow(id) ==
    /\ rows' = [i \in DOMAIN rows \ {id} |-> rows[i]]
    /\ index' = IF "ad" \in index.triggers
                THEN [index EXCEPT !.entries = @ \ {<<id, rows[id].name>>}] ELSE index

-----------------------------------------------------------------------------
(* manage_data, the CRUD endpoints and the owner's table pages *)

APIOps == {"api_insert", "api_update", "api_delete", "api_list", "api_get", "api_stats"}
AdminOps == {"admin_insert", "admin_update", "admin_delete", "admin_rows"}
ToolOps == {"insert", "bulk", "update", "delete", "query", "count", "aggregate"}

Start(c, op, pc) ==
    /\ Begin(c, op)
    /\ calls' = [calls EXCEPT ![c] = [Idle EXCEPT !.op = op, !.pc = pc]]
    /\ UNCHANGED <<table, data, registry, endpoints, approval, crashes, history>>

\* Execute dispatches a tool call; it needs neither registry nor endpoint.
Execute(c) ==
    \E op \in ToolOps : Start(c, op, IF op \in {"delete", "count", "aggregate"} THEN "run" ELSE "load")

\* DynamicAPI finds the endpoint, the owner's pages look the table up in the
\* registry, handleAuthRequest finds the auth endpoint.
DynamicAPI(c) == "api" \in endpoints /\ \E op \in APIOps : Start(c, op, "load")
RequireTable(c) ==
    registry.known /\ \E op \in AdminOps : Start(c, op, IF op = "admin_delete" THEN "run" ELSE "load")
AuthRequest(c) == "auth" \in endpoints /\ Start(c, "me", "run")

\* The secure columns are read by a statement of their own.
Load(c) ==
    /\ calls' = [calls EXCEPT ![c].secure = SecureColumns, ![c].pc = "run"]
    /\ UNCHANGED <<table, data, registry, endpoints, approval, made, crashes, history>>
LoadSecure(c) == /\ calls[c].op \in ToolOps \cup AdminOps /\ calls[c].pc = "load"
                 /\ (calls[c].op \in ToolOps => Writer(c))
                 /\ Load(c)
LoadEndpoint(c) == calls[c].op \in APIOps /\ calls[c].pc = "load" /\ Load(c)

\* A failing statement ends the call.
InsertOne(c, ids) ==
    /\ tx = NoCaller
    /\ \E user \in Users, withSecret \in BOOLEAN, id \in ids :
          IF Insertable(withSecret)
          THEN /\ InsertRow(id, [name |-> user,
                                secret |-> IF withSecret THEN StoredAs(calls[c].secure) ELSE "null"])
               /\ completed' = completed \cup {id}
          ELSE UNCHANGED <<rows, seq, index, completed>>
    /\ Done(c)
    /\ UNCHANGED <<table, registry, endpoints, approval, transaction, made, crashes, leaked, steady>>

\* A tool call and the owner may name the id, a visitor may not.
InsertSingle(c) == At(c, "insert", "run") /\ InsertOne(c, FreeIds)
ApiInsert(c) == At(c, "api_insert", "run") /\ InsertOne(c, {NextId})
AdminInsertRow(c) == At(c, "admin_insert", "run") /\ InsertOne(c, FreeIds)

\* The name and the secret of a row are set.
UpdateOne(c) ==
    /\ tx = NoCaller
    /\ IF Insertable(TRUE) /\ DOMAIN rows # {}
       THEN \E id \in DOMAIN rows, user \in Users :
               ChangeRow(id, [name |-> user, secret |-> StoredAs(calls[c].secure)])
       ELSE UNCHANGED <<rows, index>>
    /\ Done(c)
    /\ UNCHANGED <<table, registry, endpoints, approval, seq, transaction, made, crashes, history>>

DataUpdate(c) == At(c, "update", "run") /\ UpdateOne(c)
ApiUpdate(c) == At(c, "api_update", "run") /\ UpdateOne(c)
AdminUpdateRow(c) == At(c, "admin_update", "run") /\ UpdateOne(c)

DeleteOne(c) ==
    /\ tx = NoCaller
    /\ IF DOMAIN rows # {} THEN \E id \in DOMAIN rows : RemoveRow(id)
       ELSE UNCHANGED <<rows, index>>
    /\ Done(c)
    /\ UNCHANGED <<table, registry, endpoints, approval, seq, transaction, made, crashes, history>>

Del(c) == At(c, "delete", "run") /\ DeleteOne(c)
ApiDelete(c) == At(c, "api_delete", "run") /\ DeleteOne(c)
AdminDeleteRow(c) == At(c, "admin_delete", "run") /\ DeleteOne(c)

\* insertBulk: a transaction on the writer connection, one statement per row.
\* What it inserted is in rows already; readers on other connections see it
\* only when it is committed.
BulkBegin(c) ==
    /\ At(c, "bulk", "run") /\ tx = NoCaller
    /\ tx' = c /\ begun' = seq /\ Goto(c, "rows")
    /\ UNCHANGED <<table, rows, seq, index, staged, registry, endpoints, approval, made,
                   crashes, history>>

BulkRow(c) ==
    /\ At(c, "bulk", "rows") /\ tx = c
    /\ Cardinality(staged) < 2 /\ Insertable(TRUE)
    /\ \E user \in Users, id \in FreeIds :
          /\ InsertRow(id, [name |-> user, secret |-> StoredAs(calls[c].secure)])
          /\ staged' = staged \cup {id}
    /\ UNCHANGED <<table, tx, begun, registry, endpoints, approval, calls, made, crashes, history>>

BulkCommit(c) ==
    /\ At(c, "bulk", "rows") /\ tx = c /\ Cardinality(staged) = 2
    /\ tx' = NoCaller /\ staged' = {} /\ begun' = 0 /\ Done(c)
    /\ completed' = completed \cup staged
    /\ UNCHANGED <<table, rows, seq, index, registry, endpoints, approval, made, crashes, leaked, steady>>

\* Mutant: the rows were inserted one by one, outside a transaction.
UndoBulkKeepsRows == tx' = NoCaller /\ staged' = {} /\ begun' = 0 /\ UNCHANGED <<rows, seq, index>>

\* The rollback undoes rows, index and sequence.
UndoBulk ==
    /\ rows' = [id \in DOMAIN rows \ staged |-> rows[id]]
    /\ seq' = IF tx = NoCaller THEN seq ELSE begun
    /\ index' = [index EXCEPT !.entries = @ \ Entries(staged, rows)]
    /\ tx' = NoCaller /\ staged' = {} /\ begun' = 0

\* A row that is not an object, has a bad column name or cannot be inserted.
BulkFails(c) ==
    /\ At(c, "bulk", "rows") /\ tx = c
    /\ UndoBulk /\ Done(c)
    /\ UNCHANGED <<table, registry, endpoints, approval, made, crashes, history>>

\* What a reader on connection of c is shown: the committed rows.
Visible(c) == IF tx = c THEN DOMAIN rows ELSE DOMAIN rows \ staged

\* An answer with these columns of the rows.
Show(c, columns) ==
    /\ Done(c)
    /\ leaked' = IF Visible(c) # {} /\ Secured(table) \cap columns # {}
                 THEN leaked \cup {calls[c].op} ELSE leaked
    /\ UNCHANGED <<table, data, registry, endpoints, approval, made, crashes, completed, steady>>

\* stripSecureColumns, stripSecureCols and their like: kind hash is left out.
Stripped(secure) == Present(table) \ secure
\* Mutant: without a list of public columns, all are selected.
VisibleColumnsAll(secure) == {{"name"} \ secure, Present(table)}

\* visibleColumns: a list of public columns without those of kind hash, or all.
VisibleColumns(secure) == {{"name"} \ secure, Stripped(secure)}

Query(c) == At(c, "query", "run") /\ Writer(c) /\ Show(c, Stripped(calls[c].secure))
Count(c) == At(c, "count", "run") /\ Writer(c) /\ Show(c, {})
\* aggregate groups by any column it is asked to.
Aggregate(c) ==
    At(c, "aggregate", "run") /\ Writer(c) /\ \E by \in SUBSET Present(table) : Show(c, by)
ApiList(c) ==
    At(c, "api_list", "run") /\ \E cols \in VisibleColumns(calls[c].secure) : Show(c, cols)
ApiGetOne(c) ==
    At(c, "api_get", "run") /\ \E cols \in VisibleColumns(calls[c].secure) : Show(c, cols)
\* apiStats refuses to aggregate on or group by a column of kind hash.
ApiStats(c) ==
    At(c, "api_stats", "run") /\ \E by \in SUBSET Stripped(calls[c].secure) : Show(c, by)
AdminRows(c) == At(c, "admin_rows", "run") /\ Show(c, Stripped(calls[c].secure))
AuthMe(c) == At(c, "me", "run") /\ Writer(c) /\ Show(c, {"name"})

\* search: the index is asked first, the secure columns are read afterwards.
Search(c) ==
    /\ Writer(c)
    /\ \/ /\ Begin(c, "search") /\ index.exists
          /\ calls' = [calls EXCEPT ![c] = [Idle EXCEPT !.op = "search", !.pc = "strip",
                         !.seen = {e[1] : e \in index.entries} \cap DOMAIN rows]]
          /\ leaked' = leaked
       \/ /\ At(c, "search", "strip") /\ Done(c) /\ made' = made
          /\ leaked' = IF calls[c].seen # {} /\ Secured(table) \ SecureColumns # {}
                       THEN leaked \cup {"search"} ELSE leaked
    /\ UNCHANGED <<table, data, registry, endpoints, approval, crashes, completed, steady>>

-----------------------------------------------------------------------------
(* Site users *)

\* oauthCallback gets as far as the user when provider, secret and role column are there.
OAuthReady == {"oauth", "oauth_secret"} \subseteq endpoints /\ table["role"] # "absent"

\* authRegister and oauthCallback look the user up by name ...
FindUser(c) ==
    /\ tx = NoCaller
    /\ \E op \in {"register", "oauth"}, user \in Users :
          /\ Begin(c, op) /\ "auth" \in endpoints /\ (op = "oauth" => OAuthReady)
          /\ \A id \in DOMAIN rows : rows[id].name # user
          /\ calls' = [calls EXCEPT ![c] = [Idle EXCEPT !.op = op, !.pc = "user", !.user = user]]
    /\ UNCHANGED <<table, data, registry, endpoints, approval, crashes, history>>

\* ... and insert the row, its password hashed whatever the registry says; a
\* registration names only columns the table has, and stops when one of its
\* two is missing; a login by OAuth names all three.
InsertUser(c) ==
    /\ calls[c].op \in {"register", "oauth"} /\ calls[c].pc = "user" /\ tx = NoCaller
    /\ IF Insertable(TRUE) /\ (calls[c].op = "oauth" => table["role"] # "absent")
       THEN /\ InsertRow(NextId, [name |-> calls[c].user, secret |-> "hashed"])
            /\ completed' = completed \cup {NextId}
       ELSE UNCHANGED <<rows, seq, index, completed>>
    /\ Done(c)
    /\ UNCHANGED <<table, registry, endpoints, approval, transaction, made, crashes, leaked, steady>>

\* authLogin, and oauthCallback for a user it finds: the token carries the id
\* of the first row with the name.
Login(c) ==
    /\ "auth" \in endpoints /\ tx = NoCaller
    /\ \E id \in DOMAIN rows, op \in {"login", "oauth"} :
          /\ Begin(c, op)
          /\ rows[id].name \in Users
          /\ (op = "login" => rows[id].secret = "hashed") /\ (op = "oauth" => OAuthReady)
          /\ \A i \in DOMAIN rows : rows[i].name = rows[id].name => id <= i
          /\ completed' = completed \cup {id}
    /\ UNCHANGED <<table, data, registry, endpoints, approval, calls, crashes, leaked, steady>>

-----------------------------------------------------------------------------
(* Websocket messages written to the table *)

\* loadWSEndpoint keeps the columns of schema_def for as long as the socket is open.
WSConnect(c) ==
    /\ Begin(c, "ws") /\ "ws" \in endpoints
    /\ calls' = [calls EXCEPT ![c] = [Idle EXCEPT !.op = "ws", !.pc = "open", !.todo = registry.schema]]
    /\ UNCHANGED <<table, data, registry, endpoints, approval, crashes, history>>

\* wsWriteToTable: the fields that are columns are inserted as they came; errors
\* are ignored, and so is a message when no column was known.  The socket closes after the message here.
WSMessage(c) ==
    /\ At(c, "ws", "open") /\ tx = NoCaller
    /\ \E user \in Users, fields \in SUBSET calls[c].todo :
          IF fields # {} /\ Exists /\ \A f \in fields : table[f] # "absent"
          THEN InsertRow(NextId, [name |-> IF "name" \in fields THEN user ELSE NoUser,
                                 secret |-> IF "secret" \in fields THEN "raw" ELSE "null"])
          ELSE UNCHANGED <<rows, seq, index>>
    /\ completed' = completed \cup (DOMAIN rows' \ DOMAIN rows)
    /\ Done(c)
    /\ UNCHANGED <<table, registry, endpoints, approval, transaction, made, crashes, leaked, steady>>

-----------------------------------------------------------------------------

\* The process dies: a transaction is rolled back, every call is gone.
Crash ==
    /\ crashes < MaxCrashes /\ crashes' = crashes + 1
    /\ UndoBulk
    /\ calls' = [c \in Callers |-> Idle]
    /\ UNCHANGED <<table, registry, endpoints, approval, made, history>>

Next ==
    \/ \E c \in Callers :
          \/ CreateTable(c) \/ RecordTable(c) \/ CreateIndex(c) \/ CreateTrigger(c)
          \/ Alter(c) \/ AddColumn(c) \/ GateColumns(c) \/ DropColumn(c) \/ UpdateSecure(c)
          \/ DropCheck(c) \/ DropTable(c) \/ DropEntries(c)
          \/ CreateAPI(c) \/ CreateAuth(c) \/ AddRole(c) \/ UpdateSchema(c) \/ InsertAuth(c)
          \/ DeleteEndpoint(c) \/ CreateWebSocket(c) \/ CreateOAuth(c) \/ DeleteOAuth(c)
          \/ Execute(c) \/ DynamicAPI(c) \/ RequireTable(c) \/ AuthRequest(c)
          \/ LoadSecure(c) \/ LoadEndpoint(c)
          \/ InsertSingle(c) \/ ApiInsert(c) \/ AdminInsertRow(c)
          \/ DataUpdate(c) \/ ApiUpdate(c) \/ AdminUpdateRow(c)
          \/ Del(c) \/ ApiDelete(c) \/ AdminDeleteRow(c)
          \/ BulkBegin(c) \/ BulkRow(c) \/ BulkCommit(c) \/ BulkFails(c)
          \/ Query(c) \/ Count(c) \/ Aggregate(c) \/ ApiList(c) \/ ApiGetOne(c)
          \/ ApiStats(c) \/ AdminRows(c) \/ AuthMe(c) \/ Search(c)
          \/ FindUser(c) \/ InsertUser(c) \/ Login(c) \/ WSConnect(c) \/ WSMessage(c)
    \/ Answer \/ Crash

Spec == Init /\ [][Next]_vars

-----------------------------------------------------------------------------
(* Properties *)

\* The variables have their types.
TypeOK ==
    /\ table \in [Columns -> Types]
    /\ DOMAIN rows \subseteq 1..MaxId /\ \A id \in DOMAIN rows : rows[id] \in Row
    /\ seq \in 0..MaxId
    /\ registry \in [known : BOOLEAN, schema : SUBSET Columns, secure : SUBSET Columns]
    /\ index \in [exists : BOOLEAN, triggers : SUBSET Triggers, fresh : BOOLEAN,
                  entries : SUBSET ((1..MaxId) \X (Users \cup {NoUser}))]
    /\ endpoints \subseteq Bound
    /\ approval \in [Keys -> {"none", "pending", "approve", "deny", "other"}]
    /\ tx \in Callers \cup {NoCaller} /\ staged \subseteq 1..MaxId /\ begun \in 0..MaxId
    /\ calls \in [Callers -> [op : AllOps \cup {"none"}, pc : Steps, user : Users \cup {NoUser},
                   secure : SUBSET Columns, todo : SUBSET Columns, drop : SUBSET Columns,
                   schema : [Columns -> Types], seen : SUBSET (1..MaxId)]]
    /\ made \in 0..MaxCalls /\ crashes \in 0..MaxCrashes
    /\ completed \subseteq 1..MaxId /\ leaked \subseteq AllOps /\ steady \in BOOLEAN

\* What a call that failed or died inserted is gone: outside the transaction
\* under way, every row belongs to a call that got its answer (insertBulk's
\* transaction, the single statements of the other writers).
AllOrNothing == DOMAIN rows \ staged \subseteq completed

\* An id that was given out as the id of a row, in an answer or in a user's
\* token, is never given to a visitor's row of the same table, deletions, rolled
\* back inserts and rows that named their id notwithstanding (AUTOINCREMENT in
\* create, "Remove id field if provided" in apiInsert).
IdsNeverReused ==
    [][\A c \in Callers :
          calls[c].op \in {"api_insert", "register", "oauth", "ws"} /\ calls'[c] # calls[c]
             => (DOMAIN rows' \ DOMAIN rows) \cap completed = {}]_vars

\* A full-text index that was complete while the table was empty has exactly
\* the rows of the table, whoever writes them (createFTSIndex's triggers).
FreshIndexExact == index.fresh => index.entries = Entries(DOMAIN rows, rows)

\* The table and its columns are destroyed only with an approving answer of the
\* owner (the gates of alter and drop).
DestroyedOnlyWhenApproved ==
    [][\A c \in Columns : table[c] # "absent" /\ table'[c] = "absent" =>
          \E key \in Keys : c \in key /\ approval[key] = "approve"]_vars

\* As long as the table keeps its PASSWORD column and the registry knows it as one,
\* whatever else is altered, no tool call, visitor or owner stores a password as it
\* was given, and no answer shows the column, except that of the tool's aggregate,
\* which groups by any column.  Websocket messages are stored as they came
\* (LoadSecureColumns and ProcessSecureValue, visibleColumns, stripSecureColumns).
PasswordsProtected ==
    steady => /\ \A id \in DOMAIN rows : rows[id].secret # "plain"
              /\ leaked \subseteq {"aggregate"}

\* The rows are those of calls that were answered, and all variables have their types
\* (insertBulk and the other writers of rows).
TablesInv == TypeOK /\ AllOrNothing
=============================================================================
