--------------------------- MODULE SiteTables_proofs ---------------------------
(***************************************************************************)
(* For any number of goroutines, users, rows, calls and crashes: rows are  *)
(* there all or not at all, ids are given once, the index has the rows of  *)
(* the table, passwords stay hashed and unseen, and nothing is destroyed   *)
(* without an approval.                                                    *)
(***************************************************************************)
EXTENDS SiteTables, TLAPS

CallRec == [op : AllOps \cup {"none"}, pc : Steps, user : Users \cup {NoUser},
            secure : SUBSET Columns, todo : SUBSET Columns, drop : SUBSET Columns,
            schema : [Columns -> Types], seen : SUBSET (1..MaxId)]
RegistryRec == [known : BOOLEAN, schema : SUBSET Columns, secure : SUBSET Columns]
IndexRec == [exists : BOOLEAN, triggers : SUBSET Triggers, fresh : BOOLEAN,
             entries : SUBSET ((1..MaxId) \X (Users \cup {NoUser}))]
Answers == {"none", "pending", "approve", "deny", "other"}

\* The calls that read the secure columns before they write or answer.
Loading == {"insert", "bulk", "update", "query", "admin_insert", "admin_update", "admin_rows"} \cup APIOps

\* What a call knows is still right: a drop was approved, and so were the columns an
\* alter drops; the table a drop has taken is not steady; and a call that has read
\* the secure columns knows the password, if the table is.
CallSafe(r, answers, still) ==
    /\ r \in CallRec
    /\ r.op = "drop" /\ r.pc = "table" => answers[Columns] = "approve"
    /\ r.op = "drop" /\ r.pc \in {"registry", "api", "auth"} => ~still
    /\ r.op = "alter" => r.drop \subseteq {"secret", "role"}
    /\ r.op = "alter" /\ r.pc = "drops" =>
          \E key \in Keys : r.drop \subseteq key /\ answers[key] = "approve"
    /\ still /\ r.op \in Loading /\ r.pc \in {"run", "rows"} => "secret" \in r.secure

CallsInv ==
    /\ calls = [c \in Callers |-> calls[c]]
    /\ \A c \in Callers : CallSafe(calls[c], approval, steady)
    /\ tx # NoCaller => tx \in Callers /\ calls[tx].op = "bulk" /\ calls[tx].pc = "rows"

SchemaInv ==
    /\ table \in [Columns -> Types] /\ table["name"] # "PASSWORD" /\ table["role"] # "PASSWORD"
    /\ registry \in RegistryRec /\ endpoints \subseteq Bound /\ approval \in [Keys -> Answers]
    /\ made \in 0..MaxCalls /\ crashes \in 0..MaxCrashes /\ leaked \subseteq AllOps /\ steady \in BOOLEAN
    /\ steady => registry.known /\ "secret" \in registry.secure /\ leaked \subseteq {"aggregate"}

\* What a rollback leaves of the ids.
Kept == IF tx = NoCaller THEN seq ELSE begun
RowsInv ==
    /\ DOMAIN rows \subseteq 1..seq /\ \A id \in DOMAIN rows : rows[id] \in Row
    /\ seq \in 0..MaxId /\ begun \in 0..MaxId /\ tx \in Callers \cup {NoCaller}
    /\ staged \subseteq 1..seq /\ (tx = NoCaller => staged = {}) /\ Kept <= seq
    /\ completed \subseteq 1..Kept /\ DOMAIN rows \ staged \subseteq completed

IndexInv ==
    /\ index \in IndexRec
    /\ index.fresh => index.triggers = Triggers /\ index.entries = Entries(DOMAIN rows, rows)

NoPlain == steady => \A id \in DOMAIN rows : rows[id].secret # "plain"

TablesIInv == CallsInv /\ SchemaInv /\ RowsInv /\ IndexInv /\ NoPlain

--------------------------------------------------------------------------------
(* Facts about calls *)

LEMMA TheKeys ==
  /\ Columns \in Keys
  /\ \A drop \in SUBSET Columns : drop # {} /\ drop \subseteq {"secret", "role"} => drop \in Keys
<1>1. Columns \in Keys
  BY DEF Keys
<1>2. ASSUME NEW drop \in SUBSET Columns, drop # {}, drop \subseteq {"secret", "role"} PROVE drop \in Keys
  <2>1. drop \in SUBSET {"secret", "role"} /\ drop \notin {{}}
    BY <1>2
  <2> QED
    BY <2>1 DEF Keys
<1> QED
  BY <1>1, <1>2

LEMMA IdleRec ==
  /\ Idle \in CallRec /\ Idle.op = "none" /\ Idle.pc = "idle" /\ Idle.drop = {} /\ Idle.secure = {}
<1>1. NoTable \in [Columns -> Types] /\ {} \in SUBSET Columns /\ {} \in SUBSET (1..MaxId)
  BY DEF NoTable, Types
<1>2. /\ Idle.op = "none" /\ Idle.pc = "idle" /\ Idle.drop = {} /\ Idle.secure = {} /\ Idle.todo = {}
      /\ Idle.seen = {} /\ Idle.schema = NoTable /\ Idle.user = NoUser
  BY DEF Idle
<1>3. "none" \in AllOps \cup {"none"} /\ "idle" \in Steps /\ NoUser \in Users \cup {NoUser}
  BY DEF Steps
<1>4. Idle \in CallRec
  BY <1>1, <1>3 DEF Idle, CallRec
<1> QED
  BY <1>2, <1>4

LEMMA IdleSafe ==
  ASSUME NEW answers, NEW still
  PROVE  CallSafe(Idle, answers, still)
<1>1. "none" \notin Loading
  BY DEF Loading, APIOps
<1> QED
  BY <1>1, IdleRec DEF CallSafe

\* A call that starts with nothing but its name.
LEMMA StartedRec ==
  ASSUME NEW op \in AllOps, NEW pc \in Steps, NEW r, r = [Idle EXCEPT !.op = op, !.pc = pc]
  PROVE  r \in CallRec /\ r.op = op /\ r.pc = pc /\ r.drop = {} /\ r.secure = {}
  BY IdleRec DEF CallRec

LEMMA StartedSafe ==
  ASSUME NEW op \in AllOps, NEW pc \in Steps, NEW answers, NEW still,
         op # "drop", pc # "drops", op \in Loading => pc \notin {"run", "rows"}
  PROVE  CallSafe([Idle EXCEPT !.op = op, !.pc = pc], answers, still)
<1> DEFINE r == [Idle EXCEPT !.op = op, !.pc = pc]
<1>2. r \in CallRec /\ r.op = op /\ r.pc = pc /\ r.drop = {}
  BY IdleRec DEF CallRec
<1> HIDE DEF r
<1>3. CallSafe(r, answers, still)
  BY <1>2 DEF CallSafe
<1> QED
  BY <1>3 DEF r

\* The call c goes on as r.  Whoever else is there knows no less.
LEMMA CallMoves ==
  ASSUME CallsInv, NEW c \in Callers, NEW r, calls' = [calls EXCEPT ![c] = r],
         CallSafe(r, approval', steady'),
         \/ tx' = NoCaller
         \/ tx' = tx /\ tx # c
         \/ tx' = c /\ r.op = "bulk" /\ r.pc = "rows",
         steady' => steady,
         \A key \in Keys : approval[key] = "approve" => approval'[key] = "approve"
  PROVE  CallsInv'
<1>1. /\ calls' = [d \in Callers |-> calls'[d]] /\ calls'[c] = r
      /\ \A d \in Callers : d # c => calls'[d] = calls[d]
  BY DEF CallsInv
<1>2. ASSUME NEW d \in Callers, d # c PROVE CallSafe(calls[d], approval', steady')
  <2>1. CallSafe(calls[d], approval, steady)
    BY DEF CallsInv
  <2> QED
    BY <2>1, TheKeys DEF CallSafe
<1>3. \A d \in Callers : CallSafe(calls'[d], approval', steady')
  BY <1>1, <1>2
<1>4. tx' # NoCaller => tx' \in Callers /\ calls'[tx'].op = "bulk" /\ calls'[tx'].pc = "rows"
  BY <1>1 DEF CallsInv
<1> QED
  BY <1>1, <1>3, <1>4 DEF CallsInv

LEMMA SameCalls ==
  ASSUME CallsInv, UNCHANGED <<calls, tx>>, steady' => steady,
         \A key \in Keys : approval[key] = "approve" => approval'[key] = "approve"
  PROVE  CallsInv'
<1>1. ASSUME NEW d \in Callers PROVE CallSafe(calls[d], approval', steady')
  <2>1. CallSafe(calls[d], approval, steady)
    BY DEF CallsInv
  <2> QED
    BY <2>1, TheKeys DEF CallSafe
<1> QED
  BY <1>1 DEF CallsInv

LEMMA NotInTx ==
  ASSUME CallsInv, NEW c \in Callers, calls[c].op # "bulk" \/ calls[c].pc # "rows"
  PROVE  tx # c
  BY TablesAssumption DEF CallsInv

LEMMA CallFacts ==
  ASSUME TablesIInv, NEW c \in Callers
  PROVE  CallsInv /\ calls[c] \in CallRec /\ CallSafe(calls[c], approval, steady) /\ calls = [d \in Callers |-> calls[d]]
  BY DEF TablesIInv, CallsInv, CallSafe

\* The steps that leave the rows and what belongs to them alone.
LEMMA SameRows ==
  ASSUME TablesIInv, UNCHANGED <<rows, seq, index, tx, staged, begun, completed>>, steady' => steady
  PROVE  RowsInv' /\ IndexInv' /\ NoPlain'
  BY DEF TablesIInv, RowsInv, Kept, IndexInv, Entries, NoPlain

\* The steps of one call, or none, that do nothing but go on, or change an endpoint.
Aside == /\ UNCHANGED <<table, rows, seq, index, tx, staged, begun, registry, approval, crashes,
                        completed, leaked, steady>>
         /\ endpoints' \subseteq Bound /\ made' \in 0..MaxCalls

LEMMA AsideSchema ==
  ASSUME TablesIInv, Aside
  PROVE  SchemaInv' /\ RowsInv' /\ IndexInv' /\ NoPlain'
<1>1. SchemaInv'
  BY DEF TablesIInv, SchemaInv, Aside
<1>2. UNCHANGED <<rows, seq, index, tx, staged, begun, completed>> /\ (steady' => steady)
  BY DEF Aside
<1> QED
  BY <1>1, <1>2, SameRows

LEMMA OnlyCall ==
  ASSUME TablesIInv, Aside, NEW c \in Callers, NEW r, calls' = [calls EXCEPT ![c] = r],
         CallSafe(r, approval, steady), calls[c].op # "bulk" \/ calls[c].pc # "rows"
  PROVE  TablesIInv'
<1>1. CallsInv /\ tx # c
  BY NotInTx DEF TablesIInv
<1>2. UNCHANGED <<tx, approval, steady>>
  BY DEF Aside
<1>3. CallsInv'
  BY <1>1, <1>2, CallMoves
<1> QED
  BY <1>3, AsideSchema DEF TablesIInv

LEMMA NoCall ==
  ASSUME TablesIInv, Aside, UNCHANGED calls
  PROVE  TablesIInv'
<1>1. UNCHANGED <<tx, approval, steady>> /\ CallsInv
  BY DEF Aside, TablesIInv
<1>2. CallsInv'
  BY <1>1, SameCalls
<1> QED
  BY <1>2, AsideSchema DEF TablesIInv

\* The number of calls that begin.
LEMMA Begins ==
  ASSUME TablesIInv, NEW c \in Callers, NEW op, Begin(c, op)
  PROVE  /\ made' \in 0..MaxCalls /\ calls[c].pc = "idle" /\ op \in AllOps
         /\ (calls[c].op # "bulk" \/ calls[c].pc # "rows")
  BY TablesAssumption DEF Begin, TablesIInv, SchemaInv

\* Where a call goes that changes nothing else of itself.
LEMMA GoesTo ==
  ASSUME TablesIInv, NEW c \in Callers, NEW pc \in Steps, Goto(c, pc), NEW r, r = [calls[c] EXCEPT !.pc = pc]
  PROVE  /\ calls' = [calls EXCEPT ![c] = r] /\ r \in CallRec /\ r.pc = pc
         /\ r.op = calls[c].op /\ r.drop = calls[c].drop /\ r.secure = calls[c].secure
  BY CallFacts DEF Goto, CallRec

LEMMA BeginsAs ==
  ASSUME TablesIInv, Aside, NEW c \in Callers, NEW op \in AllOps \ {"drop"}, NEW pc \in Steps \ {"drops"},
         Begin(c, op), calls' = [calls EXCEPT ![c] = [Idle EXCEPT !.op = op, !.pc = pc]],
         op \in Loading => pc \notin {"run", "rows"}
  PROVE  TablesIInv'
<1>1. CallSafe([Idle EXCEPT !.op = op, !.pc = pc], approval, steady)
  BY StartedSafe
<1> QED
  BY <1>1, Begins, OnlyCall

LEMMA GoesOn ==
  ASSUME TablesIInv, Aside, NEW c \in Callers, NEW pc \in Steps, Goto(c, pc),
         calls[c].op \notin {"drop", "alter"} \cup Loading
  PROVE  TablesIInv'
<1> DEFINE r == [calls[c] EXCEPT !.pc = pc]
<1>1. /\ calls' = [calls EXCEPT ![c] = r] /\ r \in CallRec /\ r.pc = pc
      /\ r.op = calls[c].op /\ r.drop = calls[c].drop /\ r.secure = calls[c].secure
  BY CallFacts DEF Goto, CallRec
<1> HIDE DEF r
<1>2. CallSafe(r, approval, steady)
  BY <1>1 DEF CallSafe
<1>3. calls[c].op # "bulk"
  BY DEF Loading
<1> QED
  BY <1>1, <1>2, <1>3, OnlyCall

LEMMA Ends ==
  ASSUME TablesIInv, Aside, NEW c \in Callers, Done(c), calls[c].op # "bulk" \/ calls[c].pc # "rows"
  PROVE  TablesIInv'
  BY IdleSafe, OnlyCall DEF Done

--------------------------------------------------------------------------------
(* Calls that only go on *)

LEMMA StartKeeps ==
  ASSUME TablesIInv, NEW c \in Callers, NEW op \in AllOps \ {"drop"}, NEW pc \in {"run", "load"}, Start(c, op, pc),
         op \in Loading => pc = "load"
  PROVE  TablesIInv'
<1>1. Begin(c, op) /\ calls' = [calls EXCEPT ![c] = [Idle EXCEPT !.op = op, !.pc = pc]]
  BY DEF Start
<1>2. Aside
  BY <1>1, Begins DEF Start, Aside, data, transaction, history, TablesIInv, SchemaInv
<1>3. pc \in Steps \ {"drops"} /\ (op \in Loading => pc \notin {"run", "rows"})
  BY DEF Steps
<1> QED
  BY <1>1, <1>2, <1>3, BeginsAs

LEMMA RequestsKeep ==
  ASSUME TablesIInv, NEW c \in Callers, Execute(c) \/ DynamicAPI(c) \/ RequireTable(c) \/ AuthRequest(c)
  PROVE  TablesIInv'
<1>1. CASE Execute(c)
  <2>1. PICK op \in ToolOps : Start(c, op, IF op \in {"delete", "count", "aggregate"} THEN "run" ELSE "load")
    BY <1>1 DEF Execute
  <2>2. op \in AllOps /\ op # "drop" /\ (op \in {"delete", "count", "aggregate"} => op \notin Loading)
    BY <2>1 DEF ToolOps, AllOps, Loading, APIOps
  <2> QED
    BY <2>1, <2>2, StartKeeps
<1>2. CASE DynamicAPI(c)
  <2>1. PICK op \in APIOps : Start(c, op, "load")
    BY <1>2 DEF DynamicAPI
  <2>2. op \in AllOps /\ op # "drop"
    BY <2>1 DEF APIOps, AllOps
  <2> QED
    BY <2>1, <2>2, StartKeeps
<1>3. CASE RequireTable(c)
  <2>1. PICK op \in AdminOps : Start(c, op, IF op = "admin_delete" THEN "run" ELSE "load")
    BY <1>3 DEF RequireTable
  <2>2. op \in AllOps /\ op # "drop" /\ (op = "admin_delete" => op \notin Loading)
    BY <2>1 DEF AdminOps, AllOps, Loading, APIOps
  <2> QED
    BY <2>1, <2>2, StartKeeps
<1>4. CASE AuthRequest(c)
  <2>1. Start(c, "me", "run")
    BY <1>4 DEF AuthRequest
  <2>2. "me" \in AllOps /\ "me" \notin Loading
    BY DEF AllOps, Loading, APIOps
  <2> QED
    BY <2>1, <2>2, StartKeeps
<1> QED
  BY <1>1, <1>2, <1>3, <1>4

LEMMA EndpointsKeep ==
  ASSUME TablesIInv, NEW c \in Callers,
         CreateAPI(c) \/ InsertAuth(c) \/ CreateWebSocket(c) \/ CreateOAuth(c) \/ DeleteOAuth(c) \/ DeleteEndpoint(c)
  PROVE  TablesIInv'
<1> USE DEF data, transaction, history
<1>1. endpoints \subseteq Bound /\ made \in 0..MaxCalls
  BY DEF TablesIInv, SchemaInv
<1>2. CASE CreateAPI(c)
  <2>1. CASE Begin(c, "create_api")
    <3>1. Aside
      BY <1>1, <1>2, <2>1, Begins DEF CreateAPI, Aside, At
    <3>2. "create_api" \in AllOps \ {"drop"} /\ "create_api" \notin Loading /\ "upsert" \in Steps \ {"drops"}
      BY DEF AllOps, Loading, APIOps, Steps
    <3>3. \/ UNCHANGED calls
          \/ calls' = [calls EXCEPT ![c] = [Idle EXCEPT !.op = "create_api", !.pc = "upsert"]]
      BY <1>2, <2>1 DEF CreateAPI, At, Begin
    <3> QED
      BY <2>1, <3>1, <3>2, <3>3, BeginsAs, NoCall
  <2>2. CASE At(c, "create_api", "upsert") /\ Done(c) /\ made' = made /\ endpoints' = endpoints \cup {"api"}
    <3>1. Aside
      BY <1>1, <1>2, <2>2 DEF CreateAPI, Aside, Bound
    <3> QED
      BY <2>2, <3>1, Ends DEF At
  <2> QED
    BY <1>2, <2>1, <2>2 DEF CreateAPI
<1>3. CASE InsertAuth(c)
  <2>1. Aside
    BY <1>1, <1>3 DEF InsertAuth, Aside, Bound
  <2> QED
    BY <1>3, <2>1, Ends DEF InsertAuth, At
<1>4. CASE CreateWebSocket(c)
  <2>1. Aside
    BY <1>1, <1>4, Begins DEF CreateWebSocket, Aside, Bound
  <2> QED
    BY <1>4, <2>1, NoCall DEF CreateWebSocket
<1>5. CASE CreateOAuth(c)
  <2>1. CASE /\ Begin(c, "create_oauth") /\ UNCHANGED endpoints
             /\ calls' = [calls EXCEPT ![c] = [Idle EXCEPT !.op = "create_oauth", !.pc = "secret"]]
    <3>1. Aside
      BY <1>1, <1>5, <2>1, Begins DEF CreateOAuth, Aside
    <3>2. "create_oauth" \in AllOps \ {"drop"} /\ "create_oauth" \notin Loading /\ "secret" \in Steps \ {"drops"}
      BY DEF AllOps, Loading, APIOps, Steps
    <3> QED
      BY <2>1, <3>1, <3>2, BeginsAs
  <2>2. CASE At(c, "create_oauth", "secret") /\ Goto(c, "provider") /\ made' = made
             /\ endpoints' = endpoints \cup {"oauth_secret"}
    <3>1. Aside
      BY <1>1, <1>5, <2>2 DEF CreateOAuth, Aside, Bound
    <3>2. calls[c].op \notin {"drop", "alter"} \cup Loading /\ "provider" \in Steps
      BY <2>2 DEF At, Loading, APIOps, Steps
    <3> QED
      BY <2>2, <3>1, <3>2, GoesOn
  <2>3. CASE At(c, "create_oauth", "provider") /\ Done(c) /\ made' = made
             /\ endpoints' = endpoints \cup {"oauth"}
    <3>1. Aside
      BY <1>1, <1>5, <2>3 DEF CreateOAuth, Aside, Bound
    <3> QED
      BY <2>3, <3>1, Ends DEF At
  <2> QED
    BY <1>5, <2>1, <2>2, <2>3 DEF CreateOAuth
<1>6. CASE DeleteOAuth(c)
  <2>1. CASE /\ Begin(c, "delete_oauth") /\ endpoints' = endpoints \ {"oauth_secret"}
             /\ calls' = [calls EXCEPT ![c] = [Idle EXCEPT !.op = "delete_oauth", !.pc = "provider"]]
    <3>1. Aside
      BY <1>1, <1>6, <2>1, Begins DEF DeleteOAuth, Aside
    <3>2. "delete_oauth" \in AllOps \ {"drop"} /\ "delete_oauth" \notin Loading /\ "provider" \in Steps \ {"drops"}
      BY DEF AllOps, Loading, APIOps, Steps
    <3> QED
      BY <2>1, <3>1, <3>2, BeginsAs
  <2>2. CASE At(c, "delete_oauth", "provider") /\ Done(c) /\ made' = made /\ endpoints' = endpoints \ {"oauth"}
    <3>1. Aside
      BY <1>1, <1>6, <2>2 DEF DeleteOAuth, Aside
    <3> QED
      BY <2>2, <3>1, Ends DEF At
  <2> QED
    BY <1>6, <2>1, <2>2 DEF DeleteOAuth
<1>7. CASE DeleteEndpoint(c)
  <2>1. PICK e \in {"api", "auth"} : Begin(c, IF e = "api" THEN "delete_api" ELSE "delete_auth")
                                     /\ endpoints' = endpoints \ {e}
    BY <1>7 DEF DeleteEndpoint
  <2>2. Aside
    BY <1>1, <1>7, <2>1, Begins DEF DeleteEndpoint, Aside
  <2> QED
    BY <1>7, <2>2, NoCall DEF DeleteEndpoint
<1> QED
  BY <1>2, <1>3, <1>4, <1>5, <1>6, <1>7

\* The calls that begin with something in hand.
LEMMA OpensKeep ==
  ASSUME TablesIInv, NEW c \in Callers, CreateAuth(c) \/ Alter(c) \/ FindUser(c) \/ WSConnect(c)
  PROVE  TablesIInv'
<1> USE DEF data, transaction, history
<1>1. endpoints \subseteq Bound /\ registry \in RegistryRec /\ SecureColumns \subseteq Columns
  BY DEF TablesIInv, SchemaInv, SecureColumns, RegistryRec
<1>2. CASE CreateAuth(c)
  <2>1. Aside
    BY <1>1, <1>2, Begins DEF CreateAuth, Aside
  <2>2. CASE UNCHANGED calls
    BY <2>1, <2>2, NoCall
  <2>3. CASE calls' # calls
    <3>1. PICK pc \in {"upsert", "role"} : calls' = [calls EXCEPT ![c] = [Idle EXCEPT !.op = "create_auth", !.pc = pc]]
      BY <1>2, <2>3 DEF CreateAuth
    <3>2. "create_auth" \in AllOps \ {"drop"} /\ "create_auth" \notin Loading /\ pc \in Steps \ {"drops"}
      BY <3>1 DEF AllOps, Loading, APIOps, Steps
    <3> QED
      BY <1>2, <2>1, <3>1, <3>2, BeginsAs DEF CreateAuth
  <2> QED
    BY <2>2, <2>3
<1>3. CASE Alter(c)
  <2>1. PICK add \in SUBSET {"secret", "role"}, drop \in SUBSET {"secret", "role"} :
          calls' = [calls EXCEPT ![c] = [Idle EXCEPT !.op = "alter", !.pc = "columns",
                         !.secure = SecureColumns, !.todo = add, !.drop = drop]]
    BY <1>3 DEF Alter
  <2>2. Aside
    BY <1>1, <1>3, Begins DEF Alter, Aside
  <2> DEFINE r == [Idle EXCEPT !.op = "alter", !.pc = "columns", !.secure = SecureColumns, !.todo = add, !.drop = drop]
  <2>3. "alter" \in AllOps /\ "columns" \in Steps /\ add \subseteq Columns /\ drop \subseteq Columns
    BY <2>1 DEF AllOps, Steps, Columns
  <2>4. r \in CallRec /\ r.op = "alter" /\ r.pc = "columns" /\ r.drop = drop
    BY <1>1, <2>3, IdleRec DEF CallRec
  <2>5. calls' = [calls EXCEPT ![c] = r]
    BY <2>1
  <2> HIDE DEF r
  <2>6. CallSafe(r, approval, steady)
    BY <2>1, <2>4 DEF CallSafe, Loading, APIOps
  <2> QED
    BY <1>3, <2>2, <2>5, <2>6, Begins, OnlyCall DEF Alter
<1>4. CASE FindUser(c)
  <2>1. PICK op \in {"register", "oauth"}, user \in Users :
          Begin(c, op) /\ calls' = [calls EXCEPT ![c] = [Idle EXCEPT !.op = op, !.pc = "user", !.user = user]]
    BY <1>4 DEF FindUser
  <2>2. Aside
    BY <1>1, <1>4, <2>1, Begins DEF FindUser, Aside
  <2> DEFINE r == [Idle EXCEPT !.op = op, !.pc = "user", !.user = user]
  <2>3. op \in AllOps /\ "user" \in Steps /\ user \in Users \cup {NoUser} /\ op \notin {"drop", "alter"} \cup Loading
    BY <2>1 DEF AllOps, Steps, Loading, APIOps
  <2>4. r \in CallRec /\ r.op = op /\ r.pc = "user"
    BY <2>3, IdleRec DEF CallRec
  <2>5. calls' = [calls EXCEPT ![c] = r]
    BY <2>1
  <2> HIDE DEF r
  <2>6. CallSafe(r, approval, steady)
    BY <2>3, <2>4 DEF CallSafe
  <2> QED
    BY <2>1, <2>2, <2>5, <2>6, Begins, OnlyCall
<1>5. CASE WSConnect(c)
  <2>2. Aside
    BY <1>1, <1>5, Begins DEF WSConnect, Aside
  <2> DEFINE r == [Idle EXCEPT !.op = "ws", !.pc = "open", !.todo = registry.schema]
  <2>3. "ws" \in AllOps /\ "open" \in Steps /\ registry.schema \subseteq Columns
    BY <1>1 DEF AllOps, Steps, RegistryRec
  <2>4. r \in CallRec /\ r.op = "ws" /\ r.pc = "open"
    BY <2>3, IdleRec DEF CallRec
  <2>5. calls' = [calls EXCEPT ![c] = r]
    BY <1>5 DEF WSConnect
  <2> HIDE DEF r
  <2>6. CallSafe(r, approval, steady)
    BY <2>4 DEF CallSafe, Loading, APIOps
  <2> QED
    BY <1>5, <2>2, <2>5, <2>6, Begins, OnlyCall DEF WSConnect
<1> QED
  BY <1>2, <1>3, <1>4, <1>5

LEMMA LoadKeeps ==
  ASSUME TablesIInv, NEW c \in Callers, LoadSecure(c) \/ LoadEndpoint(c)
  PROVE  TablesIInv'
<1>1. Load(c) /\ calls[c].pc = "load" /\ calls[c].op \in ToolOps \cup AdminOps \cup APIOps
  BY DEF LoadSecure, LoadEndpoint
<1>2. Aside
  BY <1>1 DEF Load, data, transaction, history, Aside, TablesIInv, SchemaInv
<1>3. SecureColumns \subseteq Columns /\ (steady => "secret" \in SecureColumns)
  BY DEF TablesIInv, SchemaInv, SecureColumns, RegistryRec
<1>4. calls[c] \in CallRec /\ CallSafe(calls[c], approval, steady) /\ "run" \in Steps
  BY CallFacts DEF Steps
<1> DEFINE r == [calls[c] EXCEPT !.secure = SecureColumns, !.pc = "run"]
<1>5. calls' = [calls EXCEPT ![c] = r]
  BY <1>1, CallFacts DEF Load
<1>6. r \in CallRec /\ r.op = calls[c].op /\ r.pc = "run" /\ r.secure = SecureColumns
  BY <1>3, <1>4 DEF CallRec
<1> HIDE DEF r
<1>7. calls[c].op \notin {"drop", "alter"}
  BY <1>1 DEF ToolOps, AdminOps, APIOps
<1>8. CallSafe(r, approval, steady)
  BY <1>3, <1>6, <1>7 DEF CallSafe
<1> QED
  BY <1>1, <1>2, <1>5, <1>8, OnlyCall

--------------------------------------------------------------------------------
(* Answers *)

LEMMA SecuredOnly ==
  ASSUME SchemaInv
  PROVE  Secured(table) \subseteq {"secret"}
  BY DEF SchemaInv, Secured, Columns

\* An answer that shows the password is that of aggregate, or the table is not steady.
LEMMA AnswerKeeps ==
  ASSUME TablesIInv, NEW c \in Callers, Done(c), calls[c].op # "bulk" \/ calls[c].pc # "rows",
         leaked' \subseteq AllOps, steady => leaked' \subseteq {"aggregate"},
         UNCHANGED <<table, data, registry, endpoints, approval, made, crashes, completed, steady>>
  PROVE  TablesIInv'
<1> USE DEF data, transaction
<1>1. CallsInv /\ tx # c /\ calls' = [calls EXCEPT ![c] = Idle]
  BY NotInTx DEF TablesIInv, Done
<1>2. CallsInv'
  BY <1>1, IdleSafe, CallMoves
<1>3. SchemaInv'
  BY DEF TablesIInv, SchemaInv
<1>4. RowsInv' /\ IndexInv' /\ NoPlain'
  BY SameRows
<1> QED
  BY <1>2, <1>3, <1>4 DEF TablesIInv

LEMMA ShowKeeps ==
  ASSUME TablesIInv, NEW c \in Callers, NEW columns, Show(c, columns), calls[c].pc = "run", calls[c].op \in AllOps,
         steady => calls[c].op = "aggregate" \/ "secret" \notin columns
  PROVE  TablesIInv'
<1>1. Secured(table) \cap columns # {} => "secret" \in columns
  BY SecuredOnly DEF TablesIInv
<1>2. leaked \subseteq AllOps /\ (steady => leaked \subseteq {"aggregate"})
  BY DEF TablesIInv, SchemaInv
<1>3. leaked' \subseteq AllOps /\ (steady => leaked' \subseteq {"aggregate"})
  BY <1>1, <1>2 DEF Show
<1> QED
  BY <1>3, AnswerKeeps DEF Show

LEMMA AnswersKeep ==
  ASSUME TablesIInv, NEW c \in Callers,
         \/ Query(c) \/ Count(c) \/ Aggregate(c) \/ ApiList(c) \/ ApiGetOne(c)
         \/ ApiStats(c) \/ AdminRows(c) \/ AuthMe(c)
  PROVE  TablesIInv'
<1> DEFINE known == calls[c].secure
<1>1. PICK columns : /\ Show(c, columns) /\ calls[c].pc = "run"
                     /\ \/ calls[c].op \in {"query", "api_list", "api_get", "api_stats", "admin_rows"}
                           /\ ("secret" \notin known \/ "secret" \notin columns)
                        \/ calls[c].op \in {"count", "me"} /\ "secret" \notin columns
                        \/ calls[c].op = "aggregate"
  <2>1. "secret" \in known => "secret" \notin Stripped(known) /\ \A cols \in VisibleColumns(known) : "secret" \notin cols
    BY DEF Stripped, VisibleColumns
  <2> QED
    BY <2>1 DEF Query, Count, Aggregate, ApiList, ApiGetOne, ApiStats, AdminRows, AuthMe, At
<1>2. calls[c].op \in AllOps
  BY <1>1 DEF AllOps
<1>3. CallSafe(calls[c], approval, steady)
  BY CallFacts
<1>4. steady => calls[c].op = "aggregate" \/ "secret" \notin columns
  BY <1>1, <1>3 DEF CallSafe, Loading, APIOps
<1> QED
  BY <1>1, <1>2, <1>4, ShowKeeps

LEMMA SearchKeeps ==
  ASSUME TablesIInv, NEW c \in Callers, Search(c)
  PROVE  TablesIInv'
<1> USE DEF data, transaction
<1>1. CASE /\ Begin(c, "search") /\ leaked' = leaked
           /\ calls' = [calls EXCEPT ![c] = [Idle EXCEPT !.op = "search", !.pc = "strip",
                         !.seen = {e[1] : e \in index.entries} \cap DOMAIN rows]]
  <2>1. Aside
    BY <1>1, Begins DEF Search, Aside, TablesIInv, SchemaInv
  <2> DEFINE seen == {e[1] : e \in index.entries} \cap DOMAIN rows
             r == [Idle EXCEPT !.op = "search", !.pc = "strip", !.seen = seen]
  <2>2. seen \subseteq 1..MaxId
    <3>1. seen \subseteq DOMAIN rows
      OBVIOUS
    <3> HIDE DEF seen
    <3>2. DOMAIN rows \subseteq 1..seq /\ seq \in 0..MaxId
      BY DEF TablesIInv, RowsInv
    <3> QED
      BY <3>1, <3>2, TablesAssumption
  <2>3. "search" \in AllOps /\ "strip" \in Steps /\ calls' = [calls EXCEPT ![c] = r]
    BY <1>1 DEF AllOps, Steps
  <2> HIDE DEF seen
  <2>4. r \in CallRec /\ r.op = "search" /\ r.pc = "strip"
    BY <2>2, <2>3, IdleRec DEF CallRec
  <2> HIDE DEF r
  <2>5. CallSafe(r, approval, steady)
    BY <2>4 DEF CallSafe
  <2> QED
    BY <1>1, <2>1, <2>3, <2>5, Begins, OnlyCall
<1>2. CASE /\ At(c, "search", "strip") /\ Done(c) /\ made' = made
           /\ leaked' = IF calls[c].seen # {} /\ Secured(table) \ SecureColumns # {}
                        THEN leaked \cup {"search"} ELSE leaked
  <2>1. steady => Secured(table) \ SecureColumns = {}
    <3>1. steady => "secret" \in SecureColumns
      BY DEF TablesIInv, SchemaInv, SecureColumns
    <3> QED
      BY <3>1, SecuredOnly DEF TablesIInv
  <2>2. leaked \subseteq AllOps /\ (steady => leaked \subseteq {"aggregate"}) /\ "search" \in AllOps
    BY DEF TablesIInv, SchemaInv, AllOps
  <2>3. leaked' \subseteq AllOps /\ (steady => leaked' \subseteq {"aggregate"})
    BY <1>2, <2>1, <2>2
  <2>4. calls[c].pc # "rows"
    BY <1>2 DEF At
  <2> QED
    BY <1>2, <2>3, <2>4, AnswerKeeps DEF Search
<1> QED
  BY <1>1, <1>2 DEF Search

--------------------------------------------------------------------------------
(* Approvals *)

\* Asking and answering never withdraw an approval.
LEMMA Asked ==
  ASSUME NEW key \in Keys, approval \in [Keys -> Answers], ~CheckApproval(key), RequestApproval(key)
  PROVE  /\ approval' \in [Keys -> Answers]
         /\ \A k \in Keys : approval[k] = "approve" => approval'[k] = "approve"
  BY DEF RequestApproval, CheckApproval, Answers

\* The steps that change nothing but the approvals and a call.
LEMMA ApprovalKeeps ==
  ASSUME TablesIInv, approval' \in [Keys -> Answers], made' \in 0..MaxCalls,
         \A k \in Keys : approval[k] = "approve" => approval'[k] = "approve",
         UNCHANGED <<table, data, registry, endpoints, crashes, history>>,
         \/ UNCHANGED calls
         \/ \E c \in Callers : \E r : /\ calls' = [calls EXCEPT ![c] = r] /\ CallSafe(r, approval', steady)
                                      /\ (calls[c].op # "bulk" \/ calls[c].pc # "rows")
  PROVE  TablesIInv'
<1> USE DEF data, transaction, history
<1>1. SchemaInv' /\ RowsInv' /\ IndexInv' /\ NoPlain'
  BY SameRows DEF TablesIInv, SchemaInv
<1>2. CallsInv'
  <2>1. CallsInv
    BY DEF TablesIInv
  <2>2. CASE UNCHANGED calls
    BY <2>1, <2>2, SameCalls
  <2>3. CASE \E c \in Callers : \E r : /\ calls' = [calls EXCEPT ![c] = r] /\ CallSafe(r, approval', steady)
                                       /\ (calls[c].op # "bulk" \/ calls[c].pc # "rows")
    <3>1. PICK c \in Callers : \E r : /\ calls' = [calls EXCEPT ![c] = r] /\ CallSafe(r, approval', steady)
                                       /\ (calls[c].op # "bulk" \/ calls[c].pc # "rows")
      BY <2>3
    <3>2. PICK r : /\ calls' = [calls EXCEPT ![c] = r] /\ CallSafe(r, approval', steady)
                   /\ (calls[c].op # "bulk" \/ calls[c].pc # "rows")
      BY <3>1
    <3>3. tx # c
      BY <2>1, <3>2, NotInTx
    <3> QED
      BY <2>1, <3>2, <3>3, CallMoves
  <2> QED
    BY <2>2, <2>3
<1> QED
  BY <1>1, <1>2 DEF TablesIInv

LEMMA GatesKeep ==
  ASSUME TablesIInv, NEW c \in Callers, DropCheck(c) \/ GateColumns(c)
  PROVE  TablesIInv'
<1>1. approval \in [Keys -> Answers] /\ made \in 0..MaxCalls /\ Columns \in Keys
  BY TheKeys DEF TablesIInv, SchemaInv
<1>2. CASE DropCheck(c)
  <2>1. made' \in 0..MaxCalls /\ (calls[c].op # "bulk" \/ calls[c].pc # "rows")
    BY <1>2, Begins DEF DropCheck
  <2>2. UNCHANGED <<table, data, registry, endpoints, crashes, history>>
    BY <1>2 DEF DropCheck
  <2>3. CASE UNCHANGED <<calls, approval>>
    BY <1>1, <2>1, <2>2, <2>3, ApprovalKeeps
  <2>4. CASE ~CheckApproval(Columns) /\ RequestApproval(Columns) /\ UNCHANGED calls
    BY <1>1, <2>1, <2>2, <2>4, Asked, ApprovalKeeps
  <2>5. CASE CheckApproval(Columns) /\ UNCHANGED approval
             /\ calls' = [calls EXCEPT ![c] = [Idle EXCEPT !.op = "drop", !.pc = "table"]]
    <3> DEFINE r == [Idle EXCEPT !.op = "drop", !.pc = "table"]
    <3>1. "drop" \in AllOps /\ "table" \in Steps /\ calls' = [calls EXCEPT ![c] = r]
      BY <2>5 DEF AllOps, Steps
    <3>2. r \in CallRec /\ r.op = "drop" /\ r.pc = "table"
      BY <3>1, IdleRec DEF CallRec
    <3> HIDE DEF r
    <3>3. CallSafe(r, approval', steady)
      BY <2>5, <3>2 DEF CallSafe, CheckApproval
    <3> QED
      BY <1>1, <2>1, <2>2, <2>5, <3>1, <3>3, ApprovalKeeps
  <2> QED
    BY <1>2, <2>3, <2>4, <2>5 DEF DropCheck
<1>3. CASE GateColumns(c)
  <2>1. made' \in 0..MaxCalls /\ calls[c].pc # "rows" /\ calls[c].op = "alter"
    BY <1>1, <1>3 DEF GateColumns, At
  <2>2. UNCHANGED <<table, data, registry, endpoints, crashes, history>>
    BY <1>3 DEF GateColumns
  <2>3. calls[c] \in CallRec /\ calls[c].drop \subseteq {"secret", "role"}
    BY <2>1, CallFacts DEF CallSafe
  <2>4. calls[c].drop # {} => calls[c].drop \in Keys
    BY <2>3, TheKeys DEF CallRec
  <2>5. ASSUME NEW pc \in {"secure", "drops"}, Goto(c, pc), UNCHANGED approval,
               pc = "drops" => calls[c].drop \in Keys /\ CheckApproval(calls[c].drop)
        PROVE  TablesIInv'
    <3> DEFINE r == [calls[c] EXCEPT !.pc = pc]
    <3>1. pc \in Steps /\ calls' = [calls EXCEPT ![c] = r]
      BY <2>5, CallFacts DEF Steps, Goto
    <3>2. r \in CallRec /\ r.op = "alter" /\ r.pc = pc /\ r.drop = calls[c].drop
      BY <2>1, <2>3, <3>1 DEF CallRec
    <3> HIDE DEF r
    <3>3. r.pc = "drops" => \E key \in Keys : r.drop \subseteq key /\ approval'[key] = "approve"
      BY <2>5, <3>2 DEF CheckApproval
    <3>4. CallSafe(r, approval', steady)
      BY <2>3, <3>2, <3>3 DEF CallSafe, Loading, APIOps
    <3> QED
      BY <1>1, <2>1, <2>2, <2>5, <3>1, <3>4, ApprovalKeeps
  <2>6. CASE calls[c].drop = {} /\ Goto(c, "secure") /\ UNCHANGED approval
    BY <2>5, <2>6
  <2>7. CASE calls[c].drop # {} /\ CheckApproval(calls[c].drop) /\ Goto(c, "drops") /\ UNCHANGED approval
    BY <2>4, <2>5, <2>7
  <2>8. CASE calls[c].drop # {} /\ ~CheckApproval(calls[c].drop) /\ RequestApproval(calls[c].drop) /\ Done(c)
    <3>1. /\ approval' \in [Keys -> Answers]
          /\ \A k \in Keys : approval[k] = "approve" => approval'[k] = "approve"
      BY <1>1, <2>4, <2>8, Asked
    <3>2. calls' = [calls EXCEPT ![c] = Idle] /\ CallSafe(Idle, approval', steady)
      BY <2>8, IdleSafe DEF Done
    <3> QED
      BY <2>1, <2>2, <3>1, <3>2, ApprovalKeeps
  <2> QED
    BY <1>3, <2>6, <2>7, <2>8 DEF GateColumns
<1> QED
  BY <1>2, <1>3

LEMMA AnswerOfOwner ==
  ASSUME TablesIInv, Answer
  PROVE  TablesIInv'
<1>1. approval \in [Keys -> Answers] /\ made' \in 0..MaxCalls
  BY DEF TablesIInv, SchemaInv, Answer
<1>2. PICK key \in Keys, answer \in {"approve", "deny", "other"} :
        approval[key] = "pending" /\ approval' = [approval EXCEPT ![key] = answer]
  BY DEF Answer
<1>3. /\ approval' \in [Keys -> Answers]
      /\ \A k \in Keys : approval[k] = "approve" => approval'[k] = "approve"
  BY <1>1, <1>2 DEF Answers
<1>4. UNCHANGED <<table, data, registry, endpoints, crashes, history, calls>>
  BY DEF Answer
<1> QED
  BY <1>1, <1>3, <1>4, ApprovalKeeps

--------------------------------------------------------------------------------
(* The registry *)

\* The steps of a call that change the registry and nothing that depends on rows.
LEMMA RegistryKeeps ==
  ASSUME TablesIInv, NEW c \in Callers, NEW r, calls' = [calls EXCEPT ![c] = r], CallSafe(r, approval, steady'),
         calls[c].op # "bulk" \/ calls[c].pc # "rows", SchemaInv', steady' => steady,
         UNCHANGED <<data, approval, completed>>
  PROVE  TablesIInv'
<1> USE DEF data, transaction
<1>1. CallsInv /\ tx # c
  BY NotInTx DEF TablesIInv
<1>2. CallsInv'
  BY <1>1, CallMoves
<1>3. RowsInv' /\ IndexInv' /\ NoPlain'
  BY SameRows
<1> QED
  BY <1>2, <1>3 DEF TablesIInv

LEMMA RegistrySteps ==
  ASSUME TablesIInv, NEW c \in Callers, RecordTable(c) \/ UpdateSecure(c) \/ UpdateSchema(c) \/ DropEntries(c)
  PROVE  TablesIInv'
<1>1. SchemaInv /\ calls[c] \in CallRec /\ CallSafe(calls[c], approval, steady) /\ steady \in BOOLEAN
  BY CallFacts DEF TablesIInv, SchemaInv
<1>2. CASE RecordTable(c)
  <2>1. /\ Present(calls[c].schema) \in SUBSET Columns /\ Secured(calls[c].schema) \in SUBSET Columns
    BY DEF Present, Secured
  <2>2. registry' \in RegistryRec /\ registry'.known = TRUE /\ (steady' => steady /\ "secret" \in registry'.secure)
        /\ steady' \in BOOLEAN
    BY <1>1, <1>2, <2>1 DEF RecordTable, RegistryRec
  <2>3. SchemaInv'
    BY <1>1, <1>2, <2>2 DEF RecordTable, SchemaInv
  <2>4. calls[c].op = "create" /\ UNCHANGED <<data, approval, completed>>
    BY <1>2 DEF RecordTable, At
  <2>5. CASE Done(c)
    BY <2>2, <2>3, <2>4, <2>5, IdleSafe, RegistryKeeps DEF Done
  <2>6. CASE Goto(c, "fts")
    <3> DEFINE r == [calls[c] EXCEPT !.pc = "fts"]
    <3>1. "fts" \in Steps /\ calls' = [calls EXCEPT ![c] = r]
      BY <2>6, CallFacts DEF Steps, Goto
    <3>2. r \in CallRec /\ r.op = "create" /\ r.pc = "fts"
      BY <1>1, <2>4, <3>1 DEF CallRec
    <3> HIDE DEF r
    <3>3. CallSafe(r, approval, steady')
      BY <3>2 DEF CallSafe
    <3> QED
      BY <2>2, <2>3, <2>4, <3>1, <3>3, RegistryKeeps
  <2> QED
    BY <1>2, <2>5, <2>6 DEF RecordTable
<1>3. CASE UpdateSecure(c)
  <2>1. calls[c].secure \in SUBSET Columns
    BY <1>1 DEF CallRec
  <2>2. registry' \in RegistryRec /\ registry'.known = registry.known /\ steady' \in BOOLEAN
        /\ (steady' => steady /\ "secret" \in registry'.secure)
    BY <1>1, <1>3, <2>1 DEF UpdateSecure, RegistryRec, SchemaInv
  <2>3. SchemaInv'
    BY <1>1, <1>3, <2>2 DEF UpdateSecure, SchemaInv
  <2>4. calls[c].op = "alter" /\ UNCHANGED <<data, approval, completed>> /\ Done(c)
    BY <1>3 DEF UpdateSecure, At
  <2> QED
    BY <2>2, <2>3, <2>4, IdleSafe, RegistryKeeps DEF Done
<1>4. CASE UpdateSchema(c)
  <2>1. registry' \in RegistryRec /\ registry'.known = registry.known /\ registry'.secure = registry.secure
    BY <1>1, <1>4 DEF UpdateSchema, RegistryRec, SchemaInv, Columns
  <2>2. SchemaInv' /\ UNCHANGED steady
    BY <1>1, <1>4, <2>1 DEF UpdateSchema, SchemaInv, history
  <2>3. calls[c].op = "create_auth" /\ UNCHANGED <<data, approval, completed>> /\ Goto(c, "upsert")
    BY <1>4 DEF UpdateSchema, At, history
  <2> DEFINE r == [calls[c] EXCEPT !.pc = "upsert"]
  <2>4. "upsert" \in Steps /\ calls' = [calls EXCEPT ![c] = r]
    BY <2>3, CallFacts DEF Steps, Goto
  <2>5. r \in CallRec /\ r.op = "create_auth" /\ r.pc = "upsert"
    BY <1>1, <2>3, <2>4 DEF CallRec
  <2> HIDE DEF r
  <2>6. CallSafe(r, approval, steady')
    BY <2>5 DEF CallSafe, Loading, APIOps
  <2> QED
    BY <2>2, <2>3, <2>4, <2>6, RegistryKeeps
<1>5. CASE DropEntries(c)
  <2>1. ~steady /\ calls[c].op = "drop" /\ UNCHANGED <<data, approval, completed, steady>>
    BY <1>1, <1>5 DEF DropEntries, At, CallSafe, history
  <2>2. registry' \in RegistryRec /\ endpoints' \subseteq Bound
    <3>1. [known |-> FALSE, schema |-> {}, secure |-> {}] \in RegistryRec
      <4>1. {} \in SUBSET Columns
        OBVIOUS
      <4> QED
        BY <4>1 DEF RegistryRec
    <3>2. registry' = registry \/ registry' = [known |-> FALSE, schema |-> {}, secure |-> {}]
      BY <1>5 DEF DropEntries
    <3>3. endpoints' \subseteq endpoints
      BY <1>5 DEF DropEntries
    <3> QED
      BY <1>1, <3>1, <3>2, <3>3 DEF SchemaInv
  <2>3. SchemaInv'
    BY <1>1, <1>5, <2>1, <2>2 DEF DropEntries, SchemaInv, history
  <2>4. CASE Done(c)
    BY <2>1, <2>3, <2>4, IdleSafe, RegistryKeeps DEF Done
  <2>5. CASE Goto(c, "api") \/ Goto(c, "auth")
    <3>1. PICK pc \in {"api", "auth"} : Goto(c, pc)
      BY <2>5
    <3> DEFINE r == [calls[c] EXCEPT !.pc = pc]
    <3>2. pc \in Steps /\ calls' = [calls EXCEPT ![c] = r]
      BY <3>1, CallFacts DEF Steps, Goto
    <3>3. r \in CallRec /\ r.op = "drop" /\ r.pc = pc
      BY <1>1, <2>1, <3>2 DEF CallRec
    <3> HIDE DEF r
    <3>4. CallSafe(r, approval, steady')
      BY <2>1, <3>1, <3>3 DEF CallSafe, Loading, APIOps
    <3> QED
      BY <2>1, <2>3, <3>2, <3>4, RegistryKeeps
  <2> QED
    BY <1>5, <2>4, <2>5 DEF DropEntries
<1> QED
  BY <1>2, <1>3, <1>4, <1>5

--------------------------------------------------------------------------------
(* The columns of the table *)

LEMMA AddingColumns ==
  ASSUME TablesIInv, NEW c \in Callers, CreateTable(c) \/ AddColumn(c) \/ AddRole(c)
  PROVE  TablesIInv'
<1> USE DEF data, transaction, history
<1>1. SchemaInv /\ calls[c] \in CallRec /\ CallSafe(calls[c], approval, steady)
  BY CallFacts DEF TablesIInv
<1>2. CASE CreateTable(c)
  <2>1. PICK schema \in Schemas, searchable \in {{}, {"name"}} :
          /\ calls' = [calls EXCEPT ![c] = [Idle EXCEPT !.op = "create", !.pc = "record",
                                              !.schema = schema, !.todo = searchable]]
          /\ table' = IF Exists THEN table ELSE schema
    BY <1>2 DEF CreateTable
  <2>2. schema \in [Columns -> Types] /\ schema["name"] # "PASSWORD" /\ schema["role"] # "PASSWORD"
    BY <2>1 DEF Schemas, Columns, Types
  <2>3. searchable \in SUBSET Columns
    BY <2>1 DEF Columns
  <2>4. made' \in 0..MaxCalls /\ calls[c].pc = "idle"
    BY <1>2, Begins DEF CreateTable
  <2>5. SchemaInv' /\ UNCHANGED <<data, approval, completed, steady>>
    BY <1>1, <1>2, <2>1, <2>2, <2>4 DEF CreateTable, SchemaInv
  <2> DEFINE r == [Idle EXCEPT !.op = "create", !.pc = "record", !.schema = schema, !.todo = searchable]
  <2>6. "create" \in AllOps /\ "record" \in Steps /\ calls' = [calls EXCEPT ![c] = r]
    BY <2>1 DEF AllOps, Steps
  <2>7. r \in CallRec /\ r.op = "create" /\ r.pc = "record"
    BY <2>2, <2>3, <2>6, IdleRec DEF CallRec
  <2> HIDE DEF r
  <2>8. CallSafe(r, approval, steady')
    BY <2>7 DEF CallSafe
  <2> QED
    BY <2>4, <2>5, <2>6, <2>8, RegistryKeeps
<1>3. CASE AddColumn(c)
  <2>1. calls[c].op = "alter" /\ calls[c].pc = "columns" /\ UNCHANGED <<data, approval, completed, steady>>
    BY <1>3 DEF AddColumn, At
  <2>2. PICK column \in calls[c].todo :
          LET type == IF column = "secret" THEN "PASSWORD" ELSE "TEXT"
          IN  IF Exists /\ table[column] = "absent"
              THEN /\ table' = [table EXCEPT ![column] = type]
                   /\ calls' = [calls EXCEPT ![c].todo = @ \ {column},
                                  ![c].secure = IF type = "PASSWORD" THEN @ \cup {column} ELSE @]
              ELSE table' = table /\ Done(c)
    BY <1>3 DEF AddColumn
  <2>3. column \in Columns /\ calls[c].todo \in SUBSET Columns /\ calls[c].secure \in SUBSET Columns
    BY <1>1, <2>2 DEF CallRec
  <2>4. table' \in [Columns -> Types] /\ table'["name"] # "PASSWORD" /\ table'["role"] # "PASSWORD"
    BY <1>1, <2>2, <2>3 DEF SchemaInv, Columns, Types
  <2>5. SchemaInv'
    BY <1>1, <1>3, <2>4 DEF AddColumn, SchemaInv
  <2>6. CASE Done(c)
    BY <2>1, <2>5, <2>6, IdleSafe, RegistryKeeps DEF Done
  <2>7. CASE ~Done(c)
    <3> DEFINE secure == IF column = "secret" THEN calls[c].secure \cup {column} ELSE calls[c].secure
               todo == calls[c].todo \ {column}
               r == [calls[c] EXCEPT !.todo = todo, !.secure = secure]
    <3>1. secure \in SUBSET Columns /\ todo \in SUBSET Columns
      BY <2>3
    <3>2. calls' = [calls EXCEPT ![c] = r]
      BY <1>1, <2>2, <2>7, CallFacts DEF CallRec
    <3> HIDE DEF secure, todo
    <3>3. r \in CallRec /\ r.op = "alter" /\ r.pc = "columns" /\ r.drop = calls[c].drop
      BY <1>1, <2>1, <3>1 DEF CallRec
    <3> HIDE DEF r
    <3>4. CallSafe(r, approval, steady')
      BY <1>1, <2>1, <3>3 DEF CallSafe, Loading, APIOps
    <3> QED
      BY <2>1, <2>5, <3>2, <3>4, RegistryKeeps
  <2> QED
    BY <2>6, <2>7
<1>4. CASE AddRole(c)
  <2>1. calls[c].op = "create_auth" /\ UNCHANGED <<data, approval, completed, steady>>
    BY <1>4 DEF AddRole, At
  <2>2. table' \in [Columns -> Types] /\ table'["name"] # "PASSWORD" /\ table'["role"] # "PASSWORD"
    BY <1>1, <1>4 DEF AddRole, SchemaInv, Columns, Types
  <2>3. SchemaInv'
    BY <1>1, <1>4, <2>2 DEF AddRole, SchemaInv
  <2>4. CASE Done(c)
    BY <2>1, <2>3, <2>4, IdleSafe, RegistryKeeps DEF Done
  <2>5. CASE Goto(c, "schema")
    <3> DEFINE r == [calls[c] EXCEPT !.pc = "schema"]
    <3>1. "schema" \in Steps /\ calls' = [calls EXCEPT ![c] = r]
      BY <2>5, CallFacts DEF Steps, Goto
    <3>2. r \in CallRec /\ r.op = "create_auth" /\ r.pc = "schema"
      BY <1>1, <2>1, <3>1 DEF CallRec
    <3> HIDE DEF r
    <3>3. CallSafe(r, approval, steady')
      BY <3>2 DEF CallSafe
    <3> QED
      BY <2>1, <2>3, <3>1, <3>3, RegistryKeeps
  <2> QED
    BY <1>4, <2>4, <2>5 DEF AddRole
<1> QED
  BY <1>2, <1>3, <1>4

--------------------------------------------------------------------------------
(* Columns and the table go *)

LEMMA SameEntries ==
  ASSUME NEW ids, NEW before, NEW after, \A id \in ids : after[id].name = before[id].name
  PROVE  Entries(ids, after) = Entries(ids, before)
  BY DEF Entries

LEMMA DropColumnKeeps ==
  ASSUME TablesIInv, NEW c \in Callers, DropColumn(c)
  PROVE  TablesIInv'
<1>1. SchemaInv /\ calls[c] \in CallRec /\ CallSafe(calls[c], approval, steady) /\ steady \in BOOLEAN
  BY CallFacts DEF TablesIInv, SchemaInv
<1>2. /\ calls[c].op = "alter" /\ calls[c].pc = "drops" /\ UNCHANGED <<tx, approval, completed>>
      /\ (steady' => steady) /\ steady' \in BOOLEAN
  BY <1>1 DEF DropColumn, At, transaction
<1>3. PICK key \in Keys : calls[c].drop \subseteq key /\ approval[key] = "approve"
  BY <1>1, <1>2 DEF CallSafe
<1>4. /\ DOMAIN rows' = DOMAIN rows
      /\ \A id \in DOMAIN rows : rows'[id] \in Row /\ rows'[id].name = rows[id].name
                                 /\ rows'[id].secret \in {rows[id].secret, "null"}
  <2>1. \A id \in DOMAIN rows : rows[id] \in Row
    BY DEF TablesIInv, RowsInv
  <2>2. CASE UNCHANGED rows
    BY <2>1, <2>2
  <2>3. CASE rows' = [id \in DOMAIN rows |-> [rows[id] EXCEPT !.secret = "null"]]
    BY <2>1, <2>3 DEF Row, Stored
  <2> QED
    BY <2>2, <2>3 DEF DropColumn
<1>5. RowsInv' /\ NoPlain'
  <2>1. NoPlain'
    BY <1>2, <1>4 DEF TablesIInv, NoPlain
  <2>2. UNCHANGED <<seq, tx, staged, begun, completed>>
    BY DEF DropColumn, transaction
  <2>3. RowsInv'
    BY <1>4, <2>2 DEF TablesIInv, RowsInv, Kept
  <2> QED
    BY <2>1, <2>3
<1>6. IndexInv'
  <2>1. Entries(DOMAIN rows', rows') = Entries(DOMAIN rows, rows) /\ UNCHANGED index
    BY <1>4, SameEntries DEF DropColumn
  <2> QED
    BY <2>1 DEF TablesIInv, IndexInv
<1>7. SchemaInv'
  <2>1. table' \in [Columns -> Types] /\ table'["name"] # "PASSWORD" /\ table'["role"] # "PASSWORD"
    <3>1. CASE UNCHANGED table
      BY <1>1, <3>1 DEF SchemaInv
    <3>2. CASE \E column \in calls[c].drop : table' = [table EXCEPT ![column] = "absent"]
      BY <1>1, <3>2 DEF SchemaInv, Columns, Types
    <3> QED
      BY <3>1, <3>2 DEF DropColumn
  <2> QED
    BY <1>1, <1>2, <2>1 DEF DropColumn, SchemaInv
<1>8. CallsInv'
  <2>1. CallsInv /\ tx # c
    BY <1>2, NotInTx DEF TablesIInv
  <2>2. PICK r : calls' = [calls EXCEPT ![c] = r] /\ CallSafe(r, approval, steady')
    <3>1. CASE Done(c)
      BY <3>1, IdleSafe DEF Done
    <3>2. CASE Goto(c, "secure")
      <4> DEFINE r == [calls[c] EXCEPT !.pc = "secure"]
      <4>1. "secure" \in Steps /\ calls' = [calls EXCEPT ![c] = r]
        BY <3>2, CallFacts DEF Steps, Goto
      <4>2. r \in CallRec /\ r.op = "alter" /\ r.pc = "secure" /\ r.drop = calls[c].drop
        BY <1>1, <1>2, <4>1 DEF CallRec
      <4> HIDE DEF r
      <4>3. CallSafe(r, approval, steady')
        BY <1>1, <1>2, <4>2 DEF CallSafe, Loading, APIOps
      <4> QED
        BY <4>1, <4>3
    <3>3. CASE \E column \in calls[c].drop :
                  calls' = [calls EXCEPT ![c].drop = @ \ {column}, ![c].secure = @ \ {column}]
      <4>1. PICK column \in calls[c].drop :
                  calls' = [calls EXCEPT ![c].drop = @ \ {column}, ![c].secure = @ \ {column}]
        BY <3>3
      <4> DEFINE drop == calls[c].drop \ {column}
                 secure == calls[c].secure \ {column}
                 r == [calls[c] EXCEPT !.drop = drop, !.secure = secure]
      <4>2. drop \in SUBSET Columns /\ secure \in SUBSET Columns /\ drop \subseteq calls[c].drop
        BY <1>1 DEF CallRec
      <4>3. calls' = [calls EXCEPT ![c] = r]
        BY <1>1, <4>1, CallFacts DEF CallRec
      <4> HIDE DEF drop, secure
      <4>4. r \in CallRec /\ r.op = "alter" /\ r.pc = "drops" /\ r.drop = drop
        BY <1>1, <1>2, <4>2 DEF CallRec
      <4> HIDE DEF r
      <4>5. r.drop \subseteq key /\ r.drop \subseteq {"secret", "role"}
        BY <1>1, <1>2, <1>3, <4>2, <4>4 DEF CallSafe
      <4>6. CallSafe(r, approval, steady')
        BY <1>3, <4>4, <4>5 DEF CallSafe, Loading, APIOps
      <4> QED
        BY <4>3, <4>6
    <3> QED
      BY <3>1, <3>2, <3>3 DEF DropColumn
  <2> QED
    BY <1>2, <2>1, <2>2, CallMoves
<1> QED
  BY <1>5, <1>6, <1>7, <1>8 DEF TablesIInv

LEMMA DropTableKeeps ==
  ASSUME TablesIInv, NEW c \in Callers, DropTable(c)
  PROVE  TablesIInv'
<1> USE DEF transaction
<1>1. SchemaInv /\ calls[c] \in CallRec
  BY CallFacts DEF TablesIInv
<1>2. calls[c].op = "drop" /\ steady' = FALSE /\ UNCHANGED <<tx, approval, staged, begun>>
  BY DEF DropTable, At
<1>3. CallsInv /\ tx = NoCaller /\ staged = {}
  <2>1. CallsInv /\ tx # c
    BY <1>2, NotInTx DEF TablesIInv
  <2> QED
    BY <2>1 DEF DropTable, Writer, TablesIInv, RowsInv
<1>4. CallsInv'
  <2> DEFINE r == [calls[c] EXCEPT !.pc = "registry"]
  <2>1. "registry" \in Steps /\ calls' = [calls EXCEPT ![c] = r]
    BY CallFacts DEF Steps, DropTable, Goto
  <2>2. r \in CallRec /\ r.op = "drop" /\ r.pc = "registry"
    BY <1>1, <1>2, <2>1 DEF CallRec
  <2> HIDE DEF r
  <2>3. CallSafe(r, approval, steady')
    BY <1>2, <2>2 DEF CallSafe, Loading, APIOps
  <2> QED
    BY <1>2, <1>3, <2>1, <2>3, CallMoves
<1>5. SchemaInv'
  <2>1. NoTable \in [Columns -> Types] /\ NoTable["name"] = "absent" /\ NoTable["role"] = "absent"
    BY DEF NoTable, Types, Columns
  <2> QED
    BY <1>1, <1>2, <2>1 DEF DropTable, SchemaInv
<1>6. RowsInv'
  <2>1. DOMAIN rows' = {} /\ seq' = 0 /\ completed' = {} /\ begun' \in 0..MaxId /\ 0 \in 0..MaxId
    BY <1>2, TablesAssumption DEF DropTable, TablesIInv, RowsInv
  <2> QED
    BY <1>2, <1>3, <2>1 DEF RowsInv, Kept
<1>7. IndexInv' /\ NoPlain'
  <2>1. index' \in IndexRec /\ index'.fresh = FALSE
    BY DEF DropTable, TablesIInv, IndexInv, IndexRec
  <2> QED
    BY <1>2, <2>1 DEF IndexInv, NoPlain
<1> QED
  BY <1>4, <1>5, <1>6, <1>7 DEF TablesIInv

--------------------------------------------------------------------------------
(* The index is made *)

LEMMA IndexSteps ==
  ASSUME TablesIInv, NEW c \in Callers, CreateIndex(c) \/ CreateTrigger(c)
  PROVE  TablesIInv'
<1> USE DEF transaction, history
<1>1. SchemaInv /\ calls[c] \in CallRec /\ CallsInv /\ index \in IndexRec
  BY CallFacts DEF TablesIInv, IndexInv
<1>2. /\ calls[c].op = "create" /\ UNCHANGED <<table, rows, seq, registry, endpoints, approval, tx, staged,
                                              begun, made, crashes, completed, leaked, steady>>
  BY DEF CreateIndex, CreateTrigger, At
<1>3. SchemaInv' /\ RowsInv' /\ NoPlain'
  BY <1>2 DEF TablesIInv, SchemaInv, RowsInv, Kept, NoPlain
<1>4. CallsInv'
  <2>1. tx # c
    BY <1>1, <1>2, NotInTx
  <2>2. CASE Done(c)
    BY <1>1, <1>2, <2>1, <2>2, IdleSafe, CallMoves DEF Done
  <2>3. CASE \E pc \in {"ai", "ad", "au"} : Goto(c, pc)
    <3>1. PICK pc \in {"ai", "ad", "au"} : Goto(c, pc)
      BY <2>3
    <3> DEFINE r == [calls[c] EXCEPT !.pc = pc]
    <3>2. pc \in Steps /\ calls' = [calls EXCEPT ![c] = r]
      BY <3>1, CallFacts DEF Steps, Goto
    <3>3. r \in CallRec /\ r.op = "create"
      BY <1>1, <1>2, <3>2 DEF CallRec
    <3> HIDE DEF r
    <3>4. CallSafe(r, approval, steady)
      BY <3>3 DEF CallSafe, Loading, APIOps
    <3> QED
      BY <1>1, <1>2, <2>1, <3>2, <3>4, CallMoves
  <2> QED
    BY <2>2, <2>3 DEF CreateIndex, CreateTrigger
<1>5. IndexInv'
  <2>1. CASE CreateIndex(c)
    BY <1>1, <1>2, <2>1 DEF CreateIndex, IndexRec, TablesIInv, IndexInv, Entries
  <2>2. CASE CreateTrigger(c) /\ UNCHANGED index
    BY <1>2, <2>2 DEF TablesIInv, IndexInv, Entries
  <2>3. CASE CreateTrigger(c) /\ index' # index
    <3> DEFINE t == calls[c].pc
    <3>1. t \in Triggers
      BY <2>3 DEF CreateTrigger, At
    <3>2. index' = [index EXCEPT !.triggers = index.triggers \cup {t},
                                 !.fresh = t = "au" /\ rows = << >> /\ index.entries = {}
                                           /\ index.triggers = {"ai", "ad"}]
      BY <2>3 DEF CreateTrigger
    <3> HIDE DEF t
    <3>3. index' \in IndexRec /\ index'.triggers = index.triggers \cup {t} /\ index'.entries = index.entries
          /\ (index'.fresh => t = "au" /\ rows = << >> /\ index.entries = {} /\ index.triggers = {"ai", "ad"})
      BY <1>1, <3>1, <3>2 DEF IndexRec
    <3>4. rows = << >> => Entries(DOMAIN rows, rows) = {}
      BY DEF Entries
    <3>5. {"ai", "ad"} \cup {"au"} = Triggers
      BY DEF Triggers
    <3> QED
      BY <1>2, <3>3, <3>4, <3>5 DEF IndexInv
  <2> QED
    BY <2>1, <2>2, <2>3
<1> QED
  BY <1>3, <1>4, <1>5 DEF TablesIInv

--------------------------------------------------------------------------------
(* Rows *)

\* An id that is free is that of no row.
LEMMA FreeIdsAreFree ==
  ASSUME TablesIInv, NEW id \in FreeIds, id <= MaxId
  PROVE  id \in 1..MaxId /\ id \notin DOMAIN rows
  BY TablesAssumption DEF TablesIInv, RowsInv, FreeIds, NextId

\* One INSERT, of a single call or of the transaction under way.
LEMMA InsertKeeps ==
  ASSUME TablesIInv, NEW id \in FreeIds, NEW row \in Row, InsertRow(id, row), steady => row.secret # "plain",
         UNCHANGED <<tx, begun, steady>>,
         \/ tx = NoCaller /\ completed' = completed \cup {id} /\ UNCHANGED staged
         \/ tx # NoCaller /\ UNCHANGED completed /\ staged' = staged \cup {id}
  PROVE  RowsInv' /\ IndexInv' /\ NoPlain'
<1>1. id \in 1..MaxId /\ id \notin DOMAIN rows
  BY FreeIdsAreFree DEF InsertRow
<1>2. /\ rows' = [i \in DOMAIN rows \cup {id} |-> IF i = id THEN row ELSE rows[i]]
      /\ DOMAIN rows' = DOMAIN rows \cup {id} /\ rows'[id] = row
      /\ \A i \in DOMAIN rows : rows'[i] = rows[i]
  BY <1>1 DEF InsertRow, Inserted
<1>3. seq \in 0..MaxId /\ seq' \in 0..MaxId /\ seq <= seq' /\ id <= seq'
  BY <1>1, TablesAssumption DEF InsertRow, TablesIInv, RowsInv
<1>4. RowsInv'
  <2>1. DOMAIN rows' \subseteq 1..seq' /\ \A i \in DOMAIN rows' : rows'[i] \in Row
    BY <1>1, <1>2, <1>3, TablesAssumption DEF TablesIInv, RowsInv
  <2>2. Kept \in Nat /\ Kept' \in Nat /\ Kept <= Kept' /\ Kept' <= seq'
    BY <1>3, TablesAssumption DEF TablesIInv, RowsInv, Kept
  <2>3. staged' \subseteq 1..seq' /\ (tx' = NoCaller => staged' = {})
    <3>1. 1..seq \subseteq 1..seq' /\ id \in 1..seq'
      BY <1>1, <1>3, TablesAssumption
    <3>2. staged \subseteq 1..seq /\ (tx = NoCaller => staged = {})
      BY DEF TablesIInv, RowsInv
    <3> QED
      BY <3>1, <3>2
  <2>4. completed' \subseteq 1..Kept'
    <3>1. tx = NoCaller => Kept' = seq'
      BY DEF Kept
    <3>2. completed \subseteq 1..Kept
      BY DEF TablesIInv, RowsInv
    <3>3. 1..Kept \subseteq 1..Kept' /\ (tx = NoCaller => id \in 1..Kept')
      BY <1>1, <1>3, <2>2, <3>1, TablesAssumption
    <3> QED
      BY <3>2, <3>3
  <2>5. DOMAIN rows' \ staged' \subseteq completed'
    BY <1>2 DEF TablesIInv, RowsInv
  <2> QED
    BY <1>3, <2>1, <2>2, <2>3, <2>4, <2>5 DEF TablesIInv, RowsInv
<1>5. IndexInv'
  <2>1. index \in IndexRec
    BY DEF TablesIInv, IndexInv
  <2> DEFINE entries == index.entries \cup {<<id, row.name>>}
  <2>2. entries \in SUBSET ((1..MaxId) \X (Users \cup {NoUser}))
    BY <1>1, <2>1 DEF IndexRec, Row
  <2>3. index' = IF "ai" \in index.triggers THEN [index EXCEPT !.entries = entries] ELSE index
    BY DEF InsertRow
  <2>4. Entries(DOMAIN rows', rows') = Entries(DOMAIN rows, rows) \cup {<<id, row.name>>}
    BY <1>2 DEF Entries
  <2> HIDE DEF entries
  <2>5. index' \in IndexRec /\ index'.fresh = index.fresh /\ index'.triggers = index.triggers
        /\ ("ai" \in index.triggers => index'.entries = entries)
    BY <2>1, <2>2, <2>3 DEF IndexRec
  <2>6. index.fresh => index.triggers = Triggers /\ index.entries = Entries(DOMAIN rows, rows) /\ "ai" \in Triggers
    BY DEF TablesIInv, IndexInv, Triggers
  <2> QED
    BY <2>4, <2>5, <2>6 DEF IndexInv, entries
<1>6. NoPlain'
  BY <1>2 DEF TablesIInv, NoPlain
<1> QED
  BY <1>4, <1>5, <1>6

\* The end of a call that has changed rows.
LEMMA WriterEnds ==
  ASSUME TablesIInv, NEW c \in Callers, calls[c].op # "bulk" \/ calls[c].pc # "rows", Done(c),
         UNCHANGED <<table, registry, endpoints, approval, tx, made, crashes, leaked, steady>>,
         RowsInv', IndexInv', NoPlain'
  PROVE  TablesIInv'
<1>1. CallsInv /\ tx # c
  BY NotInTx DEF TablesIInv
<1>2. CallsInv'
  BY <1>1, IdleSafe, CallMoves DEF Done
<1>3. SchemaInv'
  BY DEF TablesIInv, SchemaInv
<1> QED
  BY <1>2, <1>3 DEF TablesIInv

\* A secret that a call stores after it has read the secure columns.
LEMMA StoredSafely ==
  ASSUME TablesIInv, NEW c \in Callers, calls[c].op \in Loading, calls[c].pc \in {"run", "rows"}
  PROVE  StoredAs(calls[c].secure) \in Stored /\ (steady => StoredAs(calls[c].secure) # "plain")
<1>1. CallSafe(calls[c], approval, steady)
  BY CallFacts
<1> QED
  BY <1>1 DEF CallSafe, StoredAs, Stored

LEMMA InsertsKeep ==
  ASSUME TablesIInv, NEW c \in Callers, InsertSingle(c) \/ ApiInsert(c) \/ AdminInsertRow(c)
  PROVE  TablesIInv'
<1>1. PICK ids \in SUBSET FreeIds : InsertOne(c, ids)
  BY DEF InsertSingle, ApiInsert, AdminInsertRow, FreeIds
<1>2. calls[c].op \in Loading /\ calls[c].pc = "run"
  BY DEF InsertSingle, ApiInsert, AdminInsertRow, At, Loading, APIOps
<1>3. PICK user \in Users, withSecret \in BOOLEAN, id \in ids :
        IF Insertable(withSecret)
        THEN /\ InsertRow(id, [name |-> user,
                               secret |-> IF withSecret THEN StoredAs(calls[c].secure) ELSE "null"])
             /\ completed' = completed \cup {id}
        ELSE UNCHANGED <<rows, seq, index, completed>>
  BY <1>1 DEF InsertOne
<1>4. /\ tx = NoCaller /\ Done(c)
      /\ UNCHANGED <<table, registry, endpoints, approval, tx, staged, begun, made, crashes, leaked, steady>>
  BY <1>1 DEF InsertOne, transaction
<1>5. RowsInv' /\ IndexInv' /\ NoPlain'
  <2>1. CASE Insertable(withSecret)
    <3> DEFINE secret == IF withSecret THEN StoredAs(calls[c].secure) ELSE "null"
               row == [name |-> user, secret |-> secret]
    <3>1. secret \in Stored /\ (steady => secret # "plain")
      BY <1>2, StoredSafely DEF Stored
    <3>2. InsertRow(id, row) /\ completed' = completed \cup {id} /\ id \in FreeIds
      BY <1>1, <1>3, <2>1
    <3> HIDE DEF secret
    <3>3. row \in Row /\ row.secret = secret
      BY <3>1 DEF Row
    <3> HIDE DEF row
    <3> QED
      BY <1>4, <3>1, <3>2, <3>3, InsertKeeps
  <2>2. CASE ~Insertable(withSecret)
    BY <1>3, <1>4, <2>2, SameRows
  <2> QED
    BY <2>1, <2>2
<1> QED
  BY <1>2, <1>4, <1>5, WriterEnds

LEMMA InsertUserKeeps ==
  ASSUME TablesIInv, NEW c \in Callers, InsertUser(c)
  PROVE  TablesIInv'
<1>1. /\ tx = NoCaller /\ Done(c) /\ calls[c].pc = "user"
      /\ UNCHANGED <<table, registry, endpoints, approval, tx, staged, begun, made, crashes, leaked, steady>>
  BY DEF InsertUser, transaction
<1>2. RowsInv' /\ IndexInv' /\ NoPlain'
  <2>1. CASE UNCHANGED <<rows, seq, index, completed>>
    BY <1>1, <2>1, SameRows
  <2>2. CASE InsertRow(NextId, [name |-> calls[c].user, secret |-> "hashed"]) /\ completed' = completed \cup {NextId}
    <3> DEFINE row == [name |-> calls[c].user, secret |-> "hashed"]
    <3>1. calls[c].user \in Users \cup {NoUser} /\ "hashed" \in Stored
      BY CallFacts DEF CallRec, Stored
    <3>2. row \in Row /\ row.secret = "hashed" /\ InsertRow(NextId, row) /\ NextId \in FreeIds
      BY <2>2, <3>1 DEF Row, FreeIds
    <3> HIDE DEF row
    <3> QED
      BY <1>1, <2>2, <3>2, InsertKeeps
  <2> QED
    BY <2>1, <2>2 DEF InsertUser
<1> QED
  BY <1>1, <1>2, WriterEnds

LEMMA WSMessageKeeps ==
  ASSUME TablesIInv, NEW c \in Callers, WSMessage(c)
  PROVE  TablesIInv'
<1>1. /\ tx = NoCaller /\ Done(c) /\ calls[c].pc = "open"
      /\ UNCHANGED <<table, registry, endpoints, approval, tx, staged, begun, made, crashes, leaked, steady>>
      /\ completed' = completed \cup (DOMAIN rows' \ DOMAIN rows)
  BY DEF WSMessage, At, transaction
<1>2. PICK user \in Users, fields \in SUBSET calls[c].todo :
        \/ InsertRow(NextId, [name |-> IF "name" \in fields THEN user ELSE NoUser,
                              secret |-> IF "secret" \in fields THEN "raw" ELSE "null"])
        \/ UNCHANGED <<rows, seq, index>>
  BY DEF WSMessage
<1>3. RowsInv' /\ IndexInv' /\ NoPlain'
  <2>1. CASE UNCHANGED <<rows, seq, index>>
    <3>1. UNCHANGED completed
      BY <1>1, <2>1
    <3> QED
      BY <1>1, <2>1, <3>1, SameRows
  <2>2. CASE InsertRow(NextId, [name |-> IF "name" \in fields THEN user ELSE NoUser,
                                secret |-> IF "secret" \in fields THEN "raw" ELSE "null"])
    <3> DEFINE name == IF "name" \in fields THEN user ELSE NoUser
               secret == IF "secret" \in fields THEN "raw" ELSE "null"
               row == [name |-> name, secret |-> secret]
    <3>1. name \in Users \cup {NoUser} /\ secret \in Stored /\ secret # "plain"
      BY DEF Stored
    <3>2. InsertRow(NextId, row) /\ NextId \in FreeIds
      BY <2>2 DEF FreeIds
    <3> HIDE DEF name, secret
    <3>3. row \in Row /\ row.secret = secret
      BY <3>1 DEF Row
    <3> HIDE DEF row
    <3>4. completed' = completed \cup {NextId}
      <4>1. NextId \notin DOMAIN rows
        BY <3>2, FreeIdsAreFree DEF InsertRow
      <4>2. DOMAIN rows' = DOMAIN rows \cup {NextId}
        BY <3>2 DEF InsertRow, Inserted
      <4> QED
        BY <1>1, <4>1, <4>2
    <3> QED
      BY <1>1, <3>1, <3>2, <3>3, <3>4, InsertKeeps
  <2> QED
    BY <1>2, <2>1, <2>2
<1> QED
  BY <1>1, <1>3, WriterEnds

LEMMA UpdatesKeep ==
  ASSUME TablesIInv, NEW c \in Callers, DataUpdate(c) \/ ApiUpdate(c) \/ AdminUpdateRow(c)
  PROVE  TablesIInv'
<1>1. UpdateOne(c) /\ calls[c].op \in Loading /\ calls[c].pc = "run"
  BY DEF DataUpdate, ApiUpdate, AdminUpdateRow, At, Loading, APIOps
<1>2. /\ Done(c)
      /\ UNCHANGED <<table, registry, endpoints, approval, seq, tx, staged, begun, made, crashes,
                     completed, leaked, steady>>
  BY <1>1 DEF UpdateOne, transaction, history
<1>3. RowsInv' /\ IndexInv' /\ NoPlain'
  <2>1. CASE UNCHANGED <<rows, index>>
    BY <1>2, <2>1, SameRows
  <2>2. CASE \E id \in DOMAIN rows, user \in Users :
                ChangeRow(id, [name |-> user, secret |-> StoredAs(calls[c].secure)])
    <3>1. PICK id \in DOMAIN rows, user \in Users :
             ChangeRow(id, [name |-> user, secret |-> StoredAs(calls[c].secure)])
      BY <2>2
    <3> DEFINE row == [name |-> user, secret |-> StoredAs(calls[c].secure)]
    <3>2. StoredAs(calls[c].secure) \in Stored /\ (steady => StoredAs(calls[c].secure) # "plain")
      BY <1>1, StoredSafely
    <3>3. row \in Row /\ row.secret = StoredAs(calls[c].secure) /\ ChangeRow(id, row)
      BY <3>1, <3>2 DEF Row
    <3> HIDE DEF row
    <3>4. DOMAIN rows' = DOMAIN rows /\ rows'[id] = row /\ \A i \in DOMAIN rows : i # id => rows'[i] = rows[i]
      BY <3>3 DEF ChangeRow
    <3>5. RowsInv'
      BY <1>2, <3>3, <3>4 DEF TablesIInv, RowsInv, Kept
    <3>6. NoPlain'
      BY <1>2, <3>2, <3>3, <3>4 DEF TablesIInv, NoPlain
    <3>7. IndexInv'
      <4>1. index \in IndexRec /\ id \in 1..MaxId
        BY <3>1, TablesAssumption DEF TablesIInv, IndexInv, RowsInv
      <4> DEFINE entries == (index.entries \ {<<id, rows[id].name>>}) \cup {<<id, row.name>>}
      <4>2. entries \in SUBSET ((1..MaxId) \X (Users \cup {NoUser}))
        BY <3>3, <4>1 DEF IndexRec, Row
      <4>3. index' = IF "au" \in index.triggers THEN [index EXCEPT !.entries = entries] ELSE index
        BY <3>3 DEF ChangeRow
      <4>4. Entries(DOMAIN rows', rows') = (Entries(DOMAIN rows, rows) \ {<<id, rows[id].name>>}) \cup {<<id, row.name>>}
        BY <3>1, <3>4 DEF Entries
      <4> HIDE DEF entries
      <4>5. index' \in IndexRec /\ index'.fresh = index.fresh /\ index'.triggers = index.triggers
            /\ ("au" \in index.triggers => index'.entries = entries)
        BY <4>1, <4>2, <4>3 DEF IndexRec
      <4>6. index.fresh => index.triggers = Triggers /\ index.entries = Entries(DOMAIN rows, rows) /\ "au" \in Triggers
        BY DEF TablesIInv, IndexInv, Triggers
      <4> QED
        BY <4>4, <4>5, <4>6 DEF IndexInv, entries
    <3> QED
      BY <3>5, <3>6, <3>7
  <2> QED
    BY <1>1, <2>1, <2>2 DEF UpdateOne
<1> QED
  BY <1>1, <1>2, <1>3, WriterEnds

LEMMA DeletesKeep ==
  ASSUME TablesIInv, NEW c \in Callers, Del(c) \/ ApiDelete(c) \/ AdminDeleteRow(c)
  PROVE  TablesIInv'
<1>1. DeleteOne(c) /\ calls[c].pc = "run"
  BY DEF Del, ApiDelete, AdminDeleteRow, At
<1>2. /\ Done(c)
      /\ UNCHANGED <<table, registry, endpoints, approval, seq, tx, staged, begun, made, crashes,
                     completed, leaked, steady>>
  BY <1>1 DEF DeleteOne, transaction, history
<1>3. RowsInv' /\ IndexInv' /\ NoPlain'
  <2>1. CASE UNCHANGED <<rows, index>>
    BY <1>2, <2>1, SameRows
  <2>2. CASE \E id \in DOMAIN rows : RemoveRow(id)
    <3>1. PICK id \in DOMAIN rows : RemoveRow(id)
      BY <2>2
    <3>2. DOMAIN rows' = DOMAIN rows \ {id} /\ \A i \in DOMAIN rows \ {id} : rows'[i] = rows[i]
      BY <3>1 DEF RemoveRow
    <3>3. RowsInv'
      BY <1>2, <3>2 DEF TablesIInv, RowsInv, Kept
    <3>4. NoPlain'
      BY <1>2, <3>2 DEF TablesIInv, NoPlain
    <3>5. IndexInv'
      <4>1. index \in IndexRec
        BY DEF TablesIInv, IndexInv
      <4> DEFINE entries == index.entries \ {<<id, rows[id].name>>}
      <4>2. entries \in SUBSET ((1..MaxId) \X (Users \cup {NoUser}))
        BY <4>1 DEF IndexRec
      <4>3. index' = IF "ad" \in index.triggers THEN [index EXCEPT !.entries = entries] ELSE index
        BY <3>1 DEF RemoveRow
      <4>4. Entries(DOMAIN rows', rows') = Entries(DOMAIN rows, rows) \ {<<id, rows[id].name>>}
        BY <3>1, <3>2 DEF Entries
      <4> HIDE DEF entries
      <4>5. index' \in IndexRec /\ index'.fresh = index.fresh /\ index'.triggers = index.triggers
            /\ ("ad" \in index.triggers => index'.entries = entries)
        BY <4>1, <4>2, <4>3 DEF IndexRec
      <4>6. index.fresh => index.triggers = Triggers /\ index.entries = Entries(DOMAIN rows, rows) /\ "ad" \in Triggers
        BY DEF TablesIInv, IndexInv, Triggers
      <4> QED
        BY <4>4, <4>5, <4>6 DEF IndexInv, entries
    <3> QED
      BY <3>3, <3>4, <3>5
  <2> QED
    BY <1>1, <2>1, <2>2 DEF DeleteOne
<1> QED
  BY <1>1, <1>2, <1>3, WriterEnds

\* The id of a row, given out in a token.
LEMMA LoginKeeps ==
  ASSUME TablesIInv, NEW c \in Callers, Login(c)
  PROVE  TablesIInv'
<1>1. /\ tx = NoCaller
      /\ UNCHANGED <<table, rows, seq, index, tx, staged, begun, registry, endpoints, approval, calls, crashes, leaked, steady>>
  BY DEF Login, data, transaction
<1>2. PICK id \in DOMAIN rows, op \in {"login", "oauth"} : Begin(c, op) /\ completed' = completed \cup {id}
  BY DEF Login
<1>3. made' \in 0..MaxCalls
  BY <1>2, Begins
<1>4. CallsInv' /\ SchemaInv'
  <2>1. CallsInv /\ SchemaInv
    BY DEF TablesIInv
  <2> QED
    BY <1>1, <1>3, <2>1, SameCalls DEF SchemaInv
<1>5. RowsInv'
  <2>1. id \in 1..Kept
    BY <1>1, <1>2 DEF TablesIInv, RowsInv, Kept
  <2> QED
    BY <1>1, <1>2, <2>1 DEF TablesIInv, RowsInv, Kept
<1>6. IndexInv' /\ NoPlain'
  BY <1>1 DEF TablesIInv, IndexInv, Entries, NoPlain
<1> QED
  BY <1>4, <1>5, <1>6 DEF TablesIInv

--------------------------------------------------------------------------------
(* Transactions *)

LEMMA BulkBegins ==
  ASSUME TablesIInv, NEW c \in Callers, BulkBegin(c)
  PROVE  TablesIInv'
<1>1. /\ tx = NoCaller /\ tx' = c /\ begun' = seq /\ calls[c].op = "bulk" /\ calls[c].pc = "run"
      /\ UNCHANGED <<table, rows, seq, index, staged, registry, endpoints, approval, made,
                     crashes, completed, leaked, steady>>
  BY DEF BulkBegin, At, history
<1>2. c # NoCaller
  BY TablesAssumption
<1>3. CallsInv'
  <2> DEFINE r == [calls[c] EXCEPT !.pc = "rows"]
  <2>1. "rows" \in Steps /\ calls' = [calls EXCEPT ![c] = r] /\ calls[c] \in CallRec
        /\ CallSafe(calls[c], approval, steady) /\ CallsInv
    BY CallFacts DEF Steps, BulkBegin, Goto
  <2>2. r \in CallRec /\ r.op = "bulk" /\ r.pc = "rows" /\ r.secure = calls[c].secure
    BY <1>1, <2>1 DEF CallRec
  <2> HIDE DEF r
  <2>3. CallSafe(r, approval, steady)
    BY <1>1, <2>1, <2>2 DEF CallSafe
  <2> QED
    BY <1>1, <2>1, <2>2, <2>3, CallMoves
<1>4. SchemaInv' /\ IndexInv' /\ NoPlain'
  BY <1>1 DEF TablesIInv, SchemaInv, IndexInv, Entries, NoPlain
<1>5. RowsInv'
  BY <1>1, <1>2 DEF TablesIInv, RowsInv, Kept
<1> QED
  BY <1>3, <1>4, <1>5 DEF TablesIInv

LEMMA BulkRows ==
  ASSUME TablesIInv, NEW c \in Callers, BulkRow(c)
  PROVE  TablesIInv'
<1>1. /\ tx = c /\ calls[c].op = "bulk" /\ calls[c].pc = "rows" /\ c # NoCaller
      /\ UNCHANGED <<table, tx, begun, registry, endpoints, approval, calls, made, crashes, completed, leaked, steady>>
  BY TablesAssumption DEF BulkRow, At, history
<1>2. PICK user \in Users, id \in FreeIds :
        /\ InsertRow(id, [name |-> user, secret |-> StoredAs(calls[c].secure)])
        /\ staged' = staged \cup {id}
  BY DEF BulkRow
<1> DEFINE row == [name |-> user, secret |-> StoredAs(calls[c].secure)]
<1>3. StoredAs(calls[c].secure) \in Stored /\ (steady => StoredAs(calls[c].secure) # "plain")
  BY <1>1, StoredSafely DEF Loading
<1>4. row \in Row /\ row.secret = StoredAs(calls[c].secure) /\ InsertRow(id, row)
  BY <1>2, <1>3 DEF Row
<1> HIDE DEF row
<1>5. RowsInv' /\ IndexInv' /\ NoPlain'
  BY <1>1, <1>2, <1>3, <1>4, InsertKeeps
<1>6. CallsInv' /\ SchemaInv'
  <2>1. CallsInv /\ SchemaInv
    BY DEF TablesIInv
  <2> QED
    BY <1>1, <2>1, SameCalls DEF SchemaInv
<1> QED
  BY <1>5, <1>6 DEF TablesIInv

LEMMA BulkCommits ==
  ASSUME TablesIInv, NEW c \in Callers, BulkCommit(c)
  PROVE  TablesIInv'
<1>1. /\ tx = c /\ tx' = NoCaller /\ staged' = {} /\ begun' = 0 /\ completed' = completed \cup staged
      /\ calls' = [calls EXCEPT ![c] = Idle]
      /\ UNCHANGED <<table, rows, seq, index, registry, endpoints, approval, made, crashes, leaked, steady>>
  BY DEF BulkCommit, Done
<1>2. CallsInv'
  BY <1>1, IdleSafe, CallMoves DEF TablesIInv
<1>3. SchemaInv' /\ IndexInv' /\ NoPlain'
  BY <1>1 DEF TablesIInv, SchemaInv, IndexInv, Entries, NoPlain
<1>4. RowsInv'
  <2>1. Kept' = seq /\ 1..Kept \subseteq 1..seq /\ begun' \in 0..MaxId
    BY <1>1, TablesAssumption DEF TablesIInv, RowsInv, Kept
  <2>2. completed' \subseteq 1..Kept'
    BY <1>1, <2>1 DEF TablesIInv, RowsInv
  <2>3. Kept' <= seq' /\ DOMAIN rows' \subseteq 1..seq' /\ (\A id \in DOMAIN rows' : rows'[id] \in Row) /\ seq' \in 0..MaxId
    BY <1>1, <2>1, TablesAssumption DEF TablesIInv, RowsInv
  <2>4. DOMAIN rows' \ staged' \subseteq completed' /\ staged' \subseteq 1..seq'
    BY <1>1 DEF TablesIInv, RowsInv
  <2> QED
    BY <1>1, <2>1, <2>2, <2>3, <2>4 DEF RowsInv
<1> QED
  BY <1>2, <1>3, <1>4 DEF TablesIInv

\* What a rollback leaves is what calls were answered with.
LEMMA UndoKeeps ==
  ASSUME TablesIInv, UndoBulk, UNCHANGED <<completed, steady>>
  PROVE  RowsInv' /\ IndexInv' /\ NoPlain'
<1>1. /\ DOMAIN rows' = DOMAIN rows \ staged /\ \A id \in DOMAIN rows \ staged : rows'[id] = rows[id]
      /\ seq' = Kept /\ tx' = NoCaller /\ staged' = {} /\ begun' = 0 /\ Kept' = Kept
  BY DEF UndoBulk, Kept
<1>2. RowsInv'
  <2>1. Kept \in 0..MaxId /\ begun' \in 0..MaxId
    BY <1>1, TablesAssumption DEF TablesIInv, RowsInv, Kept
  <2>2. DOMAIN rows' \subseteq completed' /\ completed' \subseteq 1..Kept'
    BY <1>1 DEF TablesIInv, RowsInv
  <2>3. \A id \in DOMAIN rows' : rows'[id] \in Row
    BY <1>1 DEF TablesIInv, RowsInv
  <2>4. /\ DOMAIN rows' \subseteq 1..seq' /\ staged' \subseteq 1..seq' /\ DOMAIN rows' \ staged' \subseteq completed'
        /\ seq' \in 0..MaxId /\ Kept' <= seq'
    <3>1. seq' \in 0..MaxId /\ Kept' <= seq'
      BY <1>1, <2>1, TablesAssumption
    <3>2. DOMAIN rows' \subseteq 1..seq'
      BY <1>1, <2>2
    <3> QED
      BY <1>1, <2>2, <3>1, <3>2
  <2> QED
    BY <1>1, <2>1, <2>2, <2>3, <2>4 DEF RowsInv
<1>3. NoPlain'
  BY <1>1 DEF TablesIInv, NoPlain
<1>4. IndexInv'
  <2>1. index \in IndexRec
    BY DEF TablesIInv, IndexInv
  <2> DEFINE entries == index.entries \ Entries(staged, rows)
  <2>2. entries \in SUBSET ((1..MaxId) \X (Users \cup {NoUser}))
    BY <2>1 DEF IndexRec
  <2>3. index' = [index EXCEPT !.entries = entries]
    BY DEF UndoBulk
  <2>4. Entries(DOMAIN rows', rows') = Entries(DOMAIN rows, rows) \ Entries(staged, rows)
    BY <1>1 DEF Entries
  <2> HIDE DEF entries
  <2>5. index' \in IndexRec /\ index'.fresh = index.fresh /\ index'.triggers = index.triggers
        /\ index'.entries = entries
    BY <2>1, <2>2, <2>3 DEF IndexRec
  <2> QED
    BY <2>4, <2>5 DEF TablesIInv, IndexInv, entries
<1> QED
  BY <1>2, <1>3, <1>4

LEMMA BulkFailsKeeps ==
  ASSUME TablesIInv, NEW c \in Callers, BulkFails(c)
  PROVE  TablesIInv'
<1>1. /\ UndoBulk /\ tx' = NoCaller /\ calls' = [calls EXCEPT ![c] = Idle]
      /\ UNCHANGED <<table, registry, endpoints, approval, made, crashes, completed, leaked, steady>>
  BY DEF BulkFails, UndoBulk, Done, history
<1>2. CallsInv'
  BY <1>1, IdleSafe, CallMoves DEF TablesIInv
<1>3. SchemaInv'
  BY <1>1 DEF TablesIInv, SchemaInv
<1> QED
  BY <1>1, <1>2, <1>3, UndoKeeps DEF TablesIInv

LEMMA CrashKeeps ==
  ASSUME TablesIInv, Crash
  PROVE  TablesIInv'
<1>1. /\ UndoBulk /\ tx' = NoCaller /\ calls' = [c \in Callers |-> Idle]
      /\ UNCHANGED <<table, registry, endpoints, approval, made, completed, leaked, steady>>
  BY DEF Crash, UndoBulk, history
<1>2. CallsInv'
  BY <1>1, IdleSafe DEF CallsInv
<1>3. SchemaInv'
  <2>1. crashes' \in 0..MaxCrashes
    BY TablesAssumption DEF TablesIInv, SchemaInv, Crash
  <2> QED
    BY <1>1, <2>1 DEF TablesIInv, SchemaInv
<1> QED
  BY <1>1, <1>2, <1>3, UndoKeeps DEF TablesIInv

--------------------------------------------------------------------------------
(* The invariant *)

LEMMA InitIInv == Init => TablesIInv
<1> SUFFICES ASSUME Init PROVE TablesIInv
  OBVIOUS
<1>1. CallsInv
  BY IdleSafe DEF Init, CallsInv
<1>2. RowsInv
  <2>1. DOMAIN rows = {} /\ Kept = 0 /\ 0 \in 0..MaxId
    BY TablesAssumption DEF Init, Kept
  <2> QED
    BY <2>1 DEF Init, RowsInv
<1>3. NoPlain
  BY DEF Init, NoPlain
<1>4. IndexInv
  <2>1. {} \in SUBSET ((1..MaxId) \X (Users \cup {NoUser})) /\ {} \in SUBSET Triggers /\ Triggers \in SUBSET Triggers
    OBVIOUS
  <2>2. rows = << >> => Entries(DOMAIN rows, rows) = {}
    BY DEF Entries
  <2>3. CASE index = [exists |-> FALSE, triggers |-> {}, entries |-> {}, fresh |-> FALSE]
    BY <2>1, <2>3 DEF IndexInv, IndexRec
  <2>4. CASE index = [exists |-> TRUE, triggers |-> Triggers, entries |-> {}, fresh |-> TRUE]
    BY <2>1, <2>2, <2>4 DEF IndexInv, IndexRec, Init
  <2> QED
    BY <2>3, <2>4 DEF Init, InitTable
<1>5. SchemaInv
  <2>1. /\ approval \in [Keys -> Answers] /\ made \in 0..MaxCalls /\ crashes \in 0..MaxCrashes
        /\ leaked = {} /\ steady \in BOOLEAN
    BY TablesAssumption DEF Init, Answers, Exists
  <2>2. {} \in SUBSET Columns /\ Columns \in SUBSET Columns /\ {"secret"} \in SUBSET Columns
    BY DEF Columns
  <2>3. CASE /\ table = NoTable /\ registry = [known |-> FALSE, schema |-> {}, secure |-> {}] /\ endpoints = {}
    <3>1. NoTable \in [Columns -> Types] /\ NoTable["name"] = "absent" /\ NoTable["role"] = "absent"
      BY DEF NoTable, Types, Columns
    <3>2. ~steady
      BY <2>3 DEF Init, Exists
    <3> QED
      BY <2>1, <2>2, <2>3, <3>1, <3>2 DEF SchemaInv, RegistryRec
  <2>4. CASE /\ table = [name |-> "TEXT", secret |-> "PASSWORD", role |-> "TEXT"]
             /\ registry = [known |-> TRUE, schema |-> Columns, secure |-> {"secret"}] /\ endpoints = Bound
    <3>1. table \in [Columns -> Types] /\ table["name"] = "TEXT" /\ table["role"] = "TEXT"
      BY <2>4 DEF Types, Columns
    <3>2. registry \in RegistryRec /\ registry.known /\ "secret" \in registry.secure
      BY <2>2, <2>4 DEF RegistryRec
    <3> QED
      BY <2>1, <2>4, <3>1, <3>2 DEF SchemaInv
  <2> QED
    BY <2>3, <2>4 DEF Init, InitTable
<1> QED
  BY <1>1, <1>2, <1>3, <1>4, <1>5 DEF TablesIInv

LEMMA NextIInv == TablesIInv /\ [Next]_vars => TablesIInv'
<1> SUFFICES ASSUME TablesIInv, [Next]_vars PROVE TablesIInv'
  OBVIOUS
<1>1. ASSUME NEW c \in Callers,
         \/ CreateTable(c) \/ RecordTable(c) \/ CreateIndex(c) \/ CreateTrigger(c)
         \/ Alter(c) \/ AddColumn(c) \/ GateColumns(c) \/ DropColumn(c) \/ UpdateSecure(c)
         \/ DropCheck(c) \/ DropTable(c) \/ DropEntries(c)
         \/ CreateAPI(c) \/ CreateAuth(c) \/ AddRole(c) \/ UpdateSchema(c) \/ InsertAuth(c)
         \/ DeleteEndpoint(c) \/ CreateWebSocket(c) \/ CreateOAuth(c) \/ DeleteOAuth(c)
      PROVE TablesIInv'
  BY <1>1, AddingColumns, RegistrySteps, IndexSteps, OpensKeep, GatesKeep, DropColumnKeeps, DropTableKeeps, EndpointsKeep
<1>2. ASSUME NEW c \in Callers,
         \/ Execute(c) \/ DynamicAPI(c) \/ RequireTable(c) \/ AuthRequest(c)
         \/ LoadSecure(c) \/ LoadEndpoint(c)
         \/ InsertSingle(c) \/ ApiInsert(c) \/ AdminInsertRow(c)
         \/ DataUpdate(c) \/ ApiUpdate(c) \/ AdminUpdateRow(c)
         \/ Del(c) \/ ApiDelete(c) \/ AdminDeleteRow(c)
         \/ BulkBegin(c) \/ BulkRow(c) \/ BulkCommit(c) \/ BulkFails(c)
      PROVE TablesIInv'
  BY <1>2, RequestsKeep, LoadKeeps, InsertsKeep, UpdatesKeep, DeletesKeep, BulkBegins, BulkRows, BulkCommits, BulkFailsKeeps
<1>3. ASSUME NEW c \in Callers,
         \/ Query(c) \/ Count(c) \/ Aggregate(c) \/ ApiList(c) \/ ApiGetOne(c)
         \/ ApiStats(c) \/ AdminRows(c) \/ AuthMe(c) \/ Search(c)
         \/ FindUser(c) \/ InsertUser(c) \/ Login(c) \/ WSConnect(c) \/ WSMessage(c)
      PROVE TablesIInv'
  BY <1>3, AnswersKeep, SearchKeeps, OpensKeep, InsertUserKeeps, LoginKeeps, WSMessageKeeps
<1>4. CASE UNCHANGED vars
  <2>1. Aside /\ UNCHANGED calls
    BY <1>4 DEF vars, Aside, TablesIInv, SchemaInv
  <2> QED
    BY <2>1, NoCall
<1> QED
  BY <1>1, <1>2, <1>3, <1>4, AnswerOfOwner, CrashKeeps DEF Next

\* The inductive invariant holds throughout: calls, registry, rows and index agree
\* with each other whatever the goroutines do in between each other's statements
\* (the handlers of tools/tables.go and server/public/handler.go).
THEOREM TablesInvariant == Spec => []TablesIInv
  BY InitIInv, NextIInv, PTL DEF Spec

\* Rows are those of calls that were answered, outside the transaction under way,
\* for any number of goroutines, rows and crashes (insertBulk's transaction).
THEOREM RowsAreAnsweredFor == Spec => []TablesInv
<1>1. TablesIInv => TablesInv
  <2> SUFFICES ASSUME TablesIInv PROVE TablesInv
    OBVIOUS
  <2>1. AllOrNothing
    BY DEF TablesIInv, RowsInv, AllOrNothing
  <2>2. /\ DOMAIN rows \subseteq 1..MaxId /\ (\A id \in DOMAIN rows : rows[id] \in Row) /\ seq \in 0..MaxId
        /\ tx \in Callers \cup {NoCaller} /\ staged \subseteq 1..MaxId /\ begun \in 0..MaxId
        /\ completed \subseteq 1..MaxId
    <3>1. 1..seq \subseteq 1..MaxId /\ 1..Kept \subseteq 1..MaxId
      BY TablesAssumption DEF TablesIInv, RowsInv, Kept
    <3> QED
      BY <3>1 DEF TablesIInv, RowsInv
  <2>3. calls \in [Callers -> CallRec]
    BY DEF TablesIInv, CallsInv, CallSafe
  <2>4. index \in IndexRec
    BY DEF TablesIInv, IndexInv
  <2> QED
    BY <2>1, <2>2, <2>3, <2>4 DEF TablesInv, TypeOK, TablesIInv, SchemaInv, CallRec, IndexRec, RegistryRec, Answers
<1> QED
  BY <1>1, TablesInvariant, PTL

\* An index that was complete while the table was empty has exactly the rows of the
\* table, rollbacks and crashes included (createFTSIndex's triggers).
THEOREM IndexIsExact == Spec => []FreshIndexExact
<1>1. TablesIInv => FreshIndexExact
  BY DEF TablesIInv, IndexInv, FreshIndexExact
<1> QED
  BY <1>1, TablesInvariant, PTL

\* A table that has kept its PASSWORD column keeps its passwords hashed and out of
\* every answer but aggregate's, although each call acts on the columns it read a
\* statement earlier (LoadSecureColumns, ProcessSecureValue, visibleColumns).
THEOREM PasswordsAreProtected == Spec => []PasswordsProtected
<1>1. TablesIInv => PasswordsProtected
  BY DEF TablesIInv, SchemaInv, NoPlain, PasswordsProtected
<1> QED
  BY <1>1, TablesInvariant, PTL

--------------------------------------------------------------------------------
(* What a step may not do *)

\* The steps that insert no row.
LEMMA NoNewRows ==
  ASSUME NEW c \in Callers,
         \/ CreateTable(c) \/ RecordTable(c) \/ CreateIndex(c) \/ CreateTrigger(c)
         \/ Alter(c) \/ AddColumn(c) \/ GateColumns(c) \/ DropColumn(c) \/ UpdateSecure(c)
         \/ DropCheck(c) \/ DropTable(c) \/ DropEntries(c)
         \/ CreateAPI(c) \/ CreateAuth(c) \/ AddRole(c) \/ UpdateSchema(c) \/ InsertAuth(c)
         \/ DeleteEndpoint(c) \/ CreateWebSocket(c) \/ CreateOAuth(c) \/ DeleteOAuth(c)
         \/ Execute(c) \/ DynamicAPI(c) \/ RequireTable(c) \/ AuthRequest(c)
         \/ LoadSecure(c) \/ LoadEndpoint(c)
         \/ DataUpdate(c) \/ ApiUpdate(c) \/ AdminUpdateRow(c)
         \/ Del(c) \/ ApiDelete(c) \/ AdminDeleteRow(c)
         \/ BulkBegin(c) \/ BulkCommit(c) \/ BulkFails(c)
         \/ Query(c) \/ Count(c) \/ Aggregate(c) \/ ApiList(c) \/ ApiGetOne(c)
         \/ ApiStats(c) \/ AdminRows(c) \/ AuthMe(c) \/ Search(c)
         \/ FindUser(c) \/ Login(c) \/ WSConnect(c)
  PROVE  DOMAIN rows' \subseteq DOMAIN rows
<1> USE DEF data, transaction
<1>1. CASE \/ CreateTable(c) \/ RecordTable(c) \/ CreateIndex(c) \/ CreateTrigger(c)
           \/ Alter(c) \/ AddColumn(c) \/ GateColumns(c) \/ UpdateSecure(c) \/ DropCheck(c) \/ DropEntries(c)
  BY <1>1 DEF CreateTable, RecordTable, CreateIndex, CreateTrigger, Alter, AddColumn, GateColumns,
              UpdateSecure, DropCheck, DropEntries
<1>2. CASE DropColumn(c) \/ DropTable(c) \/ BulkFails(c)
  <2>1. DropColumn(c) => DOMAIN rows' = DOMAIN rows
    BY DEF DropColumn
  <2>2. DropTable(c) => DOMAIN rows' = {}
    BY DEF DropTable
  <2>3. BulkFails(c) => DOMAIN rows' = DOMAIN rows \ staged
    BY DEF BulkFails, UndoBulk
  <2> QED
    BY <1>2, <2>1, <2>2, <2>3
<1>3. CASE \/ CreateAPI(c) \/ CreateAuth(c) \/ AddRole(c) \/ UpdateSchema(c) \/ InsertAuth(c)
           \/ DeleteEndpoint(c) \/ CreateWebSocket(c) \/ CreateOAuth(c) \/ DeleteOAuth(c)
  BY <1>3 DEF CreateAPI, CreateAuth, AddRole, UpdateSchema, InsertAuth, DeleteEndpoint, CreateWebSocket,
              CreateOAuth, DeleteOAuth
<1>4. CASE \/ Execute(c) \/ DynamicAPI(c) \/ RequireTable(c) \/ AuthRequest(c)
           \/ LoadSecure(c) \/ LoadEndpoint(c) \/ BulkBegin(c) \/ BulkCommit(c)
  BY <1>4 DEF Execute, DynamicAPI, RequireTable, AuthRequest, Start, LoadSecure, LoadEndpoint, Load, BulkBegin, BulkCommit
<1>5. CASE \/ DataUpdate(c) \/ ApiUpdate(c) \/ AdminUpdateRow(c) \/ Del(c) \/ ApiDelete(c) \/ AdminDeleteRow(c)
  BY <1>5 DEF DataUpdate, ApiUpdate, AdminUpdateRow, UpdateOne, ChangeRow, Del, ApiDelete, AdminDeleteRow, DeleteOne, RemoveRow
<1>6. CASE \/ Query(c) \/ Count(c) \/ Aggregate(c) \/ ApiList(c) \/ ApiGetOne(c)
           \/ ApiStats(c) \/ AdminRows(c) \/ AuthMe(c) \/ Search(c)
  BY <1>6 DEF Query, Count, Aggregate, ApiList, ApiGetOne, ApiStats, AdminRows, AuthMe, Show, Search
<1>7. CASE FindUser(c) \/ Login(c) \/ WSConnect(c)
  BY <1>7 DEF FindUser, Login, WSConnect
<1> QED
  BY <1>1, <1>2, <1>3, <1>4, <1>5, <1>6, <1>7

\* The steps that do insert one: under the next id, or for a call of the owner or a tool.
LEMMA NewRows ==
  ASSUME TablesIInv, NEW d \in Callers,
         \/ InsertSingle(d) \/ ApiInsert(d) \/ AdminInsertRow(d) \/ BulkRow(d) \/ InsertUser(d) \/ WSMessage(d)
  PROVE  \/ DOMAIN rows' \subseteq DOMAIN rows \cup {NextId}
         \/ \A c \in Callers : calls[c].op \in {"api_insert", "register", "oauth", "ws"} => calls'[c] = calls[c]
<1>1. CASE InsertSingle(d) \/ AdminInsertRow(d) \/ BulkRow(d)
  <2>1. \/ UNCHANGED calls
        \/ calls[d].op \in {"insert", "admin_insert"} /\ calls' = [calls EXCEPT ![d] = Idle]
    BY <1>1 DEF InsertSingle, AdminInsertRow, InsertOne, Done, BulkRow, At
  <2>2. calls = [c \in Callers |-> calls[c]]
    BY CallFacts
  <2> QED
    BY <2>1, <2>2
<1>2. CASE ApiInsert(d)
  <2>1. InsertOne(d, {NextId})
    BY <1>2 DEF ApiInsert
  <2>2. UNCHANGED rows \/ \E row : rows' = Inserted(NextId, row)
    BY <2>1 DEF InsertOne, InsertRow
  <2> QED
    BY <2>2 DEF Inserted
<1>3. CASE InsertUser(d) \/ WSMessage(d)
  <2>1. UNCHANGED rows \/ \E row : rows' = Inserted(NextId, row)
    BY <1>3 DEF InsertUser, WSMessage, InsertRow
  <2> QED
    BY <2>1 DEF Inserted
<1> QED
  BY <1>1, <1>2, <1>3

\* An id that was given out is given to no other visitor's row (AUTOINCREMENT in
\* create, apiInsert's removal of the id): the next id is above all those of
\* answered calls, even after a rollback has taken the sequence back.
THEOREM IdsAreGivenOnce == Spec => IdsNeverReused
<1> DEFINE Reuses == \E c \in Callers :
          /\ calls[c].op \in {"api_insert", "register", "oauth", "ws"} /\ calls'[c] # calls[c]
          /\ (DOMAIN rows' \ DOMAIN rows) \cap completed # {}
<1>1. TablesIInv /\ [Next]_vars => ~Reuses
  <2> SUFFICES ASSUME TablesIInv, [Next]_vars, Reuses PROVE FALSE
    OBVIOUS
  <2>1. NextId \notin completed
    <3>1. seq \in Nat /\ completed \subseteq 1..seq
      BY TablesAssumption DEF TablesIInv, RowsInv, Kept
    <3> QED
      BY <3>1 DEF NextId
  <2>2. /\ ~(DOMAIN rows' \subseteq DOMAIN rows \cup {NextId})
        /\ ~(\A c \in Callers : calls[c].op \in {"api_insert", "register", "oauth", "ws"} => calls'[c] = calls[c])
    BY <2>1
  <2> HIDE DEF Reuses
  <2>3. ~(DOMAIN rows' \subseteq DOMAIN rows)
    BY <2>2
  <2>4. CASE UNCHANGED vars
    BY <2>3, <2>4 DEF vars
  <2>5. CASE Answer \/ Crash
    BY <2>3, <2>5 DEF Answer, data, Crash, UndoBulk
  <2> QED
    BY <2>2, <2>3, <2>4, <2>5, NoNewRows, NewRows DEF Next
<1>2. ~Reuses => \A c \in Callers :
          calls[c].op \in {"api_insert", "register", "oauth", "ws"} /\ calls'[c] # calls[c]
             => (DOMAIN rows' \ DOMAIN rows) \cap completed = {}
  OBVIOUS
<1> HIDE DEF Reuses
<1> QED
  BY <1>1, <1>2, TablesInvariant, PTL DEF Spec, IdsNeverReused

\* The steps that leave every column where it is.
LEMMA ColumnsStay ==
  ASSUME TablesIInv, NEW c \in Callers,
         \/ CreateTable(c) \/ RecordTable(c) \/ CreateIndex(c) \/ CreateTrigger(c)
         \/ Alter(c) \/ AddColumn(c) \/ GateColumns(c) \/ UpdateSecure(c)
         \/ DropCheck(c) \/ DropEntries(c)
         \/ CreateAPI(c) \/ CreateAuth(c) \/ AddRole(c) \/ UpdateSchema(c) \/ InsertAuth(c)
         \/ DeleteEndpoint(c) \/ CreateWebSocket(c) \/ CreateOAuth(c) \/ DeleteOAuth(c)
         \/ Execute(c) \/ DynamicAPI(c) \/ RequireTable(c) \/ AuthRequest(c)
         \/ LoadSecure(c) \/ LoadEndpoint(c)
         \/ InsertSingle(c) \/ ApiInsert(c) \/ AdminInsertRow(c)
         \/ DataUpdate(c) \/ ApiUpdate(c) \/ AdminUpdateRow(c)
         \/ Del(c) \/ ApiDelete(c) \/ AdminDeleteRow(c)
         \/ BulkBegin(c) \/ BulkRow(c) \/ BulkCommit(c) \/ BulkFails(c)
         \/ Query(c) \/ Count(c) \/ Aggregate(c) \/ ApiList(c) \/ ApiGetOne(c)
         \/ ApiStats(c) \/ AdminRows(c) \/ AuthMe(c) \/ Search(c)
         \/ FindUser(c) \/ InsertUser(c) \/ Login(c) \/ WSConnect(c) \/ WSMessage(c)
  PROVE  \A column \in Columns : table[column] # "absent" => table'[column] # "absent"
<1>1. CASE CreateTable(c) \/ AddColumn(c) \/ AddRole(c)
  <2>1. table \in [Columns -> Types]
    BY DEF TablesIInv, SchemaInv
  <2>2. ~Exists => \A column \in Columns : table[column] = "absent"
    BY DEF Exists, NoTable
  <2>3. CASE CreateTable(c)
    BY <2>2, <2>3 DEF CreateTable
  <2>4. CASE AddColumn(c)
    <3>1. PICK column \in calls[c].todo, type \in {"PASSWORD", "TEXT"} :
            UNCHANGED table \/ table' = [table EXCEPT ![column] = type]
      BY <2>4 DEF AddColumn
    <3> QED
      BY <2>1, <3>1
  <2>5. CASE AddRole(c)
    BY <2>1, <2>5 DEF AddRole
  <2> QED
    BY <1>1, <2>3, <2>4, <2>5
<1>2. CASE \/ RecordTable(c) \/ CreateIndex(c) \/ CreateTrigger(c)
           \/ Alter(c) \/ GateColumns(c) \/ UpdateSecure(c) \/ DropCheck(c) \/ DropEntries(c)
  BY <1>2 DEF RecordTable, CreateIndex, CreateTrigger, Alter, GateColumns, UpdateSecure, DropCheck, DropEntries
<1>3. CASE \/ CreateAPI(c) \/ CreateAuth(c) \/ UpdateSchema(c) \/ InsertAuth(c)
           \/ DeleteEndpoint(c) \/ CreateWebSocket(c) \/ CreateOAuth(c) \/ DeleteOAuth(c)
  BY <1>3 DEF CreateAPI, CreateAuth, UpdateSchema, InsertAuth, DeleteEndpoint, CreateWebSocket, CreateOAuth, DeleteOAuth
<1>4. CASE \/ Execute(c) \/ DynamicAPI(c) \/ RequireTable(c) \/ AuthRequest(c)
           \/ LoadSecure(c) \/ LoadEndpoint(c) \/ BulkBegin(c) \/ BulkRow(c) \/ BulkCommit(c) \/ BulkFails(c)
  BY <1>4 DEF Execute, DynamicAPI, RequireTable, AuthRequest, Start, LoadSecure, LoadEndpoint, Load,
              BulkBegin, BulkRow, BulkCommit, BulkFails
<1>5. CASE \/ InsertSingle(c) \/ ApiInsert(c) \/ AdminInsertRow(c) \/ DataUpdate(c) \/ ApiUpdate(c)
           \/ AdminUpdateRow(c) \/ Del(c) \/ ApiDelete(c) \/ AdminDeleteRow(c)
  BY <1>5 DEF InsertSingle, ApiInsert, AdminInsertRow, InsertOne, DataUpdate, ApiUpdate, AdminUpdateRow, UpdateOne,
              Del, ApiDelete, AdminDeleteRow, DeleteOne
<1>6. CASE \/ Query(c) \/ Count(c) \/ Aggregate(c) \/ ApiList(c) \/ ApiGetOne(c)
           \/ ApiStats(c) \/ AdminRows(c) \/ AuthMe(c) \/ Search(c)
  BY <1>6 DEF Query, Count, Aggregate, ApiList, ApiGetOne, ApiStats, AdminRows, AuthMe, Show, Search
<1>7. CASE FindUser(c) \/ InsertUser(c) \/ Login(c) \/ WSConnect(c) \/ WSMessage(c)
  BY <1>7 DEF FindUser, InsertUser, Login, WSConnect, WSMessage
<1> QED
  BY <1>1, <1>2, <1>3, <1>4, <1>5, <1>6, <1>7

\* Columns and tables go only while the owner's approval of that very loss stands:
\* the statements between gate and DROP belong to others, and none of them
\* withdraws it or changes what the call is about to drop (the gates of alter and drop).
THEOREM DestroyedWithApproval == Spec => DestroyedOnlyWhenApproved
<1> DEFINE Destroys == \E c \in Columns : table[c] # "absent" /\ table'[c] = "absent"
                          /\ \A key \in Keys : ~(c \in key /\ approval[key] = "approve")
<1>1. TablesIInv /\ [Next]_vars => ~Destroys
  <2> SUFFICES ASSUME TablesIInv, [Next]_vars, NEW c \in Columns, table[c] # "absent", table'[c] = "absent"
               PROVE  \E key \in Keys : c \in key /\ approval[key] = "approve"
    OBVIOUS
  <2>1. CASE UNCHANGED vars
    BY <2>1 DEF vars
  <2>2. CASE Answer \/ Crash
    BY <2>2 DEF Answer, Crash
  <2>3. CASE \E d \in Callers : DropTable(d)
    <3>1. PICK d \in Callers : DropTable(d)
      BY <2>3
    <3>2. approval[Columns] = "approve"
      BY <3>1, CallFacts DEF DropTable, At, CallSafe
    <3> QED
      BY <3>2, TheKeys
  <2>4. CASE \E d \in Callers : DropColumn(d)
    <3>1. PICK d \in Callers : DropColumn(d)
      BY <2>4
    <3>2. PICK key \in Keys : calls[d].drop \subseteq key /\ approval[key] = "approve"
      BY <3>1, CallFacts DEF DropColumn, At, CallSafe
    <3>3. UNCHANGED table \/ \E column \in calls[d].drop : table' = [table EXCEPT ![column] = "absent"]
      BY <3>1 DEF DropColumn
    <3>4. table \in [Columns -> Types]
      BY DEF TablesIInv, SchemaInv
    <3>5. c \in calls[d].drop
      BY <3>3, <3>4
    <3> QED
      BY <3>2, <3>5
  <2> QED
    BY <2>1, <2>2, <2>3, <2>4, ColumnsStay DEF Next
<1>2. ~Destroys => \A c \in Columns : table[c] # "absent" /\ table'[c] = "absent" =>
          \E key \in Keys : c \in key /\ approval[key] = "approve"
  OBVIOUS
<1> HIDE DEF Destroys
<1> QED
  BY <1>1, <1>2, TablesInvariant, PTL DEF Spec, DestroyedOnlyWhenApproved
================================================================================
