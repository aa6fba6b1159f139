---------------------------- MODULE Database ----------------------------
(* The database services (src/database) in four parts that share no    *)
(* state: shards, transactions over several of them, the load balancer *)
(* over database nodes, and schema migrations.                         *)
EXTENDS Integers, Sequences, FiniteSets

(* DatabaseShardingService (src/database): rows of a table routed over a list *)
(* of shards that grows, the rebalancing every new shard starts in the        *)
(* background, and explicit migrations between two shards. Each shard is a    *)
(* database of its own; every query is a step. The tables never meet, so an   *)
(* execution is about one: trades, which have a uuid and are routed by month, *)
(* or balances, which each shard numbers and which are routed by user.        *)

CONSTANTS
  None,
  AllShards,    \* shards in the order they are provisioned
  FirstShards,  \* how many are there from the start
  Rows,
  Month,        \* row -> month of a trade
  MaxMigrations,
  Preference    \* row -> shards in the order its user's place on the ring meets them

VARIABLES
  table,        \* "trades" or "balances"
  ring,         \* shards provisioned: the first ring of AllShards
  on,           \* shard -> id -> row
  given,        \* shard -> greatest number used on the shard
  rebalancing,  \* shard -> the rebalancing its provisioning started
  migration,    \* migrateData under way
  migrations,   \* how many were begun
  stored,       \* rows ever stored
  mixed,      \* two movements of rows have run at once
  overwritten   \* rows another row with the same id was saved over

shardVars == <<table, ring, on, given, rebalancing, migration, migrations, stored, mixed, overwritten>>

Shards == {AllShards[n] : n \in 1 .. Len(AllShards)}
Active == {AllShards[n] : n \in 1 .. ring}
NoMove == [pc |-> "idle", from |-> 1, moving |-> {}, saved |-> None]
NoMigration == [pc |-> "idle", from |-> None, to |-> None, read |-> {}]

ShardInit ==
  /\ table \in {"trades", "balances"} /\ ring = FirstShards
  /\ on = [s \in Shards |-> <<>>] /\ given = [s \in Shards |-> 0]
  /\ rebalancing = [s \in Shards |-> NoMove] /\ migration = NoMigration
  /\ migrations = 0 /\ stored = {} /\ mixed = FALSE /\ overwritten = {}

(* By time: the month modulo the number of shards, in the order they came.   *)
(* By user: the first shard after the key on the ring.                       *)
ConsistentHash(r) ==
  Preference[r][CHOOSE n \in DOMAIN Preference[r] :
    Preference[r][n] \in Active /\ \A m \in 1 .. n - 1 : Preference[r][m] \notin Active]
GetShard(r) == IF table = "trades" THEN AllShards[(Month[r] % ring) + 1] ELSE ConsistentHash(r)

With(s, id, r) == [i \in DOMAIN on[s] \cup {id} |-> IF i = id THEN r ELSE on[s][i]]
Less(s, ids) == [i \in DOMAIN on[s] \ ids |-> on[s][i]]
(* A number saved from outside also moves the shard's own count. *)
Bump(s, ids) == IF table = "trades" THEN given
                ELSE [given EXCEPT ![s] = CHOOSE n \in {@} \cup ids : \A i \in {@} \cup ids : i <= n]
Insert(r) ==
  LET s == GetShard(r) id == IF table = "trades" THEN r ELSE given[s] + 1 IN
  /\ r \notin stored /\ stored' = stored \cup {r} /\ on' = [on EXCEPT ![s] = With(s, id, r)]
  /\ given' = Bump(s, {id})
  /\ UNCHANGED <<table, migrations, ring, rebalancing, migration, mixed, overwritten>>

-----------------------------------------------------------------------------
(* rebalanceShards, shard after shard: the rows to move and where to are     *)
(* decided when a shard is read, then each is saved there and removed here.  *)
(* One that fails to save stays. With one shard there is nothing to do.      *)
Moving == {s \in Shards : rebalancing[s].pc # "idle"}
ProvisionNewShard ==
  LET s == AllShards[ring + 1] IN
  /\ ring < Len(AllShards) /\ ring' = ring + 1
  /\ rebalancing' = [rebalancing EXCEPT ![s].pc = "read"]
  /\ mixed' = (mixed \/ Moving # {} \/ migration.pc # "idle")
  /\ UNCHANGED <<table, migrations, on, given, migration, stored, overwritten>>
Misplaced(s) == {[id |-> i, row |-> on[s][i], to |-> GetShard(on[s][i])] : i \in {i \in DOMAIN on[s] : GetShard(on[s][i]) # s}}
ReadShard(b) ==
  /\ rebalancing[b].pc = "read"
  /\ rebalancing' = [rebalancing EXCEPT ![b].pc = "move", ![b].moving = Misplaced(AllShards[rebalancing[b].from])]
  /\ UNCHANGED <<table, migrations, ring, on, given, migration, stored, mixed, overwritten>>
(* save writes the row under its id, over a row of the target that has it. *)
SaveRow(b) ==
  /\ rebalancing[b].pc = "move" /\ rebalancing[b].saved = None
  /\ \E m \in rebalancing[b].moving :
       /\ rebalancing' = [rebalancing EXCEPT ![b].saved = m] /\ on' = [on EXCEPT ![m.to] = With(m.to, m.id, m.row)]
       /\ overwritten' = overwritten \cup (IF m.id \in DOMAIN on[m.to] THEN {on[m.to][m.id]} \ {m.row} ELSE {})
       /\ given' = Bump(m.to, {m.id})
  /\ UNCHANGED <<table, migrations, ring, migration, stored, mixed>>
SaveFails(b) ==
  /\ rebalancing[b].pc = "move" /\ rebalancing[b].saved = None
  /\ \E m \in rebalancing[b].moving : rebalancing' = [rebalancing EXCEPT ![b].moving = @ \ {m}]
  /\ UNCHANGED <<table, migrations, ring, on, given, migration, stored, mixed, overwritten>>
RemoveRow(b) ==
  LET m == rebalancing[b].saved s == AllShards[rebalancing[b].from] IN
  /\ rebalancing[b].pc = "move" /\ m # None
  /\ rebalancing' = [rebalancing EXCEPT ![b].saved = None, ![b].moving = @ \ {m}]
  /\ on' = [on EXCEPT ![s] = Less(s, {m.id})]
  /\ UNCHANGED <<table, migrations, ring, given, migration, stored, mixed, overwritten>>
NextShard(b) ==
  /\ rebalancing[b].pc = "move" /\ rebalancing[b].moving = {}
  /\ rebalancing' = [rebalancing EXCEPT ![b] = IF @.from < ring THEN [@ EXCEPT !.pc = "read", !.from = @ + 1] ELSE NoMove]
  /\ UNCHANGED <<table, migrations, ring, on, given, migration, stored, mixed, overwritten>>
RebalanceShards(b) == ReadShard(b) \/ SaveRow(b) \/ SaveFails(b) \/ RemoveRow(b) \/ NextShard(b)

(* migrateData: read, insert all, delete by the same filter, which also      *)
(* takes the rows that came in between. Nothing is inserted when an id is    *)
(* taken.                                                                    *)
MigrateRead(a, b) ==
  /\ migration.pc = "idle" /\ migrations < MaxMigrations /\ a # b /\ on[a] # <<>>
  /\ migration' = [pc |-> "insert", from |-> a, to |-> b, read |-> DOMAIN on[a]]
  /\ migrations' = migrations + 1 /\ mixed' = (mixed \/ Moving # {})
  /\ UNCHANGED <<table, ring, on, given, rebalancing, stored, overwritten>>
MigrateInsert ==
  LET a == migration.from b == migration.to IN
  /\ migration.pc = "insert"
  /\ IF migration.read \cap DOMAIN on[b] # {} \/ ~(migration.read \subseteq DOMAIN on[a]) THEN migration' = NoMigration /\ UNCHANGED <<on, given>>
     ELSE /\ on' = [on EXCEPT ![b] = [i \in DOMAIN on[b] \cup migration.read |-> IF i \in DOMAIN on[b] THEN on[b][i] ELSE on[a][i]]]
          /\ migration' = [migration EXCEPT !.pc = "delete"] /\ given' = Bump(b, migration.read)
  /\ UNCHANGED <<table, migrations, ring, rebalancing, stored, mixed, overwritten>>
MigrateDelete ==
  /\ migration.pc = "delete" /\ migration' = NoMigration /\ on' = [on EXCEPT ![migration.from] = <<>>]
  /\ mixed' = (mixed \/ DOMAIN on[migration.from] \ migration.read # {})
  /\ UNCHANGED <<table, migrations, ring, given, rebalancing, stored, overwritten>>
MigrateData == (\E a, b \in Active : MigrateRead(a, b)) \/ MigrateInsert \/ MigrateDelete

ShardNext ==
  \/ \E r \in Rows : Insert(r)
  \/ ProvisionNewShard \/ (\E b \in Shards : RebalanceShards(b)) \/ MigrateData

-----------------------------------------------------------------------------
ShardTypeOK ==
  /\ ring \in FirstShards .. Len(AllShards) /\ stored \subseteq Rows /\ overwritten \subseteq Rows
  /\ \A s \in Shards : given[s] \in 0 .. Cardinality(Rows) /\ \A i \in DOMAIN on[s] : on[s][i] \in Rows

(* Moving rows loses none: unless two movements ran at once, a row that was  *)
(* stored is on some shard; a balance may be lost to a row of another shard  *)
(* that bears its number and was saved over it, a trade never                *)
(* (database-sharding.service.ts 208-237, 366-451, 572-682).                 *)
RowsSurvive ==
  /\ ~mixed => \A r \in stored \ overwritten : \E s \in Shards : \E i \in DOMAIN on[s] : on[s][i] = r
  /\ table = "trades" => overwritten = {}

-----------------------------------------------------------------------------
(* DatabaseShardingService.executeTransaction (src/database): a transaction   *)
(* over several shards writes on every participant and then commits them one  *)
(* after the other. A shard is one SQLite DataSource, and TypeORM gives all   *)
(* its callers the same query runner: a transaction that is started while     *)
(* another is open becomes a savepoint in it, and commit and rollback are     *)
(* about the innermost level, whoever opened it.                              *)

CONSTANTS
  Runs,         \* transactions
  ShardIds

VARIABLES
  phase,        \* transaction -> where executeTransaction is
  parties,      \* transaction -> the shards of its operations, in the order of participants
  joined,       \* transaction -> how many of them are in queryRunners
  at,           \* transaction -> the one its loop is at
  levels,       \* shard -> the open levels of its connection, each the transactions that wrote in it
  txStored,       \* shard -> the transactions whose writes are committed
  met           \* transactions that ran while another used one of their shards

txVars == <<phase, parties, joined, at, levels, txStored, met>>

Ended == {"done", "failed", "halfway"}
Orders == {p \in UNION {[1..n -> ShardIds] : n \in 1..Cardinality(ShardIds)} :
             \A i, j \in DOMAIN p : p[i] = p[j] => i = j}
TxShards(t, from, to) == {parties[t][i] : i \in from..to}
Shard(t) == parties[t][at[t]]
Below(s) == SubSeq(levels[s], 1, Len(levels[s]) - 1)
Innermost(s) == levels[s][Len(levels[s])]

TxInit ==
  /\ phase = [t \in Runs |-> "idle"] /\ parties = [t \in Runs |-> <<>>]
  /\ joined = [t \in Runs |-> 0] /\ at = [t \in Runs |-> 1]
  /\ levels = [s \in ShardIds |-> <<>>] /\ txStored = [s \in ShardIds |-> {}] /\ met = {}

Begin(t) ==
  /\ phase[t] = "idle" /\ phase' = [phase EXCEPT ![t] = "start"]
  /\ \E p \in Orders :
       LET others == {u \in Runs : /\ phase[u] \notin {"idle"} \cup Ended
                                   /\ \E i \in DOMAIN p : p[i] \in TxShards(u, 1, Len(parties[u]))}
       IN  /\ parties' = [parties EXCEPT ![t] = p]
           /\ met' = IF others = {} THEN met ELSE met \cup others \cup {t}
  /\ UNCHANGED <<joined, at, levels, txStored>>
(* connect and startTransaction: BEGIN, or SAVEPOINT in an open transaction. *)
Start(t) ==
  /\ phase[t] = "start" /\ phase' = [phase EXCEPT ![t] = "write"]
  /\ joined' = [joined EXCEPT ![t] = at[t]]
  /\ levels' = [levels EXCEPT ![Shard(t)] = Append(@, {})]
  /\ UNCHANGED <<parties, at, txStored, met>>
(* The operations on one shard go to the innermost level, or, when another   *)
(* call has rolled the transaction back, straight to the table.              *)
Write(t) ==
  /\ phase[t] = "write"
  /\ LET s == Shard(t) IN
     IF levels[s] = <<>>
       THEN txStored' = [txStored EXCEPT ![s] = @ \cup {t}] /\ UNCHANGED levels
       ELSE levels' = [levels EXCEPT ![s] = Append(Below(s), Innermost(s) \cup {t})] /\ UNCHANGED txStored
  /\ LET last == at[t] = Len(parties[t])
     IN  /\ phase' = [phase EXCEPT ![t] = IF last THEN "commit" ELSE "start"]
         /\ at' = [at EXCEPT ![t] = IF last THEN 1 ELSE @ + 1]
  /\ UNCHANGED <<parties, joined, met>>
(* COMMIT stores what the connection wrote; inside a transaction RELEASE     *)
(* SAVEPOINT only hands it to the level below.                               *)
Commit(t) ==
  /\ phase[t] = "commit" /\ at[t] <= Len(parties[t])
  /\ LET s == Shard(t)
         n == Len(levels[s])
     IN  /\ n > 0
         /\ levels' = [levels EXCEPT ![s] =
                         IF n = 1 THEN <<>> ELSE [Below(s) EXCEPT ![n - 1] = @ \cup Innermost(s)]]
         /\ txStored' = IF n = 1 THEN [txStored EXCEPT ![s] = @ \cup Innermost(s)] ELSE txStored
  /\ at' = [at EXCEPT ![t] = @ + 1] /\ UNCHANGED <<phase, parties, joined, met>>
(* A write or a commit throws; a commit always does where another call has   *)
(* rolled the transaction back. Commits made before stay.                    *)
Fails(t) ==
  /\ \/ phase[t] = "write"
     \/ phase[t] = "commit" /\ at[t] <= Len(parties[t])
  /\ phase' = [phase EXCEPT ![t] = IF phase[t] = "commit" /\ at[t] > 1 THEN "broken" ELSE "rollback"]
  /\ at' = [at EXCEPT ![t] = 1] /\ UNCHANGED <<parties, joined, levels, txStored, met>>
(* Every runner is rolled back, committed ones too: one without an open      *)
(* transaction throws, which is logged.                                      *)
Rollback(t) ==
  /\ phase[t] \in {"rollback", "broken"} /\ at[t] <= joined[t]
  /\ levels' = [levels EXCEPT ![Shard(t)] = IF @ = <<>> THEN @ ELSE Below(Shard(t))]
  /\ at' = [at EXCEPT ![t] = @ + 1] /\ UNCHANGED <<phase, parties, joined, txStored, met>>
Release(t) ==
  /\ \/ phase[t] = "commit" /\ at[t] > Len(parties[t])
     \/ phase[t] \in {"rollback", "broken"} /\ at[t] > joined[t]
  /\ phase' = [phase EXCEPT ![t] = CASE @ = "commit" -> "done" [] @ = "rollback" -> "failed" [] OTHER -> "halfway"]
  /\ UNCHANGED <<parties, joined, at, levels, txStored, met>>
ExecuteTransaction(t) ==
  Begin(t) \/ Start(t) \/ Write(t) \/ Commit(t) \/ Fails(t) \/ Rollback(t) \/ Release(t)
TxNext == \E t \in Runs : ExecuteTransaction(t)

(* Every query returns or fails. *)
TxFairness == \A t \in Runs :
  /\ WF_txVars(phase[t] # "idle" /\ ExecuteTransaction(t))

-----------------------------------------------------------------------------
TxTypeOK ==
  /\ \A t \in Runs : /\ phase[t] \in {"idle", "start", "write", "commit", "rollback", "broken"} \cup Ended
                     /\ joined[t] \in 0..Len(parties[t])
  /\ \A s \in ShardIds : txStored[s] \subseteq Runs

(* t has opened a level on s and not closed it yet. *)
Uses(t, s) ==
  CASE phase[t] \in {"start", "write"} -> s \in TxShards(t, 1, joined[t])
    [] phase[t] = "commit" -> s \in TxShards(t, at[t], Len(parties[t]))
    [] phase[t] \in {"rollback", "broken"} -> s \in TxShards(t, at[t], joined[t])
    [] OTHER -> FALSE

(* No connection has more open levels than transactions that will still      *)
(* close one, so none is left inside a transaction when the calls have       *)
(* ended, although they close each other's levels. A transaction that met no *)
(* other on its shards has stored nothing if it failed before its first      *)
(* commit, and is on all its shards if it returned                           *)
(* (database-sharding.service.ts 242-314). Only a commit that fails after    *)
(* another leaves it halfway.                                                *)
AllOrNothing ==
  /\ \A s \in ShardIds : Len(levels[s]) <= Cardinality({t \in Runs : Uses(t, s)})
  /\ \A t \in Runs \ met :
       /\ phase[t] = "failed" => \A s \in ShardIds : t \notin txStored[s]
       /\ phase[t] = "done" => \A s \in TxShards(t, 1, Len(parties[t])) : t \in txStored[s]

(* Two transactions that nest in each other on the same connections do not   *)
(* get stuck: each one ends, as a commit that finds its transaction rolled   *)
(* back throws (database-sharding.service.ts 242-314).                       *)
TransactionEnds == \A t \in Runs : phase[t] = "start" ~> phase[t] \in Ended

-----------------------------------------------------------------------------
(* DatabaseLoadBalancerService (src/database): operations go to a healthy     *)
(* node, the one with the fewest connections, and are tried again on failure; *)
(* health checks, adding and removing nodes go on meanwhile, and a shutdown   *)
(* waits for the connections to end. In memory; an operation waits.           *)

CONSTANTS
  NodeIds,
  Forced,   \* nodes callers insist on, or None
  Operations,   \* calls of executeRead and executeWrite
  MaxRetries,
  Incarnations   \* bound: times a node is added under one id

VARIABLES
  nodes,        \* id -> the last node object added, is it in the map, isHealthy
  open,         \* id and incarnation -> activeConnections of that object
  operation,    \* call -> where executeWithLoadBalancing is
  stopping      \* shutdown waits

nodeVars == <<nodes, open, operation, stopping>>

Idle == [pc |-> "idle", node |-> None, gen |-> 0, retries |-> 0, forced |-> None]
Objects == NodeIds \X (1 .. Incarnations)
NodeInit ==
  /\ nodes = [n \in NodeIds |-> [gen |-> 1, live |-> TRUE, healthy |-> TRUE]] /\ open = [x \in Objects |-> 0]
  /\ operation = [c \in Operations |-> Idle] /\ stopping = "no"

Present == {n \in NodeIds : nodes[n].live}
Healthy == {n \in Present : nodes[n].healthy}
Count(n) == open[<<n, nodes[n].gen>>]
SelectLeastConnections == {n \in Healthy : \A m \in Healthy : Count(n) <= Count(m)}
(* The breaker of a node never opens: getRecentFailures answers 0 for a      *)
(* closed one. A forced node is used even if it is not healthy.              *)
SelectNode(forced) == IF forced # None THEN {forced} \cap Present ELSE SelectLeastConnections

Ask(c, forced) ==
  /\ operation[c].pc = "idle" /\ operation' = [operation EXCEPT ![c] = [Idle EXCEPT !.pc = "select", !.forced = forced]]
  /\ UNCHANGED <<nodes, open, stopping>>
NodeStart(c) ==
  /\ operation[c].pc = "select"
  /\ \E n \in SelectNode(operation[c].forced) :
       /\ operation' = [operation EXCEPT ![c].pc = "operation", ![c].node = n, ![c].gen = nodes[n].gen]
       /\ open' = [open EXCEPT ![<<n, nodes[n].gen>>] = @ + 1]
  /\ UNCHANGED <<nodes, stopping>>
Again(c) ==
  IF operation[c].retries < MaxRetries THEN [operation[c] EXCEPT !.pc = "select", !.node = None, !.gen = 0, !.retries = @ + 1]
  ELSE [Idle EXCEPT !.pc = "failed"]
NoNode(c) ==
  /\ operation[c].pc = "select" /\ SelectNode(operation[c].forced) = {}
  /\ operation' = [operation EXCEPT ![c] = Again(c)] /\ UNCHANGED <<nodes, open, stopping>>
(* finally: the object the call began with gives its connection back. *)
NodeRelease(c) == [open EXCEPT ![<<operation[c].node, operation[c].gen>>] = @ - 1]
Succeed(c) ==
  /\ operation[c].pc = "operation" /\ open' = NodeRelease(c)
  /\ operation' = [operation EXCEPT ![c] = [Idle EXCEPT !.pc = "done"]] /\ UNCHANGED <<nodes, stopping>>
(* An operation that fails, a write too, is asked for again. *)
Fail(c) ==
  /\ operation[c].pc = "operation" /\ open' = NodeRelease(c)
  /\ operation' = [operation EXCEPT ![c] = Again(c)] /\ UNCHANGED <<nodes, stopping>>
ExecuteWithLoadBalancing(c) == NodeStart(c) \/ NoNode(c) \/ Succeed(c) \/ Fail(c)

PerformHealthChecks(n) ==
  /\ n \in Present /\ \E h \in BOOLEAN : nodes' = [nodes EXCEPT ![n].healthy = h]
  /\ UNCHANGED <<open, operation, stopping>>
AddNode(n) ==
  /\ nodes[n].gen < Incarnations /\ nodes' = [nodes EXCEPT ![n] = [gen |-> nodes[n].gen + 1, live |-> TRUE, healthy |-> TRUE]]
  /\ UNCHANGED <<open, operation, stopping>>
RemoveNode(n) ==
  /\ n \in Present /\ nodes' = [nodes EXCEPT ![n].live = FALSE] /\ UNCHANGED <<open, operation, stopping>>
(* Connections of a node that was removed or replaced are not waited for. *)
Shutdown ==
  /\ stopping = "no" /\ stopping' = "waiting" /\ UNCHANGED <<nodes, open, operation>>
ShutdownEnds ==
  /\ stopping = "waiting" /\ (\A n \in Present : Count(n) = 0) /\ stopping' = "stopped" /\ UNCHANGED <<nodes, open, operation>>

NodeNext ==
  \/ \E c \in Operations : (\E f \in Forced : Ask(c, f)) \/ ExecuteWithLoadBalancing(c)
  \/ \E n \in NodeIds : PerformHealthChecks(n) \/ AddNode(n) \/ RemoveNode(n)
  \/ Shutdown \/ ShutdownEnds

(* An operation returns or fails, a retry comes after its delay, and the     *)
(* shutdown looks again every second.                                        *)
NodeFairness == (\A c \in Operations : WF_nodeVars(ExecuteWithLoadBalancing(c))) /\ WF_nodeVars(ShutdownEnds)

-----------------------------------------------------------------------------
NodeTypeOK ==
  /\ \A n \in NodeIds : nodes[n].gen \in 1 .. Incarnations
  /\ \A c \in Operations : operation[c].retries \in 0 .. MaxRetries

(* The connections a node object counts are the operations that run on it,   *)
(* though nodes are removed and added again under the same id while they do  *)
(* (database-load-balancer.service.ts 132-221, 423-447).                     *)
ConnectionsCounted ==
  \A x \in Objects : open[x] = Cardinality({c \in Operations : operation[c].pc = "operation" /\ <<operation[c].node, operation[c].gen>> = x})

(* Every operation ends after at most MaxRetries further tries, and a        *)
(* shutdown ends once no more operations come (132-221, 471-490).            *)
OperationsEnd ==
  /\ \A c \in Operations : operation[c].pc = "select" ~> operation[c].pc \in {"done", "failed"}
  /\ stopping = "waiting" ~> stopping = "stopped"

-----------------------------------------------------------------------------
(* DatabaseMigrationService (src/database): a migration plan runs its steps,   *)
(* each in a transaction of its own, rolls them back when a critical one       *)
(* fails, and validates at the end. Several requests may run the same plan.    *)
(* A step creates an index or a column, or drops one; creating what is there   *)
(* fails, dropping what is not there does not.                                 *)

CONSTANTS
  Requests,     \* POST migration/:planId/execute
  Steps,        \* the plan's steps: [op, object, critical]
  Before,       \* objects of the schema when nothing has been migrated
  Dependencies  \* plans the plan depends on

VARIABLES
  schema,       \* objects of the schema
  request,      \* request -> where executeMigrationPlan is
  progress,     \* activeMigrations has an entry of the plan
  basis,        \* request -> the schema when it began
  schemaTogether,     \* requests another one has run along with
  unrolled      \* requests a step of whose rollback failed

schemaVars == <<schema, request, progress, basis, schemaTogether, unrolled>>

Fresh == [pc |-> "idle", i |-> 0, dryRun |-> FALSE, skipValidation |-> FALSE]
SchemaInit ==
  /\ schema = Before /\ request = [q \in Requests |-> Fresh] /\ progress = FALSE
  /\ basis = [q \in Requests |-> {}] /\ schemaTogether = {} /\ unrolled = {}

Running == {q \in Requests : request[q].pc \notin {"idle", "refused", "completed", "failed", "kept", "dry"}}
Go(q, pc, i) == request' = [request EXCEPT ![q].pc = pc, ![q].i = i]

(* isMigrationCompleted always answers no, so a plan with a dependency never *)
(* starts.                                                                   *)
ExecuteMigrationPlan(q, dryRun, skipValidation) ==
  /\ request[q].pc = "idle"
  /\ IF Dependencies # {} THEN Go(q, "refused", 0) /\ UNCHANGED <<progress, basis, schemaTogether>>
     ELSE /\ request' = [request EXCEPT ![q] = [Fresh EXCEPT !.pc = IF dryRun THEN "dry" ELSE "step", !.i = 1, !.dryRun = dryRun, !.skipValidation = skipValidation]]
          /\ progress' = ~dryRun /\ basis' = [basis EXCEPT ![q] = schema]
          /\ schemaTogether' = IF dryRun \/ Running = {} THEN schemaTogether ELSE schemaTogether \cup Running \cup {q}
  /\ UNCHANGED <<schema, unrolled>>

Possible(st) == st.op = "drop" \/ st.object \notin schema
Applied(st) == IF st.op = "drop" THEN schema \ {st.object} ELSE schema \cup {st.object}
Undone(st) == IF st.op = "drop" THEN schema \cup {st.object} ELSE schema \ {st.object}
(* The last step done, validation follows. *)
AfterStep(q) == IF request[q].i < Len(Steps) THEN Go(q, "step", request[q].i + 1) ELSE Go(q, "validate", 0)
ExecuteMigrationStep(q) ==
  LET st == Steps[request[q].i] IN
  /\ request[q].pc = "step" /\ Possible(st) /\ schema' = Applied(st) /\ AfterStep(q)
  /\ UNCHANGED <<progress, basis, schemaTogether, unrolled>>
(* A step that is not critical is passed over when it fails, and is rolled   *)
(* back like the others later.                                               *)
StepFails(q) ==
  LET st == Steps[request[q].i] IN
  /\ request[q].pc = "step"
  /\ IF st.critical THEN Go(q, "rollback", request[q].i - 1) ELSE AfterStep(q)
  /\ UNCHANGED <<schema, progress, basis, schemaTogether, unrolled>>
(* Backwards over the steps before the failed one; what cannot be undone is  *)
(* logged.                                                                   *)
RollbackMigration(q) ==
  LET i == request[q].i st == Steps[i] IN
  /\ request[q].pc = "rollback" /\ i > 0 /\ Go(q, "rollback", i - 1)
  /\ IF st.op = "drop" /\ st.object \in schema THEN UNCHANGED schema ELSE schema' = Undone(st)
  /\ UNCHANGED <<progress, basis, schemaTogether, unrolled>>
RollbackFails(q) ==
  /\ request[q].pc = "rollback" /\ request[q].i > 0 /\ Go(q, "rollback", request[q].i - 1)
  /\ unrolled' = unrolled \cup {q} /\ UNCHANGED <<schema, progress, basis, schemaTogether>>
(* The queries of a plan are run; a failing one fails the plan and nothing   *)
(* is rolled back.                                                           *)
ValidateMigration(q) ==
  /\ request[q].pc = "validate"
  /\ \E passed \in BOOLEAN : Go(q, IF request[q].skipValidation \/ passed THEN "completed" ELSE "invalid", 0)
  /\ progress' = FALSE /\ UNCHANGED <<schema, basis, schemaTogether, unrolled>>
SchemaFail(q) ==
  /\ request[q].pc = "invalid" \/ (request[q].pc = "rollback" /\ request[q].i = 0)
  /\ request' = [request EXCEPT ![q].pc = IF @ = "invalid" THEN "kept" ELSE "failed"]
  /\ progress' = FALSE /\ UNCHANGED <<schema, basis, schemaTogether, unrolled>>

SchemaNext == \E q \in Requests :
  \/ \E dryRun, skip \in BOOLEAN : ExecuteMigrationPlan(q, dryRun, skip)
  \/ ExecuteMigrationStep(q) \/ StepFails(q) \/ RollbackMigration(q) \/ RollbackFails(q) \/ ValidateMigration(q) \/ SchemaFail(q)

-----------------------------------------------------------------------------
SchemaTypeOK ==
  /\ schema \subseteq Before \cup {Steps[n].object : n \in DOMAIN Steps} /\ progress \in BOOLEAN
  /\ \A q \in Requests : request[q].i \in 0 .. Len(Steps)

(* A plan that failed at a critical step leaves the schema as it found it,   *)
(* steps that were skipped included, unless another request ran along with   *)
(* it, has run since, or a rollback statement failed; and a plan that        *)
(* completed has every critical step applied (database-migration.service.ts  *)
(* 129-233, 340-365, 466-494).                                               *)
RolledBackWhole ==
  /\ \A q \in Requests : request[q].pc = "failed" /\ q \notin schemaTogether \cup unrolled /\ Running = {}
       /\ (\A r \in Requests \ {q} : request[r].pc \in {"idle", "dry", "refused"})
       => schema = basis[q]
  /\ \A q \in Requests : request[q].pc \in {"validate", "completed"} /\ schemaTogether = {}
       /\ (\A r \in Requests \ {q} : request[r].pc \in {"idle", "dry", "refused"})
       => \A n \in DOMAIN Steps : Steps[n].critical => (Steps[n].object \in schema) = (Steps[n].op = "create")
=============================================================================
