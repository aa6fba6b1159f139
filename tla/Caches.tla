---------------------------- MODULE Caches ----------------------------
(* Caches (src/database, src/common): the levels of the multi-level    *)
(* cache, cached queries, and the pool of Redis connections. The three *)
(* share no state.                                                     *)
EXTENDS Integers, Sequences, FiniteSets

(* MultiLevelCacheService and IntelligentCacheService (src/database): three  *)
(* Redis levels in front of one key. A miss promotes the copy of a lower     *)
(* level upwards with a new lifetime; writes and deletions go to the levels  *)
(* in parallel, and errors of one level are swallowed.                       *)

CONSTANTS
  Requests,
  Lifetime,     \* level -> longest lifetime, in ticks
  Ttls,         \* lifetimes callers of set ask for
  MaxValues,    \* bound: values written
  MaxDels,      \* bound: deletions
  LastTick      \* bound: ticks of time

Levels == 1 .. 3

VARIABLES
  now,          \* time
  copies,       \* level -> the copy of the key there, with the tick it expires at
  born,         \* value -> tick at which set was called with it
  asked,        \* request -> where it is
  dels,         \* deletions begun
  dropped,      \* values that a deletion has removed from the levels it reached
  overlapped    \* a deletion failed at a level, or overlapped a get or a set

levelVars == <<now, copies, born, asked, dels, dropped, overlapped>>

NoCopy == [value |-> 0, expires |-> 0]
Quiet == [op |-> "none", value |-> 0, left |-> {}, found |-> {}, ttl |-> 0, since |-> 0]
LevelInit ==
  /\ now = 0 /\ copies = [l \in Levels |-> NoCopy] /\ born = <<>>
  /\ asked = [r \in Requests |-> Quiet] /\ dropped = 0 /\ dels = 0 /\ overlapped = FALSE

Least(a, b) == IF a < b THEN a ELSE b
Become(r, x) == asked' = [asked EXCEPT ![r] = x]
Busy(ops) == \E r \in Requests : asked[r].op \in ops
Setex(l, v, ttl) == copies' = [copies EXCEPT ![l] = [value |-> v, expires |-> now + ttl]]
Redis(l) == copies[l].value

(* get looks at L1, L2, L3 in turn. A level that fails counts as a miss. *)
Get(r) ==
  /\ asked[r].op = "none" /\ Become(r, [Quiet EXCEPT !.op = "get", !.left = Levels, !.since = now])
  /\ overlapped' = (overlapped \/ Busy({"del", "invalidate"})) /\ UNCHANGED <<now, copies, born, dropped, dels>>
(* The levels above the one that answered get the value back. *)
Promoted(l) == {k \in Levels : k < l}
GetFromLevel(r) ==
  /\ asked[r].op = "get" /\ asked[r].left # {}
  /\ LET l == CHOOSE k \in asked[r].left : \A m \in asked[r].left : k <= m
     IN \/ Redis(l) # 0 /\ Become(r, [asked[r] EXCEPT !.op = "promote", !.value = Redis(l), !.left = Promoted(l)])
        \/ Become(r, [asked[r] EXCEPT !.left = @ \ {l}])
  /\ UNCHANGED <<now, copies, born, dropped, overlapped, dels>>
(* L2 before L1; 60 and 300 seconds whatever the copy below has left. *)
Promote(r) ==
  /\ asked[r].op = "promote" /\ asked[r].left # {}
  /\ LET l == CHOOSE k \in asked[r].left : \A m \in asked[r].left : m <= k
     IN /\ Become(r, [asked[r] EXCEPT !.left = @ \ {l}])
        /\ (Setex(l, asked[r].value, Lifetime[l]) \/ UNCHANGED copies)
  /\ UNCHANGED <<now, born, dropped, overlapped, dels>>
Answered(r) ==
  /\ asked[r].op \in {"get", "promote"} /\ asked[r].left = {} /\ Become(r, Quiet)
  /\ UNCHANGED <<now, copies, born, dropped, overlapped, dels>>

(* set of a new value, whose lifetime the levels cut. *)
Set(r, ttl) ==
  /\ asked[r].op = "none" /\ Len(born) < MaxValues /\ born' = Append(born, now)
  /\ Become(r, [Quiet EXCEPT !.op = "set", !.value = Len(born) + 1, !.left = Levels, !.ttl = ttl, !.since = now])
  /\ overlapped' = (overlapped \/ Busy({"del", "invalidate"})) /\ UNCHANGED <<now, copies, dropped, dels>>
SetToLevel(r, l) ==
  /\ asked[r].op = "set" /\ l \in asked[r].left /\ Become(r, [asked[r] EXCEPT !.left = @ \ {l}])
  /\ (Setex(l, asked[r].value, Least(asked[r].ttl, Lifetime[l])) \/ UNCHANGED copies)
  /\ UNCHANGED <<now, born, dropped, overlapped, dels>>
SetEnds(r) ==
  /\ asked[r].op = "set" /\ asked[r].left = {} /\ Become(r, Quiet)
  /\ UNCHANGED <<now, copies, born, dropped, overlapped, dels>>

Begin(r, op) ==
  /\ asked[r].op = "none" /\ Become(r, [Quiet EXCEPT !.op = op, !.left = Levels, !.value = Len(born), !.since = now])
  /\ overlapped' = (overlapped \/ Busy({"get", "promote", "set"})) /\ UNCHANGED <<now, copies, born, dropped>>
  /\ dels < MaxDels /\ dels' = dels + 1
Del(r, l) ==
  /\ asked[r].op = "del" /\ l \in asked[r].left /\ Become(r, [asked[r] EXCEPT !.left = @ \ {l}])
  /\ \/ copies' = [copies EXCEPT ![l] = NoCopy] /\ UNCHANGED overlapped
     \/ overlapped' = TRUE /\ UNCHANGED copies
  /\ UNCHANGED <<now, born, dropped, dels>>
(* invalidatePattern scans a level and deletes afterwards what it has found. *)
ScanAndDelete(r, l) ==
  /\ asked[r].op = "invalidate" /\ l \in asked[r].left
  /\ \/ l \notin asked[r].found /\ Redis(l) # 0 /\ Become(r, [asked[r] EXCEPT !.found = @ \cup {l}]) /\ UNCHANGED <<copies, overlapped>>
     \/ l \notin asked[r].found /\ Redis(l) = 0 /\ Become(r, [asked[r] EXCEPT !.left = @ \ {l}]) /\ UNCHANGED <<copies, overlapped>>
     \/ l \in asked[r].found /\ copies' = [copies EXCEPT ![l] = NoCopy] /\ Become(r, [asked[r] EXCEPT !.left = @ \ {l}]) /\ UNCHANGED overlapped
     \/ overlapped' = TRUE /\ Become(r, [asked[r] EXCEPT !.left = @ \ {l}]) /\ UNCHANGED copies
  /\ UNCHANGED <<now, born, dropped, dels>>
DelEnds(r) ==
  /\ asked[r].op \in {"del", "invalidate"} /\ asked[r].left = {} /\ Become(r, Quiet)
  /\ dropped' = (IF asked[r].value > dropped THEN asked[r].value ELSE dropped)
  /\ UNCHANGED <<now, copies, born, overlapped, dels>>

(* Redis drops the copies whose time has come. No request takes longer than  *)
(* a tick.                                                                   *)
Tick ==
  /\ now < LastTick /\ now' = now + 1 /\ (\A r \in Requests : asked[r].op = "none" \/ asked[r].since = now)
  /\ copies' = [l \in Levels |-> IF copies[l].expires > now + 1 THEN copies[l] ELSE NoCopy]
  /\ UNCHANGED << born, asked, dropped, overlapped, dels>>

LevelNext ==
  \/ \E r \in Requests :
       \/ Get(r) \/ GetFromLevel(r) \/ Promote(r) \/ Answered(r) \/ SetEnds(r) \/ DelEnds(r)
       \/ \E ttl \in Ttls : Set(r, ttl)
       \/ \E op \in {"del", "invalidate"} : Begin(r, op)
       \/ \E l \in Levels : SetToLevel(r, l) \/ Del(r, l) \/ ScanAndDelete(r, l)
  \/ Tick

-----------------------------------------------------------------------------
LevelTypeOK ==
  /\ now \in 0 .. LastTick /\ Len(born) <= MaxValues
  /\ \A l \in Levels : copies[l].value \in 0 .. Len(born)

(* Old values end: though a promotion gives a copy a new lifetime, and       *)
(* overlaps writes and deletions, no level answers with a value older than   *)
(* the lifetimes of the three levels together (multi-level-cache.service.ts  *)
(* 61-136). And what was deleted stays away, unless the deletion failed at a *)
(* level or overlapped a get, which may have put it back (141-164, 347-376). *)
OldCopiesEnd ==
  \A l \in Levels : Redis(l) # 0 =>
    /\ now - born[Redis(l)] <= Lifetime[1] + Lifetime[2] + Lifetime[3]
    /\ overlapped \/ Redis(l) > dropped

-----------------------------------------------------------------------------
(* The copies of query results that CacheService keeps                       *)
(* (src/common/services/cache.service.ts): OptimizedQueryService fills them   *)
(* on a miss and drops some of them after an insert, and                      *)
(* AdvancedCacheWarmingService fills, refreshes and drops them by tag. Rows   *)
(* and copies are versions. Nothing stops a result from being stored after    *)
(* the rows it was read from have changed, and a pattern is only expanded     *)
(* when the store shows a Redis client, which cache-manager 7 does not.       *)

CONSTANTS
  Keys,        \* the families of keys, by their prefixes
  Tasks,       \* requests, warmings and refreshes under way
  MaxWrites,   \* bound: changes of the rows behind one key
  None

VARIABLES
  client,      \* the store shows its Redis client
  rows,        \* per key: the version of the rows its query reads
  cached,      \* per key: the copy, or None; crossed and spared are history
  task,        \* per task: what it does and the result it holds
  insert,      \* the keys batchInsertTrades has yet to drop, or None
  tagged       \* the keys in tagIndex
queryVars == <<client, rows, cached, task, insert, tagged>>

Idle == [pc |-> "idle", key |-> None, version |-> 0, wrapped |-> FALSE, tag |-> FALSE, crossed |-> FALSE]
(* The queries of OptimizedQueryService: the family of keys each stores its result under and the table it reads. *)
GetUserTradeHistory == [key |-> "user_trades", table |-> "trades"]
GetMarketDataAggregation == [key |-> "market_agg", table |-> "trades"]
GetUserPortfolioSnapshot == [key |-> "portfolio_snapshot", table |-> "Balance"]
GetTradingStatistics == [key |-> "trading_stats", table |-> "trades"]
GetTopTraders == [key |-> "top_traders", table |-> "trades"]
Queries == {GetUserTradeHistory, GetMarketDataAggregation, GetUserPortfolioSnapshot, GetTradingStatistics, GetTopTraders}
FromTrades == {k \in Keys : [key |-> k, table |-> "trades"] \in Queries}
Patterns == {"trading_stats", "market_agg"}
(* batchInsertTrades drops two families and the keys invalidateTradeRelatedCaches names. *)
Dropped == Keys \cap (Patterns \cup {"user_balances", "portfolio", "market_price"})

QueryInit ==
  /\ client \in BOOLEAN /\ rows = [k \in Keys |-> 0] /\ cached = [k \in Keys |-> None]
  /\ task = [t \in Tasks |-> Idle] /\ insert = None /\ tagged = {}

Load(t, k, wrapped, tag) ==
  task' = [task EXCEPT ![t] = [Idle EXCEPT !.pc = "loading", !.key = k, !.wrapped = wrapped, !.tag = tag]]

(* A read that finds no copy, or fails, goes to the database. *)
QueryGet(t, k, wrapped, fails) ==
  /\ task[t].pc = "idle" /\ (cached[k] = None \/ fails) /\ Load(t, k, wrapped, FALSE)
  /\ UNCHANGED <<client, rows, cached, insert, tagged>>
(* An old copy is answered and refreshed behind it. A copy that warmOne or     *)
(* writeThrough stored has no cachedAt: its age is not a number, never old.    *)
GetWithStaleRevalidate(t, k) ==
  /\ task[t].pc = "idle" /\ cached[k] # None /\ cached[k].wrapped /\ Load(t, k, TRUE, FALSE)
  /\ UNCHANGED <<client, rows, cached, insert, tagged>>
WarmOne(t, k, tag) ==
  /\ task[t].pc = "idle" /\ Load(t, k, FALSE, tag)
  /\ UNCHANGED <<client, rows, cached, insert, tagged>>

Loader(t, fails) ==
  /\ task[t].pc = "loading"
  /\ task' = [task EXCEPT ![t] = IF fails THEN Idle ELSE [@ EXCEPT !.pc = "loaded", !.version = rows[task[t].key]]]
  /\ UNCHANGED <<client, rows, cached, insert, tagged>>

Copy(t) == [version |-> task[t].version, wrapped |-> task[t].wrapped, crossed |-> task[t].crossed, spared |-> FALSE]
Spare(c) == IF c = None THEN c ELSE [c EXCEPT !.spared = TRUE]
(* A failing set is logged only. *)
QuerySet(t, fails) ==
  LET k == task[t].key IN
  /\ task[t].pc \in {"loaded", "persisted"}
  /\ cached' = [cached EXCEPT ![k] = IF ~fails THEN Copy(t) ELSE IF task[t].pc = "persisted" THEN Spare(@) ELSE @]
  /\ tagged' = IF task[t].tag THEN tagged \cup {k} ELSE tagged
  /\ task' = [task EXCEPT ![t] = Idle] /\ UNCHANGED <<client, rows, insert>>

(* History: results that were read before this change of the rows of S. *)
Crossed(S) == [t \in Tasks |-> [task[t] EXCEPT !.crossed = @ \/ (task[t].pc \in {"loaded", "persisted"} /\ task[t].key \in S)]]

WriteThrough(t, k) ==
  /\ task[t].pc = "idle" /\ rows[k] < MaxWrites /\ rows' = [rows EXCEPT ![k] = @ + 1]
  /\ task' = [Crossed({k}) EXCEPT ![t] = [Idle EXCEPT !.pc = "persisted", !.key = k, !.version = rows[k] + 1]]
  /\ UNCHANGED <<client, cached, insert, tagged>>

BatchInsertTrades ==
  /\ insert = None /\ insert' = Dropped /\ \A k \in FromTrades : rows[k] < MaxWrites
  /\ rows' = [k \in Keys |-> IF k \in FromTrades THEN rows[k] + 1 ELSE rows[k]]
  /\ task' = Crossed(FromTrades) /\ UNCHANGED <<client, cached, tagged>>
(* del and invalidate log a failure; without a client, invalidate deletes the  *)
(* key that is spelled like the pattern.                                       *)
Removed(k, fails) ==
  IF fails \/ (k \in Patterns /\ ~client) THEN Spare(cached[k]) ELSE None
Invalidate(k, fails) ==
  /\ insert # None /\ k \in insert /\ cached' = [cached EXCEPT ![k] = Removed(k, fails)]
  /\ insert' = IF insert = {k} THEN None ELSE insert \ {k}
  /\ UNCHANGED <<client, rows, task, tagged>>

(* The tag names the keys warmed under it; they stay in the index. *)
InvalidateByTag ==
  /\ tagged # {} /\ \E gone \in SUBSET tagged : cached' = [k \in Keys |-> IF k \in gone THEN None ELSE cached[k]]
  /\ UNCHANGED <<client, rows, task, insert, tagged>>
Expire(k) == cached[k] # None /\ cached' = [cached EXCEPT ![k] = None] /\ UNCHANGED <<client, rows, task, insert, tagged>>

QueryNext ==
  \/ BatchInsertTrades \/ InvalidateByTag
  \/ \E k \in Keys : Expire(k) \/ \E f \in BOOLEAN : Invalidate(k, f)
  \/ \E t \in Tasks : \/ \E f \in BOOLEAN : Loader(t, f) \/ QuerySet(t, f)
                      \/ \E k \in Keys : \/ GetWithStaleRevalidate(t, k) \/ WriteThrough(t, k)
                                         \/ \E f, g \in BOOLEAN : WarmOne(t, k, f) \/ QueryGet(t, k, f, g)

-----------------------------------------------------------------------------
QueryTypeOK ==
  /\ client \in BOOLEAN /\ rows \in [Keys -> 0 .. MaxWrites] /\ tagged \subseteq Keys
  /\ insert = None \/ insert \in SUBSET Dropped
  /\ \A t \in Tasks : task[t].pc \in {"idle", "loading", "loaded", "persisted"} /\ task[t].key \in Keys \cup {None}
  /\ \A k \in Keys : cached[k] = None \/ cached[k].version <= rows[k]

(* A copy is older than its rows only while the write that changed them is    *)
(* still dropping or storing copies, or for one of four reasons: the result   *)
(* was read before the write and stored after it (get 61-102, warmOne         *)
(* 131-132), it is a list of a user's trades or of top traders, which no      *)
(* insert drops, the drop failed, or it named a pattern and the store shows   *)
(* no client (cache.service.ts 97-104).                                       *)
StaleOnlyByRace ==
  \A k \in Keys : cached[k] # None /\ cached[k].version < rows[k] =>
    \/ cached[k].crossed \/ cached[k].spared \/ k \in {"user_trades", "top_traders"}
    \/ insert # None /\ k \in insert
    \/ \E t \in Tasks : task[t].pc = "persisted" /\ task[t].key = k

-----------------------------------------------------------------------------
(* RedisPoolService (src/common/cache/redis-pool.service.ts): connections that *)
(* withClient acquires and releases. acquire compares the pool with its limit  *)
(* before it waits for a new connection, and onModuleDestroy waits for the     *)
(* quits of a snapshot before it forgets who holds what.                       *)

CONSTANTS Callers, Clients, Max, MaxAttempts

VARIABLES
  idle,        \* pool
  inUse,
  live,        \* connections that are open
  caller,      \* per caller: what it does, and with which connection
  quitting,    \* the snapshot onModuleDestroy waits for, or None
  closed,
  raced, late  \* history: connections made while others were being made, or while the pool closed
poolVars == <<idle, inUse, live, caller, quitting, closed, raced, late>>

Out == [pc |-> "out", client |-> None, tries |-> 0]
(* onModuleInit fills the pool as far as connections can be made. *)
PoolInit ==
  /\ \E S \in SUBSET Clients : Cardinality(S) <= 1 /\ idle = S /\ live = S
  /\ inUse = {} /\ caller = [c \in Callers |-> Out] /\ quitting = None /\ closed = FALSE
  /\ raced = {} /\ late = {}

Connecting == {c \in Callers : caller[c].pc = "connecting"}
AcquireIdle(c, x) ==
  /\ caller[c].pc = "out" /\ ~closed /\ x \in idle
  /\ idle' = idle \ {x} /\ inUse' = inUse \cup {x}
  /\ caller' = [caller EXCEPT ![c] = [Out EXCEPT !.pc = "holding", !.client = x]]
  /\ UNCHANGED <<live, quitting, closed, raced, late>>
Exhausted == Cardinality(idle) + Cardinality(inUse) >= Max
(* An empty pool below its limit makes a connection; otherwise acquire throws. *)
AcquireNew(c) ==
  /\ caller[c].pc = "out" /\ ~closed /\ idle = {} /\ ~Exhausted
  /\ caller' = [caller EXCEPT ![c].pc = "connecting"]
  /\ UNCHANGED <<idle, inUse, live, quitting, closed, raced, late>>
(* createClientWithBackoff gives up after MaxAttempts attempts. *)
ConnectFails(c) ==
  /\ c \in Connecting
  /\ caller' = [caller EXCEPT ![c] = IF @.tries + 1 < MaxAttempts THEN [@ EXCEPT !.tries = @ + 1] ELSE Out]
  /\ UNCHANGED <<idle, inUse, live, quitting, closed, raced, late>>
Connected(c, x) ==
  /\ c \in Connecting /\ x \notin live \cup {caller[d].client : d \in Callers}
  /\ live' = live \cup {x} /\ inUse' = inUse \cup {x}
  /\ caller' = [caller EXCEPT ![c] = [Out EXCEPT !.pc = "holding", !.client = x]]
  /\ raced' = IF idle # {} \/ Connecting # {c} \/ Exhausted THEN raced \cup {x} ELSE raced \ {x}
  /\ late' = IF quitting # None THEN late \cup {x} ELSE late \ {x}
  /\ UNCHANGED <<idle, quitting, closed>>

(* The finally of withClient; a connection the pool has forgotten is dropped. *)
Release(c) ==
  LET x == caller[c].client
      known == x \in inUse
  IN
  /\ caller[c].pc = "holding" /\ caller' = [caller EXCEPT ![c] = Out]
  /\ inUse' = inUse \ {x}
  /\ idle' = IF known /\ ~closed THEN idle \cup {x} ELSE idle
  /\ live' = IF known /\ closed THEN live \ {x} ELSE live
  /\ UNCHANGED <<quitting, closed, raced, late>>

OnModuleDestroy ==
  /\ ~closed /\ closed' = TRUE /\ quitting' = idle \cup inUse
  /\ UNCHANGED <<idle, inUse, live, caller, raced, late>>
Destroyed ==
  /\ quitting # None /\ quitting' = None
  /\ live' = live \ quitting /\ idle' = {} /\ inUse' = {}
  /\ UNCHANGED <<caller, closed, raced, late>>

PoolNext ==
  \/ OnModuleDestroy \/ Destroyed
  \/ \E c \in Callers : \/ AcquireNew(c) \/ ConnectFails(c) \/ Release(c)
                        \/ \E x \in Clients : AcquireIdle(c, x) \/ Connected(c, x)

-----------------------------------------------------------------------------
PoolTypeOK ==
  /\ idle \subseteq Clients /\ inUse \subseteq Clients /\ live \subseteq Clients
  /\ quitting = None \/ quitting \subseteq Clients
  /\ \A c \in Callers : caller[c].pc \in {"out", "connecting", "holding"} /\ caller[c].client \in Clients \cup {None}

(* No connection serves two callers, a pooled one serves none, and until the  *)
(* pool closes every open connection is in one of the two sets, so that none  *)
(* leaks when a caller fails. The pool is larger than its limit only by       *)
(* connections that were made while another acquire was waiting for its own   *)
(* (acquire 89-95).                                                           *)
ClientsAccounted ==
  LET held == {caller[c].client : c \in {d \in Callers : caller[d].pc = "holding"}} IN
  /\ \A c, d \in Callers : c # d /\ caller[c].pc = "holding" /\ caller[d].pc = "holding" => caller[c].client # caller[d].client
  /\ idle \cap inUse = {} /\ (~closed => held = inUse /\ live = idle \cup inUse)
  /\ Cardinality((idle \cup inUse) \ raced) <= Max

(* Once the pool is closed and its callers are done, the only connections     *)
(* left open are those an acquire under way added while onModuleDestroy was   *)
(* waiting: inUse.clear() forgets them, so their release does nothing.        *)
ClosedLeavesNothing ==
  closed /\ quitting = None /\ (\A c \in Callers : caller[c].pc = "out") => live \subseteq late
=============================================================================
