---------------------------- MODULE MCProgress ----------------------------
(* Small instances of the parts that promise to end. They share no state, *)
(* so part chooses the one an execution is about. The fair actions of a   *)
(* part are disabled in its initial state, so the fairness of one part    *)
(* says nothing about the others.                                         *)
EXTENDS Integers, FiniteSets, Sequences, TLC

CONSTANTS b1, b2, b3, q1, u1, u2, None, t1, q2, t2, h1, h2, h3

VARIABLES part, gen, present, bulkheadCall, metrics, wasReset, sagaMode,
  sagaPhase, cursor, step, pending, effect, compensated, failedUndo, calls,
  circuit, openedAt, box, boxes, again, discarded, redone, doubled, minute,
  tickets, task, deskCalls, marked, remarked, crossed, clientRow, policies,
  violations, ids, work, began, together, unpoliced, batch, lockedSum, orders,
  enabled, reports, report, reported, abreast, table, ring, on, given,
  rebalancing, migration, migrations, stored, mixed, overwritten, phase,
  parties, joined, at, levels, txStored, met, nodes, open, operation,
  stopping, schema, request, progress, basis, schemaTogether, unrolled,
  profile, subs, trades, copyHandler, acts, filled, copied, odd, followed,
  tradeLog, feed

ResilienceModel == INSTANCE Resilience
  WITH Callers <- {b1, b2}, MaxConcurrent <- 1, Generations <- 1, SagaLast <- 3,
       Compensable <- {1, 3}, Requests <- {q1}, Jobs <- {u1, u2}, MaxRetries <- 1, MaxBoxes <- 1,
       None <- None
InstitutionalModel == INSTANCE Institutional
  WITH Tickets <- {t1}, Tasks <- {q1, q2}, Tiers <- {"GOLD"}, Priorities <- {"HIGH"},
       NewStatuses <- {"IN_PROGRESS", "RESOLVED"}, MaxCalls <- 3, None <- None, Clients <- {u1},
       Metrics <- {"SYSTEM_UPTIME"}, SlaTiers <- {"GOLD", "SILVER"}, Measures <- {9930, 9999},
       SlaMaxCalls <- 4, Batches <- {b1, b2},
       Lists <- LET sell(a, n) == [side |-> "SELL", asset |-> a, amount |-> n, type |-> "LIMIT",
           price |-> TRUE, stopPrice |-> FALSE] IN {<<sell("XLM", 2), sell("BTC", 1)>>,
           <<sell("BTC", 1), sell("XLM", 1)>>},
       Assets <- {"XLM", "BTC"}, Available <- [XLM |-> 2, BTC |-> 2], MaxTradesPerSecond <- 2,
       Reporters <- {q1}, MaxReports <- 0
DatabaseModel == INSTANCE Database
  WITH None <- None, AllShards <- <<"first", "second", "third">>, FirstShards <- 1,
       Rows <- {"a", "b"}, Month <- [a |-> 1, b |-> 2], MaxMigrations <- 1,
       Preference <- [a |-> <<"second", "first", "third">>, b |-> <<"third", "first", "second">>],
       Runs <- {"one", "two"}, ShardIds <- {"first", "second"}, NodeIds <- {"near", "far"},
       Forced <- {None}, Operations <- {"one", "two"}, MaxRetries <- 1, Incarnations <- 1,
       Requests <- {"one", "two"},
       Steps <- <<[op |-> "drop", object |-> "user index", critical |-> FALSE], [op |-> "create",
           object |-> "composite", critical |-> TRUE], [op |-> "create", object |-> "partial",
           critical |-> TRUE], [op |-> "create", object |-> "balance", critical |-> TRUE]>>,
       Before <- {"user index"}, Dependencies <- {}
SocialTradingModel == INSTANCE SocialTrading
  WITH Traders <- {t1, t2}, SubIds <- 1 .. 2, Handlers <- {h1, h2}, Gain <- 1, MaxDailyLoss <- 1,
       MaxActs <- 3, MaxTrades <- 1, Masters <- {h1, h2, h3},
       NumberOf <- h1 :> 1 @@ h2 :> 2 @@ h3 :> 1, None <- None, Limit <- 2, Overshoot <- 2,
       FeedMaxTrades <- 5

bulkheadVars == <<gen, present, bulkheadCall, metrics, wasReset>>
sagaVars == <<sagaMode, sagaPhase, cursor, step, pending, effect, compensated,
  failedUndo>>
errorVars == <<calls, circuit, openedAt, box, boxes, again, discarded, redone,
  doubled>>
deskVars == <<minute, tickets, task, deskCalls, marked, remarked, crossed>>
slaVars == <<clientRow, policies, violations, ids, work, began, together,
  unpoliced>>
bulkVars == <<batch, lockedSum, orders, enabled, reports, report, reported,
  abreast>>
shardVars == <<table, ring, on, given, rebalancing, migration, migrations,
  stored, mixed, overwritten>>
txVars == <<phase, parties, joined, at, levels, txStored, met>>
nodeVars == <<nodes, open, operation, stopping>>
schemaVars == <<schema, request, progress, basis, schemaTogether, unrolled>>
copyVars == <<profile, subs, trades, copyHandler, acts, filled, copied, odd>>
feedVars == <<followed, tradeLog, feed>>
vars == <<part, bulkheadVars, sagaVars, errorVars, deskVars, slaVars,
  bulkVars, shardVars, txVars, nodeVars, schemaVars, copyVars, feedVars>>

Init ==
  /\ part \in {"Bulkhead", "BulkTrading", "Saga", "ShardTransaction", "SocialTrading", "DatabaseNodes"}
  /\ ResilienceModel!BulkheadInit
  /\ ResilienceModel!SagaInit
  /\ ResilienceModel!ErrorInit
  /\ InstitutionalModel!DeskInit
  /\ InstitutionalModel!SlaInit
  /\ InstitutionalModel!BulkInit
  /\ DatabaseModel!ShardInit /\ (part # "Sharding" => table = "trades")
  /\ DatabaseModel!TxInit
  /\ DatabaseModel!NodeInit
  /\ DatabaseModel!SchemaInit
  /\ SocialTradingModel!CopyInit
  /\ SocialTradingModel!FeedInit

Next ==
  /\ UNCHANGED part
  /\ \/ part = "Bulkhead" /\ ResilienceModel!BulkheadNext /\ UNCHANGED <<sagaVars, errorVars,
           deskVars, slaVars, bulkVars, shardVars, txVars, nodeVars, schemaVars, copyVars,
           feedVars>>
     \/ part = "BulkTrading" /\ InstitutionalModel!BulkNext /\ UNCHANGED <<bulkheadVars, sagaVars,
           errorVars, deskVars, slaVars, shardVars, txVars, nodeVars, schemaVars, copyVars,
           feedVars>>
     \/ part = "Saga" /\ ResilienceModel!SagaNext /\ UNCHANGED <<bulkheadVars, errorVars, deskVars,
           slaVars, bulkVars, shardVars, txVars, nodeVars, schemaVars, copyVars, feedVars>>
     \/ part = "ShardTransaction" /\ DatabaseModel!TxNext /\ UNCHANGED <<bulkheadVars, sagaVars,
           errorVars, deskVars, slaVars, bulkVars, shardVars, nodeVars, schemaVars, copyVars,
           feedVars>>
     \/ part = "SocialTrading" /\ SocialTradingModel!CopyNext /\ UNCHANGED <<bulkheadVars, sagaVars,
           errorVars, deskVars, slaVars, bulkVars, shardVars, txVars, nodeVars, schemaVars,
           feedVars>>
     \/ part = "DatabaseNodes" /\ DatabaseModel!NodeNext /\ UNCHANGED <<bulkheadVars, sagaVars,
           errorVars, deskVars, slaVars, bulkVars, shardVars, txVars, schemaVars, copyVars,
           feedVars>>

Spec ==
  /\ Init /\ [][Next]_vars
  /\ ResilienceModel!BulkheadFairness
  /\ InstitutionalModel!BulkFairness
  /\ ResilienceModel!SagaFairness
  /\ DatabaseModel!TxFairness
  /\ SocialTradingModel!CopyFairness
  /\ DatabaseModel!NodeFairness

-----------------------------------------------------------------------------

(* What was begun ends, although calls hang, wait for each other's locks *)
(* or announce further work.                                             *)
(* Bulkhead: A call that waits in a bulkhead is started, although the *)
(* functions before it may hang: each of them is given up after the   *)
(* timeout (111-114).                                                 *)
(* Saga: A saga that has been started ends, whatever its actions and its *)
(* compensations do: both run under executeWithTimeout (280-293).        *)
(* SocialTrading: Followers that copy each other announce copies of     *)
(* copies, but every announced trade is handled and every handler comes *)
(* to an end: only the liquidity of the book ends the chain.            *)
(* ShardTransaction: Two transactions that nest in each other on the same *)
(* connections do not get stuck: each one ends, as a commit that finds    *)
(* its transaction rolled back throws (database-sharding.service.ts       *)
(* 242-314).                                                              *)
(* DatabaseNodes: Every operation ends after at most MaxRetries further *)
(* tries, and a shutdown ends once no more operations come (132-221,    *)
(* 471-490).                                                            *)
(* BulkTrading: Every batch is answered, although batches wait for each *)
(* other's row locks, and whoever was rolled back holds none            *)
(* (executeAtomic 105-147).                                             *)
EverythingEnds ==
  /\ ResilienceModel!QueuedCallStarts
  /\ ResilienceModel!EverySagaEnds
  /\ SocialTradingModel!CopyingEnds
  /\ DatabaseModel!TransactionEnds
  /\ DatabaseModel!OperationsEnd
  /\ InstitutionalModel!EveryBatchEnds
=============================================================================
