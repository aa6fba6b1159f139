---------------------------- MODULE MCPlatform ----------------------------
(* Small instances of the services the others are built on (limits,       *)
(* queues, retries, schedules and health), and of the institutional       *)
(* portal and the private orders beside them. They share no state, so     *)
(* part chooses the one an execution is about and the others stay as they *)
(* were created.                                                          *)
EXTENDS Integers, FiniteSets, Sequences, TLC

CONSTANTS b1, b2, b3, q1, u1, u2, None, k1, k2, q2, t1, j1, j2, y1, g1, g2,
  x1, x2, m1, s1, s2, v1, r1, r2

VARIABLES part, gen, present, bulkheadCall, metrics, wasReset, sagaMode,
  sagaPhase, cursor, step, pending, effect, compensated, failedUndo, calls,
  circuit, openedAt, box, boxes, again, discarded, redone, doubled, endpoint,
  checks, code, verdict, business, counted, requested, clock, samples, alerts,
  cooldownEnd, collecting, lastGood, isRunning, current, runners, asked, file,
  environ, config, reloads, journal, lines, failedReload, unwritten, lanes,
  numbers, working, wiped, entries, prints, instant, taken, excused, repeated,
  hour, breaker, targets, attempt, alarms, refailed, crowded, since, workers,
  nextId, tick, decided, events, connections, outside, minute, tickets, task,
  deskCalls, marked, remarked, crossed, clientRow, policies, violations, ids,
  work, began, together, unpoliced, batch, lockedSum, orders, enabled,
  reports, report, reported, abreast, ticket, held, letters, writing,
  stalledJobs, retrying, swept, readmitted, operations, queue, tries,
  handlers, dead, deaths, unheard, duty, runs, warming, flying, abandoned,
  taskLog, history, queueAlerts, preferences, sending, note, job, worker,
  reader, devices, crashes, failures, pushed, disturbed, rowOf, doing,
  callsMade, touched, overtakenRows, time, request, bucket, log, fixed,
  passed, overtaken, tracked, addresses, tracking, blocked, handled, grounds,
  pardoned

ResilienceModel == INSTANCE Resilience
  WITH Callers <- {b1, b2, b3}, MaxConcurrent <- 1, Generations <- 2, SagaLast <- 3,
       Compensable <- {1, 3}, Requests <- {q1}, Jobs <- {u1, u2}, MaxRetries <- 1, MaxBoxes <- 1,
       None <- None
MonitoringModel == INSTANCE Monitoring
  WITH MaxRequests <- 1, Collectors <- {k1, k2},
       Duration <- [r \in {"shard_unhealthy", "database_connection_exhaustion"} |-> 1] @@ [r \in
           {"slow_query_response", "high_error_rate"} |-> 2] @@ [r \in {"low_cache_hit_rate",
           "high_memory_usage"} |-> 3],
       Cooldown <- [r \in {"high_error_rate", "database_connection_exhaustion"} |-> 2] @@ [r \in
           {"shard_unhealthy", "slow_query_response"} |-> 3] @@ [r \in {"low_cache_hit_rate",
           "high_memory_usage"} |-> 4],
       Ambient <- {{}, {"low_cache_hit_rate", "high_memory_usage"}}, Retention <- 10,
       MaxTime <- 3, Runners <- {b1, b2}, Base <- 1, MaxConcurrency <- 2, MaxBatches <- 2,
       MaxRuns <- 3, None <- None, Reloads <- {q1, q2}, MaxEntries <- 2, MaxLines <- 4
QueueServicesModel == INSTANCE QueueServices
  WITH None <- None, Keys <- {"buy", "sell"}, Ids <- {"m1", "m2"}, Consumers <- {"one", "two"},
       MaxNumber <- 3, MessageIds <- {"m1", "m2", "m3"}, Contents <- {"x", "y", "z"},
       WindowMs <- 2, MaxEntries <- 2, Horizon <- 3, FailCalls <- {"one", "two"},
       Targets <- {"near", "far"}, Priority <- [near |-> 1, far |-> 2], MaxFailoverAttempts <- 2,
       ResetTimeout <- 1, AlertCap <- 1, Day <- 1, LastTick <- 1, ScaledQueues <- {"emails"},
       MinWorkers <- 1, MaxWorkers <- 2, UpStep <- 1, DownStep <- 1, UpCooldown <- 1,
       DownCooldown <- 2, WorkerIds <- 2, MaxTime <- 2
InstitutionalModel == INSTANCE Institutional
  WITH Tickets <- {t1}, Tasks <- {q1, q2}, Tiers <- {"GOLD"}, Priorities <- {"HIGH"},
       NewStatuses <- {"IN_PROGRESS", "RESOLVED"}, MaxCalls <- 3, None <- None, Clients <- {u1},
       Metrics <- {"SYSTEM_UPTIME"}, SlaTiers <- {"GOLD", "SILVER"}, Measures <- {9930, 9999},
       SlaMaxCalls <- 4, Batches <- {b1, b2},
       Lists <- LET sell(a, n) == [side |-> "SELL", asset |-> a, amount |-> n, type |-> "LIMIT",
           price |-> TRUE, stopPrice |-> FALSE] IN {<<sell("XLM", 2), sell("BTC", 1)>>,
           <<sell("BTC", 1), sell("XLM", 3)>>, <<[sell("BTC", 1) EXCEPT !.side = "BUY"],
           [sell("BTC", 1) EXCEPT !.price = FALSE]>>, <<sell("BTC", 1), sell("BTC", 1), sell("BTC",
           1)>>},
       Assets <- {"XLM", "BTC"}, Available <- [XLM |-> 2, BTC |-> 2], MaxTradesPerSecond <- 2,
       Reporters <- {q1, q2}, MaxReports <- 2
QueueOperationsModel == INSTANCE QueueOperations
  WITH Jobs <- {j1}, Used <- {"notifications", "swaps"}, Attempts <- 2, MaxStalled <- 1,
       MaxOps <- 2, UpkeepJobs <- {j1, j2, y1}, Reports <- {j1, j2}, BatchSize <- 2,
       MaxCrashes <- 1, MaxBatches <- 2, Slots <- {g1, g2}, Strategies <- {x1, x2}, MaxRuns <- 2,
       Snapshots <- {[waiting |-> 2, failing |-> 0, slow |-> TRUE], [waiting |-> 0, failing |-> 1,
           slow |-> FALSE], [waiting |-> 0, failing |-> 0, slow |-> FALSE]},
       MaxSnapshots <- 1, MaxAlerts <- 2
NotificationsModel == INSTANCE Notifications
  WITH Notices <- {m1}, Sockets <- {s1, s2}, Attempts <- 2, MaxRetries <- 2, MaxCrashes <- 2,
       MaxFailures <- 1, None <- None
PrivacyModel == INSTANCE Privacy
  WITH Profiles <- {v1}, Orders <- {x1, x2}, Audits <- {g1}, Tasks <- {q1, q2}, MaxCalls <- 5,
       AccessLogMaxSize <- 2, None <- None
RateLimitsModel == INSTANCE RateLimits
  WITH Requests <- {r1, r2, x1}, Capacity <- 1, Refill <- 1, MaxRequests <- 1, Window <- 2,
       Horizon <- 2, None <- None, Tasks <- {q1, q2},
       Bursts <- {[n |-> 260, failed |-> 0, unique |-> 1, odd |-> 260], [n |-> 30, failed |-> 0,
           unique |-> 30, odd |-> 30], [n |-> 300, failed |-> 6, unique |-> 2, odd |-> 0], [n |-> 5,
           failed |-> 5, unique |-> 1, odd |-> 0]},
       Addresses <- {9}, MaxCalls <- 3

bulkheadVars == <<gen, present, bulkheadCall, metrics, wasReset>>
sagaVars == <<sagaMode, sagaPhase, cursor, step, pending, effect, compensated,
  failedUndo>>
errorVars == <<calls, circuit, openedAt, box, boxes, again, discarded, redone,
  doubled>>
healthVars == <<endpoint, checks, code, verdict, business, counted,
  requested>>
perfVars == <<clock, samples, alerts, cooldownEnd, collecting, lastGood>>
benchVars == <<isRunning, current, runners, asked>>
configVars == <<file, environ, config, reloads, journal, lines, failedReload,
  unwritten>>
orderVars == <<lanes, numbers, working, wiped>>
dedupVars == <<entries, prints, instant, taken, excused, repeated>>
faultVars == <<hour, breaker, targets, attempt, alarms, refailed, crowded,
  since>>
workerVars == <<workers, nextId, tick, decided, events, connections, outside>>
deskVars == <<minute, tickets, task, deskCalls, marked, remarked, crossed>>
slaVars == <<clientRow, policies, violations, ids, work, began, together,
  unpoliced>>
bulkVars == <<batch, lockedSum, orders, enabled, reports, report, reported,
  abreast>>
adminVars == <<ticket, held, letters, writing, stalledJobs, retrying, swept,
  readmitted, operations>>
upkeepVars == <<queue, tries, handlers, dead, deaths, unheard>>
cronVars == <<duty, runs, warming, flying, abandoned, taskLog, history,
  queueAlerts>>
notificationsVars == <<preferences, sending, note, job, worker, reader,
  devices, crashes, failures, pushed, disturbed>>
privacyVars == <<rowOf, doing, callsMade, touched, overtakenRows>>
limitVars == <<time, request, bucket, log, fixed, passed, overtaken>>
abuseVars == <<tracked, addresses, tracking, blocked, handled, grounds,
  pardoned>>
vars == <<part, bulkheadVars, sagaVars, errorVars, healthVars, perfVars,
  benchVars, configVars, orderVars, dedupVars, faultVars, workerVars,
  deskVars, slaVars, bulkVars, adminVars, upkeepVars, cronVars,
  notificationsVars, privacyVars, limitVars, abuseVars>>

Init ==
  /\ part \in {"Bulkhead", "ConfigReload", "Deduplication", "ErrorHandling", "FaultTolerance",
           "SupportDesk", "ServiceLevels", "BulkTrading", "MaintenanceJobs", "MessageOrdering",
           "HealthChecks", "PerformanceMonitor", "Benchmarks", "Notifications", "Privacy",
           "QueueAdmin", "RateLimit", "AbuseDetection", "Saga", "Scheduler", "WorkerPool"}
  /\ ResilienceModel!BulkheadInit
  /\ ResilienceModel!SagaInit
  /\ ResilienceModel!ErrorInit
  /\ MonitoringModel!HealthInit
  /\ MonitoringModel!PerfInit
  /\ MonitoringModel!BenchInit
  /\ MonitoringModel!ConfigInit
  /\ QueueServicesModel!OrderInit
  /\ QueueServicesModel!DedupInit
  /\ QueueServicesModel!FaultInit
  /\ QueueServicesModel!WorkerInit
  /\ InstitutionalModel!DeskInit
  /\ InstitutionalModel!SlaInit
  /\ InstitutionalModel!BulkInit
  /\ QueueOperationsModel!AdminInit
  /\ QueueOperationsModel!UpkeepInit
  /\ QueueOperationsModel!CronInit /\ (part # "Scheduler" => ~warming.busy)
  /\ NotificationsModel!Init
  /\ PrivacyModel!Init
  /\ RateLimitsModel!LimitInit
  /\ RateLimitsModel!AbuseInit

Next ==
  /\ UNCHANGED part
  /\ \/ part = "Bulkhead" /\ ResilienceModel!BulkheadNext /\ UNCHANGED <<sagaVars, errorVars,
           healthVars, perfVars, benchVars, configVars, orderVars, dedupVars, faultVars, workerVars,
           deskVars, slaVars, bulkVars, adminVars, upkeepVars, cronVars, notificationsVars,
           privacyVars, limitVars, abuseVars>>
     \/ part = "ConfigReload" /\ MonitoringModel!ConfigNext /\ UNCHANGED <<bulkheadVars, sagaVars,
           errorVars, healthVars, perfVars, benchVars, orderVars, dedupVars, faultVars, workerVars,
           deskVars, slaVars, bulkVars, adminVars, upkeepVars, cronVars, notificationsVars,
           privacyVars, limitVars, abuseVars>>
     \/ part = "Deduplication" /\ QueueServicesModel!DedupNext /\ UNCHANGED <<bulkheadVars,
           sagaVars, errorVars, healthVars, perfVars, benchVars, configVars, orderVars, faultVars,
           workerVars, deskVars, slaVars, bulkVars, adminVars, upkeepVars, cronVars,
           notificationsVars, privacyVars, limitVars, abuseVars>>
     \/ part = "ErrorHandling" /\ ResilienceModel!ErrorNext /\ UNCHANGED <<bulkheadVars, sagaVars,
           healthVars, perfVars, benchVars, configVars, orderVars, dedupVars, faultVars, workerVars,
           deskVars, slaVars, bulkVars, adminVars, upkeepVars, cronVars, notificationsVars,
           privacyVars, limitVars, abuseVars>>
     \/ part = "FaultTolerance" /\ QueueServicesModel!FaultNext /\ UNCHANGED <<bulkheadVars,
           sagaVars, errorVars, healthVars, perfVars, benchVars, configVars, orderVars, dedupVars,
           workerVars, deskVars, slaVars, bulkVars, adminVars, upkeepVars, cronVars,
           notificationsVars, privacyVars, limitVars, abuseVars>>
     \/ part = "SupportDesk" /\ InstitutionalModel!DeskNext /\ UNCHANGED <<bulkheadVars, sagaVars,
           errorVars, healthVars, perfVars, benchVars, configVars, orderVars, dedupVars, faultVars,
           workerVars, slaVars, bulkVars, adminVars, upkeepVars, cronVars, notificationsVars,
           privacyVars, limitVars, abuseVars>>
     \/ part = "ServiceLevels" /\ InstitutionalModel!SlaNext /\ UNCHANGED <<bulkheadVars, sagaVars,
           errorVars, healthVars, perfVars, benchVars, configVars, orderVars, dedupVars, faultVars,
           workerVars, deskVars, bulkVars, adminVars, upkeepVars, cronVars, notificationsVars,
           privacyVars, limitVars, abuseVars>>
     \/ part = "BulkTrading" /\ InstitutionalModel!BulkNext /\ UNCHANGED <<bulkheadVars, sagaVars,
           errorVars, healthVars, perfVars, benchVars, configVars, orderVars, dedupVars, faultVars,
           workerVars, deskVars, slaVars, adminVars, upkeepVars, cronVars, notificationsVars,
           privacyVars, limitVars, abuseVars>>
     \/ part = "MaintenanceJobs" /\ QueueOperationsModel!UpkeepNext /\ UNCHANGED <<bulkheadVars,
           sagaVars, errorVars, healthVars, perfVars, benchVars, configVars, orderVars, dedupVars,
           faultVars, workerVars, deskVars, slaVars, bulkVars, adminVars, cronVars,
           notificationsVars, privacyVars, limitVars, abuseVars>>
     \/ part = "MessageOrdering" /\ QueueServicesModel!OrderNext /\ UNCHANGED <<bulkheadVars,
           sagaVars, errorVars, healthVars, perfVars, benchVars, configVars, dedupVars, faultVars,
           workerVars, deskVars, slaVars, bulkVars, adminVars, upkeepVars, cronVars,
           notificationsVars, privacyVars, limitVars, abuseVars>>
     \/ part = "HealthChecks" /\ MonitoringModel!HealthNext /\ UNCHANGED <<bulkheadVars, sagaVars,
           errorVars, perfVars, benchVars, configVars, orderVars, dedupVars, faultVars, workerVars,
           deskVars, slaVars, bulkVars, adminVars, upkeepVars, cronVars, notificationsVars,
           privacyVars, limitVars, abuseVars>>
     \/ part = "PerformanceMonitor" /\ MonitoringModel!PerfNext /\ UNCHANGED <<bulkheadVars,
           sagaVars, errorVars, healthVars, benchVars, configVars, orderVars, dedupVars, faultVars,
           workerVars, deskVars, slaVars, bulkVars, adminVars, upkeepVars, cronVars,
           notificationsVars, privacyVars, limitVars, abuseVars>>
     \/ part = "Benchmarks" /\ MonitoringModel!BenchNext /\ UNCHANGED <<bulkheadVars, sagaVars,
           errorVars, healthVars, perfVars, configVars, orderVars, dedupVars, faultVars, workerVars,
           deskVars, slaVars, bulkVars, adminVars, upkeepVars, cronVars, notificationsVars,
           privacyVars, limitVars, abuseVars>>
     \/ part = "Notifications" /\ NotificationsModel!Next /\ UNCHANGED <<bulkheadVars, sagaVars,
           errorVars, healthVars, perfVars, benchVars, configVars, orderVars, dedupVars, faultVars,
           workerVars, deskVars, slaVars, bulkVars, adminVars, upkeepVars, cronVars, privacyVars,
           limitVars, abuseVars>>
     \/ part = "Privacy" /\ PrivacyModel!Next /\ UNCHANGED <<bulkheadVars, sagaVars, errorVars,
           healthVars, perfVars, benchVars, configVars, orderVars, dedupVars, faultVars, workerVars,
           deskVars, slaVars, bulkVars, adminVars, upkeepVars, cronVars, notificationsVars,
           limitVars, abuseVars>>
     \/ part = "QueueAdmin" /\ QueueOperationsModel!AdminNext /\ UNCHANGED <<bulkheadVars, sagaVars,
           errorVars, healthVars, perfVars, benchVars, configVars, orderVars, dedupVars, faultVars,
           workerVars, deskVars, slaVars, bulkVars, upkeepVars, cronVars, notificationsVars,
           privacyVars, limitVars, abuseVars>>
     \/ part = "RateLimit" /\ RateLimitsModel!LimitNext /\ UNCHANGED <<bulkheadVars, sagaVars,
           errorVars, healthVars, perfVars, benchVars, configVars, orderVars, dedupVars, faultVars,
           workerVars, deskVars, slaVars, bulkVars, adminVars, upkeepVars, cronVars,
           notificationsVars, privacyVars, abuseVars>>
     \/ part = "AbuseDetection" /\ RateLimitsModel!AbuseNext /\ UNCHANGED <<bulkheadVars, sagaVars,
           errorVars, healthVars, perfVars, benchVars, configVars, orderVars, dedupVars, faultVars,
           workerVars, deskVars, slaVars, bulkVars, adminVars, upkeepVars, cronVars,
           notificationsVars, privacyVars, limitVars>>
     \/ part = "Saga" /\ ResilienceModel!SagaNext /\ UNCHANGED <<bulkheadVars, errorVars,
           healthVars, perfVars, benchVars, configVars, orderVars, dedupVars, faultVars, workerVars,
           deskVars, slaVars, bulkVars, adminVars, upkeepVars, cronVars, notificationsVars,
           privacyVars, limitVars, abuseVars>>
     \/ part = "Scheduler" /\ QueueOperationsModel!CronNext /\ UNCHANGED <<bulkheadVars, sagaVars,
           errorVars, healthVars, perfVars, benchVars, configVars, orderVars, dedupVars, faultVars,
           workerVars, deskVars, slaVars, bulkVars, adminVars, upkeepVars, notificationsVars,
           privacyVars, limitVars, abuseVars>>
     \/ part = "WorkerPool" /\ QueueServicesModel!WorkerNext /\ UNCHANGED <<bulkheadVars, sagaVars,
           errorVars, healthVars, perfVars, benchVars, configVars, orderVars, dedupVars, faultVars,
           deskVars, slaVars, bulkVars, adminVars, upkeepVars, cronVars, notificationsVars,
           privacyVars, limitVars, abuseVars>>

Spec ==
  /\ Init /\ [][Next]_vars

-----------------------------------------------------------------------------
(* Every row, call and counter of the parts keeps its type. *)
TypeOK ==
  /\ part = "Bulkhead" => ResilienceModel!BulkheadTypeOK
  /\ part = "ConfigReload" => MonitoringModel!ConfigTypeOK
  /\ part = "Deduplication" => QueueServicesModel!DedupTypeOK
  /\ part = "ErrorHandling" => ResilienceModel!ErrorTypeOK
  /\ part = "FaultTolerance" => QueueServicesModel!FaultTypeOK
  /\ part = "SupportDesk" => InstitutionalModel!DeskTypeOK
  /\ part = "ServiceLevels" => InstitutionalModel!SlaTypeOK
  /\ part = "BulkTrading" => InstitutionalModel!BulkTypeOK
  /\ part = "MaintenanceJobs" => QueueOperationsModel!UpkeepTypeOK
  /\ part = "MessageOrdering" => QueueServicesModel!OrderTypeOK
  /\ part = "HealthChecks" => MonitoringModel!HealthTypeOK
  /\ part = "PerformanceMonitor" => MonitoringModel!PerfTypeOK
  /\ part = "Benchmarks" => MonitoringModel!BenchTypeOK
  /\ part = "Notifications" => NotificationsModel!TypeOK
  /\ part = "Privacy" => PrivacyModel!TypeOK
  /\ part = "QueueAdmin" => QueueOperationsModel!AdminTypeOK
  /\ part = "RateLimit" => RateLimitsModel!LimitTypeOK
  /\ part = "AbuseDetection" => RateLimitsModel!AbuseTypeOK
  /\ part = "Saga" => ResilienceModel!SagaTypeOK
  /\ part = "Scheduler" => QueueOperationsModel!CronTypeOK
  /\ part = "WorkerPool" => QueueServicesModel!WorkerTypeOK

(* Calls are handled in order and within limits: partitions, windows, *)
(* pools, attempts, metrics, tickets and batches keep their order and *)
(* their counts however calls overlap, time out or fail.              *)
(* Deduplication: No content is taken twice inside its window, unless it *)
(* was pushed out by a full cache, unregistered, cleared, or its id was  *)
(* registered again with other data; the two maps keep the same ids and  *)
(* stay within the limit (message-deduplication.service.ts 31-110,       *)
(* 182-236).                                                             *)
(* MessageOrdering: A partition is worked on in order and by one          *)
(* consumer, whatever is cleared and cleaned up meanwhile: the messages   *)
(* that wait have rising numbers, two consumers never work on one         *)
(* partition, and unless it was cleared under him a consumer's message is *)
(* the first of its partition (message-ordering.service.ts 29-153,        *)
(* 241-278). After a clear his removeMessage may take a later message     *)
(* that bears the same id.                                                *)
(* Scheduler: One warming at a time is awaited, and its counts are its  *)
(* own: as long as none has timed out they never exceed the strategies, *)
(* and all of them have been counted when it is over (cache-warming     *)
(* 124-191, 383-407).                                                   *)
(* Scheduler: A task that stops early has queued the first jobs of its *)
(* list: the weekly report is never queued without the cleanups        *)
(* (scheduler 86-120).                                                 *)
(* WorkerPool: The automatic pool keeps its bounds: unless workers were   *)
(* registered by a route or came back from unhealthy, never more than     *)
(* MaxWorkers are counted, whatever the queues and the routes decide; and *)
(* no scale-down takes the pool below MinWorkers or removes more than it  *)
(* reports, although it may remove fewer (worker-manager 268-355,         *)
(* dynamic-scaling 160-298).                                              *)
(* Bulkhead: The metrics of a bulkhead agree with the calls in it, those  *)
(* of a removed one too: nothing leaks when calls fail, run out of time   *)
(* or outlive the registration, unless the metrics were reset under       *)
(* running calls, after which the counters go below zero (execute 94-140, *)
(* resetMetrics 167-178).                                                 *)
(* Bulkhead: No more functions run at once than MaxConcurrent, not     *)
(* counting the ones given up by the timeout, the unprotected ones and *)
(* those of a bulkhead that has since been removed and created again.  *)
(* FaultTolerance: A call never tries a target again that has failed it,  *)
(* unless another call's success or a registration has restored it        *)
(* meanwhile; and as long as the alerts have not overflowed, health stays *)
(* critical from an opening of the breaker until that alert is            *)
(* acknowledged or a day old, though the breaker may have closed (queue-  *)
(* fault-tolerance.service.ts 89-125, 246-355, horizontal-scaling-        *)
(* monitoring.service.ts 179-288, 367-390).                               *)
(* ErrorHandling: A result reports as many attempts as were made, at most *)
(* MaxRetries more than one, and an attempt runs beside another of the    *)
(* same request only after the breaker's timer has given the first one up *)
(* (retryWithPolicy 95-156).                                              *)
(* ConfigReload: What an operator reads from memory are the last lines of *)
(* the file, across clearings and restarts, unless an entry could not be  *)
(* written (logAuditEntry 70-91, loadAuditLog 108-127, clearAuditLog      *)
(* 222-234).                                                              *)
(* RateLimit: Whatever the requests and however they meet: of those that *)
(* read their clock in a stretch of time the bucket passes no more than  *)
(* its capacity and what is refilled meanwhile, unless a reading came    *)
(* after a later one or after the bucket expired; and in the length of a *)
(* window the fixed window passes no more than twice its limit, once in  *)
(* each of two windows (tokenBucketLua 17-56, checkRateLimit 31-84).     *)
(* RateLimit: Of the fallback's requests that read their clock within one *)
(* window at most the limit passes, unless a reading came after a later   *)
(* one, or a request forgot old entries while another had yet to count:   *)
(* each adds itself before it counts, so that of two that meet none       *)
(* overlooks the other (runSlidingWindowFallback 108-129).                *)
(* AbuseDetection: No pattern alone blocks an identifier, and neither do *)
(* scraping and a suspicious agent together; and an identifier that an   *)
(* operator unblocked while no request was under way stays unblocked     *)
(* until it makes another (trackRequest 71-82, calculateAbuseScore       *)
(* 202-210, unblockIdentifier 258-266).                                  *)
(* HealthChecks: A verdict is unhealthy exactly if one of the six checks *)
(* it was made from has failed, and a request whose checks all pass is   *)
(* not refused.                                                          *)
(* PerformanceMonitor: Alerts of one rule are its cooldown apart, and   *)
(* none follows a sample that kept the rule within the rule's duration, *)
(* however the collections overlap.                                     *)
(* Benchmarks: The flag is up exactly while one benchmark is between its *)
(* check and its finally clause: a refused request, a round of a stress  *)
(* test that lost its turn in the pause, or one that throws, neither     *)
(* leaves it up nor takes it from another.                               *)
(* Benchmarks: A result counts every operation once: as a success or a *)
(* failure, in the latencies and under its scenario.                   *)
(* SupportDesk: The breach check escalates a ticket at most once for each *)
(* of its deadlines, unless two calls crossed: one saved the ticket after *)
(* the other had read it and before it saved its copy (checkSlaBreaches   *)
(* 288-335).                                                              *)
(* SupportDesk: A deadline the check has marked as missed keeps its *)
(* figure below 100 for good, whatever is done with the ticket      *)
(* afterwards, unless a call saved it as it had read it before      *)
(* (checkSlaBreaches 288-335, 349-405).                             *)
(* BulkTrading: The answer to a batch names the orders that were placed,  *)
(* all or none of them if the batch is atomic, and what is locked is what *)
(* those orders sell (executeAtomic 104-157, createOrderFromBulk 228).    *)
HandledInOrder ==
  /\ part = "Deduplication" => QueueServicesModel!DuplicateRefused
  /\ part = "MessageOrdering" => QueueServicesModel!PartitionInOrder
  /\ part = "Scheduler" => QueueOperationsModel!WarmingIsOneRound
  /\ part = "Scheduler" => QueueOperationsModel!QueuedInOrder
  /\ part = "WorkerPool" => QueueServicesModel!PoolWithinBounds
  /\ part = "Bulkhead" => ResilienceModel!MetricsMatchCalls
  /\ part = "Bulkhead" => ResilienceModel!Compartment
  /\ part = "FaultTolerance" => QueueServicesModel!FailoverMovesOn
  /\ part = "ErrorHandling" => ResilienceModel!AttemptsCounted
  /\ part = "ConfigReload" => MonitoringModel!EntriesAreLastLines
  /\ part = "RateLimit" => RateLimitsModel!LimitsHold
  /\ part = "RateLimit" => RateLimitsModel!FallbackLimits
  /\ part = "AbuseDetection" => RateLimitsModel!BlockedOnGrounds
  /\ part = "HealthChecks" => MonitoringModel!VerdictIsWorst
  /\ part = "PerformanceMonitor" => MonitoringModel!AlertsJustified
  /\ part = "Benchmarks" => MonitoringModel!OneBenchmark
  /\ part = "Benchmarks" => MonitoringModel!ResultsAddUp
  /\ part = "SupportDesk" => InstitutionalModel!EscalatedOncePerDeadline
  /\ part = "SupportDesk" => InstitutionalModel!BreachLowersFigures
  /\ part = "BulkTrading" => InstitutionalModel!AnswersMatchOrders


(* What no single step does before its time: a breaker is not closed by a *)
(* late answer, a queue is not scaled again within its cooldown, and a    *)
(* resolved ticket, a removed row or a finished report is not undone by a *)
(* call that read it before.                                              *)
(* FaultTolerance: The breaker leaves the open state only for half open, *)
(* when its time has come, or by a reset; late results of calls do not   *)
(* close it (queue-fault-tolerance.service.ts 70-182).                   *)
(* WorkerPool: Two decisions of one queue that scaled are a cooldown *)
(* apart, the second one's (dynamic-scaling 256-292).                *)
(* SupportDesk: The breach check reopens a resolved ticket only if it was *)
(* saved by another call after the check's query had found it open (307,  *)
(* 329).                                                                  *)
(* Privacy: A removed row comes back, and an executed order is cancelled, *)
(* only by a call that had read the row before that (cancelOrder 146-157, *)
(* deleteOrder 165-171).                                                  *)
(* BulkTrading: A report that was completed keeps its figures, unless two *)
(* generations of it were under way at once (generateReport 57-76).       *)
NoHastyStep ==
  /\ QueueServicesModel!OpenUntilRetried
  /\ QueueServicesModel!CooldownKept
  /\ InstitutionalModel!CheckKeepsResolved
  /\ PrivacyModel!UndoneOnlyByRace
  /\ InstitutionalModel!CompletedReportStands
=============================================================================
