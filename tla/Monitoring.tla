---------------------------- MODULE Monitoring ----------------------------
(* Health checks (src/common/monitoring), performance alerts and       *)
(* benchmarks (src/database), and the live configuration (src/config). *)
(* The four share no state.                                            *)
EXTENDS Integers, Sequences, FiniteSets, FiniteSetsExt, SequencesExt

(* HealthService and HealthController (src/common/monitoring): a request      *)
(* performs six checks one after the other, sums them up, and is answered     *)
(* with a status code. What a check observes is drawn at random by the code   *)
(* itself, except for the business metrics, which PrometheusService keeps.    *)
(* Requests share nothing else, so one at a time is enough.                   *)

CONSTANTS
  MaxRequests   \* bound on the requests

VARIABLES
  endpoint,     \* "health", "ready", "detailed", or "none" between requests
  checks,       \* the checks done so far, a sequence of their statuses
  code,         \* the status code last answered, 0 for none
  verdict,      \* the status last answered
  business,     \* businessMetricsCache
  counted,      \* health_checks_total
  requested
healthVars == <<endpoint, checks, code, verdict, business, counted, requested>>

\* The metrics are zero when the service is constructed, and
\* updateBusinessMetrics has no caller.
NoBusiness == [tradesPerSecond |-> 0, errorRate |-> 0, p95 |-> 0]
HealthInit ==
  /\ endpoint = "none" /\ checks = <<>> /\ code = 0 /\ verdict = "none"
  /\ business = NoBusiness /\ counted = 0 /\ requested = 0

-----------------------------------------------------------------------------
CheckDatabase(healthy) == IF healthy THEN "pass" ELSE "fail"
CheckCache(healthy) == IF healthy THEN "pass" ELSE "warn"
\* of the three external services
CheckExternalServices(failed) ==
  CASE failed = 0 -> "pass" [] failed \in 1..2 -> "warn" [] OTHER -> "fail"
\* sizes of the three queues, against a limit of 1000
CheckQueues(sizes) ==
  CASE \A q \in 1..3 : sizes[q] < 800  -> "pass"
    [] \A q \in 1..3 : sizes[q] < 1000 -> "warn"
    [] OTHER                           -> "fail"
Graded(issues) == CASE issues = 0 -> "pass" [] issues = 1 -> "warn" [] OTHER -> "fail"
CheckSystemResources(usage) ==
  Graded(Cardinality({r \in {"cpu", "memory", "disk"} :
                        usage[r] > [cpu |-> 80, memory |-> 85, disk |-> 90][r]}))
CheckBusinessLogic ==
  Graded(Cardinality({i \in {"idle", "errors", "latency"} :
    \/ i = "idle" /\ business.tradesPerSecond = 0
    \/ i = "errors" /\ business.errorRate > 5
    \/ i = "latency" /\ business.p95 > 1000}))

\* What the simulated observations can amount to, in the order of the checks.
Outcomes ==
  << {CheckDatabase(h) : h \in BOOLEAN},
     {CheckCache(h) : h \in BOOLEAN},
     {CheckExternalServices(n) : n \in 0..3},
     {CheckQueues(s) : s \in [1..3 -> {0, 799, 800, 999, 1000, 1199}]},
     {CheckSystemResources(u) : u \in [{"cpu", "memory", "disk"} -> {80, 81, 86, 91}]},
     {CheckBusinessLogic} >>

\* initializeDefaultMetrics and initializeBusinessMetrics: the counters there are.
CreatedCounters ==
  {"http_requests_total", "database_queries_total", "errors_total", "trading_volume_total",
   "fee_discounts_applied_total", "referrals_total", "commission_distributed_total"}

Statuses == {checks[i] : i \in DOMAIN checks}
CalculateOverallStatus ==
  CASE "fail" \in Statuses -> "unhealthy"
    [] "warn" \in Statuses -> "degraded"
    [] OTHER               -> "healthy"

\* incrementCounter drops what it finds no metric for.
RecordHealthCheck == counted' = counted + (IF "health_checks_total" \in CreatedCounters THEN 1 ELSE 0)

-----------------------------------------------------------------------------
Request(e) ==
  /\ endpoint = "none" /\ requested < MaxRequests /\ requested' = requested + 1
  /\ endpoint' = e /\ checks' = <<>> /\ code' = 0 /\ verdict' = "none"
  /\ UNCHANGED <<business, counted>>
\* the next check of performHealthChecks
Check(status) ==
  /\ endpoint # "none" /\ Len(checks) < Len(Outcomes) /\ status \in Outcomes[Len(checks) + 1]
  /\ checks' = Append(checks, status) /\ RecordHealthCheck
  /\ UNCHANGED <<endpoint, code, verdict, business, requested>>
GetHealth ==
  /\ endpoint = "health"
  /\ code' = CASE CalculateOverallStatus = "healthy" -> 200
               [] CalculateOverallStatus = "degraded" -> 503
               [] OTHER -> 500
GetReadiness ==
  /\ endpoint = "ready"
  /\ code' = IF CalculateOverallStatus # "unhealthy" THEN 200 ELSE 503
GetDetailedHealth == endpoint = "detailed" /\ code' = 200
Answer ==
  /\ Len(checks) = Len(Outcomes) /\ (GetHealth \/ GetReadiness \/ GetDetailedHealth)
  /\ verdict' = CalculateOverallStatus /\ RecordHealthCheck /\ endpoint' = "none"
  /\ UNCHANGED <<checks, business, requested>>

HealthNext ==
  \/ \E e \in {"health", "ready", "detailed"} : Request(e)
  \/ \E s \in {"pass", "warn", "fail"} : Check(s)
  \/ Answer

-----------------------------------------------------------------------------
HealthTypeOK ==
  /\ endpoint \in {"none", "health", "ready", "detailed"}
  /\ checks \in Seq({"pass", "warn", "fail"}) /\ Len(checks) <= Len(Outcomes)
  /\ code \in {0, 200, 500, 503} /\ verdict \in {"none", "healthy", "degraded", "unhealthy"}
  /\ business = NoBusiness /\ counted \in Nat /\ requested \in 0..MaxRequests

(* A verdict is unhealthy exactly if one of the six checks it was made from  *)
(* has failed, and a request whose checks all pass is not refused.           *)
VerdictIsWorst ==
  verdict # "none" =>
    /\ verdict = "unhealthy" <=> \E i \in DOMAIN checks : checks[i] = "fail"
    /\ code = 503 \/ code = 500 => Statuses # {"pass"}

-----------------------------------------------------------------------------
(* PerformanceMonitoringService (src/database). Every 30 seconds, one tick of *)
(* the clock, a collection probes the database, waits for the health of the   *)
(* shards, records a sample and checks the alert rules. Collections whose     *)
(* probes are slow overlap. A sample is the set of the rules it breaks.       *)

CONSTANTS
  Collectors,   \* collections under way at once
  Duration,     \* per rule: how long it has to be broken, in ticks
  Cooldown,     \* per rule: how long it stays silent after an alert
  Ambient,      \* what cache and memory can break: sets of rules
  Retention,    \* maxMetricsRetention
  MaxTime       \* bound on the clock

VARIABLES
  clock,
  samples,      \* metrics: a sequence of [at, broken]
  alerts,       \* a set of [rule, at, resolved, good]; good is history: the last sample before it that kept the rule
  cooldownEnd,  \* alertCooldowns
  collecting,   \* per collector: [pc, broken]
  lastGood      \* history: per rule, when a sample that keeps it was last recorded
perfVars == <<clock, samples, alerts, cooldownEnd, collecting, lastGood>>

\* initializeDefaultAlertRules. errorRate is 0 or 100, so the two rules on it are
\* broken together; no more than one connection is ever reported, so
\* database_connection_exhaustion is never broken.
Rules == {"shard_unhealthy", "slow_query_response", "low_cache_hit_rate", "high_error_rate", "high_memory_usage",
          "database_connection_exhaustion"}
\* getDatabaseMetrics: what a fast, a slow and a failed probe break. The
\* response time of a failed one is reported as 0.
GetDatabaseMetrics == {{}, {"slow_query_response"}, {"shard_unhealthy", "high_error_rate"}}

Never == -100
Free == [pc |-> "idle", broken |-> {}]
PerfInit ==
  /\ clock = 0 /\ samples = <<>> /\ alerts = {} /\ cooldownEnd = [r \in Rules |-> Never]
  /\ collecting = [c \in Collectors |-> Free] /\ lastGood = [r \in Rules |-> Never]

\* A tick of the clock runs the cron job, whether or not the last collection has ended.
CollectMetricsCron(c) ==
  /\ clock < MaxTime /\ clock' = clock + 1 /\ collecting[c].pc = "idle"
  /\ collecting' = [collecting EXCEPT ![c].pc = "probe"]
  /\ UNCHANGED <<samples, alerts, cooldownEnd, lastGood>>
\* The probe has answered, and cache and memory are read; then the shards are asked.
Measure(c, broken) ==
  /\ collecting[c].pc = "probe" /\ collecting' = [collecting EXCEPT ![c] = [pc |-> "shards", broken |-> broken]]
  /\ UNCHANGED <<clock, samples, alerts, cooldownEnd, lastGood>>

Kept(s) == IF Len(s) > Retention THEN Tail(s) ELSE s
Sustained(r, s) ==
  /\ r \in s[Len(s)].broken
  /\ \A i \in DOMAIN s : s[i].at >= clock - Duration[r] => r \in s[i].broken
Triggered(s) == {r \in Rules : clock >= cooldownEnd[r] /\ Sustained(r, s)}
\* The sample is recorded under the present time and the rules are checked; nothing
\* waits for anything outside the process on the way.
Record(c) ==
  LET s == Kept(Append(samples, [at |-> clock, broken |-> collecting[c].broken])) IN
  /\ collecting[c].pc = "shards" /\ collecting' = [collecting EXCEPT ![c] = Free]
  /\ samples' = s
  /\ lastGood' = [r \in Rules |-> IF r \in collecting[c].broken THEN lastGood[r] ELSE clock]
  /\ alerts' = alerts \cup {[rule |-> r, at |-> clock, resolved |-> FALSE, good |-> lastGood[r]] : r \in Triggered(s)}
  /\ cooldownEnd' = [r \in Rules |-> IF r \in Triggered(s) THEN clock + Cooldown[r] ELSE cooldownEnd[r]]
  /\ UNCHANGED clock
ResolveAlert(a) ==
  /\ ~a.resolved /\ alerts' = (alerts \ {a}) \cup {[a EXCEPT !.resolved = TRUE]}
  /\ UNCHANGED <<clock, samples, cooldownEnd, collecting, lastGood>>

PerfNext ==
  \/ \E c \in Collectors : \/ CollectMetricsCron(c) \/ Record(c)
                           \/ \E p \in GetDatabaseMetrics, a \in Ambient : Measure(c, p \cup a)
  \/ \E a \in alerts : ResolveAlert(a)

-----------------------------------------------------------------------------
PerfTypeOK ==
  /\ clock \in 0..MaxTime
  /\ \A i \in DOMAIN samples : samples[i].at \in 0..clock /\ samples[i].broken \subseteq Rules
  /\ \A a \in alerts : a.rule \in Rules /\ a.at \in 0..clock /\ a.resolved \in BOOLEAN
  /\ cooldownEnd \in [Rules -> Int]
  /\ \A c \in Collectors : collecting[c].pc \in {"idle", "probe", "shards"} /\ collecting[c].broken \subseteq Rules

(* Alerts of one rule are its cooldown apart, and none follows a sample that *)
(* kept the rule within the rule's duration, however the collections overlap. *)
AlertsJustified ==
  \A a \in alerts :
    /\ a.good < a.at - Duration[a.rule]
    /\ \A b \in alerts : a.rule = b.rule /\ a.at < b.at => b.at >= a.at + Cooldown[a.rule]
(* A rule the last sample breaks, and no sample within its duration keeps,   *)
(* has been alerted within its cooldown.                                     *)
BreachReported ==
  samples # <<>> =>
    LET last == samples[Len(samples)] IN
    \A r \in last.broken :
      lastGood[r] < last.at - Duration[r] =>
        \E a \in alerts : a.rule = r /\ a.at \in (last.at - Cooldown[r] + 1)..last.at

-----------------------------------------------------------------------------
(* DatabaseBenchmarkingService (src/database), called through                   *)
(* DatabaseController: a single benchmark, or a stress test, a series of        *)
(* benchmarks of doubling concurrency with pauses in between. One benchmark     *)
(* runs at a time.  Latencies are long or short.                                 *)

CONSTANTS
  Runners,         \* concurrent requests
  Base,            \* the first concurrency of a stress test (10)
  MaxConcurrency,  \* its last (1000)
  MaxBatches,      \* bound on the batches of one benchmark
  MaxRuns,         \* bound on the requests
  None

VARIABLES
  isRunning,
  current,         \* currentBenchmark, or None
  runners,         \* per request: where it is, its concurrency, what it has counted
  asked             \* requests so far
benchVars == <<isRunning, current, runners, asked>>

Zero == [batches |-> 0, total |-> 0, ok |-> 0, failed |-> 0, latencies |-> 0, scenarios |-> 0, slow |-> FALSE]
BenchFree == [pc |-> "idle", kind |-> "none", concurrency |-> 0, left |-> 0, settled |-> 0, tally |-> Zero]
BenchInit == isRunning = FALSE /\ current = None /\ runners = [r \in Runners |-> BenchFree] /\ asked = 0

Becomes(r, x) == runners' = [runners EXCEPT ![r] = x]

\* POST benchmark/run: the scenarios come as JSON, which holds no functions, or are missing.
Run(r) ==
  /\ runners[r].pc = "idle" /\ asked < MaxRuns /\ asked' = asked + 1
  /\ \E k \in {"run", "empty"} : Becomes(r, [BenchFree EXCEPT !.pc = "start", !.kind = k, !.concurrency = Base])
  /\ UNCHANGED <<isRunning, current>>
\* POST benchmark/stress-test: the default scenarios.
RunStressTest(r) ==
  /\ runners[r].pc = "idle" /\ asked < MaxRuns /\ asked' = asked + 1
  /\ Becomes(r, [BenchFree EXCEPT !.pc = "start", !.kind = "stress", !.concurrency = Base])
  /\ UNCHANGED <<isRunning, current>>

\* The check and the flag are set without a wait in between. A refused call throws,
\* which also ends a stress test.
RunBenchmark(r) ==
  /\ runners[r].pc = "start"
  /\ \/ isRunning /\ Becomes(r, BenchFree) /\ UNCHANGED isRunning
     \/ ~isRunning /\ isRunning' = TRUE /\ Becomes(r, [runners[r] EXCEPT !.pc = "warmup", !.tally = Zero])
  /\ UNCHANGED <<current, asked>>
\* Nothing of the warm-up is counted. Choosing among missing scenarios throws, and
\* the finally clause clears the flag.
RunWarmup(r) ==
  /\ runners[r].pc = "warmup"
  /\ \/ runners[r].kind # "empty" /\ Becomes(r, [runners[r] EXCEPT !.pc = "phase"]) /\ UNCHANGED isRunning
     \/ runners[r].kind = "empty" /\ Becomes(r, BenchFree) /\ isRunning' = FALSE
  /\ UNCHANGED <<current, asked>>

\* A batch of operations, as many as the concurrency says, is started ...
StartBatch(r) ==
  /\ runners[r].pc = "phase" /\ runners[r].tally.batches < MaxBatches
  /\ Becomes(r, [runners[r] EXCEPT !.pc = "batch", !.left = @ + runners[r].concurrency, !.settled = 0])
  /\ UNCHANGED <<isRunning, current, asked>>
\* ... each of which is measured when it ends, whether or not it has failed;
\* an operation that is no function fails ...
ExecuteScenario(kind) == IF kind = "run" THEN {FALSE} ELSE BOOLEAN
ExecuteScenarioWithMetrics(t, ok, slow) ==
  [t EXCEPT !.latencies = @ + 1, !.scenarios = @ + 1, !.slow = @ \/ slow]
OperationEnds(r, ok, slow) ==
  /\ runners[r].pc = "batch" /\ runners[r].left > 0 /\ ok \in ExecuteScenario(runners[r].kind)
  /\ Becomes(r, [runners[r] EXCEPT !.left = @ - 1, !.settled = @ + (IF ok THEN 1 ELSE 0),
                                   !.tally = ExecuteScenarioWithMetrics(@, ok, slow)])
  /\ UNCHANGED <<isRunning, current, asked>>
\* ... and when all have ended they are counted.
BatchSettles(r) ==
  LET x == runners[r] IN
  /\ x.pc = "batch" /\ x.left = 0
  /\ Becomes(r, [x EXCEPT !.pc = "phase",
       !.tally = [@ EXCEPT !.batches = @ + 1, !.total = @ + x.concurrency, !.ok = @ + x.settled,
                           !.failed = @ + (x.concurrency - x.settled)]])
  /\ UNCHANGED <<isRunning, current, asked>>

\* errorRate > 10 or p95Latency > 5000; nothing counted is 0 / 0, which is above nothing.
TooMuch(t) == t.slow \/ (t.total > 0 /\ 10 * t.failed > t.total)
\* The time is up: the result is kept, the flag cleared, and a stress test pauses
\* before the next round unless this was its last.
Complete(r) ==
  LET x == runners[r] IN
  /\ x.pc = "phase" /\ isRunning' = FALSE
  /\ current' = [kind |-> x.kind, concurrency |-> x.concurrency, tally |-> x.tally]
  /\ Becomes(r, IF x.kind = "stress" /\ ~TooMuch(x.tally) /\ 2 * x.concurrency <= MaxConcurrency
                  THEN [BenchFree EXCEPT !.pc = "start", !.kind = "stress", !.concurrency = 2 * x.concurrency] ELSE BenchFree)
  /\ UNCHANGED asked

BenchNext ==
  \E r \in Runners :
    \/ Run(r) \/ RunStressTest(r) \/ RunBenchmark(r) \/ RunWarmup(r) \/ StartBatch(r) \/ BatchSettles(r) \/ Complete(r)
    \/ \E ok, slow \in BOOLEAN : OperationEnds(r, ok, slow)

-----------------------------------------------------------------------------
BenchTypeOK ==
  /\ isRunning \in BOOLEAN /\ asked \in 0..MaxRuns
  /\ \A r \in Runners :
       /\ runners[r].pc \in {"idle", "start", "warmup", "phase", "batch"}
       /\ runners[r].kind \in {"none", "run", "empty", "stress"}
       /\ runners[r].concurrency \in 0..MaxConcurrency /\ runners[r].left \in 0..MaxConcurrency

(* The flag is up exactly while one benchmark is between its check and its   *)
(* finally clause: a refused request, a round of a stress test that lost its  *)
(* turn in the pause, or one that throws, neither leaves it up nor takes it   *)
(* from another.                                                              *)
OneBenchmark ==
  LET inside == {r \in Runners : runners[r].pc \in {"warmup", "phase", "batch"}} IN
  Cardinality(inside) = IF isRunning THEN 1 ELSE 0
(* A result counts every operation once: as a success or a failure, in the   *)
(* latencies and under its scenario.                                         *)
ResultsAddUp ==
  current # None =>
    LET t == current.tally IN
    /\ t.total = t.ok + t.failed /\ t.latencies = t.total /\ t.scenarios = t.total
    /\ t.total = t.batches * current.concurrency

-----------------------------------------------------------------------------
(* ConfigService (src/config/config.service.ts) and ConfigAuditService         *)
(* (src/config/config-audit.service.ts). A change of the environment file      *)
(* schedules a reload; a reload puts the new configuration in place before it  *)
(* validates it, and takes nothing back. dotenv sets only variables that are   *)
(* not set, so a variable of the file is taken once per process. The audit     *)
(* entries are kept in memory and, line by line, in a file that is read again  *)
(* after a restart.                                                            *)

CONSTANTS
  Reloads,   \* reloads under way
  MaxEntries,   \* entries kept in memory
  MaxLines   \* bound: lines in the audit file

VARIABLES
  file,          \* a variable added to the environment file: None, "good" or "bad"
  environ,       \* its value in process.env
  config,        \* the value in the configuration that services read
  reloads,       \* per reload: what it is doing
  journal, lines,
  failedReload, unwritten   \* history, since the start: a validation failed, an entry was not written
configVars == <<file, environ, config, reloads, journal, lines, failedReload, unwritten>>

ConfigInit ==
  /\ file = None /\ environ = None /\ config = None /\ reloads = [r \in Reloads |-> "idle"]
  /\ journal = <<"load">> /\ lines = <<"load">> /\ failedReload = FALSE /\ unwritten = FALSE

LastOf(s, n) == SubSeq(s, IF Len(s) > n THEN Len(s) - n + 1 ELSE 1, Len(s))
Trimmed(es) == LastOf(es, MaxEntries)
(* The write to the file may fail, which is logged only. *)
LogAuditEntry(es, ls, new, written) ==
  /\ Len(ls) + Len(new) <= MaxLines
  /\ journal' = Trimmed(es \o new) /\ lines' = (IF written THEN ls \o new ELSE ls)
  /\ unwritten' = (unwritten \/ ~written)

(* fs.watch: every change schedules a reload of its own. *)
FileChanges(v, r) ==
  /\ reloads[r] = "idle" /\ v # file /\ file' = v /\ reloads' = [reloads EXCEPT ![r] = "scheduled"]
  /\ UNCHANGED <<environ, config, journal, lines, failedReload, unwritten>>

(* dotenv, then the assignment to this.config, then the wait for validate. *)
Dotenv == IF environ = None THEN file ELSE environ
ReloadConfiguration(r) ==
  /\ reloads[r] = "scheduled" /\ environ' = Dotenv /\ config' = environ'
  /\ reloads' = [reloads EXCEPT ![r] = IF environ' = "bad" THEN "rejecting" ELSE "accepting"]
  /\ UNCHANGED <<file, journal, lines, failedReload, unwritten>>
(* A reload that validates says so twice, as loaded and as reloaded. *)
Validated(r, written) ==
  /\ reloads[r] = "accepting" /\ reloads' = [reloads EXCEPT ![r] = "idle"]
  /\ LogAuditEntry(journal, lines, <<"load", "reload">>, written)
  /\ UNCHANGED <<file, environ, config, failedReload>>
Rejected(r, written) ==
  /\ reloads[r] = "rejecting" /\ reloads' = [reloads EXCEPT ![r] = "idle"] /\ failedReload' = TRUE
  /\ LogAuditEntry(journal, lines, <<"validation_error">>, written)
  /\ UNCHANGED <<file, environ, config>>

ClearAuditLog(written) ==
  /\ lines # <<>> /\ LogAuditEntry(<<>>, <<>>, <<"change">>, written)
  /\ UNCHANGED <<file, environ, config, reloads, failedReload>>

(* A process only starts with a configuration that validates. *)
Restart ==
  /\ file # "bad" /\ Len(lines) < MaxLines
  /\ environ' = file /\ config' = file /\ reloads' = [r \in Reloads |-> "idle"] /\ failedReload' = FALSE
  /\ journal' = Trimmed(Append(Trimmed(lines), "load")) /\ lines' = Append(lines, "load")
  /\ unwritten' = FALSE /\ UNCHANGED file

ConfigNext ==
  \/ Restart
  \/ \E w \in BOOLEAN : ClearAuditLog(w)
  \/ \E r \in Reloads : \/ ReloadConfiguration(r)
                        \/ \E v \in {None, "good", "bad"} : FileChanges(v, r)
                        \/ \E w \in BOOLEAN : Validated(r, w) \/ Rejected(r, w)

-----------------------------------------------------------------------------
ConfigTypeOK ==
  /\ {file, environ, config} \subseteq {None, "good", "bad"}
  /\ reloads \in [Reloads -> {"idle", "scheduled", "accepting", "rejecting"}]
  /\ Len(lines) <= MaxLines

(* Services read a configuration that does not validate only while a reload   *)
(* is validating it, or after such a reload has failed, which is on record;   *)
(* from then on every reload fails, until a restart (loadConfiguration        *)
(* 383-394, reloadConfiguration 427-446).                                     *)
BadConfigOnRecord ==
  config = "bad" =>
    /\ environ = "bad" /\ \A r \in Reloads : reloads[r] # "accepting" \/ config = environ
    /\ (failedReload \/ \E r \in Reloads : reloads[r] = "rejecting")

(* What an operator reads from memory are the last lines of the file, across  *)
(* clearings and restarts, unless an entry could not be written               *)
(* (logAuditEntry 70-91, loadAuditLog 108-127, clearAuditLog 222-234).        *)
EntriesAreLastLines == ~unwritten => journal = LastOf(lines, MaxEntries)
=============================================================================
