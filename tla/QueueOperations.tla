---------------------------- MODULE QueueOperations ----------------------------
(* The upkeep of the queues (src/queue): administration and failover, *)
(* report and cleanup jobs, and scheduled tasks. The three share no   *)
(* state.                                                             *)
EXTENDS Integers, Sequences, FiniteSets

(* The life of jobs under SchedulerFailoverService, QueueMonitoringService   *)
(* and the administrators' routes (src/queue). Bull is external: it hands a  *)
(* waiting job to a worker, takes it back when the worker's lock expires,    *)
(* counts failed attempts and keeps the job in failed when they are used up  *)
(* or it has stalled too often. The processor's failure handler writes the   *)
(* job to the dead-letter queue in a later step. Recovering a dead letter is *)
(* in QueueJobs.                                                             *)

CONSTANTS
  Jobs,         \* jobs that may be added
  Used,         \* the queues they are added to
  Attempts,     \* opts.attempts
  MaxStalled,   \* Bull's maxStalledCount
  MaxOps        \* bound: administrators' operations and sweeps

VARIABLES
  ticket,       \* per job: state, attempts made, stalls, age, why it failed
  held,         \* queues that are paused
  letters,      \* job -> reason it is in the dead-letter queue, or "none"
  writing,      \* dead letters being written
  stalledJobs,  \* stalled events not handled yet
  retrying,     \* failed jobs an automatic retry has listed and not got to
  swept,        \* how many queues the running sweep has cleaned
  readmitted,   \* jobs an administrator has retried
  operations    \* operations so far

adminVars == <<ticket, held, letters, writing, stalledJobs, retrying, swept, readmitted, operations>>

QueueName == {"notifications", "emails", "reports", "cleanup", "swaps", "alerts"}
FailoverQueues == {"notifications", "reports"}
(* QueueMonitoringService.getQueue knows four queues and throws for the rest; *)
(* getQueueInstance, which drains and counts, has other names for three.      *)
Monitored == {"notifications", "emails", "reports", "cleanup"}
Order == <<"notifications", "emails", "reports", "cleanup", "swaps", "alerts">>
Drainable == {"cleanup", "swaps"}

Gone == {"removed", "swept"}
NewJob == [queue |-> "none", state |-> "none", made |-> 0, stalls |-> 0, old |-> FALSE, fatal |-> FALSE]
AdminInit ==
  /\ ticket = [j \in Jobs |-> NewJob] /\ held = {} /\ letters = [j \in Jobs |-> "none"]
  /\ writing = {} /\ stalledJobs = {} /\ retrying = {} /\ swept = 0 /\ readmitted = {} /\ operations = 0

Set(j, f) == ticket' = [ticket EXCEPT ![j] = f]
State(j, s) == Set(j, [ticket[j] EXCEPT !.state = s])
Operation == operations < MaxOps /\ operations' = operations + 1
InQueue(q) == {j \in Jobs : ticket[j].queue = q}

-----------------------------------------------------------------------------
AddToQueue(j) ==
  /\ ticket[j].state = "none" /\ \E q \in Used : Set(j, [NewJob EXCEPT !.queue = q, !.state = "waiting"])
  /\ UNCHANGED <<held, letters, writing, stalledJobs, retrying, swept, readmitted, operations>>
Take(j) ==
  /\ ticket[j].state = "waiting" /\ ticket[j].queue \notin held /\ State(j, "active")
  /\ UNCHANGED <<held, letters, writing, stalledJobs, retrying, swept, readmitted, operations>>
Complete(j) ==
  /\ ticket[j].state = "active" /\ State(j, "completed")
  /\ UNCHANGED <<held, letters, writing, stalledJobs, retrying, swept, readmitted, operations>>
IsPermanentFailure(t) == t.made >= Attempts
(* The processor throws; fatal: an error no retry helps against. *)
OnFailed(j) ==
  \E fatal \in BOOLEAN :
    LET t == [ticket[j] EXCEPT !.made = @ + 1, !.fatal = fatal] IN
    /\ ticket[j].state = "active"
    /\ Set(j, [t EXCEPT !.state = IF IsPermanentFailure(t) THEN "failed" ELSE "waiting"])
    /\ writing' = IF IsPermanentFailure(t) THEN writing \cup {<<j, "MAX_RETRIES_EXCEEDED">>} ELSE writing
    /\ UNCHANGED <<held, letters, stalledJobs, retrying, swept, readmitted, operations>>
Stall(j) ==
  LET t == [ticket[j] EXCEPT !.stalls = @ + 1] fails == ticket[j].stalls >= MaxStalled IN
  /\ ticket[j].state = "active"
  /\ Set(j, [t EXCEPT !.state = IF fails THEN "failed" ELSE "waiting"])
  /\ writing' = IF fails /\ IsPermanentFailure(t) THEN writing \cup {<<j, "MAX_RETRIES_EXCEEDED">>} ELSE writing
  /\ stalledJobs' = IF ~fails /\ ticket[j].queue \in FailoverQueues THEN stalledJobs \cup {j} ELSE stalledJobs
  /\ UNCHANGED <<held, letters, retrying, swept, readmitted, operations>>

(* addToDLQ: the write to Redis, which may fail. *)
AddToDLQ(w) ==
  /\ w \in writing /\ writing' = writing \ {w}
  /\ \/ letters' = [letters EXCEPT ![w[1]] = w[2]]
     \/ UNCHANGED letters
  /\ UNCHANGED <<ticket, held, stalledJobs, retrying, swept, readmitted, operations>>

-----------------------------------------------------------------------------
(* handleStalledJob compares the attempts with the stall limit: a job that   *)
(* has failed once is written to the dead letters although Bull has put it   *)
(* back; the other one is retried, which only a failed job can be.           *)
Retry(j) == IF ticket[j].state = "failed" THEN State(j, "waiting") ELSE UNCHANGED ticket
HandleStalledJob(j) ==
  /\ j \in stalledJobs /\ stalledJobs' = stalledJobs \ {j}
  /\ IF ticket[j].state \in Gone THEN UNCHANGED <<ticket, writing>>
     ELSE IF ticket[j].made >= MaxStalled
          THEN writing' = writing \cup {<<j, "STALLED">>} /\ UNCHANGED ticket
          ELSE Retry(j) /\ UNCHANGED writing
  /\ UNCHANGED <<held, letters, retrying, swept, readmitted, operations>>

(* autoRetryFailedJobs, from the health check when many jobs have failed or  *)
(* from the route, which takes every other queue for the reports; it lists   *)
(* the failed jobs, then goes through the list.                              *)
AutoRetryFailedJobs(q) ==
  /\ Operation /\ retrying = {}
  /\ retrying' = {j \in InQueue(q) : ticket[j].state = "failed"}
  /\ UNCHANGED <<ticket, held, letters, writing, stalledJobs, swept, readmitted>>
PerformFailoverHealthCheck == \E q \in FailoverQueues : AutoRetryFailedJobs(q)
RecoverFailedJobs(q) == AutoRetryFailedJobs(IF q = "notifications" THEN q ELSE "reports")
CanRetryJob(t) == ~IsPermanentFailure(t) /\ ~t.fatal
RetryNext(j) ==
  /\ j \in retrying /\ retrying' = retrying \ {j}
  /\ IF ~CanRetryJob(ticket[j]) THEN UNCHANGED <<ticket, writing>>
     ELSE IF ticket[j].state = "failed" THEN State(j, "waiting") /\ UNCHANGED writing
          ELSE writing' = writing \cup {<<j, "NON_RETRYABLE_ERROR">>} /\ UNCHANGED ticket
  /\ UNCHANGED <<held, letters, stalledJobs, swept, readmitted, operations>>

Age(j) ==
  /\ ticket[j].state \in {"failed", "completed"} /\ ~ticket[j].old /\ Set(j, [ticket[j] EXCEPT !.old = TRUE])
  /\ UNCHANGED <<held, letters, writing, stalledJobs, retrying, swept, readmitted, operations>>
(* Removing what is old, queue by queue: cleanupOldFailedJobs for the two    *)
(* failover queues; cleanupOldJobs in the order of the enum, until it gets   *)
(* to a queue the monitoring does not know and throws.                       *)
Swept(q) ==
  ticket' = [j \in Jobs |-> IF ticket[j].queue = q /\ ticket[j].old THEN [ticket[j] EXCEPT !.state = "swept", !.old = FALSE] ELSE ticket[j]]
CleanupOldFailedJobs ==
  /\ Operation
  /\ ticket' = [j \in Jobs |-> IF ticket[j].queue \in FailoverQueues /\ ticket[j].old /\ ticket[j].state = "failed"
                               THEN [ticket[j] EXCEPT !.state = "swept", !.old = FALSE] ELSE ticket[j]]
  /\ UNCHANGED <<held, letters, writing, stalledJobs, retrying, swept, readmitted>>
CleanupOldJobs ==
  LET q == Order[swept + 1] IN
  /\ IF q \in Monitored THEN Swept(q) /\ swept' = swept + 1 /\ UNCHANGED operations
                        ELSE swept' = 0 /\ Operation /\ UNCHANGED ticket
  /\ UNCHANGED <<held, letters, writing, stalledJobs, retrying, readmitted>>

-----------------------------------------------------------------------------
PauseQueue(q) ==
  /\ held' = held \cup {q} /\ UNCHANGED ticket
ResumeQueue(q) ==
  /\ held' = held \ {q} /\ UNCHANGED ticket
(* empty() drops the waiting jobs. *)
EmptyQueue(q) ==
  /\ ticket' = [j \in Jobs |-> IF ticket[j].queue = q /\ ticket[j].state = "waiting" THEN [ticket[j] EXCEPT !.state = "removed"] ELSE ticket[j]]
  /\ UNCHANGED held
(* waitUntilEmpty waits for the active jobs of a queue it knows. *)
DrainQueue(q) ==
  /\ q \in Drainable => \A j \in InQueue(q) : ticket[j].state # "active"
  /\ UNCHANGED <<ticket, held>>
RemoveJob(j) == ticket[j].state \notin {"none", "active"} \cup Gone /\ State(j, "removed")
RetryJob(j) == ticket[j].state = "failed" /\ Set(j, [ticket[j] EXCEPT !.state = "waiting", !.old = FALSE])
(* The routes of QueueController and QueueAdminController. *)
QueueEndpoints ==
  /\ \E q \in Used : PauseQueue(q) \/ ResumeQueue(q) \/ EmptyQueue(q) \/ DrainQueue(q)
  /\ Operation /\ UNCHANGED <<letters, writing, stalledJobs, retrying, swept, readmitted>>
JobEndpoints ==
  /\ \E j \in Jobs : \/ RemoveJob(j) /\ UNCHANGED readmitted
                     \/ RetryJob(j) /\ readmitted' = readmitted \cup {j}
  /\ Operation /\ UNCHANGED <<held, letters, writing, stalledJobs, retrying, swept>>

AdminNext ==
  \/ \E j \in Jobs : \/ AddToQueue(j) \/ Take(j) \/ Complete(j) \/ OnFailed(j) \/ Stall(j) \/ Age(j)
                     \/ HandleStalledJob(j) \/ RetryNext(j)
  \/ \E w \in writing : AddToDLQ(w)
  \/ PerformFailoverHealthCheck \/ (\E q \in Used : RecoverFailedJobs(q))
  \/ CleanupOldFailedJobs \/ CleanupOldJobs \/ QueueEndpoints \/ JobEndpoints

-----------------------------------------------------------------------------
AdminTypeOK ==
  /\ \A j \in Jobs : ticket[j].state \in {"none", "waiting", "active", "completed", "failed", "removed", "swept"}
  /\ held \subseteq QueueName /\ swept < Len(Order)
  /\ \A j \in Jobs : letters[j] \in {"none", "MAX_RETRIES_EXCEEDED", "STALLED", "NON_RETRYABLE_ERROR"}

(* A job whose attempts are used up runs again only if an administrator      *)
(* retries it: neither the stall handler nor the automatic retry, working    *)
(* from lists read earlier, revives it, so that a dead letter for it is not  *)
(* about a job that still runs (failover 130-201, 256-278).                  *)
ExhaustedStaysDead ==
  \A j \in Jobs : (IsPermanentFailure(ticket[j]) \/ letters[j] = "MAX_RETRIES_EXCEEDED") /\ j \notin readmitted
                    => ticket[j].state \in {"failed"} \cup Gone

(* Swap jobs are kept for audit: no sweep removes one, the hourly one throws *)
(* before it gets to them (queue-monitoring 320-332, 351-364, queue.service  *)
(* 128-134). Only an administrator does.                                     *)
SwapsAreKept == \A j \in Jobs : ticket[j].queue = "swaps" => ticket[j].state # "swept"

-----------------------------------------------------------------------------
(* The report and cleanup processors (src/queue/processors): jobs of two Bull  *)
(* queues, one at a time each, two attempts. A report goes through its steps   *)
(* from the start at every attempt; a cleanup removes a batch at a time. The   *)
(* process may die: Bull, which is external, finds its jobs stalled and gives  *)
(* them back once.                                                             *)

CONSTANTS
  UpkeepJobs,
  Reports,   \* the jobs that are reports; the others are cleanups
  BatchSize,
  MaxCrashes,   \* bound on crashes
  MaxBatches   \* bound on the batches of one attempt

VARIABLES
  queue,        \* per job: its state in Bull
  tries,        \* per job: attemptsMade, times stalled, step of this attempt, reports saved, batches
  handlers,     \* jobs whose failure onFailed has yet to put into the dead-letter queue
  dead,         \* the dead-letter queue
  deaths,       \* crashes so far
  unheard       \* history: jobs whose onFailed was cut off or could not store them
upkeepVars == <<queue, tries, handlers, dead, deaths, unheard>>

Fresh == [made |-> 0, stalls |-> 0, step |-> "start", saved |-> 0, batches |-> 0]
UpkeepInit ==
  /\ queue = [j \in UpkeepJobs |-> "none"] /\ tries = [j \in UpkeepJobs |-> Fresh]
  /\ handlers = {} /\ dead = {} /\ deaths = 0 /\ unheard = {}

Siblings(j) == IF j \in Reports THEN Reports ELSE UpkeepJobs \ Reports
Goes(j, state) == queue' = [queue EXCEPT ![j] = state]

AddJob(j) == queue[j] = "none" /\ Goes(j, "waiting") /\ UNCHANGED <<tries, handlers, dead, deaths, unheard>>
\* @Process({ concurrency: 1 })
UpkeepTake(j) ==
  /\ queue[j] = "waiting" /\ \A k \in Siblings(j) : queue[k] # "active"
  /\ Goes(j, "active") /\ tries' = [tries EXCEPT ![j].step = "start", ![j].batches = 0]
  /\ UNCHANGED <<handlers, dead, deaths, unheard>>

\* fetchReportData and generateReport leave nothing; saveReport leaves a file, of a
\* name of its own; then comes the e-mail.
NextStep == [start |-> "saved", saved |-> "emailed"]
\* Progress is reported after each step; any of them may throw (OnFailed).
ProcessReport(j) ==
  /\ queue[j] = "active" /\ j \in Reports
  /\ \/ /\ tries[j].step \in DOMAIN NextStep /\ UNCHANGED queue
        /\ tries' = [tries EXCEPT ![j].step = NextStep[@], ![j].saved = @ + (IF tries[j].step = "start" THEN 1 ELSE 0)]
     \/ tries[j].step = "emailed" /\ Goes(j, "completed") /\ UNCHANGED tries
  /\ UNCHANGED <<handlers, dead, deaths, unheard>>
\* cleanupOldTrades and the others: Math.floor(Math.random() * batchSize)
Cleaned == 0..(BatchSize - 1)
\* The next batch follows a full one.
ProcessCleanup(j) ==
  /\ queue[j] = "active" /\ j \notin Reports
  /\ \E n \in Cleaned :
       /\ tries[j].batches < MaxBatches /\ tries' = [tries EXCEPT ![j].batches = @ + 1]
       /\ IF n = BatchSize THEN UNCHANGED queue ELSE Goes(j, "completed")
  /\ UNCHANGED <<handlers, dead, deaths, unheard>>

UpkeepIsPermanentFailure(made) == made >= Attempts
\* The processor throws: Bull counts the attempt and keeps or gives up the job, and
\* onFailed takes a permanent failure to the dead-letter queue.
UpkeepOnFailed(j) ==
  LET made == tries[j].made + 1 IN
  /\ queue[j] = "active" /\ tries' = [tries EXCEPT ![j].made = made]
  /\ Goes(j, IF made < Attempts THEN "waiting" ELSE "failed")
  /\ handlers' = IF UpkeepIsPermanentFailure(made) THEN handlers \cup {j} ELSE handlers
  /\ UNCHANGED <<dead, deaths, unheard>>
UpkeepAddToDLQ(j) ==
  /\ j \in handlers /\ handlers' = handlers \ {j}
  /\ \/ dead' = dead \cup {j} /\ UNCHANGED unheard
     \/ unheard' = unheard \cup {j} /\ UNCHANGED dead
  /\ UNCHANGED <<queue, tries, deaths>>

Crash ==
  /\ deaths < MaxCrashes /\ deaths' = deaths + 1 /\ handlers' = {} /\ unheard' = unheard \cup handlers
  /\ queue' = [j \in UpkeepJobs |-> IF queue[j] = "active" THEN "stalled" ELSE queue[j]]
  /\ UNCHANGED <<tries, dead>>
\* maxStalledCount is 1: given back once, then failed without another attempt counted.
Stalled(j) ==
  /\ queue[j] = "stalled" /\ tries' = [tries EXCEPT ![j].stalls = @ + 1]
  /\ Goes(j, IF tries[j].stalls < 1 THEN "waiting" ELSE "failed")
  /\ UNCHANGED <<handlers, dead, deaths, unheard>>

UpkeepNext ==
  \/ \E j \in UpkeepJobs : \/ AddJob(j) \/ UpkeepTake(j) \/ ProcessReport(j) \/ ProcessCleanup(j)
                           \/ UpkeepOnFailed(j) \/ UpkeepAddToDLQ(j) \/ Stalled(j)
  \/ Crash

-----------------------------------------------------------------------------
UpkeepTypeOK ==
  /\ queue \in [UpkeepJobs -> {"none", "waiting", "active", "stalled", "completed", "failed"}]
  /\ \A j \in UpkeepJobs : tries[j].made \in 0..Attempts /\ tries[j].stalls \in 0..2 /\ tries[j].batches \in 0..MaxBatches
  /\ handlers \subseteq UpkeepJobs /\ dead \subseteq UpkeepJobs /\ deaths \in 0..MaxCrashes /\ unheard \subseteq UpkeepJobs

(* A failed job is in the dead-letter queue or on its way there, unless the  *)
(* process died or Redis failed while onFailed ran, or the job stalled twice: *)
(* that one fails with attempts left, which onFailed does not take for a      *)
(* permanent failure. A job in the dead-letter queue has used all attempts.   *)
FailedIsDead ==
  /\ \A j \in UpkeepJobs : queue[j] = "failed" => j \in dead \cup handlers \cup unheard \/ tries[j].stalls = 2
  /\ \A j \in dead : queue[j] = "failed" /\ tries[j].made = Attempts
(* A completed report has been saved, and no attempt saves it twice: one that *)
(* failed or died after the save leaves its file behind.                      *)
OneResultPerAttempt ==
  \A j \in UpkeepJobs :
    /\ tries[j].saved <= tries[j].made + tries[j].stalls + (IF queue[j] \in {"active", "stalled", "completed"} THEN 1 ELSE 0)
    /\ j \in Reports /\ queue[j] = "completed" => tries[j].saved >= 1

-----------------------------------------------------------------------------
(* The scheduler (src/queue/scheduler.service.ts): cron tasks that put jobs  *)
(* on the queues one after the other and stop at the first one that fails;   *)
(* cache warming (src/common/cache), whose strategies run on after a timeout *)
(* and count themselves in whatever round is current; the record of the      *)
(* warming task; and the health check over the newest snapshot of each queue.*)
(* Nothing in the repository calls QueueAnalyticsService.recordMetrics; it is*)
(* modelled as the service offers it.                                        *)

CONSTANTS
  Slots,        \* task runs in flight
  Strategies,   \* warming strategies configured
  MaxRuns,      \* bound: task runs started
  Snapshots,    \* snapshots a queue may give
  MaxSnapshots, \* MAX_HISTORY_SIZE
  MaxAlerts     \* alerts QueueAnalyticsService keeps

VARIABLES
  duty,         \* per slot: the task, the jobs it has queued, where it is
  runs,         \* task runs started
  warming,      \* busy flag, round, successes and failures counted
  flying,       \* strategies still running, with their round
  abandoned,    \* a warming has timed out
  taskLog,      \* cache-warming's ScheduledTaskMetrics
  history,      \* snapshots recorded of the queue that is watched
  queueAlerts   \* alerts kept

cronVars == <<duty, runs, warming, flying, abandoned, taskLog, history, queueAlerts>>

(* The jobs each task queues, in order. There is one administrator to mail. *)
JobsOf ==
  [daily |-> <<"reports">>, weekly |-> <<"cleanup", "cleanup", "cleanup", "reports">>,
   hourly |-> <<"cleanup">>, sessions |-> <<"cleanup">>, monthly |-> <<"reports">>,
   portfolio |-> <<"reports">>, custom |-> <<"reports">>, health |-> <<"notifications">>,
   alert |-> <<"notifications">>]
Queues == {"notifications", "reports", "cleanup"}

Off == [pc |-> "none", todo |-> <<>>, pos |-> 1, queued |-> {}, cron |-> FALSE]
NewTaskLog == [status |-> "scheduled", executions |-> 0, failures |-> 0]

(* The application may still be warming the cache it started with. *)
CronInit ==
  /\ \E boot \in BOOLEAN :
       /\ warming = [busy |-> boot, round |-> 0, ok |-> 0, bad |-> 0]
       /\ flying = IF boot THEN {0} \X Strategies ELSE {}
  /\ duty = [s \in Slots |-> Off] /\ runs = 0
  /\ abandoned = FALSE /\ taskLog = NewTaskLog /\ history = <<>> /\ queueAlerts = <<>>

Become(s, d) == duty' = [duty EXCEPT ![s] = d]
StartRun(s, d) == duty[s].pc = "none" /\ runs < MaxRuns /\ runs' = runs + 1 /\ Become(s, d)
Analytics == <<history, queueAlerts>>
Warming == <<warming, flying, abandoned, taskLog>>

-----------------------------------------------------------------------------
(* A cron task, or one that a route triggers. *)
StartTask(s, t) ==
  /\ StartRun(s, [Off EXCEPT !.pc = "queue", !.todo = JobsOf[t]])
  /\ UNCHANGED <<Warming, Analytics>>
GenerateDailyReports(s) == StartTask(s, "daily")
PerformWeeklyCleanup(s) == StartTask(s, "weekly")
CleanupTempFiles(s) == StartTask(s, "hourly")
CleanupExpiredSessions(s) == StartTask(s, "sessions")
GenerateMonthlyReports(s) == StartTask(s, "monthly")
PerformPortfolioOptimization(s) == StartTask(s, "portfolio")
TriggerCustomReport(s) == StartTask(s, "custom")

CronAddJob(s) ==
  LET d == duty[s] IN
  /\ d.pc = "queue"
  /\ Become(s, IF d.pos < Len(d.todo) THEN [d EXCEPT !.pos = @ + 1, !.queued = @ \cup {d.pos}]
               ELSE [d EXCEPT !.pc = "done", !.queued = @ \cup {d.pos}])
  /\ UNCHANGED <<runs, Warming, Analytics>>
(* Redis refuses the job: the task is over; what it has queued stays. *)
AddJobFails(s) ==
  /\ duty[s].pc = "queue" /\ Become(s, [duty[s] EXCEPT !.pc = "done"])
  /\ UNCHANGED <<runs, Warming, Analytics>>
EndTask(s) ==
  /\ duty[s].pc = "done" /\ Become(s, Off)
  /\ UNCHANGED <<runs, Warming, Analytics>>

-----------------------------------------------------------------------------
(* recordScheduledTaskExecution. *)
RecordTaskExecution(failed) ==
  taskLog' = [status |-> IF failed THEN "failed" ELSE "completed", executions |-> taskLog.executions + 1,
              failures |-> taskLog.failures + (IF failed THEN 1 ELSE 0)]

(* forceWarmCache, from the cron task or a route. One that finds a warming   *)
(* in progress throws; the cron task records that and alerts.                *)
ForceWarmCache(s, cron) ==
  /\ ~warming.busy /\ StartRun(s, [Off EXCEPT !.pc = "warming", !.cron = cron, !.pos = warming.round + 1])
  /\ warming' = [busy |-> TRUE, round |-> warming.round + 1, ok |-> 0, bad |-> 0]
  /\ flying' = flying \cup ({warming.round + 1} \X Strategies)
  /\ UNCHANGED <<abandoned, taskLog, Analytics>>
ForceWarmRefused(s, cron) ==
  /\ warming.busy
  /\ StartRun(s, IF cron THEN [Off EXCEPT !.pc = "queue", !.todo = JobsOf.alert] ELSE [Off EXCEPT !.pc = "done"])
  /\ IF cron THEN RecordTaskExecution(TRUE) ELSE UNCHANGED taskLog
  /\ UNCHANGED <<warming, flying, abandoned, Analytics>>
(* A strategy ends and counts itself in the current metrics. *)
StrategyEnds(f, good) ==
  /\ f \in flying /\ flying' = flying \ {f}
  /\ warming' = IF good THEN [warming EXCEPT !.ok = @ + 1] ELSE [warming EXCEPT !.bad = @ + 1]
  /\ UNCHANGED <<duty, runs, abandoned, taskLog, Analytics>>
(* All strategies are done, or the timeout wins the race; either way the     *)
(* flag is cleared. The cron task records the outcome, and alerts when it    *)
(* threw or when most strategies failed.                                     *)
AwaitsAll(round) == \A f \in flying : f[1] # round
AfterWarming(s, threw) ==
  IF duty[s].cron /\ (threw \/ warming.bad > warming.ok)
  THEN [Off EXCEPT !.pc = IF threw THEN "queue" ELSE "first", !.todo = JobsOf.alert] ELSE [Off EXCEPT !.pc = "done"]
WarmCacheEnds(s, threw) ==
  /\ duty[s].pc = "warming" /\ (threw \/ AwaitsAll(duty[s].pos))
  /\ warming' = [warming EXCEPT !.busy = FALSE] /\ abandoned' = (abandoned \/ threw)
  /\ IF duty[s].cron THEN RecordTaskExecution(threw) ELSE UNCHANGED taskLog
  /\ Become(s, AfterWarming(s, threw)) /\ UNCHANGED <<runs, flying, Analytics>>
(* The alert about the failures is inside the try block: one that cannot be  *)
(* queued turns the recorded success into a failure, recorded as well, and   *)
(* is tried again from the catch block.                                      *)
FirstAlert(s) ==
  /\ duty[s].pc = "first" /\ UNCHANGED <<runs, warming, flying, abandoned, Analytics>>
  /\ \/ Become(s, [Off EXCEPT !.pc = "done"]) /\ UNCHANGED taskLog
     \/ RecordTaskExecution(TRUE) /\ Become(s, [Off EXCEPT !.pc = "queue", !.todo = JobsOf.alert])
(* onApplicationBootstrap's own warming. *)
BootEnds(late) ==
  /\ warming.round = 0 /\ warming.busy /\ (late \/ AwaitsAll(0))
  /\ warming' = [warming EXCEPT !.busy = FALSE, !.bad = @ + (IF late THEN 1 ELSE 0)] /\ abandoned' = (abandoned \/ late)
  /\ UNCHANGED <<duty, runs, flying, taskLog, Analytics>>

-----------------------------------------------------------------------------
(* A snapshot is how far the waiting jobs and the failure rate are over the  *)
(* thresholds: 0 none, 1 warning, 2 critical, and whether jobs are slow. A   *)
(* queue that has finished no job has no failure rate and counts as 0.       *)
Snapshot == [waiting : 0 .. 2, failing : 0 .. 2, slow : BOOLEAN]
GetQueueHealth(h) ==
  IF h = <<>> THEN "healthy"
  ELSE LET x == h[Len(h)] IN
       IF 2 \in {x.waiting, x.failing} THEN "critical"
       ELSE IF 1 \in {x.waiting, x.failing} \/ x.slow THEN "warning" ELSE "healthy"
Issues(x) == Cardinality({p \in {"waiting", "failing"} : x[p] > 0}) + (IF x.slow THEN 1 ELSE 0)
Newest(seq, n) == IF Len(seq) > n THEN SubSeq(seq, Len(seq) - n + 1, Len(seq)) ELSE seq
RecordMetrics(x) ==
  LET h == Newest(Append(history, x), MaxSnapshots) IN
  /\ runs < MaxRuns /\ runs' = runs + 1 /\ history' = h
  /\ queueAlerts' = Newest(queueAlerts \o [i \in 1 .. Issues(x) |-> GetQueueHealth(h)], MaxAlerts)
  /\ UNCHANGED <<duty, Warming>>
CheckSystemHealth(s) ==
  /\ StartRun(s, IF GetQueueHealth(history) # "healthy" THEN [Off EXCEPT !.pc = "queue", !.todo = JobsOf.health]
                 ELSE [Off EXCEPT !.pc = "done"])
  /\ UNCHANGED <<Warming, Analytics>>

-----------------------------------------------------------------------------
(* The cron table, and the routes that trigger tasks. *)
CronTasks(s) ==
  \/ GenerateDailyReports(s) \/ PerformWeeklyCleanup(s) \/ CleanupTempFiles(s) \/ CleanupExpiredSessions(s)
  \/ GenerateMonthlyReports(s) \/ PerformPortfolioOptimization(s) \/ CheckSystemHealth(s)
  \/ ForceWarmCache(s, TRUE) \/ ForceWarmRefused(s, TRUE)
TriggerEndpoints(s) ==
  \/ GenerateDailyReports(s) \/ PerformWeeklyCleanup(s) \/ PerformPortfolioOptimization(s) \/ TriggerCustomReport(s)
  \/ ForceWarmCache(s, FALSE) \/ ForceWarmRefused(s, FALSE)

CronNext ==
  \/ \E s \in Slots :
       \/ CronTasks(s) \/ TriggerEndpoints(s) \/ CronAddJob(s) \/ AddJobFails(s) \/ EndTask(s) \/ FirstAlert(s)
       \/ \E threw \in BOOLEAN : WarmCacheEnds(s, threw)
  \/ \E f \in flying, good \in BOOLEAN : StrategyEnds(f, good)
  \/ \E late \in BOOLEAN : BootEnds(late)
  \/ \E x \in Snapshots : RecordMetrics(x)

-----------------------------------------------------------------------------
CronTypeOK ==
  /\ \A s \in Slots : duty[s].pc \in {"none", "queue", "warming", "first", "done"}
  /\ \A s \in Slots : \A i \in DOMAIN duty[s].todo : duty[s].todo[i] \in Queues
  /\ history \in Seq(Snapshot)
  /\ taskLog.failures <= taskLog.executions /\ Len(history) <= MaxSnapshots /\ Len(queueAlerts) <= MaxAlerts

(* One warming at a time is awaited, and its counts are its own: as long as  *)
(* none has timed out they never exceed the strategies, and all of them have *)
(* been counted when it is over (cache-warming 124-191, 383-407).            *)
WarmingIsOneRound ==
  /\ Cardinality({s \in Slots : duty[s].pc = "warming"}) <= 1
  /\ ~abandoned => /\ warming.ok + warming.bad <= Cardinality(Strategies)
                   /\ \A s \in Slots : duty[s].pc = "warming" /\ AwaitsAll(duty[s].pos)
                        => warming.ok + warming.bad = Cardinality(Strategies)

(* A task that stops early has queued the first jobs of its list: the weekly *)
(* report is never queued without the cleanups (scheduler 86-120).           *)
QueuedInOrder == \A s \in Slots : duty[s].queued = 1 .. Cardinality(duty[s].queued)
=============================================================================
