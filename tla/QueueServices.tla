---------------------------- MODULE QueueServices ----------------------------
(* What src/queue adds to the queues: ordered partitions, deduplication, *)
(* fault tolerance and scaling. The four share no state.                 *)
EXTENDS Integers, Sequences, FiniteSets

(* MessageOrderingService (src/queue): partitions of ordered messages, all in *)
(* memory. A consumer asks for the next message and marks the partition busy  *)
(* in one stretch, works, and then removes the message and clears the mark;   *)
(* the partition may be cleared, and the empty ones cleaned up, meanwhile.    *)

CONSTANTS
  None, Keys, Ids, Consumers,
  MaxNumber     \* bound on the sequence numbers

VARIABLES
  lanes,        \* partition key -> the partition: is it there, its messages, isProcessing
  numbers,      \* partition key -> last sequence number given
  working,      \* consumer -> the message it works on
  wiped         \* consumers whose partition was cleared while they worked

orderVars == <<lanes, numbers, working, wiped>>

NoLane == [open |-> FALSE, messages |-> <<>>, busy |-> FALSE]
OrderInit ==
  /\ lanes = [k \in Keys |-> NoLane] /\ numbers = [k \in Keys |-> 0]
  /\ working = [c \in Consumers |-> None] /\ wiped = {}

Waiting(k) == {lanes[k].messages[n].id : n \in DOMAIN lanes[k].messages}
Without(s, id) == SelectSeq(s, LAMBDA m : m.id # id)

(* A new partition starts its numbers at 0; the sort finds the messages in   *)
(* order already. An id is queued once (the caller's).                       *)
IncrementSequence(k) == (IF lanes[k].open THEN numbers[k] ELSE 0) + 1
AddMessage(k, id) ==
  LET n == IncrementSequence(k) IN
  /\ n <= MaxNumber /\ id \notin Waiting(k)
  /\ numbers' = [numbers EXCEPT ![k] = n]
  /\ lanes' = [lanes EXCEPT ![k].open = TRUE, ![k].messages = Append(@, [id |-> id, number |-> n])]
  /\ UNCHANGED <<working, wiped>>

GetNextMessage(k) == lanes[k].open /\ lanes[k].messages # <<>> /\ ~lanes[k].busy
MarkPartitionProcessing(k, flag) == [lanes EXCEPT ![k].busy = lanes[k].open /\ flag]
Take(c, k) ==
  /\ working[c] = None /\ GetNextMessage(k)
  /\ working' = [working EXCEPT ![c] = [key |-> k, message |-> Head(lanes[k].messages)]]
  /\ lanes' = MarkPartitionProcessing(k, TRUE)
  /\ UNCHANGED <<numbers, wiped>>
(* Done, or given up and left for another try; either way the mark is taken  *)
(* off, whoever has set it.                                                  *)
Finish(c) ==
  /\ working[c] # None
  /\ LET k == working[c].key IN
     lanes' = [lanes EXCEPT ![k].messages = Without(@, working[c].message.id), ![k].busy = FALSE]
  /\ working' = [working EXCEPT ![c] = None] /\ wiped' = wiped \ {c} /\ UNCHANGED numbers
GiveUp(c) ==
  /\ working[c] # None /\ lanes' = MarkPartitionProcessing(working[c].key, FALSE)
  /\ working' = [working EXCEPT ![c] = None] /\ wiped' = wiped \ {c} /\ UNCHANGED numbers

ClearPartition(k) ==
  /\ lanes[k].open
  /\ lanes' = [lanes EXCEPT ![k].messages = <<>>] /\ numbers' = [numbers EXCEPT ![k] = 0]
  /\ wiped' = wiped \cup {c \in Consumers : working[c] # None /\ working[c].key = k}
  /\ UNCHANGED working
(* A partition that is being worked on stays, even if it is empty. *)
CleanupEmptyPartitions ==
  LET gone(k) == lanes[k].messages = <<>> /\ ~lanes[k].busy IN
  /\ lanes' = [k \in Keys |-> IF gone(k) THEN NoLane ELSE lanes[k]]
  /\ numbers' = [k \in Keys |-> IF gone(k) THEN 0 ELSE numbers[k]]
  /\ UNCHANGED <<working, wiped>>

OrderNext ==
  \/ \E k \in Keys : (\E id \in Ids : AddMessage(k, id)) \/ (\E c \in Consumers : Take(c, k)) \/ ClearPartition(k)
  \/ \E c \in Consumers : Finish(c) \/ GiveUp(c)
  \/ CleanupEmptyPartitions

-----------------------------------------------------------------------------
OrderTypeOK ==
  \A k \in Keys : /\ numbers[k] \in 0 .. MaxNumber /\ Waiting(k) \subseteq Ids
                  /\ lanes[k].open \in BOOLEAN /\ lanes[k].busy \in BOOLEAN

(* A partition is worked on in order and by one consumer, whatever is        *)
(* cleared and cleaned up meanwhile: the messages that wait have rising      *)
(* numbers, two consumers never work on one partition, and unless it was     *)
(* cleared under him a consumer's message is the first of its partition      *)
(* (message-ordering.service.ts 29-153, 241-278). After a clear his          *)
(* removeMessage may take a later message that bears the same id.            *)
PartitionInOrder ==
  /\ \A k \in Keys : \A m, n \in DOMAIN lanes[k].messages :
       m < n => lanes[k].messages[m].number < lanes[k].messages[n].number
  /\ \A c, d \in Consumers : c # d /\ working[c] # None /\ working[d] # None => working[c].key # working[d].key
  /\ \A c \in Consumers : working[c] # None /\ c \notin wiped
       => lanes[working[c].key].busy /\ Head(lanes[working[c].key].messages) = working[c].message

-----------------------------------------------------------------------------
(* MessageDeduplicationService (src/queue): the fingerprints of registered   *)
(* messages for a time window, in two maps bounded in size. A message is     *)
(* taken when isDuplicate says no, and then registered.                      *)

CONSTANTS
  MessageIds, Contents,
  WindowMs, MaxEntries,
  Horizon       \* bound on the clock

VARIABLES
  entries,      \* deduplicationCache: a sequence, as the Map keeps its order
  prints,       \* messageFingerprints: id -> fingerprint
  instant,      \* the time
  taken,        \* content -> when it was last taken, -1 if never
  excused,      \* contents forgotten for a reason since they were taken
  repeated      \* a content was taken again inside its window without a reason

dedupVars == <<entries, prints, instant, taken, excused, repeated>>

DedupInit ==
  /\ entries = <<>> /\ prints = <<>> /\ instant = 0
  /\ taken = [c \in Contents |-> -1] /\ excused = {} /\ repeated = FALSE

Cached == {entries[n].id : n \in DOMAIN entries}
Drop(ids) ==
  /\ entries' = SelectSeq(entries, LAMBDA e : e.id \notin ids)
  /\ prints' = [i \in DOMAIN prints \ ids |-> prints[i]]
PrintsOf(ids) == {prints[i] : i \in ids \cap DOMAIN prints}

(* The fingerprint of normalised data: equal for equal contents, whatever    *)
(* the order of their keys.                                                  *)
GenerateFingerprint(content) == content
IsDuplicate(id, content) == \E i \in DOMAIN prints : prints[i] = GenerateFingerprint(content)

(* Map.set on an id that is there keeps its place and renews its time. Over  *)
(* the limit the oldest tenth goes, rounded up; among equal times the order  *)
(* of the map decides.                                                       *)
Registration(id, content) ==
  LET e == [id |-> id, fingerprint |-> GenerateFingerprint(content), at |-> instant]
  IN  IF id \in Cached THEN [n \in DOMAIN entries |-> IF entries[n].id = id THEN e ELSE entries[n]] ELSE Append(entries, e)
Older(s, m, n) == s[m].at < s[n].at \/ (s[m].at = s[n].at /\ m < n)
CleanupOldestEntries(s) ==
  LET removeCount == (Len(s) + 9) \div 10
  IN  {s[n].id : n \in {n \in DOMAIN s : Cardinality({m \in DOMAIN s : Older(s, m, n)}) < removeCount}}
RegisterMessage(id, content) ==
  LET s == Registration(id, content)
      out == IF Len(s) > MaxEntries THEN CleanupOldestEntries(s) ELSE {}
      p == [i \in DOMAIN prints \cup {id} |-> IF i = id THEN GenerateFingerprint(content) ELSE prints[i]]
  IN  /\ entries' = SelectSeq(s, LAMBDA e : e.id \notin out)
      /\ prints' = [i \in DOMAIN p \ out |-> p[i]]
      /\ excused' = (excused \ {content}) \cup {p[i] : i \in out} \cup PrintsOf({id})
SubmitMessage(id, content) ==
  /\ ~IsDuplicate(id, content) /\ RegisterMessage(id, content)
  /\ repeated' = (repeated \/ (taken[content] >= 0 /\ instant - taken[content] < WindowMs /\ content \notin excused))
  /\ taken' = [taken EXCEPT ![content] = instant] /\ UNCHANGED instant
UnregisterMessage(id) ==
  /\ id \in Cached /\ Drop({id}) /\ excused' = excused \cup PrintsOf({id})
  /\ UNCHANGED <<instant, taken, repeated>>
CleanupExpiredEntries ==
  /\ Drop({entries[n].id : n \in {n \in DOMAIN entries : entries[n].at + WindowMs <= instant}})
  /\ UNCHANGED <<instant, taken, excused, repeated>>
ClearAll ==
  /\ entries' = <<>> /\ prints' = <<>> /\ excused' = Contents /\ UNCHANGED <<instant, taken, repeated>>
Later == instant < Horizon /\ instant' = instant + 1 /\ UNCHANGED <<entries, prints, taken, excused, repeated>>

DedupNext ==
  \/ \E id \in MessageIds : (\E c \in Contents : SubmitMessage(id, c)) \/ UnregisterMessage(id)
  \/ CleanupExpiredEntries \/ ClearAll \/ Later

-----------------------------------------------------------------------------
DedupTypeOK ==
  /\ Cached \subseteq MessageIds /\ instant \in 0 .. Horizon /\ excused \subseteq Contents
  /\ \A n \in DOMAIN entries : entries[n].fingerprint \in Contents /\ entries[n].at \in 0 .. Horizon

(* No content is taken twice inside its window, unless it was pushed out by  *)
(* a full cache, unregistered, cleared, or its id was registered again with  *)
(* other data; the two maps keep the same ids and stay within the limit      *)
(* (message-deduplication.service.ts 31-110, 182-236).                       *)
DuplicateRefused ==
  /\ ~repeated
  /\ DOMAIN prints = Cached /\ Len(entries) = Cardinality(Cached) /\ Len(entries) <= MaxEntries

-----------------------------------------------------------------------------
(* QueueFaultToleranceService (src/queue) and the monitoring that listens to  *)
(* it: a breaker, the failover targets calls go through one after the other,  *)
(* and the alerts HorizontalScalingMonitoringService raises from their events *)
(* and turns into the health it reports. All in memory; a call waits for its  *)
(* operation and for the delay between two attempts.                          *)

CONSTANTS
  FailCalls, Targets,
  Priority,   \* target -> priority, different for every target
  MaxFailoverAttempts,
  ResetTimeout,   \* circuitBreakerResetTimeoutMs, in ticks
  AlertCap,   \* alerts kept, 1000 in the code
  Day,   \* age at which clearOldAlerts drops an alert
  LastTick   \* bound on the clock

VARIABLES
  hour,         \* the time
  breaker,      \* the breaker's state and when it may be retried
  targets,      \* target -> is it registered, isAvailable
  attempt,      \* call -> what executeWithFailover is doing
  alarms,       \* the alerts, oldest first
  refailed,     \* a call tried a target again that had failed it and nothing had restored
  crowded,      \* alerts have been dropped by the cap
  since         \* the breaker's last opening has neither been acknowledged nor aged out

faultVars == <<hour, breaker, targets, attempt, alarms, refailed, crowded, since>>

Idle == [pc |-> "idle", target |-> None, n |-> 0, failed |-> {}]
NewBreaker == [state |-> "closed", retry |-> 0]
NewTarget == [registered |-> FALSE, available |-> FALSE]
FaultInit ==
  /\ hour = 0 /\ breaker = NewBreaker /\ targets = [t \in Targets |-> NewTarget]
  /\ attempt = [c \in FailCalls |-> Idle] /\ alarms = <<>>
  /\ refailed = FALSE /\ crowded = FALSE /\ since = FALSE

(* createAlert keeps the newest AlertCap alerts. *)
CreateAlerts(new) ==
  LET all == alarms \o [n \in DOMAIN new |-> [level |-> new[n], at |-> hour, acknowledged |-> FALSE]]
      drop == IF Len(all) > AlertCap THEN Len(all) - AlertCap ELSE 0
  IN  /\ alarms' = SubSeq(all, drop + 1, Len(all)) /\ crowded' = (crowded \/ drop > 0)

-----------------------------------------------------------------------------
(* recordFailure sets successCount to 0 before it divides, so the rate of a  *)
(* closed breaker is always 1 and one failure opens it. In an open breaker a *)
(* late failure changes nothing.                                             *)
RecordFailure ==
  /\ IF breaker.state \in {"closed", "half open"}
     THEN /\ breaker' = [state |-> "open", retry |-> hour + ResetTimeout] /\ since' = TRUE
          /\ CreateAlerts(<<"critical">>)
     ELSE UNCHANGED <<breaker, since, alarms, crowded>>
  /\ UNCHANGED <<hour, attempt, targets, refailed>>
\* Mutant: a success closes an open breaker too.
ClosesAnyBreaker ==
  /\ IF breaker.state # "closed" THEN breaker' = [breaker EXCEPT !.state = "closed"] /\ CreateAlerts(<<"info">>)
     ELSE UNCHANGED <<breaker, alarms, crowded>>
  /\ UNCHANGED <<hour, attempt, targets, refailed, since>>
RecordSuccess ==
  /\ IF breaker.state = "half open" THEN breaker' = [breaker EXCEPT !.state = "closed"] /\ CreateAlerts(<<"info">>)
     ELSE UNCHANGED <<breaker, alarms, crowded>>
  /\ UNCHANGED <<hour, attempt, targets, refailed, since>>
IsRequestAllowed ==
  /\ breaker.state = "open" /\ hour >= breaker.retry /\ breaker' = [breaker EXCEPT !.state = "half open"]
  /\ UNCHANGED <<hour, attempt, targets, refailed, alarms, crowded, since>>
ResetCircuitBreaker ==
  /\ breaker' = NewBreaker /\ UNCHANGED <<hour, attempt, targets, refailed, alarms, crowded, since>>

-----------------------------------------------------------------------------
(* A registration makes the target available again. *)
RegisterFailoverTarget(t) ==
  /\ targets' = [targets EXCEPT ![t] = [registered |-> TRUE, available |-> TRUE]]
  /\ attempt' = [c \in FailCalls |-> [attempt[c] EXCEPT !.failed = @ \ {t}]]
  /\ UNCHANGED <<hour, breaker, alarms, refailed, crowded, since>>
UnregisterFailoverTarget(t) ==
  /\ targets[t].registered /\ targets' = [targets EXCEPT ![t] = NewTarget]
  /\ UNCHANGED <<hour, breaker, attempt, alarms, refailed, crowded, since>>
Available == {t \in Targets : targets[t].registered /\ targets[t].available}
GetNextFailoverTarget(t) == t \in Available /\ \A u \in Available : Priority[t] <= Priority[u]
(* The target of the next attempt is looked up when it begins, without a     *)
(* pause before the operation is called.                                     *)
BeginAttempt(c) ==
  /\ attempt[c].pc \in {"idle", "delay"} /\ attempt[c].n < MaxFailoverAttempts
  /\ \E t \in Targets :
       /\ GetNextFailoverTarget(t)
       /\ attempt' = [attempt EXCEPT ![c] = [@ EXCEPT !.pc = "operation", !.target = t, !.n = @ + 1]]
       /\ refailed' = (refailed \/ t \in attempt[c].failed)
  /\ UNCHANGED <<hour, breaker, targets, alarms, crowded, since>>
NoTargetLeft(c) ==
  /\ attempt[c].pc \in {"idle", "delay"} /\ Available = {} /\ attempt' = [attempt EXCEPT ![c] = Idle]
  /\ UNCHANGED <<hour, breaker, targets, alarms, refailed, crowded, since>>
MarkTargetAvailable(c) ==
  LET t == attempt[c].target IN
  /\ attempt[c].pc = "operation"
  /\ targets' = [targets EXCEPT ![t].available = targets[t].registered]
  /\ attempt' = [d \in FailCalls |-> IF d = c THEN Idle ELSE [attempt[d] EXCEPT !.failed = @ \ {t}]]
  /\ UNCHANGED <<hour, breaker, alarms, refailed, crowded, since>>
AfterFailure(c) ==
  IF attempt[c].n < MaxFailoverAttempts THEN [attempt[c] EXCEPT !.pc = "delay", !.target = None, !.failed = @ \cup {attempt[c].target}] ELSE Idle
MarkTargetUnavailable(c) ==
  LET t == attempt[c].target IN
  /\ attempt[c].pc = "operation" /\ attempt' = [attempt EXCEPT ![c] = AfterFailure(c)]
  /\ targets' = [targets EXCEPT ![t].available = FALSE]
  /\ IF targets[t].registered THEN CreateAlerts(<<"warning">>) ELSE UNCHANGED <<alarms, crowded>>
  /\ UNCHANGED <<hour, breaker, refailed, since>>
ExecuteWithFailover(c) == BeginAttempt(c) \/ NoTargetLeft(c) \/ MarkTargetAvailable(c) \/ MarkTargetUnavailable(c)

-----------------------------------------------------------------------------
(* collectMetrics raises what the thresholds ask for: nothing here, or one   *)
(* warning for each part that is over.                                       *)
CheckThresholds ==
  /\ \E over \in 1 .. 2 : CreateAlerts([n \in 1 .. over |-> "warning"])
  /\ UNCHANGED <<hour, breaker, attempt, targets, refailed, since>>
AcknowledgeAlert(n) ==
  /\ n \in DOMAIN alarms /\ alarms' = [alarms EXCEPT ![n].acknowledged = TRUE]
  /\ since' = (since /\ ~(alarms[n].level = "critical" /\ \A m \in DOMAIN alarms : alarms[m].level = "critical" => m <= n))
  /\ UNCHANGED <<hour, breaker, attempt, targets, refailed, crowded>>
ClearOldAlerts ==
  LET kept == SelectSeq(alarms, LAMBDA a : a.at + Day > hour) IN
  /\ alarms' = kept
  /\ since' = (since /\ ~\E n \in DOMAIN alarms : alarms[n].level = "critical" /\ alarms[n].at + Day <= hour)
  /\ UNCHANGED <<hour, breaker, attempt, targets, refailed, crowded>>
HealthStatus ==
  IF \E n \in DOMAIN alarms : alarms[n].level = "critical" /\ ~alarms[n].acknowledged THEN "critical"
  ELSE IF breaker.state = "open" THEN "degraded" ELSE "healthy"
HourPasses == hour < LastTick /\ hour' = hour + 1 /\ UNCHANGED <<breaker, attempt, targets, alarms, refailed, crowded, since>>

FaultNext ==
  \/ RecordFailure \/ RecordSuccess \/ IsRequestAllowed \/ ResetCircuitBreaker
  \/ \E t \in Targets : RegisterFailoverTarget(t) \/ UnregisterFailoverTarget(t)
  \/ \E c \in FailCalls : ExecuteWithFailover(c)
  \/ CheckThresholds \/ (\E n \in 1 .. AlertCap : AcknowledgeAlert(n)) \/ ClearOldAlerts \/ HourPasses

-----------------------------------------------------------------------------
FaultTypeOK ==
  /\ breaker.state \in {"closed", "open", "half open"} /\ Len(alarms) <= AlertCap
  /\ \A c \in FailCalls : attempt[c].n \in 0 .. MaxFailoverAttempts /\ attempt[c].failed \subseteq Targets

(* A call never tries a target again that has failed it, unless another      *)
(* call's success or a registration has restored it meanwhile; and as long   *)
(* as the alerts have not overflowed, health stays critical from an opening  *)
(* of the breaker until that alert is acknowledged or a day old, though the  *)
(* breaker may have closed (queue-fault-tolerance.service.ts 89-125, 246-355,*)
(* horizontal-scaling-monitoring.service.ts 179-288, 367-390).               *)
FailoverMovesOn ==
  /\ ~refailed
  /\ since /\ ~crowded => HealthStatus = "critical"

(* The breaker leaves the open state only for half open, when its time has   *)
(* come, or by a reset; late results of calls do not close it                *)
(* (queue-fault-tolerance.service.ts 70-182).                                *)
OpenUntilRetried ==
  [][breaker.state = "open" /\ breaker' # breaker
       => (breaker'.state = "half open" /\ hour >= breaker.retry) \/ breaker' = NewBreaker]_faultVars

-----------------------------------------------------------------------------
(* Horizontal scaling (src/queue): the worker registry of                    *)
(* QueueWorkerManagerService with its heartbeat check, the scaling decisions *)
(* DynamicScalingService takes for each queue from counts it has read, and   *)
(* the connections QueueLoadBalancerService counts. All in memory; reading a *)
(* queue's counts is the only wait, and any counts may be what it brings.    *)

CONSTANTS
  ScaledQueues, \* queues registered for scaling
  MinWorkers, MaxWorkers,
  UpStep, DownStep,
  UpCooldown, DownCooldown, \* ticks between two decisions of a queue
  WorkerIds,          \* bound: workers ever registered
  MaxTime       \* bound on the clock

VARIABLES
  workers,      \* id -> worker, for the ids in use
  nextId,       \* workerIdCounter
  tick,         \* the time
  decided,      \* per queue: when it last scaled and which way
  events,       \* the last scaling event: what it says and what was there
  connections,  \* workers the balancer counts connections for
  outside       \* workers have been registered by a route, or revived

workerVars == <<workers, nextId, tick, decided, events, connections, outside>>

WorkerStatus == {"active", "idle", "busy", "unhealthy"}
NewWorker == [status |-> "active", fresh |-> TRUE] \* fresh: a heartbeat within the timeout
NoEvent == [type |-> "none", previous |-> 0, said |-> 0, now |-> 0]
\* What a queue's counts say: over the depth threshold, slow or failing jobs, under the threshold to scale down.
Signals == {"deep", "strained", "quiet", "quiet and strained", "calm"}

WorkerInit ==
  /\ workers = <<>> /\ nextId = 0 /\ tick = 0
  /\ decided = [q \in ScaledQueues |-> [at |-> 0, ever |-> FALSE, way |-> "none"]]
  /\ events = NoEvent /\ connections = {} /\ outside = FALSE

Active(ws) == {i \in DOMAIN ws : ws[i].status \in {"active", "idle", "busy"}}
GetActiveWorkersCount(ws) == Cardinality(Active(ws))
Least(a, b) == IF a <= b THEN a ELSE b
Most(a, b) == IF a >= b THEN a ELSE b
Lowest(S, n) == {i \in S : Cardinality({k \in S : k < i}) < n}
Only(S) == [i \in S |-> workers[i]]
Update(i, w) == workers' = [workers EXCEPT ![i] = w]

-----------------------------------------------------------------------------
(* registerWorker. Ids are numbered and never used again. *)
Registered(n) ==
  [i \in DOMAIN workers \cup (nextId + 1 .. nextId + n) |-> IF i \in DOMAIN workers THEN workers[i] ELSE NewWorker]
RegisterWorker ==
  /\ nextId < WorkerIds /\ nextId' = nextId + 1 /\ workers' = Registered(1) /\ outside' = TRUE
  /\ UNCHANGED <<tick, decided, events, connections>>
UnregisterWorker(i) ==
  /\ i \in DOMAIN workers /\ workers' = Only(DOMAIN workers \ {i})
  /\ UNCHANGED <<nextId, tick, decided, events, connections, outside>>
(* A heartbeat moves the time only: an unhealthy worker stays unhealthy. *)
UpdateWorkerHeartbeat(i) ==
  /\ i \in DOMAIN workers /\ Update(i, [workers[i] EXCEPT !.fresh = TRUE])
  /\ UNCHANGED <<nextId, tick, decided, events, connections, outside>>
(* A report of the load sets the status, whatever it was. *)
UpdateWorkerLoad(i, status) ==
  /\ i \in DOMAIN workers /\ Update(i, [workers[i] EXCEPT !.status = status])
  /\ outside' = (outside \/ workers[i].status = "unhealthy")
  /\ UNCHANGED <<nextId, tick, decided, events, connections>>
CheckWorkerHealth ==
  /\ workers' = [i \in DOMAIN workers |-> IF workers[i].fresh THEN workers[i]
                                          ELSE [workers[i] EXCEPT !.status = "unhealthy"]]
  /\ UNCHANGED <<nextId, tick, decided, events, connections, outside>>

-----------------------------------------------------------------------------
(* scaleUp and scaleDown run without a pause. Down, only idle workers go,    *)
(* and the event counts the ones that should have gone. A negative number to *)
(* remove makes slice take all idle workers but that many from the end.      *)
ScaleUp(count) ==
  LET n == GetActiveWorkersCount(workers) new == Least(n + count, MaxWorkers) added == Most(0, new - n)
  IN  /\ nextId + added <= WorkerIds /\ nextId' = nextId + added /\ workers' = Registered(added)
      /\ events' = [type |-> "scale-up", previous |-> n, said |-> new, now |-> n + added]
ScaleDown(count) ==
  LET n == GetActiveWorkersCount(workers) new == Most(n - count, MinWorkers)
      idle == {i \in DOMAIN workers : workers[i].status = "idle"}
      gone == Lowest(idle, IF n >= new THEN n - new ELSE Most(0, Cardinality(idle) - (new - n)))
  IN  /\ workers' = Only(DOMAIN workers \ gone) /\ UNCHANGED nextId
      /\ events' = [type |-> "scale-down", previous |-> n, said |-> new, now |-> n - Cardinality(gone)]

(* autoScaleAll, once a queue's counts have arrived; when reading them fails *)
(* nothing happens. Scaling down overrides scaling up; strained but not deep *)
(* is up by nothing.                                                         *)
MakeScalingDecision(signal) ==
  LET n == GetActiveWorkersCount(workers) IN
  IF signal \in {"quiet", "quiet and strained"} /\ n > MinWorkers THEN [way |-> "down", target |-> Most(n - DownStep, MinWorkers)]
  ELSE IF signal = "deep" THEN [way |-> "up", target |-> Least(n + UpStep, MaxWorkers)]
  ELSE IF signal \in {"strained", "quiet and strained"} THEN [way |-> "up", target |-> Least(n, MaxWorkers)]
  ELSE [way |-> "none", target |-> n]
Cooling(q, way) ==
  decided[q].ever /\ tick - decided[q].at < (IF way = "up" THEN UpCooldown ELSE DownCooldown)
ExecuteScalingDecision(q, signal) ==
  LET d == MakeScalingDecision(signal) n == GetActiveWorkersCount(workers) IN
  /\ d.way # "none" /\ ~Cooling(q, d.way)
  /\ IF d.way = "up" THEN ScaleUp(d.target - n) ELSE ScaleDown(n - d.target)
  /\ decided' = [decided EXCEPT ![q] = [at |-> tick, ever |-> TRUE, way |-> d.way]]
  /\ UNCHANGED <<tick, connections, outside>>
(* The routes scale by a count, whatever has been decided. *)
ScaleEndpoints ==
  /\ \E count \in {1, 2} : ScaleUp(count) \/ ScaleDown(count)
  /\ UNCHANGED <<tick, decided, connections, outside>>

-----------------------------------------------------------------------------
(* The balancer picks among active and idle workers, by a strategy that      *)
(* leaves the choice open here, and counts connections; it never forgets the *)
(* count of a worker that has gone.                                          *)
SelectWorker(i) == i \in DOMAIN workers /\ workers[i].status \in {"active", "idle"}
RecordConnection(i) ==
  /\ SelectWorker(i) /\ connections' = connections \cup {i}
  /\ UNCHANGED <<workers, nextId, tick, decided, events, outside>>
ReleaseConnection(i) ==
  /\ connections' = connections \ {i}
  /\ UNCHANGED <<workers, nextId, tick, decided, events, outside>>
ResetConnectionCounts ==
  /\ connections' = {}
  /\ UNCHANGED <<workers, nextId, tick, decided, events, outside>>

(* A tick is longer than the heartbeat timeout. *)
Tick ==
  /\ tick < MaxTime /\ tick' = tick + 1
  /\ workers' = [i \in DOMAIN workers |-> [workers[i] EXCEPT !.fresh = FALSE]]
  /\ UNCHANGED <<nextId, decided, events, connections, outside>>

WorkerEndpoints ==
  \/ RegisterWorker \/ (\E i \in 1 .. WorkerIds : UnregisterWorker(i) \/ UpdateWorkerHeartbeat(i))
LoadReports ==
  \E i \in 1 .. WorkerIds : \E status \in {"idle", "active", "busy"} : UpdateWorkerLoad(i, status)

WorkerNext ==
  \/ WorkerEndpoints \/ LoadReports \/ CheckWorkerHealth \/ ScaleEndpoints \/ Tick
  \/ \E q \in ScaledQueues, signal \in Signals : ExecuteScalingDecision(q, signal)
  \/ \E i \in 1 .. WorkerIds : RecordConnection(i) \/ ReleaseConnection(i)
  \/ ResetConnectionCounts

-----------------------------------------------------------------------------
WorkerTypeOK ==
  /\ \A i \in DOMAIN workers : i \in 1 .. nextId /\ workers[i].status \in WorkerStatus
  /\ nextId <= WorkerIds /\ connections \subseteq 1 .. WorkerIds

(* The automatic pool keeps its bounds: unless workers were registered by a  *)
(* route or came back from unhealthy, never more than MaxWorkers are counted,*)
(* whatever the queues and the routes decide; and no scale-down              *)
(* takes the pool below MinWorkers or removes more than it reports, although *)
(* it may remove fewer (worker-manager 268-355, dynamic-scaling 160-298).    *)
PoolWithinBounds ==
  /\ ~outside => GetActiveWorkersCount(workers) <= MaxWorkers
  /\ events.type = "scale-down" => events.now >= events.said \/ events.previous < MinWorkers
  /\ events.type = "scale-down" /\ events.previous >= MinWorkers => events.now >= MinWorkers

(* Two decisions of one queue that scaled are a cooldown apart, the second   *)
(* one's (dynamic-scaling 256-292).                                          *)
CooldownKept ==
  [][\A q \in ScaledQueues : decided'[q] # decided[q] /\ decided[q].ever
       => tick - decided[q].at >= (IF decided'[q].way = "up" THEN UpCooldown ELSE DownCooldown)]_workerVars
=============================================================================
