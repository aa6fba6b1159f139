---------------------------- MODULE Resilience ----------------------------
(* What src/common/services offers against failing calls: bulkheads,     *)
(* sagas, and retries with breakers and dead letters. The three share no *)
(* state.                                                                *)
EXTENDS Integers, Sequences, FiniteSets, SequencesExt

(* BulkheadService (src/common/services/bulkhead.service.ts): a limiter and a  *)
(* metrics object per registered name. Calls keep the limiter and the metrics  *)
(* they started with, so removing and re-creating a bulkhead leaves the old    *)
(* generation running beside the new one. A call that runs out of time frees   *)
(* its slot while its function runs on. maxQueueSize is read nowhere.          *)

CONSTANTS
  Callers,        \* requests
  MaxConcurrent,
  Generations     \* bound: how often the bulkhead is created

VARIABLES
  gen,        \* the number of bulkheads created under the name
  present,    \* the name is registered
  bulkheadCall,       \* per request: where it is and in which generation
  metrics,    \* per generation
  wasReset    \* history: generations whose metrics were reset while calls were in them
bulkheadVars == <<gen, present, bulkheadCall, metrics, wasReset>>

Fresh == [current |-> 0, queued |-> 0, requests |-> 0, rejected |-> 0, ok |-> 0, failed |-> 0]
In(g, pc) == {c \in Callers : bulkheadCall[c].gen = g /\ bulkheadCall[c].pc = pc}

BulkheadInit ==
  /\ gen = 0 /\ present = FALSE /\ bulkheadCall = [c \in Callers |-> [pc |-> "new", gen |-> 0]]
  /\ metrics = [g \in 1 .. Generations |-> Fresh] /\ wasReset = {}

CreateBulkhead ==
  /\ ~present /\ gen < Generations /\ gen' = gen + 1 /\ present' = TRUE
  /\ UNCHANGED <<bulkheadCall, metrics, wasReset>>
RemoveBulkhead ==
  /\ present /\ present' = FALSE /\ UNCHANGED <<gen, bulkheadCall, metrics, wasReset>>

Move(c, pc) == bulkheadCall' = [bulkheadCall EXCEPT ![c].pc = pc]

(* Without a bulkhead of the name the function runs unprotected. *)
Execute(c) ==
  /\ bulkheadCall[c].pc = "new"
  /\ IF present
     THEN /\ bulkheadCall' = [bulkheadCall EXCEPT ![c] = [pc |-> "queued", gen |-> gen]]
          /\ metrics' = [metrics EXCEPT ![gen].requests = @ + 1, ![gen].queued = @ + 1]
     ELSE Move(c, "direct") /\ UNCHANGED metrics
  /\ UNCHANGED <<gen, present, wasReset>>

(* p-limit starts a queued function when one of its slots is free. *)
Limiter(c) ==
  LET g == bulkheadCall[c].gen IN
  /\ bulkheadCall[c].pc = "queued" /\ Cardinality(In(g, "running")) < MaxConcurrent
  /\ Move(c, "running")
  /\ metrics' = [metrics EXCEPT ![g].queued = @ - 1, ![g].current = @ + 1]
  /\ UNCHANGED <<gen, present, wasReset>>

Succeed(c) ==
  LET g == bulkheadCall[c].gen IN
  /\ bulkheadCall[c].pc = "running" /\ Move(c, "done")
  /\ metrics' = [metrics EXCEPT ![g].ok = @ + 1, ![g].current = @ - 1]
  /\ UNCHANGED <<gen, present, wasReset>>
\* Mutant: a failed call keeps its slot.
RejectedLeaky(m) == [m EXCEPT !.failed = @ + 1, !.rejected = @ + 1]
Rejected(m) == [m EXCEPT !.failed = @ + 1, !.current = @ - 1, !.rejected = @ + 1]
\* Mutant: the timeout leaves the call in its slot.
NeverTimesOut(c, timeout) ==
  /\ bulkheadCall[c].pc = "running" /\ timeout /\ UNCHANGED bulkheadVars
Fail(c, timeout) ==
  LET g == bulkheadCall[c].gen IN
  /\ bulkheadCall[c].pc = "running" /\ Move(c, IF timeout THEN "abandoned" ELSE "done")
  /\ metrics' = [metrics EXCEPT ![g] = Rejected(@)]
  /\ UNCHANGED <<gen, present, wasReset>>
FnEnds(c) ==
  /\ bulkheadCall[c].pc \in {"abandoned", "direct"} /\ Move(c, "done")
  /\ UNCHANGED <<gen, present, metrics, wasReset>>

ResetMetrics ==
  /\ present /\ metrics[gen] # Fresh /\ metrics' = [metrics EXCEPT ![gen] = Fresh]
  /\ wasReset' = IF In(gen, "queued") \cup In(gen, "running") = {} THEN wasReset ELSE wasReset \cup {gen}
  /\ UNCHANGED <<gen, present, bulkheadCall>>

BulkheadNext ==
  \/ CreateBulkhead \/ RemoveBulkhead \/ ResetMetrics
  \/ \E c \in Callers : \/ Execute(c) \/ Limiter(c) \/ Succeed(c) \/ FnEnds(c)
                        \/ \E t \in BOOLEAN : Fail(c, t)

(* The timer of createTimeoutPromise fires; p-limit starts what it can. *)
BulkheadFairness == \A c \in Callers : WF_bulkheadVars(Limiter(c)) /\ WF_bulkheadVars(Fail(c, TRUE))

-----------------------------------------------------------------------------
BulkheadTypeOK ==
  /\ gen \in 0 .. Generations /\ present \in BOOLEAN /\ wasReset \subseteq 1 .. Generations
  /\ bulkheadCall \in [Callers -> [pc : {"new", "queued", "running", "direct", "abandoned", "done"}, gen : 0 .. Generations]]
  /\ \A g \in 1 .. Generations : metrics[g].requests \in Nat /\ metrics[g].current \in Int

(* The metrics of a bulkhead agree with the calls in it, those of a removed  *)
(* one too: nothing leaks when calls fail, run out of time or outlive the    *)
(* registration, unless the metrics were reset under running calls, after    *)
(* which the counters go below zero (execute 94-140, resetMetrics 167-178).  *)
MetricsMatchCalls ==
  \A g \in 1 .. Generations : g \notin wasReset =>
    /\ metrics[g].current = Cardinality(In(g, "running")) /\ metrics[g].queued = Cardinality(In(g, "queued"))
    /\ metrics[g].rejected = metrics[g].failed
    /\ metrics[g].requests >= metrics[g].current + metrics[g].queued + metrics[g].ok + metrics[g].failed

(* No more functions run at once than MaxConcurrent, not counting the ones    *)
(* given up by the timeout, the unprotected ones and those of a bulkhead that *)
(* has since been removed and created again.                                  *)
Compartment ==
  LET busy == {c \in Callers : bulkheadCall[c].pc \in {"running", "abandoned", "direct"}}
      strays == {c \in busy : bulkheadCall[c].pc # "running" \/ bulkheadCall[c].gen # gen}
  IN Cardinality(busy) <= MaxConcurrent + Cardinality(strays)

(* A call that waits in a bulkhead is started, although the functions before  *)
(* it may hang: each of them is given up after the timeout (111-114).         *)
QueuedCallStarts == \A c \in Callers : bulkheadCall[c].pc = "queued" ~> bulkheadCall[c].pc # "queued"

-----------------------------------------------------------------------------
(* executeSaga and executeParallelSteps (src/common/services/saga.service.ts): *)
(* the steps of one saga, their time limits, and the compensation of the ones  *)
(* before the failed one. A step that runs out of time is abandoned, not       *)
(* stopped: its effect may still come, even after the compensation.            *)

CONSTANTS
  SagaLast,         \* number of steps
  Compensable   \* steps with a compensation

Steps == 1 .. SagaLast

VARIABLES
  sagaMode,     \* "none", "sequential" or "parallel"
  sagaPhase,    \* "run", "compensate" or "ended"
  cursor,       \* the step that runs, or is compensated
  step,         \* what executeWithTimeout has made of a step's action
  pending,      \* actions and compensations abandoned by a timeout, still running
  effect,       \* a step's actions that took effect, less its compensations that did
  compensated,  \* compensatedSteps
  failedUndo    \* history: a compensation failed or ran out of time
sagaVars == <<sagaMode, sagaPhase, cursor, step, pending, effect, compensated, failedUndo>>

SagaInit ==
  /\ sagaMode = "none" /\ sagaPhase = "run" /\ cursor = 0 /\ step = [i \in Steps |-> "waiting"]
  /\ pending = {} /\ effect = [i \in Steps |-> 0] /\ compensated = <<>> /\ failedUndo = FALSE

ExecuteSaga ==
  /\ sagaMode = "none" /\ sagaMode' = "sequential" /\ cursor' = 1
  /\ step' = [step EXCEPT ![1] = "running"]
  /\ UNCHANGED <<sagaPhase, pending, effect, compensated, failedUndo>>
ExecuteParallelSteps ==
  /\ sagaMode = "none" /\ sagaMode' = "parallel" /\ step' = [i \in Steps |-> "running"]
  /\ UNCHANGED <<sagaPhase, cursor, pending, effect, compensated, failedUndo>>

(* The loop goes on to the next step, ends, or starts compensating from the  *)
(* step before the failed one; Promise.all waits for every step, and then    *)
(* all of them are compensated, the failed ones too.                         *)
Advance(i, result) ==
  LET now == [step EXCEPT ![i] = result] IN
  IF sagaMode = "sequential" THEN
    IF result = "done" THEN
      /\ sagaPhase' = IF i = SagaLast THEN "ended" ELSE "run"
      /\ cursor' = i + 1
      /\ step' = [j \in Steps |-> IF j = i + 1 THEN "running" ELSE now[j]]
    ELSE step' = now /\ sagaPhase' = "compensate" /\ cursor' = i - 1
  ELSE
    /\ step' = now /\ cursor' = SagaLast
    /\ sagaPhase' = IF \E j \in Steps : now[j] = "running" THEN "run"
                    ELSE IF \A j \in Steps : now[j] = "done" THEN "ended" ELSE "compensate"
(* An action that throws may have had its effect before. *)
ActionSettles(i, result, takes) ==
  /\ sagaPhase = "run" /\ step[i] = "running" /\ Advance(i, result)
  /\ result = "done" => takes
  /\ effect' = IF takes THEN [effect EXCEPT ![i] = @ + 1] ELSE effect
  /\ UNCHANGED <<sagaMode, pending, compensated, failedUndo>>
ActionTimesOut(i) ==
  /\ sagaPhase = "run" /\ step[i] = "running" /\ Advance(i, "late")
  /\ pending' = pending \cup {<<i, 1>>}
  /\ UNCHANGED <<sagaMode, effect, compensated, failedUndo>>

(* What was abandoned ends after all, with or without its effect. *)
LateEffect(p, takes) ==
  /\ p \in pending /\ pending' = pending \ {p}
  /\ effect' = IF takes THEN [effect EXCEPT ![p[1]] = @ + p[2]] ELSE effect
  /\ UNCHANGED <<sagaMode, sagaPhase, cursor, step, compensated, failedUndo>>

\* Mutant: the compensation loop steps past its end.
FollowingByTwo(i) == i - 2
Following(i) == i - 1
Compensate(i, result) ==
  /\ sagaPhase = "compensate" /\ cursor = i
  /\ IF i = 0 THEN sagaPhase' = "ended" /\ UNCHANGED <<cursor, pending, effect, compensated, failedUndo>>
     ELSE
       /\ cursor' = Following(i) /\ UNCHANGED sagaPhase
       /\ IF i \notin Compensable THEN UNCHANGED <<pending, effect, compensated, failedUndo>>
          ELSE
            /\ effect' = IF result = "done" THEN [effect EXCEPT ![i] = @ - 1] ELSE effect
            /\ compensated' = IF result = "done" THEN Append(compensated, i) ELSE compensated
            /\ pending' = IF result = "late" THEN pending \cup {<<i, -1>>} ELSE pending
            /\ failedUndo' = (failedUndo \/ result # "done")
  /\ UNCHANGED <<sagaMode, step>>

SagaNext ==
  \/ ExecuteSaga \/ ExecuteParallelSteps
  \/ \E i \in Steps : \/ \E r \in {"done", "failed"}, b \in BOOLEAN : ActionSettles(i, r, b)
                      \/ ActionTimesOut(i)
  \/ \E p \in pending, b \in BOOLEAN : LateEffect(p, b)
  \/ \E i \in 0 .. SagaLast, r \in {"done", "failed", "late"} : Compensate(i, r)

(* Timers fire: a running action is at least timed out, and the loop of     *)
(* compensate takes its next turn.                                          *)
SagaFairness ==
  /\ \A i \in Steps : WF_sagaVars(ActionTimesOut(i))
  /\ \A i \in 0 .. SagaLast : WF_sagaVars(\E r \in {"done", "failed", "late"} : Compensate(i, r))

-----------------------------------------------------------------------------
SagaTypeOK ==
  /\ sagaMode \in {"none", "sequential", "parallel"} /\ sagaPhase \in {"run", "compensate", "ended"}
  /\ cursor \in 0 .. SagaLast + 1 /\ step \in [Steps -> {"waiting", "running", "done", "failed", "late"}]
  /\ pending \subseteq Steps \X {-1, 1} /\ effect \in [Steps -> {-1, 0, 1}]

Failed == sagaPhase = "ended" /\ \E i \in Steps : step[i] # "done"
FailedStep == CHOOSE i \in Steps : step[i] \in {"failed", "late"}

(* A sequential saga that has failed leaves no effect of a compensable step  *)
(* behind and undoes none that never happened, as far as the compensations   *)
(* worked. What it may leave is the effect of the step it failed at, which   *)
(* is not compensated: it came before the throw or after the time limit      *)
(* (62-103).                                                                 *)
FailedSagaIsUndone ==
  Failed /\ sagaMode = "sequential" /\ ~failedUndo =>
    \A i \in Compensable : effect[i] = 0 \/ (i = FailedStep /\ effect[i] = 1)

(* Compensations run in reverse order of the steps, each at most once, and  *)
(* never beside an action that has not been given up (177-189, 245-270).    *)
UndoneInReverse ==
  /\ \A a, b \in DOMAIN compensated : a < b => compensated[a] > compensated[b]
  /\ sagaPhase = "compensate" => \A i \in Steps : step[i] # "running"

(* A saga that has been started ends, whatever its actions and its           *)
(* compensations do: both run under executeWithTimeout (280-293).            *)
EverySagaEnds == sagaMode # "none" ~> sagaPhase = "ended"

-----------------------------------------------------------------------------
(* The error-handling services of src/common/services, put together as         *)
(* src/common/examples/error-handling-examples.ts does: requests are retried   *)
(* around a circuit breaker, jobs are retried and then kept as dead letters,   *)
(* which an operator may run again. The breaker itself is opossum's. The       *)
(* recovery cron looks for open breakers in metrics whose state nothing        *)
(* updates; a dead letter is taken out at the index it had before its retry.   *)

CONSTANTS Requests, Jobs, MaxRetries, MaxBoxes, None

VARIABLES
  calls,        \* per request or job: the state of retryWithPolicy
  circuit,      \* opossum's state; probing: the call a half-open breaker let through
  openedAt,     \* metrics.openedAt is set
  box, boxes,   \* the messages of the queue, and how often that array was replaced
  again,        \* per job: the retry of its letter under way, or None
  discarded, redone, doubled   \* history: letters dropped on purpose, run again, and whether two retries overlapped
errorVars == <<calls, circuit, openedAt, box, boxes, again, discarded, redone, doubled>>

ErrorCallers == Requests \cup Jobs
ErrorFresh == [pc |-> "new", attempts |-> 1, errors |-> 0, strays |-> 0]
ErrorInit ==
  /\ calls = [c \in ErrorCallers |-> ErrorFresh] /\ circuit = [state |-> "closed", probing |-> None] /\ openedAt = FALSE
  /\ box = <<>> /\ boxes = 0 /\ again = [j \in Jobs |-> None] /\ discarded = {} /\ redone = {} /\ doubled = FALSE

letterVars == <<box, boxes, again, discarded, redone, doubled>>
Rejects == circuit.state = "open" \/ (circuit.state = "halfOpen" /\ circuit.probing # None)

(* One attempt starts. Requests go through the breaker, which may refuse. *)
Attempt(c) ==
  /\ calls[c].pc \in {"new", "waiting"} /\ ~(c \in Requests /\ Rejects)
  /\ calls' = [calls EXCEPT ![c].pc = "running"]
  /\ circuit' = IF c \in Requests /\ circuit.state = "halfOpen" THEN [circuit EXCEPT !.probing = c] ELSE circuit
  /\ UNCHANGED <<openedAt, letterVars>>
Succeeds(c) ==
  /\ calls[c].pc = "running" /\ calls' = [calls EXCEPT ![c].pc = "done"]
  /\ IF circuit.probing = c
     THEN circuit' = [state |-> "closed", probing |-> None] /\ openedAt' = FALSE
     ELSE UNCHANGED <<circuit, openedAt>>
  /\ UNCHANGED letterVars

ShouldRetry(call, retryable) == call.attempts <= MaxRetries /\ retryable
AfterError(call, retryable, stray) ==
  LET failed == [call EXCEPT !.errors = @ + 1, !.strays = IF stray THEN @ + 1 ELSE @] IN
  IF ShouldRetry(call, retryable)
  THEN [failed EXCEPT !.pc = "waiting", !.attempts = @ + 1]
  ELSE [failed EXCEPT !.pc = "failed"]
(* sendToDLQ, for jobs. *)
Kept(c, after) == IF c \in Jobs /\ after.pc = "failed" THEN Append(box, c) ELSE box
(* The attempt throws, or the breaker's timer gives it up while it runs on.   *)
(* The error counts against the breaker, which may open.                      *)
Fails(c, retryable, stray, opens) ==
  LET after == AfterError(calls[c], retryable, stray)
      trips == circuit.probing = c \/ (opens /\ circuit.state = "closed")
  IN
  /\ calls[c].pc = "running" /\ (c \in Jobs => ~stray /\ ~opens)
  /\ calls' = [calls EXCEPT ![c] = after]
  /\ circuit' = IF trips THEN [state |-> "open", probing |-> None] ELSE circuit
  /\ openedAt' = (openedAt \/ trips) /\ box' = Kept(c, after)
  /\ UNCHANGED <<boxes, again, discarded, redone, doubled>>
Refused(c, retryable) ==
  /\ calls[c].pc \in {"new", "waiting"} /\ c \in Requests /\ Rejects
  /\ calls' = [calls EXCEPT ![c] = AfterError(@, retryable, FALSE)]
  /\ UNCHANGED <<circuit, openedAt, letterVars>>
StrayEnds(c) ==
  /\ calls[c].strays > 0 /\ calls' = [calls EXCEPT ![c].strays = @ - 1]
  /\ UNCHANGED <<circuit, openedAt, letterVars>>

(* opossum's own timer. *)
HalfOpen ==
  /\ circuit.state = "open" /\ circuit' = [state |-> "halfOpen", probing |-> None]
  /\ UNCHANGED <<calls, openedAt, letterVars>>
(* createEmptyMetrics sets the state, and nothing changes it. *)
MetricsState == "closed"
(* Only an operator resets an open breaker: the cron finds none. *)
Reset(cron) ==
  /\ circuit.state # "closed" /\ (cron => MetricsState # "closed" /\ circuit.state = "open" /\ openedAt)
  /\ circuit' = [state |-> "closed", probing |-> None] /\ openedAt' = FALSE
  /\ UNCHANGED <<calls, letterVars>>

RetryDLQMessage(j, i) ==
  /\ i \in DOMAIN box /\ box[i] = j /\ again[j] = None
  /\ again' = [again EXCEPT ![j] = [index |-> i, box |-> boxes]]
  /\ doubled' = (doubled \/ \E k \in Jobs : again[k] # None)
  /\ UNCHANGED <<calls, circuit, openedAt, box, boxes, discarded, redone>>
Spliced(i) == IF i \in DOMAIN box THEN RemoveAt(box, i) ELSE box
(* The splice is made in the array found before the retry. *)
Retried(j, ok) ==
  /\ again[j] # None /\ again' = [again EXCEPT ![j] = None]
  /\ box' = IF ok /\ again[j].box = boxes THEN Spliced(again[j].index) ELSE box
  /\ redone' = IF ok THEN redone \cup {j} ELSE redone
  /\ UNCHANGED <<calls, circuit, openedAt, boxes, discarded, doubled>>
(* cleanupOldMessages keeps the recent ones in a new array; clearDLQ and a     *)
(* second registerDLQ keep none.                                               *)
CleanupOldMessages(n) ==
  /\ boxes < MaxBoxes /\ boxes' = boxes + 1 /\ n \in 1 .. Len(box)
  /\ box' = SubSeq(box, n + 1, Len(box)) /\ discarded' = discarded \cup {box[i] : i \in 1 .. n}
  /\ UNCHANGED <<calls, circuit, openedAt, again, redone, doubled>>

ErrorNext ==
  \/ HalfOpen \/ \E cron \in BOOLEAN : Reset(cron)
  \/ \E c \in ErrorCallers : \/ Attempt(c) \/ Succeeds(c) \/ StrayEnds(c)
                             \/ \E r, s, o \in BOOLEAN : Fails(c, r, s, o)
                             \/ \E r \in BOOLEAN : Refused(c, r)
  \/ \E j \in Jobs : \/ \E i \in 1 .. 3 : RetryDLQMessage(j, i)
                     \/ \E ok \in BOOLEAN : Retried(j, ok)
  \/ \E n \in 1 .. 3 : CleanupOldMessages(n)

-----------------------------------------------------------------------------
ErrorTypeOK ==
  /\ \A c \in ErrorCallers : calls[c].pc \in {"new", "running", "waiting", "done", "failed"}
  /\ circuit.state \in {"closed", "open", "halfOpen"} /\ circuit.probing \in ErrorCallers \cup {None} /\ openedAt \in BOOLEAN
  /\ \A i \in DOMAIN box : box[i] \in Jobs

(* A result reports as many attempts as were made, at most MaxRetries more    *)
(* than one, and an attempt runs beside another of the same request only      *)
(* after the breaker's timer has given the first one up (retryWithPolicy      *)
(* 95-156).                                                                   *)
AttemptsCounted ==
  \A c \in ErrorCallers :
    /\ calls[c].attempts <= MaxRetries + 1
    /\ calls[c].attempts = IF calls[c].pc = "failed" THEN calls[c].errors ELSE calls[c].errors + 1
    /\ calls[c].strays <= calls[c].errors

(* A job that failed for good is in the dead-letter queue until an operator   *)
(* has run it again or dropped it, unless two retries were under way at once, *)
(* the second of which then takes out its neighbour (retryDLQMessage          *)
(* 190-209).                                                                  *)
DeadLetterKept ==
  \A j \in Jobs : calls[j].pc = "failed" /\ ~doubled /\ j \notin discarded \cup redone =>
    \E i \in DOMAIN box : box[i] = j
=============================================================================
