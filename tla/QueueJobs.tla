------------------------------ MODULE QueueJobs ------------------------------
(***************************************************************************)
(* The swaps and emails queues (src/queue): QueueService enqueues jobs,    *)
(* SwapJobProcessor and EmailJobProcessor run them under idempotency keys  *)
(* in Redis, and DeadLetterQueueService keeps those that have failed for   *)
(* good.  Bull is external: it hands a waiting job to one worker, retries  *)
(* a failed attempt, and gives a job whose lock was not renewed to another *)
(* worker once, while the first may still be running it.                   *)
(***************************************************************************)
EXTENDS Integers, Sequences, FiniteSets, Functions

CONSTANTS
  NJobs,      \* bound on the jobs that are ever enqueued
  Workers,    \* processing slots, on all instances
  Admins,     \* concurrent recoverJob calls
  Payloads,   \* job data: what is enqueued
  Units,      \* what a payload executes: swaps, legs, e-mails; each has one key
  KindOf,     \* payload -> kind of job
  UnitsOf,    \* payload -> its units, in order
  NoPool,     \* units that carry no poolId
  Attempts,   \* opts.attempts
  MaxMade,    \* bound on the attempts a job is observed to make
  Scenarios,  \* the payloads an execution is given, and the faults it may meet
  None        \* no worker, no job

Jobs  == 1..NJobs
Faults == {"throw", "late", "redis", "crash", "stall", "expiry"}
Kinds == {"single", "multi_leg", "batch", "email"}

ASSUME PayloadAssumption ==
  /\ KindOf \in [Payloads -> Kinds]
  /\ UnitsOf \in [Payloads -> Seq(Units)]
  /\ \A p \in Payloads : KindOf[p] \in {"single", "email"} => Len(UnitsOf[p]) = 1
  /\ \A p \in Payloads : KindOf[p] = "multi_leg" => IsInjective(UnitsOf[p])
ASSUME BoundAssumption == /\ NJobs \in Nat /\ Attempts \in Nat \ {0}
                          /\ MaxMade \in Nat /\ MaxMade >= Attempts
ASSUME NamesAssumption == None \notin Jobs /\ None \notin Workers /\ None \notin Payloads
ASSUME ScenarioAssumption ==
  Scenarios \subseteq [payloads : SUBSET Payloads, faults : SUBSET Faults]

VARIABLES
  world,     \* the scenario of this execution; never changes
  job,       \* Bull's jobs: payload, state, attempts made, stalls, lock
  run,       \* a worker's attempt: its job, its place, the unit it is at
  keys,      \* idempotency keys held in Redis
  executed,  \* history: the times a unit had its effect, counted up to two
  done,      \* history: units whose execution some attempt got past without an error
  dlq,       \* the dlq:{queueName} hash: ids of jobs
  recover,   \* a recoverJob call
  kept       \* history: ids once in dlq, and what has become of them

vars == <<world, job, run, keys, executed, done, dlq, recover, kept>>

States == {"none", "waiting", "active", "completed", "failed"}
PCs    == {"idle", "start", "claim", "execute", "progress", "release", "end",
           "complete", "fail", "onfailed"}

NoJob == [payload |-> None, state |-> "none", made |-> 0, stalled |-> FALSE,
          lock |-> None, named |-> TRUE]
NoRun == [job |-> None, pc |-> "idle", idx |-> 0, failures |-> FALSE]
NoRecovery == [job |-> None, pc |-> "idle"]

Init ==
  /\ world \in Scenarios
  /\ job = [j \in Jobs |-> NoJob]
  /\ run = [w \in Workers |-> NoRun]
  /\ keys = {}
  /\ executed = [u \in Units |-> 0]
  /\ done = {}
  /\ dlq = {}
  /\ recover = [a \in Admins |-> NoRecovery]
  /\ kept = [ever |-> {}, requeued |-> {}, discarded |-> {}]

Kind(w)    == KindOf[job[run[w].job].payload]
Us(w)      == UnitsOf[job[run[w].job].payload]
Unit(w)    == Us(w)[run[w].idx]
Goto(w, l) == run' = [run EXCEPT ![w].pc = l]
May(fault) == fault \in world.faults
Redis      == May("redis")

-----------------------------------------------------------------------------
(* QueueService: enqueueing.                                               *)

\* Bull numbers the jobs it is given.
NextId(j) == job[j].payload = None /\ \A i \in 1..(j - 1) : job[i].payload # None

Enqueue(j, p, named) ==
  /\ NextId(j)
  /\ job' = [job EXCEPT ![j] = [payload |-> p, state |-> "waiting", made |-> 0,
                                stalled |-> FALSE, lock |-> None, named |-> named]]

\* addSingleSwapJob, addMultiLegSwapJob, addBatchSwapJob, addEmailJob
Add ==
  \E j \in Jobs, p \in world.payloads :
    /\ \A i \in Jobs : job[i].payload # p
    /\ Enqueue(j, p, TRUE)
    /\ UNCHANGED <<world, run, keys, executed, done, dlq, recover, kept>>

\* retryJob: a failed job is put back; its attempts are not reset.
RetryJob(j) ==
  /\ job[j].state = "failed" /\ job[j].made < MaxMade
  /\ job' = [job EXCEPT ![j].state = "waiting"]
  /\ UNCHANGED <<world, run, keys, executed, done, dlq, recover, kept>>

\* removeJob, of a job no worker has locked
RemoveJob(j) ==
  /\ job[j].state \in {"waiting", "failed", "completed"}
  /\ job' = [job EXCEPT ![j].state = "none"]
  /\ UNCHANGED <<world, run, keys, executed, done, dlq, recover, kept>>

-----------------------------------------------------------------------------
(* Bull.                                                                   *)

\* A process handler exists for the job's name: every swap handler is named,
\* the e-mail handler is the default one.
HasHandler(j) == KindOf[job[j].payload] = "email" \/ job[j].named

Take(w) ==
  \E j \in Jobs :
    /\ run[w].pc = "idle" /\ job[j].state = "waiting"
    /\ job' = [job EXCEPT ![j].state = "active", ![j].lock = w]
    /\ run' = [run EXCEPT ![w] = [job |-> j, idx |-> 1, failures |-> FALSE,
                                  pc |-> IF HasHandler(j) THEN "start" ELSE "fail"]]
    /\ UNCHANGED <<world, keys, executed, done, dlq, recover, kept>>

\* moveToCompleted: refused when the lock is lost.
Complete(w) ==
  /\ run[w].pc = "complete"
  /\ job' = IF job[run[w].job].lock = w
            THEN [job EXCEPT ![run[w].job].state = "completed", ![run[w].job].lock = None]
            ELSE job
  /\ run' = [run EXCEPT ![w] = NoRun]
  /\ UNCHANGED <<world, keys, executed, done, dlq, recover, kept>>

\* moveToFailed: another attempt while any is left, else "failed"; either way
\* the failed event is emitted.  Refused when the lock is lost.
Fail(w) ==
  LET j    == run[w].job
      made == job[j].made + 1
  IN
  /\ run[w].pc = "fail"
  /\ IF job[j].lock = w
       THEN /\ job' = [job EXCEPT ![j].made = made, ![j].lock = None,
                         ![j].state = IF made < Attempts THEN "waiting" ELSE "failed"]
            /\ Goto(w, "onfailed")
       ELSE /\ run' = [run EXCEPT ![w] = NoRun] /\ UNCHANGED job
  /\ UNCHANGED <<world, keys, executed, done, dlq, recover, kept>>

\* The lock was not renewed (the worker is dead, or too busy to renew it): the
\* job waits again, or fails when it has stalled before (maxStalledCount = 1).
\* That failure is emitted too, but onFailed sees attempts left.
Stall(j) ==
  /\ job[j].state = "active"
  /\ May("stall") \/ job[j].lock = None
  /\ job' = [job EXCEPT ![j].lock = None, ![j].stalled = TRUE,
                        ![j].state = IF ~job[j].stalled THEN "waiting" ELSE "failed"]
  /\ UNCHANGED <<world, run, keys, executed, done, dlq, recover, kept>>

\* A process dies in the middle of an attempt.
Crash(w) ==
  /\ May("crash") /\ run[w].pc # "idle"
  /\ job' = [j \in Jobs |-> IF job[j].lock = w THEN [job[j] EXCEPT !.lock = None]
                                               ELSE job[j]]
  /\ run' = [run EXCEPT ![w] = NoRun]
  /\ UNCHANGED <<world, keys, executed, done, dlq, recover, kept>>

\* The marker's time to live (24 hours, 30 days) has passed.
ExpireKey(u) ==
  /\ May("expiry") /\ u \in keys
  /\ keys' = keys \ {u}
  /\ UNCHANGED <<world, job, run, executed, done, dlq, recover, kept>>

-----------------------------------------------------------------------------
(* SwapJobProcessor and EmailJobProcessor.                                 *)

\* The first job.progress of every handler; a loop over no units ends at once.
Start(w) ==
  /\ run[w].pc = "start"
  /\ Goto(w, IF Len(Us(w)) = 0 THEN "end" ELSE "claim") \/ (Redis /\ Goto(w, "fail"))
  /\ UNCHANGED <<world, job, keys, executed, done, dlq, recover, kept>>

\* Mutant: the loop runs one unit too far.
PastEnd(w, failures, skipped) ==
  run' = [run EXCEPT
    ![w].idx = @ + 1,
    ![w].failures = failures,
    ![w].pc = IF run[w].idx <= Len(Us(w)) THEN "claim" ELSE "end"]

\* Mutant: the loop does not advance.
NeverLast(w, failures, skipped) == Goto(w, "claim")

\* Where an attempt goes when it is done with a unit: to the next one, to the
\* last job.progress or, for an executed single swap, straight to the end.
AfterUnit(w, failures, skipped) ==
  LET last == run[w].idx = Len(Us(w)) IN
  run' = [run EXCEPT
    ![w].idx = IF last THEN @ ELSE @ + 1,
    ![w].failures = failures,
    ![w].pc = IF ~last THEN "claim"
              ELSE IF failures THEN "fail"
              ELSE IF Kind(w) = "single" /\ ~skipped THEN "complete" ELSE "end"]

\* Mutant: the marker is read and set in two steps.
ClaimRacy(u) == TRUE

Unclaimed(u) == u \notin keys

\* claim, claimSend: SET NX EX; a key that is held is taken for an execution.
Claim(w) ==
  /\ run[w].pc = "claim"
  /\ \/ /\ Unclaimed(Unit(w))
        /\ keys' = keys \cup {Unit(w)}
        /\ Goto(w, "execute")
     \/ /\ ~Unclaimed(Unit(w))
        /\ AfterUnit(w, run[w].failures, TRUE)
        /\ UNCHANGED keys
     \/ Redis /\ Goto(w, "fail") /\ UNCHANGED keys
  /\ UNCHANGED <<world, job, executed, done, dlq, recover, kept>>

\* What follows an execution that has not thrown.
Executed == "progress"

HasEffect(u) == executed' = [executed EXCEPT ![u] = IF @ < 2 THEN @ + 1 ELSE @]

\* requirePoolId and executeSwap, or renderTemplate and sendEmail.  It throws
\* before its effect, or after it: LiquidityPoolService.swap has saved the
\* positions and a COMPLETED row when the save of the pool throws, and sendMail
\* rejects when the answer to a delivered message is lost.
Execute(w) ==
  /\ run[w].pc = "execute"
  /\ \/ Unit(w) \notin NoPool /\ HasEffect(Unit(w)) /\ Goto(w, Executed)
     \/ May("late") /\ Unit(w) \notin NoPool /\ HasEffect(Unit(w)) /\ Goto(w, "release")
     \/ (Unit(w) \in NoPool \/ May("throw")) /\ UNCHANGED executed /\ Goto(w, "release")
  /\ UNCHANGED <<world, job, keys, done, dlq, recover, kept>>

\* The job.progress that follows the execution inside the same try block.
Progress(w) ==
  /\ run[w].pc = "progress"
  /\ \/ AfterUnit(w, run[w].failures, FALSE) /\ done' = done \cup {Unit(w)}
     \/ Redis /\ Goto(w, "release") /\ UNCHANGED done
  /\ UNCHANGED <<world, job, keys, executed, dlq, recover, kept>>

Released(u) == keys \ {u}

\* Mutant: a route goes on after a leg that failed.
RoutesGoOn(w) == Kind(w) \in {"batch", "multi_leg"}

GoesOn(w) == Kind(w) = "batch"

\* The catch block: release the key, then rethrow, or in a batch go on.
Release(w) ==
  /\ run[w].pc = "release"
  /\ \/ /\ keys' = Released(Unit(w))
        /\ IF GoesOn(w) THEN AfterUnit(w, TRUE, FALSE) ELSE Goto(w, "fail")
     \/ Redis /\ Goto(w, "fail") /\ UNCHANGED keys
  /\ UNCHANGED <<world, job, executed, done, dlq, recover, kept>>

\* The last job.progress, outside the try block.
End(w) ==
  /\ run[w].pc = "end"
  /\ Goto(w, "complete") \/ (Redis /\ Goto(w, "fail"))
  /\ UNCHANGED <<world, job, keys, executed, done, dlq, recover, kept>>

Permanent(j) == job[j].made >= Attempts

\* onFailed: a permanent failure is stored by addToDLQ.
OnFailed(w) ==
  LET j == run[w].job IN
  /\ run[w].pc = "onfailed"
  /\ \/ /\ Permanent(j)
        /\ dlq' = dlq \cup {j}
        /\ kept' = [kept EXCEPT !.ever = @ \cup {j}]
     \/ /\ ~Permanent(j) \/ Redis
        /\ UNCHANGED <<dlq, kept>>
  /\ run' = [run EXCEPT ![w] = NoRun]
  /\ UNCHANGED <<world, job, keys, executed, done, recover>>

-----------------------------------------------------------------------------
(* DeadLetterQueueService.                                                 *)

RecoverRead(a) ==
  \E j \in dlq :
    /\ recover[a].pc = "idle"
    /\ recover' = [recover EXCEPT ![a] = [job |-> j, pc |-> "add"]]
    /\ UNCHANGED <<world, job, run, keys, executed, done, dlq, kept>>

\* queue.add(jobData, options): no name is given.
RecoverAdd(a) ==
  LET old == recover[a].job IN
  /\ recover[a].pc = "add"
  /\ \/ \E j \in Jobs :
          /\ Enqueue(j, job[old].payload, FALSE)
          /\ kept' = [kept EXCEPT !.requeued = @ \cup {old}]
          /\ recover' = [recover EXCEPT ![a].pc = "hdel"]
     \/ /\ Redis
        /\ recover' = [recover EXCEPT ![a] = NoRecovery]
        /\ UNCHANGED <<job, kept>>
  /\ UNCHANGED <<world, run, keys, executed, done, dlq>>

RecoverDelete(a) ==
  /\ recover[a].pc = "hdel"
  /\ dlq' = dlq \ {recover[a].job} \/ (Redis /\ UNCHANGED dlq)
  /\ recover' = [recover EXCEPT ![a] = NoRecovery]
  /\ UNCHANGED <<world, job, run, keys, executed, done, kept>>

\* Mutant: the entry is removed before the job is enqueued.
DeleteThenAdd(a) ==
  \/ /\ recover[a].pc = "add"
     /\ dlq' = dlq \ {recover[a].job}
     /\ recover' = [recover EXCEPT ![a].pc = "hdel"]
     /\ UNCHANGED <<world, job, run, keys, executed, done, kept>>
  \/ /\ recover[a].pc = "hdel"
     /\ recover' = [recover EXCEPT ![a] = NoRecovery]
     /\ UNCHANGED <<world, job, run, keys, executed, done, dlq, kept>>

RecoverStep(a) == RecoverAdd(a) \/ RecoverDelete(a)

\* The process of a recoverJob call dies.
RecoverCrash(a) ==
  /\ May("crash") /\ recover[a].pc # "idle"
  /\ recover' = [recover EXCEPT ![a] = NoRecovery]
  /\ UNCHANGED <<world, job, run, keys, executed, done, dlq, kept>>

\* removeDLQItem, clearDLQ and cleanupExpiredItems: entries are given up.
Discard ==
  \E gone \in (SUBSET dlq) \ {{}} :
    /\ gone = dlq \/ Cardinality(gone) = 1
    /\ dlq' = dlq \ gone
    /\ kept' = [kept EXCEPT !.discarded = @ \cup gone]
    /\ UNCHANGED <<world, job, run, keys, executed, done, recover>>

-----------------------------------------------------------------------------
Work(w) == Start(w) \/ Claim(w) \/ Execute(w) \/ Progress(w) \/ Release(w)
           \/ End(w) \/ Complete(w) \/ Fail(w) \/ OnFailed(w)

Operator == Discard \/ (\E j \in Jobs : RetryJob(j) \/ RemoveJob(j))

Environment == (\E u \in Units : ExpireKey(u)) \/ (\E w \in Workers : Crash(w))
               \/ (\E a \in Admins : RecoverCrash(a))

Next ==
  \/ Add \/ Operator \/ Environment
  \/ \E j \in Jobs : Stall(j)
  \/ \E w \in Workers : Take(w) \/ Work(w)
  \/ \E a \in Admins : RecoverRead(a) \/ RecoverStep(a)

Spec == Init /\ [][Next]_vars

\* Bull hands out waiting jobs and checks for stalled ones as long as a worker
\* runs; Node resumes a handler whose await has settled.
FairSpec ==
  /\ Spec
  /\ \A w \in Workers : WF_vars(Work(w)) /\ WF_vars(Take(w))
  /\ \A j \in Jobs : WF_vars(job[j].lock = None /\ Stall(j))
  /\ \A a \in Admins : WF_vars(RecoverStep(a))

-----------------------------------------------------------------------------
(* Properties.                                                             *)

\* Jobs, attempts, markers and the dead-letter hash have their types, and no
\* handler reads a unit its payload does not have.
TypeOK ==
  /\ world \in Scenarios
  /\ job \in [Jobs -> [payload : Payloads \cup {None}, state : States, made : 0..MaxMade,
                       stalled : BOOLEAN, lock : Workers \cup {None},
                       named : BOOLEAN]]
  /\ run \in [Workers -> [job : Jobs \cup {None}, pc : PCs, idx : Nat, failures : BOOLEAN]]
  /\ \A w \in Workers : run[w].pc \in {"claim", "execute", "progress", "release"} =>
       run[w].idx \in DOMAIN Us(w)
  /\ keys \subseteq Units
  /\ executed \in [Units -> 0..2]
  /\ done \subseteq Units
  /\ dlq \subseteq Jobs
  /\ recover \in [Admins -> [job : Jobs \cup {None}, pc : {"idle", "add", "hdel"}]]
  /\ kept \in [ever : SUBSET Jobs, requeued : SUBSET Jobs, discarded : SUBSET Jobs]

\* Attempts fail, but neither the processes nor Redis do.
OnlyThrows == world.faults \subseteq {"throw", "late"}

\* "A Bull retry never executes a completed swap twice": whatever retries, late
\* errors, crashes, stalls, zombies, duplicates, recoveries and Redis failures
\* there are, what an attempt has executed without an error no attempt is about
\* to execute again, as long as its key does not expire.
DoneOnce == ~May("expiry") => \A w \in Workers : run[w].pc = "execute" => Unit(w) \notin done

\* "Each email is sent at most once": nothing is executed twice, successfully or
\* not, as long as nothing throws between an effect and the end of its try
\* block: no late error, and no job.progress that Redis refuses.
AtMostOnce ==
  ~May("late") /\ ~Redis /\ ~May("expiry") => \A u \in Units : executed[u] <= 1

\* An attempt that is executing a unit holds its key, and no other attempt is
\* executing the same unit: two workers never run one swap side by side, unless
\* the key expires under the first.
OneExecutor ==
  ~May("expiry") => \A w \in Workers : run[w].pc = "execute" =>
    /\ Unit(w) \in keys
    /\ \A v \in Workers \ {w} : run[v].pc = "execute" => Unit(v) # Unit(w)

JobUnits(j) == IF job[j].payload = None THEN {} ELSE Range(UnitsOf[job[j].payload])

\* A completed job has executed all its units: while attempts only throw, a key
\* is taken for an execution only when there was one, unless the key is that of
\* another job that names the same unit.
CompletedIsExecuted ==
  OnlyThrows => \A j \in Jobs : job[j].state = "completed" =>
    \A u \in JobUnits(j) :
      executed[u] >= 1 \/ \E i \in Jobs \ {j} : u \in JobUnits(i)

\* No other payload names a leg of p: no other route was given its swapId.
OwnLegs(p) == \A q \in Payloads \ {p} : Range(UnitsOf[p]) \cap Range(UnitsOf[q]) = {}

\* "A leg failure fails the job and the retry resumes at the first unexecuted
\* leg": no leg of a route is executed before the one in front of it (a second
\* route with the same swapId would skip a leg the first is still executing).
InLegOrder ==
  \A p \in Payloads : KindOf[p] = "multi_leg" /\ OwnLegs(p) =>
    \A i \in 2..Len(UnitsOf[p]) :
      executed[UnitsOf[p][i]] > 0 => executed[UnitsOf[p][i - 1]] > 0

\* While attempts only throw, the retries do resume at the first unexecuted leg.
LegsInOrder == OnlyThrows => InLegOrder

\* "A failed recovery never loses the record": an entry leaves the dead-letter
\* queue only when its job has been enqueued again or it has been given up,
\* whatever crashes and Redis failures strike the recovery.
RecordNotLost == kept.ever \subseteq dlq \cup kept.requeued \cup kept.discarded

\* "Permanent failures are moved to the Dead Letter Queue": once onFailed has
\* run, a failed job is or was an entry there (a stalled job that Bull fails
\* with attempts left is not).
FailureIsKept ==
  OnlyThrows => \A j \in Jobs : job[j].state = "failed" =>
    j \in kept.ever \/ \E w \in Workers : run[w].job = j /\ run[w].pc = "onfailed"

\* Every enqueued job ends: its retries and stalls are bounded and no handler
\* is stuck on a key.
EveryJobEnds ==
  \A j \in Jobs : job[j].state = "waiting" ~> job[j].state \in {"completed", "failed", "none"}

\* No swap and no e-mail is executed again once it is done, one attempt after the
\* other or two of them side by side.
NothingTwice == DoneOnce /\ AtMostOnce /\ OneExecutor

\* Retries neither skip what was not executed nor leave a job completed without
\* it.
RetriesResume == CompletedIsExecuted /\ LegsInOrder

\* Every permanent failure gets its record, and no recovery loses one.
FailuresOnRecord == RecordNotLost /\ FailureIsKept
=============================================================================
