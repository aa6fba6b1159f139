-------------------------- MODULE ZeroLossMessages --------------------------
(***************************************************************************)
(* ZeroLossMessageService (src/queue): message hashes and processing       *)
(* leases in Redis, shared by the workers, recovery sweeps and operators   *)
(* of all instances.  Every Redis command is one step; anything may happen *)
(* between two of them.  A lease is a key with a time to live: it is fresh,*)
(* then stale, then gone, unless its owner renews it.                      *)
(***************************************************************************)
EXTENDS Integers, FiniteSets

CONSTANTS
  Messages,
  Workers,      \* callers of markProcessing, one on an instance
  Sweepers,     \* instances running recoverOrphanedMessages
  Admins,       \* concurrent calls of the retry endpoint
  MaxAttempts,  \* maxAttempts
  Bound,        \* bound on the attempts of a message
  Scenarios,    \* executions to look at: who runs, whether a live process may
                \* outlive its lease, messages of which status operators retry
  Dead, None    \* owner of the lease of a dead process; no owner, no message

Procs == Workers \cup Sweepers \cup Admins

ASSUME BoundAssumption ==
  /\ MaxAttempts \in Nat \ {0} /\ Bound \in Nat /\ Bound >= MaxAttempts
ASSUME ProcsAssumption ==
  /\ {Dead, None} \cap Procs = {} /\ Dead # None /\ None \notin Messages
  /\ Workers \cap Sweepers = {} /\ Workers \cap Admins = {} /\ Sweepers \cap Admins = {}

Statuses == {"none", "pending", "processing", "completed", "failed"}

ASSUME ScenarioAssumption ==
  Scenarios \subseteq [procs : SUBSET Procs, slow : BOOLEAN, retried : SUBSET Statuses]

VARIABLES
  world,     \* the scenario of this execution; never changes
  rec,       \* zls:msg:{id}
  lease,     \* zls:lease:{id}
  act,       \* where a process is, and for which message
  stale,     \* the message cleanupCompletedMessages is about to delete
  history    \* what has happened to a message

vars == <<world, rec, lease, act, stale, history>>

Reports  == {"ack", "complete", "fail", "retry"}
PCs      == {"idle", "check", "unlease", "incr", "mark", "working", "acked",
             "write", "del", "get", "nx", "recheck", "requeue"}

\* whole: the hash has its messageId and payload; a hash that HSET creates
\* after a DEL has only the fields that HSET names.
NoRec   == [status |-> "none", attempts |-> 0, acked |-> FALSE, whole |-> FALSE]
NoLease == [owner |-> None, fresh |-> FALSE]
Idle    == [pc |-> "idle", m |-> None, report |-> "ack"]

Init ==
  /\ world \in Scenarios
  /\ rec = [m \in Messages |-> NoRec]
  /\ lease = [m \in Messages |-> NoLease]
  /\ act = [p \in Procs |-> Idle]
  /\ stale = None
  /\ history = [m \in Messages |->
       [completed |-> FALSE, ackedAt |-> 0, requeues |-> [n \in 0..Bound |-> 0]]]

Goto(p, l) == act' = [act EXCEPT ![p].pc = l]
Stop(p)    == act' = [act EXCEPT ![p] = Idle]
Starts(p)  == act[p].pc = "idle" /\ p \in world.procs
M(p)       == act[p].m
\* Mutant: the lease holds the message's id.
HeldByMessage(p) == [owner |-> M(p), fresh |-> TRUE]

\* SET lease instanceId EX: the time to live starts.
Held(p)    == [owner |-> p, fresh |-> TRUE]

\* persistMessage
Persist(m) ==
  /\ rec[m] = NoRec /\ ~history[m].completed
  /\ rec' = [rec EXCEPT ![m] = [status |-> "pending", attempts |-> 0,
                                acked |-> FALSE, whole |-> TRUE]]
  /\ UNCHANGED <<world, lease, act, stale, history>>

-----------------------------------------------------------------------------
(* markProcessing.                                                         *)

\* Mutant: SET without NX.
AnyLease(m) == TRUE

Free(m) == lease[m].owner = None

ClaimLease(w) ==
  \E m \in Messages :
    /\ Starts(w) /\ rec[m].status # "none" /\ rec[m].attempts < Bound
    /\ Free(m)
    /\ lease' = [lease EXCEPT ![m] = Held(w)]
    /\ act' = [act EXCEPT ![w].pc = "check", ![w].m = m]
    /\ UNCHANGED <<world, rec, stale, history>>

CheckPending(w) ==
  /\ act[w].pc = "check"
  /\ Goto(w, IF rec[M(w)].status = "pending" THEN "incr" ELSE "unlease")
  /\ UNCHANGED <<world, rec, lease, stale, history>>

Unlease(w) ==
  /\ act[w].pc = "unlease"
  /\ lease' = [lease EXCEPT ![M(w)] = NoLease]
  /\ Stop(w)
  /\ UNCHANGED <<world, rec, stale, history>>

\* HINCRBY attempts
Increment(w) ==
  /\ act[w].pc = "incr" /\ rec[M(w)].attempts < Bound
  /\ rec' = [rec EXCEPT ![M(w)].attempts = @ + 1]
  /\ Goto(w, "mark")
  /\ UNCHANGED <<world, lease, stale, history>>

MarkProcessing(w) ==
  /\ act[w].pc = "mark"
  /\ rec' = [rec EXCEPT ![M(w)].status = "processing"]
  /\ Goto(w, "working")
  /\ UNCHANGED <<world, lease, stale, history>>

\* renewProcessingLease: GET, then EXPIRE of a lease that is its own.
Renew(w) ==
  /\ act[w].pc = "working" /\ lease[M(w)] = [owner |-> w, fresh |-> FALSE]
  /\ lease' = [lease EXCEPT ![M(w)].fresh = TRUE]
  /\ UNCHANGED <<world, rec, act, stale, history>>

-----------------------------------------------------------------------------
(* acknowledgeMessage, markCompleted, markFailed, retryMessage: a read, one *)
(* HSET and the DEL of the lease.                                          *)

Report(w) ==
  /\ \/ act[w].pc = "working" /\ act' = [act EXCEPT ![w].pc = "write", ![w].report = "ack"]
     \/ /\ act[w].pc \in {"working", "acked"}
        /\ \E r \in {"complete", "fail"} :
             act' = [act EXCEPT ![w].pc = "write", ![w].report = r]
  /\ rec[M(w)].status # "none"
  /\ UNCHANGED <<world, rec, lease, stale, history>>

\* The message is gone: nothing is written.
ReportMissing(w) ==
  /\ act[w].pc \in {"working", "acked"} /\ rec[M(w)].status = "none"
  /\ Stop(w)
  /\ UNCHANGED <<world, rec, lease, stale, history>>

\* retryMessage looks at the attempts, not at the status.
Retry(a) ==
  \E m \in Messages :
    /\ Starts(a) /\ rec[m].status \in world.retried
    /\ rec[m].attempts < MaxAttempts
    /\ act' = [act EXCEPT ![a] = [pc |-> "write", m |-> m, report |-> "retry"]]
    /\ UNCHANGED <<world, rec, lease, stale, history>>

Write(p) ==
  LET m == M(p) IN
  /\ act[p].pc = "write"
  /\ rec' = CASE act[p].report = "ack"      -> [rec EXCEPT ![m].acked = TRUE]
              [] act[p].report = "complete" -> [rec EXCEPT ![m].status = "completed"]
              [] act[p].report = "fail"     -> [rec EXCEPT ![m].status = "failed"]
              [] act[p].report = "retry"    -> [rec EXCEPT ![m].status = "pending"]
  /\ history' = CASE act[p].report = "ack" ->
                       [history EXCEPT ![m].ackedAt = rec[m].attempts]
                  [] act[p].report = "complete" -> [history EXCEPT ![m].completed = TRUE]
                  [] OTHER -> history
  /\ Goto(p, "del")
  /\ UNCHANGED <<world, lease, stale>>

\* DEL of the lease, whoever holds it.
DeleteLease(p) ==
  /\ act[p].pc = "del"
  /\ lease' = [lease EXCEPT ![M(p)] = NoLease]
  /\ IF p \in Workers /\ act[p].report = "ack" THEN Goto(p, "acked") ELSE Stop(p)
  /\ UNCHANGED <<world, rec, stale, history>>

-----------------------------------------------------------------------------
(* recoverOne, for one message of the sweep.                               *)

\* Mutant: a message without attempts left is not looked at.
SkipExhausted(m) ==
  /\ rec[m].whole /\ rec[m].status = "processing" /\ ~rec[m].acked
  /\ rec[m].attempts < MaxAttempts

Orphaned(m) == rec[m].whole /\ rec[m].status = "processing" /\ ~rec[m].acked

Sweep(s) ==
  \E m \in Messages :
    /\ Starts(s) /\ Orphaned(m)
    /\ act' = [act EXCEPT ![s].pc = "get", ![s].m = m]
    /\ UNCHANGED <<world, rec, lease, stale, history>>

\* GET of the lease
SweepLease(s) ==
  /\ act[s].pc = "get"
  /\ IF lease[M(s)].owner = None THEN Goto(s, "nx") ELSE Stop(s)
  /\ UNCHANGED <<world, rec, lease, stale, history>>

SweepClaim(s) ==
  /\ act[s].pc = "nx"
  /\ IF Free(M(s))
       THEN lease' = [lease EXCEPT ![M(s)] = Held(s)] /\ Goto(s, "recheck")
       ELSE UNCHANGED lease /\ Stop(s)
  /\ UNCHANGED <<world, rec, stale, history>>

\* Mutant: the state is not read again under the claim.
NoRecheck(m) == TRUE

StillOrphaned(m) == Orphaned(m)

Recheck(s) ==
  /\ act[s].pc = "recheck"
  /\ Goto(s, IF StillOrphaned(M(s)) THEN "requeue" ELSE "del")
  /\ UNCHANGED <<world, rec, lease, stale, history>>

\* HSET to pending, or to failed when there are no attempts left; the finally
\* block's DEL is DeleteLease.
Requeue(s) ==
  LET m == M(s) IN
  /\ act[s].pc = "requeue"
  /\ rec' = [rec EXCEPT ![m].status =
               IF rec[m].attempts < MaxAttempts THEN "pending" ELSE "failed"]
  /\ history' = [history EXCEPT ![m].requeues[rec[m].attempts] =
                   IF @ < 2 THEN @ + 1 ELSE @]
  /\ Goto(s, "del")
  /\ UNCHANGED <<world, lease, stale>>

-----------------------------------------------------------------------------
(* cleanupCompletedMessages: read a message, then delete its hash.         *)

Cleanable(m) == rec[m].whole /\ rec[m].status = "completed"

CleanupRead ==
  \E m \in Messages :
    /\ stale = None /\ Cleanable(m)
    /\ stale' = m
    /\ UNCHANGED <<world, rec, lease, act, history>>

CleanupDelete ==
  /\ stale # None
  /\ rec' = [rec EXCEPT ![stale] = NoRec]
  /\ stale' = None
  /\ UNCHANGED <<world, lease, act, history>>

-----------------------------------------------------------------------------
(* Time and failures.                                                      *)

Age(m) ==
  /\ lease[m].owner # None /\ lease[m].fresh
  /\ lease' = [lease EXCEPT ![m].fresh = FALSE]
  /\ UNCHANGED <<world, rec, act, stale, history>>

\* The time to live ends; a live process is done or has renewed by then,
\* unless it is slow.
Expire(m) ==
  /\ lease[m].owner # None /\ ~lease[m].fresh
  /\ lease[m].owner = Dead \/ world.slow
  /\ lease' = [lease EXCEPT ![m] = NoLease]
  /\ UNCHANGED <<world, rec, act, stale, history>>

Crash(p) ==
  /\ act[p].pc # "idle"
  /\ lease' = [m \in Messages |-> IF lease[m].owner = p
                                  THEN [lease[m] EXCEPT !.owner = Dead] ELSE lease[m]]
  /\ Stop(p)
  /\ UNCHANGED <<world, rec, stale, history>>

-----------------------------------------------------------------------------
WorkerStep(w) == CheckPending(w) \/ Unlease(w) \/ Increment(w) \/ MarkProcessing(w)
                 \/ Report(w) \/ ReportMissing(w) \/ Write(w) \/ DeleteLease(w)
SweepStep(s)  == SweepLease(s) \/ SweepClaim(s) \/ Recheck(s) \/ Requeue(s) \/ DeleteLease(s)

Next ==
  \/ \E m \in Messages : Persist(m) \/ Age(m) \/ Expire(m)
  \/ \E w \in Workers : ClaimLease(w) \/ Renew(w) \/ WorkerStep(w)
  \/ \E s \in Sweepers : Sweep(s) \/ SweepStep(s)
  \/ \E a \in Admins : Retry(a) \/ Write(a) \/ DeleteLease(a)
  \/ CleanupRead \/ CleanupDelete
  \/ \E p \in Procs : Crash(p)

Spec == Init /\ [][Next]_vars

\* Node resumes a call whose command has returned; @Interval starts the sweep
\* every second; a lease that nobody renews runs out; processes do not go on
\* crashing for ever.
FairSpec ==
  /\ Spec
  /\ \A m \in Messages : WF_vars(Age(m)) /\ WF_vars(Expire(m))
  /\ \A w \in Workers : WF_vars(WorkerStep(w))
  /\ \A s \in Sweepers : WF_vars(Sweep(s)) /\ WF_vars(SweepStep(s))
  /\ <>[][\A p \in Procs : ~Crash(p)]_vars

-----------------------------------------------------------------------------
(* Properties.                                                             *)

\* Hashes, leases, processes and the history have their types.
TypeOK ==
  /\ world \in Scenarios
  /\ rec \in [Messages -> [status : Statuses, attempts : 0..Bound,
                           acked : BOOLEAN, whole : BOOLEAN]]
  /\ lease \in [Messages -> [owner : Procs \cup {Dead, None}, fresh : BOOLEAN]]
  /\ act \in [Procs -> [pc : PCs, m : Messages \cup {None}, report : Reports]]
  /\ stale \in Messages \cup {None}
  /\ history \in [Messages -> [completed : BOOLEAN, ackedAt : 0..Bound,
                               requeues : [0..Bound -> 0..2]]]

\* Live processes keep their leases and operators retry nothing.
Timely == ~world.slow /\ world.retried = {}

\* "At most one worker across all instances" processes a message at a time,
\* and "a worker that is still alive holds the lease, so its message is never
\* touched" by a recovery sweep.
LeaseExcludes ==
  \A w \in Workers : act[w].pc = "working" =>
    /\ rec[M(w)].status = "processing"
    /\ \A v \in Workers \ {w} : ~(act[v].pc = "working" /\ M(v) = M(w))

\* The lease does exclude other workers and the sweeps while processes are
\* timely, whoever crashes and however claims, reports and sweeps interleave.
OneWorker == Timely => LeaseExcludes

\* "The transition runs exactly once even when several instances sweep the
\* same message concurrently": while processes are timely, one attempt is
\* recovered at most once.
RequeuedOnce == Timely => \A m \in Messages, n \in 0..Bound : history[m].requeues[n] <= 1

\* Zero loss: what a worker has reported completed is final, so no
\* sweep, late claim or second worker opens it again between cleanup's read of
\* a message and its DEL, and what cleanup deletes is completed when it does.
NeverLost ==
  [][Timely => \A m \in Messages :
       /\ rec[m].status = "completed" => rec'[m].status \in {"completed", "none"}
       /\ rec[m].status # "none" /\ rec'[m].status = "none" => rec[m].status = "completed"]_vars

\* "A background recovery sweep re-queues messages whose processing lease
\* expired (worker crash)": a message in processing that no worker is working
\* on, and that was not acknowledged in this attempt, does not stay there.
RecoveredEventually ==
  \A m \in Messages :
    (/\ rec[m].status = "processing" /\ rec[m].whole
     /\ history[m].ackedAt # rec[m].attempts
     /\ \A w \in Workers : M(w) # m)
      ~> (rec[m].status # "processing")

\* That is so in every execution whose processes are timely.
OrphanRecovered == Timely => RecoveredEventually

\* While processes are timely the lease gives a message one owner: one worker
\* works on it, and one sweep recovers an attempt.
OneOwner == OneWorker /\ RequeuedOnce
=============================================================================
