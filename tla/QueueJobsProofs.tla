-------------------------- MODULE QueueJobsProofs --------------------------
(***************************************************************************)
(* For every number of jobs, workers and recoveries, and all payloads: no  *)
(* swap and no e-mail is executed twice, retries resume where a job had    *)
(* stopped, and permanent failures stay on record.                         *)
(***************************************************************************)
EXTENDS QueueJobs, TLAPS

-----------------------------------------------------------------------------
(* The inductive invariant: its parts.                                     *)

JobRec == [payload : Payloads \cup {None}, state : States, made : 0..MaxMade,
           stalled : BOOLEAN, lock : Workers \cup {None}, named : BOOLEAN]
RunRec == [job : Jobs \cup {None}, pc : PCs, idx : Nat, failures : BOOLEAN]

AtUnit  == {"claim", "execute", "progress", "release"}
Holding == {"execute", "progress", "release"}
Busy    == PCs \ {"idle", "onfailed"}

\* An attempt is one of a job that has been enqueued, and starts at unit 1.
Attempting ==
  \A w \in Workers :
    /\ run[w].pc # "idle" => run[w].job \in Jobs /\ job[run[w].job].payload # None
    /\ run[w].pc = "start" => run[w].idx = 1

\* A job is locked only by a worker that is running it.
Enqueued ==
  \A j \in Jobs :
    /\ job[j].state # "none" => job[j].payload # None
    /\ job[j].state \in {"waiting", "active"} => job[j].made < MaxMade
    /\ job[j].lock # None => /\ job[j].state = "active"
                             /\ run[job[j].lock].job = j /\ run[job[j].lock].pc \in Busy

\* Entries of the dead-letter queue are jobs that were enqueued once.
Entries ==
  /\ \A j \in dlq : job[j].payload # None
  /\ \A a \in Admins : recover[a].pc # "idle" =>
       recover[a].job \in Jobs /\ job[recover[a].job].payload # None

Base == TypeOK /\ Attempting /\ Enqueued /\ Entries

-----------------------------------------------------------------------------
(* Steps of the jobs and of the workers.                                   *)

\* Bull keeps a job's data.
PayloadsKept == \A j \in Jobs : job[j].payload # None => job'[j].payload = job[j].payload

LEMMA TypeParts ==
  ASSUME TypeOK
  PROVE  /\ job \in [Jobs -> JobRec] /\ run \in [Workers -> RunRec]
         /\ \A w \in Workers : run[w].pc \in AtUnit => run[w].idx \in DOMAIN Us(w)
BY DEF TypeOK, JobRec, RunRec, AtUnit

LEMMA EntriesKept ==
  ASSUME Base, PayloadsKept, dlq' \subseteq dlq, UNCHANGED recover
  PROVE  Entries'
BY DEF Base, Entries, PayloadsKept, TypeOK

\* One job changes: it keeps its data and gets no lock.
LEMMA JobStep ==
  ASSUME Base, NEW j \in Jobs, NEW rec \in JobRec, job' = [job EXCEPT ![j] = rec],
         UNCHANGED run,
         job[j].payload # None => rec.payload = job[j].payload,
         rec.state # "none" => rec.payload # None,
         rec.state \in {"waiting", "active"} => rec.made < MaxMade,
         rec.lock # None => rec.lock = job[j].lock /\ rec.state = "active"
  PROVE  /\ job' \in [Jobs -> JobRec] /\ PayloadsKept /\ Attempting' /\ Enqueued'
         /\ \A w \in Workers : run[w].pc # "idle" => Us(w)' = Us(w)
<1>1. job \in [Jobs -> JobRec] /\ run \in [Workers -> RunRec]
  BY TypeParts DEF Base
<1>2. job' \in [Jobs -> JobRec] /\ job'[j] = rec /\ \A i \in Jobs \ {j} : job'[i] = job[i]
  BY <1>1
<1>3. PayloadsKept
  BY <1>2 DEF PayloadsKept
<1>4. Attempting'
  BY <1>3 DEF Base, Attempting, PayloadsKept
<1>5. Enqueued'
  BY <1>2 DEF Base, Enqueued
<1>6. \A w \in Workers : run[w].pc # "idle" => Us(w)' = Us(w)
  BY <1>3 DEF Base, Attempting, PayloadsKept, Us
<1> QED
  BY <1>2, <1>3, <1>4, <1>5, <1>6

\* One worker goes on with its attempt, or ends it when it has lost the lock.
LEMMA RunStep ==
  ASSUME Base, NEW w \in Workers, NEW rec \in RunRec, run' = [run EXCEPT ![w] = rec],
         UNCHANGED job, run[w].pc # "idle",
         rec.pc # "idle" => rec.job = run[w].job,
         rec.pc # "start",
         rec.pc \in AtUnit => rec.idx \in DOMAIN Us(w),
         rec.pc \notin Busy => \A j \in Jobs : job[j].lock # w
  PROVE  /\ run' \in [Workers -> RunRec] /\ PayloadsKept /\ Attempting' /\ Enqueued'
         /\ \A v \in Workers : run'[v].pc \in AtUnit => run'[v].idx \in DOMAIN Us(v)'
<1>1. job \in [Jobs -> JobRec] /\ run \in [Workers -> RunRec]
        /\ \A v \in Workers : run[v].pc \in AtUnit => run[v].idx \in DOMAIN Us(v)
  BY TypeParts DEF Base
<1>2. run' \in [Workers -> RunRec] /\ run'[w] = rec /\ \A v \in Workers \ {w} : run'[v] = run[v]
  BY <1>1
<1>3. PayloadsKept
  BY DEF PayloadsKept
<1>4. Attempting'
  BY <1>2 DEF Base, Attempting
<1>5. Enqueued'
  <2> SUFFICES ASSUME NEW j \in Jobs, job[j].lock # None
               PROVE  run'[job[j].lock].job = j /\ run'[job[j].lock].pc \in Busy
    BY DEF Base, Enqueued
  <2>1. job[j].lock \in Workers
    BY <1>1 DEF JobRec
  <2>2. run[job[j].lock].job = j /\ run[job[j].lock].pc \in Busy
    BY DEF Base, Enqueued
  <2>3. CASE job[j].lock = w
    BY <1>2, <2>2, <2>3 DEF Busy
  <2>4. CASE job[j].lock # w
    BY <1>2, <2>1, <2>2, <2>4
  <2> QED
    BY <2>3, <2>4
<1>6. \A v \in Workers : run'[v].pc \in AtUnit => run'[v].idx \in DOMAIN Us(v)'
  <2> SUFFICES ASSUME NEW v \in Workers, run'[v].pc \in AtUnit
               PROVE  run'[v].idx \in DOMAIN Us(v)'
    OBVIOUS
  <2>1. run'[v].job = run[v].job
    BY <1>2 DEF AtUnit
  <2>2. Us(v)' = Us(v)
    BY <2>1 DEF Us
  <2> QED
    BY <1>1, <1>2, <2>2
<1> QED
  BY <1>2, <1>3, <1>4, <1>5, <1>6

\* What AfterUnit makes of an attempt: the next unit, or the end.
Advances(w, rec, failures) ==
  /\ rec.failures = failures
  /\ \/ rec.pc = "claim" /\ rec.idx = run[w].idx + 1 /\ rec.idx \in DOMAIN Us(w)
     \/ run[w].idx = Len(Us(w)) /\ rec.pc = "fail" /\ failures
     \/ run[w].idx = Len(Us(w)) /\ rec.pc \in {"end", "complete"} /\ ~failures

\* A step of a handler between taking a job and its outcome: it changes the
\* record of its own attempt to rec, its unit's key, and the execution.
Handles(w, rec) ==
  /\ UNCHANGED <<world, job, dlq, recover, kept>>
  /\ rec \in RunRec /\ run' = [run EXCEPT ![w] = rec] /\ rec.job = run[w].job
  /\ \/ /\ run[w].pc = "start" /\ UNCHANGED <<keys, executed, done>>
        /\ rec.idx = run[w].idx /\ rec.failures = run[w].failures
        /\ \/ rec.pc = "claim" /\ 1 \in DOMAIN Us(w)
           \/ rec.pc = "end" /\ Us(w) = << >>
           \/ rec.pc = "fail"
     \/ /\ run[w].pc = "claim" /\ UNCHANGED <<executed, done>>
        /\ \/ /\ Unit(w) \notin keys /\ keys' = keys \cup {Unit(w)}
              /\ rec = [run[w] EXCEPT !.pc = "execute"]
           \/ Unit(w) \in keys /\ keys' = keys /\ Advances(w, rec, run[w].failures)
           \/ rec.pc = "fail" /\ keys' = keys
     \/ /\ run[w].pc = "execute" /\ UNCHANGED <<keys, done>>
        /\ \/ HasEffect(Unit(w)) /\ rec = [run[w] EXCEPT !.pc = "progress"]
           \/ May("late") /\ HasEffect(Unit(w)) /\ rec = [run[w] EXCEPT !.pc = "release"]
           \/ UNCHANGED executed /\ rec = [run[w] EXCEPT !.pc = "release"]
     \/ /\ run[w].pc = "progress" /\ UNCHANGED <<keys, executed>>
        /\ \/ Advances(w, rec, run[w].failures) /\ done' = done \cup {Unit(w)}
           \/ Redis /\ UNCHANGED done /\ rec = [run[w] EXCEPT !.pc = "release"]
     \/ /\ run[w].pc = "release" /\ UNCHANGED <<executed, done>>
        /\ \/ /\ keys' = keys \ {Unit(w)}
              /\ (Kind(w) = "batch" /\ Advances(w, rec, TRUE)) \/ rec.pc = "fail"
           \/ keys' = keys /\ rec.pc = "fail" /\ Redis
     \/ /\ run[w].pc = "end" /\ UNCHANGED <<keys, executed, done>>
        /\ rec.pc = "complete" \/ rec.pc = "fail"

\* The units of a job that has been enqueued.
LEMMA UnitsType ==
  ASSUME Base, NEW w \in Workers, run[w].pc # "idle"
  PROVE  /\ Us(w) \in Seq(Units) /\ DOMAIN Us(w) = 1..Len(Us(w)) /\ Len(Us(w)) \in Nat
         /\ run[w].pc \in AtUnit => Unit(w) \in Units /\ run[w].idx \in 1..Len(Us(w))
<1>1. run[w].job \in Jobs /\ job[run[w].job].payload \in Payloads
  BY TypeParts DEF Base, Attempting, JobRec
<1>2. Us(w) \in Seq(Units)
  BY <1>1, PayloadAssumption DEF Us
<1>3. DOMAIN Us(w) = 1..Len(Us(w)) /\ Len(Us(w)) \in Nat
  BY <1>2
<1>4. ASSUME run[w].pc \in AtUnit PROVE Unit(w) \in Units /\ run[w].idx \in 1..Len(Us(w))
  <2>1. run[w].idx \in DOMAIN Us(w)
    BY <1>4, TypeParts DEF Base
  <2> QED
    BY <1>2, <1>3, <2>1 DEF Unit
<1> QED
  BY <1>2, <1>3, <1>4

LEMMA GotoStep ==
  ASSUME Base, NEW w \in Workers, NEW l \in PCs, Goto(w, l)
  PROVE  LET rec == [run[w] EXCEPT !.pc = l]
         IN  /\ rec \in RunRec /\ run' = [run EXCEPT ![w] = rec] /\ rec.pc = l
             /\ rec.job = run[w].job /\ rec.idx = run[w].idx /\ rec.failures = run[w].failures
<1>1. run \in [Workers -> RunRec]
  BY TypeParts DEF Base
<1>2. run[w] \in RunRec
  BY <1>1
<1> QED
  BY <1>1, <1>2 DEF Goto, RunRec

LEMMA AfterUnitStep ==
  ASSUME Base, NEW w \in Workers, run[w].pc \in AtUnit, NEW f \in BOOLEAN, NEW s \in BOOLEAN,
         AfterUnit(w, f, s)
  PROVE  \E rec \in RunRec : /\ run' = [run EXCEPT ![w] = rec] /\ rec.job = run[w].job
                             /\ Advances(w, rec, f)
<1>1. run \in [Workers -> RunRec] /\ run[w] \in RunRec
  BY TypeParts DEF Base
<1>2. DOMAIN Us(w) = 1..Len(Us(w)) /\ Len(Us(w)) \in Nat /\ run[w].idx \in 1..Len(Us(w))
  BY UnitsType DEF AtUnit
<1> DEFINE last == run[w].idx = Len(Us(w))
           i == IF last THEN run[w].idx ELSE run[w].idx + 1
           l == IF ~last THEN "claim"
                ELSE IF f THEN "fail"
                ELSE IF Kind(w) = "single" /\ ~s THEN "complete" ELSE "end"
           rec == [job |-> run[w].job, pc |-> l, idx |-> i, failures |-> f]
<1>3. run' = [run EXCEPT ![w] = rec]
  <2>1. run' = [run EXCEPT ![w].idx = i, ![w].failures = f, ![w].pc = l]
    BY Zenon DEF AfterUnit
  <2> HIDE DEF i, l
  <2>2. run[w] = [job |-> run[w].job, pc |-> run[w].pc, idx |-> run[w].idx,
                  failures |-> run[w].failures]
    BY <1>1 DEF RunRec
  <2>3. run'[w] = [run[w] EXCEPT !.idx = i, !.failures = f, !.pc = l]
    BY <1>1, <2>1
  <2>4. run'[w] = rec
    BY <2>2, <2>3
  <2>5. run' = [v \in Workers |-> run'[v]] /\ \A v \in Workers \ {w} : run'[v] = run[v]
    BY <1>1, <2>1
  <2> QED
    BY <1>1, <2>4, <2>5
<1>4. rec \in RunRec
  BY <1>1, <1>2 DEF RunRec, PCs
<1>5. rec.job = run[w].job /\ rec.failures = f /\ rec.idx = i /\ rec.pc = l
  OBVIOUS
<1>6. Advances(w, rec, f)
  <2>1. CASE last
    BY <1>5, <2>1 DEF Advances
  <2>2. CASE ~last
    BY <1>2, <1>5, <2>2 DEF Advances
  <2> QED
    BY <2>1, <2>2
<1> QED
  BY <1>3, <1>4, <1>5, <1>6

\* Start, Claim, Execute, Progress, Release and End are such steps.
LEMMA HandlerStep ==
  ASSUME Base, NEW w \in Workers,
         Start(w) \/ Claim(w) \/ Execute(w) \/ Progress(w) \/ Release(w) \/ End(w)
  PROVE  \E rec \in RunRec : Handles(w, rec)
<1>1. CASE Start(w)
  <2>0. run[w].pc = "start" /\ UNCHANGED <<world, job, keys, executed, done, dlq, recover, kept>>
    BY <1>1 DEF Start
  <2>1. PICK l \in {"claim", "end", "fail"} :
          /\ Goto(w, l) /\ (l = "claim" => Len(Us(w)) # 0) /\ (l = "end" => Len(Us(w)) = 0)
    BY <1>1 DEF Start
  <2>2. Us(w) \in Seq(Units) /\ DOMAIN Us(w) = 1..Len(Us(w)) /\ Len(Us(w)) \in Nat
    BY <2>0, UnitsType
  <2>3. (l = "claim" => 1 \in DOMAIN Us(w)) /\ (l = "end" => Us(w) = << >>)
    BY <2>1, <2>2
  <2>4. l \in PCs
    BY DEF PCs
  <2> QED
    <3> DEFINE rec == [run[w] EXCEPT !.pc = l]
    <3>1. /\ rec \in RunRec /\ run' = [run EXCEPT ![w] = rec] /\ rec.pc = l
          /\ rec.job = run[w].job /\ rec.idx = run[w].idx /\ rec.failures = run[w].failures
      BY <2>1, <2>4, GotoStep
    <3> HIDE DEF rec
    <3>2. Handles(w, rec)
      BY <2>0, <2>1, <2>3, <3>1 DEF Handles
    <3> QED
      BY <3>1, <3>2
<1>2. CASE Claim(w)
  <2>0. run[w].pc = "claim" /\ UNCHANGED <<world, job, executed, done, dlq, recover, kept>>
    BY <1>2 DEF Claim
  <2>1. CASE /\ Unit(w) \notin keys /\ keys' = keys \cup {Unit(w)} /\ Goto(w, "execute")
    BY <2>0, <2>1, GotoStep DEF Handles, PCs
  <2>2. CASE /\ Unit(w) \in keys /\ keys' = keys /\ AfterUnit(w, run[w].failures, TRUE)
    <3>1. run[w].failures \in BOOLEAN /\ run[w].pc \in AtUnit
      BY <2>0, TypeParts DEF Base, RunRec, AtUnit
    <3>2. PICK rec \in RunRec : /\ run' = [run EXCEPT ![w] = rec] /\ rec.job = run[w].job
                                /\ Advances(w, rec, run[w].failures)
      BY <2>2, <3>1, AfterUnitStep
    <3> QED
      BY <2>0, <2>2, <3>2 DEF Handles
  <2>3. CASE keys' = keys /\ Goto(w, "fail")
    BY <2>0, <2>3, GotoStep DEF Handles, PCs
  <2> QED
    BY <1>2, <2>1, <2>2, <2>3 DEF Claim, Unclaimed
<1>3. CASE Execute(w)
  <2>0. run[w].pc = "execute" /\ UNCHANGED <<world, job, keys, done, dlq, recover, kept>>
    BY <1>3 DEF Execute
  <2>1. CASE HasEffect(Unit(w)) /\ Goto(w, "progress")
    BY <2>0, <2>1, GotoStep DEF Handles, PCs
  <2>3. CASE May("late") /\ HasEffect(Unit(w)) /\ Goto(w, "release")
    BY <2>0, <2>3, GotoStep DEF Handles, PCs
  <2>2. CASE UNCHANGED executed /\ Goto(w, "release")
    BY <2>0, <2>2, GotoStep DEF Handles, PCs
  <2> QED
    BY <1>3, <2>1, <2>2, <2>3 DEF Execute, Executed
<1>4. CASE Progress(w)
  <2>0. run[w].pc = "progress" /\ UNCHANGED <<world, job, keys, executed, dlq, recover, kept>>
    BY <1>4 DEF Progress
  <2>1. CASE AfterUnit(w, run[w].failures, FALSE) /\ done' = done \cup {Unit(w)}
    <3>1. run[w].failures \in BOOLEAN /\ run[w].pc \in AtUnit
      BY <2>0, TypeParts DEF Base, RunRec, AtUnit
    <3>2. PICK rec \in RunRec : /\ run' = [run EXCEPT ![w] = rec] /\ rec.job = run[w].job
                                /\ Advances(w, rec, run[w].failures)
      BY <2>1, <3>1, AfterUnitStep
    <3> QED
      BY <2>0, <2>1, <3>2 DEF Handles
  <2>2. CASE Redis /\ UNCHANGED done /\ Goto(w, "release")
    BY <2>0, <2>2, GotoStep DEF Handles, PCs
  <2> QED
    BY <1>4, <2>1, <2>2 DEF Progress
<1>5. CASE Release(w)
  <2>0. run[w].pc = "release" /\ UNCHANGED <<world, job, executed, done, dlq, recover, kept>>
    BY <1>5 DEF Release
  <2>1. CASE keys' = keys \ {Unit(w)} /\ Kind(w) = "batch" /\ AfterUnit(w, TRUE, FALSE)
    <3>1. run[w].pc \in AtUnit
      BY <2>0 DEF AtUnit
    <3>2. PICK rec \in RunRec : /\ run' = [run EXCEPT ![w] = rec] /\ rec.job = run[w].job
                                /\ Advances(w, rec, TRUE)
      BY <2>1, <3>1, AfterUnitStep
    <3> QED
      BY <2>0, <2>1, <3>2 DEF Handles
  <2>2. CASE (keys' = keys \ {Unit(w)} \/ (Redis /\ keys' = keys)) /\ Goto(w, "fail")
    <3> DEFINE rec == [run[w] EXCEPT !.pc = "fail"]
    <3>1. /\ rec \in RunRec /\ run' = [run EXCEPT ![w] = rec] /\ rec.pc = "fail"
          /\ rec.job = run[w].job
      BY <2>2, GotoStep DEF PCs
    <3> HIDE DEF rec
    <3>2. Handles(w, rec)
      BY <2>0, <2>2, <3>1 DEF Handles
    <3> QED
      BY <3>1, <3>2
  <2> QED
    BY <1>5, <2>1, <2>2 DEF Release, Released, GoesOn
<1>6. CASE End(w)
  <2>0. run[w].pc = "end" /\ UNCHANGED <<world, job, keys, executed, done, dlq, recover, kept>>
    BY <1>6 DEF End
  <2>1. PICK l \in {"complete", "fail"} : Goto(w, l)
    BY <1>6 DEF End
  <2> QED
    <3> DEFINE rec == [run[w] EXCEPT !.pc = l]
    <3>1. /\ rec \in RunRec /\ run' = [run EXCEPT ![w] = rec] /\ rec.pc = l
          /\ rec.job = run[w].job
      <4>1. l \in PCs
        BY DEF PCs
      <4> QED
        BY <2>1, <4>1, GotoStep
    <3> HIDE DEF rec
    <3>2. Handles(w, rec)
      BY <2>0, <2>1, <3>1 DEF Handles
    <3> QED
      BY <3>1, <3>2
<1> QED
  BY <1>1, <1>2, <1>3, <1>4, <1>5, <1>6

-----------------------------------------------------------------------------
(* Base is inductive.                                                      *)

\* Where a handler may be after a step.
LEMMA HandlesTo ==
  ASSUME Base, NEW w \in Workers, NEW rec \in RunRec, Handles(w, rec)
  PROVE  /\ run[w].pc \in {"start", "claim", "execute", "progress", "release", "end"}
         /\ rec.pc \in Busy \ {"start"} /\ rec.job = run[w].job
         /\ rec.pc \in AtUnit => rec.idx \in DOMAIN Us(w)
         /\ UNCHANGED <<world, job, dlq, recover, kept>>
         /\ run' = [run EXCEPT ![w] = rec] /\ run'[w] = rec
         /\ \A v \in Workers \ {w} : run'[v] = run[v]
<1>0. run \in [Workers -> RunRec] /\ run[w] \in RunRec
  BY TypeParts DEF Base
<1>1. UNCHANGED <<world, job, dlq, recover, kept>> /\ run' = [run EXCEPT ![w] = rec]
        /\ rec.job = run[w].job
  BY DEF Handles
<1>2. run[w].pc \in {"start", "claim", "execute", "progress", "release", "end"}
  BY DEF Handles
<1>3. rec.pc \in {"claim", "execute", "progress", "release", "end", "complete", "fail"}
  <2>1. \A f : Advances(w, rec, f) => rec.pc \in {"claim", "end", "complete", "fail"}
    BY DEF Advances
  <2>2. \A l : rec = [run[w] EXCEPT !.pc = l] => rec.pc = l
    BY <1>0 DEF RunRec
  <2> QED
    BY <2>1, <2>2 DEF Handles
<1>4. rec.pc \in AtUnit => rec.idx \in DOMAIN Us(w)
  <2>1. \A f : Advances(w, rec, f) /\ rec.pc \in AtUnit => rec.idx \in DOMAIN Us(w)
    BY DEF Advances, AtUnit
  <2>2. \A l : rec = [run[w] EXCEPT !.pc = l] => rec.idx = run[w].idx
    BY <1>0 DEF RunRec
  <2>3. run[w].pc \in AtUnit => run[w].idx \in DOMAIN Us(w)
    BY TypeParts DEF Base
  <2>4. run[w].pc = "start" => run[w].idx = 1
    BY DEF Base, Attempting
  <2> QED
    BY <2>1, <2>2, <2>3, <2>4 DEF Handles, AtUnit
<1>5. rec.pc \in Busy \ {"start"}
  BY <1>3 DEF Busy, PCs
<1> QED
  BY <1>0, <1>1, <1>2, <1>4, <1>5

LEMMA HandlesBase ==
  ASSUME Base, NEW w \in Workers, NEW rec \in RunRec, Handles(w, rec)
  PROVE  Base'
<1>1. /\ run[w].pc # "idle" /\ rec.pc \in Busy \ {"start"} /\ rec.job = run[w].job
      /\ rec.pc \in AtUnit => rec.idx \in DOMAIN Us(w)
      /\ UNCHANGED <<world, job, dlq, recover, kept>> /\ run' = [run EXCEPT ![w] = rec]
  BY HandlesTo
<1>2. /\ run' \in [Workers -> RunRec] /\ PayloadsKept /\ Attempting' /\ Enqueued'
      /\ \A v \in Workers : run'[v].pc \in AtUnit => run'[v].idx \in DOMAIN Us(v)'
  BY <1>1, RunStep
<1>3. keys' \subseteq Units /\ executed' \in [Units -> 0..2] /\ done' \subseteq Units
  <2>0. keys \subseteq Units /\ executed \in [Units -> 0..2] /\ done \subseteq Units
    BY DEF Base, TypeOK
  <2>1. CASE run[w].pc \in {"claim", "execute", "progress"}
    <3>1. Unit(w) \in Units
      BY <1>1, <2>1, UnitsType DEF AtUnit
    <3>2. keys' \subseteq keys \cup {Unit(w)}
      BY <2>1 DEF Handles
    <3>3. /\ done' \subseteq done \cup {Unit(w)}
          /\ \/ executed' = executed
             \/ executed' = [executed EXCEPT ![Unit(w)] = IF @ < 2 THEN @ + 1 ELSE @]
      BY <2>1 DEF Handles, HasEffect
    <3> QED
      BY <2>0, <3>1, <3>2, <3>3
  <2>2. CASE run[w].pc \notin {"claim", "execute", "progress"}
    BY <2>0, <2>2 DEF Handles
  <2> QED
    BY <2>1, <2>2
<1>4. TypeOK'
  BY <1>1, <1>2, <1>3, TypeParts DEF Base, TypeOK, JobRec, RunRec, AtUnit
<1>5. Entries'
  BY <1>1, <1>2, EntriesKept
<1> QED
  BY <1>2, <1>4, <1>5 DEF Base

\* Bull's and the operators' steps on one job.
LEMMA JobBase ==
  ASSUME Base, NEW j \in Jobs, NEW rec \in JobRec, job' = [job EXCEPT ![j] = rec],
         UNCHANGED <<world, run, keys, executed, done, dlq>>,
         job[j].payload # None => rec.payload = job[j].payload,
         rec.state # "none" => rec.payload # None,
         rec.state \in {"waiting", "active"} => rec.made < MaxMade,
         rec.lock # None => rec.lock = job[j].lock /\ rec.state = "active",
         recover' \in [Admins -> [job : Jobs \cup {None}, pc : {"idle", "add", "hdel"}]],
         \A a \in Admins : recover'[a].pc # "idle" => /\ recover[a].pc # "idle"
                                                      /\ recover'[a].job = recover[a].job,
         kept' \in [ever : SUBSET Jobs, requeued : SUBSET Jobs, discarded : SUBSET Jobs]
  PROVE  Base' /\ PayloadsKept
<1>1. /\ job' \in [Jobs -> JobRec] /\ PayloadsKept /\ Attempting' /\ Enqueued'
      /\ \A w \in Workers : run[w].pc # "idle" => Us(w)' = Us(w)
  BY JobStep
<1>2. \A w \in Workers : run'[w].pc \in AtUnit => run'[w].idx \in DOMAIN Us(w)'
  BY <1>1, TypeParts DEF Base, AtUnit
<1>3. TypeOK'
  BY <1>1, <1>2, TypeParts DEF Base, TypeOK, JobRec, RunRec, AtUnit
<1>4. Entries'
  BY <1>1 DEF Base, Entries, PayloadsKept, TypeOK
<1> QED
  BY <1>1, <1>3, <1>4 DEF Base

\* The steps that enqueue a job: Add and the second step of recoverJob.
LEMMA EnqueueStep ==
  ASSUME Base, NEW j \in Jobs, NEW p \in Payloads, NEW named \in BOOLEAN, Enqueue(j, p, named)
  PROVE  LET rec == [payload |-> p, state |-> "waiting", made |-> 0, stalled |-> FALSE,
                     lock |-> None, named |-> named]
         IN  /\ rec \in JobRec /\ job' = [job EXCEPT ![j] = rec]
             /\ job[j].payload = None /\ 0 < MaxMade
<1> DEFINE rec == [payload |-> p, state |-> "waiting", made |-> 0, stalled |-> FALSE,
                   lock |-> None, named |-> named]
<1>1. job' = [job EXCEPT ![j] = rec] /\ job[j].payload = None
  BY Zenon DEF Enqueue, NextId
<1>2. 0 < MaxMade /\ 0 \in 0..MaxMade
  BY BoundAssumption
<1>3. rec \in JobRec
  BY <1>2 DEF JobRec, States
<1> QED
  BY <1>1, <1>2, <1>3

LEMMA AddBase ==
  ASSUME Base, Add
  PROVE  Base'
<1>1. PICK j \in Jobs, p \in world.payloads : Enqueue(j, p, TRUE)
  BY DEF Add
<1>2. p \in Payloads
  BY <1>1, ScenarioAssumption DEF Base, TypeOK
<1>3. UNCHANGED <<world, run, keys, executed, done, dlq, recover, kept>>
  BY DEF Add
<1> DEFINE rec == [payload |-> p, state |-> "waiting", made |-> 0, stalled |-> FALSE,
                   lock |-> None, named |-> TRUE]
<1>4. rec \in JobRec /\ job' = [job EXCEPT ![j] = rec] /\ job[j].payload = None /\ 0 < MaxMade
  BY <1>1, <1>2, EnqueueStep
<1>5. rec.payload # None /\ rec.made = 0 /\ rec.lock = None
  BY <1>2, NamesAssumption
<1> HIDE DEF rec
<1> QED
  BY <1>3, <1>4, <1>5, JobBase DEF Base, TypeOK

LEMMA RecoverAddBase ==
  ASSUME Base, NEW a \in Admins, RecoverAdd(a)
  PROVE  Base'
<1>0. /\ recover \in [Admins -> [job : Jobs \cup {None}, pc : {"idle", "add", "hdel"}]]
      /\ kept \in [ever : SUBSET Jobs, requeued : SUBSET Jobs, discarded : SUBSET Jobs]
  BY DEF Base, TypeOK
<1>1. /\ UNCHANGED <<world, run, keys, executed, done, dlq>> /\ recover[a].pc = "add"
      /\ recover[a].job \in Jobs /\ job[recover[a].job].payload \in Payloads
  BY TypeParts DEF RecoverAdd, Base, Entries, JobRec
<1>2. ASSUME NEW j \in Jobs, Enqueue(j, job[recover[a].job].payload, FALSE),
             kept' = [kept EXCEPT !.requeued = @ \cup {recover[a].job}],
             recover' = [recover EXCEPT ![a].pc = "hdel"]
      PROVE  Base'
  <2> DEFINE p == job[recover[a].job].payload
             rec == [payload |-> p, state |-> "waiting", made |-> 0, stalled |-> FALSE,
                     lock |-> None, named |-> FALSE]
  <2>1. rec \in JobRec /\ job' = [job EXCEPT ![j] = rec] /\ job[j].payload = None /\ 0 < MaxMade
    BY <1>1, <1>2, EnqueueStep
  <2>2. rec.payload # None /\ rec.made = 0 /\ rec.lock = None
    BY <1>1, NamesAssumption
  <2>3. recover' \in [Admins -> [job : Jobs \cup {None}, pc : {"idle", "add", "hdel"}]]
          /\ \A b \in Admins : recover'[b].pc # "idle" => /\ recover[b].pc # "idle"
                                                          /\ recover'[b].job = recover[b].job
    BY <1>0, <1>1, <1>2
  <2>4. kept' \in [ever : SUBSET Jobs, requeued : SUBSET Jobs, discarded : SUBSET Jobs]
    BY <1>0, <1>1, <1>2
  <2> HIDE DEF rec
  <2> QED
    BY <1>1, <2>1, <2>2, <2>3, <2>4, JobBase
<1>3. ASSUME recover' = [recover EXCEPT ![a] = NoRecovery], UNCHANGED <<job, kept>>
      PROVE  Base'
  <2>1. recover' \in [Admins -> [job : Jobs \cup {None}, pc : {"idle", "add", "hdel"}]]
    BY <1>0, <1>3 DEF NoRecovery
  <2>2. Entries'
    BY <1>0, <1>1, <1>3 DEF Base, Entries, NoRecovery
  <2> QED
    BY <1>1, <1>3, <2>1, <2>2 DEF Base, TypeOK, Attempting, Enqueued, Us
<1> QED
  BY <1>2, <1>3 DEF RecoverAdd

LEMMA OperatorBase ==
  ASSUME Base, NEW j \in Jobs, RetryJob(j) \/ RemoveJob(j) \/ Stall(j)
  PROVE  Base'
<1>0. job \in [Jobs -> JobRec] /\ job[j] \in JobRec
  BY TypeParts DEF Base
<1>1. UNCHANGED <<world, run, keys, executed, done, dlq, recover, kept>>
  BY DEF RetryJob, RemoveJob, Stall
<1> DEFINE rec == job'[j]
<1>2. /\ job' = [job EXCEPT ![j] = rec] /\ rec \in JobRec
      /\ rec.payload = job[j].payload /\ rec.made = job[j].made
      /\ rec.lock \in {job[j].lock, None}
      /\ \/ rec.state = "waiting" /\ (job[j].state = "active" \/ job[j].made < MaxMade)
                                  /\ job[j].state # "none"
         \/ rec.state = "none"
         \/ rec.state = "failed" /\ job[j].state = "active"
      /\ rec.lock = None \/ job[j].state # "active"
  <2>1. CASE RetryJob(j)
    BY <1>0, <2>1 DEF RetryJob, JobRec, States
  <2>2. CASE RemoveJob(j)
    BY <1>0, <2>2 DEF RemoveJob, JobRec, States
  <2>3. CASE Stall(j)
    BY <1>0, <2>3 DEF Stall, JobRec, States
  <2> QED
    BY <2>1, <2>2, <2>3
<1>3. rec.state # "none" => rec.payload # None
  BY <1>2 DEF Base, Enqueued
<1>4. rec.state = "waiting" => rec.made < MaxMade
  BY <1>2 DEF Base, Enqueued
<1>5. rec.lock = None
  BY <1>2 DEF Base, Enqueued
<1> HIDE DEF rec
<1> QED
  BY <1>1, <1>2, <1>3, <1>4, <1>5, JobBase DEF Base, TypeOK

LEMMA TakeBase ==
  ASSUME Base, NEW w \in Workers, Take(w)
  PROVE  Base'
<1>0. job \in [Jobs -> JobRec] /\ run \in [Workers -> RunRec]
  BY TypeParts DEF Base
<1>1. PICK j \in Jobs :
        /\ run[w].pc = "idle" /\ job[j].state = "waiting"
        /\ job' = [job EXCEPT ![j].state = "active", ![j].lock = w]
        /\ run' = [run EXCEPT ![w] = [job |-> j, idx |-> 1, failures |-> FALSE,
                                      pc |-> IF HasHandler(j) THEN "start" ELSE "fail"]]
        /\ UNCHANGED <<world, keys, executed, done, dlq, recover, kept>>
  BY Zenon DEF Take
<1>2. /\ job' \in [Jobs -> JobRec] /\ job'[j].state = "active" /\ job'[j].lock = w
      /\ job'[j].payload = job[j].payload /\ job'[j].made = job[j].made
      /\ \A i \in Jobs \ {j} : job'[i] = job[i]
  BY <1>0, <1>1 DEF JobRec, States
<1>3. /\ run' \in [Workers -> RunRec] /\ run'[w].job = j /\ run'[w].idx = 1
      /\ run'[w].pc \in {"start", "fail"} /\ \A v \in Workers \ {w} : run'[v] = run[v]
  <2>1. CASE HasHandler(j)
    BY <1>0, <1>1, <2>1 DEF RunRec, PCs
  <2>2. CASE ~HasHandler(j)
    BY <1>0, <1>1, <2>2 DEF RunRec, PCs
  <2> QED
    BY <2>1, <2>2
<1>4. PayloadsKept
  BY <1>2 DEF PayloadsKept
<1>5. Attempting'
  <2>1. job[j].payload # None
    BY <1>1 DEF Base, Enqueued
  <2> QED
    BY <1>2, <1>3, <1>4, <2>1 DEF Base, Attempting, PayloadsKept
<1>6. Enqueued'
  <2> SUFFICES ASSUME NEW i \in Jobs
               PROVE  /\ job'[i].state # "none" => job'[i].payload # None
                      /\ job'[i].state \in {"waiting", "active"} => job'[i].made < MaxMade
                      /\ job'[i].lock # None =>
                           /\ job'[i].state = "active" /\ run'[job'[i].lock].job = i
                           /\ run'[job'[i].lock].pc \in Busy
    BY DEF Enqueued
  <2>1. CASE i = j
    BY <1>1, <1>2, <1>3, <2>1 DEF Base, Enqueued, Busy, PCs
  <2>2. CASE i # j
    <3>1. job[i].lock # w
      BY <1>1, NamesAssumption DEF Base, Enqueued, Busy
    <3>2. job[i].lock # None => job[i].lock \in Workers
      BY <1>0 DEF JobRec
    <3> QED
      BY <1>2, <1>3, <2>2, <3>1, <3>2 DEF Base, Enqueued
  <2> QED
    BY <2>1, <2>2
<1>7. \A v \in Workers : run'[v].pc \in AtUnit => run'[v].idx \in DOMAIN Us(v)'
  <2> SUFFICES ASSUME NEW v \in Workers, run'[v].pc \in AtUnit
               PROVE  run'[v].idx \in DOMAIN Us(v)'
    OBVIOUS
  <2>1. v # w /\ run'[v] = run[v]
    BY <1>3 DEF AtUnit
  <2>2. Us(v)' = Us(v)
    BY <1>4, <2>1 DEF Us, Base, Attempting, PayloadsKept, AtUnit
  <2> QED
    BY <2>1, <2>2, TypeParts DEF Base
<1>8. TypeOK'
  BY <1>1, <1>2, <1>3, <1>7 DEF Base, TypeOK, JobRec, RunRec, AtUnit
<1>9. Entries'
  BY <1>1, <1>4, EntriesKept
<1> QED
  BY <1>5, <1>6, <1>8, <1>9 DEF Base

\* An attempt ends: its worker gives up its lock, if it still has it.
LEMMA AttemptEnds ==
  ASSUME Base, NEW w \in Workers, run[w].pc # "idle", NEW rec \in RunRec,
         run' = [run EXCEPT ![w] = rec],
         rec.pc \in {"idle", "onfailed"},
         rec.pc = "onfailed" => rec.job = run[w].job,
         job' \in [Jobs -> JobRec], PayloadsKept,
         \A j \in Jobs : \/ job'[j] = job[j] /\ job[j].lock # w
                         \/ /\ job'[j].lock = None /\ job'[j].payload = job[j].payload
                            /\ job[j].state = "active"
                            /\ job'[j].state \in {"waiting", "active"} => job'[j].made < MaxMade,
         UNCHANGED <<world, keys, executed, done, recover>>, dlq' \subseteq Jobs,
         \A j \in dlq' : job[j].payload # None,
         kept' \in [ever : SUBSET Jobs, requeued : SUBSET Jobs, discarded : SUBSET Jobs]
  PROVE  Base'
<1>0. job \in [Jobs -> JobRec] /\ run \in [Workers -> RunRec]
  BY TypeParts DEF Base
<1>1. /\ run' \in [Workers -> RunRec] /\ run'[w] = rec
      /\ \A v \in Workers \ {w} : run'[v] = run[v]
  BY <1>0
<1>2. Attempting'
  <2> SUFFICES ASSUME NEW v \in Workers
               PROVE  /\ run'[v].pc # "idle" => run'[v].job \in Jobs /\ job'[run'[v].job].payload # None
                      /\ run'[v].pc = "start" => run'[v].idx = 1
    BY DEF Attempting
  <2>1. run'[v].pc # "idle" => run[v].pc # "idle" /\ run'[v].job = run[v].job
    BY <1>1
  <2>2. run'[v].pc = "start" => run'[v] = run[v]
    BY <1>1
  <2> QED
    BY <2>1, <2>2 DEF Base, Attempting, PayloadsKept
<1>3. Enqueued'
  <2> SUFFICES ASSUME NEW j \in Jobs
               PROVE  /\ job'[j].state # "none" => job'[j].payload # None
                      /\ job'[j].state \in {"waiting", "active"} => job'[j].made < MaxMade
                      /\ job'[j].lock # None =>
                           /\ job'[j].state = "active" /\ run'[job'[j].lock].job = j
                           /\ run'[job'[j].lock].pc \in Busy
    BY DEF Enqueued
  <2>1. CASE job'[j] = job[j] /\ job[j].lock # w
    <3>1. job[j].lock # None => job[j].lock \in Workers \ {w}
      BY <1>0, <2>1 DEF JobRec
    <3> QED
      BY <1>1, <2>1, <3>1 DEF Base, Enqueued
  <2>2. CASE ~(job'[j] = job[j] /\ job[j].lock # w)
    BY <2>2 DEF Base, Enqueued
  <2> QED
    BY <2>1, <2>2
<1>4. \A v \in Workers : run'[v].pc \in AtUnit => run'[v].idx \in DOMAIN Us(v)'
  <2> SUFFICES ASSUME NEW v \in Workers, run'[v].pc \in AtUnit
               PROVE  run'[v].idx \in DOMAIN Us(v)'
    OBVIOUS
  <2>1. v # w /\ run'[v] = run[v]
    BY <1>1 DEF AtUnit
  <2>2. Us(v)' = Us(v)
    BY <2>1 DEF Us, Base, Attempting, PayloadsKept, AtUnit
  <2> QED
    BY <2>1, <2>2, TypeParts DEF Base
<1>5. TypeOK'
  BY <1>1, <1>4 DEF Base, TypeOK, JobRec, RunRec, AtUnit
<1>6. Entries'
  BY DEF Base, Entries, PayloadsKept, TypeOK
<1> QED
  BY <1>2, <1>3, <1>5, <1>6 DEF Base

LEMMA CompleteBase ==
  ASSUME Base, NEW w \in Workers, Complete(w)
  PROVE  Base'
<1>0. job \in [Jobs -> JobRec] /\ NoRun \in RunRec /\ NoRun.pc = "idle"
  BY TypeParts DEF Base, NoRun, RunRec, PCs
<1>1. run[w].pc = "complete" /\ run[w].job \in Jobs
  BY DEF Complete, Base, Attempting
<1>2. \A j \in Jobs : job[j].lock = w => j = run[w].job /\ job[j].state = "active"
  BY NamesAssumption DEF Base, Enqueued
<1>3. /\ job' \in [Jobs -> JobRec] /\ PayloadsKept
      /\ \A j \in Jobs : \/ job'[j] = job[j] /\ job[j].lock # w
                         \/ /\ job'[j].lock = None /\ job'[j].payload = job[j].payload
                            /\ job[j].state = "active"
                            /\ job'[j].state \in {"waiting", "active"} => job'[j].made < MaxMade
  <2>1. CASE job[run[w].job].lock = w
    <3>1. job' = [job EXCEPT ![run[w].job].state = "completed", ![run[w].job].lock = None]
      BY <2>1 DEF Complete
    <3> QED
      BY <1>0, <1>1, <1>2, <2>1, <3>1 DEF JobRec, States, PayloadsKept
  <2>2. CASE job[run[w].job].lock # w
    BY <1>0, <1>2, <2>2 DEF Complete, PayloadsKept
  <2> QED
    BY <2>1, <2>2
<1>4. run' = [run EXCEPT ![w] = NoRun] /\ UNCHANGED <<world, keys, executed, done, dlq, recover, kept>>
  BY DEF Complete
<1>5. dlq \subseteq Jobs /\ (\A j \in dlq : job[j].payload # None)
        /\ kept \in [ever : SUBSET Jobs, requeued : SUBSET Jobs, discarded : SUBSET Jobs]
  BY DEF Base, TypeOK, Entries
<1> QED
  BY <1>0, <1>1, <1>3, <1>4, <1>5, AttemptEnds

LEMMA FailBase ==
  ASSUME Base, NEW w \in Workers, Fail(w)
  PROVE  Base'
<1>0. job \in [Jobs -> JobRec] /\ run \in [Workers -> RunRec] /\ NoRun \in RunRec /\ NoRun.pc = "idle"
  BY TypeParts DEF Base, NoRun, RunRec, PCs
<1> DEFINE j == run[w].job
<1>1. run[w].pc = "fail" /\ j \in Jobs /\ UNCHANGED <<world, keys, executed, done, dlq, recover, kept>>
  BY DEF Fail, Base, Attempting
<1>2. \A i \in Jobs : job[i].lock = w => i = j /\ job[i].state = "active"
  BY NamesAssumption DEF Base, Enqueued
<1>3. dlq \subseteq Jobs /\ (\A i \in dlq : job[i].payload # None)
        /\ kept \in [ever : SUBSET Jobs, requeued : SUBSET Jobs, discarded : SUBSET Jobs]
  BY DEF Base, TypeOK, Entries
<1>4. CASE job[j].lock = w
  <2>1. /\ job' = [job EXCEPT ![j].made = job[j].made + 1, ![j].lock = None,
                     ![j].state = IF job[j].made + 1 < Attempts THEN "waiting" ELSE "failed"]
        /\ Goto(w, "onfailed")
    BY <1>4 DEF Fail
  <2>2. job[j].made < MaxMade /\ job[j].made \in 0..MaxMade
    BY <1>0, <1>1, <1>2, <1>4 DEF Base, Enqueued, JobRec
  <2>3. job[j].made + 1 \in 0..MaxMade /\ (job[j].made + 1 < Attempts => job[j].made + 1 < MaxMade)
    BY <2>2, BoundAssumption
  <2>4. /\ job' \in [Jobs -> JobRec] /\ PayloadsKept
        /\ \A i \in Jobs : \/ job'[i] = job[i] /\ job[i].lock # w
                           \/ /\ job'[i].lock = None /\ job'[i].payload = job[i].payload
                              /\ job[i].state = "active"
                              /\ job'[i].state \in {"waiting", "active"} => job'[i].made < MaxMade
    <3>1. CASE job[j].made + 1 < Attempts
      BY <1>0, <1>1, <1>2, <1>4, <2>1, <2>3, <3>1, SMTT(30) DEF JobRec, States, PayloadsKept
    <3>2. CASE ~(job[j].made + 1 < Attempts)
      BY <1>0, <1>1, <1>2, <1>4, <2>1, <2>3, <3>2 DEF JobRec, States, PayloadsKept
    <3> QED
      BY <3>1, <3>2, SMTT(30)
  <2> DEFINE rec == [run[w] EXCEPT !.pc = "onfailed"]
  <2>5. rec \in RunRec /\ run' = [run EXCEPT ![w] = rec] /\ rec.pc = "onfailed" /\ rec.job = j
    BY <2>1, GotoStep DEF PCs
  <2> HIDE DEF rec, j
  <2> QED
    BY <1>1, <1>3, <2>4, <2>5, AttemptEnds DEF j
<1>5. CASE job[j].lock # w
  <2>1. run' = [run EXCEPT ![w] = NoRun] /\ UNCHANGED job
    BY <1>5 DEF Fail
  <2>2. PayloadsKept /\ \A i \in Jobs : job[i].lock # w
    BY <1>2, <1>5, <2>1 DEF PayloadsKept
  <2> QED
    BY <1>0, <1>1, <1>3, <2>1, <2>2, AttemptEnds
<1> QED
  BY <1>4, <1>5

LEMMA CrashBase ==
  ASSUME Base, NEW w \in Workers, Crash(w)
  PROVE  Base'
<1>0. job \in [Jobs -> JobRec] /\ NoRun \in RunRec /\ NoRun.pc = "idle"
  BY TypeParts DEF Base, NoRun, RunRec, PCs
<1>1. /\ run[w].pc # "idle" /\ run' = [run EXCEPT ![w] = NoRun]
      /\ UNCHANGED <<world, keys, executed, done, dlq, recover, kept>>
      /\ job' = [j \in Jobs |-> IF job[j].lock = w THEN [job[j] EXCEPT !.lock = None] ELSE job[j]]
  BY DEF Crash
<1>2. \A j \in Jobs : job[j].lock = w => job[j].state = "active" /\ job[j].made < MaxMade
  BY NamesAssumption DEF Base, Enqueued
<1>3. /\ job' \in [Jobs -> JobRec] /\ PayloadsKept
      /\ \A j \in Jobs : \/ job'[j] = job[j] /\ job[j].lock # w
                         \/ /\ job'[j].lock = None /\ job'[j].payload = job[j].payload
                            /\ job[j].state = "active"
                            /\ job'[j].state \in {"waiting", "active"} => job'[j].made < MaxMade
  BY <1>0, <1>1, <1>2 DEF JobRec, PayloadsKept
<1>4. dlq \subseteq Jobs /\ (\A i \in dlq : job[i].payload # None)
        /\ kept \in [ever : SUBSET Jobs, requeued : SUBSET Jobs, discarded : SUBSET Jobs]
  BY DEF Base, TypeOK, Entries
<1> QED
  BY <1>0, <1>1, <1>3, <1>4, AttemptEnds

LEMMA OnFailedBase ==
  ASSUME Base, NEW w \in Workers, OnFailed(w)
  PROVE  Base'
<1>0. job \in [Jobs -> JobRec] /\ NoRun \in RunRec /\ NoRun.pc = "idle"
  BY TypeParts DEF Base, NoRun, RunRec, PCs
<1>1. /\ run[w].pc = "onfailed" /\ run' = [run EXCEPT ![w] = NoRun]
      /\ run[w].job \in Jobs /\ job[run[w].job].payload # None
      /\ UNCHANGED <<world, job, keys, executed, done, recover>>
  BY DEF OnFailed, Base, Attempting
<1>2. PayloadsKept /\ \A j \in Jobs : job[j].lock # w
  BY <1>1, NamesAssumption DEF Base, Enqueued, Busy, PayloadsKept
<1>3. dlq \subseteq Jobs /\ (\A i \in dlq : job[i].payload # None)
        /\ kept \in [ever : SUBSET Jobs, requeued : SUBSET Jobs, discarded : SUBSET Jobs]
  BY DEF Base, TypeOK, Entries
<1>4. dlq' \subseteq Jobs /\ (\A i \in dlq' : job[i].payload # None)
        /\ kept' \in [ever : SUBSET Jobs, requeued : SUBSET Jobs, discarded : SUBSET Jobs]
  <2>1. CASE UNCHANGED <<dlq, kept>>
    BY <1>3, <2>1
  <2>2. CASE /\ dlq' = dlq \cup {run[w].job}
             /\ kept' = [kept EXCEPT !.ever = @ \cup {run[w].job}]
    BY <1>1, <1>3, <2>2
  <2> QED
    BY <2>1, <2>2 DEF OnFailed
<1> QED
  BY <1>0, <1>1, <1>2, <1>4, AttemptEnds

\* The steps that touch neither jobs nor attempts.
LEMMA RecoveryBase ==
  ASSUME Base, \/ \E a \in Admins : RecoverRead(a) \/ RecoverDelete(a) \/ RecoverCrash(a)
               \/ Discard
               \/ \E u \in Units : ExpireKey(u)
  PROVE  Base'
<1>0. /\ recover \in [Admins -> [job : Jobs \cup {None}, pc : {"idle", "add", "hdel"}]]
      /\ kept \in [ever : SUBSET Jobs, requeued : SUBSET Jobs, discarded : SUBSET Jobs]
      /\ dlq \subseteq Jobs /\ keys \subseteq Units
  BY DEF Base, TypeOK
<1>1. UNCHANGED <<world, job, run, executed, done>>
  BY DEF RecoverRead, RecoverDelete, RecoverCrash, Discard, ExpireKey
<1>2. dlq' \subseteq dlq /\ keys' \subseteq keys
        /\ kept' \in [ever : SUBSET Jobs, requeued : SUBSET Jobs, discarded : SUBSET Jobs]
  BY <1>0 DEF RecoverRead, RecoverDelete, RecoverCrash, Discard, ExpireKey
<1>3. /\ recover' \in [Admins -> [job : Jobs \cup {None}, pc : {"idle", "add", "hdel"}]]
      /\ \A a \in Admins : recover'[a].pc # "idle" =>
           recover'[a].job \in Jobs /\ job[recover'[a].job].payload # None
  <2>1. ASSUME NEW a \in Admins, RecoverRead(a)
        PROVE  /\ recover' \in [Admins -> [job : Jobs \cup {None}, pc : {"idle", "add", "hdel"}]]
               /\ \A b \in Admins : recover'[b].pc # "idle" =>
                    recover'[b].job \in Jobs /\ job[recover'[b].job].payload # None
    <3>1. PICK j \in dlq : recover' = [recover EXCEPT ![a] = [job |-> j, pc |-> "add"]]
      BY <2>1 DEF RecoverRead
    <3> QED
      BY <1>0, <3>1 DEF Base, Entries
  <2>2. ASSUME NEW a \in Admins, RecoverDelete(a) \/ RecoverCrash(a)
        PROVE  /\ recover' \in [Admins -> [job : Jobs \cup {None}, pc : {"idle", "add", "hdel"}]]
               /\ \A b \in Admins : recover'[b].pc # "idle" =>
                    recover'[b].job \in Jobs /\ job[recover'[b].job].payload # None
    BY <1>0, <2>2 DEF RecoverDelete, RecoverCrash, NoRecovery, Base, Entries
  <2>3. CASE Discard \/ \E u \in Units : ExpireKey(u)
    BY <1>0, <2>3 DEF Discard, ExpireKey, Base, Entries
  <2> QED
    BY <2>1, <2>2, <2>3
<1>4. Entries'
  BY <1>1, <1>2, <1>3 DEF Base, Entries
<1>5. TypeOK'
  BY <1>0, <1>1, <1>2, <1>3 DEF Base, TypeOK, Us
<1> QED
  BY <1>1, <1>4, <1>5 DEF Base, Attempting, Enqueued

LEMMA InitBase == Init => Base
<1> SUFFICES ASSUME Init PROVE Base
  OBVIOUS
<1>1. NoJob \in JobRec /\ NoRun \in RunRec /\ NoJob.payload = None /\ NoJob.lock = None
        /\ NoJob.state = "none" /\ NoRun.pc = "idle"
  BY BoundAssumption DEF NoJob, NoRun, JobRec, RunRec, States, PCs
<1>2. TypeOK
  BY <1>1 DEF Init, TypeOK, JobRec, RunRec, NoRecovery
<1>3. Attempting /\ Enqueued /\ Entries
  BY <1>1 DEF Init, Attempting, Enqueued, Entries, NoRecovery
<1> QED
  BY <1>2, <1>3 DEF Base

LEMMA NextBase == Base /\ [Next]_vars => Base'
<1> SUFFICES ASSUME Base, [Next]_vars PROVE Base'
  OBVIOUS
<1>1. CASE UNCHANGED vars
  BY <1>1 DEF vars, Base, TypeOK, Attempting, Enqueued, Entries, Us
<1>2. ASSUME NEW w \in Workers, Work(w) PROVE Base'
  BY <1>2, HandlerStep, HandlesBase, CompleteBase, FailBase, OnFailedBase DEF Work
<1> QED
  BY <1>1, <1>2, AddBase, RecoverAddBase, OperatorBase, TakeBase, CrashBase, RecoveryBase
  DEF Next, Operator, Environment, RecoverStep

\* The types hold, and no handler reads a unit that its payload does not have,
\* for every number of jobs, workers and recoveries, under all faults.
THEOREM TypeCorrect == Spec => []TypeOK
<1>1. Base => TypeOK
  BY DEF Base
<1> QED
  BY <1>1, InitBase, NextBase, PTL DEF Spec

-----------------------------------------------------------------------------
(* Nothing is executed twice.                                              *)

\* A step that is not one of a running handler: the attempts that are at a unit,
\* or past the last, stay as they are, and no key is set.
Elsewhere ==
  /\ UNCHANGED <<world, executed, done>> /\ PayloadsKept
  /\ keys' \subseteq keys /\ (keys' = keys \/ May("expiry"))
  /\ \A w \in Workers : run'[w].pc \in AtUnit \cup {"end", "complete"} => run'[w] = run[w]

LEMMA TakeElsewhere ==
  ASSUME Base, NEW w \in Workers, Take(w)
  PROVE  Elsewhere /\ \A v \in Workers \ {w} : run'[v] = run[v]
<1>0. job \in [Jobs -> JobRec] /\ run \in [Workers -> RunRec]
  BY TypeParts DEF Base
<1>1. PICK j \in Jobs :
        /\ job' = [job EXCEPT ![j].state = "active", ![j].lock = w]
        /\ run' = [run EXCEPT ![w] = [job |-> j, idx |-> 1, failures |-> FALSE,
                                      pc |-> IF HasHandler(j) THEN "start" ELSE "fail"]]
        /\ UNCHANGED <<world, keys, executed, done, dlq, recover, kept>>
  BY Zenon DEF Take
<1>2. PayloadsKept
  BY <1>0, <1>1 DEF PayloadsKept, JobRec
<1>3. run'[w].pc \in {"start", "fail"} /\ \A v \in Workers \ {w} : run'[v] = run[v]
  BY <1>0, <1>1
<1> QED
  BY <1>1, <1>2, <1>3 DEF Elsewhere, AtUnit

LEMMA EndElsewhere ==
  ASSUME Base, NEW w \in Workers, Complete(w) \/ Fail(w) \/ Crash(w) \/ OnFailed(w)
  PROVE  Elsewhere /\ run'[w].pc \in {"idle", "onfailed"} /\ \A v \in Workers \ {w} : run'[v] = run[v]
<1>0. job \in [Jobs -> JobRec] /\ run \in [Workers -> RunRec]
  BY TypeParts DEF Base
<1>1. PayloadsKept /\ UNCHANGED <<world, keys, executed, done>>
  <2>1. CASE Complete(w)
    BY <1>0, <2>1 DEF Complete, PayloadsKept, JobRec
  <2>2. CASE Fail(w)
    BY <1>0, <2>2 DEF Fail, PayloadsKept, JobRec
  <2>3. CASE Crash(w)
    BY <1>0, <2>3 DEF Crash, PayloadsKept, JobRec
  <2>4. CASE OnFailed(w)
    BY <2>4 DEF OnFailed, PayloadsKept
  <2> QED
    BY <2>1, <2>2, <2>3, <2>4
<1>2. run'[w].pc \in {"idle", "onfailed"} /\ \A v \in Workers \ {w} : run'[v] = run[v]
  BY <1>0 DEF Complete, Fail, Crash, OnFailed, Goto, NoRun, RunRec
<1> QED
  BY <1>1, <1>2 DEF Elsewhere, AtUnit

LEMMA StepKinds ==
  ASSUME Base, [Next]_vars
  PROVE  \/ \E w \in Workers, rec \in RunRec : Handles(w, rec)
         \/ Elsewhere
<1>0. job \in [Jobs -> JobRec] /\ run \in [Workers -> RunRec]
  BY TypeParts DEF Base
<1>1. CASE UNCHANGED vars
  BY <1>1 DEF vars, Elsewhere, PayloadsKept
<1>2. CASE Add
  <2>1. PICK j \in Jobs, p \in world.payloads : Enqueue(j, p, TRUE)
    BY <1>2 DEF Add
  <2>2. PayloadsKept
    BY <1>0, <2>1 DEF Enqueue, NextId, PayloadsKept
  <2> QED
    BY <1>2, <2>2 DEF Add, Elsewhere
<1>3. ASSUME NEW j \in Jobs, RetryJob(j) \/ RemoveJob(j) \/ Stall(j) PROVE Elsewhere
  <2>1. PayloadsKept
    <3>1. CASE RetryJob(j) \/ RemoveJob(j)
      BY <1>0, <3>1 DEF RetryJob, RemoveJob, PayloadsKept, JobRec
    <3>2. CASE Stall(j)
      BY <1>0, <3>2 DEF Stall, PayloadsKept, JobRec
    <3> QED
      BY <1>3, <3>1, <3>2
  <2> QED
    BY <1>3, <2>1 DEF RetryJob, RemoveJob, Stall, Elsewhere
<1>4. CASE \/ Discard \/ \E a \in Admins : RecoverRead(a) \/ RecoverDelete(a) \/ RecoverCrash(a)
  BY <1>4 DEF Discard, RecoverRead, RecoverDelete, RecoverCrash, Elsewhere, PayloadsKept
<1>5. CASE \E u \in Units : ExpireKey(u)
  BY <1>5 DEF ExpireKey, Elsewhere, PayloadsKept
<1>6. ASSUME NEW a \in Admins, RecoverAdd(a) PROVE Elsewhere
  <2>1. PayloadsKept
    <3>1. CASE \E j \in Jobs : Enqueue(j, job[recover[a].job].payload, FALSE)
      BY <1>0, <3>1 DEF Enqueue, NextId, PayloadsKept
    <3>2. CASE UNCHANGED job
      BY <3>2 DEF PayloadsKept
    <3> QED
      BY <1>6, <3>1, <3>2 DEF RecoverAdd
  <2> QED
    BY <1>6, <2>1 DEF RecoverAdd, Elsewhere
<1>7. ASSUME NEW w \in Workers,
             Take(w) \/ Complete(w) \/ Fail(w) \/ Crash(w) \/ OnFailed(w)
      PROVE  Elsewhere
  BY <1>7, TakeElsewhere, EndElsewhere
<1>8. ASSUME NEW w \in Workers, Work(w)
      PROVE  (\E v \in Workers, rec \in RunRec : Handles(v, rec)) \/ Elsewhere
  BY <1>7, <1>8, HandlerStep DEF Work
<1> QED
  BY <1>1, <1>2, <1>3, <1>4, <1>5, <1>6, <1>7, <1>8
  DEF Next, Operator, Environment, RecoverStep

\* What an attempt that stays as it is works on stays the same.
LEMMA SameUnits ==
  ASSUME Base, PayloadsKept, NEW w \in Workers, run[w].pc # "idle", run'[w] = run[w]
  PROVE  Us(w)' = Us(w) /\ Unit(w)' = Unit(w) /\ Kind(w)' = Kind(w)
           /\ job'[run'[w].job].payload = job[run[w].job].payload
BY DEF Base, Attempting, PayloadsKept, Us, Unit, Kind

\* A key is held for as long as its unit is being executed, and nobody else is
\* between claim and release of the same unit.
Holders ==
  ~May("expiry") =>
    \A w \in Workers : run[w].pc \in Holding =>
      /\ Unit(w) \in keys
      /\ \A v \in Workers \ {w} : run[v].pc \in Holding => Unit(v) # Unit(w)

\* A key that is not held marks a unit that has not been executed.
Markers ==
  ~May("late") /\ ~Redis /\ ~May("expiry") =>
    /\ \A u \in Units : executed[u] <= 1 /\ (executed[u] > 0 => u \in keys)
    /\ \A w \in Workers : run[w].pc \in {"execute", "release"} => executed[Unit(w)] = 0

\* The key of what is done is held, and by no attempt that may release it.
DoneHeld ==
  ~May("expiry") =>
    done \subseteq keys /\ \A w \in Workers : run[w].pc \in Holding => Unit(w) \notin done

LEMMA HandlesUnits ==
  ASSUME Base, NEW w \in Workers, NEW rec \in RunRec, Handles(w, rec)
  PROVE  /\ PayloadsKept /\ run'[w] = rec /\ (\A v \in Workers \ {w} : run'[v] = run[v])
         /\ \A v \in Workers : run[v].pc # "idle" =>
              /\ Us(v)' = Us(v) /\ Kind(v)' = Kind(v)
              /\ job'[run'[v].job].payload = job[run[v].job].payload
              /\ v # w => Unit(v)' = Unit(v)
         /\ rec.idx = run[w].idx => Unit(w)' = Unit(w)
<1>1. /\ UNCHANGED job /\ run'[w] = rec /\ rec.job = run[w].job
      /\ \A v \in Workers \ {w} : run'[v] = run[v]
  BY HandlesTo
<1>2. PayloadsKept
  BY <1>1 DEF PayloadsKept
<1> QED
  BY <1>1, <1>2 DEF Us, Unit, Kind

\* A handler is between claim and release of the unit it was at before, unless
\* it has just set the unit's key.
LEMMA HandlesHolding ==
  ASSUME Base, NEW w \in Workers, NEW rec \in RunRec, Handles(w, rec), rec.pc \in Holding
  PROVE  /\ Unit(w)' = Unit(w) /\ Unit(w) \in Units /\ rec.idx = run[w].idx
         /\ \/ /\ run[w].pc = "claim" /\ rec.pc = "execute" /\ executed' = executed
               /\ Unit(w) \notin keys /\ keys' = keys \cup {Unit(w)}
            \/ run[w].pc = "execute" /\ rec.pc \in {"progress", "release"} /\ keys' = keys
            \/ run[w].pc = "progress" /\ rec.pc = "release" /\ keys' = keys /\ Redis
<1>0. run[w] \in RunRec
  BY TypeParts DEF Base
<1>1. \A l : rec = [run[w] EXCEPT !.pc = l] => rec.pc = l /\ rec.idx = run[w].idx
  BY <1>0 DEF RunRec
<1>2. \A f : Advances(w, rec, f) => rec.pc \notin Holding
  BY DEF Advances, Holding
<1>3. /\ rec.idx = run[w].idx
      /\ \/ /\ run[w].pc = "claim" /\ rec.pc = "execute" /\ executed' = executed
            /\ Unit(w) \notin keys /\ keys' = keys \cup {Unit(w)}
         \/ run[w].pc = "execute" /\ rec.pc \in {"progress", "release"} /\ keys' = keys
         \/ run[w].pc = "progress" /\ rec.pc = "release" /\ keys' = keys /\ Redis
  BY <1>1, <1>2 DEF Handles, Holding
<1>4. Unit(w) \in Units
  BY <1>3, UnitsType DEF AtUnit
<1>5. Unit(w)' = Unit(w)
  BY <1>3, HandlesUnits
<1> QED
  BY <1>3, <1>4, <1>5

\* What a handler's step does to the keys.
LEMMA HandlesKeys ==
  ASSUME Base, NEW w \in Workers, NEW rec \in RunRec, Handles(w, rec)
  PROVE  \/ keys' = keys
         \/ run[w].pc = "claim" /\ keys' = keys \cup {Unit(w)}
         \/ run[w].pc = "release" /\ keys' = keys \ {Unit(w)} /\ rec.pc \notin Holding
<1>1. \A f : Advances(w, rec, f) => rec.pc \notin Holding
  BY DEF Advances, Holding
<1> QED
  BY <1>1 DEF Handles, Holding

LEMMA HoldersNext ==
  ASSUME Base, Holders, [Next]_vars
  PROVE  Holders'
<1>1. CASE Elsewhere
  <2> SUFFICES ASSUME ~May("expiry"), NEW w \in Workers, run'[w].pc \in Holding
               PROVE  /\ Unit(w)' \in keys'
                      /\ \A v \in Workers \ {w} : run'[v].pc \in Holding => Unit(v)' # Unit(w)'
    BY <1>1 DEF Holders, Elsewhere, May
  <2>1. \A v \in Workers : run'[v].pc \in Holding => run'[v] = run[v] /\ Unit(v)' = Unit(v)
    BY <1>1, SameUnits DEF Elsewhere, AtUnit, Holding
  <2> QED
    BY <1>1, <2>1 DEF Elsewhere, Holders
<1>2. ASSUME NEW x \in Workers, NEW rec \in RunRec, Handles(x, rec) PROVE Holders'
  <2> SUFFICES ASSUME ~May("expiry"), NEW w \in Workers, run'[w].pc \in Holding
               PROVE  /\ Unit(w)' \in keys'
                      /\ \A v \in Workers \ {w} : run'[v].pc \in Holding => Unit(v)' # Unit(w)'
    <3>1. UNCHANGED world
      BY <1>2, HandlesTo
    <3> QED
      BY <3>1 DEF Holders, May
  <2>0. run'[x] = rec /\ \A v \in Workers \ {x} : run'[v] = run[v]
    BY <1>2, HandlesUnits
  <2>1. \A v \in Workers \ {x} : run[v].pc \in Holding => Unit(v)' = Unit(v)
    BY <1>2, HandlesUnits DEF Holding
  <2>2. CASE rec.pc \in Holding
    <3>1. /\ Unit(x)' = Unit(x) /\ Unit(x) \in keys'
          /\ \A v \in Workers \ {x} : run[v].pc \in Holding => Unit(v) # Unit(x) /\ Unit(v) \in keys'
      BY <1>2, <2>2, HandlesHolding DEF Holders, Holding
    <3> QED
      BY <2>0, <2>1, <3>1 DEF Holders
  <2>3. CASE rec.pc \notin Holding
    <3>1. w # x /\ run[w].pc \in Holding /\ Unit(w) \in keys
      BY <2>0, <2>3 DEF Holders
    <3>2. run[x].pc = "release" => Unit(x) # Unit(w)
      BY <3>1 DEF Holders, Holding
    <3>3. Unit(w) \in keys'
      BY <1>2, <3>1, <3>2, HandlesKeys
    <3> QED
      BY <2>0, <2>1, <2>3, <3>1, <3>3 DEF Holders
  <2> QED
    BY <2>2, <2>3
<1> QED
  BY <1>1, <1>2, StepKinds

LEMMA MarkersNext ==
  ASSUME Base, Holders, Markers, [Next]_vars
  PROVE  Markers'
<1>0. executed \in [Units -> 0..2]
  BY DEF Base, TypeOK
<1>1. CASE Elsewhere
  <2> SUFFICES ASSUME ~May("late"), ~Redis, ~May("expiry")
               PROVE  /\ \A u \in Units : executed'[u] <= 1 /\ (executed'[u] > 0 => u \in keys')
                      /\ \A w \in Workers : run'[w].pc \in {"execute", "release"} =>
                           executed'[Unit(w)'] = 0
    BY <1>1 DEF Markers, Elsewhere, May, Redis
  <2>1. \A v \in Workers : run'[v].pc \in {"execute", "release"} =>
          run'[v] = run[v] /\ Unit(v)' = Unit(v)
    BY <1>1, SameUnits DEF Elsewhere, AtUnit
  <2> QED
    BY <1>1, <2>1 DEF Elsewhere, Markers
<1>2. ASSUME NEW x \in Workers, NEW rec \in RunRec, Handles(x, rec) PROVE Markers'
  <2> SUFFICES ASSUME ~May("late"), ~Redis, ~May("expiry")
               PROVE  /\ \A u \in Units : executed'[u] <= 1 /\ (executed'[u] > 0 => u \in keys')
                      /\ \A w \in Workers : run'[w].pc \in {"execute", "release"} =>
                           executed'[Unit(w)'] = 0
    <3>1. UNCHANGED world
      BY <1>2, HandlesTo
    <3> QED
      BY <3>1 DEF Markers, May, Redis
  <2>0. run'[x] = rec /\ \A v \in Workers \ {x} : run'[v] = run[v]
    BY <1>2, HandlesUnits
  <2>1. \A v \in Workers \ {x} : run[v].pc # "idle" => Unit(v)' = Unit(v)
    BY <1>2, HandlesUnits
  <2>2. \A v \in Workers \ {x} : run'[v].pc \in {"execute", "release"} =>
          executed[Unit(v)] = 0 /\ Unit(v)' = Unit(v) /\ Unit(v) \in Units
    BY <2>0, <2>1, UnitsType DEF Markers, AtUnit
  <2>3. CASE executed' = executed
    <3>1. \A u \in Units : executed[u] > 0 => u \in keys'
      <4>1. run[x].pc = "release" => executed[Unit(x)] = 0
        BY DEF Markers
      <4> QED
        BY <1>2, <4>1, HandlesKeys DEF Markers
    <3>2. rec.pc \in {"execute", "release"} => executed[Unit(x)'] = 0
      BY <1>0, <1>2, HandlesHolding DEF Markers, Holding
    <3> QED
      BY <2>0, <2>2, <2>3, <3>1, <3>2 DEF Markers
  <2>4. CASE executed' # executed
    <3>1. /\ run[x].pc = "execute" /\ keys' = keys
          /\ executed' = [executed EXCEPT ![Unit(x)] = IF @ < 2 THEN @ + 1 ELSE @]
          /\ rec = [run[x] EXCEPT !.pc = "progress"]
      BY <1>2, <2>4 DEF Handles, HasEffect
    <3>2. rec.pc = "progress" /\ Unit(x) \in Units
      BY <3>1, TypeParts, UnitsType DEF Base, RunRec, AtUnit
    <3>3. Unit(x) \in keys /\ executed[Unit(x)] = 0
      BY <3>1 DEF Holders, Markers, Holding
    <3>4. executed'[Unit(x)] = 1 /\ \A u \in Units \ {Unit(x)} : executed'[u] = executed[u]
      BY <1>0, <3>1, <3>2, <3>3
    <3>5. \A v \in Workers \ {x} : run'[v].pc \in {"execute", "release"} => Unit(v) # Unit(x)
      BY <2>0, <3>1 DEF Holders, Holding
    <3>6. \A u \in Units : executed'[u] <= 1 /\ (executed'[u] > 0 => u \in keys')
      BY <3>1, <3>3, <3>4 DEF Markers
    <3>7. \A v \in Workers \ {x} : run'[v].pc \in {"execute", "release"} => executed'[Unit(v)'] = 0
      BY <2>2, <3>4, <3>5
    <3> QED
      BY <2>0, <3>2, <3>6, <3>7
  <2> QED
    BY <2>3, <2>4
<1> QED
  BY <1>1, <1>2, StepKinds

LEMMA DoneHeldNext ==
  ASSUME Base, Holders, DoneHeld, [Next]_vars
  PROVE  DoneHeld'
<1>1. CASE Elsewhere
  <2> SUFFICES ASSUME ~May("expiry")
               PROVE  /\ done' \subseteq keys'
                      /\ \A w \in Workers : run'[w].pc \in Holding => Unit(w)' \notin done'
    BY <1>1 DEF DoneHeld, Elsewhere, May
  <2>1. \A v \in Workers : run'[v].pc \in Holding => run'[v] = run[v] /\ Unit(v)' = Unit(v)
    BY <1>1, SameUnits DEF Elsewhere, AtUnit, Holding
  <2> QED
    BY <1>1, <2>1 DEF Elsewhere, DoneHeld
<1>2. ASSUME NEW x \in Workers, NEW rec \in RunRec, Handles(x, rec) PROVE DoneHeld'
  <2> SUFFICES ASSUME ~May("expiry")
               PROVE  /\ done' \subseteq keys'
                      /\ \A w \in Workers : run'[w].pc \in Holding => Unit(w)' \notin done'
    <3>1. UNCHANGED world
      BY <1>2, HandlesTo
    <3> QED
      BY <3>1 DEF DoneHeld, May
  <2>0. run'[x] = rec /\ \A v \in Workers \ {x} : run'[v] = run[v]
    BY <1>2, HandlesUnits
  <2>1. \A v \in Workers \ {x} : run[v].pc \in Holding => Unit(v)' = Unit(v)
    BY <1>2, HandlesUnits DEF Holding
  <2>2. CASE done' = done
    <3>1. done \subseteq keys'
      BY <1>2, HandlesKeys DEF DoneHeld, Holding
    <3>2. rec.pc \in Holding => Unit(x)' \notin done
      BY <1>2, HandlesHolding DEF DoneHeld, Holding
    <3> QED
      BY <2>0, <2>1, <2>2, <3>1, <3>2 DEF DoneHeld
  <2>3. CASE done' # done
    <3>1. run[x].pc = "progress" /\ keys' = keys /\ done' = done \cup {Unit(x)} /\ rec.pc \notin Holding
      BY <1>2, <2>3 DEF Handles, Advances, Holding
    <3>2. Unit(x) \in keys /\ \A v \in Workers \ {x} : run[v].pc \in Holding => Unit(v) # Unit(x)
      BY <3>1 DEF Holders, Holding
    <3> QED
      BY <2>0, <2>1, <3>1, <3>2 DEF DoneHeld
  <2> QED
    BY <2>2, <2>3
<1> QED
  BY <1>1, <1>2, StepKinds

\* "A Bull retry never executes a completed swap twice": for any number of
\* workers, and whatever retries, late errors, crashes, stalls, zombies,
\* recoveries and Redis failures there are, what has been executed without an
\* error is not executed again, and two workers never execute one unit side by
\* side, unless its key expires; nothing at all is executed twice when nothing
\* throws after an effect either.
THEOREM ExecutedOnce == Spec => []NothingTwice
<1>1. Init => Holders /\ Markers /\ DoneHeld
  BY DEF Init, Holders, Markers, DoneHeld, NoRun, Holding
<1>2. Base /\ Holders /\ Markers /\ DoneHeld /\ [Next]_vars => Holders' /\ Markers' /\ DoneHeld'
  BY HoldersNext, MarkersNext, DoneHeldNext
<1>3. Base /\ Holders /\ Markers /\ DoneHeld => NothingTwice
  BY DEF Holders, Markers, DoneHeld, NothingTwice, DoneOnce, AtMostOnce, OneExecutor, Holding
<1> QED
  BY <1>1, <1>2, <1>3, InitBase, NextBase, PTL DEF Spec

-----------------------------------------------------------------------------
(* While attempts only throw: retries resume, failures are kept.           *)

\* A running job is locked, and by the one worker that runs it.
Locked ==
  /\ \A j \in Jobs : job[j].state = "active" => job[j].lock # None
  /\ \A w \in Workers : run[w].pc \in Busy => job[run[w].job].lock = w

\* A step that no worker takes: at most one job changes, none is running then,
\* and a job that is enqueued under its name is the first of its payload.
QuietJob(j) ==
  /\ \A i \in Jobs \ {j} : job'[i] = job[i]
  /\ job'[j].lock = job[j].lock
  /\ job'[j] = job[j] \/ job'[j].state \in {"waiting", "none"}
  /\ \/ job'[j].payload = job[j].payload /\ job'[j].named = job[j].named
     \/ /\ job[j].payload = None
        /\ job'[j].named => \A i \in Jobs : job[i].payload # job'[j].payload

Quiet ==
  /\ UNCHANGED <<world, run, keys, executed, done>> /\ PayloadsKept /\ kept'.ever = kept.ever
  /\ job' = job \/ \E j \in Jobs : QuietJob(j)

LEMMA EnqueueQuiet ==
  ASSUME Base, NEW j \in Jobs, NEW p \in Payloads, NEW named \in BOOLEAN,
         Enqueue(j, p, named), named => \A i \in Jobs : job[i].payload # p
  PROVE  QuietJob(j) /\ PayloadsKept
<1>0. job \in [Jobs -> JobRec]
  BY TypeParts DEF Base
<1> DEFINE rec == [payload |-> p, state |-> "waiting", made |-> 0, stalled |-> FALSE,
                   lock |-> None, named |-> named]
<1>1. job' = [job EXCEPT ![j] = rec] /\ job[j].payload = None
  BY EnqueueStep
<1>2. job[j].lock = None
  BY <1>1 DEF Base, Enqueued
<1>3. rec.payload = p /\ rec.state = "waiting" /\ rec.lock = None /\ rec.named = named
  BY Zenon
<1> HIDE DEF rec
<1>4. job'[j] = rec /\ \A i \in Jobs \ {j} : job'[i] = job[i]
  BY <1>0, <1>1
<1> QED
  BY <1>1, <1>2, <1>3, <1>4 DEF QuietJob, PayloadsKept

LEMMA CalmSteps ==
  ASSUME Base, OnlyThrows, Locked, [Next]_vars
  PROVE  \/ \E w \in Workers : \/ \E rec \in RunRec : Handles(w, rec)
                               \/ Take(w) \/ Complete(w) \/ Fail(w) \/ OnFailed(w)
         \/ Quiet
<1>0. job \in [Jobs -> JobRec]
        /\ kept \in [ever : SUBSET Jobs, requeued : SUBSET Jobs, discarded : SUBSET Jobs]
  BY TypeParts DEF Base, TypeOK
<1>1. ~May("crash") /\ ~May("stall") /\ ~May("expiry")
  BY DEF OnlyThrows, May
<1>2. CASE UNCHANGED vars
  BY <1>2 DEF vars, Quiet, PayloadsKept
<1>3. CASE Add
  <2>1. PICK j \in Jobs, p \in world.payloads :
          (\A i \in Jobs : job[i].payload # p) /\ Enqueue(j, p, TRUE)
    BY <1>3 DEF Add
  <2>2. p \in Payloads
    BY <2>1, ScenarioAssumption DEF Base, TypeOK
  <2>3. QuietJob(j) /\ PayloadsKept
    BY <2>1, <2>2, EnqueueQuiet
  <2> QED
    BY <1>3, <2>3 DEF Add, Quiet
<1>4. ASSUME NEW j \in Jobs, RetryJob(j) \/ RemoveJob(j) PROVE Quiet
  <2>1. QuietJob(j) /\ PayloadsKept
    BY <1>0, <1>4 DEF RetryJob, RemoveJob, QuietJob, PayloadsKept, JobRec
  <2> QED
    BY <1>4, <2>1 DEF RetryJob, RemoveJob, Quiet
<1>5. ASSUME NEW j \in Jobs, Stall(j) PROVE FALSE
  BY <1>1, <1>5 DEF Stall, Locked
<1>6. CASE Discard \/ \E a \in Admins : RecoverRead(a) \/ RecoverDelete(a)
  BY <1>0, <1>6 DEF Discard, RecoverRead, RecoverDelete, Quiet, PayloadsKept
<1>7. CASE \/ \E u \in Units : ExpireKey(u)
           \/ \E w \in Workers : Crash(w)
           \/ \E a \in Admins : RecoverCrash(a)
  BY <1>1, <1>7 DEF ExpireKey, Crash, RecoverCrash
<1>8. ASSUME NEW a \in Admins, RecoverAdd(a) PROVE Quiet
  <2>1. UNCHANGED <<world, run, keys, executed, done>> /\ kept'.ever = kept.ever
    BY <1>0, <1>8 DEF RecoverAdd
  <2>2. recover[a].job \in Jobs /\ job[recover[a].job].payload \in Payloads
    BY <1>0, <1>8 DEF RecoverAdd, Base, Entries, JobRec
  <2>3. CASE \E j \in Jobs : Enqueue(j, job[recover[a].job].payload, FALSE)
    <3>1. PICK j \in Jobs : Enqueue(j, job[recover[a].job].payload, FALSE)
      BY <2>3
    <3>2. QuietJob(j) /\ PayloadsKept
      BY <2>2, <3>1, EnqueueQuiet
    <3> QED
      BY <2>1, <3>2 DEF Quiet
  <2>4. CASE UNCHANGED job
    BY <2>1, <2>4 DEF Quiet, PayloadsKept
  <2> QED
    BY <1>8, <2>3, <2>4 DEF RecoverAdd
<1>9. ASSUME NEW w \in Workers, Work(w)
      PROVE  \/ \E rec \in RunRec : Handles(w, rec)
             \/ Complete(w) \/ Fail(w) \/ OnFailed(w)
  BY <1>9, HandlerStep DEF Work
<1> QED
  BY <1>2, <1>3, <1>4, <1>5, <1>6, <1>7, <1>8, <1>9
  DEF Next, Operator, Environment, RecoverStep

\* How Bull's steps change a job.
LEMMA TakeStep ==
  ASSUME Base, NEW w \in Workers, Take(w)
  PROVE  \E j \in Jobs :
           /\ run[w].pc = "idle" /\ job[j].state = "waiting" /\ UNCHANGED kept
           /\ job'[j].state = "active" /\ job'[j].lock = w
           /\ job'[j].payload = job[j].payload /\ job'[j].named = job[j].named
           /\ \A i \in Jobs \ {j} : job'[i] = job[i]
           /\ run'[w].job = j /\ run'[w].pc \in {"start", "fail"}
           /\ run'[w].pc = "start" => HasHandler(j)
           /\ \A v \in Workers \ {w} : run'[v] = run[v]
<1>0. job \in [Jobs -> JobRec] /\ run \in [Workers -> RunRec]
  BY TypeParts DEF Base
<1>1. PICK j \in Jobs :
        /\ run[w].pc = "idle" /\ job[j].state = "waiting"
        /\ job' = [job EXCEPT ![j].state = "active", ![j].lock = w]
        /\ run' = [run EXCEPT ![w] = [job |-> j, idx |-> 1, failures |-> FALSE,
                                      pc |-> IF HasHandler(j) THEN "start" ELSE "fail"]]
        /\ UNCHANGED <<world, keys, executed, done, dlq, recover, kept>>
  BY Zenon DEF Take
<1>2. /\ job'[j].state = "active" /\ job'[j].lock = w
      /\ job'[j].payload = job[j].payload /\ job'[j].named = job[j].named
      /\ \A i \in Jobs \ {j} : job'[i] = job[i]
  BY <1>0, <1>1 DEF JobRec
<1>3. /\ run'[w].job = j /\ run'[w].pc \in {"start", "fail"} /\ (run'[w].pc = "start" => HasHandler(j))
      /\ \A v \in Workers \ {w} : run'[v] = run[v]
  <2>1. CASE HasHandler(j)
    BY <1>0, <1>1, <2>1
  <2>2. CASE ~HasHandler(j)
    BY <1>0, <1>1, <2>2
  <2> QED
    BY <2>1, <2>2
<1> QED
  BY <1>1, <1>2, <1>3

LEMMA CompleteStep ==
  ASSUME Base, Locked, NEW w \in Workers, Complete(w)
  PROVE  LET j == run[w].job
         IN  /\ j \in Jobs /\ run[w].pc = "complete" /\ job[j].lock = w /\ UNCHANGED kept
             /\ job'[j].state = "completed" /\ job'[j].lock = None
             /\ job'[j].payload = job[j].payload /\ job'[j].named = job[j].named
             /\ \A i \in Jobs \ {j} : job'[i] = job[i]
             /\ run'[w].pc = "idle" /\ \A v \in Workers \ {w} : run'[v] = run[v]
<1>0. job \in [Jobs -> JobRec] /\ run \in [Workers -> RunRec]
  BY TypeParts DEF Base
<1>1. run[w].job \in Jobs /\ run[w].pc = "complete" /\ job[run[w].job].lock = w
  BY DEF Complete, Base, Attempting, Locked, Busy, PCs
<1>2. job' = [job EXCEPT ![run[w].job].state = "completed", ![run[w].job].lock = None]
        /\ UNCHANGED kept /\ run' = [run EXCEPT ![w] = NoRun]
  BY <1>1 DEF Complete
<1> QED
  BY <1>0, <1>1, <1>2 DEF JobRec, NoRun

LEMMA FailStep ==
  ASSUME Base, Locked, NEW w \in Workers, Fail(w)
  PROVE  LET j == run[w].job
         IN  /\ j \in Jobs /\ run[w].pc = "fail" /\ job[j].lock = w /\ UNCHANGED kept
             /\ \/ job'[j].state = "waiting"
                \/ job'[j].state = "failed" /\ job'[j].made >= Attempts
             /\ job'[j].lock = None
             /\ job'[j].payload = job[j].payload /\ job'[j].named = job[j].named
             /\ \A i \in Jobs \ {j} : job'[i] = job[i]
             /\ run'[w].pc = "onfailed" /\ run'[w].job = j
             /\ \A v \in Workers \ {w} : run'[v] = run[v]
<1>0. job \in [Jobs -> JobRec] /\ run \in [Workers -> RunRec]
  BY TypeParts DEF Base
<1>1. run[w].job \in Jobs /\ run[w].pc = "fail" /\ job[run[w].job].lock = w
  BY DEF Fail, Base, Attempting, Locked, Busy, PCs
<1>2. /\ job' = [job EXCEPT ![run[w].job].made = job[run[w].job].made + 1,
                            ![run[w].job].lock = None,
                            ![run[w].job].state =
                              IF job[run[w].job].made + 1 < Attempts THEN "waiting" ELSE "failed"]
      /\ UNCHANGED kept /\ run' = [run EXCEPT ![w].pc = "onfailed"]
  BY <1>1 DEF Fail, Goto
<1>3. job[run[w].job].made + 1 \in Int /\ Attempts \in Int
  BY <1>0, <1>1, BoundAssumption DEF JobRec
<1>4. CASE job[run[w].job].made + 1 < Attempts
  BY <1>0, <1>1, <1>2, <1>4 DEF JobRec, RunRec
<1>5. CASE ~(job[run[w].job].made + 1 < Attempts)
  BY <1>0, <1>1, <1>2, <1>3, <1>5 DEF JobRec, RunRec
<1> QED
  BY <1>4, <1>5

LEMMA OnFailedStep ==
  ASSUME Base, OnlyThrows, NEW w \in Workers, OnFailed(w)
  PROVE  /\ UNCHANGED job /\ run[w].pc = "onfailed" /\ run'[w].pc = "idle"
         /\ \A v \in Workers \ {w} : run'[v] = run[v]
         /\ kept.ever \subseteq kept'.ever
         /\ job[run[w].job].made >= Attempts => run[w].job \in kept'.ever
<1>0. /\ run \in [Workers -> RunRec]
      /\ kept \in [ever : SUBSET Jobs, requeued : SUBSET Jobs, discarded : SUBSET Jobs]
  BY TypeParts DEF Base, TypeOK
<1>1. ~Redis
  BY DEF OnlyThrows, Redis, May
<1> QED
  BY <1>0, <1>1 DEF OnFailed, Permanent, NoRun

\* A failed job has used its attempts, and onFailed has stored it or will.
Stored ==
  \A j \in Jobs : job[j].state = "failed" =>
    /\ job[j].made >= Attempts
    /\ j \in kept.ever \/ \E w \in Workers : run[w].job = j /\ run[w].pc = "onfailed"

\* Only jobs that have a handler get one, and a payload is enqueued by name once.
Named ==
  /\ \A i, j \in Jobs : /\ job[i].payload = job[j].payload /\ job[i].payload # None
                        /\ job[i].named /\ job[j].named
                        => i = j
  /\ \A w \in Workers : run[w].pc \in AtUnit \cup {"start"} /\ Kind(w) # "email" =>
       job[run[w].job].named

LEMMA LockedNext ==
  ASSUME Base, OnlyThrows, Locked, Stored, Named, [Next]_vars
  PROVE  Locked' /\ Stored' /\ Named'
<1>1. ASSUME NEW w \in Workers, NEW rec \in RunRec, Handles(w, rec)
      PROVE  Locked' /\ Stored' /\ Named'
  <2>1. /\ UNCHANGED <<job, kept>> /\ run'[w] = rec /\ rec.job = run[w].job
        /\ rec.pc \in Busy \ {"start"} /\ rec.pc # "onfailed"
        /\ run[w].pc \in {"start", "claim", "execute", "progress", "release", "end"}
        /\ \A v \in Workers \ {w} : run'[v] = run[v]
    BY <1>1, HandlesTo DEF Busy
  <2>2. Locked'
    <3>1. run[w].pc \in Busy
      BY <2>1 DEF Busy, PCs
    <3> QED
      BY <2>1, <3>1 DEF Locked
  <2>3. Stored'
    BY <2>1 DEF Stored
  <2>4. Named'
    <3>1. rec.pc \in AtUnit => run[w].pc \in AtUnit \cup {"start"}
      <4>1. \A f : run[w].pc = "end" => ~(rec.pc \in AtUnit)
        BY <1>1 DEF Handles, AtUnit
      <4> QED
        BY <2>1, <4>1 DEF AtUnit
    <3>2. \A v \in Workers : Kind(v)' = Kind(v)
      BY <2>1 DEF Kind
    <3> QED
      BY <2>1, <3>1, <3>2 DEF Named, AtUnit
  <2> QED
    BY <2>2, <2>3, <2>4
<1>2. ASSUME NEW w \in Workers, Take(w) PROVE Locked' /\ Stored' /\ Named'
  <2>1. PICK j \in Jobs :
           /\ run[w].pc = "idle" /\ job[j].state = "waiting" /\ UNCHANGED kept
           /\ job'[j].state = "active" /\ job'[j].lock = w
           /\ job'[j].payload = job[j].payload /\ job'[j].named = job[j].named
           /\ \A i \in Jobs \ {j} : job'[i] = job[i]
           /\ run'[w].job = j /\ run'[w].pc \in {"start", "fail"}
           /\ run'[w].pc = "start" => HasHandler(j)
           /\ \A v \in Workers \ {w} : run'[v] = run[v]
    BY <1>2, TakeStep
  <2>2. Locked'
    <3>1. job[j].lock = None
      BY <2>1 DEF Base, Enqueued
    <3>2. \A v \in Workers \ {w} : run[v].pc \in Busy => run[v].job \in Jobs \ {j}
      BY <3>1, NamesAssumption DEF Locked, Base, Attempting, Busy
    <3> QED
      BY <2>1, <3>2, NamesAssumption DEF Locked
  <2>3. Stored'
    BY <2>1 DEF Stored
  <2>4. Named'
    <3>1. \A i \in Jobs : job'[i].payload = job[i].payload /\ job'[i].named = job[i].named
      BY <2>1
    <3>2. \A v \in Workers \ {w} : run[v].pc # "idle" => Kind(v)' = Kind(v)
      BY <2>1, <3>1 DEF Kind, Base, Attempting
    <3>3. run'[w].pc = "start" /\ Kind(w)' # "email" => job'[j].named
      BY <2>1 DEF HasHandler, Kind
    <3>4. \A v \in Workers : run'[v].pc \in AtUnit \cup {"start"} /\ Kind(v)' # "email" =>
            job'[run'[v].job].named
      <4> SUFFICES ASSUME NEW v \in Workers, run'[v].pc \in AtUnit \cup {"start"},
                          Kind(v)' # "email"
                   PROVE  job'[run'[v].job].named
        OBVIOUS
      <4>1. CASE v = w
        BY <2>1, <3>3, <4>1 DEF AtUnit
      <4>2. CASE v # w
        <5>1. run'[v] = run[v] /\ run[v].pc # "idle" /\ run[v].job \in Jobs
          BY <2>1, <4>2 DEF AtUnit, Base, Attempting
        <5>2. job[run[v].job].named
          BY <3>2, <4>2, <5>1 DEF Named
        <5> QED
          BY <3>1, <5>1, <5>2
      <4> QED
        BY <4>1, <4>2
    <3> QED
      BY <3>1, <3>4 DEF Named
  <2> QED
    BY <2>2, <2>3, <2>4
\* A step of a worker that ends its attempt on the job it has locked.
<1>3. ASSUME NEW w \in Workers, NEW j \in Jobs, run[w].pc \in Busy, run[w].job = j,
             job[j].lock = w, job'[j].lock = None, job'[j].state # "active",
             job'[j].payload = job[j].payload, job'[j].named = job[j].named,
             \A i \in Jobs \ {j} : job'[i] = job[i],
             run'[w].pc \in {"idle", "onfailed"}, \A v \in Workers \ {w} : run'[v] = run[v]
      PROVE  Locked' /\ Named'
  <2>1. Locked'
    <3>1. \A v \in Workers \ {w} : run[v].pc \in Busy => run[v].job \in Jobs \ {j}
      BY <1>3 DEF Locked, Base, Attempting, Busy
    <3> QED
      BY <1>3, <3>1 DEF Locked, Busy
  <2>2. Named'
    <3>1. \A i \in Jobs : job'[i].payload = job[i].payload /\ job'[i].named = job[i].named
      BY <1>3
    <3>2. \A v \in Workers : run'[v].pc \in AtUnit \cup {"start"} =>
            run'[v] = run[v] /\ run[v].pc # "idle" /\ Kind(v)' = Kind(v) /\ run[v].job \in Jobs
      BY <1>3, <3>1 DEF Kind, Base, Attempting, AtUnit
    <3> QED
      BY <3>1, <3>2 DEF Named
  <2> QED
    BY <2>1, <2>2
<1>4. ASSUME NEW w \in Workers, Complete(w) PROVE Locked' /\ Stored' /\ Named'
  <2>1. LET j == run[w].job
        IN  /\ j \in Jobs /\ run[w].pc = "complete" /\ job[j].lock = w /\ UNCHANGED kept
            /\ job'[j].state = "completed" /\ job'[j].lock = None
            /\ job'[j].payload = job[j].payload /\ job'[j].named = job[j].named
            /\ \A i \in Jobs \ {j} : job'[i] = job[i]
            /\ run'[w].pc = "idle" /\ \A v \in Workers \ {w} : run'[v] = run[v]
    BY <1>4, CompleteStep
  <2>2. Locked' /\ Named'
    BY <1>3, <2>1 DEF Busy, PCs
  <2>3. Stored'
    BY <2>1 DEF Stored
  <2> QED
    BY <2>2, <2>3
<1>5. ASSUME NEW w \in Workers, Fail(w) PROVE Locked' /\ Stored' /\ Named'
  <2>1. LET j == run[w].job
        IN  /\ j \in Jobs /\ run[w].pc = "fail" /\ job[j].lock = w /\ UNCHANGED kept
            /\ \/ job'[j].state = "waiting"
               \/ job'[j].state = "failed" /\ job'[j].made >= Attempts
            /\ job'[j].lock = None
            /\ job'[j].payload = job[j].payload /\ job'[j].named = job[j].named
            /\ \A i \in Jobs \ {j} : job'[i] = job[i]
            /\ run'[w].pc = "onfailed" /\ run'[w].job = j
            /\ \A v \in Workers \ {w} : run'[v] = run[v]
    BY <1>5, FailStep
  <2>2. Locked' /\ Named'
    BY <1>3, <2>1 DEF Busy, PCs
  <2>3. Stored'
    BY <2>1 DEF Stored
  <2> QED
    BY <2>2, <2>3
<1>6. ASSUME NEW w \in Workers, OnFailed(w) PROVE Locked' /\ Stored' /\ Named'
  <2>1. /\ UNCHANGED job /\ run[w].pc = "onfailed" /\ run'[w].pc = "idle"
        /\ \A v \in Workers \ {w} : run'[v] = run[v]
        /\ kept.ever \subseteq kept'.ever
        /\ job[run[w].job].made >= Attempts => run[w].job \in kept'.ever
    BY <1>6, OnFailedStep
  <2>2. Locked'
    BY <2>1 DEF Locked, Busy
  <2>3. Stored'
    BY <2>1 DEF Stored
  <2>4. Named'
    <3>1. \A v \in Workers : run'[v].pc \in AtUnit \cup {"start"} => run'[v] = run[v]
      BY <2>1 DEF AtUnit
    <3>2. \A v \in Workers : run'[v] = run[v] => Kind(v)' = Kind(v)
      BY <2>1 DEF Kind
    <3> QED
      BY <2>1, <3>1, <3>2 DEF Named
  <2> QED
    BY <2>2, <2>3, <2>4
<1>7. CASE Quiet
  <2>0. UNCHANGED run /\ PayloadsKept /\ kept'.ever = kept.ever
    BY <1>7 DEF Quiet
  <2>1. CASE job' = job
    BY <2>0, <2>1 DEF Locked, Stored, Named, Kind
  <2>2. ASSUME NEW j \in Jobs, QuietJob(j) PROVE Locked' /\ Stored' /\ Named'
    <3>1. Locked'
      BY <2>0, <2>2 DEF QuietJob, Locked, Base, Attempting, Busy
    <3>2. Stored'
      BY <2>0, <2>2 DEF QuietJob, Stored
    <3>3. \A i \in Jobs : job[i].payload # None => job'[i].named = job[i].named
      BY <2>2 DEF QuietJob
    <3>4. \A w \in Workers : run[w].pc \in AtUnit \cup {"start"} =>
            run[w].job \in Jobs /\ job[run[w].job].payload # None /\ Kind(w)' = Kind(w)
      BY <2>0 DEF Base, Attempting, PayloadsKept, Kind, AtUnit
    <3>5. \A i, k \in Jobs : /\ job'[i].payload = job'[k].payload /\ job'[i].payload # None
                             /\ job'[i].named /\ job'[k].named
                             => i = k
      <4>1. CASE job'[j].payload = job[j].payload /\ job'[j].named = job[j].named
        BY <2>2, <4>1 DEF QuietJob, Named
      <4>2. CASE /\ job[j].payload = None
                 /\ job'[j].named => \A i \in Jobs : job[i].payload # job'[j].payload
        BY <2>2, <4>2 DEF QuietJob, Named
      <4> QED
        BY <2>2, <4>1, <4>2 DEF QuietJob
    <3>6. Named'
      BY <2>0, <3>3, <3>4, <3>5 DEF Named
    <3> QED
      BY <3>1, <3>2, <3>6
  <2> QED
    BY <1>7, <2>1, <2>2 DEF Quiet
<1> QED
  BY <1>1, <1>2, <1>4, <1>5, <1>6, <1>7, CalmSteps

\* Between the steps of the handlers the units they are at do not change; a job
\* is completed by a worker that is past its last unit.
LEMMA CalmElsewhere ==
  ASSUME Base, OnlyThrows, Locked, [Next]_vars
  PROVE  \/ \E w \in Workers, rec \in RunRec : Handles(w, rec)
         \/ /\ UNCHANGED <<keys, executed, done>> /\ PayloadsKept
            /\ \A w \in Workers : run'[w].pc \in AtUnit \cup {"end", "complete"} => run'[w] = run[w]
            /\ \A w \in Workers : run[w].pc \in AtUnit => run'[w] = run[w]
            /\ \A j \in Jobs : job'[j].state = "completed" =>
                 /\ job[j].payload # None
                 /\ \/ job[j].state = "completed"
                    \/ \E w \in Workers : run[w].pc = "complete" /\ run[w].job = j
<1>0. job \in [Jobs -> JobRec]
  BY TypeParts DEF Base
<1>1. ~May("expiry")
  BY DEF OnlyThrows, May
<1>2. ASSUME NEW w \in Workers, Take(w)
      PROVE  /\ UNCHANGED <<keys, executed, done>> /\ PayloadsKept
             /\ \A v \in Workers : run'[v].pc \in AtUnit \cup {"end", "complete"} => run'[v] = run[v]
             /\ \A v \in Workers : run[v].pc \in AtUnit => run'[v] = run[v]
             /\ \A j \in Jobs : job'[j].state = "completed" =>
                  job[j].payload # None /\ job[j].state = "completed"
  <2>1. Elsewhere
    BY <1>2, TakeElsewhere
  <2>2. run[w].pc = "idle" /\ \A v \in Workers \ {w} : run'[v] = run[v]
    BY <1>2, TakeElsewhere DEF Take
  <2>3. \A j \in Jobs : job'[j].state = "completed" => job[j].state = "completed"
    BY <1>2, TakeStep
  <2> QED
    BY <1>1, <2>1, <2>2, <2>3 DEF Elsewhere, AtUnit, Base, Enqueued
<1>3. ASSUME NEW w \in Workers, Complete(w) \/ Fail(w) \/ OnFailed(w)
      PROVE  /\ UNCHANGED <<keys, executed, done>> /\ PayloadsKept
             /\ \A v \in Workers : run'[v].pc \in AtUnit \cup {"end", "complete"} => run'[v] = run[v]
             /\ \A v \in Workers : run[v].pc \in AtUnit => run'[v] = run[v]
             /\ \A j \in Jobs : job'[j].state = "completed" =>
                  /\ job[j].payload # None
                  /\ job[j].state = "completed" \/ (run[w].pc = "complete" /\ run[w].job = j)
  <2>1. Elsewhere /\ \A v \in Workers \ {w} : run'[v] = run[v]
    BY <1>3, EndElsewhere
  <2>2. run[w].pc \in {"complete", "fail", "onfailed"} /\ job[run[w].job].payload # None
    BY <1>3 DEF Complete, Fail, OnFailed, Base, Attempting
  <2>3. \A j \in Jobs : job'[j].state = "completed" =>
          job[j].state = "completed" \/ (run[w].pc = "complete" /\ run[w].job = j)
    <3>1. CASE Complete(w)
      BY <3>1, CompleteStep
    <3>2. CASE Fail(w)
      BY <3>2, FailStep
    <3>3. CASE OnFailed(w)
      BY <3>3, OnFailedStep
    <3> QED
      BY <1>3, <3>1, <3>2, <3>3
  <2> QED
    BY <1>1, <2>1, <2>2, <2>3 DEF Elsewhere, AtUnit, Base, Enqueued
<1>4. CASE Quiet
  <2>1. \A j \in Jobs : job'[j].state = "completed" => job[j].state = "completed"
    BY <1>4 DEF Quiet, QuietJob
  <2> QED
    BY <1>4, <2>1 DEF Quiet, Base, Enqueued
<1> QED
  BY <1>2, <1>3, <1>4, CalmSteps

-----------------------------------------------------------------------------
(* What the keys and the attempts say of the executions.                   *)

\* A key marks an execution, or an attempt that is at its unit.
Claimed ==
  /\ \A w \in Workers : run[w].pc = "progress" => executed[Unit(w)] > 0
  /\ \A u \in keys : \/ executed[u] > 0
                     \/ \E w \in Workers : run[w].pc \in {"execute", "release"} /\ Unit(w) = u

\* The units that are executed, or that another job than j names too.
Settled ==
  [j \in Jobs |-> {u \in Units : executed[u] > 0 \/ \E i \in Jobs \ {j} : u \in JobUnits(i)}]

\* An attempt has settled the units it is past, unless it has collected
\* failures; a completed job has settled all.
Passed ==
  /\ \A w \in Workers :
       /\ run[w].pc \in AtUnit /\ ~run[w].failures =>
            \A i \in DOMAIN Us(w) : i < run[w].idx => Us(w)[i] \in Settled[run[w].job]
       /\ run[w].pc \in {"end", "complete"} =>
            \A i \in DOMAIN Us(w) : Us(w)[i] \in Settled[run[w].job]
  /\ \A j \in Jobs : job[j].state = "completed" => \A u \in JobUnits(j) : u \in Settled[j]

\* Every leg in front of the one a route is at has been executed.
Routes ==
  \A w \in Workers :
    run[w].pc \in AtUnit /\ Kind(w) = "multi_leg" /\ OwnLegs(job[run[w].job].payload) =>
      \A i \in DOMAIN Us(w) : i < run[w].idx => executed[Us(w)[i]] > 0

LEMMA ExecutedGrows ==
  ASSUME Base, NEW w \in Workers, NEW rec \in RunRec, Handles(w, rec)
  PROVE  /\ \A u \in Units : executed[u] > 0 => executed'[u] > 0
         /\ \A u \in Units : executed'[u] > 0 =>
              executed[u] > 0 \/ (run[w].pc = "execute" /\ u = Unit(w))
         /\ \/ executed' = executed
            \/ /\ run[w].pc = "execute" /\ rec.pc \in {"progress", "release"} /\ Unit(w) \in Units
               /\ executed'[Unit(w)] > 0
<1>0. executed \in [Units -> 0..2] /\ run[w] \in RunRec
  BY TypeParts DEF Base, TypeOK
<1>1. CASE executed' = executed
  BY <1>1
<1>2. CASE executed' # executed
  <2>1. /\ run[w].pc = "execute"
        /\ rec = [run[w] EXCEPT !.pc = "progress"] \/ rec = [run[w] EXCEPT !.pc = "release"]
        /\ executed' = [executed EXCEPT ![Unit(w)] = IF @ < 2 THEN @ + 1 ELSE @]
    BY <1>2 DEF Handles, HasEffect
  <2>2. Unit(w) \in Units /\ rec.pc \in {"progress", "release"}
    BY <1>0, <2>1, UnitsType DEF AtUnit, RunRec
  <2>3. /\ executed'[Unit(w)] = IF executed[Unit(w)] < 2 THEN executed[Unit(w)] + 1 ELSE executed[Unit(w)]
        /\ \A u \in Units \ {Unit(w)} : executed'[u] = executed[u]
    BY <1>0, <2>1, <2>2
  <2>4. executed[Unit(w)] \in 0..2
    BY <1>0, <2>2
  <2> QED
    BY <2>1, <2>2, <2>3, <2>4
<1> QED
  BY <1>1, <1>2

LEMMA ClaimedNext ==
  ASSUME Base, OnlyThrows, Locked, Claimed, [Next]_vars
  PROVE  Claimed'
<1>0. ~Redis /\ keys \subseteq Units
  BY DEF OnlyThrows, Redis, May, Base, TypeOK
<1>1. ASSUME NEW x \in Workers, NEW rec \in RunRec, Handles(x, rec) PROVE Claimed'
  <2>0. /\ run'[x] = rec /\ (\A v \in Workers \ {x} : run'[v] = run[v])
        /\ \A v \in Workers \ {x} : run[v].pc # "idle" => Unit(v)' = Unit(v)
    BY <1>1, HandlesUnits
  <2>1. /\ \A u \in Units : executed[u] > 0 => executed'[u] > 0
        /\ \/ executed' = executed
           \/ run[x].pc = "execute" /\ executed'[Unit(x)] > 0
    BY <1>1, ExecutedGrows
  <2>2. \A v \in Workers \ {x} : run'[v].pc = "progress" => executed'[Unit(v)'] > 0
    <3> SUFFICES ASSUME NEW v \in Workers \ {x}, run'[v].pc = "progress"
                 PROVE  executed'[Unit(v)'] > 0
      OBVIOUS
    <3>1. run[v].pc = "progress" /\ Unit(v)' = Unit(v) /\ Unit(v) \in Units
      BY <2>0, UnitsType DEF AtUnit
    <3> QED
      BY <2>1, <3>1 DEF Claimed
  <2>3. rec.pc = "progress" => executed'[Unit(x)'] > 0
    <3> SUFFICES ASSUME rec.pc = "progress" PROVE executed'[Unit(x)'] > 0
      OBVIOUS
    <3>1. Unit(x)' = Unit(x) /\ run[x].pc = "execute" /\ run[x] \in RunRec
      BY <1>1, HandlesHolding, TypeParts DEF Holding, Base
    <3>2. rec # [run[x] EXCEPT !.pc = "release"]
      BY <3>1 DEF RunRec
    <3>3. executed' = [executed EXCEPT ![Unit(x)] = IF @ < 2 THEN @ + 1 ELSE @]
      BY <1>1, <3>1, <3>2 DEF Handles, HasEffect
    <3>4. executed \in [Units -> 0..2] /\ Unit(x) \in Units
      BY <3>1, UnitsType DEF Base, TypeOK, AtUnit
    <3> QED
      BY <3>1, <3>3, <3>4
  <2>4. ASSUME NEW u \in keys' PROVE
          \/ executed'[u] > 0
          \/ \E w \in Workers : run'[w].pc \in {"execute", "release"} /\ Unit(w)' = u
    <3>1. CASE u \notin keys
      <4>1. run[x].pc = "claim" /\ u = Unit(x) /\ rec = [run[x] EXCEPT !.pc = "execute"]
        BY <1>1, <2>4, <3>1 DEF Handles
      <4>2. rec.pc = "execute"
        BY <4>1, TypeParts DEF Base, RunRec
      <4>3. Unit(x)' = u
        BY <1>1, <4>1, <4>2, HandlesHolding DEF Holding
      <4> QED
        BY <2>0, <4>2, <4>3
    <3>2. CASE u \in keys /\ executed[u] > 0
      BY <1>0, <2>1, <3>2
    <3>3. CASE u \in keys /\ \E w \in Workers : run[w].pc \in {"execute", "release"} /\ Unit(w) = u
      <4>1. PICK w \in Workers : run[w].pc \in {"execute", "release"} /\ Unit(w) = u
        BY <3>3
      <4>2. CASE w # x
        BY <2>0, <4>1, <4>2
      <4>3. CASE w = x
        <5>1. run[x].pc # "release"
          BY <1>0, <1>1, <2>4, <4>1, <4>3 DEF Handles
        <5>2. CASE executed' # executed
          BY <2>1, <4>1, <4>3, <5>2
        <5>3. CASE executed' = executed
          <6>1. rec.pc = "release" \/ rec.pc = "progress"
            BY <1>1, <4>1, <4>3, <5>1, TypeParts DEF Handles, Base, RunRec
          <6>2. rec.pc = "progress" => executed'[Unit(x)] > 0
            BY <1>1, <2>3, HandlesHolding DEF Holding
          <6>3. rec.pc = "release" => Unit(x)' = Unit(x)
            BY <1>1, HandlesHolding DEF Holding
          <6> QED
            BY <2>0, <4>1, <4>3, <6>1, <6>2, <6>3
        <5> QED
          BY <5>2, <5>3
      <4> QED
        BY <4>2, <4>3
    <3> QED
      BY <3>1, <3>2, <3>3 DEF Claimed
  <2> QED
    BY <2>0, <2>2, <2>3, <2>4 DEF Claimed
<1>2. ASSUME UNCHANGED <<keys, executed, done>>, PayloadsKept,
             \A w \in Workers : run'[w].pc \in AtUnit \cup {"end", "complete"} => run'[w] = run[w],
             \A w \in Workers : run[w].pc \in AtUnit => run'[w] = run[w]
      PROVE  Claimed'
  <2>1. \A w \in Workers : run[w].pc \in AtUnit => Unit(w)' = Unit(w)
    BY <1>2, SameUnits DEF AtUnit
  <2> QED
    BY <1>2, <2>1 DEF Claimed, AtUnit
<1> QED
  BY <1>1, <1>2, CalmElsewhere

\* The units of a job, and of an attempt of it.
LEMMA UnitsOfJobs ==
  ASSUME Base
  PROVE  /\ \A j \in Jobs : JobUnits(j) \subseteq Units
         /\ \A w \in Workers : run[w].pc # "idle" =>
              /\ JobUnits(run[w].job) = {Us(w)[i] : i \in DOMAIN Us(w)}
              /\ \A i \in DOMAIN Us(w) : Us(w)[i] \in Units /\ Us(w)[i] \in JobUnits(run[w].job)
         /\ PayloadsKept => \A j \in Jobs : JobUnits(j) \subseteq JobUnits(j)'
         /\ PayloadsKept => \A j \in Jobs : job[j].payload # None => JobUnits(j)' = JobUnits(j)
<1>1. ASSUME NEW j \in Jobs PROVE JobUnits(j) \subseteq Units
  <2>1. job[j].payload # None => UnitsOf[job[j].payload] \in Seq(Units)
    BY TypeParts, PayloadAssumption DEF Base, JobRec
  <2>2. \A s \in Seq(Units) : Range(s) \subseteq Units
    BY DEF Range
  <2> QED
    BY <2>1, <2>2 DEF JobUnits
<1>2. ASSUME NEW w \in Workers, run[w].pc # "idle"
      PROVE  /\ JobUnits(run[w].job) = {Us(w)[i] : i \in DOMAIN Us(w)}
             /\ \A i \in DOMAIN Us(w) : Us(w)[i] \in Units /\ Us(w)[i] \in JobUnits(run[w].job)
  <2>1. run[w].job \in Jobs /\ job[run[w].job].payload # None
    BY <1>2 DEF Base, Attempting
  <2>2. JobUnits(run[w].job) = {Us(w)[i] : i \in DOMAIN Us(w)}
    BY <2>1 DEF JobUnits, Us, Range
  <2> QED
    BY <1>1, <2>1, <2>2
<1>3. PayloadsKept => \A j \in Jobs : job[j].payload # None => JobUnits(j)' = JobUnits(j)
  BY DEF PayloadsKept, JobUnits
<1>4. \A j \in Jobs : job[j].payload = None => JobUnits(j) = {}
  BY DEF JobUnits
<1> QED
  BY <1>1, <1>2, <1>3, <1>4

\* What is settled stays settled.
LEMMA SettledStays ==
  ASSUME Base, PayloadsKept, \A u \in Units : executed[u] > 0 => executed'[u] > 0,
         NEW j \in Jobs, NEW u \in Units, u \in Settled[j]
  PROVE  u \in Settled'[j]
BY UnitsOfJobs DEF Settled

\* A key that is held is that of an executed unit, or of a unit another job is
\* at: a job is run by one worker at a time.
LEMMA HeldIsSettled ==
  ASSUME Base, Locked, Claimed, NEW x \in Workers, run[x].pc = "claim", Unit(x) \in keys
  PROVE  /\ Unit(x) \in Settled[run[x].job]
         /\ \/ executed[Unit(x)] > 0
            \/ \E v \in Workers \ {x} : /\ run[v].pc \in AtUnit /\ Unit(v) = Unit(x)
                                        /\ run[v].job \in Jobs \ {run[x].job}
<1>0. Unit(x) \in Units /\ run[x].job \in Jobs
  BY UnitsType DEF AtUnit, Base, Attempting
<1>1. CASE executed[Unit(x)] > 0
  BY <1>0, <1>1 DEF Settled
<1>2. CASE \E w \in Workers : run[w].pc \in {"execute", "release"} /\ Unit(w) = Unit(x)
  <2>1. PICK v \in Workers : run[v].pc \in {"execute", "release"} /\ Unit(v) = Unit(x)
    BY <1>2
  <2>2. v # x /\ run[v].pc \in AtUnit /\ run[v].job \in Jobs
    BY <2>1 DEF AtUnit, Base, Attempting
  <2>3. run[v].job # run[x].job
    BY <2>1, <2>2 DEF Locked, Busy, PCs
  <2>4. Unit(v) \in JobUnits(run[v].job)
    <3>1. run[v].idx \in DOMAIN Us(v)
      BY <2>2, TypeParts DEF Base
    <3> QED
      BY <2>2, <3>1, UnitsOfJobs DEF Unit, AtUnit
  <2> QED
    BY <1>0, <2>1, <2>2, <2>3, <2>4 DEF Settled
<1> QED
  BY <1>1, <1>2 DEF Claimed

\* Where a handler that goes on to its next unit, or to the end, comes from: the
\* unit it leaves is settled unless it counts as a failure.
LEMMA Leaves ==
  ASSUME Base, OnlyThrows, Locked, Claimed, NEW x \in Workers, NEW rec \in RunRec,
         Handles(x, rec)
  PROVE  \/ /\ run[x].pc \in {"claim", "execute"} /\ rec.pc \in Holding
            /\ rec.idx = run[x].idx /\ rec.failures = run[x].failures
         \/ run[x].pc = "start" /\ rec.pc = "claim" /\ rec.idx = 1
         \/ run[x].pc = "start" /\ rec.pc = "end" /\ Us(x) = << >>
         \/ rec.pc = "fail"
         \/ run[x].pc = "end" /\ rec.pc = "complete"
         \/ /\ run[x].pc \in AtUnit
            /\ \/ rec.pc = "claim" /\ rec.idx = run[x].idx + 1
               \/ rec.pc \in {"end", "complete"} /\ run[x].idx = Len(Us(x)) /\ ~rec.failures
            /\ \/ run[x].pc = "claim" /\ Unit(x) \in keys /\ rec.failures = run[x].failures
               \/ run[x].pc = "progress" /\ executed[Unit(x)] > 0 /\ rec.failures = run[x].failures
               \/ run[x].pc = "release" /\ rec.failures /\ Kind(x) = "batch"
<1>0. ~Redis /\ run[x] \in RunRec
  BY TypeParts DEF OnlyThrows, Redis, May, Base
<1>1. \A l : rec = [run[x] EXCEPT !.pc = l] =>
        rec.pc = l /\ rec.idx = run[x].idx /\ rec.failures = run[x].failures
  BY <1>0 DEF RunRec
<1>2. \A f : Advances(x, rec, f) =>
        /\ rec.failures = f
        /\ \/ rec.pc = "fail"
           \/ rec.pc = "claim" /\ rec.idx = run[x].idx + 1
           \/ rec.pc \in {"end", "complete"} /\ run[x].idx = Len(Us(x)) /\ ~f
  BY DEF Advances
<1>3. run[x].pc \in {"start", "claim", "execute", "progress", "release", "end"}
  BY HandlesTo
<1>4. CASE run[x].pc = "start"
  <2>1. run[x].idx = 1
    BY <1>4 DEF Base, Attempting
  <2> QED
    BY <1>4, <2>1 DEF Handles
<1>5. CASE run[x].pc = "claim"
  BY <1>1, <1>2, <1>5 DEF Handles, AtUnit, Holding
<1>6. CASE run[x].pc = "execute"
  BY <1>1, <1>6 DEF Handles, Holding
<1>7. CASE run[x].pc = "progress"
  <2>1. executed[Unit(x)] > 0 /\ Advances(x, rec, run[x].failures)
    BY <1>0, <1>7 DEF Handles, Claimed
  <2> QED
    BY <1>2, <1>7, <2>1 DEF AtUnit
<1>8. CASE run[x].pc = "release"
  <2>1. (Kind(x) = "batch" /\ Advances(x, rec, TRUE)) \/ rec.pc = "fail"
    BY <1>8 DEF Handles
  <2> QED
    BY <1>2, <1>8, <2>1 DEF AtUnit
<1>9. CASE run[x].pc = "end"
  BY <1>9 DEF Handles
<1> QED
  BY <1>3, <1>4, <1>5, <1>6, <1>7, <1>8, <1>9

LEMMA PassedNext ==
  ASSUME Base, OnlyThrows, Locked, Claimed, Passed, [Next]_vars
  PROVE  Passed'
<1>1. ASSUME NEW x \in Workers, NEW rec \in RunRec, Handles(x, rec) PROVE Passed'
  <2>0. /\ UNCHANGED job /\ run'[x] = rec /\ rec.job = run[x].job /\ PayloadsKept
        /\ \A v \in Workers \ {x} : run'[v] = run[v]
        /\ \A v \in Workers : run[v].pc # "idle" => Us(v)' = Us(v)
    BY <1>1, HandlesTo, HandlesUnits
  <2>1. \A u \in Units : executed[u] > 0 => executed'[u] > 0
    BY <1>1, ExecutedGrows
  <2>2. \A j \in Jobs, u \in Units : u \in Settled[j] => u \in Settled'[j]
    BY <2>0, <2>1, SettledStays
  <2>3. \A v \in Workers : run[v].pc # "idle" =>
          run[v].job \in Jobs /\ \A i \in DOMAIN Us(v) : Us(v)[i] \in Units
    BY UnitsOfJobs DEF Base, Attempting
  <2>4. \A j \in Jobs : job'[j].state = "completed" => \A u \in JobUnits(j)' : u \in Settled'[j]
    <3>1. \A j \in Jobs : JobUnits(j)' = JobUnits(j) /\ JobUnits(j) \subseteq Units
      BY <2>0, UnitsOfJobs DEF JobUnits
    <3> QED
      BY <2>0, <2>2, <3>1 DEF Passed
  <2>5. ASSUME NEW v \in Workers \ {x}
        PROVE  /\ run'[v].pc \in AtUnit /\ ~run'[v].failures =>
                    \A i \in DOMAIN Us(v)' : i < run'[v].idx => Us(v)'[i] \in Settled'[run'[v].job]
               /\ run'[v].pc \in {"end", "complete"} =>
                    \A i \in DOMAIN Us(v)' : Us(v)'[i] \in Settled'[run'[v].job]
    <3>1. run'[v] = run[v] /\ (run[v].pc # "idle" => Us(v)' = Us(v))
      BY <2>0
    <3>2. run[v].pc # "idle" => \A i \in DOMAIN Us(v) :
            Us(v)[i] \in Settled[run[v].job] => Us(v)[i] \in Settled'[run[v].job]
      BY <2>2, <2>3
    <3> QED
      BY <3>1, <3>2 DEF Passed, AtUnit
  <2>6. run[x].pc # "idle" /\ Us(x)' = Us(x) /\ DOMAIN Us(x) = 1..Len(Us(x)) /\ Len(Us(x)) \in Nat
    BY <1>1, <2>0, HandlesTo, UnitsType
  <2>7. \A i \in DOMAIN Us(x) : Us(x)[i] \in Settled[run[x].job] => Us(x)[i] \in Settled'[run[x].job]
    BY <2>2, <2>3, <2>6
  <2>8. run[x].pc \in AtUnit => run[x].idx \in 1..Len(Us(x)) /\ Unit(x) = Us(x)[run[x].idx]
    BY <2>6, UnitsType DEF Unit
  <2>9. /\ rec.pc \in AtUnit /\ ~rec.failures =>
             \A i \in DOMAIN Us(x) : i < rec.idx => Us(x)[i] \in Settled'[run[x].job]
        /\ rec.pc \in {"end", "complete"} => \A i \in DOMAIN Us(x) : Us(x)[i] \in Settled'[run[x].job]
    <3>1. CASE /\ run[x].pc \in {"claim", "execute"} /\ rec.pc \in Holding
               /\ rec.idx = run[x].idx /\ rec.failures = run[x].failures
      BY <2>7, <3>1 DEF Passed, AtUnit, Holding
    <3>2. CASE run[x].pc = "start" /\ rec.pc = "claim" /\ rec.idx = 1
      BY <2>6, <3>2
    <3>3. CASE run[x].pc = "start" /\ rec.pc = "end" /\ Us(x) = << >>
      BY <2>6, <3>3 DEF AtUnit
    <3>4. CASE rec.pc = "fail"
      BY <3>4 DEF AtUnit
    <3>5. CASE run[x].pc = "end" /\ rec.pc = "complete"
      BY <2>7, <3>5 DEF Passed, AtUnit
    <3>6. CASE /\ run[x].pc \in AtUnit
               /\ \/ rec.pc = "claim" /\ rec.idx = run[x].idx + 1
                  \/ rec.pc \in {"end", "complete"} /\ run[x].idx = Len(Us(x)) /\ ~rec.failures
               /\ \/ run[x].pc = "claim" /\ Unit(x) \in keys /\ rec.failures = run[x].failures
                  \/ run[x].pc = "progress" /\ executed[Unit(x)] > 0 /\ rec.failures = run[x].failures
                  \/ run[x].pc = "release" /\ rec.failures /\ Kind(x) = "batch"
      <4>1. CASE rec.failures
        BY <3>6, <4>1 DEF AtUnit
      <4>2. CASE ~rec.failures
        <5>1. ~run[x].failures /\ Unit(x) \in Settled[run[x].job]
          <6>1. Unit(x) \in Units /\ run[x].job \in Jobs
            BY <2>3, <2>6, <3>6, UnitsType
          <6> QED
            BY <3>6, <4>2, <6>1, HeldIsSettled DEF Settled
        <5>2. \A i \in DOMAIN Us(x) : i < run[x].idx => Us(x)[i] \in Settled[run[x].job]
          BY <3>6, <5>1 DEF Passed
        <5>3. \A i \in DOMAIN Us(x) : i <= run[x].idx => Us(x)[i] \in Settled'[run[x].job]
          BY <2>6, <2>7, <2>8, <3>6, <5>1, <5>2
        <5>4. CASE rec.pc = "claim" /\ rec.idx = run[x].idx + 1
          BY <2>6, <2>8, <3>6, <5>3, <5>4
        <5>5. CASE rec.pc \in {"end", "complete"} /\ run[x].idx = Len(Us(x))
          BY <2>6, <2>8, <3>6, <5>3, <5>5 DEF AtUnit
        <5> QED
          BY <3>6, <5>4, <5>5
      <4> QED
        BY <4>1, <4>2
    <3> QED
      BY <1>1, <3>1, <3>2, <3>3, <3>4, <3>5, <3>6, Leaves
  <2> QED
    BY <2>0, <2>4, <2>5, <2>6, <2>9 DEF Passed
<1>2. ASSUME UNCHANGED <<keys, executed, done>>, PayloadsKept,
             \A w \in Workers : run'[w].pc \in AtUnit \cup {"end", "complete"} => run'[w] = run[w],
             \A j \in Jobs : job'[j].state = "completed" =>
               /\ job[j].payload # None
               /\ \/ job[j].state = "completed"
                  \/ \E w \in Workers : run[w].pc = "complete" /\ run[w].job = j
      PROVE  Passed'
  <2>1. \A j \in Jobs, u \in Units : u \in Settled[j] => u \in Settled'[j]
    BY <1>2, SettledStays
  <2>2. ASSUME NEW v \in Workers, run'[v].pc \in AtUnit \cup {"end", "complete"}
        PROVE  /\ run'[v] = run[v] /\ Us(v)' = Us(v)
               /\ \A i \in DOMAIN Us(v) : Us(v)[i] \in Settled[run[v].job] => Us(v)[i] \in Settled'[run[v].job]
    <3>1. run'[v] = run[v] /\ run[v].pc # "idle"
      BY <1>2, <2>2 DEF AtUnit
    <3>2. Us(v)' = Us(v) /\ run[v].job \in Jobs /\ \A i \in DOMAIN Us(v) : Us(v)[i] \in Units
      BY <1>2, <3>1, SameUnits, UnitsOfJobs DEF Base, Attempting
    <3> QED
      BY <2>1, <3>1, <3>2
  <2>3. \A w \in Workers :
          /\ run'[w].pc \in AtUnit /\ ~run'[w].failures =>
               \A i \in DOMAIN Us(w)' : i < run'[w].idx => Us(w)'[i] \in Settled'[run'[w].job]
          /\ run'[w].pc \in {"end", "complete"} =>
               \A i \in DOMAIN Us(w)' : Us(w)'[i] \in Settled'[run'[w].job]
    BY <2>2 DEF Passed
  <2>4. ASSUME NEW j \in Jobs, job'[j].state = "completed", NEW u \in JobUnits(j)'
        PROVE  u \in Settled'[j]
    <3>1. JobUnits(j)' = JobUnits(j) /\ JobUnits(j) \subseteq Units
      BY <1>2, <2>4, UnitsOfJobs
    <3>2. u \in Settled[j]
      <4>1. CASE job[j].state = "completed"
        BY <2>4, <3>1, <4>1 DEF Passed
      <4>2. CASE \E w \in Workers : run[w].pc = "complete" /\ run[w].job = j
        <5>1. PICK w \in Workers : run[w].pc = "complete" /\ run[w].job = j
          BY <4>2
        <5>2. PICK i \in DOMAIN Us(w) : u = Us(w)[i]
          BY <2>4, <3>1, <5>1, UnitsOfJobs
        <5> QED
          BY <5>1, <5>2 DEF Passed
      <4> QED
        BY <1>2, <2>4, <4>1, <4>2
    <3> QED
      BY <2>1, <2>4, <3>1, <3>2
  <2> QED
    BY <2>3, <2>4 DEF Passed
<1> QED
  BY <1>1, <1>2, CalmElsewhere

\* Two attempts at one leg of a route with its own legs are attempts of its one
\* named job, so they are the same attempt.
LEMMA LegIsOwn ==
  ASSUME Base, Locked, Named, NEW x \in Workers, NEW v \in Workers,
         run[x].pc \in AtUnit, run[v].pc \in AtUnit, Unit(v) = Unit(x),
         Kind(x) = "multi_leg", OwnLegs(job[run[x].job].payload)
  PROVE  v = x
<1> DEFINE p == job[run[x].job].payload
           q == job[run[v].job].payload
<1>1. /\ run[x].job \in Jobs /\ run[v].job \in Jobs /\ p \in Payloads /\ q \in Payloads
      /\ p # None /\ q # None
  BY TypeParts, NamesAssumption DEF Base, Attempting, AtUnit, JobRec
<1>2. Unit(x) \in Range(UnitsOf[p]) /\ Unit(v) \in Range(UnitsOf[q])
  <2>1. run[x].idx \in DOMAIN Us(x) /\ run[v].idx \in DOMAIN Us(v)
    BY TypeParts DEF Base
  <2>2. /\ Unit(x) = UnitsOf[p][run[x].idx] /\ run[x].idx \in DOMAIN UnitsOf[p]
        /\ Unit(v) = UnitsOf[q][run[v].idx] /\ run[v].idx \in DOMAIN UnitsOf[q]
    BY <2>1 DEF Unit, Us
  <2> HIDE DEF p, q
  <2> QED
    BY <2>2 DEF Range
<1>3. p = q
  BY <1>1, <1>2 DEF OwnLegs
<1>4. job[run[x].job].named /\ job[run[v].job].named
  BY <1>3 DEF Named, Kind
<1>5. run[x].job = run[v].job
  BY <1>1, <1>3, <1>4 DEF Named
<1> QED
  BY <1>5 DEF Locked, AtUnit, Busy, PCs

LEMMA RoutesNext ==
  ASSUME Base, OnlyThrows, Locked, Named, Claimed, Routes, [Next]_vars
  PROVE  Routes'
<1>1. ASSUME NEW x \in Workers, NEW rec \in RunRec, Handles(x, rec) PROVE Routes'
  <2>0. /\ run'[x] = rec /\ rec.job = run[x].job
        /\ \A v \in Workers \ {x} : run'[v] = run[v]
        /\ \A v \in Workers : run[v].pc # "idle" =>
             /\ Us(v)' = Us(v) /\ Kind(v)' = Kind(v)
             /\ job'[run'[v].job].payload = job[run[v].job].payload
    BY <1>1, HandlesTo, HandlesUnits
  <2>1. \A u \in Units : executed[u] > 0 => executed'[u] > 0
    BY <1>1, ExecutedGrows
  <2>2. \A v \in Workers : run[v].pc # "idle" => \A i \in DOMAIN Us(v) : Us(v)[i] \in Units
    BY UnitsOfJobs
  <2>3. ASSUME NEW v \in Workers \ {x}, run'[v].pc \in AtUnit, Kind(v)' = "multi_leg",
               OwnLegs(job'[run'[v].job].payload), NEW i \in DOMAIN Us(v)', i < run'[v].idx
        PROVE  executed'[Us(v)'[i]] > 0
    <3>1. run'[v] = run[v] /\ run[v].pc \in AtUnit /\ run[v].pc # "idle"
      BY <2>0, <2>3 DEF AtUnit
    <3>2. Us(v)' = Us(v) /\ Kind(v) = "multi_leg" /\ OwnLegs(job[run[v].job].payload)
      BY <2>0, <2>3, <3>1
    <3>3. executed[Us(v)[i]] > 0 /\ Us(v)[i] \in Units
      BY <2>2, <2>3, <3>1, <3>2 DEF Routes
    <3> QED
      BY <2>1, <3>2, <3>3
  <2>4. ASSUME rec.pc \in AtUnit, Kind(x)' = "multi_leg", OwnLegs(job'[run'[x].job].payload),
               NEW i \in DOMAIN Us(x)', i < rec.idx
        PROVE  executed'[Us(x)'[i]] > 0
    <3>0. run[x].pc # "idle" /\ Kind(x) = "multi_leg" /\ OwnLegs(job[run[x].job].payload)
            /\ Us(x)' = Us(x) /\ i \in DOMAIN Us(x) /\ Us(x)[i] \in Units
      BY <1>1, <2>0, <2>2, <2>4, HandlesTo
    <3>1. DOMAIN Us(x) = 1..Len(Us(x)) /\ Len(Us(x)) \in Nat
      BY <3>0, UnitsType
    <3>2. CASE run[x].pc \in {"claim", "execute"} /\ rec.idx = run[x].idx
      BY <2>1, <2>4, <3>0, <3>2 DEF Routes, AtUnit
    <3>3. CASE rec.idx = 1
      BY <2>4, <3>0, <3>1, <3>3
    <3>4. CASE /\ run[x].pc \in AtUnit /\ rec.idx = run[x].idx + 1
               /\ \/ run[x].pc = "claim" /\ Unit(x) \in keys
                  \/ run[x].pc = "progress" /\ executed[Unit(x)] > 0
      <4>1. executed[Unit(x)] > 0
        <5>1. ASSUME run[x].pc = "claim", Unit(x) \in keys PROVE executed[Unit(x)] > 0
          <6>1. ~ \E v \in Workers \ {x} : run[v].pc \in AtUnit /\ Unit(v) = Unit(x)
            BY <3>0, <3>4, LegIsOwn
          <6> QED
            BY <5>1, <6>1, HeldIsSettled
        <5> QED
          BY <3>4, <5>1
      <4>2. run[x].idx \in 1..Len(Us(x)) /\ Unit(x) = Us(x)[run[x].idx]
        BY <3>0, <3>4, UnitsType DEF Unit
      <4>3. i < run[x].idx \/ i = run[x].idx
        BY <2>4, <3>0, <3>1, <3>4, <4>2
      <4>4. executed[Us(x)[i]] > 0
        BY <3>0, <3>4, <4>1, <4>2, <4>3 DEF Routes
      <4> QED
        BY <2>1, <3>0, <4>4
    <3> QED
      BY <1>1, <2>4, <3>0, <3>2, <3>3, <3>4, Leaves DEF AtUnit
  <2> QED
    BY <2>0, <2>3, <2>4 DEF Routes
<1>2. ASSUME UNCHANGED executed, PayloadsKept,
             \A w \in Workers : run'[w].pc \in AtUnit \cup {"end", "complete"} => run'[w] = run[w]
      PROVE  Routes'
  <2>1. \A w \in Workers : run'[w].pc \in AtUnit =>
          /\ run'[w] = run[w] /\ Us(w)' = Us(w) /\ Kind(w)' = Kind(w)
          /\ job'[run'[w].job].payload = job[run[w].job].payload
    BY <1>2, SameUnits DEF AtUnit
  <2> QED
    BY <1>2, <2>1 DEF Routes
<1> QED
  BY <1>1, <1>2, CalmElsewhere

LEMMA LegsNext ==
  ASSUME Base, OnlyThrows, Locked, Named, Claimed, Routes, InLegOrder, [Next]_vars
  PROVE  InLegOrder'
<1>1. ASSUME NEW x \in Workers, NEW rec \in RunRec, Handles(x, rec) PROVE InLegOrder'
  <2> SUFFICES ASSUME NEW p \in Payloads, KindOf[p] = "multi_leg", OwnLegs(p),
                      NEW i \in 2..Len(UnitsOf[p]), executed'[UnitsOf[p][i]] > 0
               PROVE  executed'[UnitsOf[p][i - 1]] > 0
    BY DEF InLegOrder
  <2>1. /\ \A u \in Units : executed[u] > 0 => executed'[u] > 0
        /\ \A u \in Units : executed'[u] > 0 =>
             executed[u] > 0 \/ (run[x].pc = "execute" /\ u = Unit(x))
    BY <1>1, ExecutedGrows
  <2>2. UnitsOf[p] \in Seq(Units) /\ IsInjective(UnitsOf[p])
    BY PayloadAssumption
  <2>3. /\ DOMAIN UnitsOf[p] = 1..Len(UnitsOf[p]) /\ Len(UnitsOf[p]) \in Nat
        /\ i \in DOMAIN UnitsOf[p] /\ i - 1 \in DOMAIN UnitsOf[p] /\ i - 1 < i
        /\ UnitsOf[p][i] \in Units /\ UnitsOf[p][i - 1] \in Units
    BY <2>2
  <2>4. CASE executed[UnitsOf[p][i]] > 0
    BY <2>1, <2>3, <2>4 DEF InLegOrder
  <2>5. CASE run[x].pc = "execute" /\ UnitsOf[p][i] = Unit(x)
    <3> DEFINE q == job[run[x].job].payload
    <3>1. q \in Payloads /\ run[x].idx \in DOMAIN UnitsOf[q] /\ Unit(x) = UnitsOf[q][run[x].idx]
      BY <2>5, TypeParts, NamesAssumption DEF Base, Attempting, JobRec, AtUnit, Unit, Us
    <3>2. p = q
      BY <2>3, <2>5, <3>1 DEF OwnLegs, Range
    <3>3. run[x].idx = i
      BY <2>2, <2>3, <2>5, <3>1, <3>2 DEF IsInjective
    <3>4. executed[UnitsOf[p][i - 1]] > 0
      BY <2>3, <2>5, <3>2, <3>3 DEF Routes, Kind, Us, AtUnit
    <3> QED
      BY <2>1, <2>3, <3>4
  <2> QED
    BY <2>1, <2>3, <2>4, <2>5
<1>2. ASSUME UNCHANGED executed PROVE InLegOrder'
  BY <1>2 DEF InLegOrder
<1> QED
  BY <1>1, <1>2, CalmElsewhere

-----------------------------------------------------------------------------
(* The theorems about retries and about failures.                          *)

Calm == OnlyThrows => /\ Locked /\ Stored /\ Named
                      /\ Claimed /\ Passed /\ Routes /\ InLegOrder

LEMMA InitCalm == Init => Calm
<1> SUFFICES ASSUME Init PROVE Calm
  OBVIOUS
<1>1. \A w \in Workers : run[w].pc = "idle"
  BY DEF Init, NoRun
<1>2. \A j \in Jobs : job[j].state = "none" /\ job[j].payload = None
  BY DEF Init, NoJob
<1>3. Locked /\ Stored /\ Named /\ Claimed /\ Passed /\ Routes
  BY <1>1, <1>2 DEF Init, Locked, Stored, Named, Claimed, Passed, Routes, AtUnit, Busy
<1>4. InLegOrder
  <2> SUFFICES ASSUME NEW p \in Payloads, NEW i \in 2..Len(UnitsOf[p]),
                      executed[UnitsOf[p][i]] > 0
               PROVE  FALSE
    BY DEF InLegOrder
  <2>1. UnitsOf[p][i] \in Units
    BY PayloadAssumption
  <2> QED
    BY <2>1 DEF Init
<1> QED
  BY <1>3, <1>4 DEF Calm

LEMMA NextCalm == Base /\ Calm /\ [Next]_vars => Calm'
<1> SUFFICES ASSUME Base, Calm, [Next]_vars, OnlyThrows'
             PROVE  (Locked /\ Stored /\ Named /\ Claimed /\ Passed /\ Routes /\ InLegOrder)'
  BY DEF Calm
<1>1. UNCHANGED world
  BY StepKinds, HandlesTo DEF Elsewhere
<1>2. OnlyThrows
  BY <1>1 DEF OnlyThrows
<1>3. Locked /\ Stored /\ Named /\ Claimed /\ Passed /\ Routes /\ InLegOrder
  BY <1>2 DEF Calm
<1> QED
  BY <1>2, <1>3, LockedNext, ClaimedNext, PassedNext, RoutesNext, LegsNext

\* "The retry resumes at the first unexecuted leg": while attempts only throw, a
\* completed job has executed all its units that no other job names, and no leg
\* of a route is executed before the one in front of it, for any number of
\* jobs, legs and workers.
THEOREM RetriesAlwaysResume == Spec => []RetriesResume
<1>1. Base /\ Calm => RetriesResume
  <2> SUFFICES ASSUME Base, Calm, OnlyThrows PROVE RetriesResume
    BY DEF RetriesResume, CompletedIsExecuted, LegsInOrder
  <2>1. Passed /\ InLegOrder
    BY DEF Calm
  <2>2. ASSUME NEW j \in Jobs, job[j].state = "completed", NEW u \in JobUnits(j)
        PROVE  executed[u] >= 1 \/ \E i \in Jobs \ {j} : u \in JobUnits(i)
    <3>1. u \in Settled[j] /\ u \in Units
      BY <2>1, <2>2, UnitsOfJobs DEF Passed
    <3>2. executed[u] \in 0..2
      BY <3>1 DEF Base, TypeOK
    <3> QED
      BY <3>1, <3>2 DEF Settled
  <2> QED
    BY <2>1, <2>2 DEF RetriesResume, CompletedIsExecuted, LegsInOrder
<1> QED
  BY <1>1, InitBase, NextBase, InitCalm, NextCalm, PTL DEF Spec

\* recoverJob deletes an entry only after it has enqueued the job again.
Recorded ==
  /\ RecordNotLost
  /\ \A a \in Admins : recover[a].pc = "hdel" => recover[a].job \in kept.requeued

LEMMA RecordedNext ==
  ASSUME Base, Recorded, [Next]_vars
  PROVE  Recorded'
<1>0. /\ recover \in [Admins -> [job : Jobs \cup {None}, pc : {"idle", "add", "hdel"}]]
      /\ kept \in [ever : SUBSET Jobs, requeued : SUBSET Jobs, discarded : SUBSET Jobs]
  BY DEF Base, TypeOK
<1>1. CASE UNCHANGED <<dlq, recover, kept>>
  BY <1>1 DEF Recorded, RecordNotLost
<1>2. ASSUME NEW w \in Workers, OnFailed(w) PROVE Recorded'
  BY <1>0, <1>2 DEF OnFailed, Recorded, RecordNotLost
<1>3. ASSUME NEW a \in Admins, RecoverRead(a) PROVE Recorded'
  BY <1>0, <1>3 DEF RecoverRead, Recorded, RecordNotLost
<1>4. ASSUME NEW a \in Admins, RecoverAdd(a) PROVE Recorded'
  <2>1. UNCHANGED dlq
    BY <1>4 DEF RecoverAdd
  <2>2. CASE /\ kept' = [kept EXCEPT !.requeued = @ \cup {recover[a].job}]
             /\ recover' = [recover EXCEPT ![a].pc = "hdel"]
    <3>1. /\ kept'.ever = kept.ever /\ kept'.discarded = kept.discarded
          /\ kept'.requeued = kept.requeued \cup {recover[a].job}
      BY <1>0, <2>2
    <3>2. recover'[a].job = recover[a].job /\ \A b \in Admins \ {a} : recover'[b] = recover[b]
      BY <1>0, <2>2
    <3> QED
      BY <2>1, <3>1, <3>2 DEF Recorded, RecordNotLost
  <2>3. CASE recover' = [recover EXCEPT ![a] = NoRecovery] /\ UNCHANGED kept
    BY <1>0, <2>1, <2>3 DEF Recorded, RecordNotLost, NoRecovery
  <2> QED
    BY <1>4, <2>2, <2>3 DEF RecoverAdd
<1>5. ASSUME NEW a \in Admins, RecoverDelete(a) PROVE Recorded'
  <2>1. recover[a].job \in kept.requeued /\ UNCHANGED kept
    BY <1>5 DEF RecoverDelete, Recorded
  <2>2. RecordNotLost'
    BY <1>5, <2>1 DEF RecoverDelete, Recorded, RecordNotLost
  <2> QED
    BY <1>0, <1>5, <2>1, <2>2 DEF RecoverDelete, Recorded, NoRecovery
<1>6. ASSUME NEW a \in Admins, RecoverCrash(a) PROVE Recorded'
  BY <1>0, <1>6 DEF RecoverCrash, Recorded, RecordNotLost, NoRecovery
<1>7. CASE Discard
  BY <1>0, <1>7 DEF Discard, Recorded, RecordNotLost
<1>8. ASSUME NEW w \in Workers, Take(w) \/ Work(w) PROVE Recorded'
  <2>1. CASE OnFailed(w)
    BY <1>2, <2>1
  <2>2. CASE ~OnFailed(w)
    BY <1>1, <1>8, <2>2
    DEF Work, Take, Start, Claim, Execute, Progress, Release, End, Complete, Fail
  <2> QED
    BY <2>1, <2>2
<1>9. CASE Add \/ (\E j \in Jobs : RetryJob(j) \/ RemoveJob(j) \/ Stall(j))
           \/ (\E u \in Units : ExpireKey(u)) \/ (\E w \in Workers : Crash(w))
  <2>1. Add => UNCHANGED <<dlq, recover, kept>>
    BY DEF Add
  <2>2. \A j \in Jobs : RetryJob(j) \/ RemoveJob(j) \/ Stall(j) => UNCHANGED <<dlq, recover, kept>>
    BY DEF RetryJob, RemoveJob, Stall
  <2>3. \A u \in Units : ExpireKey(u) => UNCHANGED <<dlq, recover, kept>>
    BY DEF ExpireKey
  <2>4. \A w \in Workers : Crash(w) => UNCHANGED <<dlq, recover, kept>>
    BY DEF Crash
  <2> QED
    BY <1>1, <1>9, <2>1, <2>2, <2>3, <2>4
<1> QED
  BY <1>1, <1>3, <1>4, <1>5, <1>6, <1>7, <1>8, <1>9
  DEF Next, Operator, Environment, RecoverStep, vars

\* "A failed recovery never loses the record", whatever crashes and Redis
\* failures strike it, and "permanent failures are moved to the Dead Letter
\* Queue", while attempts only throw.
THEOREM FailuresAlwaysOnRecord == Spec => []FailuresOnRecord
<1>1. Init => Recorded
  BY DEF Init, Recorded, RecordNotLost, NoRecovery
<1>2. Base /\ Recorded /\ [Next]_vars => Recorded'
  BY RecordedNext
<1>3. Recorded /\ Calm => FailuresOnRecord
  BY DEF Recorded, Calm, Stored, FailuresOnRecord, FailureIsKept
<1> QED
  BY <1>1, <1>2, <1>3, InitBase, NextBase, InitCalm, NextCalm, PTL DEF Spec
=============================================================================
