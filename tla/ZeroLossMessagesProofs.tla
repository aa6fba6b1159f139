----------------------- MODULE ZeroLossMessagesProofs -----------------------
(***************************************************************************)
(* Proofs about ZeroLossMessages: its type invariant, that no persisted    *)
(* message is lost, and that the lease gives a message one owner while     *)
(* processes are timely.                                                   *)
(***************************************************************************)
EXTENDS ZeroLossMessages, TLAPS

-----------------------------------------------------------------------------
(* Types.                                                                  *)

WorkerPCs  == {"idle", "check", "unlease", "incr", "mark", "working", "acked", "write", "del"}
SweeperPCs == {"idle", "get", "nx", "recheck", "requeue", "del"}
AdminPCs   == {"idle", "write", "del"}

\* Who may be where: a worker follows markProcessing and its reports, a sweeper
\* recoverOne, an operator retryMessage; whoever is not idle has a message.
Roles ==
  /\ \A p \in Procs : act[p].pc # "idle" => act[p].m \in Messages
  /\ \A w \in Workers : act[w].pc \in WorkerPCs /\ act[w].report # "retry"
  /\ \A s \in Sweepers : act[s].pc \in SweeperPCs
  /\ \A a \in Admins : act[a].pc \in AdminPCs

Base == TypeOK /\ Roles

-----------------------------------------------------------------------------
(* What a completed message is.                                            *)

\* A message is marked completed, and is chosen to be deleted, only after a
\* worker has reported it completed.
Reported ==
  /\ \A m \in Messages : rec[m].status = "completed" => history[m].completed
  /\ stale # None => history[stale].completed

-----------------------------------------------------------------------------
(* One owner, while processes are timely.                                  *)

\* Nothing will be done about m any more, except by a worker that has
\* acknowledged it.
Closed(m) ==
  \/ rec[m].acked
  \/ rec[m].status \in {"completed", "failed"}
  \/ rec[m].status = "none" /\ history[m].completed

\* A worker that is about to return from its acknowledgement.
Acking(p) == act[p].pc = "del" /\ p \in Workers /\ act[p].report = "ack"

Leased  == {"check", "unlease", "incr", "mark", "working", "write", "del", "recheck", "requeue"}
Engaged(p) == act[p].pc \in {"incr", "mark", "working", "acked", "write", "requeue"} \/ Acking(p)

\* A process that has claimed a message holds its lease, unless the lease does
\* not matter any more.
Holds ==
  \A p \in Procs : act[p].pc \in Leased => lease[M(p)].owner = p \/ Closed(M(p))

\* What a process knows of the message it is engaged with.
Stages ==
  \A p \in Procs :
    /\ act[p].pc \in {"incr", "mark"} => rec[M(p)].status = "pending"
    /\ act[p].pc \in {"working", "acked", "write", "requeue"} \/ Acking(p) =>
         rec[M(p)].status = "processing"
    /\ act[p].pc \in {"working", "requeue"} \/ (act[p].pc = "write" /\ act[p].report = "ack") =>
         ~rec[M(p)].acked
    /\ act[p].pc = "acked" \/ Acking(p) => rec[M(p)].acked

Alone ==
  \A p, q \in Procs : Engaged(p) /\ Engaged(q) /\ M(p) = M(q) => p = q

\* What is pending was not acknowledged, and what is completed stays so.
Fresh ==
  \A m \in Messages :
    /\ rec[m].status = "pending" => ~rec[m].acked
    /\ history[m].completed => rec[m].status \in {"completed", "none"}

\* An attempt that was recovered is over.
Counted ==
  \A m \in Messages, n \in 0..Bound :
    /\ history[m].requeues[n] <= 1
    /\ history[m].requeues[n] > 0 /\ ~history[m].completed =>
         /\ n <= rec[m].attempts
         /\ n = rec[m].attempts =>
              /\ rec[m].status # "processing"
              /\ \A p \in Procs : act[p].pc = "mark" => M(p) # m

Exclusive ==
  Timely => /\ \A a \in Admins : act[a].pc = "idle"
            /\ Holds /\ Stages /\ Alone /\ Fresh /\ Counted

-----------------------------------------------------------------------------
(* What the building blocks of the actions do, field by field.             *)

Act == [pc : PCs, m : Messages \cup {None}, report : Reports]
Rec == [status : Statuses, attempts : 0..Bound, acked : BOOLEAN, whole : BOOLEAN]
Hist == [completed : BOOLEAN, ackedAt : 0..Bound, requeues : [0..Bound -> 0..2]]
Lease == [owner : Procs \cup {Dead, None}, fresh : BOOLEAN]

LEMMA Types ==
  ASSUME TypeOK
  PROVE  /\ act \in [Procs -> Act] /\ rec \in [Messages -> Rec]
         /\ lease \in [Messages -> Lease] /\ history \in [Messages -> Hist]
         /\ stale \in Messages \cup {None} /\ world \in Scenarios
BY DEF TypeOK, Act, Rec, Lease, Hist

OthersStay(p) == \A q \in Procs \ {p} : act'[q] = act[q]

\* The process p goes on with the same message and report.
LEMMA GotoStep ==
  ASSUME act \in [Procs -> Act], NEW p \in Procs, NEW l \in PCs, Goto(p, l)
  PROVE  /\ act' \in [Procs -> Act] /\ OthersStay(p)
         /\ act'[p].pc = l /\ act'[p].m = act[p].m /\ act'[p].report = act[p].report
<1>1. act'[p] = [act[p] EXCEPT !.pc = l] /\ \A q \in Procs \ {p} : act'[q] = act[q]
  BY DEF Goto
<1>2. act[p] \in Act
  OBVIOUS
<1>3. act'[p] \in Act /\ act'[p].pc = l /\ act'[p].m = act[p].m /\ act'[p].report = act[p].report
  BY <1>1, <1>2 DEF Act
<1> QED
  BY <1>1, <1>3 DEF Goto, OthersStay

LEMMA StopStep ==
  ASSUME act \in [Procs -> Act], NEW p \in Procs, Stop(p)
  PROVE  /\ act' \in [Procs -> Act] /\ OthersStay(p)
         /\ act'[p].pc = "idle" /\ act'[p].report = "ack"
BY DEF Stop, Idle, OthersStay, Act, PCs, Reports

\* The process p takes up message m, or another report.
LEMMA TurnStep ==
  ASSUME act \in [Procs -> Act], NEW p \in Procs, NEW l \in PCs, NEW m \in Messages \cup {None},
         NEW r \in Reports, act' = [act EXCEPT ![p] = [pc |-> l, m |-> m, report |-> r]]
  PROVE  /\ act' \in [Procs -> Act] /\ OthersStay(p)
         /\ act'[p].pc = l /\ act'[p].m = m /\ act'[p].report = r
BY DEF Act, OthersStay

LEMMA ReportStep ==
  ASSUME act \in [Procs -> Act], NEW p \in Procs, NEW l \in PCs, NEW r \in Reports,
         act' = [act EXCEPT ![p].pc = l, ![p].report = r]
  PROVE  /\ act' \in [Procs -> Act] /\ OthersStay(p)
         /\ act'[p].pc = l /\ act'[p].m = act[p].m /\ act'[p].report = r
<1>1. act' = [act EXCEPT ![p] = [pc |-> l, m |-> act[p].m, report |-> r]]
  <2>1. act'[p] = [act[p] EXCEPT !.pc = l, !.report = r]
    OBVIOUS
  <2>2. act[p] \in Act
    OBVIOUS
  <2>3. act'[p] = [pc |-> l, m |-> act[p].m, report |-> r]
    BY <2>1, <2>2 DEF Act
  <2> QED
    BY <2>3
<1>2. act[p].m \in Messages \cup {None}
  <2>1. act[p] \in Act
    OBVIOUS
  <2> QED
    BY <2>1 DEF Act
<1>3. act'[p] \in Act /\ act'[p] = [pc |-> l, m |-> act[p].m, report |-> r]
  BY <1>1, <1>2 DEF Act
<1>4. OthersStay(p) /\ act' \in [Procs -> Act]
  BY <1>3 DEF OthersStay
<1> QED
  BY <1>3, <1>4

LEMMA TakeUpStep ==
  ASSUME act \in [Procs -> Act], NEW p \in Procs, NEW l \in PCs, NEW m \in Messages,
         act' = [act EXCEPT ![p].pc = l, ![p].m = m]
  PROVE  /\ act' \in [Procs -> Act] /\ OthersStay(p)
         /\ act'[p].pc = l /\ act'[p].m = m /\ act'[p].report = act[p].report
<1>1. act' = [act EXCEPT ![p] = [pc |-> l, m |-> m, report |-> act[p].report]]
  <2>1. act'[p] = [act[p] EXCEPT !.pc = l, !.m = m]
    OBVIOUS
  <2>2. act[p] \in Act
    OBVIOUS
  <2>3. act'[p] = [pc |-> l, m |-> m, report |-> act[p].report]
    BY <2>1, <2>2 DEF Act
  <2> QED
    BY <2>3
<1>2. act[p].report \in Reports
  <2>1. act[p] \in Act
    OBVIOUS
  <2> QED
    BY <2>1 DEF Act
<1>3. act'[p] \in Act /\ act'[p] = [pc |-> l, m |-> m, report |-> act[p].report]
  BY <1>1, <1>2 DEF Act
<1>4. OthersStay(p) /\ act' \in [Procs -> Act]
  BY <1>3 DEF OthersStay
<1> QED
  BY <1>3, <1>4

RecsStay(m) == \A n \in Messages \ {m} : rec'[n] = rec[n]

\* HSET status
LEMMA StatusStep ==
  ASSUME rec \in [Messages -> Rec], NEW m \in Messages, NEW st \in Statuses,
         rec' = [rec EXCEPT ![m].status = st]
  PROVE  /\ rec' \in [Messages -> Rec] /\ RecsStay(m)
         /\ rec'[m].status = st /\ rec'[m].attempts = rec[m].attempts
         /\ rec'[m].acked = rec[m].acked /\ rec'[m].whole = rec[m].whole
<1>1. rec'[m] = [rec[m] EXCEPT !.status = st] /\ RecsStay(m)
  BY DEF RecsStay
<1>2. rec[m] \in Rec
  OBVIOUS
<1>3. /\ rec'[m] \in Rec /\ rec'[m].status = st /\ rec'[m].attempts = rec[m].attempts
      /\ rec'[m].acked = rec[m].acked /\ rec'[m].whole = rec[m].whole
  BY <1>1, <1>2 DEF Rec
<1> QED
  BY <1>1, <1>3

\* HSET acknowledgedAt
LEMMA AckStep ==
  ASSUME rec \in [Messages -> Rec], NEW m \in Messages, rec' = [rec EXCEPT ![m].acked = TRUE]
  PROVE  /\ rec' \in [Messages -> Rec] /\ RecsStay(m)
         /\ rec'[m].status = rec[m].status /\ rec'[m].attempts = rec[m].attempts
         /\ rec'[m].acked /\ rec'[m].whole = rec[m].whole
<1>1. rec'[m] = [rec[m] EXCEPT !.acked = TRUE] /\ RecsStay(m)
  BY DEF RecsStay
<1>2. rec[m] \in Rec
  OBVIOUS
<1>3. /\ rec'[m].status = rec[m].status /\ rec'[m].attempts = rec[m].attempts
      /\ rec'[m].whole = rec[m].whole
  BY <1>1, <1>2 DEF Rec
<1>4. rec'[m].acked
  BY <1>1, <1>2, Zenon DEF Rec
<1>5. rec'[m] \in Rec
  BY <1>1, <1>2, Zenon DEF Rec
<1> QED
  BY <1>1, <1>3, <1>4, <1>5

\* HINCRBY attempts
LEMMA CountStep ==
  ASSUME rec \in [Messages -> Rec], NEW m \in Messages, rec[m].attempts < Bound,
         rec' = [rec EXCEPT ![m].attempts = @ + 1]
  PROVE  /\ rec' \in [Messages -> Rec] /\ RecsStay(m)
         /\ rec'[m].status = rec[m].status /\ rec'[m].attempts = rec[m].attempts + 1
         /\ rec'[m].acked = rec[m].acked /\ rec'[m].whole = rec[m].whole
<1>1. rec'[m] = [rec[m] EXCEPT !.attempts = @ + 1] /\ RecsStay(m)
  BY DEF RecsStay
<1>2. rec[m] \in Rec
  OBVIOUS
<1>3. /\ rec'[m] \in Rec /\ rec'[m].status = rec[m].status
      /\ rec'[m].attempts = rec[m].attempts + 1
      /\ rec'[m].acked = rec[m].acked /\ rec'[m].whole = rec[m].whole
  BY <1>1, <1>2, BoundAssumption DEF Rec
<1> QED
  BY <1>1, <1>3

LeasesStay(m) == \A n \in Messages \ {m} : lease'[n] = lease[n]

\* SET and DEL of a lease
LEMMA LeaseStep ==
  ASSUME lease \in [Messages -> Lease], NEW m \in Messages, NEW p \in Procs,
         lease' = [lease EXCEPT ![m] = Held(p)] \/ lease' = [lease EXCEPT ![m] = NoLease]
  PROVE  /\ lease' \in [Messages -> Lease] /\ LeasesStay(m)
         /\ lease' = [lease EXCEPT ![m] = Held(p)] => lease'[m].owner = p
         /\ lease' = [lease EXCEPT ![m] = NoLease] => lease'[m].owner = None
<1>1. Held(p) \in Lease /\ NoLease \in Lease /\ Held(p).owner = p /\ NoLease.owner = None
  <2>1. Held(p) \in Lease
    BY Zenon DEF Lease, Held
  <2>2. NoLease \in Lease
    BY Zenon DEF Lease, NoLease
  <2> QED
    BY <2>1, <2>2 DEF Held, NoLease
<1> QED
  BY <1>1 DEF LeasesStay

HistoriesStay(m) == \A n \in Messages \ {m} : history'[n] = history[n]

LEMMA AckedAtStep ==
  ASSUME history \in [Messages -> Hist], NEW m \in Messages, NEW n \in 0..Bound,
         history' = [history EXCEPT ![m].ackedAt = n]
  PROVE  /\ history' \in [Messages -> Hist] /\ HistoriesStay(m)
         /\ history'[m].completed = history[m].completed
         /\ history'[m].requeues = history[m].requeues
<1>1. history'[m] = [history[m] EXCEPT !.ackedAt = n] /\ HistoriesStay(m)
  BY DEF HistoriesStay
<1>2. history[m] \in Hist
  OBVIOUS
<1>3. /\ history'[m] \in Hist /\ history'[m].completed = history[m].completed
      /\ history'[m].requeues = history[m].requeues
  BY <1>1, <1>2 DEF Hist
<1> QED
  BY <1>1, <1>3

LEMMA CompletedStep ==
  ASSUME history \in [Messages -> Hist], NEW m \in Messages,
         history' = [history EXCEPT ![m].completed = TRUE]
  PROVE  /\ history' \in [Messages -> Hist] /\ HistoriesStay(m)
         /\ history'[m].completed /\ history'[m].requeues = history[m].requeues
<1>1. history'[m] = [history[m] EXCEPT !.completed = TRUE] /\ HistoriesStay(m)
  BY DEF HistoriesStay
<1>2. history[m] \in Hist
  OBVIOUS
<1>3. history'[m] \in Hist /\ history'[m].completed
  BY <1>1, <1>2, Zenon DEF Hist
<1>4. history'[m].requeues = history[m].requeues
  BY <1>1, <1>2 DEF Hist
<1> QED
  BY <1>1, <1>3, <1>4

Bumped(f, n) == [f EXCEPT ![n] = IF @ < 2 THEN @ + 1 ELSE @]

LEMMA BumpedOnce ==
  ASSUME NEW f \in [0..Bound -> 0..2], NEW n \in 0..Bound
  PROVE  /\ Bumped(f, n) \in [0..Bound -> 0..2]
         /\ \A k \in (0..Bound) \ {n} : Bumped(f, n)[k] = f[k]
         /\ f[n] < 2 => Bumped(f, n)[n] = f[n] + 1
<1>1. f[n] \in 0..2
  OBVIOUS
<1>2. (IF f[n] < 2 THEN f[n] + 1 ELSE f[n]) \in 0..2
  BY <1>1
<1>3. Bumped(f, n) = [f EXCEPT ![n] = IF f[n] < 2 THEN f[n] + 1 ELSE f[n]]
  BY DEF Bumped
<1> QED
  BY <1>2, <1>3

LEMMA RequeuesStep ==
  ASSUME history \in [Messages -> Hist], NEW m \in Messages, NEW n \in 0..Bound,
         history' = [history EXCEPT ![m].requeues[n] = IF @ < 2 THEN @ + 1 ELSE @]
  PROVE  /\ history' \in [Messages -> Hist] /\ HistoriesStay(m)
         /\ history'[m].completed = history[m].completed
         /\ \A k \in (0..Bound) \ {n} : history'[m].requeues[k] = history[m].requeues[k]
         /\ history[m].requeues[n] < 2 => history'[m].requeues[n] = history[m].requeues[n] + 1
<1> DEFINE new == Bumped(history[m].requeues, n)
<1>1. history[m] \in Hist /\ history[m].requeues \in [0..Bound -> 0..2]
  <2>1. history[m] \in Hist
    OBVIOUS
  <2> QED
    BY <2>1 DEF Hist
<1>2. /\ new \in [0..Bound -> 0..2]
      /\ \A k \in (0..Bound) \ {n} : new[k] = history[m].requeues[k]
      /\ history[m].requeues[n] < 2 => new[n] = history[m].requeues[n] + 1
  BY <1>1, BumpedOnce
<1>a. history' = [history EXCEPT ![m] = [history[m] EXCEPT !.requeues = new]]
  BY DEF Bumped
<1> HIDE DEF new
<1>3. history'[m] = [history[m] EXCEPT !.requeues = new] /\ HistoriesStay(m)
  BY <1>a DEF HistoriesStay
<1>4. /\ history'[m] \in Hist /\ history'[m].completed = history[m].completed
      /\ history'[m].requeues = new
  BY <1>1, <1>2, <1>3 DEF Hist
<1>5. history' \in [Messages -> Hist]
  BY <1>a, <1>4
<1> QED
  BY <1>2, <1>3, <1>4, <1>5

-----------------------------------------------------------------------------
(* What the actions do, and that they preserve the types and the roles.    *)

Moves(p, l) == /\ OthersStay(p)
               /\ act'[p].pc = l /\ act'[p].m = act[p].m /\ act'[p].report = act[p].report
Stops(p)    == OthersStay(p) /\ act'[p].pc = "idle" /\ act'[p].report = "ack"
SetsStatus(m, st) ==
  /\ RecsStay(m)
  /\ rec'[m].status = st /\ rec'[m].attempts = rec[m].attempts
  /\ rec'[m].acked = rec[m].acked /\ rec'[m].whole = rec[m].whole
SetsOwner(m, o) == LeasesStay(m) /\ lease'[m].owner = o

LEMMA BaseFrom ==
  ASSUME Base, NEW p \in Procs, OthersStay(p), world' = world,
         act' \in [Procs -> Act], rec' \in [Messages -> Rec], lease' \in [Messages -> Lease],
         history' \in [Messages -> Hist], stale' \in Messages \cup {None},
         act'[p].pc # "idle" => act'[p].m \in Messages,
         p \in Workers => act'[p].pc \in WorkerPCs /\ act'[p].report # "retry",
         p \in Sweepers => act'[p].pc \in SweeperPCs,
         p \in Admins => act'[p].pc \in AdminPCs
  PROVE  Base'
<1>1. TypeOK'
  BY DEF Base, TypeOK, Act, Rec, Lease, Hist
<1>2. Roles'
  <2>1. \A q \in Procs : act'[q].pc # "idle" => act'[q].m \in Messages
    BY DEF Base, Roles, OthersStay
  <2>2. \A w \in Workers : act'[w].pc \in WorkerPCs /\ act'[w].report # "retry"
    BY DEF Base, Roles, OthersStay, Procs
  <2>3. \A s \in Sweepers : act'[s].pc \in SweeperPCs
    BY DEF Base, Roles, OthersStay, Procs
  <2>4. \A a \in Admins : act'[a].pc \in AdminPCs
    BY DEF Base, Roles, OthersStay, Procs
  <2> QED
    BY <2>1, <2>2, <2>3, <2>4 DEF Roles
<1> QED
  BY <1>1, <1>2 DEF Base

\* Steps of no process.
LEMMA BaseQuiet ==
  ASSUME Base, act' = act, world' = world,
         rec' \in [Messages -> Rec], lease' \in [Messages -> Lease],
         history' \in [Messages -> Hist], stale' \in Messages \cup {None}
  PROVE  Base'
<1>1. TypeOK'
  BY DEF Base, TypeOK, Act, Rec, Lease, Hist
<1> QED
  BY <1>1 DEF Base, Roles

LEMMA Separate ==
  ASSUME NEW p \in Procs
  PROVE  /\ p # Dead /\ p # None
         /\ p \in Workers => p \notin Sweepers /\ p \notin Admins
         /\ p \in Sweepers => p \notin Workers /\ p \notin Admins
         /\ p \in Admins => p \notin Workers /\ p \notin Sweepers
BY ProcsAssumption DEF Procs

LEMMA ClaimLeaseStep ==
  ASSUME Base, NEW w \in Workers, ClaimLease(w)
  PROVE  /\ Base'
         /\ UNCHANGED <<world, rec, stale, history>>
         /\ \E m \in Messages :
              /\ lease[m].owner = None /\ SetsOwner(m, w)
              /\ OthersStay(w) /\ act'[w].pc = "check" /\ act'[w].m = m
<1>1. PICK m \in Messages :
        /\ Free(m) /\ lease' = [lease EXCEPT ![m] = Held(w)]
        /\ act' = [act EXCEPT ![w].pc = "check", ![w].m = m]
        /\ UNCHANGED <<world, rec, stale, history>>
  BY DEF ClaimLease
<1>2. w \in Procs /\ "check" \in PCs /\ "check" \in WorkerPCs
  BY DEF Procs, PCs, WorkerPCs
<1>3. /\ act \in [Procs -> Act] /\ lease \in [Messages -> Lease] /\ rec \in [Messages -> Rec]
      /\ history \in [Messages -> Hist] /\ stale \in Messages \cup {None}
  BY Types DEF Base
<1>4. /\ act' \in [Procs -> Act] /\ OthersStay(w) /\ act'[w].pc = "check"
      /\ act'[w].m = m /\ act'[w].report = act[w].report
  BY <1>1, <1>2, <1>3, TakeUpStep
<1>5. lease' \in [Messages -> Lease] /\ LeasesStay(m) /\ lease'[m].owner = w
  BY <1>1, <1>2, <1>3, LeaseStep
<1>6. act[w].report # "retry"
  BY DEF Base, Roles
<1>7. Base'
  BY <1>1, <1>2, <1>3, <1>4, <1>5, <1>6, Separate, BaseFrom
<1> QED
  BY <1>1, <1>4, <1>5, <1>7 DEF SetsOwner, Free

\* A process moves on with its message, and the other variables keep their types.
LEMMA MovesBase ==
  ASSUME Base, NEW p \in Procs, NEW l \in PCs, Goto(p, l), act[p].pc # "idle", world' = world,
         rec' \in [Messages -> Rec], lease' \in [Messages -> Lease],
         history' \in [Messages -> Hist], stale' \in Messages \cup {None},
         p \in Workers => l \in WorkerPCs, p \in Sweepers => l \in SweeperPCs,
         p \in Admins => l \in AdminPCs
  PROVE  Base' /\ Moves(p, l)
<1>1. act \in [Procs -> Act]
  BY Types DEF Base
<1>2. /\ act' \in [Procs -> Act] /\ OthersStay(p)
      /\ act'[p].pc = l /\ act'[p].m = act[p].m /\ act'[p].report = act[p].report
  BY <1>1, GotoStep
<1>3. act'[p].m \in Messages
  BY <1>2 DEF Base, Roles
<1>4. p \in Workers => act'[p].pc \in WorkerPCs /\ act'[p].report # "retry"
  BY <1>2 DEF Base, Roles
<1>5. Base'
  BY <1>2, <1>3, <1>4, BaseFrom
<1> QED
  BY <1>2, <1>5 DEF Moves

LEMMA StopsBase ==
  ASSUME Base, NEW p \in Procs, Stop(p), world' = world,
         rec' \in [Messages -> Rec], lease' \in [Messages -> Lease],
         history' \in [Messages -> Hist], stale' \in Messages \cup {None}
  PROVE  Base' /\ Stops(p)
<1>1. act \in [Procs -> Act]
  BY Types DEF Base
<1>2. /\ act' \in [Procs -> Act] /\ OthersStay(p)
      /\ act'[p].pc = "idle" /\ act'[p].report = "ack"
  BY <1>1, StopStep
<1>3. "idle" \in WorkerPCs /\ "idle" \in SweeperPCs /\ "idle" \in AdminPCs
  BY DEF WorkerPCs, SweeperPCs, AdminPCs
<1>4. Base'
  BY <1>2, <1>3, BaseFrom
<1> QED
  BY <1>2, <1>4 DEF Stops

LEMMA BaseTypes ==
  ASSUME Base
  PROVE  /\ act \in [Procs -> Act] /\ rec \in [Messages -> Rec]
         /\ lease \in [Messages -> Lease] /\ history \in [Messages -> Hist]
         /\ stale \in Messages \cup {None} /\ world \in Scenarios
         /\ \A p \in Procs : act[p].pc # "idle" => M(p) \in Messages
         /\ \A m \in Messages : rec[m].status \in Statuses /\ rec[m].attempts \in 0..Bound
<1>1. /\ act \in [Procs -> Act] /\ rec \in [Messages -> Rec]
      /\ lease \in [Messages -> Lease] /\ history \in [Messages -> Hist]
      /\ stale \in Messages \cup {None} /\ world \in Scenarios
  BY Types DEF Base
<1>2. \A p \in Procs : act[p].pc # "idle" => M(p) \in Messages
  BY DEF Base, Roles, M
<1>3. \A m \in Messages : rec[m] \in Rec
  BY <1>1
<1>4. \A m \in Messages : rec[m].status \in Statuses /\ rec[m].attempts \in 0..Bound
  BY <1>3 DEF Rec
<1> QED
  BY <1>1, <1>2, <1>4

LEMMA CheckPendingStep ==
  ASSUME Base, NEW w \in Workers, CheckPending(w)
  PROVE  /\ Base' /\ act[w].pc = "check"
         /\ UNCHANGED <<world, rec, lease, stale, history>>
         /\ Moves(w, IF rec[M(w)].status = "pending" THEN "incr" ELSE "unlease")
<1>1. /\ act[w].pc = "check" /\ UNCHANGED <<world, rec, lease, stale, history>>
      /\ Goto(w, IF rec[M(w)].status = "pending" THEN "incr" ELSE "unlease")
  BY DEF CheckPending
<1> DEFINE l == IF rec[M(w)].status = "pending" THEN "incr" ELSE "unlease"
<1>2. w \in Procs /\ l \in PCs /\ l \in WorkerPCs
  BY DEF Procs, PCs, WorkerPCs
<1> HIDE DEF l
<1>3. Base' /\ Moves(w, l)
  BY <1>1, <1>2, BaseTypes, Separate, MovesBase DEF l
<1> QED
  BY <1>1, <1>3 DEF l

LEMMA UnleaseStep ==
  ASSUME Base, NEW w \in Workers, Unlease(w)
  PROVE  /\ Base' /\ act[w].pc = "unlease" /\ M(w) \in Messages
         /\ UNCHANGED <<world, rec, stale, history>>
         /\ SetsOwner(M(w), None) /\ Stops(w)
<1>1. /\ act[w].pc = "unlease" /\ UNCHANGED <<world, rec, stale, history>>
      /\ lease' = [lease EXCEPT ![M(w)] = NoLease] /\ Stop(w)
  BY DEF Unlease
<1>2. w \in Procs /\ M(w) \in Messages
  BY <1>1, BaseTypes DEF Procs
<1>3. lease' \in [Messages -> Lease] /\ SetsOwner(M(w), None)
  BY <1>1, <1>2, BaseTypes, LeaseStep DEF SetsOwner
<1>4. Base' /\ Stops(w)
  BY <1>1, <1>2, <1>3, BaseTypes, StopsBase
<1> QED
  BY <1>1, <1>2, <1>3, <1>4

LEMMA IncrementStep ==
  ASSUME Base, NEW w \in Workers, Increment(w)
  PROVE  /\ Base' /\ act[w].pc = "incr" /\ M(w) \in Messages
         /\ UNCHANGED <<world, lease, stale, history>> /\ Moves(w, "mark")
         /\ RecsStay(M(w))
         /\ rec'[M(w)].status = rec[M(w)].status
         /\ rec'[M(w)].attempts = rec[M(w)].attempts + 1
         /\ rec'[M(w)].acked = rec[M(w)].acked /\ rec'[M(w)].whole = rec[M(w)].whole
<1>1. /\ act[w].pc = "incr" /\ UNCHANGED <<world, lease, stale, history>>
      /\ rec[M(w)].attempts < Bound
      /\ rec' = [rec EXCEPT ![M(w)].attempts = @ + 1] /\ Goto(w, "mark")
  BY DEF Increment
<1>2. w \in Procs /\ M(w) \in Messages /\ "mark" \in PCs /\ "mark" \in WorkerPCs
  BY <1>1, BaseTypes DEF Procs, PCs, WorkerPCs
<1>3. /\ rec' \in [Messages -> Rec] /\ RecsStay(M(w))
      /\ rec'[M(w)].status = rec[M(w)].status
      /\ rec'[M(w)].attempts = rec[M(w)].attempts + 1
      /\ rec'[M(w)].acked = rec[M(w)].acked /\ rec'[M(w)].whole = rec[M(w)].whole
  BY <1>1, <1>2, BaseTypes, CountStep
<1>4. Base' /\ Moves(w, "mark")
  BY <1>1, <1>2, <1>3, BaseTypes, Separate, MovesBase
<1> QED
  BY <1>1, <1>2, <1>3, <1>4

LEMMA MarkProcessingStep ==
  ASSUME Base, NEW w \in Workers, MarkProcessing(w)
  PROVE  /\ Base' /\ act[w].pc = "mark" /\ M(w) \in Messages
         /\ UNCHANGED <<world, lease, stale, history>>
         /\ SetsStatus(M(w), "processing") /\ Moves(w, "working")
<1>1. /\ act[w].pc = "mark" /\ UNCHANGED <<world, lease, stale, history>>
      /\ rec' = [rec EXCEPT ![M(w)].status = "processing"] /\ Goto(w, "working")
  BY DEF MarkProcessing
<1>2. w \in Procs /\ M(w) \in Messages /\ "working" \in PCs /\ "working" \in WorkerPCs
  BY <1>1, BaseTypes DEF Procs, PCs, WorkerPCs
<1>3. rec' \in [Messages -> Rec] /\ SetsStatus(M(w), "processing")
  <2>1. "processing" \in Statuses
    BY DEF Statuses
  <2> QED
    BY <1>1, <1>2, <2>1, BaseTypes, StatusStep DEF SetsStatus
<1>4. Base' /\ Moves(w, "working")
  BY <1>1, <1>2, <1>3, BaseTypes, Separate, MovesBase
<1> QED
  BY <1>1, <1>2, <1>3, <1>4

OwnersStay == \A n \in Messages : lease'[n].owner = lease[n].owner

\* renewProcessingLease, and a lease that ages
LEMMA FreshStep ==
  ASSUME Base, NEW m \in Messages, NEW b \in BOOLEAN, lease' = [lease EXCEPT ![m].fresh = b],
         UNCHANGED <<world, rec, act, stale, history>>
  PROVE  Base' /\ OwnersStay
<1>1. lease'[m] = [lease[m] EXCEPT !.fresh = b] /\ \A n \in Messages \ {m} : lease'[n] = lease[n]
  BY BaseTypes
<1>2. lease[m] \in Lease
  BY BaseTypes
<1>3. lease'[m] \in Lease /\ lease'[m].owner = lease[m].owner
  BY <1>1, <1>2 DEF Lease
<1>4. lease' \in [Messages -> Lease] /\ OwnersStay
  BY <1>1, <1>3, BaseTypes DEF OwnersStay
<1> QED
  BY <1>4, BaseTypes, BaseQuiet

LEMMA ReportOf ==
  ASSUME Base, NEW w \in Workers, Report(w)
  PROVE  /\ Base' /\ M(w) \in Messages /\ OthersStay(w)
         /\ UNCHANGED <<world, rec, lease, stale, history>>
         /\ act'[w].pc = "write" /\ act'[w].m = act[w].m
         /\ \/ act[w].pc = "working" /\ act'[w].report = "ack"
            \/ act[w].pc \in {"working", "acked"} /\ act'[w].report \in {"complete", "fail"}
<1>1. PICK r \in {"ack", "complete", "fail"} :
        /\ act' = [act EXCEPT ![w].pc = "write", ![w].report = r]
        /\ \/ act[w].pc = "working" /\ r = "ack"
           \/ act[w].pc \in {"working", "acked"} /\ r \in {"complete", "fail"}
  BY DEF Report
<1>2. UNCHANGED <<world, rec, lease, stale, history>>
  BY DEF Report
<1>3. /\ w \in Procs /\ M(w) \in Messages /\ "write" \in PCs /\ "write" \in WorkerPCs
      /\ r \in Reports /\ r # "retry"
  BY <1>1, BaseTypes DEF Procs, PCs, WorkerPCs, Reports
<1>4. /\ act' \in [Procs -> Act] /\ OthersStay(w)
      /\ act'[w].pc = "write" /\ act'[w].m = act[w].m /\ act'[w].report = r
  BY <1>1, <1>3, BaseTypes, ReportStep, ZenonT(40)
<1>5. act'[w].m \in Messages
  BY <1>3, <1>4 DEF M
<1>6. Base'
  BY <1>2, <1>3, <1>4, <1>5, BaseTypes, Separate, BaseFrom
<1> QED
  BY <1>1, <1>2, <1>3, <1>4, <1>6

LEMMA ReportMissingStep ==
  ASSUME Base, NEW w \in Workers, ReportMissing(w)
  PROVE  Base' /\ Stops(w) /\ UNCHANGED <<world, rec, lease, stale, history>>
<1>1. Stop(w) /\ UNCHANGED <<world, rec, lease, stale, history>>
  BY DEF ReportMissing
<1> QED
  BY <1>1, BaseTypes, StopsBase DEF Procs

LEMMA RetryStep ==
  ASSUME Base, NEW a \in Admins, Retry(a)
  PROVE  Base' /\ world.retried # {} /\ UNCHANGED <<world, rec, lease, stale, history>>
<1>1. PICK m \in Messages :
        /\ rec[m].status \in world.retried
        /\ act' = [act EXCEPT ![a] = [pc |-> "write", m |-> m, report |-> "retry"]]
        /\ UNCHANGED <<world, rec, lease, stale, history>>
  BY DEF Retry
<1>2. a \in Procs /\ "write" \in PCs /\ "write" \in AdminPCs /\ "retry" \in Reports
  BY DEF Procs, PCs, AdminPCs, Reports
<1>3. /\ act' \in [Procs -> Act] /\ OthersStay(a)
      /\ act'[a].pc = "write" /\ act'[a].m = m /\ act'[a].report = "retry"
  BY <1>1, <1>2, BaseTypes, TurnStep
<1>4. Base'
  BY <1>1, <1>2, <1>3, BaseTypes, Separate, BaseFrom
<1> QED
  BY <1>1, <1>4

LEMMA WriteStep ==
  ASSUME Base, NEW p \in Workers \cup Admins, Write(p)
  PROVE  /\ Base' /\ act[p].pc = "write" /\ M(p) \in Messages /\ Moves(p, "del")
         /\ UNCHANGED <<world, lease, stale>> /\ RecsStay(M(p)) /\ HistoriesStay(M(p))
         /\ rec'[M(p)].attempts = rec[M(p)].attempts /\ rec'[M(p)].whole = rec[M(p)].whole
         /\ history'[M(p)].requeues = history[M(p)].requeues
         /\ \/ /\ act[p].report = "ack" /\ rec'[M(p)].acked
               /\ rec'[M(p)].status = rec[M(p)].status
               /\ history'[M(p)].completed = history[M(p)].completed
            \/ /\ act[p].report = "complete" /\ rec'[M(p)].acked = rec[M(p)].acked
               /\ rec'[M(p)].status = "completed"
               /\ history'[M(p)].completed
            \/ /\ act[p].report = "fail" /\ rec'[M(p)].acked = rec[M(p)].acked
               /\ rec'[M(p)].status = "failed"
               /\ history'[M(p)].completed = history[M(p)].completed
            \/ /\ act[p].report = "retry" /\ rec'[M(p)].acked = rec[M(p)].acked
               /\ rec'[M(p)].status = "pending"
               /\ history'[M(p)].completed = history[M(p)].completed
<1>1. act[p].pc = "write" /\ Goto(p, "del") /\ UNCHANGED <<world, lease, stale>>
  BY DEF Write
<1>2. /\ p \in Procs /\ M(p) \in Messages /\ "del" \in PCs /\ "del" \in WorkerPCs
      /\ "del" \in AdminPCs /\ p \notin Sweepers
      /\ {"completed", "failed", "pending"} \subseteq Statuses
  BY <1>1, BaseTypes, ProcsAssumption DEF Procs, PCs, WorkerPCs, AdminPCs, Statuses
<1>3. act[p].report \in Reports /\ rec[M(p)].attempts \in 0..Bound
  <2>1. act[p] \in Act
    BY <1>2, BaseTypes
  <2> QED
    BY <1>2, <2>1, BaseTypes DEF Act
<1>4. CASE act[p].report = "ack"
  <2>1. /\ rec' = [rec EXCEPT ![M(p)].acked = TRUE]
        /\ history' = [history EXCEPT ![M(p)].ackedAt = rec[M(p)].attempts]
    BY <1>4 DEF Write
  <2>2. /\ rec' \in [Messages -> Rec] /\ RecsStay(M(p))
        /\ rec'[M(p)].status = rec[M(p)].status /\ rec'[M(p)].attempts = rec[M(p)].attempts
        /\ rec'[M(p)].acked /\ rec'[M(p)].whole = rec[M(p)].whole
    BY <1>2, <2>1, BaseTypes, AckStep
  <2>3. /\ history' \in [Messages -> Hist] /\ HistoriesStay(M(p))
        /\ history'[M(p)].completed = history[M(p)].completed
        /\ history'[M(p)].requeues = history[M(p)].requeues
    BY <1>2, <1>3, <2>1, BaseTypes, AckedAtStep
  <2>4. Base' /\ Moves(p, "del")
    BY <1>1, <1>2, <2>2, <2>3, BaseTypes, MovesBase
  <2> QED
    BY <1>1, <1>2, <1>4, <2>2, <2>3, <2>4
<1>5. CASE act[p].report = "complete"
  <2>1. /\ rec' = [rec EXCEPT ![M(p)].status = "completed"]
        /\ history' = [history EXCEPT ![M(p)].completed = TRUE]
    BY <1>5 DEF Write
  <2>2. rec' \in [Messages -> Rec] /\ SetsStatus(M(p), "completed")
    BY <1>2, <2>1, BaseTypes, StatusStep DEF SetsStatus
  <2>3. /\ history' \in [Messages -> Hist] /\ HistoriesStay(M(p))
        /\ history'[M(p)].completed /\ history'[M(p)].requeues = history[M(p)].requeues
    BY <1>2, <2>1, BaseTypes, CompletedStep
  <2>4. Base' /\ Moves(p, "del")
    BY <1>1, <1>2, <2>2, <2>3, BaseTypes, MovesBase
  <2> QED
    BY <1>1, <1>2, <1>5, <2>2, <2>3, <2>4 DEF SetsStatus
<1>6. CASE act[p].report \in {"fail", "retry"}
  <2> DEFINE st == IF act[p].report = "fail" THEN "failed" ELSE "pending"
  <2>1. rec' = [rec EXCEPT ![M(p)].status = st] /\ history' = history
    BY <1>6 DEF Write
  <2>a. st \in Statuses
    BY <1>2
  <2> HIDE DEF st
  <2>2. rec' \in [Messages -> Rec] /\ SetsStatus(M(p), st)
    BY <1>2, <2>1, <2>a, BaseTypes, StatusStep DEF SetsStatus
  <2>3. history' \in [Messages -> Hist] /\ HistoriesStay(M(p))
    BY <2>1, BaseTypes DEF HistoriesStay
  <2>4. Base' /\ Moves(p, "del")
    BY <1>1, <1>2, <2>2, <2>3, BaseTypes, MovesBase
  <2> QED
    BY <1>1, <1>2, <1>6, <2>1, <2>2, <2>3, <2>4 DEF SetsStatus, st
<1> QED
  BY <1>3, <1>4, <1>5, <1>6 DEF Reports

LEMMA DeleteLeaseStep ==
  ASSUME Base, NEW p \in Procs, DeleteLease(p)
  PROVE  /\ Base' /\ act[p].pc = "del" /\ M(p) \in Messages
         /\ UNCHANGED <<world, rec, stale, history>> /\ SetsOwner(M(p), None)
         /\ IF p \in Workers /\ act[p].report = "ack" THEN Moves(p, "acked") ELSE Stops(p)
<1>1. /\ act[p].pc = "del" /\ UNCHANGED <<world, rec, stale, history>>
      /\ lease' = [lease EXCEPT ![M(p)] = NoLease]
      /\ IF p \in Workers /\ act[p].report = "ack" THEN Goto(p, "acked") ELSE Stop(p)
  BY DEF DeleteLease
<1>2. M(p) \in Messages /\ "acked" \in PCs /\ "acked" \in WorkerPCs
  BY <1>1, BaseTypes DEF PCs, WorkerPCs
<1>3. lease' \in [Messages -> Lease] /\ SetsOwner(M(p), None)
  BY <1>1, <1>2, BaseTypes, LeaseStep DEF SetsOwner
<1>4. CASE p \in Workers /\ act[p].report = "ack"
  <2>1. Base' /\ Moves(p, "acked")
    BY <1>1, <1>2, <1>3, <1>4, BaseTypes, Separate, MovesBase
  <2> QED
    BY <1>1, <1>2, <1>3, <1>4, <2>1
<1>5. CASE ~(p \in Workers /\ act[p].report = "ack")
  <2>1. Base' /\ Stops(p)
    BY <1>1, <1>3, <1>5, BaseTypes, StopsBase
  <2> QED
    BY <1>1, <1>2, <1>3, <1>5, <2>1
<1> QED
  BY <1>4, <1>5

LEMMA SweepTakes ==
  ASSUME Base, NEW s \in Sweepers, Sweep(s)
  PROVE  /\ Base' /\ OthersStay(s) /\ act'[s].pc = "get"
         /\ UNCHANGED <<world, rec, lease, stale, history>>
<1>1. PICK m \in Messages : /\ act' = [act EXCEPT ![s].pc = "get", ![s].m = m]
                            /\ UNCHANGED <<world, rec, lease, stale, history>>
  BY DEF Sweep
<1>2. s \in Procs /\ "get" \in PCs /\ "get" \in SweeperPCs
  BY DEF Procs, PCs, SweeperPCs
<1>3. /\ act' \in [Procs -> Act] /\ OthersStay(s)
      /\ act'[s].pc = "get" /\ act'[s].m = m
  BY <1>1, <1>2, BaseTypes, TakeUpStep
<1>4. Base'
  BY <1>1, <1>2, <1>3, BaseTypes, Separate, BaseFrom
<1> QED
  BY <1>1, <1>3, <1>4

LEMMA SweepLeaseStep ==
  ASSUME Base, NEW s \in Sweepers, SweepLease(s)
  PROVE  /\ Base' /\ UNCHANGED <<world, rec, lease, stale, history>>
         /\ Moves(s, "nx") \/ Stops(s)
<1>1. /\ act[s].pc = "get" /\ UNCHANGED <<world, rec, lease, stale, history>>
      /\ Goto(s, "nx") \/ Stop(s)
  BY DEF SweepLease
<1>2. s \in Procs /\ "nx" \in PCs /\ "nx" \in SweeperPCs
  BY DEF Procs, PCs, SweeperPCs
<1>3. CASE Goto(s, "nx")
  BY <1>1, <1>2, <1>3, BaseTypes, Separate, MovesBase
<1>4. CASE Stop(s)
  BY <1>1, <1>2, <1>4, BaseTypes, StopsBase
<1> QED
  BY <1>1, <1>3, <1>4

LEMMA SweepClaimStep ==
  ASSUME Base, NEW s \in Sweepers, SweepClaim(s)
  PROVE  /\ Base' /\ UNCHANGED <<world, rec, stale, history>> /\ M(s) \in Messages
         /\ \/ /\ lease[M(s)].owner = None /\ SetsOwner(M(s), s) /\ Moves(s, "recheck")
            \/ lease' = lease /\ Stops(s)
<1>1. /\ act[s].pc = "nx" /\ UNCHANGED <<world, rec, stale, history>>
      /\ \/ /\ Free(M(s)) /\ lease' = [lease EXCEPT ![M(s)] = Held(s)] /\ Goto(s, "recheck")
         \/ lease' = lease /\ Stop(s)
  BY DEF SweepClaim
<1>2. s \in Procs /\ M(s) \in Messages /\ "recheck" \in PCs /\ "recheck" \in SweeperPCs
  BY <1>1, BaseTypes DEF Procs, PCs, SweeperPCs
<1>3. CASE Free(M(s)) /\ lease' = [lease EXCEPT ![M(s)] = Held(s)] /\ Goto(s, "recheck")
  <2>1. lease' \in [Messages -> Lease] /\ SetsOwner(M(s), s)
    BY <1>2, <1>3, BaseTypes, LeaseStep DEF SetsOwner
  <2>2. Base' /\ Moves(s, "recheck")
    BY <1>1, <1>2, <1>3, <2>1, BaseTypes, Separate, MovesBase
  <2> QED
    BY <1>1, <1>2, <1>3, <2>1, <2>2 DEF Free
<1>4. CASE lease' = lease /\ Stop(s)
  <2>1. Base' /\ Stops(s)
    BY <1>1, <1>2, <1>4, BaseTypes, StopsBase
  <2> QED
    BY <1>1, <1>2, <1>4, <2>1
<1> QED
  BY <1>1, <1>3, <1>4

LEMMA RecheckStep ==
  ASSUME Base, NEW s \in Sweepers, Recheck(s)
  PROVE  /\ Base' /\ UNCHANGED <<world, rec, lease, stale, history>> /\ act[s].pc = "recheck"
         /\ \/ /\ rec[M(s)].status = "processing" /\ ~rec[M(s)].acked /\ Moves(s, "requeue")
            \/ Moves(s, "del")
<1>1. /\ act[s].pc = "recheck" /\ UNCHANGED <<world, rec, lease, stale, history>>
      /\ \/ /\ rec[M(s)].status = "processing" /\ ~rec[M(s)].acked /\ Goto(s, "requeue")
         \/ Goto(s, "del")
  BY DEF Recheck, StillOrphaned, Orphaned
<1>2. /\ s \in Procs /\ "requeue" \in PCs /\ "requeue" \in SweeperPCs
      /\ "del" \in PCs /\ "del" \in SweeperPCs
  BY DEF Procs, PCs, SweeperPCs
<1>3. Goto(s, "requeue") => Base' /\ Moves(s, "requeue")
  BY <1>1, <1>2, BaseTypes, Separate, MovesBase
<1>4. Goto(s, "del") => Base' /\ Moves(s, "del")
  BY <1>1, <1>2, BaseTypes, Separate, MovesBase
<1> QED
  BY <1>1, <1>3, <1>4

LEMMA RequeueStep ==
  ASSUME Base, NEW s \in Sweepers, Requeue(s)
  PROVE  /\ Base' /\ act[s].pc = "requeue" /\ M(s) \in Messages
         /\ UNCHANGED <<world, lease, stale>> /\ Moves(s, "del")
         /\ SetsStatus(M(s), "pending") \/ SetsStatus(M(s), "failed")
         /\ HistoriesStay(M(s)) /\ history'[M(s)].completed = history[M(s)].completed
         /\ \A k \in (0..Bound) \ {rec[M(s)].attempts} :
              history'[M(s)].requeues[k] = history[M(s)].requeues[k]
         /\ history[M(s)].requeues[rec[M(s)].attempts] < 2 =>
              history'[M(s)].requeues[rec[M(s)].attempts] =
                history[M(s)].requeues[rec[M(s)].attempts] + 1
<1> DEFINE st == IF rec[M(s)].attempts < MaxAttempts THEN "pending" ELSE "failed"
           n  == rec[M(s)].attempts
<1>1. /\ act[s].pc = "requeue" /\ UNCHANGED <<world, lease, stale>> /\ Goto(s, "del")
      /\ rec' = [rec EXCEPT ![M(s)].status = st]
      /\ history' = [history EXCEPT ![M(s)].requeues[n] = IF @ < 2 THEN @ + 1 ELSE @]
  BY DEF Requeue
<1>2. /\ s \in Procs /\ M(s) \in Messages /\ "del" \in PCs /\ "del" \in SweeperPCs
      /\ st \in Statuses
  BY <1>1, BaseTypes DEF Procs, PCs, SweeperPCs, Statuses
<1>3. n \in 0..Bound
  BY <1>2, BaseTypes
<1>4. rec' \in [Messages -> Rec] /\ SetsStatus(M(s), st)
  <2> HIDE DEF st
  <2> QED
    BY <1>1, <1>2, BaseTypes, StatusStep DEF SetsStatus
<1>5. /\ history' \in [Messages -> Hist] /\ HistoriesStay(M(s))
      /\ history'[M(s)].completed = history[M(s)].completed
      /\ \A k \in (0..Bound) \ {n} : history'[M(s)].requeues[k] = history[M(s)].requeues[k]
      /\ history[M(s)].requeues[n] < 2 =>
           history'[M(s)].requeues[n] = history[M(s)].requeues[n] + 1
  <2> HIDE DEF n
  <2> QED
    BY <1>1, <1>2, <1>3, BaseTypes, RequeuesStep
<1>6. Base' /\ Moves(s, "del")
  BY <1>1, <1>2, <1>4, <1>5, BaseTypes, Separate, MovesBase
<1> QED
  BY <1>1, <1>2, <1>4, <1>5, <1>6

LEMMA PersistStep ==
  ASSUME Base, NEW m \in Messages, Persist(m)
  PROVE  /\ Base' /\ UNCHANGED <<world, lease, act, stale, history>>
         /\ rec[m] = NoRec /\ ~history[m].completed /\ RecsStay(m)
         /\ rec'[m].status = "pending" /\ rec'[m].attempts = 0
         /\ ~rec'[m].acked /\ rec'[m].whole
<1> DEFINE new == [status |-> "pending", attempts |-> 0, acked |-> FALSE, whole |-> TRUE]
<1>1. /\ UNCHANGED <<world, lease, act, stale, history>>
      /\ rec[m] = NoRec /\ ~history[m].completed /\ rec' = [rec EXCEPT ![m] = new]
  BY DEF Persist
<1>2. 0 \in 0..Bound /\ "pending" \in Statuses
  BY BoundAssumption DEF Statuses
<1>3. new \in Rec
  BY <1>2, Zenon DEF Rec
<1>4. new.status = "pending" /\ new.attempts = 0 /\ ~new.acked /\ new.whole
  OBVIOUS
<1> HIDE DEF new
<1>5. rec' \in [Messages -> Rec] /\ RecsStay(m) /\ rec'[m] = new
  BY <1>1, <1>3, BaseTypes DEF RecsStay
<1>6. Base'
  BY <1>1, <1>5, BaseTypes, BaseQuiet
<1> QED
  BY <1>1, <1>4, <1>5, <1>6

LEMMA CleanupReadStep ==
  ASSUME Base, CleanupRead
  PROVE  /\ Base' /\ UNCHANGED <<world, rec, lease, act, history>>
         /\ stale' \in Messages /\ rec[stale'].status = "completed"
<1>1. PICK m \in Messages : /\ rec[m].status = "completed" /\ stale' = m
                            /\ UNCHANGED <<world, rec, lease, act, history>>
  BY DEF CleanupRead, Cleanable
<1>2. Base'
  BY <1>1, BaseTypes, BaseQuiet
<1> QED
  BY <1>1, <1>2

LEMMA CleanupDeleteStep ==
  ASSUME Base, CleanupDelete
  PROVE  /\ Base' /\ UNCHANGED <<world, lease, act, history>>
         /\ stale \in Messages /\ stale' = None /\ RecsStay(stale)
         /\ rec'[stale].status = "none" /\ rec'[stale].attempts = 0 /\ ~rec'[stale].acked
<1>1. /\ stale \in Messages /\ stale' = None /\ rec' = [rec EXCEPT ![stale] = NoRec]
      /\ UNCHANGED <<world, lease, act, history>>
  BY BaseTypes DEF CleanupDelete
<1>2. 0 \in 0..Bound /\ "none" \in Statuses
  BY BoundAssumption DEF Statuses
<1>3. NoRec \in Rec
  BY <1>2, Zenon DEF Rec, NoRec
<1>4. rec' \in [Messages -> Rec] /\ RecsStay(stale) /\ rec'[stale] = NoRec
  BY <1>1, <1>3, BaseTypes DEF RecsStay
<1>5. NoRec.status = "none" /\ NoRec.attempts = 0 /\ ~NoRec.acked
  BY DEF NoRec
<1>6. Base'
  BY <1>1, <1>4, BaseTypes, BaseQuiet
<1> QED
  BY <1>1, <1>4, <1>5, <1>6

LEMMA ExpireStep ==
  ASSUME Base, NEW m \in Messages, Expire(m)
  PROVE  /\ Base' /\ UNCHANGED <<world, rec, act, stale, history>>
         /\ lease[m].owner = Dead \/ world.slow
         /\ SetsOwner(m, None)
<1>1. /\ lease[m].owner = Dead \/ world.slow
      /\ lease' = [lease EXCEPT ![m] = NoLease]
      /\ UNCHANGED <<world, rec, act, stale, history>>
  BY DEF Expire
<1>2. NoLease \in Lease /\ NoLease.owner = None
  <2>1. NoLease \in Lease
    BY Zenon DEF Lease, NoLease
  <2> QED
    BY <2>1 DEF NoLease
<1>3. lease' \in [Messages -> Lease] /\ SetsOwner(m, None)
  BY <1>1, <1>2, BaseTypes DEF SetsOwner, LeasesStay
<1>4. Base'
  BY <1>1, <1>3, BaseTypes, BaseQuiet
<1> QED
  BY <1>1, <1>3, <1>4

LEMMA CrashStep ==
  ASSUME Base, NEW p \in Procs, Crash(p)
  PROVE  /\ Base' /\ UNCHANGED <<world, rec, stale, history>> /\ Stops(p)
         /\ \A n \in Messages : lease[n].owner # p => lease'[n] = lease[n]
<1>1. /\ UNCHANGED <<world, rec, stale, history>> /\ Stop(p)
      /\ lease' = [m \in Messages |-> IF lease[m].owner = p
                                      THEN [lease[m] EXCEPT !.owner = Dead] ELSE lease[m]]
  BY DEF Crash
<1>2. \A m \in Messages : lease[m] \in Lease /\ [lease[m] EXCEPT !.owner = Dead] \in Lease
  <2>1. \A m \in Messages : lease[m] \in Lease
    BY BaseTypes
  <2>2. ASSUME NEW l \in Lease PROVE [l EXCEPT !.owner = Dead] \in Lease
    BY DEF Lease
  <2> QED
    BY <2>1, <2>2
<1>3. /\ lease' \in [Messages -> Lease]
      /\ \A n \in Messages : lease[n].owner # p => lease'[n] = lease[n]
  BY <1>1, <1>2
<1>4. Base' /\ Stops(p)
  BY <1>1, <1>3, BaseTypes, StopsBase
<1> QED
  BY <1>1, <1>3, <1>4

LEMMA InitBase == Init => Base
<1> SUFFICES ASSUME Init PROVE Base
  OBVIOUS
<1>1. /\ 0 \in 0..Bound /\ "none" \in Statuses /\ "idle" \in PCs /\ "ack" \in Reports
      /\ 0 \in 0..2
  BY BoundAssumption DEF Statuses, PCs, Reports
<1>2. NoRec \in Rec /\ NoLease \in Lease /\ Idle \in Act
  <2>1. NoRec \in Rec
    BY <1>1, Zenon DEF Rec, NoRec
  <2>2. NoLease \in Lease
    BY Zenon DEF Lease, NoLease
  <2>3. Idle \in Act
    BY <1>1, Zenon DEF Act, Idle
  <2> QED
    BY <2>1, <2>2, <2>3
<1>3. [completed |-> FALSE, ackedAt |-> 0, requeues |-> [n \in 0..Bound |-> 0]] \in Hist
  <2>1. [n \in 0..Bound |-> 0] \in [0..Bound -> 0..2]
    BY <1>1
  <2> QED
    BY <1>1, <2>1, Zenon DEF Hist
<1>4. /\ world \in Scenarios /\ rec \in [Messages -> Rec] /\ lease \in [Messages -> Lease]
      /\ act \in [Procs -> Act] /\ stale \in Messages \cup {None}
      /\ history \in [Messages -> Hist]
  BY <1>2, <1>3 DEF Init
<1>5. TypeOK
  BY <1>4 DEF TypeOK, Rec, Lease, Act, Hist
<1>6. \A p \in Procs : act[p].pc = "idle" /\ act[p].report = "ack"
  BY DEF Init, Idle
<1>7. Roles
  BY <1>6 DEF Roles, WorkerPCs, SweeperPCs, AdminPCs, Procs
<1> QED
  BY <1>5, <1>7 DEF Base

LEMMA NextBase == Base /\ [Next]_vars => Base'
<1> SUFFICES ASSUME Base, [Next]_vars PROVE Base'
  OBVIOUS
<1>1. ASSUME NEW m \in Messages, Persist(m) \/ Age(m) \/ Expire(m) PROVE Base'
  <2>1. CASE Age(m)
    <3>1. lease' = [lease EXCEPT ![m].fresh = FALSE] /\ UNCHANGED <<world, rec, act, stale, history>>
      BY <2>1 DEF Age
    <3> QED
      BY <3>1, FreshStep
  <2> QED
    BY <1>1, <2>1, PersistStep, ExpireStep
<1>2. ASSUME NEW w \in Workers, ClaimLease(w) \/ Renew(w) \/ WorkerStep(w) PROVE Base'
  <2>1. CASE Renew(w)
    <3>1. /\ lease' = [lease EXCEPT ![M(w)].fresh = TRUE] /\ act[w].pc = "working"
          /\ UNCHANGED <<world, rec, act, stale, history>>
      BY <2>1 DEF Renew
    <3>2. M(w) \in Messages
      BY <3>1, BaseTypes DEF Procs
    <3> QED
      BY <3>1, <3>2, FreshStep
  <2>2. w \in Procs /\ w \in Workers \cup Admins
    BY DEF Procs
  <2> QED
    BY <1>2, <2>1, <2>2, ClaimLeaseStep, CheckPendingStep, UnleaseStep, IncrementStep,
       MarkProcessingStep, ReportOf, ReportMissingStep, WriteStep, DeleteLeaseStep
    DEF WorkerStep
<1>3. ASSUME NEW s \in Sweepers, Sweep(s) \/ SweepStep(s) PROVE Base'
  <2>1. s \in Procs
    BY DEF Procs
  <2> QED
    BY <1>3, <2>1, SweepTakes, SweepLeaseStep, SweepClaimStep, RecheckStep, RequeueStep,
       DeleteLeaseStep DEF SweepStep
<1>4. ASSUME NEW a \in Admins, Retry(a) \/ Write(a) \/ DeleteLease(a) PROVE Base'
  <2>1. a \in Procs /\ a \in Workers \cup Admins
    BY DEF Procs
  <2> QED
    BY <1>4, <2>1, RetryStep, WriteStep, DeleteLeaseStep
<1>5. CASE UNCHANGED vars
  <2>1. UNCHANGED <<world, rec, lease, act, stale, history>>
    BY <1>5 DEF vars
  <2> QED
    BY <2>1, BaseTypes, BaseQuiet
<1> QED
  BY <1>1, <1>2, <1>3, <1>4, <1>5, CleanupReadStep, CleanupDeleteStep, CrashStep DEF Next

\* Hashes, leases, processes and the history have their types, whatever the
\* interleaving of Redis commands.
THEOREM TypeCorrect == Spec => []TypeOK
<1>1. Base => TypeOK
  BY DEF Base
<1> QED
  BY <1>1, InitBase, NextBase, PTL DEF Spec

-----------------------------------------------------------------------------
(* No persisted message is lost.                                           *)

\* Only a message that was reported completed is deleted, and it stays reported.
KeptWhole ==
  \A m \in Messages :
    /\ rec[m].status # "none" /\ rec'[m].status = "none" => history[m].completed
    /\ history[m].completed => history'[m].completed

LEMMA ReportedNext ==
  ASSUME Base, Reported, [Next]_vars
  PROVE  Reported' /\ KeptWhole
<1> USE DEF Reported, KeptWhole
<1>1. CASE UNCHANGED <<rec, stale, history>>
  BY <1>1
<1>2. ASSUME NEW m \in Messages, Persist(m) \/ Age(m) \/ Expire(m) PROVE Reported' /\ KeptWhole
  <2>1. CASE Persist(m)
    BY <2>1, PersistStep DEF RecsStay
  <2>2. CASE Age(m) \/ Expire(m)
    BY <1>1, <2>2 DEF Age, Expire
  <2> QED
    BY <1>2, <2>1, <2>2
<1>3. ASSUME NEW m \in Messages, history' = history, stale' = stale,
             SetsStatus(m, "processing") \/ SetsStatus(m, "pending") \/ SetsStatus(m, "failed")
      PROVE  Reported' /\ KeptWhole
  BY <1>3 DEF SetsStatus, RecsStay
<1>4. ASSUME NEW p \in Workers \cup Admins, Write(p) PROVE Reported' /\ KeptWhole
  <2>1. /\ M(p) \in Messages /\ stale' = stale /\ RecsStay(M(p)) /\ HistoriesStay(M(p))
        /\ rec'[M(p)].whole = rec[M(p)].whole
        /\ \/ rec'[M(p)].status = rec[M(p)].status /\ history'[M(p)].completed = history[M(p)].completed
           \/ history'[M(p)].completed
           \/ /\ rec'[M(p)].status \in {"failed", "pending"}
              /\ history'[M(p)].completed = history[M(p)].completed
    BY <1>4, WriteStep
  <2>2. \A m \in Messages : rec[m].status # "none" /\ rec'[m].status = "none" => history[m].completed
    BY <1>4, <2>1, WriteStep DEF RecsStay
  <2>3. \A m \in Messages : history[m].completed => history'[m].completed
    BY <2>1 DEF HistoriesStay
  <2>4. \A m \in Messages : rec'[m].status = "completed" => history'[m].completed
    BY <2>1, <2>3 DEF RecsStay
  <2>5. stale' # None => history'[stale'].completed
    BY <2>1, <2>3, BaseTypes
  <2> QED
    BY <2>2, <2>3, <2>4, <2>5
<1>5. ASSUME NEW w \in Workers, ClaimLease(w) \/ Renew(w) \/ WorkerStep(w)
      PROVE  Reported' /\ KeptWhole
  <2>1. CASE Increment(w)
    BY <2>1, IncrementStep DEF RecsStay
  <2>2. CASE MarkProcessing(w)
    BY <1>3, <2>2, MarkProcessingStep
  <2>3. CASE Write(w)
    BY <1>4, <2>3
  <2>4. CASE ~(Increment(w) \/ MarkProcessing(w) \/ Write(w))
    <3>1. UNCHANGED <<rec, stale, history>>
      BY <1>5, <2>4
      DEF WorkerStep, ClaimLease, Renew, CheckPending, Unlease, Report, ReportMissing, DeleteLease
    <3> QED
      BY <1>1, <3>1
  <2> QED
    BY <2>1, <2>2, <2>3, <2>4
<1>6. ASSUME NEW s \in Sweepers, Sweep(s) \/ SweepStep(s) PROVE Reported' /\ KeptWhole
  <2>1. CASE Requeue(s)
    <3>1. /\ M(s) \in Messages /\ stale' = stale /\ HistoriesStay(M(s))
          /\ SetsStatus(M(s), "pending") \/ SetsStatus(M(s), "failed")
          /\ history'[M(s)].completed = history[M(s)].completed
      BY <2>1, RequeueStep
    <3>2. \A m \in Messages : history[m].completed = history'[m].completed
      BY <3>1 DEF HistoriesStay
    <3>3. \A m \in Messages : /\ rec'[m].status = "completed" => rec[m].status = "completed"
                              /\ rec'[m].status = "none" => rec[m].status = "none"
      BY <3>1 DEF SetsStatus, RecsStay
    <3> QED
      BY <3>1, <3>2, <3>3, BaseTypes
  <2>2. CASE ~Requeue(s)
    <3>1. UNCHANGED <<rec, stale, history>>
      BY <1>6, <2>2 DEF SweepStep, Sweep, SweepLease, SweepClaim, Recheck, DeleteLease
    <3> QED
      BY <1>1, <3>1
  <2> QED
    BY <2>1, <2>2
<1>7. ASSUME NEW a \in Admins, Retry(a) \/ Write(a) \/ DeleteLease(a) PROVE Reported' /\ KeptWhole
  <2>1. Retry(a) \/ DeleteLease(a) => UNCHANGED <<rec, stale, history>>
    BY DEF Retry, DeleteLease
  <2> QED
    BY <1>1, <1>4, <1>7, <2>1
<1>8. CASE CleanupRead
  BY <1>8, CleanupReadStep
<1>9. CASE CleanupDelete
  BY <1>9, CleanupDeleteStep, ProcsAssumption DEF RecsStay
<1>10. ASSUME NEW p \in Procs, Crash(p) PROVE Reported' /\ KeptWhole
  BY <1>1, <1>10 DEF Crash
<1>11. CASE UNCHANGED vars
  BY <1>1, <1>11 DEF vars
<1> QED
  BY <1>2, <1>5, <1>6, <1>7, <1>8, <1>9, <1>10, <1>11 DEF Next

LEMMA InitReported == Init => Reported
BY DEF Init, Reported, NoRec

-----------------------------------------------------------------------------
(* While processes are timely, a message has one owner.                    *)

Excl == /\ \A a \in Admins : act[a].pc = "idle"
        /\ Holds /\ Stages /\ Alone /\ Fresh /\ Counted

\* A step that writes no hash, and after which the processes it moves have
\* nothing to do with a message: the others must keep their leases, except on
\* messages that are closed.
LEMMA QuietExcl ==
  ASSUME Base, Excl, rec' = rec, history' = history,
         \A q \in Procs : act'[q] = act[q] \/ act'[q].pc \in {"idle", "get", "nx"},
         \A a \in Admins : act'[a].pc = "idle",
         \A q \in Procs : act'[q] = act[q] /\ act[q].pc \in Leased /\ lease[act[q].m].owner = q =>
           lease'[act[q].m].owner = q \/ Closed(act[q].m)
  PROVE  Excl'
<1>1. \A m : Closed(m)' <=> Closed(m)
  BY DEF Closed
<1>2. \A q \in Procs : act'[q].pc \in Leased \cup {"acked"} => act'[q] = act[q]
  BY DEF Leased
<1>3. Holds'
  BY <1>1, <1>2 DEF Excl, Holds, M
<1>4. Stages'
  BY <1>2 DEF Excl, Stages, M, Acking, Leased
<1>5. Alone'
  BY <1>2 DEF Excl, Alone, Engaged, M, Acking, Leased
<1>6. Fresh'
  BY DEF Excl, Fresh
<1>7. Counted'
  BY <1>2 DEF Excl, Counted, M, Leased
<1> QED
  BY <1>3, <1>4, <1>5, <1>6, <1>7 DEF Excl

\* SET NX of a free lease: whoever had claimed the message before has lost it,
\* and the message is closed for them.
LEMMA ClaimExcl ==
  ASSUME Base, Excl, NEW p \in Workers \cup Sweepers, NEW m \in Messages, rec' = rec,
         history' = history, OthersStay(p), act'[p].pc \in {"check", "recheck"}, act'[p].m = m,
         lease[m].owner = None, SetsOwner(m, p)
  PROVE  Excl'
<1>1. \A n : Closed(n)' <=> Closed(n)
  BY DEF Closed
<1>0. p \in Procs /\ p \notin Admins /\ \A q \in Procs : q # None
  BY ProcsAssumption DEF Procs
<1>2. \A q \in Procs : q # p => act'[q] = act[q]
  BY DEF OthersStay
<1>3. Holds'
  <2> SUFFICES ASSUME NEW q \in Procs, act'[q].pc \in Leased
               PROVE  lease'[act'[q].m].owner = q \/ Closed(act'[q].m)
    BY <1>1 DEF Holds, M
  <2>1. CASE q = p
    BY <2>1 DEF SetsOwner
  <2>2. CASE q # p
    <3>1. act'[q] = act[q] /\ act[q].m \in Messages
      BY <1>2, <2>2, BaseTypes DEF M, Leased
    <3>2. lease[act[q].m].owner = q \/ Closed(act[q].m)
      BY <3>1 DEF Excl, Holds, M
    <3> QED
      BY <1>0, <3>1, <3>2 DEF SetsOwner, LeasesStay
  <2> QED
    BY <2>1, <2>2
<1>4. Stages'
  BY <1>0, <1>2 DEF Excl, Stages, M, Acking
<1>5. Alone'
  BY <1>0, <1>2 DEF Excl, Alone, Engaged, M, Acking
<1>6. Fresh'
  BY DEF Excl, Fresh
<1>7. Counted'
  BY <1>0, <1>2 DEF Excl, Counted, M
<1>8. \A a \in Admins : act'[a].pc = "idle"
  BY <1>0, <1>2 DEF Excl, Procs
<1> QED
  BY <1>3, <1>4, <1>5, <1>6, <1>7, <1>8 DEF Excl

\* Two processes that hold claims on a message that is not closed are the same.
LEMMA OneHolder ==
  ASSUME Excl, NEW p \in Procs, NEW q \in Procs, act[p].pc \in Leased, act[q].pc \in Leased,
         M(p) = M(q), ~Closed(M(p))
  PROVE  p = q
BY DEF Excl, Holds

\* A process that holds a claim goes on, and no hash or lease changes.
LEMMA GoOnExcl ==
  ASSUME Base, Excl, NEW p \in Workers \cup Sweepers, rec' = rec, lease' = lease,
         history' = history, OthersStay(p), act'[p].m = act[p].m,
         act[p].pc \in Leased \cup {"acked"},
         act'[p].pc \in Leased,
         act[p].pc = "acked" => act'[p].pc = "write" /\ act'[p].report # "ack",
         act'[p].pc = "mark" => FALSE,
         act'[p].pc = "incr" => rec[M(p)].status = "pending",
         act'[p].pc \in {"working", "write", "requeue"} => rec[M(p)].status = "processing",
         act'[p].pc \in {"working", "requeue"} \/ (act'[p].pc = "write" /\ act'[p].report = "ack") =>
           ~rec[M(p)].acked,
         act'[p].pc = "del" => p \notin Workers,
         act'[p].pc \in {"incr", "working", "write", "requeue"} => Engaged(p) \/ ~Closed(M(p))
  PROVE  Excl'
<1>0. p \in Procs /\ p \notin Admins /\ M(p) \in Messages
  BY ProcsAssumption, BaseTypes DEF Procs, Leased
<1>1. \A n : Closed(n)' <=> Closed(n)
  BY DEF Closed
<1>2. \A q \in Procs : q # p => act'[q] = act[q]
  BY DEF OthersStay
<1>3. Holds'
  <2>1. act[p].pc = "acked" => Closed(act[p].m)
    BY <1>0 DEF Excl, Stages, Closed, M
  <2>2. act[p].pc \in Leased => lease[act[p].m].owner = p \/ Closed(act[p].m)
    BY <1>0 DEF Excl, Holds, M
  <2> QED
    BY <1>0, <1>1, <1>2, <2>1, <2>2 DEF Excl, Holds, M
<1>4. Stages'
  BY <1>0, <1>2 DEF Excl, Stages, M, Acking, Leased
<1>5. Alone'
  <2>1. ASSUME NEW q \in Procs, q # p, Engaged(q), M(q) = M(p), Engaged(p)'
        PROVE  FALSE
    <3>1. act'[p].pc \in {"incr", "working", "write", "requeue"}
      BY <2>1 DEF Engaged, Acking, Leased
    <3>2. ~Engaged(p) /\ ~Closed(M(p))
      BY <1>0, <2>1, <3>1 DEF Excl, Alone
    <3>3. act[q].pc \in Leased
      BY <2>1, <3>2 DEF Excl, Stages, Engaged, Acking, Leased, Closed
    <3>4. act[p].pc \in Leased
      BY <3>2 DEF Engaged
    <3> QED
      BY <1>0, <2>1, <3>2, <3>3, <3>4, OneHolder
  <2>2. \A q \in Procs : q # p => (Engaged(q)' <=> Engaged(q)) /\ act'[q].m = act[q].m
    BY <1>2 DEF Engaged, Acking
  <2> QED
    BY <1>0, <2>1, <2>2 DEF Excl, Alone, M
<1>6. Fresh'
  BY DEF Excl, Fresh
<1>7. Counted'
  BY <1>0, <1>2 DEF Excl, Counted, M
<1>8. \A a \in Admins : act'[a].pc = "idle"
  BY <1>0, <1>2 DEF Excl, Procs
<1> QED
  BY <1>3, <1>4, <1>5, <1>6, <1>7, <1>8 DEF Excl

\* A process that is engaged with a message writes its hash.  Nobody else is
\* engaged with it, so it is enough to look at what the write does to that hash.
LEMMA WriterExcl ==
  ASSUME Base, Excl, NEW p \in Workers \cup Sweepers, NEW m \in Messages, NEW l \in Leased,
         m = M(p), act[p].pc \in Leased, Engaged(p), lease' = lease, Moves(p, l),
         RecsStay(m), HistoriesStay(m),
         Closed(m) => Closed(m)',
         l \in {"mark", "working", "del"},
         l = "mark" => rec'[m].status = "pending",
         l = "working" => rec'[m].status = "processing" /\ ~rec'[m].acked,
         l = "del" /\ p \in Workers /\ act[p].report = "ack" =>
           rec'[m].status = "processing" /\ rec'[m].acked,
         rec'[m].status = "pending" => ~rec'[m].acked,
         history'[m].completed => rec'[m].status \in {"completed", "none"},
         \A n \in 0..Bound :
           /\ history'[m].requeues[n] <= 1
           /\ history'[m].requeues[n] > 0 /\ ~history'[m].completed =>
                /\ n <= rec'[m].attempts
                /\ n = rec'[m].attempts => rec'[m].status # "processing" /\ l # "mark"
  PROVE  Excl'
<1>0. p \in Procs /\ p \notin Admins
  BY ProcsAssumption DEF Procs
<1>1. \A n \in Messages : n # m => /\ rec'[n] = rec[n] /\ history'[n] = history[n]
                                   /\ (Closed(n)' <=> Closed(n))
  BY DEF RecsStay, HistoriesStay, Closed
<1>2. /\ \A q \in Procs : q # p => act'[q] = act[q]
      /\ act'[p].pc = l /\ act'[p].m = m /\ act'[p].report = act[p].report
  BY DEF OthersStay, Moves, M
<1>3. \A q \in Procs : q # p /\ act[q].m = m => ~Engaged(q)
  BY <1>0 DEF Excl, Alone, M
<1>3a. \A q \in Procs : act'[q].pc # "idle" => act'[q].m \in Messages
  BY <1>2, BaseTypes DEF M
<1>4. Holds'
  <2> SUFFICES ASSUME NEW q \in Procs, act'[q].pc \in Leased, NEW k \in Messages, act'[q].m = k
               PROVE  lease[k].owner = q \/ Closed(k)'
    BY <1>3a DEF Holds, M, Closed, Leased
  <2>1. act[q].pc \in Leased /\ act[q].m = k
    BY <1>2 DEF M
  <2>2. lease[k].owner = q \/ Closed(k)
    BY <2>1 DEF Excl, Holds, M
  <2> QED
    BY <1>1, <2>2
<1>5. Stages'
  <2>1. ASSUME NEW q \in Procs, q # p
        PROVE  /\ act'[q].pc \in {"incr", "mark"} => rec'[act'[q].m].status = "pending"
               /\ act'[q].pc \in {"working", "acked", "write", "requeue"} \/ Acking(q)' =>
                    rec'[act'[q].m].status = "processing"
               /\ act'[q].pc \in {"working", "requeue"}
                    \/ (act'[q].pc = "write" /\ act'[q].report = "ack") => ~rec'[act'[q].m].acked
               /\ act'[q].pc = "acked" \/ Acking(q)' => rec'[act'[q].m].acked
    <3>1. act'[q] = act[q] /\ (Acking(q)' <=> Acking(q))
      BY <1>2, <2>1 DEF Acking
    <3>2. CASE ~Engaged(q)
      BY <3>1, <3>2 DEF Engaged
    <3>3. CASE Engaged(q)
      <4>1. act[q].m # m /\ act[q].m \in Messages
        BY <1>3, <2>1, <3>3, BaseTypes DEF M, Engaged, Acking
      <4>2. rec'[act[q].m] = rec[act[q].m]
        BY <1>1, <4>1
      <4> QED
        BY <3>1, <4>2 DEF Excl, Stages, M
    <3> QED
      BY <3>2, <3>3
  <2>2. /\ act'[p].pc \in {"incr", "mark"} => rec'[act'[p].m].status = "pending"
        /\ act'[p].pc \in {"working", "acked", "write", "requeue"} \/ Acking(p)' =>
             rec'[act'[p].m].status = "processing"
        /\ act'[p].pc \in {"working", "requeue"}
             \/ (act'[p].pc = "write" /\ act'[p].report = "ack") => ~rec'[act'[p].m].acked
        /\ act'[p].pc = "acked" \/ Acking(p)' => rec'[act'[p].m].acked
    BY <1>0, <1>2 DEF Acking
  <2> QED
    BY <2>1, <2>2 DEF Stages, M
<1>6. Alone'
  <2>1. \A q \in Procs : q # p => (Engaged(q)' <=> Engaged(q)) /\ act'[q].m = act[q].m
    BY <1>2 DEF Engaged, Acking
  <2> QED
    BY <1>0, <1>2, <1>3, <2>1 DEF Excl, Alone, M
<1>7. Fresh'
  BY <1>1 DEF Excl, Fresh
<1>8. Counted'
  <2> SUFFICES ASSUME NEW k \in Messages, NEW n \in 0..Bound
               PROVE  /\ history'[k].requeues[n] <= 1
                      /\ history'[k].requeues[n] > 0 /\ ~history'[k].completed =>
                           /\ n <= rec'[k].attempts
                           /\ n = rec'[k].attempts =>
                                /\ rec'[k].status # "processing"
                                /\ \A q \in Procs : act'[q].pc = "mark" => act'[q].m # k
    BY DEF Counted, M
  <2>1. CASE k = m
    <3>1. l # "mark" => \A q \in Procs : act'[q].pc = "mark" => act'[q].m # m
      BY <1>0, <1>2, <1>3 DEF Engaged
    <3> QED
      BY <2>1, <3>1
  <2>2. CASE k # m
    BY <1>1, <1>2, <2>2 DEF Excl, Counted, M
  <2> QED
    BY <2>1, <2>2
<1>9. \A a \in Admins : act'[a].pc = "idle"
  BY <1>0, <1>2 DEF Excl, Procs
<1> QED
  BY <1>4, <1>5, <1>6, <1>7, <1>8, <1>9 DEF Excl

\* acknowledgeMessage returns: the lease is gone, the message acknowledged.
LEMMA AckedExcl ==
  ASSUME Base, Excl, NEW p \in Workers, Acking(p), M(p) \in Messages, rec' = rec,
         history' = history, SetsOwner(M(p), None), Moves(p, "acked")
  PROVE  Excl'
<1>0. p \in Procs /\ p \notin Admins /\ rec[act[p].m].acked /\ rec[act[p].m].status = "processing"
  BY ProcsAssumption DEF Procs, Excl, Stages, M
<1>1. \A n : Closed(n)' <=> Closed(n)
  BY DEF Closed
<1>2. /\ \A q \in Procs : q # p => act'[q] = act[q]
      /\ act'[p].pc = "acked" /\ act'[p].m = act[p].m
  BY DEF OthersStay, Moves
<1>3. Holds'
  <2> SUFFICES ASSUME NEW q \in Procs, act'[q].pc \in Leased
               PROVE  lease'[act'[q].m].owner = q \/ Closed(act'[q].m)
    BY <1>1 DEF Holds, M
  <2>1. q # p
    BY <1>2 DEF Leased
  <2>2. act'[q] = act[q] /\ act[q].m \in Messages
    BY <1>2, <2>1, BaseTypes DEF M, Leased
  <2>3. CASE act[q].m = act[p].m
    BY <1>0, <2>2, <2>3 DEF Closed
  <2>4. CASE act[q].m # act[p].m
    BY <2>2, <2>4 DEF Excl, Holds, M, SetsOwner, LeasesStay
  <2> QED
    BY <2>3, <2>4
<1>4. Stages'
  BY <1>0, <1>2 DEF Excl, Stages, M, Acking
<1>5. Alone'
  <2>1. \A q \in Procs : (Engaged(q)' => Engaged(q)) /\ act'[q].m = act[q].m
    BY <1>0, <1>2 DEF Engaged, Acking
  <2> QED
    BY <2>1 DEF Excl, Alone, M
<1>6. Fresh'
  BY DEF Excl, Fresh
<1>7. Counted'
  BY <1>0, <1>2 DEF Excl, Counted, M
<1>8. \A a \in Admins : act'[a].pc = "idle"
  BY <1>0, <1>2 DEF Excl, Procs
<1> QED
  BY <1>3, <1>4, <1>5, <1>6, <1>7, <1>8 DEF Excl

\* A hash is created or deleted while nobody is engaged with its message.
LEMMA RowExcl ==
  ASSUME Base, Excl, NEW m \in Messages, act' = act, lease' = lease, history' = history,
         RecsStay(m), \A q \in Procs : Engaged(q) => M(q) # m,
         Closed(m) => Closed(m)',
         rec'[m].status = "pending" => ~rec'[m].acked,
         rec'[m].status # "processing",
         history[m].completed => rec'[m].status \in {"completed", "none"},
         ~history[m].completed => rec'[m].attempts = rec[m].attempts
  PROVE  Excl'
<1>1. \A n \in Messages : n # m => rec'[n] = rec[n] /\ (Closed(n)' <=> Closed(n))
  BY DEF RecsStay, Closed
<1>2. \A q \in Procs : act[q].pc # "idle" => act[q].m \in Messages
  BY BaseTypes DEF M
<1>3. Holds'
  <2> SUFFICES ASSUME NEW q \in Procs, act[q].pc \in Leased, NEW k \in Messages, act[q].m = k
               PROVE  lease[k].owner = q \/ Closed(k)'
    BY <1>2 DEF Holds, M, Closed, Leased
  <2>2. lease[k].owner = q \/ Closed(k)
    BY DEF Excl, Holds, M
  <2> QED
    BY <1>1, <2>2
<1>4. Stages'
  <2>1. \A q \in Procs : Engaged(q) => act[q].m # m /\ act[q].m \in Messages
    BY <1>2 DEF Engaged, Acking, M
  <2>2. \A q \in Procs : Engaged(q) => rec'[act[q].m] = rec[act[q].m]
    BY <1>1, <2>1
  <2>3. \A q \in Procs : (Acking(q)' <=> Acking(q)) /\ (Engaged(q)' <=> Engaged(q))
    BY DEF Engaged, Acking
  <2> QED
    BY <2>2, <2>3 DEF Excl, Stages, M, Engaged
<1>5. Alone'
  BY DEF Excl, Alone, Engaged, M, Acking
<1>6. Fresh'
  BY <1>1 DEF Excl, Fresh
<1>7. Counted'
  <2> SUFFICES ASSUME NEW k \in Messages, NEW n \in 0..Bound
               PROVE  /\ history[k].requeues[n] <= 1
                      /\ history[k].requeues[n] > 0 /\ ~history[k].completed =>
                           /\ n <= rec'[k].attempts
                           /\ n = rec'[k].attempts =>
                                /\ rec'[k].status # "processing"
                                /\ \A q \in Procs : act[q].pc = "mark" => act[q].m # k
    BY DEF Counted, M
  <2>1. CASE k = m
    BY <2>1 DEF Excl, Counted, M
  <2>2. CASE k # m
    BY <1>1, <2>2 DEF Excl, Counted, M
  <2> QED
    BY <2>1, <2>2
<1>8. \A a \in Admins : act'[a].pc = "idle"
  BY DEF Excl
<1> QED
  BY <1>3, <1>4, <1>5, <1>6, <1>7, <1>8 DEF Excl

\* A process gives up its claim, whoever holds the lease by now.
LEMMA DropExcl ==
  ASSUME Base, Excl, NEW p \in Procs, act[p].pc \in Leased, M(p) \in Messages, rec' = rec,
         history' = history, SetsOwner(M(p), None), Stops(p)
  PROVE  Excl'
<1>1. \A q \in Procs : act'[q] = act[q] \/ act'[q].pc = "idle"
  BY DEF Stops, OthersStay
<1>2. \A a \in Admins : act'[a].pc = "idle"
  BY <1>1 DEF Excl, Procs
<1>3. lease[act[p].m].owner = p \/ Closed(act[p].m)
  BY DEF Excl, Holds, M
<1>4. ASSUME NEW q \in Procs, act'[q] = act[q], act[q].pc \in Leased, lease[act[q].m].owner = q
      PROVE  lease'[act[q].m].owner = q \/ Closed(act[q].m)
  <2>1. q # p /\ act[q].m \in Messages
    BY <1>4, BaseTypes DEF Stops, Leased, M
  <2>2. CASE act[q].m = act[p].m
    BY <1>3, <1>4, <2>1, <2>2
  <2>3. CASE act[q].m # act[p].m
    BY <1>4, <2>1, <2>3 DEF SetsOwner, LeasesStay, M
  <2> QED
    BY <2>2, <2>3
<1> QED
  BY <1>1, <1>2, <1>4, QuietExcl

\* A process stops, or a sweep looks at a message, and every lease stays.
LEMMA AwayExcl ==
  ASSUME Base, Excl, NEW p \in Workers \cup Sweepers, rec' = rec, history' = history,
         lease' = lease, OthersStay(p), act'[p].pc \in {"idle", "get", "nx"}
  PROVE  Excl'
<1>1. \A q \in Procs : act'[q] = act[q] \/ act'[q].pc \in {"idle", "get", "nx"}
  BY DEF OthersStay
<1>2. \A a \in Admins : act'[a].pc = "idle"
  BY ProcsAssumption DEF Excl, Procs, OthersStay
<1> QED
  BY <1>1, <1>2, QuietExcl

LEMMA WorkerExcl ==
  ASSUME Base, Excl, NEW w \in Workers, ClaimLease(w) \/ Renew(w) \/ WorkerStep(w)
  PROVE  Excl'
<1>0. w \in Procs /\ w \in Workers \cup Admins /\ w \in Workers \cup Sweepers
  BY DEF Procs
<1>1. CASE ClaimLease(w)
  BY <1>0, <1>1, ClaimLeaseStep, ClaimExcl
<1>2. CASE Renew(w)
  <2>1. /\ lease' = [lease EXCEPT ![M(w)].fresh = TRUE] /\ act[w].pc = "working"
        /\ UNCHANGED <<world, rec, act, stale, history>>
    BY <1>2 DEF Renew
  <2>2. M(w) \in Messages
    BY <1>0, <2>1, BaseTypes
  <2>3. OwnersStay
    BY <2>1, <2>2, FreshStep
  <2>4. \A q \in Procs : act[q].pc \in Leased => act[q].m \in Messages
    BY BaseTypes DEF Leased, M
  <2> QED
    BY <2>1, <2>3, <2>4, QuietExcl DEF OwnersStay, Excl
<1>3. CASE CheckPending(w)
  <2>1. /\ act[w].pc = "check" /\ rec' = rec /\ lease' = lease /\ history' = history
        /\ Moves(w, IF rec[M(w)].status = "pending" THEN "incr" ELSE "unlease")
    BY <1>3, CheckPendingStep
  <2>2. M(w) \in Messages
    BY <1>0, <2>1, BaseTypes
  <2>3. rec[M(w)].status = "pending" => ~Closed(M(w))
    BY <2>2 DEF Excl, Fresh, Closed
  <2> QED
    BY <1>0, <2>1, <2>3, GoOnExcl DEF Moves, Leased
<1>4. CASE Unlease(w)
  BY <1>0, <1>4, UnleaseStep, DropExcl DEF Leased
<1>5. CASE Increment(w)
  <2>0. PICK m \in Messages : m = M(w)
    BY <1>5, IncrementStep
  <2>1. /\ act[w].pc = "incr" /\ m \in Messages /\ lease' = lease /\ history' = history
        /\ Moves(w, "mark") /\ RecsStay(m) /\ HistoriesStay(m)
        /\ rec'[m].status = rec[m].status /\ rec'[m].attempts = rec[m].attempts + 1
        /\ rec'[m].acked = rec[m].acked
    BY <2>0, <1>5, IncrementStep DEF HistoriesStay
  <2>2. rec[m].status = "pending" /\ ~rec[m].acked /\ rec[m].attempts \in Nat
    BY <2>0, <1>0, <2>1, BaseTypes, BoundAssumption DEF Excl, Stages, Fresh
  <2>3. Closed(m) => Closed(m)'
    BY <2>0, <2>1 DEF Closed
  <2>4. ~history[m].completed
    BY <2>0, <2>1, <2>2 DEF Excl, Fresh
  <2>5. \A n \in 0..Bound :
          /\ history'[m].requeues[n] <= 1
          /\ history'[m].requeues[n] > 0 => n <= rec[m].attempts
    BY <2>0, <2>1, <2>4 DEF Excl, Counted
  <2>6. \A n \in 0..Bound : history'[m].requeues[n] > 0 => n < rec'[m].attempts
    BY <2>0, <2>1, <2>2, <2>5
  <2>7. act[w].pc \in Leased /\ Engaged(w) /\ "mark" \in Leased
    BY <2>0, <2>1 DEF Leased, Engaged
  <2>8. \A n \in 0..Bound :
           /\ history'[m].requeues[n] <= 1
           /\ history'[m].requeues[n] > 0 /\ ~history'[m].completed =>
                /\ n <= rec'[m].attempts
                /\ n = rec'[m].attempts => rec'[m].status # "processing" /\ "mark" # "mark"
    BY <2>0, <2>1, <2>2, <2>5, <2>6
  <2>9. rec'[m].status = "pending" /\ ~rec'[m].acked /\ ~history'[m].completed
    BY <2>0, <2>1, <2>2, <2>4
  <2> QED
    BY <2>0, <1>0, <2>1, <2>3, <2>7, <2>8, <2>9, WriterExcl
<1>6. CASE MarkProcessing(w)
  <2>0. PICK m \in Messages : m = M(w)
    BY <1>6, MarkProcessingStep
  <2>1. /\ act[w].pc = "mark" /\ m \in Messages /\ lease' = lease /\ history' = history
        /\ Moves(w, "working") /\ RecsStay(m) /\ HistoriesStay(m)
        /\ rec'[m].status = "processing" /\ rec'[m].attempts = rec[m].attempts
        /\ rec'[m].acked = rec[m].acked
    BY <2>0, <1>6, MarkProcessingStep DEF HistoriesStay, SetsStatus
  <2>2. rec[m].status = "pending" /\ ~rec[m].acked /\ ~history[m].completed
    BY <2>0, <1>0, <2>1 DEF Excl, Stages, Fresh
  <2>3. Closed(m) => Closed(m)'
    BY <2>0, <2>2 DEF Closed
  <2>4. \A n \in 0..Bound :
          /\ history[m].requeues[n] <= 1
          /\ history[m].requeues[n] > 0 => n <= rec[m].attempts /\ n # rec[m].attempts
    BY <2>0, <1>0, <2>1, <2>2 DEF Excl, Counted
  <2>5. act[w].pc \in Leased /\ Engaged(w) /\ "working" \in Leased
    BY <2>0, <2>1 DEF Leased, Engaged
  <2> QED
    BY <2>0, <1>0, <2>1, <2>2, <2>3, <2>4, <2>5, WriterExcl
<1>7. CASE Report(w)
  <2>1. /\ rec' = rec /\ lease' = lease /\ history' = history /\ OthersStay(w)
        /\ act'[w].pc = "write" /\ act'[w].m = act[w].m
        /\ \/ act[w].pc = "working" /\ act'[w].report = "ack"
           \/ act[w].pc \in {"working", "acked"} /\ act'[w].report \in {"complete", "fail"}
    BY <1>7, ReportOf
  <2>2. /\ rec[M(w)].status = "processing" /\ Engaged(w)
        /\ act[w].pc = "working" => ~rec[M(w)].acked
    BY <1>0, <2>1 DEF Excl, Stages, Engaged
  <2> QED
    BY <1>0, <2>1, <2>2, GoOnExcl DEF Leased
<1>8. CASE ReportMissing(w)
  BY <1>0, <1>8, ReportMissingStep, AwayExcl DEF Stops
<1>9. CASE DeleteLease(w)
  BY <1>0, <1>9, DeleteLeaseStep, AckedExcl, DropExcl DEF Acking, Leased
<1>10. CASE Write(w)
  <2>0. PICK m \in Messages : m = M(w)
    BY <1>0, <1>10, WriteStep
  <2>1. /\ act[w].pc = "write" /\ m \in Messages /\ Moves(w, "del") /\ lease' = lease
        /\ RecsStay(m) /\ HistoriesStay(m)
        /\ rec'[m].attempts = rec[m].attempts /\ history'[m].requeues = history[m].requeues
        /\ \/ /\ act[w].report = "ack" /\ rec'[m].acked /\ rec'[m].status = rec[m].status
              /\ history'[m].completed = history[m].completed
           \/ /\ act[w].report = "complete" /\ rec'[m].acked = rec[m].acked
              /\ rec'[m].status = "completed" /\ history'[m].completed
           \/ /\ act[w].report = "fail" /\ rec'[m].acked = rec[m].acked
              /\ rec'[m].status = "failed" /\ history'[m].completed = history[m].completed
    <3>1. act[w].report # "retry"
      BY DEF Base, Roles
    <3> QED
      BY <2>0, <1>0, <1>10, <3>1, WriteStep
  <2>2. rec[m].status = "processing" /\ ~history[m].completed
    BY <2>0, <1>0, <2>1 DEF Excl, Stages, Fresh
  <2>3. Closed(m) => Closed(m)'
    BY <2>0, <2>1, <2>2 DEF Closed
  <2>4. \A n \in 0..Bound :
          /\ history[m].requeues[n] <= 1
          /\ history[m].requeues[n] > 0 => n <= rec[m].attempts /\ n # rec[m].attempts
    BY <2>0, <1>0, <2>1, <2>2 DEF Excl, Counted
  <2>5. act[w].pc \in Leased /\ Engaged(w) /\ "del" \in Leased
    BY <2>0, <2>1 DEF Leased, Engaged
  <2>6. /\ rec'[m].status # "pending"
        /\ history'[m].completed => rec'[m].status \in {"completed", "none"}
        /\ act[w].report = "ack" => rec'[m].status = "processing" /\ rec'[m].acked
    BY <2>0, <2>1, <2>2
  <2>7. \A n \in 0..Bound :
          /\ history'[m].requeues[n] <= 1
          /\ history'[m].requeues[n] > 0 => n <= rec'[m].attempts /\ n # rec'[m].attempts
    BY <2>0, <2>1, <2>4
  <2> QED
    BY <2>0, <1>0, <2>1, <2>3, <2>5, <2>6, <2>7, WriterExcl
<1> QED
  BY <1>1, <1>2, <1>3, <1>4, <1>5, <1>6, <1>7, <1>8, <1>9, <1>10 DEF WorkerStep

LEMMA SweeperExcl ==
  ASSUME Base, Excl, NEW s \in Sweepers, Sweep(s) \/ SweepStep(s)
  PROVE  Excl'
<1>0. s \in Procs /\ s \in Workers \cup Sweepers /\ s \notin Workers
  BY ProcsAssumption DEF Procs
<1>1. CASE Sweep(s)
  BY <1>0, <1>1, SweepTakes, AwayExcl
<1>2. CASE SweepLease(s)
  BY <1>0, <1>2, SweepLeaseStep, AwayExcl DEF Moves, Stops
<1>3. CASE SweepClaim(s)
  <2>1. /\ UNCHANGED <<rec, history>> /\ M(s) \in Messages
        /\ \/ /\ lease[M(s)].owner = None /\ SetsOwner(M(s), s) /\ Moves(s, "recheck")
           \/ lease' = lease /\ Stops(s)
    BY <1>3, SweepClaimStep
  <2>2. PICK m \in Messages : m = M(s)
    BY <2>1
  <2>3. CASE lease[m].owner = None /\ SetsOwner(m, s) /\ Moves(s, "recheck")
    BY <1>0, <2>1, <2>2, <2>3, ClaimExcl DEF Moves, M
  <2>4. CASE lease' = lease /\ Stops(s)
    BY <1>0, <2>1, <2>4, AwayExcl DEF Stops
  <2> QED
    BY <2>1, <2>2, <2>3, <2>4
<1>4. CASE Recheck(s)
  <2>1. /\ UNCHANGED <<rec, lease, history>> /\ act[s].pc = "recheck"
        /\ \/ /\ rec[M(s)].status = "processing" /\ ~rec[M(s)].acked /\ Moves(s, "requeue")
           \/ Moves(s, "del")
    BY <1>4, RecheckStep
  <2>2. rec[M(s)].status = "processing" /\ ~rec[M(s)].acked => ~Closed(M(s))
    BY DEF Closed
  <2> QED
    BY <1>0, <2>1, <2>2, GoOnExcl DEF Moves, Leased
<1>5. CASE Requeue(s)
  <2>0. PICK m \in Messages : m = M(s)
    BY <1>5, RequeueStep
  <2>1. /\ act[s].pc = "requeue" /\ lease' = lease /\ Moves(s, "del") /\ HistoriesStay(m)
        /\ SetsStatus(m, "pending") \/ SetsStatus(m, "failed")
        /\ history'[m].completed = history[m].completed
        /\ \A k \in (0..Bound) \ {rec[m].attempts} :
             history'[m].requeues[k] = history[m].requeues[k]
        /\ history[m].requeues[rec[m].attempts] < 2 =>
             history'[m].requeues[rec[m].attempts] = history[m].requeues[rec[m].attempts] + 1
    BY <1>5, <2>0, RequeueStep
  <2>2. /\ RecsStay(m) /\ rec'[m].attempts = rec[m].attempts /\ rec'[m].acked = rec[m].acked
        /\ rec'[m].status \in {"pending", "failed"}
    BY <2>1 DEF SetsStatus
  <2>3. rec[m].status = "processing" /\ ~rec[m].acked /\ ~history[m].completed
    BY <1>0, <2>0, <2>1 DEF Excl, Stages, Fresh
  <2>4. Closed(m) => Closed(m)'
    BY <2>3 DEF Closed
  <2>5. rec[m].attempts \in 0..Bound /\ history[m].requeues \in [0..Bound -> 0..2]
    <3>1. history[m] \in Hist
      BY BaseTypes
    <3> QED
      BY <3>1, BaseTypes DEF Hist
  <2>6. \A n \in 0..Bound :
          /\ history[m].requeues[n] <= 1
          /\ history[m].requeues[n] > 0 => n <= rec[m].attempts /\ n # rec[m].attempts
    BY <2>3 DEF Excl, Counted
  <2>7. history'[m].requeues[rec[m].attempts] = 1
    <3>1. history[m].requeues[rec[m].attempts] \in 0..2
      BY <2>5
    <3>2. history[m].requeues[rec[m].attempts] = 0
      BY <2>5, <2>6, <3>1
    <3> QED
      BY <2>1, <3>2
  <2>8. \A n \in 0..Bound :
          /\ history'[m].requeues[n] <= 1
          /\ history'[m].requeues[n] > 0 => n <= rec'[m].attempts
    BY <2>1, <2>2, <2>5, <2>6, <2>7, BoundAssumption
  <2>9. act[s].pc \in Leased /\ Engaged(s) /\ "del" \in Leased
    BY <2>1 DEF Leased, Engaged
  <2> QED
    BY <1>0, <2>0, <2>1, <2>2, <2>3, <2>4, <2>8, <2>9, WriterExcl
<1>6. CASE DeleteLease(s)
  BY <1>0, <1>6, DeleteLeaseStep, DropExcl DEF Leased
<1> QED
  BY <1>1, <1>2, <1>3, <1>4, <1>5, <1>6 DEF SweepStep

\* Nobody is engaged with a message that has no hash, or a completed one.
LEMMA NobodyEngaged ==
  ASSUME Excl, NEW m \in Messages, rec[m].status \in {"none", "completed"}
  PROVE  \A q \in Procs : Engaged(q) => M(q) # m
BY DEF Excl, Stages, Engaged

LEMMA ExclNext ==
  ASSUME Base, Reported, Excl, Timely, [Next]_vars
  PROVE  Excl'
<1>1. ASSUME NEW m \in Messages, Persist(m) PROVE Excl'
  <2>1. /\ UNCHANGED <<lease, act, history>> /\ rec[m] = NoRec /\ ~history[m].completed
        /\ RecsStay(m) /\ rec'[m].status = "pending" /\ rec'[m].attempts = 0 /\ ~rec'[m].acked
    BY <1>1, PersistStep
  <2>2. rec[m].status = "none" /\ ~rec[m].acked /\ rec[m].attempts = 0
    BY <2>1 DEF NoRec
  <2>3. ~Closed(m) /\ \A q \in Procs : Engaged(q) => M(q) # m
    BY <2>1, <2>2, NobodyEngaged DEF Closed
  <2> QED
    BY <2>1, <2>2, <2>3, RowExcl
<1>2. ASSUME NEW m \in Messages, Age(m) PROVE Excl'
  <2>1. /\ lease' = [lease EXCEPT ![m].fresh = FALSE]
        /\ UNCHANGED <<world, rec, act, stale, history>>
    BY <1>2 DEF Age
  <2>2. OwnersStay
    BY <2>1, FreshStep
  <2>3. \A q \in Procs : act[q].pc \in Leased => act[q].m \in Messages
    BY BaseTypes DEF Leased, M
  <2> QED
    BY <2>1, <2>2, <2>3, QuietExcl DEF OwnersStay, Excl
<1>3. ASSUME NEW m \in Messages, Expire(m) PROVE Excl'
  <2>1. UNCHANGED <<rec, act, history>> /\ lease[m].owner = Dead /\ SetsOwner(m, None)
    BY <1>3, ExpireStep DEF Timely
  <2>2. \A q \in Procs : q # Dead
    BY Separate
  <2>3. \A q \in Procs : act[q].pc \in Leased => act[q].m \in Messages
    BY BaseTypes DEF Leased, M
  <2> QED
    BY <2>1, <2>2, <2>3, QuietExcl DEF SetsOwner, LeasesStay, Excl
<1>4. ASSUME NEW a \in Admins, Retry(a) \/ Write(a) \/ DeleteLease(a) PROVE Excl'
  <2>1. act[a].pc = "idle"
    BY DEF Excl
  <2>2. Retry(a)
    BY <1>4, <2>1 DEF Write, DeleteLease
  <2> QED
    BY <2>2, RetryStep DEF Timely
<1>5. CASE CleanupRead
  BY <1>5, CleanupReadStep, QuietExcl DEF Excl
<1>6. CASE CleanupDelete
  <2>0. PICK m \in Messages : m = stale
    BY <1>6, CleanupDeleteStep
  <2>1. /\ UNCHANGED <<lease, act, history>> /\ RecsStay(m)
        /\ rec'[m].status = "none" /\ rec'[m].attempts = 0 /\ ~rec'[m].acked
    BY <1>6, <2>0, CleanupDeleteStep
  <2>2. history[m].completed
    BY <2>0, ProcsAssumption DEF Reported
  <2>3. \A q \in Procs : Engaged(q) => M(q) # m
    BY <2>2, NobodyEngaged DEF Excl, Fresh
  <2>4. Closed(m)'
    BY <2>1, <2>2 DEF Closed
  <2> QED
    BY <2>1, <2>2, <2>3, <2>4, RowExcl
<1>7. ASSUME NEW p \in Procs, Crash(p) PROVE Excl'
  <2>1. /\ UNCHANGED <<rec, history>> /\ Stops(p)
        /\ \A n \in Messages : lease[n].owner # p => lease'[n] = lease[n]
    BY <1>7, CrashStep
  <2>2. \A q \in Procs : act[q].pc \in Leased => act[q].m \in Messages
    BY BaseTypes DEF Leased, M
  <2>3. /\ \A q \in Procs : act'[q] = act[q] \/ act'[q].pc = "idle"
        /\ \A q \in Procs : act'[q] = act[q] /\ act[q].pc \in Leased => q # p
    BY <2>1 DEF Stops, OthersStay, Leased
  <2>4. \A a \in Admins : act'[a].pc = "idle"
    BY <2>3 DEF Excl, Procs
  <2> QED
    BY <2>1, <2>2, <2>3, <2>4, QuietExcl
<1>8. CASE UNCHANGED vars
  <2>1. UNCHANGED <<rec, act, lease, history>>
    BY <1>8 DEF vars
  <2> QED
    BY <2>1, QuietExcl DEF Excl
<1> QED
  BY <1>1, <1>2, <1>3, <1>4, <1>5, <1>6, <1>7, <1>8, WorkerExcl, SweeperExcl DEF Next

LEMMA InitExcl == Init => Excl
<1> SUFFICES ASSUME Init PROVE Excl
  OBVIOUS
<1>1. \A p \in Procs : act[p].pc = "idle"
  BY DEF Init, Idle
<1>2. Holds /\ Stages /\ Alone
  BY <1>1 DEF Holds, Stages, Alone, Leased, Engaged, Acking
<1>3. \A m \in Messages : rec[m].status = "none" /\ ~history[m].completed
                          /\ \A n \in 0..Bound : history[m].requeues[n] = 0
  BY DEF Init, NoRec
<1>4. Fresh /\ Counted
  BY <1>3 DEF Fresh, Counted
<1> QED
  BY <1>1, <1>2, <1>4 DEF Excl, Procs

LEMMA ExclusiveNext ==
  ASSUME Base, Reported, Exclusive, [Next]_vars
  PROVE  Exclusive'
<1> SUFFICES ASSUME Timely' PROVE Excl'
  BY DEF Exclusive, Excl
<1>1. world' = world
  BY DEF Next, vars, Persist, Age, Expire, ClaimLease, Renew, WorkerStep, CheckPending, Unlease,
         Increment, MarkProcessing, Report, ReportMissing, Write, DeleteLease, Sweep, SweepStep,
         SweepLease, SweepClaim, Recheck, Requeue, Retry, CleanupRead, CleanupDelete, Crash
<1>2. Timely /\ Excl
  BY <1>1 DEF Timely, Exclusive, Excl
<1> QED
  BY <1>2, ExclNext

\* Zero loss, for any number of messages, workers and sweeps, whoever of them
\* crashes: while live processes keep their leases and operators retry nothing,
\* what is completed stays so, and nothing but what is completed is deleted.
THEOREM MessagesNeverLost == Spec => NeverLost
<1>1. Init => Exclusive
  BY InitExcl DEF Exclusive, Excl
<1>2. Base /\ Reported /\ Exclusive /\ [Next]_vars => Exclusive' /\ Reported'
  BY ExclusiveNext, ReportedNext
<1>3. ASSUME Base, Reported, Exclusive, Exclusive', [Next]_vars, Timely, world' = world, NEW m \in Messages
      PROVE  /\ rec[m].status = "completed" => rec'[m].status \in {"completed", "none"}
             /\ rec[m].status # "none" /\ rec'[m].status = "none" => rec[m].status = "completed"
  <2>1. Fresh /\ Fresh'
    BY <1>3 DEF Exclusive, Timely
  <2>2. KeptWhole
    BY <1>3, ReportedNext
  <2> QED
    BY <1>3, <2>1, <2>2 DEF Fresh, KeptWhole, Reported
<1>4. Base /\ Reported /\ Exclusive /\ Exclusive' /\ [Next]_vars =>
        [Timely => \A m \in Messages :
           /\ rec[m].status = "completed" => rec'[m].status \in {"completed", "none"}
           /\ rec[m].status # "none" /\ rec'[m].status = "none" => rec[m].status = "completed"]_vars
  <2>1. [Next]_vars => world' = world
    BY DEF Next, vars, Persist, Age, Expire, ClaimLease, Renew, WorkerStep, CheckPending, Unlease,
           Increment, MarkProcessing, Report, ReportMissing, Write, DeleteLease, Sweep, SweepStep,
           SweepLease, SweepClaim, Recheck, Requeue, Retry, CleanupRead, CleanupDelete, Crash
  <2> QED
    BY <1>3, <2>1
<1> QED
  BY <1>1, <1>2, <1>4, InitBase, NextBase, InitReported, PTL DEF Spec, NeverLost

\* While live processes keep their leases and operators retry nothing, a message
\* is worked on by one worker, no sweep touches it meanwhile, and an attempt is
\* recovered once, for any number of processes and whoever of them crashes.
THEOREM MessagesHaveOneOwner == Spec => []OneOwner
<1>1. Init => Exclusive
  BY InitExcl DEF Exclusive, Excl
<1>2. Base /\ Reported /\ Exclusive /\ [Next]_vars => Exclusive'
  BY ExclusiveNext
<1>3. Exclusive => OneOwner
  <2> SUFFICES ASSUME Excl PROVE LeaseExcludes /\ \A m \in Messages, n \in 0..Bound : history[m].requeues[n] <= 1
    BY DEF Exclusive, Excl, OneOwner, OneWorker, RequeuedOnce
  <2>1. LeaseExcludes
    BY DEF Excl, Stages, Alone, Engaged, LeaseExcludes, Procs
  <2> QED
    BY <2>1 DEF Excl, Counted
<1>4. Base /\ Reported /\ [Next]_vars => Reported'
  BY ReportedNext
<1> QED
  BY <1>1, <1>2, <1>3, <1>4, InitBase, NextBase, InitReported, PTL DEF Spec
=============================================================================
