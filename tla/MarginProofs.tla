---------------------------- MODULE MarginProofs ----------------------------
(***************************************************************************)
(* Proofs about Margin: its type invariant, the accounts that users,       *)
(* sweeps and interest runs leave behind, and what a liquidation rests on. *)
(***************************************************************************)
EXTENDS Margin, FiniteSums, TLAPS

-----------------------------------------------------------------------------
(* The calculator's types.                                                 *)

LEMMA MaxOfTwo ==
  ASSUME NEW a \in Int, NEW b \in Int
  PROVE  Max({a, b}) = IF a >= b THEN a ELSE b
<1> DEFINE P(x) == x \in {a, b} /\ \A y \in {a, b} : x >= y
           m == IF a >= b THEN a ELSE b
<1>1. P(m)
  OBVIOUS
<1>2. P(Max({a, b}))
  BY <1>1 DEF Max
<1> QED
  BY <1>1, <1>2

LEMMA MinOfTwo ==
  ASSUME NEW a \in Int, NEW b \in Int
  PROVE  Min({a, b}) = IF a <= b THEN a ELSE b
<1> DEFINE P(x) == x \in {a, b} /\ \A y \in {a, b} : x <= y
           m == IF a <= b THEN a ELSE b
<1>1. P(m)
  OBVIOUS
<1>2. P(Min({a, b}))
  BY <1>1 DEF Min
<1> QED
  BY <1>1, <1>2

LEMMA DtoType ==
  ASSUME NEW p \in Positions
  PROVE  /\ Dto[p].user \in Users /\ Dto[p].collateral \in Nat \ {0}
         /\ Dto[p].leverage \in Nat \ {0} /\ Dto[p].entry \in Nat
<1> DEFINE Request == [user : Users, side : {"LONG", "SHORT"}, collateral : Nat \ {0},
                       leverage : Nat \ {0}, entry : Nat]
<1>1. Dto[p] \in Request
  BY DtoAssumption
<1> QED
  BY <1>1

LEMMA NotionalType ==
  ASSUME NEW p \in Positions
  PROVE  Notional(p) \in Nat
<1>1. \A a, b \in Nat : a * b \in Nat
  OBVIOUS
<1> QED
  BY <1>1, DtoType DEF Notional

LEMMA QuotientType ==
  ASSUME NEW a \in Nat, NEW b \in Nat \ {0}
  PROVE  a \div b \in Nat
OBVIOUS

LEMMA PairType == Pair.interestRate \in Nat /\ Pair.maintenanceRate \in Nat
BY PairAssumption

LEMMA DailyInterestType ==
  ASSUME NEW p \in Positions
  PROVE  DailyInterest(p) \in Nat
<1>1. Borrowed(p) \in Nat
  <2>1. Notional(p) - Dto[p].collateral \in Int
    BY NotionalType, DtoType
  <2> QED
    BY <2>1, MaxOfTwo DEF Borrowed
<1>2. Borrowed(p) * Pair.interestRate \in Nat
  BY <1>1, PairType
<1> QED
  BY <1>2, QuotientType DEF DailyInterest

LEMMA SizeType ==
  ASSUME NEW p \in Positions, NEW row, row.entry \in Nat \ {0}
  PROVE  Size(p, row) \in Nat
BY NotionalType, QuotientType DEF Size

LEMMA EquityType ==
  ASSUME NEW p \in Positions, NEW row, row.entry \in Nat \ {0}, row.interest \in Nat, NEW px \in Nat
  PROVE  Pnl(p, row, px) \in Int /\ Equity(p, row, px) \in Int
<1>1. Size(p, row) \in Nat
  BY SizeType
<1>2. Pnl(p, row, px) \in Int
  <2> DEFINE d == IF Dto[p].side = "LONG" THEN px - row.entry ELSE row.entry - px
  <2>1. d \in Int
    OBVIOUS
  <2> HIDE DEF d
  <2>2. Size(p, row) * d \in Int
    BY <1>1, <2>1
  <2> QED
    BY <2>2 DEF Pnl, d
<1> QED
  BY <1>2, DtoType DEF Equity

-----------------------------------------------------------------------------
(* The type invariant and what it rests on.                                *)

PCs        == {"idle", "done", "prices", "next", "save", "liquidate", "cover", "call",
               "notify", "called", "recover", "load", "accrue", "record"}
SweepPCs   == {"idle", "prices", "next", "save", "liquidate", "cover", "call", "notify",
               "called", "recover"}
AccrualPCs == {"idle", "done", "next", "load", "accrue", "record"}
AtPosition == {"save", "liquidate", "cover", "call", "notify", "called", "recover", "load",
               "accrue", "record"}
Columns    == {"status", "interest", "notified"}
JobRec     == [pc : PCs, todo : SUBSET Positions, snap : [Positions -> Row], px : Nat,
               cur : Positions \cup {None}, cols : SUBSET Columns]
Account    == [balance : Int, locked : Nat]
Seen       == [settled : Nat, calls : [1..MaxHour -> Nat]]

\* The entities of job j that it may still save.
Pending(j) == job[j].todo \cup {p \in Positions : p = job[j].cur}

\* A row that exists has a positive entry price, and its request is over;
\* of one that does not, nothing is known.
RowsOpened ==
  \A p \in Positions : /\ rows[p].status # "none" => rows[p].entry # 0 /\ request[p] = -1
                       /\ rows[p].status = "none" => rows[p] = NoRow

\* A job that is at a position has one; the entities it may save were read while
\* their positions were open, so that no save can end a position.
JobOK(j) ==
  /\ job[j].pc \in AtPosition => job[j].cur \in Positions
  /\ \A p \in Pending(j) : /\ job[j].snap[p].status \in Live
                           /\ rows[p].status # "none"
                           /\ job[j].snap[p].entry = rows[p].entry
  /\ job[j].pc = "notify" => job[j].snap[job[j].cur].notified # 0
  /\ j \notin world.jobs => job[j].pc = "idle"
  /\ job[j].pc = "idle" => job[j].todo = {} /\ job[j].cur = None
  /\ job[j].pc \in {"prices", "next"} => job[j].cur = None
  /\ job[j].cur \notin job[j].todo
  /\ j \in Sweeps => job[j].pc \in SweepPCs
  /\ j \in Accruals => job[j].pc \in AccrualPCs

Base == TypeOK /\ RowsOpened /\ \A j \in Jobs : JobOK(j)

\* With one writer the entities which a job may save are open, unless it has just
\* liquidated one, and it knows when their owners were notified, unless it is
\* about to write that.
Alone(j) ==
  \A p \in Pending(j) :
    LET at == p = job[j].cur
    IN  /\ (at /\ job[j].pc = "cover") \/ rows[p].status \in Live
        /\ IF at /\ job[j].pc = "notify"
             THEN /\ rows[p].notified < job[j].snap[p].notified
                  /\ job[j].snap[p].notified <= hour /\ "notified" \in job[j].cols
             ELSE job[j].snap[p].notified = rows[p].notified

\* With one writer a position is settled when it ends, and its owner has been
\* called in no hour after the one that its row names.
Told(p) ==
  /\ seen[p].settled <= 1
  /\ rows[p].status \in Live \cup {"none"} => seen[p].settled = 0
  /\ rows[p].notified <= hour
  /\ \A h \in 1..MaxHour : /\ seen[p].calls[h] <= 1
                           /\ seen[p].calls[h] > 0 => h <= rows[p].notified

Solvent == ~world.closing => \A u \in Users : account[u].balance >= account[u].locked

Writer ==
  OneWriter => /\ \A j \in Jobs : Alone(j)
               /\ \A p \in Positions : Told(p)
               /\ LockedIsCollateral /\ Solvent

\* Without overlapping runs the interest of a position is zero until the interest
\* run has started and a day's interest at most, never less than a sweep has read.
InterestOK(j) ==
  \A p \in Pending(j) :
    LET i == job[j].snap[p].interest
    IN  IF j \in Sweeps THEN i <= rows[p].interest
        ELSE i = IF p = job[j].cur /\ job[j].pc \in {"accrue", "record"}
                   THEN DailyInterest(p) ELSE 0

Untouched == (\A a \in Accruals : job[a].pc = "idle") => \A p \in Positions : rows[p].interest = 0

Decided(j) ==
  job[j].pc = "liquidate" =>
    ShouldLiquidate(job[j].cur, job[j].snap[job[j].cur], job[j].px)

Charged ==
  NoOverlap => /\ \A j \in Jobs : InterestOK(j) /\ Decided(j)
               /\ \A p \in Positions : rows[p].interest <= DailyInterest(p)
               /\ Untouched

LEMMA Types ==
  ASSUME TypeOK
  PROVE  /\ world \in Scenarios /\ price \in Nat \ {0} /\ price \in Prices /\ hour \in 1..MaxHour
         /\ request \in [Positions -> Nat \cup {-1}] /\ rows \in [Positions -> Row]
         /\ account \in [Users -> Account] /\ charged \in [Positions -> [Dates -> 0..2]]
         /\ job \in [Jobs -> JobRec] /\ seen \in [Positions -> Seen]
<1>1. /\ world \in Scenarios /\ price \in Prices /\ hour \in 1..MaxHour
      /\ request \in [Positions -> Nat \cup {-1}] /\ rows \in [Positions -> Row]
      /\ charged \in [Positions -> [Dates -> 0..2]]
  BY DEF TypeOK
<1>2. job \in [Jobs -> JobRec]
  BY DEF TypeOK, JobRec, PCs, Columns
<1>3. account \in [Users -> Account] /\ seen \in [Positions -> Seen]
  BY DEF TypeOK, Account, Seen
<1> QED
  BY <1>1, <1>2, <1>3, PricesAssumption

LEMMA WorldType ==
  ASSUME world \in Scenarios
  PROVE  /\ world.prices \subseteq Prices /\ world.hours \in 1..MaxHour
         /\ world.jobs \subseteq Jobs /\ world.closing \in BOOLEAN
<1>1. world \in [requested : SUBSET Positions, jobs : SUBSET Jobs, closing : BOOLEAN,
                 faulty : BOOLEAN, prices : SUBSET Prices, hours : 1..MaxHour]
  BY ScenarioAssumption
<1> QED
  BY <1>1

LEMMA RowType ==
  ASSUME NEW r \in Row
  PROVE  /\ r.status \in Live \cup {"none", "CLOSED", "LIQUIDATED"} /\ r.entry \in Nat
         /\ r.interest \in Nat /\ r.notified \in 0..MaxHour
BY DEF Row

LEMMA JobType ==
  ASSUME job \in [Jobs -> JobRec], NEW j \in Jobs
  PROVE  /\ job[j].pc \in PCs /\ job[j].todo \subseteq Positions /\ job[j].px \in Nat
         /\ job[j].snap \in [Positions -> Row] /\ job[j].cur \in Positions \cup {None}
         /\ job[j].cols \subseteq Columns /\ job[j] \in JobRec
<1>1. job[j] \in JobRec
  OBVIOUS
<1> QED
  BY <1>1 DEF JobRec

-----------------------------------------------------------------------------
(* What the building blocks of the actions do, field by field.             *)

JobsStay(j) == \A k \in Jobs \ {j} : job'[k] = job[k]

\* Job j's record becomes r.
LEMMA JobBecomes ==
  ASSUME job \in [Jobs -> JobRec], NEW j \in Jobs, NEW r \in JobRec,
         job' = [job EXCEPT ![j] = r]
  PROVE  job' \in [Jobs -> JobRec] /\ JobsStay(j) /\ job'[j] = r
BY DEF JobsStay

LEMMA LoadStep ==
  ASSUME job \in [Jobs -> JobRec], NEW j \in Jobs, NEW p \in Positions, NEW e \in Row,
         NEW pc \in PCs, Load(j, p, e, pc)
  PROVE  /\ job' \in [Jobs -> JobRec] /\ JobsStay(j)
         /\ job'[j].pc = pc /\ job'[j].cur = p /\ job'[j].todo = job[j].todo \ {p}
         /\ job'[j].snap = [job[j].snap EXCEPT ![p] = e]
         /\ job'[j].cols = Changed(e, p) /\ job'[j].px = job[j].px
<1> DEFINE new == [pc |-> pc, cur |-> p, todo |-> job[j].todo \ {p}, px |-> job[j].px,
                   snap |-> [job[j].snap EXCEPT ![p] = e], cols |-> Changed(e, p)]
<1>1. /\ job[j] \in JobRec /\ job[j].todo \subseteq Positions /\ job[j].px \in Nat
      /\ job[j].snap \in [Positions -> Row]
  BY JobType
<1>2. Changed(e, p) \subseteq Columns
  BY DEF Changed, Columns
<1>3. [job[j].snap EXCEPT ![p] = e] \in [Positions -> Row]
  BY <1>1
<1>4. new \in JobRec
  BY <1>1, <1>2, <1>3 DEF JobRec
<1>5. job'[j] = new /\ JobsStay(j) /\ job' = [job EXCEPT ![j] = job'[j]]
  <2>1. job'[j] = [job[j] EXCEPT !.pc = pc, !.cur = p, !.todo = @ \ {p},
                                 !.snap = [@ EXCEPT ![p] = e], !.cols = Changed(e, p)]
    BY DEF Load
  <2>2. job'[j] = new
    BY <1>1, <2>1 DEF JobRec
  <2> QED
    BY <2>2 DEF Load, JobsStay
<1> HIDE DEF new
<1>6. job' \in [Jobs -> JobRec]
  BY <1>4, <1>5
<1> QED
  BY <1>5, <1>6 DEF new

\* The job stays with its position, or turns to the next one.
LEMMA GotoStep ==
  ASSUME job \in [Jobs -> JobRec], NEW j \in Jobs, NEW pc \in PCs, Goto(j, pc)
  PROVE  /\ job' \in [Jobs -> JobRec] /\ JobsStay(j)
         /\ job'[j].pc = pc /\ job'[j].cur = job[j].cur /\ job'[j].todo = job[j].todo
         /\ job'[j].snap = job[j].snap /\ job'[j].cols = {} /\ job'[j].px = job[j].px
<1> DEFINE new == [pc |-> pc, todo |-> job[j].todo, snap |-> job[j].snap, px |-> job[j].px,
                   cur |-> job[j].cur, cols |-> {}]
<1>1. job[j] \in JobRec
  BY JobType
<1>2. new \in JobRec
  BY <1>1 DEF JobRec
<1>3. job'[j] = new
  <2>1. job'[j] = [job[j] EXCEPT !.pc = pc, !.cols = {}]
    BY DEF Goto
  <2> QED
    BY <1>1, <2>1 DEF JobRec
<1>4. job' = [job EXCEPT ![j] = new]
  <2>1. job' = [job EXCEPT ![j] = job'[j]]
    BY DEF Goto
  <2> QED
    BY <2>1, <1>3
<1> HIDE DEF new
<1>5. job' \in [Jobs -> JobRec] /\ JobsStay(j)
  BY <1>2, <1>4, JobBecomes
<1> QED
  BY <1>3, <1>5 DEF new

LEMMA NextPositionStep ==
  ASSUME job \in [Jobs -> JobRec], NEW j \in Jobs, NextPosition(j)
  PROVE  /\ job' \in [Jobs -> JobRec] /\ JobsStay(j)
         /\ job'[j].pc = "next" /\ job'[j].cur = None /\ job'[j].todo = job[j].todo
         /\ job'[j].snap = job[j].snap /\ job'[j].cols = {} /\ job'[j].px = job[j].px
<1> DEFINE new == [pc |-> "next", todo |-> job[j].todo, snap |-> job[j].snap, px |-> job[j].px,
                   cur |-> None, cols |-> {}]
<1>1. job[j] \in JobRec
  BY JobType
<1>2. new \in JobRec
  BY <1>1 DEF JobRec, PCs
<1>3. job'[j] = new
  <2>1. job'[j] = [job[j] EXCEPT !.pc = "next", !.cur = None, !.cols = {}]
    BY DEF NextPosition
  <2> QED
    BY <1>1, <2>1 DEF JobRec
<1>4. job' = [job EXCEPT ![j] = new]
  <2>1. job' = [job EXCEPT ![j] = job'[j]]
    BY DEF NextPosition
  <2> QED
    BY <2>1, <1>3
<1> HIDE DEF new
<1>5. job' \in [Jobs -> JobRec] /\ JobsStay(j)
  BY <1>2, <1>4, JobBecomes
<1> QED
  BY <1>3, <1>5 DEF new

LEMMA IdleType == Idle \in JobRec
<1>1. NoRow \in Row
  BY RowsAssumption DEF NoRow, Row
<1>2. [p \in Positions |-> NoRow] \in [Positions -> Row]
  BY <1>1
<1> HIDE DEF NoRow
<1> QED
  BY <1>2 DEF Idle, JobRec, PCs

LEMMA SnapshotStep ==
  ASSUME job \in [Jobs -> JobRec], rows \in [Positions -> Row], NEW j \in Jobs, NEW pc \in PCs,
         Snapshot(j, pc)
  PROVE  /\ job' \in [Jobs -> JobRec] /\ JobsStay(j)
         /\ job'[j].pc = pc /\ job'[j].cur = None /\ job'[j].todo = OpenPositions
         /\ job'[j].snap = rows /\ job'[j].cols = {} /\ job'[j].px = 0
<1> DEFINE new == [pc |-> pc, todo |-> OpenPositions, snap |-> rows, px |-> 0,
                   cur |-> None, cols |-> {}]
<1>1. job[j] = Idle /\ Idle \in JobRec
  BY IdleType DEF Snapshot
<1>2. new \in JobRec
  BY DEF JobRec, OpenPositions
<1>3. job'[j] = new
  <2>1. job'[j] = [Idle EXCEPT !.pc = pc, !.todo = OpenPositions, !.snap = rows]
    BY <1>1 DEF Snapshot
  <2> QED
    BY <2>1 DEF Idle
<1>4. job' = [job EXCEPT ![j] = new]
  <2>1. job' = [job EXCEPT ![j] = job'[j]]
    BY DEF Snapshot
  <2> QED
    BY <2>1, <1>3
<1> HIDE DEF new
<1>5. job' \in [Jobs -> JobRec] /\ JobsStay(j)
  BY <1>2, <1>4, JobBecomes
<1> QED
  BY <1>3, <1>5 DEF new

LEMMA SweepPricesStep ==
  ASSUME job \in [Jobs -> JobRec], price \in Nat, NEW j \in Jobs, SweepPrices(j)
  PROVE  /\ job' \in [Jobs -> JobRec] /\ JobsStay(j)
         /\ job'[j].pc = "next" /\ job'[j].cur = job[j].cur /\ job'[j].todo = job[j].todo
         /\ job'[j].snap = job[j].snap /\ job'[j].cols = job[j].cols /\ job'[j].px = price
<1> DEFINE new == [pc |-> "next", todo |-> job[j].todo, snap |-> job[j].snap, px |-> price,
                   cur |-> job[j].cur, cols |-> job[j].cols]
<1>1. job[j] \in JobRec
  BY JobType
<1>2. new \in JobRec
  BY <1>1 DEF JobRec, PCs
<1>3. job'[j] = new
  <2>1. job'[j] = [job[j] EXCEPT !.pc = "next", !.px = price]
    BY DEF SweepPrices
  <2> QED
    BY <1>1, <2>1 DEF JobRec
<1>4. job' = [job EXCEPT ![j] = new]
  <2>1. job' = [job EXCEPT ![j] = job'[j]]
    BY DEF SweepPrices
  <2> QED
    BY <2>1, <1>3
<1> HIDE DEF new
<1>5. job' \in [Jobs -> JobRec] /\ JobsStay(j)
  BY <1>2, <1>4, JobBecomes
<1> QED
  BY <1>3, <1>5 DEF new

LEMMA OverStep ==
  ASSUME job \in [Jobs -> JobRec], NEW j \in Jobs, job' = [job EXCEPT ![j] = Over(j)]
  PROVE  /\ job' \in [Jobs -> JobRec] /\ JobsStay(j)
         /\ job'[j].pc = IF j \in Sweeps THEN "idle" ELSE "done"
         /\ job'[j].cur = None /\ job'[j].todo = {}
<1> DEFINE new == [pc |-> "done", todo |-> {}, snap |-> [p \in Positions |-> NoRow],
                   px |-> 0, cur |-> None, cols |-> {}]
<1>1. [Idle EXCEPT !.pc = "done"] = new
  BY DEF Idle
<1>2. new \in JobRec
  <2>1. Idle.snap \in [Positions -> Row]
    BY IdleType DEF JobRec
  <2>2. Idle.snap = new.snap
    BY DEF Idle
  <2>3. new.snap \in [Positions -> Row]
    BY <2>1, <2>2
  <2> QED
    BY <2>3 DEF JobRec, PCs
<1>3. Over(j) \in JobRec
  BY <1>1, <1>2, IdleType DEF Over
<1>4. job' \in [Jobs -> JobRec] /\ JobsStay(j) /\ job'[j] = Over(j)
  BY <1>3, JobBecomes
<1>5. CASE j \in Sweeps
  BY <1>4, <1>5 DEF Over, Idle
<1>6. CASE j \notin Sweeps
  <2>1. job'[j] = new
    BY <1>4, <1>6, <1>1 DEF Over
  <2> QED
    BY <2>1, <1>4, <1>6
<1> QED
  BY <1>5, <1>6

LEMMA AccrueNextStep ==
  ASSUME job \in [Jobs -> JobRec], NEW j \in Jobs, NEW p \in Positions, AccrueNext(j, p)
  PROVE  /\ job' \in [Jobs -> JobRec] /\ JobsStay(j)
         /\ \/ job'[j].pc = job[j].pc /\ job'[j].cur = job[j].cur
            \/ job'[j].pc = "load" /\ job'[j].cur = p
         /\ job'[j].todo = job[j].todo \ {p} /\ job'[j].snap = job[j].snap
<1>1. job[j] \in JobRec
  BY JobType
<1>2. ASSUME NEW pc \in PCs, NEW cur \in Positions \cup {None},
             job' = [job EXCEPT ![j] = [pc |-> pc, todo |-> job[j].todo \ {p}, snap |-> job[j].snap,
                                        px |-> job[j].px, cur |-> cur, cols |-> job[j].cols]]
      PROVE  /\ job' \in [Jobs -> JobRec] /\ JobsStay(j) /\ job'[j].pc = pc /\ job'[j].cur = cur
             /\ job'[j].todo = job[j].todo \ {p} /\ job'[j].snap = job[j].snap
  <2> DEFINE new == [pc |-> pc, todo |-> job[j].todo \ {p}, snap |-> job[j].snap,
                     px |-> job[j].px, cur |-> cur, cols |-> job[j].cols]
  <2>1. new \in JobRec
    BY <1>1 DEF JobRec
  <2>2. job' = [job EXCEPT ![j] = new]
    BY <1>2
  <2> HIDE DEF new
  <2>3. job' \in [Jobs -> JobRec] /\ JobsStay(j) /\ job'[j] = new
    BY <2>1, <2>2, JobBecomes
  <2> QED
    BY <2>3 DEF new
<1>3. CASE job' = [job EXCEPT ![j].todo = @ \ {p}]
  <2> DEFINE new == [pc |-> job[j].pc, todo |-> job[j].todo \ {p}, snap |-> job[j].snap,
                     px |-> job[j].px, cur |-> job[j].cur, cols |-> job[j].cols]
  <2>1. job'[j] = [job[j] EXCEPT !.todo = @ \ {p}] /\ job' = [job EXCEPT ![j] = job'[j]]
    BY <1>3
  <2>2. job'[j] = new
    BY <1>1, <2>1 DEF JobRec
  <2>3. job[j].pc \in PCs /\ job[j].cur \in Positions \cup {None}
    BY JobType
  <2>4. job' = [job EXCEPT ![j] = new]
    BY <2>1, <2>2
  <2> QED
    BY <1>2, <2>3, <2>4, Zenon
<1>4. CASE job' = [job EXCEPT ![j].pc = "load", ![j].cur = p, ![j].todo = @ \ {p}]
  <2> DEFINE new == [pc |-> "load", todo |-> job[j].todo \ {p}, snap |-> job[j].snap,
                     px |-> job[j].px, cur |-> p, cols |-> job[j].cols]
  <2>1. /\ job'[j] = [job[j] EXCEPT !.pc = "load", !.cur = p, !.todo = @ \ {p}]
        /\ job' = [job EXCEPT ![j] = job'[j]]
    BY <1>4
  <2>2. job'[j] = new
    BY <1>1, <2>1 DEF JobRec
  <2>3. "load" \in PCs
    BY DEF PCs
  <2>4. job' = [job EXCEPT ![j] = new]
    BY <2>1, <2>2
  <2> QED
    BY <1>2, <2>3, <2>4, Zenon
<1> QED
  BY <1>3, <1>4 DEF AccrueNext

\* The rows other than p stay; p keeps its entry price, and exists afterwards
\* if it did.
RowsStay(p) == \A q \in Positions \ {p} : rows'[q] = rows[q]

LEMMA WriteStep ==
  ASSUME job \in [Jobs -> JobRec], rows \in [Positions -> Row], NEW j \in Jobs,
         NEW p \in Positions, p = job[j].cur, Write(j)
  PROVE  LET e == job[j].snap[p] cols == job[j].cols
         IN  /\ rows' \in [Positions -> Row] /\ RowsStay(p)
             /\ rows'[p].status = IF "status" \in cols THEN e.status ELSE rows[p].status
             /\ rows'[p].interest = IF "interest" \in cols THEN e.interest ELSE rows[p].interest
             /\ rows'[p].notified = IF "notified" \in cols THEN e.notified ELSE rows[p].notified
             /\ rows'[p].entry = rows[p].entry
<1> DEFINE e == job[j].snap[p]
           cols == job[j].cols
           row == rows[p]
           new == [status |-> IF "status" \in cols THEN e.status ELSE row.status,
                   entry |-> row.entry,
                   interest |-> IF "interest" \in cols THEN e.interest ELSE row.interest,
                   notified |-> IF "notified" \in cols THEN e.notified ELSE row.notified]
<1>1. row \in Row /\ e \in Row
  BY JobType
<1> HIDE DEF e, row, cols
<1>2. new \in Row
  BY <1>1 DEF Row
<1>3. /\ rows' = [rows EXCEPT ![p] = rows'[p]]
      /\ rows'[p] = [row EXCEPT !.status   = IF "status" \in cols THEN e.status ELSE @,
                               !.interest = IF "interest" \in cols THEN e.interest ELSE @,
                               !.notified = IF "notified" \in cols THEN e.notified ELSE @]
  <2>1. rows' = [rows EXCEPT ![p] = Updated(row, e, cols)]
    BY DEF Write, Entity, Cur, e, row, cols
  <2>2. rows'[p] = Updated(row, e, cols)
    BY <2>1
  <2> QED
    BY <2>1, <2>2 DEF Updated
<1>4. rows'[p] = new
  BY <1>1, <1>3 DEF Row
<1>5. rows' = [rows EXCEPT ![p] = new]
  BY <1>3, <1>4
<1> HIDE DEF new
<1>6. rows' \in [Positions -> Row] /\ RowsStay(p) /\ rows'[p] = new
  BY <1>2, <1>5 DEF RowsStay
<1> QED
  BY <1>6 DEF new, e, row, cols

SettleEffect(p, equity, status) ==
  LET u == Dto[p].user
  IN  /\ rows' \in [Positions -> Row] /\ RowsStay(p) /\ rows'[p].status = status
      /\ rows'[p].entry = rows[p].entry /\ rows'[p].interest = rows[p].interest
      /\ rows'[p].notified = rows[p].notified
      /\ account' \in [Users -> Account] /\ \A v \in Users \ {u} : account'[v] = account[v]
      /\ account'[u].balance = account[u].balance + equity - Dto[p].collateral
      /\ account'[u].locked = IF account[u].locked >= Dto[p].collateral
                                THEN account[u].locked - Dto[p].collateral ELSE 0
      /\ seen' \in [Positions -> Seen] /\ \A q \in Positions \ {p} : seen'[q] = seen[q]
      /\ seen'[p].settled = seen[p].settled + 1 /\ seen'[p].calls = seen[p].calls

LEMMA SettleStep ==
  ASSUME rows \in [Positions -> Row], account \in [Users -> Account], seen \in [Positions -> Seen],
         NEW p \in Positions, NEW equity \in Int, NEW status \in {"CLOSED", "LIQUIDATED"},
         Settle(p, equity, status)
  PROVE  SettleEffect(p, equity, status)
<1> DEFINE u == Dto[p].user
<1>0. u \in Users /\ Dto[p].collateral \in Nat
  BY DtoType
<1>1. /\ rows' \in [Positions -> Row] /\ RowsStay(p) /\ rows'[p].status = status
      /\ rows'[p].entry = rows[p].entry /\ rows'[p].interest = rows[p].interest
      /\ rows'[p].notified = rows[p].notified
  <2> DEFINE new == [status |-> status, entry |-> rows[p].entry,
                     interest |-> rows[p].interest, notified |-> rows[p].notified]
  <2>1. rows[p] \in Row
    OBVIOUS
  <2>2. new \in Row
    BY <2>1 DEF Row
  <2>3. rows'[p] = [rows[p] EXCEPT !.status = status] /\ rows' = [rows EXCEPT ![p] = rows'[p]]
    BY DEF Settle
  <2>4. rows'[p] = new
    BY <2>1, <2>3 DEF Row
  <2> HIDE DEF new
  <2>5. rows' \in [Positions -> Row] /\ RowsStay(p)
    BY <2>2, <2>3, <2>4 DEF RowsStay
  <2> QED
    BY <2>4, <2>5 DEF new
<1>2. /\ account' \in [Users -> Account] /\ \A v \in Users \ {u} : account'[v] = account[v]
      /\ account'[u].balance = account[u].balance + equity - Dto[p].collateral
      /\ account'[u].locked = IF account[u].locked >= Dto[p].collateral
                                THEN account[u].locked - Dto[p].collateral ELSE 0
  <2>1. account[u] \in Account
    BY <1>0
  <2>2. account[u].balance \in Int /\ account[u].locked \in Nat
    BY <2>1 DEF Account
  <2> DEFINE new == [balance |-> account[u].balance + equity - Dto[p].collateral,
                     locked |-> IF account[u].locked >= Dto[p].collateral
                                THEN account[u].locked - Dto[p].collateral ELSE 0]
  <2>3. new \in Account
    BY <1>0, <2>2 DEF Account
  <2>4. account' = [account EXCEPT ![u] = Settled(p, equity)]
    BY DEF Settle
  <2>5. Settled(p, equity) = new
    <3>1. Max({0, account[u].locked - Dto[p].collateral}) =
            IF account[u].locked >= Dto[p].collateral
              THEN account[u].locked - Dto[p].collateral ELSE 0
      BY <1>0, <2>2, MaxOfTwo
    <3> QED
      BY <3>1 DEF Settled
  <2> HIDE DEF new
  <2>6. /\ account' \in [Users -> Account] /\ \A v \in Users \ {u} : account'[v] = account[v]
        /\ account'[u] = new
    BY <1>0, <2>3, <2>4, <2>5
  <2> QED
    BY <2>6 DEF new
<1>3. /\ seen' \in [Positions -> Seen] /\ \A q \in Positions \ {p} : seen'[q] = seen[q]
      /\ seen'[p].settled = seen[p].settled + 1 /\ seen'[p].calls = seen[p].calls
  <2>1. seen[p] \in Seen
    OBVIOUS
  <2> DEFINE new == [settled |-> seen[p].settled + 1, calls |-> seen[p].calls]
  <2>2. new \in Seen
    BY <2>1 DEF Seen
  <2>3. seen'[p] = [seen[p] EXCEPT !.settled = @ + 1] /\ seen' = [seen EXCEPT ![p] = seen'[p]]
    BY DEF Settle
  <2>4. seen'[p] = new
    BY <2>1, <2>3 DEF Seen
  <2> HIDE DEF new
  <2>5. seen' \in [Positions -> Seen] /\ \A q \in Positions \ {p} : seen'[q] = seen[q]
    BY <2>2, <2>3, <2>4
  <2> QED
    BY <2>4, <2>5 DEF new
<1> QED
  BY <1>1, <1>2, <1>3 DEF SettleEffect

\* The transaction of openPosition creates a row that no job has read, and locks
\* collateral that is available.
LEMMA OpenCommitStep ==
  ASSUME Base, NEW p \in Positions, OpenCommit(p), rows' # rows \/ account' # account
  PROVE  LET u == Dto[p].user
         IN  /\ rows[p] = NoRow /\ rows' \in [Positions -> Row] /\ RowsStay(p)
             /\ rows'[p].status = "OPEN" /\ rows'[p].entry = request[p]
             /\ rows'[p].interest = 0 /\ rows'[p].notified = 0
             /\ request[p] \in Nat \ {0}
             /\ account' \in [Users -> Account] /\ \A v \in Users \ {u} : account'[v] = account[v]
             /\ account[u].balance - account[u].locked >= Dto[p].collateral
             /\ account'[u].balance = account[u].balance
             /\ account'[u].locked = account[u].locked + Dto[p].collateral
<1> DEFINE u == Dto[p].user
<1>0. u \in Users /\ Dto[p].collateral \in Nat
  BY DtoType
<1>1. /\ request[p] \notin {0, -1}
      /\ Available(u) >= Dto[p].collateral
      /\ account' = [account EXCEPT ![u].locked = @ + Dto[p].collateral]
      /\ rows' = [rows EXCEPT ![p] = [NoRow EXCEPT !.status = "OPEN", !.entry = request[p]]]
  BY DEF OpenCommit
<1>2. /\ rows \in [Positions -> Row] /\ account \in [Users -> Account]
      /\ request \in [Positions -> Nat \cup {-1}]
  BY Types DEF Base
<1>3. rows[p] = NoRow
  BY <1>1 DEF Base, RowsOpened
<1>4. request[p] \in Nat \ {0}
  <2>1. request[p] \in Nat \cup {-1}
    BY <1>2
  <2> QED
    BY <2>1, <1>1
<1> DEFINE row == [status |-> "OPEN", entry |-> request[p], interest |-> 0, notified |-> 0]
<1>5. rows' = [rows EXCEPT ![p] = rows'[p]] /\ rows'[p] = row
  <2>1. /\ rows' = [rows EXCEPT ![p] = rows'[p]]
        /\ rows'[p] = [NoRow EXCEPT !.status = "OPEN", !.entry = request[p]]
    BY <1>1, <1>2
  <2> QED
    BY <2>1 DEF NoRow
<1>6. row \in Row
  BY <1>4, RowsAssumption DEF Row, Live
<1>7. rows' \in [Positions -> Row] /\ RowsStay(p) /\ rows'[p] = row
  <2>1. rows' = [rows EXCEPT ![p] = row] /\ rows'[p] = row
    BY <1>5
  <2> HIDE DEF row
  <2> QED
    BY <1>2, <1>6, <2>1 DEF RowsStay
<1>8. /\ account' \in [Users -> Account] /\ \A v \in Users \ {u} : account'[v] = account[v]
      /\ account'[u].balance = account[u].balance
      /\ account'[u].locked = account[u].locked + Dto[p].collateral
  <2>1. account[u] \in Account
    BY <1>0, <1>2
  <2> DEFINE new == [balance |-> account[u].balance, locked |-> account[u].locked + Dto[p].collateral]
  <2>2. new \in Account
    BY <1>0, <2>1 DEF Account
  <2>3. /\ account'[u] = [account[u] EXCEPT !.locked = @ + Dto[p].collateral]
        /\ account' = [account EXCEPT ![u] = account'[u]]
    BY <1>0, <1>1, <1>2
  <2>4. account'[u] = new
    BY <2>1, <2>3 DEF Account
  <2> HIDE DEF new
  <2>5. account' \in [Users -> Account] /\ \A v \in Users \ {u} : account'[v] = account[v]
    BY <1>0, <1>2, <2>2, <2>3, <2>4
  <2> QED
    BY <2>4, <2>5 DEF new
<1>9. account[u].balance - account[u].locked >= Dto[p].collateral
  BY <1>1 DEF Available
<1>10. /\ rows'[p].status = "OPEN" /\ rows'[p].entry = request[p]
       /\ rows'[p].interest = 0 /\ rows'[p].notified = 0
  BY <1>7
<1> QED
  BY <1>3, <1>4, <1>7, <1>8, <1>9, <1>10, Zenon

-----------------------------------------------------------------------------
(* The type invariant is inductive.                                        *)

\* No row appears, and none disappears or changes its entry price.
Kept ==
  \A p \in Positions :
    IF rows[p].status = "none" THEN rows'[p] = rows[p]
    ELSE rows'[p].status # "none" /\ rows'[p].entry = rows[p].entry

LEMMA TypesAgain ==
  ASSUME world' \in Scenarios, price' \in Prices, enabled' \in BOOLEAN, hour' \in 1..MaxHour,
         request' \in [Positions -> Nat \cup {-1}], rows' \in [Positions -> Row],
         account' \in [Users -> Account], charged' \in [Positions -> [Dates -> 0..2]],
         job' \in [Jobs -> JobRec], seen' \in [Positions -> Seen]
  PROVE  TypeOK'
BY Zenon DEF TypeOK, JobRec, PCs, Columns, Account, Seen

LEMMA JobKept ==
  ASSUME job \in [Jobs -> JobRec], NEW k \in Jobs, JobOK(k), job'[k] = job[k], world' = world,
         Kept
  PROVE  JobOK(k)'
<1>1. Pending(k)' = Pending(k) /\ Pending(k) \subseteq Positions
  BY JobType DEF Pending
<1>2. \A p \in Pending(k) : /\ job'[k].snap[p].status \in Live
                            /\ rows'[p].status # "none"
                            /\ job'[k].snap[p].entry = rows'[p].entry
  BY <1>1 DEF JobOK, Kept
<1> QED
  BY <1>1, <1>2 DEF JobOK

LEMMA RowsOpenedKept ==
  ASSUME RowsOpened, Kept, request' = request
  PROVE  RowsOpened'
BY DEF RowsOpened, Kept, NoRow

\* A step that changes one job and no row's existence.
LEMMA BaseKept ==
  ASSUME Base, NEW j \in Jobs, JobsStay(j), JobOK(j)', job' \in [Jobs -> JobRec],
         UNCHANGED <<world, price, enabled, hour, request>>,
         rows' \in [Positions -> Row], Kept,
         account' \in [Users -> Account], charged' \in [Positions -> [Dates -> 0..2]],
         seen' \in [Positions -> Seen]
  PROVE  Base'
<1>1. TypeOK'
  <2>1. /\ world' \in Scenarios /\ price' \in Prices /\ hour' \in 1..MaxHour
        /\ request' \in [Positions -> Nat \cup {-1}]
    BY Types DEF Base
  <2>2. enabled' \in BOOLEAN
    BY DEF Base, TypeOK
  <2> QED
    BY <2>1, <2>2, TypesAgain
<1>2. RowsOpened'
  BY RowsOpenedKept DEF Base
<1>3. ASSUME NEW k \in Jobs PROVE JobOK(k)'
  <2>1. CASE k = j
    BY <2>1
  <2>2. CASE k # j
    BY <2>2, JobKept, Types DEF Base, JobsStay
  <2> QED
    BY <2>1, <2>2
<1> QED
  BY <1>1, <1>2, <1>3 DEF Base

\* A step that changes one job and nothing else.
LEMMA BaseJobOnly ==
  ASSUME Base, NEW j \in Jobs, JobsStay(j), JobOK(j)', job' \in [Jobs -> JobRec],
         UNCHANGED <<world, price, enabled, hour, request, rows, account, seen>>,
         charged' \in [Positions -> [Dates -> 0..2]]
  PROVE  Base'
<1>1. rows' \in [Positions -> Row] /\ account' \in [Users -> Account] /\ seen' \in [Positions -> Seen]
  BY Types DEF Base
<1>2. Kept
  BY DEF Kept
<1> QED
  BY <1>1, <1>2, BaseKept

\* A job's entities become fewer, or change in what the job has decided.
LEMMA JobMoved ==
  ASSUME Base, NEW j \in Jobs, world' = world, Kept,
         j \in world.jobs \/ job'[j].pc = "idle",
         job'[j].pc \in AtPosition => job'[j].cur \in Positions,
         Pending(j)' \subseteq Pending(j),
         \A p \in Pending(j)' : /\ job'[j].snap[p].status \in Live
                                /\ job'[j].snap[p].entry = job[j].snap[p].entry,
         job'[j].pc = "notify" => job'[j].snap[job'[j].cur].notified # 0,
         job'[j].pc = "idle" => job'[j].todo = {} /\ job'[j].cur = None,
         job'[j].pc \in {"prices", "next"} => job'[j].cur = None,
         job'[j].cur \notin job'[j].todo,
         j \in Sweeps => job'[j].pc \in SweepPCs,
         j \in Accruals => job'[j].pc \in AccrualPCs
  PROVE  JobOK(j)'
<1>1. JobOK(j) /\ Pending(j) \subseteq Positions
  BY JobType, Types DEF Base, Pending
<1>2. \A p \in Pending(j)' : rows'[p].status # "none" /\ job'[j].snap[p].entry = rows'[p].entry
  BY <1>1 DEF JobOK, Kept
<1> QED
  BY <1>2 DEF JobOK

LEMMA InJobs ==
  ASSUME NEW j \in Sweeps \cup Accruals
  PROVE  j \in Jobs
BY DEF Jobs

\* Where job j is, in a word: what JobOK says of it.
LEMMA JobKnown ==
  ASSUME Base, NEW j \in Jobs
  PROVE  /\ JobOK(j) /\ job[j] \in JobRec /\ job[j].snap \in [Positions -> Row]
         /\ job[j].pc # "idle" => j \in world.jobs
         /\ Pending(j) \subseteq Positions
         /\ job[j].pc \in AtPosition =>
              /\ job[j].cur \in Positions /\ job[j].cur \in Pending(j)
              /\ job[j].snap[job[j].cur] \in Row
              /\ job[j].snap[job[j].cur].status \in Live
<1>1. JobOK(j) /\ job[j] \in JobRec /\ job[j].snap \in [Positions -> Row] /\ Pending(j) \subseteq Positions
  BY JobType, Types DEF Base, Pending
<1>2. job[j].pc # "idle" => j \in world.jobs
  BY <1>1 DEF JobOK
<1>3. ASSUME job[j].pc \in AtPosition
      PROVE  /\ job[j].cur \in Positions /\ job[j].cur \in Pending(j)
             /\ job[j].snap[job[j].cur] \in Row /\ job[j].snap[job[j].cur].status \in Live
  <2>1. job[j].cur \in Positions
    BY <1>1, <1>3 DEF JobOK
  <2>2. job[j].cur \in Pending(j)
    BY <2>1 DEF Pending
  <2> QED
    BY <1>1, <2>1, <2>2 DEF JobOK
<1> QED
  BY <1>1, <1>2, <1>3

LEMMA SnapshotBase ==
  ASSUME Base, NEW j \in Jobs, NEW pc \in {"prices", "next"}, Snapshot(j, pc),
         j \in Accruals => pc = "next"
  PROVE  Base'
<1>1. rows \in [Positions -> Row] /\ job \in [Jobs -> JobRec]
  BY Types DEF Base
<1>2. pc \in PCs
  BY DEF PCs
<1>3. /\ job' \in [Jobs -> JobRec] /\ JobsStay(j)
      /\ job'[j].pc = pc /\ job'[j].cur = None /\ job'[j].todo = OpenPositions
      /\ job'[j].snap = rows
  BY <1>1, <1>2, SnapshotStep
<1>4. j \in world.jobs /\ UNCHANGED <<world, price, enabled, hour, request, rows, account, charged, seen>>
  BY DEF Snapshot
<1>5. Pending(j)' \subseteq OpenPositions
  BY <1>3, JobsAssumption DEF Pending
<1>6. \A p \in OpenPositions : rows[p].status \in Live /\ rows[p].status # "none"
  BY DEF OpenPositions, IsLive, Live
<1>7. JobOK(j)'
  <2>1. job'[j].pc \notin AtPosition /\ job'[j].pc \notin {"notify", "idle"}
    BY <1>3 DEF AtPosition
  <2>2. (j \in Sweeps => job'[j].pc \in SweepPCs) /\ (j \in Accruals => job'[j].pc \in AccrualPCs)
    BY <1>3 DEF SweepPCs, AccrualPCs
  <2>3. job'[j].cur \notin job'[j].todo
    BY <1>3, JobsAssumption DEF OpenPositions
  <2> QED
    BY <1>3, <1>4, <1>5, <1>6, <2>1, <2>2, <2>3 DEF JobOK
<1> QED
  BY <1>3, <1>4, <1>7, BaseJobOnly, Types DEF Base

\* EndJob, Fault and Crash.
LEMMA EndingBase ==
  ASSUME Base, NEW j \in Jobs, EndJob(j) \/ Fault(j) \/ Crash(j)
  PROVE  Base'
<1>1. /\ UNCHANGED <<world, price, enabled, hour, request, rows, account, charged, seen>>
      /\ job \in [Jobs -> JobRec] /\ charged \in [Positions -> [Dates -> 0..2]]
  BY Types DEF EndJob, Fault, Crash, Base
<1>2. Kept
  BY <1>1 DEF Kept
<1>3. CASE EndJob(j) \/ Crash(j)
  <2>1. /\ job' \in [Jobs -> JobRec] /\ JobsStay(j)
        /\ job'[j].pc = IF j \in Sweeps THEN "idle" ELSE "done"
        /\ job'[j].cur = None /\ job'[j].todo = {}
    BY <1>1, <1>3, OverStep DEF EndJob, Crash
  <2>2. Pending(j)' = {}
    BY <2>1, JobsAssumption DEF Pending
  <2>3. job[j].pc # "idle"
    BY <1>3 DEF EndJob, Crash
  <2>4. JobOK(j)'
    BY <1>1, <1>2, <2>1, <2>2, <2>3, JobKnown, JobMoved, JobsAssumption
       DEF AtPosition, SweepPCs, AccrualPCs
  <2> QED
    BY <1>1, <2>1, <2>4, BaseJobOnly
<1>4. CASE Fault(j)
  <2>1. /\ job' \in [Jobs -> JobRec] /\ JobsStay(j)
        /\ job'[j].pc = "next" /\ job'[j].cur = None /\ job'[j].todo = job[j].todo
        /\ job'[j].snap = job[j].snap
    BY <1>1, <1>4, NextPositionStep DEF Fault
  <2>2. Pending(j)' \subseteq Pending(j)
    BY <2>1, JobsAssumption DEF Pending
  <2>3. JobOK(j) /\ job[j].pc # "idle"
    BY <1>4, JobKnown DEF Fault, Cur, JobOK
  <2>4. \A p \in Pending(j)' : /\ job'[j].snap[p].status \in Live
                               /\ job'[j].snap[p].entry = job[j].snap[p].entry
    BY <2>1, <2>2, <2>3 DEF JobOK
  <2>5. job'[j].cur \notin job'[j].todo
    BY <1>1, <2>1, JobType, JobsAssumption
  <2>6. JobOK(j)'
    BY <1>1, <1>2, <2>1, <2>2, <2>3, <2>4, <2>5, JobKnown, JobMoved
       DEF AtPosition, SweepPCs, AccrualPCs
  <2> QED
    BY <1>1, <2>1, <2>6, BaseJobOnly
<1> QED
  BY <1>3, <1>4

\* A job loads the entity of a position that it has read, with a new decision.
LEMMA LoadBase ==
  ASSUME Base, NEW j \in Jobs, job[j].pc # "idle", NEW p \in Positions, p \in Pending(j),
         NEW e \in Row, e.status \in Live, e.entry = job[j].snap[p].entry,
         NEW pc \in {"save", "notify", "called", "accrue"}, Load(j, p, e, pc),
         pc = "notify" => e.notified # 0,
         j \in Sweeps => pc # "accrue", j \in Accruals => pc = "accrue",
         UNCHANGED <<world, price, enabled, hour, request, rows, account, charged, seen>>
  PROVE  Base'
<1>1. /\ job' \in [Jobs -> JobRec] /\ JobsStay(j)
      /\ job'[j].pc = pc /\ job'[j].cur = p /\ job'[j].todo = job[j].todo \ {p}
      /\ job'[j].snap = [job[j].snap EXCEPT ![p] = e]
  <2>1. pc \in PCs
    BY DEF PCs
  <2> QED
    BY <2>1, LoadStep, Types, SMTT(30) DEF Base
<1>2. /\ JobOK(j) /\ job[j].snap \in [Positions -> Row] /\ j \in world.jobs
      /\ Pending(j) \subseteq Positions
  BY JobKnown
<1>3. Pending(j)' \subseteq Pending(j)
  BY <1>1, <1>2 DEF Pending
<1>4. \A q \in Pending(j)' : /\ job'[j].snap[q].status \in Live
                             /\ job'[j].snap[q].entry = job[j].snap[q].entry
  BY <1>1, <1>2, <1>3 DEF JobOK
<1>5. Kept
  BY DEF Kept
<1>6. JobOK(j)'
  <2>1. job'[j].snap[p] = e
    BY <1>1, <1>2
  <2> QED
    BY <1>1, <1>2, <1>3, <1>4, <1>5, <2>1, JobMoved DEF SweepPCs, AccrualPCs, AtPosition
<1> QED
  BY <1>1, <1>6, BaseJobOnly, Types DEF Base

\* A job keeps its entities, or drops the one it was at.
LEMMA MovesOn ==
  ASSUME Base, NEW j \in Jobs, job[j].pc \in AtPosition, world' = world, Kept,
         \/ NextPosition(j)
         \/ \E pc \in {"liquidate", "call", "recover", "cover"} : j \in Sweeps /\ Goto(j, pc)
         \/ j \in Accruals /\ Goto(j, "record")
  PROVE  JobOK(j)' /\ JobsStay(j) /\ job' \in [Jobs -> JobRec]
<1>1. /\ JobOK(j) /\ job[j].snap \in [Positions -> Row] /\ j \in world.jobs
      /\ Pending(j) \subseteq Positions /\ job \in [Jobs -> JobRec]
      /\ job[j].cur \in Positions
  BY JobKnown, Types DEF Base, AtPosition
<1>2. CASE NextPosition(j)
  <2>1. /\ job' \in [Jobs -> JobRec] /\ JobsStay(j)
        /\ job'[j].pc = "next" /\ job'[j].cur = None /\ job'[j].todo = job[j].todo
        /\ job'[j].snap = job[j].snap
    BY <1>1, <1>2, NextPositionStep
  <2>2. Pending(j)' \subseteq Pending(j)
    BY <2>1, JobsAssumption DEF Pending
  <2>3. \A p \in Pending(j)' : /\ job'[j].snap[p].status \in Live
                               /\ job'[j].snap[p].entry = job[j].snap[p].entry
    BY <1>1, <2>1, <2>2 DEF JobOK
  <2>4. job'[j].cur \notin job'[j].todo
    BY <1>1, <2>1, JobType, JobsAssumption
  <2> QED
    BY <1>1, <2>1, <2>2, <2>3, <2>4, JobMoved DEF AtPosition, SweepPCs, AccrualPCs
<1>3. ASSUME NEW pc \in {"liquidate", "call", "recover", "cover", "record"}, Goto(j, pc),
             IF pc = "record" THEN j \in Accruals ELSE j \in Sweeps
      PROVE  JobOK(j)' /\ JobsStay(j) /\ job' \in [Jobs -> JobRec]
  <2>1. pc \in PCs
    BY DEF PCs
  <2>2. /\ job' \in [Jobs -> JobRec] /\ JobsStay(j)
        /\ job'[j].pc = pc /\ job'[j].cur = job[j].cur /\ job'[j].todo = job[j].todo
        /\ job'[j].snap = job[j].snap
    BY <1>1, <1>3, <2>1, GotoStep
  <2>3. Pending(j)' = Pending(j)
    BY <2>2 DEF Pending
  <2>4. \A p \in Pending(j)' : /\ job'[j].snap[p].status \in Live
                               /\ job'[j].snap[p].entry = job[j].snap[p].entry
    BY <1>1, <2>2, <2>3 DEF JobOK
  <2>5. (j \in Sweeps => job'[j].pc \in SweepPCs) /\ (j \in Accruals => job'[j].pc \in AccrualPCs)
    BY <1>3, <2>2, JobsAssumption DEF SweepPCs, AccrualPCs
  <2>6. job'[j].cur \notin job'[j].todo
    BY <1>1, <2>2 DEF JobOK
  <2> QED
    BY <1>1, <2>2, <2>3, <2>4, <2>5, <2>6, JobMoved
<1> QED
  BY <1>2, <1>3

\* The UPDATE of a save: what it writes was read from an open row.
LEMMA SaveEffect ==
  ASSUME Base, NEW j \in Jobs, job[j].pc \in AtPosition, NEW p \in Positions, p = job[j].cur,
         Write(j)
  PROVE  /\ rows' \in [Positions -> Row] /\ RowsStay(p) /\ Kept
         /\ rows'[p].status \in {rows[p].status} \cup Live
         /\ rows[p].status # "none" /\ job[j].snap[p].status \in Live
<1>1. /\ JobOK(j) /\ p \in Pending(j) /\ job[j].snap[p].status \in Live
      /\ job \in [Jobs -> JobRec] /\ rows \in [Positions -> Row]
  BY JobKnown, Types DEF Base
<1>2. /\ rows' \in [Positions -> Row] /\ RowsStay(p) /\ rows'[p].entry = rows[p].entry
      /\ rows'[p].status \in {rows[p].status, job[j].snap[p].status}
  BY <1>1, WriteStep
<1>3. rows[p].status # "none"
  BY <1>1 DEF JobOK
<1>4. rows'[p].status # "none"
  BY <1>1, <1>2, <1>3 DEF Live
<1> QED
  BY <1>1, <1>2, <1>3, <1>4 DEF Kept, RowsStay

LEMMA Incremented ==
  ASSUME NEW S, NEW f \in [S -> Nat], NEW x \in S
  PROVE  [f EXCEPT ![x] = @ + 1] \in [S -> Nat]
OBVIOUS

LEMMA PayoutValue ==
  ASSUME NEW equity \in Int
  PROVE  Payout(equity) = IF equity >= 0 THEN equity ELSE 0
<1>1. Max({0, equity}) = IF 0 >= equity THEN 0 ELSE equity
  BY MaxOfTwo
<1> QED
  BY <1>1 DEF Payout

LEMMA SaveBase ==
  ASSUME Base, NEW j \in Jobs, SavePnl(j) \/ SaveMarginCall(j) \/ AccrueSave(j),
         SavePnl(j) \/ SaveMarginCall(j) => j \in Sweeps, AccrueSave(j) => j \in Accruals
  PROVE  Base'
<1>1. /\ job[j].pc \in AtPosition /\ Write(j)
      /\ UNCHANGED <<world, price, enabled, hour, request, account, charged>>
  BY DEF SavePnl, SaveMarginCall, AccrueSave, AtPosition
<1>2. PICK p \in Positions : p = job[j].cur
  BY <1>1, JobKnown
<1>3. rows' \in [Positions -> Row] /\ Kept
  BY <1>1, <1>2, SaveEffect
<1>4. \/ NextPosition(j)
      \/ \E pc \in {"liquidate", "call", "recover", "cover"} : j \in Sweeps /\ Goto(j, pc)
      \/ j \in Accruals /\ Goto(j, "record")
  <2>1. CASE SavePnl(j)
    BY <2>1 DEF SavePnl
  <2>2. CASE SaveMarginCall(j)
    BY <2>2 DEF SaveMarginCall
  <2>3. CASE AccrueSave(j)
    BY <2>3 DEF AccrueSave
  <2> QED
    BY <2>1, <2>2, <2>3
<1>5. JobOK(j)' /\ JobsStay(j) /\ job' \in [Jobs -> JobRec]
  BY <1>1, <1>3, <1>4, MovesOn
<1>6. seen' \in [Positions -> Seen]
  <2>1. seen \in [Positions -> Seen]
    BY Types DEF Base
  <2>2. CASE seen' = seen
    BY <2>1, <2>2
  <2>3. CASE seen' # seen
    <3>1. /\ job[j].pc = "notify"
          /\ seen' = [seen EXCEPT ![p].calls[job[j].snap[p].notified] = @ + 1]
      BY <1>2, <2>3 DEF SavePnl, SaveMarginCall, AccrueSave, Cur, Entity
    <3>2. PICK h \in 1..MaxHour : h = job[j].snap[p].notified
      <4>1. JobOK(j) /\ job[j].snap[p] \in Row
        BY <1>2, JobKnown
      <4>2. job[j].snap[p].notified \in 0..MaxHour /\ job[j].snap[p].notified # 0
        BY <1>2, <3>1, <4>1 DEF JobOK, Row
      <4> QED
        BY <4>2
    <3> DEFINE new == [settled |-> seen[p].settled, calls |-> [seen[p].calls EXCEPT ![h] = @ + 1]]
    <3>3. seen[p] \in Seen
      BY <2>1
    <3>4. seen[p].calls \in [1..MaxHour -> Nat] /\ seen[p].settled \in Nat
      BY <3>3 DEF Seen
    <3>5. [seen[p].calls EXCEPT ![h] = @ + 1] \in [1..MaxHour -> Nat]
      BY <3>4, Incremented
    <3>6. new \in Seen
      BY <3>4, <3>5 DEF Seen
    <3>7. /\ seen' = [seen EXCEPT ![p] = seen'[p]]
          /\ seen'[p] = [seen[p] EXCEPT !.calls = [seen[p].calls EXCEPT ![h] = @ + 1]]
      BY <2>1, <3>1, <3>2
    <3>8. seen'[p] = new
      BY <3>3, <3>7 DEF Seen
    <3> HIDE DEF new
    <3> QED
      BY <2>1, <3>6, <3>7, <3>8, SMTT(30)
  <2> QED
    BY <2>2, <2>3
<1>7. account' \in [Users -> Account] /\ charged' \in [Positions -> [Dates -> 0..2]]
  BY <1>1, Types DEF Base
<1> QED
  BY <1>1, <1>3, <1>5, <1>6, <1>7, BaseKept

LEMMA LiquidateBase ==
  ASSUME Base, NEW s \in Sweeps, Liquidate(s)
  PROVE  Base'
<1>1. s \in Jobs /\ job[s].pc = "liquidate" /\ job[s].pc \in AtPosition
  BY InJobs DEF Liquidate, AtPosition
<1>2. PICK p \in Positions : p = job[s].cur
  BY <1>1, JobKnown
<1>3. PICK px \in Nat : px = job[s].px
  BY <1>1, JobType, Types DEF Base
<1>4. /\ rows \in [Positions -> Row] /\ account \in [Users -> Account]
      /\ seen \in [Positions -> Seen] /\ charged \in [Positions -> [Dates -> 0..2]]
  BY Types DEF Base
<1>5. rows[p] \in Row /\ rows[p].status # "none" /\ rows[p].entry \in Nat \ {0} /\ rows[p].interest \in Nat
  <2>1. rows[p].status # "none"
    BY <1>1, <1>2, JobKnown DEF JobOK
  <2>2. rows[p] \in Row
    BY <1>4
  <2> QED
    BY <2>1, <2>2, RowType DEF Base, RowsOpened
<1>6. UNCHANGED <<world, price, enabled, hour, request, charged>>
  BY DEF Liquidate
<1>7. CASE IsLive(p) /\ Settle(p, Payout(Equity(p, rows[p], px)), "LIQUIDATED")
           /\ (Goto(s, "cover") \/ NextPosition(s))
  <2>1. Payout(Equity(p, rows[p], px)) \in Int
    BY <1>5, EquityType, PayoutValue
  <2>2. SettleEffect(p, Payout(Equity(p, rows[p], px)), "LIQUIDATED")
    BY <1>4, <1>7, <2>1, SettleStep
  <2>3. rows' \in [Positions -> Row] /\ account' \in [Users -> Account] /\ seen' \in [Positions -> Seen]
    BY <2>2 DEF SettleEffect
  <2>4. Kept
    BY <1>5, <2>2 DEF SettleEffect, Kept, RowsStay
  <2>5. JobOK(s)' /\ JobsStay(s) /\ job' \in [Jobs -> JobRec]
    BY <1>1, <1>6, <1>7, <2>4, MovesOn
  <2> QED
    BY <1>1, <1>4, <1>6, <2>3, <2>4, <2>5, BaseKept
<1>8. CASE NextPosition(s) /\ UNCHANGED <<rows, account, seen>>
  <2>1. Kept
    BY <1>8 DEF Kept
  <2>2. JobOK(s)' /\ JobsStay(s) /\ job' \in [Jobs -> JobRec]
    BY <1>1, <1>6, <1>8, <2>1, MovesOn
  <2> QED
    BY <1>1, <1>4, <1>6, <1>8, <2>2, BaseJobOnly
<1> QED
  BY <1>2, <1>3, <1>7, <1>8 DEF Liquidate, Cur

LEMMA NewStatus ==
  ASSUME NEW e \in Row, NEW st \in Live, NEW f, f = [e EXCEPT !.status = st]
  PROVE  /\ f \in Row /\ f.status = st /\ f.entry = e.entry /\ f.interest = e.interest
         /\ f.notified = e.notified
<1>1. f = [status |-> st, entry |-> e.entry, interest |-> e.interest, notified |-> e.notified]
  BY DEF Row
<1> QED
  BY <1>1 DEF Row

\* What triggerMarginCall and a recovery make of the entity that the sweep is at.
Decision(s, p, e, pc) ==
  /\ p = job[s].cur /\ Load(s, p, e, pc) /\ e.status \in Live
  /\ e.entry = job[s].snap[p].entry /\ e.interest = job[s].snap[p].interest
  /\ IF pc = "notify" THEN e.notified = hour /\ job[s].snap[p].notified # hour
                      ELSE e.notified = job[s].snap[p].notified

LEMMA CallStep ==
  ASSUME Base, NEW s \in Sweeps, MarginCall(s) \/ Recover(s)
  PROVE  \E p \in Positions, e \in Row, pc \in {"called", "notify"} : Decision(s, p, e, pc)
<1>0. s \in Jobs /\ job[s].pc \in AtPosition /\ hour \in 1..MaxHour
  BY InJobs, Types DEF Base, MarginCall, Recover, AtPosition
<1>1. PICK p \in Positions : p = job[s].cur
  BY <1>0, JobKnown
<1>2. PICK e \in Row : e = job[s].snap[p]
  BY <1>0, <1>1, JobKnown
<1>3. Cur(s) = p /\ Entity(s) = e
  BY <1>1, <1>2 DEF Cur, Entity
<1>4. "MARGIN_CALL" \in Live /\ "OPEN" \in Live /\ hour \in 0..MaxHour
  BY <1>0 DEF Live
<1>5. CASE MarginCall(s) /\ ~Recently(e)
  <2>1. PICK f : f = [e EXCEPT !.status = "MARGIN_CALL", !.notified = hour]
    OBVIOUS
  <2>2. Load(s, p, f, "notify") /\ e.notified # hour
    BY <1>3, <1>5, <2>1 DEF MarginCall, Recently
  <2>3. /\ f \in Row /\ f.status = "MARGIN_CALL" /\ f.entry = e.entry /\ f.interest = e.interest
        /\ f.notified = hour
    <3>1. f = [status |-> "MARGIN_CALL", entry |-> e.entry, interest |-> e.interest, notified |-> hour]
      BY <1>2, <2>1 DEF Row
    <3> QED
      BY <1>2, <1>4, <3>1 DEF Row
  <2>4. Decision(s, p, f, "notify")
    BY <1>1, <1>2, <1>4, <2>2, <2>3 DEF Decision
  <2> QED
    BY <2>3, <2>4
<1>6. CASE (MarginCall(s) /\ Recently(e)) \/ Recover(s)
  <2>0. PICK st \in Live : Load(s, p, [e EXCEPT !.status = st], "called")
    BY <1>3, <1>4, <1>6 DEF MarginCall, Recover
  <2>1. PICK f : f = [e EXCEPT !.status = st] /\ Load(s, p, f, "called")
    BY <2>0, Zenon
  <2>2. /\ f \in Row /\ f.status \in Live /\ f.entry = e.entry /\ f.interest = e.interest
        /\ f.notified = e.notified
    BY <1>2, <2>1, NewStatus
  <2>3. Decision(s, p, f, "called")
    BY <1>1, <1>2, <2>1, <2>2 DEF Decision
  <2> QED
    BY <2>2, <2>3
<1> QED
  BY <1>5, <1>6

LEMMA SweepBase ==
  ASSUME Base, NEW s \in Sweeps, Sweep(s)
  PROVE  Base'
<1>0. /\ s \in Jobs /\ s \notin Accruals /\ job \in [Jobs -> JobRec] /\ rows \in [Positions -> Row]
      /\ charged \in [Positions -> [Dates -> 0..2]] /\ hour \in 1..MaxHour /\ price \in Nat
  BY InJobs, JobsAssumption, Types DEF Base
<1>k. /\ JobOK(s) /\ job[s].snap \in [Positions -> Row] /\ Pending(s) \subseteq Positions
  BY <1>0, JobKnown
<1>1. CASE SweepStart(s)
  BY <1>0, <1>1, SnapshotBase DEF SweepStart
<1>2. CASE SweepPrices(s)
  <2>1. /\ job' \in [Jobs -> JobRec] /\ JobsStay(s)
        /\ job'[s].pc = "next" /\ job'[s].cur = job[s].cur /\ job'[s].todo = job[s].todo
        /\ job'[s].snap = job[s].snap
    BY <1>0, <1>2, SweepPricesStep
  <2>2. /\ job[s].pc = "prices" /\ job[s].cur = None /\ s \in world.jobs
        /\ UNCHANGED <<world, price, enabled, hour, request, rows, account, charged, seen>>
    BY <1>2, <1>k DEF SweepPrices, JobOK
  <2>3. Pending(s)' = Pending(s) /\ Kept
    BY <2>1, <2>2 DEF Pending, Kept
  <2>4. \A p \in Pending(s)' : /\ job'[s].snap[p].status \in Live
                               /\ job'[s].snap[p].entry = job[s].snap[p].entry
    BY <1>k, <2>1, <2>3 DEF JobOK
  <2>5. job'[s].cur \notin job'[s].todo
    BY <1>k, <2>1 DEF JobOK
  <2>6. JobOK(s)'
    BY <1>0, <2>1, <2>2, <2>3, <2>4, <2>5, JobMoved DEF AtPosition, SweepPCs
  <2> QED
    BY <1>0, <2>1, <2>2, <2>6, BaseJobOnly
<1>3. ASSUME NEW p \in Positions, Evaluate(s, p) PROVE Base'
  <2>1. p \in Pending(s) /\ job[s].snap[p] \in Row /\ job[s].snap[p].status \in Live
    BY <1>3, <1>k DEF Evaluate, Pending, JobOK
  <2> QED
    BY <1>0, <1>3, <2>1, LoadBase DEF Evaluate
<1>4. CASE SavePnl(s) \/ SaveMarginCall(s)
  <2>1. ~AccrueSave(s)
    BY <1>4 DEF AccrueSave, SavePnl, SaveMarginCall
  <2> QED
    BY <1>0, <1>4, <2>1, SaveBase
<1>5. CASE Liquidate(s)
  BY <1>5, LiquidateBase
<1>6. CASE Cover(s)
  <2>1. /\ job[s].pc \in AtPosition /\ Kept
        /\ UNCHANGED <<world, price, enabled, hour, request, rows, account, charged, seen>>
    BY <1>6 DEF Cover, AtPosition, Kept
  <2>2. JobOK(s)' /\ JobsStay(s) /\ job' \in [Jobs -> JobRec]
    BY <1>0, <1>6, <2>1, MovesOn DEF Cover
  <2> QED
    BY <1>0, <2>1, <2>2, BaseJobOnly
<1>7. CASE MarginCall(s) \/ Recover(s)
  <2>1. PICK p \in Positions, e \in Row, pc \in {"called", "notify"} : Decision(s, p, e, pc)
    BY <1>7, CallStep
  <2>2. p \in Pending(s) /\ (pc = "notify" => e.notified # 0)
    BY <1>0, <2>1 DEF Pending, Decision
  <2>3. /\ job[s].pc # "idle"
        /\ UNCHANGED <<world, price, enabled, hour, request, rows, account, charged, seen>>
    BY <1>7 DEF MarginCall, Recover
  <2> QED
    BY <1>0, <2>1, <2>2, <2>3, LoadBase DEF Decision
<1>8. CASE EndJob(s)
  BY <1>0, <1>8, EndingBase
<1> QED
  BY <1>1, <1>2, <1>3, <1>4, <1>5, <1>6, <1>7, <1>8 DEF Sweep

\* accrueForPosition: the entity with a day's interest added.
LEMMA AccrueLoadStep ==
  ASSUME Base, NEW a \in Accruals, AccrueLoad(a)
  PROVE  \E p \in Positions, e \in Row :
           /\ p = job[a].cur /\ Load(a, p, e, "accrue") /\ e.status = job[a].snap[p].status
           /\ e.entry = job[a].snap[p].entry /\ e.notified = job[a].snap[p].notified
           /\ e.interest = job[a].snap[p].interest + DailyInterest(p)
<1>0. a \in Jobs /\ job[a].pc \in AtPosition
  BY InJobs DEF AccrueLoad, AtPosition
<1>1. PICK p \in Positions : p = job[a].cur
  BY <1>0, JobKnown
<1>2. PICK e \in Row : e = job[a].snap[p]
  BY <1>0, <1>1, JobKnown
<1>3. PICK d \in Nat : d = DailyInterest(p)
  BY DailyInterestType
<1>4. PICK f : f = [e EXCEPT !.interest = @ + d]
  OBVIOUS
<1>5. f = [status |-> e.status, entry |-> e.entry, interest |-> e.interest + d, notified |-> e.notified]
  BY <1>2, <1>4 DEF Row
<1>6. f \in Row
  BY <1>2, <1>3, <1>5 DEF Row
<1>7. Load(a, p, f, "accrue")
  BY <1>1, <1>2, <1>3, <1>4 DEF AccrueLoad, Cur, Entity
<1> QED
  BY <1>1, <1>2, <1>3, <1>5, <1>6, <1>7

LEMMA AccrueBase ==
  ASSUME Base, NEW a \in Accruals, Accrue(a)
  PROVE  Base'
<1>0. /\ a \in Jobs /\ a \notin Sweeps /\ job \in [Jobs -> JobRec] /\ rows \in [Positions -> Row]
      /\ charged \in [Positions -> [Dates -> 0..2]] /\ Date[a] \in Dates
  BY InJobs, JobsAssumption, Types DEF Base, Dates
<1>k. /\ JobOK(a) /\ job[a].snap \in [Positions -> Row] /\ Pending(a) \subseteq Positions
  BY <1>0, JobKnown
<1>1. CASE AccrueStart(a)
  BY <1>0, <1>1, SnapshotBase DEF AccrueStart
<1>2. ASSUME NEW p \in Positions, AccrueNext(a, p) PROVE Base'
  <2>1. /\ job' \in [Jobs -> JobRec] /\ JobsStay(a)
        /\ \/ job'[a].pc = job[a].pc /\ job'[a].cur = job[a].cur
           \/ job'[a].pc = "load" /\ job'[a].cur = p
        /\ job'[a].todo = job[a].todo \ {p} /\ job'[a].snap = job[a].snap
    BY <1>0, <1>2, AccrueNextStep
  <2>2. /\ job[a].pc = "next" /\ job[a].cur = None /\ a \in world.jobs /\ p \in job[a].todo
        /\ UNCHANGED <<world, price, enabled, hour, request, rows, account, charged, seen>>
    BY <1>2, <1>k DEF AccrueNext, JobOK
  <2>3. Pending(a)' \subseteq Pending(a) /\ Kept
    BY <2>1, <2>2 DEF Pending, Kept
  <2>4. \A q \in Pending(a)' : /\ job'[a].snap[q].status \in Live
                               /\ job'[a].snap[q].entry = job[a].snap[q].entry
    BY <1>k, <2>1, <2>3 DEF JobOK
  <2>5. job'[a].cur \notin job'[a].todo
    BY <1>k, <2>1 DEF JobOK
  <2>6. JobOK(a)'
    BY <1>0, <2>1, <2>2, <2>3, <2>4, <2>5, JobMoved DEF AtPosition, AccrualPCs
  <2> QED
    BY <1>0, <2>1, <2>2, <2>6, BaseJobOnly
<1>3. CASE AccrueLoad(a)
  <2>1. PICK p \in Positions, e \in Row :
           /\ p = job[a].cur /\ Load(a, p, e, "accrue") /\ e.status = job[a].snap[p].status
           /\ e.entry = job[a].snap[p].entry
    BY <1>3, AccrueLoadStep
  <2>2. p \in Pending(a) /\ job[a].pc # "idle" /\ e.status \in Live
    BY <1>3, <1>k, <2>1 DEF Pending, AccrueLoad, JobOK
  <2>3. UNCHANGED <<world, price, enabled, hour, request, rows, account, charged, seen>>
    BY <1>3 DEF AccrueLoad
  <2> QED
    BY <1>0, <2>1, <2>2, <2>3, LoadBase
<1>4. CASE AccrueSave(a)
  <2>1. ~SavePnl(a) /\ ~SaveMarginCall(a)
    BY <1>4 DEF AccrueSave, SavePnl, SaveMarginCall
  <2> QED
    BY <1>0, <1>4, <2>1, SaveBase
<1>5. CASE AccrueRecord(a)
  <2>1. /\ job[a].pc \in AtPosition /\ Kept
        /\ UNCHANGED <<world, price, enabled, hour, request, rows, account, seen>>
    BY <1>5 DEF AccrueRecord, AtPosition, Kept
  <2>2. JobOK(a)' /\ JobsStay(a) /\ job' \in [Jobs -> JobRec]
    BY <1>0, <1>5, <2>1, MovesOn DEF AccrueRecord
  <2>3. PICK p \in Positions : p = job[a].cur
    BY <1>0, <2>1, JobKnown
  <2>4. charged' = [charged EXCEPT ![p] = [charged[p] EXCEPT ![Date[a]] = Min({2, charged[p][Date[a]] + 1})]]
    BY <1>5, <2>3 DEF AccrueRecord, Cur
  <2>5. charged[p] \in [Dates -> 0..2] /\ charged[p][Date[a]] \in 0..2
    BY <1>0
  <2>6. Min({2, charged[p][Date[a]] + 1}) \in 0..2
    BY <2>5, MinOfTwo
  <2>7. charged' \in [Positions -> [Dates -> 0..2]]
    BY <1>0, <2>4, <2>5, <2>6
  <2> QED
    BY <1>0, <2>1, <2>2, <2>7, BaseJobOnly
<1>6. CASE EndJob(a)
  BY <1>0, <1>6, EndingBase
<1> QED
  BY <1>1, <1>2, <1>3, <1>4, <1>5, <1>6 DEF Accrue

\* A step that leaves the jobs alone.
LEMMA JobsAlone ==
  ASSUME Base, UNCHANGED <<world, job>>, Kept
  PROVE  \A j \in Jobs : JobOK(j)'
BY JobKept, Types DEF Base

LEMMA RequestsBase ==
  ASSUME Base, NEW p \in Positions,
         OpenCheck(p) \/ OpenCommit(p) \/ \E px \in world.prices : Close(p, px)
  PROVE  Base'
<1>0. /\ world \in Scenarios /\ price \in Nat \ {0} /\ price \in Prices /\ hour \in 1..MaxHour
      /\ request \in [Positions -> Nat \cup {-1}] /\ rows \in [Positions -> Row]
      /\ account \in [Users -> Account] /\ charged \in [Positions -> [Dates -> 0..2]]
      /\ job \in [Jobs -> JobRec] /\ seen \in [Positions -> Seen] /\ enabled \in BOOLEAN
  <2>1. enabled \in BOOLEAN
    BY DEF Base, TypeOK
  <2> QED
    BY <2>1, Types DEF Base
<1>1. CASE OpenCheck(p)
  <2>1. PICK e \in Nat : request' = [request EXCEPT ![p] = e]
    BY <1>0, <1>1, DtoType DEF OpenCheck
  <2>2. /\ UNCHANGED <<world, price, enabled, hour, rows, account, charged, job, seen>>
        /\ request[p] = 0
    BY <1>1 DEF OpenCheck
  <2>3. request' \in [Positions -> Nat \cup {-1}]
    BY <1>0, <2>1
  <2>4. TypeOK'
    BY <1>0, <2>2, <2>3, TypesAgain
  <2>5. RowsOpened'
    BY <1>0, <2>1, <2>2 DEF Base, RowsOpened
  <2>6. Kept
    BY <2>2 DEF Kept
  <2> QED
    BY <2>2, <2>4, <2>5, <2>6, JobsAlone DEF Base
<1>2. CASE OpenCommit(p)
  <2>1. /\ UNCHANGED <<world, price, enabled, hour, charged, job, seen>>
        /\ request[p] # -1 /\ request' = [request EXCEPT ![p] = -1]
    BY <1>2 DEF OpenCommit
  <2>2. request' \in [Positions -> Nat \cup {-1}]
    BY <1>0, <2>1
  <2>3. CASE rows' = rows /\ account' = account
    <3>1. TypeOK'
      BY <1>0, <2>1, <2>2, <2>3, TypesAgain
    <3>2. RowsOpened' /\ Kept
      BY <1>0, <2>1, <2>3 DEF Base, RowsOpened, Kept
    <3> QED
      BY <2>1, <3>1, <3>2, JobsAlone DEF Base
  <2>4. CASE rows' # rows \/ account' # account
    <3>1. /\ rows[p] = NoRow /\ rows' \in [Positions -> Row] /\ RowsStay(p)
          /\ rows'[p].status = "OPEN" /\ rows'[p].entry = request[p] /\ request[p] \in Nat \ {0}
          /\ account' \in [Users -> Account]
      BY <1>2, <2>4, OpenCommitStep, Zenon
    <3>2. TypeOK'
      BY <1>0, <2>1, <2>2, <3>1, TypesAgain
    <3>3. RowsOpened'
      <4>1. ASSUME NEW q \in Positions
            PROVE  /\ rows'[q].status # "none" => rows'[q].entry # 0 /\ request'[q] = -1
                   /\ rows'[q].status = "none" => rows'[q] = NoRow
        <5>1. CASE q = p
          BY <1>0, <2>1, <3>1, <5>1
        <5>2. CASE q # p
          BY <1>0, <2>1, <3>1, <5>2 DEF Base, RowsOpened, RowsStay
        <5> QED
          BY <5>1, <5>2
      <4> QED
        BY <4>1 DEF RowsOpened, NoRow
    <3>4. ASSUME NEW j \in Jobs PROVE JobOK(j)'
      <4>1. /\ JobOK(j) /\ Pending(j) \subseteq Positions
        BY JobKnown
      <4>2. \A q \in Pending(j) : rows'[q] = rows[q]
        BY <3>1, <4>1 DEF JobOK, RowsStay, NoRow
      <4> QED
        BY <2>1, <4>1, <4>2 DEF JobOK, Pending
    <3> QED
      BY <3>2, <3>3, <3>4 DEF Base
  <2> QED
    BY <2>3, <2>4
<1>3. ASSUME NEW px \in world.prices, Close(p, px) PROVE Base'
  <2>1. px \in Nat
    BY <1>0, WorldType, PricesAssumption
  <2>2. rows[p] \in Row /\ rows[p].status # "none" /\ rows[p].entry \in Nat \ {0} /\ rows[p].interest \in Nat
    <3>1. rows[p] \in Row
      BY <1>0
    <3>2. rows[p].status # "none"
      BY <1>3 DEF Close, IsLive, Live
    <3> QED
      BY <3>1, <3>2, RowType DEF Base, RowsOpened
  <2>3. Equity(p, rows[p], px) \in Int
    BY <2>1, <2>2, EquityType
  <2>4. SettleEffect(p, Equity(p, rows[p], px), "CLOSED")
    BY <1>0, <1>3, <2>3, SettleStep DEF Close
  <2>5. UNCHANGED <<world, price, enabled, hour, request, charged, job>>
    BY <1>3 DEF Close
  <2>6. /\ rows' \in [Positions -> Row] /\ account' \in [Users -> Account] /\ seen' \in [Positions -> Seen]
        /\ Kept
    BY <2>2, <2>4 DEF SettleEffect, Kept, RowsStay
  <2>7. TypeOK'
    BY <1>0, <2>5, <2>6, TypesAgain
  <2>8. RowsOpened'
    BY <2>5, <2>6, RowsOpenedKept DEF Base
  <2> QED
    BY <2>5, <2>6, <2>7, <2>8, JobsAlone DEF Base
<1> QED
  BY <1>1, <1>2, <1>3

\* UpdatePair, HourPasses and SetPrice, and stuttering.
LEMMA WorldBase ==
  ASSUME Base, UNCHANGED vars \/ UpdatePair \/ HourPasses \/ \E px \in world.prices : SetPrice(px)
  PROVE  /\ Base' /\ UNCHANGED <<world, request, rows, account, charged, job, seen>>
         /\ hour <= hour'
<1>0. /\ world \in Scenarios /\ price \in Prices /\ hour \in 1..MaxHour
      /\ request \in [Positions -> Nat \cup {-1}] /\ rows \in [Positions -> Row]
      /\ account \in [Users -> Account] /\ charged \in [Positions -> [Dates -> 0..2]]
      /\ job \in [Jobs -> JobRec] /\ seen \in [Positions -> Seen] /\ enabled \in BOOLEAN
  <2>1. enabled \in BOOLEAN
    BY DEF Base, TypeOK
  <2> QED
    BY <2>1, Types DEF Base
<1>1. UNCHANGED <<world, request, rows, account, charged, job, seen>>
  BY DEF UpdatePair, HourPasses, SetPrice, vars
<1>2. world.prices \subseteq Prices /\ world.hours \in 1..MaxHour
  BY <1>0, WorldType
<1>3. enabled' \in BOOLEAN
  BY <1>0 DEF UpdatePair, HourPasses, SetPrice, vars
<1>4. price' \in Prices
  BY <1>0, <1>2 DEF UpdatePair, HourPasses, SetPrice, vars
<1>5. hour' \in 1..MaxHour /\ hour <= hour'
  BY <1>0, <1>2, RowsAssumption DEF UpdatePair, HourPasses, SetPrice, vars
<1>6. TypeOK'
  BY <1>0, <1>1, <1>3, <1>4, <1>5, TypesAgain
<1>7. Kept /\ RowsOpened'
  BY <1>1 DEF Base, Kept, RowsOpened
<1> QED
  BY <1>1, <1>5, <1>6, <1>7, JobsAlone DEF Base

LEMMA BaseInit == Init => Base
<1> SUFFICES ASSUME Init PROVE Base
  OBVIOUS
<1>0. NoRow \in Row
  BY RowsAssumption DEF NoRow, Row
<1>1. world \in Scenarios /\ price \in Prices /\ enabled \in BOOLEAN /\ hour \in 1..MaxHour
  <2>1. world \in Scenarios
    BY DEF Init
  <2>2. world.prices \subseteq Prices /\ world.hours \in 1..MaxHour
    BY <2>1, WorldType
  <2> QED
    BY <2>1, <2>2, RowsAssumption DEF Init
<1>2. request \in [Positions -> Nat \cup {-1}] /\ charged \in [Positions -> [Dates -> 0..2]]
  BY DEF Init
<1>3. rows \in [Positions -> Row]
  BY <1>0 DEF Init
<1>4. job \in [Jobs -> JobRec]
  BY IdleType DEF Init
<1>5. account \in [Users -> Account] /\ seen \in [Positions -> Seen]
  BY RowsAssumption DEF Init, Account, Seen
<1>6. TypeOK
  BY <1>1, <1>2, <1>3, <1>4, <1>5, Zenon DEF TypeOK, JobRec, PCs, Columns, Account, Seen
<1>7. RowsOpened
  BY DEF Init, RowsOpened, NoRow
<1>8. ASSUME NEW j \in Jobs PROVE JobOK(j)
  <2>1. job[j].pc = "idle" /\ job[j].todo = {} /\ job[j].cur = None
    BY DEF Init, Idle
  <2>2. Pending(j) = {}
    BY <2>1, JobsAssumption DEF Pending
  <2> QED
    BY <2>1, <2>2 DEF JobOK, AtPosition, SweepPCs, AccrualPCs
<1> QED
  BY <1>6, <1>7, <1>8 DEF Base

LEMMA BaseNext == Base /\ [Next]_vars => Base'
<1> SUFFICES ASSUME Base, [Next]_vars PROVE Base'
  OBVIOUS
<1>1. ASSUME NEW j \in Jobs, Fault(j) \/ Crash(j) PROVE Base'
  BY <1>1, EndingBase
<1> QED
  BY <1>1, RequestsBase, WorldBase, SweepBase, AccrueBase DEF Next

\* Rows, accounts and jobs keep their types whatever users, sweeps, interest runs
\* and failures do: no account's locked balance is negative, although
\* settlePositionBalance subtracts from it.
THEOREM TypeCorrect == Spec => []TypeOK
<1>1. Base => TypeOK
  BY DEF Base
<1> QED
  BY <1>1, BaseInit, BaseNext, PTL DEF Spec

-----------------------------------------------------------------------------
(* The collateral of the open positions.                                   *)

\* What position p puts up for u in status st.
Put(p, u, st) == IF st \in Live /\ Dto[p].user = u THEN Dto[p].collateral ELSE 0

LEMMA PutType ==
  ASSUME NEW p \in Positions, NEW u, NEW st
  PROVE  Put(p, u, st) \in Nat
BY DtoType DEF Put

LEMMA OpenCollateralType ==
  ASSUME NEW u \in Users
  PROVE  /\ OpenCollateral(u) \in Nat
         /\ \A p \in Positions : Put(p, u, rows[p].status) <= OpenCollateral(u)
<1> DEFINE f == Collateral(u)
<1>1. \A p \in Positions : f[p] \in Nat /\ f[p] = Put(p, u, rows[p].status)
  BY PutType DEF Collateral, Put
<1>2. OpenCollateral(u) = SumFunctionOnSet(f, Positions)
  BY DEF OpenCollateral
<1> HIDE DEF f
<1>3. SumFunctionOnSet(f, Positions) \in Nat
  BY <1>1, RowsAssumption, SumNonnegative
<1>4. \A p \in Positions : f[p] <= SumFunctionOnSet(f, Positions)
  BY <1>1, RowsAssumption, SumBounds
<1> QED
  BY <1>1, <1>2, <1>3, <1>4

\* A step that changes one row changes the collateral by what that row puts up.
LEMMA CollateralStep ==
  ASSUME NEW p \in Positions, NEW u \in Users, RowsStay(p)
  PROVE  OpenCollateral(u)' = OpenCollateral(u) + Put(p, u, rows'[p].status) - Put(p, u, rows[p].status)
<1> DEFINE f == [q \in Positions |-> Put(q, u, rows[q].status)]
           h == [q \in Positions |-> Put(q, u, rows'[q].status)]
<1>1. \A q \in Positions : f[q] \in Int /\ h[q] \in Int
  BY PutType
<1>2. \A q \in Positions \ {p} : h[q] = f[q]
  BY DEF RowsStay
<1>3. OpenCollateral(u) = SumFunctionOnSet(f, Positions)
  BY DEF OpenCollateral, Collateral, Put
<1>4. OpenCollateral(u)' = SumFunctionOnSet(h, Positions)
  BY DEF OpenCollateral, Collateral, Put
<1>5. SumFunctionOnSet(h, Positions) = SumFunctionOnSet(f, Positions) + h[p] - f[p]
  <2> HIDE DEF f, h
  <2> QED
    BY <1>1, <1>2, RowsAssumption, SumUpdate
<1> QED
  BY <1>3, <1>4, <1>5

LEMMA CollateralStays ==
  ASSUME NEW u \in Users, rows' = rows
  PROVE  OpenCollateral(u)' = OpenCollateral(u)
BY DEF OpenCollateral, Collateral

LEMMA AccountType ==
  ASSUME account \in [Users -> Account], NEW u \in Users
  PROVE  account[u].balance \in Int /\ account[u].locked \in Nat
<1>1. account[u] \in Account
  OBVIOUS
<1> QED
  BY <1>1 DEF Account

-----------------------------------------------------------------------------
(* What every step does to rows and accounts.                              *)

Nothing == UNCHANGED <<rows, account, seen>>

\* Job j saves the entity of p: the row can only become open, and a new hour in
\* it is that of a margin call.
SavedBy(j, p) ==
  /\ account' = account /\ p = job[j].cur
  /\ job[j].pc \in IF j \in Sweeps THEN {"save", "notify", "called"} ELSE {"accrue"}
  /\ RowsStay(p) /\ rows'[p].status \in {rows[p].status} \cup Live
  /\ rows'[p].interest \in {rows[p].interest, job[j].snap[p].interest}
  /\ rows'[p].notified = IF "notified" \in job[j].cols THEN job[j].snap[p].notified
                         ELSE rows[p].notified
  /\ \A q \in Positions \ {p} : seen'[q] = seen[q]
  /\ seen'[p].settled = seen[p].settled
  /\ seen'[p].calls = IF job[j].pc = "notify"
                        THEN [seen[p].calls EXCEPT ![job[j].snap[p].notified] = @ + 1]
                        ELSE seen[p].calls

Saved == \E j \in Jobs, p \in Positions : SavedBy(j, p)

\* A transaction settles an open position, and if that is a liquidation the
\* owner loses the collateral at most.
Ended ==
  \E p \in Positions, equity \in Int, st \in {"CLOSED", "LIQUIDATED"} :
    /\ rows[p].status \in Live /\ SettleEffect(p, equity, st)
    /\ world.closing \/ equity >= 0
    /\ st = "LIQUIDATED" => \E s \in Sweeps : job[s].pc = "liquidate" /\ job[s].cur = p

Opened == seen' = seen /\ \E p \in Positions : OpenCommit(p) /\ ~Nothing

LEMMA LiquidateStep ==
  ASSUME Base, NEW s \in Sweeps, Liquidate(s)
  PROVE  \/ Nothing /\ NextPosition(s)
         \/ \E p \in Positions :
              /\ p = job[s].cur /\ rows[p].status \in Live
              /\ Goto(s, "cover") \/ NextPosition(s)
              /\ \E equity \in Nat : SettleEffect(p, equity, "LIQUIDATED")
<1>1. s \in Jobs /\ job[s].pc = "liquidate" /\ job[s].pc \in AtPosition
  BY InJobs DEF Liquidate, AtPosition
<1>2. PICK p \in Positions : p = job[s].cur
  BY <1>1, JobKnown
<1>3. PICK px \in Nat : px = job[s].px
  BY <1>1, JobType, Types DEF Base
<1>4. /\ rows \in [Positions -> Row] /\ account \in [Users -> Account] /\ seen \in [Positions -> Seen]
  BY Types DEF Base
<1>5. rows[p].entry \in Nat \ {0} /\ rows[p].interest \in Nat
  <2>1. rows[p].status # "none"
    BY <1>1, <1>2, JobKnown DEF JobOK
  <2>2. rows[p] \in Row
    BY <1>4
  <2> QED
    BY <2>1, <2>2, RowType DEF Base, RowsOpened
<1>6. PICK equity \in Nat : equity = Payout(Equity(p, rows[p], px))
  BY <1>3, <1>5, EquityType, PayoutValue
<1>7. CASE /\ IsLive(p) /\ Settle(p, equity, "LIQUIDATED")
           /\ Goto(s, "cover") \/ NextPosition(s)
  <2>1. SettleEffect(p, equity, "LIQUIDATED")
    BY <1>4, <1>7, SettleStep
  <2> QED
    BY <1>2, <1>7, <2>1 DEF IsLive
<1>8. CASE NextPosition(s) /\ UNCHANGED <<rows, account, seen>>
  BY <1>8 DEF Nothing
<1> QED
  BY <1>2, <1>3, <1>6, <1>7, <1>8 DEF Liquidate, Cur

LEMMA CloseStep ==
  ASSUME Base, NEW p \in Positions, NEW px \in world.prices, Close(p, px)
  PROVE  /\ rows[p].status \in Live /\ world.closing
         /\ \E equity \in Int : SettleEffect(p, equity, "CLOSED")
<1>1. px \in Nat
  BY WorldType, Types, PricesAssumption DEF Base
<1>2. /\ rows \in [Positions -> Row] /\ account \in [Users -> Account] /\ seen \in [Positions -> Seen]
  BY Types DEF Base
<1>3. rows[p].status \in Live /\ world.closing
  BY DEF Close, IsLive
<1>4. rows[p].entry \in Nat \ {0} /\ rows[p].interest \in Nat
  <2>1. rows[p] \in Row /\ rows[p].status # "none"
    BY <1>2, <1>3 DEF Live
  <2> QED
    BY <2>1, RowType DEF Base, RowsOpened
<1>5. PICK equity \in Int : equity = Equity(p, rows[p], px)
  BY <1>1, <1>4, EquityType
<1>6. SettleEffect(p, equity, "CLOSED")
  BY <1>2, <1>5, SettleStep DEF Close
<1> QED
  BY <1>3, <1>6

LEMMA SaveStep ==
  ASSUME Base, NEW j \in Jobs, SavePnl(j) \/ SaveMarginCall(j) \/ AccrueSave(j),
         SavePnl(j) \/ SaveMarginCall(j) => j \in Sweeps, AccrueSave(j) => j \in Accruals
  PROVE  \E p \in Positions : SavedBy(j, p)
<1>1. /\ job[j].pc \in AtPosition /\ Write(j) /\ account' = account
      /\ job[j].pc \in IF j \in Sweeps THEN {"save", "notify", "called"} ELSE {"accrue"}
  BY JobsAssumption DEF SavePnl, SaveMarginCall, AccrueSave, AtPosition
<1>2. PICK p \in Positions : p = job[j].cur
  BY <1>1, JobKnown
<1>3. RowsStay(p) /\ rows'[p].status \in {rows[p].status} \cup Live
  BY <1>1, <1>2, SaveEffect
<1>4. /\ rows'[p].interest = IF "interest" \in job[j].cols THEN job[j].snap[p].interest ELSE rows[p].interest
      /\ rows'[p].notified = IF "notified" \in job[j].cols THEN job[j].snap[p].notified ELSE rows[p].notified
  BY <1>1, <1>2, WriteStep, Types DEF Base
<1>5. /\ \A q \in Positions \ {p} : seen'[q] = seen[q]
      /\ seen'[p].settled = seen[p].settled
      /\ seen'[p].calls = IF job[j].pc = "notify"
                            THEN [seen[p].calls EXCEPT ![job[j].snap[p].notified] = @ + 1]
                            ELSE seen[p].calls
  <2>1. seen \in [Positions -> Seen] /\ seen[p] \in Seen
    BY Types DEF Base
  <2>2. CASE job[j].pc = "notify"
    <3>1. seen' = [seen EXCEPT ![p].calls[job[j].snap[p].notified] = @ + 1]
      BY <1>2, <2>2 DEF SavePnl, SaveMarginCall, AccrueSave, Cur, Entity
    <3>2. seen'[p] = [seen[p] EXCEPT !.calls = [seen[p].calls EXCEPT ![job[j].snap[p].notified] = @ + 1]]
      BY <2>1, <3>1
    <3>3. seen'[p] = [settled |-> seen[p].settled,
                      calls |-> [seen[p].calls EXCEPT ![job[j].snap[p].notified] = @ + 1]]
      BY <2>1, <3>2 DEF Seen
    <3> QED
      BY <2>1, <2>2, <3>1, <3>3, SMTT(30)
  <2>3. CASE job[j].pc # "notify"
    BY <2>3 DEF SavePnl, SaveMarginCall, AccrueSave
  <2> QED
    BY <2>2, <2>3
<1> QED
  BY <1>1, <1>2, <1>3, <1>4, <1>5 DEF SavedBy

LEMMA SweepRows ==
  ASSUME Base, NEW s \in Sweeps, Sweep(s)
  PROVE  Nothing \/ Saved \/ Ended
<1>1. CASE SavePnl(s) \/ SaveMarginCall(s)
  BY <1>1, SaveStep, InJobs DEF Saved, SavePnl, SaveMarginCall, AccrueSave
<1>2. CASE Liquidate(s)
  <2>1. job[s].pc = "liquidate"
    BY <1>2 DEF Liquidate
  <2> QED
    BY <1>2, <2>1, LiquidateStep DEF Ended
<1>3. CASE ~SavePnl(s) /\ ~SaveMarginCall(s) /\ ~Liquidate(s)
  BY <1>3 DEF Sweep, SweepStart, Snapshot, SweepPrices, Evaluate, Cover, MarginCall, Recover,
              EndJob, Nothing
<1> QED
  BY <1>1, <1>2, <1>3

LEMMA AccrueRows ==
  ASSUME Base, NEW a \in Accruals, Accrue(a)
  PROVE  Nothing \/ Saved
<1>1. CASE AccrueSave(a)
  BY <1>1, SaveStep, InJobs DEF Saved, SavePnl, SaveMarginCall, AccrueSave
<1>2. CASE ~AccrueSave(a)
  BY <1>2, Zenon DEF Accrue, AccrueStart, Snapshot, AccrueNext, AccrueLoad, AccrueRecord, EndJob, Nothing
<1> QED
  BY <1>1, <1>2

LEMMA StepKinds ==
  ASSUME Base, [Next]_vars
  PROVE  Nothing \/ Saved \/ Ended \/ Opened
<1>1. ASSUME NEW p \in Positions, OpenCheck(p) \/ OpenCommit(p) PROVE Nothing \/ Opened
  BY <1>1 DEF OpenCheck, OpenCommit, Nothing, Opened
<1>2. ASSUME NEW p \in Positions, NEW px \in world.prices, Close(p, px) PROVE Ended
  BY <1>2, CloseStep DEF Ended
<1>3. CASE UNCHANGED vars \/ UpdatePair \/ HourPasses \/ (\E px \in world.prices : SetPrice(px))
  BY <1>3, WorldBase DEF Nothing
<1>4. ASSUME NEW j \in Jobs, Fault(j) \/ Crash(j) PROVE Nothing
  BY <1>4 DEF Fault, Crash, Nothing
<1> QED
  BY <1>1, <1>2, <1>3, <1>4, SweepRows, AccrueRows, SMTT(30) DEF Next

\* Saves only add to the collateral of open positions, an opening locks what it
\* adds, and a settlement releases what it takes away or everything.
LEMMA StrandedNext ==
  ASSUME Base, Base', NoStrandedCollateral, [Next]_vars
  PROVE  NoStrandedCollateral'
<1> SUFFICES ASSUME NEW v \in Users PROVE account'[v].locked <= OpenCollateral(v)'
  BY DEF NoStrandedCollateral
<1>0. /\ account[v].locked <= OpenCollateral(v) /\ account[v].locked \in Nat
      /\ OpenCollateral(v) \in Nat
  BY AccountType, OpenCollateralType, Types DEF Base, NoStrandedCollateral
<1>1. CASE Nothing
  BY <1>0, <1>1, CollateralStays DEF Nothing
<1>2. CASE Saved
  <2>1. PICK p \in Positions : /\ RowsStay(p) /\ rows'[p].status \in {rows[p].status} \cup Live
    BY <1>2 DEF Saved, SavedBy
  <2>2. OpenCollateral(v)' = OpenCollateral(v) + Put(p, v, rows'[p].status) - Put(p, v, rows[p].status)
    BY <2>1, CollateralStep
  <2>3. Put(p, v, rows[p].status) <= Put(p, v, rows'[p].status)
    BY <2>1, DtoType DEF Put
  <2> QED
    BY <1>0, <1>2, <2>2, <2>3, PutType DEF Saved, SavedBy
<1>3. CASE Ended
  <2>1. PICK p \in Positions, equity \in Int, st \in {"CLOSED", "LIQUIDATED"} :
          rows[p].status \in Live /\ SettleEffect(p, equity, st)
    BY <1>3 DEF Ended
  <2>2. OpenCollateral(v)' = OpenCollateral(v) + Put(p, v, rows'[p].status) - Put(p, v, rows[p].status)
    BY <2>1, CollateralStep DEF SettleEffect
  <2>3. Put(p, v, rows'[p].status) = 0
    BY <2>1 DEF SettleEffect, Put, Live
  <2>4. Put(p, v, rows[p].status) <= OpenCollateral(v)
    BY OpenCollateralType
  <2>5. CASE v = Dto[p].user
    <3>1. Put(p, v, rows[p].status) = Dto[p].collateral /\ Dto[p].collateral \in Nat
      BY <2>1, <2>5, DtoType DEF Put
    <3>2. account'[v].locked = IF account[v].locked >= Dto[p].collateral
                                 THEN account[v].locked - Dto[p].collateral ELSE 0
      BY <2>1, <2>5 DEF SettleEffect
    <3> QED
      BY <1>0, <2>2, <2>3, <2>4, <3>1, <3>2
  <2>6. CASE v # Dto[p].user
    <3>1. Put(p, v, rows[p].status) = 0 /\ account'[v] = account[v]
      BY <2>1, <2>6 DEF Put, SettleEffect
    <3> QED
      BY <1>0, <2>2, <2>3, <3>1
  <2> QED
    BY <2>5, <2>6
<1>4. CASE Opened
  <2>1. PICK p \in Positions : OpenCommit(p) /\ (rows' # rows \/ account' # account)
    BY <1>4 DEF Opened, Nothing
  <2>2. /\ rows[p] = NoRow /\ RowsStay(p) /\ rows'[p].status = "OPEN"
        /\ \A w \in Users \ {Dto[p].user} : account'[w] = account[w]
        /\ account'[Dto[p].user].locked = account[Dto[p].user].locked + Dto[p].collateral
    BY <2>1, OpenCommitStep, Zenon
  <2>3. OpenCollateral(v)' = OpenCollateral(v) + Put(p, v, rows'[p].status) - Put(p, v, rows[p].status)
    BY <2>2, CollateralStep
  <2>4. /\ Put(p, v, rows[p].status) = 0
        /\ Put(p, v, rows'[p].status) = IF v = Dto[p].user THEN Dto[p].collateral ELSE 0
    BY <2>2, SMTT(30) DEF Put, NoRow, Live
  <2> QED
    BY <1>0, <2>2, <2>3, <2>4, DtoType
<1> QED
  BY <1>1, <1>2, <1>3, <1>4, StepKinds

-----------------------------------------------------------------------------
(* One writer: a single job, which is then the only one with entities to   *)
(* save, or the users alone.                                               *)

LEMMA WorldStays == ASSUME [Next]_vars PROVE world' = world
<1>1. ASSUME NEW s \in Sweeps, Sweep(s) PROVE world' = world
  BY <1>1 DEF Sweep, SweepStart, Snapshot, SweepPrices, Evaluate, SavePnl, Liquidate, Cover,
              MarginCall, SaveMarginCall, Recover, EndJob
<1>2. ASSUME NEW a \in Accruals, Accrue(a) PROVE world' = world
  BY <1>2, Zenon DEF Accrue, AccrueStart, Snapshot, AccrueNext, AccrueLoad, AccrueSave,
                     AccrueRecord, EndJob
<1> QED
  BY <1>1, <1>2 DEF Next, vars, OpenCheck, OpenCommit, Close, UpdatePair, HourPasses, SetPrice,
                    Fault, Crash

LEMMA OnlyWriter ==
  ASSUME Base, OneWriter, NEW j \in Jobs, j \in world.jobs
  PROVE  ~world.closing /\ \A k \in Jobs \ {j} : Pending(k) = {} /\ k \notin world.jobs
<1>1. ~world.closing /\ world.jobs = {j}
  BY DEF OneWriter
<1>2. ASSUME NEW k \in Jobs \ {j} PROVE Pending(k) = {} /\ k \notin world.jobs
  <2>1. JobOK(k) /\ k \notin world.jobs
    BY <1>1, JobKnown
  <2>2. job[k].todo = {} /\ job[k].cur = None
    BY <2>1, SMTT(30) DEF JobOK
  <2> QED
    BY <2>1, <2>2, JobsAssumption DEF Pending
<1> QED
  BY <1>1, <1>2

\* What the one job saves is open, and it knows when the owner was called.
LEMMA SavedAlone ==
  ASSUME Base, NEW j \in Jobs, Alone(j), NEW p \in Positions, SavedBy(j, p)
  PROVE  /\ rows[p].status \in Live /\ j \in world.jobs
         /\ IF job[j].pc = "notify"
              THEN /\ rows[p].notified < job[j].snap[p].notified
                   /\ job[j].snap[p].notified <= hour
                   /\ rows'[p].notified = job[j].snap[p].notified
              ELSE rows'[p].notified = rows[p].notified
<1>1. job[j].pc \in AtPosition \ {"cover"} /\ p \in Pending(j)
  BY DEF SavedBy, AtPosition, Pending
<1>2. j \in world.jobs
  BY <1>1, JobKnown DEF AtPosition
<1> QED
  BY <1>1, <1>2 DEF Alone, SavedBy

\* The locked balances are the collateral, and stay within the balances.
LEMMA MoneyNext ==
  ASSUME Base, Writer, OneWriter, [Next]_vars, NEW v \in Users
  PROVE  /\ account'[v].locked = OpenCollateral(v)'
         /\ ~world.closing => account'[v].balance >= account'[v].locked
<1>0. /\ account[v].locked = OpenCollateral(v) /\ account[v].locked \in Nat
      /\ OpenCollateral(v) \in Nat /\ account[v].balance \in Int
      /\ ~world.closing => account[v].balance >= account[v].locked
  BY AccountType, OpenCollateralType, Types DEF Base, Writer, LockedIsCollateral, Solvent
<1>1. CASE Nothing
  BY <1>0, <1>1, CollateralStays, SMTT(30) DEF Nothing
<1>2. CASE Saved
  <2>1. PICK j \in Jobs, p \in Positions : SavedBy(j, p)
    BY <1>2, SMTT(30) DEF Saved
  <2>2. RowsStay(p) /\ rows'[p].status \in Live /\ rows[p].status \in Live
    BY <2>1, SavedAlone DEF Writer, SavedBy
  <2>3. OpenCollateral(v)' = OpenCollateral(v) + Put(p, v, rows'[p].status) - Put(p, v, rows[p].status)
    BY <2>2, CollateralStep
  <2>4. Put(p, v, rows[p].status) = Put(p, v, rows'[p].status)
    BY <2>2 DEF Put
  <2> QED
    BY <1>0, <2>1, <2>3, <2>4, PutType DEF SavedBy
<1>3. CASE Ended
  <2>1. PICK p \in Positions, equity \in Int, st \in {"CLOSED", "LIQUIDATED"} :
          /\ rows[p].status \in Live /\ SettleEffect(p, equity, st)
          /\ world.closing \/ equity >= 0
    BY <1>3 DEF Ended
  <2>2. OpenCollateral(v)' = OpenCollateral(v) + Put(p, v, rows'[p].status) - Put(p, v, rows[p].status)
    BY <2>1, CollateralStep DEF SettleEffect
  <2>3. Put(p, v, rows'[p].status) = 0
    BY <2>1 DEF SettleEffect, Put, Live
  <2>4. Put(p, v, rows[p].status) <= OpenCollateral(v)
    BY OpenCollateralType
  <2>5. CASE v = Dto[p].user
    <3>1. Put(p, v, rows[p].status) = Dto[p].collateral /\ Dto[p].collateral \in Nat
      BY <2>1, <2>5, DtoType DEF Put
    <3>2. /\ account'[v].locked = account[v].locked - Dto[p].collateral
          /\ account'[v].balance = account[v].balance + equity - Dto[p].collateral
      BY <1>0, <2>1, <2>4, <2>5, <3>1 DEF SettleEffect
    <3> QED
      BY <1>0, <2>1, <2>2, <2>3, <3>1, <3>2
  <2>6. CASE v # Dto[p].user
    <3>1. Put(p, v, rows[p].status) = 0 /\ account'[v] = account[v]
      BY <2>1, <2>6 DEF Put, SettleEffect
    <3> QED
      BY <1>0, <2>2, <2>3, <3>1
  <2> QED
    BY <2>5, <2>6
<1>4. CASE Opened
  <2>1. PICK p \in Positions : OpenCommit(p) /\ (rows' # rows \/ account' # account)
    BY <1>4 DEF Opened, Nothing
  <2>2. /\ rows[p] = NoRow /\ RowsStay(p) /\ rows'[p].status = "OPEN"
        /\ \A w \in Users \ {Dto[p].user} : account'[w] = account[w]
        /\ account[Dto[p].user].balance - account[Dto[p].user].locked >= Dto[p].collateral
        /\ account'[Dto[p].user].balance = account[Dto[p].user].balance
        /\ account'[Dto[p].user].locked = account[Dto[p].user].locked + Dto[p].collateral
    BY <2>1, OpenCommitStep, Zenon
  <2>3. OpenCollateral(v)' = OpenCollateral(v) + Put(p, v, rows'[p].status) - Put(p, v, rows[p].status)
    BY <2>2, CollateralStep
  <2>4. /\ Put(p, v, rows[p].status) = 0
        /\ Put(p, v, rows'[p].status) = IF v = Dto[p].user THEN Dto[p].collateral ELSE 0
    BY <2>2 DEF Put, NoRow, Live
  <2> QED
    BY <1>0, <2>2, <2>3, <2>4, DtoType
<1> QED
  BY <1>1, <1>2, <1>3, <1>4, StepKinds

LEMMA HourGrows == ASSUME Base, [Next]_vars PROVE hour <= hour' /\ hour \in Nat /\ hour' \in Nat
<1>0. hour \in 1..MaxHour
  BY Types DEF Base
<1>1. ASSUME NEW s \in Sweeps, Sweep(s) PROVE hour' = hour
  BY <1>1 DEF Sweep, SweepStart, Snapshot, SweepPrices, Evaluate, SavePnl, Liquidate, Cover,
              MarginCall, SaveMarginCall, Recover, EndJob
<1>2. ASSUME NEW a \in Accruals, Accrue(a) PROVE hour' = hour
  BY <1>2, Zenon DEF Accrue, AccrueStart, Snapshot, AccrueNext, AccrueLoad, AccrueSave,
                     AccrueRecord, EndJob
<1>3. hour' = hour \/ hour' = hour + 1
  BY <1>1, <1>2 DEF Next, vars, OpenCheck, OpenCommit, Close, UpdatePair, HourPasses, SetPrice,
                    Fault, Crash
<1> QED
  BY <1>0, <1>3

LEMMA SeenType ==
  ASSUME Base, NEW p \in Positions
  PROVE  /\ seen[p].settled \in Nat /\ seen[p].calls \in [1..MaxHour -> Nat]
         /\ rows[p] \in Row /\ rows[p].notified \in 0..MaxHour
         /\ rows[p].status \in Live \cup {"none", "CLOSED", "LIQUIDATED"}
<1>1. seen[p] \in Seen /\ rows[p] \in Row
  BY Types DEF Base
<1> QED
  BY <1>1, RowType DEF Seen

\* A position is settled once, and called once an hour.
LEMMA ToldNext ==
  ASSUME Base, Writer, OneWriter, [Next]_vars, NEW q \in Positions
  PROVE  Told(q)'
<1>0. /\ Told(q) /\ seen[q].settled \in Nat /\ seen[q].calls \in [1..MaxHour -> Nat]
      /\ rows[q].notified \in 0..MaxHour
      /\ rows[q].status \in Live \cup {"none", "CLOSED", "LIQUIDATED"}
  BY SeenType DEF Writer
<1>h. hour <= hour' /\ hour \in Nat /\ hour' \in Nat
  BY HourGrows
<1>1. ASSUME seen'[q] = seen[q], rows'[q] = rows[q] PROVE Told(q)'
  BY <1>0, <1>1, <1>h DEF Told
<1>2. CASE Nothing
  BY <1>1, <1>2 DEF Nothing
<1>3. CASE Saved
  <2>1. PICK j \in Jobs, p \in Positions : SavedBy(j, p)
    BY <1>3, SMTT(30) DEF Saved
  <2>2. CASE q # p
    BY <1>1, <2>1, <2>2 DEF SavedBy, RowsStay
  <2>3. CASE q = p
    <3>1. /\ rows[q].status \in Live
          /\ IF job[j].pc = "notify"
               THEN /\ rows[q].notified < job[j].snap[q].notified
                    /\ job[j].snap[q].notified <= hour
                    /\ rows'[q].notified = job[j].snap[q].notified
               ELSE rows'[q].notified = rows[q].notified
      BY <2>1, <2>3, SavedAlone DEF Writer
    <3>2. /\ seen'[q].settled = seen[q].settled
          /\ rows'[q].status \in {rows[q].status} \cup Live
          /\ seen'[q].calls = IF job[j].pc = "notify"
                                THEN [seen[q].calls EXCEPT ![job[j].snap[q].notified] = @ + 1]
                                ELSE seen[q].calls
      BY <2>1, <2>3 DEF SavedBy
    <3>3. seen'[q].settled = 0
      BY <1>0, <3>1, <3>2 DEF Told
    <3>4. rows'[q].notified <= hour'
      <4>1. job[j].snap[q].notified \in 0..MaxHour
        BY JobKnown, RowType
      <4> QED
        BY <1>0, <1>h, <3>1, <4>1 DEF Told
    <3>5. ASSUME NEW h \in 1..MaxHour
          PROVE  seen'[q].calls[h] <= 1 /\ (seen'[q].calls[h] > 0 => h <= rows'[q].notified)
      <4>1. CASE job[j].pc # "notify"
        BY <1>0, <3>1, <3>2, <4>1 DEF Told
      <4>2. CASE job[j].pc = "notify"
        <5>1. PICK n \in 0..MaxHour : n = job[j].snap[q].notified
          BY JobKnown, RowType
        <5>2. rows[q].notified < n /\ rows'[q].notified = n
          BY <3>1, <4>2, <5>1
        <5>3. seen[q].calls[h] \in Nat /\ seen[q].calls[h] <= 1
              /\ (seen[q].calls[h] > 0 => h <= rows[q].notified)
          BY <1>0 DEF Told
        <5>4. seen'[q].calls[h] = IF h = n THEN seen[q].calls[h] + 1 ELSE seen[q].calls[h]
          BY <1>0, <3>2, <4>2, <5>1
        <5> QED
          BY <1>0, <5>1, <5>2, <5>3, <5>4
      <4> QED
        BY <4>1, <4>2
    <3> QED
      BY <3>3, <3>4, <3>5 DEF Told
  <2> QED
    BY <2>2, <2>3
<1>4. CASE Ended
  <2>1. PICK p \in Positions, equity \in Int, st \in {"CLOSED", "LIQUIDATED"} :
          rows[p].status \in Live /\ SettleEffect(p, equity, st)
    BY <1>4 DEF Ended
  <2>2. CASE q # p
    BY <1>1, <2>1, <2>2 DEF SettleEffect, RowsStay
  <2>3. CASE q = p
    <3>1. /\ seen[q].settled = 0 /\ seen'[q].settled = seen[q].settled + 1
          /\ seen'[q].calls = seen[q].calls /\ rows'[q].notified = rows[q].notified
          /\ rows'[q].status \notin Live \cup {"none"}
      BY <1>0, <2>1, <2>3 DEF SettleEffect, Told, Live
    <3> QED
      BY <1>0, <1>h, <3>1 DEF Told
  <2> QED
    BY <2>2, <2>3
<1>5. CASE Opened
  <2>1. PICK p \in Positions : OpenCommit(p) /\ (rows' # rows \/ account' # account)
    BY <1>5 DEF Opened, Nothing
  <2>2. rows[p] = NoRow /\ RowsStay(p) /\ rows'[p].status = "OPEN" /\ rows'[p].notified = 0
    BY <2>1, OpenCommitStep, Zenon
  <2>3. seen' = seen
    BY <1>5 DEF Opened
  <2>4. CASE q # p
    BY <1>1, <2>2, <2>3, <2>4 DEF RowsStay
  <2>5. CASE q = p
    <3>1. rows[q].status = "none" /\ rows[q].notified = 0
      BY <2>2, <2>5 DEF NoRow
    <3> QED
      BY <1>0, <1>h, <2>2, <2>3, <2>5, <3>1 DEF Told
  <2> QED
    BY <2>4, <2>5
<1> QED
  BY <1>2, <1>3, <1>4, <1>5, StepKinds

-----------------------------------------------------------------------------
(* What every step does to the jobs.                                       *)

\* Job j turns to the next position.
Turns(j) ==
  /\ job'[j].pc = "next" /\ job'[j].cur = None /\ job'[j].todo = job[j].todo
  /\ job'[j].snap = job[j].snap /\ RowsStay(job[j].cur)

\* Job j goes on with the position it is at.
Remains(j, p) ==
  /\ p = job[j].cur /\ job'[j].cur = p /\ job'[j].todo = job[j].todo
  /\ job'[j].snap = job[j].snap /\ job'[j].px = job[j].px
  /\ \/ /\ j \in Sweeps /\ job[j].pc = "save" /\ SavedBy(j, p)
        /\ job'[j].pc \in {"liquidate", "call", "recover"}
        /\ job'[j].pc = "liquidate" => ShouldLiquidate(p, job[j].snap[p], job[j].px)
     \/ j \in Accruals /\ job[j].pc = "accrue" /\ SavedBy(j, p) /\ job'[j].pc = "record"
     \/ /\ j \in Sweeps /\ job[j].pc = "liquidate" /\ job'[j].pc = "cover" /\ RowsStay(p)
        /\ rows'[p].notified = rows[p].notified /\ rows'[p].interest = rows[p].interest

\* Job j loads what it has decided of a position that it has read.
Loads(j, p, e, pc) ==
  /\ rows' = rows /\ p \in Pending(j)
  /\ job'[j].pc = pc /\ job'[j].cur = p /\ job'[j].todo = job[j].todo \ {p}
  /\ job'[j].snap = [job[j].snap EXCEPT ![p] = e] /\ job'[j].cols = Changed(e, p)
  /\ IF pc = "notify" THEN e.notified = hour /\ job[j].snap[p].notified # hour
                      ELSE e.notified = job[j].snap[p].notified
  /\ IF j \in Sweeps
       THEN /\ job[j].pc \in {"next", "call", "recover"} /\ pc # "accrue"
            /\ e.interest = job[j].snap[p].interest
       ELSE /\ job[j].pc = "load" /\ p = job[j].cur /\ pc = "accrue"
            /\ e.interest = job[j].snap[p].interest + DailyInterest(p)

\* Job j reads the open positions.
Reads(j) ==
  /\ rows' = rows /\ job[j].pc = "idle" /\ job'[j].pc \in {"prices", "next"}
  /\ job'[j].todo = OpenPositions /\ job'[j].cur = None /\ job'[j].snap = rows

\* Job j takes up a position, or passes it over.
Skips(j) ==
  /\ rows' = rows /\ job[j].cur = None /\ job[j].pc # "idle" /\ job'[j].pc \in {"next", "load"}
  /\ job'[j].todo \subseteq job[j].todo /\ job'[j].cur \in job[j].todo \cup {None}
  /\ job'[j].snap = job[j].snap

\* Job j ends.
Stops(j) ==
  /\ rows' = rows /\ job'[j].todo = {} /\ job'[j].cur = None
  /\ job'[j].pc = IF j \in Sweeps THEN "idle" ELSE "done"

Moved(j) ==
  /\ j \in world.jobs /\ JobsStay(j) /\ hour' = hour
  /\ \/ job[j].cur \in Positions /\ Turns(j)
     \/ \E p \in Positions : Remains(j, p)
     \/ \E p \in Positions, e \in Row, pc \in {"save", "called", "notify", "accrue"} :
          Loads(j, p, e, pc)
     \/ Reads(j) \/ Skips(j) \/ Stops(j)

\* Requests and the clock leave the jobs alone.
Quiet == job' = job /\ (Nothing \/ Opened \/ (world.closing /\ Ended))

LEMMA SnapshotMoved ==
  ASSUME Base, NEW j \in Jobs, NEW pc \in {"prices", "next"}, Snapshot(j, pc)
  PROVE  Moved(j)
<1>1. rows \in [Positions -> Row] /\ job \in [Jobs -> JobRec] /\ pc \in PCs
  BY Types DEF Base, PCs
<1>2. /\ JobsStay(j)
      /\ job'[j].pc = pc /\ job'[j].cur = None /\ job'[j].todo = OpenPositions
      /\ job'[j].snap = rows
  BY <1>1, SnapshotStep
<1>3. j \in world.jobs /\ hour' = hour /\ rows' = rows /\ job[j].pc = "idle"
  BY DEF Snapshot, Idle
<1> QED
  BY <1>2, <1>3 DEF Moved, Reads

LEMMA EndingMoved ==
  ASSUME Base, NEW j \in Jobs, EndJob(j) \/ Fault(j) \/ Crash(j)
  PROVE  Moved(j)
<1>0. job \in [Jobs -> JobRec] /\ hour' = hour /\ rows' = rows
  BY Types DEF Base, EndJob, Fault, Crash
<1>1. CASE EndJob(j) \/ Crash(j)
  <2>1. /\ JobsStay(j)
        /\ job'[j].pc = IF j \in Sweeps THEN "idle" ELSE "done"
        /\ job'[j].cur = None /\ job'[j].todo = {}
    BY <1>0, <1>1, OverStep DEF EndJob, Crash
  <2>2. j \in world.jobs
    BY <1>1, JobKnown DEF EndJob, Crash
  <2> QED
    BY <1>0, <2>1, <2>2 DEF Moved, Stops
<1>2. CASE Fault(j)
  <2>1. JobsStay(j) /\ Turns(j)
    BY <1>0, <1>2, NextPositionStep DEF Fault, Turns, RowsStay
  <2>2. job[j].cur \in Positions
    BY <1>0, <1>2, JobType DEF Fault, Cur
  <2>3. j \in world.jobs
    BY <1>2, JobKnown DEF Fault, Cur, JobOK
  <2> QED
    BY <1>0, <2>1, <2>2, <2>3 DEF Moved
<1> QED
  BY <1>1, <1>2

\* NextPosition, after a step that changes no other row.
LEMMA TurnsMoved ==
  ASSUME Base, NEW j \in Jobs, job[j].pc \in AtPosition, NextPosition(j), hour' = hour,
         RowsStay(job[j].cur)
  PROVE  Moved(j)
<1>1. JobsStay(j) /\ Turns(j)
  BY NextPositionStep, Types DEF Base, Turns
<1>2. job[j].cur \in Positions /\ j \in world.jobs
  BY JobKnown DEF AtPosition
<1> QED
  BY <1>1, <1>2 DEF Moved

LEMMA LoadMoved ==
  ASSUME Base, NEW j \in Jobs, job[j].pc # "idle", hour' = hour, rows' = rows,
         NEW p \in Positions, p \in Pending(j), NEW e \in Row,
         NEW pc \in {"save", "called", "notify", "accrue"}, Load(j, p, e, pc),
         IF pc = "notify" THEN e.notified = hour /\ job[j].snap[p].notified # hour
                          ELSE e.notified = job[j].snap[p].notified,
         IF j \in Sweeps
           THEN /\ job[j].pc \in {"next", "call", "recover"} /\ pc # "accrue"
                /\ e.interest = job[j].snap[p].interest
           ELSE /\ job[j].pc = "load" /\ p = job[j].cur /\ pc = "accrue"
                /\ e.interest = job[j].snap[p].interest + DailyInterest(p)
  PROVE  Moved(j)
<1>1. job \in [Jobs -> JobRec] /\ pc \in PCs
  BY Types DEF Base, PCs
<1>2. /\ JobsStay(j)
      /\ job'[j].pc = pc /\ job'[j].cur = p /\ job'[j].todo = job[j].todo \ {p}
      /\ job'[j].snap = [job[j].snap EXCEPT ![p] = e]
      /\ job'[j].cols = Changed(e, p)
  BY <1>1, LoadStep
<1>3. j \in world.jobs
  BY JobKnown
<1>4. Loads(j, p, e, pc)
  BY <1>2 DEF Loads
<1> QED
  BY <1>2, <1>3, <1>4 DEF Moved

LEMMA SweepMoved ==
  ASSUME Base, NEW s \in Sweeps, Sweep(s)
  PROVE  Moved(s)
<1>0. /\ s \in Jobs /\ s \notin Accruals /\ job \in [Jobs -> JobRec] /\ price \in Nat
      /\ job[s].snap \in [Positions -> Row] /\ JobOK(s)
      /\ job[s].pc # "idle" => s \in world.jobs
  BY InJobs, JobsAssumption, JobKnown, Types DEF Base
<1>1. CASE SweepStart(s)
  BY <1>0, <1>1, SnapshotMoved DEF SweepStart
<1>2. CASE SweepPrices(s)
  <2>1. /\ JobsStay(s) /\ job'[s].pc = "next" /\ job'[s].cur = job[s].cur
        /\ job'[s].todo = job[s].todo /\ job'[s].snap = job[s].snap
    BY <1>0, <1>2, SweepPricesStep
  <2>2. job[s].pc = "prices" /\ job[s].cur = None /\ rows' = rows /\ hour' = hour
    BY <1>0, <1>2 DEF SweepPrices, JobOK
  <2> QED
    BY <1>0, <2>1, <2>2 DEF Moved, Skips
<1>3. ASSUME NEW p \in Positions, Evaluate(s, p) PROVE Moved(s)
  <2>1. PICK e \in Row : e = job[s].snap[p]
    BY <1>0
  <2>2. /\ job[s].pc = "next" /\ Load(s, p, e, "save") /\ rows' = rows /\ hour' = hour
        /\ p \in Pending(s)
    BY <1>3, <2>1 DEF Evaluate, Pending
  <2> QED
    BY <1>0, <2>1, <2>2, LoadMoved
<1>4. CASE SavePnl(s)
  <2>1. PICK p \in Positions : SavedBy(s, p)
    BY <1>0, <1>4, SaveStep DEF SavePnl, AccrueSave
  <2>2. /\ job[s].pc = "save" /\ job[s].pc \in AtPosition /\ hour' = hour /\ p = job[s].cur
        /\ RowsStay(p)
    BY <1>4, <2>1 DEF SavePnl, SavedBy, AtPosition
  <2>3. CASE NextPosition(s)
    BY <1>0, <2>2, <2>3, TurnsMoved
  <2>4. ASSUME NEW pc \in {"liquidate", "call", "recover"}, Goto(s, pc),
               pc = "liquidate" => ShouldLiquidate(p, job[s].snap[p], job[s].px)
        PROVE  Moved(s)
    <3>1. pc \in PCs
      BY DEF PCs
    <3>2. /\ JobsStay(s) /\ job'[s].pc = pc /\ job'[s].cur = job[s].cur /\ job'[s].todo = job[s].todo
          /\ job'[s].snap = job[s].snap /\ job'[s].px = job[s].px
      BY <1>0, <2>4, <3>1, GotoStep
    <3>3. Remains(s, p)
      BY <2>1, <2>2, <2>4, <3>2 DEF Remains
    <3> QED
      BY <1>0, <2>2, <3>2, <3>3 DEF Moved
  <2> QED
    BY <1>4, <2>2, <2>3, <2>4 DEF SavePnl, Cur, Entity
<1>5. CASE SaveMarginCall(s)
  <2>1. PICK p \in Positions : SavedBy(s, p)
    BY <1>0, <1>5, SaveStep, SMTT(30) DEF SaveMarginCall, AccrueSave
  <2>2. job[s].pc \in AtPosition /\ hour' = hour /\ NextPosition(s) /\ RowsStay(job[s].cur)
    BY <1>5, <2>1 DEF SaveMarginCall, SavedBy, AtPosition
  <2> QED
    BY <1>0, <2>2, TurnsMoved
<1>6. CASE Liquidate(s)
  <2>1. job[s].pc = "liquidate" /\ job[s].pc \in AtPosition /\ hour' = hour
    BY <1>6 DEF Liquidate, AtPosition
  <2>2. CASE Nothing /\ NextPosition(s)
    <3>1. RowsStay(job[s].cur)
      BY <2>2 DEF Nothing, RowsStay
    <3> QED
      BY <1>0, <2>1, <2>2, <3>1, TurnsMoved
  <2>3. ASSUME NEW p \in Positions, p = job[s].cur, Goto(s, "cover") \/ NextPosition(s),
               NEW equity \in Nat, SettleEffect(p, equity, "LIQUIDATED")
        PROVE  Moved(s)
    <3>1. /\ RowsStay(p) /\ rows'[p].notified = rows[p].notified
          /\ rows'[p].interest = rows[p].interest
      BY <2>3 DEF SettleEffect
    <3>2. CASE NextPosition(s)
      BY <1>0, <2>1, <2>3, <3>1, <3>2, TurnsMoved
    <3>3. CASE Goto(s, "cover")
      <4>1. "cover" \in PCs
        BY DEF PCs
      <4>2. /\ JobsStay(s) /\ job'[s].pc = "cover" /\ job'[s].cur = job[s].cur
            /\ job'[s].todo = job[s].todo /\ job'[s].snap = job[s].snap /\ job'[s].px = job[s].px
        BY <1>0, <3>3, <4>1, GotoStep
      <4>3. Remains(s, p)
        BY <2>1, <2>3, <3>1, <4>2 DEF Remains
      <4> QED
        BY <1>0, <2>1, <4>2, <4>3 DEF Moved
    <3> QED
      BY <2>3, <3>2, <3>3
  <2> QED
    BY <1>6, <2>2, <2>3, LiquidateStep
<1>7. CASE Cover(s)
  <2>1. job[s].pc \in AtPosition /\ hour' = hour /\ NextPosition(s) /\ RowsStay(job[s].cur)
    BY <1>7 DEF Cover, AtPosition, RowsStay
  <2> QED
    BY <1>0, <2>1, TurnsMoved
<1>8. CASE MarginCall(s) \/ Recover(s)
  <2>1. PICK p \in Positions, e \in Row, pc \in {"called", "notify"} : Decision(s, p, e, pc)
    BY <1>8, CallStep
  <2>2. /\ p \in Pending(s) /\ Load(s, p, e, pc) /\ e.interest = job[s].snap[p].interest
        /\ IF pc = "notify" THEN e.notified = hour /\ job[s].snap[p].notified # hour
                            ELSE e.notified = job[s].snap[p].notified
    BY <2>1 DEF Pending, Decision
  <2>3. job[s].pc \in {"call", "recover"} /\ hour' = hour /\ rows' = rows
    BY <1>8 DEF MarginCall, Recover
  <2> QED
    BY <1>0, <2>2, <2>3, LoadMoved
<1>9. CASE EndJob(s)
  BY <1>0, <1>9, EndingMoved
<1> QED
  BY <1>1, <1>2, <1>3, <1>4, <1>5, <1>6, <1>7, <1>8, <1>9 DEF Sweep

LEMMA AccrueMoved ==
  ASSUME Base, NEW a \in Accruals, Accrue(a)
  PROVE  Moved(a)
<1>0. /\ a \in Jobs /\ a \notin Sweeps /\ job \in [Jobs -> JobRec]
      /\ JobOK(a)
      /\ job[a].pc # "idle" => a \in world.jobs
  BY InJobs, JobsAssumption, JobKnown, Types DEF Base
<1>1. CASE AccrueStart(a)
  BY <1>0, <1>1, SnapshotMoved DEF AccrueStart
<1>2. ASSUME NEW p \in Positions, AccrueNext(a, p) PROVE Moved(a)
  <2>1. /\ JobsStay(a)
        /\ \/ job'[a].pc = job[a].pc /\ job'[a].cur = job[a].cur
           \/ job'[a].pc = "load" /\ job'[a].cur = p
        /\ job'[a].todo = job[a].todo \ {p} /\ job'[a].snap = job[a].snap
    BY <1>0, <1>2, AccrueNextStep
  <2>2. /\ job[a].pc = "next" /\ job[a].cur = None /\ p \in job[a].todo
        /\ rows' = rows /\ hour' = hour
    BY <1>0, <1>2 DEF AccrueNext, JobOK
  <2> QED
    BY <1>0, <2>1, <2>2 DEF Moved, Skips
<1>3. CASE AccrueLoad(a)
  <2>1. PICK p \in Positions, e \in Row :
           /\ p = job[a].cur /\ Load(a, p, e, "accrue")
           /\ e.notified = job[a].snap[p].notified
           /\ e.interest = job[a].snap[p].interest + DailyInterest(p)
    BY <1>3, AccrueLoadStep
  <2>2. p \in Pending(a) /\ job[a].pc = "load" /\ rows' = rows /\ hour' = hour
    BY <1>3, <2>1 DEF AccrueLoad, Pending
  <2> QED
    BY <1>0, <2>1, <2>2, LoadMoved
<1>4. CASE AccrueSave(a)
  <2>1. PICK p \in Positions : SavedBy(a, p)
    BY <1>0, <1>4, SaveStep DEF SavePnl, SaveMarginCall, AccrueSave
  <2>2. "record" \in PCs /\ job[a].pc = "accrue" /\ hour' = hour
    BY <1>4 DEF AccrueSave, PCs
  <2>3. /\ JobsStay(a) /\ job'[a].pc = "record" /\ job'[a].cur = job[a].cur
        /\ job'[a].todo = job[a].todo /\ job'[a].snap = job[a].snap /\ job'[a].px = job[a].px
    BY <1>0, <1>4, <2>2, GotoStep DEF AccrueSave
  <2>4. Remains(a, p)
    BY <2>1, <2>2, <2>3 DEF Remains, SavedBy
  <2> QED
    BY <1>0, <2>2, <2>3, <2>4 DEF Moved
<1>5. CASE AccrueRecord(a)
  <2>1. job[a].pc \in AtPosition /\ hour' = hour /\ NextPosition(a) /\ RowsStay(job[a].cur)
    BY <1>5 DEF AccrueRecord, AtPosition, RowsStay
  <2> QED
    BY <1>0, <2>1, TurnsMoved
<1>6. CASE EndJob(a)
  BY <1>0, <1>6, EndingMoved
<1> QED
  BY <1>1, <1>2, <1>3, <1>4, <1>5, <1>6 DEF Accrue

LEMMA JobSteps ==
  ASSUME Base, [Next]_vars
  PROVE  Quiet \/ \E j \in Jobs : Moved(j)
<1>1. ASSUME NEW p \in Positions, OpenCheck(p) \/ OpenCommit(p) PROVE Quiet
  BY <1>1 DEF OpenCheck, OpenCommit, Nothing, Opened, Quiet
<1>2. ASSUME NEW p \in Positions, NEW px \in world.prices, Close(p, px) PROVE Quiet
  <2>1. Ended /\ world.closing
    BY <1>2, CloseStep DEF Ended
  <2> QED
    BY <1>2, <2>1 DEF Close, Quiet
<1>3. CASE UNCHANGED vars \/ UpdatePair \/ HourPasses \/ (\E px \in world.prices : SetPrice(px))
  BY <1>3, WorldBase DEF Nothing, Quiet
<1> QED
  BY <1>1, <1>2, <1>3, SweepMoved, AccrueMoved, EndingMoved, InJobs, SMTT(30) DEF Next

-----------------------------------------------------------------------------
(* The accounts.                                                           *)

\* A job that does not move, while the rows it may save do not change.
LEMMA AloneKept ==
  ASSUME Base, Base', NEW k \in Jobs, Alone(k), job'[k] = job[k], hour <= hour',
         \A p \in Pending(k) : rows'[p] = rows[p]
  PROVE  Alone(k)'
<1>1. Pending(k)' = Pending(k) /\ Pending(k) \subseteq Positions /\ job[k].snap \in [Positions -> Row]
  BY JobKnown DEF Pending
<1>2. hour \in Nat /\ hour' \in Nat
  BY Types DEF Base, TypeOK
<1>3. \A p \in Positions : job[k].snap[p].notified \in 0..MaxHour
  BY <1>1, RowType
<1> QED
  BY <1>1, <1>2, <1>3 DEF Alone

LEMMA AloneMoved ==
  ASSUME Base, Writer, OneWriter, NEW j \in Jobs, Moved(j)
  PROVE  Alone(j)'
<1>0. /\ Alone(j) /\ JobOK(j) /\ job[j].snap \in [Positions -> Row]
      /\ Pending(j) \subseteq Positions /\ job[j].todo \subseteq Pending(j)
      /\ job[j].cur \notin job[j].todo /\ None \notin Positions
  BY JobKnown, JobsAssumption DEF Writer, JobOK, Pending
<1>1. \A p \in job[j].todo : rows[p].status \in Live /\ job[j].snap[p].notified = rows[p].notified
  BY <1>0 DEF Alone
<1>2. CASE Turns(j) /\ job[j].cur \in Positions
  <2>1. Pending(j)' = job[j].todo
    BY <1>0, <1>2 DEF Turns, Pending
  <2>2. \A p \in job[j].todo : rows'[p] = rows[p]
    BY <1>0, <1>2 DEF Turns, RowsStay
  <2> QED
    BY <1>0, <1>1, <1>2, <2>1, <2>2 DEF Alone, Turns
<1>3. ASSUME NEW p \in Positions, Remains(j, p) PROVE Alone(j)'
  <2>1. Pending(j)' = job[j].todo \cup {p} /\ p \in Pending(j) /\ p \notin job[j].todo
    BY <1>0, <1>3, SMTT(30) DEF Remains, Pending
  <2>2. \A q \in job[j].todo : rows'[q] = rows[q]
    BY <1>0, <1>3, <2>1 DEF Remains, RowsStay, SavedBy
  <2>3. rows[p].status \in Live /\ job[j].snap[p].notified = rows[p].notified
    BY <1>0, <1>3, <2>1, SMTT(30) DEF Alone, Remains
  <2>4. rows'[p].notified = rows[p].notified
    BY <1>3, <2>3, SMTT(30) DEF Remains, SavedBy
  <2>5. job'[j].pc # "notify" /\ (job'[j].pc = "cover" \/ rows'[p].status \in Live)
    BY <1>3, <2>3 DEF Remains, SavedBy
  <2> QED
    BY <1>1, <1>3, <2>1, <2>2, <2>3, <2>4, <2>5 DEF Alone, Remains
<1>4. ASSUME NEW p \in Positions, NEW e \in Row, NEW pc \in {"save", "called", "notify", "accrue"},
             Loads(j, p, e, pc)
      PROVE  Alone(j)'
  <2>0. hour' = hour /\ hour \in Nat /\ Told(p)
    BY Types DEF Base, Moved, Writer
  <2>1. Pending(j)' = (job[j].todo \ {p}) \cup {p} /\ p \in Pending(j)
    BY <1>4 DEF Loads, Pending
  <2>2. rows[p].status \in Live /\ job[j].snap[p].notified = rows[p].notified
    BY <1>0, <1>4, <2>1 DEF Alone, Loads
  <2>3. \A q \in job[j].todo \ {p} : job'[j].snap[q] = job[j].snap[q]
    BY <1>0, <1>4 DEF Loads
  <2>4. job'[j].snap[p] = e /\ job'[j].pc = pc /\ job'[j].cur = p /\ rows' = rows
    BY <1>0, <1>4 DEF Loads
  <2>5. CASE pc # "notify"
    <3>1. e.notified = rows[p].notified
      BY <1>4, <2>2, <2>5 DEF Loads
    <3> QED
      BY <1>1, <2>1, <2>2, <2>3, <2>4, <2>5, <3>1 DEF Alone
  <2>6. CASE pc = "notify"
    <3>1. e.notified = hour /\ rows[p].notified # hour /\ "notified" \in Changed(e, p)
      BY <1>4, <2>2, <2>6 DEF Loads, Changed
    <3>2. rows[p].notified < e.notified /\ e.notified <= hour'
      BY <2>0, <3>1, SeenType DEF Told
    <3>3. "notified" \in job'[j].cols
      BY <1>4, <3>1 DEF Loads
    <3> QED
      BY <1>1, <2>1, <2>2, <2>3, <2>4, <2>6, <3>2, <3>3 DEF Alone
  <2> QED
    BY <2>5, <2>6
<1>5. CASE Reads(j)
  <2>1. Pending(j)' = OpenPositions
    BY <1>0, <1>5 DEF Reads, Pending
  <2> QED
    BY <1>0, <1>5, <2>1 DEF Alone, Reads, OpenPositions, IsLive
<1>6. CASE Skips(j)
  <2>1. Pending(j)' \subseteq job[j].todo
    BY <1>0, <1>6 DEF Skips, Pending
  <2> QED
    BY <1>1, <1>6, <2>1 DEF Alone, Skips
<1>7. CASE Stops(j)
  <2>1. Pending(j)' = {}
    BY <1>0, <1>7 DEF Stops, Pending
  <2> QED
    BY <2>1 DEF Alone
<1> QED
  BY <1>2, <1>3, <1>4, <1>5, <1>6, <1>7 DEF Moved

LEMMA AloneNext ==
  ASSUME Base, Base', Writer, OneWriter, [Next]_vars, NEW k \in Jobs
  PROVE  Alone(k)'
<1>0. Alone(k) /\ hour <= hour' /\ Pending(k) \subseteq Positions /\ JobOK(k)
  BY HourGrows, JobKnown DEF Writer
<1>1. CASE Quiet
  <2>1. CASE Nothing
    BY <1>0, <1>1, <2>1, AloneKept DEF Quiet, Nothing
  <2>2. CASE Opened
    <3>1. PICK p \in Positions : OpenCommit(p) /\ (rows' # rows \/ account' # account)
      BY <2>2 DEF Opened, Nothing
    <3>2. rows[p].status = "none" /\ RowsStay(p)
      <4>1. rows[p] = NoRow /\ RowsStay(p)
        BY <3>1, OpenCommitStep, Zenon
      <4> QED
        BY <4>1 DEF NoRow
    <3>3. \A q \in Pending(k) : rows'[q] = rows[q]
      BY <1>0, <3>2 DEF JobOK, RowsStay
    <3> QED
      BY <1>0, <1>1, <3>3, AloneKept DEF Quiet
  <2>3. CASE world.closing /\ Ended
    <3>1. k \notin world.jobs
      BY <2>3, OnlyWriter
    <3>2. job'[k].todo = {} /\ job'[k].cur = None
      BY <1>0, <1>1, <3>1 DEF JobOK, Quiet
    <3>3. Pending(k)' = {}
      BY <3>2, JobsAssumption DEF Pending
    <3> QED
      BY <3>3 DEF Alone
  <2> QED
    BY <1>1, <2>1, <2>2, <2>3 DEF Quiet
<1>2. ASSUME NEW j \in Jobs, Moved(j) PROVE Alone(k)'
  <2>1. CASE k = j
    BY <1>2, <2>1, AloneMoved
  <2>2. CASE k # j
    <3>1. Pending(k) = {} /\ job'[k] = job[k]
      BY <1>2, <2>2, OnlyWriter DEF Moved, JobsStay
    <3>2. Pending(k)' = {}
      BY <3>1 DEF Pending
    <3> QED
      BY <3>2 DEF Alone
  <2> QED
    BY <2>1, <2>2
<1> QED
  BY <1>1, <1>2, JobSteps

LEMMA WriterNext ==
  ASSUME Base, Base', Writer, [Next]_vars
  PROVE  Writer'
<1> SUFFICES ASSUME OneWriter'
             PROVE  /\ \A j \in Jobs : Alone(j)'
                    /\ \A p \in Positions : Told(p)'
                    /\ LockedIsCollateral' /\ Solvent'
  BY DEF Writer
<1>1. OneWriter /\ world' = world
  BY WorldStays DEF OneWriter
<1>2. LockedIsCollateral' /\ Solvent'
  BY <1>1, MoneyNext DEF LockedIsCollateral, Solvent
<1> QED
  BY <1>1, <1>2, AloneNext, ToldNext

LEMMA AccountsInit == Init => NoStrandedCollateral /\ Writer
<1> SUFFICES ASSUME Init PROVE NoStrandedCollateral /\ Writer
  OBVIOUS
<1>1. \A u \in Users : /\ account[u].locked = 0 /\ account[u].balance \in Nat
  BY RowsAssumption DEF Init
<1>2. \A u \in Users : OpenCollateral(u) = 0
  <2> SUFFICES ASSUME NEW u \in Users PROVE OpenCollateral(u) = 0
    OBVIOUS
  <2> DEFINE f == Collateral(u)
  <2>1. \A p \in Positions : f[p] = 0
    BY DEF Init, Collateral, NoRow, Live
  <2> HIDE DEF f
  <2>2. SumFunctionOnSet(f, Positions) = 0
    BY <2>1, RowsAssumption, SumZero
  <2> QED
    BY <2>2 DEF f, OpenCollateral
<1>3. ASSUME NEW j \in Jobs PROVE Alone(j)
  <2>1. job[j].todo = {} /\ job[j].cur = None
    BY DEF Init, Idle
  <2>2. Pending(j) = {}
    BY <2>1, JobsAssumption DEF Pending
  <2> QED
    BY <2>2 DEF Alone
<1>4. ASSUME NEW p \in Positions PROVE Told(p)
  <2>1. rows[p].notified = 0 /\ hour = 1
    BY DEF Init, NoRow
  <2>2. seen[p].settled = 0 /\ \A h \in 1..MaxHour : seen[p].calls[h] = 0
    BY DEF Init
  <2> QED
    BY <2>1, <2>2 DEF Told
<1> QED
  BY <1>1, <1>2, <1>3, <1>4 DEF NoStrandedCollateral, Writer, LockedIsCollateral, Solvent

\* Whatever requests, closings, sweeps, interest runs, failures and crashes do in
\* whatever order, a user's locked balance covers open positions only; and as
\* long as one writer ends positions it is exactly their collateral, a position
\* is settled once, no balance becomes negative through a liquidation, and an owner
\* hears of a margin call once an hour.
THEOREM AccountsAlwaysSettle == Spec => []AccountsSettle
<1> DEFINE Inv == Base /\ NoStrandedCollateral /\ Writer
<1>1. Init => Inv
  BY BaseInit, AccountsInit
<1>2. Inv /\ [Next]_vars => Inv'
  BY BaseNext, StrandedNext, WriterNext
<1>3. Inv => AccountsSettle
  <2> SUFFICES ASSUME Inv PROVE AccountsSettle
    OBVIOUS
  <2>1. LockedIsCollateral
    BY DEF Writer, LockedIsCollateral
  <2>2. SettledOnce /\ OneCallPerHour
    BY DEF Writer, Told, SettledOnce, OneCallPerHour
  <2>3. LossLimited
    BY AccountType, Types DEF Base, Writer, Solvent, LossLimited
  <2> QED
    BY <2>1, <2>2, <2>3 DEF AccountsSettle
<1> QED
  BY <1>1, <1>2, <1>3, PTL DEF Spec

-----------------------------------------------------------------------------
(* Liquidations.                                                           *)

LEMMA RowInterest ==
  ASSUME Base, NEW p \in Positions
  PROVE  /\ rows[p].interest \in Nat /\ DailyInterest(p) \in Nat
         /\ \A j \in Jobs : job[j].snap[p].interest \in Nat
<1>1. rows[p] \in Row /\ \A j \in Jobs : job[j].snap[p] \in Row
  BY Types, JobType, SMTT(30) DEF Base
<1> QED
  BY <1>1, RowType, DailyInterestType

\* The job that saves is in this execution, and has p among its entities.
LEMMA SavedPending ==
  ASSUME Base, NEW j \in Jobs, NEW p \in Positions, SavedBy(j, p)
  PROVE  p \in Pending(j) /\ j \in world.jobs
<1>1. job[j].pc \in AtPosition
  BY SMTT(30) DEF SavedBy, AtPosition
<1> QED
  BY <1>1, JobKnown DEF SavedBy, Pending, AtPosition

\* What a save without overlapping runs writes as interest: what the sweep has
\* read, which is no more than the row has, or the interest of the day.
LEMMA SavedInterest ==
  ASSUME Base, Charged, NoOverlap, NEW j \in Jobs, NEW p \in Positions, SavedBy(j, p)
  PROVE  IF j \in Sweeps THEN /\ rows'[p].interest \in {rows[p].interest, job[j].snap[p].interest}
                              /\ job[j].snap[p].interest <= rows[p].interest
         ELSE rows'[p].interest \in {rows[p].interest, DailyInterest(p)}
<1>1. InterestOK(j) /\ p \in Pending(j)
  BY SavedPending DEF Charged
<1> QED
  BY <1>1 DEF InterestOK, SavedBy

LEMMA OneSweep ==
  ASSUME Base, NoOverlap, NEW j \in Jobs, NEW k \in Jobs, j \in world.jobs, k \in world.jobs,
         (j \in Sweeps /\ k \in Sweeps) \/ (j \in Accruals /\ k \in Accruals)
  PROVE  j = k
BY DEF NoOverlap

\* No step takes back interest that a sweep has read.
LEMMA InterestGrows ==
  ASSUME Base, Charged, NoOverlap, [Next]_vars, NEW k \in Sweeps, NEW p \in Pending(k)
  PROVE  job[k].snap[p].interest <= rows'[p].interest
<1>0. /\ k \in Jobs /\ p \in Positions /\ JobOK(k)
  BY InJobs, JobKnown
<1>1. /\ job[k].snap[p].interest <= rows[p].interest /\ rows[p].interest <= DailyInterest(p)
      /\ job[k].snap[p].interest \in Nat /\ rows[p].interest \in Nat /\ DailyInterest(p) \in Nat
  BY <1>0, RowInterest DEF Charged, InterestOK
<1>2. CASE rows'[p].interest = rows[p].interest
  BY <1>1, <1>2
<1>3. CASE Saved
  <2>1. PICK j \in Jobs, q \in Positions : SavedBy(j, q)
    BY <1>3 DEF Saved
  <2>2. CASE p # q
    BY <1>0, <1>2, <2>1, <2>2 DEF SavedBy, RowsStay
  <2>3. CASE p = q /\ j \in Sweeps
    <3>1. j \in world.jobs
      BY <2>1, SavedPending
    <3>2. k \in world.jobs
      BY <1>0, JobsAssumption DEF JobOK, Pending
    <3>3. j = k
      BY <1>0, <2>3, <3>1, <3>2, OneSweep
    <3> QED
      BY <1>1, <2>1, <2>3, <3>3, SavedInterest
  <2>4. CASE p = q /\ j \notin Sweeps
    BY <1>1, <2>1, <2>4, SavedInterest
  <2> QED
    BY <2>2, <2>3, <2>4
<1>4. CASE Ended
  BY <1>0, <1>2, <1>4 DEF Ended, SettleEffect, RowsStay
<1>5. CASE Opened
  <2>1. PICK q \in Positions : OpenCommit(q) /\ (rows' # rows \/ account' # account)
    BY <1>5 DEF Opened, Nothing
  <2>2. rows[q] = NoRow /\ RowsStay(q)
    BY <2>1, OpenCommitStep, Zenon
  <2>3. p # q
    BY <1>0, <2>2 DEF JobOK, NoRow
  <2> QED
    BY <1>0, <1>2, <2>2, <2>3 DEF RowsStay
<1> QED
  BY <1>2, <1>3, <1>4, <1>5, StepKinds DEF Nothing

\* The rows' interest afterwards: at most a day's, and nothing if no interest run
\* had started.
LEMMA InterestBounded ==
  ASSUME Base, Charged, NoOverlap, [Next]_vars, NEW p \in Positions
  PROVE  /\ rows'[p].interest <= DailyInterest(p)
         /\ (\A a \in Accruals : job[a].pc = "idle") => rows'[p].interest = 0
<1>1. /\ rows[p].interest <= DailyInterest(p)
      /\ rows[p].interest \in Nat /\ DailyInterest(p) \in Nat
      /\ (\A a \in Accruals : job[a].pc = "idle") => rows[p].interest = 0
  BY RowInterest DEF Charged, Untouched
<1>2. CASE rows'[p].interest = rows[p].interest
  BY <1>1, <1>2
<1>3. CASE Saved
  <2>1. PICK j \in Jobs, q \in Positions : SavedBy(j, q)
    BY <1>3 DEF Saved
  <2>2. CASE p # q
    BY <1>2, <2>1, <2>2 DEF SavedBy, RowsStay
  <2>3. CASE p = q /\ j \in Sweeps
    <3>1. job[j].snap[p].interest \in Nat
      BY RowInterest
    <3> QED
      BY <1>1, <2>1, <2>3, <3>1, SavedInterest
  <2>4. CASE p = q /\ j \notin Sweeps
    <3>1. j \in Accruals /\ job[j].pc = "accrue"
      BY <2>1, <2>4 DEF SavedBy, Jobs
    <3>2. rows'[p].interest \in {rows[p].interest, DailyInterest(p)}
      BY <2>1, <2>4, SavedInterest
    <3> QED
      BY <1>1, <3>1, <3>2, SMTT(30)
  <2> QED
    BY <2>2, <2>3, <2>4, SMTT(30)
<1>4. CASE Ended
  BY <1>2, <1>4 DEF Ended, SettleEffect, RowsStay
<1>5. CASE Opened
  <2>1. PICK q \in Positions : OpenCommit(q) /\ (rows' # rows \/ account' # account)
    BY <1>5 DEF Opened, Nothing
  <2>2. RowsStay(q) /\ rows'[q].interest = 0
    BY <2>1, OpenCommitStep, Zenon
  <2> QED
    BY <1>1, <1>2, <2>2 DEF RowsStay
<1> QED
  BY <1>2, <1>3, <1>4, <1>5, StepKinds DEF Nothing

\* The entities of a sweep, moved or not.
LEMMA SweepInterest ==
  ASSUME Base, Charged, NoOverlap, [Next]_vars, NEW k \in Sweeps,
         \A p \in Pending(k)' : \/ /\ p \in Pending(k)
                                   /\ job'[k].snap[p].interest = job[k].snap[p].interest
                                \/ job'[k].snap[p].interest = rows'[p].interest,
         Base'
  PROVE  InterestOK(k)'
<1>1. Pending(k)' \subseteq Positions /\ \A p \in Positions : rows'[p].interest \in Nat
  <2>1. job' \in [Jobs -> JobRec] /\ rows' \in [Positions -> Row] /\ k \in Jobs
    BY InJobs DEF Base, TypeOK, JobRec, PCs, Columns
  <2>2. job'[k] \in JobRec
    BY <2>1
  <2>3. \A p \in Positions : rows'[p] \in Row
    BY <2>1
  <2> QED
    BY <2>2, <2>3, RowType DEF Pending, JobRec
<1>2. ASSUME NEW p \in Pending(k)' PROVE job'[k].snap[p].interest <= rows'[p].interest
  <2>1. CASE /\ p \in Pending(k)
             /\ job'[k].snap[p].interest = job[k].snap[p].interest
    BY <2>1, InterestGrows
  <2>2. CASE job'[k].snap[p].interest = rows'[p].interest
    BY <1>1, <2>2
  <2> QED
    BY <2>1, <2>2
<1> QED
  BY <1>2 DEF InterestOK

LEMMA MovedInterest ==
  ASSUME Base, Base', Charged, NoOverlap, [Next]_vars, NEW j \in Jobs, Moved(j)
  PROVE  InterestOK(j)' /\ Decided(j)'
<1>0. /\ InterestOK(j) /\ JobOK(j) /\ job[j].snap \in [Positions -> Row] /\ j \in world.jobs
      /\ Pending(j) \subseteq Positions /\ job[j].todo \subseteq Pending(j)
      /\ job[j].cur \notin job[j].todo /\ None \notin Positions
      /\ (j \in Sweeps \/ j \in Accruals) /\ ~(j \in Sweeps /\ j \in Accruals)
  BY JobKnown, JobsAssumption DEF Charged, JobOK, Pending, Moved, Jobs
<1>1. CASE Turns(j) /\ job[j].cur \in Positions
  <2>1. Pending(j)' = job[j].todo /\ job'[j].snap = job[j].snap /\ job'[j].pc = "next" /\ job'[j].cur = None
    BY <1>0, <1>1 DEF Turns, Pending
  <2>2. CASE j \in Sweeps
    BY <1>0, <2>1, <2>2, SweepInterest DEF Decided
  <2>3. CASE j \in Accruals
    BY <1>0, <2>1, <2>3 DEF InterestOK, Decided
  <2> QED
    BY <1>0, <2>2, <2>3
<1>2. ASSUME NEW p \in Positions, Remains(j, p) PROVE InterestOK(j)' /\ Decided(j)'
  <2>1. Pending(j)' = Pending(j) /\ job'[j].snap = job[j].snap /\ job'[j].cur = job[j].cur
    BY <1>2 DEF Remains, Pending
  <2>2. CASE j \in Sweeps
    <3>1. Decided(j)'
      BY <1>2 DEF Remains, Decided
    <3> QED
      BY <2>1, <2>2, <3>1, SweepInterest
  <2>3. CASE j \in Accruals
    <3>1. job[j].pc = "accrue" /\ job'[j].pc = "record"
      BY <1>0, <1>2, <2>3 DEF Remains
    <3> QED
      BY <1>0, <2>1, <2>3, <3>1 DEF InterestOK, Decided
  <2> QED
    BY <1>0, <2>2, <2>3
<1>3. ASSUME NEW p \in Positions, NEW e \in Row, NEW pc \in {"save", "called", "notify", "accrue"},
             Loads(j, p, e, pc)
      PROVE  InterestOK(j)' /\ Decided(j)'
  <2>1. Pending(j)' = (job[j].todo \ {p}) \cup {p} /\ p \in Pending(j)
    BY <1>3 DEF Loads, Pending
  <2>2. \A q \in job[j].todo \ {p} : job'[j].snap[q] = job[j].snap[q]
    BY <1>0, <1>3 DEF Loads
  <2>3. job'[j].snap[p] = e /\ job'[j].pc = pc /\ job'[j].cur = p
    BY <1>0, <1>3 DEF Loads
  <2>4. Decided(j)'
    BY <2>3 DEF Decided
  <2>5. CASE j \in Sweeps
    <3>1. e.interest = job[j].snap[p].interest
      BY <1>3, <2>5 DEF Loads
    <3>2. \A q \in Pending(j)' : q \in Pending(j) /\ job'[j].snap[q].interest = job[j].snap[q].interest
      BY <1>0, <2>1, <2>2, <2>3, <3>1
    <3> QED
      BY <2>4, <2>5, <3>2, SweepInterest
  <2>6. CASE j \in Accruals
    <3>1. /\ job[j].pc = "load" /\ p = job[j].cur /\ pc = "accrue"
          /\ e.interest = job[j].snap[p].interest + DailyInterest(p)
      BY <1>0, <1>3, <2>6 DEF Loads
    <3>2. job[j].snap[p].interest = 0 /\ \A q \in job[j].todo : job[j].snap[q].interest = 0
      BY <1>0, <2>1, <2>6, <3>1 DEF InterestOK
    <3>3. e.interest = DailyInterest(p)
      BY <3>1, <3>2, DailyInterestType
    <3>4. \A q \in job[j].todo \ {p} : job'[j].snap[q].interest = 0
      BY <2>2, <3>2
    <3> QED
      BY <1>0, <2>1, <2>3, <2>4, <2>6, <3>1, <3>3, <3>4 DEF InterestOK
  <2> QED
    BY <1>0, <2>5, <2>6
<1>4. CASE Reads(j)
  <2>1. /\ Pending(j)' \subseteq Positions /\ job'[j].snap = rows /\ rows' = rows
        /\ job'[j].pc # "liquidate" /\ job'[j].pc \notin {"accrue", "record"}
    BY <1>0, <1>4 DEF Reads, Pending, OpenPositions
  <2>2. CASE j \in Sweeps
    BY <2>1, <2>2, SweepInterest DEF Decided
  <2>3. CASE j \in Accruals
    <3>1. ASSUME NEW a \in Accruals PROVE job[a].pc = "idle"
      <4>1. CASE a = j
        BY <1>4, <4>1 DEF Reads
      <4>2. CASE a # j
        <5>1. a \in Jobs /\ a \notin world.jobs
          BY <1>0, <2>3, <4>2, OneSweep, InJobs
        <5> QED
          BY <5>1, JobKnown
      <4> QED
        BY <4>1, <4>2
    <3>2. \A p \in Positions : rows[p].interest = 0
      BY <3>1 DEF Charged, Untouched
    <3> QED
      BY <1>0, <2>1, <2>3, <3>2 DEF InterestOK, Decided
  <2> QED
    BY <1>0, <2>2, <2>3
<1>5. CASE Skips(j)
  <2>1. /\ Pending(j)' \subseteq job[j].todo /\ job'[j].snap = job[j].snap
        /\ job'[j].pc \in {"next", "load"}
    BY <1>0, <1>5 DEF Skips, Pending
  <2>2. CASE j \in Sweeps
    BY <1>0, <2>1, <2>2, SweepInterest DEF Decided
  <2>3. CASE j \in Accruals
    BY <1>0, <2>1, <2>3 DEF InterestOK, Decided
  <2> QED
    BY <1>0, <2>2, <2>3
<1>6. CASE Stops(j)
  <2>1. Pending(j)' = {} /\ job'[j].pc # "liquidate"
    BY <1>0, <1>6 DEF Stops, Pending
  <2> QED
    BY <2>1 DEF InterestOK, Decided
<1> QED
  BY <1>1, <1>2, <1>3, <1>4, <1>5, <1>6 DEF Moved

\* A job that does not move.
LEMMA UnmovedInterest ==
  ASSUME Base, Base', Charged, NoOverlap, [Next]_vars, NEW k \in Jobs, job'[k] = job[k]
  PROVE  InterestOK(k)' /\ Decided(k)'
<1>0. InterestOK(k) /\ Decided(k) /\ Pending(k)' = Pending(k)
  BY DEF Charged, Pending
<1>1. Decided(k)'
  BY <1>0 DEF Decided
<1>2. CASE k \in Sweeps
  BY <1>0, <1>1, <1>2, SweepInterest
<1>3. CASE k \notin Sweeps
  BY <1>0, <1>1, <1>3 DEF InterestOK
<1> QED
  BY <1>2, <1>3

LEMMA ChargedNext ==
  ASSUME Base, Base', Charged, [Next]_vars
  PROVE  Charged'
<1> SUFFICES ASSUME NoOverlap'
             PROVE  /\ \A k \in Jobs : InterestOK(k)' /\ Decided(k)'
                    /\ \A p \in Positions : rows'[p].interest <= DailyInterest(p)
                    /\ Untouched'
  BY DEF Charged
<1>0. NoOverlap
  BY WorldStays DEF NoOverlap
<1>1. ASSUME NEW k \in Jobs PROVE InterestOK(k)' /\ Decided(k)'
  <2>1. CASE job'[k] = job[k]
    BY <1>0, <2>1, UnmovedInterest
  <2>2. CASE Moved(k)
    BY <1>0, <2>2, MovedInterest
  <2> QED
    BY <2>1, <2>2, JobSteps DEF Quiet, Moved, JobsStay
<1>2. \A p \in Positions : rows'[p].interest <= DailyInterest(p)
  BY <1>0, InterestBounded
<1>3. Untouched'
  <2> SUFFICES ASSUME \A a \in Accruals : job'[a].pc = "idle"
               PROVE  \A p \in Positions : rows'[p].interest = 0
    BY DEF Untouched
  <2>1. ASSUME NEW a \in Accruals PROVE job[a].pc = "idle"
    <3>1. a \in Jobs /\ a \notin Sweeps /\ job'[a].pc = "idle"
      BY InJobs, JobsAssumption
    <3>2. ~Moved(a)
      BY <3>1 DEF Moved, Turns, Remains, Loads, Reads, Skips, Stops
    <3> QED
      BY <3>1, <3>2, JobSteps DEF Quiet, Moved, JobsStay
  <2> QED
    BY <1>0, <2>1, InterestBounded
<1> QED
  BY <1>1, <1>2, <1>3

LEMMA ChargedInit == Init => Charged
<1> SUFFICES ASSUME Init PROVE Charged
  OBVIOUS
<1>1. \A p \in Positions : rows[p].interest = 0
  BY DEF Init, NoRow
<1>2. ASSUME NEW j \in Jobs PROVE InterestOK(j) /\ Decided(j)
  <2>1. job[j].todo = {} /\ job[j].cur = None /\ job[j].pc = "idle"
    BY DEF Init, Idle
  <2>2. Pending(j) = {}
    BY <2>1, JobsAssumption DEF Pending
  <2> QED
    BY <2>1, <2>2 DEF InterestOK, Decided
<1> QED
  BY <1>1, <1>2, DailyInterestType DEF Charged, Untouched

\* Interest that a sweep has not read makes a liquidation no less due.
LEMMA EquityFalls ==
  ASSUME NEW p \in Positions, NEW old \in Row, NEW new \in Row, NEW px \in Nat,
         new.entry = old.entry, new.entry # 0, old.interest <= new.interest,
         ShouldLiquidate(p, old, px)
  PROVE  100 * Equity(p, new, px) <= Size(p, new) * px * Pair.maintenanceRate
<1>1. /\ old.entry \in Nat \ {0} /\ new.entry \in Nat \ {0}
      /\ old.interest \in Nat /\ new.interest \in Nat
  BY RowType
<1>2. /\ Equity(p, old, px) \in Int /\ Equity(p, new, px) \in Int /\ Pnl(p, old, px) \in Int
      /\ Dto[p].collateral \in Nat
  BY <1>1, EquityType, DtoType
<1>3. Size(p, new) = Size(p, old) /\ Pnl(p, new, px) = Pnl(p, old, px)
  BY DEF Size, Pnl
<1>4. Equity(p, new, px) <= Equity(p, old, px)
  BY <1>1, <1>2, <1>3 DEF Equity
<1>5. PICK r \in Int : r = Size(p, old) * px * Pair.maintenanceRate
  <2>1. Size(p, old) \in Nat /\ Pair.maintenanceRate \in Nat
    BY <1>1, SizeType, PairType
  <2>2. \A a, b, c \in Nat : a * b * c \in Int
    OBVIOUS
  <2> QED
    BY <2>1, <2>2
<1>6. 100 * Equity(p, old, px) <= r
  BY <1>5 DEF ShouldLiquidate, Requirement
<1>7. 100 * Equity(p, new, px) <= r
  BY <1>2, <1>4, <1>6
<1> QED
  BY <1>3, <1>5, <1>7

\* A position that is open and then liquidated was due at that moment.
LEMMA LiquidatedWasDue ==
  ASSUME Base, Charged, NoOverlap, [Next]_vars, NEW p \in Positions,
         rows[p].status \in Live, rows'[p].status = "LIQUIDATED"
  PROVE  \E s \in Sweeps : /\ Cur(s) = p
                           /\ 100 * Equity(p, rows[p], job[s].px)
                                <= Size(p, rows[p]) * job[s].px * Pair.maintenanceRate
<1>0. "LIQUIDATED" \notin Live /\ rows'[p].status # rows[p].status
  BY DEF Live
<1>1. ~Nothing
  BY <1>0 DEF Nothing
<1>2. ~Saved
  BY <1>0 DEF Saved, SavedBy, RowsStay
<1>3. ~Opened
  <2>1. SUFFICES ASSUME Opened PROVE FALSE
    OBVIOUS
  <2>2. PICK q \in Positions : OpenCommit(q) /\ (rows' # rows \/ account' # account)
    BY <2>1 DEF Opened, Nothing
  <2>3. RowsStay(q) /\ rows'[q].status = "OPEN"
    BY <2>2, OpenCommitStep, Zenon
  <2> QED
    BY <1>0, <2>3 DEF RowsStay
<1>4. PICK s \in Sweeps : job[s].pc = "liquidate" /\ job[s].cur = p
  BY <1>0, <1>1, <1>2, <1>3, StepKinds DEF Ended, SettleEffect, RowsStay
<1>5. s \in Jobs /\ p \in Pending(s) /\ JobOK(s) /\ InterestOK(s) /\ Decided(s)
  BY <1>4, InJobs, JobKnown DEF Pending, Charged
<1>6. PICK old \in Row : old = job[s].snap[p]
  BY <1>5, JobKnown
<1>7. PICK new \in Row : new = rows[p]
  BY Types DEF Base
<1>8. PICK px \in Nat : px = job[s].px
  BY <1>5, JobType, Types DEF Base
<1>9. /\ new.entry = old.entry /\ new.entry # 0 /\ old.interest <= new.interest
      /\ ShouldLiquidate(p, old, px)
  BY <1>4, <1>5, <1>6, <1>7, <1>8 DEF JobOK, InterestOK, Decided, Base, RowsOpened
<1>10. 100 * Equity(p, new, px) <= Size(p, new) * px * Pair.maintenanceRate
  BY <1>9, EquityFalls
<1> QED
  BY <1>4, <1>7, <1>8, <1>10 DEF Cur

\* monitorPositions liquidates a position only if it is due at that very moment, at
\* the price the sweep read, although the decision is taken from an entity read
\* before and liquidatePosition does not take it again: provided that no two
\* sweeps overlap and no two interest runs, however else users, the sweep, the
\* interest run, failures and crashes interleave.
THEOREM LiquidationsJustified == Spec => LiquidationJustified
<1> DEFINE Inv == Base /\ Charged
<1>1. Init => Inv
  BY BaseInit, ChargedInit
<1>2. Inv /\ [Next]_vars => Inv'
  BY BaseNext, ChargedNext
<1>3. Inv /\ [Next]_vars =>
        [NoOverlap => \A p \in Positions :
           rows[p].status \in Live /\ rows'[p].status = "LIQUIDATED" =>
             \E s \in Sweeps : /\ Cur(s) = p
                               /\ 100 * Equity(p, rows[p], job[s].px)
                                    <= Size(p, rows[p]) * job[s].px * Pair.maintenanceRate]_vars
  BY LiquidatedWasDue
<1> QED
  BY <1>1, <1>2, <1>3, PTL DEF Spec, LiquidationJustified
=============================================================================
