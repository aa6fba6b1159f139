------------------------------- MODULE Margin -------------------------------
(***************************************************************************)
(* Margin trading (src/margin): positions opened and closed by users in    *)
(* transactions that lock the rows they change, and the two background     *)
(* jobs, the liquidation sweep of every five seconds and the daily         *)
(* interest run, which read all open positions first and save those        *)
(* entities later, one by one, without a lock.                             *)
(*                                                                         *)
(* A transaction takes its row locks before it reads and never waits for a *)
(* second position, so it is one step at its commit.  repository.save is   *)
(* two steps: a SELECT, against which the entity is compared, and an       *)
(* UPDATE of the columns that differ.  unrealizedPnl is written by these   *)
(* saves and read by nobody, and is left out.                              *)
(***************************************************************************)
EXTENDS Integers, FiniteSets, FiniteSetsExt

CONSTANTS
  Users,
  Positions,   \* requests to open a position, and the rows they create
  Dto,         \* Dto[p]: the request
  Deposit,     \* Deposit[u]: the quote asset balance a user starts with
  Pair,        \* the pair's configuration; rates are percentages
  Prices,      \* prices the base asset may have
  Sweeps,      \* overlapping runs of monitorPositions, one per cron tick
  Accruals,    \* runs of accrueDailyInterest
  Date,        \* Date[a]: the day for which run a accrues
  Scenarios,   \* executions to look at: the positions requested, the jobs that
               \* run, whether users close positions themselves, whether the
               \* jobs' statements and processes fail, the prices, the hours
  MaxHour,     \* bound on the hours that pass
  MaxSettled,  \* users do not close a position that was settled so often
  None

Jobs  == Sweeps \cup Accruals
Dates == {Date[a] : a \in Accruals}
Live  == {"OPEN", "MARGIN_CALL"}

ASSUME DtoAssumption ==
  /\ Dto \in [Positions -> [user : Users, side : {"LONG", "SHORT"},
                            collateral : Nat \ {0}, leverage : Nat \ {0},
                            entry : Nat]]
  \* A request may name no entry price (0); sizes are whole numbers.
  /\ \A p \in Positions : \A e \in IF Dto[p].entry = 0 THEN Prices ELSE {Dto[p].entry} :
       (Dto[p].collateral * Dto[p].leverage) % e = 0
ASSUME PairAssumption ==
  Pair \in [maxLeverage : Nat \ {0}, volatility : Nat, factor : Nat,
            initialRate : Nat, maintenanceRate : Nat, callRatio : Nat, interestRate : Nat]
ASSUME PricesAssumption == Prices \subseteq Nat \ {0}
ASSUME RowsAssumption == IsFiniteSet(Positions) /\ Deposit \in [Users -> Nat] /\ MaxHour \in Nat
ASSUME ScenarioAssumption ==
  Scenarios \subseteq [requested : SUBSET Positions, jobs : SUBSET Jobs, closing : BOOLEAN,
                       faulty : BOOLEAN, prices : SUBSET Prices, hours : 1..MaxHour]
ASSUME JobsAssumption   == Sweeps \cap Accruals = {} /\ None \notin Positions

VARIABLES
  world,     \* the scenario of this execution; never changes
  price,     \* virtual_assets.price of the base asset
  enabled,   \* margin_pair_configs.isEnabled
  hour,      \* the clock of the margin call notifications
  request,   \* request[p]: 0, the entry price of an open request under way, -1
  rows,      \* margin_positions
  account,   \* user_balances
  charged,   \* charged[p][d]: rows of margin_interest_accruals
  job,       \* where the background jobs are
  seen       \* what has happened to a position: settlements, margin calls by hour

vars == <<world, price, enabled, hour, request, rows, account, charged, job, seen>>

NoRow == [status |-> "none", entry |-> 0, interest |-> 0, notified |-> 0]
Idle  == [pc |-> "idle", todo |-> {}, snap |-> [p \in Positions |-> NoRow],
          px |-> 0, cur |-> None, cols |-> {}]

Init ==
  /\ world \in Scenarios
  /\ price \in world.prices /\ enabled = TRUE /\ hour = 1
  /\ request = [p \in Positions |-> 0]
  /\ rows = [p \in Positions |-> NoRow]
  /\ account = [u \in Users |-> [balance |-> Deposit[u], locked |-> 0]]
  /\ charged = [p \in Positions |-> [d \in Dates |-> 0]]
  /\ job = [j \in Jobs |-> Idle]
  /\ seen = [p \in Positions |-> [settled |-> 0, calls |-> [h \in 1..MaxHour |-> 0]]]

-----------------------------------------------------------------------------
(* The calculator.  A ratio of the code is a comparison of products here.  *)

Notional(p)    == Dto[p].collateral * Dto[p].leverage
Size(p, row)   == Notional(p) \div row.entry
Borrowed(p)    == Max({0, Notional(p) - Dto[p].collateral})
DailyInterest(p) == (Borrowed(p) * Pair.interestRate) \div 100

EffectiveMaxLeverage ==
  IF Pair.volatility <= 0 \/ Pair.factor <= 0 THEN Pair.maxLeverage
  ELSE Min({Pair.maxLeverage, Max({1, 100 \div (Pair.volatility * Pair.factor)})})

Pnl(p, row, px) == Size(p, row) * (IF Dto[p].side = "LONG" THEN px - row.entry ELSE row.entry - px)

Equity(p, row, px) == Dto[p].collateral + Pnl(p, row, px) - row.interest

\* A hundred times the maintenance requirement.
Requirement(p, row, px) == Size(p, row) * px * Pair.maintenanceRate

\* Mutant: the requirement is compared with the collateral, not the equity.
LiquidateEarly(p, row, px) == 100 * (Equity(p, row, px) - Dto[p].collateral) <= Requirement(p, row, px)

ShouldLiquidate(p, row, px) == 100 * Equity(p, row, px) <= Requirement(p, row, px)

\* A ratio over a requirement of zero is infinite.
ShouldMarginCall(p, row, px) ==
  LET equity == 100 * Equity(p, row, px)
      required == Requirement(p, row, px)
  IN  required > 0 /\ 100 * equity <= required * Pair.callRatio /\ equity > required

-----------------------------------------------------------------------------
(* Requests.                                                               *)

\* openPosition up to its transaction.
OpenCheck(p) ==
  LET entry == IF Dto[p].entry # 0 THEN Dto[p].entry ELSE price
  IN  /\ p \in world.requested /\ request[p] = 0 /\ enabled
      /\ Dto[p].leverage <= EffectiveMaxLeverage
      /\ Pair.initialRate * Dto[p].leverage <= 100
      /\ request' = [request EXCEPT ![p] = entry]
      /\ UNCHANGED <<world, price, enabled, hour, rows, account, charged, job, seen>>

Available(u) == account[u].balance - account[u].locked

\* The transaction of openPosition.
OpenCommit(p) ==
  LET u == Dto[p].user
  IN  /\ request[p] \notin {0, -1}
      /\ request' = [request EXCEPT ![p] = -1]
      /\ \/ /\ Available(u) >= Dto[p].collateral
            /\ account' = [account EXCEPT ![u].locked = @ + Dto[p].collateral]
            /\ rows' = [rows EXCEPT ![p] = [NoRow EXCEPT !.status = "OPEN", !.entry = request[p]]]
         \/ /\ Available(u) < Dto[p].collateral
            /\ UNCHANGED <<rows, account>>
      /\ UNCHANGED <<world, price, enabled, hour, charged, job, seen>>

\* Mutant: the whole notional is released.
SettledNotional(p, equity) ==
  LET a == account[Dto[p].user]
  IN  [balance |-> a.balance + equity - Dto[p].collateral, locked |-> a.locked - Notional(p)]

\* settlePositionBalance: the owner's balance row afterwards.
Settled(p, equity) ==
  LET a == account[Dto[p].user]
  IN  [balance |-> a.balance + equity - Dto[p].collateral,
       locked  |-> Max({0, a.locked - Dto[p].collateral})]

Settle(p, equity, status) ==
  /\ account' = [account EXCEPT ![Dto[p].user] = Settled(p, equity)]
  /\ rows' = [rows EXCEPT ![p].status = status]
  /\ seen' = [seen EXCEPT ![p].settled = @ + 1]

IsLive(p) == rows[p].status \in Live

\* closePosition, at a price that the caller names.
Close(p, px) ==
  /\ world.closing /\ IsLive(p) /\ seen[p].settled < MaxSettled
  /\ Settle(p, Equity(p, rows[p], px), "CLOSED")
  /\ UNCHANGED <<world, price, enabled, hour, request, charged, job>>

\* MarginPairConfigService.update
UpdatePair ==
  /\ enabled' = ~enabled
  /\ UNCHANGED <<world, price, hour, request, rows, account, charged, job, seen>>

SetPrice(px) ==
  /\ price # px /\ price' = px
  /\ UNCHANGED <<world, enabled, hour, request, rows, account, charged, job, seen>>

HourPasses ==
  /\ hour < world.hours /\ hour' = hour + 1
  /\ UNCHANGED <<world, price, enabled, request, rows, account, charged, job, seen>>

-----------------------------------------------------------------------------
(* What both jobs do with the entities they have read.                     *)

Cur(j)    == job[j].cur
Entity(j) == job[j].snap[Cur(j)]

\* The columns of entity e that save finds different in row p.
Changed(e, p) == {c \in {"status", "interest", "notified"} : e[c] # rows[p][c]}

\* The SELECT of save(e) for position p.
Load(j, p, e, pc) ==
  job' = [job EXCEPT ![j].pc = pc, ![j].cur = p, ![j].todo = @ \ {p},
                     ![j].snap[p] = e, ![j].cols = Changed(e, p)]

\* What the UPDATE of columns cols makes of a row.
Updated(row, e, cols) ==
  [row EXCEPT !.status   = IF "status" \in cols THEN e.status ELSE @,
              !.interest = IF "interest" \in cols THEN e.interest ELSE @,
              !.notified = IF "notified" \in cols THEN e.notified ELSE @]

\* The UPDATE of save.
Write(j) == rows' = [rows EXCEPT ![Cur(j)] = Updated(@, Entity(j), job[j].cols)]

Goto(j, pc) == job' = [job EXCEPT ![j].pc = pc, ![j].cols = {}]
NextPosition(j) == job' = [job EXCEPT ![j].pc = "next", ![j].cur = None, ![j].cols = {}]

\* Mutant: positions in margin call are not read.
NotCalledPositions == {p \in Positions : rows[p].status = "OPEN"}

\* getOpenPositions
OpenPositions == {p \in Positions : IsLive(p)}

\* A job reads its positions, which are then evaluated in no particular order.
Snapshot(j, pc) ==
  /\ j \in world.jobs /\ job[j] = Idle /\ OpenPositions # {}
  /\ job' = [job EXCEPT ![j].pc = pc, ![j].todo = OpenPositions, ![j].snap = rows]
  /\ UNCHANGED <<world, price, enabled, hour, request, rows, account, charged, seen>>

\* A sweep is over, or a day's accruals, for which the cron fires once.
Over(j) == IF j \in Sweeps THEN Idle ELSE [Idle EXCEPT !.pc = "done"]

\* The loop over the positions ends.
EndJob(j) ==
  /\ job[j].pc = "next" /\ job[j].todo = {}
  /\ job' = [job EXCEPT ![j] = Over(j)]
  /\ UNCHANGED <<world, price, enabled, hour, request, rows, account, charged, seen>>

\* A statement fails, and the loop logs it and goes on.
Fault(j) ==
  /\ world.faulty /\ Cur(j) # None /\ NextPosition(j)
  /\ UNCHANGED <<world, price, enabled, hour, request, rows, account, charged, seen>>

\* The process that runs the job dies.
Crash(j) ==
  /\ world.faulty /\ job[j].pc \notin {"idle", "done"}
  /\ job' = [job EXCEPT ![j] = Over(j)]
  /\ UNCHANGED <<world, price, enabled, hour, request, rows, account, charged, seen>>

-----------------------------------------------------------------------------
(* monitorPositions.                                                       *)

SweepStart(s) == Snapshot(s, "prices")

SweepPrices(s) ==
  /\ job[s].pc = "prices"
  /\ job' = [job EXCEPT ![s].pc = "next", ![s].px = price]
  /\ UNCHANGED <<world, price, enabled, hour, request, rows, account, charged, seen>>

\* evaluatePosition first saves the entity, with the status it was read with.
Evaluate(s, p) ==
  /\ job[s].pc = "next" /\ p \in job[s].todo
  /\ Load(s, p, job[s].snap[p], "save")
  /\ UNCHANGED <<world, price, enabled, hour, request, rows, account, charged, seen>>

SavePnl(s) ==
  /\ job[s].pc = "save" /\ Write(s)
  /\ LET p == Cur(s) e == Entity(s) px == job[s].px
     IN  IF ShouldLiquidate(p, e, px) THEN Goto(s, "liquidate")
         ELSE IF ShouldMarginCall(p, e, px) THEN Goto(s, "call")
         ELSE IF e.status = "MARGIN_CALL" THEN Goto(s, "recover")
         ELSE NextPosition(s)
  /\ UNCHANGED <<world, price, enabled, hour, request, account, charged, seen>>

\* What a liquidated position pays out.
Payout(equity) == Max({0, equity})

\* liquidate: liquidatePosition, in its transaction, and coverShortfall if
\* the equity was negative.
Liquidate(s) ==
  LET p == Cur(s)
      equity == Equity(p, rows[p], job[s].px)
  IN  /\ job[s].pc = "liquidate"
      /\ \/ /\ IsLive(p)
            /\ Settle(p, Payout(equity), "LIQUIDATED")
            /\ IF equity < 0 THEN Goto(s, "cover") ELSE NextPosition(s)
         \/ ~IsLive(p) /\ NextPosition(s) /\ UNCHANGED <<rows, account, seen>>
      /\ UNCHANGED <<world, price, enabled, hour, request, charged>>

\* coverShortfall (module InsuranceFund) returns or throws; a throw is logged.
Cover(s) ==
  /\ job[s].pc = "cover" /\ NextPosition(s)
  /\ UNCHANGED <<world, price, enabled, hour, request, rows, account, charged, seen>>

\* Mutant: a notification is recent only while the position is in margin call.
RecentWhileCalled(e) == e.status = "MARGIN_CALL" /\ e.notified = hour

\* recentlyNotified: less than an hour ago.
Recently(e) == e.notified = hour

\* triggerMarginCall, up to the SELECT of its save.
MarginCall(s) ==
  LET e == Entity(s)
  IN  /\ job[s].pc = "call"
      /\ IF Recently(e)
           THEN Load(s, Cur(s), [e EXCEPT !.status = "MARGIN_CALL"], "called")
           ELSE Load(s, Cur(s), [e EXCEPT !.status = "MARGIN_CALL", !.notified = hour], "notify")
      /\ UNCHANGED <<world, price, enabled, hour, request, rows, account, charged, seen>>

\* The UPDATE of that save, and the margin.call event unless it is recent.
SaveMarginCall(s) ==
  /\ job[s].pc \in {"notify", "called"}
  /\ Write(s) /\ NextPosition(s)
  /\ seen' = IF job[s].pc = "notify"
               THEN [seen EXCEPT ![Cur(s)].calls[Entity(s).notified] = @ + 1] ELSE seen
  /\ UNCHANGED <<world, price, enabled, hour, request, account, charged>>

\* The position has recovered: its status is OPEN again.
Recover(s) ==
  /\ job[s].pc = "recover"
  /\ Load(s, Cur(s), [Entity(s) EXCEPT !.status = "OPEN"], "called")
  /\ UNCHANGED <<world, price, enabled, hour, request, rows, account, charged, seen>>

-----------------------------------------------------------------------------
(* accrueDailyInterest.                                                    *)

AccrueStart(a) == Snapshot(a, "next")

AlreadyAccrued(a, p) == charged[p][Date[a]] > 0

\* Nothing is borrowed, or the day's interest is already recorded.
AccrueNext(a, p) ==
  /\ job[a].pc = "next" /\ p \in job[a].todo
  /\ job' = IF Borrowed(p) <= 0 \/ AlreadyAccrued(a, p)
              THEN [job EXCEPT ![a].todo = @ \ {p}]
              ELSE [job EXCEPT ![a].pc = "load", ![a].cur = p, ![a].todo = @ \ {p}]
  /\ UNCHANGED <<world, price, enabled, hour, request, rows, account, charged, seen>>

\* accrueForPosition adds to the interest it has read, and saves.
AccrueLoad(a) ==
  /\ job[a].pc = "load"
  /\ Load(a, Cur(a), [Entity(a) EXCEPT !.interest = @ + DailyInterest(Cur(a))], "accrue")
  /\ UNCHANGED <<world, price, enabled, hour, request, rows, account, charged, seen>>

AccrueSave(a) ==
  /\ job[a].pc = "accrue" /\ Write(a) /\ Goto(a, "record")
  /\ UNCHANGED <<world, price, enabled, hour, request, account, charged, seen>>

AccrueRecord(a) ==
  /\ job[a].pc = "record" /\ NextPosition(a)
  /\ charged' = [charged EXCEPT ![Cur(a)][Date[a]] = Min({2, @ + 1})]
  /\ UNCHANGED <<world, price, enabled, hour, request, rows, account, seen>>

-----------------------------------------------------------------------------

Sweep(s) ==
  \/ SweepStart(s) \/ SweepPrices(s) \/ (\E p \in Positions : Evaluate(s, p)) \/ SavePnl(s)
  \/ Liquidate(s) \/ Cover(s) \/ MarginCall(s) \/ SaveMarginCall(s) \/ Recover(s) \/ EndJob(s)

Accrue(a) ==
  \/ AccrueStart(a) \/ (\E p \in Positions : AccrueNext(a, p))
  \/ AccrueLoad(a) \/ AccrueSave(a) \/ AccrueRecord(a) \/ EndJob(a)

Next ==
  \/ \E p \in Positions : OpenCheck(p) \/ OpenCommit(p) \/ (\E px \in world.prices : Close(p, px))
  \/ UpdatePair \/ HourPasses \/ (\E px \in world.prices : SetPrice(px))
  \/ \E s \in Sweeps : Sweep(s)
  \/ \E a \in Accruals : Accrue(a)
  \/ \E j \in Jobs : Fault(j) \/ Crash(j)

Spec == Init /\ [][Next]_vars

\* The cron starts a sweep every five seconds and the statements of a sweep
\* return.
FairSpec == Spec /\ \A s \in Sweeps : WF_vars(Sweep(s))

-----------------------------------------------------------------------------
(* Properties.                                                             *)

Row == [status : Live \cup {"none", "CLOSED", "LIQUIDATED"}, entry : Nat,
        interest : Nat, notified : 0..MaxHour]

\* The rows, accounts and jobs have their types, and no account's locked
\* balance is negative.
TypeOK ==
  /\ world \in Scenarios
  /\ price \in Prices /\ enabled \in BOOLEAN /\ hour \in 1..MaxHour
  /\ request \in [Positions -> Nat \cup {-1}]
  /\ rows \in [Positions -> Row]
  /\ account \in [Users -> [balance : Int, locked : Nat]]
  /\ charged \in [Positions -> [Dates -> 0..2]]
  /\ job \in [Jobs -> [pc : {"idle", "done", "prices", "next", "save", "liquidate", "cover", "call",
                             "notify", "called", "recover", "load", "accrue", "record"},
                       todo : SUBSET Positions, snap : [Positions -> Row], px : Nat,
                       cur : Positions \cup {None},
                       cols : SUBSET {"status", "interest", "notified"}]]
  /\ seen \in [Positions -> [settled : Nat, calls : [1..MaxHour -> Nat]]]

\* What a position of u that is open puts up.
Collateral(u) == [p \in Positions |->
  IF rows[p].status \in Live /\ Dto[p].user = u THEN Dto[p].collateral ELSE 0]

\* The collateral of the positions of u that are open.
OpenCollateral(u) == SumFunctionOnSet(Collateral(u), Positions)

\* Positions are ended and saved by the users' transactions alone, or by one
\* background job alone.
OneWriter == world.jobs = {} \/ (~world.closing /\ \E j \in Jobs : world.jobs = {j})

\* With one writer a user's locked balance is the collateral of the user's open
\* positions, however requests, closings, sweeps and failures interleave.
LockedIsCollateral == OneWriter => \A u \in Users : account[u].locked = OpenCollateral(u)

\* Collateral never stays locked for a position that has ended: whatever the
\* jobs write back, a user with no open position has nothing locked.
NoStrandedCollateral == \A u \in Users : account[u].locked <= OpenCollateral(u)

\* With one writer a position is settled at most once: closePosition and
\* liquidatePosition refuse a position that is not open, and a sweep saves no
\* position back that has ended.
SettledOnce == OneWriter => \A p \in Positions : seen[p].settled <= 1

\* While only a sweep ends positions, a user loses no more than the collateral
\* put up: liquidatePosition pays out at least zero.
LossLimited == OneWriter /\ ~world.closing => \A u \in Users : account[u].balance >= 0

\* No two sweeps overlap, and no two interest runs.
NoOverlap == /\ \A s, t \in Sweeps \cap world.jobs : s = t
             /\ \A a, b \in Accruals \cap world.jobs : a = b

\* A sweep liquidates a position only if the equity which the position has
\* at that moment, at the sweep's price, does not exceed the maintenance
\* requirement, although it decided from an entity it had read before and
\* liquidatePosition does not look again.  An interest run may charge the
\* position meanwhile; a second sweep could take the interest back.
LiquidationJustified ==
  [][NoOverlap => \A p \in Positions :
       rows[p].status \in Live /\ rows'[p].status = "LIQUIDATED" =>
         \E s \in Sweeps : /\ Cur(s) = p
                           /\ 100 * Equity(p, rows[p], job[s].px)
                                <= Size(p, rows[p]) * job[s].px * Pair.maintenanceRate]_vars

\* The owner of a position hears of a margin call at most once an hour,
\* however often the position recovers and falls back and wherever the
\* sweeps fail, as long as they are all that saves it.
OneCallPerHour == OneWriter => \A p \in Positions, h \in 1..MaxHour : seen[p].calls[h] <= 1

Due(p) == rows[p].status \in Live /\ ShouldLiquidate(p, rows[p], price)

\* A position that is due for liquidation does not stay so: sweeps keep
\* coming, and one of them ends it unless the price recovers, although users
\* and the interest run change it under them.
DueIsLiquidated ==
  world.jobs \cap Sweeps # {} /\ ~world.faulty => \A p \in Positions : []<>~Due(p)

\* What is locked, settled, lost and announced, however requests, closings,
\* sweeps and failures interleave: collateral is locked for open positions
\* only, and as long as one writer ends them all of it is, a position is
\* settled once, costs no more than its collateral, and its owner hears of it
\* once an hour.
AccountsSettle ==
  LockedIsCollateral /\ NoStrandedCollateral /\ SettledOnce /\ LossLimited /\ OneCallPerHour
=============================================================================
