------------------------------ MODULE OrderBook ------------------------------
(***************************************************************************)
(* Orders of one asset (src/orders): OrdersService, the matching engine    *)
(* OrderBookService and StopOrderMonitorService, on Postgres at READ       *)
(* COMMITTED.                                                              *)
(*                                                                         *)
(* A matching transaction is a sequence of steps: it begins with the locks *)
(* on its own rows; every round of the matching loop is a SELECT ... FOR   *)
(* UPDATE, which finds and sorts the committed rows, then waits until it   *)
(* has locked all of them and looks at them again (rows that no longer     *)
(* match are dropped, the order stays); then it commits.  Its writes are   *)
(* visible to itself only until then.                                      *)
(***************************************************************************)
EXTENDS Integers, Sequences, FiniteSets, FiniteSetsExt, Functions

CONSTANTS
  Users,
  Orders,      \* requests to place an order, and the rows they create
  Dto,         \* Dto[o]: user, side, type, amount, price, stop, delta (percent)
  Holding,     \* Holding[u]: user_balances.balance of the asset
  Prices,      \* prices the asset may have
  Procs,       \* sessions that run requests
  Sweeps,      \* runs of the stop order sweep, each with a session
  Changes,     \* what ModifyOrderDto may ask for; 0 is a field not given
  Scenarios,   \* executions to look at: the orders placed, the sessions and
               \* sweeps that run, the prices, whether users cancel orders, how
               \* often they modify one and how many transactions fail
  None

Sessions == Procs \cup Sweeps
Stops    == {"STOP_LOSS", "TAKE_PROFIT", "TRAILING_STOP"}
Open     == {"PENDING", "PARTIAL"}

ASSUME DtoAssumption ==
  Dto \in [Orders -> [user : Users, side : {"BUY", "SELL"}, type : Stops \cup {"MARKET", "LIMIT"},
                      amount : Nat \ {0}, price : Nat, stop : Nat, delta : Nat]]
ASSUME DeltaAssumption == \A o \in Orders : Dto[o].type = "TRAILING_STOP" => Dto[o].delta > 0
ASSUME RowsAssumption  == IsFiniteSet(Orders) /\ IsFiniteSet(Sessions)
ASSUME HoldingAssumption == Holding \in [Users -> Nat] /\ Prices \subseteq Nat \ {0}
ASSUME ChangesAssumption ==
  Changes \subseteq [amount : Nat, price : Nat, stop : Nat, delta : Nat]
ASSUME ScenarioAssumption ==
  \A w \in Scenarios :
    w \in [orders : SUBSET Orders, sessions : SUBSET Sessions, prices : SUBSET Prices \ {{}},
          cancelling : BOOLEAN, changes : Nat, faults : Nat]
ASSUME NamesAssumption ==
  Procs \cap Sweeps = {} /\ Orders \cap Users = {} /\ None \notin Orders

VARIABLES
  world,    \* the scenario of this execution; never changes
  price,    \* virtual_assets.price
  book,     \* orders
  locked,   \* user_balances.lockedBalance
  traded,   \* the sum of the amounts in trades
  changes,  \* calls of modifyOrder so far
  tx,       \* the transaction of a session
  sweep,    \* where a sweep of the stop orders is
  failed    \* transactions that failed so far

vars == <<world, price, book, locked, traded, changes, tx, sweep, failed>>

\* cost: filledAmount times averageFillPrice; nan: averageFillPrice is not a
\* number, and never will be again.  at: createdAt.
NoRow == [status |-> "none", amount |-> 0, filled |-> 0, cost |-> 0, nan |-> FALSE, price |-> 0,
          stop |-> 0, delta |-> 0, ref |-> 0, triggered |-> FALSE, at |-> 0]
Idle  == [pc |-> "idle", o |-> None, locks |-> {}, new |-> [o \in Orders |-> NoRow],
          reserve |-> 0, list |-> <<>>, fills |-> 0]
Asleep == [pc |-> "idle", todo |-> {}, snap |-> [o \in Orders |-> NoRow], px |-> 0, o |-> None]

Init ==
  /\ world \in Scenarios
  /\ price \in world.prices
  /\ book = [o \in Orders |-> NoRow]
  /\ locked = [u \in Users |-> 0]
  /\ traded = 0 /\ changes = 0
  /\ tx = [t \in Sessions |-> Idle]
  /\ sweep = [s \in Sweeps |-> Asleep]
  /\ failed = 0

Remaining(row)  == row.amount - row.filled
View(t, o)      == IF o \in tx[t].locks THEN tx[t].new[o] ELSE book[o]
HeldByOther(t, r) == \E x \in Sessions \ {t} : r \in tx[x].locks
Free(r)         == \A x \in Sessions : r \notin tx[x].locks
Starts(t)       == t \in world.sessions /\ tx[t] = Idle
Sells(o)        == Dto[o].side = "SELL"
Owner(o)        == Dto[o].user

Available(u) == Holding[u] - locked[u]

\* createdAt of a new row: the start of its transaction.
Now == 1 + Max({0} \cup {book[o].at : o \in Orders}
                   \cup {tx[t].new[o].at : t \in Sessions, o \in Orders})

\* Session t begins a transaction on order o, whose row becomes row; d is
\* added to the owner's locked balance.
Begin(t, o, row, rows, d, pc) ==
  tx' = [tx EXCEPT ![t] = [Idle EXCEPT !.pc = pc, !.o = o, !.locks = rows,
                                       !.new = [@ EXCEPT ![o] = row], !.reserve = d]]

-----------------------------------------------------------------------------
(* OrdersService.                                                          *)

NewOrder(o) ==
  [NoRow EXCEPT !.status = "PENDING", !.amount = Dto[o].amount, !.at = Now,
     !.price = IF Dto[o].type = "LIMIT" THEN Dto[o].price ELSE 0,
     !.stop  = IF Dto[o].type \in {"STOP_LOSS", "TAKE_PROFIT"} THEN Dto[o].stop ELSE 0,
     !.delta = IF Dto[o].type = "TRAILING_STOP" THEN Dto[o].delta ELSE 0]

\* placeOrder.  Only a SELL order reserves what it may sell.
PlaceOrder(t, o) ==
  /\ o \in world.orders /\ Starts(t) /\ book[o].status = "none" /\ Free(o) /\ Free(Owner(o))
  /\ Sells(o) => Available(Owner(o)) >= Dto[o].amount
  /\ Begin(t, o, NewOrder(o), {o, Owner(o)}, IF Sells(o) THEN Dto[o].amount ELSE 0,
           IF Dto[o].type \in Stops THEN "commit" ELSE "select")
  /\ UNCHANGED <<world, price, book, locked, traded, changes, sweep, failed>>

\* cancelOrder
CancelOrder(o) ==
  /\ world.cancelling /\ book[o].status \notin {"none", "FILLED", "CANCELLED"} /\ Free(o)
  /\ Sells(o) => Free(Owner(o))
  /\ book' = [book EXCEPT ![o].status = "CANCELLED"]
  /\ locked' = IF Sells(o) THEN [locked EXCEPT ![Owner(o)] = Max({0, @ - Remaining(book[o])})] ELSE locked
  /\ UNCHANGED <<world, price, traded, changes, tx, sweep, failed>>

\* The fields given suit the order.
Applies(o, c) ==
  /\ c.amount # 0 => c.amount >= book[o].filled
  /\ c.price # 0 => Dto[o].type = "LIMIT"
  /\ c.stop # 0 => Dto[o].type \in {"STOP_LOSS", "TAKE_PROFIT"}
  /\ c.delta # 0 => Dto[o].type = "TRAILING_STOP"

Changed(row, c) ==
  [row EXCEPT !.amount = IF c.amount # 0 THEN c.amount ELSE @,
              !.price  = IF c.price # 0 THEN c.price ELSE @,
              !.stop   = IF c.stop # 0 THEN c.stop ELSE @,
              !.delta  = IF c.delta # 0 THEN c.delta ELSE @]

\* modifyOrder.  A new amount of a SELL order changes what it reserves.
ModifyOrder(t, o, c) ==
  LET resize == Sells(o) /\ c.amount # 0
      d      == IF resize THEN c.amount - book[o].amount ELSE 0
  IN  /\ Starts(t) /\ changes < world.changes
      /\ book[o].status \in Open /\ Free(o) /\ Applies(o, c)
      /\ resize => Free(Owner(o)) /\ (d > 0 => Available(Owner(o)) >= d)
      /\ Begin(t, o, Changed(book[o], c), {o} \cup IF resize THEN {Owner(o)} ELSE {}, d,
               IF Dto[o].type = "LIMIT" THEN "select" ELSE "commit")
      /\ changes' = changes + 1
      /\ UNCHANGED <<world, price, book, locked, traded, sweep, failed>>

-----------------------------------------------------------------------------
(* OrderBookService.matchTakerOrder.                                       *)

\* Resting order m, as t sees it, can be matched by t's taker.
Matches(t, m) ==
  LET o == tx[t].o
      limit == tx[t].new[o].price
  IN  /\ Dto[m].side # Dto[o].side /\ Dto[m].type = "LIMIT" /\ View(t, m).status \in Open
      /\ Dto[o].type = "LIMIT" =>
           IF Sells(o) THEN View(t, m).price >= limit ELSE View(t, m).price <= limit

\* Price-time priority among the rows that t sees.
Better(t, m, n) ==
  LET p == View(t, m).price q == View(t, n).price
  IN  \/ IF Sells(m) THEN p < q ELSE p > q
      \/ p = q /\ View(t, m).at < View(t, n).at

\* The rows found, best first.
Sorted(t, found) ==
  {list \in [1..Cardinality(found) -> found] :
     /\ Range(list) = found
     /\ \A i, j \in DOMAIN list : i < j => ~Better(t, list[j], list[i])}

\* The SELECT finds the crossable orders, or the loop ends.
Select(t) ==
  LET found == {m \in Orders : Matches(t, m)}
  IN  /\ tx[t].pc = "select"
      /\ IF Remaining(tx[t].new[tx[t].o]) > 0 /\ found # {}
           THEN \E list \in Sorted(t, found) : tx' = [tx EXCEPT ![t].pc = "lock", ![t].list = list]
           ELSE tx' = [tx EXCEPT ![t].pc = "commit"]
      /\ UNCHANGED <<world, price, book, locked, traded, changes, sweep, failed>>

\* Mutant: a filled order stays PARTIAL.
NeverFilled(row, n, px) ==
  [row EXCEPT !.filled = @ + n, !.cost = @ + n * px, !.status = "PARTIAL"]

\* A first fill of zero divides zero by zero.
ApplyFill(row, n, px) ==
  [row EXCEPT !.filled = @ + n, !.cost = @ + n * px, !.nan = @ \/ row.filled + n = 0,
              !.status = IF row.filled + n >= row.amount THEN "FILLED" ELSE "PARTIAL"]

\* Mutant: the row that was found is used as it was, without a second look.
MatchedBefore(t) == DOMAIN tx[t].list

\* The places of the rows found that still match once they are locked.
StillMatching(t) == {i \in DOMAIN tx[t].list : Matches(t, tx[t].list[i])}

\* Mutant: locks are taken without waiting.
NoWait(t) == TRUE

CanLock(t) == \A m \in Range(tx[t].list) : ~HeldByOther(t, m)

\* FOR UPDATE has locked the rows; the first of them is filled at its price
\* and the trade saved.
LockAndFill(t) ==
  LET o     == tx[t].o
      still == StillMatching(t)
      m     == tx[t].list[Min(still)]
      taker == tx[t].new[o]
      maker == View(t, m)
      n     == Min({Remaining(taker), Remaining(maker)})
      held  == [x \in Orders |-> IF x \in Range(tx[t].list) THEN View(t, x) ELSE tx[t].new[x]]
  IN  /\ tx[t].pc = "lock" /\ CanLock(t)
      /\ tx' = [tx EXCEPT ![t] =
                  [tx[t] EXCEPT !.list = <<>>, !.locks = @ \cup Range(tx[t].list),
                                !.pc = IF still = {} THEN "commit" ELSE "select",
                                !.fills = IF still = {} THEN @ ELSE @ + n,
                                !.new = IF still = {} THEN held
                                        ELSE [held EXCEPT ![o] = ApplyFill(taker, n, maker.price),
                                                          ![m] = ApplyFill(maker, n, maker.price)]]]
      /\ UNCHANGED <<world, price, book, locked, traded, changes, sweep, failed>>

\* A sweep goes on with its next order.
NextStop(t) ==
  sweep' = IF t \in Sweeps THEN [sweep EXCEPT ![t].pc = "each", ![t].o = None] ELSE sweep

Commit(t) ==
  /\ tx[t].pc = "commit"
  /\ book' = [o \in Orders |-> View(t, o)]
  /\ locked' = [locked EXCEPT ![Owner(tx[t].o)] = @ + tx[t].reserve]
  /\ traded' = traded + tx[t].fills
  /\ tx' = [tx EXCEPT ![t] = Idle]
  /\ NextStop(t)
  /\ UNCHANGED <<world, price, changes, failed>>

\* Sessions that wait for one another's locks.
Deadlocked(t) ==
  tx[t].pc = "lock" /\ \E S \in SUBSET Sessions :
    /\ t \in S
    /\ \A x \in S : /\ tx[x].pc = "lock"
                    /\ \E y \in S \ {x} : Range(tx[x].list) \cap tx[y].locks # {}

\* A transaction fails, or is chosen to resolve a deadlock, and is rolled back.
Abort(t) ==
  /\ tx[t] # Idle
  /\ \/ Deadlocked(t) /\ UNCHANGED failed
     \/ failed < world.faults /\ failed' = failed + 1
  /\ tx' = [tx EXCEPT ![t] = Idle]
  /\ NextStop(t)
  /\ UNCHANGED <<world, price, book, locked, traded, changes>>

-----------------------------------------------------------------------------
(* StopOrderMonitorService.                                                *)

Dormant(o) == Dto[o].type \in Stops /\ book[o].status = "PENDING"

SweepStart(s) ==
  /\ s \in world.sessions /\ sweep[s].pc = "idle" /\ \E o \in Orders : Dormant(o)
  /\ sweep' = [sweep EXCEPT ![s] = [Asleep EXCEPT !.pc = "price", !.snap = book,
                                                  !.todo = {o \in Orders : Dormant(o)}]]
  /\ UNCHANGED <<world, price, book, locked, traded, changes, tx, failed>>

SweepPrice(s) ==
  /\ sweep[s].pc = "price"
  /\ sweep' = [sweep EXCEPT ![s].pc = "each", ![s].px = price]
  /\ UNCHANGED <<world, price, book, locked, traded, changes, tx, failed>>

IsFixedStopTriggered(o, row, px) ==
  IF (Dto[o].type = "STOP_LOSS") = Sells(o) THEN px <= row.stop ELSE px >= row.stop

\* processTrailingStop: an order without a reference price takes the current
\* one, which then is no better than itself, and so is not saved.
Reference(o, row, px) ==
  LET old   == IF row.ref # 0 THEN row.ref ELSE px
      moved == IF Sells(o) THEN px > old ELSE px < old
  IN  [ref |-> IF moved THEN px ELSE old, moved |-> moved]

IsTriggered(o, row, px) ==
  LET ref == Reference(o, row, px).ref
  IN  IF Dto[o].type # "TRAILING_STOP" THEN IsFixedStopTriggered(o, row, px)
      ELSE IF Sells(o) THEN 100 * px <= ref * (100 - row.delta)
      ELSE 100 * px >= ref * (100 + row.delta)

\* One order of the loop: trigger it, or save a reference price that moved
\* (the whole entity of the sweep, of which status and price may be stale),
\* or leave it.
ProcessStop(s, o) ==
  LET row == sweep[s].snap[o]
      px  == sweep[s].px
      r   == Reference(o, row, px)
      triggered == IsTriggered(o, row, px)
  IN  /\ sweep[s].pc = "each" /\ o \in sweep[s].todo
      /\ IF triggered
           THEN /\ sweep' = [sweep EXCEPT ![s].pc = "trigger", ![s].o = o, ![s].todo = @ \ {o}]
                /\ UNCHANGED book
           ELSE /\ sweep' = [sweep EXCEPT ![s].todo = @ \ {o}]
                /\ IF Dto[o].type = "TRAILING_STOP" /\ r.moved
                     THEN Free(o) /\ book' = [book EXCEPT ![o] = [row EXCEPT !.ref = r.ref]]
                     ELSE UNCHANGED book
      /\ UNCHANGED <<world, price, locked, traded, changes, tx, failed>>

\* Mutant: the order is left TRIGGERED.
LeftTriggered(row) == [row EXCEPT !.triggered = TRUE, !.status = "TRIGGERED"]

Triggered(row) == [row EXCEPT !.triggered = TRUE, !.status = "PENDING"]

\* Mutant: what the sweep has read is not read again.
AsRead(o) == TRUE

StillPending(o) == book[o].status = "PENDING"

\* trigger: the order is read again under a lock, and if it is still PENDING
\* it becomes a taker (TRIGGERED is overwritten in the same transaction).
Trigger(s) ==
  LET o == sweep[s].o
  IN  /\ sweep[s].pc = "trigger" /\ Free(o)
      /\ \/ /\ StillPending(o)
            /\ Begin(s, o, Triggered(book[o]), {o}, 0, "select")
            /\ sweep' = [sweep EXCEPT ![s].pc = "match"]
         \/ ~StillPending(o) /\ NextStop(s) /\ UNCHANGED tx
      /\ UNCHANGED <<world, price, book, locked, traded, changes, failed>>

SweepEnd(s) ==
  /\ sweep[s].pc = "each" /\ sweep[s].todo = {}
  /\ sweep' = [sweep EXCEPT ![s] = Asleep]
  /\ UNCHANGED <<world, price, book, locked, traded, changes, tx, failed>>

SetPrice(px) ==
  /\ price # px /\ price' = px
  /\ UNCHANGED <<world, book, locked, traded, changes, tx, sweep, failed>>

-----------------------------------------------------------------------------

Request(t) ==
  \E o \in Orders : PlaceOrder(t, o) \/ (\E c \in Changes : ModifyOrder(t, o, c))

Step(t) == Select(t) \/ LockAndFill(t) \/ Commit(t)

Sweep(s) ==
  \/ SweepStart(s) \/ SweepPrice(s) \/ (\E o \in Orders : ProcessStop(s, o))
  \/ Trigger(s) \/ SweepEnd(s)

Next ==
  \/ \E t \in Procs : Request(t)
  \/ \E o \in Orders : CancelOrder(o)
  \/ \E t \in Sessions : Step(t) \/ Abort(t)
  \/ \E s \in Sweeps : Sweep(s)
  \/ \E px \in world.prices : SetPrice(px)

Spec == Init /\ [][Next]_vars

\* Statements return, and the database resolves a deadlock by an abort.
FairSpec ==
  Spec /\ \A t \in Sessions : WF_vars(Step(t)) /\ WF_vars(Deadlocked(t) /\ Abort(t))

-----------------------------------------------------------------------------
(* Properties.                                                             *)

Row == [status : Open \cup {"none", "FILLED", "CANCELLED"}, amount : Nat, filled : Nat, cost : Nat,
        nan : BOOLEAN, price : Nat, stop : Nat, delta : Nat, ref : Nat, triggered : BOOLEAN, at : Nat]

\* The rows, transactions and sweeps have their types.
TypeOK ==
  /\ world \in Scenarios
  /\ price \in Prices
  /\ book \in [Orders -> Row]
  /\ locked \in [Users -> Nat]
  /\ traded \in Nat /\ changes \in 0..world.changes
  /\ tx \in [Sessions -> [pc : {"idle", "select", "lock", "commit"}, o : Orders \cup {None},
                          locks : SUBSET (Orders \cup Users), new : [Orders -> Row],
                          reserve : Int, list : Seq(Orders), fills : Nat]]
  /\ sweep \in [Sweeps -> [pc : {"idle", "price", "each", "trigger", "match"}, todo : SUBSET Orders,
                           snap : [Orders -> Row], px : Nat, o : Orders \cup {None}]]
  /\ failed \in 0..world.faults

OnSide(side)   == {o \in Orders : Dto[o].side = side}
OrdersOf(u)    == {o \in Orders : Owner(o) = u}

\* No liquidity is used twice: however many takers run at once, buyers and
\* sellers have been filled the amount that the trades record, no order is
\* filled beyond its size, and as far as the orders' average prices are numbers
\* the same money has changed hands on both sides.
FillsBalance ==
  LET filled == [o \in Orders |-> book[o].filled]
      cost   == [o \in Orders |-> book[o].cost]
  IN  /\ \A side \in {"BUY", "SELL"} : SumFunctionOnSet(filled, OnSide(side)) = traded
      /\ \A o \in Orders : book[o].filled <= book[o].amount
      /\ (\A o \in Orders : ~book[o].nan) =>
           SumFunctionOnSet(cost, OnSide("BUY")) = SumFunctionOnSet(cost, OnSide("SELL"))

\* What a row offers for sale.
Offered(o, row) == IF Sells(o) /\ row.status \in Open THEN Remaining(row) ELSE 0

\* What is still offered for sale is reserved, and no more is reserved than
\* the seller holds, whatever is placed, changed, filled and cancelled.
SellsReserved ==
  \A u \in Users :
    /\ SumFunctionOnSet([o \in Orders |-> Offered(o, book[o])], OrdersOf(u)) <= locked[u]
    /\ locked[u] <= Holding[u]

\* Session t is filling resting order m.
Filling(t, m) == m \in tx'[t].locks /\ m # tx[t].o /\ tx'[t].new[m].filled > View(t, m).filled

\* A fill respects the limits of both orders as they are when it happens,
\* although the taker chose the maker before it had locked it: the maker
\* gets exactly its price, and a limit taker no worse than its own.
FillsWithinLimits ==
  [][\A t \in Sessions, m \in Orders :
       Filling(t, m) =>
         LET o     == tx[t].o
             n     == tx'[t].new[m].filled - View(t, m).filled
             money == tx'[t].new[m].cost - View(t, m).cost
         IN  /\ View(t, m).status \in Open
             /\ money = n * book[m].price
             /\ Dto[o].type = "LIMIT" =>
                  IF Sells(o) THEN money >= n * tx[t].new[o].price
                  ELSE money <= n * tx[t].new[o].price]_vars

\* Every transaction ends, although takers wait for each other's orders.
EveryCallEnds == \A t \in Sessions : tx[t] # Idle ~> tx[t] = Idle

\* Whatever is placed, changed, filled and cancelled at once, amounts add up:
\* those of the fills, and those that sellers have reserved.
AmountsBalance == FillsBalance /\ SellsReserved

\* An order that has been filled or cancelled stays so: neither a taker that
\* waited for it nor a sweep that read it, and decided to trigger it, before it
\* was finished opens it again.
NothingRevived ==
  [][\A o \in Orders : book[o].status \in {"FILLED", "CANCELLED"} => book'[o].status = book[o].status]_vars
=============================================================================
