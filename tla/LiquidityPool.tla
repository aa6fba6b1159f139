--------------------------- MODULE LiquidityPool ---------------------------
(* One constant-product pool and the requests on it (src/exchange). Every   *)
(* handler reads the pool and the positions it needs, computes on these     *)
(* entities and saves them one after the other, without a transaction.      *)
(* Amounts are integers, the last digit of the decimal(18,8) columns, which *)
(* round what the handlers compute to the nearest. No code changes a pool's *)
(* status, which stays ACTIVE, and emergencyWithdraw asks for none.         *)
EXTENDS Integers, FiniteSets, Functions

CONSTANTS
  Users, Calls,
  FeeBps,       \* the pool's fee, in 1/10000
  Amounts,      \* amounts and LP amounts that requests name
  MaxStarts     \* bound: requests

(* There are users and finitely many of them and of requests at a time; fees are *)
(* percentages and amounts are not negative. "pool" and "row" name no user.      *)
Assumptions ==
  /\ Users # {} /\ IsFiniteSet(Users) /\ IsFiniteSet(Calls) /\ Users \cap {"pool", "row"} = {}
  /\ FeeBps \in 0 .. 10000 /\ Amounts \subseteq Nat /\ MaxStarts \in Nat

VARIABLES
  pool,         \* the row of liquidity_pools, NoPool before createPool
  position,     \* pool_positions, at most one row per user
  request,      \* handlers under way
  requests,     \* how many there have been (MaxStarts)
  outdated,     \* history: a save has replaced a row newer than its entity
  torn,         \* history: a handler has failed between two of its saves
  uneven        \* history: a swap has met positions that do not add up to the supply it read
vars == <<pool, position, request, requests, outdated, torn, uneven>>

PoolRow == [exists : BOOLEAN, a : Nat, b : Nat, lp : Nat, feesA : Nat, feesB : Nat, swaps : Nat]
NoPool == [exists |-> FALSE, a |-> 0, b |-> 0, lp |-> 0, feesA |-> 0, feesB |-> 0, swaps |-> 0]
PositionRow == [exists : BOOLEAN, lp : Nat, feesA : Nat, feesB : Nat]
NoPosition == [exists |-> FALSE, lp |-> 0, feesA |-> 0, feesB |-> 0]
Ops == {"add", "remove", "emergency", "swap"}
\* saves: the rows still to be saved; saved: one of them has been
RequestRow == [op : Ops \cup {"none"}, user : Users, pool : PoolRow, newPool : PoolRow, old : [Users -> PositionRow],
               new : [Users -> PositionRow], saves : SUBSET (Users \cup {"pool", "row"}), saved : BOOLEAN]
Free == [op |-> "none", user |-> CHOOSE u \in Users : TRUE, pool |-> NoPool, newPool |-> NoPool,
         old |-> [u \in Users |-> NoPosition], new |-> [u \in Users |-> NoPosition], saves |-> {}, saved |-> FALSE]

Init == /\ pool = NoPool /\ position = [u \in Users |-> NoPosition]
        /\ request = [c \in Calls |-> Free] /\ requests = 0 /\ outdated = FALSE /\ torn = FALSE
        /\ uneven = FALSE

Round(n, d) == (2 * n + d) \div (2 * d)
\* The root, rounded: as many r >= 1 as have r - 1/2 below it.
SqrtRound(n) == Cardinality({r \in 1 .. n : (2 * r - 1) * (2 * r - 1) < 4 * n})

WithFee(amountIn) == amountIn * (10000 - FeeBps)
GetAmountOut(amountIn, reserveIn, reserveOut) ==
  Round(WithFee(amountIn) * reserveOut, 10000 * reserveIn + WithFee(amountIn))
FeeAmount(amountIn) == Round(amountIn * FeeBps, 10000)
DistributeFees(fee, lp, total) == IF total <= 0 \/ lp <= 0 THEN 0 ELSE Round(fee * lp, total)

(* The deposit that keeps the reserves' ratio: [lp, a, b]. *)
CalculateLpTokensToMint(a, b, p) ==
  IF p.lp = 0 THEN [lp |-> SqrtRound(a * b), a |-> a, b |-> b]
  ELSE IF a * p.b <= b * p.a
       THEN [lp |-> Round(a * p.lp, p.a), a |-> a, b |-> Round(a * p.b, p.a)]
       ELSE [lp |-> Round(b * p.lp, p.b), a |-> Round(b * p.a, p.b), b |-> b]

CanMint(p) == p.lp = 0 \/ (p.a > 0 /\ p.b > 0)
CanWithdraw(lp, p) == p.lp > 0 /\ lp <= p.lp
CalculateWithdrawAmounts(lp, p) == [a |-> Round(p.a * lp, p.lp), b |-> Round(p.b * lp, p.lp)]

Minus(x, y) == IF y > x THEN 0 ELSE x - y

CreatePool ==
  /\ ~pool.exists
  /\ pool' = [NoPool EXCEPT !.exists = TRUE]
  /\ UNCHANGED <<position, request, requests, outdated, torn, uneven>>

(* getPool is the first statement of every handler. *)
Start(c, op, u) ==
  /\ request[c].op = "none" /\ pool.exists /\ requests < MaxStarts
  /\ request' = [request EXCEPT ![c] = [Free EXCEPT !.op = op, !.user = u, !.pool = pool]]
  /\ requests' = requests + 1
  /\ UNCHANGED <<pool, position, outdated, torn, uneven>>

TotalLp == SumFunctionOnSet([u \in Users |-> position[u].lp], Users)

Reading(c, op) == request[c].op = op /\ request[c].saves = {}
Compute(c, newPool, new, saves) ==
  /\ request' = [request EXCEPT ![c] = [@ EXCEPT !.newPool = newPool, !.old = position, !.new = new, !.saves = saves]]
  /\ uneven' = (uneven \/ (request[c].op = "swap" /\ TotalLp # request[c].pool.lp))
  /\ UNCHANGED <<pool, position, requests, outdated, torn>>

AddLiquidity(c, a, b) ==
  LET x == request[c]  quote == CalculateLpTokensToMint(a, b, x.pool) IN
  /\ Reading(c, "add") /\ CanMint(x.pool)
  /\ Compute(c, [x.pool EXCEPT !.a = @ + quote.a, !.b = @ + quote.b, !.lp = @ + quote.lp],
                [position EXCEPT ![x.user].lp = @ + quote.lp, ![x.user].exists = TRUE],
                {"pool", x.user})

(* removeLiquidity, and emergencyWithdraw, which then stores its own row. *)
Burn(c, lp) ==
  LET x == request[c]  amounts == CalculateWithdrawAmounts(lp, x.pool) IN
  /\ position[x.user].exists /\ position[x.user].lp >= lp /\ CanWithdraw(lp, x.pool)
  /\ Compute(c, [x.pool EXCEPT !.a = Minus(@, amounts.a), !.b = Minus(@, amounts.b), !.lp = @ - lp],
                [position EXCEPT ![x.user].lp = @ - lp],
                {"pool", x.user} \cup (IF x.op = "emergency" THEN {"row"} ELSE {}))

\* Mutant: an emergency leaves the pool's row as it is.
BurnKeepingSupply(c, lp) ==
  LET x == request[c] IN
  /\ Reading(c, "emergency") /\ position[x.user].exists /\ position[x.user].lp >= lp
  /\ Compute(c, x.pool, [position EXCEPT ![x.user].lp = @ - lp], {"pool", x.user, "row"})
EmergencyWithdraw(c, lp) == Reading(c, "emergency") /\ Burn(c, lp)
RemoveLiquidity(c, lp) == Reading(c, "remove") /\ Burn(c, lp)

(* The fee goes to every position that there is. *)
Swap(c, inA, amountIn) ==
  LET x == request[c]
      fee == FeeAmount(amountIn)
      out == IF inA THEN GetAmountOut(amountIn, x.pool.a, x.pool.b) ELSE GetAmountOut(amountIn, x.pool.b, x.pool.a)
      share(u) == DistributeFees(fee, position[u].lp, x.pool.lp)
      holders == {u \in Users : position[u].exists} IN
  /\ Reading(c, "swap") /\ x.pool.a > 0 /\ x.pool.b > 0
  /\ Compute(c,
       IF inA THEN [x.pool EXCEPT !.a = @ + amountIn, !.b = Minus(@, out), !.feesA = @ + fee, !.swaps = @ + 1]
              ELSE [x.pool EXCEPT !.b = @ + amountIn, !.a = Minus(@, out), !.feesB = @ + fee, !.swaps = @ + 1],
       [u \in Users |-> IF u \notin holders THEN position[u]
                        ELSE IF inA THEN [position[u] EXCEPT !.feesA = @ + share(u)]
                        ELSE [position[u] EXCEPT !.feesB = @ + share(u)]],
       holders \cup {"row", "pool"})

Refuse(c) ==
  /\ request[c].op # "none" /\ request[c].saves = {}
  /\ request' = [request EXCEPT ![c] = Free]
  /\ UNCHANGED <<pool, position, requests, outdated, torn, uneven>>

(* A swap saves the positions, in the order the database gave them, stores its *)
(* row and saves the pool; the others save the pool, the position and then, in *)
(* an emergency, the row.                                                      *)
Turn(c, item) ==
  LET x == request[c] IN
  /\ item \in x.saves
  /\ x.op = "swap" => (item = "row" => x.saves = {"row", "pool"}) /\ (item = "pool" => x.saves = {"pool"})
  /\ x.op # "swap" => (item # "pool" => "pool" \notin x.saves) /\ (item = "row" => x.saves = {"row"})
Saved(c, item) ==
  LET x == request[c] IN
  request' = [request EXCEPT ![c] = IF x.saves = {item} THEN Free ELSE [x EXCEPT !.saves = @ \ {item}, !.saved = TRUE]]

SavePool(c) ==
  /\ Turn(c, "pool")
  /\ pool' = request[c].newPool /\ outdated' = (outdated \/ pool # request[c].pool)
  /\ Saved(c, "pool") /\ UNCHANGED <<position, requests, torn, uneven>>

(* The unique index on (pool, user) refuses a second new position. *)
SavePosition(c, u) ==
  LET x == request[c] IN
  /\ Turn(c, u)
  /\ IF position[u].exists /\ ~x.old[u].exists
     THEN /\ torn' = TRUE /\ request' = [request EXCEPT ![c] = Free] /\ UNCHANGED <<position, outdated>>
     ELSE /\ position' = [position EXCEPT ![u] = x.new[u]]
          /\ outdated' = (outdated \/ position[u] # x.old[u])
          /\ Saved(c, u) /\ UNCHANGED torn
  /\ UNCHANGED <<pool, requests, uneven>>

(* The insert of a pool_swaps or emergency_withdrawals row. *)
SaveRow(c) ==
  /\ Turn(c, "row") /\ Saved(c, "row")
  /\ UNCHANGED <<pool, position, requests, outdated, torn, uneven>>

(* A statement fails: what the handler has saved stays. *)
Fail(c) ==
  /\ request[c].saves # {}
  /\ request' = [request EXCEPT ![c] = Free] /\ torn' = (torn \/ request[c].saved)
  /\ UNCHANGED <<pool, position, requests, outdated, uneven>>

Next ==
  \/ CreatePool
  \/ \E c \in Calls :
       \/ \E u \in Users, op \in Ops : Start(c, op, u)
       \/ \E a, b \in Amounts : AddLiquidity(c, a, b)
       \/ \E lp \in Amounts : RemoveLiquidity(c, lp) \/ EmergencyWithdraw(c, lp)
       \/ \E inA \in BOOLEAN, x \in Amounts : Swap(c, inA, x)
       \/ Refuse(c) \/ Fail(c)
       \/ SavePool(c) \/ SaveRow(c) \/ \E u \in Users : SavePosition(c, u)

Spec == Init /\ [][Next]_vars

-----------------------------------------------------------------------------
TypeOK ==
  /\ pool \in PoolRow /\ position \in [Users -> PositionRow] /\ request \in [Calls -> RequestRow]
  /\ requests \in 0 .. MaxStarts /\ outdated \in BOOLEAN /\ torn \in BOOLEAN /\ uneven \in BOOLEAN

Fees(row) == row.feesA + row.feesB
TotalFees == SumFunctionOnSet([u \in Users |-> Fees(position[u])], Users)
Quiet == \A c \in Calls : ~request[c].saved

(* Between two requests, while no handler has failed half-way and no save has *)
(* replaced a newer row, the LP supply is what the positions hold: adding,    *)
(* burning (in an emergency too) and swapping change both tables alike        *)
(* (liquidity-pool.service.ts 122-369).                                       *)
SupplyIsHeld == Quiet /\ ~outdated /\ ~torn => pool.lp = TotalLp

(* And what the positions have been credited is no more than what the pool    *)
(* has charged in fees, up to the rounding of every share, unless a swap      *)
(* shared its fee by a supply and positions of two different moments          *)
(* (distributeFeesToLps 320-343).                                             *)
FeesAreShared ==
  Quiet /\ ~outdated /\ ~torn /\ ~uneven => TotalFees <= Fees(pool) + pool.swaps * Cardinality(Users)

(* A swap never lowers the product of the reserves by more than the rounding  *)
(* of its output: the fee stays in the pool (amm.service.ts 35-63).           *)
ProductKept ==
  [][pool'.swaps > pool.swaps /\ outdated' = FALSE =>
       2 * pool'.a * pool'.b + pool'.a + pool'.b >= 2 * pool.a * pool.b]_vars
=============================================================================
