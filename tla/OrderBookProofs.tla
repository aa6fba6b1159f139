-------------------------- MODULE OrderBookProofs --------------------------
(***************************************************************************)
(* Proofs about OrderBook, for every number of orders, users, sessions and *)
(* sweeps: its type invariant, that amounts add up, that fills respect the *)
(* limits, and that nothing is revived.                                    *)
(***************************************************************************)
EXTENDS OrderBook, FiniteSums, WellFoundedInduction, TLAPS

-----------------------------------------------------------------------------
(* The inductive invariant: its parts.                                     *)

TxRec == [pc : {"idle", "select", "lock", "commit"}, o : Orders \cup {None},
          locks : SUBSET (Orders \cup Users), new : [Orders -> Row],
          reserve : Int, list : Seq(Orders), fills : Nat]
SweepRec == [pc : {"idle", "price", "each", "trigger", "match"}, todo : SUBSET Orders,
             snap : [Orders -> Row], px : Nat, o : Orders \cup {None}]

Taking(t) == tx[t].pc # "idle"

\* A transaction under way has locked its own order, and selects orders of the
\* other side only; an idle session holds nothing.
Shaped(t) ==
  /\ ~Taking(t) => tx[t].locks = {}
  /\ Taking(t) => /\ tx[t].o \in Orders /\ tx[t].o \in tx[t].locks
                  /\ \A m \in Range(tx[t].list) : Dto[m].side # Dto[tx[t].o].side

\* What session t adds to the owner's locked balance on behalf of order m.
Reserve(t, m) == IF m = tx[t].o THEN tx[t].reserve ELSE 0

\* What a transaction will make of a row that it has locked.
Version(t, m, row) ==
  /\ row.filled <= row.amount
  /\ m = tx[t].o => /\ book[m].status \in Open \cup {"none"} /\ row.status \in Open \cup {"FILLED"}
                    /\ row.status = "FILLED" => row.filled = row.amount
  /\ m # tx[t].o => row.price = book[m].price
  /\ m # tx[t].o /\ row # book[m] => book[m].status \in Open /\ row.status \in Open \cup {"FILLED"}
  /\ Offered(m, row) <= Offered(m, book[m]) + Reserve(t, m)

Versioned(t) == \A m \in Orders \cap tx[t].locks : Version(t, m, tx[t].new[m])

\* Nobody else changes the balance that a transaction is about to change, and
\* the seller still has what it reserves.
Reserved(t) ==
  Taking(t) =>
    /\ ~Sells(tx[t].o) => tx[t].reserve = 0
    /\ tx[t].reserve # 0 => Owner(tx[t].o) \in tx[t].locks
    /\ tx[t].reserve > 0 => locked[Owner(tx[t].o)] + tx[t].reserve <= Holding[Owner(tx[t].o)]

\* What a transaction has filled so far is the same on both sides.
Gain(t)  == [m \in Orders |-> View(t, m).filled - book[m].filled]
Spent(t) == [m \in Orders |-> View(t, m).cost - book[m].cost]

Balanced(t) ==
  Taking(t) =>
    /\ \A side \in {"BUY", "SELL"} : SumFunctionOnSet(Gain(t), OnSide(side)) = tx[t].fills
    /\ SumFunctionOnSet(Spent(t), OnSide("BUY")) = SumFunctionOnSet(Spent(t), OnSide("SELL"))

Session(t) == Shaped(t) /\ Versioned(t) /\ Reserved(t) /\ Balanced(t)

\* No row is locked by two sessions.
Exclusive ==
  \A x, y \in Sessions : x # y => tx[x].locks \cap tx[y].locks = {}

\* A row that does not exist is empty, and none is filled beyond its size.
Rows ==
  \A o \in Orders : /\ book[o].status = "none" => book[o] = NoRow
                    /\ book[o].filled <= book[o].amount

FilledOf == [o \in Orders |-> book[o].filled]
CostOf   == [o \in Orders |-> book[o].cost]

Traded ==
  /\ \A side \in {"BUY", "SELL"} : SumFunctionOnSet(FilledOf, OnSide(side)) = traded
  /\ SumFunctionOnSet(CostOf, OnSide("BUY")) = SumFunctionOnSet(CostOf, OnSide("SELL"))

\* No row has a reference price, and a trailing stop has a delta.
Trailing(o, row) ==
  row.ref = 0 /\ (row.status # "none" /\ Dto[o].type = "TRAILING_STOP" => row.delta > 0)

\* What a sweep has read, and the price it goes by.
Read(rec) ==
  /\ \A o \in Orders : Trailing(o, rec.snap[o])
  /\ \A o \in rec.todo : rec.snap[o].status # "none"
  /\ rec.pc \in {"each", "trigger", "match"} => rec.px > 0
  /\ rec.pc = "trigger" => rec.o \in Orders

\* A sweep waits for the transaction that it has started.
Sweeping(s) == Read(sweep[s]) /\ (tx[s] # Idle => sweep[s].pc = "match")

Trails ==
  /\ \A o \in Orders : Trailing(o, book[o])
  /\ \A t \in Sessions, o \in Orders : Trailing(o, tx[t].new[o])
  /\ \A s \in Sweeps : Sweeping(s)

IndInv ==
  /\ TypeOK /\ Trails /\ Exclusive /\ Rows /\ Traded /\ SellsReserved
  /\ \A t \in Sessions : Session(t)

-----------------------------------------------------------------------------
(* Operators and types.                                                    *)

LEMMA MaxOfTwo ==
  ASSUME NEW a \in Int, NEW b \in Int
  PROVE  Max({a, b}) = IF a >= b THEN a ELSE b
<1> DEFINE P(x) == x \in {a, b} /\ \A y \in {a, b} : x >= y
           m == IF a >= b THEN a ELSE b
<1>1. P(m)
  OBVIOUS
<1>2. P(Max({a, b}))
  BY <1>1 DEF Max
<1> QED
  BY <1>1, <1>2

LEMMA MinOfTwo ==
  ASSUME NEW a \in Int, NEW b \in Int
  PROVE  Min({a, b}) = IF a <= b THEN a ELSE b
<1> DEFINE P(x) == x \in {a, b} /\ \A y \in {a, b} : x <= y
           m == IF a <= b THEN a ELSE b
<1>1. P(m)
  OBVIOUS
<1>2. P(Min({a, b}))
  BY <1>1 DEF Min
<1> QED
  BY <1>1, <1>2

\* A set of natural numbers has a least element.
LEMMA MinIn ==
  ASSUME NEW S \in SUBSET Nat, S # {}
  PROVE  Min(S) \in S
<1>1. PICK x \in S : \A y \in S : ~(<<y, x>> \in OpToRel(<, Nat))
  BY NatLessThanWellFounded, WFMin
<1>2. ASSUME NEW y \in S, y < x PROVE FALSE
  <2>1. <<y, x>> \in OpToRel(<, Nat)
    BY <1>2 DEF OpToRel
  <2> QED
    BY <1>1, <2>1
<1>3. \A y \in S : x <= y
  BY <1>2
<1> QED
  BY <1>3 DEF Min

\* Some value of f on S, a function to sets, contains no other.
HasSmallest(S, f) == \E x \in S : \A y \in S : f[y] \subseteq f[x] => f[y] = f[x]

\* Of finitely many subsets of a finite set one contains no other.
LEMMA SmallestValue ==
  \A S : IsFiniteSet(S) /\ S # {} => \A f \in [S -> SUBSET S] : HasSmallest(S, f)
<1> SUFFICES ASSUME NEW S, IsFiniteSet(S), S # {}, NEW f \in [S -> SUBSET S]
             PROVE  HasSmallest(S, f)
  OBVIOUS
<1> DEFINE F == {f[x] : x \in S}
<1>1. F \in SUBSET SUBSET S
  OBVIOUS
<1>2. F # {}
  OBVIOUS
<1>3. \E T \in F : \A U \in F : U \subseteq T => U = T
  <2> HIDE DEF F
  <2> QED
    BY <1>1, <1>2, SmallestSet
<1> QED
  BY <1>3 DEF HasSmallest

\* A finite set of natural numbers has a greatest element: the one that has the
\* fewest greater ones.
LEMMA MaxIn ==
  ASSUME NEW S, S \subseteq Nat, S # {}, IsFiniteSet(S)
  PROVE  Max(S) \in S
<1> DEFINE above == [x \in S |-> {y \in S : y > x}]
<1>1. above \in [S -> SUBSET S]
  OBVIOUS
<1>0. HasSmallest(S, above)
  BY <1>1, SmallestValue
<1>2. PICK x \in S : \A y \in S : above[y] \subseteq above[x] => above[y] = above[x]
  BY <1>0 DEF HasSmallest
<1>3. ASSUME NEW y \in S, y > x PROVE FALSE
  <2>1. \A z \in S : z > y => z > x
    BY <1>3
  <2>2. above[y] \subseteq above[x]
    BY <2>1
  <2>3. y \in above[x] /\ y \notin above[y]
    BY <1>3
  <2> QED
    BY <1>2, <2>2, <2>3
<1>4. \A y \in S : x >= y
  BY <1>3
<1> QED
  BY <1>4 DEF Max

LEMMA DtoType ==
  ASSUME NEW o \in Orders
  PROVE  /\ Dto[o].user \in Users /\ Dto[o].side \in {"BUY", "SELL"} /\ Dto[o].amount \in Nat \ {0}
         /\ Dto[o].price \in Nat /\ Dto[o].stop \in Nat /\ Dto[o].delta \in Nat
         /\ Owner(o) \in Users /\ Owner(o) \notin Orders
<1> DEFINE Shape == [user : Users, side : {"BUY", "SELL"}, type : Stops \cup {"MARKET", "LIMIT"},
                     amount : Nat \ {0}, price : Nat, stop : Nat, delta : Nat]
<1>1. Dto[o] \in Shape
  BY DtoAssumption
<1> QED
  BY <1>1, NamesAssumption DEF Owner

LEMMA RowType ==
  ASSUME NEW row \in Row
  PROVE  /\ row.status \in Open \cup {"none", "FILLED", "CANCELLED"}
         /\ row.amount \in Nat /\ row.filled \in Nat /\ row.cost \in Nat /\ row.price \in Nat
         /\ row.stop \in Nat /\ row.delta \in Nat /\ row.ref \in Nat /\ row.at \in Nat
         /\ row.nan \in BOOLEAN /\ row.triggered \in BOOLEAN
BY DEF Row

LEMMA TxType ==
  ASSUME NEW rec \in TxRec
  PROVE  /\ rec.pc \in {"idle", "select", "lock", "commit"} /\ rec.o \in Orders \cup {None}
         /\ rec.locks \subseteq Orders \cup Users /\ rec.new \in [Orders -> Row]
         /\ rec.reserve \in Int /\ rec.list \in Seq(Orders) /\ rec.fills \in Nat
BY DEF TxRec

LEMMA NoRowType == NoRow \in Row
BY DEF NoRow, Row, Open

LEMMA IdleType == Idle \in TxRec
<1>1. [o \in Orders |-> NoRow] \in [Orders -> Row]
  BY NoRowType
<1>2. <<>> \in Seq(Orders)
  OBVIOUS
<1> QED
  BY <1>1, <1>2 DEF Idle, TxRec

LEMMA AsleepType == Asleep \in SweepRec
<1>1. [o \in Orders |-> NoRow] \in [Orders -> Row]
  BY NoRowType
<1> QED
  BY <1>1 DEF Asleep, SweepRec

LEMMA WorldType ==
  ASSUME world \in Scenarios
  PROVE  /\ world.prices \subseteq Prices /\ world.changes \in Nat /\ world.faults \in Nat
         /\ world.orders \subseteq Orders
BY ScenarioAssumption

LEMMA Types ==
  ASSUME TypeOK
  PROVE  /\ world \in Scenarios /\ price \in Prices /\ book \in [Orders -> Row]
         /\ locked \in [Users -> Nat] /\ traded \in Nat /\ changes \in 0..world.changes
         /\ tx \in [Sessions -> TxRec] /\ sweep \in [Sweeps -> SweepRec] /\ failed \in 0..world.faults
BY DEF TypeOK, TxRec, SweepRec

LEMMA TypesAgain ==
  ASSUME world' \in Scenarios, price' \in Prices, book' \in [Orders -> Row],
         locked' \in [Users -> Nat], traded' \in Nat, changes' \in 0..world'.changes,
         tx' \in [Sessions -> TxRec], sweep' \in [Sweeps -> SweepRec], failed' \in 0..world'.faults
  PROVE  TypeOK'
BY Zenon DEF TypeOK, TxRec, SweepRec

\* What a session sees of a row is a row.
LEMMA ViewType ==
  ASSUME TypeOK, NEW t \in Sessions, NEW m \in Orders
  PROVE  View(t, m) \in Row /\ book[m] \in Row /\ tx[t].new[m] \in Row
<1>1. tx[t] \in TxRec /\ book \in [Orders -> Row]
  BY Types
<1>2. tx[t].new \in [Orders -> Row]
  BY <1>1, TxType
<1> QED
  BY <1>1, <1>2 DEF View

\* createdAt of a new row.
LEMMA NowType ==
  ASSUME TypeOK
  PROVE  Now \in Nat
<1> DEFINE B == {book[o].at : o \in Orders}
           P == {tx[t].new[o].at : t \in Sessions, o \in Orders}
           S == {0} \cup B \cup P
<1>1. \A t \in Sessions, o \in Orders : tx[t].new[o].at \in Nat
  BY ViewType, RowType
<1>2. \A o \in Orders : book[o].at \in Nat
  BY Types, RowType
<1>3. S \subseteq Nat /\ S # {}
  BY <1>1, <1>2
<1>4. IsFiniteSet(B)
  <2> DEFINE f == [o \in Orders |-> book[o].at]
  <2>1. f \in Surjection(Orders, B)
    BY DEF Surjection
  <2> HIDE DEF f, B
  <2> QED
    BY <2>1, RowsAssumption, FS_Surjection
<1>5. IsFiniteSet(P)
  <2> DEFINE D == Sessions \X Orders
             f == [d \in D |-> tx[d[1]].new[d[2]].at]
  <2>1. f \in [D -> P]
    <3>1. \A d \in D : d[1] \in Sessions /\ d[2] \in Orders
      OBVIOUS
    <3>2. \A d \in D : tx[d[1]].new[d[2]].at \in P
      BY <3>1
    <3> HIDE DEF D, P
    <3> QED
      BY <3>2
  <2>2. ASSUME NEW x \in P PROVE \E d \in D : f[d] = x
    <3>1. PICK t \in Sessions, o \in Orders : x = tx[t].new[o].at
      OBVIOUS
    <3>2. <<t, o>> \in D
      OBVIOUS
    <3>3. f[<<t, o>>] = tx[t].new[o].at
      BY <3>2
    <3> QED
      BY <3>1, <3>2, <3>3
  <2>3. f \in Surjection(D, P)
    <3> HIDE DEF D, f, P
    <3> QED
      BY <2>1, <2>2 DEF Surjection
  <2>4. IsFiniteSet(D)
    BY RowsAssumption, FS_Product
  <2> HIDE DEF D, f, P
  <2> QED
    BY <2>3, <2>4, FS_Surjection
<1>6. IsFiniteSet(S)
  <2> HIDE DEF B, P
  <2> QED
    BY <1>4, <1>5, FS_Union, FS_Singleton
<1>7. Max(S) \in Nat
  <2> HIDE DEF S
  <2> QED
    BY <1>3, <1>6, MaxIn
<1> QED
  BY <1>7 DEF Now

-----------------------------------------------------------------------------
(* What the steps do to the rows, the balances and the transactions.       *)

\* A transaction begins: it locks free rows, and its version of its order
\* offers no more than what it will add to the owner's locked balance.
Begun(t, o, row, rows, d) ==
  /\ \E pc \in {"select", "commit"} : Begin(t, o, row, rows, d, pc)
  /\ row \in Row /\ row.status \in Open /\ Trailing(o, row)
  /\ row.filled = book[o].filled /\ row.cost = book[o].cost /\ row.filled <= row.amount
  /\ book[o].status \in Open \cup {"none"}
  /\ o \in rows /\ rows \subseteq {o, Owner(o)} /\ \A r \in rows : Free(r)
  /\ d \in Int /\ Offered(o, row) <= Offered(o, book[o]) + d
  /\ ~Sells(o) => d = 0
  /\ d # 0 => Owner(o) \in rows
  /\ d > 0 => locked[Owner(o)] + d <= Holding[Owner(o)]

Ended(t) == tx' = [tx EXCEPT ![t] = Idle]

LEMMA NewOrderType ==
  ASSUME TypeOK, NEW o \in Orders
  PROVE  /\ NewOrder(o) \in Row /\ NewOrder(o).status = "PENDING" /\ NewOrder(o).amount = Dto[o].amount
         /\ NewOrder(o).filled = 0 /\ NewOrder(o).cost = 0 /\ Trailing(o, NewOrder(o))
<1>1. Now \in Nat
  BY NowType
<1>2. /\ Dto[o].amount \in Nat /\ Dto[o].price \in Nat /\ Dto[o].stop \in Nat /\ Dto[o].delta \in Nat
      /\ Dto[o].type = "TRAILING_STOP" => Dto[o].delta > 0
  BY DtoType, DeltaAssumption
<1> QED
  BY <1>1, <1>2, ZenonT(40) DEF NewOrder, NoRow, Row, Open, Trailing

LEMMA PlaceOrderBegins ==
  ASSUME TypeOK, Rows, NEW t \in Sessions, NEW o \in Orders, PlaceOrder(t, o)
  PROVE  \E row, rows, d : Begun(t, o, row, rows, d)
<1> DEFINE d == IF Sells(o) THEN Dto[o].amount ELSE 0
           rows == {o, Owner(o)}
<1>1. book[o] = NoRow /\ locked \in [Users -> Nat]
  BY Types DEF PlaceOrder, Rows
<1>2. Owner(o) \in Users /\ Dto[o].amount \in Nat /\ Holding[Owner(o)] \in Nat
  BY DtoType, HoldingAssumption
<1>3. \A r \in rows : Free(r)
  BY DEF PlaceOrder
<1>4. d > 0 => locked[Owner(o)] + d <= Holding[Owner(o)]
  BY <1>1, <1>2 DEF PlaceOrder, Available
<1>5. \E pc \in {"select", "commit"} : Begin(t, o, NewOrder(o), rows, d, pc)
  BY DEF PlaceOrder
<1>6. Offered(o, NewOrder(o)) <= Offered(o, book[o]) + d
  BY <1>1, <1>2, NewOrderType DEF Offered, Remaining, NoRow, Open
<1>7. Begun(t, o, NewOrder(o), rows, d)
  BY <1>1, <1>2, <1>3, <1>4, <1>5, <1>6, NewOrderType DEF Begun, NoRow, Open
<1> QED
  BY <1>7

LEMMA ModifyOrderBegins ==
  ASSUME TypeOK, Rows, Trails, NEW t \in Sessions, NEW o \in Orders, NEW c \in Changes,
         ModifyOrder(t, o, c)
  PROVE  \E row, rows, d : Begun(t, o, row, rows, d)
<1> DEFINE resize == Sells(o) /\ c.amount # 0
           d == IF resize THEN c.amount - book[o].amount ELSE 0
           rows == {o} \cup IF resize THEN {Owner(o)} ELSE {}
           row == Changed(book[o], c)
<1>0. c.amount \in Nat /\ c.price \in Nat /\ c.stop \in Nat /\ c.delta \in Nat
  BY ChangesAssumption
<1>1. book[o] \in Row /\ locked \in [Users -> Nat]
  BY Types
<1>2. Owner(o) \in Users /\ Holding[Owner(o)] \in Nat
  BY DtoType, HoldingAssumption
<1>3. \A r \in rows : Free(r)
  BY DEF ModifyOrder
<1>4. d > 0 => locked[Owner(o)] + d <= Holding[Owner(o)]
  BY <1>0, <1>1, <1>2, RowType DEF ModifyOrder, Available
<1>5. \E pc \in {"select", "commit"} : Begin(t, o, row, rows, d, pc)
  BY DEF ModifyOrder
<1>6. /\ row \in Row /\ row.status = book[o].status /\ row.filled = book[o].filled
      /\ row.cost = book[o].cost /\ row.amount = (IF c.amount # 0 THEN c.amount ELSE book[o].amount)
      /\ row.ref = book[o].ref /\ row.delta = (IF c.delta # 0 THEN c.delta ELSE book[o].delta)
  BY <1>0, <1>1, ZenonT(40) DEF Changed, Row
<1>7. book[o].status \in Open /\ (c.amount # 0 => c.amount >= book[o].filled)
  BY DEF ModifyOrder, Applies
<1>8. Trailing(o, row)
  BY <1>0, <1>6, <1>7 DEF Trails, Trailing, Open
<1>9. row.filled <= row.amount
  BY <1>0, <1>1, <1>6, <1>7, RowType DEF Rows
<1>10. Offered(o, row) <= Offered(o, book[o]) + d
  <2> HIDE DEF row
  <2> QED
    BY <1>0, <1>1, <1>6, <1>7, RowType DEF Offered, Remaining
<1>11. d \in Int
  BY <1>0, <1>1, RowType
<1>12. Begun(t, o, row, rows, d)
  <2>1. /\ o \in rows /\ rows \subseteq {o, Owner(o)} /\ (~Sells(o) => d = 0)
        /\ d # 0 => Owner(o) \in rows
    OBVIOUS
  <2> HIDE DEF row, rows, d
  <2> QED
    BY <1>3, <1>4, <1>5, <1>6, <1>7, <1>8, <1>9, <1>10, <1>11, <2>1 DEF Begun
<1> QED
  BY <1>12

LEMMA TriggerBegins ==
  ASSUME TypeOK, Rows, Trails, NEW s \in Sweeps, Trigger(s)
  PROVE  /\ sweep[s].o \in Orders
         /\ \/ \E row, rows, d : Begun(s, sweep[s].o, row, rows, d)
            \/ UNCHANGED tx
<1> DEFINE o == sweep[s].o
           row == Triggered(book[o])
<1>1. o \in Orders
  BY DEF Trails, Sweeping, Read, Trigger, StillPending
<1>2. CASE UNCHANGED tx
  BY <1>1, <1>2
<1>3. CASE book[o].status = "PENDING" /\ Begin(s, o, row, {o}, 0, "select")
  <2>1. book[o] \in Row
    BY <1>1, Types
  <2>2. /\ row \in Row /\ row.status = "PENDING" /\ row.filled = book[o].filled
        /\ row.cost = book[o].cost /\ row.amount = book[o].amount
        /\ row.ref = book[o].ref /\ row.delta = book[o].delta
    BY <2>1 DEF Triggered, Row, Open
  <2>3. Trailing(o, row)
    BY <1>1, <1>3, <2>2 DEF Trails, Trailing
  <2>4. Offered(o, row) <= Offered(o, book[o]) + 0
    BY <1>3, <2>1, <2>2, RowType DEF Offered, Remaining
  <2>5. Free(o) /\ row.filled <= row.amount
    BY <1>1, <2>2 DEF Trigger, StillPending, Rows
  <2>6. Begun(s, o, row, {o}, 0)
    <3> HIDE DEF row, o
    <3> QED
      BY <1>3, <2>2, <2>3, <2>4, <2>5 DEF Begun, Open
  <2> QED
    BY <1>1, <2>6
<1> QED
  BY <1>2, <1>3 DEF Trigger, StillPending

\* A sweep saves no reference price: there is none that could have moved.
LEMMA ProcessStopSaves ==
  ASSUME TypeOK, Trails, NEW s \in Sweeps, NEW o \in Orders, ProcessStop(s, o)
  PROVE  UNCHANGED book
<1>1. sweep[s] \in SweepRec
  BY Types
<1>2. sweep[s].px \in Nat
  BY <1>1 DEF SweepRec
<1>3. sweep[s].snap[o].ref = 0
  BY DEF Trails, Sweeping, Read, Trailing
<1> DEFINE r == Reference(o, sweep[s].snap[o], sweep[s].px)
<1>4. ~(sweep[s].px > sweep[s].px) /\ ~(sweep[s].px < sweep[s].px)
  BY <1>2
<1>5. r.moved = IF Sells(o) THEN sweep[s].px > sweep[s].px ELSE sweep[s].px < sweep[s].px
  BY <1>3, Zenon DEF Reference
<1>6. ~r.moved
  BY <1>4, <1>5, Zenon
<1> QED
  BY <1>6, Zenon DEF ProcessStop

\* A round of the matching loop that finds nothing left to fill.
Skips(t) ==
  /\ tx'[t].fills = tx[t].fills
  /\ \A x \in Orders : View(t, x)' = View(t, x)

\* A round of the matching loop that fills n of maker m and of its own order o.
Fills(t, o, m, n) ==
  /\ o = tx[t].o /\ m \in Range(tx[t].list) /\ Matches(t, m)
  /\ n <= Remaining(View(t, o)) /\ n <= Remaining(View(t, m))
  /\ tx'[t].fills = tx[t].fills + n
  /\ View(t, o)' = ApplyFill(View(t, o), n, View(t, m).price)
  /\ View(t, m)' = ApplyFill(View(t, m), n, View(t, m).price)
  /\ \A x \in Orders \ {o, m} : View(t, x)' = View(t, x)

\* What both have in common.
Locks(t) ==
  /\ tx'[t].o = tx[t].o /\ tx'[t].reserve = tx[t].reserve /\ tx'[t].list = <<>>
  /\ tx[t].pc = "lock" /\ tx'[t].pc \in {"select", "commit"}
  /\ tx'[t].locks = tx[t].locks \cup Range(tx[t].list)
  /\ \A m \in Range(tx[t].list) : ~HeldByOther(t, m)
  /\ \A x \in Orders \ tx'[t].locks : tx'[t].new[x] = tx[t].new[x]
  /\ \A x \in Sessions \ {t} : tx'[x] = tx[x]

LEMMA ListType ==
  ASSUME TypeOK, NEW t \in Sessions
  PROVE  /\ tx[t].list \in Seq(Orders) /\ Range(tx[t].list) \subseteq Orders
         /\ DOMAIN tx[t].list \subseteq Nat
<1>1. tx[t].list \in Seq(Orders)
  BY Types, TxType
<1>2. DOMAIN tx[t].list = 1..Len(tx[t].list) /\ \A i \in 1..Len(tx[t].list) : tx[t].list[i] \in Orders
  BY <1>1
<1> QED
  BY <1>1, <1>2 DEF Range

LEMMA LeastMatching ==
  ASSUME TypeOK, NEW t \in Sessions, StillMatching(t) # {}
  PROVE  /\ tx[t].list[Min(StillMatching(t))] \in Range(tx[t].list)
         /\ Matches(t, tx[t].list[Min(StillMatching(t))])
<1>1. StillMatching(t) \subseteq Nat
  BY ListType DEF StillMatching
<1>2. Min(StillMatching(t)) \in StillMatching(t)
  BY <1>1, MinIn
<1> QED
  BY <1>2 DEF StillMatching, Range

LEMMA RemainingType ==
  ASSUME NEW row \in Row, row.filled <= row.amount
  PROVE  Remaining(row) \in Nat
BY RowType DEF Remaining

\* An order and one that it can be matched with are on different sides.
LEMMA MatchSides ==
  ASSUME NEW t \in Sessions, NEW m \in Orders, Matches(t, m)
  PROVE  Dto[m].side # Dto[tx[t].o].side /\ m # tx[t].o
BY DEF Matches

\* A row that a transaction sees is not filled beyond its size.
LEMMA ViewSize ==
  ASSUME Rows, NEW t \in Sessions, Versioned(t), NEW m \in Orders
  PROVE  View(t, m).filled <= View(t, m).amount
BY DEF Rows, Versioned, Version, View

\* What a fill within what remains does to a row.
LEMMA ApplyFillRow ==
  ASSUME NEW row \in Row, NEW n \in Nat, NEW px \in Nat
  PROVE  /\ ApplyFill(row, n, px) \in Row
         /\ ApplyFill(row, n, px).filled = row.filled + n /\ ApplyFill(row, n, px).amount = row.amount
         /\ ApplyFill(row, n, px).cost = row.cost + n * px /\ ApplyFill(row, n, px).price = row.price
         /\ ApplyFill(row, n, px).ref = row.ref /\ ApplyFill(row, n, px).delta = row.delta
         /\ ApplyFill(row, n, px).status = IF row.filled + n >= row.amount THEN "FILLED" ELSE "PARTIAL"
<1>1. /\ row.filled \in Nat /\ row.cost \in Nat /\ row.amount \in Nat /\ row.nan \in BOOLEAN
  BY RowType
<1>2. row.filled + n \in Nat /\ row.cost + n * px \in Nat
  BY <1>1
<1> DEFINE f == row.filled + n
           c == row.cost + n * px
           nan == row.nan \/ row.filled + n = 0
           st == IF row.filled + n >= row.amount THEN "FILLED" ELSE "PARTIAL"
<1>3. ApplyFill(row, n, px) = [row EXCEPT !.filled = f, !.cost = c, !.nan = nan, !.status = st]
  BY DEF ApplyFill
<1>4. nan \in BOOLEAN /\ st \in {"FILLED", "PARTIAL"} /\ f \in Nat /\ c \in Nat
  <2>1. nan \in BOOLEAN
    BY Zenon
  <2> QED
    BY <1>2, <2>1
<1> HIDE DEF f, c, nan, st
<1>5. ApplyFill(row, n, px) \in Row
  BY <1>3, <1>4 DEF Row, Open
<1>6. /\ ApplyFill(row, n, px).filled = f /\ ApplyFill(row, n, px).amount = row.amount
      /\ ApplyFill(row, n, px).cost = c /\ ApplyFill(row, n, px).price = row.price
      /\ ApplyFill(row, n, px).ref = row.ref /\ ApplyFill(row, n, px).delta = row.delta
      /\ ApplyFill(row, n, px).status = st
  BY <1>3 DEF Row
<1> QED
  BY <1>5, <1>6 DEF f, c, st

LEMMA FillStep ==
  ASSUME TypeOK, Rows, NEW t \in Sessions, Shaped(t), Versioned(t), LockAndFill(t)
  PROVE  /\ UNCHANGED <<world, price, book, locked, traded, changes, sweep, failed>> /\ Locks(t)
         /\ tx' \in [Sessions -> TxRec]
         /\ Skips(t) \/ \E o, m \in Orders, n \in Nat : Fills(t, o, m, n)
<1> DEFINE o     == tx[t].o
           L     == Range(tx[t].list)
           still == StillMatching(t)
           m     == tx[t].list[Min(still)]
           taker == tx[t].new[o]
           maker == View(t, m)
           n     == Min({Remaining(taker), Remaining(maker)})
           held  == [x \in Orders |-> IF x \in L THEN View(t, x) ELSE tx[t].new[x]]
           new   == IF still = {} THEN held
                    ELSE [held EXCEPT ![o] = ApplyFill(taker, n, maker.price),
                                      ![m] = ApplyFill(maker, n, maker.price)]
<1> DEFINE rec   == [tx[t] EXCEPT !.list = <<>>, !.locks = @ \cup L,
                                   !.pc = IF still = {} THEN "commit" ELSE "select",
                                   !.fills = IF still = {} THEN @ ELSE @ + n, !.new = new]
<1>0. UNCHANGED <<world, price, book, locked, traded, changes, sweep, failed>>
  BY DEF LockAndFill
<1>1. tx[t].pc = "lock" /\ CanLock(t) /\ tx' = [tx EXCEPT ![t] = rec]
  BY DEF LockAndFill
<1>2. tx \in [Sessions -> TxRec] /\ book \in [Orders -> Row] /\ L \subseteq Orders
  BY Types, ListType
<1>3. /\ tx'[t].o = o /\ tx'[t].reserve = tx[t].reserve /\ tx'[t].list = <<>>
      /\ tx'[t].locks = tx[t].locks \cup L
      /\ tx'[t].pc = (IF still = {} THEN "commit" ELSE "select")
      /\ tx'[t].fills = (IF still = {} THEN tx[t].fills ELSE tx[t].fills + n)
      /\ tx'[t].new = new /\ \A x \in Sessions \ {t} : tx'[x] = tx[x]
  <2>1. tx'[t] = rec /\ \A x \in Sessions \ {t} : tx'[x] = tx[x]
    <3> HIDE DEF rec
    <3> QED
      BY <1>1, <1>2
  <2>2. tx[t] \in TxRec
    BY <1>2
  <2> HIDE DEF L, still, n, new
  <2> QED
    BY <2>1, <2>2 DEF TxRec
<1>5. o \in Orders /\ o \in tx[t].locks /\ taker = View(t, o)
  BY <1>1 DEF Shaped, Taking, View
<1>4. Locks(t)
  <2>1. ASSUME NEW x \in Orders \ (tx[t].locks \cup L) PROVE new[x] = tx[t].new[x]
    <3>1. held[x] = tx[t].new[x] /\ x # o /\ (still # {} => m \in L)
      BY <1>5, <2>1, LeastMatching
    <3>2. held = [y \in Orders |-> held[y]]
      OBVIOUS
    <3> HIDE DEF held, L, n, taker, maker, m, o, still
    <3> QED
      BY <2>1, <3>1, <3>2
  <2> HIDE DEF new
  <2> QED
    BY <1>1, <1>3, <2>1 DEF Locks, CanLock
<1>6. ASSUME still = {} PROVE Skips(t)
  <2>0. /\ book' = book /\ tx'[t].locks = tx[t].locks \cup L
        /\ \A x \in Orders : tx'[t].new[x] = IF x \in L THEN View(t, x) ELSE tx[t].new[x]
    BY <1>0, <1>3, <1>6
  <2>1. \A x \in Orders : View(t, x)' = View(t, x)
    <3> HIDE DEF L
    <3> QED
      BY <2>0 DEF View
  <2> QED
    BY <1>3, <1>6, <2>1 DEF Skips
<1>7. ASSUME still # {} PROVE \E x, y \in Orders, k \in Nat : Fills(t, x, y, k)
  <2>1. m \in L /\ Matches(t, m)
    BY <1>7, LeastMatching
  <2>2. m \in Orders /\ m # o
    BY <1>2, <2>1, MatchSides
  <2>3. Remaining(taker) \in Nat /\ Remaining(maker) \in Nat
    BY <1>5, <2>2, ViewType, ViewSize, RemainingType
  <2>4. n \in Nat /\ n <= Remaining(taker) /\ n <= Remaining(maker)
    <3> HIDE DEF taker, maker
    <3> QED
      BY <2>3, MinOfTwo
  <2>5. PICK a \in Orders, c \in Orders : a = o /\ c = m
    BY <1>5, <2>2
  <2>6. /\ View(t, a)' = ApplyFill(taker, n, maker.price)
        /\ View(t, c)' = ApplyFill(maker, n, maker.price)
        /\ \A x \in Orders \ {a, c} : View(t, x)' = View(t, x)
    <3>1. \A x \in Orders : View(t, x)' = IF x \in tx[t].locks \cup L THEN new[x] ELSE book[x]
      <4> HIDE DEF L, new
      <4> QED
        BY <1>0, <1>3 DEF View
    <3>2. /\ new[a] = ApplyFill(taker, n, maker.price) /\ new[c] = ApplyFill(maker, n, maker.price)
          /\ \A x \in Orders \ {a, c} : new[x] = IF x \in L THEN View(t, x) ELSE tx[t].new[x]
      <4> HIDE DEF o, m, n, taker, maker, L, still
      <4> QED
        BY <1>5, <1>7, <2>2, <2>5
    <3>3. a \in tx[t].locks /\ c \in L
      BY <1>5, <2>1, <2>5
    <3> HIDE DEF new, n, taker, maker, L, m, o
    <3> QED
      BY <3>1, <3>2, <3>3 DEF View
  <2>7. Fills(t, a, c, n)
    <3>1. tx'[t].fills = tx[t].fills + n
      BY <1>3, <1>7
    <3>2. taker = View(t, a) /\ maker = View(t, c) /\ c \in Range(tx[t].list) /\ Matches(t, c)
      BY <1>5, <2>1, <2>5
    <3> HIDE DEF n, taker, maker, m
    <3> QED
      BY <2>4, <2>5, <2>6, <3>1, <3>2 DEF Fills
  <2> QED
    BY <2>4, <2>7
<1>8. new \in [Orders -> Row] /\ (IF still = {} THEN tx[t].fills ELSE tx[t].fills + n) \in Nat
  <2>0. held \in [Orders -> Row] /\ tx[t].fills \in Nat
    <3>1. \A x \in Orders : View(t, x) \in Row /\ tx[t].new[x] \in Row
      BY ViewType
    <3> QED
      BY <1>2, <3>1, TxType
  <2>1. CASE still = {}
    BY <2>0, <2>1
  <2>2. CASE still # {}
    <3>1. m \in Orders /\ taker \in Row /\ maker \in Row /\ n \in Nat
      <4>1. m \in Orders
        BY <1>2, <2>2, LeastMatching
      <4>2. Remaining(taker) \in Nat /\ Remaining(maker) \in Nat /\ taker \in Row /\ maker \in Row
        BY <1>5, <4>1, ViewType, ViewSize, RemainingType
      <4> HIDE DEF taker, maker, m
      <4> QED
        BY <4>1, <4>2, MinOfTwo
    <3>2. ApplyFill(taker, n, maker.price) \in Row /\ ApplyFill(maker, n, maker.price) \in Row
      <4> HIDE DEF taker, maker, m, n
      <4> QED
        BY <3>1, RowType, ApplyFillRow
    <3> HIDE DEF taker, maker, m, n, held, o
    <3> QED
      BY <1>5, <2>0, <2>2, <3>1, <3>2
  <2> HIDE DEF held, still, n
  <2> QED
    BY <2>1, <2>2
<1>9. tx' \in [Sessions -> TxRec]
  <2>1. rec \in TxRec
    <3>1. <<>> \in Seq(Orders) /\ tx[t] \in TxRec
      BY <1>2
    <3> HIDE DEF L, still, n, new
    <3> QED
      BY <1>2, <1>8, <3>1 DEF TxRec
  <2> HIDE DEF rec
  <2> QED
    BY <1>1, <1>2, <2>1
<1> QED
  BY <1>0, <1>4, <1>6, <1>7, <1>9

LEMMA StepKinds ==
  ASSUME TypeOK, Rows, Trails, [Next]_vars
  PROVE  /\ UNCHANGED world
         /\ \/ UNCHANGED <<book, locked, traded, tx>>
            \/ \E t \in Sessions :
                 /\ UNCHANGED <<book, locked, traded>>
                 /\ \/ \E o \in Orders : \E row, rows, d : Begun(t, o, row, rows, d)
                    \/ Select(t) \/ Ended(t)
            \/ \E t \in Sessions : LockAndFill(t) \/ Commit(t)
            \/ \E o \in Orders : CancelOrder(o)
<1> DEFINE Quiet == UNCHANGED <<world, book, locked, traded, tx>>
           Kept  == UNCHANGED <<world, book, locked, traded>>
           Starts0(t) == \E o \in Orders : \E row, rows, d : Begun(t, o, row, rows, d)
<1>1. ASSUME NEW t \in Procs, Request(t) PROVE Kept /\ t \in Sessions /\ Starts0(t)
  <2>0. t \in Sessions
    BY DEF Sessions
  <2>1. PICK o \in Orders : PlaceOrder(t, o) \/ \E c \in Changes : ModifyOrder(t, o, c)
    BY <1>1 DEF Request
  <2>2. Kept
    BY <2>1 DEF PlaceOrder, ModifyOrder
  <2> QED
    BY <2>0, <2>1, <2>2, PlaceOrderBegins, ModifyOrderBegins
<1>2. ASSUME NEW o \in Orders, CancelOrder(o) PROVE UNCHANGED world
  BY <1>2 DEF CancelOrder
<1>3. ASSUME NEW t \in Sessions, Step(t)
      PROVE  UNCHANGED world /\ ((Kept /\ Select(t)) \/ LockAndFill(t) \/ Commit(t))
  BY <1>3, SMTT(30) DEF Step, Select, LockAndFill, Commit
<1>4. ASSUME NEW t \in Sessions, Abort(t) PROVE Kept /\ Ended(t)
  BY <1>4 DEF Abort, Ended
<1>5. ASSUME NEW s \in Sweeps, Sweep(s) PROVE Quiet \/ (Kept /\ s \in Sessions /\ Starts0(s))
  <2>1. CASE Trigger(s)
    <3>1. Kept /\ s \in Sessions
      BY <2>1, SMTT(30) DEF Trigger, StillPending, Sessions
    <3> QED
      BY <2>1, <3>1, TriggerBegins
  <2>2. ASSUME NEW o \in Orders, ProcessStop(s, o) PROVE Quiet
    BY <2>2, ProcessStopSaves DEF ProcessStop
  <2>3. CASE SweepStart(s) \/ SweepPrice(s) \/ SweepEnd(s)
    BY <2>3 DEF SweepStart, SweepPrice, SweepEnd
  <2> QED
    BY <1>5, <2>1, <2>2, <2>3 DEF Sweep
<1>6. ASSUME NEW px \in world.prices, SetPrice(px) PROVE Quiet
  BY <1>6 DEF SetPrice
<1>7. UNCHANGED vars => Quiet
  BY DEF vars
<1> HIDE DEF Starts0, Quiet, Kept
<1> DEFINE Kind == \/ Quiet
                   \/ \E t \in Sessions : Kept /\ (Starts0(t) \/ Select(t) \/ Ended(t))
                   \/ UNCHANGED world /\ \E t \in Sessions : LockAndFill(t) \/ Commit(t)
                   \/ UNCHANGED world /\ \E o \in Orders : CancelOrder(o)
<1>8. Kind
  <2>1. ASSUME NEW t \in Procs, Request(t) PROVE Kind
    BY <1>1, <2>1
  <2>2. ASSUME NEW t \in Sessions, Step(t) \/ Abort(t) PROVE Kind
    BY <1>3, <1>4, <2>2
  <2>3. ASSUME NEW s \in Sweeps, Sweep(s) PROVE Kind
    BY <1>5, <2>3
  <2>4. ASSUME NEW o \in Orders, CancelOrder(o) PROVE Kind
    BY <1>2, <2>4
  <2>5. ASSUME NEW px \in world.prices, SetPrice(px) PROVE Kind
    BY <1>6, <2>5
  <2>6. CASE UNCHANGED vars
    BY <1>7, <2>6
  <2> HIDE DEF Kind
  <2> QED
    BY <2>1, <2>2, <2>3, <2>4, <2>5, <2>6 DEF Next
<1> QED
  BY <1>8 DEF Starts0, Quiet, Kept

-----------------------------------------------------------------------------
(* Sessions that a step leaves alone.                                      *)

LEMMA SidesFinite ==
  ASSUME NEW side
  PROVE  IsFiniteSet(OnSide(side)) /\ OnSide(side) \subseteq Orders
<1>1. OnSide(side) \in SUBSET Orders
  BY DEF OnSide
<1> QED
  BY <1>1, RowsAssumption, FS_Subset

\* A session that does nothing, while nobody changes what it has locked, is as
\* it was.
LEMMA OtherSession ==
  ASSUME TypeOK, book' \in [Orders -> Row], NEW x \in Sessions, Session(x), tx'[x] = tx[x],
         \A m \in Orders \cap tx[x].locks : book'[m] = book[m],
         tx[x].reserve > 0 /\ Taking(x) =>
           locked'[Owner(tx[x].o)] \in Nat /\ locked'[Owner(tx[x].o)] <= locked[Owner(tx[x].o)]
  PROVE  Session(x)'
<1>1. Taking(x)' = Taking(x) /\ Shaped(x)'
  BY DEF Taking, Shaped, Session
<1>2. Versioned(x)'
  BY DEF Session, Versioned, Version, Reserve, Offered
<1>3. Reserved(x)'
  <2> SUFFICES ASSUME Taking(x), tx[x].reserve > 0
               PROVE  locked'[Owner(tx[x].o)] + tx[x].reserve <= Holding[Owner(tx[x].o)]
    BY <1>1 DEF Session, Reserved
  <2>1. /\ tx[x].reserve \in Int /\ Owner(tx[x].o) \in Users /\ locked[Owner(tx[x].o)] \in Nat
        /\ Holding[Owner(tx[x].o)] \in Nat
    BY Types, TxType, DtoType, HoldingAssumption DEF Session, Shaped
  <2> QED
    BY <2>1 DEF Session, Reserved
<1>4. \A m \in Orders : /\ View(x, m)'.filled - book'[m].filled = View(x, m).filled - book[m].filled
                        /\ View(x, m)'.cost - book'[m].cost = View(x, m).cost - book[m].cost
  <2> TAKE m \in Orders
  <2>1. CASE m \in tx[x].locks
    BY <2>1 DEF View
  <2>2. CASE m \notin tx[x].locks
    <3>1. View(x, m)' = book'[m] /\ View(x, m) = book[m]
      BY <2>2 DEF View
    <3>2. book'[m] \in Row /\ book[m] \in Row
      BY Types
    <3> QED
      BY <3>1, <3>2, RowType
  <2> QED
    BY <2>1, <2>2
<1>5. Gain(x)' = Gain(x) /\ Spent(x)' = Spent(x)
  BY <1>4 DEF Gain, Spent
<1>6. Balanced(x)'
  BY <1>1, <1>5 DEF Session, Balanced, OnSide
<1> QED
  BY <1>1, <1>2, <1>3, <1>6 DEF Session

-----------------------------------------------------------------------------
(* Transactions begin, select and end.                                     *)

\* What a step of session t leaves of the others, and what it may lock.
Alone(t) ==
  /\ tx' \in [Sessions -> TxRec] /\ \A x \in Sessions \ {t} : tx'[x] = tx[x]
  /\ \A r \in tx'[t].locks : r \in tx[t].locks \/ ~HeldByOther(t, r)

LEMMA ExclusiveKept ==
  ASSUME TypeOK, Exclusive, NEW t \in Sessions, Alone(t)
  PROVE  Exclusive'
BY DEF Exclusive, Alone, HeldByOther

\* The sessions other than t, in a step that changes transactions only.
LEMMA OthersAlone ==
  ASSUME IndInv, NEW t \in Sessions, Alone(t), UNCHANGED <<book, locked>>, Session(t)'
  PROVE  \A x \in Sessions : Session(x)'
<1> TAKE x \in Sessions
<1>1. CASE x = t
  BY <1>1
<1>2. CASE x # t
  <2>1. TypeOK /\ Session(x) /\ tx'[x] = tx[x] /\ book \in [Orders -> Row]
    BY <1>2, Types DEF IndInv, Alone
  <2>2. Taking(x) => locked[Owner(tx[x].o)] \in Nat
    BY <2>1, Types, DtoType DEF Session, Shaped
  <2> QED
    BY <2>1, <2>2, OtherSession
<1> QED
  BY <1>1, <1>2

LEMMA BegunEffect ==
  ASSUME TypeOK, NEW t \in Sessions, NEW o \in Orders, NEW row, NEW rows, NEW d,
         Begun(t, o, row, rows, d)
  PROVE  /\ Alone(t) /\ tx'[t].pc \in {"select", "commit"} /\ tx'[t].o = o /\ tx'[t].locks = rows
         /\ tx'[t].reserve = d /\ tx'[t].list = <<>> /\ tx'[t].fills = 0 /\ tx'[t].new[o] = row
         /\ \A x \in Orders \ {o} : tx'[t].new[x] = NoRow
<1>1. PICK pc \in {"select", "commit"} : Begin(t, o, row, rows, d, pc)
  BY DEF Begun
<1> DEFINE rec == [Idle EXCEPT !.pc = pc, !.o = o, !.locks = rows, !.new = [@ EXCEPT ![o] = row], !.reserve = d]
           new == [x \in Orders |-> IF x = o THEN row ELSE NoRow]
<1>2. tx \in [Sessions -> TxRec]
  BY Types
<1>3. tx' = [tx EXCEPT ![t] = rec]
  BY <1>1 DEF Begin
<1>5. rec = [pc |-> pc, o |-> o, locks |-> rows, new |-> new, reserve |-> d, list |-> <<>>, fills |-> 0]
  <2>1. [[x \in Orders |-> NoRow] EXCEPT ![o] = row] = new
    OBVIOUS
  <2>2. Idle.new = [x \in Orders |-> NoRow]
    BY DEF Idle
  <2>3. rec = [Idle EXCEPT !.pc = pc, !.o = o, !.locks = rows, !.new = new, !.reserve = d]
    BY <2>1, <2>2
  <2> HIDE DEF new, rec
  <2> QED
    BY <2>3 DEF Idle
<1>4. /\ rec.pc = pc /\ rec.o = o /\ rec.locks = rows /\ rec.new = new /\ rec.reserve = d
      /\ rec.list = <<>> /\ rec.fills = 0
  <2> HIDE DEF rec, new
  <2> QED
    BY <1>5
<1>6. rec \in TxRec
  <2>1. new \in [Orders -> Row]
    BY NoRowType DEF Begun
  <2>2. rows \subseteq Orders \cup Users
    BY DtoType DEF Begun
  <2>3. d \in Int /\ <<>> \in Seq(Orders)
    BY DEF Begun
  <2> HIDE DEF new, rec
  <2> QED
    BY <1>5, <2>1, <2>2, <2>3 DEF TxRec
<1>7. tx'[t] = rec /\ tx' \in [Sessions -> TxRec] /\ \A x \in Sessions \ {t} : tx'[x] = tx[x]
  <2> HIDE DEF rec
  <2> QED
    BY <1>2, <1>3, <1>6
<1>8. \A r \in rows : ~HeldByOther(t, r)
  BY DEF Begun, Free, HeldByOther
<1> HIDE DEF rec
<1> QED
  BY <1>4, <1>7, <1>8 DEF Alone

LEMMA BegunSession ==
  ASSUME TypeOK, Rows, NEW t \in Sessions, NEW o \in Orders, NEW row, NEW rows, NEW d,
         Begun(t, o, row, rows, d), UNCHANGED <<book, locked>>
  PROVE  Session(t)'
<1>1. /\ Alone(t) /\ tx'[t].pc \in {"select", "commit"} /\ tx'[t].o = o /\ tx'[t].locks = rows
      /\ tx'[t].reserve = d /\ tx'[t].list = <<>> /\ tx'[t].fills = 0 /\ tx'[t].new[o] = row
  BY BegunEffect
<1>2. o \in rows /\ \A m \in Orders \cap rows : m = o
  BY DtoType DEF Begun
<1>3. Shaped(t)' /\ Taking(t)'
  BY <1>1, <1>2 DEF Shaped, Taking, Range
<1>4. Versioned(t)'
  <2> SUFFICES ASSUME NEW m \in Orders \cap tx'[t].locks PROVE Version(t, m, tx[t].new[m])'
    BY DEF Versioned
  <2>1. m = o
    BY <1>1, <1>2
  <2>2. Reserve(t, o)' = d
    BY <1>1 DEF Reserve
  <2> QED
    BY <1>1, <2>1, <2>2 DEF Version, Begun, Open, Offered
<1>5. Reserved(t)'
  BY <1>1 DEF Reserved, Begun
<1>6. \A m \in Orders : View(t, m)'.filled - book'[m].filled = 0 /\ View(t, m)'.cost - book'[m].cost = 0
  <2> TAKE m \in Orders
  <2>0. book[m] \in Row
    BY Types
  <2>1. CASE m = o
    BY <1>1, <1>2, <2>0, <2>1, RowType DEF View, Begun
  <2>2. CASE m # o
    <3>1. View(t, m)' = book'[m]
      BY <1>1, <1>2, <2>2 DEF View
    <3> QED
      BY <2>0, <3>1, RowType
  <2> QED
    BY <2>1, <2>2
<1>7. Balanced(t)'
  <2> DEFINE g == Gain(t)' h == Spent(t)'
  <2>1. \A m \in Orders : g[m] = 0 /\ h[m] = 0
    BY <1>6 DEF Gain, Spent
  <2> HIDE DEF g, h
  <2>2. \A side \in {"BUY", "SELL"} :
          SumFunctionOnSet(g, OnSide(side)) = 0 /\ SumFunctionOnSet(h, OnSide(side)) = 0
    BY <2>1, SidesFinite, SumZero
  <2> QED
    BY <1>1, <2>2 DEF Balanced, g, h, OnSide
<1> QED
  BY <1>3, <1>4, <1>5, <1>7 DEF Session

LEMMA EndedSession ==
  ASSUME TypeOK, NEW t \in Sessions, Ended(t)
  PROVE  Alone(t) /\ Session(t)' /\ ~Taking(t)' /\ tx'[t] = Idle
<1>1. tx \in [Sessions -> TxRec]
  BY Types
<1>2. tx' \in [Sessions -> TxRec] /\ tx'[t] = Idle /\ \A x \in Sessions \ {t} : tx'[x] = tx[x]
  BY <1>1, IdleType DEF Ended
<1>3. Idle.locks = {} /\ Idle.pc = "idle"
  BY DEF Idle
<1>4. tx'[t].locks = {} /\ ~Taking(t)'
  BY <1>2, <1>3 DEF Taking
<1> QED
  BY <1>2, <1>4 DEF Alone, Session, Shaped, Versioned, Reserved, Balanced

\* A SELECT finds orders of the other side.
LEMMA SelectEffect ==
  ASSUME TypeOK, NEW t \in Sessions, Shaped(t), Select(t)
  PROVE  /\ Alone(t) /\ Taking(t) /\ Taking(t)' /\ tx'[t].o = tx[t].o /\ tx'[t].locks = tx[t].locks
         /\ tx'[t].new = tx[t].new /\ tx'[t].reserve = tx[t].reserve /\ tx'[t].fills = tx[t].fills
         /\ \A m \in Range(tx'[t].list) : Dto[m].side # Dto[tx[t].o].side
<1> DEFINE found == {m \in Orders : Matches(t, m)}
<1>1. tx \in [Sessions -> TxRec] /\ tx[t] \in TxRec
  BY Types
<1>2. tx[t].pc = "select" /\ Taking(t)
  BY DEF Select, Taking
<1>3. CASE tx' = [tx EXCEPT ![t].pc = "commit"]
  <2>1. tx'[t] = [tx[t] EXCEPT !.pc = "commit"] /\ \A x \in Sessions \ {t} : tx'[x] = tx[x]
    BY <1>1, <1>3
  <2>2. tx'[t] \in TxRec
    BY <1>1, <2>1 DEF TxRec
  <2>3. tx' \in [Sessions -> TxRec]
    BY <1>1, <1>3, <2>2
  <2>4. /\ tx'[t].pc = "commit" /\ tx'[t].o = tx[t].o /\ tx'[t].locks = tx[t].locks
        /\ tx'[t].new = tx[t].new /\ tx'[t].reserve = tx[t].reserve /\ tx'[t].fills = tx[t].fills
        /\ tx'[t].list = tx[t].list
    BY <1>1, <2>1 DEF TxRec
  <2> QED
    BY <1>2, <2>1, <2>3, <2>4 DEF Alone, Taking, Shaped
<1>4. ASSUME NEW list \in Sorted(t, found), tx' = [tx EXCEPT ![t].pc = "lock", ![t].list = list]
      PROVE  /\ Alone(t) /\ Taking(t)' /\ tx'[t].o = tx[t].o /\ tx'[t].locks = tx[t].locks
             /\ tx'[t].new = tx[t].new /\ tx'[t].reserve = tx[t].reserve /\ tx'[t].fills = tx[t].fills
             /\ \A m \in Range(tx'[t].list) : Dto[m].side # Dto[tx[t].o].side
  <2>0. IsFiniteSet(found)
    <3>1. found \in SUBSET Orders
      OBVIOUS
    <3> QED
      BY <3>1, RowsAssumption, FS_Subset
  <2>1. list \in [1..Cardinality(found) -> found] /\ Cardinality(found) \in Nat /\ Range(list) = found
    BY <2>0, FS_CardinalityType DEF Sorted
  <2>2. list \in Seq(Orders)
    <3> DEFINE c == Cardinality(found)
    <3>1. c \in Nat /\ list \in [1..c -> Orders]
      BY <2>1
    <3> HIDE DEF c
    <3> QED
      BY <3>1
  <2>3. \A m \in Range(list) : Dto[m].side # Dto[tx[t].o].side
    BY <2>1, MatchSides
  <2> HIDE DEF found
  <2>4. /\ tx'[t] = [tx[t] EXCEPT !.pc = "lock", !.list = list]
        /\ \A x \in Sessions \ {t} : tx'[x] = tx[x]
    BY <1>1, <1>4
  <2>5. tx'[t] \in TxRec
    BY <1>1, <2>2, <2>4 DEF TxRec
  <2>6. tx' \in [Sessions -> TxRec]
    BY <1>1, <1>4, <2>5
  <2>7. /\ tx'[t].pc = "lock" /\ tx'[t].o = tx[t].o /\ tx'[t].locks = tx[t].locks
        /\ tx'[t].new = tx[t].new /\ tx'[t].reserve = tx[t].reserve /\ tx'[t].fills = tx[t].fills
        /\ tx'[t].list = list
    BY <1>1, <2>4 DEF TxRec
  <2> QED
    BY <2>3, <2>4, <2>6, <2>7 DEF Alone, Taking
<1>5. \/ tx' = [tx EXCEPT ![t].pc = "commit"]
      \/ \E list \in Sorted(t, found) : tx' = [tx EXCEPT ![t].pc = "lock", ![t].list = list]
  BY DEF Select
<1> HIDE DEF found
<1> QED
  BY <1>2, <1>3, <1>4, <1>5

LEMMA SelectSession ==
  ASSUME TypeOK, NEW t \in Sessions, Session(t), Select(t), UNCHANGED <<book, locked>>
  PROVE  Session(t)'
<1>1. /\ Taking(t) /\ Taking(t)' /\ tx'[t].o = tx[t].o /\ tx'[t].locks = tx[t].locks
      /\ tx'[t].new = tx[t].new /\ tx'[t].reserve = tx[t].reserve /\ tx'[t].fills = tx[t].fills
      /\ \A m \in Range(tx'[t].list) : Dto[m].side # Dto[tx[t].o].side
  BY SelectEffect DEF Session
<1>2. Shaped(t)' /\ Versioned(t)' /\ Reserved(t)'
  BY <1>1 DEF Session, Shaped, Versioned, Version, Reserve, Reserved
<1>3. \A m \in Orders : View(t, m)' = View(t, m)
  BY <1>1 DEF View
<1>4. Gain(t)' = Gain(t) /\ Spent(t)' = Spent(t)
  BY <1>3 DEF Gain, Spent
<1> QED
  BY <1>1, <1>2, <1>4 DEF Session, Balanced, OnSide

-----------------------------------------------------------------------------
(* A round of the matching loop.                                           *)

\* A fill offers no more than before, and leaves the row open or filled.
LEMMA FillOffers ==
  ASSUME NEW row \in Row, NEW n \in Nat, NEW px \in Nat, NEW m \in Orders,
         row.filled <= row.amount, n <= Remaining(row), row.status \in Open \cup {"FILLED"},
         row.status = "FILLED" => row.filled = row.amount
  PROVE  LET r == ApplyFill(row, n, px)
         IN  /\ r.filled <= r.amount /\ r.status \in Open \cup {"FILLED"}
             /\ r.status = "FILLED" => r.filled = r.amount
             /\ Offered(m, r) <= Offered(m, row)
<1> DEFINE r == ApplyFill(row, n, px)
<1>1. /\ r \in Row /\ r.filled = row.filled + n /\ r.amount = row.amount
      /\ r.status = IF row.filled + n >= row.amount THEN "FILLED" ELSE "PARTIAL"
  BY ApplyFillRow
<1>2. row.filled \in Nat /\ row.amount \in Nat /\ n <= row.amount - row.filled
  BY RowType DEF Remaining
<1> HIDE DEF r
<1>3. /\ r.filled <= r.amount /\ r.status \in Open \cup {"FILLED"}
      /\ r.status = "FILLED" => r.filled = r.amount
  BY <1>1, <1>2 DEF Open
<1>4. Offered(m, r) <= Offered(m, row)
  BY <1>1, <1>2 DEF Offered, Remaining, Open
<1> QED
  BY <1>3, <1>4 DEF r

LEMMA OfferedType ==
  ASSUME NEW m \in Orders, NEW row \in Row
  PROVE  Offered(m, row) \in Int /\ (row.filled <= row.amount => Offered(m, row) \in Nat)
BY RowType DEF Offered, Remaining

\* What a transaction sees of any row is what it may make of it.
LEMMA Seen ==
  ASSUME TypeOK, Rows, NEW t \in Sessions, Taking(t), Session(t), NEW m \in Orders
  PROVE  /\ Version(t, m, View(t, m)) /\ (m \notin tx[t].locks => m # tx[t].o /\ View(t, m) = book[m])
         /\ Reserve(t, m) \in Int /\ Offered(m, View(t, m)) \in Int /\ Offered(m, book[m]) \in Int
<1>1. tx[t].reserve \in Int /\ View(t, m) \in Row /\ book[m] \in Row
  BY Types, TxType, ViewType
<1>2. Reserve(t, m) \in Int /\ Offered(m, View(t, m)) \in Int /\ Offered(m, book[m]) \in Int
  BY <1>1, OfferedType DEF Reserve
<1>3. CASE m \in tx[t].locks
  <2>1. View(t, m) = tx[t].new[m]
    BY <1>3 DEF View
  <2> QED
    BY <1>2, <1>3, <2>1 DEF Session, Versioned
<1>4. CASE m \notin tx[t].locks
  <2>1. View(t, m) = book[m] /\ m # tx[t].o
    BY <1>4 DEF View, Session, Shaped
  <2>2. Reserve(t, m) = 0
    BY <2>1 DEF Reserve
  <2>3. Version(t, m, book[m])
    BY <1>2, <2>1, <2>2 DEF Version, Rows
  <2> QED
    BY <1>2, <2>1, <2>3
<1> QED
  BY <1>3, <1>4

LEMMA FillVersions ==
  ASSUME TypeOK, Rows, NEW t \in Sessions, Taking(t), Session(t), UNCHANGED book, Locks(t),
         Skips(t) \/ \E o, m \in Orders, n \in Nat : Fills(t, o, m, n)
  PROVE  Versioned(t)'
<1> SUFFICES ASSUME NEW x \in Orders \cap tx'[t].locks PROVE Version(t, x, tx[t].new[x])'
  BY DEF Versioned
<1>1. tx'[t].new[x] = View(t, x)'
  BY DEF View
<1>2. /\ Version(t, x, View(t, x)) /\ Reserve(t, x) \in Int
      /\ Offered(x, View(t, x)) \in Int /\ Offered(x, book[x]) \in Int
  BY Seen
<1>3. tx'[t].o = tx[t].o /\ Reserve(t, x)' = Reserve(t, x)
  BY DEF Locks, Reserve
<1>4. CASE View(t, x)' = View(t, x)
  BY <1>1, <1>2, <1>3, <1>4 DEF Version, Offered
<1>5. CASE View(t, x)' # View(t, x)
  <2>1. PICK o \in Orders, m \in Orders, n \in Nat : Fills(t, o, m, n)
    BY <1>5 DEF Skips
  <2>2. x \in {o, m} /\ o = tx[t].o /\ m # o /\ View(t, m).status \in Open
    BY <1>5, <2>1, MatchSides DEF Fills, Matches
  <2> DEFINE px == View(t, m).price
             old == View(t, x)
             r == ApplyFill(old, n, px)
  <2>3. View(t, x)' = r /\ n <= Remaining(old)
    BY <2>1, <2>2 DEF Fills
  <2>4. px \in Nat /\ old \in Row /\ book[x] \in Row
    BY ViewType, RowType
  <2>5. /\ old.filled <= old.amount /\ old.status \in Open \cup {"FILLED"}
        /\ old.status = "FILLED" => old.filled = old.amount
    BY <1>2, <2>2 DEF Version, Open
  <2> HIDE DEF px, old
  <2>6. /\ r.filled <= r.amount /\ r.status \in Open \cup {"FILLED"}
        /\ r.status = "FILLED" => r.filled = r.amount
        /\ Offered(x, r) <= Offered(x, old)
    BY <2>3, <2>4, <2>5, FillOffers
  <2>7. r \in Row /\ r.price = old.price /\ Offered(x, r) \in Int
    BY <2>4, ApplyFillRow, OfferedType
  <2> HIDE DEF r
  <2>8. Offered(x, r) <= Offered(x, book[x]) + Reserve(t, x)
    BY <1>2, <2>6, <2>7 DEF Version, old
  <2>9. x # tx[t].o => r.price = book[x].price /\ book[x].status \in Open
    BY <1>2, <2>2, <2>7 DEF Version, old
  <2>10. x = tx[t].o => book[x].status \in Open \cup {"none"}
    BY <1>2 DEF Version
  <2> QED
    BY <1>1, <1>3, <2>3, <2>6, <2>8, <2>9, <2>10 DEF Version, Offered
<1> QED
  BY <1>4, <1>5

LEMMA GainType ==
  ASSUME TypeOK, NEW t \in Sessions, NEW m \in Orders
  PROVE  /\ Gain(t)[m] = View(t, m).filled - book[m].filled /\ Gain(t)[m] \in Int
         /\ Spent(t)[m] = View(t, m).cost - book[m].cost /\ Spent(t)[m] \in Int
<1>1. View(t, m) \in Row /\ book[m] \in Row
  BY ViewType
<1> QED
  BY <1>1, RowType DEF Gain, Spent

\* A sum over one side that changes at one order of each side.
LEMMA SideUpdate ==
  ASSUME NEW f, NEW h, NEW o \in Orders, NEW m \in Orders, Dto[m].side # Dto[o].side, NEW n \in Int,
         \A x \in Orders : f[x] \in Int /\ h[x] \in Int, h[o] = f[o] + n, h[m] = f[m] + n,
         \A x \in Orders \ {o, m} : h[x] = f[x]
  PROVE  \A side \in {"BUY", "SELL"} :
           SumFunctionOnSet(h, OnSide(side)) = SumFunctionOnSet(f, OnSide(side)) + n
<1> TAKE side \in {"BUY", "SELL"}
<1> DEFINE S == OnSide(side)
<1>1. Dto[o].side \in {"BUY", "SELL"} /\ Dto[m].side \in {"BUY", "SELL"}
  BY DtoType
<1>2. PICK e \in {o, m} : e \in S /\ \A x \in {o, m} : x # e => x \notin S
  BY <1>1 DEF OnSide
<1>3. IsFiniteSet(S) /\ S \subseteq Orders
  BY SidesFinite
<1> HIDE DEF S
<1>4. /\ \A x \in S : f[x] \in Int /\ h[x] \in Int
      /\ \A x \in S \ {e} : h[x] = f[x]
  BY <1>2, <1>3
<1>5. SumFunctionOnSet(h, S) = SumFunctionOnSet(f, S) + h[e] - f[e] /\ SumFunctionOnSet(f, S) \in Int
  BY <1>2, <1>3, <1>4, SumUpdate, SumType
<1>6. h[e] = f[e] + n /\ f[e] \in Int
  BY <1>2
<1>7. SumFunctionOnSet(h, S) = SumFunctionOnSet(f, S) + n
  BY <1>5, <1>6
<1> QED
  BY <1>7 DEF S

LEMMA FillBalances ==
  ASSUME TypeOK, book' \in [Orders -> Row], tx' \in [Sessions -> TxRec], Rows,
         NEW t \in Sessions, Taking(t), Session(t), UNCHANGED book, Locks(t),
         Skips(t) \/ \E o, m \in Orders, n \in Nat : Fills(t, o, m, n)
  PROVE  Balanced(t)'
<1>0. Balanced(t)
  BY DEF Session
<1>1. CASE Skips(t)
  <2>1. Gain(t)' = Gain(t) /\ Spent(t)' = Spent(t) /\ tx'[t].fills = tx[t].fills
    BY <1>1 DEF Skips, Gain, Spent
  <2> QED
    BY <1>0, <2>1 DEF Balanced, OnSide
<1>2. CASE \E o, m \in Orders, n \in Nat : Fills(t, o, m, n)
  <2>1. PICK o \in Orders, m \in Orders, n \in Nat : Fills(t, o, m, n)
    BY <1>2
  <2>2. o = tx[t].o /\ Dto[m].side # Dto[o].side /\ m # o
    BY <2>1, MatchSides DEF Fills
  <2> DEFINE px == View(t, m).price
             g == Gain(t)  gg == Gain(t)'
             c == Spent(t) cc == Spent(t)'
  <2>3. \A x \in Orders : View(t, x) \in Row /\ book[x] \in Row
    BY ViewType
  <2>4. px \in Nat /\ n * px \in Int
    BY <2>3, RowType
  <2>5. \A x \in Orders : /\ gg[x] = View(t, x)'.filled - book[x].filled
                          /\ cc[x] = View(t, x)'.cost - book[x].cost
                          /\ g[x] = View(t, x).filled - book[x].filled
                          /\ c[x] = View(t, x).cost - book[x].cost
    BY DEF Gain, Spent
  <2>6. \A x \in {o, m} : /\ View(t, x)'.filled = View(t, x).filled + n
                          /\ View(t, x)'.cost = View(t, x).cost + n * px
    <3>1. \A x \in {o, m} : View(t, x)' = ApplyFill(View(t, x), n, px)
      BY <2>1 DEF Fills
    <3> HIDE DEF px
    <3>2. \A x \in {o, m} : /\ ApplyFill(View(t, x), n, px).filled = View(t, x).filled + n
                            /\ ApplyFill(View(t, x), n, px).cost = View(t, x).cost + n * px
      <4> TAKE x \in {o, m}
      <4> DEFINE row == View(t, x)
      <4>1. row \in Row
        BY <2>3
      <4> HIDE DEF row
      <4>2. /\ ApplyFill(row, n, px).filled = row.filled + n
            /\ ApplyFill(row, n, px).cost = row.cost + n * px
        BY <2>4, <4>1, ApplyFillRow
      <4> QED
        BY <4>2 DEF row
    <3> QED
      BY <3>1, <3>2
  <2>7. \A x \in Orders \ {o, m} : View(t, x)' = View(t, x)
    BY <2>1 DEF Fills
  <2> HIDE DEF g, gg, c, cc, px
  <2>8. \A x \in Orders : /\ View(t, x).filled \in Int /\ View(t, x).cost \in Int
                          /\ book[x].filled \in Int /\ book[x].cost \in Int
    BY <2>3, RowType
  <2>9. \A x \in Orders : g[x] \in Int /\ c[x] \in Int
    BY <2>5, <2>8
  <2>10. \A x \in {o, m} : gg[x] = g[x] + n /\ cc[x] = c[x] + n * px
    BY <2>4, <2>5, <2>6, <2>8
  <2>11. \A x \in Orders \ {o, m} : gg[x] = g[x] /\ cc[x] = c[x]
    BY <2>5, <2>7
  <2>12. \A x \in Orders : gg[x] \in Int /\ cc[x] \in Int
    BY <2>4, <2>9, <2>10, <2>11
  <2>13. \A side \in {"BUY", "SELL"} :
           SumFunctionOnSet(gg, OnSide(side)) = SumFunctionOnSet(g, OnSide(side)) + n
    <3> DEFINE k == n
    <3>1. /\ k \in Int /\ gg[o] = g[o] + k /\ gg[m] = g[m] + k
          /\ \A x \in Orders : g[x] \in Int /\ gg[x] \in Int
          /\ \A x \in Orders \ {o, m} : gg[x] = g[x]
      BY <2>9, <2>10, <2>11, <2>12
    <3> HIDE DEF k
    <3>2. \A side \in {"BUY", "SELL"} :
           SumFunctionOnSet(gg, OnSide(side)) = SumFunctionOnSet(g, OnSide(side)) + k
      BY <2>2, <3>1, SideUpdate
    <3> QED
      BY <3>2 DEF k
  <2>14. \A side \in {"BUY", "SELL"} :
           SumFunctionOnSet(cc, OnSide(side)) = SumFunctionOnSet(c, OnSide(side)) + n * px
    <3> DEFINE k == n * px
    <3>1. /\ k \in Int /\ cc[o] = c[o] + k /\ cc[m] = c[m] + k
          /\ \A x \in Orders : c[x] \in Int /\ cc[x] \in Int
          /\ \A x \in Orders \ {o, m} : cc[x] = c[x]
      BY <2>4, <2>9, <2>10, <2>11, <2>12
    <3> HIDE DEF k
    <3>2. \A side \in {"BUY", "SELL"} :
           SumFunctionOnSet(cc, OnSide(side)) = SumFunctionOnSet(c, OnSide(side)) + k
      BY <2>2, <3>1, SideUpdate
    <3> QED
      BY <3>2 DEF k
  <2>15. tx'[t].fills = tx[t].fills + n
    BY <2>1 DEF Fills
  <2> QED
    BY <1>0, <2>13, <2>14, <2>15 DEF Balanced, OnSide, g, gg, c, cc
<1> QED
  BY <1>1, <1>2

LEMMA FillSession ==
  ASSUME TypeOK, Rows, NEW t \in Sessions, Session(t), LockAndFill(t)
  PROVE  Alone(t) /\ Session(t)'
<1>1. /\ UNCHANGED <<book, locked>> /\ Locks(t) /\ tx' \in [Sessions -> TxRec] /\ Taking(t)
      /\ Skips(t) \/ \E o, m \in Orders, n \in Nat : Fills(t, o, m, n)
  <2>1. Taking(t) /\ Shaped(t) /\ Versioned(t)
    BY DEF Session, LockAndFill, Taking
  <2> QED
    BY <2>1, FillStep
<1>2. Alone(t)
  BY <1>1 DEF Alone, Locks
<1>3. Shaped(t)' /\ Reserved(t)'
  <2>1. Taking(t)' /\ tx'[t].list = <<>> /\ Range(<<>>) = {}
    BY <1>1 DEF Locks, Taking, Range
  <2> QED
    BY <1>1, <2>1 DEF Session, Shaped, Reserved, Locks
<1>4. book' \in [Orders -> Row]
  BY <1>1, Types
<1> QED
  BY <1>1, <1>2, <1>3, <1>4, FillVersions, FillBalances DEF Session

-----------------------------------------------------------------------------
(* A transaction commits.                                                  *)

\* What it writes.
Commits(t) ==
  /\ tx[t].o \in Orders /\ Taking(t) /\ Ended(t)
  /\ book' \in [Orders -> Row] /\ \A m \in Orders : book'[m] = View(t, m)
  /\ locked' = [locked EXCEPT ![Owner(tx[t].o)] = @ + tx[t].reserve]
  /\ traded' = traded + tx[t].fills

LEMMA CommitEffect ==
  ASSUME TypeOK, NEW t \in Sessions, Session(t), Commit(t)
  PROVE  Commits(t)
<1>1. \A m \in Orders : View(t, m) \in Row
  BY ViewType
<1>2. Taking(t) /\ tx[t].o \in Orders
  BY DEF Commit, Taking, Session, Shaped
<1>3. book' = [m \in Orders |-> View(t, m)]
  BY DEF Commit
<1>4. book' \in [Orders -> Row] /\ \A m \in Orders : book'[m] = View(t, m)
  BY <1>1, <1>3
<1>5. /\ Ended(t) /\ locked' = [locked EXCEPT ![Owner(tx[t].o)] = @ + tx[t].reserve]
      /\ traded' = traded + tx[t].fills
  BY DEF Commit, Ended
<1> QED
  BY <1>2, <1>4, <1>5 DEF Commits

LEMMA CommitRows ==
  ASSUME TypeOK, Rows, NEW t \in Sessions, Session(t), Commits(t)
  PROVE  Rows'
<1> SUFFICES ASSUME NEW m \in Orders
             PROVE  /\ book'[m].status = "none" => book'[m] = NoRow
                    /\ book'[m].filled <= book'[m].amount
  BY DEF Rows
<1>1. Version(t, m, book'[m])
  BY Seen DEF Commits
<1>2. book[m].status = "none" => book[m] = NoRow
  BY DEF Rows
<1> QED
  BY <1>1, <1>2 DEF Version, Open

LEMMA CommitTraded ==
  ASSUME TypeOK, Traded, NEW t \in Sessions, Session(t), Commits(t)
  PROVE  Traded' /\ traded' \in Nat
<1> DEFINE f == FilledOf  ff == FilledOf'  g == Gain(t)
           c == CostOf    cc == CostOf'    h == Spent(t)
<1>1. \A m \in Orders : /\ f[m] = book[m].filled /\ c[m] = book[m].cost
                        /\ ff[m] = View(t, m).filled /\ cc[m] = View(t, m).cost
  BY DEF FilledOf, CostOf, Commits
<1>2. \A m \in Orders : /\ g[m] = View(t, m).filled - book[m].filled /\ g[m] \in Int
                        /\ h[m] = View(t, m).cost - book[m].cost /\ h[m] \in Int
  BY GainType
<1>3. \A m \in Orders : /\ book[m].filled \in Nat /\ book[m].cost \in Nat
                        /\ View(t, m).filled \in Nat /\ View(t, m).cost \in Nat
  BY ViewType, RowType
<1>4. tx[t].fills \in Nat /\ traded \in Nat
  BY Types, TxType
<1> HIDE DEF f, ff, g, c, cc, h
<1>5. \A m \in Orders : /\ f[m] \in Int /\ g[m] \in Int /\ ff[m] = f[m] + g[m]
                        /\ c[m] \in Int /\ h[m] \in Int /\ cc[m] = c[m] + h[m]
  BY <1>1, <1>2, <1>3
<1>6. ASSUME NEW side \in {"BUY", "SELL"}
      PROVE  /\ SumFunctionOnSet(ff, OnSide(side)) =
                  SumFunctionOnSet(f, OnSide(side)) + SumFunctionOnSet(g, OnSide(side))
             /\ SumFunctionOnSet(cc, OnSide(side)) =
                  SumFunctionOnSet(c, OnSide(side)) + SumFunctionOnSet(h, OnSide(side))
  <2> DEFINE S == OnSide(side)
  <2>1. IsFiniteSet(S) /\ S \subseteq Orders
    BY SidesFinite
  <2> HIDE DEF S
  <2>2. /\ \A m \in S : f[m] \in Int /\ g[m] \in Int /\ ff[m] = f[m] + g[m]
        /\ \A m \in S : c[m] \in Int /\ h[m] \in Int /\ cc[m] = c[m] + h[m]
    BY <1>5, <2>1
  <2>3. /\ SumFunctionOnSet(ff, S) = SumFunctionOnSet(f, S) + SumFunctionOnSet(g, S)
        /\ SumFunctionOnSet(cc, S) = SumFunctionOnSet(c, S) + SumFunctionOnSet(h, S)
    BY <2>1, <2>2, SumPlus
  <2> QED
    BY <2>3 DEF S
<1>7. /\ \A side \in {"BUY", "SELL"} : SumFunctionOnSet(f, OnSide(side)) = traded
      /\ SumFunctionOnSet(c, OnSide("BUY")) = SumFunctionOnSet(c, OnSide("SELL"))
  BY DEF Traded, f, c
<1>8. /\ \A side \in {"BUY", "SELL"} : SumFunctionOnSet(g, OnSide(side)) = tx[t].fills
      /\ SumFunctionOnSet(h, OnSide("BUY")) = SumFunctionOnSet(h, OnSide("SELL"))
  BY DEF Session, Balanced, Commits, g, h
<1>9. /\ \A side \in {"BUY", "SELL"} : SumFunctionOnSet(ff, OnSide(side)) = traded'
      /\ SumFunctionOnSet(cc, OnSide("BUY")) = SumFunctionOnSet(cc, OnSide("SELL"))
  BY <1>6, <1>7, <1>8 DEF Commits
<1>10. traded' \in Nat
  BY <1>4 DEF Commits
<1> QED
  BY <1>9, <1>10 DEF Traded, ff, cc, OnSide

\* What every row offers for sale.
OffersOf == [o \in Orders |-> Offered(o, book[o])]

LEMMA OwnersFinite ==
  ASSUME NEW u
  PROVE  IsFiniteSet(OrdersOf(u)) /\ OrdersOf(u) \subseteq Orders
<1>1. OrdersOf(u) \in SUBSET Orders
  BY DEF OrdersOf
<1> QED
  BY <1>1, RowsAssumption, FS_Subset

LEMMA OffersType ==
  ASSUME book \in [Orders -> Row], Rows
  PROVE  \A m \in Orders : OffersOf[m] = Offered(m, book[m]) /\ OffersOf[m] \in Nat
BY OfferedType DEF OffersOf, Rows

LEMMA CommitReserves ==
  ASSUME TypeOK, Rows, Rows', SellsReserved, NEW t \in Sessions, Session(t), Commits(t)
  PROVE  SellsReserved' /\ locked' \in [Users -> Nat]
<1> DEFINE o == tx[t].o
           d == tx[t].reserve
           f == OffersOf
           ff == OffersOf'
           h == [m \in Orders |-> f[m] + Reserve(t, m)]
<1>1. /\ o \in Orders /\ Owner(o) \in Users /\ d \in Int /\ locked \in [Users -> Nat]
      /\ book \in [Orders -> Row] /\ book' \in [Orders -> Row]
  BY Types, TxType, DtoType DEF Commits
<1>2. \A m \in Orders : f[m] = Offered(m, book[m]) /\ f[m] \in Nat
  BY <1>1, OffersType
<1>3. \A m \in Orders : ff[m] = Offered(m, book'[m]) /\ ff[m] \in Nat
  BY <1>1, OfferedType DEF OffersOf, Rows
<1>4. \A m \in Orders : Offered(m, book'[m]) <= Offered(m, book[m]) + Reserve(t, m)
  BY Seen DEF Commits, Version
<1>5. \A m \in Orders : /\ h[m] = f[m] + Reserve(t, m) /\ Reserve(t, m) \in Int
                        /\ Reserve(t, m) = IF m = o THEN d ELSE 0
  BY <1>1 DEF Reserve
<1>0. locked' = [locked EXCEPT ![Owner(o)] = @ + d] /\ Taking(t)
  BY DEF Commits
<1>00. o \in tx[t].locks /\ (d > 0 => locked[Owner(o)] + d <= Holding[Owner(o)])
  BY <1>0 DEF Session, Shaped, Reserved
<1> HIDE DEF f, ff, h, o, d
<1>6. \A m \in Orders : h[m] \in Int /\ ff[m] <= h[m] /\ h[m] = f[m] + (IF m = o THEN d ELSE 0)
  BY <1>2, <1>3, <1>4, <1>5
<1>7. ASSUME NEW u \in Users
      PROVE  /\ SumFunctionOnSet(ff, OrdersOf(u)) <= locked'[u] /\ locked'[u] <= Holding[u]
             /\ locked'[u] \in Nat
  <2> DEFINE S == OrdersOf(u)
             Sum(k) == SumFunctionOnSet(k, S)
  <2>1. IsFiniteSet(S) /\ S \subseteq Orders /\ (o \in S <=> u = Owner(o))
    BY <1>1, OwnersFinite DEF OrdersOf
  <2>2. Sum(f) <= locked[u] /\ locked[u] <= Holding[u] /\ locked[u] \in Nat /\ Holding[u] \in Nat
    BY <1>1, HoldingAssumption DEF SellsReserved, f, OffersOf
  <2> HIDE DEF S
  <2>3. Sum(ff) \in Nat /\ Sum(f) \in Nat /\ Sum(h) \in Int
    BY <1>2, <1>3, <1>6, <2>1, SumNonnegative, SumType
  <2>4. Sum(ff) <= Sum(h)
    BY <1>3, <1>6, <2>1, SumMonotone
  <2>5. CASE u = Owner(o)
    <3>0. \A m \in S : f[m] \in Int /\ h[m] \in Int
      BY <1>2, <1>6, <2>1
    <3>1. \A m \in S \ {o} : h[m] = f[m]
      BY <1>2, <1>6, <2>1
    <3>2. Sum(h) = Sum(f) + h[o] - f[o]
      BY <2>1, <2>5, <3>0, <3>1, SumUpdate
    <3>3. h[o] = f[o] + d /\ f[o] \in Int
      BY <1>1, <1>2, <1>6
    <3>4. Sum(h) = Sum(f) + d
      BY <1>1, <2>3, <3>2, <3>3
    <3>5. locked'[u] = locked[u] + d
      BY <1>0, <1>1, <2>5
    <3>6. Sum(ff) <= locked'[u] /\ locked'[u] \in Nat
      <4> HIDE DEF Sum
      <4> QED
        BY <1>1, <2>2, <2>3, <2>4, <3>4, <3>5
    <3>7. locked'[u] <= Holding[u]
      BY <1>1, <1>00, <2>2, <2>5, <3>5
    <3> QED
      BY <3>6, <3>7 DEF S
  <2>6. CASE u # Owner(o)
    <3>1. \A m \in S : f[m] \in Int /\ h[m] = f[m]
      BY <1>2, <1>6, <2>1, <2>6
    <3>2. Sum(h) = Sum(f)
      BY <2>1, <3>1, SumAgree
    <3>3. locked'[u] = locked[u]
      BY <1>0, <1>1, <2>6
    <3>4. Sum(ff) <= locked'[u]
      <4> HIDE DEF Sum
      <4> QED
        BY <2>2, <2>3, <2>4, <3>2, <3>3
    <3> QED
      BY <2>2, <3>3, <3>4 DEF S
  <2> QED
    BY <2>5, <2>6
<1>8. locked' \in [Users -> Nat]
  <2>1. DOMAIN locked' = Users /\ locked' = [u \in Users |-> locked'[u]]
    BY <1>0, <1>1
  <2> QED
    BY <1>7, <2>1
<1> QED
  BY <1>7, <1>8 DEF SellsReserved, ff, OffersOf, OrdersOf

LEMMA CommitOthers ==
  ASSUME IndInv, NEW t \in Sessions, Commits(t)
  PROVE  Exclusive' /\ \A x \in Sessions : Session(x)'
<1>1. TypeOK /\ Exclusive /\ Alone(t) /\ Session(t)' /\ locked \in [Users -> Nat] /\ Session(t)
  BY Types, EndedSession DEF IndInv, Commits
<1>2. Exclusive'
  BY <1>1, ExclusiveKept
<1>3. ASSUME NEW x \in Sessions, x # t PROVE Session(x)'
  <2>1. Session(x) /\ tx'[x] = tx[x] /\ tx[x].locks \cap tx[t].locks = {}
    BY <1>1, <1>3 DEF IndInv, Alone, Exclusive
  <2>2. \A m \in Orders \cap tx[x].locks : book'[m] = book[m]
    BY <2>1 DEF Commits, View
  <2>3. ASSUME tx[x].reserve > 0, Taking(x)
        PROVE  locked'[Owner(tx[x].o)] = locked[Owner(tx[x].o)] /\ locked[Owner(tx[x].o)] \in Nat
    <3>1. tx[x].o \in Orders /\ tx[x].reserve \in Int /\ tx[t].reserve \in Int /\ tx[t].o \in Orders
      BY <1>1, <2>1, <2>3, Types, TxType DEF Session, Shaped, Commits
    <3>2. Owner(tx[x].o) \in Users /\ Owner(tx[t].o) \in Users
      BY <3>1, DtoType
    <3>3. Owner(tx[x].o) \in tx[x].locks
      BY <2>1, <2>3, <3>1 DEF Session, Reserved
    <3>4. tx[t].reserve # 0 => Owner(tx[t].o) # Owner(tx[x].o)
      BY <1>1, <2>1, <3>3 DEF Session, Reserved, Commits
    <3> QED
      BY <1>1, <3>1, <3>2, <3>4 DEF Commits
  <2>4. book' \in [Orders -> Row]
    BY DEF Commits
  <2> QED
    BY <1>1, <2>1, <2>2, <2>3, <2>4, OtherSession
<1> QED
  BY <1>1, <1>2, <1>3

-----------------------------------------------------------------------------
(* An order is cancelled.                                                  *)

LEMMA CancelEffect ==
  ASSUME TypeOK, Rows, NEW o \in Orders, CancelOrder(o)
  PROVE  /\ book[o].status \in Open /\ book' \in [Orders -> Row] /\ UNCHANGED <<traded, tx>> /\ Free(o)
         /\ book'[o].status = "CANCELLED" /\ book'[o].amount = book[o].amount
         /\ book'[o].filled = book[o].filled /\ book'[o].cost = book[o].cost
         /\ book'[o].ref = book[o].ref /\ book'[o].delta = book[o].delta
         /\ \A m \in Orders \ {o} : book'[m] = book[m]
         /\ \A u \in Users : locked'[u] =
              IF Sells(o) /\ u = Owner(o)
              THEN IF locked[u] >= Remaining(book[o]) THEN locked[u] - Remaining(book[o]) ELSE 0
              ELSE locked[u]
         /\ locked' \in [Users -> Nat]
<1>1. book \in [Orders -> Row] /\ locked \in [Users -> Nat] /\ book[o] \in Row /\ Owner(o) \in Users
  BY Types, DtoType
<1>2. book[o].status \in Open
  BY <1>1, RowType DEF CancelOrder
<1>3. book' = [book EXCEPT ![o].status = "CANCELLED"] /\ UNCHANGED <<traded, tx>> /\ Free(o)
  BY DEF CancelOrder
<1>4. book'[o] = [book[o] EXCEPT !.status = "CANCELLED"] /\ \A m \in Orders \ {o} : book'[m] = book[m]
  BY <1>1, <1>3
<1>5. book'[o] \in Row
  BY <1>1, <1>4 DEF Row
<1>6. book' \in [Orders -> Row]
  BY <1>1, <1>3, <1>5
<1>7. /\ book'[o].status = "CANCELLED" /\ book'[o].amount = book[o].amount
      /\ book'[o].filled = book[o].filled /\ book'[o].cost = book[o].cost
      /\ book'[o].ref = book[o].ref /\ book'[o].delta = book[o].delta
  BY <1>1, <1>4 DEF Row
<1> DEFINE r == Remaining(book[o])
           left == locked[Owner(o)] - r
<1>8. r \in Nat
  BY <1>1, RemainingType DEF Rows
<1> HIDE DEF r
<1>9. left \in Int /\ Max({0, left}) = (IF locked[Owner(o)] >= r THEN left ELSE 0) /\ Max({0, left}) \in Nat
  <2>1. left \in Int
    BY <1>1, <1>8
  <2> HIDE DEF left
  <2>2. Max({0, left}) = IF 0 >= left THEN 0 ELSE left
    BY <2>1, MaxOfTwo
  <2> QED
    BY <1>1, <1>8, <2>1, <2>2 DEF left
<1>10. locked' = IF Sells(o) THEN [locked EXCEPT ![Owner(o)] = Max({0, left})] ELSE locked
  BY DEF CancelOrder, r
<1>11. /\ \A u \in Users : locked'[u] =
            IF Sells(o) /\ u = Owner(o) THEN IF locked[u] >= r THEN locked[u] - r ELSE 0 ELSE locked[u]
       /\ locked' \in [Users -> Nat]
  <2> DEFINE x == Max({0, left})
  <2> HIDE DEF x
  <2>1. x = (IF locked[Owner(o)] >= r THEN locked[Owner(o)] - r ELSE 0) /\ x \in Nat
    BY <1>9 DEF x
  <2>2. locked' = IF Sells(o) THEN [locked EXCEPT ![Owner(o)] = x] ELSE locked
    BY <1>10 DEF x
  <2> QED
    BY <1>1, <2>1, <2>2
<1> QED
  BY <1>2, <1>3, <1>4, <1>6, <1>7, <1>11 DEF r

LEMMA CancelReserves ==
  ASSUME TypeOK, Rows, SellsReserved, NEW o \in Orders, CancelOrder(o)
  PROVE  SellsReserved'
<1> DEFINE r == Remaining(book[o])
           f == OffersOf
           ff == OffersOf'
<1>1. /\ book[o].status \in Open /\ book' \in [Orders -> Row] /\ book'[o].status = "CANCELLED"
      /\ \A m \in Orders \ {o} : book'[m] = book[m]
      /\ \A u \in Users : locked'[u] =
           IF Sells(o) /\ u = Owner(o) THEN IF locked[u] >= r THEN locked[u] - r ELSE 0 ELSE locked[u]
  BY CancelEffect
<1>2. /\ book \in [Orders -> Row] /\ locked \in [Users -> Nat] /\ book[o] \in Row /\ Owner(o) \in Users
      /\ r \in Nat
  BY Types, DtoType, RemainingType DEF Rows
<1>3. \A m \in Orders : f[m] \in Nat /\ f[m] = Offered(m, book[m])
  BY <1>2, OffersType
<1>4. \A m \in Orders : ff[m] = Offered(m, book'[m])
  BY DEF OffersOf
<1>5. ff[o] = 0 /\ f[o] = IF Sells(o) THEN r ELSE 0
  BY <1>1, <1>3, <1>4 DEF Offered, Open
<1>6. \A m \in Orders \ {o} : ff[m] = f[m]
  BY <1>1, <1>3, <1>4
<1> HIDE DEF f, ff, r
<1>7. ASSUME NEW u \in Users
      PROVE  SumFunctionOnSet(ff, OrdersOf(u)) <= locked'[u] /\ locked'[u] <= Holding[u]
  <2> DEFINE S == OrdersOf(u)
             Sum(k) == SumFunctionOnSet(k, S)
  <2>1. IsFiniteSet(S) /\ S \subseteq Orders /\ (o \in S <=> u = Owner(o))
    BY <1>1, OwnersFinite DEF OrdersOf
  <2>2. Sum(f) <= locked[u] /\ locked[u] <= Holding[u] /\ locked[u] \in Nat /\ Holding[u] \in Nat
    BY <1>2, HoldingAssumption DEF SellsReserved, f, OffersOf
  <2> HIDE DEF S
  <2>0. \A m \in S : f[m] \in Nat /\ f[m] \in Int /\ ff[m] \in Int
    BY <1>3, <1>5, <1>6, <2>1
  <2>3. Sum(f) \in Nat
    BY <2>0, <2>1, SumNonnegative
  <2>4. CASE u = Owner(o)
    <3>1. \A m \in S \ {o} : ff[m] = f[m]
      BY <1>6, <2>1
    <3>2. Sum(ff) = Sum(f) + ff[o] - f[o] /\ f[o] <= Sum(f)
      BY <2>0, <2>1, <2>4, <3>1, SumUpdate, SumBounds
    <3> HIDE DEF Sum
    <3>3. Sum(ff) <= locked'[u] /\ locked'[u] <= Holding[u]
      BY <1>1, <1>2, <1>5, <2>2, <2>3, <2>4, <3>2
    <3> QED
      BY <3>3 DEF Sum, S
  <2>5. CASE u # Owner(o)
    <3>1. \A m \in S : f[m] \in Int /\ ff[m] = f[m]
      BY <1>6, <2>0, <2>1, <2>5
    <3>2. Sum(ff) = Sum(f)
      BY <2>1, <3>1, SumAgree
    <3>3. locked'[u] = locked[u]
      BY <1>1, <2>5
    <3> HIDE DEF Sum
    <3>4. Sum(ff) <= locked'[u] /\ locked'[u] <= Holding[u]
      BY <2>2, <2>3, <3>2, <3>3
    <3> QED
      BY <3>4 DEF Sum, S
  <2> QED
    BY <2>4, <2>5
<1> QED
  BY <1>7 DEF SellsReserved, ff, OffersOf, OrdersOf

LEMMA CancelKeeps ==
  ASSUME IndInv, NEW o \in Orders, CancelOrder(o)
  PROVE  /\ Exclusive' /\ Rows' /\ Traded' /\ SellsReserved' /\ \A x \in Sessions : Session(x)'
         /\ book' \in [Orders -> Row] /\ locked' \in [Users -> Nat]
<1>0. TypeOK /\ Exclusive /\ Rows /\ Traded /\ SellsReserved
  BY DEF IndInv
<1>1. /\ book[o].status \in Open /\ book' \in [Orders -> Row] /\ UNCHANGED <<traded, tx>> /\ Free(o)
      /\ book'[o].status = "CANCELLED" /\ book'[o].amount = book[o].amount
      /\ book'[o].filled = book[o].filled /\ book'[o].cost = book[o].cost
      /\ \A m \in Orders \ {o} : book'[m] = book[m]
  BY <1>0, CancelEffect
<1>2. /\ \A u \in Users : locked'[u] =
           IF Sells(o) /\ u = Owner(o)
           THEN IF locked[u] >= Remaining(book[o]) THEN locked[u] - Remaining(book[o]) ELSE 0
           ELSE locked[u]
      /\ locked' \in [Users -> Nat]
  BY <1>0, CancelEffect
<1>3. Exclusive' /\ Rows'
  BY <1>0, <1>1 DEF Exclusive, Rows
<1>4. FilledOf' = FilledOf /\ CostOf' = CostOf
  <2>1. \A m \in Orders : book'[m].filled = book[m].filled /\ book'[m].cost = book[m].cost
    BY <1>1
  <2> QED
    BY <2>1 DEF FilledOf, CostOf
<1>5. Traded'
  BY <1>0, <1>1, <1>4 DEF Traded, OnSide
<1>6. SellsReserved'
  BY <1>0, CancelReserves
<1>7. ASSUME NEW x \in Sessions PROVE Session(x)'
  <2>1. /\ Session(x) /\ tx'[x] = tx[x]
        /\ \A m \in Orders \cap tx[x].locks : book'[m] = book[m]
    BY <1>1, <1>7 DEF IndInv, Free
  <2>2. Remaining(book[o]) \in Nat /\ locked \in [Users -> Nat]
    BY <1>0, Types, RemainingType DEF Rows
  <2>3. ASSUME Taking(x)
        PROVE  locked'[Owner(tx[x].o)] \in Nat /\ locked'[Owner(tx[x].o)] <= locked[Owner(tx[x].o)]
    <3>1. Owner(tx[x].o) \in Users
      BY <2>1, <2>3, DtoType DEF Session, Shaped
    <3> QED
      BY <1>2, <2>2, <3>1
  <2> QED
    BY <1>0, <1>1, <2>1, <2>3, OtherSession
<1> QED
  BY <1>1, <1>2, <1>3, <1>5, <1>6, <1>7

-----------------------------------------------------------------------------
(* The counters, the price and the sweeps.                                 *)

LEMMA Counters ==
  ASSUME TypeOK, [Next]_vars
  PROVE  /\ UNCHANGED world /\ price' \in Prices /\ changes' \in 0..world'.changes
         /\ failed' \in 0..world'.faults
<1>1. /\ price \in Prices /\ changes \in 0..world.changes /\ failed \in 0..world.faults
      /\ world.prices \subseteq Prices /\ world.changes \in Nat /\ world.faults \in Nat
  BY Types, WorldType
<1> DEFINE Fixed == UNCHANGED <<world, price, changes, failed>>
           OK == /\ UNCHANGED world /\ price' \in Prices /\ changes' \in 0..world.changes
                 /\ failed' \in 0..world.faults
<1>2. Fixed => OK
  BY <1>1
<1>3. ASSUME NEW t \in Procs, Request(t) PROVE OK
  <2>1. PICK o \in Orders : PlaceOrder(t, o) \/ \E c \in Changes : ModifyOrder(t, o, c)
    BY <1>3 DEF Request
  <2>2. CASE PlaceOrder(t, o)
    BY <1>2, <2>2 DEF PlaceOrder
  <2>3. CASE \E c \in Changes : ModifyOrder(t, o, c)
    <3>1. UNCHANGED <<world, price, failed>> /\ changes < world.changes /\ changes' = changes + 1
      BY <2>3 DEF ModifyOrder
    <3> QED
      BY <1>1, <3>1
  <2> QED
    BY <2>1, <2>2, <2>3
<1>4. ASSUME NEW o \in Orders, CancelOrder(o) PROVE OK
  BY <1>2, <1>4 DEF CancelOrder
<1>5. ASSUME NEW t \in Sessions, Step(t) PROVE OK
  BY <1>2, <1>5 DEF Step, Select, LockAndFill, Commit
<1>6. ASSUME NEW t \in Sessions, Abort(t) PROVE OK
  <2>1. /\ UNCHANGED <<world, price, changes>>
        /\ failed' = failed \/ (failed < world.faults /\ failed' = failed + 1)
    BY <1>6 DEF Abort
  <2> QED
    BY <1>1, <2>1
<1>7. ASSUME NEW s \in Sweeps, Sweep(s) PROVE OK
  BY <1>2, <1>7 DEF Sweep, SweepStart, SweepPrice, ProcessStop, Trigger, StillPending, SweepEnd
<1>8. ASSUME NEW px \in world.prices, SetPrice(px) PROVE OK
  BY <1>1, <1>8 DEF SetPrice
<1>9. UNCHANGED vars => OK
  BY <1>2 DEF vars
<1>10. OK
  <2> HIDE DEF OK
  <2> QED
    BY <1>3, <1>4, <1>5, <1>6, <1>7, <1>8, <1>9 DEF Next
<1> QED
  BY <1>10

\* Which sweep moves, and that it moves alone.
Moves(s, rec) ==
  /\ rec \in SweepRec /\ Read(rec) /\ sweep' = [sweep EXCEPT ![s] = rec]
  /\ tx'[s] # Idle => rec.pc = "match"
  /\ \A x \in Sweeps \ {s} : tx'[x] = tx[x]

Rests == UNCHANGED sweep /\ \A s \in Sweeps : tx'[s] # Idle => tx[s] # Idle

LEMMA SweepsKept ==
  ASSUME TypeOK, Trails, Rests \/ \E s \in Sweeps : \E rec : Moves(s, rec)
  PROVE  sweep' \in [Sweeps -> SweepRec] /\ \A s \in Sweeps : Sweeping(s)'
<1>1. sweep \in [Sweeps -> SweepRec] /\ \A s \in Sweeps : Sweeping(s)
  BY Types DEF Trails
<1>2. CASE Rests
  BY <1>1, <1>2 DEF Rests, Sweeping, Read, Trailing
<1>3. CASE \E s \in Sweeps : \E rec : Moves(s, rec)
  <2>0. PICK s \in Sweeps : \E rec : Moves(s, rec)
    BY <1>3
  <2>1. PICK rec : Moves(s, rec)
    BY <2>0
  <2>2. /\ rec \in SweepRec /\ Read(rec) /\ sweep' = [sweep EXCEPT ![s] = rec]
        /\ tx'[s] # Idle => rec.pc = "match"
        /\ \A x \in Sweeps \ {s} : tx'[x] = tx[x]
    BY <2>1 DEF Moves
  <2>3. sweep' \in [Sweeps -> SweepRec] /\ sweep'[s] = rec /\ \A x \in Sweeps \ {s} : sweep'[x] = sweep[x]
    BY <1>1, <2>2
  <2>4. Sweeping(s)'
    BY <2>2, <2>3 DEF Sweeping, Read, Trailing
  <2>5. \A x \in Sweeps \ {s} : Sweeping(x)'
    BY <1>1, <2>2, <2>3 DEF Sweeping, Read, Trailing
  <2> QED
    BY <2>3, <2>4, <2>5
<1> QED
  BY <1>2, <1>3

\* A session that ends its transaction lets its sweep go on.
LEMMA NextStopMoves ==
  ASSUME TypeOK, Trails, NEW t \in Sessions, NextStop(t), \A x \in Sessions \ {t} : tx'[x] = tx[x],
         t \in Sweeps => /\ sweep[t].pc \in {"trigger", "match"} /\ tx'[t] = Idle
  PROVE  Rests \/ \E s \in Sweeps : \E rec : Moves(s, rec)
<1>0. Sweeps \subseteq Sessions /\ sweep \in [Sweeps -> SweepRec]
  BY Types DEF Sessions
<1>1. CASE t \notin Sweeps
  BY <1>0, <1>1 DEF NextStop, Rests
<1>2. CASE t \in Sweeps
  <2> DEFINE rec == [sweep[t] EXCEPT !.pc = "each", !.o = None]
  <2>1. sweep[t] \in SweepRec /\ Read(sweep[t]) /\ sweep[t].px > 0
    BY <1>0, <1>2 DEF Trails, Sweeping, Read
  <2>2. /\ rec \in SweepRec /\ rec.pc = "each" /\ rec.todo = sweep[t].todo /\ rec.snap = sweep[t].snap
        /\ rec.px = sweep[t].px
    BY <2>1 DEF SweepRec
  <2>3. sweep' = [sweep EXCEPT ![t] = rec]
    BY <1>0, <1>2 DEF NextStop
  <2> HIDE DEF rec
  <2>4. Read(rec)
    BY <2>1, <2>2 DEF Read
  <2>5. Moves(t, rec)
    BY <1>0, <1>2, <2>2, <2>3, <2>4 DEF Moves
  <2> QED
    BY <1>2, <2>5
<1> QED
  BY <1>1, <1>2

LEMMA SweepActions ==
  ASSUME TypeOK, Rows, Trails, NEW s \in Sweeps, Sweep(s)
  PROVE  Rests \/ \E x \in Sweeps : \E rec : Moves(x, rec)
<1>0. /\ Sweeps \subseteq Sessions /\ sweep[s] \in SweepRec /\ sweep \in [Sweeps -> SweepRec]
      /\ Sweeping(s) /\ price \in Nat \ {0} /\ book \in [Orders -> Row]
      /\ \A o \in Orders : Trailing(o, book[o])
  BY Types, HoldingAssumption DEF Sessions, Trails
<1>1. CASE SweepStart(s)
  <2> DEFINE D == {o \in Orders : Dormant(o)}
             rec == [Asleep EXCEPT !.pc = "price", !.snap = book, !.todo = D]
  <2>1. /\ rec \in SweepRec /\ rec.pc = "price" /\ rec.snap = book /\ rec.todo = D
    <3>1. D \subseteq Orders
      OBVIOUS
    <3> HIDE DEF D
    <3> QED
      BY <1>0, <3>1, AsleepType DEF SweepRec
  <2>2. \A o \in D : book[o].status # "none"
    BY DEF Dormant
  <2>3. /\ sweep' = [sweep EXCEPT ![s] = rec] /\ UNCHANGED tx /\ sweep[s].pc = "idle"
    BY <1>1 DEF SweepStart
  <2> HIDE DEF rec, D
  <2>4. Read(rec)
    BY <1>0, <2>1, <2>2 DEF Read
  <2>5. Moves(s, rec)
    BY <1>0, <2>1, <2>3, <2>4 DEF Moves, Sweeping
  <2> QED
    BY <2>5
<1>2. CASE SweepPrice(s)
  <2> DEFINE rec == [sweep[s] EXCEPT !.pc = "each", !.px = price]
  <2>1. /\ rec \in SweepRec /\ rec.pc = "each" /\ rec.snap = sweep[s].snap /\ rec.todo = sweep[s].todo
        /\ rec.px = price
    BY <1>0 DEF SweepRec
  <2>3. sweep' = [sweep EXCEPT ![s] = rec] /\ UNCHANGED tx /\ sweep[s].pc = "price"
    BY <1>0, <1>2 DEF SweepPrice
  <2> HIDE DEF rec
  <2>4. Read(rec)
    BY <1>0, <2>1 DEF Read, Sweeping
  <2>5. Moves(s, rec)
    BY <1>0, <2>1, <2>3, <2>4 DEF Moves, Sweeping
  <2> QED
    BY <2>5
<1>3. CASE \E o \in Orders : ProcessStop(s, o)
  <2>0. PICK o \in Orders : ProcessStop(s, o)
    BY <1>3
  <2> DEFINE on == [sweep[s] EXCEPT !.pc = "trigger", !.o = o, !.todo = @ \ {o}]
             off == [sweep[s] EXCEPT !.todo = @ \ {o}]
  <2>1. /\ on \in SweepRec /\ on.pc = "trigger" /\ on.snap = sweep[s].snap /\ on.px = sweep[s].px
        /\ on.todo = sweep[s].todo \ {o} /\ on.o = o
    BY <1>0 DEF SweepRec
  <2>2. /\ off \in SweepRec /\ off.pc = sweep[s].pc /\ off.snap = sweep[s].snap /\ off.px = sweep[s].px
        /\ off.todo = sweep[s].todo \ {o} /\ off.o = sweep[s].o
    BY <1>0 DEF SweepRec
  <2>3. /\ UNCHANGED tx /\ sweep[s].pc = "each"
        /\ sweep' = [sweep EXCEPT ![s] = on] \/ sweep' = [sweep EXCEPT ![s] = off]
    BY <1>0, <2>0 DEF ProcessStop
  <2> HIDE DEF on, off
  <2>4. Read(on) /\ Read(off)
    BY <1>0, <2>1, <2>2, <2>3 DEF Read, Sweeping
  <2>5. tx'[s] = Idle /\ \A x \in Sweeps \ {s} : tx'[x] = tx[x]
    BY <1>0, <2>3 DEF Sweeping
  <2>6. Moves(s, on) \/ Moves(s, off)
    BY <2>1, <2>2, <2>3, <2>4, <2>5 DEF Moves
  <2> QED
    BY <2>6
<1>4. CASE Trigger(s)
  <2>1. CASE NextStop(s) /\ UNCHANGED tx
    <3>1. sweep[s].pc = "trigger" /\ tx'[s] = Idle /\ s \in Sessions
      BY <1>0, <1>4, <2>1 DEF Trigger, StillPending, Sweeping
    <3> QED
      BY <2>1, <3>1, NextStopMoves
  <2>2. CASE /\ Begin(s, sweep[s].o, Triggered(book[sweep[s].o]), {sweep[s].o}, 0, "select")
             /\ sweep' = [sweep EXCEPT ![s].pc = "match"]
    <3> DEFINE rec == [sweep[s] EXCEPT !.pc = "match"]
    <3>1. /\ rec \in SweepRec /\ rec.pc = "match" /\ rec.snap = sweep[s].snap /\ rec.px = sweep[s].px
          /\ rec.todo = sweep[s].todo
      BY <1>0 DEF SweepRec
    <3>2. sweep' = [sweep EXCEPT ![s] = rec] /\ sweep[s].pc = "trigger"
      BY <1>0, <1>4, <2>2 DEF Trigger, StillPending
    <3>3. \A x \in Sweeps \ {s} : tx'[x] = tx[x]
      BY <1>0, <2>2, Types DEF Begin
    <3> HIDE DEF rec
    <3>4. Read(rec)
      BY <1>0, <3>1, <3>2 DEF Read, Sweeping
    <3>5. Moves(s, rec)
      BY <3>1, <3>2, <3>3, <3>4 DEF Moves
    <3> QED
      BY <3>5
  <2> QED
    BY <1>4, <2>1, <2>2 DEF Trigger, StillPending
<1>5. CASE SweepEnd(s)
  <2>1. sweep' = [sweep EXCEPT ![s] = Asleep] /\ UNCHANGED tx /\ sweep[s].pc = "each"
    BY <1>5 DEF SweepEnd
  <2>2. Read(Asleep)
    BY DEF Read, Asleep, Trailing, NoRow
  <2>3. Moves(s, Asleep)
    BY <1>0, <2>1, <2>2, AsleepType DEF Moves, Sweeping
  <2> QED
    BY <2>3
<1> QED
  BY <1>1, <1>2, <1>3, <1>4, <1>5 DEF Sweep

LEMMA SweepSteps ==
  ASSUME IndInv, [Next]_vars
  PROVE  sweep' \in [Sweeps -> SweepRec] /\ \A s \in Sweeps : Sweeping(s)'
<1> DEFINE OK == Rests \/ \E s \in Sweeps : \E rec : Moves(s, rec)
<1>0. /\ TypeOK /\ Rows /\ Trails /\ Sweeps \subseteq Sessions /\ Procs \cap Sweeps = {}
      /\ tx \in [Sessions -> TxRec] /\ Idle.pc = "idle"
  BY Types, NamesAssumption DEF IndInv, Sessions, Idle
<1>1. ASSUME NEW t \in Procs, Request(t) PROVE OK
  <2>1. PICK o \in Orders : PlaceOrder(t, o) \/ \E c \in Changes : ModifyOrder(t, o, c)
    BY <1>1 DEF Request
  <2>2. UNCHANGED sweep /\ \A x \in Sweeps : tx'[x] = tx[x]
    <3>1. UNCHANGED sweep /\ \E row, rows, d, pc : Begin(t, o, row, rows, d, pc)
      BY <2>1 DEF PlaceOrder, ModifyOrder
    <3> QED
      BY <1>0, <3>1 DEF Begin
  <2> QED
    BY <2>2 DEF Rests
<1>2. ASSUME NEW t \in Sessions, Select(t) \/ LockAndFill(t) PROVE OK
  <2>1. tx[t] # Idle /\ UNCHANGED sweep /\ Session(t)
    BY <1>0, <1>2 DEF Select, LockAndFill, IndInv
  <2>2. \A x \in Sessions \ {t} : tx'[x] = tx[x]
    BY <1>0, <1>2, <2>1, SelectEffect, FillSession DEF Alone, Session
  <2> QED
    BY <1>0, <2>1, <2>2 DEF Rests
<1>3. ASSUME NEW t \in Sessions, Commit(t) \/ Abort(t) PROVE OK
  <2>1. tx[t] # Idle /\ NextStop(t) /\ Ended(t)
    BY <1>0, <1>3 DEF Commit, Abort, Ended
  <2>2. \A x \in Sessions \ {t} : tx'[x] = tx[x]
    BY <1>0, <2>1, EndedSession DEF Alone
  <2>3. tx'[t] = Idle
    BY <1>0, <2>1, EndedSession
  <2>4. t \in Sweeps => sweep[t].pc = "match"
    BY <2>1, <1>0 DEF Trails, Sweeping
  <2> QED
    BY <1>0, <2>1, <2>2, <2>3, <2>4, NextStopMoves
<1>4. ASSUME NEW s \in Sweeps, Sweep(s) PROVE OK
  BY <1>0, <1>4, SweepActions
<1>5. ASSUME UNCHANGED <<tx, sweep>> PROVE OK
  BY <1>5 DEF Rests
<1>6. ASSUME NEW o \in Orders, CancelOrder(o) PROVE UNCHANGED <<tx, sweep>>
  BY <1>6 DEF CancelOrder
<1>7. ASSUME NEW px \in world.prices, SetPrice(px) PROVE UNCHANGED <<tx, sweep>>
  BY <1>7 DEF SetPrice
<1>8. UNCHANGED vars => UNCHANGED <<tx, sweep>>
  BY DEF vars
<1>9. OK
  <2> HIDE DEF OK
  <2> QED
    BY <1>1, <1>2, <1>3, <1>4, <1>5, <1>6, <1>7, <1>8 DEF Next, Step
<1> QED
  BY <1>0, <1>9, SweepsKept

-----------------------------------------------------------------------------
(* Reference prices.                                                       *)

LEMMA SelectTrails ==
  ASSUME IndInv, NEW t \in Sessions, Select(t), NEW x \in Sessions
  PROVE  tx'[x].new = tx[x].new
<1>1. TypeOK /\ Shaped(t)
  BY DEF IndInv, Session
<1>2. tx'[t].new = tx[t].new /\ Alone(t)
  BY <1>1, SelectEffect
<1> QED
  BY <1>2 DEF Alone

LEMMA FillTrails ==
  ASSUME IndInv, NEW t \in Sessions, LockAndFill(t), NEW o \in Orders
  PROVE  Trailing(o, tx'[t].new[o])
<1>1. TypeOK /\ Rows /\ Shaped(t) /\ Versioned(t) /\ Session(t) /\ Taking(t)
  BY DEF IndInv, Session, LockAndFill, Taking
<1>2. Locks(t) /\ UNCHANGED book /\ (Skips(t) \/ \E a, m \in Orders, n \in Nat : Fills(t, a, m, n))
  BY <1>1, FillStep
<1>3. Trailing(o, tx[t].new[o]) /\ Trailing(o, View(t, o))
  BY DEF IndInv, Trails, View
<1>4. CASE o \notin tx'[t].locks
  BY <1>2, <1>3, <1>4 DEF Locks
<1>5. CASE o \in tx'[t].locks
  <2>1. tx'[t].new[o] = View(t, o)'
    BY <1>5 DEF View
  <2>2. CASE View(t, o)' = View(t, o)
    BY <1>3, <2>1, <2>2
  <2>3. CASE View(t, o)' # View(t, o)
    <3>1. PICK a \in Orders, m \in Orders, n \in Nat : Fills(t, a, m, n)
      BY <1>2, <2>3 DEF Skips
    <3>2. o \in {a, m} /\ a = tx[t].o /\ View(t, m).status \in Open
      BY <2>3, <3>1 DEF Fills, Matches
    <3> DEFINE px == View(t, m).price
               old == View(t, o)
    <3>3. View(t, o)' = ApplyFill(old, n, px)
      BY <3>1, <3>2 DEF Fills
    <3>4. px \in Nat /\ old \in Row
      BY <1>1, ViewType, RowType
    <3>5. old.status # "none"
      <4>1. o = a => Version(t, o, old)
        BY <1>1, Seen
      <4> QED
        BY <3>2, <4>1 DEF Version, Open
    <3>6. old.ref = 0 /\ (Dto[o].type = "TRAILING_STOP" => old.delta > 0)
      BY <1>3, <3>5 DEF Trailing
    <3> HIDE DEF old, px
    <3>7. ApplyFill(old, n, px).ref = old.ref /\ ApplyFill(old, n, px).delta = old.delta
      BY <3>4, ApplyFillRow
    <3> QED
      BY <2>1, <3>3, <3>6, <3>7 DEF Trailing
  <2> QED
    BY <2>2, <2>3
<1> QED
  BY <1>4, <1>5

LEMMA RowTrails ==
  ASSUME IndInv, [Next]_vars
  PROVE  /\ \A o \in Orders : Trailing(o, book'[o])
         /\ \A t \in Sessions, o \in Orders : Trailing(o, tx'[t].new[o])
<1>0. TypeOK /\ Rows /\ Trails
  BY DEF IndInv
<1>1. /\ \A o \in Orders : Trailing(o, book[o])
      /\ \A t \in Sessions, o \in Orders : Trailing(o, tx[t].new[o])
  BY <1>0 DEF Trails
<1> DEFINE Book == \A o \in Orders : Trailing(o, book'[o])
           New == \A t \in Sessions, o \in Orders : Trailing(o, tx'[t].new[o])
<1>2. /\ UNCHANGED book => Book
      /\ UNCHANGED tx => New
  BY <1>1
<1>3. \A o \in Orders : Trailing(o, NoRow) /\ Idle.new[o] = NoRow
  BY DEF Trailing, NoRow, Idle
<1>4. ASSUME NEW t \in Sessions, NEW o \in Orders, NEW row, NEW rows, NEW d, Begun(t, o, row, rows, d)
      PROVE  New
  <2>1. /\ tx'[t].new[o] = row /\ \A x \in Orders \ {o} : tx'[t].new[x] = NoRow
        /\ \A x \in Sessions \ {t} : tx'[x] = tx[x]
    BY <1>0, <1>4, BegunEffect DEF Alone
  <2>2. Trailing(o, row)
    BY <1>4 DEF Begun
  <2> QED
    BY <1>1, <1>3, <2>1, <2>2
<1>5. ASSUME NEW t \in Sessions, Ended(t) PROVE New
  <2>1. tx'[t] = Idle /\ \A x \in Sessions \ {t} : tx'[x] = tx[x]
    BY <1>0, <1>5, EndedSession DEF Alone
  <2> QED
    BY <1>1, <1>3, <2>1
<1>6. ASSUME NEW t \in Sessions, Select(t) PROVE New
  BY <1>1, <1>6, SelectTrails
<1>7. ASSUME NEW t \in Sessions, LockAndFill(t) PROVE Book /\ New
  <2>1. UNCHANGED book
    BY <1>7 DEF LockAndFill
  <2>2. \A x \in Sessions \ {t} : tx'[x] = tx[x]
    BY <1>0, <1>7, FillSession DEF IndInv, Alone
  <2> QED
    BY <1>1, <1>2, <1>7, <2>1, <2>2, FillTrails
<1>8. ASSUME NEW t \in Sessions, Commit(t) PROVE Book /\ New
  <2>1. Commits(t)
    BY <1>0, <1>8, CommitEffect DEF IndInv
  <2>2. Book
    BY <1>1, <2>1 DEF Commits, View
  <2> QED
    BY <1>5, <2>1, <2>2 DEF Commits
<1>9. ASSUME NEW o \in Orders, CancelOrder(o) PROVE Book /\ New
  <2>1. /\ book[o].status \in Open /\ book'[o].ref = book[o].ref /\ book'[o].delta = book[o].delta
        /\ UNCHANGED tx /\ \A m \in Orders \ {o} : book'[m] = book[m]
    BY <1>0, <1>9, CancelEffect
  <2>2. Trailing(o, book'[o])
    BY <1>1, <2>1 DEF Trailing, Open
  <2> QED
    BY <1>1, <1>2, <2>1, <2>2
<1> HIDE DEF Book, New
<1>10. Book /\ New
  BY <1>0, <1>2, <1>4, <1>5, <1>6, <1>7, <1>8, <1>9, StepKinds
<1> QED
  BY <1>10 DEF Book, New

-----------------------------------------------------------------------------
(* The invariant is inductive.                                             *)

LEMMA InitHolds ==
  ASSUME Init
  PROVE  IndInv
<1>0. /\ world \in Scenarios /\ price \in world.prices /\ book = [o \in Orders |-> NoRow]
      /\ locked = [u \in Users |-> 0] /\ traded = 0 /\ changes = 0
      /\ tx = [t \in Sessions |-> Idle] /\ sweep = [s \in Sweeps |-> Asleep] /\ failed = 0
  BY DEF Init
<1>1. TypeOK
  <2>1. /\ world.prices \subseteq Prices /\ world.changes \in Nat /\ world.faults \in Nat
    BY <1>0, WorldType
  <2>2. book \in [Orders -> Row] /\ tx \in [Sessions -> TxRec] /\ sweep \in [Sweeps -> SweepRec]
    BY <1>0, NoRowType, IdleType, AsleepType
  <2>3. /\ price \in Prices /\ locked \in [Users -> Nat] /\ traded \in Nat /\ changes \in 0..world.changes
        /\ failed \in 0..world.faults
    BY <1>0, <2>1
  <2> QED
    BY <1>0, <2>2, <2>3 DEF TypeOK, TxRec, SweepRec
<1>2. \A t \in Sessions : tx[t] = Idle /\ tx[t].locks = {} /\ tx[t].pc = "idle"
  BY <1>0 DEF Idle
<1>3. \A o \in Orders : /\ book[o] = NoRow /\ NoRow.filled = 0 /\ NoRow.cost = 0 /\ NoRow.amount = 0
                        /\ NoRow.status = "none" /\ Trailing(o, NoRow)
  BY <1>0 DEF NoRow, Trailing
<1>4. Exclusive /\ Rows /\ \A t \in Sessions : Session(t)
  BY <1>2, <1>3 DEF Exclusive, Rows, Session, Shaped, Versioned, Reserved, Balanced, Taking
<1>5. Traded
  <2> DEFINE f == FilledOf c == CostOf
  <2>1. \A o \in Orders : f[o] = 0 /\ c[o] = 0
    BY <1>3 DEF FilledOf, CostOf
  <2> HIDE DEF f, c
  <2>2. \A side \in {"BUY", "SELL"} :
          SumFunctionOnSet(f, OnSide(side)) = 0 /\ SumFunctionOnSet(c, OnSide(side)) = 0
    BY <2>1, SidesFinite, SumZero
  <2> QED
    BY <1>0, <2>2 DEF Traded, f, c
<1>6. SellsReserved
  <2> DEFINE f == OffersOf
  <2>1. \A o \in Orders : f[o] = 0
    BY <1>3 DEF OffersOf, Offered, Open
  <2> HIDE DEF f
  <2>2. \A u \in Users : SumFunctionOnSet(f, OrdersOf(u)) = 0
    BY <2>1, OwnersFinite, SumZero
  <2>3. \A u \in Users : locked[u] = 0 /\ Holding[u] \in Nat
    BY <1>0, HoldingAssumption
  <2> QED
    BY <2>2, <2>3 DEF SellsReserved, f, OffersOf
<1>7. Trails
  <2>1. \A o \in Orders : Idle.new[o] = NoRow /\ Asleep.snap[o] = NoRow
    BY DEF Idle, Asleep
  <2>2. Asleep.todo = {} /\ Asleep.pc = "idle"
    BY DEF Asleep
  <2>3. Sweeps \subseteq Sessions /\ \A s \in Sweeps : sweep[s] = Asleep
    BY <1>0 DEF Sessions
  <2> QED
    BY <1>2, <1>3, <2>1, <2>2, <2>3 DEF Trails, Sweeping, Read
<1> QED
  BY <1>1, <1>4, <1>5, <1>6, <1>7 DEF IndInv

\* The rows and balances, in a step that changes transactions only.
LEMMA TransactionsOnly ==
  ASSUME IndInv, NEW t \in Sessions, Alone(t), Session(t)', UNCHANGED <<book, locked, traded>>
  PROVE  /\ Exclusive' /\ Rows' /\ Traded' /\ SellsReserved' /\ \A x \in Sessions : Session(x)'
         /\ book' \in [Orders -> Row] /\ locked' \in [Users -> Nat] /\ traded' \in Nat
         /\ tx' \in [Sessions -> TxRec]
<1>1. TypeOK /\ Exclusive /\ Rows /\ Traded /\ SellsReserved
  BY DEF IndInv
<1>2. Rows' /\ Traded' /\ SellsReserved'
  BY <1>1 DEF Rows, Traded, FilledOf, CostOf, SellsReserved, OnSide, OrdersOf
<1>3. Exclusive' /\ \A x \in Sessions : Session(x)'
  BY <1>1, ExclusiveKept, OthersAlone
<1> QED
  BY <1>1, <1>2, <1>3, Types DEF Alone

LEMMA CommitKeeps ==
  ASSUME IndInv, NEW t \in Sessions, Commit(t)
  PROVE  /\ Exclusive' /\ Rows' /\ Traded' /\ SellsReserved' /\ \A x \in Sessions : Session(x)'
         /\ book' \in [Orders -> Row] /\ locked' \in [Users -> Nat] /\ traded' \in Nat
         /\ tx' \in [Sessions -> TxRec]
<1>1. TypeOK /\ Exclusive /\ Rows /\ Traded /\ SellsReserved /\ Session(t)
  BY DEF IndInv
<1>2. Commits(t)
  BY <1>1, CommitEffect
<1>3. Rows' /\ Traded' /\ traded' \in Nat
  BY <1>1, <1>2, CommitRows, CommitTraded
<1>4. SellsReserved' /\ locked' \in [Users -> Nat]
  BY <1>1, <1>2, <1>3, CommitReserves
<1>5. Exclusive' /\ \A x \in Sessions : Session(x)'
  BY <1>2, CommitOthers
<1>6. book' \in [Orders -> Row] /\ tx' \in [Sessions -> TxRec]
  BY <1>1, <1>2, EndedSession DEF Commits, Alone
<1> QED
  BY <1>3, <1>4, <1>5, <1>6

LEMMA StepKeeps ==
  ASSUME IndInv, [Next]_vars
  PROVE  IndInv'
<1>0. TypeOK /\ Rows /\ Trails /\ traded \in Nat /\ tx \in [Sessions -> TxRec] /\ world \in Scenarios
  BY Types DEF IndInv
<1> DEFINE Kept == UNCHANGED <<book, locked, traded>>
           OK == /\ Exclusive' /\ Rows' /\ Traded' /\ SellsReserved' /\ \A x \in Sessions : Session(x)'
                 /\ book' \in [Orders -> Row] /\ locked' \in [Users -> Nat] /\ traded' \in Nat
                 /\ tx' \in [Sessions -> TxRec]
<1>1. ASSUME UNCHANGED <<book, locked, traded, tx>> PROVE OK
  <2>1. Exclusive' /\ Rows' /\ Traded' /\ SellsReserved'
    BY <1>1 DEF IndInv, Exclusive, Rows, Traded, FilledOf, CostOf, SellsReserved, OnSide, OrdersOf
  <2>2. book \in [Orders -> Row] /\ locked \in [Users -> Nat]
    BY <1>0, Types
  <2>3. ASSUME NEW x \in Sessions PROVE Session(x)'
    <3>1. Session(x) /\ tx'[x] = tx[x] /\ UNCHANGED <<book, locked>>
      BY <1>1 DEF IndInv
    <3>2. Taking(x) => locked[Owner(tx[x].o)] \in Nat
      BY <2>2, <3>1, DtoType DEF Session, Shaped
    <3> QED
      BY <1>0, <2>2, <3>1, <3>2, OtherSession
  <2> QED
    BY <1>0, <1>1, <2>1, <2>2, <2>3
<1>2. ASSUME NEW t \in Sessions, Kept, NEW o \in Orders, NEW row, NEW rows, NEW d, Begun(t, o, row, rows, d)
      PROVE  OK
  <2>1. Alone(t) /\ Session(t)'
    BY <1>0, <1>2, BegunEffect, BegunSession
  <2> QED
    BY <1>2, <2>1, TransactionsOnly
<1>3. ASSUME NEW t \in Sessions, Kept, Select(t) PROVE OK
  <2>1. Alone(t) /\ Session(t)'
    BY <1>0, <1>3, SelectEffect, SelectSession DEF IndInv, Session
  <2> QED
    BY <1>3, <2>1, TransactionsOnly
<1>4. ASSUME NEW t \in Sessions, Kept, Ended(t) PROVE OK
  <2>1. Alone(t) /\ Session(t)'
    BY <1>0, <1>4, EndedSession
  <2> QED
    BY <1>4, <2>1, TransactionsOnly
<1>5. ASSUME NEW t \in Sessions, LockAndFill(t) PROVE OK
  <2>1. Alone(t) /\ Session(t)'
    BY <1>0, <1>5, FillSession DEF IndInv
  <2>2. Kept
    BY <1>5 DEF LockAndFill
  <2> QED
    BY <2>1, <2>2, TransactionsOnly
<1>6. ASSUME NEW t \in Sessions, Commit(t) PROVE OK
  BY <1>6, CommitKeeps
<1>7. ASSUME NEW o \in Orders, CancelOrder(o) PROVE OK
  <2>1. UNCHANGED <<traded, tx>>
    BY <1>7 DEF CancelOrder
  <2> QED
    BY <1>0, <1>7, <2>1, CancelKeeps
<1> HIDE DEF OK
<1>8. OK
  BY <1>0, <1>1, <1>2, <1>3, <1>4, <1>5, <1>6, <1>7, StepKinds
<1>9. /\ UNCHANGED world /\ price' \in Prices /\ changes' \in 0..world'.changes
      /\ failed' \in 0..world'.faults
  BY <1>0, Counters
<1>10. sweep' \in [Sweeps -> SweepRec] /\ Trails'
  <2>1. sweep' \in [Sweeps -> SweepRec] /\ \A s \in Sweeps : Sweeping(s)'
    BY SweepSteps
  <2>2. /\ \A o \in Orders : Trailing(o, book'[o])
        /\ \A t \in Sessions, o \in Orders : Trailing(o, tx'[t].new[o])
    BY RowTrails
  <2>3. Trails'
    BY <2>1, <2>2 DEF Trails, Trailing
  <2> QED
    BY <2>1, <2>3
<1>11. TypeOK'
  <2>1. world' \in Scenarios
    BY <1>0, <1>9
  <2> QED
    BY <1>8, <1>9, <1>10, <2>1, TypesAgain DEF OK
<1> QED
  BY <1>8, <1>10, <1>11 DEF IndInv, OK

LEMMA Invariance == Spec => []IndInv
<1>1. Init => IndInv
  BY InitHolds
<1>2. IndInv /\ [Next]_vars => IndInv'
  BY StepKeeps
<1> QED
  BY <1>1, <1>2, PTL DEF Spec

-----------------------------------------------------------------------------
(* The theorems.                                                           *)

\* Rows, balances, transactions and sweeps keep their types; in particular no
\* locked balance becomes negative, although cancelOrder and modifyOrder
\* subtract from it what other requests have reserved.
THEOREM TypeCorrect == Spec => []TypeOK
<1>1. IndInv => TypeOK
  BY DEF IndInv
<1> QED
  BY <1>1, Invariance, PTL

\* Whatever placeOrder, modifyOrder, cancelOrder, the matching loop and the
\* sweeps do at once, what buyers and sellers have been filled is what the
\* trades record, no order is filled beyond its size, and what is offered for
\* sale is reserved out of what the seller holds.
THEOREM AmountsAlwaysBalance == Spec => []AmountsBalance
<1>1. IndInv => AmountsBalance
  <2> SUFFICES ASSUME IndInv PROVE AmountsBalance
    OBVIOUS
  <2>1. Traded /\ Rows /\ SellsReserved
    BY DEF IndInv
  <2>2. FillsBalance
    BY <2>1 DEF Traded, Rows, FillsBalance, FilledOf, CostOf
  <2> QED
    BY <2>1, <2>2 DEF AmountsBalance
<1> QED
  BY <1>1, Invariance, PTL

\* Only the matching loop fills a resting order.
LEMMA OnlyFilling ==
  ASSUME IndInv, [Next]_vars, NEW t \in Sessions, NEW m \in Orders, Filling(t, m)
  PROVE  LockAndFill(t)
<1>0. TypeOK /\ Rows /\ Trails /\ Session(t) /\ View(t, m) \in Row
  BY ViewType DEF IndInv
<1>1. m \in tx'[t].locks /\ m # tx[t].o /\ tx'[t].new[m].filled > View(t, m).filled /\ View(t, m).filled \in Nat
  BY <1>0, RowType DEF Filling
<1>2. ASSUME tx'[t].locks = tx[t].locks, tx'[t].new = tx[t].new PROVE FALSE
  BY <1>1, <1>2 DEF View
<1>3. ASSUME NEW x \in Sessions, NEW o \in Orders, NEW row, NEW rows, NEW d, Begun(x, o, row, rows, d)
      PROVE  FALSE
  <2>1. Alone(x) /\ tx'[x].locks = rows /\ tx'[x].new[o] = row
    BY <1>0, <1>3, BegunEffect
  <2>2. x = t
    BY <1>2, <2>1 DEF Alone
  <2>3. m = o /\ o \notin tx[t].locks
    BY <1>1, <1>3, <2>1, <2>2, DtoType DEF Begun, Free
  <2>4. row.filled = View(t, m).filled
    BY <1>3, <2>3 DEF Begun, View
  <2> QED
    BY <1>1, <2>1, <2>2, <2>3, <2>4
<1>4. ASSUME NEW x \in Sessions, Ended(x) PROVE FALSE
  <2>1. Alone(x) /\ tx'[x].locks = {}
    BY <1>0, <1>4, EndedSession DEF Idle
  <2>2. x = t
    BY <1>2, <2>1 DEF Alone
  <2> QED
    BY <1>1, <2>1, <2>2
<1>5. ASSUME NEW x \in Sessions, Select(x) PROVE FALSE
  <2>1. Alone(x) /\ tx'[x].locks = tx[x].locks /\ tx'[x].new = tx[x].new
    BY <1>0, <1>5, SelectEffect DEF IndInv, Session
  <2> QED
    BY <1>2, <2>1 DEF Alone
<1>6. ASSUME NEW x \in Sessions, LockAndFill(x) PROVE x = t
  <2>1. Alone(x)
    BY <1>0, <1>6, FillSession DEF IndInv
  <2> QED
    BY <1>2, <2>1 DEF Alone
<1>7. ASSUME NEW x \in Sessions, Commit(x) PROVE FALSE
  BY <1>4, <1>7 DEF Commit, Ended
<1>8. ASSUME UNCHANGED tx PROVE FALSE
  BY <1>2, <1>8
<1>9. ASSUME NEW o \in Orders, CancelOrder(o) PROVE FALSE
  BY <1>8, <1>9 DEF CancelOrder
<1> QED
  BY <1>0, <1>3, <1>4, <1>5, <1>6, <1>7, <1>8, <1>9, StepKinds

LEMMA TimesMonotone ==
  ASSUME NEW n \in Nat, NEW a \in Nat, NEW b \in Nat, a <= b
  PROVE  n * a <= n * b
OBVIOUS

LEMMA FillWithinLimits ==
  ASSUME IndInv, [Next]_vars, NEW t \in Sessions, NEW m \in Orders, Filling(t, m)
  PROVE  LET o     == tx[t].o
             n     == tx'[t].new[m].filled - View(t, m).filled
             money == tx'[t].new[m].cost - View(t, m).cost
         IN  /\ View(t, m).status \in Open
             /\ money = n * book[m].price
             /\ Dto[o].type = "LIMIT" =>
                  IF Sells(o) THEN money >= n * tx[t].new[o].price
                  ELSE money <= n * tx[t].new[o].price
<1>0. TypeOK /\ Rows /\ Session(t) /\ LockAndFill(t) /\ Taking(t)
  BY OnlyFilling DEF IndInv, LockAndFill, Taking
<1>1. Skips(t) \/ \E a, c \in Orders, k \in Nat : Fills(t, a, c, k)
  BY <1>0, FillStep DEF Session
<1>2. m \in tx'[t].locks /\ m # tx[t].o /\ tx'[t].new[m].filled > View(t, m).filled
  BY DEF Filling
<1>3. tx'[t].new[m] = View(t, m)'
  BY <1>2 DEF View
<1>4. View(t, m) \in Row /\ View(t, m).filled \in Nat /\ View(t, m).cost \in Nat /\ View(t, m).price \in Nat
  BY <1>0, ViewType, RowType
<1>5. View(t, m)' # View(t, m)
  BY <1>2, <1>3, <1>4
<1>6. PICK a \in Orders, c \in Orders, k \in Nat : Fills(t, a, c, k)
  BY <1>1, <1>5 DEF Skips
<1>7. a = tx[t].o /\ c = m /\ Matches(t, m) /\ View(t, m)' = ApplyFill(View(t, m), k, View(t, m).price)
  BY <1>2, <1>5, <1>6 DEF Fills
<1> DEFINE row == View(t, m)
           px == View(t, m).price
           limit == tx[t].new[a].price
<1>8. px = book[m].price
  BY <1>0, <1>2, Seen DEF Version
<1>9. limit \in Nat
  BY <1>0, ViewType, RowType
<1>10. /\ row.status \in Open
       /\ Dto[a].type = "LIMIT" => IF Sells(a) THEN px >= limit ELSE px <= limit
  BY <1>7 DEF Matches
<1>11. tx'[t].new[m] = ApplyFill(row, k, px) /\ row \in Row /\ px \in Nat
       /\ row.filled \in Nat /\ row.cost \in Nat
  BY <1>3, <1>4, <1>7
<1> HIDE DEF row, px, limit
<1>12. ApplyFill(row, k, px).filled = row.filled + k /\ ApplyFill(row, k, px).cost = row.cost + k * px
  BY <1>11, ApplyFillRow
<1>13. tx'[t].new[m].filled - row.filled = k
  BY <1>11, <1>12
<1>14. tx'[t].new[m].cost - row.cost = k * px
  <2>1. k * px \in Nat
    BY <1>11
  <2> QED
    BY <1>11, <1>12, <2>1
<1>15. Dto[a].type = "LIMIT" => IF Sells(a) THEN k * px >= k * limit ELSE k * px <= k * limit
  <2>1. /\ px >= limit => k * px >= k * limit
        /\ px <= limit => k * px <= k * limit
    <3>1. k * px \in Nat /\ k * limit \in Nat
      BY <1>9, <1>11
    <3>2. (limit <= px => k * limit <= k * px) /\ (px <= limit => k * px <= k * limit)
      BY <1>9, <1>11, TimesMonotone
    <3> QED
      BY <1>9, <1>11, <3>1, <3>2
  <2> QED
    BY <1>10, <2>1
<1> QED
  BY <1>7, <1>8, <1>10, <1>13, <1>14, <1>15, SMTT(30) DEF row, px, limit

\* A fill respects the limits of both orders as they are when it happens, at
\* the price of the resting one, although the taker chose it before it had
\* locked it.
THEOREM FillsAlwaysWithinLimits == Spec => FillsWithinLimits
<1> DEFINE Within(t, m) ==
             LET o     == tx[t].o
                 n     == tx'[t].new[m].filled - View(t, m).filled
                 money == tx'[t].new[m].cost - View(t, m).cost
             IN  /\ View(t, m).status \in Open
                 /\ money = n * book[m].price
                 /\ Dto[o].type = "LIMIT" =>
                      IF Sells(o) THEN money >= n * tx[t].new[o].price
                      ELSE money <= n * tx[t].new[o].price
           A == \A t \in Sessions, m \in Orders : Filling(t, m) => Within(t, m)
<1>1. IndInv /\ [Next]_vars => A
  <2> SUFFICES ASSUME IndInv, [Next]_vars, NEW t \in Sessions, NEW m \in Orders, Filling(t, m)
               PROVE  Within(t, m)
    OBVIOUS
  <2> QED
    BY FillWithinLimits
<1>2. IndInv /\ [Next]_vars => [A]_vars
  BY <1>1
<1> QED
  BY <1>2, Invariance, PTL DEF Spec, FillsWithinLimits

-----------------------------------------------------------------------------

LEMMA StatusIsFinal ==
  ASSUME IndInv, [Next]_vars, NEW o \in Orders, book[o].status \in {"FILLED", "CANCELLED"}
  PROVE  book'[o].status = book[o].status
<1>0. TypeOK /\ Rows /\ Trails
  BY DEF IndInv
<1>1. ASSUME NEW t \in Sessions, Commit(t) PROVE book'[o] = book[o]
  <2>1. Commits(t) /\ Session(t)
    BY <1>0, <1>1, CommitEffect DEF IndInv
  <2>2. Version(t, o, View(t, o)) /\ book'[o] = View(t, o)
    BY <1>0, <2>1, Seen DEF Commits
  <2> QED
    BY <2>2 DEF Version, Open
<1>2. ASSUME NEW m \in Orders, CancelOrder(m) PROVE book'[o] = book[o]
  <2>1. book[m].status \in Open /\ \A x \in Orders \ {m} : book'[x] = book[x]
    BY <1>0, <1>2, CancelEffect
  <2> QED
    BY <2>1 DEF Open
<1>3. ASSUME NEW t \in Sessions, LockAndFill(t) PROVE UNCHANGED book
  BY <1>3 DEF LockAndFill
<1> QED
  BY <1>0, <1>1, <1>2, <1>3, StepKinds

\* A finished order stays finished, whatever a taker that waited for it or a
\* sweep that read it earlier does.
THEOREM NothingEverRevived == Spec => NothingRevived
<1> DEFINE A == \A o \in Orders : book[o].status \in {"FILLED", "CANCELLED"} => book'[o].status = book[o].status
<1>1. IndInv /\ [Next]_vars => A
  BY StatusIsFinal
<1>2. IndInv /\ [Next]_vars => [A]_vars
  BY <1>1
<1> QED
  BY <1>2, Invariance, PTL DEF Spec, NothingRevived
=============================================================================
