---------------------------- MODULE MCOrderBook ----------------------------
(***************************************************************************)
(* Small instances of OrderBook.                                           *)
(***************************************************************************)
EXTENDS OrderBook, TLC

CONSTANTS u1, u2, b1, b2, s1, s2, st, tr, p1, p2, w1

Order(u, side, type, amount, px) ==
  [user |-> u, side |-> side, type |-> type, amount |-> amount,
   price |-> IF type = "LIMIT" THEN px ELSE 0,
   stop |-> IF type \in {"STOP_LOSS", "TAKE_PROFIT"} THEN px ELSE 0,
   delta |-> IF type = "TRAILING_STOP" THEN 20 ELSE 0]

\* A limit, a market and a trailing stop buyer; two limit sellers and a stop loss
\* of one user, who cannot afford them all.
MCDto ==
  (b1 :> Order(u2, "BUY", "LIMIT", 2, 2)) @@ (b2 :> Order(u2, "BUY", "MARKET", 1, 0))
    @@ (s1 :> Order(u1, "SELL", "LIMIT", 2, 1)) @@ (s2 :> Order(u1, "SELL", "LIMIT", 1, 2))
    @@ (st :> Order(u1, "SELL", "STOP_LOSS", 3, 4)) @@ (tr :> Order(u2, "BUY", "TRAILING_STOP", 1, 0))

MCHolding == (u1 :> 3) @@ (u2 :> 0)

Change(amount, px, stop, delta) == [amount |-> amount, price |-> px, stop |-> stop, delta |-> delta]

\* A new price, a smaller and a larger amount, or both; a new stop or delta.
MCChanges == {Change(0, 1, 0, 0), Change(0, 2, 0, 0), Change(1, 0, 0, 0), Change(3, 2, 0, 0),
              Change(0, 0, 5, 0), Change(0, 0, 0, 10)}

Scenario(orders, sessions, prices, cancelling, modified, faults) ==
  [orders |-> orders, sessions |-> sessions, prices |-> prices, cancelling |-> cancelling,
   changes |-> modified, faults |-> faults]

\* One session, which modifies an order once.
OneSession == Scenario({b1, b2, s1, s2}, {p1}, {4}, FALSE, 1, 0)

\* Two sessions on four orders; on three, one of them modified; on two that are
\* modified twice, with a failing transaction; a session and a sweep on both stop
\* orders, and on either of them, modified.
AllScenarios == {
  OneSession,
  Scenario({b1, b2, s1, s2}, {p1, p2}, {4}, TRUE, 0, 0),
  Scenario({b1, s1, s2}, {p1, p2}, {4}, TRUE, 1, 0),
  Scenario({b1, s1}, {p1, p2}, {4}, TRUE, 2, 1),
  Scenario({b1, st, tr}, {p1, w1}, {4, 6}, TRUE, 0, 0),
  Scenario({b1, st}, {p1, w1}, {4, 6}, TRUE, 1, 0),
  Scenario({s2, tr}, {p1, w1}, {4, 6}, TRUE, 1, 1)}
=============================================================================
