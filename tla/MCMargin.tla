------------------------------ MODULE MCMargin ------------------------------
(***************************************************************************)
(* Small instances of Margin.  For a long position of twice its collateral *)
(* opened at 10, a price of 8 is a margin call, of 6 a liquidation with    *)
(* equity left and of 4 one with a shortfall, as is 16 for a short one.  A  *)
(* day's interest makes 8 a liquidation too.                               *)
(***************************************************************************)
EXTENDS Margin, TLC

CONSTANTS u1, p1, p2, p3, s1, a1, a2

Request(side, collateral, entry) ==
  [user |-> u1, side |-> side, collateral |-> collateral, leverage |-> 2, entry |-> entry]

\* Three positions of one user, who can afford the first two, or the third.
MCDto     == (p1 :> Request("LONG", 20, 10)) @@ (p2 :> Request("SHORT", 20, 10))
             @@ (p3 :> Request("LONG", 24, 0))
MCDeposit == u1 :> 40

MCPair == [maxLeverage |-> 10, volatility |-> 5, factor |-> 2, initialRate |-> 10,
           maintenanceRate |-> 25, callRatio |-> 150, interestRate |-> 20]

OneDay == [a \in Accruals |-> 1]

Scenario(requested, jobs, closing, faulty, prices, hours) ==
  [requested |-> requested, jobs |-> jobs, closing |-> closing, faulty |-> faulty,
   prices |-> prices, hours |-> hours]

\* The users alone; the sweep alone, with failures; the users and a sweep; they
\* and an interest run; the users and two interest runs of one day.
AllScenarios == {
  Scenario({p1, p2, p3}, {}, TRUE, FALSE, {4, 8}, 1),
  Scenario({p1, p2}, {s1}, FALSE, TRUE, {4, 8, 16}, 2),
  Scenario({p1, p2}, {s1}, TRUE, FALSE, {4, 8}, 1),
  Scenario({p1}, {s1, a1}, TRUE, FALSE, {4, 6, 8}, 1),
  Scenario({p1}, {a1, a2}, TRUE, TRUE, {8}, 1)}
=============================================================================
