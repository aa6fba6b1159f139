--------------------------- MODULE InsuranceFund ---------------------------
(***************************************************************************)
(* The insurance fund of src/protection: InsuranceFundService,             *)
(* LiquidationProtectionService, FundHealthService and                     *)
(* InsuranceFeeContributionService on one Postgres database (READ          *)
(* COMMITTED, TypeORM's default).  Several request handlers run at once,   *)
(* in one process or in several; every await on the database is a step.    *)
(*                                                                         *)
(* A tier is its position in TIER_PRIORITY: 1 is LOW, NTiers is CRITICAL.  *)
(* There is one fund per tier (one asset).                                 *)
(*                                                                         *)
(* The database, which is not in src/, contributes three things: a row     *)
(* lock taken by the first UPDATE of a transaction and kept until it ends, *)
(* reads that see committed balances only, and a detector that aborts one  *)
(* transaction of a cycle of waiting transactions.                         *)
(***************************************************************************)
EXTENDS Integers, FiniteSets, Functions

CONSTANTS
  NTiers,        \* number of entries of TIER_PRIORITY
  Reqs,          \* concurrent request handlers
  NoReq,         \* "nobody", the holder of a free row lock
  Target,        \* Target[t]: targetReserve of tier t in DEFAULT_TIERS
  FeePct,        \* FeePct[t]: feeContributionPct of tier t
  Balances,      \* balances a fund may have when the handlers start
  Shortfalls,    \* amounts coverShortfall is called with
  Replenishments,\* amounts replenishFund is called with
  Fees,          \* trade fees contributeFromTradeFee is called with
  Preferred      \* tiers the cover-shortfall endpoint may ask for, 0: none

Tiers == 1..NTiers

ASSUME TiersAssumption   == NTiers \in Nat \ {0}
ASSUME ReqsAssumption    == NoReq \notin Reqs
ASSUME TargetAssumption  == Target \in [Tiers -> Nat \ {0}]
ASSUME FeePctAssumption  == FeePct \in [Tiers -> Nat]
ASSUME AmountsAssumption == /\ Balances \subseteq Nat
                            /\ Shortfalls \subseteq Nat
                            /\ Replenishments \subseteq Nat
                            /\ Fees \subseteq Nat
ASSUME PreferredAssumption == Preferred \subseteq 0..NTiers

VARIABLES
  exists,     \* the tiers whose InsuranceFund row has been inserted
  balance,    \* committed InsuranceFund.balance
  pct,        \* committed InsuranceFund.healthPercent
  lock,       \* holder of the row lock of a fund
  ledger,     \* net sum of the InsuranceTransaction rows of a fund
  clobbered,  \* history: a health save has replaced a newer balance
  event,      \* LiquidationEvent of a request: its coveredAmount, -1: no row
  pc,         \* where a handler is
  req,        \* what it was called with
  idx,        \* its loop index over tiersToTry
  advised,    \* fundsByTier: balances read before the transaction
  rem,        \* remaining
  want,       \* coverAmount of the second debit attempt
  pend,       \* its payouts (uncommitted while pc is in InTxn)
  snap        \* the fund entity of updateFundHealth and the columns to save

dbVars  == <<exists, balance, pct, ledger, clobbered, event>>
txnVars == <<idx, advised, rem, want, pend>>
vars    == <<dbVars, lock, pc, req, txnVars, snap>>

Kinds == {"cover", "replenish", "contribute", "init"}
InTxn == {"debit", "reread", "retry"}
Ended == {"done", "failed"}
PCs   == {"idle", "advise", "credit", "initFind", "initInsert",
          "health", "healthLoad", "healthSave"} \cup InTxn \cup Ended
Snaps == [bal : Int, pct : 0..100, setBal : BOOLEAN, setPct : BOOLEAN]
NoSnap == [bal |-> 0, pct |-> 0, setBal |-> FALSE, setPct |-> FALSE]
NoPay  == [t \in Tiers |-> 0]

Least(a, b) == IF a <= b THEN a ELSE b

\* Mutant: no cap at 100.
UncappedPercent(bal, t) == (bal * 100) \div Target[t]

\* calculateHealthPercent, in whole percent.
HealthPercent(bal, t) == Least(100, (bal * 100) \div Target[t])

\* tiersToTry[i]: the preferred tier first, the others in TIER_PRIORITY order.
TierAt(preferredTier, i) ==
  IF preferredTier = 0 THEN i
  ELSE IF i = 1 THEN preferredTier
  ELSE IF i - 1 < preferredTier THEN i - 1 ELSE i

\* Mutant: a large shortfall starts from the other end of TIER_PRIORITY.
LargeFirst(r) == IF req[r].amt > 3 THEN NTiers + 1 - idx[r] ELSE idx[r]

Tier(r) == TierAt(req[r].tier, idx[r])

\* coverAmount of the debit r is about to try.
CoverAmount(r) ==
  IF pc[r] = "retry" THEN want[r] ELSE Least(advised[r][Tier(r)], rem[r])

Init ==
  /\ exists \in SUBSET Tiers
  /\ balance \in [Tiers -> Balances \cup {0}]
  /\ \A t \in Tiers : IF t \in exists THEN balance[t] \in Balances
                                      ELSE balance[t] = 0
  /\ pct = [t \in Tiers |-> IF t \in exists THEN HealthPercent(balance[t], t)
                                            ELSE 0]
  /\ lock = [t \in Tiers |-> NoReq]
  /\ ledger = balance
  /\ clobbered = [t \in Tiers |-> FALSE]
  /\ event = [r \in Reqs |-> -1]
  /\ pc = [r \in Reqs |-> "idle"]
  /\ req = [r \in Reqs |-> [kind |-> "cover", amt |-> 0, tier |-> 0]]
  /\ idx = [r \in Reqs |-> 1]
  /\ advised = [r \in Reqs |-> NoPay]
  /\ rem = [r \in Reqs |-> 0]
  /\ want = [r \in Reqs |-> 0]
  /\ pend = [r \in Reqs |-> NoPay]
  /\ snap = [r \in Reqs |-> NoSnap]

Goto(r, label) == pc' = [pc EXCEPT ![r] = label]
Called(r, kind, amt, t) ==
  /\ pc[r] = "idle"
  /\ req' = [req EXCEPT ![r] = [kind |-> kind, amt |-> amt, tier |-> t]]

-----------------------------------------------------------------------------
(* The calls.                                                              *)

\* coverShortfall: a shortfall of 0 passes the DTO and is refused here.
StartCover(r) ==
  \E amt \in Shortfalls, t \in Preferred :
    /\ Called(r, "cover", amt, t)
    /\ Goto(r, IF amt <= 0 THEN "failed" ELSE "advise")
    /\ rem' = [rem EXCEPT ![r] = amt]
    /\ UNCHANGED <<dbVars, lock, idx, advised, want, pend, snap>>

\* replenishFund
StartReplenish(r) ==
  \E amt \in Replenishments, t \in Tiers :
    /\ Called(r, "replenish", amt, t)
    /\ Goto(r, "credit")
    /\ UNCHANGED <<dbVars, lock, txnVars, snap>>

\* contributeFromTradeFee, from the endpoint and from the trade.executed
\* listener: no fund is an error, a contribution of nothing returns at once.
StartContribute(r) ==
  \E fee \in Fees, t \in Tiers :
    LET contribution == (fee * FeePct[t]) \div 100 IN
    /\ Called(r, "contribute", contribution, t)
    /\ Goto(r, IF t \notin exists THEN "failed"
               ELSE IF contribution <= 0 THEN "done" ELSE "credit")
    /\ UNCHANGED <<dbVars, lock, txnVars, snap>>

\* initializeFunds
StartInit(r) ==
  /\ Called(r, "init", 0, 0)
  /\ Goto(r, "initFind")
  /\ UNCHANGED <<dbVars, lock, txnVars, snap>>

-----------------------------------------------------------------------------
(* coverShortfall.                                                         *)

\* getFundsByTier before the transaction, one read per tier; a tier with no
\* fund is skipped, which a balance of 0 does as well.
Advise(r) ==
  /\ pc[r] = "advise"
  /\ advised' = [advised EXCEPT ![r][Tier(r)] =
                   IF Tier(r) \in exists THEN balance[Tier(r)] ELSE 0]
  /\ IF idx[r] < NTiers
       THEN idx' = [idx EXCEPT ![r] = @ + 1] /\ UNCHANGED pc
       ELSE idx' = [idx EXCEPT ![r] = 1] /\ Goto(r, "debit")
  /\ UNCHANGED <<dbVars, lock, req, rem, want, pend, snap>>

MoreTiers(r) == rem[r] > 0 /\ idx[r] <= NTiers

NextTier(r) == idx' = [idx EXCEPT ![r] = @ + 1] /\ Goto(r, "debit")

SkipTier(r) ==
  /\ pc[r] = "debit" /\ MoreTiers(r)
  /\ advised[r][Tier(r)] <= 0
  /\ NextTier(r)
  /\ UNCHANGED <<dbVars, lock, req, advised, rem, want, pend, snap>>

Trying(r) ==
  \/ pc[r] = "debit" /\ MoreTiers(r) /\ advised[r][Tier(r)] > 0
  \/ pc[r] = "retry"

\* Mutant: an UPDATE without its balance guard.
AlwaysCovered(r) == Trying(r)

\* The WHERE clause of recordTransaction's UPDATE for a debit.
Covered(r) == balance[Tier(r)] >= CoverAmount(r)

\* Mutant: the amount first planned, not the amount debited.
PlannedRemaining(r) == rem[r] - Least(advised[r][Tier(r)], rem[r])

Remaining(r) == rem[r] - CoverAmount(r)

\* recordTransaction(PAYOUT) with the transaction's manager: the guarded
\* UPDATE applies, and the row is locked until the transaction ends.
Debit(r) ==
  LET t == Tier(r) IN
  /\ Trying(r)
  /\ Covered(r)
  /\ lock[t] \in {NoReq, r}
  /\ lock' = [lock EXCEPT ![t] = r]
  /\ pend' = [pend EXCEPT ![r][t] = CoverAmount(r)]
  /\ rem' = [rem EXCEPT ![r] = Remaining(r)]
  /\ NextTier(r)
  /\ UNCHANGED <<dbVars, req, advised, want, snap>>

\* The guard matched no row: BadRequestException, caught by the attempt loop.
\* An UPDATE that had to wait for another transaction before its guard failed
\* keeps the row lock; one whose snapshot already failed the guard takes none.
DebitRefused(r) ==
  /\ Trying(r)
  /\ ~Covered(r)
  /\ \/ UNCHANGED lock
     \/ lock[Tier(r)] = NoReq /\ lock' = [lock EXCEPT ![Tier(r)] = r]
  /\ IF pc[r] = "retry" THEN NextTier(r)
                        ELSE Goto(r, "reread") /\ UNCHANGED idx
  /\ UNCHANGED <<dbVars, req, advised, rem, want, pend, snap>>

\* getFund inside the transaction, for the second attempt.
Reread(r) ==
  LET available == balance[Tier(r)] IN
  /\ pc[r] = "reread"
  /\ IF available <= 0
       THEN NextTier(r) /\ UNCHANGED want
       ELSE /\ Goto(r, "retry")
            /\ want' = [want EXCEPT ![r] = Least(available, rem[r])]
            /\ UNCHANGED idx
  /\ UNCHANGED <<dbVars, lock, req, advised, rem, pend, snap>>

\* The row locks after r's transaction has ended.
Unlocked(r) == [t \in Tiers |-> IF lock[t] = r THEN NoReq ELSE lock[t]]

\* COMMIT: the debits, their audit rows and the LiquidationEvent together.
Commit(r) ==
  /\ pc[r] = "debit" /\ ~MoreTiers(r)
  /\ balance' = [t \in Tiers |-> balance[t] - pend[r][t]]
  /\ ledger' = [t \in Tiers |-> ledger[t] - pend[r][t]]
  /\ event' = [event EXCEPT ![r] = req[r].amt - rem[r]]
  /\ lock' = Unlocked(r)
  /\ idx' = [idx EXCEPT ![r] = 1]
  /\ Goto(r, "health")
  /\ UNCHANGED <<exists, pct, clobbered, req, advised, rem, want, pend, snap>>

\* A handler dies, or one of its statements fails: what it has not committed
\* is rolled back, the rest of its work is not done.
Fail(r) ==
  /\ pc[r] \notin Ended \cup {"idle"}
  /\ lock' = Unlocked(r)
  /\ pend' = [pend EXCEPT ![r] = IF pc[r] \in InTxn THEN NoPay ELSE @]
  /\ Goto(r, "failed")
  /\ UNCHANGED <<dbVars, req, idx, advised, rem, want, snap>>

-----------------------------------------------------------------------------
(* recordTransaction without a manager, initializeFunds.                   *)

\* Mutant: the balance is updated, no InsuranceTransaction is saved.
PostUnrecorded(t, amt) ==
  balance' = [balance EXCEPT ![t] = @ + amt] /\ UNCHANGED ledger

Post(t, amt) ==
  /\ balance' = [balance EXCEPT ![t] = @ + amt]
  /\ ledger' = [ledger EXCEPT ![t] = @ + amt]

\* A transaction of its own that updates one row: it waits for the row while
\* it holds nothing, so it is one step.
Credit(r) ==
  LET t == req[r].tier IN
  /\ pc[r] = "credit"
  /\ IF t \in exists
       THEN /\ lock[t] = NoReq
            /\ Post(t, req[r].amt)
            /\ Goto(r, "health")
       ELSE UNCHANGED <<balance, ledger>> /\ Goto(r, "failed")
  /\ UNCHANGED <<exists, pct, clobbered, event, lock, req, txnVars, snap>>

InitFind(r) ==
  /\ pc[r] = "initFind"
  /\ Goto(r, IF idx[r] > NTiers THEN "done"
             ELSE IF idx[r] \in exists THEN "health" ELSE "initInsert")
  /\ UNCHANGED <<dbVars, lock, req, txnVars, snap>>

\* The unique indexes (tier), (tierId, asset) refuse the second insert.
InitInsert(r) ==
  LET t == idx[r] IN
  /\ pc[r] = "initInsert"
  /\ IF t \in exists
       THEN Goto(r, "failed") /\ UNCHANGED <<exists, balance, pct, ledger>>
       ELSE /\ exists' = exists \cup {t}
            /\ balance' = [balance EXCEPT ![t] = Target[t] \div 2]
            /\ ledger' = [ledger EXCEPT ![t] = Target[t] \div 2]
            /\ pct' = [pct EXCEPT ![t] = 50]
            /\ Goto(r, "health")
  /\ UNCHANGED <<clobbered, event, lock, req, txnVars, snap>>

-----------------------------------------------------------------------------
(* updateFundHealth, once per fund the call has touched.                   *)

HealthTier(r) == IF req[r].kind \in {"replenish", "contribute"}
                 THEN req[r].tier ELSE Tier(r)

\* Mutant: the loop over the funds does not advance.
SameFund(r) ==
  /\ UNCHANGED idx
  /\ Goto(r, IF req[r].kind = "cover" THEN "health" ELSE "done")

\* What the caller does after updateFundHealth of one fund.
AfterHealth(r) ==
  CASE req[r].kind = "cover" -> idx' = [idx EXCEPT ![r] = @ + 1]
                                /\ Goto(r, "health")
    [] req[r].kind = "init"  -> idx' = [idx EXCEPT ![r] = @ + 1]
                                /\ Goto(r, "initFind")
    [] OTHER                 -> Goto(r, "done") /\ UNCHANGED idx

\* coverShortfall's loop over fundsUsed: tiers it did not debit, and its end.
HealthNone(r) ==
  /\ pc[r] = "health" /\ req[r].kind = "cover"
  /\ IF idx[r] > NTiers THEN Goto(r, "done") /\ UNCHANGED idx
     ELSE pend[r][Tier(r)] = 0 /\ AfterHealth(r)
  /\ UNCHANGED <<dbVars, lock, req, advised, rem, want, pend, snap>>

HealthRead(r) ==
  /\ pc[r] = "health"
  /\ req[r].kind = "cover" => idx[r] <= NTiers /\ pend[r][Tier(r)] > 0
  /\ LET t == HealthTier(r) IN
       snap' = [snap EXCEPT ![r] =
                  [bal |-> balance[t], pct |-> HealthPercent(balance[t], t),
                   setBal |-> FALSE, setPct |-> FALSE]]
  /\ Goto(r, "healthLoad")
  /\ UNCHANGED <<dbVars, lock, req, txnVars>>

\* fundRepo.save(fund): TypeORM selects the row again and updates the columns
\* in which the entity differs from it, balance included.
HealthLoad(r) ==
  LET t == HealthTier(r) IN
  /\ pc[r] = "healthLoad"
  /\ snap' = [snap EXCEPT ![r] =
                [bal |-> snap[r].bal, pct |-> snap[r].pct,
                 setBal |-> snap[r].bal # balance[t],
                 setPct |-> snap[r].pct # pct[t]]]
  /\ Goto(r, "healthSave")
  /\ UNCHANGED <<dbVars, lock, req, txnVars>>

HealthSave(r) ==
  LET t == HealthTier(r)
      s == snap[r]
  IN
  /\ pc[r] = "healthSave"
  /\ s.setBal \/ s.setPct => lock[t] = NoReq
  /\ balance' = [balance EXCEPT ![t] = IF s.setBal THEN s.bal ELSE @]
  /\ pct' = [pct EXCEPT ![t] = IF s.setPct THEN s.pct ELSE @]
  /\ clobbered' = [clobbered EXCEPT ![t] = @ \/ (s.setBal /\ s.bal # balance[t])]
  /\ AfterHealth(r)
  /\ UNCHANGED <<exists, ledger, event, lock, req, advised, rem, want, pend, snap>>

-----------------------------------------------------------------------------
(* Waiting, deadlock and the specification.                                *)

\* r waits for the row lock that q holds.
WaitsFor(r, q) ==
  /\ Trying(r)
  /\ Covered(r)
  /\ lock[Tier(r)] = q
  /\ q \in Reqs \ {r}

\* A set of transactions each of which waits for one of the set.
Deadlocked(S) == S # {} /\ \A r \in S : \E q \in S : WaitsFor(r, q)

\* The database aborts one transaction of the cycle; the error is not a
\* BadRequestException, so it ends coverShortfall.
DeadlockAbort(r) ==
  /\ \E S \in SUBSET Reqs : r \in S /\ Deadlocked(S)
  /\ lock' = Unlocked(r)
  /\ pend' = [pend EXCEPT ![r] = NoPay]
  /\ Goto(r, "failed")
  /\ UNCHANGED <<dbVars, req, idx, advised, rem, want, snap>>

\* Every handler has ended and no request is left to be made.
Finished == (\A r \in Reqs : pc[r] \in Ended) /\ UNCHANGED vars

Step(r) ==
  \/ Advise(r) \/ SkipTier(r) \/ Debit(r) \/ DebitRefused(r) \/ Reread(r)
  \/ Commit(r) \/ Credit(r) \/ InitFind(r) \/ InitInsert(r)
  \/ HealthNone(r) \/ HealthRead(r) \/ HealthLoad(r) \/ HealthSave(r)

Start(r) ==
  StartCover(r) \/ StartReplenish(r) \/ StartContribute(r) \/ StartInit(r)

Next ==
  \/ \E r \in Reqs : Start(r) \/ Step(r) \/ DeadlockAbort(r) \/ Fail(r)
  \/ Finished

Spec == Init /\ [][Next]_vars

\* Node's event loop runs every continuation whose await has settled, and the
\* database's deadlock detector runs; requests need not arrive, nor fail.
FairSpec == Spec /\ \A r \in Reqs : WF_vars(Step(r)) /\ WF_vars(DeadlockAbort(r))

-----------------------------------------------------------------------------
(* Properties.                                                             *)

\* The variables have their types: the shape of the insurance_funds rows, of
\* the locks and of the local state of every request handler.
TypeOK ==
  /\ exists \subseteq Tiers
  /\ balance \in [Tiers -> Int]
  /\ pct \in [Tiers -> 0..100]
  /\ lock \in [Tiers -> Reqs \cup {NoReq}]
  /\ ledger \in [Tiers -> Int]
  /\ clobbered \in [Tiers -> BOOLEAN]
  /\ event \in [Reqs -> Int]
  /\ pc \in [Reqs -> PCs]
  /\ req \in [Reqs -> [kind : Kinds, amt : Nat, tier : 0..NTiers]]
  /\ idx \in [Reqs -> 1..NTiers + 1]
  /\ advised \in [Reqs -> [Tiers -> Int]]
  /\ rem \in [Reqs -> Int]
  /\ want \in [Reqs -> Int]
  /\ pend \in [Reqs -> [Tiers -> Int]]
  /\ snap \in [Reqs -> Snaps]

\* No fund is overdrawn, committed or not: concurrent payouts of
\* coverShortfall never take more than recordTransaction's guarded UPDATE
\* finds in the row, whatever the stale balances they started from.
NoOverdraft ==
  \A t \in Tiers :
    /\ balance[t] >= 0
    /\ \A r \in Reqs : pc[r] \in InTxn => balance[t] - pend[r][t] >= 0

\* The balance of a fund is the sum of its audit rows, as long as no health
\* save has replaced a newer balance by the one it had read: that save is the
\* only statement of the service that can make money appear or disappear.
LedgerConserved ==
  \A t \in Tiers : ~clobbered[t] => balance[t] = ledger[t]

Paid(r) == SumFunctionOnSet(pend[r], Tiers)

\* What coverShortfall reports is what it took: with every payout the
\* remaining shortfall shrinks by the amount debited (which on the second
\* attempt is not the amount first planned), never below zero; the
\* LiquidationEvent's coveredAmount is the sum of the payouts committed with
\* it, and a call that was rolled back has paid nothing.
ShortfallAccounted ==
  \A r \in Reqs : req[r].kind = "cover" =>
    /\ pc[r] \in InTxn => rem[r] >= 0 /\ rem[r] + Paid(r) = req[r].amt
    /\ event[r] >= 0 => rem[r] >= 0 /\ event[r] = Paid(r) /\ event[r] + rem[r] = req[r].amt
    /\ pc[r] = "failed" /\ event[r] = -1 => Paid(r) = 0

\* "Any two concurrent liquidations acquire row locks in the same order and
\* can never deadlock" (coverShortfall): transactions wait in a cycle only if
\* one of them was called with a preferred tier, which it debits first.
NoDeadlock ==
  \A S \in SUBSET Reqs : Deadlocked(S) => \E r \in S : req[r].tier # 0

\* "Balance changes are single atomic UPDATEs, never read-modify-write": the
\* balance of a fund is the sum of its audit rows, always.
BalanceIsSumOfLedger == \A t \in Tiers : balance[t] = ledger[t]

\* Every call of the service that has started ends: lock waits are released
\* by commits, rollbacks and the deadlock detector.
EveryCallEnds == \A r \in Reqs : pc[r] # "idle" ~> pc[r] \in Ended
=============================================================================
