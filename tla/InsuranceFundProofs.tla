------------------------ MODULE InsuranceFundProofs ------------------------
(***************************************************************************)
(* For every number of tiers and of concurrent requests, and whatever the  *)
(* amounts: no fund is overdrawn, its balance is accounted for, and, when  *)
(* no request names a preferred tier, transactions do not deadlock.        *)
(***************************************************************************)
EXTENDS InsuranceFund, FiniteSums, WellFoundedInduction, TLAPS

-----------------------------------------------------------------------------
(* The inductive invariant: its parts, and their conjunction.              *)

\* Where a handler is tells what it was called with and how far it got.
ProgressOf(r) ==
  /\ pc[r] \in InTxn \cup {"advise"} => req[r].kind = "cover"
  /\ pc[r] \in {"idle", "advise", "reread", "retry"} => idx[r] \in Tiers
  /\ pc[r] \in {"reread", "retry"} => advised[r][Tier(r)] > 0
  /\ pc[r] \in {"initFind", "initInsert"} => req[r].kind = "init"
  /\ pc[r] = "initInsert" => idx[r] \in Tiers
  /\ pc[r] = "credit" => req[r].kind \in {"replenish", "contribute"}
  /\ req[r].kind \in {"replenish", "contribute"} => req[r].tier \in Tiers
  /\ req[r].kind = "init" => req[r].tier = 0
  /\ pc[r] = "health" /\ req[r].kind = "init" => idx[r] \in Tiers
  /\ pc[r] \in {"healthLoad", "healthSave"} /\ req[r].kind \in {"cover", "init"}
       => idx[r] \in Tiers

Progress == \A r \in Reqs : ProgressOf(r)

\* Only rows that exist are locked, and only by open transactions.
Locks ==
  /\ \A r \in Reqs : \A t \in Tiers : advised[r][t] > 0 => t \in exists
  /\ \A t \in Tiers : lock[t] # NoReq => t \in exists /\ pc[lock[t]] \in InTxn

\* A debit that is not committed is protected by the row lock.
Protected ==
  \A r \in Reqs : \A t \in Tiers :
    /\ pc[r] \in {"idle", "advise"} => pend[r][t] = 0
    /\ pc[r] \in InTxn /\ pend[r][t] # 0 => lock[t] = r

\* A balance in memory is one the fund has had.
Snapshots == \A r \in Reqs : snap[r].bal >= 0

IndInv ==
  /\ TypeOK
  /\ Progress
  /\ Locks
  /\ Protected
  /\ Snapshots
  /\ NoOverdraft
  /\ LedgerConserved

-----------------------------------------------------------------------------
(* The operators.                                                          *)

\* tiersToTry has a tier at every position of TIER_PRIORITY, with a preferred
\* tier as without one.
LEMMA TierAtIsTier ==
  ASSUME NEW p \in 0..NTiers, NEW i \in Tiers
  PROVE  TierAt(p, i) \in Tiers
BY TiersAssumption DEF TierAt, Tiers

\* calculateHealthPercent yields a percentage for every balance that is not
\* negative.
LEMMA PercentInRange ==
  ASSUME NEW b \in Nat, NEW t \in Tiers
  PROVE  HealthPercent(b, t) \in 0..100
<1>1. Target[t] \in Nat /\ Target[t] > 0
  BY TargetAssumption
<1>2. PICK n \in Nat : n = b * 100
  OBVIOUS
<1>3. PICK T \in Nat \ {0} : T = Target[t]
  BY <1>1
<1>4. n \div T \in Nat
  BY Z3
<1>5. HealthPercent(b, t) = IF 100 <= n \div T THEN 100 ELSE n \div T
  BY <1>2, <1>3 DEF HealthPercent, Least
<1> QED
  BY <1>4, <1>5

\* The fund a handler works on is the fund of a tier.
LEMMA HandlersTier ==
  ASSUME TypeOK, Progress, NEW r \in Reqs
  PROVE  /\ idx[r] \in Tiers => Tier(r) \in Tiers
         /\ pc[r] \in {"healthLoad", "healthSave"} => HealthTier(r) \in Tiers
         /\ pc[r] = "health" /\ (req[r].kind = "cover" => idx[r] <= NTiers)
              => HealthTier(r) \in Tiers
<1>1. req[r].tier \in 0..NTiers /\ idx[r] \in 1..NTiers + 1
  BY DEF TypeOK
<1>2. idx[r] \in Tiers => Tier(r) \in Tiers
  BY <1>1, TierAtIsTier DEF Tier
<1>3. req[r].kind \in Kinds
  BY DEF TypeOK
<1> QED
  BY <1>1, <1>2, <1>3, TiersAssumption DEF Progress, ProgressOf, HealthTier, Tiers, Kinds

\* The two ways a handler moves on.
LEMMA GotoType ==
  ASSUME TypeOK, NEW r \in Reqs, NEW label \in PCs, Goto(r, label)
  PROVE  /\ pc' \in [Reqs -> PCs] /\ pc'[r] = label
         /\ \A q \in Reqs \ {r} : pc'[q] = pc[q]
BY DEF TypeOK, Goto

LEMMA NextIdxType ==
  ASSUME TypeOK, NEW r \in Reqs, idx[r] <= NTiers, idx' = [idx EXCEPT ![r] = @ + 1]
  PROVE  /\ idx' \in [Reqs -> 1..NTiers + 1] /\ idx'[r] = idx[r] + 1
         /\ \A q \in Reqs \ {r} : idx'[q] = idx[q]
<1>1. idx \in [Reqs -> 1..NTiers + 1]
  BY DEF TypeOK
<1>2. idx[r] + 1 \in 1..NTiers + 1
  BY <1>1, TiersAssumption
<1> QED
  BY <1>1, <1>2

\* A step of one handler leaves the others where they are.
LEMMA OthersProgress ==
  ASSUME Progress, NEW r \in Reqs, ProgressOf(r)',
         \A q \in Reqs \ {r} : /\ pc'[q] = pc[q] /\ req'[q] = req[q]
                               /\ idx'[q] = idx[q] /\ advised'[q] = advised[q]
  PROVE  Progress'
<1> SUFFICES ASSUME NEW q \in Reqs, q # r PROVE ProgressOf(q)'
  BY DEF Progress
<1> QED
  BY DEF Progress, ProgressOf, Tier

\* A step that changes neither funds nor locks nor payouts preserves what the
\* invariant says of them, provided the handler neither enters nor leaves a
\* transaction with payouts.
LEMMA LocalStep ==
  ASSUME IndInv, NEW r \in Reqs, NEW label \in PCs, Goto(r, label),
         UNCHANGED <<exists, balance, ledger, clobbered, lock, pend>>,
         pc[r] \in InTxn => label \in InTxn,
         label \in InTxn => pc[r] \in InTxn \cup {"advise"},
         label \in {"idle", "advise"} => pc[r] \in {"idle", "advise"},
         \A q \in Reqs : \A t \in Tiers : advised'[q][t] > 0 => t \in exists
  PROVE  Locks' /\ Protected' /\ NoOverdraft' /\ LedgerConserved'
<1>0. /\ pc'[r] = label /\ \A q \in Reqs \ {r} : pc'[q] = pc[q]
      /\ \A t \in Tiers : lock[t] \in Reqs \cup {NoReq}
      /\ balance \in [Tiers -> Int] /\ pend \in [Reqs -> [Tiers -> Int]]
  BY DEF IndInv, TypeOK, Goto
<1>1. Locks'
  BY <1>0 DEF IndInv, Locks
<1>2. Protected'
  BY <1>0 DEF IndInv, Protected
<1>3. NoOverdraft'
  <2> SUFFICES ASSUME NEW q \in Reqs, NEW t \in Tiers, pc'[q] \in InTxn
               PROVE  balance[t] - pend[q][t] >= 0
    BY DEF NoOverdraft, IndInv
  <2>1. balance[t] >= 0 /\ (pc[q] \in InTxn => balance[t] - pend[q][t] >= 0)
    BY DEF IndInv, NoOverdraft
  <2>2. pc[q] = "advise" => pend[q][t] = 0
    BY DEF IndInv, Protected
  <2>3. balance[t] \in Int /\ pend[q][t] \in Int
    BY <1>0
  <2> QED
    BY <1>0, <2>1, <2>2, <2>3
<1>4. LedgerConserved'
  BY DEF IndInv, LedgerConserved
<1> QED
  BY <1>1, <1>2, <1>3, <1>4

-----------------------------------------------------------------------------
(* The invariant is inductive: the initial states, then every action.      *)

LEMMA InitIndInv == Init => IndInv
<1> SUFFICES ASSUME Init PROVE IndInv
  OBVIOUS
<1>1. \A t \in Tiers : balance[t] \in Nat
  <2>1. \A t \in Tiers : balance[t] \in Balances \/ balance[t] = 0
    BY DEF Init
  <2>2. Balances \subseteq Nat /\ 0 \in Nat
    BY AmountsAssumption
  <2> QED
    BY <2>1, <2>2, Zenon
<1>2. \A t \in Tiers : HealthPercent(balance[t], t) \in 0..100
  BY <1>1, PercentInRange
<1>3. TypeOK
  <2>1. balance \in [Tiers -> Int] /\ pct \in [Tiers -> 0..100] /\ ledger \in [Tiers -> Int]
    BY <1>1, <1>2 DEF Init
  <2>2. NoPay \in [Tiers -> Int] /\ NoSnap \in Snaps /\ 1 \in 1..NTiers + 1
    BY TiersAssumption DEF NoPay, NoSnap, Snaps
  <2>3. [kind |-> "cover", amt |-> 0, tier |-> 0]
          \in [kind : Kinds, amt : Nat, tier : 0..NTiers] /\ "idle" \in PCs
    BY TiersAssumption DEF Kinds, PCs
  <2> QED
    BY <2>1, <2>2, <2>3 DEF Init, TypeOK
<1>4. Progress
  BY TiersAssumption DEF Init, Progress, ProgressOf, InTxn, Tiers
<1>5. Locks /\ Protected /\ Snapshots
  BY DEF Init, Locks, Protected, Snapshots, NoPay, NoSnap, InTxn
<1>6. NoOverdraft /\ LedgerConserved
  BY <1>1 DEF Init, NoOverdraft, LedgerConserved, InTxn
<1> QED
  BY <1>3, <1>4, <1>5, <1>6 DEF IndInv

\* A call of the service begins: the handler is told what to do.
LEMMA StartIndInv ==
  ASSUME IndInv, NEW r \in Reqs, Start(r)
  PROVE  IndInv'
<1>1. PICK kind \in Kinds, amt \in Nat, t \in 0..NTiers, label \in PCs :
        /\ Called(r, kind, amt, t)
        /\ Goto(r, label)
        /\ label \in {"failed", "advise", "credit", "done", "initFind"}
        /\ label = "advise" => kind = "cover"
        /\ label = "credit" => kind \in {"replenish", "contribute"}
        /\ label = "initFind" => kind = "init"
        /\ kind \in {"replenish", "contribute"} => t \in Tiers
        /\ kind = "init" => t = 0
        /\ label = "advise" => idx[r] \in Tiers
        /\ rem' \in [Reqs -> Int]
        /\ UNCHANGED <<exists, balance, pct, ledger, clobbered, event, lock,
                       idx, advised, want, pend, snap>>
  <2>1. CASE StartCover(r)
    <3>1. PICK amt \in Shortfalls, t \in Preferred :
            /\ Called(r, "cover", amt, t)
            /\ Goto(r, IF amt <= 0 THEN "failed" ELSE "advise")
            /\ rem' = [rem EXCEPT ![r] = amt]
            /\ UNCHANGED <<dbVars, lock, idx, advised, want, pend, snap>>
      BY <2>1 DEF StartCover
    <3>2. amt \in Nat /\ t \in 0..NTiers /\ idx[r] \in Tiers
      BY <3>1, AmountsAssumption, PreferredAssumption
      DEF IndInv, Progress, ProgressOf, Called
    <3> QED
      BY <3>1, <3>2 DEF IndInv, TypeOK, Kinds, PCs, Ended, dbVars
  <2>2. CASE StartReplenish(r)
    <3>1. PICK amt \in Replenishments, t \in Tiers :
            /\ Called(r, "replenish", amt, t) /\ Goto(r, "credit")
            /\ UNCHANGED <<dbVars, lock, txnVars, snap>>
      BY <2>2 DEF StartReplenish
    <3>2. amt \in Nat /\ t \in 0..NTiers /\ rem' \in [Reqs -> Int]
      BY <3>1, AmountsAssumption, TiersAssumption DEF IndInv, TypeOK, Tiers, txnVars
    <3> QED
      BY <3>1, <3>2 DEF Kinds, PCs, dbVars, txnVars
  <2>3. CASE StartContribute(r)
    <3>1. PICK fee \in Fees, t \in Tiers :
            LET contribution == (fee * FeePct[t]) \div 100 IN
            /\ Called(r, "contribute", contribution, t)
            /\ Goto(r, IF t \notin exists THEN "failed"
                       ELSE IF contribution <= 0 THEN "done" ELSE "credit")
            /\ UNCHANGED <<dbVars, lock, txnVars, snap>>
      BY <2>3 DEF StartContribute
    <3>2. (fee * FeePct[t]) \div 100 \in Nat
      <4>1. PICK f \in Nat, p \in Nat : f = fee /\ p = FeePct[t]
        BY AmountsAssumption, FeePctAssumption
      <4>2. f * p \in Nat
        OBVIOUS
      <4>3. PICK m \in Nat : m = f * p
        BY <4>2
      <4> QED
        BY <4>1, <4>3
    <3>3. t \in 0..NTiers /\ rem' \in [Reqs -> Int]
      BY <3>1, TiersAssumption DEF IndInv, TypeOK, Tiers, txnVars
    <3>4. CASE t \notin exists
      BY <3>1, <3>2, <3>3, <3>4 DEF Kinds, PCs, Ended, dbVars, txnVars
    <3>5. CASE t \in exists /\ (fee * FeePct[t]) \div 100 <= 0
      BY <3>1, <3>2, <3>3, <3>5 DEF Kinds, PCs, Ended, dbVars, txnVars
    <3>6. CASE t \in exists /\ ~((fee * FeePct[t]) \div 100 <= 0)
      BY <3>1, <3>2, <3>3, <3>6 DEF Kinds, PCs, Ended, dbVars, txnVars
    <3> QED
      BY <3>4, <3>5, <3>6
  <2>4. CASE StartInit(r)
    BY <2>4, TiersAssumption
    DEF StartInit, IndInv, TypeOK, Kinds, PCs, dbVars, txnVars
  <2> QED
    BY <2>1, <2>2, <2>3, <2>4 DEF Start
<1>2. pc[r] = "idle"
  BY <1>1 DEF Called
<1>3. TypeOK'
  BY <1>1 DEF IndInv, TypeOK, Goto, Called
<1>4. Progress'
  <2>1. pc'[r] = label /\ req'[r] = [kind |-> kind, amt |-> amt, tier |-> t]
    BY <1>1 DEF IndInv, TypeOK, Goto, Called
  <2>2. ProgressOf(r)'
    BY <1>1, <2>1 DEF ProgressOf, InTxn
  <2>3. \A q \in Reqs \ {r} : pc'[q] = pc[q] /\ req'[q] = req[q]
    BY <1>1 DEF IndInv, TypeOK, Goto, Called
  <2> QED
    BY <1>1, <2>2, <2>3, OthersProgress DEF IndInv
<1>5. Locks' /\ Protected' /\ NoOverdraft' /\ LedgerConserved'
  BY <1>1, <1>2, LocalStep DEF IndInv, Locks, InTxn
<1>6. Snapshots'
  BY <1>1 DEF IndInv, Snapshots
<1> QED
  BY <1>3, <1>4, <1>5, <1>6 DEF IndInv

\* coverShortfall up to its commit, the steps that move no money.
LEMMA AdviseIndInv ==
  ASSUME IndInv, NEW r \in Reqs, Advise(r)
  PROVE  IndInv'
<1>1. Tier(r) \in Tiers /\ idx[r] \in Tiers /\ pc[r] = "advise"
  BY HandlersTier DEF IndInv, Progress, ProgressOf, Advise
<1>2. PICK label \in {"advise", "debit"} : Goto(r, label)
  BY <1>1 DEF Advise, Goto, IndInv, TypeOK
<1>3. PICK v \in Int : /\ advised' = [advised EXCEPT ![r][Tier(r)] = v]
                       /\ v > 0 => Tier(r) \in exists
  <2>1. balance[Tier(r)] \in Int
    BY <1>1 DEF IndInv, TypeOK
  <2> DEFINE w == IF Tier(r) \in exists THEN balance[Tier(r)] ELSE 0
  <2>2. advised' = [advised EXCEPT ![r][Tier(r)] = w]
    BY Zenon DEF Advise
  <2>3. w \in Int /\ (w > 0 => Tier(r) \in exists)
    BY <2>1
  <2> QED
    BY <2>2, <2>3
<1>4. idx' \in [Reqs -> 1..NTiers + 1] /\ idx'[r] \in Tiers
        /\ \A q \in Reqs \ {r} : idx'[q] = idx[q]
  <2>1. idx \in [Reqs -> 1..NTiers + 1]
    BY DEF IndInv, TypeOK
  <2>2. CASE idx[r] < NTiers
    BY <1>1, <2>1, <2>2, TiersAssumption DEF Advise, Tiers
  <2>3. CASE ~(idx[r] < NTiers)
    BY <1>1, <2>1, <2>3, TiersAssumption DEF Advise, Tiers
  <2> QED
    BY <2>2, <2>3
<1>5. UNCHANGED <<exists, balance, pct, ledger, clobbered, event, lock, req,
                  rem, want, pend, snap>>
  BY DEF Advise, dbVars
<1>6. TypeOK'
  <2>1. pc' \in [Reqs -> PCs] /\ advised' \in [Reqs -> [Tiers -> Int]]
    BY <1>1, <1>2, <1>3 DEF IndInv, TypeOK, Goto, PCs, InTxn
  <2> QED
    BY <1>4, <1>5, <2>1 DEF IndInv, TypeOK
<1>7. Progress'
  <2>1. pc'[r] = label /\ \A q \in Reqs \ {r} : pc'[q] = pc[q] /\ advised'[q] = advised[q]
    BY <1>2, <1>3 DEF IndInv, TypeOK, Goto
  <2>2. ProgressOf(r)'
    BY <1>1, <1>4, <1>5, <2>1 DEF IndInv, Progress, ProgressOf, InTxn
  <2> QED
    BY <1>4, <1>5, <2>1, <2>2, OthersProgress DEF IndInv
<1>8. \A q \in Reqs : \A t \in Tiers : advised'[q][t] > 0 => t \in exists
  BY <1>1, <1>3 DEF IndInv, TypeOK, Locks
<1>9. Locks' /\ Protected' /\ NoOverdraft' /\ LedgerConserved'
  BY <1>1, <1>2, <1>5, <1>8, LocalStep DEF PCs, InTxn
<1> QED
  BY <1>5, <1>6, <1>7, <1>9 DEF IndInv, Snapshots

LEMMA WalkIndInv ==
  ASSUME IndInv, NEW r \in Reqs, SkipTier(r) \/ Reread(r)
  PROVE  IndInv'
<1>1. pc[r] \in InTxn /\ idx[r] \in Tiers /\ Tier(r) \in Tiers
  BY HandlersTier, SMTT(30)
  DEF IndInv, TypeOK, Progress, ProgressOf, SkipTier, Reread, MoreTiers, InTxn, Tiers
<1>2. PICK label \in InTxn :
        /\ Goto(r, label)
        /\ \/ label = "debit" /\ idx' = [idx EXCEPT ![r] = @ + 1]
           \/ label = "retry" /\ pc[r] = "reread" /\ idx' = idx
  BY DEF SkipTier, Reread, NextTier, InTxn
<1>3. want' \in [Reqs -> Int]
  <2>1. balance[Tier(r)] \in Int /\ rem[r] \in Int /\ want \in [Reqs -> Int]
    BY <1>1 DEF IndInv, TypeOK
  <2>2. Least(balance[Tier(r)], rem[r]) \in Int
    BY <2>1 DEF Least
  <2> QED
    BY <2>1, <2>2 DEF SkipTier, Reread
<1>4. UNCHANGED <<exists, balance, pct, ledger, clobbered, event, lock, req,
                  advised, rem, pend, snap>>
  BY DEF SkipTier, Reread, dbVars
<1>5. TypeOK'
  <2>1. pc' \in [Reqs -> PCs] /\ idx' \in [Reqs -> 1..NTiers + 1]
    <3>1. idx[r] <= NTiers /\ idx \in [Reqs -> 1..NTiers + 1]
      BY <1>1, TiersAssumption DEF IndInv, TypeOK, Tiers
    <3> QED
      BY <1>2, <3>1, GotoType, NextIdxType DEF IndInv, PCs
  <2> QED
    BY <1>3, <1>4, <2>1 DEF IndInv, TypeOK
<1>6. Progress'
  <2>1. pc'[r] = label /\ \A q \in Reqs \ {r} : pc'[q] = pc[q] /\ idx'[q] = idx[q]
    BY <1>2 DEF IndInv, TypeOK, Goto
  <2>2. label = "retry" => idx'[r] \in Tiers /\ advised'[r][Tier(r)'] > 0
    BY <1>1, <1>2, <1>4 DEF IndInv, Progress, ProgressOf, Tier
  <2>3. req'[r].kind = "cover"
    BY <1>1, <1>4 DEF IndInv, Progress, ProgressOf
  <2>4. ProgressOf(r)'
    BY <1>2, <2>1, <2>2, <2>3 DEF ProgressOf, InTxn
  <2> QED
    BY <1>4, <2>1, <2>4, OthersProgress DEF IndInv
<1>7. Locks' /\ Protected' /\ NoOverdraft' /\ LedgerConserved'
  BY <1>1, <1>2, <1>4, LocalStep DEF IndInv, Locks, PCs, InTxn
<1> QED
  BY <1>4, <1>5, <1>6, <1>7 DEF IndInv, Snapshots

LEMMA TryingOnTier ==
  ASSUME TypeOK, Progress, NEW r \in Reqs, Trying(r)
  PROVE  /\ pc[r] \in InTxn /\ idx[r] \in Tiers /\ idx[r] <= NTiers
         /\ Tier(r) \in Tiers /\ advised[r][Tier(r)] > 0
         /\ CoverAmount(r) \in Int
<1>1. pc[r] \in InTxn /\ idx[r] \in Tiers /\ advised[r][Tier(r)] > 0
  <2>1. idx[r] \in 1..NTiers + 1
    BY DEF TypeOK
  <2>2. CASE pc[r] = "debit" /\ MoreTiers(r) /\ advised[r][Tier(r)] > 0
    BY <2>1, <2>2, TiersAssumption DEF MoreTiers, InTxn, Tiers
  <2>3. CASE pc[r] = "retry"
    BY <2>3 DEF Progress, ProgressOf, InTxn
  <2> QED
    BY <2>2, <2>3 DEF Trying
<1>2. Tier(r) \in Tiers /\ idx[r] <= NTiers
  BY <1>1, HandlersTier, TiersAssumption DEF Tiers
<1>3. want[r] \in Int /\ rem[r] \in Int /\ advised[r][Tier(r)] \in Int
  BY <1>2 DEF TypeOK
<1> QED
  BY <1>1, <1>2, <1>3 DEF CoverAmount, Least

\* The guarded UPDATE applies: the row was free or already ours, so whatever
\* the other transactions hold, the whole committed balance is available.
LEMMA DebitIndInv ==
  ASSUME IndInv, NEW r \in Reqs, Debit(r)
  PROVE  IndInv'
<1> DEFINE u == Tier(r)
           a == CoverAmount(r)
<1>1. /\ pc[r] \in InTxn /\ idx[r] \in Tiers /\ idx[r] <= NTiers
      /\ u \in Tiers /\ advised[r][u] > 0 /\ a \in Int
  BY TryingOnTier DEF IndInv, Debit
<1>2. a \in Int /\ balance[u] >= a
  BY <1>1 DEF Debit, Covered
<1>3. /\ Goto(r, "debit") /\ idx' = [idx EXCEPT ![r] = @ + 1]
      /\ lock[u] \in {NoReq, r} /\ lock' = [lock EXCEPT ![u] = r]
      /\ pend' = [pend EXCEPT ![r][u] = a]
      /\ rem' = [rem EXCEPT ![r] = Remaining(r)]
      /\ UNCHANGED <<exists, balance, pct, ledger, clobbered, event, req,
                     advised, want, snap>>
  BY DEF Debit, NextTier, dbVars
<1>4. /\ pc' \in [Reqs -> PCs] /\ pc'[r] = "debit"
      /\ \A q \in Reqs \ {r} : pc'[q] = pc[q] /\ idx'[q] = idx[q]
      /\ idx' \in [Reqs -> 1..NTiers + 1]
  <2>1. "debit" \in PCs
    BY DEF PCs, InTxn
  <2> QED
    BY <1>1, <1>3, <2>1, GotoType, NextIdxType DEF IndInv
<1>5. TypeOK'
  <2>1. rem' \in [Reqs -> Int]
    BY <1>2, <1>3 DEF IndInv, TypeOK, Remaining
  <2>2. pend' \in [Reqs -> [Tiers -> Int]] /\ lock' \in [Tiers -> Reqs \cup {NoReq}]
    BY <1>1, <1>2, <1>3 DEF IndInv, TypeOK
  <2> QED
    BY <1>3, <1>4, <2>1, <2>2 DEF IndInv, TypeOK
<1>6. Progress'
  <2>1. ProgressOf(r)'
    BY <1>1, <1>3, <1>4 DEF IndInv, Progress, ProgressOf, InTxn
  <2> QED
    BY <1>3, <1>4, <2>1, OthersProgress DEF IndInv
<1>7. /\ \A t \in Tiers \ {u} : lock'[t] = lock[t]
      /\ lock'[u] = r
      /\ \A q \in Reqs, t \in Tiers :
           pend'[q][t] = IF q = r /\ t = u THEN a ELSE pend[q][t]
  BY <1>1, <1>3 DEF IndInv, TypeOK
<1>8. "debit" \in InTxn /\ "debit" \notin {"idle", "advise"}
  BY DEF InTxn
<1>9. Locks'
  <2>1. \A t \in Tiers : lock[t] \in Reqs \cup {NoReq}
    BY DEF IndInv, TypeOK
  <2>2. u \in exists
    BY <1>1 DEF IndInv, Locks
  <2>3. \A t \in Tiers : lock'[t] # NoReq => t \in exists /\ pc'[lock'[t]] \in InTxn
    BY <1>4, <1>7, <1>8, <2>1, <2>2 DEF IndInv, Locks
  <2> QED
    BY <1>3, <2>3 DEF IndInv, Locks
<1>10. Protected'
  <2> SUFFICES ASSUME NEW q \in Reqs, NEW t \in Tiers
               PROVE  /\ pc'[q] \in {"idle", "advise"} => pend'[q][t] = 0
                      /\ pc'[q] \in InTxn /\ pend'[q][t] # 0 => lock'[t] = q
    BY DEF Protected
  <2>1. CASE q = r
    BY <1>1, <1>4, <1>7, <1>8, <2>1 DEF IndInv, Protected
  <2>2. CASE q # r
    BY <1>3, <1>4, <1>7, <2>2, ReqsAssumption DEF IndInv, Protected
  <2> QED
    BY <2>1, <2>2
<1>11. NoOverdraft'
  <2>1. balance \in [Tiers -> Int] /\ \A q \in Reqs, t \in Tiers : pend[q][t] \in Int
    BY DEF IndInv, TypeOK
  <2> QED
    BY <1>1, <1>2, <1>3, <1>4, <1>7, <2>1 DEF IndInv, NoOverdraft
<1> QED
  BY <1>3, <1>5, <1>6, <1>9, <1>10, <1>11 DEF IndInv, Snapshots, LedgerConserved

LEMMA DebitRefusedIndInv ==
  ASSUME IndInv, NEW r \in Reqs, DebitRefused(r)
  PROVE  IndInv'
<1> DEFINE u == Tier(r)
<1>1. /\ pc[r] \in InTxn /\ idx[r] \in Tiers /\ idx[r] <= NTiers
      /\ u \in Tiers /\ advised[r][u] > 0
  BY TryingOnTier DEF IndInv, DebitRefused
<1>2. PICK label \in {"debit", "reread"} :
        /\ Goto(r, label)
        /\ label = "debit" => idx' = [idx EXCEPT ![r] = @ + 1]
        /\ label = "reread" => idx' = idx
  BY DEF DebitRefused, NextTier
<1>3. /\ lock' = lock \/ (lock[u] = NoReq /\ lock' = [lock EXCEPT ![u] = r])
      /\ UNCHANGED <<exists, balance, pct, ledger, clobbered, event, req,
                     advised, rem, want, pend, snap>>
  BY DEF DebitRefused, dbVars
<1>4. label \in PCs /\ label \in InTxn /\ label \notin {"idle", "advise"}
  BY <1>2 DEF PCs, InTxn
<1>5. /\ pc' \in [Reqs -> PCs] /\ pc'[r] = label
      /\ \A q \in Reqs \ {r} : pc'[q] = pc[q] /\ idx'[q] = idx[q]
      /\ idx' \in [Reqs -> 1..NTiers + 1]
  <2>1. idx \in [Reqs -> 1..NTiers + 1]
    BY DEF IndInv, TypeOK
  <2> QED
    BY <1>1, <1>2, <1>4, <2>1, GotoType, NextIdxType DEF IndInv
<1>6. TypeOK'
  <2>1. lock' \in [Tiers -> Reqs \cup {NoReq}]
    BY <1>1, <1>3 DEF IndInv, TypeOK
  <2> QED
    BY <1>3, <1>5, <2>1 DEF IndInv, TypeOK
<1>7. Progress'
  <2>1. req[r].kind = "cover"
    BY <1>1 DEF IndInv, Progress, ProgressOf
  <2>2. label = "reread" => idx'[r] \in Tiers /\ advised'[r][Tier(r)'] > 0
    BY <1>1, <1>2, <1>3 DEF Tier
  <2>3. ProgressOf(r)'
    BY <1>2, <1>3, <1>5, <2>1, <2>2 DEF ProgressOf, InTxn
  <2> QED
    BY <1>3, <1>5, <2>3, OthersProgress DEF IndInv
<1>8. \A t \in Tiers : lock'[t] = lock[t] \/ (t = u /\ lock[t] = NoReq /\ lock'[t] = r)
  BY <1>1, <1>3 DEF IndInv, TypeOK
<1>9. Locks'
  BY <1>1, <1>3, <1>4, <1>5, <1>8 DEF IndInv, Locks, TypeOK
<1>10. Protected'
  <2> SUFFICES ASSUME NEW q \in Reqs, NEW t \in Tiers
               PROVE  /\ pc'[q] \in {"idle", "advise"} => pend[q][t] = 0
                      /\ pc'[q] \in InTxn /\ pend[q][t] # 0 => lock'[t] = q
    BY <1>3 DEF Protected
  <2> QED
    BY <1>1, <1>4, <1>5, <1>8, ReqsAssumption DEF IndInv, Protected
<1>11. NoOverdraft'
  BY <1>1, <1>3, <1>5 DEF IndInv, NoOverdraft
<1> QED
  BY <1>3, <1>6, <1>7, <1>9, <1>10, <1>11 DEF IndInv, Snapshots, LedgerConserved

\* The end of a transaction frees its rows and no others.
LEMMA UnlockedLocks ==
  ASSUME TypeOK, NEW r \in Reqs, lock' = Unlocked(r)
  PROVE  /\ lock' \in [Tiers -> Reqs \cup {NoReq}]
         /\ \A t \in Tiers : lock'[t] = IF lock[t] = r THEN NoReq ELSE lock[t]
BY DEF TypeOK, Unlocked

\* COMMIT: a payout is of a row the transaction has locked, so no other open
\* transaction has a payout of the same row.
LEMMA CommitIndInv ==
  ASSUME IndInv, NEW r \in Reqs, Commit(r)
  PROVE  IndInv'
<1>1. /\ pc[r] = "debit" /\ Goto(r, "health")
      /\ balance' = [t \in Tiers |-> balance[t] - pend[r][t]]
      /\ ledger' = [t \in Tiers |-> ledger[t] - pend[r][t]]
      /\ event' = [event EXCEPT ![r] = req[r].amt - rem[r]]
      /\ lock' = Unlocked(r)
      /\ idx' = [idx EXCEPT ![r] = 1]
      /\ UNCHANGED <<exists, pct, clobbered, req, advised, rem, want, pend, snap>>
  BY DEF Commit
<1>2. /\ pc' \in [Reqs -> PCs] /\ pc'[r] = "health"
      /\ \A q \in Reqs \ {r} : pc'[q] = pc[q]
  <2>1. "health" \in PCs
    BY DEF PCs
  <2> QED
    BY <1>1, <2>1, GotoType DEF IndInv
<1>3. /\ lock' \in [Tiers -> Reqs \cup {NoReq}]
      /\ \A t \in Tiers : lock'[t] = IF lock[t] = r THEN NoReq ELSE lock[t]
  BY <1>1, UnlockedLocks DEF IndInv
<1>4. /\ \A t \in Tiers : balance[t] \in Int /\ ledger[t] \in Int
      /\ \A q \in Reqs, t \in Tiers : pend[q][t] \in Int
  BY DEF IndInv, TypeOK
<1>5. TypeOK'
  <2>1. balance' \in [Tiers -> Int] /\ ledger' \in [Tiers -> Int]
    BY <1>1, <1>4
  <2>2. event' \in [Reqs -> Int] /\ idx' \in [Reqs -> 1..NTiers + 1]
    BY <1>1, TiersAssumption DEF IndInv, TypeOK
  <2> QED
    BY <1>1, <1>2, <1>3, <2>1, <2>2 DEF IndInv, TypeOK
<1>6. Progress'
  <2>1. req[r].kind = "cover"
    BY <1>1 DEF IndInv, Progress, ProgressOf, InTxn
  <2>2. ProgressOf(r)'
    BY <1>1, <1>2, <2>1 DEF ProgressOf, InTxn
  <2>3. \A q \in Reqs \ {r} : idx'[q] = idx[q]
    BY <1>1 DEF IndInv, TypeOK
  <2> QED
    BY <1>1, <1>2, <2>2, <2>3, OthersProgress DEF IndInv
<1>7. "debit" \in InTxn /\ "health" \notin InTxn
  BY DEF InTxn
<1>8. Locks'
  BY <1>1, <1>2, <1>3 DEF IndInv, Locks, TypeOK
<1>9. Protected'
  <2> SUFFICES ASSUME NEW q \in Reqs, NEW t \in Tiers
               PROVE  /\ pc'[q] \in {"idle", "advise"} => pend[q][t] = 0
                      /\ pc'[q] \in InTxn /\ pend[q][t] # 0 => lock'[t] = q
    BY <1>1 DEF Protected
  <2> QED
    BY <1>2, <1>3, <1>7 DEF IndInv, Protected
<1>10. NoOverdraft'
  <2> SUFFICES ASSUME NEW t \in Tiers
               PROVE  /\ balance'[t] >= 0
                      /\ \A q \in Reqs : pc'[q] \in InTxn => balance'[t] - pend[q][t] >= 0
    BY <1>1 DEF NoOverdraft
  <2>1. balance'[t] = balance[t] - pend[r][t] /\ balance'[t] >= 0
    BY <1>1, <1>7 DEF IndInv, NoOverdraft
  <2>2. ASSUME NEW q \in Reqs, pc'[q] \in InTxn PROVE balance'[t] - pend[q][t] >= 0
    <3>1. q # r /\ pc[q] \in InTxn
      BY <1>2, <1>7, <2>2
    <3>2. pend[q][t] = 0 \/ pend[r][t] = 0
      BY <1>1, <1>7, <3>1 DEF IndInv, Protected
    <3>3. balance[t] - pend[q][t] >= 0
      BY <3>1 DEF IndInv, NoOverdraft
    <3> QED
      BY <1>4, <2>1, <3>2, <3>3
  <2> QED
    BY <2>1, <2>2
<1>11. LedgerConserved'
  BY <1>1 DEF IndInv, LedgerConserved
<1> QED
  BY <1>1, <1>5, <1>6, <1>8, <1>9, <1>10, <1>11 DEF IndInv, Snapshots

\* A rollback, wherever the handler is: its rows are freed and its payouts of
\* an open transaction are forgotten.
LEMMA AbortIndInv ==
  ASSUME IndInv, NEW r \in Reqs, Fail(r) \/ DeadlockAbort(r)
  PROVE  IndInv'
<1>1. /\ lock' = Unlocked(r) /\ Goto(r, "failed")
      /\ pend' = pend \/ pend' = [pend EXCEPT ![r] = NoPay]
      /\ UNCHANGED <<exists, balance, pct, ledger, clobbered, event, req, idx,
                     advised, rem, want, snap>>
  <2>1. CASE Fail(r)
    <3>1. pend \in [Reqs -> [Tiers -> Int]]
      BY DEF IndInv, TypeOK
    <3> QED
      BY <2>1, <3>1 DEF Fail, dbVars
  <2>2. CASE DeadlockAbort(r)
    BY <2>2 DEF DeadlockAbort, dbVars
  <2> QED
    BY <2>1, <2>2
<1>2. /\ pc' \in [Reqs -> PCs] /\ pc'[r] = "failed"
      /\ \A q \in Reqs \ {r} : pc'[q] = pc[q]
  <2>1. "failed" \in PCs
    BY DEF PCs, Ended
  <2> QED
    BY <1>1, <2>1, GotoType DEF IndInv
<1>3. /\ lock' \in [Tiers -> Reqs \cup {NoReq}]
      /\ \A t \in Tiers : lock'[t] = IF lock[t] = r THEN NoReq ELSE lock[t]
  BY <1>1, UnlockedLocks DEF IndInv
<1>4. pend' \in [Reqs -> [Tiers -> Int]] /\ \A q \in Reqs \ {r} : pend'[q] = pend[q]
  <2>1. NoPay \in [Tiers -> Int] /\ pend \in [Reqs -> [Tiers -> Int]]
    BY DEF IndInv, TypeOK, NoPay
  <2> QED
    BY <1>1, <2>1
<1>5. TypeOK'
  BY <1>1, <1>2, <1>3, <1>4 DEF IndInv, TypeOK
<1>6. Progress'
  <2>1. ProgressOf(r)'
    BY <1>1, <1>2 DEF IndInv, Progress, ProgressOf, InTxn
  <2> QED
    BY <1>1, <1>2, <2>1, OthersProgress DEF IndInv
<1>7. "failed" \notin InTxn
  BY DEF InTxn
<1>8. Locks'
  BY <1>1, <1>2, <1>3 DEF IndInv, Locks, TypeOK
<1>9. Protected'
  <2> SUFFICES ASSUME NEW q \in Reqs, NEW t \in Tiers
               PROVE  /\ pc'[q] \in {"idle", "advise"} => pend'[q][t] = 0
                      /\ pc'[q] \in InTxn /\ pend'[q][t] # 0 => lock'[t] = q
    BY DEF Protected
  <2> QED
    BY <1>2, <1>3, <1>4, <1>7 DEF IndInv, Protected
<1>10. NoOverdraft'
  <2> SUFFICES ASSUME NEW q \in Reqs, NEW t \in Tiers, pc'[q] \in InTxn
               PROVE  balance[t] - pend'[q][t] >= 0
    BY <1>1 DEF NoOverdraft, IndInv
  <2> QED
    BY <1>2, <1>4, <1>7 DEF IndInv, NoOverdraft
<1> QED
  BY <1>1, <1>5, <1>6, <1>8, <1>9, <1>10 DEF IndInv, Snapshots, LedgerConserved

\* A step that changes the balance of one fund that nobody has locked: then no
\* open transaction has a payout of it.
LEMMA FundStep ==
  ASSUME IndInv, NEW r \in Reqs, NEW label \in PCs, NEW u \in Tiers, Goto(r, label),
         pc[r] \notin InTxn \cup {"idle", "advise"},
         label \notin InTxn \cup {"idle", "advise"},
         lock[u] = NoReq,
         NEW b \in Nat, balance' = [balance EXCEPT ![u] = b],
         exists \subseteq exists',
         UNCHANGED <<lock, advised, pend>>
  PROVE  Locks' /\ Protected' /\ NoOverdraft'
<1>1. /\ pc'[r] = label /\ \A q \in Reqs \ {r} : pc'[q] = pc[q]
  BY GotoType DEF IndInv
<1>2. Locks'
  BY <1>1 DEF IndInv, Locks, TypeOK
<1>3. Protected'
  BY <1>1 DEF IndInv, Protected
<1>4. NoOverdraft'
  <2> SUFFICES ASSUME NEW t \in Tiers
               PROVE  /\ balance'[t] >= 0
                      /\ \A q \in Reqs : pc'[q] \in InTxn => balance'[t] - pend[q][t] >= 0
    BY DEF NoOverdraft
  <2>1. CASE t # u
    BY <1>1, <2>1 DEF IndInv, TypeOK, NoOverdraft
  <2>2. CASE t = u
    <3>1. balance'[t] = b
      BY <2>2 DEF IndInv, TypeOK
    <3>2. \A q \in Reqs : pc'[q] \in InTxn => pend[q][t] = 0
      BY <1>1, <2>2, ReqsAssumption DEF IndInv, Protected
    <3> QED
      BY <3>1, <3>2
  <2> QED
    BY <2>1, <2>2
<1> QED
  BY <1>2, <1>3, <1>4

\* replenishFund and contributeFromFees.
LEMMA CreditIndInv ==
  ASSUME IndInv, NEW r \in Reqs, Credit(r)
  PROVE  IndInv'
<1> DEFINE u == req[r].tier
<1>1. /\ pc[r] = "credit" /\ u \in Tiers /\ req[r].kind \in {"replenish", "contribute"}
      /\ req[r].amt \in Nat /\ balance[u] \in Nat /\ ledger[u] \in Int
  BY DEF IndInv, TypeOK, Progress, ProgressOf, NoOverdraft, Credit
<1>2. /\ UNCHANGED <<exists, pct, clobbered, event, lock, req, idx, advised, rem,
                     want, pend, snap>>
      /\ \/ /\ Goto(r, "failed") /\ UNCHANGED <<balance, ledger>>
         \/ /\ Goto(r, "health") /\ lock[u] = NoReq
            /\ balance' = [balance EXCEPT ![u] = balance[u] + req[r].amt]
            /\ ledger' = [ledger EXCEPT ![u] = ledger[u] + req[r].amt]
  BY DEF Credit, Post, txnVars
<1>3. PICK label \in {"failed", "health"} : Goto(r, label)
  BY <1>2
<1>4. label \in PCs /\ label \notin InTxn \cup {"idle", "advise"}
      /\ pc[r] \notin InTxn \cup {"idle", "advise"}
  BY <1>1, <1>3 DEF PCs, Ended, InTxn
<1>5. TypeOK'
  <2>1. balance' \in [Tiers -> Int] /\ ledger' \in [Tiers -> Int]
    BY <1>1, <1>2 DEF IndInv, TypeOK
  <2> QED
    BY <1>2, <1>3, <1>4, <2>1, GotoType DEF IndInv, TypeOK
<1>6. Progress'
  <2>1. pc'[r] = label /\ \A q \in Reqs \ {r} : pc'[q] = pc[q]
    BY <1>3, <1>4, GotoType DEF IndInv
  <2>2. ProgressOf(r)'
    BY <1>1, <1>2, <1>3, <2>1 DEF IndInv, Progress, ProgressOf, InTxn
  <2> QED
    BY <1>2, <2>1, <2>2, OthersProgress DEF IndInv
<1>7. Locks' /\ Protected' /\ NoOverdraft' /\ LedgerConserved'
  <2>1. CASE UNCHANGED <<balance, ledger>>
    BY <1>2, <1>3, <1>4, <2>1, LocalStep DEF IndInv, Locks
  <2>2. CASE /\ lock[u] = NoReq
             /\ balance' = [balance EXCEPT ![u] = balance[u] + req[r].amt]
             /\ ledger' = [ledger EXCEPT ![u] = ledger[u] + req[r].amt]
    <3>1. balance[u] + req[r].amt \in Nat
      BY <1>1
    <3>2. Locks' /\ Protected' /\ NoOverdraft'
      BY <1>1, <1>2, <1>3, <1>4, <2>2, <3>1, FundStep
    <3>3. LedgerConserved'
      BY <1>1, <1>2, <2>2 DEF IndInv, TypeOK, LedgerConserved
    <3> QED
      BY <3>2, <3>3
  <2> QED
    BY <1>2, <2>1, <2>2
<1> QED
  BY <1>2, <1>5, <1>6, <1>7 DEF IndInv, Snapshots

\* initializeFunds.
LEMMA InitFindIndInv ==
  ASSUME IndInv, NEW r \in Reqs, InitFind(r)
  PROVE  IndInv'
<1>1. /\ pc[r] = "initFind" /\ req[r].kind = "init" /\ idx[r] \in 1..NTiers + 1
      /\ UNCHANGED <<exists, balance, pct, ledger, clobbered, event, lock, req,
                     idx, advised, rem, want, pend, snap>>
  BY DEF IndInv, TypeOK, Progress, ProgressOf, InitFind, dbVars, txnVars
<1>2. PICK label \in {"done", "health", "initInsert"} :
        Goto(r, label) /\ (label # "done" => idx[r] \in Tiers)
  BY <1>1, TiersAssumption DEF InitFind, Tiers
<1>3. label \in PCs /\ label \notin InTxn \cup {"idle", "advise"}
      /\ pc[r] \notin InTxn \cup {"idle", "advise"}
  BY <1>1, <1>2 DEF PCs, Ended, InTxn
<1>4. TypeOK'
  BY <1>1, <1>2, <1>3, GotoType DEF IndInv, TypeOK
<1>5. Progress'
  <2>1. pc'[r] = label /\ \A q \in Reqs \ {r} : pc'[q] = pc[q]
    BY <1>2, <1>3, GotoType DEF IndInv
  <2>2. ProgressOf(r)'
    BY <1>1, <1>2, <2>1 DEF IndInv, Progress, ProgressOf, InTxn
  <2> QED
    BY <1>1, <2>1, <2>2, OthersProgress DEF IndInv
<1>6. Locks' /\ Protected' /\ NoOverdraft' /\ LedgerConserved'
  BY <1>1, <1>2, <1>3, LocalStep DEF IndInv, Locks
<1> QED
  BY <1>1, <1>4, <1>5, <1>6 DEF IndInv, Snapshots

LEMMA InitInsertIndInv ==
  ASSUME IndInv, NEW r \in Reqs, InitInsert(r)
  PROVE  IndInv'
<1> DEFINE u == idx[r]
           b == Target[u] \div 2
<1>1. pc[r] = "initInsert" /\ u \in Tiers /\ req[r].kind = "init" /\ b \in Nat
  <2>1. pc[r] = "initInsert" /\ u \in Tiers /\ req[r].kind = "init"
    BY DEF IndInv, Progress, ProgressOf, InitInsert
  <2>2. Target[u] \in Nat
    BY <2>1, TargetAssumption
  <2> QED
    BY <2>1, <2>2
<1>2. /\ UNCHANGED <<clobbered, event, lock, req, idx, advised, rem, want, pend, snap>>
      /\ \/ /\ Goto(r, "failed") /\ UNCHANGED <<exists, balance, pct, ledger>>
         \/ /\ Goto(r, "health") /\ u \notin exists /\ exists' = exists \cup {u}
            /\ balance' = [balance EXCEPT ![u] = b]
            /\ ledger' = [ledger EXCEPT ![u] = b]
            /\ pct' = [pct EXCEPT ![u] = 50]
  BY DEF InitInsert, txnVars
<1>3. PICK label \in {"failed", "health"} : Goto(r, label)
  BY <1>2
<1>4. label \in PCs /\ label \notin InTxn \cup {"idle", "advise"}
      /\ pc[r] \notin InTxn \cup {"idle", "advise"}
  BY <1>1, <1>3 DEF PCs, Ended, InTxn
<1>5. TypeOK'
  <2>1. /\ balance' \in [Tiers -> Int] /\ ledger' \in [Tiers -> Int]
        /\ pct' \in [Tiers -> 0..100] /\ exists' \subseteq Tiers
    <3>1. /\ balance \in [Tiers -> Int] /\ ledger \in [Tiers -> Int]
          /\ pct \in [Tiers -> 0..100] /\ exists \subseteq Tiers /\ 50 \in 0..100
      BY DEF IndInv, TypeOK
    <3>2. CASE UNCHANGED <<exists, balance, pct, ledger>>
      BY <3>1, <3>2
    <3>3. CASE /\ exists' = exists \cup {u} /\ balance' = [balance EXCEPT ![u] = b]
               /\ ledger' = [ledger EXCEPT ![u] = b]
               /\ pct' = [pct EXCEPT ![u] = 50]
      BY <1>1, <3>1, <3>3
    <3> QED
      BY <1>2, <3>2, <3>3
  <2> QED
    BY <1>2, <1>3, <1>4, <2>1, GotoType DEF IndInv, TypeOK
<1>6. Progress'
  <2>1. pc'[r] = label /\ \A q \in Reqs \ {r} : pc'[q] = pc[q]
    BY <1>3, <1>4, GotoType DEF IndInv
  <2>2. ProgressOf(r)'
    BY <1>1, <1>2, <1>3, <2>1 DEF IndInv, Progress, ProgressOf, InTxn
  <2> QED
    BY <1>2, <2>1, <2>2, OthersProgress DEF IndInv
<1>7. Locks' /\ Protected' /\ NoOverdraft' /\ LedgerConserved'
  <2>1. CASE UNCHANGED <<exists, balance, ledger>>
    BY <1>2, <1>3, <1>4, <2>1, LocalStep DEF IndInv, Locks
  <2>2. CASE /\ u \notin exists /\ exists' = exists \cup {u}
             /\ balance' = [balance EXCEPT ![u] = b]
             /\ ledger' = [ledger EXCEPT ![u] = b]
    <3>1. lock[u] = NoReq
      BY <1>1, <2>2 DEF IndInv, Locks
    <3>2. Locks' /\ Protected' /\ NoOverdraft'
      BY <1>1, <1>2, <1>3, <1>4, <2>2, <3>1, FundStep
    <3>3. LedgerConserved'
      BY <1>1, <1>2, <2>2 DEF IndInv, TypeOK, LedgerConserved
    <3> QED
      BY <3>2, <3>3
  <2> QED
    BY <1>2, <2>1, <2>2
<1> QED
  BY <1>2, <1>5, <1>6, <1>7 DEF IndInv, Snapshots

\* updateFundHealth: what follows it.
LEMMA AfterHealthStep ==
  ASSUME IndInv, NEW r \in Reqs, AfterHealth(r), UNCHANGED <<req, advised>>,
         pc[r] \in {"health", "healthSave"},
         req[r].kind \in {"cover", "init"} => idx[r] \in Tiers
  PROVE  /\ \E label \in {"health", "initFind", "done"} : Goto(r, label)
         /\ idx' \in [Reqs -> 1..NTiers + 1]
         /\ Progress'
<1>1. idx \in [Reqs -> 1..NTiers + 1] /\ req[r].kind \in Kinds
  BY DEF IndInv, TypeOK
<1>2. PICK label \in {"health", "initFind", "done"} :
        /\ Goto(r, label)
        /\ label = "health" => req[r].kind = "cover"
        /\ label = "initFind" => req[r].kind = "init"
        /\ \/ req[r].kind \in {"cover", "init"} /\ idx' = [idx EXCEPT ![r] = @ + 1]
           \/ idx' = idx
  BY DEF AfterHealth
<1>3. idx' \in [Reqs -> 1..NTiers + 1] /\ \A q \in Reqs \ {r} : idx'[q] = idx[q]
  <2>1. CASE idx' = idx
    BY <1>1, <2>1
  <2>2. CASE req[r].kind \in {"cover", "init"} /\ idx' = [idx EXCEPT ![r] = @ + 1]
    <3>1. idx[r] <= NTiers
      BY <2>2, TiersAssumption DEF Tiers
    <3> QED
      BY <2>2, <3>1, NextIdxType DEF IndInv
  <2> QED
    BY <1>2, <2>1, <2>2
<1>4. label \in PCs
  BY <1>2 DEF PCs, Ended
<1>5. pc'[r] = label /\ \A q \in Reqs \ {r} : pc'[q] = pc[q]
  BY <1>2, <1>4, GotoType DEF IndInv
<1>6. ProgressOf(r)'
  BY <1>2, <1>5 DEF IndInv, Progress, ProgressOf, InTxn
<1> QED
  BY <1>2, <1>3, <1>5, <1>6, OthersProgress DEF IndInv

LEMMA HealthNoneIndInv ==
  ASSUME IndInv, NEW r \in Reqs, HealthNone(r)
  PROVE  IndInv'
<1>1. /\ pc[r] = "health" /\ req[r].kind = "cover" /\ idx[r] \in 1..NTiers + 1
      /\ UNCHANGED <<exists, balance, pct, ledger, clobbered, event, lock, req,
                     advised, rem, want, pend, snap>>
  BY DEF IndInv, TypeOK, HealthNone, dbVars
<1>2. \/ Goto(r, "done") /\ UNCHANGED idx
      \/ AfterHealth(r) /\ idx[r] \in Tiers
  BY <1>1, TiersAssumption DEF HealthNone, Tiers
<1>3. /\ \E label \in {"health", "initFind", "done"} : Goto(r, label)
      /\ idx' \in [Reqs -> 1..NTiers + 1]
      /\ Progress'
  <2>1. CASE Goto(r, "done") /\ UNCHANGED idx
    <3>1. "done" \in PCs
      BY DEF PCs, Ended
    <3>2. pc'[r] = "done" /\ \A q \in Reqs \ {r} : pc'[q] = pc[q]
      BY <2>1, <3>1, GotoType DEF IndInv
    <3>3. ProgressOf(r)'
      BY <1>1, <2>1, <3>2 DEF IndInv, Progress, ProgressOf, InTxn
    <3> QED
      BY <1>1, <2>1, <3>2, <3>3, OthersProgress DEF IndInv, TypeOK
  <2>2. CASE AfterHealth(r) /\ idx[r] \in Tiers
    BY <1>1, <2>2, AfterHealthStep
  <2> QED
    BY <1>2, <2>1, <2>2
<1>4. PICK label \in {"health", "initFind", "done"} : Goto(r, label)
  BY <1>3
<1>5. label \in PCs /\ label \notin InTxn \cup {"idle", "advise"}
      /\ pc[r] \notin InTxn \cup {"idle", "advise"}
  BY <1>1, <1>4 DEF PCs, Ended, InTxn
<1>6. TypeOK'
  BY <1>1, <1>3, <1>4, <1>5, GotoType DEF IndInv, TypeOK
<1>7. Locks' /\ Protected' /\ NoOverdraft' /\ LedgerConserved'
  BY <1>1, <1>4, <1>5, LocalStep DEF IndInv, Locks
<1> QED
  BY <1>1, <1>3, <1>6, <1>7 DEF IndInv, Snapshots

\* The entity read and the columns chosen: nothing in the database changes.
LEMMA HealthReadIndInv ==
  ASSUME IndInv, NEW r \in Reqs, HealthRead(r) \/ HealthLoad(r)
  PROVE  IndInv'
<1>1. /\ UNCHANGED <<exists, balance, pct, ledger, clobbered, event, lock, req,
                     idx, advised, rem, want, pend>>
      /\ pc[r] \in {"health", "healthLoad"}
      /\ pc[r] = "health" => HealthRead(r)
      /\ pc[r] = "healthLoad" => HealthLoad(r)
  BY DEF HealthRead, HealthLoad, dbVars, txnVars
<1>2. /\ HealthTier(r) \in Tiers
      /\ req[r].kind \in {"cover", "init"} => idx[r] \in Tiers
  <2>1. idx[r] \in 1..NTiers + 1
    BY DEF IndInv, TypeOK
  <2>2. pc[r] = "health" => (req[r].kind = "cover" => idx[r] <= NTiers)
    BY <1>1 DEF HealthRead
  <2> QED
    BY <1>1, <2>1, <2>2, HandlersTier, TiersAssumption
    DEF IndInv, Progress, ProgressOf, Tiers
<1>3. PICK label \in {"healthLoad", "healthSave"} : Goto(r, label)
  BY DEF HealthRead, HealthLoad
<1>4. snap' \in [Reqs -> Snaps] /\ \A q \in Reqs : snap'[q].bal >= 0
  <2>1. /\ snap \in [Reqs -> Snaps] /\ \A q \in Reqs : snap[q].bal >= 0
        /\ balance[HealthTier(r)] \in Nat
    BY <1>2 DEF IndInv, TypeOK, Snapshots, NoOverdraft
  <2>2. HealthPercent(balance[HealthTier(r)], HealthTier(r)) \in 0..100
    BY <1>2, <2>1, PercentInRange
  <2>3. CASE HealthRead(r)
    <3> DEFINE s == [bal |-> balance[HealthTier(r)],
                     pct |-> HealthPercent(balance[HealthTier(r)], HealthTier(r)),
                     setBal |-> FALSE, setPct |-> FALSE]
    <3>1. snap' = [snap EXCEPT ![r] = s]
      BY <2>3 DEF HealthRead
    <3>2. s \in Snaps /\ s.bal >= 0
      BY <2>1, <2>2 DEF Snaps
    <3> QED
      BY <2>1, <3>1, <3>2
  <2>4. CASE HealthLoad(r)
    <3> DEFINE s == [bal |-> snap[r].bal, pct |-> snap[r].pct,
                     setBal |-> snap[r].bal # balance[HealthTier(r)],
                     setPct |-> snap[r].pct # pct[HealthTier(r)]]
    <3>1. snap' = [snap EXCEPT ![r] = s]
      BY <2>4 DEF HealthLoad
    <3>2. s \in Snaps /\ s.bal >= 0
      BY <2>1 DEF Snaps
    <3> QED
      BY <2>1, <3>1, <3>2
  <2> QED
    BY <2>3, <2>4
<1>5. label \in PCs /\ label \notin InTxn \cup {"idle", "advise"}
      /\ pc[r] \notin InTxn \cup {"idle", "advise"}
  BY <1>1, <1>3 DEF PCs, InTxn
<1>6. TypeOK'
  BY <1>1, <1>3, <1>4, <1>5, GotoType DEF IndInv, TypeOK
<1>7. Progress'
  <2>1. pc'[r] = label /\ \A q \in Reqs \ {r} : pc'[q] = pc[q]
    BY <1>3, <1>5, GotoType DEF IndInv
  <2>2. ProgressOf(r)'
    BY <1>1, <1>2, <1>3, <2>1 DEF IndInv, Progress, ProgressOf, InTxn
  <2> QED
    BY <1>1, <2>1, <2>2, OthersProgress DEF IndInv
<1>8. Locks' /\ Protected' /\ NoOverdraft' /\ LedgerConserved'
  BY <1>1, <1>3, <1>5, LocalStep DEF IndInv, Locks
<1> QED
  BY <1>4, <1>6, <1>7, <1>8 DEF IndInv, Snapshots

\* The save: a balance it writes back is one the fund has had, and the row is
\* free when it is written.
LEMMA HealthSaveIndInv ==
  ASSUME IndInv, NEW r \in Reqs, HealthSave(r)
  PROVE  IndInv'
<1> DEFINE u == HealthTier(r)
           s == snap[r]
<1>1. /\ pc[r] = "healthSave" /\ u \in Tiers
      /\ req[r].kind \in {"cover", "init"} => idx[r] \in Tiers
  BY HandlersTier DEF HealthSave, IndInv, Progress, ProgressOf
<1>2. /\ s.bal \in Nat /\ s.pct \in 0..100 /\ s.setBal \in BOOLEAN
      /\ s.setPct \in BOOLEAN /\ balance[u] \in Nat
  BY <1>1 DEF IndInv, TypeOK, Snaps, Snapshots, NoOverdraft
<1>3. /\ s.setBal \/ s.setPct => lock[u] = NoReq
      /\ balance' = [balance EXCEPT ![u] = IF s.setBal THEN s.bal ELSE balance[u]]
      /\ pct' = [pct EXCEPT ![u] = IF s.setPct THEN s.pct ELSE pct[u]]
      /\ clobbered' = [clobbered EXCEPT
                         ![u] = clobbered[u] \/ (s.setBal /\ s.bal # balance[u])]
      /\ AfterHealth(r)
      /\ UNCHANGED <<exists, ledger, event, lock, req, advised, rem, want, pend, snap>>
  BY DEF HealthSave
<1>4. PICK label \in {"health", "initFind", "done"} : Goto(r, label)
  BY <1>1, <1>3, AfterHealthStep
<1>5. idx' \in [Reqs -> 1..NTiers + 1] /\ Progress'
  BY <1>1, <1>3, AfterHealthStep
<1>6. label \in PCs /\ label \notin InTxn \cup {"idle", "advise"}
      /\ pc[r] \notin InTxn \cup {"idle", "advise"}
  BY <1>1, <1>4 DEF PCs, Ended, InTxn
<1>7. TypeOK'
  <2>1. /\ balance' \in [Tiers -> Int] /\ pct' \in [Tiers -> 0..100]
    BY <1>1, <1>2, <1>3 DEF IndInv, TypeOK
  <2>2. clobbered' \in [Tiers -> BOOLEAN]
    BY <1>1, <1>3, Zenon DEF IndInv, TypeOK
  <2> QED
    BY <1>3, <1>4, <1>5, <1>6, <2>1, <2>2, GotoType DEF IndInv, TypeOK
<1>8. Locks' /\ Protected' /\ NoOverdraft'
  <2>1. CASE s.setBal
    BY <1>1, <1>2, <1>3, <1>4, <1>6, <2>1, FundStep
  <2>2. CASE ~s.setBal
    <3>1. balance' = balance
      BY <1>3, <2>2 DEF IndInv, TypeOK
    <3>2. pc'[r] = label /\ \A q \in Reqs \ {r} : pc'[q] = pc[q]
      BY <1>4, <1>6, GotoType DEF IndInv
    <3>3. Locks'
      BY <1>3, <1>6, <3>2 DEF IndInv, Locks, TypeOK
    <3>4. Protected'
      BY <1>3, <1>6, <3>2 DEF IndInv, Protected
    <3>5. NoOverdraft'
      BY <1>3, <1>6, <3>1, <3>2 DEF IndInv, NoOverdraft
    <3> QED
      BY <3>3, <3>4, <3>5
  <2> QED
    BY <2>1, <2>2
<1>9. LedgerConserved'
  <2> SUFFICES ASSUME NEW t \in Tiers, ~clobbered'[t] PROVE balance'[t] = ledger'[t]
    BY DEF LedgerConserved
  <2>1. clobbered \in [Tiers -> BOOLEAN] /\ balance \in [Tiers -> Int]
    BY DEF IndInv, TypeOK
  <2>2. ~clobbered[t] /\ (t = u /\ s.setBal => s.bal = balance[u])
    BY <1>1, <1>3, <2>1
  <2>3. balance'[t] = balance[t]
    BY <1>1, <1>3, <2>1, <2>2
  <2> QED
    BY <1>3, <2>2, <2>3 DEF IndInv, LedgerConserved
<1> QED
  BY <1>3, <1>5, <1>7, <1>8, <1>9 DEF IndInv, Snapshots

LEMMA NextIndInv == IndInv /\ [Next]_vars => IndInv'
<1> SUFFICES ASSUME IndInv, [Next]_vars PROVE IndInv'
  OBVIOUS
<1>1. CASE UNCHANGED vars
  <2>1. UNCHANGED <<exists, balance, pct, lock, ledger, clobbered, event, pc, req,
                    idx, advised, rem, want, pend, snap>>
    BY <1>1 DEF vars, dbVars, txnVars
  <2> QED
    BY <2>1 DEF IndInv, TypeOK, Progress, ProgressOf, Tier, Locks, Protected,
                Snapshots, NoOverdraft, LedgerConserved
<1>2. ASSUME NEW r \in Reqs, Step(r) PROVE IndInv'
  BY <1>2, AdviseIndInv, WalkIndInv, DebitIndInv, DebitRefusedIndInv, CommitIndInv,
     CreditIndInv, InitFindIndInv, InitInsertIndInv, HealthNoneIndInv,
     HealthReadIndInv, HealthSaveIndInv
  DEF Step
<1> QED
  BY <1>1, <1>2, StartIndInv, AbortIndInv DEF Next, Finished

-----------------------------------------------------------------------------
(* The theorems.                                                           *)

\* The inductive invariant holds in every reachable state.
THEOREM Inductive == Spec => []IndInv
BY InitIndInv, NextIndInv, PTL DEF Spec

\* The rows of insurance_funds, the locks and the local state of the handlers
\* keep their types; in particular a health percentage stays within 0..100.
THEOREM TypeCorrect == Spec => []TypeOK
<1>1. IndInv => TypeOK
  BY DEF IndInv
<1> QED
  BY <1>1, Inductive, PTL

\* No interleaving of coverShortfall, replenishFund, contributeFromTradeFee,
\* initializeFunds and updateFundHealth, with any preferred tiers and any
\* failures, overdraws a fund.
THEOREM FundsNeverOverdrawn == Spec => []NoOverdraft
<1>1. IndInv => NoOverdraft
  BY DEF IndInv
<1> QED
  BY <1>1, Inductive, PTL

\* A balance differs from the sum of the audit rows only in a fund whose
\* balance a health save has replaced.
THEOREM LedgerAccountsForBalance == Spec => []LedgerConserved
<1>1. IndInv => LedgerConserved
  BY DEF IndInv
<1> QED
  BY <1>1, Inductive, PTL

-----------------------------------------------------------------------------
(* Without a preferred tier, row locks are taken in the order of           *)
(* TIER_PRIORITY: such a transaction holds only rows before its position,  *)
(* or the row at its position once it has been refused there.              *)

LockOrder ==
  \A r \in Reqs : \A t \in Tiers :
    lock[t] = r /\ req[r].tier = 0 => t < idx[r] \/ (t = idx[r] /\ pc[r] # "debit")

\* A step of r that takes no row keeps the order if r goes on to the next tier,
\* stays where it is outside "debit", or holds no row afterwards.
LEMMA LockOrderStep ==
  ASSUME IndInv, LockOrder, NEW r \in Reqs,
         idx' \in [Reqs -> 1..NTiers + 1],
         \A q \in Reqs \ {r} : pc'[q] = pc[q] /\ idx'[q] = idx[q] /\ req'[q] = req[q],
         \A t \in Tiers : \A q \in Reqs \ {r} : lock'[t] = q => lock[t] = q,
         \A t \in Tiers : lock'[t] = r /\ req'[r].tier = 0 =>
           t < idx'[r] \/ (t = idx'[r] /\ pc'[r] # "debit")
  PROVE  LockOrder'
BY DEF LockOrder

LEMMA LockOrderNext ==
  ASSUME IndInv, LockOrder, [Next]_vars
  PROVE  LockOrder'
<1>0. /\ idx \in [Reqs -> 1..NTiers + 1] /\ pc \in [Reqs -> PCs]
      /\ req \in [Reqs -> [kind : Kinds, amt : Nat, tier : 0..NTiers]]
      /\ \A t \in Tiers : lock[t] \in Reqs \cup {NoReq}
  BY DEF IndInv, TypeOK
<1>00. IndInv'
  BY NextIndInv
<1>01. idx' \in [Reqs -> 1..NTiers + 1]
  BY <1>00 DEF IndInv, TypeOK
\* Outside its transaction a handler holds no row.
<1>03. \A q \in Reqs, t \in Tiers : lock[t] = q => pc[q] \in InTxn
  BY <1>0, ReqsAssumption DEF IndInv, Locks
<1>04. \A q \in Reqs, t \in Tiers : lock'[t] = q => pc'[q] \in InTxn
  BY <1>00, ReqsAssumption DEF IndInv, Locks, TypeOK
<1>1. CASE UNCHANGED vars
  BY <1>1 DEF vars, dbVars, txnVars, LockOrder
<1>2. ASSUME NEW r \in Reqs, Start(r) PROVE LockOrder'
  <2>1. /\ pc[r] = "idle" /\ idx' = idx /\ lock' = lock
        /\ \A q \in Reqs \ {r} : pc'[q] = pc[q] /\ req'[q] = req[q]
    <3>1. CASE StartCover(r)
      BY <1>0, <3>1 DEF StartCover, Called, Goto
    <3>2. CASE StartReplenish(r) \/ StartContribute(r) \/ StartInit(r)
      BY <1>0, <3>2 DEF StartReplenish, StartContribute, StartInit, Called, Goto, txnVars
    <3> QED
      BY <1>2, <3>1, <3>2 DEF Start
  <2>2. pc[r] \notin InTxn
    BY <2>1 DEF InTxn
  <2> QED
    BY <1>0, <1>01, <1>03, <2>1, <2>2, LockOrderStep
\* Steps after which the handler is in no transaction: it holds no row then.
<1>3. ASSUME NEW r \in Reqs, UNCHANGED req, pc'[r] \notin InTxn,
             \A q \in Reqs \ {r} : pc'[q] = pc[q] /\ idx'[q] = idx[q],
             \A t \in Tiers : \A q \in Reqs \ {r} : lock'[t] = q => lock[t] = q
      PROVE  LockOrder'
  BY <1>01, <1>04, <1>3, LockOrderStep
<1>4. ASSUME NEW r \in Reqs, Commit(r) \/ Fail(r) \/ DeadlockAbort(r) PROVE LockOrder'
  <2>1. /\ UNCHANGED req /\ lock' = Unlocked(r)
        /\ \A q \in Reqs \ {r} : pc'[q] = pc[q] /\ idx'[q] = idx[q]
        /\ pc'[r] \in {"health", "failed"}
    BY <1>0, <1>4 DEF Commit, Fail, DeadlockAbort, Goto
  <2>2. pc'[r] \notin InTxn
    BY <2>1 DEF InTxn
  <2>3. \A t \in Tiers : \A q \in Reqs \ {r} : lock'[t] = q => lock[t] = q
    BY <2>1, ReqsAssumption DEF Unlocked
  <2> QED
    BY <1>3, <2>1, <2>2, <2>3
<1>5. ASSUME NEW r \in Reqs,
             Credit(r) \/ InitFind(r) \/ InitInsert(r) \/ HealthNone(r)
               \/ HealthRead(r) \/ HealthLoad(r) \/ HealthSave(r)
      PROVE  LockOrder'
  <2>1. /\ UNCHANGED <<req, lock>>
        /\ \A q \in Reqs \ {r} : pc'[q] = pc[q] /\ idx'[q] = idx[q]
        /\ pc'[r] \notin {"debit", "reread", "retry"}
    <3>1. CASE Credit(r) \/ InitFind(r) \/ InitInsert(r) \/ HealthRead(r) \/ HealthLoad(r)
      BY <1>0, <3>1
      DEF Credit, InitFind, InitInsert, HealthRead, HealthLoad, Goto, txnVars
    <3>2. CASE HealthNone(r) \/ HealthSave(r)
      <4>1. /\ UNCHANGED <<req, lock>>
            /\ \E label \in {"health", "initFind", "done"} : Goto(r, label)
            /\ idx' = idx \/ idx' = [idx EXCEPT ![r] = @ + 1]
        BY <3>2 DEF HealthNone, HealthSave, AfterHealth
      <4> QED
        BY <1>0, <4>1 DEF Goto
    <3> QED
      BY <1>5, <3>1, <3>2
  <2> QED
    BY <1>3, <2>1 DEF InTxn
<1>6. ASSUME NEW r \in Reqs, Advise(r) PROVE LockOrder'
  <2>1. /\ UNCHANGED <<req, lock>> /\ pc[r] = "advise"
        /\ \A q \in Reqs \ {r} : pc'[q] = pc[q] /\ idx'[q] = idx[q]
    BY <1>0, <1>6 DEF Advise, Goto
  <2>2. pc[r] \notin InTxn
    BY <2>1 DEF InTxn
  <2> QED
    BY <1>01, <1>03, <2>1, <2>2, LockOrderStep
<1>7. ASSUME NEW r \in Reqs,
             SkipTier(r) \/ Reread(r) \/ Debit(r) \/ DebitRefused(r)
      PROVE  LockOrder'
  <2>1. UNCHANGED req /\ idx[r] \in 1..NTiers + 1
    BY <1>0, <1>7 DEF SkipTier, Reread, Debit, DebitRefused
  <2>2. /\ \A q \in Reqs \ {r} : pc'[q] = pc[q] /\ idx'[q] = idx[q]
        /\ \/ idx'[r] = idx[r] + 1
           \/ idx'[r] = idx[r] /\ pc'[r] \in {"reread", "retry"}
    BY <1>0, <1>7 DEF SkipTier, Reread, Debit, DebitRefused, NextTier, Goto
  \* The only row it may take is the one at its position.
  <2>3. \A t \in Tiers : lock'[t] = lock[t] \/ (t = Tier(r) /\ lock'[t] = r)
    BY <1>7 DEF SkipTier, Reread, Debit, DebitRefused, IndInv, TypeOK
  <2>4. req[r].tier = 0 => Tier(r) = idx[r]
    BY DEF Tier, TierAt
  <2>5. \A t \in Tiers : lock'[t] = r /\ req[r].tier = 0 => t <= idx[r]
    <3> SUFFICES ASSUME NEW t \in Tiers, lock'[t] = r, req[r].tier = 0 PROVE t <= idx[r]
      OBVIOUS
    <3>1. CASE lock[t] = r
      BY <2>1, <3>1 DEF LockOrder, Tiers
    <3>2. CASE lock[t] # r
      BY <2>1, <2>3, <2>4, <3>2
    <3> QED
      BY <3>1, <3>2
  <2>6. \A t \in Tiers : lock'[t] = r /\ req[r].tier = 0 => t < idx'[r] \/ (t = idx'[r] /\ pc'[r] # "debit")
    BY <2>1, <2>2, <2>5 DEF Tiers
  <2>7. \A t \in Tiers : \A q \in Reqs \ {r} : lock'[t] = q => lock[t] = q
    BY <2>3
  <2> QED
    BY <1>01, <2>1, <2>2, <2>6, <2>7, LockOrderStep
<1>8. ASSUME NEW r \in Reqs, Step(r) PROVE LockOrder'
  BY <1>4, <1>5, <1>6, <1>7, <1>8 DEF Step
<1> QED
  BY <1>1, <1>2, <1>4, <1>8 DEF Next, Finished

\* Along a chain of waiting transactions without preferred tiers the position
\* grows, so that the one furthest along waits for nobody of the set.
LEMMA OrderedNeverDeadlocked ==
  ASSUME IndInv, LockOrder
  PROVE  NoDeadlock
<1> SUFFICES ASSUME NEW S \in SUBSET Reqs, Deadlocked(S), \A r \in S : req[r].tier = 0
             PROVE  FALSE
  BY DEF NoDeadlock
<1>1. \A r \in S : /\ idx[r] \in Tiers /\ Tier(r) = idx[r]
                   /\ \E q \in S \ {r} : lock[idx[r]] = q
  <2> SUFFICES ASSUME NEW r \in S
               PROVE  /\ idx[r] \in Tiers /\ Tier(r) = idx[r]
                      /\ \E q \in S \ {r} : lock[idx[r]] = q
    OBVIOUS
  <2>1. PICK q \in S : WaitsFor(r, q)
    BY DEF Deadlocked
  <2>2. pc[r] \in InTxn /\ idx[r] \in Tiers
    BY <2>1, TryingOnTier DEF WaitsFor, IndInv
  <2>3. req[r].tier = 0
    OBVIOUS
  <2>4. Tier(r) = idx[r]
    BY <2>3 DEF Tier, TierAt
  <2> QED
    BY <2>1, <2>2, <2>4 DEF WaitsFor
<1>2. \A r \in S : \E q \in S : idx[r] < idx[q]
  <2> SUFFICES ASSUME NEW r \in S PROVE \E q \in S : idx[r] < idx[q]
    OBVIOUS
  <2>1. PICK q \in S \ {r} : lock[idx[r]] = q
    BY <1>1
  <2>2. idx[r] # idx[q]
    BY <1>1, <2>1
  <2>3. idx[r] < idx[q] \/ idx[r] = idx[q]
    BY <1>1, <2>1 DEF LockOrder
  <2> QED
    BY <2>1, <2>2, <2>3
<1> DEFINE T == {NTiers - idx[r] : r \in S}
<1>3. T \subseteq Nat /\ T # {}
  BY <1>1, TiersAssumption DEF Deadlocked, Tiers
<1>4. PICK x \in T : \A y \in T : ~(<<y, x>> \in OpToRel(<, Nat))
  <2> HIDE DEF T
  <2> QED
    BY <1>3, NatLessThanWellFounded, WFMin
<1>5. PICK r \in S : x = NTiers - idx[r]
  BY <1>4
<1>6. PICK q \in S : idx[r] < idx[q]
  BY <1>2
<1>7. NTiers - idx[q] \in T /\ NTiers - idx[q] < x /\ x \in Nat /\ NTiers - idx[q] \in Nat
  BY <1>1, <1>5, <1>6, TiersAssumption DEF Tiers
<1>8. <<NTiers - idx[q], x>> \in OpToRel(<, Nat)
  BY <1>7 DEF OpToRel
<1> QED
  BY <1>4, <1>7, <1>8

\* "Any two concurrent liquidations acquire row locks in the same order and can
\* never deadlock": for every number of tiers and of transactions, a cycle of
\* waiting transactions contains a call that named a preferred tier.
THEOREM NeverDeadlocked == Spec => []NoDeadlock
<1>1. Init => LockOrder
  BY ReqsAssumption DEF Init, LockOrder
<1>2. IndInv /\ LockOrder /\ [Next]_vars => LockOrder'
  BY LockOrderNext
<1>3. IndInv /\ LockOrder => NoDeadlock
  BY OrderedNeverDeadlocked
<1> QED
  BY <1>1, <1>2, <1>3, Inductive, PTL DEF Spec
-----------------------------------------------------------------------------
(* What a call of coverShortfall has paid out, for every set of tiers: the *)
(* sum is taken apart by the lemmas of FiniteSums.                         *)

\* The accounts of one handler.  While its transaction is open the tiers still
\* to be tried have paid nothing, so that a payout is added, never replaced.
AccountedOf(r) ==
  /\ pc[r] = "idle" => event[r] = -1
  /\ req[r].kind = "cover" =>
       /\ pc[r] = "advise" => event[r] = -1 /\ rem[r] = req[r].amt
       /\ pc[r] \in InTxn =>
            /\ event[r] = -1 /\ rem[r] >= 0 /\ rem[r] + Paid(r) = req[r].amt
            /\ \A t \in Tiers : pend[r][t] >= 0
            /\ \A i \in Tiers : i >= idx[r] => pend[r][TierAt(req[r].tier, i)] = 0
       /\ pc[r] = "retry" => want[r] >= 0 /\ want[r] <= rem[r]
       /\ pc[r] = "failed" /\ event[r] = -1 => Paid(r) = 0
       /\ pc[r] \in {"health", "healthLoad", "healthSave", "done"} => event[r] >= 0
       /\ event[r] # -1 => /\ event[r] >= 0 /\ rem[r] >= 0
                           /\ event[r] = Paid(r) /\ event[r] + rem[r] = req[r].amt

Accounted == \A r \in Reqs : AccountedOf(r)

LEMMA TiersFinite == IsFiniteSet(Tiers)
BY TiersAssumption, FS_Interval DEF Tiers

\* tiersToTry names every tier once.
LEMMA TierAtInjective ==
  ASSUME NEW p \in 0..NTiers, NEW i \in Tiers, NEW j \in Tiers, TierAt(p, i) = TierAt(p, j)
  PROVE  i = j
BY TiersAssumption DEF TierAt, Tiers

LEMMA PaidType ==
  ASSUME TypeOK, NEW r \in Reqs
  PROVE  Paid(r) \in Int /\ ((\A t \in Tiers : pend[r][t] = 0) => Paid(r) = 0)
                         /\ ((\A t \in Tiers : pend[r][t] >= 0) => Paid(r) >= 0)
<1>1. \A t \in Tiers : pend[r][t] \in Int
  BY DEF TypeOK
<1>2. Paid(r) \in Int
  BY <1>1, TiersFinite, SumType DEF Paid
<1>3. (\A t \in Tiers : pend[r][t] = 0) => Paid(r) = 0
  BY TiersFinite, SumZero DEF Paid
<1>4. ASSUME \A t \in Tiers : pend[r][t] >= 0 PROVE Paid(r) >= 0
  <2>1. \A t \in Tiers : pend[r][t] \in Nat
    BY <1>1, <1>4
  <2>2. Paid(r) \in Nat
    BY <2>1, TiersFinite, SumNonnegative DEF Paid
  <2> QED
    BY <2>2
<1> QED
  BY <1>2, <1>3, <1>4

\* A step of one handler leaves the accounts of the others as they are.
LEMMA OthersAccounted ==
  ASSUME Accounted, NEW r \in Reqs, AccountedOf(r)',
         \A q \in Reqs \ {r} : /\ pc'[q] = pc[q] /\ req'[q] = req[q] /\ idx'[q] = idx[q]
                               /\ event'[q] = event[q] /\ rem'[q] = rem[q]
                               /\ want'[q] = want[q] /\ pend'[q] = pend[q]
  PROVE  Accounted'
<1> SUFFICES ASSUME NEW q \in Reqs, q # r PROVE AccountedOf(q)'
  BY DEF Accounted
<1>1. Paid(q)' = Paid(q)
  BY DEF Paid
<1>2. AccountedOf(q)
  BY DEF Accounted
<1> QED
  BY <1>1, <1>2 DEF AccountedOf

LEMMA StartAccounted ==
  ASSUME IndInv, Accounted, NEW r \in Reqs, Start(r)
  PROVE  Accounted'
<1>0. /\ pc \in [Reqs -> PCs] /\ rem \in [Reqs -> Int]
      /\ req \in [Reqs -> [kind : Kinds, amt : Nat, tier : 0..NTiers]]
  BY DEF IndInv, TypeOK
<1>1. /\ pc[r] = "idle" /\ UNCHANGED <<event, idx, want, pend>>
      /\ pc'[r] \in {"failed", "advise", "credit", "done", "initFind"}
      /\ req'[r].kind = "cover" => pc'[r] \in {"failed", "advise"} /\ rem'[r] = req'[r].amt
      /\ \A q \in Reqs \ {r} : pc'[q] = pc[q] /\ req'[q] = req[q] /\ rem'[q] = rem[q]
  <2>1. CASE StartCover(r)
    BY <1>0, <2>1 DEF StartCover, Called, Goto, dbVars
  <2>2. CASE StartReplenish(r)
    BY <1>0, <2>2 DEF StartReplenish, Called, Goto, txnVars, dbVars
  <2>3. CASE StartContribute(r)
    BY <1>0, <2>3 DEF StartContribute, Called, Goto, txnVars, dbVars
  <2>4. CASE StartInit(r)
    BY <1>0, <2>4 DEF StartInit, Called, Goto, txnVars, dbVars
  <2> QED
    BY <2>1, <2>2, <2>3, <2>4 DEF Start
<1>2. event[r] = -1 /\ Paid(r) = 0 /\ Paid(r)' = Paid(r)
  <2>1. \A t \in Tiers : pend[r][t] = 0
    BY <1>1 DEF IndInv, Protected
  <2> QED
    BY <1>1, <2>1, PaidType DEF Accounted, AccountedOf, IndInv, Paid
<1>3. AccountedOf(r)'
  BY <1>1, <1>2 DEF AccountedOf, InTxn
<1> QED
  BY <1>1, <1>3, OthersAccounted

LEMMA AdviseAccounted ==
  ASSUME IndInv, Accounted, NEW r \in Reqs, Advise(r)
  PROVE  Accounted'
<1>0. /\ pc \in [Reqs -> PCs] /\ idx \in [Reqs -> 1..NTiers + 1]
      /\ req[r] \in [kind : Kinds, amt : Nat, tier : 0..NTiers] /\ rem[r] \in Int
  BY DEF IndInv, TypeOK
<1>1. /\ pc[r] = "advise" /\ UNCHANGED <<req, event, rem, want, pend>>
      /\ pc'[r] \in {"advise", "debit"}
      /\ \A q \in Reqs \ {r} : pc'[q] = pc[q] /\ idx'[q] = idx[q]
  BY <1>0 DEF Advise, Goto, dbVars
<1>2. req[r].kind = "cover" /\ \A t \in Tiers : pend[r][t] = 0
  BY <1>1 DEF IndInv, Progress, ProgressOf, Protected
<1>3. Paid(r) = 0 /\ Paid(r)' = Paid(r)
  BY <1>1, <1>2, PaidType DEF Paid, IndInv
<1>4. \A i \in Tiers : pend[r][TierAt(req[r].tier, i)] = 0
  BY <1>0, <1>2, TierAtIsTier
<1>5. AccountedOf(r)'
  BY <1>0, <1>1, <1>2, <1>3, <1>4 DEF Accounted, AccountedOf, InTxn
<1> QED
  BY <1>1, <1>5, OthersAccounted

\* The steps inside a transaction that pay nothing: the handler stays on its
\* tier or goes on to the next.
LEMMA WalkAccounted ==
  ASSUME IndInv, Accounted, NEW r \in Reqs, SkipTier(r) \/ Reread(r) \/ DebitRefused(r)
  PROVE  Accounted'
<1>0. /\ pc \in [Reqs -> PCs] /\ idx \in [Reqs -> 1..NTiers + 1] /\ want \in [Reqs -> Int]
      /\ req[r] \in [kind : Kinds, amt : Nat, tier : 0..NTiers] /\ rem[r] \in Int
  BY DEF IndInv, TypeOK
<1>1. /\ pc[r] \in InTxn /\ pc'[r] \in InTxn /\ UNCHANGED <<req, event, rem, pend>>
      /\ idx'[r] >= idx[r]
      /\ \A q \in Reqs \ {r} : pc'[q] = pc[q] /\ idx'[q] = idx[q] /\ want'[q] = want[q]
  <2>1. CASE SkipTier(r)
    BY <1>0, <2>1 DEF SkipTier, NextTier, Goto, dbVars, InTxn
  <2>2. CASE Reread(r)
    BY <1>0, <2>2 DEF Reread, NextTier, Goto, dbVars, InTxn
  <2>3. CASE DebitRefused(r)
    BY <1>0, <2>3 DEF DebitRefused, Trying, NextTier, Goto, dbVars, InTxn
  <2> QED
    BY <2>1, <2>2, <2>3
<1>2. req[r].kind = "cover" /\ AccountedOf(r) /\ Paid(r)' = Paid(r)
  BY <1>1 DEF IndInv, Progress, ProgressOf, Accounted, Paid
<1>3. pc'[r] = "retry" => want'[r] >= 0 /\ want'[r] <= rem[r]
  <2> SUFFICES ASSUME pc'[r] = "retry" PROVE want'[r] >= 0 /\ want'[r] <= rem[r]
    OBVIOUS
  <2>1. Reread(r) /\ balance[Tier(r)] > 0
        /\ want' = [want EXCEPT ![r] = Least(balance[Tier(r)], rem[r])]
    <3>1. idx[r] \in Tiers
      BY TiersAssumption
      DEF IndInv, TypeOK, Progress, ProgressOf, SkipTier, Reread, DebitRefused, Trying,
          MoreTiers, Tiers
    <3>2. balance[Tier(r)] \in Int
      BY <3>1, HandlersTier DEF IndInv, TypeOK
    <3> QED
      BY <1>0, <3>2 DEF SkipTier, Reread, DebitRefused, NextTier, Goto
  <2>2. balance[Tier(r)] \in Int
    BY <2>1, HandlersTier DEF IndInv, TypeOK, Progress, ProgressOf, Reread
  <2>3. rem[r] >= 0
    BY <1>1, <1>2 DEF AccountedOf
  <2> QED
    BY <1>0, <2>1, <2>2, <2>3 DEF Least
<1>4. \A i \in Tiers : i >= idx'[r] => pend[r][TierAt(req[r].tier, i)] = 0
  <2>1. idx'[r] \in Int /\ \A i \in Tiers : i \in Int
    BY <1>0 DEF SkipTier, Reread, DebitRefused, NextTier, Tiers
  <2> QED
    BY <1>0, <1>1, <1>2, <2>1 DEF AccountedOf
<1>5. AccountedOf(r)'
  BY <1>1, <1>2, <1>3, <1>4 DEF AccountedOf, InTxn
<1> QED
  BY <1>1, <1>5, OthersAccounted

\* A payout: the tier had paid nothing before, so what is paid grows by the
\* amount by which the remaining shortfall shrinks.
LEMMA DebitAccounted ==
  ASSUME IndInv, Accounted, NEW r \in Reqs, Debit(r)
  PROVE  Accounted'
<1> DEFINE t == Tier(r)
           a == CoverAmount(r)
<1>0. /\ pc \in [Reqs -> PCs] /\ idx \in [Reqs -> 1..NTiers + 1] /\ rem \in [Reqs -> Int]
      /\ req[r] \in [kind : Kinds, amt : Nat, tier : 0..NTiers] /\ want[r] \in Int
      /\ pend \in [Reqs -> [Tiers -> Int]] /\ advised[r] \in [Tiers -> Int]
  BY DEF IndInv, TypeOK
<1>1. pc[r] \in InTxn /\ idx[r] \in Tiers /\ t \in Tiers
  <2>1. pc[r] \in InTxn /\ idx[r] \in Tiers
    BY TryingOnTier DEF IndInv, Debit
  <2> QED
    BY <2>1, HandlersTier DEF IndInv
<1>2. req[r].kind = "cover" /\ AccountedOf(r)
  BY <1>1 DEF IndInv, Progress, ProgressOf, Accounted
<1>3. a \in Int /\ a >= 0 /\ a <= rem[r]
  <2>1. advised[r][t] \in Int /\ rem[r] \in Int /\ rem[r] >= 0
    BY <1>0, <1>1, <1>2 DEF AccountedOf
  <2>2. CASE pc[r] = "retry"
    BY <1>0, <1>2, <2>2 DEF AccountedOf, CoverAmount
  <2>3. CASE pc[r] # "retry"
    <3>1. advised[r][t] > 0 /\ a = Least(advised[r][t], rem[r])
      BY <2>3 DEF Debit, Trying, CoverAmount
    <3> QED
      BY <2>1, <3>1 DEF Least
  <2> QED
    BY <2>2, <2>3
<1>4. /\ pc'[r] = "debit" /\ idx'[r] = idx[r] + 1 /\ rem'[r] = rem[r] - a
      /\ UNCHANGED <<req, event, want>>
      /\ pend' = [pend EXCEPT ![r][t] = a]
      /\ \A q \in Reqs \ {r} : pc'[q] = pc[q] /\ idx'[q] = idx[q] /\ rem'[q] = rem[q]
  BY <1>0 DEF Debit, NextTier, Goto, Remaining, dbVars
<1>5. /\ pend'[r] = [pend[r] EXCEPT ![t] = a]
      /\ \A q \in Reqs \ {r} : pend'[q] = pend[q]
  BY <1>0, <1>4
<1>6. pend[r][t] = 0
  <2>1. t = TierAt(req[r].tier, idx[r])
    BY DEF Tier
  <2>2. idx[r] >= idx[r]
    BY <1>0
  <2> QED
    BY <1>1, <1>2, <2>1, <2>2 DEF AccountedOf
<1>7. Paid(r)' = Paid(r) + a
  <2> DEFINE f == pend[r]
             h == pend'[r]
  <2>1. /\ \A x \in Tiers : f[x] \in Int /\ h[x] \in Int
        /\ \A x \in Tiers \ {t} : h[x] = f[x]
        /\ h[t] = a
    BY <1>0, <1>1, <1>3, <1>5
  <2>2. SumFunctionOnSet(h, Tiers) = SumFunctionOnSet(f, Tiers) + h[t] - f[t]
    <3> HIDE DEF f, h, t
    <3> QED
      BY <1>1, <2>1, TiersFinite, SumUpdate
  <2>3. Paid(r) \in Int /\ Paid(r) = SumFunctionOnSet(f, Tiers)
    BY PaidType DEF IndInv, Paid
  <2>4. Paid(r)' = SumFunctionOnSet(h, Tiers)
    BY DEF Paid
  <2>5. Paid(r)' = Paid(r) + h[t] - f[t]
    BY <2>2, <2>3, <2>4
  <2> QED
    BY <1>3, <1>6, <2>1, <2>3, <2>5
<1>8. \A i \in Tiers : i >= idx'[r] => pend'[r][TierAt(req[r].tier, i)] = 0
  <2> SUFFICES ASSUME NEW i \in Tiers, i >= idx'[r]
               PROVE  pend'[r][TierAt(req[r].tier, i)] = 0
    OBVIOUS
  <2>1. i # idx[r] /\ i >= idx[r]
    BY <1>1, <1>4 DEF Tiers
  <2>2. TierAt(req[r].tier, i) # t
    BY <1>0, <1>1, <2>1, TierAtInjective DEF Tier
  <2>3. TierAt(req[r].tier, i) \in Tiers
    BY <1>0, TierAtIsTier
  <2>4. pend[r][TierAt(req[r].tier, i)] = 0
    BY <1>1, <1>2, <2>1 DEF AccountedOf
  <2> QED
    BY <1>0, <1>5, <2>2, <2>3, <2>4
<1>9. \A x \in Tiers : pend'[r][x] >= 0
  <2>1. \A x \in Tiers : pend[r][x] >= 0
    BY <1>1, <1>2 DEF AccountedOf
  <2> QED
    BY <1>0, <1>1, <1>3, <1>5, <2>1
<1>10. AccountedOf(r)'
  <2>1. Paid(r) \in Int
    BY PaidType DEF IndInv
  <2>2. rem'[r] >= 0 /\ rem'[r] + Paid(r)' = req'[r].amt /\ event'[r] = -1
    <3>1. rem[r] + Paid(r) = req[r].amt /\ event[r] = -1 /\ rem[r] >= 0 /\ rem[r] \in Int
      BY <1>0, <1>1, <1>2 DEF AccountedOf
    <3> HIDE DEF a
    <3> QED
      BY <1>3, <1>4, <1>7, <2>1, <3>1
  <2> QED
    BY <1>4, <1>8, <1>9, <2>2 DEF AccountedOf, InTxn
<1> QED
  BY <1>4, <1>5, <1>10, OthersAccounted

\* The commit writes the LiquidationEvent that the payouts add up to.
LEMMA CommitAccounted ==
  ASSUME IndInv, Accounted, NEW r \in Reqs, Commit(r)
  PROVE  Accounted'
<1>0. /\ pc \in [Reqs -> PCs] /\ idx \in [Reqs -> 1..NTiers + 1] /\ event \in [Reqs -> Int]
      /\ req[r] \in [kind : Kinds, amt : Nat, tier : 0..NTiers] /\ rem[r] \in Int
  BY DEF IndInv, TypeOK
<1>1. /\ pc[r] = "debit" /\ pc'[r] = "health" /\ UNCHANGED <<req, rem, want, pend>>
      /\ event'[r] = req[r].amt - rem[r]
      /\ \A q \in Reqs \ {r} : pc'[q] = pc[q] /\ idx'[q] = idx[q] /\ event'[q] = event[q]
  BY <1>0 DEF Commit, Goto
<1>2. /\ rem[r] >= 0 /\ rem[r] + Paid(r) = req[r].amt
      /\ \A t \in Tiers : pend[r][t] >= 0
  BY <1>1 DEF IndInv, Progress, ProgressOf, Accounted, AccountedOf, InTxn
<1>3. Paid(r) \in Int /\ Paid(r) >= 0 /\ Paid(r)' = Paid(r)
  BY <1>1, <1>2, PaidType DEF IndInv, Paid
<1>4. event'[r] = Paid(r) /\ event'[r] + rem[r] = req[r].amt
  BY <1>0, <1>1, <1>2, <1>3
<1>5. AccountedOf(r)'
  BY <1>1, <1>2, <1>3, <1>4 DEF AccountedOf, InTxn
<1> QED
  BY <1>1, <1>5, OthersAccounted

\* A call that ends early: what its open transaction had paid is undone.
LEMMA AbortAccounted ==
  ASSUME IndInv, Accounted, NEW r \in Reqs, Fail(r) \/ DeadlockAbort(r)
  PROVE  Accounted'
<1>0. pc \in [Reqs -> PCs] /\ pend \in [Reqs -> [Tiers -> Int]]
  BY DEF IndInv, TypeOK
<1>1. /\ pc'[r] = "failed" /\ pc[r] \notin Ended \cup {"idle"}
      /\ UNCHANGED <<req, idx, event, rem, want>>
      /\ pend'[r] = IF pc[r] \in InTxn THEN NoPay ELSE pend[r]
      /\ \A q \in Reqs \ {r} : pc'[q] = pc[q] /\ pend'[q] = pend[q]
  <2>1. CASE Fail(r)
    BY <1>0, <2>1 DEF Fail, Goto, dbVars
  <2>2. CASE DeadlockAbort(r)
    <3>1. Trying(r)
      BY <2>2 DEF DeadlockAbort, Deadlocked, WaitsFor
    <3> QED
      BY <1>0, <2>2, <3>1 DEF DeadlockAbort, Trying, Goto, dbVars, Ended, InTxn
  <2> QED
    BY <2>1, <2>2
<1>2. pc[r] \in InTxn => Paid(r)' = 0
  <2> SUFFICES ASSUME pc[r] \in InTxn PROVE SumFunctionOnSet(pend'[r], Tiers) = 0
    BY DEF Paid
  <2>1. \A t \in Tiers : pend'[r][t] = 0
    BY <1>1 DEF NoPay
  <2> QED
    BY <2>1, TiersFinite, SumZero
<1>3. pc[r] = "advise" => Paid(r)' = 0
  <2> SUFFICES ASSUME pc[r] = "advise" PROVE SumFunctionOnSet(pend'[r], Tiers) = 0
    BY DEF Paid
  <2>1. \A t \in Tiers : pend'[r][t] = 0
    BY <1>1 DEF IndInv, Protected, InTxn
  <2> QED
    BY <2>1, TiersFinite, SumZero
<1>4. pc[r] \notin InTxn => Paid(r)' = Paid(r)
  BY <1>1 DEF Paid
<1>5. pc[r] \in InTxn \cup {"advise", "credit", "initFind", "initInsert",
                            "health", "healthLoad", "healthSave"}
  BY <1>0, <1>1 DEF PCs
<1>6. pc[r] \in {"credit", "initFind", "initInsert"} => req[r].kind # "cover"
  BY DEF IndInv, Progress, ProgressOf
<1>7. AccountedOf(r)'
  <2>1. AccountedOf(r)
    BY DEF Accounted
  <2> QED
    BY <1>1, <1>2, <1>3, <1>4, <1>5, <1>6, <2>1 DEF AccountedOf, InTxn
<1> QED
  BY <1>1, <1>7, OthersAccounted

\* The steps of calls that pay no shortfall, and those after the commit.
LEMMA AfterwardsAccounted ==
  ASSUME IndInv, Accounted, NEW r \in Reqs,
         Credit(r) \/ InitFind(r) \/ InitInsert(r) \/ HealthNone(r)
           \/ HealthRead(r) \/ HealthLoad(r) \/ HealthSave(r)
  PROVE  Accounted'
<1>0. pc \in [Reqs -> PCs] /\ idx \in [Reqs -> 1..NTiers + 1]
  BY DEF IndInv, TypeOK
<1>1. UNCHANGED <<req, event, rem, want, pend>>
  BY DEF Credit, InitFind, InitInsert, HealthNone, HealthRead, HealthLoad, HealthSave,
         dbVars, txnVars
<1>2. /\ \A q \in Reqs \ {r} : pc'[q] = pc[q] /\ idx'[q] = idx[q]
      /\ \/ req[r].kind # "cover" /\ pc'[r] # "idle"
         \/ /\ pc[r] \in {"health", "healthLoad", "healthSave"}
            /\ pc'[r] \in {"health", "healthLoad", "healthSave", "done"}
  <2>1. CASE Credit(r) \/ InitFind(r) \/ InitInsert(r)
    <3>1. req[r].kind # "cover"
      BY <2>1 DEF IndInv, Progress, ProgressOf, Credit, InitFind, InitInsert
    <3> QED
      BY <1>0, <2>1, <3>1 DEF Credit, InitFind, InitInsert, Goto, txnVars
  <2>2. CASE HealthRead(r) \/ HealthLoad(r)
    BY <1>0, <2>2 DEF HealthRead, HealthLoad, Goto, txnVars
  <2>3. CASE HealthNone(r) \/ HealthSave(r)
    <3>1. /\ pc[r] \in {"health", "healthSave"}
          /\ \/ \E label \in {"health", "done"} : Goto(r, label)
             \/ req[r].kind = "init" /\ Goto(r, "initFind")
          /\ idx' = idx \/ idx' = [idx EXCEPT ![r] = @ + 1]
      BY <2>3 DEF HealthNone, HealthSave, AfterHealth
    <3> QED
      BY <1>0, <3>1 DEF Goto
  <2> QED
    BY <2>1, <2>2, <2>3
<1>3. AccountedOf(r) /\ Paid(r)' = Paid(r)
  BY <1>1 DEF Accounted, Paid
<1>4. AccountedOf(r)'
  BY <1>1, <1>2, <1>3 DEF AccountedOf, InTxn
<1> QED
  BY <1>1, <1>2, <1>4, OthersAccounted

LEMMA NextAccounted ==
  ASSUME IndInv, Accounted, [Next]_vars
  PROVE  Accounted'
<1>1. CASE UNCHANGED vars
  <2> SUFFICES ASSUME NEW r \in Reqs PROVE AccountedOf(r)'
    BY DEF Accounted
  <2>1. UNCHANGED <<pc, req, idx, event, rem, want, pend>>
    BY <1>1 DEF vars, dbVars, txnVars
  <2>2. AccountedOf(r) /\ Paid(r)' = Paid(r)
    BY <2>1 DEF Accounted, Paid
  <2> QED
    BY <2>1, <2>2 DEF AccountedOf
<1>2. ASSUME NEW r \in Reqs, Step(r) PROVE Accounted'
  BY <1>2, AdviseAccounted, WalkAccounted, DebitAccounted, CommitAccounted,
     AfterwardsAccounted DEF Step
<1> QED
  BY <1>1, <1>2, StartAccounted, AbortAccounted DEF Next, Finished

\* For every number of tiers, whatever the stale balances a handler started
\* from and wherever its attempts were refused: what coverShortfall reports is
\* the sum of the payouts it committed, and with what it could not cover it
\* makes up the shortfall; a call that was rolled back has paid nothing.
THEOREM ShortfallsAccounted == Spec => []ShortfallAccounted
<1>1. Init => Accounted
  BY DEF Init, Accounted, AccountedOf, InTxn
<1>2. IndInv /\ Accounted /\ [Next]_vars => Accounted'
  BY NextAccounted
<1>3. IndInv /\ Accounted => ShortfallAccounted
  <2> SUFFICES ASSUME IndInv, Accounted, NEW r \in Reqs, req[r].kind = "cover"
               PROVE  /\ pc[r] \in InTxn => rem[r] >= 0 /\ rem[r] + Paid(r) = req[r].amt
                      /\ event[r] >= 0 => /\ rem[r] >= 0 /\ event[r] = Paid(r)
                                          /\ event[r] + rem[r] = req[r].amt
                      /\ pc[r] = "failed" /\ event[r] = -1 => Paid(r) = 0
    BY DEF ShortfallAccounted
  <2>1. event[r] \in Int /\ AccountedOf(r)
    BY DEF IndInv, TypeOK, Accounted
  <2>2. event[r] >= 0 => event[r] # -1
    BY <2>1
  <2> QED
    BY <2>1, <2>2 DEF AccountedOf
<1> QED
  BY <1>1, <1>2, <1>3, Inductive, PTL DEF Spec
=============================================================================
