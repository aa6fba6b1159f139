-------------------------- MODULE CrossChainBridge --------------------------
(***************************************************************************)
(* CrossChainBridgeService (src/blockchain): transfers that need the       *)
(* approval of several signers and are then executed once.  Several        *)
(* addApproval calls run at once; the database is Postgres at READ         *)
(* COMMITTED.  StellarService.withdraw is called through BulkheadService   *)
(* and CircuitBreakerService, whose execute fires the function the breaker *)
(* was registered with.                                                    *)
(***************************************************************************)
EXTENDS Integers, FiniteSets

CONSTANTS
  Bridges,    \* transfers
  Calls,      \* concurrent addApproval calls
  Users,      \* users who may call addApproval
  Signers,    \* BRIDGE_SIGNER_IDS
  Threshold,  \* BRIDGE_MULTISIG_THRESHOLD
  Registered, \* StellarService.onModuleInit has registered its breaker (in the
              \* application it always has)
  Nobody      \* no user

ASSUME SignersAssumption    == Signers \subseteq Users /\ Nobody \notin Users
ASSUME ThresholdAssumption  == Threshold \in Nat \ {0}
ASSUME BridgesAssumption    == Bridges # {}
ASSUME RegisteredAssumption == Registered \in BOOLEAN

Awaiting == {"initiated", "source_confirmed"}
Statuses == Awaiting \cup {"none", "bridge_processing", "destination_pending",
                           "completed", "failed", "refunded"}
Networks == {"stellar", "ethereum"}

VARIABLES
  rec,       \* the cross_chain_bridges rows, with their networks
  rows,      \* the committed bridge_approvals rows: signers of a bridge
  paid,      \* payments submitted to the Stellar network, by purpose
  executed,  \* history: the calls that have run executeBridge for a bridge
  pc, call,  \* where an addApproval call is, its arguments
  snap       \* its entity: the columns, and those the next save will write

vars == <<rec, rows, paid, executed, pc, call, snap>>

NoSave == [setApprovals |-> FALSE]
InTxn  == {"insert", "count"}
Ended  == {"done", "failed"}
\* A save is two steps: the row is selected, then the columns that differ
\* from the entity are written.  "x1", "x2" are the two steps of save x.
PCs == InTxn \cup Ended \cup
       {"idle", "read", "pend1", "pend2", "withdraw", "end1", "end2",
        "fail1", "fail2", "refund", "refund1", "refund2"}

Init ==
  /\ rec = [b \in Bridges |-> [status |-> "none", approvals |-> 0,
                               src |-> "stellar", dst |-> "stellar"]]
  /\ rows = [b \in Bridges |-> {}]
  /\ paid = [b \in Bridges |-> [bridge |-> 0, refund |-> 0]]
  /\ executed = [b \in Bridges |-> {}]
  /\ pc = [c \in Calls |-> "idle"]
  /\ call = [c \in Calls |-> [bridge |-> CHOOSE b \in Bridges : TRUE, signer |-> Nobody]]
  /\ snap = [c \in Calls |-> [status |-> "none", approvals |-> 0, save |-> NoSave]]

Goto(c, label) == pc' = [pc EXCEPT ![c] = label]
B(c) == call[c].bridge

\* initiateBridge
Initiate(b) ==
  /\ rec[b].status = "none"
  /\ \E src \in Networks, dst \in Networks :
       rec' = [rec EXCEPT ![b] = [status |-> "initiated", approvals |-> 0,
                                  src |-> src, dst |-> dst]]
  /\ UNCHANGED <<rows, paid, executed, pc, call, snap>>

-----------------------------------------------------------------------------
(* addApproval.                                                            *)

\* Mutant: any authenticated user may approve.
AnyUser(s) == s \in Users

Authorized(s) == s \in Signers

Approve(c) ==
  \E b \in Bridges, s \in Users :
    /\ pc[c] = "idle"
    /\ call' = [call EXCEPT ![c] = [bridge |-> b, signer |-> s]]
    /\ Goto(c, IF Authorized(s) THEN "read" ELSE "failed")
    /\ UNCHANGED <<rec, rows, paid, executed, snap>>

\* The first read of the transaction: no lock is taken.
ReadStatus(c) ==
  /\ pc[c] = "read"
  /\ Goto(c, IF rec[B(c)].status \in Awaiting THEN "insert" ELSE "failed")
  /\ UNCHANGED <<rec, rows, paid, executed, call, snap>>

\* Mutant: bridge_approvals without its unique constraint.
NoConstraint(c) == FALSE

\* UQ_bridge_approval_bridge_signer, against the committed rows.
Duplicate(c) == call[c].signer \in rows[B(c)]

\* INSERT INTO bridge_approvals: it waits while another open transaction has
\* inserted the same key, and fails if that one has committed.
Insert(c) ==
  /\ pc[c] = "insert"
  /\ \A d \in Calls \ {c} : pc[d] = "count" => call[d] # call[c]
  /\ Goto(c, IF Duplicate(c) THEN "failed" ELSE "count")
  /\ UNCHANGED <<rec, rows, paid, executed, call, snap>>

\* Mutant: the flip has no status condition.
FlipAlways(status) == TRUE

\* The WHERE clause of the conditional status flip.
Flippable(status) == status \in Awaiting

\* Mutant: only this call's own approval is counted.
StaleCount(b) == 1

NextCount(b) == rec[b].approvals + 1

\* Mutant: the status is set without the condition that the execution has.
UnguardedStatus(b, reached) == IF reached THEN "bridge_processing" ELSE rec[b].status

NextStatus(b, reached) ==
  IF reached /\ Flippable(rec[b].status) THEN "bridge_processing" ELSE rec[b].status

\* UPDATE ... SET multisigApprovals + 1, the re-read, the conditional flip and
\* COMMIT: the UPDATE locks the bridge row until the commit, so that nothing
\* comes between them.
CountAndCommit(c) ==
  LET b       == B(c)
      n       == NextCount(b)
      reached == n >= Threshold
      flips   == reached /\ Flippable(rec[b].status)
  IN
  /\ pc[c] = "count"
  /\ rows' = [rows EXCEPT ![b] = @ \cup {call[c].signer}]
  /\ rec' = [rec EXCEPT ![b].approvals = n,
                        ![b].status = NextStatus(b, reached)]
  /\ snap' = [snap EXCEPT ![c] = [status |-> "bridge_processing", approvals |-> n,
                                  save |-> NoSave]]
  /\ executed' = [executed EXCEPT ![b] = IF flips THEN @ \cup {c} ELSE @]
  /\ Goto(c, IF flips THEN "pend1" ELSE "done")
  /\ UNCHANGED <<paid, call>>

-----------------------------------------------------------------------------
(* executeBridge and refundBridge, outside the transaction.                *)

\* bridgeRepo.save, first half: select the row and compare.
SaveLoad(c, from, to, status) ==
  /\ pc[c] = from
  /\ snap' = [snap EXCEPT ![c].status = status,
                ![c].save = [setApprovals |-> snap[c].approvals # rec[B(c)].approvals]]
  /\ Goto(c, to)
  /\ UNCHANGED <<rec, rows, paid, executed, call>>

\* Second half: write what differs.
SaveWrite(c, from, to) ==
  /\ pc[c] = from
  /\ rec' = [rec EXCEPT ![B(c)].status = snap[c].status,
                        ![B(c)].approvals = IF snap[c].save.setApprovals
                                            THEN snap[c].approvals ELSE @]
  /\ Goto(c, to)
  /\ UNCHANGED <<rows, paid, executed, call, snap>>

\* A save throws; what the caller does then is its catch block.
SaveFails(c, from, to) ==
  /\ pc[c] = from
  /\ Goto(c, to)
  /\ UNCHANGED <<rec, rows, paid, executed, call, snap>>

\* CircuitBreakerService.execute: breaker.fire() runs the registered function,
\* which returns { success: true }; the function passed in is called only when
\* no breaker of that name is registered.
Fires(p, b) ==
  IF Registered THEN UNCHANGED paid
                ELSE paid' = [paid EXCEPT ![b][p] = @ + 1]

\* stellarService.withdraw of a payment to the destination or of a refund.
\* Not registered, it may also throw, before or after the network has taken
\* the payment.
Withdraw(c, from, p, network, done, error) ==
  /\ pc[c] = from
  /\ \/ network # "stellar" /\ UNCHANGED paid /\ Goto(c, done)
     \/ network = "stellar" /\ Fires(p, B(c)) /\ Goto(c, done)
     \/ ~Registered /\ network = "stellar" /\ Goto(c, error)
        /\ (UNCHANGED paid \/ Fires(p, B(c)))
  /\ UNCHANGED <<rec, rows, executed, call, snap>>

Execute(c) ==
  \/ SaveLoad(c, "pend1", "pend2", "destination_pending")
  \/ SaveWrite(c, "pend2", "withdraw")
  \/ SaveFails(c, "pend2", "fail1")
  \/ Withdraw(c, "withdraw", "bridge", rec[B(c)].dst, "end1", "fail1")
  \/ SaveLoad(c, "end1", "end2", "completed")
  \/ SaveWrite(c, "end2", "done")
  \/ SaveFails(c, "end2", "failed")

Refund(c) ==
  \/ SaveLoad(c, "fail1", "fail2", "failed")
  \/ SaveWrite(c, "fail2", "refund")
  \/ SaveFails(c, "fail2", "failed")
  \/ Withdraw(c, "refund", "refund", rec[B(c)].src, "refund1", "failed")
  \/ SaveLoad(c, "refund1", "refund2", "refunded")
  \/ SaveWrite(c, "refund2", "failed")
  \/ SaveFails(c, "refund2", "failed")

\* The process dies: an open transaction is rolled back, and nothing in the
\* service takes the rest up again.
Crash(c) ==
  /\ pc[c] \notin Ended \cup {"idle"}
  /\ Goto(c, "failed")
  /\ UNCHANGED <<rec, rows, paid, executed, call, snap>>

Finished == (\A c \in Calls : pc[c] \in Ended) /\ UNCHANGED vars

Step(c) == ReadStatus(c) \/ Insert(c) \/ CountAndCommit(c) \/ Execute(c) \/ Refund(c)

Next ==
  \/ \E b \in Bridges : Initiate(b)
  \/ \E c \in Calls : Approve(c) \/ Step(c) \/ Crash(c)
  \/ Finished

Spec == Init /\ [][Next]_vars

-----------------------------------------------------------------------------
(* Properties.                                                             *)

\* The columns, the approval rows and the calls have their types.
TypeOK ==
  /\ rec \in [Bridges -> [status : Statuses, approvals : Nat, src : Networks, dst : Networks]]
  /\ rows \in [Bridges -> SUBSET Signers]
  /\ paid \in [Bridges -> [bridge : Nat, refund : Nat]]
  /\ executed \in [Bridges -> SUBSET Calls]
  /\ pc \in [Calls -> PCs]
  /\ call \in [Calls -> [bridge : Bridges, signer : Users \cup {Nobody}]]
  /\ snap \in [Calls -> [status : Statuses, approvals : Nat,
                         save : [setApprovals : BOOLEAN]]]

\* "Only one concurrent transaction can move the bridge out of the awaiting-
\* approvals states, guaranteeing executeBridge runs exactly once": at most
\* one call of addApproval ever executes a bridge, however many of them cross
\* the threshold in parallel.
ExecutedOnce == \A b \in Bridges : \A c, d \in executed[b] : c = d

\* A bridge is executed only with the recorded approvals of Threshold distinct
\* authorized signers: concurrent or repeated approvals of one signer never
\* count twice.
ApprovedByDistinctSigners ==
  \A b \in Bridges : executed[b] # {} => Cardinality(rows[b]) >= Threshold

\* While a bridge awaits approvals its counter is the number of its approval
\* rows: parallel approvals never overwrite each other's count.
CounterCountsApprovals ==
  \A b \in Bridges : rec[b].status \in Awaiting =>
    /\ rec[b].approvals = Cardinality(rows[b])
    /\ rec[b].approvals < Threshold

\* A bridge that has left the awaiting states never returns to them, and
\* "completed" and "refunded" are final: no late save of a stale entity
\* reopens it.
FinalStatus ==
  [][\A b \in Bridges :
       /\ rec[b].status \in {"completed", "refunded"} => rec'[b].status = rec[b].status
       /\ rec[b].status \notin Awaiting \cup {"none"} => rec'[b].status \notin Awaiting]_vars

\* What the signers are promised, read off the columns of a bridge.
Stage(status) ==
  IF status \in Awaiting THEN "awaiting"
  ELSE IF status \in {"none", "completed", "refunded"} THEN status ELSE "decided"
Quorum == {S \in SUBSET Signers : Cardinality(S) >= Threshold}
Decision == INSTANCE MultisigDecision
  WITH Quorums <- Quorum,
       stage <- [b \in Bridges |-> Stage(rec[b].status)], signed <- rows, executor <- executed

\* The concurrent transactions, saves and crashes implement MultisigDecision:
\* the commit of the approval that makes the quorum decides the transfer and
\* appoints its executor in one step, nothing decides it again, and nothing
\* that comes late reopens it or ends it twice.
DecidesOnce == Decision!Spec

\* "Send USDC from the platform wallet to a recipient Stellar address": a
\* completed bridge to Stellar has paid its recipient.
CompletedIsPaid ==
  \A b \in Bridges :
    rec[b].status = "completed" /\ rec[b].dst = "stellar" => paid[b].bridge = 1
=============================================================================
