----------------------- MODULE CrossChainBridgeProofs -----------------------
(***************************************************************************)
(* Proofs about CrossChainBridge, for any number of bridges, calls, users  *)
(* and signers and any threshold.                                          *)
(***************************************************************************)
EXTENDS CrossChainBridge, FiniteSetTheorems, TLAPS

\* executeBridge or refundBridge is under way.
Executing == {"pend1", "pend2", "withdraw", "end1", "end2",
              "fail1", "fail2", "refund", "refund1", "refund2"}

\* The status that the entity of a call holds while a save is under way.
SavedStatus == [pend2 |-> "destination_pending", end2 |-> "completed",
                fail2 |-> "failed", refund2 |-> "refunded"]

\* A call that has passed the status check belongs to a bridge that exists; a
\* call about to count holds a key that no committed row and no other such
\* call has.
CallsOK ==
  \A c \in Calls :
    /\ pc[c] \in {"read"} \cup InTxn => call[c].signer \in Signers
    /\ pc[c] \in InTxn => rec[B(c)].status # "none"
    /\ pc[c] = "count" => /\ call[c].signer \notin rows[B(c)]
                          /\ \A d \in Calls \ {c} : pc[d] = "count" => call[d] # call[c]

\* Whoever executes a bridge is recorded, has left its transaction, and is
\* the only one.
ExecutorsOK ==
  /\ \A c \in Calls : pc[c] \in Executing => c \in executed[B(c)]
  /\ \A b \in Bridges : \A c \in executed[b] : B(c) = b /\ pc[c] \in Executing \cup Ended
  /\ ExecutedOnce

\* A bridge that is being, or has been, executed has left the awaiting states
\* for good, and what a save will write does not lead back to them.
StatusesOK ==
  /\ \A b \in Bridges : executed[b] # {} => rec[b].status \notin Awaiting \cup {"none"}
  /\ \A b \in Bridges : rec[b].status \in {"completed", "refunded"} =>
       \A c \in Calls : B(c) = b => pc[c] \notin Executing
  /\ \A c \in Calls : pc[c] \in {"pend2", "end2", "fail2", "refund2"} =>
       snap[c].status = SavedStatus[pc[c]]

\* The approvals of a bridge, while it awaits them and afterwards.
ApprovalsOK ==
  \A b \in Bridges :
    /\ IsFiniteSet(rows[b])
    /\ rec[b].status = "none" => rec[b].approvals = 0 /\ rows[b] = {}
    /\ rec[b].status \in Awaiting => rec[b].approvals = Cardinality(rows[b])
                                     /\ rec[b].approvals < Threshold
    /\ executed[b] # {} => Cardinality(rows[b]) >= Threshold

IndInv == TypeOK /\ CallsOK /\ ExecutorsOK /\ StatusesOK /\ ApprovalsOK

USE DEF Goto, B

-----------------------------------------------------------------------------

LEMMA InitInv == Init => IndInv
<1> SUFFICES ASSUME Init PROVE IndInv
  OBVIOUS
<1>1. (CHOOSE b \in Bridges : TRUE) \in Bridges
  BY BridgesAssumption
<1>2. TypeOK
  BY <1>1 DEF Init, TypeOK, Statuses, Awaiting, Networks, PCs, InTxn, Ended, NoSave
<1>3. CallsOK
  BY DEF Init, CallsOK, InTxn
<1>4. ExecutorsOK
  BY DEF Init, ExecutorsOK, ExecutedOnce, Executing
<1>5. StatusesOK
  BY DEF Init, StatusesOK, Executing
<1>6. ApprovalsOK
  BY FS_EmptySet DEF Init, ApprovalsOK, Awaiting
<1> QED
  BY <1>2, <1>3, <1>4, <1>5, <1>6 DEF IndInv

-----------------------------------------------------------------------------
(* One lemma per action.                                                   *)

LEMMA InitiateInv ==
  ASSUME IndInv, NEW b \in Bridges, Initiate(b)
  PROVE  IndInv'
<1>0. PICK src \in Networks, dst \in Networks :
        rec' = [rec EXCEPT ![b] = [status |-> "initiated", approvals |-> 0, src |-> src, dst |-> dst]]
  BY DEF Initiate
<1>1. TypeOK'
  BY <1>0 DEF IndInv, TypeOK, Initiate, Statuses, Awaiting
<1>2. CallsOK'
  BY <1>0 DEF IndInv, TypeOK, CallsOK, Initiate
<1>3. ExecutorsOK'
  BY <1>0 DEF IndInv, TypeOK, ExecutorsOK, ExecutedOnce, Initiate
<1>4. executed[b] = {}
  BY DEF IndInv, TypeOK, StatusesOK, Initiate
<1>5. StatusesOK'
  BY <1>0, <1>4 DEF IndInv, TypeOK, StatusesOK, Initiate
<1>6. ApprovalsOK'
  BY <1>0, <1>4, FS_EmptySet, ThresholdAssumption DEF IndInv, TypeOK, ApprovalsOK, Initiate, Awaiting
<1> QED
  BY <1>1, <1>2, <1>3, <1>5, <1>6 DEF IndInv

LEMMA ApproveInv ==
  ASSUME IndInv, NEW c \in Calls, Approve(c)
  PROVE  IndInv'
<1>0. PICK b \in Bridges, s \in Users :
        /\ pc[c] = "idle"
        /\ call' = [call EXCEPT ![c] = [bridge |-> b, signer |-> s]]
        /\ pc' = [pc EXCEPT ![c] = IF Authorized(s) THEN "read" ELSE "failed"]
        /\ UNCHANGED <<rec, rows, paid, executed, snap>>
  BY DEF Approve
<1>1. TypeOK'
  BY <1>0 DEF IndInv, TypeOK, PCs, Ended
<1>2. CallsOK'
  BY <1>0 DEF IndInv, TypeOK, CallsOK, InTxn, Authorized
<1>3. \A x \in Bridges : c \notin executed[x]
  BY <1>0 DEF IndInv, ExecutorsOK, Executing, Ended
<1>4. ExecutorsOK'
  BY <1>0, <1>3 DEF IndInv, TypeOK, ExecutorsOK, ExecutedOnce, Executing, Ended
<1>5. StatusesOK'
  BY <1>0 DEF IndInv, TypeOK, StatusesOK, Executing
<1>6. ApprovalsOK'
  BY <1>0 DEF IndInv, ApprovalsOK
<1> QED
  BY <1>1, <1>2, <1>4, <1>5, <1>6 DEF IndInv

LEMMA ReadStatusInv ==
  ASSUME IndInv, NEW c \in Calls, ReadStatus(c)
  PROVE  IndInv'
<1>1. TypeOK'
  BY DEF IndInv, TypeOK, ReadStatus, PCs, InTxn, Ended
<1>2. CallsOK'
  BY DEF IndInv, TypeOK, CallsOK, ReadStatus, InTxn, Awaiting
<1>3. ExecutorsOK'
  BY DEF IndInv, TypeOK, ExecutorsOK, ExecutedOnce, ReadStatus, Executing, Ended
<1>4. StatusesOK'
  BY DEF IndInv, TypeOK, StatusesOK, ReadStatus, Executing
<1>5. ApprovalsOK'
  BY DEF IndInv, ApprovalsOK, ReadStatus
<1> QED
  BY <1>1, <1>2, <1>3, <1>4, <1>5 DEF IndInv

LEMMA InsertInv ==
  ASSUME IndInv, NEW c \in Calls, Insert(c)
  PROVE  IndInv'
<1>1. TypeOK'
  BY DEF IndInv, TypeOK, Insert, PCs, InTxn, Ended
<1>2. CallsOK'
  BY DEF IndInv, TypeOK, CallsOK, Insert, Duplicate, InTxn
<1>3. ExecutorsOK'
  BY DEF IndInv, TypeOK, ExecutorsOK, ExecutedOnce, Insert, Executing, Ended
<1>4. StatusesOK'
  BY DEF IndInv, TypeOK, StatusesOK, Insert, Executing
<1>5. ApprovalsOK'
  BY DEF IndInv, ApprovalsOK, Insert
<1> QED
  BY <1>1, <1>2, <1>3, <1>4, <1>5 DEF IndInv

\* The transaction that counts an approval.  Its key is new, so the set of
\* rows grows by one, as the counter does; only the call that finds the bridge
\* awaiting, and the threshold reached, becomes its executor.
LEMMA CountInv ==
  ASSUME IndInv, NEW c \in Calls, CountAndCommit(c)
  PROVE  IndInv'
<1> DEFINE b == call[c].bridge
           s == call[c].signer
           n == rec[b].approvals + 1
           flips == n >= Threshold /\ rec[b].status \in Awaiting
           status == IF flips THEN "bridge_processing" ELSE rec[b].status
           executors == IF flips THEN executed[b] \cup {c} ELSE executed[b]
           label == IF flips THEN "pend1" ELSE "done"
<1>0. /\ pc[c] = "count" /\ b \in Bridges
      /\ rows' = [rows EXCEPT ![b] = @ \cup {s}]
      /\ rec' = [rec EXCEPT ![b].approvals = n, ![b].status = status]
      /\ snap' = [snap EXCEPT ![c] = [status |-> "bridge_processing", approvals |-> n,
                                      save |-> NoSave]]
      /\ executed' = [executed EXCEPT ![b] = executors]
      /\ pc' = [pc EXCEPT ![c] = label]
      /\ UNCHANGED <<paid, call>>
  BY DEF IndInv, TypeOK, CountAndCommit, NextCount, NextStatus, Flippable
<1>1. s \in Signers /\ s \notin rows[b] /\ rec[b].status # "none"
  BY <1>0 DEF IndInv, CallsOK, InTxn
<1>2. flips => executed[b] = {}
  BY <1>0 DEF IndInv, StatusesOK
<1>3. \A x \in Bridges : c \notin executed[x]
  BY <1>0 DEF IndInv, ExecutorsOK, Executing, Ended
<1>4. n \in Nat
  BY <1>0 DEF IndInv, TypeOK
<1>a. \/ /\ n >= Threshold /\ rec[b].status \in Awaiting
         /\ status = "bridge_processing" /\ executors = executed[b] \cup {c} /\ label = "pend1"
      \/ /\ ~(n >= Threshold /\ rec[b].status \in Awaiting)
         /\ status = rec[b].status /\ executors = executed[b] /\ label = "done"
  OBVIOUS
<1>b. rec[b].status \in Awaiting => n = Cardinality(rows[b]) + 1
  BY <1>0 DEF IndInv, ApprovalsOK
<1>2a. label = "pend1" => executed[b] = {}
  BY <1>2, <1>a
<1> HIDE DEF n, flips, status, executors, label
<1>5. TypeOK'
  <2>1. status \in Statuses /\ label \in PCs /\ executors \subseteq Calls
    BY <1>0, <1>a DEF IndInv, TypeOK, Statuses, PCs, Ended
  <2>2. rec' \in [Bridges -> [status : Statuses, approvals : Nat, src : Networks, dst : Networks]]
    <3>1. rec \in [Bridges -> [status : Statuses, approvals : Nat, src : Networks, dst : Networks]]
          /\ rec' = [rec EXCEPT ![b].approvals = n, ![b].status = status]
          /\ b \in Bridges /\ n \in Nat /\ status \in Statuses
      BY <1>0, <1>4, <2>1 DEF IndInv, TypeOK
    <3> HIDE DEF b
    <3> QED
      BY <3>1
  <2>3. snap' \in [Calls -> [status : Statuses, approvals : Nat, save : [setApprovals : BOOLEAN]]]
    <3>1. "bridge_processing" \in Statuses /\ NoSave \in [setApprovals : BOOLEAN]
      BY DEF Statuses, NoSave
    <3> QED
      BY <1>0, <1>4, <3>1 DEF IndInv, TypeOK
  <2>4. rows' \in [Bridges -> SUBSET Signers] /\ executed' \in [Bridges -> SUBSET Calls] /\ pc' \in [Calls -> PCs]
    BY <1>0, <1>1, <2>1 DEF IndInv, TypeOK
  <2> QED
    BY <1>0, <2>2, <2>3, <2>4 DEF IndInv, TypeOK
<1>6. CallsOK'
  <2> SUFFICES ASSUME NEW d \in Calls
               PROVE  /\ pc'[d] \in {"read"} \cup InTxn => call'[d].signer \in Signers
                      /\ pc'[d] \in InTxn => rec'[call'[d].bridge].status # "none"
                      /\ pc'[d] = "count" =>
                           /\ call'[d].signer \notin rows'[call'[d].bridge]
                           /\ \A e \in Calls \ {d} : pc'[e] = "count" => call'[e] # call'[d]
    BY DEF CallsOK
  <2>1. CASE d = c
    BY <1>0, <1>a, <2>1 DEF IndInv, TypeOK, InTxn
  <2>2. CASE d # c
    <3>1. pc'[d] = pc[d] /\ call' = call
      BY <1>0, <1>a, <2>2 DEF IndInv, TypeOK
    <3>2. pc[d] = "count" => call[d] # call[c]
      BY <1>0, <1>a, <2>2 DEF IndInv, CallsOK
    <3>3. call[d] # call[c] => call[d].bridge # b \/ call[d].signer # s
      BY DEF IndInv, TypeOK
    <3>4. pc[d] = "count" => call[d].signer \notin rows'[call[d].bridge]
      BY <1>0, <1>a, <3>2, <3>3 DEF IndInv, TypeOK, CallsOK
    <3>5. pc[d] \in InTxn => rec'[call[d].bridge].status # "none"
      BY <1>0, <1>a DEF IndInv, TypeOK, CallsOK
    <3> QED
      BY <1>0, <1>a, <3>1, <3>4, <3>5 DEF IndInv, TypeOK, CallsOK
  <2> QED
    BY <2>1, <2>2
<1>7. ExecutorsOK'
  BY <1>0, <1>a, <1>2a, <1>3 DEF IndInv, TypeOK, ExecutorsOK, ExecutedOnce, Executing, Ended
<1>8. StatusesOK'
  <2>1. \A x \in Bridges : executed'[x] # {} => rec'[x].status \notin Awaiting \cup {"none"}
    BY <1>0, <1>a, <1>2a DEF IndInv, TypeOK, StatusesOK, Awaiting
  <2>2. \A x \in Bridges : rec'[x].status \in {"completed", "refunded"} =>
          \A d \in Calls : call'[d].bridge = x => pc'[d] \notin Executing
    <3> SUFFICES ASSUME NEW x \in Bridges, rec'[x].status \in {"completed", "refunded"},
                        NEW d \in Calls, call'[d].bridge = x
                 PROVE  pc'[d] \notin Executing
      OBVIOUS
    <3>1. rec[x].status \in {"completed", "refunded"} /\ (x = b => label = "done")
      BY <1>0, <1>a DEF IndInv, TypeOK
    <3> QED
      BY <1>0, <1>a, <3>1 DEF IndInv, TypeOK, StatusesOK, Executing
  <2>3. \A d \in Calls : pc'[d] \in {"pend2", "end2", "fail2", "refund2"} =>
          snap'[d].status = SavedStatus[pc'[d]]
    BY <1>0, <1>a DEF IndInv, TypeOK, StatusesOK
  <2> QED
    BY <2>1, <2>2, <2>3 DEF StatusesOK
<1>9. ApprovalsOK'
  <2>1. IsFiniteSet(rows[b]) /\ Cardinality(rows[b]) \in Nat
    BY <1>0, <1>a, FS_CardinalityType DEF IndInv, ApprovalsOK
  <2>2. IsFiniteSet(rows[b] \cup {s}) /\ Cardinality(rows[b] \cup {s}) = Cardinality(rows[b]) + 1
    BY <1>1, <2>1, FS_AddElement
  <2>5. rows'[b] = rows[b] \cup {s} /\ rec'[b].approvals = n
        /\ rec'[b].status = status /\ executed'[b] = executors
    BY <1>0 DEF IndInv, TypeOK
  <2>6. \A x \in Bridges \ {b} : rows'[x] = rows[x] /\ rec'[x] = rec[x] /\ executed'[x] = executed[x]
    BY <1>0, <1>a DEF IndInv, TypeOK
  <2>7. executed[b] # {} => Cardinality(rows[b]) >= Threshold
    BY <1>0, <1>a DEF IndInv, ApprovalsOK
  <2>8. /\ IsFiniteSet(rows'[b])
        /\ rec'[b].status # "none"
        /\ rec'[b].status \in Awaiting => rec'[b].approvals = Cardinality(rows'[b])
                                          /\ rec'[b].approvals < Threshold
        /\ executed'[b] # {} => Cardinality(rows'[b]) >= Threshold
    BY <1>1, <1>4, <1>a, <1>b, <2>1, <2>2, <2>5, <2>7, ThresholdAssumption DEF Awaiting
  <2> QED
    BY <2>6, <2>8 DEF IndInv, ApprovalsOK
<1> QED
  BY <1>5, <1>6, <1>7, <1>8, <1>9 DEF IndInv

\* Steps that only move an executing call to a label where no save is half
\* done, or end it: failing saves, withdraw, crashes.
LEMMA MoveInv ==
  ASSUME IndInv, NEW c \in Calls, NEW to \in PCs,
         pc[c] # "idle", pc' = [pc EXCEPT ![c] = to],
         \/ to \in Ended
         \/ pc[c] \in Executing /\ to \in {"fail1", "end1", "refund1"},
         paid' \in [Bridges -> [bridge : Nat, refund : Nat]],
         UNCHANGED <<rec, rows, executed, call, snap>>
  PROVE  IndInv'
<1>1. TypeOK'
  BY DEF IndInv, TypeOK
<1>2. CallsOK'
  BY DEF IndInv, TypeOK, CallsOK, InTxn, Ended
<1>3. ExecutorsOK'
  BY DEF IndInv, TypeOK, ExecutorsOK, ExecutedOnce, Executing, Ended
<1>4. StatusesOK'
  BY DEF IndInv, TypeOK, StatusesOK, Executing, Ended
<1>5. ApprovalsOK'
  BY DEF IndInv, ApprovalsOK
<1> QED
  BY <1>1, <1>2, <1>3, <1>4, <1>5 DEF IndInv

LEMMA SaveLoadInv ==
  ASSUME IndInv, NEW c \in Calls, NEW from \in Executing,
         NEW to \in {"pend2", "end2", "fail2", "refund2"},
         SaveLoad(c, from, to, SavedStatus[to])
  PROVE  IndInv'
<1>1. TypeOK'
  <2> DEFINE w == [setApprovals |-> snap[c].approvals # rec[B(c)].approvals]
  <2>1. w \in [setApprovals : BOOLEAN]
    OBVIOUS
  <2>2. SavedStatus[to] \in Statuses /\ to \in PCs
    BY DEF SavedStatus, Statuses, PCs
  <2>3. snap' = [snap EXCEPT ![c].status = SavedStatus[to], ![c].save = w]
        /\ pc' = [pc EXCEPT ![c] = to] /\ UNCHANGED <<rec, rows, paid, executed, call>>
    BY DEF SaveLoad
  <2> HIDE DEF w
  <2> QED
    BY <2>1, <2>2, <2>3 DEF IndInv, TypeOK
<1>2. CallsOK'
  BY DEF IndInv, TypeOK, CallsOK, SaveLoad, InTxn
<1>3. ExecutorsOK'
  BY DEF IndInv, TypeOK, ExecutorsOK, ExecutedOnce, SaveLoad, Executing, Ended
<1>4. StatusesOK'
  BY DEF IndInv, TypeOK, StatusesOK, SaveLoad, Executing
<1>5. ApprovalsOK'
  BY DEF IndInv, ApprovalsOK, SaveLoad
<1> QED
  BY <1>1, <1>2, <1>3, <1>4, <1>5 DEF IndInv

\* The half of a save that writes.  The call is the only executor of its
\* bridge, so a final status is written when nobody else is executing.
LEMMA SaveWriteInv ==
  ASSUME IndInv, NEW c \in Calls, NEW from \in {"pend2", "end2", "fail2", "refund2"}, NEW to,
         to = [pend2 |-> "withdraw", end2 |-> "done", fail2 |-> "refund", refund2 |-> "failed"][from],
         SaveWrite(c, from, to)
  PROVE  /\ IndInv'
         /\ rec[B(c)].status \notin Awaiting \cup {"none", "completed", "refunded"}
         /\ rec'[B(c)].status \notin Awaiting
<1> DEFINE b == call[c].bridge
<1>0. /\ pc[c] = from /\ b \in Bridges /\ c \in executed[b]
      /\ snap[c].status = SavedStatus[from]
      /\ pc' = [pc EXCEPT ![c] = to]
      /\ UNCHANGED <<rows, paid, executed, call, snap>>
  BY DEF IndInv, TypeOK, ExecutorsOK, StatusesOK, SaveWrite, Executing
<1>1. rec[b].status \notin Awaiting \cup {"none", "completed", "refunded"}
  BY <1>0 DEF IndInv, StatusesOK, Executing
<1>2. PICK k \in Nat : rec' = [rec EXCEPT ![b].status = SavedStatus[from], ![b].approvals = k]
  BY <1>0 DEF IndInv, TypeOK, SaveWrite
<1>3. SavedStatus[from] \notin Awaiting \cup {"none"} /\ SavedStatus[from] \in Statuses
  BY DEF SavedStatus, Awaiting, Statuses
<1>t. to \in {"withdraw", "refund", "done", "failed"}
  OBVIOUS
<1>4. TypeOK'
  <2>1. rec' \in [Bridges -> [status : Statuses, approvals : Nat, src : Networks, dst : Networks]]
    <3> DEFINE v == SavedStatus[from]
    <3>1. rec \in [Bridges -> [status : Statuses, approvals : Nat, src : Networks, dst : Networks]]
          /\ v \in Statuses /\ b \in Bridges
          /\ rec' = [rec EXCEPT ![b].status = v, ![b].approvals = k]
      BY <1>0, <1>2, <1>3 DEF IndInv, TypeOK
    <3> HIDE DEF v, b
    <3> QED
      BY <3>1
  <2>2. pc' \in [Calls -> PCs]
    BY <1>0, <1>t DEF IndInv, TypeOK, PCs, Ended
  <2> QED
    BY <1>0, <2>1, <2>2 DEF IndInv, TypeOK
<1>5. CallsOK'
  BY <1>0, <1>2, <1>3 DEF IndInv, TypeOK, CallsOK, InTxn
<1>6. ExecutorsOK'
  BY <1>0 DEF IndInv, TypeOK, ExecutorsOK, ExecutedOnce, Executing, Ended
<1>7. \A d \in Calls : d # c /\ call[d].bridge = b => pc[d] \notin Executing
  BY <1>0 DEF IndInv, ExecutorsOK, ExecutedOnce
<1>8. SavedStatus[from] \in {"completed", "refunded"} => to \notin Executing
  BY DEF SavedStatus, Executing
<1>9. StatusesOK'
  <2>1. \A x \in Bridges : executed'[x] # {} => rec'[x].status \notin Awaiting \cup {"none"}
    BY <1>0, <1>2, <1>3 DEF IndInv, TypeOK, StatusesOK
  <2>2. \A x \in Bridges : rec'[x].status \in {"completed", "refunded"} =>
          \A d \in Calls : call'[d].bridge = x => pc'[d] \notin Executing
    BY <1>0, <1>2, <1>7, <1>8 DEF IndInv, TypeOK, StatusesOK
  <2>3. \A d \in Calls : pc'[d] \in {"pend2", "end2", "fail2", "refund2"} =>
          snap'[d].status = SavedStatus[pc'[d]]
    BY <1>0 DEF IndInv, TypeOK, StatusesOK
  <2> QED
    BY <2>1, <2>2, <2>3 DEF StatusesOK
<1>10. ApprovalsOK'
  BY <1>0, <1>2, <1>3 DEF IndInv, TypeOK, ApprovalsOK
<1>11. rec'[b].status \notin Awaiting
  BY <1>0, <1>2, <1>3 DEF IndInv, TypeOK
<1> QED
  BY <1>1, <1>4, <1>5, <1>6, <1>9, <1>10, <1>11 DEF IndInv

LEMMA WithdrawInv ==
  ASSUME IndInv, NEW c \in Calls, NEW from \in Executing, NEW p \in {"bridge", "refund"}, NEW network,
         NEW to \in {"end1", "refund1"}, NEW error \in {"fail1", "failed"},
         Withdraw(c, from, p, network, to, error)
  PROVE  IndInv'
<1>1. paid' \in [Bridges -> [bridge : Nat, refund : Nat]]
  <2>1. paid \in [Bridges -> [bridge : Nat, refund : Nat]] /\ call[c].bridge \in Bridges
    BY DEF IndInv, TypeOK
  <2>2. CASE p = "bridge"
    BY <2>1, <2>2 DEF Withdraw, Fires
  <2>3. CASE p = "refund"
    BY <2>1, <2>3 DEF Withdraw, Fires
  <2> QED
    BY <2>2, <2>3
<1>2. PICK t \in {to, error} : pc' = [pc EXCEPT ![c] = t]
  BY DEF Withdraw
<1>3. pc[c] \in Executing /\ pc[c] # "idle" /\ UNCHANGED <<rec, rows, executed, call, snap>>
  BY DEF Withdraw, Executing
<1>4. t \in PCs /\ (t \in Ended \/ t \in {"fail1", "end1", "refund1"})
  BY DEF PCs, Ended
<1> QED
  BY <1>1, <1>2, <1>3, <1>4, MoveInv

LEMMA ExecuteInv ==
  ASSUME IndInv, NEW c \in Calls, Execute(c)
  PROVE  IndInv'
<1>1. CASE SaveLoad(c, "pend1", "pend2", "destination_pending")
  BY <1>1, SaveLoadInv DEF SavedStatus, Executing
<1>2. CASE SaveWrite(c, "pend2", "withdraw")
  BY <1>2, SaveWriteInv
<1>3. CASE SaveFails(c, "pend2", "fail1")
  BY <1>3, MoveInv DEF SaveFails, PCs, Executing, IndInv, TypeOK
<1>4. CASE Withdraw(c, "withdraw", "bridge", rec[B(c)].dst, "end1", "fail1")
  BY <1>4, WithdrawInv DEF Executing
<1>5. CASE SaveLoad(c, "end1", "end2", "completed")
  BY <1>5, SaveLoadInv DEF SavedStatus, Executing
<1>6. CASE SaveWrite(c, "end2", "done")
  BY <1>6, SaveWriteInv
<1>7. CASE SaveFails(c, "end2", "failed")
  BY <1>7, MoveInv DEF SaveFails, PCs, Ended, IndInv, TypeOK
<1> QED
  BY <1>1, <1>2, <1>3, <1>4, <1>5, <1>6, <1>7 DEF Execute

LEMMA RefundInv ==
  ASSUME IndInv, NEW c \in Calls, Refund(c)
  PROVE  IndInv'
<1>1. CASE SaveLoad(c, "fail1", "fail2", "failed")
  BY <1>1, SaveLoadInv DEF SavedStatus, Executing
<1>2. CASE SaveWrite(c, "fail2", "refund")
  BY <1>2, SaveWriteInv
<1>3. CASE SaveFails(c, "fail2", "failed")
  BY <1>3, MoveInv DEF SaveFails, PCs, Ended, IndInv, TypeOK
<1>4. CASE Withdraw(c, "refund", "refund", rec[B(c)].src, "refund1", "failed")
  BY <1>4, WithdrawInv DEF Executing
<1>5. CASE SaveLoad(c, "refund1", "refund2", "refunded")
  BY <1>5, SaveLoadInv DEF SavedStatus, Executing
<1>6. CASE SaveWrite(c, "refund2", "failed")
  BY <1>6, SaveWriteInv
<1>7. CASE SaveFails(c, "refund2", "failed")
  BY <1>7, MoveInv DEF SaveFails, PCs, Ended, IndInv, TypeOK
<1> QED
  BY <1>1, <1>2, <1>3, <1>4, <1>5, <1>6, <1>7 DEF Refund

LEMMA CrashInv ==
  ASSUME IndInv, NEW c \in Calls, Crash(c)
  PROVE  IndInv'
  BY MoveInv DEF Crash, PCs, Ended, IndInv, TypeOK

LEMMA NextInv == IndInv /\ [Next]_vars => IndInv'
<1> SUFFICES ASSUME IndInv, [Next]_vars PROVE IndInv'
  OBVIOUS
<1>1. CASE UNCHANGED vars
  BY <1>1 DEF vars, IndInv, TypeOK, CallsOK, ExecutorsOK, ExecutedOnce, StatusesOK, ApprovalsOK
<1>2. ASSUME NEW b \in Bridges, Initiate(b) PROVE IndInv'
  BY <1>2, InitiateInv
<1>3. ASSUME NEW c \in Calls, Approve(c) \/ Step(c) \/ Crash(c) PROVE IndInv'
  BY <1>3, ApproveInv, ReadStatusInv, InsertInv, CountInv, ExecuteInv, RefundInv, CrashInv DEF Step
<1> QED
  BY <1>1, <1>2, <1>3 DEF Next, Finished

LEMMA Invariance == Spec => []IndInv
  BY InitInv, NextInv, PTL DEF Spec

-----------------------------------------------------------------------------
(* Theorems.                                                               *)

\* The rows, calls and entities keep their types; in particular only the
\* approvals of authorized signers are ever recorded.
THEOREM TypeCorrect == Spec => []TypeOK
  BY Invariance, PTL DEF IndInv

\* However many approvals cross the threshold in parallel, one call executes
\* the bridge: its conditional status flip is the only one that succeeds.
THEOREM BridgeExecutedOnce == Spec => []ExecutedOnce
<1>1. IndInv => ExecutedOnce
  BY DEF IndInv, ExecutorsOK
<1> QED
  BY <1>1, Invariance, PTL

\* A bridge that is executed has the rows of Threshold distinct signers.
THEOREM DistinctSigners == Spec => []ApprovedByDistinctSigners
<1>1. IndInv => ApprovedByDistinctSigners
  BY DEF IndInv, ApprovalsOK, ApprovedByDistinctSigners
<1> QED
  BY <1>1, Invariance, PTL

\* While a bridge awaits approvals, no parallel approval is lost from, or
\* counted twice in, its counter.
THEOREM CounterCorrect == Spec => []CounterCountsApprovals
<1>1. IndInv => CounterCountsApprovals
  BY DEF IndInv, ApprovalsOK, CounterCountsApprovals
<1> QED
  BY <1>1, Invariance, PTL

-----------------------------------------------------------------------------
(* The status of a bridge.                                                 *)

\* What FinalStatus asks of one step: a final status stays, and a bridge that
\* awaits no approvals does not await them again.
StatusStep ==
  \A b \in Bridges :
    /\ rec[b].status \in {"completed", "refunded"} => rec'[b].status = rec[b].status
    /\ rec[b].status \notin Awaiting \cup {"none"} => rec'[b].status \notin Awaiting

\* A save of one call leaves the other bridges alone, and its own bridge has
\* no final status yet.
LEMMA SaveStatusStep ==
  ASSUME IndInv, NEW c \in Calls, NEW from \in {"pend2", "end2", "fail2", "refund2"}, NEW to,
         to = [pend2 |-> "withdraw", end2 |-> "done", fail2 |-> "refund", refund2 |-> "failed"][from],
         SaveWrite(c, from, to)
  PROVE  StatusStep
<1> DEFINE x == call[c].bridge
<1>1. /\ rec[x].status \notin Awaiting \cup {"none", "completed", "refunded"}
      /\ rec'[x].status \notin Awaiting
  BY SaveWriteInv
<1>2. \A b \in Bridges \ {x} : rec'[b] = rec[b]
  BY DEF IndInv, TypeOK, SaveWrite
<1> QED
  BY <1>1, <1>2 DEF StatusStep

\* The conditional flip changes the status of an awaiting bridge only.
LEMMA CountStatusStep ==
  ASSUME IndInv, NEW c \in Calls, CountAndCommit(c)
  PROVE  StatusStep
<1> DEFINE x == call[c].bridge
           reached == NextCount(x) >= Threshold
<1>1. x \in Bridges
  BY DEF IndInv, TypeOK
<1>2. rec' = [rec EXCEPT ![x].approvals = NextCount(x), ![x].status = NextStatus(x, reached)]
  BY DEF CountAndCommit
<1>3. rec'[x].status = NextStatus(x, reached)
  BY <1>1, <1>2 DEF IndInv, TypeOK
<1>4. \A b \in Bridges \ {x} : rec'[b] = rec[b]
  BY <1>1, <1>2 DEF IndInv, TypeOK
<1>5. rec[x].status \notin Awaiting => rec'[x].status = rec[x].status
  BY <1>3 DEF NextStatus, Flippable
<1>6. {"completed", "refunded"} \cap Awaiting = {}
  BY DEF Awaiting
<1> QED
  BY <1>4, <1>5, <1>6 DEF StatusStep

\* No late save of a stale entity reopens a bridge: the saves of the one
\* executing call end with its final status, and no flip follows.
THEOREM StatusFinal == Spec => FinalStatus
<1>1. IndInv /\ [Next]_vars => [StatusStep]_vars
  <2> SUFFICES ASSUME IndInv, [Next]_vars, ~(UNCHANGED vars) PROVE StatusStep
    OBVIOUS
  <2>0. UNCHANGED rec => StatusStep
    BY DEF StatusStep
  <2>1. ASSUME NEW b \in Bridges, Initiate(b) PROVE StatusStep
    <3>1. rec[b].status = "none" /\ \A x \in Bridges \ {b} : rec'[x] = rec[x]
      BY <2>1 DEF Initiate, IndInv, TypeOK
    <3> QED
      BY <3>1 DEF StatusStep
  <2>2. ASSUME NEW c \in Calls, Approve(c) \/ ReadStatus(c) \/ Insert(c) \/ Crash(c)
        PROVE  StatusStep
    BY <2>0, <2>2 DEF Approve, ReadStatus, Insert, Crash
  <2>3. ASSUME NEW c \in Calls, CountAndCommit(c) PROVE StatusStep
    BY <2>3, CountStatusStep
  <2>4. ASSUME NEW c \in Calls, Execute(c) PROVE StatusStep
    <3>1. CASE SaveWrite(c, "pend2", "withdraw")
      BY <3>1, SaveStatusStep
    <3>2. CASE SaveWrite(c, "end2", "done")
      BY <3>2, SaveStatusStep
    <3> QED
      BY <2>0, <2>4, <3>1, <3>2 DEF Execute, SaveLoad, SaveFails, Withdraw
  <2>5. ASSUME NEW c \in Calls, Refund(c) PROVE StatusStep
    <3>1. CASE SaveWrite(c, "fail2", "refund")
      BY <3>1, SaveStatusStep
    <3>2. CASE SaveWrite(c, "refund2", "failed")
      BY <3>2, SaveStatusStep
    <3> QED
      BY <2>0, <2>5, <3>1, <3>2 DEF Refund, SaveLoad, SaveFails, Withdraw
  <2> QED
    BY <2>1, <2>2, <2>3, <2>4, <2>5 DEF Next, Step, Finished
<1>2. Spec => [][StatusStep]_vars
  BY <1>1, Invariance, PTL DEF Spec
<1> QED
  BY <1>2 DEF FinalStatus, StatusStep

-----------------------------------------------------------------------------
(* The bridge implements MultisigDecision.                                 *)

\* A step that changes no column, approval row or executor is no step of the
\* decision.
LEMMA Hidden == UNCHANGED <<rec, rows, executed>> => UNCHANGED Decision!vars
  BY DEF Decision!vars

LEMMA InitRefines == Init => Decision!Init
  BY DEF Init, Decision!Init, Stage, Awaiting

LEMMA InitiateRefines ==
  ASSUME IndInv, NEW b \in Bridges, Initiate(b)
  PROVE  Decision!Open(b)
<1>0. PICK src \in Networks, dst \in Networks :
        rec' = [rec EXCEPT ![b] = [status |-> "initiated", approvals |-> 0, src |-> src, dst |-> dst]]
  BY DEF Initiate
<1>1. rec[b].status = "none" /\ UNCHANGED <<rows, executed>>
  BY DEF Initiate
<1>2. /\ Stage("none") = "none"
      /\ Stage("initiated") = "awaiting"
  BY DEF Stage, Awaiting
<1>3. rec'[b].status = "initiated" /\ \A x \in Bridges \ {b} : rec'[x] = rec[x]
  BY <1>0 DEF IndInv, TypeOK
<1>4. [x \in Bridges |-> Stage(rec'[x].status)]
        = [[x \in Bridges |-> Stage(rec[x].status)] EXCEPT ![b] = "awaiting"]
  BY <1>2, <1>3
<1> QED
  BY <1>1, <1>2, <1>4 DEF Decision!Open

\* The commit of an approval supports the decision or makes it.
LEMMA CountRefines ==
  ASSUME IndInv, NEW c \in Calls, CountAndCommit(c)
  PROVE  Decision!Next
<1> DEFINE x == call[c].bridge
           s == call[c].signer
           reached == NextCount(x) >= Threshold
<1>1. x \in Bridges /\ s \in Signers /\ s \notin rows[x] /\ rec[x].status # "none"
  BY DEF IndInv, TypeOK, CallsOK, CountAndCommit, InTxn
<1>2. /\ rec' = [rec EXCEPT ![x].approvals = NextCount(x), ![x].status = NextStatus(x, reached)]
      /\ rows' = [rows EXCEPT ![x] = @ \cup {s}]
      /\ executed' = [executed EXCEPT ![x] = IF reached /\ Flippable(rec[x].status) THEN @ \cup {c} ELSE @]
  BY DEF CountAndCommit
<1>3. rec'[x].status = NextStatus(x, reached) /\ \A y \in Bridges \ {x} : rec'[y] = rec[y]
  BY <1>1, <1>2 DEF IndInv, TypeOK
<1>4. rec[x].status \in Awaiting => NextCount(x) = Cardinality(rows[x]) + 1 /\ executed[x] = {}
  BY <1>1 DEF IndInv, ApprovalsOK, StatusesOK, NextCount
<1>5. Decision!Sign(x, s)
  BY <1>1, <1>2 DEF Decision!Sign
<1>6. Stage(rec[x].status) # "none" /\ (Stage(rec[x].status) = "awaiting" <=> rec[x].status \in Awaiting)
  BY <1>1 DEF Stage, Awaiting
<1>7. rec[x].status \in Awaiting => (rows[x] \cup {s} \in Quorum <=> reached)
  <2>1. IsFiniteSet(rows[x]) /\ rows[x] \cup {s} \in SUBSET Signers
    BY <1>1 DEF IndInv, TypeOK, ApprovalsOK
  <2>2. Cardinality(rows[x] \cup {s}) = Cardinality(rows[x]) + 1
    BY <1>1, <2>1, FS_AddElement
  <2> QED
    BY <1>4, <2>1, <2>2 DEF Quorum
<1>8. CASE rec[x].status \in Awaiting /\ reached
  <2>1. rec'[x].status = "bridge_processing" /\ Stage("bridge_processing") = "decided"
    BY <1>3, <1>8 DEF NextStatus, Flippable, Stage, Awaiting
  <2>2. executed' = [executed EXCEPT ![x] = {c}]
    BY <1>2, <1>4, <1>8 DEF Flippable
  <2>3. [b \in Bridges |-> Stage(rec'[b].status)]
          = [[b \in Bridges |-> Stage(rec[b].status)] EXCEPT ![x] = "decided"]
    BY <1>3, <2>1
  <2>4. Decision!Decide(x, s, c)
    BY <1>1, <1>5, <1>6, <1>7, <1>8, <2>2, <2>3 DEF Decision!Decide
  <2> QED
    BY <1>1, <2>4 DEF Decision!Next
<1>9. CASE ~(rec[x].status \in Awaiting /\ reached)
  <2>1. rec'[x].status = rec[x].status /\ executed' = executed
    BY <1>1, <1>2, <1>3, <1>9 DEF NextStatus, Flippable, IndInv, TypeOK
  <2>2. [b \in Bridges |-> Stage(rec'[b].status)] = [b \in Bridges |-> Stage(rec[b].status)]
    BY <1>3, <2>1
  <2>3. Stage(rec[x].status) = "awaiting" => rows[x] \cup {s} \notin Quorum
    BY <1>6, <1>7, <1>9
  <2>4. Decision!Support(x, s)
    BY <1>1, <1>5, <1>6, <2>1, <2>2, <2>3 DEF Decision!Support
  <2> QED
    BY <1>1, <2>4 DEF Decision!Next
<1> QED
  BY <1>8, <1>9

\* A save of the executing call ends the transfer or leaves it decided.
LEMMA SaveRefines ==
  ASSUME IndInv, NEW c \in Calls, NEW from \in {"pend2", "end2", "fail2", "refund2"}, NEW to,
         to = [pend2 |-> "withdraw", end2 |-> "done", fail2 |-> "refund", refund2 |-> "failed"][from],
         SaveWrite(c, from, to)
  PROVE  Decision!Next \/ UNCHANGED Decision!vars
<1> DEFINE x == call[c].bridge
<1>1. /\ rec[x].status \notin Awaiting \cup {"none", "completed", "refunded"}
      /\ x \in Bridges
  BY SaveWriteInv DEF IndInv, TypeOK
<1>2. /\ rec'[x].status = SavedStatus[from]
      /\ \A b \in Bridges \ {x} : rec'[b] = rec[b]
      /\ UNCHANGED <<rows, executed>>
  BY <1>1 DEF IndInv, TypeOK, StatusesOK, SaveWrite
<1>3. Stage(rec[x].status) = "decided"
  BY <1>1 DEF Stage
<1>4. CASE from \in {"pend2", "fail2"}
  <2>1. Stage(SavedStatus[from]) = "decided"
    BY <1>4 DEF Stage, SavedStatus, Awaiting
  <2>2. [b \in Bridges |-> Stage(rec'[b].status)] = [b \in Bridges |-> Stage(rec[b].status)]
    BY <1>2, <1>3, <2>1
  <2> QED
    BY <1>2, <2>2 DEF Decision!vars
<1>5. CASE from \in {"end2", "refund2"}
  <2>1. SavedStatus[from] \in {"completed", "refunded"} /\ Stage(SavedStatus[from]) = SavedStatus[from]
    BY <1>5 DEF Stage, SavedStatus, Awaiting
  <2>2. [b \in Bridges |-> Stage(rec'[b].status)]
          = [[b \in Bridges |-> Stage(rec[b].status)] EXCEPT ![x] = SavedStatus[from]]
    BY <1>2, <2>1
  <2>3. Decision!End(x, SavedStatus[from])
    BY <1>1, <1>2, <1>3, <2>2 DEF Decision!End
  <2> QED
    BY <1>1, <2>1, <2>3 DEF Decision!Next
<1> QED
  BY <1>4, <1>5

\* Concurrent addApproval transactions, the saves of executeBridge and
\* refundBridge and crashes implement the one-shot decision of the signers.
THEOREM Implements == Spec => DecidesOnce
<1>1. IndInv /\ [Next]_vars => [Decision!Next]_(Decision!vars)
  <2> SUFFICES ASSUME IndInv, [Next]_vars PROVE Decision!Next \/ UNCHANGED Decision!vars
    OBVIOUS
  <2>0. UNCHANGED vars => UNCHANGED Decision!vars
    BY Hidden DEF vars
  <2>1. ASSUME NEW b \in Bridges, Initiate(b) PROVE Decision!Next
    BY <2>1, InitiateRefines DEF Decision!Next
  <2>2. ASSUME NEW c \in Calls, Approve(c) \/ ReadStatus(c) \/ Insert(c) \/ Crash(c)
        PROVE  UNCHANGED Decision!vars
    BY <2>2, Hidden DEF Approve, ReadStatus, Insert, Crash
  <2>3. ASSUME NEW c \in Calls, CountAndCommit(c) PROVE Decision!Next
    BY <2>3, CountRefines
  <2>4. ASSUME NEW c \in Calls, Execute(c) PROVE Decision!Next \/ UNCHANGED Decision!vars
    <3>1. CASE SaveWrite(c, "pend2", "withdraw")
      BY <3>1, SaveRefines
    <3>2. CASE SaveWrite(c, "end2", "done")
      BY <3>2, SaveRefines
    <3> QED
      BY <2>4, <3>1, <3>2, Hidden DEF Execute, SaveLoad, SaveFails, Withdraw
  <2>5. ASSUME NEW c \in Calls, Refund(c) PROVE Decision!Next \/ UNCHANGED Decision!vars
    <3>1. CASE SaveWrite(c, "fail2", "refund")
      BY <3>1, SaveRefines
    <3>2. CASE SaveWrite(c, "refund2", "failed")
      BY <3>2, SaveRefines
    <3> QED
      BY <2>5, <3>1, <3>2, Hidden DEF Refund, SaveLoad, SaveFails, Withdraw
  <2> QED
    BY <2>0, <2>1, <2>2, <2>3, <2>4, <2>5 DEF Next, Step, Finished
<1> QED
  BY <1>1, InitRefines, Invariance, PTL DEF Spec, DecidesOnce, Decision!Spec
=============================================================================
