-------------------------- MODULE MultisigDecision --------------------------
(***************************************************************************)
(* What the bridge promises its signers, without its database: a transfer  *)
(* collects the approvals of distinct signers; the approval that completes *)
(* a quorum decides it, in the same step and for good, and the call that   *)
(* brought this approval, nobody else, carries it out; it then ends once.  *)
(***************************************************************************)
CONSTANTS
  Bridges,    \* transfers
  Calls,      \* callers that may carry one out
  Signers,    \* those whose approval counts
  Quorums     \* sets of them whose approvals decide

VARIABLES
  stage,      \* where a transfer is
  signed,     \* who has approved it
  executor    \* who carries it out: nobody, or one call

vars == <<stage, signed, executor>>

Init ==
  /\ stage = [b \in Bridges |-> "none"]
  /\ signed = [b \in Bridges |-> {}]
  /\ executor = [b \in Bridges |-> {}]

Open(b) ==
  /\ stage[b] = "none"
  /\ stage' = [stage EXCEPT ![b] = "awaiting"]
  /\ UNCHANGED <<signed, executor>>

Sign(b, s) ==
  /\ s \notin signed[b]
  /\ signed' = [signed EXCEPT ![b] = @ \cup {s}]

\* An approval that decides nothing: too few so far, or decided already.
Support(b, s) ==
  /\ stage[b] # "none"
  /\ stage[b] = "awaiting" => signed[b] \cup {s} \notin Quorums
  /\ Sign(b, s)
  /\ UNCHANGED <<stage, executor>>

Decide(b, s, c) ==
  /\ stage[b] = "awaiting"
  /\ signed[b] \cup {s} \in Quorums
  /\ Sign(b, s)
  /\ stage' = [stage EXCEPT ![b] = "decided"]
  /\ executor' = [executor EXCEPT ![b] = {c}]

\* The transfer is completed, or its refund is.
End(b, outcome) ==
  /\ stage[b] = "decided"
  /\ stage' = [stage EXCEPT ![b] = outcome]
  /\ UNCHANGED <<signed, executor>>

Next ==
  \E b \in Bridges :
    \/ Open(b)
    \/ \E s \in Signers : Support(b, s) \/ \E c \in Calls : Decide(b, s, c)
    \/ \E outcome \in {"completed", "refunded"} : End(b, outcome)

Spec == Init /\ [][Next]_vars
=============================================================================
