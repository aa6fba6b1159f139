---------------------------- MODULE MCQueueJobs ----------------------------
(* Small instances of QueueJobs for TLC: a single swap, a batch that names *)
(* the same swap, a two-leg route, an e-mail, a swap without a pool and a  *)
(* batch of nothing.                                                       *)
EXTENDS QueueJobs, TLC

MCKindOf == [p \in Payloads |->
  CASE p \in {"swap", "poolless"} -> "single" [] p \in {"batch", "empty"} -> "batch"
    [] p = "route" -> "multi_leg" [] p = "mail" -> "email"]

MCUnitsOf == [p \in Payloads |->
  CASE p = "swap" -> <<"s1">> [] p = "poolless" -> <<"s3">>
    [] p = "batch" -> <<"s1", "s2">> [] p = "route" -> <<"l1", "l2">>
    [] p = "mail" -> <<"m1">> [] p = "empty" -> <<>>]

\* A batch whose workers stall; a swap that may throw after its effect, whose
\* workers crash and stall too; one swap named by two jobs; a route whose legs
\* throw; an e-mail, with its recovery, when Redis fails or forgets.
AllScenarios == {
  [payloads |-> {"batch"}, faults |-> {"throw", "stall"}],
  [payloads |-> {"swap"}, faults |-> {"late", "crash", "stall"}],
  [payloads |-> {"swap", "batch"}, faults |-> {"late"}],
  [payloads |-> {"route", "poolless"}, faults |-> {"throw", "late"}],
  [payloads |-> {"mail"}, faults |-> {"throw", "redis", "crash", "expiry"}],
  [payloads |-> {"mail"}, faults |-> {"late", "redis", "stall"}],
  [payloads |-> {"empty"}, faults |-> {"redis"}]}

=============================================================================
