------------------------- MODULE MCZeroLossMessages -------------------------
(* Small instances of ZeroLossMessages for TLC.                            *)
EXTENDS ZeroLossMessages, TLC

CONSTANTS w1, w2, s1, s2, a1

\* Two workers and two sweeping instances that keep their leases; the same with
\* slow processes; a slow worker, a sweep and an operator who retries anything.
AllScenarios == {
  [procs |-> {w1, w2, s1, s2}, slow |-> FALSE, retried |-> {}],
  [procs |-> {w1, w2, s1}, slow |-> TRUE, retried |-> {}],
  [procs |-> {w1, s1, a1}, slow |-> TRUE, retried |-> Statuses \ {"none"}]}

=============================================================================
