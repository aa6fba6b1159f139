SPECIFICATION Spec
CONSTANTS
  Bridges = {b1}
  Calls = {c1, c2, c3, c4}
  Users = {s1, s2, s3, u}
  Signers = {s1, s2, s3}
  Threshold = 2
  Registered = FALSE
  Nobody = Nobody
SYMMETRY Symmetry
INVARIANTS TypeOK ExecutedOnce ApprovedByDistinctSigners CounterCountsApprovals
PROPERTY DecidesOnce
