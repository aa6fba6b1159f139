SPECIFICATION Spec
CONSTANTS
  b1 = b1
  b2 = b2
  b3 = b3
  q1 = q1
  u1 = u1
  u2 = u2
  None = None
  t1 = t1
  q2 = q2
  t2 = t2
  h1 = h1
  h2 = h2
  h3 = h3
PROPERTIES
  EverythingEnds
CHECK_DEADLOCK FALSE
