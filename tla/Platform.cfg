SPECIFICATION Spec
CONSTANTS
  b1 = b1
  b2 = b2
  b3 = b3
  q1 = q1
  u1 = u1
  u2 = u2
  None = None
  k1 = k1
  k2 = k2
  q2 = q2
  t1 = t1
  j1 = j1
  j2 = j2
  y1 = y1
  g1 = g1
  g2 = g2
  x1 = x1
  x2 = x2
  m1 = m1
  s1 = s1
  s2 = s2
  v1 = v1
  r1 = r1
  r2 = r2
INVARIANTS
  TypeOK
  HandledInOrder
  
PROPERTIES
  NoHastyStep
CHECK_DEADLOCK FALSE
