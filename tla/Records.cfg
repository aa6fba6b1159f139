SPECIFICATION Spec
CONSTANTS
  q1 = q1
  q2 = q2
  s1 = s1
  s2 = s2
  s3 = s3
  d1 = d1
  d2 = d2
  None = None
  u1 = u1
  c1 = c1
  c2 = c2
  k1 = k1
  m1 = m1
  m2 = m2
  rep1 = rep1
  u2 = u2
  v1 = v1
  v2 = v2
  r1 = r1
  r2 = r2
  w1 = w1
  w2 = w2
  x1 = x1
  t1 = t1
  t2 = t2
  h1 = h1
  h2 = h2
  h3 = h3
INVARIANTS
  TypeOK
  RightsAreLimited
  
CHECK_DEADLOCK FALSE
