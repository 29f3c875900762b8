CONSTANTS
  admin = admin
  m1 = m1
  m2 = m2
  other = other
  t1 = t1
  t2 = t2
  q1 = q1
  q2 = q2
  Accounts = {admin, m1, m2, other}
  Admin = admin
  Members = {m1, m2}
  Tokens = {t1, t2}
  Queries = {q1, q2}
  MaxEvents = 3
SPECIFICATION Spec
INVARIANTS Provenance HistoryEnds TableIsPrefix
SYMMETRY Interchangeable
