\* Two threads of one store object write the records of two tasks.
SPECIFICATION Spec
CONSTANTS
  t1 = t1  t2 = t2  k1 = k1  k2 = k2  h1 = h1  h2 = h2  p1 = p1
  Task = {t1, t2}
  Key = {k1, k2}
  Thread = {h1, h2}
  Process = {p1}
  KeyOf <- OwnKeys
  ProcessOf <- OneProcess
  MaxRevision = 2
  MaxFaults = 0
INVARIANTS NoAcknowledgedWriteLost
