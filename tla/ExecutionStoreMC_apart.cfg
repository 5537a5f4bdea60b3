\* Two threads of one store object, two tasks under one key.
SPECIFICATION Spec
CONSTANTS
  t1 = t1  t2 = t2  k1 = k1  k2 = k2  h1 = h1  h2 = h2  p1 = p1
  Task = {t1, t2}
  Key = {k1, k2}
  Thread = {h1, h2}
  Process = {p1}
  KeyOf <- OneKey
  ProcessOf <- OneProcess
  MaxRevision = 3
  MaxFaults = 3
CONSTRAINT UntilReturned
INVARIANTS ApartKeepsAcked ApartOneOwner ApartFailedStaysOut
