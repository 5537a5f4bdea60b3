\* An ended worker is settled.
SPECIFICATION FairCompletionSpec
CONSTANTS
  None = None
  t1 = t1  t2 = t2  k1 = k1  k2 = k2  i1 = i1  s1 = s1
  h1 = h1  h2 = h2  c1 = c1  c2 = c2
  Task = {t1}
  Key = {k1}
  Intent = {i1}
  Session = {s1}
  Package <- OnePackage
  Host = {h1}
  Thread = {c1, c2}
  OriginOf <- Origins
  Scenarios <- JustOnePump
  Limit = 1
  AttemptCap = 1
  MaxLaunches = 1
PROPERTY EndedIsSettled
