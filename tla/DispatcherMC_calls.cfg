\* Two hosts with four packages, and two threads of one host with one task.
SPECIFICATION Spec
CONSTANTS
  None = None
  t1 = t1  t2 = t2  k1 = k1  k2 = k2  i1 = i1  i2 = i2  s1 = s1
  h1 = h1  h2 = h2  c1 = c1  c2 = c2
  Task = {t1, t2}
  Key = {k1, k2}
  Intent = {i1, i2}
  Session = {s1}
  Package <- FourPackages
  Host = {h1, h2}
  Thread = {c1, c2}
  OriginOf <- Origins
  Scenarios <- BothScenarios
  MaxLaunches = 2
INVARIANTS LaunchedOnce NoUnrecordedRun RecordedIsReal
CHECK_DEADLOCK FALSE
