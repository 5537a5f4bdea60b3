\* One pump with crashes, two pumps, a busy session, two tasks.
SPECIFICATION CompletionSpec
CONSTANTS
  None = None
  t1 = t1  t2 = t2  k1 = k1  k2 = k2  i1 = i1  s1 = s1
  h1 = h1  h2 = h2  c1 = c1  c2 = c2
  Task = {t1, t2}
  Key = {k1, k2}
  Intent = {i1}
  Session = {s1}
  Package <- TwoPackages
  Host = {h1, h2}
  Thread = {c1, c2}
  OriginOf <- Origins
  Scenarios <- AllScenarios
  Limit = 1
  AttemptCap = 2
  MaxLaunches = 1
INVARIANTS PassesProveSuccess OneStory AckedWasReceived SendsBounded NoOversubscription
PROPERTY RefinesOutcome
CONSTRAINT PlainEnds
