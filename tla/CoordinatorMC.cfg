CONSTANTS
    c1 = c1  c2 = c2  s1 = s1  s2 = s2  evidence = evidence  p1 = p1  p2 = p2
    WorkItem = {1, 2}
    Scenarios <- Milestones
    Caller = {c1, c2}
    Holder <- Holders
    Plan = {p1, p2}
    Switcher = {s1, s2}
    Evidence = evidence
    MaxFaults = 1
    MaxTurns = 1
SPECIFICATION FairSpec
CHECK_DEADLOCK FALSE
INVARIANTS ActiveIsDispatched WorkInOrder AckedIsReconciled
PROPERTIES SwitchedFromQuiet CompletionIsReconciled
