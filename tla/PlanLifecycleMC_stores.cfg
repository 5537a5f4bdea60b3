CONSTANTS
    EmptyDoc = empty
    NoDigest = none
    planA = planA
    planB = planB
    planC = planC
    k1 = k1
    k2 = k2
    k3 = k3
    k4 = k4
    Callers = {c1, c2}
    Keys = {k1, k2, k3, k4}
    Digests <- Bodies
    PlanRevision <- Revisions
    TerminalBodies <- Terminals
    Scenarios <- AllScenarios
SPECIFICATION Spec
SYMMETRY Symmetry
INVARIANTS BoundAtMostOnce DivergenceIsOwned BoundIsVerified BoundOnItsPrecondition RetiredForGood ReportedIsTrue
CHECK_DEADLOCK FALSE
