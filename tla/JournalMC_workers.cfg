SPECIFICATION Spec
CONSTANTS
    orig = orig
    cand = cand
    empty = empty
    other = other
    none = none
    nojournal = nojournal
    JournalIds = {j1, j2}
    Workers = {w1, w2}
    Digests = {orig, cand, empty, other}
    EmptyDoc = empty
    NoDigest = none
    NoJournal = nojournal
    Intents <- AllIntents
    Edits = {other}
SYMMETRY WorkerSymmetry
INVARIANTS
    AtMostOneAttempt
    NoEffectVerdictIsTrue
    VerdictMatchesReadback
    IndInv
PROPERTIES
    SettledForever
    WriteOnlyAfterDurableApplying
    ImplementsLedger
CHECK_DEADLOCK FALSE
