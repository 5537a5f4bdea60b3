SPECIFICATION FairSpec
CONSTANTS
    orig = orig
    cand = cand
    empty = empty
    other = other
    none = none
    nojournal = nojournal
    JournalIds = {j1}
    Workers = {w1, w2}
    Digests = {orig, cand, empty, other}
    EmptyDoc = empty
    NoDigest = none
    NoJournal = nojournal
    Intents <- OneIntent
    Edits = {other}

PROPERTY
    EveryEntrySettles
CHECK_DEADLOCK FALSE
