-------------------------- MODULE ExecutionStoreMC --------------------------
(* Instances of ExecutionStore for TLC.                                     *)
EXTENDS ExecutionStore

CONSTANTS t1, t2, k1, k2, h1, h2, p1

\* Both tasks carry one idempotency key.
OneKey == [t \in Task |-> k1]

\* Each task has its own key.
OwnKeys == [t \in Task |-> IF t = t1 THEN k1 ELSE k2]

\* Every thread shares one store object.
OneProcess == [h \in Thread |-> p1]

\* Calls that overlap are followed until a write has returned.
UntilReturned == overlap => acked = NoRecords
=============================================================================
