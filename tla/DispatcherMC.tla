---------------------------- MODULE DispatcherMC ----------------------------
(* Instances of Dispatcher for TLC.                                         *)
EXTENDS Dispatcher, TLC

CONSTANTS t1, t2, k1, k2, i1, i2, s1, h1, h2, c1, c2

Pkg(t, k, i) == [task |-> t, key |-> k, intent |-> i]

\* One intent sent twice under two task ids, a conflicting intent under the
\* same key, and a second key for a task id that is taken.
FourPackages == {Pkg(t1, k1, i1), Pkg(t2, k1, i1), Pkg(t2, k1, i2), Pkg(t1, k2, i2)}

\* h1 has its session, h2 was started without one.
Origins == [h \in Host |-> IF h = h1 THEN s1 ELSE None]

\* Two hosts dispatch four packages that share keys and task ids.
TwoHosts ==
    [hosts |-> (c1 :> h1 @@ c2 :> h2), packages |-> FourPackages,
     ops |-> [c \in Thread |-> {"dispatch", "bind"}],
     pumps |-> {}, crashes |-> 2]

\* Two threads of one host ask after, cancel and resume one task.
TwoThreads ==
    [hosts |-> [c \in Thread |-> h1], packages |-> {Pkg(t1, k1, i1)},
     ops |-> [c \in Thread |-> {"dispatch", "status", "result", "reconcile",
                                "cancel", "resume"}],
     pumps |-> {}, crashes |-> 1]

BothScenarios == {TwoHosts, TwoThreads}
=============================================================================
