---------------------------- MODULE CompletionMC ----------------------------
(* Instances of Completion for TLC.                                         *)
EXTENDS Completion

CONSTANTS t1, t2, k1, k2, i1, s1, h1, h2, c1, c2

Pkg(t, k) == [task |-> t, key |-> k, intent |-> i1]
OnePackage == {Pkg(t1, k1)}
TwoPackages == {Pkg(t1, k1), Pkg(t2, k2)}

\* h1 has its session, h2 was started without one.
Origins == [h \in Host |-> IF h = h1 THEN s1 ELSE None]

OneHost(h) == [c \in Thread |-> h]
TwoHosts == [c \in Thread |-> IF c = c1 THEN h1 ELSE h2]
Calls(client, ops) == [c \in Thread |-> IF c = client THEN ops ELSE {}]

\* The session's thread dispatches, the pump of its host recovers and
\* delivers; the host may crash.
OnePump == [hosts |-> OneHost(h1), packages |-> OnePackage,
            ops |-> Calls(c1, {"dispatch"}), pumps |-> {c2}, crashes |-> 1]

\* Two hosts deliver the same completions.
TwoPumps == [hosts |-> TwoHosts, packages |-> OnePackage,
             ops |-> Calls(c1, {"dispatch"}), pumps |-> {c1, c2}, crashes |-> 0]

\* The session's thread also asks for status and result and cancels.
BusySession ==
    [hosts |-> OneHost(h1), packages |-> OnePackage,
     ops |-> Calls(c1, {"dispatch", "status", "result", "cancel"}),
     pumps |-> {c2}, crashes |-> 0]

\* Two tasks compete for one worker on a host that may crash.
TwoTasks == [hosts |-> OneHost(h2), packages |-> TwoPackages,
             ops |-> Calls(c1, {"dispatch"}), pumps |-> {c1}, crashes |-> 1]

AllScenarios == {OnePump, TwoPumps, BusySession, TwoTasks}
JustOnePump == {OnePump}

\* Bound: where two hosts deliver, the worker ends well, with or without a
\* completed task.return; the gate makes a failure of the latter.  The other
\* scenarios have failures, timeouts and blocked returns too.
PlainEnds ==
    scenario = TwoPumps =>
        \A t \in Task : run[t] \notin {"FAILED", "TIMEOUT"} /\ ret[t] # "blocked"
=============================================================================
