---------------------------- MODULE CoordinatorMC ----------------------------
(* Instances of the task-main coordinator and its context switch for TLC. *)
EXTENDS ContextSwitch

CONSTANTS c1, c2, s1, s2, evidence, p1, p2

Holders == {c1, c2, s1, s2, evidence}

Milestone(items, graph, limit, callers, targets) ==
    [items |-> items, graph |-> graph, limit |-> limit, callers |-> callers,
     targets |-> targets]

\* Two Work Items, one after the other or both ready at once; one caller
\* alone with room for one worker only.  In the last Milestone, of one Work Item,
\* one caller advances while two others switch the session to other Plans.
Milestones ==
    {Milestone({1, 2}, {<<1, 2>>}, 2, {c1, c2}, {}), Milestone({1, 2}, {}, 2, {c1, c2}, {}),
     Milestone({1, 2}, {}, 1, {c1}, {}), Milestone({1}, {}, 1, {c1}, {p1, p2})}
=============================================================================
