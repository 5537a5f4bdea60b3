-------------------------- MODULE PlanLifecycleMC --------------------------
(* Instances of PlanLifecycle for TLC: which bodies exist and which calls    *)
(* are made.  planA is the first body, planB and planC replace it; planC is  *)
(* terminal and one PLAN_REVISION after planA and planB.                     *)
EXTENDS PlanLifecycle, TLC

CONSTANTS planA, planB, planC, k1, k2, k3, k4

Symmetry == Permutations(Callers)

Bodies == {EmptyDoc, planA, planB, planC}
Revisions == [d \in Bodies |-> CASE d = planC -> 3
                                 [] d \in {planA, planB} -> 2
                                 [] OTHER -> 0]
Terminals == {planC}

Req(op, key, candidate, expected, revision) ==
    [op |-> op, key |-> key, candidate |-> candidate, expected |-> expected,
     revision |-> revision]

Active(kind) == [status |-> "active", kind |-> kind, digest |-> planA,
                 revision |-> 1]

Alone(start, requests) ==
    [start |-> start, requests |-> requests,
     documentEdits |-> {}, sourceEdits |-> {}]

\* A Plan is initialised, amended to planB and back to planA, with the old
\* requests repeated and recovered.
AmendBack ==
    Alone(AbsentRecord,
          {Req("init", k1, planA, NoDigest, 0),
           Req("amend", k2, planB, planA, 1),
           Req("amend", k3, planA, planB, 2),
           Req("recover", k1, NoDigest, NoDigest, 0)})

\* Two amendments of one version, and one that brings the first body back.
Rivals ==
    Alone(Active("local_governance"),
          {Req("amend", k1, planC, planA, 1),
           Req("amend", k2, planB, planA, 1),
           Req("amend", k3, planA, planB, 2)})

\* A first body and its amendment, with a writer outside the coordinator and
\* the orphan recovery.
OrphanBody ==
    [start |-> AbsentRecord,
     requests |-> {Req("init", k1, planA, NoDigest, 0),
                   Req("amend", k2, planB, planA, 1),
                   Req("orphan", k3, planB, planA, 1),
                   Req("recover", k3, NoDigest, NoDigest, 1)},
     documentEdits |-> {planA, planB}, sourceEdits |-> {}]

\* An active Plan is retired while it is amended or closed, and the final
\* body of the retired Plan is repaired.
Retirement ==
    Alone(Active("local_governance"),
          {Req("amend", k2, planB, planA, 1),
           Req("close", k3, planC, planA, 0),
           Req("retire", k1, NoDigest, NoDigest, 1),
           Req("final", k4, planC, planA, 2),
           Req("recover", k4, NoDigest, planA, 0)})

\* A Plan on GitHub is cut over, then amended locally.
Cutover ==
    [start |-> Active("github_issue"),
     requests |-> {Req("cutover", k1, planA, planA, 1),
                   Req("recover", k1, NoDigest, planA, 0),
                   Req("amend", k2, planB, planA, 2)},
     documentEdits |-> {}, sourceEdits |-> {planB}]

\* What an orphan recovery and a retirement ask for is so already.
Done ==
    Alone(Active("local_governance"),
          {Req("orphan", k1, planA, planB, 1),
           Req("retire", k2, NoDigest, NoDigest, 1),
           Req("retire", k2, NoDigest, NoDigest, 2)})

AllScenarios == {AmendBack, Rivals, OrphanBody, Retirement, Cutover, Done}

\* A Plan is initialised and amended, and both are repeated until they are done.
Repeated ==
    {Alone(AbsentRecord, {Req("init", k1, planA, NoDigest, 0),
                          Req("amend", k2, planB, planA, 1)})}

\* Nothing but the close of an active Plan.
OnlyClose ==
    {Alone(Active("local_governance"), {Req("close", k3, planC, planA, 1)})}
=============================================================================
