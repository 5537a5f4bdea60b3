----------------------------- MODULE TaskOutcome -----------------------------
(***************************************************************************)
(* What durable execution promises of a task, without hosts, routes or     *)
(* calls: it is accepted once, comes to at most one outcome, and its       *)
(* outcome is settled (delivered or given up) at most once, after it is    *)
(* known.                                                                  *)
(***************************************************************************)
CONSTANTS Task, Outcome

VARIABLES
    outcome, \* "NEW", "OPEN", or the outcome the task came to
    settled  \* "NO", or how the delivery of the outcome was settled

vars == <<outcome, settled>>

Init ==
    /\ outcome = [t \in Task |-> "NEW"]
    /\ settled = [t \in Task |-> "NO"]

Accept(t) ==
    /\ outcome[t] = "NEW"
    /\ outcome' = [outcome EXCEPT ![t] = "OPEN"]
    /\ UNCHANGED settled

Come(t, o) ==
    /\ outcome[t] = "OPEN"
    /\ outcome' = [outcome EXCEPT ![t] = o]
    /\ UNCHANGED settled

Settle(t, how) ==
    /\ outcome[t] \in Outcome
    /\ settled[t] = "NO"
    /\ settled' = [settled EXCEPT ![t] = how]
    /\ UNCHANGED outcome

Next == \E t \in Task :
           \/ Accept(t)
           \/ \E o \in Outcome : Come(t, o)
           \/ \E how \in {"ACKNOWLEDGED", "DROPPED"} : Settle(t, how)

Spec == Init /\ [][Next]_vars
=============================================================================
