--------------------------- MODULE AttemptLedger ---------------------------
(***************************************************************************)
(* What the mutation journal promises its callers, without revisions,      *)
(* workers or recovery: an entry is registered, tried at most once and     *)
(* settled at most once.  "no_effect" is a promise about the past and the  *)
(* future: an entry settled so was not applied and is never tried again.   *)
(* The other verdicts promise less: an entry may be settled while its      *)
(* attempt is still on its way, and the attempt may then take effect.      *)
(***************************************************************************)
EXTENDS Naturals

CONSTANT Entries

VARIABLES verdict, tried, applied

Verdicts == {"success", "no_effect", "retryable", "conflict"}

Init ==
    /\ verdict = [j \in Entries |-> "none"]
    /\ tried = [j \in Entries |-> 0]
    /\ applied = [j \in Entries |-> FALSE]

Register(j) ==
    /\ verdict[j] = "none"
    /\ verdict' = [verdict EXCEPT ![j] = "pending"]
    /\ UNCHANGED <<tried, applied>>

Try(j) ==
    /\ verdict[j] \notin {"none", "no_effect"}
    /\ tried[j] = 0
    /\ tried' = [tried EXCEPT ![j] = 1]
    /\ applied' \in {applied, [applied EXCEPT ![j] = TRUE]}
    /\ UNCHANGED verdict

Settle(j) ==
    /\ verdict[j] = "pending"
    /\ \E v \in Verdicts :
         /\ v = "no_effect" => ~applied[j]
         /\ verdict' = [verdict EXCEPT ![j] = v]
    /\ UNCHANGED <<tried, applied>>

Next == \E j \in Entries : Register(j) \/ Try(j) \/ Settle(j)

Spec == Init /\ [][Next]_<<verdict, tried, applied>>
=============================================================================
