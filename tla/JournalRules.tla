---------------------------- MODULE JournalRules ----------------------------
(***************************************************************************)
(* The rules of the mutation journal and of the Plan authority port that   *)
(* do not depend on who calls them: the states of an entry, the            *)
(* transitions between them, the three-way classification of a readback    *)
(* and the requests the local port refuses.                                *)
(***************************************************************************)

CONSTANTS
    EmptyDoc,   \* the digest of an absent document
    NoDigest    \* None, where the code keeps an optional digest

Terminal == {"VERIFIED", "VERIFIED_RECOVERED", "FAILED_NO_EFFECT",
             "RETRYABLE_NO_EFFECT", "CONFLICT"}

\* Mutant: J10 forgotten, a stranded RECONCILING entry is not rediscovered.
EligibleButReconciling == {"PREPARED", "APPLYING", "OUTCOME_UNKNOWN"}

RecoveryEligible == {"PREPARED", "APPLYING", "OUTCOME_UNKNOWN", "RECONCILING"}

JournalState == Terminal \cup RecoveryEligible

AllowedTransitions(s) ==
    CASE s = "PREPARED" -> {"APPLYING", "FAILED_NO_EFFECT"}
      [] s = "APPLYING" -> {"VERIFIED", "FAILED_NO_EFFECT",
                            "OUTCOME_UNKNOWN", "RECONCILING"}
      [] s = "OUTCOME_UNKNOWN" -> {"RECONCILING"}
      [] s = "RECONCILING" -> {"VERIFIED_RECOVERED", "RETRYABLE_NO_EFFECT",
                               "CONFLICT"}
      [] OTHER -> {}

\* Mutant: the original has precedence.
ClassifyOriginalFirst(observed, original, candidate) ==
    CASE observed = original -> "RETRYABLE_NO_EFFECT"
      [] observed # original /\ observed = candidate -> "VERIFIED_RECOVERED"
      [] OTHER -> "CONFLICT"

\* classify_three_way: the candidate has precedence over the original, and a
\* missing digest is a conflict.
Classify(observed, original, candidate) ==
    CASE observed = NoDigest \/ original = NoDigest -> "CONFLICT"
      [] OTHER -> IF observed = candidate THEN "VERIFIED_RECOVERED"
                  ELSE IF observed = original THEN "RETRYABLE_NO_EFFECT"
                  ELSE "CONFLICT"

\* LocalPlanAuthorityAdapter.mutate under the authority lock: the answers it
\* can give to the request made from intent i when the document is d.
PortRefuses(i, d) ==
    \/ ~i.admissible
    \/ i.authority \notin {NoDigest, d}
    \/ /\ d \notin {EmptyDoc, i.candidate}
       /\ i.replace => i.authority = NoDigest
    \/ d = EmptyDoc /\ i.replace
=============================================================================
