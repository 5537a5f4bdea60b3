--------------------------- MODULE JournalProofs ---------------------------
(***************************************************************************)
(* Proofs about Journal for any sets of entries, workers and digests.      *)
(* IndInv is inductive: HeldInv says what a call knows of the entry it     *)
(* holds, OwnerInv that the compare-and-set to APPLYING elects one owner,  *)
(* EffectInv ties the history of the effect to the owner's progress.  The  *)
(* three safety properties are conjuncts of IndInv.                        *)
(***************************************************************************)
EXTENDS Journal, TLAPS

\* The initial state satisfies the inductive invariant.
LEMMA InitInv == Init => IndInv
  BY DigestAssumption
  DEF Init, IndInv, TypeOK, Entry, Intent, Call, Step, Idle, AbsentEntry, AbsentIntent,
      HeldInv, Owner, OwnerInv, EffectInv, AtMostOneAttempt, NoEffectVerdictIsTrue,
      VerdictMatchesReadback

\* The classifier answers with a terminal state that fits the readback.
LEMMA ClassifyFits ==
    ASSUME NEW observed \in Digests, NEW original, NEW candidate
    PROVE  LET v == Classify(observed, original, candidate) IN
           /\ v \in {"VERIFIED_RECOVERED", "RETRYABLE_NO_EFFECT", "CONFLICT"}
           /\ v = "VERIFIED_RECOVERED" => observed = candidate
           /\ v = "RETRYABLE_NO_EFFECT" => observed = original /\ observed # candidate
  BY DigestAssumption DEF Classify

\* A new PREPARED entry has no owner and no attempt.
LEMMA CreatePreparedPreserves ==
    ASSUME IndInv, NEW j \in JournalIds, NEW i \in Intents, CreatePrepared(j, i)
    PROVE  IndInv'
<1> USE DEF IndInv, TypeOK, HeldInv, CreatePrepared, Store
<1>1. TypeOK'
  BY IntentAssumption DEF Entry, Intent, JournalState, Terminal, RecoveryEligible
<1>2. HeldInv'
  BY IntentAssumption DEF Entry, Call
<1>3. OwnerInv'
  BY DEF Entry, Call, OwnerInv, Owner
<1>4. EffectInv'
  BY IntentAssumption DEF Entry, Call, OwnerInv, Owner, EffectInv, AtMostOneAttempt
<1>5. AtMostOneAttempt' /\ NoEffectVerdictIsTrue'
  BY IntentAssumption DEF Entry, Call, OwnerInv, Owner, EffectInv, AtMostOneAttempt, NoEffectVerdictIsTrue
<1>6. VerdictMatchesReadback'
  BY IntentAssumption DEF Entry, Call, VerdictMatchesReadback, OriginalDigest
<1> QED BY <1>1, <1>2, <1>3, <1>4, <1>5, <1>6

\* A retry is a new entry; the settled one stays as it is.
LEMMA CreateRetryPreserves ==
    ASSUME IndInv, NEW j \in JournalIds, NEW k \in JournalIds,
           NEW a \in Digests \cup {intent[j].authority},
           NEW d \in {i.candidate : i \in Intents} \cup {intent[j].candidate}, CreateRetry(j, k, a, d)
    PROVE  IndInv'
<1> USE DEF IndInv, TypeOK, HeldInv, CreateRetry, Store
<1>1. TypeOK'
  BY IntentAssumption DEF Entry, Intent, JournalState, Terminal, RecoveryEligible
<1>2. HeldInv'
  BY IntentAssumption DEF Entry, Call
<1>3. OwnerInv'
  BY DEF Entry, Call, OwnerInv, Owner
<1>4. EffectInv'
  BY IntentAssumption DEF Entry, Call, OwnerInv, Owner, EffectInv, AtMostOneAttempt
<1>5. AtMostOneAttempt' /\ NoEffectVerdictIsTrue'
  BY IntentAssumption DEF Entry, Call, OwnerInv, Owner, EffectInv, AtMostOneAttempt, NoEffectVerdictIsTrue
<1>6. VerdictMatchesReadback'
  BY IntentAssumption DEF Entry, Call, VerdictMatchesReadback, OriginalDigest
<1> QED BY <1>1, <1>2, <1>3, <1>4, <1>5, <1>6

\* AttemptLoad preserves the inductive invariant.
LEMMA AttemptLoadPreserves ==
    ASSUME IndInv, NEW w \in Workers, NEW j \in JournalIds, AttemptLoad(w, j)
    PROVE  IndInv'
<1> USE DEF IndInv, TypeOK, HeldInv, AttemptLoad, Load
<1>1. TypeOK'
  BY DEF Entry, Call, Step, JournalState, Terminal, RecoveryEligible
<1>2. HeldInv'
  BY DEF Entry, Call
<1>3. OwnerInv'
  BY DEF Entry, Call, OwnerInv, Owner
<1>4. EffectInv'
  BY DEF Entry, Call, OwnerInv, Owner, EffectInv, AtMostOneAttempt
<1>5. AtMostOneAttempt' /\ NoEffectVerdictIsTrue'
  BY DEF Entry, Call, OwnerInv, Owner, EffectInv, AtMostOneAttempt, NoEffectVerdictIsTrue
<1>6. VerdictMatchesReadback'
  BY DEF Entry, Call, VerdictMatchesReadback, OriginalDigest
<1> QED BY <1>1, <1>2, <1>3, <1>4, <1>5, <1>6

\* Winning the claim makes w the only owner: no other worker owned a PREPARED entry.
LEMMA ClaimApplyingPreserves ==
    ASSUME IndInv, NEW w \in Workers, ClaimApplying(w)
    PROVE  IndInv'
<1> USE DEF IndInv, TypeOK, HeldInv, ClaimApplying, Continue, cas_transition, CasAccepts, At
<1>1. TypeOK'
  BY DEF Entry, Call, Step, JournalState, Terminal, RecoveryEligible
<1>2. HeldInv'
  BY DEF Entry, Call
<1>3. OwnerInv'
  BY DEF Entry, Call, OwnerInv, Owner
<1>4. EffectInv'
  BY DEF Entry, Call, OwnerInv, Owner, EffectInv, AtMostOneAttempt
<1>5. AtMostOneAttempt' /\ NoEffectVerdictIsTrue'
  BY DEF Entry, Call, OwnerInv, Owner, EffectInv, AtMostOneAttempt, NoEffectVerdictIsTrue
<1>6. VerdictMatchesReadback'
  BY DEF Entry, Call, VerdictMatchesReadback, OriginalDigest
<1> QED BY <1>1, <1>2, <1>3, <1>4, <1>5, <1>6

\* MutateRejected preserves the inductive invariant.
LEMMA MutateRejectedPreserves ==
    ASSUME IndInv, NEW w \in Workers, MutateRejected(w)
    PROVE  IndInv'
<1> USE DEF IndInv, TypeOK, HeldInv, MutateRejected, Proceed, At
<1>1. TypeOK'
  BY DEF Entry, Call, Step, JournalState, Terminal, RecoveryEligible
<1>2. HeldInv'
  BY DEF Entry, Call
<1>3. OwnerInv'
  BY DEF Entry, Call, OwnerInv, Owner
<1>4. EffectInv'
  BY DEF Entry, Call, OwnerInv, Owner, EffectInv, AtMostOneAttempt
<1>5. AtMostOneAttempt' /\ NoEffectVerdictIsTrue'
  BY DEF Entry, Call, OwnerInv, Owner, EffectInv, AtMostOneAttempt, NoEffectVerdictIsTrue
<1>6. VerdictMatchesReadback'
  BY DEF Entry, Call, VerdictMatchesReadback, OriginalDigest
<1> QED BY <1>1, <1>2, <1>3, <1>4, <1>5, <1>6

\* MutateApplied preserves the inductive invariant.
LEMMA MutateAppliedPreserves ==
    ASSUME IndInv, NEW w \in Workers, MutateApplied(w)
    PROVE  IndInv'
<1> USE DEF IndInv, TypeOK, HeldInv, MutateApplied, Effect, Proceed, At
<1>a. landed' \in [JournalIds -> BOOLEAN]
  BY Zenon
<1>b. intent[worker[w].id].candidate \in Digests
  BY DEF Intent, Call
<1>c. worker' \in [Workers -> Call]
  BY DEF Call, Step, JournalState, Terminal, RecoveryEligible
<1>d. /\ attempts' \in [JournalIds -> Nat]
      /\ plan' \in Digests
      /\ journal' = journal /\ intent' = intent
  BY <1>b
<1>1. TypeOK'
  BY <1>a, <1>c, <1>d, Zenon
<1>2. HeldInv'
  BY DEF Entry, Call
<1>3. OwnerInv'
  BY DEF Entry, Call, OwnerInv, Owner
<1>4. EffectInv'
  BY DEF Entry, Call, OwnerInv, Owner, EffectInv, AtMostOneAttempt
<1>5. AtMostOneAttempt' /\ NoEffectVerdictIsTrue'
  BY DEF Entry, Call, OwnerInv, Owner, EffectInv, AtMostOneAttempt, NoEffectVerdictIsTrue
<1>6. VerdictMatchesReadback'
  BY DEF Entry, Call, VerdictMatchesReadback, OriginalDigest
<1> QED BY <1>1, <1>2, <1>3, <1>4, <1>5, <1>6

\* MutateAnswerLost preserves the inductive invariant.
LEMMA MutateAnswerLostPreserves ==
    ASSUME IndInv, NEW w \in Workers, MutateAnswerLost(w)
    PROVE  IndInv'
<1> USE DEF IndInv, TypeOK, HeldInv, MutateAnswerLost, Effect, Proceed, At
<1>a. landed' \in [JournalIds -> BOOLEAN]
  BY Zenon
<1>b. intent[worker[w].id].candidate \in Digests
  BY DEF Intent, Call
<1>c. worker' \in [Workers -> Call]
  BY DEF Call, Step, JournalState, Terminal, RecoveryEligible
<1>d. /\ attempts' \in [JournalIds -> Nat]
      /\ plan' \in Digests
      /\ journal' = journal /\ intent' = intent
  BY <1>b
<1>1. TypeOK'
  BY <1>a, <1>c, <1>d, Zenon
<1>2. HeldInv'
  BY DEF Entry, Call
<1>3. OwnerInv'
  BY DEF Entry, Call, OwnerInv, Owner
<1>4. EffectInv'
  BY DEF Entry, Call, OwnerInv, Owner, EffectInv, AtMostOneAttempt
<1>5. AtMostOneAttempt' /\ NoEffectVerdictIsTrue'
  BY DEF Entry, Call, OwnerInv, Owner, EffectInv, AtMostOneAttempt, NoEffectVerdictIsTrue
<1>6. VerdictMatchesReadback'
  BY DEF Entry, Call, VerdictMatchesReadback, OriginalDigest
<1> QED BY <1>1, <1>2, <1>3, <1>4, <1>5, <1>6

\* MutateUnknown preserves the inductive invariant.
LEMMA MutateUnknownPreserves ==
    ASSUME IndInv, NEW w \in Workers, MutateUnknown(w)
    PROVE  IndInv'
<1> USE DEF IndInv, TypeOK, HeldInv, MutateUnknown, Proceed, At
<1>1. TypeOK'
  BY DEF Entry, Call, Step, JournalState, Terminal, RecoveryEligible
<1>2. HeldInv'
  BY DEF Entry, Call
<1>3. OwnerInv'
  BY DEF Entry, Call, OwnerInv, Owner
<1>4. EffectInv'
  BY DEF Entry, Call, OwnerInv, Owner, EffectInv, AtMostOneAttempt
<1>5. AtMostOneAttempt' /\ NoEffectVerdictIsTrue'
  BY DEF Entry, Call, OwnerInv, Owner, EffectInv, AtMostOneAttempt, NoEffectVerdictIsTrue
<1>6. VerdictMatchesReadback'
  BY DEF Entry, Call, VerdictMatchesReadback, OriginalDigest
<1> QED BY <1>1, <1>2, <1>3, <1>4, <1>5, <1>6

\* PersistOutcome preserves the inductive invariant.
LEMMA PersistOutcomePreserves ==
    ASSUME IndInv, NEW w \in Workers, PersistOutcome(w)
    PROVE  IndInv'
<1> USE DEF IndInv, TypeOK, HeldInv, PersistOutcome, Return, Idle, cas_transition, CasAccepts, At
<1>1. TypeOK'
  BY DEF Entry, Call, Step, JournalState, Terminal, RecoveryEligible
<1>2. HeldInv'
  BY DEF Entry, Call
<1>3. OwnerInv'
  BY DEF Entry, Call, OwnerInv, Owner, AllowedTransitions
<1>4. EffectInv'
  BY DEF Entry, Call, OwnerInv, Owner, EffectInv, AtMostOneAttempt
<1>5. AtMostOneAttempt' /\ NoEffectVerdictIsTrue'
  BY DEF Entry, Call, OwnerInv, Owner, EffectInv, AtMostOneAttempt, NoEffectVerdictIsTrue
<1>6. VerdictMatchesReadback'
  BY DEF Entry, Call, VerdictMatchesReadback, OriginalDigest
<1> QED BY <1>1, <1>2, <1>3, <1>4, <1>5, <1>6

\* Verify preserves the inductive invariant.
LEMMA VerifyPreserves ==
    ASSUME IndInv, NEW w \in Workers, Verify(w)
    PROVE  IndInv'
<1> USE DEF IndInv, TypeOK, HeldInv, Verify, Proceed, At
<1>1. TypeOK'
  BY DEF Entry, Call, Step, JournalState, Terminal, RecoveryEligible
<1>2. HeldInv'
  BY DEF Entry, Call
<1>3. OwnerInv'
  BY DEF Entry, Call, OwnerInv, Owner
<1>4. EffectInv'
  BY DEF Entry, Call, OwnerInv, Owner, EffectInv, AtMostOneAttempt
<1>5. AtMostOneAttempt' /\ NoEffectVerdictIsTrue'
  BY DEF Entry, Call, OwnerInv, Owner, EffectInv, AtMostOneAttempt, NoEffectVerdictIsTrue
<1>6. VerdictMatchesReadback'
  BY DEF Entry, Call, VerdictMatchesReadback, OriginalDigest
<1> QED BY <1>1, <1>2, <1>3, <1>4, <1>5, <1>6

\* VerifyFails preserves the inductive invariant.
LEMMA VerifyFailsPreserves ==
    ASSUME IndInv, NEW w \in Workers, VerifyFails(w)
    PROVE  IndInv'
<1> USE DEF IndInv, TypeOK, HeldInv, VerifyFails, Proceed, At
<1>1. TypeOK'
  BY DEF Entry, Call, Step, JournalState, Terminal, RecoveryEligible
<1>2. HeldInv'
  BY DEF Entry, Call
<1>3. OwnerInv'
  BY DEF Entry, Call, OwnerInv, Owner
<1>4. EffectInv'
  BY DEF Entry, Call, OwnerInv, Owner, EffectInv, AtMostOneAttempt
<1>5. AtMostOneAttempt' /\ NoEffectVerdictIsTrue'
  BY DEF Entry, Call, OwnerInv, Owner, EffectInv, AtMostOneAttempt, NoEffectVerdictIsTrue
<1>6. VerdictMatchesReadback'
  BY DEF Entry, Call, VerdictMatchesReadback, OriginalDigest
<1> QED BY <1>1, <1>2, <1>3, <1>4, <1>5, <1>6

\* PersistObserved preserves the inductive invariant.
LEMMA PersistObservedPreserves ==
    ASSUME IndInv, NEW w \in Workers, PersistObserved(w)
    PROVE  IndInv'
<1> USE DEF IndInv, TypeOK, HeldInv, PersistObserved, Continue, cas_transition, CasAccepts, At
<1>1. TypeOK'
  BY DEF Entry, Call, Step, JournalState, Terminal, RecoveryEligible
<1>2. HeldInv'
  BY DEF Entry, Call
<1>3. OwnerInv'
  BY DEF Entry, Call, OwnerInv, Owner
<1>4. EffectInv'
  BY DEF Entry, Call, OwnerInv, Owner, EffectInv, AtMostOneAttempt
<1>5. AtMostOneAttempt' /\ NoEffectVerdictIsTrue'
  BY DEF Entry, Call, OwnerInv, Owner, EffectInv, AtMostOneAttempt, NoEffectVerdictIsTrue
<1>6. VerdictMatchesReadback'
  BY DEF Entry, Call, VerdictMatchesReadback, OriginalDigest
<1> QED BY <1>1, <1>2, <1>3, <1>4, <1>5, <1>6

\* PersistVerdict preserves the inductive invariant.
LEMMA PersistVerdictPreserves ==
    ASSUME IndInv, NEW w \in Workers, PersistVerdict(w)
    PROVE  IndInv'
<1> USE DEF IndInv, TypeOK, HeldInv, PersistVerdict, Return, Idle, cas_transition, CasAccepts, At
<1>1. TypeOK'
  BY ClassifyFits DEF Entry, Call, Step, JournalState, Terminal, RecoveryEligible
<1>2. HeldInv'
  BY ClassifyFits DEF Entry, Call
<1> DEFINE i == intent[worker[w].id]
           v == Classify(worker[w].observed, OriginalDigest(i), i.candidate)
<1>0. /\ worker[w].id \in JournalIds
      /\ worker[w].observed \in Digests
      /\ v \in {"VERIFIED_RECOVERED", "RETRYABLE_NO_EFFECT", "CONFLICT"}
      /\ v = "VERIFIED_RECOVERED" => worker[w].observed = i.candidate
      /\ v = "RETRYABLE_NO_EFFECT" =>
            worker[w].observed = OriginalDigest(i) /\ worker[w].observed # i.candidate
  BY ClassifyFits DEF Call
<1>a. /\ journal[worker[w].id].state = "RECONCILING"
      /\ journal' = [journal EXCEPT ![worker[w].id] =
                      [state |-> v, revision |-> @.revision + 1,
                       observed |-> worker[w].observed, marked |-> @.marked]]
  BY <1>0, DigestAssumption
<1> HIDE DEF v
<1>3. OwnerInv'
  BY <1>0, <1>a DEF Entry, Call, OwnerInv, Owner
<1>4. EffectInv'
  BY <1>0, <1>a DEF Entry, Call, OwnerInv, Owner, EffectInv
<1>5. AtMostOneAttempt' /\ NoEffectVerdictIsTrue'
  BY <1>0, <1>a DEF Entry, Call, AtMostOneAttempt, NoEffectVerdictIsTrue
<1>6. VerdictMatchesReadback'
  BY <1>0, <1>a DEF Entry, Call, VerdictMatchesReadback
<1> QED BY <1>1, <1>2, <1>3, <1>4, <1>5, <1>6

\* RecoverLoad preserves the inductive invariant.
LEMMA RecoverLoadPreserves ==
    ASSUME IndInv, NEW w \in Workers, NEW j \in JournalIds, RecoverLoad(w, j)
    PROVE  IndInv'
<1> USE DEF IndInv, TypeOK, HeldInv, RecoverLoad, Load, RecoveryEligible
<1>1. TypeOK'
  BY DEF Entry, Call, Step, JournalState, Terminal, RecoveryEligible
<1>2. HeldInv'
  BY DEF Entry, Call
<1>3. OwnerInv'
  BY DEF Entry, Call, OwnerInv, Owner
<1>4. EffectInv'
  BY DEF Entry, Call, OwnerInv, Owner, EffectInv, AtMostOneAttempt
<1>5. AtMostOneAttempt' /\ NoEffectVerdictIsTrue'
  BY DEF Entry, Call, OwnerInv, Owner, EffectInv, AtMostOneAttempt, NoEffectVerdictIsTrue
<1>6. VerdictMatchesReadback'
  BY DEF Entry, Call, VerdictMatchesReadback, OriginalDigest
<1> QED BY <1>1, <1>2, <1>3, <1>4, <1>5, <1>6

\* DiscardPrepared preserves the inductive invariant.
LEMMA DiscardPreparedPreserves ==
    ASSUME IndInv, NEW w \in Workers, DiscardPrepared(w)
    PROVE  IndInv'
<1> USE DEF IndInv, TypeOK, HeldInv, DiscardPrepared, Return, Idle, cas_transition, CasAccepts, At
<1>1. TypeOK'
  BY DEF Entry, Call, Step, JournalState, Terminal, RecoveryEligible
<1>2. HeldInv'
  BY DEF Entry, Call
<1>3. OwnerInv'
  BY DEF Entry, Call, OwnerInv, Owner
<1>4. EffectInv'
  BY DEF Entry, Call, OwnerInv, Owner, EffectInv, AtMostOneAttempt
<1>5. AtMostOneAttempt' /\ NoEffectVerdictIsTrue'
  BY DEF Entry, Call, OwnerInv, Owner, EffectInv, AtMostOneAttempt, NoEffectVerdictIsTrue
<1>6. VerdictMatchesReadback'
  BY DEF Entry, Call, VerdictMatchesReadback, OriginalDigest
<1> QED BY <1>1, <1>2, <1>3, <1>4, <1>5, <1>6

\* EnterReconciling preserves the inductive invariant.
LEMMA EnterReconcilingPreserves ==
    ASSUME IndInv, NEW w \in Workers, EnterReconciling(w)
    PROVE  IndInv'
<1> USE DEF IndInv, TypeOK, HeldInv, EnterReconciling, Continue, cas_transition, CasAccepts, At
<1>1. TypeOK'
  BY DEF Entry, Call, Step, JournalState, Terminal, RecoveryEligible
<1>2. HeldInv'
  BY DEF Entry, Call
<1>3. OwnerInv'
  BY DEF Entry, Call, OwnerInv, Owner
<1>4. EffectInv'
  BY DEF Entry, Call, OwnerInv, Owner, EffectInv, AtMostOneAttempt
<1>5. AtMostOneAttempt' /\ NoEffectVerdictIsTrue'
  BY DEF Entry, Call, OwnerInv, Owner, EffectInv, AtMostOneAttempt, NoEffectVerdictIsTrue
<1>6. VerdictMatchesReadback'
  BY DEF Entry, Call, VerdictMatchesReadback, OriginalDigest
<1> QED BY <1>1, <1>2, <1>3, <1>4, <1>5, <1>6

\* Reverify preserves the inductive invariant.
LEMMA ReverifyPreserves ==
    ASSUME IndInv, NEW w \in Workers, Reverify(w)
    PROVE  IndInv'
<1> USE DEF IndInv, TypeOK, HeldInv, Reverify, Proceed, At
<1>1. TypeOK'
  BY DEF Entry, Call, Step, JournalState, Terminal, RecoveryEligible
<1>2. HeldInv'
  BY DEF Entry, Call
<1>3. OwnerInv'
  BY DEF Entry, Call, OwnerInv, Owner
<1>4. EffectInv'
  BY DEF Entry, Call, OwnerInv, Owner, EffectInv, AtMostOneAttempt
<1>5. AtMostOneAttempt' /\ NoEffectVerdictIsTrue'
  BY DEF Entry, Call, OwnerInv, Owner, EffectInv, AtMostOneAttempt, NoEffectVerdictIsTrue
<1>6. VerdictMatchesReadback'
  BY DEF Entry, Call, VerdictMatchesReadback, OriginalDigest
<1> QED BY <1>1, <1>2, <1>3, <1>4, <1>5, <1>6

\* EvidenceLoad preserves the inductive invariant.
LEMMA EvidenceLoadPreserves ==
    ASSUME IndInv, NEW w \in Workers, NEW j \in JournalIds, EvidenceLoad(w, j)
    PROVE  IndInv'
<1> USE DEF IndInv, TypeOK, HeldInv, EvidenceLoad, Load
<1>1. TypeOK'
  BY DEF Entry, Call, Step, JournalState, Terminal, RecoveryEligible
<1>2. HeldInv'
  BY DEF Entry, Call
<1>3. OwnerInv'
  BY DEF Entry, Call, OwnerInv, Owner
<1>4. EffectInv'
  BY DEF Entry, Call, OwnerInv, Owner, EffectInv, AtMostOneAttempt
<1>5. AtMostOneAttempt' /\ NoEffectVerdictIsTrue'
  BY DEF Entry, Call, OwnerInv, Owner, EffectInv, AtMostOneAttempt, NoEffectVerdictIsTrue
<1>6. VerdictMatchesReadback'
  BY DEF Entry, Call, VerdictMatchesReadback, OriginalDigest
<1> QED BY <1>1, <1>2, <1>3, <1>4, <1>5, <1>6

\* UpdateEvidence preserves the inductive invariant.
LEMMA UpdateEvidencePreserves ==
    ASSUME IndInv, NEW w \in Workers, UpdateEvidence(w)
    PROVE  IndInv'
<1> USE DEF IndInv, TypeOK, HeldInv, UpdateEvidence, Return, Idle, At
<1>1. TypeOK'
  BY DEF Entry, Call, Step, JournalState, Terminal, RecoveryEligible
<1>2. HeldInv'
  BY DEF Entry, Call
<1>3. OwnerInv'
  BY DEF Entry, Call, OwnerInv, Owner
<1>4. EffectInv'
  BY DEF Entry, Call, OwnerInv, Owner, EffectInv, AtMostOneAttempt
<1>5. AtMostOneAttempt' /\ NoEffectVerdictIsTrue'
  BY DEF Entry, Call, OwnerInv, Owner, EffectInv, AtMostOneAttempt, NoEffectVerdictIsTrue
<1>6. VerdictMatchesReadback'
  BY DEF Entry, Call, VerdictMatchesReadback, OriginalDigest
<1> QED BY <1>1, <1>2, <1>3, <1>4, <1>5, <1>6

\* StoreOrReadFails preserves the inductive invariant.
LEMMA StoreOrReadFailsPreserves ==
    ASSUME IndInv, NEW w \in Workers, StoreOrReadFails(w)
    PROVE  IndInv'
<1> USE DEF IndInv, TypeOK, HeldInv, StoreOrReadFails, Return, Idle
<1>1. TypeOK'
  BY DEF Entry, Call, Step, JournalState, Terminal, RecoveryEligible
<1>2. HeldInv'
  BY DEF Entry, Call
<1>3. OwnerInv'
  BY DEF Entry, Call, OwnerInv, Owner
<1>4. EffectInv'
  BY DEF Entry, Call, OwnerInv, Owner, EffectInv, AtMostOneAttempt
<1>5. AtMostOneAttempt' /\ NoEffectVerdictIsTrue'
  BY DEF Entry, Call, OwnerInv, Owner, EffectInv, AtMostOneAttempt, NoEffectVerdictIsTrue
<1>6. VerdictMatchesReadback'
  BY DEF Entry, Call, VerdictMatchesReadback, OriginalDigest
<1> QED BY <1>1, <1>2, <1>3, <1>4, <1>5, <1>6

\* Crash preserves the inductive invariant.
LEMMA CrashPreserves ==
    ASSUME IndInv, NEW w \in Workers, Crash(w)
    PROVE  IndInv'
<1> USE DEF IndInv, TypeOK, HeldInv, Crash, Return, Idle
<1>1. TypeOK'
  BY DEF Entry, Call, Step, JournalState, Terminal, RecoveryEligible
<1>2. HeldInv'
  BY DEF Entry, Call
<1>3. OwnerInv'
  BY DEF Entry, Call, OwnerInv, Owner
<1>4. EffectInv'
  BY DEF Entry, Call, OwnerInv, Owner, EffectInv, AtMostOneAttempt
<1>5. AtMostOneAttempt' /\ NoEffectVerdictIsTrue'
  BY DEF Entry, Call, OwnerInv, Owner, EffectInv, AtMostOneAttempt, NoEffectVerdictIsTrue
<1>6. VerdictMatchesReadback'
  BY DEF Entry, Call, VerdictMatchesReadback, OriginalDigest
<1> QED BY <1>1, <1>2, <1>3, <1>4, <1>5, <1>6

\* Edit preserves the inductive invariant.
LEMMA EditPreserves ==
    ASSUME IndInv, NEW d \in Edits, Edit(d)
    PROVE  IndInv'
<1> USE DEF IndInv, TypeOK, HeldInv, Edit
<1>1. TypeOK'
  BY DigestAssumption 
<1>2. HeldInv'
  BY DigestAssumption DEF Entry, Call
<1>3. OwnerInv'
  BY DEF Entry, Call, OwnerInv, Owner
<1>4. EffectInv'
  BY DigestAssumption DEF Entry, Call, OwnerInv, Owner, EffectInv, AtMostOneAttempt
<1>5. AtMostOneAttempt' /\ NoEffectVerdictIsTrue'
  BY DigestAssumption DEF Entry, Call, OwnerInv, Owner, EffectInv, AtMostOneAttempt, NoEffectVerdictIsTrue
<1>6. VerdictMatchesReadback'
  BY DigestAssumption DEF Entry, Call, VerdictMatchesReadback, OriginalDigest
<1> QED BY <1>1, <1>2, <1>3, <1>4, <1>5, <1>6

\* Every step of the system preserves the inductive invariant.
LEMMA NextPreserves == IndInv /\ [Next]_vars => IndInv'
<1> SUFFICES ASSUME IndInv, [Next]_vars PROVE IndInv'
  OBVIOUS
<1>1. CASE Next
  BY <1>1, CreatePreparedPreserves, CreateRetryPreserves, AttemptLoadPreserves, ClaimApplyingPreserves, MutateRejectedPreserves, MutateAppliedPreserves, MutateAnswerLostPreserves, MutateUnknownPreserves, PersistOutcomePreserves, VerifyPreserves, VerifyFailsPreserves, PersistObservedPreserves, PersistVerdictPreserves, RecoverLoadPreserves, DiscardPreparedPreserves, EnterReconcilingPreserves, ReverifyPreserves, EvidenceLoadPreserves, UpdateEvidencePreserves, StoreOrReadFailsPreserves, CrashPreserves, EditPreserves
  DEF Next, Create, Attempt, Recover, MarkEvidence
<1>2. CASE UNCHANGED vars
  BY <1>2 DEF vars, IndInv, TypeOK, HeldInv, Owner, OwnerInv, EffectInv, AtMostOneAttempt,
     NoEffectVerdictIsTrue, VerdictMatchesReadback
<1> QED BY <1>1, <1>2

\* The inductive invariant holds in every reachable state, for every set of
\* entries, workers, digests and intents.
THEOREM Inductive == Spec => []IndInv
<1>1. Init => IndInv
  BY InitInv
<1>2. IndInv /\ [Next]_vars => IndInv'
  BY NextPreserves
<1> QED BY <1>1, <1>2, PTL DEF Spec

\* Type correctness.
THEOREM Typing == Spec => []TypeOK
<1>1. IndInv => TypeOK
  BY DEF IndInv
<1> QED BY <1>1, Inductive, PTL

\* port.mutate is called at most once per entry and never before APPLYING is
\* durable, whatever attempt and recovery workers race and crash.
THEOREM AttemptOnce == Spec => []AtMostOneAttempt
<1>1. IndInv => AtMostOneAttempt
  BY DEF IndInv
<1> QED BY <1>1, Inductive, PTL

\* FAILED_NO_EFFECT, also when recovery concludes it from PREPARED alone, is
\* never wrong about the document.
THEOREM NoEffectTruth == Spec => []NoEffectVerdictIsTrue
<1>1. IndInv => NoEffectVerdictIsTrue
  BY DEF IndInv
<1> QED BY <1>1, Inductive, PTL

\* A verdict agrees with the readback stored beside it.
THEOREM VerdictReadback == Spec => []VerdictMatchesReadback
<1>1. IndInv => VerdictMatchesReadback
  BY DEF IndInv
<1> QED BY <1>1, Inductive, PTL

\* The states of the ledger that an entry passes through.
LEMMA VerdictCases ==
    ASSUME NEW s \in JournalState \cup {"ABSENT"}
    PROVE  /\ VerdictOf(s) = "none" <=> s = "ABSENT"
           /\ VerdictOf(s) = "no_effect" <=> s = "FAILED_NO_EFFECT"
           /\ VerdictOf(s) = "pending" <=> s \in RecoveryEligible
           /\ s \in Terminal => VerdictOf(s) \in Ledger!Verdicts
  BY DEF VerdictOf, JournalState, Terminal, RecoveryEligible, Ledger!Verdicts

\* Only these steps touch what the ledger shows.
LEMMA LedgerInit == Init => Ledger!Init
  BY DEF Init, Ledger!Init, AbsentEntry, VerdictOf

LedgerVars == <<[j \in JournalIds |-> VerdictOf(journal[j].state)], attempts, landed>>

\* A store step that keeps every entry's verdict is invisible to the ledger.
LEMMA LedgerStutters ==
    ASSUME \A j \in JournalIds : VerdictOf(journal'[j].state) = VerdictOf(journal[j].state),
           UNCHANGED <<attempts, landed>>
    PROVE  UNCHANGED LedgerVars
  BY DEF LedgerVars

\* A compare-and-set on a nonterminal entry stays pending or settles it once.
LEMMA LedgerSettles ==
    ASSUME TypeOK, NEW w \in Workers, NEW target \in JournalState, NEW observed,
           worker[w].id \in JournalIds, worker[w].state \in RecoveryEligible,
           cas_transition(w, target, observed),
           target = "FAILED_NO_EFFECT" => ~landed[worker[w].id],
           UNCHANGED <<attempts, landed>>
    PROVE  Ledger!Next \/ UNCHANGED LedgerVars
<1> DEFINE j == worker[w].id
           view == [k \in JournalIds |-> VerdictOf(journal[k].state)]
<1>1. /\ journal[j].state \in RecoveryEligible
      /\ journal'[j].state = target
      /\ \A k \in JournalIds \ {j} : journal'[k] = journal[k]
  BY DEF TypeOK, Entry, cas_transition, CasAccepts
<1>2. VerdictOf(journal[j].state) = "pending"
  BY <1>1, VerdictCases DEF JournalState
<1>3. CASE target \in RecoveryEligible
  <2>1. VerdictOf(target) = "pending"
    BY <1>3, VerdictCases
  <2> QED BY <1>1, <1>2, <2>1, LedgerStutters
<1>4. CASE target \in Terminal
  <2>1. /\ VerdictOf(target) \in Ledger!Verdicts
        /\ VerdictOf(target) = "no_effect" => ~landed[j]
    BY <1>4, VerdictCases
  <2>2. view' = [view EXCEPT ![j] = VerdictOf(target)]
    BY <1>1
  <2>3. Ledger!Settle(j)
    BY <1>2, <2>1, <2>2 DEF Ledger!Settle
  <2> QED BY <2>3 DEF Ledger!Next
<1> QED BY <1>3, <1>4 DEF JournalState

\* A new entry is registered.
LEMMA LedgerRegisters ==
    ASSUME TypeOK, NEW j \in JournalIds, NEW i, Store(j, i), UNCHANGED <<attempts, landed>>
    PROVE  Ledger!Next
<1> DEFINE view == [k \in JournalIds |-> VerdictOf(journal[k].state)]
<1>1. /\ journal[j].state = "ABSENT"
      /\ journal'[j].state = "PREPARED"
      /\ \A k \in JournalIds \ {j} : journal'[k] = journal[k]
  BY DEF TypeOK, Store
<1>2. VerdictOf("ABSENT") = "none" /\ VerdictOf("PREPARED") = "pending"
  BY DEF VerdictOf
<1>3. view' = [view EXCEPT ![j] = "pending"]
  BY <1>1, <1>2
<1>4. Ledger!Register(j)
  BY <1>1, <1>2, <1>3 DEF Ledger!Register
<1> QED BY <1>4 DEF Ledger!Next

\* The owner's call of port.mutate is the one try of its entry.
LEMMA LedgerTries ==
    ASSUME IndInv, NEW w \in Workers, At(w, "mutate"),
           attempts' = [attempts EXCEPT ![worker[w].id] = @ + 1],
           landed' \in {landed, [landed EXCEPT ![worker[w].id] = TRUE]},
           UNCHANGED journal
    PROVE  Ledger!Next
<1> DEFINE j == worker[w].id
<1>1. /\ j \in JournalIds
      /\ attempts[j] = 0
      /\ journal[j].state \notin {"ABSENT", "FAILED_NO_EFFECT"}
  BY DEF IndInv, HeldInv, OwnerInv, Owner, EffectInv, At
<1>2. VerdictOf(journal[j].state) \notin {"none", "no_effect"}
  BY <1>1, VerdictCases DEF IndInv, TypeOK, Entry
<1>3. attempts' = [attempts EXCEPT ![j] = 1]
  BY <1>1 DEF IndInv, TypeOK
<1>4. Ledger!Try(j)
  BY <1>1, <1>2, <1>3 DEF Ledger!Try
<1> QED BY <1>1, <1>4 DEF Ledger!Next

\* The effect writes history for the owner's entry only.
LEMMA EffectLands ==
    ASSUME IndInv, NEW w \in Workers, Effect(w)
    PROVE  landed' \in {landed, [landed EXCEPT ![worker[w].id] = TRUE]}
<1>1. CASE plan = intent[worker[w].id].candidate
  BY <1>1 DEF IndInv, TypeOK, Effect
<1>2. CASE plan # intent[worker[w].id].candidate
  BY <1>2 DEF Effect
<1> QED BY <1>1, <1>2

\* Every step of the executor is a step of the ledger or invisible to it.
LEMMA LedgerStep == IndInv /\ [Next]_vars => Ledger!Next \/ UNCHANGED LedgerVars
<1> SUFFICES ASSUME IndInv, [Next]_vars PROVE Ledger!Next \/ UNCHANGED LedgerVars
  OBVIOUS
<1> USE DEF IndInv
<1>1. ASSUME NEW j \in JournalIds, NEW i \in Intents, CreatePrepared(j, i)
      PROVE  Ledger!Next
  BY <1>1, LedgerRegisters DEF CreatePrepared
<1>2. ASSUME NEW j \in JournalIds, NEW k \in JournalIds, NEW a, NEW d, CreateRetry(j, k, a, d)
      PROVE  Ledger!Next
  BY <1>2, LedgerRegisters DEF CreateRetry
<1>3. ASSUME NEW w \in Workers,
             \/ ClaimApplying(w) \/ PersistOutcome(w) \/ PersistObserved(w)
             \/ DiscardPrepared(w) \/ EnterReconciling(w)
      PROVE  Ledger!Next \/ UNCHANGED LedgerVars
  <2>1. CASE ClaimApplying(w)
    BY <2>1, LedgerSettles DEF ClaimApplying, At, HeldInv, JournalState, RecoveryEligible
  <2>2. CASE PersistOutcome(w)
    BY <2>2, LedgerSettles
    DEF PersistOutcome, At, HeldInv, EffectInv, JournalState, Terminal, RecoveryEligible
  <2>3. CASE PersistObserved(w)
    BY <2>3, LedgerSettles DEF PersistObserved, At, HeldInv, JournalState, RecoveryEligible
  <2>4. CASE DiscardPrepared(w)
    <3>1. ~landed[worker[w].id]
      BY <2>4 DEF DiscardPrepared, cas_transition, CasAccepts, At, HeldInv, EffectInv,
         AtMostOneAttempt, TypeOK
    <3> QED BY <2>4, <3>1, LedgerSettles
        DEF DiscardPrepared, At, HeldInv, JournalState, Terminal, RecoveryEligible
  <2>5. CASE EnterReconciling(w)
    BY <2>5, LedgerSettles DEF EnterReconciling, At, HeldInv, JournalState, RecoveryEligible
  <2> QED BY <1>3, <2>1, <2>2, <2>3, <2>4, <2>5
<1>4. ASSUME NEW w \in Workers, PersistVerdict(w)
      PROVE  Ledger!Next \/ UNCHANGED LedgerVars
  <2> DEFINE i == intent[worker[w].id]
             v == Classify(worker[w].observed, OriginalDigest(i), i.candidate)
  <2>1. /\ worker[w].id \in JournalIds
        /\ worker[w].state = "RECONCILING"
        /\ worker[w].observed \in Digests
    BY <1>4 DEF PersistVerdict, At, HeldInv
  <2>2. v \in {"VERIFIED_RECOVERED", "RETRYABLE_NO_EFFECT", "CONFLICT"}
    BY <2>1, ClassifyFits
  <2>3. cas_transition(w, v, worker[w].observed) /\ UNCHANGED <<attempts, landed>>
    BY <1>4 DEF PersistVerdict
  <2> HIDE DEF v
  <2> QED BY <2>1, <2>2, <2>3, LedgerSettles DEF JournalState, Terminal, RecoveryEligible
<1>5. ASSUME NEW w \in Workers,
             \/ MutateRejected(w) \/ MutateApplied(w) \/ MutateAnswerLost(w)
             \/ MutateUnknown(w)
      PROVE  Ledger!Next
  <2>1. CASE MutateRejected(w) \/ MutateUnknown(w)
    BY <2>1, LedgerTries DEF MutateRejected, MutateUnknown
  <2>2. CASE MutateApplied(w) \/ MutateAnswerLost(w)
    <3>1. Effect(w) /\ UNCHANGED journal
      BY <2>2 DEF MutateApplied, MutateAnswerLost
    <3> QED BY <3>1, EffectLands, LedgerTries DEF Effect
  <2> QED BY <1>5, <2>1, <2>2
<1>6. ASSUME NEW w \in Workers, UpdateEvidence(w)
      PROVE  UNCHANGED LedgerVars
  <2>1. \A j \in JournalIds : journal'[j].state = journal[j].state
    BY <1>6 DEF UpdateEvidence, At, HeldInv, TypeOK, Entry
  <2> QED BY <1>6, <2>1, LedgerStutters DEF UpdateEvidence
<1>7. ASSUME UNCHANGED <<journal, attempts, landed>>
      PROVE  UNCHANGED LedgerVars
  BY <1>7 DEF LedgerVars
<1>8. CASE UNCHANGED vars
  BY <1>7, <1>8 DEF vars
<1>9. CASE Next
  <2>1. ASSUME NEW w \in Workers, Attempt(w) \/ Recover(w) \/ MarkEvidence(w)
                                 \/ StoreOrReadFails(w) \/ Crash(w)
        PROVE  Ledger!Next \/ UNCHANGED LedgerVars
    BY <2>1, <1>3, <1>4, <1>5, <1>6, <1>7
    DEF Attempt, Recover, MarkEvidence, AttemptLoad, Verify, VerifyFails, RecoverLoad,
        Reverify, EvidenceLoad, StoreOrReadFails, Crash
  <2>2. ASSUME NEW d \in Edits, Edit(d)
        PROVE  UNCHANGED LedgerVars
    BY <2>2, <1>7 DEF Edit
  <2> QED BY <1>9, <1>1, <1>2, <2>1, <2>2 DEF Next, Create
<1> QED BY <1>8, <1>9

\* The journal with its executor and recovery implements the ledger of
\* attempts, for every set of entries and workers.
THEOREM Refinement == Spec => ImplementsLedger
<1>1. Init => Ledger!Init
  BY LedgerInit
<1>2. IndInv /\ [Next]_vars => Ledger!Next \/ UNCHANGED LedgerVars
  BY LedgerStep
<1> QED BY <1>1, <1>2, Inductive, PTL DEF Spec, ImplementsLedger, Ledger!Spec, LedgerVars

Kept(j) == /\ journal'[j].state = journal[j].state
           /\ journal'[j].observed = journal[j].observed

\* A compare-and-set moves one nonterminal entry and keeps the others.
LEMMA CasKeepsSettled ==
    ASSUME TypeOK, NEW w \in Workers, NEW target, NEW observed,
           worker[w].state \in RecoveryEligible, cas_transition(w, target, observed),
           NEW j \in JournalIds, journal[j].state \in Terminal
    PROVE  Kept(j)
  BY DEF TypeOK, cas_transition, CasAccepts, Terminal, RecoveryEligible, Kept

\* No step moves a settled entry.
LEMMA SettledStep ==
    ASSUME IndInv, [Next]_vars, NEW j \in JournalIds, journal[j].state \in Terminal
    PROVE  Kept(j)
<1> USE DEF IndInv
<1>1. ASSUME NEW k \in JournalIds, NEW i, Store(k, i)
      PROVE  Kept(j)
  BY <1>1 DEF Store, TypeOK, Terminal, Kept
<1>2. ASSUME NEW w \in Workers, NEW target, NEW observed, cas_transition(w, target, observed),
             worker[w].pc \in {"claim", "outcome", "observe", "verdict", "discard", "reconcile"}
      PROVE  Kept(j)
  <2>1. worker[w].state \in RecoveryEligible
    BY <1>2 DEF HeldInv, RecoveryEligible
  <2> QED BY <1>2, <2>1, CasKeepsSettled
<1>3. ASSUME NEW w \in Workers, UpdateEvidence(w)
      PROVE  Kept(j)
  BY <1>3 DEF UpdateEvidence, At, HeldInv, TypeOK, Entry, Kept
<1>4. ASSUME UNCHANGED journal
      PROVE  Kept(j)
  BY <1>4 DEF Kept
<1>5. CASE UNCHANGED vars
  BY <1>4, <1>5 DEF vars
<1>6. CASE Next
  <2>1. ASSUME NEW w \in Workers, Attempt(w)
        PROVE  Kept(j)
    BY <2>1, <1>2, <1>4
    DEF Attempt, AttemptLoad, ClaimApplying, MutateRejected, MutateApplied, MutateAnswerLost,
        MutateUnknown, PersistOutcome, Verify, VerifyFails, PersistObserved, PersistVerdict, At
  <2>2. ASSUME NEW w \in Workers, Recover(w) \/ MarkEvidence(w) \/ StoreOrReadFails(w) \/ Crash(w)
        PROVE  Kept(j)
    BY <2>2, <1>2, <1>3, <1>4
    DEF Recover, MarkEvidence, RecoverLoad, DiscardPrepared, EnterReconciling, Reverify,
        EvidenceLoad, StoreOrReadFails, Crash, At
  <2>3. ASSUME NEW d \in Edits, Edit(d)
        PROVE  Kept(j)
    BY <2>3, <1>4 DEF Edit
  <2>4. CASE Create
    BY <2>4, <1>1 DEF Create, CreatePrepared, CreateRetry
  <2> QED BY <1>6, <2>1, <2>2, <2>3, <2>4 DEF Next
<1> QED BY <1>5, <1>6

\* A settled entry keeps its verdict and its readback for ever, whatever a
\* worker that read it earlier still tries to persist.
THEOREM Settled == Spec => SettledForever
<1>1. IndInv /\ [Next]_vars =>
        [\A j \in JournalIds : journal[j].state \in Terminal =>
            /\ journal'[j].state = journal[j].state
            /\ journal'[j].observed = journal[j].observed]_vars
  BY SettledStep DEF Kept
<1> QED BY <1>1, Inductive, PTL DEF Spec, SettledForever

\* This system writes the document only for an entry that is durably past
\* PREPARED, over the digest the entry was authorized for.
THEOREM WriteOrder == Spec => WriteOnlyAfterDurableApplying
<1> DEFINE Allowed ==
      plan' # plan =>
         \/ plan' \in Edits
         \/ \E j \in JournalIds :
              /\ journal[j].state \notin {"ABSENT", "PREPARED", "FAILED_NO_EFFECT"}
              /\ plan' = intent[j].candidate
              /\ intent[j].authority \in {plan, NoDigest}
<1>1. IndInv /\ [Next]_vars => [Allowed]_vars
  <2> SUFFICES ASSUME IndInv, Next PROVE Allowed
    OBVIOUS
  <2>1. ASSUME NEW w \in Workers, Effect(w)
        PROVE  Allowed
    <3>1. /\ worker[w].id \in JournalIds
          /\ journal[worker[w].id].state \notin {"ABSENT", "PREPARED", "FAILED_NO_EFFECT"}
          /\ plan' = intent[worker[w].id].candidate
          /\ intent[worker[w].id].authority \in {plan, NoDigest}
      BY <2>1 DEF IndInv, HeldInv, OwnerInv, Owner, EffectInv, Effect, PortRefuses, At
    <3> QED BY <3>1
  <2>2. ASSUME NEW d \in Edits, Edit(d)
        PROVE  Allowed
    BY <2>2 DEF Edit
  <2>3. ASSUME UNCHANGED plan
        PROVE  Allowed
    BY <2>3
  <2>4. ASSUME NEW w \in Workers, Attempt(w)
        PROVE  Allowed
    BY <2>4, <2>1, <2>3
    DEF Attempt, AttemptLoad, ClaimApplying, MutateRejected, MutateApplied, MutateAnswerLost,
        MutateUnknown, PersistOutcome, Verify, VerifyFails, PersistObserved, PersistVerdict
  <2>5. ASSUME NEW w \in Workers, Recover(w) \/ MarkEvidence(w) \/ StoreOrReadFails(w) \/ Crash(w)
        PROVE  Allowed
    BY <2>5, <2>3
    DEF Recover, MarkEvidence, RecoverLoad, DiscardPrepared, EnterReconciling, Reverify,
        EvidenceLoad, UpdateEvidence, StoreOrReadFails, Crash
  <2>6. CASE Create
    BY <2>6, <2>3 DEF Create, CreatePrepared, CreateRetry
  <2> QED BY <2>2, <2>4, <2>5, <2>6 DEF Next
<1> QED BY <1>1, Inductive, PTL DEF Spec, WriteOnlyAfterDurableApplying

=============================================================================
