------------------------------ MODULE Journal ------------------------------
(***************************************************************************)
(* The durable mutation journal (core/journal) and the RecoveryExecutor    *)
(* that drives it, over one Plan authority document reached through the    *)
(* PlanAuthorityMutationPort of LocalPlanAuthorityAdapter.                 *)
(*                                                                         *)
(* A worker is one call of attempt_external_mutation, recover_one or of    *)
(* the lifecycle's evidence marker, in any thread or process.  The store   *)
(* is a file behind a lock: each store call is one atomic step, and a      *)
(* worker keeps the entry it read across later steps, so what it holds may *)
(* be stale when it is used.  A crash loses the worker's copy, never the   *)
(* store or the document.                                                  *)
(***************************************************************************)
EXTENDS Naturals, JournalRules

CONSTANTS
    JournalIds,   \* journal identifiers
    Workers,      \* concurrent calls into the executor
    Digests,      \* raw digests of a Plan document
    NoJournal,    \* a worker that serves no journal entry
    Intents,      \* the records callers put in a journal (a subset of Intent)
    Edits         \* what a writer other than this system may leave in the document

\* JournalRecord: the fields the executor and the port read.  replace is the
\* port's allow_existing_replacement; admissible is FALSE for a request the
\* port refuses before it reads the document.
Intent == [authority : Digests \cup {NoDigest},
           original : Digests \cup {NoDigest},
           candidate : Digests,
           replace : BOOLEAN,
           admissible : BOOLEAN]

ASSUME DigestAssumption ==
    /\ EmptyDoc \in Digests
    /\ NoDigest \notin Digests
    /\ NoJournal \notin JournalIds
    /\ Edits \subseteq Digests

ASSUME IntentAssumption ==
    /\ Intents \subseteq Intent
    /\ \A i \in Intents : i.candidate # EmptyDoc

VARIABLES
    journal,   \* the durable store: state, revision and last readback per entry
    intent,    \* the immutable part of each entry's record
    plan,      \* the raw digest of the Plan document
    worker,    \* what each call in flight is about to do and what it holds
    attempts,  \* history: calls of port.mutate per entry
    landed     \* history: did the call write the document

vars == <<journal, intent, plan, worker, attempts, landed>>

---------------------------------------------------------------------------
(* The journal's rules are in JournalRules. *)

\* authority_observed_raw_digest or original_raw_digest
OriginalDigest(i) == IF i.authority # NoDigest THEN i.authority ELSE i.original

---------------------------------------------------------------------------
(* Types and the initial state. *)

Entry == [state : JournalState \cup {"ABSENT"},
          revision : Nat,
          observed : Digests \cup {NoDigest},
          marked : BOOLEAN]

AbsentEntry == [state |-> "ABSENT", revision |-> 0,
                observed |-> NoDigest, marked |-> FALSE]

AbsentIntent == [authority |-> NoDigest, original |-> NoDigest,
                 candidate |-> EmptyDoc, replace |-> FALSE,
                 admissible |-> FALSE]

Step == {"idle", "claim", "mutate", "outcome", "verify", "observe",
         "verdict", "discard", "reconcile", "reverify", "evidence"}

Call == [pc : Step,
         id : JournalIds \cup {NoJournal},
         state : JournalState \cup {"ABSENT"},
         revision : Nat,
         target : JournalState \cup {"ABSENT"},
         observed : Digests \cup {NoDigest}]

Idle == [pc |-> "idle", id |-> NoJournal, state |-> "ABSENT", revision |-> 0,
         target |-> "ABSENT", observed |-> NoDigest]

Init ==
    /\ journal = [j \in JournalIds |-> AbsentEntry]
    /\ intent = [j \in JournalIds |-> AbsentIntent]
    /\ plan \in Digests
    /\ worker = [w \in Workers |-> Idle]
    /\ attempts = [j \in JournalIds |-> 0]
    /\ landed = [j \in JournalIds |-> FALSE]

---------------------------------------------------------------------------
(* DurableJournalStore: create and compare-and-set. *)

\* Mutant: an existing id is overwritten.
StoreOverwrites(j, i) ==
    /\ journal' = [journal EXCEPT ![j] = [state |-> "PREPARED", revision |-> 1,
                                          observed |-> NoDigest,
                                          marked |-> FALSE]]
    /\ intent' = [intent EXCEPT ![j] = i]

\* create_prepared: refused when the id exists.
Store(j, i) ==
    /\ journal[j].state = "ABSENT"
    /\ journal' = [journal EXCEPT ![j] = [state |-> "PREPARED", revision |-> 1,
                                          observed |-> NoDigest,
                                          marked |-> FALSE]]
    /\ intent' = [intent EXCEPT ![j] = i]

\* Mutant: a blind write instead of a compare-and-set.
CasBlind(w, target) == target \in AllowedTransitions(worker[w].state)

\* The revision and the state the worker holds are still the durable ones, and
\* the state machine allows the step.
CasAccepts(w, target) ==
    LET call == worker[w]
        current == journal[call.id] IN
    /\ current.revision = call.revision
    /\ current.state = call.state
    /\ target \in AllowedTransitions(call.state)

\* cas_transition: one durable step; a supplied readback replaces the old one.
cas_transition(w, target, observed) ==
    LET j == worker[w].id IN
    /\ CasAccepts(w, target)
    /\ journal' = [journal EXCEPT ![j] =
                     [state |-> target,
                      revision |-> @.revision + 1,
                      observed |-> IF observed # NoDigest THEN observed ELSE @.observed,
                      marked |-> @.marked]]

\* The worker goes on with the entry the store returned.
Continue(w, pc, state, target, observed) ==
    worker' = [worker EXCEPT ![w] =
                 [pc |-> pc, id |-> @.id, state |-> state,
                  revision |-> @.revision + 1,
                  target |-> target, observed |-> observed]]

\* The worker moves to its next statement with the same entry in hand.
Proceed(w, pc, target, observed) ==
    worker' = [worker EXCEPT ![w] =
                 [pc |-> pc, id |-> @.id, state |-> @.state,
                  revision |-> @.revision,
                  target |-> target, observed |-> observed]]

Return(w) == worker' = [worker EXCEPT ![w] = Idle]

Load(w, j, pc) ==
    /\ worker[w].pc = "idle"
    /\ worker' = [worker EXCEPT ![w] =
                    [pc |-> pc, id |-> j, state |-> journal[j].state,
                     revision |-> journal[j].revision,
                     target |-> "ABSENT", observed |-> NoDigest]]

At(w, pc) == worker[w].pc = pc

---------------------------------------------------------------------------
(* Creating entries. *)

CreatePrepared(j, i) ==
    /\ Store(j, i)
    /\ UNCHANGED <<plan, worker, attempts, landed>>

\* create_retry_journal: a new entry for a RETRYABLE_NO_EFFECT one, with the
\* authority and candidate digests the caller re-established or the old ones.
\* The call is accepted only with the four fresh-authorization facts and a
\* lease other than the old one; a refused call changes nothing.
CreateRetry(j, k, authority, candidate) ==
    /\ journal[j].state = "RETRYABLE_NO_EFFECT"
    /\ Store(k, [authority |-> authority, original |-> intent[j].authority,
                 candidate |-> candidate, replace |-> intent[j].replace,
                 admissible |-> intent[j].admissible])
    /\ UNCHANGED <<plan, worker, attempts, landed>>

---------------------------------------------------------------------------
(* attempt_external_mutation. *)

AttemptLoad(w, j) ==
    /\ journal[j].state = "PREPARED"
    /\ Load(w, j, "claim")
    /\ UNCHANGED <<journal, intent, plan, attempts, landed>>

\* Mutant: the attempt goes on although APPLYING was not persisted.
ClaimUnpersisted(w) ==
    /\ At(w, "claim")
    /\ Continue(w, "mutate", "APPLYING", "ABSENT", NoDigest)
    /\ UNCHANGED <<journal, intent, plan, attempts, landed>>

\* Durable APPLYING; only the winner of this compare-and-set mutates.
ClaimApplying(w) ==
    /\ At(w, "claim")
    /\ cas_transition(w, "APPLYING", NoDigest)
    /\ Continue(w, "mutate", "APPLYING", "ABSENT", NoDigest)
    /\ UNCHANGED <<intent, plan, attempts, landed>>

\* Known rejection or stale authority: no effect, FAILED_NO_EFFECT follows.
MutateRejected(w) ==
    LET j == worker[w].id IN
    /\ At(w, "mutate")
    /\ PortRefuses(intent[j], plan)
    /\ attempts' = [attempts EXCEPT ![j] = @ + 1]
    /\ Proceed(w, "outcome", "FAILED_NO_EFFECT", NoDigest)
    /\ UNCHANGED <<journal, intent, plan, landed>>

\* The port replaces the document, or finds the candidate already there.
Effect(w) ==
    LET j == worker[w].id IN
    /\ At(w, "mutate")
    /\ ~PortRefuses(intent[j], plan)
    /\ attempts' = [attempts EXCEPT ![j] = @ + 1]
    /\ landed' = [landed EXCEPT ![j] = IF plan = intent[j].candidate THEN @ ELSE TRUE]
    /\ plan' = intent[j].candidate

MutateApplied(w) ==
    /\ Effect(w)
    /\ Proceed(w, "verify", "ABSENT", NoDigest)
    /\ UNCHANGED <<journal, intent>>

\* Mutant: a lost answer is taken for a known rejection.
LostAnswerIsRejection(w) ==
    /\ Effect(w)
    /\ Proceed(w, "outcome", "FAILED_NO_EFFECT", NoDigest)
    /\ UNCHANGED <<journal, intent>>

\* The effect is there, but a timeout or an exception hides the answer.
MutateAnswerLost(w) ==
    /\ Effect(w)
    /\ Proceed(w, "outcome", "OUTCOME_UNKNOWN", NoDigest)
    /\ UNCHANGED <<journal, intent>>

\* An exception, a timeout or an unknown answer before any effect.
MutateUnknown(w) ==
    LET j == worker[w].id IN
    /\ At(w, "mutate")
    /\ attempts' = [attempts EXCEPT ![j] = @ + 1]
    /\ Proceed(w, "outcome", "OUTCOME_UNKNOWN", NoDigest)
    /\ UNCHANGED <<journal, intent, plan, landed>>

PersistOutcome(w) ==
    /\ At(w, "outcome")
    /\ cas_transition(w, worker[w].target, NoDigest)
    /\ Return(w)
    /\ UNCHANGED <<intent, plan, attempts, landed>>

\* Verify-after-write.
Verify(w) ==
    /\ At(w, "verify")
    /\ OriginalDigest(intent[worker[w].id]) # NoDigest
    /\ Proceed(w, "observe", "ABSENT", plan)
    /\ UNCHANGED <<journal, intent, plan, attempts, landed>>

\* The readback raises, or the record has no original digest to compare with.
VerifyFails(w) ==
    /\ At(w, "verify")
    /\ Proceed(w, "outcome", "OUTCOME_UNKNOWN", NoDigest)
    /\ UNCHANGED <<journal, intent, plan, attempts, landed>>

\* APPLYING -> RECONCILING with the readback, then the verdict in the same call.
PersistObserved(w) ==
    LET call == worker[w] IN
    /\ At(w, "observe")
    /\ cas_transition(w, "RECONCILING", call.observed)
    /\ Continue(w, "verdict", "RECONCILING", "ABSENT", call.observed)
    /\ UNCHANGED <<intent, plan, attempts, landed>>

\* RECONCILING -> the classified terminal state (attempt and recovery alike).
PersistVerdict(w) ==
    LET call == worker[w]
        i == intent[call.id] IN
    /\ At(w, "verdict")
    /\ cas_transition(w, Classify(call.observed, OriginalDigest(i), i.candidate),
                      call.observed)
    /\ Return(w)
    /\ UNCHANGED <<intent, plan, attempts, landed>>

---------------------------------------------------------------------------
(* recover_one, called for one id or by recover_all for each eligible one. *)

RecoverLoad(w, j) ==
    /\ journal[j].state \in RecoveryEligible
    /\ Load(w, j, CASE journal[j].state = "PREPARED" -> "discard"
                    [] journal[j].state = "RECONCILING" -> "reverify"
                    [] OTHER -> "reconcile")
    /\ UNCHANGED <<journal, intent, plan, attempts, landed>>

\* J1: PREPARED without APPLYING is FAILED_NO_EFFECT.
DiscardPrepared(w) ==
    /\ At(w, "discard")
    /\ cas_transition(w, "FAILED_NO_EFFECT", NoDigest)
    /\ Return(w)
    /\ UNCHANGED <<intent, plan, attempts, landed>>

\* A stranded APPLYING or OUTCOME_UNKNOWN entry enters RECONCILING.
EnterReconciling(w) ==
    /\ At(w, "reconcile")
    /\ cas_transition(w, "RECONCILING", NoDigest)
    /\ Continue(w, "reverify", "RECONCILING", "ABSENT", NoDigest)
    /\ UNCHANGED <<intent, plan, attempts, landed>>

\* Mutant: recovery repeats the write instead of reading the document.
RetryBlindly(w) ==
    /\ At(w, "reverify")
    /\ Proceed(w, "mutate", "ABSENT", NoDigest)
    /\ UNCHANGED <<journal, intent, plan, attempts, landed>>

\* _classify_and_persist reads the document; a missing digest is a CONFLICT,
\* which Classify gives.
Reverify(w) ==
    /\ At(w, "reverify")
    /\ Proceed(w, "verdict", "ABSENT", plan)
    /\ UNCHANGED <<journal, intent, plan, attempts, landed>>

---------------------------------------------------------------------------
(* The lifecycle marks the evidence of a verified entry. *)

EvidenceLoad(w, j) ==
    /\ journal[j].state \in {"VERIFIED", "VERIFIED_RECOVERED"}
    /\ Load(w, j, "evidence")
    /\ UNCHANGED <<journal, intent, plan, attempts, landed>>

\* cas_update_evidence compares the revision alone; the same evidence again
\* writes nothing.
UpdateEvidence(w) ==
    LET call == worker[w] IN
    /\ At(w, "evidence")
    /\ journal[call.id].revision = call.revision
    /\ journal' = IF journal[call.id].marked THEN journal
                  ELSE [journal EXCEPT ![call.id] =
                          [state |-> @.state, revision |-> @.revision + 1,
                           observed |-> @.observed, marked |-> TRUE]]
    /\ Return(w)
    /\ UNCHANGED <<intent, plan, attempts, landed>>

---------------------------------------------------------------------------
(* Failures and the outside world. *)

\* A compare-and-set is refused as stale, or the store cannot persist it: the
\* durable entry stays and the call returns or raises.  A recovery readback
\* that raises leaves RECONCILING in the same way.
StoreOrReadFails(w) ==
    /\ worker[w].pc \in {"claim", "outcome", "observe", "verdict", "discard",
                         "reconcile", "reverify", "evidence"}
    /\ Return(w)
    /\ UNCHANGED <<journal, intent, plan, attempts, landed>>

\* The process dies between any two steps.
Crash(w) ==
    /\ worker[w].pc # "idle"
    /\ Return(w)
    /\ UNCHANGED <<journal, intent, plan, attempts, landed>>

\* Someone else changes the document.
Edit(d) ==
    /\ plan # d
    /\ plan' = d
    /\ UNCHANGED <<journal, intent, worker, attempts, landed>>

---------------------------------------------------------------------------

Attempt(w) ==
    \/ \E j \in JournalIds : AttemptLoad(w, j)
    \/ ClaimApplying(w)
    \/ MutateRejected(w)
    \/ MutateApplied(w)
    \/ MutateAnswerLost(w)
    \/ MutateUnknown(w)
    \/ PersistOutcome(w)
    \/ Verify(w)
    \/ VerifyFails(w)
    \/ PersistObserved(w)
    \/ PersistVerdict(w)

Recover(w) ==
    \/ \E j \in JournalIds : RecoverLoad(w, j)
    \/ DiscardPrepared(w)
    \/ EnterReconciling(w)
    \/ Reverify(w)

MarkEvidence(w) ==
    \/ \E j \in JournalIds : EvidenceLoad(w, j)
    \/ UpdateEvidence(w)

Create ==
    \/ \E j \in JournalIds, i \in Intents : CreatePrepared(j, i)
    \/ \E j, k \in JournalIds :
         \E authority \in Digests \cup {intent[j].authority},
            candidate \in {i.candidate : i \in Intents} \cup {intent[j].candidate} :
            CreateRetry(j, k, authority, candidate)

Next ==
    \/ Create
    \/ \E w \in Workers : Attempt(w) \/ Recover(w) \/ MarkEvidence(w)
                          \/ StoreOrReadFails(w) \/ Crash(w)
    \/ \E d \in Edits : Edit(d)

Spec == Init /\ [][Next]_vars

\* A call that is running takes its next step, or fails.
InFlight(w) ==
    \/ ClaimApplying(w) \/ MutateRejected(w) \/ MutateApplied(w)
    \/ MutateAnswerLost(w) \/ MutateUnknown(w) \/ PersistOutcome(w)
    \/ Verify(w) \/ VerifyFails(w) \/ PersistObserved(w) \/ PersistVerdict(w)
    \/ DiscardPrepared(w) \/ EnterReconciling(w) \/ Reverify(w)
    \/ UpdateEvidence(w) \/ StoreOrReadFails(w) \/ Crash(w)

\* No call hangs; recovery is invoked again and again (recover_all is an
\* explicit call, not a daemon), and neither its store writes nor its
\* readbacks fail for ever.
RecoveryFairness ==
    \A w \in Workers :
        /\ WF_vars(InFlight(w))
        /\ \A j \in JournalIds : SF_vars(RecoverLoad(w, j))
        /\ SF_vars(DiscardPrepared(w))
        /\ SF_vars(EnterReconciling(w))
        /\ SF_vars(Reverify(w))
        /\ SF_vars(PersistVerdict(w))

FairSpec == Spec /\ RecoveryFairness

---------------------------------------------------------------------------
(* Properties. *)

TypeOK ==
    /\ journal \in [JournalIds -> Entry]
    /\ intent \in [JournalIds -> Intent]
    /\ plan \in Digests
    /\ worker \in [Workers -> Call]
    /\ attempts \in [JournalIds -> Nat]
    /\ landed \in [JournalIds -> BOOLEAN]

\* What a call in flight knows about the entry it holds.
HeldInv ==
    \A w \in Workers :
        LET call == worker[w] IN
        /\ call.pc # "idle" => call.id \in JournalIds
        /\ call.pc \in {"claim", "discard"} => call.state = "PREPARED"
        /\ call.pc \in {"mutate", "outcome", "verify", "observe"} => call.state = "APPLYING"
        /\ call.pc \in {"verdict", "reverify"} => call.state = "RECONCILING"
        /\ call.pc = "reconcile" => call.state \in {"APPLYING", "OUTCOME_UNKNOWN"}
        /\ call.pc = "outcome" => call.target \in {"FAILED_NO_EFFECT", "OUTCOME_UNKNOWN"}
        /\ call.pc \in {"observe", "verdict"} => call.observed \in Digests

\* The winner of the claim, until it has left APPLYING.
Owner(w) == worker[w].pc \in {"mutate", "outcome", "verify", "observe"}

\* An entry has one owner at most, and it is durably past PREPARED.
OwnerInv ==
    /\ \A w \in Workers :
         Owner(w) => journal[worker[w].id].state \notin {"ABSENT", "PREPARED"}
    /\ \A v, w \in Workers :
         Owner(v) /\ Owner(w) /\ worker[v].id = worker[w].id => v = w

\* How the history of an entry's attempt follows its owner's steps.
EffectInv ==
    /\ \A j \in JournalIds : landed[j] => attempts[j] = 1
    /\ \A w \in Workers :
         LET call == worker[w] IN
         /\ call.pc = "mutate" =>
               /\ attempts[call.id] = 0
               /\ journal[call.id].state # "FAILED_NO_EFFECT"
         /\ call.pc = "outcome" /\ call.target = "FAILED_NO_EFFECT" =>
               ~landed[call.id]

\* "perform at most one external mutation attempt": whatever the workers that
\* attempt, recover and crash do, port.mutate is called at most once for a
\* journal entry, and never before APPLYING is durable.
AtMostOneAttempt ==
    \A j \in JournalIds :
        /\ attempts[j] <= 1
        /\ journal[j].state \in {"ABSENT", "PREPARED"} => attempts[j] = 0

\* FAILED_NO_EFFECT is the truth: the entry's attempt wrote nothing, and (as
\* landed never resets) no attempt still in flight will.  Recovery concludes
\* it from PREPARED without reading the document.
NoEffectVerdictIsTrue ==
    \A j \in JournalIds : journal[j].state = "FAILED_NO_EFFECT" => ~landed[j]

\* A verdict always agrees with the readback recorded beside it, although two
\* workers may classify different readbacks of one entry: VERIFIED_RECOVERED
\* exactly on the candidate, RETRYABLE_NO_EFFECT on an original that differs
\* from it.
VerdictMatchesReadback ==
    \A j \in JournalIds :
        LET e == journal[j]
            i == intent[j] IN
        /\ e.state = "VERIFIED_RECOVERED" => e.observed = i.candidate
        /\ e.state = "RETRYABLE_NO_EFFECT" =>
              /\ e.observed = OriginalDigest(i)
              /\ e.observed # i.candidate

\* The inductive invariant behind the three properties above.
IndInv ==
    /\ TypeOK
    /\ HeldInv
    /\ OwnerInv
    /\ EffectInv
    /\ AtMostOneAttempt
    /\ NoEffectVerdictIsTrue
    /\ VerdictMatchesReadback

\* TERMINAL_STATE_REPROCESSING_ALLOWED = False: a worker that read the entry
\* before it settled cannot move it afterwards, nor change what was observed.
SettledForever ==
    [][\A j \in JournalIds :
          journal[j].state \in Terminal =>
             /\ journal'[j].state = journal[j].state
             /\ journal'[j].observed = journal[j].observed]_vars

\* EXTERNAL_WRITE_BEFORE_APPLYING_DURABLE = no: this system changes the
\* document only for an entry that is durably past PREPARED, and puts exactly
\* that entry's candidate in the place of the digest it was authorized for.
WriteOnlyAfterDurableApplying ==
    [][plan' # plan =>
         \/ plan' \in Edits
         \/ \E j \in JournalIds :
              /\ journal[j].state \notin {"ABSENT", "PREPARED", "FAILED_NO_EFFECT"}
              /\ plan' = intent[j].candidate
              /\ intent[j].authority \in {plan, NoDigest}]_vars

\* The journal seen as a ledger of attempts.
VerdictOf(s) ==
    CASE s = "ABSENT" -> "none"
      [] s \in {"VERIFIED", "VERIFIED_RECOVERED"} -> "success"
      [] s = "FAILED_NO_EFFECT" -> "no_effect"
      [] s = "RETRYABLE_NO_EFFECT" -> "retryable"
      [] s = "CONFLICT" -> "conflict"
      [] OTHER -> "pending"

Ledger == INSTANCE AttemptLedger
            WITH Entries <- JournalIds,
                 verdict <- [j \in JournalIds |-> VerdictOf(journal[j].state)],
                 tried <- attempts,
                 applied <- landed

\* The executor and its recovery implement the ledger: every interleaving of
\* their steps is a history of entries tried once and settled once.
ImplementsLedger == Ledger!Spec

\* Every entry that was ever made durable settles, through crashes, lost
\* answers, failing writes of the store and failing readbacks.
EveryEntrySettles ==
    \A j \in JournalIds :
        journal[j].state # "ABSENT" ~> journal[j].state \in Terminal

=============================================================================
