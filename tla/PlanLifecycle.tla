--------------------------- MODULE PlanLifecycle ---------------------------
(***************************************************************************)
(* LocalPlanLifecycleCoordinator (governance/local_lifecycle.py): one Plan, *)
(* kept in three places that no transaction spans -- the Plan document, the *)
(* mutation journal and the Project Governance record (SQLite, compare and *)
(* swap on its revision) -- and, for a cutover, the GitHub body it came    *)
(* from.  initialize, amend, close_local_plan, retire, cutover, recover,   *)
(* recover_active_local_plan_orphan_body and recover_retired_final_body    *)
(* all run the same pipeline, one store or document access per step:       *)
(*                                                                         *)
(*   read the record, find the journal entry of the idempotency key, read  *)
(*   the document, create the entry, claim it, write the document, settle  *)
(*   the entry, verify the document, read the record again, swap it, read  *)
(*   it back, mark the entry.                                              *)
(*                                                                         *)
(* What a call has read stays in `call` and may be stale when it is used.  *)
(* Every early return of the code is a guard of a step here: the call then *)
(* goes nowhere but Abort, which stands for a returned failure, an         *)
(* exception and the death of the process alike, since none of them        *)
(* changes a store.  Journal.tla models the executor's own steps; here     *)
(* they are claim, mutate, settle and recover_one, each atomic.            *)
(***************************************************************************)
EXTENDS Naturals, Sequences, JournalRules

CONSTANTS
    Callers,         \* concurrent calls of the coordinator
    Keys,            \* idempotency keys
    Digests,         \* raw digests of Plan bodies, EmptyDoc among them
    PlanRevision,    \* the PLAN_REVISION number each body declares
    TerminalBodies,  \* bodies that pass the terminal field checks
    Scenarios        \* what surrounds the coordinator: see Scenario

Statuses == {"absent", "active", "retired"}
Authorities == {"none", "github_issue", "local_governance"}

\* ProjectPlanRecord: lifecycle_state, source_kind, source_digest, revision.
Record == [status : Statuses, kind : Authorities,
           digest : Digests \cup {NoDigest}, revision : Nat]

AbsentRecord == [status |-> "absent", kind |-> "none",
                 digest |-> NoDigest, revision |-> 0]

Kinds == {"init", "amendment", "cutover", "orphan", "final"}
Ops == {"init", "amend", "close", "cutover", "orphan", "final",
        "recover", "retire"}

\* What a caller passes.  expected is the digest of expected_authority, or of
\* the source binding of a cutover; revision 0 is expected_plan_revision None.
Request == [op : Ops, key : Keys, candidate : Digests \cup {NoDigest},
            expected : Digests \cup {NoDigest}, revision : Nat]

\* The surroundings of a behaviour: the Plan record it starts from, the calls
\* that are made, and the bodies other writers may leave in the document and
\* on GitHub.
Scenario == [start : Record, requests : SUBSET Request,
             documentEdits : SUBSET Digests, sourceEdits : SUBSET Digests]

ASSUME LifecycleAssumption ==
    /\ EmptyDoc \in Digests
    /\ NoDigest \notin Digests
    /\ PlanRevision \in [Digests -> Nat]
    /\ TerminalBodies \subseteq Digests \ {EmptyDoc}
    /\ Scenarios \subseteq Scenario

KindOf(op) == IF op = "amend" THEN "amendment" ELSE op

\* _request_identity and _active_orphan_recovery_identity: what the entry's
\* journal_id and request_identity are digests of.  Only the orphan recovery's
\* identity covers expected_plan_revision.
Identity(r) == [kind |-> KindOf(r.op), key |-> r.key,
                candidate |-> r.candidate, expected |-> r.expected,
                revision |-> IF r.op = "orphan" THEN r.revision ELSE 0]

Requests == UNION {s.requests : s \in Scenarios}

\* A Plan is unregistered or at its first version when a behaviour starts
\* (put_plan), and no body an operation takes is empty (_bounded_body).
ASSUME PlanAssumption ==
    /\ \A s \in Scenarios :
          \/ s.start = AbsentRecord
          \/ /\ s.start.status # "absent" /\ s.start.kind # "none"
             /\ s.start.digest \in Digests \ {EmptyDoc} /\ s.start.revision = 1
    /\ \A r \in Requests : KindOf(r.op) \in Kinds => r.candidate \in Digests \ {EmptyDoc}

Identities == {Identity(r) : r \in {q \in Requests : KindOf(q.op) \in Kinds}}

NoIdentity == [kind |-> "none", key |-> "none", candidate |-> NoDigest,
               expected |-> NoDigest, revision |-> 0]

\* Who stored a version of the record, when no journal entry did.
ByRetire == [NoIdentity EXCEPT !.kind = "retire"]
ByRegistration == [NoIdentity EXCEPT !.kind = "registered"]

VARIABLES
    scenario,   \* chosen at the start
    document,   \* digest of the local Plan document
    source,     \* digest of the GitHub body
    record,     \* the Project Governance record of the Plan
    entry,      \* the journal, by request identity
    call,       \* the calls in flight and what they have read
    timeline,   \* history: every version of the record, with who stored it
    reported    \* history: the successes returned to callers

vars == <<scenario, document, source, record, entry, call, timeline, reported>>

NoEvidence == [bound |-> 0, retired |-> 0]

AbsentEntry == [state |-> "ABSENT", original |-> NoDigest, subject |-> 0,
                evidence |-> NoEvidence]

Idle == [pc |-> "idle", req |-> [op |-> "none"], id |-> NoIdentity,
         current |-> AbsentRecord, observed |-> NoDigest, state |-> "ABSENT",
         evidence |-> NoEvidence, answer |-> "none"]

Init ==
    /\ scenario \in Scenarios
    /\ record = scenario.start
    /\ document = IF record.kind = "local_governance" THEN record.digest
                  ELSE EmptyDoc
    /\ source = record.digest
    /\ entry = [i \in Identities |-> AbsentEntry]
    /\ call = [c \in Callers |-> Idle]
    /\ timeline = IF record.status = "absent" THEN <<>>
                  ELSE <<[record |-> record, by |-> ByRegistration]>>
    /\ reported = {}

---------------------------------------------------------------------------
(* Reading, admitting and completing: the decisions of the coordinator. *)

Success == {"VERIFIED", "VERIFIED_RECOVERED"}
Durable == {i \in Identities : entry[i].state # "ABSENT"}

\* _source_binding_matches against a binding with this kind and digest.
Bound(cur, kind, digest) == cur.kind = kind /\ cur.digest = digest
BoundLocally(cur, digest) == Bound(cur, "local_governance", digest)

\* find_by_idempotency
Matches(key) == {i \in Durable : i.key = key}

\* _validate_terminal_plan_body: terminal fields, and the next PLAN_REVISION.
AdvancesTo(body, previous) ==
    /\ body \in TerminalBodies
    /\ body # previous
    /\ PlanRevision[body] = PlanRevision[previous] + 1

\* recover_active_local_plan_orphan_body and recover_retired_final_body: the
\* checks on the record before they look for an entry.
OrphanMayStart(r, cur) == cur.status = "active" /\ r.revision # 0

FinalMayStart(r, cur) ==
    /\ cur.status = "retired"
    /\ r.revision \in {0, cur.revision}
    /\ BoundLocally(cur, r.expected)

MayStart(r, cur) ==
    \/ r.op \in {"init", "amend"}
    \/ r.op = "close" /\ cur.status = "active"
    \/ r.op = "cutover" /\ cur.status # "absent"
    \/ r.op = "orphan" /\ OrphanMayStart(r, cur)
    \/ r.op = "final" /\ FinalMayStart(r, cur)

\* The checks that remain when the key has no entry yet, by operation.
InitMayCreate(cur) == cur.status = "absent"

AmendMayCreate(r, cur) ==
    /\ cur.status = "active"
    /\ cur.revision = r.revision
    /\ BoundLocally(cur, r.expected)

CutoverMayCreate(r, cur) ==
    /\ cur.status = "active"
    /\ r.revision \in {0, cur.revision}
    /\ Bound(cur, "github_issue", r.expected)

\* No entry of the Plan has the body as its candidate, and none is open.
NoLineage(body) ==
    \A i \in Durable : i.candidate # body /\ entry[i].state \in Terminal

OrphanMayCreate(r, cur) ==
    /\ NoLineage(r.candidate)
    /\ r.expected # r.candidate
    /\ cur.revision = r.revision
    /\ BoundLocally(cur, r.expected)

MayCreate(r, cur) ==
    \/ r.op = "init" /\ InitMayCreate(cur)
    \/ r.op = "amend" /\ AmendMayCreate(r, cur)
    \/ r.op = "cutover" /\ CutoverMayCreate(r, cur)
    \/ r.op = "orphan" /\ OrphanMayCreate(r, cur)
    \/ r.op = "final"

\* The checks on the document an operation finds.
AcceptsDocument(r, d) ==
    CASE r.op = "amend" -> d # EmptyDoc /\ d = r.expected
      [] r.op = "orphan" -> d # EmptyDoc /\ d = r.candidate
      [] r.op = "final" -> d = r.expected /\ AdvancesTo(r.candidate, d)
      [] OTHER -> TRUE

\* The intent the port sees: only replacing kinds may overwrite a document.
PortIntent(i) == [authority |-> entry[i].original, candidate |-> i.candidate,
                  replace |-> i.kind \in {"amendment", "final", "orphan"},
                  admissible |-> TRUE]

\* May entry i be bound to the record cur?  _complete and its siblings, by the
\* kind of the entry.
InitMayBind(cur) == cur.status = "absent"

\* Mutant: an amendment is bound whatever version of the record it finds.
AmendmentMayBindAnyRevision(i, cur) ==
    cur.status = "active" /\ BoundLocally(cur, i.expected)

AmendmentMayBind(i, cur) ==
    /\ cur.status = "active"
    /\ cur.revision = entry[i].subject
    /\ BoundLocally(cur, i.expected)
    /\ cur.digest = entry[i].original

OrphanMayBind(i, cur) ==
    /\ cur.status = "active"
    /\ cur.revision = entry[i].subject
    /\ BoundLocally(cur, i.expected)
    /\ i.expected # i.candidate

FinalMayBind(i, cur) ==
    /\ cur.status = "retired"
    /\ cur.revision = entry[i].subject
    /\ BoundLocally(cur, i.expected)

CutoverMayBind(i, cur) ==
    /\ cur.status = "active"
    /\ cur.revision = entry[i].subject
    /\ Bound(cur, "github_issue", i.expected)

MaySwap(i, cur) ==
    \/ i.kind = "init" /\ InitMayBind(cur)
    \/ i.kind = "amendment" /\ AmendmentMayBind(i, cur)
    \/ i.kind = "orphan" /\ OrphanMayBind(i, cur)
    \/ i.kind = "final" /\ FinalMayBind(i, cur)
    \/ i.kind = "cutover" /\ CutoverMayBind(i, cur)

\* ... or is it bound already?
AlreadyBound(i, cur) ==
    /\ BoundLocally(cur, i.candidate)
    /\ cur.status = IF i.kind = "final" THEN "retired" ELSE "active"

\* Mutant: any local binding will do.
BoundByAnyone(i, cur) == cur.kind = "local_governance"

\* The same question after a lost compare-and-swap: amendment and cutover ask
\* for the binding alone, not for an active Plan.
BoundByAnother(i, cur) ==
    /\ BoundLocally(cur, i.candidate)
    /\ CASE i.kind = "final" -> cur.status = "retired"
         [] i.kind \in {"init", "orphan"} -> cur.status = "active"
         [] OTHER -> TRUE

---------------------------------------------------------------------------
(* Steps of a call. *)

At(c, pc) == call[c].pc = pc

Goto(c, pc) == call' = [call EXCEPT ![c] = [@ EXCEPT !.pc = pc]]

GotoWith(c, pc, cur) ==
    call' = [call EXCEPT ![c] = [@ EXCEPT !.pc = pc, !.current = cur]]

\* The call returns VERIFIED with the record it holds.
Report(c, id, cur) ==
    /\ call' = [call EXCEPT ![c] = Idle]
    /\ reported' = reported \cup
         {[op |-> call[c].req.op, id |-> id, revision |-> cur.revision]}

\* A committed write of the record store.
Commit(new, by) ==
    /\ record' = new
    /\ timeline' = Append(timeline, [record |-> new, by |-> by])

Stores == <<scenario, document, source, record, entry, timeline, reported>>

\* The operation reads the record and makes its first checks.
Begin(c, r) ==
    /\ At(c, "idle")
    /\ MayStart(r, record)
    /\ call' = [call EXCEPT ![c] =
         [Idle EXCEPT !.pc = CASE r.op = "cutover" -> "source"
                               [] r.op = "close" -> "close_read"
                               [] r.op = "amend" -> "amend"
                               [] r.op \in {"orphan", "final"} -> "read"
                               [] OTHER -> "lookup",
                      !.req = r, !.current = record]]
    /\ UNCHANGED Stores

\* cutover: the GitHub body must still be the bound one.
ReadSource(c) ==
    /\ At(c, "source")
    /\ source = call[c].req.expected
    /\ Goto(c, "lookup")
    /\ UNCHANGED Stores

\* close_local_plan: the document is the bound one and the candidate advances
\* it; a missing expected revision is the one just read.
CloseRead(c) ==
    LET r == call[c].req
        cur == call[c].current IN
    /\ At(c, "close_read")
    /\ document = cur.digest
    /\ AdvancesTo(r.candidate, document)
    /\ call' = [call EXCEPT ![c] =
         [@ EXCEPT !.pc = "amend",
                   !.req.revision = IF r.revision = 0 THEN cur.revision ELSE r.revision]]
    /\ UNCHANGED Stores

\* _verify_plan_amendment_decision wants a plan_decision_receipt in the event.
\* amend's callers put one there; the event close_local_plan makes has none.
CarriesDecision(op) == op = "amend"

\* amend, called by a caller or by close_local_plan, reads the record.
Amend(c) ==
    /\ At(c, "amend")
    /\ call[c].req.revision # 0
    /\ CarriesDecision(call[c].req.op)
    /\ GotoWith(c, "lookup", record)
    /\ UNCHANGED Stores

ReadDocument(c) ==
    LET r == call[c].req IN
    /\ At(c, "read")
    /\ AcceptsDocument(r, document)
    /\ call' = [call EXCEPT ![c] =
         [@ EXCEPT !.pc = IF r.op \in {"orphan", "final"} THEN "lookup"
                          ELSE "create",
                   !.observed = document]]
    /\ UNCHANGED Stores

\* _find_existing: nothing under this key.
LookupNew(c) ==
    LET r == call[c].req IN
    /\ At(c, "lookup")
    /\ Matches(r.key) = {}
    /\ MayCreate(r, call[c].current)
    /\ Goto(c, IF r.op \in {"orphan", "final"} THEN "create" ELSE "read")
    /\ UNCHANGED Stores

\* An orphan recovery finds that the record names the body already.
LookupBound(c) ==
    LET r == call[c].req
        cur == call[c].current IN
    /\ At(c, "lookup")
    /\ r.op = "orphan"
    /\ Matches(r.key) = {}
    /\ NoLineage(r.candidate)
    /\ BoundLocally(cur, r.candidate)
    /\ Report(c, Identity(r), cur)
    /\ UNCHANGED <<scenario, document, source, record, entry, timeline>>

\* The call takes up an existing entry.  An orphan recovery still PREPARED is
\* attempted; any other entry is resumed.
Hold(c, i, r) ==
    call' = [call EXCEPT ![c] =
      [@ EXCEPT !.pc = IF i.kind = "orphan" /\ entry[i].state = "PREPARED"
                       THEN "claim" ELSE "resume",
                !.req = r, !.id = i, !.state = entry[i].state,
                !.evidence = entry[i].evidence, !.observed = NoDigest]]

\* _find_existing: the one entry under this key is this very request.
LookupExisting(c) ==
    LET r == call[c].req IN
    /\ At(c, "lookup")
    /\ Matches(r.key) = {Identity(r)}
    /\ Hold(c, Identity(r), r)
    /\ UNCHANGED Stores

\* recover() computes the identity again from the evidence of the entry, where
\* source_binding is kept for a cutover and a final-body recovery only.
RecoveredIdentity(i) ==
    IF i.kind \in {"cutover", "final"} THEN i
    ELSE [i EXCEPT !.expected = NoDigest]

Recover(c, r) ==
    /\ At(c, "idle")
    /\ r.op = "recover"
    /\ \E i \in Identities :
         /\ Matches(r.key) = {i}
         /\ i.kind # "orphan"
         /\ RecoveredIdentity(i) = i
         /\ i.kind \in {"cutover", "final"} => r.expected = i.expected
         /\ Hold(c, i, r)
    /\ UNCHANGED Stores

\* recover() of an orphan recovery calls that operation with the stored facts.
RecoverOrphan(c, r) ==
    /\ At(c, "idle")
    /\ r.op = "recover"
    /\ \E i \in Identities :
         /\ Matches(r.key) = {i}
         /\ i.kind = "orphan"
         /\ LET q == [op |-> "orphan", key |-> r.key, candidate |-> i.candidate,
                      expected |-> i.expected, revision |-> r.revision] IN
            /\ MayStart(q, record)
            /\ call' = [call EXCEPT ![c] = [Idle EXCEPT !.pc = "read", !.req = q,
                                                        !.current = record]]
    /\ UNCHANGED Stores

---------------------------------------------------------------------------
(* _create_and_attempt: the journal and the document. *)

\* create_prepared refuses a journal_id that exists.
CreateEntry(c) ==
    LET i == Identity(call[c].req) IN
    /\ At(c, "create")
    /\ entry[i].state = "ABSENT"
    /\ entry' = [entry EXCEPT ![i] =
         [state |-> "PREPARED", original |-> call[c].observed,
          subject |-> call[c].current.revision, evidence |-> NoEvidence]]
    /\ call' = [call EXCEPT ![c] = [@ EXCEPT !.pc = "claim", !.id = i,
                                             !.observed = NoDigest]]
    /\ UNCHANGED <<scenario, document, source, record, timeline, reported>>

SetState(i, state) == entry' = [entry EXCEPT ![i] = [@ EXCEPT !.state = state]]

\* PREPARED -> APPLYING; whoever loses this compare-and-set stops.
Claim(c) ==
    LET i == call[c].id IN
    /\ At(c, "claim")
    /\ entry[i].state = "PREPARED"
    /\ SetState(i, "APPLYING")
    /\ Goto(c, "mutate")
    /\ UNCHANGED <<scenario, document, source, record, timeline, reported>>

\* The port writes the candidate; its answer arrives or is lost.
MutateLands(c, answer) ==
    LET i == call[c].id IN
    /\ At(c, "mutate")
    /\ ~PortRefuses(PortIntent(i), document)
    /\ answer \in {"applied", "unknown"}
    /\ document' = i.candidate
    /\ call' = [call EXCEPT ![c] = [@ EXCEPT !.pc = "settle", !.answer = answer]]
    /\ UNCHANGED <<scenario, source, record, entry, timeline, reported>>

\* The port refuses, or fails before it writes.
MutateWithoutEffect(c, answer) ==
    LET i == call[c].id IN
    /\ At(c, "mutate")
    /\ answer \in {"rejected", "unknown"}
    /\ answer = "rejected" => PortRefuses(PortIntent(i), document)
    /\ call' = [call EXCEPT ![c] = [@ EXCEPT !.pc = "settle", !.answer = answer]]
    /\ UNCHANGED Stores

\* Mutant: an answer that did not arrive is a rejection.
SettleUnknownAsRejected(c) ==
    LET i == call[c].id
        verdict == IF call[c].answer = "applied"
                   THEN Classify(document, entry[i].original, i.candidate)
                   ELSE "FAILED_NO_EFFECT" IN
    /\ At(c, "settle")
    /\ entry[i].state = "APPLYING"
    /\ SetState(i, verdict)
    /\ call' = [call EXCEPT ![c] =
         IF verdict \in Success THEN [@ EXCEPT !.pc = "verify"] ELSE Idle]
    /\ UNCHANGED <<scenario, document, source, record, timeline, reported>>

\* The answer becomes a journal state; an applied one is read back first.
\* Only a success goes on.
Settle(c) ==
    LET i == call[c].id
        verdict == CASE call[c].answer = "rejected" -> "FAILED_NO_EFFECT"
                     [] call[c].answer = "unknown" -> "OUTCOME_UNKNOWN"
                     [] OTHER -> Classify(document, entry[i].original, i.candidate)
    IN
    /\ At(c, "settle")
    /\ entry[i].state = "APPLYING"
    /\ SetState(i, verdict)
    /\ call' = [call EXCEPT ![c] =
         IF verdict \in Success THEN [@ EXCEPT !.pc = "verify"] ELSE Idle]
    /\ UNCHANGED <<scenario, document, source, record, timeline, reported>>

---------------------------------------------------------------------------
(* _resume. *)

\* The source binding stored with a cutover or a final-body recovery must come
\* with the call: recover_retired_final_body itself does not pass it.
MayResume(c) == call[c].id.kind \in {"cutover", "final"}
                  => call[c].req.op \in {"cutover", "recover"}

\* recover_one settles an entry that was not terminal when it was looked up
\* and still is not; a success goes on if the source binding is there.
ResumeUnsettled(c) ==
    LET i == call[c].id
        verdict == IF entry[i].state = "PREPARED" THEN "FAILED_NO_EFFECT"
                   ELSE Classify(document, entry[i].original, i.candidate) IN
    /\ At(c, "resume")
    /\ call[c].state \notin Terminal
    /\ entry[i].state \in RecoveryEligible
    /\ SetState(i, verdict)
    /\ call' = [call EXCEPT ![c] =
         IF verdict \in Success /\ MayResume(c)
         THEN [@ EXCEPT !.pc = "verify", !.answer = "resumed"] ELSE Idle]
    /\ UNCHANGED <<scenario, document, source, record, timeline, reported>>

\* recover_one loses a compare-and-set and returns what the winner stored.
ResumeOvertaken(c) ==
    LET i == call[c].id IN
    /\ At(c, "resume")
    /\ call[c].state \notin Terminal
    /\ entry[i].state \in Success
    /\ MayResume(c)
    /\ call' = [call EXCEPT ![c] = [@ EXCEPT !.pc = "verify", !.answer = "resumed",
                                             !.evidence = entry[i].evidence]]
    /\ UNCHANGED Stores

\* Mutant: any terminal entry is taken for a success.
ResumeAnyVerdict(c) ==
    /\ At(c, "resume")
    /\ call[c].state \in Terminal
    /\ MayResume(c)
    /\ call' = [call EXCEPT ![c] = [@ EXCEPT !.pc = "verify",
                                             !.answer = "resumed"]]
    /\ UNCHANGED Stores

\* Mutant: a settled entry has nothing left to resume.
ResumeNothing(c) ==
    /\ At(c, "resume")
    /\ call[c].state \in Success
    /\ call' = [call EXCEPT ![c] = Idle]
    /\ UNCHANGED Stores

ResumeSettled(c) ==
    /\ At(c, "resume")
    /\ call[c].state \in Success
    /\ MayResume(c)
    /\ call' = [call EXCEPT ![c] = [@ EXCEPT !.pc = "verify",
                                             !.answer = "resumed"]]
    /\ UNCHANGED Stores

---------------------------------------------------------------------------
(* _after_materialization and _complete: binding the record. *)

VerifyDocument(c) ==
    /\ At(c, "verify")
    /\ document = call[c].id.candidate
    /\ Goto(c, IF call[c].id.kind = "cutover" /\ call[c].answer = "applied"
               THEN "source_again" ELSE "current")
    /\ UNCHANGED Stores

\* cutover, before _complete: the source did not change while it was copied.
SourceUnchanged(c) ==
    /\ At(c, "source_again")
    /\ source = call[c].id.candidate
    /\ Goto(c, "current")
    /\ UNCHANGED Stores

\* _complete reads the record again; a cutover then reads its source again.
ReadRecord(c) ==
    LET i == call[c].id IN
    /\ At(c, "current")
    /\ \/ i.kind = "cutover" /\ GotoWith(c, "source_last", record)
       \/ i.kind # "cutover" /\ AlreadyBound(i, record)
          /\ GotoWith(c, "mark", record)
       \/ i.kind # "cutover" /\ ~AlreadyBound(i, record) /\ MaySwap(i, record)
          /\ GotoWith(c, "swap", record)
    /\ UNCHANGED Stores

SourceStillUnchanged(c) ==
    LET i == call[c].id
        cur == call[c].current IN
    /\ At(c, "source_last")
    /\ source = i.candidate
    /\ \/ AlreadyBound(i, cur) /\ Goto(c, "mark")
       \/ ~AlreadyBound(i, cur) /\ MaySwap(i, cur) /\ Goto(c, "swap")
    /\ UNCHANGED Stores

\* Mutant: an update that does not compare the revision.
SwapMatchesBlind(cur) == TRUE

\* compare_and_swap_plan, and put_plan for the first version: the stored
\* version is still the one the call read.
SwapMatches(cur) == record.revision = cur.revision

SwapRecord(c) ==
    LET i == call[c].id
        cur == call[c].current
        new == [status |-> IF cur.status = "absent" THEN "active" ELSE record.status,
                kind |-> "local_governance", digest |-> i.candidate,
                revision |-> record.revision + 1] IN
    /\ At(c, "swap")
    /\ SwapMatches(cur)
    /\ Commit(new, i)
    /\ GotoWith(c, "readback", new)
    /\ UNCHANGED <<scenario, document, source, entry, reported>>

\* The swap is stale: the call succeeds if someone else stored its binding.
SwapLost(c) ==
    /\ At(c, "swap")
    /\ ~SwapMatches(call[c].current)
    /\ Goto(c, "lost")
    /\ UNCHANGED Stores

FoundBound(c) ==
    /\ At(c, "lost")
    /\ BoundByAnother(call[c].id, record)
    /\ GotoWith(c, "mark", record)
    /\ UNCHANGED Stores

ReadBack(c) ==
    /\ At(c, "readback")
    /\ record = call[c].current
    /\ Goto(c, "mark")
    /\ UNCHANGED Stores

\* _mark_terminal_evidence: the entry records the revision it was bound at.  A
\* final-body recovery then marks its closure as well.
MarkEvidence(c) ==
    LET i == call[c].id
        want == [call[c].evidence EXCEPT !.bound = call[c].current.revision] IN
    /\ At(c, "mark")
    /\ \/ /\ entry[i].evidence = call[c].evidence
          /\ entry' = [entry EXCEPT ![i] = [@ EXCEPT !.evidence = want]]
       \/ /\ entry[i].evidence # call[c].evidence
          /\ want.bound \in {call[c].evidence.bound, entry[i].evidence.bound}
          /\ UNCHANGED entry
    /\ IF call[c].req.op # "final" THEN Report(c, i, call[c].current)
       ELSE /\ call' = [call EXCEPT ![c] =
                 [@ EXCEPT !.pc = "close_mark",
                           !.evidence = IF want = call[c].evidence THEN want
                                        ELSE entry'[i].evidence]]
            /\ UNCHANGED reported
    /\ UNCHANGED <<scenario, document, source, record, timeline>>

---------------------------------------------------------------------------
(* retire, and the closing mark. *)

\* A Plan that is retired already is reported so.
RetireAgain(c, r) ==
    /\ At(c, "idle")
    /\ r.op = "retire"
    /\ record.revision = r.revision
    /\ record.kind = "local_governance"
    /\ record.status = "retired"
    /\ reported' = reported \cup
         {[op |-> r.op, id |-> ByRetire, revision |-> record.revision]}
    /\ UNCHANGED <<scenario, document, source, record, entry, call, timeline>>

RetireBegin(c, r) ==
    /\ At(c, "idle")
    /\ r.op = "retire"
    /\ record.revision = r.revision
    /\ record.kind = "local_governance"
    /\ record.status = "active"
    /\ call' = [call EXCEPT ![c] = [Idle EXCEPT !.pc = "retire_swap", !.req = r,
                                                !.current = record]]
    /\ UNCHANGED Stores

RetireSwap(c) ==
    LET new == [record EXCEPT !.status = "retired", !.revision = @ + 1] IN
    /\ At(c, "retire_swap")
    /\ SwapMatches(call[c].current)
    /\ Commit(new, ByRetire)
    /\ GotoWith(c, "retire_readback", new)
    /\ UNCHANGED <<scenario, document, source, entry, reported>>

RetireReadBack(c) ==
    /\ At(c, "retire_readback")
    /\ record = call[c].current
    /\ Report(c, ByRetire, record)
    /\ UNCHANGED <<scenario, document, source, record, entry, timeline>>

\* _mark_close_terminal_evidence
MarkClosed(c) ==
    LET i == call[c].id
        want == [call[c].evidence EXCEPT !.retired = call[c].current.revision] IN
    /\ At(c, "close_mark")
    /\ \/ /\ entry[i].evidence = call[c].evidence
          /\ entry' = [entry EXCEPT ![i] = [@ EXCEPT !.evidence = want]]
       \/ /\ entry[i].evidence # call[c].evidence
          /\ entry[i].evidence.retired = want.retired
          /\ UNCHANGED entry
    /\ Report(c, i, call[c].current)
    /\ UNCHANGED <<scenario, document, source, record, timeline>>

---------------------------------------------------------------------------
(* Everything else. *)

\* The call returns a failure, raises, or dies with its process.
Abort(c) ==
    /\ ~At(c, "idle")
    /\ call' = [call EXCEPT ![c] = Idle]
    /\ UNCHANGED Stores

EditDocument(d) ==
    /\ document # d
    /\ document' = d
    /\ UNCHANGED <<scenario, source, record, entry, call, timeline, reported>>

EditSource(d) ==
    /\ source # d
    /\ source' = d
    /\ UNCHANGED <<scenario, document, record, entry, call, timeline, reported>>

Open(c) == \E r \in scenario.requests : \/ Begin(c, r)
                                        \/ Recover(c, r)
                                        \/ RecoverOrphan(c, r)
                                        \/ RetireBegin(c, r)
                                        \/ RetireAgain(c, r)

Materialise(c) ==
    \/ ReadSource(c)
    \/ CloseRead(c)
    \/ Amend(c)
    \/ ReadDocument(c)
    \/ LookupNew(c)
    \/ LookupBound(c)
    \/ LookupExisting(c)
    \/ CreateEntry(c)
    \/ Claim(c)
    \/ \E answer \in {"applied", "unknown"} : MutateLands(c, answer)
    \/ \E answer \in {"rejected", "unknown"} : MutateWithoutEffect(c, answer)
    \/ Settle(c)
    \/ ResumeUnsettled(c)
    \/ ResumeOvertaken(c)
    \/ ResumeSettled(c)

Bind(c) ==
    \/ VerifyDocument(c)
    \/ SourceUnchanged(c)
    \/ ReadRecord(c)
    \/ SourceStillUnchanged(c)
    \/ SwapRecord(c)
    \/ SwapLost(c)
    \/ FoundBound(c)
    \/ ReadBack(c)
    \/ MarkEvidence(c)

Retire(c) ==
    \/ RetireSwap(c)
    \/ RetireReadBack(c)
    \/ MarkClosed(c)

Next ==
    \/ \E c \in Callers : Open(c) \/ Materialise(c) \/ Bind(c) \/ Retire(c)
                            \/ Abort(c)
    \/ \E d \in scenario.documentEdits : EditDocument(d)
    \/ \E d \in scenario.sourceEdits : EditSource(d)

Spec == Init /\ [][Next]_vars

---------------------------------------------------------------------------
(* Properties. *)

Entry == [state : JournalState \cup {"ABSENT"},
          original : Digests \cup {NoDigest},
          subject : Nat,
          evidence : [bound : Nat, retired : Nat]]

\* Where a call is: asking whether it may go on, working on an entry it does
\* not know the verdict of, binding what was verified, or retiring.
Asking == {"source", "close_read", "amend", "lookup", "read", "create"}
Working == {"claim", "mutate", "settle", "resume"}
Binding == {"verify", "source_again", "current", "source_last", "swap", "lost",
            "readback", "mark", "close_mark"}
Retiring == {"retire_swap", "retire_readback"}

CallState == [pc : {"idle"} \cup Asking \cup Working \cup Binding \cup Retiring,
              req : Request \cup {Idle.req}, id : Identities \cup {NoIdentity},
              current : Record, observed : Digests \cup {NoDigest},
              state : JournalState \cup {"ABSENT"},
              evidence : [bound : Nat, retired : Nat],
              answer : {"none", "applied", "unknown", "rejected", "resumed"}]

\* Types, with the two histories: a version is a record and who stored it, and
\* the record is the latest version.
TypeOK ==
    /\ scenario \in Scenarios
    /\ document \in Digests
    /\ source \in Digests \cup {NoDigest}
    /\ record \in Record
    /\ entry \in [Identities -> Entry]
    /\ call \in [Callers -> CallState]
    /\ timeline \in Seq([record : Record, by : Identities \cup {ByRetire, ByRegistration}])
    /\ record = IF timeline = <<>> THEN AbsentRecord
                ELSE timeline[Len(timeline)].record
    /\ \A x \in reported : x.id \in Identities \cup {ByRetire}

Versions == DOMAIN timeline
Version(n) == timeline[n].record
StoredBy(n) == timeline[n].by

\* The record changes only by the swaps of the coordinator, one revision at a
\* time, and each journal entry is bound at most once: neither a replay of a
\* completed request nor two calls that share its entry bind it again, even
\* when other amendments have brought back the binding it started from.
BoundAtMostOnce ==
    \A m, n \in Versions :
        StoredBy(m) = StoredBy(n) /\ StoredBy(m).kind \in Kinds => m = n

\* No lost update: a version stored for a journal entry replaces exactly the
\* version the request was checked against -- the expected authority, at the
\* revision the entry was created for -- and keeps its lifecycle state.
BoundOnItsPrecondition ==
    \A n \in Versions :
        LET i == StoredBy(n) IN
        i.kind \in Kinds \ {"init"} =>
            /\ n > 1
            /\ entry[i].subject = n - 1
            /\ Bound(Version(n - 1),
                     IF i.kind = "cutover" THEN "github_issue"
                     ELSE "local_governance", i.expected)
            /\ Version(n).status = Version(n - 1).status

\* What the record names has been in the document: a version stored for an
\* entry has the entry's candidate, and the journal says the candidate was
\* verified.
BoundIsVerified ==
    \A n \in Versions :
        LET i == StoredBy(n) IN
        i.kind \in Kinds => /\ Version(n).digest = i.candidate
                            /\ Version(n).kind = "local_governance"
                            /\ entry[i].state \in Success

\* A retired Plan is never active again, and only the recovery of its final
\* body changes its binding (NORMAL_RETIRED_PLAN_MUTATION_DENIED).
RetiredForGood ==
    \A n \in Versions :
        (n > 1 /\ Version(n - 1).status = "retired") =>
            Version(n).status = "retired" /\ StoredBy(n).kind = "final"

\* A success the coordinator returns is a fact of the record: the revision it
\* names was stored with the request's candidate, locally bound, and retired
\* if the operation was to retire the Plan or to repair a retired one.
ReportedIsTrue ==
    \A x \in reported :
        /\ x.revision \in Versions
        /\ x.id.kind \in Kinds => BoundLocally(Version(x.revision), x.id.candidate)
        /\ x.op \in {"final", "retire"} => Version(x.revision).status = "retired"

\* No two requests were admitted for one version of the record.
NoRivals ==
    \A i, j \in Durable : entry[i].subject = entry[j].subject => i = j

\* Nobody but the coordinator writing the document, an active Plan whose
\* document is not the bound one has it from an entry whose write the journal
\* does not deny.  Where no two requests were admitted for one version, that
\* entry was created for the very version that is stored and can still be
\* finished: its verdict is open, a success, or the one that can be wrong
\* (RETRYABLE_NO_EFFECT, stored while the attempt was still alive).
DivergenceIsOwned ==
    scenario.documentEdits = {} /\ record.status = "active"
      /\ record.kind = "local_governance" /\ document # record.digest =>
        \E i \in Durable :
            /\ i.candidate = document
            /\ entry[i].state \notin {"PREPARED", "FAILED_NO_EFFECT"}
            /\ NoRivals => /\ entry[i].subject = record.revision
                          /\ entry[i].state # "CONFLICT"

---------------------------------------------------------------------------
(* What makes the invariants inductive. *)

\* Versions are numbered by their revisions; a local Plan stays local and a
\* retired one retired.
HistoryOk ==
    /\ \A n \in Versions :
          /\ Version(n).revision = n /\ Version(n).status # "absent"
          /\ Version(n).kind # "none" /\ Version(n).digest \in Digests \ {EmptyDoc}
          /\ StoredBy(n) = ByRegistration => n = 1
          /\ StoredBy(n) = ByRetire => Version(n).status = "retired"
    /\ \A m, n \in Versions : m <= n =>
          /\ Version(m).kind = "local_governance" => Version(n).kind = "local_governance"
          /\ Version(m).status = "retired" => Version(n).status = "retired"

\* An entry was created for a version its operation may be applied to.
EntryOk(i) ==
    entry[i].state # "ABSENT" =>
      /\ entry[i].original \in Digests
      /\ entry[i].subject \in {0} \cup Versions
      /\ i.kind = "init" => entry[i].subject = 0
      /\ i.kind \in Kinds \ {"init", "orphan"} => entry[i].subject \in Versions
      /\ i.kind = "amendment" =>
            /\ Version(entry[i].subject).status = "active"
            /\ BoundLocally(Version(entry[i].subject), entry[i].original)
      /\ i.kind = "final" => Version(entry[i].subject).status = "retired"
      /\ i.kind = "orphan" => entry[i].original = i.candidate

\* What a call read of the record was the record once.
CurrentOk(x) ==
    \/ x.current = AbsentRecord
    \/ x.current.revision \in Versions /\ x.current = Version(x.current.revision)

\* A call that asks does so for a request that may have an entry, and what it
\* checked on the way to creating one still holds of what it read.
AskOk(x) ==
    /\ x.pc # "idle" => x.req \in Request
    /\ x.pc \in Retiring <=> x.req.op = "retire"
    /\ x.pc \in Asking => x.req.op \notin {"none", "recover"}
    /\ x.pc = "source" => x.req.op = "cutover"
    /\ x.pc = "close_read" => x.req.op = "close"
    /\ x.pc = "amend" => x.req.op \in {"amend", "close"}
    /\ x.pc \in Asking /\ x.req.op # "close" =>
          \/ Identity(x.req) \in Identities
          \/ x.pc # "create" /\ x.req.op = "orphan" /\ Matches(x.req.key) # {}
    /\ x.pc \in {"lookup", "read", "create"} => x.req.op # "close"
    /\ x.pc \in Asking /\ x.req.op = "final" => FinalMayStart(x.req, x.current)
    /\ x.pc \in {"read", "create"} =>
          /\ x.req.op = "init" => InitMayCreate(x.current)
          /\ x.req.op = "amend" => AmendMayCreate(x.req, x.current)
          /\ x.req.op = "cutover" => CutoverMayCreate(x.req, x.current)
    /\ x.pc = "create" \/ (x.pc = "lookup" /\ x.req.op \in {"orphan", "final"}) =>
          /\ x.observed \in Digests
          /\ x.req.op = "amend" => x.observed = x.req.expected
          /\ x.req.op = "orphan" => x.observed = x.req.candidate

\* A call that binds holds a verified entry, swaps only what the entry may be
\* bound to, and reports only what is bound.
BindOk(x) ==
    /\ x.pc \in Working \cup Binding =>
          /\ x.id \in Identities /\ entry[x.id].state # "ABSENT"
          /\ x.req.op = "final" => x.id.kind = "final"
    /\ x.pc \in Binding => entry[x.id].state \in Success
    /\ x.pc = "resume" /\ x.state \in Success => entry[x.id].state \in Success
    /\ x.pc = "swap" => MaySwap(x.id, x.current)
    /\ x.pc \in {"readback", "mark", "close_mark"} =>
          /\ BoundLocally(x.current, x.id.candidate)
          /\ x.id.kind = "final" => x.current.status = "retired"
    /\ x.pc = "retire_swap" => x.current.status = "active"
    /\ x.pc = "retire_readback" => x.current.status = "retired"

CallOk(x) == CurrentOk(x) /\ AskOk(x) /\ BindOk(x)

\* Between claim and settlement an entry has one worker; it is not PREPARED,
\* and nothing denies a write that may have happened or may still.
WriterOk(c) ==
    /\ At(c, "mutate") \/ At(c, "settle") => entry[call[c].id].state # "PREPARED"
    /\ At(c, "mutate") \/ (At(c, "settle") /\ call[c].answer # "rejected") =>
          entry[call[c].id].state # "FAILED_NO_EFFECT"

OneWriter ==
    \A c, d \in Callers :
        /\ call[c].pc \in {"mutate", "settle"} /\ call[d].pc \in {"mutate", "settle"}
        /\ call[c].id = call[d].id
        => c = d

\* A version replaces exactly the one its entry was created for.
SubjectInv ==
    \A n \in Versions : StoredBy(n).kind \in Kinds => entry[StoredBy(n)].subject = n - 1

\* A call that has not written, or was refused to.
Unwritten(x) == x.pc = "mutate" \/ (x.pc = "settle" /\ x.answer = "rejected")

\* The write of entry i, if there was one, is over, and nothing denies it.
Wrote(i) ==
    /\ entry[i].state \notin {"ABSENT", "PREPARED", "FAILED_NO_EFFECT"}
    /\ \A c \in Callers : call[c].id = i => ~Unwritten(call[c])

Owns(i) ==
    /\ Wrote(i) /\ i.candidate = document
    /\ NoRivals => entry[i].subject = record.revision /\ entry[i].state # "CONFLICT"

\* The document of an active Plan, as above ...
DocumentOk ==
    record.status = "active" /\ record.kind = "local_governance" =>
        document = record.digest \/ \E i \in Identities : Owns(i)

\* ... that of a call about to bind what it verified ...
Verified == {"source_again", "current", "source_last", "swap"}

VerifiedOk(x) ==
    x.pc \in Verified =>
        /\ document = x.id.candidate \/ \E i \in Identities : Wrote(i) /\ i.candidate = document
        /\ NoRivals /\ record.status # "retired" /\ record.revision = entry[x.id].subject =>
              document = x.id.candidate

\* ... and that of an amendment about to be written, if its entry is settled.
PendingOk(x) ==
    x.pc = "mutate" /\ x.id.kind = "amendment" /\ NoRivals /\ record.status = "active" =>
        /\ entry[x.id].state # "CONFLICT"
        /\ entry[x.id].state \in Success => x.id.candidate = entry[x.id].original

DivergenceInv ==
    scenario.documentEdits = {} =>
        DocumentOk /\ \A c \in Callers : VerifiedOk(call[c]) /\ PendingOk(call[c])

PlanInv ==
    /\ TypeOK /\ HistoryOk
    /\ \A i \in Identities : EntryOk(i)
    /\ \A c \in Callers : CallOk(call[c]) /\ WriterOk(c)
    /\ OneWriter /\ SubjectInv
    /\ BoundOnItsPrecondition /\ BoundIsVerified /\ RetiredForGood /\ ReportedIsTrue
    /\ DivergenceInv

---------------------------------------------------------------------------
(* Liveness: requests are made again and again and every call goes on until *)
(* it returns; any number of calls may be cut short, but not for ever.       *)

Proceed(c) == Materialise(c) \/ Bind(c) \/ Retire(c)

\* A call that could go on is cut short (a last step that returns what was
\* reported before leaves the same state and is no interruption).
Interrupted == \E c \in Callers : /\ ENABLED Proceed(c)
                                  /\ Abort(c)
                                  /\ ~Proceed(c)

Persistence ==
    /\ <>[][~Interrupted]_vars
    /\ \A c \in Callers : /\ WF_vars(Proceed(c))
                          /\ WF_vars(Abort(c))
                          /\ \A r \in Requests : SF_vars(Begin(c, r))

PersistentSpec == Spec /\ Persistence

\* A body the journal has verified is bound in the end: a crash between the
\* document and the record is made good by repeating the request, as long as
\* nobody else writes the document or retires the Plan.
VerifiedGetsBound ==
    \A i \in Identities :
        (i \in Durable /\ entry[i].state \in Success) ~>
            (\E n \in Versions : StoredBy(n) = i)

\* "assert result.ok ... lifecycle_state == PLAN_LIFECYCLE_RETIRED": the close
\* of an active Plan, repeated if need be, retires it.
CloseRetires == <>(record.status = "retired")
=============================================================================
