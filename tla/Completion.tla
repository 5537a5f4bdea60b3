----------------------------- MODULE Completion -----------------------------
(***************************************************************************)
(* DurableCompletionCoordinator of runtime/completion.py over the          *)
(* dispatcher: a pump thread repeats recover_once and deliver_pending_once *)
(* (composition/execution.py, run_bounded_completion_continuation) while   *)
(* the session's own thread dispatches through admit_dispatch.             *)
(*                                                                         *)
(* A pass works on the records it scanned when it began, and reads a       *)
(* record again before each swap; other threads act between any two steps. *)
(* A claim's time to live is an event (ClaimExpires) and not a clock: its  *)
(* only use is the comparison that reclaims it.                            *)
(***************************************************************************)
EXTENDS Dispatcher, FiniteSets

CONSTANTS
    Limit,       \* admission bound of the one admission scope
    AttemptCap   \* delivery_attempt_cap

ASSUME CompletionAssumption ==
    /\ Limit \in Nat
    /\ AttemptCap \in Nat \ {0}
    /\ IsFiniteSet(Thread)

VARIABLES
    pump,      \* thread -> where its pass is
    recovered, \* hosts whose coordinator finished a recovery pass
    expired,   \* tasks whose current delivery claim has run out
    ret,       \* the worker's governed task.return, per task
    inbox,     \* the CARDs the origin session has received, per task
    sends      \* transport.deliver calls, per task

ownVars == <<pump, recovered, expired, ret, inbox, sends>>
hostVars == <<route, index, cancels, resumes>>
worldVars == <<run, launches, crashes>>
allVars == <<vars, ownVars>>

NothingSeen == [t \in Task |-> NoRecord]

Rest == [pc |-> "rest", pass |-> "none", todo |-> {}, seen |-> NothingSeen,
         task |-> None, obs |-> None, auth |-> FALSE]

PumpPCs == {"rest", "recover", "ask", "observed", "gate", "fail", "persist",
            "persisted", "attach", "ignored", "list", "reclaim",
            "deliver", "claimed", "settle"}

PumpState ==
    [pc : PumpPCs, pass : {"none", "recover", "deliver"}, todo : SUBSET Task,
     seen : [Task -> Record], task : Task \cup {None},
     obs : TaskState \cup {None, "ERROR"} \cup DeliveryState, auth : BOOLEAN]

CompletionTypeOK ==
    /\ TypeOK
    /\ pump \in [Thread -> PumpState]
    /\ recovered \in SUBSET Host
    /\ expired \in SUBSET Task
    /\ ret \in [Task -> {"none", "completed", "blocked"}]
    /\ inbox \in [Task -> SUBSET Terminal]
    /\ sends \in [Task -> 0..(AttemptCap + 1)]

CompletionInit ==
    /\ Init
    /\ pump = [c \in Thread |-> Rest]
    /\ recovered = {}
    /\ expired = {}
    /\ ret = [t \in Task |-> "none"]
    /\ inbox = [t \in Task |-> {}]
    /\ sends = [t \in Task |-> 0]

-----------------------------------------------------------------------------
(* Moves of a pump.                                                        *)

At(c, pc) == pump[c].pc = pc /\ call[c].pc = "idle"
PumpTo(c, p) == pump' = [pump EXCEPT ![c] = p]
Forward(c, pc) == PumpTo(c, [pump[c] EXCEPT !.pc = pc])

(* The task's turn is over: the loop of the pass takes the next record.    *)
DoneWith(c, t, pc) ==
    [pump[c] EXCEPT !.pc = pc, !.todo = @ \ {t}, !.seen[t] = NoRecord,
                    !.task = None, !.obs = None, !.auth = FALSE]
Skips(c, t) == PumpTo(c, DoneWith(c, t, "recover"))

Holding(c, t, pc, o) ==
    PumpTo(c, [pump[c] EXCEPT !.pc = pc, !.task = t, !.obs = o])

-----------------------------------------------------------------------------
(* recover_once                                                            *)

(* The records of a scan, as they were then.                               *)
Scanned(S) == [t \in Task |-> IF t \in S THEN store[t] ELSE NoRecord]

BeginPass(c) ==
    LET S == {t \in Task : RequiresRecovery(store[t])} IN
    /\ c \in scenario.pumps
    /\ At(c, "rest")
    /\ PumpTo(c, [Rest EXCEPT !.pc = "recover", !.pass = "recover",
                              !.todo = S, !.seen = Scanned(S)])
    /\ UNCHANGED <<vars, recovered, expired, ret, inbox, sends>>

Turn(c, t) == At(c, "recover") /\ t \in pump[c].todo

(* A PREPARED record is taken for a crash tail: UNKNOWN, never redispatch. *)
RecoverPrepared(c, t) ==
    /\ Turn(c, t)
    /\ pump[c].seen[t].state \notin Terminal
    /\ pump[c].seen[t].phase = "PREPARED"
    /\ Holding(c, t, "observed", "UNKNOWN")
    /\ UNCHANGED <<vars, recovered, expired, ret, inbox, sends>>

(* observe_status: a pure observation, checked against the route.          *)
RecoverObserve(c, t) ==
    LET h == HostOf[c] IN
    /\ Turn(c, t)
    /\ pump[c].seen[t].state \notin Terminal
    /\ pump[c].seen[t].phase = "DISPATCHED"
    /\ Rehydrates(h, t)
    /\ \E a \in StatusAnswers(t) :
          LET s == IF a # "ERROR" THEN a
                   ELSE IF Known(h, t) \in Terminal THEN Known(h, t) ELSE "UNKNOWN"
          IN  \/ Known(h, t) \in Terminal /\ s # Known(h, t) /\ Skips(c, t)
              \/ /\ Known(h, t) \in Terminal => s = Known(h, t)
                 /\ Holding(c, t, IF s = "UNKNOWN" THEN "ask"
                                  ELSE IF s \in Terminal THEN "gate" ELSE "observed", s)
    /\ UNCHANGED <<scenario, store, fresh, index, cancels, resumes, call, worldVars,
                   recovered, expired, ret, inbox, sends>>

(* _recover_unknown_via_authoritative_result: only a terminal result may   *)
(* terminalize, everything else stays UNKNOWN.                             *)
AskResult(c) ==
    LET t == pump[c].task
        r == route[HostOf[c]][t] IN
    /\ At(c, "ask")
    /\ \E a \in ResultAnswers(t) :
          \/ a # "ERROR" /\ r \in Terminal /\ a # r /\ Skips(c, t)
          \/ /\ a = "ERROR" \/ r \notin Terminal \/ a = r
             /\ IF a \in Terminal
                THEN PumpTo(c, [pump[c] EXCEPT !.pc = "gate", !.obs = a, !.auth = TRUE])
                ELSE Holding(c, t, "observed", "UNKNOWN")
    /\ UNCHANGED <<vars, recovered, expired, ret, inbox, sends>>

(* _cas_persist_observed_state and _cas_persist_unknown read the record    *)
(* and leave a terminal state, and the same state, alone ...               *)
PersistObserved(c) ==
    LET t == pump[c].task
        r == store[t] IN
    /\ At(c, "observed")
    /\ r.state \notin Terminal /\ r.state # pump[c].obs
    /\ Reads(c, t)
    /\ Goes(c, [Started("observe", "swap", t) EXCEPT !.want = [r EXCEPT !.state = pump[c].obs]])
    /\ Forward(c, "ignored")
    /\ UNCHANGED <<scenario, store, hostVars, worldVars, recovered, expired, ret, inbox, sends>>

PersistNothing(c) ==
    LET r == store[pump[c].task] IN
    /\ At(c, "observed")
    /\ r.state \in Terminal \/ r.state = pump[c].obs
    /\ Skips(c, pump[c].task)
    /\ UNCHANGED <<vars, recovered, expired, ret, inbox, sends>>

(* ... and whether the swap succeeded is not looked at.                    *)
Ignored(c) ==
    /\ At(c, "ignored")
    /\ Skips(c, pump[c].task)
    /\ UNCHANGED <<vars, recovered, expired, ret, inbox, sends>>

-----------------------------------------------------------------------------
(* Terminal truth: _persist_terminal_truth and _persist_semantic_failure.  *)

(* _resolve_semantic_return_evidence_safe: any doubt is no evidence.       *)
EvidenceRead(t) == {ret[t], "none"}

\* Mutant: any task.return will do.
Gate_AnyReturn(c) ==
    LET t == pump[c].task IN
    /\ At(c, "gate")
    /\ \E e \in EvidenceRead(t) :
          Forward(c, IF pump[c].obs = "COMPLETED" /\ e = "none" THEN "fail" ELSE "persist")
    /\ UNCHANGED <<vars, recovered, expired, ret, inbox, sends>>

(* The semantic gate: an observed success needs the worker's task.return.  *)
Gate(c) ==
    LET t == pump[c].task IN
    /\ At(c, "gate")
    /\ \E e \in EvidenceRead(t) :
          Forward(c, IF pump[c].obs = "COMPLETED" /\ e # "completed" THEN "fail" ELSE "persist")
    /\ UNCHANGED <<vars, recovered, expired, ret, inbox, sends>>

PersistsTerminal(c, op, s) ==
    Goes(c, [Started(op, "answered", pump[c].task) EXCEPT !.obs = s])

(* dispatcher.result, which asks the adapter, or the result already seen.  *)
PersistTruth(c) ==
    LET t == pump[c].task IN
    /\ At(c, "persist")
    /\ IF pump[c].auth
       THEN /\ PersistsTerminal(c, "persist", pump[c].obs)
            /\ Forward(c, "persisted")
            /\ UNCHANGED route
       ELSE /\ Rehydrates(HostOf[c], t)
            /\ \E a \in ResultAnswers(t) :
                  /\ PersistsTerminal(c, "result", a)
                  /\ Holding(c, t, "persisted", a)
    /\ UNCHANGED <<scenario, store, fresh, index, cancels, resumes, worldVars,
                   recovered, expired, ret, inbox, sends>>

\* Mutant: the CARD is projected from the observed success, not the failure.
PersistFailure_SuccessCard(c) ==
    LET t == pump[c].task IN
    /\ At(c, "fail")
    /\ store[t].state \notin Terminal
    /\ Rehydrates(HostOf[c], t)
    /\ PersistsTerminal(c, "persist", "FAILED")
    /\ Holding(c, t, "persisted", "COMPLETED")
    /\ UNCHANGED <<scenario, store, fresh, index, cancels, resumes, worldVars,
                   recovered, expired, ret, inbox, sends>>

(* A truthful failure is persisted unless terminal truth is durable.       *)
PersistFailure(c) ==
    LET t == pump[c].task IN
    /\ At(c, "fail")
    /\ store[t].state \notin Terminal
    /\ Rehydrates(HostOf[c], t)
    /\ PersistsTerminal(c, "persist", "FAILED")
    /\ Holding(c, t, "persisted", "FAILED")
    /\ UNCHANGED <<scenario, store, fresh, index, cancels, resumes, worldVars,
                   recovered, expired, ret, inbox, sends>>

FailureTooLate(c) ==
    LET r == store[pump[c].task] IN
    /\ At(c, "fail")
    /\ r.state \in Terminal
    /\ IF r.result \in {"FAILED", "CANCELLED"} /\ r.card = None
       THEN Holding(c, pump[c].task, "attach", r.result)
       ELSE Skips(c, pump[c].task)
    /\ UNCHANGED <<vars, recovered, expired, ret, inbox, sends>>

(* An exception, or a result that is not terminal, is uncertainty.         *)
Persisted(c) ==
    /\ At(c, "persisted")
    /\ IF call[c].out = "ok" /\ pump[c].obs \in Terminal
       THEN Forward(c, "attach")
       ELSE Holding(c, pump[c].task, "observed", "UNKNOWN")
    /\ UNCHANGED <<vars, recovered, expired, ret, inbox, sends>>

(* _attach_card: project the CARD from the result and attach it once.      *)
AttachCard(c) ==
    LET t == pump[c].task IN
    /\ At(c, "attach")
    /\ store[t].card = None
    /\ Reads(c, t)
    /\ Goes(c, [Started("attach", "swap", t) EXCEPT !.want = [store[t] EXCEPT !.card = pump[c].obs]])
    /\ Forward(c, "ignored")
    /\ UNCHANGED <<scenario, store, hostVars, worldVars, recovered, expired, ret, inbox, sends>>

AlreadyCarded(c) ==
    /\ At(c, "attach")
    /\ store[pump[c].task].card # None
    /\ Skips(c, pump[c].task)
    /\ UNCHANGED <<vars, recovered, expired, ret, inbox, sends>>

(* _ensure_terminal_card for a terminal record of the scan.                *)
NeedsEvidence(r) == r.result = "COMPLETED"

EnsureCard(c, t) ==
    LET r == pump[c].seen[t] IN
    /\ Turn(c, t)
    /\ r.state \in Terminal
    /\ \/ r.result = None /\ Holding(c, t, "gate", r.state)
       \/ /\ r.result # None /\ r.card = None
          /\ \E e \in EvidenceRead(t) :
                IF NeedsEvidence(r) /\ e # "completed"
                THEN Skips(c, t)
                ELSE Holding(c, t, "attach", r.result)
       \/ r.result # None /\ r.card # None /\ Skips(c, t)
    /\ UNCHANGED <<vars, recovered, expired, ret, inbox, sends>>

-----------------------------------------------------------------------------
(* _reclaim_expired_claims, at the end of recover_once and at the start of *)
(* deliver_pending_once: list_all, then a swap per expired claim.          *)

ListClaims(c) ==
    LET claims == {t \in Task : store[t].delivery = "CLAIMED"} IN
    /\ At(c, "list") \/ (At(c, "recover") /\ pump[c].todo = {})
    /\ fresh' = [fresh EXCEPT ![c] = @ \cup claims]
    /\ PumpTo(c, [pump[c] EXCEPT !.pc = "reclaim", !.todo = claims])
    /\ UNCHANGED <<scenario, store, hostVars, worldVars, call, recovered, expired, ret, inbox, sends>>

Released(r) == [r EXCEPT !.delivery = "PENDING"]

Reclaim(c, t) ==
    /\ At(c, "reclaim") /\ t \in pump[c].todo
    /\ t \in expired
    /\ Swappable(c, t, Released(store[t]))
    /\ Swaps(t, Released(store[t]))
    /\ expired' = expired \ {t}
    /\ PumpTo(c, DoneWith(c, t, "reclaim"))
    /\ UNCHANGED <<scenario, hostVars, worldVars, call, recovered, ret, inbox, sends>>

LeaveClaim(c, t) ==
    /\ At(c, "reclaim") /\ t \in pump[c].todo
    /\ t \notin expired \/ ~Swappable(c, t, Released(store[t]))
    /\ PumpTo(c, DoneWith(c, t, "reclaim"))
    /\ UNCHANGED <<vars, recovered, expired, ret, inbox, sends>>

(* recover_once ends: admission is unlocked; deliver_pending_once begins.  *)
RecoveryEnds(c) ==
    /\ At(c, "reclaim")
    /\ pump[c].todo = {} /\ pump[c].pass = "recover"
    /\ recovered' = recovered \cup {HostOf[c]}
    /\ PumpTo(c, [pump[c] EXCEPT !.pc = "list", !.pass = "deliver"])
    /\ UNCHANGED <<vars, expired, ret, inbox, sends>>

-----------------------------------------------------------------------------
(* deliver_pending_once and _attempt_delivery                              *)

\* Mutant: a delivery that failed once is not tried again.
Deliverable_Once(r) ==
    RequiresRecovery(r) /\ r.state \in Terminal /\ r.delivery = "PENDING" /\ r.attempt = 0

Deliverable(r) ==
    RequiresRecovery(r) /\ r.state \in Terminal /\ r.delivery = "PENDING"

Scan(c) ==
    LET pending == {t \in Task : Deliverable(store[t])} IN
    /\ At(c, "reclaim")
    /\ pump[c].todo = {} /\ pump[c].pass = "deliver"
    /\ fresh' = [fresh EXCEPT ![c] = @ \cup pending]
    /\ PumpTo(c, [pump[c] EXCEPT !.pc = "deliver", !.todo = pending, !.seen = Scanned(pending)])
    /\ UNCHANGED <<scenario, store, hostVars, worldVars, call, recovered, expired, ret, inbox, sends>>

DeliverTurn(c, t) == At(c, "deliver") /\ t \in pump[c].todo

(* No attempt before the result and its CARD are durable.                  *)
TruthDurable(r) == r.result # None /\ r.card # None

NotDurableYet(c, t) ==
    /\ DeliverTurn(c, t)
    /\ ~TruthDurable(pump[c].seen[t])
    /\ PumpTo(c, DoneWith(c, t, "deliver"))
    /\ UNCHANGED <<vars, recovered, expired, ret, inbox, sends>>

SettledAs(r, d) == [r EXCEPT !.delivery = d]
\* Mutant: the claim does not count as an attempt.
Claimed_Uncounted(r) == [r EXCEPT !.delivery = "CLAIMED"]

Claimed(r) == [r EXCEPT !.delivery = "CLAIMED", !.attempt = @ + 1]

Exhausted(r) == r.attempt >= AttemptCap

(* The attempt cap is looked at before claiming.                           *)
DropExhausted(c, t) ==
    /\ DeliverTurn(c, t)
    /\ TruthDurable(pump[c].seen[t]) /\ Exhausted(pump[c].seen[t])
    /\ Swappable(c, t, SettledAs(store[t], "DROPPED"))
    /\ Swaps(t, SettledAs(store[t], "DROPPED"))
    /\ PumpTo(c, DoneWith(c, t, "deliver"))
    /\ UNCHANGED <<scenario, hostVars, worldVars, call, recovered, expired, ret, inbox, sends>>

(* The single-flight claim: a swap with an owner, a time to live and one   *)
(* more attempt.                                                           *)
Claim(c, t) ==
    /\ DeliverTurn(c, t)
    /\ TruthDurable(pump[c].seen[t]) /\ ~Exhausted(pump[c].seen[t])
    /\ Swappable(c, t, Claimed(store[t]))
    /\ SwapsAndHolds(c, t, Claimed(store[t]))
    /\ expired' = expired \ {t}
    /\ PumpTo(c, [pump[c] EXCEPT !.pc = "claimed", !.task = t, !.seen[t] = Claimed(store[t])])
    /\ UNCHANGED <<scenario, hostVars, worldVars, call, recovered, ret, inbox, sends>>

ClaimRaceLost(c, t) ==
    /\ DeliverTurn(c, t)
    /\ TruthDurable(pump[c].seen[t])
    /\ t \notin fresh[c]
    /\ PumpTo(c, DoneWith(c, t, "deliver"))
    /\ UNCHANGED <<vars, recovered, expired, ret, inbox, sends>>

(* A record without a real origin session is dropped, truth retained.      *)
NoOrigin(c) ==
    /\ At(c, "claimed")
    /\ pump[c].seen[pump[c].task].origin = None
    /\ Holding(c, pump[c].task, "settle", "DROPPED")
    /\ UNCHANGED <<vars, recovered, expired, ret, inbox, sends>>

Sends(c) ==
    LET t == pump[c].task IN
    /\ At(c, "claimed")
    /\ pump[c].seen[t].origin # None
    /\ sends[t] <= AttemptCap   \* the counter saturates one above the bound
    /\ sends' = [sends EXCEPT ![t] = @ + 1]
    /\ UNCHANGED <<vars, recovered, expired, ret>>

(* The session reads the envelope.  Only a reply that binds this task and  *)
(* this CARD is an ACK; exit 0 without it, or a lost reply, is not.        *)
Reaches(c) ==
    LET t == pump[c].task IN
    /\ Sends(c)
    /\ inbox' = [inbox EXCEPT ![t] = @ \cup {pump[c].seen[t].card}]
    /\ \E o \in {"ACKNOWLEDGED", "PENDING"} : Holding(c, t, "settle", o)

\* Mutant: a turn that ran is taken for an ACK.
Misses_Acked(c) ==
    Sends(c) /\ Holding(c, pump[c].task, "settle", "ACKNOWLEDGED") /\ UNCHANGED inbox

(* Retryable, failed or unknown: nothing reached the session.              *)
Misses(c) == Sends(c) /\ Holding(c, pump[c].task, "settle", "PENDING") /\ UNCHANGED inbox

(* The exact session is gone: delivery drops, no new session is made.      *)
SessionGone(c) == Sends(c) /\ Holding(c, pump[c].task, "settle", "DROPPED") /\ UNCHANGED inbox

(* The ACK swap, and _release_or_drop, against the claim's own revision.   *)
Settle(c) ==
    LET t == pump[c].task
        n == SettledAs(store[t], pump[c].obs) IN
    /\ At(c, "settle")
    /\ Swappable(c, t, n)
    /\ Swaps(t, n)
    /\ PumpTo(c, DoneWith(c, t, "deliver"))
    /\ UNCHANGED <<scenario, hostVars, worldVars, call, recovered, expired, ret, inbox, sends>>

SettleRaceLost(c) ==
    /\ At(c, "settle")
    /\ pump[c].task \notin fresh[c]
    /\ PumpTo(c, DoneWith(c, pump[c].task, "deliver"))
    /\ UNCHANGED <<vars, recovered, expired, ret, inbox, sends>>

PassEnds(c) ==
    /\ At(c, "deliver")
    /\ pump[c].todo = {}
    /\ PumpTo(c, Rest)
    /\ fresh' = [fresh EXCEPT ![c] = {}]
    /\ UNCHANGED <<scenario, store, hostVars, worldVars, call, recovered, expired, ret, inbox, sends>>

-----------------------------------------------------------------------------
(* admit_dispatch and the other calls of the session's threads             *)

MayCall(c) == pump[c].pc = "rest"

\* Mutant: a record in an unknown state frees its place.
CountsActive_Known(r) == r.phase # "ABSENT" /\ r.state \notin Terminal \cup {"UNKNOWN"}

(* _active_count: nonterminal records, UNKNOWN and PREPARED ones included. *)
CountsActive(r) == r.phase # "ABSENT" /\ r.state \notin Terminal
Counted == {t \in Task : CountsActive(store[t])}
ActiveCount == Cardinality(Counted)

(* A new intent is admitted while the durable active set is below the      *)
(* bound; a known key bypasses admission, as it starts no worker.          *)
AdmitDispatch(c, p) ==
    /\ MayCall(c)
    /\ HostOf[c] \in recovered
    /\ ActiveCount < Limit
    /\ Dispatch(c, p)
    /\ UNCHANGED ownVars

AdmitReplay(c, p) ==
    /\ MayCall(c)
    /\ HostOf[c] \in recovered
    /\ DispatchReplays(c, p)
    /\ UNCHANGED ownVars

Ingress(c, t) ==
    /\ MayCall(c)
    /\ Status(c, t) \/ Result(c, t)
       \/ Cancel(c, t) \/ CancelRepeats(c, t) \/ CancelUnreachable(c, t)
    /\ UNCHANGED ownVars

-----------------------------------------------------------------------------
(* The world: the worker's task.return comes before its process ends, a    *)
(* claim's time to live passes, and a host may die in the middle of it all. *)

WorkerReturns(t, s) ==
    /\ run[t] = "RUNNING"
    /\ ret[t] = "none"
    /\ ret' = [ret EXCEPT ![t] = s]
    /\ UNCHANGED <<vars, pump, recovered, expired, inbox, sends>>

ClaimExpires(t) ==
    /\ store[t].delivery = "CLAIMED"
    /\ t \notin expired
    /\ expired' = expired \cup {t}
    /\ UNCHANGED <<vars, pump, recovered, ret, inbox, sends>>

WorkerExits(t, s) == WorkerEnds(t, s) /\ UNCHANGED ownVars

HostDies(h) ==
    /\ CrashHost(h)
    /\ pump' = [c \in Thread |-> IF HostOf[c] = h THEN Rest ELSE pump[c]]
    /\ recovered' = recovered \ {h}
    /\ UNCHANGED <<expired, ret, inbox, sends>>

RecoverStep(c) ==
    \/ BeginPass(c) \/ ListClaims(c) \/ RecoveryEnds(c)
    \/ AskResult(c) \/ PersistObserved(c) \/ PersistNothing(c) \/ Ignored(c)
    \/ Gate(c) \/ PersistTruth(c) \/ PersistFailure(c) \/ FailureTooLate(c)
    \/ Persisted(c) \/ AttachCard(c) \/ AlreadyCarded(c)
    \/ \E t \in Task :
          \/ RecoverPrepared(c, t) \/ RecoverObserve(c, t) \/ EnsureCard(c, t)
          \/ Reclaim(c, t) \/ LeaveClaim(c, t)

DeliverStep(c) ==
    \/ Scan(c) \/ NoOrigin(c) \/ Reaches(c) \/ Misses(c) \/ SessionGone(c)
    \/ Settle(c) \/ SettleRaceLost(c) \/ PassEnds(c)
    \/ \E t \in Task :
          \/ NotDurableYet(c, t) \/ DropExhausted(c, t) \/ Claim(c, t)
          \/ ClaimRaceLost(c, t)

CallStep(c) == (DispatchStep(c) \/ AnswerStep(c)) /\ UNCHANGED ownVars

ClientStep(c) ==
    \/ \E p \in scenario.packages : AdmitDispatch(c, p) \/ AdmitReplay(c, p)
    \/ \E t \in Task : Ingress(c, t)

World ==
    \/ \E t \in Task, s \in {"COMPLETED", "FAILED", "TIMEOUT"} : WorkerExits(t, s)
    \/ \E t \in Task, s \in {"completed", "blocked"} : WorkerReturns(t, s)
    \/ \E t \in Task : ClaimExpires(t)
    \/ \E h \in Host : HostDies(h)

CompletionNext ==
    \/ \E c \in Thread :
          ClientStep(c) \/ CallStep(c) \/ RecoverStep(c) \/ DeliverStep(c)
    \/ World

CompletionSpec == CompletionInit /\ [][CompletionNext]_allVars

-----------------------------------------------------------------------------
(* Properties.                                                             *)

(* A run that only exited cleanly is never recorded as a success: whoever  *)
(* stored COMPLETED, the worker's own governed task.return said so.        *)
SuccessIsProven ==
    \A t \in Task : store[t].state = "COMPLETED" => ret[t] = "completed"

(* As long as the sessions only dispatch, and the passes alone look after  *)
(* the workers, that is so: a pass never takes a clean exit for a success. *)
SessionsOnlyDispatch == \A c \in Thread : scenario.ops[c] \subseteq {"dispatch"}
PassesProveSuccess == SessionsOnlyDispatch => SuccessIsProven

(* The origin session is told one story, and it is the durable one: every  *)
(* CARD it ever received, from any pump, attempt or host life, reports the *)
(* result on record, and a CARD never contradicts it.                      *)
OneStory ==
    \A t \in Task :
       /\ inbox[t] \subseteq {store[t].result} \ {None}
       /\ store[t].card \in {None, store[t].result}

(* A delivery settled as acknowledged reached the session.                 *)
AckedWasReceived ==
    \A t \in Task : store[t].delivery = "ACKNOWLEDGED" => inbox[t] # {}

(* Two pumps, expired claims and crashes do not multiply the attempts: the *)
(* durable attempt counter bounds what the session is sent.                *)
SendsBounded == \A t \in Task : sends[t] <= AttemptCap

(* The admission bound holds of the workers themselves, not just of the    *)
(* records: unresolved and unknown dispatches keep their place.            *)
NoOversubscription == Cardinality({t \in Task : run[t] = "RUNNING"}) <= Limit

-----------------------------------------------------------------------------
(* Liveness: the pump keeps passing (run_bounded_completion_continuation   *)
(* loops while records remain), and an adapter asked again and again       *)
(* answers truthfully in the end; so does the provider of task.returns.    *)

PumpActs(c) == RecoverStep(c) \/ DeliverStep(c) \/ CallStep(c)

SeesTruth(c, t) == RecoverObserve(c, t) /\ pump'[c].obs = Truth(t)
AsksTruth(c) == AskResult(c) /\ pump'[c].obs = Truth(pump[c].task)
FindsReturn(c, t) == EnsureCard(c, t) /\ pump'[c].pc = "attach"
FetchesTruth(c) == PersistTruth(c) /\ call'[c].obs = Truth(pump[c].task)

CompletionFairness ==
    /\ \A c \in Thread :
          /\ WF_allVars(PumpActs(c))
          /\ \A t \in Task : SF_allVars(SeesTruth(c, t)) /\ SF_allVars(FindsReturn(c, t))
          /\ SF_allVars(AsksTruth(c))
          /\ SF_allVars(FetchesTruth(c))
    /\ \A c \in Thread : WF_allVars(CallStep(c))
    /\ \A t \in Task : WF_allVars(ClaimExpires(t))

FairCompletionSpec == CompletionSpec /\ CompletionFairness

(* Every confirmed dispatch whose worker ended is settled: its delivery is *)
(* acknowledged or, after bounded attempts, dropped.                       *)
EndedIsSettled ==
    \A t \in Task :
       store[t].phase = "DISPATCHED" /\ run[t] \in {"COMPLETED", "FAILED", "TIMEOUT"}
         ~> store[t].delivery \in Settled

-----------------------------------------------------------------------------
(* What makes the invariants inductive.                                    *)

(* What a pump holds in the middle of a pass; only between the swap or the *)
(* result it asked for and the next step is its thread in a call.          *)
PumpOk(c) ==
    /\ pump[c].pc \notin {"rest", "ignored", "persisted"} => call[c].pc = "idle"
    /\ pump[c].pc \notin {"rest", "recover", "list", "reclaim", "deliver"} => pump[c].task \in Task
    /\ pump[c].pc = "observed" => pump[c].obs \in TaskState
    /\ pump[c].pc \in {"gate", "fail", "persist", "attach"} => pump[c].obs \in Terminal
    /\ pump[c].pc = "settle" => pump[c].obs \in DeliveryState

(* What a pump saw of results and CARDs is on record still; what it holds  *)
(* the current revision of is what it scanned.                             *)
SeenOk(c) ==
    /\ \A t \in Task : /\ pump[c].seen[t].result \in {None, store[t].result}
                       /\ pump[c].seen[t].card \in {None, store[t].card}
    /\ pump[c].pc = "claimed" => pump[c].seen[pump[c].task].card # None
    /\ pump[c].pc \in {"deliver", "claimed", "settle"} =>
          \A t \in pump[c].todo \cap fresh[c] : pump[c].seen[t] = store[t]

(* What it is about to attach is the result on record, and a call that is  *)
(* to store a result will have stored it, or raise.                        *)
StoryOk(c) ==
    /\ pump[c].pc = "attach" => store[pump[c].task].result = pump[c].obs
    /\ call[c].pc = "swap" /\ call[c].task \in fresh[c] =>
          call[c].want.card \in {None, call[c].want.result}
    /\ pump[c].pc = "persisted" /\ pump[c].obs \in Terminal =>
          \/ call[c].pc = "idle" /\ call[c].out # "ok"
          \/ call[c].pc = "idle" /\ store[pump[c].task].result = pump[c].obs
          \/ /\ call[c].op \in {"result", "persist"}
             /\ call[c].task = pump[c].task
             /\ \/ call[c].pc = "answered" /\ call[c].obs = pump[c].obs
                \/ call[c].pc = "swap" /\ call[c].want.result = pump[c].obs

(* An ACK it is about to store came from a session that read the CARD.     *)
AckOk(c) ==
    pump[c].pc = "settle" /\ pump[c].obs = "ACKNOWLEDGED" => inbox[pump[c].task] # {}

(* Every claim counted its attempt before the message was sent.            *)
Claimers(t) == {c \in Thread : pump[c].pc = "claimed" /\ pump[c].task = t}

SendInv ==
    \A t \in Task :
       /\ sends[t] + Cardinality(Claimers(t)) <= store[t].attempt
       /\ store[t].attempt <= AttemptCap

CompletionInv ==
    /\ CompletionTypeOK /\ DispatchInv
    /\ \A c \in Thread : PumpOk(c) /\ SeenOk(c) /\ StoryOk(c) /\ AckOk(c)
    /\ OneStory /\ AckedWasReceived /\ SendInv

-----------------------------------------------------------------------------
(* What makes the admission bound inductive, where one thread admits.      *)

(* A session's operations are serialised, and its store is its own.        *)
OneAdmits ==
    \A s \in Scenarios : \A c, d \in Thread :
       "dispatch" \in s.ops[c] /\ "dispatch" \in s.ops[d] => c = d

(* A pump that holds a terminal state holds it of a run that is over.      *)
PumpTells(c) ==
    /\ \A t \in Task : Tells("over", t, pump[c].seen[t].state)
    /\ pump[c].pc \in {"observed", "gate", "fail", "persist"} =>
          Tells("over", pump[c].task, pump[c].obs)

(* A record is counted from before its worker starts until it is over, and *)
(* a thread on its way to create one found a place.                        *)
AdmissionInv ==
    /\ TruthInv("over")
    /\ \A c \in Thread : PumpTells(c)
    /\ IsFiniteSet(Counted) /\ ActiveCount <= Limit
    /\ \A c \in Thread : call[c].pc = "create" =>
          "dispatch" \in scenario.ops[c] /\ ActiveCount < Limit
-----------------------------------------------------------------------------
(* What makes PassesProveSuccess inductive, where a pump shares its routes *)
(* with another thread that dispatches only if it is the only pump.        *)

(* A host has one completion thread beside its sessions, and a store has   *)
(* one such host; or, where several hosts recover one store, the thread    *)
(* that recovers is the one that dispatches.                               *)
LonePump ==
    \A s \in Scenarios : \A p \in s.pumps, c \in Thread :
       "dispatch" \in s.ops[c] /\ s.hosts[c] = s.hosts[p] => c = p \/ s.pumps = {p}

NotSuccess == Terminal \ {"COMPLETED"}

(* Where only passes store terminal states, a result comes with each.      *)
Whole(r) == r.state \in Terminal <=> r.result # None

(* No answer of the adapter can make t a success any more: an outcome is   *)
(* stored, or the route, which no replay can rebuild, contradicts it.      *)
Beaten(c, t) ==
    \/ store[t].state \in Terminal
    \/ scenario.pumps # {c} /\ route[HostOf[c]][t] \in NotSuccess

(* The swap that c is in will store an outcome of t.                       *)
Lands(c, t) ==
    /\ call[c].pc = "swap" /\ call[c].task = t
    /\ Swappable(c, t, call[c].want)
    /\ store[t].phase = "DISPATCHED" /\ call[c].want.state \in Terminal

(* Where one thread recovers, a failure in a route is or will be stored.   *)
FailuresLand ==
    \A p \in Thread, h \in Host, t \in Task :
       /\ scenario.pumps = {p} /\ route[h][t] \in NotSuccess
       /\ store[t].state \notin Terminal
       => h = HostOf[p] /\ Lands(p, t)

(* A success that a call stores is proven, and one it was answered is      *)
(* proven or beaten.  A dispatch confirms its record over PREPARED only.   *)
CallProven(c) ==
    /\ call[c].pc \in {"answered", "swap"} => c \in scenario.pumps
    /\ call[c].pc \in {"create", "launch", "confirm"} => "dispatch" \in scenario.ops[c]
    /\ call[c].pc \in {"launch", "confirm"} /\ call[c].task \in fresh[c] =>
          store[call[c].task].phase = "PREPARED"
    /\ call[c].pc = "answered" =>
          /\ call[c].op \in {"persist", "result"}
          /\ store[call[c].task].phase = "DISPATCHED"
          /\ call[c].obs = "COMPLETED" =>
                ret[call[c].task] = "completed" \/ Beaten(c, call[c].task)
    /\ call[c].pc = "swap" =>
          /\ call[c].want.state = "COMPLETED" => ret[call[c].task] = "completed"
          /\ Whole(call[c].want)

(* A pump past the gate holds a proven success, or the failure of a run    *)
(* that failed, or one that is beaten.                                     *)
PumpProven(c) ==
    /\ pump[c].pc # "rest" => c \in scenario.pumps
    /\ pump[c].pc = "observed" => pump[c].obs \notin Terminal
    /\ pump[c].pc \in {"ask", "gate", "fail", "persist"} =>
          store[pump[c].task].phase = "DISPATCHED"
    /\ pump[c].pc = "persist" /\ pump[c].obs = "COMPLETED" => ret[pump[c].task] = "completed"
    /\ pump[c].pc \in {"gate", "persist"} /\ ~pump[c].auth /\ pump[c].obs # "COMPLETED" =>
          run[pump[c].task] \in NotSuccess \/ Beaten(c, pump[c].task)
    /\ \A t \in Task :
          /\ Whole(pump[c].seen[t])
          /\ pump[c].seen[t].phase = "DISPATCHED" => store[t].phase = "DISPATCHED"

ProvenInv ==
    /\ SuccessIsProven
    /\ \A t \in Task : Whole(store[t])
    /\ FailuresLand
    /\ \A c \in Thread : CallProven(c) /\ PumpProven(c)
=============================================================================
