----------------------------- MODULE Coordinator -----------------------------
(***************************************************************************)
(* The task-main coordinator (runtime/task_main/coordinator.py, runner.py, *)
(* reconciliation.py): one durable Milestone record that several callers   *)
(* advance, recover, activate, close and annotate through the coordinator  *)
(* store's compare-and-swap.                                               *)
(*                                                                         *)
(* Every call reads the record, decides, and swaps it later, so each read  *)
(* and each swap is a step.  A swap succeeds exactly when no other swap    *)
(* succeeded since the read (the revision grows with every one): "fresh"   *)
(* is the set of callers whose revision is still the stored one, and what  *)
(* a call computed from its copy is then computed from the record itself.  *)
(* The store's compare_and_swap is one step here; what reads that overlap  *)
(* a write do to the map of such a store is the subject of ExecutionStore. *)
(*                                                                         *)
(* The execution records are those of the dispatcher (module Dispatcher)   *)
(* and of the completion pump (module Completion), as far as the           *)
(* coordinator looks at them.  Which disposition a review or a Work Item   *)
(* gets, and the drift of the Plan, decide only what a call reports or     *)
(* that it refuses without effect; they are not modelled.  Nor is          *)
(* adopt_normal_path_task_start, by which the ingress binds an execution   *)
(* of its own task.start: bindings here are those of dispatch_ready and of *)
(* the review's dispatch.                                                  *)
(***************************************************************************)
EXTENDS Naturals, FiniteSets, FiniteSetsExt

CONSTANTS
    WorkItem,      \* Work Items, ordered by their ids
    Scenarios,     \* Milestones: [items, graph, limit, callers, targets], <<a, b>>
                   \* in graph when b is dispatched after a, limit the workers
                   \* admitted at once, callers the threads that call, targets
                   \* the Plans a session may switch to
    Caller,        \* threads with a handle over one coordinator store
    Holder,        \* who remembers a revision: callers and ContextSwitch's parts
    MaxFaults,     \* calls that die or whose write fails, unknown launches
    MaxTurns       \* changes of the live approval, of the session, of other fields

ASSUME CoordinatorAssumption ==
    /\ WorkItem \subseteq Nat \ {0} /\ IsFiniteSet(WorkItem) /\ WorkItem # {}
    /\ \A m \in Scenarios : /\ m.items \subseteq WorkItem /\ m.graph \subseteq m.items \X m.items
                             /\ m.limit \in Nat /\ m.callers \subseteq Caller
    /\ Caller \subseteq Holder
    /\ MaxFaults \in Nat /\ MaxTurns \in Nat

VARIABLES
    scenario,   \* the Milestone, fixed at activation
    coord,      \* the durable coordinator record
    exec,       \* the durable execution record of each task
    fresh,      \* holders of the current revision
    call,       \* what each caller is doing
    gate,       \* the live Plan view says user_gate_blocked
    session,    \* the origin session is available
    launched,   \* physical launches of each task
    acked,      \* tasks whose ACK some call declared eligible
    faults, turns

vars == <<scenario, coord, exec, fresh, call, gate, session, launched, acked, faults, turns>>

\* The integrated reviewer, with the Work Items the tasks that get dispatched.
Reviewer == 0
Task == WorkItem \cup {Reviewer}

Predecessors(w) == {a \in WorkItem : <<a, w>> \in scenario.graph}

Status == {"NONE", "ACTIVE", "USER_GATE_REQUIRED", "SESSION_RECOVERY_REQUIRED", "CLOSED"}

WorkStatus == {"PENDING", "ACTIVE", "COMPLETION_PENDING_RECONCILIATION"}

Idle == [pc |-> "idle", gate |-> FALSE, status |-> "NONE", todo |-> {}, task |-> Reviewer]

Record == [status : Status, approved : BOOLEAN, wi : [WorkItem -> WorkStatus],
           receipts : SUBSET Task, progression : Nat]

Execution == [phase : {"ABSENT", "PREPARED", "DISPATCHED"}, ended : BOOLEAN, card : BOOLEAN]

Step == {"idle", "create", "handle", "status", "reread", "observe", "observed", "select",
         "reconcile", "receipt", "ready", "dispatch", "launch", "bind"}

Call == [pc : Step, gate : BOOLEAN, status : Status, todo : SUBSET Task, task : Task]

TypeOK ==
    /\ scenario \in Scenarios
    /\ coord \in Record
    /\ exec \in [Task -> Execution]
    /\ fresh \subseteq Holder
    /\ call \in [Caller -> Call]
    /\ gate \in BOOLEAN /\ session \in BOOLEAN
    /\ launched \in [Task -> Nat] /\ acked \subseteq Task
    /\ faults \in 0..MaxFaults /\ turns \in 0..MaxTurns

Init ==
    /\ scenario \in Scenarios
    /\ coord = [status |-> "NONE", approved |-> FALSE, wi |-> [w \in WorkItem |-> "PENDING"],
                receipts |-> {}, progression |-> 0]
    /\ exec = [t \in Task |-> [phase |-> "ABSENT", ended |-> FALSE, card |-> FALSE]]
    /\ fresh = {} /\ call = [c \in Caller |-> Idle]
    /\ gate \in BOOLEAN /\ session \in BOOLEAN
    /\ launched = [t \in Task |-> 0] /\ acked = {}
    /\ faults = 0 /\ turns = 0

-----------------------------------------------------------------------------
(* The store and the steps of a call. *)

\* A caller between two calls.
Calls(c) == c \in scenario.callers /\ call[c].pc = "idle"

Loads(c) == fresh' = fresh \cup {c}

Goto(c, pc) == call' = [call EXCEPT ![c].pc = pc]

Return(c) == call' = [call EXCEPT ![c] = Idle]

\* A call starts, with the live gate it was given and the status it decides on.
Begins(c, pc, blocked, from) ==
    call' = [call EXCEPT ![c] = [pc |-> pc, gate |-> blocked, status |-> from,
                                 todo |-> {}, task |-> Reviewer]]

Takes(c, pc, t) == call' = [call EXCEPT ![c].pc = pc, ![c].task = t]

\* The call goes on with a set of tasks.
SetsOut(c, pc, tasks) == call' = [call EXCEPT ![c].pc = pc, ![c].todo = tasks]

\* compare_and_swap with the revision c read last.
Swap(c, record) ==
    /\ c \in fresh
    /\ coord' = record
    /\ fresh' = {c}

Environment == <<scenario, exec, gate, session, launched, faults, turns>>

Undisturbed == UNCHANGED <<Environment, acked>>

-----------------------------------------------------------------------------
(* activate_milestone, recover_coordinator and close. *)

ActivateRead(c) ==
    /\ Calls(c)
    /\ \/ /\ coord.status = "NONE"
          /\ Begins(c, "create", gate, "NONE")
       \/ /\ coord.status \in {"SESSION_RECOVERY_REQUIRED", "USER_GATE_REQUIRED"}
          /\ coord.status = "USER_GATE_REQUIRED" => ~gate
          /\ Begins(c, "handle", gate, coord.status)
    /\ Undisturbed /\ UNCHANGED <<coord, fresh>>

\* The status and the approval of the record an activation creates.
Fresh(blocked) ==
    [coord EXCEPT !.status = IF blocked THEN "USER_GATE_REQUIRED" ELSE "ACTIVE",
                  !.approved = ~blocked]

Create(c) ==
    /\ call[c].pc = "create"
    /\ \/ /\ coord.status = "NONE"
          /\ coord' = Fresh(call[c].gate)
       \/ coord.status # "NONE" /\ UNCHANGED coord
    /\ Return(c) /\ Undisturbed /\ UNCHANGED fresh

\* recover_coordinator reads the record and checks that the executions of
\* its active Work Items exist; the handle reads the record once more.
RecoverRead(c) ==
    /\ Calls(c)
    /\ coord.status # "NONE"
    /\ session => \A w \in WorkItem : coord.wi[w] = "ACTIVE" => exec[w].phase # "ABSENT"
    /\ \/ coord.status = "SESSION_RECOVERY_REQUIRED" /\ session
       \/ coord.status # "SESSION_RECOVERY_REQUIRED" /\ ~session
       \/ coord.status = "ACTIVE" /\ gate
       \/ coord.status = "USER_GATE_REQUIRED" /\ ~gate
    /\ Begins(c, "handle", gate, IF session THEN coord.status ELSE "NONE")
    /\ Undisturbed /\ UNCHANGED <<coord, fresh>>

\* The status a call that read the status "from" wants; "NONE" stands for an
\* unavailable session.
Reconciled(from, blocked) ==
    CASE from = "NONE" -> "SESSION_RECOVERY_REQUIRED"
      [] from = "SESSION_RECOVERY_REQUIRED" ->
            IF blocked THEN "USER_GATE_REQUIRED" ELSE "ACTIVE"
      [] from = "ACTIVE" -> "USER_GATE_REQUIRED"
      [] from = "USER_GATE_REQUIRED" -> "ACTIVE"

\* Approval is recorded when the gate opens, not when the session returns.
Approves(from) == from = "USER_GATE_REQUIRED"

HandleLoad(c) ==
    /\ call[c].pc = "handle"
    /\ Loads(c) /\ Goto(c, "status")
    /\ Undisturbed /\ UNCHANGED coord

CloseLoad(c) ==
    /\ Calls(c)
    /\ coord.status \notin {"NONE", "CLOSED"}
    /\ Loads(c)
    /\ Begins(c, "status", FALSE, "CLOSED")
    /\ Undisturbed /\ UNCHANGED coord

\* The handle's swap of the status; a refused one raises.
SwapStatus(c) ==
    /\ call[c].pc = "status"
    /\ \/ LET from == call[c].status IN
          Swap(c, [coord EXCEPT
              !.status = IF from = "CLOSED" THEN "CLOSED" ELSE Reconciled(from, call[c].gate),
              !.approved = @ \/ Approves(from)])
       \/ c \notin fresh /\ UNCHANGED <<coord, fresh>>
    /\ Return(c) /\ Undisturbed

\* record_attempt and the other setters: a swap of fields nothing here reads
\* (the human brake is added by ContextSwitch), after which every other revision is stale.
Annotate ==
    /\ coord.status # "NONE" /\ turns < MaxTurns
    /\ turns' = turns + 1
    /\ fresh' = {}
    /\ UNCHANGED <<scenario, coord, exec, call, gate, session, launched, acked, faults>>

-----------------------------------------------------------------------------
(* advance_milestone_once: the lifecycle checks and the observation.  The   *)
(* runner's own swaps are those of SwapStatus, with errors swallowed.       *)

\* The checks pass and the call goes on with the view it was given.
MayProceed(blocked) == coord.status = "ACTIVE" /\ ~blocked

Advance(c) ==
    /\ Calls(c)
    /\ coord.status # "NONE"
    /\ Loads(c)
    /\ \/ /\ ~session /\ coord.status # "SESSION_RECOVERY_REQUIRED"
          /\ Begins(c, "status", FALSE, "NONE")
       \/ /\ session /\ coord.status = "SESSION_RECOVERY_REQUIRED"
          /\ Begins(c, IF gate THEN "status" ELSE "reread", gate, coord.status)
       \/ /\ session /\ MayProceed(gate)
          /\ Begins(c, "observe", gate, "NONE")
    /\ Undisturbed /\ UNCHANGED coord

\* The session is back: the record becomes ACTIVE and the call goes on; one
\* that lost the race reads a record that still waits and ends.
AdvanceReactivates(c) ==
    /\ call[c].pc = "reread"
    /\ \/ /\ Swap(c, [coord EXCEPT !.status = "ACTIVE"])
          /\ Begins(c, "observe", FALSE, "NONE")
       \/ /\ c \notin fresh
          /\ Return(c) /\ UNCHANGED <<coord, fresh>>
    /\ Undisturbed

\* observe_terminal_completions of a fresh handle.
ObserveLoad(c) ==
    /\ call[c].pc = "observe"
    /\ Loads(c)
    /\ LET ended == {w \in WorkItem : coord.wi[w] = "ACTIVE" /\ exec[w].ended} IN
       SetsOut(c, IF coord.status = "ACTIVE" /\ ended # {} THEN "observed" ELSE "select", ended)
    /\ Undisturbed /\ UNCHANGED coord

Observed(record, ended) ==
    [record EXCEPT !.wi = [w \in WorkItem |->
        IF w \in ended THEN "COMPLETION_PENDING_RECONCILIATION" ELSE @[w]]]

\* The handle's error is swallowed by the runner.
ObserveSwap(c) ==
    /\ call[c].pc = "observed"
    /\ \/ Swap(c, Observed(coord, call[c].todo))
       \/ c \notin fresh /\ UNCHANGED <<coord, fresh>>
    /\ SetsOut(c, "select", {})
    /\ Undisturbed

-----------------------------------------------------------------------------
(* advance_milestone_once: the one action of this call. *)

\* A search for active Work Items, which the observation has moved on.
Pending_Active == {w \in WorkItem : coord.wi[w] = "ACTIVE" /\ exec[w].ended
                                    /\ w \notin coord.receipts}

\* Work Items whose completion waits for its receipt.
Pending == {w \in WorkItem : /\ coord.wi[w] = "COMPLETION_PENDING_RECONCILIATION"
                             /\ w \notin coord.receipts}

ReviewerPending ==
    exec[Reviewer].ended /\ exec[Reviewer].card /\ Reviewer \notin coord.receipts

IntegratedReviewRequired ==
    /\ \A w \in scenario.items : /\ w \in coord.receipts
                                 /\ coord.wi[w] = "COMPLETION_PENDING_RECONCILIATION"
    /\ Reviewer \notin coord.receipts

ReviewerRuns == exec[Reviewer].phase # "ABSENT" /\ ~exec[Reviewer].ended

\* The first of the runner's branches that applies: reconcile the smallest
\* pending Work Item, reconcile the reviewer, dispatch the reviewer, or
\* dispatch what is ready.  A branch that only reports ends the call.
Select(c) ==
    /\ call[c].pc = "select"
    /\ Loads(c)
    /\ \/ /\ Pending # {}
          /\ IF exec[Min(Pending)].card THEN Takes(c, "reconcile", Min(Pending)) ELSE Return(c)
       \/ /\ Pending = {} /\ ReviewerPending
          /\ Takes(c, "reconcile", Reviewer)
       \/ /\ Pending = {} /\ ~ReviewerPending /\ IntegratedReviewRequired
          /\ IF ReviewerRuns THEN Return(c)
             ELSE SetsOut(c, "dispatch", {Reviewer})
       \/ /\ Pending = {} /\ ~ReviewerPending /\ ~IntegratedReviewRequired
          /\ Goto(c, "ready")
    /\ Undisturbed /\ UNCHANGED coord

\* reconcile_worker_completion and reconcile_review_completion up to the
\* receipt: refused unless ACTIVE, replayed when the receipt is durable.
ReconcileLoad(c) ==
    /\ call[c].pc = "reconcile"
    /\ Loads(c)
    /\ LET t == call[c].task IN
       \/ /\ coord.status # "ACTIVE"
          /\ Return(c) /\ UNCHANGED acked
       \/ /\ coord.status = "ACTIVE" /\ t \in coord.receipts
          /\ Return(c) /\ acked' = acked \cup {t}
       \/ /\ coord.status = "ACTIVE" /\ t \notin coord.receipts
          /\ exec[t].ended /\ exec[t].card
          /\ Goto(c, "receipt") /\ UNCHANGED acked
    /\ UNCHANGED <<coord, Environment>>

Replays_Always(t) == t \in Task

\* A lost race is replayed when its winner stored this task's receipt.
Replays(t) == t \in coord.receipts

PersistReceipt(c) ==
    /\ call[c].pc = "receipt"
    /\ LET t == call[c].task IN
       \/ /\ Swap(c, [coord EXCEPT !.receipts = @ \cup {t}, !.progression = @ + 1])
          /\ acked' = acked \cup {t}
       \/ /\ c \notin fresh
          /\ acked' = IF Replays(t) THEN acked \cup {t} ELSE acked
          /\ UNCHANGED <<coord, fresh>>
    /\ Return(c) /\ UNCHANGED Environment

-----------------------------------------------------------------------------
(* dispatch_ready and the dispatch of the reviewer. *)

PredecessorsDone_Dispatched(w) ==
    \A a \in Predecessors(w) : coord.wi[a] # "PENDING"

PredecessorsDone(w) ==
    \A a \in Predecessors(w) : coord.wi[a] = "COMPLETION_PENDING_RECONCILIATION"

Ready == {w \in scenario.items : coord.wi[w] = "PENDING" /\ PredecessorsDone(w)}

IsGate(blocked) == coord.status # "ACTIVE" \/ blocked \/ ~coord.approved

DispatchReady(c) ==
    /\ call[c].pc = "ready"
    /\ Loads(c)
    /\ IF IsGate(call[c].gate) \/ Ready = {} THEN Return(c)
       ELSE SetsOut(c, "dispatch", Ready)
    /\ Undisturbed /\ UNCHANGED coord

\* After task t: the next ready Work Item, or the end of the call.
DispatchRest(c, t) ==
    LET rest == call[c].todo \ {t} IN
    IF rest = {} THEN Return(c)
    ELSE SetsOut(c, "dispatch", rest)

Verified_Exists(t) == exec[t].phase # "ABSENT"

\* Durable DISPATCHED truth, looked up before a Work Item becomes ACTIVE.
Verified(t) == exec[t].phase = "DISPATCHED"

Admitted == Cardinality({t \in Task : exec[t].phase # "ABSENT" /\ ~exec[t].ended}) < scenario.limit

\* A reviewer has no binding to store.
BindOrEnd(c, t) ==
    IF t = Reviewer THEN Return(c)
    ELSE Takes(c, "bind", t)

\* admit_dispatch of the next task: a new record is prepared, a record in
\* doubt is left alone, a dispatched one is replayed.
Dispatch(c) ==
    /\ call[c].pc = "dispatch"
    /\ LET t == Min(call[c].todo) IN
       \/ /\ exec[t].phase = "ABSENT" /\ Admitted
          /\ exec' = [exec EXCEPT ![t].phase = "PREPARED"]
          /\ Takes(c, "launch", t)
       \/ /\ exec[t].phase = "ABSENT" /\ ~Admitted
          /\ DispatchRest(c, t) /\ UNCHANGED exec
       \/ /\ exec[t].phase # "ABSENT"
          /\ IF Verified(t) THEN BindOrEnd(c, t) ELSE DispatchRest(c, t)
          /\ UNCHANGED exec
    /\ UNCHANGED <<scenario, coord, fresh, gate, session, launched, acked, faults, turns>>

\* The adapter starts the worker and the confirmation is stored.
Launch(c) ==
    /\ call[c].pc = "launch"
    /\ LET t == call[c].task IN
       /\ exec' = [exec EXCEPT ![t].phase = "DISPATCHED"]
       /\ launched' = [launched EXCEPT ![t] = @ + 1]
       /\ BindOrEnd(c, t)
    /\ UNCHANGED <<scenario, coord, fresh, gate, session, acked, faults, turns>>

\* The dispatch raises, with or without a worker started: the record stays
\* PREPARED and the Work Item PENDING.
LaunchUnresolved(c) ==
    /\ call[c].pc = "launch" /\ faults < MaxFaults
    /\ faults' = faults + 1
    /\ LET t == call[c].task IN
       /\ \/ launched' = [launched EXCEPT ![t] = @ + 1]
          \/ UNCHANGED launched
       /\ DispatchRest(c, t)
    /\ UNCHANGED <<scenario, coord, exec, fresh, gate, session, acked, turns>>

\* _persist_binding: a stale revision raises and ends dispatch_ready.
Bind(c) ==
    /\ call[c].pc = "bind"
    /\ LET t == call[c].task IN
       \/ Swap(c, [coord EXCEPT !.wi[t] = "ACTIVE"]) /\ DispatchRest(c, t)
       \/ c \notin fresh /\ Return(c) /\ UNCHANGED <<coord, fresh>>
    /\ Undisturbed

-----------------------------------------------------------------------------
(* What happens around the calls. *)

\* A call dies, or a resolver or a store write it makes fails: what it
\* swapped before stays, the rest is not done.
CallFails(c) ==
    /\ call[c].pc # "idle" /\ faults < MaxFaults
    /\ faults' = faults + 1
    /\ Return(c)
    /\ UNCHANGED <<scenario, coord, exec, fresh, gate, session, launched, acked, turns>>

\* The completion pump stores the terminal state, and later the CARD.
ExecutionEnds(t) ==
    /\ exec[t].phase = "DISPATCHED" /\ ~exec[t].ended
    /\ exec' = [exec EXCEPT ![t].ended = TRUE]
    /\ UNCHANGED <<scenario, coord, fresh, call, gate, session, launched, acked, faults, turns>>

CardAttached(t) ==
    /\ exec[t].ended /\ ~exec[t].card
    /\ exec' = [exec EXCEPT ![t].card = TRUE]
    /\ UNCHANGED <<scenario, coord, fresh, call, gate, session, launched, acked, faults, turns>>

\* The user approves or withdraws approval; the session goes or returns.
Turn ==
    /\ turns < MaxTurns
    /\ turns' = turns + 1
    /\ \/ gate' = ~gate /\ UNCHANGED session
       \/ session' = ~session /\ UNCHANGED gate
    /\ UNCHANGED <<scenario, coord, exec, fresh, call, launched, acked, faults>>

AdvanceStep(c) ==
    \/ Advance(c) \/ AdvanceReactivates(c) \/ SwapStatus(c)
    \/ ObserveLoad(c) \/ ObserveSwap(c)
    \/ Select(c) \/ ReconcileLoad(c) \/ PersistReceipt(c)
    \/ DispatchReady(c) \/ Dispatch(c) \/ Launch(c) \/ Bind(c)

Next ==
    \/ \E c \in Caller :
        \/ AdvanceStep(c)
        \/ ActivateRead(c) \/ Create(c) \/ RecoverRead(c) \/ HandleLoad(c) \/ CloseLoad(c)
        \/ LaunchUnresolved(c) \/ CallFails(c)
    \/ \E t \in Task : ExecutionEnds(t) \/ CardAttached(t)
    \/ Annotate \/ Turn

Spec == Init /\ [][Next]_vars

\* A call once begun goes on, task-main calls advance_once again and again,
\* and the pump settles what ended.
CoordinatorFairness ==
    /\ \A c \in Caller : WF_vars(AdvanceStep(c) \/ HandleLoad(c) \/ Create(c))
    /\ \A t \in Task : WF_vars(CardAttached(t))

-----------------------------------------------------------------------------
(* Properties. *)

\* A Work Item leaves PENDING only over durable DISPATCHED truth, whatever
\* dispatches raised, died or were repeated before (dispatch_ready: "ACTIVE
\* requires durable DISPATCHED truth").
ActiveIsDispatched ==
    \A w \in WorkItem : coord.wi[w] # "PENDING" => exec[w].phase = "DISPATCHED"

\* However callers race with records read long ago, dispatch_ready and the
\* review's dispatch start no worker twice, none before the workers of its predecessors ended, and the
\* integrated reviewer only when every Work Item has its durable receipt
\* (evaluate_ready_work_items, _is_integrated_review_required).
WorkInOrder ==
    /\ \A t \in Task : launched[t] <= 1
    /\ \A w \in WorkItem : launched[w] = 1 => \A a \in Predecessors(w) : exec[a].ended
    /\ launched[Reviewer] = 1 => scenario.items \subseteq coord.receipts

\* An ACK is declared eligible only for a completion whose receipt is
\* durable, and every receipt counts once in progression_revision, also
\* when two callers reconcile at the same time (_persist_reconciliation:
\* "exactly-once under contention").
AckedIsReconciled ==
    /\ acked \subseteq coord.receipts
    /\ coord.progression = Cardinality(coord.receipts)

\* A completion that was observed gets its receipt, unless the coordinator
\* is closed or stopped by the user gate or the session.
CompletionIsReconciled ==
    \A w \in WorkItem :
        coord.wi[w] = "COMPLETION_PENDING_RECONCILIATION" /\ exec[w].ended
            ~> w \in coord.receipts \/ coord.status # "ACTIVE" \/ gate \/ ~session

-----------------------------------------------------------------------------
(* What makes these invariants inductive. *)

\* An execution ends only after its dispatch was confirmed; a completion is
\* pending only when its execution ended; a caller that is to store either
\* has seen it.
DispatchInv ==
    /\ \A t \in Task : exec[t].ended => exec[t].phase = "DISPATCHED"
    /\ \A w \in WorkItem :
          coord.wi[w] = "COMPLETION_PENDING_RECONCILIATION" => exec[w].ended
    /\ \A c \in Caller :
          /\ call[c].pc = "observed" => \A t \in call[c].todo : t \in WorkItem /\ exec[t].ended
          /\ call[c].pc = "bind" =>
                call[c].task \in WorkItem /\ exec[call[c].task].phase = "DISPATCHED"

\* One caller at most is about to launch a task, and nobody did before.
LaunchInv ==
    /\ \A t \in Task : exec[t].phase = "ABSENT" => launched[t] = 0
    /\ \A c \in Caller : call[c].pc = "launch" =>
          exec[call[c].task].phase = "PREPARED" /\ launched[call[c].task] = 0
    /\ \A c, d \in Caller :
          call[c].pc = "launch" /\ call[d].pc = "launch" /\ call[c].task = call[d].task => c = d

\* What a task waits for, and will not lose again.
MayRun(t) ==
    IF t = Reviewer THEN scenario.items \subseteq coord.receipts
    ELSE \A a \in Predecessors(t) : exec[a].ended

\* A caller dispatches only what may run.
OrderInv ==
    \A c \in Caller :
       /\ call[c].pc \in {"dispatch", "launch", "bind"} =>
             call[c].todo # {} /\ \A t \in call[c].todo : MayRun(t)
       /\ call[c].pc \in {"launch", "bind"} => call[c].task \in call[c].todo

\* A caller with the current revision stores a receipt that is not there.
ReceiptInv ==
    \A c \in Caller :
       call[c].pc = "receipt" /\ c \in fresh => call[c].task \notin coord.receipts

\* The inductive invariant of the coordinator.
CoordinatorInv ==
    /\ TypeOK /\ ActiveIsDispatched /\ WorkInOrder /\ AckedIsReconciled
    /\ DispatchInv /\ LaunchInv /\ OrderInv /\ ReceiptInv
=============================================================================
