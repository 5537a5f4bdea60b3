----------------------------- MODULE Dispatcher -----------------------------
(***************************************************************************)
(* ExecutionDispatcher of core/execution/dispatcher.py over the durable    *)
(* execution store and the Hermes adapter: dispatch with replay and crash  *)
(* window, status, result, cancel, resume, reconcile, and the two bind-once*)
(* operations.                                                             *)
(*                                                                         *)
(* A host is a process with one dispatcher: its routes, idempotency index  *)
(* and adapter live in memory and die with it.  A thread of a host runs    *)
(* one call at a time; the steps of a call are the points at which another *)
(* thread or host may act: after the adapter's answer, and between reading *)
(* a record and swapping it.  Each store call is one step.                 *)
(*                                                                         *)
(* record_revision: every successful swap of a record increases it, so     *)
(* "the revision I read is still the current one" is "no swap since I      *)
(* read".  fresh[c] is the set of tasks for which that holds of thread c.  *)
(***************************************************************************)
EXTENDS ExecutionRules

CONSTANTS
    Package,    \* execution packages: [task, key, intent]
    Host,       \* processes, each with a dispatcher
    Thread,     \* threads that call a dispatcher
    OriginOf,   \* the origin session each host's dispatcher is bound to
    Scenarios,  \* who calls what: see Scenario
    MaxLaunches \* bound on the physical dispatches counted for a package

Ops == {"none", "dispatch", "status", "result", "cancel", "resume",
        "reconcile", "persist", "observe", "attach", "bind"}

(* The surroundings of a behaviour: the host of each thread, the packages  *)
(* that are dispatched, the operations each thread calls, the threads that *)
(* run completion passes (see Completion), and how many crashes there may  *)
(* be.                                                                     *)
Scenario == [hosts : [Thread -> Host], packages : SUBSET Package,
             ops : [Thread -> SUBSET Ops], pumps : SUBSET Thread, crashes : Nat]

ASSUME DispatcherAssumption ==
    /\ Package \subseteq [task : Task, key : Key, intent : Intent]
    /\ OriginOf \in [Host -> Session \cup {None}]
    /\ Scenarios \subseteq Scenario
    /\ MaxLaunches \in Nat \ {0}
    /\ None \notin TaskState

VARIABLES
    scenario, \* chosen at the start
    store,    \* the durable records
    fresh,    \* thread -> tasks whose current revision it holds
    route,    \* host -> task -> last_known_state of its RouteRecord
    index,    \* host -> packages whose key its idempotency index holds
    cancels,  \* host -> task -> the adapter's cached answer to cancel
    resumes,  \* host -> tasks with a cached answer to resume
    run,      \* the physical run of each task
    launches, \* package -> physical dispatches so far
    call,     \* thread -> the dispatcher call it is in
    crashes   \* host crashes so far

vars == <<scenario, store, fresh, route, index, cancels, resumes, run, launches, call, crashes>>

HostOf == scenario.hosts

NoRoute == "NOROUTE"
RunState == {"NOTRUN", "RUNNING", "TIMEOUT"} \cup Terminal

(* out is how the thread's last call ended: the pump's next step reads it. *)
Idle(out) == [op |-> "none", pc |-> "idle", task |-> None, pkg |-> None,
              obs |-> None, want |-> NoRecord, out |-> out]

CallState ==
    [op : Ops, pc : {"idle", "create", "launch", "confirm", "answered", "swap"},
     task : Task \cup {None}, pkg : Package \cup {None},
     obs : TaskState \cup Session \cup {None, "ERROR"}, want : Record,
     out : {"none", "ok", "raised"}]

Started(op, pc, t) == [Idle("none") EXCEPT !.op = op, !.pc = pc, !.task = t]

TypeOK ==
    /\ scenario \in Scenarios
    /\ store \in [Task -> Record]
    /\ fresh \in [Thread -> SUBSET Task]
    /\ route \in [Host -> [Task -> TaskState \cup {NoRoute}]]
    /\ index \in [Host -> SUBSET Package]
    /\ cancels \in [Host -> [Task -> TaskState \cup {None}]]
    /\ resumes \in [Host -> SUBSET Task]
    /\ run \in [Task -> RunState]
    /\ launches \in [Package -> 0..MaxLaunches]
    /\ call \in [Thread -> CallState]
    /\ crashes \in 0..scenario.crashes

Init ==
    /\ scenario \in Scenarios
    /\ store = [t \in Task |-> NoRecord]
    /\ fresh = [c \in Thread |-> {}]
    /\ route = [h \in Host |-> [t \in Task |-> NoRoute]]
    /\ index = [h \in Host |-> {}]
    /\ cancels = [h \in Host |-> [t \in Task |-> None]]
    /\ resumes = [h \in Host |-> {}]
    /\ run = [t \in Task |-> "NOTRUN"]
    /\ launches = [p \in Package |-> 0]
    /\ call = [c \in Thread |-> Idle("none")]
    /\ crashes = 0

-----------------------------------------------------------------------------
(* The store, one step per call.                                           *)

(* get: the thread now holds the current revision of t.                    *)
Reads(c, t) == fresh' = [fresh EXCEPT ![c] = @ \cup {t}]

\* Mutant: the store writes whatever it is given.
Swappable_Blind(c, t, n) == store[t].phase # "ABSENT"

(* compare_and_swap: refused when the revision is stale or the update      *)
(* breaks a rule of the record; otherwise every other holder is stale.     *)
Swappable(c, t, n) == t \in fresh[c] /\ MayUpdate(store[t], n)

Swaps(t, n) ==
    /\ store' = [store EXCEPT ![t] = n]
    /\ fresh' = [d \in Thread |-> fresh[d] \ {t}]

(* The caller keeps the record the call returned, for a second swap.       *)
SwapsAndHolds(c, t, n) ==
    /\ store' = [store EXCEPT ![t] = n]
    /\ fresh' = [d \in Thread |-> IF d = c THEN fresh[d] \cup {t} ELSE fresh[d] \ {t}]

Owner(k) == {t \in Task : store[t].phase # "ABSENT" /\ store[t].key = k}

Returns(c, out) == call' = [call EXCEPT ![c] = Idle(out)]
Goes(c, next) == call' = [call EXCEPT ![c] = next]

CanCall(c, op) == op \in scenario.ops[c] /\ call[c].pc = "idle"

-----------------------------------------------------------------------------
(* Routes: _get_internal_route and _rehydrate_route.                       *)

HasRoute(h, t) == route[h][t] # NoRoute \/ store[t].phase = "DISPATCHED"
Known(h, t) == IF route[h][t] # NoRoute THEN route[h][t] ELSE store[t].state
Rehydrates(h, t) == route' = [route EXCEPT ![h][t] = Known(h, t)]

-----------------------------------------------------------------------------
(* dispatch                                                                *)

Replayable(p) == \E t \in Owner(p.key) :
                    store[t].intent = p.intent /\ store[t].phase = "DISPATCHED"

(* _replay_from_durable: route and index are rebuilt, nothing is launched. *)
ReplaysFromDurable(c, p) ==
    \E t \in Owner(p.key) :
       /\ Replayable(p)
       /\ route' = [route EXCEPT ![HostOf[c]][t] = store[t].state]
       /\ index' = [index EXCEPT ![HostOf[c]] =
                      @ \cup {[task |-> t, key |-> p.key, intent |-> p.intent]}]

Indexed(h, k) == \E q \in index[h] : q.key = k

(* A key the durable store knows: replay when the intent is the same and   *)
(* the dispatch was confirmed (conflict and unresolved raise, changing     *)
(* nothing).                                                               *)
DispatchReplays(c, p) ==
    /\ CanCall(c, "dispatch")
    /\ ~Indexed(HostOf[c], p.key)
    /\ ReplaysFromDurable(c, p)
    /\ Returns(c, "ok")
    /\ UNCHANGED <<scenario, store, fresh, cancels, resumes, run, launches, crashes>>

MayPrepare(h, p) ==
    /\ ~Indexed(h, p.key)
    /\ Owner(p.key) = {}
    /\ route[h][p.task] = NoRoute
    /\ store[p.task].phase = "ABSENT"

Dispatch(c, p) ==
    /\ CanCall(c, "dispatch")
    /\ MayPrepare(HostOf[c], p)
    /\ Goes(c, [Started("dispatch", "create", p.task) EXCEPT !.pkg = p])
    /\ UNCHANGED <<scenario, store, fresh, route, index, cancels, resumes, run, launches, crashes>>

\* Mutant: create does not look for an owner of the key.
CreateAllowed_TaskOnly(p) == store[p.task].phase = "ABSENT"

\* Mutant: create overwrites a record of the same task.
CreateAllowed_KeyOnly(p) == Owner(p.key) = {}

CreateAllowed(p) == store[p.task].phase = "ABSENT" /\ Owner(p.key) = {}

(* _create_prepared_record: durable intent before the physical dispatch.   *)
CreatePrepared(c) ==
    /\ call[c].pc = "create"
    /\ CreateAllowed(call[c].pkg)
    /\ SwapsAndHolds(c, call[c].task,
             Prepared(call[c].pkg.key, call[c].pkg.intent, OriginOf[HostOf[c]]))
    /\ Goes(c, [call[c] EXCEPT !.pc = "launch"])
    /\ UNCHANGED <<scenario, route, index, cancels, resumes, run, launches, crashes>>

(* Lost the create race: replay an identical intent that is confirmed ...  *)
CreateLost(c) ==
    /\ call[c].pc = "create"
    /\ store[call[c].task].phase = "ABSENT"
    /\ ReplaysFromDurable(c, call[c].pkg)
    /\ Returns(c, "ok")
    /\ UNCHANGED <<scenario, store, fresh, cancels, resumes, run, launches, crashes>>

(* ... and raise on a conflict, an unresolved intent or a taken task id.   *)
CreateRaises(c) ==
    /\ call[c].pc = "create"
    /\ ~CreateAllowed(call[c].pkg)
    /\ store[call[c].task].phase # "ABSENT" \/ ~Replayable(call[c].pkg)
    /\ Returns(c, "raised")
    /\ UNCHANGED <<scenario, store, fresh, route, index, cancels, resumes, run, launches, crashes>>

Launches(p) ==
    /\ launches[p] < MaxLaunches
    /\ launches' = [launches EXCEPT ![p] = @ + 1]
    /\ run' = [run EXCEPT ![p.task] = "RUNNING"]

(* adapter.dispatch succeeds; route and index are recorded in memory.      *)
Launch(c) ==
    /\ call[c].pc = "launch"
    /\ Launches(call[c].pkg)
    /\ route' = [route EXCEPT ![HostOf[c]][call[c].task] = "RUNNING"]
    /\ index' = [index EXCEPT ![HostOf[c]] = @ \cup {call[c].pkg}]
    /\ Goes(c, [call[c] EXCEPT !.pc = "confirm"])
    /\ UNCHANGED <<scenario, store, fresh, cancels, resumes, crashes>>

(* adapter.dispatch raises, with the worker started or not: the PREPARED   *)
(* record stays.                                                           *)
LaunchRaises(c) ==
    /\ call[c].pc = "launch"
    /\ Launches(call[c].pkg) \/ UNCHANGED <<launches, run>>
    /\ Returns(c, "raised")
    /\ UNCHANGED <<scenario, store, fresh, route, index, cancels, resumes, crashes>>

Confirmed(r) == [r EXCEPT !.phase = "DISPATCHED", !.state = "RUNNING"]

(* The DISPATCHED swap, against the revision create returned.              *)
Confirm(c) ==
    /\ call[c].pc = "confirm"
    /\ Swappable(c, call[c].task, Confirmed(store[call[c].task]))
    /\ Swaps(call[c].task, Confirmed(store[call[c].task]))
    /\ Returns(c, "ok")
    /\ UNCHANGED <<scenario, route, index, cancels, resumes, run, launches, crashes>>

ConfirmStale(c) ==
    /\ call[c].pc = "confirm"
    /\ ~Swappable(c, call[c].task, Confirmed(store[call[c].task]))
    /\ Returns(c, "raised")
    /\ UNCHANGED <<scenario, store, fresh, route, index, cancels, resumes, run, launches, crashes>>

-----------------------------------------------------------------------------
(* The adapter and the worker it started (the host client is external).    *)

(* status: the run's state; a host that cannot be reached or an            *)
(* inconclusive timeout is UNKNOWN; a lost handle binding raises.          *)
StatusAnswers(t) ==
    {"UNKNOWN", "ERROR"} \cup (IF run[t] \in {"TIMEOUT", "NOTRUN"} THEN {} ELSE {run[t]})

(* result: an authoritative timeout is a terminal FAILED.                  *)
ResultAnswers(t) ==
    {"UNKNOWN", "ERROR"} \cup
    (IF run[t] = "TIMEOUT" THEN {"FAILED"} ELSE IF run[t] = "NOTRUN" THEN {} ELSE {run[t]})

WorkerEnds(t, s) ==
    /\ run[t] = "RUNNING"
    /\ run' = [run EXCEPT ![t] = s]
    /\ UNCHANGED <<scenario, store, fresh, route, index, cancels, resumes, launches, call, crashes>>

-----------------------------------------------------------------------------
(* status, result, reconcile_status: look up the route and ask the adapter. *)

Query(c, op, t, answers) ==
    /\ CanCall(c, op)
    /\ HasRoute(HostOf[c], t)
    /\ Rehydrates(HostOf[c], t)
    /\ \E a \in answers : Goes(c, [Started(op, "answered", t) EXCEPT !.obs = a])
    /\ UNCHANGED <<scenario, store, fresh, index, cancels, resumes, run, launches, crashes>>

Status(c, t) == Query(c, "status", t, StatusAnswers(t))
Result(c, t) == Query(c, "result", t, ResultAnswers(t))
Reconcile(c, t) == Query(c, "reconcile", t, StatusAnswers(t))

(* cancel: refused on a terminal route.  The adapter keeps the host's      *)
(* first answer, a refusal too, and repeats it.                            *)
CancelAsks(c, t) ==
    /\ CanCall(c, "cancel")
    /\ HasRoute(HostOf[c], t)
    /\ Known(HostOf[c], t) \notin Terminal
    /\ Rehydrates(HostOf[c], t)

\* Mutant: a cancel that was answered is taken to have succeeded.
CancelAnswered_Assumed(c, t, a) ==
    Goes(c, [Started("cancel", "answered", t) EXCEPT !.obs = "CANCELLED"])

CancelAnswered(c, t, a) ==
    Goes(c, [Started("cancel", "answered", t) EXCEPT !.obs = a])

(* The host stops the worker, or answers with the state the run is in.     *)
Cancel(c, t) ==
    /\ CancelAsks(c, t)
    /\ cancels[HostOf[c]][t] = None
    /\ \E a \in {"CANCELLED", run[t]} \cap TaskState :
          /\ a = "CANCELLED" => run[t] \in {"RUNNING", "CANCELLED"}
          /\ run' = [run EXCEPT ![t] = IF a = "CANCELLED" THEN a ELSE @]
          /\ cancels' = [cancels EXCEPT ![HostOf[c]][t] = a]
          /\ CancelAnswered(c, t, a)
    /\ UNCHANGED <<scenario, store, fresh, index, resumes, launches, crashes>>

CancelRepeats(c, t) ==
    /\ CancelAsks(c, t)
    /\ cancels[HostOf[c]][t] # None
    /\ CancelAnswered(c, t, cancels[HostOf[c]][t])
    /\ UNCHANGED <<scenario, store, fresh, index, cancels, resumes, run, launches, crashes>>

CancelUnreachable(c, t) ==
    /\ CancelAsks(c, t)
    /\ cancels[HostOf[c]][t] = None
    /\ CancelAnswered(c, t, "UNKNOWN")
    /\ UNCHANGED <<scenario, store, fresh, index, cancels, resumes, run, launches, crashes>>

(* resume: refused on a terminal route; the adapter repeats its answer to  *)
(* a resume package it has seen.                                           *)
Resume(c, t) ==
    /\ CanCall(c, "resume")
    /\ HasRoute(HostOf[c], t)
    /\ Known(HostOf[c], t) \notin Terminal
    /\ run[t] = "RUNNING" \/ t \in resumes[HostOf[c]]
    /\ Rehydrates(HostOf[c], t)
    /\ resumes' = [resumes EXCEPT ![HostOf[c]] = @ \cup {t}]
    /\ Goes(c, [Started("resume", "answered", t) EXCEPT !.obs = "RUNNING"])
    /\ UNCHANGED <<scenario, store, fresh, index, cancels, run, launches, crashes>>

-----------------------------------------------------------------------------
(* After the answer: check it against the route, keep it there, and read   *)
(* the record.                                                             *)

(* _observe_adapter_state turns an adapter error into uncertainty.         *)
Observed(h, op, t, a) ==
    IF a = "ERROR" /\ op = "reconcile"
    THEN IF route[h][t] \in Terminal THEN route[h][t] ELSE "UNKNOWN"
    ELSE a

(* _validated_response_state; resume asks without it (enforce_terminal).   *)
Contradicts(h, op, t, s) ==
    op # "resume" /\ route[h][t] \in Terminal /\ s # route[h][t]

StateOp(op) == op \in {"status", "cancel", "resume", "reconcile"}

(* _persist_route_state keeps a durable terminal state; result and         *)
(* persist_reconciled_terminal_result attach a terminal result.            *)
NeedsSwap(op, r, s) ==
    IF StateOp(op) \/ s \notin Terminal
    THEN r.state # s /\ r.state \notin Terminal /\ (StateOp(op) \/ r.result = None)
    ELSE r.result = None

Wanted(op, r, s) ==
    IF StateOp(op) \/ s \notin Terminal
    THEN [r EXCEPT !.state = s]
    ELSE [r EXCEPT !.state = s, !.result = s]

(* A result that is already durable and differs is a protocol error.       *)
ResultClashes(op, r, s) == ~StateOp(op) /\ r.result # None /\ r.result # s

Answer(c) == Observed(HostOf[c], call[c].op, call[c].task, call[c].obs)

Refused(c) ==
    \/ Answer(c) = "ERROR"
    \/ Contradicts(HostOf[c], call[c].op, call[c].task, Answer(c))

AnswerRaises(c) ==
    /\ call[c].pc = "answered"
    /\ Refused(c)
    /\ Returns(c, "raised")
    /\ UNCHANGED <<scenario, store, fresh, route, index, cancels, resumes, run, launches, crashes>>

KeepsAnswer(c) ==
    /\ call[c].pc = "answered"
    /\ ~Refused(c)
    /\ route' = [route EXCEPT ![HostOf[c]][call[c].task] = Answer(c)]

AnswerKept(c) ==
    LET r == store[call[c].task] IN
    /\ KeepsAnswer(c)
    /\ ~NeedsSwap(call[c].op, r, Answer(c))
    /\ Returns(c, IF ResultClashes(call[c].op, r, Answer(c)) THEN "raised" ELSE "ok")
    /\ UNCHANGED <<scenario, store, fresh, index, cancels, resumes, run, launches, crashes>>

AnswerSwaps(c) ==
    LET r == store[call[c].task] IN
    /\ KeepsAnswer(c)
    /\ NeedsSwap(call[c].op, r, Answer(c))
    /\ Reads(c, call[c].task)
    /\ Goes(c, [call[c] EXCEPT !.pc = "swap", !.want = Wanted(call[c].op, r, Answer(c))])
    /\ UNCHANGED <<scenario, store, index, cancels, resumes, run, launches, crashes>>

Swap(c) ==
    /\ call[c].pc = "swap"
    /\ Swappable(c, call[c].task, call[c].want)
    /\ Swaps(call[c].task, call[c].want)
    /\ Returns(c, "ok")
    /\ UNCHANGED <<scenario, route, index, cancels, resumes, run, launches, crashes>>

SwapRaises(c) ==
    /\ call[c].pc = "swap"
    /\ ~Swappable(c, call[c].task, call[c].want)
    /\ Returns(c, "raised")
    /\ UNCHANGED <<scenario, store, fresh, route, index, cancels, resumes, run, launches, crashes>>

(* bind_origin_session_ref: read, then bind what no one has bound yet.     *)
BindOrigin(c, t, s) ==
    /\ CanCall(c, "bind")
    /\ store[t].phase # "ABSENT"
    /\ store[t].origin = None
    /\ Reads(c, t)
    /\ Goes(c, [Started("bind", "swap", t) EXCEPT !.want = [store[t] EXCEPT !.origin = s]])
    /\ UNCHANGED <<scenario, store, route, index, cancels, resumes, run, launches, crashes>>

-----------------------------------------------------------------------------
(* The host's process dies; routes, index and the adapter's caches are     *)
(* gone, the records and the workers are not.                              *)
CrashHost(h) ==
    /\ crashes < scenario.crashes
    /\ crashes' = crashes + 1
    /\ route' = [route EXCEPT ![h] = [t \in Task |-> NoRoute]]
    /\ index' = [index EXCEPT ![h] = {}]
    /\ cancels' = [cancels EXCEPT ![h] = [t \in Task |-> None]]
    /\ resumes' = [resumes EXCEPT ![h] = {}]
    /\ call' = [c \in Thread |-> IF HostOf[c] = h THEN Idle("none") ELSE call[c]]
    /\ fresh' = [c \in Thread |-> IF HostOf[c] = h THEN {} ELSE fresh[c]]
    /\ UNCHANGED <<scenario, store, run, launches>>

DispatchStep(c) ==
    \/ CreatePrepared(c) \/ CreateLost(c) \/ CreateRaises(c)
    \/ Launch(c) \/ LaunchRaises(c) \/ Confirm(c) \/ ConfirmStale(c)

AnswerStep(c) ==
    \/ AnswerRaises(c) \/ AnswerKept(c) \/ AnswerSwaps(c)
    \/ Swap(c) \/ SwapRaises(c)

Request(c) ==
    \/ \E p \in scenario.packages : DispatchReplays(c, p) \/ Dispatch(c, p)
    \/ \E t \in Task :
          \/ Status(c, t) \/ Result(c, t) \/ Reconcile(c, t)
          \/ Cancel(c, t) \/ CancelRepeats(c, t) \/ CancelUnreachable(c, t)
          \/ Resume(c, t)
          \/ \E s \in Session : BindOrigin(c, t, s)

Environment ==
    \/ \E t \in Task, s \in {"COMPLETED", "FAILED", "TIMEOUT"} : WorkerEnds(t, s)
    \/ \E h \in Host : CrashHost(h)

Next ==
    \/ \E c \in Thread : Request(c) \/ DispatchStep(c) \/ AnswerStep(c)
    \/ Environment

Spec == Init /\ [][Next]_vars

-----------------------------------------------------------------------------
(* Properties.                                                             *)

(* No idempotency key and no task id is ever physically dispatched twice,  *)
(* by one host or two, through crashes, replays and lost create races.     *)
LaunchedOnce ==
    \A p, q \in Package :
       /\ launches[p] <= 1
       /\ launches[p] = 1 /\ launches[q] = 1 /\ (p.key = q.key \/ p.task = q.task) => p = q

(* What really became of a run.                                            *)
Truth(t) == IF run[t] = "TIMEOUT" THEN "FAILED" ELSE run[t]

(* A terminal state on record is what the worker's run came to, whichever  *)
(* host recorded it, from whichever answer, cached answers included.       *)
RecordedIsReal == \A t \in Task : store[t].state \in Terminal => store[t].state = Truth(t)

(* A worker that was started has a durable record of the intent it was     *)
(* started for: no run is unaccounted for, wherever the host died.         *)
NoUnrecordedRun ==
    \A p \in Package : launches[p] > 0 =>
       /\ store[p.task].phase # "ABSENT"
       /\ store[p.task].key = p.key
       /\ store[p.task].intent = p.intent

(* Every record lives the life TaskOutcome allows: accepted once, one      *)
(* outcome for good, settled at most once and only after its outcome.      *)
OutcomeOf(r) ==
    IF r.phase = "ABSENT" THEN "NEW" ELSE IF r.state \in Terminal THEN r.state ELSE "OPEN"

Abstract == INSTANCE TaskOutcome WITH
    Outcome <- Terminal,
    outcome <- [t \in Task |-> OutcomeOf(store[t])],
    settled <- [t \in Task |-> IF store[t].delivery \in Settled THEN store[t].delivery ELSE "NO"]

RefinesOutcome == Abstract!Spec

-----------------------------------------------------------------------------
(* What makes the invariants inductive.                                    *)

(* A record is that of a package and the only one of its key, and a worker *)
(* runs over a record only.                                                *)
RecordInv ==
    /\ \A t \in Task : store[t].phase # "ABSENT" =>
          [task |-> t, key |-> store[t].key, intent |-> store[t].intent] \in Package
    /\ \A t, u \in Task :
          store[t].phase # "ABSENT" /\ store[u].phase # "ABSENT" /\ store[t].key = store[u].key
             => t = u
    /\ \A t \in Task : store[t].phase = "ABSENT" => store[t] = NoRecord /\ run[t] = "NOTRUN"

(* A thread that launches or confirms made the record, and nobody launched *)
(* its task before; one that swaps over the current revision changes       *)
(* neither what the record is for nor its delivery and attempts.           *)
CallOk(c) ==
    /\ call[c].pc # "idle" => call[c].task \in Task
    /\ call[c].pc \in {"create", "launch", "confirm"} =>
          call[c].pkg \in Package /\ call[c].pkg.task = call[c].task
    /\ call[c].pc \in {"launch", "confirm"} =>
          /\ store[call[c].task].phase # "ABSENT"
          /\ store[call[c].task].key = call[c].pkg.key
          /\ store[call[c].task].intent = call[c].pkg.intent
    /\ call[c].pc = "launch" => run[call[c].task] = "NOTRUN" /\ launches[call[c].pkg] = 0
    /\ call[c].pc = "answered" => call[c].obs \in TaskState \cup {"ERROR"}
    /\ call[c].pc = "swap" /\ call[c].task \in fresh[c] =>
          /\ call[c].want.phase = store[call[c].task].phase
          /\ call[c].want.key = store[call[c].task].key
          /\ call[c].want.intent = store[call[c].task].intent
          /\ call[c].want.delivery = store[call[c].task].delivery
          /\ call[c].want.attempt = store[call[c].task].attempt

CallInv == \A c \in Thread : CallOk(c)

OneLauncher ==
    \A c, d \in Thread :
        call[c].pc = "launch" /\ call[d].pc = "launch" /\ call[c].task = call[d].task => c = d

(* Whatever holds a terminal state of a task tells of a run that is over;  *)
(* what is exact tells what the run came to.                               *)
Tells(m, t, s) ==
    s \in Terminal => /\ run[t] \notin {"NOTRUN", "RUNNING"}
                      /\ m = "exact" => s = Truth(t)

TruthInv(m) ==
    /\ \A t \in Task : Tells(m, t, store[t].state)
    /\ \A h \in Host, t \in Task : Tells(m, t, route[h][t]) /\ Tells(m, t, cancels[h][t])
    /\ \A c \in Thread :
          /\ call[c].pc = "answered" => Tells(m, call[c].task, call[c].obs)
          /\ call[c].pc = "swap" => Tells(m, call[c].task, call[c].want.state)

(* The inductive invariant of dispatch, and of the answers.                *)
DispatchInv == TypeOK /\ RecordInv /\ CallInv /\ OneLauncher /\ NoUnrecordedRun /\ LaunchedOnce

DispatcherInv == DispatchInv /\ TruthInv("exact")
=============================================================================
