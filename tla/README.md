# Verification of aota_forge

TLA+ models of the parts of `aota_forge` that keep durable state, TLC runs that
check them on small instances, and TLAPS proofs. Paths below are relative to
`src/aota_forge/`. `PROJECT.json` maps every definition to the lines it models,
lists the runs, the mutants that show each property can fail, the hazards and
the theorems.

## 1. The system and its parts

aota_forge governs a software project through a *Plan*: one authoritative text
document per Plan, whose every change is requested with an idempotency key and
an expected digest, journalled, written, read back and then bound in a database
record. Agents are dispatched to work on the Plan, their results stored and
delivered. There is no transaction across document, journal, database and
agents, so most of the code is about what may happen between two of them.

| part | state it keeps | operations | hard because | correct means |
|---|---|---|---|---|
| mutation journal, `core/journal` | one JSON file of entries (record, state, revision) | `create_prepared`, `cas_transition`, `cas_update_evidence`, `attempt_external_mutation`, `recover_one`, `recover_all`, `create_retry_journal` | attempts and recoveries race, answers get lost, processes die between the write and its record | one attempt per entry, true verdicts, verdicts final, every entry settles |
| local Plan authority, `adapters/plan_authority/local_governance.py` | the Plan document | `read`, `mutate`, `verify` | the answer of a write that landed may be lost | writes only the candidate, only over the authorised digest |
| Plan lifecycle, `governance/local_lifecycle.py` | nothing of its own; drives document, journal and record | `initialize`, `amend`, `close_local_plan`, `retire`, `cutover`, `recover`, `recover_retired_final_body`, `recover_active_local_plan_orphan_body` | three stores, stale reads, replays, death anywhere | the record names only verified bodies, no lost update, retirement final, reported successes true |
| project governance store, `governance/sqlite_store.py` | SQLite rows of projects, Plans, resources | `put_plan`, `get_plan`, `compare_and_swap_plan`, ... | concurrent processes | a swap replaces exactly the version read |
| execution dispatcher and store, `core/execution` | one JSON file of execution records; in-memory routes and caches per host | `dispatch`, `status`, `result`, `cancel`, `resume`, `reconcile`, bind-once operations; store `create`, `compare_and_swap`, `get`, `close` | restart between dispatch and confirmation; a lock per task over a file and a map of all tasks | no second physical dispatch, one outcome for good, no lost record |
| completion pump, `runtime/completion.py` | result, CARD and delivery fields of the execution record | `recover_once`, `deliver_pending_once`, `admit_dispatch` | claims expire while their owner is still sending, several pumps, lost answers | one story per task, attempts bounded, everything that ended is settled |
| session bridge, `session_bridge.py` | secret, epoch, consumed nonces | `issue`, `verify`, `rotate` | rotation between the two critical sections of `verify` | a token is accepted at most once, never across epochs |
| session router, `mcp_transport.py` | slot per session with its adapter, completion thread and counters | `invoke`, pass request, retire, evict, `close` | three locks; calls, passes, rotation and shutdown overlap | no adapter closed in use, no request lost, shutdown ends |
| task-main coordinator, `runtime/task_main` | one durable Milestone record | `activate_milestone`, `recover_coordinator`, `advance_milestone_once`, `dispatch_ready`, reconcile, `close`, setters | every call reads, decides and swaps later; workers run before their binding is stored | work in order and once, receipts exactly once, every completion reconciled |
| context switch, `runtime/task_main/context_switch_*.py` | a transition inside the coordinator record | `switch`, `recover_context_switch` | two swaps with other callers between them | applied once, and over the record that was judged |
| core command path, `core/transaction.py`, `capability_lease.py`, `idempotency.py`, `revision.py` | in-memory leases, revisions, results | authorise, lease, execute, replay | replay against an older revision | a command takes effect once, under a valid lease |
| work plane, `work_plane` | handoff and result files; otherwise pure | handoff, durable results, progression, review, closure | mostly pure decisions | decisions agree with their definition |
| authority cutover and shadow, `core/cutover*`, `core/shadow*`, `core/migration` | none (evidence in, verdict out) | evaluation | - | - |
| adapters, composition, CLI | none of their own | wiring, HTTP, processes | external | - |

Interactions. The lifecycle coordinator reads the record from the governance
store, looks the idempotency key up in the journal, reads the document through
the adapter, creates the journal entry and hands it to `RecoveryExecutor`, which
calls `port.mutate` and `port.verify`; then it reads the document and the record
again and swaps the record. The dispatcher creates a durable record, calls an
`ExecutionAdapter`, and stores the route; the completion pump works on the same
record and delivers its CARD to the origin session. The MCP server verifies a
call's token with the bridge, admits it to its session's slot and runs it there;
a `task.start` asks the slot's completion thread for a pass. The coordinator
dispatches Work Items through `admit_dispatch`, observes their records and
stores receipts in its own. All stores are shared by threads and processes;
journal recovery is a call that someone makes, the pump a bounded loop.

## 2. Modules

| module | models | used by |
|---|---|---|
| `JournalRules` | state names, allowed transitions, terminal and recoverable states, three-way classification, when the port refuses | `Journal`, `PlanLifecycle` |
| `Journal` | journal store, executor, retry handoff, port and one document | `JournalMC`, `JournalProofs` |
| `AttemptLedger` | what the journal promises: an entry is registered, tried at most once, settled at most once | refined by `Journal` |
| `PlanLifecycle` | the lifecycle coordinator with journal, document, record and GitHub source | `PlanLifecycleMC` |
| `ExecutionStore` | the file store of execution records, lock by lock | `ExecutionStoreMC` |
| `ExecutionRules` | task and delivery states, allowed transitions, shape of a record | `Dispatcher` |
| `Dispatcher` | the dispatcher's operations over records, adapter caches and physical runs | `DispatcherMC`, `Completion` |
| `TaskOutcome` | what dispatcher and pump promise of a task: accepted once, one outcome, settled once | refined by `Dispatcher` and `Completion` |
| `Completion` | the pump's passes and admission; EXTENDS `Dispatcher` | `CompletionMC` |
| `SessionBridge` | tokens, verify in two critical sections, rotate | `SessionRouter` |
| `SessionRouter` | slots, calls, completion threads, close; EXTENDS `SessionBridge` | `SessionRouterMC` |
| `Coordinator` | the Milestone record and its callers, over execution records as far as they are looked at | `ContextSwitch` |
| `ContextSwitch` | switching the session to another Plan; EXTENDS `Coordinator` | `CoordinatorMC` |
| `...MC` | instances for TLC | the `.cfg` files |
| `JournalProofs`, `PlanLifecycleProofs`, `ExecutionStoreProofs`, `SessionBridgeProofs`, `CoordinatorProofs` (with `ContextSwitch`) | theorems about the module of that name | - |
| `SessionRouterProofs` | theorems about the router; EXTENDS the bridge's | - |
| `DispatcherProofs`, `CompletionProofs` | theorems about the dispatcher, and about pump and admission; the second EXTENDS the first | - |

Two techniques recur. A variable `scenario`, chosen at Init and never changed,
holds the surroundings of a behaviour (who calls what, which packages, how many
crashes), so that one run covers several constellations without multiplying
them with each other. And a revision number that every swap increases is
replaced by the set `fresh` of those who hold the current one: "my revision is
still the stored one" is "nobody swapped since I read", and no counter needs a
bound.

### Journal

`journal[j]` is the durable entry (state, revision, last readback, evidence
mark), `intent[j]` the immutable part of its record, `plan` the digest of the
document, `worker[w]` one call in flight: the statement it is at and the entry
it read. `attempts` and `landed` are history and guard nothing.

The file store takes a lock around load, compare and persist, so a store call is
one action; between two actions of a worker everything else may happen, and what
the worker holds may be stale. A failed compare-and-set is visible as the guard
`CasAccepts`; the call then returns (`StoreOrReadFails`, which also stands for a
failed write of the file and a failed readback). `Crash` loses the worker's copy.
`attempt_external_mutation` is `AttemptLoad`, `ClaimApplying`, one of the four
`Mutate...` outcomes, `PersistOutcome` or `Verify`, `PersistObserved`,
`PersistVerdict`; `recover_one` is `RecoverLoad`, `DiscardPrepared` or
`EnterReconciling`, `Reverify`. `Edit` is a writer outside the system.

Data abstraction: a document, an original and a candidate are digests; the
record's other fields do not influence control. `admissible = FALSE` stands for
the requests that the port refuses before it reads the document.

### PlanLifecycle

One Plan. `document`, `source` (the GitHub body of a cutover), `record` (status,
authority kind, digest, revision), `entry` (the journal by request identity: the
code's `journal_id` is a digest of that identity), `call[c]` one call with
everything it read, and the histories `timeline` (every version of the record
with who stored it) and `reported` (successes returned).

All operations share one pipeline: read record, look up the key, read document,
create entry, claim, write, settle, verify, read record, swap, read back, mark.
One action is one access to one store. Every early return of the code is a
missing guard here; the call can then only take `Abort`, which stands for a
returned failure, an exception and the death of the process, because none of
them changes a store. Two early returns are successes and actions of their
own: an orphan recovery of the body that is bound (`LookupBound`) and the
retirement of a retired Plan (`RetireAgain`). The executor's own steps are those of `Journal`, coarser:
`Claim`, `MutateLands` or `MutateWithoutEffect`, `Settle`, and for a recovery
`ResumeUnsettled` or `ResumeOvertaken`. Settling in one step hides only states
that `Journal` explores.

What each operation checks and when is in one operator per operation:
`...MayStart` before the key is looked up, `...MayCreate` before a new entry,
`...MayBind` before the record is swapped. A body is a digest with two
attributes, its `PlanRevision` and whether it passes the terminal checks.

### ExecutionStore

The store object's map (`cache`), the file, the shared temporary name and one
call per thread: load, bind the map, decide, install the record, encode, write
the temporary file, replace. Each is a step, because `get`, `list_all` and
`scan_requiring_recovery` rebind the map under another lock than the writers
hold. A record is its revision. Failed writes, with their rollback, and deaths of
a process are bounded together by `MaxFaults`. `overlap` remembers that two calls ever ran at the same time.

### Dispatcher and Completion

`store[t]` is the durable record; `route`, `index`, `cancels` and `resumes` are a
host's memory and die with it; `run[t]` is the physical worker and `launches`
counts starts. A call is one or more steps, cut where the adapter answers and
between reading a record and swapping it. Store calls are atomic here, as the
store's contract says; whether they are is the question of `ExecutionStore`. The
adapter (Hermes) answers truthfully, with an error, or from its replay caches;
the worker's own end is an environment step. `Completion` adds the passes
(`pump[c]`: the records scanned at the start, the one in hand, what was
observed), the governed `task.return`, the origin session's inbox, and expiry of
claims as an event. `recover_once` is scan, observe or ask, gate, persist,
attach; `deliver_pending_once` is list, reclaim, claim, send, settle;
`admit_dispatch` counts and then dispatches. The number of records a pass takes
and their order are left open.

### SessionBridge and SessionRouter

A token is its nonce; the epoch stands for secret and bridge id. `verify` is
three steps: MAC under the lock, claims without it, consumption under it. The
router has one step per critical section of `_lock`, `completion_lock` and
`slot.lock`; operation and pass are opaque. `served` and `unstarted` are history.

### Coordinator and ContextSwitch

`coord` is the Milestone record (status, approval, Work Item states, receipts,
progression), `exec` what the coordinator sees of the execution records,
`call[c]` one call with what it decided on. `advance_milestone_once` is the
lifecycle checks (`Advance`, `AdvanceReactivates`), the observation
(`ObserveLoad`, `ObserveSwap`), and one action: reconcile (`ReconcileLoad`,
`PersistReceipt`), or dispatch (`DispatchReady`, `Dispatch`, `Launch` or
`LaunchUnresolved`, `Bind`). `recover_coordinator`, `activate_milestone` and
`close` decide from one read and swap a later one. The gate, the session, the
pump and other setters are the environment. The bindings are those of these calls;
the ingress makes others, which are left out (section 5).

A switch (`SwitchLoad`, `Derive`, `Admit`, `Prepare`, `Apply`) reads the record,
lists the executions twice and stores PREPARED and APPLIED in two swaps;
`RecoverSwitch` finishes a prepared one. Its intent is identified by target and
source revision; `intents` are the switches whose intent is the stored one.

## 3. Runs

Each run ends within five minutes on two cores (the coordinator, the largest, has
a million states in about two and a half). Deadlock is checked except where
requests are finite and the system may come to rest.

| run | instance | shows |
|---|---|---|
| `journal_workers` | 2 entries of any of 5 kinds, the second possibly a retry, 2 workers, foreign edits | `AtMostOneAttempt`, `NoEffectVerdictIsTrue`, `VerdictMatchesReadback`, `SettledForever`, `WriteOnlyAfterDurableApplying`, the inductive invariant `IndInv`, the refinement `ImplementsLedger` |
| `journal_live` | 1 entry, 2 workers, fairness | `EveryEntrySettles` |
| `lifecycle_stores` | 2 callers, six histories: amend and amend back; two amendments of one version and one back; foreign edits and orphan recovery; amend, close, retire; cutover; recovery and retirement of what is so already | `BoundAtMostOnce`, `DivergenceIsOwned`, `BoundIsVerified`, `BoundOnItsPrecondition`, `RetiredForGood`, `ReportedIsTrue` |
| `lifecycle_live` | initialise and amend, repeated until they return | `VerifiedGetsBound` |
| `lifecycle_close` | close only | violated: `CloseRetires` |
| `store_apart` | 2 threads of one store object, 2 tasks under one key, 3 faults, revisions to 3 | `ApartKeepsAcked`, `ApartOneOwner`, `ApartFailedStaysOut` |
| `store_threads` | 2 threads, 2 tasks with own keys, no faults | violated: `NoAcknowledgedWriteLost` |
| `dispatch` | 2 hosts with 4 packages that share keys and ids; 2 threads of a host on one task | `LaunchedOnce`, `NoUnrecordedRun`, `RecordedIsReal` |
| `completion_pumps` | one pump and crashes; two pumps; a session that asks and cancels; two tasks for one worker | `PassesProveSuccess`, `OneStory`, `AckedWasReceived`, `SendsBounded`, `NoOversubscription`, the refinement `RefinesOutcome` |
| `completion_live` | one task, one pump, one crash, fairness | `EndedIsSettled` |
| `router` | 2 sessions for one slot, 2 calls, 2 completion threads, 2 tokens, one rotation, shutdown | `InUseIsOpen`, `PassKeepsSlot`, `AcceptedOnce`, `BridgeInv`, `AcceptedInItsEpoch`, `RequestServed`, `CloseEnds` |
| `coordinator` | 2 Work Items in a chain or both ready, 2 callers; room for one worker; 2 switches to 2 Plans against a caller | `ActiveIsDispatched`, `WorkInOrder`, `AckedIsReconciled`, `SwitchedFromQuiet`, `CompletionIsReconciled` |

Why the bounds are enough. Two workers, callers, pumps or threads give every
pair of operations an arbitrary interleaving; each may start again after it
dies, so that longer sequences and a third that finds the leavings of two occur.
Two entries are what a retry needs, two tasks with one key and two packages with
one id what the conflicts need. In `PlanLifecycle` three bodies are the bound
one, its successor and a terminal one; going back to the first gives the ABA
case, and the requests' literal keys and expected revisions bound the record.
An attempt cap of 2 allows a reclaim and the refusal after it. One slot for two
sessions forces eviction. One fault and one turn in the coordinator leave a
dispatch in doubt, or a caller dead, or the gate, the session, the brake or a
revision changed at any point; a switch needs one Work Item to lose its race to.
Where two pumps deliver (`PlainEnds`), the worker ends well and its `task.return`
is not "blocked"; the scenarios with one pump have every end.
`store_apart` follows calls that overlap until a write has returned
(`UntilReturned`): its properties speak of the time before any overlap.

### What the violated runs show

* `CloseRetires`: `close_local_plan` calls `amend` with an event that has no
  decision receipt, and `amend` demands one (local_lifecycle.py:1469). No close
  succeeds; the code after that call (1711-1740) is dead and is not modelled, so
  a mended event needs that retirement added here before the run can pass.
* `NoAcknowledgedWriteLost`: a read, or a write of another task, that loaded the
  file earlier rebinds the store's map between a writer's change and its persist
  (durable_state.py:1147); the persist writes a map without the record and
  reports success. The session's thread and its completion thread share a store.

### What the models reach besides

The code lets the following happen; where a property exists it says what holds
in spite of it.

* `recover_one` takes any APPLYING entry, also one whose attempt is alive and
  has not called `mutate`: RETRYABLE_NO_EFFECT is stored, then the write lands.
* `recover` (local_lifecycle.py:2473) derives an amendment's identity from
  `source_binding`, which amendments leave empty, and refuses it; repeating
  `amend` does resume it. `retire` (2575) does not look at entries in flight, so
  an amendment claimed before it writes the document after it.
* With two amendments admitted for one version and a third that brings the first
  body back, a write that stalled after its claim lands after all of them: the
  port finds the digest it was told to expect. The document then has the body of
  an entry whose version is past, which no operation can bind, and
  `recover_active_local_plan_orphan_body` refuses a body that an entry has for
  its candidate. `DivergenceIsOwned` promises an entry of the stored version only
  where no two requests were admitted for one version (`NoRivals`).
* Two creates of different tasks with one key, overlapping, both succeed. `close`
  of a store object writes the map it last loaded over what others wrote since.
* A `status` call after a clean exit stores COMPLETED without the worker's
  `task.return`, which the pump's gate would have asked for. A recovery pass
  takes a dispatch in flight for one a crash left. A delivery may go out again
  after its ACK, when the claim expired during the send.
* `recover_coordinator` stores the loss of the session over CLOSED, after which
  the coordinator becomes ACTIVE again (against coordinator.py:2252); and one
  that waited for approval comes back ACTIVE without it and never dispatches.
* A worker dispatched after a switch listed the executions runs on across it. A
  transition prepared over a record that then moved on is never applied,
  recovered or cleared, and blocks every later switch.

### Fairness

`RecoveryFairness` (Journal): no call hangs, and recovery is invoked again and
again and neither store nor readback fails it for ever. The code has no daemon:
`recover_all` is an explicit call, so this is an assumption on the operator and
`EveryEntrySettles` says what it buys. `Persistence` (PlanLifecycle): calls
proceed or return, requests are repeated, and from some point on no call that
could proceed is cut short; without it a process that always dies at the same
statement would refute every liveness property of any program.
`VerifiedGetsBound` is claimed where nobody else writes the document or retires
the Plan; the code gives up by design in those cases. `CompletionFairness`: the
continuation loops while records remain, the adapter asked again and again, and
the provider of task.returns, answer truthfully in the end, and time passes
(claims expire). `RouterFairness`: operations return and threads run.
`CoordinatorFairness`: calls go on, task-main calls `advance_once` again and
again, and the pump attaches CARDs; nothing is assumed of switches.

## 4. Proofs

`JournalProofs` proves, for any sets of entries, workers, digests and intents
satisfying `DigestAssumption` and `IntentAssumption`:

| theorem | statement |
|---|---|
| `Inductive` | `Spec => []IndInv` |
| `Typing` | `Spec => []TypeOK` |
| `AttemptOnce` | `Spec => []AtMostOneAttempt` |
| `NoEffectTruth` | `Spec => []NoEffectVerdictIsTrue` |
| `VerdictReadback` | `Spec => []VerdictMatchesReadback` |
| `Settled` | `Spec => SettledForever` |
| `WriteOrder` | `Spec => WriteOnlyAfterDurableApplying` |
| `Refinement` | `Spec => ImplementsLedger` |

The argument. None of the properties is inductive: that a second worker cannot
call `mutate` rests on what each worker holds. `IndInv` adds

* `HeldInv`: the state a worker holds is determined by the statement it is at;
* `OwnerInv`: at most one worker is between the claim and the stored outcome of
  an entry, and the entry is then durably past PREPARED. The claim is a
  compare-and-set from PREPARED, and nothing leads back to PREPARED, so the
  second claimant is refused;
* `EffectInv`: an owner that has not called `mutate` has `attempts = 0` and its
  entry is not FAILED_NO_EFFECT; an owner about to store FAILED_NO_EFFECT has
  nothing landed.

FAILED_NO_EFFECT is then true because it is stored either from PREPARED, when
nothing was attempted and the claim is lost for good, or by the owner after a
refusal. There is one lemma per action, and under it a step per conjunct. The
refinement maps an entry's state to a verdict; every action is a `Register`,
`Try` or `Settle` of the ledger or leaves it unchanged, the invariant supplying
that `Try` happens once and not after "no_effect".

`SessionBridgeProofs` proves for any tokens, sessions, requests and number of
rotations satisfying `BridgeAssumption`:

| theorem | statement |
|---|---|
| `BridgeInvHolds` | `BridgeSpec => []BridgeInv` |
| `TokensAreSingleUse` | `BridgeSpec => []AcceptedOnce` |
| `RotationInvalidates` | `BridgeSpec => AcceptedInItsEpoch` |

`AcceptedOnce` alone is not inductive, because `rotate` empties the set that
guards it. `BridgeInv` adds that an accepted nonce is still in `consumed` or was
issued in a past epoch, that no token is ahead of the epoch, and that a verify
between its critical sections carries the epoch of its token; the second critical
section compares that epoch with the current one, so a forgotten nonce is of a
past epoch and is refused.

`SessionRouterProofs`, for any sessions, slots and finite set of callers
(`RouterAssumption`):

| theorem | statement |
|---|---|
| `RouterInvHolds` | `RouterSpec => []RouterInv` |
| `AdmittedCallsKeepTheirAdapter` | `RouterSpec => []InUseIsOpen` |
| `PassesKeepTheirSlot` | `RouterSpec => []PassKeepsSlot` |
| `RoutedTokensAreSingleUse` | `RouterSpec => []AcceptedOnce` |
| `RouterImplementsBridge` | `RouterSpec => BridgeSpec` |

The router decides from a counter (`in_flight`) that other threads change, so
`RouterInv` says what the counter counts (`CountInv`: the calls inside, as a
cardinality), that a call inside and a pass under way have a slot that is still
in the table, and that a slot out of the table is never opened again. A slot is
retired only at count zero, hence under no call.

`CoordinatorProofs`, for any graph of Work Items and finite set of callers, with
and without switches (`SwitchSpec`):

| theorem | statement |
|---|---|
| `CoordinatorCorrect` | `SwitchSpec => []CoordinatorInv` |
| `ActiveIsAlwaysDispatched` | `SwitchSpec => []ActiveIsDispatched` |
| `WorkIsAlwaysInOrder` | `SwitchSpec => []WorkInOrder` |
| `AckedIsAlwaysReconciled` | `SwitchSpec => []AckedIsReconciled` |
| `SwitchedOnlyFromQuiet` | `SwitchSpec => SwitchedFromQuiet` |

What a caller decided on may be stale, so the invariant separates what cannot be
lost from what holds only while the revision is current. A predecessor that
ended stays ended and a receipt stays stored: `OrderInv` needs no revision. That
a receipt is not there yet (`ReceiptInv`) and that nothing runs (`QuietInv`)
hold of those in `fresh` only, and the swap tests exactly that. `LaunchInv` makes
the creator of a PREPARED execution record its only launcher.

`DispatcherProofs`, for any tasks, packages, hosts, threads and crashes:

| theorem | statement |
|---|---|
| `DispatchIsSafe` | `Spec => []DispatchInv` |
| `DispatchedAtMostOnce` | `Spec => []LaunchedOnce` |
| `RunsAreRecorded` | `Spec => []NoUnrecordedRun` |
| `DispatcherIsCorrect` | `Spec => []DispatcherInv` |
| `RecordsAreReal` | `Spec => []RecordedIsReal` |
| `DispatcherImplementsOutcome` | `Spec => RefinesOutcome` |

`RecordInv`: present records have distinct keys and are for a package, an absent
one has no run. `CallInv` and `OneLauncher`: a thread at the launch made the
record and is alone there; one at a swap, if it is in `fresh`, changes neither
key, intent nor delivery. `TruthInv("exact")` follows a terminal state from the
adapter's answer through route, cached cancel and the answer in hand to the
record: wherever one is held it is what the run came to, and a run that is over
does not change. A step maps to `TaskOutcome`'s `Accept`, `Settle...` or a
stutter by the record it swaps.

`CompletionProofs`, for any tasks, hosts, pumps, finite set of threads, and
crashes:

| theorem | statement |
|---|---|
| `CompletionIsSafe` | `CompletionSpec => []CompletionInv` |
| `SessionsHearOneStory` | `CompletionSpec => []OneStory` |
| `AcksAreEarned` | `CompletionSpec => []AckedWasReceived` |
| `AttemptsAreBounded` | `CompletionSpec => []SendsBounded` |
| `DispatchStaysSafe` | `CompletionSpec => [](LaunchedOnce /\ NoUnrecordedRun)` |
| `CompletionImplementsOutcome` | `CompletionSpec => RefinesOutcome` |
| `AdmissionIsSound` | `OneAdmits` implies `CompletionSpec => []AdmissionInv` |
| `WorkersAreBounded` | `OneAdmits` implies `CompletionSpec => []NoOversubscription` |
| `PassesAreHonest` | `LonePump` implies `CompletionSpec => []PassesProveSuccess` |

A result or a CARD that a pump has seen is the stored one or was absent
(`SeenOk`), for both are bound once; so whatever it sends is on record
(`StoryOk`), and an ACK it is about to store was given (`AckOk`). Claims expire
and are taken again, so sends are not bounded by claims in hand: `SendInv` bounds
the sends so far plus the claimers yet to send by the attempts stored.

`OneAdmits`, the hypothesis of `AdmissionIsSound` and `WorkersAreBounded`, says
that one thread of a behaviour dispatches: a session's operations are serialised
by its slot and its store is its own, and every scenario of the runs satisfies
it. It is needed, as two admitting threads may both pass the count
(completion.py:1213). A worker that runs has a record that counts, because
whatever stores a terminal state tells of a run that is over
(`TruthInv("over")`; what the run came to is no longer the adapter's word alone,
since the gate may store a failure); the counted records grow only where a place
was found.

`LonePump`, the hypothesis of `PassesAreHonest`, says
that a pump that shares its routes with another thread that dispatches is the
only pump: a host has one completion thread beside its sessions
(`completion_thread`, mcp_transport.py:2006 to 2034), its sessions
are serialised and its store is its own; and where several hosts recover one
store, as in `TwoPumps`, the thread that recovers is the one that dispatches.
Every scenario of the runs satisfies it. `ProvenInv` follows a success through
the hands of a pass. One observed may still be unproven at the gate; past it, it
comes with the `task.return`. But the gate looks at what was observed, and
`_persist_terminal_truth` then asks `result` again: a pass that went through with
a failure may be answered COMPLETED. Either the run itself failed, and is not
answered so, or the failure came from elsewhere, and the answer is `Beaten`: an
outcome is stored already, or the route contradicts it. That a replay cannot
take the route back before the failure is stored is what needs the hypothesis.
Where one thread recovers (`FailuresLand`), a failure in its routes is stored or
it is at the swap that will store it, and no dispatch takes the revision away,
since a confirmed record is swapped by passes only; where several do, nothing
replays onto a pump's host between its steps. Without it TLC
finds a violation with three threads: the pumps of two hosts race, the one on the
first stores its failure too late and keeps it in its route only, a replay of the
dispatch there rebuilds the route from the record, and the pass that is past the
gate with that failure is answered COMPLETED.

`ExecutionStoreProofs`, for any threads, tasks, keys, revisions, write errors and
crashes:

| theorem | statement |
|---|---|
| `CallsAreOrdered` | `Spec => []CallsInv` |
| `ApartIsSound` | `OneStore` implies `Spec => []ApartInv` |
| `AcknowledgedStays` | `OneStore` implies `Spec => []ApartKeepsAcked` |
| `KeysHaveOneOwner` | `OneStore` implies `Spec => []ApartOneOwner` |
| `FailedStaysOut` | `OneStore` implies `Spec => []ApartFailedStaysOut` |
| `CallsApartAreAtomic` | `OneStore` implies `Spec => ApartIsAtomic` |

`CallsInv`, the types and the course of a call, holds whatever overlaps and in
any number of processes. `ApartInv` follows the one call that runs: between calls
the map in memory is the file (`Quiet`); during a call it is the file or the file
with the call's one change, of the revision after the one on file and under a key
that is free there (`OneChange`), and the text under way is that map (`AloneOk`).
So a rollback restores the file's map, and a replace changes one record. The
hypothesis `OneStore`, every thread uses one store object, is what the run
assumes too (`OneProcess`) and is needed: TLC shows that with two processes
`ApartKeepsAcked` fails, because `close` writes the map its object last loaded
(durable_state.py:1206), over what the other process has written since, without
any overlap. `ApartIsAtomic` states how far the atomicity that `Dispatcher` and
`Completion` assume of a store call is real: as long as no two calls overlap, a
step of the store puts a first revision under a free key, or the revision after
the one the caller holds and the file has, or hands the caller what is on file,
or changes neither; and a write is refused only for what is on file. It needs
that a swap past its check is of the revision its caller got (`SwapsHeld`), which
holds whatever overlaps. No run checks it; the theorem is for every instance.

`PlanLifecycleProofs`, for any callers, keys, bodies and surroundings satisfying
`LifecycleAssumption` and `PlanAssumption` (a Plan is unregistered or at its
first version when a behaviour starts, and no body an operation takes is empty):

| theorem | statement |
|---|---|
| `PlanIsSound` | `Spec => []PlanInv` |
| `EntriesAreBoundOnce` | `Spec => []BoundAtMostOnce` |
| `NoUpdateIsLost` | `Spec => []BoundOnItsPrecondition` |
| `BindingsAreVerified` | `Spec => []BoundIsVerified` |
| `RetirementIsFinal` | `Spec => []RetiredForGood` |
| `ReportsAreTrue` | `Spec => []ReportedIsTrue` |
| `DivergenceHasAnOwner` | `Spec => []DivergenceIsOwned` |

The histories make the argument short. `HistoryOk`: a version's number is its
revision. `CallOk`: what a call holds of the record is a version, and what it
checked still holds of that version. Hence a swap that finds the revision it
read finds the record it read (lemma `HeldIsRecord`), and every check before it
is a check of the record it replaces. `EntryOk` and `SubjectInv` tie an entry to
the one version it was created for and may replace, which is why it is bound
once. `DivergenceIsOwned` is the hard one: it speaks of the document, which calls
write long after they checked anything. `WriterOk` and `OneWriter` give each entry
one writer and no verdict that denies a write which happened or may still;
`DocumentOk`, `VerifiedOk` and `PendingOk` then follow the document of an active
Plan, of a call about to bind, and of an amendment about to be written.

What stays with TLC:

* liveness (`EveryEntrySettles`, `VerifiedGetsBound`, `EndedIsSettled`,
  `RequestServed`, `CloseEnds`, `CompletionIsReconciled`): fairness and ENABLED
  are out of the prover's reach.

Every other property of the passing runs is stated by a theorem.

## 5. Not modelled, and why

Parsing, formatting and validation of Plan bodies, receipts, packages and paths
are data: they appear as digests and attributes. File and Git I/O, HTTP clients,
CLI, composition and launchers, telemetry and skills have no protocol state.
Authority cutover, shadow evaluation, closure evidence, progression and review
workflows are pure functions of evidence records. In-memory stores have the
contract of the file stores. `preflight`, `resolve_active_local_plan`,
`recover_terminal_result` and the read back of a switch only read.

`adopt_normal_path_task_start` (coordinator.py:1222) is a second way to an ACTIVE
Work Item. After a `task.start` of its own the ingress (`core_ingress`) binds that
execution: the call requires its record to be DISPATCHED, refuses a Work Item
bound to another execution, and stores projection, ACTIVE and binding in one
swap. It does not look at predecessors and does not recompute the task's
identity; which Work Item may be started is decided by the ingress, from the
live Plan. The model has one execution per Work Item, the one `dispatch_ready`
derives, so `WorkInOrder` and `ActiveIsDispatched` speak of the Work Items that
`dispatch_ready` and the review's dispatch start, and say nothing of a worker the
ingress starts besides.

Most of the
repository's lines are of these kinds, which is why the map covers a small share
of them. `PROJECT.json` lists each part.

## 6. Plan

Done: the mutation journal with its ledger; the Plan lifecycle; the execution
store, dispatcher and completion pump with their abstract specification; the
session bridge and the router over it; the coordinator and the context switch.
All have proofs of their safety properties, and the three refinements are
proved.

Next, in this order:

1. `CommandPath`: leases, revisions and idempotent replay of
   `core/transaction.py`; append-once handoff and result stores.
2. The governance store's working sets, rehydration and intake, which write the
   same Plan records.
