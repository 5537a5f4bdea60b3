-------------------------- MODULE CoordinatorProofs --------------------------
(***************************************************************************)
(* The coordinator and context switching for any number of Work Items,     *)
(* callers and crashes, with and without a switch in flight.               *)
(*                                                                         *)
(* CoordinatorInv is inductive.  Its core: whoever may still launch a task *)
(* holds a todo of tasks that may run (MayRun) and is the only one at the  *)
(* launch of it, and the record's states are backed by the executions.     *)
(* CallInv says it caller by caller, StoredInv of the records; the lemmas  *)
(* go action by action, and NextKeepsInv puts them together.               *)
(***************************************************************************)
EXTENDS ContextSwitch, FiniteSetTheorems, WellFoundedInduction, TLAPS

Below == {p \in Nat \X Nat : p[1] < p[2]}

(* Smaller natural numbers are well founded.                               *)
LEMMA BelowWellFounded == IsWellFoundedOn(Below, Nat)
  BY NatLessThanWellFounded, Zenon DEF OpToRel, Below

(* A set of natural numbers that is not empty holds its minimum, which is  *)
(* how dispatch_ready picks the next task.                                 *)
LEMMA MinInSet == ASSUME NEW S \in SUBSET Nat, S # {} PROVE Min(S) \in S
<1>1. PICK x \in S : \A y \in S : ~(<<y, x>> \in Below)
  BY BelowWellFounded, WFMin, Zenon
<1>2. \A y \in S : x <= y
  <2> SUFFICES ASSUME NEW y \in S, ~(x <= y) PROVE FALSE
    OBVIOUS
  <2>1. y < x /\ y \in Nat /\ x \in Nat
    OBVIOUS
  <2>2. <<y, x>> \in Below
    BY <2>1 DEF Below
  <2> QED BY <1>1, <2>2
<1> QED BY <1>2 DEF Min

(* Tasks are the Work Items and the review, finitely many numbers.         *)
LEMMA TaskFacts ==
    /\ Reviewer \in Task /\ Reviewer \notin WorkItem /\ WorkItem \subseteq Task
    /\ Task = WorkItem \cup {Reviewer} /\ Task \subseteq Nat /\ IsFiniteSet(Task)
    /\ \A m \in Scenarios : m.items \subseteq WorkItem
<1>1. IsFiniteSet(Task)
  BY CoordinatorAssumption, FS_AddElement DEF Task
<1> QED BY <1>1, CoordinatorAssumption DEF Task, Reviewer

\* What CoordinatorInv says of one caller.
CallInv(c) ==
    /\ call[c].pc = "observed" => \A t \in call[c].todo : t \in WorkItem /\ exec[t].ended
    /\ call[c].pc = "bind" =>
          call[c].task \in WorkItem /\ exec[call[c].task].phase = "DISPATCHED"
    /\ call[c].pc = "launch" =>
          exec[call[c].task].phase = "PREPARED" /\ launched[call[c].task] = 0
    /\ call[c].pc \in {"dispatch", "launch", "bind"} =>
          call[c].todo # {} /\ \A t \in call[c].todo : MayRun(t)
    /\ call[c].pc \in {"launch", "bind"} => call[c].task \in call[c].todo
    /\ call[c].pc = "receipt" /\ c \in fresh => call[c].task \notin coord.receipts

\* No two callers launch the same task.
OneLauncher ==
    \A c, d \in Caller :
        call[c].pc = "launch" /\ call[d].pc = "launch" /\ call[c].task = call[d].task => c = d

\* What it says of the records alone.
StoredInv ==
    /\ ActiveIsDispatched /\ WorkInOrder /\ AckedIsReconciled
    /\ \A t \in Task : exec[t].ended => exec[t].phase = "DISPATCHED"
    /\ \A w \in WorkItem :
          coord.wi[w] = "COMPLETION_PENDING_RECONCILIATION" => exec[w].ended
    /\ \A t \in Task : exec[t].phase = "ABSENT" => launched[t] = 0

\* The inductive invariant, caller by caller.
LEMMA InvByCaller ==
    CoordinatorInv <=> TypeOK /\ StoredInv /\ OneLauncher /\ \A c \in Caller : CallInv(c)
  BY DEF CoordinatorInv, StoredInv, CallInv, OneLauncher, DispatchInv, LaunchInv,
         OrderInv, ReceiptInv

\* The same of the next state.
LEMMA InvByCallerNext ==
    CoordinatorInv' <=> TypeOK' /\ StoredInv' /\ OneLauncher' /\ \A c \in Caller : CallInv(c)'
  BY DEF CoordinatorInv, StoredInv, CallInv, OneLauncher, DispatchInv, LaunchInv,
         OrderInv, ReceiptInv

\* A step of one caller that neither launches nor stores an execution: what
\* is stored and what every other caller knows stay as they are.
LEMMA FrameKeeps ==
    ASSUME CoordinatorInv, TypeOK', NEW c \in Caller,
           UNCHANGED <<scenario, exec, launched>>,
           coord'.wi = coord.wi, coord'.receipts = coord.receipts,
           coord'.progression = coord.progression,
           acked' \subseteq coord.receipts, fresh' \subseteq fresh \cup {c},
           \A d \in Caller \ {c} : call'[d] = call[d],
           call'[c].pc # "launch", CallInv(c)'
    PROVE  CoordinatorInv'
<1> USE InvByCaller
<1>1. StoredInv'
  BY DEF StoredInv, ActiveIsDispatched, WorkInOrder, AckedIsReconciled, Predecessors
<1>2. OneLauncher'
  BY DEF OneLauncher
<1>3. ASSUME NEW d \in Caller \ {c} PROVE CallInv(d)'
  BY <1>3 DEF CallInv, MayRun, Predecessors
<1> QED BY <1>1, <1>2, <1>3, InvByCallerNext

\* A caller that goes to a step without obligations.
LEMMA PlainKeeps ==
    ASSUME CoordinatorInv, TypeOK', NEW c \in Caller,
           UNCHANGED <<scenario, exec, launched>>,
           coord'.wi = coord.wi, coord'.receipts = coord.receipts,
           coord'.progression = coord.progression,
           acked' \subseteq coord.receipts, fresh' \subseteq fresh \cup {c},
           \A d \in Caller \ {c} : call'[d] = call[d],
           call'[c].pc \notin {"observed", "bind", "launch", "dispatch", "receipt"}
    PROVE  CoordinatorInv'
<1>1. CallInv(c)'
  BY DEF CallInv
<1> QED BY <1>1, FrameKeeps

\* The record of a call that starts.
LEMMA BeginsTypes ==
    ASSUME TypeOK, NEW c \in Caller, NEW pc \in Step, NEW blocked \in BOOLEAN,
           NEW from \in Status, Begins(c, pc, blocked, from)
    PROVE  /\ call' \in [Caller -> Call] /\ call'[c].pc = pc
           /\ \A d \in Caller \ {c} : call'[d] = call[d]
  BY TaskFacts DEF TypeOK, Begins, Call

\* The record of a call that ends.
LEMMA ReturnTypes ==
    ASSUME TypeOK, NEW c \in Caller, Return(c)
    PROVE  /\ call' \in [Caller -> Call] /\ call'[c] = Idle
           /\ \A d \in Caller \ {c} : call'[d] = call[d]
  BY TaskFacts DEF TypeOK, Return, Idle, Call, Step, Status

\* activate_milestone reads the record: no durable state changes.
LEMMA ActivateReadKeeps == ASSUME CoordinatorInv, NEW c \in Caller, ActivateRead(c) PROVE CoordinatorInv'
<1> USE DEF CoordinatorInv, TypeOK, ActivateRead, Calls, Undisturbed, Environment
<1>1. \E pc \in {"create", "handle"}, b \in BOOLEAN, from \in Status : Begins(c, pc, b, from)
  <2>1. coord.status \in Status /\ "NONE" \in Status /\ "CLOSED" \in Status
    BY DEF Record, Status
  <2> QED BY <2>1, Zenon
<1>2. /\ call' \in [Caller -> Call] /\ call'[c].pc \in {"create", "handle"}
      /\ \A d \in Caller \ {c} : call'[d] = call[d]
  BY <1>1, BeginsTypes DEF Step
<1>3. UNCHANGED <<coord, scenario, exec, launched>> /\ fresh' \subseteq fresh \cup {c}
  OBVIOUS
<1>4. TypeOK'
  BY <1>2, CoordinatorAssumption
<1>5. acked' \subseteq coord.receipts
  BY DEF AckedIsReconciled
<1> QED BY <1>2, <1>3, <1>4, <1>5, PlainKeeps

\* recover_coordinator reads the record and decides on a status.
LEMMA RecoverReadKeeps == ASSUME CoordinatorInv, NEW c \in Caller, RecoverRead(c) PROVE CoordinatorInv'
<1> USE DEF CoordinatorInv, TypeOK, RecoverRead, Calls, Undisturbed, Environment
<1>1. \E pc \in {"handle"}, b \in BOOLEAN, from \in Status : Begins(c, pc, b, from)
  <2>1. coord.status \in Status /\ "NONE" \in Status /\ "CLOSED" \in Status
    BY DEF Record, Status
  <2> QED BY <2>1, Zenon
<1>2. /\ call' \in [Caller -> Call] /\ call'[c].pc \in {"handle"}
      /\ \A d \in Caller \ {c} : call'[d] = call[d]
  BY <1>1, BeginsTypes DEF Step
<1>3. UNCHANGED <<coord, scenario, exec, launched>> /\ fresh' \subseteq fresh \cup {c}
  OBVIOUS
<1>4. TypeOK'
  BY <1>2, CoordinatorAssumption
<1>5. acked' \subseteq coord.receipts
  BY DEF AckedIsReconciled
<1> QED BY <1>2, <1>3, <1>4, <1>5, PlainKeeps

\* close reads the revision it will swap.
LEMMA CloseLoadKeeps == ASSUME CoordinatorInv, NEW c \in Caller, CloseLoad(c) PROVE CoordinatorInv'
<1> USE DEF CoordinatorInv, TypeOK, CloseLoad, Calls, Loads, Undisturbed, Environment
<1>1. \E pc \in {"status"}, b \in BOOLEAN, from \in Status : Begins(c, pc, b, from)
  <2>1. coord.status \in Status /\ "NONE" \in Status /\ "CLOSED" \in Status
    BY DEF Record, Status
  <2> QED BY <2>1, Zenon
<1>2. /\ call' \in [Caller -> Call] /\ call'[c].pc \in {"status"}
      /\ \A d \in Caller \ {c} : call'[d] = call[d]
  BY <1>1, BeginsTypes DEF Step
<1>3. UNCHANGED <<coord, scenario, exec, launched>> /\ fresh' \subseteq fresh \cup {c}
  OBVIOUS
<1>4. TypeOK'
  BY <1>2, CoordinatorAssumption
<1>5. acked' \subseteq coord.receipts
  BY DEF AckedIsReconciled
<1> QED BY <1>2, <1>3, <1>4, <1>5, PlainKeeps

\* advance_milestone_once reads the record and passes its lifecycle checks.
LEMMA AdvanceKeeps == ASSUME CoordinatorInv, NEW c \in Caller, Advance(c) PROVE CoordinatorInv'
<1> USE DEF CoordinatorInv, TypeOK, Advance, Calls, Loads, Undisturbed, Environment
<1>1. \E pc \in {"status", "reread", "observe"}, b \in BOOLEAN, from \in Status : Begins(c, pc, b, from)
  <2>1. coord.status \in Status /\ "NONE" \in Status /\ "CLOSED" \in Status
    BY DEF Record, Status
  <2> QED BY <2>1, Zenon
<1>2. /\ call' \in [Caller -> Call] /\ call'[c].pc \in {"status", "reread", "observe"}
      /\ \A d \in Caller \ {c} : call'[d] = call[d]
  BY <1>1, BeginsTypes DEF Step
<1>3. UNCHANGED <<coord, scenario, exec, launched>> /\ fresh' \subseteq fresh \cup {c}
  OBVIOUS
<1>4. TypeOK'
  BY <1>2, CoordinatorAssumption
<1>5. acked' \subseteq coord.receipts
  BY DEF AckedIsReconciled
<1> QED BY <1>2, <1>3, <1>4, <1>5, PlainKeeps

\* activate_milestone creates the record once; the loser leaves it alone.
LEMMA CreateKeeps == ASSUME CoordinatorInv, NEW c \in Caller, Create(c) PROVE CoordinatorInv'
<1> USE TaskFacts DEF CoordinatorInv, TypeOK, Create, Fresh, Return, Undisturbed, Environment, Idle
<1>1. call' \in [Caller -> Call] /\ \A d \in Caller \ {c} : call'[d] = call[d]
  BY DEF Call, Step, Status, Record
<1>2. call'[c].pc \notin {"observed", "bind", "launch", "dispatch", "receipt"}
  BY DEF Call, Step
<1>3. /\ coord' \in Record /\ coord'.wi = coord.wi
      /\ coord'.receipts = coord.receipts /\ coord'.progression = coord.progression
  BY DEF Record, Status, Call
<1>4. TypeOK'
  BY <1>1, <1>3, CoordinatorAssumption
<1>5. fresh' \subseteq fresh \cup {c} /\ acked' \subseteq coord.receipts
  BY DEF AckedIsReconciled
<1> QED BY <1>1, <1>2, <1>3, <1>4, <1>5, PlainKeeps

\* The handle reads the revision it will swap.
LEMMA HandleLoadKeeps == ASSUME CoordinatorInv, NEW c \in Caller, HandleLoad(c) PROVE CoordinatorInv'
<1> USE TaskFacts DEF CoordinatorInv, TypeOK, HandleLoad, Loads, Goto, Undisturbed, Environment
<1>1. call' \in [Caller -> Call] /\ \A d \in Caller \ {c} : call'[d] = call[d]
  BY DEF Call, Step, Status, Record
<1>2. call'[c].pc \notin {"observed", "bind", "launch", "dispatch", "receipt"}
  BY DEF Call, Step
<1>3. /\ coord' \in Record /\ coord'.wi = coord.wi
      /\ coord'.receipts = coord.receipts /\ coord'.progression = coord.progression
  BY DEF Record, Status, Call
<1>4. TypeOK'
  BY <1>1, <1>3, CoordinatorAssumption
<1>5. fresh' \subseteq fresh \cup {c} /\ acked' \subseteq coord.receipts
  BY DEF AckedIsReconciled
<1> QED BY <1>1, <1>2, <1>3, <1>4, <1>5, PlainKeeps

\* The handle swaps the status, or is refused; bindings and receipts stay.
LEMMA SwapStatusKeeps == ASSUME CoordinatorInv, NEW c \in Caller, SwapStatus(c) PROVE CoordinatorInv'
<1> USE TaskFacts DEF CoordinatorInv, TypeOK, SwapStatus, Swap, Reconciled, Approves, Return, Undisturbed, Environment, Idle
<1>1. call' \in [Caller -> Call] /\ \A d \in Caller \ {c} : call'[d] = call[d]
  BY DEF Call, Step, Status, Record
<1>2. call'[c].pc \notin {"observed", "bind", "launch", "dispatch", "receipt"}
  BY DEF Call, Step
<1>3. /\ coord' \in Record /\ coord'.wi = coord.wi
      /\ coord'.receipts = coord.receipts /\ coord'.progression = coord.progression
  BY DEF Record, Status, Call
<1>4. TypeOK'
  BY <1>1, <1>3, CoordinatorAssumption
<1>5. fresh' \subseteq fresh \cup {c} /\ acked' \subseteq coord.receipts
  BY DEF AckedIsReconciled
<1> QED BY <1>1, <1>2, <1>3, <1>4, <1>5, PlainKeeps

\* A call that dies leaves the record as it was.
LEMMA CallFailsKeeps == ASSUME CoordinatorInv, NEW c \in Caller, CallFails(c) PROVE CoordinatorInv'
<1> USE TaskFacts DEF CoordinatorInv, TypeOK, CallFails, Return, Idle
<1>1. call' \in [Caller -> Call] /\ \A d \in Caller \ {c} : call'[d] = call[d]
  BY DEF Call, Step, Status, Record
<1>2. call'[c].pc \notin {"observed", "bind", "launch", "dispatch", "receipt"}
  BY DEF Call, Step
<1>3. /\ coord' \in Record /\ coord'.wi = coord.wi
      /\ coord'.receipts = coord.receipts /\ coord'.progression = coord.progression
  BY DEF Record, Status, Call
<1>4. TypeOK'
  BY <1>1, <1>3, CoordinatorAssumption
<1>5. fresh' \subseteq fresh \cup {c} /\ acked' \subseteq coord.receipts
  BY DEF AckedIsReconciled
<1> QED BY <1>1, <1>2, <1>3, <1>4, <1>5, PlainKeeps

\* A caller goes to a step with tasks to do.
LEMMA SetsOutTypes ==
    ASSUME TypeOK, NEW c \in Caller, NEW pc \in Step, NEW tasks \in SUBSET Task,
           SetsOut(c, pc, tasks)
    PROVE  /\ call' \in [Caller -> Call] /\ \A d \in Caller \ {c} : call'[d] = call[d]
           /\ call'[c].pc = pc /\ call'[c].todo = tasks
<1>1. call \in [Caller -> Call]
  BY DEF TypeOK
<1>2. /\ call'[c] = [call[c] EXCEPT !.pc = pc, !.todo = tasks]
      /\ \A d \in Caller \ {c} : call'[d] = call[d]
  BY <1>1 DEF SetsOut
<1>3. call'[c] \in Call /\ call'[c].pc = pc /\ call'[c].todo = tasks
  BY <1>1, <1>2 DEF Call
<1> QED BY <1>1, <1>2, <1>3 DEF SetsOut

\* A caller goes to a step with one task.
LEMMA TakesTypes ==
    ASSUME TypeOK, NEW c \in Caller, NEW pc \in Step, NEW t \in Task, Takes(c, pc, t)
    PROVE  /\ call' \in [Caller -> Call] /\ \A d \in Caller \ {c} : call'[d] = call[d]
           /\ call'[c].pc = pc /\ call'[c].todo = call[c].todo /\ call'[c].task = t
<1>1. call \in [Caller -> Call]
  BY DEF TypeOK
<1>2. /\ call'[c] = [call[c] EXCEPT !.pc = pc, !.task = t]
      /\ \A d \in Caller \ {c} : call'[d] = call[d]
  BY <1>1 DEF Takes
<1>3. /\ call'[c] \in Call /\ call'[c].pc = pc /\ call'[c].task = t
      /\ call'[c].todo = call[c].todo
  BY <1>1, <1>2 DEF Call
<1> QED BY <1>1, <1>2, <1>3 DEF Takes

\* A caller goes to a step as it is.
LEMMA GotoTypes ==
    ASSUME TypeOK, NEW c \in Caller, NEW pc \in Step, Goto(c, pc)
    PROVE  /\ call' \in [Caller -> Call] /\ \A d \in Caller \ {c} : call'[d] = call[d]
           /\ call'[c].pc = pc /\ call'[c].todo = call[c].todo /\ call'[c].task = call[c].task
  BY DEF TypeOK, Goto, Call

\* The rest of the ready Work Items, or the end of the call.
LEMMA RestTypes ==
    ASSUME TypeOK, NEW c \in Caller, NEW t \in Task, DispatchRest(c, t)
    PROVE  /\ call' \in [Caller -> Call] /\ \A d \in Caller \ {c} : call'[d] = call[d]
           /\ \/ call'[c] = Idle
              \/ /\ call'[c].pc = "dispatch"
                 /\ call'[c].todo # {} /\ call'[c].todo \subseteq call[c].todo
<1> DEFINE rest == call[c].todo \ {t}
<1>1. CASE rest = {}
  <2>1. Return(c)
    BY <1>1, Zenon DEF DispatchRest
  <2> QED BY <2>1, ReturnTypes
<1>2. CASE rest # {}
  <2>1. SetsOut(c, "dispatch", rest)
    BY <1>2, Zenon DEF DispatchRest
  <2>2. rest \in SUBSET Task /\ rest \subseteq call[c].todo
    BY DEF TypeOK, Call
  <2>3. "dispatch" \in Step
    BY DEF Step
  <2> HIDE DEF rest
  <2> QED BY <1>2, <2>1, <2>2, <2>3, SetsOutTypes
<1> QED BY <1>1, <1>2

\* The session returned: the status swap goes on to the observation.
LEMMA AdvanceReactivatesKeeps ==
    ASSUME CoordinatorInv, NEW c \in Caller, AdvanceReactivates(c) PROVE CoordinatorInv'
<1> USE DEF CoordinatorInv, TypeOK, AdvanceReactivates, Undisturbed, Environment
<1>1. \/ Begins(c, "observe", FALSE, "NONE") /\ Swap(c, [coord EXCEPT !.status = "ACTIVE"])
      \/ Return(c) /\ UNCHANGED <<coord, fresh>>
  OBVIOUS
<1>2. /\ call' \in [Caller -> Call] /\ call'[c].pc \in {"observe", "idle"}
      /\ \A d \in Caller \ {c} : call'[d] = call[d]
  <2>1. CASE Begins(c, "observe", FALSE, "NONE")
    BY <2>1, BeginsTypes DEF Step, Status
  <2>2. CASE Return(c)
    BY <2>2, ReturnTypes DEF Idle
  <2> QED BY <1>1, <2>1, <2>2
<1>3. /\ coord' \in Record /\ coord'.wi = coord.wi /\ fresh' \subseteq fresh \cup {c}
      /\ coord'.receipts = coord.receipts /\ coord'.progression = coord.progression
  BY <1>1 DEF Swap, Record, Status
<1>4. TypeOK'
  BY <1>2, <1>3, CoordinatorAssumption
<1>5. acked' \subseteq coord.receipts
  BY DEF AckedIsReconciled
<1> QED BY <1>2, <1>3, <1>4, <1>5, PlainKeeps

\* A swap of other fields only makes every revision stale.
LEMMA AnnotateKeeps == ASSUME CoordinatorInv, Annotate PROVE CoordinatorInv'
<1> USE DEF Annotate
<1>1. TypeOK'
  BY CoordinatorAssumption DEF CoordinatorInv, TypeOK
<1>2. StoredInv' /\ OneLauncher'
  BY InvByCaller DEF StoredInv, ActiveIsDispatched, WorkInOrder, AckedIsReconciled,
                     Predecessors, OneLauncher
<1>3. ASSUME NEW d \in Caller PROVE CallInv(d)'
  BY InvByCaller DEF CallInv, MayRun, Predecessors
<1> QED BY <1>1, <1>2, <1>3, InvByCallerNext

\* The live gate and the session are in no record.
LEMMA TurnKeeps == ASSUME CoordinatorInv, Turn PROVE CoordinatorInv'
<1> USE DEF Turn
<1>1. UNCHANGED <<scenario, coord, exec, fresh, call, launched, acked, faults>>
  OBVIOUS
<1>2. TypeOK'
  <2>1. turns' \in 0..MaxTurns
    BY CoordinatorAssumption DEF CoordinatorInv, TypeOK
  <2>2. gate' \in BOOLEAN /\ session' \in BOOLEAN
    BY Zenon DEF CoordinatorInv, TypeOK
  <2> QED BY <1>1, <2>1, <2>2 DEF CoordinatorInv, TypeOK
<1>3. StoredInv' /\ OneLauncher'
  BY <1>1, InvByCaller DEF StoredInv, ActiveIsDispatched, WorkInOrder, AckedIsReconciled,
                     Predecessors, OneLauncher
<1>4. ASSUME NEW d \in Caller PROVE CallInv(d)'
  BY <1>1, InvByCaller DEF CallInv, MayRun, Predecessors
<1> QED BY <1>2, <1>3, <1>4, InvByCallerNext

\* The observation takes only Work Items whose execution ended.
LEMMA ObserveLoadKeeps ==
    ASSUME CoordinatorInv, NEW c \in Caller, ObserveLoad(c) PROVE CoordinatorInv'
<1> USE DEF CoordinatorInv, TypeOK, ObserveLoad, Loads, Undisturbed, Environment
<1>1. PICK ended \in SUBSET WorkItem, pc \in {"observed", "select"} :
        (\A w \in ended : exec[w].ended) /\ SetsOut(c, pc, ended)
  BY Zenon
<1>2. /\ call' \in [Caller -> Call] /\ \A d \in Caller \ {c} : call'[d] = call[d]
      /\ call'[c].pc \in {"observed", "select"} /\ call'[c].todo = ended
  BY <1>1, SetsOutTypes, TaskFacts DEF Step
<1>3. TypeOK'
  BY <1>2, CoordinatorAssumption
<1>4. CallInv(c)'
  BY <1>1, <1>2 DEF CallInv
<1>5. fresh' \subseteq fresh \cup {c} /\ acked' \subseteq coord.receipts
  BY DEF AckedIsReconciled
<1> QED BY <1>2, <1>3, <1>4, <1>5, FrameKeeps

\* The observed Work Items become pending completions, and their executions
\* ended already.
LEMMA ObserveSwapKeeps ==
    ASSUME CoordinatorInv, NEW c \in Caller, ObserveSwap(c) PROVE CoordinatorInv'
<1> USE DEF ObserveSwap, Undisturbed, Environment
<1>1. /\ call' \in [Caller -> Call] /\ \A d \in Caller \ {c} : call'[d] = call[d]
      /\ call'[c].pc = "select"
  BY SetsOutTypes DEF CoordinatorInv, Step
<1>2. /\ coord' \in Record /\ coord'.receipts = coord.receipts
      /\ coord'.progression = coord.progression /\ fresh' \subseteq fresh
      /\ \A w \in WorkItem : \/ coord'.wi[w] = coord.wi[w]
                             \/ /\ w \in call[c].todo
                                /\ coord'.wi[w] = "COMPLETION_PENDING_RECONCILIATION"
  BY DEF CoordinatorInv, TypeOK, Swap, Observed, Record, WorkStatus
<1>3. TypeOK'
  BY <1>1, <1>2 DEF CoordinatorInv, TypeOK
<1>4. \A t \in call[c].todo : t \in WorkItem /\ exec[t].ended
  BY InvByCaller DEF CallInv
<1>5. StoredInv'
  BY <1>2, <1>4, TaskFacts, InvByCaller DEF StoredInv, ActiveIsDispatched, WorkInOrder,
     AckedIsReconciled, Predecessors
<1>6. OneLauncher'
  BY <1>1, InvByCaller DEF OneLauncher
<1>7. ASSUME NEW d \in Caller PROVE CallInv(d)'
  <2>1. CASE d = c
    BY <1>1, <2>1 DEF CallInv
  <2>2. CASE d # c
    BY <1>1, <1>2, <2>2, InvByCaller DEF CallInv, MayRun, Predecessors
  <2> QED BY <2>1, <2>2
<1> QED BY <1>3, <1>5, <1>6, <1>7, InvByCallerNext


\* The one action of a call is chosen: a reconciliation, the reviewer when
\* every Work Item has its receipt, or what is ready.
LEMMA SelectKeeps ==
    ASSUME CoordinatorInv, NEW c \in Caller, Select(c) PROVE CoordinatorInv'
<1> USE DEF Loads, Undisturbed, Environment
<1>1. TypeOK /\ UNCHANGED <<scenario, coord, exec, gate, session, launched, acked, faults, turns>>
      /\ fresh' = fresh \cup {c}
  BY DEF Select, CoordinatorInv
<1>2. ASSUME call' \in [Caller -> Call], \A d \in Caller \ {c} : call'[d] = call[d],
             \/ call'[c].pc \in {"idle", "reconcile", "ready"}
             \/ /\ call'[c].pc = "dispatch" /\ call'[c].todo = {Reviewer}
                /\ scenario.items \subseteq coord.receipts
      PROVE  CoordinatorInv'
  <2>1. TypeOK'
    BY <1>1, <1>2, CoordinatorAssumption DEF TypeOK
  <2>2. CallInv(c)'
    BY <1>1, <1>2 DEF CallInv, MayRun
  <2>3. acked' \subseteq coord.receipts
    BY <1>1 DEF CoordinatorInv, AckedIsReconciled
  <2> QED BY <1>1, <1>2, <2>1, <2>2, <2>3, FrameKeeps
<1>3. CASE Return(c)
  BY <1>1, <1>2, <1>3, ReturnTypes DEF Idle
<1>4. CASE Pending # {} /\ Takes(c, "reconcile", Min(Pending))
  <2>1. Pending \in SUBSET Nat
    BY TaskFacts DEF Pending
  <2>2. Min(Pending) \in Task
    BY <1>4, <2>1, MinInSet, TaskFacts DEF Pending
  <2> QED BY <1>1, <1>2, <1>4, <2>2, TakesTypes DEF Step
<1>5. CASE Takes(c, "reconcile", Reviewer)
  BY <1>1, <1>2, <1>5, TaskFacts, TakesTypes DEF Step
<1>6. CASE IntegratedReviewRequired /\ SetsOut(c, "dispatch", {Reviewer})
  <2>1. scenario.items \subseteq coord.receipts
    BY <1>6 DEF IntegratedReviewRequired
  <2> QED BY <1>1, <1>2, <1>6, <2>1, SetsOutTypes, TaskFacts DEF Step
<1>7. CASE Goto(c, "ready")
  BY <1>1, <1>2, <1>7, GotoTypes DEF Step
<1> QED BY <1>3, <1>4, <1>5, <1>6, <1>7, Zenon DEF Select

\* A reconciliation goes on to the receipt only when none is durable.
LEMMA ReconcileLoadKeeps ==
    ASSUME CoordinatorInv, NEW c \in Caller, ReconcileLoad(c) PROVE CoordinatorInv'
<1> USE DEF Loads, Environment
<1> DEFINE t == call[c].task
<1>1. TypeOK /\ UNCHANGED <<scenario, coord, exec, gate, session, launched, faults, turns>>
      /\ fresh' = fresh \cup {c}
  BY DEF ReconcileLoad, CoordinatorInv
<1>2. acked' \subseteq coord.receipts /\ coord.receipts \subseteq Task
  BY DEF ReconcileLoad, CoordinatorInv, AckedIsReconciled, TypeOK, Record
<1>3. Return(c) \/ (Goto(c, "receipt") /\ t \notin coord.receipts)
  BY Zenon DEF ReconcileLoad
<1>4. /\ call' \in [Caller -> Call] /\ \A d \in Caller \ {c} : call'[d] = call[d]
      /\ \/ call'[c].pc = "idle"
         \/ call'[c].pc = "receipt" /\ call'[c].task \notin coord.receipts
  <2>1. CASE Return(c)
    BY <1>1, <2>1, ReturnTypes DEF Idle
  <2>2. CASE Goto(c, "receipt") /\ t \notin coord.receipts
    BY <1>1, <2>2, GotoTypes DEF Step
  <2> QED BY <1>3, <2>1, <2>2
<1>5. TypeOK'
  BY <1>1, <1>2, <1>4, CoordinatorAssumption DEF TypeOK
<1>6. CallInv(c)'
  BY <1>1, <1>4 DEF CallInv
<1> QED BY <1>1, <1>2, <1>4, <1>5, <1>6, FrameKeeps

\* A receipt is stored once: the caller with the current revision found none,
\* so the count of receipts and progression_revision grow together.
LEMMA PersistReceiptKeeps ==
    ASSUME CoordinatorInv, NEW c \in Caller, PersistReceipt(c) PROVE CoordinatorInv'
<1> DEFINE t == call[c].task
<1>1. /\ TypeOK /\ UNCHANGED <<scenario, exec, gate, session, launched, faults, turns>>
      /\ call[c].pc = "receipt"
  BY DEF PersistReceipt, CoordinatorInv, Environment
<1>2. /\ call' \in [Caller -> Call] /\ \A d \in Caller \ {c} : call'[d] = call[d]
      /\ call'[c].pc = "idle"
  BY <1>1, ReturnTypes DEF PersistReceipt, Idle
<1>3. CASE c \notin fresh /\ UNCHANGED <<coord, fresh>>
             /\ acked' = IF Replays(t) THEN acked \cup {t} ELSE acked
  <2>1. acked' \subseteq coord.receipts /\ coord.receipts \subseteq Task
    BY <1>1, <1>3 DEF Replays, CoordinatorInv, AckedIsReconciled, TypeOK, Record
  <2>2. TypeOK'
    BY <1>1, <1>2, <1>3, <2>1 DEF TypeOK
  <2> QED BY <1>1, <1>2, <1>3, <2>1, <2>2, PlainKeeps
<1>4. CASE /\ Swap(c, [coord EXCEPT !.receipts = @ \cup {t}, !.progression = @ + 1])
           /\ acked' = acked \cup {t}
  <2>1. /\ coord' \in Record /\ coord'.wi = coord.wi /\ coord'.receipts = coord.receipts \cup {t}
        /\ coord'.progression = coord.progression + 1 /\ fresh' = {c} /\ c \in fresh
    <3>1. coord \in Record /\ t \in Task
      BY <1>1 DEF TypeOK, Call
    <3>2. coord' = [coord EXCEPT !.receipts = @ \cup {t}, !.progression = @ + 1]
          /\ fresh' = {c} /\ c \in fresh
      BY <1>4 DEF Swap
    <3> DEFINE stored == coord.receipts \cup {t}
               next == coord.progression + 1
    <3>3. stored \in SUBSET Task /\ next \in Nat
      BY <3>1 DEF Record
    <3>4. coord' = [coord EXCEPT !.receipts = stored, !.progression = next]
      BY <3>2
    <3>5. stored = coord.receipts \cup {t} /\ next = coord.progression + 1
      OBVIOUS
    <3> HIDE DEF t, stored, next
    <3>6. coord' \in Record /\ coord'.wi = coord.wi /\ coord'.receipts = stored
          /\ coord'.progression = next
      BY <3>1, <3>3, <3>4 DEF Record
    <3> QED BY <3>2, <3>5, <3>6
  <2>2. acked' \subseteq coord'.receipts
    BY <1>4, <2>1 DEF CoordinatorInv, AckedIsReconciled
  <2>3. TypeOK'
    BY <1>1, <1>2, <2>1, <2>2, CoordinatorAssumption DEF TypeOK, Record
  <2>4. coord'.progression = Cardinality(coord'.receipts)
    <3>1. t \notin coord.receipts
      BY <1>1, <2>1, InvByCaller DEF CallInv
    <3>2. IsFiniteSet(coord.receipts)
      BY <1>1, TaskFacts, FS_Subset DEF TypeOK, Record
    <3>3. Cardinality(coord'.receipts) = Cardinality(coord.receipts) + 1
      BY <2>1, <3>1, <3>2, FS_AddElement
    <3> QED BY <2>1, <3>3 DEF CoordinatorInv, AckedIsReconciled
  <2>5. StoredInv'
    BY <1>1, <2>1, <2>2, <2>4, InvByCaller DEF StoredInv, ActiveIsDispatched, WorkInOrder,
       AckedIsReconciled, Predecessors
  <2>6. OneLauncher'
    BY <1>2, InvByCaller DEF OneLauncher
  <2>7. ASSUME NEW d \in Caller PROVE CallInv(d)'
    <3>1. CASE d = c
      BY <1>2, <3>1 DEF CallInv
    <3>2. CASE d # c
      BY <1>1, <1>2, <2>1, <3>2, InvByCaller DEF CallInv, MayRun, Predecessors
    <3> QED BY <3>1, <3>2
  <2> QED BY <2>3, <2>5, <2>6, <2>7, InvByCallerNext
<1> QED BY <1>3, <1>4, Zenon DEF PersistReceipt

\* What is ready may run: its predecessors' executions ended.
LEMMA DispatchReadyKeeps ==
    ASSUME CoordinatorInv, NEW c \in Caller, DispatchReady(c) PROVE CoordinatorInv'
<1>1. TypeOK /\ UNCHANGED <<scenario, coord, exec, gate, session, launched, acked, faults, turns>>
      /\ fresh' = fresh \cup {c}
  BY DEF DispatchReady, Loads, Undisturbed, Environment, CoordinatorInv
<1>2. Ready \in SUBSET Task
  BY <1>1, TaskFacts DEF Ready, TypeOK
<1>3. \A w \in Ready : MayRun(w)
  <2>1. \A w \in Ready : w # Reviewer
    BY <1>1, TaskFacts DEF Ready, TypeOK
  <2>2. \A w \in Ready : \A a \in Predecessors(w) : exec[a].ended
    BY InvByCaller DEF Ready, PredecessorsDone, Predecessors, StoredInv
  <2> QED BY <2>1, <2>2 DEF MayRun
<1>4. Return(c) \/ (Ready # {} /\ SetsOut(c, "dispatch", Ready))
  BY Zenon DEF DispatchReady
<1>5. /\ call' \in [Caller -> Call] /\ \A d \in Caller \ {c} : call'[d] = call[d]
      /\ \/ call'[c].pc = "idle"
         \/ call'[c].pc = "dispatch" /\ call'[c].todo = Ready /\ Ready # {}
  <2>1. CASE Return(c)
    BY <1>1, <2>1, ReturnTypes DEF Idle
  <2>2. CASE Ready # {} /\ SetsOut(c, "dispatch", Ready)
    BY <1>1, <1>2, <2>2, SetsOutTypes DEF Step
  <2> QED BY <1>4, <2>1, <2>2
<1>6. TypeOK' /\ acked' \subseteq coord.receipts
  BY <1>1, <1>5, CoordinatorAssumption DEF TypeOK, CoordinatorInv, AckedIsReconciled
<1>7. CallInv(c)'
  BY <1>1, <1>3, <1>5 DEF CallInv, MayRun, Predecessors
<1> QED BY <1>1, <1>5, <1>6, <1>7, FrameKeeps

\* The next task of a caller that dispatches.
LEMMA NextTask ==
    ASSUME CoordinatorInv, NEW c \in Caller, call[c].pc = "dispatch"
    PROVE  /\ Min(call[c].todo) \in call[c].todo /\ Min(call[c].todo) \in Task
           /\ call[c].todo \subseteq Task /\ \A t \in call[c].todo : MayRun(t)
<1>1. call[c].todo \subseteq Task /\ call[c].todo # {} /\ \A t \in call[c].todo : MayRun(t)
  BY InvByCaller DEF TypeOK, Call, CallInv
<1>2. call[c].todo \in SUBSET Nat
  BY <1>1, TaskFacts
<1>3. Min(call[c].todo) \in call[c].todo
  BY <1>1, <1>2, MinInSet
<1> QED BY <1>1, <1>3

\* A task whose execution is confirmed is bound, and a reviewer ends the call.
LEMMA BindOrEndTypes ==
    ASSUME TypeOK, NEW c \in Caller, NEW t \in Task, BindOrEnd(c, t)
    PROVE  /\ call' \in [Caller -> Call] /\ \A d \in Caller \ {c} : call'[d] = call[d]
           /\ \/ call'[c].pc = "idle"
              \/ /\ call'[c].pc = "bind" /\ call'[c].task = t /\ t \in WorkItem
                 /\ call'[c].todo = call[c].todo
<1>1. CASE Return(c)
  BY <1>1, ReturnTypes DEF Idle
<1>2. CASE t \in WorkItem /\ Takes(c, "bind", t)
  BY <1>2, TakesTypes DEF Step
<1> QED BY <1>1, <1>2, TaskFacts DEF BindOrEnd

\* A dispatch that prepares no record goes on to the binding or to the next
\* task.
LEMMA DispatchOldKeeps ==
    ASSUME CoordinatorInv, NEW c \in Caller, call[c].pc = "dispatch",
           NEW t \in call[c].todo,
           UNCHANGED <<scenario, coord, exec, fresh, gate, session, launched, acked, faults, turns>>,
           DispatchRest(c, t) \/ (exec[t].phase = "DISPATCHED" /\ BindOrEnd(c, t))
    PROVE  CoordinatorInv'
<1>1. t \in Task /\ call[c].todo # {} /\ \A u \in call[c].todo : MayRun(u)
  BY NextTask
<1>2. /\ call' \in [Caller -> Call] /\ \A d \in Caller \ {c} : call'[d] = call[d]
      /\ \/ call'[c].pc = "idle"
         \/ /\ call'[c].pc = "dispatch"
            /\ call'[c].todo # {} /\ call'[c].todo \subseteq call[c].todo
         \/ /\ call'[c].pc = "bind" /\ call'[c].task = t /\ t \in WorkItem
            /\ call'[c].todo = call[c].todo /\ exec[t].phase = "DISPATCHED"
  <2>1. CASE DispatchRest(c, t)
    BY <1>1, <2>1, RestTypes DEF Idle, CoordinatorInv
  <2>2. CASE exec[t].phase = "DISPATCHED" /\ BindOrEnd(c, t)
    BY <1>1, <2>2, BindOrEndTypes DEF CoordinatorInv
  <2> QED BY <2>1, <2>2
<1>3. TypeOK' /\ acked' \subseteq coord.receipts
  BY <1>2 DEF TypeOK, CoordinatorInv, AckedIsReconciled
<1>4. CallInv(c)'
  BY <1>1, <1>2 DEF CallInv, MayRun, Predecessors
<1> QED BY <1>2, <1>3, <1>4, FrameKeeps

\* The first dispatch prepares the record and is the only caller to launch.
LEMMA PrepareKeeps ==
    ASSUME CoordinatorInv, NEW c \in Caller, call[c].pc = "dispatch",
           NEW t \in call[c].todo, exec[t].phase = "ABSENT",
           exec' = [exec EXCEPT ![t].phase = "PREPARED"], Takes(c, "launch", t),
           UNCHANGED <<scenario, coord, fresh, gate, session, launched, acked, faults, turns>>
    PROVE  CoordinatorInv'
<1>1. t \in Task /\ \A u \in call[c].todo : MayRun(u)
  BY NextTask
<1>2. /\ call' \in [Caller -> Call] /\ \A d \in Caller \ {c} : call'[d] = call[d]
      /\ call'[c].pc = "launch" /\ call'[c].todo = call[c].todo /\ call'[c].task = t
  BY <1>1, TakesTypes DEF CoordinatorInv, Step
<1>3. /\ exec' \in [Task -> Execution]
      /\ \A u \in Task \ {t} : exec'[u] = exec[u]
      /\ exec'[t].phase = "PREPARED" /\ exec'[t].ended = exec[t].ended
  BY <1>1 DEF CoordinatorInv, TypeOK, Execution
<1>4. TypeOK'
  BY <1>2, <1>3 DEF CoordinatorInv, TypeOK
<1>5. StoredInv /\ launched[t] = 0 /\ ~exec[t].ended
  BY <1>1, InvByCaller DEF StoredInv
<1>6. StoredInv'
  BY <1>3, <1>5, TaskFacts DEF StoredInv, ActiveIsDispatched, WorkInOrder, AckedIsReconciled,
     Predecessors
<1>7. \A d \in Caller : call[d].pc = "launch" => call[d].task # t
  BY InvByCaller DEF CallInv
<1>8. OneLauncher'
  BY <1>2, <1>7, InvByCaller DEF OneLauncher
<1>9. \A u \in Task : (exec[u].ended => exec'[u].ended)
                      /\ (exec[u].phase # "ABSENT" => exec'[u].phase = exec[u].phase)
  BY <1>3, <1>5
<1>10. ASSUME NEW d \in Caller PROVE CallInv(d)'
  <2>1. \A u \in Task : MayRun(u) => MayRun(u)'
    BY <1>9, TaskFacts DEF MayRun, Predecessors
  <2>2. call[d].todo \subseteq Task /\ call[d].task \in Task
    BY DEF CoordinatorInv, TypeOK, Call
  <2>3. CASE d = c
    BY <1>1, <1>2, <1>3, <1>5, <2>1, <2>2, <2>3 DEF CallInv
  <2>4. CASE d # c
    BY <1>2, <1>9, <2>1, <2>2, <2>4, InvByCaller DEF CallInv
  <2> QED BY <2>3, <2>4
<1> QED BY <1>4, <1>6, <1>8, <1>10, InvByCallerNext

\* admit_dispatch: an absent record is prepared or not admitted, another one
\* is bound when its dispatch is confirmed and left alone otherwise.
LEMMA DispatchKeeps ==
    ASSUME CoordinatorInv, NEW c \in Caller, Dispatch(c) PROVE CoordinatorInv'
<1> DEFINE t == Min(call[c].todo)
<1>1. t \in call[c].todo /\ call[c].pc = "dispatch"
  BY NextTask DEF Dispatch
<1>2. UNCHANGED <<scenario, coord, fresh, gate, session, launched, acked, faults, turns>>
  BY DEF Dispatch
<1>3. \/ /\ exec[t].phase = "ABSENT"
         /\ exec' = [exec EXCEPT ![t].phase = "PREPARED"] /\ Takes(c, "launch", t)
      \/ /\ UNCHANGED exec
         /\ DispatchRest(c, t) \/ (exec[t].phase = "DISPATCHED" /\ BindOrEnd(c, t))
  BY Zenon DEF Dispatch, Verified
<1> HIDE DEF t
<1> QED BY <1>1, <1>2, <1>3, PrepareKeeps, DispatchOldKeeps

\* The adapter starts the worker of the one caller that prepared it.
LEMMA LaunchKeeps ==
    ASSUME CoordinatorInv, NEW c \in Caller, Launch(c) PROVE CoordinatorInv'
<1> DEFINE t == call[c].task
<1>1. /\ t \in Task /\ exec[t].phase = "PREPARED" /\ launched[t] = 0 /\ MayRun(t)
      /\ t \in call[c].todo /\ \A u \in call[c].todo : MayRun(u)
  BY InvByCaller DEF Launch, CallInv, TypeOK, Call
<1>2. /\ UNCHANGED <<scenario, coord, fresh, gate, session, acked, faults, turns>>
      /\ call[c].pc = "launch"
  BY DEF Launch
<1>3. /\ exec' \in [Task -> Execution]
      /\ \A u \in Task \ {t} : exec'[u] = exec[u]
      /\ exec'[t].phase = "DISPATCHED" /\ exec'[t].ended = exec[t].ended
  BY <1>1 DEF CoordinatorInv, TypeOK, Execution, Launch
<1>4. /\ launched' \in [Task -> Nat] /\ launched'[t] = 1
      /\ \A u \in Task \ {t} : launched'[u] = launched[u]
  BY <1>1 DEF CoordinatorInv, TypeOK, Launch
<1>5. /\ call' \in [Caller -> Call] /\ \A d \in Caller \ {c} : call'[d] = call[d]
      /\ \/ call'[c].pc = "idle"
         \/ /\ call'[c].pc = "bind" /\ call'[c].task = t /\ t \in WorkItem
            /\ call'[c].todo = call[c].todo
  <2>1. BindOrEnd(c, t)
    BY DEF Launch
  <2> QED BY <1>1, <2>1, BindOrEndTypes DEF CoordinatorInv
<1>6. \A d \in Caller \ {c} : call[d].pc = "launch" => call[d].task # t
  BY <1>2, InvByCaller DEF OneLauncher
<1> HIDE DEF t
<1>7. TypeOK'
  BY <1>2, <1>3, <1>4, <1>5 DEF CoordinatorInv, TypeOK
<1>8. StoredInv /\ ~exec[t].ended
  BY <1>1, InvByCaller DEF StoredInv
<1>9. StoredInv'
  <2>1. ActiveIsDispatched' /\ AckedIsReconciled'
    BY <1>2, <1>3, <1>8, TaskFacts DEF StoredInv, ActiveIsDispatched, AckedIsReconciled
  <2>2. WorkInOrder'
    BY <1>1, <1>2, <1>3, <1>4, <1>8, TaskFacts DEF StoredInv, WorkInOrder, MayRun, Predecessors
  <2> QED BY <1>1, <1>2, <1>3, <1>4, <1>8, <2>1, <2>2, TaskFacts DEF StoredInv
<1>10. OneLauncher'
  BY <1>5, InvByCaller DEF OneLauncher
<1>11. ASSUME NEW d \in Caller PROVE CallInv(d)'
  <2>1. \A u \in Task : MayRun(u) => MayRun(u)'
    BY <1>2, <1>3, TaskFacts DEF MayRun, Predecessors
  <2>2. call[d].todo \subseteq Task /\ call[d].task \in Task
    BY DEF CoordinatorInv, TypeOK, Call
  <2>3. CASE d = c
    BY <1>1, <1>3, <1>5, <2>1, <2>2, <2>3 DEF CallInv
  <2>4. CASE d # c
    <3>1. CallInv(d) /\ call'[d] = call[d] /\ (call[d].pc = "launch" => call[d].task # t)
      BY <1>5, <1>6, <2>4, InvByCaller
    <3>2. \A u \in Task : /\ exec[u].ended => exec'[u].ended
                          /\ exec[u].phase = "DISPATCHED" => exec'[u].phase = "DISPATCHED"
      BY <1>3
    <3>3. call[d].pc = "launch" => /\ exec'[call[d].task] = exec[call[d].task]
                                   /\ launched'[call[d].task] = launched[call[d].task]
      BY <1>3, <1>4, <2>2, <3>1
    <3> QED BY <1>2, <2>1, <2>2, <3>1, <3>2, <3>3, TaskFacts DEF CallInv
  <2> QED BY <2>3, <2>4
<1> QED BY <1>7, <1>9, <1>10, <1>11, InvByCallerNext

\* A launch whose outcome is unknown counts once and is not repeated: the
\* record stays PREPARED and no caller may launch it any more.
LEMMA LaunchUnresolvedKeeps ==
    ASSUME CoordinatorInv, NEW c \in Caller, LaunchUnresolved(c) PROVE CoordinatorInv'
<1> DEFINE t == call[c].task
<1>1. /\ t \in Task /\ exec[t].phase = "PREPARED" /\ launched[t] = 0 /\ MayRun(t)
      /\ \A u \in call[c].todo : MayRun(u)
  BY InvByCaller DEF LaunchUnresolved, CallInv, TypeOK, Call
<1>2. /\ UNCHANGED <<scenario, coord, exec, fresh, gate, session, acked, turns>>
      /\ call[c].pc = "launch" /\ faults' \in 0..MaxFaults
  BY CoordinatorAssumption DEF LaunchUnresolved, CoordinatorInv, TypeOK
<1>3. /\ launched' \in [Task -> Nat] /\ launched'[t] \in {0, 1}
      /\ \A u \in Task \ {t} : launched'[u] = launched[u]
  BY <1>1 DEF CoordinatorInv, TypeOK, LaunchUnresolved
<1>4. /\ call' \in [Caller -> Call] /\ \A d \in Caller \ {c} : call'[d] = call[d]
      /\ \/ call'[c].pc = "idle"
         \/ /\ call'[c].pc = "dispatch"
            /\ call'[c].todo # {} /\ call'[c].todo \subseteq call[c].todo
  <2>1. DispatchRest(c, t)
    BY DEF LaunchUnresolved
  <2> QED BY <1>1, <2>1, RestTypes DEF CoordinatorInv, Idle
<1>5. \A d \in Caller \ {c} : call[d].pc = "launch" => call[d].task # t
  BY <1>2, InvByCaller DEF OneLauncher
<1> HIDE DEF t
<1>6. TypeOK'
  BY <1>2, <1>3, <1>4 DEF CoordinatorInv, TypeOK
<1>7. StoredInv'
  <2>1. WorkInOrder'
    BY <1>1, <1>2, <1>3, TaskFacts DEF CoordinatorInv, WorkInOrder, MayRun, Predecessors
  <2> QED BY <1>1, <1>2, <1>3, <2>1, TaskFacts, InvByCaller
      DEF StoredInv, ActiveIsDispatched, AckedIsReconciled
<1>8. OneLauncher'
  BY <1>4, InvByCaller DEF OneLauncher
<1>9. ASSUME NEW d \in Caller PROVE CallInv(d)'
  <2>1. \A u : MayRun(u) => MayRun(u)'
    BY <1>2 DEF MayRun, Predecessors
  <2>2. call[d].todo \subseteq Task /\ call[d].task \in Task
    BY DEF CoordinatorInv, TypeOK, Call
  <2>3. CASE d = c
    BY <1>1, <1>4, <2>1, <2>2, <2>3 DEF CallInv
  <2>4. CASE d # c
    BY <1>2, <1>3, <1>4, <1>5, <2>1, <2>2, <2>4, InvByCaller DEF CallInv
  <2> QED BY <2>3, <2>4
<1> QED BY <1>6, <1>7, <1>8, <1>9, InvByCallerNext

\* A Work Item becomes ACTIVE only after its dispatch was seen DISPATCHED.
LEMMA BindKeeps ==
    ASSUME CoordinatorInv, NEW c \in Caller, Bind(c) PROVE CoordinatorInv'
<1> DEFINE t == call[c].task
<1>1. /\ t \in WorkItem /\ exec[t].phase = "DISPATCHED"
      /\ \A u \in call[c].todo : MayRun(u)
  BY InvByCaller DEF Bind, CallInv
<1>2. UNCHANGED <<scenario, exec, gate, session, launched, acked, faults, turns>>
  BY DEF Bind, Undisturbed, Environment
<1>3. DispatchRest(c, t) \/ Return(c)
  BY Zenon DEF Bind
<1>4. /\ call' \in [Caller -> Call] /\ \A d \in Caller \ {c} : call'[d] = call[d]
      /\ \/ call'[c].pc = "idle"
         \/ /\ call'[c].pc = "dispatch"
            /\ call'[c].todo # {} /\ call'[c].todo \subseteq call[c].todo
  <2>1. CASE DispatchRest(c, t)
    <3>1. TypeOK /\ t \in Task
      BY <1>1, TaskFacts DEF CoordinatorInv
    <3> HIDE DEF t
    <3> QED BY <2>1, <3>1, RestTypes DEF Idle
  <2>2. CASE Return(c)
    BY <2>2, ReturnTypes DEF CoordinatorInv, Idle
  <2> QED BY <1>3, <2>1, <2>2
<1>5. /\ coord' \in Record /\ coord'.receipts = coord.receipts
      /\ coord'.progression = coord.progression /\ fresh' \subseteq fresh
      /\ \A w \in WorkItem : coord'.wi[w] = coord.wi[w] \/ (w = t /\ coord'.wi[w] = "ACTIVE")
  <2>1. coord \in Record
    BY DEF CoordinatorInv, TypeOK
  <2>2. \/ UNCHANGED <<coord, fresh>>
        \/ coord' = [coord EXCEPT !.wi[t] = "ACTIVE"] /\ fresh' \subseteq fresh
    BY DEF Bind, Swap
  <2> HIDE DEF t
  <2> QED BY <1>1, <2>1, <2>2 DEF Record, WorkStatus
<1> HIDE DEF t
<1>6. TypeOK'
  BY <1>2, <1>4, <1>5 DEF CoordinatorInv, TypeOK
<1>7. StoredInv'
  BY <1>1, <1>2, <1>5, InvByCaller DEF StoredInv, ActiveIsDispatched, WorkInOrder,
     AckedIsReconciled, Predecessors
<1>8. OneLauncher'
  BY <1>4, InvByCaller DEF OneLauncher
<1>9. ASSUME NEW d \in Caller PROVE CallInv(d)'
  <2>1. \A u : MayRun(u) => MayRun(u)'
    BY <1>2, <1>5 DEF MayRun, Predecessors
  <2>2. CASE d = c
    BY <1>1, <1>4, <2>1, <2>2 DEF CallInv
  <2>3. CASE d # c
    BY <1>2, <1>4, <1>5, <2>1, <2>3, InvByCaller DEF CallInv
  <2> QED BY <2>2, <2>3
<1> QED BY <1>6, <1>7, <1>8, <1>9, InvByCallerNext

\* The completion pump only adds to an execution record.
LEMMA PumpKeeps ==
    ASSUME CoordinatorInv, NEW t \in Task, ExecutionEnds(t) \/ CardAttached(t)
    PROVE  CoordinatorInv'
<1>1. UNCHANGED <<scenario, coord, fresh, call, gate, session, launched, acked, faults, turns>>
  BY DEF ExecutionEnds, CardAttached
<1>2. /\ exec' \in [Task -> Execution]
      /\ \A u \in Task : /\ exec'[u].phase = exec[u].phase
                         /\ exec[u].ended => exec'[u].ended
                         /\ exec'[u].ended => exec[u].ended \/ exec[u].phase = "DISPATCHED"
  <2>1. exec \in [Task -> Execution]
    BY DEF CoordinatorInv, TypeOK
  <2>2. CASE ExecutionEnds(t)
    BY <2>1, <2>2 DEF ExecutionEnds, Execution
  <2>3. CASE CardAttached(t)
    BY <2>1, <2>3 DEF CardAttached, Execution
  <2> QED BY <2>2, <2>3
<1>3. TypeOK'
  BY <1>1, <1>2 DEF CoordinatorInv, TypeOK
<1>4. StoredInv'
  BY <1>1, <1>2, TaskFacts, InvByCaller DEF StoredInv, ActiveIsDispatched, WorkInOrder,
     AckedIsReconciled, Predecessors
<1>5. OneLauncher'
  BY <1>1, InvByCaller DEF OneLauncher
<1>6. ASSUME NEW d \in Caller PROVE CallInv(d)'
  <2>1. \A u : MayRun(u) => MayRun(u)'
    BY <1>1, <1>2, TaskFacts DEF MayRun, Predecessors
  <2>2. call[d].todo \subseteq Task /\ call[d].task \in Task
    BY DEF CoordinatorInv, TypeOK, Call
  <2> QED BY <1>1, <1>2, <2>1, <2>2, TaskFacts, InvByCaller DEF CallInv
<1> QED BY <1>3, <1>4, <1>5, <1>6, InvByCallerNext

\* One step of the coordinator.
LEMMA NextKeeps == ASSUME CoordinatorInv, Next PROVE CoordinatorInv'
<1>1. ASSUME NEW c \in Caller, AdvanceStep(c) PROVE CoordinatorInv'
  BY <1>1, AdvanceKeeps, AdvanceReactivatesKeeps, SwapStatusKeeps, ObserveLoadKeeps,
     ObserveSwapKeeps, SelectKeeps, ReconcileLoadKeeps, PersistReceiptKeeps,
     DispatchReadyKeeps, DispatchKeeps, LaunchKeeps, BindKeeps, Zenon DEF AdvanceStep
<1>2. ASSUME NEW c \in Caller,
             \/ ActivateRead(c) \/ Create(c) \/ RecoverRead(c) \/ HandleLoad(c) \/ CloseLoad(c)
             \/ LaunchUnresolved(c) \/ CallFails(c)
      PROVE  CoordinatorInv'
  BY <1>2, ActivateReadKeeps, CreateKeeps, RecoverReadKeeps, HandleLoadKeeps, CloseLoadKeeps,
     LaunchUnresolvedKeeps, CallFailsKeeps, Zenon
<1> QED BY <1>1, <1>2, PumpKeeps, AnnotateKeeps, TurnKeeps, Zenon DEF Next

\* The coordinator before its first activation.
LEMMA InitKeeps == ASSUME Init PROVE CoordinatorInv
<1> USE DEF Init
<1>1. TypeOK
  <2>1. coord \in Record
    BY DEF Record, Status, WorkStatus
  <2>2. exec \in [Task -> Execution]
    BY DEF Execution
  <2>3. call \in [Caller -> Call]
    BY TaskFacts DEF Call, Idle, Step, Status
  <2> QED BY <2>1, <2>2, <2>3, CoordinatorAssumption DEF TypeOK
<1>2. StoredInv
  BY TaskFacts, FS_EmptySet DEF StoredInv, ActiveIsDispatched, WorkInOrder, AckedIsReconciled
<1>3. OneLauncher /\ \A c \in Caller : CallInv(c)
  BY DEF OneLauncher, CallInv, Idle
<1> QED BY <1>1, <1>2, <1>3, InvByCaller

\* Steps that leave every variable of the coordinator but the revisions, the
\* turns and the faults alone.
LEMMA RevisionsKeep ==
    ASSUME CoordinatorInv, UNCHANGED <<scenario, coord, exec, call, gate, session, launched, acked>>,
           fresh' \subseteq Holder, fresh' \cap Caller \subseteq fresh,
           faults' \in 0..MaxFaults, turns' \in 0..MaxTurns
    PROVE  CoordinatorInv'
<1>1. TypeOK'
  BY DEF CoordinatorInv, TypeOK
<1>2. StoredInv' /\ OneLauncher'
  BY InvByCaller DEF StoredInv, ActiveIsDispatched, WorkInOrder, AckedIsReconciled,
                     Predecessors, OneLauncher
<1>3. ASSUME NEW d \in Caller PROVE CallInv(d)'
  BY InvByCaller DEF CallInv, MayRun, Predecessors
<1> QED BY <1>1, <1>2, <1>3, InvByCallerNext


-----------------------------------------------------------------------------
(* Context switching over the same record. *)

\* A switcher touches neither the record nor a caller; of the revisions it
\* adds its own, or stores the evidence, which makes every other one stale.
LEMMA SwitchStepFrame ==
    ASSUME CoordinatorInv, NEW s \in Switcher, SwitchStep(s)
    PROVE  /\ UNCHANGED <<scenario, coord, exec, call, gate, session, launched, acked, turns, brake>>
           /\ fresh' \in {fresh, fresh \cup {s}, {Evidence}}
           /\ faults' \in 0..MaxFaults
<1> USE DEF CoordinatorInv, TypeOK, Undisturbed, Environment
<1>1. CASE SwitchLoad(s)
  BY <1>1 DEF SwitchLoad
<1>2. CASE Derive(s) \/ Admit(s)
  BY <1>2 DEF Derive, Admit
<1>3. CASE Prepare(s)
  BY <1>3 DEF Prepare, StoreTransition
<1>4. CASE Apply(s) \/ ApplyRefused(s) \/ RecoverSwitch(s)
  BY <1>4 DEF Apply, ApplyRefused, RecoverSwitch, StoreTransition
<1>5. CASE SwitchFails(s)
  BY <1>5, CoordinatorAssumption DEF SwitchFails
<1> QED BY <1>1, <1>2, <1>3, <1>4, <1>5 DEF SwitchStep

\* One step of the coordinator with switchers keeps its invariant.
LEMMA SwitchNextKeeps == ASSUME CoordinatorInv, [SwitchNext]_allVars PROVE CoordinatorInv'
<1>1. CASE Next
  BY <1>1, NextKeeps
<1>2. ASSUME NEW s \in Switcher, SwitchStep(s) PROVE CoordinatorInv'
  <2>1. fresh' \subseteq Holder /\ fresh' \cap Caller \subseteq fresh
    BY <1>2, SwitchStepFrame, SwitchAssumption DEF CoordinatorInv, TypeOK
  <2>2. turns' \in 0..MaxTurns
    BY <1>2, SwitchStepFrame DEF CoordinatorInv, TypeOK
  <2> QED BY <1>2, <2>1, <2>2, SwitchStepFrame, RevisionsKeep
<1>3. CASE HumanBrake
  BY <1>3, AnnotateKeeps DEF HumanBrake
<1>4. CASE UNCHANGED allVars
  <2>1. UNCHANGED <<scenario, coord, exec, call, gate, session, launched, acked, fresh, faults, turns>>
    BY <1>4 DEF allVars, vars
  <2> QED BY <2>1, RevisionsKeep DEF CoordinatorInv, TypeOK
<1> QED BY <1>1, <1>2, <1>3, <1>4 DEF SwitchNext

\* The coordinator's invariant holds for every set of Work Items, graph,
\* caller and switcher, with crashes, lost races and unknown launches.
THEOREM CoordinatorCorrect == SwitchSpec => []CoordinatorInv
<1>1. SwitchInit => CoordinatorInv
  BY InitKeeps DEF SwitchInit
<1> QED BY <1>1, SwitchNextKeeps, PTL DEF SwitchSpec

\* dispatch_ready: no Work Item is ACTIVE or further without durable
\* DISPATCHED truth.
THEOREM ActiveIsAlwaysDispatched == SwitchSpec => []ActiveIsDispatched
<1>1. CoordinatorInv => ActiveIsDispatched
  BY DEF CoordinatorInv
<1> QED BY <1>1, CoordinatorCorrect, PTL

\* The advance loop: no worker starts twice, before its predecessors' workers
\* ended, or, for the reviewer, before every receipt is durable.
THEOREM WorkIsAlwaysInOrder == SwitchSpec => []WorkInOrder
<1>1. CoordinatorInv => WorkInOrder
  BY DEF CoordinatorInv
<1> QED BY <1>1, CoordinatorCorrect, PTL

\* _persist_reconciliation: an ACK follows its durable receipt, and every
\* receipt counts once, whoever wins the race.
THEOREM AckedIsAlwaysReconciled == SwitchSpec => []AckedIsReconciled
<1>1. CoordinatorInv => AckedIsReconciled
  BY DEF CoordinatorInv
<1> QED BY <1>1, CoordinatorCorrect, PTL

\* What the coordinator's own steps do to the revisions of others: a step
\* that changes the record makes them stale, unless there was no record.
LEMMA NextRevisions ==
    ASSUME Next
    PROVE  \/ coord' = coord /\ fresh' \subseteq fresh \cup Caller
           \/ fresh' \subseteq Caller
           \/ coord.status = "NONE" /\ fresh' = fresh
<1> USE DEF Loads, Swap
<1>1. ASSUME NEW c \in Caller, AdvanceStep(c)
      PROVE  \/ coord' = coord /\ fresh' \subseteq fresh \cup Caller
             \/ fresh' \subseteq Caller
  <2>1. CASE Advance(c) \/ AdvanceReactivates(c) \/ SwapStatus(c)
    BY <2>1 DEF Advance, AdvanceReactivates, SwapStatus
  <2>2. CASE ObserveLoad(c) \/ ObserveSwap(c) \/ Select(c)
    BY <2>2 DEF ObserveLoad, ObserveSwap, Select
  <2>3. CASE ReconcileLoad(c) \/ PersistReceipt(c) \/ DispatchReady(c)
    BY <2>3 DEF ReconcileLoad, PersistReceipt, DispatchReady
  <2>4. CASE Dispatch(c) \/ Launch(c) \/ Bind(c)
    BY <2>4 DEF Dispatch, Launch, Bind
  <2> QED BY <1>1, <2>1, <2>2, <2>3, <2>4 DEF AdvanceStep
<1>2. ASSUME NEW c \in Caller,
             \/ ActivateRead(c) \/ Create(c) \/ RecoverRead(c) \/ HandleLoad(c) \/ CloseLoad(c)
             \/ LaunchUnresolved(c) \/ CallFails(c)
      PROVE  \/ coord' = coord /\ fresh' \subseteq fresh \cup Caller
             \/ coord.status = "NONE" /\ fresh' = fresh
  BY <1>2 DEF ActivateRead, Create, RecoverRead, HandleLoad, CloseLoad, LaunchUnresolved, CallFails
<1>3. CASE \E t \in Task : ExecutionEnds(t) \/ CardAttached(t)
  BY <1>3 DEF ExecutionEnds, CardAttached
<1>4. CASE Annotate \/ Turn
  BY <1>4 DEF Annotate, Turn
<1> QED BY <1>1, <1>2, <1>3, <1>4 DEF Next

\* What a switcher is doing.
Switching == [pc : {"idle", "derive", "admit", "prepare", "apply"},
              target : SUBSET Plan, seen : SUBSET Task]

\* The types of the transition and of the switchers.
LEMMA SwitchTypes ==
    ASSUME SwitchTypeOK, CoordinatorInv, [SwitchNext]_allVars PROVE SwitchTypeOK'
<1>1. TypeOK'
  BY SwitchNextKeeps DEF CoordinatorInv
<1>2. switch \in [Switcher -> Switching]
  BY DEF SwitchTypeOK, Switching
<1>3. ASSUME NEW s \in Switcher, SwitchStep(s) PROVE SwitchTypeOK'
  <2> USE DEF SwitchTypeOK
  <2>1. switch' \in [Switcher -> Switching]
    <3> USE <1>2 DEF SwitchReturns, SwitchGoto, NotSwitching, Switching
    <3>1. CASE SwitchLoad(s)
      <4>1. PICK p \in scenario.targets :
              switch' = [switch EXCEPT ![s] = [NotSwitching EXCEPT !.pc = "derive", !.target = {p}]]
        BY <3>1 DEF SwitchLoad
      <4>2. p \in Plan
        BY SwitchAssumption DEF TypeOK
      <4>3. [NotSwitching EXCEPT !.pc = "derive", !.target = {p}] \in Switching
        BY <4>2
      <4> QED BY <4>1, <4>3
    <3>2. CASE Derive(s)
      <4>1. Recorded \in SUBSET Task
        BY DEF Recorded
      <4> QED BY <3>2, <4>1 DEF Derive
    <3>3. CASE Admit(s)
      BY <3>3 DEF Admit
    <3>4. CASE Prepare(s)
      BY <3>4 DEF Prepare
    <3>5. CASE Apply(s) \/ ApplyRefused(s) \/ RecoverSwitch(s) \/ SwitchFails(s)
      BY <3>5 DEF Apply, ApplyRefused, RecoverSwitch, SwitchFails
    <3> QED BY <1>3, <3>1, <3>2, <3>3, <3>4, <3>5 DEF SwitchStep
  <2>2. /\ transition' \in [phase : {"NONE", "PREPARED", "APPLIED"}, target : SUBSET Plan]
        /\ intents' \subseteq Switcher
    <3>1. CASE Prepare(s)
      BY <1>2, <3>1 DEF Prepare, StoreTransition, SameIntent, Switching
    <3>2. CASE Apply(s)
      BY <3>2 DEF Apply, StoreTransition
    <3>3. CASE SwitchLoad(s) \/ RecoverSwitch(s)
      BY <3>3 DEF SwitchLoad, RecoverSwitch
    <3>4. CASE Derive(s) \/ Admit(s) \/ ApplyRefused(s) \/ SwitchFails(s)
      BY <3>4 DEF Derive, Admit, ApplyRefused, SwitchFails
    <3> QED BY <1>3, <3>1, <3>2, <3>3, <3>4 DEF SwitchStep
  <2>3. brake' \in BOOLEAN
    BY <1>3, SwitchStepFrame
  <2> QED BY <1>1, <2>1, <2>2, <2>3 DEF Switching
<1>4. CASE HumanBrake
  <2>1. brake' \in BOOLEAN
    BY <1>4, Zenon DEF HumanBrake, SwitchTypeOK
  <2> QED BY <1>1, <1>4, <2>1 DEF HumanBrake, SwitchTypeOK
<1>5. CASE UNCHANGED switchVars
  BY <1>1, <1>5 DEF switchVars, SwitchTypeOK
<1> QED BY <1>3, <1>4, <1>5 DEF SwitchNext, allVars

\* A revision that is still current names the record its holder judged.
LEMMA QuietKeeps ==
    ASSUME SwitchTypeOK, QuietInv, CoordinatorInv, [SwitchNext]_allVars PROVE QuietInv'
<1> USE SwitchAssumption
<1>1. CASE Next /\ UNCHANGED switchVars
  <2>1. CASE coord' = coord /\ fresh' \subseteq fresh \cup Caller
    BY <1>1, <2>1 DEF QuietInv, Switchable, switchVars
  <2>2. CASE fresh' \subseteq Caller
    BY <2>2 DEF QuietInv
  <2>3. CASE coord.status = "NONE" /\ fresh' = fresh
    BY <1>1, <2>3 DEF QuietInv, Switchable, switchVars
  <2> QED BY <1>1, <2>1, <2>2, <2>3, NextRevisions
<1>2. ASSUME NEW s \in Switcher, SwitchStep(s) PROVE QuietInv'
  <2>1. UNCHANGED <<coord, brake>>
    BY <1>2, SwitchStepFrame
  <2>2. Switchable' = Switchable
    BY <2>1 DEF Switchable
  <2>3. switch \in [Switcher -> Switching]
    BY DEF SwitchTypeOK, Switching
  <2> USE DEF SwitchReturns, SwitchGoto, NotSwitching
  <2>4. CASE SwitchLoad(s)
    BY <2>2, <2>3, <2>4 DEF SwitchLoad, QuietInv, Switching
  <2>5. CASE Derive(s) \/ Admit(s)
    BY <2>2, <2>3, <2>5 DEF Derive, Admit, QuietInv, Switching
  <2>6. CASE Prepare(s)
    BY <2>2, <2>3, <2>6 DEF Prepare, MayPrepare, StoreTransition, QuietInv, Switching
  <2>7. CASE Apply(s) \/ ApplyRefused(s)
    BY <2>2, <2>3, <2>7 DEF Apply, ApplyRefused, StoreTransition, QuietInv, Switching
  <2>8. CASE RecoverSwitch(s) \/ SwitchFails(s)
    BY <2>2, <2>3, <2>8 DEF RecoverSwitch, SwitchFails, QuietInv, Switching
  <2> QED BY <1>2, <2>4, <2>5, <2>6, <2>7, <2>8 DEF SwitchStep
<1>3. CASE HumanBrake
  BY <1>3 DEF HumanBrake, Annotate, QuietInv
<1>4. CASE UNCHANGED allVars
  BY <1>4 DEF allVars, vars, switchVars, QuietInv, Switchable
<1> QED BY <1>1, <1>2, <1>3, <1>4 DEF SwitchNext

\* One step of a switch: a phase is stored over a quiet record only.
LEMMA SwitchedStep ==
    ASSUME SwitchTypeOK, QuietInv, [SwitchNext]_allVars, transition' # transition
    PROVE  /\ \/ transition.phase = "NONE" /\ transition'.phase = "PREPARED"
              \/ /\ transition.phase = "PREPARED" /\ transition'.phase = "APPLIED"
                 /\ transition'.target = transition.target
           /\ Switchable
<1>1. PICK s \in Switcher : SwitchStep(s)
  BY DEF SwitchNext, HumanBrake, switchVars, allVars
<1>2. CASE Prepare(s)
  BY <1>2 DEF Prepare, MayPrepare, NoTransition, StoreTransition, QuietInv
<1>3. CASE Apply(s)
  BY <1>3 DEF Apply, MayApply, StoreTransition, QuietInv
<1> QED BY <1>1, <1>2, <1>3 DEF SwitchStep, SwitchLoad, Derive, Admit, ApplyRefused,
        RecoverSwitch, SwitchFails

\* prepare and apply: a session's Plan is switched once, by one intent, over
\* a record that is active, approved, unbraked and without dispatched work.
THEOREM SwitchedOnlyFromQuiet == SwitchSpec => SwitchedFromQuiet
<1>1. SwitchInit => SwitchTypeOK /\ QuietInv
  <2> SUFFICES ASSUME SwitchInit PROVE SwitchTypeOK /\ QuietInv
    OBVIOUS
  <2>1. TypeOK
    BY InitKeeps DEF SwitchInit, CoordinatorInv
  <2>2. SwitchTypeOK
    BY <2>1 DEF SwitchInit, SwitchTypeOK, NoTransition, NotSwitching
  <2>3. QuietInv
    BY DEF SwitchInit, Init, QuietInv, NotSwitching, NoTransition
  <2> QED BY <2>2, <2>3
<1>2. SwitchTypeOK /\ QuietInv /\ CoordinatorInv /\ [SwitchNext]_allVars
         => SwitchTypeOK' /\ QuietInv'
  BY SwitchTypes, QuietKeeps
<1>3. SwitchTypeOK /\ QuietInv /\ [SwitchNext]_allVars =>
         [transition' # transition =>
             /\ \/ transition.phase = "NONE" /\ transition'.phase = "PREPARED"
                \/ /\ transition.phase = "PREPARED" /\ transition'.phase = "APPLIED"
                   /\ transition'.target = transition.target
             /\ Switchable]_allVars
  BY SwitchedStep
<1> QED BY <1>1, <1>2, <1>3, CoordinatorCorrect, PTL DEF SwitchSpec, SwitchedFromQuiet

=============================================================================
