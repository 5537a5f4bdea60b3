-------------------------- MODULE CompletionProofs --------------------------
(***************************************************************************)
(* Recovery and delivery for any number of tasks, hosts, pumps, session    *)
(* threads and crashes: the session is told the one durable story, an ACK  *)
(* on record was given by a session that read it, the attempts are         *)
(* bounded, no more workers run than were admitted, and a success on       *)
(* record is proven.                                                       *)
(*                                                                         *)
(* CompletionInv is inductive beside the dispatcher's DispatchInv.  A      *)
(* step belongs to one thread: ThreadStep says what it has to show.  The   *)
(* steps that only move a pump do so through PumpMoves, the swaps of a     *)
(* pump through PumpSwaps, and those of a call through CallMoves.          *)
(* AdmissionInv and ProvenInv stand on it, under a hypothesis each.        *)
(***************************************************************************)
EXTENDS Completion, DispatcherProofs, FiniteSetTheorems

(* CompletionInv of one thread.                                            *)
ThreadOk(c) == PumpOk(c) /\ SeenOk(c) /\ StoryOk(c) /\ AckOk(c)

-----------------------------------------------------------------------------
(* What a step has to show.                                                *)

(* Results and CARDs are bound once.                                       *)
ResultsStand ==
    \A t \in Task : /\ store[t].result \in {None, store'[t].result}
                    /\ store[t].card \in {None, store'[t].card}

(* A thread that does not move knows what it knew.                         *)
LEMMA OtherThreadKeeps ==
    ASSUME CompletionTypeOK, NEW d \in Thread, ThreadOk(d), ResultsStand,
           pump'[d] = pump[d], call'[d] = call[d], fresh'[d] \subseteq fresh[d],
           \A t \in Task \cap fresh'[d] : store'[t] = store[t],
           \A t \in Task : inbox[t] \subseteq inbox'[t]
    PROVE  ThreadOk(d)'
<1>1. PumpOk(d)'
  BY DEF ThreadOk, PumpOk
<1>2. SeenOk(d)'
  <2>1. pump[d].todo \subseteq Task
    BY DEF CompletionTypeOK, PumpState
  <2>2. \A t \in Task : /\ pump'[d].seen[t].result \in {None, store'[t].result}
                        /\ pump'[d].seen[t].card \in {None, store'[t].card}
    BY DEF ThreadOk, SeenOk, ResultsStand
  <2>3. pump'[d].pc = "claimed" => pump'[d].seen[pump'[d].task].card # None
    BY DEF ThreadOk, SeenOk
  <2>4. pump'[d].pc \in {"deliver", "claimed", "settle"} =>
           \A t \in pump'[d].todo \cap fresh'[d] : pump'[d].seen[t] = store'[t]
    BY <2>1 DEF ThreadOk, SeenOk
  <2> QED BY <2>2, <2>3, <2>4 DEF SeenOk
<1>3. StoryOk(d)'
  <2>1. pump[d].pc \in {"attach", "persisted"} => pump[d].task \in Task
    BY DEF ThreadOk, PumpOk
  <2>2. None \notin Terminal
    BY DispatcherAssumption DEF TaskState
  <2>3. pump[d].pc = "attach" => pump[d].obs \in Terminal
    BY DEF ThreadOk, PumpOk
  <2> QED BY <2>1, <2>2, <2>3 DEF ThreadOk, StoryOk, ResultsStand
<1>4. AckOk(d)'
  BY DEF ThreadOk, AckOk, PumpOk
<1> QED BY <1>1, <1>2, <1>3, <1>4 DEF ThreadOk

(* The step of thread c.                                                   *)
LEMMA ThreadStep ==
    ASSUME CompletionInv, CompletionTypeOK', DispatchInv', ResultsStand,
           NEW c \in Thread, ThreadOk(c)',
           \A d \in Thread \ {c} : /\ pump'[d] = pump[d] /\ call'[d] = call[d]
                                   /\ fresh'[d] \subseteq fresh[d]
                                   /\ \A t \in Task \cap fresh'[d] : store'[t] = store[t],
           \A t \in Task :
              /\ store'[t].card \in {None, store'[t].result}
              /\ store'[t].delivery = "ACKNOWLEDGED" =>
                    store[t].delivery = "ACKNOWLEDGED" \/ inbox'[t] # {}
              /\ inbox[t] \subseteq inbox'[t]
              /\ inbox'[t] \subseteq inbox[t] \cup ({store'[t].result} \ {None}),
           SendInv'
    PROVE  CompletionInv'
<1>1. \A d \in Thread : ThreadOk(d)'
  <2> SUFFICES ASSUME NEW d \in Thread \ {c} PROVE ThreadOk(d)'
    OBVIOUS
  <2>1. ThreadOk(d) /\ CompletionTypeOK
    BY DEF CompletionInv, ThreadOk
  <2>2. \A t \in Task : inbox[t] \subseteq inbox'[t]
    OBVIOUS
  <2>3. /\ pump'[d] = pump[d] /\ call'[d] = call[d] /\ fresh'[d] \subseteq fresh[d]
        /\ \A t \in Task \cap fresh'[d] : store'[t] = store[t]
    OBVIOUS
  <2> QED BY <2>1, <2>2, <2>3, OtherThreadKeeps
<1>2. OneStory'
  <2> SUFFICES ASSUME NEW t \in Task
               PROVE  /\ inbox'[t] \subseteq {store'[t].result} \ {None}
                      /\ store'[t].card \in {None, store'[t].result}
    BY DEF OneStory
  <2>1. inbox[t] \subseteq {store[t].result} \ {None} /\ store[t].result \in {None, store'[t].result}
    BY DEF CompletionInv, OneStory, ResultsStand
  <2> QED BY <2>1
<1>3. AckedWasReceived'
  BY DEF CompletionInv, AckedWasReceived
<1> QED BY <1>1, <1>2, <1>3 DEF CompletionInv, ThreadOk

(* Nobody claims, sends or stops holding a claim, and attempts are kept.   *)
LEMMA SameSends ==
    ASSUME SendInv, UNCHANGED sends,
           \A d \in Thread : pump'[d].pc = "claimed" <=> pump[d].pc = "claimed",
           \A d \in Thread : pump[d].pc = "claimed" => pump'[d].task = pump[d].task,
           \A t \in Task : store'[t].attempt = store[t].attempt
    PROVE  SendInv'
<1>1. \A t : Claimers(t)' = Claimers(t)
  BY DEF Claimers
<1> QED BY <1>1 DEF SendInv

(* The threads that hold a claim of t are finitely many.                   *)
LEMMA ClaimersFinite ==
    ASSUME NEW t PROVE IsFiniteSet(Claimers(t)) /\ Cardinality(Claimers(t)) \in Nat
  BY CompletionAssumption, FS_Subset, FS_CardinalityType DEF Claimers

(* A thread gives up its claim, having sent at most once.                  *)
LEMMA ClaimLeft ==
    ASSUME CompletionTypeOK, SendInv, NEW c \in Thread, NEW t \in Task,
           pump[c].pc = "claimed", pump[c].task = t, pump'[c].pc # "claimed",
           \A d \in Thread \ {c} : pump'[d] = pump[d], UNCHANGED store,
           UNCHANGED sends \/ sends' = [sends EXCEPT ![t] = @ + 1]
    PROVE  SendInv'
<1>1. Claimers(t)' = Claimers(t) \ {c} /\ c \in Claimers(t)
  BY DEF Claimers
<1>2. \A u \in Task \ {t} : Claimers(u)' = Claimers(u)
  BY DEF Claimers
<1>3. Cardinality(Claimers(t)') = Cardinality(Claimers(t)) - 1
  BY <1>1, ClaimersFinite, FS_RemoveElement
<1>4. /\ sends'[t] \in {sends[t], sends[t] + 1}
      /\ \A u \in Task \ {t} : sends'[u] = sends[u]
      /\ sends[t] \in Nat /\ Cardinality(Claimers(t)) \in Nat /\ store[t].attempt \in Nat
  BY ClaimersFinite, CompletionAssumption DEF CompletionTypeOK, TypeOK, Record
<1> SUFFICES ASSUME NEW u \in Task
             PROVE  /\ sends'[u] + Cardinality(Claimers(u)') <= store'[u].attempt
                    /\ store'[u].attempt <= AttemptCap
  BY DEF SendInv
<1>5. sends[u] + Cardinality(Claimers(u)) <= store[u].attempt /\ store[u].attempt <= AttemptCap
  BY DEF SendInv
<1>6. CASE u = t
  BY <1>3, <1>4, <1>5, <1>6
<1>7. CASE u # t
  BY <1>2, <1>4, <1>5, <1>7
<1> QED BY <1>6, <1>7

(* A thread claims t: the attempt it counts is not used up yet.            *)
LEMMA ClaimTaken ==
    ASSUME CompletionTypeOK, SendInv, NEW c \in Thread, NEW t \in Task,
           pump[c].pc # "claimed", pump'[c].pc = "claimed", pump'[c].task = t,
           \A d \in Thread \ {c} : pump'[d] = pump[d], UNCHANGED sends,
           store'[t].attempt = store[t].attempt + 1, store[t].attempt < AttemptCap,
           \A u \in Task \ {t} : store'[u] = store[u]
    PROVE  SendInv'
<1>1. Claimers(t)' = Claimers(t) \cup {c} /\ c \notin Claimers(t)
  BY DEF Claimers
<1>2. \A u \in Task \ {t} : Claimers(u)' = Claimers(u)
  BY DEF Claimers
<1>3. Cardinality(Claimers(t)') = Cardinality(Claimers(t)) + 1
  BY <1>1, ClaimersFinite, FS_AddElement
<1>4. sends[t] \in Nat /\ Cardinality(Claimers(t)) \in Nat /\ store[t].attempt \in Nat /\ AttemptCap \in Nat
  BY ClaimersFinite, CompletionAssumption DEF CompletionTypeOK, TypeOK, Record
<1> SUFFICES ASSUME NEW u \in Task
             PROVE  /\ sends'[u] + Cardinality(Claimers(u)') <= store'[u].attempt
                    /\ store'[u].attempt <= AttemptCap
  BY DEF SendInv
<1>5. sends[u] + Cardinality(Claimers(u)) <= store[u].attempt /\ store[u].attempt <= AttemptCap
  BY DEF SendInv
<1>6. CASE u = t
  BY <1>3, <1>4, <1>5, <1>6
<1>7. CASE u # t
  BY <1>2, <1>5, <1>7
<1> QED BY <1>6, <1>7

-----------------------------------------------------------------------------
(* A pump moves, its thread in no call, and nothing is stored or sent.     *)

(* The places of a pass where it has no task in hand.                      *)
NoTaskAt == {"rest", "recover", "list", "reclaim", "deliver"}

(* A step that only moves a pump: it has to fit PumpOk, and what it saw is *)
(* old, fresh or nothing.                                                  *)
LEMMA PumpMoves ==
    ASSUME CompletionInv, NEW c \in Thread, call[c].pc = "idle", pump[c].pc # "claimed",
           NEW p \in PumpState, pump' = [pump EXCEPT ![c] = p],
           UNCHANGED <<scenario, store, index, cancels, resumes, run, launches, crashes,
                       call, ret, inbox, sends>>,
           route' \in [Host -> [Task -> TaskState \cup {NoRoute}]],
           fresh' \in [Thread -> SUBSET Task], \A d \in Thread \ {c} : fresh'[d] = fresh[d],
           recovered' \in SUBSET Host, expired' \in SUBSET Task,
           p.pc \notin {"claimed", "settle", "persisted"},
           p.pc \notin NoTaskAt => p.task \in Task,
           p.pc = "observed" => p.obs \in TaskState,
           p.pc \in {"gate", "fail", "persist", "attach"} => p.obs \in Terminal,
           p.pc = "attach" => store[p.task].result = p.obs,
           \A t \in Task : p.seen[t] \in {pump[c].seen[t], store[t], NoRecord},
           p.pc = "deliver" => \A t \in p.todo \cap fresh'[c] : p.seen[t] = store[t]
    PROVE  CompletionInv'
<1>1. pump'[c] = p /\ \A d \in Thread \ {c} : pump'[d] = pump[d]
  BY DEF CompletionInv, CompletionTypeOK
<1>2. CompletionTypeOK' /\ TypeOK'
  <2>1. pump' \in [Thread -> PumpState]
    BY DEF CompletionInv, CompletionTypeOK
  <2> QED BY <2>1 DEF CompletionInv, CompletionTypeOK, TypeOK
<1>3. DispatchInv'
  <2>1. CallOk(c)' /\ call'[c].pc # "launch"
    BY IdleKeeps
  <2> QED BY <1>2, <2>1, ReadKeeps DEF CompletionInv
<1>4. ResultsStand
  BY DEF ResultsStand
<1>5. ThreadOk(c)'
  <2>1. PumpOk(c)'
    BY <1>1 DEF PumpOk, NoTaskAt
  <2>2. SeenOk(c)'
    <3>1. NoRecord.result = None /\ NoRecord.card = None
      BY DEF NoRecord
    <3>2. ASSUME NEW t \in Task
          PROVE  p.seen[t].result \in {None, store[t].result} /\ p.seen[t].card \in {None, store[t].card}
      <4>1. /\ pump[c].seen[t].result \in {None, store[t].result}
            /\ pump[c].seen[t].card \in {None, store[t].card}
        BY DEF CompletionInv, SeenOk
      <4>2. p.seen[t] = pump[c].seen[t] \/ p.seen[t] = store[t] \/ p.seen[t] = NoRecord
        OBVIOUS
      <4> QED BY <3>1, <4>1, <4>2
    <3> QED BY <1>1, <3>2 DEF SeenOk
  <2>3. StoryOk(c)' /\ AckOk(c)'
    BY <1>1 DEF StoryOk, AckOk
  <2> QED BY <2>1, <2>2, <2>3 DEF ThreadOk
<1>6. SendInv'
  BY <1>1, SameSends DEF CompletionInv
<1>7. /\ \A d \in Thread \ {c} : /\ pump'[d] = pump[d] /\ call'[d] = call[d]
                                 /\ fresh'[d] \subseteq fresh[d]
                                 /\ \A t \in Task \cap fresh'[d] : store'[t] = store[t]
      /\ \A t \in Task :
            /\ store'[t].card \in {None, store'[t].result}
            /\ store'[t].delivery = "ACKNOWLEDGED" => store[t].delivery = "ACKNOWLEDGED" \/ inbox'[t] # {}
            /\ inbox[t] \subseteq inbox'[t]
            /\ inbox'[t] \subseteq inbox[t] \cup ({store'[t].result} \ {None})
  BY <1>1 DEF CompletionInv, OneStory
<1> QED BY <1>2, <1>3, <1>4, <1>5, <1>6, <1>7, ThreadStep

(* The same, when nothing else changes but what the step says.             *)
LEMMA PumpMovesAlone ==
    ASSUME CompletionInv, NEW c \in Thread, call[c].pc = "idle", pump[c].pc # "claimed",
           NEW p \in PumpState, PumpTo(c, p),
           UNCHANGED <<vars, ret, inbox, sends>>,
           recovered' \in SUBSET Host, expired' \in SUBSET Task,
           p.pc \notin {"claimed", "settle", "persisted"},
           p.pc \notin NoTaskAt => p.task \in Task,
           p.pc = "observed" => p.obs \in TaskState,
           p.pc \in {"gate", "fail", "persist", "attach"} => p.obs \in Terminal,
           p.pc = "attach" => store[p.task].result = p.obs,
           \A t \in Task : p.seen[t] \in {pump[c].seen[t], store[t], NoRecord},
           p.pc = "deliver" => \A t \in p.todo \cap fresh[c] : p.seen[t] = store[t]
    PROVE  CompletionInv'
<1>1. /\ route' \in [Host -> [Task -> TaskState \cup {NoRoute}]]
      /\ fresh' \in [Thread -> SUBSET Task] /\ fresh' = fresh
      /\ UNCHANGED <<scenario, store, index, cancels, resumes, run, launches, crashes, call>>
      /\ pump' = [pump EXCEPT ![c] = p]
  BY DEF CompletionInv, CompletionTypeOK, TypeOK, vars, PumpTo
<1> QED BY <1>1, PumpMoves

(* A pump that is done with a task, or holds an observation of one.        *)
LEMMA DoneTypes ==
    ASSUME CompletionTypeOK, NEW c \in Thread, NEW t \in Task, NEW pc \in PumpPCs
    PROVE  LET p == DoneWith(c, t, pc) IN
           /\ p \in PumpState /\ p.pc = pc /\ p.todo = pump[c].todo \ {t}
           /\ \A u \in Task : p.seen[u] = IF u = t THEN NoRecord ELSE pump[c].seen[u]
<1>1. pump[c] \in PumpState /\ NoRecord \in Record
  BY DEF CompletionTypeOK, NoRecord, Record, TaskState, Active, DeliveryState
<1> HIDE DEF NoRecord
<1>2. [pump[c].seen EXCEPT ![t] = NoRecord] \in [Task -> Record]
  BY <1>1 DEF PumpState
<1> QED BY <1>1, <1>2 DEF DoneWith, PumpState

(* A step after which the pump is done with a task.                        *)
LEMMA DoneKeeps ==
    ASSUME CompletionInv, NEW c \in Thread, NEW t \in Task,
           NEW pc \in {"recover", "reclaim", "deliver"},
           pump[c].pc # "claimed", call[c].pc = "idle",
           pc = "deliver" => pump[c].pc \in {"deliver", "settle"},
           PumpTo(c, DoneWith(c, t, pc)),
           UNCHANGED <<vars, recovered, expired, ret, inbox, sends>>
    PROVE  CompletionInv'
<1> DEFINE p == DoneWith(c, t, pc)
<1>1. /\ p \in PumpState /\ p.pc = pc /\ p.todo = pump[c].todo \ {t}
      /\ \A u \in Task : p.seen[u] = IF u = t THEN NoRecord ELSE pump[c].seen[u]
  BY DoneTypes DEF CompletionInv, PumpPCs
<1>2. PumpTo(c, p)
  OBVIOUS
<1> HIDE DEF p
<1>3. pc = "deliver" => \A u \in p.todo \cap fresh[c] : p.seen[u] = store[u]
  <2>1. pump[c].todo \subseteq Task
    BY DEF CompletionInv, CompletionTypeOK, PumpState
  <2> QED BY <1>1, <2>1 DEF CompletionInv, SeenOk
<1>4. recovered' \in SUBSET Host /\ expired' \in SUBSET Task
  BY DEF CompletionInv, CompletionTypeOK
<1>5. \A u \in Task : p.seen[u] \in {pump[c].seen[u], store[u], NoRecord}
  BY <1>1
<1> QED BY <1>1, <1>2, <1>3, <1>4, <1>5, PumpMovesAlone DEF NoTaskAt

(* A step that takes an observation of a task in hand.                     *)
LEMMA HoldKeeps ==
    ASSUME CompletionInv, NEW c \in Thread, NEW t \in Task,
           NEW pc \in {"ask", "observed", "gate", "fail", "persist", "attach"},
           NEW o \in TaskState,
           pump[c].pc # "claimed", call[c].pc = "idle",
           pc \in {"gate", "fail", "persist", "attach"} => o \in Terminal,
           pc = "attach" => store[t].result = o,
           Holding(c, t, pc, o),
           UNCHANGED <<vars, recovered, expired, ret, inbox, sends>>
    PROVE  CompletionInv'
<1> DEFINE p == [pump[c] EXCEPT !.pc = pc, !.task = t, !.obs = o]
<1>1. /\ p \in PumpState /\ p.pc = pc /\ p.task = t /\ p.obs = o /\ p.seen = pump[c].seen
  <2>1. pc \in PumpPCs /\ pump[c] \in PumpState
    BY DEF PumpPCs, CompletionInv, CompletionTypeOK
  <2> QED BY <2>1 DEF PumpState
<1>2. PumpTo(c, p)
  BY DEF Holding
<1> HIDE DEF p
<1>3. recovered' \in SUBSET Host /\ expired' \in SUBSET Task
  BY DEF CompletionInv, CompletionTypeOK
<1> QED BY <1>1, <1>2, <1>3, PumpMovesAlone DEF NoTaskAt

(* Moving on with the observation in hand.                                 *)
LEMMA ForwardKeeps ==
    ASSUME CompletionInv, NEW c \in Thread,
           NEW pc \in {"fail", "persist", "attach"},
           pump[c].pc \notin NoTaskAt, pump[c].pc # "claimed", call[c].pc = "idle",
           pump[c].obs \in Terminal,
           pc = "attach" => store[pump[c].task].result = pump[c].obs,
           Forward(c, pc),
           UNCHANGED <<vars, recovered, expired, ret, inbox, sends>>
    PROVE  CompletionInv'
<1> DEFINE p == [pump[c] EXCEPT !.pc = pc]
<1>1. /\ p \in PumpState /\ p.pc = pc /\ p.task = pump[c].task /\ p.obs = pump[c].obs
      /\ p.seen = pump[c].seen
  BY DEF CompletionInv, CompletionTypeOK, PumpState, PumpPCs
<1>2. PumpTo(c, p)
  BY DEF Forward
<1> HIDE DEF p
<1>3. pump[c].task \in Task
  BY DEF CompletionInv, PumpOk, NoTaskAt
<1>4. recovered' \in SUBSET Host /\ expired' \in SUBSET Task
  BY DEF CompletionInv, CompletionTypeOK
<1> QED BY <1>1, <1>2, <1>3, <1>4, PumpMovesAlone DEF NoTaskAt

-----------------------------------------------------------------------------
(* The steps of a recovery that only move the pump.                        *)

(* What is known of a pump's state in any step of it.                      *)
LEMMA PumpTypes ==
    ASSUME CompletionInv, NEW c \in Thread
    PROVE  /\ pump[c] \in PumpState /\ HostOf[c] \in Host
           /\ pump[c].pc \notin NoTaskAt => pump[c].task \in Task
           /\ \A t \in Task : /\ store[t] \in Record /\ pump[c].seen[t] \in Record
                              /\ route[HostOf[c]][t] \in TaskState \cup {NoRoute}
<1>1. pump[c] \in PumpState /\ HostOf[c] \in Host
  BY ScenarioTypes DEF CompletionInv, CompletionTypeOK
<1>2. pump[c].pc \notin NoTaskAt => pump[c].task \in Task
  BY DEF CompletionInv, PumpOk, NoTaskAt
<1>3. \A t \in Task : pump[c].seen[t] \in Record
  BY <1>1 DEF PumpState
<1>4. \A t \in Task : store[t] \in Record /\ route[HostOf[c]][t] \in TaskState \cup {NoRoute}
  BY <1>1 DEF CompletionInv, CompletionTypeOK, TypeOK
<1> QED BY <1>1, <1>2, <1>3, <1>4

(* The scan of a pass holds the records as they are.                       *)
LEMMA ScanTypes ==
    ASSUME TypeOK, NEW S \in SUBSET Task
    PROVE  /\ Scanned(S) \in [Task -> Record]
           /\ \A t \in Task : Scanned(S)[t] = IF t \in S THEN store[t] ELSE NoRecord
<1>1. NoRecord \in Record
  BY DEF NoRecord, Record, TaskState, Active, DeliveryState
<1> QED BY <1>1 DEF Scanned, TypeOK

(* A pass begins with its scan.                                            *)
LEMMA BeginPassKeeps ==
    ASSUME CompletionInv, NEW c \in Thread, BeginPass(c) PROVE CompletionInv'
<1> DEFINE S == {t \in Task : RequiresRecovery(store[t])}
           p == [Rest EXCEPT !.pc = "recover", !.pass = "recover",
                             !.todo = S, !.seen = Scanned(S)]
<1>1. S \in SUBSET Task
  OBVIOUS
<1>2. PumpTo(c, p)
  BY DEF BeginPass
<1> HIDE DEF S
<1>3. Scanned(S) \in [Task -> Record] /\ \A t \in Task : Scanned(S)[t] \in {store[t], NoRecord}
  BY <1>1, ScanTypes DEF CompletionInv, CompletionTypeOK
<1>4. p \in PumpState /\ p.pc = "recover" /\ p.seen = Scanned(S)
  BY <1>1, <1>3 DEF Rest, PumpState, PumpPCs, NothingSeen
<1> HIDE DEF p
<1>5. /\ recovered' \in SUBSET Host /\ expired' \in SUBSET Task
      /\ UNCHANGED <<vars, ret, inbox, sends>>
      /\ call[c].pc = "idle" /\ pump[c].pc # "claimed"
  BY DEF BeginPass, At, CompletionInv, CompletionTypeOK
<1> QED BY <1>2, <1>3, <1>4, <1>5, PumpMovesAlone DEF NoTaskAt

(* RecoverPrepared, AskResult, PersistNothing, Ignored, AlreadyCarded, and *)
(* the turns in which a pump passes a task by.                             *)
LEMMA SkipKeeps ==
    ASSUME CompletionInv, NEW c \in Thread, NEW t \in Task,
           pump[c].pc # "claimed", call[c].pc = "idle", Skips(c, t),
           UNCHANGED <<vars, recovered, expired, ret, inbox, sends>>
    PROVE  CompletionInv'
  BY DoneKeeps DEF Skips

(* A PREPARED record is observed as UNKNOWN.                               *)
LEMMA RecoverPreparedKeeps ==
    ASSUME CompletionInv, NEW c \in Thread, NEW t \in Task, RecoverPrepared(c, t)
    PROVE  CompletionInv'
<1>1. /\ Holding(c, t, "observed", "UNKNOWN") /\ "UNKNOWN" \in TaskState
      /\ UNCHANGED <<vars, recovered, expired, ret, inbox, sends>>
      /\ pump[c].pc # "claimed" /\ call[c].pc = "idle"
  BY DEF RecoverPrepared, Turn, At, TaskState, Active
<1> QED BY <1>1, HoldKeeps

(* observe_status, with the route it rebuilds.                             *)
LEMMA RecoverObserveKeeps ==
    ASSUME CompletionInv, NEW c \in Thread, NEW t \in Task, RecoverObserve(c, t)
    PROVE  CompletionInv'
<1> DEFINE h == HostOf[c]
<1>1. h \in Host /\ Known(h, t) \in TaskState /\ StatusAnswers(t) \subseteq TaskState \cup {"ERROR"}
  BY ScenarioTypes, KnownTypes, AnswerTypes DEF CompletionInv, CompletionTypeOK
<1>2. route' \in [Host -> [Task -> TaskState \cup {NoRoute}]]
  BY <1>1, RehydratedTypes DEF RecoverObserve, CompletionInv, CompletionTypeOK
<1>3. /\ pump[c].pc = "recover" /\ call[c].pc = "idle"
      /\ UNCHANGED <<scenario, store, fresh, index, cancels, resumes, call, run, launches,
                     crashes, recovered, expired, ret, inbox, sends>>
      /\ fresh' \in [Thread -> SUBSET Task]
      /\ recovered' \in SUBSET Host /\ expired' \in SUBSET Task
  BY DEF RecoverObserve, Turn, At, worldVars, CompletionInv, CompletionTypeOK, TypeOK
<1>4. PICK p \in PumpState :
         /\ PumpTo(c, p)
         /\ p.pc \in {"recover", "ask", "gate", "observed"}
         /\ p.pc # "recover" => p.task = t
         /\ p.pc = "observed" => p.obs \in TaskState
         /\ p.pc = "gate" => p.obs \in Terminal
         /\ \A u \in Task : p.seen[u] \in {pump[c].seen[u], NoRecord}
  <2>1. PICK a, s :
           /\ a \in StatusAnswers(t)
           /\ s = IF a # "ERROR" THEN a ELSE IF Known(h, t) \in Terminal THEN Known(h, t) ELSE "UNKNOWN"
           /\ \/ Skips(c, t)
              \/ Holding(c, t, IF s = "UNKNOWN" THEN "ask"
                               ELSE IF s \in Terminal THEN "gate" ELSE "observed", s)
    BY DEF RecoverObserve
  <2>2. s \in TaskState
    BY <1>1, <2>1 DEF TaskState, Active
  <2>3. CASE Skips(c, t)
    <3>1. /\ DoneWith(c, t, "recover") \in PumpState /\ DoneWith(c, t, "recover").pc = "recover"
          /\ \A u \in Task : DoneWith(c, t, "recover").seen[u] \in {pump[c].seen[u], NoRecord}
      BY DoneTypes DEF CompletionInv, PumpPCs
    <3> QED BY <2>3, <3>1 DEF Skips
  <2>4. ASSUME NEW pc \in {"ask", "gate", "observed"}, Holding(c, t, pc, s),
               pc = "gate" => s \in Terminal
        PROVE  \E p \in PumpState :
                  /\ PumpTo(c, p)
                  /\ p.pc \in {"recover", "ask", "gate", "observed"}
                  /\ p.pc # "recover" => p.task = t
                  /\ p.pc = "observed" => p.obs \in TaskState
                  /\ p.pc = "gate" => p.obs \in Terminal
                  /\ \A u \in Task : p.seen[u] \in {pump[c].seen[u], NoRecord}
    <3> DEFINE q == [pump[c] EXCEPT !.pc = pc, !.task = t, !.obs = s]
    <3>1. q \in PumpState /\ q.pc = pc /\ q.task = t /\ q.obs = s /\ q.seen = pump[c].seen
      <4>1. pc \in PumpPCs /\ pump[c] \in PumpState
        BY PumpTypes DEF PumpPCs
      <4> QED BY <2>2, <4>1 DEF PumpState
    <3>2. PumpTo(c, q)
      BY <2>4 DEF Holding
    <3> HIDE DEF q
    <3> QED BY <2>2, <2>4, <3>1, <3>2
  <2> QED BY <2>1, <2>3, <2>4
<1>5. /\ p.pc \notin {"claimed", "settle", "persisted", "deliver", "attach", "fail", "persist"}
      /\ p.pc \notin NoTaskAt => p.task \in Task
      /\ \A u \in Task : p.seen[u] \in {pump[c].seen[u], store[u], NoRecord}
      /\ pump' = [pump EXCEPT ![c] = p]
  BY <1>4 DEF NoTaskAt, PumpTo
<1> QED BY <1>2, <1>3, <1>4, <1>5, PumpMoves

(* An UNKNOWN status is resolved by an authoritative result, or not.       *)
LEMMA AskResultKeeps ==
    ASSUME CompletionInv, NEW c \in Thread, AskResult(c) PROVE CompletionInv'
<1> DEFINE t == pump[c].task
<1>1. /\ t \in Task /\ pump[c].pc = "ask" /\ call[c].pc = "idle"
      /\ UNCHANGED <<vars, recovered, expired, ret, inbox, sends>>
  BY PumpTypes DEF AskResult, At, NoTaskAt
<1>2. \/ Skips(c, t) \/ Holding(c, t, "observed", "UNKNOWN")
      \/ \E a \in Terminal : PumpTo(c, [pump[c] EXCEPT !.pc = "gate", !.obs = a, !.auth = TRUE])
  BY DEF AskResult
<1>3. CASE Skips(c, t)
  BY <1>1, <1>3, SkipKeeps
<1>4. CASE Holding(c, t, "observed", "UNKNOWN")
  BY <1>1, <1>4, HoldKeeps DEF TaskState, Active
<1>5. ASSUME NEW a \in Terminal,
             PumpTo(c, [pump[c] EXCEPT !.pc = "gate", !.obs = a, !.auth = TRUE])
      PROVE  CompletionInv'
  <2> DEFINE p == [pump[c] EXCEPT !.pc = "gate", !.obs = a, !.auth = TRUE]
  <2>1. p \in PumpState /\ p.pc = "gate" /\ p.task = t /\ p.obs = a /\ p.seen = pump[c].seen
    BY PumpTypes DEF PumpState, PumpPCs, TaskState
  <2>2. PumpTo(c, p)
    BY <1>5
  <2> HIDE DEF p
  <2>3. recovered' \in SUBSET Host /\ expired' \in SUBSET Task /\ UNCHANGED <<vars, ret, inbox, sends>>
    BY <1>1 DEF CompletionInv, CompletionTypeOK
  <2> QED BY <1>1, <2>1, <2>2, <2>3, PumpMovesAlone DEF NoTaskAt
<1> QED BY <1>2, <1>3, <1>4, <1>5

(* PersistNothing, Ignored and AlreadyCarded.                              *)
LEMMA PassesBy ==
    ASSUME CompletionInv, NEW c \in Thread, PersistNothing(c) \/ Ignored(c) \/ AlreadyCarded(c)
    PROVE  CompletionInv'
<1>1. /\ Skips(c, pump[c].task) /\ call[c].pc = "idle"
      /\ pump[c].pc \in {"observed", "ignored", "attach"}
      /\ UNCHANGED <<vars, recovered, expired, ret, inbox, sends>>
  BY DEF PersistNothing, Ignored, AlreadyCarded, At
<1>2. pump[c].task \in Task
  BY <1>1, PumpTypes DEF NoTaskAt
<1> QED BY <1>1, <1>2, SkipKeeps

(* The semantic gate sends a terminal observation to one of two ends.      *)
LEMMA GateKeeps ==
    ASSUME CompletionInv, NEW c \in Thread, Gate(c) PROVE CompletionInv'
<1>1. /\ Forward(c, "fail") \/ Forward(c, "persist")
      /\ pump[c].pc = "gate" /\ call[c].pc = "idle"
      /\ UNCHANGED <<vars, recovered, expired, ret, inbox, sends>>
  BY DEF Gate, At
<1>2. pump[c].obs \in Terminal /\ pump[c].pc \notin NoTaskAt
  BY <1>1 DEF CompletionInv, PumpOk, NoTaskAt
<1> QED BY <1>1, <1>2, ForwardKeeps

(* A failure that comes after durable truth takes the result on record.    *)
LEMMA FailureTooLateKeeps ==
    ASSUME CompletionInv, NEW c \in Thread, FailureTooLate(c) PROVE CompletionInv'
<1> DEFINE t == pump[c].task
<1>1. /\ pump[c].pc = "fail" /\ call[c].pc = "idle"
      /\ UNCHANGED <<vars, recovered, expired, ret, inbox, sends>>
      /\ \/ store[t].result \in Terminal /\ Holding(c, t, "attach", store[t].result)
         \/ Skips(c, t)
  BY DEF FailureTooLate, At, Terminal
<1>2. t \in Task
  BY <1>1, PumpTypes DEF NoTaskAt
<1>3. CASE Skips(c, t)
  BY <1>1, <1>2, <1>3, SkipKeeps
<1>4. CASE store[t].result \in Terminal /\ Holding(c, t, "attach", store[t].result)
  BY <1>1, <1>2, <1>4, HoldKeeps DEF TaskState
<1> QED BY <1>1, <1>3, <1>4

(* An outcome that is in doubt is UNKNOWN; one that was stored goes on.    *)
LEMMA PersistedKeeps ==
    ASSUME CompletionInv, NEW c \in Thread, Persisted(c) PROVE CompletionInv'
<1> DEFINE t == pump[c].task
<1>1. /\ pump[c].pc = "persisted" /\ call[c].pc = "idle"
      /\ UNCHANGED <<vars, recovered, expired, ret, inbox, sends>>
      /\ \/ call[c].out = "ok" /\ pump[c].obs \in Terminal /\ Forward(c, "attach")
         \/ Holding(c, t, "observed", "UNKNOWN")
  BY DEF Persisted, At
<1>2. t \in Task /\ pump[c].pc \notin NoTaskAt
  BY <1>1, PumpTypes DEF NoTaskAt
<1>3. CASE call[c].out = "ok" /\ pump[c].obs \in Terminal /\ Forward(c, "attach")
  <2>1. store[t].result = pump[c].obs
    BY <1>1, <1>3 DEF CompletionInv, StoryOk
  <2> QED BY <1>1, <1>2, <1>3, <2>1, ForwardKeeps
<1>4. CASE Holding(c, t, "observed", "UNKNOWN")
  BY <1>1, <1>2, <1>4, HoldKeeps DEF TaskState, Active
<1> QED BY <1>1, <1>3, <1>4

(* A terminal record of the scan: its result, if any, is on record still.  *)
LEMMA EnsureCardKeeps ==
    ASSUME CompletionInv, NEW c \in Thread, NEW t \in Task, EnsureCard(c, t)
    PROVE  CompletionInv'
<1> DEFINE r == pump[c].seen[t]
<1>1. /\ pump[c].pc = "recover" /\ call[c].pc = "idle"
      /\ UNCHANGED <<vars, recovered, expired, ret, inbox, sends>>
      /\ \/ r.state \in Terminal /\ Holding(c, t, "gate", r.state)
         \/ r.result # None /\ Holding(c, t, "attach", r.result)
         \/ Skips(c, t)
  BY DEF EnsureCard, Turn, At
<1>2. CASE Skips(c, t)
  BY <1>1, <1>2, SkipKeeps
<1>3. CASE r.state \in Terminal /\ Holding(c, t, "gate", r.state)
  BY <1>1, <1>3, HoldKeeps DEF TaskState
<1>4. CASE r.result # None /\ Holding(c, t, "attach", r.result)
  <2>1. r.result \in Terminal /\ store[t].result = r.result
    BY <1>4, PumpTypes DEF CompletionInv, SeenOk, Record
  <2> QED BY <1>1, <1>4, <2>1, HoldKeeps DEF TaskState
<1> QED BY <1>1, <1>2, <1>3, <1>4

(* The turns of reclaim and delivery that pass a task by.                  *)
LEMMA LeavesKeeps ==
    ASSUME CompletionInv, NEW c \in Thread,
           \/ \E t \in Task : LeaveClaim(c, t) \/ NotDurableYet(c, t) \/ ClaimRaceLost(c, t)
           \/ SettleRaceLost(c)
    PROVE  CompletionInv'
<1>1. ASSUME NEW t \in Task, LeaveClaim(c, t) PROVE CompletionInv'
  BY <1>1, DoneKeeps DEF LeaveClaim, At
<1>2. ASSUME NEW t \in Task, NotDurableYet(c, t) \/ ClaimRaceLost(c, t) PROVE CompletionInv'
  BY <1>2, DoneKeeps DEF NotDurableYet, ClaimRaceLost, DeliverTurn, At
<1>3. ASSUME SettleRaceLost(c) PROVE CompletionInv'
  <2>1. pump[c].task \in Task
    BY <1>3, PumpTypes DEF SettleRaceLost, At, NoTaskAt
  <2> QED BY <1>3, <2>1, DoneKeeps DEF SettleRaceLost, At
<1> QED BY <1>1, <1>2, <1>3

(* The listings of claims and of pending results; the ends of passes.      *)
LEMMA ListingsKeep ==
    ASSUME CompletionInv, NEW c \in Thread, ListClaims(c) \/ Scan(c) \/ PassEnds(c) \/ RecoveryEnds(c)
    PROVE  CompletionInv'
<1>1. /\ UNCHANGED <<scenario, store, index, cancels, resumes, run, launches, crashes, call,
                     ret, inbox, sends>>
      /\ route' \in [Host -> [Task -> TaskState \cup {NoRoute}]]
      /\ expired' \in SUBSET Task /\ recovered' \in SUBSET Host
      /\ call[c].pc = "idle" /\ pump[c].pc # "claimed"
  BY PumpTypes DEF ListClaims, Scan, PassEnds, RecoveryEnds, At, hostVars, worldVars, vars,
     CompletionInv, CompletionTypeOK, TypeOK
<1>2. /\ fresh' \in [Thread -> SUBSET Task] /\ \A d \in Thread \ {c} : fresh'[d] = fresh[d]
  BY DEF ListClaims, Scan, PassEnds, RecoveryEnds, vars, CompletionInv, CompletionTypeOK, TypeOK
<1>3. PICK p \in PumpState :
         /\ pump' = [pump EXCEPT ![c] = p]
         /\ p.pc \in {"reclaim", "deliver", "rest", "list"}
         /\ \A t \in Task : p.seen[t] \in {pump[c].seen[t], store[t], NoRecord}
         /\ p.pc = "deliver" => \A t \in p.todo \cap fresh'[c] : p.seen[t] = store[t]
  <2>1. pump[c] \in PumpState
    BY PumpTypes
  <2>2. CASE ListClaims(c)
    <3> DEFINE p == [pump[c] EXCEPT !.pc = "reclaim",
                                    !.todo = {t \in Task : store[t].delivery = "CLAIMED"}]
    <3>1. p \in PumpState /\ p.pc = "reclaim" /\ p.seen = pump[c].seen
      BY <2>1 DEF PumpState, PumpPCs
    <3>2. pump' = [pump EXCEPT ![c] = p]
      BY <2>2 DEF ListClaims, PumpTo
    <3> HIDE DEF p
    <3> QED BY <3>1, <3>2
  <2>3. CASE Scan(c)
    <3> DEFINE S == {t \in Task : Deliverable(store[t])}
               p == [pump[c] EXCEPT !.pc = "deliver", !.todo = S, !.seen = Scanned(S)]
    <3>1. pump' = [pump EXCEPT ![c] = p] /\ S \in SUBSET Task
      BY <2>3 DEF Scan, PumpTo
    <3> HIDE DEF S
    <3>2. /\ Scanned(S) \in [Task -> Record]
          /\ \A t \in Task : Scanned(S)[t] = IF t \in S THEN store[t] ELSE NoRecord
      BY <3>1, ScanTypes DEF CompletionInv, CompletionTypeOK
    <3>3. p \in PumpState /\ p.pc = "deliver" /\ p.seen = Scanned(S) /\ p.todo = S
      BY <2>1, <3>1, <3>2 DEF PumpState, PumpPCs
    <3> HIDE DEF p
    <3> QED BY <3>1, <3>2, <3>3
  <2>4. CASE PassEnds(c)
    <3>1. NoRecord \in Record
      BY DEF NoRecord, Record, TaskState, Active, DeliveryState
    <3>2. Rest \in PumpState /\ Rest.pc = "rest" /\ \A t \in Task : Rest.seen[t] = NoRecord
      BY <3>1 DEF Rest, NothingSeen, PumpState, PumpPCs
    <3> QED BY <2>4, <3>2 DEF PassEnds, PumpTo
  <2>5. CASE RecoveryEnds(c)
    <3> DEFINE p == [pump[c] EXCEPT !.pc = "list", !.pass = "deliver"]
    <3>1. p \in PumpState /\ p.pc = "list" /\ p.seen = pump[c].seen
      BY <2>1 DEF PumpState, PumpPCs
    <3>2. pump' = [pump EXCEPT ![c] = p]
      BY <2>5 DEF RecoveryEnds, PumpTo
    <3> HIDE DEF p
    <3> QED BY <3>1, <3>2
  <2> QED BY <2>2, <2>3, <2>4, <2>5
<1>4. /\ p.pc \notin {"claimed", "settle", "persisted"}
      /\ p.pc \notin NoTaskAt => p.task \in Task
      /\ p.pc = "observed" => p.obs \in TaskState
      /\ p.pc \in {"gate", "fail", "persist", "attach"} => p.obs \in Terminal
      /\ p.pc = "attach" => store[p.task].result = p.obs
  BY <1>3 DEF NoTaskAt
<1> QED BY <1>1, <1>2, <1>3, <1>4, PumpMoves

-----------------------------------------------------------------------------
(* The steps of a recovery that start a call of the pump's own thread.     *)

(* A pump hands its thread to a swap or a result: it waits for the end.    *)
LEMMA PumpCalls ==
    ASSUME CompletionInv, DispatchInv', NEW c \in Thread, pump[c].pc # "claimed",
           NEW p \in PumpState, PumpTo(c, p), p.pc \in {"ignored", "persisted"},
           p.task \in Task, p.seen = pump[c].seen,
           UNCHANGED <<store, recovered, expired, ret, inbox, sends>>,
           \A d \in Thread \ {c} : call'[d] = call[d] /\ fresh'[d] = fresh[d],
           call'[c].pc = "swap" => call'[c].want.card \in {None, call'[c].want.result},
           p.pc = "persisted" /\ p.obs \in Terminal =>
              /\ call'[c].op \in {"result", "persist"} /\ call'[c].task = p.task
              /\ call'[c].pc = "answered" /\ call'[c].obs = p.obs
    PROVE  CompletionInv'
<1>1. pump'[c] = p /\ pump' \in [Thread -> PumpState] /\ \A d \in Thread \ {c} : pump'[d] = pump[d]
  BY DEF CompletionInv, CompletionTypeOK, PumpTo
<1>2. CompletionTypeOK'
  BY <1>1 DEF CompletionInv, CompletionTypeOK, DispatchInv
<1>3. ResultsStand
  BY DEF ResultsStand
<1>4. ThreadOk(c)'
  <2>1. PumpOk(c)' /\ AckOk(c)'
    BY <1>1 DEF PumpOk, AckOk
  <2>2. SeenOk(c)'
    BY <1>1 DEF CompletionInv, SeenOk
  <2>3. StoryOk(c)'
    BY <1>1 DEF StoryOk
  <2> QED BY <2>1, <2>2, <2>3 DEF ThreadOk
<1>5. SendInv'
  BY <1>1, SameSends DEF CompletionInv
<1>6. /\ \A d \in Thread \ {c} : /\ pump'[d] = pump[d] /\ call'[d] = call[d]
                                 /\ fresh'[d] \subseteq fresh[d]
                                 /\ \A t \in Task \cap fresh'[d] : store'[t] = store[t]
      /\ \A t \in Task :
            /\ store'[t].card \in {None, store'[t].result}
            /\ store'[t].delivery = "ACKNOWLEDGED" => store[t].delivery = "ACKNOWLEDGED" \/ inbox'[t] # {}
            /\ inbox[t] \subseteq inbox'[t]
            /\ inbox'[t] \subseteq inbox[t] \cup ({store'[t].result} \ {None})
  BY <1>1 DEF CompletionInv, OneStory
<1> QED BY <1>2, <1>3, <1>4, <1>5, <1>6, ThreadStep

(* A pump's swap of a record it just read.                                 *)
LEMMA PumpStartsSwap ==
    ASSUME CompletionInv, NEW c \in Thread, NEW t \in Task, NEW op \in {"observe", "attach"},
           NEW n \in Record, pump[c].pc \in {"observed", "attach"}, t = pump[c].task,
           Reads(c, t), Goes(c, [Started(op, "swap", t) EXCEPT !.want = n]), Forward(c, "ignored"),
           n.phase = store[t].phase, n.key = store[t].key, n.intent = store[t].intent,
           n.delivery = store[t].delivery, n.attempt = store[t].attempt,
           n.card \in {None, n.result},
           UNCHANGED <<scenario, store, hostVars, worldVars, recovered, expired, ret, inbox, sends>>
    PROVE  CompletionInv'
<1> DEFINE b == Started(op, "swap", t)
           next == [b EXCEPT !.want = n]
           p == [pump[c] EXCEPT !.pc = "ignored"]
<1>1. b \in CallState
  BY StartedTypes DEF Ops
<1>2. Goes(c, next)
  OBVIOUS
<1>3. next.pc = "swap" /\ next.task = t
  BY <1>1, StartedTypes DEF CallState, Ops
<1> HIDE DEF b
<1>4. next \in CallState /\ next.want = n
  BY <1>1 DEF CallState
<1> HIDE DEF next
<1>5. DispatchInv
  BY DEF CompletionInv
<1>6. /\ next.want.phase = store[t].phase /\ next.want.key = store[t].key
      /\ next.want.intent = store[t].intent /\ next.want.delivery = store[t].delivery
      /\ next.want.attempt = store[t].attempt /\ UNCHANGED store
  BY <1>4
<1>7. /\ call' \in [Thread -> CallState] /\ fresh' \in [Thread -> SUBSET Task]
      /\ call'[c] = next /\ CallOk(c)'
      /\ \A d \in Thread \ {c} : call'[d] = call[d] /\ fresh'[d] = fresh[d]
  BY <1>2, <1>3, <1>4, <1>5, <1>6, GoesToSwap
<1>8. DispatchInv'
  <2>1. TypeOK'
    BY <1>5, <1>7 DEF hostVars, worldVars, DispatchInv, TypeOK
  <2>2. call'[c].pc # "launch" /\ UNCHANGED <<store, launches, run>>
    BY <1>3, <1>7 DEF worldVars
  <2> QED BY <1>5, <1>7, <2>1, <2>2, ReadKeeps
<1>9. p \in PumpState /\ p.pc = "ignored" /\ p.task \in Task /\ p.seen = pump[c].seen
  BY PumpTypes DEF PumpState, PumpPCs
<1>10. PumpTo(c, p) /\ pump[c].pc # "claimed"
  BY DEF Forward
<1> HIDE DEF p
<1>11. call'[c].pc = "swap" => call'[c].want.card \in {None, call'[c].want.result}
  BY <1>4, <1>7
<1> QED BY <1>7, <1>8, <1>9, <1>10, <1>11, PumpCalls

(* An observed state is stored beside the result and CARD that were read.  *)
LEMMA PersistObservedKeeps ==
    ASSUME CompletionInv, NEW c \in Thread, PersistObserved(c) PROVE CompletionInv'
<1> DEFINE t == pump[c].task
           n == [store[t] EXCEPT !.state = pump[c].obs]
<1>1. pump[c].pc = "observed" /\ t \in Task /\ store[t] \in Record /\ pump[c].obs \in TaskState
  BY PumpTypes DEF PersistObserved, At, NoTaskAt, CompletionInv, PumpOk
<1>2. /\ n \in Record /\ n.phase = store[t].phase /\ n.key = store[t].key
      /\ n.intent = store[t].intent /\ n.delivery = store[t].delivery
      /\ n.attempt = store[t].attempt /\ n.card = store[t].card /\ n.result = store[t].result
  BY <1>1 DEF Record
<1>3. store[t].card \in {None, store[t].result}
  BY <1>1 DEF CompletionInv, OneStory
<1>4. /\ Reads(c, t) /\ Goes(c, [Started("observe", "swap", t) EXCEPT !.want = n])
      /\ Forward(c, "ignored")
      /\ UNCHANGED <<scenario, store, hostVars, worldVars, recovered, expired, ret, inbox, sends>>
  BY DEF PersistObserved
<1> HIDE DEF n, t
<1>5. t = pump[c].task
  BY DEF t
<1> QED BY <1>1, <1>2, <1>3, <1>4, <1>5, PumpStartsSwap

(* The CARD it attaches reports the result on record.                      *)
LEMMA AttachCardKeeps ==
    ASSUME CompletionInv, NEW c \in Thread, AttachCard(c) PROVE CompletionInv'
<1> DEFINE t == pump[c].task
           n == [store[t] EXCEPT !.card = pump[c].obs]
<1>1. /\ pump[c].pc = "attach" /\ t \in Task /\ store[t] \in Record
      /\ pump[c].obs \in Terminal /\ store[t].result = pump[c].obs
  BY PumpTypes DEF AttachCard, At, NoTaskAt, CompletionInv, PumpOk, StoryOk
<1>2. /\ n \in Record /\ n.phase = store[t].phase /\ n.key = store[t].key
      /\ n.intent = store[t].intent /\ n.delivery = store[t].delivery
      /\ n.attempt = store[t].attempt /\ n.card = n.result
  BY <1>1 DEF Record
<1>3. /\ Reads(c, t) /\ Goes(c, [Started("attach", "swap", t) EXCEPT !.want = n])
      /\ Forward(c, "ignored")
      /\ UNCHANGED <<scenario, store, hostVars, worldVars, recovered, expired, ret, inbox, sends>>
  BY DEF AttachCard
<1> HIDE DEF n, t
<1>4. t = pump[c].task
  BY DEF t
<1> QED BY <1>1, <1>2, <1>3, <1>4, PumpStartsSwap

(* A pump's result: the call will store the observation it holds.          *)
LEMMA PumpAsks ==
    ASSUME CompletionInv, NEW c \in Thread, NEW op \in {"result", "persist"},
           NEW a \in TaskState \cup {"ERROR"}, pump[c].pc \in {"persist", "fail"},
           PersistsTerminal(c, op, a), NEW p \in PumpState, PumpTo(c, p),
           p.pc = "persisted", p.task = pump[c].task, p.seen = pump[c].seen,
           p.obs \in Terminal => p.obs = a,
           route' \in [Host -> [Task -> TaskState \cup {NoRoute}]],
           UNCHANGED <<scenario, store, fresh, index, cancels, resumes, worldVars,
                       recovered, expired, ret, inbox, sends>>
    PROVE  CompletionInv'
<1> DEFINE t == pump[c].task
           b == Started(op, "answered", t)
<1>1. t \in Task /\ DispatchInv /\ TypeOK /\ op \in Ops
  BY PumpTypes DEF NoTaskAt, CompletionInv, DispatchInv, Ops
<1>2. Goes(c, [b EXCEPT !.obs = a])
  BY DEF PersistsTerminal
<1>3. /\ call' \in [Thread -> CallState] /\ call'[c].pc = "answered"
      /\ call'[c].task = t /\ call'[c].obs = a
      /\ \A d \in Thread \ {c} : call'[d] = call[d]
  BY <1>1, <1>2, Asked
<1>4. call'[c].op = op
  <2>1. b \in CallState /\ b.op = op
    BY <1>1, StartedTypes DEF Started, Idle
  <2> HIDE DEF b
  <2>2. call'[c] = [b EXCEPT !.obs = a]
    BY <1>1, <1>2 DEF Goes, TypeOK
  <2> QED BY <2>1, <2>2 DEF CallState
<1>5. DispatchInv'
  <2>1. /\ cancels' \in [Host -> [Task -> TaskState \cup {None}]] /\ resumes' \in [Host -> SUBSET Task]
        /\ run' \in [Task -> RunState] /\ \A u \in Task : run[u] = "NOTRUN" => run'[u] = "NOTRUN"
        /\ UNCHANGED <<scenario, store, fresh, index, launches, crashes>>
    BY <1>1 DEF TypeOK, worldVars
  <2> QED BY <1>1, <1>2, <2>1, AskKeeps
<1>6. \A d \in Thread \ {c} : call'[d] = call[d] /\ fresh'[d] = fresh[d]
  BY <1>3
<1>7. /\ pump[c].pc # "claimed" /\ p.task \in Task /\ p.pc \in {"ignored", "persisted"}
      /\ call'[c].pc # "swap"
  BY <1>1, <1>3
<1> QED BY <1>3, <1>4, <1>5, <1>6, <1>7, PumpCalls

(* The terminal truth: from the adapter again, or what was already seen.   *)
LEMMA PersistTruthKeeps ==
    ASSUME CompletionInv, NEW c \in Thread, PersistTruth(c) PROVE CompletionInv'
<1> DEFINE t == pump[c].task
<1>1. /\ pump[c].pc = "persist" /\ t \in Task /\ pump[c] \in PumpState /\ pump[c].obs \in Terminal
      /\ UNCHANGED <<scenario, store, fresh, index, cancels, resumes, worldVars,
                     recovered, expired, ret, inbox, sends>>
  BY PumpTypes DEF PersistTruth, At, NoTaskAt, CompletionInv, PumpOk
<1>2. CASE pump[c].auth
  <2> DEFINE p == [pump[c] EXCEPT !.pc = "persisted"]
  <2>1. /\ PersistsTerminal(c, "persist", pump[c].obs) /\ PumpTo(c, p)
        /\ route' \in [Host -> [Task -> TaskState \cup {NoRoute}]]
    BY <1>2 DEF PersistTruth, Forward, CompletionInv, CompletionTypeOK, TypeOK
  <2>2. /\ p \in PumpState /\ p.pc = "persisted" /\ p.task = t /\ p.seen = pump[c].seen
        /\ p.obs = pump[c].obs /\ pump[c].obs \in TaskState \cup {"ERROR"}
    BY <1>1 DEF PumpState, PumpPCs, TaskState
  <2> HIDE DEF p
  <2> QED BY <1>1, <2>1, <2>2, PumpAsks
<1>3. CASE ~pump[c].auth
  <2>1. PICK a \in ResultAnswers(t) :
           PersistsTerminal(c, "result", a) /\ Holding(c, t, "persisted", a)
    BY <1>3 DEF PersistTruth
  <2>2. /\ a \in TaskState \cup {"ERROR"} /\ route' \in [Host -> [Task -> TaskState \cup {NoRoute}]]
    BY <1>1, <1>3, AnswerTypes, RehydratedTypes DEF PersistTruth, CompletionInv, CompletionTypeOK
  <2> DEFINE p == [pump[c] EXCEPT !.pc = "persisted", !.task = t, !.obs = a]
  <2>3. /\ p \in PumpState /\ p.pc = "persisted" /\ p.task = t /\ p.seen = pump[c].seen /\ p.obs = a
    BY <1>1, <2>2 DEF PumpState, PumpPCs
  <2>4. PumpTo(c, p)
    BY <2>1 DEF Holding
  <2> HIDE DEF p
  <2> QED BY <1>1, <2>1, <2>2, <2>3, <2>4, PumpAsks
<1> QED BY <1>2, <1>3

(* A truthful failure, where the worker returned nothing.                  *)
LEMMA PersistFailureKeeps ==
    ASSUME CompletionInv, NEW c \in Thread, PersistFailure(c) PROVE CompletionInv'
<1> DEFINE t == pump[c].task
           p == [pump[c] EXCEPT !.pc = "persisted", !.task = t, !.obs = "FAILED"]
<1>1. /\ pump[c].pc = "fail" /\ t \in Task /\ pump[c] \in PumpState
      /\ UNCHANGED <<scenario, store, fresh, index, cancels, resumes, worldVars,
                     recovered, expired, ret, inbox, sends>>
      /\ PersistsTerminal(c, "persist", "FAILED") /\ PumpTo(c, p)
  BY PumpTypes DEF PersistFailure, At, NoTaskAt, Holding
<1>2. /\ p \in PumpState /\ p.pc = "persisted" /\ p.task = t /\ p.seen = pump[c].seen
      /\ p.obs = "FAILED" /\ "FAILED" \in TaskState \cup {"ERROR"}
  BY <1>1 DEF PumpState, PumpPCs, TaskState, Terminal
<1>3. route' \in [Host -> [Task -> TaskState \cup {NoRoute}]]
  BY <1>1, RehydratedTypes DEF PersistFailure, CompletionInv, CompletionTypeOK
<1> HIDE DEF p
<1> QED BY <1>1, <1>2, <1>3, PumpAsks

-----------------------------------------------------------------------------
(* The swaps of a pump, and what it sends.                                 *)

(* A pump swaps the delivery of a record: what the record says of the      *)
(* outcome stays, and every other thread loses its hold on it.             *)
LEMMA PumpSwaps ==
    ASSUME CompletionInv, NEW c \in Thread, call[c].pc = "idle", NEW t \in Task, NEW n \in Record,
           store' = [store EXCEPT ![t] = n], MayUpdate(store[t], n),
           n.key = store[t].key, n.intent = store[t].intent,
           n.result = store[t].result, n.card = store[t].card,
           n.delivery = "ACKNOWLEDGED" => inbox[t] # {},
           fresh' \in [Thread -> SUBSET Task], \A d \in Thread \ {c} : fresh'[d] = fresh[d] \ {t},
           NEW p \in PumpState, PumpTo(c, p),
           UNCHANGED <<scenario, hostVars, worldVars, call, recovered, ret, inbox, sends>>,
           expired' \in SUBSET Task,
           p.pc \in {"reclaim", "deliver", "claimed"}, p.pc = "claimed" => p.task \in Task,
           \A u \in Task : /\ p.seen[u].result \in {None, store'[u].result}
                           /\ p.seen[u].card \in {None, store'[u].card},
           p.pc = "claimed" => p.seen[p.task].card # None,
           p.pc \in {"deliver", "claimed"} =>
              \A u \in p.todo \cap fresh'[c] : p.seen[u] = store'[u],
           SendInv'
    PROVE  CompletionInv'
<1>1. pump'[c] = p /\ pump' \in [Thread -> PumpState] /\ \A d \in Thread \ {c} : pump'[d] = pump[d]
  BY DEF CompletionInv, CompletionTypeOK, PumpTo
<1>2. /\ \A u \in Task : store'[u] = IF u = t THEN n ELSE store[u]
      /\ store' \in [Task -> Record]
  BY DEF CompletionInv, CompletionTypeOK, TypeOK
<1>3. CompletionTypeOK' /\ TypeOK'
  BY <1>1, <1>2 DEF CompletionInv, CompletionTypeOK, TypeOK, hostVars, worldVars
<1>4. DispatchInv'
  <2>1. store[t].phase # "ABSENT" /\ n.phase # "ABSENT"
    BY DEF MayUpdate, PhaseMoves
  <2>2. \A d \in Thread :
           \/ call'[d].pc = "idle"
           \/ call'[d] = call[d] /\ fresh'[d] \subseteq fresh[d] \ {t}
    OBVIOUS
  <2>3. DispatchInv /\ UNCHANGED <<run, launches>>
    BY DEF CompletionInv, worldVars
  <2> QED BY <1>3, <2>1, <2>2, <2>3, SwapKeeps
<1>5. ResultsStand
  BY <1>2 DEF ResultsStand
<1>6. ThreadOk(c)'
  <2>1. PumpOk(c)' /\ StoryOk(c)' /\ AckOk(c)'
    BY <1>1 DEF PumpOk, StoryOk, AckOk
  <2>2. SeenOk(c)'
    BY <1>1 DEF SeenOk
  <2> QED BY <2>1, <2>2 DEF ThreadOk
<1>7. \A d \in Thread \ {c} : /\ pump'[d] = pump[d] /\ call'[d] = call[d]
                              /\ fresh'[d] \subseteq fresh[d]
                              /\ \A u \in Task \cap fresh'[d] : store'[u] = store[u]
  BY <1>1, <1>2
<1>8. \A u \in Task :
         /\ store'[u].card \in {None, store'[u].result}
         /\ store'[u].delivery = "ACKNOWLEDGED" => store[u].delivery = "ACKNOWLEDGED" \/ inbox'[u] # {}
         /\ inbox[u] \subseteq inbox'[u]
         /\ inbox'[u] \subseteq inbox[u] \cup ({store'[u].result} \ {None})
  BY <1>2 DEF CompletionInv, OneStory
<1> QED BY <1>3, <1>4, <1>5, <1>6, <1>7, <1>8, ThreadStep

(* A swap after which the pump is done with the task.                      *)
LEMMA PumpSettles ==
    ASSUME CompletionInv, NEW c \in Thread, NEW t \in Task, NEW s \in DeliveryState,
           NEW pc \in {"reclaim", "deliver"},
           call[c].pc = "idle", pump[c].pc # "claimed",
           pc = "deliver" => pump[c].pc \in {"deliver", "settle"},
           MayUpdate(store[t], SettledAs(store[t], s)), Swaps(t, SettledAs(store[t], s)),
           s = "ACKNOWLEDGED" => inbox[t] # {},
           PumpTo(c, DoneWith(c, t, pc)), expired' \in SUBSET Task,
           UNCHANGED <<scenario, hostVars, worldVars, call, recovered, ret, inbox, sends>>
    PROVE  CompletionInv'
<1> DEFINE n == SettledAs(store[t], s)
           p == DoneWith(c, t, pc)
<1>1. /\ p \in PumpState /\ p.pc = pc /\ p.todo = pump[c].todo \ {t}
      /\ \A u \in Task : p.seen[u] = IF u = t THEN NoRecord ELSE pump[c].seen[u]
  BY DoneTypes DEF CompletionInv, PumpPCs
<1>2. /\ n \in Record /\ n.key = store[t].key /\ n.intent = store[t].intent
      /\ n.result = store[t].result /\ n.card = store[t].card /\ n.attempt = store[t].attempt
      /\ n.delivery = s
  <2>1. store[t] \in Record
    BY PumpTypes
  <2> QED BY <2>1 DEF SettledAs, Record
<1>3. PumpTo(c, p) /\ Swaps(t, n) /\ MayUpdate(store[t], n)
  OBVIOUS
<1> HIDE DEF n, p
<1>4. /\ store' = [store EXCEPT ![t] = n]
      /\ \A u \in Task : store'[u] = IF u = t THEN n ELSE store[u]
      /\ fresh' \in [Thread -> SUBSET Task]
      /\ \A d \in Thread : fresh'[d] = fresh[d] \ {t}
  BY <1>3 DEF Swaps, CompletionInv, CompletionTypeOK, TypeOK
<1>5. \A u \in Task : /\ p.seen[u].result \in {None, store'[u].result}
                      /\ p.seen[u].card \in {None, store'[u].card}
  <2>1. NoRecord.result = None /\ NoRecord.card = None
    BY DEF NoRecord
  <2>2. \A u \in Task : /\ pump[c].seen[u].result \in {None, store[u].result}
                        /\ pump[c].seen[u].card \in {None, store[u].card}
    BY DEF CompletionInv, SeenOk
  <2> HIDE DEF NoRecord
  <2> QED BY <1>1, <1>4, <2>1, <2>2
<1>6. pc = "deliver" => \A u \in p.todo \cap fresh'[c] : p.seen[u] = store'[u]
  <2>1. pump[c].todo \subseteq Task
    BY PumpTypes DEF PumpState
  <2> QED BY <1>1, <1>4, <2>1 DEF CompletionInv, SeenOk
<1>7. SendInv'
  <2>1. pump'[c].pc = pc /\ \A d \in Thread \ {c} : pump'[d] = pump[d]
    BY <1>1, <1>3 DEF PumpTo, CompletionInv, CompletionTypeOK
  <2>2. \A u \in Task : store'[u].attempt = store[u].attempt
    BY <1>2, <1>4
  <2> QED BY <2>1, <2>2, SameSends DEF CompletionInv
<1>8. p.pc \in {"reclaim", "deliver", "claimed"} /\ p.pc # "claimed"
  BY <1>1
<1>9. \A d \in Thread \ {c} : fresh'[d] = fresh[d] \ {t}
  BY <1>4
<1>10. p.pc \in {"deliver", "claimed"} => \A u \in p.todo \cap fresh'[c] : p.seen[u] = store'[u]
  BY <1>1, <1>6
<1> QED BY <1>1, <1>2, <1>3, <1>4, <1>5, <1>7, <1>8, <1>9, <1>10, PumpSwaps

(* An expired claim is pending again.                                      *)
LEMMA ReclaimKeeps ==
    ASSUME CompletionInv, NEW c \in Thread, NEW t \in Task, Reclaim(c, t) PROVE CompletionInv'
<1>1. Released(store[t]) = SettledAs(store[t], "PENDING") /\ "PENDING" \in DeliveryState
  BY DEF Released, SettledAs, DeliveryState
<1>2. /\ call[c].pc = "idle" /\ pump[c].pc = "reclaim"
      /\ MayUpdate(store[t], SettledAs(store[t], "PENDING")) /\ Swaps(t, SettledAs(store[t], "PENDING"))
      /\ PumpTo(c, DoneWith(c, t, "reclaim"))
      /\ UNCHANGED <<scenario, hostVars, worldVars, call, recovered, ret, inbox, sends>>
  BY <1>1 DEF Reclaim, At, Swappable
<1>3. expired' \in SUBSET Task
  BY DEF Reclaim, CompletionInv, CompletionTypeOK
<1> QED BY <1>1, <1>2, <1>3, PumpSettles

(* A record whose attempts are used up is dropped.                         *)
LEMMA DropExhaustedKeeps ==
    ASSUME CompletionInv, NEW c \in Thread, NEW t \in Task, DropExhausted(c, t)
    PROVE  CompletionInv'
<1>1. "DROPPED" \in DeliveryState
  BY DEF DeliveryState, Settled
<1>2. /\ call[c].pc = "idle" /\ pump[c].pc = "deliver"
      /\ MayUpdate(store[t], SettledAs(store[t], "DROPPED")) /\ Swaps(t, SettledAs(store[t], "DROPPED"))
      /\ PumpTo(c, DoneWith(c, t, "deliver"))
      /\ UNCHANGED <<scenario, hostVars, worldVars, call, recovered, ret, inbox, sends>>
  BY DEF DropExhausted, DeliverTurn, At, Swappable
<1>3. expired' \in SUBSET Task
  BY DEF DropExhausted, CompletionInv, CompletionTypeOK
<1> QED BY <1>1, <1>2, <1>3, PumpSettles

(* The outcome of an attempt is stored over the claim's own revision.      *)
LEMMA SettleKeeps ==
    ASSUME CompletionInv, NEW c \in Thread, Settle(c) PROVE CompletionInv'
<1> DEFINE t == pump[c].task
           s == pump[c].obs
<1>1. /\ call[c].pc = "idle" /\ pump[c].pc = "settle" /\ t \in Task /\ s \in DeliveryState
      /\ s = "ACKNOWLEDGED" => inbox[t] # {}
  BY PumpTypes DEF Settle, At, NoTaskAt, CompletionInv, PumpOk, AckOk
<1>2. /\ MayUpdate(store[t], SettledAs(store[t], s)) /\ Swaps(t, SettledAs(store[t], s))
      /\ PumpTo(c, DoneWith(c, t, "deliver"))
      /\ UNCHANGED <<scenario, hostVars, worldVars, call, recovered, ret, inbox, sends>>
      /\ expired' \in SUBSET Task
  BY DEF Settle, Swappable, CompletionInv, CompletionTypeOK
<1> HIDE DEF t, s
<1> QED BY <1>1, <1>2, PumpSettles

(* The claim counts its attempt, below the cap: what the pump scanned is   *)
(* what it swaps.                                                          *)
LEMMA ClaimKeeps ==
    ASSUME CompletionInv, NEW c \in Thread, NEW t \in Task, Claim(c, t) PROVE CompletionInv'
<1> DEFINE n == Claimed(store[t])
           p == [pump[c] EXCEPT !.pc = "claimed", !.task = t, !.seen[t] = n]
<1>1. /\ call[c].pc = "idle" /\ pump[c].pc = "deliver" /\ t \in pump[c].todo /\ t \in fresh[c]
      /\ TruthDurable(pump[c].seen[t]) /\ ~Exhausted(pump[c].seen[t])
      /\ MayUpdate(store[t], n) /\ PumpTo(c, p) /\ SwapsAndHolds(c, t, n)
      /\ UNCHANGED <<scenario, hostVars, worldVars, call, recovered, ret, inbox, sends>>
  BY DEF Claim, DeliverTurn, At, Swappable
<1>2. pump[c].seen[t] = store[t] /\ store[t] \in Record /\ pump[c] \in PumpState
  BY <1>1, PumpTypes DEF CompletionInv, SeenOk
<1>3. store[t].card # None /\ store[t].attempt < AttemptCap
  <2>1. store[t].attempt \in Nat /\ AttemptCap \in Nat
    BY <1>2, CompletionAssumption DEF Record
  <2> QED BY <1>1, <1>2, <2>1 DEF TruthDurable, Exhausted
<1>4. /\ n \in Record /\ n.key = store[t].key /\ n.intent = store[t].intent
      /\ n.result = store[t].result /\ n.card = store[t].card
      /\ n.attempt = store[t].attempt + 1 /\ n.delivery = "CLAIMED"
  <2>1. store[t].attempt + 1 \in Nat /\ "CLAIMED" \in DeliveryState
    BY <1>2 DEF Record, DeliveryState
  <2>2. n = [store[t] EXCEPT !.delivery = "CLAIMED", !.attempt = store[t].attempt + 1]
    BY <1>2 DEF Claimed, Record
  <2> HIDE DEF n
  <2> QED BY <1>2, <2>1, <2>2 DEF Record
<1> HIDE DEF n
<1>5. /\ p \in PumpState /\ p.pc = "claimed" /\ p.task = t /\ p.todo = pump[c].todo
      /\ \A u \in Task : p.seen[u] = IF u = t THEN n ELSE pump[c].seen[u]
  <2>1. [pump[c].seen EXCEPT ![t] = n] \in [Task -> Record]
    BY <1>2, <1>4 DEF PumpState
  <2> QED BY <1>2, <2>1 DEF PumpState, PumpPCs
<1> HIDE DEF p
<1>6. /\ store' = [store EXCEPT ![t] = n]
      /\ \A u \in Task : store'[u] = IF u = t THEN n ELSE store[u]
      /\ fresh' \in [Thread -> SUBSET Task] /\ fresh'[c] = fresh[c] \cup {t}
      /\ \A d \in Thread \ {c} : fresh'[d] = fresh[d] \ {t}
  BY <1>1 DEF SwapsAndHolds, CompletionInv, CompletionTypeOK, TypeOK
<1>7. \A u \in Task : /\ p.seen[u].result \in {None, store'[u].result}
                      /\ p.seen[u].card \in {None, store'[u].card}
  <2>1. \A u \in Task : /\ pump[c].seen[u].result \in {None, store[u].result}
                        /\ pump[c].seen[u].card \in {None, store[u].card}
    BY DEF CompletionInv, SeenOk
  <2> QED BY <1>5, <1>6, <2>1
<1>8. \A u \in p.todo \cap fresh'[c] : p.seen[u] = store'[u]
  <2>1. \A u \in pump[c].todo \cap fresh[c] : pump[c].seen[u] = store[u]
    BY <1>1 DEF CompletionInv, SeenOk
  <2>2. pump[c].todo \subseteq Task
    BY <1>2 DEF PumpState
  <2> QED BY <1>5, <1>6, <2>1, <2>2
<1>9. SendInv'
  <2>1. /\ pump'[c].pc = "claimed" /\ pump'[c].task = t
        /\ \A d \in Thread \ {c} : pump'[d] = pump[d]
    BY <1>1, <1>5 DEF PumpTo, CompletionInv, CompletionTypeOK
  <2>2. /\ store'[t].attempt = store[t].attempt + 1 /\ UNCHANGED sends
        /\ \A u \in Task \ {t} : store'[u] = store[u]
    BY <1>1, <1>4, <1>6
  <2> QED BY <1>1, <1>3, <2>1, <2>2, ClaimTaken DEF CompletionInv
<1>10. /\ n.delivery # "ACKNOWLEDGED" /\ p.seen[p.task].card # None
       /\ expired' \in SUBSET Task
  BY <1>3, <1>4, <1>5 DEF Claim, CompletionInv, CompletionTypeOK
<1>11. p.pc \in {"reclaim", "deliver", "claimed"} /\ p.task \in Task
  BY <1>5
<1> QED BY <1>1, <1>4, <1>5, <1>6, <1>7, <1>8, <1>9, <1>10, <1>11, PumpSwaps

(* An attempt ends: at most one more message went out, and an ACK in hand  *)
(* is of a session that read the CARD.                                     *)
LEMMA AttemptKeeps ==
    ASSUME CompletionInv, NEW c \in Thread, pump[c].pc = "claimed", call[c].pc = "idle",
           NEW o \in DeliveryState, Holding(c, pump[c].task, "settle", o),
           UNCHANGED <<vars, recovered, expired, ret>>,
           UNCHANGED sends \/ Sends(c),
           \/ UNCHANGED inbox /\ o # "ACKNOWLEDGED"
           \/ inbox' = [inbox EXCEPT ![pump[c].task] = @ \cup {pump[c].seen[pump[c].task].card}]
    PROVE  CompletionInv'
<1> DEFINE t == pump[c].task
           p == [pump[c] EXCEPT !.pc = "settle", !.task = t, !.obs = o]
           card == pump[c].seen[t].card
<1>1. t \in Task /\ pump[c] \in PumpState
  BY PumpTypes DEF NoTaskAt
<1>2. card = store[t].card /\ card = store[t].result /\ card \in Terminal
  <2>1. /\ card # None /\ card \in {None, store[t].card}
        /\ store[t].card \in {None, store[t].result} /\ store[t].card \in Terminal \cup {None}
    BY <1>1, PumpTypes DEF CompletionInv, SeenOk, OneStory, Record
  <2> QED BY <2>1
<1>3. /\ p \in PumpState /\ p.pc = "settle" /\ p.task = t /\ p.obs = o
      /\ p.seen = pump[c].seen /\ p.todo = pump[c].todo
  BY <1>1 DEF PumpState, PumpPCs
<1>4. PumpTo(c, p)
  BY DEF Holding
<1>5. UNCHANGED <<scenario, store, fresh, route, index, cancels, resumes, run, launches, call, crashes>>
  BY DEF vars
<1> HIDE DEF p
<1>6. /\ pump'[c] = p /\ pump' \in [Thread -> PumpState]
      /\ \A d \in Thread \ {c} : pump'[d] = pump[d]
  BY <1>3, <1>4 DEF CompletionInv, CompletionTypeOK, PumpTo
<1>7. /\ inbox' \in [Task -> SUBSET Terminal]
      /\ \A u \in Task : inbox'[u] = inbox[u] \/ (u = t /\ inbox'[u] = inbox[u] \cup {card})
      /\ o = "ACKNOWLEDGED" => inbox'[t] # {}
  <2>1. /\ inbox \in [Task -> SUBSET Terminal]
        /\ \/ UNCHANGED inbox /\ o # "ACKNOWLEDGED"
           \/ inbox' = [inbox EXCEPT ![t] = @ \cup {card}]
    BY DEF CompletionInv, CompletionTypeOK
  <2> HIDE DEF t, card
  <2> QED BY <1>1, <1>2, <2>1
<1>8. UNCHANGED sends \/ sends' = [sends EXCEPT ![t] = @ + 1]
  BY DEF Sends
<1>9. sends' \in [Task -> 0..(AttemptCap + 1)]
  <2>1. CASE UNCHANGED sends
    BY <2>1 DEF CompletionInv, CompletionTypeOK
  <2>2. CASE Sends(c)
    <3>1. sends[t] \in 0..(AttemptCap + 1) /\ sends[t] <= AttemptCap /\ AttemptCap \in Nat
      BY <1>1, <2>2, CompletionAssumption DEF Sends, CompletionInv, CompletionTypeOK
    <3>2. sends[t] + 1 \in 0..(AttemptCap + 1)
      BY <3>1
    <3> QED BY <2>2, <3>2 DEF Sends, CompletionInv, CompletionTypeOK
  <2> QED BY <2>1, <2>2
<1>10. CompletionTypeOK' /\ TypeOK'
  BY <1>5, <1>6, <1>7, <1>9 DEF CompletionInv, CompletionTypeOK, TypeOK
<1>11. DispatchInv'
  <2>1. /\ UNCHANGED <<store, launches>> /\ \A u \in Task : run[u] = "NOTRUN" => run'[u] = "NOTRUN"
        /\ \A d \in Thread : call'[d] = call[d] /\ fresh'[d] \subseteq fresh[d]
    BY <1>5
  <2> QED BY <1>10, <2>1, ReadKeeps DEF CompletionInv
<1>12. ThreadOk(c)'
  <2>1. PumpOk(c)' /\ StoryOk(c)' /\ AckOk(c)'
    BY <1>1, <1>3, <1>5, <1>6, <1>7 DEF PumpOk, StoryOk, AckOk
  <2>2. SeenOk(c)'
    BY <1>3, <1>5, <1>6 DEF CompletionInv, SeenOk
  <2> QED BY <2>1, <2>2 DEF ThreadOk
<1>13. SendInv'
  <2>1. pump'[c].pc # "claimed" /\ CompletionTypeOK /\ SendInv /\ UNCHANGED store
    BY <1>3, <1>5, <1>6 DEF CompletionInv
  <2> HIDE DEF t
  <2>2. pump[c].task = t
    BY DEF t
  <2> QED BY <1>1, <1>6, <1>8, <2>1, <2>2, ClaimLeft
<1>14. ResultsStand
  BY <1>5 DEF ResultsStand
<1>15. \A d \in Thread \ {c} : /\ pump'[d] = pump[d] /\ call'[d] = call[d]
                               /\ fresh'[d] \subseteq fresh[d]
                               /\ \A u \in Task \cap fresh'[d] : store'[u] = store[u]
  BY <1>5, <1>6
<1>16. \A u \in Task :
          /\ store'[u].card \in {None, store'[u].result}
          /\ store'[u].delivery = "ACKNOWLEDGED" => store[u].delivery = "ACKNOWLEDGED" \/ inbox'[u] # {}
          /\ inbox[u] \subseteq inbox'[u]
          /\ inbox'[u] \subseteq inbox[u] \cup ({store'[u].result} \ {None})
  <2>1. None \notin Terminal
    BY DispatcherAssumption DEF TaskState
  <2> QED BY <1>2, <1>5, <1>7, <2>1 DEF CompletionInv, OneStory
<1> QED BY <1>10, <1>11, <1>12, <1>13, <1>14, <1>15, <1>16, ThreadStep

(* All ends of an attempt.                                                 *)
LEMMA DeliversKeeps ==
    ASSUME CompletionInv, NEW c \in Thread,
           NoOrigin(c) \/ Reaches(c) \/ Misses(c) \/ SessionGone(c)
    PROVE  CompletionInv'
<1>1. {"ACKNOWLEDGED", "PENDING", "DROPPED"} \subseteq DeliveryState
  BY DEF DeliveryState, Settled
<1>2. CASE NoOrigin(c)
  BY <1>1, <1>2, AttemptKeeps DEF NoOrigin, At
<1>3. CASE Reaches(c)
  BY <1>1, <1>3, AttemptKeeps DEF Reaches, Sends, At
<1>4. CASE Misses(c) \/ SessionGone(c)
  BY <1>1, <1>4, AttemptKeeps DEF Misses, SessionGone, Sends, At
<1> QED BY <1>2, <1>3, <1>4

-----------------------------------------------------------------------------
(* The calls of a thread, in which no pump moves.                          *)

(* A step of a call keeps what the records say; a state it is to store     *)
(* comes with the CARD's result; a pump that waits for it learns its end.  *)
LEMMA CallMoves ==
    ASSUME CompletionInv, DispatchInv', NEW c \in Thread,
           pump[c].pc \in {"rest", "ignored", "persisted"},
           UNCHANGED ownVars, ResultsStand,
           \A t \in Task : /\ store'[t].card \in {None, store'[t].result}
                           /\ store'[t].delivery = store[t].delivery
                           /\ store'[t].attempt = store[t].attempt,
           \A d \in Thread \ {c} : /\ call'[d] = call[d] /\ fresh'[d] \subseteq fresh[d]
                                   /\ \A t \in Task \cap fresh'[d] : store'[t] = store[t],
           StoryOk(c)'
    PROVE  CompletionInv'
<1>1. UNCHANGED <<pump, recovered, expired, ret, inbox, sends>>
  BY DEF ownVars
<1>2. CompletionTypeOK'
  BY <1>1 DEF CompletionInv, CompletionTypeOK, DispatchInv
<1>3. ThreadOk(c)'
  <2>1. PumpOk(c)' /\ AckOk(c)'
    BY <1>1 DEF CompletionInv, PumpOk, AckOk
  <2>2. SeenOk(c)'
    <3>1. \A t \in Task : /\ pump[c].seen[t].result \in {None, store[t].result}
                          /\ pump[c].seen[t].card \in {None, store[t].card}
      BY DEF CompletionInv, SeenOk
    <3> QED BY <1>1, <3>1 DEF SeenOk, ResultsStand
  <2> QED BY <2>1, <2>2 DEF ThreadOk
<1>4. SendInv'
  <2>1. /\ UNCHANGED sends /\ \A t \in Task : store'[t].attempt = store[t].attempt
        /\ \A d \in Thread : /\ pump'[d].pc = "claimed" <=> pump[d].pc = "claimed"
                             /\ pump[d].pc = "claimed" => pump'[d].task = pump[d].task
    BY <1>1
  <2> QED BY <2>1, SameSends DEF CompletionInv
<1>5. /\ \A d \in Thread \ {c} : /\ pump'[d] = pump[d] /\ call'[d] = call[d]
                                 /\ fresh'[d] \subseteq fresh[d]
                                 /\ \A t \in Task \cap fresh'[d] : store'[t] = store[t]
      /\ \A t \in Task :
            /\ store'[t].card \in {None, store'[t].result}
            /\ store'[t].delivery = "ACKNOWLEDGED" => store[t].delivery = "ACKNOWLEDGED" \/ inbox'[t] # {}
            /\ inbox[t] \subseteq inbox'[t]
            /\ inbox'[t] \subseteq inbox[t] \cup ({store'[t].result} \ {None})
  <2>1. \A t \in Task : inbox[t] \subseteq {store[t].result} \ {None}
    BY DEF CompletionInv, OneStory
  <2> QED BY <1>1, <2>1
<1> QED BY <1>2, <1>3, <1>4, <1>5, ThreadStep

(* A step of a call that stores nothing.                                   *)
LEMMA CallGoesOn ==
    ASSUME CompletionInv, DispatchInv', NEW c \in Thread,
           pump[c].pc \in {"rest", "ignored", "persisted"},
           UNCHANGED ownVars, UNCHANGED store,
           \A d \in Thread \ {c} : call'[d] = call[d] /\ fresh'[d] = fresh[d],
           StoryOk(c)'
    PROVE  CompletionInv'
<1>1. ResultsStand
  BY DEF ResultsStand
<1>2. \A t \in Task : /\ store'[t].card \in {None, store'[t].result}
                      /\ store'[t].delivery = store[t].delivery
                      /\ store'[t].attempt = store[t].attempt
  BY DEF CompletionInv, OneStory
<1>3. \A d \in Thread \ {c} : /\ call'[d] = call[d] /\ fresh'[d] \subseteq fresh[d]
                              /\ \A t \in Task \cap fresh'[d] : store'[t] = store[t]
  OBVIOUS
<1> QED BY <1>1, <1>2, <1>3, CallMoves

(* A thread in a call has a pump at rest or waiting.                       *)
LEMMA InCall ==
    ASSUME CompletionInv, NEW c \in Thread, call[c].pc # "idle"
    PROVE  /\ pump[c].pc \in {"rest", "ignored", "persisted"}
           /\ call[c].task \in Task /\ call[c] \in CallState
           /\ pump[c].pc = "persisted" /\ pump[c].obs \in Terminal =>
                 /\ call[c].op \in {"result", "persist"} /\ call[c].task = pump[c].task
                 /\ \/ call[c].pc = "answered" /\ call[c].obs = pump[c].obs
                    \/ call[c].pc = "swap" /\ call[c].want.result = pump[c].obs
  BY DEF CompletionInv, PumpOk, StoryOk, DispatchInv, CallInv, CallOk, TypeOK

(* A step after which the thread is in a dispatch, or its call raised.     *)
LEMMA NoStory ==
    ASSUME CompletionInv, NEW c \in Thread, UNCHANGED ownVars, call[c].pc # "idle",
           call'[c].pc # "swap",
           \/ call'[c].pc = "idle" /\ call'[c].out # "ok"
           \/ call[c].pc \notin {"answered", "swap"}
    PROVE  StoryOk(c)'
  BY InCall DEF StoryOk, ownVars

(* All steps of a dispatch keep the invariant.                             *)
LEMMA DispatchCallKeeps ==
    ASSUME CompletionInv, NEW c \in Thread, DispatchStep(c), UNCHANGED ownVars
    PROVE  CompletionInv'
<1> DEFINE t == call[c].task
<1>1. DispatchInv' /\ DispatchInv /\ TypeOK
  BY DispatchStepKeeps DEF CompletionInv, DispatchInv
<1>2. call[c].pc \in {"create", "launch", "confirm"}
  BY DEF DispatchStep, CreatePrepared, CreateLost, CreateRaises, Launch, LaunchRaises,
         Confirm, ConfirmStale
<1>3. /\ pump[c].pc \in {"rest", "ignored", "persisted"} /\ t \in Task /\ call[c] \in CallState
  BY <1>2, InCall
<1>4. CASE CreatePrepared(c)
  <2> DEFINE n == Prepared(call[c].pkg.key, call[c].pkg.intent, OriginOf[HostOf[c]])
  <2>1. /\ \A d \in Thread \ {c} : call'[d] = call[d] /\ fresh'[d] \subseteq fresh[d] \ {t}
        /\ call'[c].pc = "launch"
    BY <1>1, <1>3, <1>4 DEF CreatePrepared, SwapsAndHolds, Goes, TypeOK, CallState
  <2>2. store[t] = NoRecord
    BY <1>1, <1>3, <1>4 DEF CreatePrepared, CreateAllowed, DispatchInv, CallInv, CallOk, RecordInv
  <2>3. \A u \in Task : store'[u] = IF u = t THEN n ELSE store[u]
    BY <1>1, <1>3, <1>4 DEF CreatePrepared, SwapsAndHolds, TypeOK
  <2>4. /\ n.result = None /\ n.card = None /\ n.delivery = store[t].delivery
        /\ n.attempt = store[t].attempt /\ store[t].result = None /\ store[t].card = None
    BY <2>2 DEF Prepared, NoRecord
  <2> HIDE DEF n, t
  <2>5. ResultsStand
    BY <1>3, <2>3, <2>4 DEF ResultsStand
  <2>6. \A u \in Task : /\ store'[u].card \in {None, store'[u].result}
                        /\ store'[u].delivery = store[u].delivery
                        /\ store'[u].attempt = store[u].attempt
    BY <1>3, <2>3, <2>4 DEF CompletionInv, OneStory
  <2>7. \A d \in Thread \ {c} : /\ call'[d] = call[d] /\ fresh'[d] \subseteq fresh[d]
                                /\ \A u \in Task \cap fresh'[d] : store'[u] = store[u]
    BY <2>1, <2>3
  <2>8. StoryOk(c)'
    BY <1>2, <2>1, NoStory
  <2> QED BY <1>1, <1>3, <2>5, <2>6, <2>7, <2>8, CallMoves
<1>5. CASE Confirm(c)
  <2> DEFINE n == Confirmed(store[t])
  <2>1. /\ call'[c].pc = "idle" /\ \A d \in Thread \ {c} : call'[d] = call[d]
    BY <1>1, <1>5, AfterReturn DEF Confirm
  <2>2. /\ \A u \in Task : store'[u] = IF u = t THEN n ELSE store[u]
        /\ \A d \in Thread : fresh'[d] = fresh[d] \ {t}
    BY <1>1, <1>3, <1>5 DEF Confirm, Swaps, TypeOK
  <2>3. store[t] \in Record
    BY <1>1, <1>3 DEF TypeOK
  <2>4. /\ n.result = store[t].result /\ n.card = store[t].card
        /\ n.delivery = store[t].delivery /\ n.attempt = store[t].attempt
    BY <2>3 DEF Confirmed, Record
  <2> HIDE DEF n, t
  <2>5. ResultsStand
    BY <2>2, <2>4 DEF ResultsStand
  <2>6. \A u \in Task : /\ store'[u].card \in {None, store'[u].result}
                        /\ store'[u].delivery = store[u].delivery
                        /\ store'[u].attempt = store[u].attempt
    BY <2>2, <2>4 DEF CompletionInv, OneStory
  <2>7. \A d \in Thread \ {c} : /\ call'[d] = call[d] /\ fresh'[d] \subseteq fresh[d]
                                /\ \A u \in Task \cap fresh'[d] : store'[u] = store[u]
    BY <2>1, <2>2
  <2>8. StoryOk(c)'
    BY <1>2, <2>1, NoStory
  <2> QED BY <1>1, <1>3, <2>5, <2>6, <2>7, <2>8, CallMoves
<1>6. CASE CreateLost(c) \/ CreateRaises(c) \/ LaunchRaises(c) \/ ConfirmStale(c)
  <2>1. PICK out \in {"none", "ok", "raised"} : Returns(c, out) /\ UNCHANGED <<store, fresh>>
    BY <1>6 DEF CreateLost, CreateRaises, LaunchRaises, ConfirmStale
  <2>2. /\ call'[c].pc = "idle" /\ \A d \in Thread \ {c} : call'[d] = call[d] /\ fresh'[d] = fresh[d]
    BY <1>1, <2>1, AfterReturn
  <2>3. StoryOk(c)'
    BY <1>2, <2>2, NoStory
  <2> QED BY <1>1, <1>3, <2>1, <2>2, <2>3, CallGoesOn
<1>7. CASE Launch(c)
  <2>1. /\ UNCHANGED <<store, fresh>> /\ call'[c].pc = "confirm"
        /\ \A d \in Thread \ {c} : call'[d] = call[d] /\ fresh'[d] = fresh[d]
    BY <1>1, <1>3, <1>7 DEF Launch, Goes, TypeOK, CallState
  <2>2. StoryOk(c)'
    BY <1>2, <2>1, NoStory
  <2> QED BY <1>1, <1>3, <2>1, <2>2, CallGoesOn
<1> QED BY <1>4, <1>5, <1>6, <1>7 DEF DispatchStep

(* An answer to be stored: it becomes the result only where there is none, *)
(* and then there is no CARD either.                                       *)
LEMMA AnswerToStore ==
    ASSUME CompletionInv, NEW c \in Thread, AnswerSwaps(c), UNCHANGED ownVars
    PROVE  CompletionInv'
<1> DEFINE t == call[c].task
           r == store[t]
           s == Answer(c)
           n == Wanted(call[c].op, r, s)
           next == [call[c] EXCEPT !.pc = "swap", !.want = n]
<1>1. /\ DispatchInv' /\ DispatchInv /\ TypeOK /\ call[c].pc = "answered"
      /\ UNCHANGED store /\ Goes(c, next) /\ Reads(c, t)
      /\ NeedsSwap(call[c].op, r, s) /\ KeepsAnswer(c)
  BY AnswerSwapsKeeps DEF CompletionInv, DispatchInv, AnswerSwaps, KeepsAnswer
<1>2. /\ t \in Task /\ call[c] \in CallState /\ pump[c].pc \in {"rest", "ignored", "persisted"}
      /\ r \in Record /\ s \in TaskState /\ r.card \in {None, r.result}
  BY <1>1, InCall, KeptAnswer DEF CompletionInv, OneStory
<1>3. n \in Record
  BY <1>2, WantedTypes
<1>4. /\ n.card = r.card /\ n.card \in {None, n.result}
      /\ ~StateOp(call[c].op) /\ s \in Terminal => n.result = s
  <2>1. CASE StateOp(call[c].op) \/ s \notin Terminal
    BY <1>2, <2>1 DEF Wanted, Record
  <2>2. CASE ~(StateOp(call[c].op) \/ s \notin Terminal)
    BY <1>1, <1>2, <2>2 DEF Wanted, NeedsSwap, Record
  <2> QED BY <2>1, <2>2
<1> HIDE DEF n
<1>5. /\ next \in CallState /\ next.pc = "swap" /\ next.task = t /\ next.want = n
      /\ next.op = call[c].op
  BY <1>2, <1>3 DEF CallState
<1> HIDE DEF next
<1>6. /\ call'[c] = next /\ \A d \in Thread \ {c} : call'[d] = call[d] /\ fresh'[d] = fresh[d]
  BY <1>1, <1>5, AfterGoing DEF Reads, TypeOK
<1>7. pump[c].pc = "persisted" /\ pump[c].obs \in Terminal =>
         /\ call[c].op \in {"result", "persist"} /\ t = pump[c].task /\ n.result = pump[c].obs
  <2> SUFFICES ASSUME pump[c].pc = "persisted", pump[c].obs \in Terminal
               PROVE  call[c].op \in {"result", "persist"} /\ t = pump[c].task /\ n.result = pump[c].obs
    OBVIOUS
  <2>1. call[c].op \in {"result", "persist"} /\ t = pump[c].task /\ call[c].obs = pump[c].obs
    BY <1>1, InCall
  <2>2. s = pump[c].obs /\ ~StateOp(call[c].op)
    BY <2>1 DEF Answer, Observed, StateOp, Terminal
  <2> QED BY <1>4, <2>1, <2>2
<1>8. UNCHANGED pump
  BY DEF ownVars
<1> HIDE DEF t, r, s
<1>9. StoryOk(c)'
  BY <1>2, <1>4, <1>5, <1>6, <1>7, <1>8 DEF StoryOk
<1> QED BY <1>1, <1>2, <1>6, <1>9, CallGoesOn

(* An answer that needs no swap: a result asked for is on record, or the   *)
(* call raises.                                                            *)
LEMMA AnswerInHand ==
    ASSUME CompletionInv, NEW c \in Thread, AnswerKept(c), UNCHANGED ownVars
    PROVE  CompletionInv'
<1> DEFINE t == call[c].task
           r == store[t]
           s == Answer(c)
           out == IF ResultClashes(call[c].op, r, s) THEN "raised" ELSE "ok"
<1>1. /\ DispatchInv' /\ DispatchInv /\ TypeOK /\ call[c].pc = "answered"
      /\ UNCHANGED <<store, fresh>> /\ Returns(c, out) /\ ~NeedsSwap(call[c].op, r, s)
  BY AnswerKeptKeeps DEF CompletionInv, DispatchInv, AnswerKept, KeepsAnswer
<1>2. t \in Task /\ pump[c].pc \in {"rest", "ignored", "persisted"}
  BY <1>1, InCall
<1>3. /\ call'[c].pc = "idle" /\ call'[c].out = out
      /\ \A d \in Thread \ {c} : call'[d] = call[d] /\ fresh'[d] = fresh[d]
  BY <1>1 DEF Returns, Idle, TypeOK
<1>4. pump[c].pc = "persisted" /\ pump[c].obs \in Terminal =>
         out # "ok" \/ store[pump[c].task].result = pump[c].obs
  <2> SUFFICES ASSUME pump[c].pc = "persisted", pump[c].obs \in Terminal
               PROVE  out # "ok" \/ store[pump[c].task].result = pump[c].obs
    OBVIOUS
  <2>1. call[c].op \in {"result", "persist"} /\ t = pump[c].task /\ call[c].obs = pump[c].obs
    BY <1>1, InCall
  <2>2. s = pump[c].obs /\ ~StateOp(call[c].op)
    BY <2>1 DEF Answer, Observed, StateOp, Terminal
  <2>3. r.result # None
    BY <1>1, <2>2 DEF NeedsSwap
  <2> QED BY <2>1, <2>2, <2>3 DEF ResultClashes
<1>5. UNCHANGED <<pump, store>>
  BY <1>1 DEF ownVars
<1> HIDE DEF out
<1>6. StoryOk(c)'
  BY <1>2, <1>3, <1>4, <1>5 DEF StoryOk
<1> QED BY <1>1, <1>2, <1>3, <1>6, CallGoesOn

(* The swap of an answer: results and CARDs are bound once.                *)
LEMMA SwapCallKeeps ==
    ASSUME CompletionInv, NEW c \in Thread, Swap(c), UNCHANGED ownVars PROVE CompletionInv'
<1> DEFINE t == call[c].task
           n == call[c].want
<1>1. /\ DispatchInv' /\ DispatchInv /\ TypeOK /\ call[c].pc = "swap" /\ Returns(c, "ok")
      /\ Swaps(t, n) /\ t \in fresh[c] /\ MayUpdate(store[t], n)
  BY SwapStepKeeps DEF CompletionInv, DispatchInv, Swap, Swappable
<1>2. /\ t \in Task /\ pump[c].pc \in {"rest", "ignored", "persisted"}
  BY <1>1, InCall
<1>3. /\ n.delivery = store[t].delivery /\ n.attempt = store[t].attempt
      /\ n.card \in {None, n.result}
  BY <1>1 DEF CompletionInv, StoryOk, DispatchInv, CallInv, CallOk
<1>4. store[t].result \in {None, n.result} /\ store[t].card \in {None, n.card}
  BY <1>1 DEF MayUpdate, ResultBindsOnce, BindsOnce
<1>5. /\ \A u \in Task : store'[u] = IF u = t THEN n ELSE store[u]
      /\ \A d \in Thread : fresh'[d] = fresh[d] \ {t}
  BY <1>1, <1>2 DEF Swaps, TypeOK
<1>6. call'[c].pc = "idle" /\ \A d \in Thread \ {c} : call'[d] = call[d]
  BY <1>1, AfterReturn
<1>7. pump[c].pc = "persisted" /\ pump[c].obs \in Terminal =>
         pump[c].task = t /\ n.result = pump[c].obs
  BY <1>1, InCall
<1> HIDE DEF t, n
<1>8. ResultsStand
  BY <1>4, <1>5 DEF ResultsStand
<1>9. \A u \in Task : /\ store'[u].card \in {None, store'[u].result}
                      /\ store'[u].delivery = store[u].delivery
                      /\ store'[u].attempt = store[u].attempt
  BY <1>3, <1>5 DEF CompletionInv, OneStory
<1>10. \A d \in Thread \ {c} : /\ call'[d] = call[d] /\ fresh'[d] \subseteq fresh[d]
                               /\ \A u \in Task \cap fresh'[d] : store'[u] = store[u]
  BY <1>5, <1>6
<1>11. StoryOk(c)'
  <2>1. UNCHANGED pump
    BY DEF ownVars
  <2> QED BY <1>2, <1>5, <1>6, <1>7, <2>1 DEF StoryOk
<1> QED BY <1>1, <1>2, <1>8, <1>9, <1>10, <1>11, CallMoves

(* All steps of a call keep the invariant.                                 *)
LEMMA CallStepKeeps ==
    ASSUME CompletionInv, NEW c \in Thread, CallStep(c) PROVE CompletionInv'
<1>1. CASE AnswerRaises(c) \/ SwapRaises(c)
  <2>1. /\ DispatchInv' /\ TypeOK /\ call[c].pc # "idle" /\ Returns(c, "raised")
        /\ UNCHANGED <<store, fresh>> /\ UNCHANGED ownVars
    BY <1>1, RaisesKeeps DEF CompletionInv, DispatchInv, AnswerRaises, SwapRaises, CallStep
  <2>2. /\ call'[c].pc = "idle" /\ call'[c].out = "raised"
        /\ \A d \in Thread \ {c} : call'[d] = call[d] /\ fresh'[d] = fresh[d]
    BY <2>1 DEF Returns, Idle, TypeOK
  <2>3. StoryOk(c)'
    BY <2>1, <2>2, NoStory
  <2>4. pump[c].pc \in {"rest", "ignored", "persisted"}
    BY <2>1, InCall
  <2> QED BY <2>1, <2>2, <2>3, <2>4, CallGoesOn
<1> QED BY <1>1, DispatchCallKeeps, AnswerToStore, AnswerInHand, SwapCallKeeps
        DEF CallStep, AnswerStep

(* A new call of a session's thread, whose pump is at rest.                *)
LEMMA ClientStepKeeps ==
    ASSUME CompletionInv, NEW c \in Thread, ClientStep(c) PROVE CompletionInv'
<1>1. /\ \/ \E p \in scenario.packages : Dispatch(c, p) \/ DispatchReplays(c, p)
         \/ \E t \in Task : Status(c, t) \/ Result(c, t)
                            \/ Cancel(c, t) \/ CancelRepeats(c, t) \/ CancelUnreachable(c, t)
      /\ pump[c].pc = "rest" /\ UNCHANGED ownVars
  BY DEF ClientStep, AdmitDispatch, AdmitReplay, Ingress, MayCall
<1>2. DispatchInv /\ TypeOK
  BY DEF CompletionInv, DispatchInv
<1>3. DispatchInv'
  BY <1>1, <1>2, DispatchKeeps, DispatchReplaysKeeps, QueryKeeps, CancelKeeps, CancelAgainKeeps
<1>4. UNCHANGED <<store, fresh>>
  BY <1>1 DEF Dispatch, DispatchReplays, Status, Result, Query, Cancel, CancelRepeats, CancelUnreachable
<1>5. /\ call'[c].pc # "swap" /\ \A d \in Thread \ {c} : call'[d] = call[d]
  <2>1. \A op, t, x : /\ [Started(op, "answered", t) EXCEPT !.obs = x].pc = "answered"
                      /\ [Started(op, "create", t) EXCEPT !.pkg = x].pc = "create"
                      /\ Idle(x).pc = "idle"
    BY DEF Started, Idle
  <2> HIDE DEF Started, Idle
  <2>2. \E next : Goes(c, next) /\ next.pc # "swap"
    <3>1. ASSUME NEW p, Dispatch(c, p) PROVE \E next : Goes(c, next) /\ next.pc # "swap"
      BY <2>1, <3>1 DEF Dispatch
    <3>2. ASSUME NEW p, DispatchReplays(c, p) PROVE \E next : Goes(c, next) /\ next.pc # "swap"
      BY <2>1, <3>2 DEF DispatchReplays, Returns, Goes
    <3>3. ASSUME NEW t, Status(c, t) \/ Result(c, t) PROVE \E next : Goes(c, next) /\ next.pc # "swap"
      BY <2>1, <3>3 DEF Status, Result, Query
    <3>4. ASSUME NEW t, Cancel(c, t) \/ CancelRepeats(c, t) \/ CancelUnreachable(c, t)
          PROVE  \E next : Goes(c, next) /\ next.pc # "swap"
      BY <2>1, <3>4 DEF Cancel, CancelRepeats, CancelUnreachable, CancelAnswered
    <3> QED BY <1>1, <3>1, <3>2, <3>3, <3>4
  <2> QED BY <1>2, <2>2 DEF Goes, TypeOK
<1>6. StoryOk(c)'
  BY <1>1, <1>5 DEF StoryOk, ownVars
<1>7. \A d \in Thread \ {c} : call'[d] = call[d] /\ fresh'[d] = fresh[d]
  BY <1>4, <1>5
<1> QED BY <1>1, <1>3, <1>4, <1>6, <1>7, CallGoesOn

-----------------------------------------------------------------------------
(* The workers, the time to live of a claim, and the death of a host.      *)

(* A step of the world in which no thread moves.                           *)
LEMMA WorldMoves ==
    ASSUME CompletionInv, DispatchInv', UNCHANGED <<store, fresh, call, pump, inbox, sends>>,
           recovered' \in SUBSET Host, expired' \in SUBSET Task,
           ret' \in [Task -> {"none", "completed", "blocked"}]
    PROVE  CompletionInv'
<1>1. CompletionTypeOK'
  BY DEF CompletionInv, CompletionTypeOK, DispatchInv
<1>2. \A d \in Thread : ThreadOk(d)'
  <2> SUFFICES ASSUME NEW d \in Thread PROVE ThreadOk(d)'
    OBVIOUS
  <2>1. CompletionTypeOK /\ ThreadOk(d) /\ ResultsStand
    BY DEF CompletionInv, ThreadOk, ResultsStand
  <2>2. /\ pump'[d] = pump[d] /\ call'[d] = call[d] /\ fresh'[d] \subseteq fresh[d]
        /\ \A t \in Task \cap fresh'[d] : store'[t] = store[t]
        /\ \A t \in Task : inbox[t] \subseteq inbox'[t]
    OBVIOUS
  <2> QED BY <2>1, <2>2, OtherThreadKeeps
<1>3. SendInv'
  BY SameSends DEF CompletionInv
<1>4. OneStory' /\ AckedWasReceived'
  BY DEF CompletionInv, OneStory, AckedWasReceived
<1> QED BY <1>1, <1>2, <1>3, <1>4 DEF CompletionInv, ThreadOk

(* A host dies: its passes and calls are gone, and so are its claims'      *)
(* owners; the records and what the session received are not.              *)
LEMMA HostDiesKeeps ==
    ASSUME CompletionInv, NEW h \in Host, HostDies(h) PROVE CompletionInv'
<1>1. DispatchInv' /\ UNCHANGED <<store, expired, ret, inbox, sends>>
  BY CrashHostKeeps DEF HostDies, CrashHost, CompletionInv
<1>2. /\ Rest \in PumpState /\ Rest.pc = "rest"
      /\ \A t \in Task : Rest.seen[t].result = None /\ Rest.seen[t].card = None
  <2>1. NoRecord \in Record /\ NoRecord.result = None /\ NoRecord.card = None
    BY DEF NoRecord, Record, TaskState, Active, DeliveryState
  <2> HIDE DEF NoRecord
  <2> QED BY <2>1 DEF Rest, NothingSeen, PumpState, PumpPCs
<1> HIDE DEF Rest
<1>3. /\ pump' \in [Thread -> PumpState] /\ recovered' \in SUBSET Host
      /\ \A d \in Thread : \/ pump'[d] = Rest /\ call'[d].pc = "idle"
                           \/ pump'[d] = pump[d] /\ call'[d] = call[d] /\ fresh'[d] = fresh[d]
  <2>1. Idle("none").pc = "idle"
    BY DEF Idle
  <2> HIDE DEF Idle
  <2>2. \A d \in Thread : \/ HostOf[d] = h /\ pump'[d] = Rest /\ call'[d] = Idle("none")
                          \/ HostOf[d] # h /\ pump'[d] = pump[d] /\ call'[d] = call[d] /\ fresh'[d] = fresh[d]
    BY DEF HostDies, CrashHost
  <2> QED BY <1>2, <2>1, <2>2 DEF HostDies, CompletionInv, CompletionTypeOK
<1>4. CompletionTypeOK'
  BY <1>1, <1>3 DEF CompletionInv, CompletionTypeOK, DispatchInv
<1>5. \A d \in Thread : ThreadOk(d)'
  <2> SUFFICES ASSUME NEW d \in Thread PROVE ThreadOk(d)'
    OBVIOUS
  <2>1. CASE pump'[d] = Rest /\ call'[d].pc = "idle"
    BY <1>2, <2>1 DEF ThreadOk, PumpOk, SeenOk, StoryOk, AckOk
  <2>2. CASE pump'[d] = pump[d] /\ call'[d] = call[d] /\ fresh'[d] = fresh[d]
    <3>1. CompletionTypeOK /\ ThreadOk(d) /\ ResultsStand
      BY <1>1 DEF CompletionInv, ThreadOk, ResultsStand
    <3>2. /\ fresh'[d] \subseteq fresh[d] /\ \A t \in Task \cap fresh'[d] : store'[t] = store[t]
          /\ \A t \in Task : inbox[t] \subseteq inbox'[t]
      BY <1>1, <2>2
    <3> QED BY <2>2, <3>1, <3>2, OtherThreadKeeps
  <2> QED BY <1>3, <2>1, <2>2
<1>6. SendInv'
  <2> SUFFICES ASSUME NEW t \in Task
               PROVE  /\ sends'[t] + Cardinality(Claimers(t)') <= store'[t].attempt
                      /\ store'[t].attempt <= AttemptCap
    BY DEF SendInv
  <2>1. Claimers(t)' \subseteq Claimers(t)
    BY <1>2, <1>3 DEF Claimers
  <2>2. /\ Cardinality(Claimers(t)') <= Cardinality(Claimers(t))
        /\ Cardinality(Claimers(t)') \in Nat /\ Cardinality(Claimers(t)) \in Nat
    BY <2>1, ClaimersFinite, FS_Subset, FS_CardinalityType
  <2>3. sends[t] + Cardinality(Claimers(t)) <= store[t].attempt /\ store[t].attempt <= AttemptCap
    BY DEF CompletionInv, SendInv
  <2>4. sends[t] \in Nat /\ store[t].attempt \in Nat
    BY PumpTypes, CompletionAssumption DEF CompletionInv, CompletionTypeOK, TypeOK, Record
  <2> QED BY <1>1, <2>2, <2>3, <2>4
<1>7. OneStory' /\ AckedWasReceived'
  BY <1>1 DEF CompletionInv, OneStory, AckedWasReceived
<1> QED BY <1>1, <1>4, <1>5, <1>6, <1>7 DEF CompletionInv, ThreadOk

(* All steps of the world keep the invariant.                              *)
LEMMA WorldKeeps == ASSUME CompletionInv, World PROVE CompletionInv'
<1>1. DispatchInv /\ CompletionTypeOK
  BY DEF CompletionInv
<1>2. ASSUME NEW t \in Task, NEW s \in {"COMPLETED", "FAILED", "TIMEOUT"}, WorkerExits(t, s)
      PROVE  CompletionInv'
  <2>1. DispatchInv'
    BY <1>1, <1>2, WorkerEndsKeeps DEF WorkerExits
  <2>2. /\ UNCHANGED <<store, fresh, call, pump, inbox, sends>>
        /\ recovered' \in SUBSET Host /\ expired' \in SUBSET Task
        /\ ret' \in [Task -> {"none", "completed", "blocked"}]
    BY <1>1, <1>2 DEF WorkerExits, WorkerEnds, ownVars, CompletionTypeOK
  <2> QED BY <2>1, <2>2, WorldMoves
<1>3. ASSUME UNCHANGED vars PROVE DispatchInv' /\ UNCHANGED <<store, fresh, call>>
  BY <1>1, <1>3, NextKeepsDispatchInv DEF vars
<1>4. ASSUME NEW t \in Task, NEW s \in {"completed", "blocked"}, WorkerReturns(t, s)
      PROVE  CompletionInv'
  <2>1. /\ UNCHANGED <<vars, pump, inbox, sends>>
        /\ recovered' \in SUBSET Host /\ expired' \in SUBSET Task
        /\ ret' \in [Task -> {"none", "completed", "blocked"}]
    BY <1>1, <1>4 DEF WorkerReturns, CompletionTypeOK
  <2> QED BY <1>3, <2>1, WorldMoves
<1>5. ASSUME NEW t \in Task, ClaimExpires(t) PROVE CompletionInv'
  <2>1. /\ UNCHANGED <<vars, pump, inbox, sends>>
        /\ recovered' \in SUBSET Host /\ expired' \in SUBSET Task
        /\ ret' \in [Task -> {"none", "completed", "blocked"}]
    BY <1>1, <1>5 DEF ClaimExpires, CompletionTypeOK
  <2> QED BY <1>3, <2>1, WorldMoves
<1> QED BY <1>2, <1>4, <1>5, HostDiesKeeps DEF World

-----------------------------------------------------------------------------
(* The theorems.                                                           *)

(* CompletionInv is inductive: every step of a pump ...                    *)
LEMMA PumpStepKeeps ==
    ASSUME CompletionInv, NEW c \in Thread, RecoverStep(c) \/ DeliverStep(c) PROVE CompletionInv'
<1>1. CASE RecoverStep(c)
  BY <1>1, BeginPassKeeps, ListingsKeep, AskResultKeeps, PersistObservedKeeps, PassesBy,
     GateKeeps, PersistTruthKeeps, PersistFailureKeeps, FailureTooLateKeeps, PersistedKeeps,
     AttachCardKeeps, RecoverPreparedKeeps, RecoverObserveKeeps, EnsureCardKeeps, ReclaimKeeps,
     LeavesKeeps DEF RecoverStep
<1>2. CASE DeliverStep(c)
  BY <1>2, ListingsKeep, DeliversKeeps, SettleKeeps, LeavesKeeps, DropExhaustedKeeps, ClaimKeeps
     DEF DeliverStep
<1> QED BY <1>1, <1>2

(* ... and every other step keeps it.                                      *)
LEMMA CompletionStepKeeps ==
    ASSUME CompletionInv, [CompletionNext]_allVars PROVE CompletionInv'
<1>1. CASE UNCHANGED allVars
  <2>1. DispatchInv' /\ UNCHANGED <<store, fresh, call, pump, inbox, sends>>
    BY <1>1, NextKeepsDispatchInv DEF allVars, ownVars, vars, CompletionInv
  <2>2. /\ recovered' \in SUBSET Host /\ expired' \in SUBSET Task
        /\ ret' \in [Task -> {"none", "completed", "blocked"}]
    BY <1>1 DEF allVars, ownVars, CompletionInv, CompletionTypeOK
  <2> QED BY <2>1, <2>2, WorldMoves
<1> QED BY <1>1, ClientStepKeeps, CallStepKeeps, PumpStepKeeps, WorldKeeps DEF CompletionNext

(* It holds at the start.                                                  *)
LEMMA CompletionStart == CompletionInit => CompletionInv
<1> SUFFICES ASSUME CompletionInit PROVE CompletionInv
  OBVIOUS
<1>1. DispatchInv
  BY InitDispatchInv DEF CompletionInit
<1>2. /\ NoRecord \in Record /\ NoRecord.result = None /\ NoRecord.card = None
      /\ NoRecord.delivery = "PENDING" /\ NoRecord.attempt = 0
  BY DEF NoRecord, Record, TaskState, Active, DeliveryState
<1> HIDE DEF NoRecord
<1>3. /\ Rest \in PumpState /\ Rest.pc = "rest"
      /\ \A t \in Task : Rest.seen[t].result = None /\ Rest.seen[t].card = None
  BY <1>2 DEF Rest, NothingSeen, PumpState, PumpPCs
<1> HIDE DEF Rest
<1>4. Idle("none").pc = "idle" /\ \A c \in Thread : call[c] = Idle("none") /\ pump[c] = Rest
  BY DEF CompletionInit, Init, Idle
<1> HIDE DEF Idle
<1>5. CompletionTypeOK
  BY <1>1, <1>3, CompletionAssumption DEF CompletionInit, CompletionTypeOK, DispatchInv
<1>6. \A c \in Thread : PumpOk(c) /\ SeenOk(c) /\ StoryOk(c) /\ AckOk(c)
  BY <1>3, <1>4 DEF PumpOk, SeenOk, StoryOk, AckOk
<1>7. OneStory /\ AckedWasReceived
  BY <1>2 DEF CompletionInit, Init, OneStory, AckedWasReceived
<1>8. SendInv
  <2>1. \A t : Claimers(t) = {}
    BY <1>3, <1>4 DEF Claimers
  <2>2. \A t \in Task : sends[t] = 0 /\ store[t].attempt = 0
    BY <1>2 DEF CompletionInit, Init
  <2>3. Cardinality({}) = 0 /\ 0 <= AttemptCap
    BY CompletionAssumption, FS_EmptySet
  <2>4. \A t \in Task : sends[t] + Cardinality(Claimers(t)) <= store[t].attempt
    <3> SUFFICES ASSUME NEW t \in Task
                 PROVE  sends[t] + Cardinality(Claimers(t)) <= store[t].attempt
      OBVIOUS
    <3>1. Cardinality(Claimers(t)) = 0
      BY <2>1, <2>3
    <3> QED BY <2>2, <3>1
  <2> QED BY <2>2, <2>3, <2>4 DEF SendInv
<1> QED BY <1>1, <1>5, <1>6, <1>7, <1>8 DEF CompletionInv

(* The inductive invariant of recovery and delivery.                       *)
THEOREM CompletionIsSafe == CompletionSpec => []CompletionInv
<1>1. CompletionInv /\ [CompletionNext]_allVars => CompletionInv'
  BY CompletionStepKeeps
<1> QED BY <1>1, CompletionStart, PTL DEF CompletionSpec

(* The origin session is told one story, the durable one: whichever pump,  *)
(* attempt or host life sent it, and whatever the races of status, result, *)
(* persist and attach were (completion.py, _persist_terminal_truth and     *)
(* _attach_card).                                                          *)
THEOREM SessionsHearOneStory == CompletionSpec => []OneStory
<1>1. CompletionInv => OneStory
  BY DEF CompletionInv
<1> QED BY <1>1, CompletionIsSafe, PTL

(* An ACK on record was given by a session that read the CARD              *)
(* (completion.py, _attempt_delivery).                                     *)
THEOREM AcksAreEarned == CompletionSpec => []AckedWasReceived
<1>1. CompletionInv => AckedWasReceived
  BY DEF CompletionInv
<1> QED BY <1>1, CompletionIsSafe, PTL

(* Any number of pumps, expired claims and crashes send a task at most     *)
(* AttemptCap times (completion.py, the claim's attempt counter).          *)
THEOREM AttemptsAreBounded == CompletionSpec => []SendsBounded
<1>1. CompletionInv => SendsBounded
  <2> SUFFICES ASSUME CompletionInv, NEW t \in Task PROVE sends[t] <= AttemptCap
    BY DEF SendsBounded
  <2>1. /\ sends[t] + Cardinality(Claimers(t)) <= store[t].attempt
        /\ store[t].attempt <= AttemptCap
    BY DEF CompletionInv, SendInv
  <2>2. sends[t] \in Nat /\ store[t].attempt \in Nat /\ Cardinality(Claimers(t)) \in Nat
        /\ AttemptCap \in Nat
    BY ClaimersFinite, CompletionAssumption DEF CompletionInv, CompletionTypeOK, TypeOK, Record
  <2> QED BY <2>1, <2>2
<1> QED BY <1>1, CompletionIsSafe, PTL

(* With the pumps at work too, nothing is started twice and no run is      *)
(* without its record.                                                     *)
THEOREM DispatchStaysSafe == CompletionSpec => [](LaunchedOnce /\ NoUnrecordedRun)
<1>1. CompletionInv => LaunchedOnce /\ NoUnrecordedRun
  BY DEF CompletionInv, DispatchInv
<1> QED BY <1>1, CompletionIsSafe, PTL

-----------------------------------------------------------------------------
(* Recovery and delivery implement TaskOutcome, too.                       *)

(* A step that only changes the delivery of a record.                      *)
LEMMA DeliveryRefines ==
    ASSUME CompletionInv, NEW t \in Task, NEW n \in Record, store' = [store EXCEPT ![t] = n],
           MayUpdate(store[t], n), n.state = store[t].state
    PROVE  [Abstract!Next]_Abstract!vars
  BY SwapRefines DEF CompletionInv, DispatchInv

(* The swaps of a pump are such steps.                                     *)
LEMMA PumpStepRefines ==
    ASSUME CompletionInv, NEW c \in Thread, RecoverStep(c) \/ DeliverStep(c)
    PROVE  [Abstract!Next]_Abstract!vars
<1>1. CASE UNCHANGED store
  BY <1>1 DEF Abstract!vars
<1>2. \A t \in Task : store[t] \in Record
  BY PumpTypes
<1>3. ASSUME NEW t \in Task, NEW s \in DeliveryState, Swaps(t, SettledAs(store[t], s)),
             MayUpdate(store[t], SettledAs(store[t], s))
      PROVE  [Abstract!Next]_Abstract!vars
  <2> DEFINE n == SettledAs(store[t], s)
  <2>1. n \in Record /\ n.state = store[t].state
    BY <1>2 DEF SettledAs, Record
  <2>2. store' = [store EXCEPT ![t] = n] /\ MayUpdate(store[t], n)
    BY <1>3 DEF Swaps
  <2> HIDE DEF n
  <2> QED BY <2>1, <2>2, DeliveryRefines
<1>4. ASSUME NEW t \in Task, Reclaim(c, t) PROVE [Abstract!Next]_Abstract!vars
  <2>1. Released(store[t]) = SettledAs(store[t], "PENDING") /\ "PENDING" \in DeliveryState
    BY DEF Released, SettledAs, DeliveryState
  <2> QED BY <1>3, <1>4, <2>1 DEF Reclaim, Swappable
<1>5. ASSUME NEW t \in Task, DropExhausted(c, t) PROVE [Abstract!Next]_Abstract!vars
  BY <1>3, <1>5 DEF DropExhausted, Swappable, DeliveryState, Settled
<1>6. ASSUME NEW t \in Task, Claim(c, t) PROVE [Abstract!Next]_Abstract!vars
  <2> DEFINE n == Claimed(store[t])
  <2>1. n \in Record /\ n.state = store[t].state
    <3>1. store[t].attempt + 1 \in Nat /\ "CLAIMED" \in DeliveryState
      BY <1>2 DEF Record, DeliveryState
    <3>2. n = [store[t] EXCEPT !.delivery = "CLAIMED", !.attempt = store[t].attempt + 1]
      BY <1>2 DEF Claimed, Record
    <3> HIDE DEF n
    <3> QED BY <1>2, <3>1, <3>2 DEF Record
  <2>2. store' = [store EXCEPT ![t] = n] /\ MayUpdate(store[t], n)
    BY <1>6 DEF Claim, Swappable, SwapsAndHolds
  <2> HIDE DEF n
  <2> QED BY <2>1, <2>2, DeliveryRefines
<1>7. ASSUME Settle(c) PROVE [Abstract!Next]_Abstract!vars
  <2>1. pump[c].task \in Task /\ pump[c].obs \in DeliveryState
    BY <1>7, PumpTypes DEF Settle, At, NoTaskAt, CompletionInv, PumpOk
  <2> QED BY <1>3, <1>7, <2>1 DEF Settle, Swappable
<1>8. CASE RecoverStep(c)
  <2>1. UNCHANGED store \/ \E t \in Task : Reclaim(c, t)
    BY <1>8 DEF RecoverStep, BeginPass, ListClaims, RecoveryEnds, AskResult, PersistObserved,
       PersistNothing, Ignored, Gate, PersistTruth, PersistFailure, FailureTooLate, Persisted,
       AttachCard, AlreadyCarded, RecoverPrepared, RecoverObserve, EnsureCard, LeaveClaim, vars
  <2> QED BY <1>1, <1>4, <2>1
<1>9. CASE DeliverStep(c)
  <2>1. \/ UNCHANGED store \/ Settle(c)
        \/ \E t \in Task : DropExhausted(c, t) \/ Claim(c, t)
    BY <1>9 DEF DeliverStep, Scan, NoOrigin, Reaches, Misses, SessionGone, Sends, SettleRaceLost,
       PassEnds, NotDurableYet, ClaimRaceLost, vars
  <2> QED BY <1>1, <1>5, <1>6, <1>7, <2>1
<1> QED BY <1>8, <1>9

(* Every other step stores nothing or is one of the dispatcher's.          *)
LEMMA CompletionStepRefines ==
    ASSUME CompletionInv, [CompletionNext]_allVars PROVE [Abstract!Next]_Abstract!vars
<1>1. CASE UNCHANGED store
  BY <1>1 DEF Abstract!vars
<1>2. DispatchInv
  BY DEF CompletionInv
<1>3. ASSUME NEW c \in Thread, CallStep(c) PROVE [Abstract!Next]_Abstract!vars
  BY <1>2, <1>3, StepRefines DEF CallStep, Next
<1>4. ASSUME NEW c \in Thread, ClientStep(c) PROVE UNCHANGED store
  BY <1>4 DEF ClientStep, AdmitDispatch, AdmitReplay, Ingress, Dispatch, DispatchReplays, Status,
     Result, Query, Cancel, CancelRepeats, CancelUnreachable
<1>5. ASSUME World PROVE UNCHANGED store
  BY <1>5 DEF World, WorkerExits, WorkerEnds, WorkerReturns, ClaimExpires, HostDies, CrashHost, vars
<1>6. CASE UNCHANGED allVars
  BY <1>1, <1>6 DEF allVars, vars
<1> QED BY <1>1, <1>3, <1>4, <1>5, <1>6, PumpStepRefines DEF CompletionNext

(* Recovery, retries and deliveries included, every record lives the life  *)
(* of TaskOutcome: one outcome for good, settled at most once and only     *)
(* after it.                                                               *)
THEOREM CompletionImplementsOutcome == CompletionSpec => RefinesOutcome
<1>1. CompletionInit => Abstract!Init
  <2> SUFFICES ASSUME CompletionInit PROVE Abstract!Init
    OBVIOUS
  <2>1. OutcomeOf(NoRecord) = "NEW" /\ NoRecord.delivery \notin Settled
    BY DEF OutcomeOf, NoRecord, Settled
  <2> QED BY <2>1 DEF CompletionInit, Init, Abstract!Init
<1>2. CompletionInv /\ [CompletionNext]_allVars => [Abstract!Next]_Abstract!vars
  BY CompletionStepRefines
<1> QED BY <1>1, <1>2, CompletionIsSafe, PTL DEF CompletionSpec, RefinesOutcome, Abstract!Spec

-----------------------------------------------------------------------------
(* Admission: the bound holds of the running workers, for any bound, tasks,*)
(* hosts, pumps and crashes, where one thread admits (OneAdmits): the      *)
(* session's operations are serialised.                                    *)
(*                                                                         *)
(* A worker that runs has a record, and one that counts, because whatever  *)
(* stores a terminal state tells of a run that is over (TruthInv("over")). *)
(* The counted records grow in one step, CreatePrepared, whose thread      *)
(* found a place and is the only one that looks for places.                *)

(* What holds before every step.                                           *)
Admitted == OneAdmits /\ CompletionInv /\ AdmissionInv

-----------------------------------------------------------------------------
(* Runs that are over stay over, and what is told of them is told again.   *)

(* The steps that are the dispatcher's, and those that leave it alone.     *)
LEMMA DispatcherStep ==
    ASSUME [CompletionNext]_allVars
    PROVE  \/ [Next]_vars
           \/ /\ UNCHANGED <<scenario, cancels, run>>
              /\ \E c \in Thread : RecoverStep(c) \/ DeliverStep(c)
<1>1. CASE UNCHANGED allVars
  BY <1>1 DEF allVars
<1>2. ASSUME NEW c \in Thread, ClientStep(c) PROVE [Next]_vars
  <2>1. Request(c)
    BY <1>2 DEF ClientStep, AdmitDispatch, AdmitReplay, Ingress, Request
  <2> QED BY <2>1 DEF Next
<1>3. ASSUME NEW c \in Thread, CallStep(c) PROVE [Next]_vars
  BY <1>3 DEF CallStep, Next
<1>4. ASSUME World PROVE [Next]_vars
  <2>1. \/ \E t \in Task, s \in {"COMPLETED", "FAILED", "TIMEOUT"} : WorkerEnds(t, s)
        \/ \E h \in Host : CrashHost(h)
        \/ UNCHANGED vars
    BY <1>4 DEF World, WorkerExits, WorkerReturns, ClaimExpires, HostDies
  <2> QED BY <2>1 DEF Next, Environment
<1>5. ASSUME NEW c \in Thread, RecoverStep(c) \/ DeliverStep(c) PROVE UNCHANGED <<scenario, cancels, run>>
  <2>1. CASE RecoverStep(c)
    BY <2>1 DEF RecoverStep, BeginPass, ListClaims, RecoveryEnds, AskResult, PersistObserved,
       PersistNothing, Ignored, Gate, PersistTruth, PersistFailure, FailureTooLate, Persisted,
       AttachCard, AlreadyCarded, RecoverPrepared, RecoverObserve, EnsureCard, Reclaim, LeaveClaim,
       vars, hostVars, worldVars
  <2>2. CASE DeliverStep(c)
    BY <2>2 DEF DeliverStep, Scan, NoOrigin, Reaches, Misses, SessionGone, Sends, Settle,
       SettleRaceLost, PassEnds, NotDurableYet, DropExhausted, Claim, ClaimRaceLost,
       vars, hostVars, worldVars
  <2> QED BY <1>5, <2>1, <2>2
<1> QED BY <1>1, <1>2, <1>3, <1>4, <1>5 DEF CompletionNext

(* The surroundings of a behaviour stay what they are.                     *)
LEMMA SurroundingsStay ==
    ASSUME [CompletionNext]_allVars PROVE UNCHANGED scenario
<1>1. ASSUME NEW c \in Thread, Request(c) PROVE UNCHANGED scenario
  BY <1>1 DEF Request, DispatchReplays, Dispatch, Status, Result, Reconcile,
     Query, Cancel, CancelRepeats, CancelUnreachable, Resume, BindOrigin
<1>2. ASSUME NEW c \in Thread, DispatchStep(c) PROVE UNCHANGED scenario
  BY <1>2 DEF DispatchStep, CreatePrepared, CreateLost, CreateRaises, Launch, LaunchRaises,
     Confirm, ConfirmStale
<1>3. ASSUME NEW c \in Thread, AnswerStep(c) PROVE UNCHANGED scenario
  BY <1>3 DEF AnswerStep, AnswerRaises, AnswerKept, AnswerSwaps, Swap, SwapRaises
<1>4. Environment => UNCHANGED scenario
  BY DEF Environment, WorkerEnds, CrashHost
<1> QED BY <1>1, <1>2, <1>3, <1>4, DispatcherStep DEF Next, vars

(* No step changes what a run came to.                                     *)
LEMMA RunsGoOnHere ==
    ASSUME CompletionInv, [CompletionNext]_allVars PROVE RunsGoOn
<1>1. CASE [Next]_vars
  BY <1>1, StepRunsGoOn DEF CompletionInv
<1>2. CASE UNCHANGED run
  BY <1>2 DEF RunsGoOn
<1> QED BY <1>1, <1>2, DispatcherStep

-----------------------------------------------------------------------------
(* What a pump saw.                                                        *)

(* What c saw of a task is what it had seen, what is stored, or nothing.   *)
SeenMoves(c) ==
    \A t \in Task : \/ pump'[c].seen[t].state = pump[c].seen[t].state
                    \/ pump'[c].seen[t].state = store[t].state
                    \/ pump'[c].seen[t].state = "CREATED"

(* A pump that keeps what it saw.                                          *)
LEMMA SeenKept ==
    ASSUME CompletionInv, NEW c \in Thread, NEW p, PumpTo(c, p), p.seen = pump[c].seen
    PROVE  SeenMoves(c)
<1>1. pump'[c] = p
  BY DEF PumpTo, CompletionInv, CompletionTypeOK
<1> QED BY <1>1 DEF SeenMoves

(* A pump that is done with a task.                                        *)
LEMMA SeenDone ==
    ASSUME CompletionInv, NEW c \in Thread, NEW t \in Task, NEW pc \in PumpPCs,
           PumpTo(c, DoneWith(c, t, pc))
    PROVE  SeenMoves(c) /\ pump'[c].pc = pc
<1> DEFINE p == DoneWith(c, t, pc)
<1>1. /\ p.pc = pc
      /\ \A u \in Task : p.seen[u] = IF u = t THEN NoRecord ELSE pump[c].seen[u]
  BY DoneTypes DEF CompletionInv
<1>2. PumpTo(c, p)
  OBVIOUS
<1> HIDE DEF p
<1>3. pump'[c] = p
  BY <1>2 DEF PumpTo, CompletionInv, CompletionTypeOK
<1>4. NoRecord.state = "CREATED"
  BY DEF NoRecord
<1> QED BY <1>1, <1>3, <1>4 DEF SeenMoves

(* A pump that scans.                                                      *)
LEMMA SeenScanned ==
    ASSUME CompletionInv, NEW c \in Thread, NEW S \in SUBSET Task, NEW p, PumpTo(c, p),
           p.seen = Scanned(S)
    PROVE  SeenMoves(c)
<1>1. pump'[c] = p
  BY DEF PumpTo, CompletionInv, CompletionTypeOK
<1>2. \A t \in Task : Scanned(S)[t] = IF t \in S THEN store[t] ELSE NoRecord
  BY ScanTypes DEF CompletionInv, DispatchInv
<1>3. NoRecord.state = "CREATED"
  BY DEF NoRecord
<1> QED BY <1>1, <1>2, <1>3 DEF SeenMoves

(* A pump that holds an observation of a task, or moves on with it.        *)
LEMMA SeenHeld ==
    ASSUME CompletionInv, NEW c \in Thread, NEW t, NEW pc, NEW o, Holding(c, t, pc, o)
    PROVE  /\ SeenMoves(c)
           /\ pump'[c].pc = pc /\ pump'[c].task = t /\ pump'[c].obs = o
<1> DEFINE p == [pump[c] EXCEPT !.pc = pc, !.task = t, !.obs = o]
<1>1. p.pc = pc /\ p.task = t /\ p.obs = o /\ p.seen = pump[c].seen
  BY PumpTypes DEF PumpState
<1>2. PumpTo(c, p)
  BY DEF Holding
<1> HIDE DEF p
<1>3. pump'[c] = p
  BY <1>2 DEF PumpTo, CompletionInv, CompletionTypeOK
<1> QED BY <1>1, <1>2, <1>3, SeenKept

(* A pump that moves on with what it has in hand.                          *)
LEMMA SeenForward ==
    ASSUME CompletionInv, NEW c \in Thread, NEW pc, Forward(c, pc)
    PROVE  /\ SeenMoves(c)
           /\ pump'[c].pc = pc /\ pump'[c].task = pump[c].task /\ pump'[c].obs = pump[c].obs
<1> DEFINE p == [pump[c] EXCEPT !.pc = pc]
<1>1. p.pc = pc /\ p.task = pump[c].task /\ p.obs = pump[c].obs /\ p.seen = pump[c].seen
  BY PumpTypes DEF PumpState
<1>2. PumpTo(c, p)
  BY DEF Forward
<1> HIDE DEF p
<1>3. pump'[c] = p
  BY <1>2 DEF PumpTo, CompletionInv, CompletionTypeOK
<1> QED BY <1>1, <1>2, <1>3, SeenKept

(* The pump after a step: what it saw is old, fresh or nothing, and what   *)
(* it observed, if it has an observation in hand, is told of the task.     *)
Observing == {"observed", "gate", "fail", "persist"}

Observes(c) ==
    /\ SeenMoves(c)
    /\ pump'[c].pc \in Observing => Told("over", pump'[c].task, pump'[c].obs)

(* Such a pump tells of runs that are over.                                *)
LEMMA ObservesTells ==
    ASSUME Admitted, RunsGoOn, NEW c \in Thread, Observes(c) PROVE PumpTells(c)'
<1>1. ASSUME NEW t \in Task PROVE Told("over", t, pump'[c].seen[t].state)
  <2>1. Tells("over", t, pump[c].seen[t].state) /\ Tells("over", t, store[t].state)
    BY DEF Admitted, AdmissionInv, TruthInv, PumpTells
  <2>2. Told("over", t, pump[c].seen[t].state) /\ Told("over", t, store[t].state)
    BY <2>1, ToldAgain
  <2> QED BY <2>2, OpenIsTold DEF Observes, SeenMoves
<1> QED BY <1>1 DEF Observes, Observing, PumpTells, Told, Tells, Truth

(* The steps that pass a task by.                                          *)
LEMMA SkipObserves ==
    ASSUME Admitted, NEW c \in Thread, NEW t \in Task, Skips(c, t) PROVE Observes(c)
  BY SeenDone DEF Skips, PumpPCs, Observes, Observing, Admitted

(* The steps that take an observation that is told of the task ...         *)
LEMMA HoldObserves ==
    ASSUME Admitted, NEW c \in Thread, NEW t, NEW pc, NEW o, Holding(c, t, pc, o),
           pc \in Observing => Told("over", t, o)
    PROVE  Observes(c)
  BY SeenHeld DEF Observes, Admitted

(* ... or move on with it.                                                 *)
LEMMA ForwardObserves ==
    ASSUME Admitted, NEW c \in Thread, NEW pc, Forward(c, pc),
           pc \in Observing => Told("over", pump[c].task, pump[c].obs)
    PROVE  Observes(c)
  BY SeenForward DEF Observes, Admitted

(* What a pump has in hand it still tells after the step.                  *)
LEMMA HandTold ==
    ASSUME Admitted, RunsGoOn, NEW c \in Thread, pump[c].pc \in Observing
    PROVE  pump[c].task \in Task /\ Told("over", pump[c].task, pump[c].obs)
<1>1. pump[c].task \in Task
  BY PumpTypes DEF Observing, NoTaskAt, Admitted
<1>2. Tells("over", pump[c].task, pump[c].obs)
  BY DEF Admitted, AdmissionInv, PumpTells, Observing
<1> QED BY <1>1, <1>2, ToldAgain

(* A terminal status is told of a run that is over.                        *)
LEMMA RecoverObserves ==
    ASSUME Admitted, RunsGoOn, NEW c \in Thread, NEW t \in Task,
           RecoverPrepared(c, t) \/ RecoverObserve(c, t) \/ EnsureCard(c, t)
    PROVE  Observes(c)
<1>1. CASE RecoverPrepared(c, t)
  BY <1>1, HoldObserves, OpenIsTold DEF RecoverPrepared
<1>2. CASE RecoverObserve(c, t)
  <2> DEFINE h == HostOf[c]
  <2>1. h \in Host /\ UNCHANGED run
    BY <1>2, PumpTypes DEF RecoverObserve, worldVars, Admitted
  <2>2. Told("over", t, Known(h, t))
    BY <2>1, ToldAgain DEF Known, Admitted, AdmissionInv, TruthInv
  <2>3. PICK a \in StatusAnswers(t) :
          LET s == IF a # "ERROR" THEN a
                   ELSE IF Known(h, t) \in Terminal THEN Known(h, t) ELSE "UNKNOWN"
          IN  \/ Skips(c, t)
              \/ Holding(c, t, IF s = "UNKNOWN" THEN "ask"
                               ELSE IF s \in Terminal THEN "gate" ELSE "observed", s)
    BY <1>2 DEF RecoverObserve
  <2> DEFINE s == IF a # "ERROR" THEN a
                  ELSE IF Known(h, t) \in Terminal THEN Known(h, t) ELSE "UNKNOWN"
  <2>4. Told("over", t, a)
    BY <2>1 DEF Told, StatusAnswers, Terminal
  <2>5. Told("over", t, s)
    BY <2>2, <2>4, OpenIsTold
  <2>6. Skips(c, t) \/ \E pc : Holding(c, t, pc, s)
    BY <2>3
  <2> HIDE DEF s
  <2> QED BY <2>5, <2>6, SkipObserves, HoldObserves
<1>3. CASE EnsureCard(c, t)
  <2> DEFINE r == pump[c].seen[t]
  <2>1. Skips(c, t) \/ Holding(c, t, "gate", r.state) \/ Holding(c, t, "attach", r.result)
    BY <1>3 DEF EnsureCard
  <2>2. Told("over", t, r.state)
    BY ToldAgain DEF Admitted, AdmissionInv, PumpTells
  <2> QED BY <2>1, <2>2, SkipObserves, HoldObserves DEF Observing
<1> QED BY <1>1, <1>2, <1>3

(* What result answers is told too, and the gate keeps it.                 *)
LEMMA AskObserves ==
    ASSUME Admitted, RunsGoOn, NEW c \in Thread,
           AskResult(c) \/ Gate(c) \/ FailureTooLate(c) \/ Persisted(c)
    PROVE  Observes(c)
<1> DEFINE t == pump[c].task
<1>1. t \in Task
  BY PumpTypes DEF AskResult, Gate, FailureTooLate, Persisted, At, NoTaskAt, Admitted
<1>2. CASE AskResult(c)
  <2>1. UNCHANGED run
    BY <1>2 DEF AskResult, vars
  <2>2. \/ Skips(c, t) \/ Holding(c, t, "observed", "UNKNOWN")
        \/ \E a \in ResultAnswers(t) : PumpTo(c, [pump[c] EXCEPT !.pc = "gate", !.obs = a, !.auth = TRUE])
    BY <1>2 DEF AskResult
  <2>3. ASSUME NEW a \in ResultAnswers(t),
               PumpTo(c, [pump[c] EXCEPT !.pc = "gate", !.obs = a, !.auth = TRUE])
        PROVE  Observes(c)
    <3> DEFINE p == [pump[c] EXCEPT !.pc = "gate", !.obs = a, !.auth = TRUE]
    <3>1. p.task = t /\ p.obs = a /\ p.seen = pump[c].seen
      BY PumpTypes DEF PumpState, Admitted
    <3>2. PumpTo(c, p)
      BY <2>3
    <3> HIDE DEF p
    <3>3. pump'[c] = p
      BY <3>2 DEF PumpTo, Admitted, CompletionInv, CompletionTypeOK
    <3>4. Told("over", t, a)
      BY <2>1 DEF Told, ResultAnswers, Terminal
    <3>5. SeenMoves(c)
      BY <3>1, <3>2, SeenKept DEF Admitted
    <3> QED BY <3>1, <3>3, <3>4, <3>5 DEF Observes
  <2> QED BY <1>1, <2>2, <2>3, SkipObserves, HoldObserves, OpenIsTold
<1>3. CASE Gate(c)
  <2>1. pump[c].pc \in Observing /\ (Forward(c, "fail") \/ Forward(c, "persist"))
    BY <1>3 DEF Gate, At, Observing
  <2> QED BY <2>1, HandTold, ForwardObserves
<1>4. CASE FailureTooLate(c)
  <2>1. Skips(c, t) \/ Holding(c, t, "attach", store[t].result)
    BY <1>4 DEF FailureTooLate
  <2> QED BY <1>1, <2>1, SkipObserves, HoldObserves DEF Observing
<1>5. CASE Persisted(c)
  <2>1. Forward(c, "attach") \/ Holding(c, t, "observed", "UNKNOWN")
    BY <1>5 DEF Persisted
  <2> QED BY <2>1, ForwardObserves, HoldObserves, OpenIsTold DEF Observing
<1> QED BY <1>2, <1>3, <1>4, <1>5

(* The steps of a pass that look at the whole store.                       *)
LEMMA ListingObserves ==
    ASSUME Admitted, NEW c \in Thread,
           BeginPass(c) \/ ListClaims(c) \/ RecoveryEnds(c) \/ Scan(c) \/ PassEnds(c)
    PROVE  Observes(c)
<1>1. ASSUME NEW p, PumpTo(c, p) PROVE pump'[c] = p
  BY <1>1 DEF PumpTo, Admitted, CompletionInv, CompletionTypeOK
<1>2. CASE BeginPass(c)
  <2> DEFINE S == {t \in Task : RequiresRecovery(store[t])}
             p == [Rest EXCEPT !.pc = "recover", !.pass = "recover",
                               !.todo = S, !.seen = Scanned(S)]
  <2>1. p.pc = "recover" /\ p.seen = Scanned(S) /\ S \in SUBSET Task
    BY DEF Rest
  <2>2. PumpTo(c, p)
    BY <1>2 DEF BeginPass
  <2> HIDE DEF p, S
  <2> QED BY <1>1, <2>1, <2>2, SeenScanned DEF Admitted, Observes, Observing
<1>3. CASE Scan(c)
  <2> DEFINE S == {t \in Task : Deliverable(store[t])}
             p == [pump[c] EXCEPT !.pc = "deliver", !.todo = S, !.seen = Scanned(S)]
  <2>1. p.pc = "deliver" /\ p.seen = Scanned(S) /\ S \in SUBSET Task
    BY PumpTypes DEF PumpState, Admitted
  <2>2. PumpTo(c, p)
    BY <1>3 DEF Scan
  <2> HIDE DEF p, S
  <2> QED BY <1>1, <2>1, <2>2, SeenScanned DEF Admitted, Observes, Observing
<1>4. CASE ListClaims(c)
  <2> DEFINE p == [pump[c] EXCEPT !.pc = "reclaim", !.todo = {t \in Task : store[t].delivery = "CLAIMED"}]
  <2>1. p.pc = "reclaim" /\ p.seen = pump[c].seen
    BY PumpTypes DEF PumpState, Admitted
  <2>2. PumpTo(c, p)
    BY <1>4 DEF ListClaims
  <2> HIDE DEF p
  <2> QED BY <1>1, <2>1, <2>2, SeenKept DEF Admitted, Observes, Observing
<1>5. CASE RecoveryEnds(c)
  <2> DEFINE p == [pump[c] EXCEPT !.pc = "list", !.pass = "deliver"]
  <2>1. p.pc = "list" /\ p.seen = pump[c].seen
    BY PumpTypes DEF PumpState, Admitted
  <2>2. PumpTo(c, p)
    BY <1>5 DEF RecoveryEnds
  <2> HIDE DEF p
  <2> QED BY <1>1, <2>1, <2>2, SeenKept DEF Admitted, Observes, Observing
<1>6. CASE PassEnds(c)
  <2>1. Rest.pc = "rest" /\ \A t \in Task : Rest.seen[t].state = "CREATED"
    BY DEF Rest, NothingSeen, NoRecord
  <2>2. PumpTo(c, Rest)
    BY <1>6 DEF PassEnds
  <2> HIDE DEF Rest
  <2> QED BY <1>1, <2>1, <2>2 DEF Observes, SeenMoves, Observing
<1> QED BY <1>2, <1>3, <1>4, <1>5, <1>6

(* The steps that swap, or that begin a call to swap.                      *)
LEMMA SwapObserves ==
    ASSUME Admitted, NEW c \in Thread,
           \/ PersistObserved(c) \/ AttachCard(c) \/ PersistTruth(c) \/ PersistFailure(c)
           \/ PersistNothing(c) \/ Ignored(c) \/ AlreadyCarded(c)
    PROVE  Observes(c)
<1> DEFINE t == pump[c].task
<1>1. PersistNothing(c) \/ Ignored(c) \/ AlreadyCarded(c) => t \in Task /\ Skips(c, t)
  BY PumpTypes DEF PersistNothing, Ignored, AlreadyCarded, At, NoTaskAt, Admitted
<1>2. PersistObserved(c) \/ AttachCard(c) => Forward(c, "ignored")
  BY DEF PersistObserved, AttachCard
<1>3. PersistFailure(c) \/ PersistTruth(c) =>
         Forward(c, "persisted") \/ \E o : Holding(c, t, "persisted", o)
  BY DEF PersistFailure, PersistTruth
<1> QED BY <1>1, <1>2, <1>3, SkipObserves, ForwardObserves, HoldObserves DEF Observing

(* The steps on one record of a listing; a claim is seen as it was stored. *)
LEMMA DeliveryObserves ==
    ASSUME Admitted, NEW c \in Thread, NEW t \in Task,
           \/ Reclaim(c, t) \/ LeaveClaim(c, t) \/ NotDurableYet(c, t) \/ DropExhausted(c, t)
           \/ ClaimRaceLost(c, t) \/ Claim(c, t)
    PROVE  Observes(c)
<1>1. CASE Reclaim(c, t) \/ LeaveClaim(c, t)
  <2>1. PumpTo(c, DoneWith(c, t, "reclaim"))
    BY <1>1 DEF Reclaim, LeaveClaim
  <2> QED BY <2>1, SeenDone DEF PumpPCs, Observes, Observing, Admitted
<1>2. CASE NotDurableYet(c, t) \/ DropExhausted(c, t) \/ ClaimRaceLost(c, t)
  <2>1. PumpTo(c, DoneWith(c, t, "deliver"))
    BY <1>2 DEF NotDurableYet, DropExhausted, ClaimRaceLost
  <2> QED BY <2>1, SeenDone DEF PumpPCs, Observes, Observing, Admitted
<1>3. CASE Claim(c, t)
  <2> DEFINE n == Claimed(store[t])
             p == [pump[c] EXCEPT !.pc = "claimed", !.task = t, !.seen[t] = n]
  <2>1. n.state = store[t].state
    BY PumpTypes DEF Claimed, Record, Admitted
  <2>2. PumpTo(c, p)
    BY <1>3 DEF Claim
  <2> HIDE DEF n
  <2>3. p.pc = "claimed" /\ \A u \in Task : p.seen[u] = IF u = t THEN n ELSE pump[c].seen[u]
    BY PumpTypes DEF PumpState, Admitted
  <2> HIDE DEF p
  <2>4. pump'[c] = p
    BY <2>2 DEF PumpTo, Admitted, CompletionInv, CompletionTypeOK
  <2> QED BY <2>1, <2>3, <2>4 DEF Observes, SeenMoves, Observing
<1> QED BY <1>1, <1>2, <1>3

(* A delivery, and its settlement.                                         *)
LEMMA SendObserves ==
    ASSUME Admitted, NEW c \in Thread,
           \/ NoOrigin(c) \/ Reaches(c) \/ Misses(c) \/ SessionGone(c)
           \/ Settle(c) \/ SettleRaceLost(c)
    PROVE  Observes(c)
<1> DEFINE t == pump[c].task
<1>1. CASE NoOrigin(c) \/ Reaches(c) \/ Misses(c) \/ SessionGone(c)
  <2>1. \E o : Holding(c, t, "settle", o)
    BY <1>1 DEF NoOrigin, Reaches, Misses, SessionGone
  <2> QED BY <2>1, HoldObserves DEF Observing
<1>2. CASE Settle(c) \/ SettleRaceLost(c)
  <2>1. t \in Task /\ PumpTo(c, DoneWith(c, t, "deliver"))
    BY <1>2, PumpTypes DEF Settle, SettleRaceLost, At, NoTaskAt, Admitted
  <2> QED BY <2>1, SeenDone DEF PumpPCs, Observes, Observing, Admitted
<1> QED BY <1>1, <1>2

(* Every step of a pump.                                                   *)
LEMMA PumpObserves ==
    ASSUME Admitted, RunsGoOn, NEW c \in Thread, RecoverStep(c) \/ DeliverStep(c)
    PROVE  Observes(c) /\ \A d \in Thread \ {c} : pump'[d] = pump[d]
<1>1. CASE RecoverStep(c)
  <2>1. Observes(c)
    BY <1>1, ListingObserves, AskObserves, SwapObserves, RecoverObserves, DeliveryObserves
       DEF RecoverStep
  <2>2. \E p : PumpTo(c, p)
    BY <1>1 DEF RecoverStep, BeginPass, ListClaims, RecoveryEnds, AskResult, PersistObserved,
       PersistNothing, Ignored, Gate, PersistTruth, PersistFailure, FailureTooLate, Persisted,
       AttachCard, AlreadyCarded, RecoverPrepared, RecoverObserve, EnsureCard, Reclaim, LeaveClaim,
       Skips, Holding, Forward
  <2> QED BY <2>1, <2>2 DEF PumpTo, Admitted, CompletionInv, CompletionTypeOK
<1>2. CASE DeliverStep(c)
  <2>1. Observes(c)
    BY <1>2, ListingObserves, DeliveryObserves, SendObserves DEF DeliverStep
  <2>2. \E p : PumpTo(c, p)
    BY <1>2 DEF DeliverStep, Scan, NoOrigin, Reaches, Misses, SessionGone, Sends, Settle,
       SettleRaceLost, PassEnds, NotDurableYet, DropExhausted, Claim, ClaimRaceLost, Holding
  <2> QED BY <2>1, <2>2 DEF PumpTo, Admitted, CompletionInv, CompletionTypeOK
<1> QED BY <1>1, <1>2

-----------------------------------------------------------------------------
(* What the steps of a pump store, or ask a call to store, is told too.    *)

(* A call that begins with a record in hand.                               *)
LEMMA SwapBegins ==
    ASSUME Admitted, RunsGoOn, NEW c \in Thread, NEW t \in Task, NEW op \in Ops, NEW n \in Record,
           Goes(c, [Started(op, "swap", t) EXCEPT !.want = n]), Told("over", t, n.state),
           UNCHANGED <<store, route, cancels>>
    PROVE  TruthInv("over")'
<1> DEFINE b == Started(op, "swap", t)
           next == [b EXCEPT !.want = n]
<1>1. b \in CallState /\ b.pc = "swap" /\ b.task = t
  BY StartedTypes
<1>2. Goes(c, next)
  OBVIOUS
<1> HIDE DEF b
<1>3. next \in CallState /\ next.pc = "swap" /\ next.task = t /\ next.want = n
  BY <1>1 DEF CallState
<1> HIDE DEF next
<1>4. call'[c] = next /\ \A d \in Thread \ {c} : call'[d] = call[d]
  BY <1>2, <1>3, AfterGoing DEF Admitted, CompletionInv, DispatchInv
<1>5. DispatchInv /\ TruthInv("over")
  BY DEF Admitted, CompletionInv, AdmissionInv
<1> QED BY <1>3, <1>4, <1>5, TruthKeeps

(* What a pass observed, a result asked for and the failure of a run that  *)
(* ended without its task.return are told of the run.                      *)
LEMMA PersistTells ==
    ASSUME Admitted, RunsGoOn, NEW c \in Thread,
           PersistObserved(c) \/ AttachCard(c) \/ PersistTruth(c) \/ PersistFailure(c)
    PROVE  TruthInv("over")'
<1> DEFINE t == pump[c].task
<1>1. t \in Task /\ store[t] \in Record /\ DispatchInv /\ TruthInv("over")
  BY PumpTypes DEF PersistObserved, AttachCard, PersistTruth, PersistFailure, At, NoTaskAt,
     Admitted, CompletionInv, AdmissionInv
<1>2. CASE PersistObserved(c)
  <2> DEFINE n == [store[t] EXCEPT !.state = pump[c].obs]
  <2>1. pump[c].obs \in TaskState /\ Told("over", t, pump[c].obs)
    BY <1>2, HandTold DEF PersistObserved, At, Observing, Admitted, CompletionInv, PumpOk
  <2>2. n \in Record /\ n.state = pump[c].obs
    BY <1>1, <2>1 DEF Record
  <2>3. Goes(c, [Started("observe", "swap", t) EXCEPT !.want = n]) /\ UNCHANGED <<store, route, cancels>>
    BY <1>2 DEF PersistObserved, hostVars
  <2> HIDE DEF n
  <2> QED BY <1>1, <2>1, <2>2, <2>3, SwapBegins DEF Ops
<1>3. CASE AttachCard(c)
  <2> DEFINE n == [store[t] EXCEPT !.card = pump[c].obs]
  <2>1. pump[c].obs \in Terminal /\ Told("over", t, store[t].state)
    BY <1>1, <1>3, ToldAgain DEF AttachCard, At, Admitted, CompletionInv, PumpOk, TruthInv
  <2>2. n \in Record /\ n.state = store[t].state
    BY <1>1, <2>1 DEF Record
  <2>3. Goes(c, [Started("attach", "swap", t) EXCEPT !.want = n]) /\ UNCHANGED <<store, route, cancels>>
    BY <1>3 DEF AttachCard, hostVars
  <2> HIDE DEF n
  <2> QED BY <1>1, <2>1, <2>2, <2>3, SwapBegins DEF Ops
<1>4. CASE PersistFailure(c)
  <2>1. pump[c].obs \in Terminal /\ Told("over", t, pump[c].obs)
    BY <1>4, HandTold DEF PersistFailure, At, Observing, Admitted, CompletionInv, PumpOk
  <2>2. Told("over", t, "FAILED")
    BY <2>1 DEF Told
  <2>3. /\ Goes(c, [Started("persist", "answered", t) EXCEPT !.obs = "FAILED"])
        /\ Rehydrates(HostOf[c], t) /\ UNCHANGED store /\ UNCHANGED cancels
    BY <1>4 DEF PersistFailure, PersistsTerminal
  <2>4. "persist" \in Ops /\ "FAILED" \in TaskState \cup {"ERROR"}
    BY DEF Ops, TaskState, Terminal
  <2> QED BY <1>1, <2>2, <2>3, <2>4, AskTells
<1>5. CASE PersistTruth(c) /\ pump[c].auth
  <2> DEFINE a == pump[c].obs
  <2>1. a \in TaskState \cup {"ERROR"} /\ Told("over", t, a)
    BY <1>5, HandTold DEF PersistTruth, At, Observing, Admitted, CompletionInv, PumpOk, TaskState
  <2>2. Goes(c, [Started("persist", "answered", t) EXCEPT !.obs = a]) /\ UNCHANGED <<store, route, cancels>>
    BY <1>5 DEF PersistTruth, PersistsTerminal
  <2> HIDE DEF a
  <2>3. /\ call'[c].pc = "answered" /\ call'[c].task = t /\ call'[c].obs = a
        /\ \A d \in Thread \ {c} : call'[d] = call[d]
    BY <1>1, <2>1, <2>2, Asked DEF DispatchInv, Ops
  <2> QED BY <1>1, <2>1, <2>2, <2>3, TruthKeeps
<1>6. CASE PersistTruth(c) /\ ~pump[c].auth
  <2>1. PICK a \in ResultAnswers(t) : PersistsTerminal(c, "result", a)
    BY <1>6 DEF PersistTruth
  <2>2. UNCHANGED run /\ Rehydrates(HostOf[c], t) /\ UNCHANGED store /\ UNCHANGED cancels
    BY <1>6 DEF PersistTruth, worldVars
  <2>3. Told("over", t, a)
    BY <2>2 DEF Told, ResultAnswers, Terminal
  <2>4. a \in TaskState \cup {"ERROR"} /\ "result" \in Ops
    BY <1>1, AnswerTypes DEF DispatchInv, Ops
  <2>5. Goes(c, [Started("result", "answered", t) EXCEPT !.obs = a])
    BY <2>1 DEF PersistsTerminal
  <2> QED BY <1>1, <2>2, <2>3, <2>4, <2>5, AskTells
<1> QED BY <1>2, <1>3, <1>4, <1>5, <1>6

(* What a swap of the delivery leaves of a record.                         *)
LEMMA DeliverySwaps ==
    ASSUME CompletionInv, NEW c \in Thread, NEW t \in Task,
           \/ Reclaim(c, t) \/ DropExhausted(c, t) \/ Claim(c, t)
           \/ Settle(c) /\ t = pump[c].task
    PROVE  /\ UNCHANGED <<route, cancels, call>>
           /\ \A u \in Task : u # t => store'[u] = store[u]
           /\ MayUpdate(store[t], store'[t]) /\ store'[t].state = store[t].state
<1>1. store[t] \in Record /\ store \in [Task -> Record]
  BY PumpTypes DEF CompletionInv, CompletionTypeOK, TypeOK
<1>2. PICK n : store' = [store EXCEPT ![t] = n] /\ MayUpdate(store[t], n) /\ n.state = store[t].state
  <2>1. CASE Claim(c, t)
    <3>1. Claimed(store[t]).state = store[t].state
      BY <1>1 DEF Claimed, Record
    <3> QED BY <2>1, <3>1 DEF Claim, Swappable, SwapsAndHolds
  <2>2. CASE Reclaim(c, t)
    <3>1. Released(store[t]).state = store[t].state
      BY <1>1 DEF Released, Record
    <3> QED BY <2>2, <3>1 DEF Reclaim, Swappable, Swaps
  <2>3. \A s : SettledAs(store[t], s).state = store[t].state
    BY <1>1 DEF SettledAs, Record
  <2>4. CASE DropExhausted(c, t)
    BY <2>3, <2>4 DEF DropExhausted, Swappable, Swaps
  <2>5. CASE Settle(c) /\ t = pump[c].task
    BY <2>3, <2>5 DEF Settle, Swappable, Swaps
  <2> QED BY <2>1, <2>2, <2>4, <2>5
<1>3. UNCHANGED <<route, cancels, call>>
  BY DEF Reclaim, DropExhausted, Claim, Settle, hostVars
<1> QED BY <1>1, <1>2, <1>3

(* Every other step of a pump.                                             *)
LEMMA PumpLeavesAlone ==
    ASSUME NEW c \in Thread, RecoverStep(c) \/ DeliverStep(c)
    PROVE  \/ UNCHANGED <<store, route, cancels, call>>
           \/ \E t \in Task : RecoverObserve(c, t) /\ UNCHANGED <<store, cancels, call>>
           \/ PersistObserved(c) \/ AttachCard(c) \/ PersistTruth(c) \/ PersistFailure(c)
           \/ \E t \in Task : Reclaim(c, t) \/ DropExhausted(c, t) \/ Claim(c, t)
           \/ Settle(c)
<1>1. CASE RecoverStep(c)
  BY <1>1 DEF RecoverStep, BeginPass, ListClaims, RecoveryEnds, AskResult,
     PersistNothing, Ignored, Gate, FailureTooLate, Persisted,
     AlreadyCarded, RecoverPrepared, RecoverObserve, EnsureCard, LeaveClaim, vars, hostVars
<1>2. CASE DeliverStep(c)
  BY <1>2 DEF DeliverStep, Scan, NoOrigin, Reaches, Misses, SessionGone, Sends,
     SettleRaceLost, PassEnds, NotDurableYet, ClaimRaceLost, vars, hostVars
<1> QED BY <1>1, <1>2

(* Every step of a pump leaves all that is stored or in hand told.         *)
LEMMA PumpTellsTruth ==
    ASSUME Admitted, RunsGoOn, NEW c \in Thread, RecoverStep(c) \/ DeliverStep(c)
    PROVE  TruthInv("over")'
<1>1. DispatchInv /\ TruthInv("over")
  BY DEF Admitted, CompletionInv, AdmissionInv
<1>2. CASE UNCHANGED <<store, route, cancels, call>>
  BY <1>1, <1>2, TruthKeeps
<1>3. ASSUME NEW t \in Task, RecoverObserve(c, t), UNCHANGED <<store, cancels, call>>
      PROVE  TruthInv("over")'
  <2>1. HostOf[c] \in Host /\ Known(HostOf[c], t) \in TaskState
    BY <1>1, <1>3, PumpTypes, KnownTypes DEF RecoverObserve, Turn, Admitted, CompletionInv, DispatchInv
  <2>2. \A h \in Host, u \in Task : route'[h][u] = route[h][u] \/ Told("over", u, route'[h][u])
    BY <1>1, <1>3, <2>1, RouteTold DEF RecoverObserve, Rehydrates
  <2> QED BY <1>1, <1>3, <2>2, TruthKeeps
<1>4. ASSUME NEW t \in Task, UNCHANGED <<route, cancels, call>>,
             \A u \in Task : u # t => store'[u] = store[u], store'[t].state = store[t].state
      PROVE  TruthInv("over")'
  <2>1. \A u \in Task : store'[u].state = store[u].state
    BY <1>4
  <2> QED BY <1>1, <1>4, <2>1, TruthKeeps
<1>5. ASSUME NEW t \in Task, Reclaim(c, t) \/ DropExhausted(c, t) \/ Claim(c, t)
      PROVE  TruthInv("over")'
  BY <1>4, <1>5, DeliverySwaps DEF Admitted
<1>6. ASSUME Settle(c) PROVE TruthInv("over")'
  <2>1. pump[c].task \in Task
    BY <1>6, PumpTypes DEF Settle, At, NoTaskAt, Admitted
  <2> QED BY <1>4, <1>6, <2>1, DeliverySwaps DEF Admitted
<1> QED BY <1>2, <1>3, <1>5, <1>6, PersistTells, PumpLeavesAlone

-----------------------------------------------------------------------------
(* The counted records, and who is on the way to add one.                  *)

(* A record that may be updated so that it counts counted before.          *)
LEMMA CountsBefore ==
    ASSUME NEW r, NEW n, MayUpdate(r, n), CountsActive(n) PROVE CountsActive(r)
  BY DEF MayUpdate, StateSticks, CountsActive

(* Fewer or as many records count.                                         *)
LEMMA CountedFewer ==
    ASSUME Admitted, \A t \in Task : store'[t] = store[t] \/ MayUpdate(store[t], store'[t])
    PROVE  /\ IsFiniteSet(Counted)' /\ ActiveCount' <= ActiveCount
           /\ ActiveCount' \in Nat /\ ActiveCount \in Nat
<1>1. Counted' \subseteq Counted
  BY CountsBefore DEF Counted, CountsActive
<1>2. IsFiniteSet(Counted)
  BY DEF Admitted, AdmissionInv
<1>3. IsFiniteSet(Counted') /\ Cardinality(Counted') <= Cardinality(Counted)
  BY <1>1, <1>2, FS_Subset
<1>4. Cardinality(Counted') \in Nat /\ Cardinality(Counted) \in Nat
  BY <1>2, <1>3, FS_CardinalityType
<1> QED BY <1>3, <1>4 DEF ActiveCount

(* The step that creates a record is the only one after which more count.  *)
LEMMA RecordsMove ==
    ASSUME CompletionInv, [CompletionNext]_allVars, ~ \E c \in Thread : CreatePrepared(c)
    PROVE  \A t \in Task : store'[t] = store[t] \/ MayUpdate(store[t], store'[t])
<1>1. store \in [Task -> Record]
  BY DEF CompletionInv, CompletionTypeOK, TypeOK
<1>2. ASSUME NEW c \in Thread, CallStep(c)
      PROVE  \A t \in Task : store'[t] = store[t] \/ MayUpdate(store[t], store'[t])
  <2>1. UNCHANGED store \/ Confirm(c) \/ Swap(c)
    BY <1>2 DEF CallStep, DispatchStep, AnswerStep, CreateLost, CreateRaises, Launch, LaunchRaises,
       ConfirmStale, AnswerRaises, AnswerKept, AnswerSwaps, SwapRaises
  <2>2. Confirm(c) \/ Swap(c) => \E u, n : store' = [store EXCEPT ![u] = n] /\ MayUpdate(store[u], n)
    BY DEF Confirm, Swap, Swappable, Swaps
  <2> QED BY <1>1, <2>1, <2>2
<1>3. ASSUME NEW c \in Thread, RecoverStep(c) \/ DeliverStep(c)
      PROVE  \A t \in Task : store'[t] = store[t] \/ MayUpdate(store[t], store'[t])
  <2>1. \/ UNCHANGED store \/ Settle(c)
        \/ \E t \in Task : Reclaim(c, t) \/ DropExhausted(c, t) \/ Claim(c, t)
    BY <1>3, PumpLeavesAlone DEF PersistObserved, AttachCard, PersistTruth, PersistFailure
  <2>2. Settle(c) => pump[c].task \in Task
    BY PumpTypes DEF Settle, At, NoTaskAt
  <2>3. \A t \in Task : \/ Reclaim(c, t) \/ DropExhausted(c, t) \/ Claim(c, t)
                        \/ Settle(c) /\ t = pump[c].task
                        => /\ \A u \in Task : u # t => store'[u] = store[u]
                           /\ MayUpdate(store[t], store'[t])
    BY DeliverySwaps
  <2> QED BY <2>1, <2>2, <2>3
<1>4. ASSUME NEW c \in Thread, ClientStep(c) PROVE UNCHANGED store
  BY <1>4 DEF ClientStep, AdmitDispatch, AdmitReplay, Ingress, Dispatch, DispatchReplays, Status,
     Result, Query, Cancel, CancelRepeats, CancelUnreachable
<1>5. ASSUME World PROVE UNCHANGED store
  BY <1>5 DEF World, WorkerExits, WorkerEnds, WorkerReturns, ClaimExpires, HostDies, CrashHost, vars
<1>6. UNCHANGED allVars => UNCHANGED store
  BY DEF allVars, vars
<1> QED BY <1>2, <1>3, <1>4, <1>5, <1>6 DEF CompletionNext

(* A thread is on its way to create a record if it was, or if it has just  *)
(* found a place.                                                          *)
LEMMA CreatorsMove ==
    ASSUME Admitted, [CompletionNext]_allVars
    PROVE  /\ UNCHANGED scenario
           /\ \A c \in Thread : call'[c].pc = "create" =>
                 \/ call[c].pc = "create"
                 \/ "dispatch" \in scenario.ops[c] /\ ActiveCount < Limit /\ UNCHANGED store
<1>1. call \in [Thread -> CallState] /\ TypeOK
  BY DEF Admitted, CompletionInv, CompletionTypeOK, TypeOK
<1>2. UNCHANGED scenario
  BY SurroundingsStay
<1>3. ASSUME NEW c \in Thread, NEW out, Returns(c, out)
      PROVE  \A d \in Thread : call'[d].pc = "create" => call[d].pc = "create"
  BY <1>1, <1>3 DEF Returns, Idle
<1>4. ASSUME NEW c \in Thread, NEW next, Goes(c, next), next.pc # "create"
      PROVE  \A d \in Thread : call'[d].pc = "create" => call[d].pc = "create"
  BY <1>1, <1>4 DEF Goes
<1>5. ASSUME NEW op, NEW t, NEW a PROVE [Started(op, "answered", t) EXCEPT !.obs = a].pc # "create"
  BY DEF Started, Idle
<1>6. ASSUME NEW op, NEW t, NEW n PROVE [Started(op, "swap", t) EXCEPT !.want = n].pc # "create"
  BY DEF Started, Idle
<1>7. ASSUME NEW c \in Thread, ClientStep(c), ~ \E p : AdmitDispatch(c, p)
      PROVE  \A d \in Thread : call'[d].pc = "create" => call[d].pc = "create"
  <2>1. \/ \E out : Returns(c, out)
        \/ \E op, t, a : Goes(c, [Started(op, "answered", t) EXCEPT !.obs = a])
    BY <1>7 DEF ClientStep, AdmitReplay, DispatchReplays, Ingress, Status, Result, Query, Cancel,
       CancelRepeats, CancelUnreachable, CancelAnswered
  <2> QED BY <1>3, <1>4, <1>5, <2>1
<1>8. ASSUME NEW c \in Thread, NEW p, AdmitDispatch(c, p)
      PROVE  /\ "dispatch" \in scenario.ops[c] /\ ActiveCount < Limit /\ UNCHANGED store
             /\ \A d \in Thread \ {c} : call'[d] = call[d]
  BY <1>1, <1>8 DEF AdmitDispatch, Dispatch, CanCall, Goes
<1>9. ASSUME NEW c \in Thread, CallStep(c)
      PROVE  \A d \in Thread : call'[d].pc = "create" => call[d].pc = "create"
  <2>1. \A pc : [call[c] EXCEPT !.pc = pc].pc = pc
    BY <1>1 DEF CallState
  <2>2. \A n : [call[c] EXCEPT !.pc = "swap", !.want = n].pc = "swap"
    BY <1>1 DEF CallState
  <2>3. \/ \E out : Returns(c, out)
        \/ Goes(c, [call[c] EXCEPT !.pc = "launch"]) \/ Goes(c, [call[c] EXCEPT !.pc = "confirm"])
        \/ \E n : Goes(c, [call[c] EXCEPT !.pc = "swap", !.want = n])
    BY <1>9 DEF CallStep, DispatchStep, AnswerStep, CreatePrepared, CreateLost, CreateRaises,
       Launch, LaunchRaises, Confirm, ConfirmStale, AnswerRaises, AnswerKept, AnswerSwaps, Swap,
       SwapRaises
  <2> QED BY <1>3, <1>4, <2>1, <2>2, <2>3
<1>10. ASSUME NEW c \in Thread, RecoverStep(c) \/ DeliverStep(c)
       PROVE  \A d \in Thread : call'[d].pc = "create" => call[d].pc = "create"
  <2>1. \/ UNCHANGED call
        \/ PersistObserved(c) \/ AttachCard(c) \/ PersistTruth(c) \/ PersistFailure(c)
        \/ \E t \in Task : Reclaim(c, t) \/ DropExhausted(c, t) \/ Claim(c, t)
        \/ Settle(c)
    BY <1>10, PumpLeavesAlone
  <2>2. \/ UNCHANGED call
        \/ \E op, t, a : Goes(c, [Started(op, "answered", t) EXCEPT !.obs = a])
        \/ \E op, t, n : Goes(c, [Started(op, "swap", t) EXCEPT !.want = n])
    BY <2>1 DEF PersistObserved, AttachCard, PersistTruth, PersistFailure, PersistsTerminal,
       Reclaim, DropExhausted, Claim, Settle
  <2> QED BY <1>4, <1>5, <1>6, <2>2
<1>11. ASSUME World \/ UNCHANGED allVars
       PROVE  \A d \in Thread : call'[d].pc = "create" => call[d].pc = "create"
  BY <1>11 DEF World, WorkerExits, WorkerEnds, WorkerReturns, ClaimExpires, HostDies, CrashHost,
     Idle, allVars, vars
<1>12. ASSUME NEW c \in Thread, NEW p, AdmitDispatch(c, p)
       PROVE  \A d \in Thread : call'[d].pc = "create" =>
                 \/ call[d].pc = "create"
                 \/ "dispatch" \in scenario.ops[d] /\ ActiveCount < Limit /\ UNCHANGED store
  BY <1>8, <1>12
<1> QED BY <1>2, <1>7, <1>9, <1>10, <1>11, <1>12 DEF CompletionNext

-----------------------------------------------------------------------------
(* The inductive invariant.                                                *)

(* Pumps, too, tell of runs that are over.                                 *)
LEMMA AdmissionTells ==
    ASSUME Admitted, [CompletionNext]_allVars
    PROVE  TruthInv("over")' /\ \A c \in Thread : PumpTells(c)'
<1>1. RunsGoOn /\ DispatchInv /\ TruthInv("over")
  BY RunsGoOnHere DEF Admitted, CompletionInv, AdmissionInv
<1>2. TruthInv("over")'
  <2>1. CASE [Next]_vars
    BY <1>1, <2>1, NextKeepsTruth
  <2>2. ASSUME NEW c \in Thread, RecoverStep(c) \/ DeliverStep(c) PROVE TruthInv("over")'
    BY <1>1, <2>2, PumpTellsTruth
  <2> QED BY <2>1, <2>2, DispatcherStep
<1>3. ASSUME NEW c \in Thread, pump'[c] = pump[c] PROVE PumpTells(c)'
  <2>1. Observes(c)
    BY <1>1, <1>3, HandTold DEF Observes, SeenMoves
  <2> QED BY <1>1, <2>1, ObservesTells
<1>4. ASSUME NEW c \in Thread, RecoverStep(c) \/ DeliverStep(c) PROVE \A d \in Thread : PumpTells(d)'
  <2>1. PumpTells(c)' /\ \A d \in Thread \ {c} : pump'[d] = pump[d]
    BY <1>1, <1>4, PumpObserves, ObservesTells
  <2> QED BY <1>3, <2>1
<1>5. ASSUME NEW h \in Host, HostDies(h) PROVE \A d \in Thread : PumpTells(d)'
  <2>1. Rest.pc = "rest" /\ \A t \in Task : Rest.seen[t].state = "CREATED"
    BY DEF Rest, NothingSeen, NoRecord
  <2> HIDE DEF Rest
  <2>2. \A d \in Thread : pump'[d] = Rest \/ pump'[d] = pump[d]
    BY <1>5 DEF HostDies
  <2>3. ASSUME NEW d \in Thread, pump'[d] = Rest PROVE PumpTells(d)'
    <3>1. Observes(d)
      BY <2>1, <2>3 DEF Observes, SeenMoves, Observing
    <3> QED BY <1>1, <3>1, ObservesTells
  <2> QED BY <1>3, <2>2, <2>3
<1>6. CASE UNCHANGED pump
  BY <1>2, <1>3, <1>6
<1>7. ASSUME NEW c \in Thread, ClientStep(c) \/ CallStep(c) PROVE UNCHANGED pump
  BY <1>7 DEF ClientStep, CallStep, AdmitDispatch, AdmitReplay, Ingress, ownVars
<1>8. World => UNCHANGED pump \/ \E h \in Host : HostDies(h)
  BY DEF World, WorkerExits, WorkerReturns, ClaimExpires, ownVars
<1> QED BY <1>2, <1>4, <1>5, <1>6, <1>7, <1>8 DEF CompletionNext, allVars, ownVars

(* The places: a thread that creates a record takes the one it found.      *)
LEMMA PlacesKept ==
    ASSUME Admitted, [CompletionNext]_allVars
    PROVE  /\ IsFiniteSet(Counted)' /\ ActiveCount' <= Limit
           /\ \A c \in Thread : call'[c].pc = "create" =>
                 "dispatch" \in scenario'.ops[c] /\ ActiveCount' < Limit
<1>1. /\ IsFiniteSet(Counted) /\ ActiveCount <= Limit /\ Limit \in Nat
      /\ \A c \in Thread : call[c].pc = "create" =>
            "dispatch" \in scenario.ops[c] /\ ActiveCount < Limit
  BY CompletionAssumption DEF Admitted, AdmissionInv
<1>2. CASE ~ \E c \in Thread : CreatePrepared(c)
  <2>1. /\ IsFiniteSet(Counted)' /\ ActiveCount' <= ActiveCount
        /\ ActiveCount' \in Nat /\ ActiveCount \in Nat
    BY <1>2, RecordsMove, CountedFewer DEF Admitted
  <2> QED BY <1>1, <2>1, CreatorsMove
<1>3. ASSUME NEW c \in Thread, CreatePrepared(c)
      PROVE  /\ IsFiniteSet(Counted)' /\ ActiveCount' <= Limit
             /\ \A d \in Thread : call'[d].pc # "create"
  <2> DEFINE t == call[c].task
  <2>1. /\ store \in [Task -> Record] /\ call \in [Thread -> CallState]
        /\ call[c].pc = "create" /\ scenario \in Scenarios
    BY <1>3 DEF CreatePrepared, Admitted, CompletionInv, CompletionTypeOK, TypeOK
  <2>2. Counted' \subseteq Counted \cup {t}
    <3>1. \A u \in Task : u # t => store'[u] = store[u]
      BY <1>3, <2>1 DEF CreatePrepared, SwapsAndHolds
    <3> QED BY <3>1 DEF Counted, CountsActive
  <2>3. /\ IsFiniteSet(Counted \cup {t})
        /\ Cardinality(Counted \cup {t}) \in {Cardinality(Counted), Cardinality(Counted) + 1}
    BY <1>1, FS_AddElement
  <2>4. /\ IsFiniteSet(Counted') /\ Cardinality(Counted') <= Cardinality(Counted \cup {t})
        /\ Cardinality(Counted') \in Nat /\ Cardinality(Counted) \in Nat
    BY <1>1, <2>2, <2>3, FS_Subset, FS_CardinalityType
  <2>5. IsFiniteSet(Counted)' /\ ActiveCount' <= Limit
    BY <1>1, <2>1, <2>3, <2>4 DEF ActiveCount
  <2>6. call'[c].pc = "launch" /\ \A d \in Thread \ {c} : call'[d] = call[d]
    BY <1>3, <2>1 DEF CreatePrepared, Goes, CallState
  <2>7. \A d \in Thread : call[d].pc = "create" => d = c
    BY <1>1, <2>1 DEF Admitted, OneAdmits
  <2> QED BY <2>5, <2>6, <2>7
<1> QED BY <1>2, <1>3

(* Every step keeps AdmissionInv.                                          *)
LEMMA AdmissionStepKeeps ==
    ASSUME Admitted, [CompletionNext]_allVars PROVE AdmissionInv'
  BY AdmissionTells, PlacesKept DEF AdmissionInv

(* It holds at the start.                                                  *)
LEMMA AdmissionStart == CompletionInit => AdmissionInv
<1> SUFFICES ASSUME CompletionInit PROVE AdmissionInv
  OBVIOUS
<1>1. /\ NoRecord.state \notin Terminal /\ NoRecord.phase = "ABSENT"
      /\ NoRoute \notin Terminal /\ None \notin Terminal
  BY DispatcherAssumption DEF NoRecord, NoRoute, Terminal, TaskState
<1>2. Idle("none").pc = "idle" /\ Rest.pc = "rest" /\ \A t \in Task : Rest.seen[t] = NoRecord
  BY DEF Idle, Rest, NothingSeen
<1> HIDE DEF NoRecord
<1>3. TruthInv("over")
  BY <1>1, <1>2 DEF CompletionInit, Init, TruthInv, Tells
<1>4. \A c \in Thread : PumpTells(c)
  <2>1. \A c \in Thread : pump[c] = Rest
    BY DEF CompletionInit
  <2> HIDE DEF Rest
  <2> QED BY <1>1, <1>2, <2>1 DEF PumpTells, Tells
<1>5. Counted = {} /\ IsFiniteSet(Counted) /\ ActiveCount = 0
  <2>1. Counted = {}
    BY <1>1 DEF CompletionInit, Init, Counted, CountsActive
  <2> QED BY <2>1, FS_EmptySet DEF ActiveCount
<1>6. \A c \in Thread : call[c].pc = "idle"
  BY <1>2 DEF CompletionInit, Init
<1> QED BY <1>3, <1>4, <1>5, <1>6, CompletionAssumption DEF AdmissionInv

(* Where one thread admits, a dispatch never finds more records counted    *)
(* than the bound allows, and none of them stops counting before its run   *)
(* is over.                                                                *)
THEOREM AdmissionIsSound ==
    ASSUME OneAdmits PROVE CompletionSpec => []AdmissionInv
<1>1. CompletionInv /\ AdmissionInv /\ [CompletionNext]_allVars => AdmissionInv'
  BY AdmissionStepKeeps DEF Admitted
<1> QED BY <1>1, AdmissionStart, CompletionIsSafe, PTL DEF CompletionSpec

(* So no more workers run than were admitted for (completion.py,           *)
(* admit_dispatch and _active_count): not through a crash between create   *)
(* and launch, a lost answer, a record taken for a crash's while its       *)
(* dispatch is in flight, or a status that was stored late.                *)
THEOREM WorkersAreBounded ==
    ASSUME OneAdmits PROVE CompletionSpec => []NoOversubscription
<1>1. CompletionInv /\ AdmissionInv => NoOversubscription
  <2> SUFFICES ASSUME CompletionInv, AdmissionInv PROVE NoOversubscription
    OBVIOUS
  <2> DEFINE R == {t \in Task : run[t] = "RUNNING"}
  <2>1. R \subseteq Counted
    <3>1. \A t \in R : store[t].phase # "ABSENT"
      BY DEF CompletionInv, DispatchInv, RecordInv
    <3>2. \A t \in R : store[t].state \notin Terminal
      BY DEF AdmissionInv, TruthInv, Tells
    <3> QED BY <3>1, <3>2 DEF Counted, CountsActive
  <2>2. Cardinality(R) <= Cardinality(Counted) /\ Cardinality(R) \in Nat /\ Cardinality(Counted) \in Nat
    BY <2>1, FS_Subset, FS_CardinalityType DEF AdmissionInv
  <2>3. Cardinality(Counted) <= Limit /\ Limit \in Nat
    BY CompletionAssumption DEF AdmissionInv, ActiveCount
  <2>4. Cardinality(R) <= Limit
    BY <2>2, <2>3
  <2> QED BY <2>4 DEF NoOversubscription
<1> QED BY <1>1, AdmissionIsSound, CompletionIsSafe, PTL

-----------------------------------------------------------------------------
(* Where the sessions only dispatch: a success on record is proven.        *)
(* ProvenInv is inductive beside CompletionInv: a step keeps what no one   *)
(* takes back (Stands), leaves the other threads what they have in hand    *)
(* (Frame, RouteMoves and OthersProven) and gives the thread that moves a  *)
(* hand that is proven (HandProven, CallProven); and where one thread runs *)
(* the passes, a failure in a route of its host is stored or will be       *)
(* (LandStays).                                                            *)

(* What holds before every step, where the sessions only dispatch.         *)
Dispatching == LonePump /\ SessionsOnlyDispatch /\ CompletionInv /\ ProvenInv

-----------------------------------------------------------------------------
(* What no step takes back.                                                *)

(* Outcomes, confirmations, returns and the ends of runs stand.            *)
Stands ==
    /\ UNCHANGED scenario /\ RunsGoOn
    /\ \A t \in Task :
          /\ store[t].state \in Terminal => store'[t].state = store[t].state
          /\ store[t].phase = "DISPATCHED" => store'[t].phase = "DISPATCHED"
          /\ ret[t] = "completed" => ret'[t] = "completed"

(* Every step keeps them.                                                  *)
LEMMA StepStands == ASSUME CompletionInv, [CompletionNext]_allVars PROVE Stands
<1>1. UNCHANGED scenario /\ RunsGoOn
  BY SurroundingsStay, RunsGoOnHere
<1>2. ASSUME NEW t \in Task
      PROVE  /\ store[t].state \in Terminal => store'[t].state = store[t].state
             /\ store[t].phase = "DISPATCHED" => store'[t].phase = "DISPATCHED"
  <2>1. CASE store'[t] = store[t] \/ MayUpdate(store[t], store'[t])
    BY <2>1 DEF MayUpdate, PhaseMoves, StateSticks
  <2>2. ASSUME NEW c \in Thread, CreatePrepared(c)
        PROVE  store'[t] = store[t] \/ store[t] = NoRecord
    <3>1. /\ store \in [Task -> Record]
          /\ \A u \in Task : store[u].phase = "ABSENT" => store[u] = NoRecord
          /\ call[c].pkg.task = call[c].task
      BY <2>2 DEF CompletionInv, DispatchInv, TypeOK, RecordInv, CallInv, CallOk, CreatePrepared
    <3> QED BY <2>2, <3>1 DEF CreatePrepared, CreateAllowed, SwapsAndHolds
  <2>3. NoRecord.state \notin Terminal /\ NoRecord.phase = "ABSENT"
    BY DEF NoRecord, Terminal
  <2> QED BY <2>1, <2>2, <2>3, RecordsMove
<1>3. \A t \in Task : ret[t] = "completed" => ret'[t] = "completed"
  <2>1. \/ UNCHANGED ret \/ \E t \in Task : \E s : WorkerReturns(t, s)
    <3>1. ASSUME NEW c \in Thread, ClientStep(c) \/ CallStep(c) PROVE UNCHANGED ret
      BY <3>1 DEF ClientStep, CallStep, AdmitDispatch, AdmitReplay, Ingress, ownVars
    <3>2. ASSUME NEW c \in Thread, RecoverStep(c) PROVE UNCHANGED ret
      BY <3>2 DEF RecoverStep, BeginPass, ListClaims, RecoveryEnds, AskResult, PersistObserved,
         PersistNothing, Ignored, Gate, PersistTruth, PersistFailure, FailureTooLate, Persisted,
         AttachCard, AlreadyCarded, RecoverPrepared, RecoverObserve, EnsureCard, Reclaim, LeaveClaim
    <3>3. ASSUME NEW c \in Thread, DeliverStep(c) PROVE UNCHANGED ret
      BY <3>3 DEF DeliverStep, Scan, NoOrigin, Reaches, Misses, SessionGone, Sends, Settle,
         SettleRaceLost, PassEnds, NotDurableYet, DropExhausted, Claim, ClaimRaceLost
    <3>4. World => UNCHANGED ret \/ \E t \in Task : \E s : WorkerReturns(t, s)
      BY DEF World, WorkerExits, ClaimExpires, HostDies, ownVars
    <3> QED BY <3>1, <3>2, <3>3, <3>4 DEF CompletionNext, allVars, ownVars
  <2>2. ASSUME NEW u \in Task, NEW s, WorkerReturns(u, s)
        PROVE  \A t \in Task : ret[t] = "completed" => ret'[t] = "completed"
    BY <2>2 DEF WorkerReturns, CompletionInv, CompletionTypeOK
  <2> QED BY <2>1, <2>2
<1> QED BY <1>1, <1>2, <1>3 DEF Stands

(* A failure in a route that a pump counts on is not taken back.           *)
RoutesStand(d) ==
    d \in scenario.pumps /\ scenario.pumps # {d} =>
       \A t \in Task : route[HostOf[d]][t] \in NotSuccess =>
                          route'[HostOf[d]][t] = route[HostOf[d]][t]

(* What is beaten stays so.                                                *)
LEMMA BeatenStays ==
    ASSUME Stands, NEW d \in Thread, NEW t \in Task, d \in scenario.pumps, RoutesStand(d),
           Beaten(d, t)
    PROVE  Beaten(d, t)'
  BY DEF Stands, RoutesStand, Beaten, HostOf

(* A run that failed stays so.                                             *)
LEMMA FailedStays ==
    ASSUME Stands, NEW t \in Task, run[t] \in NotSuccess PROVE run'[t] \in NotSuccess
  BY DEF Stands, RunsGoOn, NotSuccess, Terminal

(* A thread that does not move has in hand what it had.                    *)
LEMMA OtherProven ==
    ASSUME Dispatching, Stands, NEW d \in Thread, RoutesStand(d),
           pump'[d] = pump[d], call'[d] = call[d], fresh'[d] \subseteq fresh[d],
           \A t \in Task \cap fresh'[d] : store'[t] = store[t]
    PROVE  CallProven(d)' /\ PumpProven(d)'
<1>1. CallProven(d) /\ PumpProven(d) /\ UNCHANGED scenario
  BY DEF Dispatching, ProvenInv, Stands
<1>2. CallProven(d)'
  <2>1. call[d].pc # "idle" => call[d].task \in Task
    BY DEF Dispatching, CompletionInv, DispatchInv, CallInv, CallOk
  <2>2. \A t \in Task : d \in scenario.pumps /\ Beaten(d, t) => Beaten(d, t)'
    BY BeatenStays
  <2>3. call[d].pc = "answered" /\ Beaten(d, call[d].task) => Beaten(d, call[d].task)'
    BY <1>1, <2>1, <2>2 DEF CallProven, Beaten
  <2>4. call[d].pc = "answered" => store'[call[d].task].phase = "DISPATCHED"
    BY <1>1, <2>1 DEF CallProven, Stands
  <2>5. call[d].pc \in {"answered", "swap"} /\ ret[call[d].task] = "completed" => ret'[call[d].task] = "completed"
    BY <2>1 DEF Stands
  <2>6. call[d].pc \in {"launch", "confirm"} /\ call[d].task \in fresh'[d] =>
           store'[call[d].task].phase = "PREPARED"
    BY <1>1, <2>1 DEF CallProven
  <2> QED BY <1>1, <2>1, <2>3, <2>4, <2>5, <2>6 DEF CallProven, Whole
<1>3. PumpProven(d)'
  <2> DEFINE u == pump[d].task
  <2>1. pump[d].pc \in {"ask", "gate", "fail", "persist"} => u \in Task
    BY PumpTypes DEF Dispatching, NoTaskAt
  <2>2. /\ pump[d].pc \in {"ask", "gate", "fail", "persist"} => store'[u].phase = "DISPATCHED"
        /\ pump[d].pc = "persist" /\ pump[d].obs = "COMPLETED" => ret'[u] = "completed"
    BY <1>1, <2>1 DEF PumpProven, Stands
  <2>3. \A t \in Task : d \in scenario.pumps /\ Beaten(d, t) => Beaten(d, t)'
    BY BeatenStays
  <2>4. pump[d].pc \in {"gate", "persist"} /\ ~pump[d].auth /\ pump[d].obs # "COMPLETED" =>
           run'[u] \in NotSuccess \/ Beaten(d, u)'
    <3>1. pump[d].pc # "rest" => d \in scenario.pumps
      BY <1>1 DEF PumpProven
    <3>2. run[u] \in NotSuccess /\ u \in Task => run'[u] \in NotSuccess
      BY FailedStays
    <3>3. pump[d].pc \in {"gate", "persist"} /\ ~pump[d].auth /\ pump[d].obs # "COMPLETED" =>
             run[u] \in NotSuccess \/ Beaten(d, u)
      BY <1>1 DEF PumpProven
    <3>4. pump[d].pc # "rest" /\ u \in Task /\ Beaten(d, u) => Beaten(d, u)'
      BY <2>3, <3>1 DEF Beaten
    <3> QED BY <2>1, <3>2, <3>3, <3>4
  <2>5. \A t \in Task : /\ Whole(pump[d].seen[t])
                        /\ pump[d].seen[t].phase = "DISPATCHED" => store'[t].phase = "DISPATCHED"
    BY <1>1 DEF PumpProven, Stands
  <2> QED BY <1>1, <2>2, <2>4, <2>5 DEF PumpProven, Whole
<1> QED BY <1>2, <1>3

-----------------------------------------------------------------------------
(* The threads that do not move, and the records they hold.                *)

(* A step of c: it stores at most one record, as a pump or in a dispatch   *)
(* that is not confirmed, and the others lose their hold of that record.   *)
Frame(c) ==
    /\ \A d \in Thread \ {c} : pump'[d] = pump[d] /\ call'[d] = call[d]
    /\ \/ UNCHANGED store /\ \A d \in Thread \ {c} : fresh'[d] = fresh[d]
       \/ \E u \in Task :
             /\ c \in scenario.pumps \/ store[u].phase # "DISPATCHED"
             /\ \A t \in Task \ {u} : store'[t] = store[t]
             /\ \A d \in Thread \ {c} : fresh'[d] = fresh[d] \ {u}

(* The types the frames rest on.                                           *)
LEMMA FrameTypes ==
    ASSUME Dispatching
    PROVE  /\ call \in [Thread -> CallState] /\ pump \in [Thread -> PumpState]
           /\ fresh \in [Thread -> SUBSET Task] /\ store \in [Task -> Record]
           /\ route \in [Host -> [Task -> TaskState \cup {NoRoute}]]
           /\ scenario \in Scenarios
  BY DEF Dispatching, CompletionInv, CompletionTypeOK, TypeOK

(* A swap of t by c.                                                       *)
LEMMA SwapFrames ==
    ASSUME Dispatching, NEW c \in Thread, NEW t \in Task, NEW n,
           Swaps(t, n) \/ SwapsAndHolds(c, t, n),
           c \in scenario.pumps \/ store[t].phase # "DISPATCHED",
           \A d \in Thread \ {c} : pump'[d] = pump[d] /\ call'[d] = call[d]
    PROVE  Frame(c)
<1>1. \A u \in Task \ {t} : store'[u] = store[u]
  BY DEF Swaps, SwapsAndHolds, Dispatching, CompletionInv, CompletionTypeOK, TypeOK
<1>2. \A d \in Thread \ {c} : fresh'[d] = fresh[d] \ {t}
  BY DEF Swaps, SwapsAndHolds
<1> QED BY <1>1, <1>2 DEF Frame

(* Every step of a thread's call ...                                       *)
LEMMA CallFrames ==
    ASSUME Dispatching, NEW c \in Thread, CallStep(c) PROVE Frame(c)
<1>1. UNCHANGED pump
  BY DEF CallStep, ownVars
<1>2. \A d \in Thread \ {c} : call'[d] = call[d]
  <2>1. UNCHANGED call \/ \E n : Goes(c, n)
    BY DEF CallStep, DispatchStep, AnswerStep, CreatePrepared, CreateLost, CreateRaises, Launch,
       LaunchRaises, Confirm, ConfirmStale, AnswerRaises, AnswerKept, AnswerSwaps, Swap, SwapRaises,
       Returns, Goes
  <2> QED BY <2>1, FrameTypes DEF Goes
<1>3. CallProven(c) /\ CallOk(c)
  BY DEF Dispatching, ProvenInv, CompletionInv, DispatchInv, CallInv
<1>4. CASE CreatePrepared(c)
  <2>1. call[c].task \in Task /\ store[call[c].task].phase # "DISPATCHED"
    BY <1>3, <1>4 DEF CreatePrepared, CreateAllowed, CallOk
  <2> QED BY <1>1, <1>2, <1>4, <2>1, SwapFrames DEF CreatePrepared
<1>5. CASE Confirm(c)
  <2>1. call[c].task \in Task /\ store[call[c].task].phase # "DISPATCHED"
    BY <1>3, <1>5 DEF Confirm, Swappable, CallOk, CallProven
  <2> QED BY <1>1, <1>2, <1>5, <2>1, SwapFrames DEF Confirm
<1>6. CASE Swap(c)
  <2>1. call[c].task \in Task /\ c \in scenario.pumps
    BY <1>3, <1>6 DEF Swap, CallOk, CallProven
  <2> QED BY <1>1, <1>2, <1>6, <2>1, SwapFrames DEF Swap
<1>7. CASE ~CreatePrepared(c) /\ ~Confirm(c) /\ ~Swap(c)
  <2>1. UNCHANGED store /\ \A d \in Thread \ {c} : fresh'[d] = fresh[d]
    BY <1>7, FrameTypes DEF CallStep, DispatchStep, AnswerStep, CreateLost, CreateRaises, Launch,
       LaunchRaises, ConfirmStale, AnswerRaises, AnswerKept, AnswerSwaps, SwapRaises, Reads
  <2> QED BY <1>1, <1>2, <2>1 DEF Frame
<1> QED BY <1>4, <1>5, <1>6, <1>7

(* ... every call a session makes ...                                      *)
LEMMA ClientFrames ==
    ASSUME Dispatching, NEW c \in Thread, ClientStep(c)
    PROVE  /\ Frame(c) /\ UNCHANGED store /\ UNCHANGED <<pump, run, ret, fresh>>
           /\ \E p \in scenario.packages : AdmitDispatch(c, p) \/ AdmitReplay(c, p)
<1>1. \A t : ~Ingress(c, t)
  BY DEF Dispatching, SessionsOnlyDispatch, Ingress, Status, Result, Query, Cancel, CancelRepeats,
     CancelUnreachable, CancelAsks, CanCall
<1>2. \E p \in scenario.packages : AdmitDispatch(c, p) \/ AdmitReplay(c, p)
  BY <1>1 DEF ClientStep
<1>3. /\ UNCHANGED <<store, fresh, pump, run, ret>>
      /\ \A d \in Thread \ {c} : call'[d] = call[d]
  BY <1>2, FrameTypes DEF AdmitDispatch, AdmitReplay, Dispatch, DispatchReplays, Returns, Goes, ownVars
<1> QED BY <1>2, <1>3 DEF Frame

(* ... and every step of its pump.                                         *)
LEMMA PumpFrames ==
    ASSUME Dispatching, NEW c \in Thread, RecoverStep(c) \/ DeliverStep(c) PROVE Frame(c)
<1>1. \A d \in Thread \ {c} : pump'[d] = pump[d]
  <2>1. \E p : PumpTo(c, p)
    BY DEF RecoverStep, BeginPass, ListClaims, RecoveryEnds, AskResult, PersistObserved,
       PersistNothing, Ignored, Gate, PersistTruth, PersistFailure, FailureTooLate, Persisted,
       AttachCard, AlreadyCarded, RecoverPrepared, RecoverObserve, EnsureCard, Reclaim, LeaveClaim,
       DeliverStep, Scan, NoOrigin, Reaches, Misses, SessionGone, Sends, Settle,
       SettleRaceLost, PassEnds, NotDurableYet, DropExhausted, Claim, ClaimRaceLost,
       Skips, Holding, Forward
  <2> QED BY <2>1, FrameTypes DEF PumpTo
<1>2. \A d \in Thread \ {c} : call'[d] = call[d]
  <2>1. UNCHANGED call \/ \E n : Goes(c, n)
    BY PumpLeavesAlone DEF PersistObserved, AttachCard, PersistTruth, PersistFailure,
       PersistsTerminal, Reclaim, DropExhausted, Claim, Settle
  <2> QED BY <2>1, FrameTypes DEF Goes
<1>3. CASE \/ \E t \in Task : Reclaim(c, t) \/ DropExhausted(c, t) \/ Claim(c, t)
           \/ Settle(c)
  <2>1. c \in scenario.pumps
    BY <1>3 DEF Dispatching, ProvenInv, PumpProven, Reclaim, DropExhausted, Claim, Settle,
       DeliverTurn, At
  <2>2. Settle(c) => pump[c].task \in Task
    BY PumpTypes DEF Settle, At, NoTaskAt, Dispatching
  <2>3. \E t \in Task : \E n : Swaps(t, n) \/ SwapsAndHolds(c, t, n)
    BY <1>3, <2>2 DEF Reclaim, DropExhausted, Claim, Settle
  <2> QED BY <1>1, <1>2, <2>1, <2>3, SwapFrames
<1>4. CASE ~ \/ \E t \in Task : Reclaim(c, t) \/ DropExhausted(c, t) \/ Claim(c, t)
             \/ Settle(c)
  <2>1. UNCHANGED store
    BY <1>4, PumpLeavesAlone DEF PersistObserved, AttachCard, PersistTruth, PersistFailure
  <2>2. \A d \in Thread \ {c} : fresh'[d] = fresh[d]
    BY <1>4, FrameTypes DEF RecoverStep, BeginPass, ListClaims, RecoveryEnds, AskResult, PersistObserved,
       PersistNothing, Ignored, Gate, PersistTruth, PersistFailure, FailureTooLate, Persisted,
       AttachCard, AlreadyCarded, RecoverPrepared, RecoverObserve, EnsureCard, LeaveClaim,
       DeliverStep, Scan, NoOrigin, Reaches, Misses, SessionGone, Sends,
       SettleRaceLost, PassEnds, NotDurableYet, ClaimRaceLost, Reads, vars
  <2> QED BY <1>1, <1>2, <2>1, <2>2 DEF Frame
<1> QED BY <1>3, <1>4

-----------------------------------------------------------------------------
(* The routes.                                                             *)

(* A step of c keeps terminal routes, or is a dispatch on c's host.        *)
RoutesKeep ==
    \A h \in Host, t \in Task : route[h][t] \in Terminal => route'[h][t] = route[h][t]

RouteMoves(c) ==
    \/ RoutesKeep
    \/ /\ "dispatch" \in scenario.ops[c]
       /\ \A h \in Host \ {HostOf[c]} : route'[h] = route[h]

(* A failure comes into a route from the record alone.                     *)
RoutesFrom ==
    \A h \in Host, t \in Task : route'[h][t] \in NotSuccess =>
        route[h][t] \in NotSuccess \/ store[t].state \in Terminal

(* A route that is looked up is kept, or taken from the record.            *)
LEMMA RehydrateRoutes ==
    ASSUME Dispatching, NEW c \in Thread, NEW t \in Task,
           UNCHANGED route \/ Rehydrates(HostOf[c], t)
    PROVE  RoutesKeep /\ RoutesFrom
<1>1. CASE UNCHANGED route
  BY <1>1 DEF RoutesKeep, RoutesFrom
<1>2. CASE Rehydrates(HostOf[c], t)
  <2>1. TypeOK /\ HostOf[c] \in Host /\ Known(HostOf[c], t) \in TaskState
    BY ScenarioTypes, KnownTypes DEF Dispatching, CompletionInv, CompletionTypeOK
  <2>2. \A h \in Host, u \in Task :
           route'[h][u] = IF h = HostOf[c] /\ u = t THEN Known(HostOf[c], t) ELSE route[h][u]
    BY <1>2, <2>1, Routed DEF Rehydrates
  <2>3. /\ route[HostOf[c]][t] \in Terminal => Known(HostOf[c], t) = route[HostOf[c]][t]
        /\ Known(HostOf[c], t) \in {route[HostOf[c]][t], store[t].state}
    BY DEF Known, NoRoute, Terminal
  <2>4. RoutesKeep
    BY <2>1, <2>2, <2>3 DEF RoutesKeep
  <2>5. RoutesFrom
    BY <2>1, <2>2, <2>3 DEF RoutesFrom, NotSuccess
  <2> QED BY <2>4, <2>5
<1> QED BY <1>1, <1>2

(* A replay takes it from the record, whatever the route was.              *)
LEMMA ReplayRoutes ==
    ASSUME Dispatching, NEW c \in Thread, NEW p, ReplaysFromDurable(c, p),
           "dispatch" \in scenario.ops[c]
    PROVE  RouteMoves(c) /\ RoutesFrom
<1>1. PICK t \in Task : route' = [route EXCEPT ![HostOf[c]][t] = store[t].state]
  BY DEF ReplaysFromDurable, Owner
<1>2. TypeOK /\ HostOf[c] \in Host /\ store[t].state \in TaskState
  BY ScenarioTypes DEF Dispatching, CompletionInv, CompletionTypeOK, TypeOK, Record
<1>3. \A h \in Host, u \in Task :
         route'[h][u] = IF h = HostOf[c] /\ u = t THEN store[t].state ELSE route[h][u]
  BY <1>1, <1>2, Routed
<1>4. \A h \in Host \ {HostOf[c]} : route'[h] = route[h]
  BY <1>1, FrameTypes
<1>5. RoutesFrom
  BY <1>2, <1>3 DEF RoutesFrom, NotSuccess
<1> QED BY <1>4, <1>5 DEF RouteMoves

(* An answer that is kept does not contradict the route.                   *)
LEMMA KeptRoutes ==
    ASSUME Dispatching, NEW c \in Thread, KeepsAnswer(c)
    PROVE  /\ RoutesKeep /\ call[c].task \in Task /\ HostOf[c] \in Host
           /\ Answer(c) = call[c].obs /\ call[c].op \in {"persist", "result"}
           /\ route[HostOf[c]][call[c].task] \in Terminal =>
                 Answer(c) = route[HostOf[c]][call[c].task]
           /\ \A h \in Host, u \in Task :
                 route'[h][u] = IF h = HostOf[c] /\ u = call[c].task THEN Answer(c) ELSE route[h][u]
<1> DEFINE t == call[c].task
<1>1. /\ DispatchInv /\ TypeOK /\ HostOf[c] \in Host /\ t \in Task /\ Answer(c) \in TaskState
      /\ call[c].pc = "answered"
  BY ScenarioTypes, KeptAnswer DEF Dispatching, CompletionInv, CompletionTypeOK, KeepsAnswer
<1>2. call[c].op \in {"persist", "result"}
  BY <1>1 DEF Dispatching, ProvenInv, CallProven
<1>3. Answer(c) = call[c].obs
  BY <1>2 DEF Answer, Observed
<1>4. route[HostOf[c]][t] \in Terminal => Answer(c) = route[HostOf[c]][t]
  BY <1>2 DEF KeepsAnswer, Refused, Contradicts
<1>5. \A h \in Host, u \in Task :
         route'[h][u] = IF h = HostOf[c] /\ u = t THEN Answer(c) ELSE route[h][u]
  BY <1>1, Routed DEF KeepsAnswer
<1> QED BY <1>1, <1>2, <1>3, <1>4, <1>5 DEF RoutesKeep

(* The routes after a step of a pump ...                                   *)
LEMMA PumpRoutes ==
    ASSUME Dispatching, NEW c \in Thread, RecoverStep(c) \/ DeliverStep(c)
    PROVE  RoutesKeep /\ RoutesFrom
<1>1. \/ UNCHANGED route
      \/ \E t \in Task : RecoverObserve(c, t)
      \/ PersistTruth(c) \/ PersistFailure(c)
  BY PumpLeavesAlone DEF PersistObserved, AttachCard, Reclaim, DropExhausted, Claim, Settle, hostVars
<1>2. PersistTruth(c) \/ PersistFailure(c) => pump[c].task \in Task
  BY PumpTypes DEF PersistTruth, PersistFailure, At, NoTaskAt, Dispatching
<1>3. \/ UNCHANGED route
      \/ \E t \in Task : UNCHANGED route \/ Rehydrates(HostOf[c], t)
  BY <1>1, <1>2 DEF RecoverObserve, PersistTruth, PersistFailure
<1> QED BY <1>3, RehydrateRoutes DEF RoutesKeep, RoutesFrom

(* ... of a session ...                                                    *)
LEMMA ClientRoutes ==
    ASSUME Dispatching, NEW c \in Thread, ClientStep(c) PROVE RouteMoves(c) /\ RoutesFrom
<1>1. PICK p : AdmitDispatch(c, p) \/ AdmitReplay(c, p)
  BY ClientFrames
<1>2. UNCHANGED route \/ (ReplaysFromDurable(c, p) /\ "dispatch" \in scenario.ops[c])
  BY <1>1 DEF AdmitDispatch, AdmitReplay, Dispatch, DispatchReplays, CanCall
<1> QED BY <1>2, ReplayRoutes DEF RouteMoves, RoutesKeep, RoutesFrom

(* ... and of a call.                                                      *)
LEMMA CallRoutes ==
    ASSUME Dispatching, NEW c \in Thread, CallStep(c)
    PROVE  /\ RouteMoves(c)
           /\ RoutesFrom \/ AnswerKept(c) \/ AnswerSwaps(c)
<1>1. CallProven(c) /\ CallOk(c)
  BY DEF Dispatching, ProvenInv, CompletionInv, DispatchInv, CallInv
<1>2. CASE AnswerKept(c) \/ AnswerSwaps(c)
  BY <1>2, KeptRoutes DEF AnswerKept, AnswerSwaps, RouteMoves
<1>3. CASE CreateLost(c)
  BY <1>1, <1>3, ReplayRoutes DEF CreateLost, CallProven
<1>4. CASE Launch(c)
  <2>1. /\ "dispatch" \in scenario.ops[c] /\ call[c].task \in Task /\ HostOf[c] \in Host
        /\ "RUNNING" \in TaskState /\ TypeOK
    BY <1>1, <1>4, ScenarioTypes DEF Launch, CallProven, CallOk, TaskState, Active, Dispatching,
       CompletionInv, CompletionTypeOK
  <2>2. /\ \A h \in Host, u \in Task :
              route'[h][u] = IF h = HostOf[c] /\ u = call[c].task THEN "RUNNING" ELSE route[h][u]
        /\ \A h \in Host \ {HostOf[c]} : route'[h] = route[h]
    BY <1>4, <2>1, Routed, FrameTypes DEF Launch
  <2> QED BY <2>1, <2>2 DEF RouteMoves, RoutesFrom, NotSuccess, Terminal
<1>5. CASE UNCHANGED route
  BY <1>5 DEF RouteMoves, RoutesKeep, RoutesFrom
<1> QED BY <1>2, <1>3, <1>4, <1>5 DEF CallStep, DispatchStep, AnswerStep, CreatePrepared,
     CreateRaises, LaunchRaises, Confirm, ConfirmStale, AnswerRaises, Swap, SwapRaises

(* The routes a pump of another thread counts on stand.                    *)
LEMMA OtherRoutes ==
    ASSUME Dispatching, NEW c \in Thread, RouteMoves(c), NEW d \in Thread \ {c}
    PROVE  RoutesStand(d)
<1> SUFFICES ASSUME d \in scenario.pumps, scenario.pumps # {d}, NEW t \in Task,
                    route[HostOf[d]][t] \in NotSuccess
             PROVE  route'[HostOf[d]][t] = route[HostOf[d]][t]
  BY DEF RoutesStand
<1>1. HostOf[d] \in Host /\ scenario \in Scenarios
  BY ScenarioTypes DEF Dispatching, CompletionInv, CompletionTypeOK, TypeOK
<1>2. "dispatch" \in scenario.ops[c] => HostOf[c] # HostOf[d]
  BY <1>1 DEF Dispatching, LonePump, HostOf
<1> QED BY <1>1, <1>2 DEF RouteMoves, RoutesKeep, NotSuccess

(* So a thread that does not move has in hand what it had.                 *)
LEMMA OthersProven ==
    ASSUME Dispatching, Stands, NEW c \in Thread, Frame(c), RouteMoves(c)
    PROVE  \A d \in Thread \ {c} : CallProven(d)' /\ PumpProven(d)'
<1> SUFFICES ASSUME NEW d \in Thread \ {c} PROVE CallProven(d)' /\ PumpProven(d)'
  OBVIOUS
<1>1. /\ pump'[d] = pump[d] /\ call'[d] = call[d] /\ fresh'[d] \subseteq fresh[d]
      /\ \A t \in Task \cap fresh'[d] : store'[t] = store[t]
  <2>1. CASE UNCHANGED store /\ fresh'[d] = fresh[d]
    BY <2>1 DEF Frame
  <2>2. ASSUME NEW u \in Task, \A t \in Task \ {u} : store'[t] = store[t], fresh'[d] = fresh[d] \ {u}
        PROVE  fresh'[d] \subseteq fresh[d] /\ \A t \in Task \cap fresh'[d] : store'[t] = store[t]
    BY <2>2
  <2> QED BY <2>1, <2>2 DEF Frame
<1> QED BY <1>1, OtherRoutes, OtherProven

-----------------------------------------------------------------------------
(* What a pump has in hand after a step of its own.                        *)

(* What it saw is what it had seen, what is stored, or nothing.            *)
SeenFrom(c) ==
    \A t \in Task : pump'[c].seen[t] \in {pump[c].seen[t], store[t], store'[t], NoRecord}

(* A success in hand at the end of a pass is proven, a failure of it is of *)
(* a run that failed, or beaten.                                           *)
HandProven(c) ==
    LET u == pump'[c].task IN
    /\ pump'[c].pc = "observed" => pump'[c].obs \notin Terminal
    /\ pump'[c].pc \in {"ask", "gate", "fail", "persist"} =>
          u \in Task /\ store[u].phase = "DISPATCHED"
    /\ pump'[c].pc = "persist" /\ pump'[c].obs = "COMPLETED" => ret[u] = "completed"
    /\ pump'[c].pc \in {"gate", "persist"} /\ ~pump'[c].auth /\ pump'[c].obs # "COMPLETED" =>
          \E t \in Task : t = u /\ (run[t] \in NotSuccess \/ Beaten(c, t) \/ Beaten(c, t)')

(* With that, the pump goes on proven.                                     *)
LEMMA HandsProven ==
    ASSUME Dispatching, Stands, NEW c \in Thread, c \in scenario.pumps, RoutesKeep,
           SeenFrom(c), HandProven(c), \A t \in Task : Whole(store'[t])
    PROVE  PumpProven(c)'
<1> DEFINE u == pump'[c].task
<1>1. PumpProven(c) /\ UNCHANGED scenario /\ \A t \in Task : Whole(store[t])
  BY DEF Dispatching, ProvenInv, Stands
<1>2. \A t \in Task : /\ Whole(pump'[c].seen[t])
                      /\ pump'[c].seen[t].phase = "DISPATCHED" => store'[t].phase = "DISPATCHED"
  <2>1. Whole(NoRecord) /\ NoRecord.phase # "DISPATCHED"
    BY DEF Whole, NoRecord, Terminal
  <2> HIDE DEF NoRecord, Whole
  <2> QED BY <1>1, <2>1 DEF PumpProven, SeenFrom, Stands
<1>3. /\ pump'[c].pc \in {"ask", "gate", "fail", "persist"} => store'[u].phase = "DISPATCHED"
      /\ pump'[c].pc = "persist" /\ pump'[c].obs = "COMPLETED" => ret'[u] = "completed"
  BY DEF HandProven, Stands
<1>4. RoutesStand(c)
  <2>1. HostOf[c] \in Host
    BY PumpTypes DEF Dispatching
  <2> QED BY <2>1 DEF RoutesStand, RoutesKeep, NotSuccess
<1>5. pump'[c].pc \in {"gate", "persist"} /\ ~pump'[c].auth /\ pump'[c].obs # "COMPLETED" =>
         \E t \in Task : t = u /\ (run'[t] \in NotSuccess \/ Beaten(c, t)')
  <2>1. \A t \in Task : run[t] \in NotSuccess => run'[t] \in NotSuccess
    BY FailedStays
  <2>2. \A t \in Task : Beaten(c, t) => Beaten(c, t)'
    BY <1>4, BeatenStays
  <2> QED BY <2>1, <2>2 DEF HandProven
<1>6. pump'[c].pc = "observed" => pump'[c].obs \notin Terminal
  BY DEF HandProven
<1> QED BY <1>1, <1>2, <1>3, <1>5, <1>6 DEF PumpProven, Whole, Beaten

(* A pump that is done with a task.                                        *)
LEMMA DoneHands ==
    ASSUME Dispatching, NEW c \in Thread, NEW t \in Task, NEW pc \in {"recover", "reclaim", "deliver"},
           PumpTo(c, DoneWith(c, t, pc))
    PROVE  SeenFrom(c) /\ HandProven(c)
<1> DEFINE p == DoneWith(c, t, pc)
<1>1. /\ p.pc = pc
      /\ \A u \in Task : p.seen[u] = IF u = t THEN NoRecord ELSE pump[c].seen[u]
  BY DoneTypes DEF Dispatching, CompletionInv, PumpPCs
<1>2. PumpTo(c, p)
  OBVIOUS
<1> HIDE DEF p
<1>3. pump'[c] = p
  BY <1>2, FrameTypes DEF PumpTo
<1> QED BY <1>1, <1>3 DEF SeenFrom, HandProven

(* A pump that holds an observation ...                                    *)
LEMMA HoldHands ==
    ASSUME Dispatching, NEW c \in Thread, NEW t, NEW pc, NEW o, Holding(c, t, pc, o)
    PROVE  /\ SeenFrom(c)
           /\ pump'[c].pc = pc /\ pump'[c].task = t /\ pump'[c].obs = o /\ pump'[c].auth = pump[c].auth
<1> DEFINE p == [pump[c] EXCEPT !.pc = pc, !.task = t, !.obs = o]
<1>1. p.pc = pc /\ p.task = t /\ p.obs = o /\ p.seen = pump[c].seen /\ p.auth = pump[c].auth
  BY PumpTypes DEF PumpState, Dispatching
<1>2. PumpTo(c, p)
  BY DEF Holding
<1> HIDE DEF p
<1>3. pump'[c] = p
  BY <1>2, FrameTypes DEF PumpTo
<1> QED BY <1>1, <1>3 DEF SeenFrom

(* ... or moves on with it.                                                *)
LEMMA ForwardHands ==
    ASSUME Dispatching, NEW c \in Thread, NEW pc, Forward(c, pc)
    PROVE  /\ SeenFrom(c)
           /\ pump'[c].pc = pc /\ pump'[c].task = pump[c].task
           /\ pump'[c].obs = pump[c].obs /\ pump'[c].auth = pump[c].auth
<1> DEFINE p == [pump[c] EXCEPT !.pc = pc]
<1>1. /\ p.pc = pc /\ p.task = pump[c].task /\ p.obs = pump[c].obs /\ p.seen = pump[c].seen
      /\ p.auth = pump[c].auth
  BY PumpTypes DEF PumpState, Dispatching
<1>2. PumpTo(c, p)
  BY DEF Forward
<1> HIDE DEF p
<1>3. pump'[c] = p
  BY <1>2, FrameTypes DEF PumpTo
<1> QED BY <1>1, <1>3 DEF SeenFrom

(* A hand that says nothing of an outcome.                                 *)
Quiet == {"rest", "recover", "persisted", "attach", "ignored", "list", "reclaim", "deliver",
          "claimed", "settle"}

(* ... has nothing to prove.                                               *)
LEMMA QuietHands ==
    ASSUME NEW c \in Thread, pump'[c].pc \in Quiet PROVE HandProven(c)
  BY DEF Quiet, HandProven

(* What the pump holds it holds of a confirmed record.                     *)
LEMMA HandNow ==
    ASSUME Dispatching, NEW c \in Thread, pump[c].pc # "rest"
    PROVE  /\ c \in scenario.pumps /\ PumpProven(c)
           /\ pump[c].pc \in {"ask", "gate", "fail", "persist"} =>
                 pump[c].task \in Task /\ store[pump[c].task].phase = "DISPATCHED"
<1>1. PumpProven(c)
  BY DEF Dispatching, ProvenInv
<1>2. pump[c].pc \in {"ask", "gate", "fail", "persist"} => pump[c].task \in Task
  BY PumpTypes DEF Dispatching, NoTaskAt
<1> QED BY <1>1, <1>2 DEF PumpProven

(* Steps of a recovery on a record of the scan.  A failure it observes is  *)
(* the run's; or the route's, and then the record's or without end.        *)
LEMMA RecoverHands ==
    ASSUME Dispatching, Stands, NEW c \in Thread, NEW t \in Task,
           RecoverPrepared(c, t) \/ RecoverObserve(c, t) \/ EnsureCard(c, t)
    PROVE  SeenFrom(c) /\ HandProven(c)
<1>1. pump[c].pc = "recover" /\ call[c].pc = "idle" /\ PumpProven(c) /\ c \in scenario.pumps
  BY HandNow DEF RecoverPrepared, RecoverObserve, EnsureCard, Turn, At
<1>2. CASE RecoverPrepared(c, t)
  BY <1>2, HoldHands DEF RecoverPrepared, HandProven, Terminal
<1>3. CASE RecoverObserve(c, t)
  <2> DEFINE h == HostOf[c]
  <2>1. /\ h \in Host /\ TypeOK /\ Known(h, t) \in TaskState /\ store[t].phase = "DISPATCHED"
        /\ UNCHANGED scenario
    BY <1>1, <1>3, PumpTypes, KnownTypes DEF RecoverObserve, PumpProven, Dispatching, CompletionInv,
       CompletionTypeOK
  <2>2. PICK a \in StatusAnswers(t) :
          LET s == IF a # "ERROR" THEN a
                   ELSE IF Known(h, t) \in Terminal THEN Known(h, t) ELSE "UNKNOWN"
          IN  \/ Skips(c, t)
              \/ Holding(c, t, IF s = "UNKNOWN" THEN "ask"
                               ELSE IF s \in Terminal THEN "gate" ELSE "observed", s)
    BY <1>3 DEF RecoverObserve
  <2> DEFINE s == IF a # "ERROR" THEN a
                  ELSE IF Known(h, t) \in Terminal THEN Known(h, t) ELSE "UNKNOWN"
             pc == IF s = "UNKNOWN" THEN "ask" ELSE IF s \in Terminal THEN "gate" ELSE "observed"
  <2>3. s \in NotSuccess => run[t] = s \/ Known(h, t) = s
    BY DEF StatusAnswers, NotSuccess, Terminal
  <2>4. s \in NotSuccess => run[t] \in NotSuccess \/ Beaten(c, t) \/ Beaten(c, t)'
    <3>1. CASE s \in NotSuccess /\ Known(h, t) = s /\ store[t].state \notin Terminal
      <4>1. route[h][t] = s
        BY <3>1 DEF Known, NotSuccess
      <4>2. scenario.pumps # {c}
        BY <1>1, <2>1, <3>1, <4>1 DEF Dispatching, ProvenInv, FailuresLand, Lands
      <4>3. route'[h][t] = s
        BY <1>3, <2>1, <3>1, Routed DEF RecoverObserve, Rehydrates
      <4> QED BY <2>1, <3>1, <4>2, <4>3 DEF Beaten, HostOf
    <3> QED BY <2>3, <3>1 DEF Beaten
  <2>5. Skips(c, t) \/ Holding(c, t, pc, s)
    BY <2>2
  <2>6. /\ pc \in {"ask", "gate", "observed"}
        /\ pc = "gate" => s \in Terminal
        /\ pc = "observed" => s \notin Terminal
    OBVIOUS
  <2> HIDE DEF s, pc
  <2>7. CASE Holding(c, t, pc, s)
    <3>1. /\ SeenFrom(c) /\ pump'[c].pc = pc /\ pump'[c].task = t /\ pump'[c].obs = s
      BY <2>7, HoldHands
    <3>2. pc = "gate" /\ s # "COMPLETED" => s \in NotSuccess
      BY <2>6 DEF NotSuccess
    <3> QED BY <2>1, <2>4, <2>6, <3>1, <3>2 DEF HandProven
  <2> QED BY <2>5, <2>7, DoneHands DEF Skips
<1>4. CASE EnsureCard(c, t)
  <2> DEFINE r == pump[c].seen[t]
  <2>1. Skips(c, t) \/ Holding(c, t, "attach", r.result)
    BY <1>1, <1>4 DEF EnsureCard, PumpProven, Whole
  <2>2. Holding(c, t, "attach", r.result) => pump'[c].pc \in Quiet /\ SeenFrom(c)
    BY HoldHands DEF Quiet
  <2> QED BY <2>1, <2>2, DoneHands, QuietHands DEF Skips
<1> QED BY <1>2, <1>3, <1>4

(* The result asked for, and the gate: a success passes it with the task's *)
(* return only.                                                            *)
LEMMA AskHands ==
    ASSUME Dispatching, Stands, NEW c \in Thread,
           AskResult(c) \/ Gate(c) \/ FailureTooLate(c) \/ Persisted(c)
    PROVE  SeenFrom(c) /\ HandProven(c)
<1> DEFINE t == pump[c].task
<1>1. /\ t \in Task /\ pump[c].pc # "rest" /\ PumpProven(c)
      /\ pump[c].pc \in {"ask", "gate", "fail", "persist"} => store[t].phase = "DISPATCHED"
  BY HandNow, PumpTypes DEF AskResult, Gate, FailureTooLate, Persisted, At, NoTaskAt, Dispatching
<1>2. CASE AskResult(c)
  <2>1. pump[c].pc = "ask"
    BY <1>2 DEF AskResult, At
  <2>2. \/ Skips(c, t) \/ Holding(c, t, "observed", "UNKNOWN")
        \/ \E a : PumpTo(c, [pump[c] EXCEPT !.pc = "gate", !.obs = a, !.auth = TRUE])
    BY <1>2 DEF AskResult
  <2>3. ASSUME NEW a, PumpTo(c, [pump[c] EXCEPT !.pc = "gate", !.obs = a, !.auth = TRUE])
        PROVE  SeenFrom(c) /\ HandProven(c)
    <3> DEFINE p == [pump[c] EXCEPT !.pc = "gate", !.obs = a, !.auth = TRUE]
    <3>1. p.pc = "gate" /\ p.task = t /\ p.auth = TRUE /\ p.seen = pump[c].seen
      BY PumpTypes DEF PumpState, Dispatching
    <3>2. PumpTo(c, p)
      BY <2>3
    <3> HIDE DEF p
    <3>3. pump'[c] = p
      BY <3>2, FrameTypes DEF PumpTo
    <3> QED BY <1>1, <2>1, <3>1, <3>3 DEF SeenFrom, HandProven
  <2>4. Holding(c, t, "observed", "UNKNOWN") => SeenFrom(c) /\ HandProven(c)
    BY HoldHands DEF HandProven, Terminal
  <2> QED BY <1>1, <2>2, <2>3, <2>4, DoneHands DEF Skips
<1>3. CASE Gate(c)
  <2>1. \/ Forward(c, "fail")
        \/ Forward(c, "persist") /\ (pump[c].obs = "COMPLETED" => ret[t] = "completed")
    BY <1>3 DEF Gate, At, EvidenceRead
  <2>2. CASE Forward(c, "fail")
    BY <1>1, <1>3, <2>2, ForwardHands DEF HandProven, Gate, At
  <2>3. CASE Forward(c, "persist") /\ ~Forward(c, "fail")
    <3>1. /\ SeenFrom(c) /\ pump'[c].pc = "persist" /\ pump'[c].task = t
          /\ pump'[c].obs = pump[c].obs /\ pump'[c].auth = pump[c].auth
      BY <2>3, ForwardHands
    <3>2. ~pump[c].auth /\ pump[c].obs # "COMPLETED" => run[t] \in NotSuccess \/ Beaten(c, t)
      BY <1>1, <1>3 DEF Gate, At, PumpProven
    <3>3. pump[c].pc = "gate"
      BY <1>3 DEF Gate, At
    <3> QED BY <1>1, <2>1, <2>3, <3>1, <3>2, <3>3 DEF HandProven
  <2> QED BY <2>1, <2>2, <2>3
<1>4. CASE FailureTooLate(c)
  <2>1. Skips(c, t) \/ Holding(c, t, "attach", store[t].result)
    BY <1>4 DEF FailureTooLate
  <2>2. Holding(c, t, "attach", store[t].result) => pump'[c].pc \in Quiet /\ SeenFrom(c)
    BY HoldHands DEF Quiet
  <2> QED BY <1>1, <2>1, <2>2, DoneHands, QuietHands DEF Skips
<1>5. CASE Persisted(c)
  <2>1. Forward(c, "attach") \/ Holding(c, t, "observed", "UNKNOWN")
    BY <1>5 DEF Persisted
  <2>2. Forward(c, "attach") => pump'[c].pc \in Quiet /\ SeenFrom(c)
    BY ForwardHands DEF Quiet
  <2>3. Holding(c, t, "observed", "UNKNOWN") => SeenFrom(c) /\ HandProven(c)
    BY HoldHands DEF HandProven, Terminal
  <2> QED BY <2>1, <2>2, <2>3, QuietHands
<1> QED BY <1>2, <1>3, <1>4, <1>5

(* The listings of a pass.                                                 *)
LEMMA ListingHands ==
    ASSUME Dispatching, NEW c \in Thread,
           BeginPass(c) \/ ListClaims(c) \/ RecoveryEnds(c) \/ Scan(c) \/ PassEnds(c)
    PROVE  SeenFrom(c) /\ HandProven(c)
<1>1. ASSUME NEW p, PumpTo(c, p) PROVE pump'[c] = p
  BY <1>1, FrameTypes DEF PumpTo
<1>2. \A S \in SUBSET Task : \A t \in Task : Scanned(S)[t] \in {store[t], NoRecord}
  BY ScanTypes DEF Dispatching, CompletionInv, DispatchInv
<1>3. CASE BeginPass(c)
  <2> DEFINE S == {t \in Task : RequiresRecovery(store[t])}
             p == [Rest EXCEPT !.pc = "recover", !.pass = "recover",
                               !.todo = S, !.seen = Scanned(S)]
  <2>1. p.pc = "recover" /\ p.seen = Scanned(S) /\ S \in SUBSET Task
    BY DEF Rest
  <2>2. PumpTo(c, p)
    BY <1>3 DEF BeginPass
  <2> HIDE DEF p, S
  <2> QED BY <1>1, <1>2, <2>1, <2>2, QuietHands DEF SeenFrom, Quiet
<1>4. CASE Scan(c)
  <2> DEFINE S == {t \in Task : Deliverable(store[t])}
             p == [pump[c] EXCEPT !.pc = "deliver", !.todo = S, !.seen = Scanned(S)]
  <2>1. p.pc = "deliver" /\ p.seen = Scanned(S) /\ S \in SUBSET Task
    BY PumpTypes DEF PumpState, Dispatching
  <2>2. PumpTo(c, p)
    BY <1>4 DEF Scan
  <2> HIDE DEF p, S
  <2> QED BY <1>1, <1>2, <2>1, <2>2, QuietHands DEF SeenFrom, Quiet
<1>5. CASE ListClaims(c)
  <2> DEFINE p == [pump[c] EXCEPT !.pc = "reclaim", !.todo = {t \in Task : store[t].delivery = "CLAIMED"}]
  <2>1. p.pc = "reclaim" /\ p.seen = pump[c].seen
    BY PumpTypes DEF PumpState, Dispatching
  <2>2. PumpTo(c, p)
    BY <1>5 DEF ListClaims
  <2> HIDE DEF p
  <2> QED BY <1>1, <2>1, <2>2, QuietHands DEF SeenFrom, Quiet
<1>6. CASE RecoveryEnds(c)
  <2> DEFINE p == [pump[c] EXCEPT !.pc = "list", !.pass = "deliver"]
  <2>1. p.pc = "list" /\ p.seen = pump[c].seen
    BY PumpTypes DEF PumpState, Dispatching
  <2>2. PumpTo(c, p)
    BY <1>6 DEF RecoveryEnds
  <2> HIDE DEF p
  <2> QED BY <1>1, <2>1, <2>2, QuietHands DEF SeenFrom, Quiet
<1>7. CASE PassEnds(c)
  <2>1. Rest.pc = "rest" /\ \A t \in Task : Rest.seen[t] = NoRecord
    BY DEF Rest, NothingSeen
  <2>2. PumpTo(c, Rest)
    BY <1>7 DEF PassEnds
  <2> HIDE DEF Rest
  <2> QED BY <1>1, <2>1, <2>2, QuietHands DEF SeenFrom, Quiet
<1> QED BY <1>3, <1>4, <1>5, <1>6, <1>7

(* The steps that swap, or that begin a call to swap.                      *)
LEMMA SwapHands ==
    ASSUME Dispatching, NEW c \in Thread,
           \/ PersistObserved(c) \/ AttachCard(c) \/ PersistTruth(c) \/ PersistFailure(c)
           \/ PersistNothing(c) \/ Ignored(c) \/ AlreadyCarded(c)
    PROVE  SeenFrom(c) /\ HandProven(c)
<1> DEFINE t == pump[c].task
<1>1. PersistNothing(c) \/ Ignored(c) \/ AlreadyCarded(c) => t \in Task /\ Skips(c, t)
  BY PumpTypes DEF PersistNothing, Ignored, AlreadyCarded, At, NoTaskAt, Dispatching
<1>2. PersistObserved(c) \/ AttachCard(c) => Forward(c, "ignored")
  BY DEF PersistObserved, AttachCard
<1>3. PersistFailure(c) \/ PersistTruth(c) =>
         Forward(c, "persisted") \/ \E o : Holding(c, t, "persisted", o)
  BY DEF PersistFailure, PersistTruth
<1>4. \A pc \in Quiet : \A o : Forward(c, pc) \/ Holding(c, t, pc, o) => SeenFrom(c) /\ HandProven(c)
  BY HoldHands, ForwardHands, QuietHands
<1> QED BY <1>1, <1>2, <1>3, <1>4, DoneHands DEF Skips, Quiet

(* The steps on one record of a listing; a claim is seen as it was stored. *)
LEMMA DeliveryHands ==
    ASSUME Dispatching, NEW c \in Thread, NEW t \in Task,
           \/ Reclaim(c, t) \/ LeaveClaim(c, t) \/ NotDurableYet(c, t) \/ DropExhausted(c, t)
           \/ ClaimRaceLost(c, t) \/ Claim(c, t)
    PROVE  SeenFrom(c) /\ HandProven(c)
<1>1. CASE Reclaim(c, t) \/ LeaveClaim(c, t)
  BY <1>1, DoneHands DEF Reclaim, LeaveClaim
<1>2. CASE NotDurableYet(c, t) \/ DropExhausted(c, t) \/ ClaimRaceLost(c, t)
  BY <1>2, DoneHands DEF NotDurableYet, DropExhausted, ClaimRaceLost
<1>3. CASE Claim(c, t)
  <2> DEFINE n == Claimed(store[t])
             p == [pump[c] EXCEPT !.pc = "claimed", !.task = t, !.seen[t] = n]
  <2>1. store' = [store EXCEPT ![t] = n] /\ store \in [Task -> Record]
    BY <1>3, FrameTypes DEF Claim, SwapsAndHolds
  <2>2. PumpTo(c, p)
    BY <1>3 DEF Claim
  <2> HIDE DEF n
  <2>3. p.pc = "claimed" /\ \A u \in Task : p.seen[u] = IF u = t THEN n ELSE pump[c].seen[u]
    BY PumpTypes DEF PumpState, Dispatching
  <2> HIDE DEF p
  <2>4. pump'[c] = p /\ store'[t] = n
    BY <2>1, <2>2, FrameTypes DEF PumpTo
  <2> QED BY <2>3, <2>4, QuietHands DEF SeenFrom, Quiet
<1> QED BY <1>1, <1>2, <1>3

(* A delivery, and its settlement.                                         *)
LEMMA SendHands ==
    ASSUME Dispatching, NEW c \in Thread,
           \/ NoOrigin(c) \/ Reaches(c) \/ Misses(c) \/ SessionGone(c)
           \/ Settle(c) \/ SettleRaceLost(c)
    PROVE  SeenFrom(c) /\ HandProven(c)
<1> DEFINE t == pump[c].task
<1>1. CASE NoOrigin(c) \/ Reaches(c) \/ Misses(c) \/ SessionGone(c)
  <2>1. \E o : Holding(c, t, "settle", o)
    BY <1>1 DEF NoOrigin, Reaches, Misses, SessionGone
  <2> QED BY <2>1, HoldHands, QuietHands DEF Quiet
<1>2. CASE Settle(c) \/ SettleRaceLost(c)
  <2>1. t \in Task /\ PumpTo(c, DoneWith(c, t, "deliver"))
    BY <1>2, PumpTypes DEF Settle, SettleRaceLost, At, NoTaskAt, Dispatching
  <2> QED BY <2>1, DoneHands
<1> QED BY <1>1, <1>2

(* Every step of a pump is one of a thread that runs passes.               *)
LEMMA PumpHands ==
    ASSUME Dispatching, Stands, NEW c \in Thread, RecoverStep(c) \/ DeliverStep(c)
    PROVE  c \in scenario.pumps /\ SeenFrom(c) /\ HandProven(c)
<1>1. BeginPass(c) \/ pump[c].pc # "rest"
  BY DEF RecoverStep, ListClaims, RecoveryEnds, AskResult, PersistObserved,
     PersistNothing, Ignored, Gate, PersistTruth, PersistFailure, FailureTooLate, Persisted,
     AttachCard, AlreadyCarded, RecoverPrepared, RecoverObserve, EnsureCard, Reclaim, LeaveClaim,
     DeliverStep, Scan, NoOrigin, Reaches, Misses, SessionGone, Sends, Settle,
     SettleRaceLost, PassEnds, NotDurableYet, DropExhausted, Claim, ClaimRaceLost,
     Turn, DeliverTurn, At
<1>2. c \in scenario.pumps
  BY <1>1, HandNow DEF BeginPass
<1>3. ASSUME NEW t \in Task,
             \/ RecoverPrepared(c, t) \/ RecoverObserve(c, t) \/ EnsureCard(c, t)
             \/ Reclaim(c, t) \/ LeaveClaim(c, t) \/ NotDurableYet(c, t) \/ DropExhausted(c, t)
             \/ ClaimRaceLost(c, t) \/ Claim(c, t)
      PROVE  SeenFrom(c) /\ HandProven(c)
  <2>1. CASE RecoverPrepared(c, t) \/ RecoverObserve(c, t) \/ EnsureCard(c, t)
    BY <2>1, RecoverHands
  <2> QED BY <1>3, <2>1, DeliveryHands
<1>4. ASSUME \/ BeginPass(c) \/ ListClaims(c) \/ RecoveryEnds(c) \/ Scan(c) \/ PassEnds(c)
             \/ AskResult(c) \/ Gate(c) \/ FailureTooLate(c) \/ Persisted(c)
      PROVE  SeenFrom(c) /\ HandProven(c)
  <2>1. CASE AskResult(c) \/ Gate(c) \/ FailureTooLate(c) \/ Persisted(c)
    BY <2>1, AskHands
  <2> QED BY <1>4, <2>1, ListingHands
<1>5. ASSUME \/ PersistObserved(c) \/ AttachCard(c) \/ PersistTruth(c) \/ PersistFailure(c)
             \/ PersistNothing(c) \/ Ignored(c) \/ AlreadyCarded(c)
             \/ NoOrigin(c) \/ Reaches(c) \/ Misses(c) \/ SessionGone(c)
             \/ Settle(c) \/ SettleRaceLost(c)
      PROVE  SeenFrom(c) /\ HandProven(c)
  <2>1. CASE \/ NoOrigin(c) \/ Reaches(c) \/ Misses(c) \/ SessionGone(c)
             \/ Settle(c) \/ SettleRaceLost(c)
    BY <2>1, SendHands
  <2> QED BY <1>5, <2>1, SwapHands
<1> QED BY <1>2, <1>3, <1>4, <1>5 DEF RecoverStep, DeliverStep

-----------------------------------------------------------------------------
(* What is stored.                                                         *)

(* The steps of a pump that swap leave outcome and result as they are.     *)
LEMMA DeliveryWhole ==
    ASSUME Dispatching, CompletionInv', NEW c \in Thread, NEW t \in Task,
           \/ Reclaim(c, t) \/ DropExhausted(c, t) \/ Claim(c, t)
           \/ Settle(c) /\ t = pump[c].task
    PROVE  /\ \A u \in Task \ {t} : store'[u] = store[u]
           /\ store'[t].state = store[t].state /\ Whole(store'[t])
<1>1. /\ \A u \in Task : u # t => store'[u] = store[u]
      /\ MayUpdate(store[t], store'[t]) /\ store'[t].state = store[t].state
  BY DeliverySwaps DEF Dispatching
<1>2. store'[t] \in Record /\ Whole(store[t]) /\ None \notin Terminal
  BY DispatcherAssumption DEF CompletionInv, CompletionTypeOK, TypeOK, Dispatching, ProvenInv, TaskState
<1>3. store'[t].result \in Terminal \cup {None}
  BY <1>2 DEF Record
<1> QED BY <1>1, <1>2, <1>3 DEF MayUpdate, ResultBindsOnce, Whole

(* A stored success is proven, and a result comes with each outcome.       *)
LEMMA StoreProven ==
    ASSUME Dispatching, CompletionInv', Stands, [CompletionNext]_allVars
    PROVE  SuccessIsProven' /\ \A t \in Task : Whole(store'[t])
<1>1. /\ SuccessIsProven /\ \A t \in Task : Whole(store[t])
      /\ store \in [Task -> Record]
  BY FrameTypes DEF Dispatching, ProvenInv
<1> DEFINE Kept(t) == store'[t] = store[t] \/ (Whole(store'[t]) /\ store'[t].state = store[t].state)
           Fine(t) == /\ Whole(store'[t])
                      /\ store'[t].state = "COMPLETED" => ret'[t] = "completed"
<1>2. ASSUME NEW t \in Task, Kept(t) PROVE Fine(t)
  <2>1. Whole(store[t]) /\ (store[t].state = "COMPLETED" => ret[t] = "completed")
    BY <1>1 DEF SuccessIsProven
  <2>2. ret[t] = "completed" => ret'[t] = "completed"
    BY DEF Stands
  <2> QED BY <1>2, <2>1, <2>2
<1>3. ASSUME NEW t \in Task, NEW n, store' = [store EXCEPT ![t] = n], Whole(n),
             n.state = "COMPLETED" => ret[t] = "completed"
      PROVE  \A u \in Task : Fine(u)
  <2>1. store'[t] = n /\ \A u \in Task \ {t} : store'[u] = store[u]
    BY <1>1, <1>3
  <2>2. ret[t] = "completed" => ret'[t] = "completed"
    BY DEF Stands
  <2>3. Fine(t)
    BY <1>3, <2>1, <2>2
  <2>4. \A u \in Task \ {t} : Kept(u)
    BY <2>1
  <2> HIDE DEF Fine, Kept
  <2> QED BY <1>2, <2>3, <2>4
<1>4. ASSUME NEW c \in Thread, CallStep(c) PROVE \A t \in Task : Fine(t)
  <2>1. CallProven(c) /\ CallOk(c)
    BY DEF Dispatching, ProvenInv, CompletionInv, DispatchInv, CallInv
  <2>2. CASE UNCHANGED store
    BY <1>2, <2>2
  <2>3. CASE CreatePrepared(c)
    <3> DEFINE n == Prepared(call[c].pkg.key, call[c].pkg.intent, OriginOf[HostOf[c]])
    <3>1. n.state = "CREATED" /\ n.result = None
      BY DEF Prepared, NoRecord
    <3>2. store' = [store EXCEPT ![call[c].task] = n] /\ call[c].task \in Task
      BY <2>1, <2>3 DEF CreatePrepared, SwapsAndHolds, CallOk
    <3> HIDE DEF n
    <3>3. Whole(n)
      BY <3>1 DEF Whole, Terminal
    <3> QED BY <1>3, <3>1, <3>2, <3>3
  <2>4. CASE Confirm(c)
    <3> DEFINE t == call[c].task
               n == Confirmed(store[t])
    <3>1. t \in Task /\ store[t] \in Record /\ Whole(store[t])
      BY <1>1, <2>1, <2>4 DEF Confirm, CallOk
    <3>2. n.state = "RUNNING" /\ n.result = store[t].result
      BY <3>1 DEF Confirmed, Record
    <3>3. store' = [store EXCEPT ![t] = n] /\ MayUpdate(store[t], n)
      BY <2>4 DEF Confirm, Swappable, Swaps
    <3>4. store[t].state \notin Terminal
      BY <3>2, <3>3 DEF MayUpdate, StateSticks, Terminal
    <3>5. Whole(n)
      BY <3>1, <3>2, <3>4 DEF Whole, Terminal
    <3> HIDE DEF n
    <3> QED BY <1>3, <3>1, <3>2, <3>3, <3>5
  <2>5. CASE Swap(c)
    <3> DEFINE t == call[c].task
               n == call[c].want
    <3>1. /\ t \in Task /\ store' = [store EXCEPT ![t] = n]
          /\ n.state = "COMPLETED" => ret[t] = "completed"
          /\ Whole(n)
      BY <2>1, <2>5 DEF Swap, Swaps, CallOk, CallProven
    <3> HIDE DEF n
    <3> QED BY <1>3, <3>1
  <2> QED BY <1>4, <2>2, <2>3, <2>4, <2>5 DEF CallStep, DispatchStep, AnswerStep, CreateLost,
       CreateRaises, Launch, LaunchRaises, ConfirmStale, AnswerRaises, AnswerKept, AnswerSwaps, SwapRaises
<1>5. ASSUME NEW c \in Thread, RecoverStep(c) \/ DeliverStep(c) PROVE \A t \in Task : Fine(t)
  <2>1. \/ UNCHANGED store \/ Settle(c)
        \/ \E t \in Task : Reclaim(c, t) \/ DropExhausted(c, t) \/ Claim(c, t)
    BY <1>5, PumpLeavesAlone DEF PersistObserved, AttachCard, PersistTruth, PersistFailure
  <2>2. Settle(c) => pump[c].task \in Task
    BY PumpTypes DEF Settle, At, NoTaskAt, Dispatching
  <2>3. \/ UNCHANGED store
        \/ \E t \in Task : /\ \A u \in Task \ {t} : store'[u] = store[u]
                           /\ store'[t].state = store[t].state /\ Whole(store'[t])
    BY <2>1, <2>2, DeliveryWhole
  <2>4. \A u \in Task : Kept(u)
    BY <2>3
  <2> HIDE DEF Kept
  <2> QED BY <1>2, <2>4
<1>6. ASSUME UNCHANGED store PROVE \A t \in Task : Fine(t)
  BY <1>2, <1>6
<1>7. (\E c \in Thread : ClientStep(c)) \/ World \/ UNCHANGED allVars => UNCHANGED store
  BY ClientFrames DEF World, WorkerExits, WorkerEnds, WorkerReturns, ClaimExpires, HostDies,
     CrashHost, allVars, vars
<1>8. \A t \in Task : Fine(t)
  <2> HIDE DEF Fine
  <2> QED BY <1>4, <1>5, <1>6, <1>7 DEF CompletionNext
<1> QED BY <1>8 DEF SuccessIsProven

-----------------------------------------------------------------------------
(* What a call has in hand after a step of its own.                        *)

(* A thread in a call, and one that rests, has a pump that holds nothing.  *)
LEMMA RestingProven ==
    ASSUME Dispatching, Stands, NEW c \in Thread, pump'[c] = pump[c],
           pump[c].pc \in {"rest", "ignored", "persisted"}
    PROVE  PumpProven(c)'
<1>1. PumpProven(c) /\ UNCHANGED scenario
  BY DEF Dispatching, ProvenInv, Stands
<1>2. \A t \in Task : /\ Whole(pump[c].seen[t])
                      /\ pump[c].seen[t].phase = "DISPATCHED" => store'[t].phase = "DISPATCHED"
  BY <1>1 DEF PumpProven, Stands
<1> QED BY <1>1, <1>2 DEF PumpProven, Whole

(* The answer that a call is to store.                                     *)
LEMMA AnswerProven ==
    ASSUME Dispatching, Stands, NEW c \in Thread, AnswerSwaps(c) PROVE CallProven(c)'
<1> DEFINE t == call[c].task
           r == store[t]
           s == call[c].obs
           n == Wanted(call[c].op, r, s)
           next == [call[c] EXCEPT !.pc = "swap", !.want = n]
<1>1. /\ CallProven(c) /\ call[c].pc = "answered" /\ call[c] \in CallState
      /\ UNCHANGED scenario
  BY FrameTypes DEF Dispatching, ProvenInv, AnswerSwaps, KeepsAnswer, Stands
<1>2. /\ t \in Task /\ r \in Record /\ Whole(r) /\ None \notin Terminal /\ HostOf[c] \in Host
      /\ Answer(c) = s /\ call[c].op \in {"persist", "result"} /\ s \in TaskState
      /\ route[HostOf[c]][t] \in Terminal => s = route[HostOf[c]][t]
  BY KeptRoutes, KeptAnswer, FrameTypes, DispatcherAssumption
     DEF AnswerSwaps, Dispatching, ProvenInv, CompletionInv, TaskState
<1>3. NeedsSwap(call[c].op, r, s) /\ Goes(c, next)
  BY <1>2 DEF AnswerSwaps
<1>4. r.result = None /\ r.state \notin Terminal
  BY <1>2, <1>3 DEF NeedsSwap, StateOp, Whole
<1>5. n.state = s /\ Whole(n)
  <2>1. CASE s \in Terminal
    <3>1. n = [r EXCEPT !.state = s, !.result = s]
      BY <1>2, <2>1 DEF Wanted, StateOp
    <3>2. n.state = s /\ n.result = s
      BY <1>2, <3>1 DEF Record
    <3> QED BY <1>2, <2>1, <3>2 DEF Whole
  <2>2. CASE s \notin Terminal
    <3>1. n = [r EXCEPT !.state = s]
      BY <2>2 DEF Wanted
    <3>2. n.state = s /\ n.result = None
      BY <1>2, <1>4, <3>1 DEF Record
    <3> QED BY <2>2, <3>2 DEF Whole
  <2> QED BY <2>1, <2>2
<1>6. s = "COMPLETED" => ret[t] = "completed"
  BY <1>1, <1>2, <1>4 DEF CallProven, Beaten, NotSuccess
<1>7. ret'[t] = "completed" \/ s # "COMPLETED"
  BY <1>2, <1>6 DEF Stands
<1> HIDE DEF n
<1>8. next.pc = "swap" /\ next.task = t /\ next.want = n
  BY <1>1 DEF CallState
<1> HIDE DEF next
<1>9. call'[c] = next
  BY <1>3, FrameTypes DEF Goes
<1> QED BY <1>1, <1>5, <1>7, <1>8, <1>9 DEF CallProven

(* Every step of a call.                                                   *)
LEMMA CallHands ==
    ASSUME Dispatching, Stands, NEW c \in Thread, CallStep(c)
    PROVE  CallProven(c)' /\ PumpProven(c)'
<1>1. /\ CallProven(c) /\ CallOk(c) /\ UNCHANGED scenario /\ call[c] \in CallState
  BY FrameTypes DEF Dispatching, ProvenInv, CompletionInv, DispatchInv, CallInv, Stands
<1>2. call[c].pc # "idle" /\ UNCHANGED pump
  BY DEF CallStep, DispatchStep, AnswerStep, CreatePrepared, CreateLost, CreateRaises, Launch,
     LaunchRaises, Confirm, ConfirmStale, AnswerRaises, AnswerKept, AnswerSwaps, KeepsAnswer, Swap,
     SwapRaises, ownVars
<1>3. PumpProven(c)'
  BY <1>2, InCall, RestingProven DEF Dispatching
<1>4. CASE \E out : Returns(c, out)
  <2>1. \A out : Idle(out).pc = "idle"
    BY DEF Idle
  <2>2. call'[c].pc = "idle"
    BY <1>4, <2>1, FrameTypes DEF Returns
  <2> QED BY <1>3, <2>2 DEF CallProven
<1>5. CASE CreatePrepared(c)
  <2> DEFINE next == [call[c] EXCEPT !.pc = "launch"]
             n == Prepared(call[c].pkg.key, call[c].pkg.intent, OriginOf[HostOf[c]])
  <2>1. next.pc = "launch" /\ next.task = call[c].task
    BY <1>1 DEF CallState
  <2>2. Goes(c, next) /\ store' = [store EXCEPT ![call[c].task] = n] /\ call[c].task \in Task
    BY <1>1, <1>5 DEF CreatePrepared, SwapsAndHolds, CallOk
  <2>3. n.phase = "PREPARED"
    BY DEF Prepared, NoRecord
  <2>4. "dispatch" \in scenario.ops[c]
    BY <1>1, <1>5 DEF CreatePrepared, CallProven
  <2> HIDE DEF next, n
  <2>5. call'[c] = next /\ store'[call[c].task] = n
    BY <2>2, FrameTypes DEF Goes
  <2> QED BY <1>1, <1>3, <2>1, <2>3, <2>4, <2>5 DEF CallProven
<1>6. CASE Launch(c)
  <2> DEFINE next == [call[c] EXCEPT !.pc = "confirm"]
  <2>1. next.pc = "confirm" /\ next.task = call[c].task
    BY <1>1 DEF CallState
  <2>2. Goes(c, next) /\ UNCHANGED <<store, fresh>> /\ call[c].pc = "launch"
    BY <1>6 DEF Launch
  <2> HIDE DEF next
  <2>3. call'[c] = next
    BY <2>2, FrameTypes DEF Goes
  <2> QED BY <1>1, <1>3, <2>1, <2>2, <2>3 DEF CallProven
<1>7. CASE AnswerSwaps(c)
  BY <1>3, <1>7, AnswerProven
<1> QED BY <1>4, <1>5, <1>6, <1>7 DEF CallStep, DispatchStep, AnswerStep, CreateLost,
     CreateRaises, LaunchRaises, Confirm, ConfirmStale, AnswerRaises, AnswerKept, Swap, SwapRaises

(* Every call a session makes.                                             *)
LEMMA ClientHands ==
    ASSUME Dispatching, Stands, NEW c \in Thread, ClientStep(c)
    PROVE  CallProven(c)' /\ PumpProven(c)'
<1>1. PICK p \in scenario.packages : AdmitDispatch(c, p) \/ AdmitReplay(c, p)
  BY ClientFrames
<1>2. pump[c].pc = "rest" /\ UNCHANGED pump /\ UNCHANGED scenario
  BY <1>1 DEF AdmitDispatch, AdmitReplay, MayCall, ownVars, Stands
<1>3. PumpProven(c)'
  BY <1>2, RestingProven
<1>4. CASE AdmitReplay(c, p)
  <2>1. call'[c].pc = "idle"
    BY <1>4, FrameTypes DEF AdmitReplay, DispatchReplays, Returns, Idle
  <2> QED BY <1>3, <2>1 DEF CallProven
<1>5. CASE AdmitDispatch(c, p)
  <2> DEFINE next == [Started("dispatch", "create", p.task) EXCEPT !.pkg = p]
  <2>1. next.pc = "create"
    BY DEF Started, Idle
  <2>2. Goes(c, next) /\ "dispatch" \in scenario.ops[c]
    BY <1>5 DEF AdmitDispatch, Dispatch, CanCall
  <2> HIDE DEF next
  <2>3. call'[c] = next
    BY <2>2, FrameTypes DEF Goes
  <2> QED BY <1>2, <1>3, <2>1, <2>2, <2>3 DEF CallProven
<1> QED BY <1>1, <1>4, <1>5

(* A call that a pump begins with a record to store.                       *)
LEMMA SwapProven ==
    ASSUME Dispatching, Stands, NEW c \in Thread, NEW t \in Task, NEW op \in Ops, NEW n,
           Goes(c, [Started(op, "swap", t) EXCEPT !.want = n]),
           c \in scenario.pumps, Whole(n), n.state = "COMPLETED" => ret[t] = "completed"
    PROVE  CallProven(c)'
<1> DEFINE b == Started(op, "swap", t)
           next == [b EXCEPT !.want = n]
<1>1. b \in CallState /\ b.pc = "swap" /\ b.task = t
  BY StartedTypes
<1>2. Goes(c, next)
  OBVIOUS
<1> HIDE DEF b
<1>3. next.pc = "swap" /\ next.task = t /\ next.want = n
  BY <1>1 DEF CallState
<1> HIDE DEF next
<1>4. call'[c] = next
  BY <1>2, FrameTypes DEF Goes
<1>5. n.state = "COMPLETED" => ret'[t] = "completed"
  BY DEF Stands
<1> QED BY <1>3, <1>4, <1>5 DEF CallProven, Stands

(* One that a pump begins with the answer to store.                        *)
LEMMA TruthProven ==
    ASSUME Dispatching, Stands, NEW c \in Thread, NEW t \in Task, NEW op \in {"persist", "result"},
           NEW a \in TaskState \cup {"ERROR"}, PersistsTerminal(c, op, a), t = pump[c].task,
           c \in scenario.pumps, store[t].phase = "DISPATCHED", RoutesKeep,
           a = "COMPLETED" => ret[t] = "completed" \/ Beaten(c, t)
    PROVE  CallProven(c)'
<1> DEFINE b == Started(op, "answered", t)
           next == [b EXCEPT !.obs = a]
<1>1. b \in CallState /\ b.pc = "answered" /\ b.task = t /\ b.op = op
  <2>1. op \in Ops
    BY DEF Ops
  <2>2. b.op = op
    BY DEF Started, Idle
  <2> QED BY <2>1, <2>2, StartedTypes
<1>2. Goes(c, next)
  BY DEF PersistsTerminal
<1> HIDE DEF b
<1>3. next.pc = "answered" /\ next.task = t /\ next.obs = a /\ next.op = op
  BY <1>1 DEF CallState
<1> HIDE DEF next
<1>4. call'[c] = next
  BY <1>2, FrameTypes DEF Goes
<1>5. RoutesStand(c)
  <2>1. HostOf[c] \in Host
    BY PumpTypes DEF Dispatching
  <2> QED BY <2>1 DEF RoutesStand, RoutesKeep, NotSuccess
<1>6. a = "COMPLETED" => ret'[t] = "completed" \/ Beaten(c, t)'
  BY <1>5, BeatenStays DEF Stands
<1>7. store'[t].phase = "DISPATCHED" /\ UNCHANGED scenario
  BY DEF Stands
<1> QED BY <1>3, <1>4, <1>6, <1>7 DEF CallProven, Beaten

(* Every step of a pump.                                                   *)
LEMMA PumpStepProven ==
    ASSUME Dispatching, Stands, NEW c \in Thread, RecoverStep(c) \/ DeliverStep(c),
           \A t \in Task : Whole(store'[t])
    PROVE  CallProven(c)' /\ PumpProven(c)'
<1> DEFINE t == pump[c].task
<1>1. c \in scenario.pumps /\ RoutesKeep /\ PumpProven(c)'
  BY PumpHands, PumpRoutes, HandsProven
<1>2. /\ SuccessIsProven /\ \A u \in Task : Whole(store[u])
      /\ PumpProven(c) /\ PumpOk(c)
  BY DEF Dispatching, ProvenInv, CompletionInv
<1>3. CASE UNCHANGED call
  <2>1. call[c].pc = "idle"
    BY DEF RecoverStep, BeginPass, ListClaims, RecoveryEnds, AskResult, PersistObserved,
       PersistNothing, Ignored, Gate, PersistTruth, PersistFailure, FailureTooLate, Persisted,
       AttachCard, AlreadyCarded, RecoverPrepared, RecoverObserve, EnsureCard, Reclaim, LeaveClaim,
       DeliverStep, Scan, NoOrigin, Reaches, Misses, SessionGone, Sends, Settle,
       SettleRaceLost, PassEnds, NotDurableYet, DropExhausted, Claim, ClaimRaceLost,
       Turn, DeliverTurn, At
  <2> QED BY <1>1, <1>3, <2>1 DEF CallProven
<1>4. PersistObserved(c) \/ AttachCard(c) \/ PersistTruth(c) \/ PersistFailure(c) =>
         t \in Task /\ store[t] \in Record
  BY PumpTypes DEF PersistObserved, AttachCard, PersistTruth, PersistFailure, At, NoTaskAt, Dispatching
<1>5. CASE PersistObserved(c)
  <2> DEFINE n == [store[t] EXCEPT !.state = pump[c].obs]
  <2>1. n.state = pump[c].obs /\ n.result = store[t].result
    BY <1>4, <1>5 DEF Record
  <2>2. pump[c].obs \notin Terminal /\ store[t].state \notin Terminal
    BY <1>2, <1>5 DEF PersistObserved, At, PumpProven
  <2>3. Goes(c, [Started("observe", "swap", t) EXCEPT !.want = n])
    BY <1>5 DEF PersistObserved
  <2> HIDE DEF n
  <2>4. Whole(n) /\ n.state # "COMPLETED"
    BY <1>2, <1>4, <1>5, <2>1, <2>2 DEF Whole, Terminal
  <2> QED BY <1>1, <1>4, <1>5, <2>3, <2>4, SwapProven DEF Ops
<1>6. CASE AttachCard(c)
  <2> DEFINE n == [store[t] EXCEPT !.card = pump[c].obs]
  <2>1. n.state = store[t].state /\ n.result = store[t].result
    BY <1>4, <1>6 DEF Record
  <2>2. Goes(c, [Started("attach", "swap", t) EXCEPT !.want = n])
    BY <1>6 DEF AttachCard
  <2> HIDE DEF n
  <2>3. Whole(n) /\ (n.state = "COMPLETED" => ret[t] = "completed")
    BY <1>2, <1>4, <1>6, <2>1 DEF Whole, SuccessIsProven
  <2> QED BY <1>1, <1>4, <1>6, <2>2, <2>3, SwapProven DEF Ops
<1>7. CASE PersistFailure(c)
  <2>1. PersistsTerminal(c, "persist", "FAILED") /\ pump[c].pc = "fail"
    BY <1>7 DEF PersistFailure, At
  <2>2. store[t].phase = "DISPATCHED" /\ "FAILED" \in TaskState
    BY <1>2, <2>1 DEF PumpProven, TaskState, Terminal
  <2> QED BY <1>1, <1>4, <1>7, <2>1, <2>2, TruthProven
<1>8. CASE PersistTruth(c)
  <2>1. pump[c].pc = "persist" /\ store[t].phase = "DISPATCHED" /\ pump[c].obs \in Terminal
    BY <1>2, <1>8 DEF PersistTruth, At, PumpProven, PumpOk
  <2>2. CASE pump[c].auth
    <3>1. PersistsTerminal(c, "persist", pump[c].obs) /\ pump[c].obs \in TaskState
      BY <1>8, <2>1, <2>2 DEF PersistTruth, TaskState
    <3>2. pump[c].obs = "COMPLETED" => ret[t] = "completed"
      BY <1>2, <2>1 DEF PumpProven
    <3> QED BY <1>1, <1>4, <1>8, <2>1, <3>1, <3>2, TruthProven
  <2>3. CASE ~pump[c].auth
    <3>1. PICK a \in ResultAnswers(t) : PersistsTerminal(c, "result", a)
      BY <1>8, <2>3 DEF PersistTruth
    <3>2. a \in TaskState \cup {"ERROR"}
      BY <1>4, <1>8, AnswerTypes DEF Dispatching, CompletionInv, CompletionTypeOK
    <3>3. a = "COMPLETED" => run[t] \notin NotSuccess
      BY DEF ResultAnswers, NotSuccess, Terminal
    <3>4. a = "COMPLETED" => ret[t] = "completed" \/ Beaten(c, t)
      BY <1>2, <2>1, <2>3, <3>3 DEF PumpProven
    <3> QED BY <1>1, <1>4, <1>8, <2>1, <3>1, <3>2, <3>4, TruthProven
  <2> QED BY <2>2, <2>3
<1>9. UNCHANGED call \/ PersistObserved(c) \/ AttachCard(c) \/ PersistTruth(c) \/ PersistFailure(c)
  <2>1. \A u \in Task : Reclaim(c, u) \/ DropExhausted(c, u) \/ Claim(c, u) => UNCHANGED call
    BY DEF Reclaim, DropExhausted, Claim
  <2>2. Settle(c) => UNCHANGED call
    BY DEF Settle
  <2> QED BY <2>1, <2>2, PumpLeavesAlone
<1> QED BY <1>1, <1>3, <1>5, <1>6, <1>7, <1>8, <1>9

-----------------------------------------------------------------------------
(* The failures in the routes, where p alone runs passes.                  *)

(* A failure in a route that is not stored yet is one that p will store.   *)
LandStays(p) ==
    \A h \in Host, t \in Task :
       /\ scenario.pumps = {p} /\ route'[h][t] \in NotSuccess
       /\ store'[t].state \notin Terminal
       => h = HostOf[p] /\ Lands(p, t)'

(* What p is about to store no step of another thread takes from it.       *)
LEMMA OthersLand ==
    ASSUME Dispatching, Stands, NEW c \in Thread, Frame(c), RoutesFrom, NEW p \in Thread \ {c}
    PROVE  LandStays(p)
<1> SUFFICES ASSUME NEW h \in Host, NEW t \in Task, scenario.pumps = {p},
                    route'[h][t] \in NotSuccess, store'[t].state \notin Terminal
             PROVE  h = HostOf[p] /\ Lands(p, t)'
  BY DEF LandStays
<1>1. store[t].state \notin Terminal /\ route[h][t] \in NotSuccess
  BY DEF Stands, RoutesFrom
<1>2. h = HostOf[p] /\ Lands(p, t)
  BY <1>1 DEF Dispatching, ProvenInv, FailuresLand
<1>3. store'[t] = store[t] /\ t \in fresh'[p] /\ call'[p] = call[p]
  <2>1. store[t].phase = "DISPATCHED" /\ t \in fresh[p] /\ c \notin scenario.pumps
    BY <1>2 DEF Lands, Swappable
  <2> QED BY <2>1 DEF Frame
<1> QED BY <1>2, <1>3 DEF Lands, Swappable

(* Before p swaps, what is in its routes is stored already ...             *)
LEMMA OwnLand ==
    ASSUME Dispatching, Stands, NEW p \in Thread, RoutesFrom, call[p].pc # "swap"
    PROVE  LandStays(p)
<1> SUFFICES ASSUME NEW h \in Host, NEW t \in Task, scenario.pumps = {p},
                    route'[h][t] \in NotSuccess, store'[t].state \notin Terminal
             PROVE  FALSE
  BY DEF LandStays
<1>1. store[t].state \notin Terminal /\ route[h][t] \in NotSuccess
  BY DEF Stands, RoutesFrom
<1> QED BY <1>1 DEF Dispatching, ProvenInv, FailuresLand, Lands

(* ... and when it does, it stores what is not.                            *)
LEMMA SwapLands ==
    ASSUME Dispatching, Stands, NEW p \in Thread, Swap(p) \/ SwapRaises(p)
    PROVE  LandStays(p)
<1> SUFFICES ASSUME NEW h \in Host, NEW t \in Task, scenario.pumps = {p},
                    route'[h][t] \in NotSuccess, store'[t].state \notin Terminal
             PROVE  FALSE
  BY DEF LandStays
<1>1. store[t].state \notin Terminal /\ UNCHANGED route
  BY DEF Stands, Swap, SwapRaises
<1>2. Lands(p, t)
  BY <1>1 DEF Dispatching, ProvenInv, FailuresLand
<1>3. store' = [store EXCEPT ![t] = call[p].want] /\ call[p].want.state \in Terminal
  BY <1>2 DEF Lands, Swap, SwapRaises, Swaps
<1> QED BY <1>3, FrameTypes

(* An answer that comes into a route is stored, or about to be.            *)
LEMMA AnswerLands ==
    ASSUME Dispatching, Stands, NEW p \in Thread, AnswerKept(p) \/ AnswerSwaps(p)
    PROVE  LandStays(p)
<1> DEFINE u == call[p].task
           r == store[u]
           s == call[p].obs
<1> SUFFICES ASSUME NEW h \in Host, NEW t \in Task, scenario.pumps = {p},
                    route'[h][t] \in NotSuccess, store'[t].state \notin Terminal
             PROVE  h = HostOf[p] /\ Lands(p, t)'
  BY DEF LandStays
<1>1. /\ CallProven(p) /\ call[p].pc = "answered" /\ call[p] \in CallState /\ UNCHANGED store
      /\ KeepsAnswer(p)
  BY FrameTypes DEF Dispatching, ProvenInv, AnswerKept, AnswerSwaps, KeepsAnswer
<1>2. /\ u \in Task /\ Answer(p) = s /\ call[p].op \in {"persist", "result"}
      /\ \A g \in Host, v \in Task :
            route'[g][v] = IF g = HostOf[p] /\ v = u THEN Answer(p) ELSE route[g][v]
  BY <1>1, KeptRoutes
<1>3. route[h][t] \notin NotSuccess
  BY <1>1 DEF Dispatching, ProvenInv, FailuresLand, Lands
<1>4. h = HostOf[p] /\ t = u /\ s \in NotSuccess
  BY <1>2, <1>3
<1>5. /\ r \in Record /\ Whole(r) /\ r.state \notin Terminal /\ r.phase = "DISPATCHED"
      /\ None \notin Terminal
  BY <1>1, <1>2, <1>4, FrameTypes, DispatcherAssumption DEF Dispatching, ProvenInv, CallProven, TaskState
<1>6. r.result = None /\ s \in Terminal /\ s # None
  BY <1>4, <1>5 DEF Whole, NotSuccess
<1>7. NeedsSwap(call[p].op, r, s)
  BY <1>2, <1>6 DEF NeedsSwap, StateOp
<1>8. AnswerSwaps(p)
  BY <1>2, <1>7 DEF AnswerKept
<1> DEFINE n == Wanted(call[p].op, r, s)
           next == [call[p] EXCEPT !.pc = "swap", !.want = n]
<1>9. n = [r EXCEPT !.state = s, !.result = s]
  BY <1>2, <1>6 DEF Wanted, StateOp
<1>10. MayUpdate(r, n) /\ n.state = s
  <2>1. /\ n.phase = r.phase /\ n.state = s /\ n.result = s /\ n.origin = r.origin
        /\ n.card = r.card /\ n.delivery = r.delivery
    BY <1>5, <1>9 DEF Record
  <2> HIDE DEF n
  <2> QED BY <1>5, <1>6, <2>1 DEF MayUpdate, PhaseMoves, StateSticks, ResultBindsOnce, BindsOnce,
       SettledSticks, Coherent
<1>11. Goes(p, next) /\ Reads(p, u)
  BY <1>2, <1>8 DEF AnswerSwaps
<1> HIDE DEF n
<1>12. next.pc = "swap" /\ next.task = u /\ next.want = n
  BY <1>1 DEF CallState
<1> HIDE DEF next
<1>13. call'[p] = next /\ u \in fresh'[p]
  BY <1>11, FrameTypes DEF Goes, Reads
<1> QED BY <1>1, <1>4, <1>5, <1>6, <1>10, <1>12, <1>13 DEF Lands, Swappable

-----------------------------------------------------------------------------
(* Every step.                                                             *)

(* ProvenInv after a step, of every thread.                                *)
ProvenStays ==
    /\ \A d \in Thread : CallProven(d)' /\ PumpProven(d)'
    /\ \A p \in Thread : LandStays(p)

(* A step of a call ...                                                    *)
LEMMA CallStepProven ==
    ASSUME Dispatching, Stands, NEW c \in Thread, CallStep(c) PROVE ProvenStays
<1>1. \A d \in Thread : CallProven(d)' /\ PumpProven(d)'
  BY CallHands, CallFrames, CallRoutes, OthersProven
<1>2. CASE AnswerKept(c) \/ AnswerSwaps(c)
  <2>1. c \in scenario.pumps
    BY <1>2 DEF AnswerKept, AnswerSwaps, KeepsAnswer, Dispatching, ProvenInv, CallProven
  <2>2. \A p \in Thread \ {c} : LandStays(p)
    BY <2>1 DEF LandStays
  <2> QED BY <1>1, <1>2, <2>2, AnswerLands DEF ProvenStays
<1>3. CASE ~(AnswerKept(c) \/ AnswerSwaps(c))
  <2>1. RoutesFrom /\ Frame(c)
    BY <1>3, CallRoutes, CallFrames
  <2>2. LandStays(c)
    <3>1. Swap(c) \/ SwapRaises(c) \/ call[c].pc # "swap"
      BY DEF CallStep, DispatchStep, AnswerStep, CreatePrepared, CreateLost, CreateRaises, Launch,
         LaunchRaises, Confirm, ConfirmStale, AnswerRaises, AnswerKept, AnswerSwaps, KeepsAnswer
    <3> QED BY <2>1, <3>1, SwapLands, OwnLand
  <2> QED BY <1>1, <2>1, <2>2, OthersLand DEF ProvenStays
<1> QED BY <1>2, <1>3

(* ... of a session, or of a pump ...                                      *)
LEMMA IdleStepProven ==
    ASSUME Dispatching, Stands, NEW c \in Thread,
           ClientStep(c) \/ RecoverStep(c) \/ DeliverStep(c), \A t \in Task : Whole(store'[t])
    PROVE  ProvenStays
<1>1. Frame(c) /\ RouteMoves(c) /\ RoutesFrom
  BY ClientFrames, PumpFrames, ClientRoutes, PumpRoutes DEF RouteMoves
<1>2. CallProven(c)' /\ PumpProven(c)'
  BY ClientHands, PumpStepProven
<1>3. call[c].pc = "idle"
  <2>1. ClientStep(c) => call[c].pc = "idle"
    BY ClientFrames DEF AdmitDispatch, AdmitReplay, Dispatch, DispatchReplays, CanCall
  <2>2. RecoverStep(c) \/ DeliverStep(c) => call[c].pc = "idle"
    BY DEF RecoverStep, BeginPass, ListClaims, RecoveryEnds, AskResult, PersistObserved,
       PersistNothing, Ignored, Gate, PersistTruth, PersistFailure, FailureTooLate, Persisted,
       AttachCard, AlreadyCarded, RecoverPrepared, RecoverObserve, EnsureCard, Reclaim, LeaveClaim,
       DeliverStep, Scan, NoOrigin, Reaches, Misses, SessionGone, Sends, Settle,
       SettleRaceLost, PassEnds, NotDurableYet, DropExhausted, Claim, ClaimRaceLost,
       Turn, DeliverTurn, At
  <2> QED BY <2>1, <2>2
<1>4. \A d \in Thread : CallProven(d)' /\ PumpProven(d)'
  BY <1>1, <1>2, OthersProven
<1>5. \A p \in Thread : LandStays(p)
  BY <1>1, <1>3, OwnLand, OthersLand
<1> QED BY <1>4, <1>5 DEF ProvenStays

(* ... and of the world; a host that dies takes its threads' hands along.  *)
LEMMA WorldProven ==
    ASSUME Dispatching, Stands, World \/ UNCHANGED allVars PROVE ProvenStays
<1>1. CASE UNCHANGED <<store, fresh, route, call, pump>>
  <2>1. \A d \in Thread : RoutesStand(d)
    BY <1>1 DEF RoutesStand
  <2>2. \A d \in Thread : CallProven(d)' /\ PumpProven(d)'
    BY <1>1, <2>1, OtherProven
  <2>3. \A p \in Thread : LandStays(p)
    BY <1>1 DEF LandStays, Dispatching, ProvenInv, FailuresLand, Lands, Swappable
  <2> QED BY <2>2, <2>3 DEF ProvenStays
<1>2. ASSUME NEW h \in Host, HostDies(h) PROVE ProvenStays
  <2>1. /\ \A d \in Thread : /\ call'[d] = IF HostOf[d] = h THEN Idle("none") ELSE call[d]
                             /\ pump'[d] = IF HostOf[d] = h THEN Rest ELSE pump[d]
                             /\ fresh'[d] = IF HostOf[d] = h THEN {} ELSE fresh[d]
        /\ UNCHANGED store /\ UNCHANGED scenario
        /\ \A g \in Host \ {h} : route'[g] = route[g]
        /\ \A t \in Task : route'[h][t] = NoRoute
    BY <1>2, FrameTypes DEF HostDies, CrashHost, Stands
  <2>2. ASSUME NEW d \in Thread PROVE CallProven(d)' /\ PumpProven(d)'
    <3>1. CASE HostOf[d] = h
      <4>1. call'[d].pc = "idle" /\ pump'[d] = Rest
        BY <2>1, <3>1 DEF Idle
      <4>2. Rest.pc = "rest" /\ \A t \in Task : Rest.seen[t] = NoRecord
        BY DEF Rest, NothingSeen
      <4>3. Whole(NoRecord) /\ NoRecord.phase # "DISPATCHED"
        BY DEF Whole, NoRecord, Terminal
      <4> HIDE DEF Rest, NoRecord
      <4> QED BY <4>1, <4>2, <4>3 DEF CallProven, PumpProven, Whole
    <3>2. CASE HostOf[d] # h
      <4>1. HostOf[d] \in Host
        BY PumpTypes DEF Dispatching
      <4>2. RoutesStand(d)
        BY <2>1, <3>2, <4>1 DEF RoutesStand
      <4> QED BY <2>1, <3>2, <4>2, OtherProven
    <3> QED BY <3>1, <3>2
  <2>3. ASSUME NEW p \in Thread PROVE LandStays(p)
    <3> SUFFICES ASSUME NEW g \in Host, NEW t \in Task, scenario.pumps = {p},
                        route'[g][t] \in NotSuccess, store'[t].state \notin Terminal
                 PROVE  g = HostOf[p] /\ Lands(p, t)'
      BY DEF LandStays
    <3>1. g # h /\ route[g][t] \in NotSuccess /\ store[t].state \notin Terminal
      BY <2>1 DEF NoRoute, NotSuccess, Terminal
    <3>2. g = HostOf[p] /\ Lands(p, t)
      BY <3>1 DEF Dispatching, ProvenInv, FailuresLand
    <3>3. call'[p] = call[p] /\ fresh'[p] = fresh[p]
      BY <2>1, <3>1, <3>2
    <3> QED BY <2>1, <3>2, <3>3 DEF Lands, Swappable
  <2> QED BY <2>2, <2>3 DEF ProvenStays
<1>3. World \/ UNCHANGED allVars =>
         UNCHANGED <<store, fresh, route, call, pump>> \/ \E h \in Host : HostDies(h)
  BY DEF World, WorkerExits, WorkerEnds, WorkerReturns, ClaimExpires, allVars, vars, ownVars
<1> QED BY <1>1, <1>2, <1>3

(* Every step keeps the successes proven.                                  *)
LEMMA ProvenStepKeeps ==
    ASSUME LonePump, SessionsOnlyDispatch, CompletionInv, CompletionInv', ProvenInv,
           [CompletionNext]_allVars
    PROVE  SessionsOnlyDispatch' /\ ProvenInv'
<1>1. Dispatching /\ Stands
  BY StepStands DEF Dispatching
<1>2. SuccessIsProven' /\ \A t \in Task : Whole(store[t])'
  BY <1>1, StoreProven DEF Whole
<1>3. ProvenStays
  <2>1. \A t \in Task : Whole(store'[t])
    BY <1>1, StoreProven
  <2> QED BY <1>1, <2>1, CallStepProven, IdleStepProven, WorldProven DEF CompletionNext
<1>4. UNCHANGED scenario
  BY SurroundingsStay
<1>5. FailuresLand'
  BY <1>3, <1>4 DEF ProvenStays, LandStays, FailuresLand, HostOf
<1>6. SessionsOnlyDispatch'
  BY <1>4 DEF SessionsOnlyDispatch
<1> QED BY <1>2, <1>3, <1>5, <1>6 DEF ProvenStays, ProvenInv

(* At the start there is nothing to prove.                                 *)
LEMMA ProvenStart == CompletionInit => ProvenInv
<1> SUFFICES ASSUME CompletionInit PROVE ProvenInv
  OBVIOUS
<1>1. /\ \A t \in Task : store[t] = NoRecord
      /\ \A h \in Host, t \in Task : route[h][t] = NoRoute
      /\ \A c \in Thread : call[c].pc = "idle" /\ pump[c] = Rest
  BY DEF CompletionInit, Init, Idle
<1>2. /\ Whole(NoRecord) /\ NoRecord.state = "CREATED" /\ NoRecord.phase = "ABSENT"
      /\ NoRoute \notin NotSuccess
  BY DEF Whole, NoRecord, Terminal, NoRoute, NotSuccess
<1>3. Rest.pc = "rest" /\ \A t \in Task : Rest.seen[t] = NoRecord
  BY DEF Rest, NothingSeen
<1> HIDE DEF Rest, NoRecord
<1>4. SuccessIsProven /\ FailuresLand
  BY <1>1, <1>2 DEF SuccessIsProven, FailuresLand
<1>5. \A c \in Thread : CallProven(c) /\ PumpProven(c)
  BY <1>1, <1>2, <1>3 DEF CallProven, PumpProven
<1> QED BY <1>1, <1>2, <1>4, <1>5 DEF ProvenInv

(* Where the sessions only dispatch, no pass of any pump ever records a    *)
(* worker that only exited cleanly as a success: the gate before           *)
(* _persist_terminal_truth lets a COMPLETED by with the task.return alone, *)
(* and neither a failure that races it nor a replay that rebuilds a route  *)
(* lets another answer through.                                            *)
THEOREM PassesAreHonest ==
    ASSUME LonePump PROVE CompletionSpec => []PassesProveSuccess
<1> DEFINE Inv == SessionsOnlyDispatch => ProvenInv
<1>1. CompletionInit => Inv
  BY ProvenStart
<1>2. CompletionInv /\ CompletionInv' /\ Inv /\ [CompletionNext]_allVars => Inv'
  <2>1. UNCHANGED scenario /\ SessionsOnlyDispatch' /\ [CompletionNext]_allVars => SessionsOnlyDispatch
    BY DEF SessionsOnlyDispatch
  <2>2. [CompletionNext]_allVars => UNCHANGED scenario
    BY SurroundingsStay
  <2> QED BY <2>1, <2>2, ProvenStepKeeps
<1>3. Inv => PassesProveSuccess
  BY DEF PassesProveSuccess, ProvenInv
<1> QED BY <1>1, <1>2, <1>3, CompletionIsSafe, PTL DEF CompletionSpec
=============================================================================
