-------------------------- MODULE DispatcherProofs --------------------------
(***************************************************************************)
(* The dispatcher for any number of tasks, packages, hosts, threads and    *)
(* crashes: nothing is started twice or without a record, a terminal state *)
(* on record is true, and every record lives the life of TaskOutcome.      *)
(*                                                                         *)
(* DispatchInv is inductive: a record is present before its worker starts  *)
(* and keeps its key and intent, and only the thread that created it may   *)
(* launch.  ReadKeeps, LaunchKeeps, CreateKeeps and SwapKeeps say what a   *)
(* step of each kind has to show for it.  TruthInv is inductive beside it. *)
(***************************************************************************)
EXTENDS Dispatcher, TLAPS

-----------------------------------------------------------------------------
(* What a step of each kind has to show.                                   *)

(* A step that keeps what every record is for.                             *)
RecordsStand ==
    \A t \in Task : store[t].phase # "ABSENT" =>
       store'[t].phase # "ABSENT" /\ store'[t].key = store[t].key /\ store'[t].intent = store[t].intent

(* A thread whose call goes on as it is, and whose fresh records were not  *)
(* swapped, still knows what it knew.                                      *)
LEMMA OtherKeeps ==
    ASSUME NEW d \in Thread, CallOk(d), RecordsStand,
           call'[d] = call[d], fresh'[d] \subseteq fresh[d],
           \A t \in Task \cap fresh'[d] : store'[t] = store[t],
           call[d].pc = "launch" =>
              run'[call[d].task] = "NOTRUN" /\ launches'[call[d].pkg] = 0
    PROVE  CallOk(d)'
  BY DEF CallOk, RecordsStand

(* A thread that is in no call has nothing to know.                        *)
LEMMA IdleKeeps == ASSUME NEW d \in Thread, call'[d].pc = "idle" PROVE CallOk(d)'
  BY DEF CallOk

(* LaunchedOnce follows from the records, once no package ran twice.       *)
LEMMA OnceByRecords ==
    ASSUME RecordInv', NoUnrecordedRun', \A p \in Package : launches'[p] \in {0, 1}
    PROVE  LaunchedOnce'
<1>1. ASSUME NEW p \in Package, NEW q \in Package, launches'[p] = 1, launches'[q] = 1,
             p.key = q.key \/ p.task = q.task
      PROVE  p = q
  <2>1. /\ store'[p.task].phase # "ABSENT" /\ store'[p.task].key = p.key
        /\ store'[p.task].intent = p.intent
        /\ store'[q.task].phase # "ABSENT" /\ store'[q.task].key = q.key
        /\ store'[q.task].intent = q.intent
    BY <1>1 DEF NoUnrecordedRun
  <2>2. p \in [task : Task, key : Key, intent : Intent] /\ q \in [task : Task, key : Key, intent : Intent]
    BY DispatcherAssumption
  <2>3. p.task = q.task
    BY <1>1, <2>1, <2>2 DEF RecordInv
  <2> QED BY <2>1, <2>2, <2>3
<1>2. \A p \in Package : launches'[p] <= 1
  OBVIOUS
<1> QED BY <1>1, <1>2 DEF LaunchedOnce

(* How often a package ran, in numbers.                                    *)
LEMMA OnceInNumbers ==
    ASSUME TypeOK, LaunchedOnce PROVE \A p \in Package : launches[p] \in {0, 1}
<1> SUFFICES ASSUME NEW p \in Package PROVE launches[p] \in {0, 1}
  OBVIOUS
<1>1. launches[p] \in 0..MaxLaunches /\ launches[p] <= 1
  BY DEF TypeOK, LaunchedOnce
<1> QED BY <1>1, DispatcherAssumption

(* Steps that neither store nor launch.                                    *)
LEMMA ReadKeeps ==
    ASSUME DispatchInv, TypeOK', UNCHANGED <<store, launches>>,
           \A t \in Task : run[t] = "NOTRUN" => run'[t] = "NOTRUN",
           \A d \in Thread :
              \/ call'[d] = call[d] /\ fresh'[d] \subseteq fresh[d]
              \/ call'[d].pc # "launch" /\ CallOk(d)'
    PROVE  DispatchInv'
<1>1. RecordInv'
  BY DEF DispatchInv, RecordInv
<1>2. CallInv'
  <2> SUFFICES ASSUME NEW d \in Thread PROVE CallOk(d)'
    BY DEF CallInv
  <2>1. CallOk(d) /\ RecordsStand
    BY DEF DispatchInv, CallInv, RecordsStand
  <2>2. call[d].pc = "launch" => run'[call[d].task] = "NOTRUN" /\ launches'[call[d].pkg] = 0
    BY <2>1 DEF CallOk
  <2> QED BY <2>1, <2>2, OtherKeeps
<1>3. OneLauncher'
  <2>1. \A d \in Thread : call'[d].pc = "launch" => call'[d] = call[d]
    OBVIOUS
  <2> QED BY <2>1 DEF DispatchInv, OneLauncher
<1>4. NoUnrecordedRun' /\ LaunchedOnce'
  BY DEF DispatchInv, NoUnrecordedRun, LaunchedOnce
<1> QED BY <1>1, <1>2, <1>3, <1>4 DEF DispatchInv

(* A launch: the package never ran, and its thread leaves "launch".        *)
LEMMA LaunchKeeps ==
    ASSUME DispatchInv, TypeOK', UNCHANGED <<store, fresh>>,
           NEW c \in Thread, call[c].pc = "launch", Launches(call[c].pkg),
           call'[c].pc # "launch", CallOk(c)',
           \A d \in Thread \ {c} : call'[d] = call[d]
    PROVE  DispatchInv'
<1> DEFINE p == call[c].pkg
<1>1. /\ p \in Package /\ p.task = call[c].task /\ p.task \in Task
      /\ store[p.task].phase # "ABSENT" /\ store[p.task].key = p.key
      /\ store[p.task].intent = p.intent /\ launches[p] = 0
  BY DEF DispatchInv, CallInv, CallOk
<1>2. /\ \A q \in Package : launches'[q] = IF q = p THEN 1 ELSE launches[q]
      /\ \A t \in Task \ {p.task} : run'[t] = run[t]
  BY <1>1 DEF Launches, DispatchInv, TypeOK
<1>3. RecordInv'
  BY <1>1, <1>2 DEF DispatchInv, RecordInv
<1>4. CallInv'
  <2> SUFFICES ASSUME NEW d \in Thread \ {c} PROVE CallOk(d)'
    BY DEF CallInv
  <2>1. CallOk(d) /\ RecordsStand
    BY DEF DispatchInv, CallInv, RecordsStand
  <2>2. ASSUME call[d].pc = "launch"
        PROVE  run'[call[d].task] = "NOTRUN" /\ launches'[call[d].pkg] = 0
    <3>1. /\ call[d].task \in Task /\ call[d].pkg \in Package
          /\ call[d].pkg.task = call[d].task
          /\ run[call[d].task] = "NOTRUN" /\ launches[call[d].pkg] = 0
      BY <2>1, <2>2 DEF CallOk
    <3>2. call[d].task # p.task
      BY <1>1, <2>2 DEF DispatchInv, OneLauncher
    <3> QED BY <1>2, <3>1, <3>2
  <2> QED BY <2>1, <2>2, OtherKeeps
<1>5. OneLauncher'
  BY DEF DispatchInv, OneLauncher
<1>6. NoUnrecordedRun'
  BY <1>1, <1>2 DEF DispatchInv, NoUnrecordedRun
<1>7. \A q \in Package : launches'[q] \in {0, 1}
  BY <1>2, OnceInNumbers DEF DispatchInv
<1>8. LaunchedOnce'
  BY <1>3, <1>6, <1>7, OnceByRecords
<1> QED BY <1>3, <1>4, <1>5, <1>6, <1>8 DEF DispatchInv

(* A swap: it keeps what the record is for, and every thread that goes on  *)
(* as it was has lost its hold on the record.                              *)
LEMMA SwapKeeps ==
    ASSUME DispatchInv, TypeOK', UNCHANGED <<run, launches>>,
           NEW t \in Task, NEW n, store' = [store EXCEPT ![t] = n],
           store[t].phase # "ABSENT", n.phase # "ABSENT",
           n.key = store[t].key, n.intent = store[t].intent,
           \A d \in Thread :
              \/ call'[d].pc = "idle"
              \/ call'[d] = call[d] /\ fresh'[d] \subseteq fresh[d] \ {t}
    PROVE  DispatchInv'
<1>1. \A u \in Task : store'[u] = IF u = t THEN n ELSE store[u]
  BY DEF DispatchInv, TypeOK
<1>2. RecordInv'
  <2>1. \A u \in Task : /\ store'[u].phase # "ABSENT" <=> store[u].phase # "ABSENT"
                       /\ store'[u].phase = "ABSENT" => store'[u] = store[u]
                       /\ store'[u].key = store[u].key /\ store'[u].intent = store[u].intent
    BY <1>1
  <2> QED BY <2>1 DEF DispatchInv, RecordInv
<1>3. CallInv'
  <2> SUFFICES ASSUME NEW d \in Thread PROVE CallOk(d)'
    BY DEF CallInv
  <2>1. CASE call'[d].pc = "idle"
    BY <2>1, IdleKeeps
  <2>2. CASE call'[d] = call[d] /\ fresh'[d] \subseteq fresh[d] \ {t}
    <3>1. CallOk(d) /\ RecordsStand
      BY <1>1 DEF DispatchInv, CallInv, RecordsStand
    <3>2. call[d].pc = "launch" => run'[call[d].task] = "NOTRUN" /\ launches'[call[d].pkg] = 0
      BY <3>1 DEF CallOk
    <3>3. \A u \in Task \cap fresh'[d] : store'[u] = store[u]
      BY <1>1, <2>2
    <3> QED BY <2>2, <3>1, <3>2, <3>3, OtherKeeps
  <2> QED BY <2>1, <2>2
<1>4. OneLauncher'
  <2>1. \A d \in Thread : call'[d].pc = "launch" => call'[d] = call[d]
    OBVIOUS
  <2> QED BY <2>1 DEF DispatchInv, OneLauncher
<1>5. NoUnrecordedRun' /\ LaunchedOnce'
  <2>1. \A p \in Package : p.task \in Task
    BY DispatcherAssumption
  <2> QED BY <1>1, <2>1 DEF DispatchInv, NoUnrecordedRun, LaunchedOnce
<1> QED BY <1>2, <1>3, <1>4, <1>5 DEF DispatchInv

(* The record a create makes: no record of its key, no launch of its task, *)
(* and no other thread at a launch of it before.                           *)
LEMMA CreateKeeps ==
    ASSUME DispatchInv, TypeOK', UNCHANGED <<run, launches>>,
           NEW c \in Thread, call[c].pc = "create", CreateAllowed(call[c].pkg),
           NEW n, store' = [store EXCEPT ![call[c].task] = n], n.phase = "PREPARED",
           n.key = call[c].pkg.key, n.intent = call[c].pkg.intent,
           call'[c] = [call[c] EXCEPT !.pc = "launch"],
           \A d \in Thread \ {c} :
              call'[d] = call[d] /\ fresh'[d] \subseteq fresh[d] \ {call[c].task}
    PROVE  DispatchInv'
<1> DEFINE p == call[c].pkg
           t == call[c].task
<1>1. /\ t \in Task /\ p \in Package /\ p.task = t
      /\ store[t].phase = "ABSENT" /\ \A u \in Task : store[u].phase # "ABSENT" => store[u].key # p.key
  BY DEF DispatchInv, CallInv, CallOk, CreateAllowed, Owner
<1>2. \A u \in Task : store'[u] = IF u = t THEN n ELSE store[u]
  BY <1>1 DEF DispatchInv, TypeOK
<1>3. p = [task |-> t, key |-> p.key, intent |-> p.intent]
  BY <1>1, DispatcherAssumption
<1>4. run[t] = "NOTRUN" /\ launches[p] = 0
  <2>1. launches[p] \in {0, 1} /\ ~(launches[p] > 0)
    BY <1>1, OnceInNumbers DEF DispatchInv, NoUnrecordedRun
  <2> QED BY <1>1, <2>1 DEF DispatchInv, RecordInv
<1>5. /\ call'[c].pc = "launch" /\ call'[c].task = t /\ call'[c].pkg = p
      /\ call[c] \in CallState
  BY DEF DispatchInv, TypeOK, CallState
<1>6. RecordInv'
  <2>1. \A u \in Task : store'[u].phase # "ABSENT" =>
           [task |-> u, key |-> store'[u].key, intent |-> store'[u].intent] \in Package
    BY <1>1, <1>2, <1>3 DEF DispatchInv, RecordInv
  <2>2. \A u, v \in Task :
           store'[u].phase # "ABSENT" /\ store'[v].phase # "ABSENT" /\ store'[u].key = store'[v].key
              => u = v
    BY <1>1, <1>2 DEF DispatchInv, RecordInv
  <2>3. \A u \in Task : store'[u].phase = "ABSENT" => store'[u] = NoRecord /\ run'[u] = "NOTRUN"
    BY <1>1, <1>2 DEF DispatchInv, RecordInv
  <2> QED BY <2>1, <2>2, <2>3 DEF RecordInv
<1>7. CallInv'
  <2>1. CallOk(c)'
    BY <1>1, <1>2, <1>4, <1>5 DEF CallOk
  <2>2. ASSUME NEW d \in Thread \ {c} PROVE CallOk(d)'
    <3>1. CallOk(d) /\ RecordsStand
      BY <1>1, <1>2 DEF DispatchInv, CallInv, RecordsStand
    <3>2. call[d].pc = "launch" => run'[call[d].task] = "NOTRUN" /\ launches'[call[d].pkg] = 0
      BY <3>1 DEF CallOk
    <3>3. \A u \in Task \cap fresh'[d] : store'[u] = store[u]
      BY <1>2
    <3> QED BY <3>1, <3>2, <3>3, OtherKeeps
  <2> QED BY <2>1, <2>2 DEF CallInv
<1>8. OneLauncher'
  <2>1. \A d \in Thread \ {c} : call[d].pc = "launch" => call[d].task # t
    BY <1>1 DEF DispatchInv, CallInv, CallOk
  <2>2. \A d \in Thread \ {c} : call'[d] = call[d]
    OBVIOUS
  <2>3. OneLauncher
    BY DEF DispatchInv
  <2> SUFFICES ASSUME NEW d \in Thread, NEW e \in Thread, call'[d].pc = "launch",
                      call'[e].pc = "launch", call'[d].task = call'[e].task, d # e
               PROVE  FALSE
    BY DEF OneLauncher
  <2> HIDE DEF p, t
  <2>4. CASE d = c
    <3>1. e \in Thread \ {c} /\ call'[e] = call[e] /\ call[e].task # t
      BY <2>1, <2>2, <2>4
    <3> QED BY <1>5, <2>4, <3>1
  <2>5. CASE e = c
    <3>1. d \in Thread \ {c} /\ call'[d] = call[d] /\ call[d].task # t
      BY <2>1, <2>2, <2>5
    <3> QED BY <1>5, <2>5, <3>1
  <2>6. CASE d # c /\ e # c
    BY <2>2, <2>3, <2>6 DEF OneLauncher
  <2> QED BY <2>4, <2>5, <2>6
<1>9. NoUnrecordedRun' /\ LaunchedOnce'
  <2>1. \A q \in Package : q.task \in Task
    BY DispatcherAssumption
  <2> QED BY <1>1, <1>2, <2>1 DEF DispatchInv, NoUnrecordedRun, LaunchedOnce
<1> QED BY <1>6, <1>7, <1>8, <1>9 DEF DispatchInv

-----------------------------------------------------------------------------
(* Types.                                                                  *)

(* A thread's host, and the packages of a scenario.                        *)
LEMMA ScenarioTypes ==
    ASSUME TypeOK
    PROVE  /\ \A c \in Thread : HostOf[c] \in Host
           /\ \A p \in scenario.packages : p \in Package
           /\ \A p \in Package : p.task \in Task /\ p.key \in Key /\ p.intent \in Intent
           /\ \A h \in Host : OriginOf[h] \in Session \cup {None}
  BY DispatcherAssumption DEF TypeOK, Scenario, HostOf

(* The call a thread is in after it returned.                              *)
LEMMA AfterReturn ==
    ASSUME TypeOK, NEW c \in Thread, NEW out \in {"none", "ok", "raised"}, Returns(c, out)
    PROVE  /\ call' \in [Thread -> CallState] /\ call'[c].pc = "idle"
           /\ \A d \in Thread \ {c} : call'[d] = call[d]
<1>1. Idle(out) \in CallState /\ Idle(out).pc = "idle"
  BY DEF Idle, CallState, Ops, NoRecord, Record, TaskState, Active, DeliveryState
<1> QED BY <1>1 DEF Returns, TypeOK

(* The call a thread is in after it went on.                               *)
LEMMA AfterGoing ==
    ASSUME TypeOK, NEW c \in Thread, NEW next \in CallState, Goes(c, next)
    PROVE  /\ call' \in [Thread -> CallState] /\ call'[c] = next
           /\ \A d \in Thread \ {c} : call'[d] = call[d]
  BY DEF Goes, TypeOK

(* A new call.                                                             *)
LEMMA StartedTypes ==
    ASSUME NEW op \in Ops, NEW pc \in {"create", "answered", "swap"}, NEW t \in Task
    PROVE  /\ Started(op, pc, t) \in CallState /\ Started(op, pc, t).pc = pc
           /\ Started(op, pc, t).task = t
<1>1. Idle("none") \in CallState
  BY DEF Idle, CallState, Ops, NoRecord, Record, TaskState, Active, DeliveryState
<1>2. Started(op, pc, t) = [Idle("none") EXCEPT !.op = op, !.pc = pc, !.task = t]
  BY DEF Started
<1> HIDE DEF Idle
<1> QED BY <1>1, <1>2 DEF CallState

(* A thread that was given an answer.                                      *)
LEMMA Asked ==
    ASSUME TypeOK, NEW c \in Thread, NEW op \in Ops, NEW t \in Task,
           NEW a \in TaskState \cup {"ERROR"},
           Goes(c, [Started(op, "answered", t) EXCEPT !.obs = a])
    PROVE  /\ call' \in [Thread -> CallState] /\ CallOk(c)'
           /\ call'[c].pc = "answered" /\ call'[c].task = t /\ call'[c].obs = a
           /\ \A d \in Thread \ {c} : call'[d] = call[d]
<1> DEFINE s == Started(op, "answered", t)
           next == [s EXCEPT !.obs = a]
<1>1. s \in CallState /\ s.pc = "answered" /\ s.task = t
  BY StartedTypes
<1> HIDE DEF s
<1>2. next \in CallState /\ next.pc = "answered" /\ next.task = t /\ next.obs = a
  BY <1>1 DEF CallState
<1>3. Goes(c, next)
  BY DEF s
<1> HIDE DEF next
<1>4. call' \in [Thread -> CallState] /\ call'[c] = next /\ \A d \in Thread \ {c} : call'[d] = call[d]
  BY <1>2, <1>3, AfterGoing
<1> QED BY <1>2, <1>4 DEF CallOk

(* A thread that goes on to swap a record it just read.                    *)
LEMMA GoesToSwap ==
    ASSUME DispatchInv, NEW c \in Thread, NEW t \in Task, NEW next \in CallState,
           Goes(c, next), next.pc = "swap", next.task = t, Reads(c, t),
           next.want.phase = store[t].phase, next.want.key = store[t].key,
           next.want.intent = store[t].intent, next.want.delivery = store[t].delivery,
           next.want.attempt = store[t].attempt,
           UNCHANGED store
    PROVE  /\ call' \in [Thread -> CallState] /\ fresh' \in [Thread -> SUBSET Task]
           /\ call'[c] = next /\ CallOk(c)'
           /\ \A d \in Thread \ {c} : call'[d] = call[d] /\ fresh'[d] = fresh[d]
<1>1. call' \in [Thread -> CallState] /\ call'[c] = next /\ \A d \in Thread \ {c} : call'[d] = call[d]
  BY AfterGoing DEF DispatchInv
<1>2. fresh' \in [Thread -> SUBSET Task] /\ \A d \in Thread \ {c} : fresh'[d] = fresh[d]
  BY DEF Reads, DispatchInv, TypeOK
<1>3. CallOk(c)'
  BY <1>1 DEF CallOk
<1> QED BY <1>1, <1>2, <1>3

(* A route that is learnt.                                                 *)
LEMMA Routed ==
    ASSUME TypeOK, NEW h \in Host, NEW t \in Task, NEW s \in TaskState,
           route' = [route EXCEPT ![h][t] = s]
    PROVE  /\ route' \in [Host -> [Task -> TaskState \cup {NoRoute}]]
           /\ \A g \in Host, u \in Task :
                 route'[g][u] = IF g = h /\ u = t THEN s ELSE route[g][u]
  BY DEF TypeOK

(* What a host knows of a task with a route is a state.                    *)
LEMMA KnownTypes ==
    ASSUME TypeOK, NEW h \in Host, NEW t \in Task PROVE Known(h, t) \in TaskState
  BY DEF TypeOK, Known, Record

-----------------------------------------------------------------------------
(* The steps of a dispatch.                                                *)

(* A step in which one call ends and nothing is stored or launched.        *)
LEMMA EndKeeps ==
    ASSUME DispatchInv, NEW c \in Thread, NEW out \in {"none", "ok", "raised"}, Returns(c, out),
           UNCHANGED <<scenario, store, fresh, cancels, resumes, run, launches, crashes>>,
           route' \in [Host -> [Task -> TaskState \cup {NoRoute}]],
           index' \in [Host -> SUBSET Package]
    PROVE  DispatchInv'
<1>1. /\ call' \in [Thread -> CallState] /\ call'[c].pc = "idle"
      /\ \A d \in Thread \ {c} : call'[d] = call[d]
  BY AfterReturn DEF DispatchInv
<1>2. TypeOK'
  BY <1>1 DEF DispatchInv, TypeOK
<1> QED BY <1>1, <1>2, ReadKeeps, IdleKeeps

(* What a replay adds to the host's memory is a package.                   *)
LEMMA ReplayTypes ==
    ASSUME DispatchInv, NEW c \in Thread, NEW p \in Package, ReplaysFromDurable(c, p)
    PROVE  /\ route' \in [Host -> [Task -> TaskState \cup {NoRoute}]]
           /\ index' \in [Host -> SUBSET Package]
<1>1. PICK t \in Owner(p.key) :
         /\ \E u \in Owner(p.key) : store[u].intent = p.intent /\ store[u].phase = "DISPATCHED"
         /\ route' = [route EXCEPT ![HostOf[c]][t] = store[t].state]
         /\ index' = [index EXCEPT ![HostOf[c]] =
                        @ \cup {[task |-> t, key |-> p.key, intent |-> p.intent]}]
  BY DEF ReplaysFromDurable, Replayable
<1>2. t \in Task /\ store[t].phase # "ABSENT" /\ store[t].key = p.key /\ HostOf[c] \in Host
  BY ScenarioTypes DEF Owner, DispatchInv
<1>3. [task |-> t, key |-> p.key, intent |-> p.intent] \in Package
  BY <1>1, <1>2 DEF Owner, DispatchInv, RecordInv
<1>4. store[t].state \in TaskState
  BY <1>2 DEF DispatchInv, TypeOK, Record
<1>5. route' \in [Host -> [Task -> TaskState \cup {NoRoute}]]
  BY <1>1, <1>2, <1>4, Routed DEF DispatchInv
<1>6. index' \in [Host -> SUBSET Package]
  BY <1>1, <1>2, <1>3 DEF DispatchInv, TypeOK
<1> QED BY <1>5, <1>6

(* A replay from the durable record launches nothing.                      *)
LEMMA DispatchReplaysKeeps ==
    ASSUME DispatchInv, NEW c \in Thread, NEW p \in scenario.packages, DispatchReplays(c, p)
    PROVE  DispatchInv'
<1>1. p \in Package
  BY ScenarioTypes DEF DispatchInv
<1> QED BY <1>1, ReplayTypes, EndKeeps DEF DispatchReplays

(* A dispatch of a key nobody owns goes to its create.                     *)
LEMMA DispatchKeeps ==
    ASSUME DispatchInv, NEW c \in Thread, NEW p \in scenario.packages, Dispatch(c, p)
    PROVE  DispatchInv'
<1> DEFINE s == Started("dispatch", "create", p.task)
           next == [s EXCEPT !.pkg = p]
<1>1. p \in Package /\ p.task \in Task
  BY ScenarioTypes DEF DispatchInv
<1>2. s \in CallState /\ s.pc = "create" /\ s.task = p.task
  BY <1>1, StartedTypes DEF Ops
<1>3. Goes(c, next)
  BY DEF Dispatch
<1> HIDE DEF s
<1>4. next \in CallState /\ next.pc = "create" /\ next.task = p.task /\ next.pkg = p
  BY <1>1, <1>2 DEF CallState
<1> HIDE DEF next
<1>5. call' \in [Thread -> CallState] /\ call'[c] = next /\ \A d \in Thread \ {c} : call'[d] = call[d]
  BY <1>3, <1>4, AfterGoing DEF DispatchInv
<1>6. TypeOK'
  BY <1>5 DEF Dispatch, DispatchInv, TypeOK
<1>7. CallOk(c)' /\ call'[c].pc # "launch"
  BY <1>1, <1>4, <1>5 DEF CallOk
<1> QED BY <1>5, <1>6, <1>7, ReadKeeps DEF Dispatch

(* The durable intent is stored before the launch.                         *)
LEMMA CreatePreparedKeeps ==
    ASSUME DispatchInv, NEW c \in Thread, CreatePrepared(c) PROVE DispatchInv'
<1> DEFINE p == call[c].pkg
           t == call[c].task
           n == Prepared(p.key, p.intent, OriginOf[HostOf[c]])
           next == [call[c] EXCEPT !.pc = "launch"]
<1>1. t \in Task /\ p \in Package /\ call[c] \in CallState
  BY DEF CreatePrepared, DispatchInv, CallInv, CallOk, TypeOK
<1>2. p.key \in Key /\ p.intent \in Intent /\ OriginOf[HostOf[c]] \in Session \cup {None}
  BY <1>1, ScenarioTypes DEF DispatchInv
<1>3. n \in Record /\ n.phase = "PREPARED" /\ n.key = p.key /\ n.intent = p.intent
  BY <1>2 DEF Prepared, NoRecord, Record, TaskState, Active, DeliveryState
<1>4. next \in CallState
  BY <1>1 DEF CallState
<1>5. /\ store' = [store EXCEPT ![t] = n] /\ Goes(c, next)
      /\ fresh' = [d \in Thread |-> IF d = c THEN fresh[d] \cup {t} ELSE fresh[d] \ {t}]
      /\ UNCHANGED <<scenario, route, index, cancels, resumes, run, launches, crashes>>
      /\ call[c].pc = "create" /\ CreateAllowed(p)
  BY DEF CreatePrepared, SwapsAndHolds
<1> HIDE DEF n, next
<1>6. call' \in [Thread -> CallState] /\ call'[c] = next /\ \A d \in Thread \ {c} : call'[d] = call[d]
  BY <1>4, <1>5, AfterGoing DEF DispatchInv
<1>7. store' \in [Task -> Record] /\ fresh' \in [Thread -> SUBSET Task]
  BY <1>1, <1>3, <1>5 DEF DispatchInv, TypeOK
<1>8. TypeOK'
  BY <1>5, <1>6, <1>7 DEF DispatchInv, TypeOK
<1>9. \A d \in Thread \ {c} : call'[d] = call[d] /\ fresh'[d] \subseteq fresh[d] \ {t}
  BY <1>5, <1>6
<1>10. call'[c] = [call[c] EXCEPT !.pc = "launch"]
  BY <1>6 DEF next
<1> QED BY <1>3, <1>5, <1>8, <1>9, <1>10, CreateKeeps

(* A lost create replays the record that won.                              *)
LEMMA CreateLostKeeps ==
    ASSUME DispatchInv, NEW c \in Thread, CreateLost(c) PROVE DispatchInv'
<1>1. call[c].pkg \in Package
  BY DEF CreateLost, DispatchInv, CallInv, CallOk
<1> QED BY <1>1, ReplayTypes, EndKeeps DEF CreateLost

(* The ends of a call that only raise.                                     *)
LEMMA RaisesKeeps ==
    ASSUME DispatchInv, NEW c \in Thread,
           CreateRaises(c) \/ ConfirmStale(c) \/ AnswerRaises(c) \/ SwapRaises(c)
    PROVE  DispatchInv'
<1>1. Returns(c, "raised") /\ UNCHANGED <<scenario, store, fresh, route, index, cancels,
                                          resumes, run, launches, crashes>>
  BY DEF CreateRaises, ConfirmStale, AnswerRaises, SwapRaises
<1>2. /\ route' \in [Host -> [Task -> TaskState \cup {NoRoute}]]
      /\ index' \in [Host -> SUBSET Package]
  BY <1>1 DEF DispatchInv, TypeOK
<1> QED BY <1>1, <1>2, EndKeeps

(* What a launch makes of the counters.                                    *)
LEMMA LaunchTypes ==
    ASSUME TypeOK, NEW p \in Package, Launches(p)
    PROVE  run' \in [Task -> RunState] /\ launches' \in [Package -> 0..MaxLaunches]
<1>1. launches[p] \in 0..MaxLaunches /\ launches[p] < MaxLaunches /\ MaxLaunches \in Nat
  BY DispatcherAssumption DEF Launches, TypeOK
<1>2. launches[p] + 1 \in 0..MaxLaunches
  BY <1>1
<1> QED BY <1>2 DEF Launches, TypeOK, RunState

(* A launch that succeeds: the first of its package.                       *)
LEMMA LaunchStepKeeps ==
    ASSUME DispatchInv, NEW c \in Thread, Launch(c) PROVE DispatchInv'
<1> DEFINE p == call[c].pkg
           next == [call[c] EXCEPT !.pc = "confirm"]
<1>1. /\ call[c].task \in Task /\ p \in Package /\ call[c] \in CallState
      /\ HostOf[c] \in Host /\ call[c].pc = "launch" /\ Launches(p) /\ CallOk(c)
  BY ScenarioTypes DEF Launch, DispatchInv, CallInv, CallOk, TypeOK
<1>2. /\ next \in CallState /\ next.pc = "confirm"
      /\ next.task = call[c].task /\ next.pkg = p
  BY <1>1 DEF CallState
<1>3. Goes(c, next)
  BY DEF Launch
<1> HIDE DEF next
<1>4. call' \in [Thread -> CallState] /\ call'[c] = next /\ \A d \in Thread \ {c} : call'[d] = call[d]
  BY <1>2, <1>3, AfterGoing DEF DispatchInv
<1>5. route' \in [Host -> [Task -> TaskState \cup {NoRoute}]]
  BY <1>1, Routed DEF Launch, DispatchInv, TaskState, Active
<1>6. index' \in [Host -> SUBSET Package]
  BY <1>1 DEF Launch, DispatchInv, TypeOK
<1>7. run' \in [Task -> RunState] /\ launches' \in [Package -> 0..MaxLaunches]
  BY <1>1, LaunchTypes DEF DispatchInv
<1>8. TypeOK'
  BY <1>4, <1>5, <1>6, <1>7 DEF Launch, DispatchInv, TypeOK
<1>9. CallOk(c)'
  BY <1>1, <1>2, <1>4 DEF Launch, CallOk
<1>10. UNCHANGED <<store, fresh>> /\ call'[c].pc # "launch"
  BY <1>2, <1>4 DEF Launch
<1> QED BY <1>1, <1>4, <1>8, <1>9, <1>10, LaunchKeeps

(* A launch that raises, whether or not the worker was started.            *)
LEMMA LaunchRaisesKeeps ==
    ASSUME DispatchInv, NEW c \in Thread, LaunchRaises(c) PROVE DispatchInv'
<1>1. /\ call' \in [Thread -> CallState] /\ call'[c].pc = "idle"
      /\ \A d \in Thread \ {c} : call'[d] = call[d]
  BY AfterReturn DEF LaunchRaises, DispatchInv
<1>2. call[c].pkg \in Package
  BY DEF LaunchRaises, DispatchInv, CallInv, CallOk
<1>3. CASE UNCHANGED <<launches, run>>
  <2>1. /\ route' \in [Host -> [Task -> TaskState \cup {NoRoute}]]
        /\ index' \in [Host -> SUBSET Package]
    BY DEF LaunchRaises, DispatchInv, TypeOK
  <2> QED BY <1>3, <2>1, EndKeeps DEF LaunchRaises
<1>4. CASE Launches(call[c].pkg)
  <2>1. run' \in [Task -> RunState] /\ launches' \in [Package -> 0..MaxLaunches]
    BY <1>2, <1>4, LaunchTypes DEF DispatchInv
  <2>2. TypeOK'
    BY <1>1, <2>1 DEF LaunchRaises, DispatchInv, TypeOK
  <2>3. CallOk(c)'
    BY <1>1, IdleKeeps
  <2> QED BY <1>1, <1>4, <2>2, <2>3, LaunchKeeps DEF LaunchRaises
<1> QED BY <1>3, <1>4 DEF LaunchRaises

(* A swap at the end of a call.                                            *)
LEMMA SwapEndsCall ==
    ASSUME DispatchInv, NEW c \in Thread, NEW t \in Task, NEW n \in Record,
           Swaps(t, n), Returns(c, "ok"), MayUpdate(store[t], n),
           n.key = store[t].key, n.intent = store[t].intent,
           UNCHANGED <<scenario, route, index, cancels, resumes, run, launches, crashes>>
    PROVE  DispatchInv'
<1>1. /\ call' \in [Thread -> CallState] /\ call'[c].pc = "idle"
      /\ \A d \in Thread \ {c} : call'[d] = call[d]
  BY AfterReturn DEF DispatchInv
<1>2. /\ store' = [store EXCEPT ![t] = n] /\ store' \in [Task -> Record]
      /\ fresh' \in [Thread -> SUBSET Task] /\ \A d \in Thread : fresh'[d] = fresh[d] \ {t}
  BY DEF Swaps, DispatchInv, TypeOK
<1>3. TypeOK'
  BY <1>1, <1>2 DEF DispatchInv, TypeOK
<1>4. store[t].phase # "ABSENT" /\ n.phase # "ABSENT"
  BY DEF MayUpdate, PhaseMoves
<1>5. \A d \in Thread :
         \/ call'[d].pc = "idle"
         \/ call'[d] = call[d] /\ fresh'[d] \subseteq fresh[d] \ {t}
  BY <1>1, <1>2
<1> QED BY <1>2, <1>3, <1>4, <1>5, SwapKeeps

(* The confirmation only moves the phase and the state.                    *)
LEMMA ConfirmKeeps ==
    ASSUME DispatchInv, NEW c \in Thread, Confirm(c) PROVE DispatchInv'
<1> DEFINE t == call[c].task
           n == Confirmed(store[t])
<1>1. t \in Task /\ store[t] \in Record
  BY DEF Confirm, DispatchInv, CallInv, CallOk, TypeOK
<1>2. n \in Record /\ n.key = store[t].key /\ n.intent = store[t].intent
  BY <1>1 DEF Confirmed, Record, TaskState, Active
<1>3. Swaps(t, n) /\ MayUpdate(store[t], n)
  BY DEF Confirm, Swappable
<1>4. /\ Returns(c, "ok")
      /\ UNCHANGED <<scenario, route, index, cancels, resumes, run, launches, crashes>>
  BY DEF Confirm
<1> HIDE DEF t, n
<1> QED BY <1>1, <1>2, <1>3, <1>4, SwapEndsCall

(* All steps of a dispatch keep the invariant.                             *)
LEMMA DispatchStepKeeps ==
    ASSUME DispatchInv, NEW c \in Thread, DispatchStep(c) PROVE DispatchInv'
  BY CreatePreparedKeeps, CreateLostKeeps, RaisesKeeps, LaunchStepKeeps, LaunchRaisesKeeps,
     ConfirmKeeps DEF DispatchStep

-----------------------------------------------------------------------------
(* The questions to the adapter and what follows the answer.               *)

(* A question that was asked: routes, runs and caches may change with it.  *)
LEMMA AskKeeps ==
    ASSUME DispatchInv, NEW c \in Thread, NEW op \in Ops, NEW t \in Task,
           NEW a \in TaskState \cup {"ERROR"},
           Goes(c, [Started(op, "answered", t) EXCEPT !.obs = a]),
           UNCHANGED <<scenario, store, fresh, index, launches, crashes>>,
           route' \in [Host -> [Task -> TaskState \cup {NoRoute}]],
           cancels' \in [Host -> [Task -> TaskState \cup {None}]],
           resumes' \in [Host -> SUBSET Task],
           run' \in [Task -> RunState],
           \A u \in Task : run[u] = "NOTRUN" => run'[u] = "NOTRUN"
    PROVE  DispatchInv'
<1>1. /\ call' \in [Thread -> CallState] /\ CallOk(c)' /\ call'[c].pc = "answered"
      /\ \A d \in Thread \ {c} : call'[d] = call[d]
  BY Asked DEF DispatchInv
<1>2. TypeOK'
  BY <1>1 DEF DispatchInv, TypeOK
<1> QED BY <1>1, <1>2, ReadKeeps

(* The route a question rehydrates.                                        *)
LEMMA RehydratedTypes ==
    ASSUME TypeOK, NEW c \in Thread, NEW t \in Task, Rehydrates(HostOf[c], t)
    PROVE  route' \in [Host -> [Task -> TaskState \cup {NoRoute}]]
  BY ScenarioTypes, KnownTypes, Routed DEF Rehydrates

(* What the adapter may answer.                                            *)
LEMMA AnswerTypes ==
    ASSUME TypeOK, NEW t \in Task
    PROVE  /\ StatusAnswers(t) \subseteq TaskState \cup {"ERROR"}
           /\ ResultAnswers(t) \subseteq TaskState \cup {"ERROR"}
<1>1. run[t] \in RunState
  BY DEF TypeOK
<1> QED BY <1>1 DEF StatusAnswers, ResultAnswers, RunState, TaskState, Active, Terminal

(* status, result and reconcile ask the adapter.                           *)
LEMMA QueryKeeps ==
    ASSUME DispatchInv, NEW c \in Thread, NEW t \in Task,
           Status(c, t) \/ Result(c, t) \/ Reconcile(c, t)
    PROVE  DispatchInv'
<1>1. PICK op \in Ops, a \in TaskState \cup {"ERROR"} :
         /\ Goes(c, [Started(op, "answered", t) EXCEPT !.obs = a])
         /\ Rehydrates(HostOf[c], t)
         /\ UNCHANGED <<scenario, store, fresh, index, cancels, resumes, run, launches, crashes>>
  BY AnswerTypes DEF DispatchInv, Status, Result, Reconcile, Query, Ops
<1>2. route' \in [Host -> [Task -> TaskState \cup {NoRoute}]]
  BY <1>1, RehydratedTypes DEF DispatchInv
<1>3. /\ cancels' \in [Host -> [Task -> TaskState \cup {None}]]
      /\ resumes' \in [Host -> SUBSET Task] /\ run' = run /\ run' \in [Task -> RunState]
  BY <1>1 DEF DispatchInv, TypeOK
<1> QED BY <1>1, <1>2, <1>3, AskKeeps

(* A cancel that is answered may end the run.                              *)
LEMMA CancelKeeps ==
    ASSUME DispatchInv, NEW c \in Thread, NEW t \in Task, Cancel(c, t) PROVE DispatchInv'
<1>1. PICK a \in {"CANCELLED", run[t]} \cap TaskState :
         /\ a = "CANCELLED" => run[t] \in {"RUNNING", "CANCELLED"}
         /\ run' = [run EXCEPT ![t] = IF a = "CANCELLED" THEN a ELSE @]
         /\ cancels' = [cancels EXCEPT ![HostOf[c]][t] = a]
         /\ CancelAnswered(c, t, a)
  BY DEF Cancel
<1>2. HostOf[c] \in Host
  BY ScenarioTypes DEF DispatchInv
<1>3. cancels' \in [Host -> [Task -> TaskState \cup {None}]]
  BY <1>1, <1>2 DEF DispatchInv, TypeOK
<1>4. /\ run' \in [Task -> RunState]
      /\ \A u \in Task : run[u] = "NOTRUN" => run'[u] = "NOTRUN"
  BY <1>1 DEF DispatchInv, TypeOK, RunState, Terminal
<1>5. route' \in [Host -> [Task -> TaskState \cup {NoRoute}]]
  BY RehydratedTypes DEF Cancel, CancelAsks, DispatchInv
<1>6. Goes(c, [Started("cancel", "answered", t) EXCEPT !.obs = a]) /\ "cancel" \in Ops
  BY <1>1 DEF CancelAnswered, Ops
<1>7. /\ UNCHANGED <<scenario, store, fresh, index, launches, crashes>>
      /\ resumes' \in [Host -> SUBSET Task]
  BY DEF Cancel, DispatchInv, TypeOK
<1>8. a \in TaskState \cup {"ERROR"}
  BY <1>1
<1> QED BY <1>3, <1>4, <1>5, <1>6, <1>7, <1>8, AskKeeps

(* A cancel that is repeated or unreachable changes no run.                *)
LEMMA CancelAgainKeeps ==
    ASSUME DispatchInv, NEW c \in Thread, NEW t \in Task,
           CancelRepeats(c, t) \/ CancelUnreachable(c, t)
    PROVE  DispatchInv'
<1>1. HostOf[c] \in Host
  BY ScenarioTypes DEF DispatchInv
<1>2. PICK a \in TaskState : Goes(c, [Started("cancel", "answered", t) EXCEPT !.obs = a])
  <2>1. CASE CancelRepeats(c, t)
    <3>1. cancels[HostOf[c]][t] \in TaskState
      BY <1>1, <2>1 DEF CancelRepeats, DispatchInv, TypeOK
    <3> QED BY <2>1, <3>1 DEF CancelRepeats, CancelAnswered
  <2>2. CASE CancelUnreachable(c, t)
    BY <2>2 DEF CancelUnreachable, CancelAnswered, TaskState, Active
  <2> QED BY <2>1, <2>2
<1>3. /\ Rehydrates(HostOf[c], t)
      /\ UNCHANGED <<scenario, store, fresh, index, cancels, resumes, run, launches, crashes>>
  BY DEF CancelRepeats, CancelUnreachable, CancelAsks
<1>4. route' \in [Host -> [Task -> TaskState \cup {NoRoute}]]
  BY <1>3, RehydratedTypes DEF DispatchInv
<1>5. /\ cancels' \in [Host -> [Task -> TaskState \cup {None}]]
      /\ resumes' \in [Host -> SUBSET Task] /\ run' = run /\ run' \in [Task -> RunState]
  BY <1>3 DEF DispatchInv, TypeOK
<1>6. "cancel" \in Ops /\ a \in TaskState \cup {"ERROR"}
  BY DEF Ops
<1> QED BY <1>2, <1>3, <1>4, <1>5, <1>6, AskKeeps

(* A resume changes no run.                                                *)
LEMMA ResumeKeeps ==
    ASSUME DispatchInv, NEW c \in Thread, NEW t \in Task, Resume(c, t) PROVE DispatchInv'
<1>1. HostOf[c] \in Host
  BY ScenarioTypes DEF DispatchInv
<1>2. /\ Goes(c, [Started("resume", "answered", t) EXCEPT !.obs = "RUNNING"])
      /\ "resume" \in Ops /\ "RUNNING" \in TaskState \cup {"ERROR"}
  BY DEF Resume, Ops, TaskState, Active
<1>3. route' \in [Host -> [Task -> TaskState \cup {NoRoute}]]
  BY RehydratedTypes DEF Resume, DispatchInv
<1>4. resumes' \in [Host -> SUBSET Task]
  BY <1>1 DEF Resume, DispatchInv, TypeOK
<1>5. /\ UNCHANGED <<scenario, store, fresh, index, launches, crashes>>
      /\ cancels' \in [Host -> [Task -> TaskState \cup {None}]]
      /\ run' = run /\ run' \in [Task -> RunState]
  BY DEF Resume, DispatchInv, TypeOK
<1> QED BY <1>2, <1>3, <1>4, <1>5, AskKeeps

(* The answer a thread checked is a state.                                 *)
LEMMA KeptAnswer ==
    ASSUME DispatchInv, NEW c \in Thread, KeepsAnswer(c)
    PROVE  /\ Answer(c) \in TaskState /\ call[c].task \in Task /\ call[c].op \in Ops
           /\ store[call[c].task] \in Record
           /\ route' \in [Host -> [Task -> TaskState \cup {NoRoute}]]
<1> DEFINE t == call[c].task
<1>1. /\ t \in Task /\ call[c].obs \in TaskState \cup {"ERROR"} /\ HostOf[c] \in Host
      /\ call[c].op \in Ops /\ store[t] \in Record
  BY ScenarioTypes DEF KeepsAnswer, DispatchInv, CallInv, CallOk, TypeOK, CallState
<1>2. Answer(c) \in TaskState \cup {"ERROR"}
  BY <1>1 DEF Answer, Observed, TaskState, Active, Terminal
<1>3. Answer(c) \in TaskState
  BY <1>2 DEF KeepsAnswer, Refused
<1>4. route' \in [Host -> [Task -> TaskState \cup {NoRoute}]]
  BY <1>1, <1>3, Routed DEF KeepsAnswer, DispatchInv
<1> QED BY <1>1, <1>3, <1>4

(* An answer that needs no swap ends the call.                             *)
LEMMA AnswerKeptKeeps ==
    ASSUME DispatchInv, NEW c \in Thread, AnswerKept(c) PROVE DispatchInv'
<1>1. route' \in [Host -> [Task -> TaskState \cup {NoRoute}]]
  BY KeptAnswer DEF AnswerKept
<1>2. PICK out \in {"ok", "raised"} : Returns(c, out)
  BY DEF AnswerKept
<1>3. /\ UNCHANGED <<scenario, store, fresh, index, cancels, resumes, run, launches, crashes>>
      /\ index' \in [Host -> SUBSET Package]
  BY DEF AnswerKept, DispatchInv, TypeOK
<1> QED BY <1>1, <1>2, <1>3, EndKeeps

(* The record an answer asks for changes only state and result.            *)
LEMMA WantedTypes ==
    ASSUME NEW op, NEW r \in Record, NEW s \in TaskState
    PROVE  LET n == Wanted(op, r, s) IN
           /\ n \in Record /\ n.state = s
           /\ n.phase = r.phase /\ n.key = r.key /\ n.intent = r.intent
           /\ n.delivery = r.delivery /\ n.attempt = r.attempt
<1>1. CASE StateOp(op) \/ s \notin Terminal
  BY <1>1 DEF Wanted, Record
<1>2. CASE ~(StateOp(op) \/ s \notin Terminal)
  BY <1>2 DEF Wanted, Record
<1> QED BY <1>1, <1>2

(* An answer to store: the record is read, the swap comes later.           *)
LEMMA AnswerSwapsKeeps ==
    ASSUME DispatchInv, NEW c \in Thread, AnswerSwaps(c) PROVE DispatchInv'
<1> DEFINE t == call[c].task
           n == Wanted(call[c].op, store[t], Answer(c))
           next == [call[c] EXCEPT !.pc = "swap", !.want = n]
<1>1. /\ Answer(c) \in TaskState /\ t \in Task /\ store[t] \in Record /\ call[c] \in CallState
      /\ route' \in [Host -> [Task -> TaskState \cup {NoRoute}]]
  BY KeptAnswer DEF AnswerSwaps, DispatchInv, TypeOK
<1>2. /\ n \in Record /\ n.phase = store[t].phase /\ n.key = store[t].key
      /\ n.intent = store[t].intent /\ n.delivery = store[t].delivery
      /\ n.attempt = store[t].attempt
  BY <1>1, WantedTypes
<1>3. Goes(c, next) /\ Reads(c, t)
      /\ UNCHANGED <<scenario, store, index, cancels, resumes, run, launches, crashes>>
  BY DEF AnswerSwaps
<1> HIDE DEF n
<1>4. next \in CallState /\ next.pc = "swap" /\ next.task = t /\ next.want = n
  BY <1>1, <1>2 DEF CallState
<1> HIDE DEF next
<1>5. /\ call' \in [Thread -> CallState] /\ fresh' \in [Thread -> SUBSET Task]
      /\ call'[c] = next /\ CallOk(c)'
      /\ \A d \in Thread \ {c} : call'[d] = call[d] /\ fresh'[d] = fresh[d]
  BY <1>1, <1>2, <1>3, <1>4, GoesToSwap
<1>6. TypeOK'
  BY <1>1, <1>3, <1>5 DEF DispatchInv, TypeOK
<1> QED BY <1>3, <1>4, <1>5, <1>6, ReadKeeps

(* The swap of an answer keeps what the record is for.                     *)
LEMMA SwapStepKeeps ==
    ASSUME DispatchInv, NEW c \in Thread, Swap(c) PROVE DispatchInv'
<1> DEFINE t == call[c].task
           n == call[c].want
<1>1. t \in Task /\ n \in Record /\ t \in fresh[c] /\ MayUpdate(store[t], n)
  BY DEF Swap, Swappable, DispatchInv, CallInv, CallOk, TypeOK, CallState
<1>2. n.key = store[t].key /\ n.intent = store[t].intent
  BY <1>1 DEF Swap, DispatchInv, CallInv, CallOk
<1> QED BY <1>1, <1>2, SwapEndsCall DEF Swap

(* All steps after an answer keep the invariant.                           *)
LEMMA AnswerStepKeeps ==
    ASSUME DispatchInv, NEW c \in Thread, AnswerStep(c) PROVE DispatchInv'
  BY RaisesKeeps, AnswerKeptKeeps, AnswerSwapsKeeps, SwapStepKeeps DEF AnswerStep

(* bind_origin_session_ref reads the record and goes on to a swap.         *)
LEMMA BindOriginKeeps ==
    ASSUME DispatchInv, NEW c \in Thread, NEW t \in Task, NEW s \in Session, BindOrigin(c, t, s)
    PROVE  DispatchInv'
<1> DEFINE n == [store[t] EXCEPT !.origin = s]
           b == Started("bind", "swap", t)
           next == [b EXCEPT !.want = n]
<1>1. store[t] \in Record
  BY DEF DispatchInv, TypeOK
<1>2. /\ n \in Record /\ n.phase = store[t].phase /\ n.key = store[t].key
      /\ n.intent = store[t].intent /\ n.delivery = store[t].delivery
      /\ n.attempt = store[t].attempt
  BY <1>1 DEF Record
<1>3. b \in CallState /\ b.pc = "swap" /\ b.task = t
  BY StartedTypes DEF Ops
<1>4. Goes(c, next) /\ Reads(c, t)
      /\ UNCHANGED <<scenario, store, route, index, cancels, resumes, run, launches, crashes>>
  BY DEF BindOrigin
<1> HIDE DEF n, b
<1>5. next \in CallState /\ next.pc = "swap" /\ next.task = t /\ next.want = n
  BY <1>2, <1>3 DEF CallState
<1> HIDE DEF next
<1>6. /\ call' \in [Thread -> CallState] /\ fresh' \in [Thread -> SUBSET Task]
      /\ call'[c] = next /\ CallOk(c)'
      /\ \A d \in Thread \ {c} : call'[d] = call[d] /\ fresh'[d] = fresh[d]
  BY <1>2, <1>4, <1>5, GoesToSwap
<1>7. TypeOK'
  BY <1>4, <1>6 DEF DispatchInv, TypeOK
<1> QED BY <1>4, <1>5, <1>6, <1>7, ReadKeeps

(* All requests keep the invariant.                                        *)
LEMMA RequestKeeps ==
    ASSUME DispatchInv, NEW c \in Thread, Request(c) PROVE DispatchInv'
  BY DispatchReplaysKeeps, DispatchKeeps, QueryKeeps, CancelKeeps, CancelAgainKeeps,
     ResumeKeeps, BindOriginKeeps DEF Request

-----------------------------------------------------------------------------
(* The worker, the crash, and every step.                                  *)

(* The end of a worker ends a run that was started.                        *)
LEMMA WorkerEndsKeeps ==
    ASSUME DispatchInv, NEW t \in Task, NEW s \in {"COMPLETED", "FAILED", "TIMEOUT"},
           WorkerEnds(t, s)
    PROVE  DispatchInv'
<1>1. /\ run' \in [Task -> RunState]
      /\ \A u \in Task : run[u] = "NOTRUN" => run'[u] = "NOTRUN"
  BY DEF WorkerEnds, DispatchInv, TypeOK, RunState, Terminal
<1>2. TypeOK'
  BY <1>1 DEF WorkerEnds, DispatchInv, TypeOK
<1> QED BY <1>1, <1>2, ReadKeeps DEF WorkerEnds

(* A crash of a host forgets its calls and holds, not the records.         *)
LEMMA CrashHostKeeps ==
    ASSUME DispatchInv, NEW h \in Host, CrashHost(h) PROVE DispatchInv'
<1>1. Idle("none") \in CallState /\ Idle("none").pc = "idle"
  BY DEF Idle, CallState, Ops, NoRecord, Record, TaskState, Active, DeliveryState
<1>2. /\ call' \in [Thread -> CallState] /\ fresh' \in [Thread -> SUBSET Task]
      /\ \A d \in Thread : \/ call'[d].pc = "idle"
                           \/ call'[d] = call[d] /\ fresh'[d] = fresh[d]
  BY <1>1 DEF CrashHost, DispatchInv, TypeOK
<1>3. /\ route' \in [Host -> [Task -> TaskState \cup {NoRoute}]]
      /\ index' \in [Host -> SUBSET Package]
      /\ cancels' \in [Host -> [Task -> TaskState \cup {None}]]
      /\ resumes' \in [Host -> SUBSET Task]
  BY DEF CrashHost, DispatchInv, TypeOK
<1>4. scenario' = scenario /\ crashes' \in 0..scenario.crashes
  <2>1. crashes \in 0..scenario.crashes /\ scenario.crashes \in Nat /\ crashes < scenario.crashes
    BY DispatcherAssumption DEF CrashHost, DispatchInv, TypeOK, Scenario
  <2> QED BY <2>1 DEF CrashHost
<1>5. TypeOK'
  BY <1>2, <1>3, <1>4 DEF CrashHost, DispatchInv, TypeOK
<1> QED BY <1>2, <1>5, ReadKeeps, IdleKeeps DEF CrashHost

(* DispatchInv is inductive ...                                            *)
LEMMA NextKeepsDispatchInv == ASSUME DispatchInv, [Next]_vars PROVE DispatchInv'
<1>1. CASE UNCHANGED vars
  <2>1. TypeOK'
    BY <1>1 DEF vars, DispatchInv, TypeOK
  <2> QED BY <1>1, <2>1, ReadKeeps DEF vars
<1>2. ASSUME NEW c \in Thread, Request(c) \/ DispatchStep(c) \/ AnswerStep(c) PROVE DispatchInv'
  BY <1>2, RequestKeeps, DispatchStepKeeps, AnswerStepKeeps
<1>3. CASE Environment
  BY <1>3, WorkerEndsKeeps, CrashHostKeeps DEF Environment
<1> QED BY <1>1, <1>2, <1>3 DEF Next

(* ... and holds at the start.                                             *)
LEMMA InitDispatchInv == ASSUME Init PROVE DispatchInv
<1>1. NoRecord \in Record /\ NoRecord.phase = "ABSENT"
  BY DEF NoRecord, Record, TaskState, Active, DeliveryState
<1>2. Idle("none") \in CallState /\ Idle("none").pc = "idle"
  BY DEF Idle, CallState, Ops, NoRecord, Record, TaskState, Active, DeliveryState
<1>3. scenario.crashes \in Nat /\ MaxLaunches \in Nat
  BY DispatcherAssumption DEF Init, Scenario
<1> HIDE DEF NoRecord, Idle
<1>4. TypeOK
  BY <1>1, <1>2, <1>3 DEF Init, TypeOK, RunState
<1>5. RecordInv
  BY <1>1 DEF Init, RecordInv
<1>6. CallInv /\ OneLauncher
  BY <1>2 DEF Init, CallInv, CallOk, OneLauncher
<1>7. NoUnrecordedRun /\ LaunchedOnce
  BY DEF Init, NoUnrecordedRun, LaunchedOnce
<1> QED BY <1>4, <1>5, <1>6, <1>7 DEF DispatchInv

(* The inductive invariant of dispatch.                                    *)
THEOREM DispatchIsSafe == Spec => []DispatchInv
  BY InitDispatchInv, NextKeepsDispatchInv, PTL DEF Spec

(* No idempotency key and no task id is ever physically dispatched twice   *)
(* (dispatcher.py, _create_prepared_record before adapter.dispatch).       *)
THEOREM DispatchedAtMostOnce == Spec => []LaunchedOnce
<1>1. DispatchInv => LaunchedOnce
  BY DEF DispatchInv
<1> QED BY <1>1, DispatchIsSafe, PTL

(* A worker that was started has a durable record of the intent it was     *)
(* started for, wherever the host died.                                    *)
THEOREM RunsAreRecorded == Spec => []NoUnrecordedRun
<1>1. DispatchInv => NoUnrecordedRun
  BY DEF DispatchInv
<1> QED BY <1>1, DispatchIsSafe, PTL

-----------------------------------------------------------------------------
(* Terminal states are true.                                               *)

(* What a run came to it keeps.                                            *)
RunsGoOn == \A t \in Task : run[t] \notin {"NOTRUN", "RUNNING"} => run'[t] = run[t]

(* s tells of t, exactly or not, after the step.                           *)
Told(m, t, s) ==
    s \in Terminal =>
       /\ run'[t] \notin {"NOTRUN", "RUNNING"}
       /\ m = "exact" => s = IF run'[t] = "TIMEOUT" THEN "FAILED" ELSE run'[t]

(* No step changes what a run came to.                                     *)
LEMMA StepRunsGoOn ==
    ASSUME DispatchInv, [Next]_vars PROVE RunsGoOn
<1>1. CASE UNCHANGED run
  BY <1>1 DEF RunsGoOn
<1>2. CASE \E c \in Thread : Launch(c) \/ LaunchRaises(c)
  <2>1. PICK c \in Thread : Launch(c) \/ LaunchRaises(c)
    BY <1>2
  <2>2. /\ call[c].pkg.task \in Task /\ run[call[c].pkg.task] = "NOTRUN"
        /\ Launches(call[c].pkg) \/ UNCHANGED run
    BY <2>1 DEF Launch, LaunchRaises, DispatchInv, CallInv, CallOk
  <2> QED BY <1>1, <2>2 DEF Launches, RunsGoOn, DispatchInv, TypeOK
<1>3. CASE \E c \in Thread, t \in Task : Cancel(c, t)
  BY <1>3 DEF Cancel, RunsGoOn, DispatchInv, TypeOK
<1>4. CASE \E t \in Task, s \in {"COMPLETED", "FAILED", "TIMEOUT"} : WorkerEnds(t, s)
  BY <1>4 DEF WorkerEnds, RunsGoOn, DispatchInv, TypeOK
<1>5. ASSUME NEW c \in Thread, Request(c) \/ DispatchStep(c) \/ AnswerStep(c)
      PROVE  \/ UNCHANGED run
             \/ Launch(c) \/ LaunchRaises(c) \/ \E t \in Task : Cancel(c, t)
  <2>1. CASE Request(c)
    BY <2>1 DEF Request, DispatchReplays, Dispatch, Status, Result, Reconcile, Query,
                CancelRepeats, CancelUnreachable, Resume, BindOrigin
  <2>2. CASE DispatchStep(c)
    BY <2>2 DEF DispatchStep, CreatePrepared, CreateLost, CreateRaises, Confirm, ConfirmStale
  <2>3. CASE AnswerStep(c)
    BY <2>3 DEF AnswerStep, AnswerRaises, AnswerKept, AnswerSwaps, Swap, SwapRaises
  <2> QED BY <1>5, <2>1, <2>2, <2>3
<1>6. ASSUME NEW h \in Host, CrashHost(h) PROVE UNCHANGED run
  BY <1>6 DEF CrashHost
<1> QED BY <1>1, <1>2, <1>3, <1>4, <1>5, <1>6 DEF Next, Environment, vars

(* What was true stays true.                                               *)
LEMMA ToldAgain ==
    ASSUME NEW m, RunsGoOn, NEW t \in Task, NEW s, Tells(m, t, s) PROVE Told(m, t, s)
  BY DEF RunsGoOn, Tells, Told, Truth, Terminal

(* A step after which every state in hand is an old one or a true one.     *)
LEMMA TruthKeeps ==
    ASSUME NEW m, DispatchInv, TruthInv(m), RunsGoOn,
           \A t \in Task : store'[t].state = store[t].state \/ Told(m, t, store'[t].state),
           \A h \in Host, t \in Task :
              /\ route'[h][t] = route[h][t] \/ Told(m, t, route'[h][t])
              /\ cancels'[h][t] = cancels[h][t] \/ Told(m, t, cancels'[h][t]),
           \A c \in Thread :
              \/ call'[c] = call[c]
              \/ /\ call'[c].pc = "answered" => Told(m, call'[c].task, call'[c].obs)
                 /\ call'[c].pc = "swap" => Told(m, call'[c].task, call'[c].want.state)
    PROVE  TruthInv(m)'
<1>1. \A t \in Task : Told(m, t, store'[t].state)
  BY ToldAgain DEF TruthInv
<1>2. \A h \in Host, t \in Task : Told(m, t, route'[h][t]) /\ Told(m, t, cancels'[h][t])
  BY ToldAgain DEF TruthInv
<1>3. ASSUME NEW c \in Thread
      PROVE  /\ call'[c].pc = "answered" => Told(m, call'[c].task, call'[c].obs)
             /\ call'[c].pc = "swap" => Told(m, call'[c].task, call'[c].want.state)
  <2>1. CASE call'[c] = call[c]
    <3>1. call[c].pc # "idle" => call[c].task \in Task
      BY DEF DispatchInv, CallInv, CallOk
    <3> QED BY <2>1, <3>1, ToldAgain DEF TruthInv
  <2> QED BY <2>1
<1> QED BY <1>1, <1>2, <1>3 DEF TruthInv, Told, Tells, Truth

(* Not a terminal state, and so true of anything.                          *)
LEMMA OpenIsTold ==
    ASSUME NEW m, NEW t, NEW s \in {"UNKNOWN", "ERROR", "RUNNING", "CREATED", NoRoute, None}
    PROVE  Told(m, t, s)
  BY DispatcherAssumption DEF Told, Terminal, NoRoute, TaskState

(* The route a question or a replay takes from the record is true.         *)
LEMMA RouteTold ==
    ASSUME NEW m, DispatchInv, TruthInv(m), RunsGoOn, NEW g \in Host, NEW u \in Task,
           NEW s, s = store[u].state \/ s = Known(g, u) \/ s = "RUNNING" \/ Told(m, u, s),
           s \in TaskState,
           route' = [route EXCEPT ![g][u] = s]
    PROVE  \A h \in Host, t \in Task : route'[h][t] = route[h][t] \/ Told(m, t, route'[h][t])
<1>1. Told(m, u, s)
  BY ToldAgain, OpenIsTold DEF TruthInv, Known
<1>2. \A h \in Host, t \in Task : route'[h][t] = IF h = g /\ t = u THEN s ELSE route[h][t]
  BY Routed DEF DispatchInv
<1> QED BY <1>1, <1>2

(* A question: the answer is true, and so is what else it made known.      *)
LEMMA AskTells ==
    ASSUME NEW m, DispatchInv, TruthInv(m), RunsGoOn, NEW c \in Thread, NEW op \in Ops, NEW t \in Task,
           NEW a \in TaskState \cup {"ERROR"}, Told(m, t, a),
           Goes(c, [Started(op, "answered", t) EXCEPT !.obs = a]),
           Rehydrates(HostOf[c], t), UNCHANGED store,
           UNCHANGED cancels \/ cancels' = [cancels EXCEPT ![HostOf[c]][t] = a]
    PROVE  TruthInv(m)'
<1>1. HostOf[c] \in Host
  BY ScenarioTypes DEF DispatchInv
<1>2. \A h \in Host, u \in Task : route'[h][u] = route[h][u] \/ Told(m, u, route'[h][u])
  BY <1>1, KnownTypes, RouteTold DEF Rehydrates, DispatchInv
<1>3. \A h \in Host, u \in Task : cancels'[h][u] = cancels[h][u] \/ Told(m, u, cancels'[h][u])
  <2>1. ASSUME cancels' = [cancels EXCEPT ![HostOf[c]][t] = a], NEW h \in Host, NEW u \in Task
        PROVE  cancels'[h][u] = IF h = HostOf[c] /\ u = t THEN a ELSE cancels[h][u]
    BY <1>1, <2>1 DEF DispatchInv, TypeOK
  <2> QED BY <2>1
<1>4. /\ call'[c].pc = "answered" /\ call'[c].task = t /\ call'[c].obs = a
      /\ \A d \in Thread \ {c} : call'[d] = call[d]
  BY Asked DEF DispatchInv
<1> QED BY <1>2, <1>3, <1>4, TruthKeeps

(* What status, result and reconcile are answered is true.                 *)
LEMMA QueryTells ==
    ASSUME NEW m, DispatchInv, TruthInv(m), RunsGoOn, NEW c \in Thread, NEW t \in Task,
           Status(c, t) \/ Result(c, t) \/ Reconcile(c, t)
    PROVE  TruthInv(m)'
<1>1. PICK op \in Ops, a \in StatusAnswers(t) \cup ResultAnswers(t) :
         /\ Goes(c, [Started(op, "answered", t) EXCEPT !.obs = a])
         /\ Rehydrates(HostOf[c], t)
         /\ UNCHANGED <<store, cancels, run>>
  BY DEF Status, Result, Reconcile, Query, Ops
<1>2. a \in TaskState \cup {"ERROR"}
  BY AnswerTypes DEF DispatchInv
<1>3. Told(m, t, a)
  BY <1>1 DEF Told, Truth, StatusAnswers, ResultAnswers, Terminal
<1> QED BY <1>1, <1>2, <1>3, AskTells

(* What cancel is answered is true, its cached answer too.                 *)
LEMMA CancelTells ==
    ASSUME NEW m, DispatchInv, TruthInv(m), RunsGoOn, NEW c \in Thread, NEW t \in Task,
           Cancel(c, t) \/ CancelRepeats(c, t) \/ CancelUnreachable(c, t)
    PROVE  TruthInv(m)'
<1>1. HostOf[c] \in Host
  BY ScenarioTypes DEF DispatchInv
<1>2. PICK a \in TaskState :
         /\ Goes(c, [Started("cancel", "answered", t) EXCEPT !.obs = a])
         /\ Told(m, t, a)
         /\ UNCHANGED cancels \/ cancels' = [cancels EXCEPT ![HostOf[c]][t] = a]
  <2>1. CASE Cancel(c, t)
    <3>1. PICK a \in {"CANCELLED", run[t]} \cap TaskState :
             /\ run' = [run EXCEPT ![t] = IF a = "CANCELLED" THEN a ELSE @]
             /\ cancels' = [cancels EXCEPT ![HostOf[c]][t] = a]
             /\ CancelAnswered(c, t, a)
      BY <2>1 DEF Cancel
    <3>2. run'[t] = a
      BY <3>1 DEF DispatchInv, TypeOK
    <3>3. Told(m, t, a)
      BY <3>2 DEF Told, Truth, Terminal
    <3> QED BY <3>1, <3>3 DEF CancelAnswered
  <2>2. CASE CancelRepeats(c, t)
    <3>1. cancels[HostOf[c]][t] \in TaskState /\ Told(m, t, cancels[HostOf[c]][t])
      BY <1>1, <2>2, ToldAgain DEF CancelRepeats, DispatchInv, TypeOK, TruthInv
    <3> QED BY <2>2, <3>1 DEF CancelRepeats, CancelAnswered
  <2>3. CASE CancelUnreachable(c, t)
    BY <2>3, OpenIsTold DEF CancelUnreachable, CancelAnswered, TaskState, Active
  <2> QED BY <2>1, <2>2, <2>3
<1>3. Rehydrates(HostOf[c], t) /\ UNCHANGED store /\ "cancel" \in Ops
  BY DEF Cancel, CancelRepeats, CancelUnreachable, CancelAsks, Ops
<1> QED BY <1>2, <1>3, AskTells

(* resume is answered with a state that is not terminal.                   *)
LEMMA ResumeTells ==
    ASSUME NEW m, DispatchInv, TruthInv(m), RunsGoOn, NEW c \in Thread, NEW t \in Task, Resume(c, t)
    PROVE  TruthInv(m)'
<1>1. /\ Goes(c, [Started("resume", "answered", t) EXCEPT !.obs = "RUNNING"])
      /\ "resume" \in Ops /\ "RUNNING" \in TaskState /\ Told(m, t, "RUNNING")
      /\ Rehydrates(HostOf[c], t) /\ UNCHANGED <<store, cancels>>
  BY OpenIsTold DEF Resume, Ops, TaskState, Active
<1> QED BY <1>1, AskTells

(* A step that ends a call and learns at most a true route.                *)
LEMMA EndTells ==
    ASSUME NEW m, DispatchInv, TruthInv(m), RunsGoOn, NEW c \in Thread,
           NEW out \in {"none", "ok", "raised"}, Returns(c, out), UNCHANGED <<store, cancels>>,
           \A h \in Host, t \in Task : route'[h][t] = route[h][t] \/ Told(m, t, route'[h][t])
    PROVE  TruthInv(m)'
<1>1. call'[c].pc = "idle" /\ \A d \in Thread \ {c} : call'[d] = call[d]
  BY AfterReturn DEF DispatchInv
<1> QED BY <1>1, TruthKeeps

(* A replay takes the state of the record.                                 *)
LEMMA ReplayTells ==
    ASSUME NEW m, DispatchInv, TruthInv(m), RunsGoOn, NEW c \in Thread, NEW p, ReplaysFromDurable(c, p)
    PROVE  \A h \in Host, t \in Task : route'[h][t] = route[h][t] \/ Told(m, t, route'[h][t])
<1>1. PICK u \in Task : route' = [route EXCEPT ![HostOf[c]][u] = store[u].state]
  BY DEF ReplaysFromDurable, Owner
<1>2. HostOf[c] \in Host /\ store[u].state \in TaskState
  BY ScenarioTypes DEF DispatchInv, TypeOK, Record
<1> QED BY <1>1, <1>2, RouteTold

(* What a thread that checked its answer holds is true.                    *)
LEMMA AnswerTold ==
    ASSUME NEW m, DispatchInv, TruthInv(m), RunsGoOn, NEW c \in Thread, KeepsAnswer(c)
    PROVE  /\ Told(m, call[c].task, Answer(c))
           /\ \A h \in Host, t \in Task : route'[h][t] = route[h][t] \/ Told(m, t, route'[h][t])
<1>1. Answer(c) \in TaskState /\ call[c].task \in Task /\ HostOf[c] \in Host
  BY KeptAnswer, ScenarioTypes DEF DispatchInv
<1>2. Tells(m, call[c].task, call[c].obs) /\ Tells(m, call[c].task, route[HostOf[c]][call[c].task])
  BY <1>1 DEF TruthInv, KeepsAnswer
<1>3. Told(m, call[c].task, Answer(c))
  BY <1>1, <1>2, ToldAgain, OpenIsTold DEF Answer, Observed
<1>4. \A h \in Host, t \in Task : route'[h][t] = route[h][t] \/ Told(m, t, route'[h][t])
  BY <1>1, <1>3, RouteTold DEF KeepsAnswer
<1> QED BY <1>3, <1>4

(* The record an answer asks for has the answer's state.                   *)
LEMMA AnswerSwapsTells ==
    ASSUME NEW m, DispatchInv, TruthInv(m), RunsGoOn, NEW c \in Thread, AnswerSwaps(c) PROVE TruthInv(m)'
<1> DEFINE n == Wanted(call[c].op, store[call[c].task], Answer(c))
           next == [call[c] EXCEPT !.pc = "swap", !.want = n]
<1>1. /\ Told(m, call[c].task, Answer(c)) /\ Answer(c) \in TaskState /\ call[c] \in CallState
      /\ store[call[c].task] \in Record
      /\ \A h \in Host, t \in Task : route'[h][t] = route[h][t] \/ Told(m, t, route'[h][t])
  BY AnswerTold, KeptAnswer DEF AnswerSwaps, DispatchInv, TypeOK
<1>2. n \in Record /\ n.state = Answer(c)
  BY <1>1, WantedTypes
<1>3. Goes(c, next)
  BY DEF AnswerSwaps
<1> HIDE DEF n
<1>4. next \in CallState /\ next.pc = "swap" /\ next.task = call[c].task /\ next.want = n
  BY <1>1, <1>2 DEF CallState
<1> HIDE DEF next
<1>5. call'[c] = next /\ \A d \in Thread \ {c} : call'[d] = call[d]
  BY <1>3, <1>4, AfterGoing DEF DispatchInv
<1> QED BY <1>1, <1>2, <1>4, <1>5, TruthKeeps DEF AnswerSwaps

(* The record bind_origin asks for has the state that was read.            *)
LEMMA BindOriginTells ==
    ASSUME NEW m, DispatchInv, TruthInv(m), RunsGoOn, NEW c \in Thread, NEW t \in Task, NEW s \in Session,
           BindOrigin(c, t, s)
    PROVE  TruthInv(m)'
<1> DEFINE n == [store[t] EXCEPT !.origin = s]
           b == Started("bind", "swap", t)
           next == [b EXCEPT !.want = n]
<1>1. n.state = store[t].state /\ n \in Record
  <2>1. store[t] \in Record
    BY DEF DispatchInv, TypeOK
  <2> QED BY <2>1 DEF Record
<1>2. b \in CallState /\ b.pc = "swap" /\ b.task = t
  BY StartedTypes DEF Ops
<1>3. Goes(c, next)
  BY DEF BindOrigin
<1> HIDE DEF n, b
<1>4. next \in CallState /\ next.pc = "swap" /\ next.task = t /\ next.want = n
  BY <1>1, <1>2 DEF CallState
<1> HIDE DEF next
<1>5. call'[c] = next /\ \A d \in Thread \ {c} : call'[d] = call[d]
  BY <1>3, <1>4, AfterGoing DEF DispatchInv
<1>6. Told(m, t, n.state)
  BY <1>1, ToldAgain DEF TruthInv
<1> QED BY <1>4, <1>5, <1>6, TruthKeeps DEF BindOrigin

(* A swap writes a state that is true.                                     *)
LEMMA SwapTells ==
    ASSUME NEW m, DispatchInv, TruthInv(m), RunsGoOn, NEW c \in Thread, NEW t \in Task, NEW n,
           Swaps(t, n), Returns(c, "ok"), Told(m, t, n.state), UNCHANGED <<route, cancels>>
    PROVE  TruthInv(m)'
<1>1. call'[c].pc = "idle" /\ \A d \in Thread \ {c} : call'[d] = call[d]
  BY AfterReturn DEF DispatchInv
<1>2. \A u \in Task : store'[u] = IF u = t THEN n ELSE store[u]
  BY DEF Swaps, DispatchInv, TypeOK
<1> QED BY <1>1, <1>2, TruthKeeps

(* All requests keep the states in hand true.                              *)
LEMMA RequestTells ==
    ASSUME NEW m, DispatchInv, TruthInv(m), RunsGoOn, NEW c \in Thread, Request(c) PROVE TruthInv(m)'
<1>1. CASE \E p \in scenario.packages : DispatchReplays(c, p)
  BY <1>1, ReplayTells, EndTells DEF DispatchReplays
<1>2. CASE \E p \in scenario.packages : Dispatch(c, p)
  <2>1. PICK p \in scenario.packages : Dispatch(c, p)
    BY <1>2
  <2>2. /\ call'[c].pc = "create" /\ \A d \in Thread \ {c} : call'[d] = call[d]
    BY <2>1 DEF Dispatch, Goes, Started, Idle, DispatchInv, TypeOK
  <2> QED BY <2>1, <2>2, TruthKeeps DEF Dispatch
<1>3. CASE \E t \in Task :
              \/ Status(c, t) \/ Result(c, t) \/ Reconcile(c, t)
              \/ Cancel(c, t) \/ CancelRepeats(c, t) \/ CancelUnreachable(c, t)
              \/ Resume(c, t) \/ \E s \in Session : BindOrigin(c, t, s)
  BY <1>3, QueryTells, CancelTells, ResumeTells, BindOriginTells
<1> QED BY <1>1, <1>2, <1>3 DEF Request

(* All steps of a dispatch keep them true.                                 *)
LEMMA DispatchStepTells ==
    ASSUME NEW m, DispatchInv, TruthInv(m), RunsGoOn, NEW c \in Thread, DispatchStep(c) PROVE TruthInv(m)'
<1> DEFINE t == call[c].task
<1>1. CASE CreatePrepared(c)
  <2>1. t \in Task /\ call[c] \in CallState
    BY <1>1 DEF CreatePrepared, DispatchInv, CallInv, CallOk, TypeOK
  <2>2. /\ call'[c].pc = "launch" /\ \A d \in Thread \ {c} : call'[d] = call[d]
    BY <1>1, <2>1 DEF CreatePrepared, Goes, DispatchInv, TypeOK, CallState
  <2>3. \A u \in Task : store'[u].state = IF u = t THEN "CREATED" ELSE store[u].state
    BY <1>1, <2>1 DEF CreatePrepared, SwapsAndHolds, Prepared, NoRecord, DispatchInv, TypeOK
  <2>4. Told(m, t, "CREATED")
    BY OpenIsTold
  <2> QED BY <1>1, <2>2, <2>3, <2>4, TruthKeeps DEF CreatePrepared
<1>2. CASE CreateLost(c)
  BY <1>2, ReplayTells, EndTells DEF CreateLost
<1>3. CASE CreateRaises(c) \/ LaunchRaises(c) \/ ConfirmStale(c)
  BY <1>3, EndTells DEF CreateRaises, LaunchRaises, ConfirmStale
<1>4. CASE Launch(c)
  <2>1. t \in Task /\ call[c] \in CallState /\ HostOf[c] \in Host
    BY <1>4, ScenarioTypes DEF Launch, DispatchInv, CallInv, CallOk, TypeOK
  <2>2. /\ call'[c].pc = "confirm" /\ \A d \in Thread \ {c} : call'[d] = call[d]
    BY <1>4, <2>1 DEF Launch, Goes, DispatchInv, TypeOK, CallState
  <2>3. \A h \in Host, u \in Task : route'[h][u] = route[h][u] \/ Told(m, u, route'[h][u])
    BY <1>4, <2>1, RouteTold DEF Launch, TaskState, Active
  <2> QED BY <1>4, <2>2, <2>3, TruthKeeps DEF Launch
<1>5. CASE Confirm(c)
  <2>1. t \in Task /\ store[t] \in Record
    BY <1>5 DEF Confirm, DispatchInv, CallInv, CallOk, TypeOK
  <2>2. Told(m, t, Confirmed(store[t]).state)
    BY <2>1, OpenIsTold DEF Confirmed, Record
  <2> QED BY <1>5, <2>1, <2>2, SwapTells DEF Confirm
<1> QED BY <1>1, <1>2, <1>3, <1>4, <1>5 DEF DispatchStep

(* All steps after an answer keep them true.                               *)
LEMMA AnswerStepTells ==
    ASSUME NEW m, DispatchInv, TruthInv(m), RunsGoOn, NEW c \in Thread, AnswerStep(c) PROVE TruthInv(m)'
<1>1. CASE AnswerRaises(c) \/ SwapRaises(c)
  BY <1>1, EndTells DEF AnswerRaises, SwapRaises
<1>2. CASE AnswerKept(c)
  <2>1. PICK out \in {"ok", "raised"} : Returns(c, out)
    BY <1>2 DEF AnswerKept
  <2> QED BY <1>2, <2>1, AnswerTold, EndTells DEF AnswerKept
<1>3. CASE Swap(c)
  <2>1. call[c].task \in Task /\ Told(m, call[c].task, call[c].want.state)
    BY <1>3, ToldAgain DEF Swap, DispatchInv, CallInv, CallOk, TruthInv
  <2> QED BY <1>3, <2>1, SwapTells DEF Swap
<1> QED BY <1>1, <1>2, <1>3, AnswerSwapsTells DEF AnswerStep

(* TruthInv(m) is inductive beside DispatchInv.                            *)
LEMMA NextKeepsTruth == ASSUME NEW m, DispatchInv, TruthInv(m), [Next]_vars PROVE TruthInv(m)'
<1>1. RunsGoOn
  BY StepRunsGoOn
<1>2. CASE UNCHANGED vars
  BY <1>1, <1>2, TruthKeeps DEF vars
<1>3. ASSUME NEW c \in Thread, Request(c) \/ DispatchStep(c) \/ AnswerStep(c) PROVE TruthInv(m)'
  BY <1>1, <1>3, RequestTells, DispatchStepTells, AnswerStepTells
<1>4. ASSUME NEW t \in Task, NEW s, WorkerEnds(t, s) PROVE TruthInv(m)'
  BY <1>1, <1>4, TruthKeeps DEF WorkerEnds
<1>5. ASSUME NEW h \in Host, CrashHost(h) PROVE TruthInv(m)'
  <2>1. \A d \in Thread : call'[d].pc = "idle" \/ call'[d] = call[d]
    BY <1>5 DEF CrashHost, Idle
  <2>2. \A g \in Host, t \in Task :
           /\ route'[g][t] = route[g][t] \/ route'[g][t] = NoRoute
           /\ cancels'[g][t] = cancels[g][t] \/ cancels'[g][t] = None
    BY <1>5 DEF CrashHost, DispatchInv, TypeOK
  <2> QED BY <1>1, <1>5, <2>1, <2>2, OpenIsTold, TruthKeeps DEF CrashHost
<1> QED BY <1>2, <1>3, <1>4, <1>5 DEF Next, Environment

(* The inductive invariant of the answers.                                 *)
THEOREM DispatcherIsCorrect == Spec => []DispatcherInv
<1>1. ASSUME Init PROVE TruthInv("exact")
  <2>1. NoRecord.state \notin Terminal /\ NoRoute \notin Terminal /\ None \notin Terminal
    BY DispatcherAssumption DEF NoRecord, NoRoute, Terminal, TaskState
  <2>2. Idle("none").pc = "idle"
    BY DEF Idle
  <2> QED BY <1>1, <2>1, <2>2 DEF Init, TruthInv, Tells
<1>2. Init => DispatcherInv
  BY <1>1, InitDispatchInv DEF DispatcherInv
<1>3. DispatcherInv /\ [Next]_vars => DispatcherInv'
  BY NextKeepsDispatchInv, NextKeepsTruth DEF DispatcherInv
<1> QED BY <1>2, <1>3, PTL DEF Spec

(* A terminal state on record is what the worker's run came to: whatever   *)
(* status, result, cancel, reconcile or a cached answer said, and however  *)
(* late it was stored (dispatcher.py, _persist_route_state).               *)
THEOREM RecordsAreReal == Spec => []RecordedIsReal
<1>1. DispatcherInv => RecordedIsReal
  BY DEF DispatcherInv, TruthInv, Tells, RecordedIsReal
<1> QED BY <1>1, DispatcherIsCorrect, PTL

-----------------------------------------------------------------------------
(* The dispatcher implements TaskOutcome.                                  *)

(* A swap that the store allows and that changes the state or the delivery *)
(* but not both is a step of TaskOutcome, or none.                         *)
LEMMA SwapRefines ==
    ASSUME TypeOK, NEW t \in Task, NEW n \in Record, store' = [store EXCEPT ![t] = n],
           MayUpdate(store[t], n),
           n.delivery = store[t].delivery \/ n.state = store[t].state
    PROVE  [Abstract!Next]_Abstract!vars
<1> DEFINE r == store[t]
           S(x) == IF x.delivery \in Settled THEN x.delivery ELSE "NO"
<1>1. r \in Record /\ \A u \in Task : store'[u] = IF u = t THEN n ELSE store[u]
  BY DEF TypeOK
<1>2. r.phase # "ABSENT" /\ n.phase # "ABSENT"
  BY DEF MayUpdate, PhaseMoves
<1>3. [u \in Task |-> OutcomeOf(store[u])]'
         = [[u \in Task |-> OutcomeOf(store[u])] EXCEPT ![t] = OutcomeOf(n)]
  <2>1. \A u \in Task : OutcomeOf(store[u])' = IF u = t THEN OutcomeOf(n) ELSE OutcomeOf(store[u])
    BY <1>1 DEF OutcomeOf
  <2> QED BY <2>1, Zenon
<1>4. [u \in Task |-> S(store[u])]' = [[u \in Task |-> S(store[u])] EXCEPT ![t] = S(n)]
  <2>1. \A u \in Task : S(store[u])' = IF u = t THEN S(n) ELSE S(store[u])
    BY <1>1
  <2> HIDE DEF S
  <2> QED BY <2>1, Zenon
<1>5. CASE n.delivery = r.delivery
  <2>1. S(n) = S(r)
    BY <1>5
  <2>2. CASE OutcomeOf(n) = OutcomeOf(r)
    BY <1>1, <2>1, <2>2 DEF Abstract!vars
  <2>3. CASE OutcomeOf(n) # OutcomeOf(r)
    <3>1. OutcomeOf(r) = "OPEN" /\ OutcomeOf(n) \in Terminal
      BY <1>1, <1>2, <2>3 DEF OutcomeOf, MayUpdate, StateSticks
    <3>2. Abstract!Come(t, OutcomeOf(n))
      BY <1>1, <1>3, <1>4, <2>1, <3>1 DEF Abstract!Come
    <3> QED BY <3>1, <3>2 DEF Abstract!Next
  <2> QED BY <2>2, <2>3
<1>6. CASE n.state = r.state
  <2>1. OutcomeOf(n) = OutcomeOf(r)
    BY <1>2, <1>6 DEF OutcomeOf
  <2>2. CASE S(n) = S(r)
    BY <1>1, <2>1, <2>2 DEF Abstract!vars
  <2>3. CASE S(n) # S(r)
    <3>1. r.delivery \notin Settled /\ n.delivery \in Settled
      BY <2>3 DEF MayUpdate, SettledSticks
    <3>2. n.result # None /\ n.result \in Terminal /\ n.state = n.result
      BY <3>1 DEF MayUpdate, Coherent, ResultBindsOnce, Record
    <3>3. OutcomeOf(r) \in Terminal
      BY <1>2, <1>6, <3>2 DEF OutcomeOf
    <3>4. Abstract!Settle(t, n.delivery)
      BY <1>1, <1>3, <1>4, <2>1, <3>1, <3>3 DEF Abstract!Settle
    <3> QED BY <3>1, <3>4 DEF Abstract!Next, Settled
  <2> QED BY <2>2, <2>3
<1> QED BY <1>5, <1>6

(* The create accepts the task.                                            *)
LEMMA CreateRefines ==
    ASSUME DispatchInv, NEW c \in Thread, CreatePrepared(c) PROVE [Abstract!Next]_Abstract!vars
<1> DEFINE t == call[c].task
           n == Prepared(call[c].pkg.key, call[c].pkg.intent, OriginOf[HostOf[c]])
           S(x) == IF x.delivery \in Settled THEN x.delivery ELSE "NO"
<1>1. t \in Task /\ store[t] = NoRecord
  BY DEF CreatePrepared, CreateAllowed, DispatchInv, CallInv, CallOk, RecordInv
<1>2. \A u \in Task : store'[u] = IF u = t THEN n ELSE store[u]
  BY <1>1 DEF CreatePrepared, SwapsAndHolds, DispatchInv, TypeOK
<1>3. OutcomeOf(n) = "OPEN" /\ OutcomeOf(store[t]) = "NEW" /\ S(n) = S(store[t])
  BY <1>1 DEF OutcomeOf, Prepared, NoRecord, Terminal
<1> HIDE DEF n
<1>4. /\ [u \in Task |-> OutcomeOf(store[u])]'
            = [[u \in Task |-> OutcomeOf(store[u])] EXCEPT ![t] = OutcomeOf(n)]
      /\ [u \in Task |-> S(store[u])]' = [u \in Task |-> S(store[u])]
  BY <1>1, <1>2, <1>3 DEF OutcomeOf
<1>5. Abstract!Accept(t)
  BY <1>1, <1>3, <1>4 DEF Abstract!Accept
<1> QED BY <1>1, <1>5 DEF Abstract!Next

(* Every other step leaves the records alone or ends a call with a swap.   *)
LEMMA StepRefines ==
    ASSUME DispatchInv, [Next]_vars PROVE [Abstract!Next]_Abstract!vars
<1>1. CASE UNCHANGED store
  BY <1>1 DEF Abstract!vars
<1>2. ASSUME NEW c \in Thread, CreatePrepared(c) PROVE [Abstract!Next]_Abstract!vars
  BY <1>2, CreateRefines
<1>3. ASSUME NEW c \in Thread, Confirm(c) PROVE [Abstract!Next]_Abstract!vars
  <2> DEFINE t == call[c].task
             n == Confirmed(store[t])
  <2>1. t \in Task /\ store[t] \in Record
    BY <1>3 DEF Confirm, DispatchInv, CallInv, CallOk, TypeOK
  <2>2. n \in Record /\ n.delivery = store[t].delivery
    BY <2>1 DEF Confirmed, Record, TaskState, Active
  <2>3. MayUpdate(store[t], n) /\ store' = [store EXCEPT ![t] = n]
    BY <1>3 DEF Confirm, Swappable, Swaps
  <2> HIDE DEF n, t
  <2> QED BY <2>1, <2>2, <2>3, SwapRefines DEF DispatchInv
<1>4. ASSUME NEW c \in Thread, Swap(c) PROVE [Abstract!Next]_Abstract!vars
  <2>1. /\ call[c].task \in Task /\ call[c].want \in Record
        /\ MayUpdate(store[call[c].task], call[c].want)
        /\ store' = [store EXCEPT ![call[c].task] = call[c].want]
    BY <1>4 DEF Swap, Swappable, Swaps, DispatchInv, CallInv, CallOk, TypeOK, CallState
  <2>2. call[c].want.delivery = store[call[c].task].delivery
    BY <1>4 DEF Swap, Swappable, DispatchInv, CallInv, CallOk
  <2> QED BY <2>1, <2>2, SwapRefines DEF DispatchInv
<1>5. ASSUME NEW c \in Thread, Request(c) PROVE UNCHANGED store
  BY <1>5 DEF Request, DispatchReplays, Dispatch, Status, Result, Reconcile, Query, Cancel,
              CancelRepeats, CancelUnreachable, Resume, BindOrigin
<1>6. ASSUME NEW c \in Thread, DispatchStep(c)
      PROVE  UNCHANGED store \/ CreatePrepared(c) \/ Confirm(c)
  BY <1>6 DEF DispatchStep, CreateLost, CreateRaises, Launch, LaunchRaises, ConfirmStale
<1>7. ASSUME NEW c \in Thread, AnswerStep(c) PROVE UNCHANGED store \/ Swap(c)
  BY <1>7 DEF AnswerStep, AnswerRaises, AnswerKept, AnswerSwaps, SwapRaises
<1>8. ASSUME Environment PROVE UNCHANGED store
  BY <1>8 DEF Environment, WorkerEnds, CrashHost
<1> QED BY <1>1, <1>2, <1>3, <1>4, <1>5, <1>6, <1>7, <1>8 DEF Next, vars

(* Every record lives the life TaskOutcome allows: accepted once, at most  *)
(* one outcome, settled at most once and only after its outcome            *)
(* (durable_state.py, compare_and_swap and with_cas_updates).              *)
THEOREM DispatcherImplementsOutcome == Spec => RefinesOutcome
<1>1. Init => Abstract!Init
  <2> SUFFICES ASSUME Init PROVE Abstract!Init
    OBVIOUS
  <2>1. OutcomeOf(NoRecord) = "NEW" /\ NoRecord.delivery \notin Settled
    BY DEF OutcomeOf, NoRecord, Settled
  <2> QED BY <2>1 DEF Init, Abstract!Init
<1>2. DispatchInv /\ [Next]_vars => [Abstract!Next]_Abstract!vars
  BY StepRefines
<1> QED BY <1>1, <1>2, DispatchIsSafe, PTL DEF Spec, RefinesOutcome, Abstract!Spec
=============================================================================
