------------------------ MODULE ExecutionStoreProofs ------------------------
(***************************************************************************)
(* The file store for any number of threads, tasks, keys, write errors and *)
(* crashes: where every thread uses one store object, whatever the store   *)
(* loses, it loses to calls that overlap.                                  *)
(*                                                                         *)
(* CallsInv holds of every behaviour; ApartInv of those of one store       *)
(* object, as long as no two calls overlapped.  A step belongs to the one  *)
(* call that is under way, so the proof follows a call from the map it     *)
(* loads, through its one change, to the file.  To its callers such a call *)
(* is atomic.                                                              *)
(***************************************************************************)
EXTENDS ExecutionStore, TLAPS

(* The fields of an idle thread.                                           *)
LEMMA IdleFields ==
    /\ NoRecords \in Records
    /\ Idle \in CallState
    /\ Idle.op = "none" /\ Idle.pc = "idle" /\ Idle.old = 0
<1>1. 0 \in Revision
  BY StoreAssumption DEF Revision
<1>2. NoRecords \in Records
  BY <1>1 DEF NoRecords, Records
<1> QED BY <1>1, <1>2 DEF Idle, CallState, PCs

(* A thread that does not move stands where it stood.                      *)
LEMMA StillOk ==
    ASSUME NEW g, CallOk(g), call'[g] = call[g], held'[g] = held[g]
    PROVE  CallOk(g)'
  BY DEF CallOk

(* A thread whose call returned or died.                                   *)
LEMMA IdleOk ==
    ASSUME NEW g, call'[g] = Idle PROVE CallOk(g)'
<1>1. 0 < MaxRevision
  BY StoreAssumption
<1> QED BY <1>1, IdleFields DEF CallOk

(* What a thread is about to write, beside the bound.                      *)
LEMMA NextRevision ==
    ASSUME CallsInv, NEW h \in Thread PROVE call[h].old + 1 \in Revision
<1>1. call[h].old \in Revision /\ call[h].old < MaxRevision
  BY DEF CallsInv, TypeOK, CallState, CallOk
<1> QED BY <1>1, StoreAssumption DEF Revision

-----------------------------------------------------------------------------
(* A step of one call: where the call goes, and what stays.                *)

(* If the call that moved is in order after its step, all calls are.       *)
LEMMA CallMoves ==
    ASSUME CallsInv, NEW h \in Thread, NEW c \in CallState, call' = [call EXCEPT ![h] = c],
           \A g \in Thread \ {h} : held'[g] = held[g],
           CallOk(h)'
    PROVE  call' \in [Thread -> CallState] /\ \A g \in Thread : CallOk(g)'
<1>1. call' \in [Thread -> CallState] /\ \A g \in Thread \ {h} : call'[g] = call[g]
  BY DEF CallsInv, TypeOK
<1>2. \A g \in Thread \ {h} : CallOk(g)'
  BY <1>1, StillOk DEF CallsInv
<1> QED BY <1>1, <1>2

(* A call that begins, with the text of the file.                          *)
LEMMA BeginKeeps ==
    ASSUME CallsInv, NEW h \in Thread, NEW t \in Task, NEW op \in {"create", "cas", "read"},
           Begin(h, op, t), UNCHANGED held, op = "cas" => held[h][t] < MaxRevision
    PROVE  call' \in [Thread -> CallState] /\ \A g \in Thread : CallOk(g)'
<1> DEFINE c == [Idle EXCEPT !.op = op, !.task = t, !.pc = "bind", !.text = file]
<1>1. c \in CallState
  BY IdleFields DEF CallState, PCs, CallsInv, TypeOK
<1>2. c.op = op /\ c.task = t /\ c.pc = "bind" /\ c.old = 0
  BY DEF Idle
<1>3. call' = [call EXCEPT ![h] = c]
  BY DEF Begin
<1> HIDE DEF c
<1>4. call'[h] = c
  BY <1>3 DEF CallsInv, TypeOK
<1>5. 0 < MaxRevision
  BY StoreAssumption
<1>6. CallOk(h)'
  BY <1>2, <1>4, <1>5 DEF CallOk
<1> QED BY <1>1, <1>3, <1>6, CallMoves

(* A call that goes on keeps its operation, its task and its old revision. *)
LEMMA GotoKeeps ==
    ASSUME CallsInv, NEW h \in Thread, NEW pc \in PCs \ {"idle"}, NEW c \in CallState,
           c.pc = pc, c.op = call[h].op, c.task = call[h].task, c.op # "none",
           call' = [call EXCEPT ![h] = c], UNCHANGED held, c.old < MaxRevision,
           c.op = "read" => pc \in {"bind", "decide"},
           c.op = "close" => pc \in {"encode", "open", "write", "replace"}
    PROVE  call' \in [Thread -> CallState] /\ \A g \in Thread : CallOk(g)'
<1>1. call'[h] = c
  BY DEF CallsInv, TypeOK
<1>2. CallOk(h)
  BY DEF CallsInv
<1>3. CallOk(h)'
  BY <1>1, <1>2 DEF CallOk
<1> QED BY <1>3, CallMoves

(* A call that returns.                                                    *)
LEMMA ReturnKeeps ==
    ASSUME CallsInv, NEW h \in Thread, Return(h), \A g \in Thread \ {h} : held'[g] = held[g]
    PROVE  call' \in [Thread -> CallState] /\ \A g \in Thread : CallOk(g)'
<1>1. call' = [call EXCEPT ![h] = Idle]
  BY DEF Return
<1>2. call'[h] = Idle
  BY <1>1 DEF CallsInv, TypeOK
<1> QED BY <1>1, <1>2, IdleOk, IdleFields, CallMoves

(* The rollback of a call that writes.                                     *)
LEMMA RollbackKeeps ==
    ASSUME CallsInv, NEW h \in Thread, call[h].pc \in {"open", "replace"}, Rollback(h)
    PROVE  cache' \in [Process -> Records] /\ refused' \in SUBSET (Task \X Revision)
<1> DEFINE t == call[h].task
           p == ProcessOf[h]
<1>1. CASE call[h].op = "close"
  BY <1>1 DEF Rollback, CallsInv, TypeOK
<1>2. CASE call[h].op # "close"
  <2>1. t \in Task
    <3>1. CallOk(h) /\ call[h] \in CallState
      BY DEF CallsInv, TypeOK
    <3>2. call[h].pc \notin {"bind", "decide"} /\ call[h] # Idle
      BY IdleFields
    <3> QED BY <1>2, <3>1, <3>2 DEF CallOk, CallState
  <2>2. call[h].old \in Revision /\ p \in Process
    BY StoreAssumption DEF CallsInv, TypeOK, CallState
  <2>3. cache' = [cache EXCEPT ![p][t] = call[h].old] /\ refused' = refused \cup {<<t, call[h].old + 1>>}
    BY <1>2 DEF Rollback
  <2>4. cache \in [Process -> [Task -> Revision]] /\ refused \subseteq Task \X Revision
    BY DEF CallsInv, TypeOK, Records
  <2>5. cache' \in [Process -> Records]
    BY <2>1, <2>2, <2>3, <2>4 DEF Records
  <2> QED BY <2>1, <2>3, <2>4, <2>5, NextRevision
<1> QED BY <1>1, <1>2

-----------------------------------------------------------------------------
(* Every step keeps CallsInv.                                              *)

(* The fields of a call before a step.                                     *)
LEMMA CallFields ==
    ASSUME CallsInv, NEW h \in Thread
    PROVE  /\ CallOk(h) /\ ProcessOf[h] \in Process
           /\ call[h].op \in {"none", "create", "cas", "read", "close"} /\ call[h].pc \in PCs
           /\ call[h].text \in Records /\ call[h].old \in Revision
           /\ call[h].at \in {"none", "tmp", "file"}
           /\ call[h].pc # "idle" => call[h].op # "none"
           /\ call[h].op \notin {"none", "close"} => call[h].task \in Task
<1>1. call[h] \in CallState /\ CallOk(h) /\ ProcessOf[h] \in Process
  BY StoreAssumption DEF CallsInv, TypeOK
<1>2. call[h].op = "none" => call[h].pc = "idle"
  BY <1>1, IdleFields DEF CallOk
<1> QED BY <1>1, <1>2 DEF CallState, CallOk

(* The calls that begin.                                                   *)
LEMMA BeginStep ==
    ASSUME CallsInv, NEW h \in Thread,
           BeginClose(h) \/ \E t \in Task : BeginCreate(h, t) \/ BeginCas(h, t) \/ BeginRead(h, t)
    PROVE  CallsInv'
<1>1. overlap' \in BOOLEAN
  BY DEF BeginClose, BeginCreate, BeginCas, BeginRead, Begin, NoteOverlap, CallsInv, TypeOK
<1>2. CASE BeginClose(h)
  <2> DEFINE c == [Idle EXCEPT !.op = "close", !.pc = "encode"]
  <2>1. c \in CallState
    BY IdleFields DEF CallState, PCs
  <2>2. c.op = "close" /\ c.pc = "encode" /\ c.old = 0
    BY DEF Idle
  <2>3. call' = [call EXCEPT ![h] = c] /\ UNCHANGED held
    BY <1>2 DEF BeginClose
  <2> HIDE DEF c
  <2>4. call'[h] = c
    BY <2>3 DEF CallsInv, TypeOK
  <2>5. 0 < MaxRevision
    BY StoreAssumption
  <2>6. CallOk(h)'
    BY <2>2, <2>4, <2>5 DEF CallOk
  <2>7. call' \in [Thread -> CallState] /\ \A g \in Thread : CallOk(g)'
    BY <2>1, <2>3, <2>6, CallMoves
  <2> QED BY <1>1, <1>2, <2>7 DEF BeginClose, CallsInv, TypeOK
<1>3. ASSUME NEW t \in Task, BeginCreate(h, t) \/ BeginCas(h, t) \/ BeginRead(h, t) PROVE CallsInv'
  <2>1. /\ UNCHANGED <<file, tmp, cache, closed, held, acked, refused, faults>>
        /\ \E op \in {"create", "cas", "read"} :
              Begin(h, op, t) /\ (op = "cas" => held[h][t] < MaxRevision)
    BY <1>3 DEF BeginCreate, BeginCas, BeginRead
  <2>2. call' \in [Thread -> CallState] /\ \A g \in Thread : CallOk(g)'
    BY <2>1, BeginKeeps
  <2> QED BY <1>1, <2>1, <2>2 DEF CallsInv, TypeOK
<1> QED BY <1>2, <1>3

(* A call that loads, decides and installs its change.                     *)
LEMMA ChangeStep ==
    ASSUME CallsInv, NEW h \in Thread,
           Load(h) \/ Get(h) \/ Decide(h) \/ Refuse(h) \/ Install(h)
    PROVE  CallsInv'
<1> DEFINE t == call[h].task
           p == ProcessOf[h]
<1>1. /\ CallOk(h) /\ p \in Process /\ call[h] \in CallState
      /\ cache \in [Process -> Records] /\ held \in [Thread -> Records]
  BY CallFields DEF CallsInv, TypeOK
<1>2. CASE Load(h)
  <2> DEFINE c == [call[h] EXCEPT !.pc = "decide"]
  <2>1. c \in CallState /\ c.pc = "decide" /\ c.op = call[h].op /\ c.task = t /\ c.old = call[h].old
    BY <1>1 DEF CallState, PCs
  <2>2. call' = [call EXCEPT ![h] = c] /\ UNCHANGED held
    BY <1>2 DEF Load, Goto
  <2> HIDE DEF c
  <2>3. call[h].pc = "bind" /\ call[h].op \notin {"none", "close"} /\ call[h].old < MaxRevision
    BY <1>1, <1>2, CallFields DEF Load, CallOk
  <2>4. call' \in [Thread -> CallState] /\ \A g \in Thread : CallOk(g)'
    BY <2>1, <2>2, <2>3, GotoKeeps DEF PCs
  <2>5. cache' \in [Process -> Records]
    BY <1>1, <1>2, CallFields DEF Load
  <2> QED BY <1>2, <2>4, <2>5 DEF Load, CallsInv, TypeOK
<1>3. CASE Get(h)
  <2>1. t \in Task
    BY <1>1, <1>3 DEF Get, CallOk
  <2>2. cache[p][t] \in Revision
    BY <1>1, <2>1 DEF Records
  <2>3. held' \in [Thread -> Records] /\ \A g \in Thread \ {h} : held'[g] = held[g]
    BY <1>1, <1>3, <2>1, <2>2 DEF Get, Records
  <2>4. call' \in [Thread -> CallState] /\ \A g \in Thread : CallOk(g)'
    BY <1>3, <2>3, ReturnKeeps DEF Get
  <2> QED BY <1>3, <2>3, <2>4 DEF Get, CallsInv, TypeOK
<1>4. CASE Decide(h)
  <2> DEFINE r == cache[p][t]
             c == [call[h] EXCEPT !.pc = "install", !.old = r]
  <2>1. call[h].op \in {"create", "cas"} /\ t \in Task
    BY <1>1, <1>4 DEF Decide, WriteAllowed, CallOk
  <2>2. r \in Revision
    BY <1>1, <2>1 DEF Records
  <2>3. r < MaxRevision
    BY <1>1, <1>4, StoreAssumption DEF Decide, WriteAllowed, CreateAllowed, CasAllowed, CallOk
  <2>4. c \in CallState /\ c.pc = "install" /\ c.op = call[h].op /\ c.task = t /\ c.old = r
    BY <1>1, <2>2 DEF CallState, PCs
  <2>5. call' = [call EXCEPT ![h] = c] /\ UNCHANGED held
    BY <1>1, <1>4 DEF Decide, CallsInv, TypeOK
  <2> HIDE DEF c, r
  <2>6. call' \in [Thread -> CallState] /\ \A g \in Thread : CallOk(g)'
    BY <2>1, <2>3, <2>4, <2>5, GotoKeeps DEF PCs
  <2> QED BY <1>4, <2>6 DEF Decide, CallsInv, TypeOK
<1>5. CASE Refuse(h)
  <2>1. call' \in [Thread -> CallState] /\ \A g \in Thread : CallOk(g)'
    BY <1>5, ReturnKeeps DEF Refuse
  <2> QED BY <1>5, <2>1 DEF Refuse, CallsInv, TypeOK
<1>6. CASE Install(h)
  <2> DEFINE c == [call[h] EXCEPT !.pc = "encode"]
  <2>1. c \in CallState /\ c.pc = "encode" /\ c.op = call[h].op /\ c.task = t /\ c.old = call[h].old
    BY <1>1 DEF CallState, PCs
  <2>2. call' = [call EXCEPT ![h] = c] /\ UNCHANGED held
    BY <1>6 DEF Install, Goto
  <2> HIDE DEF c
  <2>3. call[h].op \in {"create", "cas"} /\ t \in Task /\ call[h].old < MaxRevision
    BY <1>1, <1>6, CallFields DEF Install, CallOk
  <2>4. call' \in [Thread -> CallState] /\ \A g \in Thread : CallOk(g)'
    BY <2>1, <2>2, <2>3, GotoKeeps DEF PCs
  <2>5. cache' \in [Process -> Records]
    BY <1>1, <1>6, <2>3, NextRevision DEF Install, Records
  <2>6. refused' \in SUBSET (Task \X Revision)
    BY <1>6 DEF Install, CallsInv, TypeOK
  <2> QED BY <1>6, <2>4, <2>5, <2>6 DEF Install, CallsInv, TypeOK
<1> QED BY <1>2, <1>3, <1>4, <1>5, <1>6

(* A call that writes the map.                                             *)
LEMMA PersistStep ==
    ASSUME CallsInv, NEW h \in Thread, Encode(h) \/ Open(h) \/ Write(h)
    PROVE  CallsInv'
<1>1. /\ CallOk(h) /\ call[h] \in CallState /\ call[h].old < MaxRevision /\ call[h].op # "none"
      /\ call[h].op # "read" /\ cache[ProcessOf[h]] \in Records
  BY CallFields DEF Encode, Open, Write, CallOk, CallsInv, TypeOK
<1>2. CASE Encode(h)
  <2> DEFINE c == [call[h] EXCEPT !.pc = "open", !.text = cache[ProcessOf[h]]]
  <2>1. c \in CallState /\ c.pc = "open" /\ c.op = call[h].op /\ c.task = call[h].task /\ c.old = call[h].old
    BY <1>1 DEF CallState, PCs
  <2>2. call' = [call EXCEPT ![h] = c] /\ UNCHANGED held
    BY <1>1, <1>2 DEF Encode, CallsInv, TypeOK
  <2> HIDE DEF c
  <2>3. call' \in [Thread -> CallState] /\ \A g \in Thread : CallOk(g)'
    BY <1>1, <2>1, <2>2, GotoKeeps DEF PCs
  <2> QED BY <1>2, <2>3 DEF Encode, CallsInv, TypeOK
<1>3. CASE Open(h)
  <2> DEFINE c == [call[h] EXCEPT !.pc = "write", !.at = "tmp"]
  <2>1. c \in CallState /\ c.pc = "write" /\ c.op = call[h].op /\ c.task = call[h].task /\ c.old = call[h].old
    BY <1>1 DEF CallState, PCs
  <2>2. call' = [call EXCEPT ![h] = c] /\ UNCHANGED held
    BY <1>1, <1>3 DEF Open, CallsInv, TypeOK
  <2> HIDE DEF c
  <2>3. call' \in [Thread -> CallState] /\ \A g \in Thread : CallOk(g)'
    BY <1>1, <2>1, <2>2, GotoKeeps DEF PCs
  <2>4. tmp' \in [there : BOOLEAN, text : Records]
    BY <1>3, IdleFields DEF Open
  <2> QED BY <1>3, <2>3, <2>4 DEF Open, CallsInv, TypeOK
<1>4. CASE Write(h)
  <2> DEFINE c == [call[h] EXCEPT !.pc = "replace"]
  <2>1. c \in CallState /\ c.pc = "replace" /\ c.op = call[h].op /\ c.task = call[h].task /\ c.old = call[h].old
    BY <1>1 DEF CallState, PCs
  <2>2. call' = [call EXCEPT ![h] = c] /\ UNCHANGED held
    BY <1>4 DEF Write, Goto
  <2> HIDE DEF c
  <2>3. call' \in [Thread -> CallState] /\ \A g \in Thread : CallOk(g)'
    BY <1>1, <2>1, <2>2, GotoKeeps DEF PCs
  <2>4. tmp' \in [there : BOOLEAN, text : Records] /\ file' \in Records
    BY <1>4, CallFields DEF Write, CallsInv, TypeOK
  <2> QED BY <1>4, <2>3, <2>4 DEF Write, CallsInv, TypeOK
<1> QED BY <1>2, <1>3, <1>4

(* A call that ends: it replaces the file, or rolls back.                  *)
LEMMA EndStep ==
    ASSUME CallsInv, NEW h \in Thread, Replace(h) \/ ReplaceFails(h) \/ PersistFails(h)
    PROVE  CallsInv'
<1> DEFINE t == call[h].task
           r == call[h].old + 1
<1>1. closed' \in SUBSET Process
  BY CallFields DEF Replace, ReplaceFails, PersistFails, CloseIf, CallsInv, TypeOK
<1>2. CASE Replace(h)
  <2>1. call[h].op # "close" => t \in Task
    BY <1>2, CallFields DEF Replace
  <2>2. r \in Revision
    BY NextRevision
  <2>3. /\ held' \in [Thread -> Records] /\ acked' \in Records
        /\ \A g \in Thread \ {h} : held'[g] = held[g]
    <3>1. CASE call[h].op = "close"
      BY <1>2, <3>1 DEF Replace, Acknowledge, CallsInv, TypeOK
    <3>2. CASE call[h].op # "close"
      <4>1. held' = [held EXCEPT ![h][t] = r] /\ acked' = [acked EXCEPT ![t] = IF r > @ THEN r ELSE @]
        BY <1>2, <3>2 DEF Replace, Acknowledge
      <4>2. held \in [Thread -> [Task -> Revision]] /\ acked \in [Task -> Revision]
        BY DEF CallsInv, TypeOK, Records
      <4>3. held' \in [Thread -> [Task -> Revision]] /\ \A g \in Thread \ {h} : held'[g] = held[g]
        BY <2>1, <2>2, <3>2, <4>1, <4>2
      <4>4. acked' \in [Task -> Revision]
        BY <2>1, <2>2, <3>2, <4>1, <4>2
      <4> QED BY <4>3, <4>4 DEF Records
    <3> QED BY <3>1, <3>2
  <2>4. file' \in Records /\ tmp' \in [there : BOOLEAN, text : Records]
    BY <1>2 DEF Replace, CallsInv, TypeOK
  <2>5. ASSUME NEW g \in Thread PROVE call'[g] \in CallState /\ CallOk(g)'
    <3>1. call[g] \in CallState /\ CallOk(g)
      BY DEF CallsInv, TypeOK
    <3>2. CASE g = h
      <4>1. call'[g] = Idle
        BY <1>2, <3>2 DEF Replace
      <4> QED BY <4>1, IdleOk, IdleFields
    <3>3. CASE g # h /\ call[g].at = "tmp"
      <4>1. call'[g] = [call[g] EXCEPT !.at = "file"] /\ held'[g] = held[g]
        BY <1>2, <2>3, <3>3 DEF Replace
      <4>2. call[g].pc # "idle" /\ call[g].op # "none"
        BY <3>1, <3>3 DEF CallOk, Idle
      <4> QED BY <3>1, <4>1, <4>2 DEF CallOk, CallState
    <3>4. CASE g # h /\ call[g].at # "tmp"
      <4>1. call'[g] = call[g] /\ held'[g] = held[g]
        BY <1>2, <2>3, <3>4 DEF Replace
      <4> QED BY <3>1, <4>1, StillOk
    <3> QED BY <3>2, <3>3, <3>4
  <2>6. call' \in [Thread -> CallState]
    <3>1. call' = [g \in Thread |-> call'[g]]
      BY <1>2 DEF Replace
    <3> QED BY <2>5, <3>1
  <2> QED BY <1>1, <1>2, <2>3, <2>4, <2>5, <2>6 DEF Replace, CallsInv, TypeOK
<1>3. CASE ReplaceFails(h) \/ PersistFails(h)
  <2>1. Return(h) /\ Rollback(h) /\ UNCHANGED <<file, tmp, held, acked, overlap>> /\ call[h].pc \in {"open", "replace"}
    BY <1>3 DEF ReplaceFails, PersistFails
  <2>2. faults' \in 0..MaxFaults
    BY <1>3, StoreAssumption DEF ReplaceFails, PersistFails, CallsInv, TypeOK
  <2>3. call' \in [Thread -> CallState] /\ \A g \in Thread : CallOk(g)'
    BY <2>1, ReturnKeeps
  <2>4. cache' \in [Process -> Records] /\ refused' \in SUBSET (Task \X Revision)
    BY <2>1, RollbackKeeps
  <2> QED BY <1>1, <2>1, <2>2, <2>3, <2>4 DEF CallsInv, TypeOK
<1> QED BY <1>2, <1>3

(* A process that dies.                                                    *)
LEMMA RestartStep ==
    ASSUME CallsInv, NEW p \in Process, Restart(p) PROVE CallsInv'
<1>1. ASSUME NEW g \in Thread PROVE call'[g] \in CallState /\ CallOk(g)'
  <2>1. call[g] \in CallState /\ CallOk(g)
    BY DEF CallsInv, TypeOK
  <2>2. CASE ProcessOf[g] = p
    <3>1. call'[g] = Idle
      BY <2>2 DEF Restart
    <3> QED BY <3>1, IdleOk, IdleFields
  <2>3. CASE ProcessOf[g] # p
    <3>1. call'[g] = call[g] /\ held'[g] = held[g]
      BY <2>3 DEF Restart
    <3> QED BY <2>1, <3>1, StillOk
  <2> QED BY <2>2, <2>3
<1>2. call' \in [Thread -> CallState]
  <2>1. call' = [g \in Thread |-> call'[g]]
    BY DEF Restart
  <2> QED BY <1>1, <2>1
<1>3. held' \in [Thread -> Records] /\ cache' \in [Process -> Records] /\ closed' \in SUBSET Process
  BY IdleFields DEF Restart, CallsInv, TypeOK
<1>4. faults' \in 0..MaxFaults
  BY StoreAssumption DEF Restart, CallsInv, TypeOK
<1> QED BY <1>1, <1>2, <1>3, <1>4 DEF Restart, CallsInv, TypeOK

(* An empty store, at rest.                                                *)
LEMMA CallsStart == Init => CallsInv
<1> SUFFICES ASSUME Init PROVE CallsInv
  OBVIOUS
<1>1. \A g \in Thread : call[g] = Idle
  BY DEF Init
<1>2. 0 < MaxRevision /\ 0 \in 0..MaxFaults
  BY StoreAssumption
<1>3. \A g \in Thread : CallOk(g)
  BY <1>1, <1>2, IdleFields DEF CallOk
<1>4. TypeOK
  BY <1>2, IdleFields DEF Init, TypeOK
<1> QED BY <1>3, <1>4 DEF CallsInv

(* The actions together, and stuttering.                                   *)
LEMMA CallsStepKeeps == CallsInv /\ [Next]_vars => CallsInv'
<1> SUFFICES ASSUME CallsInv, [Next]_vars PROVE CallsInv'
  OBVIOUS
<1>1. CASE UNCHANGED vars
  <2>1. \A g \in Thread : CallOk(g)'
    BY <1>1, StillOk DEF vars, CallsInv
  <2> QED BY <1>1, <2>1 DEF vars, CallsInv, TypeOK
<1> QED BY <1>1, BeginStep, ChangeStep, PersistStep, EndStep, RestartStep DEF Next

(* The store's state is well formed whatever overlaps, fails and dies, in  *)
(* any number of processes: no call acts out of its order, and a rollback  *)
(* or an acknowledgement is of the one revision that its call installed.   *)
THEOREM CallsAreOrdered == Spec => []CallsInv
<1> QED BY CallsStart, CallsStepKeeps, PTL DEF Spec

-----------------------------------------------------------------------------
(* Calls that run alone, in one store object.                              *)

(* What holds before a step of a behaviour without overlaps.               *)
Apart == OneStore /\ CallsInv /\ ApartInv /\ ~overlap

(* The three promises, of the file.                                        *)
Promises == NoAcknowledgedWriteLost /\ OneOwnerPerKey /\ FailedWriteStaysOut

(* A call under way is the only one, and it is as AloneOk says.            *)
LEMMA UnderWay ==
    ASSUME Apart, NEW h \in Thread, call[h].pc # "idle"
    PROVE  /\ call[h] # Idle /\ AloneOk(h) /\ Promises
           /\ \A g \in Thread \ {h} : call[g] = Idle
<1>1. call[h] # Idle
  BY IdleFields
<1> QED BY <1>1 DEF Apart, ApartInv, Alone, Promises

(* The call goes on.                                                       *)
LEMMA GoesOn ==
    ASSUME Apart, NEW h \in Thread, call[h].pc # "idle", NEW c \in CallState, c.pc # "idle",
           call' = [call EXCEPT ![h] = c], UNCHANGED <<file, acked, overlap>>,
           refused' \subseteq refused, AloneOk(h)'
    PROVE  ApartInv'
<1>1. call'[h] = c /\ \A g \in Thread \ {h} : call'[g] = Idle
  BY UnderWay DEF Apart, CallsInv, TypeOK
<1>2. c # Idle
  BY IdleFields
<1>3. Alone' /\ Quiet'
  BY <1>1, <1>2 DEF Alone, Quiet
<1>4. NoAcknowledgedWriteLost' /\ OneOwnerPerKey' /\ FailedWriteStaysOut'
  BY UnderWay DEF Promises, NoAcknowledgedWriteLost, OneOwnerPerKey, FailedWriteStaysOut
<1> QED BY <1>1, <1>3, <1>4 DEF ApartInv

(* The call returns, and leaves the map of the file behind.                *)
LEMMA EndsQuiet ==
    ASSUME Apart, NEW h \in Thread, call[h].pc # "idle", call'[h] = Idle,
           \A g \in Thread \ {h} : call[g] = Idle => call'[g] = Idle,
           cache'[ProcessOf[h]] = file', Promises'
    PROVE  ApartInv'
<1>1. \A g \in Thread : call'[g] = Idle
  BY UnderWay
<1>2. \A g \in Thread : ProcessOf[g] = ProcessOf[h]
  BY DEF Apart, OneStore
<1>3. Alone' /\ Quiet'
  BY <1>1, <1>2 DEF Alone, Quiet
<1> QED BY <1>1, <1>3 DEF ApartInv, Promises

(* A call begins when no other is under way.                               *)
LEMMA ApartBegins ==
    ASSUME Apart, NEW h \in Thread, ~overlap',
           BeginClose(h) \/ \E t \in Task : BeginCreate(h, t) \/ BeginCas(h, t) \/ BeginRead(h, t)
    PROVE  ApartInv'
<1>1. /\ \A g \in Thread : call[g] = Idle
      /\ UNCHANGED <<file, tmp, cache, acked, refused>>
  BY DEF BeginClose, BeginCreate, BeginCas, BeginRead, Begin, NoteOverlap
<1>2. NoAcknowledgedWriteLost' /\ OneOwnerPerKey' /\ FailedWriteStaysOut'
  BY <1>1 DEF Apart, ApartInv, NoAcknowledgedWriteLost, OneOwnerPerKey, FailedWriteStaysOut
<1>3. cache[ProcessOf[h]] = file
  BY <1>1 DEF Apart, ApartInv, Quiet
<1>4. PICK c : /\ call' = [call EXCEPT ![h] = c] /\ c.pc # "idle"
               /\ \/ c.pc = "bind" /\ c.text = file
                  \/ c.pc = "encode" /\ c.op = "close"
  <2>1. CASE BeginClose(h)
    <3> DEFINE c == [Idle EXCEPT !.op = "close", !.pc = "encode"]
    <3>1. c.pc = "encode" /\ c.op = "close" /\ call' = [call EXCEPT ![h] = c]
      BY <2>1 DEF BeginClose, Idle
    <3> QED BY <3>1
  <2>2. ASSUME NEW t \in Task, BeginCreate(h, t) \/ BeginCas(h, t) \/ BeginRead(h, t)
        PROVE  \E c : /\ call' = [call EXCEPT ![h] = c] /\ c.pc # "idle"
                      /\ c.pc = "bind" /\ c.text = file
    <3>1. PICK op : Begin(h, op, t)
      BY <2>2 DEF BeginCreate, BeginCas, BeginRead
    <3> DEFINE c == [Idle EXCEPT !.op = op, !.task = t, !.pc = "bind", !.text = file]
    <3>2. c.pc = "bind" /\ c.text = file /\ call' = [call EXCEPT ![h] = c]
      BY <3>1 DEF Begin, Idle
    <3> QED BY <3>2
  <2> QED BY <2>1, <2>2
<1>5. call'[h] = c /\ \A g \in Thread \ {h} : call'[g] = Idle
  BY <1>1, <1>4 DEF Apart, CallsInv, TypeOK
<1>6. c # Idle
  BY <1>4, IdleFields
<1>7. Alone' /\ Quiet'
  BY <1>5, <1>6 DEF Alone, Quiet
<1>8. AloneOk(h)'
  BY <1>1, <1>3, <1>4, <1>5 DEF AloneOk, Result
<1> QED BY <1>2, <1>5, <1>7, <1>8 DEF ApartInv

(* It loads the file, decides on it, and installs its one change.          *)
LEMMA ApartChanges ==
    ASSUME Apart, NEW h \in Thread, Load(h) \/ Get(h) \/ Decide(h) \/ Refuse(h) \/ Install(h)
    PROVE  ApartInv'
<1> DEFINE t == call[h].task
           p == ProcessOf[h]
<1>1. /\ call[h].pc # "idle" /\ p \in Process /\ call[h] \in CallState /\ CallOk(h)
      /\ cache \in [Process -> Records]
  BY CallFields DEF Load, Get, Decide, Refuse, Install, Apart, CallsInv, TypeOK
<1>2. AloneOk(h) /\ Promises
  BY <1>1, UnderWay
<1>3. CASE Load(h)
  <2> DEFINE c == [call[h] EXCEPT !.pc = "decide"]
  <2>1. c \in CallState /\ c.pc = "decide"
    BY <1>1 DEF CallState, PCs
  <2>2. call' = [call EXCEPT ![h] = c] /\ UNCHANGED <<file, acked, overlap, refused>>
    BY <1>3 DEF Load, Goto
  <2> HIDE DEF c
  <2>3. cache'[p] = file
    BY <1>1, <1>2, <1>3 DEF Load, AloneOk
  <2>4. call'[h] = c
    BY <2>2 DEF Apart, CallsInv, TypeOK
  <2>5. AloneOk(h)'
    BY <2>1, <2>2, <2>3, <2>4 DEF AloneOk
  <2> QED BY <1>1, <2>1, <2>2, <2>5, GoesOn
<1>4. CASE Get(h) \/ Refuse(h)
  <2>1. /\ call' = [call EXCEPT ![h] = Idle] /\ call[h].pc = "decide"
        /\ UNCHANGED <<file, cache, acked, refused>>
    BY <1>4 DEF Get, Refuse, Return
  <2>2. call'[h] = Idle /\ \A g \in Thread \ {h} : call'[g] = call[g]
    BY <2>1 DEF Apart, CallsInv, TypeOK
  <2>3. cache[p] = file
    BY <1>2, <2>1 DEF AloneOk
  <2>4. Promises'
    BY <1>2, <2>1 DEF Promises, NoAcknowledgedWriteLost, OneOwnerPerKey, FailedWriteStaysOut
  <2> QED BY <1>1, <2>1, <2>2, <2>3, <2>4, EndsQuiet
<1>5. CASE Decide(h)
  <2> DEFINE r == cache[p][t]
             c == [call[h] EXCEPT !.pc = "install", !.old = r]
  <2>1. call[h].op \in {"create", "cas"} /\ t \in Task /\ cache[p] = file
    BY <1>1, <1>2, <1>5 DEF Decide, WriteAllowed, CallOk, AloneOk
  <2>2. r \in Revision
    BY <1>1, <2>1 DEF Records
  <2>3. c \in CallState /\ c.pc = "install" /\ c.op = call[h].op /\ c.task = t /\ c.old = r
    BY <1>1, <2>2 DEF CallState, PCs
  <2>4. call' = [call EXCEPT ![h] = c] /\ UNCHANGED <<file, cache, acked, overlap, refused>>
    BY <1>1, <1>5 DEF Decide, Apart, CallsInv, TypeOK
  <2>5. /\ call[h].op = "create" => r = 0 /\ KeyIsFree(file, t)
        /\ call[h].op = "cas" => r > 0
    BY <1>5, <2>1 DEF Decide, WriteAllowed, CreateAllowed, CasAllowed
  <2>6. r = file[t]
    BY <2>1
  <2> HIDE DEF c, r
  <2>7. call'[h] = c
    BY <2>4 DEF Apart, CallsInv, TypeOK
  <2>8. OneChange(h)'
    BY <2>3, <2>4, <2>5, <2>6, <2>7 DEF OneChange, KeyIsFree
  <2>9. AloneOk(h)'
    BY <2>1, <2>3, <2>4, <2>7, <2>8 DEF AloneOk
  <2> QED BY <1>1, <2>3, <2>4, <2>9, GoesOn
<1>6. CASE Install(h)
  <2> DEFINE r == call[h].old + 1
             c == [call[h] EXCEPT !.pc = "encode"]
  <2>1. /\ call[h].op \in {"create", "cas"} /\ t \in Task /\ cache[p] = file /\ call[h].pc = "install"
    BY <1>1, <1>2, <1>6, CallFields DEF Install, CallOk, AloneOk, Apart
  <2>2. /\ c \in CallState /\ c.pc = "encode" /\ c.op = call[h].op /\ c.task = t
        /\ c.old = call[h].old
    BY <1>1 DEF CallState, PCs
  <2>3. /\ call' = [call EXCEPT ![h] = c] /\ UNCHANGED <<file, acked, overlap>>
        /\ refused' = refused \ {<<t, r>>}
    BY <1>6 DEF Install, Goto
  <2>4. cache'[p] = [cache[p] EXCEPT ![t] = r]
    BY <1>1, <1>6 DEF Install
  <2>5. OneChange(h)
    BY <1>2, <2>1 DEF AloneOk
  <2> HIDE DEF c
  <2>6. call'[h] = c
    BY <2>3 DEF Apart, CallsInv, TypeOK
  <2>7. OneChange(h)'
    BY <2>2, <2>3, <2>5, <2>6 DEF OneChange, KeyIsFree
  <2>8. cache'[p] = Result(h)'
    BY <2>1, <2>2, <2>3, <2>4, <2>6 DEF Result
  <2>9. AloneOk(h)'
    BY <2>1, <2>2, <2>3, <2>6, <2>7, <2>8 DEF AloneOk
  <2> QED BY <1>1, <2>2, <2>3, <2>9, GoesOn
<1> QED BY <1>3, <1>4, <1>5, <1>6

(* It encodes the map and writes it beside the file.                       *)
LEMMA ApartPersists ==
    ASSUME Apart, NEW h \in Thread, Encode(h) \/ Open(h) \/ Write(h)
    PROVE  ApartInv'
<1> DEFINE p == ProcessOf[h]
           w == Result(h)
<1>1. /\ call[h].pc \in {"encode", "open", "write"} /\ call[h] \in CallState
      /\ cache \in [Process -> Records] /\ p \in Process
      /\ UNCHANGED <<file, cache, acked, overlap, refused>>
  <2>1. CASE Write(h)
    <3>1. AloneOk(h) /\ call[h].pc = "write"
      BY <2>1, UnderWay DEF Write
    <3>2. call[h].at = "tmp"
      BY <3>1 DEF AloneOk
    <3> QED BY <2>1, <3>1, <3>2, CallFields DEF Write, Apart, CallsInv, TypeOK
  <2> QED BY <2>1, CallFields DEF Encode, Open, Apart, CallsInv, TypeOK
<1>2. AloneOk(h) /\ call[h].pc # "idle"
  BY <1>1, UnderWay
<1>3. /\ cache[p] = w
      /\ call[h].pc \in {"open", "write"} => call[h].text = w
      /\ call[h].op # "close" => OneChange(h) /\ <<call[h].task, call[h].old + 1>> \notin refused
  BY <1>1, <1>2 DEF AloneOk
<1>4. PICK c \in CallState :
         /\ call' = [call EXCEPT ![h] = c]
         /\ c.op = call[h].op /\ c.task = call[h].task /\ c.old = call[h].old /\ c.text = w
         /\ \/ c.pc = "open"
            \/ c.pc = "write" /\ c.at = "tmp" /\ tmp'.there
            \/ c.pc = "replace" /\ c.at = "tmp" /\ tmp'.there /\ tmp'.text = w
  <2>1. CASE Encode(h)
    <3> DEFINE c == [call[h] EXCEPT !.pc = "open", !.text = cache[p]]
    <3>1. /\ c \in CallState /\ c.pc = "open" /\ c.op = call[h].op /\ c.task = call[h].task
          /\ c.old = call[h].old /\ c.text = cache[p]
      BY <1>1 DEF CallState, PCs
    <3>2. call' = [call EXCEPT ![h] = c]
      BY <1>1, <2>1 DEF Encode, Apart, CallsInv, TypeOK
    <3> HIDE DEF c, w
    <3> QED BY <1>3, <3>1, <3>2
  <2>2. CASE Open(h)
    <3> DEFINE c == [call[h] EXCEPT !.pc = "write", !.at = "tmp"]
    <3>1. /\ c \in CallState /\ c.pc = "write" /\ c.op = call[h].op /\ c.task = call[h].task
          /\ c.old = call[h].old /\ c.text = call[h].text /\ c.at = "tmp"
      BY <1>1 DEF CallState, PCs
    <3>2. call' = [call EXCEPT ![h] = c] /\ tmp'.there /\ call[h].pc = "open"
      BY <1>1, <2>2 DEF Open, Apart, CallsInv, TypeOK
    <3> HIDE DEF c, w
    <3> QED BY <1>3, <3>1, <3>2
  <2>3. CASE Write(h)
    <3> DEFINE c == [call[h] EXCEPT !.pc = "replace"]
    <3>1. /\ c \in CallState /\ c.pc = "replace" /\ c.op = call[h].op /\ c.task = call[h].task
          /\ c.old = call[h].old /\ c.text = call[h].text /\ c.at = call[h].at
      BY <1>1 DEF CallState, PCs
    <3>2. call' = [call EXCEPT ![h] = c] /\ call[h].pc = "write"
      BY <2>3 DEF Write, Goto
    <3>3. call[h].at = "tmp" /\ tmp.there
      BY <1>2, <3>2 DEF AloneOk
    <3>4. tmp' = [tmp EXCEPT !.text = call[h].text]
      BY <2>3, <3>3 DEF Write
    <3>5. tmp'.there /\ tmp'.text = call[h].text
      BY <3>3, <3>4 DEF Apart, CallsInv, TypeOK
    <3> HIDE DEF c, w
    <3> QED BY <1>3, <3>1, <3>2, <3>3, <3>5
  <2> HIDE DEF w
  <2> QED BY <2>1, <2>2, <2>3, <1>1 DEF Encode, Open, Write
<1>5. call'[h] = c
  BY <1>4 DEF Apart, CallsInv, TypeOK
<1>6. Result(h)' = w
  <2>1. call'[h].op = call[h].op /\ call'[h].task = call[h].task /\ call'[h].old = call[h].old
    BY <1>4, <1>5
  <2> QED BY <1>1, <2>1 DEF Result
<1>7. call[h].op # "close" => OneChange(h)'
  BY <1>1, <1>3, <1>4, <1>5 DEF OneChange, KeyIsFree
<1> HIDE DEF w
<1>8. AloneOk(h)'
  BY <1>1, <1>3, <1>4, <1>5, <1>6, <1>7 DEF AloneOk
<1>9. c.pc # "idle"
  BY <1>4
<1> QED BY <1>1, <1>2, <1>4, <1>8, <1>9, GoesOn

(* Replacing the file keeps the promises: the call's one revision follows  *)
(* the one on file, its key was free, and it has not been refused.         *)
LEMMA ResultKeepsPromises ==
    ASSUME Apart, NEW h \in Thread, AloneOk(h), call[h].pc = "replace", Promises,
           file' = Result(h), UNCHANGED refused, Acknowledge(h)
    PROVE  Promises'
<1> DEFINE t == call[h].task
           r == call[h].old + 1
<1>1. CASE call[h].op = "close"
  <2>1. UNCHANGED <<file, acked>>
    BY <1>1 DEF Result, Acknowledge
  <2> QED BY <2>1 DEF Promises, NoAcknowledgedWriteLost, OneOwnerPerKey, FailedWriteStaysOut
<1>2. CASE call[h].op # "close"
  <2>1. /\ t \in Task /\ call[h].op \in {"create", "cas"} /\ call[h].old \in Nat
        /\ file \in [Task -> Nat] /\ acked \in [Task -> Nat]
    <3>1. Revision \subseteq Nat
      BY StoreAssumption DEF Revision
    <3>2. file \in [Task -> Revision] /\ acked \in [Task -> Revision]
      BY DEF Apart, CallsInv, TypeOK, Records
    <3>3. call[h].op \in {"create", "cas"} /\ t \in Task /\ call[h].old \in Revision
      BY <1>2, CallFields DEF Apart, CallOk
    <3> QED BY <3>1, <3>2, <3>3
  <2>2. OneChange(h) /\ <<t, r>> \notin refused
    BY <1>2 DEF AloneOk
  <2>3. /\ file' = [file EXCEPT ![t] = r] /\ file[t] = call[h].old
        /\ acked' = [acked EXCEPT ![t] = IF r > acked[t] THEN r ELSE acked[t]]
    BY <1>2, <2>2 DEF Result, OneChange, Acknowledge
  <2>4. /\ \A u \in Task : file'[u] = IF u = t THEN r ELSE file[u]
        /\ \A u \in Task : acked'[u] = IF u = t /\ r > acked[t] THEN r ELSE acked[u]
    BY <2>1, <2>3
  <2>5. NoAcknowledgedWriteLost'
    BY <2>1, <2>3, <2>4 DEF Promises, NoAcknowledgedWriteLost
  <2>6. FailedWriteStaysOut'
    BY <2>2, <2>4 DEF Promises, FailedWriteStaysOut
  <2>7. \A u \in Task \ {t} : file[u] > 0 => KeyOf[u] # KeyOf[t]
    <3>1. CASE call[h].op = "create"
      BY <2>2, <3>1 DEF OneChange, KeyIsFree
    <3>2. CASE call[h].op = "cas"
      <4>1. file[t] > 0
        BY <2>2, <3>2 DEF OneChange
      <4> QED BY <2>1, <4>1 DEF Promises, OneOwnerPerKey
    <3> QED BY <2>1, <3>1, <3>2
  <2>8. OneOwnerPerKey'
    BY <2>1, <2>4, <2>7 DEF Promises, OneOwnerPerKey
  <2> QED BY <2>5, <2>6, <2>8 DEF Promises
<1> QED BY <1>1, <1>2

(* It ends: the file is its result, or the rollback leaves the file's map. *)
LEMMA ApartEnds ==
    ASSUME Apart, NEW h \in Thread, Replace(h) \/ ReplaceFails(h) \/ PersistFails(h)
    PROVE  ApartInv'
<1> DEFINE t == call[h].task
           p == ProcessOf[h]
<1>1. /\ call[h].pc # "idle" /\ call[h] \in CallState /\ CallOk(h)
      /\ cache \in [Process -> Records] /\ p \in Process
  BY CallFields DEF Replace, ReplaceFails, PersistFails, Apart, CallsInv, TypeOK
<1>2. AloneOk(h) /\ Promises
  BY <1>1, UnderWay
<1>3. CASE Replace(h)
  <2>1. /\ call[h].pc = "replace" /\ file' = tmp.text /\ Acknowledge(h) /\ UNCHANGED <<cache, refused>>
        /\ call'[h] = Idle
    BY <1>3 DEF Replace
  <2>2. tmp.text = Result(h) /\ cache[p] = Result(h)
    BY <1>2, <2>1 DEF AloneOk
  <2>3. \A g \in Thread \ {h} : call[g] = Idle => call'[g] = Idle
    BY <1>3 DEF Replace, Idle
  <2>4. Promises'
    BY <1>2, <2>1, <2>2, ResultKeepsPromises
  <2> QED BY <1>1, <2>1, <2>2, <2>3, <2>4, EndsQuiet
<1>4. CASE ReplaceFails(h)
  BY <1>2, <1>4 DEF ReplaceFails, AloneOk
<1>5. CASE PersistFails(h)
  <2>1. /\ call' = [call EXCEPT ![h] = Idle] /\ call[h].pc = "open" /\ Rollback(h)
        /\ UNCHANGED <<file, acked>>
    BY <1>5 DEF PersistFails, Return
  <2>2. call'[h] = Idle /\ \A g \in Thread \ {h} : call'[g] = call[g]
    BY <2>1 DEF Apart, CallsInv, TypeOK
  <2>3. cache[p] = Result(h) /\ file \in [Task -> Revision]
    BY <1>2, <2>1 DEF AloneOk, Apart, CallsInv, TypeOK, Records
  <2>4. CASE call[h].op = "close"
    <3>1. UNCHANGED <<cache, refused>> /\ cache[p] = file
      BY <2>1, <2>3, <2>4 DEF Rollback, Result
    <3>2. Promises'
      BY <1>2, <2>1, <3>1 DEF Promises, NoAcknowledgedWriteLost, OneOwnerPerKey, FailedWriteStaysOut
    <3> QED BY <1>1, <2>1, <2>2, <3>1, <3>2, EndsQuiet
  <2>5. CASE call[h].op # "close"
    <3>1. /\ t \in Task /\ call[h].old \in Nat
      BY <1>1, <2>1, <2>5, CallFields, StoreAssumption DEF Apart, Revision
    <3>2. call[h].old = file[t]
      BY <1>2, <2>1, <2>5 DEF AloneOk, OneChange
    <3>3. /\ cache' = [cache EXCEPT ![p][t] = call[h].old]
          /\ refused' = refused \cup {<<t, call[h].old + 1>>}
      BY <2>1, <2>5 DEF Rollback
    <3>4. cache'[p] = [cache[p] EXCEPT ![t] = file[t]]
      BY <1>1, <3>2, <3>3
    <3>5. cache[p] = [file EXCEPT ![t] = call[h].old + 1]
      BY <2>3, <2>5 DEF Result
    <3>6. cache'[p] = file
      BY <2>3, <3>1, <3>4, <3>5
    <3>7. \A u \in Task : <<u, file[u]>> # <<t, call[h].old + 1>>
      BY <3>1, <3>2
    <3>8. Promises'
      BY <1>2, <2>1, <3>3, <3>7 DEF Promises, NoAcknowledgedWriteLost, OneOwnerPerKey, FailedWriteStaysOut
    <3> QED BY <1>1, <2>1, <2>2, <3>6, <3>8, EndsQuiet
  <2> QED BY <2>4, <2>5
<1> QED BY <1>3, <1>4, <1>5

(* The process dies: the call is gone, and what a new store object loads   *)
(* is the file, on which the call has changed nothing yet.                 *)
LEMMA ApartRestarts ==
    ASSUME Apart, NEW p \in Process, Restart(p) PROVE ApartInv'
<1>1. /\ UNCHANGED <<file, tmp, acked, refused, overlap>>
      /\ cache' = [cache EXCEPT ![p] = file] /\ cache \in [Process -> Records]
      /\ \A g \in Thread : ProcessOf[g] \in Process
  BY StoreAssumption DEF Restart, Apart, CallsInv, TypeOK
<1>2. NoAcknowledgedWriteLost' /\ OneOwnerPerKey' /\ FailedWriteStaysOut'
  BY <1>1 DEF Apart, ApartInv, NoAcknowledgedWriteLost, OneOwnerPerKey, FailedWriteStaysOut
<1>3. CASE \E g \in Thread : ProcessOf[g] = p
  <2>1. \A g \in Thread : ProcessOf[g] = p
    BY <1>3 DEF Apart, OneStore
  <2>2. (\A g \in Thread : call'[g] = Idle) /\ cache'[p] = file
    BY <1>1, <2>1 DEF Restart
  <2>3. Alone' /\ Quiet'
    BY <1>1, <2>1, <2>2 DEF Alone, Quiet
  <2> QED BY <1>2, <2>2, <2>3 DEF ApartInv
<1>4. CASE \A g \in Thread : ProcessOf[g] # p
  <2>1. \A g \in Thread : call'[g] = call[g] /\ cache'[ProcessOf[g]] = cache[ProcessOf[g]]
    BY <1>1, <1>4 DEF Restart
  <2>2. Alone /\ Quiet /\ \A g \in Thread : call[g] # Idle => AloneOk(g)
    BY DEF Apart, ApartInv
  <2>3. Alone' /\ Quiet'
    BY <1>1, <2>1, <2>2 DEF Alone, Quiet
  <2>4. ASSUME NEW g \in Thread, call'[g] # Idle PROVE AloneOk(g)'
    <3>1. AloneOk(g)
      BY <2>1, <2>2, <2>4
    <3>2. Result(g)' = Result(g) /\ (OneChange(g) => OneChange(g)')
      BY <1>1, <2>1 DEF Result, OneChange, KeyIsFree
    <3> QED BY <1>1, <2>1, <3>1, <3>2 DEF AloneOk
  <2> QED BY <1>2, <2>3, <2>4 DEF ApartInv
<1> QED BY <1>3, <1>4

(* At the start the map and the file are both empty.                       *)
LEMMA ApartStart == Init => ApartInv
<1> SUFFICES ASSUME Init PROVE ApartInv
  OBVIOUS
<1>1. \A t \in Task : file[t] = 0 /\ acked[t] = 0
  BY DEF Init, NoRecords
<1>2. (\A g \in Thread : call[g] = Idle /\ cache[ProcessOf[g]] = file) /\ refused = {}
  BY StoreAssumption DEF Init
<1>3. Alone /\ Quiet
  BY <1>2 DEF Alone, Quiet
<1>4. NoAcknowledgedWriteLost /\ OneOwnerPerKey /\ FailedWriteStaysOut
  BY <1>1, <1>2 DEF NoAcknowledgedWriteLost, OneOwnerPerKey, FailedWriteStaysOut
<1> QED BY <1>2, <1>3, <1>4 DEF ApartInv

(* A step after which no calls have overlapped comes from such a state.    *)
LEMMA ApartStepKeeps ==
    ASSUME OneStore, CallsInv, ApartInv, [Next]_vars PROVE ApartInv'
<1> SUFFICES ASSUME ~overlap' PROVE ApartInv'
  BY DEF ApartInv
<1>1. CASE UNCHANGED vars
  BY <1>1 DEF vars, ApartInv, Alone, Quiet, AloneOk, OneChange, Result, KeyIsFree,
     NoAcknowledgedWriteLost, OneOwnerPerKey, FailedWriteStaysOut
<1>2. CASE Next
  <2>1. ~overlap
    BY <1>2 DEF Next, BeginCreate, BeginCas, BeginRead, BeginClose, Begin, NoteOverlap,
       Load, Get, Decide, Refuse, Install, Encode, Open, Write, Replace, ReplaceFails, PersistFails,
       Restart
  <2>2. Apart
    BY <2>1 DEF Apart
  <2> QED BY <1>2, <2>2, ApartBegins, ApartChanges, ApartPersists, ApartEnds, ApartRestarts DEF Next
<1> QED BY <1>1, <1>2

(* Where the threads use one store object, a call that runs alone holds    *)
(* the map of the file or that map with its one change, whatever failed or *)
(* died before it.                                                         *)
THEOREM ApartIsSound ==
    ASSUME OneStore PROVE Spec => []ApartInv
<1>1. CallsInv /\ ApartInv /\ [Next]_vars => ApartInv'
  BY ApartStepKeeps
<1> QED BY <1>1, ApartStart, CallsAreOrdered, PTL DEF Spec

(* As long as no two calls overlap, write errors, rollbacks, crashes and   *)
(* restarts lose no write that create or compare_and_swap acknowledged     *)
(* (durable_state.py, FileBackedExecutionStateStore).                      *)
THEOREM AcknowledgedStays ==
    ASSUME OneStore PROVE Spec => []ApartKeepsAcked
<1>1. ApartInv => ApartKeepsAcked
  BY DEF ApartInv, ApartKeepsAcked
<1> QED BY <1>1, ApartIsSound, PTL

(* ... an idempotency key owns at most one record ...                      *)
THEOREM KeysHaveOneOwner ==
    ASSUME OneStore PROVE Spec => []ApartOneOwner
<1>1. ApartInv => ApartOneOwner
  BY DEF ApartInv, ApartOneOwner
<1> QED BY <1>1, ApartIsSound, PTL

(* ... and a write that raised a persist failure stays out of the file,    *)
(* through every later write and through close.                            *)
THEOREM FailedStaysOut ==
    ASSUME OneStore PROVE Spec => []ApartFailedStaysOut
<1>1. ApartInv => ApartFailedStaysOut
  BY DEF ApartInv, ApartFailedStaysOut
<1> QED BY <1>1, ApartIsSound, PTL

-----------------------------------------------------------------------------
(* The store as its callers take it: each call one atomic step on the file. *)

(* What an atomic store would require of the write of h.                   *)
Permitted(h) ==
    LET t == call[h].task
    IN  \/ call[h].op = "create" /\ file[t] = 0 /\ KeyIsFree(file, t)
        \/ call[h].op = "cas" /\ file[t] > 0 /\ file[t] = held[h][t]

(* The write of h takes effect, and h gets the new revision.               *)
Puts(h) ==
    LET t == call[h].task
    IN  /\ Permitted(h)
        /\ file' = [file EXCEPT ![t] = @ + 1]
        /\ held' = [held EXCEPT ![h][t] = file[t] + 1]

(* h gets the revision on file.                                            *)
Reads(h) ==
    /\ UNCHANGED file
    /\ held' = [held EXCEPT ![h][call[h].task] = file[call[h].task]]

(* The threads of p die and hold nothing.                                  *)
Forgets(p) ==
    /\ UNCHANGED file
    /\ held' = [h \in Thread |-> IF ProcessOf[h] = p THEN NoRecords ELSE held[h]]

AtomicStep ==
    /\ \/ \E h \in Thread : Puts(h) \/ Reads(h)
       \/ \E p \in Process : Forgets(p)
       \/ UNCHANGED <<file, held>>
    /\ \A h \in Thread : Refuse(h) => ~Permitted(h)

(* As long as no two calls overlap, a step is one of an atomic store or    *)
(* changes nothing a caller sees, and a write is refused for what is on    *)
(* file.                                                                   *)
ApartIsAtomic == [][~overlap' => AtomicStep]_vars

(* A swap past its check is of the revision the caller got, whatever       *)
(* overlaps.                                                               *)
SwapOk(h) ==
    call[h].op = "cas" /\ call[h].pc \notin {"bind", "decide"} =>
        call[h].old = held[h][call[h].task]

SwapsHeld == \A h \in Thread : SwapOk(h)

(* A thread of which a step keeps all of this, or which is left idle.      *)
LEMMA SwapStays ==
    ASSUME NEW g, SwapOk(g),
           \/ call'[g] = Idle
           \/ /\ held'[g] = held[g]
              /\ \/ call'[g] = call[g]
                 \/ call'[g] = [call[g] EXCEPT !.at = "file"]
    PROVE  SwapOk(g)'
<1>1. CASE call'[g] = Idle
  BY <1>1, IdleFields DEF SwapOk
<1>2. CASE call'[g] = call[g] /\ held'[g] = held[g]
  BY <1>2 DEF SwapOk
<1>3. CASE call'[g] = [call[g] EXCEPT !.at = "file"] /\ held'[g] = held[g]
  <2>1. call[g] \in CallState => /\ call'[g].op = call[g].op /\ call'[g].pc = call[g].pc
                                 /\ call'[g].task = call[g].task /\ call'[g].old = call[g].old
    BY <1>3 DEF CallState
  <2> QED BY <1>3, <2>1 DEF SwapOk
<1> QED BY <1>1, <1>2, <1>3

(* One thread moves: its call stays in order if it does.                   *)
LEMMA SwapMoves ==
    ASSUME CallsInv, SwapsHeld, NEW h \in Thread, NEW c, call' = [call EXCEPT ![h] = c],
           \A g \in Thread \ {h} : held'[g] = held[g],
           c.op = "cas" /\ c.pc \notin {"bind", "decide"} => c.old = held'[h][c.task]
    PROVE  SwapsHeld'
<1>1. call'[h] = c /\ \A g \in Thread \ {h} : call'[g] = call[g]
  BY DEF CallsInv, TypeOK
<1>2. SwapOk(h)'
  BY <1>1 DEF SwapOk
<1>3. \A g \in Thread \ {h} : SwapOk(g)'
  BY <1>1, SwapStays DEF SwapsHeld
<1> QED BY <1>2, <1>3 DEF SwapsHeld

(* What a step of h leaves of held.                                        *)
LEMMA HeldFrame ==
    ASSUME CallsInv, NEW h \in Thread, NEW t, NEW r, held' = [held EXCEPT ![h][t] = r]
    PROVE  \A g \in Thread \ {h} : held'[g] = held[g]
  BY DEF CallsInv, TypeOK

(* A call that begins, or ends, has no swap past its check.                *)
LEMMA SwapBegins ==
    ASSUME CallsInv, SwapsHeld, NEW h \in Thread,
           \/ \E t \in Task : BeginCreate(h, t) \/ BeginCas(h, t) \/ BeginRead(h, t)
           \/ BeginClose(h)
    PROVE  SwapsHeld'
<1> DEFINE c(op, t) == [Idle EXCEPT !.op = op, !.task = t, !.pc = "bind", !.text = file]
           e == [Idle EXCEPT !.op = "close", !.pc = "encode"]
<1>1. UNCHANGED held
  BY DEF BeginCreate, BeginCas, BeginRead, BeginClose
<1>2. CASE \E t \in Task, op \in {"create", "cas", "read"} : Begin(h, op, t)
  <2>1. PICK t \in Task, op \in {"create", "cas", "read"} : call' = [call EXCEPT ![h] = c(op, t)]
    BY <1>2 DEF Begin
  <2>2. c(op, t).pc = "bind"
    BY DEF Idle
  <2> HIDE DEF c
  <2> QED BY <1>1, <2>1, <2>2, SwapMoves
<1>3. CASE BeginClose(h)
  <2>1. call' = [call EXCEPT ![h] = e]
    BY <1>3 DEF BeginClose
  <2>2. e.op = "close"
    BY DEF Idle
  <2> HIDE DEF e
  <2> QED BY <1>1, <2>1, <2>2, SwapMoves
<1> QED BY <1>2, <1>3 DEF BeginCreate, BeginCas, BeginRead

(* The check of a swap compares what it is about to replace.               *)
LEMMA SwapGoes ==
    ASSUME CallsInv, SwapsHeld, NEW h \in Thread,
           Load(h) \/ Decide(h) \/ Install(h) \/ Encode(h) \/ Open(h) \/ Write(h)
    PROVE  SwapsHeld'
<1>1. call[h] \in CallState /\ SwapOk(h) /\ UNCHANGED held
  BY CallFields DEF CallsInv, TypeOK, SwapsHeld, Load, Decide, Install, Encode, Open, Write
<1>2. CASE Load(h)
  <2> DEFINE c == [call[h] EXCEPT !.pc = "decide"]
  <2>1. call' = [call EXCEPT ![h] = c] /\ c.pc = "decide"
    BY <1>1, <1>2 DEF Load, Goto, CallState
  <2> HIDE DEF c
  <2> QED BY <1>1, <2>1, SwapMoves
<1>3. CASE Decide(h)
  <2> DEFINE was == cache[ProcessOf[h]][call[h].task]
             c == [call[h] EXCEPT !.pc = "install", !.old = was]
  <2>1. c.op = call[h].op /\ c.task = call[h].task /\ c.old = was
    BY <1>1 DEF CallState
  <2>2. call[h].op = "cas" => was = held[h][call[h].task]
    BY <1>3 DEF Decide, WriteAllowed, CasAllowed
  <2>3. call' = [call EXCEPT ![h] = c]
    BY <1>1, <1>3 DEF Decide, CallsInv, TypeOK
  <2> HIDE DEF c, was
  <2> QED BY <1>1, <2>1, <2>2, <2>3, SwapMoves
<1>4. CASE Install(h) \/ Encode(h) \/ Open(h) \/ Write(h)
  <2>1. PICK c : /\ call' = [call EXCEPT ![h] = c]
                 /\ c.op = call[h].op /\ c.task = call[h].task /\ c.old = call[h].old
    <3>1. CASE Install(h) \/ Write(h)
      <4>1. PICK pc \in {"encode", "replace"} : call' = [call EXCEPT ![h].pc = pc]
        BY <3>1 DEF Install, Write, Goto
      <4> DEFINE c == [call[h] EXCEPT !.pc = pc]
      <4>2. c.op = call[h].op /\ c.task = call[h].task /\ c.old = call[h].old
        BY <1>1 DEF CallState
      <4>3. call' = [call EXCEPT ![h] = c]
        BY <4>1
      <4> HIDE DEF c
      <4> QED BY <4>2, <4>3
    <3>2. CASE Encode(h)
      <4> DEFINE c == [call[h] EXCEPT !.pc = "open", !.text = cache[ProcessOf[h]]]
      <4>1. c.op = call[h].op /\ c.task = call[h].task /\ c.old = call[h].old
        BY <1>1 DEF CallState
      <4>2. call' = [call EXCEPT ![h] = c]
        BY <1>1, <3>2 DEF Encode, CallsInv, TypeOK
      <4> HIDE DEF c
      <4> QED BY <4>1, <4>2
    <3>3. CASE Open(h)
      <4> DEFINE c == [call[h] EXCEPT !.pc = "write", !.at = "tmp"]
      <4>1. c.op = call[h].op /\ c.task = call[h].task /\ c.old = call[h].old
        BY <1>1 DEF CallState
      <4>2. call' = [call EXCEPT ![h] = c]
        BY <1>1, <3>3 DEF Open, CallsInv, TypeOK
      <4> HIDE DEF c
      <4> QED BY <4>1, <4>2
    <3> QED BY <1>4, <3>1, <3>2, <3>3
  <2>2. call[h].pc \notin {"bind", "decide"}
    BY <1>4 DEF Install, Encode, Open, Write
  <2> QED BY <1>1, <2>1, <2>2, SwapMoves DEF SwapOk
<1> QED BY <1>2, <1>3, <1>4

(* A call that ends leaves an idle thread.                                 *)
LEMMA SwapEnds ==
    ASSUME CallsInv, SwapsHeld, NEW h \in Thread,
           Get(h) \/ Refuse(h) \/ Replace(h) \/ ReplaceFails(h) \/ PersistFails(h)
    PROVE  SwapsHeld'
<1>1. \A g \in Thread \ {h} : held'[g] = held[g]
  <2>1. CASE Get(h)
    BY <2>1, HeldFrame DEF Get
  <2>2. CASE Replace(h)
    BY <2>2, HeldFrame DEF Replace, Acknowledge
  <2> QED BY <2>1, <2>2 DEF Refuse, ReplaceFails, PersistFails
<1>2. CASE Replace(h)
  <2>1. \A g \in Thread : \/ call'[g] = Idle
                          \/ g # h /\ (call'[g] = call[g] \/ call'[g] = [call[g] EXCEPT !.at = "file"])
    BY <1>2 DEF Replace
  <2> QED BY <1>1, <2>1, SwapStays DEF SwapsHeld
<1>3. CASE Return(h)
  BY <1>1, <1>3, SwapMoves, IdleFields DEF Return
<1> QED BY <1>2, <1>3 DEF Get, Refuse, ReplaceFails, PersistFails

(* ... as does a crash.                                                    *)
LEMMA SwapRestarts ==
    ASSUME SwapsHeld, NEW p \in Process, Restart(p) PROVE SwapsHeld'
<1>1. \A g \in Thread : call'[g] = Idle \/ (call'[g] = call[g] /\ held'[g] = held[g])
  BY DEF Restart
<1> QED BY <1>1, SwapStays DEF SwapsHeld

(* So swaps are of the revision the caller got.                            *)
LEMMA SwapsAreHeld == Spec => []SwapsHeld
<1>1. Init => SwapsHeld
  BY IdleFields DEF Init, SwapsHeld, SwapOk
<1>2. CallsInv /\ SwapsHeld /\ [Next]_vars => SwapsHeld'
  <2> SUFFICES ASSUME CallsInv, SwapsHeld, [Next]_vars PROVE SwapsHeld'
    OBVIOUS
  <2>1. CASE UNCHANGED vars
    BY <2>1 DEF vars, SwapsHeld, SwapOk
  <2> QED BY <2>1, SwapBegins, SwapGoes, SwapEnds, SwapRestarts DEF Next
<1> QED BY <1>1, <1>2, CallsAreOrdered, PTL DEF Spec

-----------------------------------------------------------------------------
(* A call that runs alone is atomic.                                       *)

(* What the call of h replaces the file by.                                *)
LEMMA ReplacePuts ==
    ASSUME Apart, SwapsHeld, NEW h \in Thread, Replace(h)
    PROVE  Puts(h) \/ UNCHANGED <<file, held>>
<1> DEFINE t == call[h].task
<1>1. AloneOk(h) /\ call[h].pc = "replace" /\ call[h] \in CallState
  BY UnderWay DEF Replace, Apart, CallsInv, TypeOK
<1>2. file' = Result(h) /\ Acknowledge(h)
  BY <1>1 DEF AloneOk, Replace
<1>3. CASE call[h].op = "close"
  BY <1>2, <1>3 DEF Result, Acknowledge
<1>4. CASE call[h].op # "close"
  <2>1. call[h].op \in {"create", "cas"}
    BY <1>1, <1>4, CallFields DEF Apart, CallOk
  <2>2. OneChange(h)
    BY <1>1, <1>4 DEF AloneOk
  <2>3. file' = [file EXCEPT ![t] = file[t] + 1] /\ held' = [held EXCEPT ![h][t] = file[t] + 1]
    BY <1>2, <1>4, <2>2 DEF Result, Acknowledge, OneChange
  <2>4. Permitted(h)
    BY <1>1, <2>1, <2>2 DEF OneChange, Permitted, SwapsHeld, SwapOk
  <2> QED BY <2>3, <2>4 DEF Puts
<1> QED BY <1>3, <1>4

(* A call at its check has loaded the file.                                *)
LEMMA DecidesOnFile ==
    ASSUME Apart, NEW h \in Thread, call[h].pc = "decide" PROVE cache[ProcessOf[h]] = file
<1>1. AloneOk(h)
  BY UnderWay
<1> QED BY <1>1 DEF AloneOk

(* ... so what it reads, or is refused for, is on file.                    *)
LEMMA CheckedOnFile ==
    ASSUME Apart, NEW h \in Thread
    PROVE  /\ Get(h) => Reads(h)
           /\ Refuse(h) => ~Permitted(h)
<1>1. ASSUME Get(h) PROVE Reads(h)
  BY <1>1, DecidesOnFile DEF Get, Reads
<1>2. ASSUME Refuse(h) PROVE ~Permitted(h)
  BY <1>2, DecidesOnFile DEF Refuse, Permitted, WriteAllowed, CreateAllowed, CasAllowed
<1> QED BY <1>1, <1>2

(* A write that is under way has the file to itself.                       *)
LEMMA WriteKeepsFile ==
    ASSUME Apart, NEW h \in Thread, Write(h) PROVE UNCHANGED <<file, held>>
<1>1. AloneOk(h)
  BY UnderWay DEF Write
<1> QED BY <1>1 DEF AloneOk, Write

(* As long as no two calls overlap, the store does what an atomic one      *)
(* would: a create puts the first revision of a free key, a                *)
(* compare_and_swap replaces the revision its caller holds, a read returns *)
(* the revision on file, a refusal is for what is on file, and everything  *)
(* else, write errors and crashes included, leaves the file alone          *)
(* (durable_state.py, FileBackedExecutionStateStore).                      *)
THEOREM CallsApartAreAtomic ==
    ASSUME OneStore PROVE Spec => ApartIsAtomic
<1>1. CallsInv /\ ApartInv /\ SwapsHeld /\ [Next]_vars => [~overlap' => AtomicStep]_vars
  <2> SUFFICES ASSUME CallsInv, ApartInv, SwapsHeld, Next, ~overlap' PROVE AtomicStep
    OBVIOUS
  <2>1. ~overlap
    BY DEF Next, BeginCreate, BeginCas, BeginRead, BeginClose, Begin, NoteOverlap,
       Load, Get, Decide, Refuse, Install, Encode, Open, Write, Replace, ReplaceFails, PersistFails,
       Restart
  <2>2. Apart
    BY <2>1 DEF Apart
  <2>3. ASSUME NEW h \in Thread,
               \/ \E t \in Task : BeginCreate(h, t) \/ BeginCas(h, t) \/ BeginRead(h, t)
               \/ BeginClose(h) \/ Load(h) \/ Decide(h) \/ Refuse(h) \/ Install(h)
               \/ Encode(h) \/ Open(h) \/ ReplaceFails(h) \/ PersistFails(h)
        PROVE  UNCHANGED <<file, held>>
    BY <2>3 DEF BeginCreate, BeginCas, BeginRead, BeginClose, Load, Decide, Refuse, Install,
       Encode, Open, ReplaceFails, PersistFails
  <2>4. ASSUME NEW p \in Process, Restart(p) PROVE Forgets(p)
    BY <2>4 DEF Restart, Forgets
  <2>5. \/ \E h \in Thread : Puts(h) \/ Reads(h)
        \/ \E p \in Process : Forgets(p)
        \/ UNCHANGED <<file, held>>
    BY <2>2, <2>3, <2>4, ReplacePuts, CheckedOnFile, WriteKeepsFile DEF Next
  <2> QED BY <2>2, <2>5, CheckedOnFile DEF AtomicStep
<1> QED BY <1>1, ApartIsSound, CallsAreOrdered, SwapsAreHeld, PTL DEF Spec, ApartIsAtomic
=============================================================================
