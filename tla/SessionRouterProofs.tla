------------------------- MODULE SessionRouterProofs -------------------------
(***************************************************************************)
(* The session router for any number of sessions, slots, callers,          *)
(* completion threads and rotations: no adapter is closed under a call, a  *)
(* completion thread has its slot to itself, and the router only makes     *)
(* steps of the bridge.                                                    *)
(*                                                                         *)
(* RouterInv is inductive.  Its core is that a slot counts its calls, so   *)
(* that a slot with none in flight, and only such a slot, may leave the    *)
(* table.  Most steps keep the table: FrameKeeps says what such a step has *)
(* to show, and CountSame, CountEnters and CountLeaves give its count.     *)
(***************************************************************************)
EXTENDS SessionRouter, SessionBridgeProofs, FiniteSetTheorems

(* The calls in a slot are finitely many; it has some when one is inside.  *)
LEMMA UsersFinite ==
    ASSUME NEW i PROVE IsFiniteSet(Users(i)) /\ Cardinality(Users(i)) \in Nat
  BY RouterAssumption, FS_Subset, FS_CardinalityType DEF Users

(* A slot with a call inside counts at least that call.                    *)
LEMMA InUseIsCounted ==
    ASSUME CallInv, CountInv, NEW c \in Caller, call[c].pc \in Inside
    PROVE  slot[call[c].slot].inFlight # 0
<1> DEFINE i == call[c].slot
<1>1. i \in SlotId /\ c \in Users(i)
  BY DEF CallInv, Users
<1>2. Cardinality(Users(i)) # 0
  BY <1>1, UsersFinite, FS_EmptySet
<1> QED BY <1>1, <1>2 DEF CountInv

(* No call enters or leaves a slot.                                        *)
LEMMA CountSame ==
    ASSUME CountInv, \A i \in SlotId : slot'[i].inFlight = slot[i].inFlight,
           \A d \in Caller : call'[d].pc \in Inside <=> call[d].pc \in Inside,
           \A d \in Caller : call[d].pc \in Inside => call'[d].slot = call[d].slot
    PROVE  CountInv'
<1>1. \A i : Users(i)' = Users(i)
  BY DEF Users
<1> QED BY <1>1 DEF CountInv

(* One call enters slot i.                                                 *)
LEMMA CountEnters ==
    ASSUME RouterTypeOK, CountInv, NEW c \in Caller, NEW i \in SlotId,
           call[c].pc \notin Inside, call'[c].pc \in Inside, call'[c].slot = i,
           \A d \in Caller \ {c} : call'[d] = call[d],
           slot'[i].inFlight = slot[i].inFlight + 1,
           \A j \in SlotId \ {i} : slot'[j].inFlight = slot[j].inFlight
    PROVE  CountInv'
<1>1. Users(i)' = Users(i) \cup {c} /\ c \notin Users(i)
  BY DEF Users
<1>2. \A j \in SlotId \ {i} : Users(j)' = Users(j)
  BY DEF Users
<1>3. Cardinality(Users(i)') = Cardinality(Users(i)) + 1
  BY <1>1, UsersFinite, FS_AddElement
<1> QED BY <1>2, <1>3 DEF CountInv

(* One call leaves slot i.                                                 *)
LEMMA CountLeaves ==
    ASSUME RouterTypeOK, CountInv, NEW c \in Caller, NEW i \in SlotId,
           call[c].pc \in Inside, call[c].slot = i, call'[c].pc \notin Inside,
           \A d \in Caller \ {c} : call'[d] = call[d],
           slot'[i].inFlight = slot[i].inFlight - 1,
           \A j \in SlotId \ {i} : slot'[j].inFlight = slot[j].inFlight
    PROVE  CountInv'
<1>1. Users(i)' = Users(i) \ {c} /\ c \in Users(i)
  BY DEF Users
<1>2. \A j \in SlotId \ {i} : Users(j)' = Users(j)
  BY DEF Users
<1>3. Cardinality(Users(i)') = Cardinality(Users(i)) - 1
  BY <1>1, UsersFinite, FS_RemoveElement
<1> QED BY <1>2, <1>3 DEF CountInv

(* A step that keeps the table.                                            *)
LEMMA FrameKeeps ==
    ASSUME RouterInv, BridgeInv', RouterTypeOK', VerifiedInv', CountInv',
           UNCHANGED slots, phase' = "closed" <=> phase = "closed",
           \A i \in SlotId : slot'[i].session = slot[i].session,
           \A i \in SlotId : slot'[i].adapter = "closed" =>
              slot[i].adapter = "closed" \/ \A s \in Session : slots[s] # i,
           \A d \in Caller : call'[d].pc \in Inside =>
              \/ call[d].pc \in Inside /\ call'[d].slot = call[d].slot
              \/ call'[d].slot \in SlotId /\ Serves(call'[d].slot),
           \A d \in Caller : call'[d].pc = "retire" =>
              call[d].pc = "retire" /\ call'[d].retired = call[d].retired,
           \A w \in Pass : pass'[w].pc # "free" =>
              /\ pass'[w].slot \in SlotId
              /\ slot'[pass'[w].slot].active /\ slot'[pass'[w].slot].owner = w
              /\ phase # "closed" => Serves(pass'[w].slot)
    PROVE  RouterInv'
<1>1. \A i \in SlotId : Serves(i)' = Serves(i)
  BY DEF Serves
<1>2. TableInv'
  BY DEF RouterInv, TableInv, RouterTypeOK
<1>3. CallInv'
  <2>1. ASSUME NEW d \in Caller, call'[d].pc \in Inside
        PROVE  call'[d].slot \in SlotId /\ Serves(call[d].slot)'
    BY <1>1, <2>1 DEF RouterInv, CallInv, Serves
  <2>2. ASSUME NEW d \in Caller, call'[d].pc = "retire", NEW i \in call'[d].retired
        PROVE  slot'[i].session # None /\ \A s \in Session : slots'[s] # i
    <3>1. i \in SlotId
      BY <2>2 DEF RouterTypeOK, CallState
    <3> QED BY <2>2, <3>1 DEF RouterInv, CallInv
  <2> QED BY <2>1, <2>2 DEF CallInv
<1>4. PassInv'
  BY <1>1 DEF PassInv
<1> QED BY <1>2, <1>3, <1>4 DEF RouterInv

-----------------------------------------------------------------------------
(* What every step of a call has in common.                                *)

(* A step of a call leaves the bridge alone or ends the call.              *)
LEMMA CallStepFrame ==
    ASSUME RouterInv, NEW c \in Caller, CallStep(c)
    PROVE  /\ UNCHANGED bridgeVars \/ (AnswerLost(c) /\ call'[c] = NoCall)
           /\ \A d \in Caller \ {c} : call'[d] = call[d]
           /\ verify[c].pc = "verified"
<1> USE DEF bridgeVars, Ends, Goes, Arrived
<1>1. call \in [Caller -> CallState]
  BY DEF RouterInv, RouterTypeOK
<1>2. call[c].pc # "idle" => At(c, "verified")
  BY DEF RouterInv, VerifiedInv, At
<1>3. CASE Join(c) \/ \E i \in SlotId : Open(c, i)
  BY <1>1, <1>3 DEF Join, Open, At
<1>4. CASE Refuse(c)
  BY <1>1, <1>4 DEF Refuse, AnswerLost, At
<1>5. CASE CloseRetired(c) \/ Execute(c) \/ Fails(c) \/ \E op \in {"start", "other"} : Succeeds(c, op)
  BY <1>1, <1>2, <1>5 DEF CloseRetired, Execute, Fails, Succeeds, At
<1>6. CASE CloseRetiredRaises(c) \/ Release(c)
  BY <1>1, <1>2, <1>6 DEF CloseRetiredRaises, Release, AnswerLost, At
<1>7. CASE Request(c) \/ LaunchChecked(c) \/ AlreadyActive(c) \/ StartRaises(c)
  BY <1>1, <1>2, <1>7 DEF Request, LaunchChecked, AlreadyActive, StartRaises, At
<1>8. CASE \E w \in Pass : StartPass(c, w)
  BY <1>1, <1>2, <1>8 DEF StartPass, At
<1> QED BY <1>3, <1>4, <1>5, <1>6, <1>7, <1>8 DEF CallStep

(* The bridge's part of the invariant after it.                            *)
LEMMA CallStepVerified ==
    ASSUME RouterInv, NEW c \in Caller, CallStep(c)
    PROVE  BridgeInv' /\ VerifiedInv'
<1>1. CASE UNCHANGED bridgeVars
  <2>1. BridgeInv'
    BY <1>1, NextKeepsBridgeInv DEF RouterInv
  <2>2. VerifiedInv'
    BY <1>1, CallStepFrame DEF RouterInv, VerifiedInv, bridgeVars
  <2> QED BY <2>1, <2>2
<1>2. CASE AnswerLost(c) /\ call'[c] = NoCall
  <2>1. BridgeInv'
    BY <1>2, NextKeepsBridgeInv DEF RouterInv, BridgeNext
  <2>2. verify \in [Caller -> [pc : {"idle", "mac", "claims", "verified"},
                               nonce : Nonce \cup {None}, epoch : 0..MaxEpoch]]
    BY DEF RouterInv, RouterTypeOK, BridgeTypeOK
  <2>3. /\ \A d \in Caller \ {c} : verify'[d] = verify[d] /\ call'[d] = call[d]
        /\ verify'[c].pc = "idle" /\ call'[c].pc = "idle" /\ token' = token
    <3>1. verify' = [verify EXCEPT ![c] = NotVerifying] /\ token' = token
      BY <1>2 DEF AnswerLost, Step
    <3> QED BY <1>2, <2>2, <3>1, CallStepFrame DEF NotVerifying, NoCall
  <2>4. VerifiedInv'
    BY <2>3 DEF RouterInv, VerifiedInv
  <2> QED BY <2>1, <2>4
<1> QED BY <1>1, <1>2, CallStepFrame

(* A caller that goes on in its slot.                                      *)
LEMMA GoesTypes ==
    ASSUME RouterTypeOK, NEW c \in Caller, NEW pc \in Inside, Goes(c, pc)
    PROVE  call' \in [Caller -> CallState] /\ call'[c].pc = pc /\ call'[c].slot = call[c].slot
  BY DEF RouterTypeOK, CallState, Goes, Inside

(* A call that ends.                                                       *)
LEMMA EndsTypes ==
    ASSUME RouterTypeOK, NEW c \in Caller, Ends(c)
    PROVE  call' \in [Caller -> CallState] /\ call'[c] = NoCall
  BY DEF RouterTypeOK, CallState, Ends, NoCall

(* A step of a call inside its slot, which keeps the table and at most     *)
(* sets fields of the slot that no one else relies on.                     *)
LEMMA InsideKeeps ==
    ASSUME RouterInv, NEW c \in Caller, CallStep(c), call[c].pc \in Inside,
           UNCHANGED <<phase, slots>>,
           call' \in [Caller -> CallState], slot' \in [SlotId -> SlotState],
           pass' \in [Pass -> PassState], served' \in [SlotId -> Nat],
           unstarted' \in SUBSET SlotId,
           call'[c].pc \in Inside \ {"retire"}, call'[c].slot = call[c].slot,
           \A i \in SlotId : /\ slot'[i].session = slot[i].session
                             /\ slot'[i].inFlight = slot[i].inFlight,
           \A i \in SlotId : slot'[i].adapter = "closed" =>
              slot[i].adapter = "closed" \/ \A s \in Session : slots[s] # i,
           \A w \in Pass : pass'[w].pc # "free" =>
              /\ pass'[w].slot \in SlotId
              /\ slot'[pass'[w].slot].active /\ slot'[pass'[w].slot].owner = w
              /\ phase # "closed" => Serves(pass'[w].slot)
    PROVE  RouterInv'
<1>1. BridgeInv' /\ VerifiedInv' /\ \A d \in Caller \ {c} : call'[d] = call[d]
  BY CallStepVerified, CallStepFrame
<1>2. RouterTypeOK'
  BY <1>1 DEF RouterInv, RouterTypeOK, BridgeInv
<1>3. CountInv'
  BY <1>1, CountSame DEF RouterInv
<1> QED BY <1>1, <1>2, <1>3, FrameKeeps

(* A step of a call that leaves its slot, which keeps the table.           *)
LEMMA LeavesKeeps ==
    ASSUME RouterInv, NEW c \in Caller, CallStep(c), call[c].pc \in Inside,
           UNCHANGED <<phase, slots, pass, served, unstarted>>, Ends(c),
           slot' \in [SlotId -> SlotState],
           \A i \in SlotId : /\ slot'[i].session = slot[i].session
                             /\ slot'[i].active = slot[i].active
                             /\ slot'[i].owner = slot[i].owner
                             /\ slot'[i].inFlight = slot[i].inFlight - (IF i = call[c].slot THEN 1 ELSE 0),
           \A i \in SlotId : slot'[i].adapter = "closed" =>
              slot[i].adapter = "closed" \/ \A s \in Session : slots[s] # i
    PROVE  RouterInv'
<1>1. BridgeInv' /\ VerifiedInv' /\ \A d \in Caller \ {c} : call'[d] = call[d]
  BY CallStepVerified, CallStepFrame
<1>2. call' \in [Caller -> CallState] /\ call'[c] = NoCall
  BY EndsTypes DEF RouterInv
<1>3. RouterTypeOK'
  BY <1>1, <1>2 DEF RouterInv, RouterTypeOK, BridgeInv
<1>4. CountInv'
  <2>1. call[c].slot \in SlotId
    BY DEF RouterInv, CallInv
  <2>2. slot'[call[c].slot].inFlight = slot[call[c].slot].inFlight - 1
    BY <2>1
  <2>3. \A i \in SlotId \ {call[c].slot} : slot'[i].inFlight = slot[i].inFlight
    BY DEF RouterInv, RouterTypeOK, SlotState
  <2> QED BY <1>1, <1>2, <2>1, <2>2, <2>3, CountLeaves DEF RouterInv, NoCall, Inside
<1> QED BY <1>1, <1>2, <1>3, <1>4, FrameKeeps DEF NoCall, Inside, RouterInv, PassInv

-----------------------------------------------------------------------------
(* The steps of a call.                                                    *)

(* The passes of a step that leaves the owners alone.                      *)
LEMMA PassesSame ==
    ASSUME RouterInv, UNCHANGED <<slots, pass>>,
           \A i \in SlotId : /\ slot'[i].active = slot[i].active
                             /\ slot'[i].owner = slot[i].owner
    PROVE  \A w \in Pass : pass'[w].pc # "free" =>
              /\ pass'[w].slot \in SlotId
              /\ slot'[pass'[w].slot].active /\ slot'[pass'[w].slot].owner = w
              /\ phase # "closed" => Serves(pass'[w].slot)
  BY DEF RouterInv, PassInv

(* A retired slot is in no entry of the table.                             *)
LEMMA ClosedTypes ==
    ASSUME RouterInv, NEW S \in SUBSET SlotId, \A i \in S, s \in Session : slots[s] # i
    PROVE  /\ Closed(S) \in [SlotId -> SlotState]
           /\ \A i \in SlotId :
                 /\ Closed(S)[i].session = slot[i].session /\ Closed(S)[i].active = slot[i].active
                 /\ Closed(S)[i].owner = slot[i].owner /\ Closed(S)[i].inFlight = slot[i].inFlight
                 /\ Closed(S)[i].adapter = "closed" =>
                       slot[i].adapter = "closed" \/ \A s \in Session : slots[s] # i
  BY DEF RouterInv, RouterTypeOK, SlotState, Closed

(* Closing the adapter of a retired slot: the slot has left the table.     *)
LEMMA CloseRetiredKeeps ==
    ASSUME RouterInv, NEW c \in Caller, CloseRetired(c) PROVE RouterInv'
<1> DEFINE S == call[c].retired
<1>1. S \in SUBSET SlotId /\ \A i \in S, s \in Session : slots[s] # i
  BY DEF RouterInv, RouterTypeOK, CallState, CallInv, CloseRetired
<1>2. slot' = Closed(S) /\ UNCHANGED <<phase, slots, pass, served, unstarted>>
  BY DEF CloseRetired
<1> HIDE DEF S
<1>3. /\ call' \in [Caller -> CallState] /\ call'[c].pc = "wait" /\ call'[c].slot = call[c].slot
      /\ call[c].pc = "retire"
  BY DEF CloseRetired, RouterInv, RouterTypeOK, CallState
<1>4. CallStep(c)
  BY DEF CallStep
<1> QED BY <1>1, <1>2, <1>3, <1>4, ClosedTypes, PassesSame, InsideKeeps
        DEF Inside, RouterInv, RouterTypeOK

(* CloseRetiredRaises and Release give the slot back.                      *)
LEMMA CloseRetiredRaisesKeeps ==
    ASSUME RouterInv, NEW c \in Caller, CloseRetiredRaises(c) PROVE RouterInv'
<1> DEFINE S == call[c].retired
<1>1. S \in SUBSET SlotId /\ \A i \in S, s \in Session : slots[s] # i
  BY DEF RouterInv, RouterTypeOK, CallState, CallInv, CloseRetiredRaises
<1>2. /\ slot' = [Closed(S) EXCEPT ![call[c].slot].inFlight = @ - 1]
      /\ UNCHANGED <<phase, slots, pass, served, unstarted>> /\ Ends(c)
      /\ call[c].pc = "retire" /\ CallStep(c)
  BY DEF CloseRetiredRaises, CallStep
<1> HIDE DEF S
<1>3. call[c].slot \in SlotId /\ slot[call[c].slot].inFlight \in Nat \ {0}
  BY <1>2, InUseIsCounted DEF RouterInv, RouterTypeOK, SlotState, CallInv, Inside
<1>4. /\ slot' \in [SlotId -> SlotState]
      /\ \A i \in SlotId :
            /\ slot'[i].session = Closed(S)[i].session /\ slot'[i].active = Closed(S)[i].active
            /\ slot'[i].owner = Closed(S)[i].owner /\ slot'[i].adapter = Closed(S)[i].adapter
            /\ slot'[i].inFlight = Closed(S)[i].inFlight - (IF i = call[c].slot THEN 1 ELSE 0)
  <2>1. Closed(S) \in [SlotId -> SlotState] /\ Closed(S)[call[c].slot].inFlight \in Nat \ {0}
    BY <1>1, <1>3, ClosedTypes
  <2> QED BY <1>2, <1>3, <2>1 DEF SlotState
<1> QED BY <1>1, <1>2, <1>4, ClosedTypes, LeavesKeeps DEF Inside

(* A call gives its slot back, and may be the last to do so.               *)
LEMMA ReleaseKeeps ==
    ASSUME RouterInv, NEW c \in Caller, Release(c) PROVE RouterInv'
<1>1. /\ slot' = [slot EXCEPT ![call[c].slot].inFlight = @ - 1]
      /\ UNCHANGED <<phase, slots, pass, served, unstarted>> /\ Ends(c)
      /\ call[c].pc = "release" /\ CallStep(c)
  BY DEF Release, CallStep
<1>2. call[c].slot \in SlotId /\ slot[call[c].slot].inFlight \in Nat \ {0}
  BY <1>1, InUseIsCounted DEF RouterInv, RouterTypeOK, SlotState, CallInv, Inside
<1>3. /\ slot' \in [SlotId -> SlotState]
      /\ \A i \in SlotId :
            /\ slot'[i].session = slot[i].session /\ slot'[i].active = slot[i].active
            /\ slot'[i].owner = slot[i].owner /\ slot'[i].adapter = slot[i].adapter
            /\ slot'[i].inFlight = slot[i].inFlight - (IF i = call[c].slot THEN 1 ELSE 0)
  BY <1>1, <1>2 DEF RouterInv, RouterTypeOK, SlotState
<1> QED BY <1>1, <1>3, LeavesKeeps DEF Inside

(* Execute, Request and the steps that change only where the call is.      *)
LEMMA RunKeeps ==
    ASSUME RouterInv, NEW c \in Caller,
           \/ Execute(c) \/ Fails(c) \/ (\E op \in {"start", "other"} : Succeeds(c, op))
           \/ Request(c) \/ LaunchChecked(c) \/ AlreadyActive(c) \/ StartRaises(c)
    PROVE  RouterInv'
<1>1. call[c].pc \in Inside /\ call[c].slot \in SlotId /\ CallStep(c)
  <2>1. call[c].pc \in Inside
    BY DEF Execute, Fails, Succeeds, Request, LaunchChecked, AlreadyActive, StartRaises, Inside
  <2> QED BY <2>1 DEF CallStep, RouterInv, CallInv
<1>2. /\ call' \in [Caller -> CallState] /\ call'[c].slot = call[c].slot
      /\ call'[c].pc \in Inside \ {"retire"}
  <2>1. CASE \E op \in {"start", "other"} : Succeeds(c, op)
    BY <2>1 DEF Succeeds, RouterInv, RouterTypeOK, CallState, Inside
  <2>2. CASE \E pc \in Inside \ {"retire"} : Goes(c, pc)
    BY <2>2, GoesTypes DEF RouterInv
  <2> QED BY <2>1, <2>2 DEF Execute, Fails, Request, LaunchChecked, AlreadyActive, StartRaises, Inside
<1>3. UNCHANGED <<phase, slots, pass, served>> /\ unstarted' \in SUBSET SlotId
  BY <1>1 DEF Execute, Fails, Succeeds, Request, LaunchChecked, AlreadyActive, StartRaises,
     RouterInv, RouterTypeOK
<1>4. /\ slot' \in [SlotId -> SlotState]
      /\ \A i \in SlotId :
            /\ slot'[i].session = slot[i].session /\ slot'[i].inFlight = slot[i].inFlight
            /\ slot'[i].active = slot[i].active /\ slot'[i].owner = slot[i].owner
            /\ slot'[i].adapter = "closed" => slot[i].adapter = "closed"
  <2>1. slot \in [SlotId -> SlotState]
    BY DEF RouterInv, RouterTypeOK
  <2>2. CASE Execute(c)
    BY <1>1, <2>1, <2>2 DEF Execute, SlotState
  <2>3. CASE Request(c)
    BY <1>1, <2>1, <2>3 DEF Request, SlotState
  <2>4. CASE UNCHANGED slot
    BY <2>1, <2>4
  <2> QED BY <2>2, <2>3, <2>4 DEF Fails, Succeeds, LaunchChecked, AlreadyActive, StartRaises
<1> QED BY <1>1, <1>2, <1>3, <1>4, PassesSame, InsideKeeps DEF RouterInv, RouterTypeOK

(* The thread that is started owns a slot that had no owner.               *)
LEMMA StartPassKeeps ==
    ASSUME RouterInv, NEW c \in Caller, NEW w \in Pass, StartPass(c, w) PROVE RouterInv'
<1> DEFINE i == call[c].slot
<1>1. /\ call[c].pc \in Inside /\ i \in SlotId /\ Serves(i) /\ CallStep(c)
      /\ UNCHANGED <<phase, slots, unstarted>> /\ ~slot[i].active /\ pass[w].pc = "free"
  BY DEF StartPass, Starts, CallStep, Inside, RouterInv, CallInv
<1>2. call' \in [Caller -> CallState] /\ call'[c].slot = i /\ call'[c].pc = "release"
  BY GoesTypes DEF StartPass, RouterInv, Inside
<1>3. /\ slot' \in [SlotId -> SlotState] /\ served' \in [SlotId -> Nat]
      /\ slot'[i].active /\ slot'[i].owner = w
      /\ \A j \in SlotId : /\ slot'[j].session = slot[j].session
                           /\ slot'[j].inFlight = slot[j].inFlight
                           /\ slot'[j].adapter = slot[j].adapter
                           /\ j # i => slot'[j] = slot[j]
  <2>1. slot \in [SlotId -> SlotState] /\ served \in [SlotId -> Nat]
    BY DEF RouterInv, RouterTypeOK
  <2>2. /\ slot' = [slot EXCEPT ![i].active = TRUE, ![i].owner = w]
        /\ served' = [served EXCEPT ![i] = slot[i].gen]
    BY DEF StartPass, Starts
  <2> HIDE DEF i
  <2>3. slot'[i] = [slot[i] EXCEPT !.active = TRUE, !.owner = w] /\ \A j \in SlotId \ {i} : slot'[j] = slot[j]
    BY <1>1, <2>1, <2>2
  <2>4. slot[i] \in SlotState
    BY <1>1, <2>1
  <2>5. /\ slot'[i] \in SlotState /\ slot'[i].active /\ slot'[i].owner = w
        /\ slot'[i].session = slot[i].session /\ slot'[i].inFlight = slot[i].inFlight
        /\ slot'[i].adapter = slot[i].adapter
    BY <2>3, <2>4 DEF SlotState
  <2>6. slot' \in [SlotId -> SlotState] /\ served' \in [SlotId -> Nat]
    BY <1>1, <2>1, <2>2, <2>3, <2>4, <2>5 DEF SlotState
  <2> QED BY <2>3, <2>5, <2>6
<1>4. /\ pass' \in [Pass -> PassState] /\ pass'[w].slot = i
      /\ \A v \in Pass \ {w} : pass'[v] = pass[v]
  BY <1>1 DEF StartPass, RouterInv, RouterTypeOK, PassState, SlotState, NoPass
<1>5. i = call[c].slot
  OBVIOUS
<1> HIDE DEF i
<1>6. \A v \in Pass : pass'[v].pc # "free" =>
         /\ pass'[v].slot \in SlotId
         /\ slot'[pass'[v].slot].active /\ slot'[pass'[v].slot].owner = v
         /\ phase # "closed" => Serves(pass'[v].slot)
  <2>1. \A v \in Pass : pass[v].pc # "free" => pass[v].slot # i
    BY <1>1 DEF RouterInv, PassInv
  <2> QED BY <1>1, <1>3, <1>4, <2>1 DEF RouterInv, PassInv
<1>7. \A j \in SlotId : slot'[j].adapter = "closed" => slot[j].adapter = "closed"
  BY <1>3
<1>8. call'[c].pc \in Inside \ {"retire"} /\ call'[c].slot = call[c].slot
      /\ unstarted' \in SUBSET SlotId
  BY <1>1, <1>2, <1>5 DEF Inside, RouterInv, RouterTypeOK
<1> QED BY <1>1, <1>2, <1>3, <1>4, <1>6, <1>7, <1>8, InsideKeeps

(* A refused call ends before it entered a slot.                           *)
LEMMA RefuseKeeps ==
    ASSUME RouterInv, NEW c \in Caller, Refuse(c) PROVE RouterInv'
<1>1. /\ UNCHANGED <<phase, slots, slot, pass, served, unstarted>> /\ call[c].pc = "idle"
      /\ CallStep(c) /\ Ends(c)
  BY DEF Refuse, CallStep, Arrived
<1>2. BridgeInv' /\ VerifiedInv' /\ \A d \in Caller \ {c} : call'[d] = call[d]
  BY <1>1, CallStepVerified, CallStepFrame
<1>3. call' \in [Caller -> CallState] /\ call'[c] = NoCall
  BY <1>1, EndsTypes DEF RouterInv
<1>4. RouterTypeOK'
  BY <1>1, <1>2, <1>3 DEF RouterInv, RouterTypeOK, BridgeInv
<1>5. CountInv'
  BY <1>1, <1>2, <1>3, CountSame DEF RouterInv, Inside, NoCall
<1> QED BY <1>1, <1>2, <1>3, <1>4, <1>5, PassesSame, FrameKeeps DEF NoCall, Inside

(* A verified call belongs to a session.                                   *)
LEMMA ArrivedHasSession ==
    ASSUME RouterInv, NEW c \in Caller, Arrived(c)
    PROVE  SessionOf(c) \in Session /\ EpochOf(c) \in 0..MaxEpoch
  BY DEF RouterInv, RouterTypeOK, BridgeTypeOK, VerifiedInv, Arrived, At, SessionOf, EpochOf

(* A call joins the slot its session has.                                  *)
LEMMA JoinKeeps ==
    ASSUME RouterInv, NEW c \in Caller, Join(c) PROVE RouterInv'
<1> DEFINE i == slots[SessionOf(c)]
<1>1. /\ SessionOf(c) \in Session /\ i \in SlotId /\ Serves(i)
      /\ UNCHANGED <<phase, slots, pass, served, unstarted>> /\ call[c].pc = "idle"
      /\ CallStep(c)
  <2>1. SessionOf(c) \in Session /\ i # None
    BY ArrivedHasSession DEF Join
  <2> QED BY <2>1 DEF Join, Arrived, CallStep, RouterInv, RouterTypeOK, TableInv, Serves
<1>2. /\ slot' = [slot EXCEPT ![i].inFlight = @ + 1]
      /\ call' = [call EXCEPT ![c] = [NoCall EXCEPT !.pc = "wait", !.slot = i]]
  BY DEF Join
<1> HIDE DEF i
<1>3. BridgeInv' /\ VerifiedInv' /\ \A d \in Caller \ {c} : call'[d] = call[d]
  BY <1>1, CallStepVerified, CallStepFrame
<1>4. call' \in [Caller -> CallState] /\ call'[c].pc = "wait" /\ call'[c].slot = i
  BY <1>1, <1>2 DEF RouterInv, RouterTypeOK, CallState, NoCall
<1>5. /\ slot' \in [SlotId -> SlotState] /\ slot'[i].inFlight = slot[i].inFlight + 1
      /\ \A j \in SlotId \ {i} : slot'[j] = slot[j]
      /\ slot'[i].session = slot[i].session /\ slot'[i].active = slot[i].active
      /\ slot'[i].owner = slot[i].owner /\ slot'[i].adapter = slot[i].adapter
  BY <1>1, <1>2 DEF RouterInv, RouterTypeOK, SlotState
<1>6. RouterTypeOK'
  BY <1>1, <1>3, <1>4, <1>5 DEF RouterInv, RouterTypeOK, BridgeInv
<1>7. CountInv'
  BY <1>1, <1>3, <1>4, <1>5, CountEnters DEF RouterInv, Inside
<1>8. \A j \in SlotId : /\ slot'[j].session = slot[j].session
                        /\ slot'[j].active = slot[j].active /\ slot'[j].owner = slot[j].owner
                        /\ slot'[j].adapter = slot[j].adapter
  BY <1>5
<1> QED BY <1>1, <1>3, <1>4, <1>6, <1>7, <1>8, PassesSame, FrameKeeps DEF Inside

(* A call opens a slot.  What leaves the table for it has no call in       *)
(* flight and no completion thread, so no one else's slot does.            *)
LEMMA OpenKeeps ==
    ASSUME RouterInv, NEW c \in Caller, NEW i \in SlotId, Open(c, i) PROVE RouterInv'
<1> DEFINE own == SessionOf(c)
<1>1. /\ own \in Session /\ EpochOf(c) \in 0..MaxEpoch /\ slot[i] = NoSlot /\ phase = "open"
      /\ slots[own] = None \/ Idle(slots[own])
      /\ UNCHANGED <<phase, pass, served, unstarted>> /\ call[c].pc = "idle" /\ CallStep(c)
  BY ArrivedHasSession DEF Open, Arrived, CallStep
<1>2. PICK gone \in SUBSET Session :
        /\ \A s \in gone : slots[s] # None /\ Idle(slots[s])
        /\ slots' = [s \in Session |-> IF s = own THEN i ELSE IF s \in gone THEN None ELSE slots[s]]
        /\ slot' = [slot EXCEPT ![i] = [NoSlot EXCEPT !.session = own,
                                                      !.epoch = EpochOf(c), !.inFlight = 1]]
        /\ call' = [call EXCEPT ![c] = [NoCall EXCEPT
                      !.pc = IF gone = {} THEN "wait" ELSE "retire", !.slot = i,
                      !.retired = {slots[s] : s \in gone}]]
  <2>1. PICK gone \in Victims(c) :
        /\ slots' = [s \in Session |-> IF s = own THEN i ELSE IF s \in gone THEN None ELSE slots[s]]
        /\ slot' = [slot EXCEPT ![i] = [NoSlot EXCEPT !.session = own,
                                                      !.epoch = EpochOf(c), !.inFlight = 1]]
        /\ call' = [call EXCEPT ![c] = [NoCall EXCEPT
                      !.pc = IF gone = {} THEN "wait" ELSE "retire", !.slot = i,
                      !.retired = {slots[s] : s \in gone}]]
    BY Zenon DEF Open
  <2>2. gone \in SUBSET Session /\ \A s \in gone : slots[s] # None /\ Idle(slots[s])
    BY <1>1, <2>1 DEF Victims, Evictable, Stale, Live
  <2> QED BY <2>1, <2>2
<1> HIDE DEF own
<1>3. BridgeInv' /\ VerifiedInv' /\ \A d \in Caller \ {c} : call'[d] = call[d]
  BY <1>1, CallStepVerified, CallStepFrame
<1>4. /\ call' \in [Caller -> CallState] /\ call'[c].slot = i
      /\ call'[c].pc \in {"wait", "retire"} /\ call'[c].retired = {slots[s] : s \in gone}
  <2>1. {slots[s] : s \in gone} \in SUBSET SlotId
    BY <1>2 DEF RouterInv, RouterTypeOK
  <2> QED BY <1>2, <2>1 DEF RouterInv, RouterTypeOK, CallState, NoCall
<1>5. /\ slot' \in [SlotId -> SlotState] /\ \A j \in SlotId \ {i} : slot'[j] = slot[j]
      /\ slot'[i].session = own /\ slot'[i].inFlight = 1 /\ slot'[i].adapter = "none"
  BY <1>1, <1>2, BridgeAssumption DEF RouterInv, RouterTypeOK, SlotState, NoSlot
<1>6. RouterTypeOK'
  BY <1>1, <1>2, <1>3, <1>4, <1>5 DEF RouterInv, RouterTypeOK, BridgeInv
<1>7. /\ slot[i].session = None /\ slot[i].inFlight = 0 /\ ~slot[i].active /\ ~Serves(i)
      /\ \A s \in Session : slots[s] # i
  BY <1>1, BridgeAssumption, RouterAssumption
     DEF NoSlot, Serves, RouterInv, RouterTypeOK, TableInv
<1>8. TableInv'
  BY <1>1, <1>2, <1>5, <1>7 DEF RouterInv, RouterTypeOK, TableInv
\* A slot in the table that is in use stays there.
<1>9. \A j \in SlotId : Serves(j) /\ ~Idle(j) => j # i /\ Serves(j)' /\ slot'[j] = slot[j]
  BY <1>1, <1>2, <1>5, <1>7, RouterAssumption DEF Serves
<1>10. CountInv'
  BY <1>1, <1>3, <1>4, <1>5, <1>7, CountEnters DEF RouterInv, Inside
<1>11. CallInv'
  <2>1. ASSUME NEW d \in Caller \ {c}, call[d].pc \in Inside
        PROVE  call[d].slot \in SlotId /\ Serves(call[d].slot)'
    <3>1. call[d].slot \in SlotId /\ Serves(call[d].slot) /\ ~Idle(call[d].slot)
      BY <2>1, InUseIsCounted DEF RouterInv, CallInv, Idle
    <3>2. call'[d] = call[d]
      BY <1>3
    <3> QED BY <1>9, <3>1, <3>2 DEF Serves
  <2>2. ASSUME NEW d \in Caller \ {c}, call[d].pc = "retire", NEW j \in call[d].retired
        PROVE  slot'[j].session # None /\ \A s \in Session : slots'[s] # j
    <3>1. j \in SlotId /\ slot[j].session # None /\ \A s \in Session : slots[s] # j
      BY <2>2 DEF RouterInv, CallInv, RouterTypeOK, CallState
    <3> QED BY <1>2, <1>5, <1>7, <3>1, RouterAssumption
  <2>3. Serves(i)'
    BY <1>1, <1>2, <1>5 DEF Serves
  <2>4. ASSUME NEW j \in call'[c].retired
        PROVE  slot'[j].session # None /\ \A s \in Session : slots'[s] # j
    <3>1. PICK s \in gone : j = slots[s]
      BY <1>4, <2>4
    <3>2. j \in SlotId /\ j # None /\ slot[j].session = s /\ j # i
      BY <1>2, <1>7, <3>1 DEF RouterInv, RouterTypeOK, TableInv
    <3>3. \A r \in Session : slots[r] = j => r = s
      BY <3>2 DEF RouterInv, TableInv
    <3> QED BY <1>2, <1>5, <3>2, <3>3, BridgeAssumption, RouterAssumption
  <2> QED BY <1>3, <1>4, <2>1, <2>2, <2>3, <2>4 DEF CallInv
<1>12. PassInv'
  BY <1>1, <1>9 DEF RouterInv, PassInv, Idle
<1> QED BY <1>3, <1>6, <1>8, <1>10, <1>11, <1>12 DEF RouterInv

-----------------------------------------------------------------------------
(* The completion threads, the shutdown and the bridge.                    *)

(* A step of a completion thread: it stops, gives its slot up, or hands it *)
(* to another one.                                                         *)
LEMMA PassStepKeeps ==
    ASSUME RouterInv, NEW w \in Pass, PassStep(w) PROVE RouterInv'
<1> DEFINE i == pass[w].slot
<1>1. /\ UNCHANGED <<bridgeVars, phase, slots, call>> /\ pass[w].pc # "free"
      /\ i \in SlotId /\ slot[i].owner = w
      /\ pass \in [Pass -> PassState] /\ slot \in [SlotId -> SlotState]
  BY DEF PassStep, PassStops, PassGivesUp, HandOff, HandOffRaises, RouterInv, RouterTypeOK, PassInv
<1>2. \A v \in Pass \ {w} : pass[v].pc # "free" => pass[v].slot # i
  BY <1>1 DEF RouterInv, PassInv
<1> DEFINE Kept ==
      /\ pass' \in [Pass -> PassState] /\ slot' \in [SlotId -> SlotState]
      /\ \A j \in SlotId : /\ slot'[j].session = slot[j].session
                           /\ slot'[j].inFlight = slot[j].inFlight
                           /\ slot'[j].adapter = slot[j].adapter
      /\ \A v \in Pass : pass'[v].pc # "free" =>
            /\ pass'[v].slot \in SlotId
            /\ slot'[pass'[v].slot].active /\ slot'[pass'[v].slot].owner = v
            /\ phase # "closed" => Serves(pass'[v].slot)
<1>3. ASSUME \E again \in BOOLEAN : PassStops(w, again) PROVE Kept
  <2>1. PICK again \in BOOLEAN : pass' = [pass EXCEPT ![w].pc = "ended", ![w].again = again]
    BY <1>3 DEF PassStops
  <2>2. pass' \in [Pass -> PassState] /\ pass'[w].slot = i /\ \A v \in Pass \ {w} : pass'[v] = pass[v]
    BY <1>1, <2>1, Zenon DEF PassState
  <2>3. UNCHANGED slot
    BY <1>3 DEF PassStops
  <2> QED BY <1>1, <2>2, <2>3 DEF RouterInv, PassInv
<1>4. ASSUME pass' = [pass EXCEPT ![w] = NoPass],
             \/ slot' = [slot EXCEPT ![i].active = FALSE, ![i].owner = None]
             \/ UNCHANGED slot
      PROVE  Kept
  <2>1. pass' \in [Pass -> PassState] /\ pass'[w].pc = "free" /\ \A v \in Pass \ {w} : pass'[v] = pass[v]
    <3>1. NoPass \in PassState /\ NoPass.pc = "free"
      BY DEF PassState, NoPass
    <3> QED BY <1>1, <1>4, <3>1
  <2>2. /\ slot' \in [SlotId -> SlotState] /\ \A j \in SlotId \ {i} : slot'[j] = slot[j]
        /\ slot'[i].session = slot[i].session /\ slot'[i].inFlight = slot[i].inFlight
        /\ slot'[i].adapter = slot[i].adapter
    <3>1. slot[i] \in SlotState
      BY <1>1
    <3>2. CASE slot' = [slot EXCEPT ![i].active = FALSE, ![i].owner = None]
      <4>1. slot'[i] = [slot[i] EXCEPT !.active = FALSE, !.owner = None]
        BY <1>1, <3>2
      <4> QED BY <1>1, <3>1, <3>2, <4>1 DEF SlotState
    <3>3. CASE UNCHANGED slot
      BY <1>1, <3>3
    <3> QED BY <1>4, <3>2, <3>3
  <2> QED BY <1>1, <1>2, <2>1, <2>2 DEF RouterInv, PassInv
<1>5. ASSUME \E next \in Pass : HandOff(w, next) PROVE Kept
  <2>1. PICK next \in Pass : HandOff(w, next)
    BY <1>5
  <2>2. /\ pass' = [pass EXCEPT ![w] = NoPass,
                                ![next] = [NoPass EXCEPT !.pc = "running", !.slot = i,
                                                         !.gen = slot[i].gen]]
        /\ slot' = [slot EXCEPT ![i].active = TRUE, ![i].owner = next]
        /\ next # w /\ Serves(i)
    BY <1>1, <2>1 DEF HandOff, Starts, Owned, RouterInv, PassInv
  <2>3. /\ pass' \in [Pass -> PassState] /\ pass'[w].pc = "free" /\ pass'[next].slot = i
        /\ \A v \in Pass \ {w, next} : pass'[v] = pass[v]
    <3>1. [NoPass EXCEPT !.pc = "running", !.slot = i, !.gen = slot[i].gen] \in PassState
      BY <1>1 DEF NoPass, PassState, SlotState
    <3> QED BY <1>1, <2>2, <3>1 DEF PassState, NoPass
  <2>4. /\ slot' \in [SlotId -> SlotState] /\ \A j \in SlotId \ {i} : slot'[j] = slot[j]
        /\ slot'[i].session = slot[i].session /\ slot'[i].inFlight = slot[i].inFlight
        /\ slot'[i].adapter = slot[i].adapter /\ slot'[i].active /\ slot'[i].owner = next
    <3>1. slot[i] \in SlotState /\ slot'[i] = [slot[i] EXCEPT !.active = TRUE, !.owner = next]
      BY <1>1, <2>2
    <3> QED BY <1>1, <2>2, <3>1 DEF SlotState
  <2> QED BY <1>1, <1>2, <2>2, <2>3, <2>4 DEF RouterInv, PassInv
<1>6. Kept
  <2>1. ASSUME PassGivesUp(w) \/ HandOffRaises(w) PROVE Kept
    BY <1>4, <2>1 DEF PassGivesUp, HandOffRaises
  <2> QED BY <1>3, <1>5, <2>1 DEF PassStep
<1>7. BridgeInv' /\ VerifiedInv'
  BY <1>1, NextKeepsBridgeInv DEF bridgeVars, RouterInv, VerifiedInv
<1>8. served' \in [SlotId -> Nat] /\ unstarted' \in SUBSET SlotId
  BY <1>1 DEF PassStep, PassStops, PassGivesUp, HandOff, HandOffRaises, Starts, RouterInv,
     RouterTypeOK, SlotState
<1>9. RouterTypeOK' /\ CountInv'
  BY <1>1, <1>6, <1>7, <1>8, CountSame DEF RouterInv, RouterTypeOK, BridgeInv
<1> QED BY <1>1, <1>6, <1>7, <1>9, FrameKeeps DEF RouterInv, CallInv, Inside

(* close stops admissions ...                                              *)
LEMMA BeginCloseKeeps == ASSUME RouterInv, BeginClose PROVE RouterInv'
<1> USE DEF BeginClose
<1>1. BridgeInv' /\ VerifiedInv' /\ RouterTypeOK'
  BY NextKeepsBridgeInv DEF bridgeVars, RouterInv, RouterTypeOK, VerifiedInv, BridgeInv
<1>2. CountInv'
  BY CountSame DEF RouterInv
<1> QED BY <1>1, <1>2, PassesSame, FrameKeeps DEF RouterInv, CallInv, Inside

(* ... and ends when no call is in flight, so that no call is left inside. *)
LEMMA EndCloseKeeps == ASSUME RouterInv, EndClose PROVE RouterInv'
<1> DEFINE S == {slots[s] : s \in Live}
<1>1. /\ UNCHANGED <<bridgeVars, call, pass, served, unstarted>> /\ phase = "closing"
      /\ phase' = "closed" /\ slot' = Closed(S) /\ slots' = [s \in Session |-> None]
  BY DEF EndClose
<1>2. \A c \in Caller : call[c].pc \notin Inside
  <2> SUFFICES ASSUME NEW c \in Caller, call[c].pc \in Inside PROVE FALSE
    OBVIOUS
  <2>1. slot[call[c].slot].inFlight # 0
    BY InUseIsCounted DEF RouterInv
  <2>2. Serves(call[c].slot) /\ call[c].slot \in SlotId
    BY DEF RouterInv, CallInv
  <2> QED BY <2>1, <2>2, RouterAssumption DEF EndClose, Drained, Live, Serves
<1>3. /\ slot' \in [SlotId -> SlotState]
      /\ \A i \in SlotId : /\ slot'[i].inFlight = slot[i].inFlight
                           /\ slot'[i].active = slot[i].active /\ slot'[i].owner = slot[i].owner
  <2> HIDE DEF S
  <2> QED BY <1>1 DEF Closed, RouterInv, RouterTypeOK, SlotState
<1> HIDE DEF S
<1>4. BridgeInv' /\ VerifiedInv' /\ RouterTypeOK'
  BY <1>1, <1>3, NextKeepsBridgeInv DEF bridgeVars, RouterInv, RouterTypeOK, VerifiedInv, BridgeInv
<1>5. CountInv'
  BY <1>1, <1>3, CountSame DEF RouterInv
<1>6. TableInv' /\ CallInv'
  BY <1>1, <1>2 DEF TableInv, CallInv, Inside
<1>7. PassInv'
  BY <1>1, <1>3 DEF PassInv, RouterInv
<1> QED BY <1>4, <1>5, <1>6, <1>7 DEF RouterInv

(* The bridge's own steps are those of requests the router does not handle. *)
LEMMA VerifyingKeeps == ASSUME RouterInv, Verifying PROVE RouterInv'
<1>1. UNCHANGED <<phase, slots, slot, call, pass, served, unstarted>> /\ BridgeNext
  BY DEF Verifying, routerVars, BridgeNext
<1>2. BridgeInv'
  BY <1>1, NextKeepsBridgeInv DEF RouterInv
<1>3. VerifiedInv'
  <2>1. \A n \in Nonce : token'[n] # NotIssued => token'[n].session \in Session
    <3>1. UNCHANGED token \/ \E n \in Nonce, s \in Session : Issue(n, s)
      BY DEF Verifying, BridgeStep, Rotate, CheckMac, CheckClaims, ClaimsFail, Consume,
         ConsumeRefused, AnswerLost
    <3> QED BY <3>1 DEF Issue, RouterInv, RouterTypeOK, BridgeTypeOK, VerifiedInv
  <2>2. \A n \in Nonce : token[n] # NotIssued => token'[n] # NotIssued
    BY BridgeAssumption DEF Verifying, BridgeStep, Rotate, Issue, CheckMac, CheckClaims, ClaimsFail,
       Consume, ConsumeRefused, AnswerLost, RouterInv, RouterTypeOK, BridgeTypeOK, NotIssued
  <2>3. ASSUME NEW d \in Caller
        PROVE  /\ verify'[d].pc # "idle" =>
                     verify'[d].nonce \in Nonce /\ token[verify'[d].nonce] # NotIssued
               /\ call[d].pc # "idle" => verify'[d].pc = "verified"
    <3>1. verify \in [Caller -> [pc : {"idle", "mac", "claims", "verified"},
                                 nonce : Nonce \cup {None}, epoch : 0..MaxEpoch]]
      BY DEF RouterInv, RouterTypeOK, BridgeTypeOK
    <3> USE <3>1 DEF Step, At, NotVerifying, RouterInv, VerifiedInv
    <3>2. CASE UNCHANGED verify
      BY <3>2
    <3>3. CASE \E c \in Caller, n \in Nonce : CheckMac(c, n)
      BY <3>3 DEF CheckMac
    <3>4. CASE \E c \in Caller : CheckClaims(c) \/ ClaimsFail(c)
      BY <3>4 DEF CheckClaims, ClaimsFail
    <3>5. CASE \E c \in Caller : Consume(c) \/ ConsumeRefused(c)
      BY <3>5 DEF Consume, ConsumeRefused
    <3>6. CASE \E c \in Caller : call[c].pc = "idle" /\ AnswerLost(c)
      BY <3>6 DEF AnswerLost
    <3> QED BY <3>2, <3>3, <3>4, <3>5, <3>6 DEF Verifying, BridgeStep, Rotate, Issue
  <2> QED BY <1>1, <2>1, <2>2, <2>3 DEF VerifiedInv
<1>4. RouterTypeOK' /\ CountInv'
  BY <1>1, <1>2, CountSame DEF RouterInv, RouterTypeOK, BridgeInv
<1> QED BY <1>1, <1>2, <1>3, <1>4, PassesSame, FrameKeeps DEF RouterInv, CallInv, Inside

(* The first state: no slot, no call.                                      *)
LEMMA InitRouterInv == ASSUME RouterInit PROVE RouterInv
<1> USE RouterAssumption, BridgeAssumption DEF RouterInit
<1>1. BridgeInv
  BY InitBridgeInv
<1>2. RouterTypeOK
  BY <1>1 DEF RouterTypeOK, BridgeInv, SlotState, CallState, PassState, NoSlot, NoCall, NoPass
<1>3. VerifiedInv
  BY DEF BridgeInit, VerifiedInv, NotIssued, NotVerifying, NoCall
<1>4. CountInv
  <2>1. \A i \in SlotId : Users(i) = {}
    BY DEF Users, Inside, NoCall
  <2> QED BY <2>1, FS_EmptySet DEF CountInv, NoSlot
<1>5. TableInv /\ CallInv /\ PassInv
  BY DEF TableInv, CallInv, PassInv, Inside, NoCall, NoPass
<1> QED BY <1>1, <1>2, <1>3, <1>4, <1>5 DEF RouterInv

(* RouterInv is preserved by every step.                                   *)
LEMMA NextKeepsRouterInv == ASSUME RouterInv, [RouterNext]_vars PROVE RouterInv'
<1>1. ASSUME NEW c \in Caller, CallStep(c) PROVE RouterInv'
  BY <1>1, JoinKeeps, OpenKeeps, RefuseKeeps, CloseRetiredKeeps, CloseRetiredRaisesKeeps,
     RunKeeps, ReleaseKeeps, StartPassKeeps DEF CallStep
<1>2. CASE UNCHANGED vars
  <2>1. UNCHANGED <<bridgeVars, phase, slots, slot, call, pass, served, unstarted>>
    BY <1>2 DEF vars, routerVars
  <2>2. BridgeInv' /\ VerifiedInv' /\ RouterTypeOK' /\ CountInv'
    BY <2>1, NextKeepsBridgeInv, CountSame
       DEF bridgeVars, RouterInv, VerifiedInv, RouterTypeOK, BridgeInv
  <2> QED BY <2>1, <2>2, PassesSame, FrameKeeps DEF RouterInv, CallInv, Inside
<1> QED BY <1>1, <1>2, VerifyingKeeps, PassStepKeeps, BeginCloseKeeps, EndCloseKeeps DEF RouterNext

-----------------------------------------------------------------------------
(* Theorems.                                                               *)

(* The inductive invariant holds of every behaviour of the router.         *)
THEOREM RouterInvHolds == RouterSpec => []RouterInv
  BY InitRouterInv, NextKeepsRouterInv, PTL DEF RouterSpec

(* The router closes no adapter under a call that it admitted, however     *)
(* evictions, rotations, failures and the shutdown are interleaved.        *)
THEOREM AdmittedCallsKeepTheirAdapter == RouterSpec => []InUseIsOpen
<1>1. RouterInv => InUseIsOpen
  BY RouterAssumption DEF RouterInv, CallInv, TableInv, Serves, InUseIsOpen
<1> QED BY <1>1, RouterInvHolds, PTL

(* A running completion thread has its slot to itself, and the slot stays  *)
(* in the table until the router is closed.                                *)
THEOREM PassesKeepTheirSlot == RouterSpec => []PassKeepsSlot
<1>1. RouterInv => PassKeepsSlot
  BY DEF RouterInv, PassInv, Serves, PassKeepsSlot
<1> QED BY <1>1, RouterInvHolds, PTL

(* Behind the router the bridge is still the bridge: every step of the     *)
(* router is a step of it or leaves it alone, a call that ends being an    *)
(* answer that is not needed any more.                                     *)
THEOREM RouterImplementsBridge == RouterSpec => BridgeSpec
<1>1. RouterInit => BridgeInit
  BY DEF RouterInit
<1>2. RouterInv /\ [RouterNext]_vars => [BridgeNext]_bridgeVars
  <2> SUFFICES ASSUME RouterInv, [RouterNext]_vars PROVE [BridgeNext]_bridgeVars
    OBVIOUS
  <2>1. ASSUME NEW c \in Caller, CallStep(c) PROVE [BridgeNext]_bridgeVars
    BY <2>1, CallStepFrame DEF BridgeNext
  <2>2. ASSUME NEW w \in Pass, PassStep(w) PROVE UNCHANGED bridgeVars
    BY <2>2 DEF PassStep, PassStops, PassGivesUp, HandOff, HandOffRaises
  <2> QED BY <2>1, <2>2 DEF RouterNext, Verifying, BridgeNext, BeginClose, EndClose, vars
<1> QED BY <1>1, <1>2, RouterInvHolds, PTL DEF RouterSpec, BridgeSpec

(* So every call the router handles presented a token of its own.          *)
THEOREM RoutedTokensAreSingleUse == RouterSpec => []AcceptedOnce
  BY RouterImplementsBridge, TokensAreSingleUse, PTL
=============================================================================
