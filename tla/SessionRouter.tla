---------------------------- MODULE SessionRouter ----------------------------
(***************************************************************************)
(* SessionScopedContextRouter of mcp_transport.py over the bridge: a       *)
(* verified call is admitted to the slot of its session, runs there alone, *)
(* and may request a completion pass, which a thread of the slot owns; a   *)
(* slot is retired when its bridge epoch changes or capacity is short, and *)
(* close drains them all.                                                  *)
(*                                                                         *)
(* One step per critical section: _lock guards the slot table, in_flight   *)
(* and closed; completion_lock guards a slot's generation and ownership;   *)
(* slot.lock is held for the whole of an operation.  The operation itself  *)
(* and the pass are opaque here (Dispatcher and Completion model them).    *)
(* Which idle slot is evicted is left open.                                *)
(***************************************************************************)
EXTENDS SessionBridge, FiniteSets

CONSTANTS
    SlotId,    \* slot objects
    Pass,      \* completion threads
    MaxSlots   \* MAX_SLOTS

ASSUME RouterAssumption ==
    /\ None \notin SlotId /\ None \notin Pass /\ MaxSlots \in Nat \ {0}
    /\ IsFiniteSet(Caller)

VARIABLES
    phase,    \* "open", "closing" or "closed"
    slots,    \* _slots: session -> slot
    slot,     \* the slot objects
    call,     \* caller -> where its invoke is
    pass,     \* completion threads
    served,   \* history: slot -> latest generation a pass was started for
    unstarted \* history: slots for which a thread could not be started

routerVars == <<phase, slots, slot, call, pass, served, unstarted>>
vars == <<bridgeVars, routerVars>>

NoSlot == [session |-> None, epoch |-> 0, inFlight |-> 0, checked |-> FALSE,
           gen |-> 0, active |-> FALSE, owner |-> None, adapter |-> "none"]
NoCall == [pc |-> "idle", slot |-> None, op |-> "none", retired |-> {}]
NoPass == [pc |-> "free", slot |-> None, gen |-> 0, again |-> FALSE]

SlotState ==
    [session : Session \cup {None}, epoch : 0..MaxEpoch, inFlight : Nat, checked : BOOLEAN,
     gen : Nat, active : BOOLEAN, owner : Pass \cup {None}, adapter : {"none", "open", "closed"}]

CallState ==
    [pc : {"idle", "retire", "wait", "run", "ran", "launch", "start", "release"},
     slot : SlotId \cup {None}, op : {"none", "start", "other"}, retired : SUBSET SlotId]

PassState ==
    [pc : {"free", "running", "ended"}, slot : SlotId \cup {None}, gen : Nat, again : BOOLEAN]

RouterTypeOK ==
    /\ BridgeTypeOK
    /\ phase \in {"open", "closing", "closed"}
    /\ slots \in [Session -> SlotId \cup {None}]
    /\ slot \in [SlotId -> SlotState]
    /\ call \in [Caller -> CallState]
    /\ pass \in [Pass -> PassState]
    /\ served \in [SlotId -> Nat]
    /\ unstarted \in SUBSET SlotId

RouterInit ==
    /\ BridgeInit
    /\ phase = "open"
    /\ slots = [s \in Session |-> None]
    /\ slot = [i \in SlotId |-> NoSlot]
    /\ call = [c \in Caller |-> NoCall]
    /\ pass = [w \in Pass |-> NoPass]
    /\ served = [i \in SlotId |-> 0]
    /\ unstarted = {}

-----------------------------------------------------------------------------
(* _slot: admission under the router lock                                  *)

Live == {s \in Session : slots[s] # None}
SessionOf(c) == token[verify[c].nonce].session
EpochOf(c) == verify[c].epoch

\* Mutant: a slot whose completion thread is running may be retired.
Idle_Active(i) == slot[i].inFlight = 0

Idle(i) == slot[i].inFlight = 0 /\ ~slot[i].active

Arrived(c) == At(c, "verified") /\ call[c].pc = "idle"
Goes(c, pc) == call' = [call EXCEPT ![c].pc = pc]
Ends(c) == call' = [call EXCEPT ![c] = NoCall] /\ Step(c, NotVerifying)

Join(c) ==
    LET i == slots[SessionOf(c)] IN
    /\ Arrived(c)
    /\ phase = "open"
    /\ i # None /\ slot[i].epoch = EpochOf(c)
    /\ slot' = [slot EXCEPT ![i].inFlight = @ + 1]
    /\ call' = [call EXCEPT ![c] = [NoCall EXCEPT !.pc = "wait", !.slot = i]]
    /\ UNCHANGED <<bridgeVars, phase, slots, pass, served, unstarted>>

(* The session's slot of another epoch goes, then, at capacity, any idle   *)
(* slot of another session.                                                *)
Stale(c) == LET i == slots[SessionOf(c)] IN i # None /\ slot[i].epoch # EpochOf(c)

Full(c) == Cardinality(Live \ {SessionOf(c)}) >= MaxSlots
Evictable(c) == {s \in Live \ {SessionOf(c)} : Idle(slots[s])}

Victims(c) ==
    LET own == IF Stale(c) THEN {SessionOf(c)} ELSE {} IN
    IF Full(c) THEN {own \cup {s} : s \in Evictable(c)} ELSE {own}

Open(c, i) ==
    /\ Arrived(c)
    /\ phase = "open"
    /\ slots[SessionOf(c)] = None \/ (Stale(c) /\ Idle(slots[SessionOf(c)]))
    /\ slot[i] = NoSlot
    /\ \E gone \in Victims(c) :
          /\ slots' = [s \in Session |->
                         IF s = SessionOf(c) THEN i ELSE IF s \in gone THEN None ELSE slots[s]]
          /\ slot' = [slot EXCEPT ![i] = [NoSlot EXCEPT !.session = SessionOf(c),
                                                        !.epoch = EpochOf(c), !.inFlight = 1]]
          /\ call' = [call EXCEPT ![c] = [NoCall EXCEPT
                        !.pc = IF gone = {} THEN "wait" ELSE "retire", !.slot = i,
                        !.retired = {slots[s] : s \in gone}]]
    /\ UNCHANGED <<bridgeVars, phase, pass, served, unstarted>>

(* Shutting down, previous epoch still served, or no idle slot to evict.   *)
Refuse(c) ==
    /\ Arrived(c)
    /\ \/ phase # "open"
       \/ Stale(c) /\ ~Idle(slots[SessionOf(c)])
       \/ slots[SessionOf(c)] = None /\ Full(c) /\ Evictable(c) = {}
    /\ Ends(c)
    /\ UNCHANGED <<epoch, consumed, token, accepted,
                   phase, slots, slot, pass, served, unstarted>>

(* _close_slot: an adapter that was never made is not closed.              *)
Closed(S) ==
    [i \in SlotId |-> IF i \in S /\ slot[i].adapter = "open"
                      THEN [slot[i] EXCEPT !.adapter = "closed"] ELSE slot[i]]

(* The retired adapters are closed after the router lock is released.      *)
CloseRetired(c) ==
    /\ call[c].pc = "retire"
    /\ slot' = Closed(call[c].retired)
    /\ call' = [call EXCEPT ![c].pc = "wait", ![c].retired = {}]
    /\ UNCHANGED <<bridgeVars, phase, slots, pass, served, unstarted>>

\* Mutant: the failed call never gives its slot back.
CloseRetiredRaises_Kept(c) ==
    /\ call[c].pc = "retire"
    /\ slot' = Closed(call[c].retired)
    /\ Ends(c)
    /\ UNCHANGED <<epoch, consumed, token, accepted,
                   phase, slots, pass, served, unstarted>>

(* ... and if that raises, the call gives its own slot back.               *)
CloseRetiredRaises(c) ==
    /\ call[c].pc = "retire"
    /\ slot' = [Closed(call[c].retired) EXCEPT ![call[c].slot].inFlight = @ - 1]
    /\ Ends(c)
    /\ UNCHANGED <<epoch, consumed, token, accepted,
                   phase, slots, pass, served, unstarted>>

-----------------------------------------------------------------------------
(* _execute_in_slot, under slot.lock                                       *)

Running(i) == {c \in Caller : call[c].pc = "run" /\ call[c].slot = i}

Execute(c) ==
    /\ call[c].pc = "wait"
    /\ Running(call[c].slot) = {}
    /\ slot' = [slot EXCEPT ![call[c].slot].adapter = IF @ = "none" THEN "open" ELSE @]
    /\ Goes(c, "run")
    /\ UNCHANGED <<bridgeVars, phase, slots, pass, served, unstarted>>

(* The operation fails, or succeeds and is looked at for a completion.     *)
Fails(c) ==
    /\ call[c].pc = "run"
    /\ Goes(c, "release")
    /\ UNCHANGED <<bridgeVars, phase, slots, slot, pass, served, unstarted>>

Succeeds(c, op) ==
    /\ call[c].pc = "run"
    /\ call' = [call EXCEPT ![c].pc = "ran", ![c].op = op]
    /\ UNCHANGED <<bridgeVars, phase, slots, slot, pass, served, unstarted>>

Release(c) ==
    /\ call[c].pc = "release"
    /\ slot' = [slot EXCEPT ![call[c].slot].inFlight = @ - 1]
    /\ Ends(c)
    /\ UNCHANGED <<epoch, consumed, token, accepted,
                   phase, slots, pass, served, unstarted>>

-----------------------------------------------------------------------------
(* The completion owner: _maybe_start_headed_thin_completion,              *)
(* _launch_headed_thin_completion and _run_headed_thin_completion          *)

(* Every task.start, and the first success of a slot, requests a pass.     *)
(* A thin task-main runtime always carries its store, its pump and its     *)
(* worktree, so the refusals for want of one are left out.                 *)
Request(c) ==
    LET i == call[c].slot IN
    /\ call[c].pc = "ran"
    /\ IF call[c].op # "start" /\ slot[i].checked
       THEN Goes(c, "release") /\ UNCHANGED slot
       ELSE /\ slot' = [slot EXCEPT ![i].checked = TRUE, ![i].gen = @ + 1]
            /\ Goes(c, "launch")
    /\ UNCHANGED <<bridgeVars, phase, slots, pass, served, unstarted>>

Owned(i) == phase = "open" /\ \E s \in Session : slots[s] = i

LaunchChecked(c) ==
    /\ call[c].pc = "launch"
    /\ Goes(c, IF Owned(call[c].slot) THEN "start" ELSE "release")
    /\ UNCHANGED <<bridgeVars, phase, slots, slot, pass, served, unstarted>>

(* Under completion_lock: the pass takes the generation it finds.          *)
Starts(i, w) ==
    /\ pass[w].pc = "free"
    /\ slot' = [slot EXCEPT ![i].active = TRUE, ![i].owner = w]
    /\ served' = [served EXCEPT ![i] = slot[i].gen]

StartPass(c, w) ==
    LET i == call[c].slot IN
    /\ call[c].pc = "start"
    /\ ~slot[i].active
    /\ Starts(i, w)
    /\ pass' = [pass EXCEPT ![w] = [NoPass EXCEPT !.pc = "running", !.slot = i,
                                                  !.gen = slot[i].gen]]
    /\ Goes(c, "release")
    /\ UNCHANGED <<bridgeVars, phase, slots, unstarted>>

AlreadyActive(c) ==
    /\ call[c].pc = "start"
    /\ slot[call[c].slot].active
    /\ Goes(c, "release")
    /\ UNCHANGED <<bridgeVars, phase, slots, slot, pass, served, unstarted>>

StartRaises(c) ==
    /\ call[c].pc = "start"
    /\ ~slot[call[c].slot].active
    /\ Goes(c, "release")
    /\ unstarted' = unstarted \cup {call[c].slot}
    /\ UNCHANGED <<bridgeVars, phase, slots, slot, pass, served>>

(* The continuation stopped; after a bounded stop the store is looked at   *)
(* for tasks of this session that are known to be active.                  *)
PassStops(w, again) ==
    /\ pass[w].pc = "running"
    /\ pass' = [pass EXCEPT ![w].pc = "ended", ![w].again = again]
    /\ UNCHANGED <<bridgeVars, phase, slots, slot, call, served, unstarted>>

\* Mutant: only known active work arms another pass.
Rearm_KnownOnly(w) == pass[w].again

Rearm(w) == pass[w].again \/ slot[pass[w].slot].gen # pass[w].gen

(* Under both locks: give the slot up ...                                  *)
PassGivesUp(w) ==
    LET i == pass[w].slot IN
    /\ pass[w].pc = "ended"
    /\ ~Rearm(w) \/ ~Owned(i)
    /\ slot' = IF slot[i].owner = w
               THEN [slot EXCEPT ![i].active = FALSE, ![i].owner = None] ELSE slot
    /\ pass' = [pass EXCEPT ![w] = NoPass]
    /\ UNCHANGED <<bridgeVars, phase, slots, call, served, unstarted>>

(* ... or hand it to a new thread, which may fail to start.                *)
HandOff(w, next) ==
    LET i == pass[w].slot IN
    /\ pass[w].pc = "ended"
    /\ Rearm(w) /\ Owned(i)
    /\ slot[i].owner = w
    /\ Starts(i, next)
    /\ pass' = [pass EXCEPT ![w] = NoPass,
                            ![next] = [NoPass EXCEPT !.pc = "running", !.slot = i,
                                                     !.gen = slot[i].gen]]
    /\ UNCHANGED <<bridgeVars, phase, slots, call, unstarted>>

HandOffRaises(w) ==
    LET i == pass[w].slot IN
    /\ pass[w].pc = "ended"
    /\ Rearm(w) /\ Owned(i)
    /\ slot[i].owner = w
    /\ slot' = [slot EXCEPT ![i].active = FALSE, ![i].owner = None]
    /\ pass' = [pass EXCEPT ![w] = NoPass]
    /\ unstarted' = unstarted \cup {i}
    /\ UNCHANGED <<bridgeVars, phase, slots, call, served>>

-----------------------------------------------------------------------------
(* close: no new calls, wait for the ones in flight, close every adapter.  *)

BeginClose ==
    /\ phase = "open"
    /\ phase' = "closing"
    /\ UNCHANGED <<bridgeVars, slots, slot, call, pass, served, unstarted>>

\* Mutant: close does not wait for calls in flight.
Drained_Any == TRUE

Drained == \A s \in Live : slot[slots[s]].inFlight = 0

(* slots was copied and cleared when close began; nothing else uses it     *)
(* once the router is closing, so it is cleared here.                      *)
EndClose ==
    /\ phase = "closing"
    /\ Drained
    /\ phase' = "closed"
    /\ slot' = Closed({slots[s] : s \in Live})
    /\ slots' = [s \in Session |-> None]
    /\ UNCHANGED <<bridgeVars, call, pass, served, unstarted>>

-----------------------------------------------------------------------------
CallStep(c) ==
    \/ Join(c) \/ Refuse(c) \/ CloseRetired(c) \/ CloseRetiredRaises(c)
    \/ \E i \in SlotId : Open(c, i)
    \/ Execute(c) \/ Fails(c) \/ (\E op \in {"start", "other"} : Succeeds(c, op))
    \/ Release(c) \/ Request(c) \/ LaunchChecked(c)
    \/ (\E w \in Pass : StartPass(c, w)) \/ AlreadyActive(c) \/ StartRaises(c)

PassStep(w) ==
    \/ \E again \in BOOLEAN : PassStops(w, again)
    \/ PassGivesUp(w) \/ HandOffRaises(w)
    \/ \E next \in Pass : HandOff(w, next)

Verifying ==
    /\ BridgeStep \/ \E c \in Caller : call[c].pc = "idle" /\ AnswerLost(c)
    /\ UNCHANGED routerVars

RouterNext ==
    \/ Verifying
    \/ \E c \in Caller : CallStep(c)
    \/ \E w \in Pass : PassStep(w)
    \/ BeginClose \/ EndClose

RouterSpec == RouterInit /\ [][RouterNext]_vars

-----------------------------------------------------------------------------
(* Properties.                                                             *)

Inside == {"retire", "wait", "run", "ran", "launch", "start", "release"}

(* No adapter is closed under a call that was admitted to its slot: not by *)
(* an eviction, an epoch change or the shutdown.                           *)
InUseIsOpen ==
    \A c \in Caller : call[c].pc \in Inside => slot[call[c].slot].adapter # "closed"

(* A completion thread runs for a slot the router still serves, alone.     *)
PassKeepsSlot ==
    \A w \in Pass : pass[w].pc = "running" =>
       /\ phase # "closed" => slots[slot[pass[w].slot].session] = pass[w].slot
       /\ \A v \in Pass : pass[v].pc = "running" /\ pass[v].slot = pass[w].slot => v = w

-----------------------------------------------------------------------------
(* What makes these invariants inductive.                                  *)

(* A request past its MAC check carries a token of a session, and one that *)
(* the router is handling was verified.                                    *)
VerifiedInv ==
    /\ \A n \in Nonce : token[n] # NotIssued => token[n].session \in Session
    /\ \A c \in Caller : verify[c].pc # "idle" =>
          verify[c].nonce \in Nonce /\ token[verify[c].nonce] # NotIssued
    /\ \A c \in Caller : call[c].pc # "idle" => verify[c].pc = "verified"

(* The slot is the one its session is served by.                           *)
Serves(i) == slot[i].session \in Session /\ slots[slot[i].session] = i

(* A slot in the table has a usable adapter; a closed router has no table. *)
TableInv ==
    /\ \A s \in Session : slots[s] # None =>
          slot[slots[s]].session = s /\ slot[slots[s]].adapter # "closed"
    /\ phase = "closed" => \A s \in Session : slots[s] = None

(* in_flight counts the calls inside.                                      *)
Users(i) == {c \in Caller : call[c].pc \in Inside /\ call[c].slot = i}

CountInv == \A i \in SlotId : slot[i].inFlight = Cardinality(Users(i))

(* A call runs in a slot of the table, and retires slots that left it and  *)
(* are never opened again.                                                 *)
CallInv ==
    \A c \in Caller :
       /\ call[c].pc \in Inside => call[c].slot \in SlotId /\ Serves(call[c].slot)
       /\ call[c].pc = "retire" => \A i \in call[c].retired :
             slot[i].session # None /\ \A s \in Session : slots[s] # i

(* A pass that did not give up owns its slot.                              *)
PassInv ==
    \A w \in Pass : pass[w].pc # "free" =>
       /\ pass[w].slot \in SlotId
       /\ slot[pass[w].slot].active /\ slot[pass[w].slot].owner = w
       /\ phase # "closed" => Serves(pass[w].slot)

(* The inductive invariant of the router.                                  *)
RouterInv ==
    /\ BridgeInv /\ RouterTypeOK /\ VerifiedInv
    /\ TableInv /\ CountInv /\ CallInv /\ PassInv

-----------------------------------------------------------------------------
(* Liveness: operations return, continuations are bounded and threads run. *)

RouterFairness ==
    /\ \A c \in Caller : WF_vars(CallStep(c))
    /\ \A w \in Pass : WF_vars(PassStep(w))
    /\ WF_vars(EndClose)

FairRouterSpec == RouterSpec /\ RouterFairness

(* No requested pass waits for ever, unless a thread cannot be started or  *)
(* the router shuts down.                                                  *)
RequestServed ==
    \A i \in SlotId :
       slot[i].gen > served[i]
         ~> slot[i].gen = served[i] \/ i \in unstarted \/ phase # "open"

(* close returns: calls in flight drain, and no new one gets in.           *)
CloseEnds == phase = "closing" ~> phase = "closed"
=============================================================================
