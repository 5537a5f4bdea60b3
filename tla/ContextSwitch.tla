---------------------------- MODULE ContextSwitch ----------------------------
(***************************************************************************)
(* Switching a task-main session to another Plan                           *)
(* (runtime/task_main/context_switch_runtime.py, _eligibility.py,          *)
(* _guard.py, _transition.py): a transition is prepared and applied in the *)
(* coordinator record itself, by two swaps, while the coordinator's own    *)
(* callers swap the same record.                                           *)
(*                                                                         *)
(* A transition's identity is its target and the revision its intent was   *)
(* made from; intents are the switches whose identity is the stored one.   *)
(* Evidence is in fresh while the record has the revision that the stored  *)
(* phase names (prepared_revision, applied_revision).  A load, a check and *)
(* a swap that all need the same revision are one step: when the swap      *)
(* succeeds nothing changed between them.                                  *)
(***************************************************************************)
EXTENDS Coordinator

CONSTANTS
    Plan,      \* Plans of the project other than the coordinator's
    Switcher,  \* threads that switch or recover, in any process
    Evidence   \* the revision a stored phase names

ASSUME SwitchAssumption ==
    /\ Switcher \subseteq Holder /\ Evidence \in Holder
    /\ Caller \cap Switcher = {} /\ Evidence \notin Caller \cup Switcher
    /\ \A m \in Scenarios : m.targets \subseteq Plan

VARIABLES
    transition, \* context_switch_transition of the record
    intents,    \* switches whose intent is the stored one
    switch,     \* what each switcher is doing
    brake       \* human_brake of the record

switchVars == <<transition, intents, switch, brake>>
allVars == <<vars, switchVars>>

NoTransition == [phase |-> "NONE", target |-> {}]
NotSwitching == [pc |-> "idle", target |-> {}, seen |-> {}]

SwitchTypeOK ==
    /\ TypeOK
    /\ transition \in [phase : {"NONE", "PREPARED", "APPLIED"}, target : SUBSET Plan]
    /\ intents \subseteq Switcher
    /\ switch \in [Switcher -> [pc : {"idle", "derive", "admit", "prepare", "apply"},
                                target : SUBSET Plan, seen : SUBSET Task]]
    /\ brake \in BOOLEAN

SwitchInit ==
    /\ Init
    /\ transition = NoTransition
    /\ intents = {}
    /\ switch = [s \in Switcher |-> NotSwitching]
    /\ brake = FALSE

-----------------------------------------------------------------------------
(* Eligibility and admission. *)

\* What derive_switch_eligibility and the guard ask of the record.
Switchable ==
    /\ coord.status = "ACTIVE" /\ coord.approved
    /\ ~brake
    /\ \A w \in WorkItem : coord.wi[w] = "PENDING"

\* What they ask of the execution records, and the records they counted.
Recorded == {t \in Task : exec[t].phase # "ABSENT"}
AllEnded == \A t \in Recorded : exec[t].ended

SwitchGoto(s, pc) == switch' = [switch EXCEPT ![s].pc = pc]
SwitchReturns(s) == switch' = [switch EXCEPT ![s] = NotSwitching]

\* switch(locator) reads the record: nothing stored yet, and the record
\* allows it.  Otherwise the call ends without effect.
SwitchLoad(s) ==
    /\ switch[s].pc = "idle"
    /\ transition = NoTransition /\ Switchable
    /\ \E p \in scenario.targets :
          switch' = [switch EXCEPT ![s] = [NotSwitching EXCEPT !.pc = "derive", !.target = {p}]]
    /\ fresh' = fresh \cup {s}
    /\ intents' = intents \ {s}
    /\ Undisturbed /\ UNCHANGED <<coord, call, transition, brake>>

\* The execution store is listed for the eligibility and once more for the
\* guard, which must count what the eligibility counted.
Derive(s) ==
    /\ switch[s].pc = "derive"
    /\ IF AllEnded
       THEN switch' = [switch EXCEPT ![s].pc = "admit", ![s].seen = Recorded]
       ELSE SwitchReturns(s)
    /\ Undisturbed /\ UNCHANGED <<coord, call, fresh, transition, intents, brake>>

Admit(s) ==
    /\ switch[s].pc = "admit"
    /\ IF AllEnded /\ Cardinality(Recorded) = Cardinality(switch[s].seen)
       THEN switch' = [switch EXCEPT ![s].pc = "prepare", ![s].seen = {}]
       ELSE SwitchReturns(s)
    /\ Undisturbed /\ UNCHANGED <<coord, call, fresh, transition, intents, brake>>

-----------------------------------------------------------------------------
(* prepare, apply and recover. *)

StoreTransition(phase, target) ==
    /\ transition' = [phase |-> phase, target |-> target]
    /\ fresh' = {Evidence}

\* The source revision of the intent is still the record's.
MayPrepare(s) == transition = NoTransition /\ s \in fresh

SameIntent(s) == {r \in Switcher : /\ r \in fresh /\ switch[r].pc # "idle"
                                   /\ switch[r].target = switch[s].target}

Prepare(s) ==
    /\ switch[s].pc = "prepare"
    /\ \/ /\ MayPrepare(s)
          /\ StoreTransition("PREPARED", switch[s].target)
          /\ intents' = SameIntent(s) \cup {s}
          /\ SwitchGoto(s, "apply")
       \/ /\ transition # NoTransition /\ s \in intents
          /\ SwitchGoto(s, "apply") /\ UNCHANGED <<transition, fresh, intents>>
       \/ /\ ~MayPrepare(s) /\ s \notin intents
          /\ SwitchReturns(s) /\ UNCHANGED <<transition, fresh, intents>>
    /\ Undisturbed /\ UNCHANGED <<coord, call, brake>>

MayApply_Prepared == transition.phase = "PREPARED"

\* Nothing was swapped since the transition was prepared.
MayApply == transition.phase = "PREPARED" /\ Evidence \in fresh

\* The read back that follows only decides what the caller is told.
Apply(s) ==
    /\ switch[s].pc = "apply"
    /\ s \in intents
    /\ \/ /\ MayApply
          /\ StoreTransition("APPLIED", transition.target)
       \/ /\ transition.phase = "APPLIED"
          /\ UNCHANGED <<transition, fresh>>
    /\ SwitchReturns(s)
    /\ Undisturbed /\ UNCHANGED <<coord, call, intents, brake>>

\* A prepared transition over a record that moved on is left for good.
ApplyRefused(s) ==
    /\ switch[s].pc = "apply"
    /\ s \notin intents \/ (transition.phase = "PREPARED" /\ ~MayApply)
    /\ SwitchReturns(s)
    /\ Undisturbed /\ UNCHANGED <<coord, call, fresh, transition, intents, brake>>

\* recover_context_switch rebuilds the intent from the stored transition.
RecoverSwitch(s) ==
    /\ switch[s].pc = "idle"
    /\ MayApply
    /\ switch' = [switch EXCEPT ![s].pc = "apply"]
    /\ intents' = intents \cup {s}
    /\ Undisturbed /\ UNCHANGED <<coord, call, fresh, transition, brake>>

\* A switch dies, or a store call or the resolver of its target fails.
SwitchFails(s) ==
    /\ switch[s].pc # "idle" /\ faults < MaxFaults
    /\ faults' = faults + 1
    /\ SwitchReturns(s)
    /\ UNCHANGED <<scenario, coord, exec, fresh, call, gate, session, launched, acked, turns,
                   transition, intents, brake>>

\* set_human_brake and clear_human_brake are swaps of the record too.
HumanBrake ==
    /\ scenario.targets # {}
    /\ Annotate
    /\ brake' = ~brake
    /\ UNCHANGED <<transition, intents, switch>>

SwitchStep(s) ==
    \/ SwitchLoad(s) \/ Derive(s) \/ Admit(s) \/ Prepare(s) \/ Apply(s)
    \/ ApplyRefused(s) \/ RecoverSwitch(s) \/ SwitchFails(s)

SwitchNext ==
    \/ Next /\ UNCHANGED switchVars
    \/ \E s \in Switcher : SwitchStep(s)
    \/ HumanBrake

SwitchSpec == SwitchInit /\ [][SwitchNext]_allVars

FairSpec == SwitchSpec /\ CoordinatorFairness

-----------------------------------------------------------------------------
(* Properties. *)

\* The session's Plan is switched at most once, in two stores of one and the
\* same intent, and both are made over a record that is active, approved,
\* without brake and with no Work Item dispatched: the record did not move
\* between the eligibility and the applied switch, whatever other switches,
\* recoveries, dispatches and status changes came between.
SwitchedFromQuiet ==
    [][transition' # transition =>
          /\ \/ transition.phase = "NONE" /\ transition'.phase = "PREPARED"
             \/ /\ transition.phase = "PREPARED" /\ transition'.phase = "APPLIED"
                /\ transition'.target = transition.target
          /\ Switchable]_allVars

\* What makes it so: whoever still holds the revision it judged, switch or
\* stored evidence, judged the record as it is.
QuietInv ==
    /\ \A s \in Switcher :
          switch[s].pc \in {"derive", "admit", "prepare"} /\ s \in fresh => Switchable
    /\ transition.phase = "PREPARED" /\ Evidence \in fresh => Switchable
=============================================================================
