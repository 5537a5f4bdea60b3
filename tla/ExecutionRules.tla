--------------------------- MODULE ExecutionRules ---------------------------
(***************************************************************************)
(* The durable execution record of core/execution/durable_state.py and the *)
(* rules a compare_and_swap enforces on it.                                *)
(*                                                                         *)
(* Data: the active states ACCEPTED, QUEUED, RUNNING and WAITING are one   *)
(* state "RUNNING"; adapter_handle, initial_state and dispatched_at are    *)
(* bound together with the phase DISPATCHED and only then, so the phase    *)
(* stands for them; a terminal result, and the CARD projected from it, is  *)
(* the state it reports; package_id, correlation id, executor and time     *)
(* stamps are left out.  record_revision is left to the modules that swap. *)
(***************************************************************************)
EXTENDS Naturals

CONSTANTS
    Task,       \* canonical task ids
    Key,        \* idempotency keys
    Intent,     \* intent fingerprints
    Session,    \* trusted origin sessions
    None        \* no session, no owner, no result

Active == {"CREATED", "RUNNING", "UNKNOWN"}
Terminal == {"COMPLETED", "FAILED", "CANCELLED"}
TaskState == Active \cup Terminal

Settled == {"ACKNOWLEDGED", "DROPPED"}
DeliveryState == {"PENDING", "CLAIMED"} \cup Settled

Record ==
    [phase : {"ABSENT", "PREPARED", "DISPATCHED"},
     state : TaskState,
     result : Terminal \cup {None},
     card : Terminal \cup {None},
     origin : Session \cup {None},
     delivery : DeliveryState,
     attempt : Nat,
     key : Key \cup {None},
     intent : Intent \cup {None}]

NoRecord ==
    [phase |-> "ABSENT", state |-> "CREATED", result |-> None, card |-> None,
     origin |-> None, delivery |-> "PENDING", attempt |-> 0,
     key |-> None, intent |-> None]

(* What create makes durable before the physical dispatch.                 *)
Prepared(key, intent, origin) ==
    [NoRecord EXCEPT !.phase = "PREPARED", !.key = key, !.intent = intent,
                     !.origin = origin]

-----------------------------------------------------------------------------
(* with_cas_updates: what a new revision n of record r may change ...      *)

PhaseMoves(r, n) ==
    n.phase = r.phase \/ (r.phase = "PREPARED" /\ n.phase = "DISPATCHED")

StateSticks(r, n) == r.state \in Terminal => n.state = r.state

ResultBindsOnce(r, n) ==
    /\ r.result # None => n.result = r.result
    /\ n.result # None => n.result = n.state

BindsOnce(r, n) ==
    /\ r.origin # None => n.origin = r.origin
    /\ r.card # None => n.card = r.card

SettledSticks(r, n) == r.delivery \in Settled => n.delivery = r.delivery

(* ... and __post_init__: what any record must satisfy.                    *)
Coherent(n) ==
    /\ n.phase = "PREPARED" => n.state \in {"CREATED", "UNKNOWN"}
    /\ n.delivery \in Settled => n.result # None

MayUpdate(r, n) ==
    /\ r.phase # "ABSENT"
    /\ PhaseMoves(r, n)
    /\ StateSticks(r, n)
    /\ ResultBindsOnce(r, n)
    /\ BindsOnce(r, n)
    /\ SettledSticks(r, n)
    /\ Coherent(n)

(* _requires_recovery: nonterminal, or terminal and not yet settled.       *)
RequiresRecovery(r) ==
    /\ r.phase # "ABSENT"
    /\ r.state \notin Terminal \/ r.delivery \notin Settled
=============================================================================
