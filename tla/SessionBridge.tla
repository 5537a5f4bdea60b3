---------------------------- MODULE SessionBridge ----------------------------
(***************************************************************************)
(* InvocationBridge of session_bridge.py behind its Unix socket: a daemon  *)
(* that issues single-use tokens to a session's host and verifies them for *)
(* the MCP server, one thread per request.  verify holds the lock twice:   *)
(* once to check the MAC against the secret and note the epoch, once, after *)
(* the claims were checked without it, to consume the nonce.  rotate may   *)
(* come in between: it replaces secret and epoch and forgets the consumed  *)
(* nonces.                                                                 *)
(*                                                                         *)
(* Data: a token is its nonce; secret and bridge_id change together, so    *)
(* the epoch stands for both; forged and malformed tokens are rejected     *)
(* without a state change and are left out.                                *)
(***************************************************************************)
EXTENDS Naturals

CONSTANTS
    Nonce,     \* nonces of the tokens that are issued
    Session,   \* host sessions
    Caller,    \* requests the server is handling
    MaxEpoch,  \* bound on rotate
    None       \* not issued, not verifying

ASSUME BridgeAssumption ==
    /\ MaxEpoch \in Nat \ {0}
    /\ None \notin Nonce /\ None \notin Session

VARIABLES
    epoch,    \* the current bridge_id
    consumed, \* _consumed
    token,    \* nonce -> session and epoch it was issued for
    verify,   \* caller -> where its verify is
    accepted  \* history: how often each nonce was accepted

bridgeVars == <<epoch, consumed, token, verify, accepted>>

NotIssued == [session |-> None, epoch |-> 0]
NotVerifying == [pc |-> "idle", nonce |-> None, epoch |-> 0]

BridgeTypeOK ==
    /\ epoch \in 1..MaxEpoch
    /\ consumed \in SUBSET Nonce
    /\ token \in [Nonce -> [session : Session \cup {None}, epoch : 0..MaxEpoch]]
    /\ verify \in [Caller -> [pc : {"idle", "mac", "claims", "verified"},
                              nonce : Nonce \cup {None}, epoch : 0..MaxEpoch]]
    /\ accepted \in [Nonce -> Nat]

BridgeInit ==
    /\ epoch = 1
    /\ consumed = {}
    /\ token = [n \in Nonce |-> NotIssued]
    /\ verify = [c \in Caller |-> NotVerifying]
    /\ accepted = [n \in Nonce |-> 0]

-----------------------------------------------------------------------------
\* Mutant: the consumed nonces are forgotten but the epoch stays.
Rotate_SameEpoch ==
    /\ consumed' = {}
    /\ UNCHANGED <<epoch, token, verify, accepted>>

Rotate ==
    /\ epoch < MaxEpoch
    /\ epoch' = epoch + 1
    /\ consumed' = {}
    /\ UNCHANGED <<token, verify, accepted>>

Issue(n, s) ==
    /\ token[n] = NotIssued
    /\ token' = [token EXCEPT ![n] = [session |-> s, epoch |-> epoch]]
    /\ UNCHANGED <<epoch, consumed, verify, accepted>>

At(c, pc) == verify[c].pc = pc
Step(c, v) == verify' = [verify EXCEPT ![c] = v]

(* First critical section: only the current secret's MAC is good.          *)
CheckMac(c, n) ==
    /\ At(c, "idle")
    /\ token[n] # NotIssued /\ token[n].epoch = epoch
    /\ Step(c, [pc |-> "mac", nonce |-> n, epoch |-> epoch])
    /\ UNCHANGED <<epoch, consumed, token, accepted>>

(* Outside the lock: epoch claim, lifetime, session and argument digest.   *)
(* Whether the lifetime is over or the digest differs is left open.        *)
CheckClaims(c) ==
    /\ At(c, "mac")
    /\ token[verify[c].nonce].epoch = verify[c].epoch
    /\ Step(c, [verify[c] EXCEPT !.pc = "claims"])
    /\ UNCHANGED <<epoch, consumed, token, accepted>>

ClaimsFail(c) ==
    /\ At(c, "mac")
    /\ Step(c, NotVerifying)
    /\ UNCHANGED <<epoch, consumed, token, accepted>>

\* Mutant: the second critical section forgets that the epoch may have changed.
Consumable_AnyEpoch(c) == verify[c].nonce \notin consumed

\* Mutant: the nonce is looked up before the lock is taken again.
Consumable_NoReplayCheck(c) == epoch = verify[c].epoch

Consumable(c) == epoch = verify[c].epoch /\ verify[c].nonce \notin consumed

(* Second critical section: still this epoch, and not consumed yet.        *)
Consume(c) ==
    /\ At(c, "claims")
    /\ Consumable(c)
    /\ consumed' = consumed \cup {verify[c].nonce}
    /\ accepted' = [accepted EXCEPT ![verify[c].nonce] = @ + 1]
    /\ Step(c, [verify[c] EXCEPT !.pc = "verified"])
    /\ UNCHANGED <<epoch, token>>

ConsumeRefused(c) ==
    /\ At(c, "claims")
    /\ ~Consumable(c)
    /\ Step(c, NotVerifying)
    /\ UNCHANGED <<epoch, consumed, token, accepted>>

(* The answer of an accepted verify does not reach the server in time.     *)
AnswerLost(c) ==
    /\ At(c, "verified")
    /\ Step(c, NotVerifying)
    /\ UNCHANGED <<epoch, consumed, token, accepted>>

BridgeStep ==
    \/ Rotate
    \/ \E n \in Nonce, s \in Session : Issue(n, s)
    \/ \E c \in Caller :
          \/ \E n \in Nonce : CheckMac(c, n)
          \/ CheckClaims(c) \/ ClaimsFail(c) \/ Consume(c) \/ ConsumeRefused(c)

BridgeNext == BridgeStep \/ \E c \in Caller : AnswerLost(c)

BridgeSpec == BridgeInit /\ [][BridgeNext]_bridgeVars

-----------------------------------------------------------------------------
(* Properties.                                                             *)

(* A token is accepted at most once, although rotate forgets which ones    *)
(* were: no interleaving of verifies and rotations accepts it again.       *)
AcceptedOnce == \A n \in Nonce : accepted[n] <= 1

(* No token is accepted after the rotation that invalidates it.            *)
AcceptedInItsEpoch ==
    [][\A n \in Nonce : accepted'[n] # accepted[n] => token[n].epoch = epoch]_bridgeVars

(* What makes AcceptedOnce inductive: an accepted nonce is either still    *)
(* remembered or of a past epoch, and a verify under way carries the epoch *)
(* its token was issued in.                                                *)
AcceptedIsRemembered ==
    \A n \in Nonce : accepted[n] # 0 =>
       /\ token[n] # NotIssued
       /\ n \in consumed \/ token[n].epoch < epoch

TokensNotAhead == \A n \in Nonce : token[n].epoch <= epoch

VerifyKnowsEpoch ==
    \A c \in Caller : verify[c].pc \in {"mac", "claims"} =>
       /\ verify[c].nonce \in Nonce
       /\ token[verify[c].nonce] # NotIssued
       /\ verify[c].epoch = token[verify[c].nonce].epoch

BridgeInv ==
    /\ BridgeTypeOK /\ AcceptedOnce
    /\ AcceptedIsRemembered /\ TokensNotAhead /\ VerifyKnowsEpoch
=============================================================================
