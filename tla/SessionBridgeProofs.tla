------------------------- MODULE SessionBridgeProofs -------------------------
(***************************************************************************)
(* Single use of the bridge's tokens, for any number of callers, sessions, *)
(* nonces and rotations.  BridgeInv is inductive: one lemma per step of    *)
(* the bridge, and in it one step per part of the invariant.               *)
(***************************************************************************)
EXTENDS SessionBridge, TLAPS

(* The first state: no token, nothing accepted, no verify under way.       *)
LEMMA InitBridgeInv == BridgeInit => BridgeInv
  BY BridgeAssumption
  DEF BridgeInit, BridgeInv, BridgeTypeOK, AcceptedOnce, AcceptedIsRemembered,
      TokensNotAhead, VerifyKnowsEpoch, NotIssued, NotVerifying

(* rotate forgets the consumed nonces and puts every token in the past.    *)
LEMMA RotateKeeps == BridgeInv /\ Rotate => BridgeInv'
  <1> SUFFICES ASSUME BridgeInv, Rotate PROVE BridgeInv'
    OBVIOUS
  <1> USE BridgeAssumption DEF BridgeInv
  <1>1. BridgeTypeOK'
    BY DEF BridgeTypeOK, Rotate
  <1>2. AcceptedOnce'
    BY DEF BridgeTypeOK, AcceptedOnce, Rotate
  <1>3. AcceptedIsRemembered'
    BY DEF BridgeTypeOK, AcceptedIsRemembered, Rotate, TokensNotAhead
  <1>4. TokensNotAhead'
    BY DEF BridgeTypeOK, TokensNotAhead, Rotate
  <1>5. VerifyKnowsEpoch'
    BY DEF BridgeTypeOK, VerifyKnowsEpoch, Rotate
  <1> QED BY <1>1, <1>2, <1>3, <1>4, <1>5

(* A nonce is issued once, before anyone accepted it.                      *)
LEMMA IssueKeeps ==
  ASSUME NEW n \in Nonce, NEW s \in Session PROVE BridgeInv /\ Issue(n, s) => BridgeInv'
  <1> SUFFICES ASSUME BridgeInv, Issue(n, s) PROVE BridgeInv'
    OBVIOUS
  <1> USE BridgeAssumption DEF BridgeInv
  <1>1. BridgeTypeOK'
    BY DEF BridgeTypeOK, Issue, NotIssued
  <1>2. AcceptedOnce'
    BY DEF BridgeTypeOK, AcceptedOnce, Issue, NotIssued
  <1>3. AcceptedIsRemembered'
    BY DEF BridgeTypeOK, AcceptedIsRemembered, Issue, NotIssued
  <1>4. TokensNotAhead'
    BY DEF BridgeTypeOK, TokensNotAhead, Issue, NotIssued
  <1>5. VerifyKnowsEpoch'
    BY DEF BridgeTypeOK, VerifyKnowsEpoch, Issue, NotIssued
  <1> QED BY <1>1, <1>2, <1>3, <1>4, <1>5

(* The first critical section notes the epoch of the token it accepts.     *)
LEMMA CheckMacKeeps ==
  ASSUME NEW c \in Caller, NEW n \in Nonce PROVE BridgeInv /\ CheckMac(c, n) => BridgeInv'
  <1> SUFFICES ASSUME BridgeInv, CheckMac(c, n) PROVE BridgeInv'
    OBVIOUS
  <1> USE BridgeAssumption DEF BridgeInv
  <1>1. BridgeTypeOK'
    BY DEF BridgeTypeOK, CheckMac, Step
  <1>2. AcceptedOnce'
    BY DEF BridgeTypeOK, AcceptedOnce, CheckMac, Step
  <1>3. AcceptedIsRemembered'
    BY DEF BridgeTypeOK, AcceptedIsRemembered, CheckMac, Step
  <1>4. TokensNotAhead'
    BY DEF BridgeTypeOK, TokensNotAhead, CheckMac, Step
  <1>5. VerifyKnowsEpoch'
    BY DEF BridgeTypeOK, VerifyKnowsEpoch, CheckMac, Step
  <1> QED BY <1>1, <1>2, <1>3, <1>4, <1>5

(* The claims are checked without the lock.                                *)
LEMMA CheckClaimsKeeps ==
  ASSUME NEW c \in Caller PROVE BridgeInv /\ CheckClaims(c) => BridgeInv'
  <1> SUFFICES ASSUME BridgeInv, CheckClaims(c) PROVE BridgeInv'
    OBVIOUS
  <1> USE BridgeAssumption DEF BridgeInv
  <1>1. BridgeTypeOK'
    BY DEF BridgeTypeOK, CheckClaims, Step, At
  <1>2. AcceptedOnce'
    BY DEF BridgeTypeOK, AcceptedOnce, CheckClaims, Step, At
  <1>3. AcceptedIsRemembered'
    BY DEF BridgeTypeOK, AcceptedIsRemembered, CheckClaims, Step, At
  <1>4. TokensNotAhead'
    BY DEF BridgeTypeOK, TokensNotAhead, CheckClaims, Step, At
  <1>5. VerifyKnowsEpoch'
    BY DEF BridgeTypeOK, VerifyKnowsEpoch, CheckClaims, Step, At
  <1> QED BY <1>1, <1>2, <1>3, <1>4, <1>5

(* The second critical section: an accepted nonce of this epoch is consumed. *)
LEMMA ConsumeKeeps ==
  ASSUME NEW c \in Caller PROVE BridgeInv /\ Consume(c) => BridgeInv'
  <1> SUFFICES ASSUME BridgeInv, Consume(c) PROVE BridgeInv'
    OBVIOUS
  <1> USE BridgeAssumption DEF BridgeInv
  <1>1. BridgeTypeOK'
    BY DEF BridgeTypeOK, Consume, Consumable, Step, At, VerifyKnowsEpoch
  <1>2. AcceptedOnce'
    BY DEF BridgeTypeOK, AcceptedOnce, Consume, Consumable, Step, At, AcceptedIsRemembered, VerifyKnowsEpoch
  <1>3. AcceptedIsRemembered'
    BY DEF BridgeTypeOK, AcceptedIsRemembered, Consume, Consumable, Step, At, VerifyKnowsEpoch
  <1>4. TokensNotAhead'
    BY DEF BridgeTypeOK, TokensNotAhead, Consume, Consumable, Step, At
  <1>5. VerifyKnowsEpoch'
    BY DEF BridgeTypeOK, VerifyKnowsEpoch, Consume, Consumable, Step, At
  <1> QED BY <1>1, <1>2, <1>3, <1>4, <1>5

(* Refusals and a lost answer end the verify and change nothing else.      *)
LEMMA GiveUpKeeps ==
  ASSUME NEW c \in Caller
  PROVE BridgeInv /\ (ClaimsFail(c) \/ ConsumeRefused(c) \/ AnswerLost(c)) => BridgeInv'
  <1> SUFFICES ASSUME BridgeInv, (ClaimsFail(c) \/ ConsumeRefused(c) \/ AnswerLost(c)) PROVE BridgeInv'
    OBVIOUS
  <1> USE BridgeAssumption DEF BridgeInv
  <1>1. BridgeTypeOK'
    BY DEF BridgeTypeOK, ClaimsFail, ConsumeRefused, AnswerLost, Step, NotVerifying
  <1>2. AcceptedOnce'
    BY DEF BridgeTypeOK, AcceptedOnce, ClaimsFail, ConsumeRefused, AnswerLost, Step, NotVerifying
  <1>3. AcceptedIsRemembered'
    BY DEF BridgeTypeOK, AcceptedIsRemembered, ClaimsFail, ConsumeRefused, AnswerLost, Step, NotVerifying
  <1>4. TokensNotAhead'
    BY DEF BridgeTypeOK, TokensNotAhead, ClaimsFail, ConsumeRefused, AnswerLost, Step, NotVerifying
  <1>5. VerifyKnowsEpoch'
    BY DEF BridgeTypeOK, VerifyKnowsEpoch, ClaimsFail, ConsumeRefused, AnswerLost, Step, NotVerifying
  <1> QED BY <1>1, <1>2, <1>3, <1>4, <1>5

(* BridgeInv is preserved by every step of the bridge.                     *)
LEMMA NextKeepsBridgeInv == BridgeInv /\ [BridgeNext]_bridgeVars => BridgeInv'
  <1> SUFFICES ASSUME BridgeInv, [BridgeNext]_bridgeVars PROVE BridgeInv'
    OBVIOUS
  <1>1. CASE UNCHANGED bridgeVars
    BY <1>1 DEF bridgeVars, BridgeInv, BridgeTypeOK, AcceptedOnce,
                AcceptedIsRemembered, TokensNotAhead, VerifyKnowsEpoch
  <1>2. CASE Rotate
    BY <1>2, RotateKeeps
  <1>3. CASE \E n \in Nonce, s \in Session : Issue(n, s)
    BY <1>3, IssueKeeps
  <1>4. CASE \E c \in Caller, n \in Nonce : CheckMac(c, n)
    BY <1>4, CheckMacKeeps
  <1>5. CASE \E c \in Caller : CheckClaims(c)
    BY <1>5, CheckClaimsKeeps
  <1>6. CASE \E c \in Caller : Consume(c)
    BY <1>6, ConsumeKeeps
  <1>7. CASE \E c \in Caller : ClaimsFail(c) \/ ConsumeRefused(c) \/ AnswerLost(c)
    BY <1>7, GiveUpKeeps
  <1> QED
    BY <1>1, <1>2, <1>3, <1>4, <1>5, <1>6, <1>7 DEF BridgeNext, BridgeStep

(* The inductive invariant holds of every behaviour of the bridge.         *)
THEOREM BridgeInvHolds == BridgeSpec => []BridgeInv
  BY InitBridgeInv, NextKeepsBridgeInv, PTL DEF BridgeSpec

(* verify accepts a token at most once, through any number of rotations    *)
(* and concurrent verifies of it.                                          *)
THEOREM TokensAreSingleUse == BridgeSpec => []AcceptedOnce
  <1>1. BridgeInv => AcceptedOnce
    BY DEF BridgeInv
  <1> QED BY <1>1, BridgeInvHolds, PTL

(* A rotation really invalidates the tokens issued before it.              *)
THEOREM RotationInvalidates == BridgeSpec => AcceptedInItsEpoch
  <1> DEFINE A == \A n \in Nonce : accepted'[n] # accepted[n] => token[n].epoch = epoch
  <1>1. BridgeInv /\ BridgeNext => A
    <2> SUFFICES ASSUME BridgeInv, BridgeNext, NEW n \in Nonce, accepted'[n] # accepted[n]
                 PROVE token[n].epoch = epoch
      OBVIOUS
    <2>1. PICK c \in Caller : Consume(c)
      BY DEF BridgeNext, BridgeStep, Rotate, Issue, CheckMac, CheckClaims,
             ClaimsFail, ConsumeRefused, AnswerLost
    <2>2. n = verify[c].nonce
      BY <2>1 DEF Consume, BridgeInv, BridgeTypeOK
    <2> QED
      BY <2>1, <2>2 DEF Consume, Consumable, At, BridgeInv, VerifyKnowsEpoch
  <1>2. BridgeInv /\ [BridgeNext]_bridgeVars => [A]_bridgeVars
    BY <1>1
  <1> QED
    BY <1>2, BridgeInvHolds, PTL DEF BridgeSpec, AcceptedInItsEpoch
=============================================================================
