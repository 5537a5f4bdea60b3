\* Two sessions share one slot; two calls, one rotation and a shutdown.
SPECIFICATION FairRouterSpec
CONSTANTS
  Nonce = {n1, n2}
  Session = {s1, s2}
  Caller = {c1, c2}
  MaxEpoch = 2
  None = None
  SlotId = {i1, i2}
  Pass = {w1, w2}
  MaxSlots = 1
INVARIANTS InUseIsOpen PassKeepsSlot AcceptedOnce BridgeInv
PROPERTIES AcceptedInItsEpoch RequestServed CloseEnds
CHECK_DEADLOCK FALSE
