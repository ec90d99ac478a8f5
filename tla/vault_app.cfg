\* A new phone, and a sheet printed on an older one.
SPECIFICATION Spec
CONSTANTS
  k0 = k0
  k1 = k1
  k2 = k2
  Keys = {k0, k1, k2}
  Printed = {k0}
  None = None
  Damaged = Damaged
INVARIANTS Inv HandedOutIsKept
PROPERTIES UnreadableIsNotReplaced RevealedGoesAway
CHECK_DEADLOCK FALSE
