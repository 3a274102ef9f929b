CONSTANTS
  Bridge = {b1, b2}
  Slot = {s1, s2}
  NoKey = none
  MaxKey = 2
  MaxAsk = 5
  MaxFail = 1
SPECIFICATION Spec
SYMMETRY Symmetry
CHECK_DEADLOCK FALSE
INVARIANTS WritesAreVerified KeylessIsOff KeyStaysValid
PROPERTIES RevokedStays
