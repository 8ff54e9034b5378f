\* A buffer of five packets, two reads in flight, a wrap of the number.
SPECIFICATION Spec
CONSTANTS
  Modulus = 15
  N = 5
  Target = 2
  MaxPackets = 17
  MaxFailed = 1
INVARIANTS
  WindowInv
  GivenIsThere
PROPERTY GivenInOrder
