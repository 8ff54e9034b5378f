\* Three buffers, indexes of three bits, more than a full turn without a kick.
SPECIFICATION EventsSpec
CONSTANTS
  Num = 3
  Modulus = 8
  MaxAdded = 9
INVARIANTS
  NoLostWakeup
