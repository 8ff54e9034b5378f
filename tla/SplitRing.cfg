\* Three descriptors, three buffers, indexes that wrap after two turns.
SPECIFICATION Spec
CONSTANTS
  Num = 3
  Modulus = 6
  Msgs = {m1, m2, m3}
  NoMsg = NoMsg
  MaxChain = 3
SYMMETRY Symmetry
INVARIANTS
  RingInv
PROPERTY
  ImplementsQueue
