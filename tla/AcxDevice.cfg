\* Two threads, a place more than they need at once, a control ring of two.
SPECIFICATION Spec
CONSTANTS
  Streams = {s1, s2}
  Addresses = {a1, a2, a3}
  ControlRoom = 2
  EventCount = 2
SYMMETRY Symmetry
INVARIANTS
  CommandInv
  DeviceInv
