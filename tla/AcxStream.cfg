\* Two periods, two RT packets, up to three packets on their way.
SPECIFICATION Spec
CONSTANTS
  PeriodCount = 2
  PacketCount = 2
  MaxPackets = 3
INVARIANTS
  
  PumpInv
  KeepsReading
  CountInv
PROPERTY
  OnlyForward
