\* Everything may fail, or only memory and threads are short; the worker is
\* scheduled.
SPECIFICATION FairSpec
CONSTANTS
  Ios = {io1, io2, io3}
  PoolSize = 2
  Preroll = 1
  Target = 2
  FallbackTarget = 1
  RingRoom = 3
  Scenarios <- Everything
INVARIANTS
  BlocksInv
  HeldInv
  RestInv
  RaceOnlyAfterTimeout
  NoStray
PROPERTY WorkerStops
