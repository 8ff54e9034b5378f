\* Everything may fail, or all but some; the worker is scheduled.
SPECIFICATION FairSpec
CONSTANTS
  Ios = {io1, io2, io3, io4}
  PoolSize = 2
  Target = 2
  RingRoom = 2
  StopPolls = 2
  Scenarios <- Everything
INVARIANTS
  BlocksInv
  OneAtThePool
  NoStray
  LivesWhileHeld
  AgreeAtRest
PROPERTY WorkerStops
