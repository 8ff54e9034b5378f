CONSTANTS
  QueueCount = 4
  RetryCount = 2
  MaxStreams = 2
  MaxStarts = 3
SPECIFICATION Spec
INVARIANT DmaSafe
INVARIANT LifeInv
PROPERTY Handshake
