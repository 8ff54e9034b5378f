\* The promise of enable_cb_delayed, which the 16-bit wrap breaks.
SPECIFICATION EventsSpec
CONSTANTS
  Num = 2
  Modulus = 4
  MaxAdded = 5
PROPERTY
  DelayedWaitIsDue
