\* Two threads, three addresses for messages, room for two on the ring.
SPECIFICATION Spec
CONSTANTS
  Clients = {c1, c2}
  Addrs = {a1, a2, a3}
  NoAddr = NoAddr
  NoClient = NoClient
  RingMessages = 2
  MaxPolls = 2
  RenotifyPolls = 2
  StatusTries = 2
  InfoTries = 3
  Calls = {"INFO", "SET_PARAMS", "PCM"}
SYMMETRY Symmetry
INVARIANTS
  TypeOK
  NoUseAfterFree
  NoMessageLost
  OnlyHolderAwaits
  SuccessIsAnswered
PROPERTY
  WedgeIsPermanent
