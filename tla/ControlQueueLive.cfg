\* What must happen, first without any help from the device, then with a
\* healthy one: symmetry is not used here.
SPECIFICATION FairSpec
CONSTANTS
  Clients = {c1, c2}
  Addrs = {a1, a2}
  NoAddr = NoAddr
  NoClient = NoClient
  RingMessages = 2
  MaxPolls = 2
  RenotifyPolls = 2
  StatusTries = 1
  InfoTries = 2
  Calls = {"PCM"}
PROPERTIES
  CallReturns
  ReclaimedUnlessWedged
