SPECIFICATION FairSpec
CONSTANTS
  Id = {p1, p2, p3, p4}
  NoId = nobody
  MaximumPeers = 2
  FrameSpace = 4
  InitialDelay = 1
  MaximumDelay = 3
  SendPeriod = 3
  LongestFrame = 2
  MaxFrame = 5
  MaxJoins = 2
INVARIANT SessionOfSocket
INVARIANT LimitsKept
INVARIANT NeverStranded
INVARIANT NewestHeld
PROPERTY Admission
