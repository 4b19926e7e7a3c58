SPECIFICATION FairSpec
CONSTANTS
  Conn = {h1, h2}
  Slot = {"cart0"}
  Image = {"game", "other", "tiny"}
  Chunks <- MCChunks
  Invalid = {"tiny"}
  NoSlot = "noslot"
  NoConn = noconn
  NoImage = "noimage"
  IdleTicks = 2
  MaxHide = 2
INVARIANT UploadConsistent
INVARIANT ReceivedPrefix
PROPERTY UploadEnds
PROPERTY ImplementsSlots
PROPERTY OthersUploadKept
