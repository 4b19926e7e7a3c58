SPECIFICATION Spec
CONSTANTS
  Conn = {h1, h2}
  Slot = {"cart0"}
  Image = {"game", "other", "tiny"}
  Chunks <- MCChunks
  Invalid = {}
  NoSlot = "noslot"
  NoConn = noconn
  NoImage = "noimage"
  IdleTicks = 2
  MaxHide = 1
INVARIANT SilentHostAbandoned
