SPECIFICATION FairSpec
CONSTANTS
  Source = {"Ui", "Keyboard", "Controller0", "Remote"}
  Button = {"A", "LEFT"}
  Direction = {"LEFT"}
  MaximumKeyHoldMs = 3
  CoarseFrom = 3
  CoarseSlack = 1
  MaxTimers = 2
INVARIANT KeysWatched
INVARIANT FramesSeePresses
PROPERTY TimerKeepsLaterPress
PROPERTY EveryPressEnds
