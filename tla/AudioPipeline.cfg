SPECIFICATION Spec
CONSTANTS
  FrameMs = 33
  StepMs = 20
  StepFrames = 2
  KitLimit = 5
  Waits = {65}
  HalfSecond = 3
  EngineRate = 2
  DeviceRate = 3
  MaxFrames = 4
  MaxDelay = 65
INVARIANT SoundAccounted
INVARIANT PlayerSilenced
INVARIANT Interpolates
