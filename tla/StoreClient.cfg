SPECIFICATION StoreFairSpec
CONSTANTS
  Store = {"default", "school"}
  Default = "default"
  Game = {"pong", "snake"}
  NoGame = "noid"
  None = "none"
  Endpoints = 2
  MaxUses = 3
INVARIANT PageExplained
INVARIANT ShownOfAddress
PROPERTY LoadingEnds
CHECK_DEADLOCK FALSE
