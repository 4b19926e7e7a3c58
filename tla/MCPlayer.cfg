SPECIFICATION Spec
CONSTANTS
  Source = {"Ui"}
  Button = {"A"}
  Cart = {"c1", "c2"}
  Trapping = {"c2"}
  NoCart = "none"
  Code = {"u1", "u2", "d1"}
  Host = {"host"}
  Sentinel = "ret"
  UpdateEntry = "u1"
  DrawEntry = "d1"
  Succ <- MCSucc
  MaxSlice = 2
INVARIANT SessionConsistent
INVARIANT FrameInputKept
PROPERTY ResumeMovesOn
