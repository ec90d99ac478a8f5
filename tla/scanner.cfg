CONSTANTS
  Pages = {p1, p2}
  NoPage = NoPage
  Garbage = Garbage
  Total <- MCTotal
  Starts = {s1, s2}
  NoStart = NoStart
SPECIFICATION Spec
INVARIANTS AssembledWhole LoopOwnsCamera NoCameraWhenGone Inv
PROPERTY CameraCloses
CHECK_DEADLOCK FALSE
