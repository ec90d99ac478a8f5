CONSTANTS
  p1 = p1
  p2 = p2
  p3 = p3
  o1 = o1
  o2 = o2
  c1 = c1
  c2 = c2
  Pages = {p1, p2, p3}
  NoPage = NoPage
  Garbage = Garbage
  Total <- MCOneFrame
  Orders = {o1, o2}
  OrderOf <- MCOrderOf
  Signable = {o1}
  Calls = {c1}
  Crossings = 2
INIT Init
NEXT Next

INVARIANTS ReplyIsCurrent
PROPERTIES ImplementsCrossing
CHECK_DEADLOCK FALSE
