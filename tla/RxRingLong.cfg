SPECIFICATION Spec
CONSTANTS
  RxEnd = 15
  Header = 2
  Payloads = {p1, p2}
  Lens = {2, 3}
  DataLen = 2
  RejectLen = 4
  Nothing = Nothing
  Junk = Junk
INVARIANT NextPointerSaved
