CONSTANTS
  Native = {c1, c2}
  Lkm = {k1}
  None = None
  Panels = {p1, p2}
  MaxRuns = 2
SPECIFICATION Spec
INVARIANTS TypeOK DoneIsCertified
PROPERTY DoneSticks
