CONSTANTS
  Native = {}
  Lkm = {k1}
  None = None
  Panels = {p1}
  MaxRuns = 1
SPECIFICATION Spec
INVARIANT LkmRunsInQemu
