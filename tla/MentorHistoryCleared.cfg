CONSTANTS
  Modules = {f1, k1}
  Panels = {p1, p2}
  Keep = 3
  MaxAsked = 2
  Refusals = FALSE
SPECIFICATION Spec
INVARIANT ClearedStaysClear
