CONSTANTS
  Modules = {f1, k1}
  Panels = {p1, p2}
  Keep = 3
  MaxAsked = 3
  Refusals = TRUE
SPECIFICATION Spec
SYMMETRY Symmetry
INVARIANTS TypeOK KeepBound NoCrossTalk AnswerFollowsQuestion CalmClearedStaysClear
PROPERTY IsChatLog
