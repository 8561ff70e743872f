CONSTANTS
  Modules = {f1, k1}
  WithLecture = {f1}
  QuizOnly = {k1}
  Planned = {v1}
  Choice = {s0q0}
  SelfGrade = {s1q0}
  Exercise = {s3q0}
  Section = sec0
  None = None
  MaxLoads = 1
  MaxFetches = 1
SPECIFICATION FairSpec
INVARIANTS TypeOK InnerIsOfToolbar OneModule StoredIsEarned LabelIsStored
PROPERTIES OtherMarksStay RightIsLabelled
