CONSTANTS
  CompileLimit = 2
  RunLimit = 1
  ServerLimit = 4
  QemuLimit = 3
SPECIFICATION RequestsSpec
INVARIANTS TypeOK ExerciseTypeOK PassMeansZero TrapCleansUp NoEarlyTimeout
           PassedMeansZero NothingLeft
PROPERTIES RunLkmEnds QemuStops RequestEnds
