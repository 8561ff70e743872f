CONSTANTS
  CompileLimit = 3
  RunLimit = 1
SPECIFICATION ExerciseSpec
INVARIANT ZeroMeansPassed
