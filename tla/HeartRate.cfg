CONSTANTS
  Threads = {t1, t2}
  WindowSize = 3
  LastBeat = 7
  LastTime = 4
SYMMETRY ThreadSymmetry
SPECIFICATION Spec
INVARIANTS RateTrue
PROPERTY SlidingSpec
