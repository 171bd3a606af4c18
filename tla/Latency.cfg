CONSTANTS
  Iters = 5
  BufferDepth = 2
  Garbage <- MCGarbage
SPECIFICATION Spec
INVARIANTS BeatsInTurns RealAnswer
PROPERTY BothEnd
