CONSTANTS
  Threads = {t1, t2}
  Monitors = {m1}
  Locals = {}
  Fields = {key, rates}
  BufferDepth = 3
  HasTextFile = TRUE
  MaxBeats = 8
  NoThread = NoThread
SPECIFICATION Spec
SYMMETRY Symmetry
INVARIANTS TypeOK RingOrder TextLog QuiescentRead UntornRead
PROPERTIES RegisterSpec
