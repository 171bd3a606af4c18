CONSTANTS
  Threads = {t1, t2}
  Monitors = {m1}
  Locals = {l1}
  Fields = {rates}
  BufferDepth = 2
  HasTextFile = FALSE
  MaxBeats = 4
  NoThread = NoThread
SPECIFICATION FairSpec
PROPERTIES BeatCompletes ReadCompletes FieldRead
