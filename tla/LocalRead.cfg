CONSTANTS
  Threads = {t1}
  Monitors = {}
  Locals = {l1}
  Fields = {key, rates}
  BufferDepth = 3
  HasTextFile = FALSE
  MaxBeats = 4
  NoThread = NoThread
SPECIFICATION LocalSpec
INVARIANT LocalReadsOneRecord
CHECK_DEADLOCK FALSE
