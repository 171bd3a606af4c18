CONSTANTS
  Threads = {t1}
  Monitors = {m1}
  Locals = {}
  Fields = {key, rates}
  BufferDepth = 2
  HasTextFile = FALSE
  MaxBeats = 3
  NoThread = NoThread
SPECIFICATION Spec
INVARIANT SuccessMeansCopied
