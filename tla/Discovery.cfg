CONSTANTS
  Pids = {1, 2}
  Depths = {1, 2}
  Beats = 4
  Max = 3
  Programs = {"system", "core_allocator", "combined"}
  Leftovers <- MCLeftovers
  LastRun = 2
SPECIFICATION FairSpec
INVARIANTS   AttachFails
PROPERTY MonitorEnds
