CONSTANTS
  Max = 4
  Window = 2
  MinRate = 2
  MaxRate = 4
  Rates = {1, 3, 6}
  LastBeat = 5
  Ncpus = 2
  Guesses = {0, 1, 3}
  CORES = 1
  FreqArray <- MCFreqArray
SPECIFICATION FairBothSpec
INVARIANTS BothTypeOK CountKept BothIndexKept
PROPERTY ServicesEnd
