CONSTANTS
  Max = 10
  Window = 1
  MinRate = 2
  MaxRate = 4
  Rates = {1, 3, 6}
  LastBeat = 10
  Ncpus = 2
  CORES = 2
  FreqArray <- MCFreqArray
  Behind = 2
SPECIFICATION ScalersSpec
INVARIANTS TypeOK IndexKept BelowAtTop RecordsInArray FirstScaler
PROPERTY ScalerEnds
