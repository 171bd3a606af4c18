CONSTANTS
  CoreCount = 2
  FreqArray <- MCFreqArray
  States <- MCStates
  Decisions <- MCDecisions
  Window = 2
  MinRate = 2
  MaxRate = 4
  Rates = {1}
  Kp = 2
  Ki = 1
  Unreliable = {}
  Stray = 2
SPECIFICATION FairSpec
PROPERTY AllGiven
