CONSTANTS
  CoreCount = 2
  FreqArray <- MCFreqArray
  States <- MCStates
  Decisions <- MCDecisions
  Window = 2
  MinRate = 2
  MaxRate = 4
  Rates = {1, 3, 6}
  Kp = 1
  Ki = 1
  Unreliable <- MCUnreliable
  Stray = 2
SPECIFICATION Spec
INVARIANTS ValuesKnown RightWay CoresCounted StaircaseKept WholeWindow
