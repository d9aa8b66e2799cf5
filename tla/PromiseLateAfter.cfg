SPECIFICATION FairSpec
CONSTANTS
  k1 = k1
  k2 = k2
  v1 = v1
  v2 = v2
  c1 = c1
  c2 = c2
  c3 = c3
  w1 = w1
  NoEntry = NoEntry
  NoTask = NoTask
  NoKey = NoKey
  NoValue = NoValue
  Capacity = 1
  Keys <- MCKeys
  Values <- MCValues
  ValuesOf <- MCValuesOf
  Calls <- MC2Calls
  Watchers <- MC1Watchers
PROPERTY AfterRuns
