SPECIFICATION Spec
CONSTANTS
  k1 = k1
  k2 = k2
  v1 = v1
  v2 = v2
  c1 = c1
  c2 = c2
  c3 = c3
  w1 = w1
  NoEntry = NoEntry
  NoTask = NoTask
  NoKey = NoKey
  NoValue = NoValue
  Capacity = 1
  Keys <- MC2Keys
  Values <- MC2Values
  ValuesOf <- MC2ValuesOf
  Calls <- MCCalls
  Watchers <- MC1Watchers
SYMMETRY Symmetry
INVARIANTS
  TypeOK
  QueueHoldsLiveTasks
  HandleIsForKey
  FiresOnSuccess
  CacheIsComputed
PROPERTIES
  SettlesOnce
  FreshLossNeedsDuplicate
