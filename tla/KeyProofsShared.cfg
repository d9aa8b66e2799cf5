SPECIFICATION KeyProofsSpec
CONSTANTS
  h1 = h1
  h2 = h2
  ann = ann
  bob = bob
  ea = ea
  eb = eb
  sa = sa
  pa = pa
  pb = pb
  style = style
  proofA = proofA
  proofB = proofB
  NoEntry = NoEntry
  NoTask = NoTask
  NoKey = NoKey
  NoValue = NoValue
  Style = style
  Capacity = 5
  Visitors = 1
  Callbacks <- BothCallbacks
  Ids <- MCIds
  EntityOf <- MCEntityOf
  EntityKey <- MCEntityKey
  StyleKey <- MCStyleKey
  ProofBy <- MCProofBy
  Values <- MCValues
  Keys <- SharedKeys
  ProofKeys <- SharedProofKeys
  ValuesOf <- SharedValuesOf
  Calls <- SharedCalls
  Handlers <- OneHandler
  Watchers <- MCWatchers
INVARIANTS
  ProofsAreOfEntity
