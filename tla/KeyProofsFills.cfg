SPECIFICATION SteadyKeyProofs
CONSTANTS
  h1 = h1
  h2 = h2
  ann = ann
  bob = bob
  ea = ea
  eb = eb
  sa = sa
  pa = pa
  pb = pb
  style = style
  proofA = proofA
  proofB = proofB
  NoEntry = NoEntry
  NoTask = NoTask
  NoKey = NoKey
  NoValue = NoValue
  Style = style
  Capacity = 2
  Visitors = 1
  Callbacks <- StyleOnly
  Ids <- AnnId
  EntityOf <- MCEntityOf
  EntityKey <- AnnEntityKey
  StyleKey <- MCStyleKey
  ProofBy <- MCProofBy
  Values <- MCValues
  Keys <- AnnKeys
  ProofKeys <- NoProofKeys
  ValuesOf <- AnnValuesOf
  Calls <- AnnCalls
  Handlers <- TwoHandlers
  Watchers <- AnnWatchers
INVARIANTS
  MissingIsOnItsWay
PROPERTIES
  RequestAnswered
