SPECIFICATION Spec
CONSTANTS
  p1 = p1
  p2 = p2
  ann = ann
  bob = bob
  annNew = annNew
  annOld = annOld
  both = both
  twice = twice
  none = none
  fA = fA
  fB = fB
  NoKey = NoKey
  NoFpr = NoFpr
  NoTime = NoTime
  NoFile = NoFile
  Posters <- MCPosters
  Addrs <- MCAddrs
  Keys <- MCKeys
  AddrOf <- MCAddrOf
  Fpr <- MCFpr
  Made <- MCMade
INVARIANTS
  TypeOK
  BrokenNeedsCause
PROPERTIES
  KeysMoveForward
  EmptyIsForGood
