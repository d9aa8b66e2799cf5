SPECIFICATION FetchSpec
CONSTANTS
  Idents <- MCIdents
  Addresses = {a, b, c}
  NoAddr = NoAddr
  Nobody = Nobody
INVARIANTS
  FetchTypeOK
  PrimaryIsFlagged
  ProofsAreAll
  LostWasPrimary
  SourcesHaveTheirSay
PROPERTIES
  FetchEnds
CHECK_DEADLOCK FALSE
